------------------------------- MODULE FriendCall -------------------------------
(***************************************************************************)
(* What a call between friends promises.  It rings once, for one caller    *)
(* and one callee, and then it is accepted, refused or missed, for good.   *)
(* An accepted call is listed at most once, and only while it opens do its *)
(* two parties, and nobody else, enter its room.  It leaves the list, and  *)
(* its room is emptied, only when it is itself over: what ends a call      *)
(* never takes the entry or the room of another one.                       *)
(***************************************************************************)
CONSTANTS Users, Calls, Pairs, Nobody, Nothing

VARIABLES
    stage,      \* how far each call has come
    party,      \* caller and callee of each call
    room,       \* the users in the room of each call
    listed,     \* the call under which each pair can be found, or Nothing
    over        \* the calls whose ending has begun or whose listing has lapsed

friendCall == <<party, room, listed, over, stage>>

Couple(c) == {party[c].from, party[c].to}

Init ==
    /\ stage  = [c \in Calls |-> "new"]
    /\ party  = [c \in Calls |-> [from |-> Nobody, to |-> Nobody]]
    /\ room   = [c \in Calls |-> {}]
    /\ listed = [p \in Pairs |-> Nothing]
    /\ over   = {}

\* The call c goes from a stage of one set to a stage of another.
Moves(c, from, to) ==
    /\ stage[c] \in from
    /\ \E s \in to : stage' = [stage EXCEPT ![c] = s]

Ring(c, u, v) ==
    /\ u # v
    /\ Moves(c, {"new"}, {"ringing"})
    /\ party' = [party EXCEPT ![c] = [from |-> u, to |-> v]]
    /\ UNCHANGED <<room, listed, over>>

\* One of them accepts or refuses it, or nobody does in time.
Resolve(c) ==
    /\ Moves(c, {"ringing"}, {"accepted", "refused", "missed"})
    /\ UNCHANGED <<party, room, listed, over>>

\* The accept goes on, and lists the call unless that fails.
Open(c) ==
    /\ Moves(c, {"accepted"}, {"opening"})
    /\ listed' \in {[listed EXCEPT ![Couple(c)] = c], listed}
    /\ UNCHANGED <<party, room, over>>

\* The accept is done with the call, or gives it up: nobody enters any more.
Settle(c) ==
    /\ Moves(c, {"accepted", "opening"}, {"settled"})
    /\ UNCHANGED <<party, room, listed, over>>

Enter(c, u) ==
    /\ u \in Couple(c) /\ stage[c] = "opening"
    /\ room' = [room EXCEPT ![c] = @ \cup {u}]
    /\ UNCHANGED <<party, listed, over, stage>>

\* An opened call is ended, by its accept, by one of its parties or by a block.
Finish(c) ==
    /\ over' = over \cup {c}
    /\ \/ Moves(c, {"opening"}, {"settled"})
       \/ stage[c] \in {"opening", "settled"} /\ UNCHANGED stage
    /\ UNCHANGED <<party, room, listed>>

\* The entry of c, if it is the one that the pair has, is taken out.
Delists(c) == listed' = [p \in Pairs |-> IF listed[p] = c THEN Nothing ELSE listed[p]]

Unlist(c) ==
    /\ c \in over
    /\ Delists(c)
    /\ UNCHANGED <<party, room, over, stage>>

\* The entry of an opened call outlives its time.
Lapse(c) ==
    /\ stage[c] \in {"opening", "settled"}
    /\ over' = over \cup {c}
    /\ Delists(c)
    /\ UNCHANGED <<party, room, stage>>

\* The room of a call that is over is emptied; a user is gone from every room.
Vacate(c) ==
    /\ c \in over
    /\ room' = [room EXCEPT ![c] = {}]
    /\ UNCHANGED <<party, listed, over, stage>>
Drop(u) ==
    /\ room' = [c \in Calls |-> room[c] \ {u}]
    /\ UNCHANGED <<party, listed, over, stage>>

Next ==
    \/ \E u \in Users : Drop(u)
    \/ \E c \in Calls : \/ Resolve(c) \/ Open(c) \/ Settle(c) \/ Finish(c)
                        \/ Unlist(c) \/ Lapse(c) \/ Vacate(c)
    \/ \E c \in Calls, u \in Users : Enter(c, u)
    \/ \E c \in Calls, u, v \in Users : Ring(c, u, v)

Spec == Init /\ [][Next]_friendCall
=============================================================================
