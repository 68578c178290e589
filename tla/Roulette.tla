-------------------------------- MODULE Roulette --------------------------------
(***************************************************************************)
(* What the roulette promises, whatever handlers, expiries and crashes lie *)
(* behind it.  Users wait for a modality; a matcher takes two of them, one *)
(* of whom accepts the other, out of the same queue at once; at most one   *)
(* room is opened for the two, with their modality; it goes live once,     *)
(* seats these two and nobody else, and its record is closed only after it *)
(* is over.                                                                *)
(***************************************************************************)
CONSTANTS
    Users, Rooms, Modes,
    Matchers,     \* who takes pairs, one at a time
    Suited,       \* pairs <<u, v>>: the user u accepts v, not always the other way round
    Nowhere       \* where a user without a room sits

VARIABLES
    waiting,      \* the users who wait for each modality
    deal,         \* the pair each matcher has taken and found no room yet
    room,         \* the stage of each room, its pair and its modality
    seat          \* the live room each user is routed to

roulette == <<waiting, deal, room, seat>>

NoDeal == [pair |-> {}, type |-> "none"]
Fresh  == [stage |-> "none", pair |-> {}, type |-> "none"]

Init ==
    /\ waiting = [t \in Modes |-> {}]
    /\ deal    = [m \in Matchers |-> NoDeal]
    /\ room    = [r \in Rooms |-> Fresh]
    /\ seat    = [u \in Users |-> Nowhere]

\* The users us are routed nowhere any more.
Stand(us) == seat' = [u \in Users |-> IF u \in us THEN Nowhere ELSE seat[u]]

Ask(u, t) ==
    /\ waiting' = [waiting EXCEPT ![t] = @ \cup {u}]
    /\ UNCHANGED <<deal, room, seat>>

\* Users leave the queues, of their own accord or as stale.
Withdraw ==
    /\ \E gone \in [Modes -> SUBSET Users] : waiting' = [t \in Modes |-> waiting[t] \ gone[t]]
    /\ UNCHANGED <<deal, room, seat>>

Take(m, u, v, t) ==
    /\ deal[m] = NoDeal
    /\ u # v /\ <<u, v>> \in Suited
    /\ {u, v} \subseteq waiting[t]
    /\ waiting' = [waiting EXCEPT ![t] = @ \ {u, v}]
    /\ deal' = [deal EXCEPT ![m] = [pair |-> {u, v}, type |-> t]]
    /\ UNCHANGED <<room, seat>>

\* The pair is lost between the claim and the record.
Forget(m) ==
    /\ deal[m] # NoDeal
    /\ deal' = [deal EXCEPT ![m] = NoDeal]
    /\ UNCHANGED <<waiting, room, seat>>

Open(m, r) ==
    /\ deal[m] # NoDeal
    /\ room[r] = Fresh
    /\ room' = [room EXCEPT ![r] = [stage |-> "open", pair |-> deal[m].pair, type |-> deal[m].type]]
    /\ deal' = [deal EXCEPT ![m] = NoDeal]
    /\ UNCHANGED <<waiting, seat>>

GoLive(r) ==
    /\ room[r].stage = "open"
    /\ room' = [room EXCEPT ![r].stage = "live"]
    /\ seat' = [u \in Users |-> IF u \in room[r].pair THEN r ELSE seat[u]]
    /\ UNCHANGED <<waiting, deal>>

\* The room never comes to live.
Abandon(r) ==
    /\ room[r].stage = "open"
    /\ room' = [room EXCEPT ![r].stage = "over"]
    /\ UNCHANGED <<waiting, deal, seat>>

\* A room that ends leaves nobody routed to it, and unseats none but its pair.
End(r) ==
    /\ room[r].stage = "live"
    /\ room' = [room EXCEPT ![r].stage = "over"]
    /\ \E us \in SUBSET room[r].pair : Stand(us)
    /\ \A u \in Users : seat'[u] # r
    /\ UNCHANGED <<waiting, deal>>

\* A late teardown unseats users of a room that is over, or one user.
Unseat ==
    /\ \E us \in {room[r].pair : r \in {q \in Rooms : room[q].stage \in {"over", "closed"}}}
                  \cup {{u} : u \in Users} : Stand(us)
    /\ UNCHANGED <<waiting, deal, room>>

Close(rs) ==
    /\ \A r \in rs : room[r].stage = "over"
    /\ room' = [r \in Rooms |-> IF r \in rs THEN [room[r] EXCEPT !.stage = "closed"] ELSE room[r]]
    /\ UNCHANGED <<waiting, deal, seat>>

Next ==
    \/ \E u \in Users, t \in Modes : Ask(u, t)
    \/ Withdraw
    \/ \E m \in Matchers, u, v \in Users, t \in Modes : Take(m, u, v, t)
    \/ \E m \in Matchers : Forget(m)
    \/ \E m \in Matchers, r \in Rooms : Open(m, r)
    \/ \E r \in Rooms : GoLive(r) \/ Abandon(r) \/ End(r)
    \/ Unseat
    \/ \E rs \in SUBSET Rooms : Close(rs)

Spec == Init /\ [][Next]_roulette
=============================================================================
