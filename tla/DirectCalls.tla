------------------------------ MODULE DirectCalls ------------------------------
(***************************************************************************)
(* 1:1 friend calls: CallService (ringing calls in Redis), the call:* and  *)
(* rtc:hangup handlers of MatchmakingGateway, the index of accepted calls  *)
(* by participant pair, and the enforcement of a block against it.         *)
(*                                                                         *)
(* As in Matchmaking, pc[h] names the await that the handler h has reached *)
(* and each Redis command, MULTI or script is one step.  A user has one    *)
(* socket; the call room call:<callId> is the set of the users in it.      *)
(***************************************************************************)
EXTENDS Naturals, FiniteSets, Sequences

CONSTANTS
    Users,       \* user ids
    Handlers,    \* slots for handlers in flight at the same time
    Calls,       \* call ids that randomUUID may mint, each used at most once
    MaxStarts,   \* bound: handlers started
    MaxFaults    \* bound: node crashes, failed writes and failed clearings of the index

NoUser == "noUser"
NoCall == "noCall"
ASSUME NullsAssumption  == NoUser \notin Users /\ NoCall \notin Calls
ASSUME BoundsAssumption == MaxStarts \in Nat /\ MaxFaults \in Nat

\* activeCallPairKey: the key of the unordered pair.
Pairs == {{u, v} : u, v \in Users}

VARIABLES
    \* Redis
    pending,    \* the calls whose mm:call:<callId> exists: ringing
    pairIdx,    \* active-call index: the call each pair key points to, or NoCall
    idIdx,      \* the calls whose reverse key exists
    \* MongoDB
    blocked,    \* block rows, as unordered pairs
    \* Socket.io and messages
    members,    \* the users whose socket is in the room of each call
    heard,      \* the users that were sent an event with the id of each call
    enforce,    \* block:enforce messages not yet handled, <<blocker, blocked>>
    \* handlers in flight
    pc, kind, who, mate, call,
    todo,       \* the users whose socketsJoin is outstanding
    found,      \* whether the reverse key was there when the teardown read it
    \* history and bounds
    party,      \* caller and callee of each call, as the pending record says
    answer,     \* the answers each call was given, one after another
    latest,     \* the call last written to each pair key
    torn,       \* calls whose teardown has begun
    lapsed,     \* calls whose index reached its TTL
    stranded,   \* calls of which a handler died or failed to clear the index
    starts, faults

redis    == <<pending, pairIdx, idIdx>>
sockets  == <<members, heard, enforce>>
locals   == <<kind, who, mate, call, todo, found>>
history  == <<party, answer, latest, torn, lapsed>>
bounds   == <<stranded, starts, faults>>
vars     == <<redis, blocked, sockets, pc, locals, history, bounds>>

Kind   == {"none", "invite", "accept", "decline", "end", "hangup", "enforce"}
Await  == {"idle", "gate", "mint", "consume", "check1", "index", "check2", "join",
           "getPending", "cancel", "inRoom", "lookup",
           "tdPending", "tdRead", "tdDelId", "tdDelPair", "tdLeave"}
Answer == {"accept", "decline", "cancel"}
Answers == Seq(Answer)

TypeOK ==
    /\ pending \subseteq Calls
    /\ pairIdx \in [Pairs -> Calls \cup {NoCall}]
    /\ idIdx   \subseteq Calls
    /\ blocked \subseteq Pairs
    /\ members \in [Calls -> SUBSET Users]
    /\ heard   \in [Calls -> SUBSET Users]
    /\ enforce \subseteq Users \X Users
    /\ pc      \in [Handlers -> Await]
    /\ kind    \in [Handlers -> Kind]
    /\ who     \in [Handlers -> Users \cup {NoUser}]
    /\ mate    \in [Handlers -> Users \cup {NoUser}]
    /\ call    \in [Handlers -> Calls \cup {NoCall}]
    /\ todo    \in [Handlers -> SUBSET Users]
    /\ found   \in [Handlers -> BOOLEAN]
    /\ party   \in [Calls -> [from : Users \cup {NoUser}, to : Users \cup {NoUser}]]
    /\ answer  \in [Calls -> Answers]
    /\ latest  \in [Pairs -> Calls \cup {NoCall}]
    /\ torn    \subseteq Calls
    /\ lapsed  \subseteq Calls
    /\ stranded \subseteq Calls \cup {NoCall}
    /\ starts  \in Nat
    /\ faults  \in Nat

Init ==
    /\ pending = {}
    /\ pairIdx = [p \in Pairs |-> NoCall]
    /\ idIdx   = {}
    /\ blocked = {}
    /\ members = [c \in Calls |-> {}]
    /\ heard   = [c \in Calls |-> {}]
    /\ enforce = {}
    /\ pc      = [h \in Handlers |-> "idle"]
    /\ kind    = [h \in Handlers |-> "none"]
    /\ who     = [h \in Handlers |-> NoUser]
    /\ mate    = [h \in Handlers |-> NoUser]
    /\ call    = [h \in Handlers |-> NoCall]
    /\ todo    = [h \in Handlers |-> {}]
    /\ found   = [h \in Handlers |-> FALSE]
    /\ party   = [c \in Calls |-> [from |-> NoUser, to |-> NoUser]]
    /\ answer  = [c \in Calls |-> <<>>]
    /\ latest  = [p \in Pairs |-> NoCall]
    /\ torn    = {}
    /\ lapsed  = {}
    /\ stranded = {}
    /\ starts  = 0
    /\ faults  = 0

-----------------------------------------------------------------------------
(* Helpers *)

Minted(c)  == party[c].from # NoUser
PairOf(c)  == {party[c].from, party[c].to}
Blocked(h) == PairOf(call[h]) \in blocked

Goto(h, p) == pc' = [pc EXCEPT ![h] = p]

Return(h) ==
    /\ pc'    = [pc EXCEPT ![h] = "idle"]
    /\ kind'  = [kind EXCEPT ![h] = "none"]
    /\ who'   = [who EXCEPT ![h] = NoUser]
    /\ mate'  = [mate EXCEPT ![h] = NoUser]
    /\ call'  = [call EXCEPT ![h] = NoCall]
    /\ todo'  = [todo EXCEPT ![h] = {}]
    /\ found' = [found EXCEPT ![h] = FALSE]

\* The server sends the users us an event that names the call c.
Send(c, us) == heard' = [heard EXCEPT ![c] = @ \cup us]

Answered(c, a) == answer' = [answer EXCEPT ![c] = Append(@, a)]

-----------------------------------------------------------------------------
(* Mutants: plausible bugs, each in the place of one definition below *)

\* consumePendingForCallee that reads the call and leaves the key to its TTL.
ConsumeKeeps(h) ==
    /\ pc[h] = "consume"
    /\ IF call[h] \in pending /\ party[call[h]].to = who[h]
       THEN /\ Answered(call[h], kind[h])
            /\ IF kind[h] = "accept"
               THEN Goto(h, "check1") /\ UNCHANGED <<heard, locals>>
               ELSE Send(call[h], {party[call[h]].from}) /\ Return(h)
       ELSE Return(h) /\ UNCHANGED <<answer, heard>>
    /\ UNCHANGED <<redis, blocked, members, enforce, party, latest, torn, lapsed, bounds>>

\* The pair key deleted whatever call it points to.
DeletePairBlindly(h) ==
    /\ pc[h] = "tdDelPair"
    /\ pairIdx' = [pairIdx EXCEPT ![PairOf(call[h])] = NoCall]
    /\ Goto(h, "tdLeave")
    /\ UNCHANGED <<pending, idIdx, blocked, sockets, locals, history, bounds>>

\* The accept without the second look at the block.
SecondCheckSkipped(h) ==
    /\ pc[h] = "check2"
    /\ Goto(h, "join")
    /\ todo' = [todo EXCEPT ![h] = PairOf(call[h])]
    /\ UNCHANGED <<redis, blocked, sockets, kind, who, mate, call, found, history, bounds>>

\* endCallBetween without its early return when the pair has no call.
LookupUnguarded(h) ==
    /\ pc[h] = "lookup"
    /\ LET c == pairIdx[{who[h], mate[h]}] IN
         /\ call' = [call EXCEPT ![h] = c]
         /\ Send(c, {who[h], mate[h]})
         /\ torn' = torn \cup {c}
         /\ Goto(h, "tdPending")
         /\ UNCHANGED <<kind, who, mate, todo, found>>
    /\ UNCHANGED <<redis, blocked, members, enforce, party, answer, latest, lapsed, bounds>>

\* A cancel that relies on the getPending before it instead of its own GETDEL.
CancelUnchecked(h) ==
    /\ pc[h] = "cancel"
    /\ pending' = pending \ {call[h]}
    /\ Answered(call[h], "cancel")
    /\ Send(call[h], PairOf(call[h]) \ {who[h]})
    /\ Return(h)
    /\ UNCHANGED <<pairIdx, idIdx, blocked, members, enforce, party, latest, torn, lapsed, bounds>>

-----------------------------------------------------------------------------
(* A handler starts *)

Start(h, k, u, p) ==
    /\ pc[h] = "idle"
    /\ starts < MaxStarts
    /\ starts' = starts + 1
    /\ pc'   = [pc EXCEPT ![h] = p]
    /\ kind' = [kind EXCEPT ![h] = k]
    /\ who'  = [who EXCEPT ![h] = u]
    /\ UNCHANGED <<redis, blocked, members, heard, todo, found, history, stranded, faults>>

\* call:invite from u to v, past the rate limit and the schema.
StartInvite(h, u, v) ==
    /\ u # v
    /\ Start(h, "invite", u, "gate")
    /\ mate' = [mate EXCEPT ![h] = v]
    /\ UNCHANGED <<enforce, call>>

\* call:accept or call:decline of a call whose id u was sent.
StartResponse(h, u, c, k) ==
    /\ u \in heard[c]
    /\ Start(h, k, u, "consume")
    /\ call' = [call EXCEPT ![h] = c]
    /\ UNCHANGED <<enforce, mate>>

\* call:end.
StartEnd(h, u, c) ==
    /\ u \in heard[c]
    /\ Start(h, "end", u, "getPending")
    /\ call' = [call EXCEPT ![h] = c]
    /\ UNCHANGED <<enforce, mate>>

\* rtc:hangup naming the call room (the id is in no matchmaking room).
StartHangup(h, u, c) ==
    /\ u \in heard[c]
    /\ Start(h, "hangup", u, "inRoom")
    /\ call' = [call EXCEPT ![h] = c]
    /\ UNCHANGED <<enforce, mate>>

\* A node receives a block:enforce message.
StartEnforce(h, u, v) ==
    /\ <<u, v>> \in enforce
    /\ enforce' = enforce \ {<<u, v>>}
    /\ Start(h, "enforce", u, "lookup")
    /\ mate' = [mate EXCEPT ![h] = v]
    /\ UNCHANGED call

-----------------------------------------------------------------------------
(* call:invite *)

\* isBlockedEitherWay; then presence and whoCanCall may refuse as well.
InviteGate(h) ==
    /\ pc[h] = "gate"
    /\ \/ {who[h], mate[h]} \notin blocked /\ Goto(h, "mint") /\ UNCHANGED locals
       \/ Return(h)
    /\ UNCHANGED <<redis, blocked, sockets, history, bounds>>

\* createPending, and the invite to the callee.
CreatePending(h) ==
    /\ pc[h] = "mint"
    /\ \E c \in Calls :
         /\ ~Minted(c)
         /\ party' = [party EXCEPT ![c] = [from |-> who[h], to |-> mate[h]]]
         /\ pending' = pending \cup {c}
         /\ Send(c, {mate[h]})
    /\ Return(h)
    /\ UNCHANGED <<pairIdx, idIdx, blocked, members, enforce, answer, latest, torn, lapsed, bounds>>

-----------------------------------------------------------------------------
(* call:accept and call:decline *)

\* CONSUME_FOR_CALLEE_LUA; a decline tells the caller and is done.
ConsumePending(h) ==
    /\ pc[h] = "consume"
    /\ IF call[h] \in pending /\ party[call[h]].to = who[h]
       THEN /\ pending' = pending \ {call[h]}
            /\ Answered(call[h], kind[h])
            /\ IF kind[h] = "accept"
               THEN Goto(h, "check1") /\ UNCHANGED <<heard, locals>>
               ELSE Send(call[h], {party[call[h]].from}) /\ Return(h)
       ELSE Return(h) /\ UNCHANGED <<pending, answer, heard>>
    /\ UNCHANGED <<pairIdx, idIdx, blocked, members, enforce, party, latest, torn, lapsed, bounds>>

\* The block read after the consume: call:end to both, nothing to undo.
FirstCheck(h) ==
    /\ pc[h] = "check1"
    /\ IF Blocked(h)
       THEN Send(call[h], PairOf(call[h])) /\ Return(h)
       ELSE Goto(h, "index") /\ UNCHANGED <<heard, locals>>
    /\ UNCHANGED <<redis, blocked, members, enforce, history, bounds>>

\* indexActiveCall: both keys, one MULTI.
IndexActiveCall(h) ==
    /\ pc[h] = "index"
    /\ pairIdx' = [pairIdx EXCEPT ![PairOf(call[h])] = call[h]]
    /\ idIdx'   = idIdx \cup {call[h]}
    /\ latest'  = [latest EXCEPT ![PairOf(call[h])] = call[h]]
    /\ Goto(h, "check2")
    /\ UNCHANGED <<pending, blocked, sockets, locals, party, answer, torn, lapsed, bounds>>

\* The index write fails: swallowed, the accept goes on.
IndexFails(h) ==
    /\ pc[h] = "index"
    /\ faults < MaxFaults
    /\ faults' = faults + 1
    /\ Goto(h, "check2")
    /\ UNCHANGED <<redis, blocked, sockets, locals, history, stranded, starts>>

\* The block read after the index write: on a block, call:end and the teardown.
SecondCheck(h) ==
    /\ pc[h] = "check2"
    /\ IF Blocked(h)
       THEN /\ Send(call[h], PairOf(call[h]))
            /\ torn' = torn \cup {call[h]}
            /\ Goto(h, "tdPending") /\ UNCHANGED todo
       ELSE /\ Goto(h, "join")
            /\ todo' = [todo EXCEPT ![h] = PairOf(call[h])]
            /\ UNCHANGED <<heard, torn>>
    /\ UNCHANGED <<redis, blocked, members, enforce, kind, who, mate, call, found,
                   party, answer, latest, lapsed, bounds>>

\* The two socketsJoin run side by side.
SocketsJoin(h) ==
    /\ pc[h] = "join"
    /\ \E u \in todo[h] :
         /\ members' = [members EXCEPT ![call[h]] = @ \cup {u}]
         /\ todo' = [todo EXCEPT ![h] = @ \ {u}]
    /\ UNCHANGED <<redis, blocked, heard, enforce, pc, kind, who, mate, call, found,
                   history, bounds>>

\* Both are in: call:accept to the caller.
Announce(h) ==
    /\ pc[h] = "join"
    /\ todo[h] = {}
    /\ Send(call[h], {party[call[h]].from})
    /\ Return(h)
    /\ UNCHANGED <<redis, blocked, members, enforce, history, bounds>>

-----------------------------------------------------------------------------
(* call:end and rtc:hangup *)

\* getPending decides between the two phases of call:end.
GetPending(h) ==
    /\ pc[h] = "getPending"
    /\ Goto(h, IF call[h] \in pending THEN "cancel" ELSE "inRoom")
    /\ UNCHANGED <<redis, blocked, sockets, locals, history, bounds>>

\* GETDEL_LUA; whoever clears the ring tells the other side.
Cancel(h) ==
    /\ pc[h] = "cancel"
    /\ IF call[h] \in pending
       THEN /\ pending' = pending \ {call[h]}
            /\ Answered(call[h], "cancel")
            /\ Send(call[h], PairOf(call[h]) \ {who[h]})
       ELSE UNCHANGED <<pending, answer, heard>>
    /\ Return(h)
    /\ UNCHANGED <<pairIdx, idIdx, blocked, members, enforce, party, latest, torn, lapsed, bounds>>

\* isInCallRoom: only a member of the room ends the call.
InCallRoom(h) ==
    /\ pc[h] = "inRoom"
    /\ IF who[h] \in members[call[h]]
       THEN /\ Send(call[h], members[call[h]] \ {who[h]})
            /\ torn' = torn \cup {call[h]}
            /\ Goto(h, "tdPending") /\ UNCHANGED locals
       ELSE Return(h) /\ UNCHANGED <<heard, torn>>
    /\ UNCHANGED <<redis, blocked, members, enforce, party, answer, latest, lapsed, bounds>>

-----------------------------------------------------------------------------
(* endCallBetween *)

\* GET of the pair key; call:end to both, then the teardown.
LookupPair(h) ==
    /\ pc[h] = "lookup"
    /\ LET c == pairIdx[{who[h], mate[h]}] IN
         IF c # NoCall
         THEN /\ call' = [call EXCEPT ![h] = c]
              /\ Send(c, {who[h], mate[h]})
              /\ torn' = torn \cup {c}
              /\ Goto(h, "tdPending")
              /\ UNCHANGED <<kind, who, mate, todo, found>>
         ELSE Return(h) /\ UNCHANGED <<heard, torn>>
    /\ UNCHANGED <<redis, blocked, members, enforce, party, answer, latest, lapsed, bounds>>

-----------------------------------------------------------------------------
(* teardownCallRoom *)

TdClearPending(h) ==
    /\ pc[h] = "tdPending"
    /\ pending' = pending \ {call[h]}
    /\ Goto(h, "tdRead")
    /\ UNCHANGED <<pairIdx, idIdx, blocked, sockets, locals, history, bounds>>

\* clearActiveCallIndex: GET and DEL of the reverse key ...
TdReadId(h) ==
    /\ pc[h] = "tdRead"
    /\ found' = [found EXCEPT ![h] = call[h] \in idIdx]
    /\ Goto(h, "tdDelId")
    /\ UNCHANGED <<redis, blocked, sockets, kind, who, mate, call, todo, history, bounds>>

TdDeleteId(h) ==
    /\ pc[h] = "tdDelId"
    /\ idIdx' = idIdx \ {call[h]}
    /\ Goto(h, IF found[h] THEN "tdDelPair" ELSE "tdLeave")
    /\ UNCHANGED <<pending, pairIdx, blocked, sockets, locals, history, bounds>>

\* ... and COMPARE_AND_DEL_LUA on the pair key.
TdDeletePair(h) ==
    /\ pc[h] = "tdDelPair"
    /\ pairIdx' = [pairIdx EXCEPT ![PairOf(call[h])] = IF @ = call[h] THEN NoCall ELSE @]
    /\ Goto(h, "tdLeave")
    /\ UNCHANGED <<pending, idIdx, blocked, sockets, locals, history, bounds>>

\* A command of clearActiveCallIndex fails: swallowed, the room is emptied still.
TdIndexFails(h) ==
    /\ pc[h] \in {"tdRead", "tdDelId", "tdDelPair"}
    /\ faults < MaxFaults
    /\ faults' = faults + 1
    /\ stranded' = stranded \cup {call[h]}
    /\ Goto(h, "tdLeave")
    /\ UNCHANGED <<redis, blocked, sockets, locals, history, starts>>

\* socketsLeave.
TdSocketsLeave(h) ==
    /\ pc[h] = "tdLeave"
    /\ members' = [members EXCEPT ![call[h]] = {}]
    /\ Return(h)
    /\ UNCHANGED <<redis, blocked, heard, enforce, history, bounds>>

-----------------------------------------------------------------------------
(* The environment *)

\* A user blocks another: the row is written, then block:enforce published.
Block(u, v) ==
    /\ u # v
    /\ {u, v} \notin blocked
    /\ blocked' = blocked \cup {{u, v}}
    /\ enforce' = enforce \cup {<<u, v>>}
    /\ UNCHANGED <<redis, members, heard, pc, locals, history, bounds>>

\* CALL_RING_TTL_SECONDS.
RingExpires(c) ==
    /\ c \in pending
    /\ pending' = pending \ {c}
    /\ UNCHANGED <<pairIdx, idIdx, blocked, sockets, pc, locals, history, bounds>>

\* ACTIVE_CALL_TTL_SECONDS, on both keys of the index.
IndexExpires(c) ==
    /\ c \in idIdx
    /\ idIdx' = idIdx \ {c}
    /\ pairIdx' = [p \in Pairs |-> IF pairIdx[p] = c THEN NoCall ELSE pairIdx[p]]
    /\ lapsed' = lapsed \cup {c}
    /\ UNCHANGED <<pending, blocked, sockets, pc, locals, party, answer, latest, torn, bounds>>

\* The socket of u drops and a new one connects: it is in no call room, and
\* nothing else happens to the call.
Reconnect(u) ==
    /\ \E c \in Calls : u \in members[c]
    /\ members' = [c \in Calls |-> members[c] \ {u}]
    /\ UNCHANGED <<redis, blocked, heard, enforce, pc, locals, history, bounds>>

\* The node that runs h dies; what h had to do for its call is not done.
Crash(h) ==
    /\ pc[h] # "idle"
    /\ faults < MaxFaults
    /\ faults' = faults + 1
    /\ stranded' = stranded \cup {IF pc[h] = "lookup" THEN pairIdx[{who[h], mate[h]}] ELSE call[h]}
    /\ Return(h)
    /\ UNCHANGED <<redis, blocked, sockets, history, starts>>

-----------------------------------------------------------------------------
StartAny(h) ==
    \/ \E u, v \in Users : StartInvite(h, u, v) \/ StartEnforce(h, u, v)
    \/ \E u \in Users, c \in Calls : \/ StartResponse(h, u, c, "accept")
                                     \/ StartResponse(h, u, c, "decline")
                                     \/ StartEnd(h, u, c)
                                     \/ StartHangup(h, u, c)

Step(h) ==
    \/ InviteGate(h) \/ CreatePending(h)
    \/ ConsumePending(h) \/ FirstCheck(h) \/ IndexActiveCall(h) \/ IndexFails(h)
    \/ SecondCheck(h) \/ SocketsJoin(h) \/ Announce(h)
    \/ GetPending(h) \/ Cancel(h) \/ InCallRoom(h) \/ LookupPair(h)
    \/ TdClearPending(h) \/ TdReadId(h) \/ TdDeleteId(h) \/ TdDeletePair(h)
    \/ TdIndexFails(h) \/ TdSocketsLeave(h)

Environment ==
    \/ \E u, v \in Users : Block(u, v)
    \/ \E c \in Calls : RingExpires(c) \/ IndexExpires(c)
    \/ \E u \in Users : Reconnect(u)
    \/ \E h \in Handlers : Crash(h)

Next ==
    \/ \E h \in Handlers : StartAny(h) \/ Step(h)
    \/ Environment

Spec == Init /\ [][Next]_vars

-----------------------------------------------------------------------------
(* Properties *)

\* No handler is in flight and every block has been enforced.
Quiet == enforce = {} /\ \A h \in Handlers : pc[h] = "idle"

\* A call is answered once, whichever of its parties and however many of their
\* devices and retries race for the ring key: accept, decline and cancel exclude
\* each other, and no two of a kind succeed.
AnsweredOnce == \A c \in Calls : Len(answer[c]) <= 1

\* The teardown of an old call does not take a newer one of the same pair out of
\* the index: the call last indexed stays findable until it is itself ended.
NewestCallIndexed ==
    \A p \in Pairs : latest[p] # NoCall /\ latest[p] \notin torn \cup lapsed
        => pairIdx[p] = latest[p]

\* Once a block has been enforced no call of the pair is left in the index,
\* wherever in an accept the block fell: the second check makes up for an
\* enforcement that came before the index write.  Only a call of which a handler
\* died, or failed to clear the index, may stay there; a failed index write
\* excuses none.
BlockedPairNotIndexed ==
    Quiet => \A p \in blocked : pairIdx[p] \in stranded \cup {NoCall}

\* Invites, answers, teardowns, blocks and expiries together do what FriendCall
\* promises: the handler that consumed the ring carries the call through its
\* checks, its index write and its joins.
Accepted == {call[h] : h \in {g \in Handlers : pc[g] \in {"check1", "index"}}}
Opening  == {call[h] : h \in {g \in Handlers : pc[g] \in {"check2", "join"}}}
StageOf(c) ==
    IF ~Minted(c) THEN "new"
    ELSE IF c \in pending THEN "ringing"
    ELSE IF answer[c] = <<>> THEN "missed"
    ELSE IF Head(answer[c]) # "accept" THEN "refused"
    ELSE IF c \in Accepted THEN "accepted"
    ELSE IF c \in Opening THEN "opening" ELSE "settled"
Stages == [c \in Calls |-> StageOf(c)]

Friends == INSTANCE FriendCall WITH
    Nobody <- NoUser, Nothing <- NoCall, stage <- Stages, room <- members,
    listed <- pairIdx, over <- torn \cup lapsed
FriendCallSpec == Friends!Spec

\* What the documentation says of a block: no accepted call of the pair survives
\* it, within the six hours that the index of a call lives.
BlockEndsCall ==
    Quiet /\ faults = 0 =>
        \A c \in Calls \ lapsed :
            Minted(c) /\ PairOf(c) \in blocked => members[c] # PairOf(c)
=============================================================================
