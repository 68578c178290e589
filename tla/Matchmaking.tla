------------------------------ MODULE Matchmaking ------------------------------
(***************************************************************************)
(* The roulette: MatchmakingService (Redis pool and rooms), MatchService   *)
(* (the durable match log) and the handlers of MatchmakingGateway that     *)
(* drive them.                                                             *)
(*                                                                         *)
(* A handler is an async function: it runs from one await to the next, and *)
(* between two awaits any other handler, on this node or another, may run. *)
(* Each Redis command, MULTI or Lua script and each MongoDB call is one    *)
(* atomic step here, so pc[h] names the await the handler h has reached.   *)
(*                                                                         *)
(* Abstractions.  The gates of a matcher but the block are the constant    *)
(* relation Accepts.  It is not symmetric: demographic filters and         *)
(* whoCanCall bind both sides, but sharedInterestsOnly is asked of the     *)
(* joiner alone, so a waiter may be turned down by a joiner whom its own   *)
(* matcher would have taken.  The ranking of candidates is left open: a    *)
(* matcher tries them in any order, and a batch is any part of the pool of *)
(* the batch's size.  One device per user.                                 *)
(***************************************************************************)
EXTENDS Naturals, FiniteSets

CONSTANTS
    Users,       \* user ids
    Handlers,    \* slots for handlers in flight at the same time
    Rooms,       \* room ids that randomUUID may mint, each used at most once
    Accepts,     \* pairs <<u, v>>: the joiner u may be paired with the waiter v
    AskedTypes,  \* the modalities clients ask for
    Batch,       \* MATCH_CANDIDATE_BATCH
    Started,     \* bound: the kinds of handler that start
    MaxStarts,   \* bound: handlers started
    MaxFaults    \* bound: node crashes, failed database writes, missed heartbeats

MatchType == {"video", "voice"}

ASSUME AcceptsAssumption == Accepts \subseteq Users \X Users
ASSUME TypesAssumption == AskedTypes \subseteq MatchType
ASSUME BoundsAssumption == Batch \in Nat /\ MaxStarts \in Nat /\ MaxFaults \in Nat

NoRoom == "noRoom"
NoUser == "noUser"
ASSUME NullsAssumption == NoRoom \notin Rooms /\ NoUser \notin Users

VARIABLES
    \* Redis
    pool,       \* mm:pool:<type>, the members of each sorted set
    waiter,     \* mm:waiter:<user>, the type of the stored entry or "none"
    live,       \* the rooms whose mm:room:<room> hash exists
    userRoom,   \* mm:userroom:<user>, the room it points to or NoRoom
    presence,   \* the users whose presence status key is not offline
    \* MongoDB
    match,      \* status of the Match row of each room: none, open, closed
    row,        \* what the row and the room hash say: both users and the type
    blocked,    \* block rows, as unordered pairs
    \* clients and messages
    sock,       \* the users with a connected socket
    told,       \* the last matchmaking event the server sent to each user
    enforce,    \* block:enforce messages not yet handled, <<blocker, blocked>>
    \* handlers in flight
    pc,         \* the await each handler has reached
    kind,       \* which handler it is
    who,        \* the user it acts for
    mate,       \* the other user: the claimed peer, or the blocked user
    rm,         \* the room id it has read or minted
    mode,       \* the match type it works with
    cand,       \* candidates it still considers
    drop,       \* pool members it is about to remove as stale or dead
    \* history and bounds
    joins,      \* enqueues of each user
    elders,     \* the users who have not enqueued since each user last did
    claims,     \* how often each user was claimed from a pool
    fallen,     \* users of whom a handler died since they last enqueued
    starts,     \* handlers started so far
    faults      \* crashes, failed writes and missed heartbeats so far

redis    == <<pool, waiter, live, userRoom, presence>>
mongo    == <<match, row, blocked>>
clients  == <<sock, told, enforce>>
locals   == <<kind, who, mate, rm, mode, cand, drop>>
counters == <<joins, elders, claims, fallen, starts, faults>>
vars     == <<redis, mongo, clients, pc, locals, counters>>

Kind  == {"join", "next", "bareNext", "leave", "disconnect", "hangup", "enforce", "kick"}
Await == {"idle", "pointer", "disc", "dequeue", "member", "peerOf",
          "tdPointer", "tdRoom", "tdDangling", "tdDelete", "tdEnd",
          "enqueue", "scan", "load", "prune", "live", "evict", "gate",
          "claim", "queued", "create", "write", "deliver", "noMatch"}
Told  == {"none", "waiting", "matched", "hangup"}

RedisType ==
    /\ pool     \in [MatchType -> SUBSET Users]
    /\ waiter   \in [Users -> MatchType \cup {"none"}]
    /\ live     \subseteq Rooms
    /\ userRoom \in [Users -> Rooms \cup {NoRoom}]
    /\ presence \subseteq Users

MongoType ==
    /\ match    \in [Rooms -> {"none", "open", "closed"}]
    /\ row      \in [Rooms -> [a : Users \cup {NoUser}, b : Users \cup {NoUser},
                               type : MatchType]]
    /\ blocked  \subseteq SUBSET Users

ClientsType ==
    /\ sock     \subseteq Users
    /\ told     \in [Users -> Told]
    /\ enforce  \subseteq Users \X Users

LocalsType ==
    /\ pc       \in [Handlers -> Await]
    /\ kind     \in [Handlers -> Kind]
    /\ who      \in [Handlers -> Users \cup {NoUser}]
    /\ mate     \in [Handlers -> Users \cup {NoUser}]
    /\ rm       \in [Handlers -> Rooms \cup {NoRoom}]
    /\ mode     \in [Handlers -> MatchType]
    /\ cand     \in [Handlers -> SUBSET Users]
    /\ drop     \in [Handlers -> SUBSET Users]

CountersType ==
    /\ joins    \in [Users -> Nat]
    /\ elders   \in [Users -> SUBSET Users]
    /\ claims   \in [Users -> Nat]
    /\ fallen   \subseteq Users
    /\ starts   \in Nat
    /\ faults   \in Nat

TypeOK == RedisType /\ MongoType /\ ClientsType /\ LocalsType /\ CountersType

Init ==
    /\ pool     = [t \in MatchType |-> {}]
    /\ waiter   = [u \in Users |-> "none"]
    /\ live     = {}
    /\ userRoom = [u \in Users |-> NoRoom]
    /\ presence = Users
    /\ match    = [r \in Rooms |-> "none"]
    /\ row      = [r \in Rooms |-> [a |-> NoUser, b |-> NoUser, type |-> "video"]]
    /\ blocked  = {}
    /\ sock     = Users
    /\ told     = [u \in Users |-> "none"]
    /\ enforce  = {}
    /\ pc       = [h \in Handlers |-> "idle"]
    /\ kind     = [h \in Handlers |-> "join"]
    /\ who      = [h \in Handlers |-> NoUser]
    /\ mate     = [h \in Handlers |-> NoUser]
    /\ rm       = [h \in Handlers |-> NoRoom]
    /\ mode     = [h \in Handlers |-> "video"]
    /\ cand     = [h \in Handlers |-> {}]
    /\ drop     = [h \in Handlers |-> {}]
    /\ joins    = [u \in Users |-> 0]
    /\ elders   = [u \in Users |-> Users \ {u}]
    /\ claims   = [u \in Users |-> 0]
    /\ fallen   = {}
    /\ starts   = 0
    /\ faults   = 0

-----------------------------------------------------------------------------
(* Helpers *)

Members(r)   == {row[r].a, row[r].b}
PeerOf(r, u) == IF row[r].a = u THEN row[r].b ELSE row[r].a

\* The handler h moves on to the await p, changing nothing else of its own.
Goto(h, p) == pc' = [pc EXCEPT ![h] = p]

\* The handler h returns: its local variables are gone.
Return(h) ==
    /\ pc'   = [pc EXCEPT ![h] = "idle"]
    /\ kind' = [kind EXCEPT ![h] = "join"]
    /\ who'  = [who EXCEPT ![h] = NoUser]
    /\ mate' = [mate EXCEPT ![h] = NoUser]
    /\ rm'   = [rm EXCEPT ![h] = NoRoom]
    /\ mode' = [mode EXCEPT ![h] = "video"]
    /\ cand' = [cand EXCEPT ![h] = {}]
    /\ drop' = [drop EXCEPT ![h] = {}]

\* After its teardown a re-join and a skip go on to enqueue; the others return.
AfterTeardown(h) ==
    IF kind[h] \in {"join", "next"}
    THEN Goto(h, "enqueue") /\ rm' = [rm EXCEPT ![h] = NoRoom]
         /\ UNCHANGED <<kind, who, mate, mode, cand, drop>>
    ELSE Return(h)

\* The server emits e to the users us.
Tell(us, e) == told' = [u \in Users |-> IF u \in us THEN e ELSE told[u]]

-----------------------------------------------------------------------------
(* Mutants: plausible bugs, each in the place of one definition below *)

\* DELETE_ROOM_LUA given only the pointer of the user who hung up.
DeleteRoomOnePointer(h) ==
    /\ pc[h] = "tdDelete"
    /\ live' = live \ {rm[h]}
    /\ userRoom' = [userRoom EXCEPT ![who[h]] = NoRoom]
    /\ IF rm[h] \in live
       THEN Goto(h, "tdEnd") /\ UNCHANGED <<told, locals>>
       ELSE Tell({PeerOf(rm[h], who[h])}, "hangup") /\ AfterTeardown(h)
    /\ UNCHANGED <<pool, waiter, presence, mongo, sock, enforce, counters>>

\* CLAIM_PAIR_LUA without its first ZSCORE: only the candidate must be queued.
ClaimPairUnchecked(h) ==
    /\ pc[h] = "claim"
    /\ \E c \in cand[h] :
         IF c \in pool[mode[h]]
         THEN /\ pool'   = [pool EXCEPT ![mode[h]] = @ \ {who[h], c}]
              /\ waiter' = [waiter EXCEPT ![who[h]] = "none", ![c] = "none"]
              /\ claims' = [u \in Users |-> IF u \in {who[h], c} THEN claims[u] + 1
                                                                 ELSE claims[u]]
              /\ mate'   = [mate EXCEPT ![h] = c]
              /\ cand'   = [cand EXCEPT ![h] = {}]
              /\ Goto(h, "create")
         ELSE /\ cand' = [cand EXCEPT ![h] = @ \ {c}]
              /\ Goto(h, "queued")
              /\ UNCHANGED <<pool, waiter, mate, claims>>
    /\ UNCHANGED <<live, userRoom, presence, mongo, clients,
                   kind, who, rm, mode, drop, joins, elders, fallen, starts, faults>>

\* sharedInterestsOnly read from the candidate instead of the joiner.
LoadWaitersSwapped(h) ==
    /\ pc[h] = "load"
    /\ LET stale == {c \in cand[h] : waiter[c] = "none"} IN
       /\ drop' = [drop EXCEPT ![h] = stale]
       /\ cand' = [cand EXCEPT ![h] =
                     {c \in @ : waiter[c] = mode[h] /\ <<c, who[h]>> \in Accepts}]
       /\ Goto(h, IF stale = {} THEN "live" ELSE "prune")
    /\ UNCHANGED <<redis, mongo, clients, kind, who, mate, rm, mode, counters>>

\* The block gate asks whether the joiner is in any block, not in one with the candidate.
GateAnyBlock(h) ==
    /\ pc[h] = "gate"
    /\ cand' = [cand EXCEPT ![h] = {c \in @ : \A b \in blocked : who[h] \notin b}]
    /\ Goto(h, "claim")
    /\ UNCHANGED <<redis, mongo, clients, kind, who, mate, rm, mode, drop, counters>>

\* The modality of the row taken from the peer's waiter hash, which the claim
\* has deleted.
CreateMatchFromHash(h) ==
    /\ pc[h] = "create"
    /\ \E r \in Rooms :
         /\ match[r] = "none"
         /\ match' = [match EXCEPT ![r] = "open"]
         /\ row'   = [row EXCEPT ![r] = [a |-> mate[h], b |-> who[h],
                                        type |-> waiter[mate[h]]]]
         /\ rm'    = [rm EXCEPT ![h] = r]
    /\ Goto(h, "write")
    /\ UNCHANGED <<redis, blocked, clients, kind, who, mate, mode, cand, drop, counters>>

\* MATCH_STALE_AFTER_MS shorter than ROOM_TTL_SECONDS.
PastCutoffTooEarly(r) == match[r] = "open" /\ r \notin {rm[h] : h \in Handlers}

\* The sweep driven by the rooms still in Redis instead of the open rows.
PastCutoffByRoom(r) == match[r] = "open" /\ r \in live

\* teardownRoom ends the match first and deletes the room after it.
TeardownRoomEndsFirst(h) ==
    /\ pc[h] = "tdRoom"
    /\ Goto(h, IF rm[h] \in live THEN "tdEnd" ELSE "tdDangling")
    /\ UNCHANGED <<redis, mongo, clients, locals, counters>>

-----------------------------------------------------------------------------
(* A handler starts *)

Start(h, k, u, p) ==
    /\ pc[h] = "idle"
    /\ k \in Started /\ starts < MaxStarts
    /\ starts' = starts + 1
    /\ UNCHANGED <<joins, elders, claims, fallen, faults>>
    /\ pc'   = [pc EXCEPT ![h] = p]
    /\ kind' = [kind EXCEPT ![h] = k]
    /\ who'  = [who EXCEPT ![h] = u]

\* mm:join, past the rate limit, the kill switch, the KYC gate and the schema.
StartJoin(h, u, t) ==
    /\ u \in sock
    /\ Start(h, "join", u, "pointer")
    /\ mode' = [mode EXCEPT ![h] = t]
    /\ UNCHANGED <<redis, mongo, clients, mate, rm, cand, drop>>

\* mm:next, past the skip throttle.
StartNext(h, u) ==
    /\ u \in sock
    /\ Start(h, "next", u, "pointer")
    /\ UNCHANGED <<redis, mongo, clients, mate, rm, mode, cand, drop>>

\* mm:leave.
StartLeave(h, u) ==
    /\ u \in sock
    /\ Start(h, "leave", u, "dequeue")
    /\ Tell({u}, "none")
    /\ UNCHANGED <<redis, mongo, sock, enforce, mate, rm, mode, cand, drop>>

\* The socket of u closes.
StartDisconnect(h, u) ==
    /\ u \in sock
    /\ Start(h, "disconnect", u, "disc")
    /\ sock' = sock \ {u}
    /\ Tell({u}, "none")
    /\ UNCHANGED <<redis, mongo, enforce, mate, rm, mode, cand, drop>>

\* rtc:hangup for the room r that the client names.
StartHangup(h, u, r) ==
    /\ u \in sock
    /\ match[r] # "none"
    /\ Start(h, "hangup", u, "member")
    /\ rm' = [rm EXCEPT ![h] = r]
    /\ Tell({u}, "none")
    /\ UNCHANGED <<redis, mongo, sock, enforce, mate, mode, cand, drop>>

\* A node receives a block:enforce message.
StartEnforce(h, u, v) ==
    /\ <<u, v>> \in enforce
    /\ enforce' = enforce \ {<<u, v>>}
    /\ Start(h, "enforce", u, "pointer")
    /\ mate' = [mate EXCEPT ![h] = v]
    /\ UNCHANGED <<redis, mongo, sock, told, rm, mode, cand, drop>>

\* A moderator kicks u: the gateway ends u's room and nothing else.
StartKick(h, u) ==
    /\ Start(h, "kick", u, "tdPointer")
    /\ Tell({u}, "hangup")
    /\ UNCHANGED <<redis, mongo, sock, enforce, mate, rm, mode, cand, drop>>

-----------------------------------------------------------------------------
(* What comes before the teardown *)

\* getUserRoom(u) at the head of mm:join.  Outside any room the user enqueues;
\* inside one this is a re-roll, charged to the skip throttle, which may refuse.
ReadPointerJoin(h) ==
    /\ pc[h] = "pointer"
    /\ kind[h] = "join"
    /\ \/ userRoom[who[h]] = NoRoom /\ Goto(h, "enqueue") /\ UNCHANGED locals
       \/ userRoom[who[h]] # NoRoom /\ Goto(h, "tdPointer") /\ UNCHANGED locals
       \/ userRoom[who[h]] # NoRoom /\ Return(h)
    /\ UNCHANGED <<redis, mongo, clients, counters>>

\* getUserRoom(u) of mm:next.  The skip keeps the type of the room it read; one
\* that read no room still runs the teardown, and then has nothing to re-queue.
ReadPointerNext(h) ==
    /\ pc[h] = "pointer"
    /\ kind[h] = "next"
    /\ Goto(h, "tdPointer")
    /\ IF userRoom[who[h]] = NoRoom
       THEN kind' = [kind EXCEPT ![h] = "bareNext"] /\ mode' = mode
       ELSE kind' = kind /\ mode' = [mode EXCEPT ![h] = row[userRoom[who[h]]].type]
    /\ UNCHANGED <<redis, mongo, clients, who, mate, rm, cand, drop, counters>>

\* getUserRoom(userA) of endRoomBetween(userA, userB).
ReadPointerEnforce(h) ==
    /\ pc[h] = "pointer"
    /\ kind[h] = "enforce"
    /\ \/ userRoom[who[h]] = NoRoom /\ Return(h)
       \/ /\ userRoom[who[h]] # NoRoom
          /\ Goto(h, "peerOf")
          /\ rm' = [rm EXCEPT ![h] = userRoom[who[h]]]
          /\ UNCHANGED <<kind, who, mate, mode, cand, drop>>
    /\ UNCHANGED <<redis, mongo, clients, counters>>

\* presence.disconnect: the last connection is gone.
PresenceOff(h) ==
    /\ pc[h] = "disc"
    /\ presence' = IF who[h] \in sock THEN presence ELSE presence \ {who[h]}
    /\ Goto(h, "dequeue")
    /\ UNCHANGED <<pool, waiter, live, userRoom, mongo, clients, locals, counters>>

\* dequeueAll(u), one MULTI.
DequeueAll(h) ==
    /\ pc[h] = "dequeue"
    /\ pool'   = [t \in MatchType |-> pool[t] \ {who[h]}]
    /\ waiter' = [waiter EXCEPT ![who[h]] = "none"]
    /\ Goto(h, "tdPointer")
    /\ UNCHANGED <<live, userRoom, presence, mongo, clients, locals, counters>>

\* isMember(roomId, u) of rtc:hangup.  It checks the room the client named;
\* the teardown that follows reads u's pointer afresh.
IsMember(h) ==
    /\ pc[h] = "member"
    /\ IF rm[h] \in live /\ who[h] \in Members(rm[h])
       THEN /\ Goto(h, "tdPointer")
            /\ rm' = [rm EXCEPT ![h] = NoRoom]
            /\ UNCHANGED <<kind, who, mate, mode, cand, drop>>
       ELSE Return(h)
    /\ UNCHANGED <<redis, mongo, clients, counters>>

\* getPeerOf(pointer.roomId, u) of endRoomBetween.
GetPeerOf(h) ==
    /\ pc[h] = "peerOf"
    /\ IF rm[h] \in live /\ Members(rm[h]) = {who[h], mate[h]}
       THEN /\ Goto(h, "tdPointer")
            /\ rm' = [rm EXCEPT ![h] = NoRoom]
            /\ UNCHANGED <<kind, who, mate, mode, cand, drop>>
       ELSE Return(h)
    /\ UNCHANGED <<redis, mongo, clients, counters>>

-----------------------------------------------------------------------------
(* teardownRoom(u) *)

TeardownPointer(h) ==
    /\ pc[h] = "tdPointer"
    /\ IF userRoom[who[h]] = NoRoom
       THEN AfterTeardown(h)
       ELSE /\ Goto(h, "tdRoom")
            /\ rm' = [rm EXCEPT ![h] = userRoom[who[h]]]
            /\ UNCHANGED <<kind, who, mate, mode, cand, drop>>
    /\ UNCHANGED <<redis, mongo, clients, counters>>

TeardownRoom(h) ==
    /\ pc[h] = "tdRoom"
    /\ Goto(h, IF rm[h] \in live THEN "tdDelete" ELSE "tdDangling")
    /\ UNCHANGED <<redis, mongo, clients, locals, counters>>

\* The pointer dangles: DEL mm:userroom:<u>, whatever it now points to.
TeardownDangling(h) ==
    /\ pc[h] = "tdDangling"
    /\ userRoom' = [userRoom EXCEPT ![who[h]] = NoRoom]
    /\ AfterTeardown(h)
    /\ UNCHANGED <<pool, waiter, live, presence, mongo, clients, counters>>

\* DELETE_ROOM_LUA: the room hash and both pointers.  Only the script that
\* found the hash closes the match row, but every caller notifies the peer
\* (after endMatch; here at the script, when the caller has lost the race).
DeleteRoom(h) ==
    /\ pc[h] = "tdDelete"
    /\ live' = live \ {rm[h]}
    /\ userRoom' = [u \in Users |-> IF u \in Members(rm[h]) THEN NoRoom
                                                            ELSE userRoom[u]]
    /\ IF rm[h] \in live
       THEN Goto(h, "tdEnd") /\ UNCHANGED <<told, locals>>
       ELSE Tell({PeerOf(rm[h], who[h])}, "hangup") /\ AfterTeardown(h)
    /\ UNCHANGED <<pool, waiter, presence, mongo, sock, enforce, counters>>

\* endMatch(matchId), guarded by endedAt: null, then rtc:hangup to the peer
\* (to both sides when a block is enforced).
EndMatch(h) ==
    /\ pc[h] = "tdEnd"
    /\ match' = [match EXCEPT ![rm[h]] = IF @ = "open" THEN "closed" ELSE @]
    /\ Tell({PeerOf(rm[h], who[h])} \cup
            (IF kind[h] = "enforce" THEN {who[h]} ELSE {}), "hangup")
    /\ AfterTeardown(h)
    /\ UNCHANGED <<redis, row, blocked, sock, enforce, counters>>

-----------------------------------------------------------------------------
(* joinAndMatch(u): enqueue, then tryMatch *)

\* enqueue: SET of the waiter hash and ZADD, one MULTI.
Enqueue(h) ==
    /\ pc[h] = "enqueue"
    /\ waiter' = [waiter EXCEPT ![who[h]] = mode[h]]
    /\ pool'   = [pool EXCEPT ![mode[h]] = @ \cup {who[h]}]
    /\ joins'  = [joins EXCEPT ![who[h]] = @ + 1]
    /\ elders' = [u \in Users |-> IF u = who[h] THEN Users \ {u} ELSE elders[u] \ {who[h]}]
    /\ fallen' = fallen \ {who[h]}
    /\ Goto(h, "scan")
    /\ UNCHANGED <<live, userRoom, presence, mongo, clients, locals,
                   claims, starts, faults>>

\* The profile read of enqueue fails: the client is told to wait all the same.
EnqueueNoProfile(h) ==
    /\ pc[h] = "enqueue"
    /\ faults < MaxFaults
    /\ faults' = faults + 1
    /\ Tell({who[h]} \cap sock, "waiting")
    /\ Return(h)
    /\ UNCHANGED <<redis, mongo, sock, enforce, joins, elders, claims, fallen, starts>>

\* ZRANGE of the first Batch members of the pool.
Scan(h) ==
    /\ pc[h] = "scan"
    /\ \E batch \in SUBSET pool[mode[h]] :
          /\ \/ Cardinality(batch) = Batch
             \/ Cardinality(batch) < Batch /\ batch = pool[mode[h]]
          /\ cand' = [cand EXCEPT ![h] = batch \ {who[h]}]
    /\ Goto(h, "load")
    /\ UNCHANGED <<redis, mongo, clients, kind, who, mate, rm, mode, drop, counters>>

\* MGET of the waiter hashes, then the gates: the modality, and what the joiner
\* accepts.  A member without a hash is to be pruned.
LoadWaiters(h) ==
    /\ pc[h] = "load"
    /\ LET stale == {c \in cand[h] : waiter[c] = "none"} IN
       /\ drop' = [drop EXCEPT ![h] = stale]
       /\ cand' = [cand EXCEPT ![h] =
                     {c \in @ : waiter[c] = mode[h] /\ <<who[h], c>> \in Accepts}]
       /\ Goto(h, IF stale = {} THEN "live" ELSE "prune")
    /\ UNCHANGED <<redis, mongo, clients, kind, who, mate, rm, mode, counters>>

\* ZREM of the members that had no hash when it was read.
PruneStale(h) ==
    /\ pc[h] = "prune"
    /\ pool' = [pool EXCEPT ![mode[h]] = @ \ drop[h]]
    /\ drop' = [drop EXCEPT ![h] = {}]
    /\ Goto(h, "live")
    /\ UNCHANGED <<waiter, live, userRoom, presence, mongo, clients,
                   kind, who, mate, rm, mode, cand, counters>>

\* isConnected: one presence MGET for the whole pass.
CheckLive(h) ==
    /\ pc[h] = "live"
    /\ drop' = [drop EXCEPT ![h] = cand[h] \ presence]
    /\ cand' = [cand EXCEPT ![h] = @ \cap presence]
    /\ Goto(h, IF cand[h] \subseteq presence THEN "gate" ELSE "evict")
    /\ UNCHANGED <<redis, mongo, clients, kind, who, mate, rm, mode, counters>>

\* removeWaiter of every candidate without a live connection.
EvictDead(h) ==
    /\ pc[h] = "evict"
    /\ waiter' = [u \in Users |-> IF u \in drop[h] THEN "none" ELSE waiter[u]]
    /\ pool'   = [pool EXCEPT ![mode[h]] = @ \ drop[h]]
    /\ drop'   = [drop EXCEPT ![h] = {}]
    /\ Goto(h, "gate")
    /\ UNCHANGED <<live, userRoom, presence, mongo, clients,
                   kind, who, mate, rm, mode, cand, counters>>

\* isBlocked for every remaining candidate.
Gate(h) ==
    /\ pc[h] = "gate"
    /\ cand' = [cand EXCEPT ![h] = {c \in @ : {who[h], c} \notin blocked}]
    /\ Goto(h, "claim")
    /\ UNCHANGED <<redis, mongo, clients, kind, who, mate, rm, mode, drop, counters>>

\* CLAIM_PAIR_LUA on a candidate: both must still be in the pool.
ClaimPair(h) ==
    /\ pc[h] = "claim"
    /\ \E c \in cand[h] :
         IF {who[h], c} \subseteq pool[mode[h]]
         THEN /\ pool'   = [pool EXCEPT ![mode[h]] = @ \ {who[h], c}]
              /\ waiter' = [waiter EXCEPT ![who[h]] = "none", ![c] = "none"]
              /\ claims' = [u \in Users |-> IF u \in {who[h], c} THEN claims[u] + 1
                                                                 ELSE claims[u]]
              /\ mate'   = [mate EXCEPT ![h] = c]
              /\ cand'   = [cand EXCEPT ![h] = {}]
              /\ Goto(h, "create")
         ELSE /\ cand' = [cand EXCEPT ![h] = @ \ {c}]
              /\ Goto(h, "queued")
              /\ UNCHANGED <<pool, waiter, mate, claims>>
    /\ UNCHANGED <<live, userRoom, presence, mongo, clients,
                   kind, who, rm, mode, drop, joins, elders, fallen, starts, faults>>

\* isQueued(u): a matcher that was claimed itself stops.
StillQueued(h) ==
    /\ pc[h] = "queued"
    /\ Goto(h, IF who[h] \in pool[mode[h]] THEN "claim" ELSE "noMatch")
    /\ UNCHANGED <<redis, mongo, clients, locals, counters>>

\* No candidate is left.
NoCandidate(h) ==
    /\ pc[h] = "claim"
    /\ cand[h] = {}
    /\ Goto(h, "noMatch")
    /\ UNCHANGED <<redis, mongo, clients, locals, counters>>

\* commitMatch: createMatch inserts the row ...
CreateMatch(h) ==
    /\ pc[h] = "create"
    /\ \E r \in Rooms :
         /\ match[r] = "none"
         /\ match' = [match EXCEPT ![r] = "open"]
         /\ row'   = [row EXCEPT ![r] = [a |-> mate[h], b |-> who[h], type |-> mode[h]]]
         /\ rm'    = [rm EXCEPT ![h] = r]
    /\ Goto(h, "write")
    /\ UNCHANGED <<redis, blocked, clients, kind, who, mate, mode, cand, drop, counters>>

\* ... and one MULTI writes the room hash and both pointers.
WriteRoom(h) ==
    /\ pc[h] = "write"
    /\ live' = live \cup {rm[h]}
    /\ userRoom' = [u \in Users |-> IF u \in {who[h], mate[h]} THEN rm[h]
                                                               ELSE userRoom[u]]
    /\ Goto(h, "deliver")
    /\ UNCHANGED <<pool, waiter, presence, mongo, clients, locals, counters>>

\* commitMatch throws at either write: joinAndMatch takes it for "no match".
CommitFails(h) ==
    /\ pc[h] \in {"create", "write"}
    /\ faults < MaxFaults
    /\ faults' = faults + 1
    /\ rm' = [rm EXCEPT ![h] = NoRoom]
    /\ Goto(h, "noMatch")
    /\ UNCHANGED <<redis, mongo, clients, kind, who, mate, mode, cand, drop,
                   joins, elders, claims, fallen, starts>>

\* deliverMatch: mm:matched to both bound sockets.
Deliver(h) ==
    /\ pc[h] = "deliver"
    /\ Tell({who[h], mate[h]} \cap sock, "matched")
    /\ Return(h)
    /\ UNCHANGED <<redis, mongo, sock, enforce, counters>>

\* No match: mm:waiting, unless the user has a room by now.
NoMatch(h) ==
    /\ pc[h] = "noMatch"
    /\ Tell(IF userRoom[who[h]] = NoRoom THEN {who[h]} \cap sock ELSE {}, "waiting")
    /\ Return(h)
    /\ UNCHANGED <<redis, mongo, sock, enforce, counters>>

-----------------------------------------------------------------------------
(* The environment *)

Connect(u) ==
    /\ u \notin sock
    /\ sock' = sock \cup {u}
    /\ presence' = presence \cup {u}
    /\ Tell({u}, "none")
    /\ UNCHANGED <<pool, waiter, live, userRoom, mongo, enforce, pc, locals, counters>>

\* A user blocks another: the row is written, then block:enforce published.
Block(u, v) ==
    /\ u # v
    /\ {u, v} \notin blocked
    /\ blocked' = blocked \cup {{u, v}}
    /\ enforce' = enforce \cup {<<u, v>>}
    /\ UNCHANGED <<redis, match, row, sock, told, pc, locals, counters>>

\* The waiter hash reaches WAITER_TTL_SECONDS; the pool member stays.
WaiterExpires(u) ==
    /\ waiter[u] # "none"
    /\ waiter' = [waiter EXCEPT ![u] = "none"]
    /\ UNCHANGED <<pool, live, userRoom, presence, mongo, clients, pc, locals, counters>>

\* A room reaches ROOM_TTL_SECONDS, and with it the pointers written with it.
RoomExpires(r) ==
    /\ r \in live
    /\ live' = live \ {r}
    /\ userRoom' = [u \in Users |-> IF userRoom[u] = r THEN NoRoom ELSE userRoom[u]]
    /\ UNCHANGED <<pool, waiter, presence, mongo, clients, pc, locals, counters>>

\* reconcileStale closes the open rows past the cut-off.  The cut-off exceeds
\* ROOM_TTL_SECONDS by half an hour: the room of such a row is gone, and the
\* handler that inserted the row is not still about to write the room.
PastCutoff(r) ==
    /\ match[r] = "open"
    /\ r \notin live
    /\ \A h \in Handlers : ~(pc[h] = "write" /\ rm[h] = r)

ReconcileStale(rs) ==
    /\ rs # {}
    /\ \A r \in rs : PastCutoff(r)
    /\ match' = [r \in Rooms |-> IF r \in rs THEN "closed" ELSE match[r]]
    /\ UNCHANGED <<redis, row, blocked, clients, pc, locals, counters>>

\* The node that runs h dies: the handler stops where it is, and the socket of
\* its user is gone without a disconnect handler.
Crash(h) ==
    /\ pc[h] # "idle"
    /\ faults < MaxFaults
    /\ faults' = faults + 1
    /\ fallen' = fallen \cup {who[h]}
    /\ sock' = sock \ {who[h]}
    /\ Tell({who[h]}, "none")
    /\ Return(h)
    /\ UNCHANGED <<redis, mongo, enforce, joins, elders, claims, starts>>

\* The presence key of u lapses: the node that beat for it died, or the heartbeats
\* of a node with u's socket came too late.
PresenceLapses(u) ==
    /\ u \in presence
    /\ \/ u \notin sock /\ UNCHANGED faults
       \/ u \in sock /\ faults < MaxFaults /\ faults' = faults + 1
    /\ presence' = presence \ {u}
    /\ UNCHANGED <<pool, waiter, live, userRoom, mongo, clients, pc, locals,
                   joins, elders, claims, fallen, starts>>

\* The next heartbeat shows a connected user again; the pool entry that a matcher
\* may have evicted meanwhile stays gone.
Heartbeat(u) ==
    /\ u \in sock \ presence
    /\ presence' = presence \cup {u}
    /\ UNCHANGED <<pool, waiter, live, userRoom, mongo, clients, pc, locals, counters>>

-----------------------------------------------------------------------------
StartAny(h) ==
    \/ \E u \in Users : \/ \E t \in AskedTypes : StartJoin(h, u, t)
                        \/ StartNext(h, u)
                        \/ StartLeave(h, u)
                        \/ StartDisconnect(h, u)
                        \/ \E r \in Rooms : StartHangup(h, u, r)
                        \/ StartKick(h, u)
    \/ \E u, v \in Users : StartEnforce(h, u, v)

Teardown(h) ==
    \/ TeardownPointer(h) \/ TeardownRoom(h) \/ TeardownDangling(h)
    \/ DeleteRoom(h) \/ EndMatch(h)

Matcher(h) ==
    \/ Enqueue(h) \/ EnqueueNoProfile(h) \/ Scan(h) \/ LoadWaiters(h) \/ PruneStale(h)
    \/ CheckLive(h) \/ EvictDead(h) \/ Gate(h) \/ ClaimPair(h) \/ StillQueued(h)
    \/ NoCandidate(h) \/ CreateMatch(h) \/ WriteRoom(h) \/ CommitFails(h)
    \/ Deliver(h) \/ NoMatch(h)

Step(h) ==
    \/ ReadPointerJoin(h) \/ ReadPointerNext(h) \/ ReadPointerEnforce(h)
    \/ PresenceOff(h) \/ DequeueAll(h) \/ IsMember(h) \/ GetPeerOf(h)
    \/ Teardown(h)
    \/ Matcher(h)

Environment ==
    \/ \E u \in Users : \/ Connect(u) \/ WaiterExpires(u)
                        \/ PresenceLapses(u) \/ Heartbeat(u)
    \/ \E u, v \in Users : Block(u, v)
    \/ \E r \in Rooms : RoomExpires(r)
    \/ \E rs \in SUBSET Rooms : ReconcileStale(rs)
    \/ \E h \in Handlers : Crash(h)

Next ==
    \/ \E h \in Handlers : StartAny(h) \/ Step(h)
    \/ Environment

Spec == Init /\ [][Next]_vars

\* A handler that started goes on; rooms expire; the reconcile job recurs.  The
\* clients, crashes and the expiry of waiters owe nothing.
Fairness ==
    /\ \A h \in Handlers : WF_vars(Step(h))
    /\ \A r \in Rooms : WF_vars(RoomExpires(r))
    /\ WF_vars(\E rs \in SUBSET Rooms :
                    rs = {r \in Rooms : PastCutoff(r)} /\ ReconcileStale(rs))

FairSpec == Spec /\ Fairness

-----------------------------------------------------------------------------
(* Properties *)

\* No handler is in flight and every block has been enforced.
Quiet == enforce = {} /\ \A h \in Handlers : pc[h] = "idle"

\* A room that can relay signals has a Match row that is still open: neither a
\* teardown nor the reconcile job closes the record of a call that goes on.
LiveRoomHasOpenMatch == \A r \in live : match[r] = "open"

\* A pointer names a live room of which its user is a member, so what
\* getUserRoom, isMember and getRelayTarget decide from it is about that room.
PointerNamesOwnRoom ==
    \A u \in Users : userRoom[u] # NoRoom =>
        userRoom[u] \in live /\ u \in Members(userRoom[u])

\* A user is matched no more often than it asked to be: a claim uses up an
\* enqueue, whichever of the two matchers of a pair wins it.
Entries(u) == (IF u \in pool["video"] THEN 1 ELSE 0)
            + (IF u \in pool["voice"] THEN 1 ELSE 0)
ClaimsUseEntries == \A u \in Users : claims[u] + Entries(u) <= joins[u]

\* Of two users who wait side by side, the one who enqueued last has turned the
\* other down: a matcher enqueues before it scans, and whoever it drops on the way it
\* drops for a reason of its own user's gates.  So no two wait who accept each other,
\* and of two of whom only one accepts the other it is that one who came first.
\* Failed writes change nothing about it, and a node that dies excuses only the user
\* whose matcher it ran, until that user enqueues again.
CouldTake(u, v, t) ==
    /\ {u, v} \subseteq pool[t] /\ waiter[u] = t /\ waiter[v] = t
    /\ <<u, v>> \in Accepts /\ {u, v} \notin blocked
NoMissedPair ==
    Quiet =>
        \A u \in Users \ fallen, t \in MatchType : \A v \in elders[u] : ~CouldTake(u, v, t)

\* Every Match row is closed in the end, whatever handler died on the way.
MatchEventuallyClosed ==
    \A r \in Rooms : match[r] = "open" ~> match[r] = "closed"

\* What the matchers, teardowns and sweeps do together is what Roulette promises:
\* a handler about to insert the row holds a deal, one about to write the room
\* still owes it, and a row whose room is gone waits to be closed.
DealOf(h) == IF pc[h] = "create" THEN [pair |-> {who[h], mate[h]}, type |-> mode[h]]
                                 ELSE [pair |-> {}, type |-> "none"]
Owed == {rm[h] : h \in {g \in Handlers : pc[g] = "write"}}
StageOf(r) ==
    IF match[r] # "open" THEN match[r]
    ELSE IF r \in live THEN "live" ELSE IF r \in Owed THEN "open" ELSE "over"
RoomOf(r) ==
    IF match[r] = "none" THEN [stage |-> "none", pair |-> {}, type |-> "none"]
    ELSE [stage |-> StageOf(r), pair |-> Members(r), type |-> row[r].type]
Deals     == [h \in Handlers |-> DealOf(h)]
RoomsSeen == [r \in Rooms |-> RoomOf(r)]

Promise == INSTANCE Roulette WITH
    Modes <- MatchType, Matchers <- Handlers, Suited <- Accepts, Nowhere <- NoRoom,
    waiting <- pool, deal <- Deals, room <- RoomsSeen, seat <- userRoom
RouletteSpec == Promise!Spec

\* What the documentation says of the re-roll: no room is leaked, so that a
\* user is in one room at most.
OneRoomPerUser ==
    \A r, q \in live : r # q => Members(r) \cap Members(q) = {}

\* What the documentation says of a block: it ends the live roulette room of the two.
BlockEndsRoom ==
    Quiet => \A r \in live : Members(r) \notin blocked
=============================================================================
