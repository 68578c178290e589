--------------------------- MODULE MatchmakingProofs ---------------------------
(***************************************************************************)
(* Proofs about Matchmaking for any users, handlers, rooms and bounds:     *)
(* its types, the agreement of room, pointer and Match row, and the        *)
(* conservation of enqueues and claims.                                    *)
(***************************************************************************)
EXTENDS Matchmaking, TLAPS

-----------------------------------------------------------------------------
(* Types *)

\* A handler in flight acts for a user; one that has claimed a pair knows the
\* mate, and one that has inserted the row knows its room.
Acting == \A h \in Handlers : pc[h] # "idle" => who[h] \in Users
Paired == \A h \in Handlers : pc[h] \in {"create", "write", "deliver"} => mate[h] \in Users
Roomed == \A h \in Handlers : pc[h] = "write" => rm[h] \in Rooms
Busy   == Acting /\ Paired /\ Roomed

\* TypeOK alone is not inductive: userRoom[who[h]] is a room only for a user.
Inv1 == TypeOK /\ Busy

\* A handler that returns leaves its variables typed.
LEMMA ReturnType ==
    ASSUME LocalsType, Busy, NEW h \in Handlers, Return(h)
    PROVE  LocalsType' /\ Busy'
BY DEF LocalsType, Busy, Acting, Paired, Roomed, Return, Kind, Await, MatchType

\* So does one that starts, in the variables Start assigns.
LEMMA StartType ==
    ASSUME LocalsType, CountersType, NEW h \in Handlers,
           NEW k \in Kind, NEW u \in Users, NEW p \in Await, Start(h, k, u, p)
    PROVE  /\ pc' \in [Handlers -> Await]
           /\ kind' \in [Handlers -> Kind]
           /\ who' \in [Handlers -> Users \cup {NoUser}]
           /\ CountersType'
BY DEF LocalsType, CountersType, Start

\* An emit leaves the clients typed.
LEMMA TellType ==
    ASSUME ClientsType, NEW us, NEW e \in Told, Tell(us, e)
    PROVE  told' \in [Users -> Told]
BY DEF ClientsType, Tell

\* Going on after a teardown leaves the handler's variables typed.
LEMMA AfterTeardownType ==
    ASSUME LocalsType, Busy, NEW h \in Handlers, pc[h] # "idle", AfterTeardown(h)
    PROVE  LocalsType' /\ Busy'
<1>1. CASE Return(h) BY <1>1, ReturnType
<1>2. CASE Goto(h, "enqueue") /\ rm' = [rm EXCEPT ![h] = NoRoom]
           /\ UNCHANGED <<kind, who, mate, mode, cand, drop>>
  BY <1>2 DEF LocalsType, Busy, Acting, Paired, Roomed, Goto, Await
<1> QED BY <1>1, <1>2 DEF AfterTeardown

\* isMember of rtc:hangup keeps the types.
LEMMA IsMemberType ==
    ASSUME Inv1, NEW h \in Handlers, IsMember(h)
    PROVE  Inv1'
<1> USE DEF Inv1, TypeOK
<1>1. RedisType' /\ MongoType' /\ ClientsType' /\ CountersType'
  BY DEF IsMember, RedisType, MongoType, ClientsType, CountersType, redis, mongo, clients, counters
<1>2. LocalsType' /\ Busy'
  <2>1. CASE Return(h) BY <2>1, ReturnType
  <2>2. CASE Goto(h, "tdPointer") /\ rm' = [rm EXCEPT ![h] = NoRoom]
             /\ UNCHANGED <<kind, who, mate, mode, cand, drop>>
    BY <2>2 DEF IsMember, LocalsType, Busy, Acting, Paired, Roomed, Goto, Await
  <2> QED BY <2>1, <2>2 DEF IsMember
<1> QED BY <1>1, <1>2

\* getPeerOf of endRoomBetween keeps the types.
LEMMA GetPeerOfType ==
    ASSUME Inv1, NEW h \in Handlers, GetPeerOf(h)
    PROVE  Inv1'
<1> USE DEF Inv1, TypeOK
<1>1. RedisType' /\ MongoType' /\ ClientsType' /\ CountersType'
  BY DEF GetPeerOf, RedisType, MongoType, ClientsType, CountersType, redis, mongo, clients, counters
<1>2. LocalsType' /\ Busy'
  <2>1. CASE Return(h) BY <2>1, ReturnType
  <2>2. CASE Goto(h, "tdPointer") /\ rm' = [rm EXCEPT ![h] = NoRoom]
             /\ UNCHANGED <<kind, who, mate, mode, cand, drop>>
    BY <2>2 DEF GetPeerOf, LocalsType, Busy, Acting, Paired, Roomed, Goto, Await
  <2> QED BY <2>1, <2>2 DEF GetPeerOf
<1> QED BY <1>1, <1>2

\* The pointer read of mm:join keeps the types.
LEMMA ReadPointerJoinType ==
    ASSUME Inv1, NEW h \in Handlers, ReadPointerJoin(h)
    PROVE  Inv1'
<1> USE DEF Inv1, TypeOK
<1>1. RedisType' /\ MongoType' /\ ClientsType' /\ CountersType'
  BY DEF ReadPointerJoin, RedisType, MongoType, ClientsType, CountersType, redis, mongo, clients, counters
<1>2. LocalsType' /\ Busy'
  <2>1. CASE Return(h) BY <2>1, ReturnType
  <2>2. CASE (Goto(h, "tdPointer") \/ Goto(h, "enqueue")) /\ UNCHANGED locals
    BY <2>2 DEF ReadPointerJoin, LocalsType, Busy, Acting, Paired, Roomed, Goto, Await, locals
  <2> QED BY <2>1, <2>2 DEF ReadPointerJoin
<1> QED BY <1>1, <1>2

\* The pointer read of endRoomBetween keeps the types.
LEMMA ReadPointerEnforceType ==
    ASSUME Inv1, NEW h \in Handlers, ReadPointerEnforce(h)
    PROVE  Inv1'
<1> USE DEF Inv1, TypeOK
<1>1. RedisType' /\ MongoType' /\ ClientsType' /\ CountersType'
  BY DEF ReadPointerEnforce, RedisType, MongoType, ClientsType, CountersType, redis, mongo, clients, counters
<1>2. LocalsType' /\ Busy'
  <2>1. CASE Return(h) BY <2>1, ReturnType
  <2>2. CASE userRoom[who[h]] # NoRoom /\ Goto(h, "peerOf") /\ rm' = [rm EXCEPT ![h] = userRoom[who[h]]]
             /\ UNCHANGED <<kind, who, mate, mode, cand, drop>>
    BY <2>2 DEF ReadPointerEnforce, LocalsType, RedisType, Busy, Acting, Paired, Roomed, Goto, Await
  <2> QED BY <2>1, <2>2 DEF ReadPointerEnforce
<1> QED BY <1>1, <1>2

\* The pointer read of mm:next keeps the types: the room it takes its mode from has a row.
LEMMA ReadPointerNextType ==
    ASSUME Inv1, NEW h \in Handlers, ReadPointerNext(h)
    PROVE  Inv1'
<1> USE DEF Inv1, TypeOK
<1>1. RedisType' /\ MongoType' /\ ClientsType' /\ CountersType'
  BY DEF ReadPointerNext, RedisType, MongoType, ClientsType, CountersType, redis, mongo, clients, counters
<1>2. kind' \in [Handlers -> Kind] /\ mode' \in [Handlers -> MatchType]
  <2>1. CASE userRoom[who[h]] = NoRoom
    BY <2>1 DEF ReadPointerNext, LocalsType, Kind
  <2>2. CASE userRoom[who[h]] # NoRoom
    <3>1. row[userRoom[who[h]]].type \in MatchType
      BY <2>2 DEF ReadPointerNext, RedisType, MongoType, Busy, Acting, Paired, Roomed
    <3> QED BY <2>2, <3>1 DEF ReadPointerNext, LocalsType
  <2> QED BY <2>1, <2>2
<1>3. LocalsType' /\ Busy'
  BY <1>2 DEF ReadPointerNext, LocalsType, Busy, Acting, Paired, Roomed, Goto, Await
<1> QED BY <1>1, <1>3

\* The pointer read of teardownRoom keeps the types.
LEMMA TeardownPointerType ==
    ASSUME Inv1, NEW h \in Handlers, TeardownPointer(h)
    PROVE  Inv1'
<1> USE DEF Inv1, TypeOK
<1>1. RedisType' /\ MongoType' /\ ClientsType' /\ CountersType'
  BY DEF TeardownPointer, RedisType, MongoType, ClientsType, CountersType, redis, mongo, clients, counters
<1>2. LocalsType' /\ Busy'
  <2>1. CASE AfterTeardown(h) BY <2>1, AfterTeardownType DEF TeardownPointer
  <2>2. CASE Goto(h, "tdRoom") /\ rm' = [rm EXCEPT ![h] = userRoom[who[h]]]
             /\ UNCHANGED <<kind, who, mate, mode, cand, drop>>
    BY <2>2 DEF TeardownPointer, RedisType, LocalsType, Busy, Acting, Paired, Roomed, Goto, Await
  <2> QED BY <2>1, <2>2 DEF TeardownPointer
<1> QED BY <1>1, <1>2

\* DELETE_ROOM_LUA keeps the types.
LEMMA DeleteRoomType ==
    ASSUME Inv1, NEW h \in Handlers, DeleteRoom(h)
    PROVE  Inv1'
<1> USE DEF Inv1, TypeOK
<1>1. RedisType' /\ MongoType' /\ CountersType'
  BY DEF DeleteRoom, RedisType, MongoType, CountersType, mongo, counters
<1>2. ClientsType' /\ LocalsType' /\ Busy'
  <2>1. CASE rm[h] \in live
    BY <2>1 DEF DeleteRoom, ClientsType, LocalsType, Busy, Acting, Paired, Roomed, Goto, Await, locals
  <2>2. CASE rm[h] \notin live
    BY <2>2, AfterTeardownType, TellType DEF DeleteRoom, ClientsType, Told
  <2> QED BY <2>1, <2>2
<1> QED BY <1>1, <1>2

\* enqueue keeps the types.
LEMMA EnqueueType ==
    ASSUME Inv1, NEW h \in Handlers, Enqueue(h)
    PROVE  Inv1'
<1> USE DEF Inv1, TypeOK
<1>1. who[h] \in Users /\ mode[h] \in MatchType BY DEF Enqueue, Busy, Acting, Paired, Roomed, LocalsType
<1>2. RedisType'
  BY <1>1 DEF Enqueue, RedisType
<1>3. CountersType'
  BY <1>1 DEF Enqueue, CountersType
<1>4. MongoType' /\ ClientsType'
  BY DEF Enqueue, MongoType, ClientsType, mongo, clients
<1>5. LocalsType' /\ Busy'
  BY <1>1 DEF Enqueue, LocalsType, Busy, Acting, Paired, Roomed, Goto, Await, locals
<1> QED BY <1>2, <1>3, <1>4, <1>5

\* CLAIM_PAIR_LUA keeps the types.
LEMMA ClaimPairType ==
    ASSUME Inv1, NEW h \in Handlers, ClaimPair(h)
    PROVE  Inv1'
<1> USE DEF Inv1, TypeOK
<1> PICK c \in cand[h] : ClaimPair(h)!2!(c)
  BY DEF ClaimPair
<1>1. who[h] \in Users /\ c \in Users /\ mode[h] \in MatchType
  BY DEF ClaimPair, Busy, Acting, Paired, Roomed, LocalsType
<1>2. MongoType' /\ ClientsType'
  BY DEF ClaimPair, MongoType, ClientsType, mongo, clients
<1>3. CASE {who[h], c} \subseteq pool[mode[h]]
  <2>1. RedisType' BY <1>1, <1>3 DEF ClaimPair, RedisType
  <2>2. CountersType' BY <1>1, <1>3 DEF ClaimPair, CountersType
  <2>3. LocalsType' /\ Busy' BY <1>1, <1>3 DEF ClaimPair, LocalsType, Busy, Acting, Paired, Roomed, Goto, Await
  <2> QED BY <1>2, <2>1, <2>2, <2>3
<1>4. CASE ~({who[h], c} \subseteq pool[mode[h]])
  <2>1. RedisType' BY <1>1, <1>4 DEF ClaimPair, RedisType
  <2>2. CountersType' BY <1>1, <1>4 DEF ClaimPair, CountersType
  <2>3. LocalsType' /\ Busy' BY <1>1, <1>4 DEF ClaimPair, LocalsType, Busy, Acting, Paired, Roomed, Goto, Await
  <2> QED BY <1>2, <2>1, <2>2, <2>3
<1> QED BY <1>3, <1>4

\* The MULTI of commitMatch keeps the types.
LEMMA WriteRoomType ==
    ASSUME Inv1, NEW h \in Handlers, WriteRoom(h)
    PROVE  Inv1'
<1> USE DEF Inv1, TypeOK
<1>1. who[h] \in Users /\ mate[h] \in Users /\ rm[h] \in Rooms
  BY DEF WriteRoom, Busy, Acting, Paired, Roomed
<1>2. RedisType'
  BY <1>1 DEF WriteRoom, RedisType, LocalsType
<1>3. MongoType' /\ ClientsType' /\ CountersType'
  BY DEF WriteRoom, MongoType, ClientsType, CountersType, mongo, clients, counters
<1>4. LocalsType' /\ Busy'
  BY <1>1 DEF WriteRoom, LocalsType, Busy, Acting, Paired, Roomed, Goto, Await, locals
<1> QED BY <1>2, <1>3, <1>4

\* Every step keeps the types.
LEMMA Inv1Step == Inv1 /\ [Next]_vars => Inv1'
<1> SUFFICES ASSUME Inv1, [Next]_vars PROVE Inv1'
  OBVIOUS
<1> USE DEF Inv1, Busy, Acting, Paired, Roomed, TypeOK, RedisType, MongoType, ClientsType,
            LocalsType, CountersType, redis, mongo, clients, locals, counters,
            Await, Kind, Told, MatchType
<1>1. ASSUME NEW h \in Handlers, NEW u \in Users, NEW t \in AskedTypes, StartJoin(h, u, t) PROVE Inv1'
  BY <1>1, TypesAssumption DEF StartJoin, Start
<1>2. ASSUME NEW h \in Handlers, NEW u \in Users, StartNext(h, u) PROVE Inv1'
  BY <1>2 DEF StartNext, Start
<1>3. ASSUME NEW h \in Handlers, NEW u \in Users, StartLeave(h, u) PROVE Inv1'
  BY <1>3 DEF StartLeave, Tell, Start
<1>4. ASSUME NEW h \in Handlers, NEW u \in Users, StartDisconnect(h, u) PROVE Inv1'
  BY <1>4 DEF StartDisconnect, Tell, Start
<1>5. ASSUME NEW h \in Handlers, NEW u \in Users, NEW r \in Rooms, StartHangup(h, u, r) PROVE Inv1'
  BY <1>5 DEF StartHangup, Tell, Start
<1>6. ASSUME NEW h \in Handlers, NEW u \in Users, NEW v \in Users, StartEnforce(h, u, v) PROVE Inv1'
  BY <1>6 DEF StartEnforce, Start
<1>7. ASSUME NEW h \in Handlers, NEW u \in Users, StartKick(h, u) PROVE Inv1'
  BY <1>7 DEF StartKick, Tell, Start
<1>8. ASSUME NEW h \in Handlers, ReadPointerJoin(h) PROVE Inv1'
  BY <1>8, ReadPointerJoinType
<1>9. ASSUME NEW h \in Handlers, ReadPointerNext(h) PROVE Inv1'
  BY <1>9, ReadPointerNextType
<1>10. ASSUME NEW h \in Handlers, ReadPointerEnforce(h) PROVE Inv1'
  BY <1>10, ReadPointerEnforceType
<1>11. ASSUME NEW h \in Handlers, PresenceOff(h) PROVE Inv1'
  BY <1>11 DEF PresenceOff, Goto
<1>12. ASSUME NEW h \in Handlers, DequeueAll(h) PROVE Inv1'
  BY <1>12 DEF DequeueAll, Goto
<1>13. ASSUME NEW h \in Handlers, IsMember(h) PROVE Inv1'
  BY <1>13, IsMemberType
<1>14. ASSUME NEW h \in Handlers, GetPeerOf(h) PROVE Inv1'
  BY <1>14, GetPeerOfType
<1>15. ASSUME NEW h \in Handlers, TeardownPointer(h) PROVE Inv1'
  BY <1>15, TeardownPointerType
<1>16. ASSUME NEW h \in Handlers, TeardownRoom(h) PROVE Inv1'
  BY <1>16 DEF TeardownRoom, Goto
<1>17. ASSUME NEW h \in Handlers, TeardownDangling(h) PROVE Inv1'
  BY <1>17, AfterTeardownType DEF TeardownDangling
<1>18. ASSUME NEW h \in Handlers, DeleteRoom(h) PROVE Inv1'
  BY <1>18, DeleteRoomType
<1>19. ASSUME NEW h \in Handlers, EndMatch(h) PROVE Inv1'
  BY <1>19, AfterTeardownType DEF EndMatch, Tell
<1>20. ASSUME NEW h \in Handlers, Enqueue(h) PROVE Inv1'
  BY <1>20, EnqueueType
<1>21. ASSUME NEW h \in Handlers, EnqueueNoProfile(h) PROVE Inv1'
  BY <1>21, ReturnType DEF EnqueueNoProfile, Tell
<1>22. ASSUME NEW h \in Handlers, Scan(h) PROVE Inv1'
  BY <1>22 DEF Scan, Goto
<1>23. ASSUME NEW h \in Handlers, LoadWaiters(h) PROVE Inv1'
  BY <1>23 DEF LoadWaiters, Goto
<1>24. ASSUME NEW h \in Handlers, PruneStale(h) PROVE Inv1'
  BY <1>24 DEF PruneStale, Goto
<1>25. ASSUME NEW h \in Handlers, CheckLive(h) PROVE Inv1'
  BY <1>25 DEF CheckLive, Goto
<1>26. ASSUME NEW h \in Handlers, EvictDead(h) PROVE Inv1'
  BY <1>26 DEF EvictDead, Goto
<1>27. ASSUME NEW h \in Handlers, Gate(h) PROVE Inv1'
  BY <1>27 DEF Gate, Goto
<1>28. ASSUME NEW h \in Handlers, ClaimPair(h) PROVE Inv1'
  BY <1>28, ClaimPairType
<1>29. ASSUME NEW h \in Handlers, StillQueued(h) PROVE Inv1'
  BY <1>29 DEF StillQueued, Goto
<1>30. ASSUME NEW h \in Handlers, NoCandidate(h) PROVE Inv1'
  BY <1>30 DEF NoCandidate, Goto
<1>31. ASSUME NEW h \in Handlers, CreateMatch(h) PROVE Inv1'
  BY <1>31 DEF CreateMatch, Goto
<1>32. ASSUME NEW h \in Handlers, WriteRoom(h) PROVE Inv1'
  BY <1>32, WriteRoomType
<1>33. ASSUME NEW h \in Handlers, CommitFails(h) PROVE Inv1'
  BY <1>33 DEF CommitFails, Goto
<1>34. ASSUME NEW h \in Handlers, Deliver(h) PROVE Inv1'
  BY <1>34, ReturnType DEF Deliver, Tell
<1>35. ASSUME NEW h \in Handlers, NoMatch(h) PROVE Inv1'
  BY <1>35, ReturnType DEF NoMatch, Tell
<1>36. ASSUME NEW u \in Users, Connect(u) PROVE Inv1'
  BY <1>36 DEF Connect, Tell
<1>37. ASSUME NEW u \in Users, NEW v \in Users, Block(u, v) PROVE Inv1'
  <2>1. {u, v} \in SUBSET Users
    OBVIOUS
  <2>2. blocked' \subseteq SUBSET Users /\ enforce' \subseteq Users \X Users
    BY <1>37, <2>1 DEF Block
  <2> QED BY <1>37, <2>2 DEF Block
<1>38. ASSUME NEW u \in Users, WaiterExpires(u) PROVE Inv1'
  BY <1>38 DEF WaiterExpires
<1>39. ASSUME NEW r \in Rooms, RoomExpires(r) PROVE Inv1'
  BY <1>39 DEF RoomExpires
<1>40. ASSUME NEW rs \in SUBSET Rooms, ReconcileStale(rs) PROVE Inv1'
  BY <1>40 DEF ReconcileStale
<1>41. ASSUME NEW h \in Handlers, Crash(h) PROVE Inv1'
  BY <1>41, ReturnType DEF Crash, Tell
<1>42. ASSUME NEW u \in Users, PresenceLapses(u) PROVE Inv1'
  BY <1>42 DEF PresenceLapses
<1>43. ASSUME NEW u \in Users, Heartbeat(u) PROVE Inv1'
  BY <1>43 DEF Heartbeat
<1>44. CASE UNCHANGED vars
  BY <1>44 DEF vars
<1> QED
  BY <1>1, <1>2, <1>3, <1>4, <1>5, <1>6, <1>7, <1>8, <1>9, <1>10, <1>11, <1>12,
     <1>13, <1>14, <1>15, <1>16, <1>17, <1>18, <1>19, <1>20, <1>21, <1>22, <1>23,
     <1>24, <1>25, <1>26, <1>27, <1>28, <1>29, <1>30, <1>31, <1>32, <1>33, <1>34,
     <1>35, <1>36, <1>37, <1>38, <1>39, <1>40, <1>41, <1>42, <1>43, <1>44
     DEF Next, StartAny, Step, Teardown, Matcher, Environment

-----------------------------------------------------------------------------
(* Rooms, pointers and Match rows *)

\* The awaits of teardownRoom at which it holds the room it found.
Tearing == {"tdRoom", "tdDangling", "tdDelete", "tdEnd"}

\* A room between its row and its MULTI is open, in no pointer, and belongs to
\* the pair its handler claimed; nobody else creates it or tears it down.
Unwritten ==
    \A h \in Handlers : pc[h] = "write" =>
        /\ match[rm[h]] = "open" /\ rm[h] \notin live
        /\ row[rm[h]].a = mate[h] /\ row[rm[h]].b = who[h]
OnlyWriter ==
    \A g, h \in Handlers :
        pc[g] = "write" /\ pc[h] \in Tearing \cup {"write"} /\ rm[g] = rm[h] => g = h

\* A room that is torn down has a row, and at the last step is gone from Redis.
Inserted == \A h \in Handlers : pc[h] \in Tearing => rm[h] \in Rooms /\ match[rm[h]] # "none"
Ended    == \A h \in Handlers : pc[h] = "tdEnd" => rm[h] \notin live

\* Neither invariant is inductive without knowing what handlers in flight hold.
Inv2 ==
    /\ LiveRoomHasOpenMatch /\ PointerNamesOwnRoom
    /\ Unwritten /\ OnlyWriter /\ Inserted /\ Ended

\* h moves to an await at which it holds no room, and no other handler moves.
LetsGo(h) ==
    /\ pc'[h] \notin Tearing \cup {"write"}
    /\ \A g \in Handlers \ {h} : /\ pc'[g] = pc[g] /\ rm'[g] = rm[g]
                                /\ who'[g] = who[g] /\ mate'[g] = mate[g]

\* When rooms, pointers and rows stay, that does not disturb their agreement.
LEMMA AsideStep ==
    ASSUME Inv2, NEW h \in Handlers, LetsGo(h), UNCHANGED <<live, userRoom, match, row>>
    PROVE  Inv2'
<1> USE DEF Inv2, LetsGo
<1>1. LiveRoomHasOpenMatch' BY DEF LiveRoomHasOpenMatch
<1>2. PointerNamesOwnRoom' BY DEF PointerNamesOwnRoom, Members
<1>3. Unwritten' BY DEF Unwritten
<1>4. OnlyWriter' BY DEF OnlyWriter
<1>5. Inserted' BY DEF Inserted
<1>6. Ended' BY DEF Ended, Tearing
<1> QED BY <1>1, <1>2, <1>3, <1>4, <1>5, <1>6

\* Neither can a step of the environment that leaves all of this alone.
LEMMA Frame2 ==
    ASSUME Inv2, UNCHANGED <<live, userRoom, match, row, pc, rm, who, mate>>
    PROVE  Inv2'
BY DEF Inv2, LiveRoomHasOpenMatch, PointerNamesOwnRoom, Members, Unwritten, OnlyWriter,
       Inserted, Ended

\* After its teardown a handler holds no room.
LEMMA AfterTeardownLetsGo ==
    ASSUME Inv1, NEW h \in Handlers, AfterTeardown(h)
    PROVE  LetsGo(h)
<1>1. CASE Return(h)
  BY <1>1 DEF Return, LetsGo, Tearing, Inv1, TypeOK, LocalsType
<1>2. CASE Goto(h, "enqueue") /\ rm' = [rm EXCEPT ![h] = NoRoom]
           /\ UNCHANGED <<kind, who, mate, mode, cand, drop>>
  BY <1>2 DEF Goto, LetsGo, Tearing, Inv1, TypeOK, LocalsType
<1> QED BY <1>1, <1>2 DEF AfterTeardown

\* What a handler does next, when it holds no room: the rooms it does not own
\* may lose their Redis keys, pointers only ever go, and rows stay.
LEMMA ReleaseStep ==
    ASSUME Inv1, Inv2, NEW h \in Handlers, AfterTeardown(h), UNCHANGED <<match, row>>,
           live' \subseteq live,
           \A u \in Users : \/ userRoom'[u] = NoRoom
                            \/ userRoom'[u] = userRoom[u] /\ userRoom'[u] \in live'
    PROVE  Inv2'
<1>1. LetsGo(h)
  BY AfterTeardownLetsGo
<1> USE <1>1 DEF Inv2, LetsGo
<1>2. LiveRoomHasOpenMatch' BY DEF LiveRoomHasOpenMatch
<1>3. PointerNamesOwnRoom' BY DEF PointerNamesOwnRoom, Members
<1>4. Unwritten' BY DEF Unwritten
<1>5. OnlyWriter' BY DEF OnlyWriter
<1>6. Inserted' BY DEF Inserted
<1>7. Ended' BY DEF Ended, Tearing
<1> QED BY <1>2, <1>3, <1>4, <1>5, <1>6, <1>7

\* teardownRoom reads a pointer: the room it takes up is live, so it has a row
\* and nobody is about to write it.
LEMMA TeardownPointerRooms ==
    ASSUME Inv1, Inv2, NEW h \in Handlers, TeardownPointer(h)
    PROVE  Inv2'
<1>1. CASE AfterTeardown(h)
  BY <1>1, AfterTeardownLetsGo, AsideStep DEF TeardownPointer, redis, mongo
<1>2. CASE userRoom[who[h]] # NoRoom /\ Goto(h, "tdRoom")
           /\ rm' = [rm EXCEPT ![h] = userRoom[who[h]]]
           /\ UNCHANGED <<kind, who, mate, mode, cand, drop>>
  <2> DEFINE r == userRoom[who[h]]
  <2>1. r \in live /\ r \in Rooms /\ match[r] = "open"
    BY <1>2 DEF TeardownPointer, Inv1, Busy, Acting, TypeOK, RedisType, Inv2,
                PointerNamesOwnRoom, LiveRoomHasOpenMatch
  <2>2. \A g \in Handlers : pc[g] = "write" => rm[g] # r
    BY <2>1 DEF Inv2, Unwritten
  <2> HIDE DEF r
  <2>3. /\ UNCHANGED <<live, userRoom, match, row, who, mate>>
        /\ pc' = [pc EXCEPT ![h] = "tdRoom"] /\ rm' = [rm EXCEPT ![h] = r]
    BY <1>2 DEF TeardownPointer, Goto, redis, mongo, r
  <2> USE <2>1, <2>2, <2>3 DEF Inv1, TypeOK, LocalsType, Inv2
  <2>4. LiveRoomHasOpenMatch' BY DEF LiveRoomHasOpenMatch
  <2>5. PointerNamesOwnRoom' BY DEF PointerNamesOwnRoom, Members
  <2>6. Unwritten' BY DEF Unwritten
  <2>7. OnlyWriter' BY DEF OnlyWriter
  <2>8. Inserted' BY DEF Inserted
  <2>9. Ended' BY DEF Ended
  <2> QED BY <2>4, <2>5, <2>6, <2>7, <2>8, <2>9
<1> QED BY <1>1, <1>2 DEF TeardownPointer

\* teardownRoom reads the room hash: it keeps the room it holds.
LEMMA TeardownRoomRooms ==
    ASSUME Inv1, Inv2, NEW h \in Handlers, TeardownRoom(h)
    PROVE  Inv2'
<1>1. /\ UNCHANGED <<live, userRoom, match, row, who, mate, rm>>
      /\ pc[h] = "tdRoom" /\ pc'[h] \in {"tdDelete", "tdDangling"}
      /\ \A g \in Handlers \ {h} : pc'[g] = pc[g]
  BY DEF TeardownRoom, Goto, redis, mongo, locals, Inv1, TypeOK, LocalsType
<1> USE <1>1 DEF Inv2
<1>4. LiveRoomHasOpenMatch' BY DEF LiveRoomHasOpenMatch
<1>5. PointerNamesOwnRoom' BY DEF PointerNamesOwnRoom, Members
<1>6. Unwritten' BY DEF Unwritten
<1>7. OnlyWriter' BY DEF OnlyWriter, Tearing
<1>8. Inserted' BY DEF Inserted, Tearing
<1>9. Ended' BY DEF Ended
<1> QED BY <1>4, <1>5, <1>6, <1>7, <1>8, <1>9

\* DELETE_ROOM_LUA deletes the pointers of both members, hence every pointer
\* to the room it deletes.
LEMMA DeleteRoomRooms ==
    ASSUME Inv1, Inv2, NEW h \in Handlers, DeleteRoom(h)
    PROVE  Inv2'
<1>1. /\ UNCHANGED <<match, row>> /\ live' = live \ {rm[h]}
      /\ \A u \in Users : \/ userRoom'[u] = NoRoom
                          \/ userRoom'[u] = userRoom[u] /\ userRoom'[u] \in live'
  BY DEF DeleteRoom, mongo, Inv2, PointerNamesOwnRoom
<1>2. CASE rm[h] \notin live
  BY <1>1, <1>2, ReleaseStep DEF DeleteRoom
<1>3. CASE rm[h] \in live
  <2>1. /\ UNCHANGED <<who, mate, rm>> /\ pc[h] = "tdDelete" /\ pc'[h] = "tdEnd"
        /\ \A g \in Handlers \ {h} : pc'[g] = pc[g]
    BY <1>3 DEF DeleteRoom, Goto, locals, Inv1, TypeOK, LocalsType
  <2> USE <1>1, <1>3, <2>1 DEF Inv2
  <2>4. LiveRoomHasOpenMatch' BY DEF LiveRoomHasOpenMatch
  <2>5. PointerNamesOwnRoom' BY DEF PointerNamesOwnRoom, Members
  <2>6. Unwritten' BY DEF Unwritten
  <2>7. OnlyWriter' BY DEF OnlyWriter, Tearing
  <2>8. Inserted' BY DEF Inserted, Tearing
  <2>9. Ended' BY DEF Ended
  <2> QED BY <2>4, <2>5, <2>6, <2>7, <2>8, <2>9
<1> QED BY <1>2, <1>3

\* endMatch closes the row of a room that is gone and that nobody will write.
LEMMA EndMatchRooms ==
    ASSUME Inv1, Inv2, NEW h \in Handlers, EndMatch(h)
    PROVE  Inv2'
<1>1. LetsGo(h)
  BY AfterTeardownLetsGo DEF EndMatch
<1>2. /\ UNCHANGED <<live, userRoom, row>>
      /\ pc[h] = "tdEnd" /\ rm[h] \in Rooms /\ rm[h] \notin live
      /\ \A g \in Handlers : pc[g] = "write" => rm[g] # rm[h]
  BY DEF EndMatch, redis, Inv2, Inserted, Ended, OnlyWriter, Tearing
<1>3. /\ \A r \in Rooms \ {rm[h]} : match'[r] = match[r]
      /\ match[rm[h]] # "none" => match'[rm[h]] # "none"
  BY <1>2 DEF EndMatch, Inv1, TypeOK, MongoType
<1> USE <1>1, <1>2, <1>3 DEF Inv2, LetsGo
<1>4. LiveRoomHasOpenMatch' BY DEF LiveRoomHasOpenMatch, Inv1, TypeOK, RedisType
<1>5. PointerNamesOwnRoom' BY DEF PointerNamesOwnRoom, Members
<1>6. Unwritten' BY DEF Unwritten, Inv1, Busy, Roomed
<1>7. OnlyWriter' BY DEF OnlyWriter
<1>8. Inserted' BY DEF Inserted
<1>9. Ended' BY DEF Ended, Tearing
<1> QED BY <1>4, <1>5, <1>6, <1>7, <1>8, <1>9

\* createMatch takes a fresh room: no pointer, no handler and no key knows it.
LEMMA CreateMatchRooms ==
    ASSUME Inv1, Inv2, NEW h \in Handlers, CreateMatch(h)
    PROVE  Inv2'
<1> PICK r \in Rooms : /\ match[r] = "none"
                       /\ match' = [match EXCEPT ![r] = "open"]
                       /\ row' = [row EXCEPT ![r] = [a |-> mate[h], b |-> who[h], type |-> mode[h]]]
                       /\ rm' = [rm EXCEPT ![h] = r]
  BY DEF CreateMatch
<1>1. /\ UNCHANGED <<live, userRoom, who, mate>>
      /\ pc' = [pc EXCEPT ![h] = "write"] /\ pc[h] = "create"
  BY DEF CreateMatch, Goto, redis
<1>2. r \notin live /\ \A g \in Handlers : pc[g] \in Tearing \cup {"write"} => rm[g] # r
  BY DEF Inv2, LiveRoomHasOpenMatch, Inserted, Unwritten
<1>3. /\ match'[r] = "open" /\ row'[r].a = mate[h] /\ row'[r].b = who[h]
      /\ \A q \in Rooms \ {r} : match'[q] = match[q] /\ row'[q] = row[q]
  BY DEF Inv1, TypeOK, MongoType
<1>4. /\ pc'[h] = "write" /\ rm'[h] = r
      /\ \A g \in Handlers \ {h} : pc'[g] = pc[g] /\ rm'[g] = rm[g]
  BY <1>1 DEF Inv1, TypeOK, LocalsType
<1> USE <1>1, <1>2, <1>3, <1>4 DEF Inv2
<1>5. LiveRoomHasOpenMatch' BY DEF LiveRoomHasOpenMatch, Inv1, TypeOK, RedisType
<1>6. PointerNamesOwnRoom' BY DEF PointerNamesOwnRoom, Members, Inv1, TypeOK, RedisType
<1>7. Unwritten' BY DEF Unwritten, Inv1, Busy, Roomed
<1>8. OnlyWriter' BY DEF OnlyWriter
<1>9. Inserted' BY DEF Inserted, Tearing
<1>10. Ended' BY DEF Ended, Tearing
<1> QED BY <1>5, <1>6, <1>7, <1>8, <1>9, <1>10

\* The MULTI makes the room live and points both members, and only them, to it.
LEMMA WriteRoomRooms ==
    ASSUME Inv1, Inv2, NEW h \in Handlers, WriteRoom(h)
    PROVE  Inv2'
<1>1. /\ UNCHANGED <<match, row, rm, who, mate>> /\ live' = live \cup {rm[h]}
      /\ userRoom' = [u \in Users |-> IF u \in {who[h], mate[h]} THEN rm[h] ELSE userRoom[u]]
      /\ pc[h] = "write" /\ pc'[h] = "deliver"
      /\ \A g \in Handlers \ {h} : pc'[g] = pc[g]
  BY DEF WriteRoom, Goto, mongo, locals, Inv1, TypeOK, LocalsType
<1>2. /\ match[rm[h]] = "open" /\ row[rm[h]].a = mate[h] /\ row[rm[h]].b = who[h]
      /\ \A g \in Handlers \ {h} : pc[g] \in Tearing \cup {"write"} => rm[g] # rm[h]
  BY <1>1 DEF Inv2, Unwritten, OnlyWriter
<1> USE <1>1, <1>2 DEF Inv2
<1>3. LiveRoomHasOpenMatch' BY DEF LiveRoomHasOpenMatch
<1>4. PointerNamesOwnRoom' BY DEF PointerNamesOwnRoom, Members
<1>5. Unwritten' BY DEF Unwritten
<1>6. OnlyWriter' BY DEF OnlyWriter, Tearing
<1>7. Inserted' BY DEF Inserted, Tearing
<1>8. Ended' BY DEF Ended, Tearing
<1> QED BY <1>3, <1>4, <1>5, <1>6, <1>7, <1>8

\* A room that expires takes its pointers along.
LEMMA RoomExpiresRooms ==
    ASSUME Inv1, Inv2, NEW r \in Rooms, RoomExpires(r)
    PROVE  Inv2'
<1>1. /\ UNCHANGED <<match, row, pc, rm, who, mate>> /\ live' = live \ {r}
      /\ userRoom' = [u \in Users |-> IF userRoom[u] = r THEN NoRoom ELSE userRoom[u]]
  BY DEF RoomExpires, mongo, locals
<1> USE <1>1 DEF Inv2
<1>2. LiveRoomHasOpenMatch' BY DEF LiveRoomHasOpenMatch
<1>3. PointerNamesOwnRoom' BY DEF PointerNamesOwnRoom, Members
<1>4. Unwritten' BY DEF Unwritten
<1>5. OnlyWriter' BY DEF OnlyWriter
<1>6. Inserted' BY DEF Inserted
<1>7. Ended' BY DEF Ended
<1> QED BY <1>2, <1>3, <1>4, <1>5, <1>6, <1>7

\* The sweep closes only rows whose room is gone and not about to be written.
LEMMA ReconcileStaleRooms ==
    ASSUME Inv1, Inv2, NEW rs \in SUBSET Rooms, ReconcileStale(rs)
    PROVE  Inv2'
<1>1. /\ UNCHANGED <<live, userRoom, row, pc, rm, who, mate>>
      /\ match' = [r \in Rooms |-> IF r \in rs THEN "closed" ELSE match[r]]
      /\ \A r \in rs : r \notin live /\ \A h \in Handlers : ~(pc[h] = "write" /\ rm[h] = r)
  BY DEF ReconcileStale, PastCutoff, redis, locals
<1> USE <1>1 DEF Inv2
<1>2. LiveRoomHasOpenMatch' BY DEF LiveRoomHasOpenMatch, Inv1, TypeOK, RedisType
<1>3. PointerNamesOwnRoom' BY DEF PointerNamesOwnRoom, Members
<1>4. Unwritten' BY DEF Unwritten, Inv1, Busy, Roomed
<1>5. OnlyWriter' BY DEF OnlyWriter
<1>6. Inserted' BY DEF Inserted
<1>7. Ended' BY DEF Ended
<1> QED BY <1>2, <1>3, <1>4, <1>5, <1>6, <1>7

\* Every step keeps rooms, pointers and rows in agreement.
LEMMA Inv2Step == Inv1 /\ Inv2 /\ [Next]_vars => Inv2'
<1> SUFFICES ASSUME Inv1, Inv2, [Next]_vars PROVE Inv2'
  OBVIOUS
<1> USE DEF redis, mongo, clients, locals, counters
<1>1. ASSUME NEW h \in Handlers, NEW u \in Users, NEW t \in AskedTypes, StartJoin(h, u, t) PROVE Inv2'
  BY <1>1, AsideStep DEF StartJoin, Start, LetsGo, Tearing, Inv1, TypeOK, LocalsType
<1>2. ASSUME NEW h \in Handlers, NEW u \in Users, StartNext(h, u) PROVE Inv2'
  BY <1>2, AsideStep DEF StartNext, Start, LetsGo, Tearing, Inv1, TypeOK, LocalsType
<1>3. ASSUME NEW h \in Handlers, NEW u \in Users, StartLeave(h, u) PROVE Inv2'
  BY <1>3, AsideStep DEF StartLeave, Start, LetsGo, Tearing, Inv1, TypeOK, LocalsType
<1>4. ASSUME NEW h \in Handlers, NEW u \in Users, StartDisconnect(h, u) PROVE Inv2'
  BY <1>4, AsideStep DEF StartDisconnect, Start, LetsGo, Tearing, Inv1, TypeOK, LocalsType
<1>5. ASSUME NEW h \in Handlers, NEW u \in Users, NEW r \in Rooms, StartHangup(h, u, r) PROVE Inv2'
  BY <1>5, AsideStep DEF StartHangup, Start, LetsGo, Tearing, Inv1, TypeOK, LocalsType
<1>6. ASSUME NEW h \in Handlers, NEW u \in Users, NEW v \in Users, StartEnforce(h, u, v) PROVE Inv2'
  BY <1>6, AsideStep DEF StartEnforce, Start, LetsGo, Tearing, Inv1, TypeOK, LocalsType
<1>7. ASSUME NEW h \in Handlers, NEW u \in Users, StartKick(h, u) PROVE Inv2'
  BY <1>7, AsideStep DEF StartKick, Start, LetsGo, Tearing, Inv1, TypeOK, LocalsType
<1>8. ASSUME NEW h \in Handlers, ReadPointerJoin(h) PROVE Inv2'
  BY <1>8, AsideStep DEF ReadPointerJoin, Return, Goto, LetsGo, Tearing, Inv1, TypeOK, LocalsType
<1>9. ASSUME NEW h \in Handlers, ReadPointerNext(h) PROVE Inv2'
  BY <1>9, AsideStep DEF ReadPointerNext, Goto, LetsGo, Tearing, Inv1, TypeOK, LocalsType
<1>10. ASSUME NEW h \in Handlers, ReadPointerEnforce(h) PROVE Inv2'
  BY <1>10, AsideStep DEF ReadPointerEnforce, Return, Goto, LetsGo, Tearing, Inv1, TypeOK, LocalsType
<1>11. ASSUME NEW h \in Handlers, PresenceOff(h) PROVE Inv2'
  BY <1>11, AsideStep DEF PresenceOff, Goto, LetsGo, Tearing, Inv1, TypeOK, LocalsType
<1>12. ASSUME NEW h \in Handlers, DequeueAll(h) PROVE Inv2'
  BY <1>12, AsideStep DEF DequeueAll, Goto, LetsGo, Tearing, Inv1, TypeOK, LocalsType
<1>13. ASSUME NEW h \in Handlers, IsMember(h) PROVE Inv2'
  BY <1>13, AsideStep DEF IsMember, Return, Goto, LetsGo, Tearing, Inv1, TypeOK, LocalsType
<1>14. ASSUME NEW h \in Handlers, GetPeerOf(h) PROVE Inv2'
  BY <1>14, AsideStep DEF GetPeerOf, Return, Goto, LetsGo, Tearing, Inv1, TypeOK, LocalsType
<1>15. ASSUME NEW h \in Handlers, TeardownPointer(h) PROVE Inv2'
  BY <1>15, TeardownPointerRooms
<1>16. ASSUME NEW h \in Handlers, TeardownRoom(h) PROVE Inv2'
  BY <1>16, TeardownRoomRooms
<1>17. ASSUME NEW h \in Handlers, TeardownDangling(h) PROVE Inv2'
  <2>1. \A u \in Users : userRoom'[u] \in {NoRoom, userRoom[u]}
    BY <1>17 DEF TeardownDangling, Inv1, TypeOK, RedisType
  <2>2. live' = live /\ \A u \in Users : userRoom[u] # NoRoom => userRoom[u] \in live
    BY <1>17 DEF TeardownDangling, Inv2, PointerNamesOwnRoom
  <2> QED BY <1>17, <2>1, <2>2, ReleaseStep DEF TeardownDangling
<1>18. ASSUME NEW h \in Handlers, DeleteRoom(h) PROVE Inv2'
  BY <1>18, DeleteRoomRooms
<1>19. ASSUME NEW h \in Handlers, EndMatch(h) PROVE Inv2'
  BY <1>19, EndMatchRooms
<1>20. ASSUME NEW h \in Handlers, Enqueue(h) PROVE Inv2'
  BY <1>20, AsideStep DEF Enqueue, Goto, LetsGo, Tearing, Inv1, TypeOK, LocalsType
<1>21. ASSUME NEW h \in Handlers, EnqueueNoProfile(h) PROVE Inv2'
  BY <1>21, AsideStep DEF EnqueueNoProfile, Return, LetsGo, Tearing, Inv1, TypeOK, LocalsType
<1>22. ASSUME NEW h \in Handlers, Scan(h) PROVE Inv2'
  BY <1>22, AsideStep DEF Scan, Goto, LetsGo, Tearing, Inv1, TypeOK, LocalsType
<1>23. ASSUME NEW h \in Handlers, LoadWaiters(h) PROVE Inv2'
  BY <1>23, AsideStep DEF LoadWaiters, Goto, LetsGo, Tearing, Inv1, TypeOK, LocalsType
<1>24. ASSUME NEW h \in Handlers, PruneStale(h) PROVE Inv2'
  BY <1>24, AsideStep DEF PruneStale, Goto, LetsGo, Tearing, Inv1, TypeOK, LocalsType
<1>25. ASSUME NEW h \in Handlers, CheckLive(h) PROVE Inv2'
  BY <1>25, AsideStep DEF CheckLive, Goto, LetsGo, Tearing, Inv1, TypeOK, LocalsType
<1>26. ASSUME NEW h \in Handlers, EvictDead(h) PROVE Inv2'
  BY <1>26, AsideStep DEF EvictDead, Goto, LetsGo, Tearing, Inv1, TypeOK, LocalsType
<1>27. ASSUME NEW h \in Handlers, Gate(h) PROVE Inv2'
  BY <1>27, AsideStep DEF Gate, Goto, LetsGo, Tearing, Inv1, TypeOK, LocalsType
<1>28. ASSUME NEW h \in Handlers, ClaimPair(h) PROVE Inv2'
  BY <1>28, AsideStep DEF ClaimPair, Goto, LetsGo, Tearing, Inv1, TypeOK, LocalsType
<1>29. ASSUME NEW h \in Handlers, StillQueued(h) PROVE Inv2'
  BY <1>29, AsideStep DEF StillQueued, Goto, LetsGo, Tearing, Inv1, TypeOK, LocalsType
<1>30. ASSUME NEW h \in Handlers, NoCandidate(h) PROVE Inv2'
  BY <1>30, AsideStep DEF NoCandidate, Goto, LetsGo, Tearing, Inv1, TypeOK, LocalsType
<1>31. ASSUME NEW h \in Handlers, CreateMatch(h) PROVE Inv2'
  BY <1>31, CreateMatchRooms
<1>32. ASSUME NEW h \in Handlers, WriteRoom(h) PROVE Inv2'
  BY <1>32, WriteRoomRooms
<1>33. ASSUME NEW h \in Handlers, CommitFails(h) PROVE Inv2'
  BY <1>33, AsideStep DEF CommitFails, Goto, LetsGo, Tearing, Inv1, TypeOK, LocalsType
<1>34. ASSUME NEW h \in Handlers, Deliver(h) PROVE Inv2'
  BY <1>34, AsideStep DEF Deliver, Return, LetsGo, Tearing, Inv1, TypeOK, LocalsType
<1>35. ASSUME NEW h \in Handlers, NoMatch(h) PROVE Inv2'
  BY <1>35, AsideStep DEF NoMatch, Return, LetsGo, Tearing, Inv1, TypeOK, LocalsType
<1>36. ASSUME NEW u \in Users, Connect(u) PROVE Inv2'
  BY <1>36, Frame2 DEF Connect
<1>37. ASSUME NEW u \in Users, NEW v \in Users, Block(u, v) PROVE Inv2'
  BY <1>37, Frame2 DEF Block
<1>38. ASSUME NEW u \in Users, WaiterExpires(u) PROVE Inv2'
  BY <1>38, Frame2 DEF WaiterExpires
<1>39. ASSUME NEW r \in Rooms, RoomExpires(r) PROVE Inv2'
  BY <1>39, RoomExpiresRooms
<1>40. ASSUME NEW rs \in SUBSET Rooms, ReconcileStale(rs) PROVE Inv2'
  BY <1>40, ReconcileStaleRooms
<1>41. ASSUME NEW h \in Handlers, Crash(h) PROVE Inv2'
  BY <1>41, AsideStep DEF Crash, Return, LetsGo, Tearing, Inv1, TypeOK, LocalsType
<1>42. ASSUME NEW u \in Users, PresenceLapses(u) PROVE Inv2'
  BY <1>42, Frame2 DEF PresenceLapses
<1>43. ASSUME NEW u \in Users, Heartbeat(u) PROVE Inv2'
  BY <1>43, Frame2 DEF Heartbeat
<1>44. CASE UNCHANGED vars
  BY <1>44, Frame2 DEF vars
<1> QED
  BY <1>1, <1>2, <1>3, <1>4, <1>5, <1>6, <1>7, <1>8, <1>9, <1>10, <1>11, <1>12,
     <1>13, <1>14, <1>15, <1>16, <1>17, <1>18, <1>19, <1>20, <1>21, <1>22, <1>23,
     <1>24, <1>25, <1>26, <1>27, <1>28, <1>29, <1>30, <1>31, <1>32, <1>33, <1>34,
     <1>35, <1>36, <1>37, <1>38, <1>39, <1>40, <1>41, <1>42, <1>43, <1>44
     DEF Next, StartAny, Step, Teardown, Matcher, Environment

-----------------------------------------------------------------------------
(* Claims *)

\* An enqueue adds at most one entry for its user and counts one more join.
LEMMA EnqueueClaims ==
    ASSUME Inv1, ClaimsUseEntries, NEW h \in Handlers, Enqueue(h)
    PROVE  ClaimsUseEntries'
<1>1. who[h] \in Users /\ mode[h] \in MatchType
  BY DEF Enqueue, Inv1, Busy, Acting, TypeOK, LocalsType
<1>2. /\ UNCHANGED claims /\ \A u \in Users : claims[u] \in Nat /\ joins[u] \in Nat
      /\ joins'[who[h]] = joins[who[h]] + 1
      /\ \A u \in Users \ {who[h]} : joins'[u] = joins[u]
  BY <1>1 DEF Enqueue, Inv1, TypeOK, CountersType
<1>3. ASSUME NEW u \in Users \ {who[h]} PROVE Entries(u)' = Entries(u)
  BY <1>1, <1>3 DEF Enqueue, Entries, Inv1, TypeOK, RedisType, MatchType
<1>4. ASSUME NEW u \in Users PROVE Entries(u)' <= Entries(u) + 1
  <2>1. pool'["video"] = pool["video"] \/ pool'["voice"] = pool["voice"]
    BY <1>1 DEF Enqueue, Inv1, TypeOK, RedisType, MatchType
  <2> QED BY <2>1 DEF Entries
<1>5. \A u \in Users : Entries(u) \in Nat /\ Entries(u)' \in Nat
  BY DEF Entries
<1> SUFFICES ASSUME NEW u \in Users PROVE claims'[u] + Entries(u)' <= joins'[u]
  BY DEF ClaimsUseEntries
<1>6. claims[u] + Entries(u) <= joins[u]
  BY DEF ClaimsUseEntries
<1>7. CASE u = who[h]
  BY <1>2, <1>4, <1>5, <1>6, <1>7
<1>8. CASE u # who[h]
  BY <1>2, <1>3, <1>6, <1>8
<1> QED BY <1>7, <1>8

\* A claim takes away an entry of each user it counts a claim for.
LEMMA ClaimPairClaims ==
    ASSUME Inv1, ClaimsUseEntries, NEW h \in Handlers, ClaimPair(h)
    PROVE  ClaimsUseEntries'
<1> PICK c \in cand[h] : ClaimPair(h)!2!(c)
  BY DEF ClaimPair
<1>1. who[h] \in Users /\ c \in Users /\ mode[h] \in MatchType /\ UNCHANGED joins
  BY DEF ClaimPair, Inv1, Busy, Acting, TypeOK, LocalsType
<1>2. CASE {who[h], c} \subseteq pool[mode[h]]
  <2>1. ASSUME NEW u \in {who[h], c} PROVE Entries(u)' + 1 = Entries(u)
    BY <1>1, <1>2, <2>1 DEF Entries, Inv1, TypeOK, RedisType, MatchType
  <2>2. ASSUME NEW u \in Users \ {who[h], c} PROVE Entries(u)' = Entries(u)
    BY <1>1, <1>2, <2>2 DEF Entries, Inv1, TypeOK, RedisType, MatchType
  <2>3. \A u \in Users : claims'[u] = IF u \in {who[h], c} THEN claims[u] + 1 ELSE claims[u]
    BY <1>2
  <2>4. \A u \in Users : claims[u] \in Nat /\ joins[u] \in Nat
    BY DEF Inv1, TypeOK, CountersType
  <2>5. \A u \in Users : Entries(u) \in Nat /\ Entries(u)' \in Nat
    BY DEF Entries
  <2> QED BY <1>1, <2>1, <2>2, <2>3, <2>4, <2>5 DEF ClaimsUseEntries
<1>3. CASE ~({who[h], c} \subseteq pool[mode[h]])
  BY <1>1, <1>3 DEF ClaimsUseEntries, Entries
<1> QED BY <1>2, <1>3

\* A step that only takes users out of the pools keeps the count.
LEMMA ShrinkClaims ==
    ASSUME Inv1, ClaimsUseEntries, UNCHANGED <<joins, claims>>,
           \A t \in MatchType : pool'[t] \subseteq pool[t]
    PROVE  ClaimsUseEntries'
<1>1. \A u \in Users : /\ Entries(u)' <= Entries(u)
                       /\ Entries(u) \in Nat /\ Entries(u)' \in Nat
  BY DEF Entries, MatchType
<1>2. \A u \in Users : claims[u] \in Nat /\ joins[u] \in Nat
  BY DEF Inv1, TypeOK, CountersType
<1> QED BY <1>1, <1>2 DEF ClaimsUseEntries

\* Every step keeps the count.
LEMMA ClaimsStep == Inv1 /\ ClaimsUseEntries /\ [Next]_vars => ClaimsUseEntries'
<1> SUFFICES ASSUME Inv1, ClaimsUseEntries, [Next]_vars PROVE ClaimsUseEntries'
  OBVIOUS
<1> USE DEF redis, mongo, clients, locals, counters
<1>1. ASSUME NEW h \in Handlers, NEW u \in Users, NEW t \in AskedTypes, StartJoin(h, u, t) PROVE ClaimsUseEntries'
  BY <1>1, ShrinkClaims DEF StartJoin, Start
<1>2. ASSUME NEW h \in Handlers, NEW u \in Users, StartNext(h, u) PROVE ClaimsUseEntries'
  BY <1>2, ShrinkClaims DEF StartNext, Start
<1>3. ASSUME NEW h \in Handlers, NEW u \in Users, StartLeave(h, u) PROVE ClaimsUseEntries'
  BY <1>3, ShrinkClaims DEF StartLeave, Start
<1>4. ASSUME NEW h \in Handlers, NEW u \in Users, StartDisconnect(h, u) PROVE ClaimsUseEntries'
  BY <1>4, ShrinkClaims DEF StartDisconnect, Start
<1>5. ASSUME NEW h \in Handlers, NEW u \in Users, NEW r \in Rooms, StartHangup(h, u, r) PROVE ClaimsUseEntries'
  BY <1>5, ShrinkClaims DEF StartHangup, Start
<1>6. ASSUME NEW h \in Handlers, NEW u \in Users, NEW v \in Users, StartEnforce(h, u, v) PROVE ClaimsUseEntries'
  BY <1>6, ShrinkClaims DEF StartEnforce, Start
<1>7. ASSUME NEW h \in Handlers, NEW u \in Users, StartKick(h, u) PROVE ClaimsUseEntries'
  BY <1>7, ShrinkClaims DEF StartKick, Start
<1>8. ASSUME NEW h \in Handlers, ReadPointerJoin(h) PROVE ClaimsUseEntries'
  BY <1>8, ShrinkClaims DEF ReadPointerJoin
<1>9. ASSUME NEW h \in Handlers, ReadPointerNext(h) PROVE ClaimsUseEntries'
  BY <1>9, ShrinkClaims DEF ReadPointerNext
<1>10. ASSUME NEW h \in Handlers, ReadPointerEnforce(h) PROVE ClaimsUseEntries'
  BY <1>10, ShrinkClaims DEF ReadPointerEnforce
<1>11. ASSUME NEW h \in Handlers, PresenceOff(h) PROVE ClaimsUseEntries'
  BY <1>11, ShrinkClaims DEF PresenceOff
<1>12. ASSUME NEW h \in Handlers, DequeueAll(h) PROVE ClaimsUseEntries'
  BY <1>12, ShrinkClaims DEF DequeueAll, Inv1, TypeOK, RedisType
<1>13. ASSUME NEW h \in Handlers, IsMember(h) PROVE ClaimsUseEntries'
  BY <1>13, ShrinkClaims DEF IsMember
<1>14. ASSUME NEW h \in Handlers, GetPeerOf(h) PROVE ClaimsUseEntries'
  BY <1>14, ShrinkClaims DEF GetPeerOf
<1>15. ASSUME NEW h \in Handlers, TeardownPointer(h) PROVE ClaimsUseEntries'
  BY <1>15, ShrinkClaims DEF TeardownPointer
<1>16. ASSUME NEW h \in Handlers, TeardownRoom(h) PROVE ClaimsUseEntries'
  BY <1>16, ShrinkClaims DEF TeardownRoom
<1>17. ASSUME NEW h \in Handlers, TeardownDangling(h) PROVE ClaimsUseEntries'
  BY <1>17, ShrinkClaims DEF TeardownDangling
<1>18. ASSUME NEW h \in Handlers, DeleteRoom(h) PROVE ClaimsUseEntries'
  BY <1>18, ShrinkClaims DEF DeleteRoom
<1>19. ASSUME NEW h \in Handlers, EndMatch(h) PROVE ClaimsUseEntries'
  BY <1>19, ShrinkClaims DEF EndMatch
<1>20. ASSUME NEW h \in Handlers, Enqueue(h) PROVE ClaimsUseEntries'
  BY <1>20, EnqueueClaims
<1>21. ASSUME NEW h \in Handlers, EnqueueNoProfile(h) PROVE ClaimsUseEntries'
  BY <1>21, ShrinkClaims DEF EnqueueNoProfile
<1>22. ASSUME NEW h \in Handlers, Scan(h) PROVE ClaimsUseEntries'
  BY <1>22, ShrinkClaims DEF Scan
<1>23. ASSUME NEW h \in Handlers, LoadWaiters(h) PROVE ClaimsUseEntries'
  BY <1>23, ShrinkClaims DEF LoadWaiters
<1>24. ASSUME NEW h \in Handlers, PruneStale(h) PROVE ClaimsUseEntries'
  BY <1>24, ShrinkClaims DEF PruneStale, Inv1, TypeOK, RedisType
<1>25. ASSUME NEW h \in Handlers, CheckLive(h) PROVE ClaimsUseEntries'
  BY <1>25, ShrinkClaims DEF CheckLive
<1>26. ASSUME NEW h \in Handlers, EvictDead(h) PROVE ClaimsUseEntries'
  BY <1>26, ShrinkClaims DEF EvictDead, Inv1, TypeOK, RedisType
<1>27. ASSUME NEW h \in Handlers, Gate(h) PROVE ClaimsUseEntries'
  BY <1>27, ShrinkClaims DEF Gate
<1>28. ASSUME NEW h \in Handlers, ClaimPair(h) PROVE ClaimsUseEntries'
  BY <1>28, ClaimPairClaims
<1>29. ASSUME NEW h \in Handlers, StillQueued(h) PROVE ClaimsUseEntries'
  BY <1>29, ShrinkClaims DEF StillQueued
<1>30. ASSUME NEW h \in Handlers, NoCandidate(h) PROVE ClaimsUseEntries'
  BY <1>30, ShrinkClaims DEF NoCandidate
<1>31. ASSUME NEW h \in Handlers, CreateMatch(h) PROVE ClaimsUseEntries'
  BY <1>31, ShrinkClaims DEF CreateMatch
<1>32. ASSUME NEW h \in Handlers, WriteRoom(h) PROVE ClaimsUseEntries'
  BY <1>32, ShrinkClaims DEF WriteRoom
<1>33. ASSUME NEW h \in Handlers, CommitFails(h) PROVE ClaimsUseEntries'
  BY <1>33, ShrinkClaims DEF CommitFails
<1>34. ASSUME NEW h \in Handlers, Deliver(h) PROVE ClaimsUseEntries'
  BY <1>34, ShrinkClaims DEF Deliver
<1>35. ASSUME NEW h \in Handlers, NoMatch(h) PROVE ClaimsUseEntries'
  BY <1>35, ShrinkClaims DEF NoMatch
<1>36. ASSUME NEW u \in Users, Connect(u) PROVE ClaimsUseEntries'
  BY <1>36, ShrinkClaims DEF Connect
<1>37. ASSUME NEW u \in Users, NEW v \in Users, Block(u, v) PROVE ClaimsUseEntries'
  BY <1>37, ShrinkClaims DEF Block
<1>38. ASSUME NEW u \in Users, WaiterExpires(u) PROVE ClaimsUseEntries'
  BY <1>38, ShrinkClaims DEF WaiterExpires
<1>39. ASSUME NEW r \in Rooms, RoomExpires(r) PROVE ClaimsUseEntries'
  BY <1>39, ShrinkClaims DEF RoomExpires
<1>40. ASSUME NEW rs \in SUBSET Rooms, ReconcileStale(rs) PROVE ClaimsUseEntries'
  BY <1>40, ShrinkClaims DEF ReconcileStale
<1>41. ASSUME NEW h \in Handlers, Crash(h) PROVE ClaimsUseEntries'
  BY <1>41, ShrinkClaims DEF Crash
<1>42. ASSUME NEW u \in Users, PresenceLapses(u) PROVE ClaimsUseEntries'
  BY <1>42, ShrinkClaims DEF PresenceLapses
<1>43. ASSUME NEW u \in Users, Heartbeat(u) PROVE ClaimsUseEntries'
  BY <1>43, ShrinkClaims DEF Heartbeat
<1>44. CASE UNCHANGED vars
  BY <1>44, ShrinkClaims DEF vars
<1> QED
  BY <1>1, <1>2, <1>3, <1>4, <1>5, <1>6, <1>7, <1>8, <1>9, <1>10, <1>11, <1>12,
     <1>13, <1>14, <1>15, <1>16, <1>17, <1>18, <1>19, <1>20, <1>21, <1>22, <1>23,
     <1>24, <1>25, <1>26, <1>27, <1>28, <1>29, <1>30, <1>31, <1>32, <1>33, <1>34,
     <1>35, <1>36, <1>37, <1>38, <1>39, <1>40, <1>41, <1>42, <1>43, <1>44
     DEF Next, StartAny, Step, Teardown, Matcher, Environment

-----------------------------------------------------------------------------
(* The theorems *)

IInv == Inv1 /\ Inv2 /\ ClaimsUseEntries

\* The inductive invariant holds in every reachable state.
THEOREM Inductive == Spec => []IInv
<1>1. Init => Inv1
  BY NullsAssumption DEF Init, Inv1, Busy, Acting, Paired, Roomed, TypeOK, RedisType,
     MongoType, ClientsType, LocalsType, CountersType, Await, Kind, Told, MatchType
<1>2. Init => Inv2
  BY DEF Init, Inv2, LiveRoomHasOpenMatch, PointerNamesOwnRoom, Unwritten, OnlyWriter,
     Inserted, Ended, Tearing
<1>3. Init => ClaimsUseEntries
  BY DEF Init, ClaimsUseEntries, Entries, MatchType
<1>4. Init => IInv
  BY <1>1, <1>2, <1>3 DEF IInv
<1>5. IInv /\ [Next]_vars => IInv'
  BY Inv1Step, Inv2Step, ClaimsStep DEF IInv
<1> QED
  BY <1>4, <1>5, PTL DEF Spec

\* Every variable of the model keeps its type: no handler follows a pointer, a
\* row or a waiter entry that is not one.
THEOREM TypeCorrect == Spec => []TypeOK
<1>1. IInv => TypeOK
  BY DEF IInv, Inv1
<1> QED
  BY <1>1, Inductive, PTL

\* The Match row of a room is open as long as the room is live: no teardown, no
\* expiry and no sweep closes the record of a call that goes on.
THEOREM LiveRoomsAreOpen == Spec => []LiveRoomHasOpenMatch
<1>1. IInv => LiveRoomHasOpenMatch
  BY DEF IInv, Inv2
<1> QED
  BY <1>1, Inductive, PTL

\* A pointer always names a live room of its own user, so a relay or a teardown
\* that follows it acts on a room the user is in.
THEOREM PointersAreSound == Spec => []PointerNamesOwnRoom
<1>1. IInv => PointerNamesOwnRoom
  BY DEF IInv, Inv2
<1> QED
  BY <1>1, Inductive, PTL

\* However joins, skips, matchers and crashes interleave, nobody is matched more
\* often than it enqueued: CLAIM_PAIR_LUA hands out each entry once.
THEOREM ClaimsAreExclusive == Spec => []ClaimsUseEntries
<1>1. IInv => ClaimsUseEntries
  BY DEF IInv
<1> QED
  BY <1>1, Inductive, PTL
=============================================================================
