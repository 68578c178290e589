------------------------- MODULE MatchmakingPairProofs -------------------------
(***************************************************************************)
(* Proofs about the pairs that Matchmaking makes.  No user waits beside    *)
(* one that it came after and accepts, as long as a batch holds the whole  *)
(* pool: in every state some handler of the later user still has the other *)
(* in hand as a candidate.  And what becomes of a pair, from the claim to  *)
(* the closed record, is what the module Roulette promises.                *)
(***************************************************************************)
EXTENDS MatchmakingProofs, FiniteSetTheorems

\* The awaits at which a matcher has read its batch and not yet given up.
Looking == {"load", "prune", "live", "evict", "gate", "claim", "queued"}

\* The handler h matches u in the pool t and will come to v: it is about to
\* scan, has v among its candidates, or takes v for dead and is about to evict it.
Searches(h, u, v, t) ==
    /\ who[h] = u /\ mode[h] = t
    /\ \/ pc[h] = "scan"
       \/ pc[h] \in Looking /\ v \in cand[h]
       \/ pc[h] = "evict" /\ v \in drop[h]

\* Of two users one is the other's elder, and nobody is its own.
Ordered == \A u, v \in Users : u # v <=> v \in elders[u] \/ u \in elders[v]

\* The matcher of the user who came later will come to every waiter it could take.
FoundInv ==
    /\ Ordered
    /\ \A u, v \in Users, t \in MatchType :
          u \notin fallen /\ v \in elders[u] /\ CouldTake(u, v, t) =>
              \E h \in Handlers : Searches(h, u, v, t)

\* The code's promise ends where a pool outgrows MATCH_CANDIDATE_BATCH.
PoolsFit == \A t \in MatchType : IsFiniteSet(pool[t]) /\ Cardinality(pool[t]) <= Batch
-----------------------------------------------------------------------------
(* What a step may do to a pair *)

\* Only the handler h moves, nobody enqueues, and nobody's death is forgotten.
Alone(h) ==
    /\ fallen \subseteq fallen' /\ UNCHANGED elders
    /\ \A g \in Handlers \ {h} : /\ pc'[g] = pc[g] /\ who'[g] = who[g] /\ mode'[g] = mode[g]
                                /\ cand'[g] = cand[g] /\ drop'[g] = drop[g]

\* The step makes no pair that was not there.
NoNewPair ==
    \A u, v \in Users, t \in MatchType : CouldTake(u, v, t)' => CouldTake(u, v, t)

\* A step that makes no pair, and after which the handler that takes it still
\* comes to whom it was coming, if they can still be paired, loses no pair.
LEMMA SearchGoesOn ==
    ASSUME FoundInv, NEW h \in Handlers, Alone(h), NoNewPair,
           \A u, v \in Users, t \in MatchType :
              u # v /\ CouldTake(u, v, t) /\ CouldTake(u, v, t)' /\ Searches(h, u, v, t)
                => Searches(h, u, v, t)'
    PROVE  FoundInv'
<1>1. Ordered'
  BY DEF FoundInv, Ordered, Alone
<1> SUFFICES ASSUME NEW u \in Users \ fallen', NEW v \in Users, NEW t \in MatchType,
                    v \in elders'[u], CouldTake(u, v, t)'
             PROVE  \E g \in Handlers : Searches(g, u, v, t)'
  BY <1>1 DEF FoundInv
<1>2. u # v /\ CouldTake(u, v, t) /\ v \in elders[u] /\ u \notin fallen
  BY DEF NoNewPair, Alone, FoundInv, Ordered
<1>3. PICK g \in Handlers : Searches(g, u, v, t)
  BY <1>2 DEF FoundInv
<1>4. CASE g = h
  BY <1>2, <1>3, <1>4
<1>5. CASE g # h
  BY <1>3, <1>5 DEF Alone, Searches
<1> QED BY <1>4, <1>5

\* A handler that searches for nobody disturbs no search.
LEMMA BystanderStep ==
    ASSUME FoundInv, NEW h \in Handlers, Alone(h), NoNewPair,
           pc[h] \notin Looking \cup {"scan"}
    PROVE  FoundInv'
<1>1. \A u, v \in Users, t \in MatchType : ~Searches(h, u, v, t)
  BY DEF Searches, Looking
<1> QED BY <1>1, SearchGoesOn

\* Users who leave the pools, hashes that go and new blocks make no pair.
LEMMA ShrinkMakesNoPair ==
    ASSUME \A t \in MatchType : pool'[t] \subseteq pool[t],
           \A u \in Users : waiter'[u] \in {waiter[u], "none"},
           blocked \subseteq blocked'
    PROVE  NoNewPair
BY DEF NoNewPair, CouldTake, MatchType

\* A step of the environment that touches no handler.
LEMMA EnvironmentStep ==
    ASSUME FoundInv, UNCHANGED <<pc, who, mode, cand, drop, elders, fallen>>, NoNewPair
    PROVE  FoundInv'
BY DEF FoundInv, Ordered, NoNewPair, Searches

\* The death of a handler excuses the user it was searching for.
LEMMA CrashFound ==
    ASSUME Inv1, FoundInv, NEW h \in Handlers, Crash(h)
    PROVE  FoundInv'
<1>1. /\ Alone(h) /\ fallen' = fallen \cup {who[h]}
      /\ UNCHANGED <<pool, waiter, blocked>>
  BY DEF Crash, Return, Alone, redis, mongo, Inv1, TypeOK, LocalsType
<1>2. Ordered'
  BY <1>1 DEF FoundInv, Ordered, Alone
<1> SUFFICES ASSUME NEW u \in Users \ fallen', NEW v \in Users, NEW t \in MatchType,
                    v \in elders'[u], CouldTake(u, v, t)'
             PROVE  \E g \in Handlers : Searches(g, u, v, t)'
  BY <1>2 DEF FoundInv
<1>3. PICK g \in Handlers : Searches(g, u, v, t)
  BY <1>1 DEF FoundInv, Alone, CouldTake
<1>4. g # h
  BY <1>1, <1>3 DEF Searches
<1> QED BY <1>1, <1>3, <1>4 DEF Alone, Searches

-----------------------------------------------------------------------------
(* The steps of a matcher *)

\* enqueue makes pairs, but only such that the user whose matcher is about to scan
\* came later.
LEMMA EnqueueFound ==
    ASSUME Inv1, FoundInv, NEW h \in Handlers, Enqueue(h)
    PROVE  FoundInv'
<1>1. who[h] \in Users /\ mode[h] \in MatchType
  BY DEF Enqueue, Inv1, Busy, Acting, TypeOK, LocalsType
<1>2. /\ fallen' = fallen \ {who[h]}
      /\ elders' = [u \in Users |-> IF u = who[h] THEN Users \ {u} ELSE elders[u] \ {who[h]}]
      /\ \A g \in Handlers \ {h} : /\ pc'[g] = pc[g] /\ who'[g] = who[g] /\ mode'[g] = mode[g]
                                  /\ cand'[g] = cand[g] /\ drop'[g] = drop[g]
      /\ pc[h] = "enqueue" /\ pc'[h] = "scan" /\ who'[h] = who[h] /\ mode'[h] = mode[h]
      /\ \A u \in Users \ {who[h]} : waiter'[u] = waiter[u]
      /\ waiter'[who[h]] = mode[h]
      /\ \A u \in Users \ {who[h]}, t \in MatchType : u \in pool'[t] <=> u \in pool[t]
      /\ blocked' = blocked
  BY <1>1 DEF Enqueue, Goto, locals, mongo, counters, Inv1, TypeOK, RedisType, LocalsType
<1>3. Ordered'
  BY <1>1, <1>2 DEF FoundInv, Ordered
<1> SUFFICES ASSUME NEW u \in Users \ fallen', NEW v \in Users, NEW t \in MatchType,
                    v \in elders'[u], CouldTake(u, v, t)'
             PROVE  \E g \in Handlers : Searches(g, u, v, t)'
  BY <1>3 DEF FoundInv
<1>4. CASE u = who[h]
  BY <1>2, <1>4 DEF CouldTake, Searches
<1>5. CASE u # who[h]
  <2>1. v # who[h] /\ v \in elders[u] /\ u \notin fallen
    BY <1>2, <1>5
  <2>2. CouldTake(u, v, t)
    BY <1>2, <1>5, <2>1 DEF CouldTake
  <2>3. PICK g \in Handlers : Searches(g, u, v, t)
    BY <2>1, <2>2 DEF FoundInv
  <2>4. g # h
    BY <1>2, <2>3 DEF Searches, Looking
  <2> QED BY <1>2, <2>3, <2>4 DEF Searches
<1> QED BY <1>4, <1>5

\* A batch that may hold the whole pool holds it.
LEMMA BatchIsPool ==
    ASSUME PoolsFit, NEW t \in MatchType, NEW batch \in SUBSET pool[t],
           \/ Cardinality(batch) = Batch
           \/ Cardinality(batch) < Batch /\ batch = pool[t]
    PROVE  batch = pool[t]
<1>1. /\ IsFiniteSet(pool[t]) /\ Cardinality(pool[t]) \in Nat /\ Cardinality(batch) \in Nat
      /\ Cardinality(pool[t]) <= Batch /\ Cardinality(batch) <= Cardinality(pool[t])
      /\ Cardinality(pool[t]) = Cardinality(batch) => pool[t] = batch
  BY FS_CardinalityType, FS_Subset DEF PoolsFit
<1> QED BY <1>1, BoundsAssumption

\* The scan of a pool that fits a batch has every other waiter as a candidate.
LEMMA ScanFound ==
    ASSUME Inv1, FoundInv, PoolsFit, NEW h \in Handlers, Scan(h)
    PROVE  FoundInv'
<1>1. who[h] \in Users /\ mode[h] \in MatchType /\ pc[h] = "scan" /\ pc'[h] = "load"
  BY DEF Scan, Goto, Inv1, Busy, Acting, TypeOK, LocalsType
<1>2. cand'[h] = pool[mode[h]] \ {who[h]}
  BY <1>1, BatchIsPool DEF Scan, Inv1, TypeOK, LocalsType
<1>3. Alone(h) /\ NoNewPair /\ who'[h] = who[h] /\ mode'[h] = mode[h] /\ UNCHANGED <<pool, blocked, waiter>>
  BY DEF Scan, Goto, Alone, NoNewPair, CouldTake, redis, mongo, counters, Inv1, TypeOK,
     LocalsType
<1> QED BY <1>1, <1>2, <1>3, SearchGoesOn DEF CouldTake, Searches, Looking

\* The hash and the static gates strike off nobody who could be paired.
LEMMA LoadWaitersFound ==
    ASSUME Inv1, FoundInv, NEW h \in Handlers, LoadWaiters(h)
    PROVE  FoundInv'
<1>1. /\ Alone(h) /\ NoNewPair /\ who'[h] = who[h] /\ mode'[h] = mode[h]
      /\ UNCHANGED <<pool, blocked, waiter>>
      /\ pc[h] = "load" /\ pc'[h] \in {"live", "prune"}
      /\ cand'[h] = {c \in cand[h] : waiter[c] = mode[h] /\ <<who[h], c>> \in Accepts}
  BY DEF LoadWaiters, Goto, Alone, NoNewPair, CouldTake, redis, mongo, counters, Inv1,
     TypeOK, LocalsType
<1> QED BY <1>1, SearchGoesOn DEF CouldTake, Searches, Looking

\* The pruning touches no candidate that is left.
LEMMA PruneStaleFound ==
    ASSUME Inv1, FoundInv, NEW h \in Handlers, PruneStale(h)
    PROVE  FoundInv'
<1>1. /\ Alone(h) /\ who'[h] = who[h] /\ mode'[h] = mode[h] /\ cand'[h] = cand[h]
      /\ pc[h] = "prune" /\ pc'[h] = "live"
  BY DEF PruneStale, Goto, Alone, counters, Inv1, TypeOK, LocalsType
<1>2. NoNewPair
  BY ShrinkMakesNoPair DEF PruneStale, mongo, Inv1, TypeOK, RedisType
<1> QED BY <1>1, <1>2, SearchGoesOn DEF Searches, Looking

\* A candidate that the presence check strikes off is about to be evicted.
LEMMA CheckLiveFound ==
    ASSUME Inv1, FoundInv, NEW h \in Handlers, CheckLive(h)
    PROVE  FoundInv'
<1>1. /\ Alone(h) /\ NoNewPair /\ who'[h] = who[h] /\ mode'[h] = mode[h]
      /\ pc[h] = "live" /\ pc'[h] = IF cand[h] \subseteq presence THEN "gate" ELSE "evict"
      /\ cand'[h] = cand[h] \cap presence /\ drop'[h] = cand[h] \ presence
  BY DEF CheckLive, Goto, Alone, NoNewPair, CouldTake, redis, mongo, counters, Inv1, TypeOK,
     LocalsType
<1> QED BY <1>1, SearchGoesOn DEF Searches, Looking

\* An evicted candidate is no longer in the pool.
LEMMA EvictDeadFound ==
    ASSUME Inv1, FoundInv, NEW h \in Handlers, EvictDead(h)
    PROVE  FoundInv'
<1>1. /\ Alone(h) /\ who'[h] = who[h] /\ mode'[h] = mode[h] /\ cand'[h] = cand[h]
      /\ pc[h] = "evict" /\ pc'[h] = "gate" /\ mode[h] \in MatchType
      /\ pool'[mode[h]] = pool[mode[h]] \ drop[h]
  BY DEF EvictDead, Goto, Alone, counters, Inv1, TypeOK, RedisType, LocalsType
<1>2. NoNewPair
  BY ShrinkMakesNoPair DEF EvictDead, mongo, Inv1, TypeOK, RedisType
<1> QED BY <1>1, <1>2, SearchGoesOn DEF CouldTake, Searches, Looking

\* The block check strikes off only blocked pairs.
LEMMA GateFound ==
    ASSUME Inv1, FoundInv, NEW h \in Handlers, Gate(h)
    PROVE  FoundInv'
<1>1. /\ Alone(h) /\ NoNewPair /\ who'[h] = who[h] /\ mode'[h] = mode[h]
      /\ UNCHANGED blocked /\ pc[h] = "gate" /\ pc'[h] = "claim"
      /\ cand'[h] = {c \in cand[h] : {who[h], c} \notin blocked}
  BY DEF Gate, Goto, Alone, NoNewPair, CouldTake, redis, mongo, counters, Inv1, TypeOK,
     LocalsType
<1> QED BY <1>1, SearchGoesOn DEF CouldTake, Searches, Looking

\* A claim that succeeds takes the matcher's own user out of the pool; one that
\* fails strikes off a candidate that was no longer to be had.
LEMMA ClaimPairFound ==
    ASSUME Inv1, FoundInv, NEW h \in Handlers, ClaimPair(h)
    PROVE  FoundInv'
<1> PICK c \in cand[h] : ClaimPair(h)!2!(c)
  BY DEF ClaimPair
<1>1. /\ who[h] \in Users /\ c \in Users /\ mode[h] \in MatchType /\ pc[h] = "claim"
      /\ Alone(h) /\ who'[h] = who[h] /\ mode'[h] = mode[h] /\ UNCHANGED blocked
  BY DEF ClaimPair, Goto, Alone, mongo, Inv1, Busy, Acting, TypeOK, LocalsType
<1>2. NoNewPair
  BY <1>1, ShrinkMakesNoPair DEF Inv1, TypeOK, RedisType
<1>3. CASE {who[h], c} \subseteq pool[mode[h]]
  <2>1. who[h] \notin pool'[mode[h]]
    BY <1>1, <1>3 DEF Inv1, TypeOK, RedisType
  <2> QED BY <1>1, <1>2, <2>1, SearchGoesOn DEF CouldTake, Searches
<1>4. CASE ~({who[h], c} \subseteq pool[mode[h]])
  <2>1. cand'[h] = cand[h] \ {c} /\ pc'[h] = "queued"
    BY <1>4 DEF Goto, Inv1, TypeOK, LocalsType
  <2> QED BY <1>1, <1>2, <1>4, <2>1, SearchGoesOn DEF CouldTake, Searches, Looking
<1> QED BY <1>3, <1>4

\* A matcher that finds its own user taken has nothing left to look for.
LEMMA StillQueuedFound ==
    ASSUME Inv1, FoundInv, NEW h \in Handlers, StillQueued(h)
    PROVE  FoundInv'
<1>1. /\ Alone(h) /\ NoNewPair /\ UNCHANGED <<pool, who, mode, cand>>
      /\ pc[h] = "queued" /\ pc'[h] = IF who[h] \in pool[mode[h]] THEN "claim" ELSE "noMatch"
  BY DEF StillQueued, Goto, Alone, NoNewPair, CouldTake, redis, mongo, locals, counters,
         Inv1, TypeOK, LocalsType
<1> QED BY <1>1, SearchGoesOn DEF CouldTake, Searches, Looking

\* A matcher without candidates gives nobody up.
LEMMA NoCandidateFound ==
    ASSUME Inv1, FoundInv, NEW h \in Handlers, NoCandidate(h)
    PROVE  FoundInv'
<1>1. /\ Alone(h) /\ NoNewPair /\ pc[h] = "claim" /\ cand[h] = {}
  BY DEF NoCandidate, Goto, Alone, NoNewPair, CouldTake, redis, mongo, locals, counters,
         Inv1, TypeOK, LocalsType
<1> QED BY <1>1, SearchGoesOn DEF Searches

-----------------------------------------------------------------------------
(* Every step *)

\* A step of a handler that does not search, and takes users out of the pools at most.
LEMMA AsideFound ==
    ASSUME FoundInv, NEW h \in Handlers, Alone(h), pc[h] \notin Looking \cup {"scan"},
           \A t \in MatchType : pool'[t] \subseteq pool[t],
           \A u \in Users : waiter'[u] \in {waiter[u], "none"}, UNCHANGED blocked
    PROVE  FoundInv'
BY ShrinkMakesNoPair, BystanderStep

\* After its teardown a handler has moved alone.
LEMMA AfterTeardownAlone ==
    ASSUME Inv1, NEW h \in Handlers, AfterTeardown(h), UNCHANGED <<elders, fallen>>
    PROVE  Alone(h)
BY DEF AfterTeardown, Return, Goto, Alone, Inv1, TypeOK, LocalsType

\* As long as the pools fit a batch, every step leaves each pair that could be
\* made in somebody's search.
LEMMA FoundStep == Inv1 /\ FoundInv /\ PoolsFit /\ [Next]_vars => FoundInv'
<1> SUFFICES ASSUME Inv1, FoundInv, PoolsFit, [Next]_vars PROVE FoundInv'
  OBVIOUS
<1> USE DEF redis, mongo, clients, locals, counters
<1>1. ASSUME NEW h \in Handlers, NEW u \in Users, NEW t \in AskedTypes, StartJoin(h, u, t) PROVE
      FoundInv'
  BY <1>1, AsideFound DEF StartJoin, Start, Alone, Looking, Inv1, TypeOK, LocalsType
<1>2. ASSUME NEW h \in Handlers, NEW u \in Users, StartNext(h, u) PROVE FoundInv'
  BY <1>2, AsideFound DEF StartNext, Start, Alone, Looking, Inv1, TypeOK, LocalsType
<1>3. ASSUME NEW h \in Handlers, NEW u \in Users, StartLeave(h, u) PROVE FoundInv'
  BY <1>3, AsideFound DEF StartLeave, Start, Alone, Looking, Inv1, TypeOK, LocalsType
<1>4. ASSUME NEW h \in Handlers, NEW u \in Users, StartDisconnect(h, u) PROVE FoundInv'
  BY <1>4, AsideFound DEF StartDisconnect, Start, Alone, Looking, Inv1, TypeOK, LocalsType
<1>5. ASSUME NEW h \in Handlers, NEW u \in Users, NEW r \in Rooms, StartHangup(h, u, r) PROVE
      FoundInv'
  BY <1>5, AsideFound DEF StartHangup, Start, Alone, Looking, Inv1, TypeOK, LocalsType
<1>6. ASSUME NEW h \in Handlers, NEW u \in Users, NEW v \in Users, StartEnforce(h, u, v) PROVE
      FoundInv'
  BY <1>6, AsideFound DEF StartEnforce, Start, Alone, Looking, Inv1, TypeOK, LocalsType
<1>7. ASSUME NEW h \in Handlers, NEW u \in Users, StartKick(h, u) PROVE FoundInv'
  BY <1>7, AsideFound DEF StartKick, Start, Alone, Looking, Inv1, TypeOK, LocalsType
<1>8. ASSUME NEW h \in Handlers, ReadPointerJoin(h) PROVE FoundInv'
  BY <1>8, AsideFound DEF ReadPointerJoin, Return, Goto, Alone, Looking, Inv1, TypeOK,
     LocalsType
<1>9. ASSUME NEW h \in Handlers, ReadPointerNext(h) PROVE FoundInv'
  BY <1>9, AsideFound DEF ReadPointerNext, Goto, Alone, Looking, Inv1, TypeOK, RedisType,
     LocalsType
<1>10. ASSUME NEW h \in Handlers, ReadPointerEnforce(h) PROVE FoundInv'
  BY <1>10, AsideFound DEF ReadPointerEnforce, Return, Goto, Alone, Looking, Inv1, TypeOK,
     LocalsType
<1>11. ASSUME NEW h \in Handlers, PresenceOff(h) PROVE FoundInv'
  BY <1>11, AsideFound DEF PresenceOff, Goto, Alone, Looking, Inv1, TypeOK, RedisType,
     LocalsType
<1>12. ASSUME NEW h \in Handlers, DequeueAll(h) PROVE FoundInv'
  BY <1>12, AsideFound DEF DequeueAll, Goto, Alone, Looking, Inv1, TypeOK, RedisType, LocalsType
<1>13. ASSUME NEW h \in Handlers, IsMember(h) PROVE FoundInv'
  BY <1>13, AsideFound DEF IsMember, Return, Goto, Alone, Looking, Inv1, TypeOK, LocalsType
<1>14. ASSUME NEW h \in Handlers, GetPeerOf(h) PROVE FoundInv'
  BY <1>14, AsideFound DEF GetPeerOf, Return, Goto, Alone, Looking, Inv1, TypeOK, LocalsType
<1>15. ASSUME NEW h \in Handlers, TeardownPointer(h) PROVE FoundInv'
  BY <1>15, AsideFound, AfterTeardownAlone DEF TeardownPointer, Goto, Alone, Looking, Inv1,
     TypeOK, LocalsType
<1>16. ASSUME NEW h \in Handlers, TeardownRoom(h) PROVE FoundInv'
  BY <1>16, AsideFound DEF TeardownRoom, Goto, Alone, Looking, Inv1, TypeOK, RedisType,
     LocalsType
<1>17. ASSUME NEW h \in Handlers, TeardownDangling(h) PROVE FoundInv'
  BY <1>17, AsideFound, AfterTeardownAlone DEF TeardownDangling, Goto, Alone, Looking, Inv1,
     TypeOK, LocalsType
<1>18. ASSUME NEW h \in Handlers, DeleteRoom(h) PROVE FoundInv'
  BY <1>18, AsideFound, AfterTeardownAlone DEF DeleteRoom, Goto, Alone, Looking, Inv1,
     TypeOK, LocalsType
<1>19. ASSUME NEW h \in Handlers, EndMatch(h) PROVE FoundInv'
  BY <1>19, AsideFound, AfterTeardownAlone DEF EndMatch, Goto, Alone, Looking, Inv1, TypeOK,
     LocalsType
<1>20. ASSUME NEW h \in Handlers, Enqueue(h) PROVE FoundInv'
  BY <1>20, EnqueueFound
<1>21. ASSUME NEW h \in Handlers, EnqueueNoProfile(h) PROVE FoundInv'
  BY <1>21, AsideFound DEF EnqueueNoProfile, Return, Alone, Looking, Inv1, TypeOK, LocalsType
<1>22. ASSUME NEW h \in Handlers, Scan(h) PROVE FoundInv'
  BY <1>22, ScanFound
<1>23. ASSUME NEW h \in Handlers, LoadWaiters(h) PROVE FoundInv'
  BY <1>23, LoadWaitersFound
<1>24. ASSUME NEW h \in Handlers, PruneStale(h) PROVE FoundInv'
  BY <1>24, PruneStaleFound
<1>25. ASSUME NEW h \in Handlers, CheckLive(h) PROVE FoundInv'
  BY <1>25, CheckLiveFound
<1>26. ASSUME NEW h \in Handlers, EvictDead(h) PROVE FoundInv'
  BY <1>26, EvictDeadFound
<1>27. ASSUME NEW h \in Handlers, Gate(h) PROVE FoundInv'
  BY <1>27, GateFound
<1>28. ASSUME NEW h \in Handlers, ClaimPair(h) PROVE FoundInv'
  BY <1>28, ClaimPairFound
<1>29. ASSUME NEW h \in Handlers, StillQueued(h) PROVE FoundInv'
  BY <1>29, StillQueuedFound
<1>30. ASSUME NEW h \in Handlers, NoCandidate(h) PROVE FoundInv'
  BY <1>30, NoCandidateFound
<1>31. ASSUME NEW h \in Handlers, CreateMatch(h) PROVE FoundInv'
  BY <1>31, AsideFound DEF CreateMatch, Goto, Alone, Looking, Inv1, TypeOK, RedisType,
     LocalsType
<1>32. ASSUME NEW h \in Handlers, WriteRoom(h) PROVE FoundInv'
  BY <1>32, AsideFound DEF WriteRoom, Goto, Alone, Looking, Inv1, TypeOK, RedisType, LocalsType
<1>33. ASSUME NEW h \in Handlers, CommitFails(h) PROVE FoundInv'
  BY <1>33, AsideFound DEF CommitFails, Goto, Alone, Looking, Inv1, TypeOK, LocalsType
<1>34. ASSUME NEW h \in Handlers, Deliver(h) PROVE FoundInv'
  BY <1>34, AsideFound DEF Deliver, Return, Goto, Alone, Looking, Inv1, TypeOK, LocalsType
<1>35. ASSUME NEW h \in Handlers, NoMatch(h) PROVE FoundInv'
  BY <1>35, AsideFound DEF NoMatch, Return, Goto, Alone, Looking, Inv1, TypeOK, LocalsType
<1>36. ASSUME NEW u \in Users, Connect(u) PROVE FoundInv'
  BY <1>36, EnvironmentStep, ShrinkMakesNoPair DEF Connect, Inv1, TypeOK, RedisType
<1>37. ASSUME NEW u \in Users, NEW v \in Users, Block(u, v) PROVE FoundInv'
  BY <1>37, EnvironmentStep, ShrinkMakesNoPair DEF Block, Inv1, TypeOK, RedisType
<1>38. ASSUME NEW u \in Users, WaiterExpires(u) PROVE FoundInv'
  BY <1>38, EnvironmentStep, ShrinkMakesNoPair DEF WaiterExpires, Inv1, TypeOK, RedisType
<1>39. ASSUME NEW r \in Rooms, RoomExpires(r) PROVE FoundInv'
  BY <1>39, EnvironmentStep, ShrinkMakesNoPair DEF RoomExpires, Inv1, TypeOK, RedisType
<1>40. ASSUME NEW rs \in SUBSET Rooms, ReconcileStale(rs) PROVE FoundInv'
  BY <1>40, EnvironmentStep, ShrinkMakesNoPair DEF ReconcileStale, Inv1, TypeOK, RedisType
<1>41. ASSUME NEW h \in Handlers, Crash(h) PROVE FoundInv'
  BY <1>41, CrashFound
<1>42. ASSUME NEW u \in Users, PresenceLapses(u) PROVE FoundInv'
  BY <1>42, EnvironmentStep, ShrinkMakesNoPair DEF PresenceLapses, Inv1, TypeOK, RedisType
<1>43. ASSUME NEW u \in Users, Heartbeat(u) PROVE FoundInv'
  BY <1>43, EnvironmentStep, ShrinkMakesNoPair DEF Heartbeat, Inv1, TypeOK, RedisType
<1>44. CASE UNCHANGED vars
  BY <1>44, EnvironmentStep, ShrinkMakesNoPair DEF vars, Inv1, TypeOK, RedisType
<1> QED
  BY <1>1, <1>2, <1>3, <1>4, <1>5, <1>6, <1>7, <1>8, <1>9, <1>10, <1>11, <1>12,
     <1>13, <1>14, <1>15, <1>16, <1>17, <1>18, <1>19, <1>20, <1>21, <1>22, <1>23, <1>24,
     <1>25, <1>26, <1>27, <1>28, <1>29, <1>30, <1>31, <1>32, <1>33, <1>34, <1>35, <1>36,
     <1>37, <1>38, <1>39, <1>40, <1>41, <1>42, <1>43, <1>44
     DEF Next, StartAny, Step, Teardown, Matcher, Environment

-----------------------------------------------------------------------------
(* The theorems *)

\* While the pools fit a batch, nobody waits beside a user that it came after and
\* accepts, with no handler left to find that user, however many joins, skips, claims,
\* evictions and blocks race and whichever writes fail: enqueue comes before scan in
\* every matcher.  A node that dies costs this only to the users whose handlers it ran.
THEOREM NobodyMissed == Spec /\ []PoolsFit => []NoMissedPair
<1>1. Init => FoundInv
  BY NullsAssumption DEF Init, FoundInv, Ordered, CouldTake, MatchType
<1>2. IInv /\ FoundInv /\ PoolsFit /\ [Next]_vars => FoundInv'
  BY FoundStep DEF IInv
<1>3. IInv /\ FoundInv => NoMissedPair
  BY DEF IInv, Inv1, TypeOK, CountersType, FoundInv, NoMissedPair, Quiet, Searches, Looking
<1> QED
  BY <1>1, <1>2, <1>3, Inductive, PTL DEF Spec

\* So two users who accept each other do not both wait, whoever came first: one of
\* them came after the other.
THEOREM NoMutualPairWaits ==
    Spec /\ []PoolsFit =>
        [](Quiet => \A u, v \in Users \ fallen, t \in MatchType :
              u # v => ~(CouldTake(u, v, t) /\ CouldTake(v, u, t)))
<1>1. Init => FoundInv
  BY NullsAssumption DEF Init, FoundInv, Ordered, CouldTake, MatchType
<1>2. IInv /\ FoundInv /\ PoolsFit /\ [Next]_vars => FoundInv'
  BY FoundStep DEF IInv
<1>3. FoundInv => (Quiet => \A u, v \in Users \ fallen, t \in MatchType :
                       u # v => ~(CouldTake(u, v, t) /\ CouldTake(v, u, t)))
  BY DEF FoundInv, Ordered, Quiet, Searches, Looking
<1> QED
  BY <1>1, <1>2, <1>3, Inductive, PTL DEF Spec

\* With no more users than a batch holds the pools always fit, and the promise of the
\* matcher needs no hypothesis on the run.
THEOREM NobodyMissedAmongFew ==
    ASSUME IsFiniteSet(Users), Cardinality(Users) <= Batch
    PROVE  Spec => []NoMissedPair
<1>1. TypeOK => PoolsFit
  <2> SUFFICES ASSUME TypeOK, NEW t \in MatchType
               PROVE  IsFiniteSet(pool[t]) /\ Cardinality(pool[t]) <= Batch
    BY DEF PoolsFit
  <2>1. pool[t] \subseteq Users
    BY DEF TypeOK, RedisType
  <2>2. /\ IsFiniteSet(pool[t]) /\ Cardinality(pool[t]) \in Nat
        /\ Cardinality(Users) \in Nat /\ Cardinality(pool[t]) <= Cardinality(Users)
    BY <2>1, FS_Subset, FS_CardinalityType
  <2> QED
    BY <2>2, BoundsAssumption
<1> QED
  BY <1>1, TypeCorrect, NobodyMissed, PTL

-----------------------------------------------------------------------------
(* Candidates suit *)

\* Past the scan a matcher's own user is no candidate, and past the load of the
\* hashes every candidate passes the static gates.
Suits ==
    \A h \in Handlers :
        /\ pc[h] \in Looking => who[h] \notin cand[h]
        /\ pc[h] \in Looking \ {"load"} => \A c \in cand[h] : <<who[h], c>> \in Accepts

\* Only the handler h moves, and it has no candidates it could use.
LEMMA SuitsAside ==
    ASSUME Suits, NEW h \in Handlers, Alone(h), pc'[h] \notin Looking
    PROVE  Suits'
BY DEF Suits, Alone

\* The handler h drops candidates at most, and is not at the load any more.
LEMMA SuitsFewer ==
    ASSUME Suits, NEW h \in Handlers, Alone(h), pc[h] \in Looking \ {"load"},
           pc'[h] # "load", who'[h] = who[h], cand'[h] \subseteq cand[h]
    PROVE  Suits'
BY DEF Suits, Alone

\* Every step keeps the candidates suitable.
LEMMA SuitsStep == Inv1 /\ Suits /\ [Next]_vars => Suits'
<1> SUFFICES ASSUME Inv1, Suits, [Next]_vars PROVE Suits'
  OBVIOUS
<1> USE DEF redis, mongo, clients, locals, counters
<1>1. ASSUME NEW h \in Handlers, NEW u \in Users, NEW t \in AskedTypes, StartJoin(h, u, t) PROVE
      Suits'
  BY <1>1, SuitsAside DEF StartJoin, Start, Alone, Looking, Inv1, TypeOK, LocalsType,
     CountersType
<1>2. ASSUME NEW h \in Handlers, NEW u \in Users, StartNext(h, u) PROVE Suits'
  BY <1>2, SuitsAside DEF StartNext, Start, Alone, Looking, Inv1, TypeOK, LocalsType,
     CountersType
<1>3. ASSUME NEW h \in Handlers, NEW u \in Users, StartLeave(h, u) PROVE Suits'
  BY <1>3, SuitsAside DEF StartLeave, Start, Alone, Looking, Inv1, TypeOK, LocalsType,
     CountersType
<1>4. ASSUME NEW h \in Handlers, NEW u \in Users, StartDisconnect(h, u) PROVE Suits'
  BY <1>4, SuitsAside DEF StartDisconnect, Start, Alone, Looking, Inv1, TypeOK, LocalsType,
     CountersType
<1>5. ASSUME NEW h \in Handlers, NEW u \in Users, NEW r \in Rooms, StartHangup(h, u, r) PROVE
      Suits'
  BY <1>5, SuitsAside DEF StartHangup, Start, Alone, Looking, Inv1, TypeOK, LocalsType,
     CountersType
<1>6. ASSUME NEW h \in Handlers, NEW u \in Users, NEW v \in Users, StartEnforce(h, u, v) PROVE
      Suits'
  BY <1>6, SuitsAside DEF StartEnforce, Start, Alone, Looking, Inv1, TypeOK, LocalsType,
     CountersType
<1>7. ASSUME NEW h \in Handlers, NEW u \in Users, StartKick(h, u) PROVE Suits'
  BY <1>7, SuitsAside DEF StartKick, Start, Alone, Looking, Inv1, TypeOK, LocalsType,
     CountersType
<1>8. ASSUME NEW h \in Handlers, ReadPointerJoin(h) PROVE Suits'
  BY <1>8, SuitsAside DEF ReadPointerJoin, Return, Goto, Alone, Looking, Inv1, TypeOK,
     LocalsType, CountersType
<1>9. ASSUME NEW h \in Handlers, ReadPointerNext(h) PROVE Suits'
  BY <1>9, SuitsAside DEF ReadPointerNext, Goto, Alone, Looking, Inv1, TypeOK, LocalsType,
     CountersType
<1>10. ASSUME NEW h \in Handlers, ReadPointerEnforce(h) PROVE Suits'
  BY <1>10, SuitsAside DEF ReadPointerEnforce, Return, Goto, Alone, Looking, Inv1, TypeOK,
     LocalsType, CountersType
<1>11. ASSUME NEW h \in Handlers, PresenceOff(h) PROVE Suits'
  BY <1>11, SuitsAside DEF PresenceOff, Goto, Alone, Looking, Inv1, TypeOK, LocalsType,
     CountersType
<1>12. ASSUME NEW h \in Handlers, DequeueAll(h) PROVE Suits'
  BY <1>12, SuitsAside DEF DequeueAll, Goto, Alone, Looking, Inv1, TypeOK, LocalsType,
     CountersType
<1>13. ASSUME NEW h \in Handlers, IsMember(h) PROVE Suits'
  BY <1>13, SuitsAside DEF IsMember, Return, Goto, Alone, Looking, Inv1, TypeOK, LocalsType,
     CountersType
<1>14. ASSUME NEW h \in Handlers, GetPeerOf(h) PROVE Suits'
  BY <1>14, SuitsAside DEF GetPeerOf, Return, Goto, Alone, Looking, Inv1, TypeOK, LocalsType,
     CountersType
<1>15. ASSUME NEW h \in Handlers, TeardownPointer(h) PROVE Suits'
  BY <1>15, SuitsAside, AfterTeardownAlone DEF TeardownPointer, AfterTeardown, Return, Goto,
     Alone, Looking, Inv1, TypeOK, LocalsType, CountersType
<1>16. ASSUME NEW h \in Handlers, TeardownRoom(h) PROVE Suits'
  BY <1>16, SuitsAside DEF TeardownRoom, Goto, Alone, Looking, Inv1, TypeOK, LocalsType,
     CountersType
<1>17. ASSUME NEW h \in Handlers, TeardownDangling(h) PROVE Suits'
  BY <1>17, SuitsAside, AfterTeardownAlone DEF TeardownDangling, AfterTeardown, Return, Goto,
     Alone, Looking, Inv1, TypeOK, LocalsType, CountersType
<1>18. ASSUME NEW h \in Handlers, DeleteRoom(h) PROVE Suits'
  BY <1>18, SuitsAside, AfterTeardownAlone DEF DeleteRoom, AfterTeardown, Return, Goto,
     Alone, Looking, Inv1, TypeOK, LocalsType, CountersType
<1>19. ASSUME NEW h \in Handlers, EndMatch(h) PROVE Suits'
  <2>1. Alone(h)
    BY <1>19, AfterTeardownAlone DEF EndMatch
  <2>2. pc'[h] \notin Looking
    BY <1>19 DEF EndMatch, AfterTeardown, Return, Goto, Looking, Inv1, TypeOK, LocalsType
  <2> QED BY <2>1, <2>2, SuitsAside
<1>20. ASSUME NEW h \in Handlers, Enqueue(h) PROVE Suits'
  BY <1>20 DEF Suits, Enqueue, Goto, Looking, Inv1, TypeOK, LocalsType
<1>21. ASSUME NEW h \in Handlers, EnqueueNoProfile(h) PROVE Suits'
  BY <1>21, SuitsAside DEF EnqueueNoProfile, Return, Goto, Alone, Looking, Inv1, TypeOK,
     LocalsType, CountersType
<1>22. ASSUME NEW h \in Handlers, Scan(h) PROVE Suits'
  BY <1>22 DEF Scan, Goto, Suits, Looking, Inv1, TypeOK, LocalsType, CountersType
<1>23. ASSUME NEW h \in Handlers, LoadWaiters(h) PROVE Suits'
  BY <1>23 DEF LoadWaiters, Goto, Suits, Looking, Inv1, TypeOK, LocalsType, CountersType
<1>24. ASSUME NEW h \in Handlers, PruneStale(h) PROVE Suits'
  BY <1>24, SuitsFewer DEF PruneStale, Goto, Alone, Looking, Inv1, TypeOK, LocalsType,
     CountersType
<1>25. ASSUME NEW h \in Handlers, CheckLive(h) PROVE Suits'
  BY <1>25, SuitsFewer DEF CheckLive, Goto, Alone, Looking, Inv1, TypeOK, LocalsType,
     CountersType
<1>26. ASSUME NEW h \in Handlers, EvictDead(h) PROVE Suits'
  BY <1>26, SuitsFewer DEF EvictDead, Goto, Alone, Looking, Inv1, TypeOK, LocalsType,
     CountersType
<1>27. ASSUME NEW h \in Handlers, Gate(h) PROVE Suits'
  BY <1>27, SuitsFewer DEF Gate, Goto, Alone, Looking, Inv1, TypeOK, LocalsType, CountersType
<1>28. ASSUME NEW h \in Handlers, ClaimPair(h) PROVE Suits'
  BY <1>28, SuitsFewer DEF ClaimPair, Goto, Alone, Looking, Inv1, TypeOK, LocalsType,
     CountersType
<1>29. ASSUME NEW h \in Handlers, StillQueued(h) PROVE Suits'
  BY <1>29, SuitsFewer DEF StillQueued, Goto, Alone, Looking, Inv1, TypeOK, LocalsType,
     CountersType
<1>30. ASSUME NEW h \in Handlers, NoCandidate(h) PROVE Suits'
  BY <1>30, SuitsFewer DEF NoCandidate, Goto, Alone, Looking, Inv1, TypeOK, LocalsType,
     CountersType
<1>31. ASSUME NEW h \in Handlers, CreateMatch(h) PROVE Suits'
  BY <1>31, SuitsAside DEF CreateMatch, Goto, Alone, Looking, Inv1, TypeOK, LocalsType,
     CountersType
<1>32. ASSUME NEW h \in Handlers, WriteRoom(h) PROVE Suits'
  BY <1>32, SuitsAside DEF WriteRoom, Goto, Alone, Looking, Inv1, TypeOK, LocalsType,
     CountersType
<1>33. ASSUME NEW h \in Handlers, CommitFails(h) PROVE Suits'
  BY <1>33, SuitsAside DEF CommitFails, Goto, Alone, Looking, Inv1, TypeOK, LocalsType,
     CountersType
<1>34. ASSUME NEW h \in Handlers, Deliver(h) PROVE Suits'
  BY <1>34, SuitsAside DEF Deliver, Return, Goto, Alone, Looking, Inv1, TypeOK, LocalsType,
     CountersType
<1>35. ASSUME NEW h \in Handlers, NoMatch(h) PROVE Suits'
  BY <1>35, SuitsAside DEF NoMatch, Return, Goto, Alone, Looking, Inv1, TypeOK, LocalsType,
     CountersType
<1>36. ASSUME NEW u \in Users, Connect(u) PROVE Suits'
  BY <1>36 DEF Connect, Suits
<1>37. ASSUME NEW u \in Users, NEW v \in Users, Block(u, v) PROVE Suits'
  BY <1>37 DEF Block, Suits
<1>38. ASSUME NEW u \in Users, WaiterExpires(u) PROVE Suits'
  BY <1>38 DEF WaiterExpires, Suits
<1>39. ASSUME NEW r \in Rooms, RoomExpires(r) PROVE Suits'
  BY <1>39 DEF RoomExpires, Suits
<1>40. ASSUME NEW rs \in SUBSET Rooms, ReconcileStale(rs) PROVE Suits'
  BY <1>40 DEF ReconcileStale, Suits
<1>41. ASSUME NEW h \in Handlers, Crash(h) PROVE Suits'
  BY <1>41, SuitsAside DEF Crash, Return, Goto, Alone, Looking, Inv1, TypeOK, LocalsType,
     CountersType
<1>42. ASSUME NEW u \in Users, PresenceLapses(u) PROVE Suits'
  BY <1>42 DEF PresenceLapses, Suits
<1>43. ASSUME NEW u \in Users, Heartbeat(u) PROVE Suits'
  BY <1>43 DEF Heartbeat, Suits
<1>44. CASE UNCHANGED vars
  BY <1>44 DEF vars, Suits
<1> QED
  BY <1>1, <1>2, <1>3, <1>4, <1>5, <1>6, <1>7, <1>8, <1>9, <1>10, <1>11, <1>12,
     <1>13, <1>14, <1>15, <1>16, <1>17, <1>18, <1>19, <1>20, <1>21, <1>22, <1>23, <1>24,
     <1>25, <1>26, <1>27, <1>28, <1>29, <1>30, <1>31, <1>32, <1>33, <1>34, <1>35, <1>36,
     <1>37, <1>38, <1>39, <1>40, <1>41, <1>42, <1>43, <1>44
     DEF Next, StartAny, Step, Teardown, Matcher, Environment
-----------------------------------------------------------------------------
(* What Roulette sees of a step *)

\* Only the handler h moves, as far as its pair and its room go.
Moves(h) ==
    \A g \in Handlers \ {h} : /\ pc'[g] = pc[g] /\ who'[g] = who[g] /\ mate'[g] = mate[g]
                              /\ mode'[g] = mode[g] /\ rm'[g] = rm[g]

Promised == [Promise!Next]_Promise!roulette

\* After its teardown a handler has moved alone, and holds no pair.
LEMMA AfterTeardownMoves ==
    ASSUME Inv1, NEW h \in Handlers, AfterTeardown(h)
    PROVE  Moves(h) /\ pc'[h] \notin {"create", "write"}
BY DEF AfterTeardown, Return, Goto, Moves, Inv1, TypeOK, LocalsType

\* A handler that neither holds a deal nor comes to hold one changes no deal.
LEMMA DealsStay ==
    ASSUME NEW h \in Handlers, Moves(h), pc[h] # "create", pc'[h] # "create"
    PROVE  Deals' = Deals
BY DEF Moves, Deals, DealOf

\* One that neither owes a room nor comes to owe one leaves the owed rooms alone.
LEMMA OwedStays ==
    ASSUME NEW h \in Handlers, Moves(h), pc[h] # "write", pc'[h] # "write"
    PROVE  Owed' = Owed
BY DEF Moves, Owed

\* Rooms look the same while their keys, rows and debts are the same.
LEMMA RoomsStay ==
    ASSUME UNCHANGED <<live, match, row>>, Owed' = Owed
    PROVE  RoomsSeen' = RoomsSeen
BY DEF RoomsSeen, RoomOf, StageOf, Members

\* A room whose stage alone changes.
LEMMA StageMoves ==
    ASSUME NEW r \in Rooms, NEW from, NEW to, NEW us, NEW t,
           RoomOf(r) = [stage |-> from, pair |-> us, type |-> t],
           RoomOf(r)' = [stage |-> to, pair |-> us, type |-> t],
           \A q \in Rooms \ {r} : RoomOf(q)' = RoomOf(q)
    PROVE  /\ RoomsSeen' = [RoomsSeen EXCEPT ![r].stage = to]
           /\ RoomsSeen[r] = [stage |-> from, pair |-> us, type |-> t]
<1>1. [[stage |-> from, pair |-> us, type |-> t] EXCEPT !.stage = to] = RoomOf(r)'
  OBVIOUS
<1>2. RoomsSeen[r] = [stage |-> from, pair |-> us, type |-> t]
  BY DEF RoomsSeen
<1>3. RoomsSeen' = [RoomsSeen EXCEPT ![r] = [RoomsSeen[r] EXCEPT !.stage = to]]
  BY <1>1, <1>2 DEF RoomsSeen
<1> QED BY <1>2, <1>3

\* Handler, pool, room and row as they are: Roulette sees nothing.
LEMMA SilentStep ==
    ASSUME NEW h \in Handlers, Moves(h), {pc[h], pc'[h]} \cap {"create", "write"} = {},
           UNCHANGED <<pool, live, userRoom, match, row>>
    PROVE  Promised
BY DealsStay, OwedStays, RoomsStay DEF Promised, Promise!roulette

\* A step of the environment that Roulette does not see.
LEMMA SilentEnvironment ==
    ASSUME UNCHANGED <<pc, who, mate, mode, rm, pool, live, userRoom, match, row>>
    PROVE  Promised
BY DEF Promised, Promise!roulette, Deals, DealOf, RoomsSeen, RoomOf, StageOf, Owed, Members

\* Users leave the pools.
LEMMA WithdrawStep ==
    ASSUME Inv1, Inv1', NEW h \in Handlers, Moves(h),
           {pc[h], pc'[h]} \cap {"create", "write"} = {},
           UNCHANGED <<live, userRoom, match, row>>,
           \A t \in MatchType : pool'[t] \subseteq pool[t]
    PROVE  Promised
<1> DEFINE gone == [t \in MatchType |-> pool[t] \ pool'[t]]
<1>1. gone \in [MatchType -> SUBSET Users]
  BY DEF Inv1, TypeOK, RedisType
<1>2. pool' = [t \in MatchType |-> pool[t] \ gone[t]]
  BY DEF Inv1, TypeOK, RedisType
<1>3. UNCHANGED <<Deals, RoomsSeen, userRoom>>
  BY DealsStay, OwedStays, RoomsStay
<1> HIDE DEF gone
<1>4. Promise!Withdraw
  BY <1>1, <1>2, <1>3 DEF Promise!Withdraw
<1> QED BY <1>4 DEF Promised, Promise!Next

\* enqueue is an Ask.
LEMMA EnqueueSeen ==
    ASSUME Inv1, NEW h \in Handlers, Enqueue(h)
    PROVE  Promised
<1>1. who[h] \in Users /\ mode[h] \in MatchType
  BY DEF Enqueue, Inv1, Busy, Acting, TypeOK, LocalsType
<1>2. Moves(h) /\ {pc[h], pc'[h]} \cap {"create", "write"} = {} /\ UNCHANGED <<live, userRoom, match, row>>
  BY DEF Enqueue, Goto, Moves, locals, mongo, Inv1, TypeOK, LocalsType
<1>3. Promise!Ask(who[h], mode[h])
  BY <1>2, DealsStay, OwedStays, RoomsStay DEF Enqueue, Promise!Ask
<1> QED BY <1>1, <1>3 DEF Promised, Promise!Next

\* CLAIM_PAIR_LUA, when it succeeds, takes the matcher's user and one whom that user accepts.
LEMMA ClaimPairSeen ==
    ASSUME Inv1, Suits, NEW h \in Handlers, ClaimPair(h)
    PROVE  Promised
<1> PICK c \in cand[h] : ClaimPair(h)!2!(c)
  BY DEF ClaimPair
<1>1. /\ who[h] \in Users /\ c \in Users /\ mode[h] \in MatchType /\ pc[h] = "claim"
      /\ who[h] # c /\ <<who[h], c>> \in Accepts
      /\ UNCHANGED <<live, userRoom, match, row, who, mode, rm>>
  BY DEF ClaimPair, mongo, Suits, Looking, Inv1, Busy, Acting, TypeOK, LocalsType
<1>2. Moves(h) /\ pc'[h] \in {"create", "queued"}
  BY <1>1 DEF Moves, Goto, Inv1, TypeOK, LocalsType
<1>3. UNCHANGED RoomsSeen
  BY <1>1, <1>2, OwedStays, RoomsStay
<1>4. CASE {who[h], c} \subseteq pool[mode[h]]
  <2>1. pc'[h] = "create" /\ mate'[h] = c
    BY <1>4 DEF Goto, Inv1, TypeOK, LocalsType
  <2>2. Deals' = [Deals EXCEPT ![h] = [pair |-> {who[h], c}, type |-> mode[h]]]
    BY <1>1, <1>2, <2>1 DEF Deals, DealOf, Moves
  <2>3. Deals[h] = Promise!NoDeal
    BY <1>1 DEF Deals, DealOf, Promise!NoDeal
  <2>4. Promise!Take(h, who[h], c, mode[h])
    BY <1>1, <1>3, <1>4, <2>2, <2>3 DEF Promise!Take
  <2> QED BY <1>1, <2>4 DEF Promised, Promise!Next
<1>5. CASE ~({who[h], c} \subseteq pool[mode[h]])
  <2>1. pc'[h] = "queued" /\ UNCHANGED pool
    BY <1>5 DEF Goto, Inv1, TypeOK, LocalsType
  <2> QED BY <1>1, <1>2, <2>1, SilentStep
<1> QED BY <1>4, <1>5

\* createMatch opens a fresh room for the pair that was claimed.
LEMMA CreateMatchSeen ==
    ASSUME Inv1, Inv2, NEW h \in Handlers, CreateMatch(h)
    PROVE  Promised
<1> PICK r \in Rooms : /\ match[r] = "none"
                       /\ match' = [match EXCEPT ![r] = "open"]
                       /\ row' = [row EXCEPT ![r] = [a |-> mate[h], b |-> who[h], type |-> mode[h]]]
                       /\ rm' = [rm EXCEPT ![h] = r]
  BY DEF CreateMatch
<1>1. /\ UNCHANGED <<pool, live, userRoom, who, mate, mode>>
      /\ pc' = [pc EXCEPT ![h] = "write"] /\ pc[h] = "create"
  BY DEF CreateMatch, Goto, redis
<1>2. /\ pc'[h] = "write" /\ rm'[h] = r
      /\ \A g \in Handlers \ {h} : pc'[g] = pc[g] /\ rm'[g] = rm[g]
      /\ r \notin live
  BY <1>1 DEF Inv1, TypeOK, LocalsType, Inv2, LiveRoomHasOpenMatch
<1>3. Owed' = Owed \cup {r}
  BY <1>1, <1>2 DEF Owed
<1>4. /\ match'[r] = "open" /\ row'[r] = [a |-> mate[h], b |-> who[h], type |-> mode[h]]
      /\ \A q \in Rooms \ {r} : match'[q] = match[q] /\ row'[q] = row[q]
  BY DEF Inv1, TypeOK, MongoType
<1>5. RoomOf(r)' = [stage |-> "open", pair |-> {who[h], mate[h]}, type |-> mode[h]]
  BY <1>1, <1>2, <1>3, <1>4 DEF RoomOf, StageOf, Members
<1>6. \A q \in Rooms \ {r} : RoomOf(q)' = RoomOf(q)
  BY <1>1, <1>3, <1>4 DEF RoomOf, StageOf, Members
<1>7. RoomsSeen' = [RoomsSeen EXCEPT ![r] = [stage |-> "open", pair |-> {who[h], mate[h]}, type |-> mode[h]]]
  BY <1>5, <1>6 DEF RoomsSeen
<1>8. Deals' = [Deals EXCEPT ![h] = Promise!NoDeal]
  BY <1>1, <1>2 DEF Deals, DealOf, Promise!NoDeal
<1>9. Deals[h] = [pair |-> {who[h], mate[h]}, type |-> mode[h]] /\ RoomsSeen[r] = Promise!Fresh
  BY <1>1 DEF Deals, DealOf, RoomsSeen, RoomOf, Promise!Fresh
<1>10. Deals[h] # Promise!NoDeal
  BY <1>9 DEF Promise!NoDeal
<1>11. Promise!Open(h, r)
  BY <1>1, <1>7, <1>8, <1>9, <1>10 DEF Promise!Open
<1> QED BY <1>11 DEF Promised, Promise!Next

\* The MULTI of commitMatch brings the owed room to live and seats its pair.
LEMMA WriteRoomSeen ==
    ASSUME Inv1, Inv2, NEW h \in Handlers, WriteRoom(h)
    PROVE  Promised
<1> PICK r \in Rooms : r = rm[h]
  BY DEF WriteRoom, Inv1, Busy, Roomed
<1>1. /\ pc[h] = "write" /\ pc' = [pc EXCEPT ![h] = "deliver"]
      /\ UNCHANGED <<pool, match, row, rm, who, mate, mode>> /\ live' = live \cup {r}
      /\ userRoom' = [u \in Users |-> IF u \in {who[h], mate[h]} THEN r ELSE userRoom[u]]
  BY DEF WriteRoom, Goto, mongo, locals, Inv1, Busy, Roomed
<1>2. /\ match[r] = "open" /\ r \notin live /\ row[r].a = mate[h] /\ row[r].b = who[h]
      /\ \A g \in Handlers \ {h} : pc[g] = "write" => rm[g] # r
  BY <1>1 DEF Inv2, Unwritten, OnlyWriter
<1>3. r \in Owed /\ Owed' = Owed \ {r}
  BY <1>1, <1>2 DEF Owed, Inv1, TypeOK, LocalsType
<1>4. RoomOf(r) = [stage |-> "open", pair |-> Members(r), type |-> row[r].type]
  BY <1>2, <1>3 DEF RoomOf, StageOf
<1>5. RoomOf(r)' = [stage |-> "live", pair |-> Members(r), type |-> row[r].type]
  BY <1>1, <1>2 DEF RoomOf, StageOf, Members
<1>6. \A q \in Rooms \ {r} : RoomOf(q)' = RoomOf(q)
  BY <1>1, <1>3 DEF RoomOf, StageOf, Members
<1>7. /\ RoomsSeen' = [RoomsSeen EXCEPT ![r].stage = "live"]
      /\ RoomsSeen[r] = [stage |-> "open", pair |-> Members(r), type |-> row[r].type]
  BY <1>4, <1>5, <1>6, StageMoves
<1>8. UNCHANGED Deals
  BY <1>1 DEF Deals, DealOf, Inv1, TypeOK, LocalsType
<1>9. Members(r) = {who[h], mate[h]}
  BY <1>2 DEF Members
<1>10. Promise!GoLive(r)
  BY <1>1, <1>7, <1>8, <1>9 DEF Promise!GoLive
<1> QED BY <1>10 DEF Promised, Promise!Next

\* A matcher that stops between its claim and the MULTI, by a failure or a
\* crash, loses its deal or its room, and nobody else's.
LEMMA StopsSeen ==
    ASSUME Inv1, Inv2, NEW h \in Handlers, pc[h] # "idle", Moves(h),
           pc'[h] \notin {"create", "write"}, UNCHANGED <<pool, live, userRoom, match, row>>
    PROVE  Promised
<1>1. CASE pc[h] = "create"
  <2>1. UNCHANGED RoomsSeen
    BY <1>1, OwedStays, RoomsStay
  <2>2. Deals' = [Deals EXCEPT ![h] = Promise!NoDeal]
    BY <1>1 DEF Deals, DealOf, Moves, Promise!NoDeal
  <2>3. Deals[h] = [pair |-> {who[h], mate[h]}, type |-> mode[h]]
    BY <1>1 DEF Deals, DealOf
  <2>4. Deals[h] # Promise!NoDeal
    BY <2>3 DEF Promise!NoDeal
  <2>5. Promise!Forget(h)
    BY <2>1, <2>2, <2>4 DEF Promise!Forget
  <2> QED BY <2>5 DEF Promised, Promise!Next
<1>2. CASE pc[h] = "write"
  <2> PICK r \in Rooms : r = rm[h]
    BY <1>2 DEF Inv1, Busy, Roomed
  <2>1. match[r] = "open" /\ r \notin live
    BY <1>2 DEF Inv1, Busy, Roomed, Inv2, Unwritten
  <2>2. r \in Owed /\ Owed' = Owed \ {r}
    BY <1>2 DEF Owed, Moves, Inv2, OnlyWriter
  <2>3. RoomOf(r) = [stage |-> "open", pair |-> Members(r), type |-> row[r].type]
    BY <2>1, <2>2 DEF RoomOf, StageOf
  <2>4. RoomOf(r)' = [stage |-> "over", pair |-> Members(r), type |-> row[r].type]
    BY <2>1, <2>2 DEF RoomOf, StageOf, Members
  <2>5. \A q \in Rooms \ {r} : RoomOf(q)' = RoomOf(q)
    BY <2>2 DEF RoomOf, StageOf, Members
  <2>6. UNCHANGED Deals
    BY <1>2, DealsStay
  <2>7. /\ RoomsSeen' = [RoomsSeen EXCEPT ![r].stage = "over"]
        /\ RoomsSeen[r] = [stage |-> "open", pair |-> Members(r), type |-> row[r].type]
    BY <2>3, <2>4, <2>5, StageMoves
  <2>8. Promise!Abandon(r)
    BY <2>6, <2>7 DEF Promise!Abandon
  <2> QED BY <2>8 DEF Promised, Promise!Next
<1>3. CASE pc[h] \notin {"create", "write"}
  BY <1>3, SilentStep
<1> QED BY <1>1, <1>2, <1>3

\* A room that was live and whose keys go, its pointers with it, has ended.
LEMMA EndsSeen ==
    ASSUME Inv1, Inv2, NEW r \in live, NEW us \in SUBSET Members(r),
           live' = live \ {r}, UNCHANGED <<pool, match, row, Deals, Owed>>,
           userRoom' = [u \in Users |-> IF u \in us THEN NoRoom ELSE userRoom[u]],
           \A u \in Users : userRoom'[u] # r
    PROVE  Promised
<1>1. r \in Rooms /\ match[r] = "open"
  BY DEF Inv1, TypeOK, RedisType, Inv2, LiveRoomHasOpenMatch
<1>2. r \notin Owed
  BY DEF Owed, Inv2, Unwritten
<1>3. RoomOf(r) = [stage |-> "live", pair |-> Members(r), type |-> row[r].type]
  BY <1>1 DEF RoomOf, StageOf
<1>4. RoomOf(r)' = [stage |-> "over", pair |-> Members(r), type |-> row[r].type]
  BY <1>1, <1>2 DEF RoomOf, StageOf, Members
<1>5. \A q \in Rooms \ {r} : RoomOf(q)' = RoomOf(q)
  BY DEF RoomOf, StageOf, Members
<1>6. /\ RoomsSeen' = [RoomsSeen EXCEPT ![r].stage = "over"]
      /\ RoomsSeen[r] = [stage |-> "live", pair |-> Members(r), type |-> row[r].type]
  BY <1>1, <1>3, <1>4, <1>5, StageMoves
<1>7. Promise!Stand(us)
  BY DEF Promise!Stand
<1>8. Promise!End(r)
  BY <1>6, <1>7 DEF Promise!End
<1> QED BY <1>1, <1>8 DEF Promised, Promise!Next

\* DELETE_ROOM_LUA ends the room, or unseats the pair of one that was over.
LEMMA DeleteRoomSeen ==
    ASSUME Inv1, Inv2, NEW h \in Handlers, DeleteRoom(h)
    PROVE  Promised
<1> DEFINE r == rm[h]
<1>1. /\ r \in Rooms /\ match[r] # "none" /\ pc[h] = "tdDelete" /\ live' = live \ {r}
      /\ userRoom' = [u \in Users |-> IF u \in Members(r) THEN NoRoom ELSE userRoom[u]]
      /\ UNCHANGED <<pool, match, row>>
  BY DEF DeleteRoom, mongo, Inv2, Inserted, Tearing
<1>2. Moves(h) /\ pc'[h] \notin {"create", "write"}
  <2>1. CASE r \in live
    BY <2>1 DEF DeleteRoom, Goto, locals, Moves, Inv1, TypeOK, LocalsType
  <2>2. CASE r \notin live
    BY <2>2, AfterTeardownMoves DEF DeleteRoom
  <2> QED BY <2>1, <2>2
<1>3. UNCHANGED <<Deals, Owed>>
  BY <1>1, <1>2, DealsStay, OwedStays
<1>4. CASE r \in live
  <2>1. \A u \in Users : userRoom'[u] # r
    BY <1>1, NullsAssumption DEF Inv2, PointerNamesOwnRoom, Inv1, TypeOK, RedisType
  <2> QED BY <1>1, <1>3, <1>4, <2>1, EndsSeen
<1>5. CASE r \notin live
  <2>1. r \notin Owed
    BY <1>1 DEF Owed, Inv2, OnlyWriter, Tearing
  <2>2. RoomsSeen[r].stage \in {"over", "closed"} /\ RoomsSeen[r].pair = Members(r)
    BY <1>1, <1>5, <2>1 DEF RoomsSeen, RoomOf, StageOf, Inv1, TypeOK, MongoType
  <2>3. live' = live /\ UNCHANGED RoomsSeen
    BY <1>1, <1>3, <1>5, RoomsStay
  <2> HIDE DEF r
  <2>4. Promise!Stand(RoomsSeen[r].pair)
    BY <1>1, <2>2 DEF Promise!Stand
  <2>5. Promise!Unseat
    BY <1>1, <1>3, <2>2, <2>3, <2>4 DEF Promise!Unseat
  <2> QED BY <2>5 DEF Promised, Promise!Next
<1> QED BY <1>4, <1>5

\* The DEL of a pointer read as dangling unseats its user.
LEMMA TeardownDanglingSeen ==
    ASSUME Inv1, NEW h \in Handlers, TeardownDangling(h)
    PROVE  Promised
<1>1. /\ who[h] \in Users /\ pc[h] = "tdDangling" /\ UNCHANGED <<pool, live, match, row>>
      /\ userRoom' = [u \in Users |-> IF u \in {who[h]} THEN NoRoom ELSE userRoom[u]]
  BY DEF TeardownDangling, mongo, Inv1, Busy, Acting, TypeOK, RedisType
<1>2. UNCHANGED <<Deals, RoomsSeen>>
  BY <1>1, AfterTeardownMoves, DealsStay, OwedStays, RoomsStay DEF TeardownDangling
<1>3. Promise!Stand({who[h]})
  BY <1>1 DEF Promise!Stand
<1>4. Promise!Unseat
  BY <1>1, <1>2, <1>3 DEF Promise!Unseat
<1> QED BY <1>4 DEF Promised, Promise!Next

\* Rows are closed only of rooms that are over.
LEMMA ClosesSeen ==
    ASSUME Inv1, NEW rs \in SUBSET Rooms,
           \A r \in rs : match[r] = "open" /\ r \notin live /\ r \notin Owed,
           match' = [r \in Rooms |-> IF r \in rs THEN "closed" ELSE match[r]],
           UNCHANGED <<pool, live, userRoom, row, Deals, Owed>>
    PROVE  Promised
<1>1. \A r \in rs : /\ RoomOf(r) = [stage |-> "over", pair |-> Members(r), type |-> row[r].type]
                    /\ RoomOf(r)' = [stage |-> "closed", pair |-> Members(r), type |-> row[r].type]
  BY DEF RoomOf, StageOf, Members
<1>2. \A r \in Rooms \ rs : RoomOf(r)' = RoomOf(r)
  BY DEF RoomOf, StageOf, Members
<1>3. RoomsSeen' = [r \in Rooms |-> IF r \in rs THEN [RoomsSeen[r] EXCEPT !.stage = "closed"]
                                                ELSE RoomsSeen[r]]
  BY <1>1, <1>2 DEF RoomsSeen
<1>4. \A r \in rs : RoomsSeen[r].stage = "over"
  BY <1>1 DEF RoomsSeen
<1>5. Promise!Close(rs)
  BY <1>3, <1>4 DEF Promise!Close
<1> QED BY <1>5 DEF Promised, Promise!Next

\* endMatch closes the row of the room it has deleted, unless it is closed.
LEMMA EndMatchSeen ==
    ASSUME Inv1, Inv2, NEW h \in Handlers, EndMatch(h)
    PROVE  Promised
<1> PICK r \in Rooms : r = rm[h]
  BY DEF EndMatch, Inv2, Inserted, Tearing
<1>1. /\ r \notin live /\ pc[h] = "tdEnd" /\ r \notin Owed
      /\ UNCHANGED <<pool, live, userRoom, row>>
  BY DEF EndMatch, redis, Owed, Inv2, Inserted, Ended, OnlyWriter, Tearing
<1>2. Moves(h) /\ pc'[h] \notin {"create", "write"}
  BY AfterTeardownMoves DEF EndMatch
<1>3. UNCHANGED <<Deals, Owed>>
  BY <1>1, <1>2, DealsStay, OwedStays
<1>4. CASE match[r] = "open"
  <2>1. match' = [q \in Rooms |-> IF q \in {r} THEN "closed" ELSE match[q]]
    BY <1>4 DEF EndMatch, Inv1, TypeOK, MongoType
  <2>2. {r} \in SUBSET Rooms /\ \A q \in {r} : match[q] = "open" /\ q \notin live /\ q \notin Owed
    BY <1>1, <1>4
  <2>3. UNCHANGED <<pool, live, userRoom, row, Deals, Owed>>
    BY <1>1, <1>3
  <2> QED BY <2>1, <2>2, <2>3, ClosesSeen
<1>5. CASE match[r] # "open"
  <2>1. UNCHANGED match
    BY <1>5 DEF EndMatch, Inv1, TypeOK, MongoType
  <2> QED BY <1>1, <1>2, <2>1, SilentStep
<1> QED BY <1>4, <1>5

\* A room that expires ends, and its pointers expire with it.
LEMMA RoomExpiresSeen ==
    ASSUME Inv1, Inv2, NEW r \in Rooms, RoomExpires(r)
    PROVE  Promised
<1> DEFINE us == {u \in Users : userRoom[u] = r}
<1>1. r \in live /\ us \in SUBSET Members(r)
  BY NullsAssumption DEF RoomExpires, Inv2, PointerNamesOwnRoom
<1>2. UNCHANGED <<pool, match, row, Deals, Owed>>
  BY DEF RoomExpires, mongo, locals, Deals, DealOf, Owed
<1>3. userRoom' = [u \in Users |-> IF u \in us THEN NoRoom ELSE userRoom[u]]
  BY DEF RoomExpires
<1>4. \A u \in Users : userRoom'[u] # r
  BY <1>3, NullsAssumption
<1>5. live' = live \ {r}
  BY DEF RoomExpires
<1> HIDE DEF us
<1> QED BY <1>1, <1>2, <1>3, <1>4, <1>5, EndsSeen

\* Every step is one that Roulette allows, or none that it sees.
LEMMA PromisedStep == Inv1 /\ Inv2 /\ Suits /\ [Next]_vars => Promised
<1> SUFFICES ASSUME Inv1, Inv2, Suits, [Next]_vars PROVE Promised
  OBVIOUS
<1>0. Inv1'
  BY Inv1Step
<1> USE DEF redis, mongo, clients, locals, counters
<1>1. ASSUME NEW h \in Handlers, NEW u \in Users, NEW t \in AskedTypes, StartJoin(h, u, t) PROVE
      Promised
  BY <1>1, SilentStep DEF StartJoin, Start, Moves, Inv1, TypeOK, LocalsType
<1>2. ASSUME NEW h \in Handlers, NEW u \in Users, StartNext(h, u) PROVE Promised
  BY <1>2, SilentStep DEF StartNext, Start, Moves, Inv1, TypeOK, LocalsType
<1>3. ASSUME NEW h \in Handlers, NEW u \in Users, StartLeave(h, u) PROVE Promised
  BY <1>3, SilentStep DEF StartLeave, Start, Moves, Inv1, TypeOK, LocalsType
<1>4. ASSUME NEW h \in Handlers, NEW u \in Users, StartDisconnect(h, u) PROVE Promised
  BY <1>4, SilentStep DEF StartDisconnect, Start, Moves, Inv1, TypeOK, LocalsType
<1>5. ASSUME NEW h \in Handlers, NEW u \in Users, NEW r \in Rooms, StartHangup(h, u, r) PROVE
      Promised
  BY <1>5, SilentStep DEF StartHangup, Start, Moves, Inv1, TypeOK, LocalsType
<1>6. ASSUME NEW h \in Handlers, NEW u \in Users, NEW v \in Users, StartEnforce(h, u, v) PROVE
      Promised
  BY <1>6, SilentStep DEF StartEnforce, Start, Moves, Inv1, TypeOK, LocalsType
<1>7. ASSUME NEW h \in Handlers, NEW u \in Users, StartKick(h, u) PROVE Promised
  BY <1>7, SilentStep DEF StartKick, Start, Moves, Inv1, TypeOK, LocalsType
<1>8. ASSUME NEW h \in Handlers, ReadPointerJoin(h) PROVE Promised
  BY <1>8, SilentStep DEF ReadPointerJoin, Return, Goto, Moves, Inv1, TypeOK, LocalsType
<1>9. ASSUME NEW h \in Handlers, ReadPointerNext(h) PROVE Promised
  BY <1>9, SilentStep DEF ReadPointerNext, Goto, Moves, Inv1, TypeOK, LocalsType
<1>10. ASSUME NEW h \in Handlers, ReadPointerEnforce(h) PROVE Promised
  BY <1>10, SilentStep DEF ReadPointerEnforce, Return, Goto, Moves, Inv1, TypeOK, LocalsType
<1>11. ASSUME NEW h \in Handlers, PresenceOff(h) PROVE Promised
  BY <1>11, SilentStep DEF PresenceOff, Goto, Moves, Inv1, TypeOK, LocalsType
<1>12. ASSUME NEW h \in Handlers, DequeueAll(h) PROVE Promised
  BY <1>12, <1>0, WithdrawStep DEF DequeueAll, Goto, Moves, Inv1, TypeOK, RedisType, LocalsType
<1>13. ASSUME NEW h \in Handlers, IsMember(h) PROVE Promised
  BY <1>13, SilentStep DEF IsMember, Return, Goto, Moves, Inv1, TypeOK, LocalsType
<1>14. ASSUME NEW h \in Handlers, GetPeerOf(h) PROVE Promised
  BY <1>14, SilentStep DEF GetPeerOf, Return, Goto, Moves, Inv1, TypeOK, LocalsType
<1>15. ASSUME NEW h \in Handlers, TeardownPointer(h) PROVE Promised
  <2>1. CASE AfterTeardown(h)
    BY <1>15, <2>1, AfterTeardownMoves, SilentStep DEF TeardownPointer
  <2>2. CASE ~AfterTeardown(h)
    BY <1>15, <2>2, SilentStep DEF TeardownPointer, Goto, Moves, Inv1, TypeOK, LocalsType
  <2> QED BY <2>1, <2>2
<1>16. ASSUME NEW h \in Handlers, TeardownRoom(h) PROVE Promised
  BY <1>16, SilentStep DEF TeardownRoom, Goto, Moves, Inv1, TypeOK, LocalsType
<1>17. ASSUME NEW h \in Handlers, TeardownDangling(h) PROVE Promised
  BY <1>17, TeardownDanglingSeen
<1>18. ASSUME NEW h \in Handlers, DeleteRoom(h) PROVE Promised
  BY <1>18, DeleteRoomSeen
<1>19. ASSUME NEW h \in Handlers, EndMatch(h) PROVE Promised
  BY <1>19, EndMatchSeen
<1>20. ASSUME NEW h \in Handlers, Enqueue(h) PROVE Promised
  BY <1>20, EnqueueSeen
<1>21. ASSUME NEW h \in Handlers, EnqueueNoProfile(h) PROVE Promised
  BY <1>21, SilentStep DEF EnqueueNoProfile, Return, Goto, Moves, Inv1, TypeOK, LocalsType
<1>22. ASSUME NEW h \in Handlers, Scan(h) PROVE Promised
  BY <1>22, SilentStep DEF Scan, Goto, Moves, Inv1, TypeOK, LocalsType
<1>23. ASSUME NEW h \in Handlers, LoadWaiters(h) PROVE Promised
  BY <1>23, SilentStep DEF LoadWaiters, Goto, Moves, Inv1, TypeOK, LocalsType
<1>24. ASSUME NEW h \in Handlers, PruneStale(h) PROVE Promised
  BY <1>24, <1>0, WithdrawStep DEF PruneStale, Goto, Moves, Inv1, TypeOK, RedisType, LocalsType
<1>25. ASSUME NEW h \in Handlers, CheckLive(h) PROVE Promised
  BY <1>25, SilentStep DEF CheckLive, Goto, Moves, Inv1, TypeOK, LocalsType
<1>26. ASSUME NEW h \in Handlers, EvictDead(h) PROVE Promised
  BY <1>26, <1>0, WithdrawStep DEF EvictDead, Goto, Moves, Inv1, TypeOK, RedisType, LocalsType
<1>27. ASSUME NEW h \in Handlers, Gate(h) PROVE Promised
  BY <1>27, SilentStep DEF Gate, Goto, Moves, Inv1, TypeOK, LocalsType
<1>28. ASSUME NEW h \in Handlers, ClaimPair(h) PROVE Promised
  BY <1>28, ClaimPairSeen
<1>29. ASSUME NEW h \in Handlers, StillQueued(h) PROVE Promised
  BY <1>29, SilentStep DEF StillQueued, Goto, Moves, Inv1, TypeOK, LocalsType
<1>30. ASSUME NEW h \in Handlers, NoCandidate(h) PROVE Promised
  BY <1>30, SilentStep DEF NoCandidate, Goto, Moves, Inv1, TypeOK, LocalsType
<1>31. ASSUME NEW h \in Handlers, CreateMatch(h) PROVE Promised
  BY <1>31, CreateMatchSeen
<1>32. ASSUME NEW h \in Handlers, WriteRoom(h) PROVE Promised
  BY <1>32, WriteRoomSeen
<1>33. ASSUME NEW h \in Handlers, CommitFails(h) PROVE Promised
  BY <1>33, StopsSeen DEF CommitFails, Goto, Moves, Inv1, TypeOK, LocalsType
<1>34. ASSUME NEW h \in Handlers, Deliver(h) PROVE Promised
  BY <1>34, SilentStep DEF Deliver, Return, Goto, Moves, Inv1, TypeOK, LocalsType
<1>35. ASSUME NEW h \in Handlers, NoMatch(h) PROVE Promised
  BY <1>35, SilentStep DEF NoMatch, Return, Goto, Moves, Inv1, TypeOK, LocalsType
<1>36. ASSUME NEW u \in Users, Connect(u) PROVE Promised
  BY <1>36, SilentEnvironment DEF Connect
<1>37. ASSUME NEW u \in Users, NEW v \in Users, Block(u, v) PROVE Promised
  BY <1>37, SilentEnvironment DEF Block
<1>38. ASSUME NEW u \in Users, WaiterExpires(u) PROVE Promised
  BY <1>38, SilentEnvironment DEF WaiterExpires
<1>39. ASSUME NEW r \in Rooms, RoomExpires(r) PROVE Promised
  BY <1>39, RoomExpiresSeen
<1>40. ASSUME NEW rs \in SUBSET Rooms, ReconcileStale(rs) PROVE Promised
  BY <1>40, ClosesSeen DEF ReconcileStale, PastCutoff, Deals, DealOf, Owed
<1>41. ASSUME NEW h \in Handlers, Crash(h) PROVE Promised
  BY <1>41, StopsSeen DEF Crash, Return, Moves, Inv1, TypeOK, LocalsType
<1>42. ASSUME NEW u \in Users, PresenceLapses(u) PROVE Promised
  BY <1>42, SilentEnvironment DEF PresenceLapses
<1>43. ASSUME NEW u \in Users, Heartbeat(u) PROVE Promised
  BY <1>43, SilentEnvironment DEF Heartbeat
<1>44. CASE UNCHANGED vars
  BY <1>44, SilentEnvironment DEF vars
<1> QED
  BY <1>1, <1>2, <1>3, <1>4, <1>5, <1>6, <1>7, <1>8, <1>9, <1>10, <1>11, <1>12,
     <1>13, <1>14, <1>15, <1>16, <1>17, <1>18, <1>19, <1>20, <1>21, <1>22, <1>23, <1>24,
     <1>25, <1>26, <1>27, <1>28, <1>29, <1>30, <1>31, <1>32, <1>33, <1>34, <1>35, <1>36,
     <1>37, <1>38, <1>39, <1>40, <1>41, <1>42, <1>43, <1>44
     DEF Next, StartAny, Step, Teardown, Matcher, Environment

-----------------------------------------------------------------------------
\* The matchers, teardowns, expiries and sweeps together implement Roulette: a
\* room is opened once for two users who waited for it and of whom one accepts the
\* other, goes live once, seats nobody else, and is closed only after it is over.
THEOREM ImplementsRoulette == Spec => RouletteSpec
<1>1. Init => Promise!Init
  BY DEF Init, Promise!Init, Promise!NoDeal, Promise!Fresh, Deals, DealOf, RoomsSeen, RoomOf
<1>2. Init => Suits
  BY DEF Init, Suits, Looking
<1>3. IInv /\ Suits /\ [Next]_vars => Suits'
  BY SuitsStep DEF IInv
<1>4. IInv /\ Suits /\ [Next]_vars => [Promise!Next]_Promise!roulette
  BY PromisedStep DEF IInv, Promised
<1> QED
  BY <1>1, <1>2, <1>3, <1>4, Inductive, PTL DEF Spec, RouletteSpec, Promise!Spec
===============================================================================
