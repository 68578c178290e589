---------------------------- MODULE PresenceProofs ----------------------------
(***************************************************************************)
(* Proofs about Presence for any number of sockets, any cap and bounds:    *)
(* types, the cap on sockets, the counter of connections, and the ban.     *)
(***************************************************************************)
EXTENDS Presence, FiniteSetTheorems, TLAPS

-----------------------------------------------------------------------------
(* The inductive invariant *)

\* The life of a socket: it is bound and held once it has registered, and stays held
\* until its release.
LifeInv == \A s \in Sockets :
    /\ link[s] = "new" => con[s] = "idle"
    /\ con[s] \in {"idle", "check", "register"} => s \notin bound /\ s \notin held
    /\ link[s] = "up" /\ s \in bound => s \in held
    /\ dis[s] = "release" => s \in held
    /\ dis[s] # "idle" => link[s] = "down"

\* The count of slots is the sockets that hold one.
SlotsInv == ~overrun => slots = Cardinality(held) /\ slots <= deploy.cap

\* A ban is flagged, then sent, then acted on; a socket that registers afterwards was
\* past its check when the ban reached its replica.
BanInv ==
    /\ sent => banned
    /\ reached # {} => sent
    /\ \A s \in reached : con[s] = "register" \/ Connected(s) => s \in straddlers

\* What lets a count be traced to its socket: before it is counted a socket is up,
\* dropped early or waiting for its release, and from then on it is counted until its
\* decrement, which comes after the increment.  A socket of /chat is never counted.
TraceInv == ~shaken => \A s \in Sockets :
    /\ con[s] \in {"idle", "check", "register", "incr"} => s \notin counted
    /\ con[s] \in {"check", "register"} => link[s] = "up" \/ s \in early
    /\ con[s] = "incr" => link[s] = "up" \/ s \in early \/ dis[s] = "release"
    /\ s \in bound /\ s \notin deploy.chat /\ con[s] # "incr" =>
          (link[s] = "up" \/ dis[s] \in {"release", "clear", "decr"} => s \in counted)
    /\ dis[s] \in {"hide", "tell"} => s \notin counted /\ con[s] # "incr"
    /\ Cleaning(s) => s \in bound
    /\ s \in deploy.chat => s \notin counted /\ con[s] # "incr" /\ dis[s] # "decr"

IInv == TypeOK /\ LifeInv /\ SlotsInv /\ BanInv /\ TraceInv /\ CountIsSockets

-----------------------------------------------------------------------------
(* Types and the life of a socket *)

\* Every step keeps the types.
LEMMA TypeStep ==
    ASSUME TypeOK, Next \/ UNCHANGED vars
    PROVE  TypeOK'
<1>1. ASSUME NEW s \in Sockets, Open(s) PROVE TypeOK'
  BY <1>1 DEF Open, TypeOK, shared, sockets, ban, history, bounds
<1>2. ASSUME NEW s \in Sockets, Drop(s) PROVE TypeOK'
  BY <1>2 DEF Drop, TypeOK, shared, sockets, ban, history, bounds
<1>3. ASSUME NEW s \in Sockets, DisconnectUser(s) PROVE TypeOK'
  BY <1>3 DEF DisconnectUser, Connected, TypeOK, shared, sockets, ban, history, bounds
<1>4. ASSUME NEW s \in Sockets, CheckBan(s) PROVE TypeOK'
  BY <1>4 DEF CheckBan, Refuse, TypeOK, shared, sockets, ban, history, bounds
<1>5. ASSUME NEW s \in Sockets, Register(s) PROVE TypeOK'
  BY <1>5 DEF Register, Refuse, TypeOK, shared, sockets, ban, history, bounds
<1>6. ASSUME NEW s \in Sockets, CountConnection(s) PROVE TypeOK'
  BY <1>6 DEF CountConnection, TypeOK, shared, sockets, ban, history, bounds
<1>7. ASSUME NEW s \in Sockets, ReadStatus(s) PROVE TypeOK'
  BY <1>7 DEF ReadStatus, TypeOK, shared, sockets, ban, history, bounds
<1>8. ASSUME NEW s \in Sockets, ShowOnline(s) PROVE TypeOK'
  BY <1>8 DEF ShowOnline, TypeOK, shared, sockets, ban, history, bounds
<1>9. ASSUME NEW s \in Sockets, TellOnline(s) PROVE TypeOK'
  BY <1>9 DEF TellOnline, TypeOK, shared, sockets, ban, history, bounds
<1>10. ASSUME NEW s \in Sockets, Release(s) PROVE TypeOK'
  BY <1>10 DEF Release, Ahead, Released, TypeOK, shared, sockets, ban, history, bounds
<1>11. ASSUME NEW s \in Sockets, Clear(s) PROVE TypeOK'
  BY <1>11 DEF Clear, Ahead, Released, TypeOK, shared, sockets, ban, history, bounds
<1>12. ASSUME NEW s \in Sockets, Decr(s) PROVE TypeOK'
  BY <1>12 DEF Decr, Ahead, Released, TypeOK, shared, sockets, ban, history, bounds
<1>13. ASSUME NEW s \in Sockets, Hide(s) PROVE TypeOK'
  BY <1>13 DEF Hide, Ahead, Released, TypeOK, shared, sockets, ban, history, bounds
<1>14. ASSUME NEW s \in Sockets, TellOffline(s) PROVE TypeOK'
  BY <1>14 DEF TellOffline, Ahead, Released, TypeOK, shared, sockets, ban, history, bounds
<1>15. ASSUME NEW s \in Sockets, Sweeps(s) PROVE TypeOK'
  BY <1>15 DEF Sweeps, Present, Connected, TypeOK, shared, sockets, ban, history, bounds
<1>16. ASSUME NEW s \in Sockets, BeatReads(s) PROVE TypeOK'
  BY <1>16 DEF BeatReads, TypeOK, shared, sockets, ban, history, bounds
<1>17. ASSUME NEW s \in Sockets, BeatShows(s) PROVE TypeOK'
  BY <1>17 DEF BeatShows, TypeOK, shared, sockets, ban, history, bounds
<1>18. ASSUME NEW s \in Sockets, BeatTells(s) PROVE TypeOK'
  BY <1>18 DEF BeatTells, TypeOK, shared, sockets, ban, history, bounds
<1>19. ASSUME NEW s \in Sockets, CheckBanFails(s) PROVE TypeOK'
  BY <1>19 DEF CheckBanFails, Refuse, Turn, TypeOK, shared, sockets, ban, history, bounds
<1>20. ASSUME NEW s \in Sockets, ConnectFails(s) PROVE TypeOK'
  BY <1>20 DEF ConnectFails, Fault, Turn, TypeOK, shared, sockets, ban, history, bounds
<1>21. ASSUME NEW s \in Sockets, CleanupFails(s) PROVE TypeOK'
  BY <1>21 DEF CleanupFails, Cleaning, Fault, Turn, TypeOK, shared, sockets, ban, history,
    bounds
<1>22. ASSUME NEW s \in Sockets, BeatFails(s) PROVE TypeOK'
  BY <1>22 DEF BeatFails, Fault, Turn, TypeOK, shared, sockets, ban, history, bounds
<1>23. ASSUME NEW s \in Sockets, Crash(s) PROVE TypeOK'
  BY <1>23 DEF Crash, Cleaning, Fault, Turn, TypeOK, shared, sockets, ban, history, bounds
<1>24. ASSUME SetBanned PROVE TypeOK'
  BY <1>24 DEF SetBanned, Turn, TypeOK, shared, sockets, ban, history, bounds
<1>25. ASSUME ForceDisconnect PROVE TypeOK'
  BY <1>25 DEF ForceDisconnect, TypeOK, shared, sockets, ban, history, bounds
<1>26. ASSUME StatusLapses PROVE TypeOK'
  <2>1. shown' = FALSE /\ (UNCHANGED turns \/ Turn)
    BY <1>26 DEF StatusLapses
  <2>2. turns' \in Nat
    BY <2>1 DEF Turn, TypeOK
  <2> QED
    BY <1>26, <2>1, <2>2 DEF StatusLapses, TypeOK, sockets, ban, history
<1>27. ASSUME CountLapses PROVE TypeOK'
  BY <1>27 DEF CountLapses, TypeOK, shared, sockets, ban, history, bounds
<1>28. ASSUME SlotsLapse PROVE TypeOK'
  BY <1>28 DEF SlotsLapse, Turn, Settled, TypeOK, shared, sockets, ban, history, bounds
<1>29. CASE UNCHANGED vars
  BY <1>29 DEF vars, TypeOK, shared, sockets, ban, history, bounds
<1> QED
  BY <1>1, <1>2, <1>3, <1>4, <1>5, <1>6, <1>7, <1>8, <1>9, <1>10, <1>11, <1>12, <1>13, <1>14,
    <1>15, <1>16, <1>17, <1>18, <1>19, <1>20, <1>21, <1>22, <1>23, <1>24, <1>25, <1>26,
    <1>27, <1>28, <1>29 DEF Next, Connect, Disconnect, Heartbeat, Faulty

\* Every step keeps the life of a socket.
LEMMA LifeStep ==
    ASSUME TypeOK, LifeInv, Next \/ UNCHANGED vars
    PROVE  LifeInv'
<1>1. ASSUME NEW s \in Sockets, Open(s) PROVE LifeInv'
  BY <1>1 DEF Open, TypeOK, LifeInv, shared, sockets, ban, history, bounds
<1>2. ASSUME NEW s \in Sockets, Drop(s) PROVE LifeInv'
  BY <1>2 DEF Drop, TypeOK, LifeInv, shared, sockets, ban, history, bounds
<1>3. ASSUME NEW s \in Sockets, DisconnectUser(s) PROVE LifeInv'
  BY <1>3 DEF DisconnectUser, Connected, TypeOK, LifeInv, shared, sockets, ban, history,
    bounds
<1>4. ASSUME NEW s \in Sockets, CheckBan(s) PROVE LifeInv'
  BY <1>4 DEF CheckBan, Refuse, TypeOK, LifeInv, shared, sockets, ban, history, bounds
<1>5. ASSUME NEW s \in Sockets, Register(s) PROVE LifeInv'
  BY <1>5 DEF Register, Refuse, TypeOK, LifeInv, shared, sockets, ban, history, bounds
<1>6. ASSUME NEW s \in Sockets, CountConnection(s) PROVE LifeInv'
  BY <1>6 DEF CountConnection, TypeOK, LifeInv, shared, sockets, ban, history, bounds
<1>7. ASSUME NEW s \in Sockets, ReadStatus(s) PROVE LifeInv'
  BY <1>7 DEF ReadStatus, TypeOK, LifeInv, shared, sockets, ban, history, bounds
<1>8. ASSUME NEW s \in Sockets, ShowOnline(s) PROVE LifeInv'
  BY <1>8 DEF ShowOnline, TypeOK, LifeInv, shared, sockets, ban, history, bounds
<1>9. ASSUME NEW s \in Sockets, TellOnline(s) PROVE LifeInv'
  BY <1>9 DEF TellOnline, TypeOK, LifeInv, shared, sockets, ban, history, bounds
<1>10. ASSUME NEW s \in Sockets, Release(s) PROVE LifeInv'
  BY <1>10 DEF Release, Ahead, Released, TypeOK, LifeInv, shared, sockets, ban, history,
    bounds
<1>11. ASSUME NEW s \in Sockets, Clear(s) PROVE LifeInv'
  BY <1>11 DEF Clear, Ahead, Released, TypeOK, LifeInv, shared, sockets, ban, history, bounds
<1>12. ASSUME NEW s \in Sockets, Decr(s) PROVE LifeInv'
  BY <1>12 DEF Decr, Ahead, Released, TypeOK, LifeInv, shared, sockets, ban, history, bounds
<1>13. ASSUME NEW s \in Sockets, Hide(s) PROVE LifeInv'
  BY <1>13 DEF Hide, Ahead, Released, TypeOK, LifeInv, shared, sockets, ban, history, bounds
<1>14. ASSUME NEW s \in Sockets, TellOffline(s) PROVE LifeInv'
  BY <1>14 DEF TellOffline, Ahead, Released, TypeOK, LifeInv, shared, sockets, ban, history,
    bounds
<1>15. ASSUME NEW s \in Sockets, Sweeps(s) PROVE LifeInv'
  BY <1>15 DEF Sweeps, Present, Connected, TypeOK, LifeInv, shared, sockets, ban, history,
    bounds
<1>16. ASSUME NEW s \in Sockets, BeatReads(s) PROVE LifeInv'
  BY <1>16 DEF BeatReads, TypeOK, LifeInv, shared, sockets, ban, history, bounds
<1>17. ASSUME NEW s \in Sockets, BeatShows(s) PROVE LifeInv'
  BY <1>17 DEF BeatShows, TypeOK, LifeInv, shared, sockets, ban, history, bounds
<1>18. ASSUME NEW s \in Sockets, BeatTells(s) PROVE LifeInv'
  BY <1>18 DEF BeatTells, TypeOK, LifeInv, shared, sockets, ban, history, bounds
<1>19. ASSUME NEW s \in Sockets, CheckBanFails(s) PROVE LifeInv'
  BY <1>19 DEF CheckBanFails, Refuse, Turn, TypeOK, LifeInv, shared, sockets, ban, history,
    bounds
<1>20. ASSUME NEW s \in Sockets, ConnectFails(s) PROVE LifeInv'
  BY <1>20 DEF ConnectFails, Fault, Turn, TypeOK, LifeInv, shared, sockets, ban, history,
    bounds
<1>21. ASSUME NEW s \in Sockets, CleanupFails(s) PROVE LifeInv'
  BY <1>21 DEF CleanupFails, Cleaning, Fault, Turn, TypeOK, LifeInv, shared, sockets, ban,
    history, bounds
<1>22. ASSUME NEW s \in Sockets, BeatFails(s) PROVE LifeInv'
  BY <1>22 DEF BeatFails, Fault, Turn, TypeOK, LifeInv, shared, sockets, ban, history, bounds
<1>23. ASSUME NEW s \in Sockets, Crash(s) PROVE LifeInv'
  BY <1>23 DEF Crash, Cleaning, Fault, Turn, TypeOK, LifeInv, shared, sockets, ban, history,
    bounds
<1>24. ASSUME SetBanned PROVE LifeInv'
  BY <1>24 DEF SetBanned, Turn, TypeOK, LifeInv, shared, sockets, ban, history, bounds
<1>25. ASSUME ForceDisconnect PROVE LifeInv'
  BY <1>25 DEF ForceDisconnect, TypeOK, LifeInv, shared, sockets, ban, history, bounds
<1>26. ASSUME StatusLapses PROVE LifeInv'
  BY <1>26 DEF StatusLapses, Turn, TypeOK, LifeInv, shared, sockets, ban, history, bounds
<1>27. ASSUME CountLapses PROVE LifeInv'
  BY <1>27 DEF CountLapses, TypeOK, LifeInv, shared, sockets, ban, history, bounds
<1>28. ASSUME SlotsLapse PROVE LifeInv'
  BY <1>28 DEF SlotsLapse, Turn, Settled, TypeOK, LifeInv, shared, sockets, ban, history,
    bounds
<1>29. CASE UNCHANGED vars
  BY <1>29 DEF vars, TypeOK, LifeInv, shared, sockets, ban, history, bounds
<1> QED
  BY <1>1, <1>2, <1>3, <1>4, <1>5, <1>6, <1>7, <1>8, <1>9, <1>10, <1>11, <1>12, <1>13, <1>14,
    <1>15, <1>16, <1>17, <1>18, <1>19, <1>20, <1>21, <1>22, <1>23, <1>24, <1>25, <1>26,
    <1>27, <1>28, <1>29 DEF Next, Connect, Disconnect, Heartbeat, Faulty

\* A deployment caps the sockets at a natural number.
LEMMA CapIsNat ==
    ASSUME deploy \in Deployments
    PROVE  deploy.cap \in Nat
  BY DeploymentAssumption

\* Every step keeps the count of slots in step with the sockets that hold one: a
\* register and a release move both, and a DEL erases nothing unless it is recorded.
LEMMA SlotsStep ==
    ASSUME TypeOK, LifeInv, SlotsInv, Next \/ UNCHANGED vars
    PROVE  SlotsInv'
<1>1. ASSUME NEW s \in Sockets, Open(s) PROVE SlotsInv'
  BY <1>1 DEF Open, SlotsInv, shared, sockets, ban, history, bounds
<1>2. ASSUME NEW s \in Sockets, Drop(s) PROVE SlotsInv'
  BY <1>2 DEF Drop, SlotsInv, shared, sockets, ban, history, bounds
<1>3. ASSUME NEW s \in Sockets, DisconnectUser(s) PROVE SlotsInv'
  BY <1>3 DEF DisconnectUser, Connected, SlotsInv, shared, sockets, ban, history, bounds
<1>4. ASSUME NEW s \in Sockets, CheckBan(s) PROVE SlotsInv'
  BY <1>4 DEF CheckBan, Refuse, SlotsInv, shared, sockets, ban, history, bounds
<1>5. ASSUME NEW s \in Sockets, Register(s) PROVE SlotsInv'
  <2>1. s \notin held /\ IsFiniteSet(held)
    BY <1>5, SocketAssumption, FS_Subset DEF Register, LifeInv, TypeOK
  <2>2. Cardinality(held) \in Nat /\ Cardinality(held \cup {s}) = Cardinality(held) + 1
    BY <2>1, FS_AddElement, FS_CardinalityType
  <2>3. CASE slots + 1 > deploy.cap \/ slots + 1 <= 0
    <3>1. overrun' = overrun /\ held' = held /\ deploy' = deploy
      BY <1>5, <2>3, CapIsNat DEF Register, TypeOK, history, bounds
    <3>2. slots' = slots \/ slots + 1 <= 0
      BY <1>5, <2>3, CapIsNat DEF Register, TypeOK
    <3>3. ASSUME ~overrun PROVE ~(slots + 1 <= 0)
      BY <3>3, <2>2 DEF SlotsInv
    <3> QED
      BY <3>1, <3>2, <3>3 DEF SlotsInv
  <2>4. CASE slots + 1 <= deploy.cap /\ slots + 1 > 0
    <3>1. /\ overrun' = overrun /\ held' = held \cup {s} /\ deploy' = deploy
          /\ slots' = slots + 1
      BY <1>5, <2>4, CapIsNat DEF Register, TypeOK, history, bounds
    <3> QED
      BY <3>1, <2>2, <2>4 DEF SlotsInv
  <2> QED
    BY <2>3, <2>4, CapIsNat DEF TypeOK
<1>6. ASSUME NEW s \in Sockets, CountConnection(s) PROVE SlotsInv'
  BY <1>6 DEF CountConnection, SlotsInv, shared, sockets, ban, history, bounds
<1>7. ASSUME NEW s \in Sockets, ReadStatus(s) PROVE SlotsInv'
  BY <1>7 DEF ReadStatus, SlotsInv, shared, sockets, ban, history, bounds
<1>8. ASSUME NEW s \in Sockets, ShowOnline(s) PROVE SlotsInv'
  BY <1>8 DEF ShowOnline, SlotsInv, shared, sockets, ban, history, bounds
<1>9. ASSUME NEW s \in Sockets, TellOnline(s) PROVE SlotsInv'
  BY <1>9 DEF TellOnline, SlotsInv, shared, sockets, ban, history, bounds
<1>10. ASSUME NEW s \in Sockets, Release(s) PROVE SlotsInv'
  <2>1. s \in held /\ IsFiniteSet(held)
    BY <1>10, SocketAssumption, FS_Subset DEF Release, LifeInv, TypeOK
  <2>2. Cardinality(held) \in Nat /\ Cardinality(held \ {s}) = Cardinality(held) - 1
    BY <2>1, FS_RemoveElement, FS_CardinalityType
  <2>3. overrun' = overrun /\ held' = held \ {s} /\ deploy' = deploy /\ slots' = slots - 1
    BY <1>10 DEF Release, history, bounds
  <2> QED
    BY <2>2, <2>3, CapIsNat DEF SlotsInv, TypeOK
<1>11. ASSUME NEW s \in Sockets, Clear(s) PROVE SlotsInv'
  <2>1. Cardinality(held) \in Nat
    BY SocketAssumption, FS_Subset, FS_CardinalityType DEF TypeOK
  <2>2. /\ slots' = 0 /\ held' = held /\ deploy' = deploy
        /\ overrun' = (overrun \/ slots > 0)
    BY <1>11 DEF Clear
  <2>3. CASE ~overrun /\ ~(slots > 0)
    <3>1. slots = 0 /\ Cardinality(held) = 0 /\ 0 <= deploy.cap
      BY <2>1, <2>3, CapIsNat DEF SlotsInv, TypeOK
    <3> QED
      BY <2>2, <3>1 DEF SlotsInv
  <2> QED
    BY <2>2, <2>3 DEF SlotsInv
<1>12. ASSUME NEW s \in Sockets, Decr(s) PROVE SlotsInv'
  BY <1>12 DEF Decr, Ahead, Released, SlotsInv, shared, sockets, ban, history, bounds
<1>13. ASSUME NEW s \in Sockets, Hide(s) PROVE SlotsInv'
  BY <1>13 DEF Hide, Ahead, Released, SlotsInv, shared, sockets, ban, history, bounds
<1>14. ASSUME NEW s \in Sockets, TellOffline(s) PROVE SlotsInv'
  BY <1>14 DEF TellOffline, Ahead, Released, SlotsInv, shared, sockets, ban, history, bounds
<1>15. ASSUME NEW s \in Sockets, Sweeps(s) PROVE SlotsInv'
  BY <1>15 DEF Sweeps, Present, Connected, SlotsInv, shared, sockets, ban, history, bounds
<1>16. ASSUME NEW s \in Sockets, BeatReads(s) PROVE SlotsInv'
  BY <1>16 DEF BeatReads, SlotsInv, shared, sockets, ban, history, bounds
<1>17. ASSUME NEW s \in Sockets, BeatShows(s) PROVE SlotsInv'
  BY <1>17 DEF BeatShows, SlotsInv, shared, sockets, ban, history, bounds
<1>18. ASSUME NEW s \in Sockets, BeatTells(s) PROVE SlotsInv'
  BY <1>18 DEF BeatTells, SlotsInv, shared, sockets, ban, history, bounds
<1>19. ASSUME NEW s \in Sockets, CheckBanFails(s) PROVE SlotsInv'
  BY <1>19 DEF CheckBanFails, Refuse, Turn, SlotsInv, shared, sockets, ban, history, bounds
<1>20. ASSUME NEW s \in Sockets, ConnectFails(s) PROVE SlotsInv'
  BY <1>20 DEF ConnectFails, Fault, Turn, SlotsInv, shared, sockets, ban, history, bounds
<1>21. ASSUME NEW s \in Sockets, CleanupFails(s) PROVE SlotsInv'
  BY <1>21 DEF CleanupFails, Cleaning, Fault, Turn, SlotsInv, shared, sockets, ban, history,
    bounds
<1>22. ASSUME NEW s \in Sockets, BeatFails(s) PROVE SlotsInv'
  BY <1>22 DEF BeatFails, Fault, Turn, SlotsInv, shared, sockets, ban, history, bounds
<1>23. ASSUME NEW s \in Sockets, Crash(s) PROVE SlotsInv'
  BY <1>23 DEF Crash, Cleaning, Fault, Turn, SlotsInv, shared, sockets, ban, history, bounds
<1>24. ASSUME SetBanned PROVE SlotsInv'
  BY <1>24 DEF SetBanned, Turn, SlotsInv, shared, sockets, ban, history, bounds
<1>25. ASSUME ForceDisconnect PROVE SlotsInv'
  BY <1>25 DEF ForceDisconnect, SlotsInv, shared, sockets, ban, history, bounds
<1>26. ASSUME StatusLapses PROVE SlotsInv'
  BY <1>26 DEF StatusLapses, Turn, SlotsInv, shared, sockets, ban, history, bounds
<1>27. ASSUME CountLapses PROVE SlotsInv'
  BY <1>27 DEF CountLapses, SlotsInv, shared, sockets, ban, history, bounds
<1>28. ASSUME SlotsLapse PROVE SlotsInv'
  BY <1>28 DEF SlotsLapse, Turn, Settled, SlotsInv, shared, sockets, ban, history, bounds
<1>29. CASE UNCHANGED vars
  BY <1>29 DEF vars, SlotsInv, shared, sockets, ban, history, bounds
<1> QED
  BY <1>1, <1>2, <1>3, <1>4, <1>5, <1>6, <1>7, <1>8, <1>9, <1>10, <1>11, <1>12, <1>13, <1>14,
    <1>15, <1>16, <1>17, <1>18, <1>19, <1>20, <1>21, <1>22, <1>23, <1>24, <1>25, <1>26,
    <1>27, <1>28, <1>29 DEF Next, Connect, Disconnect, Heartbeat, Faulty

\* Every step keeps the order of a ban: once it has been acted on, no connect passes
\* its check, so whoever registers then is a straddler.
LEMMA BanStep ==
    ASSUME TypeOK, LifeInv, BanInv, Next \/ UNCHANGED vars
    PROVE  BanInv'
<1>1. ASSUME NEW s \in Sockets, Open(s) PROVE BanInv'
  BY <1>1 DEF Open, TypeOK, LifeInv, BanInv, Connected, shared, sockets, ban, history, bounds
<1>2. ASSUME NEW s \in Sockets, Drop(s) PROVE BanInv'
  BY <1>2 DEF Drop, TypeOK, LifeInv, BanInv, Connected, shared, sockets, ban, history, bounds
<1>3. ASSUME NEW s \in Sockets, DisconnectUser(s) PROVE BanInv'
  BY <1>3 DEF DisconnectUser, Connected, TypeOK, LifeInv, BanInv, Connected, shared, sockets,
    ban, history, bounds
<1>4. ASSUME NEW s \in Sockets, CheckBan(s) PROVE BanInv'
  BY <1>4 DEF CheckBan, Refuse, TypeOK, LifeInv, BanInv, Connected, shared, sockets, ban,
    history, bounds
<1>5. ASSUME NEW s \in Sockets, Register(s) PROVE BanInv'
  BY <1>5 DEF Register, Refuse, TypeOK, LifeInv, BanInv, Connected, shared, sockets, ban,
    history, bounds
<1>6. ASSUME NEW s \in Sockets, CountConnection(s) PROVE BanInv'
  BY <1>6 DEF CountConnection, TypeOK, LifeInv, BanInv, Connected, shared, sockets, ban,
    history, bounds
<1>7. ASSUME NEW s \in Sockets, ReadStatus(s) PROVE BanInv'
  BY <1>7 DEF ReadStatus, TypeOK, LifeInv, BanInv, Connected, shared, sockets, ban, history,
    bounds
<1>8. ASSUME NEW s \in Sockets, ShowOnline(s) PROVE BanInv'
  BY <1>8 DEF ShowOnline, TypeOK, LifeInv, BanInv, Connected, shared, sockets, ban, history,
    bounds
<1>9. ASSUME NEW s \in Sockets, TellOnline(s) PROVE BanInv'
  BY <1>9 DEF TellOnline, TypeOK, LifeInv, BanInv, Connected, shared, sockets, ban, history,
    bounds
<1>10. ASSUME NEW s \in Sockets, Release(s) PROVE BanInv'
  BY <1>10 DEF Release, Ahead, Released, TypeOK, LifeInv, BanInv, Connected, shared, sockets,
    ban, history, bounds
<1>11. ASSUME NEW s \in Sockets, Clear(s) PROVE BanInv'
  BY <1>11 DEF Clear, Ahead, Released, TypeOK, LifeInv, BanInv, Connected, shared, sockets,
    ban, history, bounds
<1>12. ASSUME NEW s \in Sockets, Decr(s) PROVE BanInv'
  BY <1>12 DEF Decr, Ahead, Released, TypeOK, LifeInv, BanInv, Connected, shared, sockets,
    ban, history, bounds
<1>13. ASSUME NEW s \in Sockets, Hide(s) PROVE BanInv'
  BY <1>13 DEF Hide, Ahead, Released, TypeOK, LifeInv, BanInv, Connected, shared, sockets,
    ban, history, bounds
<1>14. ASSUME NEW s \in Sockets, TellOffline(s) PROVE BanInv'
  BY <1>14 DEF TellOffline, Ahead, Released, TypeOK, LifeInv, BanInv, Connected, shared,
    sockets, ban, history, bounds
<1>15. ASSUME NEW s \in Sockets, Sweeps(s) PROVE BanInv'
  BY <1>15 DEF Sweeps, Present, Connected, TypeOK, LifeInv, BanInv, Connected, shared,
    sockets, ban, history, bounds
<1>16. ASSUME NEW s \in Sockets, BeatReads(s) PROVE BanInv'
  BY <1>16 DEF BeatReads, TypeOK, LifeInv, BanInv, Connected, shared, sockets, ban, history,
    bounds
<1>17. ASSUME NEW s \in Sockets, BeatShows(s) PROVE BanInv'
  BY <1>17 DEF BeatShows, TypeOK, LifeInv, BanInv, Connected, shared, sockets, ban, history,
    bounds
<1>18. ASSUME NEW s \in Sockets, BeatTells(s) PROVE BanInv'
  BY <1>18 DEF BeatTells, TypeOK, LifeInv, BanInv, Connected, shared, sockets, ban, history,
    bounds
<1>19. ASSUME NEW s \in Sockets, CheckBanFails(s) PROVE BanInv'
  BY <1>19 DEF CheckBanFails, Refuse, Turn, TypeOK, LifeInv, BanInv, Connected, shared,
    sockets, ban, history, bounds
<1>20. ASSUME NEW s \in Sockets, ConnectFails(s) PROVE BanInv'
  BY <1>20 DEF ConnectFails, Fault, Turn, TypeOK, LifeInv, BanInv, Connected, shared, sockets,
    ban, history, bounds
<1>21. ASSUME NEW s \in Sockets, CleanupFails(s) PROVE BanInv'
  BY <1>21 DEF CleanupFails, Cleaning, Fault, Turn, TypeOK, LifeInv, BanInv, Connected,
    shared, sockets, ban, history, bounds
<1>22. ASSUME NEW s \in Sockets, BeatFails(s) PROVE BanInv'
  BY <1>22 DEF BeatFails, Fault, Turn, TypeOK, LifeInv, BanInv, Connected, shared, sockets,
    ban, history, bounds
<1>23. ASSUME NEW s \in Sockets, Crash(s) PROVE BanInv'
  BY <1>23 DEF Crash, Cleaning, Fault, Turn, TypeOK, LifeInv, BanInv, Connected, shared,
    sockets, ban, history, bounds
<1>24. ASSUME SetBanned PROVE BanInv'
  BY <1>24 DEF SetBanned, Turn, TypeOK, LifeInv, BanInv, Connected, shared, sockets, ban,
    history, bounds
<1>25. ASSUME ForceDisconnect PROVE BanInv'
  BY <1>25 DEF ForceDisconnect, TypeOK, LifeInv, BanInv, Connected, shared, sockets, ban,
    history, bounds
<1>26. ASSUME StatusLapses PROVE BanInv'
  BY <1>26 DEF StatusLapses, Turn, TypeOK, LifeInv, BanInv, Connected, shared, sockets, ban,
    history, bounds
<1>27. ASSUME CountLapses PROVE BanInv'
  BY <1>27 DEF CountLapses, TypeOK, LifeInv, BanInv, Connected, shared, sockets, ban, history,
    bounds
<1>28. ASSUME SlotsLapse PROVE BanInv'
  BY <1>28 DEF SlotsLapse, Turn, Settled, TypeOK, LifeInv, BanInv, Connected, shared, sockets,
    ban, history, bounds
<1>29. CASE UNCHANGED vars
  BY <1>29 DEF vars, TypeOK, LifeInv, BanInv, Connected, shared, sockets, ban, history, bounds
<1> QED
  BY <1>1, <1>2, <1>3, <1>4, <1>5, <1>6, <1>7, <1>8, <1>9, <1>10, <1>11, <1>12, <1>13, <1>14,
    <1>15, <1>16, <1>17, <1>18, <1>19, <1>20, <1>21, <1>22, <1>23, <1>24, <1>25, <1>26,
    <1>27, <1>28, <1>29 DEF Next, Connect, Disconnect, Heartbeat, Faulty

\* Every step keeps the trace of a count, until a command throws or a replica dies.
LEMMA TraceStep ==
    ASSUME TypeOK, LifeInv, TraceInv, Next \/ UNCHANGED vars
    PROVE  TraceInv'
<1>1. ASSUME NEW s \in Sockets, Open(s) PROVE TraceInv'
  BY <1>1 DEF Open, TypeOK, LifeInv, TraceInv, Cleaning, Ahead, Settled, Connected, Present,
    shared, sockets, ban, history, bounds
<1>2. ASSUME NEW s \in Sockets, Drop(s) PROVE TraceInv'
  BY <1>2 DEF Drop, TypeOK, LifeInv, TraceInv, Cleaning, Ahead, Settled, Connected, Present,
    shared, sockets, ban, history, bounds
<1>3. ASSUME NEW s \in Sockets, DisconnectUser(s) PROVE TraceInv'
  BY <1>3 DEF DisconnectUser, Connected, TypeOK, LifeInv, TraceInv, Cleaning, Ahead, Settled,
    Connected, Present, shared, sockets, ban, history, bounds
<1>4. ASSUME NEW s \in Sockets, CheckBan(s) PROVE TraceInv'
  BY <1>4 DEF CheckBan, Refuse, TypeOK, LifeInv, TraceInv, Cleaning, Ahead, Settled,
    Connected, Present, shared, sockets, ban, history, bounds
<1>5. ASSUME NEW s \in Sockets, Register(s) PROVE TraceInv'
  BY <1>5 DEF Register, Refuse, TypeOK, LifeInv, TraceInv, Cleaning, Ahead, Settled,
    Connected, Present, shared, sockets, ban, history, bounds
<1>6. ASSUME NEW s \in Sockets, CountConnection(s) PROVE TraceInv'
  BY <1>6 DEF CountConnection, TypeOK, LifeInv, TraceInv, Cleaning, Ahead, Settled, Connected,
    Present, shared, sockets, ban, history, bounds
<1>7. ASSUME NEW s \in Sockets, ReadStatus(s) PROVE TraceInv'
  BY <1>7 DEF ReadStatus, TypeOK, LifeInv, TraceInv, Cleaning, Ahead, Settled, Connected,
    Present, shared, sockets, ban, history, bounds
<1>8. ASSUME NEW s \in Sockets, ShowOnline(s) PROVE TraceInv'
  BY <1>8 DEF ShowOnline, TypeOK, LifeInv, TraceInv, Cleaning, Ahead, Settled, Connected,
    Present, shared, sockets, ban, history, bounds
<1>9. ASSUME NEW s \in Sockets, TellOnline(s) PROVE TraceInv'
  BY <1>9 DEF TellOnline, TypeOK, LifeInv, TraceInv, Cleaning, Ahead, Settled, Connected,
    Present, shared, sockets, ban, history, bounds
<1>10. ASSUME NEW s \in Sockets, Release(s) PROVE TraceInv'
  BY <1>10 DEF Release, Ahead, Released, TypeOK, LifeInv, TraceInv, Cleaning, Ahead, Settled,
    Connected, Present, shared, sockets, ban, history, bounds
<1>11. ASSUME NEW s \in Sockets, Clear(s) PROVE TraceInv'
  BY <1>11 DEF Clear, Ahead, Released, TypeOK, LifeInv, TraceInv, Cleaning, Ahead, Settled,
    Connected, Present, shared, sockets, ban, history, bounds
<1>12. ASSUME NEW s \in Sockets, Decr(s) PROVE TraceInv'
  BY <1>12 DEF Decr, Ahead, Released, TypeOK, LifeInv, TraceInv, Cleaning, Ahead, Settled,
    Connected, Present, shared, sockets, ban, history, bounds
<1>13. ASSUME NEW s \in Sockets, Hide(s) PROVE TraceInv'
  BY <1>13 DEF Hide, Ahead, Released, TypeOK, LifeInv, TraceInv, Cleaning, Ahead, Settled,
    Connected, Present, shared, sockets, ban, history, bounds
<1>14. ASSUME NEW s \in Sockets, TellOffline(s) PROVE TraceInv'
  BY <1>14 DEF TellOffline, Ahead, Released, TypeOK, LifeInv, TraceInv, Cleaning, Ahead,
    Settled, Connected, Present, shared, sockets, ban, history, bounds
<1>15. ASSUME NEW s \in Sockets, Sweeps(s) PROVE TraceInv'
  BY <1>15 DEF Sweeps, Present, Connected, TypeOK, LifeInv, TraceInv, Cleaning, Ahead,
    Settled, Connected, Present, shared, sockets, ban, history, bounds
<1>16. ASSUME NEW s \in Sockets, BeatReads(s) PROVE TraceInv'
  BY <1>16 DEF BeatReads, TypeOK, LifeInv, TraceInv, Cleaning, Ahead, Settled, Connected,
    Present, shared, sockets, ban, history, bounds
<1>17. ASSUME NEW s \in Sockets, BeatShows(s) PROVE TraceInv'
  BY <1>17 DEF BeatShows, TypeOK, LifeInv, TraceInv, Cleaning, Ahead, Settled, Connected,
    Present, shared, sockets, ban, history, bounds
<1>18. ASSUME NEW s \in Sockets, BeatTells(s) PROVE TraceInv'
  BY <1>18 DEF BeatTells, TypeOK, LifeInv, TraceInv, Cleaning, Ahead, Settled, Connected,
    Present, shared, sockets, ban, history, bounds
<1>19. ASSUME NEW s \in Sockets, CheckBanFails(s) PROVE TraceInv'
  BY <1>19 DEF CheckBanFails, Refuse, Turn, TypeOK, LifeInv, TraceInv, Cleaning, Ahead,
    Settled, Connected, Present, shared, sockets, ban, history, bounds
<1>20. ASSUME NEW s \in Sockets, ConnectFails(s) PROVE TraceInv'
  BY <1>20 DEF ConnectFails, Fault, Turn, TypeOK, LifeInv, TraceInv, Cleaning, Ahead, Settled,
    Connected, Present, shared, sockets, ban, history, bounds
<1>21. ASSUME NEW s \in Sockets, CleanupFails(s) PROVE TraceInv'
  BY <1>21 DEF CleanupFails, Cleaning, Fault, Turn, TypeOK, LifeInv, TraceInv, Cleaning,
    Ahead, Settled, Connected, Present, shared, sockets, ban, history, bounds
<1>22. ASSUME NEW s \in Sockets, BeatFails(s) PROVE TraceInv'
  BY <1>22 DEF BeatFails, Fault, Turn, TypeOK, LifeInv, TraceInv, Cleaning, Ahead, Settled,
    Connected, Present, shared, sockets, ban, history, bounds
<1>23. ASSUME NEW s \in Sockets, Crash(s) PROVE TraceInv'
  BY <1>23 DEF Crash, Cleaning, Fault, Turn, TypeOK, LifeInv, TraceInv, Cleaning, Ahead,
    Settled, Connected, Present, shared, sockets, ban, history, bounds
<1>24. ASSUME SetBanned PROVE TraceInv'
  BY <1>24 DEF SetBanned, Turn, TypeOK, LifeInv, TraceInv, Cleaning, Ahead, Settled,
    Connected, Present, shared, sockets, ban, history, bounds
<1>25. ASSUME ForceDisconnect PROVE TraceInv'
  BY <1>25 DEF ForceDisconnect, TypeOK, LifeInv, TraceInv, Cleaning, Ahead, Settled,
    Connected, Present, shared, sockets, ban, history, bounds
<1>26. ASSUME StatusLapses PROVE TraceInv'
  BY <1>26 DEF StatusLapses, Turn, TypeOK, LifeInv, TraceInv, Cleaning, Ahead, Settled,
    Connected, Present, shared, sockets, ban, history, bounds
<1>27. ASSUME CountLapses PROVE TraceInv'
  BY <1>27 DEF CountLapses, TypeOK, LifeInv, TraceInv, Cleaning, Ahead, Settled, Connected,
    Present, shared, sockets, ban, history, bounds
<1>28. ASSUME SlotsLapse PROVE TraceInv'
  BY <1>28 DEF SlotsLapse, Turn, Settled, TypeOK, LifeInv, TraceInv, Cleaning, Ahead, Settled,
    Connected, Present, shared, sockets, ban, history, bounds
<1>29. CASE UNCHANGED vars
  BY <1>29 DEF vars, TypeOK, LifeInv, TraceInv, Cleaning, Ahead, Settled, Connected, Present,
    shared, sockets, ban, history, bounds
<1> QED
  BY <1>1, <1>2, <1>3, <1>4, <1>5, <1>6, <1>7, <1>8, <1>9, <1>10, <1>11, <1>12, <1>13, <1>14,
    <1>15, <1>16, <1>17, <1>18, <1>19, <1>20, <1>21, <1>22, <1>23, <1>24, <1>25, <1>26,
    <1>27, <1>28, <1>29 DEF Next, Connect, Disconnect, Heartbeat, Faulty

-----------------------------------------------------------------------------
(* What follows from it *)

\* Every step keeps the counter of connections in step with the sockets it counts: an
\* increment meets a socket not yet counted and a decrement one that is.
LEMMA CountStep ==
    ASSUME TypeOK, LifeInv, TraceInv, CountIsSockets, Next \/ UNCHANGED vars
    PROVE  CountIsSockets'
<1>1. ASSUME NEW s \in Sockets, Open(s) PROVE CountIsSockets'
  BY <1>1 DEF Open, TypeOK, LifeInv, TraceInv, CountIsSockets, Cleaning, Ahead, Connected,
    Present, shared, sockets, ban, history, bounds
<1>2. ASSUME NEW s \in Sockets, Drop(s) PROVE CountIsSockets'
  BY <1>2 DEF Drop, TypeOK, LifeInv, TraceInv, CountIsSockets, Cleaning, Ahead, Connected,
    Present, shared, sockets, ban, history, bounds
<1>3. ASSUME NEW s \in Sockets, DisconnectUser(s) PROVE CountIsSockets'
  BY <1>3 DEF DisconnectUser, Connected, TypeOK, LifeInv, TraceInv, CountIsSockets, Cleaning,
    Ahead, Connected, Present, shared, sockets, ban, history, bounds
<1>4. ASSUME NEW s \in Sockets, CheckBan(s) PROVE CountIsSockets'
  BY <1>4 DEF CheckBan, Refuse, TypeOK, LifeInv, TraceInv, CountIsSockets, Cleaning, Ahead,
    Connected, Present, shared, sockets, ban, history, bounds
<1>5. ASSUME NEW s \in Sockets, Register(s) PROVE CountIsSockets'
  BY <1>5 DEF Register, Refuse, TypeOK, LifeInv, TraceInv, CountIsSockets, Cleaning, Ahead,
    Connected, Present, shared, sockets, ban, history, bounds
<1>6. ASSUME NEW s \in Sockets, CountConnection(s) PROVE CountIsSockets'
  <2>1. IsFiniteSet(counted)
    BY SocketAssumption, FS_Subset DEF TypeOK
  <2>2. /\ shaken' = shaken /\ conn' = conn + 1 /\ counted' = counted \cup {s}
        /\ link' = link /\ dis' = dis /\ early' = early
    BY <1>6 DEF CountConnection, bounds
  <2>3. ASSUME ~shaken PROVE s \notin counted /\ (link[s] = "up" \/ Cleaning(s) \/ s \in early)
    BY <1>6, <2>3 DEF CountConnection, TraceInv, Cleaning
  <2>4. ASSUME ~shaken PROVE conn + 1 = Cardinality(counted \cup {s})
    BY <2>1, <2>3, <2>4, FS_AddElement, FS_CardinalityType DEF CountIsSockets
  <2> QED
    BY <2>2, <2>3, <2>4 DEF CountIsSockets, Cleaning
<1>7. ASSUME NEW s \in Sockets, ReadStatus(s) PROVE CountIsSockets'
  BY <1>7 DEF ReadStatus, TypeOK, LifeInv, TraceInv, CountIsSockets, Cleaning, Ahead,
    Connected, Present, shared, sockets, ban, history, bounds
<1>8. ASSUME NEW s \in Sockets, ShowOnline(s) PROVE CountIsSockets'
  BY <1>8 DEF ShowOnline, TypeOK, LifeInv, TraceInv, CountIsSockets, Cleaning, Ahead,
    Connected, Present, shared, sockets, ban, history, bounds
<1>9. ASSUME NEW s \in Sockets, TellOnline(s) PROVE CountIsSockets'
  BY <1>9 DEF TellOnline, TypeOK, LifeInv, TraceInv, CountIsSockets, Cleaning, Ahead,
    Connected, Present, shared, sockets, ban, history, bounds
<1>10. ASSUME NEW s \in Sockets, Release(s) PROVE CountIsSockets'
  BY <1>10 DEF Release, Ahead, Released, TypeOK, LifeInv, TraceInv, CountIsSockets, Cleaning,
    Ahead, Connected, Present, shared, sockets, ban, history, bounds
<1>11. ASSUME NEW s \in Sockets, Clear(s) PROVE CountIsSockets'
  BY <1>11 DEF Clear, Ahead, Released, TypeOK, LifeInv, TraceInv, CountIsSockets, Cleaning,
    Ahead, Connected, Present, shared, sockets, ban, history, bounds
<1>12. ASSUME NEW s \in Sockets, Decr(s) PROVE CountIsSockets'
  <2>1. IsFiniteSet(counted)
    BY SocketAssumption, FS_Subset DEF TypeOK
  <2>2. /\ shaken' = shaken /\ counted' = counted \ {s} /\ dis[s] = "decr"
        /\ conn' = (IF conn <= 1 THEN 0 ELSE conn - 1)
        /\ link' = link /\ early' = early
        /\ \A r \in Sockets \ {s} : dis'[r] = dis[r]
    BY <1>12 DEF Decr, bounds, TypeOK
  <2>3. ASSUME ~shaken PROVE s \in counted
    BY <1>12, <2>2, <2>3 DEF Decr, Ahead, TraceInv, Cleaning
  <2>4. ASSUME ~shaken PROVE conn' = Cardinality(counted \ {s})
    <3>1. conn = Cardinality(counted) /\ Cardinality(counted) \in Nat
      BY <2>1, <2>4, FS_CardinalityType DEF CountIsSockets
    <3>2. Cardinality(counted \ {s}) = conn - 1 /\ Cardinality(counted \ {s}) \in Nat
      BY <2>1, <2>3, <2>4, <3>1, FS_RemoveElement, FS_CardinalityType
    <3> QED
      BY <2>2, <3>1, <3>2
  <2>5. ASSUME ~shaken, NEW r \in counted'
        PROVE  link'[r] = "up" \/ Cleaning(r)' \/ r \in early'
    BY <2>2, <2>5 DEF CountIsSockets, Cleaning, TypeOK
  <2> QED
    BY <2>2, <2>4, <2>5 DEF CountIsSockets
<1>13. ASSUME NEW s \in Sockets, Hide(s) PROVE CountIsSockets'
  BY <1>13 DEF Hide, Ahead, Released, TypeOK, LifeInv, TraceInv, CountIsSockets, Cleaning,
    Ahead, Connected, Present, shared, sockets, ban, history, bounds
<1>14. ASSUME NEW s \in Sockets, TellOffline(s) PROVE CountIsSockets'
  BY <1>14 DEF TellOffline, Ahead, Released, TypeOK, LifeInv, TraceInv, CountIsSockets,
    Cleaning, Ahead, Connected, Present, shared, sockets, ban, history, bounds
<1>15. ASSUME NEW s \in Sockets, Sweeps(s) PROVE CountIsSockets'
  BY <1>15 DEF Sweeps, Present, Connected, TypeOK, LifeInv, TraceInv, CountIsSockets,
    Cleaning, Ahead, Connected, Present, shared, sockets, ban, history, bounds
<1>16. ASSUME NEW s \in Sockets, BeatReads(s) PROVE CountIsSockets'
  BY <1>16 DEF BeatReads, TypeOK, LifeInv, TraceInv, CountIsSockets, Cleaning, Ahead,
    Connected, Present, shared, sockets, ban, history, bounds
<1>17. ASSUME NEW s \in Sockets, BeatShows(s) PROVE CountIsSockets'
  BY <1>17 DEF BeatShows, TypeOK, LifeInv, TraceInv, CountIsSockets, Cleaning, Ahead,
    Connected, Present, shared, sockets, ban, history, bounds
<1>18. ASSUME NEW s \in Sockets, BeatTells(s) PROVE CountIsSockets'
  BY <1>18 DEF BeatTells, TypeOK, LifeInv, TraceInv, CountIsSockets, Cleaning, Ahead,
    Connected, Present, shared, sockets, ban, history, bounds
<1>19. ASSUME NEW s \in Sockets, CheckBanFails(s) PROVE CountIsSockets'
  BY <1>19 DEF CheckBanFails, Refuse, Turn, TypeOK, LifeInv, TraceInv, CountIsSockets,
    Cleaning, Ahead, Connected, Present, shared, sockets, ban, history, bounds
<1>20. ASSUME NEW s \in Sockets, ConnectFails(s) PROVE CountIsSockets'
  BY <1>20 DEF ConnectFails, Fault, Turn, TypeOK, LifeInv, TraceInv, CountIsSockets, Cleaning,
    Ahead, Connected, Present, shared, sockets, ban, history, bounds
<1>21. ASSUME NEW s \in Sockets, CleanupFails(s) PROVE CountIsSockets'
  BY <1>21 DEF CleanupFails, Cleaning, Fault, Turn, TypeOK, LifeInv, TraceInv, CountIsSockets,
    Cleaning, Ahead, Connected, Present, shared, sockets, ban, history, bounds
<1>22. ASSUME NEW s \in Sockets, BeatFails(s) PROVE CountIsSockets'
  BY <1>22 DEF BeatFails, Fault, Turn, TypeOK, LifeInv, TraceInv, CountIsSockets, Cleaning,
    Ahead, Connected, Present, shared, sockets, ban, history, bounds
<1>23. ASSUME NEW s \in Sockets, Crash(s) PROVE CountIsSockets'
  BY <1>23 DEF Crash, Cleaning, Fault, Turn, TypeOK, LifeInv, TraceInv, CountIsSockets,
    Cleaning, Ahead, Connected, Present, shared, sockets, ban, history, bounds
<1>24. ASSUME SetBanned PROVE CountIsSockets'
  BY <1>24 DEF SetBanned, Turn, TypeOK, LifeInv, TraceInv, CountIsSockets, Cleaning, Ahead,
    Connected, Present, shared, sockets, ban, history, bounds
<1>25. ASSUME ForceDisconnect PROVE CountIsSockets'
  BY <1>25 DEF ForceDisconnect, TypeOK, LifeInv, TraceInv, CountIsSockets, Cleaning, Ahead,
    Connected, Present, shared, sockets, ban, history, bounds
<1>26. ASSUME StatusLapses PROVE CountIsSockets'
  BY <1>26 DEF StatusLapses, Turn, TypeOK, LifeInv, TraceInv, CountIsSockets, Cleaning, Ahead,
    Connected, Present, shared, sockets, ban, history, bounds
<1>27. ASSUME CountLapses PROVE CountIsSockets'
  BY <1>27, FS_EmptySet DEF CountLapses, CountIsSockets, sockets, bounds
<1>28. ASSUME SlotsLapse PROVE CountIsSockets'
  BY <1>28 DEF SlotsLapse, Turn, Settled, TypeOK, LifeInv, TraceInv, CountIsSockets, Cleaning,
    Ahead, Connected, Present, shared, sockets, ban, history, bounds
<1>29. CASE UNCHANGED vars
  BY <1>29 DEF vars, TypeOK, LifeInv, TraceInv, CountIsSockets, Cleaning, Ahead, Connected,
    Present, shared, sockets, ban, history, bounds
<1> QED
  BY <1>1, <1>2, <1>3, <1>4, <1>5, <1>6, <1>7, <1>8, <1>9, <1>10, <1>11, <1>12, <1>13, <1>14,
    <1>15, <1>16, <1>17, <1>18, <1>19, <1>20, <1>21, <1>22, <1>23, <1>24, <1>25, <1>26,
    <1>27, <1>28, <1>29 DEF Next, Connect, Disconnect, Heartbeat, Faulty

\* The initial state satisfies the invariant.
LEMMA InitIInv ==
    ASSUME Init
    PROVE  IInv
<1>1. TypeOK
  <2>1. /\ link \in [Sockets -> {"new", "up", "down"}]
        /\ beat \in [Sockets -> {"idle", "get", "set", "renew", "tell"}]
    BY DEF Init
  <2>2. con \in [Sockets -> {"idle", "check", "register", "incr", "get", "set", "renew",
                              "tell", "done"}]
    BY DEF Init
  <2>3. dis \in [Sockets -> {"idle", "release", "clear", "decr", "hide", "tell", "done"}]
    BY DEF Init
  <2>4. /\ conn \in Nat /\ slots \in Int /\ turns \in Nat /\ deploy \in Deployments
        /\ heard \in {"online", "offline"}
    BY BoundsAssumption DEF Init
  <2>5. /\ shown \in BOOLEAN /\ banned \in BOOLEAN /\ sent \in BOOLEAN
        /\ overrun \in BOOLEAN /\ shaken \in BOOLEAN
    BY DEF Init
  <2>6. /\ bound \subseteq Sockets /\ reached \subseteq Sockets
        /\ counted \subseteq Sockets /\ held \subseteq Sockets
        /\ early \subseteq Sockets /\ straddlers \subseteq Sockets
    BY DEF Init
  <2> QED
    BY <2>1, <2>2, <2>3, <2>4, <2>5, <2>6 DEF TypeOK
<1>2. LifeInv /\ BanInv /\ TraceInv
  BY DEF Init, LifeInv, BanInv, TraceInv, Cleaning, Connected
<1>3. SlotsInv
  BY CapIsNat, FS_EmptySet DEF Init, SlotsInv
<1>4. CountIsSockets
  BY FS_EmptySet DEF Init, CountIsSockets
<1> QED
  BY <1>1, <1>2, <1>3, <1>4 DEF IInv

\* The invariant is inductive.
THEOREM Inductive == Spec => []IInv
<1>1. Init => IInv
  BY InitIInv
<1>2. IInv /\ [Next]_vars => IInv'
  BY TypeStep, LifeStep, SlotsStep, BanStep, TraceStep, CountStep DEF IInv
<1> QED
  BY <1>1, <1>2, PTL DEF Spec

\* Every variable keeps its type: handleConnection, handleDisconnect and the heartbeat
\* never drive the counter of connections below zero.
THEOREM PresenceTypeCorrect == Spec => []TypeOK
<1>1. IInv => TypeOK
  BY DEF IInv
<1> QED
  BY Inductive, <1>1, PTL

\* However connects and disconnects interleave, the counter of presence.connect and
\* presence.disconnect is the number of sockets it has counted and not yet given back.
THEOREM CounterIsSockets == Spec => []CountIsSockets
<1>1. IInv => CountIsSockets
  BY DEF IInv
<1> QED
  BY Inductive, <1>1, PTL

\* registerSocket admits no more than MAX_SOCKETS_PER_USER, as long as no DEL of
\* releaseSocket and no lapse erases counts of sockets that are there.
THEOREM CapIsKept == Spec => []CapHolds
<1>1. IInv => CapHolds
  <2> SUFFICES ASSUME IInv, ~overrun
               PROVE  Cardinality(held) <= deploy.cap
    BY DEF CapHolds
  <2> QED
    BY DEF IInv, SlotsInv
<1> QED
  BY Inductive, <1>1, PTL

\* A ban that disconnectUser has carried out on a replica leaves no socket there, but one
\* that was between isBanned and its room.
THEOREM BanIsEnforced == Spec => []BanSevers
<1>1. IInv => BanSevers
  BY DEF IInv, BanInv, BanSevers
<1> QED
  BY Inductive, <1>1, PTL
=============================================================================
