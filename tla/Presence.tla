------------------------------- MODULE Presence -------------------------------
(***************************************************************************)
(* The sockets of one user across the replicas: the life of a connection   *)
(* (handleConnection and handleDisconnect of MatchmakingGateway, and of    *)
(* ChatGateway, which shares the cap but not the presence), the two        *)
(* counters and the status key it keeps in Redis (WsRateLimiterService,    *)
(* PresenceService), the heartbeat, and the ban that severs it.            *)
(*                                                                         *)
(* Each command to Redis is one step.  con[s], dis[s] and beat[s] name the *)
(* command that the connect, the disconnect and the heartbeat of a socket  *)
(* have sent next.  Every socket is on a replica of its own; sockets of    *)
(* one replica share a connection to Redis, which only orders their        *)
(* commands more.  The status is online or missing: nothing sets another.  *)
(***************************************************************************)
EXTENDS Integers, FiniteSets

CONSTANTS
    Sockets,        \* sockets the user opens, each once
    Deployments,    \* MAX_SOCKETS_PER_USER, and which sockets are of /chat, not /mm
    MaxTurns        \* bound: commands that throw, replicas that die, lapses and bans

ASSUME SocketAssumption == IsFiniteSet(Sockets)
ASSUME DeploymentAssumption == Deployments \subseteq [cap : Nat, chat : SUBSET Sockets]
ASSUME BoundsAssumption == MaxTurns \in Nat

VARIABLES
    \* Redis
    conn,       \* presence:conn, 0 when missing
    shown,      \* presence:status is there
    slots,      \* ws:sockets, 0 when missing
    heard,      \* the last transition published to the watchers
    deploy,     \* the deployment, the same in every step
    \* the sockets
    link,       \* the transport
    bound,      \* sockets with data.userId set, in the room of the user
    con, dis, beat,
    \* the ban
    banned,     \* isBanned
    sent,       \* user:disconnect has been published
    reached,    \* replicas that have acted on it
    \* history and bounds
    counted,    \* sockets that conn counts
    held,       \* sockets that slots counts
    early,      \* sockets that dropped before they were bound
    straddlers, \* sockets past their ban check but not bound when the ban came
    overrun,    \* a count of slots has been erased
    shaken,     \* a command has thrown or a replica has died
    turns

shared  == <<conn, shown, slots, heard, deploy>>
sockets == <<link, bound, con, dis, beat>>
ban     == <<banned, sent, reached>>
history == <<counted, held, early, straddlers, overrun>>
bounds  == <<shaken, turns>>
vars    == <<shared, sockets, ban, history, bounds>>

TypeOK ==
    /\ conn  \in Nat
    /\ shown \in BOOLEAN
    /\ slots \in Int
    /\ deploy \in Deployments
    /\ heard \in {"online", "offline"}
    /\ link  \in [Sockets -> {"new", "up", "down"}]
    /\ bound \subseteq Sockets
    /\ con   \in [Sockets -> {"idle", "check", "register", "incr", "get", "set", "renew",
                              "tell", "done"}]
    /\ dis   \in [Sockets -> {"idle", "release", "clear", "decr", "hide", "tell", "done"}]
    /\ beat  \in [Sockets -> {"idle", "get", "set", "renew", "tell"}]
    /\ banned \in BOOLEAN /\ sent \in BOOLEAN
    /\ reached \subseteq Sockets
    /\ counted \subseteq Sockets /\ held \subseteq Sockets
    /\ early \subseteq Sockets /\ straddlers \subseteq Sockets
    /\ overrun \in BOOLEAN
    /\ shaken \in BOOLEAN
    /\ turns \in Nat

(***************************************************************************)
(* Formulas about the sockets                                              *)
(***************************************************************************)

Connected(s) == link[s] = "up" /\ s \in bound

\* On the namespace that keeps the presence of the user.
Present(s) == Connected(s) /\ s \notin deploy.chat

Cleaning(s) == dis[s] \notin {"idle", "done"}

\* Nothing of the user is under way.
Settled == \A s \in Sockets :
    con[s] \in {"idle", "done"} /\ ~Cleaning(s) /\ beat[s] = "idle"

\* The commands of a replica reach Redis in the order it sends them, so the k-th of a
\* disconnect comes after the k-th of the connect and the heartbeat begun before it.
Ahead(s, k) ==
    LET sends == CASE k = 1 -> {"incr"}
                   [] k = 2 -> {"incr", "get"}
                   [] k = 3 -> {"incr", "get", "set", "renew"}
                   [] OTHER -> {"incr", "get", "set", "renew", "tell"}
    IN  con[s] \notin sends /\ beat[s] \notin sends

Turn  == turns < MaxTurns /\ turns' = turns + 1
Fault == Turn /\ shaken' = TRUE

Init ==
    /\ conn = 0 /\ shown = FALSE /\ slots = 0 /\ heard = "offline"
    /\ deploy \in Deployments
    /\ link = [s \in Sockets |-> "new"]
    /\ bound = {}
    /\ con  = [s \in Sockets |-> "idle"]
    /\ dis  = [s \in Sockets |-> "idle"]
    /\ beat = [s \in Sockets |-> "idle"]
    /\ banned = FALSE /\ sent = FALSE /\ reached = {}
    /\ counted = {} /\ held = {} /\ early = {} /\ straddlers = {}
    /\ overrun = FALSE
    /\ shaken = FALSE
    /\ turns = 0

(***************************************************************************)
(* handleConnection                                                        *)
(***************************************************************************)

\* A handshake that the throttle of its address or the check of its token turns away
\* counts nothing and is left out.
Open(s) ==
    /\ link[s] = "new"
    /\ link' = [link EXCEPT ![s] = "up"]
    /\ con'  = [con  EXCEPT ![s] = "check"]
    /\ UNCHANGED <<shared, bound, dis, beat, ban, history, bounds>>

\* client.disconnect(true) of a socket that is not bound: handleDisconnect returns.
Refuse(s) ==
    /\ con'  = [con  EXCEPT ![s] = "done"]
    /\ link' = [link EXCEPT ![s] = "down"]
    /\ dis'  = [dis  EXCEPT ![s] = "done"]

\* The read of isBanned.
CheckBan(s) ==
    /\ con[s] = "check"
    /\ \/ banned /\ Refuse(s)
       \/ /\ ~banned
          /\ con' = [con EXCEPT ![s] = "register"]
          /\ UNCHANGED <<link, dis>>
    /\ UNCHANGED <<shared, bound, beat, ban, history, bounds>>

\* It fails closed.
CheckBanFails(s) ==
    /\ con[s] = "check"
    /\ Turn
    /\ Refuse(s)
    /\ UNCHANGED <<shared, bound, beat, ban, history, shaken>>

\* Mutant: the cap is compared with the count before the increment.
RegisterOneMore(s) ==
    /\ con[s] = "register"
    /\ \/ /\ slots > deploy.cap
          /\ Refuse(s)
          /\ UNCHANGED <<slots, bound, held>>
       \/ /\ slots <= deploy.cap /\ slots + 1 > 0
          /\ slots' = slots + 1
          /\ bound' = bound \cup {s} /\ held' = held \cup {s}
          /\ con' = [con EXCEPT ![s] = IF s \in deploy.chat THEN "done" ELSE "incr"]
          /\ UNCHANGED <<link, dis>>
    /\ UNCHANGED <<conn, shown, deploy, heard, beat, ban, counted, early, straddlers, overrun, bounds>>

\* REGISTER_SOCKET_LUA; then data.userId is set and the room joined.  A count that a
\* stray decrement has driven below zero refuses the socket and stays incremented.
Register(s) ==
    /\ con[s] = "register"
    /\ \/ /\ slots + 1 > deploy.cap
          /\ Refuse(s)
          /\ UNCHANGED <<slots, bound, held>>
       \/ /\ slots + 1 <= deploy.cap /\ slots + 1 <= 0
          /\ slots' = slots + 1
          /\ Refuse(s)
          /\ UNCHANGED <<bound, held>>
       \/ /\ slots + 1 <= deploy.cap /\ slots + 1 > 0
          /\ slots' = slots + 1
          /\ bound' = bound \cup {s} /\ held' = held \cup {s}
          /\ con' = [con EXCEPT ![s] = IF s \in deploy.chat THEN "done" ELSE "incr"]
          /\ UNCHANGED <<link, dis>>
    /\ UNCHANGED <<conn, shown, deploy, heard, beat, ban, counted, early, straddlers, overrun, bounds>>

\* CONN_INCR_LUA.  The first connection goes on to setStatus(online).
CountConnection(s) ==
    /\ con[s] = "incr"
    /\ conn' = conn + 1
    /\ counted' = counted \cup {s}
    /\ con' = [con EXCEPT ![s] = IF conn = 0 THEN "get" ELSE "done"]
    /\ UNCHANGED <<shown, slots, deploy, heard, link, bound, dis, beat, ban, held, early, straddlers,
                   overrun, bounds>>

ReadStatus(s) ==
    /\ con[s] = "get"
    /\ con' = [con EXCEPT ![s] = IF shown THEN "renew" ELSE "set"]
    /\ UNCHANGED <<shared, link, bound, dis, beat, ban, history, bounds>>

\* SET; a status that was missing is then published.
ShowOnline(s) ==
    /\ con[s] \in {"set", "renew"}
    /\ shown' = TRUE
    /\ con' = [con EXCEPT ![s] = IF con[s] = "set" THEN "tell" ELSE "done"]
    /\ UNCHANGED <<conn, slots, deploy, heard, link, bound, dis, beat, ban, history, bounds>>

TellOnline(s) ==
    /\ con[s] = "tell"
    /\ heard' = "online"
    /\ con' = [con EXCEPT ![s] = "done"]
    /\ UNCHANGED <<conn, shown, slots, deploy, link, bound, dis, beat, ban, history, bounds>>

\* A command throws: what presence.connect throws is caught, and the socket stays; what
\* registerSocket throws leaves it open and unbound.
ConnectFails(s) ==
    /\ con[s] \in {"register", "incr", "get", "set", "renew", "tell"}
    /\ Fault
    /\ con' = [con EXCEPT ![s] = "done"]
    /\ UNCHANGED <<shared, link, bound, dis, beat, ban, history>>

(***************************************************************************)
(* handleDisconnect                                                        *)
(***************************************************************************)

\* Mutant: the cleanup does not ask whether the socket was bound.
DropAlways(s) ==
    /\ link[s] = "up"
    /\ link' = [link EXCEPT ![s] = "down"]
    /\ dis'  = [dis EXCEPT ![s] = "release"]
    /\ early' = IF s \in bound THEN early ELSE early \cup {s}
    /\ UNCHANGED <<shared, bound, con, beat, ban, counted, held, straddlers, overrun, bounds>>

\* The transport closes.  Without data.userId there is nothing to clean up, but the
\* connect may still be under way, and will count the socket.
Drop(s) ==
    /\ link[s] = "up"
    /\ link' = [link EXCEPT ![s] = "down"]
    /\ dis'  = [dis EXCEPT ![s] = IF s \in bound THEN "release" ELSE "done"]
    /\ early' = IF s \in bound THEN early ELSE early \cup {s}
    /\ UNCHANGED <<shared, bound, con, beat, ban, counted, held, straddlers, overrun, bounds>>

\* The cleanup of a /chat socket ends with its slot.
Released(s) == IF s \in deploy.chat THEN "done" ELSE "decr"

\* releaseSocket: DECR, and DEL once the count is spent.
Release(s) ==
    /\ dis[s] = "release" /\ Ahead(s, 1)
    /\ slots' = slots - 1
    /\ held'  = held \ {s}
    /\ dis'   = [dis EXCEPT ![s] = IF slots - 1 <= 0 THEN "clear" ELSE Released(s)]
    /\ UNCHANGED <<conn, shown, deploy, heard, link, bound, con, beat, ban, counted, early, straddlers,
                   overrun, bounds>>

Clear(s) ==
    /\ dis[s] = "clear" /\ Ahead(s, 2)
    /\ slots' = 0
    /\ overrun' = (overrun \/ slots > 0)
    /\ dis'   = [dis EXCEPT ![s] = Released(s)]
    /\ UNCHANGED <<conn, shown, deploy, heard, link, bound, con, beat, ban, counted, held, early,
                   straddlers, bounds>>

\* Mutant: the script decrements what is not there.
DecrUnclamped(s) ==
    /\ dis[s] = "decr" /\ Ahead(s, 2)
    /\ conn' = conn - 1
    /\ counted' = counted \ {s}
    /\ dis'  = [dis EXCEPT ![s] = IF conn <= 1 THEN "hide" ELSE "done"]
    /\ UNCHANGED <<shown, slots, deploy, heard, link, bound, con, beat, ban, held, early, straddlers,
                   overrun, bounds>>

\* CONN_DECR_LUA.  The last connection goes on to setStatus(offline).
Decr(s) ==
    /\ dis[s] = "decr" /\ Ahead(s, 2)
    /\ conn' = IF conn <= 1 THEN 0 ELSE conn - 1
    /\ counted' = counted \ {s}
    /\ dis'  = [dis EXCEPT ![s] = IF conn <= 1 THEN "hide" ELSE "done"]
    /\ UNCHANGED <<shown, slots, deploy, heard, link, bound, con, beat, ban, held, early, straddlers,
                   overrun, bounds>>

\* DEL; a status that was there is then published as gone.
Hide(s) ==
    /\ dis[s] = "hide" /\ Ahead(s, 3)
    /\ shown' = FALSE
    /\ dis'   = [dis EXCEPT ![s] = IF shown THEN "tell" ELSE "done"]
    /\ UNCHANGED <<conn, slots, deploy, heard, link, bound, con, beat, ban, history, bounds>>

TellOffline(s) ==
    /\ dis[s] = "tell" /\ Ahead(s, 4)
    /\ heard' = "offline"
    /\ dis'   = [dis EXCEPT ![s] = "done"]
    /\ UNCHANGED <<conn, shown, slots, deploy, link, bound, con, beat, ban, history, bounds>>

\* A command throws: the one try around them skips all that follow.
CleanupFails(s) ==
    /\ Cleaning(s)
    /\ Fault
    /\ dis' = [dis EXCEPT ![s] = "done"]
    /\ UNCHANGED <<shared, link, bound, con, beat, ban, history>>

(***************************************************************************)
(* The heartbeat of a replica                                              *)
(***************************************************************************)

\* Mutant: the sweep asks the counter rather than the sockets at hand.
SweepsByCount(s) ==
    /\ beat[s] = "idle"
    /\ conn > 0
    /\ beat' = [beat EXCEPT ![s] = "get"]
    /\ UNCHANGED <<shared, link, bound, con, dis, ban, history, bounds>>

\* beatPresence finds the user among its sockets; CONN_TOUCH_LUA moves only a TTL.
Sweeps(s) ==
    /\ beat[s] = "idle"
    /\ Present(s)
    /\ beat' = [beat EXCEPT ![s] = "get"]
    /\ UNCHANGED <<shared, link, bound, con, dis, ban, history, bounds>>

\* Mutant: a user without a counter gets no heartbeat.
BeatReadsCounted(s) ==
    /\ beat[s] = "get"
    /\ beat' = [beat EXCEPT ![s] = IF conn = 0 THEN "idle" ELSE IF shown THEN "renew" ELSE "set"]
    /\ UNCHANGED <<shared, link, bound, con, dis, ban, history, bounds>>

BeatReads(s) ==
    /\ beat[s] = "get"
    /\ beat' = [beat EXCEPT ![s] = IF shown THEN "renew" ELSE "set"]
    /\ UNCHANGED <<shared, link, bound, con, dis, ban, history, bounds>>

BeatShows(s) ==
    /\ beat[s] \in {"set", "renew"}
    /\ shown' = TRUE
    /\ beat' = [beat EXCEPT ![s] = IF beat[s] = "set" THEN "tell" ELSE "idle"]
    /\ UNCHANGED <<conn, slots, deploy, heard, link, bound, con, dis, ban, history, bounds>>

BeatTells(s) ==
    /\ beat[s] = "tell"
    /\ heard' = "online"
    /\ beat' = [beat EXCEPT ![s] = "idle"]
    /\ UNCHANGED <<conn, shown, slots, deploy, link, bound, con, dis, ban, history, bounds>>

BeatFails(s) ==
    /\ beat[s] # "idle"
    /\ Fault
    /\ beat' = [beat EXCEPT ![s] = "idle"]
    /\ UNCHANGED <<shared, link, bound, con, dis, ban, history>>

(***************************************************************************)
(* The ban                                                                 *)
(***************************************************************************)

SetBanned ==
    /\ Turn
    /\ ~banned /\ banned' = TRUE
    /\ UNCHANGED <<shared, sockets, sent, reached, history, shaken>>

\* Mutant: the sockets are severed before the flag is set.
ForceDisconnectFirst ==
    /\ ~sent /\ sent' = TRUE
    /\ UNCHANGED <<shared, sockets, banned, reached, history, bounds>>

\* The publish that ends banUser, whose order is flag first.
ForceDisconnect ==
    /\ banned
    /\ ~sent /\ sent' = TRUE
    /\ UNCHANGED <<shared, sockets, banned, reached, history, bounds>>

\* disconnectUser on a replica severs the sockets in the room of the user.  An adapter
\* that carries it to the other replicas too would only sever more.
DisconnectUser(s) ==
    /\ sent /\ s \notin reached
    /\ link[s] # "down"
    /\ reached' = reached \cup {s}
    /\ IF Connected(s)
       THEN /\ link' = [link EXCEPT ![s] = "down"]
            /\ dis'  = [dis  EXCEPT ![s] = "release"]
       ELSE UNCHANGED <<link, dis>>
    /\ straddlers' = IF con[s] = "register" THEN straddlers \cup {s} ELSE straddlers
    /\ UNCHANGED <<shared, bound, con, beat, banned, sent, counted, held, early, overrun, bounds>>

(***************************************************************************)
(* Time and crashes                                                        *)
(***************************************************************************)

\* The TTL of the status spans a missed beat: it runs out once no replica has the user and
\* nothing is under way, or when handlers stall and beats are missed.
StatusLapses ==
    /\ shown /\ shown' = FALSE
    /\ LET gone == Settled /\ \A s \in Sockets : ~Present(s)
       IN  \/ gone /\ UNCHANGED turns
           \/ ~gone /\ Turn
    /\ UNCHANGED <<conn, slots, deploy, heard, sockets, ban, history, shaken>>

\* Six hours without a connect or a beat.
CountLapses ==
    /\ conn > 0 /\ Settled
    /\ \A s \in Sockets : ~Present(s)
    /\ conn' = 0 /\ counted' = {}
    /\ UNCHANGED <<shown, slots, deploy, heard, sockets, ban, held, early, straddlers, overrun, bounds>>

\* Six hours without a connect: no beat renews this one, whatever sockets there are.
SlotsLapse ==
    /\ Turn
    /\ slots # 0 /\ Settled
    /\ slots' = 0
    /\ overrun' = TRUE
    /\ UNCHANGED <<conn, shown, deploy, heard, sockets, ban, counted, held, early, straddlers, shaken>>

\* The replica dies with what it was doing.
Crash(s) ==
    /\ link[s] = "up" \/ con[s] \notin {"idle", "done"} \/ Cleaning(s)
    /\ Fault
    /\ link' = [link EXCEPT ![s] = "down"]
    /\ con'  = [con  EXCEPT ![s] = "done"]
    /\ dis'  = [dis  EXCEPT ![s] = "done"]
    /\ beat' = [beat EXCEPT ![s] = "idle"]
    /\ UNCHANGED <<shared, bound, ban, history>>

Connect(s) ==
    \/ CheckBan(s) \/ Register(s) \/ CountConnection(s) \/ ReadStatus(s) \/ ShowOnline(s)
    \/ TellOnline(s)

Disconnect(s) == Release(s) \/ Clear(s) \/ Decr(s) \/ Hide(s) \/ TellOffline(s)

Heartbeat(s) == Sweeps(s) \/ BeatReads(s) \/ BeatShows(s) \/ BeatTells(s)

Faulty(s) ==
    CheckBanFails(s) \/ ConnectFails(s) \/ CleanupFails(s) \/ BeatFails(s) \/ Crash(s)

Next ==
    \/ \E s \in Sockets :
        \/ Open(s) \/ Drop(s) \/ DisconnectUser(s)
        \/ Connect(s) \/ Disconnect(s) \/ Heartbeat(s) \/ Faulty(s)
    \/ SetBanned \/ ForceDisconnect
    \/ StatusLapses \/ CountLapses \/ SlotsLapse

\* Handlers run on, a replica that lives keeps beating, and keys lapse.  Nobody has to
\* connect, drop or ban.
Fairness ==
    /\ \A s \in Sockets :
        WF_vars(Connect(s)) /\ WF_vars(Disconnect(s)) /\ WF_vars(Heartbeat(s))
    /\ WF_vars(StatusLapses)

Spec == Init /\ [][Next]_vars

FairSpec == Spec /\ Fairness

(***************************************************************************)
(* Properties                                                              *)
(***************************************************************************)

\* The counter of connections is the sockets it has counted, and each of them is up or
\* being cleaned up, but for those that dropped within their own handshake.  Refused
\* handshakes, bans and two ends at once never take another socket's count.
CountIsSockets == ~shaken =>
    /\ conn = Cardinality(counted)
    /\ \A s \in counted : link[s] = "up" \/ Cleaning(s) \/ s \in early

\* The cap on concurrent sockets holds until a DEL of releaseSocket or the TTL erases
\* counts of sockets that are still there.
CapHolds == ~overrun => Cardinality(held) <= deploy.cap

\* Of a banned user no socket outlives the disconnect on its replica, but one that was
\* between its ban check and its room at that moment.
BanSevers == \A s \in reached : Connected(s) => s \in straddlers

\* A user who stays connected is shown online in the end, whatever raced or failed: the
\* heartbeat repairs a status that a late disconnect deleted, and a lost count.
ShownWhileConnected ==
    <>[](\E s \in Sockets : Present(s)) => <>[]shown

\* A user without sockets is shown offline in the end, although counts leak and a
\* heartbeat may write the status back after the disconnect.
HiddenOnceGone ==
    <>[](\A s \in Sockets : ~Present(s)) => <>[]~shown

\* What handleDisconnect says of a user who still holds a socket on another replica: once
\* nothing is under way and no count has leaked, the user is online.
HolderStaysOnline ==
    Settled /\ early = {} /\ (\E s \in Sockets : Present(s)) => shown /\ heard = "online"
=============================================================================
