------------------------------- MODULE Sessions -------------------------------
(***************************************************************************)
(* The refresh sessions of one account: AuthService (login, refresh with   *)
(* rotation, grace window and reuse detection, logout, revocation, change  *)
(* and reset of the password), the ban and the erasure that meet it, and   *)
(* the cookie jars of the account's devices.                               *)
(*                                                                         *)
(* A row of the sessions collection is its token.  A family is named by    *)
(* the first token of it, the one a login minted.  pc[h] names the await   *)
(* that the request h has reached; each database call is one step.  Access *)
(* tokens, claims and the client context of a row are left out.            *)
(***************************************************************************)
EXTENDS Naturals, FiniteSets

CONSTANTS
    Handlers,   \* slots for requests in flight at the same time
    Devices,    \* cookie jars; the tabs of a browser share one
    Tokens,     \* refresh tokens that can be minted
    Started,    \* kinds of requests that are started
    MaxStarts,  \* bound: requests started
    MaxEdits,   \* bound: revocations and unbans in one step, and expiries
    MaxFaults   \* bound: lost responses and crashes

NoToken  == "noToken"
NoDevice == "noDevice"
Kinds   == {"login", "refresh", "logout", "others", "change", "reset", "ban", "erase"}

ASSUME NullAssumption   == NoToken \notin Tokens /\ NoDevice \notin Devices
ASSUME KindAssumption   == Started \subseteq Kinds
ASSUME BoundsAssumption == {MaxStarts, MaxEdits, MaxFaults} \subseteq Nat

VARIABLES
    \* MongoDB: the sessions
    stored,     \* tokens that have a row
    revoked,    \* rows with revokedAt set
    expired,    \* rows past expiresAt
    family,     \* the family of a row
    next,       \* replacedByHash
    recent,     \* rows whose replacedAt is within ROTATION_GRACE_MS
    \* MongoDB: the user
    secret,     \* the password hash, a version; Unusable once erased
    banned,
    \* the clients
    cookie,     \* the refresh cookie of a device
    \* requests in flight
    pc, kind,
    dev,        \* the device that sent it
    tok,        \* the token it presented
    mint,       \* the token it has minted
    pass,       \* the password version it has proved
    \* history and bounds
    handed,     \* tokens a response has carried
    parent,     \* the token a token was minted for
    granted,    \* tokens minted within the grace window
    auth,       \* the password version that a token's family has proved
    raced,      \* requests whose family was revoked after they had read their row
    late,       \* tokens minted by those
    reused,     \* families burnt for a reuse
    excused,    \* families revoked otherwise, or with a lost or slow request
    starts, edits, faults

sessions == <<stored, revoked, expired, family, next, recent>>
users    == <<secret, banned>>
locals   == <<kind, dev, tok, mint, pass>>
minted   == <<parent, granted, auth, late>>
blame    == <<raced, reused, excused>>
bounds   == <<starts, edits, faults>>
vars     == <<sessions, users, cookie, pc, locals, handed, minted, blame, bounds>>

Unusable == 0
Await == {"idle", "user", "insert", "find", "check", "link", "reread", "regrant",
          "grant", "burn", "drop", "lookup", "spare", "verify", "write", "revokeAll",
          "flag", "tombstone", "delete", "answer"}

SessionType ==
    /\ stored  \subseteq Tokens
    /\ revoked \subseteq Tokens
    /\ expired \subseteq Tokens
    /\ family  \in [Tokens -> Tokens \cup {NoToken}]
    /\ next    \in [Tokens -> Tokens \cup {NoToken}]
    /\ recent  \subseteq Tokens

UserType ==
    /\ secret \in Nat
    /\ banned \in BOOLEAN
    /\ cookie \in [Devices -> Tokens \cup {NoToken}]

LocalsType ==
    /\ pc   \in [Handlers -> Await]
    /\ kind \in [Handlers -> Kinds \cup {"none"}]
    /\ dev  \in [Handlers -> Devices \cup {NoDevice}]
    /\ tok  \in [Handlers -> Tokens \cup {NoToken}]
    /\ mint \in [Handlers -> Tokens \cup {NoToken}]
    /\ pass \in [Handlers -> Nat]

HistoryType ==
    /\ handed  \subseteq Tokens
    /\ parent  \in [Tokens -> Tokens \cup {NoToken}]
    /\ granted \subseteq Tokens
    /\ auth    \in [Tokens -> Nat]
    /\ raced   \subseteq Handlers
    /\ late    \subseteq Tokens
    /\ reused  \subseteq Tokens
    /\ excused \subseteq Tokens
    /\ starts \in Nat /\ edits \in Nat /\ faults \in Nat

TypeOK == SessionType /\ UserType /\ LocalsType /\ HistoryType

(***************************************************************************)
(* Formulas about the rows                                                 *)
(***************************************************************************)

\* A row that a refresh of its token accepts as the current one or rotates out.
Live(t) == t \in stored \ (revoked \cup expired)

Members(f) == {t \in stored : family[t] = f}

\* A token no row and no history knows.
Fresh(t) == t \notin stored /\ family[t] = NoToken

Busy(h) == pc[h] # "idle"

\* A request that has read its row and not yet handed out what it minted.
Trusts(h) == pc[h] \in {"check", "insert", "link", "reread", "regrant", "grant"}

Goto(h, a) == pc' = [pc EXCEPT ![h] = a]

\* A request of that kind begins, from a device or from elsewhere, at a.
Starts(h, k, d, t, a) ==
    /\ k \in Started
    /\ ~Busy(h)
    /\ starts < MaxStarts
    /\ starts' = starts + 1
    /\ Goto(h, a)
    /\ kind' = [kind EXCEPT ![h] = k]
    /\ dev'  = [dev  EXCEPT ![h] = d]
    /\ tok'  = [tok  EXCEPT ![h] = t]
    /\ pass' = [pass EXCEPT ![h] = secret]
    /\ UNCHANGED <<sessions, users, cookie, mint, handed, minted, blame, edits, faults>>

\* The request ends: its slot is free.
Ends(h) ==
    /\ Goto(h, "idle")
    /\ kind' = [kind EXCEPT ![h] = "none"]
    /\ dev'  = [dev  EXCEPT ![h] = NoDevice]
    /\ tok'  = [tok  EXCEPT ![h] = NoToken]
    /\ mint' = [mint EXCEPT ![h] = NoToken]
    /\ pass' = [pass EXCEPT ![h] = Unusable]

FamiliesOf(R) == {family[t] : t \in R}

\* updateMany of the rows R by the requests in done, if any.  Requests that rely on
\* a row of one of their families have been overtaken.
RevokeRows(R, done) ==
    LET overtaken == {h \in Handlers : Trusts(h) /\ tok[h] # NoToken
                                        /\ family[tok[h]] \in FamiliesOf(R)}
    IN  /\ revoked' = revoked \cup R
        /\ raced'   = (raced \cup overtaken) \ done
        /\ UNCHANGED <<stored, expired, family, next, recent>>

Excuses(F) == excused' = excused \cup F

Init ==
    /\ stored = {} /\ revoked = {} /\ expired = {} /\ recent = {}
    /\ family = [t \in Tokens |-> NoToken]
    /\ next   = [t \in Tokens |-> NoToken]
    /\ secret = 1
    /\ banned = FALSE
    /\ cookie = [d \in Devices |-> NoToken]
    /\ pc     = [h \in Handlers |-> "idle"]
    /\ kind   = [h \in Handlers |-> "none"]
    /\ dev    = [h \in Handlers |-> NoDevice]
    /\ tok    = [h \in Handlers |-> NoToken]
    /\ mint   = [h \in Handlers |-> NoToken]
    /\ pass   = [h \in Handlers |-> Unusable]
    /\ handed = {} /\ granted = {} /\ raced = {} /\ late = {}
    /\ reused = {} /\ excused = {}
    /\ parent = [t \in Tokens |-> NoToken]
    /\ auth   = [t \in Tokens |-> Unusable]
    /\ starts = 0 /\ edits = 0 /\ faults = 0

(***************************************************************************)
(* The requests as they arrive                                             *)
(***************************************************************************)

\* The user types the password of this moment; a wrong one changes no session.
StartLogin(h, d) == secret # Unusable /\ Starts(h, "login", d, NoToken, "user")

\* verifyRefreshToken turns away a missing or an expired token before any read.
StartRefresh(h, d) ==
    /\ cookie[d] \notin expired \cup {NoToken}
    /\ Starts(h, "refresh", d, cookie[d], "find")

\* Requests behind JwtAuthGuard: some response has carried an access token.
\* Without a cookie they revoke everything.
StartLogout(h, d) ==
    /\ handed # {}
    /\ Starts(h, "logout", d, cookie[d], IF cookie[d] = NoToken THEN "revokeAll" ELSE "lookup")

StartRevokeOthers(h, d) ==
    /\ handed # {}
    /\ Starts(h, "others", d, cookie[d], IF cookie[d] = NoToken THEN "revokeAll" ELSE "lookup")

StartChangePassword(h, d) ==
    /\ handed # {} /\ secret # Unusable
    /\ Starts(h, "change", d, NoToken, "verify")

\* resetPassword once consumeToken has redeemed the emailed link.
StartReset(h) == Starts(h, "reset", NoDevice, NoToken, "write")

StartBan(h)   == Starts(h, "ban", NoDevice, NoToken, "flag")
StartErase(h) == Starts(h, "erase", NoDevice, NoToken, "tombstone")

(***************************************************************************)
(* Login                                                                   *)
(***************************************************************************)

CheckCredentials(h) ==
    /\ pc[h] = "user"
    /\ \/ /\ pass[h] = secret /\ ~banned
          /\ Goto(h, "insert")
          /\ UNCHANGED <<locals, raced>>
       \/ /\ pass[h] # secret \/ banned
          /\ Ends(h)
          /\ raced' = raced \ {h}
    /\ UNCHANGED <<sessions, users, cookie, handed, minted, reused, excused, bounds>>

\* issueSession: the row is inserted whatever has happened since the checks.
Insert(h) ==
    /\ pc[h] \in {"insert", "grant"}
    /\ \E t \in Tokens :
        /\ Fresh(t)
        /\ stored' = stored \cup {t}
        /\ family' = [family EXCEPT ![t] = IF kind[h] = "login" THEN t ELSE family[tok[h]]]
        /\ mint'   = [mint   EXCEPT ![h] = t]
        /\ parent' = [parent EXCEPT ![t] = tok[h]]
        /\ auth'   = [auth   EXCEPT ![t] = IF kind[h] = "login" THEN pass[h] ELSE auth[tok[h]]]
        /\ granted' = IF pc[h] = "grant" THEN granted \cup {t} ELSE granted
        /\ late'    = IF h \in raced THEN late \cup {t} ELSE late
    /\ Goto(h, IF kind[h] = "refresh" /\ pc[h] = "insert" THEN "link" ELSE "answer")
    /\ UNCHANGED <<revoked, expired, next, recent, users, cookie, kind, dev, tok, pass,
                   handed, blame, bounds>>

(***************************************************************************)
(* Refresh                                                                 *)
(***************************************************************************)

\* Mutant: a revoked row is rotated as if it were live.
FindIgnoresRevoked(h) ==
    /\ pc[h] = "find"
    /\ Goto(h, CASE tok[h] \notin stored     -> "burn"
                 [] next[tok[h]] = NoToken   -> "check"
                 [] tok[h] \in recent        -> "regrant"
                 [] OTHER                    -> "burn")
    /\ UNCHANGED <<sessions, users, cookie, locals, handed, minted, blame, bounds>>

\* findOne by the hash of the token: what the row says decides.
FindSession(h) ==
    LET t == tok[h]
        rotated == next[t] # NoToken
    IN  /\ pc[h] = "find"
        /\ \/ /\ t \notin stored \/ t \in revoked \/ (rotated /\ t \notin recent)
              /\ Goto(h, "burn")
              /\ UNCHANGED <<locals, raced>>
           \/ /\ t \in stored \ revoked /\ rotated /\ t \in recent
              /\ Goto(h, "regrant")
              /\ UNCHANGED <<locals, raced>>
           \/ /\ t \in stored \ revoked /\ ~rotated /\ t \notin expired
              /\ Goto(h, "check")
              /\ UNCHANGED <<locals, raced>>
           \/ /\ t \in stored \ revoked /\ ~rotated /\ t \in expired
              /\ Ends(h)
              /\ raced' = raced \ {h}
        /\ UNCHANGED <<sessions, users, cookie, handed, minted, reused, excused, bounds>>

\* The read of the user, on the way to a rotation or to a grant within the grace.
CheckAccount(h) ==
    /\ pc[h] \in {"check", "regrant"}
    /\ Goto(h, CASE banned                         -> "drop"
                 [] ~banned /\ pc[h] = "check"     -> "insert"
                 [] OTHER                          -> "grant")
    /\ UNCHANGED <<sessions, users, cookie, locals, handed, minted, blame, bounds>>

\* Mutant: modifiedCount is not looked at.
LinkUnchecked(h) ==
    /\ pc[h] = "link"
    /\ IF tok[h] \in stored \ revoked /\ next[tok[h]] = NoToken
       THEN next' = [next EXCEPT ![tok[h]] = mint[h]] /\ recent' = recent \cup {tok[h]}
       ELSE UNCHANGED <<next, recent>>
    /\ Goto(h, "answer")
    /\ UNCHANGED <<stored, revoked, expired, family, users, cookie, locals, handed, minted,
                   blame, bounds>>

\* Mutant: the filter of the link does not ask for revokedAt.
LinkRevoked(h) ==
    /\ pc[h] = "link"
    /\ IF tok[h] \in stored /\ next[tok[h]] = NoToken
       THEN /\ next' = [next EXCEPT ![tok[h]] = mint[h]]
            /\ recent' = recent \cup {tok[h]}
            /\ Goto(h, "answer")
       ELSE Goto(h, "reread") /\ UNCHANGED <<next, recent>>
    /\ UNCHANGED <<stored, revoked, expired, family, users, cookie, locals, handed, minted,
                   blame, bounds>>

\* The compare-and-set that links the old row to the one just minted.
Link(h) ==
    LET t == tok[h] IN
    /\ pc[h] = "link"
    /\ \/ /\ t \in stored \ revoked /\ next[t] = NoToken
          /\ next'   = [next EXCEPT ![t] = mint[h]]
          /\ recent' = recent \cup {t}
          /\ Goto(h, "answer")
       \/ /\ t \notin stored \ revoked \/ next[t] # NoToken
          /\ Goto(h, "reread")
          /\ UNCHANGED <<next, recent>>
    /\ UNCHANGED <<stored, revoked, expired, family, users, cookie, locals, handed, minted,
                   blame, bounds>>

\* Mutant: the loser of the race takes it for a reuse.
RereadBurns(h) ==
    /\ pc[h] = "reread"
    /\ Goto(h, "burn")
    /\ mint' = [mint EXCEPT ![h] = NoToken]
    /\ UNCHANGED <<sessions, users, cookie, kind, dev, tok, pass, handed, minted, blame,
                   bounds>>

\* The loser of the race reads the row again; what it has minted is left an orphan.
Reread(h) ==
    LET t == tok[h]
        benign == t \in stored \ revoked /\ next[t] # NoToken /\ t \in recent
    IN  /\ pc[h] = "reread"
        /\ Goto(h, IF benign THEN "regrant" ELSE "burn")
        /\ mint' = [mint EXCEPT ![h] = NoToken]
        /\ UNCHANGED <<sessions, users, cookie, kind, dev, tok, pass, handed, minted, blame,
                       bounds>>

\* A reuse: revokeFamily, and 401.
Burn(h) ==
    /\ pc[h] = "burn"
    /\ RevokeRows(Members(family[tok[h]]), {h})
    /\ reused' = reused \cup {family[tok[h]]}
    /\ Ends(h)
    /\ UNCHANGED <<users, cookie, handed, minted, excused, bounds>>

(***************************************************************************)
(* Revocation                                                              *)
(***************************************************************************)

\* A logout or a revokeOtherSessions looks the row of its cookie up; an unknown one ends it.
Lookup(h) ==
    /\ pc[h] = "lookup"
    /\ \/ /\ tok[h] \in stored
          /\ Goto(h, IF kind[h] = "logout" THEN "drop" ELSE "spare")
          /\ UNCHANGED <<locals, raced>>
       \/ /\ tok[h] \notin stored /\ kind[h] = "logout"
          /\ Goto(h, "answer")
          /\ UNCHANGED <<locals, raced>>
       \/ /\ tok[h] \notin stored /\ kind[h] # "logout"
          /\ Ends(h)
          /\ raced' = raced \ {h}
    /\ UNCHANGED <<sessions, users, cookie, handed, minted, reused, excused, bounds>>

\* After the revocation a logout still has to answer.
Leaves(h) ==
    \/ kind[h] = "logout" /\ Goto(h, "answer") /\ UNCHANGED locals
    \/ kind[h] # "logout" /\ Ends(h)

\* Mutant: only the session of the cookie is revoked, not its family.
DropRow(h) ==
    /\ pc[h] = "drop"
    /\ RevokeRows({tok[h]} \cap stored, {h})
    /\ Excuses({family[tok[h]]})
    /\ Leaves(h)
    /\ UNCHANGED <<users, cookie, handed, minted, reused, bounds>>

\* revokeFamily by a logout, or by a refresh that found the account banned.
DropFamily(h) ==
    /\ pc[h] = "drop"
    /\ RevokeRows(Members(family[tok[h]]), {h})
    /\ Excuses({family[tok[h]]})
    /\ Leaves(h)
    /\ UNCHANGED <<users, cookie, handed, minted, reused, bounds>>

SpareOwnFamily(h) ==
    LET others == stored \ Members(family[tok[h]]) IN
    /\ pc[h] = "spare"
    /\ RevokeRows(others, {h})
    /\ Excuses(FamiliesOf(others))
    /\ Leaves(h)
    /\ UNCHANGED <<users, cookie, handed, minted, reused, bounds>>

RevokeAllSessions(h) ==
    /\ pc[h] = "revokeAll"
    /\ RevokeRows(stored, {h})
    /\ Excuses(FamiliesOf(stored))
    /\ Leaves(h)
    /\ UNCHANGED <<users, cookie, handed, minted, reused, bounds>>

\* DELETE /auth/sessions/:id of another login, and the force-logout of an admin.  Of
\* the own login it does what a logout does, the cleared cookie included.
RevokeSession ==
    /\ edits < MaxEdits
    /\ edits' = edits + 1
    /\ \E R \in {Members(family[t]) : t \in stored} \cup {stored} :
        /\ ~(R \subseteq revoked)
        /\ RevokeRows(R, {})
        /\ Excuses(FamiliesOf(R))
    /\ UNCHANGED <<users, cookie, pc, locals, handed, minted, reused, starts, faults>>

(***************************************************************************)
(* The password and the account                                            *)
(***************************************************************************)

VerifyCurrent(h) ==
    /\ pc[h] = "verify"
    /\ \/ pass[h] = secret /\ Goto(h, "write") /\ UNCHANGED <<locals, raced>>
       \/ pass[h] # secret /\ Ends(h) /\ raced' = raced \ {h}
    /\ UNCHANGED <<sessions, users, cookie, handed, minted, reused, excused, bounds>>

\* updatePasswordHash, which an erased account refuses.
WritePassword(h) ==
    /\ pc[h] = "write"
    /\ \/ /\ secret # Unusable
          /\ secret' = secret + 1
          /\ Goto(h, "revokeAll")
          /\ UNCHANGED <<locals, raced>>
       \/ /\ secret = Unusable
          /\ Ends(h)
          /\ raced' = raced \ {h}
          /\ UNCHANGED secret
    /\ UNCHANGED <<sessions, banned, cookie, handed, minted, reused, excused, bounds>>

SetBanned(h) ==
    /\ pc[h] = "flag"
    /\ banned' = TRUE
    /\ Goto(h, "revokeAll")
    /\ UNCHANGED <<sessions, secret, cookie, locals, handed, minted, blame, bounds>>

Unban ==
    /\ edits < MaxEdits
    /\ edits' = edits + 1
    /\ banned /\ banned' = FALSE
    /\ UNCHANGED <<sessions, secret, cookie, pc, locals, handed, minted, blame, starts, faults>>

\* anonymizeAccount: the tombstone first, the rows of the sessions after.
Tombstone(h) ==
    /\ pc[h] = "tombstone"
    /\ \/ /\ secret # Unusable
          /\ secret' = Unusable /\ banned' = TRUE
          /\ Goto(h, "delete")
          /\ UNCHANGED <<locals, raced>>
       \/ /\ secret = Unusable
          /\ Ends(h)
          /\ raced' = raced \ {h}
          /\ UNCHANGED users
    /\ UNCHANGED <<sessions, cookie, handed, minted, reused, excused, bounds>>

DeleteSessions(h) ==
    /\ pc[h] = "delete"
    /\ stored' = {}
    /\ Excuses(FamiliesOf(stored))
    /\ Ends(h)
    /\ raced' = raced \ {h}
    /\ UNCHANGED <<revoked, expired, family, next, recent, users, cookie, handed, minted,
                   reused, bounds>>

(***************************************************************************)
(* Responses, time and failures                                            *)
(***************************************************************************)

\* Mutant: every response carries a token.
RespondAlways(h) ==
    /\ pc[h] = "answer"
    /\ cookie' = [cookie EXCEPT ![dev[h]] = mint[h]]
    /\ handed' = handed \cup {mint[h]}
    /\ Ends(h)
    /\ raced' = raced \ {h}
    /\ UNCHANGED <<sessions, users, minted, reused, excused, bounds>>

\* The response sets the cookie to what was minted; that of a logout clears it.
Respond(h) ==
    /\ pc[h] = "answer"
    /\ cookie' = [cookie EXCEPT ![dev[h]] = mint[h]]
    /\ handed' = handed \cup ({mint[h]} \ {NoToken})
    /\ Ends(h)
    /\ raced' = raced \ {h}
    /\ UNCHANGED <<sessions, users, minted, reused, excused, bounds>>

\* The node dies, or the response is lost on its way.
Crash(h) ==
    /\ Busy(h)
    /\ faults < MaxFaults
    /\ faults' = faults + 1
    /\ Excuses(IF tok[h] = NoToken THEN {} ELSE {family[tok[h]]})
    /\ Ends(h)
    /\ raced' = raced \ {h}
    /\ UNCHANGED <<sessions, users, cookie, handed, minted, reused, starts, edits>>

\* Requests that presented t and have not come back.
Presenting(t) == {h \in Handlers : Busy(h) /\ tok[h] = t}

\* The grace window of a rotated row closes; a request that outlasts it was slow.
Age(t) ==
    /\ t \in recent
    /\ recent' = recent \ {t}
    /\ Excuses(IF Presenting(t) = {} THEN {} ELSE {family[t]})
    /\ UNCHANGED <<stored, revoked, expired, family, next, users, cookie, pc, locals,
                   handed, minted, raced, reused, bounds>>

\* A row outlives the rows it was minted for: all have the same time to live.
Expire(t) ==
    /\ edits < MaxEdits
    /\ edits' = edits + 1
    /\ t \in stored \ expired
    /\ parent[t] \in expired \cup {NoToken}
    /\ expired' = expired \cup {t}
    /\ UNCHANGED <<stored, revoked, family, next, recent, users, cookie, pc, locals,
                   handed, minted, blame, starts, faults>>

\* The TTL index removes the row.
Purge(t) ==
    /\ t \in stored \cap expired
    /\ stored' = stored \ {t}
    /\ Excuses(IF Presenting(t) = {} THEN {} ELSE {family[t]})
    /\ UNCHANGED <<revoked, expired, family, next, recent, users, cookie, pc, locals,
                   handed, minted, raced, reused, bounds>>

Arrival(h) ==
    \/ \E d \in Devices :
        \/ StartLogin(h, d) \/ StartRefresh(h, d) \/ StartLogout(h, d)
        \/ StartRevokeOthers(h, d) \/ StartChangePassword(h, d)
    \/ StartReset(h) \/ StartBan(h) \/ StartErase(h)

Step(h) ==
    \/ CheckCredentials(h) \/ Insert(h)
    \/ FindSession(h) \/ CheckAccount(h) \/ Link(h) \/ Reread(h) \/ Burn(h)
    \/ Lookup(h) \/ DropFamily(h) \/ SpareOwnFamily(h) \/ RevokeAllSessions(h)
    \/ VerifyCurrent(h) \/ WritePassword(h) \/ SetBanned(h)
    \/ Tombstone(h) \/ DeleteSessions(h)
    \/ Respond(h)

Next ==
    \/ \E h \in Handlers : Arrival(h) \/ Step(h) \/ Crash(h)
    \/ RevokeSession \/ Unban
    \/ \E t \in Tokens : Age(t) \/ Expire(t) \/ Purge(t)

Spec == Init /\ [][Next]_vars

(***************************************************************************)
(* Properties                                                              *)
(***************************************************************************)

\* Of two requests that rotate one token at the same time only the one that linked
\* its successor hands it out; the other's row stays an orphan no client holds.
HandedTokensAreLinked ==
    \A t \in handed : \/ parent[t] = NoToken
                      \/ t \in granted
                      \/ next[parent[t]] = t

\* A rotation never carries a session over its revocation: wherever between mint and
\* link a logout, a ban or a password change falls, the successor dies with its row.
SuccessorDiesToo ==
    \A t \in Tokens :
        next[t] \in stored \ revoked => t \notin revoked

\* Outside a rotation a row that lives on although the row it was minted for is
\* revoked comes from a request that the revocation overtook: a grace re-issue, or the
\* orphan of a race.  No request that begins after a revocation revives its family.
RevivedOnlyByRace ==
    \A t \in stored \ revoked : parent[t] \in revoked => t \in late

\* Two tabs, a reload, responses in any order: reuse detection never burns the family
\* of a browser that only presents its cookie, unless a response was lost, a request
\* outlasted the grace window or the family had been revoked already.
BenignNeverBurned == reused \subseteq excused

\* What changePassword and resetPassword say of themselves: once no request is in
\* flight, no session proved by an old password is left.
OldCredentialDies ==
    (\A h \in Handlers : ~Busy(h)) =>
        \A t \in Tokens : Live(t) => auth[t] = secret

\* Logins, rotations, re-issues and revocations together are what TokenFamilies promises:
\* revocations are of whole families, a token is handed out once, and a rotation
\* succeeds a live row with a token that nobody has seen.
Promise == INSTANCE TokenFamilies WITH
    Clients <- Devices, None <- NoToken,
    rows <- stored, dead <- revoked, heir <- next, reissued <- granted, given <- handed,
    jar <- cookie
FamilySpec == Promise!Spec
=============================================================================
