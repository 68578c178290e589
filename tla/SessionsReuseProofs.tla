-------------------------- MODULE SessionsReuseProofs --------------------------
(***************************************************************************)
(* Proof, for any requests, devices, tokens and bounds of Sessions, that   *)
(* reuse detection never burns the family of a browser that only presents  *)
(* its cookie.  It extends the invariant IInv of SessionsProofs.           *)
(***************************************************************************)
EXTENDS SessionsProofs

-----------------------------------------------------------------------------
(* The invariant *)

\* The family of t has been revoked otherwise than for a reuse, or one of its requests
\* was lost or slow: what BenignNeverBurned excepts.
Excused(t) == family[t] \in excused

\* A row that a refresh does not take for a reuse, unless it has been revoked.
Fit(t) == t \in stored /\ (next[t] = NoToken \/ t \in recent)

\* A free slot holds nothing.
IdleInv == \A h \in Handlers : pc[h] = "idle" => tok[h] = NoToken /\ kind[h] = "none"

RevokedInv == \A t \in revoked : Excused(t)

\* A refresh in flight presents a token that is fit.
PresentedInv == \A h \in Handlers : kind[h] = "refresh" =>
    tok[h] # NoToken /\ (Fit(tok[h]) \/ Excused(tok[h]))

\* The request that has linked t to its successor and has yet to answer with it.
Linker(h, t) == tok[h] = t /\ kind[h] = "refresh" /\ pc[h] = "answer"

\* A cookie has been rotated only if the response that replaces it is on its way.
CookieInv == \A d \in Devices : cookie[d] # NoToken =>
    /\ cookie[d] \in stored \cup expired \/ Excused(cookie[d])
    /\ next[cookie[d]] # NoToken =>
          Excused(cookie[d]) \/ \E h \in Handlers : Linker(h, cookie[d])

\* A token is of one device.
OwnInv ==
    /\ \A d, e \in Devices : cookie[d] # NoToken /\ cookie[d] = cookie[e] => d = e
    /\ \A h \in Handlers, d \in Devices : tok[h] # NoToken /\ tok[h] = cookie[d] => dev[h] = d

\* What a request has minted nobody else has seen.
SecretInv == \A h \in Handlers : mint[h] # NoToken =>
    /\ mint[h] \in stored \cup expired \/ Excused(mint[h])
    /\ next[mint[h]] = NoToken
    /\ \A d \in Devices : cookie[d] # mint[h]
    /\ \A g \in Handlers : tok[g] # mint[h] /\ (mint[g] = mint[h] => g = h)

\* The compare-and-set has failed for a reason that lasts.
RereadInv == \A h \in Handlers : pc[h] = "reread" =>
    tok[h] \notin stored \/ tok[h] \in revoked \/ next[tok[h]] # NoToken

\* A request goes on to burn a family only when that is excused.
BurnInv == \A h \in Handlers : pc[h] = "burn" => Excused(tok[h])

Extra == /\ IdleInv /\ RevokedInv /\ PresentedInv /\ CookieInv /\ OwnInv
         /\ SecretInv /\ RereadInv /\ BurnInv /\ BenignNeverBurned

RInv == IInv /\ Extra

-----------------------------------------------------------------------------
(* Steps that neither mint nor link nor set a cookie *)

\* Families and excuses are for good.
LEMMA ExcusedStays ==
    ASSUME Base, excused \subseteq excused',
           \A u \in Tokens : family[u] # NoToken => family'[u] = family[u]
    PROVE  \A u \in Tokens : Excused(u) => Excused(u)'
BY NullAssumption DEF Excused, Base, TypeOK, HistoryType

\* A request that keeps what it presented, at its await or at a later one.
Holds(g) ==
    /\ kind'[g] = kind[g] /\ tok'[g] = tok[g] /\ dev'[g] = dev[g]
    /\ mint'[g] \in {mint[g], NoToken}
    /\ pc[g] = "answer" => pc'[g] = "answer"
    /\ pc'[g] = "idle" => pc[g] = "idle"
    /\ pc'[g] = "reread" => pc[g] = "reread"
    /\ pc'[g] = "burn" => pc[g] = "burn" \/ Excused(tok[g])'

\* A request that ends before its answer, or whose loss is excused.
Quits(g) ==
    /\ pc'[g] = "idle" /\ kind'[g] = "none" /\ tok'[g] = NoToken /\ mint'[g] = NoToken
    /\ pc[g] = "answer" /\ kind[g] = "refresh" => family'[tok[g]] \in excused'

\* The token that a refresh presents, or a cookie or a request holds, is a token.
LEMMA HeldTokens ==
    ASSUME RInv
    PROVE  /\ \A g \in Handlers : tok[g] \in Tokens \cup {NoToken}
           /\ \A g \in Handlers : mint[g] \in Tokens \cup {NoToken}
           /\ \A d \in Devices : cookie[d] \in Tokens \cup {NoToken}
           /\ \A g \in Handlers : pc[g] \in {"reread", "burn"} => tok[g] # NoToken
           /\ \A g \in Handlers : pc[g] \in Refreshing => kind[g] = "refresh"
           /\ \A g \in Handlers : pc[g] = "idle" => mint[g] = NoToken
BY DEF RInv, IInv, Base, TypeOK, UserType, LocalsType, LocalInv, Presents, Refreshing

\* A step keeps Extra when it only takes away rows that are expired or excused, or that
\* no refresh presents.
LEMMA ExtraFrame ==
    ASSUME RInv, UNCHANGED <<family, next, cookie>>,
           stored' \subseteq stored, revoked \subseteq revoked', excused \subseteq excused',
           \A g \in Handlers : Holds(g) \/ Quits(g),
           \A u \in stored \cup expired : u \in stored' \cup expired' \/ Excused(u)',
           \A g \in Handlers : kind'[g] = "refresh" /\ Fit(tok[g])
                                   => Fit(tok[g])' \/ Excused(tok[g])',
           RevokedInv', BenignNeverBurned'
    PROVE  Extra'
<1>1. \A u \in Tokens : Excused(u) => Excused(u)'
  BY ExcusedStays DEF RInv, IInv
<1>2. IdleInv'
  BY DEF RInv, Extra, IdleInv, Holds, Quits
<1>3. PresentedInv'
  <2> SUFFICES ASSUME NEW g \in Handlers, kind'[g] = "refresh"
               PROVE  tok'[g] # NoToken /\ (Fit(tok[g])' \/ Excused(tok[g])')
    BY DEF PresentedInv
  <2>1. kind[g] = "refresh" /\ tok'[g] = tok[g]
    BY DEF Holds, Quits
  <2>2. tok[g] # NoToken /\ (Fit(tok[g]) \/ Excused(tok[g]))
    BY <2>1 DEF RInv, Extra, PresentedInv
  <2>3. Fit(tok[g])' \/ Excused(tok[g])'
    BY <1>1, <2>1, <2>2, HeldTokens DEF Excused
  <2> QED BY <2>1, <2>2, <2>3
<1>4. CookieInv'
  <2> SUFFICES ASSUME NEW d \in Devices, cookie[d] # NoToken
               PROVE  /\ cookie[d] \in stored' \cup expired' \/ Excused(cookie[d])'
                      /\ next[cookie[d]] # NoToken =>
                            \/ Excused(cookie[d])'
                            \/ \E h \in Handlers : Linker(h, cookie[d])'
    BY DEF CookieInv, Excused, Linker
  <2>1. cookie[d] \in Tokens
    BY HeldTokens
  <2>2. cookie[d] \in stored' \cup expired' \/ Excused(cookie[d])'
    BY <1>1, <2>1 DEF RInv, Extra, CookieInv
  <2>3. ASSUME NEW h \in Handlers, Linker(h, cookie[d])
        PROVE  Linker(h, cookie[d])' \/ Excused(cookie[d])'
    BY <2>3 DEF Linker, Holds, Quits, Excused
  <2>4. next[cookie[d]] # NoToken =>
            Excused(cookie[d])' \/ \E h \in Handlers : Linker(h, cookie[d])'
    BY <1>1, <2>1, <2>3 DEF RInv, Extra, CookieInv
  <2> QED BY <2>2, <2>4
<1>5. OwnInv'
  BY DEF RInv, Extra, OwnInv, Holds, Quits
<1>6. SecretInv'
  <2> SUFFICES ASSUME NEW h \in Handlers, mint'[h] # NoToken
               PROVE  /\ mint'[h] \in stored' \cup expired' \/ Excused(mint[h])'
                      /\ next'[mint'[h]] = NoToken
                      /\ \A d \in Devices : cookie'[d] # mint'[h]
                      /\ \A g \in Handlers : tok'[g] # mint'[h] /\ (mint'[g] = mint'[h] => g = h)
    BY DEF SecretInv
  <2>1. mint'[h] = mint[h]
    BY DEF Holds, Quits
  <2>2. /\ mint[h] \in stored \cup expired \/ Excused(mint[h])
        /\ next[mint[h]] = NoToken
        /\ \A d \in Devices : cookie[d] # mint[h]
        /\ \A g \in Handlers : tok[g] # mint[h] /\ (mint[g] = mint[h] => g = h)
    BY <2>1 DEF RInv, Extra, SecretInv
  <2>3. mint[h] \in stored' \cup expired' \/ Excused(mint[h])'
    BY <1>1, <2>1, <2>2, HeldTokens DEF Excused
  <2>4. \A g \in Handlers : tok'[g] # mint[h] /\ (mint'[g] = mint[h] => g = h)
    BY <2>1, <2>2 DEF Holds, Quits
  <2> QED BY <2>1, <2>2, <2>3, <2>4
<1>7. RereadInv'
  BY DEF RInv, Extra, RereadInv, Holds, Quits
<1>8. BurnInv'
  <2> SUFFICES ASSUME NEW g \in Handlers, pc'[g] = "burn" PROVE Excused(tok[g])'
    BY DEF BurnInv
  <2>1. Holds(g)
    BY DEF Quits
  <2> QED BY <1>1, <2>1, HeldTokens DEF Holds, RInv, Extra, BurnInv, Excused
<1> QED BY <1>2, <1>3, <1>4, <1>5, <1>6, <1>7, <1>8 DEF Extra

\* The slots of a step of h: others keep what they hold.
LEMMA OneEnds ==
    ASSUME RInv, NEW h \in Handlers, Ends(h),
           pc[h] = "answer" /\ kind[h] = "refresh" => family'[tok[h]] \in excused'
    PROVE  \A g \in Handlers : Holds(g) \/ Quits(g)
BY DEF Ends, Goto, Holds, Quits, RInv, IInv, Base, TypeOK, LocalsType

LEMMA OneMoves ==
    ASSUME RInv, NEW h \in Handlers, NEW a, Goto(h, a), UNCHANGED <<kind, tok, dev>>,
           \A g \in Handlers : mint'[g] \in {mint[g], NoToken},
           pc[h] # "answer", a \notin {"idle", "reread"},
           a = "burn" => Excused(tok[h])'
    PROVE  \A g \in Handlers : Holds(g)
BY DEF Goto, Holds, RInv, IInv, Base, TypeOK, LocalsType

LEMMA NoneMoves ==
    ASSUME UNCHANGED <<pc, locals>>
    PROVE  \A g \in Handlers : Holds(g)
BY DEF locals, Holds

-----------------------------------------------------------------------------
(* The actions *)

\* A refresh that takes its token for a reuse has lost a row that was excused: the read
\* of the row, and the second read of the loser of a race.
LEMMA ReuseIsExcused ==
    ASSUME RInv, NEW h \in Handlers, pc[h] \in {"find", "reread"},
           \/ tok[h] \notin stored \/ tok[h] \in revoked
           \/ next[tok[h]] # NoToken /\ tok[h] \notin recent
    PROVE  Excused(tok[h])
<1>1. Fit(tok[h]) \/ Excused(tok[h])
  BY HeldTokens DEF RInv, Extra, PresentedInv, Refreshing
<1>2. tok[h] \in revoked => Excused(tok[h])
  BY DEF RInv, Extra, RevokedInv
<1> QED BY <1>1, <1>2 DEF Fit

\* The quiet steps keep Extra.
LEMMA QuietExtra ==
    ASSUME RInv, NEW h \in Handlers, Quiet(h)
    PROVE  Extra'
<1>1. UNCHANGED <<sessions, cookie, handed, minted, reused, excused, bounds>>
  BY QuietFrame
<1>2. \A u : Excused(u)' <=> Excused(u)
  BY <1>1 DEF Excused, sessions
<1>4. pc[h] # "answer"
  BY DEF Quiet, CheckCredentials, FindSession, CheckAccount, Reread, Lookup, VerifyCurrent,
         WritePassword, SetBanned, Tombstone
<1>5. \A g \in Handlers : Holds(g) \/ Quits(g)
  <2>1. CASE FindSession(h)
    <3>1. CASE Ends(h) BY <3>1, <1>4, OneEnds
    <3>2. CASE Goto(h, "regrant") /\ UNCHANGED locals
      BY <3>2, <1>4, OneMoves DEF locals
    <3>3. CASE Goto(h, "check") /\ UNCHANGED locals
      BY <3>3, <1>4, OneMoves DEF locals
    <3>4. CASE /\ Goto(h, "burn") /\ UNCHANGED locals
               /\ \/ tok[h] \notin stored \/ tok[h] \in revoked
                  \/ next[tok[h]] # NoToken /\ tok[h] \notin recent
      <4>1. Excused(tok[h])'
        BY <2>1, <3>4, <1>2, ReuseIsExcused DEF FindSession, locals, Excused
      <4> QED BY <3>4, <4>1, <1>4, OneMoves DEF locals
    <3> QED BY <2>1, <3>1, <3>2, <3>3, <3>4 DEF FindSession
  <2>2. CASE Reread(h)
    <3>1. UNCHANGED <<kind, tok, dev>> /\ \A g \in Handlers : mint'[g] \in {mint[g], NoToken}
      BY <2>2 DEF Reread, RInv, IInv, Base, TypeOK, LocalsType
    <3>2. CASE Goto(h, "regrant") BY <3>1, <3>2, <1>4, OneMoves
    <3>3. CASE /\ Goto(h, "burn")
               /\ ~(tok[h] \in stored \ revoked /\ next[tok[h]] # NoToken /\ tok[h] \in recent)
      <4>1. tok[h] \notin stored \/ tok[h] \in revoked \/ next[tok[h]] # NoToken
        BY <2>2 DEF Reread, RInv, Extra, RereadInv
      <4>2. Excused(tok[h])'
        BY <2>2, <3>1, <3>3, <4>1, <1>2, ReuseIsExcused DEF Reread, Excused
      <4> QED BY <3>1, <3>3, <4>2, <1>4, OneMoves
    <3> QED BY <2>2, <3>2, <3>3 DEF Reread
  <2>3. CASE CheckCredentials(h) \/ CheckAccount(h) \/ Lookup(h) \/ VerifyCurrent(h)
             \/ WritePassword(h) \/ SetBanned(h) \/ Tombstone(h)
    <3>1. \/ Ends(h)
          \/ /\ UNCHANGED locals
             /\ \E a \in {"insert", "drop", "grant", "spare", "answer", "write", "revokeAll",
                          "delete"} : Goto(h, a)
      BY <2>3 DEF CheckCredentials, CheckAccount, Lookup, VerifyCurrent, WritePassword,
                  SetBanned, Tombstone
    <3>2. CASE Ends(h) BY <3>2, <1>4, OneEnds
    <3>3. ASSUME NEW a \in {"insert", "drop", "grant", "spare", "answer", "write",
                            "revokeAll", "delete"}, Goto(h, a), UNCHANGED locals
          PROVE  \A g \in Handlers : Holds(g)
      BY <3>3, <1>4, OneMoves DEF locals
    <3> QED BY <3>1, <3>2, <3>3
  <2> QED BY <2>1, <2>2, <2>3 DEF Quiet
<1>6. RevokedInv' /\ BenignNeverBurned'
  BY <1>1, <1>2 DEF RInv, Extra, RevokedInv, BenignNeverBurned, sessions
<1>7. \A g \in Handlers : kind'[g] = "refresh" /\ Fit(tok[g]) => Fit(tok[g])'
  BY <1>1, <1>5 DEF Fit, sessions, Holds, Quits
<1> QED BY <1>1, <1>5, <1>6, <1>7, ExtraFrame DEF sessions

\* A revocation keeps Extra: it excuses the families it revokes, or burns an excused one.
LEMMA RevokeExtra ==
    ASSUME RInv, NEW R \in SUBSET stored, NEW D, RevokeRows(R, D), cookie' = cookie,
           excused \subseteq excused', FamiliesOf(R) \subseteq excused',
           BenignNeverBurned', \A g \in Handlers : Holds(g) \/ Quits(g)
    PROVE  Extra'
<1>1. /\ UNCHANGED <<stored, expired, family, next, recent>>
      /\ revoked' = revoked \cup R
  BY DEF RevokeRows
<1>2. RevokedInv'
  BY <1>1 DEF RInv, Extra, RevokedInv, Excused, FamiliesOf
<1>3. \A g \in Handlers : kind'[g] = "refresh" /\ Fit(tok[g]) => Fit(tok[g])'
  BY <1>1 DEF Fit, Holds, Quits
<1> QED BY <1>1, <1>2, <1>3, ExtraFrame

\* The revocations by a request keep Extra.
LEMMA RevokesExtra ==
    ASSUME RInv, NEW h \in Handlers, NEW R, Revokes(h, R)
    PROVE  Extra'
<1>1. /\ RevokeRows(R, {h}) /\ cookie' = cookie
      /\ ((Goto(h, "answer") /\ UNCHANGED locals) \/ Ends(h))
  BY RevokeBase DEF RInv, IInv
<1>2. R \subseteq stored /\ pc[h] # "answer"
  BY DEF Revokes, Members
<1>3. \A g \in Handlers : Holds(g) \/ Quits(g)
  <2>1. CASE Ends(h) BY <2>1, <1>2, OneEnds
  <2>2. CASE Goto(h, "answer") /\ UNCHANGED locals
    BY <2>2, <1>2, OneMoves DEF locals
  <2> QED BY <1>1, <2>1, <2>2
<1>4. /\ excused \subseteq excused' /\ FamiliesOf(R) \subseteq excused'
      /\ BenignNeverBurned'
  <2>1. CASE pc[h] = "burn" /\ Burn(h) /\ R = Members(family[tok[h]])
    <3>1. family[tok[h]] \in excused
      BY <2>1 DEF RInv, Extra, BurnInv, Excused
    <3> QED
      BY <2>1, <3>1 DEF Burn, RInv, Extra, BenignNeverBurned, FamiliesOf, Members
  <2>2. CASE pc[h] = "drop" /\ DropFamily(h) /\ R = Members(family[tok[h]])
    BY <2>2 DEF DropFamily, Excuses, RInv, Extra, BenignNeverBurned, FamiliesOf, Members
  <2>3. CASE pc[h] = "spare" /\ SpareOwnFamily(h) /\ R = stored \ Members(family[tok[h]])
    BY <2>3 DEF SpareOwnFamily, Excuses, RInv, Extra, BenignNeverBurned
  <2>4. CASE pc[h] = "revokeAll" /\ RevokeAllSessions(h) /\ R = stored
    BY <2>4 DEF RevokeAllSessions, Excuses, RInv, Extra, BenignNeverBurned
  <2> QED BY <2>1, <2>2, <2>3, <2>4 DEF Revokes
<1> QED BY <1>1, <1>2, <1>3, <1>4, RevokeExtra

\* So does the revocation of one login, or of all, from elsewhere.
LEMMA RevokeSessionExtra ==
    ASSUME RInv, RevokeSession
    PROVE  Extra'
<1>1. PICK R \in {Members(family[t]) : t \in stored} \cup {stored} :
        RevokeRows(R, {}) /\ Excuses(FamiliesOf(R))
  BY DEF RevokeSession
<1>2. R \subseteq stored /\ UNCHANGED <<cookie, pc, locals, reused>>
  BY DEF RevokeSession, Members
<1>3. /\ excused \subseteq excused' /\ FamiliesOf(R) \subseteq excused'
      /\ BenignNeverBurned'
  BY <1>1, <1>2 DEF Excuses, RInv, Extra, BenignNeverBurned
<1> QED BY <1>1, <1>2, <1>3, NoneMoves, RevokeExtra

\* A row that ages or goes while a request presents it excuses its family.
LEMMA PresentedIsExcused ==
    ASSUME RInv, NEW g \in Handlers, kind[g] = "refresh"
    PROVE  g \in Presenting(tok[g])
BY DEF RInv, Extra, IdleInv, Presenting, Busy

\* Deletions, crashes and time keep Extra.
LEMMA ApartExtra ==
    ASSUME RInv, Apart
    PROVE  Extra'
<1>1. /\ stored' \subseteq stored
      /\ UNCHANGED <<revoked, family, next, cookie, handed, minted, reused>>
  BY ApartFrame
<1>2. excused \subseteq excused'
  BY DEF Apart, DeleteSessions, Crash, Unban, Age, Expire, Purge, Excuses, blame
<1>3. RevokedInv' /\ BenignNeverBurned'
  BY <1>1, <1>2 DEF RInv, Extra, RevokedInv, BenignNeverBurned, Excused
<1>4. \A g \in Handlers : Holds(g) \/ Quits(g)
  <2>1. ASSUME NEW h \in Handlers, DeleteSessions(h) PROVE \A g \in Handlers : Holds(g) \/ Quits(g)
    BY <2>1, OneEnds DEF DeleteSessions
  <2>2. ASSUME NEW h \in Handlers, Crash(h) PROVE \A g \in Handlers : Holds(g) \/ Quits(g)
    <3>1. kind[h] = "refresh" => family'[tok[h]] \in excused'
      BY <2>2, <1>1 DEF Crash, Excuses, RInv, Extra, PresentedInv
    <3> QED BY <2>2, <3>1, OneEnds DEF Crash
  <2>3. CASE Unban \/ \E t \in Tokens : Age(t) \/ Expire(t) \/ Purge(t)
    BY <2>3, NoneMoves DEF Unban, Age, Expire, Purge
  <2> QED BY <2>1, <2>2, <2>3 DEF Apart
<1>5. \A u \in stored \cup expired : u \in stored' \cup expired' \/ Excused(u)'
  <2>1. ASSUME NEW h \in Handlers, DeleteSessions(h)
        PROVE  \A u \in stored \cup expired : u \in expired' \/ Excused(u)'
    BY <2>1 DEF DeleteSessions, Excuses, Excused, FamiliesOf
  <2>2. ASSUME NEW h \in Handlers, Crash(h)
        PROVE  stored' = stored /\ expired' = expired
    BY <2>2 DEF Crash, sessions
  <2>3. CASE Unban BY <2>3 DEF Unban, sessions
  <2>4. ASSUME NEW t \in Tokens, Age(t) \/ Expire(t) \/ Purge(t)
        PROVE  stored \cup expired \subseteq stored' \cup expired'
    BY <2>4 DEF Age, Expire, Purge
  <2> QED BY <2>1, <2>2, <2>3, <2>4 DEF Apart
<1>6. ASSUME NEW g \in Handlers, kind'[g] = "refresh", Fit(tok[g])
      PROVE  Fit(tok[g])' \/ Excused(tok[g])'
  <2>0. kind[g] = "refresh" /\ tok'[g] = tok[g]
    BY <1>4, <1>6 DEF Holds, Quits
  <2>1. ASSUME NEW h \in Handlers, DeleteSessions(h) PROVE Excused(tok[g])'
    BY <2>0, <2>1, <1>6 DEF DeleteSessions, Excuses, Excused, FamiliesOf, Fit
  <2>2. ASSUME NEW h \in Handlers, Crash(h) PROVE Fit(tok[g])'
    BY <2>0, <2>2, <1>6 DEF Crash, Fit, sessions
  <2>3. CASE Unban
    BY <2>0, <2>3, <1>6 DEF Unban, Fit, sessions
  <2>4. ASSUME NEW t \in Tokens, Expire(t) PROVE Fit(tok[g])'
    BY <2>0, <2>4, <1>6 DEF Expire, Fit
  <2>5. ASSUME NEW t \in Tokens, Age(t) \/ Purge(t)
        PROVE  Fit(tok[g])' \/ Excused(tok[g])'
    <3>1. CASE tok[g] = t
      BY <2>0, <2>5, <3>1, PresentedIsExcused DEF Age, Purge, Excuses, Excused
    <3>2. CASE tok[g] # t
      BY <2>0, <2>5, <3>2, <1>6 DEF Age, Purge, Fit
    <3> QED BY <3>1, <3>2
  <2> QED BY <2>1, <2>2, <2>3, <2>4, <2>5 DEF Apart
<1> QED BY <1>1, <1>2, <1>3, <1>4, <1>5, <1>6, ExtraFrame

\* A request that arrives keeps Extra: the cookie of its device is fit, or its family is
\* excused.
LEMMA ArrivalExtra ==
    ASSUME RInv, NEW h \in Handlers, Arrival(h)
    PROVE  Extra'
<1>1. PICK k \in Kinds, d \in Devices \cup {NoDevice}, t \in Tokens \cup {NoToken},
           a \in Await \ {"idle", "reread", "burn", "answer"} :
        /\ Starts(h, k, d, t, a)
        /\ t # NoToken => d \in Devices /\ t = cookie[d]
        /\ k = "refresh" => t \notin expired \cup {NoToken}
  <2>1. \A d \in Devices : cookie[d] \in Tokens \cup {NoToken}
    BY HeldTokens
  <2>2. ASSUME NEW d \in Devices, StartLogin(h, d)
        PROVE  Starts(h, "login", d, NoToken, "user")
    BY <2>2 DEF StartLogin
  <2>3. ASSUME NEW d \in Devices, StartRefresh(h, d)
        PROVE  Starts(h, "refresh", d, cookie[d], "find") /\ cookie[d] \notin expired \cup {NoToken}
    BY <2>3 DEF StartRefresh
  <2>4. ASSUME NEW d \in Devices, StartLogout(h, d)
        PROVE  \E a \in {"revokeAll", "lookup"} : Starts(h, "logout", d, cookie[d], a)
    BY <2>4 DEF StartLogout
  <2>5. ASSUME NEW d \in Devices, StartRevokeOthers(h, d)
        PROVE  \E a \in {"revokeAll", "lookup"} : Starts(h, "others", d, cookie[d], a)
    BY <2>5 DEF StartRevokeOthers
  <2>6. ASSUME NEW d \in Devices, StartChangePassword(h, d)
        PROVE  Starts(h, "change", d, NoToken, "verify")
    BY <2>6 DEF StartChangePassword
  <2>7. CASE StartReset(h) \/ StartBan(h) \/ StartErase(h)
    <3>1. \E k \in {"reset", "ban", "erase"}, a \in {"write", "flag", "tombstone"} :
             Starts(h, k, NoDevice, NoToken, a)
      BY <2>7 DEF StartReset, StartBan, StartErase
    <3> QED BY <3>1 DEF Kinds, Await
  <2> QED
    BY <2>1, <2>2, <2>3, <2>4, <2>5, <2>6, <2>7 DEF Arrival, Kinds, Await
<1>2. /\ UNCHANGED <<stored, revoked, expired, family, next, recent, cookie, mint, reused,
                     excused>>
      /\ pc[h] = "idle" /\ pc'[h] = a /\ kind'[h] = k /\ dev'[h] = d /\ tok'[h] = t
      /\ \A g \in Handlers \ {h} : pc'[g] = pc[g] /\ kind'[g] = kind[g]
                                   /\ dev'[g] = dev[g] /\ tok'[g] = tok[g]
  BY <1>1 DEF Starts, Goto, Busy, sessions, blame, RInv, IInv, Base, TypeOK, LocalsType
<1>3. \A u : (Excused(u)' <=> Excused(u)) /\ (Fit(u)' <=> Fit(u))
  BY <1>2 DEF Excused, Fit
<1>4. IdleInv' /\ RevokedInv' /\ BenignNeverBurned'
  BY <1>2, <1>3 DEF RInv, Extra, IdleInv, RevokedInv, BenignNeverBurned
<1>5. PresentedInv'
  <2> SUFFICES ASSUME NEW g \in Handlers, kind'[g] = "refresh"
               PROVE  tok'[g] # NoToken /\ (Fit(tok'[g]) \/ Excused(tok'[g]))
    BY <1>3 DEF PresentedInv, Fit, Excused
  <2>1. CASE g # h BY <2>1, <1>2 DEF RInv, Extra, PresentedInv
  <2>2. CASE g = h
    <3>1. d \in Devices /\ t = cookie[d] /\ t \notin expired /\ t # NoToken /\ tok'[g] = t
      BY <2>2, <1>1, <1>2
    <3>2. t \in stored \/ Excused(t)
      BY <3>1 DEF RInv, Extra, CookieInv
    <3>3. ASSUME NEW f \in Handlers, Linker(f, t) PROVE Fit(t) \/ Excused(t)
      BY <3>3 DEF Linker, RInv, Extra, PresentedInv
    <3>4. next[t] # NoToken => Fit(t) \/ Excused(t)
      BY <3>1, <3>3 DEF RInv, Extra, CookieInv
    <3> QED BY <3>1, <3>2, <3>4 DEF Fit
  <2> QED BY <2>1, <2>2
<1>6. CookieInv'
  <2>1. \A g \in Handlers, u \in Tokens : Linker(g, u) => Linker(g, u)'
    BY <1>2 DEF Linker
  <2> QED BY <1>2, <1>3, <2>1, HeldTokens DEF RInv, Extra, CookieInv, Excused, Linker
<1>7. OwnInv'
  BY <1>1, <1>2 DEF RInv, Extra, OwnInv
<1>8. SecretInv'
  <2>1. \A g \in Handlers : mint[g] # NoToken => tok'[h] # mint[g]
    BY <1>1, <1>2 DEF RInv, Extra, SecretInv
  <2> QED BY <1>2, <1>3, <2>1 DEF RInv, Extra, SecretInv, Excused
<1>9. RereadInv'
  BY <1>2 DEF RInv, Extra, RereadInv
<1>10. BurnInv'
  BY <1>2 DEF RInv, Extra, BurnInv, Excused
<1> QED BY <1>4, <1>5, <1>6, <1>7, <1>8, <1>9, <1>10 DEF Extra

\* issueSession keeps Extra: nobody knows the new token.
LEMMA InsertExtra ==
    ASSUME RInv, NEW h \in Handlers, Insert(h)
    PROVE  Extra'
<1>1. PICK t \in Tokens :
        /\ Fresh(t)
        /\ stored' = stored \cup {t}
        /\ family' = [family EXCEPT ![t] = IF kind[h] = "login" THEN t ELSE family[tok[h]]]
        /\ mint'   = [mint   EXCEPT ![h] = t]
  BY DEF Insert
<1>2. /\ pc[h] \in {"insert", "grant"} /\ pc'[h] \in {"link", "answer"}
      /\ \A g \in Handlers \ {h} : pc'[g] = pc[g] /\ mint'[g] = mint[g]
      /\ mint'[h] = t
      /\ UNCHANGED <<revoked, expired, next, recent, cookie, kind, dev, tok, reused, excused>>
  BY <1>1 DEF Insert, Goto, blame, RInv, IInv, Base, TypeOK, LocalsType
<1>3. /\ t \notin stored /\ t # NoToken /\ next[t] = NoToken /\ t \notin revoked
      /\ \A g \in Handlers : tok[g] # t /\ mint[g] # t
      /\ \A d \in Devices : cookie[d] # t
  <2>1. t \notin stored /\ family[t] = NoToken
    BY <1>1 DEF Fresh
  <2>2. ~Excused(t)
    BY <2>1, NullAssumption DEF Excused, RInv, IInv, Base, TypeOK, HistoryType
  <2> QED
    BY <2>1, <2>2, NullAssumption DEF RInv, IInv, Base, FamilyInv, Extra, RevokedInv
<1>4. \A u \in Tokens : Excused(u) => Excused(u)'
  <2>1. \A u \in Tokens : family[u] # NoToken => family'[u] = family[u]
    BY <1>1 DEF Fresh, RInv, IInv, Base, TypeOK, SessionType
  <2> QED BY <1>2, <2>1, ExcusedStays DEF RInv, IInv
<1>5. \A u : Fit(u) => Fit(u)'
  BY <1>1, <1>2 DEF Fit
<1>6. IdleInv' /\ BenignNeverBurned'
  BY <1>2 DEF RInv, Extra, IdleInv, BenignNeverBurned
<1>7. RevokedInv'
  BY <1>2, <1>4 DEF RInv, Extra, RevokedInv, Excused, IInv, Base, TypeOK, SessionType
<1>8. PresentedInv'
  <2> SUFFICES ASSUME NEW g \in Handlers, kind[g] = "refresh"
               PROVE  tok[g] # NoToken /\ (Fit(tok[g])' \/ Excused(tok[g])')
    BY <1>2 DEF PresentedInv, Fit, Excused
  <2> QED BY <1>2, <1>4, <1>5, HeldTokens DEF RInv, Extra, PresentedInv, Fit, Excused
<1>9. CookieInv'
  <2> SUFFICES ASSUME NEW d \in Devices, cookie[d] # NoToken
               PROVE  /\ cookie[d] \in stored' \cup expired' \/ Excused(cookie[d])'
                      /\ next[cookie[d]] # NoToken =>
                            \/ Excused(cookie[d])'
                            \/ \E g \in Handlers : Linker(g, cookie[d])'
    BY <1>2 DEF CookieInv, Excused, Linker
  <2>1. cookie[d] \in Tokens
    BY HeldTokens
  <2>2. \A g \in Handlers : Linker(g, cookie[d]) => Linker(g, cookie[d])'
    BY <1>2 DEF Linker
  <2> QED BY <1>1, <1>2, <1>4, <2>1, <2>2 DEF RInv, Extra, CookieInv
<1>10. OwnInv'
  BY <1>2 DEF RInv, Extra, OwnInv
<1>11. SecretInv'
  <2> SUFFICES ASSUME NEW f \in Handlers, mint'[f] # NoToken
               PROVE  /\ mint'[f] \in stored' \cup expired' \/ Excused(mint[f])'
                      /\ next[mint'[f]] = NoToken
                      /\ \A d \in Devices : cookie[d] # mint'[f]
                      /\ \A g \in Handlers : tok[g] # mint'[f] /\ (mint'[g] = mint'[f] => g = f)
    BY <1>2 DEF SecretInv
  <2>1. CASE f = h BY <2>1, <1>1, <1>2, <1>3
  <2>2. CASE f # h
    <3>1. mint'[f] = mint[f]
      BY <2>2, <1>2
    <3>2. mint[f] \in stored' \cup expired' \/ Excused(mint[f])'
      BY <3>1, <1>1, <1>2, <1>4, HeldTokens DEF RInv, Extra, SecretInv, Excused
    <3>3. \A g \in Handlers : mint'[g] = mint[f] => g = f
      BY <2>2, <3>1, <1>2, <1>3 DEF RInv, Extra, SecretInv
    <3> QED BY <3>1, <3>2, <3>3 DEF RInv, Extra, SecretInv
  <2> QED BY <2>1, <2>2
<1>12. RereadInv'
  BY <1>1, <1>2, <1>3 DEF RInv, Extra, RereadInv
<1>13. BurnInv'
  <2> SUFFICES ASSUME NEW g \in Handlers, pc'[g] = "burn" PROVE Excused(tok[g])'
    BY <1>2 DEF BurnInv, Excused
  <2>1. pc[g] = "burn"
    BY <1>2
  <2> QED BY <1>2, <2>1, <1>4, HeldTokens DEF RInv, Extra, BurnInv, Excused
<1> QED
  BY <1>6, <1>7, <1>8, <1>9, <1>10, <1>11, <1>12, <1>13 DEF Extra

\* The link keeps Extra: the request that rotates a cookie is the one to replace it.
LEMMA LinkExtra ==
    ASSUME RInv, NEW h \in Handlers, Link(h)
    PROVE  Extra'
<1>1. /\ pc[h] = "link" /\ kind[h] = "refresh" /\ pc'[h] \in {"answer", "reread"}
      /\ tok[h] \in Tokens /\ mint[h] \in Tokens
      /\ UNCHANGED <<stored, revoked, expired, family, cookie, kind, dev, tok, mint, reused,
                     excused>>
      /\ \A g \in Handlers \ {h} : pc'[g] = pc[g]
  BY DEF Link, Goto, locals, blame, RInv, IInv, Base, TypeOK, LocalsType, LocalInv, Presents,
         Refreshing
<1>2. \/ /\ pc'[h] = "reread" /\ next' = next /\ recent' = recent
         /\ tok[h] \notin stored \/ tok[h] \in revoked \/ next[tok[h]] # NoToken
      \/ /\ pc'[h] = "answer" /\ tok[h] \in stored
         /\ next' = [next EXCEPT ![tok[h]] = mint[h]]
         /\ recent' = recent \cup {tok[h]}
  BY DEF Link, Goto, RInv, IInv, Base, TypeOK, LocalsType
<1>3. /\ \A u \in Tokens : next[u] # NoToken => next'[u] # NoToken
      /\ \A u \in Tokens \ {tok[h]} : next'[u] = next[u]
      /\ recent \subseteq recent'
  BY <1>1, <1>2, NullAssumption DEF RInv, IInv, Base, TypeOK, SessionType
<1>4. \A u : Excused(u)' <=> Excused(u)
  BY <1>1 DEF Excused
<1>5. \A u \in Tokens : Fit(u) => Fit(u)'
  BY <1>1, <1>2, <1>3 DEF Fit
<1>6. IdleInv' /\ RevokedInv' /\ OwnInv' /\ BenignNeverBurned'
  BY <1>1, <1>4 DEF RInv, Extra, IdleInv, RevokedInv, OwnInv, BenignNeverBurned
<1>7. PresentedInv'
  <2> SUFFICES ASSUME NEW g \in Handlers, kind[g] = "refresh"
               PROVE  tok[g] # NoToken /\ (Fit(tok[g])' \/ Excused(tok[g])')
    BY <1>1 DEF PresentedInv, Fit, Excused
  <2> QED BY <1>1, <1>4, <1>5, HeldTokens DEF RInv, Extra, PresentedInv, Fit, Excused
<1>8. CookieInv'
  <2> SUFFICES ASSUME NEW d \in Devices, cookie[d] # NoToken
               PROVE  /\ cookie[d] \in stored \cup expired \/ Excused(cookie[d])
                      /\ next'[cookie[d]] # NoToken =>
                            Excused(cookie[d]) \/ \E g \in Handlers : Linker(g, cookie[d])'
    BY <1>1, <1>4 DEF CookieInv, Excused, Linker
  <2>1. cookie[d] \in Tokens /\ (cookie[d] \in stored \cup expired \/ Excused(cookie[d]))
    BY HeldTokens DEF RInv, Extra, CookieInv
  <2>2. \A g \in Handlers : Linker(g, cookie[d]) => Linker(g, cookie[d])'
    BY <1>1 DEF Linker
  <2>3. CASE cookie[d] = tok[h] /\ pc'[h] = "answer"
    BY <2>1, <2>3, <1>1 DEF Linker
  <2>4. CASE ~(cookie[d] = tok[h] /\ pc'[h] = "answer")
    BY <2>1, <2>2, <2>4, <1>2, <1>3 DEF RInv, Extra, CookieInv
  <2> QED BY <2>3, <2>4
<1>9. SecretInv'
  <2>1. \A g \in Handlers : mint[g] # NoToken => mint[g] \in Tokens /\ mint[g] # tok[h]
    BY HeldTokens DEF RInv, Extra, SecretInv
  <2> QED BY <1>1, <1>3, <1>4, <2>1 DEF RInv, Extra, SecretInv, Excused
<1>10. RereadInv'
  <2> SUFFICES ASSUME NEW g \in Handlers, pc'[g] = "reread"
               PROVE  tok[g] \notin stored \/ tok[g] \in revoked \/ next'[tok[g]] # NoToken
    BY <1>1 DEF RereadInv
  <2>1. CASE g = h BY <2>1, <1>2
  <2>2. CASE g # h
    BY <2>2, <1>1, <1>3, HeldTokens DEF RInv, Extra, RereadInv
  <2> QED BY <2>1, <2>2
<1>11. BurnInv'
  BY <1>1, <1>4 DEF RInv, Extra, BurnInv, Excused
<1> QED BY <1>6, <1>7, <1>8, <1>9, <1>10, <1>11 DEF Extra

\* A response keeps Extra: it gives the device a token that nobody else has.
LEMMA RespondExtra ==
    ASSUME RInv, NEW h \in Handlers, Respond(h)
    PROVE  Extra'
<1>1. /\ UNCHANGED <<stored, revoked, expired, family, next, recent, reused, excused>>
      /\ pc'[h] = "idle" /\ kind'[h] = "none" /\ tok'[h] = NoToken /\ mint'[h] = NoToken
      /\ \A g \in Handlers \ {h} : /\ pc'[g] = pc[g] /\ kind'[g] = kind[g] /\ dev'[g] = dev[g]
                                   /\ tok'[g] = tok[g] /\ mint'[g] = mint[g]
      /\ \A d \in Devices : cookie'[d] = IF d = dev[h] THEN mint[h] ELSE cookie[d]
  BY DEF Respond, Ends, Goto, sessions, RInv, IInv, Base, TypeOK, UserType, LocalsType
<1>2. \A u : (Excused(u)' <=> Excused(u)) /\ (Fit(u)' <=> Fit(u))
  BY <1>1 DEF Excused, Fit
<1>3. IdleInv' /\ RevokedInv' /\ BenignNeverBurned'
  BY <1>1, <1>2 DEF RInv, Extra, IdleInv, RevokedInv, BenignNeverBurned
<1>4. PresentedInv'
  BY <1>1, <1>2 DEF RInv, Extra, PresentedInv, Fit, Excused
<1>5. mint[h] # NoToken =>
        /\ mint[h] \in stored \cup expired \/ Excused(mint[h])
        /\ next[mint[h]] = NoToken
        /\ \A d \in Devices : cookie[d] # mint[h]
        /\ \A g \in Handlers : tok[g] # mint[h] /\ (mint[g] = mint[h] => g = h)
  BY DEF RInv, Extra, SecretInv
<1>6. CookieInv'
  <2> SUFFICES ASSUME NEW d \in Devices, cookie'[d] # NoToken
               PROVE  /\ cookie'[d] \in stored \cup expired \/ Excused(cookie'[d])
                      /\ next[cookie'[d]] # NoToken =>
                            \/ Excused(cookie'[d])
                            \/ \E g \in Handlers : Linker(g, cookie[d])' /\ cookie'[d] = cookie[d]
    BY <1>1, <1>2 DEF CookieInv, Excused, Linker
  <2>1. CASE d = dev[h] BY <2>1, <1>1, <1>5
  <2>2. CASE d # dev[h]
    <3>1. cookie'[d] = cookie[d]
      BY <2>2, <1>1
    <3>2. ASSUME NEW g \in Handlers, Linker(g, cookie[d])
          PROVE  tok'[g] = cookie[d] /\ kind'[g] = "refresh" /\ pc'[g] = "answer"
      <4>1. g # h
        BY <2>2, <3>1, <3>2 DEF Linker, RInv, Extra, OwnInv
      <4> QED BY <4>1, <3>2, <1>1 DEF Linker
    <3>3. ASSUME NEW g \in Handlers, Linker(g, cookie[d]) PROVE Linker(g, cookie[d])'
      BY <3>1, <3>2, <3>3 DEF Linker
    <3> QED BY <3>1, <3>3 DEF RInv, Extra, CookieInv
  <2> QED BY <2>1, <2>2
<1>7. OwnInv'
  <2>1. \A d, e \in Devices : cookie'[d] # NoToken /\ cookie'[d] = cookie'[e] => d = e
    BY <1>1, <1>5 DEF RInv, Extra, OwnInv
  <2>2. ASSUME NEW g \in Handlers, NEW d \in Devices, tok'[g] # NoToken, tok'[g] = cookie'[d]
        PROVE  dev'[g] = d
    BY <2>2, <1>1, <1>5 DEF RInv, Extra, OwnInv
  <2> QED BY <2>1, <2>2 DEF OwnInv
<1>8. SecretInv'
  <2> SUFFICES ASSUME NEW f \in Handlers, f # h, mint[f] # NoToken
               PROVE  /\ mint[f] \in stored \cup expired \/ Excused(mint[f])
                      /\ next[mint[f]] = NoToken
                      /\ \A d \in Devices : cookie'[d] # mint[f]
                      /\ \A g \in Handlers : tok'[g] # mint[f] /\ (mint'[g] = mint[f] => g = f)
    BY <1>1, <1>2 DEF SecretInv, Excused
  <2>1. /\ mint[f] \in stored \cup expired \/ Excused(mint[f])
        /\ next[mint[f]] = NoToken
        /\ \A d \in Devices : cookie[d] # mint[f]
        /\ \A g \in Handlers : tok[g] # mint[f] /\ (mint[g] = mint[f] => g = f)
    BY DEF RInv, Extra, SecretInv
  <2>2. mint[h] # mint[f]
    BY <2>1
  <2> QED BY <1>1, <2>1, <2>2
<1>9. RereadInv' /\ BurnInv'
  BY <1>1, <1>2 DEF RInv, Extra, RereadInv, BurnInv, Excused
<1> QED BY <1>3, <1>4, <1>6, <1>7, <1>8, <1>9 DEF Extra

-----------------------------------------------------------------------------
(* The theorem *)

\* An account without sessions satisfies the invariant.
LEMMA ReuseInit == Init => RInv
<1> SUFFICES ASSUME Init PROVE RInv
  OBVIOUS
<1>1. Extra
  BY DEF Init, Extra, IdleInv, RevokedInv, PresentedInv, CookieInv, OwnInv, SecretInv,
         RereadInv, BurnInv, BenignNeverBurned
<1> QED BY <1>1, InvInit DEF RInv

\* Every step keeps the invariant.
LEMMA ReuseNext == RInv /\ [Next]_vars => RInv'
<1> SUFFICES ASSUME RInv, [Next]_vars PROVE RInv'
  OBVIOUS
<1>1. IInv'
  BY InvNext DEF RInv
<1>2. CASE UNCHANGED vars
  <2>1. UNCHANGED <<pc, locals, sessions, cookie, reused, excused>>
    BY <1>2 DEF vars, blame
  <2>2. RevokedInv' /\ BenignNeverBurned'
    BY <2>1 DEF sessions, RInv, Extra, RevokedInv, BenignNeverBurned, Excused
  <2>3. \A g \in Handlers : Fit(tok[g]) => Fit(tok[g])'
    BY <2>1 DEF sessions, locals, Fit
  <2>4. Extra'
    BY <2>1, <2>2, <2>3, NoneMoves, ExtraFrame DEF sessions
  <2> QED BY <1>1, <2>4 DEF RInv
<1>3. CASE Next
  <2>1. ASSUME NEW h \in Handlers, Step(h) PROVE Extra'
    <3>1. CASE Quiet(h) BY <3>1, QuietExtra
    <3>2. CASE Insert(h) BY <3>2, InsertExtra
    <3>3. CASE Link(h) BY <3>3, LinkExtra
    <3>4. CASE Burn(h) \/ DropFamily(h) \/ SpareOwnFamily(h) \/ RevokeAllSessions(h)
      <4>1. \E R : Revokes(h, R)
        BY <3>4 DEF Burn, DropFamily, SpareOwnFamily, RevokeAllSessions, Revokes
      <4> QED BY <4>1, RevokesExtra
    <3>5. CASE DeleteSessions(h) BY <3>5, ApartExtra DEF Apart
    <3>6. CASE Respond(h) BY <3>6, RespondExtra
    <3> QED BY <2>1, <3>1, <3>2, <3>3, <3>4, <3>5, <3>6 DEF Step, Quiet
  <2>2. ASSUME NEW h \in Handlers, Arrival(h) PROVE Extra'
    BY <2>2, ArrivalExtra
  <2>3. RevokeSession => Extra'
    BY RevokeSessionExtra
  <2>4. Apart => Extra'
    BY ApartExtra
  <2> QED BY <1>1, <1>3, <2>1, <2>2, <2>3, <2>4 DEF Next, Apart, RInv
<1> QED BY <1>2, <1>3 DEF RInv

\* A browser that only presents its cookie never has its family burnt for a reuse by
\* AuthService, whatever its tabs do at the same time, unless a response was lost, a
\* request outlasted the grace window or the family had been revoked already.
THEOREM BrowsersNeverBurn == Spec => []BenignNeverBurned
<1>1. RInv => BenignNeverBurned
  BY DEF RInv, Extra
<1>2. Spec => []RInv
  BY ReuseInit, ReuseNext, PTL DEF Spec
<1> QED BY <1>1, <1>2, PTL

-----------------------------------------------------------------------------
(* What requests hold, as TokenFamilies sees it *)

\* Revoked and re-issued rows have been minted.
KnownInv == \A t \in revoked \cup granted : family[t] # NoToken

Answers == {"login", "refresh", "logout"}

\* A request keeps what it has minted to itself; what it is about to link can have been
\* revoked only together with the row it succeeds; a re-issue is for a row that has been
\* succeeded; and what answers with a cookie came from a device.
Hand(h) ==
    /\ mint[h] # NoToken => mint[h] \notin handed
    /\ pc[h] = "link" => /\ mint[h] \notin granted
                         /\ mint[h] \in revoked => tok[h] \notin stored \ revoked
    /\ pc[h] \in {"regrant", "grant"} => next[tok[h]] # NoToken
    /\ kind[h] \in Answers => dev[h] \in Devices
    /\ pc[h] = "answer" => kind[h] \in Answers

HInv == RInv /\ KnownInv /\ \A h \in Handlers : Hand(h)

\* A request that does not move keeps its part, whatever a step does to the rows.
LEMMA HandFrame ==
    ASSUME NEW g \in Handlers, Hand(g),
           pc'[g] = pc[g], kind'[g] = kind[g], dev'[g] = dev[g], tok'[g] = tok[g],
           mint'[g] = mint[g],
           mint[g] # NoToken => mint[g] \notin handed' \ handed,
           pc[g] = "link" => /\ mint[g] \notin granted' \ granted
                             /\ mint[g] \in revoked' => tok[g] \notin stored' \ revoked',
           pc[g] \in {"regrant", "grant"} /\ next[tok[g]] # NoToken => next'[tok[g]] # NoToken
    PROVE  Hand(g)'
BY DEF Hand

\* A request that ends holds nothing.
LEMMA HandEnds ==
    ASSUME HInv, NEW h \in Handlers, Ends(h)
    PROVE  /\ Hand(h)'
           /\ \A g \in Handlers \ {h} :
                 /\ pc'[g] = pc[g] /\ kind'[g] = kind[g] /\ dev'[g] = dev[g]
                 /\ tok'[g] = tok[g] /\ mint'[g] = mint[g]
<1>1. /\ pc'[h] = "idle" /\ kind'[h] = "none" /\ mint'[h] = NoToken
      /\ \A g \in Handlers \ {h} :
            /\ pc'[g] = pc[g] /\ kind'[g] = kind[g] /\ dev'[g] = dev[g]
            /\ tok'[g] = tok[g] /\ mint'[g] = mint[g]
  BY DEF Ends, Goto, HInv, RInv, IInv, Base, TypeOK, LocalsType
<1> QED BY <1>1 DEF Hand, Answers

\* A request that arrives has minted nothing, and names its device.
LEMMA ArrivalHand ==
    ASSUME HInv, NEW h \in Handlers, Arrival(h)
    PROVE  KnownInv' /\ \A g \in Handlers : Hand(g)'
<1>1. PICK k, d, t, a :
        /\ Starts(h, k, d, t, a) /\ (k \in Answers => d \in Devices)
        /\ a \notin {"idle", "link", "regrant", "grant", "answer"}
  <2>1. ASSUME NEW d \in Devices, StartLogin(h, d)
        PROVE  Starts(h, "login", d, NoToken, "user")
    BY <2>1 DEF StartLogin
  <2>2. ASSUME NEW d \in Devices, StartRefresh(h, d)
        PROVE  Starts(h, "refresh", d, cookie[d], "find")
    BY <2>2 DEF StartRefresh
  <2>3. ASSUME NEW d \in Devices, StartLogout(h, d)
        PROVE  \E a \in {"revokeAll", "lookup"} : Starts(h, "logout", d, cookie[d], a)
    BY <2>3 DEF StartLogout
  <2>4. ASSUME NEW d \in Devices, StartRevokeOthers(h, d)
        PROVE  \E a \in {"revokeAll", "lookup"} : Starts(h, "others", d, cookie[d], a)
    BY <2>4 DEF StartRevokeOthers
  <2>5. ASSUME NEW d \in Devices, StartChangePassword(h, d)
        PROVE  Starts(h, "change", d, NoToken, "verify")
    BY <2>5 DEF StartChangePassword
  <2>6. CASE StartReset(h) \/ StartBan(h) \/ StartErase(h)
    <3>1. \E k \in {"reset", "ban", "erase"}, a \in {"write", "flag", "tombstone"} :
             Starts(h, k, NoDevice, NoToken, a)
      BY <2>6 DEF StartReset, StartBan, StartErase
    <3> QED BY <3>1 DEF Answers
  <2> QED
    BY <2>1, <2>2, <2>3, <2>4, <2>5, <2>6 DEF Arrival, Answers
<1>2. /\ pc[h] = "idle" /\ pc'[h] = a /\ kind'[h] = k /\ dev'[h] = d /\ mint' = mint
      /\ UNCHANGED <<sessions, handed, minted>>
      /\ \A g \in Handlers \ {h} : /\ pc'[g] = pc[g] /\ kind'[g] = kind[g] /\ dev'[g] = dev[g]
                                   /\ tok'[g] = tok[g]
  BY <1>1 DEF Starts, Busy, Goto, HInv, RInv, IInv, Base, TypeOK, LocalsType
<1>3. mint[h] = NoToken
  BY <1>2, HeldTokens DEF HInv
<1>4. Hand(h)'
  BY <1>1, <1>2, <1>3 DEF Hand
<1>5. ASSUME NEW g \in Handlers, g # h PROVE Hand(g)'
  BY <1>2, <1>5, HandFrame DEF HInv, Hand, sessions, minted
<1>6. KnownInv'
  BY <1>2 DEF HInv, KnownInv, sessions, minted
<1> QED BY <1>4, <1>5, <1>6

\* The quiet steps: a re-issue is granted only for a row that has been succeeded.
LEMMA QuietHand ==
    ASSUME HInv, NEW h \in Handlers, Quiet(h)
    PROVE  KnownInv' /\ \A g \in Handlers : Hand(g)'
<1>1. UNCHANGED <<sessions, cookie, handed, minted>>
  BY QuietFrame
<1>2. /\ Hand(h) /\ pc[h] \in Await /\ (kind[h] = "refresh" \/ pc[h] \notin Refreshing)
      /\ mint[h] # NoToken => pc[h] \in {"link", "reread", "answer"}
  BY DEF HInv, RInv, IInv, Base, TypeOK, LocalsType, LocalInv
<1>3. /\ Hand(h)'
      /\ \A g \in Handlers \ {h} :
            /\ pc'[g] = pc[g] /\ kind'[g] = kind[g] /\ dev'[g] = dev[g]
            /\ tok'[g] = tok[g] /\ mint'[g] = mint[g]
  <2>1. CASE Ends(h) BY <2>1, HandEnds
  <2>2. ASSUME NEW a \in Await, Goto(h, a), UNCHANGED locals,
               pc[h] \notin {"link", "reread", "answer"}, a # "link",
               a \in {"regrant", "grant"} => next[tok[h]] # NoToken,
               a = "answer" => kind[h] \in Answers
        PROVE  /\ Hand(h)'
               /\ \A g \in Handlers \ {h} :
                     /\ pc'[g] = pc[g] /\ kind'[g] = kind[g] /\ dev'[g] = dev[g]
                     /\ tok'[g] = tok[g] /\ mint'[g] = mint[g]
    <3>1. pc'[h] = a /\ \A g \in Handlers \ {h} : pc'[g] = pc[g]
      BY <2>2 DEF Goto, HInv, RInv, IInv, Base, TypeOK, LocalsType
    <3> QED BY <1>1, <1>2, <2>2, <3>1 DEF Hand, locals, sessions, minted
  <2>3. CASE Reread(h)
    <3>1. PICK a \in {"regrant", "burn"} :
            pc' = [pc EXCEPT ![h] = a] /\ (a = "regrant" => next[tok[h]] # NoToken)
      BY <2>3 DEF Reread, Goto
    <3>2. pc'[h] = a /\ mint'[h] = NoToken
          /\ \A g \in Handlers \ {h} : pc'[g] = pc[g] /\ mint'[g] = mint[g]
      BY <2>3, <3>1 DEF Reread, HInv, RInv, IInv, Base, TypeOK, LocalsType
    <3>3. UNCHANGED <<kind, dev, tok>>
      BY <2>3 DEF Reread
    <3> QED BY <1>1, <1>2, <3>1, <3>2, <3>3 DEF Hand, sessions
  <2>4. CASE CheckCredentials(h)
    BY <2>1, <2>2, <2>4 DEF CheckCredentials, Await
  <2>5. CASE FindSession(h)
    BY <2>1, <2>2, <2>5 DEF FindSession, Await
  <2>6. CASE CheckAccount(h)
    <3>1. PICK a \in {"drop", "insert", "grant"} :
            Goto(h, a) /\ (a = "grant" => pc[h] = "regrant")
      BY <2>6 DEF CheckAccount
    <3> QED BY <1>2, <2>2, <2>6, <3>1 DEF CheckAccount, Await, Hand
  <2>7. CASE Lookup(h)
    BY <2>1, <2>2, <2>7 DEF Lookup, Await, Answers
  <2>8. CASE VerifyCurrent(h)
    BY <2>1, <2>2, <2>8 DEF VerifyCurrent, Await
  <2>9. CASE WritePassword(h)
    BY <2>1, <2>2, <2>9 DEF WritePassword, Await
  <2>10. CASE SetBanned(h)
    BY <2>1, <2>2, <2>10 DEF SetBanned, Await
  <2>11. CASE Tombstone(h)
    BY <2>1, <2>2, <2>11 DEF Tombstone, Await
  <2> QED BY <2>3, <2>4, <2>5, <2>6, <2>7, <2>8, <2>9, <2>10, <2>11 DEF Quiet
<1>4. ASSUME NEW g \in Handlers, g # h PROVE Hand(g)'
  BY <1>1, <1>3, <1>4, HandFrame DEF HInv, Hand, sessions, minted
<1>5. KnownInv'
  BY <1>1 DEF HInv, KnownInv, sessions, minted
<1> QED BY <1>3, <1>4, <1>5

\* The row that issueSession inserts, and what it is minted for.
LEMMA InsertFacts ==
    ASSUME HInv, NEW h \in Handlers, Insert(h)
    PROVE  \E t \in Tokens :
            /\ t \notin stored \cup revoked \cup granted \cup handed
            /\ family[t] = NoToken /\ parent[t] = NoToken
            /\ \A g \in Handlers : tok[g] # t /\ mint[g] # t
            /\ stored' = stored \cup {t}
            /\ family' = [family EXCEPT ![t] = IF kind[h] = "login" THEN t ELSE family[tok[h]]]
            /\ parent' = [parent EXCEPT ![t] = tok[h]]
            /\ granted' = IF pc[h] = "grant" THEN granted \cup {t} ELSE granted
            /\ mint'[h] = t
            /\ \A g \in Handlers \ {h} : mint'[g] = mint[g] /\ pc'[g] = pc[g]
            /\ pc'[h] = IF kind[h] = "refresh" /\ pc[h] = "insert" THEN "link" ELSE "answer"
            /\ pc[h] \in {"insert", "grant"}
            /\ kind[h] \in {"login", "refresh"} /\ (pc[h] = "grant" => kind[h] = "refresh")
            /\ kind[h] = "login" => tok[h] = NoToken
            /\ kind[h] = "refresh" => tok[h] \in Tokens /\ family[tok[h]] # NoToken
            /\ UNCHANGED <<revoked, next, cookie, kind, dev, tok, handed>>
<1>1. PICK t \in Tokens :
        /\ Fresh(t)
        /\ stored' = stored \cup {t}
        /\ family' = [family EXCEPT ![t] = IF kind[h] = "login" THEN t ELSE family[tok[h]]]
        /\ mint'   = [mint   EXCEPT ![h] = t]
        /\ parent' = [parent EXCEPT ![t] = tok[h]]
        /\ granted' = IF pc[h] = "grant" THEN granted \cup {t} ELSE granted
  BY DEF Insert
<1>2. /\ pc[h] \in {"insert", "grant"}
      /\ UNCHANGED <<revoked, next, cookie, kind, dev, tok, handed>>
      /\ Goto(h, IF kind[h] = "refresh" /\ pc[h] = "insert" THEN "link" ELSE "answer")
  BY DEF Insert
<1>3. /\ mint'[h] = t
      /\ \A g \in Handlers \ {h} : mint'[g] = mint[g] /\ pc'[g] = pc[g]
      /\ pc'[h] = IF kind[h] = "refresh" /\ pc[h] = "insert" THEN "link" ELSE "answer"
  BY <1>1, <1>2 DEF Goto, HInv, RInv, IInv, Base, TypeOK, LocalsType
<1>4. t \notin stored /\ family[t] = NoToken /\ t # NoToken
  BY <1>1, NullAssumption DEF Fresh
<1>5. /\ t \notin revoked \cup granted \cup handed /\ parent[t] = NoToken
      /\ \A g \in Handlers : tok[g] # t /\ mint[g] # t
  BY <1>4 DEF HInv, KnownInv, RInv, IInv, Base, FamilyInv
<1>6. /\ kind[h] \in {"login", "refresh"} /\ (pc[h] = "grant" => kind[h] = "refresh")
      /\ kind[h] = "login" => tok[h] = NoToken
      /\ kind[h] = "refresh" => tok[h] \in Tokens /\ family[tok[h]] # NoToken
  BY <1>2 DEF HInv, RInv, IInv, Base, TypeOK, LocalsType, LocalInv, FamilyInv, Presents, Refreshing
<1> QED BY <1>1, <1>2, <1>3, <1>4, <1>5, <1>6

\* issueSession: nobody else has the new token.
LEMMA InsertHand ==
    ASSUME HInv, NEW h \in Handlers, Insert(h)
    PROVE  KnownInv' /\ \A g \in Handlers : Hand(g)'
<1>1. PICK t \in Tokens :
            /\ t \notin stored \cup revoked \cup granted \cup handed
            /\ family[t] = NoToken /\ parent[t] = NoToken
            /\ \A g \in Handlers : tok[g] # t /\ mint[g] # t
            /\ stored' = stored \cup {t}
            /\ family' = [family EXCEPT ![t] = IF kind[h] = "login" THEN t ELSE family[tok[h]]]
            /\ parent' = [parent EXCEPT ![t] = tok[h]]
            /\ granted' = IF pc[h] = "grant" THEN granted \cup {t} ELSE granted
            /\ mint'[h] = t
            /\ \A g \in Handlers \ {h} : mint'[g] = mint[g] /\ pc'[g] = pc[g]
            /\ pc'[h] = IF kind[h] = "refresh" /\ pc[h] = "insert" THEN "link" ELSE "answer"
            /\ pc[h] \in {"insert", "grant"}
            /\ kind[h] \in {"login", "refresh"} /\ (pc[h] = "grant" => kind[h] = "refresh")
            /\ kind[h] = "login" => tok[h] = NoToken
            /\ kind[h] = "refresh" => tok[h] \in Tokens /\ family[tok[h]] # NoToken
            /\ UNCHANGED <<revoked, next, cookie, kind, dev, tok, handed>>
  BY InsertFacts
<1>2. Hand(h)'
  <2>1. pc'[h] = "link" => pc[h] = "insert"
    BY <1>1
  <2>2. kind[h] \in Answers /\ dev[h] \in Devices
    BY <1>1 DEF HInv, Hand, Answers
  <2> QED BY <1>1, <2>1, <2>2 DEF Hand
<1>3. ASSUME NEW g \in Handlers, g # h PROVE Hand(g)'
  BY <1>1, <1>3, HandFrame DEF HInv, Hand
<1>4. KnownInv'
  <2>1. family'[t] # NoToken /\ \A u \in Tokens \ {t} : family'[u] = family[u]
    BY <1>1, NullAssumption DEF HInv, RInv, IInv, Base, TypeOK, SessionType
  <2> QED BY <1>1, <2>1 DEF HInv, KnownInv, RInv, IInv, Base, TypeOK, SessionType, HistoryType
<1> QED BY <1>2, <1>3, <1>4

\* The link: a row that has been succeeded stays so.
LEMMA LinkHand ==
    ASSUME HInv, NEW h \in Handlers, Link(h)
    PROVE  KnownInv' /\ \A g \in Handlers : Hand(g)'
<1>1. /\ pc[h] = "link" /\ kind[h] = "refresh" /\ mint[h] \in Tokens
      /\ UNCHANGED <<stored, revoked, family, locals, handed, minted>>
  BY DEF Link, HInv, RInv, IInv, Base, TypeOK, LocalsType, LocalInv, Refreshing
<1>2. pc'[h] \in {"answer", "reread"} /\ \A g \in Handlers \ {h} : pc'[g] = pc[g]
  BY DEF Link, Goto, HInv, RInv, IInv, Base, TypeOK, LocalsType
<1>3. \A u \in Tokens : next[u] # NoToken => next'[u] # NoToken
  BY <1>1, NullAssumption DEF Link, HInv, RInv, IInv, Base, TypeOK, SessionType
<1>4. Hand(h)'
  BY <1>1, <1>2 DEF Hand, HInv, Answers, locals
<1>5. ASSUME NEW g \in Handlers, g # h PROVE Hand(g)'
  <2>1. pc[g] \in {"regrant", "grant"} => tok[g] \in Tokens
    BY DEF HInv, RInv, IInv, Base, TypeOK, LocalsType, LocalInv, Presents
  <2> QED BY <1>1, <1>2, <1>3, <1>5, <2>1, HandFrame DEF HInv, Hand, locals, minted
<1>6. KnownInv'
  BY <1>1 DEF HInv, KnownInv, minted
<1> QED BY <1>4, <1>5, <1>6

\* A revocation of whole families takes a candidate only with the row it would succeed.
LEMMA RevokedTogether ==
    ASSUME HInv, NEW R \in SUBSET stored, Closed(R), NEW D, RevokeRows(R, D),
           NEW g \in Handlers, pc[g] = "link", mint[g] \in revoked'
    PROVE  tok[g] \notin stored' \ revoked'
<1>1. stored' = stored /\ revoked' = revoked \cup R
  BY DEF RevokeRows
<1>2. family[tok[g]] = family[mint[g]]
  BY NullAssumption DEF HInv, RInv, IInv, Base, TypeOK, LocalsType, LocalInv, FamilyInv, Presents
<1> QED BY <1>1, <1>2 DEF Closed, HInv, Hand

\* The rows that a revocation adds have been minted.
LEMMA RevokedKnown ==
    ASSUME HInv, NEW R \in SUBSET stored, NEW D, RevokeRows(R, D), granted' = granted
    PROVE  KnownInv'
BY DEF RevokeRows, HInv, KnownInv, RInv, IInv, Base, FamilyInv

\* The revocations by a request.
LEMMA RevokesHand ==
    ASSUME HInv, NEW h \in Handlers, NEW R, Revokes(h, R)
    PROVE  KnownInv' /\ \A g \in Handlers : Hand(g)'
<1>1. /\ RevokeRows(R, {h}) /\ UNCHANGED <<cookie, handed, minted>>
      /\ ((Goto(h, "answer") /\ UNCHANGED locals /\ mint[h] = NoToken) \/ Ends(h))
  BY RevokeBase DEF HInv, RInv, IInv
<1>2. R \in SUBSET stored /\ Closed(R)
  BY DEF Revokes, Members, Closed
<1>3. KnownInv'
  BY <1>1, <1>2, RevokedKnown DEF minted
<1>4. /\ Hand(h)'
      /\ \A g \in Handlers \ {h} :
            /\ pc'[g] = pc[g] /\ kind'[g] = kind[g] /\ dev'[g] = dev[g]
            /\ tok'[g] = tok[g] /\ mint'[g] = mint[g]
  <2>1. CASE Ends(h) BY <2>1, HandEnds
  <2>2. CASE Goto(h, "answer") /\ UNCHANGED locals /\ mint[h] = NoToken /\ ~Ends(h)
    <3>1. kind[h] = "logout"
      BY <2>2 DEF Revokes, Burn, DropFamily, SpareOwnFamily, RevokeAllSessions, Leaves
    <3>2. pc'[h] = "answer" /\ \A g \in Handlers \ {h} : pc'[g] = pc[g]
      BY <2>2 DEF Goto, HInv, RInv, IInv, Base, TypeOK, LocalsType
    <3> QED BY <2>2, <3>1, <3>2 DEF HInv, Hand, Answers, locals
  <2> QED BY <1>1, <2>1, <2>2
<1>5. ASSUME NEW g \in Handlers, g # h PROVE Hand(g)'
  <2>1. pc[g] = "link" /\ mint[g] \in revoked' => tok[g] \notin stored' \ revoked'
    BY <1>1, <1>2, RevokedTogether
  <2>2. next' = next
    BY <1>1 DEF RevokeRows
  <2> QED BY <1>1, <1>4, <1>5, <2>1, <2>2, HandFrame DEF HInv, minted
<1> QED BY <1>3, <1>4, <1>5

\* The revocation from elsewhere.
LEMMA RevokeSessionHand ==
    ASSUME HInv, RevokeSession
    PROVE  KnownInv' /\ \A g \in Handlers : Hand(g)'
<1>1. PICK R \in {Members(family[t]) : t \in stored} \cup {stored} : RevokeRows(R, {})
  BY DEF RevokeSession
<1>2. /\ R \in SUBSET stored /\ Closed(R)
      /\ UNCHANGED <<pc, locals, handed, minted>> /\ next' = next
  BY <1>1 DEF RevokeSession, Members, Closed, RevokeRows
<1>3. KnownInv'
  BY <1>1, <1>2, RevokedKnown DEF minted
<1>4. ASSUME NEW g \in Handlers PROVE Hand(g)'
  <2>1. pc[g] = "link" /\ mint[g] \in revoked' => tok[g] \notin stored' \ revoked'
    BY <1>1, <1>2, RevokedTogether
  <2> QED BY <1>2, <2>1, HandFrame DEF HInv, locals, minted
<1> QED BY <1>3, <1>4

\* A response gives away what nobody else has minted.
LEMMA RespondHand ==
    ASSUME HInv, NEW h \in Handlers, Respond(h)
    PROVE  KnownInv' /\ \A g \in Handlers : Hand(g)'
<1>1. /\ handed' = handed \cup ({mint[h]} \ {NoToken}) /\ Ends(h)
      /\ UNCHANGED <<sessions, minted>>
  BY DEF Respond
<1>2. ASSUME NEW g \in Handlers, g # h PROVE Hand(g)'
  <2>1. mint[g] # NoToken => mint[g] \notin handed' \ handed
    BY <1>1, <1>2 DEF HInv, RInv, Extra, SecretInv
  <2> QED BY <1>1, <1>2, <2>1, HandEnds, HandFrame DEF HInv, Hand, sessions, minted
<1>3. KnownInv'
  BY <1>1 DEF HInv, KnownInv, sessions, minted
<1> QED BY <1>1, <1>2, <1>3, HandEnds

\* Deletions, crashes and time only remove rows.
LEMMA ApartHand ==
    ASSUME HInv, Apart
    PROVE  KnownInv' /\ \A g \in Handlers : Hand(g)'
<1>1. /\ stored' \subseteq stored
      /\ UNCHANGED <<revoked, family, next, cookie, handed, minted>>
  BY ApartFrame
<1>2. KnownInv'
  BY <1>1 DEF HInv, KnownInv, minted
<1>3. ASSUME NEW h \in Handlers, Ends(h), NEW g \in Handlers PROVE Hand(g)'
  <2>1. CASE g = h BY <1>3, <2>1, HandEnds
  <2>2. CASE g # h
    BY <1>1, <1>3, <2>2, HandEnds, HandFrame DEF HInv, Hand, minted
  <2> QED BY <2>1, <2>2
<1>4. ASSUME UNCHANGED <<pc, locals>>, NEW g \in Handlers PROVE Hand(g)'
  BY <1>1, <1>4, HandFrame DEF HInv, Hand, locals, minted
<1> QED BY <1>2, <1>3, <1>4, ApartBase DEF HInv, RInv, IInv

-----------------------------------------------------------------------------
(* The steps of TokenFamilies *)

Promised == Promise!Next \/ UNCHANGED Promise!families

\* A step that touches no row, no token and no cookie.
LEMMA SilentRow ==
    ASSUME UNCHANGED <<stored, revoked, family, next, cookie, handed, parent, granted>>
    PROVE  Promised
BY DEF Promised, Promise!families

\* A step that only takes rows away.
LEMMA RemoveRow ==
    ASSUME Base, stored' \subseteq stored,
           UNCHANGED <<revoked, family, next, cookie, handed, parent, granted>>
    PROVE  Promised
<1>1. stored' = stored \ (stored \ stored') /\ (stored \ stored') \in SUBSET Tokens
  BY DEF Base, TypeOK, SessionType
<1>2. Promise!Remove(stored \ stored')
  BY <1>1 DEF Promise!Remove
<1> QED BY <1>1, <1>2 DEF Promised, Promise!Next

\* A revocation takes whole families.
LEMMA RevokeRow ==
    ASSUME Base, NEW R \in SUBSET stored, Closed(R), NEW D, RevokeRows(R, D),
           UNCHANGED <<cookie, handed, minted>>
    PROVE  Promised
<1>1. FamiliesOf(R) \in SUBSET Tokens
  BY FamiliesAreTokens
<1>2. R = {t \in stored : family[t] \in FamiliesOf(R)}
  BY DEF Closed, FamiliesOf
<1>3. Promise!Revoke(FamiliesOf(R))
  BY <1>2 DEF Promise!Revoke, RevokeRows, minted
<1> QED BY <1>1, <1>3 DEF Promised, Promise!Next

\* issueSession begins a family, mints a candidate for a succession or re-issues.
LEMMA InsertRow ==
    ASSUME HInv, NEW h \in Handlers, Insert(h)
    PROVE  Promised
<1>1. PICK t \in Tokens :
            /\ t \notin stored \cup revoked \cup granted \cup handed
            /\ family[t] = NoToken /\ parent[t] = NoToken
            /\ \A g \in Handlers : tok[g] # t /\ mint[g] # t
            /\ stored' = stored \cup {t}
            /\ family' = [family EXCEPT ![t] = IF kind[h] = "login" THEN t ELSE family[tok[h]]]
            /\ parent' = [parent EXCEPT ![t] = tok[h]]
            /\ granted' = IF pc[h] = "grant" THEN granted \cup {t} ELSE granted
            /\ mint'[h] = t
            /\ \A g \in Handlers \ {h} : mint'[g] = mint[g] /\ pc'[g] = pc[g]
            /\ pc'[h] = IF kind[h] = "refresh" /\ pc[h] = "insert" THEN "link" ELSE "answer"
            /\ pc[h] \in {"insert", "grant"}
            /\ kind[h] \in {"login", "refresh"} /\ (pc[h] = "grant" => kind[h] = "refresh")
            /\ kind[h] = "login" => tok[h] = NoToken
            /\ kind[h] = "refresh" => tok[h] \in Tokens /\ family[tok[h]] # NoToken
            /\ UNCHANGED <<revoked, next, cookie, kind, dev, tok, handed>>
  BY InsertFacts
<1>2. CASE kind[h] = "login"
  <2>1. parent' = parent
    BY <1>1, <1>2 DEF HInv, RInv, IInv, Base, TypeOK, HistoryType
  <2>2. family' = [family EXCEPT ![t] = t] /\ granted' = granted
    BY <1>1, <1>2
  <2>3. Promise!Begin(t)
    BY <1>1, <2>1, <2>2 DEF Promise!Begin, Promise!Joins
  <2> QED BY <2>3 DEF Promised, Promise!Next
<1>3. CASE kind[h] = "refresh"
  <2>1. family' = [family EXCEPT ![t] = family[tok[h]]]
    BY <1>1, <1>3
  <2>2. CASE pc[h] = "insert"
    <3>1. granted' = granted
      BY <1>1, <2>2
    <3>2. Promise!Mint(tok[h], t)
      BY <1>1, <1>3, <2>1, <3>1 DEF Promise!Mint, Promise!Joins
    <3> QED BY <1>1, <1>3, <3>2 DEF Promised, Promise!Next
  <2>3. CASE pc[h] = "grant"
    <3>1. next[tok[h]] # NoToken
      BY <2>3 DEF HInv, Hand
    <3>2. Promise!Reissue(tok[h], t)
      BY <1>1, <2>1, <2>3, <3>1 DEF Promise!Reissue, Promise!Joins
    <3> QED BY <1>1, <1>3, <3>2 DEF Promised, Promise!Next
  <2> QED BY <1>1, <2>2, <2>3
<1> QED BY <1>1, <1>2, <1>3

\* The compare-and-set of refresh is the succession.
LEMMA LinkRow ==
    ASSUME HInv, NEW h \in Handlers, Link(h)
    PROVE  Promised
<1>1. /\ pc[h] = "link" /\ tok[h] \in Tokens /\ mint[h] \in Tokens
      /\ parent[mint[h]] = tok[h] /\ family[mint[h]] = family[tok[h]]
      /\ mint[h] \notin handed \cup granted
      /\ mint[h] \in revoked => tok[h] \notin stored \ revoked
      /\ UNCHANGED <<stored, revoked, family, cookie, handed, parent, granted>>
  BY NullAssumption
     DEF Link, HInv, Hand, RInv, IInv, Base, TypeOK, LocalsType, LocalInv, FamilyInv, Presents,
         minted
<1>2. CASE next' = next
  BY <1>1, <1>2, SilentRow
<1>3. CASE /\ tok[h] \in stored \ revoked /\ next[tok[h]] = NoToken
           /\ next' = [next EXCEPT ![tok[h]] = mint[h]]
  <2>1. Promise!Succeed(tok[h], mint[h])
    BY <1>1, <1>3 DEF Promise!Succeed
  <2> QED BY <1>1, <2>1 DEF Promised, Promise!Next
<1> QED BY <1>2, <1>3 DEF Link

\* A response gives its device a token, or empties its jar.
LEMMA RespondRow ==
    ASSUME HInv, NEW h \in Handlers, Respond(h)
    PROVE  Promised
<1>1. /\ pc[h] = "answer" /\ dev[h] \in Devices
      /\ cookie' = [cookie EXCEPT ![dev[h]] = mint[h]]
      /\ handed' = handed \cup ({mint[h]} \ {NoToken})
      /\ UNCHANGED <<stored, revoked, family, next, parent, granted>>
  BY DEF Respond, HInv, Hand, sessions, minted
<1>2. CASE mint[h] = NoToken
  <2>1. Promise!Empty(dev[h])
    BY <1>1, <1>2 DEF Promise!Empty
  <2> QED BY <1>1, <2>1 DEF Promised, Promise!Next
<1>3. CASE mint[h] # NoToken
  <2>1. mint[h] \in Tokens /\ family[mint[h]] # NoToken /\ mint[h] \notin handed
    BY <1>3 DEF HInv, Hand, RInv, IInv, Base, TypeOK, LocalsType, FamilyInv
  <2>2. Linked(mint[h])
    BY <1>1, <1>3 DEF HInv, RInv, IInv, RelyInv
  <2>3. handed' = handed \cup {mint[h]}
    BY <1>1, <1>3
  <2>4. Promise!Give(mint[h], dev[h])
    BY <1>1, <2>1, <2>2, <2>3 DEF Promise!Give, Linked
  <2> QED BY <1>1, <2>1, <2>4 DEF Promised, Promise!Next
<1> QED BY <1>2, <1>3

\* Every step keeps what requests hold, and is a step of TokenFamilies or a stutter.
LEMMA FamilyStep ==
    ASSUME HInv, [Next]_vars
    PROVE  HInv' /\ Promised
<1>1. RInv'
  BY ReuseNext DEF HInv
<1>2. ASSUME NEW h \in Handlers, Arrival(h)
      PROVE  KnownInv' /\ (\A g \in Handlers : Hand(g)') /\ Promised
  <2>1. UNCHANGED <<sessions, cookie, handed, minted>>
    BY <1>2 DEF Arrival, StartLogin, StartRefresh, StartLogout, StartRevokeOthers,
                StartChangePassword, StartReset, StartBan, StartErase, Starts
  <2> QED BY <1>2, <2>1, ArrivalHand, SilentRow DEF sessions, minted
<1>3. ASSUME NEW h \in Handlers, Quiet(h)
      PROVE  KnownInv' /\ (\A g \in Handlers : Hand(g)') /\ Promised
  BY <1>3, QuietFrame, QuietHand, SilentRow DEF sessions, minted
<1>4. ASSUME NEW h \in Handlers, Insert(h)
      PROVE  KnownInv' /\ (\A g \in Handlers : Hand(g)') /\ Promised
  BY <1>4, InsertHand, InsertRow
<1>5. ASSUME NEW h \in Handlers, Link(h)
      PROVE  KnownInv' /\ (\A g \in Handlers : Hand(g)') /\ Promised
  BY <1>5, LinkHand, LinkRow
<1>6. ASSUME NEW h \in Handlers, NEW R, Revokes(h, R)
      PROVE  KnownInv' /\ (\A g \in Handlers : Hand(g)') /\ Promised
  <2>1. R \in SUBSET stored /\ Closed(R)
    BY <1>6 DEF Revokes, Members, Closed
  <2>2. Base /\ RevokeRows(R, {h}) /\ UNCHANGED <<cookie, handed, minted>>
    BY <1>6, RevokeBase DEF HInv, RInv, IInv
  <2> QED BY <1>6, <2>1, <2>2, RevokesHand, RevokeRow
<1>7. ASSUME NEW h \in Handlers, Respond(h)
      PROVE  KnownInv' /\ (\A g \in Handlers : Hand(g)') /\ Promised
  BY <1>7, RespondHand, RespondRow
<1>8. ASSUME RevokeSession
      PROVE  KnownInv' /\ (\A g \in Handlers : Hand(g)') /\ Promised
  <2>1. PICK R \in {Members(family[t]) : t \in stored} \cup {stored} : RevokeRows(R, {})
    BY <1>8 DEF RevokeSession
  <2>2. R \in SUBSET stored /\ Closed(R) /\ UNCHANGED <<cookie, handed, minted>>
    BY <1>8 DEF RevokeSession, Members, Closed
  <2> QED BY <1>8, <2>1, <2>2, RevokeSessionHand, RevokeRow DEF HInv, RInv, IInv
<1>9. ASSUME Apart
      PROVE  KnownInv' /\ (\A g \in Handlers : Hand(g)') /\ Promised
  BY <1>9, ApartFrame, ApartHand, RemoveRow DEF HInv, RInv, IInv, minted
<1>10. ASSUME UNCHANGED vars
       PROVE  KnownInv' /\ (\A g \in Handlers : Hand(g)') /\ Promised
  <2>1. UNCHANGED <<pc, locals, sessions, cookie, handed, minted>>
    BY <1>10 DEF vars
  <2>2. ASSUME NEW g \in Handlers PROVE Hand(g)'
    BY <2>1, HandFrame DEF HInv, Hand, locals, sessions, minted
  <2>3. KnownInv'
    BY <2>1 DEF HInv, KnownInv, sessions, minted
  <2> QED BY <2>1, <2>2, <2>3, SilentRow DEF sessions, minted
<1>11. ASSUME NEW h \in Handlers, Step(h)
       PROVE  KnownInv' /\ (\A g \in Handlers : Hand(g)') /\ Promised
  <2>1. CASE Burn(h) \/ DropFamily(h) \/ SpareOwnFamily(h) \/ RevokeAllSessions(h)
    <3>1. \E R : Revokes(h, R)
      BY <2>1 DEF Burn, DropFamily, SpareOwnFamily, RevokeAllSessions, Revokes
    <3> QED BY <1>6, <3>1
  <2> QED BY <1>3, <1>4, <1>5, <1>7, <1>9, <1>11, <2>1 DEF Step, Quiet, Apart
<1> QED BY <1>1, <1>2, <1>8, <1>9, <1>10, <1>11 DEF Next, Apart, HInv

\* AuthService's logins, refreshes, logouts and revocations, in any number and order, are
\* steps of TokenFamilies: one succession for each session, whole families revoked, and
\* each token given once, to one device.
THEOREM ImplementsTokenFamilies == Spec => FamilySpec
<1>1. Init => Promise!Init
  BY DEF Init, Promise!Init
<1>2. Init => HInv
  <2>1. Init => KnownInv /\ \A h \in Handlers : Hand(h)
    BY DEF Init, KnownInv, Hand, Answers
  <2> QED BY <2>1, ReuseInit DEF HInv
<1>3. HInv /\ [Next]_vars => HInv' /\ [Promise!Next]_Promise!families
  BY FamilyStep DEF Promised
<1> QED
  BY <1>1, <1>2, <1>3, PTL DEF Spec, FamilySpec, Promise!Spec
=============================================================================
