---------------------------- MODULE SessionsProofs ----------------------------
(***************************************************************************)
(* Proofs about Sessions for any requests, devices, tokens and bounds:     *)
(* types, the bookkeeping of families, and that a rotation never carries a *)
(* session over its revocation.                                            *)
(***************************************************************************)
EXTENDS Sessions, TLAPS

-----------------------------------------------------------------------------
(* The inductive invariant *)

\* Awaits of a request that has presented a token.
Presents == {"find", "check", "link", "reread", "regrant", "grant", "burn", "drop",
             "lookup", "spare"}

Refreshing == {"find", "check", "link", "reread", "regrant", "grant", "burn"}

\* What a request holds where it stands: the token it presented, and a token of its
\* own only between the insert and the response.
LocalInv == \A h \in Handlers :
    /\ pc[h] \in Presents => tok[h] # NoToken /\ kind[h] # "login"
    /\ pc[h] = "user" => tok[h] = NoToken /\ kind[h] = "login"
    /\ pc[h] \in Refreshing => kind[h] = "refresh"
    /\ pc[h] = "insert" => \/ tok[h] = NoToken /\ kind[h] = "login"
                           \/ tok[h] # NoToken /\ kind[h] = "refresh"
    /\ mint[h] # NoToken => pc[h] \in {"link", "reread", "answer"}
    /\ pc[h] = "link" => mint[h] # NoToken /\ parent[mint[h]] = tok[h]

\* Tokens in use have been minted, and parents and successors share the family.
FamilyInv ==
    /\ \A t \in stored \cup handed : family[t] # NoToken
    /\ \A d \in Devices : cookie[d] # NoToken => family[cookie[d]] # NoToken
    /\ \A h \in Handlers : tok[h] # NoToken => family[tok[h]] # NoToken
    /\ \A h \in Handlers : mint[h] # NoToken => family[mint[h]] # NoToken
    /\ \A t \in Tokens : parent[t] # NoToken =>
            family[t] # NoToken /\ family[parent[t]] = family[t]
    /\ \A t \in Tokens : next[t] # NoToken =>
            family[t] # NoToken /\ family[next[t]] = family[t]

Base == TypeOK /\ LocalInv /\ FamilyInv

Linked(t) == \/ parent[t] = NoToken
             \/ t \in granted
             \/ next[parent[t]] = t

\* A request that relies on its row has not seen it revoked, or has been overtaken;
\* and what is about to be handed out is linked.
RelyInv == \A h \in Handlers :
    /\ Trusts(h) => tok[h] \notin revoked \/ h \in raced
    /\ pc[h] = "answer" /\ mint[h] # NoToken => Linked(mint[h])

IInv == Base /\ RelyInv /\ HandedTokensAreLinked /\ SuccessorDiesToo /\ RevivedOnlyByRace

-----------------------------------------------------------------------------
(* Types and families *)

\* The families of minted rows are tokens: what excused and reused collect.
LEMMA FamiliesAreTokens ==
    ASSUME Base, NEW R \in SUBSET stored
    PROVE  FamiliesOf(R) \subseteq Tokens
BY DEF Base, TypeOK, SessionType, FamilyInv, FamiliesOf

\* A request that arrives.
LEMMA StartsStep ==
    ASSUME Base, NEW h \in Handlers, NEW k \in Kinds, NEW d \in Devices \cup {NoDevice},
           NEW t \in Tokens \cup {NoToken}, NEW a \in Await, Starts(h, k, d, t, a),
           a \in Presents => t # NoToken /\ k # "login",
           a = "user" => t = NoToken /\ k = "login",
           a \in Refreshing => k = "refresh",
           a \notin {"insert", "link"},
           t # NoToken => family[t] # NoToken
    PROVE  Base'
<1>1. TypeOK'
  BY DEF Base, TypeOK, SessionType, UserType, LocalsType, HistoryType, Starts, Goto,
         sessions, users, minted, blame
<1>2. LocalInv'
  BY DEF Base, TypeOK, LocalsType, LocalInv, Starts, Goto, Busy, Presents, Refreshing, minted
<1>3. FamilyInv'
  BY DEF Base, TypeOK, LocalsType, FamilyInv, Starts, sessions, minted
<1> QED BY <1>1, <1>2, <1>3 DEF Base

\* A request that arrives keeps types, locals and families (the endpoints of AuthController).
LEMMA ArrivalStep ==
    ASSUME Base, NEW h \in Handlers, Arrival(h)
    PROVE  Base'
<1>1. ASSUME NEW d \in Devices, StartLogin(h, d) PROVE Base'
  BY <1>1, StartsStep DEF StartLogin, Kinds, Await, Presents, Refreshing
<1>2. ASSUME NEW d \in Devices PROVE cookie[d] \in Tokens \cup {NoToken}
                                      /\ (cookie[d] # NoToken => family[cookie[d]] # NoToken)
  BY DEF Base, TypeOK, UserType, FamilyInv
<1>3. ASSUME NEW d \in Devices, StartRefresh(h, d) PROVE Base'
  BY <1>3, <1>2, StartsStep DEF StartRefresh, Kinds, Await, Presents, Refreshing
<1>4. ASSUME NEW d \in Devices, StartLogout(h, d) PROVE Base'
  BY <1>4, <1>2, StartsStep DEF StartLogout, Kinds, Await, Presents, Refreshing
<1>5. ASSUME NEW d \in Devices, StartRevokeOthers(h, d) PROVE Base'
  BY <1>5, <1>2, StartsStep DEF StartRevokeOthers, Kinds, Await, Presents, Refreshing
<1>6. ASSUME NEW d \in Devices, StartChangePassword(h, d) PROVE Base'
  BY <1>6, StartsStep DEF StartChangePassword, Kinds, Await, Presents, Refreshing
<1>7. CASE StartReset(h) BY <1>7, StartsStep DEF StartReset, Kinds, Await, Presents, Refreshing
<1>8. CASE StartBan(h) BY <1>8, StartsStep DEF StartBan, Kinds, Await, Presents, Refreshing
<1>9. CASE StartErase(h) BY <1>9, StartsStep DEF StartErase, Kinds, Await, Presents, Refreshing
<1> QED BY <1>1, <1>3, <1>4, <1>5, <1>6, <1>7, <1>8, <1>9 DEF Arrival

\* A request that ends holds nothing.
LEMMA EndsStep ==
    ASSUME Base, NEW h \in Handlers, Ends(h), parent' = parent
    PROVE  /\ LocalsType' /\ LocalInv'
           /\ \A g \in Handlers : tok'[g] \in {tok[g], NoToken} /\ mint'[g] \in {mint[g], NoToken}
<1>1. LocalsType'
  BY DEF Base, TypeOK, LocalsType, Ends, Goto, Await, Unusable
<1>2. LocalInv'
  BY DEF Base, TypeOK, LocalsType, LocalInv, Ends, Goto, Presents, Refreshing
<1>3. \A g \in Handlers : tok'[g] \in {tok[g], NoToken} /\ mint'[g] \in {mint[g], NoToken}
  BY DEF Base, TypeOK, LocalsType, Ends
<1> QED BY <1>1, <1>2, <1>3

\* A request that moves on with what it has.
LEMMA GotoStep ==
    ASSUME Base, NEW h \in Handlers, NEW a \in Await, Goto(h, a), UNCHANGED <<locals, parent>>,
           a \in Presents => tok[h] # NoToken /\ kind[h] # "login",
           a # "user", a # "link",
           a \in Refreshing => kind[h] = "refresh",
           a = "insert" => \/ tok[h] = NoToken /\ kind[h] = "login"
                           \/ tok[h] # NoToken /\ kind[h] = "refresh",
           mint[h] # NoToken => a \in {"reread", "answer"}
    PROVE  LocalsType' /\ LocalInv'
<1>1. LocalsType'
  BY DEF Base, TypeOK, LocalsType, Goto, locals
<1>2. /\ tok' = tok /\ mint' = mint /\ kind' = kind /\ parent' = parent
      /\ pc'[h] = a /\ \A g \in Handlers \ {h} : pc'[g] = pc[g]
  BY DEF Base, TypeOK, LocalsType, Goto, locals
<1>3. LocalInv'
  <2> SUFFICES ASSUME NEW g \in Handlers
               PROVE  /\ pc'[g] \in Presents => tok[g] # NoToken /\ kind[g] # "login"
                      /\ pc'[g] = "user" => tok[g] = NoToken /\ kind[g] = "login"
                      /\ pc'[g] \in Refreshing => kind[g] = "refresh"
                      /\ pc'[g] = "insert" => \/ tok[g] = NoToken /\ kind[g] = "login"
                                              \/ tok[g] # NoToken /\ kind[g] = "refresh"
                      /\ mint[g] # NoToken => pc'[g] \in {"link", "reread", "answer"}
                      /\ pc'[g] = "link" => mint[g] # NoToken /\ parent[mint[g]] = tok[g]
    BY <1>2 DEF LocalInv, Presents, Refreshing
  <2>1. CASE g = h BY <2>1, <1>2
  <2>2. CASE g # h BY <2>2, <1>2 DEF Base, LocalInv
  <2> QED BY <2>1, <2>2
<1> QED BY <1>1, <1>3

\* A step that mints, links and hands out nothing.
LEMMA FamilyFrame ==
    ASSUME FamilyInv, stored' \subseteq stored, UNCHANGED <<family, next, parent, handed, cookie>>,
           \A g \in Handlers : tok'[g] \in {tok[g], NoToken} /\ mint'[g] \in {mint[g], NoToken}
    PROVE  FamilyInv'
BY DEF FamilyInv

\* The steps that change only what the request holds, or the user.
Quiet(h) == \/ CheckCredentials(h) \/ FindSession(h) \/ CheckAccount(h) \/ Reread(h)
            \/ Lookup(h) \/ VerifyCurrent(h) \/ WritePassword(h) \/ SetBanned(h)
            \/ Tombstone(h)

\* The quiet steps leave the rows, the cookies and what was minted alone.
LEMMA QuietFrame ==
    ASSUME NEW h \in Handlers, Quiet(h)
    PROVE  UNCHANGED <<sessions, cookie, handed, minted, reused, excused, bounds>>
BY DEF Quiet, CheckCredentials, FindSession, CheckAccount, Reread, Lookup, VerifyCurrent,
       WritePassword, SetBanned, Tombstone, blame

\* The quiet steps keep the type of the account.
LEMMA QuietUser ==
    ASSUME UserType, NEW h \in Handlers, Quiet(h)
    PROVE  UserType'
<1>1. secret' \in Nat
  BY DEF UserType, Quiet, CheckCredentials, FindSession, CheckAccount, Reread, Lookup,
         VerifyCurrent, WritePassword, SetBanned, Tombstone, users, Unusable
<1>2. banned' \in BOOLEAN
  <2>1. CASE banned' = banned BY <2>1 DEF UserType
  <2>2. CASE banned' = TRUE BY <2>2
  <2>3. banned' = banned \/ banned' = TRUE
    BY Zenon DEF Quiet, CheckCredentials, FindSession, CheckAccount, Reread, Lookup,
                 VerifyCurrent, WritePassword, SetBanned, Tombstone, users
  <2> QED BY <2>1, <2>2, <2>3
<1>3. cookie' = cookie
  BY QuietFrame
<1> QED BY <1>1, <1>2, <1>3 DEF UserType

\* The quiet steps keep what a request holds where it stands.
LEMMA QuietLocal ==
    ASSUME Base, NEW h \in Handlers, Quiet(h)
    PROVE  /\ LocalsType' /\ LocalInv'
           /\ \A g \in Handlers : tok'[g] \in {tok[g], NoToken} /\ mint'[g] \in {mint[g], NoToken}
           /\ raced' \in SUBSET Handlers
<1>0. parent' = parent
  BY QuietFrame DEF minted
<1>1. ASSUME Ends(h), raced' = raced \ {h}
      PROVE  /\ LocalsType' /\ LocalInv'
             /\ \A g \in Handlers : tok'[g] \in {tok[g], NoToken} /\ mint'[g] \in {mint[g], NoToken}
             /\ raced' \in SUBSET Handlers
  <2>1. raced' \in SUBSET Handlers
    BY <1>1 DEF Base, TypeOK, HistoryType
  <2> QED BY <1>0, <1>1, <2>1, EndsStep
<1>2. ASSUME UNCHANGED <<locals, raced>>
      PROVE  /\ \A g \in Handlers : tok'[g] \in {tok[g], NoToken} /\ mint'[g] \in {mint[g], NoToken}
             /\ raced' \in SUBSET Handlers
  BY <1>2 DEF locals, Base, TypeOK, HistoryType
<1>3. LocalsType /\ (pc[h] \notin {"link", "reread", "answer"} => mint[h] = NoToken)
  BY DEF Base, TypeOK, LocalInv
<1>4. /\ pc[h] \in Presents => tok[h] # NoToken /\ kind[h] # "login"
      /\ pc[h] \in Refreshing => kind[h] = "refresh"
      /\ pc[h] = "user" => tok[h] = NoToken /\ kind[h] = "login"
  BY DEF Base, LocalInv
<1>5. CASE CheckCredentials(h)
  BY <1>0, <1>1, <1>2, <1>3, <1>4, <1>5, GotoStep DEF CheckCredentials, Await, Presents, Refreshing
<1>6. CASE FindSession(h)
  BY <1>0, <1>1, <1>2, <1>3, <1>4, <1>6, GotoStep DEF FindSession, Await, Presents, Refreshing
<1>7. CASE CheckAccount(h)
  <2>1. \E a \in {"drop", "insert", "grant"} : Goto(h, a)
    BY <1>7 DEF CheckAccount
  <2> QED
    BY <1>0, <1>2, <1>3, <1>4, <1>7, <2>1, GotoStep
       DEF CheckAccount, Await, Presents, Refreshing, blame
<1>8. CASE Reread(h)
  <2>1. PICK a \in {"regrant", "burn"} : Goto(h, a)
    BY <1>8 DEF Reread
  <2>2. LocalsType'
    BY <1>8, <2>1, <1>3 DEF Reread, LocalsType, Goto, Await
  <2>3. LocalInv'
    BY <1>0, <1>3, <1>4, <1>8, <2>1
       DEF Reread, Base, LocalsType, LocalInv, Goto, Presents, Refreshing
  <2> QED BY <1>3, <1>8, <2>2, <2>3 DEF Reread, LocalsType, blame, Base, TypeOK, HistoryType
<1>9. CASE Lookup(h)
  BY <1>0, <1>1, <1>2, <1>3, <1>4, <1>9, GotoStep DEF Lookup, Await, Presents, Refreshing
<1>10. CASE VerifyCurrent(h)
  BY <1>0, <1>1, <1>2, <1>3, <1>10, GotoStep DEF VerifyCurrent, Await, Presents, Refreshing
<1>11. CASE WritePassword(h)
  BY <1>0, <1>1, <1>2, <1>3, <1>11, GotoStep DEF WritePassword, Await, Presents, Refreshing
<1>12. CASE SetBanned(h)
  BY <1>0, <1>2, <1>3, <1>12, GotoStep DEF SetBanned, Await, Presents, Refreshing, blame
<1>13. CASE Tombstone(h)
  BY <1>0, <1>1, <1>2, <1>3, <1>13, GotoStep DEF Tombstone, Await, Presents, Refreshing
<1> QED
  BY <1>5, <1>6, <1>7, <1>8, <1>9, <1>10, <1>11, <1>12, <1>13 DEF Quiet

\* The quiet steps keep the base of the invariant.
LEMMA QuietStep ==
    ASSUME Base, NEW h \in Handlers, Quiet(h)
    PROVE  Base'
<1>1. UNCHANGED <<sessions, cookie, handed, minted, reused, excused, bounds>>
  BY QuietFrame
<1>2. SessionType' /\ UserType'
  BY <1>1, QuietUser DEF Base, TypeOK, SessionType, sessions
<1>3. HistoryType'
  BY <1>1, QuietLocal DEF Base, TypeOK, HistoryType, minted, bounds
<1>4. FamilyInv'
  BY <1>1, QuietLocal, FamilyFrame DEF Base, sessions, minted
<1> QED BY <1>2, <1>3, <1>4, QuietLocal DEF Base, TypeOK

\* issueSession keeps the base: the new row takes the family of the row it was minted for.
LEMMA InsertBase ==
    ASSUME Base, NEW h \in Handlers, Insert(h)
    PROVE  Base'
<1>1. PICK t \in Tokens :
        /\ Fresh(t)
        /\ stored' = stored \cup {t}
        /\ family' = [family EXCEPT ![t] = IF kind[h] = "login" THEN t ELSE family[tok[h]]]
        /\ mint'   = [mint   EXCEPT ![h] = t]
        /\ parent' = [parent EXCEPT ![t] = tok[h]]
        /\ auth'   = [auth   EXCEPT ![t] = IF kind[h] = "login" THEN pass[h] ELSE auth[tok[h]]]
        /\ granted' = IF pc[h] = "grant" THEN granted \cup {t} ELSE granted
        /\ late'    = IF h \in raced THEN late \cup {t} ELSE late
  BY DEF Insert
<1>2. /\ pc[h] \in {"insert", "grant"}
      /\ Goto(h, IF kind[h] = "refresh" /\ pc[h] = "insert" THEN "link" ELSE "answer")
      /\ UNCHANGED <<revoked, expired, next, recent, secret, banned, cookie, kind, dev, tok,
                     pass, handed, raced, reused, excused, starts, edits, faults>>
  BY DEF Insert, users, blame, bounds
<1>3. t \notin stored /\ family[t] = NoToken /\ NoToken \notin Tokens
  BY <1>1, NullAssumption DEF Fresh
<1>4. \/ kind[h] = "login" /\ tok[h] = NoToken
      \/ kind[h] # "login" /\ tok[h] \in Tokens /\ family[tok[h]] \in Tokens
  BY <1>2 DEF Base, TypeOK, LocalsType, SessionType, LocalInv, FamilyInv, Presents, Refreshing
<1>5. /\ family'[t] \in Tokens /\ auth'[t] \in Nat
      /\ \A u \in Tokens \ {t} : family'[u] = family[u] /\ parent'[u] = parent[u]
      /\ parent'[t] = tok[h]
  BY <1>1, <1>4 DEF Base, TypeOK, SessionType, HistoryType, LocalsType
<1>6. SessionType'
  BY <1>1, <1>2, <1>4 DEF Base, TypeOK, SessionType
<1>7. UserType'
  BY <1>2 DEF Base, TypeOK, UserType
<1>8. LocalsType'
  BY <1>1, <1>2 DEF Base, TypeOK, LocalsType, Goto, Await
<1>9. HistoryType'
  BY <1>1, <1>2, <1>4, <1>5 DEF Base, TypeOK, HistoryType, LocalsType
<1>10. LocalInv'
  <2> SUFFICES ASSUME NEW g \in Handlers
               PROVE  /\ pc'[g] \in Presents => tok'[g] # NoToken /\ kind'[g] # "login"
                      /\ pc'[g] = "user" => tok'[g] = NoToken /\ kind'[g] = "login"
                      /\ pc'[g] \in Refreshing => kind'[g] = "refresh"
                      /\ pc'[g] = "insert" => \/ tok'[g] = NoToken /\ kind'[g] = "login"
                                              \/ tok'[g] # NoToken /\ kind'[g] = "refresh"
                      /\ mint'[g] # NoToken => pc'[g] \in {"link", "reread", "answer"}
                      /\ pc'[g] = "link" => mint'[g] # NoToken /\ parent'[mint'[g]] = tok'[g]
    BY DEF LocalInv, Presents, Refreshing
  <2>1. CASE g = h
    BY <2>1, <1>1, <1>2, <1>3, <1>4, <1>5
       DEF Base, TypeOK, LocalsType, LocalInv, Goto, Presents, Refreshing
  <2>2. CASE g # h
    <3>1. pc'[g] = pc[g] /\ mint'[g] = mint[g] /\ tok'[g] = tok[g] /\ kind'[g] = kind[g]
      BY <2>2, <1>1, <1>2 DEF Base, TypeOK, LocalsType, Goto
    <3>2. mint[g] # t
      BY <1>3 DEF Base, FamilyInv
    <3>3. mint[g] # NoToken => parent'[mint[g]] = parent[mint[g]]
      BY <3>2, <1>5 DEF Base, TypeOK, LocalsType
    <3> QED BY <3>1, <3>3 DEF Base, LocalInv
  <2> QED BY <2>1, <2>2
<1>11. FamilyInv'
  <2>0. \A u \in Tokens : family[u] # NoToken => family'[u] = family[u]
    BY <1>3, <1>5
  <2>1. \A u \in stored' \cup handed' : family'[u] # NoToken
    BY <1>1, <1>2, <1>3, <1>5, <2>0 DEF Base, TypeOK, SessionType, HistoryType, FamilyInv
  <2>2. \A d \in Devices : cookie'[d] # NoToken => family'[cookie'[d]] # NoToken
    BY <1>2, <2>0 DEF Base, TypeOK, UserType, FamilyInv
  <2>3. \A g \in Handlers : tok'[g] # NoToken => family'[tok'[g]] # NoToken
    BY <1>2, <2>0 DEF Base, TypeOK, LocalsType, FamilyInv
  <2>4. \A g \in Handlers : mint'[g] # NoToken => family'[mint'[g]] # NoToken
    BY <1>1, <1>3, <1>5, <2>0 DEF Base, TypeOK, LocalsType, FamilyInv
  <2>5. \A u \in Tokens : parent'[u] # NoToken =>
            family'[u] # NoToken /\ family'[parent'[u]] = family'[u]
    <3> SUFFICES ASSUME NEW u \in Tokens, parent'[u] # NoToken
                 PROVE  family'[u] # NoToken /\ family'[parent'[u]] = family'[u]
      OBVIOUS
    <3>1. CASE u # t
      BY <3>1, <1>5, <2>0 DEF Base, TypeOK, HistoryType, FamilyInv
    <3>2. CASE u = t
      <4>1. kind[h] # "login" /\ tok[h] \in Tokens /\ family[tok[h]] \in Tokens
        BY <3>2, <1>4, <1>5
      <4>2. family'[t] = family[tok[h]]
        BY <4>1, <1>1 DEF Base, TypeOK, SessionType
      <4>3. family'[tok[h]] = family[tok[h]]
        BY <4>1, <1>3, <2>0
      <4> QED BY <3>2, <4>1, <4>2, <4>3, <1>3, <1>5
    <3> QED BY <3>1, <3>2
  <2>6. \A u \in Tokens : next'[u] # NoToken =>
            family'[u] # NoToken /\ family'[next'[u]] = family'[u]
    BY <1>2, <1>3, <2>0 DEF Base, TypeOK, SessionType, FamilyInv
  <2> QED BY <2>1, <2>2, <2>3, <2>4, <2>5, <2>6 DEF FamilyInv
<1> QED BY <1>6, <1>7, <1>8, <1>9, <1>10, <1>11 DEF Base, TypeOK

\* The compare-and-set of refresh keeps the base: it links rows of one family.
LEMMA LinkBase ==
    ASSUME Base, NEW h \in Handlers, Link(h)
    PROVE  Base'
<1>1. /\ tok[h] \in Tokens /\ mint[h] \in Tokens
      /\ parent[mint[h]] = tok[h] /\ family[mint[h]] = family[tok[h]]
      /\ family[tok[h]] # NoToken /\ kind[h] = "refresh"
  BY DEF Link, Base, TypeOK, LocalsType, LocalInv, FamilyInv, Presents, Refreshing
<1>2. LocalsType' /\ LocalInv'
  <2>1. \E a \in {"answer", "reread"} : Goto(h, a)
    BY DEF Link
  <2>2. UNCHANGED <<locals, parent>>
    BY DEF Link, minted
  <2> QED BY <1>1, <2>1, <2>2, GotoStep, NullAssumption DEF Await, Presents, Refreshing
<1>3. next' \in [Tokens -> Tokens \cup {NoToken}] /\ recent' \subseteq Tokens
  BY <1>1 DEF Link, Base, TypeOK, SessionType
<1>4. SessionType' /\ UserType' /\ HistoryType'
  BY <1>3 DEF Link, Base, TypeOK, SessionType, UserType, HistoryType, users, minted, blame, bounds
<1>5. \A u \in Tokens : next'[u] # NoToken =>
            family[u] # NoToken /\ family[next'[u]] = family[u]
  BY <1>1 DEF Link, Base, TypeOK, SessionType, FamilyInv
<1>6. FamilyInv'
  BY <1>5 DEF Link, Base, FamilyInv, locals, minted
<1> QED BY <1>2, <1>4, <1>6 DEF Base, TypeOK

\* The steps that revoke the rows R.
Revokes(h, R) ==
    \/ pc[h] = "burn" /\ Burn(h) /\ R = Members(family[tok[h]])
    \/ pc[h] = "drop" /\ DropFamily(h) /\ R = Members(family[tok[h]])
    \/ pc[h] = "spare" /\ SpareOwnFamily(h) /\ R = stored \ Members(family[tok[h]])
    \/ pc[h] = "revokeAll" /\ RevokeAllSessions(h) /\ R = stored

\* The revocations keep the base: they only add to revoked.
LEMMA RevokeBase ==
    ASSUME Base, NEW h \in Handlers, NEW R, Revokes(h, R)
    PROVE  Base' /\ RevokeRows(R, {h}) /\ UNCHANGED <<cookie, handed, minted>>
           /\ ((Goto(h, "answer") /\ UNCHANGED locals /\ mint[h] = NoToken) \/ Ends(h))
           /\ ~Trusts(h)
<1>1. RevokeRows(R, {h}) /\ UNCHANGED <<users, cookie, handed, minted, bounds>>
  BY DEF Revokes, Burn, DropFamily, SpareOwnFamily, RevokeAllSessions
<1>2. R \subseteq stored /\ FamiliesOf(R) \subseteq Tokens
  BY FamiliesAreTokens DEF Revokes, Members
<1>3. pc[h] \in {"burn", "drop", "spare", "revokeAll"} /\ mint[h] = NoToken
  BY DEF Revokes, Base, LocalInv
<1>4. Ends(h) \/ (Goto(h, "answer") /\ UNCHANGED locals)
  BY DEF Revokes, Burn, DropFamily, SpareOwnFamily, RevokeAllSessions, Leaves
<1>5. parent' = parent
  BY <1>1 DEF minted
<1>6. /\ LocalsType' /\ LocalInv'
      /\ \A g \in Handlers : tok'[g] \in {tok[g], NoToken} /\ mint'[g] \in {mint[g], NoToken}
  <2>1. CASE Ends(h) BY <2>1, <1>5, EndsStep
  <2>2. CASE Goto(h, "answer") /\ UNCHANGED locals
    BY <2>2, <1>3, <1>5, GotoStep DEF Await, Presents, Refreshing, locals
  <2> QED BY <1>4, <2>1, <2>2
<1>7. SessionType' /\ UserType'
  BY <1>1, <1>2 DEF Base, TypeOK, SessionType, UserType, RevokeRows, users
<1>8. reused' \subseteq Tokens /\ excused' \subseteq Tokens
  <2>1. pc[h] \in {"burn", "drop"} => family[tok[h]] \in Tokens
    BY DEF Base, TypeOK, SessionType, LocalsType, LocalInv, FamilyInv, Presents, Refreshing
  <2> QED BY <1>2, <2>1
     DEF Revokes, Burn, DropFamily, SpareOwnFamily, RevokeAllSessions, Excuses, Base, TypeOK,
         HistoryType
<1>9. raced' \subseteq Handlers
  BY <1>1 DEF RevokeRows, Base, TypeOK, HistoryType
<1>10. HistoryType'
  BY <1>1, <1>8, <1>9 DEF Base, TypeOK, HistoryType, minted, bounds
<1>11. FamilyInv'
  BY <1>1, <1>6, FamilyFrame DEF Base, RevokeRows, minted
<1> QED BY <1>1, <1>3, <1>4, <1>6, <1>7, <1>10, <1>11 DEF Base, TypeOK, Trusts

\* A response keeps the base: the cookie it sets names a minted token.
LEMMA RespondBase ==
    ASSUME Base, NEW h \in Handlers, Respond(h)
    PROVE  Base'
<1>1. /\ cookie' = [cookie EXCEPT ![dev[h]] = mint[h]]
      /\ handed' = handed \cup ({mint[h]} \ {NoToken})
      /\ Ends(h) /\ raced' = raced \ {h}
      /\ UNCHANGED <<sessions, users, minted, reused, excused, bounds>>
  BY DEF Respond
<1>2. mint[h] \in Tokens \cup {NoToken}
  BY DEF Base, TypeOK, LocalsType
<1>3. /\ LocalsType' /\ LocalInv'
      /\ \A g \in Handlers : tok'[g] \in {tok[g], NoToken} /\ mint'[g] \in {mint[g], NoToken}
  BY <1>1, EndsStep DEF minted
<1>4. UserType'
  BY <1>1, <1>2 DEF Base, TypeOK, UserType, users
<1>5. SessionType' /\ HistoryType'
  BY <1>1, <1>2 DEF Base, TypeOK, SessionType, HistoryType, sessions, minted, bounds
<1>6. /\ mint[h] # NoToken => family[mint[h]] # NoToken
      /\ \A d \in Devices : cookie'[d] \in {cookie[d], mint[h]}
  BY <1>1 DEF Base, TypeOK, UserType, FamilyInv
<1>7. FamilyInv'
  BY <1>1, <1>3, <1>6 DEF Base, FamilyInv, sessions, minted
<1> QED BY <1>3, <1>4, <1>5, <1>7 DEF Base, TypeOK

\* The steps that revoke, mint and link nothing: the deletion of the rows, crashes,
\* time and the unban.
Apart == \/ \E h \in Handlers : DeleteSessions(h) \/ Crash(h)
         \/ Unban
         \/ \E t \in Tokens : Age(t) \/ Expire(t) \/ Purge(t)

\* Deletions, crashes and time neither revoke nor link nor mint.
LEMMA ApartFrame ==
    ASSUME Apart
    PROVE  /\ stored' \subseteq stored
           /\ UNCHANGED <<revoked, family, next, cookie, handed, minted, reused>>
BY DEF Apart, DeleteSessions, Crash, Unban, Age, Expire, Purge, sessions, blame

\* Deletions, crashes and time keep the base.
LEMMA ApartBase ==
    ASSUME Base, Apart
    PROVE  /\ Base'
           /\ \/ \E h \in Handlers : Ends(h) /\ raced' = raced \ {h}
              \/ UNCHANGED <<pc, locals, raced>>
<1>1. /\ stored' \subseteq stored
      /\ UNCHANGED <<revoked, family, next, cookie, handed, minted, reused>>
  BY ApartFrame
<1>2. \/ \E h \in Handlers : Ends(h) /\ raced' = raced \ {h}
      \/ UNCHANGED <<pc, locals, raced>>
  BY DEF Apart, DeleteSessions, Crash, Unban, Age, Expire, Purge, blame
<1>3. /\ LocalsType' /\ LocalInv'
      /\ \A g \in Handlers : tok'[g] \in {tok[g], NoToken} /\ mint'[g] \in {mint[g], NoToken}
      /\ raced' \subseteq Handlers
  <2>1. ASSUME NEW h \in Handlers, Ends(h), raced' = raced \ {h}
        PROVE  /\ LocalsType' /\ LocalInv'
               /\ \A g \in Handlers : /\ tok'[g]  \in {tok[g], NoToken}
                                     /\ mint'[g] \in {mint[g], NoToken}
               /\ raced' \subseteq Handlers
    BY <2>1, <1>1, EndsStep DEF minted, Base, TypeOK, HistoryType
  <2>2. CASE UNCHANGED <<pc, locals, raced>>
    BY <2>2, <1>1 DEF minted, locals, Base, TypeOK, HistoryType, LocalsType, LocalInv
  <2> QED BY <1>2, <2>1, <2>2
<1>4. recent' \subseteq Tokens /\ expired' \subseteq Tokens
  BY DEF Apart, DeleteSessions, Crash, Unban, Age, Expire, Purge, sessions, Base, TypeOK,
         SessionType
<1>5. SessionType'
  BY <1>1, <1>4 DEF Base, TypeOK, SessionType
<1>6. secret' = secret /\ (banned' = banned \/ banned' = FALSE)
  BY Zenon DEF Apart, DeleteSessions, Crash, Unban, Age, Expire, Purge, users
<1>7. UserType'
  <2>1. secret' \in Nat /\ cookie' \in [Devices -> Tokens \cup {NoToken}]
    BY <1>1, <1>6 DEF Base, TypeOK, UserType
  <2>2. banned' \in BOOLEAN
    BY Zenon, <1>6 DEF Base, TypeOK, UserType
  <2> QED BY Zenon, <2>1, <2>2 DEF UserType
<1>8. starts' \in Nat /\ edits' \in Nat /\ faults' \in Nat
  <2>1. /\ starts' = starts
        /\ edits' = edits \/ edits' = edits + 1
        /\ faults' = faults \/ faults' = faults + 1
    BY Zenon DEF Apart, DeleteSessions, Crash, Unban, Age, Expire, Purge, bounds
  <2> QED BY <2>1 DEF Base, TypeOK, HistoryType
<1>9. excused' \subseteq Tokens
  <2>1. \A t \in stored : family[t] \in Tokens
    BY DEF Base, TypeOK, SessionType, FamilyInv
  <2>2. excused \subseteq Tokens /\ stored \subseteq Tokens
    BY DEF Base, TypeOK, HistoryType, SessionType
  <2>3. ASSUME NEW h \in Handlers, DeleteSessions(h) PROVE excused' \subseteq Tokens
    BY <2>2, <2>3, FamiliesAreTokens DEF DeleteSessions, Excuses
  <2>4. ASSUME NEW h \in Handlers, Crash(h) PROVE excused' \subseteq Tokens
    <3>1. tok[h] # NoToken => family[tok[h]] \in Tokens
      BY DEF Base, TypeOK, LocalsType, SessionType, FamilyInv
    <3> QED BY <2>2, <2>4, <3>1 DEF Crash, Excuses
  <2>5. CASE Unban BY <2>2, <2>5 DEF Unban, blame
  <2>6. ASSUME NEW t \in Tokens, Age(t) PROVE excused' \subseteq Tokens
    <3>1. Presenting(t) # {} => family[t] \in Tokens
      BY NullAssumption DEF Presenting, Base, TypeOK, SessionType, FamilyInv
    <3> QED BY <2>2, <2>6, <3>1 DEF Age, Excuses
  <2>7. ASSUME NEW t \in Tokens, Expire(t) PROVE excused' \subseteq Tokens
    BY <2>2, <2>7 DEF Expire, blame
  <2>8. ASSUME NEW t \in Tokens, Purge(t) PROVE excused' \subseteq Tokens
    BY <2>1, <2>2, <2>8 DEF Purge, Excuses
  <2> QED BY <2>3, <2>4, <2>5, <2>6, <2>7, <2>8 DEF Apart
<1>10. HistoryType'
  BY <1>1, <1>3, <1>8, <1>9 DEF Base, TypeOK, HistoryType, minted
<1>11. FamilyInv'
  BY <1>1, <1>3, FamilyFrame DEF Base, minted
<1> QED BY <1>2, <1>3, <1>5, <1>7, <1>10, <1>11 DEF Base, TypeOK

\* DELETE /auth/sessions/:id and a forced logout keep the base.
LEMMA RevokeSessionBase ==
    ASSUME Base, RevokeSession
    PROVE  Base'
<1>1. PICK R \in {Members(family[t]) : t \in stored} \cup {stored} :
        RevokeRows(R, {}) /\ Excuses(FamiliesOf(R))
  BY DEF RevokeSession
<1>2. /\ R \subseteq stored /\ FamiliesOf(R) \subseteq Tokens
      /\ edits' \in Nat
      /\ UNCHANGED <<users, cookie, pc, locals, handed, minted, reused, starts, faults>>
  BY FamiliesAreTokens DEF RevokeSession, Members, Base, TypeOK, HistoryType
<1>3. SessionType' /\ UserType'
  BY <1>1, <1>2 DEF Base, TypeOK, SessionType, UserType, RevokeRows, users
<1>4. LocalsType' /\ LocalInv'
  BY <1>2 DEF Base, TypeOK, LocalsType, LocalInv, locals, minted
<1>5. HistoryType'
  BY <1>1, <1>2 DEF Base, TypeOK, HistoryType, RevokeRows, Excuses, minted
<1>6. FamilyInv'
  BY <1>1, <1>2, FamilyFrame DEF Base, RevokeRows, minted, locals
<1> QED BY <1>3, <1>4, <1>5, <1>6 DEF Base, TypeOK

-----------------------------------------------------------------------------
(* Rotation and revocation *)

Keys == HandedTokensAreLinked /\ SuccessorDiesToo /\ RevivedOnlyByRace

\* The three safety properties survive a step that only removes rows.
LEMMA KeysFrame ==
    ASSUME Keys, stored' \subseteq stored, UNCHANGED <<revoked, next, handed, minted>>
    PROVE  Keys'
BY DEF Keys, HandedTokensAreLinked, SuccessorDiesToo, RevivedOnlyByRace, minted

\* Requests other than h hold and trust no more than before.
LEMMA RelyFrame ==
    ASSUME RelyInv, NEW h \in Handlers,
           \A g \in Handlers \ {h} : pc'[g] = pc[g] /\ tok'[g] = tok[g] /\ mint'[g] = mint[g],
           raced \ {h} \subseteq raced', UNCHANGED <<revoked, next, minted>>,
           Trusts(h)' => tok'[h] \notin revoked' \/ h \in raced',
           pc'[h] = "answer" /\ mint'[h] # NoToken => Linked(mint[h])'
    PROVE  RelyInv'
<1> SUFFICES ASSUME NEW g \in Handlers
             PROVE  /\ Trusts(g)' => tok'[g] \notin revoked' \/ g \in raced'
                    /\ pc'[g] = "answer" /\ mint'[g] # NoToken => Linked(mint[g])'
  BY DEF RelyInv
<1>1. CASE g = h BY <1>1
<1>2. CASE g # h
  <2>1. Trusts(g)' = Trusts(g) /\ Linked(mint[g])' = Linked(mint[g])
    BY <1>2 DEF Trusts, Linked, minted
  <2> QED BY <1>2, <2>1 DEF RelyInv
<1> QED BY <1>1, <1>2

\* A request that arrives relies on nothing yet and changes no row.
LEMMA ArrivalKeys ==
    ASSUME IInv, NEW h \in Handlers, Arrival(h)
    PROVE  RelyInv' /\ Keys'
<1>1. PICK a \in {"user", "find", "revokeAll", "lookup", "verify", "write", "flag", "tombstone"} :
        Goto(h, a)
  BY DEF Arrival, StartLogin, StartRefresh, StartLogout, StartRevokeOthers,
         StartChangePassword, StartReset, StartBan, StartErase, Starts
<1>2. /\ UNCHANGED <<sessions, mint, handed, minted, blame>>
      /\ \E t : tok' = [tok EXCEPT ![h] = t]
  BY DEF Arrival, StartLogin, StartRefresh, StartLogout, StartRevokeOthers,
         StartChangePassword, StartReset, StartBan, StartErase, Starts
<1>3. Keys'
  BY <1>2, KeysFrame DEF IInv, Keys, sessions
<1>4. RelyInv'
  <2>1. \A g \in Handlers \ {h} : pc'[g] = pc[g] /\ tok'[g] = tok[g] /\ mint'[g] = mint[g]
    BY <1>1, <1>2 DEF Goto, IInv, Base, TypeOK, LocalsType
  <2>2. pc'[h] = a
    BY <1>1 DEF Goto, IInv, Base, TypeOK, LocalsType
  <2> QED BY <1>1, <1>2, <2>1, <2>2, RelyFrame DEF IInv, sessions, blame, Trusts
<1> QED BY <1>3, <1>4

\* A request that ends relies on nothing.
LEMMA EndsKeys ==
    ASSUME IInv, NEW h \in Handlers, Ends(h), raced' = raced \ {h},
           UNCHANGED <<revoked, next, minted>>
    PROVE  RelyInv'
<1>1. \A g \in Handlers \ {h} : pc'[g] = pc[g] /\ tok'[g] = tok[g] /\ mint'[g] = mint[g]
  BY DEF Ends, Goto, IInv, Base, TypeOK, LocalsType
<1>2. pc'[h] = "idle"
  BY DEF Ends, Goto, IInv, Base, TypeOK, LocalsType
<1> QED BY <1>1, <1>2, RelyFrame DEF IInv, Trusts

\* The quiet steps keep the safety properties and what requests rely on.
LEMMA QuietKeys ==
    ASSUME IInv, NEW h \in Handlers, Quiet(h)
    PROVE  RelyInv' /\ Keys'
<1>1. UNCHANGED <<sessions, cookie, handed, minted, reused, excused, bounds>>
  BY QuietFrame
<1>2. Keys'
  BY <1>1, KeysFrame DEF IInv, Keys, sessions
<1>3. CASE Ends(h) /\ raced' = raced \ {h}
  BY <1>1, <1>2, <1>3, EndsKeys DEF sessions
<1>4. CASE Reread(h)
  <2>1. \A g \in Handlers \ {h} : pc'[g] = pc[g] /\ tok'[g] = tok[g] /\ mint'[g] = mint[g]
    BY <1>4 DEF Reread, Goto, IInv, Base, TypeOK, LocalsType
  <2>2. tok' = tok /\ raced' = raced /\ mint'[h] = NoToken /\ Trusts(h)
    BY <1>4 DEF Reread, Goto, IInv, Base, TypeOK, LocalsType, blame, Trusts
  <2> QED BY <1>1, <1>2, <2>1, <2>2, RelyFrame DEF IInv, RelyInv, sessions
<1>5. CASE UNCHANGED <<locals, raced>> /\ ~Reread(h)
  <2>1. /\ \A g \in Handlers \ {h} : pc'[g] = pc[g] /\ tok'[g] = tok[g] /\ mint'[g] = mint[g]
        /\ tok' = tok /\ mint' = mint /\ raced' = raced
    BY <1>5 DEF Quiet, CheckCredentials, FindSession, CheckAccount, Lookup, VerifyCurrent,
                WritePassword, SetBanned, Tombstone, Goto, Ends, IInv, Base, TypeOK,
                LocalsType, locals
  <2>2. mint[h] = NoToken
    BY <1>5 DEF Quiet, CheckCredentials, FindSession, CheckAccount, Lookup, VerifyCurrent,
                WritePassword, SetBanned, Tombstone, IInv, Base, LocalInv
  <2>3. Trusts(h)' => tok[h] \notin revoked \/ h \in raced
    <3>1. CASE CheckCredentials(h)
      <4>1. tok[h] = NoToken
        BY <3>1 DEF CheckCredentials, IInv, Base, LocalInv
      <4> QED BY <4>1, NullAssumption DEF IInv, Base, TypeOK, SessionType
    <3>2. CASE FindSession(h)
      BY <3>2 DEF FindSession, Trusts, Goto, Ends, IInv, Base, TypeOK, LocalsType
    <3>3. CASE CheckAccount(h)
      BY <3>3 DEF CheckAccount, Trusts, IInv, RelyInv
    <3>4. CASE Lookup(h) \/ VerifyCurrent(h) \/ WritePassword(h) \/ SetBanned(h) \/ Tombstone(h)
      BY <3>4 DEF Lookup, VerifyCurrent, WritePassword, SetBanned, Tombstone, Trusts, Goto,
                  Ends, IInv, Base, TypeOK, LocalsType
    <3> QED BY <1>5, <3>1, <3>2, <3>3, <3>4 DEF Quiet
  <2> QED BY <1>1, <1>2, <2>1, <2>2, <2>3, RelyFrame DEF IInv, sessions
<1> QED
  BY <1>2, <1>3, <1>4, <1>5
     DEF Quiet, CheckCredentials, FindSession, CheckAccount, Lookup, VerifyCurrent,
         WritePassword, SetBanned, Tombstone, blame

\* issueSession keeps the safety properties: a row minted for a revoked one is late.
LEMMA InsertKeys ==
    ASSUME IInv, NEW h \in Handlers, Insert(h)
    PROVE  RelyInv' /\ Keys'
<1>1. PICK t \in Tokens :
        /\ Fresh(t)
        /\ stored' = stored \cup {t}
        /\ mint'   = [mint   EXCEPT ![h] = t]
        /\ parent' = [parent EXCEPT ![t] = tok[h]]
        /\ granted' = IF pc[h] = "grant" THEN granted \cup {t} ELSE granted
        /\ late'    = IF h \in raced THEN late \cup {t} ELSE late
  BY DEF Insert
<1>2. /\ pc[h] \in {"insert", "grant"}
      /\ Goto(h, IF kind[h] = "refresh" /\ pc[h] = "insert" THEN "link" ELSE "answer")
      /\ UNCHANGED <<revoked, next, tok, kind, handed, raced>>
  BY DEF Insert, blame
<1>3. /\ t \notin stored \cup handed /\ family[t] = NoToken /\ next[t] = NoToken
      /\ \A u \in Tokens : parent[u] # t /\ next[u] # t
      /\ \A g \in Handlers : mint[g] # t
  BY <1>1, NullAssumption DEF Fresh, IInv, Base, FamilyInv
<1>4. /\ \A u \in Tokens \ {t} : parent'[u] = parent[u]
      /\ parent'[t] = tok[h]
  BY <1>1 DEF IInv, Base, TypeOK, HistoryType
<1>5. \A u \in Tokens \ {t} : Linked(u) => Linked(u)'
  BY <1>1, <1>2, <1>4 DEF Linked
<1>6. tok[h] \notin revoked \/ h \in raced
  BY <1>2 DEF IInv, RelyInv, Trusts
<1>7. HandedTokensAreLinked'
  <2>1. \A u \in handed : Linked(u)
    BY DEF IInv, HandedTokensAreLinked, Linked
  <2>2. \A u \in handed' : Linked(u)'
    BY <1>2, <1>3, <1>5, <2>1 DEF IInv, Base, TypeOK, HistoryType
  <2> QED BY <2>2 DEF HandedTokensAreLinked, Linked
<1>8. SuccessorDiesToo'
  BY <1>1, <1>2, <1>3 DEF IInv, SuccessorDiesToo
<1>9. RevivedOnlyByRace'
  BY <1>1, <1>2, <1>4, <1>6 DEF IInv, RevivedOnlyByRace, Base, TypeOK, SessionType
<1>10. RelyInv'
  <2> SUFFICES ASSUME NEW g \in Handlers
               PROVE  /\ Trusts(g)' => tok'[g] \notin revoked' \/ g \in raced'
                      /\ pc'[g] = "answer" /\ mint'[g] # NoToken => Linked(mint[g])'
    BY DEF RelyInv
  <2>1. CASE g = h
    <3>1. Linked(t)' \/ pc'[h] # "answer"
      <4>1. CASE pc[h] = "grant"
        BY <4>1, <1>1 DEF Linked
      <4>2. CASE pc[h] = "insert" /\ kind[h] = "login"
        BY <4>2, <1>4 DEF Linked, IInv, Base, LocalInv
      <4>3. CASE pc[h] = "insert" /\ kind[h] = "refresh"
        BY <4>3, <1>2 DEF Goto, IInv, Base, TypeOK, LocalsType
      <4>4. pc[h] = "insert" => kind[h] \in {"login", "refresh"}
        BY DEF IInv, Base, LocalInv
      <4> QED BY <1>2, <4>1, <4>2, <4>3, <4>4
    <3> QED BY <2>1, <3>1, <1>1, <1>2, <1>6 DEF IInv, Base, TypeOK, LocalsType
  <2>2. CASE g # h
    <3>1. pc'[g] = pc[g] /\ tok'[g] = tok[g] /\ mint'[g] = mint[g]
      BY <2>2, <1>1, <1>2 DEF Goto, IInv, Base, TypeOK, LocalsType
    <3>2. Trusts(g)' = Trusts(g)
      BY <3>1 DEF Trusts
    <3>3. pc[g] = "answer" /\ mint[g] # NoToken => Linked(mint[g])'
      BY <1>3, <1>5, <3>1 DEF IInv, RelyInv, Base, TypeOK, LocalsType, Linked
    <3> QED BY <1>2, <3>1, <3>2, <3>3 DEF IInv, RelyInv
  <2> QED BY <2>1, <2>2
<1> QED BY <1>7, <1>8, <1>9, <1>10 DEF Keys

\* The link keeps the safety properties: only a row that is not revoked is linked, once.
LEMMA LinkKeys ==
    ASSUME IInv, NEW h \in Handlers, Link(h)
    PROVE  RelyInv' /\ Keys'
<1>1. /\ pc[h] = "link" /\ tok[h] \in Tokens /\ mint[h] \in Tokens
      /\ parent[mint[h]] = tok[h]
      /\ UNCHANGED <<stored, revoked, family, locals, handed, minted, raced>>
  BY DEF Link, IInv, Base, TypeOK, LocalsType, LocalInv, Presents, Refreshing, blame
<1>2. \A g \in Handlers \ {h} : pc'[g] = pc[g]
  BY DEF Link, Goto, IInv, Base, TypeOK, LocalsType
<1>3. CASE /\ tok[h] \in stored \ revoked /\ next[tok[h]] = NoToken
           /\ next' = [next EXCEPT ![tok[h]] = mint[h]]
           /\ pc'[h] = "answer"
  <2>1. next'[tok[h]] = mint[h] /\ \A u \in Tokens \ {tok[h]} : next'[u] = next[u]
    BY <1>1, <1>3 DEF IInv, Base, TypeOK, SessionType
  <2>2. \A u \in Tokens : Linked(u) => Linked(u)'
    <3> SUFFICES ASSUME NEW u \in Tokens, Linked(u) PROVE Linked(u)'
      OBVIOUS
    <3>1. parent' = parent /\ granted' = granted
      BY <1>1 DEF minted
    <3>2. CASE parent[u] = NoToken \/ u \in granted BY <3>1, <3>2 DEF Linked
    <3>3. CASE parent[u] # NoToken /\ next[parent[u]] = u
      BY <1>3, <2>1, <3>1, <3>3, NullAssumption DEF Linked, IInv, Base, TypeOK, HistoryType
    <3> QED BY <3>2, <3>3 DEF Linked
  <2>3. Linked(mint[h])'
    BY <1>1, <2>1 DEF Linked, locals, minted
  <2>4. HandedTokensAreLinked'
    BY <1>1, <2>2 DEF IInv, HandedTokensAreLinked, Linked, Base, TypeOK, HistoryType
  <2>5. SuccessorDiesToo'
    BY <1>1, <1>3, <2>1 DEF IInv, SuccessorDiesToo
  <2>6. RevivedOnlyByRace'
    BY <1>1 DEF IInv, RevivedOnlyByRace, minted
  <2>7. RelyInv'
    <3> SUFFICES ASSUME NEW g \in Handlers
                 PROVE  /\ Trusts(g)' => tok'[g] \notin revoked' \/ g \in raced'
                        /\ pc'[g] = "answer" /\ mint'[g] # NoToken => Linked(mint[g])'
      BY DEF RelyInv
    <3>1. CASE g = h BY <3>1, <1>1, <1>3, <2>3 DEF Trusts, locals
    <3>2. CASE g # h
      BY <3>2, <1>1, <1>2, <2>2 DEF IInv, RelyInv, Base, TypeOK, LocalsType, Trusts, locals, Linked
    <3> QED BY <3>1, <3>2
  <2> QED BY <2>4, <2>5, <2>6, <2>7 DEF Keys
<1>4. CASE next' = next /\ pc'[h] = "reread"
  <2>1. Keys'
    BY <1>1, <1>4, KeysFrame DEF IInv, Keys
  <2> QED BY <1>1, <1>2, <1>4, <2>1, RelyFrame DEF IInv, RelyInv, Trusts, locals
<1> QED
  BY <1>3, <1>4 DEF Link, Goto, IInv, Base, TypeOK, LocalsType

\* Rows are revoked by whole families.
Closed(R) == \A a \in R, b \in stored : family[a] = family[b] => b \in R

\* A revocation of whole families keeps the safety properties.
LEMMA RevokeRowsKeys ==
    ASSUME Base, Keys, NEW R \in SUBSET stored, Closed(R), NEW D, RevokeRows(R, D),
           UNCHANGED <<handed, minted>>
    PROVE  Keys'
<1>1. stored' = stored /\ family' = family /\ next' = next /\ revoked' = revoked \cup R
  BY DEF RevokeRows
<1>2. HandedTokensAreLinked'
  BY <1>1 DEF Keys, HandedTokensAreLinked, minted
<1>3. SuccessorDiesToo'
  <2> SUFFICES ASSUME NEW t \in Tokens, next[t] \in stored \ revoked, next[t] \notin R
               PROVE  t \notin revoked \cup R
    BY <1>1 DEF SuccessorDiesToo
  <2>1. t \notin revoked
    BY DEF Keys, SuccessorDiesToo
  <2>2. t \in R => family[next[t]] = family[t]
    BY NullAssumption DEF Base, TypeOK, SessionType, FamilyInv
  <2> QED BY <2>1, <2>2 DEF Closed
<1>4. RevivedOnlyByRace'
  <2> SUFFICES ASSUME NEW t \in stored \ revoked, t \notin R, parent[t] \in revoked \cup R
               PROVE  t \in late
    BY <1>1 DEF RevivedOnlyByRace, minted
  <2>1. parent[t] \in R => family[parent[t]] = family[t]
    BY NullAssumption DEF Base, TypeOK, SessionType, HistoryType, FamilyInv
  <2> QED BY <2>1 DEF Closed, Keys, RevivedOnlyByRace
<1> QED BY <1>2, <1>3, <1>4 DEF Keys

\* Requests that rely on a revoked row have been overtaken.
LEMMA RevokeRowsRely ==
    ASSUME Base, RelyInv, NEW R \in SUBSET stored, NEW D \in SUBSET Handlers, RevokeRows(R, D),
           NEW g \in Handlers \ D, Trusts(g)
    PROVE  tok[g] \notin revoked' \/ g \in raced'
<1>1. tok[g] \in R => tok[g] # NoToken /\ family[tok[g]] \in FamiliesOf(R)
  BY NullAssumption DEF FamiliesOf, Base, TypeOK, SessionType
<1> QED BY <1>1 DEF RevokeRows, RelyInv

\* The revocations by a request keep them: each of them takes whole families.
LEMMA RevokeKeys ==
    ASSUME IInv, NEW h \in Handlers, NEW R, Revokes(h, R)
    PROVE  RelyInv' /\ Keys'
<1>1. /\ RevokeRows(R, {h}) /\ UNCHANGED <<handed, minted>> /\ next' = next
      /\ ((Goto(h, "answer") /\ UNCHANGED locals /\ mint[h] = NoToken) \/ Ends(h))
  BY RevokeBase DEF IInv, RevokeRows
<1>2. R \subseteq stored /\ Closed(R)
  BY DEF Revokes, Members, Closed
<1>3. Keys'
  BY <1>1, <1>2, RevokeRowsKeys DEF IInv, Keys
<1>4. /\ pc'[h] \in {"answer", "idle"} /\ mint'[h] = NoToken
      /\ \A g \in Handlers \ {h} : pc'[g] = pc[g] /\ tok'[g] = tok[g] /\ mint'[g] = mint[g]
  BY <1>1 DEF Goto, Ends, IInv, Base, TypeOK, LocalsType, locals
<1>5. RelyInv'
  <2> SUFFICES ASSUME NEW g \in Handlers
               PROVE  /\ Trusts(g)' => tok'[g] \notin revoked' \/ g \in raced'
                      /\ pc'[g] = "answer" /\ mint'[g] # NoToken => Linked(mint[g])'
    BY DEF RelyInv
  <2>1. CASE g = h BY <2>1, <1>4 DEF Trusts
  <2>2. CASE g # h
    <3>1. Trusts(g)' = Trusts(g) /\ Linked(mint[g])' = Linked(mint[g])
      BY <2>2, <1>1, <1>4 DEF Trusts, Linked, minted
    <3>2. Trusts(g) => tok[g] \notin revoked' \/ g \in raced'
      BY <2>2, <1>1, <1>2, RevokeRowsRely DEF IInv
    <3> QED BY <2>2, <1>4, <3>1, <3>2 DEF IInv, RelyInv
  <2> QED BY <2>1, <2>2
<1> QED BY <1>3, <1>5

\* So does the revocation of one login, or of all, from elsewhere.
LEMMA RevokeSessionKeys ==
    ASSUME IInv, RevokeSession
    PROVE  RelyInv' /\ Keys'
<1>1. PICK R \in {Members(family[t]) : t \in stored} \cup {stored} : RevokeRows(R, {})
  BY DEF RevokeSession
<1>2. /\ R \in SUBSET stored /\ Closed(R)
      /\ UNCHANGED <<pc, tok, mint, handed, minted>> /\ next' = next
  BY <1>1 DEF RevokeSession, Members, Closed, locals, RevokeRows
<1>3. Keys'
  BY <1>1, <1>2, RevokeRowsKeys DEF IInv, Keys
<1>4. RelyInv'
  <2> SUFFICES ASSUME NEW g \in Handlers
               PROVE  /\ Trusts(g)' => tok'[g] \notin revoked' \/ g \in raced'
                      /\ pc'[g] = "answer" /\ mint'[g] # NoToken => Linked(mint[g])'
    BY DEF RelyInv
  <2>1. Trusts(g)' = Trusts(g) /\ Linked(mint[g])' = Linked(mint[g])
    BY <1>2 DEF Trusts, Linked, minted
  <2>2. Trusts(g) => tok[g] \notin revoked' \/ g \in raced'
    BY <1>1, <1>2, RevokeRowsRely DEF IInv
  <2> QED BY <1>2, <2>1, <2>2 DEF IInv, RelyInv
<1> QED BY <1>3, <1>4

\* A response keeps them: what a rotation hands out has been linked.
LEMMA RespondKeys ==
    ASSUME IInv, NEW h \in Handlers, Respond(h)
    PROVE  RelyInv' /\ Keys'
<1>1. /\ pc[h] = "answer" /\ handed' = handed \cup ({mint[h]} \ {NoToken})
      /\ Ends(h) /\ raced' = raced \ {h}
      /\ UNCHANGED <<sessions, minted>>
  BY DEF Respond
<1>2. RelyInv'
  BY <1>1, EndsKeys DEF sessions
<1>3. mint[h] # NoToken => Linked(mint[h])
  BY <1>1 DEF IInv, RelyInv
<1>4. HandedTokensAreLinked'
  BY <1>1, <1>3 DEF IInv, HandedTokensAreLinked, Linked, sessions, minted
<1>5. SuccessorDiesToo' /\ RevivedOnlyByRace'
  BY <1>1 DEF IInv, SuccessorDiesToo, RevivedOnlyByRace, sessions, minted
<1> QED BY <1>2, <1>4, <1>5 DEF Keys

\* Deletions, crashes and time keep the safety properties and what requests rely on.
LEMMA ApartKeys ==
    ASSUME IInv, Apart
    PROVE  RelyInv' /\ Keys'
<1>1. /\ stored' \subseteq stored
      /\ UNCHANGED <<revoked, family, next, cookie, handed, minted, reused>>
  BY ApartFrame
<1>2. Keys'
  BY <1>1, KeysFrame DEF IInv, Keys
<1>3. CASE \E h \in Handlers : Ends(h) /\ raced' = raced \ {h}
  BY <1>1, <1>2, <1>3, EndsKeys
<1>4. CASE UNCHANGED <<pc, locals, raced>>
  <2>1. \A g \in Handlers : Trusts(g)' = Trusts(g) /\ Linked(mint[g])' = Linked(mint[g])
    BY <1>1, <1>4 DEF Trusts, Linked, locals, minted
  <2>2. RelyInv'
    BY <1>1, <1>4, <2>1 DEF IInv, RelyInv, locals
  <2> QED BY <1>2, <2>2
<1> QED BY <1>2, <1>3, <1>4, ApartBase DEF IInv

-----------------------------------------------------------------------------
(* The theorems *)

\* An account without sessions satisfies the invariant.
LEMMA InvInit == Init => IInv
<1> SUFFICES ASSUME Init PROVE IInv
  OBVIOUS
<1>1. SessionType /\ LocalsType /\ HistoryType
  BY DEF Init, SessionType, LocalsType, HistoryType, Await, Unusable
<1>2. secret \in Nat /\ cookie \in [Devices -> Tokens \cup {NoToken}]
  BY DEF Init
<1>3. UserType
  BY Zenon, <1>2 DEF Init, UserType
<1>4. LocalInv /\ FamilyInv
  BY DEF Init, LocalInv, FamilyInv, Presents, Refreshing
<1>5. RelyInv
  BY DEF Init, RelyInv, Trusts
<1>6. HandedTokensAreLinked /\ SuccessorDiesToo /\ RevivedOnlyByRace
  BY DEF Init, HandedTokensAreLinked, SuccessorDiesToo, RevivedOnlyByRace
<1> QED BY <1>1, <1>3, <1>4, <1>5, <1>6 DEF IInv, Base, TypeOK

\* Every step keeps the invariant.
LEMMA InvNext == IInv /\ [Next]_vars => IInv'
<1> SUFFICES ASSUME IInv, [Next]_vars PROVE IInv'
  OBVIOUS
<1>1. ASSUME NEW h \in Handlers, Arrival(h) PROVE IInv'
  BY <1>1, ArrivalStep, ArrivalKeys DEF IInv, Keys
<1>2. ASSUME NEW h \in Handlers, Quiet(h) PROVE IInv'
  BY <1>2, QuietStep, QuietKeys DEF IInv, Keys
<1>3. ASSUME NEW h \in Handlers, Insert(h) PROVE IInv'
  BY <1>3, InsertBase, InsertKeys DEF IInv, Keys
<1>4. ASSUME NEW h \in Handlers, Link(h) PROVE IInv'
  BY <1>4, LinkBase, LinkKeys DEF IInv, Keys
<1>5. ASSUME NEW h \in Handlers, NEW R, Revokes(h, R) PROVE IInv'
  BY <1>5, RevokeBase, RevokeKeys DEF IInv, Keys
<1>6. ASSUME NEW h \in Handlers, Respond(h) PROVE IInv'
  BY <1>6, RespondBase, RespondKeys DEF IInv, Keys
<1>7. CASE RevokeSession
  BY <1>7, RevokeSessionBase, RevokeSessionKeys DEF IInv, Keys
<1>8. CASE Apart
  BY <1>8, ApartBase, ApartKeys DEF IInv, Keys
<1>9. CASE UNCHANGED vars
  BY <1>9 DEF vars, sessions, users, locals, minted, blame, bounds, IInv, Base, TypeOK,
     SessionType, UserType, LocalsType, HistoryType, LocalInv, FamilyInv, RelyInv, Trusts,
     Linked, HandedTokensAreLinked, SuccessorDiesToo, RevivedOnlyByRace
<1>10. ASSUME NEW h \in Handlers,
              Burn(h) \/ DropFamily(h) \/ SpareOwnFamily(h) \/ RevokeAllSessions(h)
       PROVE  \E R : Revokes(h, R)
  BY <1>10 DEF Burn, DropFamily, SpareOwnFamily, RevokeAllSessions, Revokes
<1>11. CASE Next
  <2>1. ASSUME NEW h \in Handlers, Step(h) PROVE IInv'
    BY <2>1, <1>2, <1>3, <1>4, <1>5, <1>6, <1>8, <1>10 DEF Step, Quiet, Apart
  <2> QED BY <1>1, <1>7, <1>8, <1>11, <2>1 DEF Next, Apart
<1> QED BY <1>9, <1>11

\* The inductive invariant of AuthService's sessions holds in every reachable state.
THEOREM Invariance == Spec => []IInv
BY InvInit, InvNext, PTL DEF Spec

\* Types hold for any requests, devices, tokens and bounds (AuthService, session.schema).
THEOREM SessionsTypeCorrect == Spec => []TypeOK
<1>1. IInv => TypeOK BY DEF IInv, Base
<1> QED BY Invariance, <1>1, PTL

\* A token that reached a client through a rotation is the one its parent's row names:
\* the compare-and-set of refresh lets one request of a race hand out its successor.
THEOREM RotationIsExclusive == Spec => []HandedTokensAreLinked
<1>1. IInv => HandedTokensAreLinked BY DEF IInv
<1> QED BY Invariance, <1>1, PTL

\* No revocation, wherever it falls between the steps of a refresh, leaves the successor
\* of a revoked row alive.
THEOREM RotationHonoursRevocation == Spec => []SuccessorDiesToo
<1>1. IInv => SuccessorDiesToo BY DEF IInv
<1> QED BY Invariance, <1>1, PTL

\* A session revives a revoked family only through a request the revocation overtook.
THEOREM OnlyOvertakenRevive == Spec => []RevivedOnlyByRace
<1>1. IInv => RevivedOnlyByRace BY DEF IInv
<1> QED BY Invariance, <1>1, PTL
=============================================================================
