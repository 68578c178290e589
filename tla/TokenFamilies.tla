----------------------------- MODULE TokenFamilies -----------------------------
(***************************************************************************)
(* What refresh-token rotation promises, whatever requests, races, crashes *)
(* and expiries lie behind it.  A login begins a family.  A session that   *)
(* is alive is succeeded once, by a session minted for it that nobody has  *)
(* seen yet; one that has been succeeded may be re-issued.  Families are   *)
(* revoked whole.  A client is given each token once, and only the first   *)
(* of a family, a successor or a re-issue.                                 *)
(***************************************************************************)
CONSTANTS Tokens, Clients, None

VARIABLES
    rows,       \* the tokens that have a session
    dead,       \* the sessions revoked
    family,     \* the family of each token
    parent,     \* the token each was minted for
    heir,       \* the successor of each token
    reissued,   \* the tokens minted for one that was succeeded already
    given,      \* the tokens that clients have been given
    jar         \* the token each client holds

families == <<rows, dead, family, parent, heir, reissued, given, jar>>

Init ==
    /\ rows = {} /\ dead = {} /\ reissued = {} /\ given = {}
    /\ family = [t \in Tokens |-> None]
    /\ parent = [t \in Tokens |-> None]
    /\ heir   = [t \in Tokens |-> None]
    /\ jar    = [c \in Clients |-> None]

\* A token nobody has seen becomes the session t of the family f.
Joins(t, f) ==
    /\ family[t] = None /\ t \notin rows \cup dead \cup given
    /\ rows'   = rows \cup {t}
    /\ family' = [family EXCEPT ![t] = f]

Begin(t) ==
    /\ Joins(t, t)
    /\ UNCHANGED <<dead, parent, heir, reissued, given, jar>>

\* A candidate for the succession of p.
Mint(p, t) ==
    /\ family[p] # None
    /\ Joins(t, family[p])
    /\ parent' = [parent EXCEPT ![t] = p]
    /\ UNCHANGED <<dead, heir, reissued, given, jar>>

Reissue(p, t) ==
    /\ heir[p] # None
    /\ Joins(t, family[p])
    /\ parent' = [parent EXCEPT ![t] = p]
    /\ reissued' = reissued \cup {t}
    /\ UNCHANGED <<dead, heir, given, jar>>

Succeed(p, t) ==
    /\ p \in rows \ dead /\ heir[p] = None
    /\ parent[t] = p /\ family[t] = family[p]
    /\ t \notin dead \cup given \cup reissued
    /\ heir' = [heir EXCEPT ![p] = t]
    /\ UNCHANGED <<rows, dead, family, parent, reissued, given, jar>>

Give(t, c) ==
    /\ family[t] # None /\ t \notin given
    /\ parent[t] = None \/ t \in reissued \/ heir[parent[t]] = t
    /\ given' = given \cup {t}
    /\ jar'   = [jar EXCEPT ![c] = t]
    /\ UNCHANGED <<rows, dead, family, parent, heir, reissued>>

Empty(c) ==
    /\ jar' = [jar EXCEPT ![c] = None]
    /\ UNCHANGED <<rows, dead, family, parent, heir, reissued, given>>

Revoke(fs) ==
    /\ dead' = dead \cup {t \in rows : family[t] \in fs}
    /\ UNCHANGED <<rows, family, parent, heir, reissued, given, jar>>

Remove(ts) ==
    /\ rows' = rows \ ts
    /\ UNCHANGED <<dead, family, parent, heir, reissued, given, jar>>

Next ==
    \/ \E t \in Tokens : Begin(t)
    \/ \E p, t \in Tokens : Mint(p, t) \/ Reissue(p, t) \/ Succeed(p, t)
    \/ \E t \in Tokens, c \in Clients : Give(t, c)
    \/ \E c \in Clients : Empty(c)
    \/ \E fs \in SUBSET Tokens : Revoke(fs)
    \/ \E ts \in SUBSET Tokens : Remove(ts)

Spec == Init /\ [][Next]_families
=============================================================================
