--------------------------- MODULE DirectCallsProofs ---------------------------
(***************************************************************************)
(* Proofs about DirectCalls for any users, handlers, calls and bounds:     *)
(* types, one answer per call, the index of accepted calls against         *)
(* teardowns of older ones, and against blocks.                            *)
(***************************************************************************)
EXTENDS DirectCalls, TLAPS

-----------------------------------------------------------------------------
(* The inductive invariant *)

Accepting == {"check1", "index", "check2", "join"}
Tearing   == {"tdPending", "tdRead", "tdDelId", "tdDelPair", "tdLeave"}

Parties(c) == party[c].from \in Users /\ party[c].to \in Users

\* What a handler holds where it stands: the users and the call its awaits are about.
LocalInv == \A h \in Handlers :
    /\ pc[h] \in {"gate", "mint", "lookup"} => who[h] \in Users /\ mate[h] \in Users
    /\ pc[h] \in {"consume", "getPending", "cancel", "inRoom"} =>
          call[h] \in Calls /\ Parties(call[h])
    /\ pc[h] = "consume" => kind[h] \in {"accept", "decline"}
    /\ pc[h] \in Accepting \cup Tearing => call[h] \in Calls /\ Parties(call[h])
    /\ pc[h] \in Tearing => call[h] \in torn

\* Only a call that has been minted is known to anybody.
Unknown(c) ==
    /\ ~Minted(c)
    /\ c \notin pending /\ c \notin idIdx
    /\ heard[c] = {} /\ members[c] = {} /\ answer[c] = <<>>

IndexOf(p) == pairIdx[p] # NoCall => Parties(pairIdx[p]) /\ PairOf(pairIdx[p]) = p

MintInv ==
    /\ \A c \in Calls : Parties(c) \/ Unknown(c)
    /\ \A p \in Pairs : IndexOf(p)

Base == TypeOK /\ LocalInv /\ MintInv

\* A call that has not been indexed: no room, no index, no teardown.
Unindexed(c) ==
    /\ c \notin idIdx /\ c \notin torn /\ members[c] = {}
    /\ \A p \in Pairs : pairIdx[p] # c

\* A call that has been accepted.
Taken(c) == answer[c] # <<>> /\ Head(answer[c]) = "accept"

\* A call rings until it is answered, and one handler at most accepts it.
RingInv    == \A c \in pending : answer[c] = <<>>
BareInv    == \A c \in Calls : ~Taken(c) => Unindexed(c)
AcceptInv  == \A h \in Handlers : pc[h] \in Accepting =>
    call[h] \notin pending /\ Taken(call[h])
EarlyInv   == \A h \in Handlers : pc[h] \in {"check1", "index"} => Unindexed(call[h])
OneAccepts == \A h, g \in Handlers :
    pc[h] \in Accepting /\ pc[g] \in Accepting /\ call[h] = call[g] => h = g

AnswerInv == RingInv /\ BareInv /\ AcceptInv /\ EarlyInv /\ OneAccepts

\* A handler that will delete the pair key of c, having deleted its reverse key.
Deletes(h, c) ==
    /\ call[h] = c
    /\ pc[h] = "tdDelPair" \/ (pc[h] = "tdDelId" /\ found[h])

\* Whoever takes a call out of the reverse index goes on to take it out of the pair's,
\* unless its node dies: the call can be found there, or is about to disappear.
FoundInv == \A h \in Handlers : pc[h] = "tdDelId" /\ ~found[h] => call[h] \notin idIdx

IndexInv == \A p \in Pairs : pairIdx[p] \notin stranded \cup {NoCall} =>
    pairIdx[p] \in idIdx \/ \E h \in Handlers : Deletes(h, pairIdx[p])

\* A handler, or a message, that will end the indexed call of the blocked pair p.
Ends(h, p) ==
    \/ pc[h] = "lookup" /\ {who[h], mate[h]} = p
    \/ pc[h] \in {"check2", "tdPending", "tdRead"} /\ call[h] = pairIdx[p]
    \/ Deletes(h, pairIdx[p])

BlockInv == \A p \in blocked : pairIdx[p] \notin stranded \cup {NoCall} =>
    \/ \E u, v \in Users : <<u, v>> \in enforce /\ {u, v} = p
    \/ \E h \in Handlers : Ends(h, p)

IInv == /\ Base /\ AnswerInv /\ AnsweredOnce /\ NewestCallIndexed
        /\ FoundInv /\ IndexInv /\ BlockInv

-----------------------------------------------------------------------------
(* Types, locals and mints *)

\* The pair of a call that has been minted is a pair.
LEMMA PairIsPair ==
    ASSUME NEW c, Parties(c)
    PROVE  PairOf(c) \in Pairs
  BY DEF Parties, PairOf, Pairs

\* An answer is added to those that its call has.
LEMMA AnswerTypes ==
    ASSUME TypeOK, NEW c \in Calls, NEW a \in Answer, Answered(c, a)
    PROVE  answer' \in [Calls -> Answers]
<1>1. answer \in [Calls -> Answers] /\ answer' = [answer EXCEPT ![c] = Append(@, a)]
  BY DEF TypeOK, Answered
<1>2. ASSUME NEW s \in Answers PROVE Append(s, a) \in Answers
  BY DEF Answers
<1> QED BY <1>1, <1>2

\* The answer that ends a ring is the only one that the call has.
LEMMA FirstAnswer ==
    ASSUME TypeOK, RingInv, NEW c \in pending, NEW a \in Answer, Answered(c, a)
    PROVE  /\ answer'[c] # <<>> /\ Head(answer'[c]) = a /\ Len(answer'[c]) <= 1
           /\ \A q \in Calls \ {c} : answer'[q] = answer[q]
<1>1. c \in Calls /\ answer'[c] = Append(<<>>, a)
  BY DEF TypeOK, RingInv, Answered
<1>2. <<>> \in Seq(Answer)
  OBVIOUS
<1>3. Append(<<>>, a) # <<>> /\ Head(Append(<<>>, a)) = a /\ Len(Append(<<>>, a)) = 1
  BY <1>2
<1>4. \A q \in Calls \ {c} : answer'[q] = answer[q]
  BY <1>1 DEF TypeOK, Answered
<1> QED BY <1>1, <1>3, <1>4

\* A handler past the await that gave it a call knows who the two of it are.
LEMMA CallKnown ==
    ASSUME Base, NEW h \in Handlers,
           pc[h] \in {"consume", "getPending", "cancel", "inRoom"} \cup Accepting \cup Tearing
    PROVE  /\ call[h] \in Calls /\ Parties(call[h])
           /\ PairOf(call[h]) \in Pairs /\ PairOf(call[h]) \subseteq Users
  BY DEF Base, LocalInv, Parties, PairOf, Pairs

\* A pair of the index is the pair of the call that it points to.
LEMMA IndexKnown ==
    ASSUME Base, NEW u \in Users, NEW v \in Users, pairIdx[{u, v}] # NoCall
    PROVE  /\ {u, v} \in Pairs /\ pairIdx[{u, v}] \in Calls
           /\ Parties(pairIdx[{u, v}]) /\ PairOf(pairIdx[{u, v}]) = {u, v}
<1>1. {u, v} \in Pairs
  BY DEF Pairs
<1> QED
  BY <1>1 DEF Base, TypeOK, MintInv, IndexOf

\* A handler that dies leaves the call that it was about stranded, and nothing else moves.
LEMMA CrashStrands ==
    ASSUME Base, NEW h \in Handlers, Crash(h)
    PROVE  /\ stranded \subseteq stranded' /\ stranded' \subseteq Calls \cup {NoCall}
           /\ pc[h] = "lookup" => pairIdx[{who[h], mate[h]}] \in stranded'
           /\ pc[h] # "lookup" => call[h] \in stranded'
           /\ UNCHANGED <<pairIdx, idIdx, blocked, enforce>>
           /\ \A g \in Handlers \ {h} :
                 /\ pc'[g] = pc[g] /\ call'[g] = call[g] /\ found'[g] = found[g]
                 /\ who'[g] = who[g] /\ mate'[g] = mate[g]
<1>1. CASE pc[h] = "lookup"
  <2>1. {who[h], mate[h]} \in Pairs
    BY <1>1 DEF Base, LocalInv, Pairs
  <2> QED
    BY <1>1, <2>1 DEF Crash, Return, Base, TypeOK, redis, sockets
<1>2. CASE pc[h] # "lookup"
  BY <1>2 DEF Crash, Return, Base, TypeOK, redis, sockets
<1> QED
  BY <1>1, <1>2

LocalTypes ==
    /\ pc    \in [Handlers -> Await]
    /\ kind  \in [Handlers -> Kind]
    /\ who   \in [Handlers -> Users \cup {NoUser}]
    /\ mate  \in [Handlers -> Users \cup {NoUser}]
    /\ call  \in [Handlers -> Calls \cup {NoCall}]
    /\ todo  \in [Handlers -> SUBSET Users]
    /\ found \in [Handlers -> BOOLEAN]

LEMMA ReturnTypes ==
    ASSUME TypeOK, NEW h \in Handlers, Return(h)
    PROVE  LocalTypes'
  BY DEF TypeOK, Return, LocalTypes, Await, Kind

\* Every step keeps the types.
LEMMA TypeStep ==
    ASSUME Base, Next \/ UNCHANGED vars
    PROVE  TypeOK'
<1>1. ASSUME NEW h \in Handlers, NEW u \in Users, NEW v \in Users, StartInvite(h, u, v)
      PROVE TypeOK'
  BY <1>1 DEF StartInvite, Start, Base, TypeOK, LocalInv, Kind, Await, Answer, redis, sockets,
     locals, history, bounds
<1>2. ASSUME NEW h \in Handlers, NEW u \in Users, NEW c \in Calls, StartResponse(h, u, c,
      "accept") PROVE TypeOK'
  BY <1>2 DEF StartResponse, Start, Base, TypeOK, LocalInv, Kind, Await, Answer, redis,
     sockets, locals, history, bounds
<1>3. ASSUME NEW h \in Handlers, NEW u \in Users, NEW c \in Calls, StartResponse(h, u, c,
      "decline") PROVE TypeOK'
  BY <1>3 DEF StartResponse, Start, Base, TypeOK, LocalInv, Kind, Await, Answer, redis,
     sockets, locals, history, bounds
<1>4. ASSUME NEW h \in Handlers, NEW u \in Users, NEW c \in Calls, StartEnd(h, u, c) PROVE
      TypeOK'
  BY <1>4 DEF StartEnd, Start, Base, TypeOK, LocalInv, Kind, Await, Answer, redis, sockets,
     locals, history, bounds
<1>5. ASSUME NEW h \in Handlers, NEW u \in Users, NEW c \in Calls, StartHangup(h, u, c)
      PROVE TypeOK'
  BY <1>5 DEF StartHangup, Start, Base, TypeOK, LocalInv, Kind, Await, Answer, redis, sockets,
     locals, history, bounds
<1>6. ASSUME NEW h \in Handlers, NEW u \in Users, NEW v \in Users, StartEnforce(h, u, v)
      PROVE TypeOK'
  BY <1>6 DEF StartEnforce, Start, Base, TypeOK, LocalInv, Kind, Await, Answer, redis,
     sockets, locals, history, bounds
<1>7. ASSUME NEW h \in Handlers, InviteGate(h) PROVE TypeOK'
  <2>1. LocalTypes'
    BY <1>7, ReturnTypes DEF InviteGate, Goto, Base, TypeOK, LocalTypes, Await, locals
  <2> QED
    BY <1>7, <2>1 DEF InviteGate, LocalTypes, Base, TypeOK, redis, sockets, history, bounds
<1>8. ASSUME NEW h \in Handlers, CreatePending(h) PROVE TypeOK'
  BY <1>8 DEF CreatePending, Return, Send, Minted, Base, TypeOK, LocalInv, Kind, Await,
     Answer, redis, sockets, locals, history, bounds
<1>9. ASSUME NEW h \in Handlers, ConsumePending(h) PROVE TypeOK'
  <2>1. call[h] \in Calls /\ Parties(call[h]) /\ PairOf(call[h]) \in Pairs
        /\ PairOf(call[h]) \subseteq Users
    BY <1>9, CallKnown DEF ConsumePending, Accepting, Tearing
  <2>2. heard' \in [Calls -> SUBSET Users]
    BY <1>9, <2>1 DEF ConsumePending, Send, Base, TypeOK, Parties
  <2>3. answer' \in [Calls -> Answers]
    <3>1. kind[h] \in Answer
      BY <1>9 DEF ConsumePending, Base, LocalInv, Answer
    <3>2. answer' = answer \/ Answered(call[h], kind[h])
      BY <1>9 DEF ConsumePending
    <3> QED
      BY <2>1, <3>1, <3>2, AnswerTypes DEF Base, TypeOK
  <2>4. LocalTypes'
    BY <1>9, <2>1, ReturnTypes DEF ConsumePending, Goto, Base, TypeOK, LocalTypes, Await, locals
  <2> QED
    BY <1>9, <2>1, <2>2, <2>3, <2>4 DEF ConsumePending, LocalTypes,
       Base, TypeOK, Answer, redis, sockets, locals, history, bounds
<1>10. ASSUME NEW h \in Handlers, FirstCheck(h) PROVE TypeOK'
  <2>1. call[h] \in Calls /\ Parties(call[h]) /\ PairOf(call[h]) \in Pairs
        /\ PairOf(call[h]) \subseteq Users
    BY <1>10, CallKnown DEF FirstCheck, Accepting, Tearing
  <2>2. heard' \in [Calls -> SUBSET Users]
    BY <1>10, <2>1 DEF FirstCheck, Goto, Return, Send, Base, TypeOK, Parties
  <2>3. LocalTypes'
    BY <1>10, <2>1, ReturnTypes DEF FirstCheck, Goto, Base, TypeOK, LocalTypes, Await, locals
  <2> QED
    BY <1>10, <2>1, <2>2, <2>3 DEF FirstCheck, LocalTypes, Base, TypeOK, Answer,
       redis, sockets, locals, history, bounds
<1>11. ASSUME NEW h \in Handlers, IndexActiveCall(h) PROVE TypeOK'
  <2>1. call[h] \in Calls /\ Parties(call[h]) /\ PairOf(call[h]) \in Pairs
        /\ PairOf(call[h]) \subseteq Users
    BY <1>11, CallKnown DEF IndexActiveCall, Accepting, Tearing
  <2> QED
    BY <1>11, <2>1 DEF IndexActiveCall, Goto, Base, TypeOK, Kind, Await, Answer, Parties, redis,
       sockets, locals, history, bounds
<1>12. ASSUME NEW h \in Handlers, IndexFails(h) PROVE TypeOK'
  BY <1>12 DEF IndexFails, Goto, Base, TypeOK, LocalInv, Kind, Await, Answer, redis, sockets,
     locals, history, bounds
<1>13. ASSUME NEW h \in Handlers, SecondCheck(h) PROVE TypeOK'
  <2>1. call[h] \in Calls /\ Parties(call[h]) /\ PairOf(call[h]) \in Pairs
        /\ PairOf(call[h]) \subseteq Users
    BY <1>13, CallKnown DEF SecondCheck, Accepting, Tearing
  <2>2. heard' \in [Calls -> SUBSET Users]
    BY <1>13, <2>1 DEF SecondCheck, Goto, Send, Blocked, Base, TypeOK, Parties
  <2>3. LocalTypes'
    BY <1>13, <2>1, ReturnTypes DEF SecondCheck, Goto, Base, TypeOK, LocalTypes, Await, locals
  <2>4. torn' \subseteq Calls
    BY <1>13, <2>1 DEF SecondCheck, Base, TypeOK
  <2> QED
    BY <1>13, <2>1, <2>2, <2>3, <2>4 DEF SecondCheck, Blocked, LocalTypes, Base, TypeOK,
       Answer, redis, sockets, locals, history, bounds
<1>14. ASSUME NEW h \in Handlers, SocketsJoin(h) PROVE TypeOK'
  <2>1. call[h] \in Calls /\ Parties(call[h]) /\ PairOf(call[h]) \in Pairs
        /\ PairOf(call[h]) \subseteq Users
    BY <1>14, CallKnown DEF SocketsJoin, Accepting, Tearing
  <2>2. members' \in [Calls -> SUBSET Users]
    BY <1>14, <2>1 DEF SocketsJoin, Base, TypeOK
  <2>3. todo' \in [Handlers -> SUBSET Users]
    BY <1>14, <2>1 DEF SocketsJoin, Base, TypeOK
  <2> QED
    BY <1>14, <2>1, <2>2, <2>3 DEF SocketsJoin, Base, TypeOK, Kind, Await, Answer, Parties, redis,
       sockets, locals, history, bounds
<1>15. ASSUME NEW h \in Handlers, Announce(h) PROVE TypeOK'
  <2>1. call[h] \in Calls /\ Parties(call[h]) /\ PairOf(call[h]) \in Pairs
        /\ PairOf(call[h]) \subseteq Users
    BY <1>15, CallKnown DEF Announce, Accepting, Tearing
  <2>2. heard' \in [Calls -> SUBSET Users]
    BY <1>15, <2>1 DEF Announce, Return, Send, Base, TypeOK, Parties
  <2> QED
    BY <1>15, <2>1, <2>2 DEF Announce, Return, Base, TypeOK, Kind, Await, Answer, Parties,
       redis, sockets, locals, history, bounds
<1>16. ASSUME NEW h \in Handlers, GetPending(h) PROVE TypeOK'
  BY <1>16 DEF GetPending, Goto, Base, TypeOK, LocalInv, Kind, Await, Answer, redis, sockets,
     locals, history, bounds
<1>17. ASSUME NEW h \in Handlers, Cancel(h) PROVE TypeOK'
  <2>1. call[h] \in Calls /\ Parties(call[h]) /\ PairOf(call[h]) \in Pairs
        /\ PairOf(call[h]) \subseteq Users
    BY <1>17, CallKnown DEF Cancel, Accepting, Tearing
  <2>2. heard' \in [Calls -> SUBSET Users]
    <3>1. heard' = heard \/ Send(call[h], PairOf(call[h]) \ {who[h]})
      BY <1>17 DEF Cancel
    <3> QED
      BY <2>1, <3>1 DEF Send, Base, TypeOK
  <2>3. answer' \in [Calls -> Answers]
    <3>1. answer' = answer \/ Answered(call[h], "cancel")
      BY <1>17 DEF Cancel
    <3> QED
      BY <2>1, <3>1, AnswerTypes DEF Answer, Base, TypeOK
  <2> QED
    BY <1>17, <2>1, <2>2, <2>3 DEF Cancel, Return, Base, TypeOK, Kind, Await,
       Answer, Parties, redis, sockets, locals, history, bounds
<1>18. ASSUME NEW h \in Handlers, InCallRoom(h) PROVE TypeOK'
  <2>1. call[h] \in Calls /\ Parties(call[h]) /\ PairOf(call[h]) \in Pairs
        /\ PairOf(call[h]) \subseteq Users
    BY <1>18, CallKnown DEF InCallRoom, Accepting, Tearing
  <2>2. heard' \in [Calls -> SUBSET Users]
    BY <1>18, <2>1 DEF InCallRoom, Goto, Return, Send, Base, TypeOK, Parties
  <2>3. LocalTypes'
    BY <1>18, <2>1, ReturnTypes DEF InCallRoom, Goto, Base, TypeOK, LocalTypes, Await, locals
  <2> QED
    BY <1>18, <2>1, <2>2, <2>3 DEF InCallRoom, LocalTypes, Base, TypeOK, Answer,
       redis, sockets, locals, history, bounds
<1>19. ASSUME NEW h \in Handlers, LookupPair(h) PROVE TypeOK'
  <2>1. who[h] \in Users /\ mate[h] \in Users
    BY <1>19 DEF LookupPair, Base, LocalInv
  <2>2. pairIdx[{who[h], mate[h]}] \in Calls \cup {NoCall}
    BY <2>1 DEF Base, TypeOK, Pairs
  <2>3. heard' \in [Calls -> SUBSET Users]
    <3>1. CASE pairIdx[{who[h], mate[h]}] = NoCall
      BY <1>19, <3>1 DEF LookupPair, Base, TypeOK
    <3>2. CASE pairIdx[{who[h], mate[h]}] # NoCall
      <4>1. {who[h], mate[h]} \in SUBSET Users
        BY <2>1
      <4>2. Send(pairIdx[{who[h], mate[h]}], {who[h], mate[h]})
        BY <1>19, <3>2 DEF LookupPair
      <4> QED
        BY <2>2, <3>2, <4>1, <4>2 DEF Send, Base, TypeOK
    <3> QED
      BY <3>1, <3>2
  <2>4. LocalTypes'
    BY <1>19, <2>1, <2>2, ReturnTypes DEF LookupPair, Goto, Base, TypeOK, LocalTypes, Await
  <2>5. torn' \subseteq Calls
    <3>1. torn' = torn \/ torn' \subseteq torn \cup (Calls \cap {pairIdx[{who[h], mate[h]}]})
      BY <1>19, <2>2 DEF LookupPair
    <3> QED
      BY <3>1 DEF Base, TypeOK
  <2> QED
    BY <1>19, <2>3, <2>4, <2>5 DEF LookupPair, LocalTypes, Base, TypeOK, redis, bounds
<1>20. ASSUME NEW h \in Handlers, TdClearPending(h) PROVE TypeOK'
  <2>1. call[h] \in Calls /\ Parties(call[h]) /\ PairOf(call[h]) \in Pairs
        /\ PairOf(call[h]) \subseteq Users
    BY <1>20, CallKnown DEF TdClearPending, Accepting, Tearing
  <2> QED
    BY <1>20, <2>1 DEF TdClearPending, Goto, Base, TypeOK, Kind, Await, Answer, Parties, redis,
       sockets, locals, history, bounds
<1>21. ASSUME NEW h \in Handlers, TdReadId(h) PROVE TypeOK'
  <2>1. call[h] \in Calls /\ Parties(call[h]) /\ PairOf(call[h]) \in Pairs
        /\ PairOf(call[h]) \subseteq Users
    BY <1>21, CallKnown DEF TdReadId, Accepting, Tearing
  <2> QED
    BY <1>21, <2>1 DEF TdReadId, Goto, Base, TypeOK, Kind, Await, Answer, Parties, redis, sockets,
       locals, history, bounds
<1>22. ASSUME NEW h \in Handlers, TdDeleteId(h) PROVE TypeOK'
  <2>1. call[h] \in Calls /\ Parties(call[h]) /\ PairOf(call[h]) \in Pairs
        /\ PairOf(call[h]) \subseteq Users
    BY <1>22, CallKnown DEF TdDeleteId, Accepting, Tearing
  <2> QED
    BY <1>22, <2>1 DEF TdDeleteId, Goto, Base, TypeOK, Kind, Await, Answer, Parties, redis, sockets,
       locals, history, bounds
<1>23. ASSUME NEW h \in Handlers, TdDeletePair(h) PROVE TypeOK'
  <2>1. call[h] \in Calls /\ Parties(call[h]) /\ PairOf(call[h]) \in Pairs
        /\ PairOf(call[h]) \subseteq Users
    BY <1>23, CallKnown DEF TdDeletePair, Accepting, Tearing
  <2> QED
    BY <1>23, <2>1 DEF TdDeletePair, Goto, Base, TypeOK, Kind, Await, Answer, Parties, redis,
       sockets, locals, history, bounds
<1>24. ASSUME NEW h \in Handlers, TdIndexFails(h) PROVE TypeOK'
  <2>1. call[h] \in Calls
    BY <1>24, CallKnown DEF TdIndexFails, Tearing
  <2> QED
    BY <1>24, <2>1 DEF TdIndexFails, Goto, Base, TypeOK, Await, redis, sockets, locals, history
<1>25. ASSUME NEW h \in Handlers, TdSocketsLeave(h) PROVE TypeOK'
  <2>1. call[h] \in Calls /\ Parties(call[h]) /\ PairOf(call[h]) \in Pairs
        /\ PairOf(call[h]) \subseteq Users
    BY <1>25, CallKnown DEF TdSocketsLeave, Accepting, Tearing
  <2> QED
    BY <1>25, <2>1 DEF TdSocketsLeave, Return, Base, TypeOK, Kind, Await, Answer, Parties, redis,
       sockets, locals, history, bounds
<1>26. ASSUME NEW h \in Handlers, Crash(h) PROVE TypeOK'
  <2>1. stranded' \subseteq Calls \cup {NoCall}
    BY <1>26, CrashStrands
  <2>2. LocalTypes'
    BY <1>26, ReturnTypes DEF Crash, Base
  <2>3. /\ UNCHANGED <<redis, blocked, sockets, history, starts>>
        /\ faults' = faults + 1
    BY <1>26 DEF Crash
  <2> QED
    BY <2>1, <2>2, <2>3 DEF Base, TypeOK, LocalTypes, redis, sockets, history
<1>27. ASSUME NEW u \in Users, NEW v \in Users, Block(u, v) PROVE TypeOK'
  <2>1. {u, v} \in Pairs
    BY DEF Pairs
  <2>2. blocked' \subseteq Pairs
    BY <1>27, <2>1 DEF Block, Base, TypeOK
  <2>3. enforce' \subseteq Users \X Users
    BY <1>27 DEF Block, Base, TypeOK
  <2> QED
    BY <1>27, <2>2, <2>3 DEF Block, Base, TypeOK, redis, sockets, locals, history, bounds
<1>28. ASSUME NEW c \in Calls,
            RingExpires(c) \/ IndexExpires(c)
      PROVE  TypeOK'
  BY <1>28 DEF RingExpires, IndexExpires, Base, TypeOK, LocalInv, Kind, Await, Answer, redis,
     sockets, locals, history, bounds
<1>29. ASSUME NEW u \in Users, Reconnect(u) PROVE TypeOK'
  BY <1>29 DEF Reconnect, Base, TypeOK, LocalInv, Kind, Await, Answer, redis, sockets, locals,
     history, bounds
<1>30. CASE UNCHANGED vars
  BY <1>30 DEF vars, Base, TypeOK, LocalInv, Kind, Await, Answer, redis, sockets, locals,
     history, bounds
<1> QED
  BY <1>1, <1>2, <1>3, <1>4, <1>5, <1>6, <1>7, <1>8, <1>9, <1>10, <1>11, <1>12, <1>13, <1>14,
     <1>15, <1>16, <1>17, <1>18, <1>19, <1>20, <1>21, <1>22, <1>23, <1>24, <1>25, <1>26, <1>27,
     <1>28, <1>29, <1>30 DEF Next, StartAny, Step, Environment

\* Every step leaves each handler with what its next await is about.
LEMMA LocalStep ==
    ASSUME Base, Next \/ UNCHANGED vars
    PROVE  LocalInv'
<1>1. ASSUME NEW h \in Handlers, NEW u \in Users, NEW v \in Users,
            StartInvite(h, u, v) \/ StartEnforce(h, u, v)
      PROVE  LocalInv'
  BY <1>1, NullsAssumption DEF StartInvite, Start, StartEnforce, Base, TypeOK, LocalInv,
     MintInv, Unknown, Parties, Minted, Accepting, Tearing, redis, sockets, locals, history,
     bounds
<1>2. ASSUME NEW h \in Handlers, NEW u \in Users, NEW c \in Calls,
            StartResponse(h, u, c, "accept") \/ StartResponse(h, u, c, "decline")
            \/ StartEnd(h, u, c) \/ StartHangup(h, u, c)
      PROVE  LocalInv'
  BY <1>2, NullsAssumption DEF StartResponse, Start, StartEnd, StartHangup, Base, TypeOK,
     LocalInv, MintInv, Unknown, Parties, Minted, Accepting, Tearing, redis, sockets,
     locals, history, bounds
<1>3. ASSUME NEW h \in Handlers, InviteGate(h) PROVE LocalInv'
  BY <1>3, NullsAssumption DEF InviteGate, Goto, Return, Base, TypeOK, LocalInv, MintInv,
     Unknown, Parties, Minted, Accepting, Tearing, redis, sockets, locals, history, bounds
<1>4. ASSUME NEW h \in Handlers, CreatePending(h) PROVE LocalInv'
  BY <1>4, NullsAssumption DEF CreatePending, Return, Send, Minted, Base, TypeOK, LocalInv,
     MintInv, Unknown, Parties, Minted, Accepting, Tearing, redis, sockets, locals, history,
     bounds
<1>5. ASSUME NEW h \in Handlers, ConsumePending(h) PROVE LocalInv'
  BY <1>5, NullsAssumption DEF ConsumePending, Goto, Return, Send, Answered, Base, TypeOK,
     LocalInv, MintInv, Unknown, Parties, Minted, Accepting, Tearing, redis, sockets,
     locals, history, bounds
<1>6. ASSUME NEW h \in Handlers,
            FirstCheck(h) \/ IndexActiveCall(h)
      PROVE  LocalInv'
  BY <1>6, NullsAssumption DEF FirstCheck, Goto, Return, Send, IndexActiveCall, Base, TypeOK,
     LocalInv, MintInv, Unknown, Parties, Minted, Accepting, Tearing, redis, sockets,
     locals, history, bounds
<1>7. ASSUME NEW h \in Handlers,
            IndexFails(h) \/ SecondCheck(h) \/ SocketsJoin(h) \/ Announce(h)
            \/ GetPending(h)
      PROVE  LocalInv'
  BY <1>7, NullsAssumption DEF IndexFails, Goto, SecondCheck, Send, Blocked, SocketsJoin,
     Announce, Return, GetPending, Base, TypeOK, LocalInv, MintInv, Unknown, Parties,
     Minted, Accepting, Tearing, redis, sockets, locals, history, bounds
<1>8. ASSUME NEW h \in Handlers,
            Cancel(h) \/ InCallRoom(h)
      PROVE  LocalInv'
  BY <1>8, NullsAssumption DEF Cancel, Return, Send, Answered, InCallRoom, Goto, Base, TypeOK,
     LocalInv, MintInv, Unknown, Parties, Minted, Accepting, Tearing, redis, sockets,
     locals, history, bounds
<1>9. ASSUME NEW h \in Handlers, LookupPair(h) PROVE LocalInv'
  <2>1. who[h] \in Users /\ mate[h] \in Users
    BY <1>9 DEF LookupPair, Base, LocalInv
  <2>2. CASE pairIdx[{who[h], mate[h]}] = NoCall
    BY <1>9, <2>2 DEF LookupPair, Goto, Return, Send, Base, TypeOK, LocalInv, Parties, Accepting,
       Tearing, redis, sockets, locals, history, bounds
  <2>3. CASE pairIdx[{who[h], mate[h]}] # NoCall
    <3>1. Parties(pairIdx[{who[h], mate[h]}]) /\ pairIdx[{who[h], mate[h]}] \in Calls
      BY <2>1, <2>3, IndexKnown
    <3>2. /\ pc'[h] = "tdPending" /\ call'[h] = pairIdx[{who[h], mate[h]}]
          /\ torn' = torn \cup {call'[h]} /\ party' = party
          /\ UNCHANGED <<kind, who, mate>>
          /\ \A g \in Handlers \ {h} : pc'[g] = pc[g] /\ call'[g] = call[g]
      BY <1>9, <2>3 DEF LookupPair, Goto, Base, TypeOK
    <3>3. ASSUME NEW g \in Handlers
          PROVE  /\ pc'[g] \in {"gate", "mint", "lookup"} => who'[g] \in Users /\ mate'[g] \in Users
                 /\ pc'[g] \in {"consume", "getPending", "cancel", "inRoom"} =>
                       call'[g] \in Calls /\ Parties(call[g])'
                 /\ pc'[g] = "consume" => kind'[g] \in {"accept", "decline"}
                 /\ pc'[g] \in Accepting \cup Tearing => call'[g] \in Calls /\ Parties(call[g])'
                 /\ pc'[g] \in Tearing => call'[g] \in torn'
      <4>1. CASE g = h
        BY <3>1, <3>2, <4>1 DEF Parties, Accepting, Tearing
      <4>2. CASE g # h
        BY <3>2, <4>2 DEF Base, LocalInv, Parties, Accepting, Tearing
      <4> QED
        BY <4>1, <4>2
    <3> QED
      BY <3>3 DEF LocalInv, Accepting, Tearing
  <2> QED
    BY <2>2, <2>3
<1>10. ASSUME NEW h \in Handlers,
            TdClearPending(h) \/ TdReadId(h) \/ TdDeleteId(h) \/ TdDeletePair(h)
            \/ TdIndexFails(h) \/ TdSocketsLeave(h)
      PROVE  LocalInv'
  BY <1>10, NullsAssumption DEF TdClearPending, Goto, TdReadId, TdDeleteId, TdDeletePair,
     TdIndexFails, TdSocketsLeave, Return, Base, TypeOK, LocalInv, MintInv, Unknown, Parties, Minted,
     Accepting, Tearing, redis, sockets, locals, history, bounds
<1>11. ASSUME NEW h \in Handlers, Crash(h) PROVE LocalInv'
  BY <1>11, NullsAssumption DEF Crash, Return, Base, TypeOK, LocalInv, MintInv, Unknown,
     Parties, Minted, Accepting, Tearing, redis, sockets, locals, history, bounds
<1>12. ASSUME NEW u \in Users, NEW v \in Users, Block(u, v) PROVE LocalInv'
  BY <1>12, NullsAssumption DEF Block, Base, TypeOK, LocalInv, MintInv, Unknown, Parties,
     Minted, Accepting, Tearing, redis, sockets, locals, history, bounds
<1>13. ASSUME NEW c \in Calls,
            RingExpires(c) \/ IndexExpires(c)
      PROVE  LocalInv'
  BY <1>13, NullsAssumption DEF RingExpires, IndexExpires, Base, TypeOK, LocalInv, MintInv,
     Unknown, Parties, Minted, Accepting, Tearing, redis, sockets, locals, history, bounds
<1>14. ASSUME NEW u \in Users, Reconnect(u) PROVE LocalInv'
  BY <1>14, NullsAssumption DEF Reconnect, Base, TypeOK, LocalInv, MintInv, Unknown, Parties,
     Minted, Accepting, Tearing, redis, sockets, locals, history, bounds
<1>15. CASE UNCHANGED vars
  BY <1>15 DEF vars, Base, TypeOK, LocalInv, MintInv, Unknown, Parties, Minted, Accepting,
     Tearing, redis, sockets, locals, history, bounds
<1> QED
  BY <1>1, <1>2, <1>3, <1>4, <1>5, <1>6, <1>7, <1>8, <1>9, <1>10, <1>11, <1>12, <1>13, <1>14,
     <1>15 DEF Next, StartAny, Step, Environment

\* Every step keeps what is known of calls about calls that have been minted.
LEMMA MintStep ==
    ASSUME Base, Next \/ UNCHANGED vars
    PROVE  MintInv'
<1>1. ASSUME NEW h \in Handlers, NEW u \in Users, NEW v \in Users,
            StartInvite(h, u, v) \/ StartEnforce(h, u, v)
      PROVE  MintInv'
  BY <1>1, NullsAssumption, PairIsPair DEF StartInvite, Start, StartEnforce, Base, TypeOK,
     LocalInv, MintInv, Unknown, IndexOf, Parties, Minted, PairOf, Accepting, Tearing,
     redis, sockets, locals, history, bounds
<1>2. ASSUME NEW h \in Handlers, NEW u \in Users, NEW c \in Calls,
            StartResponse(h, u, c, "accept") \/ StartResponse(h, u, c, "decline")
            \/ StartEnd(h, u, c) \/ StartHangup(h, u, c)
      PROVE  MintInv'
  BY <1>2, NullsAssumption, PairIsPair DEF StartResponse, Start, StartEnd, StartHangup, Base,
     TypeOK, LocalInv, MintInv, Unknown, IndexOf, Parties, Minted, PairOf, Accepting,
     Tearing, redis, sockets, locals, history, bounds
<1>3. ASSUME NEW h \in Handlers, InviteGate(h) PROVE MintInv'
  BY <1>3, NullsAssumption, PairIsPair DEF InviteGate, Goto, Return, Base, TypeOK, LocalInv,
     MintInv, Unknown, IndexOf, Parties, Minted, PairOf, Accepting, Tearing, redis, sockets,
     locals, history, bounds
<1>4. ASSUME NEW h \in Handlers, CreatePending(h) PROVE MintInv'
  BY <1>4, NullsAssumption, PairIsPair DEF CreatePending, Return, Send, Minted, Base, TypeOK,
     LocalInv, MintInv, Unknown, IndexOf, Parties, Minted, PairOf, Accepting, Tearing,
     redis, sockets, locals, history, bounds
<1>5. ASSUME NEW h \in Handlers, ConsumePending(h) PROVE MintInv'
  <2>1. call[h] \in Calls /\ Parties(call[h]) /\ PairOf(call[h]) \in Pairs
        /\ PairOf(call[h]) \subseteq Users
    BY <1>5, CallKnown DEF ConsumePending, Accepting, Tearing
  <2>2. ASSUME NEW c \in Calls PROVE (Parties(c) \/ Unknown(c))'
    <3>1. CASE c = call[h]
      BY <1>5, <2>1, <3>1 DEF ConsumePending, Parties, redis, history
    <3>2. CASE c # call[h]
      BY <1>5, <2>1, <3>2 DEF ConsumePending, Return, Send, Answered, Base, TypeOK, MintInv, Unknown,
         Parties, Minted, redis, sockets, locals, history, bounds
    <3> QED
      BY <3>1, <3>2
  <2>3. ASSUME NEW p \in Pairs PROVE IndexOf(p)'
    BY <1>5, <2>1 DEF ConsumePending, Return, Send, Answered, Base, TypeOK, MintInv, IndexOf,
       Parties, PairOf, redis, sockets, locals, history, bounds
  <2> QED
    BY <2>2, <2>3 DEF MintInv
<1>6. ASSUME NEW h \in Handlers, FirstCheck(h) PROVE MintInv'
  <2>1. call[h] \in Calls /\ Parties(call[h]) /\ PairOf(call[h]) \in Pairs
        /\ PairOf(call[h]) \subseteq Users
    BY <1>6, CallKnown DEF FirstCheck, Accepting, Tearing
  <2>2. ASSUME NEW c \in Calls PROVE (Parties(c) \/ Unknown(c))'
    <3>1. CASE c = call[h]
      BY <1>6, <2>1, <3>1 DEF FirstCheck, Parties, redis, history
    <3>2. CASE c # call[h]
      BY <1>6, <2>1, <3>2 DEF FirstCheck, Return, Send, Base, TypeOK, MintInv, Unknown, Parties,
         Minted, redis, sockets, locals, history, bounds
    <3> QED
      BY <3>1, <3>2
  <2>3. ASSUME NEW p \in Pairs PROVE IndexOf(p)'
    BY <1>6, <2>1 DEF FirstCheck, Return, Send, Base, TypeOK, MintInv, IndexOf, Parties, PairOf,
       redis, sockets, locals, history, bounds
  <2> QED
    BY <2>2, <2>3 DEF MintInv
<1>7. ASSUME NEW h \in Handlers, IndexActiveCall(h) PROVE MintInv'
  <2>1. call[h] \in Calls /\ Parties(call[h]) /\ PairOf(call[h]) \in Pairs
        /\ PairOf(call[h]) \subseteq Users
    BY <1>7, CallKnown DEF IndexActiveCall, Accepting, Tearing
  <2>2. ASSUME NEW c \in Calls PROVE (Parties(c) \/ Unknown(c))'
    <3>1. CASE c = call[h]
      BY <1>7, <2>1, <3>1 DEF IndexActiveCall, Parties, redis, history
    <3>2. CASE c # call[h]
      BY <1>7, <2>1, <3>2 DEF IndexActiveCall, Base, TypeOK, MintInv, Unknown, Parties, Minted,
         redis, sockets, locals, history, bounds
    <3> QED
      BY <3>1, <3>2
  <2>3. ASSUME NEW p \in Pairs PROVE IndexOf(p)'
    BY <1>7, <2>1 DEF IndexActiveCall, Base, TypeOK, MintInv, IndexOf, Parties, PairOf, redis,
       sockets, locals, history, bounds
  <2> QED
    BY <2>2, <2>3 DEF MintInv
<1>8. ASSUME NEW h \in Handlers, IndexFails(h) PROVE MintInv'
  BY <1>8, NullsAssumption, PairIsPair DEF IndexFails, Goto, Base, TypeOK, LocalInv, MintInv,
     Unknown, IndexOf, Parties, Minted, PairOf, Accepting, Tearing, redis, sockets, locals,
     history, bounds
<1>9. ASSUME NEW h \in Handlers, SecondCheck(h) PROVE MintInv'
  <2>1. call[h] \in Calls /\ Parties(call[h]) /\ PairOf(call[h]) \in Pairs
        /\ PairOf(call[h]) \subseteq Users
    BY <1>9, CallKnown DEF SecondCheck, Accepting, Tearing
  <2>2. ASSUME NEW c \in Calls PROVE (Parties(c) \/ Unknown(c))'
    <3>1. CASE c = call[h]
      BY <1>9, <2>1, <3>1 DEF SecondCheck, Parties, redis, history
    <3>2. CASE c # call[h]
      BY <1>9, <2>1, <3>2 DEF SecondCheck, Send, Blocked, Base, TypeOK, MintInv, Unknown, Parties,
         Minted, redis, sockets, locals, history, bounds
    <3> QED
      BY <3>1, <3>2
  <2>3. ASSUME NEW p \in Pairs PROVE IndexOf(p)'
    BY <1>9, <2>1 DEF SecondCheck, Send, Blocked, Base, TypeOK, MintInv, IndexOf, Parties, PairOf,
       redis, sockets, locals, history, bounds
  <2> QED
    BY <2>2, <2>3 DEF MintInv
<1>10. ASSUME NEW h \in Handlers, SocketsJoin(h) PROVE MintInv'
  <2>1. call[h] \in Calls /\ Parties(call[h]) /\ PairOf(call[h]) \in Pairs
        /\ PairOf(call[h]) \subseteq Users
    BY <1>10, CallKnown DEF SocketsJoin, Accepting, Tearing
  <2>2. ASSUME NEW c \in Calls PROVE (Parties(c) \/ Unknown(c))'
    <3>1. CASE c = call[h]
      BY <1>10, <2>1, <3>1 DEF SocketsJoin, Parties, redis, history
    <3>2. CASE c # call[h]
      BY <1>10, <2>1, <3>2 DEF SocketsJoin, Base, TypeOK, MintInv, Unknown, Parties, Minted, redis,
         sockets, locals, history, bounds
    <3> QED
      BY <3>1, <3>2
  <2>3. ASSUME NEW p \in Pairs PROVE IndexOf(p)'
    BY <1>10, <2>1 DEF SocketsJoin, Base, TypeOK, MintInv, IndexOf, Parties, PairOf, redis, sockets,
       locals, history, bounds
  <2> QED
    BY <2>2, <2>3 DEF MintInv
<1>11. ASSUME NEW h \in Handlers, Announce(h) PROVE MintInv'
  <2>1. call[h] \in Calls /\ Parties(call[h]) /\ PairOf(call[h]) \in Pairs
        /\ PairOf(call[h]) \subseteq Users
    BY <1>11, CallKnown DEF Announce, Accepting, Tearing
  <2>2. ASSUME NEW c \in Calls PROVE (Parties(c) \/ Unknown(c))'
    <3>1. CASE c = call[h]
      BY <1>11, <2>1, <3>1 DEF Announce, Parties, redis, history
    <3>2. CASE c # call[h]
      BY <1>11, <2>1, <3>2 DEF Announce, Return, Send, Base, TypeOK, MintInv, Unknown, Parties,
         Minted, redis, sockets, locals, history, bounds
    <3> QED
      BY <3>1, <3>2
  <2>3. ASSUME NEW p \in Pairs PROVE IndexOf(p)'
    BY <1>11, <2>1 DEF Announce, Return, Send, Base, TypeOK, MintInv, IndexOf, Parties, PairOf,
       redis, sockets, locals, history, bounds
  <2> QED
    BY <2>2, <2>3 DEF MintInv
<1>12. ASSUME NEW h \in Handlers, GetPending(h) PROVE MintInv'
  BY <1>12, NullsAssumption, PairIsPair DEF GetPending, Goto, Base, TypeOK, LocalInv, MintInv,
     Unknown, IndexOf, Parties, Minted, PairOf, Accepting, Tearing, redis, sockets, locals,
     history, bounds
<1>13. ASSUME NEW h \in Handlers, Cancel(h) PROVE MintInv'
  <2>1. call[h] \in Calls /\ Parties(call[h]) /\ PairOf(call[h]) \in Pairs
        /\ PairOf(call[h]) \subseteq Users
    BY <1>13, CallKnown DEF Cancel, Accepting, Tearing
  <2>2. ASSUME NEW c \in Calls PROVE (Parties(c) \/ Unknown(c))'
    <3>1. CASE c = call[h]
      BY <1>13, <2>1, <3>1 DEF Cancel, Parties, redis, history
    <3>2. CASE c # call[h]
      BY <1>13, <2>1, <3>2 DEF Cancel, Return, Send, Answered, Base, TypeOK, MintInv, Unknown,
         Parties, Minted, redis, sockets, locals, history, bounds
    <3> QED
      BY <3>1, <3>2
  <2>3. ASSUME NEW p \in Pairs PROVE IndexOf(p)'
    BY <1>13, <2>1 DEF Cancel, Return, Send, Answered, Base, TypeOK, MintInv, IndexOf, Parties,
       PairOf, redis, sockets, locals, history, bounds
  <2> QED
    BY <2>2, <2>3 DEF MintInv
<1>14. ASSUME NEW h \in Handlers, InCallRoom(h) PROVE MintInv'
  <2>1. call[h] \in Calls /\ Parties(call[h]) /\ PairOf(call[h]) \in Pairs
        /\ PairOf(call[h]) \subseteq Users
    BY <1>14, CallKnown DEF InCallRoom, Accepting, Tearing
  <2>2. ASSUME NEW c \in Calls PROVE (Parties(c) \/ Unknown(c))'
    <3>1. CASE c = call[h]
      BY <1>14, <2>1, <3>1 DEF InCallRoom, Parties, redis, history
    <3>2. CASE c # call[h]
      BY <1>14, <2>1, <3>2 DEF InCallRoom, Return, Send, Base, TypeOK, MintInv, Unknown, Parties,
         Minted, redis, sockets, locals, history, bounds
    <3> QED
      BY <3>1, <3>2
  <2>3. ASSUME NEW p \in Pairs PROVE IndexOf(p)'
    BY <1>14, <2>1 DEF InCallRoom, Return, Send, Base, TypeOK, MintInv, IndexOf, Parties, PairOf,
       redis, sockets, locals, history, bounds
  <2> QED
    BY <2>2, <2>3 DEF MintInv
<1>15. ASSUME NEW h \in Handlers, LookupPair(h) PROVE MintInv'
  <2>1. who[h] \in Users /\ mate[h] \in Users
    BY <1>15 DEF LookupPair, Base, LocalInv
  <2>2. ASSUME NEW c \in Calls PROVE (Parties(c) \/ Unknown(c))'
    <3>1. CASE pairIdx[{who[h], mate[h]}] = c
      <4>1. Parties(c)
        BY <2>1, <3>1, IndexKnown, NullsAssumption
      <4> QED
        BY <1>15, <4>1 DEF LookupPair, Parties
    <3>2. CASE pairIdx[{who[h], mate[h]}] # c
      BY <1>15, <3>2 DEF LookupPair, Return, Send, Base, TypeOK, MintInv, Unknown, Parties,
         Minted, redis, sockets, locals, history, bounds
    <3> QED
      BY <3>1, <3>2
  <2>3. ASSUME NEW p \in Pairs PROVE IndexOf(p)'
    BY <1>15 DEF LookupPair, Base, MintInv, IndexOf, Parties, PairOf, redis
  <2> QED
    BY <2>2, <2>3 DEF MintInv
<1>16. ASSUME NEW h \in Handlers, TdClearPending(h) PROVE MintInv'
  <2>1. call[h] \in Calls /\ Parties(call[h]) /\ PairOf(call[h]) \in Pairs
        /\ PairOf(call[h]) \subseteq Users
    BY <1>16, CallKnown DEF TdClearPending, Accepting, Tearing
  <2>2. ASSUME NEW c \in Calls PROVE (Parties(c) \/ Unknown(c))'
    <3>1. CASE c = call[h]
      BY <1>16, <2>1, <3>1 DEF TdClearPending, Parties, redis, history
    <3>2. CASE c # call[h]
      BY <1>16, <2>1, <3>2 DEF TdClearPending, Base, TypeOK, MintInv, Unknown, Parties, Minted, redis,
         sockets, locals, history, bounds
    <3> QED
      BY <3>1, <3>2
  <2>3. ASSUME NEW p \in Pairs PROVE IndexOf(p)'
    BY <1>16, <2>1 DEF TdClearPending, Base, TypeOK, MintInv, IndexOf, Parties, PairOf, redis,
       sockets, locals, history, bounds
  <2> QED
    BY <2>2, <2>3 DEF MintInv
<1>17. ASSUME NEW h \in Handlers, TdReadId(h) PROVE MintInv'
  <2>1. call[h] \in Calls /\ Parties(call[h]) /\ PairOf(call[h]) \in Pairs
        /\ PairOf(call[h]) \subseteq Users
    BY <1>17, CallKnown DEF TdReadId, Accepting, Tearing
  <2>2. ASSUME NEW c \in Calls PROVE (Parties(c) \/ Unknown(c))'
    <3>1. CASE c = call[h]
      BY <1>17, <2>1, <3>1 DEF TdReadId, Parties, redis, history
    <3>2. CASE c # call[h]
      BY <1>17, <2>1, <3>2 DEF TdReadId, Base, TypeOK, MintInv, Unknown, Parties, Minted, redis,
         sockets, locals, history, bounds
    <3> QED
      BY <3>1, <3>2
  <2>3. ASSUME NEW p \in Pairs PROVE IndexOf(p)'
    BY <1>17, <2>1 DEF TdReadId, Base, TypeOK, MintInv, IndexOf, Parties, PairOf, redis, sockets,
       locals, history, bounds
  <2> QED
    BY <2>2, <2>3 DEF MintInv
<1>18. ASSUME NEW h \in Handlers, TdDeleteId(h) PROVE MintInv'
  <2>1. call[h] \in Calls /\ Parties(call[h]) /\ PairOf(call[h]) \in Pairs
        /\ PairOf(call[h]) \subseteq Users
    BY <1>18, CallKnown DEF TdDeleteId, Accepting, Tearing
  <2>2. ASSUME NEW c \in Calls PROVE (Parties(c) \/ Unknown(c))'
    <3>1. CASE c = call[h]
      BY <1>18, <2>1, <3>1 DEF TdDeleteId, Parties, redis, history
    <3>2. CASE c # call[h]
      BY <1>18, <2>1, <3>2 DEF TdDeleteId, Base, TypeOK, MintInv, Unknown, Parties, Minted, redis,
         sockets, locals, history, bounds
    <3> QED
      BY <3>1, <3>2
  <2>3. ASSUME NEW p \in Pairs PROVE IndexOf(p)'
    BY <1>18, <2>1 DEF TdDeleteId, Base, TypeOK, MintInv, IndexOf, Parties, PairOf, redis, sockets,
       locals, history, bounds
  <2> QED
    BY <2>2, <2>3 DEF MintInv
<1>19. ASSUME NEW h \in Handlers, TdDeletePair(h) PROVE MintInv'
  <2>1. call[h] \in Calls /\ Parties(call[h]) /\ PairOf(call[h]) \in Pairs
        /\ PairOf(call[h]) \subseteq Users
    BY <1>19, CallKnown DEF TdDeletePair, Accepting, Tearing
  <2>2. ASSUME NEW c \in Calls PROVE (Parties(c) \/ Unknown(c))'
    <3>1. CASE c = call[h]
      BY <1>19, <2>1, <3>1 DEF TdDeletePair, Parties, redis, history
    <3>2. CASE c # call[h]
      BY <1>19, <2>1, <3>2 DEF TdDeletePair, Base, TypeOK, MintInv, Unknown, Parties, Minted, redis,
         sockets, locals, history, bounds
    <3> QED
      BY <3>1, <3>2
  <2>3. ASSUME NEW p \in Pairs PROVE IndexOf(p)'
    BY <1>19, <2>1 DEF TdDeletePair, Base, TypeOK, MintInv, IndexOf, Parties, PairOf, redis,
       sockets, locals, history, bounds
  <2> QED
    BY <2>2, <2>3 DEF MintInv
<1>20. ASSUME NEW h \in Handlers, TdIndexFails(h) PROVE MintInv'
  BY <1>20 DEF TdIndexFails, Base, MintInv, Unknown, IndexOf, Parties, Minted, PairOf, redis,
     sockets, history
<1>21. ASSUME NEW h \in Handlers, TdSocketsLeave(h) PROVE MintInv'
  <2>1. call[h] \in Calls /\ Parties(call[h]) /\ PairOf(call[h]) \in Pairs
        /\ PairOf(call[h]) \subseteq Users
    BY <1>21, CallKnown DEF TdSocketsLeave, Accepting, Tearing
  <2>2. ASSUME NEW c \in Calls PROVE (Parties(c) \/ Unknown(c))'
    <3>1. CASE c = call[h]
      BY <1>21, <2>1, <3>1 DEF TdSocketsLeave, Parties, redis, history
    <3>2. CASE c # call[h]
      BY <1>21, <2>1, <3>2 DEF TdSocketsLeave, Return, Base, TypeOK, MintInv, Unknown, Parties,
         Minted, redis, sockets, locals, history, bounds
    <3> QED
      BY <3>1, <3>2
  <2>3. ASSUME NEW p \in Pairs PROVE IndexOf(p)'
    BY <1>21, <2>1 DEF TdSocketsLeave, Return, Base, TypeOK, MintInv, IndexOf, Parties, PairOf,
       redis, sockets, locals, history, bounds
  <2> QED
    BY <2>2, <2>3 DEF MintInv
<1>22. ASSUME NEW h \in Handlers, Crash(h) PROVE MintInv'
  BY <1>22, NullsAssumption, PairIsPair DEF Crash, Return, Base, TypeOK, LocalInv, MintInv,
     Unknown, IndexOf, Parties, Minted, PairOf, Accepting, Tearing, redis, sockets, locals,
     history, bounds
<1>23. ASSUME NEW u \in Users, NEW v \in Users, Block(u, v) PROVE MintInv'
  BY <1>23, NullsAssumption, PairIsPair DEF Block, Base, TypeOK, LocalInv, MintInv, Unknown,
     IndexOf, Parties, Minted, PairOf, Accepting, Tearing, redis, sockets, locals, history,
     bounds
<1>24. ASSUME NEW c \in Calls,
            RingExpires(c) \/ IndexExpires(c)
      PROVE  MintInv'
  BY <1>24, NullsAssumption, PairIsPair DEF RingExpires, IndexExpires, Base, TypeOK, LocalInv,
     MintInv, Unknown, IndexOf, Parties, Minted, PairOf, Accepting, Tearing, redis, sockets,
     locals, history, bounds
<1>25. ASSUME NEW u \in Users, Reconnect(u) PROVE MintInv'
  BY <1>25, NullsAssumption, PairIsPair DEF Reconnect, Base, TypeOK, LocalInv, MintInv,
     Unknown, IndexOf, Parties, Minted, PairOf, Accepting, Tearing, redis, sockets, locals,
     history, bounds
<1>26. CASE UNCHANGED vars
  BY <1>26 DEF vars, Base, TypeOK, LocalInv, MintInv, Unknown, IndexOf, Parties, Minted,
     PairOf, Accepting, Tearing, redis, sockets, locals, history, bounds
<1> QED
  BY <1>1, <1>2, <1>3, <1>4, <1>5, <1>6, <1>7, <1>8, <1>9, <1>10, <1>11, <1>12, <1>13, <1>14,
     <1>15, <1>16, <1>17, <1>18, <1>19, <1>20, <1>21, <1>22, <1>23, <1>24, <1>25, <1>26 DEF Next,
     StartAny, Step, Environment

-----------------------------------------------------------------------------
(* Answers *)

\* A call rings only until it is answered.
LEMMA RingStep ==
    ASSUME Base, RingInv, Next \/ UNCHANGED vars
    PROVE  RingInv'
<1>1. ASSUME NEW h \in Handlers, NEW u \in Users, NEW v \in Users,
            StartInvite(h, u, v) \/ StartEnforce(h, u, v)
      PROVE  RingInv'
  BY <1>1, NullsAssumption DEF StartInvite, Start, StartEnforce, Base, TypeOK, LocalInv,
     MintInv, Unknown, IndexOf, Parties, Minted, Accepting, Tearing, RingInv, redis,
     sockets, locals, history, bounds
<1>2. ASSUME NEW h \in Handlers, NEW u \in Users, NEW c \in Calls,
            StartResponse(h, u, c, "accept") \/ StartResponse(h, u, c, "decline")
            \/ StartEnd(h, u, c) \/ StartHangup(h, u, c)
      PROVE  RingInv'
  BY <1>2, NullsAssumption DEF StartResponse, Start, StartEnd, StartHangup, Base, TypeOK,
     LocalInv, MintInv, Unknown, IndexOf, Parties, Minted, Accepting, Tearing, RingInv,
     redis, sockets, locals, history, bounds
<1>3. ASSUME NEW h \in Handlers,
            InviteGate(h) \/ CreatePending(h) \/ ConsumePending(h) \/ FirstCheck(h)
            \/ IndexActiveCall(h)
      PROVE  RingInv'
  BY <1>3, NullsAssumption DEF InviteGate, Goto, Return, CreatePending, Send, Minted,
     ConsumePending, Answered, FirstCheck, IndexActiveCall, Base, TypeOK, LocalInv, MintInv,
     Unknown, IndexOf, Parties, Minted, Accepting, Tearing, RingInv, redis, sockets, locals,
     history, bounds
<1>4. ASSUME NEW h \in Handlers,
            IndexFails(h) \/ SecondCheck(h) \/ SocketsJoin(h) \/ Announce(h)
            \/ GetPending(h)
      PROVE  RingInv'
  BY <1>4, NullsAssumption DEF IndexFails, Goto, SecondCheck, Send, Blocked, SocketsJoin,
     Announce, Return, GetPending, Base, TypeOK, LocalInv, MintInv, Unknown, IndexOf,
     Parties, Minted, Accepting, Tearing, RingInv, redis, sockets, locals, history, bounds
<1>5. ASSUME NEW h \in Handlers,
            Cancel(h) \/ InCallRoom(h) \/ LookupPair(h) \/ TdClearPending(h) \/ TdReadId(h)
      PROVE  RingInv'
  BY <1>5, NullsAssumption DEF Cancel, Return, Send, Answered, InCallRoom, Goto, LookupPair,
     TdClearPending, TdReadId, Base, TypeOK, LocalInv, MintInv, Unknown, IndexOf, Parties,
     Minted, Accepting, Tearing, RingInv, redis, sockets, locals, history, bounds
<1>6. ASSUME NEW h \in Handlers,
            TdDeleteId(h) \/ TdDeletePair(h) \/ TdIndexFails(h) \/ TdSocketsLeave(h) \/ Crash(h)
      PROVE  RingInv'
  BY <1>6, NullsAssumption DEF TdDeleteId, Goto, TdDeletePair, TdIndexFails, TdSocketsLeave, Return, Crash,
     Base, TypeOK, LocalInv, MintInv, Unknown, IndexOf, Parties, Minted, Accepting, Tearing,
     RingInv, redis, sockets, locals, history, bounds
<1>7. ASSUME NEW u \in Users, NEW v \in Users, Block(u, v) PROVE RingInv'
  BY <1>7, NullsAssumption DEF Block, Base, TypeOK, LocalInv, MintInv, Unknown, IndexOf,
     Parties, Minted, Accepting, Tearing, RingInv, redis, sockets, locals, history, bounds
<1>8. ASSUME NEW c \in Calls,
            RingExpires(c) \/ IndexExpires(c)
      PROVE  RingInv'
  BY <1>8, NullsAssumption DEF RingExpires, IndexExpires, Base, TypeOK, LocalInv, MintInv,
     Unknown, IndexOf, Parties, Minted, Accepting, Tearing, RingInv, redis, sockets, locals,
     history, bounds
<1>9. ASSUME NEW u \in Users, Reconnect(u) PROVE RingInv'
  BY <1>9, NullsAssumption DEF Reconnect, Base, TypeOK, LocalInv, MintInv, Unknown, IndexOf,
     Parties, Minted, Accepting, Tearing, RingInv, redis, sockets, locals, history, bounds
<1>10. CASE UNCHANGED vars
  BY <1>10 DEF vars, Base, TypeOK, LocalInv, MintInv, Unknown, IndexOf, Parties, Minted,
     Accepting, Tearing, RingInv, redis, sockets, locals, history, bounds
<1> QED
  BY <1>1, <1>2, <1>3, <1>4, <1>5, <1>6, <1>7, <1>8, <1>9, <1>10 DEF Next, StartAny, Step,
     Environment

\* Only a call that rings is answered, so none is answered twice.
LEMMA OnceStep ==
    ASSUME Base, RingInv, AnsweredOnce, Next \/ UNCHANGED vars
    PROVE  AnsweredOnce'
<1>1. ASSUME NEW h \in Handlers, NEW u \in Users, NEW v \in Users,
            StartInvite(h, u, v) \/ StartEnforce(h, u, v)
      PROVE  AnsweredOnce'
  BY <1>1, NullsAssumption DEF StartInvite, Start, StartEnforce, Base, TypeOK, LocalInv,
     MintInv, Unknown, IndexOf, Parties, Minted, Accepting, Tearing, RingInv, AnsweredOnce,
     redis, sockets, locals, history, bounds
<1>2. ASSUME NEW h \in Handlers, NEW u \in Users, NEW c \in Calls,
            StartResponse(h, u, c, "accept") \/ StartResponse(h, u, c, "decline")
            \/ StartEnd(h, u, c) \/ StartHangup(h, u, c)
      PROVE  AnsweredOnce'
  BY <1>2, NullsAssumption DEF StartResponse, Start, StartEnd, StartHangup, Base, TypeOK,
     LocalInv, MintInv, Unknown, IndexOf, Parties, Minted, Accepting, Tearing, RingInv,
     AnsweredOnce, redis, sockets, locals, history, bounds
<1>3. ASSUME NEW h \in Handlers,
            InviteGate(h) \/ CreatePending(h)
      PROVE  AnsweredOnce'
  BY <1>3, NullsAssumption DEF InviteGate, Goto, Return, CreatePending, Send, Minted, Base,
     TypeOK, LocalInv, MintInv, Unknown, IndexOf, Parties, Minted, Accepting, Tearing,
     RingInv, AnsweredOnce, redis, sockets, locals, history, bounds
<1>4. ASSUME NEW h \in Handlers, ConsumePending(h) PROVE AnsweredOnce'
  <2>1. kind[h] \in Answer
    BY <1>4 DEF ConsumePending, Base, LocalInv, Answer
  <2>2. CASE answer' = answer
    BY <2>2 DEF AnsweredOnce
  <2>3. CASE call[h] \in pending /\ Answered(call[h], kind[h])
    <3>1. /\ Len(answer'[call[h]]) <= 1
          /\ \A q \in Calls \ {call[h]} : answer'[q] = answer[q]
      BY <2>1, <2>3, FirstAnswer DEF Base
    <3>2. ASSUME NEW c \in Calls PROVE Len(answer'[c]) <= 1
      BY <3>1 DEF AnsweredOnce
    <3> QED BY <3>2 DEF AnsweredOnce
  <2> QED
    BY <1>4, <2>2, <2>3 DEF ConsumePending
<1>5. ASSUME NEW h \in Handlers,
            FirstCheck(h) \/ IndexActiveCall(h) \/ IndexFails(h) \/ SecondCheck(h)
            \/ SocketsJoin(h)
      PROVE  AnsweredOnce'
  BY <1>5, NullsAssumption DEF FirstCheck, Goto, Return, Send, IndexActiveCall, IndexFails,
     SecondCheck, Blocked, SocketsJoin, Base, TypeOK, LocalInv, MintInv, Unknown, IndexOf,
     Parties, Minted, Accepting, Tearing, RingInv, AnsweredOnce, redis, sockets, locals,
     history, bounds
<1>6. ASSUME NEW h \in Handlers,
            Announce(h) \/ GetPending(h)
      PROVE  AnsweredOnce'
  BY <1>6, NullsAssumption DEF Announce, Return, Send, GetPending, Goto, Base, TypeOK,
     LocalInv, MintInv, Unknown, IndexOf, Parties, Minted, Accepting, Tearing, RingInv,
     AnsweredOnce, redis, sockets, locals, history, bounds
<1>7. ASSUME NEW h \in Handlers, Cancel(h) PROVE AnsweredOnce'
  <2>1. "cancel" \in Answer
    BY <1>7 DEF Cancel, Base, LocalInv, Answer
  <2>2. CASE answer' = answer
    BY <2>2 DEF AnsweredOnce
  <2>3. CASE call[h] \in pending /\ Answered(call[h], "cancel")
    <3>1. /\ Len(answer'[call[h]]) <= 1
          /\ \A q \in Calls \ {call[h]} : answer'[q] = answer[q]
      BY <2>1, <2>3, FirstAnswer DEF Base
    <3>2. ASSUME NEW c \in Calls PROVE Len(answer'[c]) <= 1
      BY <3>1 DEF AnsweredOnce
    <3> QED BY <3>2 DEF AnsweredOnce
  <2> QED
    BY <1>7, <2>2, <2>3 DEF Cancel
<1>8. ASSUME NEW h \in Handlers,
            InCallRoom(h) \/ LookupPair(h) \/ TdClearPending(h) \/ TdReadId(h)
            \/ TdDeleteId(h)
      PROVE  AnsweredOnce'
  BY <1>8, NullsAssumption DEF InCallRoom, Goto, Return, Send, LookupPair, TdClearPending,
     TdReadId, TdDeleteId, Base, TypeOK, LocalInv, MintInv, Unknown, IndexOf, Parties,
     Minted, Accepting, Tearing, RingInv, AnsweredOnce, redis, sockets, locals, history,
     bounds
<1>9. ASSUME NEW h \in Handlers,
            TdDeletePair(h) \/ TdIndexFails(h) \/ TdSocketsLeave(h) \/ Crash(h)
      PROVE  AnsweredOnce'
  BY <1>9, NullsAssumption DEF TdDeletePair, Goto, TdIndexFails, TdSocketsLeave, Return, Crash, Base,
     TypeOK, LocalInv, MintInv, Unknown, IndexOf, Parties, Minted, Accepting, Tearing,
     RingInv, AnsweredOnce, redis, sockets, locals, history, bounds
<1>10. ASSUME NEW u \in Users, NEW v \in Users, Block(u, v) PROVE AnsweredOnce'
  BY <1>10, NullsAssumption DEF Block, Base, TypeOK, LocalInv, MintInv, Unknown, IndexOf,
     Parties, Minted, Accepting, Tearing, RingInv, AnsweredOnce, redis, sockets, locals,
     history, bounds
<1>11. ASSUME NEW c \in Calls,
            RingExpires(c) \/ IndexExpires(c)
      PROVE  AnsweredOnce'
  BY <1>11, NullsAssumption DEF RingExpires, IndexExpires, Base, TypeOK, LocalInv, MintInv,
     Unknown, IndexOf, Parties, Minted, Accepting, Tearing, RingInv, AnsweredOnce, redis,
     sockets, locals, history, bounds
<1>12. ASSUME NEW u \in Users, Reconnect(u) PROVE AnsweredOnce'
  BY <1>12, NullsAssumption DEF Reconnect, Base, TypeOK, LocalInv, MintInv, Unknown, IndexOf,
     Parties, Minted, Accepting, Tearing, RingInv, AnsweredOnce, redis, sockets, locals,
     history, bounds
<1>13. CASE UNCHANGED vars
  BY <1>13 DEF vars, Base, TypeOK, LocalInv, MintInv, Unknown, IndexOf, Parties, Minted,
     Accepting, Tearing, RingInv, AnsweredOnce, redis, sockets, locals, history, bounds
<1> QED
  BY <1>1, <1>2, <1>3, <1>4, <1>5, <1>6, <1>7, <1>8, <1>9, <1>10, <1>11, <1>12, <1>13 DEF
     Next, StartAny, Step, Environment

\* The call that a handler accepts has been answered and rings no more.
LEMMA AcceptStep ==
    ASSUME Base, RingInv, AcceptInv, Next \/ UNCHANGED vars
    PROVE  AcceptInv'
<1>1. ASSUME NEW h \in Handlers, NEW u \in Users, NEW v \in Users,
            StartInvite(h, u, v) \/ StartEnforce(h, u, v)
      PROVE  AcceptInv'
  BY <1>1, NullsAssumption DEF StartInvite, Start, StartEnforce, Base, TypeOK, LocalInv,
     MintInv, Unknown, IndexOf, Parties, Minted, Accepting, Tearing, RingInv, AcceptInv, Taken,
     redis, sockets, locals, history, bounds
<1>2. ASSUME NEW h \in Handlers, NEW u \in Users, NEW c \in Calls,
            StartResponse(h, u, c, "accept") \/ StartResponse(h, u, c, "decline")
            \/ StartEnd(h, u, c) \/ StartHangup(h, u, c)
      PROVE  AcceptInv'
  BY <1>2, NullsAssumption DEF StartResponse, Start, StartEnd, StartHangup, Base, TypeOK,
     LocalInv, MintInv, Unknown, IndexOf, Parties, Minted, Accepting, Tearing, RingInv,
     AcceptInv, Taken, redis, sockets, locals, history, bounds
<1>3. ASSUME NEW h \in Handlers,
            InviteGate(h) \/ CreatePending(h)
      PROVE  AcceptInv'
  BY <1>3, NullsAssumption DEF InviteGate, Goto, Return, CreatePending, Send, Minted, Base,
     TypeOK, LocalInv, MintInv, Unknown, IndexOf, Parties, Minted, Accepting, Tearing,
     RingInv, AcceptInv, Taken, redis, sockets, locals, history, bounds
<1>4. ASSUME NEW h \in Handlers, ConsumePending(h) PROVE AcceptInv'
  <2>1. call[h] \in Calls
    BY <1>4, CallKnown DEF ConsumePending, Accepting, Tearing
  <2> SUFFICES ASSUME NEW g \in Handlers, pc'[g] \in Accepting
               PROVE  call'[g] \notin pending' /\ answer'[call'[g]] # <<>>
                      /\ Head(answer'[call'[g]]) = "accept"
    BY DEF AcceptInv, Taken
  <2>2. CASE g = h
    <3>1. pc'[h] # "idle"
      BY <2>2 DEF Accepting
    <3>2. /\ call'[h] = call[h] /\ pending' = pending \ {call[h]}
          /\ call[h] \in pending /\ Answered(call[h], "accept")
      BY <1>4, <3>1 DEF ConsumePending, Return, Base, TypeOK, locals
    <3>3. answer'[call[h]] # <<>> /\ Head(answer'[call[h]]) = "accept"
      BY <3>2, FirstAnswer DEF Base, Answer
    <3> QED
      BY <2>2, <3>2, <3>3
  <2>3. CASE g # h
    <3>1. pc[g] \in Accepting /\ call'[g] = call[g] /\ pending' \subseteq pending
      BY <1>4, <2>3 DEF ConsumePending, Goto, Return, Base, TypeOK, locals
    <3>2. call[g] \in Calls
      BY <3>1, CallKnown
    <3>3. call[g] \notin pending /\ answer[call[g]] # <<>> /\ Head(answer[call[g]]) = "accept"
      BY <3>1 DEF AcceptInv, Taken
    <3>4. answer'[call[g]] = answer[call[g]]
      BY <1>4, <2>1, <3>2, <3>3 DEF ConsumePending, Answered, Base, TypeOK
    <3> QED
      BY <3>1, <3>3, <3>4
  <2> QED
    BY <2>2, <2>3
<1>5. ASSUME NEW h \in Handlers,
            FirstCheck(h) \/ IndexActiveCall(h) \/ IndexFails(h) \/ SecondCheck(h)
            \/ SocketsJoin(h)
      PROVE  AcceptInv'
  BY <1>5, NullsAssumption DEF FirstCheck, Goto, Return, Send, IndexActiveCall, IndexFails,
     SecondCheck, Blocked, SocketsJoin, Base, TypeOK, LocalInv, MintInv, Unknown, IndexOf,
     Parties, Minted, Accepting, Tearing, RingInv, AcceptInv, Taken, redis, sockets, locals,
     history, bounds
<1>6. ASSUME NEW h \in Handlers,
            Announce(h) \/ GetPending(h)
      PROVE  AcceptInv'
  BY <1>6, NullsAssumption DEF Announce, Return, Send, GetPending, Goto, Base, TypeOK,
     LocalInv, MintInv, Unknown, IndexOf, Parties, Minted, Accepting, Tearing, RingInv,
     AcceptInv, Taken, redis, sockets, locals, history, bounds
<1>7. ASSUME NEW h \in Handlers, Cancel(h) PROVE AcceptInv'
  BY <1>7, NullsAssumption DEF Cancel, Return, Send, Answered, Base, TypeOK, LocalInv,
     MintInv, Unknown, IndexOf, Parties, Minted, Accepting, Tearing, RingInv, AcceptInv, Taken,
     redis, sockets, locals, history, bounds
<1>8. ASSUME NEW h \in Handlers,
            InCallRoom(h) \/ LookupPair(h)
      PROVE  AcceptInv'
  BY <1>8, NullsAssumption DEF InCallRoom, Goto, Return, Send, LookupPair, Base, TypeOK,
     LocalInv, MintInv, Unknown, IndexOf, Parties, Minted, Accepting, Tearing, RingInv,
     AcceptInv, Taken, redis, sockets, locals, history, bounds
<1>9. ASSUME NEW h \in Handlers,
            TdClearPending(h) \/ TdReadId(h) \/ TdDeleteId(h) \/ TdDeletePair(h)
            \/ TdIndexFails(h) \/ TdSocketsLeave(h)
      PROVE  AcceptInv'
  BY <1>9, NullsAssumption DEF TdClearPending, Goto, TdReadId, TdDeleteId, TdDeletePair,
     TdIndexFails, TdSocketsLeave, Return, Base, TypeOK, LocalInv, MintInv, Unknown, IndexOf, Parties,
     Minted, Accepting, Tearing, RingInv, AcceptInv, Taken, redis, sockets, locals, history, bounds
<1>10. ASSUME NEW h \in Handlers, Crash(h) PROVE AcceptInv'
  BY <1>10, NullsAssumption DEF Crash, Return, Base, TypeOK, LocalInv, MintInv, Unknown,
     IndexOf, Parties, Minted, Accepting, Tearing, RingInv, AcceptInv, Taken, redis, sockets,
     locals, history, bounds
<1>11. ASSUME NEW u \in Users, NEW v \in Users, Block(u, v) PROVE AcceptInv'
  BY <1>11, NullsAssumption DEF Block, Base, TypeOK, LocalInv, MintInv, Unknown, IndexOf,
     Parties, Minted, Accepting, Tearing, RingInv, AcceptInv, Taken, redis, sockets, locals,
     history, bounds
<1>12. ASSUME NEW c \in Calls,
            RingExpires(c) \/ IndexExpires(c)
      PROVE  AcceptInv'
  BY <1>12, NullsAssumption DEF RingExpires, IndexExpires, Base, TypeOK, LocalInv, MintInv,
     Unknown, IndexOf, Parties, Minted, Accepting, Tearing, RingInv, AcceptInv, Taken, redis,
     sockets, locals, history, bounds
<1>13. ASSUME NEW u \in Users, Reconnect(u) PROVE AcceptInv'
  BY <1>13, NullsAssumption DEF Reconnect, Base, TypeOK, LocalInv, MintInv, Unknown, IndexOf,
     Parties, Minted, Accepting, Tearing, RingInv, AcceptInv, Taken, redis, sockets, locals,
     history, bounds
<1>14. CASE UNCHANGED vars
  BY <1>14 DEF vars, Base, TypeOK, LocalInv, MintInv, Unknown, IndexOf, Parties, Minted,
     Accepting, Tearing, RingInv, AcceptInv, Taken, redis, sockets, locals, history, bounds
<1> QED
  BY <1>1, <1>2, <1>3, <1>4, <1>5, <1>6, <1>7, <1>8, <1>9, <1>10, <1>11, <1>12, <1>13, <1>14
     DEF Next, StartAny, Step, Environment

\* A call is accepted by one handler.
LEMMA OneAcceptsStep ==
    ASSUME Base, AcceptInv, OneAccepts, Next \/ UNCHANGED vars
    PROVE  OneAccepts'
<1>1. ASSUME NEW h \in Handlers, NEW u \in Users, NEW v \in Users,
            StartInvite(h, u, v) \/ StartEnforce(h, u, v)
      PROVE  OneAccepts'
  BY <1>1, NullsAssumption DEF StartInvite, Start, StartEnforce, Base, TypeOK, LocalInv,
     MintInv, Unknown, IndexOf, Parties, Minted, Accepting, Tearing, AcceptInv, OneAccepts,
     redis, sockets, locals, history, bounds
<1>2. ASSUME NEW h \in Handlers, NEW u \in Users, NEW c \in Calls,
            StartResponse(h, u, c, "accept") \/ StartResponse(h, u, c, "decline")
            \/ StartEnd(h, u, c) \/ StartHangup(h, u, c)
      PROVE  OneAccepts'
  BY <1>2, NullsAssumption DEF StartResponse, Start, StartEnd, StartHangup, Base, TypeOK,
     LocalInv, MintInv, Unknown, IndexOf, Parties, Minted, Accepting, Tearing, AcceptInv,
     OneAccepts, redis, sockets, locals, history, bounds
<1>3. ASSUME NEW h \in Handlers,
            InviteGate(h) \/ CreatePending(h) \/ ConsumePending(h)
      PROVE  OneAccepts'
  BY <1>3, NullsAssumption DEF InviteGate, Goto, Return, CreatePending, Send, Minted,
     ConsumePending, Base, TypeOK, LocalInv, MintInv, Unknown, IndexOf, Parties,
     Minted, Accepting, Tearing, AcceptInv, OneAccepts, redis, sockets, locals, history,
     bounds
<1>4. ASSUME NEW h \in Handlers, FirstCheck(h) PROVE OneAccepts'
  <2>1. \A g \in Handlers : pc'[g] \in Accepting =>
            pc[g] \in Accepting /\ call'[g] = call[g]
    BY <1>4 DEF FirstCheck, Goto, Return, Accepting, Base, TypeOK, locals
  <2> QED
    BY <2>1 DEF OneAccepts
<1>5. ASSUME NEW h \in Handlers,
            IndexActiveCall(h) \/ IndexFails(h) \/ SecondCheck(h) \/ SocketsJoin(h)
            \/ Announce(h)
      PROVE  OneAccepts'
  BY <1>5, NullsAssumption DEF IndexActiveCall, Goto, IndexFails, SecondCheck, Send, Blocked,
     SocketsJoin, Announce, Return, Base, TypeOK, LocalInv, MintInv, Unknown, IndexOf,
     Parties, Minted, Accepting, Tearing, AcceptInv, OneAccepts, redis, sockets, locals,
     history, bounds
<1>6. ASSUME NEW h \in Handlers,
            GetPending(h) \/ Cancel(h) \/ InCallRoom(h) \/ LookupPair(h)
            \/ TdClearPending(h)
      PROVE  OneAccepts'
  BY <1>6, NullsAssumption DEF GetPending, Goto, Cancel, Return, Send, InCallRoom,
     LookupPair, TdClearPending, Base, TypeOK, LocalInv, MintInv, Unknown, IndexOf, Parties,
     Minted, Accepting, Tearing, AcceptInv, OneAccepts, redis, sockets, locals, history,
     bounds
<1>7. ASSUME NEW h \in Handlers,
            TdReadId(h) \/ TdDeleteId(h) \/ TdDeletePair(h) \/ TdIndexFails(h) \/ TdSocketsLeave(h)
            \/ Crash(h)
      PROVE  OneAccepts'
  BY <1>7, NullsAssumption DEF TdReadId, Goto, TdDeleteId, TdDeletePair, TdIndexFails, TdSocketsLeave,
     Return, Crash, Base, TypeOK, LocalInv, MintInv, Unknown, IndexOf, Parties, Minted,
     Accepting, Tearing, AcceptInv, OneAccepts, redis, sockets, locals, history, bounds
<1>8. ASSUME NEW u \in Users, NEW v \in Users, Block(u, v) PROVE OneAccepts'
  BY <1>8, NullsAssumption DEF Block, Base, TypeOK, LocalInv, MintInv, Unknown, IndexOf,
     Parties, Minted, Accepting, Tearing, AcceptInv, OneAccepts, redis, sockets, locals,
     history, bounds
<1>9. ASSUME NEW c \in Calls,
            RingExpires(c) \/ IndexExpires(c)
      PROVE  OneAccepts'
  BY <1>9, NullsAssumption DEF RingExpires, IndexExpires, Base, TypeOK, LocalInv, MintInv,
     Unknown, IndexOf, Parties, Minted, Accepting, Tearing, AcceptInv, OneAccepts, redis,
     sockets, locals, history, bounds
<1>10. ASSUME NEW u \in Users, Reconnect(u) PROVE OneAccepts'
  BY <1>10, NullsAssumption DEF Reconnect, Base, TypeOK, LocalInv, MintInv, Unknown, IndexOf,
     Parties, Minted, Accepting, Tearing, AcceptInv, OneAccepts, redis, sockets, locals,
     history, bounds
<1>11. CASE UNCHANGED vars
  BY <1>11 DEF vars, Base, TypeOK, LocalInv, MintInv, Unknown, IndexOf, Parties, Minted,
     Accepting, Tearing, AcceptInv, OneAccepts, redis, sockets, locals, history, bounds
<1> QED
  BY <1>1, <1>2, <1>3, <1>4, <1>5, <1>6, <1>7, <1>8, <1>9, <1>10, <1>11 DEF Next, StartAny,
     Step, Environment

\* Only a call that was answered is indexed, joined or torn down.
LEMMA BareStep ==
    ASSUME Base, RingInv, AcceptInv, BareInv, Next \/ UNCHANGED vars
    PROVE  BareInv'
<1>1. ASSUME NEW h \in Handlers, NEW u \in Users, NEW v \in Users,
            StartInvite(h, u, v) \/ StartEnforce(h, u, v)
      PROVE  BareInv'
  BY <1>1, NullsAssumption DEF StartInvite, Start, StartEnforce, Base, TypeOK, LocalInv,
     MintInv, Unknown, IndexOf, Parties, Minted, Accepting, Tearing, AcceptInv, Taken, BareInv,
     Unindexed, redis, sockets, locals, history, bounds
<1>2. ASSUME NEW h \in Handlers, NEW u \in Users, NEW c \in Calls,
            StartResponse(h, u, c, "accept") \/ StartResponse(h, u, c, "decline")
            \/ StartEnd(h, u, c) \/ StartHangup(h, u, c)
      PROVE  BareInv'
  BY <1>2, NullsAssumption DEF StartResponse, Start, StartEnd, StartHangup, Base, TypeOK,
     LocalInv, MintInv, Unknown, IndexOf, Parties, Minted, Accepting, Tearing, AcceptInv, Taken,
     BareInv, Unindexed, redis, sockets, locals, history, bounds
<1>3. ASSUME NEW h \in Handlers, InviteGate(h) PROVE BareInv'
  BY <1>3, NullsAssumption DEF InviteGate, Goto, Return, Base, TypeOK, LocalInv, MintInv,
     Unknown, IndexOf, Parties, Minted, Accepting, Tearing, AcceptInv, Taken, BareInv, Unindexed,
     redis, sockets, locals, history, bounds
<1>4. ASSUME NEW h \in Handlers, CreatePending(h) PROVE BareInv'
  BY <1>4, NullsAssumption DEF CreatePending, Return, Send, Minted, Base, TypeOK, LocalInv,
     MintInv, Unknown, IndexOf, Parties, Minted, Accepting, Tearing, AcceptInv, Taken, BareInv,
     Unindexed, redis, sockets, locals, history, bounds
<1>5. ASSUME NEW h \in Handlers, ConsumePending(h) PROVE BareInv'
  BY <1>5, NullsAssumption DEF RingInv, ConsumePending, Goto, Return, Send, Answered, Base, TypeOK,
     LocalInv, MintInv, Unknown, IndexOf, Parties, Minted, Accepting, Tearing, AcceptInv, Taken,
     BareInv, Unindexed, redis, sockets, locals, history, bounds
<1>6. ASSUME NEW h \in Handlers, FirstCheck(h) PROVE BareInv'
  BY <1>6, NullsAssumption DEF FirstCheck, Goto, Return, Send, Base, TypeOK, LocalInv,
     MintInv, Unknown, IndexOf, Parties, Minted, Accepting, Tearing, AcceptInv, Taken, BareInv,
     Unindexed, redis, sockets, locals, history, bounds
<1>7. ASSUME NEW h \in Handlers, IndexActiveCall(h) PROVE BareInv'
  BY <1>7, NullsAssumption DEF IndexActiveCall, Goto, Base, TypeOK, LocalInv, MintInv,
     Unknown, IndexOf, Parties, Minted, Accepting, Tearing, AcceptInv, Taken, BareInv, Unindexed,
     redis, sockets, locals, history, bounds
<1>8. ASSUME NEW h \in Handlers,
            IndexFails(h) \/ SecondCheck(h) \/ SocketsJoin(h)
      PROVE  BareInv'
  BY <1>8, NullsAssumption DEF IndexFails, Goto, SecondCheck, Send, Blocked, SocketsJoin,
     Base, TypeOK, LocalInv, MintInv, Unknown, IndexOf, Parties, Minted, Accepting, Tearing,
     AcceptInv, Taken, BareInv, Unindexed, redis, sockets, locals, history, bounds
<1>9. ASSUME NEW h \in Handlers, Announce(h) PROVE BareInv'
  BY <1>9, NullsAssumption DEF Announce, Return, Send, Base, TypeOK, LocalInv, MintInv,
     Unknown, IndexOf, Parties, Minted, Accepting, Tearing, AcceptInv, Taken, BareInv, Unindexed,
     redis, sockets, locals, history, bounds
<1>10. ASSUME NEW h \in Handlers, GetPending(h) PROVE BareInv'
  BY <1>10, NullsAssumption DEF GetPending, Goto, Base, TypeOK, LocalInv, MintInv, Unknown,
     IndexOf, Parties, Minted, Accepting, Tearing, AcceptInv, Taken, BareInv, Unindexed, redis,
     sockets, locals, history, bounds
<1>11. ASSUME NEW h \in Handlers, Cancel(h) PROVE BareInv'
  BY <1>11, NullsAssumption DEF RingInv, Cancel, Return, Send, Answered, Base, TypeOK, LocalInv,
     MintInv, Unknown, IndexOf, Parties, Minted, Accepting, Tearing, AcceptInv, Taken, BareInv,
     Unindexed, redis, sockets, locals, history, bounds
<1>12. ASSUME NEW h \in Handlers, InCallRoom(h) PROVE BareInv'
  BY <1>12, NullsAssumption DEF InCallRoom, Goto, Return, Send, Base, TypeOK, LocalInv,
     MintInv, Unknown, IndexOf, Parties, Minted, Accepting, Tearing, AcceptInv, Taken, BareInv,
     Unindexed, redis, sockets, locals, history, bounds
<1>13. ASSUME NEW h \in Handlers, LookupPair(h) PROVE BareInv'
  <2>1. who[h] \in Users /\ mate[h] \in Users /\ {who[h], mate[h]} \in Pairs
    BY <1>13 DEF LookupPair, Base, LocalInv, Pairs
  <2>2. ASSUME NEW c \in Calls, ~Taken(c) PROVE pairIdx[{who[h], mate[h]}] # c
    BY <2>1, <2>2 DEF BareInv, Taken, Unindexed
  <2>3. ASSUME NEW c, Unindexed(c), pairIdx[{who[h], mate[h]}] # c PROVE Unindexed(c)'
    BY <1>13, <2>3 DEF LookupPair, Unindexed, redis
  <2>4. answer' = answer
    BY <1>13 DEF LookupPair
  <2> QED
    BY <2>2, <2>3, <2>4 DEF BareInv, Taken
<1>14. ASSUME NEW h \in Handlers,
            TdClearPending(h) \/ TdReadId(h) \/ TdDeleteId(h)
      PROVE  BareInv'
  BY <1>14, NullsAssumption DEF TdClearPending, Goto, TdReadId, TdDeleteId, Base, TypeOK,
     LocalInv, MintInv, Unknown, IndexOf, Parties, Minted, Accepting, Tearing, AcceptInv, Taken,
     BareInv, Unindexed, redis, sockets, locals, history, bounds
<1>15. ASSUME NEW h \in Handlers, TdDeletePair(h) PROVE BareInv'
  BY <1>15, NullsAssumption DEF TdDeletePair, Goto, Base, TypeOK, LocalInv, MintInv, Unknown,
     IndexOf, Parties, Minted, Accepting, Tearing, AcceptInv, Taken, BareInv, Unindexed, redis,
     sockets, locals, history, bounds
<1>16. ASSUME NEW h \in Handlers, TdIndexFails(h) PROVE BareInv'
  BY <1>16 DEF TdIndexFails, BareInv, Taken, Unindexed, redis, sockets, history
<1>17. ASSUME NEW h \in Handlers, TdSocketsLeave(h) PROVE BareInv'
  BY <1>17, NullsAssumption DEF TdSocketsLeave, Return, Base, TypeOK, LocalInv, MintInv,
     Unknown, IndexOf, Parties, Minted, Accepting, Tearing, AcceptInv, Taken, BareInv, Unindexed,
     redis, sockets, locals, history, bounds
<1>18. ASSUME NEW h \in Handlers, Crash(h) PROVE BareInv'
  BY <1>18, NullsAssumption DEF Crash, Return, Base, TypeOK, LocalInv, MintInv, Unknown,
     IndexOf, Parties, Minted, Accepting, Tearing, AcceptInv, Taken, BareInv, Unindexed, redis,
     sockets, locals, history, bounds
<1>19. ASSUME NEW u \in Users, NEW v \in Users, Block(u, v) PROVE BareInv'
  BY <1>19, NullsAssumption DEF Block, Base, TypeOK, LocalInv, MintInv, Unknown, IndexOf,
     Parties, Minted, Accepting, Tearing, AcceptInv, Taken, BareInv, Unindexed, redis, sockets,
     locals, history, bounds
<1>20. ASSUME NEW c \in Calls,
            RingExpires(c) \/ IndexExpires(c)
      PROVE  BareInv'
  BY <1>20, NullsAssumption DEF RingExpires, IndexExpires, Base, TypeOK, LocalInv, MintInv,
     Unknown, IndexOf, Parties, Minted, Accepting, Tearing, AcceptInv, Taken, BareInv, Unindexed,
     redis, sockets, locals, history, bounds
<1>21. ASSUME NEW u \in Users, Reconnect(u) PROVE BareInv'
  BY <1>21, NullsAssumption DEF Reconnect, Base, TypeOK, LocalInv, MintInv, Unknown, IndexOf,
     Parties, Minted, Accepting, Tearing, AcceptInv, Taken, BareInv, Unindexed, redis, sockets,
     locals, history, bounds
<1>22. CASE UNCHANGED vars
  BY <1>22 DEF vars, Base, TypeOK, LocalInv, MintInv, Unknown, IndexOf, Parties, Minted,
     Accepting, Tearing, AcceptInv, Taken, BareInv, Unindexed, redis, sockets, locals, history,
     bounds
<1> QED
  BY <1>1, <1>2, <1>3, <1>4, <1>5, <1>6, <1>7, <1>8, <1>9, <1>10, <1>11, <1>12, <1>13, <1>14,
     <1>15, <1>16, <1>17, <1>18, <1>19, <1>20, <1>21, <1>22 DEF Next, StartAny, Step, Environment

\* A call is not indexed, joined or torn down before its accept indexes it.
LEMMA EarlyStep ==
    ASSUME Base, AnswerInv, Next \/ UNCHANGED vars
    PROVE  EarlyInv'
<1>1. ASSUME NEW h \in Handlers, NEW u \in Users, NEW v \in Users,
            StartInvite(h, u, v) \/ StartEnforce(h, u, v)
      PROVE  EarlyInv'
  BY <1>1, NullsAssumption DEF StartInvite, Start, StartEnforce, Base, TypeOK, LocalInv,
     MintInv, Unknown, IndexOf, Parties, Minted, Accepting, Tearing, AnswerInv, RingInv,
     BareInv, Taken, AcceptInv, OneAccepts, EarlyInv, Unindexed, redis, sockets, locals, history,
     bounds
<1>2. ASSUME NEW h \in Handlers, NEW u \in Users, NEW c \in Calls, StartResponse(h, u, c,
      "accept") PROVE EarlyInv'
  BY <1>2, NullsAssumption DEF StartResponse, Start, Base, TypeOK, LocalInv, MintInv, Unknown,
     IndexOf, Parties, Minted, Accepting, Tearing, AnswerInv, RingInv, BareInv, Taken, AcceptInv,
     OneAccepts, EarlyInv, Unindexed, redis, sockets, locals, history, bounds
<1>3. ASSUME NEW h \in Handlers, NEW u \in Users, NEW c \in Calls, StartResponse(h, u, c,
      "decline") PROVE EarlyInv'
  BY <1>3, NullsAssumption DEF StartResponse, Start, Base, TypeOK, LocalInv, MintInv, Unknown,
     IndexOf, Parties, Minted, Accepting, Tearing, AnswerInv, RingInv, BareInv, Taken, AcceptInv,
     OneAccepts, EarlyInv, Unindexed, redis, sockets, locals, history, bounds
<1>4. ASSUME NEW h \in Handlers, NEW u \in Users, NEW c \in Calls,
            StartEnd(h, u, c) \/ StartHangup(h, u, c)
      PROVE  EarlyInv'
  BY <1>4, NullsAssumption DEF StartEnd, Start, StartHangup, Base, TypeOK, LocalInv, MintInv,
     Unknown, IndexOf, Parties, Minted, Accepting, Tearing, AnswerInv, RingInv, BareInv, Taken,
     AcceptInv, OneAccepts, EarlyInv, Unindexed, redis, sockets, locals, history, bounds
<1>5. ASSUME NEW h \in Handlers,
            InviteGate(h) \/ CreatePending(h) \/ ConsumePending(h) \/ FirstCheck(h)
            \/ IndexActiveCall(h)
      PROVE  EarlyInv'
  BY <1>5, NullsAssumption DEF InviteGate, Goto, Return, CreatePending, Send, Minted,
     ConsumePending, Answered, FirstCheck, IndexActiveCall, Base, TypeOK, LocalInv, MintInv,
     Unknown, IndexOf, Parties, Minted, Accepting, Tearing, AnswerInv, RingInv, BareInv, Taken,
     AcceptInv, OneAccepts, EarlyInv, Unindexed, redis, sockets, locals, history, bounds
<1>6. ASSUME NEW h \in Handlers,
            IndexFails(h) \/ SecondCheck(h) \/ SocketsJoin(h) \/ Announce(h)
            \/ GetPending(h)
      PROVE  EarlyInv'
  BY <1>6, NullsAssumption DEF IndexFails, Goto, SecondCheck, Send, Blocked, SocketsJoin,
     Announce, Return, GetPending, Base, TypeOK, LocalInv, MintInv, Unknown, IndexOf,
     Parties, Minted, Accepting, Tearing, AnswerInv, RingInv, BareInv, Taken, AcceptInv,
     OneAccepts, EarlyInv, Unindexed, redis, sockets, locals, history, bounds
<1>7. ASSUME NEW h \in Handlers,
            Cancel(h) \/ InCallRoom(h)
      PROVE  EarlyInv'
  BY <1>7, NullsAssumption DEF Cancel, Return, Send, Answered, InCallRoom, Goto, Base, TypeOK,
     LocalInv, MintInv, Unknown, IndexOf, Parties, Minted, Accepting, Tearing, AnswerInv,
     RingInv, BareInv, Taken, AcceptInv, OneAccepts, EarlyInv, Unindexed, redis, sockets, locals,
     history, bounds
<1>8. ASSUME NEW h \in Handlers, LookupPair(h) PROVE EarlyInv'
  <2>1. who[h] \in Users /\ mate[h] \in Users /\ {who[h], mate[h]} \in Pairs
    BY <1>8 DEF LookupPair, Base, LocalInv, Pairs
  <2>2. ASSUME NEW g \in Handlers, pc'[g] \in {"check1", "index"}
        PROVE  pc[g] \in {"check1", "index"} /\ call'[g] = call[g]
    BY <1>8, <2>2 DEF LookupPair, Goto, Return, Base, TypeOK
  <2>3. ASSUME NEW g \in Handlers, pc[g] \in {"check1", "index"}
        PROVE  pairIdx[{who[h], mate[h]}] # call[g] /\ Unindexed(call[g])
    BY <2>1, <2>3 DEF AnswerInv, EarlyInv, Unindexed
  <2>4. ASSUME NEW c, Unindexed(c), pairIdx[{who[h], mate[h]}] # c PROVE Unindexed(c)'
    BY <1>8, <2>4 DEF LookupPair, Unindexed, redis
  <2> QED
    BY <2>2, <2>3, <2>4 DEF EarlyInv
<1>9. ASSUME NEW h \in Handlers,
            TdClearPending(h) \/ TdReadId(h) \/ TdDeleteId(h) \/ TdDeletePair(h)
            \/ TdIndexFails(h) \/ TdSocketsLeave(h)
      PROVE  EarlyInv'
  BY <1>9, NullsAssumption DEF TdClearPending, Goto, TdReadId, TdDeleteId, TdDeletePair,
     TdIndexFails, TdSocketsLeave, Return, Base, TypeOK, LocalInv, MintInv, Unknown, IndexOf, Parties,
     Minted, Accepting, Tearing, AnswerInv, RingInv, BareInv, Taken, AcceptInv, OneAccepts,
     EarlyInv, Unindexed, redis, sockets, locals, history, bounds
<1>10. ASSUME NEW h \in Handlers, Crash(h) PROVE EarlyInv'
  BY <1>10, NullsAssumption DEF Crash, Return, Base, TypeOK, LocalInv, MintInv, Unknown,
     IndexOf, Parties, Minted, Accepting, Tearing, AnswerInv, RingInv, BareInv, Taken, AcceptInv,
     OneAccepts, EarlyInv, Unindexed, redis, sockets, locals, history, bounds
<1>11. ASSUME NEW u \in Users, NEW v \in Users, Block(u, v) PROVE EarlyInv'
  BY <1>11, NullsAssumption DEF Block, Base, TypeOK, LocalInv, MintInv, Unknown, IndexOf,
     Parties, Minted, Accepting, Tearing, AnswerInv, RingInv, BareInv, Taken, AcceptInv,
     OneAccepts, EarlyInv, Unindexed, redis, sockets, locals, history, bounds
<1>12. ASSUME NEW c \in Calls,
            RingExpires(c) \/ IndexExpires(c)
      PROVE  EarlyInv'
  BY <1>12, NullsAssumption DEF RingExpires, IndexExpires, Base, TypeOK, LocalInv, MintInv,
     Unknown, IndexOf, Parties, Minted, Accepting, Tearing, AnswerInv, RingInv, BareInv, Taken,
     AcceptInv, OneAccepts, EarlyInv, Unindexed, redis, sockets, locals, history, bounds
<1>13. ASSUME NEW u \in Users, Reconnect(u) PROVE EarlyInv'
  BY <1>13, NullsAssumption DEF Reconnect, Base, TypeOK, LocalInv, MintInv, Unknown, IndexOf,
     Parties, Minted, Accepting, Tearing, AnswerInv, RingInv, BareInv, Taken, AcceptInv,
     OneAccepts, EarlyInv, Unindexed, redis, sockets, locals, history, bounds
<1>14. CASE UNCHANGED vars
  BY <1>14 DEF vars, Base, TypeOK, LocalInv, MintInv, Unknown, IndexOf, Parties, Minted,
     Accepting, Tearing, AnswerInv, RingInv, BareInv, Taken, AcceptInv, OneAccepts, EarlyInv,
     Unindexed, redis, sockets, locals, history, bounds
<1> QED
  BY <1>1, <1>2, <1>3, <1>4, <1>5, <1>6, <1>7, <1>8, <1>9, <1>10, <1>11, <1>12, <1>13, <1>14
     DEF Next, StartAny, Step, Environment

-----------------------------------------------------------------------------
(* The index *)

\* The call last indexed for a pair stays in its key until it ends or lapses.
LEMMA NewestStep ==
    ASSUME Base, NewestCallIndexed, Next \/ UNCHANGED vars
    PROVE  NewestCallIndexed'
<1>1. ASSUME NEW h \in Handlers, NEW u \in Users, NEW v \in Users,
            StartInvite(h, u, v) \/ StartEnforce(h, u, v)
      PROVE  NewestCallIndexed'
  BY <1>1, NullsAssumption DEF StartInvite, Start, StartEnforce, Base, TypeOK, LocalInv,
     MintInv, Unknown, IndexOf, Parties, Minted, Accepting, Tearing, NewestCallIndexed,
     redis, sockets, locals, history, bounds
<1>2. ASSUME NEW h \in Handlers, NEW u \in Users, NEW c \in Calls,
            StartResponse(h, u, c, "accept") \/ StartResponse(h, u, c, "decline")
            \/ StartEnd(h, u, c) \/ StartHangup(h, u, c)
      PROVE  NewestCallIndexed'
  BY <1>2, NullsAssumption DEF StartResponse, Start, StartEnd, StartHangup, Base, TypeOK,
     LocalInv, MintInv, Unknown, IndexOf, Parties, Minted, Accepting, Tearing,
     NewestCallIndexed, redis, sockets, locals, history, bounds
<1>3. ASSUME NEW h \in Handlers,
            InviteGate(h) \/ CreatePending(h) \/ ConsumePending(h) \/ FirstCheck(h)
            \/ IndexActiveCall(h)
      PROVE  NewestCallIndexed'
  BY <1>3, NullsAssumption DEF InviteGate, Goto, Return, CreatePending, Send, Minted,
     ConsumePending, Answered, FirstCheck, IndexActiveCall, Base, TypeOK, LocalInv, MintInv,
     Unknown, IndexOf, Parties, Minted, Accepting, Tearing, NewestCallIndexed, redis,
     sockets, locals, history, bounds
<1>4. ASSUME NEW h \in Handlers,
            IndexFails(h) \/ SecondCheck(h) \/ SocketsJoin(h) \/ Announce(h)
            \/ GetPending(h)
      PROVE  NewestCallIndexed'
  BY <1>4, NullsAssumption DEF IndexFails, Goto, SecondCheck, Send, Blocked, SocketsJoin,
     Announce, Return, GetPending, Base, TypeOK, LocalInv, MintInv, Unknown, IndexOf,
     Parties, Minted, Accepting, Tearing, NewestCallIndexed, redis, sockets, locals,
     history, bounds
<1>5. ASSUME NEW h \in Handlers,
            Cancel(h) \/ InCallRoom(h) \/ LookupPair(h) \/ TdClearPending(h) \/ TdReadId(h)
      PROVE  NewestCallIndexed'
  BY <1>5, NullsAssumption DEF Cancel, Return, Send, Answered, InCallRoom, Goto, LookupPair,
     TdClearPending, TdReadId, Base, TypeOK, LocalInv, MintInv, Unknown, IndexOf, Parties,
     Minted, Accepting, Tearing, NewestCallIndexed, redis, sockets, locals, history, bounds
<1>6. ASSUME NEW h \in Handlers,
            TdDeleteId(h) \/ TdDeletePair(h) \/ TdIndexFails(h) \/ TdSocketsLeave(h) \/ Crash(h)
      PROVE  NewestCallIndexed'
  BY <1>6, NullsAssumption DEF TdDeleteId, Goto, TdDeletePair, TdIndexFails, TdSocketsLeave, Return, Crash,
     Base, TypeOK, LocalInv, MintInv, Unknown, IndexOf, Parties, Minted, Accepting, Tearing,
     NewestCallIndexed, redis, sockets, locals, history, bounds
<1>7. ASSUME NEW u \in Users, NEW v \in Users, Block(u, v) PROVE NewestCallIndexed'
  BY <1>7, NullsAssumption DEF Block, Base, TypeOK, LocalInv, MintInv, Unknown, IndexOf,
     Parties, Minted, Accepting, Tearing, NewestCallIndexed, redis, sockets, locals,
     history, bounds
<1>8. ASSUME NEW c \in Calls,
            RingExpires(c) \/ IndexExpires(c)
      PROVE  NewestCallIndexed'
  BY <1>8, NullsAssumption DEF RingExpires, IndexExpires, Base, TypeOK, LocalInv, MintInv,
     Unknown, IndexOf, Parties, Minted, Accepting, Tearing, NewestCallIndexed, redis,
     sockets, locals, history, bounds
<1>9. ASSUME NEW u \in Users, Reconnect(u) PROVE NewestCallIndexed'
  BY <1>9, NullsAssumption DEF Reconnect, Base, TypeOK, LocalInv, MintInv, Unknown, IndexOf,
     Parties, Minted, Accepting, Tearing, NewestCallIndexed, redis, sockets, locals,
     history, bounds
<1>10. CASE UNCHANGED vars
  BY <1>10 DEF vars, Base, TypeOK, LocalInv, MintInv, Unknown, IndexOf, Parties, Minted,
     Accepting, Tearing, NewestCallIndexed, redis, sockets, locals, history, bounds
<1> QED
  BY <1>1, <1>2, <1>3, <1>4, <1>5, <1>6, <1>7, <1>8, <1>9, <1>10 DEF Next, StartAny, Step,
     Environment

\* A teardown that found no reverse key deletes none later.
LEMMA FoundStep ==
    ASSUME Base, AnswerInv, FoundInv, Next \/ UNCHANGED vars
    PROVE  FoundInv'
<1>1. ASSUME NEW h \in Handlers, NEW u \in Users, NEW v \in Users,
            StartInvite(h, u, v) \/ StartEnforce(h, u, v)
      PROVE  FoundInv'
  BY <1>1, NullsAssumption DEF StartInvite, Start, StartEnforce, Base, TypeOK, LocalInv,
     MintInv, Unknown, IndexOf, Parties, Minted, Accepting, Tearing, AnswerInv, AcceptInv, Taken,
     EarlyInv, Unindexed, FoundInv, redis, sockets, locals, history, bounds
<1>2. ASSUME NEW h \in Handlers, NEW u \in Users, NEW c \in Calls,
            StartResponse(h, u, c, "accept") \/ StartResponse(h, u, c, "decline")
            \/ StartEnd(h, u, c) \/ StartHangup(h, u, c)
      PROVE  FoundInv'
  BY <1>2, NullsAssumption DEF StartResponse, Start, StartEnd, StartHangup, Base, TypeOK,
     LocalInv, MintInv, Unknown, IndexOf, Parties, Minted, Accepting, Tearing, AnswerInv,
     AcceptInv, Taken, EarlyInv, Unindexed, FoundInv, redis, sockets, locals, history, bounds
<1>3. ASSUME NEW h \in Handlers,
            InviteGate(h) \/ CreatePending(h) \/ ConsumePending(h) \/ FirstCheck(h)
            \/ IndexActiveCall(h)
      PROVE  FoundInv'
  BY <1>3, NullsAssumption DEF InviteGate, Goto, Return, CreatePending, Send, Minted,
     ConsumePending, Answered, FirstCheck, IndexActiveCall, Base, TypeOK, LocalInv, MintInv,
     Unknown, IndexOf, Parties, Minted, Accepting, Tearing, AnswerInv, AcceptInv, Taken, EarlyInv,
     Unindexed, FoundInv, redis, sockets, locals, history, bounds
<1>4. ASSUME NEW h \in Handlers,
            IndexFails(h) \/ SecondCheck(h) \/ SocketsJoin(h) \/ Announce(h)
            \/ GetPending(h)
      PROVE  FoundInv'
  BY <1>4, NullsAssumption DEF IndexFails, Goto, SecondCheck, Send, Blocked, SocketsJoin,
     Announce, Return, GetPending, Base, TypeOK, LocalInv, MintInv, Unknown, IndexOf,
     Parties, Minted, Accepting, Tearing, AnswerInv, AcceptInv, Taken, EarlyInv, Unindexed,
     FoundInv, redis, sockets, locals, history, bounds
<1>5. ASSUME NEW h \in Handlers,
            Cancel(h) \/ InCallRoom(h) \/ LookupPair(h)
      PROVE  FoundInv'
  BY <1>5, NullsAssumption DEF Cancel, Return, Send, Answered, InCallRoom, Goto, LookupPair,
     Base, TypeOK, LocalInv, MintInv, Unknown, IndexOf, Parties, Minted, Accepting, Tearing,
     AnswerInv, AcceptInv, Taken, EarlyInv, Unindexed, FoundInv, redis, sockets, locals, history,
     bounds
<1>6. ASSUME NEW h \in Handlers, TdClearPending(h) PROVE FoundInv'
  BY <1>6, NullsAssumption DEF TdClearPending, Goto, Base, TypeOK, LocalInv, MintInv, Unknown,
     IndexOf, Parties, Minted, Accepting, Tearing, AnswerInv, AcceptInv, Taken, EarlyInv,
     Unindexed, FoundInv, redis, sockets, locals, history, bounds
<1>7. ASSUME NEW h \in Handlers, TdReadId(h) PROVE FoundInv'
  BY <1>7 DEF TdReadId, Goto, Base, TypeOK, FoundInv, redis
<1>8. ASSUME NEW h \in Handlers,
            TdDeleteId(h) \/ TdDeletePair(h) \/ TdIndexFails(h) \/ TdSocketsLeave(h) \/ Crash(h)
      PROVE  FoundInv'
  BY <1>8, NullsAssumption DEF TdDeleteId, Goto, TdDeletePair, TdIndexFails, TdSocketsLeave, Return, Crash,
     Base, TypeOK, LocalInv, MintInv, Unknown, IndexOf, Parties, Minted, Accepting, Tearing,
     AnswerInv, AcceptInv, Taken, EarlyInv, Unindexed, FoundInv, redis, sockets, locals, history,
     bounds
<1>9. ASSUME NEW u \in Users, NEW v \in Users, Block(u, v) PROVE FoundInv'
  BY <1>9, NullsAssumption DEF Block, Base, TypeOK, LocalInv, MintInv, Unknown, IndexOf,
     Parties, Minted, Accepting, Tearing, AnswerInv, AcceptInv, Taken, EarlyInv, Unindexed,
     FoundInv, redis, sockets, locals, history, bounds
<1>10. ASSUME NEW c \in Calls,
            RingExpires(c) \/ IndexExpires(c)
      PROVE  FoundInv'
  BY <1>10, NullsAssumption DEF RingExpires, IndexExpires, Base, TypeOK, LocalInv, MintInv,
     Unknown, IndexOf, Parties, Minted, Accepting, Tearing, AnswerInv, AcceptInv, Taken, EarlyInv,
     Unindexed, FoundInv, redis, sockets, locals, history, bounds
<1>11. ASSUME NEW u \in Users, Reconnect(u) PROVE FoundInv'
  BY <1>11, NullsAssumption DEF Reconnect, Base, TypeOK, LocalInv, MintInv, Unknown, IndexOf,
     Parties, Minted, Accepting, Tearing, AnswerInv, AcceptInv, Taken, EarlyInv, Unindexed,
     FoundInv, redis, sockets, locals, history, bounds
<1>12. CASE UNCHANGED vars
  BY <1>12 DEF vars, Base, TypeOK, LocalInv, MintInv, Unknown, IndexOf, Parties, Minted,
     Accepting, Tearing, AnswerInv, AcceptInv, Taken, EarlyInv, Unindexed, FoundInv, redis,
     sockets, locals, history, bounds
<1> QED
  BY <1>1, <1>2, <1>3, <1>4, <1>5, <1>6, <1>7, <1>8, <1>9, <1>10, <1>11, <1>12 DEF Next,
     StartAny, Step, Environment

\* While nothing fails, a call in a pair's key is in the reverse index, or is being deleted.
LEMMA IndexStep ==
    ASSUME Base, FoundInv, IndexInv, Next \/ UNCHANGED vars
    PROVE  IndexInv'
<1>1. ASSUME NEW h \in Handlers, NEW u \in Users, NEW v \in Users, StartInvite(h, u, v)
      PROVE IndexInv'
  BY <1>1, NullsAssumption, PairIsPair DEF StartInvite, Start, Base, TypeOK, LocalInv,
     MintInv, Unknown, IndexOf, Parties, Minted, Accepting, Tearing, FoundInv, IndexInv,
     Deletes, redis, sockets, locals, history, bounds
<1>2. ASSUME NEW h \in Handlers, NEW u \in Users, NEW c \in Calls, StartResponse(h, u, c,
      "accept") PROVE IndexInv'
  BY <1>2, NullsAssumption, PairIsPair DEF StartResponse, Start, Base, TypeOK, LocalInv,
     MintInv, Unknown, IndexOf, Parties, Minted, Accepting, Tearing, FoundInv, IndexInv,
     Deletes, redis, sockets, locals, history, bounds
<1>3. ASSUME NEW h \in Handlers, NEW u \in Users, NEW c \in Calls, StartResponse(h, u, c,
      "decline") PROVE IndexInv'
  BY <1>3, NullsAssumption, PairIsPair DEF StartResponse, Start, Base, TypeOK, LocalInv,
     MintInv, Unknown, IndexOf, Parties, Minted, Accepting, Tearing, FoundInv, IndexInv,
     Deletes, redis, sockets, locals, history, bounds
<1>4. ASSUME NEW h \in Handlers, NEW u \in Users, NEW v \in Users, StartEnforce(h, u, v)
      PROVE IndexInv'
  BY <1>4, NullsAssumption, PairIsPair DEF StartEnforce, Start, Base, TypeOK, LocalInv,
     MintInv, Unknown, IndexOf, Parties, Minted, Accepting, Tearing, FoundInv, IndexInv,
     Deletes, redis, sockets, locals, history, bounds
<1>5. ASSUME NEW h \in Handlers, NEW u \in Users, NEW c \in Calls, StartEnd(h, u, c) PROVE
      IndexInv'
  BY <1>5, NullsAssumption, PairIsPair DEF StartEnd, Start, Base, TypeOK, LocalInv, MintInv,
     Unknown, IndexOf, Parties, Minted, Accepting, Tearing, FoundInv, IndexInv, Deletes,
     redis, sockets, locals, history, bounds
<1>6. ASSUME NEW h \in Handlers, NEW u \in Users, NEW c \in Calls, StartHangup(h, u, c)
      PROVE IndexInv'
  BY <1>6, NullsAssumption, PairIsPair DEF StartHangup, Start, Base, TypeOK, LocalInv,
     MintInv, Unknown, IndexOf, Parties, Minted, Accepting, Tearing, FoundInv, IndexInv,
     Deletes, redis, sockets, locals, history, bounds
<1>7. ASSUME NEW h \in Handlers,
            InviteGate(h) \/ CreatePending(h) \/ ConsumePending(h)
      PROVE  IndexInv'
  BY <1>7, NullsAssumption, PairIsPair DEF InviteGate, Goto, Return, CreatePending, Send,
     Minted, ConsumePending, Base, TypeOK, LocalInv, MintInv, Unknown, IndexOf,
     Parties, Minted, Accepting, Tearing, FoundInv, IndexInv, Deletes, redis, sockets,
     locals, history, bounds
<1>8. ASSUME NEW h \in Handlers, FirstCheck(h) PROVE IndexInv'
  BY <1>8 DEF FirstCheck, Goto, Return, Base, TypeOK, IndexInv, Deletes, redis, locals, bounds
<1>9. ASSUME NEW h \in Handlers, IndexActiveCall(h) PROVE IndexInv'
  BY <1>9, NullsAssumption, PairIsPair DEF IndexActiveCall, Goto, Base, TypeOK, LocalInv,
     MintInv, Unknown, IndexOf, Parties, Minted, Accepting, Tearing, FoundInv, IndexInv,
     Deletes, redis, sockets, locals, history, bounds
<1>10. ASSUME NEW h \in Handlers,
            IndexFails(h) \/ SecondCheck(h) \/ SocketsJoin(h) \/ Announce(h)
            \/ GetPending(h)
      PROVE  IndexInv'
  BY <1>10, NullsAssumption, PairIsPair DEF IndexFails, Goto, SecondCheck, Send, Blocked,
     SocketsJoin, Announce, Return, GetPending, Base, TypeOK, LocalInv, MintInv, Unknown,
     IndexOf, Parties, Minted, Accepting, Tearing, FoundInv, IndexInv, Deletes, redis,
     sockets, locals, history, bounds
<1>11. ASSUME NEW h \in Handlers,
            Cancel(h) \/ InCallRoom(h) \/ LookupPair(h) \/ TdClearPending(h) \/ TdReadId(h)
      PROVE  IndexInv'
  BY <1>11, NullsAssumption, PairIsPair DEF Cancel, Return, Send, Answered, InCallRoom, Goto,
     LookupPair, TdClearPending, TdReadId, Base, TypeOK, LocalInv, MintInv, Unknown,
     IndexOf, Parties, Minted, Accepting, Tearing, FoundInv, IndexInv, Deletes, redis,
     sockets, locals, history, bounds
<1>12. ASSUME NEW h \in Handlers, TdDeleteId(h) PROVE IndexInv'
  BY <1>12, NullsAssumption, PairIsPair DEF TdDeleteId, Goto, Base, TypeOK, LocalInv, MintInv,
     Unknown, IndexOf, Parties, Minted, Accepting, Tearing, FoundInv, IndexInv, Deletes,
     redis, sockets, locals, history, bounds
<1>13. ASSUME NEW h \in Handlers, TdDeletePair(h) PROVE IndexInv'
  <2>1. PairOf(call[h]) \in Pairs
    BY <1>13, CallKnown DEF TdDeletePair, Accepting, Tearing
  <2> SUFFICES ASSUME NEW p \in Pairs, pairIdx'[p] \notin stranded \cup {NoCall}
               PROVE  \/ pairIdx'[p] \in idIdx'
                      \/ \E g \in Handlers : Deletes(g, pairIdx[p])'
    BY <1>13 DEF IndexInv, TdDeletePair, Deletes, bounds
  <2>2. pairIdx'[p] = pairIdx[p] /\ pairIdx[p] # call[h]
    BY <1>13, <2>1 DEF TdDeletePair, Base, TypeOK, MintInv, IndexOf
  <2>3. ASSUME NEW g \in Handlers, Deletes(g, pairIdx[p]) PROVE Deletes(g, pairIdx[p])'
    BY <1>13, <2>2, <2>3 DEF TdDeletePair, Goto, Deletes, Base, TypeOK, locals
  <2> QED
    BY <1>13, <2>2, <2>3 DEF TdDeletePair, IndexInv
<1>14. ASSUME NEW h \in Handlers, TdIndexFails(h) PROVE IndexInv'
  <2> SUFFICES ASSUME NEW p \in Pairs, pairIdx[p] \notin stranded' \cup {NoCall}
               PROVE  \/ pairIdx[p] \in idIdx
                      \/ \E g \in Handlers : Deletes(g, pairIdx[p])'
    BY <1>14 DEF TdIndexFails, IndexInv, Deletes, redis
  <2>1. pairIdx[p] \notin stranded \cup {NoCall} /\ pairIdx[p] # call[h] /\ pairIdx' = pairIdx
    BY <1>14 DEF TdIndexFails, redis
  <2>2. ASSUME NEW g \in Handlers, Deletes(g, pairIdx[p]) PROVE Deletes(g, pairIdx[p])'
    <3>1. g # h
      BY <2>1, <2>2 DEF Deletes
    <3> QED
      BY <1>14, <2>1, <2>2, <3>1 DEF TdIndexFails, Goto, Deletes, Base, TypeOK, locals
  <2> QED
    BY <2>1, <2>2 DEF IndexInv
<1>15. ASSUME NEW h \in Handlers, TdSocketsLeave(h) PROVE IndexInv'
  BY <1>15, NullsAssumption, PairIsPair DEF TdSocketsLeave, Return, Base, TypeOK,
     LocalInv, MintInv, Unknown, IndexOf, Parties, Minted, Accepting, Tearing, FoundInv,
     IndexInv, Deletes, redis, sockets, locals, history, bounds
<1>20. ASSUME NEW h \in Handlers, Crash(h) PROVE IndexInv'
  <2> SUFFICES ASSUME NEW p \in Pairs, pairIdx'[p] \notin stranded' \cup {NoCall}
               PROVE  \/ pairIdx'[p] \in idIdx'
                      \/ \E g \in Handlers : Deletes(g, pairIdx[p])'
    BY <1>20, CrashStrands DEF IndexInv, Deletes
  <2>1. pairIdx[p] \notin stranded \cup {NoCall} /\ pairIdx'[p] = pairIdx[p] /\ idIdx' = idIdx
    BY <1>20, CrashStrands
  <2>2. ASSUME NEW g \in Handlers, Deletes(g, pairIdx[p]) PROVE Deletes(g, pairIdx[p])'
    <3>1. g # h
      BY <1>20, <2>1, <2>2, CrashStrands DEF Deletes
    <3> QED
      BY <1>20, <2>1, <2>2, <3>1, CrashStrands DEF Deletes
  <2> QED
    BY <2>1, <2>2 DEF IndexInv
<1>16. ASSUME NEW u \in Users, NEW v \in Users, Block(u, v) PROVE IndexInv'
  BY <1>16, NullsAssumption, PairIsPair DEF Block, Base, TypeOK, LocalInv, MintInv, Unknown,
     IndexOf, Parties, Minted, Accepting, Tearing, FoundInv, IndexInv, Deletes, redis,
     sockets, locals, history, bounds
<1>17. ASSUME NEW c \in Calls,
            RingExpires(c) \/ IndexExpires(c)
      PROVE  IndexInv'
  BY <1>17, NullsAssumption, PairIsPair DEF RingExpires, IndexExpires, Base, TypeOK, LocalInv,
     MintInv, Unknown, IndexOf, Parties, Minted, Accepting, Tearing, FoundInv, IndexInv,
     Deletes, redis, sockets, locals, history, bounds
<1>18. ASSUME NEW u \in Users, Reconnect(u) PROVE IndexInv'
  BY <1>18, NullsAssumption, PairIsPair DEF Reconnect, Base, TypeOK, LocalInv, MintInv,
     Unknown, IndexOf, Parties, Minted, Accepting, Tearing, FoundInv, IndexInv, Deletes,
     redis, sockets, locals, history, bounds
<1>19. CASE UNCHANGED vars
  BY <1>19 DEF vars, Base, TypeOK, LocalInv, MintInv, Unknown, IndexOf, Parties, Minted,
     Accepting, Tearing, FoundInv, IndexInv, Deletes, redis, sockets, locals, history,
     bounds
<1> QED
  BY <1>1, <1>2, <1>3, <1>4, <1>5, <1>6, <1>7, <1>8, <1>9, <1>10, <1>11, <1>12, <1>13, <1>14, <1>15,
     <1>16, <1>17, <1>18, <1>19, <1>20 DEF Next, StartAny, Step, Environment

\* A step that blocks nobody, indexes nothing and takes no message keeps BlockInv, when
\* whatever was about to end an indexed call is replaced by something that is.
LEMMA BlockKept ==
    ASSUME BlockInv, stranded' = stranded, blocked' \subseteq blocked,
           enforce \subseteq enforce',
           \A p \in blocked : pairIdx'[p] # NoCall => pairIdx'[p] = pairIdx[p],
           \A p \in blocked, g \in Handlers :
               pairIdx[p] \notin stranded \cup {NoCall} /\ pairIdx'[p] = pairIdx[p] /\ Ends(g, p)
                   => \E k \in Handlers : Ends(k, p)'
    PROVE  BlockInv'
<1> SUFFICES ASSUME NEW p \in blocked, pairIdx'[p] \notin stranded \cup {NoCall}
             PROVE  \/ \E u, v \in Users : <<u, v>> \in enforce' /\ {u, v} = p
                    \/ \E k \in Handlers : Ends(k, p)'
  BY DEF BlockInv
<1>1. pairIdx[p] \notin stranded \cup {NoCall} /\ pairIdx'[p] = pairIdx[p]
  OBVIOUS
<1>2. CASE \E u, v \in Users : <<u, v>> \in enforce /\ {u, v} = p
  BY <1>2
<1>3. CASE \E g \in Handlers : Ends(g, p)
  BY <1>1, <1>3
<1> QED
  BY <1>1, <1>2, <1>3 DEF BlockInv

\* Unless a handler of it died, the indexed call of a blocked pair is about to be ended.
LEMMA BlockStep ==
    ASSUME Base, IndexInv, BlockInv, Next \/ UNCHANGED vars
    PROVE  BlockInv'
<1>1. ASSUME NEW h \in Handlers, NEW u \in Users, NEW v \in Users, StartInvite(h, u, v)
      PROVE BlockInv'
  <2>1. ASSUME NEW p \in blocked, NEW g \in Handlers, pairIdx[p] # NoCall,
               pairIdx'[p] = pairIdx[p], Ends(g, p)
        PROVE  \E k \in Handlers : Ends(k, p)'
    BY <1>1, <2>1 DEF StartInvite, Start, Ends, Deletes, Base, TypeOK, redis, sockets, locals,
       history, bounds
  <2>2. /\ stranded' = stranded /\ blocked' = blocked /\ enforce' = enforce
        /\ \A p \in blocked : pairIdx'[p] # NoCall => pairIdx'[p] = pairIdx[p]
    BY <1>1 DEF StartInvite, Start, Base, TypeOK, redis, sockets, locals, history, bounds
  <2> QED
    BY <2>1, <2>2, BlockKept
<1>2. ASSUME NEW h \in Handlers, NEW u \in Users, NEW c \in Calls, StartResponse(h, u, c,
      "accept") PROVE BlockInv'
  <2>1. ASSUME NEW p \in blocked, NEW g \in Handlers, pairIdx[p] # NoCall,
               pairIdx'[p] = pairIdx[p], Ends(g, p)
        PROVE  \E k \in Handlers : Ends(k, p)'
    BY <1>2, <2>1 DEF StartResponse, Start, Ends, Deletes, Base, TypeOK, redis, sockets, locals,
       history, bounds
  <2>2. /\ stranded' = stranded /\ blocked' = blocked /\ enforce' = enforce
        /\ \A p \in blocked : pairIdx'[p] # NoCall => pairIdx'[p] = pairIdx[p]
    BY <1>2 DEF StartResponse, Start, Base, TypeOK, redis, sockets, locals, history, bounds
  <2> QED
    BY <2>1, <2>2, BlockKept
<1>3. ASSUME NEW h \in Handlers, NEW u \in Users, NEW c \in Calls, StartResponse(h, u, c,
      "decline") PROVE BlockInv'
  <2>1. ASSUME NEW p \in blocked, NEW g \in Handlers, pairIdx[p] # NoCall,
               pairIdx'[p] = pairIdx[p], Ends(g, p)
        PROVE  \E k \in Handlers : Ends(k, p)'
    BY <1>3, <2>1 DEF StartResponse, Start, Ends, Deletes, Base, TypeOK, redis, sockets, locals,
       history, bounds
  <2>2. /\ stranded' = stranded /\ blocked' = blocked /\ enforce' = enforce
        /\ \A p \in blocked : pairIdx'[p] # NoCall => pairIdx'[p] = pairIdx[p]
    BY <1>3 DEF StartResponse, Start, Base, TypeOK, redis, sockets, locals, history, bounds
  <2> QED
    BY <2>1, <2>2, BlockKept
<1>4. ASSUME NEW h \in Handlers, NEW u \in Users, NEW c \in Calls, StartEnd(h, u, c) PROVE
      BlockInv'
  <2>1. ASSUME NEW p \in blocked, NEW g \in Handlers, pairIdx[p] # NoCall,
               pairIdx'[p] = pairIdx[p], Ends(g, p)
        PROVE  \E k \in Handlers : Ends(k, p)'
    BY <1>4, <2>1 DEF StartEnd, Start, Ends, Deletes, Base, TypeOK, redis, sockets, locals,
       history, bounds
  <2>2. /\ stranded' = stranded /\ blocked' = blocked /\ enforce' = enforce
        /\ \A p \in blocked : pairIdx'[p] # NoCall => pairIdx'[p] = pairIdx[p]
    BY <1>4 DEF StartEnd, Start, Base, TypeOK, redis, sockets, locals, history, bounds
  <2> QED
    BY <2>1, <2>2, BlockKept
<1>5. ASSUME NEW h \in Handlers, NEW u \in Users, NEW c \in Calls, StartHangup(h, u, c)
      PROVE BlockInv'
  <2>1. ASSUME NEW p \in blocked, NEW g \in Handlers, pairIdx[p] # NoCall,
               pairIdx'[p] = pairIdx[p], Ends(g, p)
        PROVE  \E k \in Handlers : Ends(k, p)'
    BY <1>5, <2>1 DEF StartHangup, Start, Ends, Deletes, Base, TypeOK, redis, sockets, locals,
       history, bounds
  <2>2. /\ stranded' = stranded /\ blocked' = blocked /\ enforce' = enforce
        /\ \A p \in blocked : pairIdx'[p] # NoCall => pairIdx'[p] = pairIdx[p]
    BY <1>5 DEF StartHangup, Start, Base, TypeOK, redis, sockets, locals, history, bounds
  <2> QED
    BY <2>1, <2>2, BlockKept
<1>6. ASSUME NEW h \in Handlers, NEW u \in Users, NEW v \in Users, StartEnforce(h, u, v)
      PROVE BlockInv'
  <2> SUFFICES ASSUME NEW p \in blocked, pairIdx[p] \notin stranded \cup {NoCall}
               PROVE  \/ \E a, b \in Users : <<a, b>> \in enforce' /\ {a, b} = p
                      \/ \E k \in Handlers : Ends(k, p)'
    BY <1>6 DEF BlockInv, StartEnforce, Start, redis
  <2>1. CASE {u, v} = p
    BY <1>6, <2>1 DEF StartEnforce, Start, Ends, Base, TypeOK
  <2>2. CASE \E a, b \in Users : <<a, b>> \in enforce /\ {a, b} = p /\ {u, v} # p
    BY <1>6, <2>2 DEF StartEnforce
  <2>3. ASSUME NEW g \in Handlers, Ends(g, p) PROVE Ends(g, p)'
    BY <1>6, <2>3 DEF StartEnforce, Start, Ends, Deletes, Base, TypeOK, redis
  <2> QED
    BY <2>1, <2>2, <2>3 DEF BlockInv
<1>7. ASSUME NEW h \in Handlers, InviteGate(h) PROVE BlockInv'
  <2>1. ASSUME NEW p \in blocked, NEW g \in Handlers, pairIdx[p] # NoCall,
               pairIdx'[p] = pairIdx[p], Ends(g, p)
        PROVE  \E k \in Handlers : Ends(k, p)'
    BY <1>7, <2>1 DEF InviteGate, Goto, Return, Ends, Deletes, Base, TypeOK, redis, sockets,
       locals, history, bounds
  <2>2. /\ stranded' = stranded /\ blocked' = blocked /\ enforce' = enforce
        /\ \A p \in blocked : pairIdx'[p] # NoCall => pairIdx'[p] = pairIdx[p]
    BY <1>7 DEF InviteGate, Goto, Return, Base, TypeOK, redis, sockets, locals, history, bounds
  <2> QED
    BY <2>1, <2>2, BlockKept
<1>8. ASSUME NEW h \in Handlers, CreatePending(h) PROVE BlockInv'
  <2>1. ASSUME NEW p \in blocked, NEW g \in Handlers, pairIdx[p] # NoCall,
               pairIdx'[p] = pairIdx[p], Ends(g, p)
        PROVE  \E k \in Handlers : Ends(k, p)'
    BY <1>8, <2>1 DEF CreatePending, Return, Send, Minted, Ends, Deletes, Base, TypeOK, redis,
       sockets, locals, history, bounds
  <2>2. /\ stranded' = stranded /\ blocked' = blocked /\ enforce' = enforce
        /\ \A p \in blocked : pairIdx'[p] # NoCall => pairIdx'[p] = pairIdx[p]
    BY <1>8 DEF CreatePending, Return, Send, Minted, Base, TypeOK, redis, sockets, locals, history,
       bounds
  <2> QED
    BY <2>1, <2>2, BlockKept
<1>9. ASSUME NEW h \in Handlers, ConsumePending(h) PROVE BlockInv'
  <2>1. ASSUME NEW p \in blocked, NEW g \in Handlers, pairIdx[p] # NoCall,
               pairIdx'[p] = pairIdx[p], Ends(g, p)
        PROVE  \E k \in Handlers : Ends(k, p)'
    BY <1>9, <2>1 DEF ConsumePending, Goto, Return, Ends, Deletes, Base, TypeOK, locals
  <2>2. /\ stranded' = stranded /\ blocked' = blocked /\ enforce' = enforce
        /\ \A p \in blocked : pairIdx'[p] # NoCall => pairIdx'[p] = pairIdx[p]
    BY <1>9 DEF ConsumePending, Goto, Return, Send, Answered, Base, TypeOK, redis, sockets, locals,
       history, bounds
  <2> QED
    BY <2>1, <2>2, BlockKept
<1>10. ASSUME NEW h \in Handlers, FirstCheck(h) PROVE BlockInv'
  <2>1. ASSUME NEW p \in blocked, NEW g \in Handlers, pairIdx[p] # NoCall,
               pairIdx'[p] = pairIdx[p], Ends(g, p)
        PROVE  \E k \in Handlers : Ends(k, p)'
    BY <1>10, <2>1 DEF FirstCheck, Goto, Return, Send, Ends, Deletes, Base, TypeOK, redis, sockets,
       locals, history, bounds
  <2>2. /\ stranded' = stranded /\ blocked' = blocked /\ enforce' = enforce
        /\ \A p \in blocked : pairIdx'[p] # NoCall => pairIdx'[p] = pairIdx[p]
    BY <1>10 DEF FirstCheck, Goto, Return, Send, Base, TypeOK, redis, sockets, locals, history,
       bounds
  <2> QED
    BY <2>1, <2>2, BlockKept
<1>11. ASSUME NEW h \in Handlers, IndexActiveCall(h) PROVE BlockInv'
  <2>1. PairOf(call[h]) \in Pairs /\ call[h] \in Calls
    BY <1>11, CallKnown DEF IndexActiveCall, Accepting, Tearing
  <2> SUFFICES ASSUME NEW p \in blocked, pairIdx'[p] \notin stranded \cup {NoCall}
               PROVE  \/ \E a, b \in Users : <<a, b>> \in enforce /\ {a, b} = p
                      \/ \E k \in Handlers : Ends(k, p)'
    BY <1>11 DEF BlockInv, IndexActiveCall, sockets, bounds
  <2>2. CASE p = PairOf(call[h])
    BY <1>11, <2>1, <2>2 DEF IndexActiveCall, Goto, Ends, Base, TypeOK, locals
  <2>3. CASE p # PairOf(call[h])
    <3>1. pairIdx'[p] = pairIdx[p]
      BY <1>11, <2>1, <2>3 DEF IndexActiveCall, Base, TypeOK
    <3>2. ASSUME NEW g \in Handlers, Ends(g, p) PROVE Ends(g, p)'
      BY <1>11, <3>1, <3>2 DEF IndexActiveCall, Goto, Ends, Deletes, Base, TypeOK, locals
    <3> QED
      BY <3>1, <3>2 DEF BlockInv
  <2> QED
    BY <2>2, <2>3
<1>12. ASSUME NEW h \in Handlers, IndexFails(h) PROVE BlockInv'
  <2>1. ASSUME NEW p \in blocked, NEW g \in Handlers, pairIdx[p] # NoCall,
               pairIdx'[p] = pairIdx[p], Ends(g, p)
        PROVE  \E k \in Handlers : Ends(k, p)'
    BY <1>12, <2>1 DEF IndexFails, Goto, Ends, Deletes, Base, TypeOK, redis, sockets, locals
  <2>2. /\ stranded' = stranded /\ blocked' = blocked /\ enforce' = enforce
        /\ \A p \in blocked : pairIdx'[p] # NoCall => pairIdx'[p] = pairIdx[p]
    BY <1>12 DEF IndexFails, redis, sockets
  <2> QED
    BY <2>1, <2>2, BlockKept
<1>13. ASSUME NEW h \in Handlers, SecondCheck(h) PROVE BlockInv'
  <2>1. ASSUME NEW p \in blocked, NEW g \in Handlers, pairIdx[p] # NoCall,
               pairIdx'[p] = pairIdx[p], Ends(g, p)
        PROVE  \E k \in Handlers : Ends(k, p)'
    <3>1. p \in Pairs /\ PairOf(pairIdx[p]) = p
      BY <2>1 DEF Base, TypeOK, MintInv, IndexOf
    <3>2. CASE g # h
      BY <1>13, <2>1, <3>2 DEF SecondCheck, Goto, Ends, Deletes, Base, TypeOK, locals
    <3>3. CASE g = h
      <4>1. call[h] = pairIdx[p] /\ PairOf(call[h]) \in blocked
        BY <1>13, <2>1, <3>1, <3>3 DEF SecondCheck, Ends, Deletes
      <4>2. pc'[h] = "tdPending" /\ call' = call
        BY <1>13, <4>1 DEF SecondCheck, Blocked, Goto, Base, TypeOK
      <4> QED
        BY <2>1, <4>1, <4>2 DEF Ends
    <3> QED
      BY <3>2, <3>3
  <2>2. /\ stranded' = stranded /\ blocked' = blocked /\ enforce' = enforce
        /\ \A p \in blocked : pairIdx'[p] # NoCall => pairIdx'[p] = pairIdx[p]
    BY <1>13 DEF SecondCheck, Goto, Send, Blocked, Base, TypeOK, redis, sockets, locals, history,
       bounds
  <2> QED
    BY <2>1, <2>2, BlockKept
<1>14. ASSUME NEW h \in Handlers, SocketsJoin(h) PROVE BlockInv'
  <2>1. ASSUME NEW p \in blocked, NEW g \in Handlers, pairIdx[p] # NoCall,
               pairIdx'[p] = pairIdx[p], Ends(g, p)
        PROVE  \E k \in Handlers : Ends(k, p)'
    BY <1>14, <2>1 DEF SocketsJoin, Ends, Deletes, Base, TypeOK, redis, sockets, locals, history,
       bounds
  <2>2. /\ stranded' = stranded /\ blocked' = blocked /\ enforce' = enforce
        /\ \A p \in blocked : pairIdx'[p] # NoCall => pairIdx'[p] = pairIdx[p]
    BY <1>14 DEF SocketsJoin, Base, TypeOK, redis, sockets, locals, history, bounds
  <2> QED
    BY <2>1, <2>2, BlockKept
<1>15. ASSUME NEW h \in Handlers, Announce(h) PROVE BlockInv'
  <2>1. ASSUME NEW p \in blocked, NEW g \in Handlers, pairIdx[p] # NoCall,
               pairIdx'[p] = pairIdx[p], Ends(g, p)
        PROVE  \E k \in Handlers : Ends(k, p)'
    BY <1>15, <2>1 DEF Announce, Return, Send, Ends, Deletes, Base, TypeOK, redis, sockets, locals,
       history, bounds
  <2>2. /\ stranded' = stranded /\ blocked' = blocked /\ enforce' = enforce
        /\ \A p \in blocked : pairIdx'[p] # NoCall => pairIdx'[p] = pairIdx[p]
    BY <1>15 DEF Announce, Return, Send, Base, TypeOK, redis, sockets, locals, history, bounds
  <2> QED
    BY <2>1, <2>2, BlockKept
<1>16. ASSUME NEW h \in Handlers, GetPending(h) PROVE BlockInv'
  <2>1. ASSUME NEW p \in blocked, NEW g \in Handlers, pairIdx[p] # NoCall,
               pairIdx'[p] = pairIdx[p], Ends(g, p)
        PROVE  \E k \in Handlers : Ends(k, p)'
    BY <1>16, <2>1 DEF GetPending, Goto, Ends, Deletes, Base, TypeOK, redis, sockets, locals,
       history, bounds
  <2>2. /\ stranded' = stranded /\ blocked' = blocked /\ enforce' = enforce
        /\ \A p \in blocked : pairIdx'[p] # NoCall => pairIdx'[p] = pairIdx[p]
    BY <1>16 DEF GetPending, Goto, Base, TypeOK, redis, sockets, locals, history, bounds
  <2> QED
    BY <2>1, <2>2, BlockKept
<1>17. ASSUME NEW h \in Handlers, Cancel(h) PROVE BlockInv'
  <2>1. ASSUME NEW p \in blocked, NEW g \in Handlers, pairIdx[p] # NoCall,
               pairIdx'[p] = pairIdx[p], Ends(g, p)
        PROVE  \E k \in Handlers : Ends(k, p)'
    BY <1>17, <2>1 DEF Cancel, Return, Send, Answered, Ends, Deletes, Base, TypeOK, redis, sockets,
       locals, history, bounds
  <2>2. /\ stranded' = stranded /\ blocked' = blocked /\ enforce' = enforce
        /\ \A p \in blocked : pairIdx'[p] # NoCall => pairIdx'[p] = pairIdx[p]
    BY <1>17 DEF Cancel, Return, Send, Answered, Base, TypeOK, redis, sockets, locals, history,
       bounds
  <2> QED
    BY <2>1, <2>2, BlockKept
<1>18. ASSUME NEW h \in Handlers, InCallRoom(h) PROVE BlockInv'
  <2>1. ASSUME NEW p \in blocked, NEW g \in Handlers, pairIdx[p] # NoCall,
               pairIdx'[p] = pairIdx[p], Ends(g, p)
        PROVE  \E k \in Handlers : Ends(k, p)'
    BY <1>18, <2>1 DEF InCallRoom, Goto, Return, Send, Ends, Deletes, Base, TypeOK, redis, sockets,
       locals, history, bounds
  <2>2. /\ stranded' = stranded /\ blocked' = blocked /\ enforce' = enforce
        /\ \A p \in blocked : pairIdx'[p] # NoCall => pairIdx'[p] = pairIdx[p]
    BY <1>18 DEF InCallRoom, Goto, Return, Send, Base, TypeOK, redis, sockets, locals, history,
       bounds
  <2> QED
    BY <2>1, <2>2, BlockKept
<1>19. ASSUME NEW h \in Handlers, LookupPair(h) PROVE BlockInv'
  <2>1. ASSUME NEW p \in blocked, NEW g \in Handlers, pairIdx[p] # NoCall,
               pairIdx'[p] = pairIdx[p], Ends(g, p)
        PROVE  \E k \in Handlers : Ends(k, p)'
    <3>1. CASE g # h
      BY <1>19, <2>1, <3>1 DEF LookupPair, Goto, Return, Ends, Deletes, Base, TypeOK, locals
    <3>2. CASE g = h
      <4>1. {who[h], mate[h]} = p
        BY <1>19, <2>1, <3>2 DEF LookupPair, Ends, Deletes
      <4>2. pc'[h] = "tdPending" /\ call'[h] = pairIdx[p]
        BY <1>19, <2>1, <4>1 DEF LookupPair, Goto, Base, TypeOK
      <4> QED
        BY <2>1, <4>2 DEF Ends
    <3> QED
      BY <3>1, <3>2
  <2>2. /\ stranded' = stranded /\ blocked' = blocked /\ enforce' = enforce
        /\ \A p \in blocked : pairIdx'[p] # NoCall => pairIdx'[p] = pairIdx[p]
    BY <1>19 DEF LookupPair, Goto, Return, Send, Base, TypeOK, redis, sockets, locals, history,
       bounds
  <2> QED
    BY <2>1, <2>2, BlockKept
<1>20. ASSUME NEW h \in Handlers, TdClearPending(h) PROVE BlockInv'
  <2>1. ASSUME NEW p \in blocked, NEW g \in Handlers, pairIdx[p] # NoCall,
               pairIdx'[p] = pairIdx[p], Ends(g, p)
        PROVE  \E k \in Handlers : Ends(k, p)'
    BY <1>20, <2>1 DEF TdClearPending, Goto, Ends, Deletes, Base, TypeOK, redis, sockets, locals,
       history, bounds
  <2>2. /\ stranded' = stranded /\ blocked' = blocked /\ enforce' = enforce
        /\ \A p \in blocked : pairIdx'[p] # NoCall => pairIdx'[p] = pairIdx[p]
    BY <1>20 DEF TdClearPending, Goto, Base, TypeOK, redis, sockets, locals, history, bounds
  <2> QED
    BY <2>1, <2>2, BlockKept
<1>21. ASSUME NEW h \in Handlers, TdReadId(h) PROVE BlockInv'
  <2>1. ASSUME NEW p \in blocked, NEW g \in Handlers, pairIdx[p] \notin stranded \cup {NoCall},
               pairIdx'[p] = pairIdx[p], Ends(g, p)
        PROVE  \E k \in Handlers : Ends(k, p)'
    <3>1. CASE g # h
      BY <1>21, <2>1, <3>1 DEF TdReadId, Goto, Ends, Deletes, Base, TypeOK, locals
    <3>2. CASE g = h
      <4>1. call[h] = pairIdx[p] /\ call' = call
        BY <1>21, <2>1, <3>2 DEF TdReadId, Ends, Deletes
      <4>2. pc'[h] = "tdDelId" /\ found'[h] = (call[h] \in idIdx)
        BY <1>21 DEF TdReadId, Goto, Base, TypeOK
      <4>3. CASE call[h] \in idIdx
        BY <2>1, <4>1, <4>2, <4>3 DEF Ends, Deletes
      <4>4. CASE call[h] \notin idIdx
        <5>1. \E k \in Handlers : Deletes(k, pairIdx[p])
          BY <2>1, <4>1, <4>4 DEF IndexInv, Base, TypeOK
        <5>2. ASSUME NEW k \in Handlers, Deletes(k, pairIdx[p]) PROVE Ends(k, p)'
          BY <1>21, <2>1, <5>2 DEF TdReadId, Goto, Ends, Deletes, Base, TypeOK
        <5> QED
          BY <2>1, <5>1, <5>2
      <4> QED
        BY <4>3, <4>4
    <3> QED
      BY <3>1, <3>2
  <2>2. /\ stranded' = stranded /\ blocked' = blocked /\ enforce' = enforce
        /\ \A p \in blocked : pairIdx'[p] # NoCall => pairIdx'[p] = pairIdx[p]
    BY <1>21 DEF TdReadId, Goto, Base, TypeOK, redis, sockets, locals, history, bounds
  <2> QED
    BY <2>1, <2>2, BlockKept
<1>22. ASSUME NEW h \in Handlers, TdDeleteId(h) PROVE BlockInv'
  <2>1. ASSUME NEW p \in blocked, NEW g \in Handlers, pairIdx[p] # NoCall,
               pairIdx'[p] = pairIdx[p], Ends(g, p)
        PROVE  \E k \in Handlers : Ends(k, p)'
    BY <1>22, <2>1 DEF TdDeleteId, Goto, Ends, Deletes, Base, TypeOK, redis, sockets, locals,
       history, bounds
  <2>2. /\ stranded' = stranded /\ blocked' = blocked /\ enforce' = enforce
        /\ \A p \in blocked : pairIdx'[p] # NoCall => pairIdx'[p] = pairIdx[p]
    BY <1>22 DEF TdDeleteId, Goto, Base, TypeOK, redis, sockets, locals, history, bounds
  <2> QED
    BY <2>1, <2>2, BlockKept
<1>23. ASSUME NEW h \in Handlers, TdDeletePair(h) PROVE BlockInv'
  <2>1. ASSUME NEW p \in blocked, NEW g \in Handlers, pairIdx[p] # NoCall,
               pairIdx'[p] = pairIdx[p], Ends(g, p)
        PROVE  \E k \in Handlers : Ends(k, p)'
    <3>1. p \in Pairs /\ PairOf(pairIdx[p]) = p
      BY <2>1 DEF Base, TypeOK, MintInv, IndexOf
    <3>2. call[h] # pairIdx[p]
      BY <1>23, <2>1, <3>1 DEF TdDeletePair, Base, TypeOK
    <3>3. g # h
      BY <1>23, <2>1, <3>2 DEF TdDeletePair, Ends, Deletes
    <3> QED
      BY <1>23, <2>1, <3>3 DEF TdDeletePair, Goto, Ends, Deletes, Base, TypeOK, locals
  <2>2. /\ stranded' = stranded /\ blocked' = blocked /\ enforce' = enforce
        /\ \A p \in blocked : pairIdx'[p] # NoCall => pairIdx'[p] = pairIdx[p]
    BY <1>23 DEF TdDeletePair, Goto, Base, TypeOK, redis, sockets, locals, history, bounds
  <2> QED
    BY <2>1, <2>2, BlockKept
<1>24. ASSUME NEW h \in Handlers, TdIndexFails(h) PROVE BlockInv'
  <2> SUFFICES ASSUME NEW p \in blocked, pairIdx[p] \notin stranded' \cup {NoCall}
               PROVE  \/ \E u, v \in Users : <<u, v>> \in enforce /\ {u, v} = p
                      \/ \E k \in Handlers : Ends(k, p)'
    BY <1>24 DEF TdIndexFails, BlockInv, redis, sockets
  <2>1. pairIdx[p] \notin stranded \cup {NoCall} /\ pairIdx[p] # call[h] /\ pairIdx' = pairIdx
    BY <1>24 DEF TdIndexFails, redis
  <2>2. ASSUME NEW g \in Handlers, Ends(g, p) PROVE Ends(g, p)'
    <3>1. g # h
      BY <1>24, <2>1, <2>2 DEF TdIndexFails, Ends, Deletes
    <3> QED
      BY <1>24, <2>1, <2>2, <3>1 DEF TdIndexFails, Goto, Ends, Deletes, Base, TypeOK, locals
  <2> QED
    BY <2>1, <2>2 DEF BlockInv
<1>25. ASSUME NEW h \in Handlers, TdSocketsLeave(h) PROVE BlockInv'
  <2>1. ASSUME NEW p \in blocked, NEW g \in Handlers, pairIdx[p] # NoCall,
               pairIdx'[p] = pairIdx[p], Ends(g, p)
        PROVE  \E k \in Handlers : Ends(k, p)'
    BY <1>25, <2>1 DEF TdSocketsLeave, Return, Ends, Deletes, Base, TypeOK, redis, sockets, locals,
       history, bounds
  <2>2. /\ stranded' = stranded /\ blocked' = blocked /\ enforce' = enforce
        /\ \A p \in blocked : pairIdx'[p] # NoCall => pairIdx'[p] = pairIdx[p]
    BY <1>25 DEF TdSocketsLeave, Return, Base, TypeOK, redis, sockets, locals, history, bounds
  <2> QED
    BY <2>1, <2>2, BlockKept
<1>26. ASSUME NEW h \in Handlers, Crash(h) PROVE BlockInv'
  <2> SUFFICES ASSUME NEW p \in blocked, pairIdx[p] \notin stranded' \cup {NoCall}
               PROVE  \/ \E u, v \in Users : <<u, v>> \in enforce /\ {u, v} = p
                      \/ \E k \in Handlers : Ends(k, p)'
    BY <1>26, CrashStrands DEF BlockInv
  <2>1. pairIdx[p] \notin stranded \cup {NoCall} /\ pairIdx' = pairIdx
    BY <1>26, CrashStrands
  <2>2. ASSUME NEW g \in Handlers, Ends(g, p) PROVE Ends(g, p)'
    <3>1. g # h
      <4>1. ASSUME pc[h] = "lookup", {who[h], mate[h]} = p PROVE FALSE
        BY <1>26, <4>1, CrashStrands
      <4>2. ASSUME pc[h] # "lookup", call[h] = pairIdx[p] PROVE FALSE
        BY <1>26, <4>2, CrashStrands
      <4> QED
        BY <2>2, <4>1, <4>2 DEF Ends, Deletes
    <3> QED
      BY <1>26, <2>1, <2>2, <3>1, CrashStrands DEF Ends, Deletes
  <2> QED
    BY <2>1, <2>2 DEF BlockInv
<1>27. ASSUME NEW u \in Users, NEW v \in Users, Block(u, v) PROVE BlockInv'
  <2> SUFFICES ASSUME NEW p \in blocked', pairIdx[p] \notin stranded \cup {NoCall}
               PROVE  \/ \E a, b \in Users : <<a, b>> \in enforce' /\ {a, b} = p
                      \/ \E k \in Handlers : Ends(k, p)'
    BY <1>27 DEF BlockInv, Block, redis, bounds
  <2>1. CASE p = {u, v}
    BY <1>27, <2>1 DEF Block
  <2>2. CASE p # {u, v}
    <3>1. p \in blocked
      BY <1>27, <2>2 DEF Block
    <3>2. ASSUME NEW g \in Handlers, Ends(g, p) PROVE Ends(g, p)'
      BY <1>27, <3>2 DEF Block, Ends, Deletes, redis, locals
    <3>3. enforce \subseteq enforce'
      BY <1>27 DEF Block
    <3> QED
      BY <3>1, <3>2, <3>3 DEF BlockInv
  <2> QED
    BY <2>1, <2>2
<1>28. ASSUME NEW c \in Calls, RingExpires(c) PROVE BlockInv'
  <2>1. ASSUME NEW p \in blocked, NEW g \in Handlers, pairIdx[p] # NoCall,
               pairIdx'[p] = pairIdx[p], Ends(g, p)
        PROVE  \E k \in Handlers : Ends(k, p)'
    BY <1>28, <2>1 DEF RingExpires, Ends, Deletes, Base, TypeOK, redis, sockets, locals, history,
       bounds
  <2>2. /\ stranded' = stranded /\ blocked' = blocked /\ enforce' = enforce
        /\ \A p \in blocked : pairIdx'[p] # NoCall => pairIdx'[p] = pairIdx[p]
    BY <1>28 DEF RingExpires, Base, TypeOK, redis, sockets, locals, history, bounds
  <2> QED
    BY <2>1, <2>2, BlockKept
<1>29. ASSUME NEW c \in Calls, IndexExpires(c) PROVE BlockInv'
  <2>1. ASSUME NEW p \in blocked, NEW g \in Handlers, pairIdx[p] # NoCall,
               pairIdx'[p] = pairIdx[p], Ends(g, p)
        PROVE  \E k \in Handlers : Ends(k, p)'
    BY <1>29, <2>1 DEF IndexExpires, Ends, Deletes, Base, TypeOK, redis, sockets, locals, history,
       bounds
  <2>2. /\ stranded' = stranded /\ blocked' = blocked /\ enforce' = enforce
        /\ \A p \in blocked : pairIdx'[p] # NoCall => pairIdx'[p] = pairIdx[p]
    BY <1>29 DEF IndexExpires, Base, TypeOK, redis, sockets, locals, history, bounds
  <2> QED
    BY <2>1, <2>2, BlockKept
<1>30. ASSUME NEW u \in Users, Reconnect(u) PROVE BlockInv'
  <2>1. ASSUME NEW p \in blocked, NEW g \in Handlers, pairIdx[p] # NoCall,
               pairIdx'[p] = pairIdx[p], Ends(g, p)
        PROVE  \E k \in Handlers : Ends(k, p)'
    BY <1>30, <2>1 DEF Reconnect, Ends, Deletes, Base, TypeOK, redis, sockets, locals, history,
       bounds
  <2>2. /\ stranded' = stranded /\ blocked' = blocked /\ enforce' = enforce
        /\ \A p \in blocked : pairIdx'[p] # NoCall => pairIdx'[p] = pairIdx[p]
    BY <1>30 DEF Reconnect, Base, TypeOK, redis, sockets, locals, history, bounds
  <2> QED
    BY <2>1, <2>2, BlockKept
<1>31. CASE UNCHANGED vars
  <2>1. ASSUME NEW p \in blocked, NEW g \in Handlers, pairIdx[p] # NoCall,
               pairIdx'[p] = pairIdx[p], Ends(g, p)
        PROVE  \E k \in Handlers : Ends(k, p)'
    BY <1>31, <2>1 DEF vars, Ends, Deletes, Base, TypeOK, redis, sockets, locals, history, bounds
  <2>2. /\ stranded' = stranded /\ blocked' = blocked /\ enforce' = enforce
        /\ \A p \in blocked : pairIdx'[p] # NoCall => pairIdx'[p] = pairIdx[p]
    BY <1>31 DEF vars, Base, TypeOK, redis, sockets, locals, history, bounds
  <2> QED
    BY <2>1, <2>2, BlockKept
<1> QED
  BY <1>1, <1>2, <1>3, <1>4, <1>5, <1>6, <1>7, <1>8, <1>9, <1>10, <1>11, <1>12, <1>13, <1>14,
     <1>15, <1>16, <1>17, <1>18, <1>19, <1>20, <1>21, <1>22, <1>23, <1>24, <1>25, <1>26, <1>27,
     <1>28, <1>29, <1>30, <1>31 DEF Next, StartAny, Step, Environment

-----------------------------------------------------------------------------
(* The invariant holds *)

LEMMA InitInv ==
    Init => IInv
<1> SUFFICES ASSUME Init PROVE IInv
  OBVIOUS
<1>1. TypeOK
  <2>1. <<>> \in Answers
    BY DEF Answers
  <2> QED
    BY <2>1, BoundsAssumption DEF Init, TypeOK, Await, Kind
<1>2. LocalInv
  BY DEF Init, LocalInv, Accepting, Tearing
<1>3. MintInv
  BY NullsAssumption DEF Init, MintInv, Unknown, IndexOf, Minted
<1>4. RingInv /\ AcceptInv /\ EarlyInv /\ OneAccepts
  BY DEF Init, RingInv, AcceptInv, Taken, EarlyInv, OneAccepts, Accepting
<1>5. BareInv
  BY NullsAssumption DEF Init, BareInv, Taken, Unindexed
<1>6. AnsweredOnce /\ NewestCallIndexed
  BY DEF Init, AnsweredOnce, NewestCallIndexed
<1>7. FoundInv /\ IndexInv /\ BlockInv
  BY DEF Init, FoundInv, IndexInv, BlockInv
<1> QED
  BY <1>1, <1>2, <1>3, <1>4, <1>5, <1>6, <1>7 DEF IInv, Base, AnswerInv

LEMMA Inductive ==
    IInv /\ [Next]_vars => IInv'
<1> SUFFICES ASSUME IInv, Next \/ UNCHANGED vars PROVE IInv'
  OBVIOUS
<1>1. Base'
  BY TypeStep, LocalStep, MintStep DEF IInv, Base
<1>2. AnswerInv'
  BY RingStep, BareStep, AcceptStep, EarlyStep, OneAcceptsStep DEF IInv, AnswerInv
<1>3. AnsweredOnce' /\ NewestCallIndexed'
  BY OnceStep, NewestStep DEF IInv, AnswerInv
<1>4. FoundInv' /\ IndexInv' /\ BlockInv'
  BY FoundStep, IndexStep, BlockStep DEF IInv
<1> QED
  BY <1>1, <1>2, <1>3, <1>4 DEF IInv

LEMMA Invariance ==
    Spec => []IInv
  BY InitInv, Inductive, PTL DEF Spec

\* A quiet system has nothing left to take a blocked pair out of the index.
LEMMA QuietIndex ==
    ASSUME IInv PROVE BlockedPairNotIndexed
<1> SUFFICES ASSUME Quiet, NEW p \in blocked PROVE pairIdx[p] \in stranded \cup {NoCall}
  BY DEF BlockedPairNotIndexed
<1>1. \A h \in Handlers : ~Ends(h, p)
  BY DEF Quiet, Ends, Deletes
<1> QED
  BY <1>1 DEF IInv, BlockInv, Quiet

-----------------------------------------------------------------------------
(* What FriendCall sees of a step *)

\* An invite is between two, and an accept lets the two parties of its call into
\* the room and nobody else.
Claims ==
    \A h \in Handlers :
        /\ pc[h] \in {"gate", "mint"} => who[h] # mate[h]
        /\ pc[h] = "join" => todo[h] \subseteq PairOf(call[h])

\* Every step keeps that.
LEMMA ClaimsStep ==
    ASSUME Base, Claims, Next \/ UNCHANGED vars
    PROVE  Claims'
<1> USE DEF redis, sockets, locals, history, bounds
<1>1. ASSUME NEW h \in Handlers, NEW u \in Users, NEW v \in Users, StartInvite(h, u, v) PROVE Claims'
  BY <1>1 DEF StartInvite, Start, Claims, Accepting, PairOf, Base, TypeOK
<1>2. ASSUME NEW h \in Handlers, NEW u \in Users, NEW v \in Users, StartEnforce(h, u, v) PROVE Claims'
  BY <1>2 DEF StartEnforce, Start, Claims, Accepting, PairOf, Base, TypeOK
<1>3. ASSUME NEW h \in Handlers, NEW u \in Users, NEW c \in Calls, NEW k \in {"accept", "decline"}, StartResponse(h, u, c, k) PROVE Claims'
  BY <1>3 DEF StartResponse, Start, Claims, Accepting, PairOf, Base, TypeOK
<1>4. ASSUME NEW h \in Handlers, NEW u \in Users, NEW c \in Calls, StartEnd(h, u, c) PROVE Claims'
  BY <1>4 DEF StartEnd, Start, Claims, Accepting, PairOf, Base, TypeOK
<1>5. ASSUME NEW h \in Handlers, NEW u \in Users, NEW c \in Calls, StartHangup(h, u, c) PROVE Claims'
  BY <1>5 DEF StartHangup, Start, Claims, Accepting, PairOf, Base, TypeOK
<1>6. ASSUME NEW h \in Handlers, InviteGate(h) PROVE Claims'
  BY <1>6 DEF InviteGate, Goto, Return, Claims, Accepting, PairOf, Base, TypeOK
<1>7. ASSUME NEW h \in Handlers, CreatePending(h) PROVE Claims'
  BY <1>7, NullsAssumption DEF CreatePending, Return, Claims, Accepting, Minted, Parties, PairOf, Base, TypeOK, LocalInv
<1>8. ASSUME NEW h \in Handlers, ConsumePending(h) PROVE Claims'
  <2>1. call[h] \in Calls
    BY <1>8, CallKnown DEF ConsumePending
  <2>2. /\ UNCHANGED party
        /\ \A g \in Handlers \ {h} : /\ pc'[g] = pc[g] /\ who'[g] = who[g] /\ mate'[g] = mate[g]
                                     /\ call'[g] = call[g] /\ todo'[g] = todo[g]
    BY <1>8, <2>1 DEF ConsumePending, Goto, Return, Answered, Base, TypeOK
  <2>3. \/ pc'[h] = "idle"
        \/ pc'[h] = "check1"
    BY <1>8, <2>1 DEF ConsumePending, Goto, Return, Base, TypeOK
  <2> QED
    BY <2>2, <2>3 DEF Claims, Accepting, PairOf
<1>9. ASSUME NEW h \in Handlers, FirstCheck(h) PROVE Claims'
  BY <1>9 DEF FirstCheck, Goto, Return, Claims, Accepting, PairOf, Base, TypeOK
<1>10. ASSUME NEW h \in Handlers, IndexActiveCall(h) PROVE Claims'
  BY <1>10 DEF IndexActiveCall, Goto, Claims, Accepting, PairOf, Base, TypeOK
<1>11. ASSUME NEW h \in Handlers, IndexFails(h) PROVE Claims'
  BY <1>11 DEF IndexFails, Goto, Claims, Accepting, PairOf, Base, TypeOK
<1>12. ASSUME NEW h \in Handlers, SecondCheck(h) PROVE Claims'
  BY <1>12 DEF SecondCheck, Goto, Claims, Accepting, PairOf, Base, TypeOK
<1>13. ASSUME NEW h \in Handlers, SocketsJoin(h) PROVE Claims'
  BY <1>13 DEF SocketsJoin, Claims, Accepting, PairOf, Base, TypeOK
<1>14. ASSUME NEW h \in Handlers, Announce(h) PROVE Claims'
  BY <1>14 DEF Announce, Return, Claims, Accepting, PairOf, Base, TypeOK
<1>15. ASSUME NEW h \in Handlers, GetPending(h) PROVE Claims'
  BY <1>15 DEF GetPending, Goto, Claims, Accepting, PairOf, Base, TypeOK
<1>16. ASSUME NEW h \in Handlers, Cancel(h) PROVE Claims'
  BY <1>16, CallKnown DEF Cancel, Return, Answered, Claims, Accepting, PairOf, Base, TypeOK, LocalInv
<1>17. ASSUME NEW h \in Handlers, InCallRoom(h) PROVE Claims'
  BY <1>17 DEF InCallRoom, Goto, Return, Claims, Accepting, PairOf, Base, TypeOK
<1>18. ASSUME NEW h \in Handlers, LookupPair(h) PROVE Claims'
  BY <1>18 DEF LookupPair, Goto, Return, Claims, Accepting, PairOf, Base, TypeOK
<1>19. ASSUME NEW h \in Handlers, TdClearPending(h) PROVE Claims'
  BY <1>19 DEF TdClearPending, Goto, Claims, Accepting, PairOf, Base, TypeOK
<1>20. ASSUME NEW h \in Handlers, TdReadId(h) PROVE Claims'
  BY <1>20 DEF TdReadId, Goto, Claims, Accepting, PairOf, Base, TypeOK
<1>21. ASSUME NEW h \in Handlers, TdDeleteId(h) PROVE Claims'
  BY <1>21 DEF TdDeleteId, Goto, Claims, Accepting, PairOf, Base, TypeOK
<1>22. ASSUME NEW h \in Handlers, TdDeletePair(h) PROVE Claims'
  BY <1>22 DEF TdDeletePair, Goto, Claims, Accepting, PairOf, Base, TypeOK
<1>23. ASSUME NEW h \in Handlers, TdIndexFails(h) PROVE Claims'
  BY <1>23 DEF TdIndexFails, Goto, Claims, Accepting, PairOf, Base, TypeOK
<1>24. ASSUME NEW h \in Handlers, TdSocketsLeave(h) PROVE Claims'
  BY <1>24 DEF TdSocketsLeave, Return, Claims, Accepting, PairOf, Base, TypeOK
<1>25. ASSUME NEW h \in Handlers, Crash(h) PROVE Claims'
  BY <1>25 DEF Crash, Return, Claims, Accepting, PairOf, Base, TypeOK
<1>26. ASSUME NEW u \in Users, NEW v \in Users, Block(u, v) PROVE Claims'
  BY <1>26 DEF Block, Claims, PairOf
<1>27. ASSUME NEW c \in Calls, RingExpires(c) PROVE Claims'
  BY <1>27 DEF RingExpires, Claims, PairOf
<1>28. ASSUME NEW c \in Calls, IndexExpires(c) PROVE Claims'
  BY <1>28 DEF IndexExpires, Claims, PairOf
<1>29. ASSUME NEW u \in Users, Reconnect(u) PROVE Claims'
  BY <1>29 DEF Reconnect, Claims, PairOf
<1>30. CASE UNCHANGED vars
  BY <1>30 DEF vars, Claims, PairOf
<1> QED
  BY <1>1, <1>2, <1>3, <1>4, <1>5, <1>6, <1>7, <1>8, <1>9, <1>10, <1>11, <1>12,
     <1>13, <1>14, <1>15, <1>16, <1>17, <1>18, <1>19, <1>20, <1>21, <1>22, <1>23, <1>24, <1>25,
     <1>26, <1>27, <1>28, <1>29, <1>30
     DEF Next, StartAny, Step, Environment

\* Only the handler h moves, as far as the calls in hand go.
Alone(h) == \A g \in Handlers \ {h} : pc'[g] = pc[g] /\ call'[g] = call[g]

Seen == [Friends!Next]_Friends!friendCall

\* The calls that accepts have in hand stay the same when the handler that moves
\* is in no accept, before or after.
LEMMA HandsStay ==
    ASSUME NEW h \in Handlers, Alone(h), pc[h] \notin Accepting, pc'[h] \notin Accepting
    PROVE  Accepted' = Accepted /\ Opening' = Opening
BY DEF Alone, Accepted, Opening, Accepting

\* Then a call's stage stays, if its record and its answer do.
LEMMA StageStays ==
    ASSUME NEW c \in Calls, UNCHANGED <<party[c], answer[c]>>,
           c \in pending' <=> c \in pending,
           c \in Accepted' <=> c \in Accepted, c \in Opening' <=> c \in Opening
    PROVE  StageOf(c)' = StageOf(c)
BY DEF StageOf, Minted

\* A step that FriendCall does not see.
LEMMA SilentStep ==
    ASSUME NEW h \in Handlers, Alone(h), pc[h] \notin Accepting, pc'[h] \notin Accepting,
           UNCHANGED <<party, answer, pending, members, pairIdx, torn, lapsed>>
    PROVE  Seen
BY HandsStay, StageStays DEF Seen, Friends!friendCall, Stages

\* The stages stay in a step of the environment that answers no call.
LEMMA StagesFrame ==
    ASSUME UNCHANGED <<pc, call, party, answer, pending>>
    PROVE  Stages' = Stages
BY DEF Stages, StageOf, Minted, Accepted, Opening

\* One call goes from one stage to another.
LEMMA CallMoves ==
    ASSUME NEW c \in Calls, NEW from, NEW to, StageOf(c) \in from, StageOf(c)' \in to,
           \A q \in Calls \ {c} : StageOf(q)' = StageOf(q)
    PROVE  Friends!Moves(c, from, to)
<1>1. Stages' = [Stages EXCEPT ![c] = StageOf(c)']
  BY DEF Stages
<1> QED BY <1>1 DEF Stages, Friends!Moves

\* Within an accept the call it holds is in no other accept's hands.
LEMMA OwnCall ==
    ASSUME IInv, NEW h \in Handlers, pc[h] \in Accepting
    PROVE  /\ call[h] \in Calls /\ Minted(call[h]) /\ call[h] \notin pending
           /\ Taken(call[h])
           /\ \A g \in Handlers \ {h} : pc[g] \in Accepting => call[g] # call[h]
BY NullsAssumption, CallKnown DEF IInv, AnswerInv, AcceptInv, OneAccepts, Minted, Parties

\* A call that is indexed, joined or torn down has been opened by its accept.
LEMMA OpenedCall ==
    ASSUME IInv, NEW c \in Calls, ~Unindexed(c)
    PROVE  StageOf(c) \in {"opening", "settled"}
<1>1. Taken(c) /\ c \notin pending /\ c \notin Accepted
  BY DEF IInv, AnswerInv, RingInv, BareInv, EarlyInv, Accepted, Taken
<1>2. Minted(c)
  BY <1>1, NullsAssumption DEF IInv, Base, MintInv, Unknown, Parties, Minted, Taken
<1> QED BY <1>1, <1>2 DEF StageOf, Taken

\* An accept that stops, in whatever way, leaves its call settled.
LEMMA AcceptStops ==
    ASSUME IInv, NEW h \in Handlers, pc[h] \in Accepting, pc'[h] \notin Accepting,
           Alone(h), UNCHANGED <<party, answer, pending>>, NEW c, c = call[h]
    PROVE  /\ c \in Calls
           /\ StageOf(c) = IF pc[h] \in {"check1", "index"} THEN "accepted" ELSE "opening"
           /\ StageOf(c)' = "settled"
           /\ \A q \in Calls \ {c} : StageOf(q)' = StageOf(q)
<1>1. /\ c \in Calls /\ Minted(c) /\ c \notin pending /\ Taken(c)
      /\ \A g \in Handlers \ {h} : pc[g] \in Accepting => call[g] # c
  BY OwnCall
<1>2. c \notin Accepted' /\ c \notin Opening'
  BY <1>1 DEF Alone, Accepted, Opening, Accepting
<1>3. \A q \in Calls \ {c} : /\ q \in Accepted' <=> q \in Accepted
                             /\ q \in Opening' <=> q \in Opening
  BY DEF Alone, Accepted, Opening, Accepting
<1>4. /\ pc[h] \in {"check1", "index"} => c \in Accepted
      /\ pc[h] \notin {"check1", "index"} => c \notin Accepted /\ c \in Opening
  BY <1>1 DEF Accepted, Opening, Accepting
<1>5. StageOf(c) = IF pc[h] \in {"check1", "index"} THEN "accepted" ELSE "opening"
  BY <1>1, <1>4 DEF StageOf, Taken
<1>6. StageOf(c)' = "settled"
  BY <1>1, <1>2 DEF StageOf, Minted, Taken
<1>7. \A q \in Calls \ {c} : StageOf(q)' = StageOf(q)
  BY <1>3, StageStays
<1> QED BY <1>1, <1>5, <1>6, <1>7

\* So an accept that stops, and ends nothing, settles it.
LEMMA SettleSeen ==
    ASSUME IInv, NEW h \in Handlers, pc[h] \in Accepting, pc'[h] \notin Accepting,
           Alone(h), UNCHANGED <<party, answer, pending, members, pairIdx, torn, lapsed>>
    PROVE  Seen
<1> PICK c \in Calls : c = call[h]
  BY OwnCall
<1>1. /\ StageOf(c) \in {"accepted", "opening"} /\ StageOf(c)' = "settled"
      /\ \A q \in Calls \ {c} : StageOf(q)' = StageOf(q)
  BY AcceptStops
<1>2. Friends!Moves(c, {"accepted", "opening"}, {"settled"})
  BY <1>1, CallMoves
<1>3. Friends!Settle(c)
  BY <1>2 DEF Friends!Settle
<1> QED BY <1>3 DEF Seen, Friends!Next

\* The second check that finds a block finishes the call that the accept has opened.
LEMMA SecondCheckSeen ==
    ASSUME IInv, NEW h \in Handlers, SecondCheck(h), Blocked(h)
    PROVE  Seen
<1> PICK c \in Calls : c = call[h]
  BY OwnCall DEF SecondCheck, Accepting
<1>1. /\ pc[h] = "check2" /\ torn' = torn \cup {c}
      /\ UNCHANGED <<party, answer, pending, members, pairIdx, lapsed>>
  BY DEF SecondCheck, redis
<1>2. Alone(h) /\ pc'[h] = "tdPending"
  BY DEF SecondCheck, Goto, Alone, IInv, Base, TypeOK
<1>3. /\ StageOf(c) = "opening" /\ StageOf(c)' = "settled"
      /\ \A q \in Calls \ {c} : StageOf(q)' = StageOf(q)
  BY <1>1, <1>2, AcceptStops DEF Accepting
<1>4. Friends!Moves(c, {"opening"}, {"settled"})
  BY <1>3, CallMoves
<1>5. Friends!Finish(c)
  BY <1>1, <1>4 DEF Friends!Finish
<1> QED BY <1>5 DEF Seen, Friends!Next

\* Whoever finds a call in its room or in the index, and begins to tear it down,
\* finishes a call that has been opened.
LEMMA FinishSeen ==
    ASSUME IInv, NEW h \in Handlers, Alone(h), pc[h] \notin Accepting, pc'[h] \notin Accepting,
           NEW c \in Calls, ~Unindexed(c), torn' = torn \cup {c},
           UNCHANGED <<party, answer, pending, members, pairIdx, lapsed>>
    PROVE  Seen
<1>1. UNCHANGED Stages
  BY HandsStay, StageStays DEF Stages
<1>2. Stages[c] \in {"opening", "settled"}
  BY OpenedCall DEF Stages
<1>3. Friends!Finish(c)
  BY <1>1, <1>2 DEF Friends!Finish
<1> QED BY <1>3 DEF Seen, Friends!Next

\* An accept that goes on within the same half keeps the stage of its call.
LEMMA HoldSeen ==
    ASSUME NEW h \in Handlers, Alone(h), call'[h] = call[h],
           \/ pc[h] \in {"check1", "index"} /\ pc'[h] \in {"check1", "index"}
           \/ pc[h] \in {"check2", "join"} /\ pc'[h] \in {"check2", "join"},
           UNCHANGED <<party, answer, pending>>
    PROVE  Stages' = Stages
<1>1. Accepted' = Accepted /\ Opening' = Opening
  BY DEF Alone, Accepted, Opening
<1> QED BY <1>1, StageStays DEF Stages

\* The index write, or its failure, opens the call.
LEMMA OpenSeen ==
    ASSUME IInv, NEW h \in Handlers, Alone(h), call'[h] = call[h],
           pc[h] = "index", pc'[h] = "check2", UNCHANGED <<party, answer, pending, members, torn, lapsed>>,
           pairIdx' \in {[pairIdx EXCEPT ![PairOf(call[h])] = call[h]], pairIdx}
    PROVE  Seen
<1> PICK c \in Calls : c = call[h]
  BY OwnCall DEF Accepting
<1>1. /\ Minted(c) /\ c \notin pending /\ Taken(c)
      /\ \A g \in Handlers \ {h} : pc[g] \in Accepting => call[g] # c
  BY OwnCall DEF Accepting
<1>2. c \in Accepted /\ c \notin Accepted' /\ c \in Opening'
  BY <1>1 DEF Alone, Accepted, Opening, Accepting
<1>3. \A q \in Calls \ {c} : /\ q \in Accepted' <=> q \in Accepted
                             /\ q \in Opening' <=> q \in Opening
  BY DEF Alone, Accepted, Opening
<1>4. StageOf(c) = "accepted" /\ StageOf(c)' = "opening"
  BY <1>1, <1>2 DEF StageOf, Minted, Taken
<1>5. \A q \in Calls \ {c} : StageOf(q)' = StageOf(q)
  BY <1>3, StageStays
<1>6. pairIdx' \in {[pairIdx EXCEPT ![Friends!Couple(c)] = c], pairIdx}
  BY DEF PairOf, Friends!Couple
<1>7. Friends!Moves(c, {"accepted"}, {"opening"})
  BY <1>4, <1>5, CallMoves
<1>8. Friends!Open(c)
  BY <1>6, <1>7 DEF Friends!Open
<1> QED BY <1>8 DEF Seen, Friends!Next

\* A ring that ends, with an answer or without.
LEMMA ResolveSeen ==
    ASSUME IInv, NEW c \in pending, pending' = pending \ {c},
           UNCHANGED <<party, members, pairIdx, torn, lapsed>>,
           \A q \in Calls \ {c} : answer'[q] = answer[q],
           \A q \in Calls \ {c} : /\ q \in Accepted' <=> q \in Accepted
                                  /\ q \in Opening' <=> q \in Opening,
           answer'[c] # <<>> /\ Head(answer'[c]) = "accept" => c \in Accepted'
    PROVE  Seen
<1>1. c \in Calls /\ Minted(c)
  BY NullsAssumption DEF IInv, Base, TypeOK, MintInv, Unknown, Minted, Parties
<1>2. StageOf(c) = "ringing"
  BY <1>1 DEF StageOf
<1>3. StageOf(c)' \in {"accepted", "refused", "missed"}
  BY <1>1 DEF StageOf, Minted
<1>4. \A q \in Calls \ {c} : StageOf(q)' = StageOf(q)
  <2> SUFFICES ASSUME NEW q \in Calls \ {c} PROVE StageOf(q)' = StageOf(q)
    OBVIOUS
  <2> QED BY StageStays
<1>5. Friends!Moves(c, {"ringing"}, {"accepted", "refused", "missed"})
  BY <1>1, <1>2, <1>3, <1>4, CallMoves
<1>6. Friends!Resolve(c)
  BY <1>5 DEF Friends!Resolve
<1> QED BY <1>1, <1>6 DEF Seen, Friends!Next

\* An invite that is minted rings.
LEMMA CreatePendingSeen ==
    ASSUME IInv, Claims, NEW h \in Handlers, CreatePending(h)
    PROVE  Seen
<1> PICK c \in Calls : /\ ~Minted(c)
                       /\ party' = [party EXCEPT ![c] = [from |-> who[h], to |-> mate[h]]]
                       /\ pending' = pending \cup {c}
  BY DEF CreatePending
<1>1. /\ who[h] \in Users /\ mate[h] \in Users /\ who[h] # mate[h] /\ pc[h] = "mint"
      /\ UNCHANGED <<answer, members, pairIdx, torn, lapsed>>
  BY DEF CreatePending, Claims, IInv, Base, LocalInv
<1>2. Alone(h) /\ pc'[h] = "idle"
  BY DEF CreatePending, Return, Alone, IInv, Base, TypeOK
<1>3. Accepted' = Accepted /\ Opening' = Opening
  BY <1>1, <1>2, HandsStay DEF Accepting
<1>4. StageOf(c) = "new" /\ StageOf(c)' = "ringing"
  BY <1>1, NullsAssumption DEF StageOf, Minted, IInv, Base, TypeOK
<1>5. \A q \in Calls \ {c} : StageOf(q)' = StageOf(q)
  BY <1>1, <1>3, StageStays DEF IInv, Base, TypeOK
<1>6. Friends!Moves(c, {"new"}, {"ringing"})
  BY <1>4, <1>5, CallMoves
<1>7. Friends!Ring(c, who[h], mate[h])
  BY <1>1, <1>6 DEF Friends!Ring
<1> QED BY <1>1, <1>7 DEF Seen, Friends!Next

\* CONSUME_FOR_CALLEE_LUA ends the ring with the callee's answer.
LEMMA ConsumePendingSeen ==
    ASSUME IInv, NEW h \in Handlers, ConsumePending(h)
    PROVE  Seen
<1>1. /\ call[h] \in Calls /\ pc[h] = "consume" /\ kind[h] \in {"accept", "decline"}
      /\ UNCHANGED <<party, members, pairIdx, torn, lapsed>>
  BY CallKnown DEF ConsumePending, IInv, Base, LocalInv
<1>2. Alone(h)
  BY DEF ConsumePending, Goto, Return, Alone, IInv, Base, TypeOK, locals
<1>3. CASE call[h] \in pending /\ party[call[h]].to = who[h]
  <2> PICK c \in pending : c = call[h]
    BY <1>3
  <2>1. Answered(c, kind[h]) /\ pending' = pending \ {c}
    BY <1>3 DEF ConsumePending
  <2>2. Head(answer'[c]) = kind[h] /\ \A q \in Calls \ {c} : answer'[q] = answer[q]
    BY <1>1, <2>1, FirstAnswer DEF Answer, IInv, Base, AnswerInv
  <2>3. \/ kind[h] = "accept" /\ pc'[h] = "check1" /\ call'[h] = c
        \/ kind[h] = "decline" /\ pc'[h] = "idle"
    BY <1>1, <1>3 DEF ConsumePending, Goto, Return, IInv, Base, TypeOK, locals
  <2>4. \A q \in Calls \ {c} : /\ q \in Accepted' <=> q \in Accepted
                               /\ q \in Opening' <=> q \in Opening
    BY <1>1, <1>2, <2>3 DEF Alone, Accepted, Opening
  <2>5. kind[h] = "accept" => c \in Accepted'
    BY <2>3 DEF Accepted
  <2> QED BY <1>1, <2>1, <2>2, <2>4, <2>5, ResolveSeen
<1>4. CASE ~(call[h] \in pending /\ party[call[h]].to = who[h])
  <2>1. UNCHANGED <<pending, answer>> /\ pc'[h] = "idle"
    BY <1>4 DEF ConsumePending, Return, IInv, Base, TypeOK
  <2> QED BY <1>1, <1>2, <2>1, SilentStep DEF Accepting
<1> QED BY <1>3, <1>4

\* GETDEL_LUA ends a ring that is still there.
LEMMA CancelSeen ==
    ASSUME IInv, NEW h \in Handlers, Cancel(h)
    PROVE  Seen
<1>1. /\ call[h] \in Calls /\ pc[h] = "cancel"
      /\ UNCHANGED <<party, members, pairIdx, torn, lapsed>>
  BY CallKnown DEF Cancel, IInv
<1>2. Alone(h) /\ pc'[h] = "idle"
  BY DEF Cancel, Return, Alone, IInv, Base, TypeOK
<1>3. Accepted' = Accepted /\ Opening' = Opening
  BY <1>1, <1>2, HandsStay DEF Accepting
<1>4. CASE call[h] \in pending
  <2> PICK c \in pending : c = call[h]
    BY <1>4
  <2>1. Answered(c, "cancel") /\ pending' = pending \ {c}
    BY <1>4 DEF Cancel
  <2>2. Head(answer'[c]) = "cancel" /\ \A q \in Calls \ {c} : answer'[q] = answer[q]
    BY <2>1, FirstAnswer DEF Answer, IInv, Base, AnswerInv
  <2> QED BY <1>1, <1>3, <2>1, <2>2, ResolveSeen
<1>5. CASE call[h] \notin pending
  BY <1>1, <1>2, <1>5, SilentStep DEF Cancel, Accepting
<1> QED BY <1>4, <1>5

\* The ring's TTL ends it as missed.
LEMMA RingExpiresSeen ==
    ASSUME IInv, NEW c \in Calls, RingExpires(c)
    PROVE  Seen
<1>1. /\ c \in pending /\ pending' = pending \ {c} /\ answer[c] = <<>>
      /\ UNCHANGED <<party, members, pairIdx, torn, lapsed, answer, pc, call>>
  BY DEF RingExpires, redis, sockets, locals, history, IInv, AnswerInv, RingInv
<1>2. Accepted' = Accepted /\ Opening' = Opening
  BY <1>1 DEF Accepted, Opening
<1> QED BY <1>1, <1>2, ResolveSeen

\* A socket that joins is a party's, and the call is still opening.
LEMMA SocketsJoinSeen ==
    ASSUME IInv, Claims, NEW h \in Handlers, SocketsJoin(h)
    PROVE  Seen
<1> PICK u \in todo[h] : members' = [members EXCEPT ![call[h]] = @ \cup {u}]
  BY DEF SocketsJoin
<1>1. /\ pc[h] = "join" /\ UNCHANGED <<pc, call, party, answer, pending, pairIdx, torn, lapsed>>
  BY DEF SocketsJoin, redis, history
<1>2. /\ call[h] \in Calls /\ Minted(call[h]) /\ call[h] \notin pending
      /\ Taken(call[h]) /\ call[h] \notin Accepted /\ call[h] \in Opening
  BY <1>1, OwnCall DEF Accepting, Accepted, Opening
<1>3. Stages[call[h]] = "opening" /\ Stages' = Stages
  BY <1>1, <1>2, StagesFrame DEF Stages, StageOf, Taken
<1>4. u \in Users /\ u \in Friends!Couple(call[h])
  BY <1>1 DEF Claims, PairOf, Friends!Couple, IInv, Base, TypeOK
<1>5. Friends!Enter(call[h], u)
  BY <1>1, <1>3, <1>4 DEF Friends!Enter
<1> QED BY <1>2, <1>4, <1>5 DEF Seen, Friends!Next

\* COMPARE_AND_DEL_LUA takes the entry of the call it tears down and no other.
LEMMA TdDeletePairSeen ==
    ASSUME IInv, NEW h \in Handlers, TdDeletePair(h)
    PROVE  Seen
<1> PICK c \in Calls : c = call[h]
  BY CallKnown DEF TdDeletePair, Tearing, IInv
<1>1. /\ pc[h] = "tdDelPair" /\ c \in torn
      /\ UNCHANGED <<party, answer, pending, members, torn, lapsed>>
      /\ pairIdx' = [pairIdx EXCEPT ![PairOf(c)] = IF @ = c THEN NoCall ELSE @]
  BY DEF TdDeletePair, sockets, history, Tearing, IInv, Base, LocalInv
<1>2. Alone(h) /\ pc'[h] = "tdLeave"
  BY DEF TdDeletePair, Goto, Alone, IInv, Base, TypeOK, locals
<1>3. UNCHANGED Stages
  BY <1>1, <1>2, HandsStay, StageStays DEF Stages, Accepting
<1>4. PairOf(c) \in Pairs /\ \A p \in Pairs : pairIdx[p] = c => p = PairOf(c)
  BY <1>1, CallKnown, NullsAssumption DEF Tearing, IInv, Base, MintInv, IndexOf
<1>5. pairIdx' = [p \in Pairs |-> IF pairIdx[p] = c THEN NoCall ELSE pairIdx[p]]
  BY <1>1, <1>4 DEF IInv, Base, TypeOK
<1>6. Friends!Unlist(c)
  BY <1>1, <1>3, <1>5 DEF Friends!Unlist, Friends!Delists
<1> QED BY <1>6 DEF Seen, Friends!Next

\* socketsLeave empties the room.
LEMMA TdSocketsLeaveSeen ==
    ASSUME IInv, NEW h \in Handlers, TdSocketsLeave(h)
    PROVE  Seen
<1>1. /\ call[h] \in Calls /\ call[h] \in torn /\ pc[h] = "tdLeave"
      /\ UNCHANGED <<party, answer, pending, pairIdx, torn, lapsed>>
      /\ members' = [members EXCEPT ![call[h]] = {}]
  BY CallKnown DEF TdSocketsLeave, Tearing, redis, history, IInv, Base, LocalInv
<1>2. Alone(h) /\ pc'[h] = "idle"
  BY DEF TdSocketsLeave, Return, Alone, IInv, Base, TypeOK
<1>3. UNCHANGED Stages
  BY <1>1, <1>2, HandsStay, StageStays DEF Stages, Accepting
<1>4. Friends!Vacate(call[h])
  BY <1>1, <1>3 DEF Friends!Vacate
<1> QED BY <1>1, <1>4 DEF Seen, Friends!Next

\* clearPending of a teardown finds nothing: the call that ends was answered.
LEMMA TdClearPendingSeen ==
    ASSUME IInv, NEW h \in Handlers, TdClearPending(h)
    PROVE  Seen
<1>1. /\ call[h] \in torn /\ call[h] \in Calls /\ pc[h] = "tdPending"
      /\ UNCHANGED <<party, answer, members, pairIdx, torn, lapsed>>
      /\ pending' = pending \ {call[h]}
  BY CallKnown DEF TdClearPending, Tearing, sockets, history, IInv, Base, LocalInv
<1>2. call[h] \notin pending
  BY <1>1 DEF IInv, AnswerInv, RingInv, BareInv, Taken, Unindexed
<1>3. Alone(h) /\ pc'[h] = "tdRead"
  BY DEF TdClearPending, Goto, Alone, IInv, Base, TypeOK, locals
<1> QED BY <1>1, <1>2, <1>3, SilentStep DEF Accepting

\* The index of a call that lapses takes its own entry along.
LEMMA IndexExpiresSeen ==
    ASSUME IInv, NEW c \in Calls, IndexExpires(c)
    PROVE  Seen
<1>1. UNCHANGED Stages
  BY StagesFrame DEF IndexExpires, locals
<1>2. Stages[c] \in {"opening", "settled"}
  BY OpenedCall DEF IndexExpires, Unindexed, Stages
<1>3. /\ torn' \cup lapsed' = (torn \cup lapsed) \cup {c}
      /\ pairIdx' = [p \in Pairs |-> IF pairIdx[p] = c THEN NoCall ELSE pairIdx[p]]
      /\ UNCHANGED <<party, members>>
  BY DEF IndexExpires, sockets
<1>4. Friends!Lapse(c)
  BY <1>1, <1>2, <1>3 DEF Friends!Lapse, Friends!Delists
<1> QED BY <1>4 DEF Seen, Friends!Next

\* A user whose socket drops is in no room.
LEMMA ReconnectSeen ==
    ASSUME NEW u \in Users, Reconnect(u)
    PROVE  Seen
<1>1. UNCHANGED Stages
  BY StagesFrame DEF Reconnect, redis, locals, history
<1>2. Friends!Drop(u)
  BY <1>1 DEF Reconnect, redis, history, Friends!Drop
<1> QED BY <1>2 DEF Seen, Friends!Next

\* Every step is one that FriendCall allows, or none that it sees.
LEMMA SeenStep ==
    ASSUME IInv, Claims, Next \/ UNCHANGED vars
    PROVE  Seen
<1> USE DEF redis, sockets, locals, history, bounds
<1>1. ASSUME NEW h \in Handlers, NEW u \in Users, NEW v \in Users, StartInvite(h, u, v) PROVE Seen
  BY <1>1, SilentStep DEF StartInvite, Start, Alone, Accepting, IInv, Base, TypeOK
<1>2. ASSUME NEW h \in Handlers, NEW u \in Users, NEW v \in Users, StartEnforce(h, u, v) PROVE Seen
  BY <1>2, SilentStep DEF StartEnforce, Start, Alone, Accepting, IInv, Base, TypeOK
<1>3. ASSUME NEW h \in Handlers, NEW u \in Users, NEW c \in Calls, NEW k \in {"accept", "decline"}, StartResponse(h, u, c, k) PROVE Seen
  BY <1>3, SilentStep DEF StartResponse, Start, Alone, Accepting, IInv, Base, TypeOK
<1>4. ASSUME NEW h \in Handlers, NEW u \in Users, NEW c \in Calls, StartEnd(h, u, c) PROVE Seen
  BY <1>4, SilentStep DEF StartEnd, Start, Alone, Accepting, IInv, Base, TypeOK
<1>5. ASSUME NEW h \in Handlers, NEW u \in Users, NEW c \in Calls, StartHangup(h, u, c) PROVE Seen
  BY <1>5, SilentStep DEF StartHangup, Start, Alone, Accepting, IInv, Base, TypeOK
<1>6. ASSUME NEW h \in Handlers, InviteGate(h) PROVE Seen
  BY <1>6, SilentStep DEF InviteGate, Goto, Return, Alone, Accepting, IInv, Base, TypeOK
<1>7. ASSUME NEW h \in Handlers, CreatePending(h) PROVE Seen
  BY <1>7, CreatePendingSeen
<1>8. ASSUME NEW h \in Handlers, ConsumePending(h) PROVE Seen
  BY <1>8, ConsumePendingSeen
<1>9. ASSUME NEW h \in Handlers, FirstCheck(h) PROVE Seen
  <2>1. CASE Blocked(h)
    BY <1>9, <2>1, SettleSeen DEF FirstCheck, Goto, Return, Alone, Accepting, IInv, Base, TypeOK
  <2>2. CASE ~Blocked(h)
    <3>1. UNCHANGED Stages
      BY <1>9, <2>2, HoldSeen DEF FirstCheck, Goto, Return, Alone, IInv, Base, TypeOK
    <3> QED BY <1>9, <2>2, <3>1 DEF FirstCheck, Seen, Friends!friendCall
  <2> QED BY <2>1, <2>2
<1>10. ASSUME NEW h \in Handlers, IndexActiveCall(h) PROVE Seen
  BY <1>10, OpenSeen DEF IndexActiveCall, Goto, Alone, IInv, Base, TypeOK
<1>11. ASSUME NEW h \in Handlers, IndexFails(h) PROVE Seen
  BY <1>11, OpenSeen DEF IndexFails, Goto, Alone, IInv, Base, TypeOK
<1>12. ASSUME NEW h \in Handlers, SecondCheck(h) PROVE Seen
  <2>1. CASE Blocked(h)
    BY <1>12, <2>1, SecondCheckSeen
  <2>2. CASE ~Blocked(h)
    <3>1. UNCHANGED Stages
      BY <1>12, <2>2, HoldSeen DEF SecondCheck, Goto, Alone, IInv, Base, TypeOK
    <3> QED BY <1>12, <2>2, <3>1 DEF SecondCheck, Seen, Friends!friendCall
  <2> QED BY <2>1, <2>2
<1>13. ASSUME NEW h \in Handlers, SocketsJoin(h) PROVE Seen
  BY <1>13, SocketsJoinSeen
<1>14. ASSUME NEW h \in Handlers, Announce(h) PROVE Seen
  BY <1>14, SettleSeen DEF Announce, Return, Alone, Accepting, IInv, Base, TypeOK
<1>15. ASSUME NEW h \in Handlers, GetPending(h) PROVE Seen
  BY <1>15, SilentStep DEF GetPending, Goto, Alone, Accepting, IInv, Base, TypeOK
<1>16. ASSUME NEW h \in Handlers, Cancel(h) PROVE Seen
  BY <1>16, CancelSeen
<1>17. ASSUME NEW h \in Handlers, InCallRoom(h) PROVE Seen
  <2>1. Alone(h) /\ pc[h] \notin Accepting /\ pc'[h] \notin Accepting /\ call[h] \in Calls
    BY <1>17, CallKnown DEF InCallRoom, Goto, Return, Alone, Accepting, IInv, Base, TypeOK
  <2>2. CASE who[h] \in members[call[h]]
    BY <1>17, <2>1, <2>2, FinishSeen DEF InCallRoom, Unindexed
  <2>3. CASE who[h] \notin members[call[h]]
    BY <1>17, <2>1, <2>3, SilentStep DEF InCallRoom
  <2> QED BY <2>2, <2>3
<1>18. ASSUME NEW h \in Handlers, LookupPair(h) PROVE Seen
  <2>1. Alone(h) /\ pc[h] \notin Accepting /\ pc'[h] \notin Accepting
    BY <1>18 DEF LookupPair, Goto, Return, Alone, Accepting, IInv, Base, TypeOK
  <2>2. who[h] \in Users /\ mate[h] \in Users /\ {who[h], mate[h]} \in Pairs
    BY <1>18 DEF LookupPair, IInv, Base, LocalInv, Pairs
  <2> DEFINE c == pairIdx[{who[h], mate[h]}]
  <2>3. CASE c # NoCall
    <3>1. c \in Calls /\ ~Unindexed(c)
      BY <2>2, <2>3 DEF IInv, Base, TypeOK, Unindexed
    <3> QED BY <1>18, <2>1, <2>3, <3>1, FinishSeen DEF LookupPair
  <2>4. CASE c = NoCall
    BY <1>18, <2>1, <2>4, SilentStep DEF LookupPair
  <2> QED BY <2>3, <2>4
<1>19. ASSUME NEW h \in Handlers, TdClearPending(h) PROVE Seen
  BY <1>19, TdClearPendingSeen
<1>20. ASSUME NEW h \in Handlers, TdReadId(h) PROVE Seen
  BY <1>20, SilentStep DEF TdReadId, Goto, Alone, Accepting, IInv, Base, TypeOK
<1>21. ASSUME NEW h \in Handlers, TdDeleteId(h) PROVE Seen
  BY <1>21, SilentStep DEF TdDeleteId, Goto, Alone, Accepting, IInv, Base, TypeOK
<1>22. ASSUME NEW h \in Handlers, TdDeletePair(h) PROVE Seen
  BY <1>22, TdDeletePairSeen
<1>23. ASSUME NEW h \in Handlers, TdIndexFails(h) PROVE Seen
  BY <1>23, SilentStep DEF TdIndexFails, Goto, Alone, Accepting, IInv, Base, TypeOK
<1>24. ASSUME NEW h \in Handlers, TdSocketsLeave(h) PROVE Seen
  BY <1>24, TdSocketsLeaveSeen
<1>25. ASSUME NEW h \in Handlers, Crash(h) PROVE Seen
  <2>1. CASE pc[h] \in Accepting
    BY <1>25, <2>1, SettleSeen DEF Crash, Return, Alone, Accepting, IInv, Base, TypeOK
  <2>2. CASE pc[h] \notin Accepting
    BY <1>25, <2>2, SilentStep DEF Crash, Return, Alone, Accepting, IInv, Base, TypeOK
  <2> QED BY <2>1, <2>2
<1>26. ASSUME NEW u \in Users, NEW v \in Users, Block(u, v) PROVE Seen
  BY <1>26, StagesFrame DEF Block, Seen, Friends!friendCall
<1>27. ASSUME NEW c \in Calls, RingExpires(c) PROVE Seen
  BY <1>27, RingExpiresSeen
<1>28. ASSUME NEW c \in Calls, IndexExpires(c) PROVE Seen
  BY <1>28, IndexExpiresSeen
<1>29. ASSUME NEW u \in Users, Reconnect(u) PROVE Seen
  BY <1>29, ReconnectSeen
<1>30. CASE UNCHANGED vars
  BY <1>30, StagesFrame DEF vars, Seen, Friends!friendCall
<1> QED
  BY <1>1, <1>2, <1>3, <1>4, <1>5, <1>6, <1>7, <1>8, <1>9, <1>10, <1>11, <1>12,
     <1>13, <1>14, <1>15, <1>16, <1>17, <1>18, <1>19, <1>20, <1>21, <1>22, <1>23, <1>24, <1>25,
     <1>26, <1>27, <1>28, <1>29, <1>30
     DEF Next, StartAny, Step, Environment

-----------------------------------------------------------------------------
(* Theorems *)

\* Every state has the types of TypeOK: no handler of MatchmakingGateway, wherever it is
\* overtaken by others, reaches an await without the call and the users that it is about.
THEOREM CallsTypeCorrect ==
    Spec => []TypeOK
<1>1. IInv => TypeOK
  BY DEF IInv, Base
<1> QED
  BY Invariance, <1>1, PTL

\* consumePendingForCallee and cancelPending are exclusive: of all the accepts, declines
\* and cancels of a call, its parties' devices and their retries, at most one succeeds.
THEOREM AnswersExclude ==
    Spec => []AnsweredOnce
<1>1. IInv => AnsweredOnce
  BY DEF IInv
<1> QED
  BY Invariance, <1>1, PTL

\* clearActiveCallIndex compares before it deletes: the teardown of an old call of a
\* pair, at any distance, never takes the newest one out of the index.
THEOREM NewestStaysIndexed ==
    Spec => []NewestCallIndexed
<1>1. IInv => NewestCallIndexed
  BY DEF IInv
<1> QED
  BY Invariance, <1>1, PTL

\* handleCallAccept checks the block again after it indexed the call, so whichever comes
\* first, the block's lookup or the index write, no call of a blocked pair stays indexed.
THEOREM BlockClearsIndex ==
    Spec => []BlockedPairNotIndexed
<1>1. IInv => BlockedPairNotIndexed
  BY QuietIndex
<1> QED
  BY Invariance, <1>1, PTL

\* The handlers of direct calls together implement FriendCall: a call is resolved once,
\* opens for its two parties alone, and nobody enters once it is settled; its entry of the
\* index is taken out, and its room emptied, only after its own end has begun or its own
\* entry has lapsed, so what ends an older call of the pair leaves a newer one alone.
THEOREM ImplementsFriendCall ==
    Spec => FriendCallSpec
<1>1. Init => Friends!Init
  BY DEF Init, Friends!Init, Stages, StageOf, Minted
<1>2. Init => Claims
  BY DEF Init, Claims, Accepting
<1>3. IInv /\ Claims /\ [Next]_vars => Claims'
  BY ClaimsStep DEF IInv
<1>4. IInv /\ Claims /\ [Next]_vars => [Friends!Next]_Friends!friendCall
  BY SeenStep DEF Seen
<1> QED
  BY <1>1, <1>2, <1>3, <1>4, Invariance, PTL DEF Spec, FriendCallSpec, Friends!Spec
=============================================================================
