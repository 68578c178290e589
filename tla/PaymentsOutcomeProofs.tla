------------------------- MODULE PaymentsOutcomeProofs -------------------------
(***************************************************************************)
(* Proofs about what becomes of an invoice in Payments, for any handlers,  *)
(* invoices, package sizes and bounds: a completed payment is credited,    *)
(* and a reversal takes all that it set out to take.  They extend the      *)
(* invariant IInv of PaymentsProofs.                                       *)
(***************************************************************************)
EXTENDS PaymentsProofs

-----------------------------------------------------------------------------
(* The invariant *)

\* Each await belongs to one kind of handler, except for the lookup of the package.
InRole == \A h \in Handlers :
    /\ pc[h] \in {"gate", "claim", "recheck", "credit", "undo"} => kind[h] = "pay"
    /\ pc[h] \in {"claimRefund", "upstream", "balance", "debit", "hold"} =>
           kind[h] \in {"refund", "admin"}
    /\ pc[h] = "package" => kind[h] \in {"pay", "refund", "admin"}

\* The row of a purchase is written with its coins and by nothing else.
RowIsPaid == \A i \in Invoices : PurchaseRow(i) \in rows => paid[i] > 0

\* A handler that has claimed i for Pay and has yet to credit it or undo the claim.
Owes(h, i) ==
    /\ inv[h] = i
    /\ pc[h] \in {"recheck", "credit", "undo"} \/ (pc[h] = "package" /\ kind[h] = "pay")

ClaimOwed == \A i \in Invoices :
    status[i] = "completed" /\ paid[i] = 0 /\ <<"pay", i>> \notin halted =>
        \E h \in Handlers : Owes(h, i)

\* A handler inside wallet.reverseRefund for the invoice i.
Reverses(h, i) == inv[h] = i /\ pc[h] \in {"balance", "debit", "hold"}

\* Outside the loop of reverseRefund nothing has been clawed back.
NothingGot == \A h \in Handlers : pc[h] \notin {"balance", "debit", "hold"} => got[h] = 0

\* No reversal of i has written a row from n on, or a debt.
Untouched(i, n) ==
    /\ i \notin heldRefs
    /\ \A m \in Nat : ClawRow(i, m) \in rows => m < n

\* The reversal under way has taken what it got, has the rest still to take, and finds
\* the next row of its own free.
UnderWay(h, i) ==
    /\ runs[i] = 1
    /\ taken[i] = got[h] /\ due[i] = got[h] + left[h]
    /\ Untouched(i, got[h])

Whole(i) ==
    /\ \A h \in Handlers : Reverses(h, i) => UnderWay(h, i)
    /\ \A h, g \in Handlers : Reverses(h, i) /\ Reverses(g, i) => h = g
    /\ (\A h \in Handlers : ~Reverses(h, i)) => taken[i] = due[i]
    /\ runs[i] = 0 => taken[i] = 0 /\ due[i] = 0 /\ Untouched(i, 0)

AllWhole == \A i \in Invoices : runs[i] <= 1 /\ Unbroken(i) => Whole(i)

OInv == IInv /\ InRole /\ RowIsPaid /\ ClaimOwed /\ NothingGot /\ AllWhole

-----------------------------------------------------------------------------
(* Keys of the ledger *)

LEMMA RowFacts ==
    ASSUME NEW i, NEW j, NEW m, NEW n
    PROVE  /\ PurchaseRow(i) = PurchaseRow(j) => i = j
           /\ PurchaseRow(i) # ClawRow(j, n)
           /\ PurchaseRow(i) # RepayRow(j, n)
           /\ ClawRow(i, m) # RepayRow(j, n)
           /\ ClawRow(i, m) = ClawRow(j, n) => i = j /\ m = n
BY DEF PurchaseRow, ClawRow, RepayRow

\* A credit writes its own keys and the row of a repayment, and adds nobody to the hold.
LEMMA CreditRows ==
    ASSUME NEW k, NEW n, Credit(k, n)
    PROVE  /\ rows \subseteq rows' /\ heldRefs' \subseteq heldRefs
           /\ \A r \in rows' \ (rows \cup k) : r = RepayRow(holdRef, held)
BY Zenon DEF Credit

-----------------------------------------------------------------------------
(* A completed payment is credited *)

\* Every step keeps the handlers in their roles.
LEMMA InRoleStep ==
    ASSUME IInv, InRole, Next \/ UNCHANGED vars
    PROVE  InRole'
<1>1. ASSUME NEW h \in Handlers, NEW j \in Invoices, NEW k \in Kind, Start(h, k, j) PROVE
      InRole'
  BY <1>1 DEF Start, IInv, TypeOK, LocalsType, HistoryType, MongoType, InRole, Kind, Await,
     wallet, users, provider, locals, history, bounds
<1>2. ASSUME NEW h \in Handlers, ReadPayment(h) PROVE InRole'
  BY <1>2 DEF ReadPayment, GoesOn, AfterRead, Goto, Return, IInv, TypeOK, LocalsType,
     HistoryType, MongoType, InRole, Kind, Await, wallet, users, provider, locals,
     history, bounds
<1>3. ASSUME NEW h \in Handlers, CheckAccount(h) PROVE InRole'
  BY <1>3 DEF CheckAccount, Torndown, Goto, Return, Fault, IInv, TypeOK, LocalsType,
     HistoryType, MongoType, InRole, Kind, Await, wallet, users, provider, locals,
     history, bounds
<1>4. ASSUME NEW h \in Handlers, ClaimPay(h) PROVE InRole'
  BY <1>4 DEF ClaimPay, Goto, Return, IInv, TypeOK, LocalsType, HistoryType, MongoType,
     InRole, Kind, Await, wallet, users, provider, locals, history, bounds
<1>5. ASSUME NEW h \in Handlers, RecheckAccount(h) PROVE InRole'
  BY <1>5 DEF RecheckAccount, Torndown, Goto, Return, Fault, IInv, TypeOK, LocalsType,
     HistoryType, MongoType, InRole, Kind, Await, wallet, users, provider, locals,
     history, bounds
<1>6. ASSUME NEW h \in Handlers, ReadPackage(h) PROVE InRole'
  BY <1>6 DEF ReadPackage, Goto, Return, IInv, TypeOK, LocalsType, HistoryType, MongoType,
     InRole, Kind, Await, wallet, users, provider, locals, history, bounds
<1>7. ASSUME NEW h \in Handlers, FulfilCoins(h) PROVE InRole'
  BY <1>7 DEF FulfilCoins, Goto, Return, Fault, IInv, TypeOK, LocalsType, HistoryType,
     MongoType, InRole, Kind, Await, wallet, users, provider, locals, history, bounds
<1>8. ASSUME NEW h \in Handlers, CreditDuplicate(h) PROVE InRole'
  BY <1>8 DEF CreditDuplicate, Goto, Return, IInv, TypeOK, LocalsType, HistoryType, MongoType,
     InRole, Kind, Await, wallet, users, provider, locals, history, bounds
<1>9. ASSUME NEW h \in Handlers, CreditFails(h) PROVE InRole'
  BY <1>9 DEF CreditFails, Goto, Fault, IInv, TypeOK, LocalsType, HistoryType, MongoType,
     InRole, Kind, Await, wallet, users, provider, locals, history, bounds
<1>10. ASSUME NEW h \in Handlers, UndoClaim(h) PROVE InRole'
  BY <1>10 DEF UndoClaim, Return, IInv, TypeOK, LocalsType, HistoryType, MongoType, InRole,
     Kind, Await, wallet, users, provider, locals, history, bounds
<1>11. ASSUME NEW h \in Handlers, MarkFailed(h) PROVE InRole'
  BY <1>11 DEF MarkFailed, Return, IInv, TypeOK, LocalsType, HistoryType, MongoType, InRole,
     Kind, Await, wallet, users, provider, locals, history, bounds
<1>12. ASSUME NEW h \in Handlers, ClaimRefund(h) PROVE InRole'
  BY <1>12 DEF ClaimRefund, Goto, Return, IInv, TypeOK, LocalsType, HistoryType, MongoType,
     InRole, Kind, Await, wallet, users, provider, locals, history, bounds
<1>13. ASSUME NEW h \in Handlers, RefundUpstream(h) PROVE InRole'
  BY <1>13 DEF RefundUpstream, Goto, Return, IInv, TypeOK, LocalsType, HistoryType, MongoType,
     InRole, Kind, Await, wallet, users, provider, locals, history, bounds
<1>14. ASSUME NEW h \in Handlers, ClaimAdminRefund(h) PROVE InRole'
  BY <1>14 DEF ClaimAdminRefund, Goto, Return, IInv, TypeOK, LocalsType, HistoryType,
     MongoType, InRole, Kind, Await, wallet, users, provider, locals, history, bounds
<1>15. ASSUME NEW h \in Handlers, ReadBalance(h) PROVE InRole'
  BY <1>15 DEF ReadBalance, Goto, IInv, TypeOK, LocalsType, HistoryType, MongoType, InRole,
     Kind, Await, wallet, users, provider, locals, history, bounds
<1>16. ASSUME NEW h \in Handlers, ClawBack(h) PROVE InRole'
  BY <1>16 DEF ClawBack, Goto, Return, IInv, TypeOK, LocalsType, HistoryType, MongoType,
     InRole, Kind, Await, wallet, users, provider, locals, history, bounds
<1>17. ASSUME NEW h \in Handlers, ClawBackRaced(h) PROVE InRole'
  BY <1>17 DEF ClawBackRaced, Goto, IInv, TypeOK, LocalsType, HistoryType, MongoType,
     InRole, Kind, Await, wallet, users, provider, locals, history, bounds
<1>18. ASSUME NEW h \in Handlers, ClawBackDuplicate(h) PROVE InRole'
  BY <1>18 DEF ClawBackDuplicate, Goto, Return, IInv, TypeOK, LocalsType, HistoryType,
     MongoType, InRole, Kind, Await, wallet, users, provider, locals, history, bounds
<1>19. ASSUME NEW h \in Handlers, RecordDebt(h) PROVE InRole'
  BY <1>19 DEF RecordDebt, Return, IInv, TypeOK, LocalsType, HistoryType, MongoType, InRole,
     Kind, Await, wallet, users, provider, locals, history, bounds
<1>20. ASSUME NEW h \in Handlers, ReversalFails(h) PROVE InRole'
  BY <1>20 DEF ReversalFails, Return, Fault, IInv, TypeOK, LocalsType, HistoryType, MongoType,
     InRole, Kind, Await, wallet, users, provider, locals, history, bounds
<1>21. ASSUME NEW h \in Handlers, Crash(h) PROVE InRole'
  BY <1>21 DEF Crash, Return, Fault, IInv, TypeOK, LocalsType, HistoryType, MongoType,
     InRole, Kind, Await, wallet, users, provider, locals, history, bounds
<1>22. ASSUME Spend PROVE InRole'
  BY <1>22 DEF Spend, IInv, TypeOK, LocalsType, HistoryType, MongoType, InRole, Kind, Await,
     wallet, users, provider, locals, history, bounds
<1>23. ASSUME Earn PROVE InRole'
  BY <1>23 DEF Earn, IInv, TypeOK, LocalsType, HistoryType, MongoType, InRole, Kind, Await,
     wallet, users, provider, locals, history, bounds
<1>24. ASSUME EditPackage PROVE InRole'
  BY <1>24 DEF EditPackage, IInv, TypeOK, LocalsType, HistoryType, MongoType, InRole, Kind,
     Await, wallet, users, provider, locals, history, bounds
<1>25. ASSUME ChangeAccount PROVE InRole'
  BY <1>25 DEF ChangeAccount, IInv, TypeOK, LocalsType, HistoryType, MongoType, InRole,
     Kind, Await, wallet, users, provider, locals, history, bounds
<1>26. ASSUME ZeroWallet PROVE InRole'
  BY <1>26 DEF ZeroWallet, IInv, TypeOK, LocalsType, HistoryType, MongoType, InRole, Kind,
     Await, wallet, users, provider, locals, history, bounds
<1>27. ASSUME NEW j \in Invoices, ProviderDeclines(j) PROVE InRole'
  BY <1>27 DEF ProviderDeclines, IInv, TypeOK, LocalsType, HistoryType, MongoType, InRole,
     Kind, Await, wallet, users, provider, locals, history, bounds
<1>28. ASSUME NEW j \in Invoices, ProviderCharges(j) PROVE InRole'
  BY <1>28 DEF ProviderCharges, IInv, TypeOK, LocalsType, HistoryType, MongoType, InRole,
     Kind, Await, wallet, users, provider, locals, history, bounds
<1>29. ASSUME NEW j \in Invoices, ProviderRefunds(j) PROVE InRole'
  BY <1>29 DEF ProviderRefunds, IInv, TypeOK, LocalsType, HistoryType, MongoType, InRole,
     Kind, Await, wallet, users, provider, locals, history, bounds
<1>30. CASE UNCHANGED vars
  BY <1>30 DEF vars, IInv, TypeOK, LocalsType, HistoryType, MongoType, InRole, Kind, Await,
     wallet, users, provider, locals, history, bounds
<1> QED
  BY <1>1, <1>2, <1>3, <1>4, <1>5, <1>6, <1>7, <1>8, <1>9, <1>10, <1>11, <1>12, <1>13, <1>14,
     <1>15, <1>16, <1>17, <1>18, <1>19, <1>20, <1>21, <1>22, <1>23, <1>24, <1>25, <1>26,
     <1>27, <1>28, <1>29, <1>30 DEF Next, StartAny, StartWebhook, StartAdminRefund, Kind,
     Step, Pay, Refund, Environment

\* A purchase row is written with its coins.
LEMMA RowIsPaidStep ==
    ASSUME IInv, RowIsPaid, Next \/ UNCHANGED vars
    PROVE  RowIsPaid'
<1>1. ASSUME NEW h \in Handlers, NEW j \in Invoices, NEW k \in Kind, Start(h, k, j) PROVE
      RowIsPaid'
  BY <1>1 DEF Start, RowIsPaid, wallet, users, provider, locals, history, bounds
<1>2. ASSUME NEW h \in Handlers, ReadPayment(h) PROVE RowIsPaid'
  BY <1>2 DEF ReadPayment, RowIsPaid, wallet, users, provider, locals, history, bounds
<1>3. ASSUME NEW h \in Handlers, CheckAccount(h) PROVE RowIsPaid'
  BY <1>3 DEF CheckAccount, RowIsPaid, wallet, users, provider, locals, history, bounds
<1>4. ASSUME NEW h \in Handlers, ClaimPay(h) PROVE RowIsPaid'
  BY <1>4 DEF ClaimPay, RowIsPaid, wallet, users, provider, locals, history, bounds
<1>5. ASSUME NEW h \in Handlers, RecheckAccount(h) PROVE RowIsPaid'
  BY <1>5 DEF RecheckAccount, RowIsPaid, wallet, users, provider, locals, history, bounds
<1>6. ASSUME NEW h \in Handlers, ReadPackage(h) PROVE RowIsPaid'
  BY <1>6 DEF ReadPackage, RowIsPaid, wallet, users, provider, locals, history, bounds
<1>7. ASSUME NEW h \in Handlers, FulfilCoins(h) PROVE RowIsPaid'
  <2>1. inv[h] \in Invoices /\ left[h] > 0 /\ left[h] \in Nat
    BY <1>7 DEF FulfilCoins, IInv, Busy, TypeOK, LocalsType
  <2>2. /\ paid' = [paid EXCEPT ![inv[h]] = paid[inv[h]] + left[h]]
        /\ paid \in [Invoices -> Nat]
    BY <1>7 DEF FulfilCoins, IInv, TypeOK, HistoryType
  <2>3. ASSUME NEW i \in Invoices, PurchaseRow(i) \in rows', i # inv[h]
        PROVE  PurchaseRow(i) \in rows
    BY <1>7, <2>3, CreditRows, RowFacts DEF FulfilCoins
  <2> QED
    BY <2>1, <2>2, <2>3 DEF RowIsPaid
<1>8. ASSUME NEW h \in Handlers, CreditDuplicate(h) PROVE RowIsPaid'
  BY <1>8 DEF CreditDuplicate, RowIsPaid, wallet, users, provider, locals, history, bounds
<1>9. ASSUME NEW h \in Handlers, CreditFails(h) PROVE RowIsPaid'
  BY <1>9 DEF CreditFails, RowIsPaid, wallet, users, provider, locals, history, bounds
<1>10. ASSUME NEW h \in Handlers, UndoClaim(h) PROVE RowIsPaid'
  BY <1>10 DEF UndoClaim, RowIsPaid, wallet, users, provider, locals, history, bounds
<1>11. ASSUME NEW h \in Handlers, MarkFailed(h) PROVE RowIsPaid'
  BY <1>11 DEF MarkFailed, RowIsPaid, wallet, users, provider, locals, history, bounds
<1>12. ASSUME NEW h \in Handlers, ClaimRefund(h) PROVE RowIsPaid'
  BY <1>12 DEF ClaimRefund, RowIsPaid, wallet, users, provider, locals, history, bounds
<1>13. ASSUME NEW h \in Handlers, RefundUpstream(h) PROVE RowIsPaid'
  BY <1>13 DEF RefundUpstream, RowIsPaid, wallet, users, provider, locals, history, bounds
<1>14. ASSUME NEW h \in Handlers, ClaimAdminRefund(h) PROVE RowIsPaid'
  BY <1>14 DEF ClaimAdminRefund, RowIsPaid, wallet, users, provider, locals, history, bounds
<1>15. ASSUME NEW h \in Handlers, ReadBalance(h) PROVE RowIsPaid'
  BY <1>15 DEF ReadBalance, RowIsPaid, wallet, users, provider, locals, history, bounds
<1>16. ASSUME NEW h \in Handlers, ClawBack(h) PROVE RowIsPaid'
  <2>1. ASSUME NEW i \in Invoices, PurchaseRow(i) \in rows' PROVE PurchaseRow(i) \in rows
    BY <1>16, <2>1, RowFacts DEF ClawBack
  <2> QED
    BY <1>16, <2>1 DEF ClawBack, RowIsPaid
<1>17. ASSUME NEW h \in Handlers, ClawBackRaced(h) PROVE RowIsPaid'
  BY <1>17 DEF ClawBackRaced, RowIsPaid, wallet, users, provider, locals, history, bounds
<1>18. ASSUME NEW h \in Handlers, ClawBackDuplicate(h) PROVE RowIsPaid'
  BY <1>18 DEF ClawBackDuplicate, RowIsPaid, wallet, users, provider, locals, history, bounds
<1>19. ASSUME NEW h \in Handlers, RecordDebt(h) PROVE RowIsPaid'
  BY <1>19 DEF RecordDebt, RowIsPaid, wallet, users, provider, locals, history, bounds
<1>20. ASSUME NEW h \in Handlers, ReversalFails(h) PROVE RowIsPaid'
  BY <1>20 DEF ReversalFails, RowIsPaid, wallet, users, provider, locals, history, bounds
<1>21. ASSUME NEW h \in Handlers, Crash(h) PROVE RowIsPaid'
  BY <1>21 DEF Crash, RowIsPaid, wallet, users, provider, locals, history, bounds
<1>22. ASSUME Spend PROVE RowIsPaid'
  BY <1>22 DEF Spend, RowIsPaid, wallet, users, provider, locals, history, bounds
<1>23. ASSUME Earn PROVE RowIsPaid'
  <2>1. ASSUME NEW i \in Invoices, PurchaseRow(i) \in rows' PROVE PurchaseRow(i) \in rows
    BY <1>23, <2>1, CreditRows, RowFacts DEF Earn
  <2> QED
    BY <1>23, <2>1 DEF Earn, RowIsPaid, history
<1>24. ASSUME EditPackage PROVE RowIsPaid'
  BY <1>24 DEF EditPackage, RowIsPaid, wallet, users, provider, locals, history, bounds
<1>25. ASSUME ChangeAccount PROVE RowIsPaid'
  BY <1>25 DEF ChangeAccount, RowIsPaid, wallet, users, provider, locals, history, bounds
<1>26. ASSUME ZeroWallet PROVE RowIsPaid'
  BY <1>26 DEF ZeroWallet, RowIsPaid, wallet, users, provider, locals, history, bounds
<1>27. ASSUME NEW j \in Invoices, ProviderDeclines(j) PROVE RowIsPaid'
  BY <1>27 DEF ProviderDeclines, RowIsPaid, wallet, users, provider, locals, history, bounds
<1>28. ASSUME NEW j \in Invoices, ProviderCharges(j) PROVE RowIsPaid'
  BY <1>28 DEF ProviderCharges, RowIsPaid, wallet, users, provider, locals, history, bounds
<1>29. ASSUME NEW j \in Invoices, ProviderRefunds(j) PROVE RowIsPaid'
  BY <1>29 DEF ProviderRefunds, RowIsPaid, wallet, users, provider, locals, history, bounds
<1>30. CASE UNCHANGED vars
  BY <1>30 DEF vars, wallet, history, RowIsPaid
<1> QED
  BY <1>1, <1>2, <1>3, <1>4, <1>5, <1>6, <1>7, <1>8, <1>9, <1>10, <1>11, <1>12, <1>13, <1>14,
     <1>15, <1>16, <1>17, <1>18, <1>19, <1>20, <1>21, <1>22, <1>23, <1>24, <1>25, <1>26,
     <1>27, <1>28, <1>29, <1>30 DEF Next, StartAny, StartWebhook, StartAdminRefund, Kind,
     Step, Pay, Refund, Environment

\* A claim is credited, or undone, by the handler that made it.
LEMMA ClaimOwedStep ==
    ASSUME IInv, InRole, RowIsPaid, ClaimOwed, Next \/ UNCHANGED vars
    PROVE  ClaimOwed'
<1>1. ASSUME NEW h \in Handlers, NEW j \in Invoices, NEW k \in Kind, Start(h, k, j) PROVE
      ClaimOwed'
  BY <1>1 DEF Start, IInv, TypeOK, LocalsType, HistoryType, MongoType, InRole, RowIsPaid,
     ClaimOwed, Owes, Busy, Kind, wallet, users, provider, locals, history, bounds
<1>2. ASSUME NEW h \in Handlers, ReadPayment(h) PROVE ClaimOwed'
  BY <1>2 DEF ReadPayment, GoesOn, AfterRead, Goto, Return, IInv, TypeOK, LocalsType,
     HistoryType, MongoType, InRole, RowIsPaid, ClaimOwed, Owes, Busy, Kind, wallet,
     users, provider, locals, history, bounds
<1>3. ASSUME NEW h \in Handlers, CheckAccount(h) PROVE ClaimOwed'
  BY <1>3 DEF CheckAccount, Torndown, Goto, Return, Fault, IInv, TypeOK, LocalsType,
     HistoryType, MongoType, InRole, RowIsPaid, ClaimOwed, Owes, Busy, Kind, wallet,
     users, provider, locals, history, bounds
<1>4. ASSUME NEW h \in Handlers, ClaimPay(h) PROVE ClaimOwed'
  BY <1>4 DEF ClaimPay, Goto, Return, IInv, TypeOK, LocalsType, HistoryType, MongoType,
     InRole, RowIsPaid, ClaimOwed, Owes, Busy, Kind, wallet, users, provider, locals,
     history, bounds
<1>5. ASSUME NEW h \in Handlers, RecheckAccount(h) PROVE ClaimOwed'
  BY <1>5 DEF RecheckAccount, Torndown, Goto, Return, Fault, IInv, TypeOK, LocalsType,
     HistoryType, MongoType, InRole, RowIsPaid, ClaimOwed, Owes, Busy, Kind, wallet,
     users, provider, locals, history, bounds
<1>6. ASSUME NEW h \in Handlers, ReadPackage(h) PROVE ClaimOwed'
  BY <1>6 DEF ReadPackage, Goto, Return, IInv, TypeOK, LocalsType, HistoryType, MongoType,
     InRole, RowIsPaid, ClaimOwed, Owes, Busy, Kind, wallet, users, provider, locals,
     history, bounds
<1>7. ASSUME NEW h \in Handlers, FulfilCoins(h) PROVE ClaimOwed'
  BY <1>7 DEF FulfilCoins, Goto, Return, Fault, IInv, TypeOK, LocalsType, HistoryType,
     MongoType, InRole, RowIsPaid, ClaimOwed, Owes, Busy, Kind, wallet, users, provider,
     locals, history, bounds
<1>8. ASSUME NEW h \in Handlers, CreditDuplicate(h) PROVE ClaimOwed'
  BY <1>8 DEF CreditDuplicate, Goto, Return, IInv, TypeOK, LocalsType, HistoryType, MongoType,
     InRole, RowIsPaid, ClaimOwed, Owes, Busy, Kind, wallet, users, provider, locals,
     history, bounds
<1>9. ASSUME NEW h \in Handlers, CreditFails(h) PROVE ClaimOwed'
  BY <1>9 DEF CreditFails, Goto, Fault, IInv, TypeOK, LocalsType, HistoryType, MongoType,
     InRole, RowIsPaid, ClaimOwed, Owes, Busy, Kind, wallet, users, provider, locals,
     history, bounds
<1>10. ASSUME NEW h \in Handlers, UndoClaim(h) PROVE ClaimOwed'
  BY <1>10 DEF UndoClaim, Return, IInv, TypeOK, LocalsType, HistoryType, MongoType, InRole,
     RowIsPaid, ClaimOwed, Owes, Busy, Kind, wallet, users, provider, locals, history,
     bounds
<1>11. ASSUME NEW h \in Handlers, MarkFailed(h) PROVE ClaimOwed'
  BY <1>11 DEF MarkFailed, Return, IInv, TypeOK, LocalsType, HistoryType, MongoType, InRole,
     RowIsPaid, ClaimOwed, Owes, Busy, Kind, wallet, users, provider, locals, history,
     bounds
<1>12. ASSUME NEW h \in Handlers, ClaimRefund(h) PROVE ClaimOwed'
  BY <1>12 DEF ClaimRefund, Goto, Return, IInv, TypeOK, LocalsType, HistoryType, MongoType,
     InRole, RowIsPaid, ClaimOwed, Owes, Busy, Kind, wallet, users, provider, locals,
     history, bounds
<1>13. ASSUME NEW h \in Handlers, RefundUpstream(h) PROVE ClaimOwed'
  BY <1>13 DEF RefundUpstream, Goto, Return, IInv, TypeOK, LocalsType, HistoryType, MongoType,
     InRole, RowIsPaid, ClaimOwed, Owes, Busy, Kind, wallet, users, provider, locals,
     history, bounds
<1>14. ASSUME NEW h \in Handlers, ClaimAdminRefund(h) PROVE ClaimOwed'
  BY <1>14 DEF ClaimAdminRefund, Goto, Return, IInv, TypeOK, LocalsType, HistoryType,
     MongoType, InRole, RowIsPaid, ClaimOwed, Owes, Busy, Kind, wallet, users, provider,
     locals, history, bounds
<1>15. ASSUME NEW h \in Handlers, ReadBalance(h) PROVE ClaimOwed'
  BY <1>15 DEF ReadBalance, Goto, IInv, TypeOK, LocalsType, HistoryType, MongoType, InRole,
     RowIsPaid, ClaimOwed, Owes, Busy, Kind, wallet, users, provider, locals, history,
     bounds
<1>16. ASSUME NEW h \in Handlers, ClawBack(h) PROVE ClaimOwed'
  BY <1>16 DEF ClawBack, Goto, Return, IInv, TypeOK, LocalsType, HistoryType, MongoType,
     InRole, RowIsPaid, ClaimOwed, Owes, Busy, Kind, wallet, users, provider, locals,
     history, bounds
<1>17. ASSUME NEW h \in Handlers, ClawBackRaced(h) PROVE ClaimOwed'
  BY <1>17 DEF ClawBackRaced, Goto, IInv, TypeOK, LocalsType, HistoryType, MongoType,
     InRole, RowIsPaid, ClaimOwed, Owes, Busy, Kind, wallet, users, provider, locals,
     history, bounds
<1>18. ASSUME NEW h \in Handlers, ClawBackDuplicate(h) PROVE ClaimOwed'
  BY <1>18 DEF ClawBackDuplicate, Goto, Return, IInv, TypeOK, LocalsType, HistoryType,
     MongoType, InRole, RowIsPaid, ClaimOwed, Owes, Busy, Kind, wallet, users, provider,
     locals, history, bounds
<1>19. ASSUME NEW h \in Handlers, RecordDebt(h) PROVE ClaimOwed'
  BY <1>19 DEF RecordDebt, Return, IInv, TypeOK, LocalsType, HistoryType, MongoType, InRole,
     RowIsPaid, ClaimOwed, Owes, Busy, Kind, wallet, users, provider, locals, history,
     bounds
<1>20. ASSUME NEW h \in Handlers, ReversalFails(h) PROVE ClaimOwed'
  BY <1>20 DEF ReversalFails, Return, Fault, IInv, TypeOK, LocalsType, HistoryType, MongoType,
     InRole, RowIsPaid, ClaimOwed, Owes, Busy, Kind, wallet, users, provider, locals,
     history, bounds
<1>21. ASSUME NEW h \in Handlers, Crash(h) PROVE ClaimOwed'
  BY <1>21 DEF Crash, Return, Fault, IInv, TypeOK, LocalsType, HistoryType, MongoType,
     InRole, RowIsPaid, ClaimOwed, Owes, Busy, Kind, wallet, users, provider, locals,
     history, bounds
<1>22. ASSUME Spend PROVE ClaimOwed'
  BY <1>22 DEF Spend, IInv, TypeOK, LocalsType, HistoryType, MongoType, InRole, RowIsPaid,
     ClaimOwed, Owes, Busy, Kind, wallet, users, provider, locals, history, bounds
<1>23. ASSUME Earn PROVE ClaimOwed'
  BY <1>23 DEF Earn, IInv, TypeOK, LocalsType, HistoryType, MongoType, InRole, RowIsPaid,
     ClaimOwed, Owes, Busy, Kind, wallet, users, provider, locals, history, bounds
<1>24. ASSUME EditPackage PROVE ClaimOwed'
  BY <1>24 DEF EditPackage, IInv, TypeOK, LocalsType, HistoryType, MongoType, InRole,
     RowIsPaid, ClaimOwed, Owes, Busy, Kind, wallet, users, provider, locals, history,
     bounds
<1>25. ASSUME ChangeAccount PROVE ClaimOwed'
  BY <1>25 DEF ChangeAccount, IInv, TypeOK, LocalsType, HistoryType, MongoType, InRole,
     RowIsPaid, ClaimOwed, Owes, Busy, Kind, wallet, users, provider, locals, history,
     bounds
<1>26. ASSUME ZeroWallet PROVE ClaimOwed'
  BY <1>26 DEF ZeroWallet, IInv, TypeOK, LocalsType, HistoryType, MongoType, InRole,
     RowIsPaid, ClaimOwed, Owes, Busy, Kind, wallet, users, provider, locals, history,
     bounds
<1>27. ASSUME NEW j \in Invoices, ProviderDeclines(j) PROVE ClaimOwed'
  BY <1>27 DEF ProviderDeclines, IInv, TypeOK, LocalsType, HistoryType, MongoType, InRole,
     RowIsPaid, ClaimOwed, Owes, Busy, Kind, wallet, users, provider, locals, history,
     bounds
<1>28. ASSUME NEW j \in Invoices, ProviderCharges(j) PROVE ClaimOwed'
  BY <1>28 DEF ProviderCharges, IInv, TypeOK, LocalsType, HistoryType, MongoType, InRole,
     RowIsPaid, ClaimOwed, Owes, Busy, Kind, wallet, users, provider, locals, history,
     bounds
<1>29. ASSUME NEW j \in Invoices, ProviderRefunds(j) PROVE ClaimOwed'
  BY <1>29 DEF ProviderRefunds, IInv, TypeOK, LocalsType, HistoryType, MongoType, InRole,
     RowIsPaid, ClaimOwed, Owes, Busy, Kind, wallet, users, provider, locals, history,
     bounds
<1>30. CASE UNCHANGED vars
  BY <1>30 DEF vars, IInv, TypeOK, LocalsType, HistoryType, MongoType, InRole, RowIsPaid,
     ClaimOwed, Owes, Busy, Kind, wallet, users, provider, locals, history, bounds
<1> QED
  BY <1>1, <1>2, <1>3, <1>4, <1>5, <1>6, <1>7, <1>8, <1>9, <1>10, <1>11, <1>12, <1>13, <1>14,
     <1>15, <1>16, <1>17, <1>18, <1>19, <1>20, <1>21, <1>22, <1>23, <1>24, <1>25, <1>26,
     <1>27, <1>28, <1>29, <1>30 DEF Next, StartAny, StartWebhook, StartAdminRefund, Kind,
     Step, Pay, Refund, Environment

-----------------------------------------------------------------------------
(* A reversal is whole *)

\* Outside its loop a reversal has taken nothing.
LEMMA NothingGotStep ==
    ASSUME IInv, NothingGot, Next \/ UNCHANGED vars
    PROVE  NothingGot'
<1>1. ASSUME NEW h \in Handlers, NEW j \in Invoices, NEW k \in Kind, Start(h, k, j) PROVE
      NothingGot'
  BY <1>1 DEF Start, IInv, TypeOK, LocalsType, HistoryType, MongoType, NothingGot, Kind,
     Await, wallet, users, provider, locals, history, bounds
<1>2. ASSUME NEW h \in Handlers, ReadPayment(h) PROVE NothingGot'
  BY <1>2 DEF ReadPayment, GoesOn, AfterRead, Goto, Return, IInv, TypeOK, LocalsType,
     HistoryType, MongoType, NothingGot, Kind, Await, wallet, users, provider, locals,
     history, bounds
<1>3. ASSUME NEW h \in Handlers, CheckAccount(h) PROVE NothingGot'
  BY <1>3 DEF CheckAccount, Torndown, Goto, Return, Fault, IInv, TypeOK, LocalsType,
     HistoryType, MongoType, NothingGot, Kind, Await, wallet, users, provider, locals,
     history, bounds
<1>4. ASSUME NEW h \in Handlers, ClaimPay(h) PROVE NothingGot'
  BY <1>4 DEF ClaimPay, Goto, Return, IInv, TypeOK, LocalsType, HistoryType, MongoType,
     NothingGot, Kind, Await, wallet, users, provider, locals, history, bounds
<1>5. ASSUME NEW h \in Handlers, RecheckAccount(h) PROVE NothingGot'
  BY <1>5 DEF RecheckAccount, Torndown, Goto, Return, Fault, IInv, TypeOK, LocalsType,
     HistoryType, MongoType, NothingGot, Kind, Await, wallet, users, provider, locals,
     history, bounds
<1>6. ASSUME NEW h \in Handlers, ReadPackage(h) PROVE NothingGot'
  BY <1>6 DEF ReadPackage, Goto, Return, IInv, TypeOK, LocalsType, HistoryType, MongoType,
     NothingGot, Kind, Await, wallet, users, provider, locals, history, bounds
<1>7. ASSUME NEW h \in Handlers, FulfilCoins(h) PROVE NothingGot'
  BY <1>7 DEF FulfilCoins, Goto, Return, Fault, IInv, TypeOK, LocalsType, HistoryType,
     MongoType, NothingGot, Kind, Await, wallet, users, provider, locals, history, bounds
<1>8. ASSUME NEW h \in Handlers, CreditDuplicate(h) PROVE NothingGot'
  BY <1>8 DEF CreditDuplicate, Goto, Return, IInv, TypeOK, LocalsType, HistoryType, MongoType,
     NothingGot, Kind, Await, wallet, users, provider, locals, history, bounds
<1>9. ASSUME NEW h \in Handlers, CreditFails(h) PROVE NothingGot'
  BY <1>9 DEF CreditFails, Goto, Fault, IInv, TypeOK, LocalsType, HistoryType, MongoType,
     NothingGot, Kind, Await, wallet, users, provider, locals, history, bounds
<1>10. ASSUME NEW h \in Handlers, UndoClaim(h) PROVE NothingGot'
  BY <1>10 DEF UndoClaim, Return, IInv, TypeOK, LocalsType, HistoryType, MongoType,
     NothingGot, Kind, Await, wallet, users, provider, locals, history, bounds
<1>11. ASSUME NEW h \in Handlers, MarkFailed(h) PROVE NothingGot'
  BY <1>11 DEF MarkFailed, Return, IInv, TypeOK, LocalsType, HistoryType, MongoType,
     NothingGot, Kind, Await, wallet, users, provider, locals, history, bounds
<1>12. ASSUME NEW h \in Handlers, ClaimRefund(h) PROVE NothingGot'
  BY <1>12 DEF ClaimRefund, Goto, Return, IInv, TypeOK, LocalsType, HistoryType, MongoType,
     NothingGot, Kind, Await, wallet, users, provider, locals, history, bounds
<1>13. ASSUME NEW h \in Handlers, RefundUpstream(h) PROVE NothingGot'
  BY <1>13 DEF RefundUpstream, Goto, Return, IInv, TypeOK, LocalsType, HistoryType, MongoType,
     NothingGot, Kind, Await, wallet, users, provider, locals, history, bounds
<1>14. ASSUME NEW h \in Handlers, ClaimAdminRefund(h) PROVE NothingGot'
  BY <1>14 DEF ClaimAdminRefund, Goto, Return, IInv, TypeOK, LocalsType, HistoryType,
     MongoType, NothingGot, Kind, Await, wallet, users, provider, locals, history, bounds
<1>15. ASSUME NEW h \in Handlers, ReadBalance(h) PROVE NothingGot'
  BY <1>15 DEF ReadBalance, Goto, IInv, TypeOK, LocalsType, HistoryType, MongoType,
     NothingGot, Kind, Await, wallet, users, provider, locals, history, bounds
<1>16. ASSUME NEW h \in Handlers, ClawBack(h) PROVE NothingGot'
  BY <1>16 DEF ClawBack, Goto, Return, IInv, TypeOK, LocalsType, HistoryType, MongoType,
     NothingGot, Kind, Await, wallet, users, provider, locals, history, bounds
<1>17. ASSUME NEW h \in Handlers, ClawBackRaced(h) PROVE NothingGot'
  BY <1>17 DEF ClawBackRaced, Goto, IInv, TypeOK, LocalsType, HistoryType, MongoType,
     NothingGot, Kind, Await, wallet, users, provider, locals, history, bounds
<1>18. ASSUME NEW h \in Handlers, ClawBackDuplicate(h) PROVE NothingGot'
  BY <1>18 DEF ClawBackDuplicate, Goto, Return, IInv, TypeOK, LocalsType, HistoryType,
     MongoType, NothingGot, Kind, Await, wallet, users, provider, locals, history, bounds
<1>19. ASSUME NEW h \in Handlers, RecordDebt(h) PROVE NothingGot'
  BY <1>19 DEF RecordDebt, Return, IInv, TypeOK, LocalsType, HistoryType, MongoType,
     NothingGot, Kind, Await, wallet, users, provider, locals, history, bounds
<1>20. ASSUME NEW h \in Handlers, ReversalFails(h) PROVE NothingGot'
  BY <1>20 DEF ReversalFails, Return, Fault, IInv, TypeOK, LocalsType, HistoryType, MongoType,
     NothingGot, Kind, Await, wallet, users, provider, locals, history, bounds
<1>21. ASSUME NEW h \in Handlers, Crash(h) PROVE NothingGot'
  BY <1>21 DEF Crash, Return, Fault, IInv, TypeOK, LocalsType, HistoryType, MongoType,
     NothingGot, Kind, Await, wallet, users, provider, locals, history, bounds
<1>22. ASSUME Spend PROVE NothingGot'
  BY <1>22 DEF Spend, IInv, TypeOK, LocalsType, HistoryType, MongoType, NothingGot, Kind,
     Await, wallet, users, provider, locals, history, bounds
<1>23. ASSUME Earn PROVE NothingGot'
  BY <1>23 DEF Earn, IInv, TypeOK, LocalsType, HistoryType, MongoType, NothingGot, Kind,
     Await, wallet, users, provider, locals, history, bounds
<1>24. ASSUME EditPackage PROVE NothingGot'
  BY <1>24 DEF EditPackage, IInv, TypeOK, LocalsType, HistoryType, MongoType, NothingGot,
     Kind, Await, wallet, users, provider, locals, history, bounds
<1>25. ASSUME ChangeAccount PROVE NothingGot'
  BY <1>25 DEF ChangeAccount, IInv, TypeOK, LocalsType, HistoryType, MongoType, NothingGot,
     Kind, Await, wallet, users, provider, locals, history, bounds
<1>26. ASSUME ZeroWallet PROVE NothingGot'
  BY <1>26 DEF ZeroWallet, IInv, TypeOK, LocalsType, HistoryType, MongoType, NothingGot, Kind,
     Await, wallet, users, provider, locals, history, bounds
<1>27. ASSUME NEW j \in Invoices, ProviderDeclines(j) PROVE NothingGot'
  BY <1>27 DEF ProviderDeclines, IInv, TypeOK, LocalsType, HistoryType, MongoType, NothingGot,
     Kind, Await, wallet, users, provider, locals, history, bounds
<1>28. ASSUME NEW j \in Invoices, ProviderCharges(j) PROVE NothingGot'
  BY <1>28 DEF ProviderCharges, IInv, TypeOK, LocalsType, HistoryType, MongoType, NothingGot,
     Kind, Await, wallet, users, provider, locals, history, bounds
<1>29. ASSUME NEW j \in Invoices, ProviderRefunds(j) PROVE NothingGot'
  BY <1>29 DEF ProviderRefunds, IInv, TypeOK, LocalsType, HistoryType, MongoType, NothingGot,
     Kind, Await, wallet, users, provider, locals, history, bounds
<1>30. CASE UNCHANGED vars
  BY <1>30 DEF vars, IInv, TypeOK, LocalsType, HistoryType, MongoType, NothingGot, Kind,
     Await, wallet, users, provider, locals, history, bounds
<1> QED
  BY <1>1, <1>2, <1>3, <1>4, <1>5, <1>6, <1>7, <1>8, <1>9, <1>10, <1>11, <1>12, <1>13, <1>14,
     <1>15, <1>16, <1>17, <1>18, <1>19, <1>20, <1>21, <1>22, <1>23, <1>24, <1>25, <1>26,
     <1>27, <1>28, <1>29, <1>30 DEF Next, StartAny, StartWebhook, StartAdminRefund, Kind,
     Step, Pay, Refund, Environment

\* A step that leaves i's reversals where they are keeps them whole.
LEMMA WholeFrame ==
    ASSUME NEW i \in Invoices, Whole(i),
           runs'[i] = runs[i], taken'[i] = taken[i], due'[i] = due[i],
           i \notin heldRefs => i \notin heldRefs',
           \A m \in Nat : ClawRow(i, m) \in rows' => ClawRow(i, m) \in rows,
           \A g \in Handlers : Reverses(g, i)' <=> Reverses(g, i),
           \A g \in Handlers : Reverses(g, i) => got'[g] = got[g] /\ left'[g] = left[g]
    PROVE  Whole(i)'
<1>1. \A n : Untouched(i, n) => Untouched(i, n)'
  BY DEF Untouched
<1>2. ASSUME NEW g \in Handlers, Reverses(g, i)' PROVE UnderWay(g, i)'
  BY <1>1, <1>2 DEF UnderWay, Untouched, Whole
<1>3. \A h, g \in Handlers : Reverses(h, i)' /\ Reverses(g, i)' => h = g
  BY DEF Whole
<1> QED
  BY <1>1, <1>2, <1>3 DEF Whole

\* A reversal under way has what it took and what it has still to take in step.
LEMMA WholeStep ==
    ASSUME IInv, InRole, NothingGot, AllWhole, Next \/ UNCHANGED vars
    PROVE  AllWhole'
<1>1. ASSUME NEW h \in Handlers, NEW j \in Invoices, NEW k \in Kind, Start(h, k, j) PROVE
      AllWhole'
  <2> SUFFICES ASSUME NEW i \in Invoices, runs'[i] <= 1, Unbroken(i)' PROVE Whole(i)'
    BY DEF AllWhole
  <2>1. Unbroken(i) /\ runs' = runs /\ taken' = taken /\ due' = due /\ heldRefs' \subseteq heldRefs
    BY <1>1 DEF Unbroken, Start, HistoryType, IInv, TypeOK, wallet, users, provider, locals,
       history, bounds
  <2>2. \A m \in Nat : ClawRow(i, m) \in rows' => ClawRow(i, m) \in rows
    BY <1>1 DEF Start, wallet
  <2>3. \A g \in Handlers : Reverses(g, i)' <=> Reverses(g, i)
    BY <1>1, <2>1 DEF Start, Reverses, IInv, TypeOK, LocalsType, HistoryType, MongoType, Busy,
       Kind, Await, Fault, wallet, users, provider, locals, history, bounds
  <2>4. \A g \in Handlers : Reverses(g, i) => got'[g] = got[g] /\ left'[g] = left[g]
    BY <1>1 DEF Start, Reverses, IInv, TypeOK, LocalsType, HistoryType, MongoType, Busy, Kind,
       Await, wallet, users, provider, locals, history, bounds
  <2>5. Whole(i)
    BY <2>1 DEF AllWhole
  <2> QED
    BY <2>1, <2>2, <2>3, <2>4, <2>5, WholeFrame
<1>2. ASSUME NEW h \in Handlers, ReadPayment(h) PROVE AllWhole'
  <2> SUFFICES ASSUME NEW i \in Invoices, runs'[i] <= 1, Unbroken(i)' PROVE Whole(i)'
    BY DEF AllWhole
  <2>1. Unbroken(i) /\ runs' = runs /\ taken' = taken /\ due' = due /\ heldRefs' \subseteq heldRefs
    BY <1>2 DEF Unbroken, ReadPayment, GoesOn, AfterRead, Goto, Return, HistoryType, IInv,
       TypeOK, wallet, users, provider, locals, history, bounds
  <2>2. \A m \in Nat : ClawRow(i, m) \in rows' => ClawRow(i, m) \in rows
    BY <1>2 DEF ReadPayment, wallet
  <2>3. \A g \in Handlers : Reverses(g, i)' <=> Reverses(g, i)
    BY <1>2, <2>1 DEF ReadPayment, GoesOn, AfterRead, Goto, Return, Reverses, IInv, TypeOK,
       LocalsType, HistoryType, MongoType, Busy, Kind, Await, Fault, wallet, users,
       provider, locals, history, bounds
  <2>4. \A g \in Handlers : Reverses(g, i) => got'[g] = got[g] /\ left'[g] = left[g]
    BY <1>2 DEF ReadPayment, GoesOn, AfterRead, Goto, Return, Reverses, IInv, TypeOK, LocalsType,
       HistoryType, MongoType, Busy, Kind, Await, wallet, users, provider, locals, history,
       bounds
  <2>5. Whole(i)
    BY <2>1 DEF AllWhole
  <2> QED
    BY <2>1, <2>2, <2>3, <2>4, <2>5, WholeFrame
<1>3. ASSUME NEW h \in Handlers, CheckAccount(h) PROVE AllWhole'
  <2> SUFFICES ASSUME NEW i \in Invoices, runs'[i] <= 1, Unbroken(i)' PROVE Whole(i)'
    BY DEF AllWhole
  <2>1. Unbroken(i) /\ runs' = runs /\ taken' = taken /\ due' = due /\ heldRefs' \subseteq heldRefs
    BY <1>3 DEF Unbroken, CheckAccount, Torndown, Goto, Return, Fault, HistoryType, IInv,
       TypeOK, wallet, users, provider, locals, history, bounds
  <2>2. \A m \in Nat : ClawRow(i, m) \in rows' => ClawRow(i, m) \in rows
    BY <1>3 DEF CheckAccount, wallet
  <2>3. \A g \in Handlers : Reverses(g, i)' <=> Reverses(g, i)
    BY <1>3, <2>1 DEF CheckAccount, Torndown, Goto, Return, Reverses, IInv, TypeOK, LocalsType,
       HistoryType, MongoType, Busy, Kind, Await, Fault, wallet, users, provider, locals,
       history, bounds
  <2>4. \A g \in Handlers : Reverses(g, i) => got'[g] = got[g] /\ left'[g] = left[g]
    BY <1>3 DEF CheckAccount, Torndown, Goto, Return, Fault, Reverses, IInv, TypeOK, LocalsType,
       HistoryType, MongoType, Busy, Kind, Await, wallet, users, provider, locals, history,
       bounds
  <2>5. Whole(i)
    BY <2>1 DEF AllWhole
  <2> QED
    BY <2>1, <2>2, <2>3, <2>4, <2>5, WholeFrame
<1>4. ASSUME NEW h \in Handlers, ClaimPay(h) PROVE AllWhole'
  <2> SUFFICES ASSUME NEW i \in Invoices, runs'[i] <= 1, Unbroken(i)' PROVE Whole(i)'
    BY DEF AllWhole
  <2>1. Unbroken(i) /\ runs' = runs /\ taken' = taken /\ due' = due /\ heldRefs' \subseteq heldRefs
    BY <1>4 DEF Unbroken, ClaimPay, Goto, Return, HistoryType, IInv, TypeOK, wallet, users,
       provider, locals, history, bounds
  <2>2. \A m \in Nat : ClawRow(i, m) \in rows' => ClawRow(i, m) \in rows
    BY <1>4 DEF ClaimPay, wallet
  <2>3. \A g \in Handlers : Reverses(g, i)' <=> Reverses(g, i)
    BY <1>4, <2>1 DEF ClaimPay, Goto, Return, Reverses, IInv, TypeOK, LocalsType, HistoryType,
       MongoType, Busy, Kind, Await, Fault, wallet, users, provider, locals, history, bounds
  <2>4. \A g \in Handlers : Reverses(g, i) => got'[g] = got[g] /\ left'[g] = left[g]
    BY <1>4 DEF ClaimPay, Goto, Return, Reverses, IInv, TypeOK, LocalsType, HistoryType, MongoType,
       Busy, Kind, Await, wallet, users, provider, locals, history, bounds
  <2>5. Whole(i)
    BY <2>1 DEF AllWhole
  <2> QED
    BY <2>1, <2>2, <2>3, <2>4, <2>5, WholeFrame
<1>5. ASSUME NEW h \in Handlers, RecheckAccount(h) PROVE AllWhole'
  <2> SUFFICES ASSUME NEW i \in Invoices, runs'[i] <= 1, Unbroken(i)' PROVE Whole(i)'
    BY DEF AllWhole
  <2>1. Unbroken(i) /\ runs' = runs /\ taken' = taken /\ due' = due /\ heldRefs' \subseteq heldRefs
    BY <1>5 DEF Unbroken, RecheckAccount, Torndown, Goto, Return, Fault, HistoryType, IInv,
       TypeOK, wallet, users, provider, locals, history, bounds
  <2>2. \A m \in Nat : ClawRow(i, m) \in rows' => ClawRow(i, m) \in rows
    BY <1>5 DEF RecheckAccount, wallet
  <2>3. \A g \in Handlers : Reverses(g, i)' <=> Reverses(g, i)
    BY <1>5, <2>1 DEF RecheckAccount, Torndown, Goto, Return, Reverses, IInv, TypeOK, LocalsType,
       HistoryType, MongoType, Busy, Kind, Await, Fault, wallet, users, provider, locals,
       history, bounds
  <2>4. \A g \in Handlers : Reverses(g, i) => got'[g] = got[g] /\ left'[g] = left[g]
    BY <1>5 DEF RecheckAccount, Torndown, Goto, Return, Fault, Reverses, IInv, TypeOK, LocalsType,
       HistoryType, MongoType, Busy, Kind, Await, wallet, users, provider, locals, history,
       bounds
  <2>5. Whole(i)
    BY <2>1 DEF AllWhole
  <2> QED
    BY <2>1, <2>2, <2>3, <2>4, <2>5, WholeFrame
<1>6. ASSUME NEW h \in Handlers, ReadPackage(h) PROVE AllWhole'
  <2> SUFFICES ASSUME NEW i \in Invoices, runs'[i] <= 1, Unbroken(i)' PROVE Whole(i)'
    BY DEF AllWhole
  <2>1. /\ inv[h] \in Invoices /\ pc[h] = "package" /\ got[h] = 0
        /\ Unbroken(i) /\ taken' = taken /\ heldRefs' = heldRefs /\ rows' = rows
        /\ got'[h] = 0
    BY <1>6 DEF Unbroken, ReadPackage, Goto, Return, IInv, Busy, TypeOK, LocalsType,
       HistoryType, NothingGot, locals, bounds, wallet
  <2>2. runs \in [Invoices -> Nat] /\ due \in [Invoices -> Nat]
    BY DEF IInv, TypeOK, HistoryType
  <2>3. ASSUME NEW g \in Handlers, g # h
        PROVE  /\ Reverses(g, i)' <=> Reverses(g, i)
               /\ got'[g] = got[g] /\ left'[g] = left[g]
    BY <1>6, <2>3 DEF ReadPackage, Goto, Return, Reverses, IInv, TypeOK, LocalsType, locals
  <2>4. CASE i # inv[h] \/ kind[h] = "pay" \/ ~(pack > 0)
    <3>1. ~Reverses(h, i) /\ ~Reverses(h, i)'
      BY <1>6, <2>1, <2>4 DEF ReadPackage, Goto, Return, Reverses, IInv, TypeOK, LocalsType, locals
    <3>2. runs'[i] = runs[i] /\ due'[i] = due[i]
      BY <1>6, <2>1, <2>2, <2>4 DEF ReadPackage
    <3>3. Whole(i)
      BY <2>1, <3>2 DEF AllWhole
    <3> QED
      BY <2>1, <2>3, <3>1, <3>2, <3>3, WholeFrame
  <2>5. CASE i = inv[h] /\ kind[h] # "pay" /\ pack > 0
    <3>1. /\ runs'[i] = runs[i] + 1 /\ due'[i] = pack /\ left'[h] = pack
          /\ inv'[h] = i /\ pc'[h] = "balance"
      BY <1>6, <2>2, <2>5 DEF ReadPackage, Goto, IInv, TypeOK, LocalsType
    <3>2. runs[i] = 0 /\ Whole(i)
      BY <2>1, <2>2, <3>1 DEF AllWhole
    <3>3. taken[i] = 0 /\ Untouched(i, 0) /\ \A g \in Handlers : ~Reverses(g, i)
      BY <3>2 DEF Whole, UnderWay
    <3>4. pack \in Nat
      BY PackAssumption DEF IInv, TypeOK, MongoType
    <3>5. UnderWay(h, i)'
      BY <2>1, <3>1, <3>2, <3>3, <3>4 DEF UnderWay, Untouched
    <3>6. \A g \in Handlers : g # h => ~Reverses(g, i)'
      BY <2>3, <3>3
    <3>7. Reverses(h, i)'
      BY <3>1 DEF Reverses
    <3> QED
      BY <3>1, <3>2, <3>5, <3>6, <3>7 DEF Whole
  <2> QED
    BY <2>4, <2>5
<1>7. ASSUME NEW h \in Handlers, FulfilCoins(h) PROVE AllWhole'
  <2> SUFFICES ASSUME NEW i \in Invoices, runs'[i] <= 1, Unbroken(i)' PROVE Whole(i)'
    BY DEF AllWhole
  <2>1. Unbroken(i) /\ runs' = runs /\ taken' = taken /\ due' = due /\ heldRefs' \subseteq heldRefs
    BY <1>7, CreditRows DEF Unbroken, FulfilCoins, Goto, Return, Fault, HistoryType, IInv,
       TypeOK, wallet, users, provider, locals, history, bounds
  <2>2. \A m \in Nat : ClawRow(i, m) \in rows' => ClawRow(i, m) \in rows
    BY <1>7, CreditRows, RowFacts DEF FulfilCoins
  <2>3. \A g \in Handlers : Reverses(g, i)' <=> Reverses(g, i)
    BY <1>7, <2>1 DEF FulfilCoins, Goto, Return, Reverses, IInv, TypeOK, LocalsType, HistoryType,
       MongoType, Busy, Kind, Await, Fault, wallet, users, provider, locals, history, bounds
  <2>4. \A g \in Handlers : Reverses(g, i) => got'[g] = got[g] /\ left'[g] = left[g]
    BY <1>7 DEF FulfilCoins, Goto, Return, Fault, Reverses, IInv, TypeOK, LocalsType, HistoryType,
       MongoType, Busy, Kind, Await, wallet, users, provider, locals, history, bounds
  <2>5. Whole(i)
    BY <2>1 DEF AllWhole
  <2> QED
    BY <2>1, <2>2, <2>3, <2>4, <2>5, WholeFrame
<1>8. ASSUME NEW h \in Handlers, CreditDuplicate(h) PROVE AllWhole'
  <2> SUFFICES ASSUME NEW i \in Invoices, runs'[i] <= 1, Unbroken(i)' PROVE Whole(i)'
    BY DEF AllWhole
  <2>1. Unbroken(i) /\ runs' = runs /\ taken' = taken /\ due' = due /\ heldRefs' \subseteq heldRefs
    BY <1>8 DEF Unbroken, CreditDuplicate, Goto, Return, HistoryType, IInv, TypeOK, wallet,
       users, provider, locals, history, bounds
  <2>2. \A m \in Nat : ClawRow(i, m) \in rows' => ClawRow(i, m) \in rows
    BY <1>8 DEF CreditDuplicate, wallet
  <2>3. \A g \in Handlers : Reverses(g, i)' <=> Reverses(g, i)
    BY <1>8, <2>1 DEF CreditDuplicate, Goto, Return, Reverses, IInv, TypeOK, LocalsType,
       HistoryType, MongoType, Busy, Kind, Await, Fault, wallet, users, provider, locals,
       history, bounds
  <2>4. \A g \in Handlers : Reverses(g, i) => got'[g] = got[g] /\ left'[g] = left[g]
    BY <1>8 DEF CreditDuplicate, Goto, Return, Reverses, IInv, TypeOK, LocalsType, HistoryType,
       MongoType, Busy, Kind, Await, wallet, users, provider, locals, history, bounds
  <2>5. Whole(i)
    BY <2>1 DEF AllWhole
  <2> QED
    BY <2>1, <2>2, <2>3, <2>4, <2>5, WholeFrame
<1>9. ASSUME NEW h \in Handlers, CreditFails(h) PROVE AllWhole'
  <2> SUFFICES ASSUME NEW i \in Invoices, runs'[i] <= 1, Unbroken(i)' PROVE Whole(i)'
    BY DEF AllWhole
  <2>1. Unbroken(i) /\ runs' = runs /\ taken' = taken /\ due' = due /\ heldRefs' \subseteq heldRefs
    BY <1>9 DEF Unbroken, CreditFails, Goto, Fault, HistoryType, IInv, TypeOK, wallet, users,
       provider, locals, history, bounds
  <2>2. \A m \in Nat : ClawRow(i, m) \in rows' => ClawRow(i, m) \in rows
    BY <1>9 DEF CreditFails, wallet
  <2>3. \A g \in Handlers : Reverses(g, i)' <=> Reverses(g, i)
    BY <1>9, <2>1 DEF CreditFails, Goto, Fault, Reverses, IInv, TypeOK, LocalsType, HistoryType,
       MongoType, Busy, Kind, Await, Fault, wallet, users, provider, locals, history, bounds
  <2>4. \A g \in Handlers : Reverses(g, i) => got'[g] = got[g] /\ left'[g] = left[g]
    BY <1>9 DEF CreditFails, Goto, Fault, Reverses, IInv, TypeOK, LocalsType, HistoryType,
       MongoType,
       Busy, Kind, Await, wallet, users, provider, locals, history, bounds
  <2>5. Whole(i)
    BY <2>1 DEF AllWhole
  <2> QED
    BY <2>1, <2>2, <2>3, <2>4, <2>5, WholeFrame
<1>10. ASSUME NEW h \in Handlers, UndoClaim(h) PROVE AllWhole'
  <2> SUFFICES ASSUME NEW i \in Invoices, runs'[i] <= 1, Unbroken(i)' PROVE Whole(i)'
    BY DEF AllWhole
  <2>1. Unbroken(i) /\ runs' = runs /\ taken' = taken /\ due' = due /\ heldRefs' \subseteq heldRefs
    BY <1>10 DEF Unbroken, UndoClaim, Return, HistoryType, IInv, TypeOK, wallet, users,
       provider, locals, history, bounds
  <2>2. \A m \in Nat : ClawRow(i, m) \in rows' => ClawRow(i, m) \in rows
    BY <1>10 DEF UndoClaim, wallet
  <2>3. \A g \in Handlers : Reverses(g, i)' <=> Reverses(g, i)
    BY <1>10, <2>1 DEF UndoClaim, Return, Reverses, IInv, TypeOK, LocalsType, HistoryType,
       MongoType, Busy, Kind, Await, Fault, wallet, users, provider, locals, history, bounds
  <2>4. \A g \in Handlers : Reverses(g, i) => got'[g] = got[g] /\ left'[g] = left[g]
    BY <1>10 DEF UndoClaim, Return, Reverses, IInv, TypeOK, LocalsType, HistoryType, MongoType,
       Busy, Kind, Await, wallet, users, provider, locals, history, bounds
  <2>5. Whole(i)
    BY <2>1 DEF AllWhole
  <2> QED
    BY <2>1, <2>2, <2>3, <2>4, <2>5, WholeFrame
<1>11. ASSUME NEW h \in Handlers, MarkFailed(h) PROVE AllWhole'
  <2> SUFFICES ASSUME NEW i \in Invoices, runs'[i] <= 1, Unbroken(i)' PROVE Whole(i)'
    BY DEF AllWhole
  <2>1. Unbroken(i) /\ runs' = runs /\ taken' = taken /\ due' = due /\ heldRefs' \subseteq heldRefs
    BY <1>11 DEF Unbroken, MarkFailed, Return, HistoryType, IInv, TypeOK, wallet, users,
       provider, locals, history, bounds
  <2>2. \A m \in Nat : ClawRow(i, m) \in rows' => ClawRow(i, m) \in rows
    BY <1>11 DEF MarkFailed, wallet
  <2>3. \A g \in Handlers : Reverses(g, i)' <=> Reverses(g, i)
    BY <1>11, <2>1 DEF MarkFailed, Return, Reverses, IInv, TypeOK, LocalsType, HistoryType,
       MongoType, Busy, Kind, Await, Fault, wallet, users, provider, locals, history, bounds
  <2>4. \A g \in Handlers : Reverses(g, i) => got'[g] = got[g] /\ left'[g] = left[g]
    BY <1>11 DEF MarkFailed, Return, Reverses, IInv, TypeOK, LocalsType, HistoryType, MongoType,
       Busy, Kind, Await, wallet, users, provider, locals, history, bounds
  <2>5. Whole(i)
    BY <2>1 DEF AllWhole
  <2> QED
    BY <2>1, <2>2, <2>3, <2>4, <2>5, WholeFrame
<1>12. ASSUME NEW h \in Handlers, ClaimRefund(h) PROVE AllWhole'
  <2> SUFFICES ASSUME NEW i \in Invoices, runs'[i] <= 1, Unbroken(i)' PROVE Whole(i)'
    BY DEF AllWhole
  <2>1. Unbroken(i) /\ runs' = runs /\ taken' = taken /\ due' = due /\ heldRefs' \subseteq heldRefs
    BY <1>12 DEF Unbroken, ClaimRefund, Goto, Return, HistoryType, IInv, TypeOK, wallet, users,
       provider, locals, history, bounds
  <2>2. \A m \in Nat : ClawRow(i, m) \in rows' => ClawRow(i, m) \in rows
    BY <1>12 DEF ClaimRefund, wallet
  <2>3. \A g \in Handlers : Reverses(g, i)' <=> Reverses(g, i)
    BY <1>12, <2>1 DEF ClaimRefund, Goto, Return, Reverses, IInv, TypeOK, LocalsType, HistoryType,
       MongoType, Busy, Kind, Await, Fault, wallet, users, provider, locals, history, bounds
  <2>4. \A g \in Handlers : Reverses(g, i) => got'[g] = got[g] /\ left'[g] = left[g]
    BY <1>12 DEF ClaimRefund, Goto, Return, Reverses, IInv, TypeOK, LocalsType, HistoryType,
       MongoType, Busy, Kind, Await, wallet, users, provider, locals, history, bounds
  <2>5. Whole(i)
    BY <2>1 DEF AllWhole
  <2> QED
    BY <2>1, <2>2, <2>3, <2>4, <2>5, WholeFrame
<1>13. ASSUME NEW h \in Handlers, RefundUpstream(h) PROVE AllWhole'
  <2> SUFFICES ASSUME NEW i \in Invoices, runs'[i] <= 1, Unbroken(i)' PROVE Whole(i)'
    BY DEF AllWhole
  <2>1. Unbroken(i) /\ runs' = runs /\ taken' = taken /\ due' = due /\ heldRefs' \subseteq heldRefs
    BY <1>13 DEF Unbroken, RefundUpstream, Goto, Return, HistoryType, IInv, TypeOK, wallet,
       users, provider, locals, history, bounds
  <2>2. \A m \in Nat : ClawRow(i, m) \in rows' => ClawRow(i, m) \in rows
    BY <1>13 DEF RefundUpstream, wallet
  <2>3. \A g \in Handlers : Reverses(g, i)' <=> Reverses(g, i)
    BY <1>13, <2>1 DEF RefundUpstream, Goto, Return, Reverses, IInv, TypeOK, LocalsType,
       HistoryType, MongoType, Busy, Kind, Await, Fault, wallet, users, provider, locals,
       history, bounds
  <2>4. \A g \in Handlers : Reverses(g, i) => got'[g] = got[g] /\ left'[g] = left[g]
    BY <1>13 DEF RefundUpstream, Goto, Return, Reverses, IInv, TypeOK, LocalsType, HistoryType,
       MongoType, Busy, Kind, Await, wallet, users, provider, locals, history, bounds
  <2>5. Whole(i)
    BY <2>1 DEF AllWhole
  <2> QED
    BY <2>1, <2>2, <2>3, <2>4, <2>5, WholeFrame
<1>14. ASSUME NEW h \in Handlers, ClaimAdminRefund(h) PROVE AllWhole'
  <2> SUFFICES ASSUME NEW i \in Invoices, runs'[i] <= 1, Unbroken(i)' PROVE Whole(i)'
    BY DEF AllWhole
  <2>1. Unbroken(i) /\ runs' = runs /\ taken' = taken /\ due' = due /\ heldRefs' \subseteq heldRefs
    BY <1>14 DEF Unbroken, ClaimAdminRefund, Goto, Return, HistoryType, IInv, TypeOK, wallet,
       users, provider, locals, history, bounds
  <2>2. \A m \in Nat : ClawRow(i, m) \in rows' => ClawRow(i, m) \in rows
    BY <1>14 DEF ClaimAdminRefund, wallet
  <2>3. \A g \in Handlers : Reverses(g, i)' <=> Reverses(g, i)
    BY <1>14, <2>1 DEF ClaimAdminRefund, Goto, Return, Reverses, IInv, TypeOK, LocalsType,
       HistoryType, MongoType, Busy, Kind, Await, Fault, wallet, users, provider, locals,
       history, bounds
  <2>4. \A g \in Handlers : Reverses(g, i) => got'[g] = got[g] /\ left'[g] = left[g]
    BY <1>14 DEF ClaimAdminRefund, Goto, Return, Reverses, IInv, TypeOK, LocalsType, HistoryType,
       MongoType, Busy, Kind, Await, wallet, users, provider, locals, history, bounds
  <2>5. Whole(i)
    BY <2>1 DEF AllWhole
  <2> QED
    BY <2>1, <2>2, <2>3, <2>4, <2>5, WholeFrame
<1>15. ASSUME NEW h \in Handlers, ReadBalance(h) PROVE AllWhole'
  <2> SUFFICES ASSUME NEW i \in Invoices, runs'[i] <= 1, Unbroken(i)' PROVE Whole(i)'
    BY DEF AllWhole
  <2>1. Unbroken(i) /\ runs' = runs /\ taken' = taken /\ due' = due /\ heldRefs' \subseteq heldRefs
    BY <1>15 DEF Unbroken, ReadBalance, Goto, HistoryType, IInv, TypeOK, wallet, users,
       provider, locals, history, bounds
  <2>2. \A m \in Nat : ClawRow(i, m) \in rows' => ClawRow(i, m) \in rows
    BY <1>15 DEF ReadBalance, wallet
  <2>3. \A g \in Handlers : Reverses(g, i)' <=> Reverses(g, i)
    BY <1>15, <2>1 DEF ReadBalance, Goto, Reverses, IInv, TypeOK, LocalsType, HistoryType,
       MongoType, Busy, Kind, Await, Fault, wallet, users, provider, locals, history, bounds
  <2>4. \A g \in Handlers : Reverses(g, i) => got'[g] = got[g] /\ left'[g] = left[g]
    BY <1>15 DEF ReadBalance, Goto, Reverses, IInv, TypeOK, LocalsType, HistoryType, MongoType,
       Busy, Kind, Await, wallet, users, provider, locals, history, bounds
  <2>5. Whole(i)
    BY <2>1 DEF AllWhole
  <2> QED
    BY <2>1, <2>2, <2>3, <2>4, <2>5, WholeFrame
<1>16. ASSUME NEW h \in Handlers, ClawBack(h) PROVE AllWhole'
  <2> SUFFICES ASSUME NEW i \in Invoices, runs'[i] <= 1, Unbroken(i)' PROVE Whole(i)'
    BY DEF AllWhole
  <2>1. /\ inv[h] \in Invoices /\ pc[h] = "debit"
        /\ Unbroken(i) /\ runs' = runs /\ due' = due
        /\ left[h] \in Nat /\ got[h] \in Nat /\ want[h] \in Nat
    BY <1>16 DEF Unbroken, ClawBack, IInv, Busy, TypeOK, LocalsType, HistoryType, history,
       bounds
  <2>2. Whole(i) /\ runs[i] \in Nat /\ taken \in [Invoices -> Nat] /\ due[i] \in Nat
    BY <2>1 DEF AllWhole, IInv, TypeOK, HistoryType
  <2>3. ASSUME NEW g \in Handlers, g # h
        PROVE  /\ Reverses(g, i)' <=> Reverses(g, i)
               /\ got'[g] = got[g] /\ left'[g] = left[g]
    BY <1>16, <2>1, <2>3 DEF ClawBack, Goto, Return, Reverses, IInv, TypeOK, LocalsType, locals
  <2>4. CASE i # inv[h]
    <3>1. ~Reverses(h, i) /\ ~Reverses(h, i)'
      BY <1>16, <2>1, <2>4 DEF ClawBack, Goto, Return, Reverses, IInv, TypeOK, LocalsType, locals
    <3>2. i \notin heldRefs => i \notin heldRefs'
      BY <1>16, <2>4 DEF ClawBack, wallet
    <3>3. \A m \in Nat : ClawRow(i, m) \in rows' => ClawRow(i, m) \in rows
      BY <1>16, <2>4, RowFacts DEF ClawBack, wallet
    <3>4. taken'[i] = taken[i]
      BY <1>16, <2>1, <2>2, <2>4 DEF ClawBack, history
    <3> QED
      BY <2>1, <2>2, <2>3, <3>1, <3>2, <3>3, <3>4, WholeFrame
  <2>5. i = inv[h] => /\ UnderWay(h, i)
                     /\ \A g \in Handlers : g # h => ~Reverses(g, i) /\ ~Reverses(g, i)'
    BY <2>1, <2>2, <2>3 DEF Whole, Reverses
  <2>6. CASE i = inv[h] /\ left[h] = want[h]
    <3>1. ~Reverses(h, i)'
      BY <1>16, <2>6 DEF ClawBack, Return, Reverses, IInv, TypeOK, LocalsType
    <3>2. taken'[i] = taken[i] + want[h]
      BY <1>16, <2>1, <2>2, <2>6 DEF ClawBack
    <3>3. taken'[i] = due'[i] /\ runs'[i] = 1
      BY <2>1, <2>2, <2>5, <2>6, <3>2 DEF UnderWay
    <3>4. \A g \in Handlers : ~Reverses(g, i)'
      BY <2>5, <2>6, <3>1
    <3> QED
      BY <3>3, <3>4 DEF Whole
  <2>7. CASE i = inv[h] /\ left[h] # want[h]
    <3>1. /\ got'[h] = got[h] + want[h] /\ left'[h] = left[h] - want[h]
          /\ want[h] > 0 /\ taken'[i] = taken[i] + want[h]
          /\ rows' = rows \cup {ClawRow(i, got[h])} /\ heldRefs' = heldRefs
      BY <1>16, <2>1, <2>2, <2>7 DEF ClawBack, IInv, TypeOK, LocalsType, Busy
    <3>2. i \notin heldRefs' /\ \A m \in Nat : ClawRow(i, m) \in rows' => m < got'[h]
      BY <2>1, <2>5, <2>7, <3>1, RowFacts DEF UnderWay, Untouched
    <3>3. UnderWay(h, i)'
      BY <2>1, <2>2, <2>5, <2>7, <3>1, <3>2 DEF UnderWay, Untouched
    <3>4. Reverses(h, i)'
      BY <1>16, <2>1, <2>7 DEF ClawBack, Goto, Reverses, IInv, TypeOK, LocalsType
    <3> QED
      BY <2>1, <2>5, <2>7, <3>3, <3>4 DEF Whole, UnderWay
  <2> QED
    BY <2>4, <2>6, <2>7
<1>17. ASSUME NEW h \in Handlers, ClawBackRaced(h) PROVE AllWhole'
  <2> SUFFICES ASSUME NEW i \in Invoices, runs'[i] <= 1, Unbroken(i)' PROVE Whole(i)'
    BY DEF AllWhole
  <2>1. Unbroken(i) /\ runs' = runs /\ taken' = taken /\ due' = due /\ heldRefs' \subseteq heldRefs
    BY <1>17 DEF Unbroken, ClawBackRaced, Goto, HistoryType, IInv, TypeOK, wallet, users,
       provider, locals, history, bounds
  <2>2. \A m \in Nat : ClawRow(i, m) \in rows' => ClawRow(i, m) \in rows
    BY <1>17 DEF ClawBackRaced, wallet
  <2>3. \A g \in Handlers : Reverses(g, i)' <=> Reverses(g, i)
    BY <1>17, <2>1 DEF ClawBackRaced, Goto, Reverses, IInv, TypeOK, LocalsType, HistoryType,
       MongoType, Busy, Kind, Await, Fault, wallet, users, provider, locals, history, bounds
  <2>4. \A g \in Handlers : Reverses(g, i) => got'[g] = got[g] /\ left'[g] = left[g]
    BY <1>17 DEF ClawBackRaced, Goto, Reverses, IInv, TypeOK, LocalsType, HistoryType, MongoType,
       Busy, Kind, Await, wallet, users, provider, locals, history, bounds
  <2>5. Whole(i)
    BY <2>1 DEF AllWhole
  <2> QED
    BY <2>1, <2>2, <2>3, <2>4, <2>5, WholeFrame
<1>18. ASSUME NEW h \in Handlers, ClawBackDuplicate(h) PROVE AllWhole'
  <2> SUFFICES ASSUME NEW i \in Invoices, runs'[i] <= 1, Unbroken(i)' PROVE Whole(i)'
    BY DEF AllWhole
  <2>1. /\ inv[h] \in Invoices /\ pc[h] = "debit"
        /\ Unbroken(i) /\ runs' = runs /\ due' = due
        /\ left[h] \in Nat /\ got[h] \in Nat /\ want[h] \in Nat
    BY <1>18 DEF Unbroken, ClawBackDuplicate, IInv, Busy, TypeOK, LocalsType, HistoryType,
       history, bounds
  <2>2. Whole(i) /\ runs[i] \in Nat /\ taken \in [Invoices -> Nat] /\ due[i] \in Nat
    BY <2>1 DEF AllWhole, IInv, TypeOK, HistoryType
  <2>3. ASSUME NEW g \in Handlers, g # h
        PROVE  /\ Reverses(g, i)' <=> Reverses(g, i)
               /\ got'[g] = got[g] /\ left'[g] = left[g]
    BY <1>18, <2>1, <2>3 DEF ClawBackDuplicate, Goto, Return, Reverses, IInv, TypeOK, LocalsType,
       locals
  <2>4. CASE i # inv[h]
    <3>1. ~Reverses(h, i) /\ ~Reverses(h, i)'
      BY <1>18, <2>1, <2>4 DEF ClawBackDuplicate, Goto, Return, Reverses, IInv, TypeOK, LocalsType,
         locals
    <3>2. i \notin heldRefs => i \notin heldRefs'
      BY <1>18, <2>4 DEF ClawBackDuplicate, wallet
    <3>3. \A m \in Nat : ClawRow(i, m) \in rows' => ClawRow(i, m) \in rows
      BY <1>18, <2>4, RowFacts DEF ClawBackDuplicate, wallet
    <3>4. taken'[i] = taken[i]
      BY <1>18, <2>1, <2>2, <2>4 DEF ClawBackDuplicate, history
    <3> QED
      BY <2>1, <2>2, <2>3, <3>1, <3>2, <3>3, <3>4, WholeFrame
  <2>5. i = inv[h] => /\ UnderWay(h, i)
                     /\ \A g \in Handlers : g # h => ~Reverses(g, i) /\ ~Reverses(g, i)'
    BY <2>1, <2>2, <2>3 DEF Whole, Reverses
  <2>6. i # inv[h]
    BY <1>18, <2>1, <2>5 DEF ClawBackDuplicate, UnderWay, Untouched
  <2> QED
    BY <2>4, <2>6
<1>19. ASSUME NEW h \in Handlers, RecordDebt(h) PROVE AllWhole'
  <2> SUFFICES ASSUME NEW i \in Invoices, runs'[i] <= 1, Unbroken(i)' PROVE Whole(i)'
    BY DEF AllWhole
  <2>1. /\ inv[h] \in Invoices /\ pc[h] = "hold"
        /\ Unbroken(i) /\ runs' = runs /\ due' = due
        /\ left[h] \in Nat /\ got[h] \in Nat /\ want[h] \in Nat
    BY <1>19 DEF Unbroken, RecordDebt, IInv, Busy, TypeOK, LocalsType, HistoryType, history,
       bounds
  <2>2. Whole(i) /\ runs[i] \in Nat /\ taken \in [Invoices -> Nat] /\ due[i] \in Nat
    BY <2>1 DEF AllWhole, IInv, TypeOK, HistoryType
  <2>3. ASSUME NEW g \in Handlers, g # h
        PROVE  /\ Reverses(g, i)' <=> Reverses(g, i)
               /\ got'[g] = got[g] /\ left'[g] = left[g]
    BY <1>19, <2>1, <2>3 DEF RecordDebt, Return, Reverses, IInv, TypeOK, LocalsType, locals
  <2>4. CASE i # inv[h]
    <3>1. ~Reverses(h, i) /\ ~Reverses(h, i)'
      BY <1>19, <2>1, <2>4 DEF RecordDebt, Return, Reverses, IInv, TypeOK, LocalsType, locals
    <3>2. i \notin heldRefs => i \notin heldRefs'
      BY <1>19, <2>4 DEF RecordDebt, wallet
    <3>3. \A m \in Nat : ClawRow(i, m) \in rows' => ClawRow(i, m) \in rows
      BY <1>19, <2>4, RowFacts DEF RecordDebt, wallet
    <3>4. taken'[i] = taken[i]
      BY <1>19, <2>1, <2>2, <2>4 DEF RecordDebt, history
    <3> QED
      BY <2>1, <2>2, <2>3, <3>1, <3>2, <3>3, <3>4, WholeFrame
  <2>5. i = inv[h] => /\ UnderWay(h, i)
                     /\ \A g \in Handlers : g # h => ~Reverses(g, i) /\ ~Reverses(g, i)'
    BY <2>1, <2>2, <2>3 DEF Whole, Reverses
  <2>6. CASE i = inv[h]
    <3>1. ~Reverses(h, i)'
      BY <1>19, <2>6 DEF RecordDebt, Return, Reverses, IInv, TypeOK, LocalsType
    <3>2. taken'[i] = taken[i] + left[h]
      BY <1>19, <2>1, <2>2, <2>5, <2>6 DEF RecordDebt, UnderWay, Untouched
    <3>3. taken'[i] = due'[i] /\ runs'[i] = 1
      BY <2>1, <2>2, <2>5, <2>6, <3>2 DEF UnderWay
    <3>4. \A g \in Handlers : ~Reverses(g, i)'
      BY <2>5, <2>6, <3>1
    <3> QED
      BY <3>3, <3>4 DEF Whole
  <2> QED
    BY <2>4, <2>6
<1>20. ASSUME NEW h \in Handlers, ReversalFails(h) PROVE AllWhole'
  <2> SUFFICES ASSUME NEW i \in Invoices, runs'[i] <= 1, Unbroken(i)' PROVE Whole(i)'
    BY DEF AllWhole
  <2>1. Unbroken(i) /\ runs' = runs /\ taken' = taken /\ due' = due /\ heldRefs' \subseteq heldRefs
    BY <1>20 DEF Unbroken, ReversalFails, wallet
  <2>2. \A m \in Nat : ClawRow(i, m) \in rows' => ClawRow(i, m) \in rows
    BY <1>20 DEF ReversalFails, wallet
  <2>3. ~Reverses(h, i) /\ ~Reverses(h, i)'
    BY <1>20 DEF ReversalFails, Return, Reverses, Unbroken, InRole, IInv, TypeOK, LocalsType
  <2>4. \A g \in Handlers : Reverses(g, i)' <=> Reverses(g, i)
    BY <1>20, <2>3 DEF ReversalFails, Return, Reverses, IInv, TypeOK, LocalsType
  <2>5. \A g \in Handlers : Reverses(g, i) => got'[g] = got[g] /\ left'[g] = left[g]
    BY <1>20, <2>3 DEF ReversalFails, Return, Reverses, IInv, TypeOK, LocalsType
  <2>6. Whole(i)
    BY <2>1 DEF AllWhole
  <2> QED
    BY <2>1, <2>2, <2>4, <2>5, <2>6, WholeFrame
<1>21. ASSUME NEW h \in Handlers, Crash(h) PROVE AllWhole'
  <2> SUFFICES ASSUME NEW i \in Invoices, runs'[i] <= 1, Unbroken(i)' PROVE Whole(i)'
    BY DEF AllWhole
  <2>1. Unbroken(i) /\ runs' = runs /\ taken' = taken /\ due' = due /\ heldRefs' \subseteq heldRefs
    BY <1>21 DEF Unbroken, Crash, wallet
  <2>2. \A m \in Nat : ClawRow(i, m) \in rows' => ClawRow(i, m) \in rows
    BY <1>21 DEF Crash, wallet
  <2>3. ~Reverses(h, i) /\ ~Reverses(h, i)'
    BY <1>21 DEF Crash, Return, Reverses, Unbroken, InRole, IInv, TypeOK, LocalsType
  <2>4. \A g \in Handlers : Reverses(g, i)' <=> Reverses(g, i)
    BY <1>21, <2>3 DEF Crash, Return, Reverses, IInv, TypeOK, LocalsType
  <2>5. \A g \in Handlers : Reverses(g, i) => got'[g] = got[g] /\ left'[g] = left[g]
    BY <1>21, <2>3 DEF Crash, Return, Reverses, IInv, TypeOK, LocalsType
  <2>6. Whole(i)
    BY <2>1 DEF AllWhole
  <2> QED
    BY <2>1, <2>2, <2>4, <2>5, <2>6, WholeFrame
<1>22. ASSUME Spend PROVE AllWhole'
  <2> SUFFICES ASSUME NEW i \in Invoices, runs'[i] <= 1, Unbroken(i)' PROVE Whole(i)'
    BY DEF AllWhole
  <2>1. Unbroken(i) /\ runs' = runs /\ taken' = taken /\ due' = due /\ heldRefs' \subseteq heldRefs
    BY <1>22 DEF Unbroken, Spend, HistoryType, IInv, TypeOK, wallet, users, provider, locals,
       history, bounds
  <2>2. \A m \in Nat : ClawRow(i, m) \in rows' => ClawRow(i, m) \in rows
    BY <1>22 DEF Spend, wallet
  <2>3. \A g \in Handlers : Reverses(g, i)' <=> Reverses(g, i)
    BY <1>22, <2>1 DEF Spend, Reverses, IInv, TypeOK, LocalsType, HistoryType, MongoType, Busy,
       Kind, Await, Fault, wallet, users, provider, locals, history, bounds
  <2>4. \A g \in Handlers : Reverses(g, i) => got'[g] = got[g] /\ left'[g] = left[g]
    BY <1>22 DEF Spend, Reverses, IInv, TypeOK, LocalsType, HistoryType, MongoType, Busy, Kind,
       Await, wallet, users, provider, locals, history, bounds
  <2>5. Whole(i)
    BY <2>1 DEF AllWhole
  <2> QED
    BY <2>1, <2>2, <2>3, <2>4, <2>5, WholeFrame
<1>23. ASSUME Earn PROVE AllWhole'
  <2> SUFFICES ASSUME NEW i \in Invoices, runs'[i] <= 1, Unbroken(i)' PROVE Whole(i)'
    BY DEF AllWhole
  <2>1. Unbroken(i) /\ runs' = runs /\ taken' = taken /\ due' = due /\ heldRefs' \subseteq heldRefs
    BY <1>23, CreditRows DEF Unbroken, Earn, HistoryType, IInv, TypeOK, wallet, users,
       provider, locals, history, bounds
  <2>2. \A m \in Nat : ClawRow(i, m) \in rows' => ClawRow(i, m) \in rows
    BY <1>23, CreditRows, RowFacts DEF Earn
  <2>3. \A g \in Handlers : Reverses(g, i)' <=> Reverses(g, i)
    BY <1>23, <2>1 DEF Earn, Reverses, IInv, TypeOK, LocalsType, HistoryType, MongoType, Busy, Kind,
       Await, Fault, wallet, users, provider, locals, history, bounds
  <2>4. \A g \in Handlers : Reverses(g, i) => got'[g] = got[g] /\ left'[g] = left[g]
    BY <1>23 DEF Earn, Reverses, IInv, TypeOK, LocalsType, HistoryType, MongoType, Busy, Kind,
       Await, wallet, users, provider, locals, history, bounds
  <2>5. Whole(i)
    BY <2>1 DEF AllWhole
  <2> QED
    BY <2>1, <2>2, <2>3, <2>4, <2>5, WholeFrame
<1>24. ASSUME EditPackage PROVE AllWhole'
  <2> SUFFICES ASSUME NEW i \in Invoices, runs'[i] <= 1, Unbroken(i)' PROVE Whole(i)'
    BY DEF AllWhole
  <2>1. Unbroken(i) /\ runs' = runs /\ taken' = taken /\ due' = due /\ heldRefs' \subseteq heldRefs
    BY <1>24 DEF Unbroken, EditPackage, HistoryType, IInv, TypeOK, wallet, users, provider,
       locals, history, bounds
  <2>2. \A m \in Nat : ClawRow(i, m) \in rows' => ClawRow(i, m) \in rows
    BY <1>24 DEF EditPackage, wallet
  <2>3. \A g \in Handlers : Reverses(g, i)' <=> Reverses(g, i)
    BY <1>24, <2>1 DEF EditPackage, Reverses, IInv, TypeOK, LocalsType, HistoryType, MongoType,
       Busy, Kind, Await, Fault, wallet, users, provider, locals, history, bounds
  <2>4. \A g \in Handlers : Reverses(g, i) => got'[g] = got[g] /\ left'[g] = left[g]
    BY <1>24 DEF EditPackage, Reverses, IInv, TypeOK, LocalsType, HistoryType, MongoType, Busy,
       Kind, Await, wallet, users, provider, locals, history, bounds
  <2>5. Whole(i)
    BY <2>1 DEF AllWhole
  <2> QED
    BY <2>1, <2>2, <2>3, <2>4, <2>5, WholeFrame
<1>25. ASSUME ChangeAccount PROVE AllWhole'
  <2> SUFFICES ASSUME NEW i \in Invoices, runs'[i] <= 1, Unbroken(i)' PROVE Whole(i)'
    BY DEF AllWhole
  <2>1. Unbroken(i) /\ runs' = runs /\ taken' = taken /\ due' = due /\ heldRefs' \subseteq heldRefs
    BY <1>25 DEF Unbroken, ChangeAccount, HistoryType, IInv, TypeOK, wallet, users, provider,
       locals, history, bounds
  <2>2. \A m \in Nat : ClawRow(i, m) \in rows' => ClawRow(i, m) \in rows
    BY <1>25 DEF ChangeAccount, wallet
  <2>3. \A g \in Handlers : Reverses(g, i)' <=> Reverses(g, i)
    BY <1>25, <2>1 DEF ChangeAccount, Reverses, IInv, TypeOK, LocalsType, HistoryType, MongoType,
       Busy, Kind, Await, Fault, wallet, users, provider, locals, history, bounds
  <2>4. \A g \in Handlers : Reverses(g, i) => got'[g] = got[g] /\ left'[g] = left[g]
    BY <1>25 DEF ChangeAccount, Reverses, IInv, TypeOK, LocalsType, HistoryType, MongoType, Busy,
       Kind, Await, wallet, users, provider, locals, history, bounds
  <2>5. Whole(i)
    BY <2>1 DEF AllWhole
  <2> QED
    BY <2>1, <2>2, <2>3, <2>4, <2>5, WholeFrame
<1>26. ASSUME ZeroWallet PROVE AllWhole'
  <2> SUFFICES ASSUME NEW i \in Invoices, runs'[i] <= 1, Unbroken(i)' PROVE Whole(i)'
    BY DEF AllWhole
  <2>1. Unbroken(i) /\ runs' = runs /\ taken' = taken /\ due' = due /\ heldRefs' \subseteq heldRefs
    BY <1>26 DEF Unbroken, ZeroWallet, HistoryType, IInv, TypeOK, wallet, users, provider,
       locals, history, bounds
  <2>2. \A m \in Nat : ClawRow(i, m) \in rows' => ClawRow(i, m) \in rows
    BY <1>26 DEF ZeroWallet, wallet
  <2>3. \A g \in Handlers : Reverses(g, i)' <=> Reverses(g, i)
    BY <1>26, <2>1 DEF ZeroWallet, Reverses, IInv, TypeOK, LocalsType, HistoryType, MongoType, Busy,
       Kind, Await, Fault, wallet, users, provider, locals, history, bounds
  <2>4. \A g \in Handlers : Reverses(g, i) => got'[g] = got[g] /\ left'[g] = left[g]
    BY <1>26 DEF ZeroWallet, Reverses, IInv, TypeOK, LocalsType, HistoryType, MongoType, Busy, Kind,
       Await, wallet, users, provider, locals, history, bounds
  <2>5. Whole(i)
    BY <2>1 DEF AllWhole
  <2> QED
    BY <2>1, <2>2, <2>3, <2>4, <2>5, WholeFrame
<1>27. ASSUME NEW j \in Invoices, ProviderDeclines(j) PROVE AllWhole'
  <2> SUFFICES ASSUME NEW i \in Invoices, runs'[i] <= 1, Unbroken(i)' PROVE Whole(i)'
    BY DEF AllWhole
  <2>1. Unbroken(i) /\ runs' = runs /\ taken' = taken /\ due' = due /\ heldRefs' \subseteq heldRefs
    BY <1>27 DEF Unbroken, ProviderDeclines, HistoryType, IInv, TypeOK, wallet, users,
       provider, locals, history, bounds
  <2>2. \A m \in Nat : ClawRow(i, m) \in rows' => ClawRow(i, m) \in rows
    BY <1>27 DEF ProviderDeclines, wallet
  <2>3. \A g \in Handlers : Reverses(g, i)' <=> Reverses(g, i)
    BY <1>27, <2>1 DEF ProviderDeclines, Reverses, IInv, TypeOK, LocalsType, HistoryType, MongoType,
       Busy, Kind, Await, Fault, wallet, users, provider, locals, history, bounds
  <2>4. \A g \in Handlers : Reverses(g, i) => got'[g] = got[g] /\ left'[g] = left[g]
    BY <1>27 DEF ProviderDeclines, Reverses, IInv, TypeOK, LocalsType, HistoryType, MongoType, Busy,
       Kind, Await, wallet, users, provider, locals, history, bounds
  <2>5. Whole(i)
    BY <2>1 DEF AllWhole
  <2> QED
    BY <2>1, <2>2, <2>3, <2>4, <2>5, WholeFrame
<1>28. ASSUME NEW j \in Invoices, ProviderCharges(j) PROVE AllWhole'
  <2> SUFFICES ASSUME NEW i \in Invoices, runs'[i] <= 1, Unbroken(i)' PROVE Whole(i)'
    BY DEF AllWhole
  <2>1. Unbroken(i) /\ runs' = runs /\ taken' = taken /\ due' = due /\ heldRefs' \subseteq heldRefs
    BY <1>28 DEF Unbroken, ProviderCharges, HistoryType, IInv, TypeOK, wallet, users, provider,
       locals, history, bounds
  <2>2. \A m \in Nat : ClawRow(i, m) \in rows' => ClawRow(i, m) \in rows
    BY <1>28 DEF ProviderCharges, wallet
  <2>3. \A g \in Handlers : Reverses(g, i)' <=> Reverses(g, i)
    BY <1>28, <2>1 DEF ProviderCharges, Reverses, IInv, TypeOK, LocalsType, HistoryType, MongoType,
       Busy, Kind, Await, Fault, wallet, users, provider, locals, history, bounds
  <2>4. \A g \in Handlers : Reverses(g, i) => got'[g] = got[g] /\ left'[g] = left[g]
    BY <1>28 DEF ProviderCharges, Reverses, IInv, TypeOK, LocalsType, HistoryType, MongoType, Busy,
       Kind, Await, wallet, users, provider, locals, history, bounds
  <2>5. Whole(i)
    BY <2>1 DEF AllWhole
  <2> QED
    BY <2>1, <2>2, <2>3, <2>4, <2>5, WholeFrame
<1>29. ASSUME NEW j \in Invoices, ProviderRefunds(j) PROVE AllWhole'
  <2> SUFFICES ASSUME NEW i \in Invoices, runs'[i] <= 1, Unbroken(i)' PROVE Whole(i)'
    BY DEF AllWhole
  <2>1. Unbroken(i) /\ runs' = runs /\ taken' = taken /\ due' = due /\ heldRefs' \subseteq heldRefs
    BY <1>29 DEF Unbroken, ProviderRefunds, HistoryType, IInv, TypeOK, wallet, users, provider,
       locals, history, bounds
  <2>2. \A m \in Nat : ClawRow(i, m) \in rows' => ClawRow(i, m) \in rows
    BY <1>29 DEF ProviderRefunds, wallet
  <2>3. \A g \in Handlers : Reverses(g, i)' <=> Reverses(g, i)
    BY <1>29, <2>1 DEF ProviderRefunds, Reverses, IInv, TypeOK, LocalsType, HistoryType, MongoType,
       Busy, Kind, Await, Fault, wallet, users, provider, locals, history, bounds
  <2>4. \A g \in Handlers : Reverses(g, i) => got'[g] = got[g] /\ left'[g] = left[g]
    BY <1>29 DEF ProviderRefunds, Reverses, IInv, TypeOK, LocalsType, HistoryType, MongoType, Busy,
       Kind, Await, wallet, users, provider, locals, history, bounds
  <2>5. Whole(i)
    BY <2>1 DEF AllWhole
  <2> QED
    BY <2>1, <2>2, <2>3, <2>4, <2>5, WholeFrame
<1>30. CASE UNCHANGED vars
  <2> SUFFICES ASSUME NEW i \in Invoices, runs'[i] <= 1, Unbroken(i)' PROVE Whole(i)'
    BY DEF AllWhole
  <2>1. Unbroken(i) /\ runs' = runs /\ taken' = taken /\ due' = due /\ heldRefs' \subseteq heldRefs
    BY <1>30 DEF Unbroken, vars, HistoryType, IInv, TypeOK, wallet, users, provider, locals,
       history, bounds
  <2>2. \A m \in Nat : ClawRow(i, m) \in rows' => ClawRow(i, m) \in rows
    BY <1>30 DEF vars, wallet
  <2>3. \A g \in Handlers : Reverses(g, i)' <=> Reverses(g, i)
    BY <1>30, <2>1 DEF vars, Reverses, IInv, TypeOK, LocalsType, HistoryType, MongoType, Busy, Kind,
       Await, Fault, wallet, users, provider, locals, history, bounds
  <2>4. \A g \in Handlers : Reverses(g, i) => got'[g] = got[g] /\ left'[g] = left[g]
    BY <1>30 DEF vars, Reverses, IInv, TypeOK, LocalsType, HistoryType, MongoType, Busy, Kind,
       Await, wallet, users, provider, locals, history, bounds
  <2>5. Whole(i)
    BY <2>1 DEF AllWhole
  <2> QED
    BY <2>1, <2>2, <2>3, <2>4, <2>5, WholeFrame
<1> QED
  BY <1>1, <1>2, <1>3, <1>4, <1>5, <1>6, <1>7, <1>8, <1>9, <1>10, <1>11, <1>12, <1>13, <1>14,
     <1>15, <1>16, <1>17, <1>18, <1>19, <1>20, <1>21, <1>22, <1>23, <1>24, <1>25, <1>26,
     <1>27, <1>28, <1>29, <1>30 DEF Next, StartAny, StartWebhook, StartAdminRefund, Kind,
     Step, Pay, Refund, Environment

-----------------------------------------------------------------------------
(* The invariant holds *)

LEMMA OutcomeInit ==
    Init => OInv
<1> SUFFICES ASSUME Init PROVE OInv
  OBVIOUS
<1>1. IInv
  BY InitInv
<1>2. InRole /\ RowIsPaid /\ ClaimOwed /\ NothingGot
  BY DEF Init, InRole, RowIsPaid, ClaimOwed, NothingGot
<1>3. AllWhole
  BY DEF Init, AllWhole, Whole, Reverses, Untouched
<1> QED
  BY <1>1, <1>2, <1>3 DEF OInv

LEMMA OutcomeStep ==
    OInv /\ [Next]_vars => OInv'
<1> SUFFICES ASSUME OInv, Next \/ UNCHANGED vars PROVE OInv'
  OBVIOUS
<1>1. IInv'
  BY StepInv, StutterInv DEF OInv
<1>2. InRole' /\ RowIsPaid' /\ ClaimOwed'
  BY InRoleStep, RowIsPaidStep, ClaimOwedStep DEF OInv
<1>3. NothingGot' /\ AllWhole'
  BY NothingGotStep, WholeStep DEF OInv
<1> QED
  BY <1>1, <1>2, <1>3 DEF OInv

LEMMA OutcomeInvariance ==
    Spec => []OInv
BY OutcomeInit, OutcomeStep, PTL DEF Spec

-----------------------------------------------------------------------------
(* Theorems *)

\* handlePay claims a payment before it credits it.  Whatever webhooks, bans, refunds and
\* failed calls come between, once no handler is in flight a payment marked completed has
\* brought its coins, unless a handler of that very payment was cut off half-way.
THEOREM CompletedPaymentsPaid ==
    Spec => []CompletedIsCredited
<1>1. OInv => CompletedIsCredited
  <2> SUFFICES ASSUME OInv, Quiet, NEW i \in Invoices, status[i] = "completed",
                      <<"pay", i>> \notin halted
               PROVE  paid[i] > 0
    BY DEF CompletedIsCredited
  <2>1. paid[i] \in Nat
    BY DEF OInv, IInv, TypeOK, HistoryType
  <2>2. paid[i] # 0
    BY DEF OInv, ClaimOwed, Owes, Quiet
  <2> QED
    BY <2>1, <2>2
<1> QED
  BY <1>1, OutcomeInvariance, PTL

\* reverseRefund claws back in a loop that concurrent spends and credits can interrupt at
\* any read.  The one reversal of an invoice takes in the end all that it set out to take,
\* at hand or as debt, and nothing twice, unless it was itself cut off: what fails in the
\* handlers of other invoices, or in a Pay of this one, does not touch it.
THEOREM ReversalsAreWhole ==
    Spec => []ReversalIsWhole
<1>1. OInv => ReversalIsWhole
  BY DEF OInv, AllWhole, Whole, Reverses, Quiet, ReversalIsWhole
<1> QED
  BY <1>1, OutcomeInvariance, PTL
=============================================================================
