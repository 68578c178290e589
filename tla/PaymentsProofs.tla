---------------------------- MODULE PaymentsProofs ----------------------------
(***************************************************************************)
(* Proofs about Payments for any handlers, invoices, package sizes and     *)
(* bounds: types, the ledger, the hold, and that the wallet behaves as     *)
(* CoinAccount promises.                                                   *)
(***************************************************************************)
EXTENDS Payments, TLAPS

-----------------------------------------------------------------------------
(* The inductive invariant *)

\* What a handler holds where it stands: an invoice, coins to credit or take
\* back, and no more wanted than is left to take.
Busy == \A h \in Handlers :
    /\ pc[h] # "idle" => inv[h] \in Invoices
    /\ pc[h] \in {"credit", "balance", "debit", "hold"} => left[h] > 0
    /\ pc[h] = "debit" => want[h] > 0 /\ want[h] <= left[h]

\* A credited invoice has its row in the ledger, so it is not credited again.
PaidHasRow == \A i \in Invoices : paid[i] > 0 => PurchaseRow(i) \in rows

IInv == TypeOK /\ Busy /\ LedgerBalances /\ HoldMatchesDebt /\ PaidHasRow

-----------------------------------------------------------------------------
(* Frames *)

\* A handler that returns keeps the types and holds nothing.
LEMMA ReturnStep ==
    ASSUME LocalsType, Busy, NEW h \in Handlers, Return(h)
    PROVE  LocalsType' /\ Busy'
BY DEF LocalsType, Busy, Return, Kind, Await, Status

\* A handler that moves on with what it has keeps the types, when the await it
\* moves to asks for no coins.
LEMMA GotoStep ==
    ASSUME LocalsType, Busy, NEW h \in Handlers, pc[h] # "idle",
           NEW p \in Await \ {"credit", "balance", "debit", "hold"},
           Goto(h, p), UNCHANGED locals
    PROVE  LocalsType' /\ Busy'
BY DEF LocalsType, Busy, Goto, locals

\* A fault is counted.
LEMMA FaultStep ==
    ASSUME HistoryType, Fault, UNCHANGED <<paid, taken, runs, due>>,
           halted' \subseteq Kind \X Invoices
    PROVE  HistoryType'
BY DEF HistoryType, Fault

\* What a step that leaves the wallet alone keeps.
LEMMA WalletFrame ==
    ASSUME WalletType, LedgerBalances, HoldMatchesDebt, PaidHasRow,
           UNCHANGED <<wallet, zeroed, paid>>
    PROVE  WalletType' /\ LedgerBalances' /\ HoldMatchesDebt' /\ PaidHasRow'
BY DEF WalletType, LedgerBalances, HoldMatchesDebt, PaidHasRow, wallet

-----------------------------------------------------------------------------
(* Operators of the wallet *)

\* Math.min returns one of its arguments, and no more than either.
LEMMA LesserFacts ==
    ASSUME NEW m \in Int, NEW n \in Int
    PROVE  /\ Lesser(m, n) \in {m, n}
           /\ Lesser(m, n) <= m /\ Lesser(m, n) <= n
BY DEF Lesser

\* A repayment is part of the credit and part of the debt, and a hold is repaid
\* by something.
LEMMA RepaidFacts ==
    ASSUME WalletType, HoldMatchesDebt, NEW n \in Nat \ {0}
    PROVE  /\ Repaid(n) \in Nat
           /\ Repaid(n) <= n /\ Repaid(n) <= held
           /\ frozen <=> Repaid(n) > 0
<1>1. CASE frozen BY <1>1, LesserFacts DEF Repaid, WalletType, HoldMatchesDebt
<1>2. CASE ~frozen BY <1>2 DEF Repaid, WalletType, HoldMatchesDebt
<1> QED BY <1>1, <1>2

\* A credit keeps the ledger in balance and the hold in step with the debt, and
\* adds to the account exactly what is credited.
LEMMA CreditStep ==
    ASSUME WalletType, LedgerBalances, HoldMatchesDebt,
           NEW k \in SUBSET Row, NEW n \in Nat \ {0}, Credit(k, n), UNCHANGED zeroed
    PROVE  /\ WalletType' /\ LedgerBalances' /\ HoldMatchesDebt'
           /\ (balance - held)' = balance - held + n
           /\ k \cup rows \subseteq rows'
<1> DEFINE repaid == Repaid(n)
           clears == frozen /\ held = repaid
<1>1. /\ repaid \in Nat /\ repaid <= n /\ repaid <= held
      /\ frozen <=> repaid > 0
  BY RepaidFacts
<1>2. /\ balance' = balance + n - repaid
      /\ held' = held - repaid
      /\ frozen' = (frozen /\ ~clears)
      /\ holdRef' = IF clears THEN NoInvoice ELSE holdRef
      /\ heldRefs' = IF clears THEN {} ELSE heldRefs
      /\ rows' = rows \cup k \cup (IF repaid > 0 THEN {RepayRow(holdRef, held)} ELSE {})
      /\ posted' = posted + n - repaid
  BY Zenon DEF Credit
<1> HIDE DEF repaid
<1>3. repaid > 0 => RepayRow(holdRef, held) \in Row
  BY <1>1 DEF WalletType, HoldMatchesDebt, RepayRow, Row
<1>4. rows' \subseteq Row
  BY <1>2, <1>3 DEF WalletType
<1>5. balance' \in Int /\ held' \in Int /\ posted' \in Int
  BY <1>1, <1>2 DEF WalletType
<1>6. WalletType'
  BY <1>2, <1>4, <1>5 DEF WalletType
<1>7. LedgerBalances'
  BY <1>1, <1>2 DEF WalletType, LedgerBalances
<1>8. HoldMatchesDebt'
  <2>1. CASE clears
    <3>1. held' = 0 /\ holdRef' = NoInvoice
      BY <2>1, <1>1, <1>2 DEF WalletType
    <3>2. ~frozen'
      BY <2>1, <1>2
    <3> QED BY <3>1, <3>2 DEF HoldMatchesDebt
  <2>2. CASE ~frozen
    <3>1. held' = held /\ holdRef' = holdRef
      BY <2>2, <1>1, <1>2 DEF WalletType
    <3>2. ~frozen'
      BY <2>2, <1>2
    <3> QED BY <2>2, <3>1, <3>2 DEF HoldMatchesDebt
  <2>3. CASE frozen /\ ~clears
    <3>1. held' > 0 /\ held' >= 0 /\ holdRef' = holdRef
      BY <2>3, <1>1, <1>2 DEF WalletType
    <3>2. frozen'
      BY <2>3, <1>2
    <3> QED BY <2>3, <3>1, <3>2 DEF HoldMatchesDebt
  <2> QED BY <2>1, <2>2, <2>3
<1>9. (balance - held)' = balance - held + n
  BY <1>1, <1>2 DEF WalletType
<1>10. k \cup rows \subseteq rows'
  BY <1>2
<1> QED BY <1>6, <1>7, <1>8, <1>9, <1>10

-----------------------------------------------------------------------------
(* The steps of a handler, one lemma for those that move a wallet and one for  *)
(* those that do not *)

\* The wallet, and what was paid, stay.
Aside == UNCHANGED <<wallet, zeroed, paid>>

\* Start.
LEMMA StartInv ==
    ASSUME IInv, NEW h \in Handlers, NEW i \in Invoices, NEW k \in Kind, Start(h, k, i)
    PROVE  IInv'
<1> USE DEF IInv, TypeOK
<1>1. MongoType' /\ ProviderType' /\ HistoryType' /\ Aside
  BY DEF Start, Aside, MongoType, ProviderType, HistoryType, users, provider, history
<1>2. LocalsType' /\ Busy'
  BY DEF Start, LocalsType, Busy, Await
<1> QED BY <1>1, <1>2, WalletFrame DEF Aside

\* The first read of a payment.
LEMMA ReadPaymentInv ==
    ASSUME IInv, NEW h \in Handlers, ReadPayment(h)
    PROVE  IInv'
<1> USE DEF IInv, TypeOK
<1>1. MongoType' /\ ProviderType' /\ HistoryType' /\ Aside
  BY DEF ReadPayment, Aside, MongoType, ProviderType, HistoryType, users, provider, history, bounds
<1>2. LocalsType' /\ Busy'
  <2>1. CASE Return(h) BY <2>1, ReturnStep
  <2>2. CASE GoesOn(kind[h], status[inv[h]])
    <3>1. AfterRead[kind[h]] \in {"gate", "markFailed", "claimRefund", "upstream"}
      BY <2>2 DEF GoesOn, AfterRead
    <3>2. status[inv[h]] \in Status
      BY DEF ReadPayment, MongoType, Busy
    <3> QED BY <2>2, <3>1, <3>2 DEF ReadPayment, LocalsType, Busy, Goto, Await
  <2> QED BY <2>1, <2>2 DEF ReadPayment
<1> QED BY <1>1, <1>2, WalletFrame DEF Aside

\* isAccountTorndown before and after the claim.
LEMMA TorndownInv ==
    ASSUME IInv, NEW h \in Handlers, CheckAccount(h) \/ RecheckAccount(h)
    PROVE  IInv'
<1> USE DEF IInv, TypeOK
<1>1. MongoType' /\ ProviderType' /\ Aside
  BY DEF CheckAccount, RecheckAccount, Aside, MongoType, ProviderType, users, provider, history
<1>2. HistoryType'
  <2>1. CASE UNCHANGED bounds
    BY <2>1 DEF CheckAccount, RecheckAccount, HistoryType, history, bounds
  <2>2. CASE Fault
    BY <2>2, FaultStep DEF CheckAccount, RecheckAccount, HistoryType, history
  <2> QED BY <2>1, <2>2 DEF CheckAccount, RecheckAccount, Torndown
<1>3. LocalsType' /\ Busy'
  <2>1. CASE Return(h) BY <2>1, ReturnStep
  <2>2. ASSUME NEW p \in {"claim", "package", "undo"}, Goto(h, p), UNCHANGED locals
        PROVE  LocalsType' /\ Busy'
    BY <2>2, GotoStep DEF CheckAccount, RecheckAccount, Await
  <2> QED BY <2>1, <2>2 DEF CheckAccount, RecheckAccount, Torndown
<1> QED BY <1>1, <1>2, <1>3, WalletFrame DEF Aside

\* The claims of a payment, the rollback and the mark of a failure.
LEMMA ClaimInv ==
    ASSUME IInv, NEW h \in Handlers,
           \/ ClaimPay(h) \/ UndoClaim(h) \/ MarkFailed(h)
           \/ ClaimRefund(h) \/ ClaimAdminRefund(h)
    PROVE  IInv'
<1> USE DEF IInv, TypeOK, ClaimPay, UndoClaim, MarkFailed, ClaimRefund, ClaimAdminRefund
<1>1. ProviderType' /\ HistoryType' /\ Aside
  BY DEF Aside, ProviderType, HistoryType, users, provider, history, bounds
<1>2. MongoType'
  BY DEF MongoType, Status, users
<1>3. LocalsType' /\ Busy'
  <2>1. CASE Return(h) BY <2>1, ReturnStep
  <2>2. ASSUME NEW p \in {"recheck", "package"}, Goto(h, p), UNCHANGED locals
        PROVE  LocalsType' /\ Busy'
    BY <2>2, GotoStep DEF Await
  <2> QED BY <2>1, <2>2
<1> QED BY <1>1, <1>2, <1>3, WalletFrame DEF Aside

\* The refund at the provider.
LEMMA RefundUpstreamInv ==
    ASSUME IInv, NEW h \in Handlers, RefundUpstream(h)
    PROVE  IInv'
<1> USE DEF IInv, TypeOK
<1>1. MongoType' /\ HistoryType' /\ Aside
  BY DEF RefundUpstream, Aside, MongoType, HistoryType, users, history, bounds
<1>2. ProviderType'
  BY DEF RefundUpstream, ProviderType
<1>3. LocalsType' /\ Busy'
  <2>1. CASE Return(h) BY <2>1, ReturnStep
  <2>2. CASE Goto(h, "claimRefund") /\ UNCHANGED locals
    BY <2>2, GotoStep DEF RefundUpstream, Await
  <2> QED BY <2>1, <2>2 DEF RefundUpstream
<1> QED BY <1>1, <1>2, <1>3, WalletFrame DEF Aside

\* The read of the package.
LEMMA ReadPackageInv ==
    ASSUME IInv, NEW h \in Handlers, ReadPackage(h)
    PROVE  IInv'
<1> USE DEF IInv, TypeOK
<1>1. MongoType' /\ ProviderType' /\ Aside
  BY DEF ReadPackage, Aside, MongoType, ProviderType, users, provider
<1>2. pack \in Nat
  BY PackAssumption DEF MongoType
<1>3. HistoryType'
  BY <1>2 DEF ReadPackage, HistoryType, bounds
<1>4. LocalsType' /\ Busy'
  <2>1. CASE Return(h) BY <2>1, ReturnStep
  <2>2. CASE Goto(h, "undo") /\ UNCHANGED locals
    BY <2>2, GotoStep DEF ReadPackage, Await
  <2>3. CASE pack > 0
    BY <2>3, <1>2 DEF ReadPackage, LocalsType, Busy, Goto, Await
  <2> QED BY <2>1, <2>2, <2>3 DEF ReadPackage
<1> QED BY <1>1, <1>3, <1>4, WalletFrame DEF Aside

\* The credits that write nothing.
LEMMA CreditRefusedInv ==
    ASSUME IInv, NEW h \in Handlers, CreditDuplicate(h) \/ CreditFails(h)
    PROVE  IInv'
<1> USE DEF IInv, TypeOK
<1>1. MongoType' /\ ProviderType' /\ Aside
  BY DEF CreditDuplicate, CreditFails, Aside, MongoType, ProviderType, users, provider, history
<1>2. HistoryType'
  BY FaultStep DEF CreditDuplicate, CreditFails, HistoryType, history, bounds
<1>3. LocalsType' /\ Busy'
  <2>1. CASE Return(h) BY <2>1, ReturnStep
  <2>2. CASE Goto(h, "undo") /\ UNCHANGED locals
    BY <2>2, GotoStep DEF CreditDuplicate, CreditFails, Await
  <2> QED BY <2>1, <2>2 DEF CreditDuplicate, CreditFails
<1> QED BY <1>1, <1>2, <1>3, WalletFrame DEF Aside

\* The read of the balance, and the debit that lost a race.
LEMMA ReadBalanceInv ==
    ASSUME IInv, NEW h \in Handlers, ReadBalance(h) \/ ClawBackRaced(h)
    PROVE  IInv'
<1> USE DEF IInv, TypeOK
<1>1. MongoType' /\ ProviderType' /\ HistoryType' /\ Aside
  BY DEF ReadBalance, ClawBackRaced, Aside, MongoType, ProviderType, HistoryType, users,
         provider, history, bounds
<1>2. CASE ReadBalance(h)
  <2>1. balance > 0 => Lesser(balance, left[h]) \in Nat /\ Lesser(balance, left[h]) <= left[h]
                       /\ Lesser(balance, left[h]) > 0
    BY <1>2, LesserFacts DEF ReadBalance, WalletType, LocalsType, Busy
  <2>2. LocalsType' /\ Busy'
    BY <1>2, <2>1 DEF ReadBalance, LocalsType, Busy, Goto, Await
  <2> QED BY <1>1, <2>2, WalletFrame DEF Aside
<1>3. CASE ClawBackRaced(h)
  <2>1. LocalsType' /\ Busy'
    BY <1>3 DEF ClawBackRaced, LocalsType, Busy, Goto, Await
  <2> QED BY <1>1, <2>1, WalletFrame DEF Aside
<1> QED BY <1>2, <1>3

\* What is left to take after a clawback that has not finished.
LEMMA ClawedStep ==
    ASSUME LocalsType, Busy, NEW h \in Handlers, pc[h] = "debit", left[h] # want[h],
           got' = [got EXCEPT ![h] = @ + want[h]],
           left' = [left EXCEPT ![h] = @ - want[h]],
           want' = [want EXCEPT ![h] = 0],
           Goto(h, "balance"), UNCHANGED <<kind, inv, seen>>
    PROVE  LocalsType' /\ Busy'
<1>1. left[h] - want[h] \in Nat /\ left[h] - want[h] > 0 /\ got[h] + want[h] \in Nat
  BY DEF LocalsType, Busy
<1> QED BY <1>1 DEF LocalsType, Busy, Goto, Await

\* The clawback that finds its row.
LEMMA ClawBackDuplicateInv ==
    ASSUME IInv, NEW h \in Handlers, ClawBackDuplicate(h)
    PROVE  IInv'
<1> USE DEF IInv, TypeOK
<1>1. MongoType' /\ ProviderType' /\ HistoryType' /\ Aside
  BY DEF ClawBackDuplicate, Aside, MongoType, ProviderType, HistoryType, users, provider,
         history, bounds
<1>2. LocalsType' /\ Busy'
  <2>1. CASE Return(h) BY <2>1, ReturnStep
  <2>2. CASE left[h] > want[h]
    <3>1. left[h] # want[h] BY <2>2 DEF LocalsType
    <3> QED BY <2>1, <3>1, ClawedStep DEF ClawBackDuplicate
  <2> QED BY <2>1, <2>2 DEF ClawBackDuplicate
<1> QED BY <1>1, <1>2, WalletFrame DEF Aside

\* A reversal that fails, and a handler that stops half-way.
LEMMA StopInv ==
    ASSUME IInv, NEW h \in Handlers, ReversalFails(h) \/ Crash(h)
    PROVE  IInv'
<1> USE DEF IInv, TypeOK
<1>1. MongoType' /\ ProviderType' /\ Aside
  BY DEF ReversalFails, Crash, Aside, MongoType, ProviderType, users, provider, history
<1>2. HistoryType'
  <2>1. halted' = halted \cup {<<kind[h], inv[h]>>} /\ Fault
        /\ UNCHANGED <<paid, taken, runs, due>>
    BY DEF ReversalFails, Crash
  <2>2. <<kind[h], inv[h]>> \in Kind \X Invoices
    BY DEF ReversalFails, Crash, LocalsType, Busy
  <2> QED
    BY <2>1, <2>2, FaultStep DEF HistoryType
<1>3. LocalsType' /\ Busy'
  BY ReturnStep DEF ReversalFails, Crash
<1> QED BY <1>1, <1>2, <1>3, WalletFrame DEF Aside

\* What the environment does outside the wallet.
LEMMA OutsideInv ==
    ASSUME IInv,
           \/ EditPackage \/ ChangeAccount
           \/ \E i \in Invoices : ProviderDeclines(i) \/ ProviderCharges(i) \/ ProviderRefunds(i)
    PROVE  IInv'
<1> USE DEF IInv, TypeOK, EditPackage, ChangeAccount, ProviderDeclines, ProviderCharges,
            ProviderRefunds
<1>1. MongoType' /\ ProviderType' /\ HistoryType' /\ Aside
  BY DEF Aside, MongoType, ProviderType, HistoryType, users, provider, history, bounds
<1>2. LocalsType' /\ Busy'
  BY DEF LocalsType, Busy, locals
<1> QED BY <1>1, <1>2, WalletFrame DEF Aside

-----------------------------------------------------------------------------
(* The steps that move coins: each keeps the invariant, and is a step of the   *)
(* abstract account *)

\* The credit of a purchase.
LEMMA FulfilCoinsInv ==
    ASSUME IInv, NEW h \in Handlers, FulfilCoins(h)
    PROVE  IInv' /\ Account!Credit(inv[h])
<1> USE DEF IInv, TypeOK
<1> DEFINE i == inv[h]
           n == left[h]
<1>1. i \in Invoices /\ n \in Nat \ {0} /\ Credit({PurchaseRow(i)}, n) /\ UNCHANGED zeroed
      /\ paid' = [paid EXCEPT ![i] = @ + n] /\ taken' = taken
  BY DEF FulfilCoins, LocalsType, Busy, users
<1>2. PurchaseRow(i) \in Row
  BY <1>1 DEF PurchaseRow, Row
<1>3. PurchaseRow(i) \notin rows
  BY <1>1 DEF Credit
<1>4. paid[i] = 0
  BY <1>1, <1>3 DEF PaidHasRow, HistoryType
<1> HIDE DEF i, n
<1>5. /\ WalletType' /\ LedgerBalances' /\ HoldMatchesDebt'
      /\ (balance - held)' = balance - held + n
      /\ {PurchaseRow(i)} \cup rows \subseteq rows'
  BY <1>1, <1>2, CreditStep
<1>6. PaidHasRow'
  BY <1>1, <1>5 DEF PaidHasRow, HistoryType, PurchaseRow
<1>7. paid' = [paid EXCEPT ![i] = n] /\ paid'[i] = n
  BY <1>1, <1>4 DEF HistoryType
<1>8. MongoType' /\ ProviderType'
  BY DEF FulfilCoins, MongoType, ProviderType, users, provider
<1>9. HistoryType'
  <2>1. paid' \in [Invoices -> Nat] BY <1>1, <1>7 DEF HistoryType
  <2>2. starts' \in Nat /\ moves' \in Nat /\ edits' \in Nat /\ faults' \in Nat
    BY DEF FulfilCoins, Fault, bounds, HistoryType
  <2> QED BY <2>1, <2>2 DEF FulfilCoins, HistoryType
<1>10. LocalsType' /\ Busy'
  <2>1. CASE Return(h) BY <2>1, ReturnStep
  <2>2. CASE Goto(h, "undo") /\ UNCHANGED locals
    BY <2>2, GotoStep DEF FulfilCoins, Await
  <2> QED BY <2>1, <2>2 DEF FulfilCoins
<1>11. Account!Credit(i)
  <2>1. paid' = [paid EXCEPT ![i] = paid'[i]] BY <1>7
  <2>2. paid'[i] > 0 /\ paid[i] = 0 BY <1>1, <1>4, <1>7
  <2>3. (balance - held)' = balance - held + paid'[i] BY <1>5, <1>7
  <2>4. UNCHANGED <<taken, zeroed>> BY <1>1
  <2> QED BY <2>1, <2>2, <2>3, <2>4 DEF Account!Credit
<1> QED BY <1>5, <1>6, <1>8, <1>9, <1>10, <1>11 DEF i

\* Coins earned elsewhere.
LEMMA EarnInv ==
    ASSUME IInv, Earn
    PROVE  IInv' /\ Account!Earn
<1> USE DEF IInv, TypeOK
<1>1. Credit({}, Reward) /\ UNCHANGED zeroed /\ Reward \in Nat \ {0} /\ UNCHANGED <<paid, taken>>
  BY PriceAssumption DEF Earn, users, history
<1>2. /\ WalletType' /\ LedgerBalances' /\ HoldMatchesDebt'
      /\ (balance - held)' = balance - held + Reward
      /\ rows \subseteq rows'
  BY <1>1, CreditStep
<1>3. PaidHasRow'
  BY <1>1, <1>2 DEF PaidHasRow, PurchaseRow
<1>4. MongoType' /\ ProviderType' /\ HistoryType'
  BY DEF Earn, MongoType, ProviderType, HistoryType, users, provider, history
<1>5. LocalsType' /\ Busy'
  BY DEF Earn, LocalsType, Busy, locals
<1> QED BY <1>1, <1>2, <1>3, <1>4, <1>5 DEF Account!Earn

\* Coins spent.
LEMMA SpendInv ==
    ASSUME IInv, Spend
    PROVE  IInv' /\ Account!Spend
<1> USE DEF IInv, TypeOK
<1>1. MongoType' /\ ProviderType' /\ HistoryType' /\ LocalsType' /\ Busy' /\ PaidHasRow'
  BY DEF Spend, MongoType, ProviderType, HistoryType, LocalsType, Busy, PaidHasRow, users,
         provider, history, locals
<1>2. WalletType' /\ HoldMatchesDebt'
  BY PriceAssumption DEF Spend, WalletType, HoldMatchesDebt
<1>3. LedgerBalances'
  BY PriceAssumption DEF Spend, WalletType, LedgerBalances, users
<1>4. held = 0
  BY DEF Spend, WalletType, HoldMatchesDebt
<1>5. Account!Spend
  BY <1>4, PriceAssumption DEF Spend, Account!Spend, WalletType, users, history
<1> QED BY <1>1, <1>2, <1>3, <1>5

\* The clawback of a refund.
LEMMA ClawBackInv ==
    ASSUME IInv, NEW h \in Handlers, ClawBack(h)
    PROVE  IInv' /\ Account!Reverse(inv[h])
<1> USE DEF IInv, TypeOK
<1> DEFINE i == inv[h]
           n == want[h]
<1>1. i \in Invoices /\ n \in Nat /\ n > 0 /\ balance >= n /\ got[h] \in Nat
  BY DEF ClawBack, LocalsType, Busy
<1>2. /\ balance' = balance - n /\ posted' = posted - n
      /\ rows' = rows \cup {ClawRow(i, got[h])}
      /\ taken' = [taken EXCEPT ![i] = @ + n]
      /\ UNCHANGED <<held, frozen, holdRef, heldRefs, zeroed, paid, runs, due, halted>>
  BY DEF ClawBack, users
<1>3. MongoType' /\ ProviderType'
  BY DEF ClawBack, MongoType, ProviderType, users, provider
<1>4. LocalsType' /\ Busy'
  <2>1. CASE Return(h) BY <2>1, ReturnStep
  <2>2. CASE left[h] # want[h] BY <2>2, ClawedStep DEF ClawBack
  <2> QED BY <2>1, <2>2 DEF ClawBack
<1>5. ClawRow(i, got[h]) \in Row
  BY <1>1 DEF ClawRow, Row
<1> HIDE DEF i, n
<1>6. WalletType' /\ LedgerBalances' /\ HoldMatchesDebt' /\ PaidHasRow'
  BY <1>1, <1>2, <1>5 DEF WalletType, LedgerBalances, HoldMatchesDebt, PaidHasRow, PurchaseRow
<1>7. taken[i] \in Nat /\ taken'[i] = taken[i] + n
  BY <1>1, <1>2 DEF HistoryType
<1>8. HistoryType'
  BY <1>1, <1>2, <1>7 DEF ClawBack, HistoryType, bounds
<1>9. Account!Reverse(i)
  <2>1. taken'[i] > taken[i] BY <1>1, <1>7
  <2>2. taken' = [taken EXCEPT ![i] = taken'[i]] BY <1>2, <1>7
  <2>3. (balance - held)' = balance - held - (taken'[i] - taken[i])
    BY <1>1, <1>2, <1>7 DEF WalletType
  <2>4. UNCHANGED <<paid, zeroed>> BY <1>2
  <2> QED BY <2>1, <2>2, <2>3, <2>4 DEF Account!Reverse
<1> QED BY <1>3, <1>4, <1>6, <1>8, <1>9 DEF i

\* The debt of a refund: a step of the account, unless it is on record.
LEMMA RecordDebtInv ==
    ASSUME IInv, NEW h \in Handlers, RecordDebt(h)
    PROVE  IInv' /\ (Account!Reverse(inv[h]) \/ UNCHANGED Account!account)
<1> USE DEF IInv, TypeOK
<1>1. inv[h] \in Invoices /\ left[h] \in Nat /\ left[h] > 0
  BY DEF RecordDebt, LocalsType, Busy
<1>2. MongoType' /\ ProviderType' /\ LocalsType' /\ Busy'
  BY ReturnStep DEF RecordDebt, MongoType, ProviderType, users, provider
<1>3. UNCHANGED <<balance, rows, posted, zeroed, paid, runs, due, halted, bounds>>
  BY DEF RecordDebt, users
<1>4. CASE inv[h] \in heldRefs
  <2>1. Aside /\ UNCHANGED taken
    BY <1>3, <1>4 DEF RecordDebt, Aside, wallet
  <2>2. HistoryType'
    BY <1>3, <2>1 DEF HistoryType, bounds, Aside
  <2>3. UNCHANGED Account!account
    BY <2>1 DEF Account!account, Aside, wallet
  <2> QED BY <1>2, <2>1, <2>2, <2>3, WalletFrame DEF Aside
<1>5. CASE inv[h] \notin heldRefs
  <2> DEFINE i == inv[h]
             n == left[h]
  <2>1. /\ held' = held + n /\ frozen' = TRUE /\ holdRef' = i
        /\ heldRefs' = heldRefs \cup {i}
        /\ taken' = [taken EXCEPT ![i] = @ + n]
    BY <1>5 DEF RecordDebt
  <2>2. i \in Invoices /\ n \in Nat /\ n > 0
    BY <1>1
  <2> HIDE DEF i, n
  <2>3. WalletType' /\ LedgerBalances' /\ PaidHasRow'
    BY <1>3, <2>1, <2>2 DEF WalletType, LedgerBalances, PaidHasRow
  <2>4. HoldMatchesDebt'
    BY <2>1, <2>2, NullAssumption DEF WalletType, HoldMatchesDebt
  <2>5. taken[i] \in Nat /\ taken'[i] = taken[i] + n
    BY <2>1, <2>2 DEF HistoryType
  <2>6. HistoryType'
    BY <1>3, <2>1, <2>2, <2>5 DEF HistoryType, bounds
  <2>7. Account!Reverse(i)
    <3>1. taken'[i] > taken[i] BY <2>2, <2>5
    <3>2. taken' = [taken EXCEPT ![i] = taken'[i]] BY <2>1, <2>5
    <3>3. (balance - held)' = balance - held - (taken'[i] - taken[i])
      BY <1>3, <2>1, <2>2, <2>5 DEF WalletType
    <3>4. UNCHANGED <<paid, zeroed>> BY <1>3
    <3> QED BY <3>1, <3>2, <3>3, <3>4 DEF Account!Reverse
  <2> QED BY <1>2, <2>3, <2>4, <2>6, <2>7 DEF i
<1> QED BY <1>4, <1>5

\* The teardown of the account.
LEMMA ZeroWalletInv ==
    ASSUME IInv, ZeroWallet
    PROVE  IInv' /\ Account!Close
<1> USE DEF IInv, TypeOK
<1>1. MongoType' /\ ProviderType' /\ HistoryType' /\ LocalsType' /\ Busy' /\ PaidHasRow'
  BY DEF ZeroWallet, MongoType, ProviderType, HistoryType, LocalsType, Busy, PaidHasRow,
         provider, history, locals, bounds
<1>2. WalletType' /\ HoldMatchesDebt' /\ LedgerBalances'
  BY DEF ZeroWallet, WalletType, HoldMatchesDebt, LedgerBalances
<1>3. Account!Close
  BY DEF ZeroWallet, Account!Close, WalletType, LedgerBalances, history
<1> QED BY <1>1, <1>2, <1>3

-----------------------------------------------------------------------------
(* The theorems *)

\* The initial states satisfy the invariant.
LEMMA InitInv == ASSUME Init PROVE IInv
<1>1. MongoType BY DEF Init, MongoType, Status
<1>2. WalletType
  <2>1. balance \in Int /\ held \in Int /\ posted \in Int BY DEF Init
  <2>2. frozen \in BOOLEAN BY DEF Init
  <2>3. /\ holdRef \in Invoices \cup {NoInvoice}
        /\ heldRefs \subseteq Invoices /\ rows \subseteq Row
    BY DEF Init
  <2> QED BY <2>1, <2>2, <2>3 DEF WalletType
<1>3. ProviderType BY DEF Init, ProviderType
<1>4. HistoryType BY DEF Init, HistoryType
<1>5. LocalsType /\ Busy BY DEF Init, LocalsType, Busy, Await, Kind, Status
<1>6. LedgerBalances /\ HoldMatchesDebt /\ PaidHasRow
  BY DEF Init, LedgerBalances, HoldMatchesDebt, PaidHasRow
<1> QED BY <1>1, <1>2, <1>3, <1>4, <1>5, <1>6 DEF IInv, TypeOK

\* A step that leaves the coins alone leaves the abstract account alone.
LEMMA AsideAccount ==
    ASSUME UNCHANGED <<wallet, zeroed, paid, taken>>
    PROVE  UNCHANGED Account!account
BY DEF wallet, Account!account

\* Every step keeps the invariant and is a step of the account, or none.
LEMMA StepInv ==
    ASSUME IInv, Next
    PROVE  IInv' /\ (Account!Next \/ UNCHANGED Account!account)
<1>1. ASSUME NEW h \in Handlers, StartAny(h)
      PROVE  IInv' /\ UNCHANGED Account!account
  <2>1. PICK i \in Invoices, k \in Kind : Start(h, k, i)
    BY <1>1 DEF StartAny, StartWebhook, StartAdminRefund, Kind
  <2> QED BY <2>1, StartInv, AsideAccount DEF Start, users, history
<1>2. ASSUME NEW h \in Handlers, ReadPayment(h) \/ MarkFailed(h) \/ Crash(h)
      PROVE  IInv' /\ UNCHANGED Account!account
  BY <1>2, ReadPaymentInv, ClaimInv, StopInv, AsideAccount
     DEF ReadPayment, MarkFailed, Crash, users, history
<1>3. ASSUME NEW h \in Handlers, Pay(h)
      PROVE  IInv' /\ (Account!Credit(inv[h]) \/ UNCHANGED Account!account)
  <2>1. CASE FulfilCoins(h) BY <2>1, FulfilCoinsInv
  <2>2. CASE ~FulfilCoins(h)
    <3>1. UNCHANGED <<wallet, zeroed, paid, taken>>
      BY <1>3, <2>2 DEF Pay, CheckAccount, ClaimPay, RecheckAccount, ReadPackage,
                        CreditDuplicate, CreditFails, UndoClaim, users, history
    <3>2. IInv'
      BY <1>3, <2>2, TorndownInv, ClaimInv, ReadPackageInv, CreditRefusedInv DEF Pay
    <3> QED BY <3>1, <3>2, AsideAccount
  <2> QED BY <2>1, <2>2
<1>4. ASSUME NEW h \in Handlers, Refund(h)
      PROVE  IInv' /\ (Account!Reverse(inv[h]) \/ UNCHANGED Account!account)
  <2>1. CASE ClawBack(h) BY <2>1, ClawBackInv
  <2>2. CASE RecordDebt(h) BY <2>2, RecordDebtInv
  <2>3. CASE ~ClawBack(h) /\ ~RecordDebt(h)
    <3>1. UNCHANGED <<wallet, zeroed, paid, taken>>
      BY <1>4, <2>3 DEF Refund, ClaimRefund, RefundUpstream, ClaimAdminRefund, ReadBalance,
                        ClawBackRaced, ClawBackDuplicate, ReversalFails, users, history
    <3>2. IInv'
      BY <1>4, <2>3, ClaimInv, RefundUpstreamInv, ReadBalanceInv, ClawBackDuplicateInv,
         StopInv DEF Refund
    <3> QED BY <3>1, <3>2, AsideAccount
  <2> QED BY <2>1, <2>2, <2>3
<1>5. ASSUME NEW h \in Handlers, Pay(h) \/ Refund(h)
      PROVE  inv[h] \in Invoices
  BY <1>5 DEF IInv, Busy, Pay, CheckAccount, ClaimPay, RecheckAccount, ReadPackage, FulfilCoins,
              CreditDuplicate, CreditFails, UndoClaim, Refund, ClaimRefund, RefundUpstream,
              ClaimAdminRefund, ReadBalance, ClawBack, ClawBackRaced, ClawBackDuplicate,
              RecordDebt, ReversalFails
<1>6. ASSUME Environment
      PROVE  IInv' /\ (Account!Next \/ UNCHANGED Account!account)
  <2>1. CASE Spend BY <2>1, SpendInv DEF Account!Next
  <2>2. CASE Earn BY <2>2, EarnInv DEF Account!Next
  <2>3. CASE ZeroWallet BY <2>3, ZeroWalletInv DEF Account!Next
  <2>4. CASE ~Spend /\ ~Earn /\ ~ZeroWallet
    <3>1. UNCHANGED <<wallet, zeroed, paid, taken>>
      BY <1>6, <2>4 DEF Environment, EditPackage, ChangeAccount, ProviderDeclines,
                        ProviderCharges, ProviderRefunds, users, history
    <3>2. IInv'
      BY <1>6, <2>4, OutsideInv DEF Environment
    <3> QED BY <3>1, <3>2, AsideAccount
  <2> QED BY <2>1, <2>2, <2>3, <2>4
<1> QED BY <1>1, <1>2, <1>3, <1>4, <1>5, <1>6 DEF Next, Step, Account!Next

\* Stuttering keeps the invariant.
LEMMA StutterInv ==
    ASSUME IInv, UNCHANGED vars
    PROVE  IInv' /\ UNCHANGED Account!account
<1> USE DEF IInv, TypeOK, vars
<1>1. MongoType' /\ ProviderType' /\ HistoryType' /\ LocalsType' /\ Busy'
  BY DEF MongoType, ProviderType, HistoryType, LocalsType, Busy, users, provider, history,
         bounds, locals
<1>2. UNCHANGED <<wallet, zeroed, paid, taken>>
  BY DEF users, history
<1> QED BY <1>1, <1>2, WalletFrame, AsideAccount

\* The invariant is inductive: types, what handlers hold, the ledger, the hold
\* and the row of each credited invoice.
THEOREM PaymentsInductive == Spec => []IInv
<1>1. Init => IInv BY InitInv
<1>2. IInv /\ [Next]_vars => IInv' BY StepInv, StutterInv
<1> QED BY <1>1, <1>2, PTL DEF Spec

\* Every variable keeps its type.
THEOREM PaymentsTypeCorrect == Spec => []TypeOK
<1>1. IInv => TypeOK BY DEF IInv
<1> QED BY <1>1, PaymentsInductive, PTL

\* The balance is never overdrawn and is always the sum of the ledger, until the
\* account is torn down: wallet.service.ts's own invariant.
THEOREM BalanceIsLedger == Spec => []LedgerBalances
<1>1. IInv => LedgerBalances BY DEF IInv
<1> QED BY <1>1, PaymentsInductive, PTL

\* A wallet is on hold exactly while a refund is owed.
THEOREM HoldIsDebt == Spec => []HoldMatchesDebt
<1>1. IInv => HoldMatchesDebt BY DEF IInv
<1> QED BY <1>1, PaymentsInductive, PTL

\* The wallet under the payment handlers implements the abstract account: an
\* invoice is credited once, a spend is covered by coins free of debt, and what
\* a refund takes leaves the account exactly once.
THEOREM ImplementsAccount == Spec => AccountSpec
<1>1. Init => Account!Init
  BY DEF Init, Account!Init
<1>2. IInv /\ [Next]_vars => [Account!Next]_Account!account
  BY StepInv, StutterInv
<1> QED BY <1>1, <1>2, PaymentsInductive, PTL DEF Spec, AccountSpec, Account!Spec
=============================================================================
