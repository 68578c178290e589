------------------------------- MODULE Payments -------------------------------
(***************************************************************************)
(* Coin purchases of one user: PaymentsService (the Pay, Fail and Refund   *)
(* webhooks of CloudPayments, their T-Bank mirror, and the admin refund)   *)
(* and WalletService under it.                                             *)
(*                                                                         *)
(* MongoDB is a replica set, as in production: credit and debit run in a   *)
(* transaction (runWalletWrite) and are one step each, and so is every     *)
(* other database call.  pc[h] names the await that the handler h has      *)
(* reached.  A row of the ledger is its key (type, refId), which a unique  *)
(* index guards; posted is the sum of the deltas.                          *)
(***************************************************************************)
EXTENDS Integers, FiniteSets

CONSTANTS
    Handlers,   \* slots for handlers in flight at the same time
    Invoices,   \* the user's invoices, all of one coin package
    PackSizes,  \* what the package may hold; 0: it has been deleted
    Price,      \* what a gift, cover or placement costs
    Reward,     \* what a daily bonus or a referral pays
    MaxStarts,  \* bound: handlers started
    MaxMoves,   \* bound: coins spent or earned elsewhere, times
    MaxEvents,  \* bound: charges, declines, edits of the package, bans and erasures
    MaxFaults   \* bound: database calls that throw, and node crashes

ASSUME PackAssumption   == PackSizes \subseteq Nat
ASSUME PriceAssumption  == Price \in Nat \ {0} /\ Reward \in Nat \ {0}
ASSUME BoundsAssumption == {MaxStarts, MaxMoves, MaxEvents, MaxFaults} \subseteq Nat

NoInvoice == "noInvoice"
ASSUME NullAssumption == NoInvoice \notin Invoices

VARIABLES
    \* MongoDB: payments, the package, the user
    status,     \* status of each Payment
    pack,       \* coins plus bonus of the package now
    user,       \* active, banned or erased
    \* MongoDB: the wallet and its ledger
    balance,    \* balanceCoins
    held,       \* heldCoins, the debt
    frozen,     \* economyHold
    holdRef,    \* holdRefId, the invoice of the last refund that left a debt
    heldRefs,   \* heldRefIds
    rows,       \* keys of the ledger rows
    posted,     \* sum of their deltas
    zeroed,     \* the teardown of the account has zeroed the balance
    \* the provider
    charged,    \* invoices whose charge succeeded
    declined,   \* invoices with an attempt that failed
    returned,   \* invoices whose charge was refunded
    \* handlers in flight
    pc, kind, inv,
    seen,       \* the status the handler read first
    left,       \* coins to credit, or still to be taken back
    got,        \* coins this reversal has clawed back so far
    want,       \* coins the next clawback debit asks for
    \* history and bounds
    paid,       \* coins each invoice was credited with
    taken,      \* coins the refunds of each invoice have taken, at hand or as debt
    runs,       \* reversals begun for each invoice
    due,        \* the coins the last of them set out to take
    halted,     \* the handlers that stopped half-way: kind and invoice
    starts, moves, edits, faults

wallet   == <<balance, held, frozen, holdRef, heldRefs, rows, posted>>
users    == <<pack, user, zeroed>>
provider == <<charged, declined, returned>>
locals   == <<kind, inv, seen, left, got, want>>
history  == <<paid, taken, runs, due, halted>>
bounds   == <<starts, moves, edits, faults>>
vars     == <<status, wallet, users, provider, pc, locals, history, bounds>>

Status == {"pending", "completed", "failed", "refunded"}
Kind   == {"none", "pay", "fail", "refund", "admin"}
Await  == {"idle", "read", "gate", "claim", "recheck", "package", "credit", "undo",
           "markFailed", "claimRefund", "upstream", "balance", "debit", "hold"}
Row    == [type : {"purchase", "refund", "claw", "holdrepay"}, inv : Invoices, n : Nat]

MongoType ==
    /\ status   \in [Invoices -> Status]
    /\ pack     \in PackSizes
    /\ user     \in {"active", "banned", "erased"}
    /\ zeroed   \in BOOLEAN

WalletType ==
    /\ balance  \in Int
    /\ held     \in Int
    /\ frozen   \in BOOLEAN
    /\ holdRef  \in Invoices \cup {NoInvoice}
    /\ heldRefs \subseteq Invoices
    /\ rows     \subseteq Row
    /\ posted   \in Int

ProviderType ==
    /\ charged  \subseteq Invoices
    /\ declined \subseteq Invoices
    /\ returned \subseteq Invoices

LocalsType ==
    /\ pc       \in [Handlers -> Await]
    /\ kind     \in [Handlers -> Kind]
    /\ inv      \in [Handlers -> Invoices \cup {NoInvoice}]
    /\ seen     \in [Handlers -> Status]
    /\ left     \in [Handlers -> Nat]
    /\ got      \in [Handlers -> Nat]
    /\ want     \in [Handlers -> Nat]

HistoryType ==
    /\ paid     \in [Invoices -> Nat]
    /\ taken    \in [Invoices -> Nat]
    /\ runs     \in [Invoices -> Nat]
    /\ due      \in [Invoices -> Nat]
    /\ halted   \subseteq Kind \X Invoices
    /\ starts   \in Nat
    /\ moves    \in Nat
    /\ edits    \in Nat
    /\ faults   \in Nat

TypeOK == MongoType /\ WalletType /\ ProviderType /\ LocalsType /\ HistoryType

Init ==
    /\ status   = [i \in Invoices |-> "pending"]
    /\ pack     \in PackSizes \ {0}
    /\ user     = "active"
    /\ balance  = 0
    /\ held     = 0
    /\ frozen   = FALSE
    /\ holdRef  = NoInvoice
    /\ heldRefs = {}
    /\ rows     = {}
    /\ posted   = 0
    /\ zeroed   = FALSE
    /\ charged  = {}
    /\ declined = {}
    /\ returned = {}
    /\ pc       = [h \in Handlers |-> "idle"]
    /\ kind     = [h \in Handlers |-> "none"]
    /\ inv      = [h \in Handlers |-> NoInvoice]
    /\ seen     = [h \in Handlers |-> "pending"]
    /\ left     = [h \in Handlers |-> 0]
    /\ got      = [h \in Handlers |-> 0]
    /\ want     = [h \in Handlers |-> 0]
    /\ paid     = [i \in Invoices |-> 0]
    /\ taken    = [i \in Invoices |-> 0]
    /\ runs     = [i \in Invoices |-> 0]
    /\ due      = [i \in Invoices |-> 0]
    /\ halted   = {}
    /\ starts   = 0
    /\ moves    = 0
    /\ edits    = 0
    /\ faults   = 0

-----------------------------------------------------------------------------
(* Helpers *)

\* refIds: the invoice, refund:<invoice>[:claw<n>], holdrepay:<refund>:<debt>.
PurchaseRow(i)  == [type |-> "purchase", inv |-> i, n |-> 0]
ClawRow(i, n)   == [type |-> IF n = 0 THEN "refund" ELSE "claw", inv |-> i, n |-> n]
RepayRow(i, d)  == [type |-> "holdrepay", inv |-> i, n |-> d]

Goto(h, p) == pc' = [pc EXCEPT ![h] = p]

Return(h) ==
    /\ pc'   = [pc EXCEPT ![h] = "idle"]
    /\ kind' = [kind EXCEPT ![h] = "none"]
    /\ inv'  = [inv EXCEPT ![h] = NoInvoice]
    /\ seen' = [seen EXCEPT ![h] = "pending"]
    /\ left' = [left EXCEPT ![h] = 0]
    /\ got'  = [got EXCEPT ![h] = 0]
    /\ want' = [want EXCEPT ![h] = 0]

\* A database call throws.
Fault == faults < MaxFaults /\ faults' = faults + 1 /\ UNCHANGED <<starts, moves, edits>>

-----------------------------------------------------------------------------
(* Mutants: plausible bugs, each in the place of one definition below *)

\* Math.max for Math.min.
Greater(m, n) == IF m < n THEN n ELSE m

\* maybeReleaseHold without the ledger row of the repayment.
CreditUnposted(k, n) ==
    LET repaid == IF frozen THEN IF n < held THEN n ELSE held ELSE 0
        clears == frozen /\ held = repaid
    IN /\ k \cap rows = {}
       /\ balance'  = balance + n - repaid
       /\ held'     = held - repaid
       /\ frozen'   = (frozen /\ ~clears)
       /\ holdRef'  = IF clears THEN NoInvoice ELSE holdRef
       /\ heldRefs' = IF clears THEN {} ELSE heldRefs
       /\ rows'     = rows \cup k
       /\ posted'   = posted + n

\* Any repayment lifts the hold.
CreditLiftsHold(k, n) ==
    LET repaid == IF frozen THEN IF n < held THEN n ELSE held ELSE 0
    IN /\ k \cap rows = {}
       /\ balance'  = balance + n - repaid
       /\ held'     = held - repaid
       /\ frozen'   = FALSE
       /\ holdRef'  = NoInvoice
       /\ heldRefs' = {}
       /\ rows'     = rows \cup k
       /\ posted'   = posted + n - repaid

\* The catch of handlePay without the rollback.
UndoForgotten(h) ==
    /\ pc[h] = "undo"
    /\ Return(h)
    /\ UNCHANGED <<status, wallet, users, provider, history, bounds>>

\* InsufficientFunds escapes the clawback and is swallowed by the refund.
ClawBackGivesUp(h) ==
    /\ pc[h] = "debit"
    /\ balance < want[h]
    /\ Return(h)
    /\ UNCHANGED <<status, wallet, users, provider, history, bounds>>

\* The ledger without its unique index.
CreditUnindexed(k, n) ==
    LET repaid == IF frozen THEN IF n < held THEN n ELSE held ELSE 0
        clears == frozen /\ held = repaid
    IN /\ balance'  = balance + n - repaid
       /\ held'     = held - repaid
       /\ frozen'   = (frozen /\ ~clears)
       /\ holdRef'  = IF clears THEN NoInvoice ELSE holdRef
       /\ heldRefs' = IF clears THEN {} ELSE heldRefs
       /\ rows'     = rows \cup k
       /\ posted'   = posted + n - repaid

-----------------------------------------------------------------------------
\* Math.min.
Lesser(m, n) == IF m < n THEN m ELSE n

-----------------------------------------------------------------------------
(* A handler starts *)

Start(h, k, i) ==
    /\ pc[h] = "idle"
    /\ starts < MaxStarts
    /\ starts' = starts + 1
    /\ pc'   = [pc EXCEPT ![h] = "read"]
    /\ kind' = [kind EXCEPT ![h] = k]
    /\ inv'  = [inv EXCEPT ![h] = i]
    /\ UNCHANGED <<status, wallet, users, provider, seen, left, got, want, history,
                   moves, edits, faults>>

\* The webhooks, each delivered any number of times and at any later time, with
\* a valid signature and the right amount; and an admin who refunds a payment.
StartWebhook(h, k, i) ==
    /\ \/ k = "pay"    /\ i \in charged
       \/ k = "fail"   /\ i \in declined
       \/ k = "refund" /\ i \in returned
    /\ Start(h, k, i)

StartAdminRefund(h, i) == Start(h, "admin", i)

\* The first read of the Payment, and the early returns on its status.
GoesOn(k, s) ==
    \/ k \in {"pay", "fail"} /\ s = "pending"
    \/ k = "refund" /\ s # "refunded"
    \/ k = "admin" /\ s = "completed"

AfterRead == [pay |-> "gate", fail |-> "markFailed", refund |-> "claimRefund",
              admin |-> "upstream"]

ReadPayment(h) ==
    /\ pc[h] = "read"
    /\ LET s == status[inv[h]] IN
         IF GoesOn(kind[h], s)
         THEN /\ Goto(h, AfterRead[kind[h]])
              /\ seen' = [seen EXCEPT ![h] = s]
              /\ UNCHANGED <<kind, inv, left, got, want>>
         ELSE Return(h)
    /\ UNCHANGED <<status, wallet, users, provider, history, bounds>>

-----------------------------------------------------------------------------
(* Pay *)

\* isAccountTorndown, which fails open when its read throws.
Torndown(p, q, h) ==
    \/ user # "active" /\ q /\ UNCHANGED bounds
    \/ user = "active" /\ Goto(h, p) /\ UNCHANGED <<locals, bounds>>
    \/ user # "active" /\ Goto(h, p) /\ Fault /\ UNCHANGED locals

CheckAccount(h) ==
    /\ pc[h] = "gate"
    /\ Torndown("claim", Return(h), h)
    /\ UNCHANGED <<status, wallet, users, provider, history>>

\* pending -> completed: the winner fulfils.
ClaimPay(h) ==
    /\ pc[h] = "claim"
    /\ IF status[inv[h]] = "pending"
       THEN /\ status' = [status EXCEPT ![inv[h]] = "completed"]
            /\ Goto(h, "recheck") /\ UNCHANGED locals
       ELSE Return(h) /\ UNCHANGED status
    /\ UNCHANGED <<wallet, users, provider, history, bounds>>

RecheckAccount(h) ==
    /\ pc[h] = "recheck"
    /\ Torndown("package", Goto(h, "undo") /\ UNCHANGED locals, h)
    /\ UNCHANGED <<status, wallet, users, provider, history>>

\* coinPackages.findByCode, of fulfilCoins and of reverseCoins.  A deleted
\* package fails the fulfilment, and ends the reversal.
ReadPackage(h) ==
    /\ pc[h] = "package"
    /\ IF pack > 0
       THEN /\ Goto(h, IF kind[h] = "pay" THEN "credit" ELSE "balance")
            /\ left' = [left EXCEPT ![h] = pack]
            /\ IF kind[h] = "pay"
               THEN UNCHANGED <<runs, due>>
               ELSE /\ runs' = [runs EXCEPT ![inv[h]] = @ + 1]
                    /\ due'  = [due EXCEPT ![inv[h]] = pack]
            /\ UNCHANGED <<kind, inv, seen, got, want>>
       ELSE /\ \/ kind[h] = "pay" /\ Goto(h, "undo") /\ UNCHANGED locals
               \/ kind[h] # "pay" /\ Return(h)
            /\ UNCHANGED <<runs, due>>
    /\ UNCHANGED <<status, wallet, users, provider, paid, taken, halted, bounds>>

\* What a credit of n repays of the debt (maybeReleaseHold).
Repaid(n) == IF frozen THEN Lesser(n, held) ELSE 0

\* wallet.credit of n under the ledger keys k: the balance, its row, and the
\* repayment of the hold with a row of its own, in one transaction.
Credit(k, n) ==
    LET repaid == Repaid(n)
        clears == frozen /\ held = repaid
    IN /\ k \cap rows = {}
       /\ repaid > 0 => RepayRow(holdRef, held) \notin rows
       /\ balance'  = balance + n - repaid
       /\ held'     = held - repaid
       /\ frozen'   = (frozen /\ ~clears)
       /\ holdRef'  = IF clears THEN NoInvoice ELSE holdRef
       /\ heldRefs' = IF clears THEN {} ELSE heldRefs
       /\ rows'     = rows \cup k
                           \cup (IF repaid > 0 THEN {RepayRow(holdRef, held)} ELSE {})
       /\ posted'   = posted + n - repaid

\* The credit commits; its answer arrives, or the call throws all the same.
FulfilCoins(h) ==
    /\ pc[h] = "credit"
    /\ Credit({PurchaseRow(inv[h])}, left[h])
    /\ paid' = [paid EXCEPT ![inv[h]] = @ + left[h]]
    /\ \/ Return(h) /\ UNCHANGED bounds
       \/ Goto(h, "undo") /\ Fault /\ UNCHANGED locals
    /\ UNCHANGED <<status, users, provider, taken, runs, due, halted>>

\* A ledger row with that key exists: nothing is written.  A second credit of
\* the invoice is passed over, or the aborted transaction makes the call throw.
CreditDuplicate(h) ==
    /\ pc[h] = "credit"
    /\ \/ PurchaseRow(inv[h]) \in rows
       \/ Repaid(left[h]) > 0 /\ RepayRow(holdRef, held) \in rows
    /\ \/ PurchaseRow(inv[h]) \in rows /\ Return(h)
       \/ Goto(h, "undo") /\ UNCHANGED locals
    /\ UNCHANGED <<status, wallet, users, provider, history, bounds>>

CreditFails(h) ==
    /\ pc[h] = "credit"
    /\ Fault
    /\ Goto(h, "undo")
    /\ UNCHANGED <<status, wallet, users, provider, locals, history>>

\* Both rollbacks: the status becomes pending, whatever it is by now.
UndoClaim(h) ==
    /\ pc[h] = "undo"
    /\ status' = [status EXCEPT ![inv[h]] = "pending"]
    /\ Return(h)
    /\ UNCHANGED <<wallet, users, provider, history, bounds>>

-----------------------------------------------------------------------------
(* Fail *)

MarkFailed(h) ==
    /\ pc[h] = "markFailed"
    /\ status' = [status EXCEPT ![inv[h]] = IF @ = "pending" THEN "failed" ELSE @]
    /\ Return(h)
    /\ UNCHANGED <<wallet, users, provider, history, bounds>>

-----------------------------------------------------------------------------
(* Refund, by webhook and by an admin *)

\* The webhook claims any status but refunded, and reverses only what it had
\* read as completed.
ClaimRefund(h) ==
    /\ pc[h] = "claimRefund"
    /\ kind[h] = "refund"
    /\ status' = [status EXCEPT ![inv[h]] = "refunded"]
    /\ IF status[inv[h]] # "refunded" /\ seen[h] = "completed"
       THEN Goto(h, "package") /\ UNCHANGED locals
       ELSE Return(h)
    /\ UNCHANGED <<wallet, users, provider, history, bounds>>

\* The admin refunds at the provider first, which may reject it.
RefundUpstream(h) ==
    /\ pc[h] = "upstream"
    /\ \/ /\ inv[h] \in charged \ returned
          /\ returned' = returned \cup {inv[h]}
          /\ Goto(h, "claimRefund") /\ UNCHANGED locals
       \/ Return(h) /\ UNCHANGED returned
    /\ UNCHANGED <<status, wallet, users, charged, declined, history, bounds>>

ClaimAdminRefund(h) ==
    /\ pc[h] = "claimRefund"
    /\ kind[h] = "admin"
    /\ IF status[inv[h]] = "completed"
       THEN /\ status' = [status EXCEPT ![inv[h]] = "refunded"]
            /\ Goto(h, "package") /\ UNCHANGED locals
       ELSE Return(h) /\ UNCHANGED status
    /\ UNCHANGED <<wallet, users, provider, history, bounds>>

-----------------------------------------------------------------------------
(* wallet.reverseRefund *)

\* The balance bounds the next clawback; nothing left to claw is debt.
ReadBalance(h) ==
    /\ pc[h] = "balance"
    /\ want' = [want EXCEPT ![h] = IF balance > 0 THEN Lesser(balance, left[h]) ELSE 0]
    /\ Goto(h, IF balance > 0 THEN "debit" ELSE "hold")
    /\ UNCHANGED <<status, wallet, users, provider, kind, inv, seen, left, got, history, bounds>>

\* The guarded debit, one transaction with its ledger row; the loop goes on
\* while something is left.
ClawBack(h) ==
    /\ pc[h] = "debit"
    /\ balance >= want[h]
    /\ ClawRow(inv[h], got[h]) \notin rows
    /\ balance' = balance - want[h]
    /\ posted'  = posted - want[h]
    /\ rows'    = rows \cup {ClawRow(inv[h], got[h])}
    /\ taken'   = [taken EXCEPT ![inv[h]] = @ + want[h]]
    /\ IF left[h] = want[h]
       THEN Return(h)
       ELSE /\ got'  = [got EXCEPT ![h] = @ + want[h]]
            /\ left' = [left EXCEPT ![h] = @ - want[h]]
            /\ want' = [want EXCEPT ![h] = 0]
            /\ Goto(h, "balance")
            /\ UNCHANGED <<kind, inv, seen>>
    /\ UNCHANGED <<status, held, frozen, holdRef, heldRefs, users, provider, paid, runs, due, halted, bounds>>

\* A concurrent spend has taken the coins: InsufficientFunds, read again.  (The
\* cap on the attempts, one more than the coins to take, is left out: past it the
\* rest becomes debt, as at an empty balance.)
ClawBackRaced(h) ==
    /\ pc[h] = "debit"
    /\ balance < want[h]
    /\ want' = [want EXCEPT ![h] = 0]
    /\ Goto(h, "balance")
    /\ UNCHANGED <<status, wallet, users, provider, kind, inv, seen, left, got, history, bounds>>

\* The row exists from an earlier reversal of the invoice: nothing is written,
\* and the debit counts as done, or throws, which the refund swallows.
ClawBackDuplicate(h) ==
    /\ pc[h] = "debit"
    /\ balance >= want[h]
    /\ ClawRow(inv[h], got[h]) \in rows
    /\ \/ Return(h)
       \/ /\ left[h] > want[h]
          /\ got'  = [got EXCEPT ![h] = @ + want[h]]
          /\ left' = [left EXCEPT ![h] = @ - want[h]]
          /\ want' = [want EXCEPT ![h] = 0]
          /\ Goto(h, "balance")
          /\ UNCHANGED <<kind, inv, seen>>
    /\ UNCHANGED <<status, wallet, users, provider, history, bounds>>

\* applyEconomyHold: the rest is debt, once for each refund.
RecordDebt(h) ==
    /\ pc[h] = "hold"
    /\ IF inv[h] \in heldRefs
       THEN UNCHANGED <<held, frozen, holdRef, heldRefs, taken>>
       ELSE /\ held'     = held + left[h]
            /\ frozen'   = TRUE
            /\ holdRef'  = inv[h]
            /\ heldRefs' = heldRefs \cup {inv[h]}
            /\ taken'    = [taken EXCEPT ![inv[h]] = @ + left[h]]
    /\ Return(h)
    /\ UNCHANGED <<status, balance, rows, posted, users, provider, paid, runs, due, halted, bounds>>

\* A call of the reversal throws: logged, and the refund is acknowledged.
ReversalFails(h) ==
    /\ pc[h] \in {"package", "balance", "debit", "hold"}
    /\ kind[h] # "pay"
    /\ Fault
    /\ halted' = halted \cup {<<kind[h], inv[h]>>}
    /\ Return(h)
    /\ UNCHANGED <<status, wallet, users, provider, paid, taken, runs, due>>

-----------------------------------------------------------------------------
(* The environment *)

\* The user moves coins (a gift, a cover, a placement): debit with its guards.
\* The manual debits of an administrator, exempt from the hold, are left out.
Spend ==
    /\ moves < MaxMoves
    /\ moves' = moves + 1
    /\ balance >= Price /\ ~frozen
    /\ balance' = balance - Price
    /\ posted'  = posted - Price
    /\ UNCHANGED <<status, held, frozen, holdRef, heldRefs, rows, users, provider,
                   pc, locals, history, starts, edits, faults>>

\* The user earns coins (a daily bonus, a referral, a manual credit): credit under
\* a key of its own, which no invoice has and the model does not keep.
Earn ==
    /\ moves < MaxMoves
    /\ moves' = moves + 1
    /\ Credit({}, Reward)
    /\ UNCHANGED <<status, users, provider, pc, locals, history, starts, edits, faults>>

Happens == Cardinality(charged) + Cardinality(declined) + edits < MaxEvents

\* The provider declines an attempt, charges, or refunds on its own.
ProviderDeclines(i) ==
    /\ Happens
    /\ i \notin declined \cup charged
    /\ declined' = declined \cup {i}
    /\ UNCHANGED <<status, wallet, users, charged, returned, pc, locals, history, bounds>>

ProviderCharges(i) ==
    /\ Happens
    /\ i \notin charged
    /\ charged' = charged \cup {i}
    /\ UNCHANGED <<status, wallet, users, declined, returned, pc, locals, history, bounds>>

ProviderRefunds(i) ==
    /\ i \in charged \ returned
    /\ returned' = returned \cup {i}
    /\ UNCHANGED <<status, wallet, users, charged, declined, pc, locals, history, bounds>>

\* An admin edits or deletes the package.
EditPackage ==
    /\ Happens
    /\ edits' = edits + 1
    /\ pack' \in PackSizes \ {pack}
    /\ UNCHANGED <<status, wallet, user, zeroed, provider, pc, locals, history,
                   starts, moves, faults>>

\* A ban, the end of a ban, and an erasure, whose teardown zeroes the balance
\* afterwards, if it gets that far.
ChangeAccount ==
    /\ Happens
    /\ edits' = edits + 1
    /\ user # "erased"
    /\ user' \in {"active", "banned", "erased"} \ {user}
    /\ UNCHANGED <<status, wallet, pack, zeroed, provider, pc, locals, history,
                   starts, moves, faults>>

ZeroWallet ==
    /\ user = "erased" /\ ~zeroed
    /\ balance' = 0
    /\ zeroed' = TRUE
    /\ UNCHANGED <<status, held, frozen, holdRef, heldRefs, rows, posted, pack, user,
                   provider, pc, locals, history, bounds>>

\* The node that runs h dies, or a database call throws where nothing catches it
\* (a rollback included): the handler stops where it is.
Crash(h) ==
    /\ pc[h] # "idle"
    /\ Fault
    /\ halted' = halted \cup {<<kind[h], inv[h]>>}
    /\ Return(h)
    /\ UNCHANGED <<status, wallet, users, provider, paid, taken, runs, due>>

-----------------------------------------------------------------------------
Pay(h) ==
    \/ CheckAccount(h) \/ ClaimPay(h) \/ RecheckAccount(h) \/ ReadPackage(h)
    \/ FulfilCoins(h) \/ CreditDuplicate(h) \/ CreditFails(h) \/ UndoClaim(h)

Refund(h) ==
    \/ ClaimRefund(h) \/ RefundUpstream(h) \/ ClaimAdminRefund(h)
    \/ ReadBalance(h) \/ ClawBack(h) \/ ClawBackRaced(h) \/ ClawBackDuplicate(h)
    \/ RecordDebt(h) \/ ReversalFails(h)

Step(h) == ReadPayment(h) \/ Pay(h) \/ MarkFailed(h) \/ Refund(h)

StartAny(h) ==
    \E i \in Invoices : \/ \E k \in {"pay", "fail", "refund"} : StartWebhook(h, k, i)
                        \/ StartAdminRefund(h, i)

Environment ==
    \/ Spend \/ Earn \/ EditPackage \/ ChangeAccount \/ ZeroWallet
    \/ \E i \in Invoices : ProviderDeclines(i) \/ ProviderCharges(i) \/ ProviderRefunds(i)

Next ==
    \/ \E h \in Handlers : StartAny(h) \/ Step(h) \/ Crash(h)
    \/ Environment

Spec == Init /\ [][Next]_vars

-----------------------------------------------------------------------------
(* Properties *)

\* No handler is in flight.
Quiet == \A h \in Handlers : pc[h] = "idle"

\* What wallet.service.ts calls the invariant: the balance is the sum of the
\* ledger, whatever was credited twice, clawed back or repaid, and no overdraft.
LedgerBalances == balance >= 0 /\ (~zeroed => balance = posted)

\* A debt and the hold on the account come and go together, so a user who owes
\* coins cannot spend and one who owes none is not kept from it.
HoldMatchesDebt == held >= 0 /\ (frozen <=> held > 0) /\ (frozen <=> holdRef # NoInvoice)

\* A payment that ends up completed has been credited: when the credit fails, or
\* the package is gone, the claim is undone, and a second delivery starts afresh.
\* A handler of Pay that stops half-way strands its own invoice and no other.
CompletedIsCredited ==
    Quiet => \A i \in Invoices :
        status[i] = "completed" /\ <<"pay", i>> \notin halted => paid[i] > 0

\* No reversal of i has failed or stopped half-way.
Unbroken(i) == {<<"refund", i>>, <<"admin", i>>} \cap halted = {}

\* The reversal of an invoice takes back all it set out to take, at hand or as
\* debt, and no more, whatever was spent, credited or failed elsewhere meanwhile.
ReversalIsWhole ==
    Quiet => \A i \in Invoices : runs[i] <= 1 /\ Unbroken(i) => taken[i] = due[i]

\* What the documentation says of a refund: it reverses the fulfilment.
RefundReverses ==
    Quiet /\ faults = 0 =>
        \A i \in Invoices : status[i] = "refunded" => taken[i] = paid[i]

\* The account as a whole does what CoinAccount promises.
Account == INSTANCE CoinAccount WITH
    net      <- balance - held,
    closed   <- zeroed
AccountSpec == Account!Spec
=============================================================================
