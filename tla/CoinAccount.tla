------------------------------ MODULE CoinAccount ------------------------------
(***************************************************************************)
(* What the wallet promises of a user's coins, whatever webhooks, retries, *)
(* races and crashes lie behind it.  The account is one number, the coins  *)
(* at hand minus the coins owed.  A purchase adds to it once; what's spent *)
(* is there, with nothing owed; and nothing else takes from it but the     *)
(* refunds of a purchase, coin by coin on record, and the account's end.   *)
(***************************************************************************)
EXTENDS Integers

CONSTANTS
    Invoices,
    Price,      \* what a thing bought with coins costs
    Reward      \* what is earned other than by purchase

VARIABLES
    net,        \* coins at hand minus coins owed
    paid,       \* the coins each invoice was credited with
    taken,      \* the coins the refunds of each invoice have taken
    closed      \* the account has been wiped

account == <<net, paid, taken, closed>>

Init ==
    /\ net = 0
    /\ paid = [i \in Invoices |-> 0]
    /\ taken = [i \in Invoices |-> 0]
    /\ closed = FALSE

Credit(i) ==
    /\ paid[i] = 0
    /\ paid'[i] > 0
    /\ paid' = [paid EXCEPT ![i] = paid'[i]]
    /\ net' = net + paid'[i]
    /\ UNCHANGED <<taken, closed>>

Earn ==
    /\ net' = net + Reward
    /\ UNCHANGED <<paid, taken, closed>>

Spend ==
    /\ net >= Price
    /\ net' = net - Price
    /\ UNCHANGED <<paid, taken, closed>>

Reverse(i) ==
    /\ taken'[i] > taken[i]
    /\ taken' = [taken EXCEPT ![i] = taken'[i]]
    /\ net' = net - (taken'[i] - taken[i])
    /\ UNCHANGED <<paid, closed>>

Close ==
    /\ ~closed
    /\ closed' = TRUE
    /\ net' <= net
    /\ UNCHANGED <<paid, taken>>

Next == Earn \/ Spend \/ Close \/ \E i \in Invoices : Credit(i) \/ Reverse(i)

Spec == Init /\ [][Next]_account
=============================================================================
