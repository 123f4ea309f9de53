---------------------------- MODULE FlashLedger ----------------------------
(***************************************************************************)
(* What Flash promises its users: a payment that is accepted takes effect  *)
(* at once, completely and for good, and accepted payments are published   *)
(* in the order they were accepted, each of them once.  There are no       *)
(* processes, crashes, batches or snapshots here.                          *)
(***************************************************************************)
EXTENDS FlashState

CONSTANTS Request, L1Deposit

VARIABLES
    accepted,   \* the accepted transactions, in order
    published   \* the transactions published on L1

vars == <<accepted, published>>

\* The balances and nonces after what was accepted.
Book == StateAfter(accepted)

Init ==
    /\ accepted = <<>>
    /\ published = <<>>

Accept(tx) ==
    /\ Valid(Book, Token, tx)
    /\ accepted' = Append(accepted, tx)
    /\ UNCHANGED published

CreditDeposit(n) ==
    Accept([type |-> "deposit", depositIndex |-> n - 1, to |-> L1Deposit[n].l2Recipient,
            token |-> L1Deposit[n].token, amount |-> L1Deposit[n].amount])

\* The next accepted transactions, up to the n-th, are published.
Publish(n) ==
    /\ n > Len(published)
    /\ published' = SubSeq(accepted, 1, n)
    /\ UNCHANGED accepted

Next ==
    \/ \E tx \in Request : Accept(tx)
    \/ \E n \in DOMAIN L1Deposit : CreditDeposit(n)
    \/ \E n \in DOMAIN accepted : Publish(n)

Spec == Init /\ [][Next]_vars
=============================================================================
