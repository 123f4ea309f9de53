--------------------------- MODULE MCFlashBridge ---------------------------
(***************************************************************************)
(* FlashBridge on a small instance.  The published trees are arbitrary:    *)
(* nothing in the contract ties them to what the vault holds, so some of   *)
(* them promise more than was deposited, name one account twice, or carry  *)
(* withdrawals built for another batch.                                    *)
(***************************************************************************)
EXTENDS FlashBridge, TLC

CONSTANTS alice, bob, op1, op2, xlm

MCAddress == {alice, bob}
MCOperator == {op1, op2}
MCToken == {xlm}

\* The two operator accounts are interchangeable: they occur only in the two
\* configuration variables and as callers.
Symmetry == Permutations(MCOperator)

Request(from, amount, l2Recipient) ==
    [from |-> from, token |-> xlm, amount |-> amount, l2Recipient |-> l2Recipient]

MCDepositRequest == {Request(bob, 2, alice), Request(bob, 0, bob)}

Leaf(account, balance) ==
    [account |-> account, token |-> xlm, balance |-> balance, nonce |-> 0]

MCStateRoot == {{Leaf(alice, 1)}, {Leaf(alice, 1), Leaf(alice, 2), Leaf(bob, 0)}}

Out(recipient, amount) == [recipient |-> recipient, token |-> xlm, amount |-> amount]

MCWithdrawalsRoot == {[batch |-> 1, leaves |-> <<Out(bob, 1)>>],
                      [batch |-> 2, leaves |-> <<Out(bob, 1), Out(bob, 1)>>]}
=============================================================================
