---------------------------- MODULE MCSequencer ----------------------------
(***************************************************************************)
(* Sequencer on a small instance: two accounts, two tokens of which one is *)
(* taken out of ALLOWED_TOKENS by some restarts, two deposits on L1.       *)
(***************************************************************************)
EXTENDS Sequencer

CONSTANTS alice, bob, xlm, usdc

MCAccount == {alice, bob}
MCToken == {xlm, usdc}

Signed(type, from, to, amount, nonce, signed) ==
    [type |-> type, from |-> from, to |-> to, token |-> xlm, amount |-> amount,
     nonce |-> nonce, signed |-> signed]

\* bob is the L1 recipient of alice's withdrawals as well.
MCRequest ==
    {Signed("transfer", alice, bob, 1, 0, TRUE),
     Signed("withdraw", alice, bob, 1, 0, TRUE),
     Signed("withdraw", alice, bob, 1, 1, TRUE),
     Signed("withdraw", alice, bob, 2, 0, FALSE),
     Signed("withdraw", alice, bob, 2, 1, TRUE),
     Signed("transfer", bob, alice, 1, 0, TRUE),
     Signed("transfer", alice, alice, 1, 0, TRUE)}

MCL1Deposit == <<[l2Recipient |-> alice, token |-> xlm, amount |-> 2],
                 [l2Recipient |-> alice, token |-> usdc, amount |-> 1]>>

MCAllowedTokenSets == {{xlm}, {xlm, usdc}}

MCTxBytes == [deposit |-> 3, transfer |-> 4, withdraw |-> 4]
=============================================================================
