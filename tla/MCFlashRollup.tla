--------------------------- MODULE MCFlashRollup ---------------------------
(***************************************************************************)
(* FlashRollup on a small instance: alice deposits for herself, pays bob   *)
(* and withdraws; the roots are those the sequencer publishes.             *)
(***************************************************************************)
EXTENDS MockL1

CONSTANTS alice, bob, op, xlm

MCAddress == {alice, bob}

MCToken == {xlm}

MCOperator == {op}

MCDepositRequest == {[from |-> alice, token |-> xlm, amount |-> 2, l2Recipient |-> alice]}

Ask(type, from, to) == [type |-> type, from |-> from, to |-> to, token |-> xlm, amount |-> 1]

MCL2Request == {Ask("transfer", alice, bob), Ask("withdraw", alice, alice), Ask("withdraw", bob, bob)}

\* The published roots are computed, none is chosen from a set.
MCNoRoot == {}
=============================================================================
