------------------------------ MODULE MCWallet ------------------------------
(***************************************************************************)
(* Wallet on a small instance: ann is on the allowlist and has been paid   *)
(* two units by a deposit, ben is not on it and another client pays him.   *)
(***************************************************************************)
EXTENDS Wallet

CONSTANTS ann, ben, xlm

MCAccount == {ann, ben}
MCToken == {xlm}
MCFunding ==
    <<[type |-> "deposit", depositIndex |-> 0, to |-> ann, token |-> xlm, amount |-> 2,
       l1TxHash |-> "funding"]>>
MCForms ==
    {[type |-> "transfer", to |-> ben, amount |-> 1],
     [type |-> "withdraw", to |-> ann, amount |-> 1],
     [type |-> "deposit", to |-> ann, amount |-> 1]}
MCOthersForms == {[from |-> ann, type |-> "transfer", to |-> ben, amount |-> 1]}
MCStages == <<"none", "claimed">>
MCAllowlist == {ann}
=============================================================================
