-------------------------- MODULE MCBridgeOperator --------------------------
(***************************************************************************)
(* BridgeOperator on a small instance: two payments, of one or two         *)
(* accounts, and a depositor who calls the contract itself.                *)
(***************************************************************************)
EXTENDS BridgeOperator

CONSTANTS alice, bob

MCAccounts == {alice, bob}
MCAlice == {alice}
MCNobody == {}
MCOneAmount == {1}
MCTwoAmounts == {1, 2}
=============================================================================
