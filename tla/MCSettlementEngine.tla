------------------------- MODULE MCSettlementEngine -------------------------
(***************************************************************************)
(* SettlementEngine on a small instance: two batches, two endpoints, and   *)
(* enough ledgers for both batches to become final.                        *)
(***************************************************************************)
EXTENDS SettlementEngine

CONSTANTS genesis, r1

MCBatchRoot == {genesis, r1}
MCOneRoot == {genesis}
=============================================================================
