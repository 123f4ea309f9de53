----------------------------- MODULE MCOfframp -----------------------------
(***************************************************************************)
(* Offramp on a small instance: a batch with withdrawals to two payees,    *)
(* who may have no account, and a batch with one.                          *)
(***************************************************************************)
EXTENDS Offramp

CONSTANTS ann, ben

MCPayees == {ann, ben}
MCOutboxes == <<<<ann, ben>>, <<ben>>>>
=============================================================================
