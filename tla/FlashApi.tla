------------------------------ MODULE FlashApi ------------------------------
(***************************************************************************)
(* sequencer/src/api/server.ts over limits.ts and db/store.ts: what a      *)
(* request is answered.  A handler runs to its end once the body is read,  *)
(* so each is an operator on the rows of the log, `log`, and the state of  *)
(* the sequencer, `s`.                                                     *)
(*                                                                         *)
(* Abstractions: addresses and JSON are well formed; a listing is not cut  *)
(* by its limit; fields only for display are left out.  A row is           *)
(* identified by its seq, the position in the log.                         *)
(***************************************************************************)
EXTENDS FlashState, FlashCodec

CONSTANTS Allowlist  \* limits.allowlist; empty when everybody is allowed

-----------------------------------------------------------------------------
(* Views *)

\* The row's account columns.
RowAccounts(tx) == IF tx.type = "deposit" THEN {tx.to} ELSE {tx.from, tx.to}

\* txsForAccount: the rows from or to an account.
TxsForAccount(log, account) == {seq \in DOMAIN log : account \in RowAccounts(log[seq])}

\* Mutant: the payment that will be made is counted already.
NonceToBe(s, account, token) == Get(s, account, token).nonce + 1

\* GET /accounts/:address/nonce
GetNonce(s, account, token) == Get(s, account, token).nonce

\* Mutant: everything of the account is listed.
EveryRow(log, account) == TxsForAccount(log, account)

\* The withdrawals of the listing.
WithdrawalsOf(log, account) == {seq \in TxsForAccount(log, account) : log[seq].type = "withdraw"}

\* GET /accounts/:address
AccountView(s, log, account, token) ==
    [balance |-> Get(s, account, token).balance,
     withdrawals |-> WithdrawalsOf(log, account)]

\* GET /withdrawals/:txId/proof, where stages[seq] is what became of the
\* withdrawal: 404 until it is in a batch; claimed when the offramp row is.
ProofView(stages, seq) == [ok |-> stages[seq] # "none", stage |-> stages[seq]]

\* GET /accounts/:address/onramp: the payments whose rows name the account.
OnrampView(payments, account) == {p \in payments : p.account = account}

-----------------------------------------------------------------------------
(* POST /transactions *)

\* isAllowlisted
IsAllowlisted(account) == Allowlist = {} \/ account \in Allowlist

\* Mutant: a withdrawal is asked for the allowlist too.
EveryTxIsSpending(tx) == IsAllowlisted(tx.from)

\* canSpend, which only an L2 payment must pass.
CanSpend(tx) == tx.type = "transfer" => IsAllowlisted(tx.from)

\* validate, in its order: what it throws, and when.
Refusals(s, tx) ==
    << [code |-> "INVALID_AMOUNT",       if |-> tx.amount <= 0],
       [code |-> "TOKEN_NOT_ALLOWED",    if |-> tx.token \notin Token],
       [code |-> "SELF_TRANSFER",        if |-> tx.type = "transfer" /\ tx.from = tx.to],
       [code |-> "INVALID_SIGNATURE",    if |-> ~VerifyTxSignature(tx)],
       [code |-> "BAD_NONCE",            if |-> ~NonceMatches(s, tx)],
       [code |-> "INSUFFICIENT_BALANCE", if |-> ~BalanceCovers(s, tx)] >>

\* A transaction is executed once: its id is taken.
Duplicate(log, tx) == \E i \in DOMAIN log : TxId(log[i]) = TxId(tx)

Answer(status, code) == [status |-> status, code |-> code]

\* submit, and what its exceptions become; one that is no FlashError is a 500:
\* snapshotFails, after the transaction was executed.
Submit(s, log, tx, snapshotFails) ==
    LET refusals == Refusals(s, tx)
        refused  == {i \in DOMAIN refusals : refusals[i].if}
    IN  CASE refused # {} -> Answer(422, refusals[Min(refused)].code)
          [] refused = {} /\ Duplicate(log, tx) -> Answer(422, "BAD_NONCE")
          [] OTHER -> IF snapshotFails THEN Answer(500, "INTERNAL") ELSE Answer(201, "receipt")

\* The answer to a posted transaction.
PostTransaction(s, log, json, snapshotFails) ==
    LET parsed == TxFromJson(json)
    IN  CASE ~parsed.ok -> Answer(400, "BAD_TX")
          [] parsed.ok /\ parsed.tx.type = "deposit" -> Answer(400, "BAD_TX")
          [] parsed.ok /\ parsed.tx.type # "deposit" /\ ~CanSpend(parsed.tx) -> Answer(403, "NOT_ALLOWLISTED")
          [] OTHER -> Submit(s, log, parsed.tx, snapshotFails)

Executed(answer) == answer.status \in {201, 500}
=============================================================================
