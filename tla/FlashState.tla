----------------------------- MODULE FlashState -----------------------------
(***************************************************************************)
(* protocol/src/state.ts: the deterministic transition function that the   *)
(* sequencer, the SDK and every auditor run over the same transactions.    *)
(* A state is a value, the operators below are the methods of FlashState.  *)
(*                                                                         *)
(* Abstractions: a root is the set of the leaves hashed into it, except    *)
(* where a proof is built from their tree (module Merkle); whether a       *)
(* signature verifies is the field `signed` of the transaction; amounts    *)
(* are integers (bigint).  The tree of an outbox is the batch index and    *)
(* the sequence of its leaves, which withdrawal leaves are hashed with.    *)
(***************************************************************************)
EXTENDS Merkle, SequencesExt

CONSTANTS
    Account,  \* L2 accounts
    Token     \* token contracts

AccountState == [balance : Nat, nonce : Nat]

\* The transactions as they are decoded; most are not valid.
L2Tx ==
    [type : {"transfer", "withdraw"}, from : Account, to : Account, token : Token,
     amount : Int, nonce : Nat, signed : BOOLEAN]
    \cup
    [type : {"deposit"}, depositIndex : Nat, to : Account, token : Token, amount : Int]

\* new FlashState(domain)
EmptyState == [accounts |-> [k \in {} |-> [balance |-> 0, nonce |-> 0]],
               nextDepositIndex |-> 0]

Get(s, account, token) ==
    IF <<account, token>> \in DOMAIN s.accounts
    THEN s.accounts[<<account, token>>]
    ELSE [balance |-> 0, nonce |-> 0]

Put(s, account, token, acc) ==
    LET key == <<account, token>>
    IN  [s EXCEPT !.accounts =
            [k \in DOMAIN @ \cup {key} |-> IF k = key THEN acc ELSE @[k]]]

\* Mutant: a spent nonce stays valid.
NonceAccepted(s, tx) == tx.nonce <= Get(s, tx.from, tx.token).nonce

NonceMatches(s, tx) == tx.nonce = Get(s, tx.from, tx.token).nonce

\* Mutant: any positive balance covers the amount.
SomeBalance(s, tx) == Get(s, tx.from, tx.token).balance > 0

BalanceCovers(s, tx) == Get(s, tx.from, tx.token).balance >= tx.amount

\* validate(tx): TRUE when it does not throw.
Valid(s, allowedTokens, tx) ==
    /\ tx.amount > 0
    /\ tx.token \in allowedTokens
    /\ \/ /\ tx.type = "deposit"
          /\ tx.depositIndex = s.nextDepositIndex
       \/ /\ tx.type \in {"transfer", "withdraw"}
          /\ tx.type = "transfer" => tx.from # tx.to
          /\ tx.signed
          /\ NonceMatches(s, tx)
          /\ BalanceCovers(s, tx)

Credit(s, account, token, amount) ==
    LET cur == Get(s, account, token)
    IN  Put(s, account, token, [cur EXCEPT !.balance = @ + amount])

\* Mutant: the nonce is spent, the amount stays.
BumpOnly(s, account, token, amount) ==
    LET cur == Get(s, account, token)
    IN  Put(s, account, token, [cur EXCEPT !.nonce = @ + 1])

DebitAndBump(s, account, token, amount) ==
    LET cur == Get(s, account, token)
    IN  Put(s, account, token, [balance |-> cur.balance - amount, nonce |-> cur.nonce + 1])

\* apply(tx) of a valid transaction.
Apply(s, tx) ==
    CASE tx.type = "deposit" ->
            [Credit(s, tx.to, tx.token, tx.amount) EXCEPT !.nextDepositIndex = @ + 1]
      [] tx.type = "transfer" ->
            Credit(DebitAndBump(s, tx.from, tx.token, tx.amount), tx.to, tx.token, tx.amount)
      [] tx.type = "withdraw" ->
            DebitAndBump(s, tx.from, tx.token, tx.amount)

\* root()
Root(s) ==
    {[account |-> k[1], token |-> k[2],
      balance |-> s.accounts[k].balance, nonce |-> s.accounts[k].nonce] : k \in DOMAIN s.accounts}

\* The order of the bytes of the keys, of which only matters that it is one.
CanonicalOrder(keys) == SetToSeq(keys)

\* leaves(), of the state with this root.
LeavesOf(root) ==
    LET keys == CanonicalOrder({<<leaf.account, leaf.token>> : leaf \in root})
    IN  [i \in DOMAIN keys |-> CHOOSE leaf \in root : <<leaf.account, leaf.token>> = keys[i]]

StateLeaf(leaf) == Leaf(leaf)

\* The tree whose root is published for a state.
StateTree(root) == [i \in DOMAIN LeavesOf(root) |-> StateLeaf(LeavesOf(root)[i])]

\* proofFor(account, token), for an account of the state.
ProofFor(s, account, token) ==
    LET leaves == LeavesOf(Root(s))
        i == CHOOSE i \in DOMAIN leaves : leaves[i].account = account /\ leaves[i].token = token
    IN  [leaf |-> leaves[i], leafIndex |-> i - 1, proof |-> GetProof(StateTree(Root(s)), i - 1)]

\* totalsByToken(): the FXLM issued of a token.
Issued(s, token) ==
    MapThenSumSet(LAMBDA k : s.accounts[k].balance, {k \in DOMAIN s.accounts : k[2] = token})

\* The leaf a withdraw leaves in the outbox.
WithdrawalOf(tx) == [recipient |-> tx.to, token |-> tx.token, amount |-> tx.amount]

\* withdrawalsTree(batchIndex, withdrawals).root
WithdrawalsTree(batchIndex, withdrawals) == [batch |-> batchIndex, leaves |-> withdrawals]

WithdrawalLeaf(tree, w) == Leaf([batch |-> tree.batch, wIndex |-> w - 1, leaf |-> tree.leaves[w]])

\* The leaves that are hashed into a withdrawals tree.
OutboxTree(tree) == [w \in DOMAIN tree.leaves |-> WithdrawalLeaf(tree, w)]

\* One transaction more: the state and the withdrawals after it.  One that does
\* not validate stops the replay.
ReplayTx(before, tx) ==
    IF before.ok /\ Valid(before.state, Token, tx)
    THEN [ok |-> TRUE,
          state |-> Apply(before.state, tx),
          withdrawals |-> IF tx.type = "withdraw"
                          THEN Append(before.withdrawals, WithdrawalOf(tx))
                          ELSE before.withdrawals]
    ELSE [before EXCEPT !.ok = FALSE]

\* What the replay of txs from s arrives at after each prefix.
ReplayFrom(s, txs) ==
    LET replay[i \in 0..Len(txs)] ==
            IF i = 0 THEN [ok |-> TRUE, state |-> s, withdrawals |-> <<>>]
            ELSE ReplayTx(replay[i - 1], txs[i])
    IN  replay

\* replayBatch(state, batchIndex, txs)
ReplayBatch(s, batchIndex, txs) ==
    LET end == ReplayFrom(s, txs)[Len(txs)]
    IN  [ok |-> end.ok,
         state |-> end.state,
         newStateRoot |-> Root(end.state),
         withdrawalsRoot |-> WithdrawalsTree(batchIndex, end.withdrawals)]

\* The state after replaying txs from genesis.
StateAfter(txs) == ReplayFrom(EmptyState, txs)[Len(txs)].state
=============================================================================
