---------------------------- MODULE FlashBridge ----------------------------
(***************************************************************************)
(* The Soroban contract contracts/flash-bridge/src/lib.rs: the vault that  *)
(* backs every FXLM, the chain of committed batches, the outbox of         *)
(* withdrawals and the two emergency exits (escape, reclaim_deposit).      *)
(*                                                                         *)
(* Abstractions:                                                           *)
(*  - A hash is the value hashed.  A state root is the set of its leaves,  *)
(*    a withdrawals root is the batch index its leaves were built for and  *)
(*    their sequence, so a Merkle proof verifies exactly for a leaf that   *)
(*    is in the tree (module Merkle checks verify_proof itself).           *)
(*  - Batches and withdrawals are numbered from 1 (the code counts from 0);*)
(*    deposits keep the code's numbering, because cursors are compared     *)
(*    with it.                                                             *)
(*  - An invocation that returns an error or panics is rolled back by the  *)
(*    host: it is no step.  A whole invocation is one step.                *)
(*  - The TTL of storage entries is left out.                              *)
(***************************************************************************)
EXTENDS Integers, Sequences

CONSTANTS
    Address,           \* accounts that deposit and are paid
    Operator,          \* accounts that may be admin or sequencer
    Token,             \* token contracts
    DepositRequest,    \* deposits users ask for, invalid amounts included
    StateRoot,         \* state roots a sequencer may publish (sets of leaves)
    WithdrawalsRoot,   \* withdrawals roots a sequencer may publish
    ChallengePeriod,   \* challenge_period_ledgers
    LivenessTimeout,   \* liveness_timeout_ledgers
    DeployLedger,      \* the ledger of the constructor call
    U32Max,            \* largest ledger number (u32::MAX in the code)
    MaxBatches,        \* bound: batches committed
    MaxDeposits        \* bound: deposits made

StateLeaf == [account : Address, token : Token, balance : Int, nonce : Nat]

Withdrawal == [recipient : Address, token : Token, amount : Int]

\* The constructor panics unless liveness_timeout >= challenge_period.
ASSUME BridgeConfig ==
    /\ ChallengePeriod \in Nat
    /\ LivenessTimeout \in Nat
    /\ LivenessTimeout >= ChallengePeriod
    /\ U32Max \in Nat
    /\ DeployLedger \in 0..U32Max

ASSUME BridgeInputs ==
    /\ DepositRequest \subseteq
          [from : Address, token : Token, amount : Int, l2Recipient : Address]
    /\ StateRoot \subseteq SUBSET StateLeaf
    /\ WithdrawalsRoot \subseteq [batch : Nat, leaves : Seq(Withdrawal)]
    /\ MaxBatches \in Nat
    /\ MaxDeposits \in Nat

VARIABLES
    ledger,            \* env.ledger().sequence()
    admin,
    sequencer,
    paused,
    batches,           \* DataKey::Batch, in order; BatchCount is its length
    deposits,          \* DataKey::Deposit: index -> DepositInfo, entries are removed
    depositCount,      \* DataKey::DepositCount
    lastCommitLedger,  \* DataKey::LastCommitLedger
    claimed,           \* DataKey::Claimed(batch_index, w_index)
    escaped,           \* DataKey::Escaped(batch_index, account, token)
    vault,             \* the contract's balance of each token
    payouts            \* history: the bag of transfers out of the vault

configVars == <<admin, sequencer, paused>>
depositVars == <<deposits, depositCount>>
batchVars == <<batches, lastCommitLedger>>
exitVars == <<claimed, escaped, payouts>>
vars == <<ledger, configVars, batchVars, depositVars, exitVars, vault>>

-----------------------------------------------------------------------------
\* u32 saturating_add.
SaturatingAdd(a, b) == IF a + b > U32Max THEN U32Max ELSE a + b

\* zero_root: the root of the empty tree.
ZeroRoot == {}

IsFinalized(batch) ==
    ledger >= SaturatingAdd(batch.commitLedger, ChallengePeriod)

SequencerIsDead ==
    ledger > SaturatingAdd(lastCommitLedger, LivenessTimeout)

LastBatch == batches[Len(batches)]

\* The (state root, deposit cursor) a new batch must continue.
PrevState ==
    IF batches = <<>>
    THEN [stateRoot |-> ZeroRoot, depositCursor |-> 0]
    ELSE [stateRoot |-> LastBatch.stateRoot,
          depositCursor |-> LastBatch.depositCursor]

\* verify_proof for a state leaf, and for the withdrawal leaf of position w in
\* the tree of batch b, whose hash covers b and w as well.
VerifyStateProof(leaf, root) == leaf \in root

\* Mutant: the batch index is left out of the withdrawal leaf.
VerifyWithdrawalProofAnyBatch(b, w, leaf, root) ==
    /\ w \in 1..Len(root.leaves)
    /\ root.leaves[w].recipient = leaf.recipient

VerifyWithdrawalProof(b, w, leaf, root) ==
    /\ root.batch = b
    /\ w \in 1..Len(root.leaves)
    /\ root.leaves[w] = leaf

AddPayout(p) ==
    [q \in DOMAIN payouts \cup {p} |->
        IF q # p THEN payouts[q] ELSE IF p \in DOMAIN payouts THEN payouts[p] + 1 ELSE 1]

InVault(token, amount) == vault[token] >= amount

\* token.transfer(contract -> to): it traps when the vault is short.  The
\* payout is recorded with the right it pays off: withdrawal `index` of `batch`,
\* the escape of `to` from `batch`, or the deposit `index`.
PayOut(kind, batch, index, to, token, amount) ==
    /\ InVault(token, amount)
    /\ vault' = [vault EXCEPT ![token] = @ - amount]
    /\ payouts' = AddPayout([kind |-> kind, batch |-> batch, index |-> index,
                             to |-> to, token |-> token, amount |-> amount])

-----------------------------------------------------------------------------
Init ==
    /\ ledger = DeployLedger
    /\ admin \in Operator
    /\ sequencer \in Operator
    /\ paused = FALSE
    /\ batches = <<>>
    /\ deposits = [i \in {} |-> i]
    /\ depositCount = 0
    /\ lastCommitLedger = ledger
    /\ claimed = {}
    /\ escaped = {}
    /\ vault = [t \in Token |-> 0]
    /\ payouts = [p \in {} |-> 0]

\* A ledger closes.
CloseLedger ==
    /\ ledger < U32Max
    /\ ledger' = ledger + 1
    /\ UNCHANGED <<configVars, batchVars, depositVars, exitVars, vault>>

\* Mutant: DepositCount is not written back.
StoreDepositUncounted(info) ==
    /\ deposits' = [i \in DOMAIN deposits \cup {depositCount} |->
                       IF i = depositCount THEN info ELSE deposits[i]]
    /\ UNCHANGED depositCount

\* The entries deposit writes.
StoreDeposit(info) ==
    /\ deposits' = [i \in DOMAIN deposits \cup {depositCount} |->
                       IF i = depositCount THEN info ELSE deposits[i]]
    /\ depositCount' = depositCount + 1

\* deposit(from, token, amount, l2_recipient), authorised by `from`.
Deposit(d) ==
    /\ depositCount < MaxDeposits
    /\ ~paused
    /\ d.amount > 0
    /\ StoreDeposit([from |-> d.from, token |-> d.token, amount |-> d.amount,
                     l2Recipient |-> d.l2Recipient, ledger |-> ledger])
    /\ vault' = [vault EXCEPT ![d.token] = @ + d.amount]
    /\ UNCHANGED <<ledger, configVars, batchVars, exitVars>>

\* Mutant: LastCommitLedger keeps the ledger of the first batch.
StoreBatchOnly(info) ==
    /\ batches' = Append(batches, info)
    /\ lastCommitLedger' = IF batches = <<>> THEN ledger ELSE lastCommitLedger

\* The entries commit_batch writes.
StoreBatch(info) ==
    /\ batches' = Append(batches, info)
    /\ lastCommitLedger' = ledger

\* What commit_batch checks of a call: how the batch continues the chain, never
\* what the batch does.
MayCommit(caller, batchIndex, prevRoot, txCount, cursor) ==
    /\ ~paused
    /\ caller = sequencer
    /\ batchIndex = Len(batches) + 1
    /\ txCount # 0
    /\ prevRoot = PrevState.stateRoot
    /\ cursor >= PrevState.depositCursor
    /\ cursor <= depositCount

\* commit_batch(batch_index, prev_state_root, new_state_root, withdrawals_root,
\* tx_count, deposit_cursor, tx_data).
CommitBatch(caller, batchIndex, prevRoot, newRoot, wRoot, txCount, cursor) ==
    /\ Len(batches) < MaxBatches
    /\ MayCommit(caller, batchIndex, prevRoot, txCount, cursor)
    /\ StoreBatch([stateRoot |-> newRoot, withdrawalsRoot |-> wRoot,
                   depositCursor |-> cursor, commitLedger |-> ledger])
    /\ UNCHANGED <<ledger, configVars, depositVars, exitVars, vault>>

\* withdraw(batch_index, w_index, recipient, token, amount, proof): anyone may
\* send it, the recipient is paid.
Withdraw(b, w, recipient, token, amount) ==
    /\ ~paused
    /\ amount > 0
    /\ b \in DOMAIN batches
    /\ IsFinalized(batches[b])
    /\ <<b, w>> \notin claimed
    /\ VerifyWithdrawalProof(b, w,
          [recipient |-> recipient, token |-> token, amount |-> amount],
          batches[b].withdrawalsRoot)
    /\ claimed' = claimed \cup {<<b, w>>}
    /\ PayOut("withdraw", b, w, recipient, token, amount)
    /\ UNCHANGED <<ledger, configVars, batchVars, depositVars, escaped>>

\* Mutant: escape refuses a paused bridge, as withdraw does.
MayEscapeUnlessPaused(account, token, balance, nonce) ==
    /\ ~paused
    /\ SequencerIsDead
    /\ balance > 0
    /\ batches # <<>>
    /\ IsFinalized(LastBatch)
    /\ <<Len(batches), account, token>> \notin escaped
    /\ VerifyStateProof([account |-> account, token |-> token,
                         balance |-> balance, nonce |-> nonce],
                        LastBatch.stateRoot)

\* What escape checks before it pays; the caller and the admin's switches are
\* not asked.
MayEscape(account, token, balance, nonce) ==
    /\ SequencerIsDead
    /\ balance > 0
    /\ batches # <<>>
    /\ IsFinalized(LastBatch)
    /\ <<Len(batches), account, token>> \notin escaped
    /\ VerifyStateProof([account |-> account, token |-> token,
                         balance |-> balance, nonce |-> nonce],
                        LastBatch.stateRoot)

\* escape(account, token, balance, nonce, leaf_index, proof): anyone may send
\* it, the account is paid its balance in the last batch.
Escape(account, token, balance, nonce) ==
    /\ MayEscape(account, token, balance, nonce)
    /\ escaped' = escaped \cup {<<Len(batches), account, token>>}
    /\ PayOut("escape", Len(batches), 0, account, token, balance)
    /\ UNCHANGED <<ledger, configVars, batchVars, depositVars, claimed>>

\* Mutant: the paid deposit is left in storage.
KeepDeposit(index) == UNCHANGED deposits

RemoveDeposit(index) ==
    deposits' = [i \in DOMAIN deposits \ {index} |-> deposits[i]]

\* What reclaim_deposit checks before it pays.
MayReclaim(index) ==
    /\ SequencerIsDead
    /\ index \in DOMAIN deposits
    /\ batches # <<>> => index >= LastBatch.depositCursor

\* reclaim_deposit(index): gives an uncredited deposit back to its sender.
ReclaimDeposit(index) ==
    /\ MayReclaim(index)
    /\ RemoveDeposit(index)
    /\ PayOut("reclaim", 0, index, deposits[index].from, deposits[index].token,
              deposits[index].amount)
    /\ UNCHANGED <<ledger, configVars, batchVars, depositCount, claimed, escaped>>

SetSequencer(caller, newSequencer) ==
    /\ caller = admin
    /\ sequencer' = newSequencer
    /\ UNCHANGED <<ledger, admin, paused, batchVars, depositVars, exitVars, vault>>

SetAdmin(caller, newAdmin) ==
    /\ caller = admin
    /\ admin' = newAdmin
    /\ UNCHANGED <<ledger, sequencer, paused, batchVars, depositVars, exitVars, vault>>

SetPaused(caller, value) ==
    /\ caller = admin
    /\ paused' = value
    /\ UNCHANGED <<ledger, admin, sequencer, batchVars, depositVars, exitVars, vault>>

-----------------------------------------------------------------------------
SomeDeposit == \E d \in DepositRequest : Deposit(d)

SomeCommit ==
    \E caller \in Operator, prevRoot \in StateRoot \cup {ZeroRoot}, newRoot \in StateRoot,
       wRoot \in WithdrawalsRoot, txCount \in 0..1,
       batchIndex \in 1..MaxBatches, cursor \in 0..MaxDeposits :
        CommitBatch(caller, batchIndex, prevRoot, newRoot, wRoot, txCount, cursor)

SomeWithdraw ==
    \E b \in DOMAIN batches, r \in WithdrawalsRoot : \E w \in DOMAIN r.leaves :
        Withdraw(b, w, r.leaves[w].recipient, r.leaves[w].token, r.leaves[w].amount)

SomeEscape ==
    \E r \in StateRoot : \E leaf \in r :
        Escape(leaf.account, leaf.token, leaf.balance, leaf.nonce)

SomeReclaim == \E index \in 0..MaxDeposits : ReclaimDeposit(index)

SomeAdminCall ==
    \E caller \in Operator :
        \/ \E a \in Operator : SetSequencer(caller, a) \/ SetAdmin(caller, a)
        \/ \E value \in BOOLEAN : SetPaused(caller, value)

Next ==
    \/ CloseLedger
    \/ SomeDeposit
    \/ SomeCommit
    \/ SomeWithdraw
    \/ SomeEscape
    \/ SomeReclaim
    \/ SomeAdminCall

Spec == Init /\ [][Next]_vars

-----------------------------------------------------------------------------
BatchInfo == [stateRoot : SUBSET StateLeaf,
              withdrawalsRoot : [batch : Nat, leaves : Seq(Withdrawal)],
              depositCursor : Nat,
              commitLedger : 0..U32Max]

DepositInfo == [from : Address, token : Token, amount : Nat,
                l2Recipient : Address, ledger : 0..U32Max]

Payout == [kind : {"withdraw", "escape", "reclaim"}, batch : Nat, index : Nat,
           to : Address, token : Token, amount : Int]

ClockTypes == ledger \in 0..U32Max /\ lastCommitLedger \in 0..ledger

ConfigTypes == admin \in Operator /\ sequencer \in Operator /\ paused \in BOOLEAN

DepositTypes ==
    /\ depositCount \in Nat
    /\ DOMAIN deposits \subseteq 0..depositCount-1
    /\ deposits \in [DOMAIN deposits -> DepositInfo]

ExitTypes ==
    /\ claimed \subseteq Nat \X Nat
    /\ escaped \subseteq Nat \X Address \X Token
    /\ DOMAIN payouts \subseteq Payout
    /\ payouts \in [DOMAIN payouts -> Nat]

\* Type invariant; a deposit entry exists only below deposit_count, and the
\* vault is never negative.
TypeOK ==
    /\ ClockTypes
    /\ ConfigTypes
    /\ batches \in Seq(BatchInfo)
    /\ DepositTypes
    /\ ExitTypes
    /\ vault \in [Token -> Nat]

-----------------------------------------------------------------------------
\* When the emergency exit is open the last batch is already final, so escape
\* never answers BatchNotFinalized: this is what the constructor's check of
\* liveness_timeout >= challenge_period is for (lib.rs:330-331, 508-510).
EscapeAlwaysFinalized ==
    (batches # <<>> /\ SequencerIsDead) => IsFinalized(LastBatch)

SameRight(p, q) ==
    /\ p.kind = q.kind
    /\ p.batch = q.batch
    /\ p.index = q.index
    /\ p.kind = "escape" => (p.to = q.to /\ p.token = q.token)

\* The vault pays a withdrawal, an account's escape from one batch and a
\* deposit's return at most once, over any sequence of calls by anyone.
PaidOnce ==
    \A p, q \in DOMAIN payouts :
        /\ payouts[p] <= 1
        /\ SameRight(p, q) => p = q

\* Whatever left the vault by withdraw or escape is in the published batch it
\* refers to, for that recipient, token and amount, in the tree built for that
\* batch, and that batch is final.
PayoutsJustified ==
    \A p \in DOMAIN payouts :
        p.kind # "reclaim" =>
            /\ p.batch \in DOMAIN batches
            /\ IsFinalized(batches[p.batch])
            /\ p.kind = "withdraw" =>
                  LET tree == batches[p.batch].withdrawalsRoot IN
                  /\ tree.batch = p.batch
                  /\ p.index \in DOMAIN tree.leaves
                  /\ tree.leaves[p.index] =
                        [recipient |-> p.to, token |-> p.token, amount |-> p.amount]
            /\ p.kind = "escape" =>
                  \E leaf \in batches[p.batch].stateRoot :
                      /\ leaf.account = p.to
                      /\ leaf.token = p.token
                      /\ leaf.balance = p.amount

\* What EscapeAlwaysFinalized rests on, proved of every instance and checked by
\* no run.  The chain the contract stores: cursors and commit ledgers never go back,
\* cursors stay within the deposits made, and LastCommitLedger is the ledger of
\* the last batch (the two clocks of finality and liveness agree).
BatchChain ==
    /\ \A j, k \in DOMAIN batches : j <= k =>
          /\ batches[j].depositCursor <= batches[k].depositCursor
          /\ batches[j].commitLedger <= batches[k].commitLedger
    /\ \A j \in DOMAIN batches : batches[j].depositCursor <= depositCount
    /\ batches # <<>> => LastBatch.commitLedger = lastCommitLedger

\* The exits open at this moment: escape and reclaim_deposit would be accepted,
\* and the transfer they end with does not trap.
CanEscape(leaf) ==
    /\ MayEscape(leaf.account, leaf.token, leaf.balance, leaf.nonce)
    /\ InVault(leaf.token, leaf.balance)

CanReclaim(index) ==
    /\ MayReclaim(index)
    /\ InVault(deposits[index].token, deposits[index].amount)

\* After a step the exit is still open, or it was used, or a batch came.
EscapeStays(leaf) ==
    \/ CanEscape(leaf)'
    \/ Len(batches') > Len(batches)
    \/ <<Len(batches), leaf.account, leaf.token>> \in escaped'

ReclaimStays(index) ==
    \/ CanReclaim(index)'
    \/ Len(batches') > Len(batches)
    \/ \E p \in DOMAIN payouts' : p.kind = "reclaim" /\ p.index = index

\* The step pays someone and leaves less than the amount in the vault.
RunsShort(token, amount) == payouts' # payouts /\ vault'[token] < amount

\* An emergency exit that is open closes only by being used, by a new batch, or
\* because a payment to somebody else leaves the vault short of it (the contract
\* cannot tell whether published trees promise more than the vault holds).
\* Neither the admin (pause, change of keys), nor time, nor a deposit takes it
\* away (lib.rs:593-594: the admin can never block the emergency exit).
ExitRightsPersist ==
    [][/\ \A leaf \in UNION StateRoot : CanEscape(leaf) =>
             EscapeStays(leaf) \/ RunsShort(leaf.token, leaf.balance)
       /\ \A index \in DOMAIN deposits : CanReclaim(index) =>
             ReclaimStays(index) \/ RunsShort(deposits[index].token, deposits[index].amount)
      ]_vars
=============================================================================
