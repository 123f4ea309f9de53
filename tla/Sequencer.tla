----------------------------- MODULE Sequencer -----------------------------
(***************************************************************************)
(* sequencer/src/core/sequencer.ts over sequencer/src/db/store.ts: the     *)
(* single-threaded process that validates, persists and applies every L2   *)
(* transaction, seals batches, saves snapshots, and rebuilds its memory    *)
(* from the database when it starts.                                       *)
(*                                                                         *)
(* A handler runs without interleaving (it never awaits); what can cut it  *)
(* is the death of the process, which keeps the database transactions      *)
(* committed so far, and a failing write of the snapshot, which comes      *)
(* after them.  A database transaction that fails changes nothing: it is   *)
(* no step.                                                                *)
(*                                                                         *)
(* Abstractions: row k of the table transactions is log[k], so this.seq    *)
(* and lastSeq() are Len(log); batches are numbered from 1 and             *)
(* nextBatchIndex is Len(batches) + 1; batch status and attempts belong to *)
(* SettlementEngine; measured latencies are left out; the hash of txData   *)
(* is txData.                                                              *)
(***************************************************************************)
EXTENDS FlashState

CONSTANTS
    Request,           \* transactions users submit, invalid ones included
    L1Deposit,         \* the verified deposits of the bridge; entry n has index n - 1
    AllowedTokenSets,  \* the ALLOWED_TOKENS settings the process is started with
    TxBytes,           \* encoded size (+ 2) of each type of transaction
    MaxBatchBytes,
    MaxBatchTxs,
    SnapshotEvery,
    ReloadLimit,       \* default limit of txsAfter (10_000 in the code)
    NoSnapshot,
    MaxLog             \* bound: transactions accepted

\* What fetchDeposits reports of a deposit.
DepositEvent == [l2Recipient : Account, token : Token, amount : Int]

ASSUME SequencerConfig ==
    /\ MaxBatchTxs \in Nat \ {0}
    /\ MaxBatchBytes \in Nat
    /\ SnapshotEvery \in Nat \ {0}
    /\ ReloadLimit \in Nat
    /\ MaxLog \in Nat
    /\ TxBytes \in [{"deposit", "transfer", "withdraw"} -> Nat \ {0}]
    /\ AllowedTokenSets \subseteq SUBSET Token
    /\ Token \in AllowedTokenSets
    /\ Request \subseteq {tx \in L2Tx : tx.type # "deposit"}
    /\ L1Deposit \in Seq(DepositEvent)

VARIABLES
    \* the database
    log,            \* transactions
    batchOf,        \* their batch_index column; 0 is NULL
    batches,
    depositRows,    \* deposits: index -> the transaction (by seq) that credits it
    outbox,         \* withdrawals: transaction (by seq) -> its batch and w_index
    snapshot,
    \* the process
    phase,          \* "down", "opening" or "serving"
    allowedTokens,
    state,
    replayed,       \* replayFrom, while opening
    pending,        \* executed and persisted, in no batch yet: <<seq, tx>> in order
    lastBatchRoot

dbVars == <<log, batchOf, depositRows, batches, outbox, snapshot>>
memVars == <<phase, allowedTokens, state, replayed, pending, lastBatchRoot>>
vars == <<dbVars, memVars>>

-----------------------------------------------------------------------------
(* Transactions *)

\* The transaction ingestDeposit builds from the event of deposit `index`.
DepositTx(index) ==
    [type |-> "deposit", depositIndex |-> index, to |-> L1Deposit[index + 1].l2Recipient,
     token |-> L1Deposit[index + 1].token, amount |-> L1Deposit[index + 1].amount]

Tx == Request \cup {DepositTx(n - 1) : n \in DOMAIN L1Deposit}

-----------------------------------------------------------------------------
(* The store *)

\* SCHEMA: no row yet.
EmptyStore ==
    /\ log = <<>>
    /\ batchOf = <<>>
    /\ depositRows = [i \in {} |-> 0]
    /\ batches = <<>>
    /\ outbox = [k \in {} |-> 0]
    /\ snapshot = NoSnapshot

LastSeq == Len(log)

\* getTx(txId(tx)): the id covers everything but the signature.
InLog(tx) == \E k \in DOMAIN log : log[k] = tx

Smaller(a, b) == IF a < b THEN a ELSE b

\* txsAfter(seq, limit)
TxsAfter(seq, limit) ==
    [i \in 1..Smaller(limit, LastSeq - seq) |-> [seq |-> seq + i, tx |-> log[seq + i]]]

InsertTx(tx) == log' = Append(log, tx) /\ batchOf' = Append(batchOf, 0)

\* A second row for an index would violate the primary key.
InsertDeposit(index, seq) ==
    /\ index \notin DOMAIN depositRows
    /\ depositRows' = [i \in DOMAIN depositRows \cup {index} |->
                          IF i = index THEN seq ELSE depositRows[i]]

\* A row of batches, as sealBatch leaves it.
BatchRecord ==
    LET leaf == [account : Account, token : Token, balance : Nat, nonce : Nat]
        withdrawal == [recipient : Account, token : Token, amount : Nat \ {0}]
    IN  [prevStateRoot : SUBSET leaf, newStateRoot : SUBSET leaf,
         withdrawalsRoot : [batch : 1..(Len(batches) + 1), leaves : Seq(withdrawal)],
         depositCursor : 0..Len(L1Deposit), txData : Seq(Tx), firstSeq : 1..LastSeq, lastSeq : 1..LastSeq]

InsertBatch(batch) == batches' = Append(batches, batch)

LastBatch == batches[Len(batches)]

AssignBatch(first, last, index) ==
    batchOf' = [k \in DOMAIN batchOf |-> IF k \in first..last THEN index ELSE batchOf[k]]

WithdrawalRecord == [batchIndex : DOMAIN batches, wIndex : 1..MaxBatchTxs]

\* insertWithdrawal, for each seq of `indices`, which gives its w_index.
InsertWithdrawals(batchIndex, indices) ==
    outbox' = [k \in DOMAIN outbox \cup DOMAIN indices |->
                  IF k \in DOMAIN indices
                  THEN [batchIndex |-> batchIndex, wIndex |-> indices[k]]
                  ELSE outbox[k]]

\* saveSnapshot of the store: the one row of its table.
PutSnapshot(lastSeq, saved) == snapshot' = [lastSeq |-> lastSeq, state |-> saved]

\* loadSnapshot; none is the state before the log.
LoadSnapshot == IF snapshot = NoSnapshot THEN [lastSeq |-> 0, state |-> EmptyState] ELSE snapshot

-----------------------------------------------------------------------------
(* The process *)

LastBatchedSeq == IF batches = <<>> THEN 0 ELSE LastBatch.lastSeq

\* Mutant: the nonces are left out of the snapshot.
SnapshotWithoutNonces(s) ==
    [s EXCEPT !.accounts = [k \in DOMAIN s.accounts |-> [s.accounts[k] EXCEPT !.nonce = 0]]]

\* snapshot() and fromSnapshot(): accounts and nextDepositIndex, in full.
Snapshot(s) == [nextDepositIndex |-> s.nextDepositIndex,
                accounts |-> [k \in DOMAIN s.accounts |->
                    [balance |-> s.accounts[k].balance, nonce |-> s.accounts[k].nonce]]]

\* saveSnapshot(); `saved` is FALSE when its write throws.
SaveSnapshot(saved) ==
    IF saved THEN PutSnapshot(LastSeq', Snapshot(state')) ELSE UNCHANGED snapshot

\* The process is gone, and its memory with it.
Down ==
    /\ phase' = "down"
    /\ allowedTokens' = {}
    /\ state' = EmptyState
    /\ replayed' = 0
    /\ pending' = <<>>
    /\ lastBatchRoot' = Root(EmptyState)

-----------------------------------------------------------------------------
Init ==
    /\ EmptyStore
    /\ phase = "down"
    /\ allowedTokens = {}
    /\ state = EmptyState
    /\ replayed = 0
    /\ pending = <<>>
    /\ lastBatchRoot = Root(EmptyState)

\* open(): read the snapshot ...
Open(tokens) ==
    /\ phase = "down"
    /\ phase' = "opening"
    /\ allowedTokens' = tokens
    /\ state' = LoadSnapshot.state
    /\ replayed' = LoadSnapshot.lastSeq
    /\ UNCHANGED <<dbVars, pending, lastBatchRoot>>

\* ... replay the log after it, one row at a time ...
ReplayRow ==
    /\ phase = "opening"
    /\ replayed < LastSeq
    /\ Valid(state, allowedTokens, log[replayed + 1])
    /\ state' = Apply(state, log[replayed + 1])
    /\ replayed' = replayed + 1
    /\ UNCHANGED <<dbVars, phase, allowedTokens, pending, lastBatchRoot>>

\* ... where a row that does not validate is an exception nobody catches ...
ReplayThrows ==
    /\ phase = "opening"
    /\ replayed < LastSeq
    /\ ~Valid(state, allowedTokens, log[replayed + 1])
    /\ Down
    /\ UNCHANGED dbVars

\* Mutant: every row returns to pending, the batched ones as well.
UnbatchedFromGenesis == TxsAfter(0, ReloadLimit)

\* The rows reloadPending turns into pending transactions.
Unbatched == TxsAfter(LastBatchedSeq, ReloadLimit)

\* ... and take the place of the last batch and the pending rows from the log.
Opened ==
    /\ phase = "opening"
    /\ replayed = LastSeq
    /\ lastBatchRoot' = IF batches = <<>> THEN Root(EmptyState) ELSE LastBatch.newStateRoot
    /\ pending' = Unbatched
    /\ phase' = "serving"
    /\ replayed' = 0
    /\ UNCHANGED <<dbVars, allowedTokens, state>>

\* pushPending
PushPending(tx) == pending' = Append(pending, [seq |-> LastSeq', tx |-> tx])

\* The database transaction of record(): the row, and that of its deposit.
PersistTx(tx) ==
    /\ InsertTx(tx)
    /\ IF tx.type = "deposit" THEN InsertDeposit(tx.depositIndex, LastSeq') ELSE UNCHANGED depositRows
    /\ UNCHANGED <<batches, outbox>>

\* record(tx) to its end, or cut by the death of the process after the
\* transaction is in the log.
Record(tx) ==
    /\ PersistTx(tx)
    /\ \/ /\ state' = Apply(state, tx)
          /\ PushPending(tx)
          /\ \E saved \in BOOLEAN : SaveSnapshot(saved /\ LastSeq' % SnapshotEvery = 0)
          /\ UNCHANGED <<phase, allowedTokens, replayed, lastBatchRoot>>
       \/ /\ Down
          /\ UNCHANGED snapshot

\* submit(tx)
Submit(tx) ==
    /\ phase = "serving"
    /\ Len(log) < MaxLog
    /\ Valid(state, allowedTokens, tx)
    /\ ~InLog(tx)
    /\ Record(tx)

\* ingestDeposit(ev), for an event delivered late, early or again: an index
\* below nextDepositIndex is ignored, one above it or a token that is not
\* allowed is refused.
IngestDeposit(index) ==
    /\ phase = "serving"
    /\ Len(log) < MaxLog
    /\ index >= state.nextDepositIndex
    /\ Valid(state, allowedTokens, DepositTx(index))
    /\ Record(DepositTx(index))

-----------------------------------------------------------------------------
\* 4 bytes of header and the first `count` pending transactions.
BatchBytes(count) ==
    LET sum[i \in 0..count] == IF i = 0 THEN 4 ELSE sum[i - 1] + TxBytes[pending[i].tx.type]
    IN  sum[count]

\* The prefix that fits in a batch: the first transaction always does.
TakenCount ==
    CHOOSE count \in 1..Smaller(Len(pending), MaxBatchTxs) :
        /\ count = 1 \/ BatchBytes(count) <= MaxBatchBytes
        /\ count < Smaller(Len(pending), MaxBatchTxs) => BatchBytes(count + 1) > MaxBatchBytes

\* Mutant: the current state is published although part of it stays pending.
SealedStateNow(taken) == state

\* The state the batch publishes: the current one, or the one after the last
\* transaction taken (rebuildStateUpTo replays the log).
SealedState(taken) ==
    IF Len(taken) = Len(pending) THEN state
    ELSE StateAfter(SubSeq(log, 1, taken[Len(taken)].seq))

\* The withdraws in `taken`, in order: row w is entry w of the outbox.
OutboxRows(taken) ==
    LET rows[i \in 0..Len(taken)] ==
            IF i = 0 THEN <<>>
            ELSE IF taken[i].tx.type = "withdraw" THEN Append(rows[i - 1], taken[i])
            ELSE rows[i - 1]
    IN  rows[Len(taken)]

\* Mutant: w_index is the position in the batch.
WithdrawalIndexInBatch(taken, seq) == CHOOSE i \in DOMAIN taken : taken[i].seq = seq

WithdrawalIndex(taken, seq) ==
    CHOOSE w \in DOMAIN OutboxRows(taken) : OutboxRows(taken)[w].seq = seq

NewBatch(taken, sealed) ==
    LET rows == OutboxRows(taken)
    IN  [prevStateRoot |-> lastBatchRoot,
         newStateRoot |-> Root(sealed),
         withdrawalsRoot |-> WithdrawalsTree(Len(batches) + 1,
                                [w \in DOMAIN rows |-> WithdrawalOf(rows[w].tx)]),
         depositCursor |-> sealed.nextDepositIndex,
         txData |-> [i \in DOMAIN taken |-> taken[i].tx],
         firstSeq |-> taken[1].seq,
         lastSeq |-> taken[Len(taken)].seq]

\* The database transaction of sealBatch().
PersistBatch(taken, sealed) ==
    LET batch == NewBatch(taken, sealed)
        index == Len(batches) + 1
        rows == {OutboxRows(taken)[w].seq : w \in DOMAIN OutboxRows(taken)}
    IN  /\ InsertBatch(batch)
        /\ AssignBatch(batch.firstSeq, batch.lastSeq, index)
        /\ InsertWithdrawals(index, [k \in rows |-> WithdrawalIndex(taken, k)])
        /\ UNCHANGED <<log, depositRows>>

\* Mutant: a batch is sealed only when it is full.
SealableWhenFull == Len(pending) >= MaxBatchTxs

Sealable == pending # <<>>

\* sealBatch() to its end, or cut after its database transaction.
SealBatch ==
    /\ phase = "serving"
    /\ Sealable
    /\ \E taken \in {SubSeq(pending, 1, TakenCount)} : \E sealed \in {SealedState(taken)} :
       /\ PersistBatch(taken, sealed)
       /\ \/ /\ pending' = SubSeq(pending, Len(taken) + 1, Len(pending))
             /\ lastBatchRoot' = Root(sealed)
             /\ UNCHANGED <<phase, allowedTokens, state, replayed>>
             /\ \E saved \in BOOLEAN : SaveSnapshot(saved)
          \/ /\ Down
             /\ UNCHANGED snapshot

\* balanceProof(account, token): of the current state.
BalanceProof(account, token) == ProofFor(state, account, token)

RowsOfBatch(b) == {k \in DOMAIN outbox : outbox[k].batchIndex = b}

\* ORDER BY w_index: the w-th row has w - 1 rows before it.
OrderedRows(b) ==
    [w \in 1..Cardinality(RowsOfBatch(b)) |->
        CHOOSE k \in RowsOfBatch(b) :
            Cardinality({j \in RowsOfBatch(b) : outbox[j].wIndex < outbox[k].wIndex}) = w - 1]

\* withdrawalProof(txId), of a withdraw in a batch: the tree is built again from
\* the rows of the batch, in the order of w_index.
WithdrawalProof(seq) ==
    LET row == outbox[seq]
        rows == OrderedRows(row.batchIndex)
        leaves == [w \in DOMAIN rows |-> WithdrawalOf(log[rows[w]])]
    IN  [leaf |-> WithdrawalOf(log[seq]), wIndex |-> row.wIndex - 1,
         proof |-> GetProof(OutboxTree(WithdrawalsTree(row.batchIndex, leaves)), row.wIndex - 1)]

\* The process dies between two handlers, or while it opens.
Crash ==
    /\ phase # "down"
    /\ Down
    /\ UNCHANGED dbVars

\* shutdown() in index.ts: SIGTERM saves a snapshot between two handlers.
Shutdown ==
    /\ phase = "serving"
    /\ PutSnapshot(LastSeq, Snapshot(state))
    /\ Down
    /\ UNCHANGED <<log, batchOf, depositRows, batches, outbox>>

Next ==
    \/ \E tokens \in AllowedTokenSets : Open(tokens)
    \/ ReplayRow
    \/ ReplayThrows
    \/ Opened
    \/ \E tx \in Request : Submit(tx)
    \/ \E n \in DOMAIN L1Deposit : IngestDeposit(n - 1)
    \/ SealBatch
    \/ Crash
    \/ Shutdown

\* The process is started again whenever it is down, its handlers and the
\* engine's tick run, and from some moment on it does not die any more.
Fairness ==
    /\ WF_vars(\E tokens \in AllowedTokenSets : Open(tokens))
    /\ WF_vars(ReplayRow)
    /\ WF_vars(ReplayThrows)
    /\ WF_vars(Opened)
    /\ WF_vars(SealBatch)
    /\ <>[][phase' # "down"]_vars

Spec == Init /\ [][Next]_vars /\ Fairness

-----------------------------------------------------------------------------
StateOf(s) ==
    /\ s.nextDepositIndex \in 0..Len(L1Deposit)
    /\ DOMAIN s.accounts \subseteq Account \X Token
    /\ s.accounts \in [DOMAIN s.accounts -> AccountState]

\* Type invariant: no balance is ever negative, in memory or in the snapshot.
TypeOK ==
    /\ log \in Seq(Tx)
    /\ batchOf \in [DOMAIN log -> 0..Len(batches)]
    /\ depositRows \in [DOMAIN depositRows -> DOMAIN log]
    /\ batches \in Seq(BatchRecord)
    /\ DOMAIN outbox \subseteq DOMAIN log
    /\ \A k \in DOMAIN outbox : outbox[k] \in WithdrawalRecord
    /\ snapshot # NoSnapshot => snapshot.lastSeq \in 0..Len(log) /\ StateOf(snapshot.state)
    /\ phase \in {"down", "opening", "serving"}
    /\ allowedTokens \subseteq Token
    /\ StateOf(state)
    /\ replayed \in 0..Len(log)
    /\ pending \in Seq([seq : DOMAIN log, tx : Tx])

-----------------------------------------------------------------------------
\* The log is the source of truth: while the process serves, its memory is the
\* replay of the whole log, whatever crashes and failed snapshots came before;
\* while it opens, the replay of the rows read so far (sequencer.ts:214-216).
MemoryIsReplayOfLog ==
    /\ phase = "serving" => state = StateAfter(log)
    /\ phase = "opening" => state = StateAfter(SubSeq(log, 1, replayed))
    /\ snapshot # NoSnapshot =>
          snapshot.state = StateAfter(SubSeq(log, 1, snapshot.lastSeq))

\* What anyone finds who replays the published batches from genesis.
Audit ==
    LET a[j \in 0..Len(batches)] ==
        IF j = 0 THEN [ok |-> TRUE, state |-> EmptyState]
        ELSE LET before == a[j - 1]
                 batch == batches[j]
                 replay == ReplayBatch(before.state, j, batch.txData)
             IN  [ok |-> /\ before.ok
                         /\ replay.ok
                         /\ batch.prevStateRoot = Root(before.state)
                         /\ batch.newStateRoot = replay.newStateRoot
                         /\ batch.withdrawalsRoot = replay.withdrawalsRoot
                         /\ batch.depositCursor = replay.state.nextDepositIndex,
                  state |-> replay.state]
    IN  a[Len(batches)]

\* The published roots are the replay of the published transactions: comparing
\* them is fraud detection (state.ts:244-248), so an honest sequencer must pass
\* it however its batches were split, sealed and resumed.
AuditPasses == Audit.ok

\* Batches cut the log into consecutive pieces, publish exactly those rows and
\* mark them; what is pending is exactly the rest (docs/06:83-84).
BatchesCoverLog ==
    /\ \A j \in DOMAIN batches :
          /\ batches[j].firstSeq = (IF j = 1 THEN 1 ELSE batches[j - 1].lastSeq + 1)
          /\ batches[j].txData = SubSeq(log, batches[j].firstSeq, batches[j].lastSeq)
          /\ \A k \in batches[j].firstSeq..batches[j].lastSeq : batchOf[k] = j
    /\ \A k \in DOMAIN log : k > LastBatchedSeq => batchOf[k] = 0
    /\ phase = "serving" =>
          pending = [i \in 1..Len(log) - LastBatchedSeq |->
                        [seq |-> LastBatchedSeq + i, tx |-> log[LastBatchedSeq + i]]]

\* The proofs the process gives out are taken by the contract: that of every
\* burn in a batch, whichever way the batch was split and sealed and the outbox
\* written (withdrawalProof, line 367), and that of a balance exactly as long as
\* nothing was executed after the last batch (balanceProof, line 355: escape
\* verifies it against the root of that batch, not of the current state).
ProofsVerify ==
    /\ \A k \in DOMAIN log :
          IF log[k].type = "withdraw" /\ batchOf[k] # 0
          THEN /\ k \in DOMAIN outbox
               /\ outbox[k].batchIndex = batchOf[k]
               /\ outbox[k].wIndex \in 1..Cardinality(RowsOfBatch(batchOf[k]))
               /\ LET tree == batches[batchOf[k]].withdrawalsRoot
                      given == WithdrawalProof(k)
                  IN  VerifyProof(Leaf([batch |-> batchOf[k], wIndex |-> given.wIndex, leaf |-> given.leaf]),
                                  given.wIndex, given.proof, ComputeRoot(OutboxTree(tree)))
               /\ \A other \in DOMAIN outbox \ {k} : outbox[other] # outbox[k]
          ELSE k \notin DOMAIN outbox
    /\ phase = "serving" /\ batches # <<>> =>
          \A key \in DOMAIN state.accounts :
             LET given == BalanceProof(key[1], key[2])
             IN  VerifyProof(StateLeaf(given.leaf), given.leafIndex, given.proof,
                             ComputeRoot(StateTree(LastBatch.newStateRoot)))
                   <=> pending = <<>>

LogTotal(type, token) ==
    MapThenSumSet(LAMBDA k : log[k].amount,
                  {k \in DOMAIN log : log[k].type = type /\ log[k].token = token})

\* Every unit issued on L2 came from a deposit and left by a withdraw, across
\* restarts: what the vault must hold is what the log says (state.ts:194-197).
IssuedIsBacked ==
    phase = "serving" =>
        \A token \in Token :
            Issued(state, token) = LogTotal("deposit", token) - LogTotal("withdraw", token)

\* A signed payment runs once and a deposit is credited once, in order, however
\* often it is sent or its event is delivered, and the list of deposits names
\* the transaction of each.
ExecutedOnce ==
    /\ \A k \in DOMAIN log : log[k].type = "deposit" =>
          log[k].depositIndex \in DOMAIN depositRows /\ depositRows[log[k].depositIndex] = k
    /\ \A j, k \in DOMAIN log : j < k =>
        /\ (log[j].type # "deposit" /\ log[k].type # "deposit"
              /\ log[j].from = log[k].from /\ log[j].token = log[k].token)
              => log[j].nonce < log[k].nonce
        /\ (log[j].type = "deposit" /\ log[k].type = "deposit")
              => log[j].depositIndex < log[k].depositIndex

\* Every transaction with a receipt gets into a batch.
EventuallySealed == \A k \in 1..MaxLog : k \in DOMAIN log ~> LastBatchedSeq >= k

-----------------------------------------------------------------------------
Published ==
    LET data[j \in 0..Len(batches)] == IF j = 0 THEN <<>> ELSE data[j - 1] \o batches[j].txData
    IN  data[Len(batches)]

\* The promise to the users, seen through the database.
Promise == INSTANCE FlashLedger WITH
    accepted <- log, published <- Published

\* The sequencer implements the abstract ledger: what it accepted is final at
\* once, and it is published in order, without gaps and once.
KeepsPromise == Promise!Spec
=============================================================================
