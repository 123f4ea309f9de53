# Stellar Flash in TLA+

A verification project for Stellar Flash: an L2 for payments whose sequencer answers in
milliseconds, and whose funds stay in a Soroban contract on Stellar (L1). The modules here are
translated from the source; `PROJECT.json` maps every definition to the lines it stands for.

## 1. The system

| Component | State it keeps | Operations |
|---|---|---|
| **Bridge contract** `contracts/flash-bridge/src/lib.rs` | vault, batches, deposits and their count, claimed and escaped rights, last commit ledger, admin, sequencer, pause | deposit, commit_batch, withdraw, escape, reclaim_deposit, set_sequencer, set_admin, set_paused |
| **State machine** `protocol/src/state.ts` | balances and nonces, nextDepositIndex | validate, apply, root, snapshot, replayBatch |
| **Sequencer** `sequencer/src/core/sequencer.ts` | in memory: state, pending rows, last batch root | open (snapshot + replay), submit, ingestDeposit, sealBatch, saveSnapshot |
| **Store** `sequencer/src/db/store.ts` | SQLite: transactions, batches, withdrawals, snapshots, onramp, offramp, meta | one transaction per operation; backup every minute |
| **Settlement engine** `settlement/engine.ts`, with `policy.ts`, `health.ts`, `rpc-client.ts` | health snapshot, halted flag, batch statuses in the store | tick: probe, ingest, scan deposits, solvency, seal, settle one batch, finalize, claim |
| **Bridge operator** `settlement/operator.ts`, `limits.ts` | onramp and offramp rows | relay classic payments into the vault, claim final withdrawals |
| **Encodings** `protocol/src/tx.ts`, `bytes.ts`, `merkle.ts` | none | what is signed, batch data, JSON, trees and proofs |
| **API** `api/server.ts` | none of its own: it reads sequencer and store | post a transaction; nonce, account, onramp rows, withdrawal proof |
| **SDK and frontend** `sdk`, `Bridge.tsx`, `WalletContext.tsx`, `verify.ts` | in a page: account, form in progress, notice, list of withdrawals, balance | pay, withdraw, deposit, refresh and polls; an audit in the browser |
| **L1 mock** `settlement/l1.ts` | batches, deposits, claimed keys, a mode | what the tests call instead of Stellar |

How they interact. Users deposit in the contract; the engine scans the events, verifies them in
the contract and calls `ingestDeposit`. Users submit signed transactions over HTTP; `submit`
validates, persists, applies and answers. The engine seals pending rows into batches, publishes
the oldest sealed one through an RPC endpoint that may lag, lose answers or time out, and marks
batches committed and finalized. After the challenge period withdrawals are claimed. If nothing
is committed for the liveness timeout, `escape` and `reclaim_deposit` open to everyone.
The page asks the API for a nonce, builds and signs the bytes itself, posts them, and learns of
everything else by polling.

The process is one JavaScript thread: a handler runs alone up to its next `await`, and only the
engine and the operator await; so does the page of a user, in another thread of its own. What is hard is
therefore: death of the process between two durable writes; L1 calls whose outcome is unknown;
endpoints that answer from an earlier ledger; a state read before an await and used after it;
answers to the browser that are lost or overtaken; two clocks in the contract; bounds of pages
and batches; and two ledgers (L1 and L2) that must never owe more than one vault holds.
`PROJECT.json` "hazards" lists them at their lines with the properties that guard them.

## 2. Modules

| Module | Models |
|---|---|
| `FlashBridge` | the contract: one action per entry point, `CloseLedger` for time |
| `FlashState` | `state.ts` as pure operators on a state value |
| `FlashLedger` | abstract specification: accepted payments take effect at once and are published in order, once |
| `Sequencer` | sequencer and its database; implements `FlashLedger` |
| `SettlementEngine` | the engine's tick, the RPC client and the L1 it publishes to |
| `DepositScan` | the engine's scan: how a deposit in the contract becomes a balance |
| `BridgeOperator` | ingest of the operator, composed with `DepositScan` |
| `Merkle` | tree, proof and `verify_proof` over symbolic hashes |
| `Offramp` | claim of the operator, and `withdraw` of the contract with the paths of `Merkle` |
| `FlashCodec` | signing message, transaction id, batch data and JSON, and the way back |
| `FlashApi` | what the server answers, over `FlashState` and `FlashCodec` |
| `Wallet` | the bridge page in the browser, composed with `FlashApi` and other clients |
| `FlashRollup` | `FlashBridge` composed with an honest sequencer that runs `FlashState`, and the solvency check |
| `MockL1` | the mock, told of every call `FlashRollup` makes to the contract |
| `FlashBridgeProofs` | theorems about `FlashBridge`, `FlashRollup` and `MockL1` |
| `SettlementProofs` | theorems about `SettlementEngine` |
| `OperatorProofs` | theorems about `BridgeOperator`, and so about `DepositScan` |
| `FlashStateProofs` | theorems about `FlashState`: what a transaction changes, how a replay splits, what a root and a proof of a balance bind |
| `SequencerProofs` | theorems about `Sequencer`, its refinement of `FlashLedger` among them |
| `OfframpProofs` | theorems about `Offramp` |
| `WalletProofs` | theorems about `Wallet`, `FlashApi` and `FlashCodec` |
| `TreesAndSums` | theorems about the trees and paths of `Merkle`; induction and recursion along `0..n`, ranks and sums, for the other proofs |
| `MC*` | constants of small instances for TLC |

**FlashBridge.** A hash is the value hashed: a state root is its set of leaves, an outbox root is
the batch index its leaves were hashed with and their sequence, so a proof verifies exactly for
a leaf of the tree. Failed invocations are rolled back and are no steps. The contract checks how
a batch continues the chain, never what it does: `SomeCommit` takes arbitrary trees. `payouts`
is a history variable: the bag of transfers out, each with the right it pays. What `escape` and
`reclaim_deposit` check is `MayEscape` and `MayReclaim`, and the transfer they end with traps unless
`InVault`. The actions are guarded by these operators, and the exits a property calls open
(`CanEscape`, `CanReclaim`) are defined by the same ones.

**Sequencer.** The variables are split into database and memory. `Record` and `SealBatch` are
whole handlers with one cut: the process may die after the database transaction. A snapshot may
fail to be written. Opening is a sequence of steps (`Open`, `ReplayRow`, `Opened` or
`ReplayThrows`), because dying in the middle must be harmless. Row k of the log is `log[k]`. Each
statement of the store is an operator of its own (`InsertTx`, `AssignBatch`, `TxsAfter`, ...).
`BalanceProof` and `WithdrawalProof` are what the API hands out; trees are kept as the ordered
leaves they are built from, and a proof is a leaf with its place.

**SettlementEngine.** Every await of the tick is a value of `pc`: during it ledgers close and
transactions sent earlier are included or expire. `sent` is the transaction the client polls;
one it stopped polling moves to `orphans` and may be included late. Reads and simulations see
the chain up to some ledger `seen`. Time is not modelled: urgency and backoff are free choices,
so every decision of `decideSettlement` can occur at any attempt. A probe asks every endpoint
(`Answers`), and `EvaluateHealth` makes one snapshot of what they said.

**DepositScan** and **BridgeOperator.** A transaction enters the ledger being built and is seen once
it is closed; each read is answered from some closed ledger. `Deposited` is the contract,
`FetchDeposits` fetches a page and the count of deposits, the other actions handle its events one
by one. The page being handled and the rows of a tick (`page`, `todo`) are sets of numbers, taken in
increasing order. In the operator every await of `ingest` is a value of `pc`. A relay carries the sequence
number of the operator's account, so of several transactions with one number one at most is
included; that is what makes `DepositedIsLast` true, while nothing else stops a second deposit.
L2 payments are left out: a balance is the sum of its credits.

**Merkle** and **Offramp.** A hash is the value hashed, and the tags of the code keep leaves, inner
nodes and `ZERO32` apart. A tree is the sequence of its layers; the loop of `verify_proof` is the
function `Climb` from the number of elements used to what is in its two variables. The rows a tick
claims (`FirstPerTick`) are the first by rank: the i-th is the one with i - 1 before it. `Offramp` has the claims as the operator makes them: one awaited
transaction after the other, each against an endpoint that answers from some ledger. Somebody else
may claim the same withdrawal with the proof of the API, an account may come to exist, and a claim
that was given up may be included. `Finalize` and the choice of the rows are one step, the tail of
a tick without an await.

**FlashCodec**, **FlashApi** and **Wallet.** A byte string is its sequence of fields with their
widths, read field by field, so that a discriminant or a length that does not fit fails; a signature
is key, form and message. A handler of the server is an operator on the log and the state. The page
is one thread with four independent chains of awaits: `run` of a form (`busy`), the balance
(`refresh`), the list of withdrawals (`list`) and the poll of their proofs (`poll`). `run` posts
with the nonce it was given, whatever happened meanwhile; the request may arrive after the page
has given up; the wallet may sign with another of its accounts.

**FlashRollup** and **MockL1.** `CheckSolvency` sets `halted`, which stops crediting, sealing and
publishing, and `Restart` forgets it. The mock follows the contract step by step; in each state it is
asked about every batch and claim next to what it holds. Sealed batches wait in a queue and are committed in order; that they get there
once and in order is what `SettlementEngine` shows. `revived` records that a batch was committed
that takes back an emergency exit: it still credits a deposit that was given back, or follows
escapes from the batch before it.

## 3. Runs

| Run | Instance | Shows |
|---|---|---|
| `bridge` | 2 accounts, 2 operator keys, 2 batches, 2 deposits, ledgers up to 4, trees that promise too much, name an account twice, or belong to another batch | both clocks agree (`EscapeAlwaysFinalized`), nothing is paid twice or without a published right, an open exit closes only by use, by a new batch or by a payment that leaves the vault short (`ExitRightsPersist`) |
| `sequencer` | 2 accounts, 2 tokens, 5 rows, at most 2-3 rows per batch by size, a snapshot every 2 rows, any number of crashes | `MemoryIsReplayOfLog`, `AuditPasses`, `BatchesCoverLog`, `ProofsVerify`, `IssuedIsBacked`, `ExecutedOnce`, the refinement `KeepsPromise`, `EventuallySealed` |
| `settlement` | 2 batches, 2 endpoints, ledgers up to 3, challenge period 2 | `PublishedInOrder`, `CommittedIsOnL1`, `FinalizedIsFinal` |
| `settlement_live` | 2 batches, 1 endpoint, 2 ledgers, challenge period 1 | `EventuallyCommitted`, `EventuallyFinalized` |
| `onramp` | 2 accounts of which one is on the allowlist, 2 payments, 3 deposits, pages of 2, 2 endpoints, 2 ledgers | `CreditsFollowContract`, `NoPaymentForgotten`, `DepositedIsInVault`, `DepositedIsLast` |
| `offramp` | 2 payees who may have no account, a batch with 2 withdrawals and one with 1, 2 claims per tick, 2 endpoints, challenge period 1; trees of up to 5 leaves | `ClaimedIsPaid`, `PaidAsWithdrawn`, `PathsVerify`, `EventuallyClaimed` |
| `wallet` | 2 accounts of one wallet, one of them on the allowlist, 2 moves of users beside everything the page and the server do by themselves, 3 rows | `ExecutedAsTapped`, `NoticeIsTrue`, `NobodyTrapped`, `PageSettles` |
| `rollup` | 2 accounts, 1 transaction each, 2 deposits, 3 batches, ledgers up to 4 | `VaultCoversExits`, `ExitsStayOpen`, `SolventUntilExit`, `MockReproducesContract` |

Four runs end in a violation: each checks a sentence of the documentation, of a comment or of a test
that the code does not keep ("findings").

| Run | Property | What happens |
|---|---|---|
| `sequencer_reload` | `AuditPasses` | more unbatched rows than `txsAfter` returns: after a restart the published root is not the replay of the batch |
| `onramp_twice` | `OneDepositPerPayment` | a deposit that was included while its answer was lost is made again |
| `onramp_cap` | `CapHolds` | two payments in a tick are checked against the same balance |
| `rollup_solvent` | `Solvent` | an idle sequencer counts as dead: a credited deposit is reclaimed |

Limits of the same kind that no run is spent on: with `ALLOWED_TOKENS` narrowed at a restart the log
does not replay and the process does not come up (`ReplayThrows`; the run `sequencer` restarts with
such a setting, and shows that nothing wrong comes of it); and a database restored from an older
backup gives a used index to another batch, which `reconcile` (`engine.ts:254`) marks committed by
its index alone, so `CommittedIsOnL1` is about a database that loses nothing.

`SettlementEngine` keeps the configured challenge period apart from the contract's
(`ConfiguredChallenge`): the runs set both alike, which start-up reads but does not enforce
(`index.ts:93`); with a shorter setting `FinalizedIsFinal` fails.

Not stated, because it is not so: that every deposit is credited some day. When the page limit
cuts a ledger (`engine.ts:162`), when events are older than an endpoint keeps, or when an endpoint
that lags refuses a later event of a ledger whose earlier one was credited, the cursor passes a
deposit, and `ingestDeposit` then refuses all later ones. `onramp` reaches these states
and shows that nothing wrong is credited in them.

Nor that every withdrawal is paid: `withdrawalsToClaim` (`store.ts:501`) takes the same first rows at
every tick, so that as many unpayable ones as a tick takes keep everything behind them waiting.
`EventuallyClaimed` is stated with that condition, and fails without it. Nor that the list of the page
is complete: a tick of the poll ends with the list it started from (`Bridge.tsx:158`), and a
withdrawal added meanwhile is gone until the page is loaded again. `PageSettles` is about what is
listed. Nor that the notice `credited` is true (`Bridge.tsx:293`), or that a user who sees an error
without a code was not charged (`sequencer.ts:245`): `NoticeIsTrue` names the notices it is about.

Why the bounds suffice. The contract's guards compare a batch with the one before it and a
ledger with at most two others: two batches (three in `rollup`, so that a batch can follow a
batch that follows an exit) and ledgers enough for challenge, timeout and one more cover each
comparison from both sides. Five rows make a full batch, a split batch and a remainder, with
snapshots between them. In `settlement` the second batch is what can overtake the first. Each
property has a mutant of a mapped definition that makes it fail under the same bounds.
`U32Max` also bounds the ledger, so that saturation of `saturating_add` is reached.
In `onramp` one ledger is enough to include a deposit and the second to include it again; a third
deposit makes a page cut possible with two rows in it.
In `offramp` two claims per tick and two payees without an account are the first case of starvation,
one payee the last case without; five leaves make trees of one, two, and three layers above the
leaves, with odd layers at two levels. In `wallet` two moves are a form and what comes between (another
client, another account, a reload, a second form); the server's and the page's own steps are not
bounded by them. In `rollup` one transaction per account makes a payment and the withdrawal of
what was paid; the mock is asked in every state under six conditions of the network.
Deadlock is not checked for `bridge`, `rollup` and `wallet`: when the bounds are used up (and the
page shows how things are) nothing is left to do.

Fairness. `Sequencer`: whoever runs the process starts it again when it is down; handlers that
are enabled run (the engine's timer seals); and from some moment on the process stays up, for
otherwise nothing at all can be promised. `SettlementEngine`: the same, and no solvency alarm
stays; an L1 that recovers, stated as strong fairness of a healthy and current probe, of a
current simulation and read, of inclusion, and of seeing the inclusion. It is strong fairness
because each can fail any number of times before. A commit that is included but never seen, or
seen only through `InvalidBatchIndex`, is covered: `EventuallyCommitted` fails without `reconcile`.
`Offramp`: the process runs and from some moment on stays up; for each withdrawal, a current
endpoint asked again and again takes the claim or says it is paid, and a claim sent again and again
is included. `Wallet`: the timers of balance and poll run, and a poll started again and again is some
time answered in full; nothing is assumed of forms, of the list, or of the server.

## 4. Proofs

`FlashBridgeProofs` proves about `Spec` of `FlashBridge`, for all constants under `BridgeConfig`
(in particular liveness_timeout >= challenge_period, which the constructor enforces) and
`BridgeInputs`:

* `Typing`: the type invariant, which says that deposit entries exist only below the count and
  that the vault is never negative. It is inductive as it stands; `PayOut` keeps it because the
  token contract refuses a transfer the vault cannot cover.
* `ChainIsMonotone` (`BatchChain`, which no run checks): cursors and commit ledgers never go back,
  and `lastCommitLedger` is that of the last batch. Inductive relative to `TypeOK`: only `CommitBatch` touches it, and it compares
  with the last batch only, which is enough because the rest is ordered already.
* `EscapeNeedsNoWait`: from `ChainIsMonotone` and the assumption on the two periods, by
  monotonicity of the saturating addition.
* `NothingPaidTwice`: not inductive by itself. The strengthening says that every payout has left
  its mark: a claimed flag, an escaped flag, or a deposit entry that is gone below the count, so
  a second payout for the same right is disabled.

* `OnlyPublishedRightsPay`: a call that pays withdrawal or escape checks the right against a final
  batch, so what it adds is justified (`NewPayoutJustified`); and what was justified stays so, because
  batches are only appended and time only passes (`ChainOnlyGrows`, `JustifiedStays`). Nothing is
  assumed of the trees an operator commits.
* `NobodyClosesAnExit`: an exit is open when the contract's own guards admit it and the vault can
  pay it. Every call goes `Forward`: while no batch is committed `ledger` alone moves the two clocks,
  and it only grows, so a dead sequencer stays dead and a final batch final; an account's mark and a
  deposit's entry change only when they are paid; the vault loses nothing that is not a payment. The
  keys of the admin and the pause are of no use against it. What can happen is that others are paid
  first and the vault runs short (`RunsShort`), because the contract cannot tell whether the trees
  promise more than it holds; in the run `bridge` they do.

Its second part proves about `SpecRollup`, where the trees are those of a sequencer that runs
`FlashState`, for all accounts, tokens, requests and bounds (`RollupInputs`): `RollupTyping`,
`VaultIsEnough` (`VaultCoversExits`), `NoExitRunsDry` (`ExitsStayOpen`) and `SolventWithoutExits`
(`SolventUntilExit`).

* The sums come first. What can be escaped, claimed or reclaimed is the sum of a function over a set
  (`EscapableIs`, `ClaimableIs`, `ReclaimableIs`), and a call changes the set in one place
  (`OneEscapes`, `OneClaimed`, `OneDeposit`, `NewDeposit`), a batch by the leaves of its outbox
  (`BatchPublished`). What is issued is what the leaves of the root hold (`RootIs`).
* None of them is inductive. `VaultCoversExits` compares the vault with the trees of committed
  batches, and a batch is committed long after it was sealed. The strengthening `RollupInv` says of
  each sealed batch, and of what the sequencer did since the last one, that nothing is made or
  lost (`Flow`): the root before and the deposits credited are the root after and the
  withdrawals. A `Flow` speaks only of intervals whose deposits are all still there, because a reclaim
  removes the entry of a deposit that a sealed batch may credit already. When such a batch is committed, the
  commit sets `revived`; when it does not, the interval is whole (`CreditsAreWhole`), and the
  `Flow` turns what the vault owes before the batch into what it owes after it (`CommitOwes`).
* `NoExitRunsDry` leaves `RunsShort` out: what is owed for all exits is a sum of naturals, no less
  than what it adds up (`PartOfTotal`), so the vault, which holds that sum after the step, holds each
  exit that is left (`VaultHoldsEach`). The rest is as for `NobodyClosesAnExit`.
* An exit leaves its trace among the payouts (`ExitsRecorded`), so as long as every payout is a
  withdrawal the flows of all sealed batches join up (`PrefixGrows`) into a
  bound of everything issued or on its way out by the vault (`Backed`), `Breaches` is empty, and
  `CheckSolvency` cannot be taken (`SolvencyKeeps`).

Its third part proves about `SpecMock`, where the mock is told of every call of that system:
`MockIsFaithful` (`MockReproducesContract`), on which rests what a test against the mock says about the
contract.

* The invariant `MockInv` says that the mock keeps the contract's chain (root and cursor of every batch),
  its deposits in their order, and its claims; and that its balance, deposits less claims, is the
  vault, until something leaves the vault on a way the mock does not know (`SomeExit`). Deposits that
  are gone from the contract stay in the mock, so the two agree about those that are still there. It is inductive
  together with `RollupInv`, which gives the ranges of deposits and claims.
* What the mock answers to `commitBatch` is compared with what the contract would do, by the operator
  `MayCommit`, which is the guard of `CommitBatch` and so of every commit in `NextRollup`
  (`AnswersAgree`).

`SettlementProofs` proves about `Spec` of `SettlementEngine`, for every number of batches, ledgers and
endpoints (`SettlementConfig`: the numbers are natural, and the two null values are no ledger and no
transaction; `GenesisRoot` is a root):

* `EngineTypes`, `PublishedOnceInOrder`, `CommittedMeansOnL1`: none is inductive. A transaction nobody
  waits for any more can be included at any later moment, so the invariant `Inv` has to say what such a
  transaction may be: its batch is in the database with the roots it carries, and every batch before
  that is marked (`FromDb`), which is true when it is sent because only the oldest sealed batch
  ever is. Then what the contract accepts is the next batch of the database and none other, and the
  contract is at most one batch ahead of what is marked (`OneAhead`). That is why `reconcile` may
  write the ledger of the contract's last commit without comparing roots: when an endpoint,
  which knows a prefix of the contract (`LedgersInOrder`, `SeenIsPrefix`), has the oldest sealed batch
  at all, that batch is the contract's last (`ReconcileIsRight`).
* `FinalMeansFinal`: under ConfiguredChallenge >= ChallengePeriod, which nothing in the program enforces.
  A probe tells of a ledger that is past, the batch stays where it was committed, and ledgers only
  close, so a decision from a stale probe is late and never early.

`OperatorProofs` proves about `Spec` of `BridgeOperator`, for all accounts, amounts, allowlists and caps,
every page limit, every number of endpoints and any bounds (`ScanConfig`, `OperatorConfig`):

* `SpecCreditsFollowContract`: a balance is the sum of the account's deposits among the first
  `nextDepositIndex` of the contract. It needs the types only (`ScanInv`), because `ingestDeposit`
  takes the next index and none other, and what `verifyDeposit` compares is compared with the
  contract. The sums are the recursion `Credited`, which a deposit at the end does not change
  (`CreditedOfLonger`).
* `SpecNoPaymentForgotten`: inductive with the types (`RowInv`); the row is written before the cursor.
* `SpecDepositedIsInVault`, `SpecDepositedIsLast`: neither is inductive. Transactions that nobody polls
  stay in flight, so `RelayInv` says what they can still do: each carries a sequence number up to
  the count of deposits the account has made (`Count`), and one below it is never included
  (`Stale`); a row that says deposited has a deposit and only stale transactions
  (`DepositedIsDone`), and so has the row at hand from the moment its transaction is included
  (`IncludedIsDone`). An inclusion raises `Count` and makes every other transaction in flight stale
  at once, and a new one is sent for a pending row only. So the property rests on the one
  account the operator uses for all it sends.

`SequencerProofs` proves about `Spec` of `Sequencer`, for any accounts, tokens, requests (unsigned and
replayed ones included), deposits on L1, limits of a batch, snapshot interval and sequence of settings of
`ALLOWED_TOKENS` (`SequencerConfig`). The inductive invariant is in six parts, which TLC also finds true
on the instance of `sequencer`:

* `LogInv`: the log replays from genesis without an error, and after it every transaction in it is spent
  (`Spent`: its nonce is below the account's, its index below the next deposit). Hence
  `SpecExecutedOnce`: what is valid is not spent, and what is spent stays spent (`SpentStays`), whoever
  sends it again.
* `MemoryInv`: in each phase memory is the replay of a prefix of the log, of the whole log when the
  process serves, and so is a snapshot. Hence `SpecMemoryIsReplayOfLog`. A replay continues: what comes
  after n rows depends on the state after them only (`ReplayOfPart`), which is why a process may
  resume from any snapshot.
* `PendingInv` and `StoreInv`: the types of pending rows, batches, outbox. With the two above they make
  `TypeInv`, from which `SpecTypeOK` follows. This part needs no condition, so types, memory and
  `SpecExecutedOnce` hold even in the runs where batches go wrong.
* `CoverInv`: batches cut the log into consecutive pieces, each is `Honest` (its roots, its outbox and
  its deposit cursor are those of the replay between its first and its last row), and the root the next
  batch starts from is that of the last batched row. From it `SpecBatchesCoverLog` and
  `SpecAuditPasses`, the latter by an induction along the batches (`AuditStep`): the auditor's state
  after batch j is the replay of the log up to its last row.
* `OutboxInv`: what `insertWithdrawal` leaves behind. Every withdraw in a batch has a row of its own,
  which names that batch and a leaf of it, and no row is there before its transaction is in a batch.
  With `CoverInv` the rows of a batch and its leaves correspond one to one, so `ORDER BY w_index` gives
  the leaves back (`RowsInOrder`, from `NumberedRank`), the tree `withdrawalProof` builds from the rows is
  the one whose root was published, and `ProofsAreComplete` does the rest (`BurnProofVerifies`).
* `SpecProofsVerify` has a second half, about `balanceProof`, which proves on the current state. A root
  binds the accounts (`RootBindsAccounts`), so a proof made from one state verifies for the root of
  another only when they are equal (`BalanceProofIsForItsRoot`). And they are not equal when a row lies
  between them: a transaction raises a nonce, a deposit raises a balance and lowers nothing
  (`ApplyGoesAhead`, `RootsDiffer`). Hence a proof of a balance is of use exactly while nothing is
  pending.

`SpecIssuedIsBacked` needs `LogInv` and `MemoryInv` only, and sums: `MapThenSumSet` takes the elements of
a set in an order of its own, and the lemmas about `Totals` show that any other order gives the same
(`TotalsWithout`), so that a balance that changes changes the sum by as much (`TotalsChange`). Then each
row of the log adds to what is issued what it says (`IssuedApply`: a transfer nothing, even to oneself or
to an account that is new), and the two totals of the log grow row by row (`TotalsUpto`).

`BatchesCoverLog`, `AuditPasses`, `ProofsVerify` and the refinement are about behaviours in which
`[]ReloadReaches`: whenever the process comes up, the rows in no batch are at most `ReloadLimit`.
`reloadPending` asks `txsAfter` once (`sequencer.ts:145`), which returns at most 10000 rows
(`store.ts:272`). The condition cannot be dropped: without it the run `sequencer_reload` has the
counterexample.

* `SpecKeepsPromise`: `Sequencer` implements `FlashLedger` under `published <- Published`, the data of
  the batches joined. The mapping needs that what is published is a prefix of the log
  (`PublishedIsPrefix`, from `CoverInv`); then a transaction that is recorded is one the ledger accepts
  (`RecordAccepts`), a batch that is sealed publishes the rows that come next (`SealPublishes`),
  and every other step, crash and replay included, leaves the ledger as it is
  (`StepsAreTheLedgers`).

`TreesAndSums` proves about `Merkle`, for trees of every number of leaves, under the assumption the
module's representation makes, that hashes of different things differ (a hash of a leaf, one of two
nodes, and `ZERO32` have different shapes):

* `ProofsAreSound`: what `verify_proof` accepts at an index for the root of a tree is the leaf at that
  index. The climb is followed back from the root, where the index is 0: what hashes to a node of a
  layer is the pair of its children in the layer below, the climber is the one the last bit of its
  index says, and it is no `ZERO32`, which completes odd layers (`ChildIs`). A proof that is too short
  would start at an inner node, one that is too long would go through a leaf (`ClimbsTheTree`).
  `NothingInNoTree`: nothing verifies against the root of no leaves.
* `ProofsAreComplete`: the path `getProof` builds for a leaf verifies at its index: after k elements the
  climb is at the node of layer k above the leaf (`ParentIs`).
* `RootBindsLeaves`, `ProofIsForOneTree`: trees with the same root have the same leaves, of whatever
  number, and the path of a leaf verifies for the root of its own tree and of no other.
* `ProofIsForOneLeaf`: in a tree of leaves that differ, the path of a leaf verifies for it at its index
  and for nothing else. For a proof that verifies is the one `getProof` makes (`ProofsAreUnique`), and
  leaves that differ have different siblings (`PathsDiffer`).

`OfframpProofs` proves about `Spec` of `Offramp`, for all payees, batches with any number of withdrawals,
claims per tick, endpoints and ledgers (`OfframpConfig`), its four safety properties:

* `SpecPathsVerify`: from `ProofIsForOneLeaf`, whose conditions the leaves of a batch meet, for they
  differ by their index. (The run checks trees up to `MaxTree` leaves, the theorem any `MaxTree`.)
* `SpecPaidAsWithdrawn`: inductive with the types. Whichever proof a caller presents, what the contract
  pays is the leaf at that place of the batch's tree, by `ProofsAreSound`, and a leaf binds batch, index
  and payee (`AcceptedIsOwn`); batches are only appended, and their outboxes stay.
* `SpecClaimedIsPaid`: inductive only together with what is known while a transaction is polled: one
  that succeeded has paid the withdrawal at the head of the queue (`SuccessIsPaid`), and it does so in
  the step that includes it. The other way to a row that says claimed, the answer AlreadyClaimed, tells
  that somebody was paid at this index; that it was the payee is `PaidAsWithdrawn`.
* `SpecTypeOK`: the queue of a tick is a sequence of different rows (`TodoDistinct`). That the i-th
  row exists is a lemma about ranks in a finite set with a strict total order (`RowRanksExist`, from
  `RanksExist` of `TreesAndSums`).

`WalletProofs` proves about `Spec` of `Wallet`, for all accounts of the wallet and outside it, what
users fill in, what other clients send, and any bounds (`WalletConfig`: the asset is an allowed token,
the stages of a withdrawal begin with none and end with claimed), its four safety properties. The
inductive invariant `WalletInv` is in six parts:

* `ServerInv`: a row that is no deposit is signed by its account and carries a nonce below the account's,
  and every nonce below is on such a row (`Landed`). The first half makes a transaction with the next
  nonce new (`Duplicate` cannot hold), so `SpecNobodyTrapped`: a withdrawal of everything is answered
  201. The second half is why BAD_NONCE tells something true: the nonce was never above the account's,
  for the page got it from the server and nonces only grow, so it is below and another row has it.
* `RequestInv` and `BusyInv`: a tap is in one place. Until it is posted nobody else has it; while it is on
  its way it is in no row; and when it is a row, no request with it is left. Hence `SpecExecutedAsTapped`,
  though the page gives up on a request that arrives later: at most one row for each tap, of the
  content that was tapped, whichever account the wallet signed with.
* `SaidInv`: what a notice says stays true when the form that caused it is long over. It needs the other
  two, because a code is an answer to a request that is gone (`SpecNoticeIsTrue`).
* `PageInv` and `PaymentInv`: what is listed, about to be listed or polled are rows of withdrawals
  (`Burns`), in whichever order the four chains of the page answer; with the rest they are `SpecTypeOK`.

A step of the server or of another client only adds to the log (`Kept`), so what the page knows is not
disturbed by it (`RequestsUnmoved`, `BusyUnmoved`, `SaidUnmoved`, `PageUnmoved`).

Its second part is about the data a batch publishes. `BatchRoundTrip`: decoding what was encoded gives the
transactions back, for every sequence of them (that a number fits its field is presumed by the module).
Each field is read where it was written (`ReadsOne`, `ReadsFive`, `ReadsSix`), so is each transaction
(`DecodeTxIs`), and the encoding is a sequence of frames, whose places the two recursions of `EncodeBatchData` and
`DecodeBatchData` agree on (`FramesAre`, `PieceIs`). `SpecExecutedAsTapped` needs it, because it compares
what was tapped with what an auditor decodes.

Induction over data is possible in a bounded form, which `TreesAndSums` states: what is to be shown
for each number up to n is a set of numbers (`UpTo`), and the step of a recursion is a function
(`RecursionExists`), so that both can be given by terms. With it the recursive functions of the models
(`ReplayFrom`, `OutboxRows`, `Published`, `Credited`, `Audit`, `Height`, `Climb`, those of
`EncodeBatchData` and `DecodeBatchData`) are shown to have the values their definitions say. An induction
whose hypothesis is an operator stays out of reach.

Only model-checked: liveness under fairness (`EventuallySealed`, `EventuallyCommitted`,
`EventuallyFinalized`, `EventuallyClaimed`, `PageSettles`), which needs ENABLED and so is out of the
prover's reach. Every invariant and every other action property that a passing run checks is a
theorem.

## 5. Not modelled

* Bytes, hex and base64 digits, the curve and SHA-256 (taken as injective, signatures as
  unforgeable); TTL of storage; fees, prices and the numbers in delays.
* API: rate limits, CORS, address syntax, explorer listings and statistics. Store: health history,
  latencies, the minute backup and a restore from it. Health: latencies that break ties between
  endpoints, listeners. Configuration: parsing of the environment.
* Scanner: tokens other than the allowed one, and deposits reclaimed before they are credited.
  Operator: its switches `enabled`, `autoclaim` and `skipHistorical` (taken as on), filters of the
  payment feed (taken as passed).
* SDK: the escape helper and the waiting helpers. Frontend: rendering, amounts as text, the balance
  on Stellar, and the pages that only show text or read-only views. Scripts and examples.
* An L1 that forks or lies about its past: an endpoint is late, never wrong.

## 6. Plan

What is left, in the order of its worth:

1. Scanner: deposits of other tokens, and deposits given back before they are credited.
2. Store: a restore from the minute backup, as a fault of its own that drops the newest rows.
3. SDK: the escape helper, against a contract that is dead and a server that is gone.
