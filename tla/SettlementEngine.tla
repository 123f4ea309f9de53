-------------------------- MODULE SettlementEngine --------------------------
(***************************************************************************)
(* sequencer/src/settlement: the engine's tick (engine.ts) with the policy *)
(* (policy.ts), the RPC client it publishes with (rpc-client.ts), and the  *)
(* L1 on the other side, over the batches table of db/store.ts.            *)
(*                                                                         *)
(* One tick runs at a time.  It probes the L1, seals, publishes the oldest *)
(* sealed batch and marks final batches.  Every await is a point where     *)
(* ledgers close, transactions sent earlier are included or expire, and    *)
(* the process may die.  An endpoint may lag: what it answers is the L1 of *)
(* some earlier ledger.                                                    *)
(*                                                                         *)
(* Abstractions: batches are numbered from 1; a batch is its two roots;    *)
(* time is left out, so that whether a batch is urgent, whether a backoff  *)
(* has run out and when a transaction expires are free; deposits, and      *)
(* what checkSolvency compares, belong to other modules.                   *)
(***************************************************************************)
EXTENDS Integers, Sequences

CONSTANTS
    BatchRoot,            \* state roots
    GenesisRoot,          \* the root before any batch
    ChallengePeriod,      \* challenge_period_ledgers of the contract
    ConfiguredChallenge,  \* CHALLENGE_PERIOD_LEDGERS of the process
    Servers,              \* RPC_URLS: number of endpoints
    NoLedger, NoTx,
    MaxBatches,           \* bound: batches sealed
    MaxLedger             \* bound: ledgers closed

CommitTxs == [index : 1..MaxBatches, prevRoot : BatchRoot, newRoot : BatchRoot]

SentTx == [tx : CommitTxs, result : {"pending", "SUCCESS", "lost"}, ledger : Nat \cup {NoLedger}]

ASSUME SettlementConfig ==
    /\ GenesisRoot \in BatchRoot
    /\ ChallengePeriod \in Nat
    /\ ConfiguredChallenge \in Nat
    /\ Servers \in Nat \ {0}
    /\ MaxBatches \in Nat
    /\ MaxLedger \in Nat
    /\ NoLedger \notin Nat
    /\ NoTx \notin SentTx

VARIABLES
    \* the L1
    ledger,
    chain,       \* the batches of the contract
    orphans,     \* commit_batch transactions in flight nobody waits for
    sent,        \* the one the client polls, and what became of it
    \* the database
    db,          \* batches
    \* the process
    pc,
    health,      \* the probe of this tick
    halted,
    serversLeft  \* withFailover: endpoints not tried yet

l1Vars == <<ledger, chain, orphans, sent>>
vars == <<l1Vars, db, pc, health, halted, serversLeft>>

Unprobed == [status |-> "DOWN", latestLedger |-> NoLedger]

-----------------------------------------------------------------------------
(* The L1 *)

\* What an endpoint that has seen ledger `seen` knows of the contract.
SeenBy(seen) == [k \in {j \in DOMAIN chain : chain[j].ledger <= seen} |-> chain[k]]

RootOf(batches) == IF batches = <<>> THEN GenesisRoot ELSE batches[Len(batches)].newRoot

\* last_commit_ledger: the constructor sets it to the ledger of deployment.
LastCommitLedger(batches) == IF batches = <<>> THEN 0 ELSE batches[Len(batches)].ledger

\* Mutant: the contract does not look at the batch index.
AcceptsAnyIndex(batches, tx) == tx.prevRoot = RootOf(batches)

\* What commit_batch requires of a batch after `batches`.
Accepts(batches, tx) ==
    /\ tx.index = Len(batches) + 1
    /\ tx.prevRoot = RootOf(batches)

Recorded(tx) == Append(chain, [prevRoot |-> tx.prevRoot, newRoot |-> tx.newRoot, ledger |-> ledger])

CloseLedger ==
    /\ ledger < MaxLedger
    /\ ledger' = ledger + 1
    /\ UNCHANGED <<chain, orphans, sent, db, pc, health, halted, serversLeft>>

\* The polled transaction enters the ledger and succeeds, ...
IncludeSent ==
    /\ sent # NoTx
    /\ sent.result = "pending"
    /\ Accepts(chain, sent.tx)
    /\ chain' = Recorded(sent.tx)
    /\ sent' = [sent EXCEPT !.result = "SUCCESS", !.ledger = ledger]
    /\ UNCHANGED <<ledger, orphans, db, pc, health, halted, serversLeft>>

\* ... or fails there: the contract rejects it, it is paused, a resource runs
\* out; or it never enters.
LoseSent ==
    /\ sent # NoTx
    /\ sent.result = "pending"
    /\ sent' = [sent EXCEPT !.result = "lost"]
    /\ UNCHANGED <<ledger, chain, orphans, db, pc, health, halted, serversLeft>>

\* A transaction nobody waits for any more is included late or expires.
SettleOrphan(tx) ==
    /\ orphans' = orphans \ {tx}
    /\ \/ Accepts(chain, tx) /\ chain' = Recorded(tx)
       \/ UNCHANGED chain
    /\ UNCHANGED <<ledger, sent, db, pc, health, halted, serversLeft>>

-----------------------------------------------------------------------------
(* The tick *)

\* Nobody polls the transaction any more; it may still be included.
StopPolling ==
    /\ sent' = NoTx
    /\ orphans' = IF sent # NoTx /\ sent.result = "pending"
                  THEN orphans \cup {sent.tx} ELSE orphans

\* probe() of the client: each endpoint is down, or answers with the ledger it
\* knows, how old that is (DOWN and DEGRADED are thresholds) and the fees.
Answers ==
    {[ok |-> FALSE]} \cup
    [ok : {TRUE}, latestLedger : 0..ledger, age : {"fresh", "late", "stopped"}, surge : BOOLEAN]

\* evaluateHealth: the endpoint that knows the most recent ledger speaks for all.
EvaluateHealth(probes) ==
    LET ok   == {e \in DOMAIN probes : probes[e].ok}
        best == probes[CHOOSE e \in ok : \A f \in ok : probes[f].latestLedger <= probes[e].latestLedger]
    IN  IF ok = {} THEN Unprobed
        ELSE [status |-> CASE best.age = "stopped" -> "DOWN"
                           [] best.age = "late" -> "DEGRADED"
                           [] best.age = "fresh" -> IF best.surge THEN "DEGRADED" ELSE "HEALTHY",
              latestLedger |-> best.latestLedger]

\* probe() of the monitor
Probes == {EvaluateHealth(probes) : probes \in [1..Servers -> Answers]}

\* The tick up to maybeSeal; checkSolvency may find a breach.
Tick(probe) ==
    /\ pc = "idle"
    /\ health' = probe
    /\ \E breach \in BOOLEAN :
          halted' = (halted \/ (probe.status # "DOWN" /\ breach))
    /\ pc' = IF halted' THEN "finalize" ELSE "seal"
    /\ UNCHANGED <<l1Vars, db, serversLeft>>

\* maybeSeal(): one sealBatch of its loop.
Seal(root) ==
    /\ pc = "seal"
    /\ Len(db) < MaxBatches
    /\ db' = Append(db, [prevRoot |-> RootOf(db), newRoot |-> root, status |-> "sealed",
                         commitLedger |-> NoLedger, attempted |-> FALSE])
    /\ UNCHANGED <<l1Vars, pc, health, halted, serversLeft>>

Sealed == {k \in DOMAIN db : db[k].status = "sealed"}

\* batchesByStatus('sealed')[0]
OldestSealed == CHOOSE k \in Sealed : \A j \in Sealed : k <= j

\* decideSettlement
Decision(urgent, backingOff) ==
    CASE backingOff -> "DEFER"
      [] ~backingOff /\ health.status = "DOWN" -> "HOLD"
      [] ~backingOff /\ health.status = "DEGRADED" /\ ~urgent -> "DEFER"
      [] OTHER -> "COMMIT"

\* settleNext(): choose the batch and decide.
SettleNothing ==
    /\ pc = "seal"
    /\ \/ Sealed = {}
       \/ /\ Sealed # {}
          /\ \E urgent, early \in BOOLEAN :
                Decision(urgent, early /\ db[OldestSealed].attempted) # "COMMIT"
    /\ pc' = "finalize"
    /\ UNCHANGED <<l1Vars, db, health, halted, serversLeft>>

SettleOldest ==
    /\ pc = "seal"
    /\ Sealed # {}
    /\ \E urgent \in BOOLEAN : Decision(urgent, FALSE) = "COMMIT"
    /\ pc' = "send"
    /\ serversLeft' = Servers
    /\ UNCHANGED <<l1Vars, db, health, halted>>

CommitTx == [index |-> OldestSealed,
             prevRoot |-> db[OldestSealed].prevRoot, newRoot |-> db[OldestSealed].newRoot]

MarkAttempt == db' = [db EXCEPT ![OldestSealed].attempted = TRUE]

\* Mutant: commit_ledger is not written.
MarkCommittedOnly(commitLedger) == db' = [db EXCEPT ![OldestSealed].status = "committed"]

MarkCommitted(commitLedger) ==
    db' = [db EXCEPT ![OldestSealed].status = "committed",
                     ![OldestSealed].commitLedger = commitLedger]

\* invoke(): the simulation passes and the transaction is sent.
Send(seen) ==
    /\ pc = "send"
    /\ Accepts(SeenBy(seen), CommitTx)
    /\ sent' = [tx |-> CommitTx, result |-> "pending", ledger |-> NoLedger]
    /\ pc' = "poll"
    /\ UNCHANGED <<ledger, chain, orphans, db, health, halted, serversLeft>>

\* Mutant: a batch the contract has already is retried for ever.
NeverTaken(batches) == FALSE

\* The simulation answers InvalidBatchIndex.
IndexRejected(batches) == OldestSealed # Len(batches) + 1

\* invoke(): the simulation fails for any reason of the contract.
SimulationFails(seen) ==
    /\ pc = "send"
    /\ MarkAttempt
    /\ pc' = IF IndexRejected(SeenBy(seen)) THEN "reconcile" ELSE "finalize"
    /\ UNCHANGED <<l1Vars, health, halted, serversLeft>>

\* invoke(): the answer of an endpoint is lost, whether or not it took the
\* transaction; the next endpoint gets a new one.
EndpointFails(delivered) ==
    /\ pc = "send"
    /\ orphans' = IF delivered THEN orphans \cup {CommitTx} ELSE orphans
    /\ serversLeft' = serversLeft - 1
    /\ IF serversLeft > 1
       THEN UNCHANGED <<db, pc>>
       ELSE MarkAttempt /\ pc' = "finalize"
    /\ UNCHANGED <<ledger, chain, sent, health, halted>>

\* TRY_AGAIN_LATER, or the network rejects the transaction at the door.
SendRefused ==
    /\ pc = "send"
    /\ MarkAttempt
    /\ pc' = "finalize"
    /\ UNCHANGED <<l1Vars, health, halted, serversLeft>>

\* The client learns that the transaction succeeded: markBatchCommitted.
Confirm ==
    /\ pc = "poll"
    /\ sent.result = "SUCCESS"
    /\ MarkCommitted(sent.ledger)
    /\ StopPolling
    /\ pc' = "finalize"
    /\ UNCHANGED <<ledger, chain, health, halted, serversLeft>>

\* The client learns that it failed, or stops polling, even if it succeeded.
\* The error names no contract error: nothing is reconciled.
CommitFails ==
    /\ pc = "poll"
    /\ MarkAttempt
    /\ StopPolling
    /\ pc' = "finalize"
    /\ UNCHANGED <<ledger, chain, health, halted, serversLeft>>

\* Mutant: off by one, the batch itself need not be in the contract.
CountReaches(batches) == Len(batches) >= OldestSealed - 1

\* batchCount > index, the index counted from 0.
HasBatch(batches) == Len(batches) >= OldestSealed

\* reconcile(): if an endpoint says the contract has the batch, it is marked
\* with the ledger of the contract's last commit; the roots are not compared.
Reconcile(seen) ==
    /\ pc = "reconcile"
    /\ HasBatch(SeenBy(seen))
    /\ MarkCommitted(LastCommitLedger(SeenBy(seen)))
    /\ pc' = "finalize"
    /\ UNCHANGED <<l1Vars, health, halted, serversLeft>>

\* The endpoint does not know the batch, or cannot be read.
ReconcileLater ==
    /\ pc = "reconcile"
    /\ pc' = "finalize"
    /\ UNCHANGED <<l1Vars, db, health, halted, serversLeft>>

\* Mutant: the batch is final one ledger late.
PastChallengeStrictly(k) == health.latestLedger > db[k].commitLedger + ConfiguredChallenge

\* Mutant: the challenge period is not counted.
NoChallenge(k) == health.latestLedger >= db[k].commitLedger

PastChallenge(k) == health.latestLedger >= db[k].commitLedger + ConfiguredChallenge

\* markBatchFinalized
MarkFinalized(k) == db' = [db EXCEPT ![k].status = "finalized"]

Finalizable ==
    {k \in DOMAIN db : /\ db[k].status = "committed"
                       /\ health.latestLedger # NoLedger
                       /\ PastChallenge(k)}

\* finalize(): one markBatchFinalized of its loop, ...
Finalize(k) ==
    /\ pc = "finalize"
    /\ k \in Finalizable
    /\ \A j \in Finalizable : k <= j
    /\ MarkFinalized(k)
    /\ UNCHANGED <<l1Vars, pc, health, halted, serversLeft>>

\* ... and the end of the tick.
TickEnds ==
    /\ pc = "finalize"
    /\ Finalizable = {}
    /\ pc' = "idle"
    /\ health' = Unprobed
    /\ UNCHANGED <<l1Vars, db, halted, serversLeft>>

\* The process dies, and is started again.
Crash ==
    /\ pc # "down"
    /\ pc' = "down"
    /\ halted' = FALSE
    /\ health' = Unprobed
    /\ StopPolling
    /\ UNCHANGED <<ledger, chain, db, serversLeft>>

Start ==
    /\ pc = "down"
    /\ pc' = "idle"
    /\ UNCHANGED <<l1Vars, db, health, halted, serversLeft>>

-----------------------------------------------------------------------------
Init ==
    /\ ledger = 0
    /\ chain = <<>>
    /\ orphans = {}
    /\ sent = NoTx
    /\ db = <<>>
    /\ pc = "down"
    /\ health = Unprobed
    /\ halted = FALSE
    /\ serversLeft = Servers

L1Step ==
    \/ CloseLedger
    \/ IncludeSent
    \/ LoseSent
    \/ \E tx \in orphans : SettleOrphan(tx)

TickStep ==
    \/ pc = "idle" /\ \E probe \in Probes : Tick(probe)
    \/ \E root \in BatchRoot : Seal(root)
    \/ SettleNothing
    \/ SettleOldest
    \/ \E seen \in 0..ledger : Send(seen) \/ SimulationFails(seen) \/ Reconcile(seen)
    \/ \E delivered \in BOOLEAN : EndpointFails(delivered)
    \/ SendRefused
    \/ Confirm
    \/ CommitFails
    \/ ReconcileLater
    \/ \E k \in DOMAIN db : Finalize(k)
    \/ TickEnds

Next == L1Step \/ TickStep \/ Crash \/ Start

\* The timer ticks and every call of a tick returns; Stellar recovers: probes
\* that are healthy and up to date keep coming, a commit that is sent again
\* and again is included and seen some time, and so is a read of the contract.
Fairness ==
    /\ WF_vars(Start)
    /\ WF_vars(CloseLedger)
    /\ WF_vars(TickStep)
    /\ SF_vars(Tick([status |-> "HEALTHY", latestLedger |-> ledger]))
    /\ SF_vars(SettleOldest)
    /\ SF_vars(Send(ledger))
    /\ SF_vars(pc = "send" /\ IndexRejected(chain) /\ SimulationFails(ledger))
    /\ SF_vars(IncludeSent)
    /\ SF_vars(Confirm)
    /\ SF_vars(Reconcile(ledger))
    /\ <>[][pc' # "down" /\ ~halted']_vars

Spec == Init /\ [][Next]_vars /\ Fairness

-----------------------------------------------------------------------------
BatchInfo == [prevRoot : BatchRoot, newRoot : BatchRoot, ledger : Nat]

BatchRecord == [prevRoot : BatchRoot, newRoot : BatchRoot, status : {"sealed", "committed", "finalized"},
                commitLedger : Nat \cup {NoLedger}, attempted : BOOLEAN]

L1Types ==
    /\ ledger \in 0..MaxLedger
    /\ chain \in Seq(BatchInfo)
    /\ \A k \in DOMAIN chain : chain[k].ledger <= ledger
    /\ orphans \subseteq CommitTxs
    /\ sent # NoTx => sent \in SentTx

DbTypes ==
    /\ db \in Seq(BatchRecord)
    /\ Len(db) <= MaxBatches
    /\ \A k \in DOMAIN db : db[k].status = "sealed" <=> db[k].commitLedger = NoLedger

ProcessTypes ==
    /\ pc \in {"down", "idle", "seal", "send", "poll", "reconcile", "finalize"}
    /\ sent # NoTx <=> pc = "poll"
    /\ health = Unprobed \/ health \in [status : {"HEALTHY", "DEGRADED", "DOWN"}, latestLedger : 0..ledger]
    /\ halted \in BOOLEAN
    /\ serversLeft \in 0..Servers

\* Type invariant; a batch has a commit ledger exactly when it is committed.
TypeOK == L1Types /\ DbTypes /\ ProcessTypes

\* The contract holds the sealed batches in order, each once, whatever was
\* resubmitted, included late or thought to have failed.
PublishedInOrder ==
    /\ Len(chain) <= Len(db)
    /\ \A k \in DOMAIN chain :
          chain[k].prevRoot = db[k].prevRoot /\ chain[k].newRoot = db[k].newRoot

\* A batch marked committed is in the contract, with the same root, committed
\* at the ledger the database says: same index, different root must never pass
\* for published (docs/06-sequencer-api.md:91).
CommittedIsOnL1 ==
    \A k \in DOMAIN db : db[k].status # "sealed" =>
        /\ k \in DOMAIN chain
        /\ chain[k].newRoot = db[k].newRoot
        /\ chain[k].ledger = db[k].commitLedger

\* A batch marked final is final for the contract, so its withdrawals can be
\* claimed, although the engine decides from the ledger of a probe.
FinalizedIsFinal ==
    \A k \in DOMAIN db : db[k].status = "finalized" =>
        k \in DOMAIN chain /\ ledger >= chain[k].ledger + ChallengePeriod

\* A batch that was sealed is committed some day, whatever failed on the way.
EventuallyCommitted ==
    \A k \in 1..MaxBatches : k \in DOMAIN db ~> (k \in DOMAIN db /\ db[k].status # "sealed")

\* A batch in the contract is marked final once the ledgers it takes close.
EventuallyFinalized ==
    \A k \in 1..MaxBatches :
        (k \in DOMAIN chain /\ chain[k].ledger + ChallengePeriod <= MaxLedger)
            ~> (k \in DOMAIN db /\ db[k].status = "finalized")
=============================================================================
