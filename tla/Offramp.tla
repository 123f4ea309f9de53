------------------------------ MODULE Offramp ------------------------------
(***************************************************************************)
(* How a withdrawal is paid on Stellar: claim of settlement/operator.ts    *)
(* over the withdrawals, batches and offramp tables of db/store.ts, the    *)
(* proofs of core/sequencer.ts, the invocation of rpc-client.ts, and       *)
(* withdraw of the contract, which anybody may call.                       *)
(*                                                                         *)
(* A claim takes the first PerTick withdrawals of final batches that no    *)
(* row says are paid, and awaits one transaction after the other.  While   *)
(* it waits ledgers close, other people claim, accounts are created, and   *)
(* transactions that were given up are included; an endpoint answers from  *)
(* some ledger `seen`.                                                     *)
(*                                                                         *)
(* Abstractions: token and amount are part of the payee; how a batch gets  *)
(* to the contract is module SettlementEngine, here it is published in one *)
(* step; the contract is not paused; a withdrawal can be paid when its     *)
(* payee has an account on L1, and accounts are not removed; sequence      *)
(* numbers are left out, since the contract itself refuses a second claim. *)
(***************************************************************************)
EXTENDS Merkle, FiniteSetsExt

CONSTANTS
    Payees,           \* l1_recipient of withdrawals
    Outboxes,         \* the payees of the withdrawals of each batch, in order
    ChallengePeriod,
    PerTick,          \* offrampPerTick
    Servers,          \* number of endpoints
    NoLedger, NoTx,
    MaxTree,          \* bound: leaves of the trees of PathsVerify
    MaxLedger         \* bound: ledgers closed

ASSUME OfframpConfig ==
    /\ Outboxes \in Seq(Seq(Payees))
    /\ ChallengePeriod \in Nat
    /\ {PerTick, Servers} \subseteq Nat \ {0}
    /\ {MaxTree, MaxLedger} \subseteq Nat
    /\ NoLedger \notin Nat
    /\ NoTx \notin [status : {"NOT_FOUND", "SUCCESS", "FAILED"}, ledger : Nat \cup {NoLedger}]

VARIABLES
    \* the L1
    ledger,
    created,      \* ledger in which the account of a payee came to be
    transfers,    \* what withdraw paid, and its claimed flags
    inFlight,     \* withdrawals with a claim that may still be included
    \* the database
    batches,      \* published batches with their outbox
    offramp,      \* rows of the offramp table
    \* the process
    pc,
    todo,         \* withdrawals of this claim()
    polled,       \* the transaction waited for
    serversLeft

l1 == <<ledger, created, transfers, inFlight>>
vars == <<l1, batches, offramp, pc, todo, polled, serversLeft>>

-----------------------------------------------------------------------------
(* Proofs *)

\* Mutant: the leaf does not say whom to pay.
SlotLeaf(b, i, payee) == Leaf([batch |-> b, wIndex |-> i, payee |-> "anyone"])

\* withdrawal_leaf binds the batch and the index as well as the payee.
WithdrawalLeaf(b, i, payee) == Leaf([batch |-> b, wIndex |-> i, payee |-> payee])

Leaves(b) == [i \in DOMAIN batches[b].outbox |-> WithdrawalLeaf(b, i - 1, batches[b].outbox[i])]

\* The rows of the withdrawals table: [batch, wIndex], wIndex from 0.
Withdrawals == UNION {{[batch |-> b, wIndex |-> i - 1] : i \in DOMAIN batches[b].outbox} : b \in DOMAIN batches}

PayeeOf(w) == batches[w.batch].outbox[w.wIndex + 1]

\* withdrawalProof: the tree is built again from the rows of the batch.
WithdrawalProof(w) == GetProof(Leaves(w.batch), w.wIndex)

-----------------------------------------------------------------------------
(* The contract *)

\* The account of a payee, for one who has seen ledger `seen`.
Exists(payee, seen) == created[payee] # NoLedger /\ created[payee] <= seen

AlreadyClaimed(w, seen) ==
    \E t \in transfers : t.batch = w.batch /\ t.wIndex = w.wIndex /\ t.ledger <= seen

IsFinalized(b, seen) == seen >= batches[b].commitLedger + ChallengePeriod

\* Whether withdraw(batch, w_index, recipient, proof) succeeds.
Accepts(w, payee, proof, seen) ==
    /\ IsFinalized(w.batch, seen)
    /\ ~AlreadyClaimed(w, seen)
    /\ VerifyProof(WithdrawalLeaf(w.batch, w.wIndex, payee), w.wIndex, proof,
                   ComputeRoot(Leaves(w.batch)))
    /\ Exists(payee, seen)

AcceptsOwn(w, seen) == Accepts(w, PayeeOf(w), WithdrawalProof(w), seen)

Transfer(w, payee) == [batch |-> w.batch, wIndex |-> w.wIndex, payee |-> payee, ledger |-> ledger]

CloseLedger ==
    /\ ledger < MaxLedger
    /\ ledger' = ledger + 1
    /\ UNCHANGED <<created, transfers, inFlight, batches, offramp, pc, todo, polled, serversLeft>>

CreateAccount(payee) ==
    /\ created[payee] = NoLedger
    /\ created' = [created EXCEPT ![payee] = ledger]
    /\ UNCHANGED <<ledger, transfers, inFlight, batches, offramp, pc, todo, polled, serversLeft>>

\* commit_batch: the batch is in the contract, and committed for the engine.
Publish ==
    /\ Len(batches) < Len(Outboxes)
    /\ batches' = Append(batches, [outbox |-> Outboxes[Len(batches) + 1], commitLedger |-> ledger,
                                   status |-> "committed"])
    /\ UNCHANGED <<l1, offramp, pc, todo, polled, serversLeft>>

\* Somebody else calls withdraw for w, with the proof the API gave for any
\* withdrawal `of`, and any payee.
OthersClaim(w, of, payee) ==
    /\ Accepts(w, payee, WithdrawalProof(of), ledger)
    /\ transfers' = transfers \cup {Transfer(w, payee)}
    /\ UNCHANGED <<ledger, created, inFlight, batches, offramp, pc, todo, polled, serversLeft>>

\* A claim of the operator enters a ledger, and succeeds or fails there.
Include(w) ==
    /\ w \in inFlight
    /\ inFlight' = inFlight \ {w}
    /\ transfers' = IF AcceptsOwn(w, ledger) THEN transfers \cup {Transfer(w, PayeeOf(w))} ELSE transfers
    /\ polled' = IF pc = "poll" /\ Head(todo) = w
                 THEN [status |-> IF AcceptsOwn(w, ledger) THEN "SUCCESS" ELSE "FAILED", ledger |-> ledger]
                 ELSE polled
    /\ UNCHANGED <<ledger, created, batches, offramp, pc, todo, serversLeft>>

\* It expires.
Drop(w) ==
    /\ inFlight' = inFlight \ {w}
    /\ UNCHANGED <<ledger, created, transfers, batches, offramp, pc, todo, polled, serversLeft>>

-----------------------------------------------------------------------------
(* claim *)

\* getOfframp
RowOf(w) == IF w \in DOMAIN offramp THEN offramp[w] ELSE "none"

Due(bs) == {w \in Withdrawals : bs[w.batch].status = "finalized" /\ RowOf(w) \in {"none", "failed"}}

Before(v, w) == v.batch < w.batch \/ (v.batch = w.batch /\ v.wIndex < w.wIndex)

\* ORDER BY batch_index, w_index LIMIT: the i-th row has i - 1 rows before it.
FirstPerTick(rows) ==
    [i \in 1..Min({PerTick, Cardinality(rows)}) |->
        CHOOSE w \in rows : Cardinality({v \in rows : Before(v, w)}) = i - 1]

\* Mutant: a claim that failed is not taken up again.
UntriedOnly(bs) == FirstPerTick({w \in Due(bs) : RowOf(w) = "none"})

\* Mutant: rows that say claimed are taken up again.
FinalRows(bs) == FirstPerTick({w \in Withdrawals : bs[w.batch].status = "finalized"})

WithdrawalsToClaim(bs) == FirstPerTick(Due(bs))

Finalize(latestLedger) ==
    [b \in DOMAIN batches |->
        IF IsFinalized(b, latestLedger) THEN [batches[b] EXCEPT !.status = "finalized"] ELSE batches[b]]

\* The end of a tick: finalize() with the ledger of its probe, then claim() up
\* to its first await.  A due withdrawal is claimable: its batch is final.
Tick(latestLedger) ==
    /\ pc = "idle"
    /\ batches' = Finalize(latestLedger)
    /\ todo' = WithdrawalsToClaim(batches')
    /\ pc' = IF todo' = <<>> THEN "idle" ELSE "invoke"
    /\ UNCHANGED <<l1, offramp, polled, serversLeft>>

\* upsertOfframp, and on to the next withdrawal.
RowDone(status) ==
    /\ offramp' = [w \in DOMAIN offramp \cup {Head(todo)} |-> IF w = Head(todo) THEN status ELSE offramp[w]]
    /\ todo' = Tail(todo)
    /\ pc' = IF Tail(todo) = <<>> THEN "idle" ELSE "invoke"
    /\ polled' = NoTx
    /\ serversLeft' = Servers

\* The simulation succeeds and sendTransaction answers PENDING.
Send(seen) ==
    /\ pc = "invoke"
    /\ AcceptsOwn(Head(todo), seen)
    /\ inFlight' = inFlight \cup {Head(todo)}
    /\ polled' = [status |-> "NOT_FOUND", ledger |-> NoLedger]
    /\ pc' = "poll"
    /\ UNCHANGED <<ledger, created, transfers, batches, offramp, todo, serversLeft>>

\* Mutant: every refusal of the simulation is taken for AlreadyClaimed.
AnyRefusalIsClaimed(seen) == ~AcceptsOwn(Head(todo), seen) /\ RowDone("claimed")

\* The simulation answers AlreadyClaimed: it has been paid.
FindsClaimed(seen) == AlreadyClaimed(Head(todo), seen) /\ RowDone("claimed")

AlreadyPaid(seen) ==
    /\ pc = "invoke"
    /\ FindsClaimed(seen)
    /\ UNCHANGED <<l1, batches>>

\* It fails for another reason: there is no account to pay to, or the batch is
\* not final for this endpoint; or sendTransaction answers ERROR or
\* TRY_AGAIN_LATER.  No other endpoint is tried.
ClaimRefused ==
    /\ pc = "invoke"
    /\ RowDone("failed")
    /\ UNCHANGED <<l1, batches>>

\* A network error, before the transaction was sent or after (`sent`).
EndpointFails(seen, sent) ==
    /\ pc = "invoke"
    /\ sent => AcceptsOwn(Head(todo), seen)
    /\ inFlight' = IF sent THEN inFlight \cup {Head(todo)} ELSE inFlight
    /\ \/ serversLeft = 1 /\ RowDone("failed")
       \/ /\ serversLeft > 1
          /\ serversLeft' = serversLeft - 1
          /\ UNCHANGED <<offramp, todo, pc, polled>>
    /\ UNCHANGED <<ledger, created, transfers, batches>>

\* getTransaction answers SUCCESS, ...
Confirm(seen) ==
    /\ pc = "poll"
    /\ polled.status = "SUCCESS"
    /\ polled.ledger <= seen
    /\ RowDone("claimed")
    /\ UNCHANGED <<l1, batches>>

\* ... FAILED, or nothing in confirmTimeoutMs.
ClaimFails ==
    /\ pc = "poll"
    /\ RowDone("failed")
    /\ UNCHANGED <<l1, batches>>

Crash ==
    /\ pc # "down"
    /\ pc' = "down"
    /\ todo' = <<>>
    /\ polled' = NoTx
    /\ serversLeft' = Servers
    /\ UNCHANGED <<l1, batches, offramp>>

Start ==
    /\ pc = "down"
    /\ pc' = "idle"
    /\ UNCHANGED <<l1, batches, offramp, todo, polled, serversLeft>>

Init ==
    /\ ledger = 0
    /\ created \in [Payees -> {0, NoLedger}]
    /\ transfers = {}
    /\ inFlight = {}
    /\ batches = <<>>
    /\ offramp = <<>>
    /\ pc = "down"
    /\ todo = <<>>
    /\ polled = NoTx
    /\ serversLeft = Servers

InvokeStep ==
    \/ \E seen \in 0..ledger : Send(seen) \/ AlreadyPaid(seen)
    \/ \E seen \in 0..ledger, sent \in BOOLEAN : EndpointFails(seen, sent)
    \/ ClaimRefused

PollStep ==
    \/ \E seen \in 0..ledger : Confirm(seen)
    \/ ClaimFails

\* Whoever runs the process starts it, the engine's timer runs, and an
\* invocation ends.
ProcessStep ==
    \/ Start
    \/ \E latestLedger \in 0..ledger : Tick(latestLedger)
    \/ InvokeStep
    \/ PollStep

Next ==
    \/ CloseLedger
    \/ \E payee \in Payees : CreateAccount(payee)
    \/ Publish
    \/ \E w, of \in Withdrawals, payee \in Payees : OthersClaim(w, of, payee)
    \/ \E w \in inFlight : Include(w) \/ Drop(w)
    \/ ProcessStep
    \/ Crash

\* Whatever may ever be withdrawn.
PossibleWithdrawals ==
    UNION {{[batch |-> b, wIndex |-> i - 1] : i \in DOMAIN Outboxes[b]} : b \in DOMAIN Outboxes}

\* The process runs, and from some moment on stays up.  An endpoint that is
\* current, asked again and again about one withdrawal, some time takes the
\* claim or says that it was paid; a claim sent again and again is included.
Fairness ==
    /\ WF_vars(ProcessStep)
    /\ \A w \in PossibleWithdrawals :
          /\ SF_vars(todo # <<>> /\ Head(todo) = w /\ (Send(ledger) \/ AlreadyPaid(ledger)))
          /\ SF_vars(Include(w))
    /\ <>[][pc' # "down"]_vars

Spec == Init /\ [][Next]_vars /\ Fairness

-----------------------------------------------------------------------------
\* Type invariant; a phase of the claim has what it needs.
TypeOK ==
    /\ ledger \in 0..MaxLedger
    /\ created \in [Payees -> 0..ledger \cup {NoLedger}]
    /\ transfers \subseteq [batch : DOMAIN batches, wIndex : Nat, payee : Payees, ledger : 0..ledger]
    /\ inFlight \subseteq Withdrawals
    /\ batches \in Seq([outbox : Seq(Payees), commitLedger : 0..ledger, status : {"committed", "finalized"}])
    /\ DOMAIN offramp \subseteq Withdrawals
    /\ \A w \in DOMAIN offramp : offramp[w] \in {"claimed", "failed"}
    /\ todo \in Seq(Due(batches))
    /\ pc \in {"down", "idle", "invoke", "poll"}
    /\ pc \in {"invoke", "poll"} <=> todo # <<>>
    /\ pc = "poll" <=> polled # NoTx
    /\ serversLeft \in 1..Servers

\* A row says claimed only when the withdrawal was paid to its payee, by the
\* operator or by somebody else (operator.ts:252-258; docs/06-sequencer-api.md:47:
\* "`claimed` / `claimTxHash` after we pay XLM").
ClaimedIsPaid ==
    \A w \in DOMAIN offramp : offramp[w] = "claimed" =>
        \E t \in transfers : t.batch = w.batch /\ t.wIndex = w.wIndex /\ t.payee = PayeeOf(w)

\* Whoever claims, with whichever proof the API gives, a transfer out pays a
\* withdrawal of its batch, and to the payee it was withdrawn for.  (That each
\* is paid once is PaidOnce of FlashBridge.)
PaidAsWithdrawn ==
    \A t \in transfers :
        LET w == [batch |-> t.batch, wIndex |-> t.wIndex] IN w \in Withdrawals /\ t.payee = PayeeOf(w)

\* getProof of merkle.ts and verify_proof of the contract agree on trees of any
\* size and shape, checked once, with the first batch: the proof of a leaf
\* verifies for it, at its index, and for no other leaf and no other index, of
\* more bits than the tree has layers too.
PathsVerify ==
    [][batches = <<>> /\ batches' # <<>> =>
        \A n \in 1..MaxTree :
            LET leaves == [i \in 1..n |-> WithdrawalLeaf(1, i - 1, batches'[1].outbox[1])]
                root   == ComputeRoot(leaves)
            IN  \A i \in 1..n : \A proof \in {GetProof(leaves, i - 1)} :
                    \A k \in 1..n, index \in 0..(2 * n) :
                        VerifyProof(leaves[k], index, proof, root) <=> (k = i /\ index = i - 1)]_vars

\* Due withdrawals before w that cannot be paid.
UnpayableBefore(w) == {v \in Due(batches) : Before(v, w) /\ created[PayeeOf(v)] = NoLedger}

\* A withdrawal that is due and can be paid is marked claimed some day, by
\* ClaimedIsPaid after it was paid, whatever was lost, late or done by others;
\* provided that fewer than PerTick withdrawals that cannot be paid are before
\* it: claim() takes the same first rows at every tick (store.ts:501), and with
\* PerTick of those nobody behind them is paid.
EventuallyClaimed ==
    \A w \in PossibleWithdrawals :
        ( /\ w \in Due(batches)
          /\ created[PayeeOf(w)] # NoLedger
          /\ Cardinality(UnpayableBefore(w)) < PerTick )
        ~> (w \in DOMAIN offramp /\ offramp[w] = "claimed")
=============================================================================
