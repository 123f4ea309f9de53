--------------------------- MODULE BridgeOperator ---------------------------
(***************************************************************************)
(* settlement/operator.ts, ingest: classic payments to the sequencer's     *)
(* account become deposits in the vault, under the caps of limits.ts, and  *)
(* DepositScan credits them.  The onramp table is that of db/store.ts, the *)
(* invocation that of rpc-client.ts.                                       *)
(*                                                                         *)
(* Every await of ingest is a value of pc.  A transaction carries the      *)
(* sequence number of the operator's account, which is the number of       *)
(* deposits the account has made, so that of several in flight with one    *)
(* number one at most is included.  A transaction the client no longer     *)
(* polls may be included until it expires.                                 *)
(*                                                                         *)
(* Abstractions: payments are numbered from 1 in the order of Horizon's    *)
(* paging tokens and rows keep that order; the account's other             *)
(* transactions (commits, claims) only make one in flight invalid; claim   *)
(* is left out.                                                            *)
(***************************************************************************)
EXTENDS DepositScan

LOCAL INSTANCE FiniteSetsExt

CONSTANTS
    MinAmount,     \* minOnrampStroops
    Allowlist,     \* empty: everyone
    AccountCap,    \* without limits, what no balance can reach
    VaultCap,
    PerTick,       \* rows handled in a tick
    HorizonPage,   \* payments in a page (50)
    Servers,       \* number of endpoints
    Unset,         \* onramp_horizon_cursor before the first tick
    NoTx, NoLedger,
    MaxPayments    \* bound: payments made

ASSUME OperatorConfig ==
    /\ {MinAmount, AccountCap, VaultCap, MaxPayments} \subseteq Nat
    /\ Allowlist \subseteq Accounts
    /\ {PerTick, HorizonPage, Servers} \subseteq Nat \ {0}
    /\ Unset \notin Nat
    /\ NoPayment \notin Nat
    /\ NoLedger \notin Nat
    /\ NoTx \notin [tx : [payment : Nat, seqNo : Nat], ledger : Nat \cup {NoLedger}]

VARIABLES
    \* outside
    payments,      \* what Horizon lists
    inFlight,      \* deposit transactions that may still be included
    \* the database
    cursor,        \* onramp_horizon_cursor
    onramp,        \* status of the row of each payment
    tip,           \* history: the cursor when the onramp was activated
    \* the process
    todo,          \* rows of this tick, the first is next
    polled,        \* transaction waited for, and the ledger it is in
    serversLeft

outside == <<ledger, deposits, payments, inFlight>>
onrampRows == <<cursor, onramp, tip>>
vars == <<outside, scanVars, onrampRows, pc, todo, polled, serversLeft>>

-----------------------------------------------------------------------------
(* Payers, depositors and the L1 *)

RelaysOf(p) == {i \in DOMAIN deposits : deposits[i].payment = p}

\* The operator's sequence number as an endpoint knows it.
AccountSeq(seen) == Cardinality({i \in KnownBy(seen) : deposits[i].payment # NoPayment})

Pay(from, amount) ==
    /\ Len(payments) < MaxPayments
    /\ payments' = Append(payments, [from |-> from, amount |-> amount])
    /\ onramp' = Append(onramp, "none")
    /\ UNCHANGED <<ledger, deposits, inFlight, scanVars, cursor, tip, pc, todo, polled, serversLeft>>

UserDeposit(to, amount) ==
    /\ Len(deposits) < MaxDeposits
    /\ deposits' = Deposited(to, amount, NoPayment)
    /\ UNCHANGED <<ledger, payments, inFlight, scanVars, onrampRows, pc, todo, polled, serversLeft>>

CloseLedger ==
    /\ ledger < MaxLedger
    /\ ledger' = ledger + 1
    /\ UNCHANGED <<deposits, payments, inFlight, scanVars, onrampRows, pc, todo, polled, serversLeft>>

\* A transaction is valid only with the account's next sequence number.
SequenceValid(tx) == tx.seqNo = AccountSeq(ledger + 1)

\* A transaction is included: the contract has the deposit.
Include(tx) ==
    /\ SequenceValid(tx)
    /\ Len(deposits) < MaxDeposits
    /\ deposits' = Deposited(payments[tx.payment].from, payments[tx.payment].amount, tx.payment)
    /\ inFlight' = inFlight \ {tx}
    /\ polled' = IF polled # NoTx /\ polled.tx = tx THEN [polled EXCEPT !.ledger = ledger + 1] ELSE polled
    /\ UNCHANGED <<ledger, payments, scanVars, onrampRows, pc, todo, serversLeft>>

\* It expires, fails in the ledger, or another one of the account came first.
Drop(tx) ==
    /\ inFlight' = inFlight \ {tx}
    /\ UNCHANGED <<ledger, deposits, payments, scanVars, onrampRows, pc, todo, polled, serversLeft>>

-----------------------------------------------------------------------------
(* ingest *)

\* The row of a payment is its status; none is no row.
OnrampStatus == {"seen", "deposited", "skipped", "failed"}

\* The timer, when Stellar is not DOWN and the engine not halted: otherwise the
\* tick neither ingests nor scans.
Tick ==
    /\ pc = "idle"
    /\ pc' = "ingest"
    /\ UNCHANGED <<outside, scanVars, onrampRows, todo, polled, serversLeft>>

\* tipCursor: the last payment Horizon has.
TipCursor == Len(payments)

\* The first tick only remembers where Horizon is: older payments are ignored.
SkipHistorical ==
    /\ pc = "ingest"
    /\ cursor = Unset
    /\ cursor' = TipCursor
    /\ tip' = TipCursor
    /\ pc' = "scan"
    /\ UNCHANGED <<outside, scanVars, onramp, todo, polled, serversLeft>>

\* insertOnramp: a row that exists is left as it is.
Inserted(last) ==
    [p \in DOMAIN onramp |-> IF p \in (cursor + 1)..last /\ onramp[p] = "none" THEN "seen" ELSE onramp[p]]

PageEnd == Min({Len(payments), cursor + HorizonPage})

\* Mutant: the rows handled before are taken again.
EveryRow(rows) == {p \in DOMAIN rows : rows[p] # "none"}

\* pendingOnramps: what was never tried, and what failed.
Pending(rows) == {p \in DOMAIN rows : rows[p] \in {"seen", "failed"}}

FirstPending(rows) == {p \in Pending(rows) : Cardinality({q \in Pending(rows) : q < p}) < PerTick}

\* A page of payments becomes rows, the cursor moves behind it, and the
\* first pending rows are taken up.
IngestPage ==
    /\ pc = "ingest"
    /\ cursor # Unset
    /\ onramp' = Inserted(PageEnd)
    /\ cursor' = PageEnd
    /\ todo' = FirstPending(onramp')
    /\ pc' = "relay"
    /\ UNCHANGED <<outside, scanVars, tip, polled, serversLeft>>

\* Mutant: the cursor is saved before the rows.
DieCursorFirst(last) ==
    /\ pc = "ingest"
    /\ cursor # Unset
    /\ last \in (cursor + 1)..PageEnd
    /\ onramp' = Inserted(last)
    /\ cursor' = PageEnd
    /\ pc' = "down"
    /\ UNCHANGED <<outside, scanVars, tip, todo, polled, serversLeft>>

\* The process dies when some of the rows are written and the cursor is not.
DieIngesting(last) ==
    /\ pc = "ingest"
    /\ cursor # Unset
    /\ last \in (cursor + 1)..PageEnd
    /\ onramp' = Inserted(last)
    /\ pc' = "down"
    /\ UNCHANGED <<outside, scanVars, cursor, tip, todo, polled, serversLeft>>

HorizonFails ==
    /\ pc = "ingest"
    /\ pc' = "scan"
    /\ UNCHANGED <<outside, scanVars, onrampRows, todo, polled, serversLeft>>

-----------------------------------------------------------------------------
(* The rows of the tick, one after the other *)

Current == Min(todo)

Outstanding == MapThenSumSet(LAMBDA a : balance[a], Accounts)

\* canCredit, and the minimum before it.
CanCredit(pay) ==
    /\ pay.amount >= MinAmount
    /\ Allowlist = {} \/ pay.from \in Allowlist
    /\ balance[pay.from] + pay.amount <= AccountCap
    /\ Outstanding + pay.amount <= VaultCap

\* The row of this payment is done with for this tick.
RowDone(status) ==
    /\ onramp' = [onramp EXCEPT ![Current] = status]
    /\ todo' = todo \ {Current}
    /\ pc' = "relay"
    /\ UNCHANGED <<cursor, tip>>

SkipRow ==
    /\ pc = "relay"
    /\ todo # {}
    /\ ~CanCredit(payments[Current])
    /\ RowDone("skipped")
    /\ UNCHANGED <<outside, scanVars, polled, serversLeft>>

RelayDeposit ==
    /\ pc = "relay"
    /\ todo # {}
    /\ CanCredit(payments[Current])
    /\ pc' = "invoke"
    /\ UNCHANGED <<outside, scanVars, onrampRows, todo, polled, serversLeft>>

IngestEnds ==
    /\ pc = "relay"
    /\ todo = {}
    /\ pc' = "scan"
    /\ UNCHANGED <<outside, scanVars, onrampRows, todo, polled, serversLeft>>

\* What invoke sends through an endpoint that has seen ledger `seen`.
Transaction(seen) == [payment |-> Current, seqNo |-> AccountSeq(seen)]

\* sendTransaction is answered PENDING.
Send(seen) ==
    /\ pc = "invoke"
    /\ inFlight' = inFlight \cup {Transaction(seen)}
    /\ polled' = [tx |-> Transaction(seen), ledger |-> NoLedger]
    /\ serversLeft' = Servers
    /\ pc' = "poll"
    /\ UNCHANGED <<ledger, deposits, payments, scanVars, onrampRows, todo>>

\* Mutant: failover tries one endpoint too many.
PastLastServer == serversLeft = 0

LastServer == serversLeft = 1

\* A network error of one endpoint, before the transaction was sent or after
\* (`sent`): the next one is tried, and after the last the row has failed.
EndpointFails(seen, sent) ==
    /\ pc = "invoke"
    /\ inFlight' = IF sent THEN inFlight \cup {Transaction(seen)} ELSE inFlight
    /\ IF LastServer
       THEN RowDone("failed") /\ serversLeft' = Servers
       ELSE serversLeft' = serversLeft - 1 /\ UNCHANGED <<onrampRows, todo, pc>>
    /\ UNCHANGED <<ledger, deposits, payments, scanVars, polled>>

\* The simulation fails, or sendTransaction answers ERROR or TRY_AGAIN_LATER:
\* no other endpoint is tried.
InvokeFails ==
    /\ pc = "invoke"
    /\ RowDone("failed")
    /\ serversLeft' = Servers
    /\ UNCHANGED <<outside, scanVars, polled>>

\* Mutant: sendTransaction is taken for a confirmation.
SentIsConfirmed(sent, seen) == TRUE

Confirmed(sent, seen) == sent.ledger # NoLedger /\ sent.ledger <= seen

\* getTransaction answers SUCCESS.
Confirm(seen) ==
    /\ pc = "poll"
    /\ Confirmed(polled, seen)
    /\ RowDone("deposited")
    /\ polled' = NoTx
    /\ UNCHANGED <<outside, scanVars, serversLeft>>

\* It answers FAILED, or nothing in confirmTimeoutMs.
RelayFails ==
    /\ pc = "poll"
    /\ RowDone("failed")
    /\ polled' = NoTx
    /\ UNCHANGED <<outside, scanVars, serversLeft>>

-----------------------------------------------------------------------------
\* The process dies: what is not in the database is gone.
Crash ==
    /\ pc # "down"
    /\ pc' = "down"
    /\ todo' = {}
    /\ page' = {}
    /\ polled' = NoTx
    /\ scanTo' = 0
    /\ serversLeft' = Servers
    /\ UNCHANGED <<outside, scanLedger, balance, nextDeposit, onrampRows>>

Start ==
    /\ pc = "down"
    /\ pc' = "idle"
    /\ UNCHANGED <<outside, scanVars, onrampRows, todo, polled, serversLeft>>

Init ==
    /\ ScanInit
    /\ payments = <<>>
    /\ inFlight = {}
    /\ cursor = Unset
    /\ onramp = <<>>
    /\ tip = 0
    /\ pc = "down"
    /\ todo = {}
    /\ polled = NoTx
    /\ serversLeft = Servers

OutsideStep ==
    \/ \E from \in Accounts, amount \in Amounts : Pay(from, amount)
    \/ \E to \in Depositors, amount \in Amounts : UserDeposit(to, amount)
    \/ CloseLedger
    \/ \E tx \in inFlight : Include(tx) \/ Drop(tx)

IngestStep ==
    \/ Tick
    \/ SkipHistorical
    \/ IngestPage
    \/ HorizonFails
    \/ SkipRow
    \/ RelayDeposit
    \/ IngestEnds
    \/ \E seen \in 0..ledger : Send(seen) \/ Confirm(seen)
    \/ \E seen \in 0..ledger, sent \in BOOLEAN : EndpointFails(seen, sent)
    \/ InvokeFails
    \/ RelayFails

Next ==
    \/ OutsideStep
    \/ IngestStep
    \/ ScanStep /\ UNCHANGED <<payments, inFlight, onrampRows, todo, polled, serversLeft>>
    \/ \E last \in 1..MaxPayments : DieIngesting(last)
    \/ Crash
    \/ Start

Spec == Init /\ [][Next]_vars

-----------------------------------------------------------------------------
Payment == [from : Accounts, amount : Amounts]

RowTypes ==
    /\ payments \in Seq(Payment)
    /\ cursor \in DOMAIN payments \cup {0, Unset}
    /\ tip \in 0..Len(payments)
    /\ onramp \in Seq(OnrampStatus \cup {"none"})
    /\ Len(onramp) = Len(payments)

RelayTypes ==
    /\ inFlight \subseteq [payment : DOMAIN payments, seqNo : 0..MaxDeposits]
    /\ pc \in {"down", "idle", "ingest", "relay", "invoke", "poll", "scan", "verify"}
    /\ todo \subseteq Pending(onramp)
    /\ pc \in {"invoke", "poll"} => todo # {}
    /\ IF pc = "poll"
       THEN polled \in [tx : [payment : {Current}, seqNo : 0..MaxDeposits],
                        ledger : 1..(ledger + 1) \cup {NoLedger}]
       ELSE polled = NoTx
    /\ serversLeft \in 1..Servers

\* Type invariant; what a phase of the tick needs is there.
TypeOK == ScanTypeOK /\ RowTypes /\ RelayTypes

\* Every payment behind the cursor that came after the onramp was activated
\* has its row, although rows and cursor are separate writes (operator.ts:200).
NoPaymentForgotten ==
    cursor # Unset => \A p \in (tip + 1)..cursor : onramp[p] # "none"

\* A row that says deposited has its deposit in the vault, for the payer and
\* in full: an answer to sendTransaction is no confirmation (rpc-client.ts:8).
DepositedIsInVault ==
    \A p \in DOMAIN onramp : onramp[p] = "deposited" =>
        \E i \in RelaysOf(p) :
            deposits[i].to = payments[p].from /\ deposits[i].amount = payments[p].amount

\* Once a row says deposited, no transaction sent for it before, by another
\* endpoint or in an attempt that timed out, becomes one more deposit.
DepositedIsLast ==
    [][\A p \in DOMAIN onramp : onramp[p] = "deposited" => RelaysOf(p)' = RelaysOf(p)]_vars

\* A payment goes into the vault once (sequencer.test.ts:431).
OneDepositPerPayment == \A p \in DOMAIN payments : Cardinality(RelaysOf(p)) <= 1

\* What an account holds after deposits through the operator is within its
\* cap (docs/12-limited-mainnet.md:16), when no payment went in twice.
CapHolds == OneDepositPerPayment => \A a \in Accounts : balance[a] <= AccountCap
=============================================================================
