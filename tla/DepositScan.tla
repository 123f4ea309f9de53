---------------------------- MODULE DepositScan ----------------------------
(***************************************************************************)
(* scanDeposits and verifyDeposit of settlement/engine.ts, over            *)
(* fetchDeposits, getBridgeState and getDeposit of rpc-client.ts, and      *)
(* ingestDeposit of core/sequencer.ts: how a deposit in the contract       *)
(* becomes a balance.                                                      *)
(*                                                                         *)
(* A transaction enters the ledger being built, ledger + 1, and is seen    *)
(* once that is closed.  Every call may be answered by another endpoint,   *)
(* each of which knows the L1 up to some ledger `seen`; it is late, never  *)
(* wrong.  The process may die between any two credits, and before the     *)
(* cursor is saved.                                                        *)
(*                                                                         *)
(* Abstractions: one token, which is allowed; deposits are numbered from   *)
(* 1; payments and withdrawals on L2 are left out, so that a balance is    *)
(* the sum of its credits; no deposit is reclaimed (see FlashRollup).      *)
(***************************************************************************)
EXTENDS Integers, Sequences, FiniteSets

LOCAL INSTANCE FiniteSetsExt

CONSTANTS
    Accounts,
    Depositors,    \* those that call the contract themselves
    Amounts,
    NoPayment,     \* a deposit that relays no payment
    PageLimit,     \* depositBatchLimit
    FirstScan,     \* ledgers looked back without a cursor (17_280)
    Retention,     \* ledgers of events an endpoint keeps
    MaxDeposits,   \* bound: deposits in the contract
    MaxLedger      \* bound: ledgers closed

ASSUME ScanConfig ==
    /\ Depositors \subseteq Accounts
    /\ Amounts \subseteq Nat \ {0}
    /\ PageLimit \in Nat \ {0}
    /\ {FirstScan, Retention, MaxDeposits, MaxLedger} \subseteq Nat

VARIABLES
    \* the L1
    ledger,        \* the last one closed
    deposits,      \* deposits of the contract
    \* the database and the state replayed from it
    scanLedger,    \* deposit_scan_ledger: the cursor
    balance,
    nextDeposit,   \* nextDepositIndex
    \* the process
    pc,
    page,          \* events not handled yet: deposit numbers, the oldest is next
    scanTo         \* maxLedger, or the ledger of an empty page

scanVars == <<scanLedger, balance, nextDeposit, page, scanTo>>

-----------------------------------------------------------------------------
(* The L1 *)

\* deposit() of the contract in the ledger being built.
Deposited(to, amount, payment) ==
    Append(deposits, [to |-> to, amount |-> amount, payment |-> payment, ledger |-> ledger + 1])

KnownBy(seen) == {i \in DOMAIN deposits : deposits[i].ledger <= seen}

-----------------------------------------------------------------------------
(* scanDeposits *)

\* The first ledger fetchDeposits asks an endpoint for.
StartLedger(seen) ==
    LET start  == IF scanLedger = 0 THEN Max({1, seen - FirstScan}) ELSE scanLedger + 1
        oldest == seen - Retention
    IN  Max({start, oldest})

\* Events of an endpoint, the oldest PageLimit of them.
FetchedFrom(seen) ==
    LET events == {i \in KnownBy(seen) : deposits[i].ledger >= StartLedger(seen)}
    IN  {i \in events : Cardinality({j \in events : j < i}) < PageLimit}

\* fetchDeposits, answered by one endpoint, and getBridgeState by another:
\* events above the count of deposits are refused.
FetchDeposits(seen, counted) ==
    /\ pc = "scan"
    /\ page' = FetchedFrom(seen) \cap KnownBy(counted)
    /\ scanTo' = IF FetchedFrom(seen) = {} THEN seen ELSE scanLedger
    /\ pc' = "verify"
    /\ UNCHANGED <<ledger, deposits, scanLedger, balance, nextDeposit>>

ScanOver == pc' = "idle" /\ page' = {} /\ scanTo' = 0

\* A read fails on every endpoint: the scan is given up and starts again at
\* the old cursor in the next tick.
ScanFails ==
    /\ pc \in {"scan", "verify"}
    /\ ScanOver
    /\ UNCHANGED <<ledger, deposits, scanLedger, balance, nextDeposit>>

\* Events are handled oldest first.
Event == Min(page)

\* getDeposit answers null: the event is refused and the next one follows.
RejectDeposit(seen) ==
    /\ pc = "verify"
    /\ page # {}
    /\ Event \notin KnownBy(seen)
    /\ page' = page \ {Event}
    /\ UNCHANGED <<ledger, deposits, scanLedger, balance, nextDeposit, pc, scanTo>>

\* Mutant: a deposit is credited whenever it is reported.
CreditsAgain(i) == i <= nextDeposit

\* ingestDeposit returns early for what has been credited before, ...
IsNext(i) == i = nextDeposit

\* ... credits the next one, ...
CreditDeposit(seen) ==
    /\ pc = "verify"
    /\ page # {}
    /\ Event \in KnownBy(seen)
    /\ Event <= nextDeposit
    /\ LET d == deposits[Event] IN
       /\ IF IsNext(Event)
          THEN /\ balance' = [balance EXCEPT ![d.to] = @ + d.amount]
               /\ nextDeposit' = Event + 1
          ELSE UNCHANGED <<balance, nextDeposit>>
       /\ scanTo' = Max({scanTo, d.ledger})
    /\ page' = page \ {Event}
    /\ UNCHANGED <<ledger, deposits, scanLedger, pc>>

\* ... and throws when one is missing before it: the scan is given up.
CreditThrows(seen) ==
    /\ pc = "verify"
    /\ page # {}
    /\ Event \in KnownBy(seen)
    /\ Event > nextDeposit
    /\ ScanOver
    /\ UNCHANGED <<ledger, deposits, scanLedger, balance, nextDeposit>>

\* getMeta and setMeta of deposit_scan_ledger: a cursor never goes back.
StoreCursor(cursor) == scanLedger' = Max({scanLedger, cursor})

\* The page is done: the cursor moves to the last ledger credited, or, when
\* there was no event, to the ledger the endpoint had reached.
SaveCursor ==
    /\ pc = "verify"
    /\ page = {}
    /\ StoreCursor(scanTo)
    /\ ScanOver
    /\ UNCHANGED <<ledger, deposits, balance, nextDeposit>>

ScanStep ==
    \/ \E seen, counted \in 0..ledger : FetchDeposits(seen, counted)
    \/ ScanFails
    \/ \E seen \in 0..ledger : RejectDeposit(seen) \/ CreditDeposit(seen) \/ CreditThrows(seen)
    \/ SaveCursor

-----------------------------------------------------------------------------
ScanInit ==
    /\ ledger = 0
    /\ deposits = <<>>
    /\ scanLedger = 0
    /\ balance = [a \in Accounts |-> 0]
    /\ nextDeposit = 1
    /\ page = {}
    /\ scanTo = 0

DepositInfo == [to : Accounts, amount : Amounts, payment : Nat \cup {NoPayment}, ledger : Nat]

ScanTypeOK ==
    /\ ledger \in 0..MaxLedger
    /\ deposits \in Seq(DepositInfo)
    /\ Len(deposits) <= MaxDeposits
    /\ \A i \in DOMAIN deposits : deposits[i].ledger \in 1..(ledger + 1)
    /\ scanLedger \in 0..ledger
    /\ balance \in [Accounts -> Nat]
    /\ nextDeposit \in 1..(Len(deposits) + 1)
    /\ page \subseteq DOMAIN deposits
    /\ scanTo \in 0..ledger

\* The balances are the first deposits of the contract up to the next index,
\* each credited once, to its recipient, whatever was reported twice, late,
\* cut by the page or interrupted (ingestDeposit, core/sequencer.ts:202).
CreditsFollowContract ==
    \A a \in Accounts :
        LET credited[n \in 0..Len(deposits)] ==
                IF n = 0 THEN 0
                ELSE credited[n - 1] + (IF deposits[n].to = a THEN deposits[n].amount ELSE 0)
        IN  balance[a] = credited[nextDeposit - 1]
=============================================================================
