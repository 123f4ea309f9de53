--------------------------- MODULE OperatorProofs ---------------------------
(***************************************************************************)
(* Theorems about BridgeOperator: for any number of payments, deposits,    *)
(* endpoints and ledgers, what the onramp table says of a payment is so,   *)
(* and the balances are the deposits of the contract.                      *)
(*                                                                         *)
(* The argument for DepositedIsLast: a transaction carries a sequence      *)
(* number that is at most the number of deposits the account has made.     *)
(* When one is included that number grows, and all others in flight are    *)
(* stale from then on; a new one is only sent for a row that is pending.   *)
(***************************************************************************)
EXTENDS BridgeOperator, TreesAndSums

LOCAL INSTANCE FiniteSetsExt

\* The deposits of the operator, and the next sequence number of its account.
Relays == {i \in DOMAIN deposits : deposits[i].payment # NoPayment}

Count == Cardinality(Relays)

\* A transaction that can never be included.
Stale(tx) == tx.seqNo < Count

\* A deposit of the operator is for a payment, and as large.
RelaysMatch ==
    \A i \in Relays :
        LET p == deposits[i].payment
        IN  /\ p \in DOMAIN payments
            /\ deposits[i].to = payments[p].from
            /\ deposits[i].amount = payments[p].amount

\* A row that says deposited has a deposit, and no transaction that may still
\* be included.
DepositedIsDone ==
    \A p \in DOMAIN onramp : onramp[p] = "deposited" =>
        /\ RelaysOf(p) # {}
        /\ \A tx \in inFlight : tx.payment = p => Stale(tx)

\* So has the row at hand, once its transaction is included.
IncludedIsDone ==
    pc = "poll" /\ polled.ledger # NoLedger =>
        /\ RelaysOf(Current) # {}
        /\ \A tx \in inFlight : Stale(tx)

ScanInv == ScanTypeOK /\ CreditsFollowContract

RowInv == RowTypes /\ NoPaymentForgotten

RelayInv ==
    /\ RelayTypes
    /\ RelaysMatch
    /\ \A tx \in inFlight : tx.seqNo <= Count
    /\ DepositedIsDone
    /\ IncludedIsDone
    /\ pc \notin {"relay", "invoke", "poll"} => todo = {}

Inv == ScanInv /\ RowInv /\ RelayInv

-----------------------------------------------------------------------------
(* Balances as sums *)

\* What the first n deposits credit to a, for each n.
Credited(ds, a) ==
    LET credited[n \in 0..Len(ds)] ==
            IF n = 0 THEN 0
            ELSE credited[n - 1] + (IF ds[n].to = a THEN ds[n].amount ELSE 0)
    IN  credited

\* The recursive definition of Credited has a solution.
LEMMA CreditedIsSum ==
    ASSUME NEW ds \in Seq(DepositInfo), NEW a
    PROVE  /\ Credited(ds, a) \in [0..Len(ds) -> Nat]
           /\ Credited(ds, a)[0] = 0
           /\ \A n \in 1..Len(ds) :
                 Credited(ds, a)[n] = Credited(ds, a)[n - 1] + (IF ds[n].to = a THEN ds[n].amount ELSE 0)
<1> DEFINE part(n) == IF ds[n].to = a THEN ds[n].amount ELSE 0
           step == [x \in Nat \X (1..Len(ds)) |-> x[1] + part(x[2])]
<1>1. Len(ds) \in Nat /\ 0 \in Nat
  OBVIOUS
<1>2. ASSUME NEW n \in 1..Len(ds) PROVE part(n) \in Nat
  <2>1. ds[n] \in DepositInfo
    OBVIOUS
  <2> QED BY <2>1, ScanConfig DEF DepositInfo
<1>3. step \in [Nat \X (1..Len(ds)) -> Nat]
  <2> HIDE DEF part
  <2>1. ASSUME NEW x \in Nat \X (1..Len(ds)) PROVE x[1] + part(x[2]) \in Nat
    BY <1>2
  <2> QED BY <2>1
<1>4. \E f \in [0..Len(ds) -> Nat] : Recursion(f, 0, Len(ds), step)
  <2> HIDE DEF step
  <2> QED BY <1>1, <1>3, RecursionExists
<1> USE DEF step
<1>5. \E f : f = [k \in 0..Len(ds) |-> IF k = 0 THEN 0 ELSE f[k - 1] + part(k)]
  <2> PICK f \in [0..Len(ds) -> Nat] :
         f[0] = 0 /\ \A k \in 1..Len(ds) : f[k] = step[<<f[k - 1], k>>]
    BY <1>4 DEF Recursion
  <2>1. ASSUME NEW k \in 0..Len(ds), k # 0 PROVE f[k] = f[k - 1] + part(k)
    <3>1. k \in 1..Len(ds) /\ k - 1 \in 0..Len(ds)
      BY <1>1, <2>1
    <3>2. <<f[k - 1], k>> \in Nat \X (1..Len(ds))
      BY <3>1
    <3> HIDE DEF part
    <3> QED BY <3>1, <3>2
  <2> HIDE DEF step, part
  <2>2. f = [k \in 0..Len(ds) |-> IF k = 0 THEN 0 ELSE f[k - 1] + part(k)]
    BY <2>1
  <2> QED BY <2>2
<1>6. Credited(ds, a) = [k \in 0..Len(ds) |-> IF k = 0 THEN 0 ELSE Credited(ds, a)[k - 1] + part(k)]
  BY <1>5 DEF Credited
<1> HIDE DEF part
<1>7. Credited(ds, a)[0] = 0
  BY <1>1, <1>6
<1>8. \A n \in 1..Len(ds) : Credited(ds, a)[n] = Credited(ds, a)[n - 1] + part(n)
  BY <1>1, <1>6
<1>9. \A n \in 0..Len(ds) : Credited(ds, a)[n] \in Nat
  <2> DEFINE T == {n \in 0..Len(ds) : Credited(ds, a)[n] \in Nat}
  <2>1. 0 \in T
    BY <1>1, <1>7
  <2>2. ASSUME NEW k \in 0..(Len(ds) - 1), k \in T PROVE k + 1 \in T
    <3>1. k + 1 \in 1..Len(ds) /\ (k + 1) - 1 = k
      BY <1>1
    <3>2. Credited(ds, a)[k + 1] = Credited(ds, a)[k] + part(k + 1)
      BY <1>8, <3>1
    <3> QED BY <1>2, <2>2, <3>1, <3>2
  <2> HIDE DEF T
  <2>3. \A n \in 0..Len(ds) : n \in T
    BY <1>1, <2>1, <2>2, UpTo
  <2> QED BY <2>3 DEF T
<1>10. Credited(ds, a) \in [0..Len(ds) -> Nat]
  BY <1>6, <1>9
<1> QED BY <1>7, <1>8, <1>10 DEF part

\* One more deposit leaves the sums of those before it as they are.
LEMMA CreditedOfLonger ==
    ASSUME NEW ds \in Seq(DepositInfo), NEW d \in DepositInfo, NEW a
    PROVE  \A n \in 0..Len(ds) : Credited(Append(ds, d), a)[n] = Credited(ds, a)[n]
<1> DEFINE longer == Append(ds, d)
<1>1. /\ longer \in Seq(DepositInfo)
      /\ Len(ds) \in Nat /\ Len(longer) = Len(ds) + 1
      /\ \A n \in 1..Len(ds) : longer[n] = ds[n]
  OBVIOUS
<1>2. /\ Credited(longer, a)[0] = 0
      /\ \A n \in 1..Len(longer) : Credited(longer, a)[n] =
            Credited(longer, a)[n - 1] + (IF longer[n].to = a THEN longer[n].amount ELSE 0)
  <2> HIDE DEF longer
  <2> QED BY <1>1, CreditedIsSum
<1>3. /\ Credited(ds, a)[0] = 0
      /\ \A n \in 1..Len(ds) : Credited(ds, a)[n] =
            Credited(ds, a)[n - 1] + (IF ds[n].to = a THEN ds[n].amount ELSE 0)
  BY CreditedIsSum
<1> HIDE DEF longer
<1> DEFINE T == {n \in 0..Len(ds) : Credited(longer, a)[n] = Credited(ds, a)[n]}
<1>4. 0 \in T
  BY <1>1, <1>2, <1>3
<1>5. ASSUME NEW k \in 0..(Len(ds) - 1), k \in T PROVE k + 1 \in T
  <2>1. k + 1 \in 1..Len(ds) /\ (k + 1) - 1 = k /\ k + 1 \in 1..Len(longer)
    BY <1>1
  <2>2. Credited(longer, a)[k + 1] =
            Credited(longer, a)[k] + (IF ds[k + 1].to = a THEN ds[k + 1].amount ELSE 0)
    BY <1>1, <1>2, <2>1
  <2>3. Credited(ds, a)[k + 1] =
            Credited(ds, a)[k] + (IF ds[k + 1].to = a THEN ds[k + 1].amount ELSE 0)
    BY <1>3, <2>1
  <2> QED BY <1>5, <2>1, <2>2, <2>3
<1> HIDE DEF T
<1>6. \A n \in 0..Len(ds) : n \in T
  BY <1>1, <1>4, <1>5, UpTo
<1> QED BY <1>6 DEF T, longer

-----------------------------------------------------------------------------
(* The scan *)

\* Max and Min of what the scan asks them for.
LEMMA MaxOfTwo ==
    ASSUME NEW a \in Int, NEW b \in Int
    PROVE  Max({a, b}) \in {a, b} /\ Max({a, b}) >= a /\ Max({a, b}) >= b
<1>1. \E x \in {a, b} : \A y \in {a, b} : x >= y
  <2>1. CASE a >= b BY <2>1
  <2>2. CASE b >= a BY <2>2
  <2> QED BY <2>1, <2>2
<1> QED BY <1>1 DEF Max

LEMMA LeastIsMin ==
    ASSUME NEW S, S \subseteq Nat, S # {}
    PROVE  Min(S) \in S /\ \A x \in S : Min(S) <= x
<1>1. \E x \in S : \A y \in S : x <= y
  BY Least
<1> QED BY <1>1 DEF Min

LEMMA ScanStepKeeps ==
    ASSUME ScanInv, ScanStep
    PROVE  ScanInv'
<1> USE DEF ScanInv, ScanTypeOK
<1>0. /\ ledger \in Nat /\ scanLedger \in Nat /\ scanTo \in Nat
      /\ Len(deposits) \in Nat /\ DOMAIN deposits = 1..Len(deposits)
  BY ScanConfig
<1>1. ASSUME NEW seen \in 0..ledger, NEW counted \in 0..ledger, FetchDeposits(seen, counted)
      PROVE  ScanInv'
  <2>1. page' \subseteq DOMAIN deposits
    BY <1>1 DEF FetchDeposits, KnownBy
  <2>2. scanTo' \in 0..ledger
    BY <1>1 DEF FetchDeposits
  <2> QED BY <1>1, <2>1, <2>2 DEF FetchDeposits, CreditsFollowContract
<1>2. CASE ScanFails
  BY <1>0, <1>2 DEF ScanFails, ScanOver, CreditsFollowContract
<1>3. ASSUME NEW seen \in 0..ledger, RejectDeposit(seen) PROVE ScanInv'
  BY <1>3 DEF RejectDeposit, CreditsFollowContract
<1>4. ASSUME NEW seen \in 0..ledger, CreditDeposit(seen) PROVE ScanInv'
  <2>1. Event \in page
    BY <1>0, <1>4, LeastIsMin DEF CreditDeposit, Event
  <2>2. Event \in 1..Len(deposits) /\ deposits[Event] \in DepositInfo
    BY <1>0, <2>1
  <2>3. deposits[Event].ledger \in 0..ledger
    BY <1>4, <2>2 DEF CreditDeposit, KnownBy, DepositInfo
  <2>4. scanTo' \in 0..ledger
    <3>1. scanTo' = Max({scanTo, deposits[Event].ledger})
      BY <1>4 DEF CreditDeposit
    <3>2. scanTo \in Int /\ deposits[Event].ledger \in Int
      BY <1>0, <2>3
    <3>3. Max({scanTo, deposits[Event].ledger}) \in {scanTo, deposits[Event].ledger}
      BY <3>2, MaxOfTwo, Zenon
    <3> QED BY <2>3, <3>1, <3>3
  <2>5. page' \subseteq DOMAIN deposits
    BY <1>4 DEF CreditDeposit
  <2>6. CASE IsNext(Event)
    <3>1. deposits[Event].to \in Accounts /\ deposits[Event].amount \in Nat
      BY <2>2, ScanConfig DEF DepositInfo
    <3>2. /\ balance' = [balance EXCEPT ![deposits[Event].to] = @ + deposits[Event].amount]
          /\ nextDeposit' = Event + 1
      BY <1>4, <2>6 DEF CreditDeposit
    <3>3. balance' \in [Accounts -> Nat]
      BY <3>1, <3>2
    <3>4. nextDeposit' \in 1..(Len(deposits) + 1)
      BY <2>2, <3>2
    <3>5. ASSUME NEW a \in Accounts PROVE balance'[a] = Credited(deposits, a)[nextDeposit' - 1]
      <4>1. nextDeposit = Event /\ nextDeposit' - 1 = Event
        BY <2>2, <2>6, <3>2 DEF IsNext
      <4>2. balance[a] = Credited(deposits, a)[Event - 1] /\ balance[a] \in Nat
        BY <4>1 DEF CreditsFollowContract, Credited
      <4>3. Credited(deposits, a)[Event] = Credited(deposits, a)[Event - 1]
              + (IF deposits[Event].to = a THEN deposits[Event].amount ELSE 0)
        BY <2>2, CreditedIsSum
      <4>4. balance'[a] = balance[a] + (IF deposits[Event].to = a THEN deposits[Event].amount ELSE 0)
        BY <3>1, <3>2, <4>2
      <4> QED BY <4>1, <4>2, <4>3, <4>4
    <3>6. UNCHANGED <<ledger, deposits, scanLedger>>
      BY <1>4 DEF CreditDeposit
    <3>7. CreditsFollowContract'
      BY <3>5, <3>6 DEF CreditsFollowContract, Credited
    <3> QED BY <2>4, <2>5, <3>3, <3>4, <3>6, <3>7
  <2>7. CASE ~IsNext(Event)
    BY <1>4, <2>4, <2>5, <2>7 DEF CreditDeposit, CreditsFollowContract
  <2> QED BY <2>6, <2>7
<1>5. ASSUME NEW seen \in 0..ledger, CreditThrows(seen) PROVE ScanInv'
  BY <1>0, <1>5 DEF CreditThrows, ScanOver, CreditsFollowContract
<1>6. CASE SaveCursor
  <2>1. scanLedger' \in 0..ledger
    <3>1. scanLedger' = Max({scanLedger, scanTo})
      BY <1>6 DEF SaveCursor, StoreCursor
    <3>2. scanLedger \in Int /\ scanTo \in Int
      BY <1>0
    <3>3. Max({scanLedger, scanTo}) \in {scanLedger, scanTo}
      BY <3>2, MaxOfTwo, Zenon
    <3> QED BY <3>1, <3>3
  <2> QED BY <1>0, <1>6, <2>1 DEF SaveCursor, ScanOver, CreditsFollowContract
<1> QED BY <1>1, <1>2, <1>3, <1>4, <1>5, <1>6 DEF ScanStep

\* Steps that change no variable of the scan but lose what it has in memory.
LEMMA ScanKept ==
    ASSUME ScanInv, UNCHANGED <<ledger, deposits, scanLedger, balance, nextDeposit>>,
           \/ UNCHANGED <<page, scanTo>>
           \/ page' = {} /\ scanTo' = 0
    PROVE  ScanInv'
<1>1. CreditsFollowContract'
  BY DEF ScanInv, CreditsFollowContract
<1>2. ScanTypeOK'
  BY DEF ScanInv, ScanTypeOK
<1> QED BY <1>1, <1>2 DEF ScanInv

\* A deposit comes in.
LEMMA ScanInvLonger ==
    ASSUME ScanInv, NEW d \in DepositInfo, d.ledger = ledger + 1, Len(deposits) < MaxDeposits,
           deposits' = Append(deposits, d), UNCHANGED <<ledger, scanVars>>
    PROVE  ScanInv'
<1> USE DEF scanVars
<1>0. /\ ledger \in Nat /\ deposits \in Seq(DepositInfo) /\ Len(deposits) \in Nat
      /\ MaxDeposits \in Nat
  BY ScanConfig DEF ScanInv, ScanTypeOK
<1>1. /\ deposits' \in Seq(DepositInfo) /\ Len(deposits') = Len(deposits) + 1
      /\ \A i \in 1..Len(deposits) : deposits'[i] = deposits[i]
      /\ deposits'[Len(deposits) + 1] = d
      /\ DOMAIN deposits = 1..Len(deposits) /\ DOMAIN deposits' = 1..(Len(deposits) + 1)
  BY <1>0
<1>2. ScanTypeOK'
  <2>1. \A i \in DOMAIN deposits' : deposits'[i].ledger \in 1..(ledger + 1)
    <3> TAKE i \in DOMAIN deposits'
    <3>1. CASE i \in 1..Len(deposits)
      BY <1>1, <3>1 DEF ScanInv, ScanTypeOK
    <3>2. CASE i = Len(deposits) + 1
      BY <1>0, <1>1, <3>2
    <3> QED BY <1>0, <1>1, <3>1, <3>2
  <2>2. nextDeposit' \in 1..(Len(deposits') + 1)
    BY <1>0, <1>1 DEF ScanInv, ScanTypeOK
  <2>3. page' \subseteq DOMAIN deposits' /\ Len(deposits') <= MaxDeposits
    BY <1>0, <1>1 DEF ScanInv, ScanTypeOK
  <2> QED BY <1>1, <2>1, <2>2, <2>3 DEF ScanInv, ScanTypeOK
<1>3. CreditsFollowContract'
  <2> SUFFICES ASSUME NEW a \in Accounts
               PROVE  balance[a] = Credited(deposits', a)[nextDeposit - 1]
    BY DEF CreditsFollowContract, Credited
  <2>1. nextDeposit - 1 \in 0..Len(deposits)
    BY <1>0 DEF ScanInv, ScanTypeOK
  <2>2. balance[a] = Credited(deposits, a)[nextDeposit - 1]
    BY DEF ScanInv, CreditsFollowContract, Credited
  <2> QED BY <1>0, <2>1, <2>2, CreditedOfLonger
<1> QED BY <1>2, <1>3 DEF ScanInv

-----------------------------------------------------------------------------
(* The deposits of the operator *)

\* What follows from the types of the constants and the variables.
LEMMA Basics ==
    ASSUME Inv
    PROVE  /\ ledger \in Nat /\ Len(deposits) \in Nat /\ MaxDeposits \in Nat
           /\ DOMAIN deposits = 1..Len(deposits)
           /\ \A i \in DOMAIN deposits : deposits[i] \in DepositInfo
           /\ DOMAIN onramp = DOMAIN payments
           /\ DOMAIN payments = 1..Len(payments) /\ Len(payments) \in Nat
           /\ \A p \in DOMAIN payments : payments[p] \in Payment
           /\ NoPayment \notin Nat /\ NoLedger \notin Nat /\ Unset \notin Nat
           /\ Servers \in Nat /\ Servers >= 1
<1>1. ledger \in Nat /\ MaxDeposits \in Nat /\ Servers \in Nat /\ Servers >= 1
  BY ScanConfig, OperatorConfig, SMTT(30) DEF Inv, ScanInv, ScanTypeOK
<1>2. deposits \in Seq(DepositInfo) /\ payments \in Seq(Payment)
      /\ onramp \in Seq(OnrampStatus \cup {"none"}) /\ Len(onramp) = Len(payments)
  BY DEF Inv, ScanInv, ScanTypeOK, RowInv, RowTypes
<1>3. NoPayment \notin Nat /\ NoLedger \notin Nat /\ Unset \notin Nat
  BY OperatorConfig
<1> QED BY <1>1, <1>2, <1>3

LEMMA CurrentIsPending ==
    ASSUME Inv, todo # {}
    PROVE  /\ Current \in todo
           /\ Current \in DOMAIN payments /\ onramp[Current] \in {"seen", "failed"}
<1>1. todo \subseteq Pending(onramp)
  BY DEF Inv, RelayInv, RelayTypes
<1>2. todo \subseteq Nat
  BY <1>1, Basics DEF Pending
<1>3. Current \in todo
  BY <1>2, LeastIsMin DEF Current
<1> QED BY <1>1, <1>3, Basics DEF Pending

\* An endpoint knows no more of the operator's deposits than there are, and
\* the ledger being built knows all of them.
LEMMA CountFacts ==
    ASSUME Inv
    PROVE  /\ IsFiniteSet(Relays)
           /\ Count \in 0..MaxDeposits
           /\ AccountSeq(ledger + 1) = Count
           /\ \A seen \in 0..ledger : AccountSeq(seen) \in 0..Count
<1>1. Relays \subseteq 1..Len(deposits)
  BY Basics DEF Relays
<1>2. /\ IsFiniteSet(1..Len(deposits)) /\ Cardinality(1..Len(deposits)) = Len(deposits)
  <2>1. Len(deposits) \in Int /\ 1 \in Int /\ Len(deposits) >= 0
    BY Basics
  <2>2. /\ IsFiniteSet(1..Len(deposits))
        /\ Cardinality(1..Len(deposits)) = IF 1 > Len(deposits) THEN 0 ELSE Len(deposits) - 1 + 1
    BY <2>1, FS_Interval, Zenon
  <2> QED BY <2>1, <2>2
<1>3. IsFiniteSet(Relays) /\ Count <= Len(deposits)
  BY <1>1, <1>2, FS_Subset DEF Count
<1>4. Count \in Nat
  BY <1>3, FS_CardinalityType DEF Count
<1>5. Len(deposits) <= MaxDeposits /\ \A i \in DOMAIN deposits : deposits[i].ledger \in 1..(ledger + 1)
  BY DEF Inv, ScanInv, ScanTypeOK
<1>6. AccountSeq(ledger + 1) = Count
  <2>1. KnownBy(ledger + 1) = DOMAIN deposits
    <3>1. \A i \in DOMAIN deposits : deposits[i].ledger <= ledger + 1
      BY <1>5, Basics
    <3> QED BY <3>1 DEF KnownBy
  <2> QED BY <2>1 DEF AccountSeq, Count, Relays
<1>7. ASSUME NEW seen \in 0..ledger PROVE AccountSeq(seen) \in 0..Count
  <2> DEFINE known == {i \in KnownBy(seen) : deposits[i].payment # NoPayment}
  <2>1. known \subseteq Relays
    BY DEF KnownBy, Relays
  <2>2. IsFiniteSet(known) /\ Cardinality(known) <= Cardinality(Relays)
    BY <1>3, <2>1, FS_Subset
  <2>3. Cardinality(known) \in Nat
    BY <2>2, FS_CardinalityType
  <2> QED BY <1>4, <2>2, <2>3 DEF AccountSeq, Count
<1> QED BY <1>3, <1>4, <1>5, <1>6, <1>7, Basics

\* What invoke sends for the row at hand.
LEMMA TransactionFacts ==
    ASSUME Inv, todo # {}, NEW seen \in 0..ledger
    PROVE  /\ Transaction(seen) \in [payment : {Current}, seqNo : 0..MaxDeposits]
           /\ Transaction(seen) \in [payment : DOMAIN payments, seqNo : 0..MaxDeposits]
           /\ Transaction(seen).payment = Current
           /\ Transaction(seen).seqNo <= Count
<1>1. AccountSeq(seen) \in 0..Count /\ Count \in 0..MaxDeposits /\ MaxDeposits \in Nat
  BY CountFacts, Basics
<1>2. AccountSeq(seen) \in 0..MaxDeposits /\ AccountSeq(seen) <= Count
  BY <1>1
<1>3. Current \in DOMAIN payments
  BY CurrentIsPending
<1> QED BY <1>2, <1>3 DEF Transaction

-----------------------------------------------------------------------------
(* The L1 and the payers *)

LEMMA PayKeeps ==
    ASSUME Inv, NEW from \in Accounts, NEW amount \in Amounts, Pay(from, amount)
    PROVE  Inv'
<1> DEFINE pay == [from |-> from, amount |-> amount]
<1>1. /\ payments' = Append(payments, pay) /\ onramp' = Append(onramp, "none")
      /\ UNCHANGED <<ledger, deposits, inFlight, scanVars, cursor, tip, pc, todo, polled, serversLeft>>
  BY DEF Pay
<1>2. pay \in Payment
  BY DEF Payment
<1> HIDE DEF pay
<1>3. /\ payments \in Seq(Payment) /\ onramp \in Seq(OnrampStatus \cup {"none"})
      /\ Len(onramp) = Len(payments) /\ Len(payments) \in Nat
  BY Basics DEF Inv, RowInv, RowTypes
<1>4. /\ payments' \in Seq(Payment) /\ Len(payments') = Len(payments) + 1
      /\ onramp' \in Seq(OnrampStatus \cup {"none"}) /\ Len(onramp') = Len(payments')
      /\ DOMAIN payments' = 1..(Len(payments) + 1) /\ DOMAIN onramp' = DOMAIN payments'
      /\ \A p \in 1..Len(payments) : payments'[p] = payments[p] /\ onramp'[p] = onramp[p]
      /\ onramp'[Len(payments) + 1] = "none"
  BY <1>1, <1>2, <1>3
<1>5. DOMAIN payments \subseteq DOMAIN payments' /\ DOMAIN payments = 1..Len(payments)
  BY <1>3, <1>4, Basics
<1>6. ScanInv'
  BY <1>1, ScanKept DEF Inv, scanVars
<1>7. RowInv'
  <2>1. RowTypes'
    BY <1>1, <1>3, <1>4, <1>5 DEF Inv, RowInv, RowTypes
  <2>2. NoPaymentForgotten'
    <3> SUFFICES ASSUME cursor # Unset, NEW p \in (tip + 1)..cursor PROVE onramp'[p] # "none"
      BY <1>1 DEF NoPaymentForgotten
    <3>1. cursor \in 0..Len(payments) /\ tip \in Nat
      BY <1>3, Basics DEF Inv, RowInv, RowTypes
    <3>2. p \in 1..Len(payments) /\ onramp[p] # "none"
      BY <3>1, <1>3 DEF Inv, RowInv, NoPaymentForgotten
    <3> QED BY <1>4, <3>2
  <2> QED BY <2>1, <2>2 DEF RowInv
<1>8. RelayInv'
  <2>1. Count' = Count /\ Relays' = Relays /\ \A p : RelaysOf(p)' = RelaysOf(p)
    BY <1>1 DEF Count, Relays, RelaysOf
  <2>2. Pending(onramp) \subseteq Pending(onramp')
    BY <1>4, <1>5, Basics DEF Pending
  <2>3. RelayTypes'
    BY <1>1, <1>5, <2>2 DEF Inv, RelayInv, RelayTypes, Current
  <2>4. RelaysMatch'
    BY <1>1, <1>4, <1>5, <2>1 DEF Inv, RelayInv, RelaysMatch, Relays
  <2>5. DepositedIsDone'
    <3> SUFFICES ASSUME NEW p \in DOMAIN onramp', onramp'[p] = "deposited"
                 PROVE  RelaysOf(p) # {} /\ \A tx \in inFlight : tx.payment = p => Stale(tx)
      BY <1>1, <2>1 DEF DepositedIsDone, Stale
    <3>1. p \in DOMAIN onramp /\ onramp[p] = "deposited"
      BY <1>3, <1>4, Basics
    <3> QED BY <3>1 DEF Inv, RelayInv, DepositedIsDone
  <2>6. IncludedIsDone'
    BY <1>1, <2>1 DEF Inv, RelayInv, IncludedIsDone, Current, Stale
  <2> QED BY <1>1, <2>1, <2>3, <2>4, <2>5, <2>6 DEF Inv, RelayInv
<1> QED BY <1>6, <1>7, <1>8 DEF Inv

\* The sets of the operator's deposits after one more deposit.
LEMMA RelaysLonger ==
    ASSUME Inv, NEW d \in DepositInfo, deposits' = Append(deposits, d)
    PROVE  /\ \A p : RelaysOf(p)' = RelaysOf(p) \cup (IF d.payment = p THEN {Len(deposits) + 1} ELSE {})
           /\ Relays' = Relays \cup (IF d.payment # NoPayment THEN {Len(deposits) + 1} ELSE {})
           /\ Count' = Count + (IF d.payment # NoPayment THEN 1 ELSE 0)
           /\ \A i \in DOMAIN deposits : deposits'[i] = deposits[i]
           /\ deposits'[Len(deposits) + 1] = d
<1>0. deposits \in Seq(DepositInfo)
  BY DEF Inv, ScanInv, ScanTypeOK
<1>1. /\ Len(deposits') = Len(deposits) + 1 /\ Len(deposits) \in Nat
      /\ \A i \in 1..Len(deposits) : deposits'[i] = deposits[i]
      /\ deposits'[Len(deposits) + 1] = d
      /\ DOMAIN deposits = 1..Len(deposits) /\ DOMAIN deposits' = 1..(Len(deposits) + 1)
  BY <1>0
<1>2. DOMAIN deposits' = DOMAIN deposits \cup {Len(deposits) + 1} /\ Len(deposits) + 1 \notin DOMAIN deposits
  BY <1>1
<1>3. ASSUME NEW p
      PROVE  RelaysOf(p)' = RelaysOf(p) \cup (IF d.payment = p THEN {Len(deposits) + 1} ELSE {})
  BY <1>1, <1>2 DEF RelaysOf
<1>4. Relays' = Relays \cup (IF d.payment # NoPayment THEN {Len(deposits) + 1} ELSE {})
  BY <1>1, <1>2 DEF Relays
<1>5. Len(deposits) + 1 \notin Relays
  BY <1>2 DEF Relays
<1>6. Count' = Count + (IF d.payment # NoPayment THEN 1 ELSE 0)
  <2>1. IsFiniteSet(Relays) /\ Count \in Nat
    BY CountFacts
  <2>2. CASE d.payment # NoPayment
    <3>1. Relays' = Relays \cup {Len(deposits) + 1}
      BY <1>4, <2>2
    <3>2. Cardinality(Relays \cup {Len(deposits) + 1}) = Cardinality(Relays) + 1
      BY <1>5, <2>1, FS_AddElement
    <3> QED BY <2>2, <3>1, <3>2 DEF Count
  <2>3. CASE d.payment = NoPayment
    <3>1. Relays' = Relays
      BY <1>4, <2>3
    <3> QED BY <2>1, <2>3, <3>1 DEF Count
  <2> QED BY <2>2, <2>3
<1> QED BY <1>1, <1>3, <1>4, <1>6

LEMMA UserDepositKeeps ==
    ASSUME Inv, NEW to \in Depositors, NEW amount \in Amounts, UserDeposit(to, amount)
    PROVE  /\ Inv'
           /\ \A p \in DOMAIN onramp : RelaysOf(p)' = RelaysOf(p)
<1> DEFINE d == [to |-> to, amount |-> amount, payment |-> NoPayment, ledger |-> ledger + 1]
<1>1. d \in DepositInfo /\ d.ledger = ledger + 1 /\ d.payment = NoPayment
  BY Basics, ScanConfig DEF DepositInfo
<1>2. /\ deposits' = Append(deposits, d) /\ Len(deposits) < MaxDeposits
      /\ UNCHANGED <<ledger, payments, inFlight, scanVars, onrampRows, pc, todo, polled, serversLeft>>
  BY DEF UserDeposit, Deposited
<1> HIDE DEF d
<1>3. /\ Relays' = Relays /\ Count' = Count
      /\ \A p \in DOMAIN payments : RelaysOf(p)' = RelaysOf(p)
      /\ \A i \in DOMAIN deposits : deposits'[i] = deposits[i]
  <2>1. /\ Relays' = Relays /\ Count' = Count
        /\ \A i \in DOMAIN deposits : deposits'[i] = deposits[i]
    <3>1. /\ Relays' = Relays \cup (IF d.payment # NoPayment THEN {Len(deposits) + 1} ELSE {})
          /\ Count' = Count + (IF d.payment # NoPayment THEN 1 ELSE 0)
          /\ \A i \in DOMAIN deposits : deposits'[i] = deposits[i]
      BY <1>1, <1>2, RelaysLonger
    <3>2. Count \in Int
      BY CountFacts
    <3>3. Relays' = Relays
      BY <1>1, <3>1
    <3>4. Count' = Count
      BY <1>1, <3>1, <3>2
    <3> QED BY <3>1, <3>3, <3>4
  <2>2. ASSUME NEW p \in DOMAIN payments PROVE RelaysOf(p)' = RelaysOf(p)
    <3>1. d.payment # p
      BY <1>1, Basics
    <3> QED BY <1>1, <1>2, <3>1, RelaysLonger DEF RelaysOf
  <2> QED BY <2>1, <2>2
<1>4. ScanInv'
  BY <1>1, <1>2, ScanInvLonger DEF Inv
<1>5. RowInv'
  BY <1>2 DEF Inv, RowInv, RowTypes, NoPaymentForgotten, onrampRows
<1>6. RelayInv'
  <2>1. RelayTypes'
    BY <1>2 DEF Inv, RelayInv, RelayTypes, Current, onrampRows
  <2>2. RelaysMatch'
    BY <1>2, <1>3 DEF Inv, RelayInv, RelaysMatch, Relays
  <2>3. DepositedIsDone'
    BY <1>2, <1>3, Basics DEF Inv, RelayInv, DepositedIsDone, Stale, onrampRows
  <2>4. IncludedIsDone'
    <3> SUFFICES ASSUME pc = "poll", polled.ledger # NoLedger
                 PROVE  RelaysOf(Current)' # {} /\ \A tx \in inFlight : Stale(tx)
      BY <1>2, <1>3 DEF IncludedIsDone, Stale, Current, RelaysOf
    <3>1. Current \in DOMAIN payments /\ Current' = Current
      BY <1>2, CurrentIsPending DEF Inv, RelayInv, RelayTypes, Current
    <3> QED BY <1>3, <3>1 DEF Inv, RelayInv, IncludedIsDone, RelaysOf
  <2> QED BY <1>2, <1>3, <2>1, <2>2, <2>3, <2>4 DEF Inv, RelayInv
<1> QED BY <1>3, <1>4, <1>5, <1>6, Basics DEF Inv

LEMMA CloseLedgerKeeps ==
    ASSUME Inv, CloseLedger
    PROVE  Inv'
<1> USE DEF CloseLedger
<1>1. ledger \in Nat /\ MaxLedger \in Nat
  BY Basics, ScanConfig
<1>2. ScanInv'
  <2>1. ScanTypeOK'
    BY <1>1 DEF Inv, ScanInv, ScanTypeOK, scanVars
  <2>2. CreditsFollowContract'
    BY DEF Inv, ScanInv, CreditsFollowContract, scanVars
  <2> QED BY <2>1, <2>2 DEF ScanInv
<1>3. RowInv'
  BY DEF Inv, RowInv, RowTypes, NoPaymentForgotten, onrampRows
<1>4. Count' = Count /\ Relays' = Relays /\ \A p : RelaysOf(p)' = RelaysOf(p)
  BY DEF Count, Relays, RelaysOf
<1>5. RelayInv'
  <2>1. RelayTypes'
    <3>1. 1..(ledger + 1) \subseteq 1..(ledger' + 1)
      BY <1>1
    <3> QED BY <3>1 DEF Inv, RelayInv, RelayTypes, Current, onrampRows
  <2>2. RelaysMatch' /\ DepositedIsDone' /\ IncludedIsDone'
    BY <1>4 DEF Inv, RelayInv, RelaysMatch, DepositedIsDone, IncludedIsDone, Stale, Current, onrampRows
  <2> QED BY <1>4, <2>1, <2>2 DEF Inv, RelayInv
<1> QED BY <1>2, <1>3, <1>5 DEF Inv

\* The transaction that is included has the next sequence number: its payment
\* is no row that says deposited, and all others are stale from now on.
LEMMA IncludeKeeps ==
    ASSUME Inv, NEW tx \in inFlight, Include(tx)
    PROVE  /\ Inv'
           /\ \A p \in DOMAIN onramp : onramp[p] = "deposited" => RelaysOf(p)' = RelaysOf(p)
<1> DEFINE pay == payments[tx.payment]
           d == [to |-> pay.from, amount |-> pay.amount, payment |-> tx.payment, ledger |-> ledger + 1]
<1>1. /\ deposits' = Append(deposits, d) /\ Len(deposits) < MaxDeposits
      /\ tx.seqNo = AccountSeq(ledger + 1)
      /\ inFlight' = inFlight \ {tx}
      /\ polled' = IF polled # NoTx /\ polled.tx = tx THEN [polled EXCEPT !.ledger = ledger + 1] ELSE polled
      /\ UNCHANGED <<ledger, payments, scanVars, onrampRows, pc, todo, serversLeft>>
  BY DEF Include, Deposited, SequenceValid
<1>2. tx.payment \in DOMAIN payments /\ tx.payment \in Nat /\ pay \in Payment
  BY Basics DEF Inv, RelayInv, RelayTypes
<1>3. /\ d \in DepositInfo /\ d.ledger = ledger + 1 /\ d.payment = tx.payment
      /\ d.to = pay.from /\ d.amount = pay.amount /\ d.payment # NoPayment
  BY <1>2, Basics, ScanConfig DEF DepositInfo, Payment
<1> HIDE DEF d
<1>4. /\ Count \in Nat /\ tx.seqNo = Count /\ Count' = Count + 1
      /\ Relays' = Relays \cup {Len(deposits) + 1}
      /\ \A i \in DOMAIN deposits : deposits'[i] = deposits[i]
      /\ deposits'[Len(deposits) + 1] = d
  BY <1>1, <1>3, CountFacts, RelaysLonger
<1>5. \A p : RelaysOf(p) \subseteq RelaysOf(p)' /\ (p # tx.payment => RelaysOf(p)' = RelaysOf(p))
  BY <1>1, <1>3, RelaysLonger DEF RelaysOf
<1>6. RelaysOf(tx.payment)' # {}
  <2>1. RelaysOf(tx.payment)' = RelaysOf(tx.payment) \cup {Len(deposits) + 1}
    BY <1>1, <1>3, RelaysLonger
  <2> QED BY <2>1
<1>7. \A other \in inFlight : other.seqNo <= Count /\ other.seqNo \in Nat
  <2>1. \A other \in inFlight : other.seqNo \in 0..MaxDeposits
    BY DEF Inv, RelayInv, RelayTypes
  <2> QED BY <2>1, Basics DEF Inv, RelayInv
<1>8. \A other \in inFlight : Stale(other)'
  BY <1>4, <1>7 DEF Stale
<1>9. \A p \in DOMAIN onramp : onramp[p] = "deposited" => p # tx.payment
  BY <1>4 DEF Inv, RelayInv, DepositedIsDone, Stale
<1>10. ScanInv'
  BY <1>1, <1>3, ScanInvLonger DEF Inv
<1>11. RowInv'
  BY <1>1 DEF Inv, RowInv, RowTypes, NoPaymentForgotten, onrampRows
<1>12. RelayTypes'
  <2>1. CASE pc = "poll"
    <3>1. polled \in [tx : [payment : {Current}, seqNo : 0..MaxDeposits],
                      ledger : 1..(ledger + 1) \cup {NoLedger}]
      BY <2>1 DEF Inv, RelayInv, RelayTypes
    <3>2. ledger + 1 \in 1..(ledger + 1)
      BY Basics
    <3>3. polled' \in [tx : [payment : {Current}, seqNo : 0..MaxDeposits],
                      ledger : 1..(ledger + 1) \cup {NoLedger}]
      BY <1>1, <3>1, <3>2
    <3> QED BY <1>1, <2>1, <3>3 DEF Inv, RelayInv, RelayTypes, Current, onrampRows
  <2>2. CASE pc # "poll"
    BY <1>1, <2>2 DEF Inv, RelayInv, RelayTypes, Current, onrampRows
  <2> QED BY <2>1, <2>2
<1>13. RelaysMatch'
  <2> SUFFICES ASSUME NEW i \in Relays'
               PROVE  LET p == deposits'[i].payment
                      IN  /\ p \in DOMAIN payments
                          /\ deposits'[i].to = payments[p].from
                          /\ deposits'[i].amount = payments[p].amount
    BY <1>1 DEF RelaysMatch
  <2>1. CASE i \in Relays
    BY <1>4, <2>1 DEF Inv, RelayInv, RelaysMatch, Relays
  <2>2. CASE i = Len(deposits) + 1
    BY <1>2, <1>3, <1>4, <2>2
  <2> QED BY <1>4, <2>1, <2>2
<1>14. DepositedIsDone'
  BY <1>1, <1>5, <1>8 DEF Inv, RelayInv, DepositedIsDone, onrampRows
<1>15. IncludedIsDone'
  <2> SUFFICES ASSUME pc = "poll", polled'.ledger # NoLedger
               PROVE  RelaysOf(Current)' # {}
    BY <1>1, <1>8 DEF IncludedIsDone, Current
  <2>1. Current' = Current
    BY <1>1 DEF Current
  <2>2. CASE polled.tx = tx
    <3>1. tx.payment = Current
      BY <2>2 DEF Inv, RelayInv, RelayTypes
    <3> QED BY <1>6, <2>1, <3>1 DEF RelaysOf
  <2>3. CASE polled.tx # tx
    <3>1. RelaysOf(Current) # {}
      BY <1>1, <2>3 DEF Inv, RelayInv, IncludedIsDone
    <3> QED BY <1>5, <2>1, <3>1 DEF RelaysOf
  <2> QED BY <2>2, <2>3
<1>16. RelayInv'
  <2>1. \A other \in inFlight' : other.seqNo <= Count'
    BY <1>1, <1>4, <1>7
  <2> QED BY <1>1, <1>12, <1>13, <1>14, <1>15, <2>1 DEF Inv, RelayInv
<1> QED BY <1>5, <1>9, <1>10, <1>11, <1>16 DEF Inv

LEMMA DropKeeps ==
    ASSUME Inv, NEW tx \in inFlight, Drop(tx)
    PROVE  Inv'
<1> USE DEF Drop
<1>1. ScanInv'
  BY ScanKept DEF Inv, scanVars
<1>2. RowInv'
  BY DEF Inv, RowInv, RowTypes, NoPaymentForgotten, onrampRows
<1>3. Count' = Count /\ Relays' = Relays /\ \A p : RelaysOf(p)' = RelaysOf(p)
  BY DEF Count, Relays, RelaysOf
<1>4. RelayTypes'
  BY DEF Inv, RelayInv, RelayTypes, Current, onrampRows
<1>5. RelaysMatch' /\ DepositedIsDone' /\ IncludedIsDone'
  BY <1>3 DEF Inv, RelayInv, RelaysMatch, DepositedIsDone, IncludedIsDone, Stale, Current, onrampRows
<1> QED BY <1>1, <1>2, <1>3, <1>4, <1>5 DEF Inv, RelayInv

-----------------------------------------------------------------------------
(* ingest *)

\* Steps of the process that leave the chain, the rows and what is at hand.
LEMMA RelayKept ==
    ASSUME Inv, ScanInv',
           UNCHANGED <<ledger, deposits, payments, inFlight, onrampRows, todo, polled, serversLeft>>,
           pc # "poll", pc' \in {"down", "idle", "ingest", "relay", "invoke", "scan", "verify"},
           pc' = "invoke" => todo # {},
           pc' \notin {"relay", "invoke"} => todo = {}
    PROVE  Inv'
<1> USE DEF onrampRows
<1>1. RowInv'
  BY DEF Inv, RowInv, RowTypes, NoPaymentForgotten
<1>2. Count' = Count /\ Relays' = Relays /\ \A p : RelaysOf(p)' = RelaysOf(p)
  BY DEF Count, Relays, RelaysOf
<1>3. RelayTypes'
  BY DEF Inv, RelayInv, RelayTypes, Current
<1>4. RelaysMatch' /\ DepositedIsDone' /\ IncludedIsDone'
  BY <1>2 DEF Inv, RelayInv, RelaysMatch, DepositedIsDone, IncludedIsDone, Stale
<1> QED BY <1>1, <1>2, <1>3, <1>4 DEF Inv, RelayInv

\* A scan step has nothing to do with the rows, and leaves pc in the scan.
LEMMA ScanStepKeepsInv ==
    ASSUME Inv, ScanStep, UNCHANGED <<payments, inFlight, onrampRows, todo, polled, serversLeft>>
    PROVE  Inv'
<1>1. ScanInv'
  BY ScanStepKeeps DEF Inv
<1>2. /\ pc \in {"scan", "verify"} /\ pc' \in {"scan", "verify", "idle"}
      /\ UNCHANGED <<ledger, deposits>>
  BY DEF ScanStep, FetchDeposits, ScanFails, ScanOver, RejectDeposit, CreditDeposit, CreditThrows,
         SaveCursor
<1>3. todo = {}
  BY <1>2 DEF Inv, RelayInv
<1> QED BY <1>1, <1>2, <1>3, RelayKept

LEMMA QuietStepKeeps ==
    ASSUME Inv, Tick \/ HorizonFails \/ RelayDeposit \/ IngestEnds \/ Start
    PROVE  Inv'
<1>1. /\ pc \in {"idle", "ingest", "relay", "down"}
      /\ pc' \in {"ingest", "scan", "invoke", "idle"}
      /\ pc' = "invoke" => todo # {}
      /\ pc' # "invoke" => (pc # "relay" \/ todo = {})
      /\ UNCHANGED <<outside, scanVars, onrampRows, todo, polled, serversLeft>>
  BY DEF Tick, HorizonFails, RelayDeposit, IngestEnds, Start
<1>2. ScanInv'
  BY <1>1, ScanKept DEF Inv, outside, scanVars
<1>3. pc' # "invoke" => todo = {}
  BY <1>1 DEF Inv, RelayInv
<1> QED BY <1>1, <1>2, <1>3, RelayKept DEF outside

LEMMA CrashKeeps ==
    ASSUME Inv, Crash
    PROVE  Inv'
<1> USE DEF Crash, outside, onrampRows
<1>1. ScanInv'
  BY ScanKept DEF Inv
<1>2. RowInv'
  BY DEF Inv, RowInv, RowTypes, NoPaymentForgotten
<1>3. Count' = Count /\ Relays' = Relays /\ \A p : RelaysOf(p)' = RelaysOf(p)
  BY DEF Count, Relays, RelaysOf
<1>4. RelayTypes'
  BY Basics DEF Inv, RelayInv, RelayTypes
<1>5. RelaysMatch' /\ DepositedIsDone' /\ IncludedIsDone'
  BY <1>3 DEF Inv, RelayInv, RelaysMatch, DepositedIsDone, IncludedIsDone, Stale
<1> QED BY <1>1, <1>2, <1>3, <1>4, <1>5 DEF Inv, RelayInv

LEMMA SkipHistoricalKeeps ==
    ASSUME Inv, SkipHistorical
    PROVE  Inv'
<1> USE DEF SkipHistorical, outside
<1>1. ScanInv'
  BY ScanKept DEF Inv, scanVars
<1>2. Len(payments) \in 0..Len(payments) /\ Len(payments) \in DOMAIN payments \cup {0}
  BY Basics
<1>3. RowInv'
  <2>1. NoPaymentForgotten'
    <3>1. tip' = Len(payments) /\ cursor' = Len(payments)
      BY DEF TipCursor
    <3>2. (tip' + 1)..cursor' = {}
      BY <3>1, Basics
    <3> QED BY <3>2 DEF NoPaymentForgotten
  <2>2. RowTypes'
    BY <1>2 DEF Inv, RowInv, RowTypes, TipCursor
  <2> QED BY <2>1, <2>2 DEF RowInv
<1>4. Count' = Count /\ Relays' = Relays /\ \A p : RelaysOf(p)' = RelaysOf(p)
  BY DEF Count, Relays, RelaysOf
<1>5. RelayTypes'
  BY DEF Inv, RelayInv, RelayTypes
<1>6. RelaysMatch' /\ DepositedIsDone' /\ IncludedIsDone'
  BY <1>4 DEF Inv, RelayInv, RelaysMatch, DepositedIsDone, IncludedIsDone, Stale
<1> QED BY <1>1, <1>3, <1>4, <1>5, <1>6 DEF Inv, RelayInv

\* New rows are only added where there was none.
LEMMA InsertedFacts ==
    ASSUME Inv, cursor # Unset, NEW last \in 0..Len(payments), onramp' = Inserted(last),
           UNCHANGED <<payments, tip>>
    PROVE  /\ onramp' \in Seq(OnrampStatus \cup {"none"}) /\ Len(onramp') = Len(payments')
           /\ DOMAIN onramp' = DOMAIN onramp
           /\ \A p \in DOMAIN onramp : onramp'[p] = "deposited" => onramp[p] = "deposited"
           /\ Pending(onramp) \subseteq Pending(onramp')
           /\ \A p \in (tip + 1)..last : onramp'[p] # "none"
           /\ cursor \in 0..Len(payments)
           /\ \A p \in (tip + 1)..cursor : onramp'[p] # "none"
<1>1. /\ onramp \in Seq(OnrampStatus \cup {"none"}) /\ Len(onramp) = Len(payments)
      /\ Len(payments) \in Nat /\ tip \in 0..Len(payments) /\ cursor \in 0..Len(payments)
  BY Basics DEF Inv, RowInv, RowTypes
<1>2. onramp' = [p \in 1..Len(payments) |->
                    IF p \in (cursor + 1)..last /\ onramp[p] = "none" THEN "seen" ELSE onramp[p]]
  BY <1>1 DEF Inserted
<1>3. \A p \in 1..Len(payments) : onramp'[p] \in OnrampStatus \cup {"none"}
  <2>1. "seen" \in OnrampStatus
    BY DEF OnrampStatus
  <2> QED BY <1>1, <1>2, <2>1
<1>4. onramp' \in [1..Len(payments) -> OnrampStatus \cup {"none"}]
  BY <1>2, <1>3
<1>5. onramp' \in Seq(OnrampStatus \cup {"none"}) /\ Len(onramp') = Len(payments)
  BY <1>1, <1>4
<1>6. \A p \in DOMAIN onramp : onramp'[p] = "deposited" => onramp[p] = "deposited"
  BY <1>1, <1>2
<1>7. Pending(onramp) \subseteq Pending(onramp')
  BY <1>1, <1>2 DEF Pending
<1>8. ASSUME NEW p \in 1..Len(payments), p \in (tip + 1)..cursor PROVE onramp'[p] # "none"
  BY <1>1, <1>2, <1>8 DEF Inv, RowInv, NoPaymentForgotten
<1>9. \A p \in (tip + 1)..cursor : onramp'[p] # "none"
  BY <1>1, <1>8
<1>10. ASSUME NEW p \in (tip + 1)..last PROVE onramp'[p] # "none"
  <2>1. p \in 1..Len(payments)
    BY <1>1
  <2>2. CASE p <= cursor
    BY <1>1, <1>9, <2>2
  <2>3. CASE p > cursor
    BY <1>1, <1>2, <2>1, <2>3
  <2>4. p <= cursor \/ p > cursor
    BY <1>1
  <2> QED BY <2>2, <2>3, <2>4
<1>11. DOMAIN onramp' = DOMAIN onramp /\ Len(onramp') = Len(payments')
  BY <1>1, <1>2, <1>5
<1>12. cursor \in 0..Len(payments) /\ onramp' \in Seq(OnrampStatus \cup {"none"})
  BY <1>1, <1>5
<1> QED BY <1>6, <1>7, <1>9, <1>10, <1>11, <1>12, Zenon

LEMMA PageEndInPayments ==
    ASSUME Inv, cursor # Unset
    PROVE  PageEnd \in 0..Len(payments)
<1>1. cursor \in Nat /\ HorizonPage \in Nat /\ Len(payments) \in Nat
  BY Basics, OperatorConfig DEF Inv, RowInv, RowTypes
<1> DEFINE ends == {Len(payments), cursor + HorizonPage}
<1>2. ends \subseteq Nat /\ ends # {} /\ Len(payments) \in ends
  BY <1>1
<1>3. PageEnd = Min(ends)
  BY DEF PageEnd
<1> HIDE DEF ends
<1>4. PageEnd \in ends /\ PageEnd <= Len(payments)
  BY <1>2, <1>3, LeastIsMin
<1> QED BY <1>1, <1>2, <1>4

LEMMA IngestPageKeeps ==
    ASSUME Inv, IngestPage
    PROVE  Inv'
<1> USE DEF IngestPage, outside
<1>1. ScanInv'
  BY ScanKept DEF Inv, scanVars
<1>2. /\ onramp' \in Seq(OnrampStatus \cup {"none"}) /\ Len(onramp') = Len(payments')
      /\ DOMAIN onramp' = DOMAIN onramp
      /\ \A p \in DOMAIN onramp : onramp'[p] = "deposited" => onramp[p] = "deposited"
      /\ \A p \in (tip + 1)..PageEnd : onramp'[p] # "none"
  BY PageEndInPayments, InsertedFacts
<1>3. cursor' \in DOMAIN payments \cup {0, Unset}
  BY PageEndInPayments, Basics
<1>4. RowInv'
  BY <1>2, <1>3 DEF Inv, RowInv, RowTypes, NoPaymentForgotten
<1>5. Count' = Count /\ Relays' = Relays /\ \A p : RelaysOf(p)' = RelaysOf(p)
  BY DEF Count, Relays, RelaysOf
<1>6. RelayTypes'
  BY DEF Inv, RelayInv, RelayTypes, FirstPending
<1>7. DepositedIsDone'
  BY <1>2, <1>5 DEF Inv, RelayInv, DepositedIsDone, Stale
<1>8. RelaysMatch' /\ IncludedIsDone'
  BY <1>5 DEF Inv, RelayInv, RelaysMatch, IncludedIsDone
<1> QED BY <1>1, <1>4, <1>5, <1>6, <1>7, <1>8 DEF Inv, RelayInv

LEMMA DieIngestingKeeps ==
    ASSUME Inv, NEW last \in 1..MaxPayments, DieIngesting(last)
    PROVE  Inv'
<1> USE DEF DieIngesting, outside
<1>0. last \in 0..Len(payments)
  BY PageEndInPayments, Basics
<1>1. ScanInv'
  BY ScanKept DEF Inv, scanVars
<1>2. /\ onramp' \in Seq(OnrampStatus \cup {"none"}) /\ Len(onramp') = Len(payments')
      /\ DOMAIN onramp' = DOMAIN onramp
      /\ \A p \in DOMAIN onramp : onramp'[p] = "deposited" => onramp[p] = "deposited"
      /\ Pending(onramp) \subseteq Pending(onramp')
      /\ \A p \in (tip + 1)..cursor : onramp'[p] # "none"
  BY <1>0, InsertedFacts
<1>4. RowInv'
  BY <1>2 DEF Inv, RowInv, RowTypes, NoPaymentForgotten
<1>5. Count' = Count /\ Relays' = Relays /\ \A p : RelaysOf(p)' = RelaysOf(p)
  BY DEF Count, Relays, RelaysOf
<1>6. RelayTypes'
  BY <1>2 DEF Inv, RelayInv, RelayTypes
<1>7. DepositedIsDone'
  BY <1>2, <1>5 DEF Inv, RelayInv, DepositedIsDone, Stale
<1>8. RelaysMatch' /\ IncludedIsDone'
  BY <1>5 DEF Inv, RelayInv, RelaysMatch, IncludedIsDone
<1> QED BY <1>1, <1>4, <1>5, <1>6, <1>7, <1>8 DEF Inv, RelayInv

\* The row at hand gets its status, and what was sent for it is one
\* transaction at most.  It is deposited only if that is included.
LEMMA RowDoneKeeps ==
    ASSUME Inv, todo # {}, NEW status \in {"skipped", "failed", "deposited"}, RowDone(status),
           UNCHANGED <<ledger, deposits, payments, scanVars>>,
           inFlight' \subseteq [payment : DOMAIN payments, seqNo : 0..MaxDeposits],
           \A tx \in inFlight' : tx.seqNo <= Count,
           \A tx \in inFlight' : tx \in inFlight \/ tx.payment = Current,
           polled' = NoTx, serversLeft' \in 1..Servers,
           status = "deposited" =>
               RelaysOf(Current) # {} /\ \A tx \in inFlight' : tx.payment = Current => Stale(tx)
    PROVE  Inv'
<1>1. ScanInv'
  BY ScanKept DEF Inv, scanVars
<1>2. /\ onramp' = [onramp EXCEPT ![Current] = status]
      /\ todo' = todo \ {Current} /\ pc' = "relay" /\ UNCHANGED <<cursor, tip>>
  BY DEF RowDone
<1>3. /\ Current \in DOMAIN onramp
      /\ onramp \in Seq(OnrampStatus \cup {"none"}) /\ Len(onramp) = Len(payments)
  BY CurrentIsPending, Basics DEF Inv, RowInv, RowTypes
<1>4. /\ onramp' \in Seq(OnrampStatus \cup {"none"}) /\ Len(onramp') = Len(payments')
      /\ DOMAIN onramp' = DOMAIN onramp
      /\ \A p \in DOMAIN onramp : onramp'[p] = IF p = Current THEN status ELSE onramp[p]
  <2>1. status \in OnrampStatus \cup {"none"}
    BY DEF OnrampStatus
  <2> QED BY <1>2, <1>3, <2>1
<1>5. RowInv'
  <2>1. RowTypes'
    BY <1>2, <1>4 DEF Inv, RowInv, RowTypes
  <2>2. NoPaymentForgotten'
    <3> SUFFICES ASSUME cursor # Unset, NEW p \in (tip + 1)..cursor PROVE onramp'[p] # "none"
      BY <1>2 DEF NoPaymentForgotten
    <3>1. onramp[p] # "none"
      BY DEF Inv, RowInv, NoPaymentForgotten
    <3>2. p \in DOMAIN onramp
      BY Basics DEF Inv, RowInv, RowTypes
    <3> QED BY <1>4, <3>1, <3>2
  <2> QED BY <2>1, <2>2 DEF RowInv
<1>6. Count' = Count /\ Relays' = Relays /\ \A p : RelaysOf(p)' = RelaysOf(p)
  BY DEF Count, Relays, RelaysOf
<1>7. RelayTypes'
  <2>1. todo' \subseteq Pending(onramp')
    BY <1>2, <1>4 DEF Inv, RelayInv, RelayTypes, Pending
  <2> QED BY <1>2, <2>1 DEF RelayTypes
<1>8. DepositedIsDone'
  <2> SUFFICES ASSUME NEW p \in DOMAIN onramp, onramp'[p] = "deposited"
               PROVE  RelaysOf(p) # {} /\ \A tx \in inFlight' : tx.payment = p => Stale(tx)
    BY <1>4, <1>6 DEF DepositedIsDone, Stale
  <2>1. CASE p = Current
    BY <1>4, <2>1
  <2>2. CASE p # Current
    BY <1>4, <2>2 DEF Inv, RelayInv, DepositedIsDone
  <2> QED BY <2>1, <2>2
<1>9. RelaysMatch' /\ IncludedIsDone'
  BY <1>2, <1>6 DEF Inv, RelayInv, RelaysMatch, IncludedIsDone
<1>10. \A tx \in inFlight' : tx.seqNo <= Count'
  BY <1>6
<1> QED BY <1>1, <1>2, <1>5, <1>7, <1>8, <1>9, <1>10 DEF Inv, RelayInv

LEMMA SendKeeps ==
    ASSUME Inv, NEW seen \in 0..ledger, Send(seen)
    PROVE  Inv'
<1> USE DEF Send, onrampRows
<1>1. ScanInv'
  BY ScanKept DEF Inv, scanVars
<1>2. RowInv'
  BY DEF Inv, RowInv, RowTypes, NoPaymentForgotten
<1>3. Count' = Count /\ Relays' = Relays /\ \A p : RelaysOf(p)' = RelaysOf(p)
  BY DEF Count, Relays, RelaysOf
<1>4. todo # {}
  BY DEF Inv, RelayInv, RelayTypes
<1> DEFINE tx == Transaction(seen)
<1>5. /\ tx \in [payment : {Current}, seqNo : 0..MaxDeposits]
      /\ tx \in [payment : DOMAIN payments, seqNo : 0..MaxDeposits]
      /\ tx.payment = Current /\ tx.seqNo <= Count
  BY <1>4, TransactionFacts
<1>6. /\ inFlight' = inFlight \cup {tx} /\ polled' = [tx |-> tx, ledger |-> NoLedger]
      /\ pc' = "poll" /\ serversLeft' = Servers
  OBVIOUS
<1> HIDE DEF tx
<1>7. RelayTypes'
  BY <1>4, <1>5, <1>6, Basics DEF Inv, RelayInv, RelayTypes, Current
<1>8. DepositedIsDone'
  <2>1. onramp[Current] # "deposited"
    BY <1>4, CurrentIsPending
  <2> QED BY <1>3, <1>5, <1>6, <2>1 DEF Inv, RelayInv, DepositedIsDone, Stale
<1>9. IncludedIsDone'
  BY <1>6 DEF IncludedIsDone
<1>10. RelaysMatch'
  BY <1>3 DEF Inv, RelayInv, RelaysMatch
<1>11. \A other \in inFlight' : other.seqNo <= Count'
  BY <1>3, <1>5, <1>6 DEF Inv, RelayInv
<1> QED BY <1>1, <1>2, <1>6, <1>7, <1>8, <1>9, <1>10, <1>11 DEF Inv, RelayInv

LEMMA EndpointFailsKeeps ==
    ASSUME Inv, NEW seen \in 0..ledger, NEW sent \in BOOLEAN, EndpointFails(seen, sent)
    PROVE  Inv'
<1> DEFINE tx == Transaction(seen)
<1>1. /\ pc = "invoke" /\ todo # {} /\ polled = NoTx
  BY DEF EndpointFails, Inv, RelayInv, RelayTypes
<1>2. /\ inFlight' \subseteq inFlight \cup {tx} /\ inFlight \subseteq inFlight'
      /\ UNCHANGED <<ledger, deposits, payments, scanVars, polled>>
  BY DEF EndpointFails
<1>3. /\ tx \in [payment : DOMAIN payments, seqNo : 0..MaxDeposits]
      /\ tx.payment = Current /\ tx.seqNo <= Count
  BY <1>1, TransactionFacts
<1> HIDE DEF tx
<1>4. /\ inFlight' \subseteq [payment : DOMAIN payments, seqNo : 0..MaxDeposits]
      /\ \A other \in inFlight' : other.seqNo <= Count
      /\ \A other \in inFlight' : other \in inFlight \/ other.payment = Current
  BY <1>2, <1>3 DEF Inv, RelayInv, RelayTypes
<1>5. CASE LastServer
  <2>1. RowDone("failed") /\ serversLeft' = Servers
    BY <1>5 DEF EndpointFails
  <2>2. serversLeft' \in 1..Servers
    BY <2>1, Basics
  <2> QED BY <1>1, <1>2, <1>4, <2>1, <2>2, RowDoneKeeps
<1>6. CASE ~LastServer
  <2>1. serversLeft' = serversLeft - 1 /\ UNCHANGED <<onrampRows, todo, pc>>
    BY <1>6 DEF EndpointFails
  <2>2. serversLeft' \in 1..Servers
    BY <1>6, <2>1, Basics DEF Inv, RelayInv, RelayTypes, LastServer
  <2>3. ScanInv'
    BY <1>2, ScanKept DEF Inv, scanVars
  <2>4. RowInv'
    BY <1>2, <2>1 DEF Inv, RowInv, RowTypes, NoPaymentForgotten, onrampRows
  <2>5. Count' = Count /\ Relays' = Relays /\ \A p : RelaysOf(p)' = RelaysOf(p)
    BY <1>2 DEF Count, Relays, RelaysOf
  <2>6. RelayTypes'
    BY <1>1, <1>2, <1>4, <2>1, <2>2 DEF Inv, RelayInv, RelayTypes, onrampRows
  <2>7. DepositedIsDone'
    <3>1. onramp[Current] # "deposited"
      BY <1>1, CurrentIsPending
    <3> QED BY <1>4, <2>1, <2>5, <3>1 DEF Inv, RelayInv, DepositedIsDone, Stale, onrampRows
  <2>8. RelaysMatch' /\ IncludedIsDone'
    BY <1>1, <1>2, <2>1, <2>5 DEF Inv, RelayInv, RelaysMatch, IncludedIsDone
  <2>9. \A other \in inFlight' : other.seqNo <= Count'
    BY <1>4, <2>5
  <2> QED BY <1>1, <2>1, <2>3, <2>4, <2>6, <2>7, <2>8, <2>9 DEF Inv, RelayInv
<1> QED BY <1>5, <1>6

\* Nothing is sent: what is in flight is as it was.
LEMMA NothingSent ==
    ASSUME Inv, UNCHANGED inFlight
    PROVE  /\ inFlight' \subseteq [payment : DOMAIN payments, seqNo : 0..MaxDeposits]
           /\ \A tx \in inFlight' : tx.seqNo <= Count
           /\ \A tx \in inFlight' : tx \in inFlight
BY DEF Inv, RelayInv, RelayTypes

LEMMA RowStepKeeps ==
    ASSUME Inv, SkipRow \/ InvokeFails \/ RelayFails
    PROVE  Inv'
<1>1. /\ todo # {} /\ UNCHANGED <<ledger, deposits, payments, inFlight, scanVars>>
  BY DEF SkipRow, InvokeFails, RelayFails, outside, Inv, RelayInv, RelayTypes
<1>2. RowDone("skipped") \/ RowDone("failed")
  BY DEF SkipRow, InvokeFails, RelayFails
<1>3. polled' = NoTx
  BY DEF SkipRow, InvokeFails, RelayFails, Inv, RelayInv, RelayTypes
<1>4. serversLeft' \in 1..Servers
  BY Basics DEF SkipRow, InvokeFails, RelayFails, Inv, RelayInv, RelayTypes
<1> QED BY <1>1, <1>2, <1>3, <1>4, NothingSent, RowDoneKeeps

LEMMA ConfirmKeeps ==
    ASSUME Inv, NEW seen \in 0..ledger, Confirm(seen)
    PROVE  Inv'
<1>1. /\ pc = "poll" /\ RowDone("deposited") /\ polled' = NoTx
      /\ UNCHANGED <<ledger, deposits, payments, inFlight, scanVars, serversLeft>>
  BY DEF Confirm, outside
<1>2. todo # {} /\ serversLeft' \in 1..Servers
  BY <1>1 DEF Inv, RelayInv, RelayTypes
<1>3. polled.ledger # NoLedger
  BY DEF Confirm, Confirmed
<1>4. RelaysOf(Current) # {} /\ \A tx \in inFlight : Stale(tx)
  BY <1>1, <1>3 DEF Inv, RelayInv, IncludedIsDone
<1> QED BY <1>1, <1>2, <1>4, NothingSent, RowDoneKeeps

-----------------------------------------------------------------------------
(* The theorems *)

LEMMA InitInv == Init => Inv
<1> SUFFICES ASSUME Init PROVE Inv
  OBVIOUS
<1> USE DEF Init, ScanInit
<1>1. ScanInv
  <2>1. ScanTypeOK
    BY ScanConfig DEF ScanTypeOK
  <2>2. ASSUME NEW a \in Accounts PROVE balance[a] = Credited(deposits, a)[nextDeposit - 1]
    <3>1. deposits \in Seq(DepositInfo) /\ nextDeposit - 1 = 0 /\ balance[a] = 0
      OBVIOUS
    <3>2. Credited(deposits, a)[0] = 0
      BY <3>1, CreditedIsSum
    <3> QED BY <3>1, <3>2
  <2> QED BY <2>1, <2>2 DEF ScanInv, CreditsFollowContract, Credited
<1>2. RowInv
  BY DEF RowInv, RowTypes, NoPaymentForgotten
<1>3. RelayInv
  <2>1. RelayTypes
    BY OperatorConfig DEF RelayTypes
  <2>2. RelaysMatch
    BY DEF RelaysMatch, Relays
  <2> QED BY <2>1, <2>2 DEF RelayInv, DepositedIsDone, IncludedIsDone
<1> QED BY <1>1, <1>2, <1>3 DEF Inv

LEMMA StutterKeeps ==
    ASSUME Inv, UNCHANGED vars
    PROVE  Inv'
<1> USE DEF vars, outside, scanVars, onrampRows
<1>1. ScanInv'
  BY ScanKept DEF Inv
<1>2. RowInv'
  BY DEF Inv, RowInv, RowTypes, NoPaymentForgotten
<1>3. Count' = Count /\ Relays' = Relays /\ \A p : RelaysOf(p)' = RelaysOf(p)
  BY DEF Count, Relays, RelaysOf
<1>4. RelayTypes'
  BY DEF Inv, RelayInv, RelayTypes, Current
<1>5. RelaysMatch' /\ DepositedIsDone' /\ IncludedIsDone'
  BY <1>3 DEF Inv, RelayInv, RelaysMatch, DepositedIsDone, IncludedIsDone, Stale, Current
<1> QED BY <1>1, <1>2, <1>3, <1>4, <1>5 DEF Inv, RelayInv

LEMMA StepKeepsInv == Inv /\ [Next]_vars => Inv'
<1> SUFFICES ASSUME Inv, [Next]_vars PROVE Inv'
  OBVIOUS
<1>1. CASE OutsideStep
  BY <1>1, PayKeeps, UserDepositKeeps, CloseLedgerKeeps, IncludeKeeps, DropKeeps DEF OutsideStep
<1>2. CASE IngestStep
  BY <1>2, QuietStepKeeps, SkipHistoricalKeeps, IngestPageKeeps, RowStepKeeps, SendKeeps,
     ConfirmKeeps, EndpointFailsKeeps DEF IngestStep
<1>3. CASE ScanStep /\ UNCHANGED <<payments, inFlight, onrampRows, todo, polled, serversLeft>>
  BY <1>3, ScanStepKeepsInv
<1>4. CASE \E last \in 1..MaxPayments : DieIngesting(last)
  BY <1>4, DieIngestingKeeps
<1>5. CASE Crash \/ Start
  BY <1>5, CrashKeeps, QuietStepKeeps
<1>6. CASE UNCHANGED vars
  BY <1>6, StutterKeeps
<1> QED BY <1>1, <1>2, <1>3, <1>4, <1>5, <1>6 DEF Next

LEMMA Invariance == Spec => []Inv
<1> QED BY InitInv, StepKeepsInv, PTL DEF Spec

\* The variables have their types, a row is only handled when there is one, and
\* the client polls for the row at hand and never tries an endpoint too many.
THEOREM SpecTypeOK == Spec => []TypeOK
<1>1. Inv => TypeOK
  BY DEF Inv, ScanInv, RowInv, RelayInv, TypeOK
<1> QED BY <1>1, Invariance, PTL

\* Whatever the endpoints report, twice, late or cut by a page, and wherever the
\* process dies, a balance is the sum of the first deposits of the contract
\* for the account (ingestDeposit of core/sequencer.ts).
THEOREM SpecCreditsFollowContract == Spec => []CreditsFollowContract
<1>1. Inv => CreditsFollowContract
  BY DEF Inv, ScanInv
<1> QED BY <1>1, Invariance, PTL

\* No payment behind Horizon's cursor is without its row, wherever the process
\* dies between the writes (operator.ts, ingest).
THEOREM SpecNoPaymentForgotten == Spec => []NoPaymentForgotten
<1>1. Inv => NoPaymentForgotten
  BY DEF Inv, RowInv
<1> QED BY <1>1, Invariance, PTL

\* A payment whose row says deposited is in the vault, for its payer and in full
\* (invoke of rpc-client.ts).
THEOREM SpecDepositedIsInVault == Spec => []DepositedIsInVault
<1>1. ASSUME Inv PROVE DepositedIsInVault
  <2> SUFFICES ASSUME NEW p \in DOMAIN onramp, onramp[p] = "deposited"
               PROVE  \E i \in RelaysOf(p) : /\ deposits[i].to = payments[p].from
                                             /\ deposits[i].amount = payments[p].amount
    BY DEF DepositedIsInVault
  <2>1. PICK i \in RelaysOf(p) : TRUE
    BY <1>1 DEF Inv, RelayInv, DepositedIsDone
  <2>2. i \in Relays /\ deposits[i].payment = p
    BY <1>1, <2>1, Basics DEF RelaysOf, Relays
  <2> QED BY <1>1, <2>1, <2>2 DEF Inv, RelayInv, RelaysMatch
<1> QED BY <1>1, Invariance, PTL

\* Once its row says deposited, a payment gets no further deposit, whatever is
\* still in flight for it (invoke of rpc-client.ts, ingest of operator.ts).
THEOREM SpecDepositedIsLast == Spec => DepositedIsLast
<1> DEFINE last == \A p \in DOMAIN onramp : onramp[p] = "deposited" => RelaysOf(p)' = RelaysOf(p)
<1>1. ASSUME Inv, Next PROVE last
  <2>1. CASE UNCHANGED deposits
    BY <2>1 DEF RelaysOf
  <2>2. ASSUME NEW to \in Depositors, NEW amount \in Amounts, UserDeposit(to, amount) PROVE last
    BY <1>1, <2>2, UserDepositKeeps
  <2>3. ASSUME NEW tx \in inFlight, Include(tx) PROVE last
    BY <1>1, <2>3, IncludeKeeps
  <2>4. \/ UNCHANGED deposits
        \/ \E to \in Depositors, amount \in Amounts : UserDeposit(to, amount)
        \/ \E tx \in inFlight : Include(tx)
    <3>1. CASE OutsideStep
      BY <3>1 DEF OutsideStep, Pay, CloseLedger, Drop
    <3>2. CASE IngestStep
      BY <3>2 DEF IngestStep, outside, Tick, SkipHistorical, IngestPage, HorizonFails, SkipRow,
                  RelayDeposit, IngestEnds, Send, Confirm, EndpointFails, InvokeFails, RelayFails
    <3>3. CASE ScanStep
      BY <3>3 DEF ScanStep, FetchDeposits, ScanFails, RejectDeposit, CreditDeposit, CreditThrows,
                  SaveCursor
    <3>4. CASE (\E n \in 1..MaxPayments : DieIngesting(n)) \/ Crash \/ Start
      BY <3>4 DEF DieIngesting, Crash, Start, outside
    <3> QED BY <1>1, <3>1, <3>2, <3>3, <3>4 DEF Next
  <2> QED BY <2>1, <2>2, <2>3, <2>4
<1>2. Inv /\ [Next]_vars => [last]_vars
  BY <1>1
<1> QED BY <1>2, Invariance, PTL DEF Spec, DepositedIsLast
=============================================================================
