--------------------------- MODULE OfframpProofs ---------------------------
(***************************************************************************)
(* Theorems about Offramp, for any outboxes, any number of endpoints and   *)
(* any bounds: what the contract pays is what was withdrawn, whoever calls *)
(* withdraw and with whichever proof; and a row says claimed only when its *)
(* withdrawal was paid.                                                    *)
(*                                                                         *)
(* The first rests on the trees (TreesAndSums): the leaf says the batch,   *)
(* the index and the payee, and no proof verifies for a leaf that is not   *)
(* in the tree.  The second is inductive with what a claim knows while it  *)
(* waits: the transaction it sees included has paid the first withdrawal   *)
(* of todo.  And that todo is made of due withdrawals, at all times, needs *)
(* that it has none twice, which is how the rows are counted off.          *)
(***************************************************************************)
EXTENDS Offramp, TreesAndSums

-----------------------------------------------------------------------------
(* The rows of a tick *)

LEMMA MinOfTwo ==
    \A a, b \in Nat : Min({a, b}) \in Nat /\ Min({a, b}) <= a /\ Min({a, b}) <= b
<1> SUFFICES ASSUME NEW a \in Nat, NEW b \in Nat
             PROVE  Min({a, b}) \in Nat /\ Min({a, b}) <= a /\ Min({a, b}) <= b
  OBVIOUS
<1>1. \E x \in {a, b} : \A y \in {a, b} : x =< y
  BY a <= b \/ b <= a
<1>2. Min({a, b}) \in {a, b} /\ \A y \in {a, b} : Min({a, b}) =< y
  BY <1>1 DEF Min
<1> QED BY <1>2

\* What may be a row.
Slots == [batch : Int, wIndex : Int]

LEMMA BeforeIsTotalOrder ==
    /\ \A w \in Slots : ~Before(w, w)
    /\ \A u, v, w \in Slots : Before(u, v) /\ Before(v, w) => Before(u, w)
    /\ \A v, w \in Slots : v # w => Before(v, w) \/ Before(w, v)
<1>1. \A w \in Slots : w.batch \in Int /\ w.wIndex \in Int
  BY DEF Slots
<1>2. \A v, w \in Slots : v.batch = w.batch /\ v.wIndex = w.wIndex => v = w
  BY DEF Slots
<1> QED BY <1>1, <1>2 DEF Before

\* The number of rows before a row is between 0 and the number of rows less one,
\* and each of these numbers is that of a row.
LEMMA RowRanksExist ==
    ASSUME NEW rows, IsFiniteSet(rows), rows \subseteq Slots
    PROVE  /\ Cardinality(rows) \in Nat
           /\ \A i \in 1..Cardinality(rows) :
                 \E w \in rows : Cardinality({v \in rows : Before(v, w)}) = i - 1
<1> DEFINE Earlier == [w \in rows |-> {v \in rows : Before(v, w)}]
<1>1. Earlier \in [rows -> SUBSET rows] /\ \A w \in rows : Earlier[w] = {v \in rows : Before(v, w)}
  OBVIOUS
<1>2. \A w \in rows : w \notin Earlier[w]
  BY BeforeIsTotalOrder
<1>3. \A v, w \in rows : v \in Earlier[w] => Earlier[v] \subseteq Earlier[w]
  BY BeforeIsTotalOrder
<1>4. \A v, w \in rows : v # w => v \in Earlier[w] \/ w \in Earlier[v]
  BY BeforeIsTotalOrder
<1> HIDE DEF Earlier
<1>5. /\ Cardinality(rows) \in Nat
      /\ \A i \in 1..Cardinality(rows) : \E w \in rows : Cardinality(Earlier[w]) = i - 1
  BY <1>1, <1>2, <1>3, <1>4, RanksExist
<1> QED BY <1>1, <1>5

\* A tick takes rows, and none twice.
LEMMA FirstPerTickIs ==
    ASSUME NEW rows, IsFiniteSet(rows), rows \subseteq Slots
    PROVE  /\ FirstPerTick(rows) \in Seq(rows)
           /\ \A i, j \in DOMAIN FirstPerTick(rows) : FirstPerTick(rows)[i] = FirstPerTick(rows)[j] => i = j
<1> DEFINE n == Cardinality(rows)
           m == Min({PerTick, n})
           Rank(w) == Cardinality({v \in rows : Before(v, w)})
           first == FirstPerTick(rows)
<1>1. n \in Nat /\ \A i \in 1..n : \E w \in rows : Rank(w) = i - 1
  BY RowRanksExist
<1>2. m \in Nat /\ m <= n
  <2>1. PerTick \in Nat
    BY OfframpConfig
  <2> QED BY <1>1, <2>1, MinOfTwo
<1>3. first = [i \in 1..m |-> CHOOSE w \in rows : Rank(w) = i - 1]
  BY Zenon DEF FirstPerTick
<1> HIDE DEF n, m, Rank, first
<1>4. ASSUME NEW i \in 1..m PROVE first[i] \in rows /\ Rank(first[i]) = i - 1
  <2>1. \E w \in rows : Rank(w) = i - 1
    BY <1>1, <1>2
  <2>2. first[i] = CHOOSE w \in rows : Rank(w) = i - 1
    BY <1>3
  <2> QED BY <2>1, <2>2
<1>5. first \in [1..m -> rows]
  BY <1>3, <1>4
<1>6. first \in Seq(rows)
  BY <1>2, <1>5
<1>7. ASSUME NEW i \in 1..m, NEW j \in 1..m, first[i] = first[j] PROVE i = j
  <2>1. i - 1 = j - 1
    BY <1>4, <1>7
  <2> QED BY <1>2, <2>1
<1>8. \A i, j \in DOMAIN first : first[i] = first[j] => i = j
  BY <1>3, <1>7
<1> QED BY <1>6, <1>8 DEF first

BatchesWith(ledgers) ==
    [outbox : Seq(Payees), commitLedger : ledgers, status : {"committed", "finalized"}]

LEMMA BatchIs ==
    ASSUME NEW ledgers, batches \in Seq(BatchesWith(ledgers))
    PROVE  /\ Len(batches) \in Nat /\ DOMAIN batches = 1..Len(batches)
           /\ \A b \in DOMAIN batches : /\ batches[b] \in BatchesWith(ledgers)
                                      /\ batches[b].outbox \in Seq(Payees)
                                      /\ batches[b].commitLedger \in ledgers
<1>1. /\ Len(batches) \in Nat /\ DOMAIN batches = 1..Len(batches)
      /\ \A b \in DOMAIN batches : batches[b] \in BatchesWith(ledgers)
  OBVIOUS
<1>2. \A row \in BatchesWith(ledgers) : row.outbox \in Seq(Payees) /\ row.commitLedger \in ledgers
  BY DEF BatchesWith
<1> QED BY <1>1, <1>2

\* The withdrawals are finitely many.
LEMMA WithdrawalsFinite ==
    ASSUME batches \in Seq(BatchesWith(0..ledger))
    PROVE  IsFiniteSet(Withdrawals) /\ Withdrawals \subseteq Slots
<1> DEFINE n == Len(batches)
           Of(b) == {[batch |-> b, wIndex |-> i - 1] : i \in DOMAIN batches[b].outbox}
           all == {Of(b) : b \in 1..n}
           of == [b \in 1..n |-> Of(b)]
<1>1. n \in Nat /\ DOMAIN batches = 1..n /\ \A b \in 1..n : batches[b].outbox \in Seq(Payees)
  BY BatchIs DEF n
<1> HIDE DEF n
<1>2. ASSUME NEW b \in 1..n PROVE IsFiniteSet(Of(b)) /\ Of(b) \subseteq Slots
  <2> DEFINE len == Len(batches[b].outbox)
             slot == [i \in 1..len |-> [batch |-> b, wIndex |-> i - 1]]
  <2>1. len \in Nat /\ DOMAIN batches[b].outbox = 1..len
    BY <1>1
  <2> HIDE DEF len
  <2>2. slot \in Surjection(1..len, Of(b))
    BY <2>1 DEF Surjection
  <2>3. IsFiniteSet(1..len)
    BY <2>1, FS_Interval
  <2>4. IsFiniteSet(Of(b))
    <3> HIDE DEF slot, Of
    <3> QED BY <2>2, <2>3, FS_Surjection
  <2>5. Of(b) \subseteq Slots
    BY <1>1, <2>1 DEF Slots
  <2> QED BY <2>4, <2>5
<1>3. IsFiniteSet(all)
  <2> HIDE DEF Of
  <2>1. of \in Surjection(1..n, all)
    BY DEF Surjection
  <2>2. IsFiniteSet(1..n)
    BY <1>1, FS_Interval
  <2> HIDE DEF of, all
  <2> QED BY <2>1, <2>2, FS_Surjection
<1>4. \A S \in all : IsFiniteSet(S) /\ S \subseteq Slots
  BY <1>2
<1>5. Withdrawals = UNION all
  BY <1>1 DEF Withdrawals
<1> HIDE DEF all
<1>6. IsFiniteSet(UNION all)
  BY <1>3, <1>4, FS_UNION
<1> QED BY <1>4, <1>5, <1>6

-----------------------------------------------------------------------------
(* Types *)

TodoDistinct == \A i, j \in DOMAIN todo : todo[i] = todo[j] => i = j

TypeInv == TypeOK /\ TodoDistinct

\* The parts of TypeInv that the claim changes, and those it does not.
L1Types ==
    /\ ledger \in 0..MaxLedger
    /\ created \in [Payees -> 0..ledger \cup {NoLedger}]
    /\ transfers \subseteq [batch : DOMAIN batches, wIndex : Nat, payee : Payees, ledger : 0..ledger]
    /\ inFlight \subseteq Withdrawals

BatchTypes ==
    batches \in Seq(BatchesWith(0..ledger))

RowTypes ==
    /\ DOMAIN offramp \subseteq Withdrawals
    /\ \A w \in DOMAIN offramp : offramp[w] \in {"claimed", "failed"}

TodoTypes == todo \in Seq(Due(batches)) /\ TodoDistinct

ProcessTypes ==
    /\ pc \in {"down", "idle", "invoke", "poll"}
    /\ pc \in {"invoke", "poll"} <=> todo # <<>>
    /\ pc = "poll" <=> polled # NoTx
    /\ serversLeft \in 1..Servers

LEMMA TypeInvParts ==
    TypeInv <=> L1Types /\ BatchTypes /\ RowTypes /\ TodoTypes /\ ProcessTypes
BY Zenon DEF TypeInv, TypeOK, L1Types, BatchTypes, RowTypes, TodoTypes, ProcessTypes, BatchesWith

LEMMA ConstantsAre ==
    /\ PerTick \in Nat \ {0} /\ Servers \in Nat \ {0} /\ MaxLedger \in Nat /\ MaxTree \in Nat
    /\ ChallengePeriod \in Nat /\ NoLedger \notin Nat
    /\ Outboxes \in Seq(Seq(Payees))
BY OfframpConfig

\* A transaction is not NoTx.
LEMMA PolledIsTx ==
    \A s \in {"NOT_FOUND", "SUCCESS", "FAILED"}, l \in Nat \cup {NoLedger} :
        [status |-> s, ledger |-> l] # NoTx
BY OfframpConfig

\* A withdrawal is one of the outbox of a batch.
LEMMA WithdrawalIs ==
    ASSUME BatchTypes, ledger \in Nat, NEW w \in Withdrawals
    PROVE  /\ w.batch \in DOMAIN batches /\ w.batch \in Nat
           /\ w.wIndex \in Nat /\ w.wIndex < Len(batches[w.batch].outbox)
           /\ w.wIndex + 1 \in DOMAIN batches[w.batch].outbox
           /\ batches[w.batch].outbox \in Seq(Payees)
           /\ PayeeOf(w) \in Payees
           /\ w = [batch |-> w.batch, wIndex |-> w.wIndex]
<1>1. PICK b \in DOMAIN batches : \E i \in DOMAIN batches[b].outbox : w = [batch |-> b, wIndex |-> i - 1]
  BY DEF Withdrawals
<1>2. PICK i \in DOMAIN batches[b].outbox : w = [batch |-> b, wIndex |-> i - 1]
  BY <1>1
<1>3. b \in Nat /\ batches[b].outbox \in Seq(Payees)
  BY BatchIs DEF BatchTypes
<1>4. i \in Nat /\ i >= 1 /\ i <= Len(batches[b].outbox) /\ Len(batches[b].outbox) \in Nat
      /\ batches[b].outbox[i] \in Payees
  BY <1>3
<1>5. w.batch = b /\ w.wIndex = i - 1 /\ i - 1 \in Nat /\ (i - 1) + 1 = i /\ i - 1 < Len(batches[b].outbox)
  BY <1>2, <1>4
<1>6. PayeeOf(w) = batches[b].outbox[i]
  BY <1>5 DEF PayeeOf
<1> QED BY <1>2, <1>3, <1>4, <1>5, <1>6

\* What is appended to the batches, or becomes final, leaves the outboxes.
OutboxesKept ==
    /\ DOMAIN batches \subseteq DOMAIN batches'
    /\ \A b \in DOMAIN batches : batches'[b].outbox = batches[b].outbox

LEMMA WithdrawalsKept ==
    ASSUME OutboxesKept
    PROVE  /\ Withdrawals \subseteq Withdrawals'
           /\ DOMAIN batches' = DOMAIN batches => Withdrawals' = Withdrawals
           /\ \A w : w.batch \in DOMAIN batches => PayeeOf(w)' = PayeeOf(w)
<1>1. Withdrawals \subseteq Withdrawals'
  BY DEF OutboxesKept, Withdrawals
<1>2. ASSUME DOMAIN batches' = DOMAIN batches PROVE Withdrawals' = Withdrawals
  BY <1>2 DEF OutboxesKept, Withdrawals
<1>3. \A w : w.batch \in DOMAIN batches => PayeeOf(w)' = PayeeOf(w)
  BY DEF OutboxesKept, PayeeOf
<1> QED BY <1>1, <1>2, <1>3

\* What each kind of step leaves as it is.
LEMMA L1Kept ==
    ASSUME L1Types, OutboxesKept, UNCHANGED l1
    PROVE  L1Types'
<1>1. ledger' = ledger /\ created' = created /\ transfers' = transfers /\ inFlight' = inFlight
  BY DEF l1
<1>2. inFlight' \subseteq Withdrawals'
  BY <1>1, WithdrawalsKept DEF L1Types
<1>3. transfers' \subseteq [batch : DOMAIN batches', wIndex : Nat, payee : Payees, ledger : 0..ledger']
  BY <1>1 DEF L1Types, OutboxesKept
<1> QED BY <1>1, <1>2, <1>3 DEF L1Types

LEMMA BatchesKept ==
    ASSUME BatchTypes, ledger \in Nat, ledger' \in {ledger, ledger + 1}, UNCHANGED batches
    PROVE  BatchTypes' /\ OutboxesKept
<1>1. 0..ledger \subseteq 0..ledger'
  OBVIOUS
<1>2. BatchesWith(0..ledger) \subseteq BatchesWith(0..ledger')
  BY <1>1 DEF BatchesWith
<1>3. batches' \in Seq(BatchesWith(0..ledger'))
  BY <1>2 DEF BatchTypes
<1> QED BY <1>3 DEF BatchTypes, OutboxesKept

LEMMA RowsKept ==
    ASSUME RowTypes, OutboxesKept, UNCHANGED offramp
    PROVE  RowTypes'
BY WithdrawalsKept DEF RowTypes

LEMMA TodoKept ==
    ASSUME TodoTypes, BatchTypes, ledger \in Nat, OutboxesKept, UNCHANGED <<offramp, todo>>,
           \A b \in DOMAIN batches : batches'[b].status = batches[b].status
    PROVE  TodoTypes'
<1>1. ASSUME NEW w \in Due(batches) PROVE w \in Due(batches)'
  <2>1. w \in Withdrawals /\ batches[w.batch].status = "finalized" /\ RowOf(w) \in {"none", "failed"}
    BY DEF Due
  <2>2. w.batch \in DOMAIN batches /\ w \in Withdrawals'
    BY <2>1, WithdrawalIs, WithdrawalsKept
  <2>3. RowOf(w)' = RowOf(w)
    BY DEF RowOf
  <2> QED BY <2>1, <2>2, <2>3 DEF Due
<1>2. todo' \in Seq(Due(batches)')
  BY <1>1 DEF TodoTypes
<1> QED BY <1>2 DEF TodoTypes, TodoDistinct

\* Nothing of the claim changes.
LEMMA ClaimKept ==
    ASSUME TypeInv, ledger' \in {ledger, ledger + 1}, UNCHANGED <<batches, offramp, todo>>
    PROVE  BatchTypes' /\ RowTypes' /\ TodoTypes' /\ OutboxesKept
<1>1. ledger \in Nat /\ BatchTypes /\ RowTypes /\ TodoTypes
  BY TypeInvParts, ConstantsAre DEF L1Types
<1>2. BatchTypes' /\ OutboxesKept
  BY <1>1, BatchesKept
<1> QED BY <1>1, <1>2, RowsKept, TodoKept

LEMMA TodoIs ==
    ASSUME TypeInv, todo # <<>>
    PROVE  /\ Head(todo) \in Due(batches) /\ Head(todo) \in Withdrawals
           /\ Tail(todo) \in Seq(Due(batches))
           /\ \A i \in DOMAIN Tail(todo) : Tail(todo)[i] # Head(todo)
           /\ \A i, j \in DOMAIN Tail(todo) : Tail(todo)[i] = Tail(todo)[j] => i = j
<1>1. todo \in Seq(Due(batches)) /\ \A i, j \in DOMAIN todo : todo[i] = todo[j] => i = j
  BY TypeInvParts DEF TodoTypes, TodoDistinct
<1>2. Head(todo) \in Due(batches) /\ Tail(todo) \in Seq(Due(batches))
  BY <1>1
<1>3. Head(todo) = todo[1] /\ 1 \in DOMAIN todo
  BY <1>1
<1>4. ASSUME NEW i \in DOMAIN Tail(todo)
      PROVE  Tail(todo)[i] = todo[i + 1] /\ i + 1 \in DOMAIN todo /\ i + 1 # 1 /\ i \in Int
  BY <1>1
<1>5. \A i \in DOMAIN Tail(todo) : Tail(todo)[i] # Head(todo)
  BY <1>1, <1>3, <1>4
<1>6. ASSUME NEW i \in DOMAIN Tail(todo), NEW j \in DOMAIN Tail(todo), Tail(todo)[i] = Tail(todo)[j]
      PROVE  i = j
  <2>1. i + 1 = j + 1
    BY <1>1, <1>4, <1>6
  <2> QED BY <1>4, <2>1
<1>7. Head(todo) \in Withdrawals
  BY <1>2 DEF Due
<1> QED BY <1>2, <1>5, <1>6, <1>7

\* Of the rows, RowDone changes one that is not among those left to do.
LEMMA RowDoneKeeps ==
    ASSUME TypeInv, todo # <<>>, NEW status \in {"claimed", "failed"}, RowDone(status),
           UNCHANGED <<ledger, batches>>
    PROVE  BatchTypes' /\ RowTypes' /\ TodoTypes' /\ ProcessTypes' /\ OutboxesKept
<1>0. /\ offramp' = [w \in DOMAIN offramp \cup {Head(todo)} |-> IF w = Head(todo) THEN status ELSE offramp[w]]
      /\ todo' = Tail(todo)
      /\ pc' = IF Tail(todo) = <<>> THEN "idle" ELSE "invoke"
      /\ polled' = NoTx
      /\ serversLeft' = Servers
  BY DEF RowDone
<1>1. ledger \in Nat /\ BatchTypes /\ RowTypes
  BY TypeInvParts, ConstantsAre DEF L1Types
<1>2. BatchTypes' /\ OutboxesKept
  BY <1>1, BatchesKept
<1>3. Withdrawals' = Withdrawals
  BY <1>2, WithdrawalsKept
<1>4. RowTypes'
  BY <1>0, <1>1, <1>3, TodoIs DEF RowTypes
<1>5. TodoTypes'
  <2>0. ASSUME NEW w \in Due(batches), w # Head(todo) PROVE w \in Due(batches)'
    <3>1. RowOf(w)' = RowOf(w)
      BY <1>0, <2>0 DEF RowOf
    <3> QED BY <1>3, <3>1 DEF Due
  <2>1. ASSUME NEW i \in DOMAIN Tail(todo) PROVE Tail(todo)[i] \in Due(batches)'
    <3>1. Tail(todo) \in Seq(Due(batches)) /\ Tail(todo)[i] # Head(todo)
      BY TodoIs
    <3>2. Tail(todo)[i] \in Due(batches)
      BY <3>1
    <3> QED BY <2>0, <3>1, <3>2
  <2>2. Tail(todo) \in Seq(Due(batches)')
    <3> DEFINE t == Tail(todo)
               D == Due(batches)
               E == Due(batches)'
    <3>1. t \in Seq(D) /\ \A i \in DOMAIN t : t[i] \in E
      BY <2>1, TodoIs
    <3> HIDE DEF t, D, E
    <3>2. t \in Seq(E)
      BY <3>1
    <3> QED BY <3>2 DEF t, E
  <2>3. TodoDistinct'
    BY <1>0, TodoIs DEF TodoDistinct
  <2> QED BY <1>0, <2>2, <2>3 DEF TodoTypes
<1>6. ProcessTypes'
  BY <1>0, ConstantsAre DEF ProcessTypes
<1> QED BY <1>2, <1>4, <1>5, <1>6

LEMMA InitTypes == Init => TypeInv
<1> SUFFICES ASSUME Init PROVE TypeInv
  OBVIOUS
<1>1. L1Types
  BY ConstantsAre DEF Init, L1Types, Withdrawals
<1>2. BatchTypes /\ RowTypes
  BY DEF Init, BatchTypes, RowTypes
<1>3. TodoTypes
  BY DEF Init, TodoTypes, TodoDistinct
<1>4. ProcessTypes
  BY ConstantsAre DEF Init, ProcessTypes
<1> QED BY <1>1, <1>2, <1>3, <1>4, TypeInvParts

\* A withdrawal that is paid to one of the payees makes a row of transfers.
LEMMA TransferType ==
    ASSUME TypeInv, NEW w \in Withdrawals, NEW payee \in Payees
    PROVE  Transfer(w, payee) \in [batch : DOMAIN batches, wIndex : Nat, payee : Payees, ledger : 0..ledger]
<1>1. BatchTypes /\ ledger \in Nat
  BY TypeInvParts, ConstantsAre DEF L1Types
<1>2. w.batch \in DOMAIN batches /\ w.wIndex \in Nat /\ ledger \in 0..ledger
  BY <1>1, WithdrawalIs
<1> QED BY <1>2 DEF Transfer

\* The steps of the L1, and of others.
LEMMA L1StepTypes ==
    ASSUME TypeInv,
           \/ CloseLedger
           \/ \E payee \in Payees : CreateAccount(payee)
           \/ \E w, of \in Withdrawals, payee \in Payees : OthersClaim(w, of, payee)
           \/ \E w \in inFlight : Include(w) \/ Drop(w)
    PROVE  TypeInv'
<1>1. L1Types /\ BatchTypes /\ ProcessTypes /\ ledger \in Nat /\ ledger \in 0..ledger
  BY TypeInvParts, ConstantsAre DEF L1Types
<1>2. UNCHANGED <<batches, offramp, todo>> /\ ledger' \in {ledger, ledger + 1}
  BY DEF CloseLedger, CreateAccount, OthersClaim, Include, Drop
<1>3. BatchTypes' /\ RowTypes' /\ TodoTypes' /\ OutboxesKept
  BY <1>2, ClaimKept
<1>4. Withdrawals' = Withdrawals
  BY <1>2, <1>3, WithdrawalsKept
<1>5. CASE CloseLedger
  <2>1. ledger' = ledger + 1 /\ ledger' \in 0..MaxLedger /\ 0..ledger \subseteq 0..ledger'
    BY <1>1, <1>5, ConstantsAre DEF CloseLedger
  <2>2. created' \in [Payees -> 0..ledger' \cup {NoLedger}]
    BY <1>1, <1>5, <2>1 DEF CloseLedger, L1Types
  <2>3. transfers' \subseteq [batch : DOMAIN batches', wIndex : Nat, payee : Payees, ledger : 0..ledger']
    BY <1>1, <1>2, <1>5, <2>1 DEF CloseLedger, L1Types
  <2>4. inFlight' \subseteq Withdrawals'
    BY <1>1, <1>4, <1>5 DEF CloseLedger, L1Types
  <2>5. ProcessTypes'
    BY <1>1, <1>5 DEF CloseLedger, ProcessTypes
  <2>6. L1Types'
    BY <2>1, <2>2, <2>3, <2>4 DEF L1Types
  <2> QED BY <1>3, <2>5, <2>6, TypeInvParts, PTL
<1>6. CASE \E payee \in Payees : CreateAccount(payee)
  <2>1. L1Types'
    BY <1>1, <1>2, <1>4, <1>6 DEF CreateAccount, L1Types
  <2>2. ProcessTypes'
    BY <1>1, <1>6 DEF CreateAccount, ProcessTypes
  <2> QED BY <1>3, <2>1, <2>2, TypeInvParts, PTL
<1>7. CASE \E w, of \in Withdrawals, payee \in Payees : OthersClaim(w, of, payee)
  <2>1. PICK w \in Withdrawals, of \in Withdrawals, payee \in Payees : OthersClaim(w, of, payee)
    BY <1>7
  <2>2. transfers' = transfers \cup {Transfer(w, payee)} /\ UNCHANGED <<ledger, created, inFlight, pc, polled, serversLeft>>
    BY <2>1 DEF OthersClaim
  <2>3. L1Types'
    BY <1>1, <1>2, <1>4, <2>2, TransferType DEF L1Types
  <2>4. ProcessTypes'
    BY <1>1, <1>2, <2>2 DEF ProcessTypes
  <2> QED BY <1>3, <2>3, <2>4, TypeInvParts, PTL
<1>8. CASE \E w \in inFlight : Include(w)
  <2>1. PICK w \in inFlight : Include(w)
    BY <1>8
  <2>2. w \in Withdrawals /\ PayeeOf(w) \in Payees
    BY <1>1, WithdrawalIs DEF L1Types
  <2>3. /\ inFlight' = inFlight \ {w} /\ UNCHANGED <<ledger, created, pc, serversLeft>>
        /\ transfers' \in {transfers, transfers \cup {Transfer(w, PayeeOf(w))}}
        /\ \/ polled' = polled
           \/ pc = "poll" /\ \E s \in {"SUCCESS", "FAILED"} : polled' = [status |-> s, ledger |-> ledger]
    BY <2>1 DEF Include
  <2>4. L1Types'
    BY <1>1, <1>2, <1>4, <2>2, <2>3, TransferType DEF L1Types
  <2>5. pc = "poll" <=> polled' # NoTx
    BY <1>1, <2>3, PolledIsTx DEF ProcessTypes
  <2>6. ProcessTypes'
    BY <1>1, <1>2, <2>3, <2>5 DEF ProcessTypes
  <2> QED BY <1>3, <2>4, <2>6, TypeInvParts, PTL
<1>9. CASE \E w \in inFlight : Drop(w)
  <2>1. L1Types'
    BY <1>1, <1>2, <1>4, <1>9 DEF Drop, L1Types
  <2>2. ProcessTypes'
    BY <1>1, <1>9 DEF Drop, ProcessTypes
  <2> QED BY <1>3, <2>1, <2>2, TypeInvParts, PTL
<1> QED BY <1>5, <1>6, <1>7, <1>8, <1>9

LEMMA PublishTypes ==
    ASSUME TypeInv, Publish
    PROVE  TypeInv' /\ OutboxesKept
<1> DEFINE b == Len(batches) + 1
           new == [outbox |-> Outboxes[b], commitLedger |-> ledger, status |-> "committed"]
<1>1. L1Types /\ BatchTypes /\ RowTypes /\ TodoTypes /\ ProcessTypes /\ ledger \in Nat /\ ledger \in 0..ledger
  BY TypeInvParts, ConstantsAre DEF L1Types
<1>2. batches' = Append(batches, new) /\ Len(batches) < Len(Outboxes)
      /\ UNCHANGED <<l1, offramp, pc, todo, polled, serversLeft>> /\ ledger' = ledger
  BY DEF Publish, l1
<1>3. Len(batches) \in Nat /\ DOMAIN batches = 1..Len(batches) /\ batches \in Seq(BatchesWith(0..ledger))
  BY <1>1, BatchIs DEF BatchTypes
<1>4. new \in BatchesWith(0..ledger)
  <2>1. Outboxes[b] \in Seq(Payees)
    <3>1. \A s \in Seq(Seq(Payees)) : Len(s) \in Nat /\ \A i \in 1..Len(s) : s[i] \in Seq(Payees)
      OBVIOUS
    <3>2. b \in 1..Len(Outboxes)
      BY <1>2, <1>3, <3>1, ConstantsAre
    <3> QED BY <3>1, <3>2, ConstantsAre
  <2> QED BY <1>1, <2>1 DEF BatchesWith
<1> HIDE DEF b, new
<1>5. /\ batches' \in Seq(BatchesWith(0..ledger)) /\ DOMAIN batches \subseteq DOMAIN batches'
      /\ \A i \in DOMAIN batches : batches'[i] = batches[i]
  BY <1>2, <1>3, <1>4
<1>6. OutboxesKept /\ \A i \in DOMAIN batches : batches'[i].status = batches[i].status
  BY <1>5 DEF OutboxesKept
<1>7. BatchTypes'
  BY <1>2, <1>5 DEF BatchTypes
<1>8. TodoTypes'
  BY <1>1, <1>2, <1>6, TodoKept
<1>9. L1Types' /\ RowTypes'
  BY <1>1, <1>2, <1>6, L1Kept, RowsKept
<1>10. ProcessTypes'
  BY <1>1, <1>2 DEF ProcessTypes
<1> QED BY <1>6, <1>7, <1>8, <1>9, <1>10, TypeInvParts, PTL

LEMMA FinalizeTypes ==
    ASSUME TypeInv, NEW latestLedger, batches' = Finalize(latestLedger), UNCHANGED ledger
    PROVE  BatchTypes' /\ OutboxesKept /\ DOMAIN batches' = DOMAIN batches
<1>1. BatchTypes
  BY TypeInvParts
<1>2. /\ Len(batches) \in Nat /\ DOMAIN batches = 1..Len(batches)
      /\ \A b \in DOMAIN batches : batches[b] \in BatchesWith(0..ledger)
  BY <1>1, BatchIs DEF BatchTypes
<1>3. /\ DOMAIN batches' = DOMAIN batches
      /\ \A b \in DOMAIN batches : batches'[b] \in {batches[b], [batches[b] EXCEPT !.status = "finalized"]}
      /\ batches' = [b \in DOMAIN batches |-> batches'[b]]
  BY DEF Finalize
<1>4. \A row \in BatchesWith(0..ledger) :
         /\ [row EXCEPT !.status = "finalized"] \in BatchesWith(0..ledger)
         /\ [row EXCEPT !.status = "finalized"].outbox = row.outbox
  BY DEF BatchesWith
<1>5. ASSUME NEW b \in DOMAIN batches
      PROVE  batches'[b] \in BatchesWith(0..ledger) /\ batches'[b].outbox = batches[b].outbox
  <2>1. batches[b] \in BatchesWith(0..ledger) /\ batches'[b] \in {batches[b], [batches[b] EXCEPT !.status = "finalized"]}
    BY <1>2, <1>3
  <2> QED BY <1>4, <2>1
<1>6. batches' \in Seq(BatchesWith(0..ledger))
  BY <1>2, <1>3, <1>5
<1> QED BY <1>3, <1>5, <1>6 DEF BatchTypes, OutboxesKept

LEMMA TickTypes ==
    ASSUME TypeInv, NEW latestLedger, Tick(latestLedger)
    PROVE  TypeInv' /\ OutboxesKept
<1> DEFINE rows == {w \in Withdrawals : batches'[w.batch].status = "finalized" /\ RowOf(w) \in {"none", "failed"}}
<1>1. L1Types /\ BatchTypes /\ RowTypes /\ TodoTypes /\ ProcessTypes
  BY TypeInvParts
<1>2. /\ batches' = Finalize(latestLedger) /\ todo' = FirstPerTick(rows)
      /\ pc = "idle" /\ pc' = IF todo' = <<>> THEN "idle" ELSE "invoke"
      /\ UNCHANGED <<l1, offramp, polled, serversLeft>> /\ ledger' = ledger
  BY DEF Tick, WithdrawalsToClaim, Due, l1
<1>3. BatchTypes' /\ OutboxesKept /\ DOMAIN batches' = DOMAIN batches
  BY <1>2, FinalizeTypes
<1>4. Withdrawals' = Withdrawals
  BY <1>3, WithdrawalsKept
<1>5. L1Types' /\ RowTypes'
  BY <1>1, <1>2, <1>3, L1Kept, RowsKept
<1>6. IsFiniteSet(rows) /\ rows \subseteq Slots
  <2>1. IsFiniteSet(Withdrawals) /\ Withdrawals \subseteq Slots
    BY <1>1, WithdrawalsFinite DEF BatchTypes
  <2>2. rows \in SUBSET Withdrawals
    OBVIOUS
  <2> HIDE DEF rows
  <2> QED BY <2>1, <2>2, FS_Subset
<1>7. rows = Due(batches)'
  <2>1. \A w : RowOf(w)' = RowOf(w)
    BY <1>2 DEF RowOf
  <2> QED BY <1>4, <2>1 DEF Due
<1> HIDE DEF rows
<1>8. todo' \in Seq(rows) /\ \A i, j \in DOMAIN todo' : todo'[i] = todo'[j] => i = j
  BY <1>2, <1>6, FirstPerTickIs
<1>9. TodoTypes'
  BY <1>7, <1>8 DEF TodoTypes, TodoDistinct
<1>10. ProcessTypes'
  BY <1>1, <1>2 DEF ProcessTypes
<1> QED BY <1>3, <1>5, <1>9, <1>10, TypeInvParts, PTL

\* The steps of an invocation, and of what it waits for.
LEMMA ClaimStepTypes ==
    ASSUME TypeInv, InvokeStep \/ PollStep
    PROVE  TypeInv' /\ UNCHANGED batches
<1>1. L1Types /\ BatchTypes /\ RowTypes /\ TodoTypes /\ ProcessTypes /\ ledger \in Nat
  BY TypeInvParts, ConstantsAre DEF L1Types
<1>2. UNCHANGED <<ledger, created, transfers, batches>> /\ pc \in {"invoke", "poll"}
  BY DEF InvokeStep, PollStep, Send, AlreadyPaid, ClaimRefused, EndpointFails, Confirm, ClaimFails, l1
<1>3. todo # <<>> /\ Head(todo) \in Withdrawals
  BY <1>1, <1>2, TodoIs DEF ProcessTypes
<1>4. OutboxesKept /\ Withdrawals' = Withdrawals
  BY <1>2, WithdrawalsKept DEF OutboxesKept
<1>5. L1Types'
  <2>1. inFlight' \subseteq inFlight \cup {Head(todo)}
    BY DEF InvokeStep, PollStep, Send, AlreadyPaid, ClaimRefused, EndpointFails, Confirm, ClaimFails, l1
  <2>2. inFlight' \subseteq Withdrawals'
    BY <1>1, <1>3, <1>4, <2>1 DEF L1Types
  <2>3. transfers' \subseteq [batch : DOMAIN batches', wIndex : Nat, payee : Payees, ledger : 0..ledger']
    BY <1>1, <1>2 DEF L1Types
  <2> QED BY <1>1, <1>2, <2>2, <2>3 DEF L1Types
<1>6. CASE RowDone("claimed") \/ RowDone("failed")
  <2>1. BatchTypes' /\ RowTypes' /\ TodoTypes' /\ ProcessTypes'
    BY <1>2, <1>3, <1>6, RowDoneKeeps
  <2>2. TypeInv'
    BY <1>5, <2>1, TypeInvParts, PTL
  <2> QED BY <1>2, <2>2
<1>7. CASE UNCHANGED <<offramp, todo>> /\ ProcessTypes'
  <2>1. BatchTypes' /\ RowTypes' /\ TodoTypes'
    BY <1>2, <1>7, ClaimKept
  <2>2. TypeInv'
    BY <1>5, <1>7, <2>1, TypeInvParts, PTL
  <2> QED BY <1>2, <2>2
<1>8. CASE \E seen \in 0..ledger : Send(seen)
  <2>1. /\ polled' = [status |-> "NOT_FOUND", ledger |-> NoLedger] /\ pc' = "poll"
        /\ UNCHANGED <<offramp, todo, serversLeft>>
    BY <1>8 DEF Send
  <2>2. polled' # NoTx
    BY <2>1, PolledIsTx
  <2>3. ProcessTypes'
    BY <1>1, <1>3, <2>1, <2>2 DEF ProcessTypes
  <2> QED BY <1>7, <2>1, <2>3
<1>9. CASE \E seen \in 0..ledger, sent \in BOOLEAN : EndpointFails(seen, sent)
  <2>1. \/ RowDone("failed")
        \/ /\ serversLeft > 1 /\ serversLeft' = serversLeft - 1 /\ pc = "invoke"
           /\ UNCHANGED <<offramp, todo, pc, polled>>
    BY <1>9 DEF EndpointFails
  <2>2. CASE RowDone("failed")
    BY <1>6, <2>2
  <2>3. CASE /\ serversLeft > 1 /\ serversLeft' = serversLeft - 1 /\ pc = "invoke"
             /\ UNCHANGED <<offramp, todo, pc, polled>>
    <3>1. serversLeft' \in 1..Servers
      BY <1>1, <2>3, ConstantsAre DEF ProcessTypes
    <3>2. ProcessTypes'
      BY <1>1, <2>3, <3>1 DEF ProcessTypes
    <3> QED BY <1>7, <2>3, <3>2
  <2> QED BY <2>1, <2>2, <2>3
<1>10. CASE \/ \E seen \in 0..ledger : AlreadyPaid(seen) \/ Confirm(seen)
            \/ ClaimRefused
            \/ ClaimFails
  BY <1>6, <1>10, Zenon DEF AlreadyPaid, FindsClaimed, Confirm, ClaimRefused, ClaimFails
<1> QED BY <1>2, <1>8, <1>9, <1>10 DEF InvokeStep, PollStep

LEMMA CrashTypes ==
    ASSUME TypeInv, Crash \/ Start \/ UNCHANGED vars
    PROVE  TypeInv' /\ UNCHANGED batches
<1>1. L1Types /\ BatchTypes /\ RowTypes /\ TodoTypes /\ ProcessTypes /\ ledger \in Nat
  BY TypeInvParts, ConstantsAre DEF L1Types
<1>2. UNCHANGED <<l1, ledger, batches, offramp>>
  BY DEF Crash, Start, vars, l1
<1>3. BatchTypes' /\ OutboxesKept
  BY <1>1, <1>2, BatchesKept
<1>4. L1Types' /\ RowTypes'
  BY <1>1, <1>2, <1>3, L1Kept, RowsKept
<1>5. TodoTypes'
  <2>1. CASE todo' = todo
    BY <1>1, <1>2, <1>3, <2>1, TodoKept
  <2>2. CASE todo' = <<>>
    BY <2>2 DEF TodoTypes, TodoDistinct
  <2> QED BY <2>1, <2>2 DEF Crash, Start, vars
<1>6. ProcessTypes'
  BY <1>1, ConstantsAre DEF Crash, Start, vars, ProcessTypes
<1>7. TypeInv'
  BY <1>3, <1>4, <1>5, <1>6, TypeInvParts, PTL
<1> QED BY <1>2, <1>7

\* The actions of Next, gathered as the lemmas above treat them.
LEMMA Steps ==
    ASSUME [Next]_vars
    PROVE  \/ CloseLedger
           \/ \E payee \in Payees : CreateAccount(payee)
           \/ \E w, of \in Withdrawals, payee \in Payees : OthersClaim(w, of, payee)
           \/ \E w \in inFlight : Include(w) \/ Drop(w)
           \/ Publish
           \/ \E latestLedger \in 0..ledger : Tick(latestLedger)
           \/ InvokeStep \/ PollStep
           \/ Crash \/ Start \/ UNCHANGED vars
BY DEF Next, ProcessStep

LEMMA StepTypes == TypeInv /\ [Next]_vars => TypeInv'
<1> SUFFICES ASSUME TypeInv, [Next]_vars PROVE TypeInv'
  OBVIOUS
<1> QED BY Steps, L1StepTypes, PublishTypes, TickTypes, ClaimStepTypes, CrashTypes

LEMMA SpecTypeInv == Spec => []TypeInv
BY InitTypes, StepTypes, PTL DEF Spec

\* The states of a claim and of the tables have their types: a phase of the claim
\* has what it needs, and what is left to do is due (operator.ts:221-262).
THEOREM SpecTypeOK == Spec => []TypeOK
<1>1. TypeInv => TypeOK
  BY DEF TypeInv
<1> QED BY <1>1, SpecTypeInv, PTL

-----------------------------------------------------------------------------
(* What is paid *)

LEMMA StepOutboxes ==
    ASSUME TypeInv, [Next]_vars
    PROVE  OutboxesKept
<1>1. UNCHANGED batches => OutboxesKept
  BY DEF OutboxesKept
<1>2. CASE \/ CloseLedger
           \/ \E payee \in Payees : CreateAccount(payee)
           \/ \E w, of \in Withdrawals, payee \in Payees : OthersClaim(w, of, payee)
           \/ \E w \in inFlight : Include(w) \/ Drop(w)
  BY <1>1, <1>2 DEF CloseLedger, CreateAccount, OthersClaim, Include, Drop
<1> QED BY <1>1, <1>2, Steps, PublishTypes, TickTypes, ClaimStepTypes, CrashTypes

\* The leaves of a batch are those of its withdrawals, in order.
LEMMA LeavesAre ==
    ASSUME NEW b, batches[b].outbox \in Seq(Payees)
    PROVE  /\ Len(Leaves(b)) = Len(batches[b].outbox)
           /\ \A i \in 1..Len(batches[b].outbox) : Leaves(b)[i] = WithdrawalLeaf(b, i - 1, batches[b].outbox[i])
<1> DEFINE outbox == batches[b].outbox
           n == Len(outbox)
           f == [i \in DOMAIN outbox |-> WithdrawalLeaf(b, i - 1, outbox[i])]
<1>1. n \in Nat /\ DOMAIN outbox = 1..n
  OBVIOUS
<1>2. Leaves(b) = f
  BY DEF Leaves
<1>3. DOMAIN f = 1..n /\ f = [i \in DOMAIN f |-> f[i]]
  BY <1>1
<1>4. \A i \in 1..n : f[i] = WithdrawalLeaf(b, i - 1, outbox[i])
  BY <1>1
<1> HIDE DEF n, f
<1>5. Len(f) = n
  BY <1>1, <1>3, LenOfFunction
<1> QED BY <1>2, <1>4, <1>5 DEF n

\* A leaf says all there is to a payment.
LEMMA LeafBinds ==
    \A b, i, payee, c, j, other :
        WithdrawalLeaf(b, i, payee) = WithdrawalLeaf(c, j, other) => b = c /\ i = j /\ payee = other
<1> SUFFICES ASSUME NEW b, NEW i, NEW payee, NEW c, NEW j, NEW other,
                    WithdrawalLeaf(b, i, payee) = WithdrawalLeaf(c, j, other)
             PROVE  b = c /\ i = j /\ payee = other
  OBVIOUS
<1> DEFINE x == [batch |-> b, wIndex |-> i, payee |-> payee]
           y == [batch |-> c, wIndex |-> j, payee |-> other]
<1>1. <<x>> = <<y>>
  BY DEF WithdrawalLeaf, Leaf
<1>2. x = y
  <2> HIDE DEF x, y
  <2>1. <<x>>[1] = x /\ <<y>>[1] = y
    OBVIOUS
  <2> QED BY <1>1, <2>1
<1>3. x.batch = b /\ x.wIndex = i /\ x.payee = payee /\ y.batch = c /\ y.wIndex = j /\ y.payee = other
  OBVIOUS
<1> HIDE DEF x, y
<1> QED BY <1>2, <1>3

\* What the contract accepts for a withdrawal, with any proof, is its own payee.
LEMMA AcceptedIsOwn ==
    ASSUME TypeInv, NEW w \in Withdrawals, NEW of \in Withdrawals, NEW payee, NEW seen,
           Accepts(w, payee, WithdrawalProof(of), seen)
    PROVE  payee = PayeeOf(w)
<1> DEFINE proof == WithdrawalProof(of)
           leaves == Leaves(w.batch)
           fields == [batch |-> w.batch, wIndex |-> w.wIndex, payee |-> payee]
           index == w.wIndex
<1>1. BatchTypes /\ ledger \in Nat
  BY TypeInvParts, ConstantsAre DEF L1Types
<1>2. /\ index \in Nat /\ index < Len(batches[w.batch].outbox) /\ batches[w.batch].outbox \in Seq(Payees)
      /\ Len(batches[w.batch].outbox) \in Nat
  BY <1>1, WithdrawalIs
<1>3. /\ Len(leaves) = Len(batches[w.batch].outbox)
      /\ \A i \in 1..Len(leaves) : leaves[i] = WithdrawalLeaf(w.batch, i - 1, batches[w.batch].outbox[i])
  BY <1>2, LeavesAre
<1>4. Len(proof) \in Nat
  <2>1. /\ batches[of.batch].outbox \in Seq(Payees) /\ of.wIndex \in Nat
        /\ Len(batches[of.batch].outbox) \in Nat /\ of.wIndex < Len(batches[of.batch].outbox)
    BY <1>1, WithdrawalIs
  <2>2. Len(Leaves(of.batch)) \in Nat /\ Len(Leaves(of.batch)) >= 1
    BY <2>1, LeavesAre
  <2>3. Len(proof) = Height(Len(Leaves(of.batch))) /\ Height(Len(Leaves(of.batch))) \in Nat
    BY <2>2, GetProofIs, HeightIsNat DEF WithdrawalProof
  <2> QED BY <2>3
<1>5. VerifyProof(Leaf(fields), index, proof, ComputeRoot(leaves))
  BY Zenon DEF Accepts, WithdrawalLeaf
<1>6. \A i \in 1..Len(leaves) : \E f : leaves[i] = Leaf(f)
  BY <1>3 DEF WithdrawalLeaf
<1>7. Len(leaves) \in Nat /\ Len(leaves) >= 1
  BY <1>2, <1>3
<1> HIDE DEF leaves, proof, fields
<1>8. index < Len(leaves) /\ leaves[index + 1] = Leaf(fields)
  BY <1>2, <1>4, <1>5, <1>6, <1>7, ProofsAreSound
<1>9. index + 1 \in 1..Len(leaves) /\ (index + 1) - 1 = index
  BY <1>2, <1>7, <1>8
<1>10. WithdrawalLeaf(w.batch, index, batches[w.batch].outbox[index + 1]) = WithdrawalLeaf(w.batch, index, payee)
  <2>1. leaves[index + 1] = WithdrawalLeaf(w.batch, index, batches[w.batch].outbox[index + 1])
    BY <1>3, <1>9
  <2>2. Leaf(fields) = WithdrawalLeaf(w.batch, index, payee)
    BY DEF WithdrawalLeaf, fields
  <2> QED BY <1>8, <2>1, <2>2
<1>11. batches[w.batch].outbox[index + 1] = payee
  BY <1>10, LeafBinds
<1> QED BY <1>11 DEF PayeeOf

\* A step pays nothing, or one withdrawal, to its payee.
LEMMA StepPays ==
    ASSUME TypeInv, [Next]_vars
    PROVE  \/ transfers' = transfers
           \/ /\ UNCHANGED batches
              /\ \E w \in Withdrawals : transfers' = transfers \cup {Transfer(w, PayeeOf(w))}
<1>1. CASE \E w, of \in Withdrawals, payee \in Payees : OthersClaim(w, of, payee)
  <2>1. PICK w \in Withdrawals, of \in Withdrawals, payee \in Payees : OthersClaim(w, of, payee)
    BY <1>1
  <2>2. Accepts(w, payee, WithdrawalProof(of), ledger) /\ transfers' = transfers \cup {Transfer(w, payee)}
        /\ UNCHANGED batches
    BY <2>1 DEF OthersClaim
  <2>3. payee = PayeeOf(w)
    BY <2>2, AcceptedIsOwn
  <2> QED BY <2>2, <2>3
<1>2. CASE \E w \in inFlight : Include(w)
  <2>1. PICK w \in inFlight : Include(w)
    BY <1>2
  <2>2. w \in Withdrawals
    BY TypeInvParts DEF L1Types
  <2> QED BY <2>1, <2>2 DEF Include
<1>3. CASE ~ \/ \E w, of \in Withdrawals, payee \in Payees : OthersClaim(w, of, payee)
             \/ \E w \in inFlight : Include(w)
  BY <1>3, Steps DEF CloseLedger, CreateAccount, Drop, Publish, Tick, InvokeStep, PollStep, Send,
                     AlreadyPaid, ClaimRefused, EndpointFails, Confirm, ClaimFails, Crash, Start, vars, l1
<1> QED BY <1>1, <1>2, <1>3

LEMMA StepPaid ==
    ASSUME TypeInv, PaidAsWithdrawn, [Next]_vars
    PROVE  PaidAsWithdrawn'
<1> DEFINE Slot(t) == [batch |-> t.batch, wIndex |-> t.wIndex]
<1>1. ASSUME NEW t \in transfers PROVE Slot(t) \in Withdrawals' /\ t.payee = PayeeOf(Slot(t))'
  <2>1. Slot(t) \in Withdrawals /\ t.payee = PayeeOf(Slot(t))
    BY DEF PaidAsWithdrawn
  <2>2. BatchTypes /\ ledger \in Nat
    BY TypeInvParts, ConstantsAre DEF L1Types
  <2>3. Slot(t).batch \in DOMAIN batches
    BY <2>1, <2>2, WithdrawalIs
  <2> QED BY <2>1, <2>3, StepOutboxes, WithdrawalsKept
<1>2. CASE transfers' = transfers
  BY <1>1, <1>2 DEF PaidAsWithdrawn
<1>3. CASE UNCHANGED batches /\ \E w \in Withdrawals : transfers' = transfers \cup {Transfer(w, PayeeOf(w))}
  <2>1. PICK w \in Withdrawals : transfers' = transfers \cup {Transfer(w, PayeeOf(w))}
    BY <1>3
  <2>2. w = Slot(Transfer(w, PayeeOf(w))) /\ Transfer(w, PayeeOf(w)).payee = PayeeOf(w)
    <3>1. BatchTypes /\ ledger \in Nat
      BY TypeInvParts, ConstantsAre DEF L1Types
    <3>2. w = [batch |-> w.batch, wIndex |-> w.wIndex]
      BY <3>1, WithdrawalIs
    <3> QED BY <3>2 DEF Transfer
  <2>3. w \in Withdrawals' /\ PayeeOf(w)' = PayeeOf(w)
    BY <1>3 DEF Withdrawals, PayeeOf
  <2>4. ASSUME NEW t \in transfers' PROVE Slot(t) \in Withdrawals' /\ t.payee = PayeeOf(Slot(t))'
    <3>1. CASE t \in transfers
      BY <1>1, <3>1
    <3>2. CASE t = Transfer(w, PayeeOf(w))
      BY <2>2, <2>3, <3>2
    <3> QED BY <2>1, <3>1, <3>2
  <2> QED BY <2>4 DEF PaidAsWithdrawn
<1> QED BY <1>2, <1>3, StepPays

\* Whatever is paid out of the vault was withdrawn, and is paid to the payee it
\* was withdrawn for, whoever calls withdraw and with whichever proof of the API
\* (lib.rs:470-510, 211-252).
THEOREM SpecPaidAsWithdrawn == Spec => []PaidAsWithdrawn
<1>1. Init => PaidAsWithdrawn
  BY DEF Init, PaidAsWithdrawn
<1>2. TypeInv /\ PaidAsWithdrawn /\ [Next]_vars => PaidAsWithdrawn'
  BY StepPaid
<1> QED BY <1>1, <1>2, SpecTypeInv, PTL DEF Spec

-----------------------------------------------------------------------------
(* What a row says *)

Paid(w) == \E t \in transfers : t.batch = w.batch /\ t.wIndex = w.wIndex /\ t.payee = PayeeOf(w)

\* What a claim knows: a transaction that succeeded has paid the withdrawal.
SuccessIsPaid == pc = "poll" /\ polled.status = "SUCCESS" => Paid(Head(todo))

\* What is paid stays paid.
LEMMA PaidKept ==
    ASSUME TypeInv, [Next]_vars, NEW w, Paid(w)
    PROVE  Paid(w)'
<1>1. PICK t \in transfers : t.batch = w.batch /\ t.wIndex = w.wIndex /\ t.payee = PayeeOf(w)
  BY DEF Paid
<1>2. t.batch \in DOMAIN batches
  BY <1>1, TypeInvParts DEF L1Types
<1>3. PayeeOf(w)' = PayeeOf(w)
  BY <1>1, <1>2, StepOutboxes, WithdrawalsKept
<1>4. t \in transfers'
  BY <1>1, StepPays
<1> QED BY <1>1, <1>3, <1>4 DEF Paid

\* A claimed flag is that of a payment to the payee.
LEMMA AlreadyClaimedIsPaid ==
    ASSUME PaidAsWithdrawn, NEW w, NEW seen, AlreadyClaimed(w, seen)
    PROVE  Paid(w)
<1>1. PICK t \in transfers : t.batch = w.batch /\ t.wIndex = w.wIndex
  BY DEF AlreadyClaimed
<1>2. t.payee = batches[t.batch].outbox[t.wIndex + 1]
  BY <1>1 DEF PaidAsWithdrawn, PayeeOf
<1> QED BY <1>1, <1>2 DEF Paid, PayeeOf

\* Rows change one at a time, and to claimed when the contract has paid.
LEMMA StepRows ==
    ASSUME [Next]_vars
    PROVE  \/ offramp' = offramp
           \/ RowDone("failed")
           \/ RowDone("claimed") /\ \/ \E seen \in 0..ledger : AlreadyClaimed(Head(todo), seen)
                                    \/ pc = "poll" /\ polled.status = "SUCCESS"
<1>1. CASE \E seen \in 0..ledger : AlreadyPaid(seen) \/ Confirm(seen)
  BY <1>1 DEF AlreadyPaid, FindsClaimed, Confirm
<1>2. CASE ~ \E seen \in 0..ledger : AlreadyPaid(seen) \/ Confirm(seen)
  BY <1>2, Steps DEF CloseLedger, CreateAccount, OthersClaim, Include, Drop, Publish, Tick, InvokeStep, PollStep,
                     Send, ClaimRefused, EndpointFails, ClaimFails, Crash, Start, vars, l1
<1> QED BY <1>1, <1>2

\* What is waited for changes when a transaction is sent or included, or the row done.
LEMMA StepPolled ==
    ASSUME [Next]_vars, pc' = "poll"
    PROVE  \/ UNCHANGED <<pc, todo, polled>>
           \/ polled' = [status |-> "NOT_FOUND", ledger |-> NoLedger]
           \/ \E w \in inFlight : Include(w)
<1>1. ~RowDone("failed") /\ ~RowDone("claimed")
  BY DEF RowDone
<1>2. CASE InvokeStep \/ PollStep
  BY <1>1, <1>2 DEF InvokeStep, PollStep, Send, AlreadyPaid, FindsClaimed, ClaimRefused, EndpointFails, Confirm, ClaimFails
<1>3. CASE ~(InvokeStep \/ PollStep)
  BY <1>3, Steps DEF CloseLedger, CreateAccount, OthersClaim, Drop, Publish, Tick, Crash, Start, vars, l1
<1> QED BY <1>2, <1>3

LEMMA StepClaimed ==
    ASSUME TypeInv, PaidAsWithdrawn, ClaimedIsPaid, SuccessIsPaid, [Next]_vars
    PROVE  ClaimedIsPaid' /\ SuccessIsPaid'
<1>1. ASSUME NEW w \in DOMAIN offramp', offramp'[w] = "claimed" PROVE Paid(w)
  <2>1. CASE w \in DOMAIN offramp /\ offramp[w] = "claimed"
    BY <2>1 DEF ClaimedIsPaid, Paid
  <2>2. CASE ~(w \in DOMAIN offramp /\ offramp[w] = "claimed")
    <3>1. w = Head(todo) /\ RowDone("claimed")
      <4>1. offramp' # offramp
        BY <1>1, <2>2
      <4>2. CASE RowDone("failed")
        BY <1>1, <2>2, <4>2 DEF RowDone
      <4>3. CASE RowDone("claimed")
        BY <1>1, <2>2, <4>3 DEF RowDone
      <4> QED BY <4>1, <4>2, <4>3, StepRows
    <3>2. \/ \E seen \in 0..ledger : AlreadyClaimed(w, seen)
          \/ pc = "poll" /\ polled.status = "SUCCESS"
      <4>1. ~RowDone("failed")
        BY <1>1, <2>2, <3>1 DEF RowDone
      <4> QED BY <1>1, <2>2, <3>1, <4>1, StepRows
    <3> QED BY <3>1, <3>2, AlreadyClaimedIsPaid DEF SuccessIsPaid
  <2> QED BY <2>1, <2>2
<1>2. \A w \in DOMAIN offramp' : offramp'[w] = "claimed" => Paid(w)'
  BY <1>1, PaidKept
<1>3. ClaimedIsPaid'
  BY <1>2 DEF ClaimedIsPaid, Paid
<1>4. ASSUME pc' = "poll", polled'.status = "SUCCESS" PROVE Paid(Head(todo))'
  <2>1. CASE UNCHANGED <<pc, todo, polled>>
    <3>1. PICK w : w = Head(todo)
      OBVIOUS
    <3>2. Paid(w)'
      BY <1>4, <2>1, <3>1, PaidKept DEF SuccessIsPaid
    <3> QED BY <2>1, <3>1, <3>2
  <2>2. CASE \E w \in inFlight : Include(w)
    <3>1. PICK w \in inFlight : Include(w)
      BY <2>2
    <3>2. UNCHANGED <<pc, todo>>
      BY <3>1 DEF Include
    <3>3. CASE pc = "poll" /\ Head(todo) = w
      <4>1. AcceptsOwn(w, ledger) /\ transfers' = transfers \cup {Transfer(w, PayeeOf(w))} /\ UNCHANGED batches
        BY <1>4, <3>1, <3>3 DEF Include
      <4>2. Transfer(w, PayeeOf(w)) \in transfers' /\ PayeeOf(w)' = PayeeOf(w)
        BY <4>1 DEF PayeeOf
      <4>3. Paid(w)'
        BY <4>2 DEF Paid, Transfer
      <4> QED BY <3>2, <3>3, <4>3
    <3>4. CASE ~(pc = "poll" /\ Head(todo) = w)
      <4>1. polled' = polled
        BY <3>1, <3>4 DEF Include
      <4> QED BY <2>1, <3>2, <4>1
    <3> QED BY <3>3, <3>4
  <2>3. polled' # [status |-> "NOT_FOUND", ledger |-> NoLedger]
    BY <1>4
  <2> QED BY <1>4, <2>1, <2>2, <2>3, StepPolled
<1> QED BY <1>3, <1>4 DEF SuccessIsPaid

\* A row says claimed only when the withdrawal was paid to its payee, by whichever
\* of the two: what a lost answer, an expired claim, a claim of somebody else or
\* an endpoint that is behind make the operator believe (operator.ts:239-262).
THEOREM SpecClaimedIsPaid == Spec => []ClaimedIsPaid
<1>1. Init => ClaimedIsPaid /\ SuccessIsPaid
  BY DEF Init, ClaimedIsPaid, SuccessIsPaid
<1>2. TypeInv /\ PaidAsWithdrawn /\ ClaimedIsPaid /\ SuccessIsPaid /\ [Next]_vars => ClaimedIsPaid' /\ SuccessIsPaid'
  BY StepClaimed
<1> QED BY <1>1, <1>2, SpecTypeInv, SpecPaidAsWithdrawn, PTL DEF Spec

-----------------------------------------------------------------------------
(* Proofs of the API in the contract *)

\* The statement of PathsVerify, of one tree.
LEMMA PathsOfTree ==
    ASSUME NEW n \in Nat, n >= 1, NEW payee
    PROVE  LET leaves == [i \in 1..n |-> WithdrawalLeaf(1, i - 1, payee)]
               root   == ComputeRoot(leaves)
           IN  \A i \in 1..n : \A proof \in {GetProof(leaves, i - 1)} :
                   \A k \in 1..n, index \in 0..(2 * n) :
                       VerifyProof(leaves[k], index, proof, root) <=> (k = i /\ index = i - 1)
<1> DEFINE leaves == [i \in 1..n |-> WithdrawalLeaf(1, i - 1, payee)]
           Fields(i) == [batch |-> 1, wIndex |-> i - 1, payee |-> payee]
<1>1. \A i \in 1..n : leaves[i] = Leaf(Fields(i)) /\ leaves[i] = WithdrawalLeaf(1, i - 1, payee)
  BY DEF WithdrawalLeaf
<1>2. DOMAIN leaves = 1..n /\ leaves = [i \in DOMAIN leaves |-> leaves[i]]
  OBVIOUS
<1> HIDE DEF leaves, Fields
<1>3. Len(leaves) = n
  BY <1>2, LenOfFunction
<1>4. \A i, j \in 1..n : leaves[i] = leaves[j] => i = j
  <2>1. ASSUME NEW i \in 1..n, NEW j \in 1..n, leaves[i] = leaves[j] PROVE i = j
    <3>1. i - 1 = j - 1
      BY <1>1, <2>1, LeafBinds
    <3> QED BY <3>1
  <2> QED BY <2>1
<1>5. ASSUME NEW i \in 1..n, NEW k \in 1..n, NEW index \in 0..(2 * n)
      PROVE  VerifyProof(leaves[k], index, GetProof(leaves, i - 1), ComputeRoot(leaves))
                 <=> (k = i /\ index = i - 1)
  <2>1. i - 1 \in Nat /\ i - 1 < n /\ (i - 1) + 1 = i /\ index \in Nat
    OBVIOUS
  <2>2. \A j \in 1..n : \E f : leaves[j] = Leaf(f)
    BY <1>1
  <2>3. VerifyProof(Leaf(Fields(k)), index, GetProof(leaves, i - 1), ComputeRoot(leaves))
            <=> index = i - 1 /\ leaves[(i - 1) + 1] = Leaf(Fields(k))
    BY <1>3, <1>4, <2>1, <2>2, ProofIsForOneLeaf
  <2>4. leaves[k] = Leaf(Fields(k)) /\ (leaves[i] = leaves[k] <=> k = i)
    BY <1>1, <1>4
  <2> QED BY <2>1, <2>3, <2>4
<1> QED BY <1>5 DEF leaves

\* In trees of any number of leaves, the proof of the API verifies in the contract
\* for its leaf at its index, and for nothing else (merkle.ts:75-85, lib.rs:231-252).
THEOREM SpecPathsVerify == Spec => PathsVerify
<1>1. batches = <<>> /\ batches' # <<>> =>
        \A n \in 1..MaxTree :
            LET leaves == [i \in 1..n |-> WithdrawalLeaf(1, i - 1, batches'[1].outbox[1])]
                root   == ComputeRoot(leaves)
            IN  \A i \in 1..n : \A proof \in {GetProof(leaves, i - 1)} :
                    \A k \in 1..n, index \in 0..(2 * n) :
                        VerifyProof(leaves[k], index, proof, root) <=> (k = i /\ index = i - 1)
  <2>1. MaxTree \in Nat
    BY ConstantsAre
  <2>2. \A n \in 1..MaxTree : n \in Nat /\ n >= 1
    BY <2>1
  <2> QED BY <2>2, PathsOfTree
<1> QED BY <1>1, PTL DEF PathsVerify
=============================================================================
