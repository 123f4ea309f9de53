-------------------------- MODULE SequencerProofs --------------------------
(***************************************************************************)
(* Theorems about Sequencer: for any requests, deposits, limits of a batch *)
(* and settings of ALLOWED_TOKENS, and wherever the process dies.          *)
(*                                                                         *)
(* The argument: a transaction enters the log only when it is valid after  *)
(* all those before it, so that the log replays from genesis without an    *)
(* error; the state in memory, a snapshot and the root of a batch are each *)
(* the result of a prefix of that one replay.                              *)
(* The rows of a batch in the outbox and the withdrawals in its data are   *)
(* in one-to-one correspondence, so a proof made later is one of the tree  *)
(* whose root was published; and a root of a state is that of no other.    *)
(***************************************************************************)
EXTENDS Sequencer, FlashStateProofs

\* The replay of the log, from which all else is read off.
Replay == ReplayFrom(EmptyState, log)

\* What the transaction used up is not valid any more in state s.
Spent(s, tx) ==
    IF tx.type = "deposit" THEN s.nextDepositIndex > tx.depositIndex
    ELSE Get(s, tx.from, tx.token).nonce > tx.nonce

LogInv ==
    /\ log \in Seq(Tx)
    /\ Len(log) <= MaxLog
    /\ \A i \in 0..Len(log) : Replay[i].ok /\ Replay[i].state.nextDepositIndex <= Len(L1Deposit)
    /\ \A k \in DOMAIN log : Spent(Replay[Len(log)].state, log[k])
    /\ depositRows \in [DOMAIN depositRows -> DOMAIN log]
    /\ ExecutedOnce

MemoryInv ==
    /\ phase \in {"down", "opening", "serving"}
    /\ allowedTokens \subseteq Token
    /\ replayed \in 0..Len(log)
    /\ phase = "down" => state = EmptyState
    /\ phase = "opening" => state = Replay[replayed].state
    /\ phase = "serving" => state = Replay[Len(log)].state
    /\ snapshot # NoSnapshot =>
          /\ snapshot.lastSeq \in 0..Len(log)
          /\ snapshot.state = Replay[snapshot.lastSeq].state

-----------------------------------------------------------------------------
(* The log *)

LEMMA TxFacts ==
    /\ Len(L1Deposit) \in Nat
    /\ \A tx \in Tx : tx \in L2Tx /\ (tx.type = "deposit" => tx.depositIndex + 1 <= Len(L1Deposit))
<1>1. /\ Request \subseteq {tx \in L2Tx : tx.type # "deposit"}
      /\ L1Deposit \in Seq(DepositEvent)
  BY SequencerConfig
<1>2. ASSUME NEW n \in DOMAIN L1Deposit
      PROVE  /\ DepositTx(n - 1) \in L2Tx
             /\ DepositTx(n - 1).type = "deposit" /\ DepositTx(n - 1).depositIndex + 1 <= Len(L1Deposit)
  <2>1. n \in 1..Len(L1Deposit) /\ n - 1 \in Nat /\ (n - 1) + 1 = n
    BY <1>1
  <2>2. L1Deposit[n] \in DepositEvent
    BY <1>1
  <2>3. DepositTx(n - 1) = [type |-> "deposit", depositIndex |-> n - 1,
            to |-> L1Deposit[n].l2Recipient, token |-> L1Deposit[n].token, amount |-> L1Deposit[n].amount]
    BY <2>1 DEF DepositTx
  <2>4. DepositTx(n - 1) \in [type : {"deposit"}, depositIndex : Nat, to : Account, token : Token, amount : Int]
    BY <2>1, <2>2, <2>3 DEF DepositEvent
  <2> QED BY <1>1, <2>1, <2>3, <2>4 DEF L2Tx
<1> QED BY <1>1, <1>2 DEF Tx

\* The log as a sequence of transactions, and its replay.
LEMMA LogFacts ==
    ASSUME LogInv
    PROVE  /\ log \in Seq(L2Tx) /\ Len(log) \in Nat /\ DOMAIN log = 1..Len(log)
           /\ \A k \in DOMAIN log : log[k] \in L2Tx
           /\ \A i \in 0..Len(log) : Replay[i].state \in States
           /\ Replay[0].state = EmptyState
           /\ \A i \in 1..Len(log) : /\ Valid(Replay[i - 1].state, Token, log[i])
                                     /\ Replay[i].state = Apply(Replay[i - 1].state, log[i])
<1>1. log \in Seq(L2Tx)
  BY TxFacts DEF LogInv
<1>2. Len(log) \in Nat /\ DOMAIN log = 1..Len(log) /\ \A k \in DOMAIN log : log[k] \in L2Tx
  BY <1>1
<1>3. Replay \in [0..Len(log) -> Replays] /\ Replay[0] = Start(EmptyState)
  BY <1>1, EmptyStateType, ReplayIsFold DEF Replay
<1>4. \A i \in 0..Len(log) : Replay[i].state \in States
  BY <1>3 DEF Replays
<1>5. Replay[0].state = EmptyState
  BY <1>3 DEF Start
<1>6. \A i \in 1..Len(log) : /\ Valid(Replay[i - 1].state, Token, log[i])
                             /\ Replay[i].state = Apply(Replay[i - 1].state, log[i])
  <2>1. \A i \in 1..Len(log) : ReplayFrom(EmptyState, log)[i].ok
    BY <1>2 DEF LogInv, Replay
  <2> QED BY <1>1, <2>1, EmptyStateType, ReplayStep DEF Replay
<1> QED BY <1>1, <1>2, <1>4, <1>5, <1>6

\* The state after a prefix of the log.
LEMMA StateAfterPrefix ==
    ASSUME LogInv, NEW i \in 0..Len(log)
    PROVE  StateAfter(SubSeq(log, 1, i)) = Replay[i].state
<1> DEFINE prefix == SubSeq(log, 1, i)
<1>1. /\ prefix \in Seq(L2Tx) /\ Len(prefix) = i /\ i \in Nat /\ i <= Len(log)
      /\ \A k \in 1..i : prefix[k] = log[k]
  BY LogFacts
<1> HIDE DEF prefix
<1>2. \A k \in 0..i : ReplayFrom(EmptyState, prefix)[k] = ReplayFrom(EmptyState, log)[k]
  <2>1. log \in Seq(L2Tx) /\ Len(log) \in Nat
    BY LogFacts
  <2> QED BY <1>1, <2>1, EmptyStateType, ReplayAgrees
<1>3. ReplayFrom(EmptyState, prefix)[i] = Replay[i]
  BY <1>1, <1>2 DEF Replay
<1> QED BY <1>1, <1>3 DEF StateAfter, prefix

-----------------------------------------------------------------------------
(* One transaction more *)

\* What is spent stays spent, and a transaction spends itself.
LEMMA SpentStays ==
    ASSUME NEW s \in States, NEW tx \in L2Tx, Valid(s, Token, tx), NEW old \in L2Tx
    PROVE  Spent(s, old) => Spent(Apply(s, tx), old)
<1>1. /\ s.nextDepositIndex \in Nat
      /\ Apply(s, tx).nextDepositIndex = s.nextDepositIndex + (IF tx.type = "deposit" THEN 1 ELSE 0)
  BY ApplyFacts, StateFacts
<1>2. CASE old.type = "deposit"
  <2>1. old.depositIndex \in Nat
    BY <1>2 DEF L2Tx
  <2> QED BY <1>1, <1>2, <2>1 DEF Spent
<1>3. CASE old.type # "deposit"
  <2>1. old.nonce \in Nat
    BY <1>3 DEF L2Tx
  <2>2. /\ Get(s, old.from, old.token).nonce \in Nat
        /\ Get(Apply(s, tx), old.from, old.token).nonce = Get(s, old.from, old.token).nonce
             + (IF tx.type # "deposit" /\ old.from = tx.from /\ old.token = tx.token THEN 1 ELSE 0)
    BY ApplyFacts, GetType
  <2> QED BY <1>3, <2>1, <2>2 DEF Spent
<1> QED BY <1>2, <1>3

LEMMA SpendsItself ==
    ASSUME NEW s \in States, NEW tx \in L2Tx, Valid(s, Token, tx)
    PROVE  Spent(Apply(s, tx), tx)
<1>1. CASE tx.type = "deposit"
  <2>1. tx.depositIndex = s.nextDepositIndex /\ s.nextDepositIndex \in Nat
    BY <1>1, StateFacts DEF Valid
  <2> QED BY <1>1, <2>1, ApplyFacts DEF Spent
<1>2. CASE tx.type # "deposit"
  <2>1. /\ tx.nonce = Get(s, tx.from, tx.token).nonce
        /\ Get(s, tx.from, tx.token).nonce \in Nat
        /\ Get(Apply(s, tx), tx.from, tx.token).nonce = Get(s, tx.from, tx.token).nonce + 1
    BY <1>2, ApplyFacts, GetType DEF Valid, NonceMatches
  <2> QED BY <1>2, <2>1 DEF Spent
<1> QED BY <1>1, <1>2

\* A transaction that is valid after the log keeps the log in order.
LEMMA LongerLog ==
    ASSUME LogInv, Len(log) < MaxLog, NEW tx \in Tx, Valid(Replay[Len(log)].state, Token, tx),
           PersistTx(tx)
    PROVE  /\ LogInv'
           /\ log' = Append(log, tx) /\ Len(log') = Len(log) + 1
           /\ \A i \in 0..Len(log) : Replay'[i] = Replay[i]
           /\ Replay'[Len(log)'].state = Apply(Replay[Len(log)].state, tx)
<1> DEFINE n == Len(log)
           s == Replay[n].state
<1>1. /\ log \in Seq(L2Tx) /\ n \in Nat /\ s \in States /\ n \in 0..n
      /\ \A k \in DOMAIN log : log[k] \in L2Tx
  BY LogFacts
<1>2. /\ tx \in L2Tx /\ Len(L1Deposit) \in Nat
      /\ tx.type = "deposit" => tx.depositIndex + 1 <= Len(L1Deposit)
  BY TxFacts
<1>3. /\ log' = Append(log, tx) /\ log' \in Seq(Tx) /\ Len(log') = n + 1
      /\ DOMAIN log = 1..n /\ DOMAIN log' = 1..(n + 1)
      /\ log'[n + 1] = tx /\ \A k \in 1..n : log'[k] = log[k]
  BY <1>1 DEF PersistTx, InsertTx, LogInv
<1>4. Replay' = ReplayFrom(EmptyState, log')
  BY DEF Replay
<1>5. /\ \A i \in 0..n : Replay'[i] = Replay[i]
      /\ Replay'[n + 1] = ReplayTx(Replay[n], tx)
  BY <1>1, <1>2, <1>3, <1>4, EmptyStateType, ReplayAppend DEF Replay
<1>6. Replay[n] \in Replays /\ Replay[n].ok
  BY <1>1, EmptyStateType, ReplayIsFold DEF Replay, LogInv
<1>7. Replay'[n + 1].ok /\ Replay'[n + 1].state = Apply(s, tx)
  BY <1>2, <1>5, <1>6, ReplayTxFacts
<1>8. \A i \in 0..Len(log') : Replay'[i].ok /\ Replay'[i].state.nextDepositIndex <= Len(L1Deposit)
  <2>1. Apply(s, tx).nextDepositIndex <= Len(L1Deposit)
    <3>1. CASE tx.type = "deposit"
      BY <1>1, <1>2, <3>1, ApplyFacts DEF Valid
    <3>2. CASE tx.type # "deposit"
      <4>1. s.nextDepositIndex <= Len(L1Deposit) /\ s.nextDepositIndex \in Nat
        BY <1>1, StateFacts DEF LogInv
      <4> QED BY <1>1, <1>2, <3>2, <4>1, ApplyFacts
    <3> QED BY <3>1, <3>2
  <2>2. ASSUME NEW i \in 0..(n + 1) PROVE Replay'[i].ok /\ Replay'[i].state.nextDepositIndex <= Len(L1Deposit)
    <3>1. CASE i = n + 1
      BY <1>7, <2>1, <3>1
    <3>2. CASE i # n + 1
      <4>1. i \in 0..n
        BY <1>1, <3>2
      <4> QED BY <1>5, <4>1 DEF LogInv
    <3> QED BY <3>1, <3>2
  <2> QED BY <1>3, <2>2
<1>9. \A k \in DOMAIN log' : Spent(Apply(s, tx), log'[k])
  <2>1. ASSUME NEW k \in 1..(n + 1) PROVE Spent(Apply(s, tx), log'[k])
    <3>1. CASE k = n + 1
      BY <1>1, <1>2, <1>3, <3>1, SpendsItself
    <3>2. CASE k # n + 1
      <4>1. k \in DOMAIN log /\ log'[k] = log[k] /\ log[k] \in L2Tx
        BY <1>1, <1>3, <3>2
      <4>2. Spent(s, log[k])
        BY <4>1 DEF LogInv
      <4> QED BY <1>1, <1>2, <4>1, <4>2, SpentStays
    <3> QED BY <3>1, <3>2
  <2> QED BY <1>3, <2>1
<1>10. /\ depositRows' \in [DOMAIN depositRows' -> DOMAIN log']
       /\ \A i \in DOMAIN depositRows : i \in DOMAIN depositRows' /\ depositRows'[i] = depositRows[i]
       /\ tx.type = "deposit" => tx.depositIndex \in DOMAIN depositRows' /\ depositRows'[tx.depositIndex] = n + 1
  <2>0. \A i \in DOMAIN depositRows : depositRows[i] \in DOMAIN log'
    BY <1>1, <1>3 DEF LogInv
  <2>1. CASE tx.type = "deposit"
    <3>1. /\ tx.depositIndex \notin DOMAIN depositRows
          /\ depositRows' = [i \in DOMAIN depositRows \cup {tx.depositIndex} |->
                                IF i = tx.depositIndex THEN n + 1 ELSE depositRows[i]]
      BY <1>3, <2>1 DEF PersistTx, InsertDeposit, LastSeq
    <3> QED BY <1>1, <1>3, <2>0, <3>1
  <2>2. CASE tx.type # "deposit"
    BY <2>0, <2>2 DEF PersistTx, LogInv
  <2> QED BY <2>1, <2>2
<1>11. ExecutedOnce'
  <2>1. ASSUME NEW k \in 1..(n + 1), log'[k].type = "deposit"
        PROVE  log'[k].depositIndex \in DOMAIN depositRows' /\ depositRows'[log'[k].depositIndex] = k
    <3>1. CASE k = n + 1
      BY <1>3, <1>10, <2>1, <3>1
    <3>2. CASE k # n + 1
      BY <1>1, <1>3, <1>10, <2>1, <3>2 DEF LogInv, ExecutedOnce
    <3> QED BY <3>1, <3>2
  <2>2. ASSUME NEW j \in 1..(n + 1), NEW k \in 1..(n + 1), j < k
        PROVE  /\ (log'[j].type # "deposit" /\ log'[k].type # "deposit"
                     /\ log'[j].from = log'[k].from /\ log'[j].token = log'[k].token)
                     => log'[j].nonce < log'[k].nonce
               /\ (log'[j].type = "deposit" /\ log'[k].type = "deposit")
                     => log'[j].depositIndex < log'[k].depositIndex
    <3>1. j \in DOMAIN log /\ log'[j] = log[j] /\ log[j] \in L2Tx /\ Spent(s, log[j])
      BY <1>1, <1>3, <2>2 DEF LogInv
    <3>2. CASE k = n + 1
      <4>1. log'[k] = tx
        BY <1>3, <3>2
      <4>2. CASE log[j].type # "deposit" /\ tx.type # "deposit"
        <5>1. /\ tx.nonce = Get(s, tx.from, tx.token).nonce
              /\ Get(s, log[j].from, log[j].token).nonce > log[j].nonce
              /\ Get(s, tx.from, tx.token).nonce \in Nat /\ log[j].nonce \in Nat
          BY <1>1, <3>1, <4>2, GetType DEF Valid, NonceMatches, Spent, L2Tx
        <5> QED BY <3>1, <4>1, <4>2, <5>1
      <4>3. CASE log[j].type = "deposit" /\ tx.type = "deposit"
        <5>1. /\ tx.depositIndex = s.nextDepositIndex /\ s.nextDepositIndex > log[j].depositIndex
              /\ log[j].depositIndex \in Nat /\ s.nextDepositIndex \in Nat
          BY <1>1, <3>1, <4>3, StateFacts DEF Valid, Spent, L2Tx
        <5> QED BY <3>1, <4>1, <4>3, <5>1
      <4> QED BY <3>1, <4>1, <4>2, <4>3
    <3>3. CASE k # n + 1
      <4>1. k \in DOMAIN log /\ log'[k] = log[k]
        BY <1>1, <1>3, <3>3
      <4> QED BY <2>2, <3>1, <4>1 DEF LogInv, ExecutedOnce
    <3> QED BY <3>2, <3>3
  <2> QED BY <1>3, <2>1, <2>2 DEF ExecutedOnce
<1>12. Len(log') <= MaxLog
  BY <1>1, <1>3, SequencerConfig
<1> HIDE DEF s
<1>13. LogInv'
  <2>1. \A k \in DOMAIN log' : Spent(Replay'[Len(log')].state, log'[k])
    BY <1>3, <1>7, <1>9
  <2> QED BY <1>3, <1>8, <1>10, <1>11, <1>12, <2>1 DEF LogInv
<1> QED BY <1>3, <1>5, <1>7, <1>13 DEF s

-----------------------------------------------------------------------------
(* The memory *)

\* Nothing of a state is lost in a snapshot.
LEMMA SnapshotIsState ==
    ASSUME NEW s \in States
    PROVE  Snapshot(s) = s
<1>1. PICK keys \in SUBSET (Account \X Token) : s.accounts \in [keys -> AccountState]
  BY DEF States
<1> DEFINE copy == [k \in DOMAIN s.accounts |->
                       [balance |-> s.accounts[k].balance, nonce |-> s.accounts[k].nonce]]
<1>2. copy = s.accounts
  BY <1>1 DEF AccountState
<1>3. Snapshot(s) = [nextDepositIndex |-> s.nextDepositIndex, accounts |-> copy]
  BY DEF Snapshot
<1> HIDE DEF copy
<1> QED BY <1>2, <1>3 DEF States

\* Without a new row nothing of the log changes.
LEMMA SameLog ==
    ASSUME LogInv, UNCHANGED <<log, depositRows>>
    PROVE  LogInv' /\ Replay' = Replay
<1>1. Replay' = Replay
  BY DEF Replay
<1> QED BY <1>1 DEF LogInv, ExecutedOnce

LEMMA DownMemory ==
    ASSUME MemoryInv, UNCHANGED log, Replay' = Replay, Down,
           UNCHANGED snapshot \/ (phase = "serving" /\ PutSnapshot(LastSeq, Snapshot(state))), LogInv
    PROVE  MemoryInv'
<1>1. Len(log) \in Nat /\ \A i \in 0..Len(log) : Replay[i].state \in States
  BY LogFacts
<1>2. CASE UNCHANGED snapshot
  BY <1>1, <1>2 DEF MemoryInv, Down
<1>3. CASE phase = "serving" /\ PutSnapshot(LastSeq, Snapshot(state))
  <2>1. snapshot' = [lastSeq |-> Len(log), state |-> Replay[Len(log)].state]
    BY <1>1, <1>3, SnapshotIsState DEF MemoryInv, PutSnapshot, LastSeq
  <2> QED BY <1>1, <2>1 DEF MemoryInv, Down
<1> QED BY <1>2, <1>3

\* record() after a transaction that memory has found valid.
LEMMA RecordStep ==
    ASSUME LogInv, MemoryInv, phase = "serving", Len(log) < MaxLog,
           NEW tx \in Tx, Valid(state, allowedTokens, tx), Record(tx)
    PROVE  LogInv' /\ MemoryInv'
<1> DEFINE n == Len(log)
<1>1. /\ n \in Nat /\ \A i \in 0..n : Replay[i].state \in States
      /\ state = Replay[n].state /\ allowedTokens \in SUBSET Token
  BY LogFacts DEF MemoryInv
<1>2. Valid(Replay[n].state, Token, tx)
  BY <1>1, ValidForAllTokens
<1>3. /\ LogInv' /\ Len(log') = n + 1
      /\ \A i \in 0..n : Replay'[i] = Replay[i]
      /\ Replay'[n + 1].state = Apply(state, tx)
  BY <1>1, <1>2, LongerLog DEF Record
<1>4. ASSUME UNCHANGED snapshot
      PROVE  snapshot' # NoSnapshot => /\ snapshot'.lastSeq \in 0..Len(log')
                                       /\ snapshot'.state = Replay'[snapshot'.lastSeq].state
  BY <1>1, <1>3, <1>4 DEF MemoryInv
<1>5. CASE /\ state' = Apply(state, tx)
           /\ PushPending(tx)
           /\ \E saved \in BOOLEAN : SaveSnapshot(saved /\ LastSeq' % SnapshotEvery = 0)
           /\ UNCHANGED <<phase, allowedTokens, replayed, lastBatchRoot>>
  <2>1. UNCHANGED snapshot \/ PutSnapshot(LastSeq', Snapshot(state'))
    BY <1>5 DEF SaveSnapshot
  <2>2. state' = Replay'[n + 1].state /\ state' \in States
    <3>1. state \in States /\ tx \in L2Tx
      BY <1>1, TxFacts
    <3> QED BY <1>1, <1>2, <1>3, <1>5, <3>1, ApplyFacts
  <2>3. snapshot' # NoSnapshot => /\ snapshot'.lastSeq \in 0..Len(log')
                                  /\ snapshot'.state = Replay'[snapshot'.lastSeq].state
    <3>1. CASE PutSnapshot(LastSeq', Snapshot(state'))
      <4>1. snapshot' = [lastSeq |-> n + 1, state |-> Replay'[n + 1].state]
        BY <1>3, <2>2, <3>1, SnapshotIsState DEF PutSnapshot, LastSeq
      <4> QED BY <1>1, <1>3, <4>1
    <3> QED BY <1>4, <2>1, <3>1
  <2> QED BY <1>1, <1>3, <1>5, <2>2, <2>3 DEF MemoryInv
<1>6. CASE Down /\ UNCHANGED snapshot
  BY <1>1, <1>3, <1>4, <1>6 DEF MemoryInv, Down
<1> QED BY <1>3, <1>5, <1>6 DEF Record

LEMMA MemoryInit == Init => LogInv /\ MemoryInv
<1> SUFFICES ASSUME Init PROVE LogInv /\ MemoryInv
  OBVIOUS
<1>1. /\ log = <<>> /\ Len(log) = 0 /\ DOMAIN log = {} /\ DOMAIN depositRows = {}
      /\ depositRows \in [{} -> {}]
  BY DEF Init, EmptyStore
<1>2. Replay[0] = Start(EmptyState) /\ log \in Seq(Tx)
  <2>1. log \in Seq(L2Tx) /\ log \in Seq(Tx)
    BY <1>1
  <2> QED BY <2>1, EmptyStateType, ReplayIsFold DEF Replay
<1>3. Replay[0].ok /\ Replay[0].state = EmptyState /\ EmptyState.nextDepositIndex = 0
  BY <1>2 DEF Start, EmptyState
<1>4. ExecutedOnce
  BY <1>1 DEF ExecutedOnce
<1>5. LogInv
  BY <1>1, <1>3, <1>4, TxFacts, SequencerConfig DEF LogInv
<1>6. MemoryInv
  BY <1>1 DEF MemoryInv, Init, EmptyStore
<1> QED BY <1>5, <1>6

LEMMA MemoryNext == LogInv /\ MemoryInv /\ [Next]_vars => LogInv' /\ MemoryInv'
<1> SUFFICES ASSUME LogInv, MemoryInv, [Next]_vars PROVE LogInv' /\ MemoryInv'
  OBVIOUS
<1>0. /\ Len(log) \in Nat /\ \A i \in 0..Len(log) : Replay[i].state \in States
      /\ Replay[0].state = EmptyState
      /\ \A i \in 1..Len(log) : /\ Valid(Replay[i - 1].state, Token, log[i])
                                /\ Replay[i].state = Apply(Replay[i - 1].state, log[i])
  BY LogFacts
<1>1. ASSUME NEW tokens \in AllowedTokenSets, Open(tokens) PROVE LogInv' /\ MemoryInv'
  <2>1. LogInv' /\ Replay' = Replay /\ UNCHANGED <<log, snapshot>>
    BY <1>1, SameLog DEF Open, dbVars
  <2>2. tokens \subseteq Token
    BY SequencerConfig
  <2>3. LoadSnapshot.lastSeq \in 0..Len(log) /\ LoadSnapshot.state = Replay[LoadSnapshot.lastSeq].state
    BY <1>0 DEF LoadSnapshot, MemoryInv
  <2>4. phase' = "opening" /\ allowedTokens' = tokens
        /\ state' = LoadSnapshot.state /\ replayed' = LoadSnapshot.lastSeq
    BY <1>1 DEF Open
  <2> QED BY <2>1, <2>2, <2>3, <2>4 DEF MemoryInv
<1>2. CASE ReplayRow
  <2>1. LogInv' /\ Replay' = Replay /\ UNCHANGED <<log, snapshot>>
    BY <1>2, SameLog DEF ReplayRow, dbVars
  <2>2. /\ state = Replay[replayed].state /\ replayed + 1 \in 1..Len(log) /\ (replayed + 1) - 1 = replayed
    BY <1>0, <1>2 DEF ReplayRow, MemoryInv, LastSeq
  <2>3. Replay[replayed + 1].state = Apply(state, log[replayed + 1])
    BY <1>0, <2>2
  <2>4. state' = Replay[replayed + 1].state /\ replayed' = replayed + 1 /\ phase = "opening"
        /\ UNCHANGED <<phase, allowedTokens>>
    BY <1>2, <2>3 DEF ReplayRow
  <2> QED BY <2>1, <2>2, <2>4 DEF MemoryInv
<1>3. CASE ReplayThrows
  BY <1>3, SameLog, DownMemory DEF ReplayThrows, dbVars
<1>4. CASE Opened
  <2>1. LogInv' /\ Replay' = Replay /\ UNCHANGED <<log, snapshot>>
    BY <1>4, SameLog DEF Opened, dbVars
  <2> QED BY <1>0, <1>4, <2>1 DEF MemoryInv, Opened, LastSeq
<1>5. ASSUME NEW tx \in Request, Submit(tx) PROVE LogInv' /\ MemoryInv'
  BY <1>5, RecordStep DEF Submit, Tx
<1>6. ASSUME NEW n \in DOMAIN L1Deposit, IngestDeposit(n - 1) PROVE LogInv' /\ MemoryInv'
  <2>1. DepositTx(n - 1) \in Tx
    BY DEF Tx
  <2> QED BY <1>6, <2>1, RecordStep DEF IngestDeposit
<1>7. CASE SealBatch
  <2>1. PICK taken, sealed : PersistBatch(taken, sealed) /\
           \/ /\ UNCHANGED <<phase, allowedTokens, state, replayed>>
              /\ \E saved \in BOOLEAN : SaveSnapshot(saved)
           \/ Down /\ UNCHANGED snapshot
    BY <1>7 DEF SealBatch
  <2>2. UNCHANGED <<log, depositRows>>
    BY <2>1 DEF PersistBatch
  <2>3. LogInv' /\ Replay' = Replay
    BY <2>2, SameLog
  <2>4. CASE Down /\ UNCHANGED snapshot
    BY <2>2, <2>3, <2>4, DownMemory
  <2>5. CASE /\ UNCHANGED <<phase, allowedTokens, state, replayed>>
             /\ \E saved \in BOOLEAN : SaveSnapshot(saved)
    <3>1. UNCHANGED snapshot \/ PutSnapshot(LastSeq', Snapshot(state'))
      BY <2>5 DEF SaveSnapshot
    <3>2. CASE UNCHANGED snapshot
      BY <2>2, <2>3, <2>5, <3>2 DEF MemoryInv
    <3>3. CASE PutSnapshot(LastSeq', Snapshot(state'))
      <4>1. state = Replay[Len(log)].state /\ phase = "serving"
        BY <1>7 DEF SealBatch, MemoryInv
      <4>2. snapshot' = [lastSeq |-> Len(log), state |-> Replay[Len(log)].state]
        BY <1>0, <2>2, <2>5, <3>3, <4>1, SnapshotIsState DEF PutSnapshot, LastSeq
      <4> QED BY <1>0, <2>2, <2>3, <2>5, <4>1, <4>2 DEF MemoryInv
    <3> QED BY <3>1, <3>2, <3>3
  <2> QED BY <2>1, <2>4, <2>5
<1>8. CASE Crash
  BY <1>8, SameLog, DownMemory DEF Crash, dbVars
<1>9. CASE Shutdown
  BY <1>9, SameLog, DownMemory DEF Shutdown
<1>10. CASE UNCHANGED vars
  <2>1. LogInv' /\ Replay' = Replay
    BY <1>10, SameLog DEF vars, dbVars
  <2> QED BY <1>10, <2>1 DEF MemoryInv, vars, dbVars, memVars
<1> QED BY <1>1, <1>2, <1>3, <1>4, <1>5, <1>6, <1>7, <1>8, <1>9, <1>10 DEF Next

-----------------------------------------------------------------------------
\* A signed payment runs once and a deposit is credited once and in order, for
\* any requests and deposits delivered in any order and number, whatever
\* snapshot the process resumed from (submit, ingestDeposit, record, open).
THEOREM SpecExecutedOnce == Spec => []ExecutedOnce
<1>1. LogInv => ExecutedOnce
  BY DEF LogInv
<1> QED BY <1>1, MemoryInit, MemoryNext, PTL DEF Spec

\* Memory, and every snapshot, is the replay of the log or of a prefix of it.
LEMMA MemoryFollows == LogInv /\ MemoryInv => MemoryIsReplayOfLog
<1> SUFFICES ASSUME LogInv, MemoryInv PROVE MemoryIsReplayOfLog
  OBVIOUS
<1>1. Len(log) \in Nat /\ StateAfter(log) = Replay[Len(log)].state
  BY LogFacts DEF StateAfter, Replay
<1>2. \A i \in 0..Len(log) : StateAfter(SubSeq(log, 1, i)) = Replay[i].state
  BY StateAfterPrefix
<1> QED BY <1>1, <1>2 DEF MemoryInv, MemoryIsReplayOfLog

\* The log is the source of truth: wherever the process dies and whichever
\* writes of the snapshot fail, what it serves from is the replay of the log.
THEOREM SpecMemoryIsReplayOfLog == Spec => []MemoryIsReplayOfLog
BY MemoryInit, MemoryNext, MemoryFollows, PTL DEF Spec

-----------------------------------------------------------------------------
(* What a batch takes *)

\* An entry of pending.
PendingTx == [seq : DOMAIN log, tx : Tx]

PendingInv ==
    /\ pending \in Seq(PendingTx)
    /\ \A i \in DOMAIN pending : pending[i].tx = log[pending[i].seq]

LEMMA TxType ==
    /\ \A tx \in Tx : tx.type \in {"deposit", "transfer", "withdraw"}
    /\ \A tx \in Tx : TxBytes[tx.type] \in Nat
BY TxFacts, SequencerConfig DEF L2Tx

LEMMA PendingFacts ==
    ASSUME PendingInv
    PROVE  /\ Len(pending) \in Nat /\ DOMAIN pending = 1..Len(pending)
           /\ \A i \in DOMAIN pending : /\ pending[i] \in PendingTx
                                        /\ pending[i].seq \in DOMAIN log
                                        /\ pending[i].tx \in Tx
                                        /\ pending[i].tx = log[pending[i].seq]
<1>1. Len(pending) \in Nat /\ DOMAIN pending = 1..Len(pending)
      /\ \A i \in DOMAIN pending : pending[i] \in PendingTx
  BY DEF PendingInv
<1> QED BY <1>1 DEF PendingTx, PendingInv

\* The size of a batch is a number.
LEMMA BatchBytesType ==
    ASSUME PendingInv, NEW count \in 0..Len(pending)
    PROVE  BatchBytes(count) \in Nat
<1> DEFINE size(i) == TxBytes[pending[i].tx.type]
           step == [x \in Nat \X (1..count) |-> x[1] + size(x[2])]
           sum == CHOOSE sum : sum = [i \in 0..count |-> IF i = 0 THEN 4 ELSE sum[i - 1] + size(i)]
<1>1. Len(pending) \in Nat /\ count \in Nat /\ \A i \in 1..count : size(i) \in Nat
  <2>1. \A i \in 1..Len(pending) : pending[i].tx \in Tx
    BY PendingFacts
  <2> QED BY <2>1, PendingFacts, TxType
<1> HIDE DEF size
<1>2. step \in [Nat \X (1..count) -> Nat]
  <2>1. ASSUME NEW x \in Nat \X (1..count) PROVE x[1] + size(x[2]) \in Nat
    <3>1. x[1] \in Nat /\ size(x[2]) \in Nat
      BY <1>1
    <3> QED BY <3>1
  <2> QED BY <2>1
<1>3. PICK f \in [0..count -> Nat] : Recursion(f, 4, count, step)
  <2> HIDE DEF step
  <2>1. 4 \in Nat
    OBVIOUS
  <2> QED BY <1>1, <1>2, <2>1, RecursionExists, Zenon
<1>4. f = [i \in 0..count |-> IF i = 0 THEN 4 ELSE f[i - 1] + size(i)]
  <2>1. ASSUME NEW i \in 0..count PROVE f[i] = IF i = 0 THEN 4 ELSE f[i - 1] + size(i)
    <3>1. CASE i = 0
      BY <1>3, <3>1 DEF Recursion
    <3>2. CASE i # 0
      <4>1. i \in 1..count /\ i - 1 \in 0..count
        BY <1>1, <3>2
      <4>2. <<f[i - 1], i>> \in Nat \X (1..count)
        BY <1>3, <4>1
      <4>3. f[i] = step[<<f[i - 1], i>>]
        BY <1>3, <4>1 DEF Recursion
      <4> QED BY <3>2, <4>2, <4>3
    <3> QED BY <3>1, <3>2
  <2> QED BY <1>3, <2>1
<1>5. sum = [i \in 0..count |-> IF i = 0 THEN 4 ELSE sum[i - 1] + size(i)]
  <2> HIDE DEF size
  <2> QED BY <1>4
<1>6. BatchBytes(count) = sum[count]
  BY DEF BatchBytes, size
<1> DEFINE T == {i \in 0..count : sum[i] \in Nat}
<1> HIDE DEF sum
<1>7. 0 \in T
  BY <1>1, <1>5
<1>8. ASSUME NEW k \in 0..(count - 1), k \in T PROVE k + 1 \in T
  <2>1. k + 1 \in 1..count /\ (k + 1) - 1 = k /\ k + 1 # 0
    BY <1>1
  <2>2. sum[k + 1] = sum[k] + size(k + 1)
    BY <1>5, <2>1
  <2> QED BY <1>1, <1>8, <2>1, <2>2
<1> HIDE DEF T
<1>9. \A k \in 0..count : k \in T
  BY <1>1, <1>7, <1>8, UpTo
<1> QED BY <1>1, <1>6, <1>9 DEF T

\* A batch takes at least one pending transaction, and no more than its caps.
LEMMA TakenCountType ==
    ASSUME PendingInv, pending # <<>>
    PROVE  TakenCount \in 1..Len(pending) /\ TakenCount <= MaxBatchTxs
<1> DEFINE cap == Smaller(Len(pending), MaxBatchTxs)
           ends == {count \in 1..cap : count = cap \/ BatchBytes(count + 1) > MaxBatchBytes}
<1>1. /\ Len(pending) \in Nat /\ Len(pending) # 0 /\ MaxBatchTxs \in Nat \ {0} /\ MaxBatchBytes \in Nat
      /\ cap \in 1..Len(pending) /\ cap <= MaxBatchTxs
  BY PendingFacts, SequencerConfig DEF Smaller, PendingInv
<1>2. \A count \in 0..Len(pending) : BatchBytes(count) \in Nat
  BY BatchBytesType
<1> HIDE DEF cap
<1>3. PICK least \in ends : \A count \in ends : least <= count
  <2>1. ends \subseteq Nat /\ cap \in ends
    BY <1>1
  <2> HIDE DEF ends
  <2> QED BY <2>1, Least
<1>4. least \in 1..cap /\ (least < cap => BatchBytes(least + 1) > MaxBatchBytes)
  BY <1>1, <1>3
<1>5. least = 1 \/ BatchBytes(least) <= MaxBatchBytes
  <2>1. CASE least # 1
    <3>1. least - 1 \in 1..cap /\ ~(least - 1 \in ends) /\ (least - 1) + 1 = least /\ least \in 0..Len(pending)
      BY <1>1, <1>3, <2>1
    <3>2. ~(BatchBytes(least) > MaxBatchBytes)
      BY <3>1
    <3> QED BY <1>1, <1>2, <3>1, <3>2
  <2> QED BY <2>1
<1>6. \E count \in 1..cap :
         /\ count = 1 \/ BatchBytes(count) <= MaxBatchBytes
         /\ count < cap => BatchBytes(count + 1) > MaxBatchBytes
  BY <1>4, <1>5
<1>7. TakenCount \in 1..cap
  BY <1>6 DEF TakenCount, cap
<1> QED BY <1>1, <1>7

-----------------------------------------------------------------------------
(* The outbox of a batch *)

\* The rows of the outbox after each transaction taken.
OutboxFold(rows, taken) ==
    /\ rows \in [0..Len(taken) -> Seq(PendingTx)]
    /\ rows[0] = <<>>
    /\ \A i \in 1..Len(taken) :
          rows[i] = IF taken[i].tx.type = "withdraw" THEN Append(rows[i - 1], taken[i]) ELSE rows[i - 1]
    /\ OutboxRows(taken) = rows[Len(taken)]

LEMMA OutboxIsFold ==
    ASSUME NEW taken \in Seq(PendingTx)
    PROVE  \E rows : OutboxFold(rows, taken)
<1> DEFINE n == Len(taken)
           R == Seq(PendingTx)
           next(before, i) == IF taken[i].tx.type = "withdraw" THEN Append(before, taken[i]) ELSE before
           step == [x \in R \X (1..n) |-> next(x[1], x[2])]
           rows == CHOOSE rows : rows = [i \in 0..n |-> IF i = 0 THEN <<>> ELSE next(rows[i - 1], i)]
<1>1. n \in Nat /\ <<>> \in R /\ \A before \in R, i \in 1..n : next(before, i) \in R
  <2>1. ASSUME NEW before \in R, NEW i \in 1..n PROVE next(before, i) \in R
    <3>1. taken[i] \in PendingTx
      OBVIOUS
    <3>2. Append(before, taken[i]) \in R
      BY <3>1
    <3> QED BY <3>2
  <2> QED BY <2>1
<1>2. OutboxRows(taken) = rows[n]
  <2>1. rows = CHOOSE r : r = [i \in 0..n |->
            IF i = 0 THEN <<>>
            ELSE IF taken[i].tx.type = "withdraw" THEN Append(r[i - 1], taken[i])
            ELSE r[i - 1]]
    BY Zenon
  <2> HIDE DEF rows
  <2> QED BY <2>1 DEF OutboxRows
<1> HIDE DEF R, next
<1>3. step \in [R \X (1..n) -> R]
  <2>1. ASSUME NEW x \in R \X (1..n) PROVE next(x[1], x[2]) \in R
    <3>1. x[1] \in R /\ x[2] \in 1..n
      BY <1>1
    <3> QED BY <1>1, <3>1
  <2> QED BY <2>1
<1>4. PICK f \in [0..n -> R] : Recursion(f, <<>>, n, step)
  <2> HIDE DEF step, n
  <2> QED BY <1>1, <1>3, RecursionExists, Zenon
<1>5. f = [i \in 0..n |-> IF i = 0 THEN <<>> ELSE next(f[i - 1], i)]
  <2>1. ASSUME NEW i \in 0..n PROVE f[i] = IF i = 0 THEN <<>> ELSE next(f[i - 1], i)
    <3>1. CASE i = 0
      BY <1>4, <3>1 DEF Recursion
    <3>2. CASE i # 0
      <4>1. i \in 1..n /\ i - 1 \in 0..n
        BY <1>1, <3>2
      <4>2. <<f[i - 1], i>> \in R \X (1..n)
        BY <1>4, <4>1
      <4>3. f[i] = step[<<f[i - 1], i>>]
        BY <1>4, <4>1 DEF Recursion
      <4> QED BY <3>2, <4>2, <4>3
    <3> QED BY <3>1, <3>2
  <2> QED BY <1>4, <2>1
<1>6. rows = [i \in 0..n |-> IF i = 0 THEN <<>> ELSE next(rows[i - 1], i)]
  BY <1>5
<1> DEFINE T == {i \in 0..n : rows[i] \in R}
<1> HIDE DEF rows
<1>7. 0 \in T
  BY <1>1, <1>6
<1>8. ASSUME NEW k \in 0..(n - 1), k \in T PROVE k + 1 \in T
  <2>1. k + 1 \in 1..n /\ (k + 1) - 1 = k /\ k + 1 # 0
    BY <1>1
  <2>2. rows[k + 1] = next(rows[k], k + 1)
    BY <1>6, <2>1
  <2> QED BY <1>1, <1>8, <2>1, <2>2
<1> HIDE DEF T
<1>9. \A k \in 0..n : k \in T
  BY <1>1, <1>7, <1>8, UpTo
<1>10. \A k \in 0..n : rows[k] \in R
  BY <1>9 DEF T
<1>11. rows \in [0..n -> R]
  BY <1>6, <1>10
<1>12. rows[0] = <<>> /\ \A i \in 1..n : rows[i] = next(rows[i - 1], i)
  BY <1>1, <1>6
<1>13. OutboxFold(rows, taken)
  BY <1>2, <1>11, <1>12 DEF OutboxFold, R, next
<1> QED BY <1>13

\* The rows are withdraws of the batch.
LEMMA OutboxRowsType ==
    ASSUME NEW taken \in Seq(PendingTx)
    PROVE  /\ OutboxRows(taken) \in Seq(PendingTx)
           /\ Len(OutboxRows(taken)) <= Len(taken)
           /\ \A w \in DOMAIN OutboxRows(taken) :
                 /\ OutboxRows(taken)[w].tx.type = "withdraw"
                 /\ \E i \in DOMAIN taken : OutboxRows(taken)[w] = taken[i]
<1>1. PICK rows : OutboxFold(rows, taken)
  BY OutboxIsFold
<1> DEFINE n == Len(taken)
           Good(i) == /\ Len(rows[i]) <= i
                      /\ \A w \in DOMAIN rows[i] : /\ rows[i][w].tx.type = "withdraw"
                                                   /\ \E j \in DOMAIN taken : rows[i][w] = taken[j]
           T == {i \in 0..n : Good(i)}
<1>2. n \in Nat /\ DOMAIN taken = 1..n
  OBVIOUS
<1>3. 0 \in T
  BY <1>1, <1>2 DEF OutboxFold
<1>4. ASSUME NEW k \in 0..(n - 1), k \in T PROVE k + 1 \in T
  <2>1. k + 1 \in 1..n /\ (k + 1) - 1 = k /\ k \in 0..n /\ k + 1 \in 0..n
    BY <1>2
  <2>2. /\ rows[k] \in Seq(PendingTx)
        /\ rows[k + 1] = IF taken[k + 1].tx.type = "withdraw" THEN Append(rows[k], taken[k + 1]) ELSE rows[k]
    <3>1. \A i \in 1..n : rows[i] = IF taken[i].tx.type = "withdraw"
                                    THEN Append(rows[i - 1], taken[i]) ELSE rows[i - 1]
      BY <1>1 DEF OutboxFold
    <3> QED BY <1>1, <2>1, <3>1 DEF OutboxFold
  <2>3. Good(k)
    BY <1>4
  <2>4. CASE taken[k + 1].tx.type = "withdraw"
    <3> DEFINE m == Len(rows[k])
    <3>1. /\ m \in Nat /\ m <= k /\ Len(rows[k + 1]) = m + 1 /\ DOMAIN rows[k + 1] = 1..(m + 1)
          /\ rows[k + 1][m + 1] = taken[k + 1]
          /\ \A w \in 1..m : w \in DOMAIN rows[k] /\ rows[k + 1][w] = rows[k][w]
      BY <2>2, <2>3, <2>4
    <3>2. ASSUME NEW w \in DOMAIN rows[k + 1]
          PROVE  /\ rows[k + 1][w].tx.type = "withdraw"
                 /\ \E j \in DOMAIN taken : rows[k + 1][w] = taken[j]
      <4>1. CASE w = m + 1
        BY <1>2, <2>1, <2>4, <3>1, <4>1
      <4>2. CASE w # m + 1
        <5>1. w \in 1..m
          BY <3>1, <4>2
        <5> QED BY <2>3, <3>1, <5>1
      <4> QED BY <4>1, <4>2
    <3> QED BY <2>1, <3>1, <3>2
  <2>5. CASE taken[k + 1].tx.type # "withdraw"
    <3>1. rows[k + 1] = rows[k] /\ Len(rows[k]) <= k + 1
      BY <2>1, <2>2, <2>3, <2>5
    <3> QED BY <2>1, <2>3, <3>1
  <2> QED BY <2>4, <2>5
<1> HIDE DEF T
<1>5. \A k \in 0..n : k \in T
  BY <1>2, <1>3, <1>4, UpTo
<1>6. Good(n)
  BY <1>2, <1>5 DEF T
<1> QED BY <1>1, <1>2, <1>6 DEF OutboxFold

-----------------------------------------------------------------------------
(* The types of the store *)

StoreInv ==
    /\ batchOf \in [DOMAIN log -> 0..Len(batches)]
    /\ batches \in Seq(BatchRecord)
    /\ DOMAIN outbox \subseteq DOMAIN log
    /\ \A k \in DOMAIN outbox : outbox[k] \in WithdrawalRecord
    /\ lastBatchRoot \in SUBSET StateLeaves

LEMMA BatchFacts ==
    ASSUME LogInv, StoreInv
    PROVE  /\ Len(batches) \in Nat /\ DOMAIN batches = 1..Len(batches)
           /\ \A j \in DOMAIN batches : /\ batches[j].newStateRoot \in SUBSET StateLeaves
                                        /\ batches[j].firstSeq \in 1..Len(log)
                                        /\ batches[j].lastSeq \in 1..Len(log)
                                        /\ batches[j].txData \in Seq(Tx)
           /\ LastBatchedSeq \in 0..Len(log)
           /\ batches # <<>> => Len(batches) \in DOMAIN batches
<1>1. /\ Len(batches) \in Nat /\ DOMAIN batches = 1..Len(batches)
      /\ \A j \in DOMAIN batches : batches[j] \in BatchRecord
      /\ batches # <<>> => Len(batches) \in DOMAIN batches
  BY DEF StoreInv
<1>2. \A j \in DOMAIN batches : /\ batches[j].newStateRoot \in SUBSET StateLeaves
                                /\ batches[j].firstSeq \in 1..Len(log)
                                /\ batches[j].lastSeq \in 1..Len(log)
                                /\ batches[j].txData \in Seq(Tx)
  BY <1>1 DEF BatchRecord, StateLeaves, LastSeq
<1>3. Len(log) \in Nat
  BY LogFacts
<1> QED BY <1>1, <1>2, <1>3 DEF LastBatchedSeq, LastBatch

\* What fits a record of the table fits it when the table or the log is longer.
LEMMA RecordsStay ==
    ASSUME LogInv, StoreInv, PendingInv,
           Len(log) <= Len(log'), Len(log') \in Nat, DOMAIN log' = 1..Len(log'),
           Len(batches) <= Len(batches'), Len(batches') \in Nat, DOMAIN batches' = 1..Len(batches')
    PROVE  /\ batches \in Seq(BatchRecord')
           /\ pending \in Seq(PendingTx')
           /\ \A k \in DOMAIN outbox : outbox[k] \in WithdrawalRecord'
<1>1. /\ Len(log) \in Nat /\ Len(batches) \in Nat /\ DOMAIN log = 1..Len(log)
      /\ DOMAIN batches = 1..Len(batches)
  BY LogFacts, BatchFacts
<1>2. BatchRecord \subseteq BatchRecord'
  <2>1. /\ 1..(Len(batches) + 1) \subseteq 1..(Len(batches') + 1)
        /\ 1..Len(log) \subseteq 1..Len(log')
    BY <1>1
  <2> QED BY <2>1 DEF BatchRecord, LastSeq
<1>3. PendingTx \subseteq PendingTx' /\ WithdrawalRecord \subseteq WithdrawalRecord'
  BY <1>1 DEF PendingTx, WithdrawalRecord
<1>4. Seq(BatchRecord) \subseteq Seq(BatchRecord') /\ Seq(PendingTx) \subseteq Seq(PendingTx')
  <2>1. \A S, T : S \subseteq T => Seq(S) \subseteq Seq(T)
    OBVIOUS
  <2> QED BY <1>2, <1>3, <2>1
<1> QED BY <1>3, <1>4 DEF StoreInv, PendingInv

-----------------------------------------------------------------------------
(* The batch that is sealed *)

LEMMA SealFacts ==
    ASSUME LogInv, MemoryInv, PendingInv, phase = "serving", pending # <<>>,
           NEW taken, taken = SubSeq(pending, 1, TakenCount)
    PROVE  /\ taken \in Seq(PendingTx) /\ Len(taken) = TakenCount /\ DOMAIN taken = 1..Len(taken)
           /\ Len(taken) \in 1..Len(pending) /\ Len(taken) \in 1..MaxBatchTxs
           /\ \A i \in 1..Len(taken) : /\ taken[i] = pending[i]
                                       /\ taken[i].seq \in 1..Len(log)
                                       /\ taken[i].tx = log[taken[i].seq] /\ taken[i].tx \in Tx
           /\ SealedState(taken) = Replay[IF Len(taken) = Len(pending) THEN Len(log)
                                          ELSE taken[Len(taken)].seq].state
           /\ SealedState(taken) \in States
           /\ SealedState(taken).nextDepositIndex \in 0..Len(L1Deposit)
<1>1. TakenCount \in 1..Len(pending) /\ TakenCount <= MaxBatchTxs /\ pending \in Seq(PendingTx)
      /\ Len(pending) \in Nat /\ MaxBatchTxs \in Nat
  BY TakenCountType, PendingFacts, SequencerConfig DEF PendingInv
<1>2. /\ taken \in Seq(PendingTx) /\ Len(taken) = TakenCount /\ DOMAIN taken = 1..Len(taken)
      /\ \A i \in 1..Len(taken) : taken[i] = pending[i]
  BY <1>1
<1>3. Len(taken) \in 1..Len(pending) /\ Len(taken) \in 1..MaxBatchTxs
  BY <1>1, <1>2
<1>4. \A i \in 1..Len(taken) : /\ taken[i].seq \in 1..Len(log)
                               /\ taken[i].tx = log[taken[i].seq] /\ taken[i].tx \in Tx
  <2>1. \A i \in 1..Len(taken) : i \in DOMAIN pending
    BY <1>1, <1>3, PendingFacts
  <2> QED BY <1>2, <2>1, PendingFacts, LogFacts
<1> DEFINE k == IF Len(taken) = Len(pending) THEN Len(log) ELSE taken[Len(taken)].seq
<1>5. k \in 0..Len(log) /\ taken[Len(taken)].seq \in 0..Len(log)
  <2>1. Len(log) \in Nat
    BY LogFacts
  <2>2. Len(taken) \in 1..Len(taken)
    BY <1>1, <1>3
  <2>3. taken[Len(taken)].seq \in 1..Len(log)
    BY <1>4, <2>2
  <2>4. Len(log) \in 0..Len(log) /\ taken[Len(taken)].seq \in 0..Len(log)
    <3>1. \A n \in Nat : \A m \in 1..n : n \in 0..n /\ m \in 0..n
      OBVIOUS
    <3> HIDE DEF k
    <3> QED BY <2>1, <2>3, <3>1, Zenon
  <2> QED BY <2>4
<1>6. SealedState(taken) = Replay[k].state
  <2>1. CASE Len(taken) = Len(pending)
    BY <2>1 DEF SealedState, MemoryInv
  <2>2. CASE Len(taken) # Len(pending)
    <3>1. StateAfter(SubSeq(log, 1, taken[Len(taken)].seq)) = Replay[taken[Len(taken)].seq].state
      BY <1>5, StateAfterPrefix
    <3> QED BY <2>2, <3>1 DEF SealedState
  <2> QED BY <2>1, <2>2
<1>7. Replay[k].state \in States /\ Replay[k].state.nextDepositIndex <= Len(L1Deposit)
  BY <1>5, LogFacts DEF LogInv
<1>8. SealedState(taken).nextDepositIndex \in 0..Len(L1Deposit)
  <2> HIDE DEF k
  <2>1. SealedState(taken).nextDepositIndex \in Nat
    BY <1>6, <1>7, StateFacts
  <2> QED BY <1>6, <1>7, <2>1, TxFacts
<1> QED BY <1>2, <1>3, <1>4, <1>6, <1>7, <1>8

LEMMA OutboxLeavesType ==
    ASSUME LogInv, NEW taken \in Seq(PendingTx),
           \A i \in 1..Len(taken) : taken[i].seq \in 1..Len(log) /\ taken[i].tx = log[taken[i].seq]
    PROVE  [w \in DOMAIN OutboxRows(taken) |-> WithdrawalOf(OutboxRows(taken)[w].tx)] \in Seq(Withdrawals)
<1> DEFINE rows == OutboxRows(taken)
<1>1. /\ rows \in Seq(PendingTx)
      /\ \A w \in DOMAIN rows : /\ rows[w].tx.type = "withdraw"
                                /\ \E i \in DOMAIN taken : rows[w] = taken[i]
  BY OutboxRowsType
<1> HIDE DEF rows
<1>2. ASSUME NEW w \in DOMAIN rows PROVE WithdrawalOf(rows[w].tx) \in Withdrawals
  <2>1. PICK i \in DOMAIN taken : rows[w] = taken[i]
    BY <1>1
  <2>2. taken[i].seq \in 1..Len(log) /\ rows[w].tx = log[taken[i].seq] /\ rows[w].tx.type = "withdraw"
    BY <1>1, <2>1
  <2>3. rows[w].tx \in L2Tx /\ rows[w].tx.amount > 0
    BY <2>2, LogFacts DEF Valid
  <2>4. rows[w].tx.to \in Account /\ rows[w].tx.token \in Token /\ rows[w].tx.amount \in Nat \ {0}
    BY <2>3 DEF L2Tx
  <2> QED BY <2>4 DEF WithdrawalOf, Withdrawals
<1> DEFINE leaves == [w \in DOMAIN rows |-> WithdrawalOf(rows[w].tx)]
<1>3. Len(rows) \in Nat /\ DOMAIN rows = 1..Len(rows) /\ leaves \in [1..Len(rows) -> Withdrawals]
  BY <1>1, <1>2
<1> HIDE DEF leaves
<1>4. leaves \in Seq(Withdrawals)
  BY <1>3
<1> QED BY <1>4 DEF leaves, rows

LEMMA NewBatchType ==
    ASSUME LogInv, MemoryInv, PendingInv, StoreInv, phase = "serving", pending # <<>>,
           NEW taken, taken = SubSeq(pending, 1, TakenCount)
    PROVE  NewBatch(taken, SealedState(taken)) \in BatchRecord
<1> DEFINE sealed == SealedState(taken)
           leaves == [w \in DOMAIN OutboxRows(taken) |-> WithdrawalOf(OutboxRows(taken)[w].tx)]
           data == [i \in DOMAIN taken |-> taken[i].tx]
<1>1. /\ taken \in Seq(PendingTx) /\ DOMAIN taken = 1..Len(taken) /\ Len(taken) \in Nat \ {0}
      /\ \A i \in 1..Len(taken) : taken[i].seq \in 1..Len(log) /\ taken[i].tx \in Tx
      /\ \A i \in 1..Len(taken) : taken[i].seq \in 1..Len(log) /\ taken[i].tx = log[taken[i].seq]
      /\ sealed \in States /\ sealed.nextDepositIndex \in 0..Len(L1Deposit)
  <2>1. /\ taken \in Seq(PendingTx) /\ DOMAIN taken = 1..Len(taken) /\ Len(taken) \in 1..MaxBatchTxs
        /\ \A i \in 1..Len(taken) : /\ taken[i] = pending[i]
                                    /\ taken[i].seq \in 1..Len(log)
                                    /\ taken[i].tx = log[taken[i].seq] /\ taken[i].tx \in Tx
    BY SealFacts
  <2>2. SealedState(taken) \in States /\ SealedState(taken).nextDepositIndex \in 0..Len(L1Deposit)
    BY SealFacts
  <2>3. Len(taken) \in Nat \ {0}
    BY <2>1
  <2> HIDE DEF leaves, data
  <2> QED BY <2>1, <2>2, <2>3
<1>2. lastBatchRoot \in SUBSET StateLeaves /\ Root(sealed) \in SUBSET StateLeaves
  BY <1>1, RootType DEF StoreInv
<1>3. leaves \in Seq(Withdrawals)
  BY <1>1, OutboxLeavesType, Zenon
<1>4. data \in Seq(Tx)
  <2>1. data \in [1..Len(taken) -> Tx]
    BY <1>1
  <2>2. \A n \in Nat : \A f \in [1..n -> Tx] : f \in Seq(Tx)
    OBVIOUS
  <2> HIDE DEF data
  <2> QED BY <1>1, <2>1, <2>2
<1>5. Len(batches) + 1 \in 1..(Len(batches) + 1)
  BY BatchFacts
<1>6. taken[1].seq \in 1..LastSeq /\ taken[Len(taken)].seq \in 1..LastSeq
  BY <1>1 DEF LastSeq
<1>7. NewBatch(taken, sealed) =
        [prevStateRoot |-> lastBatchRoot, newStateRoot |-> Root(sealed),
         withdrawalsRoot |-> [batch |-> Len(batches) + 1, leaves |-> leaves],
         depositCursor |-> sealed.nextDepositIndex, txData |-> data,
         firstSeq |-> taken[1].seq, lastSeq |-> taken[Len(taken)].seq]
  BY DEF NewBatch, WithdrawalsTree
<1> HIDE DEF sealed, leaves, data
<1>8. [batch |-> Len(batches) + 1, leaves |-> leaves] \in
          [batch : 1..(Len(batches) + 1), leaves : Seq(Withdrawals)]
  BY <1>3, <1>5
<1>9. NewBatch(taken, sealed) \in
        [prevStateRoot : SUBSET StateLeaves, newStateRoot : SUBSET StateLeaves,
         withdrawalsRoot : [batch : 1..(Len(batches) + 1), leaves : Seq(Withdrawals)],
         depositCursor : 0..Len(L1Deposit), txData : Seq(Tx), firstSeq : 1..LastSeq, lastSeq : 1..LastSeq]
  BY <1>1, <1>2, <1>4, <1>6, <1>7, <1>8, SMTT(30)
<1> QED BY <1>9 DEF BatchRecord, StateLeaves, Withdrawals, sealed

-----------------------------------------------------------------------------
LEMMA StoreSame ==
    ASSUME StoreInv, UNCHANGED <<log, batchOf, batches, outbox>>, lastBatchRoot' \in SUBSET StateLeaves
    PROVE  StoreInv'
BY DEF StoreInv, BatchRecord, WithdrawalRecord, LastSeq

LEMMA PendingSame ==
    ASSUME PendingInv, UNCHANGED log, UNCHANGED pending
    PROVE  PendingInv'
BY DEF PendingInv, PendingTx

LEMMA DownStore ==
    ASSUME Down
    PROVE  PendingInv' /\ lastBatchRoot' \in SUBSET StateLeaves
<1>1. pending' = <<>> /\ lastBatchRoot' = Root(EmptyState)
  BY DEF Down
<1> QED BY <1>1, EmptyStateType, RootType DEF PendingInv

\* A new row of the log is in no batch.
LEMMA RecordStore ==
    ASSUME LogInv, MemoryInv, PendingInv, StoreInv, phase = "serving", Len(log) < MaxLog,
           NEW tx \in Tx, Valid(state, allowedTokens, tx), Record(tx)
    PROVE  PendingInv' /\ StoreInv'
<1> DEFINE n == Len(log)
<1>1. /\ n \in Nat /\ DOMAIN log = 1..n /\ log \in Seq(Tx)
      /\ log' = Append(log, tx) /\ batchOf' = Append(batchOf, 0) /\ UNCHANGED <<batches, outbox>>
  BY LogFacts DEF Record, PersistTx, InsertTx, LogInv
<1>2. /\ Len(log') = n + 1 /\ DOMAIN log' = 1..(n + 1) /\ log'[n + 1] = tx
      /\ \A k \in 1..n : log'[k] = log[k]
  BY <1>1
<1>3. Len(batches) \in Nat /\ DOMAIN batches = 1..Len(batches)
  BY BatchFacts
<1>4. /\ batches \in Seq(BatchRecord') /\ pending \in Seq(PendingTx')
      /\ \A k \in DOMAIN outbox : outbox[k] \in WithdrawalRecord'
  BY <1>1, <1>2, <1>3, RecordsStay
<1>5. batchOf' \in [DOMAIN log' -> 0..Len(batches)]
  <2>1. batchOf \in [1..n -> 0..Len(batches)] /\ 0 \in 0..Len(batches)
    BY <1>1, <1>3 DEF StoreInv
  <2>2. batchOf \in Seq(0..Len(batches)) /\ Len(batchOf) = n
    <3>1. \A m \in Nat : \A S : \A f \in [1..m -> S] : f \in Seq(S) /\ Len(f) = m
      OBVIOUS
    <3> QED BY <1>1, <2>1, <3>1
  <2>3. Append(batchOf, 0) \in [1..(n + 1) -> 0..Len(batches)]
    <3>1. Append(batchOf, 0) \in Seq(0..Len(batches)) /\ Len(Append(batchOf, 0)) = n + 1
      BY <2>1, <2>2
    <3>2. \A S : \A f \in Seq(S) : f \in [1..Len(f) -> S]
      OBVIOUS
    <3> QED BY <3>1, <3>2
  <2> QED BY <1>1, <1>2, <2>3
<1>6. DOMAIN outbox \subseteq DOMAIN log'
  BY <1>1, <1>2 DEF StoreInv
<1>7. lastBatchRoot' \in SUBSET StateLeaves
  BY DownStore DEF Record, StoreInv
<1>8. StoreInv'
  BY <1>1, <1>4, <1>5, <1>6, <1>7 DEF StoreInv
<1>9. CASE pending' = Append(pending, [seq |-> LastSeq', tx |-> tx])
  <2> DEFINE entry == [seq |-> n + 1, tx |-> tx]
             m == Len(pending)
  <2>1. entry \in PendingTx'
    BY <1>1, <1>2 DEF PendingTx
  <2>2. pending' = Append(pending, entry) /\ entry.tx = log'[entry.seq]
    BY <1>2, <1>9 DEF LastSeq
  <2>3. \A i \in 1..m : pending[i].tx = log'[pending[i].seq]
    BY <1>1, <1>2, PendingFacts
  <2>4. m \in Nat
    BY PendingFacts
  <2> HIDE DEF entry
  <2>5. /\ pending' \in Seq(PendingTx') /\ DOMAIN pending' = 1..(m + 1)
        /\ pending'[m + 1] = entry /\ \A i \in 1..m : pending'[i] = pending[i]
    BY <1>4, <2>1, <2>2, <2>4
  <2>6. ASSUME NEW i \in 1..(m + 1) PROVE pending'[i].tx = log'[pending'[i].seq]
    <3>1. CASE i = m + 1
      BY <2>2, <2>5, <3>1
    <3>2. CASE i # m + 1
      <4>1. i \in 1..m
        BY <2>4, <3>2
      <4> QED BY <2>3, <2>5, <4>1
    <3> QED BY <3>1, <3>2
  <2> QED BY <1>8, <2>5, <2>6 DEF PendingInv
<1>10. CASE Down
  BY <1>8, <1>10, DownStore
<1> QED BY <1>9, <1>10 DEF Record, PushPending

LEMMA SealStore ==
    ASSUME LogInv, MemoryInv, PendingInv, StoreInv, SealBatch
    PROVE  PendingInv' /\ StoreInv'
<1> DEFINE taken == SubSeq(pending, 1, TakenCount)
           sealed == SealedState(taken)
           batch == NewBatch(taken, sealed)
           index == Len(batches) + 1
<1>1. /\ phase = "serving" /\ pending # <<>>
      /\ PersistBatch(taken, sealed)
      /\ \/ /\ pending' = SubSeq(pending, Len(taken) + 1, Len(pending))
            /\ lastBatchRoot' = Root(sealed)
         \/ Down
  BY DEF SealBatch, Sealable
<1>2. batch \in BatchRecord
  BY <1>1, NewBatchType
<1>3. /\ taken \in Seq(PendingTx) /\ Len(taken) \in 1..Len(pending) /\ Len(taken) \in 1..MaxBatchTxs
      /\ DOMAIN taken = 1..Len(taken)
      /\ \A i \in 1..Len(taken) : taken[i].seq \in 1..Len(log)
      /\ sealed \in States
  BY <1>1, SealFacts
<1> HIDE DEF taken
<1>4. /\ batches' = Append(batches, batch)
      /\ batchOf' = [k \in DOMAIN batchOf |-> IF k \in batch.firstSeq..batch.lastSeq
                                              THEN index ELSE batchOf[k]]
      /\ UNCHANGED log
  BY <1>1 DEF PersistBatch, InsertBatch, AssignBatch
<1> DEFINE rows == OutboxRows(taken)
           seqs == {rows[w].seq : w \in DOMAIN rows}
           indices == [k \in seqs |-> WithdrawalIndex(taken, k)]
<1>5. outbox' = [k \in DOMAIN outbox \cup DOMAIN indices |->
                    IF k \in DOMAIN indices
                    THEN [batchIndex |-> index, wIndex |-> indices[k]] ELSE outbox[k]]
  BY <1>1 DEF PersistBatch, InsertWithdrawals
<1> HIDE DEF sealed, batch
<1>6. /\ Len(batches) \in Nat /\ Len(log) \in Nat /\ DOMAIN batches = 1..Len(batches)
      /\ DOMAIN log = 1..Len(log)
  BY BatchFacts, LogFacts
<1>7. Len(batches') = index /\ DOMAIN batches' = 1..index /\ batches \in Seq(BatchRecord)
  BY <1>4, <1>6 DEF StoreInv
<1>8. /\ batches \in Seq(BatchRecord') /\ pending \in Seq(PendingTx')
      /\ \A k \in DOMAIN outbox : outbox[k] \in WithdrawalRecord'
  BY <1>4, <1>6, <1>7, RecordsStay
<1>9. batches' \in Seq(BatchRecord')
  <2>1. BatchRecord \subseteq BatchRecord'
    <3>1. /\ 1..(Len(batches) + 1) \subseteq 1..(Len(batches') + 1)
          /\ 1..Len(log) = 1..Len(log')
      BY <1>4, <1>6, <1>7
    <3> QED BY <3>1 DEF BatchRecord, LastSeq
  <2> QED BY <1>2, <1>4, <1>8, <2>1
<1>10. batchOf' \in [DOMAIN log' -> 0..Len(batches')]
  <2>1. batchOf \in [DOMAIN log -> 0..Len(batches)]
    BY DEF StoreInv
  <2>2. \A k \in DOMAIN log : (IF k \in batch.firstSeq..batch.lastSeq
                               THEN index ELSE batchOf[k]) \in 0..index
    BY <1>6, <2>1
  <2> QED BY <1>4, <1>7, <2>1, <2>2
<1>11. /\ rows \in Seq(PendingTx) /\ Len(rows) <= Len(taken)
       /\ \A w \in DOMAIN rows : \E i \in DOMAIN taken : rows[w] = taken[i]
  BY <1>3, OutboxRowsType
<1>12. \A w \in DOMAIN rows : rows[w].seq \in DOMAIN log
  BY <1>3, <1>6, <1>11
<1>13. ASSUME NEW k \in seqs PROVE indices[k] \in 1..MaxBatchTxs
  <2>1. \E w \in DOMAIN rows : rows[w].seq = k
    OBVIOUS
  <2>2. WithdrawalIndex(taken, k) \in DOMAIN rows
    BY <2>1 DEF WithdrawalIndex
  <2>3. DOMAIN rows = 1..Len(rows) /\ Len(rows) \in Nat
    BY <1>11
  <2>4. MaxBatchTxs \in Nat
    BY SequencerConfig
  <2> QED BY <1>3, <1>11, <2>2, <2>3, <2>4
<1>14. DOMAIN outbox' \subseteq DOMAIN log' /\ \A k \in DOMAIN outbox' : outbox'[k] \in WithdrawalRecord'
  <2>1. DOMAIN indices = seqs /\ seqs \subseteq DOMAIN log /\ DOMAIN outbox \subseteq DOMAIN log
    BY <1>12 DEF StoreInv
  <2> HIDE DEF indices, seqs
  <2>2. DOMAIN outbox' = DOMAIN outbox \cup seqs
    BY <1>5, <2>1
  <2>3. ASSUME NEW k \in seqs PROVE outbox'[k] \in WithdrawalRecord'
    <3>1. outbox'[k] = [batchIndex |-> index, wIndex |-> indices[k]]
      BY <1>5, <2>1
    <3>2. index \in DOMAIN batches' /\ indices[k] \in 1..MaxBatchTxs
      BY <1>6, <1>7, <1>13
    <3> QED BY <3>1, <3>2 DEF WithdrawalRecord
  <2>4. ASSUME NEW k \in DOMAIN outbox, k \notin seqs PROVE outbox'[k] \in WithdrawalRecord'
    BY <1>5, <1>8, <2>1, <2>4
  <2> QED BY <1>4, <2>1, <2>2, <2>3, <2>4
<1>15. lastBatchRoot' \in SUBSET StateLeaves
  BY <1>1, <1>3, RootType, DownStore
<1>16. StoreInv'
  BY <1>9, <1>10, <1>14, <1>15 DEF StoreInv
<1>17. CASE pending' = SubSeq(pending, Len(taken) + 1, Len(pending))
  <2> DEFINE t == Len(taken)
             m == Len(pending)
  <2>1. t \in 1..m /\ m \in Nat /\ DOMAIN pending = 1..m /\ pending \in Seq(PendingTx')
    BY <1>3, <1>8, PendingFacts
  <2>2. /\ pending' \in Seq(PendingTx') /\ DOMAIN pending' = 1..(m - t)
        /\ \A i \in 1..(m - t) : pending'[i] = pending[t + i] /\ t + i \in 1..m
    BY <1>17, <2>1
  <2>3. \A i \in DOMAIN pending : pending[i].tx = log[pending[i].seq]
    BY DEF PendingInv
  <2> HIDE DEF t, m
  <2>4. \A i \in DOMAIN pending' : pending'[i].tx = log'[pending'[i].seq]
    <3>1. ASSUME NEW i \in 1..(m - t) PROVE pending'[i].tx = log'[pending'[i].seq]
      BY <1>4, <2>1, <2>2, <2>3
    <3> QED BY <2>2, <3>1
  <2> QED BY <1>16, <2>2, <2>4 DEF PendingInv
<1>18. CASE Down
  BY <1>16, <1>18, DownStore
<1> QED BY <1>1, <1>17, <1>18

\* What every step of the process preserves, whatever its limits are.
TypeInv == LogInv /\ MemoryInv /\ PendingInv /\ StoreInv

LEMMA TypeInit == Init => TypeInv
<1> SUFFICES ASSUME Init PROVE TypeInv
  OBVIOUS
<1>1. LogInv /\ MemoryInv
  BY MemoryInit
<1>2. /\ log = <<>> /\ batchOf = <<>> /\ batches = <<>> /\ DOMAIN outbox = {} /\ pending = <<>>
      /\ lastBatchRoot = Root(EmptyState)
  BY DEF Init, EmptyStore
<1>3. PendingInv
  BY <1>2 DEF PendingInv
<1>4. lastBatchRoot \in SUBSET StateLeaves
  BY <1>2, EmptyStateType, RootType
<1>5. batchOf \in [DOMAIN log -> 0..Len(batches)]
  <2>1. DOMAIN log = {} /\ <<>> \in [{} -> 0..Len(batches)]
    BY <1>2
  <2> QED BY <1>2, <2>1
<1>6. StoreInv
  BY <1>2, <1>4, <1>5 DEF StoreInv
<1> QED BY <1>1, <1>3, <1>6 DEF TypeInv

LEMMA TypeNext == TypeInv /\ [Next]_vars => TypeInv'
<1> SUFFICES ASSUME TypeInv, [Next]_vars PROVE TypeInv'
  OBVIOUS
<1> USE DEF TypeInv
<1>0. LogInv' /\ MemoryInv'
  BY MemoryNext
<1>1. ASSUME NEW tokens \in AllowedTokenSets, Open(tokens) PROVE TypeInv'
  <2>1. /\ UNCHANGED <<log, batchOf, batches, outbox>> /\ UNCHANGED pending
        /\ lastBatchRoot' \in SUBSET StateLeaves
    BY <1>1 DEF Open, dbVars, StoreInv
  <2> QED BY <1>0, <2>1, StoreSame, PendingSame
<1>2. CASE ReplayRow
  <2>1. /\ UNCHANGED <<log, batchOf, batches, outbox>> /\ UNCHANGED pending
        /\ lastBatchRoot' \in SUBSET StateLeaves
    BY <1>2 DEF ReplayRow, dbVars, StoreInv
  <2> QED BY <1>0, <2>1, StoreSame, PendingSame
<1>3. CASE Down /\ UNCHANGED <<log, batchOf, batches, outbox>>
  BY <1>0, <1>3, DownStore, StoreSame
<1>4. CASE Opened
  <2>1. UNCHANGED <<log, batchOf, batches, outbox>>
    BY <1>4 DEF Opened, dbVars
  <2>2. lastBatchRoot' \in SUBSET StateLeaves
    <3>1. lastBatchRoot' = IF batches = <<>> THEN Root(EmptyState) ELSE batches[Len(batches)].newStateRoot
      BY <1>4 DEF Opened, LastBatch
    <3> QED BY <3>1, BatchFacts, EmptyStateType, RootType
  <2>3. StoreInv'
    BY <2>1, <2>2, StoreSame
  <2>4. PendingInv'
    <3> DEFINE from == LastBatchedSeq
               count == Smaller(ReloadLimit, Len(log) - from)
               entry(i) == [seq |-> from + i, tx |-> log[from + i]]
    <3>1. /\ from \in Nat /\ Len(log) \in Nat /\ count \in Nat /\ count <= Len(log) - from
          /\ log \in Seq(Tx) /\ DOMAIN log = 1..Len(log)
      <4>1. from \in 0..Len(log) /\ Len(log) \in Nat
        BY BatchFacts, LogFacts
      <4> QED BY <4>1, SequencerConfig, LogFacts DEF Smaller, LogInv
    <3>2. pending' = [i \in 1..count |-> entry(i)]
      BY <1>4 DEF Opened, Unbatched, TxsAfter, LastSeq
    <3> HIDE DEF from, count
    <3>3. ASSUME NEW i \in 1..count PROVE entry(i) \in PendingTx /\ entry(i).tx = log[entry(i).seq]
      <4>1. from + i \in DOMAIN log
        BY <3>1
      <4> QED BY <3>1, <4>1 DEF PendingTx
    <3> HIDE DEF entry
    <3>4. pending' \in [1..count -> PendingTx]
      BY <3>2, <3>3
    <3>5. pending' \in Seq(PendingTx) /\ DOMAIN pending' = 1..count
      <4>1. \A n \in Nat : \A S : \A f \in [1..n -> S] : f \in Seq(S)
        OBVIOUS
      <4> QED BY <3>1, <3>4, <4>1
    <3>6. \A i \in DOMAIN pending' : pending'[i].tx = log[pending'[i].seq]
      BY <3>2, <3>3, <3>5
    <3> QED BY <2>1, <3>5, <3>6 DEF PendingInv, PendingTx
  <2> QED BY <1>0, <2>3, <2>4
<1>5. ASSUME NEW tx \in Request, Submit(tx) PROVE TypeInv'
  BY <1>0, <1>5, RecordStore DEF Submit, Tx
<1>6. ASSUME NEW n \in DOMAIN L1Deposit, IngestDeposit(n - 1) PROVE TypeInv'
  <2>1. DepositTx(n - 1) \in Tx
    BY DEF Tx
  <2> QED BY <1>0, <1>6, <2>1, RecordStore DEF IngestDeposit
<1>7. CASE SealBatch
  BY <1>0, <1>7, SealStore
<1>8. CASE UNCHANGED vars
  <2>1. /\ UNCHANGED <<log, batchOf, batches, outbox>> /\ UNCHANGED pending
        /\ lastBatchRoot' \in SUBSET StateLeaves
    BY <1>8 DEF vars, dbVars, memVars, StoreInv
  <2> QED BY <1>0, <2>1, StoreSame, PendingSame
<1>9. ReplayThrows \/ Crash \/ Shutdown => Down /\ UNCHANGED <<log, batchOf, batches, outbox>>
  BY DEF ReplayThrows, Crash, Shutdown, dbVars
<1> QED BY <1>1, <1>2, <1>3, <1>4, <1>5, <1>6, <1>7, <1>8, <1>9 DEF Next

LEMMA TypesFollow == TypeInv => TypeOK
<1> SUFFICES ASSUME TypeInv PROVE TypeOK
  OBVIOUS
<1>1. \A i \in 0..Len(log) : StateOf(Replay[i].state)
  <2>1. ASSUME NEW i \in 0..Len(log) PROVE StateOf(Replay[i].state)
    <3>1. Replay[i].state \in States /\ Replay[i].state.nextDepositIndex <= Len(L1Deposit)
      BY LogFacts DEF TypeInv, LogInv
    <3>2. Replay[i].state.nextDepositIndex \in 0..Len(L1Deposit)
      BY <3>1, StateFacts, TxFacts
    <3> QED BY <3>1, <3>2, StateFacts DEF StateOf
  <2> QED BY <2>1
<1>2. Len(log) \in Nat /\ Replay[0].state = EmptyState
  BY LogFacts DEF TypeInv
<1>3. StateOf(state)
  <2>1. \E i \in 0..Len(log) : state = Replay[i].state
    BY <1>2 DEF TypeInv, MemoryInv
  <2> QED BY <1>1, <2>1
<1>4. snapshot # NoSnapshot => snapshot.lastSeq \in 0..Len(log) /\ StateOf(snapshot.state)
  BY <1>1 DEF TypeInv, MemoryInv
<1> QED BY <1>3, <1>4 DEF TypeInv, TypeOK, LogInv, MemoryInv, PendingInv, PendingTx, StoreInv

\* No balance is ever negative, in memory or in a snapshot, and the rows of the
\* database keep their shape: for any requests, caps of a batch and any limit of
\* the reload.
THEOREM SpecTypeOK == Spec => []TypeOK
BY TypeInit, TypeNext, TypesFollow, PTL DEF Spec

-----------------------------------------------------------------------------
(* The batches, when a restart reloads all that is in no batch *)

\* The leaves of the outbox of a batch.
OutboxLeaves(taken) == [w \in DOMAIN OutboxRows(taken) |-> WithdrawalOf(OutboxRows(taken)[w].tx)]

\* The replay of txs from s finds them.
OutboxFound(taken, s, txs) == OutboxLeaves(taken) = ReplayFrom(s, txs)[Len(txs)].withdrawals

\* What is taken is the transactions txs.
Takes(taken, txs) == Len(txs) = Len(taken) /\ \A i \in 1..Len(taken) : txs[i] = taken[i].tx

\* The leaves of the outbox of a batch are the withdrawals its replay finds.
LEMMA OutboxIsReplay ==
    ASSUME NEW taken \in Seq(PendingTx), NEW s \in States, NEW txs \in Seq(L2Tx),
           Takes(taken, txs), ReplaysAll(s, txs)
    PROVE  OutboxFound(taken, s, txs)
<1>1. PICK rows : OutboxFold(rows, taken)
  BY OutboxIsFold
<1> DEFINE n == Len(taken)
           replay == ReplayFrom(s, txs)
           leaves(k) == [w \in DOMAIN rows[k] |-> WithdrawalOf(rows[k][w].tx)]
           T == {k \in 0..n : leaves(k) = replay[k].withdrawals}
<1>2. n \in Nat /\ Len(txs) = n /\ \A i \in 1..n : txs[i] \in L2Tx /\ txs[i] = taken[i].tx
  BY DEF Takes
<1>3. /\ replay \in [0..n -> Replays] /\ replay[0] = Start(s)
      /\ \A i \in 1..n : replay[i] = ReplayTx(replay[i - 1], txs[i])
      /\ \A i \in 0..n : replay[i].ok
  BY <1>2, ReplayIsFold DEF ReplaysAll
<1> HIDE DEF replay
<1>4. 0 \in T
  <2>1. rows[0] = <<>> /\ replay[0].withdrawals = <<>>
    BY <1>1, <1>3 DEF OutboxFold, Start
  <2> QED BY <1>2, <2>1
<1>5. ASSUME NEW k \in 0..(n - 1), k \in T PROVE k + 1 \in T
  <2>1. k + 1 \in 1..n /\ (k + 1) - 1 = k /\ k \in 0..n /\ k + 1 \in 0..n
    BY <1>2
  <2>2. /\ rows[k] \in Seq(PendingTx)
        /\ rows[k + 1] = IF taken[k + 1].tx.type = "withdraw" THEN Append(rows[k], taken[k + 1]) ELSE rows[k]
    <3>1. \A i \in 1..n : rows[i] = IF taken[i].tx.type = "withdraw"
                                    THEN Append(rows[i - 1], taken[i]) ELSE rows[i - 1]
      BY <1>1 DEF OutboxFold
    <3> QED BY <1>1, <2>1, <3>1 DEF OutboxFold
  <2>3. replay[k + 1].withdrawals = IF txs[k + 1].type = "withdraw"
                                    THEN Append(replay[k].withdrawals, WithdrawalOf(txs[k + 1]))
                                    ELSE replay[k].withdrawals
    <3>1. replay[k + 1] = ReplayTx(replay[k], txs[k + 1]) /\ replay[k + 1].ok /\ replay[k] \in Replays
      BY <1>3, <2>1
    <3>2. txs[k + 1] \in L2Tx
      BY <1>2, <2>1
    <3>3. /\ ReplayTx(replay[k], txs[k + 1]).ok => replay[k].ok /\ Valid(replay[k].state, Token, txs[k + 1])
          /\ replay[k].ok /\ Valid(replay[k].state, Token, txs[k + 1]) =>
                ReplayTx(replay[k], txs[k + 1]).withdrawals =
                   IF txs[k + 1].type = "withdraw"
                   THEN Append(replay[k].withdrawals, WithdrawalOf(txs[k + 1])) ELSE replay[k].withdrawals
      BY <3>1, <3>2, ReplayTxFacts, Zenon
    <3> QED BY <3>1, <3>3, Zenon
  <2>4. leaves(k) = replay[k].withdrawals /\ txs[k + 1] = taken[k + 1].tx
    BY <1>2, <1>5, <2>1
  <2>5. CASE taken[k + 1].tx.type = "withdraw"
    <3> DEFINE m == Len(rows[k])
               leaf == WithdrawalOf(taken[k + 1].tx)
    <3>1. /\ m \in Nat /\ DOMAIN rows[k] = 1..m /\ DOMAIN rows[k + 1] = 1..(m + 1)
          /\ rows[k + 1][m + 1] = taken[k + 1]
          /\ \A w \in 1..m : rows[k + 1][w] = rows[k][w]
      BY <2>2, <2>5
    <3>2. DOMAIN leaves(k) = 1..m /\ Len(leaves(k)) = m
      <4>1. DOMAIN leaves(k) = 1..m
        BY <3>1
      <4> QED BY <3>1, <4>1
    <3> HIDE DEF leaf
    <3>3. Append(leaves(k), leaf) = [w \in 1..(m + 1) |-> IF w = m + 1 THEN leaf ELSE leaves(k)[w]]
      <4> DEFINE l == replay[k].withdrawals
                 S == Withdrawals \cup {leaf}
      <4>1. l \in Seq(S) /\ Len(l) = m /\ leaf \in S
        <5>1. l \in Seq(Withdrawals)
          BY <1>3, <2>1 DEF Replays
        <5>2. \A U, V : U \subseteq V => Seq(U) \subseteq Seq(V)
          OBVIOUS
        <5>3. Len(l) = m
          BY <2>4, <3>2, Zenon
        <5> QED BY <5>1, <5>2, <5>3
      <4> HIDE DEF l, S
      <4>2. /\ Append(l, leaf) \in Seq(S) /\ Len(Append(l, leaf)) = m + 1
            /\ Append(l, leaf)[m + 1] = leaf
            /\ \A w \in 1..m : Append(l, leaf)[w] = l[w]
        BY <3>1, <4>1
      <4>3. Append(l, leaf) \in [1..(m + 1) -> S]
        <5>1. \A V : \A f \in Seq(V) : f \in [1..Len(f) -> V]
          OBVIOUS
        <5> QED BY <4>2, <5>1
      <4>4. \A w \in 1..(m + 1) : w # m + 1 => w \in 1..m
        BY <3>1
      <4>5. Append(l, leaf) = [w \in 1..(m + 1) |-> IF w = m + 1 THEN leaf ELSE l[w]]
        BY <4>2, <4>3, <4>4
      <4>6. leaves(k) = l
        BY <2>4 DEF l
      <4> HIDE DEF leaves
      <4> QED BY <4>5, <4>6
    <3>4. leaves(k + 1) = [w \in 1..(m + 1) |-> IF w = m + 1 THEN leaf ELSE leaves(k)[w]]
      <4>1. ASSUME NEW w \in 1..(m + 1)
            PROVE  WithdrawalOf(rows[k + 1][w].tx) = IF w = m + 1 THEN leaf ELSE leaves(k)[w]
        <5>1. CASE w = m + 1
          BY <3>1, <5>1 DEF leaf
        <5>2. CASE w # m + 1
          <6>1. w \in 1..m
            BY <3>1, <5>2
          <6> QED BY <3>1, <5>2, <6>1
        <5> QED BY <5>1, <5>2
      <4> QED BY <3>1, <4>1
    <3> HIDE DEF leaves
    <3>5. leaves(k + 1) = replay[k + 1].withdrawals
      BY <2>3, <2>4, <2>5, <3>3, <3>4 DEF leaf
    <3> QED BY <2>1, <3>5
  <2>6. CASE taken[k + 1].tx.type # "withdraw"
    <3>1. leaves(k + 1) = leaves(k)
      BY <2>2, <2>6
    <3> HIDE DEF leaves
    <3> QED BY <2>1, <2>3, <2>4, <2>6, <3>1
  <2> QED BY <2>5, <2>6
<1> HIDE DEF T
<1>6. \A k \in 0..n : k \in T
  BY <1>2, <1>4, <1>5, UpTo
<1>7. leaves(n) = replay[n].withdrawals
  BY <1>2, <1>6 DEF T
<1> QED BY <1>1, <1>2, <1>7 DEF OutboxFold, OutboxFound, OutboxLeaves, replay

\* Batch j takes an auditor from the state before its transactions to the one
\* after them, and everything it publishes is what the auditor finds.
Honest(batch, j, before, after) ==
    LET replay == ReplayBatch(before, j, batch.txData)
    IN  /\ replay.ok
        /\ replay.state = after
        /\ batch.prevStateRoot = Root(before)
        /\ batch.newStateRoot = Root(after)
        /\ batch.withdrawalsRoot = replay.withdrawalsRoot
        /\ batch.depositCursor = after.nextDepositIndex

\* Whenever the process comes up one query reloads all rows that are in no batch.
ReloadReaches == phase = "opening" => Len(log) - LastBatchedSeq <= ReloadLimit

CoverInv ==
    /\ BatchesCoverLog
    /\ \A j \in DOMAIN batches :
          /\ batches[j].firstSeq <= batches[j].lastSeq
          /\ batches[j].lastSeq <= LastBatchedSeq
          /\ Honest(batches[j], j, Replay[batches[j].firstSeq - 1].state, Replay[batches[j].lastSeq].state)
    /\ phase = "serving" => lastBatchRoot = Root(Replay[LastBatchedSeq].state)

\* What is pending is what the log holds after the last batch.
LEMMA PendingRows ==
    ASSUME TypeInv, CoverInv, phase = "serving"
    PROVE  /\ Len(pending) = Len(log) - LastBatchedSeq
           /\ \A i \in 1..Len(pending) : /\ pending[i].seq = LastBatchedSeq + i
                                         /\ pending[i].tx = log[LastBatchedSeq + i]
<1> DEFINE first == LastBatchedSeq
           count == Len(log) - first
<1>1. pending = [i \in 1..count |-> [seq |-> first + i, tx |-> log[first + i]]]
  BY DEF CoverInv, BatchesCoverLog
<1>2. count \in Nat /\ Len(pending) \in Nat /\ DOMAIN pending = 1..Len(pending)
  <2>1. first \in 0..Len(log) /\ Len(log) \in Nat
    BY LogFacts, BatchFacts DEF TypeInv
  <2> QED BY <2>1, PendingFacts DEF TypeInv
<1> HIDE DEF count
<1>3. Len(pending) = count
  BY <1>1, <1>2
<1>4. \A i \in 1..count : pending[i].seq = first + i /\ pending[i].tx = log[first + i]
  BY <1>1
<1> QED BY <1>3, <1>4 DEF count

\* The batch that is sealed continues the last one.
LEMMA SealHonest ==
    ASSUME TypeInv, CoverInv, phase = "serving", pending # <<>>,
           NEW taken, taken = SubSeq(pending, 1, TakenCount), NEW first, first = LastBatchedSeq,
           NEW batch, batch = NewBatch(taken, SealedState(taken))
    PROVE  /\ Len(taken) \in 1..Len(pending) /\ first \in Nat /\ first + Len(taken) \in 1..Len(log)
           /\ Len(pending) = Len(log) - first
           /\ batch.firstSeq = first + 1 /\ batch.lastSeq = first + Len(taken)
           /\ batch.txData = SubSeq(log, first + 1, first + Len(taken))
           /\ SealedState(taken) = Replay[first + Len(taken)].state
           /\ Honest(batch, Len(batches) + 1, Replay[first].state, Replay[first + Len(taken)].state)
<1> DEFINE t == Len(taken)
           sealed == SealedState(taken)
           data == [i \in DOMAIN taken |-> taken[i].tx]
<1>1. /\ first \in 0..Len(log) /\ Len(log) \in Nat /\ Len(pending) = Len(log) - first
      /\ \A i \in 1..Len(pending) : pending[i].seq = first + i /\ pending[i].tx = log[first + i]
  BY LogFacts, BatchFacts, PendingRows DEF TypeInv
<1>3. /\ taken \in Seq(PendingTx) /\ DOMAIN taken = 1..t /\ t \in 1..Len(pending)
      /\ \A i \in 1..t : taken[i] = pending[i]
      /\ sealed = Replay[IF t = Len(pending) THEN Len(log) ELSE taken[t].seq].state
  BY SealFacts DEF TypeInv
<1>4. \A i \in 1..t : taken[i].tx \in Tx /\ taken[i].tx \in L2Tx
  BY SealFacts, TxFacts DEF TypeInv
<1> HIDE DEF sealed
<1> DEFINE n == Len(log)
           m == Len(pending)
<1>0. n \in Nat /\ first \in 0..n /\ m = n - first /\ t \in 1..m
  BY <1>1, <1>3
<1>20. Len(taken) = t /\ Len(log) = n /\ Len(pending) = m
  OBVIOUS
<1> HIDE DEF t, n, m
<1>6. /\ first + t \in 1..n /\ t \in Nat /\ t \in 1..t /\ 1 \in 1..t /\ first \in Nat /\ first + t <= n
      /\ t = m => n = first + t
  BY <1>0
<1>5. \A i \in 1..t : taken[i].seq = first + i /\ taken[i].tx = log[first + i]
  <2>1. ASSUME NEW i \in 1..t PROVE taken[i].seq = first + i /\ taken[i].tx = log[first + i]
    <3>1. i \in 1..m
      BY <1>0
    <3> QED BY <1>1, <1>3, <1>20, <3>1
  <2> QED BY <2>1
<1>7. sealed = Replay[first + t].state
  <2>1. taken[t].seq = first + t
    BY <1>5, <1>6
  <2>2. (IF t = m THEN n ELSE taken[t].seq) = first + t
    BY <1>6, <2>1
  <2> QED BY <1>3, <1>20, <2>2, Zenon
<1>8. data \in Seq(L2Tx) /\ Len(data) = t /\ \A i \in 1..t : data[i] = log[first + i] /\ data[i] = taken[i].tx
  <2>1. data \in [1..t -> L2Tx] /\ \A i \in 1..t : data[i] = taken[i].tx
    BY <1>3, <1>4
  <2>2. \A k \in Nat : \A S : \A f \in [1..k -> S] : f \in Seq(S) /\ Len(f) = k
    OBVIOUS
  <2> HIDE DEF data
  <2> QED BY <1>5, <1>6, <2>1, <2>2
<1>9. data = SubSeq(log, first + 1, first + t)
  <2> DEFINE part == SubSeq(log, first + 1, first + t)
  <2>1. log \in Seq(Tx)
    BY DEF TypeInv, LogInv
  <2>2. part \in Seq(Tx) /\ Len(part) = t /\ DOMAIN part = 1..t /\ \A i \in 1..t : part[i] = log[first + i]
    <3>1. /\ first + 1 \in 1..n /\ first + t \in 1..n /\ n = Len(log) /\ (first + t) - (first + 1) + 1 = t
          /\ \A i \in 1..t : (first + 1) + i - 1 = first + i
      BY <1>0, <1>20
    <3>2. \A S : \A f \in Seq(S) : \A a \in 1..Len(f), b \in 1..Len(f) : a <= b =>
             /\ SubSeq(f, a, b) \in Seq(S) /\ Len(SubSeq(f, a, b)) = b - a + 1
             /\ \A i \in 1..(b - a + 1) : SubSeq(f, a, b)[i] = f[a + i - 1]
      OBVIOUS
    <3>3. first + 1 <= first + t
      BY <1>6
    <3>4. /\ part \in Seq(Tx) /\ Len(part) = t
          /\ \A i \in 1..t : part[i] = log[(first + 1) + i - 1]
      BY <2>1, <3>1, <3>2, <3>3
    <3> HIDE DEF part
    <3>5. DOMAIN part = 1..t
      BY <3>4
    <3>6. ASSUME NEW i \in 1..t PROVE part[i] = log[first + i]
      <4>1. (first + 1) + i - 1 = first + i
        BY <3>1
      <4>2. part[i] = log[(first + 1) + i - 1]
        BY <3>4
      <4> QED BY <4>1, <4>2, Zenon
    <3> QED BY <3>4, <3>5, <3>6
  <2>3. DOMAIN data = 1..t
    BY <1>3
  <2>4. part = [i \in 1..t |-> part[i]] /\ data = [i \in 1..t |-> data[i]]
    <3>1. \A S : \A f \in Seq(S) : f = [i \in DOMAIN f |-> f[i]]
      OBVIOUS
    <3> HIDE DEF part, data
    <3> QED BY <1>8, <2>2, <2>3, <3>1
  <2> HIDE DEF part, data
  <2>5. data = part
    BY <1>8, <2>2, <2>4
  <2> QED BY <2>5 DEF part
<1>10. /\ batch.prevStateRoot = lastBatchRoot /\ batch.newStateRoot = Root(sealed)
       /\ batch.withdrawalsRoot = WithdrawalsTree(Len(batches) + 1, OutboxLeaves(taken))
       /\ batch.depositCursor = sealed.nextDepositIndex /\ batch.txData = data
       /\ batch.firstSeq = taken[1].seq /\ batch.lastSeq = taken[t].seq
  BY DEF NewBatch, OutboxLeaves, sealed, t
<1> HIDE DEF data
<1>11. batch.firstSeq = first + 1 /\ batch.lastSeq = first + t
  BY <1>5, <1>6, <1>10
<1> DEFINE before == Replay[first].state
<1>12. /\ before \in States
       /\ \A i \in 0..t : /\ ReplayFrom(before, data)[i].ok
                          /\ ReplayFrom(before, data)[i].state = ReplayFrom(EmptyState, log)[first + i].state
  <2>1. /\ log \in Seq(L2Tx) /\ ReplaysAll(EmptyState, log)
        /\ before = ReplayFrom(EmptyState, log)[first].state
    BY LogFacts DEF TypeInv, LogInv, Replay, ReplaysAll
  <2>2. PartOf(data, first, log)
    BY <1>0, <1>6, <1>8, <1>20 DEF PartOf
  <2> HIDE DEF before
  <2>3. Continues(before, data, first, EmptyState, log)
    BY <1>8, <2>1, <2>2, EmptyStateType, ReplayOfPart
  <2> QED BY <1>8, <2>3 DEF Continues
<1> HIDE DEF before
<1>13. OutboxLeaves(taken) = ReplayFrom(before, data)[Len(data)].withdrawals
  <2>1. Takes(taken, data) /\ ReplaysAll(before, data)
    BY <1>8, <1>12, <1>20 DEF Takes, ReplaysAll
  <2>2. OutboxFound(taken, before, data)
    BY <1>3, <1>8, <1>12, <2>1, OutboxIsReplay
  <2> QED BY <2>2 DEF OutboxFound
<1>14. ReplayFrom(before, data)[Len(data)].ok /\ ReplayFrom(before, data)[Len(data)].state = Replay[first + t].state
  <2>1. t \in 0..t
    BY <1>6
  <2> QED BY <1>8, <1>12, <2>1 DEF Replay
<1>15. lastBatchRoot = Root(before)
  BY DEF CoverInv, before
<1>16. Honest(batch, Len(batches) + 1, before, Replay[first + t].state)
  BY <1>7, <1>10, <1>13, <1>14, <1>15 DEF Honest, ReplayBatch
<1> QED BY <1>0, <1>6, <1>7, <1>9, <1>10, <1>11, <1>16 DEF before, sealed, t, n, m

-----------------------------------------------------------------------------
\* A piece of a sequence is given by its entries.
LEMMA SubSeqIs ==
    ASSUME NEW S, NEW f \in Seq(S), NEW a \in 1..(Len(f) + 1), NEW b \in 0..Len(f), a <= b + 1
    PROVE  SubSeq(f, a, b) = [i \in 1..(b - a + 1) |-> f[a + i - 1]]
<1> DEFINE part == SubSeq(f, a, b)
           n == b - a + 1
<1>1. part \in Seq(S) /\ Len(part) = n /\ \A i \in 1..n : part[i] = f[a + i - 1]
  OBVIOUS
<1>2. \A V : \A g \in Seq(V) : DOMAIN g = 1..Len(g) /\ g = [i \in DOMAIN g |-> g[i]]
  OBVIOUS
<1> HIDE DEF part, n
<1>3. part = [i \in 1..n |-> part[i]]
  BY <1>1, <1>2
<1>4. part = [i \in 1..n |-> f[a + i - 1]]
  BY <1>1, <1>3
<1> QED BY <1>4 DEF part, n

LEMMA SubSeqAppend ==
    ASSUME NEW S, NEW f \in Seq(S), NEW x \in S, NEW a \in 1..Len(f), NEW b \in 1..Len(f), a <= b
    PROVE  SubSeq(Append(f, x), a, b) = SubSeq(f, a, b)
<1> DEFINE g == Append(f, x)
<1>1. /\ g \in Seq(S) /\ Len(f) \in Nat /\ Len(g) = Len(f) + 1 /\ \A i \in 1..Len(f) : g[i] = f[i]
  OBVIOUS
<1> HIDE DEF g
<1>2. /\ a \in 1..(Len(g) + 1) /\ b \in 0..Len(g) /\ a <= b + 1
      /\ a \in 1..(Len(f) + 1) /\ b \in 0..Len(f)
  BY <1>1
<1>3. SubSeq(g, a, b) = [i \in 1..(b - a + 1) |-> g[a + i - 1]]
  BY <1>1, <1>2, SubSeqIs
<1>4. SubSeq(f, a, b) = [i \in 1..(b - a + 1) |-> f[a + i - 1]]
  BY <1>2, SubSeqIs
<1>5. \A i \in 1..(b - a + 1) : g[a + i - 1] = f[a + i - 1]
  <2>1. ASSUME NEW i \in 1..(b - a + 1) PROVE g[a + i - 1] = f[a + i - 1]
    <3>1. a + i - 1 \in 1..Len(f)
      BY <1>1
    <3> QED BY <1>1, <3>1
  <2> QED BY <2>1
<1> QED BY <1>3, <1>4, <1>5 DEF g

-----------------------------------------------------------------------------
(* The invariant of the batches *)

LEMMA CoverFacts ==
    ASSUME TypeInv, CoverInv
    PROVE  /\ LogInv /\ Len(log) \in Nat /\ DOMAIN log = 1..Len(log)
           /\ Len(batches) \in Nat /\ DOMAIN batches = 1..Len(batches)
           /\ LastBatchedSeq \in 0..Len(log)
           /\ \A j \in 1..Len(batches) :
                 /\ batches[j].firstSeq \in 1..Len(log) /\ batches[j].lastSeq \in 1..Len(log)
                 /\ batches[j].firstSeq <= batches[j].lastSeq
                 /\ batches[j].lastSeq <= LastBatchedSeq
           /\ batches = <<>> => LastBatchedSeq = 0 /\ Len(batches) = 0
           /\ batches # <<>> => /\ Len(batches) \in 1..Len(batches)
                                /\ LastBatchedSeq = batches[Len(batches)].lastSeq
BY LogFacts, BatchFacts DEF TypeInv, CoverInv, LastBatchedSeq, LastBatch

\* The database is as it was, and the process does not serve after the step.
LEMMA CoverSame ==
    ASSUME TypeInv, CoverInv, UNCHANGED <<log, batchOf, batches>>,
           phase' # "serving" \/ UNCHANGED <<phase, pending, lastBatchRoot>>
    PROVE  CoverInv'
<1>1. Replay' = Replay /\ LastBatchedSeq' = LastBatchedSeq
  BY DEF Replay, LastBatchedSeq, LastBatch
<1> QED BY <1>1 DEF CoverInv, BatchesCoverLog

\* A restart makes pending exactly what is in no batch.
LEMMA CoverOpened ==
    ASSUME ReloadReaches, TypeInv, CoverInv, Opened
    PROVE  CoverInv'
<1>1. /\ UNCHANGED <<log, batchOf, batches>>
      /\ pending' = Unbatched
      /\ lastBatchRoot' = IF batches = <<>> THEN Root(EmptyState) ELSE LastBatch.newStateRoot
  BY DEF Opened, dbVars
<1>2. Replay' = Replay /\ LastBatchedSeq' = LastBatchedSeq
  BY <1>1 DEF Replay, LastBatchedSeq, LastBatch
<1>3. Unbatched = [i \in 1..(Len(log) - LastBatchedSeq) |->
                      [seq |-> LastBatchedSeq + i, tx |-> log[LastBatchedSeq + i]]]
  <2>1. Smaller(ReloadLimit, Len(log) - LastBatchedSeq) = Len(log) - LastBatchedSeq
    <3>1. /\ Len(log) \in Nat /\ LastBatchedSeq \in 0..Len(log) /\ ReloadLimit \in Nat
          /\ Len(log) - LastBatchedSeq <= ReloadLimit
      BY CoverFacts, SequencerConfig DEF ReloadReaches, Opened
    <3> QED BY <3>1 DEF Smaller
  <2> QED BY <2>1 DEF Unbatched, TxsAfter, LastSeq
<1>4. lastBatchRoot' = Root(Replay[LastBatchedSeq].state)
  <2>1. CASE batches = <<>>
    <3>1. LastBatchedSeq = 0 /\ Replay[0].state = EmptyState
      BY <2>1, CoverFacts, LogFacts
    <3> QED BY <1>1, <2>1, <3>1
  <2>2. CASE batches # <<>>
    <3> DEFINE m == Len(batches)
    <3>1. m \in DOMAIN batches /\ LastBatchedSeq = batches[m].lastSeq /\ LastBatch = batches[m]
      BY <2>2, CoverFacts DEF LastBatch
    <3>2. batches[m].newStateRoot = Root(Replay[batches[m].lastSeq].state)
      BY <3>1 DEF CoverInv, Honest
    <3> QED BY <1>1, <2>2, <3>1, <3>2
  <2> QED BY <2>1, <2>2
<1> QED BY <1>1, <1>2, <1>3, <1>4 DEF CoverInv, BatchesCoverLog

\* A new row is in no batch, and the last one pending.
LEMMA CoverRecord ==
    ASSUME TypeInv, CoverInv, phase = "serving", Len(log) < MaxLog,
           NEW tx \in Tx, Valid(state, allowedTokens, tx), Record(tx)
    PROVE  CoverInv'
<1> DEFINE n == Len(log)
           last == LastBatchedSeq
<1>1. /\ n \in Nat /\ DOMAIN log = 1..n /\ last \in 0..n /\ log \in Seq(Tx)
      /\ DOMAIN batches = 1..Len(batches)
      /\ \A j \in DOMAIN batches :
            /\ batches[j].firstSeq \in 1..n /\ batches[j].lastSeq \in 1..n
            /\ batches[j].firstSeq <= batches[j].lastSeq
  BY CoverFacts DEF LogInv
<1>2. Valid(Replay[n].state, Token, tx)
  <2>1. state = Replay[n].state /\ allowedTokens \in SUBSET Token
    BY DEF TypeInv, MemoryInv
  <2> QED BY <2>1, ValidForAllTokens
<1>3. /\ log' = Append(log, tx) /\ Len(log') = n + 1
      /\ \A i \in 0..n : Replay'[i] = Replay[i]
  BY <1>2, LongerLog DEF Record, TypeInv
<1>4. UNCHANGED batches /\ LastBatchedSeq' = last /\ batchOf' = Append(batchOf, 0)
  BY DEF Record, PersistTx, InsertTx, LastBatchedSeq, LastBatch
<1>5. /\ \A k \in 1..n : log'[k] = log[k] /\ batchOf'[k] = batchOf[k]
      /\ DOMAIN log' = 1..(n + 1) /\ log'[n + 1] = tx /\ batchOf'[n + 1] = 0
  <2>1. batchOf \in [1..n -> 0..Len(batches)]
    BY <1>1 DEF TypeInv, StoreInv
  <2>2. batchOf \in Seq(0..Len(batches)) /\ Len(batchOf) = n
    <3>1. \A m \in Nat : \A S : \A f \in [1..m -> S] : f \in Seq(S) /\ Len(f) = m
      OBVIOUS
    <3> QED BY <1>1, <2>1, <3>1
  <2> QED BY <1>1, <1>3, <1>4, <2>2
<1>7. ASSUME NEW j \in DOMAIN batches
      PROVE  /\ batches[j].firstSeq = (IF j = 1 THEN 1 ELSE batches[j - 1].lastSeq + 1)
             /\ batches[j].txData = SubSeq(log', batches[j].firstSeq, batches[j].lastSeq)
             /\ \A k \in batches[j].firstSeq..batches[j].lastSeq : batchOf'[k] = j
             /\ Honest(batches[j], j, Replay'[batches[j].firstSeq - 1].state, Replay'[batches[j].lastSeq].state)
  <2> DEFINE a == batches[j].firstSeq
             b == batches[j].lastSeq
  <2>1. /\ a \in 1..n /\ b \in 1..n /\ a <= b
        /\ batches[j].firstSeq = (IF j = 1 THEN 1 ELSE batches[j - 1].lastSeq + 1)
        /\ batches[j].txData = SubSeq(log, a, b)
        /\ \A k \in a..b : batchOf[k] = j
        /\ Honest(batches[j], j, Replay[a - 1].state, Replay[b].state)
    BY <1>1 DEF CoverInv, BatchesCoverLog
  <2> HIDE DEF a, b
  <2>2. SubSeq(log', a, b) = SubSeq(log, a, b)
    BY <1>1, <1>3, <2>1, SubSeqAppend
  <2>3. \A k \in a..b : k \in 1..n
    BY <1>1, <2>1
  <2>4. Replay'[a - 1] = Replay[a - 1] /\ Replay'[b] = Replay[b]
    <3>1. a - 1 \in 0..n /\ b \in 0..n
      BY <1>1, <2>1
    <3> QED BY <1>3, <3>1
  <2> QED BY <1>5, <2>1, <2>2, <2>3, <2>4 DEF a, b
<1>8. \A k \in DOMAIN log' : k > last => batchOf'[k] = 0
  <2>1. ASSUME NEW k \in 1..(n + 1), k > last PROVE batchOf'[k] = 0
    <3>1. CASE k = n + 1
      BY <1>5, <3>1
    <3>2. CASE k # n + 1
      <4>1. k \in DOMAIN log
        BY <1>1, <3>2
      <4> QED BY <1>1, <1>5, <2>1, <4>1 DEF CoverInv, BatchesCoverLog
    <3> QED BY <3>1, <3>2
  <2> QED BY <1>5, <2>1
<1>9. CASE phase' # "serving"
  BY <1>4, <1>7, <1>8, <1>9 DEF CoverInv, BatchesCoverLog
<1>10. CASE /\ pending' = Append(pending, [seq |-> Len(log'), tx |-> tx])
            /\ UNCHANGED <<phase, lastBatchRoot>>
  <2> DEFINE entry(i) == [seq |-> last + i, tx |-> log[last + i]]
             count == n - last
             grown == [i \in 1..(count + 1) |-> [seq |-> last + i, tx |-> log'[last + i]]]
  <2>1. /\ pending \in Seq(PendingTx) /\ Len(pending) = count /\ count \in Nat /\ last + (count + 1) = n + 1
        /\ \A i \in 1..count : pending[i] = entry(i) /\ log'[last + i] = log[last + i]
    <3>1. pending = [i \in 1..count |-> entry(i)]
      BY DEF CoverInv, BatchesCoverLog
    <3>2. \A i \in 1..count : pending[i] = entry(i)
      BY <3>1
    <3>3. count \in Nat /\ last + (count + 1) = n + 1 /\ \A i \in 1..count : last + i \in 1..n
      BY <1>1
    <3> QED BY <1>5, <3>2, <3>3, PendingRows DEF TypeInv, PendingInv
  <2> HIDE DEF count, entry
  <2>2. pending' = [i \in 1..(count + 1) |-> IF i = count + 1 THEN [seq |-> n + 1, tx |-> tx] ELSE pending[i]]
    <3> DEFINE e == [seq |-> n + 1, tx |-> tx]
               S == PendingTx \cup {e}
    <3>1. pending \in Seq(S) /\ e \in S /\ pending' = Append(pending, e)
      <4>1. \A U, V : U \subseteq V => Seq(U) \subseteq Seq(V)
        OBVIOUS
      <4> QED BY <1>3, <1>10, <2>1, <4>1
    <3> HIDE DEF e, S
    <3>2. /\ pending' \in Seq(S) /\ Len(pending') = count + 1 /\ pending'[count + 1] = e
          /\ \A i \in 1..count : pending'[i] = pending[i]
      BY <2>1, <3>1
    <3>3. pending' = [i \in 1..(count + 1) |-> pending'[i]]
      <4>1. \A V : \A g \in Seq(V) : DOMAIN g = 1..Len(g) /\ g = [i \in DOMAIN g |-> g[i]]
        OBVIOUS
      <4> QED BY <3>2, <4>1
    <3>4. \A i \in 1..(count + 1) : i # count + 1 => i \in 1..count
      BY <2>1
    <3>5. \A i \in 1..(count + 1) : pending'[i] = IF i = count + 1 THEN e ELSE pending[i]
      BY <3>2, <3>4
    <3> QED BY <3>3, <3>5 DEF e
  <2>3. ASSUME NEW i \in 1..(count + 1)
        PROVE  (IF i = count + 1 THEN [seq |-> n + 1, tx |-> tx] ELSE pending[i])
                  = [seq |-> last + i, tx |-> log'[last + i]]
    <3>1. CASE i = count + 1
      BY <1>5, <2>1, <3>1
    <3>2. CASE i # count + 1
      <4>1. i \in 1..count
        BY <2>1, <3>2
      <4> QED BY <2>1, <3>2, <4>1 DEF entry
    <3> QED BY <3>1, <3>2
  <2>4. pending' = grown
    BY <2>2, <2>3
  <2>5. Len(log') - LastBatchedSeq' = count + 1
    BY <1>1, <1>3, <1>4 DEF count
  <2>6. pending' = [i \in 1..(Len(log') - LastBatchedSeq') |->
                       [seq |-> LastBatchedSeq' + i, tx |-> log'[LastBatchedSeq' + i]]]
    BY <1>4, <2>4, <2>5
  <2>7. lastBatchRoot' = Root(Replay'[LastBatchedSeq'].state)
    BY <1>1, <1>3, <1>4, <1>10 DEF CoverInv
  <2> QED BY <1>4, <1>7, <1>8, <2>6, <2>7 DEF CoverInv, BatchesCoverLog
<1> QED BY <1>9, <1>10 DEF Record, PushPending, LastSeq, Down

\* A batch takes the first of what is pending and leaves the rest.
LEMMA CoverSeal ==
    ASSUME TypeInv, CoverInv, SealBatch
    PROVE  CoverInv'
<1> DEFINE taken == SubSeq(pending, 1, TakenCount)
           sealed == SealedState(taken)
           batch == NewBatch(taken, sealed)
           first == LastBatchedSeq
           t == Len(taken)
           n == Len(log)
           m == Len(batches)
<1>1. /\ phase = "serving" /\ pending # <<>>
      /\ PersistBatch(taken, sealed)
      /\ \/ /\ pending' = SubSeq(pending, t + 1, Len(pending))
            /\ lastBatchRoot' = Root(sealed)
            /\ UNCHANGED phase
         \/ phase' = "down"
  BY DEF SealBatch, Sealable, Down
<1>2. /\ t \in 1..Len(pending) /\ first \in Nat /\ first + t \in 1..n /\ Len(pending) = n - first
      /\ batch.firstSeq = first + 1 /\ batch.lastSeq = first + t
      /\ batch.txData = SubSeq(log, first + 1, first + t)
      /\ sealed = Replay[first + t].state
      /\ Honest(batch, m + 1, Replay[first].state, Replay[first + t].state)
  BY <1>1, SealHonest
<1>3. /\ batches' = Append(batches, batch) /\ UNCHANGED log
      /\ batchOf' = [k \in DOMAIN batchOf |-> IF k \in batch.firstSeq..batch.lastSeq
                                              THEN m + 1 ELSE batchOf[k]]
  BY <1>1 DEF PersistBatch, InsertBatch, AssignBatch
<1>4. Len(log) = n /\ Len(taken) = t /\ Len(batches) = m /\ LastBatchedSeq = first
  OBVIOUS
<1> HIDE DEF taken, sealed, batch, first, t, n, m
<1>5. /\ n \in Nat /\ t \in Nat /\ t >= 1 /\ m \in Nat /\ first \in Nat /\ first + t <= n
      /\ DOMAIN log = 1..n /\ DOMAIN batches = 1..m
      /\ \A j \in 1..m : /\ batches[j].firstSeq \in 1..n /\ batches[j].lastSeq \in 1..n
                         /\ batches[j].firstSeq <= batches[j].lastSeq
                         /\ batches[j].lastSeq <= first
      /\ m = 0 => first = 0
      /\ m # 0 => first = batches[m].lastSeq
  BY <1>2, <1>4, CoverFacts
<1>6. Replay' = Replay
  BY <1>3 DEF Replay
<1>7. /\ DOMAIN batches' = 1..(m + 1) /\ Len(batches') = m + 1 /\ batches' # <<>>
      /\ batches'[m + 1] = batch /\ \A j \in 1..m : batches'[j] = batches[j]
  <2>1. batches \in Seq(BatchRecord)
    BY DEF TypeInv, StoreInv
  <2> QED BY <1>3, <1>4, <1>5, <2>1
<1>8. LastBatchedSeq' = first + t
  BY <1>2, <1>7 DEF LastBatchedSeq, LastBatch
<1>9. \A k \in 1..n : batchOf'[k] = IF k \in (first + 1)..(first + t) THEN m + 1 ELSE batchOf[k]
  <2>1. DOMAIN batchOf = 1..n
    BY <1>5 DEF TypeInv, StoreInv
  <2> QED BY <1>2, <1>3, <2>1
<1>10. ASSUME NEW j \in 1..(m + 1)
       PROVE  /\ batches'[j].firstSeq = (IF j = 1 THEN 1 ELSE batches'[j - 1].lastSeq + 1)
              /\ batches'[j].txData = SubSeq(log', batches'[j].firstSeq, batches'[j].lastSeq)
              /\ \A k \in batches'[j].firstSeq..batches'[j].lastSeq : batchOf'[k] = j
              /\ batches'[j].firstSeq <= batches'[j].lastSeq
              /\ batches'[j].lastSeq <= first + t
              /\ Honest(batches'[j], j, Replay'[batches'[j].firstSeq - 1].state, Replay'[batches'[j].lastSeq].state)
  <2>1. CASE j = m + 1
    <3>1. batches'[j] = batch
      BY <1>7, <2>1
    <3>2. first + 1 = (IF j = 1 THEN 1 ELSE batches'[j - 1].lastSeq + 1)
      <4>1. CASE m = 0
        BY <1>5, <2>1, <4>1
      <4>2. CASE m # 0
        <5>1. j # 1 /\ j - 1 = m /\ m \in 1..m
          BY <1>5, <2>1, <4>2
        <5> QED BY <1>5, <1>7, <4>2, <5>1
      <4> QED BY <4>1, <4>2
    <3>3. \A k \in (first + 1)..(first + t) : k \in 1..n /\ batchOf'[k] = m + 1
      BY <1>5, <1>9
    <3>4. first + 1 <= first + t /\ first + t <= first + t /\ (first + 1) - 1 = first
      BY <1>5
    <3>5. batches'[j].firstSeq = first + 1 /\ batches'[j].lastSeq = first + t
          /\ batches'[j].txData = SubSeq(log', first + 1, first + t)
      BY <1>2, <1>3, <3>1
    <3>6. Honest(batches'[j], j, Replay'[(first + 1) - 1].state, Replay'[first + t].state)
      BY <1>2, <1>6, <2>1, <3>1, <3>4
    <3> QED BY <2>1, <3>2, <3>3, <3>4, <3>5, <3>6
  <2>2. CASE j # m + 1
    <3>1. j \in 1..m /\ batches'[j] = batches[j] /\ (j # 1 => batches'[j - 1] = batches[j - 1])
      <4>1. j \in 1..m /\ (j # 1 => j - 1 \in 1..m)
        BY <1>5, <2>2
      <4> QED BY <1>7, <4>1
    <3>2. /\ batches[j].firstSeq = (IF j = 1 THEN 1 ELSE batches[j - 1].lastSeq + 1)
          /\ batches[j].txData = SubSeq(log, batches[j].firstSeq, batches[j].lastSeq)
          /\ \A k \in batches[j].firstSeq..batches[j].lastSeq : batchOf[k] = j
          /\ Honest(batches[j], j, Replay[batches[j].firstSeq - 1].state, Replay[batches[j].lastSeq].state)
      BY <1>5, <3>1 DEF CoverInv, BatchesCoverLog
    <3>3. \A k \in batches[j].firstSeq..batches[j].lastSeq : batchOf'[k] = j
      <4>1. ASSUME NEW k \in batches[j].firstSeq..batches[j].lastSeq PROVE batchOf'[k] = j
        <5>1. k \in 1..n /\ k \notin (first + 1)..(first + t)
          BY <1>5, <3>1
        <5> QED BY <1>9, <3>2, <5>1
      <4> QED BY <4>1
    <3>4. batches[j].lastSeq <= first + t
      <4>1. batches[j].lastSeq <= first /\ batches[j].lastSeq \in Nat
        BY <1>5, <3>1
      <4> QED BY <1>5, <4>1
    <3>5. batches[j].firstSeq <= batches[j].lastSeq
      BY <1>5, <3>1
    <3> QED BY <1>3, <1>6, <3>1, <3>2, <3>3, <3>4, <3>5
  <2> QED BY <2>1, <2>2
<1>11. \A k \in DOMAIN log' : k > first + t => batchOf'[k] = 0
  <2>1. ASSUME NEW k \in 1..n, k > first + t PROVE batchOf'[k] = 0
    <3>1. k > first /\ k \notin (first + 1)..(first + t)
      BY <1>5, <2>1
    <3>2. batchOf[k] = 0
      BY <1>4, <1>5, <3>1 DEF CoverInv, BatchesCoverLog
    <3> QED BY <1>9, <3>1, <3>2
  <2> QED BY <1>3, <1>5, <2>1
<1>12. CASE phase' # "serving"
  BY <1>7, <1>8, <1>10, <1>11, <1>12 DEF CoverInv, BatchesCoverLog
<1>13. CASE pending' = SubSeq(pending, t + 1, Len(pending)) /\ lastBatchRoot' = Root(sealed)
  <2> DEFINE p == Len(pending)
             rest == n - (first + t)
             row(i) == [seq |-> (first + t) + i, tx |-> log[(first + t) + i]]
  <2>1. pending \in Seq(PendingTx) /\ p \in Nat /\ t \in 1..p /\ p = n - first /\ p - (t + 1) + 1 = rest
    BY <1>2, <1>5, PendingFacts DEF TypeInv, PendingInv
  <2>2. pending' = [i \in 1..(p - (t + 1) + 1) |-> pending[(t + 1) + i - 1]]
    <3>1. t + 1 \in 1..(Len(pending) + 1) /\ Len(pending) \in 0..Len(pending) /\ t + 1 <= Len(pending) + 1
      BY <2>1
    <3> QED BY <1>13, <2>1, <3>1, SubSeqIs
  <2>3. pending = [i \in 1..(n - first) |-> [seq |-> first + i, tx |-> log[first + i]]]
    BY <1>1, <1>4 DEF CoverInv, BatchesCoverLog
  <2>4. ASSUME NEW i \in 1..rest PROVE pending[(t + 1) + i - 1] = row(i)
    <3>1. (t + 1) + i - 1 = t + i /\ t + i \in 1..(n - first) /\ first + (t + i) = (first + t) + i
      BY <1>5
    <3> QED BY <2>3, <3>1
  <2>5. pending' = [i \in 1..rest |-> row(i)]
    BY <2>1, <2>2, <2>4
  <2>6. pending' = [i \in 1..(Len(log') - LastBatchedSeq') |->
                       [seq |-> LastBatchedSeq' + i, tx |-> log'[LastBatchedSeq' + i]]]
    BY <1>3, <1>4, <1>8, <2>5
  <2>7. lastBatchRoot' = Root(Replay'[LastBatchedSeq'].state)
    BY <1>2, <1>6, <1>8, <1>13
  <2> QED BY <1>7, <1>8, <1>10, <1>11, <2>6, <2>7 DEF CoverInv, BatchesCoverLog
<1> QED BY <1>1, <1>12, <1>13

-----------------------------------------------------------------------------
LEMMA CoverInit == Init => CoverInv
<1> SUFFICES ASSUME Init PROVE CoverInv
  OBVIOUS
<1>1. log = <<>> /\ batches = <<>> /\ phase = "down" /\ DOMAIN log = {} /\ DOMAIN batches = {}
  BY DEF Init, EmptyStore
<1> QED BY <1>1 DEF CoverInv, BatchesCoverLog

LEMMA CoverNext == ReloadReaches /\ TypeInv /\ CoverInv /\ [Next]_vars => CoverInv'
<1> SUFFICES ASSUME ReloadReaches, TypeInv, CoverInv, [Next]_vars PROVE CoverInv'
  OBVIOUS
<1>1. ASSUME NEW tokens \in AllowedTokenSets, Open(tokens) PROVE CoverInv'
  BY <1>1, CoverSame DEF Open, dbVars
<1>2. CASE ReplayRow
  BY <1>2, CoverSame DEF ReplayRow, dbVars
<1>3. CASE Opened
  BY <1>3, CoverOpened
<1>4. ASSUME NEW tx \in Request, Submit(tx) PROVE CoverInv'
  BY <1>4, CoverRecord DEF Submit, Tx
<1>5. ASSUME NEW n \in DOMAIN L1Deposit, IngestDeposit(n - 1) PROVE CoverInv'
  <2>1. DepositTx(n - 1) \in Tx
    BY DEF Tx
  <2> QED BY <1>5, <2>1, CoverRecord DEF IngestDeposit
<1>6. CASE SealBatch
  BY <1>6, CoverSeal
<1>7. CASE ReplayThrows \/ Crash \/ Shutdown
  BY <1>7, CoverSame DEF ReplayThrows, Crash, Shutdown, Down, dbVars
<1>8. CASE UNCHANGED vars
  BY <1>8, CoverSame DEF vars, dbVars, memVars
<1> QED BY <1>1, <1>2, <1>3, <1>4, <1>5, <1>6, <1>7, <1>8 DEF Next

\* What the auditor of the first j batches has found.
AuditedTo(j) == [ok |-> TRUE, state |-> Replay[IF j = 0 THEN 0 ELSE batches[j].lastSeq].state]

\* The audit of one batch more.
AuditStep(before, j) ==
    LET replay == ReplayBatch(before.state, j, batches[j].txData)
    IN  [ok |-> /\ before.ok
                /\ replay.ok
                /\ batches[j].prevStateRoot = Root(before.state)
                /\ batches[j].newStateRoot = replay.newStateRoot
                /\ batches[j].withdrawalsRoot = replay.withdrawalsRoot
                /\ batches[j].depositCursor = replay.state.nextDepositIndex,
         state |-> replay.state]

LEMMA AuditOfNext ==
    ASSUME TypeInv, CoverInv, NEW j \in 1..Len(batches)
    PROVE  AuditStep(AuditedTo(j - 1), j) = AuditedTo(j)
<1> DEFINE a == batches[j].firstSeq
           b == batches[j].lastSeq
<1>1. /\ Len(batches) \in Nat /\ DOMAIN batches = 1..Len(batches) /\ j # 0
      /\ (j # 1 => j - 1 \in DOMAIN batches) /\ (j - 1 = 0 <=> j = 1)
  BY CoverFacts
<1>2. /\ a = (IF j = 1 THEN 1 ELSE batches[j - 1].lastSeq + 1)
      /\ Honest(batches[j], j, Replay[a - 1].state, Replay[b].state)
  BY <1>1 DEF CoverInv, BatchesCoverLog
<1>3. a - 1 = IF j = 1 THEN 0 ELSE batches[j - 1].lastSeq
  <2>1. j # 1 => batches[j - 1].lastSeq \in 1..Len(log)
    BY <1>1, CoverFacts
  <2> QED BY <1>2, <2>1, CoverFacts
<1> HIDE DEF a, b
<1>4. AuditedTo(j - 1) = [ok |-> TRUE, state |-> Replay[a - 1].state]
  BY <1>1, <1>3 DEF AuditedTo
<1>5. AuditedTo(j) = [ok |-> TRUE, state |-> Replay[b].state]
  BY <1>1 DEF AuditedTo, b
<1> DEFINE replay == ReplayBatch(Replay[a - 1].state, j, batches[j].txData)
<1>6. /\ replay.ok = TRUE /\ replay.state = Replay[b].state
      /\ replay.newStateRoot = Root(Replay[b].state)
      /\ batches[j].prevStateRoot = Root(Replay[a - 1].state)
      /\ batches[j].newStateRoot = replay.newStateRoot
      /\ batches[j].withdrawalsRoot = replay.withdrawalsRoot
      /\ batches[j].depositCursor = replay.state.nextDepositIndex
  BY <1>2 DEF Honest, ReplayBatch
<1> HIDE DEF replay
<1>7. AuditStep(AuditedTo(j - 1), j) = [ok |-> TRUE, state |-> replay.state]
  <2> DEFINE before == [ok |-> TRUE, state |-> Replay[a - 1].state]
             agrees == /\ before.ok
                       /\ replay.ok
                       /\ batches[j].prevStateRoot = Root(before.state)
                       /\ batches[j].newStateRoot = replay.newStateRoot
                       /\ batches[j].withdrawalsRoot = replay.withdrawalsRoot
                       /\ batches[j].depositCursor = replay.state.nextDepositIndex
  <2>1. before.ok = TRUE /\ before.state = Replay[a - 1].state
    OBVIOUS
  <2> HIDE DEF before
  <2>2. agrees = TRUE
    BY <1>6, <2>1
  <2>3. AuditStep(before, j) = [ok |-> agrees, state |-> replay.state]
    BY <2>1 DEF AuditStep, replay
  <2> HIDE DEF agrees
  <2> QED BY <1>4, <2>2, <2>3 DEF before
<1> QED BY <1>5, <1>6, <1>7

LEMMA AuditFollows == TypeInv /\ CoverInv => AuditPasses
<1> SUFFICES ASSUME TypeInv, CoverInv PROVE AuditPasses
  OBVIOUS
<1> DEFINE m == Len(batches)
           found == [j \in 0..m |-> AuditedTo(j)]
           a == CHOOSE a : a = [j \in 0..m |->
                    IF j = 0 THEN [ok |-> TRUE, state |-> EmptyState] ELSE AuditStep(a[j - 1], j)]
<1>1. m \in Nat
  BY CoverFacts
<1>2. Audit = a[m]
  BY DEF Audit, AuditStep
<1>3. AuditedTo(0) = [ok |-> TRUE, state |-> EmptyState]
  BY LogFacts DEF AuditedTo, TypeInv
<1>4. \A j \in 1..m : j - 1 \in 0..m /\ AuditStep(AuditedTo(j - 1), j) = AuditedTo(j)
  BY <1>1, AuditOfNext
<1>5. found = [j \in 0..m |->
                  IF j = 0 THEN [ok |-> TRUE, state |-> EmptyState] ELSE AuditStep(found[j - 1], j)]
  <2>1. ASSUME NEW j \in 0..m
        PROVE  AuditedTo(j) = IF j = 0 THEN [ok |-> TRUE, state |-> EmptyState]
                                       ELSE AuditStep(found[j - 1], j)
    <3>1. CASE j = 0
      BY <1>3, <3>1
    <3>2. CASE j # 0
      <4>1. j \in 1..m
        BY <1>1, <3>2
      <4>2. found[j - 1] = AuditedTo(j - 1)
        BY <1>4, <4>1
      <4> QED BY <1>4, <3>2, <4>1, <4>2
    <3> QED BY <3>1, <3>2
  <2> QED BY <2>1
<1> HIDE DEF found
<1>6. a = [j \in 0..m |->
              IF j = 0 THEN [ok |-> TRUE, state |-> EmptyState] ELSE AuditStep(a[j - 1], j)]
  BY <1>5
<1> DEFINE T == {j \in 0..m : a[j] = AuditedTo(j)}
<1> HIDE DEF a, m
<1>7. 0 \in T
  BY <1>1, <1>3, <1>6
<1>8. ASSUME NEW k \in 0..(m - 1), k \in T PROVE k + 1 \in T
  <2>1. k + 1 \in 1..m /\ k + 1 \in 0..m /\ (k + 1) - 1 = k /\ k + 1 # 0
    BY <1>1
  <2>2. a[k + 1] = AuditStep(a[k], k + 1)
    BY <1>6, <2>1
  <2>3. AuditStep(AuditedTo((k + 1) - 1), k + 1) = AuditedTo(k + 1)
    BY <1>4, <2>1
  <2> QED BY <1>8, <2>1, <2>2, <2>3
<1> HIDE DEF T
<1>9. \A k \in 0..m : k \in T
  BY <1>1, <1>7, <1>8, UpTo
<1>10. a[m] = AuditedTo(m)
  BY <1>1, <1>9 DEF T
<1> QED BY <1>2, <1>10 DEF AuditPasses, AuditedTo

\* Batches cut the log into consecutive pieces and pending is the rest, whatever
\* the caps of a batch and wherever the process dies, as long as each restart
\* reloads all that is in no batch (sealBatch, reloadPending).
THEOREM SpecBatchesCoverLog == Spec /\ []ReloadReaches => []BatchesCoverLog
<1>1. CoverInv => BatchesCoverLog
  BY DEF CoverInv
<1> QED BY <1>1, TypeInit, TypeNext, CoverInit, CoverNext, PTL DEF Spec

\* Under the same condition whoever replays what is published finds every root,
\* every outbox and every deposit cursor as the sequencer published it.
THEOREM SpecAuditPasses == Spec /\ []ReloadReaches => []AuditPasses
BY TypeInit, TypeNext, CoverInit, CoverNext, AuditFollows, PTL DEF Spec

-----------------------------------------------------------------------------
(* The refinement of FlashLedger *)

\* What is published is the log up to the end of the last batch.
PublishedIsPrefix == Published = SubSeq(log, 1, LastBatchedSeq)

\* Two consecutive pieces of a sequence make one.
LEMMA SubSeqJoin ==
    ASSUME NEW S, NEW f \in Seq(S), NEW a \in 0..Len(f), NEW b \in 0..Len(f), a <= b
    PROVE  SubSeq(f, 1, a) \o SubSeq(f, a + 1, b) = SubSeq(f, 1, b)
<1> DEFINE left == SubSeq(f, 1, a)
           right == SubSeq(f, a + 1, b)
           joined == left \o right
<1>0. a \in Nat /\ b \in Nat /\ Len(f) \in Nat /\ a + 1 \in 1..(Len(f) + 1) /\ 1 \in 1..(Len(f) + 1)
      /\ a + 1 <= b + 1 /\ 1 <= a + 1 /\ 1 <= b + 1
  OBVIOUS
<1>1. /\ left = [i \in 1..(a - 1 + 1) |-> f[1 + i - 1]]
      /\ right = [i \in 1..(b - (a + 1) + 1) |-> f[(a + 1) + i - 1]]
      /\ SubSeq(f, 1, b) = [i \in 1..(b - 1 + 1) |-> f[1 + i - 1]]
  BY <1>0, SubSeqIs
<1>2. left \in Seq(S) /\ right \in Seq(S) /\ Len(left) = a /\ Len(right) = b - a
  BY <1>0
<1>3. /\ \A i \in 1..a : left[i] = f[i]
      /\ \A i \in 1..(b - a) : right[i] = f[a + i]
      /\ SubSeq(f, 1, b) = [i \in 1..b |-> f[i]]
  <2>1. ASSUME NEW i \in 1..a PROVE left[i] = f[i]
    <3>1. 1 + i - 1 = i /\ i \in 1..(a - 1 + 1)
      BY <1>0
    <3> QED BY <1>1, <3>1
  <2>2. ASSUME NEW i \in 1..(b - a) PROVE right[i] = f[a + i]
    <3>1. (a + 1) + i - 1 = a + i /\ i \in 1..(b - (a + 1) + 1)
      BY <1>0
    <3> QED BY <1>1, <3>1
  <2>3. b - 1 + 1 = b /\ \A i \in 1..b : 1 + i - 1 = i
    BY <1>0
  <2> QED BY <1>1, <2>1, <2>2, <2>3
<1> HIDE DEF left, right
<1>4. joined \in Seq(S) /\ Len(joined) = b
  BY <1>0, <1>2, SMTT(30)
<1>5. \A i \in 1..b : joined[i] = f[i]
  <2>1. ASSUME NEW i \in 1..b PROVE joined[i] = f[i]
    <3>1. CASE i <= a
      <4>1. i \in 1..a
        BY <1>0, <3>1
      <4>2. joined[i] = left[i]
        BY <1>0, <1>2, <4>1
      <4> HIDE DEF joined
      <4> QED BY <1>3, <4>1, <4>2
    <3>2. CASE i > a
      <4>1. i - a \in 1..(b - a) /\ a + (i - a) = i
        BY <1>0, <3>2
      <4>2. joined[i] = right[i - a]
        BY <1>0, <1>2, <3>2
      <4> HIDE DEF joined
      <4>3. right[i - a] = f[a + (i - a)]
        BY <1>3, <4>1
      <4> QED BY <4>1, <4>2, <4>3
    <3>3. i <= a \/ i > a
      BY <1>0
    <3> HIDE DEF joined
    <3> QED BY <3>1, <3>2, <3>3
  <2> QED BY <2>1
<1> HIDE DEF joined
<1>6. joined = [i \in 1..b |-> joined[i]]
  <2>1. \A V : \A g \in Seq(V) : DOMAIN g = 1..Len(g) /\ g = [i \in DOMAIN g |-> g[i]]
    OBVIOUS
  <2> QED BY <1>4, <2>1
<1>7. joined = SubSeq(f, 1, b)
  BY <1>3, <1>5, <1>6
<1> QED BY <1>7 DEF joined, left, right

LEMMA PublishedFollows == TypeInv /\ CoverInv => PublishedIsPrefix
<1> SUFFICES ASSUME TypeInv, CoverInv PROVE PublishedIsPrefix
  OBVIOUS
<1> DEFINE m == Len(batches)
           end(j) == IF j = 0 THEN 0 ELSE batches[j].lastSeq
           upTo == [j \in 0..m |-> SubSeq(log, 1, end(j))]
           data == CHOOSE data : data = [j \in 0..m |->
                       IF j = 0 THEN <<>> ELSE data[j - 1] \o batches[j].txData]
<1>1. /\ m \in Nat /\ log \in Seq(Tx) /\ Len(log) \in Nat
      /\ \A j \in 0..m : end(j) \in 0..Len(log)
  BY CoverFacts DEF LogInv
<1>2. Published = data[m]
  BY DEF Published
<1>3. SubSeq(log, 1, end(0)) = <<>>
  BY <1>1
<1>4. ASSUME NEW j \in 1..m
      PROVE  j - 1 \in 0..m /\ SubSeq(log, 1, end(j - 1)) \o batches[j].txData = SubSeq(log, 1, end(j))
  <2>1. j - 1 \in 0..m /\ j \in DOMAIN batches /\ j # 0 /\ j \in 0..m /\ (j = 1 <=> j - 1 = 0)
    BY <1>1, CoverFacts
  <2>2. /\ batches[j].firstSeq = end(j - 1) + 1
        /\ batches[j].txData = SubSeq(log, batches[j].firstSeq, batches[j].lastSeq)
        /\ end(j) = batches[j].lastSeq
    BY <2>1 DEF CoverInv, BatchesCoverLog
  <2>3. end(j - 1) <= end(j) /\ end(j - 1) \in 0..Len(log) /\ end(j) \in 0..Len(log)
    <3>1. batches[j].firstSeq <= batches[j].lastSeq /\ batches[j].lastSeq \in Nat
      BY <2>1, CoverFacts
    <3>2. end(j - 1) \in 0..Len(log) /\ end(j) \in 0..Len(log)
      BY <1>1, <2>1
    <3> HIDE DEF end
    <3> QED BY <1>1, <2>2, <3>1, <3>2
  <2> HIDE DEF end
  <2>4. SubSeq(log, 1, end(j - 1)) \o SubSeq(log, end(j - 1) + 1, end(j)) = SubSeq(log, 1, end(j))
    BY <1>1, <2>3, SubSeqJoin
  <2> QED BY <2>1, <2>2, <2>4
<1> HIDE DEF end
<1>5. upTo = [j \in 0..m |-> IF j = 0 THEN <<>> ELSE upTo[j - 1] \o batches[j].txData]
  <2>1. ASSUME NEW j \in 0..m
        PROVE  SubSeq(log, 1, end(j)) = IF j = 0 THEN <<>> ELSE upTo[j - 1] \o batches[j].txData
    <3>1. CASE j = 0
      BY <1>3, <3>1
    <3>2. CASE j # 0
      <4>1. j \in 1..m
        BY <1>1, <3>2
      <4>2. upTo[j - 1] = SubSeq(log, 1, end(j - 1))
        BY <1>4, <4>1
      <4> HIDE DEF upTo
      <4> QED BY <1>4, <3>2, <4>1, <4>2
    <3> QED BY <3>1, <3>2
  <2> QED BY <2>1
<1> HIDE DEF upTo
<1>6. data = [j \in 0..m |-> IF j = 0 THEN <<>> ELSE data[j - 1] \o batches[j].txData]
  BY <1>5
<1> DEFINE T == {j \in 0..m : data[j] = SubSeq(log, 1, end(j))}
<1>a. Len(batches) = m
  OBVIOUS
<1> HIDE DEF data, m
<1>7. 0 \in T
  BY <1>1, <1>3, <1>6
<1>8. ASSUME NEW k \in 0..(m - 1), k \in T PROVE k + 1 \in T
  <2>1. k + 1 \in 1..m /\ k + 1 \in 0..m /\ (k + 1) - 1 = k /\ k + 1 # 0
    BY <1>1
  <2>2. data[k + 1] = data[k] \o batches[k + 1].txData
    BY <1>6, <2>1
  <2>3. SubSeq(log, 1, end((k + 1) - 1)) \o batches[k + 1].txData = SubSeq(log, 1, end(k + 1))
    BY <1>4, <2>1
  <2> QED BY <1>8, <2>1, <2>2, <2>3
<1> HIDE DEF T
<1>9. \A k \in 0..m : k \in T
  BY <1>1, <1>7, <1>8, UpTo
<1>10. data[m] = SubSeq(log, 1, end(m))
  BY <1>1, <1>9 DEF T
<1>11. end(m) = LastBatchedSeq
  BY <1>1, <1>a, CoverFacts DEF end
<1> QED BY <1>2, <1>10, <1>11 DEF PublishedIsPrefix

\* The ledger validates and executes transactions as the sequencer does.
LEMMA SameValidation ==
    ASSUME NEW s, NEW tokens, NEW tx
    PROVE  Promise!Valid(s, tokens, tx) = Valid(s, tokens, tx)
BY Zenon DEF Valid, NonceMatches, BalanceCovers, Get,
             Promise!Valid, Promise!NonceMatches, Promise!BalanceCovers, Promise!Get

LEMMA SameReplayTx ==
    ASSUME NEW before, NEW tx
    PROVE  Promise!ReplayTx(before, tx) = ReplayTx(before, tx)
<1>1. Promise!Apply(before.state, tx) = Apply(before.state, tx)
  BY Zenon DEF Apply, Credit, DebitAndBump, Put, Get,
               Promise!Apply, Promise!Credit, Promise!DebitAndBump, Promise!Put, Promise!Get
<1>2. Promise!Valid(before.state, Token, tx) = Valid(before.state, Token, tx)
  BY SameValidation
<1> QED BY <1>1, <1>2, Zenon DEF ReplayTx, WithdrawalOf, Promise!ReplayTx, Promise!WithdrawalOf

LEMMA SameBook == Promise!StateAfter(log) = StateAfter(log)
<1> DEFINE Next1(r) == [i \in 0..Len(log) |->
               IF i = 0 THEN [ok |-> TRUE, state |-> EmptyState, withdrawals |-> <<>>]
               ELSE ReplayTx(r[i - 1], log[i])]
           Next2(r) == [i \in 0..Len(log) |->
               IF i = 0 THEN [ok |-> TRUE, state |-> Promise!EmptyState, withdrawals |-> <<>>]
               ELSE Promise!ReplayTx(r[i - 1], log[i])]
<1>1. Promise!EmptyState = EmptyState
  BY Zenon DEF EmptyState, Promise!EmptyState
<1>2. \A r : Next1(r) = Next2(r)
  BY <1>1, SameReplayTx
<1>3. (CHOOSE r : r = Next1(r)) = (CHOOSE r : r = Next2(r))
  <2> HIDE DEF Next1, Next2
  <2> QED BY <1>2
<1>4. Promise!StateAfter(log) = (CHOOSE r : r = Next2(r))[Len(log)].state
  BY Zenon DEF Promise!StateAfter, Promise!ReplayFrom
<1>5. StateAfter(log) = (CHOOSE r : r = Next1(r))[Len(log)].state
  BY Zenon DEF StateAfter, ReplayFrom
<1> QED BY <1>3, <1>4, <1>5, Zenon

\* A transaction enters the log only when the ledger accepts it.
LEMMA RecordAccepts ==
    ASSUME TypeInv, phase = "serving", NEW tx \in Tx, Valid(state, allowedTokens, tx), Record(tx)
    PROVE  Promise!Accept(tx)
<1>1. state = StateAfter(log) /\ allowedTokens \in SUBSET Token
  BY MemoryFollows DEF TypeInv, MemoryInv, MemoryIsReplayOfLog
<1>2. Valid(StateAfter(log), Token, tx)
  BY <1>1, ValidForAllTokens
<1>3. log' = Append(log, tx) /\ UNCHANGED batches
  BY DEF Record, PersistTx, InsertTx
<1>4. Published' = Published
  BY <1>3 DEF Published
<1>5. Promise!Valid(Promise!StateAfter(log), Token, tx)
  BY <1>2, SameBook, SameValidation
<1> QED BY <1>3, <1>4, <1>5 DEF Promise!Accept, Promise!Book

\* A sealed batch publishes the transactions that follow the published ones.
LEMMA SealPublishes ==
    ASSUME TypeInv, CoverInv, PublishedIsPrefix, PublishedIsPrefix', SealBatch
    PROVE  \E n \in DOMAIN log : Promise!Publish(n)
<1> DEFINE taken == SubSeq(pending, 1, TakenCount)
           batch == NewBatch(taken, SealedState(taken))
           first == LastBatchedSeq
           n == first + Len(taken)
<1>1. phase = "serving" /\ pending # <<>> /\ PersistBatch(taken, SealedState(taken))
  BY DEF SealBatch, Sealable
<1>2. /\ Len(taken) \in 1..Len(pending) /\ first \in Nat /\ n \in 1..Len(log)
      /\ batch.lastSeq = n
  BY <1>1, SealHonest
<1>3. batches' = Append(batches, batch) /\ UNCHANGED log
  BY <1>1 DEF PersistBatch, InsertBatch
<1>4. first < n /\ first \in 0..Len(log)
  <2>1. Len(taken) >= 1 /\ Len(taken) \in Int
    <3>1. Len(pending) \in Nat
      BY PendingFacts DEF TypeInv
    <3>2. \A p \in Nat : \A x \in 1..p : x >= 1 /\ x \in Int
      OBVIOUS
    <3> HIDE DEF taken
    <3> QED BY <1>2, <3>1, <3>2
  <2>2. first \in 0..Len(log)
    BY CoverFacts
  <2> HIDE DEF taken
  <2> QED BY <1>2, <2>1, <2>2
<1> HIDE DEF batch, taken, first, n
<1>5. LastBatchedSeq' = n
  <2>1. batches \in Seq(BatchRecord)
    BY DEF TypeInv, StoreInv
  <2>2. batches' # <<>> /\ batches'[Len(batches')] = batch
    BY <1>3, <2>1
  <2> QED BY <1>2, <2>2 DEF LastBatchedSeq, LastBatch
<1>6. Published' = SubSeq(log, 1, n)
  BY <1>3, <1>5 DEF PublishedIsPrefix
<1>7. Len(Published) = first
  <2>1. log \in Seq(Tx) /\ Len(log) \in Nat
    BY CoverFacts DEF LogInv
  <2> QED BY <1>4, <2>1 DEF PublishedIsPrefix, first
<1>8. n \in DOMAIN log
  BY <1>2, CoverFacts
<1>9. n > Len(Published)
  BY <1>2, <1>4, <1>7, CoverFacts
<1> QED BY <1>3, <1>6, <1>8, <1>9 DEF Promise!Publish

\* Every step of the process is one of the ledger, or none.
LEMMA StepsAreTheLedgers ==
    TypeInv /\ CoverInv /\ PublishedIsPrefix /\ PublishedIsPrefix' /\ [Next]_vars
        => [Promise!Next]_Promise!vars
<1> SUFFICES ASSUME TypeInv, CoverInv, PublishedIsPrefix, PublishedIsPrefix', [Next]_vars
             PROVE  [Promise!Next]_Promise!vars
  OBVIOUS
<1>1. ASSUME UNCHANGED <<log, batches>> PROVE UNCHANGED Promise!vars
  BY <1>1 DEF Promise!vars, Published
<1>2. ASSUME NEW tokens \in AllowedTokenSets, Open(tokens) PROVE UNCHANGED <<log, batches>>
  BY <1>2 DEF Open, dbVars
<1>3. ReplayRow \/ ReplayThrows \/ Opened \/ Crash \/ Shutdown => UNCHANGED <<log, batches>>
  BY DEF ReplayRow, ReplayThrows, Opened, Crash, Shutdown, dbVars
<1>4. ASSUME NEW tx \in Request, Submit(tx) PROVE Promise!Next
  <2>1. Promise!Accept(tx)
    BY <1>4, RecordAccepts DEF Submit, Tx
  <2> QED BY <2>1 DEF Promise!Next
<1>5. ASSUME NEW n \in DOMAIN L1Deposit, IngestDeposit(n - 1) PROVE Promise!Next
  <2>1. DepositTx(n - 1) \in Tx
    BY DEF Tx
  <2>2. Promise!Accept(DepositTx(n - 1))
    BY <1>5, <2>1, RecordAccepts DEF IngestDeposit
  <2>3. (n - 1) + 1 = n
    BY TxFacts, SequencerConfig
  <2>4. Promise!CreditDeposit(n)
    BY <2>2, <2>3 DEF DepositTx, Promise!CreditDeposit
  <2> QED BY <2>4 DEF Promise!Next
<1>6. CASE SealBatch
  BY <1>6, SealPublishes DEF Promise!Next
<1>7. UNCHANGED vars => UNCHANGED <<log, batches>>
  BY DEF vars, dbVars
<1> QED BY <1>1, <1>2, <1>3, <1>4, <1>5, <1>6, <1>7 DEF Next

\* The sequencer implements the ledger it promises: what it accepts is final at
\* once, and is published in order, without gaps and once, through every crash
\* and restart that reloads all that is in no batch.
THEOREM SpecKeepsPromise == Spec /\ []ReloadReaches => KeepsPromise
<1>1. Init => Promise!Init
  <2>1. ASSUME Init PROVE log = <<>> /\ batches = <<>> /\ TypeInv /\ CoverInv
    BY <2>1, TypeInit, CoverInit DEF Init, EmptyStore
  <2>2. ASSUME Init PROVE Published = <<>>
    <3>1. PublishedIsPrefix /\ log = <<>> /\ LastBatchedSeq = 0
      BY <2>1, <2>2, PublishedFollows DEF LastBatchedSeq
    <3>2. SubSeq(<<>>, 1, 0) = <<>>
      OBVIOUS
    <3> QED BY <3>1, <3>2 DEF PublishedIsPrefix
  <2> QED BY <2>1, <2>2 DEF Promise!Init
<1> QED BY <1>1, TypeInit, TypeNext, CoverInit, CoverNext, PublishedFollows, StepsAreTheLedgers, PTL
        DEF Spec, KeepsPromise, Promise!Spec

-----------------------------------------------------------------------------
(* The outbox and the proofs made from it *)

\* No row of the log is taken twice.
SeqsDiffer(taken) == \A i, j \in 1..Len(taken) : taken[i].seq = taken[j].seq => i = j

\* Each withdraw taken has one row, and the rows are nothing else.
RowsAre(rows, taken, n) ==
    /\ \A w \in DOMAIN rows : \E i \in 1..n : rows[w] = taken[i] /\ taken[i].tx.type = "withdraw"
    /\ \A i \in 1..n : taken[i].tx.type = "withdraw" => \E w \in DOMAIN rows : rows[w] = taken[i]
    /\ \A v, w \in DOMAIN rows : rows[v].seq = rows[w].seq => v = w

LEMMA OutboxRowsAre ==
    ASSUME NEW taken \in Seq(PendingTx), SeqsDiffer(taken)
    PROVE  RowsAre(OutboxRows(taken), taken, Len(taken))
<1>1. PICK rows : OutboxFold(rows, taken)
  BY OutboxIsFold
<1> DEFINE n == Len(taken)
           T == {i \in 0..n : RowsAre(rows[i], taken, i)}
<1>2. n \in Nat /\ Len(taken) = n
  OBVIOUS
<1>3. 0 \in T
  <2>1. rows[0] = <<>> /\ DOMAIN rows[0] = {}
    BY <1>1 DEF OutboxFold
  <2> QED BY <1>2, <2>1 DEF RowsAre
<1>4. ASSUME NEW k \in 0..(n - 1), k \in T PROVE k + 1 \in T
  <2>1. /\ k + 1 \in 1..n /\ (k + 1) - 1 = k /\ k \in 0..n /\ k + 1 \in 0..n /\ k \in Nat
        /\ \A i \in 1..k : i \in 1..(k + 1) /\ i \in 1..n /\ i # k + 1
        /\ \A i \in 1..(k + 1) : i = k + 1 \/ i \in 1..k
    BY <1>2
  <2>2. /\ rows[k] \in Seq(PendingTx)
        /\ rows[k + 1] = IF taken[k + 1].tx.type = "withdraw" THEN Append(rows[k], taken[k + 1]) ELSE rows[k]
    <3>1. \A i \in 1..n : rows[i] = IF taken[i].tx.type = "withdraw"
                                    THEN Append(rows[i - 1], taken[i]) ELSE rows[i - 1]
      BY <1>1 DEF OutboxFold
    <3> QED BY <1>1, <2>1, <3>1 DEF OutboxFold
  <2>3. RowsAre(rows[k], taken, k)
    BY <1>4
  <2> HIDE DEF n, T
  <2>4. CASE taken[k + 1].tx.type = "withdraw"
    <3> DEFINE m == Len(rows[k])
               before == rows[k]
               after == rows[k + 1]
    <3>1. /\ m \in Nat /\ DOMAIN before = 1..m /\ DOMAIN after = 1..(m + 1)
          /\ after[m + 1] = taken[k + 1]
          /\ \A w \in 1..m : after[w] = before[w]
      BY <2>2, <2>4
    <3> HIDE DEF m, before, after
    <3>2. /\ \A w \in 1..m : w \in 1..(m + 1) /\ w # m + 1
          /\ \A w \in 1..(m + 1) : w = m + 1 \/ w \in 1..m
          /\ m + 1 \in 1..(m + 1)
      BY <3>1
    <3>3. \A w \in 1..m : \E i \in 1..k : before[w] = taken[i] /\ taken[i].tx.type = "withdraw"
      BY <2>3, <3>1 DEF RowsAre, before
    <3>4. ASSUME NEW w \in 1..(m + 1)
          PROVE  \E i \in 1..(k + 1) : after[w] = taken[i] /\ taken[i].tx.type = "withdraw"
      <4>1. CASE w = m + 1
        <5>1. k + 1 \in 1..(k + 1)
          BY <2>1
        <5> QED BY <2>4, <3>1, <4>1, <5>1
      <4>2. CASE w \in 1..m
        BY <2>1, <3>1, <3>3, <4>2
      <4> QED BY <3>2, <4>1, <4>2
    <3>5. ASSUME NEW i \in 1..(k + 1), taken[i].tx.type = "withdraw"
          PROVE  \E w \in 1..(m + 1) : after[w] = taken[i]
      <4>1. CASE i = k + 1
        BY <3>1, <3>2, <4>1
      <4>2. CASE i \in 1..k
        <5>1. PICK w \in 1..m : before[w] = taken[i]
          BY <2>3, <3>1, <3>5, <4>2 DEF RowsAre, before
        <5> QED BY <3>1, <3>2, <5>1
      <4> QED BY <2>1, <4>1, <4>2
    <3>6. ASSUME NEW w \in 1..m PROVE before[w].seq # taken[k + 1].seq
      <4>1. PICK i \in 1..k : before[w] = taken[i]
        BY <3>3
      <4>2. i \in 1..n /\ k + 1 \in 1..n /\ i # k + 1
        BY <2>1
      <4> QED BY <1>2, <4>1, <4>2 DEF SeqsDiffer
    <3>7. \A v, w \in 1..m : before[v].seq = before[w].seq => v = w
      BY <2>3, <3>1 DEF RowsAre, before
    <3>8. ASSUME NEW v \in 1..(m + 1), NEW w \in 1..(m + 1), after[v].seq = after[w].seq PROVE v = w
      <4>1. CASE v \in 1..m /\ w \in 1..m
        BY <3>1, <3>7, <3>8, <4>1
      <4>2. CASE v = m + 1 /\ w \in 1..m
        BY <3>1, <3>6, <3>8, <4>2
      <4>3. CASE v \in 1..m /\ w = m + 1
        BY <3>1, <3>6, <3>8, <4>3
      <4>4. CASE v = m + 1 /\ w = m + 1
        BY <4>4
      <4> QED BY <3>2, <4>1, <4>2, <4>3, <4>4
    <3>9. RowsAre(after, taken, k + 1)
      BY <3>1, <3>4, <3>5, <3>8 DEF RowsAre
    <3> QED BY <2>1, <3>9 DEF T, after
  <2>5. CASE taken[k + 1].tx.type # "withdraw"
    <3>1. rows[k + 1] = rows[k]
      BY <2>2, <2>5
    <3>2. RowsAre(rows[k], taken, k + 1)
      BY <2>1, <2>3, <2>5 DEF RowsAre
    <3> QED BY <2>1, <3>1, <3>2 DEF T
  <2> QED BY <2>4, <2>5
<1> HIDE DEF T
<1>5. \A k \in 0..n : k \in T
  BY <1>2, <1>3, <1>4, UpTo
<1>6. RowsAre(rows[n], taken, n)
  BY <1>2, <1>5 DEF T
<1> QED BY <1>1, <1>6 DEF OutboxFold

\* What is numbered 1..n, each number once.
Numbered(R, f, n) ==
    /\ \A k \in R : f[k] \in 1..n
    /\ \A j, k \in R : f[j] = f[k] => j = k
    /\ \A w \in 1..n : \E k \in R : f[k] = w

LEMMA NumberedCount ==
    ASSUME NEW R, NEW f, NEW n \in Nat, Numbered(R, f, n)
    PROVE  Cardinality(R) = n
<1> DEFINE g == [w \in 1..n |-> CHOOSE k \in R : f[k] = w]
<1>1. \A w \in 1..n : g[w] \in R /\ f[g[w]] = w
  BY DEF Numbered
<1>2. g \in [1..n -> R]
  BY <1>1
<1> HIDE DEF g
<1>3. \A v, w \in 1..n : g[v] = g[w] => v = w
  BY <1>1
<1>4. \A k \in R : f[k] \in 1..n /\ g[f[k]] = k
  BY <1>1 DEF Numbered
<1>5. g \in Bijection(1..n, R)
  BY <1>2, <1>3, <1>4 DEF Bijection, Injection, Surjection, IsInjective
<1>6. ExistsBijection(1..n, R)
  BY <1>5 DEF ExistsBijection
<1> QED BY <1>6, FS_CountingElements

\* What comes before k.
Before(R, f, k) == {j \in R : f[j] < f[k]}

LEMMA NumberedRank ==
    ASSUME NEW R, NEW f, NEW n \in Nat, Numbered(R, f, n), NEW k \in R
    PROVE  Cardinality(Before(R, f, k)) = f[k] - 1
<1> DEFINE B == {j \in R : f[j] < f[k]}
<1>1. f[k] \in 1..n /\ f[k] - 1 \in Nat
  BY DEF Numbered
<1>2. \A j \in B : f[j] \in 1..(f[k] - 1)
  <2>1. \A j \in R : f[j] \in 1..n
    BY DEF Numbered
  <2> QED BY <1>1, <2>1
<1>3. \A w \in 1..(f[k] - 1) : \E j \in B : f[j] = w
  <2>1. ASSUME NEW w \in 1..(f[k] - 1) PROVE \E j \in B : f[j] = w
    <3>1. w \in 1..n /\ w < f[k]
      BY <1>1
    <3>2. PICK j \in R : f[j] = w
      BY <3>1 DEF Numbered
    <3> QED BY <3>1, <3>2
  <2> QED BY <2>1
<1>4. \A i, j \in B : f[i] = f[j] => i = j
  BY DEF Numbered
<1> HIDE DEF B
<1>5. Numbered(B, f, f[k] - 1)
  BY <1>2, <1>3, <1>4 DEF Numbered
<1>6. Cardinality(B) = f[k] - 1
  BY <1>1, <1>5, NumberedCount
<1> QED BY <1>6 DEF B, Before

\* Every withdraw in a batch has its own row of the outbox, which names the batch
\* and its leaf, and every leaf has a row (sealBatch, insertWithdrawal).
OutboxInv ==
    /\ \A k \in DOMAIN log : k \in DOMAIN outbox <=> log[k].type = "withdraw" /\ batchOf[k] # 0
    /\ \A k \in DOMAIN outbox :
          LET leaves == batches[batchOf[k]].withdrawalsRoot.leaves
          IN  /\ outbox[k].batchIndex = batchOf[k]
              /\ outbox[k].wIndex \in DOMAIN leaves
              /\ leaves[outbox[k].wIndex] = WithdrawalOf(log[k])
    /\ \A j, k \in DOMAIN outbox : outbox[j] = outbox[k] => j = k
    /\ \A b \in DOMAIN batches :
          /\ batches[b].withdrawalsRoot.batch = b
          /\ \A w \in DOMAIN batches[b].withdrawalsRoot.leaves :
                \E k \in DOMAIN outbox : outbox[k] = [batchIndex |-> b, wIndex |-> w]

\* The rows of a batch, read in the order of w_index, are its leaves.
LEMMA RowsInOrder ==
    ASSUME TypeInv, OutboxInv, NEW b \in DOMAIN batches,
           NEW leaves, leaves = batches[b].withdrawalsRoot.leaves
    PROVE  /\ Len(leaves) \in Nat /\ DOMAIN leaves = 1..Len(leaves)
           /\ Cardinality(RowsOfBatch(b)) = Len(leaves)
           /\ [w \in DOMAIN OrderedRows(b) |-> WithdrawalOf(log[OrderedRows(b)[w]])] = leaves
           /\ batches[b].withdrawalsRoot = WithdrawalsTree(b, leaves)
<1> DEFINE n == Len(leaves)
           R == RowsOfBatch(b)
           f == [k \in R |-> outbox[k].wIndex]
           ordered == OrderedRows(b)
<1>1. /\ n \in Nat /\ DOMAIN leaves = 1..n /\ leaves = [w \in DOMAIN leaves |-> leaves[w]]
      /\ batches[b].withdrawalsRoot = WithdrawalsTree(b, leaves)
  <2>1. batches[b] \in BatchRecord
    BY DEF TypeInv, StoreInv
  <2> DEFINE W == [recipient : Account, token : Token, amount : Nat \ {0}]
  <2>2. batches[b].withdrawalsRoot \in [batch : 1..(Len(batches) + 1), leaves : Seq(W)]
    BY <2>1 DEF BatchRecord
  <2> HIDE DEF W
  <2>3. leaves \in Seq(W)
    BY <2>2
  <2>4. \A g \in Seq(W) : Len(g) \in Nat /\ DOMAIN g = 1..Len(g) /\ g = [w \in DOMAIN g |-> g[w]]
    OBVIOUS
  <2>5. batches[b].withdrawalsRoot = [batch |-> b, leaves |-> leaves]
    BY <2>2 DEF OutboxInv
  <2> QED BY <2>3, <2>4, <2>5 DEF WithdrawalsTree
<1>2. \A k \in R : /\ k \in DOMAIN outbox /\ outbox[k].batchIndex = b /\ batchOf[k] = b
                   /\ f[k] = outbox[k].wIndex /\ f[k] \in 1..n
                   /\ leaves[f[k]] = WithdrawalOf(log[k])
                   /\ outbox[k] = [batchIndex |-> b, wIndex |-> f[k]]
  <2>1. ASSUME NEW k \in R
        PROVE  /\ k \in DOMAIN outbox /\ outbox[k].batchIndex = b /\ batchOf[k] = b
               /\ f[k] = outbox[k].wIndex /\ f[k] \in 1..n
               /\ leaves[f[k]] = WithdrawalOf(log[k])
               /\ outbox[k] = [batchIndex |-> b, wIndex |-> f[k]]
    <3>1. k \in DOMAIN outbox /\ outbox[k].batchIndex = b /\ f[k] = outbox[k].wIndex
      BY DEF RowsOfBatch
    <3>2. outbox[k] \in WithdrawalRecord
      BY <3>1 DEF TypeInv, StoreInv
    <3>3. outbox[k] = [batchIndex |-> b, wIndex |-> outbox[k].wIndex]
      BY <3>1, <3>2 DEF WithdrawalRecord
    <3>4. /\ outbox[k].batchIndex = batchOf[k]
          /\ outbox[k].wIndex \in DOMAIN batches[batchOf[k]].withdrawalsRoot.leaves
          /\ batches[batchOf[k]].withdrawalsRoot.leaves[outbox[k].wIndex] = WithdrawalOf(log[k])
      BY <3>1 DEF OutboxInv
    <3>5. batchOf[k] = b /\ outbox[k].wIndex \in 1..n /\ leaves[outbox[k].wIndex] = WithdrawalOf(log[k])
      BY <1>1, <3>1, <3>4
    <3> HIDE DEF f, R, n
    <3> QED BY <3>1, <3>3, <3>5
  <2> QED BY <2>1
<1>3. \A w \in 1..n : \E k \in R : f[k] = w
  <2>1. ASSUME NEW w \in 1..n PROVE \E k \in R : f[k] = w
    <3>1. PICK k \in DOMAIN outbox : outbox[k] = [batchIndex |-> b, wIndex |-> w]
      <4>1. w \in DOMAIN batches[b].withdrawalsRoot.leaves
        BY <1>1
      <4> QED BY <4>1 DEF OutboxInv
    <3>2. outbox[k].batchIndex = b /\ outbox[k].wIndex = w
      BY <3>1
    <3>3. k \in R
      BY <3>2 DEF RowsOfBatch
    <3>4. f[k] = w
      BY <3>2, <3>3
    <3> QED BY <3>3, <3>4
  <2> HIDE DEF R, f
  <2> QED BY <2>1
<1> DEFINE before(k) == {j \in R : outbox[j].wIndex < outbox[k].wIndex}
<1>4. \A k \in R : before(k) = Before(R, f, k)
  <2>1. \A k \in R : f[k] = outbox[k].wIndex
    OBVIOUS
  <2> HIDE DEF R, f
  <2> QED BY <2>1 DEF Before
<1>5. ordered = [w \in 1..Cardinality(R) |-> CHOOSE k \in R : Cardinality(before(k)) = w - 1]
  BY DEF OrderedRows
<1> HIDE DEF R, f, ordered, before
<1>6. Numbered(R, f, n)
  <2>1. ASSUME NEW j \in R, NEW k \in R, f[j] = f[k] PROVE j = k
    <3>1. outbox[j] = outbox[k] /\ j \in DOMAIN outbox /\ k \in DOMAIN outbox
      BY <1>2, <2>1
    <3> QED BY <3>1 DEF OutboxInv
  <2> QED BY <1>2, <1>3, <2>1 DEF Numbered
<1>7. Cardinality(R) = n
  BY <1>1, <1>6, NumberedCount
<1>8. ASSUME NEW k \in R PROVE Cardinality(before(k)) = f[k] - 1
  <2>1. before(k) = Before(R, f, k)
    BY <1>4
  <2>2. Cardinality(Before(R, f, k)) = f[k] - 1
    BY <1>1, <1>6, NumberedRank
  <2> QED BY <2>1, <2>2
<1>9. ASSUME NEW w \in 1..n PROVE ordered[w] \in R /\ f[ordered[w]] = w
  <2>1. PICK k \in R : f[k] = w
    BY <1>3
  <2>2. Cardinality(before(k)) = w - 1
    BY <1>8, <2>1
  <2>3. ordered[w] = CHOOSE j \in R : Cardinality(before(j)) = w - 1
    BY <1>5, <1>7
  <2>4. ordered[w] \in R /\ Cardinality(before(ordered[w])) = w - 1
    BY <2>2, <2>3, Zenon
  <2>5. f[ordered[w]] - 1 = w - 1 /\ f[ordered[w]] \in 1..n
    BY <1>2, <1>8, <2>4
  <2> QED BY <1>1, <2>4, <2>5
<1>10. DOMAIN ordered = 1..n
  BY <1>5, <1>7
<1>11. \A w \in 1..n : WithdrawalOf(log[ordered[w]]) = leaves[w]
  BY <1>2, <1>9
<1>12. [w \in DOMAIN ordered |-> WithdrawalOf(log[ordered[w]])] = leaves
  BY <1>1, <1>10, <1>11
<1> QED BY <1>1, <1>7, <1>12 DEF R, ordered

\* The proof of a burn leads from its leaf to the root of its batch.
LEMMA BurnProofVerifies ==
    ASSUME TypeInv, OutboxInv, NEW k \in DOMAIN outbox, k \in DOMAIN log, NEW b, b = batchOf[k], b # 0,
           NEW given, given = WithdrawalProof(k)
    PROVE  /\ outbox[k].wIndex \in 1..Cardinality(RowsOfBatch(b))
           /\ VerifyProof(Leaf([batch |-> b, wIndex |-> given.wIndex, leaf |-> given.leaf]),
                          given.wIndex, given.proof, ComputeRoot(OutboxTree(batches[b].withdrawalsRoot)))
<1> DEFINE leaves == batches[b].withdrawalsRoot.leaves
           tree == OutboxTree(batches[b].withdrawalsRoot)
           w == outbox[k].wIndex
<1>1. b \in DOMAIN batches
  BY BatchFacts DEF TypeInv, StoreInv
<1>2. outbox[k].batchIndex = b /\ w \in DOMAIN leaves /\ leaves[w] = WithdrawalOf(log[k])
  BY DEF OutboxInv
<1>3. /\ Len(leaves) \in Nat /\ DOMAIN leaves = 1..Len(leaves)
      /\ Cardinality(RowsOfBatch(b)) = Len(leaves)
      /\ [v \in DOMAIN OrderedRows(b) |-> WithdrawalOf(log[OrderedRows(b)[v]])] = leaves
      /\ batches[b].withdrawalsRoot = WithdrawalsTree(b, leaves)
  BY <1>1, RowsInOrder
<1>4. given = [leaf |-> WithdrawalOf(log[k]), wIndex |-> w - 1, proof |-> GetProof(tree, w - 1)]
  BY <1>2, <1>3 DEF WithdrawalProof
<1>5. tree = [v \in DOMAIN leaves |-> Leaf([batch |-> b, wIndex |-> v - 1, leaf |-> leaves[v]])]
  BY <1>3 DEF OutboxTree, WithdrawalLeaf, WithdrawalsTree
<1> HIDE DEF tree, leaves, w
<1>6. Len(tree) = Len(leaves)
  <2>1. DOMAIN tree = 1..Len(leaves) /\ tree = [v \in DOMAIN tree |-> tree[v]]
    BY <1>3, <1>5
  <2> QED BY <1>3, <2>1, LenOfFunction
<1>7. w - 1 \in Nat /\ w - 1 < Len(tree) /\ (w - 1) + 1 = w
  BY <1>2, <1>3, <1>6
<1>8. VerifyProof(tree[(w - 1) + 1], w - 1, GetProof(tree, w - 1), ComputeRoot(tree))
  BY <1>3, <1>6, <1>7, ProofsAreComplete
<1>9. tree[(w - 1) + 1] = Leaf([batch |-> b, wIndex |-> w - 1, leaf |-> leaves[w]])
  BY <1>2, <1>5, <1>7
<1>10. w \in 1..Cardinality(RowsOfBatch(b))
  BY <1>2, <1>3
<1> QED BY <1>2, <1>4, <1>8, <1>9, <1>10 DEF tree, w

-----------------------------------------------------------------------------
(* The proofs of balances *)

\* The states of the replay have finitely many accounts, and some after the
\* first transaction.
LEMMA ReplayAccounts ==
    ASSUME LogInv
    PROVE  \A i \in 0..Len(log) : /\ FiniteAccounts(Replay[i].state)
                                  /\ i # 0 => DOMAIN Replay[i].state.accounts # {}
<1> DEFINE n == Len(log)
           Good(i) == FiniteAccounts(Replay[i].state) /\ (i # 0 => DOMAIN Replay[i].state.accounts # {})
           T == {i \in 0..n : Good(i)}
<1>1. n \in Nat /\ Replay[0].state = EmptyState
  BY LogFacts
<1>2. 0 \in T
  <2>1. DOMAIN EmptyState.accounts = {}
    BY DEF EmptyState
  <2> QED BY <1>1, <2>1, FS_EmptySet DEF FiniteAccounts
<1>3. ASSUME NEW k \in 0..(n - 1), k \in T PROVE k + 1 \in T
  <2>1. k + 1 \in 1..n /\ k + 1 \in 0..n /\ (k + 1) - 1 = k
    BY <1>1
  <2>2. log[k + 1] \in L2Tx /\ Replay[k + 1].state = Apply(Replay[k].state, log[k + 1])
    BY <2>1, LogFacts
  <2>3. FiniteAccounts(Replay[k].state)
    BY <1>3
  <2>4. FiniteAccounts(Replay[k + 1].state) /\ DOMAIN Replay[k + 1].state.accounts # {}
    BY <2>2, <2>3, ApplyKeys
  <2> QED BY <2>1, <2>4
<1> HIDE DEF T
<1>4. \A k \in 0..n : k \in T
  BY <1>1, <1>2, <1>3, UpTo
<1> QED BY <1>4 DEF T

\* Every row of the log changes the root, and none changes it back.
LEMMA RootsDiffer ==
    ASSUME LogInv, NEW m \in 0..Len(log), NEW n \in 0..Len(log), m < n
    PROVE  Root(Replay[m].state) # Root(Replay[n].state)
<1> DEFINE from == Replay[m].state
           T == {i \in 0..(n - m) : i # 0 => Ahead(from, Replay[m + i].state)}
<1>1. /\ Len(log) \in Nat /\ m \in Nat /\ n \in Nat /\ n - m \in Nat /\ n - m # 0 /\ m + (n - m) = n /\ m + 0 = m
      /\ \A i \in 0..(n - m) : m + i \in 0..Len(log)
  BY LogFacts
<1>2. \A i \in 0..Len(log) : Replay[i].state \in States
  BY LogFacts
<1>3. 0 \in T
  BY <1>1
<1>4. ASSUME NEW k \in 0..((n - m) - 1), k \in T PROVE k + 1 \in T
  <2>1. /\ k + 1 \in 0..(n - m) /\ k \in 0..(n - m) /\ m + (k + 1) \in 1..Len(log)
        /\ (m + (k + 1)) - 1 = m + k /\ m + k \in 0..Len(log)
    BY <1>1
  <2>2. k = 0 => m + k = m
    BY <1>1
  <2> DEFINE s == Replay[m + k].state
             tx == log[m + (k + 1)]
  <2>3. /\ tx \in L2Tx /\ Valid(s, Token, tx) /\ Replay[m + (k + 1)].state = Apply(s, tx)
    BY <2>1, LogFacts
  <2>4. from = s \/ Ahead(from, s)
    BY <1>4, <2>2
  <2>5. from \in States /\ s \in States
    BY <1>2, <2>1
  <2> HIDE DEF s, tx, from
  <2>6. Ahead(from, Apply(s, tx))
    BY <2>3, <2>4, <2>5, ApplyGoesAhead
  <2> QED BY <2>1, <2>3, <2>6
<1> HIDE DEF T
<1>5. \A k \in 0..(n - m) : k \in T
  BY <1>1, <1>3, <1>4, UpTo
<1>6. Ahead(from, Replay[n].state)
  <2>1. n - m \in 0..(n - m)
    BY <1>1
  <2>2. n - m \in T
    BY <1>5, <2>1
  <2> QED BY <1>1, <2>2 DEF T
<1> QED BY <1>2, <1>6, AheadHasOtherRoot

\* The proof of a balance is taken as long as nothing follows the last batch.
LEMMA BalanceProofVerifies ==
    ASSUME TypeInv, CoverInv, phase = "serving", batches # <<>>, NEW key \in DOMAIN state.accounts,
           NEW given, given = BalanceProof(key[1], key[2])
    PROVE  VerifyProof(StateLeaf(given.leaf), given.leafIndex, given.proof,
                       ComputeRoot(StateTree(LastBatch.newStateRoot)))
               <=> pending = <<>>
<1> DEFINE n == Len(log)
           last == LastBatchedSeq
           s == Replay[n].state
           t == Replay[last].state
<1>1. /\ LogInv /\ n \in Nat /\ last \in 0..n /\ Len(batches) \in DOMAIN batches
      /\ last = batches[Len(batches)].lastSeq /\ last \in 1..n
  BY CoverFacts
<1>2. LastBatch.newStateRoot = Root(t)
  BY <1>1 DEF CoverInv, Honest, LastBatch
<1>3. state = s
  BY DEF TypeInv, MemoryInv
<1>4. Len(pending) = n - last /\ Len(pending) \in Nat /\ (pending = <<>> <=> Len(pending) = 0)
  BY PendingRows, PendingFacts DEF TypeInv, PendingInv
<1> HIDE DEF n, last
<1>5. /\ s \in States /\ t \in States /\ FiniteAccounts(s) /\ FiniteAccounts(t)
      /\ DOMAIN t.accounts # {}
  <2>1. n \in 0..Len(log) /\ last \in 0..Len(log) /\ last # 0
    BY <1>1 DEF n
  <2> QED BY <1>1, <2>1, LogFacts, ReplayAccounts
<1>6. pending = <<>> <=> Root(s) = Root(t)
  <2>1. CASE pending = <<>>
    <3>1. n = last
      BY <1>1, <1>4, <2>1
    <3> QED BY <2>1, <3>1
  <2>2. CASE pending # <<>>
    <3>1. last < n /\ n \in 0..Len(log) /\ last \in 0..Len(log)
      BY <1>1, <1>4, <2>2 DEF n
    <3>2. Root(t) # Root(s)
      BY <1>1, <3>1, RootsDiffer
    <3> QED BY <2>2, <3>2
  <2> QED BY <2>1, <2>2
<1> HIDE DEF s, t
<1>7. VerifyProof(StateLeaf(given.leaf), given.leafIndex, given.proof, ComputeRoot(StateTree(Root(t))))
          <=> Root(s) = Root(t)
  <2>1. given = ProofFor(s, key[1], key[2]) /\ key \in DOMAIN s.accounts
    BY <1>3 DEF BalanceProof
  <2>2. IsFiniteSet(DOMAIN s.accounts) /\ IsFiniteSet(DOMAIN t.accounts)
    BY <1>5 DEF FiniteAccounts
  <2> QED BY <1>5, <2>1, <2>2, BalanceProofIsForItsRoot
<1> QED BY <1>2, <1>6, <1>7

-----------------------------------------------------------------------------
(* The outbox, step by step *)

LEMMA OutboxSame ==
    ASSUME OutboxInv, UNCHANGED <<log, batchOf, batches, outbox>>
    PROVE  OutboxInv'
BY DEF OutboxInv

\* A new row is in no batch and has no row of the outbox.
LEMMA OutboxRecord ==
    ASSUME TypeInv, OutboxInv, NEW tx \in Tx, Record(tx)
    PROVE  OutboxInv'
<1> DEFINE n == Len(log)
<1>1. /\ n \in Nat /\ DOMAIN log = 1..n /\ log \in Seq(Tx)
      /\ batchOf \in [1..n -> 0..Len(batches)] /\ DOMAIN outbox \subseteq 1..n
  BY LogFacts DEF TypeInv, LogInv, StoreInv
<1>2. log' = Append(log, tx) /\ batchOf' = Append(batchOf, 0) /\ UNCHANGED <<batches, outbox>>
  BY DEF Record, PersistTx, InsertTx
<1>3. /\ \A k \in 1..n : log'[k] = log[k] /\ batchOf'[k] = batchOf[k]
      /\ DOMAIN log' = 1..(n + 1) /\ batchOf'[n + 1] = 0
  <2>1. batchOf \in Seq(0..Len(batches)) /\ Len(batchOf) = n
    <3>1. \A m \in Nat : \A S : \A f \in [1..m -> S] : f \in Seq(S) /\ Len(f) = m
      OBVIOUS
    <3> QED BY <1>1, <3>1
  <2> QED BY <1>1, <1>2, <2>1
<1> HIDE DEF n
<1>4. n + 1 \notin DOMAIN outbox /\ \A k \in 1..(n + 1) : k = n + 1 \/ k \in 1..n
  BY <1>1
<1>5. ASSUME NEW k \in DOMAIN log'
      PROVE  k \in DOMAIN outbox <=> log'[k].type = "withdraw" /\ batchOf'[k] # 0
  <2>1. CASE k = n + 1
    BY <1>3, <1>4, <2>1
  <2>2. CASE k \in 1..n
    BY <1>1, <1>3, <2>2 DEF OutboxInv
  <2> QED BY <1>3, <1>4, <2>1, <2>2
<1>6. \A k \in DOMAIN outbox : log'[k] = log[k] /\ batchOf'[k] = batchOf[k]
  BY <1>1, <1>3
<1>7. ASSUME NEW k \in DOMAIN outbox
      PROVE  /\ outbox[k].batchIndex = batchOf'[k]
             /\ outbox[k].wIndex \in DOMAIN batches[batchOf'[k]].withdrawalsRoot.leaves
             /\ batches[batchOf'[k]].withdrawalsRoot.leaves[outbox[k].wIndex] = WithdrawalOf(log'[k])
  BY <1>6 DEF OutboxInv
<1>8. /\ \A j, k \in DOMAIN outbox : outbox[j] = outbox[k] => j = k
      /\ \A b \in DOMAIN batches :
            /\ batches[b].withdrawalsRoot.batch = b
            /\ \A w \in DOMAIN batches[b].withdrawalsRoot.leaves :
                  \E k \in DOMAIN outbox : outbox[k] = [batchIndex |-> b, wIndex |-> w]
  BY DEF OutboxInv
<1>9. outbox' = outbox /\ batches' = batches
  BY <1>2
<1>10. \A k \in DOMAIN log' : k \in DOMAIN outbox' <=> log'[k].type = "withdraw" /\ batchOf'[k] # 0
  BY <1>5, <1>9
<1>11. \A k \in DOMAIN outbox' :
          /\ outbox'[k].batchIndex = batchOf'[k]
          /\ outbox'[k].wIndex \in DOMAIN batches'[batchOf'[k]].withdrawalsRoot.leaves
          /\ batches'[batchOf'[k]].withdrawalsRoot.leaves[outbox'[k].wIndex] = WithdrawalOf(log'[k])
  BY <1>7, <1>9
<1>12. /\ \A j, k \in DOMAIN outbox' : outbox'[j] = outbox'[k] => j = k
       /\ \A b \in DOMAIN batches' :
             /\ batches'[b].withdrawalsRoot.batch = b
             /\ \A w \in DOMAIN batches'[b].withdrawalsRoot.leaves :
                   \E k \in DOMAIN outbox' : outbox'[k] = [batchIndex |-> b, wIndex |-> w]
  BY <1>8, <1>9
<1> QED BY <1>10, <1>11, <1>12 DEF OutboxInv

\* Of the rows first + 1 to first + t of the log the withdraws are these.
Withdraws(rows, first, t) ==
    /\ \A w \in DOMAIN rows : /\ rows[w].seq \in (first + 1)..(first + t)
                              /\ rows[w].tx = log[rows[w].seq] /\ rows[w].tx.type = "withdraw"
    /\ \A k \in (first + 1)..(first + t) :
          log[k].type = "withdraw" => \E w \in DOMAIN rows : rows[w].seq = k
    /\ \A v, w \in DOMAIN rows : rows[v].seq = rows[w].seq => v = w

\* They become the rows of batch b in the outbox.
RowsAdded(rows, b) ==
    LET new == {rows[w].seq : w \in DOMAIN rows}
    IN  /\ DOMAIN outbox' = DOMAIN outbox \cup new
        /\ \A w \in DOMAIN rows : outbox'[rows[w].seq] = [batchIndex |-> b, wIndex |-> w]
        /\ \A k \in DOMAIN outbox : k \notin new => outbox'[k] = outbox[k]

LEMMA SealedRows ==
    ASSUME TypeInv, CoverInv, SealBatch, NEW taken, taken = SubSeq(pending, 1, TakenCount),
           NEW rows, rows = OutboxRows(taken), NEW first, first = LastBatchedSeq,
           NEW b, b = Len(batches) + 1
    PROVE  Withdraws(rows, first, Len(taken)) /\ RowsAdded(rows, b)
<1> DEFINE t == Len(taken)
           seqs == {rows[w].seq : w \in DOMAIN rows}
           indices == [k \in seqs |-> WithdrawalIndex(taken, k)]
<1>1. phase = "serving" /\ pending # <<>> /\ PersistBatch(taken, SealedState(taken))
  BY DEF SealBatch, Sealable
<1>2. /\ taken \in Seq(PendingTx) /\ t \in 1..Len(pending) /\ t \in Nat
      /\ \A i \in 1..t : taken[i] = pending[i]
  <2>1. /\ taken \in Seq(PendingTx) /\ Len(taken) \in 1..Len(pending)
        /\ \A i \in 1..Len(taken) : taken[i] = pending[i]
    BY <1>1, SealFacts DEF TypeInv
  <2>2. Len(taken) \in Nat
    BY <2>1
  <2> QED BY <2>1, <2>2
<1>3. /\ first \in Nat
      /\ \A i \in 1..Len(pending) : pending[i].seq = first + i /\ pending[i].tx = log[first + i]
  BY <1>1, PendingRows, CoverFacts
<1>4. \A i \in 1..t : taken[i].seq = first + i /\ taken[i].tx = log[first + i]
  <2>1. Len(pending) \in Nat /\ \A i \in 1..t : i \in 1..Len(pending)
    BY <1>2, PendingFacts DEF TypeInv
  <2> QED BY <1>2, <1>3, <2>1
<1> HIDE DEF t
<1>5. SeqsDiffer(taken)
  <2>1. ASSUME NEW i \in 1..t, NEW j \in 1..t, taken[i].seq = taken[j].seq PROVE i = j
    <3>1. first + i = first + j
      BY <1>4, <2>1
    <3> QED BY <1>2, <1>3, <3>1
  <2> QED BY <2>1 DEF SeqsDiffer, t
<1>6. RowsAre(rows, taken, t)
  BY <1>2, <1>5, OutboxRowsAre DEF t
<1>8. ASSUME NEW w \in DOMAIN rows
      PROVE  /\ rows[w].seq \in (first + 1)..(first + t)
             /\ rows[w].tx = log[rows[w].seq] /\ rows[w].tx.type = "withdraw"
  <2>1. PICK i \in 1..t : rows[w] = taken[i] /\ taken[i].tx.type = "withdraw"
    BY <1>6 DEF RowsAre
  <2>2. first + i \in (first + 1)..(first + t)
    BY <1>2, <1>3
  <2> QED BY <1>4, <2>1, <2>2
<1>9. ASSUME NEW k \in (first + 1)..(first + t), log[k].type = "withdraw"
      PROVE  \E w \in DOMAIN rows : rows[w].seq = k
  <2>1. PICK i \in 1..t : first + i = k
    <3>1. k - first \in 1..t /\ first + (k - first) = k
      BY <1>2, <1>3
    <3> QED BY <3>1
  <2>2. taken[i].seq = k /\ taken[i].tx = log[k]
    BY <1>4, <2>1
  <2>3. taken[i].tx.type = "withdraw"
    BY <1>9, <2>2
  <2>4. PICK w \in DOMAIN rows : rows[w] = taken[i]
    BY <1>6, <2>3 DEF RowsAre
  <2> QED BY <2>2, <2>4
<1>10. \A v, w \in DOMAIN rows : rows[v].seq = rows[w].seq => v = w
  BY <1>6 DEF RowsAre
<1>11. ASSUME NEW w \in DOMAIN rows PROVE rows[w].seq \in seqs /\ WithdrawalIndex(taken, rows[w].seq) = w
  <2>1. WithdrawalIndex(taken, rows[w].seq) = CHOOSE v \in DOMAIN rows : rows[v].seq = rows[w].seq
    BY DEF WithdrawalIndex
  <2> DEFINE v == WithdrawalIndex(taken, rows[w].seq)
  <2>2. v \in DOMAIN rows /\ rows[v].seq = rows[w].seq
    BY <2>1, Zenon
  <2> QED BY <1>10, <2>2
<1>12. outbox' = [k \in DOMAIN outbox \cup seqs |->
                     IF k \in seqs THEN [batchIndex |-> b, wIndex |-> indices[k]] ELSE outbox[k]]
  BY <1>1 DEF PersistBatch, InsertWithdrawals
<1>13. \A w \in DOMAIN rows : rows[w].seq \in seqs /\ indices[rows[w].seq] = w
  BY <1>11
<1> HIDE DEF indices, seqs
<1>14. \A w \in DOMAIN rows : outbox'[rows[w].seq] = [batchIndex |-> b, wIndex |-> w]
  BY <1>12, <1>13
<1>15. DOMAIN outbox' = DOMAIN outbox \cup seqs
  BY <1>12
<1>16. \A k \in DOMAIN outbox : k \notin seqs => outbox'[k] = outbox[k]
  BY <1>12
<1>17. RowsAdded(rows, b)
  BY <1>14, <1>15, <1>16 DEF RowsAdded, seqs
<1> QED BY <1>8, <1>9, <1>10, <1>17 DEF Withdraws, t

LEMMA OutboxSeal ==
    ASSUME TypeInv, CoverInv, OutboxInv, SealBatch
    PROVE  OutboxInv'
<1> DEFINE taken == SubSeq(pending, 1, TakenCount)
           batch == NewBatch(taken, SealedState(taken))
           rows == OutboxRows(taken)
           first == LastBatchedSeq
           t == Len(taken)
           n == Len(log)
           m == Len(batches)
           new == {rows[w].seq : w \in DOMAIN rows}
           leaves == [w \in DOMAIN rows |-> WithdrawalOf(rows[w].tx)]
<1>1. phase = "serving" /\ pending # <<>> /\ PersistBatch(taken, SealedState(taken))
  BY DEF SealBatch, Sealable
<1>2. /\ first \in Nat /\ first + t \in 1..n /\ t \in 1..Len(pending)
      /\ batch.firstSeq = first + 1 /\ batch.lastSeq = first + t
  BY <1>1, SealHonest
<1>3. /\ batches' = Append(batches, batch) /\ UNCHANGED log
      /\ batchOf' = [k \in DOMAIN batchOf |-> IF k \in batch.firstSeq..batch.lastSeq
                                              THEN m + 1 ELSE batchOf[k]]
  BY <1>1 DEF PersistBatch, InsertBatch, AssignBatch
<1>0. Withdraws(rows, first, t) /\ RowsAdded(rows, m + 1)
  BY SealedRows
<1>5. batch.withdrawalsRoot.batch = m + 1 /\ batch.withdrawalsRoot.leaves = leaves
  BY DEF NewBatch, WithdrawalsTree
<1>6. /\ n \in Nat /\ m \in Nat /\ DOMAIN log = 1..n /\ DOMAIN batches = 1..m
      /\ batchOf \in [1..n -> 0..m] /\ DOMAIN outbox \subseteq 1..n /\ batches \in Seq(BatchRecord)
      /\ \A k \in 1..n : k > first => batchOf[k] = 0
  BY CoverFacts DEF TypeInv, StoreInv, CoverInv, BatchesCoverLog
<1>7. /\ DOMAIN batches' = 1..(m + 1) /\ batches'[m + 1] = batch
      /\ \A j \in 1..m : batches'[j] = batches[j]
  BY <1>3, <1>6
<1>19. Len(pending) \in Nat
  BY PendingFacts DEF TypeInv
<1> HIDE DEF taken, batch, rows, first, t, n, m
<1>4. /\ \A w \in DOMAIN rows : /\ rows[w].seq \in (first + 1)..(first + t)
                                /\ rows[w].tx = log[rows[w].seq] /\ rows[w].tx.type = "withdraw"
      /\ \A k \in (first + 1)..(first + t) :
            log[k].type = "withdraw" => \E w \in DOMAIN rows : rows[w].seq = k
      /\ \A v, w \in DOMAIN rows : rows[v].seq = rows[w].seq => v = w
      /\ DOMAIN outbox' = DOMAIN outbox \cup new
      /\ \A w \in DOMAIN rows : outbox'[rows[w].seq] = [batchIndex |-> m + 1, wIndex |-> w]
      /\ \A k \in DOMAIN outbox : k \notin new => outbox'[k] = outbox[k]
  BY <1>0 DEF Withdraws, RowsAdded
<1>8. /\ \A k \in (first + 1)..(first + t) : k \in 1..n /\ k > first
      /\ m + 1 \in 1..(m + 1) /\ m + 1 # 0
      /\ \A j \in 1..(m + 1) : j = m + 1 \/ j \in 1..m
      /\ \A j \in 0..m : j # 0 => j \in 1..m /\ j # m + 1
  <2>1. t \in Int /\ first \in Nat /\ first + t <= n /\ n \in Nat /\ m \in Nat
    BY <1>2, <1>6, <1>19
  <2> QED BY <2>1
<1>9. \A k \in 1..n : batchOf'[k] = IF k \in (first + 1)..(first + t) THEN m + 1 ELSE batchOf[k]
  BY <1>2, <1>3, <1>6
<1>10. \A k \in new : /\ k \in (first + 1)..(first + t) /\ k \in 1..n
                      /\ log[k].type = "withdraw" /\ batchOf'[k] = m + 1
                      /\ \E w \in DOMAIN rows : rows[w].seq = k
  BY <1>4, <1>8, <1>9
<1>11. ASSUME NEW k \in DOMAIN outbox
       PROVE  /\ k \in 1..n /\ batchOf[k] \in 1..m /\ k \notin (first + 1)..(first + t)
              /\ k \notin new /\ batchOf'[k] = batchOf[k]
  <2>1. k \in 1..n /\ batchOf[k] \in 0..m
    BY <1>6
  <2>2. batchOf[k] # 0
    BY <1>6, <2>1 DEF OutboxInv
  <2>3. k \notin (first + 1)..(first + t)
    BY <1>6, <1>8, <2>1, <2>2
  <2> QED BY <1>8, <1>9, <1>10, <2>1, <2>2, <2>3
<1> HIDE DEF new
<1>12. ASSUME NEW k \in 1..n
       PROVE  k \in DOMAIN outbox' <=> log[k].type = "withdraw" /\ batchOf'[k] # 0
  <2>1. CASE k \in (first + 1)..(first + t)
    <3>1. k \in new <=> log[k].type = "withdraw"
      BY <1>4, <1>10, <2>1 DEF new
    <3>2. k \notin DOMAIN outbox /\ batchOf'[k] # 0
      BY <1>8, <1>9, <1>11, <2>1
    <3> QED BY <1>4, <3>1, <3>2
  <2>2. CASE k \notin (first + 1)..(first + t)
    <3>1. k \notin new /\ batchOf'[k] = batchOf[k]
      BY <1>9, <1>10, <2>2
    <3>2. k \in DOMAIN outbox <=> log[k].type = "withdraw" /\ batchOf[k] # 0
      BY <1>6 DEF OutboxInv
    <3> QED BY <1>4, <3>1, <3>2
  <2> QED BY <2>1, <2>2
<1>13. ASSUME NEW k \in DOMAIN outbox
       PROVE  /\ outbox'[k] = outbox[k]
              /\ batches'[batchOf'[k]] = batches[batchOf[k]]
              /\ outbox[k].batchIndex = batchOf[k] /\ outbox[k].batchIndex \in 1..m
  <2>1. outbox[k].batchIndex = batchOf[k]
    BY DEF OutboxInv
  <2> QED BY <1>4, <1>7, <1>11, <2>1
<1>14. ASSUME NEW w \in DOMAIN rows
       PROVE  /\ outbox'[rows[w].seq] = [batchIndex |-> m + 1, wIndex |-> w]
              /\ outbox'[rows[w].seq].batchIndex = m + 1 /\ outbox'[rows[w].seq].wIndex = w
              /\ rows[w].seq \in new /\ batchOf'[rows[w].seq] = m + 1
              /\ batches'[m + 1].withdrawalsRoot.leaves[w] = WithdrawalOf(log[rows[w].seq])
  <2>1. rows[w].seq \in new
    BY DEF new
  <2>2. leaves[w] = WithdrawalOf(log[rows[w].seq])
    BY <1>4
  <2>3. outbox'[rows[w].seq] = [batchIndex |-> m + 1, wIndex |-> w]
    BY <1>4
  <2>4. outbox'[rows[w].seq].batchIndex = m + 1 /\ outbox'[rows[w].seq].wIndex = w
    BY <2>3
  <2> HIDE DEF leaves
  <2> QED BY <1>5, <1>7, <1>10, <2>1, <2>2, <2>3, <2>4
<1>15. ASSUME NEW k \in DOMAIN outbox' PROVE k \in DOMAIN outbox \/ \E w \in DOMAIN rows : k = rows[w].seq
  BY <1>4 DEF new
<1>16. ASSUME NEW k \in DOMAIN outbox'
       PROVE  /\ outbox'[k].batchIndex = batchOf'[k]
              /\ outbox'[k].wIndex \in DOMAIN batches'[batchOf'[k]].withdrawalsRoot.leaves
              /\ batches'[batchOf'[k]].withdrawalsRoot.leaves[outbox'[k].wIndex] = WithdrawalOf(log'[k])
  <2>1. CASE k \in DOMAIN outbox
    <3>1. /\ outbox[k].wIndex \in DOMAIN batches[batchOf[k]].withdrawalsRoot.leaves
          /\ batches[batchOf[k]].withdrawalsRoot.leaves[outbox[k].wIndex] = WithdrawalOf(log[k])
      BY <2>1 DEF OutboxInv
    <3> QED BY <1>3, <1>11, <1>13, <2>1, <3>1
  <2>2. ASSUME NEW w \in DOMAIN rows, k = rows[w].seq
        PROVE  /\ outbox'[k].batchIndex = batchOf'[k]
               /\ outbox'[k].wIndex \in DOMAIN batches'[batchOf'[k]].withdrawalsRoot.leaves
               /\ batches'[batchOf'[k]].withdrawalsRoot.leaves[outbox'[k].wIndex] = WithdrawalOf(log'[k])
    <3>1. outbox'[k].batchIndex = m + 1 /\ outbox'[k].wIndex = w /\ batchOf'[k] = m + 1
      BY <1>14, <2>2
    <3>2. DOMAIN batches'[m + 1].withdrawalsRoot.leaves = DOMAIN rows
      BY <1>5, <1>7
    <3> QED BY <1>3, <1>14, <2>2, <3>1, <3>2
  <2> QED BY <1>15, <2>1, <2>2
<1>17. ASSUME NEW j \in DOMAIN outbox', NEW k \in DOMAIN outbox', outbox'[j] = outbox'[k]
       PROVE  j = k
  <2>1. CASE j \in DOMAIN outbox /\ k \in DOMAIN outbox
    BY <1>13, <1>17, <2>1 DEF OutboxInv
  <2>2. ASSUME NEW i \in DOMAIN outbox, NEW w \in DOMAIN rows, outbox'[i] = outbox'[rows[w].seq]
        PROVE  FALSE
    <3>1. outbox'[i].batchIndex \in 1..m /\ outbox'[rows[w].seq].batchIndex = m + 1
      BY <1>13, <1>14
    <3> QED BY <1>6, <2>2, <3>1
  <2>3. ASSUME NEW v \in DOMAIN rows, NEW w \in DOMAIN rows, outbox'[rows[v].seq] = outbox'[rows[w].seq]
        PROVE  v = w
    <3>1. outbox'[rows[v].seq].wIndex = v /\ outbox'[rows[w].seq].wIndex = w
      BY <1>14
    <3> QED BY <2>3, <3>1
  <2> QED BY <1>15, <1>17, <2>1, <2>2, <2>3
<1>18. ASSUME NEW b \in 1..(m + 1)
       PROVE  /\ batches'[b].withdrawalsRoot.batch = b
              /\ \A w \in DOMAIN batches'[b].withdrawalsRoot.leaves :
                    \E k \in DOMAIN outbox' : outbox'[k] = [batchIndex |-> b, wIndex |-> w]
  <2>1. CASE b = m + 1
    <3>1. DOMAIN batches'[b].withdrawalsRoot.leaves = DOMAIN rows /\ batches'[b].withdrawalsRoot.batch = b
      BY <1>5, <1>7, <2>1
    <3>2. \A w \in DOMAIN rows : rows[w].seq \in DOMAIN outbox'
      BY <1>4, <1>14
    <3> QED BY <1>14, <2>1, <3>1, <3>2
  <2>2. CASE b \in 1..m
    <3>1. batches'[b] = batches[b] /\ b \in DOMAIN batches
      BY <1>6, <1>7, <2>2
    <3>2. batches[b].withdrawalsRoot.batch = b
      BY <3>1 DEF OutboxInv
    <3>3. ASSUME NEW w \in DOMAIN batches[b].withdrawalsRoot.leaves
          PROVE  \E k \in DOMAIN outbox' : outbox'[k] = [batchIndex |-> b, wIndex |-> w]
      <4>1. PICK k \in DOMAIN outbox : outbox[k] = [batchIndex |-> b, wIndex |-> w]
        BY <3>1 DEF OutboxInv
      <4>2. k \in DOMAIN outbox' /\ outbox'[k] = outbox[k]
        BY <1>4, <1>13
      <4> QED BY <4>1, <4>2
    <3> QED BY <3>1, <3>2, <3>3
  <2> QED BY <1>8, <2>1, <2>2
<1> HIDE DEF leaves
<1> QED BY <1>3, <1>6, <1>7, <1>12, <1>16, <1>17, <1>18 DEF OutboxInv

LEMMA OutboxInit == Init => OutboxInv
<1> SUFFICES ASSUME Init PROVE OutboxInv
  OBVIOUS
<1>1. DOMAIN log = {} /\ DOMAIN outbox = {} /\ DOMAIN batches = {}
  BY DEF Init, EmptyStore
<1> QED BY <1>1 DEF OutboxInv

LEMMA OutboxNext == TypeInv /\ CoverInv /\ OutboxInv /\ [Next]_vars => OutboxInv'
<1> SUFFICES ASSUME TypeInv, CoverInv, OutboxInv, [Next]_vars PROVE OutboxInv'
  OBVIOUS
<1>1. ASSUME NEW tokens \in AllowedTokenSets, Open(tokens) PROVE OutboxInv'
  BY <1>1, OutboxSame DEF Open, dbVars
<1>2. CASE ReplayRow \/ ReplayThrows \/ Opened \/ Crash \/ Shutdown
  BY <1>2, OutboxSame DEF ReplayRow, ReplayThrows, Opened, Crash, Shutdown, dbVars
<1>3. ASSUME NEW tx \in Request, Submit(tx) PROVE OutboxInv'
  BY <1>3, OutboxRecord DEF Submit, Tx
<1>4. ASSUME NEW n \in DOMAIN L1Deposit, IngestDeposit(n - 1) PROVE OutboxInv'
  <2>1. DepositTx(n - 1) \in Tx
    BY DEF Tx
  <2> QED BY <1>4, <2>1, OutboxRecord DEF IngestDeposit
<1>5. CASE SealBatch
  BY <1>5, OutboxSeal
<1>6. CASE UNCHANGED vars
  BY <1>6, OutboxSame DEF vars, dbVars
<1> QED BY <1>1, <1>2, <1>3, <1>4, <1>5, <1>6 DEF Next

LEMMA ProofsFollow == TypeInv /\ CoverInv /\ OutboxInv => ProofsVerify
<1> SUFFICES ASSUME TypeInv, CoverInv, OutboxInv PROVE ProofsVerify
  OBVIOUS
<1>1. ASSUME NEW k \in DOMAIN log, log[k].type = "withdraw", batchOf[k] # 0,
             NEW given, given = WithdrawalProof(k)
      PROVE  /\ k \in DOMAIN outbox
             /\ outbox[k].batchIndex = batchOf[k]
             /\ outbox[k].wIndex \in 1..Cardinality(RowsOfBatch(batchOf[k]))
             /\ VerifyProof(Leaf([batch |-> batchOf[k], wIndex |-> given.wIndex, leaf |-> given.leaf]),
                            given.wIndex, given.proof,
                            ComputeRoot(OutboxTree(batches[batchOf[k]].withdrawalsRoot)))
             /\ \A other \in DOMAIN outbox \ {k} : outbox[other] # outbox[k]
  <2>1. k \in DOMAIN outbox
    BY <1>1 DEF OutboxInv
  <2>2. outbox[k].batchIndex = batchOf[k] /\ \A other \in DOMAIN outbox \ {k} : outbox[other] # outbox[k]
    BY <2>1 DEF OutboxInv
  <2> QED BY <1>1, <2>1, <2>2, BurnProofVerifies
<1>2. ASSUME NEW k \in DOMAIN log, ~(log[k].type = "withdraw" /\ batchOf[k] # 0)
      PROVE  k \notin DOMAIN outbox
  BY <1>2 DEF OutboxInv
<1>3. ASSUME phase = "serving", batches # <<>>, NEW key \in DOMAIN state.accounts,
             NEW given, given = BalanceProof(key[1], key[2])
      PROVE  VerifyProof(StateLeaf(given.leaf), given.leafIndex, given.proof,
                         ComputeRoot(StateTree(LastBatch.newStateRoot)))
                 <=> pending = <<>>
  BY <1>3, BalanceProofVerifies
<1> QED BY <1>1, <1>2, <1>3, Zenon DEF ProofsVerify

\* Whatever the caps of a batch and wherever the process dies, the contract takes
\* the proof of every burn in a batch, and no two burns have the same place in the
\* outbox; it takes a proof of a balance exactly as long as nothing follows the
\* last batch (balanceProof, withdrawalProof: sequencer.ts:354-382).
THEOREM SpecProofsVerify == Spec /\ []ReloadReaches => []ProofsVerify
BY TypeInit, TypeNext, CoverInit, CoverNext, OutboxInit, OutboxNext, ProofsFollow, PTL DEF Spec

-----------------------------------------------------------------------------
(* What is issued is what the log says *)

Amounts == [k \in DOMAIN log |-> log[k].amount]

RowsOf(type, token) == {k \in DOMAIN log : log[k].type = type /\ log[k].token = token}

LEMMA LogTotalIs ==
    ASSUME LogInv, NEW type, NEW token
    PROVE  \E F : /\ Totals(F, Amounts, RowsOf(type, token))
                  /\ LogTotal(type, token) = F[RowsOf(type, token)]
<1> DEFINE rows == RowsOf(type, token)
           iter == CHOOSE F : F = [part \in SUBSET rows |->
                     IF part = {} THEN 0 ELSE log[OneOf(part)].amount + F[part \ {OneOf(part)}]]
<1>1. IsFiniteSet(rows)
  <2>1. DOMAIN log = 1..Len(log) /\ Len(log) \in Nat
    BY LogFacts
  <2>2. IsFiniteSet(DOMAIN log) /\ rows \in SUBSET DOMAIN log
    BY <2>1, FS_Interval DEF RowsOf
  <2> QED BY <2>2, FS_Subset
<1>2. \A k \in rows : Amounts[k] = log[k].amount /\ Amounts[k] \in Int
  BY LogFacts DEF RowsOf, Amounts, L2Tx
<1>3. LogTotal(type, token) = iter[rows]
  BY DEF LogTotal, MapThenSumSet, MapThenFoldSet, RowsOf, OneOf
<1> HIDE DEF rows
<1>4. ASSUME NEW part \in SUBSET rows, part # {}
      PROVE  Amounts[OneOf(part)] = log[OneOf(part)].amount
  BY <1>2, <1>4, OneOfIs
<1>5. \E F : F = [part \in SUBSET rows |->
                     IF part = {} THEN 0 ELSE log[OneOf(part)].amount + F[part \ {OneOf(part)}]]
  <2>1. PICK F : Iterates(F, Amounts, rows)
    BY <1>1, <1>2, TotalsAreIter
  <2> QED BY <1>4, <2>1 DEF Iterates
<1>6. iter = [part \in SUBSET rows |->
                 IF part = {} THEN 0 ELSE log[OneOf(part)].amount + iter[part \ {OneOf(part)}]]
  BY <1>5
<1> HIDE DEF iter
<1>7. Iterates(iter, Amounts, rows)
  BY <1>4, <1>6 DEF Iterates
<1>8. Totals(iter, Amounts, rows)
  BY <1>1, <1>2, <1>7, TotalsAreIter
<1> QED BY <1>3, <1>8 DEF rows

Upto(rows, m) == {k \in rows : k <= m}

\* One row more of the log.
LEMMA TotalsUpto ==
    ASSUME LogInv, NEW type, NEW token, NEW F, Totals(F, Amounts, RowsOf(type, token)),
           NEW m \in 0..(Len(log) - 1)
    PROVE  /\ F[Upto(RowsOf(type, token), m)] \in Int
           /\ F[Upto(RowsOf(type, token), m + 1)] = F[Upto(RowsOf(type, token), m)]
                 + (IF log[m + 1].type = type /\ log[m + 1].token = token THEN log[m + 1].amount ELSE 0)
<1> DEFINE rows == RowsOf(type, token)
           new == Upto(rows, m + 1)
           old == Upto(rows, m)
<1>1. /\ m \in Nat /\ m + 1 \in DOMAIN log /\ DOMAIN log = 1..Len(log) /\ Len(log) \in Nat
      /\ rows \subseteq 1..Len(log)
  BY LogFacts DEF RowsOf
<1>2. /\ m + 1 \in rows <=> log[m + 1].type = type /\ log[m + 1].token = token
      /\ Amounts[m + 1] = log[m + 1].amount
  BY <1>1 DEF RowsOf, Amounts
<1>3. old \subseteq rows /\ new \subseteq rows
  BY DEF Upto
<1>4. m + 1 \in rows => m + 1 \in new /\ new \ {m + 1} = old
  BY <1>1 DEF Upto
<1>5. m + 1 \notin rows => new = old
  BY <1>1 DEF Upto
<1> HIDE DEF rows, new, old
<1>6. F[old] \in Int
  BY <1>3 DEF Totals, rows
<1>7. CASE m + 1 \in rows
  <2>1. F[new] = Amounts[m + 1] + F[new \ {m + 1}]
    BY <1>3, <1>4, <1>7, TotalsWithout DEF rows
  <2>2. F[new] = Amounts[m + 1] + F[old] /\ Amounts[m + 1] \in Int
    BY <1>4, <1>7, <2>1 DEF Totals, rows
  <2> QED BY <1>2, <1>6, <1>7, <2>2 DEF rows, new, old
<1>8. CASE m + 1 \notin rows
  BY <1>2, <1>5, <1>6, <1>8 DEF rows, new, old
<1> QED BY <1>7, <1>8

\* After each prefix of the log what is issued is what was deposited in it and not
\* withdrawn.
LEMMA IssuedIsOfTheLog ==
    ASSUME LogInv, NEW token
    PROVE  Issued(Replay[Len(log)].state, token) = LogTotal("deposit", token) - LogTotal("withdraw", token)
<1> DEFINE n == Len(log)
           in == RowsOf("deposit", token)
           out == RowsOf("withdraw", token)
<1>1. PICK D : Totals(D, Amounts, in) /\ LogTotal("deposit", token) = D[in]
  BY LogTotalIs
<1>2. PICK W : Totals(W, Amounts, out) /\ LogTotal("withdraw", token) = W[out]
  BY LogTotalIs
<1> DEFINE T == {m \in 0..n : Issued(Replay[m].state, token) = D[Upto(in, m)] - W[Upto(out, m)]}
<1>3. n \in Nat /\ in \subseteq 1..n /\ out \subseteq 1..n
  BY LogFacts DEF RowsOf
<1>4. 0 \in T
  <2>1. Issued(Replay[0].state, token) = 0
    BY LogFacts, IssuedAtGenesis
  <2>2. Upto(in, 0) = {} /\ Upto(out, 0) = {}
    BY <1>3 DEF Upto
  <2>3. D[Upto(in, 0)] = 0 /\ W[Upto(out, 0)] = 0
    BY <1>1, <1>2, <2>2 DEF Totals
  <2>4. Issued(Replay[0].state, token) = D[Upto(in, 0)] - W[Upto(out, 0)]
    BY <2>1, <2>3
  <2> HIDE DEF n, in, out
  <2> QED BY <1>3, <2>4
<1>5. ASSUME NEW m \in 0..(n - 1), m \in T PROVE m + 1 \in T
  <2>1. m + 1 \in 0..n /\ m \in 0..n /\ m + 1 \in 1..n /\ (m + 1) - 1 = m
    BY <1>3
  <2>2. /\ log[m + 1] \in L2Tx /\ Valid(Replay[m].state, Token, log[m + 1])
        /\ Replay[m + 1].state = Apply(Replay[m].state, log[m + 1])
        /\ Replay[m].state \in States
    BY <2>1, LogFacts
  <2>3. IsFiniteSet(DOMAIN Replay[m].state.accounts)
    BY <2>1, ReplayAccounts DEF FiniteAccounts
  <2>4. Issued(Replay[m + 1].state, token) = Issued(Replay[m].state, token) + Minted(log[m + 1], token)
    BY <2>2, <2>3, IssuedApply
  <2>5. /\ D[Upto(in, m)] \in Int
        /\ D[Upto(in, m + 1)] = D[Upto(in, m)]
              + (IF log[m + 1].type = "deposit" /\ log[m + 1].token = token THEN log[m + 1].amount ELSE 0)
    BY <1>1, TotalsUpto
  <2>6. /\ W[Upto(out, m)] \in Int
        /\ W[Upto(out, m + 1)] = W[Upto(out, m)]
              + (IF log[m + 1].type = "withdraw" /\ log[m + 1].token = token THEN log[m + 1].amount ELSE 0)
    BY <1>2, TotalsUpto
  <2>7. Issued(Replay[m].state, token) = D[Upto(in, m)] - W[Upto(out, m)] /\ log[m + 1].amount \in Int
    BY <1>5, <2>2 DEF L2Tx
  <2> HIDE DEF n, in, out
  <2>8. Issued(Replay[m + 1].state, token) = D[Upto(in, m + 1)] - W[Upto(out, m + 1)]
    BY <2>4, <2>5, <2>6, <2>7 DEF Minted
  <2> QED BY <2>1, <2>8
<1> HIDE DEF T, n
<1>6. \A m \in 0..n : m \in T
  BY <1>3, <1>4, <1>5, UpTo
<1>7. Upto(in, n) = in /\ Upto(out, n) = out
  BY <1>3 DEF Upto
<1> HIDE DEF in, out
<1>8. Issued(Replay[n].state, token) = D[Upto(in, n)] - W[Upto(out, n)]
  BY <1>3, <1>6 DEF T
<1> QED BY <1>1, <1>2, <1>7, <1>8 DEF n

LEMMA BackedFollows == LogInv /\ MemoryInv => IssuedIsBacked
<1> SUFFICES ASSUME LogInv, MemoryInv, phase = "serving", NEW token \in Token
             PROVE  Issued(state, token) = LogTotal("deposit", token) - LogTotal("withdraw", token)
  BY DEF IssuedIsBacked
<1>1. state = Replay[Len(log)].state
  BY DEF MemoryInv
<1> QED BY <1>1, IssuedIsOfTheLog

\* Of each token the balances a serving process holds add up to what the log has
\* deposited and not withdrawn, wherever it died before and whatever it resumed
\* from: the figure that the solvency check compares with the vault
\* (totalsByToken, state.ts:198-205).
THEOREM SpecIssuedIsBacked == Spec => []IssuedIsBacked
BY MemoryInit, MemoryNext, BackedFollows, PTL DEF Spec
=============================================================================
