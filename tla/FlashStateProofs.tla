-------------------------- MODULE FlashStateProofs --------------------------
(***************************************************************************)
(* About FlashState: what a transaction does to a balance, a nonce, what  *)
(* is issued of a token and the next deposit; how the replay of a sequence *)
(* relates to the replays of its parts; and what a root binds.             *)
(***************************************************************************)
EXTENDS FlashState, TreesAndSums

\* The states the methods of FlashState work on.
States == [accounts : UNION {[keys -> AccountState] : keys \in SUBSET (Account \X Token)},
           nextDepositIndex : Nat]

Withdrawals == [recipient : Account, token : Token, amount : Nat \ {0}]

Replays == [ok : BOOLEAN, state : States, withdrawals : Seq(Withdrawals)]

LEMMA StateFacts ==
    ASSUME NEW s \in States
    PROVE  /\ DOMAIN s.accounts \subseteq Account \X Token
           /\ s.accounts \in [DOMAIN s.accounts -> AccountState]
           /\ s.nextDepositIndex \in Nat
<1>1. PICK keys \in SUBSET (Account \X Token) : s.accounts \in [keys -> AccountState]
  BY DEF States
<1> QED BY <1>1 DEF States

LEMMA StateOfFacts ==
    ASSUME NEW accounts, NEW next \in Nat,
           DOMAIN accounts \subseteq Account \X Token,
           accounts \in [DOMAIN accounts -> AccountState]
    PROVE  [accounts |-> accounts, nextDepositIndex |-> next] \in States
<1>1. accounts \in UNION {[keys -> AccountState] : keys \in SUBSET (Account \X Token)}
  OBVIOUS
<1> QED BY <1>1 DEF States

LEMMA EmptyStateType == EmptyState \in States
<1> DEFINE none == [k \in {} |-> [balance |-> 0, nonce |-> 0]]
<1>1. DOMAIN none \subseteq Account \X Token /\ none \in [DOMAIN none -> AccountState]
  OBVIOUS
<1>2. EmptyState = [accounts |-> none, nextDepositIndex |-> 0]
  BY DEF EmptyState
<1> HIDE DEF none
<1> QED BY <1>1, <1>2, StateOfFacts

LEMMA GetType ==
    ASSUME NEW s \in States, NEW account, NEW token
    PROVE  /\ Get(s, account, token) \in AccountState
           /\ Get(s, account, token).balance \in Nat
           /\ Get(s, account, token).nonce \in Nat
BY StateFacts DEF Get, AccountState

\* A change of one account is seen there, and nowhere else.
LEMMA PutFacts ==
    ASSUME NEW s \in States, NEW account \in Account, NEW token \in Token, NEW acc \in AccountState
    PROVE  /\ Put(s, account, token, acc) \in States
           /\ Put(s, account, token, acc).nextDepositIndex = s.nextDepositIndex
           /\ Get(Put(s, account, token, acc), account, token) = acc
           /\ \A a, t : <<a, t>> # <<account, token>> =>
                 Get(Put(s, account, token, acc), a, t) = Get(s, a, t)
<1> DEFINE key == <<account, token>>
           accounts == [k \in DOMAIN s.accounts \cup {key} |-> IF k = key THEN acc ELSE s.accounts[k]]
<1>1. /\ DOMAIN s.accounts \subseteq Account \X Token
      /\ s.accounts \in [DOMAIN s.accounts -> AccountState]
      /\ s.nextDepositIndex \in Nat
  BY StateFacts
<1>2. Put(s, account, token, acc) = [accounts |-> accounts, nextDepositIndex |-> s.nextDepositIndex]
  BY DEF Put, States
<1>3. /\ DOMAIN accounts = DOMAIN s.accounts \cup {key}
      /\ key \in Account \X Token
  OBVIOUS
<1>4. \A k \in DOMAIN accounts : accounts[k] \in AccountState
  BY <1>1
<1>5. accounts \in [DOMAIN accounts -> AccountState] /\ DOMAIN accounts \subseteq Account \X Token
  BY <1>1, <1>3, <1>4
<1>6. accounts[key] = acc /\ \A k : k # key => /\ k \in DOMAIN accounts <=> k \in DOMAIN s.accounts
                                               /\ k \in DOMAIN s.accounts => accounts[k] = s.accounts[k]
  OBVIOUS
<1> HIDE DEF key, accounts
<1>7. Put(s, account, token, acc) \in States
  BY <1>1, <1>2, <1>5, StateOfFacts
<1>8. Get(Put(s, account, token, acc), account, token) = acc
  BY <1>2, <1>3, <1>6 DEF Get, key
<1>9. \A a, t : <<a, t>> # <<account, token>> =>
                 Get(Put(s, account, token, acc), a, t) = Get(s, a, t)
  BY <1>2, <1>6 DEF Get, key
<1> QED BY <1>2, <1>7, <1>8, <1>9

-----------------------------------------------------------------------------
(* One transaction *)

LEMMA CreditFacts ==
    ASSUME NEW s \in States, NEW account \in Account, NEW token \in Token, NEW amount \in Nat
    PROVE  /\ Credit(s, account, token, amount) \in States
           /\ Credit(s, account, token, amount).nextDepositIndex = s.nextDepositIndex
           /\ \A a, t : Get(Credit(s, account, token, amount), a, t).nonce = Get(s, a, t).nonce
<1> DEFINE cur == Get(s, account, token)
           acc == [cur EXCEPT !.balance = @ + amount]
<1>1. acc \in AccountState /\ acc.nonce = cur.nonce
  BY GetType DEF AccountState
<1>2. Credit(s, account, token, amount) = Put(s, account, token, acc)
  BY DEF Credit
<1> HIDE DEF acc
<1>3. ASSUME NEW a, NEW t PROVE Get(Put(s, account, token, acc), a, t).nonce = Get(s, a, t).nonce
  <2>1. CASE <<a, t>> = <<account, token>>
    BY <1>1, <2>1, PutFacts
  <2>2. CASE <<a, t>> # <<account, token>>
    BY <1>1, <2>2, PutFacts
  <2> QED BY <2>1, <2>2
<1> QED BY <1>1, <1>2, <1>3, PutFacts

LEMMA DebitFacts ==
    ASSUME NEW s \in States, NEW account \in Account, NEW token \in Token, NEW amount \in Nat,
           Get(s, account, token).balance >= amount
    PROVE  /\ DebitAndBump(s, account, token, amount) \in States
           /\ DebitAndBump(s, account, token, amount).nextDepositIndex = s.nextDepositIndex
           /\ \A a, t : Get(DebitAndBump(s, account, token, amount), a, t).nonce =
                 Get(s, a, t).nonce + (IF a = account /\ t = token THEN 1 ELSE 0)
<1> DEFINE cur == Get(s, account, token)
           acc == [balance |-> cur.balance - amount, nonce |-> cur.nonce + 1]
<1>1. acc \in AccountState /\ acc.nonce = cur.nonce + 1
  BY GetType DEF AccountState
<1>2. DebitAndBump(s, account, token, amount) = Put(s, account, token, acc)
  BY DEF DebitAndBump
<1> HIDE DEF acc
<1>3. ASSUME NEW a, NEW t
      PROVE  Get(Put(s, account, token, acc), a, t).nonce =
                Get(s, a, t).nonce + (IF a = account /\ t = token THEN 1 ELSE 0)
  <2>1. CASE a = account /\ t = token
    BY <1>1, <2>1, PutFacts
  <2>2. CASE ~(a = account /\ t = token)
    <3>1. Get(Put(s, account, token, acc), a, t) = Get(s, a, t)
      BY <1>1, <2>2, PutFacts
    <3>2. Get(s, a, t).nonce \in Nat
      BY GetType
    <3> QED BY <2>2, <3>1, <3>2
  <2> QED BY <2>1, <2>2
<1> QED BY <1>1, <1>2, <1>3, PutFacts

\* A transaction that is valid under a smaller set of tokens is valid.
LEMMA ValidForAllTokens ==
    ASSUME NEW s, NEW tokens \in SUBSET Token, NEW tx, Valid(s, tokens, tx)
    PROVE  Valid(s, Token, tx)
BY DEF Valid

\* A valid transaction leaves a state, spends one nonce of its sender or the
\* next deposit index, and changes no other.
LEMMA ApplyFacts ==
    ASSUME NEW s \in States, NEW tx \in L2Tx, Valid(s, Token, tx)
    PROVE  /\ Apply(s, tx) \in States
           /\ Apply(s, tx).nextDepositIndex =
                 s.nextDepositIndex + (IF tx.type = "deposit" THEN 1 ELSE 0)
           /\ \A a, t : Get(Apply(s, tx), a, t).nonce = Get(s, a, t).nonce
                 + (IF tx.type # "deposit" /\ a = tx.from /\ t = tx.token THEN 1 ELSE 0)
<1>1. tx.amount \in Nat /\ tx.to \in Account /\ tx.token \in Token /\ s.nextDepositIndex \in Nat
  BY StateFacts DEF Valid, L2Tx
<1>2. CASE tx.type = "deposit"
  <2> DEFINE credited == Credit(s, tx.to, tx.token, tx.amount)
  <2>1. /\ credited \in States /\ credited.nextDepositIndex = s.nextDepositIndex
        /\ \A a, t : Get(credited, a, t).nonce = Get(s, a, t).nonce
    BY <1>1, CreditFacts
  <2> HIDE DEF credited
  <2>2. Apply(s, tx) = [credited EXCEPT !.nextDepositIndex = @ + 1]
    BY <1>2 DEF Apply, credited
  <2>3. /\ Apply(s, tx) \in States
        /\ Apply(s, tx).nextDepositIndex = s.nextDepositIndex + 1
        /\ Apply(s, tx).accounts = credited.accounts
    BY <1>1, <2>1, <2>2 DEF States
  <2>4. ASSUME NEW a, NEW t PROVE Get(Apply(s, tx), a, t) = Get(credited, a, t)
    BY <2>3 DEF Get
  <2>5. ASSUME NEW a, NEW t PROVE Get(s, a, t).nonce \in Nat
    BY GetType
  <2> QED BY <1>2, <2>1, <2>3, <2>4, <2>5
<1>3. CASE tx.type \in {"transfer", "withdraw"}
  <2>1. tx.from \in Account /\ Get(s, tx.from, tx.token).balance >= tx.amount
    BY <1>3 DEF Valid, L2Tx, BalanceCovers
  <2> DEFINE debited == DebitAndBump(s, tx.from, tx.token, tx.amount)
  <2>2. /\ debited \in States /\ debited.nextDepositIndex = s.nextDepositIndex
        /\ \A a, t : Get(debited, a, t).nonce =
              Get(s, a, t).nonce + (IF a = tx.from /\ t = tx.token THEN 1 ELSE 0)
    BY <1>1, <2>1, DebitFacts
  <2> HIDE DEF debited
  <2>3. CASE tx.type = "transfer"
    <3>1. Apply(s, tx) = Credit(debited, tx.to, tx.token, tx.amount)
      BY <2>3 DEF Apply, debited
    <3> QED BY <1>1, <2>2, <2>3, <3>1, CreditFacts
  <2>4. CASE tx.type = "withdraw"
    <3>1. Apply(s, tx) = debited
      BY <2>4 DEF Apply, debited
    <3> QED BY <1>1, <2>2, <2>4, <3>1
  <2> QED BY <1>3, <2>3, <2>4
<1>4. tx.type \in {"deposit", "transfer", "withdraw"}
  BY DEF L2Tx
<1> QED BY <1>2, <1>3, <1>4

-----------------------------------------------------------------------------
(* A sequence of transactions *)

Start(s) == [ok |-> TRUE, state |-> s, withdrawals |-> <<>>]

\* A replay goes on exactly as long as its transactions are valid.
LEMMA ReplayTxFacts ==
    ASSUME NEW before \in Replays, NEW tx \in L2Tx
    PROVE  /\ ReplayTx(before, tx) \in Replays
           /\ ReplayTx(before, tx).ok => before.ok /\ Valid(before.state, Token, tx)
           /\ before.ok /\ Valid(before.state, Token, tx) =>
                 /\ ReplayTx(before, tx).ok
                 /\ ReplayTx(before, tx).state = Apply(before.state, tx)
                 /\ ReplayTx(before, tx).withdrawals =
                       IF tx.type = "withdraw"
                       THEN Append(before.withdrawals, WithdrawalOf(tx)) ELSE before.withdrawals
<1>0. before.ok \in BOOLEAN /\ before.state \in States /\ before.withdrawals \in Seq(Withdrawals)
  BY DEF Replays
<1>1. CASE before.ok /\ Valid(before.state, Token, tx)
  <2> DEFINE made == IF tx.type = "withdraw"
                     THEN Append(before.withdrawals, WithdrawalOf(tx)) ELSE before.withdrawals
  <2>1. made \in Seq(Withdrawals)
    <3>1. CASE tx.type = "withdraw"
      <4>1. tx.to \in Account /\ tx.token \in Token /\ tx.amount \in Nat \ {0}
        BY <1>1 DEF Valid, L2Tx
      <4>2. WithdrawalOf(tx) \in Withdrawals
        BY <4>1 DEF WithdrawalOf, Withdrawals
      <4> QED BY <1>0, <3>1, <4>2
    <3>2. CASE tx.type # "withdraw"
      BY <1>0, <3>2
    <3> QED BY <3>1, <3>2
  <2>2. Apply(before.state, tx) \in States
    BY <1>0, <1>1, ApplyFacts
  <2>3. ReplayTx(before, tx) = [ok |-> TRUE, state |-> Apply(before.state, tx), withdrawals |-> made]
    BY <1>1 DEF ReplayTx
  <2> HIDE DEF made
  <2>4. ReplayTx(before, tx) \in Replays
    BY <2>1, <2>2, <2>3 DEF Replays
  <2> QED BY <1>1, <2>3, <2>4 DEF made
<1>2. CASE ~(before.ok /\ Valid(before.state, Token, tx))
  <2>1. ReplayTx(before, tx) = [before EXCEPT !.ok = FALSE]
    BY <1>2 DEF ReplayTx
  <2>2. [before EXCEPT !.ok = FALSE] \in Replays /\ ~[before EXCEPT !.ok = FALSE].ok
    BY DEF Replays
  <2> QED BY <1>2, <2>1, <2>2
<1> QED BY <1>1, <1>2

LEMMA StartType ==
    ASSUME NEW s \in States
    PROVE  Start(s) \in Replays
BY DEF Start, Replays

\* ReplayFrom is the recursion it is written as.
LEMMA FoldOfReplays ==
    ASSUME NEW s \in States, NEW txs, Len(txs) \in Nat,
           \A i \in 1..Len(txs) : \A before \in Replays : ReplayTx(before, txs[i]) \in Replays
    PROVE  /\ ReplayFrom(s, txs) \in [0..Len(txs) -> Replays]
           /\ ReplayFrom(s, txs)[0] = Start(s)
           /\ \A i \in 1..Len(txs) : ReplayFrom(s, txs)[i] = ReplayTx(ReplayFrom(s, txs)[i - 1], txs[i])
<1> DEFINE n == Len(txs)
           replay == ReplayFrom(s, txs)
           step == [x \in Replays \X (1..n) |-> ReplayTx(x[1], txs[x[2]])]
<1>1. /\ n \in Nat /\ Start(s) \in Replays
      /\ \A i \in 1..n : \A before \in Replays : ReplayTx(before, txs[i]) \in Replays
  BY StartType
<1>2. step \in [Replays \X (1..n) -> Replays]
  <2>1. ASSUME NEW x \in Replays \X (1..n) PROVE ReplayTx(x[1], txs[x[2]]) \in Replays
    <3>1. x[1] \in Replays /\ x[2] \in 1..n
      OBVIOUS
    <3> QED BY <1>1, <3>1
  <2> QED BY <2>1
<1>3. \E f \in [0..n -> Replays] : Recursion(f, Start(s), n, step)
  <2> HIDE DEF step, n
  <2> QED BY <1>1, <1>2, RecursionExists
<1>4. \E f : f = [i \in 0..n |-> IF i = 0 THEN Start(s) ELSE ReplayTx(f[i - 1], txs[i])]
  <2> PICK f \in [0..n -> Replays] :
         f[0] = Start(s) /\ \A k \in 1..n : f[k] = step[<<f[k - 1], k>>]
    BY <1>3 DEF Recursion
  <2>1. ASSUME NEW k \in 0..n, k # 0 PROVE f[k] = ReplayTx(f[k - 1], txs[k])
    <3>1. k \in 1..n /\ k - 1 \in 0..n
      BY <1>1, <2>1
    <3>2. <<f[k - 1], k>> \in Replays \X (1..n)
      BY <3>1
    <3> QED BY <3>1, <3>2
  <2> HIDE DEF step
  <2>2. f = [i \in 0..n |-> IF i = 0 THEN Start(s) ELSE ReplayTx(f[i - 1], txs[i])]
    BY <2>1
  <2> QED BY <2>2
<1>5. replay = [i \in 0..n |-> IF i = 0 THEN Start(s) ELSE ReplayTx(replay[i - 1], txs[i])]
  BY <1>4 DEF ReplayFrom, Start
<1> HIDE DEF replay
<1>6. replay[0] = Start(s)
  BY <1>1, <1>5
<1>7. ASSUME NEW i \in 1..n PROVE replay[i] = ReplayTx(replay[i - 1], txs[i])
  <2>1. i \in 0..n /\ i # 0
    BY <1>1
  <2> HIDE DEF n
  <2> QED BY <1>5, <2>1, Zenon
<1> DEFINE T == {i \in 0..n : replay[i] \in Replays}
<1>8. 0 \in T
  BY <1>1, <1>6
<1>9. ASSUME NEW k \in 0..(n - 1), k \in T PROVE k + 1 \in T
  <2>1. k + 1 \in 1..n /\ (k + 1) - 1 = k
    BY <1>1
  <2>2. replay[k + 1] = ReplayTx(replay[k], txs[k + 1])
    BY <1>7, <2>1
  <2>3. ReplayTx(replay[k], txs[k + 1]) \in Replays
    BY <1>1, <1>9, <2>1
  <2> QED BY <2>1, <2>2, <2>3
<1> HIDE DEF T, n
<1>10. \A i \in 0..n : i \in T
  BY <1>1, <1>8, <1>9, UpTo
<1>11. replay \in [0..n -> Replays]
  BY <1>5, <1>10 DEF T
<1> QED BY <1>6, <1>7, <1>11 DEF n, replay

LEMMA ReplayIsFold ==
    ASSUME NEW s \in States, NEW txs \in Seq(L2Tx)
    PROVE  /\ ReplayFrom(s, txs) \in [0..Len(txs) -> Replays]
           /\ ReplayFrom(s, txs)[0] = Start(s)
           /\ \A i \in 1..Len(txs) : ReplayFrom(s, txs)[i] = ReplayTx(ReplayFrom(s, txs)[i - 1], txs[i])
<1>1. Len(txs) \in Nat /\ \A i \in 1..Len(txs) : txs[i] \in L2Tx
  OBVIOUS
<1>2. \A i \in 1..Len(txs) : \A before \in Replays : ReplayTx(before, txs[i]) \in Replays
  BY <1>1, ReplayTxFacts
<1> QED BY <1>1, <1>2, FoldOfReplays

\* What the replay of a valid sequence does in one step.
LEMMA ReplayStep ==
    ASSUME NEW s \in States, NEW txs \in Seq(L2Tx), NEW i \in 1..Len(txs),
           ReplayFrom(s, txs)[i].ok
    PROVE  /\ ReplayFrom(s, txs)[i - 1].ok
           /\ Valid(ReplayFrom(s, txs)[i - 1].state, Token, txs[i])
           /\ ReplayFrom(s, txs)[i].state = Apply(ReplayFrom(s, txs)[i - 1].state, txs[i])
<1>1. i - 1 \in 0..Len(txs) /\ txs[i] \in L2Tx
  OBVIOUS
<1>2. ReplayFrom(s, txs)[i - 1] \in Replays
  BY <1>1, ReplayIsFold
<1>3. ReplayFrom(s, txs)[i] = ReplayTx(ReplayFrom(s, txs)[i - 1], txs[i])
  BY ReplayIsFold
<1> QED BY <1>1, <1>2, <1>3, ReplayTxFacts

\* Sequences with a common prefix have the same replay of it.
LEMMA ReplayAgrees ==
    ASSUME NEW s \in States, NEW txs \in Seq(L2Tx), NEW other \in Seq(L2Tx),
           NEW n \in Nat, n <= Len(txs), n <= Len(other), \A i \in 1..n : txs[i] = other[i]
    PROVE  \A i \in 0..n : ReplayFrom(s, txs)[i] = ReplayFrom(s, other)[i]
<1> DEFINE T == {i \in 0..n : ReplayFrom(s, txs)[i] = ReplayFrom(s, other)[i]}
<1>1. 0 \in T
  BY ReplayIsFold
<1>2. ASSUME NEW k \in 0..(n - 1), k \in T PROVE k + 1 \in T
  <2>1. k + 1 \in 1..n /\ (k + 1) - 1 = k /\ k + 1 \in 1..Len(txs) /\ k + 1 \in 1..Len(other)
    OBVIOUS
  <2>2. ReplayFrom(s, txs)[k + 1] = ReplayTx(ReplayFrom(s, txs)[k], txs[k + 1])
    BY <2>1, ReplayIsFold
  <2>3. ReplayFrom(s, other)[k + 1] = ReplayTx(ReplayFrom(s, other)[k], other[k + 1])
    BY <2>1, ReplayIsFold
  <2> QED BY <1>2, <2>1, <2>2, <2>3
<1> HIDE DEF T
<1>3. \A i \in 0..n : i \in T
  BY <1>1, <1>2, UpTo
<1> QED BY <1>3 DEF T

\* `part` is what txs holds after its first a entries, up to some entry.
PartOf(part, a, txs) ==
    a \in 0..Len(txs) /\ a + Len(part) <= Len(txs) /\ \A i \in 1..Len(part) : part[i] = txs[a + i]

ReplaysAll(s, txs) == \A i \in 0..Len(txs) : ReplayFrom(s, txs)[i].ok

\* The replay of `part` from `from` passes through the states of that of txs.
Continues(from, part, a, s, txs) ==
    /\ from \in States
    /\ \A i \in 0..Len(part) : /\ ReplayFrom(from, part)[i].ok
                               /\ ReplayFrom(from, part)[i].state = ReplayFrom(s, txs)[a + i].state

\* The replay of a part, from where the whole has arrived before it, arrives
\* where the whole does.
LEMMA ReplayOfPart ==
    ASSUME NEW s \in States, NEW txs \in Seq(L2Tx), NEW part \in Seq(L2Tx), NEW a,
           PartOf(part, a, txs), ReplaysAll(s, txs)
    PROVE  Continues(ReplayFrom(s, txs)[a].state, part, a, s, txs)
<1> DEFINE from == ReplayFrom(s, txs)[a].state
<1>a. /\ a \in 0..Len(txs) /\ a + Len(part) <= Len(txs) /\ \A i \in 1..Len(part) : part[i] = txs[a + i]
      /\ \A i \in 0..Len(txs) : ReplayFrom(s, txs)[i].ok
  BY DEF PartOf, ReplaysAll
<1>b. from = ReplayFrom(s, txs)[a].state
  OBVIOUS
<1> HIDE DEF from
<1> DEFINE whole == ReplayFrom(s, txs)
           piece == ReplayFrom(from, part)
           T == {i \in 0..Len(part) : piece[i].ok /\ piece[i].state = whole[a + i].state}
<1>0. Len(part) \in Nat /\ Len(txs) \in Nat
  OBVIOUS
<1>1. from \in States
  BY <1>a, <1>b, ReplayIsFold DEF Replays
<1>2. 0 \in T
  <2>1. piece[0] = Start(from)
    BY <1>1, ReplayIsFold
  <2>2. a + 0 = a
    BY <1>0, <1>a
  <2> QED BY <1>0, <1>b, <2>1, <2>2 DEF Start
<1>3. ASSUME NEW k \in 0..(Len(part) - 1), k \in T PROVE k + 1 \in T
  <2>1. /\ k + 1 \in 1..Len(part) /\ (k + 1) - 1 = k /\ k \in 0..Len(part)
        /\ a + (k + 1) \in 1..Len(txs) /\ a + (k + 1) - 1 = a + k
    BY <1>0, <1>a
  <2>2. part[k + 1] = txs[a + (k + 1)] /\ part[k + 1] \in L2Tx
    BY <1>a, <2>1
  <2>3. /\ Valid(whole[a + k].state, Token, txs[a + (k + 1)])
        /\ whole[a + (k + 1)].state = Apply(whole[a + k].state, txs[a + (k + 1)])
    <3>1. \A i \in 1..Len(txs) : /\ Valid(whole[i - 1].state, Token, txs[i])
                                 /\ whole[i].state = Apply(whole[i - 1].state, txs[i])
      BY <1>a, ReplayStep
    <3> HIDE DEF whole
    <3>2. a \in Nat /\ k \in Nat
      BY <1>0, <1>a
    <3> QED BY <2>1, <3>1, <3>2
  <2>4. piece[k] \in Replays /\ piece[k + 1] = ReplayTx(piece[k], part[k + 1])
    <3>1. /\ piece \in [0..Len(part) -> Replays]
          /\ \A i \in 1..Len(part) : piece[i] = ReplayTx(piece[i - 1], part[i])
      BY <1>1, ReplayIsFold
    <3> HIDE DEF piece
    <3> QED BY <2>1, <3>1
  <2> HIDE DEF piece, whole
  <2>5. piece[k].ok /\ piece[k].state = whole[a + k].state
    BY <1>3
  <2>6. piece[k + 1].ok /\ piece[k + 1].state = Apply(piece[k].state, part[k + 1])
    <3>1. Valid(piece[k].state, Token, part[k + 1])
      BY <2>2, <2>3, <2>5
    <3>2. /\ ReplayTx(piece[k], part[k + 1]).ok
          /\ ReplayTx(piece[k], part[k + 1]).state = Apply(piece[k].state, part[k + 1])
      BY <2>2, <2>4, <2>5, <3>1, ReplayTxFacts, Zenon
    <3> QED BY <2>4, <3>2
  <2>7. piece[k + 1].state = whole[a + (k + 1)].state
    BY <2>2, <2>3, <2>5, <2>6
  <2> QED BY <2>1, <2>6, <2>7
<1> HIDE DEF T
<1>4. \A i \in 0..Len(part) : i \in T
  BY <1>0, <1>2, <1>3, UpTo
<1> QED BY <1>1, <1>4 DEF T, Continues, from

\* The replay of one transaction more.
LEMMA ReplayAppend ==
    ASSUME NEW s \in States, NEW txs \in Seq(L2Tx), NEW tx \in L2Tx
    PROVE  /\ \A i \in 0..Len(txs) : ReplayFrom(s, Append(txs, tx))[i] = ReplayFrom(s, txs)[i]
           /\ ReplayFrom(s, Append(txs, tx))[Len(txs) + 1] = ReplayTx(ReplayFrom(s, txs)[Len(txs)], tx)
<1> DEFINE more == Append(txs, tx)
           n == Len(txs)
<1>1. /\ more \in Seq(L2Tx) /\ Len(more) = n + 1 /\ n \in Nat /\ n <= Len(more) /\ more[n + 1] = tx
      /\ \A i \in 1..n : txs[i] = more[i]
  OBVIOUS
<1> HIDE DEF more
<1>2. \A i \in 0..n : ReplayFrom(s, txs)[i] = ReplayFrom(s, more)[i]
  BY <1>1, ReplayAgrees
<1>3. n + 1 \in 1..Len(more) /\ (n + 1) - 1 = n /\ n \in 0..n
  BY <1>1
<1>4. \A i \in 1..Len(more) : ReplayFrom(s, more)[i] = ReplayTx(ReplayFrom(s, more)[i - 1], more[i])
  BY <1>1, ReplayIsFold
<1>5. ReplayFrom(s, more)[n + 1] = ReplayTx(ReplayFrom(s, more)[n], more[n + 1])
  BY <1>3, <1>4
<1> QED BY <1>1, <1>2, <1>3, <1>5 DEF more

\* The leaves of a state.
StateLeaves == [account : Account, token : Token, balance : Nat, nonce : Nat]

LEMMA RootType ==
    ASSUME NEW s \in States
    PROVE  Root(s) \in SUBSET StateLeaves
<1>1. ASSUME NEW k \in DOMAIN s.accounts
      PROVE  [account |-> k[1], token |-> k[2],
              balance |-> s.accounts[k].balance, nonce |-> s.accounts[k].nonce] \in StateLeaves
  <2>1. k \in Account \X Token /\ s.accounts[k] \in AccountState
    BY StateFacts
  <2>2. k[1] \in Account /\ k[2] \in Token /\ s.accounts[k].balance \in Nat /\ s.accounts[k].nonce \in Nat
    BY <2>1 DEF AccountState
  <2> QED BY <2>2 DEF StateLeaves
<1> QED BY <1>1 DEF Root

-----------------------------------------------------------------------------
(* The tree of a state *)

LEMMA OrderIs ==
    ASSUME NEW keys, IsFiniteSet(keys)
    PROVE  /\ Cardinality(keys) \in Nat
           /\ CanonicalOrder(keys) \in [1..Cardinality(keys) -> keys]
           /\ \A k \in keys : \E i \in 1..Cardinality(keys) : CanonicalOrder(keys)[i] = k
<1> DEFINE n == Cardinality(keys)
           order == CanonicalOrder(keys)
<1>1. n \in Nat /\ ExistsBijection(1..n, keys)
  BY FS_CardinalityType
<1>2. \E f \in [1..n -> keys] : IsInjective(f)
  BY <1>1 DEF ExistsBijection, Bijection, Injection
<1>3. order \in [1..n -> keys] /\ IsInjective(order)
  <2> HIDE DEF n
  <2>1. order = CHOOSE f \in [1..n -> keys] : IsInjective(f)
    BY DEF CanonicalOrder, SetToSeq, n
  <2> QED BY <1>2, <2>1
<1> HIDE DEF order
<1>4. order \in Surjection(1..n, keys)
  <2> HIDE DEF n
  <2>1. order \in Injection(1..n, keys)
    BY <1>3 DEF Injection
  <2>2. Cardinality(1..n) = n
    BY <1>1, FS_Interval
  <2>3. Cardinality(1..n) = Cardinality(keys) <=> order \in Surjection(1..n, keys)
    BY <2>1, FS_Injection
  <2> QED BY <2>2, <2>3 DEF n
<1> QED BY <1>1, <1>3, <1>4 DEF Surjection, order

\* The leaf of an account of a state.
LeafOf(s, k) == [account |-> k[1], token |-> k[2], balance |-> s.accounts[k].balance, nonce |-> s.accounts[k].nonce]

LEMMA RootLeaves ==
    ASSUME NEW s \in States
    PROVE  /\ Root(s) = {LeafOf(s, k) : k \in DOMAIN s.accounts}
           /\ \A k \in DOMAIN s.accounts : <<LeafOf(s, k).account, LeafOf(s, k).token>> = k
<1>1. Root(s) = {LeafOf(s, k) : k \in DOMAIN s.accounts}
  BY DEF Root, LeafOf
<1>2. ASSUME NEW k \in DOMAIN s.accounts PROVE <<LeafOf(s, k).account, LeafOf(s, k).token>> = k
  <2>1. k \in Account \X Token
    BY StateFacts
  <2>2. LeafOf(s, k).account = k[1] /\ LeafOf(s, k).token = k[2]
    BY DEF LeafOf
  <2> QED BY <2>1, <2>2
<1> QED BY <1>1, <1>2

\* The leaves of a root are all of it, in some order.
LEMMA LeavesOfRoot ==
    ASSUME NEW s \in States, IsFiniteSet(DOMAIN s.accounts)
    PROVE  /\ Len(LeavesOf(Root(s))) \in Nat
           /\ DOMAIN LeavesOf(Root(s)) = 1..Len(LeavesOf(Root(s)))
           /\ \A i \in DOMAIN LeavesOf(Root(s)) : LeavesOf(Root(s))[i] \in Root(s)
           /\ \A leaf \in Root(s) : \E i \in DOMAIN LeavesOf(Root(s)) : LeavesOf(Root(s))[i] = leaf
<1> DEFINE root == Root(s)
           keys == DOMAIN s.accounts
           order == CanonicalOrder(keys)
           n == Cardinality(keys)
           leaves == LeavesOf(root)
<1>1. /\ n \in Nat /\ order \in [1..n -> keys]
      /\ \A k \in keys : \E i \in 1..n : order[i] = k
  BY OrderIs
<1>2. /\ root = {LeafOf(s, k) : k \in keys}
      /\ \A k \in keys : <<LeafOf(s, k).account, LeafOf(s, k).token>> = k
  BY RootLeaves
<1>3. {<<leaf.account, leaf.token>> : leaf \in root} = keys
  BY <1>2
<1> HIDE DEF n
<1>4. leaves = [i \in 1..n |-> CHOOSE leaf \in root : <<leaf.account, leaf.token>> = order[i]]
  <2> DEFINE shown == {<<leaf.account, leaf.token>> : leaf \in root}
  <2>1. leaves = [i \in DOMAIN CanonicalOrder(shown) |->
                     CHOOSE leaf \in root : <<leaf.account, leaf.token>> = CanonicalOrder(shown)[i]]
    BY Zenon DEF LeavesOf
  <2>2. CanonicalOrder(shown) = order
    BY <1>3
  <2> HIDE DEF shown, order
  <2>3. leaves = [i \in DOMAIN order |-> CHOOSE leaf \in root : <<leaf.account, leaf.token>> = order[i]]
    BY <2>1, <2>2, Zenon
  <2>4. DOMAIN order = 1..n
    BY <1>1
  <2> QED BY <2>3, <2>4, Zenon
<1> HIDE DEF root, keys, order, leaves
<1>5. ASSUME NEW i \in 1..n PROVE leaves[i] \in root /\ <<leaves[i].account, leaves[i].token>> = order[i]
  <2>1. order[i] \in keys
    BY <1>1
  <2>2. \E leaf \in root : <<leaf.account, leaf.token>> = order[i]
    BY <1>2, <2>1
  <2>3. leaves[i] = CHOOSE leaf \in root : <<leaf.account, leaf.token>> = order[i]
    BY <1>4
  <2> QED BY <2>2, <2>3
<1>6. ASSUME NEW leaf \in root PROVE \E i \in 1..n : leaves[i] = leaf
  <2>1. PICK k \in keys : leaf = LeafOf(s, k)
    BY <1>2
  <2>2. PICK i \in 1..n : order[i] = k
    BY <1>1
  <2>3. PICK j \in keys : leaves[i] = LeafOf(s, j)
    BY <1>2, <1>5
  <2>4. j = k
    BY <1>2, <1>5, <2>2, <2>3
  <2> QED BY <2>1, <2>3, <2>4
<1>7. DOMAIN leaves = 1..n /\ Len(leaves) = n
  <2>1. DOMAIN leaves = 1..n /\ leaves = [i \in DOMAIN leaves |-> leaves[i]]
    BY <1>4
  <2> QED BY <1>1, <2>1, LenOfFunction
<1> QED BY <1>1, <1>5, <1>6, <1>7 DEF leaves, root

LEMMA StateTreeIs ==
    ASSUME NEW s \in States, IsFiniteSet(DOMAIN s.accounts)
    PROVE  /\ Len(StateTree(Root(s))) = Len(LeavesOf(Root(s)))
           /\ \A i \in 1..Len(LeavesOf(Root(s))) : StateTree(Root(s))[i] = Leaf(LeavesOf(Root(s))[i])
           /\ LeavesOnly(StateTree(Root(s)))
<1> DEFINE leaves == LeavesOf(Root(s))
           tree == StateTree(Root(s))
           n == Len(leaves)
<1>1. n \in Nat /\ DOMAIN leaves = 1..n
  BY LeavesOfRoot
<1>2. tree = [i \in DOMAIN leaves |-> Leaf(leaves[i])]
  BY DEF StateTree, StateLeaf
<1> HIDE DEF leaves, tree
<1>3. DOMAIN tree = 1..n /\ tree = [i \in DOMAIN tree |-> tree[i]] /\ \A i \in 1..n : tree[i] = Leaf(leaves[i])
  BY <1>1, <1>2
<1> HIDE DEF n
<1>4. Len(tree) = n
  BY <1>1, <1>3, LenOfFunction
<1> QED BY <1>3, <1>4 DEF LeavesOnly, leaves, tree, n

LEMMA LeafBindsFields == \A a, b : Leaf(a) = Leaf(b) => a = b
<1>1. \A a, b : <<a>> = <<b>> => a = b
  OBVIOUS
<1> QED BY <1>1 DEF Leaf

\* States with the same tree have the same root.
LEMMA TreeBindsRoot ==
    ASSUME NEW s \in States, IsFiniteSet(DOMAIN s.accounts), NEW t \in States, IsFiniteSet(DOMAIN t.accounts),
           Len(StateTree(Root(s))) = Len(StateTree(Root(t))),
           \A i \in 1..Len(StateTree(Root(s))) : StateTree(Root(s))[i] = StateTree(Root(t))[i]
    PROVE  Root(s) = Root(t)
<1> DEFINE a == LeavesOf(Root(s))
           b == LeavesOf(Root(t))
           n == Len(a)
<1>1. Len(b) = n /\ \A i \in 1..n : Leaf(a[i]) = Leaf(b[i])
  BY StateTreeIs
<1>2. \A i \in 1..n : a[i] = b[i]
  BY <1>1, LeafBindsFields
<1>3. /\ DOMAIN a = 1..n /\ \A i \in 1..n : a[i] \in Root(s)
      /\ \A leaf \in Root(s) : \E i \in 1..n : a[i] = leaf
  BY LeavesOfRoot
<1>4. /\ DOMAIN b = 1..n /\ \A i \in 1..n : b[i] \in Root(t)
      /\ \A leaf \in Root(t) : \E i \in 1..n : b[i] = leaf
  BY <1>1, LeavesOfRoot
<1> HIDE DEF a, b, n
<1>5. \A leaf \in Root(s) : leaf \in Root(t)
  BY <1>2, <1>3, <1>4
<1>6. \A leaf \in Root(t) : leaf \in Root(s)
  BY <1>2, <1>3, <1>4
<1> QED BY <1>5, <1>6, RootLeaves

\* proofFor is about the account it is asked for, at its place in the tree.
LEMMA ProofForIs ==
    ASSUME NEW s \in States, IsFiniteSet(DOMAIN s.accounts), NEW key \in DOMAIN s.accounts
    PROVE  \E i \in 1..Len(StateTree(Root(s))) :
              /\ ProofFor(s, key[1], key[2]).leafIndex = i - 1
              /\ ProofFor(s, key[1], key[2]).proof = GetProof(StateTree(Root(s)), i - 1)
              /\ StateLeaf(ProofFor(s, key[1], key[2]).leaf) = StateTree(Root(s))[i]
              /\ ProofFor(s, key[1], key[2]).leaf = LeafOf(s, key)
<1> DEFINE leaves == LeavesOf(Root(s))
           Right(i) == leaves[i].account = key[1] /\ leaves[i].token = key[2]
           i == CHOOSE i \in DOMAIN leaves : Right(i)
<1>1. ProofFor(s, key[1], key[2]) =
         [leaf |-> leaves[i], leafIndex |-> i - 1, proof |-> GetProof(StateTree(Root(s)), i - 1)]
  BY DEF ProofFor
<1>2. LeafOf(s, key) \in Root(s) /\ key \in Account \X Token
  BY RootLeaves, StateFacts
<1>3. /\ DOMAIN leaves = 1..Len(leaves) /\ \A j \in DOMAIN leaves : leaves[j] \in Root(s)
      /\ \A leaf \in Root(s) : \E j \in DOMAIN leaves : leaves[j] = leaf
  BY LeavesOfRoot
<1>4. Len(StateTree(Root(s))) = Len(leaves) /\ \A j \in 1..Len(leaves) : StateTree(Root(s))[j] = Leaf(leaves[j])
  BY StateTreeIs
<1> HIDE DEF leaves
<1>5. i \in DOMAIN leaves /\ Right(i)
  <2>1. PICK j \in DOMAIN leaves : leaves[j] = LeafOf(s, key)
    BY <1>2, <1>3
  <2>2. Right(j)
    BY <2>1 DEF LeafOf
  <2> HIDE DEF Right
  <2> QED BY <2>1, <2>2
<1> HIDE DEF i
<1>6. leaves[i] = LeafOf(s, key)
  <2>1. PICK k \in DOMAIN s.accounts : leaves[i] = LeafOf(s, k)
    BY <1>3, <1>5, RootLeaves
  <2>2. k \in Account \X Token /\ k[1] = key[1] /\ k[2] = key[2]
    BY <1>5, <2>1, StateFacts DEF LeafOf
  <2>3. k = key
    BY <1>2, <2>2
  <2> QED BY <2>1, <2>3
<1> QED BY <1>1, <1>3, <1>4, <1>5, <1>6 DEF StateLeaf

\* The proof of a balance verifies under the root of the state it was made from,
\* and of no other: one account that has changed since spoils the proofs of all
\* (proofFor, state.ts:184-192; verify_proof, lib.rs:231-252).
THEOREM BalanceProofIsForItsRoot ==
    ASSUME NEW s \in States, IsFiniteSet(DOMAIN s.accounts), NEW key \in DOMAIN s.accounts,
           NEW t \in States, IsFiniteSet(DOMAIN t.accounts), DOMAIN t.accounts # {},
           NEW given, given = ProofFor(s, key[1], key[2])
    PROVE  VerifyProof(StateLeaf(given.leaf), given.leafIndex, given.proof, ComputeRoot(StateTree(Root(t))))
               <=> Root(s) = Root(t)
<1> DEFINE a == StateTree(Root(s))
           b == StateTree(Root(t))
<1>1. PICK i \in 1..Len(a) : /\ given.leafIndex = i - 1 /\ given.proof = GetProof(a, i - 1)
                             /\ StateLeaf(given.leaf) = a[i]
  BY ProofForIs
<1>2. Len(a) \in Nat /\ LeavesOnly(a) /\ Len(b) \in Nat /\ LeavesOnly(b)
  BY StateTreeIs, LeavesOfRoot
<1>3. Len(b) >= 1
  <2>1. PICK k : k \in DOMAIN t.accounts
    OBVIOUS
  <2>2. PICK j \in DOMAIN LeavesOf(Root(t)) : LeavesOf(Root(t))[j] = LeafOf(t, k)
    BY <2>1, RootLeaves, LeavesOfRoot
  <2>3. Len(LeavesOf(Root(t))) \in Nat /\ j \in 1..Len(LeavesOf(Root(t))) /\ Len(b) = Len(LeavesOf(Root(t)))
    BY <2>2, StateTreeIs, LeavesOfRoot
  <2> QED BY <2>3
<1>4. (Len(a) = Len(b) /\ \A j \in 1..Len(a) : a[j] = b[j]) => Root(s) = Root(t)
  BY TreeBindsRoot
<1>5. Root(s) = Root(t) => a = b
  OBVIOUS
<1> HIDE DEF a, b
<1>6. i - 1 \in Nat /\ i - 1 < Len(a) /\ (i - 1) + 1 = i
  BY <1>2
<1>7. VerifyProof(a[i], i - 1, GetProof(a, i - 1), ComputeRoot(a))
  <2>1. VerifyProof(a[(i - 1) + 1], i - 1, GetProof(a, i - 1), ComputeRoot(a))
    BY <1>2, <1>6, ProofsAreComplete
  <2> QED BY <1>6, <2>1
<1>8. ASSUME VerifyProof(a[i], i - 1, GetProof(a, i - 1), ComputeRoot(b)) PROVE Root(s) = Root(t)
  <2>1. VerifyProof(a[(i - 1) + 1], i - 1, GetProof(a, i - 1), ComputeRoot(b))
    BY <1>6, <1>8
  <2>2. Len(a) = Len(b) /\ \A j \in 1..Len(a) : a[j] = b[j]
    BY <1>2, <1>3, <1>6, <2>1, ProofIsForOneTree
  <2> QED BY <1>4, <2>2
<1>9. Root(s) = Root(t) => VerifyProof(a[i], i - 1, GetProof(a, i - 1), ComputeRoot(b))
  BY <1>5, <1>7
<1>10. StateTree(Root(t)) = b
  BY DEF b
<1> QED BY <1>1, <1>8, <1>9, <1>10

-----------------------------------------------------------------------------
(* A transaction changes the root *)

LEMMA RootBindsAccounts ==
    ASSUME NEW s \in States, NEW t \in States, Root(s) = Root(t), NEW account, NEW token
    PROVE  Get(s, account, token) = Get(t, account, token)
<1>1. ASSUME NEW u \in States, NEW v \in States, Root(u) = Root(v), NEW key \in DOMAIN u.accounts
      PROVE  key \in DOMAIN v.accounts /\ u.accounts[key] = v.accounts[key]
  <2>1. PICK k \in DOMAIN v.accounts : LeafOf(u, key) = LeafOf(v, k)
    <3>1. LeafOf(u, key) \in Root(v)
      BY <1>1, RootLeaves
    <3>2. Root(v) = {LeafOf(v, k) : k \in DOMAIN v.accounts}
      BY RootLeaves
    <3> QED BY <3>1, <3>2
  <2>2. k = key
    <3>1. <<LeafOf(u, key).account, LeafOf(u, key).token>> = key /\ <<LeafOf(v, k).account, LeafOf(v, k).token>> = k
      BY RootLeaves
    <3> QED BY <2>1, <3>1
  <2>3. u.accounts[key].balance = v.accounts[key].balance /\ u.accounts[key].nonce = v.accounts[key].nonce
    BY <2>1, <2>2 DEF LeafOf
  <2>4. u.accounts[key] \in AccountState /\ v.accounts[key] \in AccountState
    BY <2>2, StateFacts
  <2>5. \A a, b \in AccountState : a.balance = b.balance /\ a.nonce = b.nonce => a = b
    BY DEF AccountState
  <2>6. u.accounts[key] = v.accounts[key]
    BY <2>3, <2>4, <2>5
  <2> QED BY <2>2, <2>6
<1> DEFINE key == <<account, token>>
<1>2. CASE key \in DOMAIN s.accounts
  <2>1. key \in DOMAIN t.accounts /\ s.accounts[key] = t.accounts[key]
    BY <1>1, <1>2
  <2> QED BY <1>2, <2>1 DEF Get
<1>3. CASE key \notin DOMAIN s.accounts
  <2>1. key \notin DOMAIN t.accounts
    BY <1>1, <1>3
  <2> QED BY <1>3, <2>1 DEF Get
<1> QED BY <1>2, <1>3

\* State t is one that transactions lead to from s: a nonce has grown, or no nonce
\* and some balance.
Ahead(s, t) ==
    /\ \A a \in Account, k \in Token : Get(s, a, k).nonce <= Get(t, a, k).nonce
    /\ \/ \E a \in Account, k \in Token : Get(s, a, k).nonce < Get(t, a, k).nonce
       \/ /\ \A a \in Account, k \in Token : Get(s, a, k).balance <= Get(t, a, k).balance
          /\ \E a \in Account, k \in Token : Get(s, a, k).balance < Get(t, a, k).balance

LEMMA AheadHasOtherRoot ==
    ASSUME NEW s \in States, NEW t \in States, Ahead(s, t)
    PROVE  Root(s) # Root(t)
<1> SUFFICES ASSUME Root(s) = Root(t) PROVE FALSE
  OBVIOUS
<1>1. \A a \in Account, k \in Token : Get(s, a, k) = Get(t, a, k)
  BY RootBindsAccounts
<1>2. \A a \in Account, k \in Token : Get(s, a, k).nonce \in Nat /\ Get(s, a, k).balance \in Nat
  BY GetType
<1> QED BY <1>1, <1>2 DEF Ahead

\* A deposit raises one balance, and changes nothing else.
LEMMA DepositFacts ==
    ASSUME NEW s \in States, NEW tx \in L2Tx, Valid(s, Token, tx), tx.type = "deposit"
    PROVE  /\ tx.to \in Account /\ tx.token \in Token
           /\ Get(Apply(s, tx), tx.to, tx.token).balance > Get(s, tx.to, tx.token).balance
           /\ \A a, t : Get(Apply(s, tx), a, t).balance >= Get(s, a, t).balance
<1> DEFINE cur == Get(s, tx.to, tx.token)
           acc == [cur EXCEPT !.balance = @ + tx.amount]
           credited == Put(s, tx.to, tx.token, acc)
<1>1. tx.amount \in Nat /\ tx.amount > 0 /\ tx.to \in Account /\ tx.token \in Token
  BY DEF Valid, L2Tx
<1>2. acc \in AccountState /\ acc.balance = cur.balance + tx.amount /\ cur.balance \in Nat
  BY <1>1, GetType DEF AccountState
<1>3. Apply(s, tx) = [credited EXCEPT !.nextDepositIndex = @ + 1]
  BY DEF Apply, Credit
<1>4. /\ credited \in States /\ Get(credited, tx.to, tx.token) = acc
      /\ \A a, t : <<a, t>> # <<tx.to, tx.token>> => Get(credited, a, t) = Get(s, a, t)
  BY <1>1, <1>2, PutFacts
<1> HIDE DEF credited, acc
<1>5. Apply(s, tx).accounts = credited.accounts
  BY <1>3, <1>4 DEF States
<1>6. ASSUME NEW a, NEW t PROVE Get(Apply(s, tx), a, t) = Get(credited, a, t)
  BY <1>5 DEF Get
<1> HIDE DEF cur
<1>7. Get(Apply(s, tx), tx.to, tx.token).balance > cur.balance
  BY <1>1, <1>2, <1>4, <1>6
<1>8. ASSUME NEW a, NEW t PROVE Get(Apply(s, tx), a, t).balance >= Get(s, a, t).balance
  <2>1. CASE a = tx.to /\ t = tx.token
    BY <1>2, <1>7, <1>1, <1>4, <1>6, <2>1 DEF cur
  <2>2. CASE ~(a = tx.to /\ t = tx.token)
    <3>1. Get(Apply(s, tx), a, t) = Get(s, a, t)
      BY <1>4, <1>6, <2>2
    <3>2. Get(s, a, t).balance \in Nat
      BY GetType
    <3> QED BY <3>1, <3>2
  <2> QED BY <2>1, <2>2
<1> QED BY <1>1, <1>7, <1>8 DEF cur

\* One transaction more, and the state is ahead of all it was ahead of.
LEMMA ApplyGoesAhead ==
    ASSUME NEW from \in States, NEW s \in States, from = s \/ Ahead(from, s),
           NEW tx \in L2Tx, Valid(s, Token, tx)
    PROVE  Ahead(from, Apply(s, tx))
<1> DEFINE t == Apply(s, tx)
<1>1. \A a \in Account, k \in Token :
         /\ Get(from, a, k).nonce \in Nat /\ Get(s, a, k).nonce \in Nat /\ Get(t, a, k).nonce \in Nat
         /\ Get(from, a, k).balance \in Nat /\ Get(s, a, k).balance \in Nat /\ Get(t, a, k).balance \in Nat
  BY ApplyFacts, GetType
<1>2. \A a \in Account, k \in Token : Get(from, a, k).nonce <= Get(s, a, k).nonce
  BY <1>1 DEF Ahead
<1>3. \A a \in Account, k \in Token :
         Get(t, a, k).nonce = Get(s, a, k).nonce + (IF tx.type # "deposit" /\ a = tx.from /\ k = tx.token THEN 1 ELSE 0)
  BY ApplyFacts
<1>4. \A a \in Account, k \in Token : Get(s, a, k).nonce <= Get(t, a, k).nonce
  BY <1>1, <1>3
<1>5. ASSUME tx.type = "deposit" PROVE Ahead(from, t)
  <2>1. /\ \A a \in Account, k \in Token : Get(s, a, k).balance <= Get(t, a, k).balance
        /\ \E a \in Account, k \in Token : Get(s, a, k).balance < Get(t, a, k).balance
    <3>1. /\ tx.to \in Account /\ tx.token \in Token
          /\ Get(t, tx.to, tx.token).balance > Get(s, tx.to, tx.token).balance
          /\ \A a, k : Get(t, a, k).balance >= Get(s, a, k).balance
      BY <1>5, DepositFacts
    <3> HIDE DEF t
    <3> QED BY <1>1, <3>1
  <2> HIDE DEF t
  <2>2. CASE from = s
    BY <1>4, <2>1, <2>2 DEF Ahead
  <2>3. CASE \E a \in Account, k \in Token : Get(from, a, k).nonce < Get(s, a, k).nonce
    <3>1. \E a \in Account, k \in Token : Get(from, a, k).nonce < Get(t, a, k).nonce
      BY <1>1, <1>4, <2>3
    <3>2. \A a \in Account, k \in Token : Get(from, a, k).nonce <= Get(t, a, k).nonce
      BY <1>1, <1>2, <1>4
    <3> QED BY <3>1, <3>2 DEF Ahead
  <2>4. CASE \A a \in Account, k \in Token : Get(from, a, k).balance <= Get(s, a, k).balance
    <3>1. \A a \in Account, k \in Token : Get(from, a, k).balance <= Get(t, a, k).balance
      BY <1>1, <2>1, <2>4
    <3>2. \E a \in Account, k \in Token : Get(from, a, k).balance < Get(t, a, k).balance
      BY <1>1, <2>1, <2>4
    <3>3. \A a \in Account, k \in Token : Get(from, a, k).nonce <= Get(t, a, k).nonce
      BY <1>1, <1>2, <1>4
    <3> QED BY <3>1, <3>2, <3>3 DEF Ahead
  <2> QED BY <2>2, <2>3, <2>4 DEF Ahead
<1>6. ASSUME tx.type # "deposit" PROVE Ahead(from, t)
  <2>1. tx.from \in Account /\ tx.token \in Token
    BY <1>6 DEF L2Tx
  <2>2. Get(t, tx.from, tx.token).nonce = Get(s, tx.from, tx.token).nonce + 1
    BY <1>3, <1>6, <2>1
  <2> HIDE DEF t
  <2>3. Get(from, tx.from, tx.token).nonce < Get(t, tx.from, tx.token).nonce
    BY <1>1, <1>2, <2>1, <2>2
  <2>4. \A a \in Account, k \in Token : Get(from, a, k).nonce <= Get(t, a, k).nonce
    BY <1>1, <1>2, <1>4
  <2> QED BY <2>1, <2>3, <2>4 DEF Ahead
<1> QED BY <1>5, <1>6 DEF t

-----------------------------------------------------------------------------
(* A state has finitely many accounts, and keeps them *)

LEMMA PutKeys ==
    ASSUME NEW s, NEW account, NEW token, NEW acc
    PROVE  DOMAIN Put(s, account, token, acc).accounts = DOMAIN s.accounts \cup {<<account, token>>}
<1> DEFINE accounts == [k \in DOMAIN s.accounts \cup {<<account, token>>} |->
                           IF k = <<account, token>> THEN acc ELSE s.accounts[k]]
<1>1. Put(s, account, token, acc) = [s EXCEPT !.accounts = accounts]
  BY DEF Put
<1> QED BY <1>1

FiniteAccounts(s) == IsFiniteSet(DOMAIN s.accounts)

LEMMA ApplyKeys ==
    ASSUME NEW s, FiniteAccounts(s), NEW tx \in L2Tx
    PROVE  FiniteAccounts(Apply(s, tx)) /\ DOMAIN Apply(s, tx).accounts # {}
<1>1. ASSUME NEW u, FiniteAccounts(u), NEW account, NEW token, NEW acc
      PROVE  /\ FiniteAccounts(Put(u, account, token, acc))
             /\ <<account, token>> \in DOMAIN Put(u, account, token, acc).accounts
  <2>1. IsFiniteSet(DOMAIN u.accounts \cup {<<account, token>>})
    BY <1>1, FS_AddElement DEF FiniteAccounts
  <2>2. DOMAIN Put(u, account, token, acc).accounts = DOMAIN u.accounts \cup {<<account, token>>}
    BY PutKeys
  <2> QED BY <2>1, <2>2 DEF FiniteAccounts
<1>2. ASSUME NEW u, FiniteAccounts(u), NEW account, NEW token, NEW amount
      PROVE  /\ FiniteAccounts(Credit(u, account, token, amount))
             /\ <<account, token>> \in DOMAIN Credit(u, account, token, amount).accounts
  BY <1>1, <1>2 DEF Credit
<1>3. ASSUME NEW u, FiniteAccounts(u), NEW account, NEW token, NEW amount
      PROVE  /\ FiniteAccounts(DebitAndBump(u, account, token, amount))
             /\ <<account, token>> \in DOMAIN DebitAndBump(u, account, token, amount).accounts
  BY <1>1, <1>3 DEF DebitAndBump
<1>4. CASE tx.type = "deposit"
  <2> DEFINE credited == Credit(s, tx.to, tx.token, tx.amount)
  <2>1. FiniteAccounts(credited) /\ DOMAIN credited.accounts # {}
    BY <1>2
  <2>2. Apply(s, tx) = [credited EXCEPT !.nextDepositIndex = @ + 1]
    BY <1>4 DEF Apply
  <2> HIDE DEF credited
  <2>3. Apply(s, tx).accounts = credited.accounts
    BY <2>2
  <2> QED BY <2>1, <2>3 DEF FiniteAccounts
<1>5. CASE tx.type = "transfer"
  <2>1. Apply(s, tx) = Credit(DebitAndBump(s, tx.from, tx.token, tx.amount), tx.to, tx.token, tx.amount)
    BY <1>5 DEF Apply
  <2> QED BY <1>2, <1>3, <2>1
<1>6. CASE tx.type = "withdraw"
  <2>1. Apply(s, tx) = DebitAndBump(s, tx.from, tx.token, tx.amount)
    BY <1>6 DEF Apply
  <2> QED BY <1>3, <2>1
<1>7. tx.type \in {"deposit", "transfer", "withdraw"}
  BY DEF L2Tx
<1> QED BY <1>4, <1>5, <1>6, <1>7

-----------------------------------------------------------------------------
(* What is issued of a token *)

KeysOf(s, token) == {k \in DOMAIN s.accounts : k[2] = token}

Balances(s) == [k \in DOMAIN s.accounts |-> s.accounts[k].balance]

\* Issued is a sum in the sense above.
LEMMA IssuedIs ==
    ASSUME NEW s \in States, IsFiniteSet(DOMAIN s.accounts), NEW token
    PROVE  \E F : Totals(F, Balances(s), KeysOf(s, token)) /\ Issued(s, token) = F[KeysOf(s, token)]
<1> DEFINE keys == KeysOf(s, token)
           f == Balances(s)
           iter == CHOOSE F : F = [part \in SUBSET keys |->
                     IF part = {} THEN 0 ELSE s.accounts[OneOf(part)].balance + F[part \ {OneOf(part)}]]
<1>1. /\ IsFiniteSet(keys)
      /\ \A x \in keys : f[x] = s.accounts[x].balance /\ f[x] \in Int
  BY StateFacts, FS_Subset DEF KeysOf, Balances, AccountState
<1>2. Issued(s, token) = iter[keys]
  BY DEF Issued, MapThenSumSet, MapThenFoldSet, KeysOf, OneOf
<1> HIDE DEF keys, f
<1>3. ASSUME NEW part \in SUBSET keys, part # {}
      PROVE  f[OneOf(part)] = s.accounts[OneOf(part)].balance
  BY <1>1, <1>3, OneOfIs
<1>4. \E F : F = [part \in SUBSET keys |->
                     IF part = {} THEN 0 ELSE s.accounts[OneOf(part)].balance + F[part \ {OneOf(part)}]]
  <2>1. PICK F : Iterates(F, f, keys)
    BY <1>1, TotalsAreIter
  <2> QED BY <1>3, <2>1 DEF Iterates
<1>5. iter = [part \in SUBSET keys |->
                 IF part = {} THEN 0 ELSE s.accounts[OneOf(part)].balance + iter[part \ {OneOf(part)}]]
  BY <1>4
<1> HIDE DEF iter
<1>6. Iterates(iter, f, keys)
  BY <1>3, <1>5 DEF Iterates
<1>7. Totals(iter, f, keys)
  BY <1>1, <1>6, TotalsAreIter
<1> QED BY <1>2, <1>7 DEF keys, f

\* What is issued is a number, and a change of one account changes what is issued
\* of its token by as much.
LEMMA IssuedType ==
    ASSUME NEW s \in States, IsFiniteSet(DOMAIN s.accounts), NEW token
    PROVE  Issued(s, token) \in Int
<1>1. PICK F : Totals(F, Balances(s), KeysOf(s, token)) /\ Issued(s, token) = F[KeysOf(s, token)]
  BY IssuedIs
<1> DEFINE keys == KeysOf(s, token)
<1>2. keys \subseteq keys
  OBVIOUS
<1> HIDE DEF keys
<1> QED BY <1>1, <1>2 DEF Totals, keys

LEMMA IssuedPut ==
    ASSUME NEW s \in States, IsFiniteSet(DOMAIN s.accounts),
           NEW account \in Account, NEW token \in Token, NEW acc \in AccountState, NEW t,
           NEW after, after = Put(s, account, token, acc)
    PROVE  /\ IsFiniteSet(DOMAIN after.accounts)
           /\ Issued(after, t) = IF t = token THEN Issued(s, t) - Get(s, account, token).balance + acc.balance
                                 ELSE Issued(s, t)
<1> DEFINE key == <<account, token>>
           f == Balances(s)
           g == Balances(after)
<1>0. after \in States
  BY PutFacts
<1>1. after.accounts = [k \in DOMAIN s.accounts \cup {key} |-> IF k = key THEN acc ELSE s.accounts[k]]
  BY DEF Put, States
<1>2. DOMAIN after.accounts = DOMAIN s.accounts \cup {key} /\ IsFiniteSet(DOMAIN after.accounts)
  BY <1>1, FS_AddElement
<1>3. PICK F : Totals(F, f, KeysOf(s, t)) /\ Issued(s, t) = F[KeysOf(s, t)]
  BY IssuedIs
<1>4. PICK G : Totals(G, g, KeysOf(after, t)) /\ Issued(after, t) = G[KeysOf(after, t)]
  BY <1>0, <1>2, IssuedIs
<1>5. /\ g[key] = acc.balance
      /\ \A k \in DOMAIN s.accounts : k # key => g[k] = f[k]
      /\ key \in DOMAIN s.accounts => f[key] = Get(s, account, token).balance
      /\ key \notin DOMAIN s.accounts => Get(s, account, token).balance = 0
  BY <1>1, <1>2 DEF Balances, Get
<1>6. CASE t = token
  <2>1. KeysOf(after, t) = KeysOf(s, t) \cup {key}
    BY <1>2, <1>6 DEF KeysOf
  <2>2. key \in KeysOf(s, t) <=> key \in DOMAIN s.accounts
    BY <1>6 DEF KeysOf
  <2>3. \A k \in KeysOf(s, t) : k # key => g[k] = f[k]
    BY <1>5 DEF KeysOf
  <2>4. Get(s, account, token).balance = IF key \in KeysOf(s, t) THEN f[key] ELSE 0
    BY <1>5, <2>2
  <2> HIDE DEF key, f, g
  <2>5. G[KeysOf(after, t)] = F[KeysOf(s, t)] - Get(s, account, token).balance + g[key]
    BY <1>3, <1>4, <2>1, <2>3, <2>4, TotalsChange
  <2> QED BY <1>2, <1>3, <1>4, <1>5, <1>6, <2>5
<1>7. CASE t # token
  <2> DEFINE keys == KeysOf(s, t)
  <2>1. KeysOf(after, t) = keys
    BY <1>2, <1>7 DEF KeysOf
  <2>2. \A k \in keys : f[k] = g[k]
    BY <1>5, <1>7 DEF KeysOf
  <2>3. keys \subseteq keys
    OBVIOUS
  <2> HIDE DEF keys, f, g
  <2>4. F[keys] = G[keys]
    BY <1>3, <1>4, <2>1, <2>2, <2>3, TotalsAgree DEF keys
  <2> QED BY <1>2, <1>3, <1>4, <1>7, <2>1, <2>4 DEF keys
<1> QED BY <1>6, <1>7

LEMMA IssuedCredit ==
    ASSUME NEW s \in States, IsFiniteSet(DOMAIN s.accounts),
           NEW account \in Account, NEW token \in Token, NEW amount \in Nat, NEW t,
           NEW after, after = Credit(s, account, token, amount)
    PROVE  /\ after \in States /\ IsFiniteSet(DOMAIN after.accounts)
           /\ Issued(after, t) = Issued(s, t) + (IF t = token THEN amount ELSE 0)
<1> DEFINE cur == Get(s, account, token)
           acc == [cur EXCEPT !.balance = @ + amount]
<1>1. acc \in AccountState /\ acc.balance = cur.balance + amount /\ cur.balance \in Nat
  BY GetType DEF AccountState
<1>2. after = Put(s, account, token, acc)
  BY DEF Credit
<1> HIDE DEF acc, cur
<1>3. /\ IsFiniteSet(DOMAIN after.accounts)
      /\ Issued(after, t) = IF t = token THEN Issued(s, t) - cur.balance + acc.balance ELSE Issued(s, t)
  BY <1>1, <1>2, IssuedPut DEF cur
<1>4. Issued(s, t) \in Int /\ after \in States
  BY IssuedType, CreditFacts
<1> QED BY <1>1, <1>3, <1>4

LEMMA IssuedDebit ==
    ASSUME NEW s \in States, IsFiniteSet(DOMAIN s.accounts),
           NEW account \in Account, NEW token \in Token, NEW amount \in Nat, NEW t,
           Get(s, account, token).balance >= amount,
           NEW after, after = DebitAndBump(s, account, token, amount)
    PROVE  /\ after \in States /\ IsFiniteSet(DOMAIN after.accounts)
           /\ Issued(after, t) = Issued(s, t) - (IF t = token THEN amount ELSE 0)
<1> DEFINE cur == Get(s, account, token)
           acc == [balance |-> cur.balance - amount, nonce |-> cur.nonce + 1]
<1>1. acc \in AccountState /\ acc.balance = cur.balance - amount /\ cur.balance \in Nat
  BY GetType DEF AccountState
<1>2. after = Put(s, account, token, acc)
  BY DEF DebitAndBump
<1> HIDE DEF acc, cur
<1>3. /\ IsFiniteSet(DOMAIN after.accounts)
      /\ Issued(after, t) = IF t = token THEN Issued(s, t) - cur.balance + acc.balance ELSE Issued(s, t)
  BY <1>1, <1>2, IssuedPut DEF cur
<1>4. Issued(s, t) \in Int /\ after \in States
  BY IssuedType, DebitFacts
<1> QED BY <1>1, <1>3, <1>4

\* What a transaction adds to what is issued of a token.
Minted(tx, t) ==
    IF tx.token # t THEN 0
    ELSE IF tx.type = "deposit" THEN tx.amount
    ELSE IF tx.type = "withdraw" THEN 0 - tx.amount ELSE 0

\* A deposit issues its amount, a withdraw takes it back, and a transfer, of which
\* sender and receiver may be the same or new, issues nothing (state.ts:130-148).
LEMMA IssuedApply ==
    ASSUME NEW s \in States, IsFiniteSet(DOMAIN s.accounts), NEW tx \in L2Tx, Valid(s, Token, tx), NEW t
    PROVE  Issued(Apply(s, tx), t) = Issued(s, t) + Minted(tx, t)
<1>1. tx.amount \in Nat /\ tx.to \in Account /\ tx.token \in Token /\ Issued(s, t) \in Int
  BY IssuedType DEF Valid, L2Tx
<1>2. CASE tx.type = "deposit"
  <2> DEFINE credited == Credit(s, tx.to, tx.token, tx.amount)
  <2>1. Issued(credited, t) = Issued(s, t) + (IF t = tx.token THEN tx.amount ELSE 0) /\ credited \in States
    BY <1>1, IssuedCredit
  <2>2. Apply(s, tx) = [credited EXCEPT !.nextDepositIndex = @ + 1]
    BY <1>2 DEF Apply
  <2> HIDE DEF credited
  <2>3. Apply(s, tx).accounts = credited.accounts
    BY <2>1, <2>2 DEF States
  <2>4. Issued(Apply(s, tx), t) = Issued(credited, t)
    BY <2>3 DEF Issued
  <2> QED BY <1>1, <1>2, <2>1, <2>4 DEF Minted
<1>3. CASE tx.type \in {"transfer", "withdraw"}
  <2> DEFINE debited == DebitAndBump(s, tx.from, tx.token, tx.amount)
  <2>1. tx.from \in Account /\ Get(s, tx.from, tx.token).balance >= tx.amount
    BY <1>3 DEF Valid, L2Tx, BalanceCovers
  <2>2. /\ debited \in States /\ IsFiniteSet(DOMAIN debited.accounts)
        /\ Issued(debited, t) = Issued(s, t) - (IF t = tx.token THEN tx.amount ELSE 0)
    BY <1>1, <2>1, IssuedDebit
  <2>3. tx.type = "transfer" => Apply(s, tx) = Credit(debited, tx.to, tx.token, tx.amount)
    BY DEF Apply
  <2>4. tx.type = "withdraw" => Apply(s, tx) = debited
    BY DEF Apply
  <2> HIDE DEF debited
  <2>5. CASE tx.type = "transfer"
    <3>1. Issued(Apply(s, tx), t) = Issued(debited, t) + (IF t = tx.token THEN tx.amount ELSE 0)
      BY <1>1, <2>2, <2>3, <2>5, IssuedCredit
    <3> QED BY <1>1, <2>2, <2>5, <3>1 DEF Minted
  <2>6. CASE tx.type = "withdraw"
    BY <1>1, <2>2, <2>4, <2>6 DEF Minted
  <2> QED BY <1>3, <2>5, <2>6
<1>4. tx.type \in {"deposit", "transfer", "withdraw"}
  BY DEF L2Tx
<1> QED BY <1>2, <1>3, <1>4

\* Nothing is issued at genesis.
LEMMA IssuedAtGenesis == \A t : Issued(EmptyState, t) = 0
<1> SUFFICES ASSUME NEW t PROVE Issued(EmptyState, t) = 0
  OBVIOUS
<1>1. DOMAIN EmptyState.accounts = {} /\ IsFiniteSet(DOMAIN EmptyState.accounts)
  BY FS_EmptySet DEF EmptyState
<1>2. PICK F : Totals(F, Balances(EmptyState), KeysOf(EmptyState, t))
                 /\ Issued(EmptyState, t) = F[KeysOf(EmptyState, t)]
  BY <1>1, EmptyStateType, IssuedIs
<1>3. KeysOf(EmptyState, t) = {}
  BY <1>1 DEF KeysOf
<1> QED BY <1>2, <1>3 DEF Totals
=============================================================================
