-------------------------- MODULE FlashBridgeProofs --------------------------
(***************************************************************************)
(* What is proved of the contract, of the contract together with an honest *)
(* sequencer, and of the mock that stands in for the contract.             *)
(*                                                                         *)
(* The first part is about module FlashBridge, for every set of accounts,  *)
(* tokens and published trees, and any challenge period and liveness       *)
(* timeout the constructor accepts.  The second is about FlashRollup: the  *)
(* sums its invariants compare (what a tree holds, what can be claimed,    *)
(* what was deposited) as sums of functions that a step changes in one     *)
(* place, then the inductive invariant RollupInv, whose heart is Flow:     *)
(* between two points of the chain nothing is made or lost.  The third is  *)
(* about MockL1, which keeps what the contract keeps (MockInv) as long as  *)
(* nobody uses an exit it does not know.                                   *)
(***************************************************************************)
EXTENDS MockL1, TreesAndSums

\* A transfer out of the vault keeps the types of the vault and of the history.
LEMMA PayOutTypes ==
    ASSUME NEW kind \in {"withdraw", "escape", "reclaim"}, NEW batch \in Nat,
           NEW index \in Nat, NEW to \in Address, NEW token \in Token, NEW amount \in Nat,
           PayOut(kind, batch, index, to, token, amount),
           vault \in [Token -> Nat],
           DOMAIN payouts \subseteq Payout,
           payouts \in [DOMAIN payouts -> Nat]
    PROVE  /\ vault' \in [Token -> Nat]
           /\ DOMAIN payouts' \subseteq Payout
           /\ payouts' \in [DOMAIN payouts' -> Nat]
<1>1. vault' \in [Token -> Nat]
  <2>1. vault[token] - amount \in Nat
    BY DEF PayOut, InVault
  <2>2. QED BY <2>1 DEF PayOut
<1> DEFINE p == [kind |-> kind, batch |-> batch, index |-> index,
                 to |-> to, token |-> token, amount |-> amount]
<1>2. p \in Payout
  BY DEF Payout
<1>3. payouts' = AddPayout(p)
  BY DEF PayOut
<1> HIDE DEF p
<1>4. DOMAIN payouts' \subseteq Payout /\ payouts' \in [DOMAIN payouts' -> Nat]
  BY <1>2, <1>3 DEF AddPayout
<1>5. QED BY <1>1, <1>4

\* A batch, a withdrawal and an escape keep the type invariant, whatever is
\* published and whatever is claimed.
LEMMA CommitTypes ==
    ASSUME TypeOK, NEW caller, NEW batchIndex, NEW prevRoot, NEW newRoot \in SUBSET StateLeaf,
           NEW wRoot \in [batch : Nat, leaves : Seq(Withdrawal)], NEW txCount, NEW cursor \in Nat,
           CommitBatch(caller, batchIndex, prevRoot, newRoot, wRoot, txCount, cursor)
    PROVE  TypeOK'
<1> USE BridgeConfig DEF TypeOK, CommitBatch, MayCommit, StoreBatch, configVars, depositVars, exitVars
<1>1. ClockTypes' BY DEF ClockTypes
<1>2. ConfigTypes' BY DEF ConfigTypes
<1>3. batches' \in Seq(BatchInfo) BY DEF BatchInfo, ClockTypes
<1>4. DepositTypes' BY DEF DepositTypes
<1>5. ExitTypes' BY DEF ExitTypes
<1>6. vault' \in [Token -> Nat] OBVIOUS
<1> QED BY <1>1, <1>2, <1>3, <1>4, <1>5, <1>6

LEMMA WithdrawTypes ==
    ASSUME TypeOK, NEW b \in DOMAIN batches, NEW w \in Nat, NEW recipient \in Address,
           NEW token \in Token, NEW amount \in Int, Withdraw(b, w, recipient, token, amount)
    PROVE  TypeOK'
<1> USE BridgeConfig DEF TypeOK, Withdraw, configVars, depositVars, batchVars
<1>1. ClockTypes' BY DEF ClockTypes
<1>2. ConfigTypes' BY DEF ConfigTypes
<1>3. batches' \in Seq(BatchInfo) OBVIOUS
<1>4. DepositTypes' BY DEF DepositTypes
<1>5. b \in Nat /\ amount \in Nat
  OBVIOUS
<1>6. /\ vault' \in [Token -> Nat]
      /\ DOMAIN payouts' \subseteq Payout
      /\ payouts' \in [DOMAIN payouts' -> Nat]
  BY <1>5, PayOutTypes DEF ExitTypes
<1>7. ExitTypes' BY <1>5, <1>6 DEF ExitTypes
<1> QED BY <1>1, <1>2, <1>3, <1>4, <1>6, <1>7

LEMMA EscapeTypes ==
    ASSUME TypeOK, NEW account \in Address, NEW token \in Token, NEW balance \in Int, NEW nonce,
           Escape(account, token, balance, nonce)
    PROVE  TypeOK'
<1> USE BridgeConfig DEF TypeOK, Escape, MayEscape, configVars, depositVars, batchVars
<1>1. ClockTypes' BY DEF ClockTypes
<1>2. ConfigTypes' BY DEF ConfigTypes
<1>3. batches' \in Seq(BatchInfo) OBVIOUS
<1>4. DepositTypes' BY DEF DepositTypes
<1>5. Len(batches) \in Nat /\ balance \in Nat
  OBVIOUS
<1>6. /\ vault' \in [Token -> Nat]
      /\ DOMAIN payouts' \subseteq Payout
      /\ payouts' \in [DOMAIN payouts' -> Nat]
  BY <1>5, PayOutTypes DEF ExitTypes
<1>7. ExitTypes' BY <1>5, <1>6, SMTT(30) DEF ExitTypes
<1> QED BY <1>1, <1>2, <1>3, <1>4, <1>6, <1>7

\* Every call of the contract keeps the type invariant.
LEMMA TypeStep == TypeOK /\ [Next]_vars => TypeOK'
<1> SUFFICES ASSUME TypeOK, [Next]_vars PROVE TypeOK'
  OBVIOUS
<1> USE BridgeConfig, BridgeInputs DEF TypeOK
<1>1. CASE CloseLedger
  <2> USE DEF CloseLedger, configVars, batchVars, depositVars, exitVars
  <2>1. ClockTypes' BY <1>1 DEF ClockTypes
  <2>2. ConfigTypes' BY <1>1 DEF ConfigTypes
  <2>3. batches' \in Seq(BatchInfo) BY <1>1
  <2>4. DepositTypes' BY <1>1 DEF DepositTypes
  <2>5. ExitTypes' BY <1>1 DEF ExitTypes
  <2>6. vault' \in [Token -> Nat] BY <1>1
  <2> QED BY <2>1, <2>2, <2>3, <2>4, <2>5, <2>6
<1>2. CASE SomeDeposit
  <2> PICK d \in DepositRequest : Deposit(d)
    BY <1>2 DEF SomeDeposit
  <2> USE DEF Deposit, StoreDeposit, configVars, batchVars, exitVars
  <2>1. ClockTypes' BY DEF ClockTypes
  <2>2. ConfigTypes' BY DEF ConfigTypes
  <2>3. batches' \in Seq(BatchInfo) OBVIOUS
  <2>4. DepositTypes' BY SMTT(30) DEF DepositTypes, ClockTypes, DepositInfo
  <2>5. ExitTypes' BY DEF ExitTypes
  <2>6. vault' \in [Token -> Nat] OBVIOUS
  <2> QED BY <2>1, <2>2, <2>3, <2>4, <2>5, <2>6
<1>3. CASE SomeCommit
  <2> PICK caller \in Operator, prevRoot \in StateRoot \cup {ZeroRoot}, newRoot \in StateRoot,
           wRoot \in WithdrawalsRoot, txCount \in 0..1, batchIndex \in 1..MaxBatches,
           cursor \in 0..MaxDeposits :
           CommitBatch(caller, batchIndex, prevRoot, newRoot, wRoot, txCount, cursor)
    BY <1>3 DEF SomeCommit
  <2>1. /\ newRoot \in SUBSET StateLeaf /\ cursor \in Nat
        /\ wRoot \in [batch : Nat, leaves : Seq(Withdrawal)]
    OBVIOUS
  <2> QED BY <2>1, CommitTypes
<1>4. CASE SomeWithdraw
  <2> PICK b \in DOMAIN batches, r \in WithdrawalsRoot : \E w \in DOMAIN r.leaves :
          Withdraw(b, w, r.leaves[w].recipient, r.leaves[w].token, r.leaves[w].amount)
    BY <1>4 DEF SomeWithdraw
  <2> PICK w \in DOMAIN r.leaves :
          Withdraw(b, w, r.leaves[w].recipient, r.leaves[w].token, r.leaves[w].amount)
    OBVIOUS
  <2>1. w \in Nat /\ r.leaves[w] \in Withdrawal
    OBVIOUS
  <2>2. /\ r.leaves[w].recipient \in Address
        /\ r.leaves[w].token \in Token
        /\ r.leaves[w].amount \in Int
    BY <2>1 DEF Withdrawal
  <2> QED BY <2>1, <2>2, WithdrawTypes
<1>5. CASE SomeEscape
  <2> PICK r \in StateRoot : \E leaf \in r :
          Escape(leaf.account, leaf.token, leaf.balance, leaf.nonce)
    BY <1>5 DEF SomeEscape
  <2> PICK leaf \in r : Escape(leaf.account, leaf.token, leaf.balance, leaf.nonce)
    OBVIOUS
  <2>1. leaf \in StateLeaf
    OBVIOUS
  <2>2. leaf.account \in Address /\ leaf.token \in Token /\ leaf.balance \in Int
    BY <2>1 DEF StateLeaf
  <2> QED BY <2>2, EscapeTypes
<1>6. CASE SomeReclaim
  <2> PICK index \in 0..MaxDeposits : ReclaimDeposit(index)
    BY <1>6 DEF SomeReclaim
  <2> USE DEF ReclaimDeposit, MayReclaim, configVars, batchVars
  <2>1. ClockTypes' BY DEF ClockTypes
  <2>2. ConfigTypes' BY DEF ConfigTypes
  <2>3. batches' \in Seq(BatchInfo) OBVIOUS
  <2>4. DepositTypes' BY DEF DepositTypes, RemoveDeposit
  <2>5. deposits[index] \in DepositInfo /\ index \in Nat
    BY DEF DepositTypes
  <2>6. /\ deposits[index].from \in Address
        /\ deposits[index].token \in Token
        /\ deposits[index].amount \in Nat
    BY <2>5 DEF DepositInfo
  <2>7. /\ vault' \in [Token -> Nat]
        /\ DOMAIN payouts' \subseteq Payout
        /\ payouts' \in [DOMAIN payouts' -> Nat]
    BY <2>5, <2>6, PayOutTypes DEF ExitTypes
  <2>8. ExitTypes' BY <2>7 DEF ExitTypes
  <2> QED BY <2>1, <2>2, <2>3, <2>4, <2>7, <2>8
<1>7. CASE SomeAdminCall
  <2> USE DEF SomeAdminCall, SetSequencer, SetAdmin, SetPaused, batchVars, depositVars, exitVars
  <2>1. ClockTypes' BY <1>7 DEF ClockTypes
  <2>2. ConfigTypes' BY <1>7 DEF ConfigTypes
  <2>3. batches' \in Seq(BatchInfo) BY <1>7
  <2>4. DepositTypes' BY <1>7 DEF DepositTypes
  <2>5. ExitTypes' BY <1>7 DEF ExitTypes
  <2>6. vault' \in [Token -> Nat] BY <1>7
  <2> QED BY <2>1, <2>2, <2>3, <2>4, <2>5, <2>6
<1>8. CASE UNCHANGED vars
  <2> USE DEF vars, configVars, batchVars, depositVars, exitVars
  <2>1. ClockTypes' BY <1>8 DEF ClockTypes
  <2>2. ConfigTypes' BY <1>8 DEF ConfigTypes
  <2>3. batches' \in Seq(BatchInfo) BY <1>8
  <2>4. DepositTypes' BY <1>8 DEF DepositTypes
  <2>5. ExitTypes' BY <1>8 DEF ExitTypes
  <2>6. vault' \in [Token -> Nat] BY <1>8
  <2> QED BY <2>1, <2>2, <2>3, <2>4, <2>5, <2>6
<1> QED BY <1>1, <1>2, <1>3, <1>4, <1>5, <1>6, <1>7, <1>8 DEF Next

\* The state the constructor leaves is well typed.
LEMMA InitTypes == Init => TypeOK
<1> SUFFICES ASSUME Init PROVE TypeOK
  OBVIOUS
<1> USE BridgeConfig DEF Init
<1>1. ClockTypes BY DEF ClockTypes
<1>2. ConfigTypes BY DEF ConfigTypes
<1>3. batches \in Seq(BatchInfo) OBVIOUS
<1>4. DepositTypes BY DEF DepositTypes
<1>5. ExitTypes BY DEF ExitTypes
<1>6. vault \in [Token -> Nat] OBVIOUS
<1> QED BY <1>1, <1>2, <1>3, <1>4, <1>5, <1>6 DEF TypeOK

\* The storage of the contract keeps its types, the vault is never overdrawn
\* and deposit entries exist only below deposit_count.
THEOREM Typing == Spec => []TypeOK
<1> QED BY InitTypes, TypeStep, PTL DEF Spec

-----------------------------------------------------------------------------
\* A step that stores no batch keeps the chain of batches.
LEMMA ChainKept ==
    ASSUME BatchChain, TypeOK, UNCHANGED batchVars,
           depositCount' \in Nat, depositCount' >= depositCount
    PROVE  BatchChain'
<1> USE DEF batchVars
<1>1. \A j \in DOMAIN batches : batches[j] \in BatchInfo
  BY DEF TypeOK
<1>2. \A j \in DOMAIN batches : batches[j].depositCursor \in Nat
  BY <1>1 DEF BatchInfo
<1>3. \A j \in DOMAIN batches : batches[j].depositCursor <= depositCount'
  BY <1>2 DEF BatchChain, TypeOK, DepositTypes
<1> QED BY <1>3 DEF BatchChain, LastBatch

\* commit_batch extends the chain.
LEMMA ChainExtended ==
    ASSUME BatchChain, TypeOK, SomeCommit
    PROVE  BatchChain'
<1> PICK caller \in Operator, prevRoot \in StateRoot \cup {ZeroRoot}, newRoot \in StateRoot,
         wRoot \in WithdrawalsRoot, txCount \in 0..1, batchIndex \in 1..MaxBatches,
         cursor \in 0..MaxDeposits :
         CommitBatch(caller, batchIndex, prevRoot, newRoot, wRoot, txCount, cursor)
  BY DEF SomeCommit
<1> DEFINE n == Len(batches)
           b == [stateRoot |-> newRoot, withdrawalsRoot |-> wRoot,
                 depositCursor |-> cursor, commitLedger |-> ledger]
<1>1. /\ batches' = Append(batches, b)
      /\ lastCommitLedger' = ledger
      /\ depositCount' = depositCount
      /\ cursor <= depositCount
      /\ cursor \in Nat
      /\ cursor >= PrevState.depositCursor
  BY BridgeInputs DEF CommitBatch, MayCommit, StoreBatch, depositVars
<1>2. \A j \in DOMAIN batches : /\ batches[j].depositCursor \in Nat
                                /\ batches[j].commitLedger \in Nat
  <2>1. \A j \in DOMAIN batches : batches[j] \in BatchInfo
    BY DEF TypeOK
  <2> QED BY <2>1, BridgeConfig DEF BatchInfo
<1>3. /\ batches \in Seq(BatchInfo)
      /\ ledger \in Nat /\ lastCommitLedger \in Nat /\ lastCommitLedger <= ledger
  BY BridgeConfig DEF TypeOK, ClockTypes
<1>4. /\ n \in Nat
      /\ DOMAIN batches = 1..n
      /\ DOMAIN batches' = 1..n+1
      /\ Len(batches') = n + 1
      /\ batches'[n+1] = b
      /\ \A j \in 1..n : batches'[j] = batches[j]
  BY <1>1, <1>3
<1>5. \A j \in 1..n : /\ batches[j].depositCursor <= cursor
                      /\ batches[j].commitLedger <= ledger
  <2> SUFFICES ASSUME NEW j \in 1..n
               PROVE  /\ batches[j].depositCursor <= cursor
                      /\ batches[j].commitLedger <= ledger
    OBVIOUS
  <2>1. n \in DOMAIN batches /\ j <= n /\ batches # <<>>
    BY <1>4
  <2>2. /\ batches[j].depositCursor <= batches[n].depositCursor
        /\ batches[j].commitLedger <= batches[n].commitLedger
    BY <2>1, <1>4 DEF BatchChain
  <2>3. batches[n].commitLedger = lastCommitLedger /\ cursor >= batches[n].depositCursor
    BY <2>1, <1>1 DEF BatchChain, PrevState, LastBatch
  <2> QED BY <2>1, <2>2, <2>3, <1>1, <1>2, <1>3, <1>4
<1>6. ASSUME NEW j \in DOMAIN batches', NEW k \in DOMAIN batches', j <= k
      PROVE  /\ batches'[j].depositCursor <= batches'[k].depositCursor
             /\ batches'[j].commitLedger <= batches'[k].commitLedger
  <2>1. CASE k \in 1..n
    BY <1>4, <1>6, <2>1 DEF BatchChain
  <2>2. CASE k = n + 1 /\ j \in 1..n
    BY <1>4, <1>5, <2>2
  <2>3. CASE k = n + 1 /\ j = n + 1
    BY <1>1, <1>3, <1>4, <2>3
  <2> QED BY <1>4, <1>6, <2>1, <2>2, <2>3
<1>7. \A j \in DOMAIN batches' : batches'[j].depositCursor <= depositCount'
  BY <1>1, <1>4 DEF BatchChain
<1>8. LastBatch'.commitLedger = lastCommitLedger'
  BY <1>1, <1>4 DEF LastBatch
<1> QED BY <1>6, <1>7, <1>8 DEF BatchChain

\* The stored chain of batches is monotone and agrees with LastCommitLedger.
THEOREM ChainIsMonotone == Spec => []BatchChain
<1>1. Init => BatchChain
  BY DEF Init, BatchChain
<1>2. TypeOK /\ BatchChain /\ [Next]_vars => BatchChain'
  <2> SUFFICES ASSUME TypeOK, BatchChain, [Next]_vars PROVE BatchChain'
    OBVIOUS
  <2>0. depositCount \in Nat
    BY DEF TypeOK, DepositTypes
  <2>1. CASE CloseLedger
    BY <2>0, <2>1, ChainKept DEF CloseLedger, depositVars
  <2>2. CASE SomeDeposit
    BY <2>0, <2>2, ChainKept DEF SomeDeposit, Deposit, StoreDeposit
  <2>3. CASE SomeCommit
    BY <2>3, ChainExtended
  <2>4. CASE SomeWithdraw
    BY <2>0, <2>4, ChainKept DEF SomeWithdraw, Withdraw, depositVars
  <2>5. CASE SomeEscape
    BY <2>0, <2>5, ChainKept DEF SomeEscape, Escape, depositVars
  <2>6. CASE SomeReclaim
    BY <2>0, <2>6, ChainKept DEF SomeReclaim, ReclaimDeposit
  <2>7. CASE SomeAdminCall
    BY <2>0, <2>7, ChainKept DEF SomeAdminCall, SetSequencer, SetAdmin, SetPaused, depositVars
  <2>8. CASE UNCHANGED vars
    BY <2>0, <2>8, ChainKept DEF vars, depositVars
  <2> QED BY <2>1, <2>2, <2>3, <2>4, <2>5, <2>6, <2>7, <2>8 DEF Next
<1> QED BY <1>1, <1>2, Typing, PTL DEF Spec

\* Whenever the emergency exit is open the last batch is final, for every
\* pair of periods the constructor accepts, saturation of u32 included.
THEOREM EscapeNeedsNoWait == Spec => []EscapeAlwaysFinalized
<1>1. TypeOK /\ BatchChain => EscapeAlwaysFinalized
  <2> SUFFICES ASSUME TypeOK, BatchChain, batches # <<>>, SequencerIsDead
               PROVE  IsFinalized(LastBatch)
    BY DEF EscapeAlwaysFinalized
  <2>1. LastBatch.commitLedger = lastCommitLedger
    BY DEF BatchChain
  <2>2. ledger \in Nat /\ lastCommitLedger \in Nat
    BY BridgeConfig DEF TypeOK, ClockTypes
  <2>3. ledger > SaturatingAdd(lastCommitLedger, LivenessTimeout)
    BY DEF SequencerIsDead
  <2> QED BY <2>1, <2>2, <2>3, BridgeConfig DEF IsFinalized, SaturatingAdd
<1> QED BY <1>1, Typing, ChainIsMonotone, PTL

-----------------------------------------------------------------------------
\* What the contract's storage remembers of each payout.
PaidRecorded ==
    \A p \in DOMAIN payouts :
        /\ p.kind = "withdraw" => <<p.batch, p.index>> \in claimed
        /\ p.kind = "escape" => <<p.batch, p.to, p.token>> \in escaped
        /\ p.kind = "reclaim" => /\ p.index < depositCount
                                 /\ p.index \notin DOMAIN deposits

\* Paying a right that was not paid before.
LEMMA FreshPayout ==
    ASSUME PaidOnce, NEW p \in Payout, payouts' = AddPayout(p),
           \A q \in DOMAIN payouts : ~SameRight(p, q) /\ ~SameRight(q, p)
    PROVE  PaidOnce' /\ DOMAIN payouts' = DOMAIN payouts \cup {p}
<1>1. p \notin DOMAIN payouts
  BY DEF SameRight
<1>2. payouts' = [q \in DOMAIN payouts \cup {p} |-> IF q # p THEN payouts[q] ELSE 1]
  BY <1>1 DEF AddPayout
<1> QED BY <1>1, <1>2 DEF PaidOnce

\* No right is paid twice: not a withdrawal, not an account's escape from one
\* batch, not the return of a deposit.
THEOREM NothingPaidTwice == Spec => []PaidOnce
<1> DEFINE Inv == PaidOnce /\ PaidRecorded
<1>1. Init => Inv
  BY DEF Init, PaidOnce, PaidRecorded
<1>2. TypeOK /\ TypeOK' /\ Inv /\ [Next]_vars => Inv'
  <2> SUFFICES ASSUME TypeOK, TypeOK', PaidOnce, PaidRecorded, [Next]_vars
               PROVE  PaidOnce' /\ PaidRecorded'
    OBVIOUS
  <2>0. depositCount \in Nat /\ DOMAIN deposits \subseteq 0..depositCount-1
    BY DEF TypeOK, DepositTypes
  <2>1. CASE CloseLedger
    BY <2>1 DEF CloseLedger, depositVars, exitVars, PaidOnce, PaidRecorded
  <2>2. CASE SomeDeposit
    <3> PICK d \in DepositRequest : Deposit(d)
      BY <2>2 DEF SomeDeposit
    <3>1. /\ UNCHANGED <<claimed, escaped, payouts>>
          /\ depositCount' = depositCount + 1
          /\ DOMAIN deposits' = DOMAIN deposits \cup {depositCount}
      BY DEF Deposit, StoreDeposit, exitVars
    <3>2. PaidOnce'
      BY <3>1 DEF PaidOnce
    <3>3. PaidRecorded'
      <4> SUFFICES ASSUME NEW p \in DOMAIN payouts, p.kind = "reclaim"
                   PROVE  p.index < depositCount + 1 /\ p.index \notin DOMAIN deposits'
        BY <3>1 DEF PaidRecorded
      <4>1. p.index < depositCount /\ p.index \notin DOMAIN deposits /\ p.index \in Nat
        BY DEF PaidRecorded, TypeOK, ExitTypes, Payout
      <4> QED BY <4>1, <3>1, <2>0
    <3> QED BY <3>2, <3>3
  <2>3. CASE SomeCommit
    BY <2>3 DEF SomeCommit, CommitBatch, depositVars, exitVars, PaidOnce, PaidRecorded
  <2>4. CASE SomeWithdraw
    <3> PICK b \in DOMAIN batches, r \in WithdrawalsRoot : \E w \in DOMAIN r.leaves :
            Withdraw(b, w, r.leaves[w].recipient, r.leaves[w].token, r.leaves[w].amount)
      BY <2>4 DEF SomeWithdraw
    <3> PICK w \in DOMAIN r.leaves :
            Withdraw(b, w, r.leaves[w].recipient, r.leaves[w].token, r.leaves[w].amount)
      OBVIOUS
    <3> DEFINE p == [kind |-> "withdraw", batch |-> b, index |-> w,
                     to |-> r.leaves[w].recipient, token |-> r.leaves[w].token,
                     amount |-> r.leaves[w].amount]
    <3>1. /\ payouts' = AddPayout(p)
          /\ claimed' = claimed \cup {<<b, w>>}
          /\ <<b, w>> \notin claimed
          /\ UNCHANGED <<escaped, deposits, depositCount>>
      BY DEF Withdraw, PayOut, depositVars
    <3>2. p \in DOMAIN payouts'
      BY <3>1 DEF AddPayout
    <3>3. p \in Payout
      BY <3>2 DEF TypeOK, ExitTypes
    <3>4. p.kind = "withdraw" /\ p.batch = b /\ p.index = w
      OBVIOUS
    <3> HIDE DEF p
    <3>5. \A q \in DOMAIN payouts : ~SameRight(p, q) /\ ~SameRight(q, p)
      BY <3>1, <3>4 DEF SameRight, PaidRecorded
    <3>6. PaidOnce' /\ DOMAIN payouts' = DOMAIN payouts \cup {p}
      BY <3>1, <3>3, <3>5, FreshPayout
    <3>7. PaidRecorded'
      BY <3>1, <3>4, <3>6 DEF PaidRecorded
    <3> QED BY <3>6, <3>7
  <2>5. CASE SomeEscape
    <3> PICK r \in StateRoot : \E leaf \in r :
            Escape(leaf.account, leaf.token, leaf.balance, leaf.nonce)
      BY <2>5 DEF SomeEscape
    <3> PICK leaf \in r : Escape(leaf.account, leaf.token, leaf.balance, leaf.nonce)
      OBVIOUS
    <3> DEFINE p == [kind |-> "escape", batch |-> Len(batches), index |-> 0,
                     to |-> leaf.account, token |-> leaf.token, amount |-> leaf.balance]
               key == <<Len(batches), leaf.account, leaf.token>>
    <3>1. /\ payouts' = AddPayout(p)
          /\ escaped' = escaped \cup {key}
          /\ key \notin escaped
          /\ UNCHANGED <<claimed, deposits, depositCount>>
      BY DEF Escape, MayEscape, PayOut, depositVars
    <3>2. p \in DOMAIN payouts'
      BY <3>1 DEF AddPayout
    <3>3. p \in Payout
      BY <3>2 DEF TypeOK, ExitTypes
    <3>4. p.kind = "escape" /\ <<p.batch, p.to, p.token>> = key
      OBVIOUS
    <3> HIDE DEF p, key
    <3>5. \A q \in DOMAIN payouts : ~SameRight(p, q) /\ ~SameRight(q, p)
      BY <3>1, <3>4 DEF SameRight, PaidRecorded
    <3>6. PaidOnce' /\ DOMAIN payouts' = DOMAIN payouts \cup {p}
      BY <3>1, <3>3, <3>5, FreshPayout
    <3>7. PaidRecorded'
      BY <3>1, <3>4, <3>6 DEF PaidRecorded
    <3> QED BY <3>6, <3>7
  <2>6. CASE SomeReclaim
    <3> PICK index \in 0..MaxDeposits : ReclaimDeposit(index)
      BY <2>6 DEF SomeReclaim
    <3> DEFINE p == [kind |-> "reclaim", batch |-> 0, index |-> index,
                     to |-> deposits[index].from, token |-> deposits[index].token,
                     amount |-> deposits[index].amount]
    <3>1. /\ payouts' = AddPayout(p)
          /\ index \in DOMAIN deposits
          /\ DOMAIN deposits' = DOMAIN deposits \ {index}
          /\ UNCHANGED <<claimed, escaped, depositCount>>
      BY DEF ReclaimDeposit, MayReclaim, RemoveDeposit, PayOut
    <3>2. p \in DOMAIN payouts'
      BY <3>1 DEF AddPayout
    <3>3. p \in Payout
      BY <3>2 DEF TypeOK, ExitTypes
    <3>4. p.kind = "reclaim" /\ p.index = index
      OBVIOUS
    <3>8. index \in 0..depositCount-1
      BY <3>1, <2>0
    <3> HIDE DEF p
    <3>5. \A q \in DOMAIN payouts : ~SameRight(p, q) /\ ~SameRight(q, p)
      BY <3>1, <3>4 DEF SameRight, PaidRecorded
    <3>6. PaidOnce' /\ DOMAIN payouts' = DOMAIN payouts \cup {p}
      BY <3>1, <3>3, <3>5, FreshPayout
    <3>7. PaidRecorded'
      <4> SUFFICES ASSUME NEW q \in DOMAIN payouts'
                   PROVE  /\ q.kind = "withdraw" => <<q.batch, q.index>> \in claimed
                          /\ q.kind = "escape" => <<q.batch, q.to, q.token>> \in escaped
                          /\ q.kind = "reclaim" => /\ q.index < depositCount
                                                   /\ q.index \notin DOMAIN deposits'
        BY <3>1 DEF PaidRecorded
      <4>1. CASE q \in DOMAIN payouts
        BY <4>1, <3>1 DEF PaidRecorded
      <4>2. CASE q = p
        BY <4>2, <3>1, <3>4, <3>8, <2>0
      <4> QED BY <4>1, <4>2, <3>6
    <3> QED BY <3>6, <3>7
  <2>7. CASE SomeAdminCall
    BY <2>7 DEF SomeAdminCall, SetSequencer, SetAdmin, SetPaused, depositVars, exitVars,
                PaidOnce, PaidRecorded
  <2>8. CASE UNCHANGED vars
    BY <2>8 DEF vars, depositVars, exitVars, PaidOnce, PaidRecorded
  <2> QED BY <2>1, <2>2, <2>3, <2>4, <2>5, <2>6, <2>7, <2>8 DEF Next
<1>3. Inv => PaidOnce
  OBVIOUS
<1> QED BY <1>1, <1>2, <1>3, Typing, PTL DEF Spec
-----------------------------------------------------------------------------
\* What PayoutsJustified says of a payout that is no deposit's return.
Justified(p) ==
    /\ p.batch \in DOMAIN batches
    /\ IsFinalized(batches[p.batch])
    /\ p.kind = "withdraw" =>
          LET tree == batches[p.batch].withdrawalsRoot IN
          /\ tree.batch = p.batch
          /\ p.index \in DOMAIN tree.leaves
          /\ tree.leaves[p.index] =
                [recipient |-> p.to, token |-> p.token, amount |-> p.amount]
    /\ p.kind = "escape" =>
          \E leaf \in batches[p.batch].stateRoot :
              /\ leaf.account = p.to
              /\ leaf.token = p.token
              /\ leaf.balance = p.amount

\* A call other than commit_batch leaves the chain alone, time only passes, and
\* commit_batch leaves the batches before alone.
LEMMA ChainOnlyGrows ==
    ASSUME TypeOK, [Next]_vars
    PROVE  /\ ledger' \in Nat /\ ledger' >= ledger
           /\ UNCHANGED batchVars \/ (SomeCommit /\ UNCHANGED payouts /\ Len(batches') > Len(batches))
           /\ \A j \in DOMAIN batches : j \in DOMAIN batches' /\ batches'[j] = batches[j]
<1>0. ledger \in Nat /\ batches \in Seq(BatchInfo)
  BY BridgeConfig DEF TypeOK, ClockTypes
<1>1. CASE SomeCommit
  <2>1. PICK info : batches' = Append(batches, info) /\ ledger' = ledger /\ payouts' = payouts
    BY <1>1 DEF SomeCommit, CommitBatch, StoreBatch, exitVars
  <2> QED BY <1>0, <1>1, <2>1
<1>2. CASE CloseLedger
  BY <1>0, <1>2 DEF CloseLedger, batchVars
<1>3. CASE SomeDeposit
  BY <1>0, <1>3 DEF SomeDeposit, Deposit, batchVars
<1>4. CASE SomeAdminCall
  BY <1>0, <1>4 DEF SomeAdminCall, SetSequencer, SetAdmin, SetPaused, batchVars
<1>6. CASE SomeWithdraw
  BY <1>0, <1>6 DEF SomeWithdraw, Withdraw, batchVars
<1>7. CASE SomeEscape
  BY <1>0, <1>7 DEF SomeEscape, Escape, batchVars
<1>8. CASE SomeReclaim
  BY <1>0, <1>8 DEF SomeReclaim, ReclaimDeposit, batchVars
<1>5. CASE UNCHANGED vars
  BY <1>0, <1>5 DEF vars, batchVars
<1> QED BY <1>1, <1>2, <1>3, <1>4, <1>5, <1>6, <1>7, <1>8 DEF Next

\* What was justified stays so.
LEMMA JustifiedStays ==
    ASSUME TypeOK, [Next]_vars, NEW p \in Payout, Justified(p)
    PROVE  Justified(p)'
<1>1. /\ ledger' \in Nat /\ ledger' >= ledger
      /\ p.batch \in DOMAIN batches' /\ batches'[p.batch] = batches[p.batch]
  BY ChainOnlyGrows DEF Justified
<1>2. ledger \in Nat /\ batches[p.batch].commitLedger \in Nat
  <2>1. batches[p.batch] \in BatchInfo
    BY DEF TypeOK, Justified
  <2>2. batches[p.batch].commitLedger \in Nat
    BY <2>1, BridgeConfig DEF BatchInfo
  <2>3. ledger \in Nat
    BY BridgeConfig DEF TypeOK, ClockTypes
  <2> QED BY <2>2, <2>3
<1>3. SaturatingAdd(batches[p.batch].commitLedger, ChallengePeriod) \in Nat
  BY <1>2, BridgeConfig DEF SaturatingAdd
<1>4. IsFinalized(batches[p.batch])'
  BY <1>1, <1>2, <1>3 DEF IsFinalized, SaturatingAdd, Justified
<1> QED BY <1>1, <1>4 DEF Justified

\* The payouts a call adds are justified by the call's own checks.
LEMMA NewPayoutJustified ==
    ASSUME TypeOK, [Next]_vars,
           NEW p \in DOMAIN payouts', p \notin DOMAIN payouts, p.kind # "reclaim"
    PROVE  Justified(p)'
<1>1. CASE SomeWithdraw
  <2> PICK b \in DOMAIN batches, r \in WithdrawalsRoot : \E w \in DOMAIN r.leaves :
          Withdraw(b, w, r.leaves[w].recipient, r.leaves[w].token, r.leaves[w].amount)
    BY <1>1 DEF SomeWithdraw
  <2> PICK w \in DOMAIN r.leaves :
          Withdraw(b, w, r.leaves[w].recipient, r.leaves[w].token, r.leaves[w].amount)
    OBVIOUS
  <2> DEFINE leaf == [recipient |-> r.leaves[w].recipient, token |-> r.leaves[w].token,
                      amount |-> r.leaves[w].amount]
             tree == batches[b].withdrawalsRoot
  <2>1. p = [kind |-> "withdraw", batch |-> b, index |-> w, to |-> r.leaves[w].recipient,
             token |-> r.leaves[w].token, amount |-> r.leaves[w].amount]
    BY DEF Withdraw, PayOut, AddPayout
  <2>2. UNCHANGED <<ledger, batches>> /\ IsFinalized(batches[b])
    BY DEF Withdraw, batchVars
  <2>3. tree.batch = b /\ w \in 1..Len(tree.leaves) /\ tree.leaves[w] = leaf
    BY DEF Withdraw, VerifyWithdrawalProof
  <2>4. DOMAIN tree.leaves = 1..Len(tree.leaves)
    <3>1. batches[b] \in BatchInfo
      BY DEF TypeOK
    <3> QED BY <3>1 DEF BatchInfo
  <2> QED BY <2>1, <2>2, <2>3, <2>4 DEF Justified, IsFinalized
<1>2. CASE SomeEscape
  <2> PICK r \in StateRoot : \E leaf \in r :
          Escape(leaf.account, leaf.token, leaf.balance, leaf.nonce)
    BY <1>2 DEF SomeEscape
  <2> PICK leaf \in r : Escape(leaf.account, leaf.token, leaf.balance, leaf.nonce)
    OBVIOUS
  <2>1. p = [kind |-> "escape", batch |-> Len(batches), index |-> 0, to |-> leaf.account,
             token |-> leaf.token, amount |-> leaf.balance]
    BY DEF Escape, PayOut, AddPayout
  <2>2. UNCHANGED <<ledger, batches>> /\ IsFinalized(LastBatch) /\ batches # <<>>
    BY DEF Escape, MayEscape, batchVars
  <2>3. [account |-> leaf.account, token |-> leaf.token,
         balance |-> leaf.balance, nonce |-> leaf.nonce] \in LastBatch.stateRoot
    BY DEF Escape, MayEscape, VerifyStateProof
  <2>4. Len(batches) \in DOMAIN batches
    BY <2>2 DEF TypeOK
  <2> QED BY <2>1, <2>2, <2>3, <2>4 DEF Justified, IsFinalized, LastBatch
<1>3. CASE SomeReclaim
  BY <1>3 DEF SomeReclaim, ReclaimDeposit, PayOut, AddPayout
<1>4. CASE CloseLedger \/ SomeDeposit \/ SomeCommit
  BY <1>4 DEF CloseLedger, SomeDeposit, Deposit, SomeCommit, CommitBatch, exitVars
<1>5. CASE SomeAdminCall \/ UNCHANGED vars
  BY <1>5 DEF SomeAdminCall, SetSequencer, SetAdmin, SetPaused, vars, exitVars
<1> QED BY <1>1, <1>2, <1>3, <1>4, <1>5 DEF Next

\* Nothing leaves the vault by withdraw or escape without a right published in
\* a final batch, for any trees, even ones no honest sequencer would publish.
THEOREM OnlyPublishedRightsPay == Spec => []PayoutsJustified
<1>1. Init => PayoutsJustified
  BY DEF Init, PayoutsJustified
<1>2. TypeOK /\ TypeOK' /\ PayoutsJustified /\ [Next]_vars => PayoutsJustified'
  <2> SUFFICES ASSUME TypeOK, TypeOK', PayoutsJustified, [Next]_vars,
                      NEW p \in DOMAIN payouts', p.kind # "reclaim"
               PROVE  Justified(p)'
    BY DEF PayoutsJustified, Justified
  <2>1. CASE p \in DOMAIN payouts
    <3>1. p \in Payout
      BY <2>1 DEF TypeOK, ExitTypes
    <3>2. Justified(p)
      BY <2>1 DEF PayoutsJustified, Justified
    <3> QED BY <3>1, <3>2, JustifiedStays
  <2>2. CASE p \notin DOMAIN payouts
    BY <2>2, NewPayoutJustified
  <2> QED BY <2>1, <2>2
<1> QED BY <1>1, <1>2, Typing, PTL DEF Spec

-----------------------------------------------------------------------------
\* What every call of the contract has in common: time and the chain only go
\* forward, a deposit goes away only by being given back, and the vault loses
\* nothing that is not recorded as a payment.
Forward ==
    /\ ledger' \in Nat /\ ledger' >= ledger
    /\ Len(batches') > Len(batches) \/ UNCHANGED batchVars
    /\ \A i \in DOMAIN deposits :
          \/ i \in DOMAIN deposits' /\ deposits'[i] = deposits[i]
          \/ \E p \in DOMAIN payouts' : p.kind = "reclaim" /\ p.index = i
    /\ payouts' # payouts \/ \A t \in Token : vault'[t] >= vault[t]

\* A transfer out of the vault is seen in the history.
LEMMA PayOutSeen ==
    ASSUME TypeOK, NEW kind, NEW batch, NEW index, NEW to, NEW token, NEW amount,
           PayOut(kind, batch, index, to, token, amount)
    PROVE  /\ payouts' # payouts
           /\ \E p \in DOMAIN payouts' : p.kind = kind /\ p.index = index
<1> DEFINE p == [kind |-> kind, batch |-> batch, index |-> index,
                 to |-> to, token |-> token, amount |-> amount]
<1>1. payouts' = AddPayout(p) /\ p.kind = kind /\ p.index = index
  BY DEF PayOut
<1> HIDE DEF p
<1>2. p \in DOMAIN payouts'
  BY <1>1 DEF AddPayout
<1>3. CASE p \in DOMAIN payouts
  <2>1. payouts'[p] = payouts[p] + 1 /\ payouts[p] \in Nat
    BY <1>1, <1>3 DEF AddPayout, TypeOK, ExitTypes
  <2> QED BY <1>1, <1>2, <2>1
<1>4. CASE p \notin DOMAIN payouts
  BY <1>1, <1>2, <1>4
<1> QED BY <1>3, <1>4

LEMMA CommitForward ==
    ASSUME TypeOK, NEW caller, NEW batchIndex, NEW prevRoot, NEW newRoot, NEW wRoot,
           NEW txCount, NEW cursor,
           CommitBatch(caller, batchIndex, prevRoot, newRoot, wRoot, txCount, cursor)
    PROVE  Forward
<1>1. PICK info : /\ batches' = Append(batches, info)
                  /\ UNCHANGED <<ledger, deposits, vault>>
  BY DEF CommitBatch, StoreBatch, depositVars
<1>2. ledger \in Nat /\ batches \in Seq(BatchInfo) /\ vault \in [Token -> Nat]
  BY BridgeConfig DEF TypeOK, ClockTypes
<1>3. Len(batches') > Len(batches)
  BY <1>1, <1>2
<1>4. \A t \in Token : vault'[t] >= vault[t]
  BY <1>1, <1>2
<1> QED BY <1>1, <1>2, <1>3, <1>4 DEF Forward

LEMMA WithdrawForward ==
    ASSUME TypeOK, NEW b, NEW w, NEW recipient, NEW token, NEW amount,
           Withdraw(b, w, recipient, token, amount)
    PROVE  Forward
<1>1. ledger \in Nat
  BY BridgeConfig DEF TypeOK, ClockTypes
<1>2. payouts' # payouts
  BY PayOutSeen DEF Withdraw
<1> QED BY <1>1, <1>2 DEF Forward, Withdraw, depositVars

LEMMA EscapeForward ==
    ASSUME TypeOK, NEW account, NEW token, NEW balance, NEW nonce,
           Escape(account, token, balance, nonce)
    PROVE  Forward
<1>1. ledger \in Nat
  BY BridgeConfig DEF TypeOK, ClockTypes
<1>2. payouts' # payouts
  BY PayOutSeen DEF Escape
<1> QED BY <1>1, <1>2 DEF Forward, Escape, depositVars

LEMMA ReclaimForward ==
    ASSUME TypeOK, NEW index, ReclaimDeposit(index)
    PROVE  Forward
<1>1. ledger \in Nat
  BY BridgeConfig DEF TypeOK, ClockTypes
<1>2. payouts' # payouts /\ \E p \in DOMAIN payouts' : p.kind = "reclaim" /\ p.index = index
  BY PayOutSeen DEF ReclaimDeposit
<1>3. UNCHANGED <<ledger, batchVars>>
  BY DEF ReclaimDeposit
<1>4. ASSUME NEW i \in DOMAIN deposits, i # index
      PROVE  i \in DOMAIN deposits' /\ deposits'[i] = deposits[i]
  BY <1>4 DEF ReclaimDeposit, RemoveDeposit
<1> QED BY <1>1, <1>2, <1>3, <1>4 DEF Forward

LEMMA QuietForward ==
    ASSUME TypeOK, CloseLedger \/ SomeDeposit \/ SomeAdminCall \/ UNCHANGED vars
    PROVE  Forward
<1>1. /\ ledger \in Nat /\ depositCount \in Nat /\ vault \in [Token -> Nat]
      /\ DOMAIN deposits \subseteq 0..depositCount-1
  BY BridgeConfig DEF TypeOK, ClockTypes, DepositTypes
<1>2. CASE SomeDeposit
  <2> PICK d \in DepositRequest : Deposit(d)
    BY <1>2 DEF SomeDeposit
  <2>1. d.amount \in Nat
    BY BridgeInputs DEF Deposit
  <2>2. \A t \in Token : vault'[t] >= vault[t]
    BY <1>1, <2>1 DEF Deposit
  <2>3. ASSUME NEW i \in DOMAIN deposits
        PROVE  i \in DOMAIN deposits' /\ deposits'[i] = deposits[i]
    <3>1. i # depositCount
      BY <1>1
    <3> QED BY <3>1 DEF Deposit, StoreDeposit
  <2> QED BY <1>1, <2>2, <2>3 DEF Forward, Deposit
<1>3. CASE CloseLedger \/ SomeAdminCall \/ UNCHANGED vars
  <2>1. /\ UNCHANGED <<batchVars, deposits, vault>>
        /\ ledger' \in Nat /\ ledger' >= ledger
    BY <1>1, <1>3 DEF CloseLedger, SomeAdminCall, SetSequencer, SetAdmin, SetPaused, vars,
                      depositVars
  <2> QED BY <1>1, <2>1 DEF Forward
<1> QED BY <1>2, <1>3

LEMMA NextForward ==
    ASSUME TypeOK, [Next]_vars
    PROVE  Forward
<1>1. CASE SomeCommit
  BY <1>1, CommitForward DEF SomeCommit
<1>2. CASE SomeWithdraw
  BY <1>2, WithdrawForward DEF SomeWithdraw
<1>3. CASE SomeEscape
  BY <1>3, EscapeForward DEF SomeEscape
<1>4. CASE SomeReclaim
  BY <1>4, ReclaimForward DEF SomeReclaim
<1> QED BY <1>1, <1>2, <1>3, <1>4, QuietForward DEF Next

\* While no batch is committed, a sequencer that is dead stays dead and a batch
\* that is final stays final.
LEMMA ClocksRunOn ==
    ASSUME TypeOK, Forward, UNCHANGED batchVars
    PROVE  /\ SequencerIsDead => SequencerIsDead'
           /\ batches # <<>> /\ IsFinalized(LastBatch) => IsFinalized(LastBatch)'
<1>1. /\ ledger' \in Nat /\ ledger' >= ledger /\ ledger \in Nat
      /\ lastCommitLedger' = lastCommitLedger /\ lastCommitLedger \in Nat
  BY BridgeConfig DEF TypeOK, ClockTypes, batchVars, Forward
<1>2. SaturatingAdd(lastCommitLedger, LivenessTimeout) \in Nat
  BY <1>1, BridgeConfig DEF SaturatingAdd
<1>3. SequencerIsDead => SequencerIsDead'
  BY <1>1, <1>2 DEF SequencerIsDead, SaturatingAdd
<1>4. ASSUME batches # <<>>, IsFinalized(LastBatch) PROVE IsFinalized(LastBatch)'
  <2>1. LastBatch' = LastBatch
    BY DEF LastBatch, batchVars
  <2>2. LastBatch \in BatchInfo
    BY <1>4 DEF TypeOK, LastBatch
  <2>3. LastBatch.commitLedger \in Nat
    BY <2>2, BridgeConfig DEF BatchInfo
  <2>4. SaturatingAdd(LastBatch.commitLedger, ChallengePeriod) \in Nat
    BY <2>3, BridgeConfig DEF SaturatingAdd
  <2> QED BY <1>1, <1>4, <2>1, <2>4 DEF IsFinalized, SaturatingAdd
<1> QED BY <1>3, <1>4

\* What escape and reclaim_deposit check goes on holding, until the exit is used
\* or a batch comes.
LEMMA EscapeStaysAllowed ==
    ASSUME TypeOK, Forward, NEW leaf, CanEscape(leaf), ~(Len(batches') > Len(batches)),
           <<Len(batches), leaf.account, leaf.token>> \notin escaped'
    PROVE  /\ UNCHANGED batchVars
           /\ MayEscape(leaf.account, leaf.token, leaf.balance, leaf.nonce)'
<1>1. UNCHANGED batchVars
  BY DEF Forward
<1>2. /\ SequencerIsDead /\ batches # <<>> /\ IsFinalized(LastBatch) /\ leaf.balance > 0
      /\ VerifyStateProof([account |-> leaf.account, token |-> leaf.token,
                           balance |-> leaf.balance, nonce |-> leaf.nonce],
                          LastBatch.stateRoot)
  BY DEF CanEscape, MayEscape
<1>3. SequencerIsDead' /\ IsFinalized(LastBatch)'
  BY <1>1, <1>2, ClocksRunOn
<1>4. batches' = batches /\ LastBatch' = LastBatch
  BY <1>1 DEF batchVars, LastBatch
<1> QED BY <1>1, <1>2, <1>3, <1>4 DEF MayEscape, VerifyStateProof

LEMMA ReclaimStaysAllowed ==
    ASSUME TypeOK, Forward, NEW index \in DOMAIN deposits, CanReclaim(index),
           ~(Len(batches') > Len(batches)),
           ~\E p \in DOMAIN payouts' : p.kind = "reclaim" /\ p.index = index
    PROVE  /\ UNCHANGED batchVars
           /\ MayReclaim(index)'
           /\ deposits'[index] = deposits[index]
<1>1. UNCHANGED batchVars /\ index \in DOMAIN deposits' /\ deposits'[index] = deposits[index]
  BY DEF Forward
<1>2. SequencerIsDead'
  BY <1>1, ClocksRunOn DEF CanReclaim, MayReclaim
<1>3. batches' = batches /\ LastBatch' = LastBatch
  BY <1>1 DEF batchVars, LastBatch
<1> QED BY <1>1, <1>2, <1>3 DEF CanReclaim, MayReclaim

\* What was in the vault is still there, or a payment made the vault short of it.
LEMMA StillInVault ==
    ASSUME TypeOK, TypeOK', Forward, NEW token \in Token, NEW amount \in Int,
           InVault(token, amount), ~RunsShort(token, amount)
    PROVE  InVault(token, amount)'
<1>1. vault[token] \in Int /\ vault'[token] \in Int
  BY DEF TypeOK
<1>2. payouts' = payouts => vault'[token] >= vault[token]
  BY DEF Forward
<1> QED BY <1>1, <1>2 DEF InVault, RunsShort

\* Whatever trees are published, an emergency exit that is open closes only by
\* being used, by a new batch, or because a payment to somebody else leaves the
\* vault short of it: the admin, who may pause and change keys, cannot close it.
THEOREM NobodyClosesAnExit == Spec => ExitRightsPersist
<1> DEFINE Persists ==
        /\ \A leaf \in UNION StateRoot : CanEscape(leaf) =>
              EscapeStays(leaf) \/ RunsShort(leaf.token, leaf.balance)
        /\ \A index \in DOMAIN deposits : CanReclaim(index) =>
              ReclaimStays(index) \/ RunsShort(deposits[index].token, deposits[index].amount)
<1>1. TypeOK /\ TypeOK' /\ [Next]_vars => Persists
  <2> SUFFICES ASSUME TypeOK, TypeOK', [Next]_vars PROVE Persists
    OBVIOUS
  <2>1. Forward
    BY NextForward
  <2>2. ASSUME NEW leaf \in UNION StateRoot, CanEscape(leaf),
               ~EscapeStays(leaf), ~RunsShort(leaf.token, leaf.balance)
        PROVE  FALSE
    <3>1. leaf.token \in Token /\ leaf.balance \in Int
      <4>1. leaf \in StateLeaf
        BY BridgeInputs
      <4> QED BY <4>1 DEF StateLeaf
    <3>2. InVault(leaf.token, leaf.balance)'
      BY <2>1, <2>2, <3>1, StillInVault DEF CanEscape
    <3>3. MayEscape(leaf.account, leaf.token, leaf.balance, leaf.nonce)'
      BY <2>1, <2>2, EscapeStaysAllowed DEF EscapeStays
    <3> QED BY <2>2, <3>2, <3>3 DEF EscapeStays, CanEscape
  <2>3. ASSUME NEW index \in DOMAIN deposits, CanReclaim(index), ~ReclaimStays(index),
               ~RunsShort(deposits[index].token, deposits[index].amount)
        PROVE  FALSE
    <3>1. deposits[index].token \in Token /\ deposits[index].amount \in Int
      <4>1. deposits[index] \in DepositInfo
        BY DEF TypeOK, DepositTypes
      <4> QED BY <4>1 DEF DepositInfo
    <3>2. InVault(deposits[index].token, deposits[index].amount)
      BY <2>3 DEF CanReclaim
    <3>3. vault'[deposits[index].token] >= deposits[index].amount
      BY <2>1, <2>3, <3>1, <3>2, StillInVault DEF InVault
    <3>4. MayReclaim(index)' /\ deposits'[index] = deposits[index]
      BY <2>1, <2>3, ReclaimStaysAllowed DEF ReclaimStays
    <3> QED BY <2>3, <3>3, <3>4 DEF ReclaimStays, CanReclaim, InVault
  <2> QED BY <2>2, <2>3
<1> QED BY <1>1, Typing, PTL DEF Spec, ExitRightsPersist

-----------------------------------------------------------------------------
(* The contract and an honest sequencer together *)

\* FlashState with what is proved about it.
F == INSTANCE FlashStateProofs WITH Account <- Address

-----------------------------------------------------------------------------
(* The sums of the model, as sums of functions *)

\* What a tree of an honest sequencer holds: balances that are not negative, one
\* leaf of an account and token.
GoodRoot(root) ==
    /\ root \in SUBSET F!StateLeaves
    /\ IsFiniteSet(root)
    /\ \A x, y \in root : x.account = y.account /\ x.token = y.token => x = y

LeafBalances == [leaf \in F!StateLeaves |-> leaf.balance]

EscapableLeaves(root, n, gone, token) ==
    {leaf \in root : leaf.token = token /\ <<n, leaf.account, token>> \notin gone}

EscapableOf(root, n, gone, token) == Total(LeafBalances, EscapableLeaves(root, n, gone, token))

\* What the leaves of a root hold of a token.
RootTotal(root, token) == Total(LeafBalances, {leaf \in root : leaf.token = token})

LEMMA LeafFacts ==
    ASSUME NEW leaf \in F!StateLeaves
    PROVE  /\ leaf.account \in Address /\ leaf.token \in Token
           /\ leaf.balance \in Nat /\ leaf.nonce \in Nat
           /\ LeafBalances[leaf] = leaf.balance
           /\ leaf = [account |-> leaf.account, token |-> leaf.token,
                      balance |-> leaf.balance, nonce |-> leaf.nonce]
BY DEF LeafBalances, F!StateLeaves

LEMMA LeavesSum ==
    ASSUME NEW root, GoodRoot(root), NEW part \in SUBSET root
    PROVE  Summable(LeafBalances, part) /\ Total(LeafBalances, part) \in Nat
<1>1. IsFiniteSet(part) /\ \A leaf \in part : LeafBalances[leaf] \in Nat
  BY LeafFacts, FS_Subset DEF GoodRoot
<1> QED BY <1>1, TotalNat

LEMMA EscapableIs ==
    ASSUME batches # <<>>, GoodRoot(LastBatch.stateRoot), NEW token
    PROVE  Escapable(token) = EscapableOf(LastBatch.stateRoot, Len(batches), escaped, token)
<1> DEFINE S == EscapableLeaves(LastBatch.stateRoot, Len(batches), escaped, token)
           f == LeafBalances
           iter == CHOOSE G : G = [part \in SUBSET S |->
                     IF part = {} THEN 0 ELSE OneOf(part).balance + G[part \ {OneOf(part)}]]
<1>0. S \in SUBSET LastBatch.stateRoot /\ S \in SUBSET S
  BY DEF EscapableLeaves
<1>1. IsFiniteSet(S) /\ \A x \in S : f[x] = x.balance /\ f[x] \in Int
  BY <1>0, LeavesSum, LeafFacts DEF Summable, GoodRoot
<1>2. Escapable(token) = iter[S]
  BY DEF Escapable, MapThenSumSet, MapThenFoldSet, EscapableLeaves, OneOf
<1> HIDE DEF S, f
<1>3. ASSUME NEW part \in SUBSET S, part # {} PROVE f[OneOf(part)] = OneOf(part).balance
  BY <1>1, <1>3, OneOfIs
<1>4. PICK G : Iterates(G, f, S)
  BY <1>1, TotalsAreIter
<1>5. G = [part \in SUBSET S |-> IF part = {} THEN 0 ELSE OneOf(part).balance + G[part \ {OneOf(part)}]]
  BY <1>3, <1>4 DEF Iterates
<1>6. iter = [part \in SUBSET S |-> IF part = {} THEN 0 ELSE OneOf(part).balance + iter[part \ {OneOf(part)}]]
  BY <1>5
<1> HIDE DEF iter
<1>7. Iterates(iter, f, S)
  BY <1>3, <1>6 DEF Iterates
<1>8. iter[S] = Total(f, S)
  BY <1>0, <1>1, <1>7, TotalsAreIter, TotalIs
<1> QED BY <1>2, <1>8 DEF EscapableOf, S, f

\* Before anybody escapes from a batch all of it is escapable.
LEMMA NobodyEscaped ==
    ASSUME NEW root, NEW n, NEW gone, NEW token,
           \A leaf \in root : <<n, leaf.account, token>> \notin gone
    PROVE  EscapableOf(root, n, gone, token) = RootTotal(root, token)
<1>1. EscapableLeaves(root, n, gone, token) = {leaf \in root : leaf.token = token}
  BY DEF EscapableLeaves
<1> QED BY <1>1, Zenon DEF EscapableOf, RootTotal

\* An escape takes its own leaf out of what is escapable.
LEMMA OneEscapes ==
    ASSUME NEW root, GoodRoot(root), NEW n, NEW gone, NEW leaf \in root, NEW token,
           <<n, leaf.account, leaf.token>> \notin gone,
           NEW more, more = gone \cup {<<n, leaf.account, leaf.token>>}
    PROVE  EscapableOf(root, n, more, token)
             = EscapableOf(root, n, gone, token) - (IF token = leaf.token THEN leaf.balance ELSE 0)
<1> DEFINE before == EscapableLeaves(root, n, gone, token)
           after == EscapableLeaves(root, n, more, token)
           less == before \ {leaf}
<1>1. before \in SUBSET root /\ after \in SUBSET root
  BY DEF EscapableLeaves
<1>2. CASE token = leaf.token
  <2>1. leaf \in before /\ after = less
    BY <1>2 DEF EscapableLeaves, GoodRoot
  <2>2. Summable(LeafBalances, before) /\ Total(LeafBalances, after) \in Nat
    BY <1>1, LeavesSum
  <2> HIDE DEF before, after
  <2>3. Total(LeafBalances, before) = LeafBalances[leaf] + Total(LeafBalances, less)
    BY <2>1, <2>2, TotalWithout
  <2>4. LeafBalances[leaf] = leaf.balance /\ leaf.balance \in Nat
    BY LeafFacts DEF GoodRoot
  <2> HIDE DEF less
  <2>5. Total(LeafBalances, after) = Total(LeafBalances, before) - leaf.balance
    BY <2>1, <2>2, <2>3, <2>4
  <2> QED BY <1>2, <2>5 DEF EscapableOf, before, after
<1>3. CASE token # leaf.token
  <2>1. after = before
    BY <1>3 DEF EscapableLeaves
  <2>2. Total(LeafBalances, before) \in Nat
    BY <1>1, LeavesSum
  <2> HIDE DEF before, after
  <2>3. Total(LeafBalances, after) = Total(LeafBalances, before) - 0
    BY <2>1, <2>2
  <2> QED BY <1>3, <2>3 DEF EscapableOf, before, after
<1> QED BY <1>2, <1>3

-----------------------------------------------------------------------------
(* The state of the sequencer, whose instance L2 is the one the proofs are about *)

LEMMA SameSums ==
    /\ \A S : F!IsFiniteSet(S) <=> IsFiniteSet(S)
    /\ \A G, f, S : F!Totals(G, f, S) <=> Totals(G, f, S)
<1>1. \A S : F!IsFiniteSet(S) <=> IsFiniteSet(S)
  BY DEF F!IsFiniteSet, IsFiniteSet
<1>2. \A G, f, S : F!Totals(G, f, S) <=> Totals(G, f, S)
  BY <1>1 DEF F!Totals, Totals, F!OneOf, OneOf
<1> QED BY <1>1, <1>2

LEMMA SameState ==
    /\ F!EmptyState = L2!EmptyState
    /\ \A s, a, t : F!Get(s, a, t) = L2!Get(s, a, t)
    /\ \A s, t, tx : F!Valid(s, t, tx) <=> L2!Valid(s, t, tx)
    /\ \A s, tx : F!Apply(s, tx) = L2!Apply(s, tx)
    /\ \A s : F!Root(s) = L2!Root(s)
    /\ \A s, t : F!Issued(s, t) = L2!Issued(s, t)
    /\ F!AccountState = L2!AccountState
<1>1. F!EmptyState = L2!EmptyState
  BY DEF F!EmptyState, L2!EmptyState
<1>2. \A s, a, t : F!Get(s, a, t) = L2!Get(s, a, t)
  BY DEF F!Get, L2!Get
<1>3. \A s, t, tx : F!Valid(s, t, tx) <=> L2!Valid(s, t, tx)
  BY <1>2 DEF F!Valid, L2!Valid, F!NonceMatches, L2!NonceMatches, F!BalanceCovers, L2!BalanceCovers
<1>4. \A s, tx : F!Apply(s, tx) = L2!Apply(s, tx)
  BY DEF F!Apply, L2!Apply, F!Credit, L2!Credit, F!DebitAndBump, L2!DebitAndBump,
         F!Put, L2!Put, F!Get, L2!Get
<1>5. \A s : F!Root(s) = L2!Root(s)
  BY DEF F!Root, L2!Root
<1>6. \A s, t : F!Issued(s, t) = L2!Issued(s, t)
  BY DEF F!Issued, L2!Issued, F!MapThenSumSet, L2!MapThenSumSet, F!MapThenFoldSet, L2!MapThenFoldSet
<1>7. F!AccountState = L2!AccountState
  BY DEF F!AccountState, L2!AccountState
<1> QED BY <1>1, <1>2, <1>3, <1>4, <1>5, <1>6, <1>7

\* The states the sequencer is in.
GoodState(s) == s \in F!States /\ IsFiniteSet(DOMAIN s.accounts)

\* The root of a state holds what is issued in it.
LEMMA RootIs ==
    ASSUME NEW s, GoodState(s), NEW token
    PROVE  /\ GoodRoot(L2!Root(s))
           /\ L2!Issued(s, token) = RootTotal(L2!Root(s), token)
           /\ L2!Issued(s, token) \in Nat
<1> DEFINE root == L2!Root(s)
           h == [k \in DOMAIN s.accounts |-> F!LeafOf(s, k)]
           image(keys) == {h[k] : k \in keys}
           all == DOMAIN s.accounts
           keys == F!KeysOf(s, token)
           f == F!Balances(s)
<1>0. s \in F!States /\ IsFiniteSet(all) /\ F!IsFiniteSet(all)
  BY SameSums DEF GoodState
<1>1. /\ root = image(all)
      /\ \A k \in all : /\ h[k] = F!LeafOf(s, k)
                        /\ <<h[k].account, h[k].token>> = k
                        /\ h[k] \in F!StateLeaves
                        /\ h[k].balance = s.accounts[k].balance
                        /\ h[k].token = k[2]
  <2>1. root = {F!LeafOf(s, k) : k \in DOMAIN s.accounts} /\ root \in SUBSET F!StateLeaves
    BY <1>0, F!RootLeaves, F!RootType, SameState
  <2>2. \A k \in all : <<F!LeafOf(s, k).account, F!LeafOf(s, k).token>> = k
    BY <1>0, F!RootLeaves
  <2>3. \A k \in all : F!LeafOf(s, k).balance = s.accounts[k].balance /\ F!LeafOf(s, k).token = k[2]
    BY DEF F!LeafOf
  <2>4. \A k \in all : h[k] = F!LeafOf(s, k)
    OBVIOUS
  <2> HIDE DEF h
  <2>5. root = image(all)
    BY <2>1, <2>4
  <2>6. \A k \in all : h[k] \in F!StateLeaves
    BY <2>1, <2>4
  <2> HIDE DEF root, image, all
  <2> QED BY <2>2, <2>3, <2>4, <2>5, <2>6
<1>2. /\ f \in [all -> Nat]
      /\ \A k \in all : f[k] = s.accounts[k].balance
      /\ keys = {k \in all : k[2] = token}
  BY <1>0, F!StateFacts DEF F!Balances, F!KeysOf, F!AccountState
<1>3. Summable(f, all) /\ Summable(f, keys) /\ Total(f, keys) \in Nat
  <2>1. IsFiniteSet(keys) /\ \A k \in keys : f[k] \in Nat
    BY <1>0, <1>2, FS_Subset
  <2>2. \A k \in all : f[k] \in Nat
    BY <1>2
  <2> HIDE DEF f, keys, all
  <2> QED BY <1>0, <2>1, <2>2, TotalNat
<1>4. L2!Issued(s, token) = Total(f, keys)
  <2>1. PICK G : F!Totals(G, f, keys) /\ F!Issued(s, token) = G[keys]
    BY <1>0, F!IssuedIs
  <2>2. Totals(G, f, keys)
    BY <2>1, SameSums
  <2>3. keys \subseteq keys
    OBVIOUS
  <2> HIDE DEF f, keys
  <2>4. G[keys] = Total(f, keys)
    BY <2>2, <2>3, TotalIs
  <2> QED BY <2>1, <2>4, SameState
<1>5. \A k, l \in all : h[k] = h[l] => k = l
  BY <1>1
<1>6. \A k \in all : LeafBalances[h[k]] = f[k]
  <2> SUFFICES ASSUME NEW k \in all PROVE LeafBalances[h[k]] = f[k]
    OBVIOUS
  <2>1. LeafBalances[h[k]] = h[k].balance
    BY <1>1, LeafFacts
  <2> QED BY <1>1, <1>2, <2>1
<1>7. keys \in SUBSET all
  BY <1>2
<1> HIDE DEF h, f
<1>8. IsFiniteSet(image(all))
  <2> HIDE DEF all
  <2>1. Summable(LeafBalances, image(all))
    BY <1>3, <1>5, <1>6, TotalRenamed
  <2> QED BY <2>1 DEF Summable
<1>9. Total(LeafBalances, image(keys)) = Total(f, keys)
  <2>1. (\A k, l \in keys : h[k] = h[l] => k = l) /\ \A k \in keys : LeafBalances[h[k]] = f[k]
    BY <1>5, <1>6, <1>7
  <2> HIDE DEF keys
  <2> QED BY <1>3, <2>1, TotalRenamed
<1>10. image(keys) = {leaf \in root : leaf.token = token}
  BY <1>1, <1>2
<1>11. GoodRoot(root)
  <2>1. root \in SUBSET F!StateLeaves
    BY <1>1
  <2>2. ASSUME NEW x \in root, NEW y \in root, x.account = y.account, x.token = y.token PROVE x = y
    <3>1. PICK k \in all, l \in all : x = h[k] /\ y = h[l]
      BY <1>1
    <3>2. <<x.account, x.token>> = k /\ <<y.account, y.token>> = l
      BY <1>1, <3>1
    <3> QED BY <2>2, <3>1, <3>2
  <2>3. IsFiniteSet(root)
    BY <1>1, <1>8
  <2> HIDE DEF root
  <2> QED BY <2>1, <2>2, <2>3 DEF GoodRoot
<1> HIDE DEF root, image, keys
<1>12. RootTotal(root, token) = Total(LeafBalances, image(keys))
  BY <1>10 DEF RootTotal
<1> QED BY <1>3, <1>4, <1>9, <1>11, <1>12 DEF root

-----------------------------------------------------------------------------
(* Withdrawals on their way out *)

Amounts(leaves) == [w \in DOMAIN leaves |-> leaves[w].amount]

OfToken(leaves, token) == {w \in DOMAIN leaves : leaves[w].token = token}

LEMMA WithdrawalFacts ==
    ASSUME NEW leaf \in F!Withdrawals
    PROVE  /\ leaf.recipient \in Address /\ leaf.token \in Token
           /\ leaf.amount \in Nat /\ leaf \in Withdrawal
BY DEF F!Withdrawals, Withdrawal

\* Withdrawals, or deposits.
HaveAmounts(V) == \A x \in V : x.amount \in Nat

LEMMA SumOfAmounts ==
    ASSUME NEW V, HaveAmounts(V), NEW leaves \in Seq(V), NEW token
    PROVE  /\ Summable(Amounts(leaves), OfToken(leaves, token))
           /\ AmountOf(leaves, token) = Total(Amounts(leaves), OfToken(leaves, token))
           /\ AmountOf(leaves, token) \in Nat
<1> DEFINE S == OfToken(leaves, token)
           f == Amounts(leaves)
           iter == CHOOSE G : G = [part \in SUBSET S |->
                     IF part = {} THEN 0 ELSE leaves[OneOf(part)].amount + G[part \ {OneOf(part)}]]
<1>0. IsFiniteSet(DOMAIN leaves) /\ DOMAIN leaves = 1..Len(leaves) /\ S \in SUBSET DOMAIN leaves
  <2>1. Len(leaves) \in Int /\ 1 \in Int /\ DOMAIN leaves = 1..Len(leaves)
    OBVIOUS
  <2> QED BY <2>1, FS_Interval DEF OfToken
<1>1. /\ IsFiniteSet(S) /\ S \in SUBSET S
      /\ \A x \in S : f[x] = leaves[x].amount /\ f[x] \in Nat
  <2>1. IsFiniteSet(S)
    BY <1>0, FS_Subset
  <2>2. ASSUME NEW x \in S PROVE f[x] = leaves[x].amount /\ f[x] \in Nat
    <3>1. x \in DOMAIN leaves /\ leaves[x] \in V
      BY <1>0
    <3> QED BY <3>1 DEF Amounts, HaveAmounts
  <2> QED BY <2>1, <2>2
<1>2. AmountOf(leaves, token) = iter[S]
  BY DEF AmountOf, MapThenSumSet, MapThenFoldSet, OfToken, OneOf
<1> HIDE DEF S, f
<1>3. ASSUME NEW part \in SUBSET S, part # {} PROVE f[OneOf(part)] = leaves[OneOf(part)].amount
  BY <1>1, <1>3, OneOfIs
<1>4. Summable(f, S) /\ Total(f, S) \in Nat /\ \A x \in S : f[x] \in Int
  <2>1. \A x \in S : f[x] \in Nat
    BY <1>1
  <2> QED BY <1>1, <2>1, TotalNat
<1>5. PICK G : Iterates(G, f, S)
  BY <1>1, <1>4, TotalsAreIter
<1>6. G = [part \in SUBSET S |-> IF part = {} THEN 0 ELSE leaves[OneOf(part)].amount + G[part \ {OneOf(part)}]]
  BY <1>3, <1>5 DEF Iterates
<1>7. iter = [part \in SUBSET S |-> IF part = {} THEN 0 ELSE leaves[OneOf(part)].amount + iter[part \ {OneOf(part)}]]
  BY <1>6
<1> HIDE DEF iter
<1>8. Iterates(iter, f, S)
  BY <1>3, <1>7 DEF Iterates
<1>9. iter[S] = Total(f, S)
  BY <1>1, <1>4, <1>8, TotalsAreIter, TotalIs
<1> QED BY <1>2, <1>4, <1>9 DEF S, f

LEMMA AmountOfIs ==
    ASSUME NEW leaves \in Seq(F!Withdrawals), NEW token
    PROVE  /\ Summable(Amounts(leaves), OfToken(leaves, token))
           /\ AmountOf(leaves, token) = Total(Amounts(leaves), OfToken(leaves, token))
           /\ AmountOf(leaves, token) \in Nat
<1>1. HaveAmounts(F!Withdrawals)
  BY WithdrawalFacts DEF HaveAmounts
<1> QED BY <1>1, SumOfAmounts

LEMMA NothingOut == \A token : AmountOf(<<>>, token) = 0
<1> SUFFICES ASSUME NEW token PROVE AmountOf(<<>>, token) = 0
  OBVIOUS
<1>1. <<>> \in Seq(F!Withdrawals) /\ OfToken(<<>>, token) = {}
  BY DEF OfToken
<1>2. AmountOf(<<>>, token) = Total(Amounts(<<>>), OfToken(<<>>, token))
  BY <1>1, AmountOfIs
<1> QED BY <1>1, <1>2, TotalEmpty

LEMMA OneMoreAmount ==
    ASSUME NEW V, HaveAmounts(V), NEW leaves \in Seq(V), NEW leaf \in V, NEW token
    PROVE  AmountOf(Append(leaves, leaf), token)
             = AmountOf(leaves, token) + (IF leaf.token = token THEN leaf.amount ELSE 0)
<1> DEFINE more == Append(leaves, leaf)
           n == Len(leaves) + 1
           S == OfToken(leaves, token)
           T == OfToken(more, token)
           f == Amounts(leaves)
           g == Amounts(more)
<1>1. /\ more \in Seq(V)
      /\ DOMAIN more = 1..n /\ DOMAIN leaves = 1..(n - 1) /\ n \in Nat /\ n \notin DOMAIN leaves
      /\ more[n] = leaf /\ \A w \in DOMAIN leaves : more[w] = leaves[w] /\ w \in DOMAIN more
      /\ \A w \in DOMAIN more : w = n \/ w \in DOMAIN leaves
  OBVIOUS
<1>2. /\ Summable(f, S) /\ AmountOf(leaves, token) = Total(f, S) /\ AmountOf(leaves, token) \in Nat
      /\ Summable(g, T) /\ AmountOf(more, token) = Total(g, T)
  BY <1>1, SumOfAmounts
<1>3. \A w \in S : f[w] = g[w]
  BY <1>1 DEF OfToken, Amounts
<1>4. Total(f, S) = Total(g, S) /\ Summable(g, S)
  <2> HIDE DEF f, S, g
  <2>1. Total(f, S) = Total(g, S)
    BY <1>2, <1>3, TotalSame
  <2> QED BY <1>2, <1>3, <2>1 DEF Summable
<1>5. leaf.amount \in Nat /\ g[n] = leaf.amount
  BY <1>1 DEF Amounts, HaveAmounts
<1>6. CASE leaf.token = token
  <2>1. T = S \cup {n} /\ n \notin S
    BY <1>1, <1>6 DEF OfToken
  <2>2. Total(g, S \cup {n}) = Total(g, S) + g[n]
    <3> HIDE DEF g, n, S
    <3> QED BY <1>4, <1>5, <2>1, TotalWith
  <2> DEFINE SN == S \cup {n}
  <2>3. T = SN /\ Total(g, SN) = Total(g, S) + g[n]
    BY <2>1, <2>2
  <2> HIDE DEF T, S, SN, g, f, more, n
  <2> QED BY <1>2, <1>4, <1>5, <1>6, <2>3 DEF more
<1>7. CASE leaf.token # token
  <2>1. T = S
    BY <1>1, <1>7 DEF OfToken
  <2> HIDE DEF T, S, g, f, more, n
  <2> QED BY <1>2, <1>4, <1>7, <2>1 DEF more
<1> QED BY <1>6, <1>7

LEMMA OneMoreOut ==
    ASSUME NEW leaves \in Seq(F!Withdrawals), NEW leaf \in F!Withdrawals, NEW token
    PROVE  AmountOf(Append(leaves, leaf), token)
             = AmountOf(leaves, token) + (IF leaf.token = token THEN leaf.amount ELSE 0)
<1>1. HaveAmounts(F!Withdrawals)
  BY WithdrawalFacts DEF HaveAmounts
<1> QED BY <1>1, OneMoreAmount

-----------------------------------------------------------------------------
(* Deposits the contract holds *)

DepositAmounts(ds) == [i \in DOMAIN ds |-> ds[i].amount]

DepositsIn(ds, from, to, token) == {i \in DOMAIN ds : from <= i /\ i < to /\ ds[i].token = token}

\* What the entries with an index in from..to-1 hold of a token.
DepositTotal(ds, from, to, token) == Total(DepositAmounts(ds), DepositsIn(ds, from, to, token))

GoodDeposits(ds) ==
    /\ ds = [i \in DOMAIN ds |-> ds[i]]
    /\ IsFiniteSet(DOMAIN ds) /\ DOMAIN ds \subseteq Nat
    /\ \A i \in DOMAIN ds : ds[i].amount \in Nat

LEMMA DepositsSum ==
    ASSUME NEW ds, GoodDeposits(ds), NEW part \in SUBSET DOMAIN ds
    PROVE  Summable(DepositAmounts(ds), part) /\ Total(DepositAmounts(ds), part) \in Nat
<1>1. IsFiniteSet(part) /\ \A i \in part : DepositAmounts(ds)[i] \in Nat
  BY FS_Subset DEF GoodDeposits, DepositAmounts
<1> QED BY <1>1, TotalNat

LEMMA DepositTotalType ==
    ASSUME NEW ds, GoodDeposits(ds), NEW from, NEW to, NEW token
    PROVE  DepositTotal(ds, from, to, token) \in Nat
<1>1. DepositsIn(ds, from, to, token) \in SUBSET DOMAIN ds
  BY DEF DepositsIn
<1> QED BY <1>1, DepositsSum DEF DepositTotal

LEMMA DepositsSplit ==
    ASSUME NEW ds, GoodDeposits(ds), NEW from \in Nat, NEW mid \in Nat, NEW to \in Nat,
           from <= mid, mid <= to, NEW token
    PROVE  DepositTotal(ds, from, to, token)
             = DepositTotal(ds, from, mid, token) + DepositTotal(ds, mid, to, token)
<1> DEFINE A == DepositsIn(ds, from, mid, token)
           B == DepositsIn(ds, mid, to, token)
           both == A \cup B
           f == DepositAmounts(ds)
<1>1. /\ DepositsIn(ds, from, to, token) = both /\ A \cap B = {}
      /\ both \in SUBSET DOMAIN ds
  BY DEF DepositsIn, GoodDeposits
<1>2. Summable(f, both)
  BY <1>1, DepositsSum
<1> HIDE DEF A, B, f
<1>3. Total(f, both) = Total(f, A) + Total(f, B)
  BY <1>1, <1>2, TotalSplit
<1> HIDE DEF both
<1>4. DepositTotal(ds, from, to, token) = Total(f, both)
  BY <1>1 DEF DepositTotal, f
<1> QED BY <1>3, <1>4 DEF DepositTotal, f, A, B

LEMMA NoDeposits ==
    ASSUME NEW ds, GoodDeposits(ds), NEW from \in Nat, NEW token
    PROVE  DepositTotal(ds, from, from, token) = 0
<1>1. \A i \in DOMAIN ds : ~(from <= i /\ i < from)
  BY DEF GoodDeposits
<1>2. DepositsIn(ds, from, from, token) = {}
  BY <1>1 DEF DepositsIn
<1> QED BY <1>2, TotalEmpty DEF DepositTotal

\* An entry that is there counts in the intervals that hold its index.
LEMMA OneDeposit ==
    ASSUME NEW ds, GoodDeposits(ds), NEW i \in DOMAIN ds, NEW less,
           less = [j \in DOMAIN ds \ {i} |-> ds[j]],
           NEW from, NEW to, NEW token
    PROVE  /\ GoodDeposits(less)
           /\ DepositTotal(ds, from, to, token) = DepositTotal(less, from, to, token)
                + (IF from <= i /\ i < to /\ ds[i].token = token THEN ds[i].amount ELSE 0)
<1> DEFINE S == DepositsIn(ds, from, to, token)
           T == DepositsIn(less, from, to, token)
           rest == S \ {i}
           f == DepositAmounts(ds)
           g == DepositAmounts(less)
<1>1. GoodDeposits(less)
  <2>1. DOMAIN less = DOMAIN ds \ {i} /\ \A j \in DOMAIN less : less[j] = ds[j]
    OBVIOUS
  <2>2. IsFiniteSet(DOMAIN ds \ {i})
    BY FS_RemoveElement DEF GoodDeposits
  <2> QED BY <2>1, <2>2 DEF GoodDeposits
<1>2. T = rest /\ S \in SUBSET DOMAIN ds /\ T \in SUBSET DOMAIN less /\ T \in SUBSET DOMAIN ds
  BY DEF DepositsIn
<1>3. \A j \in T : g[j] = f[j]
  BY <1>2 DEF DepositAmounts
<1>4. /\ Summable(f, S) /\ Summable(g, T) /\ Total(f, S) \in Nat /\ Total(g, T) \in Nat
  BY <1>1, <1>2, DepositsSum
<1>5. f[i] = ds[i].amount /\ ds[i].amount \in Nat
  BY DEF GoodDeposits, DepositAmounts
<1>6. i \in S <=> (from <= i /\ i < to /\ ds[i].token = token)
  BY DEF DepositsIn
<1> HIDE DEF S, T, f, g
<1>7. Total(g, T) = Total(f, T)
  BY <1>3, <1>4, TotalSame
<1>8. CASE i \in S
  <2>1. Total(f, S) = f[i] + Total(f, rest)
    BY <1>4, <1>8, TotalWithout
  <2> HIDE DEF rest
  <2>2. Total(f, S) = Total(g, T) + ds[i].amount
    BY <1>2, <1>4, <1>5, <1>7, <2>1
  <2> QED BY <1>1, <1>6, <1>8, <2>2 DEF DepositTotal, S, T, f, g
<1>9. CASE i \notin S
  <2>1. S = T
    BY <1>2, <1>9
  <2>2. Total(f, S) = Total(g, T) + 0
    BY <1>4, <1>7, <2>1
  <2> QED BY <1>1, <1>6, <1>9, <2>2 DEF DepositTotal, S, T, f, g
<1> QED BY <1>8, <1>9

LEMMA NewDeposit ==
    ASSUME NEW ds, GoodDeposits(ds), NEW n \in Nat, n \notin DOMAIN ds, NEW info, info.amount \in Nat,
           NEW more, more = [j \in DOMAIN ds \cup {n} |-> IF j = n THEN info ELSE ds[j]],
           NEW from, NEW to, NEW token
    PROVE  /\ GoodDeposits(more)
           /\ DepositTotal(more, from, to, token) = DepositTotal(ds, from, to, token)
                + (IF from <= n /\ n < to /\ info.token = token THEN info.amount ELSE 0)
<1>1. n \in DOMAIN more /\ more[n] = info /\ DOMAIN more = DOMAIN ds \cup {n}
  OBVIOUS
<1>2. GoodDeposits(more)
  <2>1. IsFiniteSet(DOMAIN ds \cup {n})
    BY FS_AddElement DEF GoodDeposits
  <2>2. \A j \in DOMAIN more : more[j].amount \in Nat
    BY <1>1 DEF GoodDeposits
  <2>3. DOMAIN more \subseteq Nat
    BY <1>1 DEF GoodDeposits
  <2> QED BY <1>1, <2>1, <2>2, <2>3 DEF GoodDeposits
<1> DEFINE less == [j \in DOMAIN more \ {n} |-> more[j]]
<1>3. less = ds
  <2>1. DOMAIN ds = DOMAIN more \ {n} /\ \A j \in DOMAIN ds : more[j] = ds[j]
    BY <1>1
  <2>2. ds = [j \in DOMAIN ds |-> ds[j]]
    BY DEF GoodDeposits
  <2> QED BY <2>1, <2>2
<1> HIDE DEF less
<1>4. DepositTotal(more, from, to, token) = DepositTotal(less, from, to, token)
        + (IF from <= n /\ n < to /\ more[n].token = token THEN more[n].amount ELSE 0)
  BY <1>1, <1>2, OneDeposit DEF less
<1> QED BY <1>1, <1>2, <1>3, <1>4

LEMMA ReclaimableIs ==
    ASSUME TypeOK, PrevState.depositCursor \in Nat, NEW token
    PROVE  /\ GoodDeposits(deposits)
           /\ Reclaimable(token)
                = DepositTotal(deposits, PrevState.depositCursor, depositCount, token)
<1> DEFINE S == {i \in DOMAIN deposits : i >= PrevState.depositCursor /\ deposits[i].token = token}
           f == DepositAmounts(deposits)
           iter == CHOOSE G : G = [part \in SUBSET S |->
                     IF part = {} THEN 0 ELSE deposits[OneOf(part)].amount + G[part \ {OneOf(part)}]]
<1>0. /\ depositCount \in Nat /\ DOMAIN deposits \subseteq 0..(depositCount - 1)
      /\ deposits \in [DOMAIN deposits -> DepositInfo]
  BY DEF TypeOK, DepositTypes
<1>1. GoodDeposits(deposits)
  <2>0. 0 \in Int /\ depositCount - 1 \in Int
    BY <1>0
  <2>1. IsFiniteSet(0..(depositCount - 1))
    BY <2>0, FS_Interval
  <2>5. DOMAIN deposits \subseteq Nat
    BY <1>0
  <2>2. IsFiniteSet(DOMAIN deposits)
    BY <1>0, <2>1, FS_Subset
  <2>3. \A i \in DOMAIN deposits : deposits[i].amount \in Nat
    BY <1>0 DEF DepositInfo
  <2>4. deposits = [i \in DOMAIN deposits |-> deposits[i]]
    BY <1>0
  <2> QED BY <2>2, <2>3, <2>4, <2>5 DEF GoodDeposits
<1>2. S \in SUBSET DOMAIN deposits /\ S \in SUBSET S
  OBVIOUS
<1>3. Summable(f, S) /\ \A i \in S : f[i] = deposits[i].amount
  BY <1>1, <1>2, DepositsSum DEF DepositAmounts
<1>4. S = DepositsIn(deposits, PrevState.depositCursor, depositCount, token)
  <2>1. ASSUME NEW i \in DOMAIN deposits
        PROVE  (i >= PrevState.depositCursor) <=> (PrevState.depositCursor <= i /\ i < depositCount)
    BY <1>0
  <2> QED BY <2>1 DEF DepositsIn
<1>5. Reclaimable(token) = iter[S]
  BY DEF Reclaimable, MapThenSumSet, MapThenFoldSet, OneOf
<1> HIDE DEF S, f
<1>6. ASSUME NEW part \in SUBSET S, part # {} PROVE f[OneOf(part)] = deposits[OneOf(part)].amount
  BY <1>3, <1>6, OneOfIs
<1>7. PICK G : Iterates(G, f, S)
  BY <1>3, TotalsAreIter DEF Summable
<1>8. G = [part \in SUBSET S |-> IF part = {} THEN 0 ELSE deposits[OneOf(part)].amount + G[part \ {OneOf(part)}]]
  BY <1>6, <1>7 DEF Iterates
<1>9. iter = [part \in SUBSET S |-> IF part = {} THEN 0 ELSE deposits[OneOf(part)].amount + iter[part \ {OneOf(part)}]]
  BY <1>8
<1> HIDE DEF iter
<1>10. Iterates(iter, f, S)
  BY <1>6, <1>9 DEF Iterates
<1>11. iter[S] = Total(f, S)
  BY <1>2, <1>3, <1>10, TotalsAreIter, TotalIs DEF Summable
<1> QED BY <1>1, <1>4, <1>5, <1>11 DEF DepositTotal, f

-----------------------------------------------------------------------------
(* Withdrawals that can be claimed *)

GoodOutbox(bs) ==
    /\ DOMAIN bs = 1..Len(bs) /\ Len(bs) \in Nat
    /\ \A b \in DOMAIN bs : bs[b].withdrawalsRoot.leaves \in Seq(F!Withdrawals)

ClaimKeys(bs, gone, token) ==
    UNION {{<<b, w>> : w \in {w \in DOMAIN bs[b].withdrawalsRoot.leaves :
                /\ bs[b].withdrawalsRoot.leaves[w].token = token
                /\ <<b, w>> \notin gone}} : b \in DOMAIN bs}

ClaimAmounts(bs) == [bw \in Nat \X Nat |-> bs[bw[1]].withdrawalsRoot.leaves[bw[2]].amount]

ClaimTotal(bs, gone, token) == Total(ClaimAmounts(bs), ClaimKeys(bs, gone, token))

\* <<b, w>> is a leaf of the batches.
IsLeaf(bs, b, w) == b \in DOMAIN bs /\ w \in DOMAIN bs[b].withdrawalsRoot.leaves

LEMMA ClaimFacts ==
    ASSUME NEW bs, GoodOutbox(bs), NEW b, NEW w, IsLeaf(bs, b, w)
    PROVE  /\ <<b, w>> \in Nat \X Nat
           /\ bs[b].withdrawalsRoot.leaves[w] \in F!Withdrawals
           /\ ClaimAmounts(bs)[<<b, w>>] = bs[b].withdrawalsRoot.leaves[w].amount
           /\ bs[b].withdrawalsRoot.leaves[w].amount \in Nat
<1> DEFINE leaves == bs[b].withdrawalsRoot.leaves
<1>1. b \in Nat /\ leaves \in Seq(F!Withdrawals) /\ w \in DOMAIN leaves
  BY DEF GoodOutbox, IsLeaf
<1> HIDE DEF leaves
<1>2. w \in Nat /\ leaves[w] \in F!Withdrawals
  BY <1>1
<1>3. leaves[w].amount \in Nat
  BY <1>2, WithdrawalFacts
<1>4. ClaimAmounts(bs)[<<b, w>>] = leaves[w].amount
  BY <1>1, <1>2 DEF ClaimAmounts, leaves
<1> QED BY <1>1, <1>2, <1>3, <1>4 DEF leaves

\* It is of this token, and nobody claimed it.
Unclaimed(bs, gone, token, b, w) ==
    IsLeaf(bs, b, w) /\ bs[b].withdrawalsRoot.leaves[w].token = token /\ <<b, w>> \notin gone

LEMMA KeyIs ==
    ASSUME NEW bs, NEW gone, NEW token, NEW b, NEW w, Unclaimed(bs, gone, token, b, w)
    PROVE  <<b, w>> \in ClaimKeys(bs, gone, token)
BY DEF ClaimKeys, IsLeaf, Unclaimed

LEMMA KeyOf ==
    ASSUME NEW bs, NEW gone, NEW token, NEW bw \in ClaimKeys(bs, gone, token)
    PROVE  /\ bw = <<bw[1], bw[2]>> /\ Unclaimed(bs, gone, token, bw[1], bw[2])
           /\ IsLeaf(bs, bw[1], bw[2])
<1> DEFINE S(b) == {w \in DOMAIN bs[b].withdrawalsRoot.leaves :
                       /\ bs[b].withdrawalsRoot.leaves[w].token = token
                       /\ <<b, w>> \notin gone}
<1>1. bw \in UNION {{<<b, w>> : w \in S(b)} : b \in DOMAIN bs}
  BY DEF ClaimKeys
<1> HIDE DEF S
<1>2. PICK b \in DOMAIN bs : bw \in {<<b, w>> : w \in S(b)}
  BY <1>1
<1>3. PICK w \in S(b) : bw = <<b, w>>
  BY <1>2
<1> QED BY <1>3 DEF S, Unclaimed, IsLeaf

FiniteClaims(bs, gone) == \A token : IsFiniteSet(ClaimKeys(bs, gone, token))

LEMMA ClaimsSum ==
    ASSUME NEW bs, GoodOutbox(bs), NEW gone, FiniteClaims(bs, gone), NEW token
    PROVE  /\ Summable(ClaimAmounts(bs), ClaimKeys(bs, gone, token))
           /\ ClaimTotal(bs, gone, token) \in Nat
<1> DEFINE S == ClaimKeys(bs, gone, token)
<1>1. ASSUME NEW bw \in S PROVE ClaimAmounts(bs)[bw] \in Nat
  <2>1. bw = <<bw[1], bw[2]>> /\ IsLeaf(bs, bw[1], bw[2])
    BY KeyOf
  <2>2. ClaimAmounts(bs)[<<bw[1], bw[2]>>] \in Nat
    BY <2>1, ClaimFacts
  <2> QED BY <2>1, <2>2
<1>2. IsFiniteSet(S)
  BY DEF FiniteClaims
<1> HIDE DEF S
<1>3. Summable(ClaimAmounts(bs), S) /\ Total(ClaimAmounts(bs), S) \in Nat
  BY <1>1, <1>2, TotalNat
<1> QED BY <1>3 DEF ClaimTotal, S

LEMMA ClaimableIs ==
    ASSUME GoodOutbox(batches), FiniteClaims(batches, claimed), NEW token
    PROVE  Claimable(token) = ClaimTotal(batches, claimed, token)
<1> DEFINE S == ClaimKeys(batches, claimed, token)
           f == ClaimAmounts(batches)
           amount(bw) == batches[bw[1]].withdrawalsRoot.leaves[bw[2]].amount
           iter == CHOOSE G : G = [part \in SUBSET S |->
                     IF part = {} THEN 0 ELSE amount(OneOf(part)) + G[part \ {OneOf(part)}]]
<1>1. Summable(f, S) /\ S \in SUBSET S
  BY ClaimsSum
<1>2. ASSUME NEW bw \in S PROVE f[bw] = amount(bw)
  <2>1. bw = <<bw[1], bw[2]>> /\ IsLeaf(batches, bw[1], bw[2])
    BY KeyOf
  <2>2. f[<<bw[1], bw[2]>>] = batches[bw[1]].withdrawalsRoot.leaves[bw[2]].amount
    BY <2>1, ClaimFacts
  <2> HIDE DEF f
  <2> QED BY <2>1, <2>2
<1>3. Claimable(token) = iter[S]
  BY DEF Claimable, MapThenSumSet, MapThenFoldSet, ClaimKeys, OneOf
<1> HIDE DEF S, f, amount
<1>4. ASSUME NEW part \in SUBSET S, part # {} PROVE f[OneOf(part)] = amount(OneOf(part))
  BY <1>2, <1>4, OneOfIs
<1>5. PICK G : Iterates(G, f, S)
  BY <1>1, TotalsAreIter DEF Summable
<1>6. G = [part \in SUBSET S |-> IF part = {} THEN 0 ELSE amount(OneOf(part)) + G[part \ {OneOf(part)}]]
  BY <1>4, <1>5 DEF Iterates
<1>7. iter = [part \in SUBSET S |-> IF part = {} THEN 0 ELSE amount(OneOf(part)) + iter[part \ {OneOf(part)}]]
  BY <1>6
<1> HIDE DEF iter
<1>8. Iterates(iter, f, S)
  BY <1>4, <1>7 DEF Iterates
<1>9. iter[S] = Total(f, S)
  BY <1>1, <1>8, TotalsAreIter, TotalIs DEF Summable
<1> QED BY <1>3, <1>9 DEF ClaimTotal, f, S

\* A claim takes its own leaf out of what can be claimed.
LEMMA OneClaimed ==
    ASSUME NEW bs, GoodOutbox(bs), NEW gone, FiniteClaims(bs, gone),
           NEW b, NEW w, IsLeaf(bs, b, w), <<b, w>> \notin gone
    PROVE  /\ FiniteClaims(bs, gone \cup {<<b, w>>})
           /\ \A token : ClaimTotal(bs, gone \cup {<<b, w>>}, token) = ClaimTotal(bs, gone, token)
                - (IF bs[b].withdrawalsRoot.leaves[w].token = token
                   THEN bs[b].withdrawalsRoot.leaves[w].amount ELSE 0)
<1> DEFINE more == gone \cup {<<b, w>>}
           leaf == bs[b].withdrawalsRoot.leaves[w]
           f == ClaimAmounts(bs)
           k == <<b, w>>
<1>1. ASSUME NEW token
      PROVE  ClaimKeys(bs, more, token) = ClaimKeys(bs, gone, token) \ {k}
  <2>1. ASSUME NEW bw \in ClaimKeys(bs, more, token)
        PROVE  bw \in ClaimKeys(bs, gone, token) /\ bw # k
    <3>1. bw = <<bw[1], bw[2]>> /\ Unclaimed(bs, more, token, bw[1], bw[2])
      BY KeyOf
    <3>2. Unclaimed(bs, gone, token, bw[1], bw[2]) /\ bw # k
      BY <3>1 DEF Unclaimed
    <3>3. <<bw[1], bw[2]>> \in ClaimKeys(bs, gone, token)
      BY <3>2, KeyIs
    <3> QED BY <3>1, <3>2, <3>3
  <2>2. ASSUME NEW bw \in ClaimKeys(bs, gone, token), bw # k
        PROVE  bw \in ClaimKeys(bs, more, token)
    <3>1. bw = <<bw[1], bw[2]>> /\ Unclaimed(bs, gone, token, bw[1], bw[2])
      BY KeyOf
    <3>2. Unclaimed(bs, more, token, bw[1], bw[2])
      BY <2>2, <3>1 DEF Unclaimed
    <3>3. <<bw[1], bw[2]>> \in ClaimKeys(bs, more, token)
      BY <3>2, KeyIs
    <3> QED BY <3>1, <3>3
  <2> QED BY <2>1, <2>2
<1>2. FiniteClaims(bs, more)
  <2> SUFFICES ASSUME NEW token PROVE IsFiniteSet(ClaimKeys(bs, more, token))
    BY DEF FiniteClaims
  <2> DEFINE less == ClaimKeys(bs, gone, token) \ {k}
  <2>1. IsFiniteSet(less)
    BY FS_RemoveElement DEF FiniteClaims
  <2>2. ClaimKeys(bs, more, token) = less
    BY <1>1
  <2> HIDE DEF less, k, more
  <2> QED BY <2>1, <2>2
<1>3. ASSUME NEW token
      PROVE  ClaimTotal(bs, more, token)
               = ClaimTotal(bs, gone, token) - (IF leaf.token = token THEN leaf.amount ELSE 0)
  <2> DEFINE S == ClaimKeys(bs, gone, token)
             T == ClaimKeys(bs, more, token)
             less == S \ {k}
  <2>1. Summable(f, S) /\ ClaimTotal(bs, gone, token) \in Nat /\ ClaimTotal(bs, more, token) \in Nat
    BY <1>2, ClaimsSum
  <2>2. f[k] = leaf.amount /\ leaf.amount \in Nat
    BY ClaimFacts
  <2>3. T = less
    BY <1>1
  <2>4. k \in S <=> leaf.token = token
    <3>1. k[1] = b /\ k[2] = w
      OBVIOUS
    <3>2. k \in S => leaf.token = token
      <4> SUFFICES ASSUME k \in S PROVE leaf.token = token
        OBVIOUS
      <4>1. Unclaimed(bs, gone, token, k[1], k[2])
        BY KeyOf
      <4> QED BY <3>1, <4>1 DEF Unclaimed
    <3>3. leaf.token = token => k \in S
      BY KeyIs DEF Unclaimed
    <3> QED BY <3>2, <3>3
  <2>5. ClaimTotal(bs, gone, token) = Total(f, S) /\ ClaimTotal(bs, more, token) = Total(f, T)
    BY DEF ClaimTotal
  <2> HIDE DEF S, T, f, k, more, leaf
  <2>6. CASE k \in S
    <3>1. Total(f, S) = f[k] + Total(f, less)
      BY <2>1, <2>6, TotalWithout
    <3> HIDE DEF less
    <3> QED BY <2>1, <2>2, <2>3, <2>4, <2>5, <2>6, <3>1
  <2>7. CASE k \notin S
    <3>1. less = S
      BY <2>7
    <3>2. T = S
      BY <2>3, <3>1
    <3> QED BY <2>1, <2>4, <2>5, <2>7, <3>2
  <2> QED BY <2>6, <2>7
<1> QED BY <1>2, <1>3

\* A batch adds its withdrawals to what can be claimed.
LEMMA BatchPublished ==
    ASSUME NEW bs, GoodOutbox(bs), NEW gone, FiniteClaims(bs, gone),
           \A b, w : <<b, w>> \in gone => b \in DOMAIN bs,
           NEW info, info.withdrawalsRoot.leaves \in Seq(F!Withdrawals),
           NEW more, DOMAIN more = 1..Len(more), Len(more) = Len(bs) + 1,
           \A b \in DOMAIN bs : more[b] = bs[b], more[Len(bs) + 1] = info
    PROVE  /\ GoodOutbox(more) /\ FiniteClaims(more, gone)
           /\ \A token : ClaimTotal(more, gone, token) =
                ClaimTotal(bs, gone, token) + AmountOf(info.withdrawalsRoot.leaves, token)
<1> DEFINE leaves == info.withdrawalsRoot.leaves
           n == Len(bs) + 1
           old == ClaimAmounts(bs)
           all == ClaimAmounts(more)
           h == [w \in DOMAIN leaves |-> <<n, w>>]
           image(S) == {h[w] : w \in S}
<1>1. /\ n \in Nat /\ DOMAIN bs = 1..(n - 1) /\ DOMAIN more = 1..n /\ n \notin DOMAIN bs
      /\ \A b \in DOMAIN more : b = n \/ b \in DOMAIN bs
      /\ \A b \in DOMAIN bs : b \in DOMAIN more
  BY DEF GoodOutbox
<1>2. GoodOutbox(more)
  BY <1>1 DEF GoodOutbox
<1>3. /\ \A b, w : IsLeaf(bs, b, w) => IsLeaf(more, b, w) /\ more[b] = bs[b]
      /\ \A w : IsLeaf(more, n, w) <=> w \in DOMAIN leaves
      /\ \A b, w : IsLeaf(more, b, w) => IsLeaf(bs, b, w) \/ b = n
  BY <1>1 DEF IsLeaf
<1>4. ASSUME NEW token
      PROVE  /\ IsFiniteSet(ClaimKeys(more, gone, token))
             /\ ClaimTotal(more, gone, token) = ClaimTotal(bs, gone, token) + AmountOf(leaves, token)
  <2> DEFINE A == ClaimKeys(bs, gone, token)
             S == OfToken(leaves, token)
             B == image(S)
             both == A \cup B
             g == Amounts(leaves)
  <2>1. Summable(old, A) /\ ClaimTotal(bs, gone, token) = Total(old, A)
    BY ClaimsSum DEF ClaimTotal
  <2>2. Summable(g, S) /\ AmountOf(leaves, token) = Total(g, S)
    BY AmountOfIs
  <2>3. S \in SUBSET DOMAIN leaves /\ \A w \in S : h[w] = <<n, w>>
    BY DEF OfToken
  <2>4. \A w \in S : all[h[w]] = g[w]
    <3> SUFFICES ASSUME NEW w \in S PROVE all[<<n, w>>] = g[w]
      BY <2>3
    <3>1. all[<<n, w>>] = more[n].withdrawalsRoot.leaves[w].amount
      BY <1>2, <1>3, <2>3, ClaimFacts
    <3> QED BY <2>3, <3>1 DEF Amounts
  <2>5. \A v, w \in S : h[v] = h[w] => v = w
    BY <2>3
  <2>6. Summable(all, B) /\ Total(all, B) = Total(g, S)
    <3> HIDE DEF all, S, g, h
    <3> QED BY <2>2, <2>4, <2>5, TotalRenamed
  <2>7. \A k \in A : old[k] = all[k]
    <3> SUFFICES ASSUME NEW k \in A PROVE old[k] = all[k]
      OBVIOUS
    <3>1. PICK b, w : k = <<b, w>> /\ IsLeaf(bs, b, w)
      BY KeyOf
    <3>2. old[<<b, w>>] = bs[b].withdrawalsRoot.leaves[w].amount
      BY <3>1, ClaimFacts
    <3>3. all[<<b, w>>] = more[b].withdrawalsRoot.leaves[w].amount /\ more[b] = bs[b]
      BY <1>2, <1>3, <3>1, ClaimFacts
    <3> HIDE DEF old, all
    <3> QED BY <3>1, <3>2, <3>3
  <2>8. ClaimKeys(more, gone, token) = both
    <3>1. ASSUME NEW k \in ClaimKeys(more, gone, token) PROVE k \in both
      <4>1. PICK b, w : k = <<b, w>> /\ Unclaimed(more, gone, token, b, w)
        BY KeyOf
      <4>2. CASE IsLeaf(bs, b, w)
        <5>1. Unclaimed(bs, gone, token, b, w)
          BY <1>3, <4>1, <4>2 DEF Unclaimed
        <5>2. <<b, w>> \in ClaimKeys(bs, gone, token)
          BY <5>1, KeyIs
        <5> QED BY <4>1, <5>2
      <4>3. CASE b = n
        <5>1. w \in S
          BY <1>3, <4>1, <4>3 DEF OfToken, Unclaimed
        <5> QED BY <2>3, <4>1, <4>3, <5>1
      <4> QED BY <1>3, <4>1, <4>2, <4>3 DEF Unclaimed
    <3>2. ASSUME NEW k \in A PROVE k \in ClaimKeys(more, gone, token)
      <4>1. PICK b, w : k = <<b, w>> /\ Unclaimed(bs, gone, token, b, w)
        BY KeyOf
      <4>2. Unclaimed(more, gone, token, b, w)
        BY <1>3, <4>1 DEF Unclaimed
      <4> QED BY <4>1, <4>2, KeyIs
    <3>3. ASSUME NEW w \in S PROVE <<n, w>> \in ClaimKeys(more, gone, token)
      <4>1. IsLeaf(more, n, w) /\ more[n].withdrawalsRoot.leaves[w].token = token
        BY <1>3, <2>3 DEF OfToken
      <4>2. <<n, w>> \notin gone
        BY <1>1
      <4> QED BY <4>1, <4>2, KeyIs DEF Unclaimed
    <3> QED BY <2>3, <3>1, <3>2, <3>3
  <2>9. A \cap B = {}
    <3>1. ASSUME NEW k \in A PROVE k[1] \in DOMAIN bs
      <4>1. IsLeaf(bs, k[1], k[2])
        BY KeyOf
      <4> QED BY <4>1 DEF IsLeaf
    <3>2. ASSUME NEW w \in S PROVE h[w][1] = n
      BY <2>3
    <3> HIDE DEF A, S, h, n
    <3> QED BY <1>1, <3>1, <3>2
  <2> HIDE DEF A, B, S, g, old, all, leaves, n
  <2>10. Summable(all, A) /\ Total(all, A) = Total(old, A)
    <3>1. Total(old, A) = Total(all, A)
      BY <2>1, <2>7, TotalSame
    <3> QED BY <2>1, <2>7, <3>1 DEF Summable
  <2>11. Summable(all, both)
    <3>1. IsFiniteSet(both)
      BY <2>6, <2>10, FS_Union DEF Summable
    <3>2. \A x \in both : all[x] \in Int
      BY <2>6, <2>10 DEF Summable
    <3> QED BY <3>1, <3>2 DEF Summable
  <2>12. Total(all, both) = Total(all, A) + Total(all, B)
    BY <2>9, <2>11, TotalSplit
  <2> HIDE DEF both
  <2>13. ClaimTotal(more, gone, token) = Total(all, both) /\ IsFiniteSet(ClaimKeys(more, gone, token))
    BY <2>8, <2>11 DEF ClaimTotal, Summable, all
  <2> QED BY <2>1, <2>2, <2>6, <2>10, <2>12, <2>13
<1> QED BY <1>2, <1>4 DEF FiniteClaims

-----------------------------------------------------------------------------
(* The inductive invariant of the composition *)

SealedBatch == [prevRoot : SUBSET F!StateLeaves, newRoot : SUBSET F!StateLeaves,
                withdrawalsRoot : [batch : Nat, leaves : Seq(F!Withdrawals)], cursor : Nat]

SequencerTypes ==
    /\ GoodState(l2)
    /\ out \in Seq(F!Withdrawals)
    /\ sealed \in Seq(SealedBatch)
    /\ \A k \in DOMAIN sealed : GoodRoot(sealed[k].newRoot)
    /\ halted \in BOOLEAN /\ revived \in BOOLEAN

\* What an honest sequencer publishes.
PublishedTypes ==
    /\ \A b \in DOMAIN batches : GoodRoot(batches[b].stateRoot)
    /\ GoodOutbox(batches)

\* What sealed batch k continues.
Before(k) ==
    IF k = 1 THEN [root |-> PrevState.stateRoot, cursor |-> PrevState.depositCursor]
    ELSE [root |-> sealed[k - 1].newRoot, cursor |-> sealed[k - 1].cursor]

After(k) == [root |-> sealed[k].newRoot, cursor |-> sealed[k].cursor]

\* The state of the sequencer as a batch would seal it.
Now == [root |-> L2!Root(l2), cursor |-> l2.nextDepositIndex]

\* The sealed batches continue the chain of the contract, up to the sequencer's
\* state.
SealedChain ==
    /\ PrevState.depositCursor <= l2.nextDepositIndex
    /\ l2.nextDepositIndex <= depositCount
    /\ \A k \in DOMAIN sealed :
          /\ sealed[k].prevRoot = Before(k).root
          /\ Before(k).cursor <= sealed[k].cursor
          /\ sealed[k].cursor <= l2.nextDepositIndex

\* Between two points of the chain nothing is made or lost: what the first holds
\* and the deposits credited since are what the second holds and the withdrawals
\* executed since, if no deposit of them was given back.
Flow(ds, from, to, leaves) ==
    (\A i \in Nat : from.cursor <= i /\ i < to.cursor => i \in DOMAIN ds) =>
    \A token : RootTotal(to.root, token) + AmountOf(leaves, token)
                 = RootTotal(from.root, token) + DepositTotal(ds, from.cursor, to.cursor, token)

Flows ==
    /\ \A k \in DOMAIN sealed :
          Flow(deposits, Before(k), After(k), sealed[k].withdrawalsRoot.leaves)
    /\ Flow(deposits, LastSealed, Now, out)

\* What the contract's entries and the history of payouts say of each other.
ExitsRecorded ==
    /\ \A b, w : <<b, w>> \in claimed => b \in DOMAIN batches
    /\ \A n, a, t : <<n, a, t>> \in escaped => n \in DOMAIN batches
    /\ \A i \in 0..(depositCount - 1) :
          i \notin DOMAIN deposits => \E p \in DOMAIN payouts : p.kind = "reclaim" /\ p.index = i
    /\ \A i \in DOMAIN deposits : deposits[i].amount > 0
    /\ escaped # {} => \E p \in DOMAIN payouts : p.kind = "escape"

SomeExit == \E p \in DOMAIN payouts : p.kind # "withdraw"

EscapableNow(token) ==
    IF batches = <<>> THEN 0 ELSE EscapableOf(LastBatch.stateRoot, Len(batches), escaped, token)

\* What the exits of a token come to.
Owed(token) ==
    EscapableNow(token) + ClaimTotal(batches, claimed, token)
      + DepositTotal(deposits, PrevState.depositCursor, depositCount, token)

\* VaultCoversExits, in these sums.
VaultIsOwed == ~revived => \A token \in Token : vault[token] = Owed(token)

RollupInv ==
    /\ TypeOK
    /\ SequencerTypes
    /\ PublishedTypes
    /\ SealedChain
    /\ Flows
    /\ ExitsRecorded
    /\ FiniteClaims(batches, claimed)
    /\ VaultIsOwed
    /\ (halted \/ revived) => SomeExit

LEMMA EmptyRoot == GoodRoot({}) /\ \A token : RootTotal({}, token) = 0
<1>1. GoodRoot({})
  BY FS_EmptySet DEF GoodRoot
<1>2. ASSUME NEW token PROVE RootTotal({}, token) = 0
  <2>1. {leaf \in {} : leaf.token = token} = {}
    OBVIOUS
  <2> QED BY <2>1, TotalEmpty, Zenon DEF RootTotal
<1> QED BY <1>1, <1>2

LEMMA RootTotalType ==
    ASSUME NEW root, GoodRoot(root), NEW token
    PROVE  RootTotal(root, token) \in Nat
<1> DEFINE part == {leaf \in root : leaf.token = token}
<1>1. part \in SUBSET root
  OBVIOUS
<1> HIDE DEF part
<1>2. Total(LeafBalances, part) \in Nat
  BY <1>1, LeavesSum
<1> QED BY <1>2 DEF RootTotal, part

LEMMA SealedFacts ==
    ASSUME SequencerTypes, NEW k \in DOMAIN sealed
    PROVE  /\ k \in Nat /\ sealed[k] \in SealedBatch /\ sealed[k].cursor \in Nat
           /\ sealed[k].withdrawalsRoot.leaves \in Seq(F!Withdrawals)
           /\ GoodRoot(sealed[k].newRoot)
<1>1. k \in Nat /\ sealed[k] \in SealedBatch /\ GoodRoot(sealed[k].newRoot)
  BY DEF SequencerTypes
<1>2. sealed[k].cursor \in Nat /\ sealed[k].withdrawalsRoot.leaves \in Seq(F!Withdrawals)
  BY <1>1 DEF SealedBatch
<1> QED BY <1>1, <1>2

LEMMA PrevFacts ==
    ASSUME TypeOK, PublishedTypes
    PROVE  /\ PrevState.depositCursor \in Nat /\ GoodRoot(PrevState.stateRoot)
           /\ batches # <<>> => /\ Len(batches) \in DOMAIN batches
                                /\ PrevState.stateRoot = LastBatch.stateRoot
                                /\ PrevState.depositCursor = LastBatch.depositCursor
<1>1. CASE batches = <<>>
  BY <1>1, EmptyRoot DEF PrevState, ZeroRoot
<1>2. CASE batches # <<>>
  <2>1. batches \in Seq(BatchInfo) /\ Len(batches) \in DOMAIN batches
    BY <1>2 DEF TypeOK
  <2>2. LastBatch \in BatchInfo /\ GoodRoot(LastBatch.stateRoot)
    BY <2>1 DEF LastBatch, PublishedTypes
  <2>3. LastBatch.depositCursor \in Nat
    BY <2>2 DEF BatchInfo
  <2> QED BY <1>2, <2>1, <2>2, <2>3 DEF PrevState
<1> QED BY <1>1, <1>2

LEMMA BeforeFacts ==
    ASSUME TypeOK, PublishedTypes, SequencerTypes
    PROVE  /\ \A k \in 1..(Len(sealed) + 1) : Before(k).cursor \in Nat /\ GoodRoot(Before(k).root)
           /\ \A k \in DOMAIN sealed : Before(k + 1) = After(k)
           /\ LastSealed = Before(Len(sealed) + 1)
           /\ Len(sealed) \in Nat /\ DOMAIN sealed = 1..Len(sealed)
<1>0. sealed \in Seq(SealedBatch) /\ Len(sealed) \in Nat /\ DOMAIN sealed = 1..Len(sealed)
  BY DEF SequencerTypes
<1>1. ASSUME NEW k \in 1..(Len(sealed) + 1) PROVE Before(k).cursor \in Nat /\ GoodRoot(Before(k).root)
  <2>1. CASE k = 1
    BY <2>1, PrevFacts DEF Before
  <2>2. CASE k # 1
    <3>1. k - 1 \in DOMAIN sealed
      BY <1>0, <2>2
    <3> QED BY <2>2, <3>1, SealedFacts DEF Before
  <2> QED BY <2>1, <2>2
<1>2. ASSUME NEW k \in DOMAIN sealed PROVE Before(k + 1) = After(k)
  <2>1. k \in Nat /\ k # 0 /\ (k + 1) - 1 = k /\ k + 1 # 1
    BY <1>0
  <2> QED BY <2>1 DEF Before, After
<1>3. LastSealed = Before(Len(sealed) + 1)
  <2>1. CASE sealed = <<>>
    BY <2>1 DEF LastSealed, Before
  <2>2. CASE sealed # <<>>
    <3>1. Len(sealed) + 1 # 1 /\ (Len(sealed) + 1) - 1 = Len(sealed)
      BY <1>0, <2>2
    <3> QED BY <2>2, <3>1 DEF LastSealed, Before
  <2> QED BY <2>1, <2>2
<1> QED BY <1>0, <1>1, <1>2, <1>3

-----------------------------------------------------------------------------
(* The steps of the sequencer *)

LEMMA OneIndex ==
    ASSUME NEW ds, GoodDeposits(ds), NEW i \in DOMAIN ds, NEW token
    PROVE  DepositTotal(ds, i, i + 1, token) = IF ds[i].token = token THEN ds[i].amount ELSE 0
<1> DEFINE less == [j \in DOMAIN ds \ {i} |-> ds[j]]
<1>1. i \in Nat /\ DOMAIN less = DOMAIN ds \ {i} /\ ds[i].amount \in Nat
  BY DEF GoodDeposits
<1>2. DepositsIn(less, i, i + 1, token) = {}
  <2>1. ASSUME NEW j \in DOMAIN less PROVE ~(i <= j /\ j < i + 1)
    BY <1>1 DEF GoodDeposits
  <2> QED BY <2>1 DEF DepositsIn
<1>3. DepositTotal(less, i, i + 1, token) = 0
  BY <1>2, TotalEmpty DEF DepositTotal
<1>4. DepositTotal(ds, i, i + 1, token) = DepositTotal(less, i, i + 1, token)
        + (IF i <= i /\ i < i + 1 /\ ds[i].token = token THEN ds[i].amount ELSE 0)
  BY OneDeposit
<1> QED BY <1>1, <1>3, <1>4

\* What a transaction of the sequencer does to its state.
LEMMA L2Step ==
    ASSUME GoodState(l2), NEW tx \in F!L2Tx, F!Valid(l2, Token, tx), l2' = L2!Apply(l2, tx)
    PROVE  /\ GoodState(l2')
           /\ l2.nextDepositIndex \in Nat
           /\ l2'.nextDepositIndex = l2.nextDepositIndex + (IF tx.type = "deposit" THEN 1 ELSE 0)
           /\ \A token : RootTotal(L2!Root(l2'), token) = RootTotal(L2!Root(l2), token) + F!Minted(tx, token)
           /\ tx.amount \in Nat /\ tx.amount > 0 /\ tx.token \in Token
<1>1. l2 \in F!States /\ F!IsFiniteSet(DOMAIN l2.accounts) /\ l2' = F!Apply(l2, tx)
  BY SameSums, SameState DEF GoodState
<1>2. /\ l2' \in F!States
      /\ l2'.nextDepositIndex = l2.nextDepositIndex + (IF tx.type = "deposit" THEN 1 ELSE 0)
      /\ l2.nextDepositIndex \in Nat
  BY <1>1, F!ApplyFacts, F!StateFacts
<1>3. GoodState(l2')
  <2>1. F!FiniteAccounts(l2)
    BY <1>1 DEF F!FiniteAccounts
  <2>2. F!FiniteAccounts(l2')
    BY <1>1, <2>1, F!ApplyKeys
  <2> QED BY <1>2, <2>2, SameSums DEF GoodState, F!FiniteAccounts
<1>4. ASSUME NEW token
      PROVE  RootTotal(L2!Root(l2'), token) = RootTotal(L2!Root(l2), token) + F!Minted(tx, token)
  <2>1. F!Issued(F!Apply(l2, tx), token) = F!Issued(l2, token) + F!Minted(tx, token)
    BY <1>1, F!IssuedApply
  <2>2. L2!Issued(l2, token) = RootTotal(L2!Root(l2), token)
    BY RootIs
  <2>3. L2!Issued(l2', token) = RootTotal(L2!Root(l2'), token)
    BY <1>3, RootIs
  <2> QED BY <1>1, <2>1, <2>2, <2>3, SameState
<1>5. tx.amount \in Nat /\ tx.amount > 0 /\ tx.token \in Token
  BY DEF F!Valid, F!L2Tx
<1> QED BY <1>2, <1>3, <1>4, <1>5

\* What only the sequencer's steps change.
SameContract == UNCHANGED <<batches, deposits, depositCount, claimed, escaped, vault, payouts>>

LEMMA ContractKept ==
    ASSUME SameContract
    PROVE  /\ PrevState' = PrevState
           /\ PublishedTypes => PublishedTypes'
           /\ ExitsRecorded => ExitsRecorded'
           /\ FiniteClaims(batches, claimed) => FiniteClaims(batches, claimed)'
           /\ revived' = revived /\ VaultIsOwed => VaultIsOwed'
           /\ SomeExit => SomeExit'
<1> USE DEF SameContract
<1>1. PrevState' = PrevState
  BY DEF PrevState, LastBatch
<1>2. PublishedTypes => PublishedTypes'
  BY DEF PublishedTypes
<1>3. ExitsRecorded => ExitsRecorded'
  BY DEF ExitsRecorded
<1>4. FiniteClaims(batches, claimed) => FiniteClaims(batches, claimed)'
  OBVIOUS
<1>5. revived' = revived /\ VaultIsOwed => VaultIsOwed'
  <2>1. \A token : Owed(token)' = Owed(token)
    BY DEF Owed, EscapableNow, PrevState, LastBatch
  <2> QED BY <2>1 DEF VaultIsOwed
<1>6. SomeExit => SomeExit'
  BY DEF SomeExit
<1> QED BY <1>1, <1>2, <1>3, <1>4, <1>5, <1>6

\* A step of the sequencer's state alone.
LEMMA ChainKeptByL2 ==
    ASSUME SameContract, UNCHANGED sealed, SealedChain, SequencerTypes,
           l2.nextDepositIndex \in Nat, l2'.nextDepositIndex \in Nat,
           PrevState.depositCursor \in Nat, depositCount \in Nat,
           l2.nextDepositIndex <= l2'.nextDepositIndex, l2'.nextDepositIndex <= depositCount
    PROVE  SealedChain' /\ LastSealed' = LastSealed /\ \A k : Before(k)' = Before(k) /\ After(k)' = After(k)
<1>1. PrevState' = PrevState /\ sealed' = sealed
  BY ContractKept
<1>2. LastSealed' = LastSealed /\ \A k : Before(k)' = Before(k) /\ After(k)' = After(k)
  BY <1>1 DEF LastSealed, Before, After
<1>3. \A k \in DOMAIN sealed : sealed[k].cursor \in Nat
  BY SealedFacts
<1>4. SealedChain'
  <2>1. PrevState'.depositCursor <= l2'.nextDepositIndex /\ l2'.nextDepositIndex <= depositCount'
    BY <1>1 DEF SealedChain, SameContract
  <2>2. ASSUME NEW k \in DOMAIN sealed
        PROVE  /\ sealed[k].prevRoot = Before(k).root /\ Before(k).cursor <= sealed[k].cursor
               /\ sealed[k].cursor <= l2'.nextDepositIndex
    BY <1>3 DEF SealedChain
  <2> QED BY <1>1, <1>2, <2>1, <2>2 DEF SealedChain
<1> QED BY <1>2, <1>4

LEMMA VarsKept ==
    ASSUME UNCHANGED vars
    PROVE  SameContract /\ (TypeOK => TypeOK')
BY TypeStep DEF vars, configVars, batchVars, depositVars, exitVars, SameContract

\* The flow up to the sequencer's state, after it moved.
LEMMA FlowOn ==
    ASSUME GoodDeposits(deposits), RollupInv, SameContract,
           LastSealed' = LastSealed, l2.nextDepositIndex \in Nat, l2'.nextDepositIndex \in Nat,
           l2.nextDepositIndex <= l2'.nextDepositIndex,
           LastSealed.cursor \in Nat, LastSealed.cursor <= l2.nextDepositIndex,
           GoodRoot(LastSealed.root), GoodRoot(L2!Root(l2)), GoodRoot(L2!Root(l2')),
           out' \in Seq(F!Withdrawals),
           (\A i \in Nat : l2.nextDepositIndex <= i /\ i < l2'.nextDepositIndex => i \in DOMAIN deposits) =>
           \A token : RootTotal(L2!Root(l2'), token) + AmountOf(out', token)
             = RootTotal(L2!Root(l2), token) + AmountOf(out, token)
                + DepositTotal(deposits, l2.nextDepositIndex, l2'.nextDepositIndex, token)
    PROVE  Flow(deposits, LastSealed, Now, out)'
<1> DEFINE c == LastSealed.cursor
           i0 == l2.nextDepositIndex
           i1 == l2'.nextDepositIndex
<1>1. /\ Now.root = L2!Root(l2) /\ Now.cursor = i0
      /\ Now'.root = L2!Root(l2') /\ Now'.cursor = i1
  BY DEF Now
<1>2. Flow(deposits, LastSealed, Now, out)
  BY DEF RollupInv, Flows
<1>3. deposits' = deposits
  BY DEF SameContract
<1>4. ASSUME \A i \in Nat : c <= i /\ i < i1 => i \in DOMAIN deposits, NEW token
      PROVE  RootTotal(L2!Root(l2'), token) + AmountOf(out', token)
               = RootTotal(LastSealed.root, token) + DepositTotal(deposits, c, i1, token)
  <2>1. /\ \A i \in Nat : c <= i /\ i < i0 => i \in DOMAIN deposits
        /\ \A i \in Nat : i0 <= i /\ i < i1 => i \in DOMAIN deposits
    BY <1>4
  <2>2. RootTotal(L2!Root(l2), token) + AmountOf(out, token)
          = RootTotal(LastSealed.root, token) + DepositTotal(deposits, c, i0, token)
    BY <1>1, <1>2, <2>1 DEF Flow
  <2>3. RootTotal(L2!Root(l2'), token) + AmountOf(out', token)
          = RootTotal(L2!Root(l2), token) + AmountOf(out, token) + DepositTotal(deposits, i0, i1, token)
    BY <2>1
  <2>4. DepositTotal(deposits, c, i1, token)
          = DepositTotal(deposits, c, i0, token) + DepositTotal(deposits, i0, i1, token)
    BY DepositsSplit
  <2>5. out \in Seq(F!Withdrawals)
    BY DEF RollupInv, SequencerTypes
  <2>6. /\ RootTotal(LastSealed.root, token) \in Nat /\ RootTotal(L2!Root(l2), token) \in Nat
        /\ RootTotal(L2!Root(l2'), token) \in Nat
        /\ AmountOf(out, token) \in Nat /\ AmountOf(out', token) \in Nat
        /\ DepositTotal(deposits, c, i0, token) \in Nat /\ DepositTotal(deposits, i0, i1, token) \in Nat
    BY <2>5, RootTotalType, AmountOfIs, DepositTotalType
  <2> QED BY <2>2, <2>3, <2>4, <2>6
<1>5. Flow(deposits, LastSealed, Now', out')
  BY <1>1, <1>4 DEF Flow
<1> QED BY <1>3, <1>5 DEF Flow

\* What the invariant says of the numbers.
LEMMA InvFacts ==
    ASSUME RollupInv
    PROVE  /\ TypeOK /\ SequencerTypes /\ PublishedTypes /\ SealedChain /\ ExitsRecorded
           /\ GoodState(l2) /\ l2.nextDepositIndex \in Nat /\ depositCount \in Nat
           /\ GoodRoot(L2!Root(l2)) /\ GoodDeposits(deposits)
           /\ PrevState.depositCursor \in Nat /\ GoodRoot(PrevState.stateRoot)
           /\ LastSealed.cursor \in Nat /\ GoodRoot(LastSealed.root)
           /\ LastSealed.cursor <= l2.nextDepositIndex /\ l2.nextDepositIndex <= depositCount
<1>1. /\ TypeOK /\ SequencerTypes /\ PublishedTypes /\ SealedChain /\ ExitsRecorded
      /\ GoodState(l2) /\ depositCount \in Nat
  BY DEF RollupInv, SequencerTypes, TypeOK, DepositTypes
<1>2. l2.nextDepositIndex \in Nat /\ GoodRoot(L2!Root(l2))
  BY <1>1, RootIs, F!StateFacts DEF GoodState
<1>3. PrevState.depositCursor \in Nat /\ GoodRoot(PrevState.stateRoot)
  BY <1>1, PrevFacts
<1>4. GoodDeposits(deposits)
  BY <1>1, <1>3, ReclaimableIs
<1>5. /\ LastSealed = Before(Len(sealed) + 1) /\ Len(sealed) \in Nat /\ DOMAIN sealed = 1..Len(sealed)
      /\ Before(Len(sealed) + 1).cursor \in Nat /\ GoodRoot(Before(Len(sealed) + 1).root)
  <2>1. /\ LastSealed = Before(Len(sealed) + 1) /\ Len(sealed) \in Nat /\ DOMAIN sealed = 1..Len(sealed)
        /\ \A k \in 1..(Len(sealed) + 1) : Before(k).cursor \in Nat /\ GoodRoot(Before(k).root)
    BY <1>1, BeforeFacts
  <2>2. Len(sealed) + 1 \in 1..(Len(sealed) + 1)
    BY <2>1
  <2> QED BY <2>1, <2>2
<1>6. LastSealed.cursor <= l2.nextDepositIndex
  <2>1. CASE sealed = <<>>
    BY <1>1, <2>1 DEF LastSealed, SealedChain
  <2>2. CASE sealed # <<>>
    <3>1. Len(sealed) \in DOMAIN sealed
      BY <1>5, <2>2, <1>1 DEF SequencerTypes
    <3> QED BY <1>1, <2>2, <3>1 DEF LastSealed, SealedChain
  <2> QED BY <2>1, <2>2
<1>7. l2.nextDepositIndex <= depositCount
  BY <1>1 DEF SealedChain
<1> QED BY <1>1, <1>2, <1>3, <1>4, <1>5, <1>6, <1>7

\* A transaction of the sequencer keeps the books: a transfer moves what is
\* issued, a withdraw moves it out, a deposit adds what the contract holds.
LEMMA L2Keeps ==
    ASSUME RollupInv, UNCHANGED vars, UNCHANGED <<sealed, halted, revived>>,
           NEW tx \in F!L2Tx, F!Valid(l2, Token, tx), l2' = L2!Apply(l2, tx),
           tx.type = "deposit" => /\ l2.nextDepositIndex \in DOMAIN deposits
                                  /\ tx.token = deposits[l2.nextDepositIndex].token
                                  /\ tx.amount = deposits[l2.nextDepositIndex].amount,
           out' = IF tx.type = "withdraw" THEN Append(out, L2!WithdrawalOf(tx)) ELSE out
    PROVE  RollupInv'
<1> DEFINE i0 == l2.nextDepositIndex
           i1 == l2'.nextDepositIndex
<1>0. SameContract /\ TypeOK' /\ UNCHANGED <<sealed, halted, revived>>
  BY VarsKept DEF RollupInv
<1>1. /\ TypeOK /\ SequencerTypes /\ PublishedTypes /\ SealedChain /\ ExitsRecorded
      /\ GoodState(l2) /\ i0 \in Nat /\ depositCount \in Nat
      /\ GoodRoot(L2!Root(l2)) /\ GoodDeposits(deposits)
      /\ PrevState.depositCursor \in Nat
      /\ LastSealed.cursor \in Nat /\ GoodRoot(LastSealed.root)
      /\ LastSealed.cursor <= i0 /\ i0 <= depositCount
  BY InvFacts
<1>2. /\ GoodState(l2')
      /\ i1 = i0 + (IF tx.type = "deposit" THEN 1 ELSE 0)
      /\ \A token : RootTotal(L2!Root(l2'), token) = RootTotal(L2!Root(l2), token) + F!Minted(tx, token)
      /\ tx.amount \in Nat /\ tx.amount > 0 /\ tx.token \in Token
  BY <1>1, L2Step
<1>3. i1 \in Nat /\ i0 <= i1 /\ i1 <= depositCount
  <2>1. tx.type = "deposit" => i0 < depositCount
    <3>1. DOMAIN deposits \subseteq 0..(depositCount - 1)
      BY <1>1 DEF TypeOK, DepositTypes
    <3> QED BY <1>1, <3>1
  <2> HIDE DEF i0, i1
  <2> QED BY <1>1, <1>2, <2>1
<1>4. /\ out \in Seq(F!Withdrawals) /\ out' \in Seq(F!Withdrawals)
      /\ \A token : AmountOf(out', token) = AmountOf(out, token)
            + (IF tx.type = "withdraw" /\ tx.token = token THEN tx.amount ELSE 0)
      /\ \A token : AmountOf(out, token) \in Nat
  <2>1. out \in Seq(F!Withdrawals) /\ \A token : AmountOf(out, token) \in Nat
    BY <1>1, AmountOfIs DEF SequencerTypes
  <2>2. CASE tx.type = "withdraw"
    <3> DEFINE leaf == L2!WithdrawalOf(tx)
    <3>1. leaf \in F!Withdrawals /\ leaf.token = tx.token /\ leaf.amount = tx.amount
      BY <1>2, <2>2 DEF F!Withdrawals, L2!WithdrawalOf, F!L2Tx
    <3>2. out' = Append(out, leaf)
      BY <2>2
    <3> HIDE DEF leaf
    <3>3. \A token : AmountOf(out', token) = AmountOf(out, token) + (IF tx.token = token THEN tx.amount ELSE 0)
      BY <2>1, <3>1, <3>2, OneMoreOut
    <3>4. out' \in Seq(F!Withdrawals)
      BY <2>1, <3>1, <3>2
    <3> QED BY <2>1, <2>2, <3>3, <3>4
  <2>3. CASE tx.type # "withdraw"
    BY <2>1, <2>3
  <2> QED BY <2>2, <2>3
<1>5. /\ SealedChain' /\ LastSealed' = LastSealed
      /\ \A k : Before(k)' = Before(k) /\ After(k)' = After(k)
  BY <1>0, <1>1, <1>3, ChainKeptByL2
<1>6. GoodRoot(L2!Root(l2'))
  BY <1>2, RootIs
<1>7. ASSUME \A i \in Nat : i0 <= i /\ i < i1 => i \in DOMAIN deposits, NEW token
      PROVE  RootTotal(L2!Root(l2'), token) + AmountOf(out', token)
               = RootTotal(L2!Root(l2), token) + AmountOf(out, token) + DepositTotal(deposits, i0, i1, token)
  <2>1. RootTotal(L2!Root(l2'), token) = RootTotal(L2!Root(l2), token) + F!Minted(tx, token)
    BY <1>2
  <2>2. RootTotal(L2!Root(l2), token) \in Nat
    BY <1>1, RootTotalType
  <2>3. CASE tx.type = "deposit"
    <3>1. DepositTotal(deposits, i0, i0 + 1, token)
            = IF deposits[i0].token = token THEN deposits[i0].amount ELSE 0
      BY <1>1, <2>3, OneIndex
    <3>2. F!Minted(tx, token) = IF tx.token = token THEN tx.amount ELSE 0
      BY <2>3 DEF F!Minted
    <3>3. i1 = i0 + 1 /\ AmountOf(out', token) = AmountOf(out, token)
      BY <1>2, <2>3
    <3> QED BY <1>2, <1>4, <2>1, <2>2, <2>3, <3>1, <3>2, <3>3
  <2>4. CASE tx.type # "deposit"
    <3>1. DepositTotal(deposits, i0, i0, token) = 0 /\ i1 = i0
      BY <1>1, <1>2, <2>4, NoDeposits
    <3>2. F!Minted(tx, token) = IF tx.token = token /\ tx.type = "withdraw" THEN 0 - tx.amount ELSE 0
      BY <2>4 DEF F!Minted
    <3>3. /\ AmountOf(out', token) = AmountOf(out, token)
                + (IF tx.type = "withdraw" /\ tx.token = token THEN tx.amount ELSE 0)
          /\ AmountOf(out, token) \in Nat
      BY <1>4
    <3> QED BY <1>2, <2>1, <2>2, <3>1, <3>2, <3>3
  <2> QED BY <2>3, <2>4
<1>8. Flow(deposits, LastSealed, Now, out)'
  BY <1>0, <1>1, <1>3, <1>4, <1>5, <1>6, <1>7, FlowOn
<1>9. Flows'
  <2>1. ASSUME NEW k \in DOMAIN sealed
        PROVE  Flow(deposits, Before(k), After(k), sealed[k].withdrawalsRoot.leaves)'
    <3>1. Flow(deposits, Before(k), After(k), sealed[k].withdrawalsRoot.leaves)
      BY DEF RollupInv, Flows
    <3> QED BY <1>0, <1>5, <3>1 DEF SameContract, Flow
  <2> QED BY <1>0, <1>8, <2>1 DEF Flows
<1>10. SequencerTypes'
  BY <1>0, <1>1, <1>2, <1>4 DEF SequencerTypes
<1>11. /\ PublishedTypes' /\ ExitsRecorded' /\ FiniteClaims(batches, claimed)' /\ VaultIsOwed'
       /\ SomeExit => SomeExit'
  BY <1>0, ContractKept DEF RollupInv
<1> QED BY <1>0, <1>5, <1>9, <1>10, <1>11 DEF RollupInv

LEMMA CreditKeeps ==
    ASSUME RollupInv, CreditDeposit
    PROVE  RollupInv'
<1> DEFINE i == l2.nextDepositIndex
           d == deposits[i]
           tx == [type |-> "deposit", depositIndex |-> i, to |-> d.l2Recipient,
                  token |-> d.token, amount |-> d.amount]
<1>1. /\ i \in DOMAIN deposits /\ l2' = L2!Apply(l2, tx)
      /\ UNCHANGED vars /\ UNCHANGED <<sealed, halted, revived>> /\ out' = out
  BY DEF CreditDeposit, Verified
<1>2. i \in Nat /\ TypeOK /\ ExitsRecorded
  BY InvFacts
<1>3. d \in DepositInfo /\ d.amount > 0
  BY <1>1, <1>2 DEF TypeOK, DepositTypes, ExitsRecorded
<1>4. d.l2Recipient \in Address /\ d.token \in Token /\ d.amount \in Nat
  BY <1>3 DEF DepositInfo
<1> HIDE DEF d
<1>5. tx \in F!L2Tx
  BY <1>2, <1>4 DEF F!L2Tx
<1>6. /\ tx.type = "deposit" /\ tx.depositIndex = l2.nextDepositIndex
      /\ tx.token = d.token /\ tx.amount = d.amount
  OBVIOUS
<1> HIDE DEF tx
<1>7. F!Valid(l2, Token, tx)
  BY <1>3, <1>4, <1>6 DEF F!Valid
<1>8. out' = IF tx.type = "withdraw" THEN Append(out, L2!WithdrawalOf(tx)) ELSE out
  BY <1>1, <1>6
<1> QED BY <1>1, <1>5, <1>6, <1>7, <1>8, L2Keeps DEF d

LEMMA ExecuteKeeps ==
    ASSUME RollupInv, NEW request \in L2Request, Execute(request)
    PROVE  RollupInv'
<1> DEFINE nonce == L2!Get(l2, request.from, request.token).nonce
           tx == [type |-> request.type, from |-> request.from, to |-> request.to,
                  token |-> request.token, amount |-> request.amount,
                  nonce |-> nonce, signed |-> TRUE]
<1>1. /\ L2!Valid(l2, Token, tx) /\ l2' = L2!Apply(l2, tx)
      /\ out' = IF tx.type = "withdraw" THEN Append(out, L2!WithdrawalOf(tx)) ELSE out
      /\ UNCHANGED vars /\ UNCHANGED <<sealed, halted, revived>>
  BY DEF Execute
<1>2. nonce \in Nat
  <2>1. l2 \in F!States
    BY InvFacts DEF GoodState
  <2>2. F!Get(l2, request.from, request.token).nonce \in Nat
    BY <2>1, F!GetType
  <2> QED BY <2>2, SameState
<1> HIDE DEF nonce
<1>3. tx \in F!L2Tx /\ tx.type # "deposit"
  BY <1>2, RollupInputs DEF F!L2Tx
<1> HIDE DEF tx
<1>4. F!Valid(l2, Token, tx)
  BY <1>1, SameState
<1> QED BY <1>1, <1>3, <1>4, L2Keeps

\* A sealed batch takes what flowed since the one before.
LEMMA SealKeeps ==
    ASSUME RollupInv, SealBatch
    PROVE  RollupInv'
<1> PICK n : n = Len(sealed)
  OBVIOUS
<1> DEFINE b == [prevRoot |-> LastSealed.root, newRoot |-> L2!Root(l2),
                 withdrawalsRoot |-> L2!WithdrawalsTree(Len(batches) + Len(sealed) + 1, out),
                 cursor |-> DepositCursor]
<1>0. /\ sealed' = Append(sealed, b) /\ out' = <<>>
      /\ UNCHANGED vars /\ UNCHANGED <<l2, halted, revived>>
  BY DEF SealBatch
<1>1. SameContract /\ TypeOK'
  BY <1>0, VarsKept DEF RollupInv
<1>2. /\ TypeOK /\ SequencerTypes /\ PublishedTypes /\ SealedChain /\ ExitsRecorded
      /\ l2.nextDepositIndex \in Nat /\ GoodRoot(L2!Root(l2)) /\ GoodDeposits(deposits)
      /\ GoodRoot(LastSealed.root) /\ LastSealed.cursor \in Nat
      /\ LastSealed.cursor <= l2.nextDepositIndex
  BY InvFacts
<1>3. /\ LastSealed = Before(n + 1) /\ n \in Nat /\ DOMAIN sealed = 1..n
  BY <1>2, BeforeFacts
<1>4. /\ sealed \in Seq(SealedBatch) /\ out \in Seq(F!Withdrawals)
      /\ \A k \in DOMAIN sealed : GoodRoot(sealed[k].newRoot)
  BY <1>2 DEF SequencerTypes
<1>5. /\ b \in SealedBatch /\ b.prevRoot = LastSealed.root /\ b.newRoot = L2!Root(l2)
      /\ b.withdrawalsRoot.leaves = out /\ b.cursor = l2.nextDepositIndex
  <2>1. LastSealed.root \in SUBSET F!StateLeaves /\ L2!Root(l2) \in SUBSET F!StateLeaves
    BY <1>2 DEF GoodRoot
  <2>2. Len(batches) + Len(sealed) + 1 \in Nat
    BY <1>2, <1>3 DEF TypeOK
  <2>3. b.withdrawalsRoot \in [batch : Nat, leaves : Seq(F!Withdrawals)] /\ b.withdrawalsRoot.leaves = out
    BY <1>4, <2>2 DEF L2!WithdrawalsTree
  <2> QED BY <1>2, <2>1, <2>3 DEF SealedBatch, DepositCursor
<1> HIDE DEF b
<1>6. /\ sealed' \in Seq(SealedBatch) /\ Len(sealed') = n + 1 /\ DOMAIN sealed' = 1..(n + 1)
      /\ \A k \in 1..n : sealed'[k] = sealed[k]
  BY <1>0, <1>3, <1>4, <1>5
<1>7. sealed'[n + 1] = b
  BY <1>0, <1>3, <1>4
<1>8. PrevState' = PrevState
  BY <1>1, ContractKept
<1>9. \A k \in 1..n : Before(k)' = Before(k) /\ After(k)' = After(k)
  <2> SUFFICES ASSUME NEW k \in 1..n PROVE Before(k)' = Before(k) /\ After(k)' = After(k)
    OBVIOUS
  <2>1. k = 1 \/ k - 1 \in 1..n
    BY <1>3
  <2> QED BY <1>6, <1>8, <2>1 DEF Before, After
<1>10. Before(n + 1)' = LastSealed
  <2>1. n + 1 = 1 \/ (n + 1) - 1 \in 1..n
    BY <1>3
  <2>2. Before(n + 1)' = Before(n + 1)
    BY <1>6, <1>8, <2>1 DEF Before
  <2> QED BY <1>3, <2>2
<1>11. After(n + 1)' = Now /\ LastSealed' = Now /\ Now' = Now
  <2>1. After(n + 1)' = Now
    BY <1>5, <1>7 DEF After, Now
  <2>2. sealed' # <<>>
    BY <1>3, <1>6
  <2>3. LastSealed' = After(n + 1)'
    BY <1>6, <2>2 DEF LastSealed, After
  <2>4. Now' = Now
    BY <1>0 DEF Now
  <2> QED BY <2>1, <2>3, <2>4
<1>12. SequencerTypes'
  <2>1. <<>> \in Seq(F!Withdrawals)
    OBVIOUS
  <2>2. \A k \in DOMAIN sealed' : GoodRoot(sealed'[k].newRoot)
    BY <1>2, <1>3, <1>4, <1>5, <1>6, <1>7
  <2> QED BY <1>0, <1>2, <1>6, <2>1, <2>2 DEF SequencerTypes
<1>13. SealedChain'
  <2>1. PrevState'.depositCursor <= l2'.nextDepositIndex /\ l2'.nextDepositIndex <= depositCount'
    BY <1>0, <1>1, <1>2, <1>8 DEF SealedChain, SameContract
  <2>2. ASSUME NEW k \in DOMAIN sealed'
        PROVE  /\ sealed'[k].prevRoot = Before(k)'.root
               /\ Before(k)'.cursor <= sealed'[k].cursor
               /\ sealed'[k].cursor <= l2'.nextDepositIndex
    <3>1. CASE k \in 1..n
      BY <1>0, <1>2, <1>3, <1>6, <1>9, <3>1 DEF SealedChain
    <3>2. CASE k = n + 1
      BY <1>0, <1>2, <1>5, <1>7, <1>10, <3>2
    <3> QED BY <1>3, <1>6, <3>1, <3>2
  <2> QED BY <2>1, <2>2 DEF SealedChain
<1>14. Flows'
  <2>1. ASSUME NEW k \in DOMAIN sealed'
        PROVE  Flow(deposits, Before(k)', After(k)', sealed'[k].withdrawalsRoot.leaves)
    <3>1. CASE k \in 1..n
      <4>1. Flow(deposits, Before(k), After(k), sealed[k].withdrawalsRoot.leaves)
        BY <1>3, <3>1 DEF RollupInv, Flows
      <4> QED BY <1>6, <1>9, <3>1, <4>1
    <3>2. CASE k = n + 1
      <4>1. Flow(deposits, LastSealed, Now, out)
        BY DEF RollupInv, Flows
      <4> QED BY <1>5, <1>7, <1>10, <1>11, <3>2, <4>1
    <3> QED BY <1>3, <1>6, <3>1, <3>2
  <2>2. Flow(deposits, Now, Now, <<>>)
    <3>1. /\ Now.cursor \in Nat /\ GoodRoot(Now.root)
      BY <1>2 DEF Now
    <3>2. ASSUME NEW token
          PROVE  RootTotal(Now.root, token) + AmountOf(<<>>, token)
                   = RootTotal(Now.root, token) + DepositTotal(deposits, Now.cursor, Now.cursor, token)
      <4>1. AmountOf(<<>>, token) = 0 /\ DepositTotal(deposits, Now.cursor, Now.cursor, token) = 0
        BY <1>2, <3>1, NothingOut, NoDeposits
      <4> QED BY <4>1
    <3> QED BY <3>2 DEF Flow
  <2>3. deposits' = deposits
    BY <1>1 DEF SameContract
  <2>4. Flow(deposits, LastSealed, Now, out)'
    BY <1>0, <1>11, <2>2, <2>3 DEF Flow
  <2>5. ASSUME NEW k \in DOMAIN sealed'
        PROVE  Flow(deposits, Before(k), After(k), sealed[k].withdrawalsRoot.leaves)'
    BY <2>1, <2>3 DEF Flow
  <2> QED BY <2>4, <2>5 DEF Flows
<1>15. /\ PublishedTypes' /\ ExitsRecorded' /\ FiniteClaims(batches, claimed)' /\ VaultIsOwed'
       /\ SomeExit => SomeExit'
  BY <1>0, <1>1, ContractKept DEF RollupInv
<1> QED BY <1>0, <1>1, <1>12, <1>13, <1>14, <1>15 DEF RollupInv

-----------------------------------------------------------------------------
(* What the invariant implies *)

LEMMA OwedIs ==
    ASSUME TypeOK, PublishedTypes, FiniteClaims(batches, claimed), NEW token
    PROVE  /\ Escapable(token) = EscapableNow(token) /\ EscapableNow(token) \in Nat
           /\ Claimable(token) = ClaimTotal(batches, claimed, token)
           /\ ClaimTotal(batches, claimed, token) \in Nat
           /\ Reclaimable(token)
                = DepositTotal(deposits, PrevState.depositCursor, depositCount, token)
           /\ DepositTotal(deposits, PrevState.depositCursor, depositCount, token) \in Nat
<1>1. Escapable(token) = EscapableNow(token) /\ EscapableNow(token) \in Nat
  <2>1. CASE batches = <<>>
    BY <2>1 DEF Escapable, EscapableNow
  <2>2. CASE batches # <<>>
    <3>1. GoodRoot(LastBatch.stateRoot)
      BY <2>2, PrevFacts
    <3>2. Escapable(token) = EscapableOf(LastBatch.stateRoot, Len(batches), escaped, token)
      BY <2>2, <3>1, EscapableIs
    <3>3. EscapableLeaves(LastBatch.stateRoot, Len(batches), escaped, token) \in SUBSET LastBatch.stateRoot
      BY DEF EscapableLeaves
    <3>4. EscapableOf(LastBatch.stateRoot, Len(batches), escaped, token) \in Nat
      BY <3>1, <3>3, LeavesSum DEF EscapableOf
    <3> QED BY <2>2, <3>2, <3>4 DEF EscapableNow
  <2> QED BY <2>1, <2>2
<1>2. GoodOutbox(batches)
  BY DEF PublishedTypes
<1>3. Claimable(token) = ClaimTotal(batches, claimed, token) /\ ClaimTotal(batches, claimed, token) \in Nat
  BY <1>2, ClaimableIs, ClaimsSum
<1>4. PrevState.depositCursor \in Nat
  BY PrevFacts
<1>5. /\ GoodDeposits(deposits)
      /\ Reclaimable(token) = DepositTotal(deposits, PrevState.depositCursor, depositCount, token)
  BY <1>4, ReclaimableIs
<1>6. DepositTotal(deposits, PrevState.depositCursor, depositCount, token) \in Nat
  BY <1>5, DepositTotalType
<1> QED BY <1>1, <1>3, <1>5, <1>6

LEMMA CoversExits == RollupInv => VaultCoversExits
<1> SUFFICES ASSUME RollupInv, ~revived, NEW token \in Token
             PROVE  vault[token] = Escapable(token) + Claimable(token) + Reclaimable(token)
  BY DEF VaultCoversExits
<1>1. vault[token] = Owed(token)
  BY DEF RollupInv, VaultIsOwed
<1> QED BY <1>1, OwedIs DEF RollupInv, Owed

LEMMA RollupTypes == RollupInv => RollupTypeOK
<1> SUFFICES ASSUME RollupInv PROVE RollupTypeOK
  OBVIOUS
<1>1. /\ SequencerTypes /\ SealedChain /\ l2 \in F!States
      /\ l2.nextDepositIndex \in Nat /\ l2.nextDepositIndex <= depositCount /\ depositCount \in Nat
  BY InvFacts DEF GoodState
<1>2. l2.nextDepositIndex \in 0..depositCount
  BY <1>1
<1>3. DOMAIN l2.accounts \subseteq Address \X Token /\ l2.accounts \in [DOMAIN l2.accounts -> L2!AccountState]
  BY <1>1, F!StateFacts, SameState
<1>4. out \in Seq(Withdrawal)
  <2>1. F!Withdrawals \subseteq Withdrawal
    BY WithdrawalFacts
  <2>2. out \in Seq(F!Withdrawals)
    BY <1>1 DEF SequencerTypes
  <2> QED BY <2>1, <2>2
<1>5. ASSUME NEW k \in DOMAIN sealed
      PROVE  /\ sealed[k].prevRoot = IF k = 1 THEN PrevState.stateRoot ELSE sealed[k - 1].newRoot
             /\ sealed[k].cursor <= l2.nextDepositIndex
  BY <1>1 DEF SealedChain, Before
<1>6. {halted, revived} \subseteq BOOLEAN
  BY <1>1 DEF SequencerTypes
<1> QED BY <1>2, <1>3, <1>4, <1>5, <1>6 DEF RollupTypeOK

-----------------------------------------------------------------------------
(* The calls of the contract that publish no batch *)

LEMMA BridgeKept ==
    ASSUME RollupInv, UNCHANGED l2Vars, UNCHANGED batches,
           depositCount' \in Nat, depositCount <= depositCount'
    PROVE  /\ SequencerTypes' /\ PublishedTypes' /\ SealedChain'
           /\ PrevState' = PrevState /\ LastSealed' = LastSealed /\ Now' = Now
           /\ \A k : Before(k)' = Before(k) /\ After(k)' = After(k)
<1>0. UNCHANGED <<l2, out, sealed, halted, revived>>
  BY DEF l2Vars
<1>1. PrevState' = PrevState
  BY DEF PrevState, LastBatch
<1>2. LastSealed' = LastSealed /\ Now' = Now /\ \A k : Before(k)' = Before(k) /\ After(k)' = After(k)
  BY <1>0, <1>1 DEF LastSealed, Before, After, Now
<1>3. SequencerTypes' /\ PublishedTypes'
  BY <1>0 DEF RollupInv, SequencerTypes, PublishedTypes
<1>4. l2.nextDepositIndex \in Nat /\ l2.nextDepositIndex <= depositCount /\ depositCount \in Nat
  BY InvFacts
<1>5. l2.nextDepositIndex <= depositCount'
  BY <1>4
<1>6. SealedChain'
  BY <1>0, <1>1, <1>2, <1>5 DEF RollupInv, SealedChain
<1> QED BY <1>1, <1>2, <1>3, <1>6

\* What flowed is the same when the deposits of a whole interval are.
LEMMA FlowsKept ==
    ASSUME RollupInv, UNCHANGED l2Vars, UNCHANGED batches,
           \A c, d \in Nat :
              /\ d <= depositCount
              /\ \A i \in Nat : c <= i /\ i < d => i \in DOMAIN deposits'
              => /\ \A i \in Nat : c <= i /\ i < d => i \in DOMAIN deposits
                 /\ \A token : DepositTotal(deposits', c, d, token) = DepositTotal(deposits, c, d, token)
    PROVE  Flows'
<1>0. UNCHANGED <<l2, out, sealed>> /\ PrevState' = PrevState
  BY DEF l2Vars, PrevState, LastBatch
<1>1. LastSealed' = LastSealed /\ Now' = Now /\ \A k : Before(k)' = Before(k) /\ After(k)' = After(k)
  BY <1>0 DEF LastSealed, Before, After, Now
<1>2. /\ TypeOK /\ SequencerTypes /\ PublishedTypes /\ SealedChain
      /\ l2.nextDepositIndex \in Nat /\ depositCount \in Nat
      /\ LastSealed.cursor \in Nat /\ l2.nextDepositIndex <= depositCount
  BY InvFacts
<1>3. ASSUME NEW from, from.cursor \in Nat, NEW to, to.cursor \in Nat, to.cursor <= depositCount,
             NEW leaves, Flow(deposits, from, to, leaves)
      PROVE  Flow(deposits', from, to, leaves)
  <2> DEFINE c == from.cursor
             d == to.cursor
  <2>1. ASSUME \A i \in Nat : c <= i /\ i < d => i \in DOMAIN deposits', NEW token
        PROVE  RootTotal(to.root, token) + AmountOf(leaves, token)
                 = RootTotal(from.root, token) + DepositTotal(deposits', c, d, token)
    <3>1. /\ \A i \in Nat : c <= i /\ i < d => i \in DOMAIN deposits
          /\ DepositTotal(deposits', c, d, token) = DepositTotal(deposits, c, d, token)
      BY <1>3, <2>1
    <3> QED BY <1>3, <3>1 DEF Flow
  <2> QED BY <2>1 DEF Flow
<1>4. Flow(deposits', LastSealed, Now, out)
  <2>1. Now.cursor \in Nat /\ Now.cursor <= depositCount
    BY <1>2 DEF Now
  <2> QED BY <1>2, <1>3, <2>1 DEF RollupInv, Flows
<1>5. ASSUME NEW k \in DOMAIN sealed
      PROVE  Flow(deposits', Before(k), After(k), sealed[k].withdrawalsRoot.leaves)
  <2>1. Before(k).cursor \in Nat
    BY <1>2, BeforeFacts
  <2>2. After(k).cursor = sealed[k].cursor /\ sealed[k].cursor \in Nat
    BY <1>2, SealedFacts DEF After
  <2>3. sealed[k].cursor <= l2.nextDepositIndex
    BY <1>2 DEF SealedChain
  <2>4. After(k).cursor \in Nat /\ After(k).cursor <= depositCount
    BY <1>2, <2>2, <2>3
  <2>5. Flow(deposits, Before(k), After(k), sealed[k].withdrawalsRoot.leaves)
    BY DEF RollupInv, Flows
  <2> QED BY <1>3, <2>1, <2>4, <2>5
<1> QED BY <1>0, <1>1, <1>4, <1>5 DEF Flows, Flow

\* What a transfer out of the vault leaves behind.
Spent(token, amount) ==
    \A t \in Token : vault'[t] = vault[t] - (IF t = token THEN amount ELSE 0)

Recorded(kind, index) ==
    /\ \A p \in DOMAIN payouts : p \in DOMAIN payouts'
    /\ \E p \in DOMAIN payouts' : p.kind = kind /\ p.index = index

LEMMA PayOutFacts ==
    ASSUME TypeOK, NEW kind, NEW batch, NEW index, NEW to, NEW token \in Token, NEW amount \in Nat,
           PayOut(kind, batch, index, to, token, amount)
    PROVE  Spent(token, amount) /\ Recorded(kind, index)
<1> DEFINE p == [kind |-> kind, batch |-> batch, index |-> index,
                 to |-> to, token |-> token, amount |-> amount]
<1>1. vault \in [Token -> Nat] /\ vault' = [vault EXCEPT ![token] = @ - amount]
  BY DEF TypeOK, PayOut, InVault
<1>2. payouts' = AddPayout(p)
  BY DEF PayOut
<1>3. p.kind = kind /\ p.index = index
  OBVIOUS
<1> HIDE DEF p
<1>4. DOMAIN payouts' = DOMAIN payouts \cup {p}
  BY <1>2 DEF AddPayout
<1>5. ASSUME NEW t \in Token
      PROVE  vault'[t] = vault[t] - (IF t = token THEN amount ELSE 0)
  BY <1>1
<1> QED BY <1>3, <1>4, <1>5 DEF Spent, Recorded

\* A call that moves nothing.
LEMMA QuietKeeps ==
    ASSUME RollupInv, UNCHANGED l2Vars, SameContract, TypeOK'
    PROVE  RollupInv'
<1>0. UNCHANGED <<l2, out, sealed, halted, revived>> /\ UNCHANGED batches
  BY DEF l2Vars, SameContract
<1>1. depositCount' = depositCount /\ depositCount \in Nat /\ deposits' = deposits
  BY InvFacts DEF SameContract
<1>2. SequencerTypes' /\ PublishedTypes' /\ SealedChain'
  BY <1>0, <1>1, BridgeKept
<1>3. Flows'
  BY <1>0, <1>1, FlowsKept
<1>4. /\ ExitsRecorded' /\ FiniteClaims(batches, claimed)' /\ VaultIsOwed'
      /\ SomeExit => SomeExit'
  BY <1>0, ContractKept DEF RollupInv
<1> QED BY <1>0, <1>2, <1>3, <1>4 DEF RollupInv

LEMMA DepositKeeps ==
    ASSUME RollupInv, SomeDeposit, UNCHANGED l2Vars
    PROVE  RollupInv'
<1> PICK r \in DepositRequest : Deposit(r)
  BY DEF SomeDeposit
<1> PICK n : n = depositCount
  OBVIOUS
<1> DEFINE info == [from |-> r.from, token |-> r.token, amount |-> r.amount,
                    l2Recipient |-> r.l2Recipient, ledger |-> ledger]
<1>1. /\ r.amount > 0 /\ r.amount \in Nat /\ r.token \in Token
  BY BridgeInputs DEF Deposit
<1>2. /\ deposits' = [j \in DOMAIN deposits \cup {n} |-> IF j = n THEN info ELSE deposits[j]]
      /\ depositCount' = n + 1
      /\ vault' = [vault EXCEPT ![r.token] = @ + r.amount]
      /\ UNCHANGED <<batches, claimed, escaped, payouts>>
  BY DEF Deposit, StoreDeposit, exitVars, batchVars
<1>3. TypeOK'
  BY TypeStep DEF RollupInv, Next
<1>4. UNCHANGED <<l2, out, sealed, halted, revived>>
  BY DEF l2Vars
<1>5. info.token = r.token /\ info.amount = r.amount
  OBVIOUS
<1> HIDE DEF info
<1>6. /\ TypeOK /\ ExitsRecorded /\ PublishedTypes /\ n \in Nat /\ GoodDeposits(deposits)
      /\ PrevState.depositCursor \in Nat /\ PrevState.depositCursor <= n
  <2>1. PrevState.depositCursor \in Nat /\ PrevState.depositCursor <= l2.nextDepositIndex
    BY InvFacts DEF SealedChain
  <2>2. l2.nextDepositIndex \in Nat /\ n \in Nat /\ l2.nextDepositIndex <= n
    BY InvFacts
  <2>3. PrevState.depositCursor <= n
    BY <2>1, <2>2
  <2> QED BY <2>1, <2>2, <2>3, InvFacts
<1>7. DOMAIN deposits \subseteq 0..(n - 1) /\ n \notin DOMAIN deposits
  <2>1. DOMAIN deposits \subseteq 0..(n - 1)
    BY <1>6 DEF TypeOK, DepositTypes
  <2> QED BY <1>6, <2>1
<1>8. ASSUME NEW c \in Nat, NEW d \in Nat, NEW token
      PROVE  DepositTotal(deposits', c, d, token) = DepositTotal(deposits, c, d, token)
                + (IF c <= n /\ n < d /\ r.token = token THEN r.amount ELSE 0)
  BY <1>1, <1>2, <1>5, <1>6, <1>7, NewDeposit
<1>9. DOMAIN deposits' = DOMAIN deposits \cup {n}
  BY <1>2
<1>10. Flows'
  <2>1. ASSUME NEW c \in Nat, NEW d \in Nat, d <= n,
               \A i \in Nat : c <= i /\ i < d => i \in DOMAIN deposits'
        PROVE  /\ \A i \in Nat : c <= i /\ i < d => i \in DOMAIN deposits
               /\ \A token : DepositTotal(deposits', c, d, token) = DepositTotal(deposits, c, d, token)
    <3>1. ~(n < d)
      BY <1>6, <2>1
    <3>2. ASSUME NEW token
          PROVE  DepositTotal(deposits', c, d, token) = DepositTotal(deposits, c, d, token)
      <4>1. DepositTotal(deposits, c, d, token) \in Nat
        BY <1>6, DepositTotalType
      <4> QED BY <1>8, <3>1, <4>1
    <3>3. ASSUME NEW i \in Nat, c <= i, i < d PROVE i \in DOMAIN deposits
      <4>1. i # n /\ i \in DOMAIN deposits'
        BY <2>1, <3>1, <3>3
      <4> QED BY <1>9, <4>1
    <3> QED BY <3>2, <3>3
  <2> QED BY <1>2, <2>1, FlowsKept
<1>11. SequencerTypes' /\ PublishedTypes' /\ SealedChain' /\ PrevState' = PrevState
  <2>1. depositCount' \in Nat /\ depositCount <= depositCount'
    BY <1>2, <1>6
  <2> QED BY <1>2, <2>1, BridgeKept
<1>12. VaultIsOwed'
  <2> SUFFICES ASSUME ~revived, NEW token \in Token PROVE vault'[token] = Owed(token)'
    BY <1>4 DEF VaultIsOwed
  <2> PICK c : c = PrevState.depositCursor
    OBVIOUS
  <2>1. DepositTotal(deposits, c, n + 1, token) = DepositTotal(deposits, c, n, token)
    <3>1. DepositsIn(deposits, c, n + 1, token) = DepositsIn(deposits, c, n, token)
      BY <1>6, <1>7 DEF DepositsIn
    <3> QED BY <3>1, Zenon DEF DepositTotal
  <2>2. DepositTotal(deposits', c, n + 1, token) = DepositTotal(deposits, c, n, token)
           + (IF r.token = token THEN r.amount ELSE 0)
    BY <1>6, <1>8, <2>1
  <2>3. EscapableNow(token)' = EscapableNow(token)
    BY <1>2 DEF EscapableNow, LastBatch
  <2>4. /\ EscapableNow(token) \in Nat /\ ClaimTotal(batches, claimed, token) \in Nat
        /\ DepositTotal(deposits, c, n, token) \in Nat
    BY <1>6, OwedIs DEF RollupInv
  <2>5. Owed(token)' = EscapableNow(token) + ClaimTotal(batches, claimed, token)
                        + DepositTotal(deposits', c, n + 1, token)
    BY <1>2, <1>11, <2>3 DEF Owed
  <2>6. vault[token] = EscapableNow(token) + ClaimTotal(batches, claimed, token)
                        + DepositTotal(deposits, c, n, token)
    BY DEF RollupInv, VaultIsOwed, Owed
  <2>7. vault'[token] = vault[token] + (IF r.token = token THEN r.amount ELSE 0)
    BY <1>2, <1>6 DEF TypeOK
  <2> QED BY <1>1, <2>2, <2>4, <2>5, <2>6, <2>7
<1>13. ExitsRecorded'
  <2>1. ASSUME NEW i \in 0..(depositCount' - 1), i \notin DOMAIN deposits'
        PROVE  \E p \in DOMAIN payouts' : p.kind = "reclaim" /\ p.index = i
    <3>1. i \in 0..(n - 1) /\ i \notin DOMAIN deposits
      BY <1>2, <1>6, <1>9, <2>1
    <3> QED BY <1>2, <1>6, <3>1 DEF ExitsRecorded
  <2>2. ASSUME NEW i \in DOMAIN deposits' PROVE deposits'[i].amount > 0
    BY <1>1, <1>2, <1>5, <1>6 DEF ExitsRecorded
  <2> QED BY <1>2, <1>6, <2>1, <2>2 DEF ExitsRecorded
<1>14. FiniteClaims(batches, claimed)' /\ (SomeExit => SomeExit')
  BY <1>2 DEF RollupInv, SomeExit
<1> QED BY <1>3, <1>4, <1>10, <1>11, <1>12, <1>13, <1>14 DEF RollupInv

\* What the three calls that pay have in common.
LEMMA PaymentKeeps ==
    ASSUME RollupInv, UNCHANGED l2Vars, TypeOK',
           UNCHANGED <<batches, depositCount>>,
           Flows', FiniteClaims(batches, claimed)',
           \A p \in DOMAIN payouts : p \in DOMAIN payouts',
           \A b, w : <<b, w>> \in claimed' => b \in DOMAIN batches,
           \A n, a, t : <<n, a, t>> \in escaped' => n \in DOMAIN batches,
           DOMAIN deposits' \subseteq DOMAIN deposits,
           \A i \in DOMAIN deposits' : deposits'[i] = deposits[i],
           \A i \in DOMAIN deposits :
              i \notin DOMAIN deposits' => \E p \in DOMAIN payouts' : p.kind = "reclaim" /\ p.index = i,
           escaped' # escaped => \E p \in DOMAIN payouts' : p.kind = "escape",
           \A token \in Token : \E paid : /\ vault'[token] = vault[token] - paid
                                         /\ Owed(token)' = Owed(token) - paid
    PROVE  RollupInv'
<1>0. UNCHANGED <<l2, out, sealed, halted, revived>>
  BY DEF l2Vars
<1>1. TypeOK /\ ExitsRecorded /\ PublishedTypes /\ depositCount \in Nat
  BY InvFacts
<1>2. SequencerTypes' /\ PublishedTypes' /\ SealedChain' /\ PrevState' = PrevState
  BY <1>1, BridgeKept
<1>3. ExitsRecorded'
  <2>1. ASSUME NEW i \in 0..(depositCount' - 1), i \notin DOMAIN deposits'
        PROVE  \E p \in DOMAIN payouts' : p.kind = "reclaim" /\ p.index = i
    <3>1. CASE i \in DOMAIN deposits
      BY <2>1, <3>1
    <3>2. CASE i \notin DOMAIN deposits
      <4>1. PICK p \in DOMAIN payouts : p.kind = "reclaim" /\ p.index = i
        BY <1>1, <2>1, <3>2 DEF ExitsRecorded
      <4> QED BY <4>1
    <3> QED BY <3>1, <3>2
  <2>2. ASSUME NEW i \in DOMAIN deposits' PROVE deposits'[i].amount > 0
    BY <1>1 DEF ExitsRecorded
  <2>3. escaped' # {} => \E p \in DOMAIN payouts' : p.kind = "escape"
    <3>1. CASE escaped' # escaped
      BY <3>1
    <3>2. CASE escaped' = escaped
      BY <1>1, <3>2 DEF ExitsRecorded
    <3> QED BY <3>1, <3>2
  <2> QED BY <2>1, <2>2, <2>3 DEF ExitsRecorded
<1>4. VaultIsOwed'
  <2> SUFFICES ASSUME ~revived, NEW token \in Token PROVE vault'[token] = Owed(token)'
    BY <1>0 DEF VaultIsOwed
  <2>1. vault[token] = Owed(token)
    BY DEF RollupInv, VaultIsOwed
  <2> QED BY <2>1
<1>5. SomeExit => SomeExit'
  BY DEF SomeExit
<1> QED BY <1>0, <1>2, <1>3, <1>4, <1>5 DEF RollupInv

LEMMA ClaimKeeps ==
    ASSUME RollupInv, ClaimWithdrawal, UNCHANGED l2Vars
    PROVE  RollupInv'
<1> PICK b \in DOMAIN batches : \E w \in DOMAIN batches[b].withdrawalsRoot.leaves :
        LET leaf == batches[b].withdrawalsRoot.leaves[w] IN
        Withdraw(b, w, leaf.recipient, leaf.token, leaf.amount)
  BY DEF ClaimWithdrawal
<1> PICK w \in DOMAIN batches[b].withdrawalsRoot.leaves :
        LET leaf == batches[b].withdrawalsRoot.leaves[w] IN
        Withdraw(b, w, leaf.recipient, leaf.token, leaf.amount)
  OBVIOUS
<1> PICK leaf : leaf = batches[b].withdrawalsRoot.leaves[w]
  OBVIOUS
<1>1. Withdraw(b, w, leaf.recipient, leaf.token, leaf.amount)
  OBVIOUS
<1>2. TypeOK /\ PublishedTypes /\ ExitsRecorded /\ GoodOutbox(batches) /\ FiniteClaims(batches, claimed)
  BY DEF RollupInv, PublishedTypes
<1>3. leaf \in F!Withdrawals /\ w \in Nat
  <2>1. batches[b].withdrawalsRoot.leaves \in Seq(F!Withdrawals)
    BY <1>2 DEF GoodOutbox
  <2> QED BY <2>1
<1>4. leaf.recipient \in Address /\ leaf.token \in Token /\ leaf.amount \in Nat
  BY <1>3, WithdrawalFacts
<1>5. TypeOK'
  BY <1>1, <1>2, <1>3, <1>4, WithdrawTypes
<1>6. /\ <<b, w>> \notin claimed /\ claimed' = claimed \cup {<<b, w>>}
      /\ UNCHANGED <<batches, deposits, depositCount, escaped>>
  BY <1>1 DEF Withdraw, batchVars, depositVars
<1>16. PayOut("withdraw", b, w, leaf.recipient, leaf.token, leaf.amount)
  BY DEF Withdraw
<1>7. Spent(leaf.token, leaf.amount) /\ Recorded("withdraw", w)
  BY <1>2, <1>4, <1>16, PayOutFacts
<1>8. /\ FiniteClaims(batches, claimed)'
      /\ \A token : ClaimTotal(batches, claimed, token)' = ClaimTotal(batches, claimed, token)
            - (IF leaf.token = token THEN leaf.amount ELSE 0)
  <2>1. IsLeaf(batches, b, w)
    BY DEF IsLeaf
  <2>2. /\ FiniteClaims(batches, claimed \cup {<<b, w>>})
        /\ \A token : ClaimTotal(batches, claimed \cup {<<b, w>>}, token) = ClaimTotal(batches, claimed, token)
            - (IF batches[b].withdrawalsRoot.leaves[w].token = token
               THEN batches[b].withdrawalsRoot.leaves[w].amount ELSE 0)
    BY <1>2, <1>6, <2>1, OneClaimed
  <2>3. /\ FiniteClaims(batches, claimed')
        /\ \A token : ClaimTotal(batches, claimed', token) = ClaimTotal(batches, claimed, token)
            - (IF leaf.token = token THEN leaf.amount ELSE 0)
    BY <1>6, <2>2
  <2> QED BY <1>6, <2>3
<1>9. ASSUME NEW token \in Token PROVE \E paid : vault'[token] = vault[token] - paid /\ Owed(token)' = Owed(token) - paid
  <2> PICK d : d = DepositTotal(deposits, PrevState.depositCursor, depositCount, token)
    OBVIOUS
  <2>1. EscapableNow(token)' = EscapableNow(token)
    BY <1>6 DEF EscapableNow, LastBatch
  <2>2. DepositTotal(deposits, PrevState.depositCursor, depositCount, token)' = d
    BY <1>6 DEF PrevState, LastBatch
  <2>3. /\ EscapableNow(token) \in Nat /\ ClaimTotal(batches, claimed, token) \in Nat /\ d \in Nat
    BY <1>2, OwedIs
  <2>5. Owed(token)' = EscapableNow(token)
           + (ClaimTotal(batches, claimed, token) - (IF leaf.token = token THEN leaf.amount ELSE 0)) + d
    BY <1>8, <2>1, <2>2 DEF Owed
  <2>6. Owed(token) = EscapableNow(token) + ClaimTotal(batches, claimed, token) + d
    BY DEF Owed
  <2> DEFINE paid == IF token = leaf.token THEN leaf.amount ELSE 0
  <2>9. vault'[token] = vault[token] - paid
    BY <1>7 DEF Spent
  <2>10. Owed(token)' = Owed(token) - paid
    BY <1>4, <2>3, <2>5, <2>6
  <2> QED BY <2>9, <2>10
<1>10. Flows'
  BY <1>6, FlowsKept
<1>11. \A x, y : <<x, y>> \in claimed' => x \in DOMAIN batches
  BY <1>2, <1>6 DEF ExitsRecorded
<1>12. \A n, a, t : <<n, a, t>> \in escaped' => n \in DOMAIN batches
  BY <1>2, <1>6 DEF ExitsRecorded
<1>17. \A p \in DOMAIN payouts : p \in DOMAIN payouts'
  BY <1>7 DEF Recorded
<1> QED BY <1>5, <1>6, <1>8, <1>9, <1>10, <1>11, <1>12, <1>17, PaymentKeeps

LEMMA EscapeKeeps ==
    ASSUME RollupInv, EscapeSome, UNCHANGED l2Vars
    PROVE  RollupInv'
<1> PICK leaf \in LastBatch.stateRoot : Escape(leaf.account, leaf.token, leaf.balance, leaf.nonce)
  BY DEF EscapeSome
<1> PICK n : n = Len(batches)
  OBVIOUS
<1> PICK root : root = LastBatch.stateRoot
  OBVIOUS
<1>1. batches # <<>>
  BY DEF EscapeSome
<1>2. TypeOK /\ PublishedTypes /\ ExitsRecorded /\ FiniteClaims(batches, claimed)
  BY DEF RollupInv
<1>3. n \in DOMAIN batches /\ GoodRoot(root) /\ leaf \in root
  BY <1>1, <1>2, PrevFacts
<1>4. leaf.account \in Address /\ leaf.token \in Token /\ leaf.balance \in Nat
  BY <1>3, LeafFacts DEF GoodRoot
<1>5. TypeOK'
  BY <1>2, <1>4, EscapeTypes
<1>6. /\ <<n, leaf.account, leaf.token>> \notin escaped
      /\ escaped' = escaped \cup {<<n, leaf.account, leaf.token>>}
      /\ UNCHANGED <<batches, deposits, depositCount, claimed>>
  BY DEF Escape, MayEscape, batchVars, depositVars
<1>16. PayOut("escape", n, 0, leaf.account, leaf.token, leaf.balance)
  BY DEF Escape
<1>7. Spent(leaf.token, leaf.balance) /\ Recorded("escape", 0)
  BY <1>2, <1>4, <1>16, PayOutFacts
<1>8. ASSUME NEW token \in Token
      PROVE  EscapableNow(token)' = EscapableNow(token) - (IF token = leaf.token THEN leaf.balance ELSE 0)
  <2>1. EscapableNow(token) = EscapableOf(root, n, escaped, token)
    BY <1>1 DEF EscapableNow
  <2>2. EscapableNow(token)' = EscapableOf(root, n, escaped', token)
    BY <1>1, <1>6 DEF EscapableNow, LastBatch
  <2>3. EscapableOf(root, n, escaped', token)
           = EscapableOf(root, n, escaped, token) - (IF token = leaf.token THEN leaf.balance ELSE 0)
    BY <1>3, <1>6, OneEscapes
  <2> QED BY <2>1, <2>2, <2>3
<1>9. ASSUME NEW token \in Token PROVE \E paid : vault'[token] = vault[token] - paid /\ Owed(token)' = Owed(token) - paid
  <2> PICK d : d = DepositTotal(deposits, PrevState.depositCursor, depositCount, token)
    OBVIOUS
  <2> PICK c : c = ClaimTotal(batches, claimed, token)
    OBVIOUS
  <2>1. ClaimTotal(batches, claimed, token)' = c
    BY <1>6
  <2>2. DepositTotal(deposits, PrevState.depositCursor, depositCount, token)' = d
    BY <1>6 DEF PrevState, LastBatch
  <2>3. /\ EscapableNow(token) \in Nat /\ c \in Nat /\ d \in Nat
    BY <1>2, OwedIs
  <2>5. Owed(token)' = (EscapableNow(token) - (IF token = leaf.token THEN leaf.balance ELSE 0)) + c + d
    BY <1>8, <2>1, <2>2 DEF Owed
  <2>6. Owed(token) = EscapableNow(token) + c + d
    BY DEF Owed
  <2> DEFINE paid == IF token = leaf.token THEN leaf.balance ELSE 0
  <2>9. vault'[token] = vault[token] - paid
    BY <1>7 DEF Spent
  <2>10. Owed(token)' = Owed(token) - paid
    BY <1>4, <2>3, <2>5, <2>6
  <2> QED BY <2>9, <2>10
<1>10. Flows'
  BY <1>6, FlowsKept
<1>11. \A x, y : <<x, y>> \in claimed' => x \in DOMAIN batches
  BY <1>2, <1>6 DEF ExitsRecorded
<1>12. \A m, a, t : <<m, a, t>> \in escaped' => m \in DOMAIN batches
  BY <1>2, <1>3, <1>6 DEF ExitsRecorded
<1>13. FiniteClaims(batches, claimed)'
  BY <1>2, <1>6
<1>17. /\ \A p \in DOMAIN payouts : p \in DOMAIN payouts'
       /\ \E p \in DOMAIN payouts' : p.kind = "escape"
  BY <1>7 DEF Recorded
<1> QED BY <1>5, <1>6, <1>9, <1>10, <1>11, <1>12, <1>13, <1>17, PaymentKeeps

LEMMA ReclaimKeeps ==
    ASSUME RollupInv, SomeReclaim, UNCHANGED l2Vars
    PROVE  RollupInv'
<1> PICK index \in 0..MaxDeposits : ReclaimDeposit(index)
  BY DEF SomeReclaim
<1> PICK info : info = deposits[index]
  OBVIOUS
<1>1. /\ index \in DOMAIN deposits
      /\ batches # <<>> => index >= LastBatch.depositCursor
      /\ deposits' = [i \in DOMAIN deposits \ {index} |-> deposits[i]]
      /\ UNCHANGED <<batches, depositCount, claimed, escaped>>
  BY DEF ReclaimDeposit, MayReclaim, RemoveDeposit, batchVars
<1>2. /\ TypeOK /\ PublishedTypes /\ ExitsRecorded /\ FiniteClaims(batches, claimed)
      /\ GoodDeposits(deposits) /\ depositCount \in Nat
  BY InvFacts DEF RollupInv
<1>3. TypeOK'
  BY TypeStep DEF RollupInv, Next
<1>4. info.token \in Token /\ info.amount \in Nat
  BY <1>1, <1>2 DEF TypeOK, DepositTypes, DepositInfo
<1>16. PayOut("reclaim", 0, index, info.from, info.token, info.amount)
  BY DEF ReclaimDeposit
<1>5. Spent(info.token, info.amount) /\ Recorded("reclaim", index)
  BY <1>2, <1>4, <1>16, PayOutFacts
<1>6. /\ DOMAIN deposits' = DOMAIN deposits \ {index}
      /\ \A i \in DOMAIN deposits' : deposits'[i] = deposits[i]
  BY <1>1
<1>7. ASSUME NEW c, NEW d, NEW token
      PROVE  DepositTotal(deposits, c, d, token) = DepositTotal(deposits', c, d, token)
                + (IF c <= index /\ index < d /\ info.token = token THEN info.amount ELSE 0)
  BY <1>1, <1>2, OneDeposit
<1>8. GoodDeposits(deposits')
  BY <1>1, <1>2, OneDeposit
<1>9. index \in Nat /\ index < depositCount
  <2>1. DOMAIN deposits \subseteq 0..(depositCount - 1)
    BY <1>2 DEF TypeOK, DepositTypes
  <2> QED BY <1>1, <1>2, <2>1
<1>10. PrevState.depositCursor \in Nat /\ PrevState.depositCursor <= index
  <2>1. PrevState.depositCursor \in Nat
    BY InvFacts
  <2>2. CASE batches = <<>>
    BY <1>9, <2>2 DEF PrevState
  <2>3. CASE batches # <<>>
    BY <1>1, <1>9, <2>1, <2>3 DEF PrevState
  <2> QED BY <2>1, <2>2, <2>3
<1>11. Flows'
  <2>1. ASSUME NEW c \in Nat, NEW d \in Nat, d <= depositCount,
               \A i \in Nat : c <= i /\ i < d => i \in DOMAIN deposits'
        PROVE  /\ \A i \in Nat : c <= i /\ i < d => i \in DOMAIN deposits
               /\ \A token : DepositTotal(deposits', c, d, token) = DepositTotal(deposits, c, d, token)
    <3>1. ~(c <= index /\ index < d)
      BY <1>6, <1>9, <2>1
    <3>2. ASSUME NEW token
          PROVE  DepositTotal(deposits', c, d, token) = DepositTotal(deposits, c, d, token)
      <4>1. DepositTotal(deposits', c, d, token) \in Nat
        BY <1>8, DepositTotalType
      <4> QED BY <1>7, <3>1, <4>1
    <3>3. ASSUME NEW i \in Nat, c <= i, i < d PROVE i \in DOMAIN deposits
      <4>1. i \in DOMAIN deposits'
        BY <2>1, <3>3
      <4> QED BY <1>6, <4>1
    <3> QED BY <3>2, <3>3
  <2> QED BY <1>1, <2>1, FlowsKept
<1>12. ASSUME NEW token \in Token PROVE \E paid : vault'[token] = vault[token] - paid /\ Owed(token)' = Owed(token) - paid
  <2> PICK c : c = ClaimTotal(batches, claimed, token)
    OBVIOUS
  <2> PICK from : from = PrevState.depositCursor
    OBVIOUS
  <2> PICK to : to = depositCount
    OBVIOUS
  <2>1. ClaimTotal(batches, claimed, token)' = c /\ PrevState'.depositCursor = from /\ depositCount' = to
    BY <1>1 DEF PrevState, LastBatch
  <2>2. EscapableNow(token)' = EscapableNow(token)
    BY <1>1 DEF EscapableNow, LastBatch
  <2>3. /\ EscapableNow(token) \in Nat /\ c \in Nat
    BY <1>2, OwedIs
  <2>5. Owed(token)' = EscapableNow(token) + c + DepositTotal(deposits', from, to, token)
    BY <2>1, <2>2 DEF Owed
  <2>6. Owed(token) = EscapableNow(token) + c + DepositTotal(deposits, from, to, token)
    BY DEF Owed
  <2>7. DepositTotal(deposits, from, to, token) = DepositTotal(deposits', from, to, token)
          + (IF info.token = token THEN info.amount ELSE 0)
    <3>1. from <= index /\ index < to
      BY <1>9, <1>10
    <3> QED BY <1>7, <3>1
  <2>8. DepositTotal(deposits', from, to, token) \in Nat
    BY <1>8, DepositTotalType
  <2> DEFINE paid == IF token = info.token THEN info.amount ELSE 0
  <2>9. vault'[token] = vault[token] - paid
    BY <1>5 DEF Spent
  <2>10. Owed(token)' = Owed(token) - paid
    BY <1>4, <2>3, <2>5, <2>6, <2>7, <2>8
  <2> QED BY <2>9, <2>10
<1>13. /\ \A x, y : <<x, y>> \in claimed' => x \in DOMAIN batches
       /\ \A m, a, t : <<m, a, t>> \in escaped' => m \in DOMAIN batches
  BY <1>1, <1>2 DEF ExitsRecorded
<1>14. FiniteClaims(batches, claimed)'
  BY <1>1, <1>2
<1>15. \A i \in DOMAIN deposits : i \notin DOMAIN deposits'
          => \E p \in DOMAIN payouts' : p.kind = "reclaim" /\ p.index = i
  BY <1>5, <1>6 DEF Recorded
<1>17. \A p \in DOMAIN payouts : p \in DOMAIN payouts'
  BY <1>5 DEF Recorded
<1> QED BY <1>1, <1>3, <1>6, <1>17, <1>11, <1>12, <1>13, <1>14, <1>15, PaymentKeeps

-----------------------------------------------------------------------------
(* A batch is committed *)

\* What the contract writes for a sealed batch.
CommittedInfo(batch) ==
    [stateRoot |-> batch.newRoot, withdrawalsRoot |-> batch.withdrawalsRoot,
     depositCursor |-> batch.cursor, commitLedger |-> ledger]

\* The oldest sealed batch becomes the last of the contract: the chain is the
\* same, one place further.
LEMMA CommitShifts ==
    ASSUME RollupInv, CommitSealed, NEW n, n = Len(sealed), NEW first, first = sealed[1]
    PROVE  /\ n \in Nat /\ n >= 1 /\ 1 \in DOMAIN sealed /\ DOMAIN sealed = 1..n
           /\ sealed' \in Seq(SealedBatch) /\ Len(sealed') = n - 1 /\ DOMAIN sealed' = 1..(n - 1)
           /\ \A k \in 1..(n - 1) : sealed'[k] = sealed[k + 1]
           /\ batches' = Append(batches, CommittedInfo(first))
           /\ Len(batches') = Len(batches) + 1 /\ DOMAIN batches' = 1..Len(batches')
           /\ batches'[Len(batches) + 1] = CommittedInfo(first)
           /\ \A b \in DOMAIN batches : batches'[b] = batches[b]
           /\ PrevState' = [stateRoot |-> first.newRoot, depositCursor |-> first.cursor]
           /\ TypeOK'
<1>0. /\ CommitBatch(sequencer, Len(batches) + 1, first.prevRoot, first.newRoot,
                     first.withdrawalsRoot, 1, first.cursor)
      /\ sealed # <<>> /\ sealed' = Tail(sealed)
  BY DEF CommitSealed
<1>1. TypeOK /\ SequencerTypes /\ sealed \in Seq(SealedBatch) /\ batches \in Seq(BatchInfo)
  BY InvFacts DEF SequencerTypes, TypeOK
<1>2. n \in Nat /\ n >= 1 /\ 1 \in DOMAIN sealed /\ DOMAIN sealed = 1..n
  BY <1>0, <1>1
<1>3. /\ sealed' \in Seq(SealedBatch) /\ Len(sealed') = n - 1 /\ DOMAIN sealed' = 1..(n - 1)
      /\ \A k \in 1..(n - 1) : sealed'[k] = sealed[k + 1]
  BY <1>0, <1>1, <1>2
<1>4. batches' = Append(batches, CommittedInfo(first))
  BY <1>0 DEF CommitBatch, StoreBatch, CommittedInfo
<1>5. /\ Len(batches') = Len(batches) + 1 /\ DOMAIN batches' = 1..Len(batches')
      /\ batches'[Len(batches) + 1] = CommittedInfo(first)
      /\ \A b \in DOMAIN batches : batches'[b] = batches[b]
  BY <1>1, <1>4
<1>6. PrevState' = [stateRoot |-> first.newRoot, depositCursor |-> first.cursor]
  <2>1. batches' # <<>> /\ LastBatch' = CommittedInfo(first)
    BY <1>1, <1>5 DEF LastBatch
  <2>2. /\ CommittedInfo(first).stateRoot = first.newRoot
        /\ CommittedInfo(first).depositCursor = first.cursor
    BY DEF CommittedInfo
  <2> QED BY <2>1, <2>2 DEF PrevState
<1>7. TypeOK'
  <2>1. first \in SealedBatch /\ first.cursor \in Nat
    BY <1>1, <1>2, SealedFacts
  <2>2. F!StateLeaves \subseteq StateLeaf /\ F!Withdrawals \subseteq Withdrawal
    BY WithdrawalFacts DEF F!StateLeaves, StateLeaf
  <2>3. first.newRoot \in SUBSET StateLeaf
    BY <2>1, <2>2 DEF SealedBatch
  <2>4. first.withdrawalsRoot \in [batch : Nat, leaves : Seq(Withdrawal)]
    BY <2>1, <2>2 DEF SealedBatch
  <2> QED BY <1>0, <1>1, <2>1, <2>3, <2>4, CommitTypes
<1> QED BY <1>2, <1>3, <1>4, <1>5, <1>6, <1>7

LEMMA CommitChain ==
    ASSUME RollupInv, CommitSealed, NEW n, n = Len(sealed)
    PROVE  /\ \A k \in 1..n : Before(k)' = Before(k + 1)
           /\ \A k \in 1..(n - 1) : After(k)' = After(k + 1)
           /\ LastSealed' = LastSealed /\ Now' = Now
<1> PICK first : first = sealed[1]
  OBVIOUS
<1>1. /\ n \in Nat /\ n >= 1 /\ DOMAIN sealed = 1..n
      /\ sealed' \in Seq(SealedBatch) /\ Len(sealed') = n - 1 /\ DOMAIN sealed' = 1..(n - 1)
      /\ \A k \in 1..(n - 1) : sealed'[k] = sealed[k + 1]
      /\ PrevState' = [stateRoot |-> first.newRoot, depositCursor |-> first.cursor]
  BY CommitShifts
<1>2. ASSUME NEW k \in 1..n PROVE Before(k)' = Before(k + 1)
  <2>1. k + 1 # 1 /\ (k + 1) - 1 = k
    BY <1>1
  <2>2. Before(k + 1) = [root |-> sealed[k].newRoot, cursor |-> sealed[k].cursor]
    BY <2>1 DEF Before
  <2>3. CASE k = 1
    BY <1>1, <2>2, <2>3 DEF Before
  <2>4. CASE k # 1
    <3>1. k - 1 \in 1..(n - 1) /\ (k - 1) + 1 = k
      BY <1>1, <2>4
    <3>2. sealed'[k - 1] = sealed[k]
      BY <1>1, <3>1
    <3> QED BY <2>2, <2>4, <3>2 DEF Before
  <2> QED BY <2>3, <2>4
<1>3. ASSUME NEW k \in 1..(n - 1) PROVE After(k)' = After(k + 1)
  BY <1>1 DEF After
<1>4. LastSealed = [root |-> sealed[n].newRoot, cursor |-> sealed[n].cursor]
  <2>1. sealed # <<>>
    BY <1>1
  <2> QED BY <2>1 DEF LastSealed
<1>5. LastSealed' = LastSealed
  <2>1. CASE n = 1
    <3>1. sealed' = <<>>
      BY <1>1, <2>1
    <3> QED BY <1>1, <1>4, <2>1, <3>1 DEF LastSealed
  <2>2. CASE n # 1
    <3>1. n - 1 \in 1..(n - 1) /\ (n - 1) + 1 = n /\ sealed' # <<>>
      BY <1>1, <2>2
    <3>2. sealed'[n - 1] = sealed[n] /\ Len(sealed') = n - 1
      BY <1>1, <3>1
    <3> QED BY <1>4, <3>1, <3>2 DEF LastSealed
  <2> QED BY <2>1, <2>2
<1>6. Now' = Now
  BY DEF Now, CommitSealed
<1> QED BY <1>2, <1>3, <1>5, <1>6

\* The deposits the batch credits were all there, when it takes back no exit.
LEMMA CreditsAreWhole ==
    ASSUME RollupInv, NEW from \in Nat, NEW to \in Nat, to <= depositCount,
           ReclaimedBelow(to) = {}, NEW i \in Nat, from <= i, i < to
    PROVE  i \in DOMAIN deposits
<1> SUFFICES ASSUME i \notin DOMAIN deposits PROVE FALSE
  OBVIOUS
<1>1. ExitsRecorded /\ depositCount \in Nat
  BY InvFacts
<1>2. i \in 0..(depositCount - 1)
  BY <1>1
<1>3. PICK p \in DOMAIN payouts : p.kind = "reclaim" /\ p.index = i
  BY <1>1, <1>2 DEF ExitsRecorded
<1>4. p \in ReclaimedBelow(to)
  BY <1>3 DEF ReclaimedBelow
<1> QED BY <1>4

\* What the vault owes before and after the batch, in parts.
LEMMA CommitParts ==
    ASSUME RollupInv, CommitSealed, ~revived', NEW token \in Token
    PROVE  \E new, old, leaving, claims, credited, rest \in Nat :
              /\ new + leaving = old + credited
              /\ Owed(token)' = new + (claims + leaving) + rest
              /\ Owed(token) = old + claims + (credited + rest)
<1> PICK n : n = Len(sealed)
  OBVIOUS
<1> PICK m : m = Len(batches)
  OBVIOUS
<1> PICK first : first = sealed[1]
  OBVIOUS
<1> PICK prev : prev = PrevState
  OBVIOUS
<1> PICK leaves : leaves = first.withdrawalsRoot.leaves
  OBVIOUS
<1> PICK size : size = depositCount
  OBVIOUS
<1>0. /\ Escaped(m) = {} /\ ReclaimedBelow(first.cursor) = {}
      /\ first.cursor <= size /\ prev.depositCursor <= first.cursor
      /\ UNCHANGED <<deposits, depositCount, claimed, escaped>>
  BY DEF CommitSealed, CommitBatch, MayCommit, depositVars, exitVars
<1>1. /\ TypeOK /\ SequencerTypes /\ PublishedTypes /\ ExitsRecorded /\ GoodDeposits(deposits)
      /\ prev.depositCursor \in Nat /\ GoodRoot(prev.stateRoot) /\ size \in Nat
  BY InvFacts
<1>2. /\ 1 \in DOMAIN sealed /\ DOMAIN sealed = 1..n
      /\ Len(batches') = m + 1 /\ DOMAIN batches' = 1..Len(batches')
      /\ batches'[m + 1] = CommittedInfo(first)
      /\ \A b \in DOMAIN batches : batches'[b] = batches[b]
      /\ PrevState' = [stateRoot |-> first.newRoot, depositCursor |-> first.cursor]
  BY CommitShifts
<1>3. first.cursor \in Nat /\ GoodRoot(first.newRoot) /\ leaves \in Seq(F!Withdrawals)
  BY <1>1, <1>2, SealedFacts
<1>4. m \in Nat /\ DOMAIN batches = 1..m
  BY <1>1 DEF TypeOK
<1>5. EscapableNow(token) = RootTotal(prev.stateRoot, token)
  <2>1. CASE batches = <<>>
    BY <2>1, EmptyRoot DEF EscapableNow, PrevState, ZeroRoot
  <2>2. CASE batches # <<>>
    <3>1. ASSUME NEW leaf \in LastBatch.stateRoot PROVE <<m, leaf.account, token>> \notin escaped
      <4>1. <<m, leaf.account, token>> \in escaped => <<m, leaf.account, token>> \in Escaped(m)
        BY DEF Escaped
      <4> QED BY <1>0, <4>1
    <3>2. EscapableOf(LastBatch.stateRoot, m, escaped, token) = RootTotal(LastBatch.stateRoot, token)
      BY <3>1, NobodyEscaped
    <3>3. prev.stateRoot = LastBatch.stateRoot
      BY <1>1, <2>2, PrevFacts
    <3> QED BY <2>2, <3>2, <3>3 DEF EscapableNow
  <2> QED BY <2>1, <2>2
<1>6. EscapableNow(token)' = RootTotal(first.newRoot, token)
  <2>1. batches' # <<>> /\ LastBatch'.stateRoot = first.newRoot
    BY <1>2, <1>4 DEF LastBatch, CommittedInfo
  <2>2. ASSUME NEW leaf \in first.newRoot PROVE <<m + 1, leaf.account, token>> \notin escaped
    <3>1. m + 1 \notin DOMAIN batches
      BY <1>4
    <3> QED BY <1>1, <3>1 DEF ExitsRecorded
  <2>3. EscapableOf(first.newRoot, m + 1, escaped, token) = RootTotal(first.newRoot, token)
    BY <2>2, NobodyEscaped
  <2> QED BY <1>0, <1>2, <2>1, <2>3 DEF EscapableNow
<1>7. ClaimTotal(batches, claimed, token)' = ClaimTotal(batches, claimed, token) + AmountOf(leaves, token)
  <2> PICK info : info = CommittedInfo(first)
    OBVIOUS
  <2>1. info.withdrawalsRoot.leaves = leaves
    BY DEF CommittedInfo
  <2>2. /\ GoodOutbox(batches) /\ FiniteClaims(batches, claimed)
        /\ \A b, w : <<b, w>> \in claimed => b \in DOMAIN batches
    BY <1>1 DEF RollupInv, PublishedTypes, ExitsRecorded
  <2>3. /\ info.withdrawalsRoot.leaves \in Seq(F!Withdrawals)
        /\ DOMAIN batches' = 1..Len(batches') /\ Len(batches') = Len(batches) + 1
        /\ \A b \in DOMAIN batches : batches'[b] = batches[b]
        /\ batches'[Len(batches) + 1] = info
    BY <1>2, <1>3, <2>1
  <2>4. \A t : ClaimTotal(batches', claimed, t) =
               ClaimTotal(batches, claimed, t) + AmountOf(info.withdrawalsRoot.leaves, t)
    BY <2>2, <2>3, BatchPublished
  <2> QED BY <1>0, <2>1, <2>4
<1>8. RootTotal(first.newRoot, token) + AmountOf(leaves, token)
        = RootTotal(prev.stateRoot, token) + DepositTotal(deposits, prev.depositCursor, first.cursor, token)
  <2>1. Flow(deposits, Before(1), After(1), leaves)
    BY <1>2 DEF RollupInv, Flows
  <2>2. /\ Before(1).root = prev.stateRoot /\ Before(1).cursor = prev.depositCursor
        /\ After(1).root = first.newRoot /\ After(1).cursor = first.cursor
    BY DEF Before, After
  <2>3. \A i \in Nat : prev.depositCursor <= i /\ i < first.cursor => i \in DOMAIN deposits
    BY <1>0, <1>1, <1>3, CreditsAreWhole
  <2> QED BY <2>1, <2>2, <2>3 DEF Flow
<1>9. DepositTotal(deposits, prev.depositCursor, size, token)
        = DepositTotal(deposits, prev.depositCursor, first.cursor, token)
            + DepositTotal(deposits, first.cursor, size, token)
  BY <1>0, <1>1, <1>3, DepositsSplit
<1>10. Owed(token)' = RootTotal(first.newRoot, token)
          + (ClaimTotal(batches, claimed, token) + AmountOf(leaves, token))
          + DepositTotal(deposits, first.cursor, size, token)
  BY <1>0, <1>2, <1>6, <1>7 DEF Owed
<1>11. Owed(token) = RootTotal(prev.stateRoot, token) + ClaimTotal(batches, claimed, token)
          + DepositTotal(deposits, prev.depositCursor, size, token)
  BY <1>5 DEF Owed
<1>12. /\ RootTotal(first.newRoot, token) \in Nat /\ RootTotal(prev.stateRoot, token) \in Nat
       /\ AmountOf(leaves, token) \in Nat /\ ClaimTotal(batches, claimed, token) \in Nat
       /\ DepositTotal(deposits, prev.depositCursor, first.cursor, token) \in Nat
       /\ DepositTotal(deposits, first.cursor, size, token) \in Nat
  BY <1>1, <1>3, RootTotalType, AmountOfIs, DepositTotalType, OwedIs DEF RollupInv
<1>13. Owed(token) = RootTotal(prev.stateRoot, token) + ClaimTotal(batches, claimed, token)
          + (DepositTotal(deposits, prev.depositCursor, first.cursor, token)
              + DepositTotal(deposits, first.cursor, size, token))
  BY <1>9, <1>11
<1> USE <1>12
<1> WITNESS RootTotal(first.newRoot, token) \in Nat, RootTotal(prev.stateRoot, token) \in Nat,
            AmountOf(leaves, token) \in Nat, ClaimTotal(batches, claimed, token) \in Nat,
            DepositTotal(deposits, prev.depositCursor, first.cursor, token) \in Nat,
            DepositTotal(deposits, first.cursor, size, token) \in Nat
<1> QED BY <1>8, <1>10, <1>13, Zenon

\* The vault owes after the batch what it owed before.
LEMMA CommitOwes ==
    ASSUME RollupInv, CommitSealed, ~revived', NEW token \in Token
    PROVE  Owed(token)' = Owed(token)
<1> PICK new, old, leaving, claims, credited, rest \in Nat :
       /\ new + leaving = old + credited
       /\ Owed(token)' = new + (claims + leaving) + rest
       /\ Owed(token) = old + claims + (credited + rest)
  BY CommitParts
<1> QED OBVIOUS

LEMMA CommitKeeps ==
    ASSUME RollupInv, CommitSealed
    PROVE  RollupInv'
<1> PICK n : n = Len(sealed)
  OBVIOUS
<1> PICK m : m = Len(batches)
  OBVIOUS
<1> PICK first : first = sealed[1]
  OBVIOUS
<1>0. /\ UNCHANGED <<l2, out, halted, deposits, depositCount, claimed, escaped, vault, payouts>>
      /\ revived' = (revived \/ Escaped(m) # {} \/ ReclaimedBelow(first.cursor) # {})
      /\ ~halted
      /\ first.cursor <= depositCount /\ PrevState.depositCursor <= first.cursor
  BY DEF CommitSealed, CommitBatch, MayCommit, depositVars, exitVars
<1>1. /\ TypeOK /\ SequencerTypes /\ PublishedTypes /\ SealedChain /\ ExitsRecorded
      /\ l2.nextDepositIndex \in Nat /\ depositCount \in Nat
  BY InvFacts
<1>2. /\ n \in Nat /\ n >= 1 /\ 1 \in DOMAIN sealed /\ DOMAIN sealed = 1..n
      /\ sealed' \in Seq(SealedBatch) /\ DOMAIN sealed' = 1..(n - 1)
      /\ \A k \in 1..(n - 1) : sealed'[k] = sealed[k + 1]
      /\ Len(batches') = m + 1 /\ DOMAIN batches' = 1..Len(batches')
      /\ batches'[m + 1] = CommittedInfo(first)
      /\ \A b \in DOMAIN batches : batches'[b] = batches[b]
      /\ PrevState' = [stateRoot |-> first.newRoot, depositCursor |-> first.cursor]
  BY CommitShifts
<1>3. TypeOK'
  BY CommitShifts
<1>4. /\ \A k \in 1..n : Before(k)' = Before(k + 1)
      /\ \A k \in 1..(n - 1) : After(k)' = After(k + 1)
      /\ LastSealed' = LastSealed /\ Now' = Now
  BY CommitChain
<1>5. /\ first.cursor \in Nat /\ GoodRoot(first.newRoot)
      /\ first.withdrawalsRoot.leaves \in Seq(F!Withdrawals)
      /\ first.cursor <= l2.nextDepositIndex
  BY <1>1, <1>2, SealedFacts DEF SealedChain
<1>6. m \in Nat /\ DOMAIN batches = 1..m
  BY <1>1 DEF TypeOK
<1>7. \A k \in 1..(n - 1) : k + 1 \in DOMAIN sealed /\ k \in 1..n
  BY <1>2
<1>8. SequencerTypes'
  <2>1. ASSUME NEW k \in DOMAIN sealed' PROVE GoodRoot(sealed'[k].newRoot)
    BY <1>1, <1>2, <1>7 DEF SequencerTypes
  <2>2. revived' \in BOOLEAN
    BY <1>0, <1>1 DEF SequencerTypes
  <2> QED BY <1>0, <1>1, <1>2, <2>1, <2>2 DEF SequencerTypes
<1>9. GoodOutbox(batches') /\ FiniteClaims(batches', claimed)
  <2> PICK info : info = CommittedInfo(first)
    OBVIOUS
  <2>1. info.withdrawalsRoot.leaves = first.withdrawalsRoot.leaves
    BY DEF CommittedInfo
  <2>2. /\ GoodOutbox(batches) /\ FiniteClaims(batches, claimed)
        /\ \A b, w : <<b, w>> \in claimed => b \in DOMAIN batches
    BY <1>1 DEF RollupInv, PublishedTypes, ExitsRecorded
  <2> QED BY <1>2, <1>5, <2>1, <2>2, BatchPublished
<1>10. PublishedTypes'
  <2>1. ASSUME NEW b \in DOMAIN batches' PROVE GoodRoot(batches'[b].stateRoot)
    <3>1. CASE b = m + 1
      BY <1>2, <1>5, <3>1 DEF CommittedInfo
    <3>2. CASE b # m + 1
      <4>1. b \in DOMAIN batches
        BY <1>2, <1>6, <3>2
      <4> QED BY <1>1, <1>2, <4>1 DEF PublishedTypes
    <3> QED BY <3>1, <3>2
  <2> QED BY <1>9, <2>1 DEF PublishedTypes
<1>11. SealedChain'
  <2>1. /\ PrevState'.depositCursor <= l2'.nextDepositIndex
        /\ l2'.nextDepositIndex <= depositCount'
    BY <1>0, <1>1, <1>2, <1>5 DEF SealedChain
  <2>2. ASSUME NEW k \in DOMAIN sealed'
        PROVE  /\ sealed'[k].prevRoot = Before(k)'.root
               /\ Before(k)'.cursor <= sealed'[k].cursor
               /\ sealed'[k].cursor <= l2'.nextDepositIndex
    <3>1. /\ k + 1 \in DOMAIN sealed /\ sealed'[k] = sealed[k + 1]
          /\ Before(k)' = Before(k + 1)
      BY <1>2, <1>4, <1>7
    <3> QED BY <1>0, <1>1, <3>1 DEF SealedChain
  <2> QED BY <2>1, <2>2 DEF SealedChain
<1>12. Flows'
  <2>1. Flow(deposits, LastSealed, Now, out)'
    <3>1. Flow(deposits, LastSealed, Now, out)
      BY DEF RollupInv, Flows
    <3> QED BY <1>0, <1>4, <3>1 DEF Flow
  <2>2. ASSUME NEW k \in DOMAIN sealed'
        PROVE  Flow(deposits, Before(k), After(k), sealed[k].withdrawalsRoot.leaves)'
    <3>1. /\ k + 1 \in DOMAIN sealed /\ sealed'[k] = sealed[k + 1]
          /\ Before(k)' = Before(k + 1) /\ After(k)' = After(k + 1)
      BY <1>2, <1>4, <1>7
    <3>2. Flow(deposits, Before(k + 1), After(k + 1), sealed[k + 1].withdrawalsRoot.leaves)
      BY <3>1 DEF RollupInv, Flows
    <3> QED BY <1>0, <3>1, <3>2 DEF Flow
  <2> QED BY <2>1, <2>2 DEF Flows
<1>13. ExitsRecorded'
  <2>1. DOMAIN batches \subseteq DOMAIN batches'
    BY <1>2, <1>6
  <2> QED BY <1>0, <1>1, <2>1 DEF ExitsRecorded
<1>14. VaultIsOwed'
  <2> SUFFICES ASSUME ~revived', NEW token \in Token PROVE vault'[token] = Owed(token)'
    BY DEF VaultIsOwed
  <2>1. ~revived /\ vault' = vault
    BY <1>0
  <2>2. vault[token] = Owed(token)
    BY <2>1 DEF RollupInv, VaultIsOwed
  <2>3. Owed(token)' = Owed(token)
    BY CommitOwes
  <2> QED BY <2>1, <2>2, <2>3
<1>15. (halted' \/ revived') => SomeExit'
  <2> SUFFICES ASSUME revived' PROVE SomeExit
    BY <1>0 DEF SomeExit
  <2>1. CASE revived
    BY <2>1 DEF RollupInv
  <2>2. CASE Escaped(m) # {}
    <3>1. escaped # {}
      BY <2>2 DEF Escaped
    <3> QED BY <1>1, <3>1 DEF ExitsRecorded, SomeExit
  <2>3. CASE ReclaimedBelow(first.cursor) # {}
    BY <2>3 DEF ReclaimedBelow, SomeExit
  <2> QED BY <1>0, <2>1, <2>2, <2>3
<1>16. FiniteClaims(batches, claimed)'
  BY <1>0, <1>9
<1> QED BY <1>3, <1>8, <1>10, <1>11, <1>12, <1>13, <1>14, <1>15, <1>16 DEF RollupInv

-----------------------------------------------------------------------------
(* Solvency, until an exit is used *)

\* What the withdrawals of the sealed batches come to.
SealedOut(token) ==
    MapThenSumSet(LAMBDA k : AmountOf(sealed[k].withdrawalsRoot.leaves, token), DOMAIN sealed)

SealedAmounts(token) == [k \in DOMAIN sealed |-> AmountOf(sealed[k].withdrawalsRoot.leaves, token)]

LEMMA SealedOutIs ==
    ASSUME SequencerTypes, NEW token
    PROVE  /\ SealedOut(token) = Total(SealedAmounts(token), DOMAIN sealed)
           /\ IsFiniteSet(DOMAIN sealed)
           /\ \A k \in DOMAIN sealed :
                 /\ SealedAmounts(token)[k] = AmountOf(sealed[k].withdrawalsRoot.leaves, token)
                 /\ SealedAmounts(token)[k] \in Nat
<1> DEFINE S == DOMAIN sealed
           f == SealedAmounts(token)
           iter == CHOOSE G : G = [part \in SUBSET S |->
                     IF part = {} THEN 0
                     ELSE AmountOf(sealed[OneOf(part)].withdrawalsRoot.leaves, token) + G[part \ {OneOf(part)}]]
<1>1. IsFiniteSet(S)
  <2>1. Len(sealed) \in Int /\ 1 \in Int /\ S = 1..Len(sealed)
    BY DEF SequencerTypes
  <2> QED BY <2>1, FS_Interval
<1>2. \A k \in S : f[k] = AmountOf(sealed[k].withdrawalsRoot.leaves, token)
  BY DEF SealedAmounts
<1>3. ASSUME NEW k \in S PROVE f[k] \in Nat
  BY <1>2, SealedFacts, AmountOfIs
<1>4. SealedOut(token) = iter[S]
  BY DEF SealedOut, MapThenSumSet, MapThenFoldSet, OneOf
<1>5. S \in SUBSET S /\ \A k \in S : f[k] \in Int
  BY <1>3
<1> HIDE DEF S, f
<1>6. ASSUME NEW part \in SUBSET S, part # {}
      PROVE  f[OneOf(part)] = AmountOf(sealed[OneOf(part)].withdrawalsRoot.leaves, token)
  <2>1. OneOf(part) \in S
    BY <1>6, OneOfIs
  <2> QED BY <1>2, <2>1
<1>7. PICK G : Iterates(G, f, S)
  BY <1>1, <1>5, TotalsAreIter
<1>8. G = [part \in SUBSET S |-> IF part = {} THEN 0
             ELSE AmountOf(sealed[OneOf(part)].withdrawalsRoot.leaves, token) + G[part \ {OneOf(part)}]]
  BY <1>6, <1>7 DEF Iterates
<1>9. iter = [part \in SUBSET S |-> IF part = {} THEN 0
             ELSE AmountOf(sealed[OneOf(part)].withdrawalsRoot.leaves, token) + iter[part \ {OneOf(part)}]]
  BY <1>8
<1> HIDE DEF iter
<1>10. Iterates(iter, f, S)
  BY <1>6, <1>9 DEF Iterates
<1>11. iter[S] = Total(f, S)
  BY <1>1, <1>5, <1>10, TotalsAreIter, TotalIs
<1> QED BY <1>1, <1>2, <1>3, <1>4, <1>11 DEF S, f

\* As long as every payout is a withdrawal every deposit is there, and nobody
\* escaped.
LEMMA NoExits ==
    ASSUME RollupInv, ~SomeExit
    PROVE  /\ ~halted /\ ~revived /\ escaped = {}
           /\ \A i \in 0..(depositCount - 1) : i \in DOMAIN deposits
<1>1. ExitsRecorded
  BY InvFacts
<1>2. ~halted /\ ~revived
  BY DEF RollupInv
<1>3. escaped = {}
  BY <1>1 DEF ExitsRecorded, SomeExit
<1>4. \A i \in 0..(depositCount - 1) : i \in DOMAIN deposits
  BY <1>1 DEF ExitsRecorded, SomeExit
<1> QED BY <1>2, <1>3, <1>4

\* What flowed through the first m sealed batches.
Prefix(m, token) ==
    /\ PrevState.depositCursor <= Before(m + 1).cursor
    /\ Total(SealedAmounts(token), 1..m) \in Nat
    /\ Total(SealedAmounts(token), 1..m) + RootTotal(Before(m + 1).root, token)
         = RootTotal(PrevState.stateRoot, token)
             + DepositTotal(deposits, PrevState.depositCursor, Before(m + 1).cursor, token)

LEMMA PrefixStarts ==
    ASSUME RollupInv, NEW token
    PROVE  Prefix(0, token)
<1>1. /\ PrevState.depositCursor \in Nat /\ GoodRoot(PrevState.stateRoot) /\ GoodDeposits(deposits)
  BY InvFacts
<1>2. /\ Before(0 + 1).cursor = PrevState.depositCursor
      /\ Before(0 + 1).root = PrevState.stateRoot
  BY DEF Before
<1>3. Total(SealedAmounts(token), 1..0) = 0
  <2>1. 1..0 = {}
    OBVIOUS
  <2> QED BY <2>1, TotalEmpty, Zenon
<1>4. DepositTotal(deposits, PrevState.depositCursor, PrevState.depositCursor, token) = 0
  BY <1>1, NoDeposits
<1>5. RootTotal(PrevState.stateRoot, token) \in Nat
  BY <1>1, RootTotalType
<1> QED BY <1>1, <1>2, <1>3, <1>4, <1>5 DEF Prefix

LEMMA PrefixGrows ==
    ASSUME RollupInv, ~SomeExit, NEW token, NEW m \in Nat, m + 1 \in DOMAIN sealed, Prefix(m, token)
    PROVE  Prefix(m + 1, token)
<1> DEFINE k == m + 1
           c0 == PrevState.depositCursor
           from == Before(k)
           to == After(k)
           leaves == sealed[k].withdrawalsRoot.leaves
           f == SealedAmounts(token)
<1>1. /\ TypeOK /\ SequencerTypes /\ PublishedTypes /\ SealedChain /\ GoodDeposits(deposits)
      /\ c0 \in Nat /\ l2.nextDepositIndex \in Nat /\ depositCount \in Nat
      /\ l2.nextDepositIndex <= depositCount
  BY InvFacts
<1>2. /\ k \in DOMAIN sealed /\ k \in Nat /\ k \in 1..(Len(sealed) + 1) /\ Before(k + 1) = to
  BY <1>1, BeforeFacts DEF SequencerTypes
<1>3. /\ from.cursor \in Nat /\ GoodRoot(from.root)
      /\ to.cursor = sealed[k].cursor /\ to.root = sealed[k].newRoot
      /\ to.cursor \in Nat /\ GoodRoot(to.root) /\ leaves \in Seq(F!Withdrawals)
  BY <1>1, <1>2, BeforeFacts, SealedFacts DEF After
<1>4. from.cursor <= to.cursor /\ to.cursor <= l2.nextDepositIndex
  BY <1>1, <1>2, <1>3 DEF SealedChain
<1>5. to.cursor <= depositCount
  BY <1>1, <1>3, <1>4
<1>6. RootTotal(to.root, token) + AmountOf(leaves, token)
        = RootTotal(from.root, token) + DepositTotal(deposits, from.cursor, to.cursor, token)
  <2>1. Flow(deposits, from, to, leaves)
    BY <1>2 DEF RollupInv, Flows
  <2>2. ASSUME NEW i \in Nat, from.cursor <= i, i < to.cursor PROVE i \in DOMAIN deposits
    <3>1. i \in 0..(depositCount - 1)
      BY <1>1, <1>3, <1>5, <2>2
    <3> QED BY <3>1, NoExits
  <2> QED BY <2>1, <2>2 DEF Flow
<1>7. /\ c0 <= from.cursor /\ Total(f, 1..m) \in Nat
      /\ Total(f, 1..m) + RootTotal(from.root, token)
           = RootTotal(PrevState.stateRoot, token) + DepositTotal(deposits, c0, from.cursor, token)
  BY DEF Prefix
<1>8. DepositTotal(deposits, c0, to.cursor, token)
        = DepositTotal(deposits, c0, from.cursor, token) + DepositTotal(deposits, from.cursor, to.cursor, token)
  BY <1>1, <1>3, <1>4, <1>7, DepositsSplit
<1>9. Total(f, 1..k) = Total(f, 1..m) + AmountOf(leaves, token)
  <2> DEFINE S == 1..m
  <2>1. k \notin S /\ 1..k = S \cup {k} /\ S \subseteq DOMAIN sealed
    BY <1>1 DEF SequencerTypes
  <2>2. /\ IsFiniteSet(DOMAIN sealed) /\ \A j \in DOMAIN sealed : f[j] \in Nat
        /\ f[k] = AmountOf(leaves, token)
    BY <1>1, <1>2, SealedOutIs
  <2>3. IsFiniteSet(S)
    BY <2>1, <2>2, FS_Subset
  <2>4. Summable(f, S) /\ f[k] \in Int
    BY <1>2, <2>1, <2>2, <2>3 DEF Summable
  <2> HIDE DEF f
  <2>5. k \notin S
    BY <2>1
  <2>6. Summable(f, S)
    BY <2>4
  <2>7. f[k] \in Int
    BY <2>4
  <2>8. Total(f, S \cup {k}) = Total(f, S) + f[k]
    <3> HIDE DEF k, S
    <3> QED BY <2>5, <2>6, <2>7, TotalWith
  <2> QED BY <2>1, <2>2, <2>8
<1>10. /\ RootTotal(to.root, token) \in Nat /\ RootTotal(from.root, token) \in Nat
       /\ AmountOf(leaves, token) \in Nat
       /\ DepositTotal(deposits, c0, from.cursor, token) \in Nat
       /\ DepositTotal(deposits, from.cursor, to.cursor, token) \in Nat
  BY <1>1, <1>3, RootTotalType, AmountOfIs, DepositTotalType
<1>11. RootTotal(PrevState.stateRoot, token) \in Nat
  BY InvFacts, RootTotalType
<1>12. c0 <= to.cursor
  BY <1>1, <1>3, <1>4, <1>7
<1>13. Total(f, 1..k) \in Nat
  BY <1>7, <1>9, <1>10
<1> HIDE DEF from, to, leaves, f, k, c0
<1>14. Total(f, 1..k) + RootTotal(to.root, token)
         = RootTotal(PrevState.stateRoot, token) + DepositTotal(deposits, c0, to.cursor, token)
  <2>1. Total(f, 1..k) + RootTotal(to.root, token)
          = Total(f, 1..m) + (RootTotal(to.root, token) + AmountOf(leaves, token))
    BY <1>7, <1>9, <1>10
  <2>2. Total(f, 1..m)
            + (RootTotal(from.root, token) + DepositTotal(deposits, from.cursor, to.cursor, token))
          = (Total(f, 1..m) + RootTotal(from.root, token))
            + DepositTotal(deposits, from.cursor, to.cursor, token)
    BY <1>7, <1>10
  <2>3. (RootTotal(PrevState.stateRoot, token) + DepositTotal(deposits, c0, from.cursor, token))
            + DepositTotal(deposits, from.cursor, to.cursor, token)
          = RootTotal(PrevState.stateRoot, token)
            + (DepositTotal(deposits, c0, from.cursor, token)
                + DepositTotal(deposits, from.cursor, to.cursor, token))
    BY <1>10, <1>11
  <2> QED BY <1>6, <1>7, <1>8, <2>1, <2>2, <2>3, Zenon
<1> QED BY <1>2, <1>12, <1>13, <1>14 DEF Prefix, from, to, leaves, f, k, c0

LEMMA PrefixesAll ==
    ASSUME RollupInv, ~SomeExit, NEW token
    PROVE  Prefix(Len(sealed), token) /\ Len(sealed) \in Nat
<1> DEFINE n == Len(sealed)
           T == {m \in 0..n : Prefix(m, token)}
<1>1. n \in Nat /\ DOMAIN sealed = 1..n
  BY InvFacts DEF SequencerTypes
<1>2. 0 \in T
  BY <1>1, PrefixStarts
<1>3. ASSUME NEW m \in 0..(n - 1), m \in T PROVE m + 1 \in T
  <2>1. m \in Nat /\ m + 1 \in DOMAIN sealed /\ m + 1 \in 0..n
    BY <1>1
  <2>2. Prefix(m, token)
    BY <1>3
  <2>3. Prefix(m + 1, token)
    BY <2>1, <2>2, PrefixGrows
  <2> QED BY <2>1, <2>3
<1> HIDE DEF T
<1>4. \A m \in 0..n : m \in T
  BY <1>1, <1>2, <1>3, UpTo
<1>5. n \in T
  BY <1>1, <1>4
<1> QED BY <1>1, <1>5 DEF T

\* What is issued, and everything on its way out, in parts: the rest is what the
\* sequencer has not credited yet.
LEMMA BackedInParts ==
    ASSUME RollupInv, ~SomeExit, NEW token \in Token
    PROVE  /\ L2!Issued(l2, token) \in Nat /\ AmountOf(out, token) \in Nat
           /\ SealedOut(token) \in Nat /\ Claimable(token) \in Nat
           /\ \E prev, base, credited, rest, last \in Nat :
                 /\ SealedOut(token) + last = prev + base
                 /\ L2!Issued(l2, token) + AmountOf(out, token) = last + credited
                 /\ vault[token] = prev + Claimable(token) + ((base + credited) + rest)
<1> DEFINE c0 == PrevState.depositCursor
           c1 == LastSealed.cursor
           c2 == l2.nextDepositIndex
<1>1. /\ TypeOK /\ SequencerTypes /\ PublishedTypes /\ SealedChain /\ ExitsRecorded
      /\ GoodState(l2) /\ c2 \in Nat /\ depositCount \in Nat
      /\ GoodRoot(L2!Root(l2)) /\ GoodDeposits(deposits)
      /\ c0 \in Nat /\ GoodRoot(PrevState.stateRoot)
      /\ c1 \in Nat /\ GoodRoot(LastSealed.root)
      /\ c1 <= c2 /\ c2 <= depositCount
  BY InvFacts
<1>2. /\ ~revived /\ escaped = {} /\ \A i \in 0..(depositCount - 1) : i \in DOMAIN deposits
  BY NoExits
<1>3. LastSealed = Before(Len(sealed) + 1)
  BY <1>1, BeforeFacts
<1>4. /\ c0 <= c1
      /\ Total(SealedAmounts(token), 1..Len(sealed)) \in Nat
      /\ Total(SealedAmounts(token), 1..Len(sealed)) + RootTotal(LastSealed.root, token)
           = RootTotal(PrevState.stateRoot, token) + DepositTotal(deposits, c0, c1, token)
  BY <1>3, PrefixesAll DEF Prefix
<1>5. SealedOut(token) = Total(SealedAmounts(token), 1..Len(sealed))
  <2>1. DOMAIN sealed = 1..Len(sealed)
    BY <1>1 DEF SequencerTypes
  <2> QED BY <1>1, <2>1, SealedOutIs
<1>6. RootTotal(L2!Root(l2), token) + AmountOf(out, token)
        = RootTotal(LastSealed.root, token) + DepositTotal(deposits, c1, c2, token)
  <2>1. Flow(deposits, LastSealed, Now, out)
    BY DEF RollupInv, Flows
  <2>2. ASSUME NEW i \in Nat, c1 <= i, i < c2 PROVE i \in DOMAIN deposits
    <3>1. i \in 0..(depositCount - 1)
      BY <1>1, <2>2
    <3> QED BY <1>2, <3>1
  <2>3. Now.root = L2!Root(l2) /\ Now.cursor = c2
    BY DEF Now
  <2> QED BY <2>1, <2>2, <2>3 DEF Flow
<1>7. L2!Issued(l2, token) = RootTotal(L2!Root(l2), token)
  BY <1>1, RootIs
<1>8. EscapableNow(token) = RootTotal(PrevState.stateRoot, token)
  <2>1. CASE batches = <<>>
    BY <2>1, EmptyRoot DEF EscapableNow, PrevState, ZeroRoot
  <2>2. CASE batches # <<>>
    <3>1. EscapableOf(LastBatch.stateRoot, Len(batches), escaped, token) = RootTotal(LastBatch.stateRoot, token)
      BY <1>2, NobodyEscaped
    <3>2. PrevState.stateRoot = LastBatch.stateRoot
      BY <1>1, <2>2, PrevFacts
    <3> QED BY <2>2, <3>1, <3>2 DEF EscapableNow
  <2> QED BY <2>1, <2>2
<1>9. /\ Claimable(token) = ClaimTotal(batches, claimed, token)
      /\ ClaimTotal(batches, claimed, token) \in Nat
  BY <1>1, OwedIs DEF RollupInv
<1>10. vault[token] = RootTotal(PrevState.stateRoot, token) + ClaimTotal(batches, claimed, token)
                        + DepositTotal(deposits, c0, depositCount, token)
  BY <1>2, <1>8 DEF RollupInv, VaultIsOwed, Owed
<1>11. DepositTotal(deposits, c0, depositCount, token)
         = DepositTotal(deposits, c0, c2, token) + DepositTotal(deposits, c2, depositCount, token)
  <2>1. c0 <= c2
    BY <1>1, <1>4
  <2> QED BY <1>1, <2>1, DepositsSplit
<1>12. DepositTotal(deposits, c0, c2, token)
         = DepositTotal(deposits, c0, c1, token) + DepositTotal(deposits, c1, c2, token)
  BY <1>1, <1>4, DepositsSplit
<1>13. /\ RootTotal(L2!Root(l2), token) \in Nat /\ RootTotal(PrevState.stateRoot, token) \in Nat
       /\ RootTotal(LastSealed.root, token) \in Nat
       /\ DepositTotal(deposits, c0, c1, token) \in Nat /\ DepositTotal(deposits, c1, c2, token) \in Nat
       /\ DepositTotal(deposits, c2, depositCount, token) \in Nat
  BY <1>1, RootTotalType, DepositTotalType
<1>14. AmountOf(out, token) \in Nat
  BY <1>1, AmountOfIs DEF SequencerTypes
<1>15. /\ L2!Issued(l2, token) \in Nat /\ AmountOf(out, token) \in Nat
       /\ SealedOut(token) \in Nat /\ Claimable(token) \in Nat
  BY <1>4, <1>5, <1>7, <1>9, <1>13, <1>14
<1>16. \E prev, base, credited, rest, last \in Nat :
          /\ SealedOut(token) + last = prev + base
          /\ L2!Issued(l2, token) + AmountOf(out, token) = last + credited
          /\ vault[token] = prev + Claimable(token) + ((base + credited) + rest)
  <2> USE <1>13
  <2> HIDE DEF c0, c1, c2
  <2> WITNESS RootTotal(PrevState.stateRoot, token) \in Nat,
              DepositTotal(deposits, c0, c1, token) \in Nat, DepositTotal(deposits, c1, c2, token) \in Nat,
              DepositTotal(deposits, c2, depositCount, token) \in Nat,
              RootTotal(LastSealed.root, token) \in Nat
  <2> QED BY <1>4, <1>5, <1>6, <1>7, <1>9, <1>10, <1>11, <1>12, Zenon
<1> QED BY <1>15, <1>16

\* FXLM issued, and on its way out, is in the vault.
LEMMA Backed ==
    ASSUME RollupInv, ~SomeExit, NEW token \in Token
    PROVE  /\ L2!Issued(l2, token) + AmountOf(out, token) + Claimable(token) + SealedOut(token)
                <= vault[token]
           /\ L2!Issued(l2, token) <= vault[token]
<1>1. /\ L2!Issued(l2, token) \in Nat /\ AmountOf(out, token) \in Nat
      /\ SealedOut(token) \in Nat /\ Claimable(token) \in Nat
  BY BackedInParts
<1> PICK prev, base, credited, rest, last \in Nat :
       /\ SealedOut(token) + last = prev + base
       /\ L2!Issued(l2, token) + AmountOf(out, token) = last + credited
       /\ vault[token] = prev + Claimable(token) + ((base + credited) + rest)
  BY BackedInParts
<1>2. SealedOut(token) + (L2!Issued(l2, token) + AmountOf(out, token)) = prev + base + credited
  BY <1>1
<1>3. L2!Issued(l2, token) + AmountOf(out, token) + Claimable(token) + SealedOut(token) <= vault[token]
  BY <1>1, <1>2
<1> QED BY <1>1, <1>3

LEMMA SolventInv == RollupInv => SolventUntilExit
<1> SUFFICES ASSUME RollupInv, \A p \in DOMAIN payouts : p.kind = "withdraw"
             PROVE  /\ ~halted
                    /\ \A token \in Token :
                         L2!Issued(l2, token) + AmountOf(out, token) + Claimable(token) + SealedOut(token)
                           <= vault[token]
  BY DEF SolventUntilExit, SealedOut, MapThenSumSet, MapThenFoldSet
<1>1. ~SomeExit
  BY DEF SomeExit
<1> QED BY <1>1, NoExits, Backed

\* The engine stops, or is started again.
LEMMA EngineKeeps ==
    ASSUME RollupInv, UNCHANGED vars, UNCHANGED <<l2, out, sealed, revived>>,
           halted' \in BOOLEAN, halted' => SomeExit
    PROVE  RollupInv'
<1>1. SameContract /\ TypeOK'
  BY VarsKept DEF RollupInv
<1>2. PrevState' = PrevState
  BY <1>1, ContractKept
<1>3. /\ LastSealed' = LastSealed /\ Now' = Now
      /\ \A k : Before(k)' = Before(k) /\ After(k)' = After(k)
  BY <1>2 DEF LastSealed, Before, After, Now
<1>4. SequencerTypes'
  BY DEF RollupInv, SequencerTypes
<1>5. SealedChain'
  BY <1>1, <1>2, <1>3 DEF RollupInv, SealedChain, SameContract
<1>6. Flows'
  BY <1>1, <1>3 DEF RollupInv, Flows, Flow, SameContract
<1>7. /\ PublishedTypes' /\ ExitsRecorded' /\ FiniteClaims(batches, claimed)' /\ VaultIsOwed'
      /\ SomeExit => SomeExit'
  BY <1>1, ContractKept DEF RollupInv
<1>8. (halted' \/ revived') => SomeExit'
  BY <1>7 DEF RollupInv
<1> QED BY <1>1, <1>4, <1>5, <1>6, <1>7, <1>8 DEF RollupInv

\* The engine stops only when an exit was used.
LEMMA SolvencyKeeps ==
    ASSUME RollupInv, CheckSolvency
    PROVE  RollupInv'
<1>0. UNCHANGED vars /\ UNCHANGED <<l2, out, sealed, revived>> /\ Breaches # {} /\ halted' = TRUE
  BY DEF CheckSolvency
<1>1. SomeExit
  <2> SUFFICES ASSUME ~SomeExit PROVE FALSE
    OBVIOUS
  <2>1. PICK token \in Token : L2!Issued(l2, token) > vault[token]
    BY <1>0 DEF Breaches, VaultBalance
  <2>2. L2!Issued(l2, token) <= vault[token]
    BY Backed
  <2>3. L2!Issued(l2, token) \in Nat /\ vault[token] \in Nat
    BY InvFacts, RootIs DEF TypeOK
  <2> QED BY <2>1, <2>2, <2>3
<1> QED BY <1>0, <1>1, EngineKeeps

LEMMA RestartKeeps ==
    ASSUME RollupInv, Restart
    PROVE  RollupInv'
BY EngineKeeps DEF Restart

LEMMA RollupStarts == InitRollup => RollupInv
<1> SUFFICES ASSUME InitRollup PROVE RollupInv
  OBVIOUS
<1>0. /\ Init /\ l2 = L2!EmptyState /\ out = <<>> /\ sealed = <<>> /\ ~halted /\ ~revived
      /\ halted \in BOOLEAN /\ revived \in BOOLEAN
  BY DEF InitRollup
<1>1. /\ batches = <<>> /\ deposits = [i \in {} |-> i] /\ depositCount = 0 /\ claimed = {} /\ escaped = {}
      /\ vault = [t \in Token |-> 0] /\ payouts = [p \in {} |-> 0]
  BY <1>0 DEF Init
<1>2. TypeOK
  BY <1>0, InitTypes
<1>3. GoodState(l2) /\ l2.nextDepositIndex = 0
  <2>1. l2 = F!EmptyState
    BY <1>0, SameState
  <2>2. F!EmptyState \in F!States
    BY F!EmptyStateType
  <2>3. F!EmptyState.nextDepositIndex = 0 /\ DOMAIN F!EmptyState.accounts = {}
    BY DEF F!EmptyState
  <2>4. IsFiniteSet(DOMAIN F!EmptyState.accounts)
    BY <2>3, FS_EmptySet
  <2> QED BY <2>1, <2>2, <2>3, <2>4 DEF GoodState
<1>4. SequencerTypes
  <2>1. <<>> \in Seq(F!Withdrawals) /\ <<>> \in Seq(SealedBatch)
    OBVIOUS
  <2>2. DOMAIN sealed = {}
    BY <1>0
  <2> QED BY <1>0, <1>3, <2>1, <2>2 DEF SequencerTypes
<1>5. DOMAIN batches = {} /\ DOMAIN sealed = {} /\ DOMAIN deposits = {} /\ DOMAIN payouts = {}
  BY <1>0, <1>1
<1>6. PublishedTypes
  <2>1. GoodOutbox(<<>>)
    BY DEF GoodOutbox
  <2> QED BY <1>1, <1>5, <2>1 DEF PublishedTypes
<1>7. PrevState.depositCursor = 0 /\ PrevState.stateRoot = {}
  BY <1>1 DEF PrevState, ZeroRoot
<1>8. SealedChain
  BY <1>1, <1>3, <1>5, <1>7 DEF SealedChain
<1>9. ExitsRecorded
  BY <1>1, <1>5 DEF ExitsRecorded
<1>10. GoodDeposits(deposits) /\ \A token : DepositTotal(deposits, 0, 0, token) = 0
  <2>1. GoodDeposits(deposits)
    BY <1>2, <1>7, ReclaimableIs
  <2> QED BY <2>1, NoDeposits
<1>11. \A token : RootTotal({}, token) = 0
  BY EmptyRoot
<1>12. \A token : ClaimKeys(<<>>, {}, token) = {}
  BY DEF ClaimKeys
<1>13. FiniteClaims(batches, claimed) /\ \A token : ClaimTotal(batches, claimed, token) = 0
  <2>1. FiniteClaims(<<>>, {})
    BY <1>12, FS_EmptySet DEF FiniteClaims
  <2>2. ASSUME NEW token PROVE ClaimTotal(<<>>, {}, token) = 0
    BY <1>12, TotalEmpty, Zenon DEF ClaimTotal
  <2> QED BY <1>1, <2>1, <2>2
<1>14. L2!Root(l2) = {}
  BY <1>0 DEF L2!Root, L2!EmptyState
<1>15. Flows
  <2>1. /\ LastSealed.root = {} /\ LastSealed.cursor = 0
        /\ Now.root = {} /\ Now.cursor = 0
    BY <1>0, <1>3, <1>7, <1>14 DEF LastSealed, Now
  <2>2. \A token : AmountOf(out, token) = 0
    BY <1>0, NothingOut
  <2>3. Flow(deposits, LastSealed, Now, out)
    BY <1>10, <1>11, <2>1, <2>2 DEF Flow
  <2> QED BY <1>5, <2>3 DEF Flows
<1>16. VaultIsOwed
  <2> SUFFICES ASSUME NEW token \in Token PROVE vault[token] = Owed(token)
    BY DEF VaultIsOwed
  <2>1. vault[token] = 0 /\ EscapableNow(token) = 0
    BY <1>1 DEF EscapableNow
  <2>2. ClaimTotal(batches, claimed, token) = 0
    BY <1>13
  <2>3. DepositTotal(deposits, PrevState.depositCursor, depositCount, token) = 0
    BY <1>1, <1>7, <1>10
  <2> QED BY <2>1, <2>2, <2>3 DEF Owed
<1> QED BY <1>0, <1>2, <1>4, <1>6, <1>8, <1>9, <1>13, <1>15, <1>16 DEF RollupInv

LEMMA RollupStep == RollupInv /\ [NextRollup]_allVars => RollupInv'
<1> SUFFICES ASSUME RollupInv, [NextRollup]_allVars PROVE RollupInv'
  OBVIOUS
<1>1. ASSUME BridgeStep, UNCHANGED l2Vars PROVE RollupInv'
  <2>1. ASSUME CloseLedger \/ SomeAdminCall PROVE RollupInv'
    <3>1. TypeOK'
      BY <2>1, TypeStep DEF RollupInv, Next
    <3>2. SameContract
      BY <2>1 DEF CloseLedger, SomeAdminCall, SetSequencer, SetAdmin, SetPaused, SameContract,
                  batchVars, depositVars, exitVars
    <3> QED BY <1>1, <3>1, <3>2, QuietKeeps
  <2>2. CASE SomeDeposit
    BY <1>1, <2>2, DepositKeeps
  <2>3. CASE ClaimWithdrawal
    BY <1>1, <2>3, ClaimKeeps
  <2>4. CASE EscapeSome
    BY <1>1, <2>4, EscapeKeeps
  <2>5. CASE SomeReclaim
    BY <1>1, <2>5, ReclaimKeeps
  <2> QED BY <1>1, <2>1, <2>2, <2>3, <2>4, <2>5 DEF BridgeStep
<1>2. CASE CreditDeposit
  BY <1>2, CreditKeeps
<1>3. ASSUME NEW request \in L2Request, Execute(request) PROVE RollupInv'
  BY <1>3, ExecuteKeeps
<1>4. CASE SealBatch
  BY <1>4, SealKeeps
<1>5. CASE CommitSealed
  BY <1>5, CommitKeeps
<1>6. CASE CheckSolvency
  BY <1>6, SolvencyKeeps
<1>7. CASE Restart
  BY <1>7, RestartKeeps
<1>8. CASE UNCHANGED allVars
  <2>1. UNCHANGED l2Vars /\ UNCHANGED vars
    BY <1>8 DEF allVars
  <2>2. SameContract /\ TypeOK'
    BY <2>1, VarsKept DEF RollupInv
  <2> QED BY <2>1, <2>2, QuietKeeps
<1> QED BY <1>1, <1>2, <1>3, <1>4, <1>5, <1>6, <1>7, <1>8 DEF NextRollup

\* The inductive invariant of the contract and an honest sequencer.
THEOREM RollupInvariant == SpecRollup => []RollupInv
BY RollupStarts, RollupStep, PTL DEF SpecRollup

\* No L2 balance is ever negative, and the sealed batches continue the
\* contract's chain (FlashRollup!RollupTypeOK).
THEOREM RollupTyping == SpecRollup => []RollupTypeOK
BY RollupInvariant, RollupTypes, PTL

\* Every unit of the vault belongs to exactly one exit, through any number of
\* emergency exits, as long as no batch comes after them (FlashRollup!VaultCoversExits).
THEOREM VaultIsEnough == SpecRollup => []VaultCoversExits
BY RollupInvariant, CoversExits, PTL

\* What is issued on L2, with everything on its way out, is in the vault until an
\* emergency exit is used, and the engine does not stop (FlashRollup!SolventUntilExit).
THEOREM SolventWithoutExits == SpecRollup => []SolventUntilExit
BY RollupInvariant, SolventInv, PTL

-----------------------------------------------------------------------------
(* The emergency exits beside an honest sequencer *)

\* The vault holds every single exit that nobody used.
VaultHoldsEach ==
    ~revived =>
      /\ batches # <<>> =>
            \A leaf \in LastBatch.stateRoot :
                <<Len(batches), leaf.account, leaf.token>> \notin escaped =>
                    InVault(leaf.token, leaf.balance)
      /\ \A index \in DOMAIN deposits :
            index >= PrevState.depositCursor =>
                InVault(deposits[index].token, deposits[index].amount)

\* A sum of naturals is no less than what it adds up.
LEMMA PartOfTotal ==
    ASSUME NEW f, NEW S, Summable(f, S), NEW x \in S, f[x] \in Nat, Total(f, S \ {x}) \in Nat
    PROVE  Total(f, S) >= f[x]
<1>1. Total(f, S) = f[x] + Total(f, S \ {x})
  BY TotalWithout
<1> QED BY <1>1

\* What is owed for all exits is no less than what is owed for one.
LEMMA OneEscapeIsOwed ==
    ASSUME RollupInv, batches # <<>>, NEW leaf \in LastBatch.stateRoot,
           <<Len(batches), leaf.account, leaf.token>> \notin escaped
    PROVE  /\ leaf.token \in Token /\ leaf.balance \in Nat
           /\ EscapableNow(leaf.token) >= leaf.balance
<1> DEFINE S == EscapableLeaves(LastBatch.stateRoot, Len(batches), escaped, leaf.token)
<1>1. GoodRoot(LastBatch.stateRoot)
  BY InvFacts, PrevFacts
<1>2. leaf.token \in Token /\ leaf.balance \in Nat /\ LeafBalances[leaf] = leaf.balance
  BY <1>1, LeafFacts DEF GoodRoot
<1>3. leaf \in S /\ S \in SUBSET LastBatch.stateRoot
  BY DEF EscapableLeaves
<1>4. EscapableNow(leaf.token) = Total(LeafBalances, S)
  BY DEF EscapableNow, EscapableOf
<1> HIDE DEF S
<1>5. Summable(LeafBalances, S) /\ Total(LeafBalances, S \ {leaf}) \in Nat
  <2>1. S \ {leaf} \in SUBSET LastBatch.stateRoot
    BY <1>3
  <2> QED BY <1>1, <1>3, <2>1, LeavesSum
<1>6. Total(LeafBalances, S) >= leaf.balance
  BY <1>2, <1>3, <1>5, PartOfTotal
<1> QED BY <1>2, <1>4, <1>6

LEMMA OneReclaimIsOwed ==
    ASSUME RollupInv, NEW index \in DOMAIN deposits, index >= PrevState.depositCursor
    PROVE  /\ deposits[index].token \in Token /\ deposits[index].amount \in Nat
           /\ DepositTotal(deposits, PrevState.depositCursor, depositCount, deposits[index].token)
                >= deposits[index].amount
<1> DEFINE f == DepositAmounts(deposits)
           S == DepositsIn(deposits, PrevState.depositCursor, depositCount, deposits[index].token)
<1>1. GoodDeposits(deposits) /\ TypeOK
  BY InvFacts
<1>2. deposits[index].token \in Token /\ deposits[index].amount \in Nat
  <2>1. deposits[index] \in DepositInfo
    BY <1>1 DEF TypeOK, DepositTypes
  <2> QED BY <2>1 DEF DepositInfo
<1>3. f[index] = deposits[index].amount
  BY DEF DepositAmounts
<1>4. index < depositCount
  BY <1>1 DEF TypeOK, DepositTypes
<1>5. index \in S /\ S \in SUBSET DOMAIN deposits
  BY <1>4 DEF DepositsIn
<1>6. DepositTotal(deposits, PrevState.depositCursor, depositCount, deposits[index].token)
        = Total(f, S)
  BY DEF DepositTotal
<1> HIDE DEF S
<1>7. Summable(f, S) /\ Total(f, S \ {index}) \in Nat
  <2>1. S \ {index} \in SUBSET DOMAIN deposits
    BY <1>5
  <2> QED BY <1>1, <1>5, <2>1, DepositsSum
<1> HIDE DEF f
<1>8. Total(f, S) >= deposits[index].amount
  BY <1>2, <1>3, <1>5, <1>7, PartOfTotal
<1> QED BY <1>2, <1>6, <1>8

LEMMA EnoughForEach == RollupInv => VaultHoldsEach
<1> SUFFICES ASSUME RollupInv, ~revived PROVE VaultHoldsEach
  BY DEF VaultHoldsEach
<1>1. ASSUME NEW token \in Token
      PROVE  /\ vault[token] = EscapableNow(token) + ClaimTotal(batches, claimed, token)
                  + DepositTotal(deposits, PrevState.depositCursor, depositCount, token)
             /\ EscapableNow(token) \in Nat /\ ClaimTotal(batches, claimed, token) \in Nat
             /\ DepositTotal(deposits, PrevState.depositCursor, depositCount, token) \in Nat
  BY OwedIs DEF RollupInv, VaultIsOwed, Owed
<1>2. ASSUME batches # <<>>, NEW leaf \in LastBatch.stateRoot,
             <<Len(batches), leaf.account, leaf.token>> \notin escaped
      PROVE  InVault(leaf.token, leaf.balance)
  <2>1. /\ leaf.token \in Token /\ leaf.balance \in Nat
        /\ EscapableNow(leaf.token) >= leaf.balance
    BY <1>2, OneEscapeIsOwed
  <2> QED BY <1>1, <2>1 DEF InVault
<1>3. ASSUME NEW index \in DOMAIN deposits, index >= PrevState.depositCursor
      PROVE  InVault(deposits[index].token, deposits[index].amount)
  <2>1. /\ deposits[index].token \in Token /\ deposits[index].amount \in Nat
        /\ DepositTotal(deposits, PrevState.depositCursor, depositCount, deposits[index].token)
             >= deposits[index].amount
    BY <1>3, OneReclaimIsOwed
  <2> QED BY <1>1, <2>1 DEF InVault
<1> QED BY <1>2, <1>3 DEF VaultHoldsEach

LEMMA RollupForward ==
    ASSUME TypeOK, [NextRollup]_allVars
    PROVE  Forward
<1>1. CASE CommitSealed
  BY <1>1, CommitForward DEF CommitSealed
<1>2. CASE ClaimWithdrawal
  BY <1>2, WithdrawForward DEF ClaimWithdrawal
<1>3. CASE EscapeSome
  BY <1>3, EscapeForward DEF EscapeSome
<1>4. CASE SomeReclaim
  BY <1>4, ReclaimForward DEF SomeReclaim
<1>5. CASE \/ CreditDeposit \/ SealBatch \/ CheckSolvency \/ Restart
           \/ \E request \in L2Request : Execute(request)
           \/ UNCHANGED allVars
  <2>1. UNCHANGED vars
    BY <1>5 DEF CreditDeposit, SealBatch, CheckSolvency, Restart, Execute, allVars
  <2> QED BY <2>1, QuietForward
<1>6. CASE CloseLedger \/ SomeDeposit \/ SomeAdminCall
  BY <1>6, QuietForward
<1> QED BY <1>1, <1>2, <1>3, <1>4, <1>5, <1>6 DEF NextRollup, BridgeStep

\* With an honest sequencer nobody else's claim, escape or reclaim takes an open
\* emergency exit away either: it closes only by being used or by a new batch,
\* until a batch takes back an exit (FlashRollup!ExitsStayOpen).
THEOREM NoExitRunsDry == SpecRollup => ExitsStayOpen
<1> DEFINE StayOpen ==
        ~revived' =>
          /\ batches # <<>> => \A leaf \in LastBatch.stateRoot :
                                 CanEscape(leaf) => EscapeStays(leaf)
          /\ \A index \in DOMAIN deposits : CanReclaim(index) => ReclaimStays(index)
<1>1. RollupInv /\ VaultHoldsEach' /\ [NextRollup]_allVars => StayOpen
  <2> SUFFICES ASSUME RollupInv, VaultHoldsEach', [NextRollup]_allVars, ~revived'
               PROVE  /\ batches # <<>> => \A leaf \in LastBatch.stateRoot :
                                             CanEscape(leaf) => EscapeStays(leaf)
                      /\ \A index \in DOMAIN deposits : CanReclaim(index) => ReclaimStays(index)
    OBVIOUS
  <2>1. TypeOK /\ Forward
    BY RollupForward DEF RollupInv
  <2>2. ASSUME batches # <<>>, NEW leaf \in LastBatch.stateRoot, CanEscape(leaf),
               ~EscapeStays(leaf)
        PROVE  FALSE
    <3>1. /\ UNCHANGED batchVars
          /\ MayEscape(leaf.account, leaf.token, leaf.balance, leaf.nonce)'
      BY <2>1, <2>2, EscapeStaysAllowed DEF EscapeStays
    <3>2. batches' = batches /\ LastBatch' = LastBatch
      BY <3>1 DEF batchVars, LastBatch
    <3>3. <<Len(batches), leaf.account, leaf.token>> \notin escaped'
      BY <2>2 DEF EscapeStays
    <3>4. InVault(leaf.token, leaf.balance)'
      BY <2>2, <3>2, <3>3 DEF VaultHoldsEach
    <3> QED BY <2>2, <3>1, <3>4 DEF EscapeStays, CanEscape
  <2>3. ASSUME NEW index \in DOMAIN deposits, CanReclaim(index), ~ReclaimStays(index)
        PROVE  FALSE
    <3>1. UNCHANGED batchVars /\ MayReclaim(index)' /\ deposits'[index] = deposits[index]
      BY <2>1, <2>3, ReclaimStaysAllowed DEF ReclaimStays
    <3>2. index \in DOMAIN deposits' /\ index >= PrevState'.depositCursor
      <4>1. index \in DOMAIN deposits' /\ (batches' # <<>> => index >= LastBatch'.depositCursor)
        BY <3>1 DEF MayReclaim
      <4>2. index \in Nat
        BY <2>1 DEF TypeOK, DepositTypes
      <4> QED BY <4>1, <4>2 DEF PrevState
    <3>3. InVault(deposits[index].token, deposits[index].amount)'
      BY <3>2 DEF VaultHoldsEach
    <3> QED BY <2>3, <3>1, <3>3 DEF ReclaimStays, CanReclaim
  <2> QED BY <2>2, <2>3
<1> QED BY <1>1, EnoughForEach, RollupInvariant, PTL DEF SpecRollup, ExitsStayOpen

-----------------------------------------------------------------------------
(* The mock beside the contract *)

\* What the mock keeps is what the contract keeps: the chain, the deposits that
\* are still there and more, the claims; and, as long as nothing left the vault
\* on another way, its balance.
MockTypes ==
    mock \in [batches : Seq(SealedBatch), deposits : Seq(DepositInfo),
              claimedKeys : SUBSET (Nat \X Nat), claimed : [Token -> Int]]

SameChain ==
    /\ Len(mock.batches) = Len(batches)
    /\ \A b \in DOMAIN batches : /\ mock.batches[b].newRoot = batches[b].stateRoot
                                 /\ mock.batches[b].cursor = batches[b].depositCursor

SameDeposits ==
    /\ Len(mock.deposits) = depositCount
    /\ \A index \in DOMAIN deposits : mock.deposits[index + 1] = deposits[index]

\* MockVaultBalance, as a sum of module FlashRollup.
MockBalanceOf(m, token) == AmountOf(m.deposits, token) - m.claimed[token]

SameVault == ~SomeExit => \A token \in Token : MockBalanceOf(mock, token) = vault[token]

MockInv ==
    /\ MockTypes
    /\ SameChain
    /\ SameDeposits
    /\ mock.claimedKeys = claimed
    /\ SameVault

LEMMA MockBalanceIs ==
    ASSUME NEW token
    PROVE  MockVaultBalance(token) = MockBalanceOf(mock, token)
BY DEF MockVaultBalance, MockBalanceOf, AmountOf

LEMMA DepositsHaveAmounts == HaveAmounts(DepositInfo)
BY DEF HaveAmounts, DepositInfo

LEMMA MockFacts ==
    ASSUME RollupInv, MockInv
    PROVE  /\ Len(batches) \in Nat /\ DOMAIN batches = 1..Len(batches)
           /\ Len(mock.batches) = Len(batches) /\ DOMAIN mock.batches = 1..Len(batches)
           /\ depositCount \in Nat /\ Len(mock.deposits) = depositCount
           /\ DOMAIN deposits \subseteq 0..(depositCount - 1)
           /\ PrevState = [stateRoot |-> MockPrev.newRoot, depositCursor |-> MockPrev.cursor]
           /\ PrevState.depositCursor \in Nat
<1>1. /\ batches \in Seq(BatchInfo) /\ depositCount \in Nat /\ DOMAIN deposits \subseteq 0..(depositCount - 1)
  BY DEF RollupInv, TypeOK, DepositTypes
<1>2. Len(batches) \in Nat /\ DOMAIN batches = 1..Len(batches)
  BY <1>1
<1>3. mock.batches \in Seq(SealedBatch) /\ Len(mock.batches) = Len(batches)
  BY DEF MockInv, MockTypes, SameChain
<1>4. DOMAIN mock.batches = 1..Len(batches)
  BY <1>3
<1>5. PrevState = [stateRoot |-> MockPrev.newRoot, depositCursor |-> MockPrev.cursor]
  <2>1. CASE batches = <<>>
    <3>1. mock.batches = <<>>
      BY <1>3, <2>1
    <3> QED BY <2>1, <3>1 DEF PrevState, MockPrev
  <2>2. CASE batches # <<>>
    <3>1. Len(batches) \in DOMAIN batches /\ mock.batches # <<>>
      BY <1>1, <1>2, <1>3, <2>2
    <3>2. MockPrev = mock.batches[Len(batches)]
      BY <1>3, <3>1 DEF MockPrev
    <3>3. MockPrev.newRoot = LastBatch.stateRoot /\ MockPrev.cursor = LastBatch.depositCursor
      BY <3>1, <3>2 DEF MockInv, SameChain, LastBatch
    <3> QED BY <2>2, <3>3 DEF PrevState
  <2> QED BY <2>1, <2>2
<1> QED BY <1>1, <1>2, <1>3, <1>4, <1>5, InvFacts DEF MockInv, SameDeposits

\* Steps the mock is told nothing of, or in which nothing of it is at stake.
LEMMA MockQuiet ==
    ASSUME RollupInv, MockInv, mock' = mock,
           UNCHANGED <<batches, depositCount, claimed>>,
           \A index \in DOMAIN deposits' : index \in DOMAIN deposits /\ deposits'[index] = deposits[index],
           SomeExit' \/ UNCHANGED <<vault, payouts>>
    PROVE  MockInv'
<1>1. MockTypes' /\ SameChain' /\ SameDeposits' /\ mock'.claimedKeys = claimed'
  BY DEF MockInv, MockTypes, SameChain, SameDeposits
<1>2. SameVault'
  <2>1. CASE SomeExit'
    BY <2>1 DEF SameVault
  <2>2. CASE UNCHANGED <<vault, payouts>>
    BY <2>2 DEF MockInv, SameVault, SomeExit
  <2> QED BY <2>1, <2>2
<1> QED BY <1>1, <1>2 DEF MockInv

\* The mock hears of one call at a time.
Deposited == depositCount' > depositCount
Committed == Len(batches') > Len(batches)
Claimed == claimed' # claimed

LEMMA FollowsIs ==
    ASSUME MockFollows
    PROVE  /\ Deposited /\ ~Committed /\ ~Claimed => mock' = AfterDeposit(deposits'[depositCount])
           /\ ~Deposited /\ Committed /\ ~Claimed => mock' = AfterCommit(sealed[1])
           /\ ~Deposited /\ ~Committed /\ Claimed =>
                 mock' = AfterPaid(CHOOSE bw \in claimed' \ claimed : TRUE)
           /\ ~Deposited /\ ~Committed /\ ~Claimed => mock' = mock
BY Zenon DEF MockFollows, Deposited, Committed, Claimed

LEMMA NotTold ==
    ASSUME RollupInv, MockFollows, UNCHANGED <<batches, depositCount, claimed>>
    PROVE  mock' = mock
<1>1. depositCount \in Nat /\ Len(batches) \in Nat
  BY DEF RollupInv, TypeOK, DepositTypes
<1>2. ~Deposited /\ ~Committed /\ ~Claimed
  BY <1>1 DEF Deposited, Committed, Claimed
<1> QED BY <1>2, FollowsIs

LEMMA MockTakesDeposit ==
    ASSUME RollupInv, MockInv, MockFollows, SomeDeposit
    PROVE  MockInv'
<1> PICK r \in DepositRequest : Deposit(r)
  BY DEF SomeDeposit
<1> PICK n : n = depositCount
  OBVIOUS
<1> PICK info : info = [from |-> r.from, token |-> r.token, amount |-> r.amount,
                        l2Recipient |-> r.l2Recipient, ledger |-> ledger]
  OBVIOUS
<1>1. /\ deposits' = [j \in DOMAIN deposits \cup {n} |-> IF j = n THEN info ELSE deposits[j]]
      /\ depositCount' = n + 1
      /\ vault' = [vault EXCEPT ![r.token] = @ + r.amount]
      /\ UNCHANGED <<batches, claimed, payouts>>
  BY DEF Deposit, StoreDeposit, exitVars, batchVars
<1>2. /\ n \in Nat /\ DOMAIN deposits \subseteq 0..(n - 1) /\ Len(mock.deposits) = n
      /\ vault \in [Token -> Nat]
  BY MockFacts DEF RollupInv, TypeOK
<1>3. info \in DepositInfo /\ info.token = r.token /\ info.amount = r.amount /\ r.amount \in Nat /\ r.token \in Token
  <2>1. r.from \in Address /\ r.token \in Token /\ r.amount \in Int /\ r.l2Recipient \in Address
    BY BridgeInputs
  <2>2. r.amount \in Nat
    BY <2>1 DEF Deposit
  <2>3. ledger \in 0..U32Max
    BY DEF RollupInv, TypeOK, ClockTypes
  <2> QED BY <2>1, <2>2, <2>3 DEF DepositInfo
<1>4. mock' = [mock EXCEPT !.deposits = Append(@, info)]
  <2>1. /\ Deposited /\ ~Committed /\ ~Claimed
        /\ deposits'[depositCount] = info
    BY <1>1, <1>2, MockFacts DEF Deposited, Committed, Claimed
  <2>2. mock' = AfterDeposit(info)
    BY <2>1, FollowsIs
  <2> QED BY <2>2 DEF AfterDeposit
<1>5. /\ mock.batches \in Seq(SealedBatch) /\ mock.deposits \in Seq(DepositInfo) /\ mock.claimed \in [Token -> Int]
  BY DEF MockInv, MockTypes
<1>6. /\ mock'.batches = mock.batches /\ mock'.claimedKeys = mock.claimedKeys /\ mock'.claimed = mock.claimed
      /\ mock'.deposits = Append(mock.deposits, info)
  BY <1>4 DEF MockInv, MockTypes
<1>7. /\ Append(mock.deposits, info) \in Seq(DepositInfo)
      /\ Len(Append(mock.deposits, info)) = n + 1
      /\ \A i \in 1..n : Append(mock.deposits, info)[i] = mock.deposits[i]
      /\ Append(mock.deposits, info)[n + 1] = info
  <2>1. info \in DepositInfo /\ mock.deposits \in Seq(DepositInfo)
    BY <1>3, <1>5
  <2>2. PICK more : more = Append(mock.deposits, info)
    OBVIOUS
  <2>3. /\ more \in Seq(DepositInfo) /\ Len(more) = Len(mock.deposits) + 1
        /\ \A i \in 1..Len(mock.deposits) : more[i] = mock.deposits[i]
        /\ more[Len(mock.deposits) + 1] = info
    BY <2>1, <2>2, AppendIs
  <2> QED BY <1>2, <2>2, <2>3
<1>8. MockTypes' /\ SameChain' /\ mock'.claimedKeys = claimed'
  <2>1. SameChain' /\ mock'.claimedKeys = claimed'
    BY <1>1, <1>6 DEF MockInv, SameChain
  <2>2. PICK more \in Seq(DepositInfo) : more = Append(mock.deposits, info)
    BY <1>7
  <2>3. mock' = [mock EXCEPT !.deposits = more]
    BY <1>4, <2>2
  <2>4. MockTypes'
    BY <2>3 DEF MockInv, MockTypes
  <2> QED BY <2>1, <2>4
<1>9. SameDeposits'
  <2>1. ASSUME NEW index \in DOMAIN deposits' PROVE mock'.deposits[index + 1] = deposits'[index]
    <3>1. CASE index = n
      BY <1>1, <1>6, <1>7, <3>1
    <3>2. CASE index # n
      <4>1. index \in DOMAIN deposits /\ deposits'[index] = deposits[index] /\ index + 1 \in 1..n
        BY <1>1, <1>2, <3>2
      <4> QED BY <1>6, <1>7, <4>1 DEF MockInv, SameDeposits
    <3> QED BY <3>1, <3>2
  <2> QED BY <1>1, <1>6, <1>7, <2>1 DEF SameDeposits
<1>10. SameVault'
  <2> SUFFICES ASSUME ~SomeExit, NEW token \in Token PROVE MockBalanceOf(mock', token) = vault'[token]
    BY <1>1 DEF SameVault, SomeExit
  <2>1. MockBalanceOf(mock, token) = vault[token]
    BY DEF MockInv, SameVault
  <2>3. AmountOf(Append(mock.deposits, info), token)
          = AmountOf(mock.deposits, token) + (IF info.token = token THEN info.amount ELSE 0)
    BY <1>3, <1>5, DepositsHaveAmounts, OneMoreAmount
  <2>4. AmountOf(mock.deposits, token) \in Nat
    BY <1>5, DepositsHaveAmounts, SumOfAmounts
  <2>5. vault'[token] = vault[token] + (IF r.token = token THEN r.amount ELSE 0)
    BY <1>1, <1>2
  <2>6. mock.claimed[token] \in Int
    BY <1>5
  <2>7. MockBalanceOf(mock', token) = AmountOf(Append(mock.deposits, info), token) - mock.claimed[token]
    BY <1>6 DEF MockBalanceOf
  <2>8. MockBalanceOf(mock, token) = AmountOf(mock.deposits, token) - mock.claimed[token]
    BY DEF MockBalanceOf
  <2> QED BY <1>3, <2>1, <2>3, <2>4, <2>5, <2>6, <2>7, <2>8
<1> QED BY <1>8, <1>9, <1>10 DEF MockInv

LEMMA MockTakesClaim ==
    ASSUME RollupInv, MockInv, MockFollows, ClaimWithdrawal
    PROVE  MockInv'
<1> PICK b \in DOMAIN batches : \E w \in DOMAIN batches[b].withdrawalsRoot.leaves :
        LET leaf == batches[b].withdrawalsRoot.leaves[w] IN
        Withdraw(b, w, leaf.recipient, leaf.token, leaf.amount)
  BY DEF ClaimWithdrawal
<1> PICK w \in DOMAIN batches[b].withdrawalsRoot.leaves :
        LET leaf == batches[b].withdrawalsRoot.leaves[w] IN
        Withdraw(b, w, leaf.recipient, leaf.token, leaf.amount)
  OBVIOUS
<1> PICK leaf : leaf = batches[b].withdrawalsRoot.leaves[w]
  OBVIOUS
<1>1. Withdraw(b, w, leaf.recipient, leaf.token, leaf.amount)
  OBVIOUS
<1>2. TypeOK /\ GoodOutbox(batches) /\ depositCount \in Nat /\ Len(batches) \in Nat
  BY MockFacts DEF RollupInv, PublishedTypes
<1>3. b \in Nat /\ w \in Nat /\ leaf.token \in Token /\ leaf.amount \in Nat
  <2>1. batches[b].withdrawalsRoot.leaves \in Seq(F!Withdrawals) /\ b \in Nat
    BY <1>2, MockFacts DEF GoodOutbox
  <2>2. leaf \in F!Withdrawals /\ w \in Nat
    BY <2>1
  <2> QED BY <2>1, <2>2, WithdrawalFacts
<1>4. /\ <<b, w>> \notin claimed /\ claimed' = claimed \cup {<<b, w>>}
      /\ UNCHANGED <<batches, deposits, depositCount>>
      /\ PayOut("withdraw", b, w, leaf.recipient, leaf.token, leaf.amount)
  BY <1>1 DEF Withdraw, batchVars, depositVars
<1>5. Spent(leaf.token, leaf.amount) /\ Recorded("withdraw", w)
  BY <1>2, <1>3, <1>4, PayOutFacts
<1>6. mock' = AfterPaid(<<b, w>>)
  <2>1. ~Deposited /\ ~Committed /\ Claimed
    BY <1>2, <1>4 DEF Deposited, Committed, Claimed
  <2>2. claimed' \ claimed = {<<b, w>>}
    BY <1>4
  <2>3. PICK claim : claim = CHOOSE bw \in claimed' \ claimed : TRUE
    OBVIOUS
  <2>4. claim = <<b, w>>
    BY <2>2, <2>3
  <2> QED BY <2>1, <2>3, <2>4, FollowsIs
<1>7. PICK t : t = leaf.token
  OBVIOUS
<1>8. PICK amount : amount = leaf.amount
  OBVIOUS
<1>9. mock' = [mock EXCEPT !.claimedKeys = @ \cup {<<b, w>>}, !.claimed[t] = @ + amount]
  <2>1. AfterPaid(<<b, w>>) = AfterClaim(b, w, t, amount)
    BY <1>7, <1>8 DEF AfterPaid
  <2> QED BY <1>6, <2>1 DEF AfterClaim
<1>10. /\ mock \in [batches : Seq(SealedBatch), deposits : Seq(DepositInfo),
                    claimedKeys : SUBSET (Nat \X Nat), claimed : [Token -> Int]]
       /\ t \in Token /\ amount \in Nat
  BY <1>3, <1>7, <1>8 DEF MockInv, MockTypes
<1>11. /\ mock'.batches = mock.batches /\ mock'.deposits = mock.deposits
       /\ mock'.claimedKeys = mock.claimedKeys \cup {<<b, w>>}
       /\ mock'.claimed = [mock.claimed EXCEPT ![t] = @ + amount]
  BY <1>9, <1>10
<1>12. MockTypes'
  <2>1. mock.claimed \in [Token -> Int] /\ mock.claimed[t] + amount \in Int
    BY <1>10
  <2>2. mock'.claimed \in [Token -> Int]
    BY <1>11, <2>1
  <2>3. mock'.claimedKeys \in SUBSET (Nat \X Nat)
    BY <1>3, <1>10, <1>11
  <2>4. mock' = [mock EXCEPT !.claimedKeys = mock'.claimedKeys, !.claimed = mock'.claimed]
    BY <1>9, <1>10, <1>11
  <2> QED BY <1>10, <2>2, <2>3, <2>4 DEF MockTypes
<1>13. SameChain' /\ SameDeposits' /\ mock'.claimedKeys = claimed'
  BY <1>4, <1>11 DEF MockInv, SameChain, SameDeposits
<1>14. SameVault'
  <2> SUFFICES ASSUME ~SomeExit', NEW token \in Token PROVE MockBalanceOf(mock', token) = vault'[token]
    BY DEF SameVault
  <2>1. ~SomeExit
    BY <1>5 DEF SomeExit, Recorded
  <2>2. MockBalanceOf(mock, token) = vault[token]
    BY <2>1 DEF MockInv, SameVault
  <2>3. AmountOf(mock.deposits, token) \in Nat /\ mock.claimed[token] \in Int
    BY <1>10, DepositsHaveAmounts, SumOfAmounts
  <2>4. MockBalanceOf(mock', token) = AmountOf(mock.deposits, token) - mock'.claimed[token]
    BY <1>11 DEF MockBalanceOf
  <2>5. MockBalanceOf(mock, token) = AmountOf(mock.deposits, token) - mock.claimed[token]
    BY DEF MockBalanceOf
  <2>6. mock'.claimed[token] = mock.claimed[token] + (IF token = t THEN amount ELSE 0)
    BY <1>10, <1>11
  <2>7. vault'[token] = vault[token] - (IF token = t THEN amount ELSE 0)
    BY <1>5, <1>7, <1>8 DEF Spent
  <2>8. PICK paid \in Nat : paid = IF token = t THEN amount ELSE 0
    BY <1>10
  <2>9. PICK sum \in Nat : sum = AmountOf(mock.deposits, token)
    BY <2>3
  <2>10. PICK before \in Int : before = mock.claimed[token]
    BY <2>3
  <2>11. MockBalanceOf(mock', token) = sum - (before + paid)
    BY <2>4, <2>6, <2>8, <2>9, <2>10
  <2>12. vault'[token] = (sum - before) - paid
    BY <2>2, <2>5, <2>7, <2>8, <2>9, <2>10
  <2> QED BY <2>8, <2>9, <2>10, <2>11, <2>12
<1> QED BY <1>12, <1>13, <1>14 DEF MockInv

LEMMA MockTakesBatch ==
    ASSUME RollupInv, MockInv, MockFollows, CommitSealed
    PROVE  MockInv'
<1> PICK first : first = sealed[1]
  OBVIOUS
<1> PICK n : n = Len(batches)
  OBVIOUS
<1>1. /\ batches' = Append(batches, CommittedInfo(first)) /\ Len(batches') = n + 1
      /\ batches'[n + 1] = CommittedInfo(first) /\ DOMAIN batches' = 1..Len(batches')
      /\ \A b \in DOMAIN batches : batches'[b] = batches[b]
      /\ 1 \in DOMAIN sealed
  BY CommitShifts
<1>2. UNCHANGED <<deposits, depositCount, claimed, vault, payouts>>
  BY DEF CommitSealed, CommitBatch, depositVars, exitVars
<1>3. /\ n \in Nat /\ DOMAIN batches = 1..n /\ Len(mock.batches) = n /\ depositCount \in Nat
      /\ mock \in [batches : Seq(SealedBatch), deposits : Seq(DepositInfo),
                   claimedKeys : SUBSET (Nat \X Nat), claimed : [Token -> Int]]
  BY MockFacts DEF MockInv, MockTypes
<1>4. first \in SealedBatch
  BY <1>1 DEF RollupInv, SequencerTypes
<1>5. mock' = [mock EXCEPT !.batches = Append(@, first)]
  <2>1. ~Deposited /\ Committed /\ ~Claimed
    BY <1>1, <1>2, <1>3 DEF Deposited, Committed, Claimed
  <2>2. mock' = AfterCommit(first)
    BY <2>1, FollowsIs
  <2> QED BY <2>2 DEF AfterCommit
<1>6. PICK more : more = Append(mock.batches, first)
  OBVIOUS
<1>7. /\ more \in Seq(SealedBatch) /\ Len(more) = Len(mock.batches) + 1
      /\ \A i \in 1..Len(mock.batches) : more[i] = mock.batches[i]
      /\ more[Len(mock.batches) + 1] = first
  <2>1. mock.batches \in Seq(SealedBatch)
    BY <1>3
  <2> QED BY <1>4, <1>6, <2>1, AppendIs
<1>8. /\ mock' = [mock EXCEPT !.batches = more] /\ mock'.batches = more
      /\ mock'.deposits = mock.deposits /\ mock'.claimedKeys = mock.claimedKeys
      /\ mock'.claimed = mock.claimed
  BY <1>3, <1>5, <1>6
<1>9. MockTypes'
  BY <1>3, <1>7, <1>8 DEF MockTypes
<1>10. SameChain'
  <2>1. ASSUME NEW b \in DOMAIN batches'
        PROVE  more[b].newRoot = batches'[b].stateRoot /\ more[b].cursor = batches'[b].depositCursor
    <3>1. CASE b = n + 1
      BY <1>1, <1>3, <1>7, <3>1 DEF CommittedInfo
    <3>2. CASE b # n + 1
      <4>1. b \in 1..n
        BY <1>1, <1>3, <2>1, <3>2
      <4> QED BY <1>1, <1>3, <1>7, <4>1 DEF MockInv, SameChain
    <3> QED BY <3>1, <3>2
  <2> QED BY <1>1, <1>3, <1>7, <1>8, <2>1 DEF SameChain
<1>11. SameDeposits' /\ mock'.claimedKeys = claimed'
  BY <1>2, <1>8 DEF MockInv, SameDeposits
<1>12. SameVault'
  <2>1. \A token : MockBalanceOf(mock', token) = MockBalanceOf(mock, token)
    BY <1>8 DEF MockBalanceOf
  <2> QED BY <1>2, <2>1 DEF MockInv, SameVault, SomeExit
<1> QED BY <1>9, <1>10, <1>11, <1>12 DEF MockInv

\* An emergency exit is what the mock does not know.
LEMMA MockMissesExit ==
    ASSUME RollupInv, MockInv, MockFollows, EscapeSome \/ SomeReclaim
    PROVE  MockInv'
<1>1. TypeOK /\ PublishedTypes
  BY DEF RollupInv
<1>2. CASE EscapeSome
  <2> PICK leaf \in LastBatch.stateRoot : Escape(leaf.account, leaf.token, leaf.balance, leaf.nonce)
    BY <1>2 DEF EscapeSome
  <2>1. leaf.account \in Address /\ leaf.token \in Token /\ leaf.balance \in Nat
    <3>1. batches # <<>>
      BY <1>2 DEF EscapeSome
    <3>2. GoodRoot(LastBatch.stateRoot)
      BY <1>1, <3>1, PrevFacts
    <3> QED BY <3>2, LeafFacts DEF GoodRoot
  <2>2. PayOut("escape", Len(batches), 0, leaf.account, leaf.token, leaf.balance)
    BY DEF Escape
  <2>3. Recorded("escape", 0)
    BY <1>1, <2>1, <2>2, PayOutFacts
  <2>4. UNCHANGED <<batches, deposits, depositCount, claimed>>
    BY DEF Escape, batchVars, depositVars
  <2>5. SomeExit'
    BY <2>3 DEF Recorded, SomeExit
  <2>6. mock' = mock
    BY <2>4, NotTold
  <2> QED BY <2>4, <2>5, <2>6, MockQuiet
<1>3. CASE SomeReclaim
  <2> PICK index \in 0..MaxDeposits : ReclaimDeposit(index)
    BY <1>3 DEF SomeReclaim
  <2>1. /\ index \in DOMAIN deposits
        /\ deposits' = [i \in DOMAIN deposits \ {index} |-> deposits[i]]
        /\ UNCHANGED <<batches, depositCount, claimed>>
    BY DEF ReclaimDeposit, MayReclaim, RemoveDeposit, batchVars
  <2> PICK info : info = deposits[index]
    OBVIOUS
  <2>2. info.token \in Token /\ info.amount \in Nat
    BY <1>1, <2>1 DEF TypeOK, DepositTypes, DepositInfo
  <2>3. PayOut("reclaim", 0, index, info.from, info.token, info.amount)
    BY DEF ReclaimDeposit
  <2>4. Recorded("reclaim", index)
    BY <1>1, <2>2, <2>3, PayOutFacts
  <2>5. SomeExit'
    BY <2>4 DEF Recorded, SomeExit
  <2>6. mock' = mock
    BY <2>1, NotTold
  <2>7. \A i \in DOMAIN deposits' : i \in DOMAIN deposits /\ deposits'[i] = deposits[i]
    BY <2>1
  <2> QED BY <2>1, <2>5, <2>6, <2>7, MockQuiet
<1> QED BY <1>2, <1>3

\* Steps in which nothing moves on L1.
LEMMA MockRests ==
    ASSUME RollupInv, MockInv, MockFollows \/ mock' = mock, SameContract
    PROVE  MockInv'
<1>1. UNCHANGED <<batches, depositCount, claimed>> /\ UNCHANGED deposits /\ UNCHANGED <<vault, payouts>>
  BY DEF SameContract
<1>2. mock' = mock
  BY <1>1, NotTold
<1> QED BY <1>1, <1>2, MockQuiet

LEMMA MockStarts == MockInit => MockInv
<1> SUFFICES ASSUME MockInit PROVE MockInv
  OBVIOUS
<1>1. /\ batches = <<>> /\ deposits = [i \in {} |-> i] /\ depositCount = 0 /\ claimed = {}
      /\ vault = [t \in Token |-> 0]
  BY DEF MockInit, InitRollup, Init
<1>2. mock = [batches |-> <<>>, deposits |-> <<>>, claimedKeys |-> {}, claimed |-> [t \in Token |-> 0]]
  BY DEF MockInit
<1>3. MockTypes /\ mock.claimedKeys = claimed
  BY <1>1, <1>2 DEF MockTypes
<1>4. SameChain /\ SameDeposits
  BY <1>1, <1>2 DEF SameChain, SameDeposits
<1>5. SameVault
  <2> SUFFICES ASSUME NEW token \in Token PROVE MockBalanceOf(mock, token) = vault[token]
    BY DEF SameVault
  <2>1. mock.deposits = <<>> /\ mock.claimed[token] = 0 /\ vault[token] = 0
    BY <1>1, <1>2
  <2>2. AmountOf(<<>>, token) = 0
    BY NothingOut
  <2>3. MockBalanceOf(mock, token) = AmountOf(<<>>, token) - 0
    BY <2>1 DEF MockBalanceOf
  <2> QED BY <2>1, <2>2, <2>3
<1> QED BY <1>3, <1>4, <1>5 DEF MockInv

LEMMA MockStep ==
    ASSUME RollupInv, MockInv, [NextRollup /\ MockFollows]_mockVars
    PROVE  MockInv'
<1>1. CASE UNCHANGED mockVars
  <2>1. SameContract /\ mock' = mock
    BY <1>1 DEF mockVars, allVars, vars, batchVars, depositVars, exitVars, SameContract
  <2> QED BY <2>1, MockRests
<1>2. CASE NextRollup /\ MockFollows
  <2>1. ASSUME UNCHANGED vars PROVE MockInv'
    <3>1. SameContract
      BY <2>1 DEF vars, batchVars, depositVars, exitVars, SameContract
    <3> QED BY <1>2, <3>1, MockRests
  <2>2. CASE CreditDeposit \/ (\E request \in L2Request : Execute(request)) \/ SealBatch \/ CheckSolvency \/ Restart
    <3>1. UNCHANGED vars
      BY <2>2 DEF CreditDeposit, Execute, SealBatch, CheckSolvency, Restart
    <3> QED BY <2>1, <3>1
  <2>3. CASE CommitSealed
    BY <1>2, <2>3, MockTakesBatch
  <2>4. CASE BridgeStep
    <3>1. CASE CloseLedger \/ SomeAdminCall
      <4>1. SameContract
        BY <3>1 DEF CloseLedger, SomeAdminCall, SetSequencer, SetAdmin, SetPaused, SameContract,
                    batchVars, depositVars, exitVars
      <4> QED BY <1>2, <4>1, MockRests
    <3>2. CASE SomeDeposit
      BY <1>2, <3>2, MockTakesDeposit
    <3>3. CASE ClaimWithdrawal
      BY <1>2, <3>3, MockTakesClaim
    <3>4. CASE EscapeSome \/ SomeReclaim
      BY <1>2, <3>4, MockMissesExit
    <3> QED BY <2>4, <3>1, <3>2, <3>3, <3>4 DEF BridgeStep
  <2> QED BY <1>2, <2>2, <2>3, <2>4 DEF NextRollup
<1> QED BY <1>1, <1>2

\* The answers to commitBatch.
LEMMA AnswersAgree ==
    ASSUME RollupInv, MockInv, ~paused, NEW call \in Calls, NEW conditions \in Conditions
    PROVE  LET accepted == MayCommit(sequencer, call.index, call.prevRoot, call.txCount, call.cursor)
           IN  /\ CommitAnswer(conditions, call) = "committed" => accepted
               /\ accepted /\ conditions.mode = "healthy" => CommitAnswer(conditions, call) = "committed"
<1>1. /\ Len(mock.batches) = Len(batches) /\ Len(mock.deposits) = depositCount
      /\ PrevState = [stateRoot |-> MockPrev.newRoot, depositCursor |-> MockPrev.cursor]
  BY MockFacts
<1>2. MayCommit(sequencer, call.index, call.prevRoot, call.txCount, call.cursor) <=>
         /\ call.index = Len(mock.batches) + 1 /\ call.txCount # 0
         /\ call.prevRoot = MockPrev.newRoot /\ CursorInRange(call.cursor)
  BY <1>1 DEF MayCommit, CursorInRange
<1>3. CommitAnswer(conditions, call) = "committed" =>
         MayCommit(sequencer, call.index, call.prevRoot, call.txCount, call.cursor)
  BY <1>2 DEF CommitAnswer
<1>4. ASSUME MayCommit(sequencer, call.index, call.prevRoot, call.txCount, call.cursor),
             conditions.mode = "healthy"
      PROVE  CommitAnswer(conditions, call) = "committed"
  BY <1>2, <1>4 DEF CommitAnswer
<1> QED BY <1>3, <1>4

LEMMA MockAgrees ==
    ASSUME RollupInv, MockInv
    PROVE  MockReproducesContract
<1>1. /\ Len(mock.batches) = Len(batches) /\ Len(mock.deposits) = depositCount
      /\ PrevState.stateRoot = MockPrev.newRoot
  BY MockFacts
<1>2. MockBridgeState = [batchCount |-> Len(batches), depositCount |-> depositCount,
                         stateRoot |-> PrevState.stateRoot]
  BY <1>1 DEF MockBridgeState
<1>3. ~paused =>
        \A call \in Calls, conditions \in Conditions :
           LET accepted == MayCommit(sequencer, call.index, call.prevRoot, call.txCount, call.cursor)
           IN  /\ CommitAnswer(conditions, call) = "committed" => accepted
               /\ accepted /\ conditions.mode = "healthy" => CommitAnswer(conditions, call) = "committed"
  BY AnswersAgree
<1>4. \A b \in DOMAIN batches : \A w \in DOMAIN batches[b].withdrawalsRoot.leaves :
        <<b, w>> \notin claimed => ~ClaimTaken(b, w)
  BY DEF MockInv, ClaimTaken
<1>5. ASSUME \A p \in DOMAIN payouts : p.kind = "withdraw"
      PROVE  /\ \A token \in Token : MockVaultBalance(token) = vault[token]
             /\ \A index \in DOMAIN deposits : MockGetDeposit(index) = deposits[index]
  <2>1. ~SomeExit
    BY <1>5 DEF SomeExit
  <2>2. \A token \in Token : MockVaultBalance(token) = vault[token]
    BY <2>1, MockBalanceIs DEF MockInv, SameVault
  <2>3. \A index \in DOMAIN deposits : MockGetDeposit(index) = deposits[index]
    BY DEF MockInv, SameDeposits, MockGetDeposit
  <2> QED BY <2>2, <2>3
<1> QED BY <1>2, <1>3, <1>4, <1>5 DEF MockReproducesContract

\* The mock of the tests takes the batches the contract takes, refuses those it
\* refuses, pays each claim it pays, and answers what it answers, as long as
\* nobody uses an emergency exit (MockL1!MockReproducesContract).
THEOREM MockIsFaithful == SpecMock => []MockReproducesContract
<1>1. MockInit => RollupInv /\ MockInv
  BY RollupStarts, MockStarts DEF MockInit
<1>2. RollupInv /\ MockInv /\ [NextRollup /\ MockFollows]_mockVars => (RollupInv /\ MockInv)'
  <2> SUFFICES ASSUME RollupInv, MockInv, [NextRollup /\ MockFollows]_mockVars
               PROVE  RollupInv' /\ MockInv'
    OBVIOUS
  <2>1. [NextRollup]_allVars
    BY DEF mockVars
  <2> QED BY <2>1, RollupStep, MockStep
<1>3. RollupInv /\ MockInv => MockReproducesContract
  BY MockAgrees
<1> QED BY <1>1, <1>2, <1>3, PTL DEF SpecMock
=============================================================================
