---------------------------- MODULE WalletProofs ----------------------------
(***************************************************************************)
(* Theorems about Wallet, for any accounts, forms, other clients, number   *)
(* of rows and of moves: the four safety properties of its run.            *)
(*                                                                         *)
(* The argument is the invariant WalletInv, part by part.  The log has the *)
(* nonce of an account up to the one it is given next, each on a row that  *)
(* is signed by the account (ServerInv); so a transaction with the next    *)
(* nonce is new, and a refusal as BAD_NONCE means that its nonce landed on *)
(* another row.  A tap is in one place only: in the hands of run, on its   *)
(* way, or in the log (RequestInv, BusyInv); so a request that arrives     *)
(* late is executed once, and what a code refused is nowhere any more      *)
(* (SaidInv).  What the page lists are rows of withdrawals, whatever       *)
(* overtook what (PageInv).                                                *)
(*                                                                         *)
(* The second part is about the bytes an auditor reads: each field is read *)
(* where it was written (ReadsOne, ReadsFive, ReadsSix), each transaction  *)
(* as it was encoded (DecodeTxIs), and the frames of a batch one after the *)
(* other (BatchRoundTrip).                                                 *)
(***************************************************************************)
EXTENDS Wallet, FlashStateProofs

-----------------------------------------------------------------------------
(* Transactions, and what the server answers *)

\* What signingMessage is made of, and what a signature can be.
Bodies == [type : {"transfer", "withdraw"}, from : Account, to : Account, token : {Asset},
           amount : Nat, nonce : Nat, signature : {None}]

Signatures == [key : Account, form : {"raw", "hex"}, message : {SigningMessage(body) : body \in Bodies}]

UserTxs == [type : {"transfer", "withdraw"}, from : Account, to : Account, token : {Asset},
            amount : Nat, nonce : Nat, signature : Signatures]

DepositTxs == [type : {"deposit"}, depositIndex : Nat, to : Account, token : Token, amount : Nat,
               l1TxHash : STRING \cup {"relay"}]

\* What validate asks of a transaction of a user.
Accepts(s, tx) ==
    /\ tx.amount > 0
    /\ tx.type = "transfer" => tx.from # tx.to
    /\ VerifyTxSignature(tx)
    /\ NonceMatches(s, tx)
    /\ BalanceCovers(s, tx)

LEMMA JsonRoundTrip ==
    ASSUME NEW tx \in UserTxs
    PROVE  TxFromJson(TxToJson(tx)) = [ok |-> TRUE, tx |-> tx]
<1>1. CASE tx.type = "transfer"
  <2> DEFINE json == [type |-> tx.type, from |-> tx.from, to |-> tx.to, token |-> tx.token,
                      amount |-> Text(tx.amount), nonce |-> Text(tx.nonce), signature |-> Text(tx.signature)]
  <2>1. TxToJson(tx) = json
    BY <1>1 DEF TxToJson
  <2>2. json.type \in DOMAIN JsonFields /\ JsonFields[json.type] \subseteq DOMAIN json
    BY <1>1 DEF JsonFields
  <2>3. TxFromJson(json).ok /\ TxFromJson(json) = [ok |-> TRUE, tx |->
           [type |-> tx.type, from |-> tx.from, token |-> tx.token, to |-> tx.to,
            amount |-> tx.amount, nonce |-> tx.nonce, signature |-> tx.signature]]
    BY <1>1, <2>2 DEF TxFromJson, Text
  <2>4. tx = [type |-> tx.type, from |-> tx.from, token |-> tx.token, to |-> tx.to,
              amount |-> tx.amount, nonce |-> tx.nonce, signature |-> tx.signature]
    BY DEF UserTxs
  <2> QED BY <2>1, <2>3, <2>4
<1>2. CASE tx.type = "withdraw"
  <2> DEFINE json == [type |-> tx.type, from |-> tx.from, l1Recipient |-> tx.to, token |-> tx.token,
                      amount |-> Text(tx.amount), nonce |-> Text(tx.nonce), signature |-> Text(tx.signature)]
  <2>1. TxToJson(tx) = json
    BY <1>2 DEF TxToJson
  <2>2. json.type \in DOMAIN JsonFields /\ JsonFields[json.type] \subseteq DOMAIN json
    BY <1>2 DEF JsonFields
  <2>3. TxFromJson(json).ok /\ TxFromJson(json) = [ok |-> TRUE, tx |->
           [type |-> tx.type, from |-> tx.from, token |-> tx.token, to |-> tx.to,
            amount |-> tx.amount, nonce |-> tx.nonce, signature |-> tx.signature]]
    BY <1>2, <2>2 DEF TxFromJson, Text
  <2>4. tx = [type |-> tx.type, from |-> tx.from, token |-> tx.token, to |-> tx.to,
              amount |-> tx.amount, nonce |-> tx.nonce, signature |-> tx.signature]
    BY DEF UserTxs
  <2> QED BY <2>1, <2>3, <2>4
<1> QED BY <1>1, <1>2 DEF UserTxs

\* The first refusal that applies is the answer.
LEMMA LeastIsMin ==
    ASSUME NEW S, S \subseteq Nat, S # {}
    PROVE  Min(S) \in S /\ \A x \in S : Min(S) <= x
<1>1. \E x \in S : \A y \in S : x <= y
  BY Least
<1> QED BY <1>1 DEF Min

LEMMA RefusalsAre ==
    ASSUME NEW s, NEW tx \in UserTxs
    PROVE  LET refusals == Refusals(s, tx)
               refused == {i \in DOMAIN refusals : refusals[i].if}
           IN  /\ DOMAIN refusals = 1..6
               /\ refused = {} <=> Accepts(s, tx)
               /\ \A i \in refused : refusals[i].code \in FlashCodes
               /\ \A i \in refused : refusals[i].code = "BAD_NONCE" => ~NonceMatches(s, tx)
<1> DEFINE refusals == Refusals(s, tx)
           refused == {i \in DOMAIN refusals : refusals[i].if}
<1>1. DOMAIN refusals = 1..6
  BY DEF Refusals
<1>2. tx.token \in Token /\ tx.amount \in Nat
  BY WalletConfig DEF UserTxs
<1>3. /\ (refusals[1].if <=> tx.amount <= 0) /\ refusals[1].code = "INVALID_AMOUNT"
      /\ (refusals[2].if <=> tx.token \notin Token) /\ refusals[2].code = "TOKEN_NOT_ALLOWED"
      /\ (refusals[3].if <=> tx.type = "transfer" /\ tx.from = tx.to) /\ refusals[3].code = "SELF_TRANSFER"
      /\ (refusals[4].if <=> ~VerifyTxSignature(tx)) /\ refusals[4].code = "INVALID_SIGNATURE"
      /\ (refusals[5].if <=> ~NonceMatches(s, tx)) /\ refusals[5].code = "BAD_NONCE"
      /\ (refusals[6].if <=> ~BalanceCovers(s, tx)) /\ refusals[6].code = "INSUFFICIENT_BALANCE"
  BY DEF Refusals
<1>4. \A i \in 1..6 : i = 1 \/ i = 2 \/ i = 3 \/ i = 4 \/ i = 5 \/ i = 6
  OBVIOUS
<1> HIDE DEF refusals
<1>5. \A i \in refused : refusals[i].code \in FlashCodes
  BY <1>1, <1>3, <1>4 DEF FlashCodes
<1>6. \A i \in refused : refusals[i].code = "BAD_NONCE" => ~NonceMatches(s, tx)
  BY <1>1, <1>3, <1>4
<1>7. ASSUME refused = {} PROVE Accepts(s, tx)
  <2>1. ~refusals[1].if /\ ~refusals[3].if /\ ~refusals[4].if /\ ~refusals[5].if /\ ~refusals[6].if
    BY <1>1, <1>7
  <2> QED BY <1>2, <1>3, <2>1 DEF Accepts
<1>8. ASSUME Accepts(s, tx) PROVE refused = {}
  BY <1>1, <1>2, <1>3, <1>4, <1>8 DEF Accepts
<1> QED BY <1>1, <1>5, <1>6, <1>7, <1>8 DEF refusals

\* submit executes what is valid and new, and says what is wrong with the rest.
LEMMA SubmitIs ==
    ASSUME NEW s, NEW log, NEW tx \in UserTxs, NEW snapshotFails
    PROVE  LET answer == Submit(s, log, tx, snapshotFails)
           IN  /\ Accepts(s, tx) /\ ~Duplicate(log, tx) =>
                     answer = Answer(500, "INTERNAL") \/ answer = Answer(201, "receipt")
               /\ ~(Accepts(s, tx) /\ ~Duplicate(log, tx)) =>
                     /\ answer = Answer(422, answer.code)
                     /\ answer.code \in FlashCodes
                     /\ answer.code = "BAD_NONCE" => ~NonceMatches(s, tx) \/ Duplicate(log, tx)
<1> DEFINE refusals == Refusals(s, tx)
           refused == {i \in DOMAIN refusals : refusals[i].if}
           answer == Submit(s, log, tx, snapshotFails)
<1>1. /\ DOMAIN refusals = 1..6
      /\ refused = {} <=> Accepts(s, tx)
      /\ \A i \in refused : refusals[i].code \in FlashCodes
      /\ \A i \in refused : refusals[i].code = "BAD_NONCE" => ~NonceMatches(s, tx)
  BY RefusalsAre
<1>2. refused \subseteq Nat
  BY <1>1
<1> HIDE DEF refusals
<1>3. /\ refused # {} => answer = Answer(422, refusals[Min(refused)].code)
      /\ refused = {} /\ Duplicate(log, tx) => answer = Answer(422, "BAD_NONCE")
      /\ refused = {} /\ ~Duplicate(log, tx) =>
            answer = Answer(500, "INTERNAL") \/ answer = Answer(201, "receipt")
  BY DEF Submit, refusals
<1> HIDE DEF answer, refused
<1>4. refused # {} => Min(refused) \in refused
  BY <1>2, LeastIsMin
<1> QED BY <1>1, <1>3, <1>4 DEF Answer, FlashCodes, answer

\* What a posted transaction is answered.
LEMMA PostIs ==
    ASSUME NEW s, NEW log, NEW tx \in UserTxs, NEW snapshotFails
    PROVE  PostTransaction(s, log, TxToJson(tx), snapshotFails) =
              IF CanSpend(tx) THEN Submit(s, log, tx, snapshotFails) ELSE Answer(403, "NOT_ALLOWLISTED")
<1> DEFINE parsed == TxFromJson(TxToJson(tx))
<1>1. parsed.ok /\ parsed.tx = tx /\ tx.type # "deposit"
  BY JsonRoundTrip DEF UserTxs
<1> HIDE DEF parsed
<1>2. PostTransaction(s, log, TxToJson(tx), snapshotFails) =
         CASE ~parsed.ok -> Answer(400, "BAD_TX")
           [] parsed.ok /\ parsed.tx.type = "deposit" -> Answer(400, "BAD_TX")
           [] parsed.ok /\ parsed.tx.type # "deposit" /\ ~CanSpend(parsed.tx) -> Answer(403, "NOT_ALLOWLISTED")
           [] OTHER -> Submit(s, log, parsed.tx, snapshotFails)
  BY DEF PostTransaction, parsed
<1> QED BY <1>1, <1>2

LEMMA AppendToSix ==
    ASSUME NEW a, NEW b, NEW c, NEW d, NEW e, NEW f, NEW g
    PROVE  Append(<<a, b, c, d, e, f>>, g) = <<a, b, c, d, e, f, g>>
<1> DEFINE S == {a, b, c, d, e, f, g}
           six == <<a, b, c, d, e, f>>
           seven == <<a, b, c, d, e, f, g>>
<1>1. six \in Seq(S) /\ Len(six) = 6
  OBVIOUS
<1>2. seven \in Seq(S) /\ Len(seven) = 7
  OBVIOUS
<1>3. \A i \in 1..6 : seven[i] = six[i]
  OBVIOUS
<1>4. seven[7] = g /\ g \in S
  OBVIOUS
<1> HIDE DEF six, seven, S
<1>5. /\ Append(six, g) \in Seq(S) /\ Len(Append(six, g)) = Len(six) + 1
      /\ \A i \in 1..Len(six) : Append(six, g)[i] = six[i]
      /\ Append(six, g)[Len(six) + 1] = g
  <2>1. six \in Seq(S) /\ g \in S
    BY <1>1, <1>4
  <2> QED BY <2>1, AppendIs
<1>6. Len(Append(six, g)) = 7 /\ \A i \in 1..7 : Append(six, g)[i] = seven[i]
  <2>1. \A i \in 1..7 : i \in 1..6 \/ i = 7
    OBVIOUS
  <2>2. /\ Len(Append(six, g)) = 7 /\ Append(six, g)[7] = g
        /\ \A i \in 1..6 : Append(six, g)[i] = six[i]
    BY <1>1, <1>5
  <2> QED BY <1>3, <1>4, <2>1, <2>2
<1>7. Append(six, g) = seven
  BY <1>2, <1>5, <1>6
<1> QED BY <1>7 DEF six, seven

\* The bytes of a transaction, field by field.
LEMMA UserBytes ==
    ASSUME NEW tx, tx.type # "deposit"
    PROVE  EncodeTx(tx) = <<Field("tag", Tag[tx.type]), Field("address", tx.from), Field("address", tx.to),
                            Field("address", tx.token), Field("i128", tx.amount), Field("u64", tx.nonce),
                            Field("signature", tx.signature)>>
<1> DEFINE f1 == Field("tag", Tag[tx.type])
           f2 == Field("address", tx.from)
           f3 == Field("address", tx.to)
           f4 == Field("address", tx.token)
           f5 == Field("i128", tx.amount)
           f6 == Field("u64", tx.nonce)
           f7 == Field("signature", tx.signature)
<1>1. TxBody(tx) = <<f1, f2, f3, f4, f5, f6>>
  BY DEF TxBody
<1>2. EncodeTx(tx) = Append(TxBody(tx), f7)
  BY DEF EncodeTx
<1> HIDE DEF f1, f2, f3, f4, f5, f6, f7
<1>3. EncodeTx(tx) = <<f1, f2, f3, f4, f5, f6, f7>>
  BY <1>1, <1>2, AppendToSix, Zenon
<1> QED BY <1>3 DEF f1, f2, f3, f4, f5, f6, f7

LEMMA DepositBytes ==
    ASSUME NEW tx, tx.type = "deposit"
    PROVE  EncodeTx(tx) = <<Field("tag", Tag.deposit), Field("u64", tx.depositIndex), Field("address", tx.to),
                            Field("address", tx.token), Field("i128", tx.amount), Field("hash", tx.l1TxHash)>>
BY DEF EncodeTx, TxBody

LEMMA TagsDiffer ==
    /\ Tag.transfer = 16 /\ Tag.withdraw = 17 /\ Tag.deposit = 18
    /\ \A type \in {"transfer", "withdraw"} : Tag[type] = (IF type = "transfer" THEN 16 ELSE 17)
BY DEF Tag

\* An id is that of one transaction.
LEMMA SameId ==
    ASSUME NEW tx \in UserTxs, NEW other \in UserTxs \cup DepositTxs, TxId(other) = TxId(tx)
    PROVE  other.type # "deposit" /\ other.from = tx.from /\ other.nonce = tx.nonce
<1>0. tx.type # "deposit" /\ Tag[tx.type] # 18
  BY TagsDiffer DEF UserTxs
<1>1. EncodeTx(other) = EncodeTx(tx)
  BY DEF TxId
<1>2. EncodeTx(tx)[1].value # 18
  BY <1>0, UserBytes DEF Field
<1>3. other.type # "deposit"
  <2>1. ASSUME other.type = "deposit" PROVE EncodeTx(other)[1].value = 18
    BY <2>1, DepositBytes, TagsDiffer DEF Field
  <2> QED BY <1>1, <1>2, <2>1
<1>4. EncodeTx(tx)[2].value = tx.from /\ EncodeTx(tx)[6].value = tx.nonce
  BY <1>0, UserBytes DEF Field
<1>5. EncodeTx(other)[2].value = other.from /\ EncodeTx(other)[6].value = other.nonce
  BY <1>3, UserBytes DEF Field
<1> QED BY <1>1, <1>3, <1>4, <1>5

-----------------------------------------------------------------------------
(* What an executed transaction does to the state *)

\* A transaction as FlashState knows it.
Plain(tx) ==
    IF tx.type = "deposit"
    THEN [type |-> "deposit", depositIndex |-> tx.depositIndex, to |-> tx.to, token |-> tx.token, amount |-> tx.amount]
    ELSE [type |-> tx.type, from |-> tx.from, to |-> tx.to, token |-> tx.token, amount |-> tx.amount,
          nonce |-> tx.nonce, signed |-> TRUE]

LEMMA PlainApplies ==
    ASSUME NEW tx \in UserTxs \cup DepositTxs, NEW s
    PROVE  /\ Plain(tx) \in L2Tx
           /\ Apply(s, tx) = Apply(s, Plain(tx))
           /\ tx.type = "deposit" => (Valid(s, Token, tx) <=> Valid(s, Token, Plain(tx)))
           /\ Plain(tx).type = tx.type
           /\ tx.type # "deposit" => Plain(tx).from = tx.from /\ Plain(tx).token = tx.token
<1>1. CASE tx.type = "deposit"
  <2>1. tx \in DepositTxs
    BY <1>1 DEF UserTxs
  <2>2. Plain(tx) = [type |-> "deposit", depositIndex |-> tx.depositIndex, to |-> tx.to,
                     token |-> tx.token, amount |-> tx.amount]
    BY <1>1 DEF Plain
  <2>3. Plain(tx) \in L2Tx
    BY <2>1, <2>2 DEF DepositTxs, L2Tx
  <2>4. Apply(s, tx) = Apply(s, Plain(tx))
    BY <1>1, <2>2 DEF Apply
  <2>5. Valid(s, Token, tx) <=> Valid(s, Token, Plain(tx))
    BY <1>1, <2>2 DEF Valid
  <2> QED BY <1>1, <2>2, <2>3, <2>4, <2>5
<1>2. CASE tx.type # "deposit"
  <2>1. tx \in UserTxs
    BY <1>2 DEF DepositTxs
  <2>2. Plain(tx) = [type |-> tx.type, from |-> tx.from, to |-> tx.to, token |-> tx.token,
                     amount |-> tx.amount, nonce |-> tx.nonce, signed |-> TRUE]
    BY <1>2 DEF Plain
  <2>3. Plain(tx) \in L2Tx
    BY <2>1, <2>2, WalletConfig DEF UserTxs, L2Tx
  <2>4. Apply(s, tx) = Apply(s, Plain(tx))
    <3>1. CASE tx.type = "transfer"
      BY <2>2, <3>1 DEF Apply
    <3>2. CASE tx.type = "withdraw"
      BY <2>2, <3>2 DEF Apply
    <3> QED BY <2>1, <3>1, <3>2 DEF UserTxs
  <2> QED BY <1>2, <2>2, <2>3, <2>4
<1> QED BY <1>1, <1>2

\* An accepted transaction spends one nonce of its sender, and no other.
LEMMA AcceptedApplies ==
    ASSUME NEW s \in States, NEW tx \in UserTxs, Accepts(s, tx)
    PROVE  /\ Apply(s, tx) \in States
           /\ Get(s, tx.from, Asset).nonce = tx.nonce
           /\ \A a : Get(Apply(s, tx), a, Asset).nonce =
                        Get(s, a, Asset).nonce + (IF a = tx.from THEN 1 ELSE 0)
<1> DEFINE plain == Plain(tx)
<1>1. plain = [type |-> tx.type, from |-> tx.from, to |-> tx.to, token |-> tx.token,
               amount |-> tx.amount, nonce |-> tx.nonce, signed |-> TRUE]
  BY DEF Plain, UserTxs
<1>2. tx.token = Asset /\ tx.type \in {"transfer", "withdraw"} /\ Asset \in Token
  BY WalletConfig DEF UserTxs
<1>3. Valid(s, Token, plain)
  BY <1>1, <1>2 DEF Accepts, Valid, NonceMatches, BalanceCovers
<1>4. /\ plain \in L2Tx /\ Apply(s, tx) = Apply(s, plain)
      /\ plain.type # "deposit" /\ plain.from = tx.from /\ plain.token = Asset
  BY <1>2, PlainApplies
<1> HIDE DEF plain
<1>5. /\ Apply(s, plain) \in States
      /\ \A a, t : Get(Apply(s, plain), a, t).nonce = Get(s, a, t).nonce
                 + (IF plain.type # "deposit" /\ a = plain.from /\ t = plain.token THEN 1 ELSE 0)
  BY <1>3, <1>4, ApplyFacts
<1>6. Get(s, tx.from, Asset).nonce = tx.nonce
  BY <1>2 DEF Accepts, NonceMatches
<1> QED BY <1>4, <1>5, <1>6

\* A deposit spends no nonce.
LEMMA DepositApplies ==
    ASSUME NEW s \in States, NEW tx \in DepositTxs, Valid(s, Token, tx)
    PROVE  /\ Apply(s, tx) \in States
           /\ \A a : Get(Apply(s, tx), a, Asset).nonce = Get(s, a, Asset).nonce
<1> DEFINE plain == Plain(tx)
<1>1. /\ plain \in L2Tx /\ Apply(s, tx) = Apply(s, plain)
      /\ Valid(s, Token, plain) /\ plain.type = "deposit"
  BY PlainApplies DEF DepositTxs
<1> HIDE DEF plain
<1>2. /\ Apply(s, plain) \in States
      /\ \A a, t : Get(Apply(s, plain), a, t).nonce = Get(s, a, t).nonce
                 + (IF plain.type # "deposit" /\ a = plain.from /\ t = plain.token THEN 1 ELSE 0)
  BY <1>1, ApplyFacts
<1>3. \A a : Get(s, a, Asset).nonce \in Nat
  BY GetType
<1> QED BY <1>1, <1>2, <1>3

\* The transactions executed before the page is opened spend no nonce.
LEMMA DepositReplays ==
    ASSUME NEW before \in Replays, NEW tx \in DepositTxs
    PROVE  /\ ReplayTx(before, tx) \in Replays
           /\ \A a : Get(ReplayTx(before, tx).state, a, Asset).nonce = Get(before.state, a, Asset).nonce
<1>0. before.state \in States /\ tx.type = "deposit"
  BY DEF Replays, DepositTxs
<1>1. CASE before.ok /\ Valid(before.state, Token, tx)
  <2>1. ReplayTx(before, tx) = [ok |-> TRUE, state |-> Apply(before.state, tx), withdrawals |-> before.withdrawals]
    BY <1>0, <1>1 DEF ReplayTx
  <2>2. /\ Apply(before.state, tx) \in States
        /\ \A a : Get(Apply(before.state, tx), a, Asset).nonce = Get(before.state, a, Asset).nonce
    BY <1>0, <1>1, DepositApplies
  <2> QED BY <2>1, <2>2 DEF Replays
<1>2. CASE ~(before.ok /\ Valid(before.state, Token, tx))
  <2>1. ReplayTx(before, tx) = [before EXCEPT !.ok = FALSE]
    BY <1>2 DEF ReplayTx
  <2>2. [before EXCEPT !.ok = FALSE] \in Replays /\ [before EXCEPT !.ok = FALSE].state = before.state
    BY DEF Replays
  <2> QED BY <2>1, <2>2
<1> QED BY <1>1, <1>2

LEMMA FundingApplies ==
    /\ StateAfter(Funding) \in States
    /\ \A a : Get(StateAfter(Funding), a, Asset).nonce = 0
<1> DEFINE n == Len(Funding)
           fold == ReplayFrom(EmptyState, Funding)
           T == {i \in 0..n : \A a : Get(fold[i].state, a, Asset).nonce = 0}
<1>1. n \in Nat /\ \A i \in 1..n : Funding[i] \in DepositTxs
  <2> DEFINE Deposits == [type : {"deposit"}, depositIndex : Nat, to : Account, token : Token,
                          amount : Nat, l1TxHash : STRING]
  <2>1. Funding \in Seq(Deposits)
    BY WalletConfig
  <2>2. Deposits \subseteq DepositTxs
    BY DEF DepositTxs
  <2> HIDE DEF Deposits
  <2>3. Len(Funding) \in Nat /\ \A i \in 1..Len(Funding) : Funding[i] \in Deposits
    BY <2>1
  <2> QED BY <2>2, <2>3
<1>2. /\ fold \in [0..n -> Replays]
      /\ fold[0] = Start(EmptyState)
      /\ \A i \in 1..n : fold[i] = ReplayTx(fold[i - 1], Funding[i])
  <2>1. \A i \in 1..n : \A before \in Replays : ReplayTx(before, Funding[i]) \in Replays
    BY <1>1, DepositReplays
  <2> QED BY <1>1, <2>1, EmptyStateType, FoldOfReplays
<1>3. StateAfter(Funding) = fold[n].state
  BY DEF StateAfter
<1> HIDE DEF n, fold
<1>4. \A a : Get(EmptyState, a, Asset).nonce = 0
  BY DEF Get, EmptyState
<1>5. 0 \in T
  BY <1>1, <1>2, <1>4 DEF Start
<1>6. ASSUME NEW k \in 0..(n - 1), k \in T PROVE k + 1 \in T
  <2>1. k + 1 \in 1..n /\ (k + 1) - 1 = k /\ k \in 0..n /\ k + 1 \in 0..n
    BY <1>1
  <2>2. fold[k + 1] = ReplayTx(fold[k], Funding[k + 1]) /\ fold[k] \in Replays /\ Funding[k + 1] \in DepositTxs
    BY <1>1, <1>2, <2>1
  <2>3. \A a : Get(fold[k + 1].state, a, Asset).nonce = Get(fold[k].state, a, Asset).nonce
    <3>1. \A a : Get(ReplayTx(fold[k], Funding[k + 1]).state, a, Asset).nonce = Get(fold[k].state, a, Asset).nonce
      BY <2>2, DepositReplays, Zenon
    <3> QED BY <2>2, <3>1, Zenon
  <2> QED BY <1>6, <2>1, <2>3
<1> HIDE DEF T
<1>7. \A k \in 0..n : k \in T
  BY <1>1, <1>5, <1>6, UpTo
<1>8. n \in T /\ n \in 0..n
  BY <1>1, <1>7
<1>9. fold[n].state \in States
  BY <1>2, <1>8 DEF Replays
<1> QED BY <1>3, <1>8, <1>9 DEF T

-----------------------------------------------------------------------------
(* The inductive invariant *)

\* The account and the nonce of every payment and withdrawal executed.
Landed == {<<rows[i].tx.from, rows[i].tx.nonce>> : i \in {j \in DOMAIN rows : rows[j].tx.type # "deposit"}}

Burns == {seq \in DOMAIN rows : rows[seq].tx.type = "withdraw"}

\* The taps that were executed, and those whose request is under way.
TapsExecuted == {rows[i].tap : i \in DOMAIN rows}
TapsPosted == {r.tap : r \in inTransit}

RowType == [tx : UserTxs \cup DepositTxs, tap : Nat, stage : Range(Stages)]

\* The log: every nonce below that of an account belongs to a row, and no other.
ServerInv ==
    /\ rows \in Seq(RowType)
    /\ l2 \in States
    /\ \A i \in DOMAIN rows : rows[i].tx.type # "deposit" =>
          /\ VerifyTxSignature(rows[i].tx)
          /\ rows[i].tx.nonce < Get(l2, rows[i].tx.from, Asset).nonce
    /\ \A a \in Account : \A n \in Nat : n < Get(l2, a, Asset).nonce => <<a, n>> \in Landed

Payments == [account : Mine, row : {"seen", "refused", "deposited"}, credited : BOOLEAN]

PaymentInv == payment = None \/ payment \in Payments

Contents == [from : Mine, type : {"transfer", "withdraw", "deposit"}, to : Account, amount : Nat]

\* The transaction of a request.
Posted(request) == TxFromJson(request.json).tx

\* A tap leads to one request, which is executed once.
RequestInv ==
    /\ asked \in Seq(Contents)
    /\ moves \in 0..MaxMoves
    /\ inTransit \subseteq [json : {TxToJson(tx) : tx \in UserTxs}, tap : DOMAIN asked]
    /\ \A r \in inTransit :
          /\ Content(Posted(r).from, Posted(r)) = asked[r.tap]
          /\ Posted(r).nonce <= Get(l2, Posted(r).from, Asset).nonce
          /\ r.tap \notin TapsExecuted
    /\ \A r1, r2 \in inTransit : r1.tap = r2.tap => r1 = r2
    /\ \A i \in DOMAIN rows : rows[i].tap # 0 =>
          rows[i].tap \in DOMAIN asked /\ Content(rows[i].tx.from, rows[i].tx) = asked[rows[i].tap]
    /\ \A i, j \in DOMAIN rows : rows[i].tap = rows[j].tap => i = j \/ rows[i].tap = 0

Answers == [status : Nat, code : FlashCodes \cup {"INTERNAL", "receipt"}]

Runs ==
    {Idle}
    \cup [phase : {"nonce", "sign"}, tap : DOMAIN asked, tx : Bodies]
    \cup [phase : {"posted"}, tap : DOMAIN asked, tx : UserTxs, answer : {None}, seq : {0}]
    \cup [phase : {"answered"}, tap : DOMAIN asked, tx : UserTxs, answer : Answers, seq : Nat]
    \cup [phase : {"pay", "credit"}, tap : DOMAIN asked, from : Mine, before : Nat]
    \cup [phase : {"refresh"}, from : Mine]

\* While run is under way it knows what became of its request.
BusyInv ==
    /\ busy \in Runs
    /\ busy.phase \in {"nonce", "sign", "posted", "answered"} =>
          Content(busy.tx.from, busy.tx) = asked[busy.tap]
    /\ busy.phase \in {"nonce", "sign"} => busy.tap \notin TapsExecuted \cup TapsPosted
    /\ busy.phase = "sign" => busy.tx.nonce <= Get(l2, busy.tx.from, Asset).nonce
    /\ busy.phase = "posted" => \A r \in inTransit : r.tap = busy.tap => Posted(r) = busy.tx
    /\ busy.phase = "answered" =>
          /\ busy.tap \notin TapsPosted
          /\ busy.answer.status = 201 =>
                /\ busy.tap \in TapsExecuted
                /\ busy.seq \in DOMAIN rows /\ rows[busy.seq].tx.type = busy.tx.type
          /\ busy.answer.code \in FlashCodes => busy.answer.status # 201 /\ busy.tap \notin TapsExecuted
          /\ busy.answer.code = "BAD_NONCE" => <<busy.tx.from, busy.tx.nonce>> \in Landed

\* A notice stays true, and while run is under way there is none.
SaidInv ==
    /\ said.tap \in 0..Len(asked)
    /\ busy.phase \in {"nonce", "sign", "posted", "answered", "pay", "credit"} => said = Silent
    /\ said.text \in FlashCodes \cup {"paid", "burned"} => said.tap \in DOMAIN asked
    /\ said.text \in {"paid", "burned"} => said.tap \in TapsExecuted
    /\ said.text \in FlashCodes => said.tap \notin TapsExecuted \cup TapsPosted
    /\ said.text = "BAD_NONCE" => <<asked[said.tap].from, said.nonce>> \in Landed

Entries == [id : Nat, shown : Range(Stages)]

\* What the page lists, or is about to list, are withdrawals.
PageInv ==
    /\ address \in Mine \cup {None}
    /\ pending \in Seq(Entries) /\ \A i \in DOMAIN pending : pending[i].id \in Burns
    /\ flashBalance \in Nat
    /\ refresh = None \/ refresh \in [balance : Nat]
    /\ list = None \/ /\ list \in [account : Mine, asked : BOOLEAN, todo : SUBSET Nat]
                      /\ list.account = address
                      /\ \A id \in list.todo : id \in Burns
    /\ poll = None \/ /\ poll \in [entries : Seq(Entries)]
                      /\ \A i \in DOMAIN poll.entries : poll.entries[i].id \in Burns

WalletInv == ServerInv /\ PaymentInv /\ RequestInv /\ BusyInv /\ SaidInv /\ PageInv

-----------------------------------------------------------------------------
(* Steps of the server *)

\* What a step of the server leaves as it was.
Kept ==
    /\ \A i \in DOMAIN rows :
          i \in DOMAIN rows' /\ rows'[i].tx = rows[i].tx /\ rows'[i].tap = rows[i].tap
    /\ \A a : Get(l2, a, Asset).nonce <= Get(l2', a, Asset).nonce

LEMMA RowsAre ==
    ASSUME ServerInv
    PROVE  /\ Len(rows) \in Nat /\ DOMAIN rows = 1..Len(rows)
           /\ \A i \in DOMAIN rows : rows[i] \in RowType
           /\ l2 \in States
BY DEF ServerInv

LEMMA NoneIsAStage == "none" \in Range(Stages)
<1>1. 1 \in DOMAIN Stages /\ Stages[1] = "none"
  <2>1. Stages \in Seq(STRING) /\ Len(Stages) > 0 /\ Stages[1] = "none"
    BY WalletConfig
  <2> QED BY <2>1
<1> QED BY <1>1 DEF Range

\* A row is added, of a transaction that was validated.
LEMMA RecordKeeps ==
    ASSUME ServerInv, NEW tx \in UserTxs \cup DepositTxs, NEW tap \in Nat, Record(tx, tap),
           \/ tx \in UserTxs /\ Accepts(l2, tx)
           \/ tx \in DepositTxs /\ Valid(l2, Token, tx)
    PROVE  /\ ServerInv' /\ Kept
           /\ DOMAIN rows' = DOMAIN rows \cup {Len(rows) + 1} /\ Len(rows) + 1 \notin DOMAIN rows
           /\ Len(rows') = Len(rows) + 1
           /\ rows'[Len(rows) + 1] = Row(tx, tap)
           /\ tx \in UserTxs => tx.nonce < Get(l2', tx.from, Asset).nonce
<1> DEFINE new == Len(rows) + 1
           row == Row(tx, tap)
<1>1. /\ Len(rows) \in Nat /\ DOMAIN rows = 1..Len(rows) /\ rows \in Seq(RowType)
      /\ \A i \in DOMAIN rows : rows[i] \in RowType
      /\ l2 \in States
  BY RowsAre DEF ServerInv
<1>2. row \in RowType /\ row.tx = tx /\ row.tap = tap
  BY NoneIsAStage DEF Row, RowType
<1>3. rows' = Append(rows, row) /\ l2' = Apply(l2, tx)
  BY DEF Record
<1> HIDE DEF row
<1>4. /\ rows' \in Seq(RowType) /\ Len(rows') = new
      /\ \A i \in 1..Len(rows) : rows'[i] = rows[i]
      /\ rows'[new] = row
  <2>1. rows \in Seq(RowType) /\ row \in RowType
    BY <1>1, <1>2
  <2>2. /\ Append(rows, row) \in Seq(RowType) /\ Len(Append(rows, row)) = Len(rows) + 1
        /\ \A i \in 1..Len(rows) : Append(rows, row)[i] = rows[i]
        /\ Append(rows, row)[Len(rows) + 1] = row
    BY <2>1, AppendIs
  <2> QED BY <1>3, <2>2
<1>5. DOMAIN rows' = DOMAIN rows \cup {new} /\ new \notin DOMAIN rows /\ new \in Nat
  <2>1. DOMAIN rows' = 1..new
    BY <1>4
  <2> QED BY <1>1, <2>1
<1> HIDE DEF new
<1>6. /\ l2' \in States
      /\ tx \in UserTxs => Get(l2, tx.from, Asset).nonce = tx.nonce
      /\ \A a : Get(l2', a, Asset).nonce =
                   Get(l2, a, Asset).nonce + (IF tx \in UserTxs /\ a = tx.from THEN 1 ELSE 0)
  <2>1. CASE tx \in UserTxs /\ Accepts(l2, tx)
    BY <1>1, <1>3, <2>1, AcceptedApplies
  <2>2. CASE tx \in DepositTxs /\ Valid(l2, Token, tx)
    <3>1. tx \notin UserTxs
      BY <2>2 DEF UserTxs, DepositTxs
    <3>2. \A a : Get(l2, a, Asset).nonce \in Nat
      BY <1>1, GetType
    <3> QED BY <1>1, <1>3, <2>2, <3>1, <3>2, DepositApplies
  <2> QED BY <2>1, <2>2
<1>7. \A a : Get(l2, a, Asset).nonce \in Nat
  BY <1>1, GetType
<1>8. \A a : Get(l2, a, Asset).nonce <= Get(l2', a, Asset).nonce
  BY <1>6, <1>7
<1>9. tx \in UserTxs => tx.nonce < Get(l2', tx.from, Asset).nonce /\ tx.type # "deposit" /\ tx.nonce \in Nat
  BY <1>6, <1>7 DEF UserTxs
<1>10. tx \in UserTxs <=> tx.type # "deposit"
  BY DEF UserTxs, DepositTxs
<1>11. Kept
  BY <1>1, <1>4, <1>5, <1>8 DEF Kept
<1>12. ASSUME NEW i \in DOMAIN rows', rows'[i].tx.type # "deposit"
       PROVE  VerifyTxSignature(rows'[i].tx) /\ rows'[i].tx.nonce < Get(l2', rows'[i].tx.from, Asset).nonce
  <2>1. CASE i \in DOMAIN rows
    <3>1. rows'[i] = rows[i]
      BY <1>1, <1>4, <2>1
    <3>2. VerifyTxSignature(rows[i].tx) /\ rows[i].tx.nonce < Get(l2, rows[i].tx.from, Asset).nonce
      BY <1>12, <2>1, <3>1 DEF ServerInv
    <3>3. rows[i].tx.nonce \in Nat
      BY <1>1, <1>12, <2>1, <3>1 DEF RowType, UserTxs, DepositTxs
    <3>4. Get(l2, rows[i].tx.from, Asset).nonce <= Get(l2', rows[i].tx.from, Asset).nonce
      BY <1>8
    <3>5. Get(l2, rows[i].tx.from, Asset).nonce \in Nat /\ Get(l2', rows[i].tx.from, Asset).nonce \in Nat
      BY <1>6, <1>7, GetType
    <3> QED BY <3>1, <3>2, <3>3, <3>4, <3>5
  <2>2. CASE i = new
    <3>1. rows'[i].tx = tx
      BY <1>2, <1>4, <2>2
    <3>2. tx \in UserTxs /\ Accepts(l2, tx)
      BY <1>10, <1>12, <3>1 DEF DepositTxs
    <3> QED BY <1>9, <3>1, <3>2 DEF Accepts
  <2> QED BY <1>5, <2>1, <2>2
<1>13. ASSUME NEW a \in Account, NEW n \in Nat, n < Get(l2', a, Asset).nonce
       PROVE  <<a, n>> \in Landed'
  <2>1. CASE n < Get(l2, a, Asset).nonce
    <3>1. <<a, n>> \in Landed
      BY <2>1 DEF ServerInv
    <3>2. \A i \in DOMAIN rows : i \in DOMAIN rows' /\ rows'[i] = rows[i]
      BY <1>1, <1>4, <1>5
    <3> QED BY <3>1, <3>2 DEF Landed
  <2>2. CASE ~(n < Get(l2, a, Asset).nonce)
    <3>1. tx \in UserTxs /\ a = tx.from /\ n = tx.nonce
      BY <1>6, <1>7, <1>13, <2>2
    <3>2. new \in DOMAIN rows' /\ rows'[new].tx = tx
      BY <1>2, <1>4, <1>5
    <3> QED BY <1>9, <3>1, <3>2 DEF Landed
  <2> QED BY <2>1, <2>2
<1>14. ServerInv'
  BY <1>4, <1>6, <1>12, <1>13 DEF ServerInv
<1> QED BY <1>4, <1>5, <1>9, <1>11, <1>14 DEF row, new

\* What a state of run holds.
LEMMA RunIs ==
    ASSUME busy \in Runs
    PROVE  /\ busy.phase = "idle" => busy = Idle
           /\ busy.phase \in {"nonce", "sign"} =>
                 busy \in [phase : {"nonce", "sign"}, tap : DOMAIN asked, tx : Bodies]
           /\ busy.phase = "posted" =>
                 busy \in [phase : {"posted"}, tap : DOMAIN asked, tx : UserTxs, answer : {None}, seq : {0}]
           /\ busy.phase = "answered" =>
                 busy \in [phase : {"answered"}, tap : DOMAIN asked, tx : UserTxs, answer : Answers, seq : Nat]
           /\ busy.phase \in {"pay", "credit"} =>
                 busy \in [phase : {"pay", "credit"}, tap : DOMAIN asked, from : Mine, before : Nat]
           /\ busy.phase = "refresh" => busy \in [phase : {"refresh"}, from : Mine]
           /\ busy.phase \in {"idle", "nonce", "sign", "posted", "answered", "pay", "credit", "refresh"}
<1>1. CASE busy = Idle
  <2>1. busy.phase = "idle"
    BY <1>1 DEF Idle
  <2> QED BY <1>1, <2>1
<1>2. CASE busy \in [phase : {"nonce", "sign"}, tap : DOMAIN asked, tx : Bodies]
  <2>1. busy.phase \in {"nonce", "sign"}
    BY <1>2
  <2> QED BY <1>2, <2>1
<1>3. CASE busy \in [phase : {"posted"}, tap : DOMAIN asked, tx : UserTxs, answer : {None}, seq : {0}]
  <2>1. busy.phase = "posted"
    BY <1>3
  <2> QED BY <1>3, <2>1
<1>4. CASE busy \in [phase : {"answered"}, tap : DOMAIN asked, tx : UserTxs, answer : Answers, seq : Nat]
  <2>1. busy.phase = "answered"
    BY <1>4
  <2> QED BY <1>4, <2>1
<1>5. CASE busy \in [phase : {"pay", "credit"}, tap : DOMAIN asked, from : Mine, before : Nat]
  <2>1. busy.phase \in {"pay", "credit"}
    BY <1>5
  <2> QED BY <1>5, <2>1
<1>6. CASE busy \in [phase : {"refresh"}, from : Mine]
  <2>1. busy.phase = "refresh"
    BY <1>6
  <2> QED BY <1>6, <2>1
<1> QED BY <1>1, <1>2, <1>3, <1>4, <1>5, <1>6 DEF Runs

LEMMA TapOfRun ==
    ASSUME busy \in Runs, busy.phase \in {"nonce", "sign", "posted", "answered", "pay", "credit"}
    PROVE  busy.tap \in DOMAIN asked
BY RunIs

LEMMA TxOfRun ==
    ASSUME busy \in Runs, busy.phase \in {"nonce", "sign", "posted", "answered"}
    PROVE  busy.tx.type \in {"transfer", "withdraw"} /\ busy.tx.nonce \in Nat /\ busy.tx.from \in Account
<1>1. busy.tx \in Bodies \cup UserTxs
  BY RunIs
<1> QED BY <1>1 DEF Bodies, UserTxs
\* What was executed stays so.
LEMMA KeptMeans ==
    ASSUME Kept
    PROVE  Landed \subseteq Landed' /\ Burns \subseteq Burns' /\ TapsExecuted \subseteq TapsExecuted'
BY DEF Kept, Landed, Burns, TapsExecuted

LEMMA PageKept ==
    ASSUME PageInv, Kept, UNCHANGED <<address, pending, flashBalance, refresh, list, poll>>
    PROVE  PageInv'
<1>1. UNCHANGED <<address, pending, flashBalance, refresh, list, poll>>
  OBVIOUS
<1>2. Burns \subseteq Burns'
  BY KeptMeans
<1> QED BY <1>1, <1>2 DEF PageInv

\* What run holds is as it was.
LEMMA RunsKept ==
    ASSUME busy \in Runs, UNCHANGED <<asked, busy>>
    PROVE  busy' \in Runs'
BY DEF Runs

\* A step that executes nothing of the page disturbs neither its requests, nor
\* what it knows and says.
LEMMA OthersKeep ==
    ASSUME WalletInv, ServerInv', Kept, UNCHANGED <<inTransit, page, asked>>, moves' \in 0..MaxMoves,
           \A i \in DOMAIN rows' : i \in DOMAIN rows \/ rows'[i].tap = 0
    PROVE  RequestInv' /\ BusyInv' /\ SaidInv' /\ PageInv'
<1>0. ServerInv /\ RequestInv /\ BusyInv /\ SaidInv /\ PageInv
  BY DEF WalletInv
<1>1. /\ \A i \in DOMAIN rows : i \in DOMAIN rows' /\ rows'[i].tx = rows[i].tx /\ rows'[i].tap = rows[i].tap
      /\ \A a : Get(l2, a, Asset).nonce <= Get(l2', a, Asset).nonce
  BY DEF Kept
<1>2. /\ UNCHANGED <<inTransit, asked, busy, said>>
      /\ \A tap \in DOMAIN asked : tap # 0
  <2>1. asked \in Seq(Contents)
    BY <1>0 DEF RequestInv
  <2>2. DOMAIN asked = 1..Len(asked)
    BY <2>1
  <2> QED BY <2>2 DEF page
<1>3. TapsPosted' = TapsPosted /\ \A tap \in DOMAIN asked : tap \in TapsExecuted' <=> tap \in TapsExecuted
  BY <1>1, <1>2 DEF TapsExecuted, TapsPosted
<1>4. Landed \subseteq Landed'
  BY KeptMeans
<1>5. \A a : Get(l2, a, Asset).nonce \in Nat /\ Get(l2', a, Asset).nonce \in Nat
  BY <1>0, GetType DEF ServerInv
<1>6. \A a, n : n \in Nat /\ n <= Get(l2, a, Asset).nonce => n <= Get(l2', a, Asset).nonce
  BY <1>1, <1>5
<1>7. ASSUME NEW r \in inTransit
      PROVE  /\ r.tap \in DOMAIN asked /\ Content(Posted(r).from, Posted(r)) = asked[r.tap]
             /\ Posted(r).nonce <= Get(l2', Posted(r).from, Asset).nonce
             /\ r.tap \notin TapsExecuted'
  <2>1. /\ r.tap \in DOMAIN asked /\ Content(Posted(r).from, Posted(r)) = asked[r.tap]
        /\ Posted(r).nonce <= Get(l2, Posted(r).from, Asset).nonce /\ r.tap \notin TapsExecuted
    BY <1>0 DEF RequestInv
  <2>2. PICK tx \in UserTxs : r.json = TxToJson(tx)
    BY <1>0 DEF RequestInv
  <2>3. Posted(r).nonce \in Nat
    BY <2>2, JsonRoundTrip DEF Posted, UserTxs
  <2> QED BY <1>3, <1>6, <2>1, <2>3
<1>8. ASSUME NEW i \in DOMAIN rows', rows'[i].tap # 0
      PROVE  i \in DOMAIN rows /\ rows'[i].tx = rows[i].tx /\ rows'[i].tap = rows[i].tap
  BY <1>1, <1>8
<1>9. RequestInv'
  <2>1. /\ asked' \in Seq(Contents) /\ moves' \in 0..MaxMoves
        /\ inTransit' \subseteq [json : {TxToJson(tx) : tx \in UserTxs}, tap : DOMAIN asked']
        /\ \A r1, r2 \in inTransit' : r1.tap = r2.tap => r1 = r2
    BY <1>0, <1>2 DEF RequestInv
  <2>2. \A r \in inTransit' :
            /\ Content(Posted(r).from, Posted(r)) = asked'[r.tap]
            /\ Posted(r).nonce <= Get(l2', Posted(r).from, Asset).nonce
            /\ r.tap \notin TapsExecuted'
    BY <1>2, <1>7
  <2>3. \A i \in DOMAIN rows' : rows'[i].tap # 0 =>
           rows'[i].tap \in DOMAIN asked' /\ Content(rows'[i].tx.from, rows'[i].tx) = asked'[rows'[i].tap]
    BY <1>0, <1>2, <1>8 DEF RequestInv
  <2>4. \A i, j \in DOMAIN rows' : rows'[i].tap = rows'[j].tap => i = j \/ rows'[i].tap = 0
    BY <1>0, <1>8 DEF RequestInv
  <2> QED BY <2>1, <2>2, <2>3, <2>4 DEF RequestInv
<1>10. BusyInv'
  <2>1. busy \in Runs /\ busy' \in Runs'
    BY <1>0, <1>2, RunsKept DEF BusyInv
  <2>2. busy.phase \in {"nonce", "sign", "posted", "answered"} => busy.tap \in DOMAIN asked /\ busy.tx.nonce \in Nat
    BY <2>1, TapOfRun, TxOfRun
  <2>3. busy.phase \in {"nonce", "sign"} => busy.tap \notin TapsExecuted' \cup TapsPosted'
    BY <1>0, <1>3, <2>2 DEF BusyInv
  <2>4. busy.phase = "sign" => busy.tx.nonce <= Get(l2', busy.tx.from, Asset).nonce
    BY <1>0, <1>6, <2>2 DEF BusyInv
  <2>5. busy.phase = "answered" =>
          /\ busy.answer.status = 201 =>
                /\ busy.tap \in TapsExecuted'
                /\ busy.seq \in DOMAIN rows' /\ rows'[busy.seq].tx.type = busy.tx.type
          /\ busy.answer.code \in FlashCodes => busy.answer.status # 201 /\ busy.tap \notin TapsExecuted'
          /\ busy.answer.code = "BAD_NONCE" => <<busy.tx.from, busy.tx.nonce>> \in Landed'
    BY <1>0, <1>1, <1>3, <1>4, <2>2 DEF BusyInv
  <2> QED BY <1>0, <1>2, <1>3, <2>1, <2>3, <2>4, <2>5 DEF BusyInv
<1>11. SaidInv'
  BY <1>0, <1>2, <1>3, <1>4 DEF SaidInv
<1>12. PageInv'
  BY <1>0, PageKept DEF page
<1> QED BY <1>9, <1>10, <1>11, <1>12

\* What is posted is a transaction of a user.
LEMMA SignedIs ==
    ASSUME NEW body \in Bodies, NEW key \in Account, NEW encoding \in {"raw", "hex"}
    PROVE  /\ Signed(body, key, encoding) \in UserTxs
           /\ Signed(body, key, encoding).from = body.from
           /\ Signed(body, key, encoding).nonce = body.nonce
           /\ Signed(body, key, encoding).type = body.type
           /\ Signed(body, key, encoding).amount = body.amount
           /\ Signed(body, key, encoding).to = body.to
           /\ Signed(body, key, encoding).token = Asset
           /\ Signed(body, key, encoding).signature = Signature(key, encoding, body)
<1>1. Signature(key, encoding, body) \in Signatures
  BY DEF Signature, Signatures
<1> QED BY <1>1 DEF Signed, Bodies, UserTxs

LEMMA UnsignedIs ==
    ASSUME NEW from \in Account, NEW form, form.type \in {"transfer", "withdraw"}, form.to \in Account,
           form.amount \in Nat, NEW nonce \in Nat
    PROVE  Unsigned(from, form, nonce) \in Bodies
BY DEF Unsigned, Bodies

\* What the answer to a posted transaction says of it.
LEMMA AnswerIs ==
    ASSUME NEW s, NEW log, NEW tx \in UserTxs, NEW snapshotFails
    PROVE  LET answer == PostTransaction(s, log, TxToJson(tx), snapshotFails)
           IN  /\ answer \in Answers
               /\ Executed(answer) => Accepts(s, tx) /\ ~Duplicate(log, tx) /\ answer.code \notin FlashCodes
               /\ answer.code \in FlashCodes => ~Executed(answer)
               /\ answer.code = "BAD_NONCE" => ~NonceMatches(s, tx) \/ Duplicate(log, tx)
<1> DEFINE answer == PostTransaction(s, log, TxToJson(tx), snapshotFails)
           submitted == Submit(s, log, tx, snapshotFails)
           fine == Accepts(s, tx) /\ ~Duplicate(log, tx)
<1>1. answer = IF CanSpend(tx) THEN submitted ELSE Answer(403, "NOT_ALLOWLISTED")
  BY PostIs
<1>2. /\ fine => submitted = Answer(500, "INTERNAL") \/ submitted = Answer(201, "receipt")
      /\ ~fine => /\ submitted = Answer(422, submitted.code)
                  /\ submitted.code \in FlashCodes
                  /\ submitted.code = "BAD_NONCE" => ~NonceMatches(s, tx) \/ Duplicate(log, tx)
  BY SubmitIs
<1> HIDE DEF submitted, answer, fine
<1>4. \A status, code : Answer(status, code).status = status /\ Answer(status, code).code = code
  BY DEF Answer
<1>5. \A status \in Nat, code \in FlashCodes \cup {"INTERNAL", "receipt"} : Answer(status, code) \in Answers
  BY DEF Answer, Answers
<1>6. "INTERNAL" \notin FlashCodes /\ "receipt" \notin FlashCodes /\ "NOT_ALLOWLISTED" \in FlashCodes
      /\ "NOT_ALLOWLISTED" # "BAD_NONCE"
  BY DEF FlashCodes
<1>7. CASE CanSpend(tx) /\ fine
  <2>1. answer = Answer(500, "INTERNAL") \/ answer = Answer(201, "receipt")
    BY <1>1, <1>2, <1>7
  <2>2. /\ answer \in Answers /\ answer.status \in {500, 201}
        /\ answer.code \in {"INTERNAL", "receipt"}
    BY <1>4, <1>5, <2>1
  <2> QED BY <1>6, <1>7, <2>2 DEF Executed, fine, answer
<1>8. CASE CanSpend(tx) /\ ~fine
  <2>1. answer = submitted /\ answer = Answer(422, answer.code) /\ answer.code \in FlashCodes
    BY <1>1, <1>2, <1>8
  <2>2. answer.status = 422
    BY <1>4, <2>1
  <2>3. answer \in Answers
    BY <1>5, <2>1
  <2>4. answer.code = "BAD_NONCE" => ~NonceMatches(s, tx) \/ Duplicate(log, tx)
    BY <1>2, <1>8, <2>1
  <2> QED BY <1>8, <2>1, <2>2, <2>3, <2>4 DEF Executed, fine, answer
<1>9. CASE ~CanSpend(tx)
  <2>1. answer = Answer(403, "NOT_ALLOWLISTED")
    BY <1>1, <1>9
  <2>2. answer \in Answers /\ answer.status = 403 /\ answer.code = "NOT_ALLOWLISTED"
    BY <1>4, <1>5, <1>6, <2>1
  <2> QED BY <1>6, <1>9, <2>2 DEF Executed, answer
<1> QED BY <1>7, <1>8, <1>9

LEMMA ReceiptIsExecuted ==
    ASSUME NEW answer, answer.status = 201
    PROVE  Executed(answer)
BY DEF Executed

Receipt == Answer(201, "receipt")

LEMMA AcceptedIsAnswered ==
    ASSUME NEW s, NEW log, NEW tx \in UserTxs, Accepts(s, tx), ~Duplicate(log, tx), CanSpend(tx)
    PROVE  PostTransaction(s, log, TxToJson(tx), FALSE) = Receipt
<1>1. PostTransaction(s, log, TxToJson(tx), FALSE) = Submit(s, log, tx, FALSE)
  BY PostIs
<1>2. Submit(s, log, tx, FALSE) = Receipt
  BY RefusalsAre DEF Submit, Receipt
<1> QED BY <1>1, <1>2, Zenon

\* A nonce that was spent belongs to a row.
LEMMA BadNonceMeans ==
    ASSUME ServerInv, NEW tx \in UserTxs, tx.nonce <= Get(l2, tx.from, Asset).nonce,
           ~NonceMatches(l2, tx) \/ Duplicate(Txs, tx)
    PROVE  <<tx.from, tx.nonce>> \in Landed
<1>1. Get(l2, tx.from, Asset).nonce \in Nat /\ tx.nonce \in Nat /\ tx.from \in Account /\ tx.token = Asset
  BY RowsAre, GetType DEF UserTxs
<1>2. CASE ~NonceMatches(l2, tx)
  <2>1. tx.nonce < Get(l2, tx.from, Asset).nonce
    BY <1>1, <1>2 DEF NonceMatches
  <2> QED BY <1>1, <2>1 DEF ServerInv
<1>3. CASE Duplicate(Txs, tx)
  <2>1. PICK i \in DOMAIN rows : TxId(rows[i].tx) = TxId(tx)
    BY <1>3 DEF Duplicate, Txs
  <2>2. rows[i].tx \in UserTxs \cup DepositTxs
    BY RowsAre DEF RowType
  <2>3. rows[i].tx.type # "deposit" /\ rows[i].tx.from = tx.from /\ rows[i].tx.nonce = tx.nonce
    BY <2>1, <2>2, SameId
  <2> QED BY <2>3 DEF Landed
<1> QED BY <1>2, <1>3

\* Another client pays or withdraws.
LEMMA OthersSubmitKeeps ==
    ASSUME WalletInv, NEW form \in OthersForms, OthersSubmit(form)
    PROVE  WalletInv'
<1> DEFINE body == Unsigned(form.from, form, GetNonce(l2, form.from, Asset))
<1> PICK tx : tx = Signed(body, form.from, "raw")
  OBVIOUS
<1>1. /\ form.from \in Account /\ form.type \in {"transfer", "withdraw"} /\ form.to \in Account /\ form.amount \in Nat
  <2>1. OthersForms \subseteq [from : Account, type : {"transfer", "withdraw"}, to : Account, amount : Nat]
    BY WalletConfig
  <2> QED BY <2>1
<1>2. ServerInv /\ GetNonce(l2, form.from, Asset) \in Nat
  BY GetType DEF WalletInv, ServerInv, GetNonce
<1>3. tx \in UserTxs
  <2>1. body \in Bodies
    BY <1>1, <1>2, UnsignedIs
  <2> HIDE DEF body
  <2> QED BY <1>1, <2>1, SignedIs
<1>4. /\ PostTransaction(l2, Txs, TxToJson(tx), FALSE).status = 201
      /\ Record(tx, 0) /\ MayMove /\ moves' = moves + 1
      /\ UNCHANGED <<payment, inTransit, page, asked>>
  BY DEF OthersSubmit
<1> HIDE DEF body
<1>5. Accepts(l2, tx)
  <2>1. Executed(PostTransaction(l2, Txs, TxToJson(tx), FALSE))
    <3>1. PostTransaction(l2, Txs, TxToJson(tx), FALSE).status = 201
      BY <1>4
    <3> QED BY <3>1, ReceiptIsExecuted, Zenon
  <2> QED BY <1>3, <2>1, AnswerIs, Zenon
<1>6. /\ ServerInv' /\ Kept
      /\ DOMAIN rows' = DOMAIN rows \cup {Len(rows) + 1}
      /\ rows'[Len(rows) + 1] = Row(tx, 0)
  <2>1. 0 \in Nat /\ tx \in UserTxs \cup DepositTxs
    BY <1>3
  <2>2. ServerInv /\ Record(tx, 0)
    BY <1>2, <1>4
  <2>3. \/ tx \in UserTxs /\ Accepts(l2, tx)
        \/ tx \in DepositTxs /\ Valid(l2, Token, tx)
    BY <1>3, <1>5, Zenon
  <2> QED BY <2>1, <2>2, <2>3, RecordKeeps, ZenonT(30)
<1>7. \A i \in DOMAIN rows' : i \in DOMAIN rows \/ rows'[i].tap = 0
  BY <1>6 DEF Row
<1>8. moves' \in 0..MaxMoves
  BY <1>4, WalletConfig DEF WalletInv, RequestInv, MayMove
<1>9. RequestInv' /\ BusyInv' /\ SaidInv' /\ PageInv'
  BY <1>4, <1>6, <1>7, <1>8, OthersKeep
<1> QED BY <1>4, <1>6, <1>9 DEF WalletInv, PaymentInv

\* A withdrawal comes further.
LEMMA AdvanceKeeps ==
    ASSUME WalletInv, NEW seq \in DOMAIN rows, Advance(seq)
    PROVE  WalletInv'
<1>1. /\ ServerInv /\ rows \in Seq(RowType) /\ Len(rows) \in Nat /\ DOMAIN rows = 1..Len(rows)
      /\ \A i \in DOMAIN rows : rows[i] \in RowType
  BY RowsAre DEF WalletInv, ServerInv
<1>2. /\ rows' = [rows EXCEPT ![seq] = [rows[seq] EXCEPT !.stage = NextStage(rows[seq].stage)]]
      /\ rows[seq].stage # "claimed"
      /\ UNCHANGED <<l2, payment, inTransit, page, asked, moves>>
  BY DEF Advance
<1>3. NextStage(rows[seq].stage) \in Range(Stages)
  <2>1. Stages \in Seq(STRING) /\ Stages[Len(Stages)] = "claimed"
    BY WalletConfig
  <2>2. Len(Stages) \in Nat /\ DOMAIN Stages = 1..Len(Stages)
    BY <2>1
  <2>3. PICK k \in DOMAIN Stages : Stages[k] = rows[seq].stage
    BY <1>1 DEF RowType, Range
  <2>4. k # Len(Stages)
    BY <1>2, <2>1, <2>3
  <2>5. k + 1 \in DOMAIN Stages /\ k + 1 > 1 /\ (k + 1) - 1 = k
    BY <2>2, <2>4
  <2>6. \E i \in DOMAIN Stages : i > 1 /\ Stages[i - 1] = rows[seq].stage
    BY <2>3, <2>5
  <2> DEFINE i == CHOOSE i \in DOMAIN Stages : i > 1 /\ Stages[i - 1] = rows[seq].stage
  <2>7. i \in DOMAIN Stages
    BY <2>6
  <2>8. NextStage(rows[seq].stage) = Stages[i]
    BY DEF NextStage
  <2> HIDE DEF i
  <2> QED BY <2>7, <2>8 DEF Range
<1> DEFINE row == [rows[seq] EXCEPT !.stage = NextStage(rows[seq].stage)]
<1>4. row \in RowType /\ row.tx = rows[seq].tx /\ row.tap = rows[seq].tap
  BY <1>1, <1>3 DEF RowType
<1> HIDE DEF row
<1>5. rows' = [rows EXCEPT ![seq] = row]
  BY <1>2 DEF row
<1>6. /\ rows' \in Seq(RowType) /\ DOMAIN rows' = DOMAIN rows
      /\ \A i \in DOMAIN rows : rows'[i].tx = rows[i].tx /\ rows'[i].tap = rows[i].tap
  BY <1>1, <1>4, <1>5
<1>7. \A a : Get(l2, a, Asset).nonce \in Nat
  BY <1>1, GetType DEF ServerInv
<1>8. Kept
  BY <1>2, <1>6, <1>7 DEF Kept
<1>9. Landed' = Landed
  BY <1>6 DEF Landed
<1>10. ServerInv'
  BY <1>1, <1>2, <1>6, <1>9 DEF ServerInv
<1>11. moves' \in 0..MaxMoves
  BY <1>2 DEF WalletInv, RequestInv
<1>12. RequestInv' /\ BusyInv' /\ SaidInv' /\ PageInv'
  BY <1>2, <1>6, <1>8, <1>10, <1>11, OthersKeep
<1> QED BY <1>2, <1>10, <1>12 DEF WalletInv, PaymentInv

\* Nothing of the log is touched.
LEMMA PaymentKeeps ==
    ASSUME WalletInv, UNCHANGED <<rows, l2, inTransit, page, asked, moves>>, PaymentInv'
    PROVE  WalletInv'
<1>1. \A a : Get(l2, a, Asset).nonce \in Nat
  BY GetType DEF WalletInv, ServerInv
<1>2. Kept
  BY <1>1 DEF Kept
<1>3. ServerInv'
  BY DEF WalletInv, ServerInv, Landed
<1>4. moves' \in 0..MaxMoves
  BY DEF WalletInv, RequestInv
<1>5. RequestInv' /\ BusyInv' /\ SaidInv' /\ PageInv'
  BY <1>2, <1>3, <1>4, OthersKeep
<1> QED BY <1>3, <1>5 DEF WalletInv

LEMMA OnrampKeeps ==
    ASSUME WalletInv, NEW row \in {"refused", "deposited"}, Onramp(row)
    PROVE  WalletInv'
<1>1. payment \in Payments /\ payment' = [payment EXCEPT !.row = row]
      /\ UNCHANGED <<rows, l2, inTransit, page, asked, moves>>
  BY DEF Onramp, WalletInv, PaymentInv
<1>2. payment' \in Payments
  BY <1>1 DEF Payments
<1> QED BY <1>1, <1>2, PaymentKeeps DEF PaymentInv

LEMMA CreditPaymentKeeps ==
    ASSUME WalletInv, CreditPayment
    PROVE  WalletInv'
<1> DEFINE tx == [type |-> "deposit", depositIndex |-> l2.nextDepositIndex, to |-> payment.account,
                  token |-> Asset, amount |-> 1, l1TxHash |-> "relay"]
<1>1. /\ payment \in Payments /\ payment' = [payment EXCEPT !.credited = TRUE]
      /\ UNCHANGED <<inTransit, page, asked, moves>>
      /\ Record(tx, 0)
  BY DEF CreditPayment, WalletInv, PaymentInv
<1>2. ServerInv /\ l2.nextDepositIndex \in Nat
  BY StateFacts DEF WalletInv, ServerInv
<1>3. payment.account \in Account /\ Asset \in Token
  BY <1>1, WalletConfig DEF Payments
<1>4. tx \in DepositTxs
  BY <1>2, <1>3 DEF DepositTxs
<1>5. Valid(l2, Token, tx)
  BY <1>3 DEF Valid
<1> HIDE DEF tx
<1>6. /\ ServerInv' /\ Kept
      /\ DOMAIN rows' = DOMAIN rows \cup {Len(rows) + 1}
      /\ rows'[Len(rows) + 1] = Row(tx, 0)
  BY <1>1, <1>2, <1>4, <1>5, RecordKeeps
<1>7. \A i \in DOMAIN rows' : i \in DOMAIN rows \/ rows'[i].tap = 0
  BY <1>6 DEF Row
<1>8. moves' \in 0..MaxMoves
  BY <1>1 DEF WalletInv, RequestInv
<1>9. RequestInv' /\ BusyInv' /\ SaidInv' /\ PageInv'
  BY <1>1, <1>6, <1>7, <1>8, OthersKeep
<1>10. payment' \in Payments
  BY <1>1 DEF Payments
<1> QED BY <1>6, <1>9, <1>10 DEF WalletInv, PaymentInv

\* A request of the page arrives: what happens on the server.
LEMMA DeliverServer ==
    ASSUME WalletInv, NEW request \in inTransit, NEW tx \in UserTxs, request.json = TxToJson(tx),
           NEW answer, Executed(answer) => Accepts(l2, tx),
           IF Executed(answer) THEN Record(tx, request.tap) ELSE UNCHANGED <<rows, l2>>
    PROVE  /\ ServerInv' /\ Kept
           /\ \A i \in DOMAIN rows' : \/ i \in DOMAIN rows
                                      \/ i = Len(rows) + 1 /\ rows'[i].tx = tx /\ rows'[i].tap = request.tap
           /\ Executed(answer) => /\ Len(rows') \in DOMAIN rows'
                                  /\ rows'[Len(rows')].tx = tx /\ rows'[Len(rows')].tap = request.tap
           /\ ~Executed(answer) => rows' = rows
           /\ Len(rows') \in Nat
<1>1. ServerInv /\ request.tap \in Nat /\ Len(rows) \in Nat
  <2>1. request.tap \in DOMAIN asked /\ asked \in Seq(Contents)
    BY DEF WalletInv, RequestInv
  <2>2. request.tap \in Nat
    BY <2>1
  <2> QED BY <2>2, RowsAre DEF WalletInv
<1>2. CASE Executed(answer)
  <2>1. Accepts(l2, tx) /\ Record(tx, request.tap) /\ tx \in UserTxs \cup DepositTxs
    BY <1>2
  <2>2. /\ ServerInv' /\ Kept
        /\ DOMAIN rows' = DOMAIN rows \cup {Len(rows) + 1}
        /\ Len(rows') = Len(rows) + 1
        /\ rows'[Len(rows) + 1] = Row(tx, request.tap)
    BY <1>1, <2>1, RecordKeeps, Zenon
  <2> QED BY <1>1, <1>2, <2>2 DEF Row
<1>3. CASE ~Executed(answer)
  <2>1. rows' = rows /\ l2' = l2
    BY <1>3
  <2>2. \A a : Get(l2, a, Asset).nonce \in Nat
    BY <1>1, GetType DEF ServerInv
  <2>3. Kept
    BY <2>1, <2>2 DEF Kept
  <2>4. ServerInv'
    BY <1>1, <2>1 DEF ServerInv, Landed
  <2> QED BY <1>1, <1>3, <2>1, <2>3, <2>4
<1> QED BY <1>2, <1>3

\* ... and what the page knows of it.
LEMMA DeliverKeeps ==
    ASSUME WalletInv, NEW request \in inTransit, NEW snapshotFails, Deliver(request, snapshotFails)
    PROVE  WalletInv'
<1>0. ServerInv /\ RequestInv /\ BusyInv /\ SaidInv /\ PageInv
  BY DEF WalletInv
<1>1. PICK tx \in UserTxs : request.json = TxToJson(tx)
  BY <1>0 DEF RequestInv
<1>2. Posted(request) = tx
  BY <1>1, JsonRoundTrip DEF Posted
<1>3. PICK answer : answer = PostTransaction(l2, Txs, request.json, snapshotFails)
  OBVIOUS
<1>4. /\ inTransit' = inTransit \ {request}
      /\ IF Executed(answer) THEN Record(tx, request.tap) ELSE UNCHANGED <<rows, l2>>
      /\ busy' = IF busy.phase = "posted" /\ busy.tap = request.tap
                 THEN [busy EXCEPT !.phase = "answered", !.answer = answer, !.seq = Len(rows')]
                 ELSE busy
      /\ UNCHANGED <<payment, address, said, pending, flashBalance, refresh, list, poll, asked, moves>>
  BY <1>2, <1>3 DEF Deliver, Posted
<1>5. /\ answer \in Answers
      /\ Executed(answer) => Accepts(l2, tx) /\ answer.code \notin FlashCodes
      /\ answer.code \in FlashCodes => ~Executed(answer)
      /\ answer.code = "BAD_NONCE" => ~NonceMatches(l2, tx) \/ Duplicate(Txs, tx)
  BY <1>1, <1>3, AnswerIs, Zenon
<1>6. /\ ServerInv' /\ Kept
      /\ \A i \in DOMAIN rows' : \/ i \in DOMAIN rows
                                 \/ i = Len(rows) + 1 /\ rows'[i].tx = tx /\ rows'[i].tap = request.tap
      /\ Executed(answer) => /\ Len(rows') \in DOMAIN rows'
                             /\ rows'[Len(rows')].tx = tx /\ rows'[Len(rows')].tap = request.tap
      /\ ~Executed(answer) => rows' = rows
      /\ Len(rows') \in Nat
  BY <1>1, <1>4, <1>5, DeliverServer
<1>7. /\ request.tap \in DOMAIN asked /\ request.tap # 0
      /\ Content(tx.from, tx) = asked[request.tap]
      /\ tx.nonce <= Get(l2, tx.from, Asset).nonce
      /\ request.tap \notin TapsExecuted
      /\ request.tap \in TapsPosted
      /\ asked \in Seq(Contents)
  <2>1. request.tap \in DOMAIN asked /\ asked \in Seq(Contents)
    BY <1>0 DEF RequestInv
  <2>2. request.tap # 0
    BY <2>1
  <2> QED BY <1>0, <1>2, <2>1, <2>2 DEF RequestInv, TapsPosted
<1>8. /\ \A i \in DOMAIN rows : i \in DOMAIN rows' /\ rows'[i].tx = rows[i].tx /\ rows'[i].tap = rows[i].tap
      /\ \A a : Get(l2, a, Asset).nonce <= Get(l2', a, Asset).nonce
  BY <1>6 DEF Kept
<1>9. \A r \in inTransit' : r \in inTransit /\ r.tap # request.tap
  BY <1>0, <1>4 DEF RequestInv
<1>10. /\ TapsPosted' = TapsPosted \ {request.tap}
       /\ TapsExecuted \subseteq TapsExecuted' /\ TapsExecuted' \subseteq TapsExecuted \cup {request.tap}
       /\ Landed \subseteq Landed'
  <2>1. TapsPosted' \subseteq TapsPosted \ {request.tap}
    BY <1>9 DEF TapsPosted
  <2>2. TapsPosted \ {request.tap} \subseteq TapsPosted'
    BY <1>4 DEF TapsPosted
  <2>3. TapsExecuted' \subseteq TapsExecuted \cup {request.tap}
    BY <1>6, <1>8 DEF TapsExecuted
  <2> QED BY <1>6, <2>1, <2>2, <2>3, KeptMeans
<1>11. \A a, n : n \in Nat /\ n <= Get(l2, a, Asset).nonce => n <= Get(l2', a, Asset).nonce
  <2>1. \A a : Get(l2, a, Asset).nonce \in Nat /\ Get(l2', a, Asset).nonce \in Nat
    BY <1>0, <1>6, GetType DEF ServerInv
  <2> QED BY <1>8, <2>1
<1>12. RequestInv'
  <2>1. /\ asked' \in Seq(Contents) /\ moves' \in 0..MaxMoves
        /\ inTransit' \subseteq [json : {TxToJson(t) : t \in UserTxs}, tap : DOMAIN asked']
        /\ \A r1, r2 \in inTransit' : r1.tap = r2.tap => r1 = r2
    BY <1>0, <1>4, <1>9 DEF RequestInv
  <2>2. ASSUME NEW r \in inTransit'
        PROVE  /\ Content(Posted(r).from, Posted(r)) = asked'[r.tap]
               /\ Posted(r).nonce <= Get(l2', Posted(r).from, Asset).nonce
               /\ r.tap \notin TapsExecuted'
    <3>1. /\ r \in inTransit /\ r.tap # request.tap
          /\ Content(Posted(r).from, Posted(r)) = asked[r.tap]
          /\ Posted(r).nonce <= Get(l2, Posted(r).from, Asset).nonce /\ r.tap \notin TapsExecuted
      BY <1>0, <1>9 DEF RequestInv
    <3>2. PICK t \in UserTxs : r.json = TxToJson(t)
      BY <1>0, <3>1 DEF RequestInv
    <3>3. Posted(r).nonce \in Nat
      BY <3>2, JsonRoundTrip DEF Posted, UserTxs
    <3> QED BY <1>4, <1>10, <1>11, <3>1, <3>3
  <2>3. ASSUME NEW i \in DOMAIN rows', rows'[i].tap # 0
        PROVE  rows'[i].tap \in DOMAIN asked' /\ Content(rows'[i].tx.from, rows'[i].tx) = asked'[rows'[i].tap]
    <3>1. CASE i \in DOMAIN rows
      BY <1>0, <1>4, <1>8, <2>3, <3>1 DEF RequestInv
    <3>2. CASE i \notin DOMAIN rows
      BY <1>4, <1>6, <1>7, <3>2
    <3> QED BY <3>1, <3>2
  <2>4. ASSUME NEW i \in DOMAIN rows', NEW j \in DOMAIN rows', rows'[i].tap = rows'[j].tap
        PROVE  i = j \/ rows'[i].tap = 0
    <3>1. CASE i \in DOMAIN rows /\ j \in DOMAIN rows
      BY <1>0, <1>8, <2>4, <3>1 DEF RequestInv
    <3>2. CASE i \notin DOMAIN rows /\ j \in DOMAIN rows
      BY <1>6, <1>7, <1>8, <2>4, <3>2 DEF TapsExecuted
    <3>3. CASE i \in DOMAIN rows /\ j \notin DOMAIN rows
      BY <1>6, <1>7, <1>8, <2>4, <3>3 DEF TapsExecuted
    <3>4. CASE i \notin DOMAIN rows /\ j \notin DOMAIN rows
      BY <1>6, <3>4
    <3> QED BY <3>1, <3>2, <3>3, <3>4
  <2> QED BY <2>1, <2>2, <2>3, <2>4 DEF RequestInv
<1>13. BusyInv'
  <2>1. busy \in Runs
    BY <1>0 DEF BusyInv
  <2>2. CASE busy.phase = "posted" /\ busy.tap = request.tap
    <3>1. busy \in [phase : {"posted"}, tap : DOMAIN asked, tx : UserTxs, answer : {None}, seq : {0}]
      BY <2>1, <2>2, RunIs
    <3>2. busy' = [busy EXCEPT !.phase = "answered", !.answer = answer, !.seq = Len(rows')]
      BY <1>4, <2>2
    <3>3. /\ busy' \in [phase : {"answered"}, tap : DOMAIN asked, tx : UserTxs, answer : Answers, seq : Nat]
          /\ busy'.phase = "answered" /\ busy'.tap = busy.tap /\ busy'.tx = busy.tx
          /\ busy'.answer = answer /\ busy'.seq = Len(rows')
      BY <1>5, <1>6, <3>1, <3>2
    <3>4. busy' \in Runs'
      BY <1>4, <3>3 DEF Runs
    <3>5. busy.tx = tx /\ Content(busy.tx.from, busy.tx) = asked[busy.tap]
      BY <1>0, <1>2, <2>2 DEF BusyInv
    <3>6. answer.status = 201 =>
             /\ request.tap \in TapsExecuted'
             /\ Len(rows') \in DOMAIN rows' /\ rows'[Len(rows')].tx.type = tx.type
      <4>1. answer.status = 201 => Executed(answer)
        BY ReceiptIsExecuted
      <4> QED BY <1>6, <4>1 DEF TapsExecuted
    <3>7. answer.code \in FlashCodes => answer.status # 201 /\ request.tap \notin TapsExecuted'
      <4>1. answer.code \in FlashCodes => answer.status # 201 /\ rows' = rows
        BY <1>5, <1>6, ReceiptIsExecuted
      <4> QED BY <1>7, <4>1 DEF TapsExecuted
    <3>8. answer.code = "BAD_NONCE" => <<tx.from, tx.nonce>> \in Landed'
      BY <1>0, <1>5, <1>7, <1>10, BadNonceMeans
    <3>9. request.tap \notin TapsPosted'
      BY <1>10
    <3> QED BY <1>4, <2>2, <3>3, <3>4, <3>5, <3>6, <3>7, <3>8, <3>9 DEF BusyInv
  <2>3. CASE ~(busy.phase = "posted" /\ busy.tap = request.tap)
    <3>1. busy' = busy /\ asked' = asked
      BY <1>4, <2>3
    <3>2. busy' \in Runs'
      BY <2>1, <3>1, RunsKept
    <3>3. busy.phase \in {"nonce", "sign", "posted", "answered"} => busy.tap \in DOMAIN asked /\ busy.tx.nonce \in Nat
      BY <2>1, TapOfRun, TxOfRun
    <3>4. busy.phase \in {"nonce", "sign"} => busy.tap \notin TapsExecuted' \cup TapsPosted'
      BY <1>0, <1>7, <1>10 DEF BusyInv
    <3>5. busy.phase = "sign" => busy.tx.nonce <= Get(l2', busy.tx.from, Asset).nonce
      BY <1>0, <1>11, <3>3 DEF BusyInv
    <3>6. busy.phase = "posted" => \A r \in inTransit' : r.tap = busy.tap => Posted(r) = busy.tx
      BY <1>0, <1>9 DEF BusyInv
    <3>7. busy.phase = "answered" =>
            /\ busy.tap \notin TapsPosted' /\ busy.tap # request.tap
            /\ busy.answer.status = 201 =>
                  /\ busy.tap \in TapsExecuted'
                  /\ busy.seq \in DOMAIN rows' /\ rows'[busy.seq].tx.type = busy.tx.type
            /\ busy.answer.code \in FlashCodes => busy.answer.status # 201 /\ busy.tap \notin TapsExecuted'
            /\ busy.answer.code = "BAD_NONCE" => <<busy.tx.from, busy.tx.nonce>> \in Landed'
      BY <1>0, <1>7, <1>8, <1>10 DEF BusyInv
    <3> QED BY <1>0, <3>1, <3>2, <3>4, <3>5, <3>6, <3>7 DEF BusyInv
  <2> QED BY <2>2, <2>3
<1>14. SaidInv'
  <2>1. /\ said' = said /\ asked' = asked
        /\ busy'.phase = busy.phase \/ busy.phase = "posted"
    <3>1. CASE busy.phase = "posted" /\ busy.tap = request.tap
      BY <1>4, <3>1
    <3>2. CASE ~(busy.phase = "posted" /\ busy.tap = request.tap)
      BY <1>4, <3>2
    <3> QED BY <3>1, <3>2
  <2>2. said.text \in FlashCodes => said.tap \notin TapsExecuted' \cup TapsPosted'
    BY <1>0, <1>7, <1>10 DEF SaidInv
  <2> QED BY <1>0, <1>10, <2>1, <2>2 DEF SaidInv
<1>15. PageInv'
  BY <1>0, <1>4, <1>6, PageKept
<1> QED BY <1>4, <1>6, <1>12, <1>13, <1>14, <1>15 DEF WalletInv, PaymentInv

-----------------------------------------------------------------------------
(* Steps of the page *)

\* The server is as it was ...
LEMMA ServerUnmoved ==
    ASSUME WalletInv, UNCHANGED <<rows, l2>>
    PROVE  /\ ServerInv'
           /\ Landed' = Landed /\ Burns' = Burns /\ TapsExecuted' = TapsExecuted
           /\ \A a : Get(l2', a, Asset).nonce = Get(l2, a, Asset).nonce
BY DEF WalletInv, ServerInv, Landed, Burns, TapsExecuted

\* ... and what it was asked.
LEMMA RequestsUnmoved ==
    ASSUME WalletInv, UNCHANGED <<rows, l2, inTransit, asked>>, moves' \in 0..MaxMoves
    PROVE  RequestInv' /\ TapsPosted' = TapsPosted
<1>1. TapsExecuted' = TapsExecuted /\ TapsPosted' = TapsPosted
  BY DEF TapsExecuted, TapsPosted
<1> QED BY <1>1 DEF WalletInv, RequestInv

LEMMA PageMoves ==
    ASSUME WalletInv, UNCHANGED <<rows, l2, payment, inTransit, asked>>, moves' \in 0..MaxMoves,
           BusyInv', SaidInv', PageInv'
    PROVE  WalletInv'
BY ServerUnmoved, RequestsUnmoved DEF WalletInv, PaymentInv

LEMMA BusyUnmoved ==
    ASSUME WalletInv, UNCHANGED <<rows, l2, inTransit, asked, busy>>
    PROVE  BusyInv'
<1>1. /\ Landed' = Landed /\ TapsExecuted' = TapsExecuted /\ TapsPosted' = TapsPosted
      /\ UNCHANGED <<rows, l2, inTransit, asked, busy>>
  BY ServerUnmoved DEF TapsPosted
<1>2. BusyInv /\ busy' \in Runs'
  BY RunsKept DEF WalletInv, BusyInv
<1> QED BY <1>1, <1>2 DEF BusyInv

LEMMA SaidUnmoved ==
    ASSUME WalletInv, UNCHANGED <<rows, l2, inTransit, asked, busy, said>>
    PROVE  SaidInv'
<1>1. Landed' = Landed /\ TapsExecuted' = TapsExecuted /\ TapsPosted' = TapsPosted
  BY ServerUnmoved DEF TapsPosted
<1> QED BY <1>1 DEF WalletInv, SaidInv

LEMMA PageUnmoved ==
    ASSUME WalletInv, UNCHANGED <<rows, l2, address, pending, flashBalance, refresh, list, poll>>
    PROVE  PageInv'
BY ServerUnmoved DEF WalletInv, PageInv

\* run is over, but for its refresh.
LEMMA RunIsOver ==
    ASSUME busy' = Idle \/ busy' \in [phase : {"refresh"}, from : Mine]
    PROVE  BusyInv' /\ busy'.phase \in {"idle", "refresh"}
<1>1. busy' \in Runs'
  BY DEF Runs
<1>2. busy'.phase \in {"idle", "refresh"}
  BY DEF Idle
<1> QED BY <1>1, <1>2 DEF BusyInv

\* What is no promise.
LEMMA SaysLittle ==
    ASSUME WalletInv, said'.tap \in 0..Len(asked'), said' = Silent \/ busy'.phase \in {"idle", "refresh"},
           said'.text \notin FlashCodes \cup {"paid", "burned"}
    PROVE  SaidInv'
<1>1. "BAD_NONCE" \in FlashCodes
  BY DEF FlashCodes
<1> QED BY <1>1 DEF SaidInv

LEMMA SilentIs ==
    Silent.tap = 0 /\ Silent.text \notin FlashCodes \cup {"paid", "burned"}
BY DEF Silent, FlashCodes

LEMMA LenOfAsked ==
    ASSUME WalletInv
    PROVE  Len(asked) \in Nat /\ DOMAIN asked = 1..Len(asked) /\ MaxMoves \in Nat /\ moves \in 0..MaxMoves
BY WalletConfig DEF WalletInv, RequestInv

LEMMA ListOfIs ==
    ASSUME NEW account \in Mine \cup {None}
    PROVE  ListOf(account) = None \/ /\ ListOf(account) \in [account : Mine, asked : BOOLEAN, todo : SUBSET Nat]
                                     /\ ListOf(account).account = account
                                     /\ ListOf(account).todo = {}
BY DEF ListOf

LEMMA SwitchToKeeps ==
    ASSUME WalletInv, NEW account \in Mine \cup {None}, SwitchTo(account)
    PROVE  WalletInv'
<1>1. /\ moves < MaxMoves /\ moves' = moves + 1 /\ address' = account /\ list' = ListOf(account)
      /\ UNCHANGED <<rows, l2, payment, inTransit, busy, said, pending, flashBalance, refresh, poll, asked>>
  BY DEF SwitchTo, MayMove, server
<1>2. moves' \in 0..MaxMoves
  BY <1>1, LenOfAsked
<1>3. PageInv'
  <2>1. Burns' = Burns /\ PageInv
    BY <1>1, ServerUnmoved DEF WalletInv
  <2> QED BY <1>1, <2>1, ListOfIs DEF PageInv
<1> QED BY <1>1, <1>2, <1>3, BusyUnmoved, SaidUnmoved, PageMoves

LEMMA ReloadKeeps ==
    ASSUME WalletInv, NEW account \in Mine \cup {None}, Reload(account)
    PROVE  WalletInv'
<1>1. /\ moves < MaxMoves /\ moves' = moves + 1 /\ address' = account /\ list' = ListOf(account)
      /\ busy' = Idle /\ said' = Silent /\ pending' = <<>> /\ flashBalance' = 0 /\ refresh' = None /\ poll' = None
      /\ UNCHANGED <<rows, l2, payment, inTransit, asked>>
  BY DEF Reload, MayMove, server
<1>2. moves' \in 0..MaxMoves
  BY <1>1, LenOfAsked
<1>3. PageInv'
  BY <1>1, ListOfIs DEF PageInv
<1>4. SaidInv'
  BY <1>1, SilentIs, LenOfAsked, SaysLittle
<1> QED BY <1>1, <1>2, <1>3, <1>4, RunIsOver, PageMoves

\* A form is submitted, under a number no other has.
LEMMA TapKeeps ==
    ASSUME WalletInv, NEW form \in Forms, Tap(form)
    PROVE  WalletInv'
<1> DEFINE tap == Len(asked) + 1
<1>1. /\ moves < MaxMoves /\ moves' = moves + 1 /\ address # None
      /\ said' = Silent /\ asked' = Append(asked, Content(address, form))
      /\ busy' = IF form.type = "deposit"
                 THEN [phase |-> "pay", tap |-> Len(asked'), from |-> address, before |-> flashBalance]
                 ELSE [phase |-> "nonce", tap |-> Len(asked'), tx |-> Unsigned(address, form, 0)]
      /\ UNCHANGED <<rows, l2, payment, inTransit, address, pending, flashBalance, refresh, list, poll>>
  BY DEF Tap, MayMove, server
<1>2. /\ form.type \in {"transfer", "withdraw", "deposit"} /\ form.to \in Account /\ form.amount \in Nat
      /\ address \in Mine /\ address \in Account /\ flashBalance \in Nat
  <2>1. Forms \subseteq [type : {"transfer", "withdraw", "deposit"}, to : Account, amount : Nat]
        /\ Mine \subseteq Account
    BY WalletConfig
  <2> QED BY <1>1, <2>1 DEF WalletInv, PageInv
<1>3. Len(asked) \in Nat /\ DOMAIN asked = 1..Len(asked) /\ MaxMoves \in Nat /\ moves \in 0..MaxMoves
  BY LenOfAsked
<1>4. /\ asked' \in Seq(Contents) /\ Len(asked') = tap
      /\ \A t \in 1..Len(asked) : asked'[t] = asked[t]
      /\ asked'[tap] = Content(address, form)
  <2>1. Content(address, form) \in Contents
    BY <1>2 DEF Content, Contents
  <2>2. asked \in Seq(Contents)
    BY DEF WalletInv, RequestInv
  <2> HIDE DEF tap
  <2>3. /\ Append(asked, Content(address, form)) \in Seq(Contents)
        /\ Len(Append(asked, Content(address, form))) = Len(asked) + 1
        /\ \A t \in 1..Len(asked) : Append(asked, Content(address, form))[t] = asked[t]
        /\ Append(asked, Content(address, form))[Len(asked) + 1] = Content(address, form)
    BY <2>1, <2>2, AppendIs
  <2> QED BY <1>1, <2>3 DEF tap
<1>5. /\ DOMAIN asked' = 1..tap /\ tap \in DOMAIN asked' /\ tap # 0 /\ tap \notin DOMAIN asked
      /\ \A t \in DOMAIN asked : t \in DOMAIN asked' /\ asked'[t] = asked[t]
  BY <1>3, <1>4
<1>6. /\ ServerInv' /\ Landed' = Landed /\ Burns' = Burns /\ TapsExecuted' = TapsExecuted
      /\ TapsPosted' = TapsPosted /\ RequestInv
  BY <1>1, ServerUnmoved DEF TapsPosted, WalletInv
<1>7. tap \notin TapsExecuted \cup TapsPosted
  <2>1. \A i \in DOMAIN rows : rows[i].tap # tap
    BY <1>5, <1>6 DEF RequestInv
  <2>2. \A r \in inTransit : r.tap # tap
    BY <1>5, <1>6 DEF RequestInv
  <2> QED BY <2>1, <2>2 DEF TapsExecuted, TapsPosted
<1>8. moves' \in 0..MaxMoves
  BY <1>1, <1>3
<1>9. RequestInv'
  <2>1. inTransit' \subseteq [json : {TxToJson(t) : t \in UserTxs}, tap : DOMAIN asked']
    BY <1>1, <1>5, <1>6 DEF RequestInv
  <2>2. \A r \in inTransit' :
            /\ Content(Posted(r).from, Posted(r)) = asked'[r.tap]
            /\ Posted(r).nonce <= Get(l2', Posted(r).from, Asset).nonce
            /\ r.tap \notin TapsExecuted'
    BY <1>1, <1>5, <1>6 DEF RequestInv
  <2>3. \A i \in DOMAIN rows' : rows'[i].tap # 0 =>
           rows'[i].tap \in DOMAIN asked' /\ Content(rows'[i].tx.from, rows'[i].tx) = asked'[rows'[i].tap]
    BY <1>1, <1>5, <1>6 DEF RequestInv
  <2> QED BY <1>1, <1>4, <1>6, <1>8, <2>1, <2>2, <2>3 DEF RequestInv
<1> HIDE DEF tap
<1>10. BusyInv'
  <2>1. CASE form.type = "deposit"
    <3>1. busy' = [phase |-> "pay", tap |-> tap, from |-> address, before |-> flashBalance]
      BY <1>1, <1>4, <2>1
    <3>2. busy' \in [phase : {"pay", "credit"}, tap : DOMAIN asked', from : Mine, before : Nat]
      BY <1>2, <1>5, <3>1
    <3>3. busy' \in Runs' /\ busy'.phase = "pay"
      BY <3>1, <3>2 DEF Runs
    <3> QED BY <3>3 DEF BusyInv
  <2>2. CASE form.type # "deposit"
    <3> DEFINE body == Unsigned(address, form, 0)
    <3>1. body \in Bodies
      BY <1>2, <2>2, UnsignedIs
    <3>2. Content(body.from, body) = Content(address, form)
      BY DEF Content, Unsigned
    <3> HIDE DEF body
    <3>3. busy' = [phase |-> "nonce", tap |-> tap, tx |-> body]
      BY <1>1, <1>4, <2>2 DEF body
    <3>4. busy' \in [phase : {"nonce", "sign"}, tap : DOMAIN asked', tx : Bodies]
      BY <1>5, <3>1, <3>3
    <3>5. busy' \in Runs' /\ busy'.phase = "nonce" /\ busy'.tap = tap /\ busy'.tx = body
      BY <3>3, <3>4 DEF Runs
    <3> QED BY <1>4, <1>6, <1>7, <3>2, <3>5 DEF BusyInv
  <2> QED BY <2>1, <2>2
<1>11. SaidInv'
  <2>1. said'.tap \in 0..Len(asked')
    BY <1>1, <1>3, <1>4, SilentIs DEF tap
  <2> QED BY <1>1, <2>1, SilentIs, SaysLittle
<1> QED BY <1>1, <1>6, <1>9, <1>10, <1>11, PageUnmoved DEF WalletInv, PaymentInv

LEMMA NonceAnsweredKeeps ==
    ASSUME WalletInv, NonceAnswered
    PROVE  WalletInv'
<1>1. /\ busy.phase = "nonce"
      /\ busy' = [busy EXCEPT !.phase = "sign", !.tx.nonce = GetNonce(l2, busy.tx.from, Asset)]
      /\ UNCHANGED <<rows, l2, payment, inTransit, address, said, pending, flashBalance, refresh, list, poll, asked, moves>>
  BY DEF NonceAnswered, server
<1>2. /\ ServerInv' /\ Landed' = Landed /\ TapsExecuted' = TapsExecuted
      /\ TapsPosted' = TapsPosted /\ BusyInv /\ SaidInv
  BY <1>1, ServerUnmoved DEF TapsPosted, WalletInv
<1>3. busy \in [phase : {"nonce", "sign"}, tap : DOMAIN asked, tx : Bodies]
  BY <1>1, <1>2, RunIs DEF BusyInv
<1>4. PICK nonce : nonce = GetNonce(l2, busy.tx.from, Asset)
  OBVIOUS
<1>5. nonce \in Nat /\ nonce = Get(l2, busy.tx.from, Asset).nonce
  BY <1>4, GetType DEF GetNonce, WalletInv, ServerInv
<1> DEFINE body == [busy.tx EXCEPT !.nonce = nonce]
<1>6. body \in Bodies /\ Content(body.from, body) = Content(busy.tx.from, busy.tx)
      /\ body.from = busy.tx.from /\ body.nonce = nonce
  BY <1>3, <1>5 DEF Bodies, Content
<1>7. busy' = [busy EXCEPT !.phase = "sign", !.tx = body]
  BY <1>1, <1>3, <1>4
<1> HIDE DEF body
<1>8. /\ busy' \in [phase : {"nonce", "sign"}, tap : DOMAIN asked, tx : Bodies]
      /\ busy'.phase = "sign" /\ busy'.tap = busy.tap /\ busy'.tx = body
  BY <1>3, <1>6, <1>7
<1>9. busy' \in Runs'
  BY <1>1, <1>8 DEF Runs
<1>10. BusyInv'
  BY <1>1, <1>2, <1>5, <1>6, <1>8, <1>9 DEF BusyInv
<1>11. SaidInv'
  <2>1. said = Silent /\ said' = said
    BY <1>1, <1>2 DEF SaidInv
  <2> QED BY <1>1, <2>1, SilentIs, LenOfAsked, SaysLittle
<1> QED BY <1>1, <1>10, <1>11, PageUnmoved, PageMoves, LenOfAsked

\* The request of the run is posted; nothing else asks for the same tap.
LEMMA SignKeeps ==
    ASSUME WalletInv, NEW key \in Mine, Sign(key)
    PROVE  WalletInv'
<1>0. ServerInv /\ RequestInv /\ BusyInv /\ SaidInv /\ key \in Account /\ busy.phase = "sign"
  BY WalletConfig DEF WalletInv, Sign
<1>1. PICK tx : tx = Signed(busy.tx, key, "hex")
  OBVIOUS
<1>2. /\ inTransit' = inTransit \cup {[json |-> TxToJson(tx), tap |-> busy.tap]}
      /\ busy' = [phase |-> "posted", tap |-> busy.tap, tx |-> tx, answer |-> None, seq |-> 0]
      /\ UNCHANGED <<rows, l2, payment, address, said, pending, flashBalance, refresh, list, poll, asked, moves>>
  BY <1>1 DEF Sign
<1>3. busy \in [phase : {"nonce", "sign"}, tap : DOMAIN asked, tx : Bodies]
  BY <1>0, RunIs DEF BusyInv
<1>4. tx \in UserTxs /\ Content(tx.from, tx) = Content(busy.tx.from, busy.tx)
      /\ tx.from = busy.tx.from /\ tx.nonce = busy.tx.nonce
  <2>1. busy.tx \in Bodies
    BY <1>3
  <2>2. PICK body \in Bodies : body = busy.tx
    BY <2>1
  <2>3. tx = Signed(body, key, "hex")
    BY <1>1, <2>2
  <2> QED BY <1>0, <2>2, <2>3, SignedIs DEF Content
<1> DEFINE request == [json |-> TxToJson(tx), tap |-> busy.tap]
<1>5. request.json = TxToJson(tx) /\ request.tap = busy.tap /\ Posted(request) = tx
  BY <1>4, JsonRoundTrip DEF Posted
<1>6. /\ busy.tap \in DOMAIN asked /\ Content(tx.from, tx) = asked[busy.tap]
      /\ tx.nonce <= Get(l2, tx.from, Asset).nonce
      /\ busy.tap \notin TapsExecuted /\ busy.tap \notin TapsPosted
  BY <1>0, <1>3, <1>4 DEF BusyInv
<1>7. request \in [json : {TxToJson(t) : t \in UserTxs}, tap : DOMAIN asked]
  BY <1>4, <1>6
<1> HIDE DEF request
<1>8. inTransit' = inTransit \cup {request}
  BY <1>2 DEF request
<1>9. /\ ServerInv' /\ Landed' = Landed /\ TapsExecuted' = TapsExecuted
  BY <1>2, ServerUnmoved
<1>10. \A r \in inTransit : r.tap # busy.tap
  BY <1>6 DEF TapsPosted
<1>11. RequestInv'
  <2>1. inTransit' \subseteq [json : {TxToJson(t) : t \in UserTxs}, tap : DOMAIN asked']
    BY <1>0, <1>2, <1>7, <1>8 DEF RequestInv
  <2>2. ASSUME NEW r \in inTransit'
        PROVE  /\ Content(Posted(r).from, Posted(r)) = asked'[r.tap]
               /\ Posted(r).nonce <= Get(l2', Posted(r).from, Asset).nonce
               /\ r.tap \notin TapsExecuted'
    <3>1. CASE r = request
      BY <1>2, <1>5, <1>6, <1>9, <3>1
    <3>2. CASE r \in inTransit
      BY <1>0, <1>2, <1>9, <3>2 DEF RequestInv
    <3> QED BY <1>8, <3>1, <3>2
  <2>3. \A r1, r2 \in inTransit' : r1.tap = r2.tap => r1 = r2
    BY <1>0, <1>5, <1>8, <1>10 DEF RequestInv
  <2> QED BY <1>0, <1>2, <2>1, <2>2, <2>3 DEF RequestInv
<1>12. BusyInv'
  <2>1. busy' \in [phase : {"posted"}, tap : DOMAIN asked', tx : UserTxs, answer : {None}, seq : {0}]
    BY <1>2, <1>4, <1>6
  <2>2. busy' \in Runs' /\ busy'.phase = "posted" /\ busy'.tap = busy.tap /\ busy'.tx = tx
    BY <1>2, <2>1 DEF Runs
  <2>3. \A r \in inTransit' : r.tap = busy.tap => Posted(r) = tx
    BY <1>5, <1>8, <1>10
  <2> QED BY <1>2, <1>6, <2>2, <2>3 DEF BusyInv
<1>13. SaidInv'
  <2>1. said = Silent /\ said' = said
    BY <1>0, <1>2 DEF SaidInv
  <2> QED BY <1>2, <2>1, SilentIs, LenOfAsked, SaysLittle
<1> QED BY <1>2, <1>9, <1>11, <1>12, <1>13, PageUnmoved DEF WalletInv, PaymentInv

LEMMA TextsAre ==
    /\ "burned" \notin FlashCodes /\ "paid" \notin FlashCodes
    /\ "paid" # "BAD_NONCE" /\ "burned" # "BAD_NONCE"
    /\ {"threw", "credited", "landed", "refused"} \cap (FlashCodes \cup {"paid", "burned"}) = {}
    /\ \A code \in FlashCodes \cup {"INTERNAL", "receipt"} : code # "paid" /\ code # "burned"
    /\ "BAD_NONCE" \in FlashCodes
BY DEF FlashCodes

LEMMA AnsweredIs ==
    ASSUME WalletInv, busy.phase = "answered"
    PROVE  /\ busy \in [phase : {"answered"}, tap : DOMAIN asked, tx : UserTxs, answer : Answers, seq : Nat]
           /\ busy.tap \in DOMAIN asked /\ busy.tx \in UserTxs /\ busy.seq \in Nat /\ busy.answer \in Answers
           /\ busy.tx.from \in Mine /\ asked[busy.tap].from = busy.tx.from
           /\ busy.tap \in 0..Len(asked)
<1>1. busy \in [phase : {"answered"}, tap : DOMAIN asked, tx : UserTxs, answer : Answers, seq : Nat]
  BY RunIs DEF WalletInv, BusyInv
<1>2. Content(busy.tx.from, busy.tx) = asked[busy.tap] /\ asked \in Seq(Contents)
  BY DEF WalletInv, BusyInv, RequestInv
<1>3. asked[busy.tap] \in Contents
  BY <1>1, <1>2
<1>4. asked[busy.tap].from = busy.tx.from
  BY <1>2 DEF Content
<1>5. asked[busy.tap].from \in Mine
  BY <1>3 DEF Contents
<1> QED BY <1>1, <1>4, <1>5, LenOfAsked

\* The receipt is of something executed.
LEMMA ConfirmedKeeps ==
    ASSUME WalletInv, Confirmed
    PROVE  WalletInv'
<1>1. /\ busy.phase = "answered" /\ busy.answer.status = 201
      /\ pending' = IF busy.tx.type = "withdraw"
                    THEN <<[id |-> busy.seq, shown |-> "none"]>> \o pending ELSE pending
      /\ said' = Say(IF busy.tx.type = "withdraw" THEN "burned" ELSE "paid", busy.tap)
      /\ busy' = [phase |-> "refresh", from |-> busy.tx.from]
      /\ UNCHANGED <<rows, l2, payment, inTransit, address, flashBalance, refresh, list, poll, asked, moves>>
  BY DEF Confirmed, server
<1>2. /\ busy.tap \in DOMAIN asked /\ busy.tx.from \in Mine /\ busy.tap \in 0..Len(asked) /\ busy.seq \in Nat
  BY <1>1, AnsweredIs
<1>3. /\ busy.tap \in TapsExecuted
      /\ busy.seq \in DOMAIN rows /\ rows[busy.seq].tx.type = busy.tx.type
  BY <1>1 DEF WalletInv, BusyInv
<1>4. Burns' = Burns /\ TapsExecuted' = TapsExecuted
  BY <1>1, ServerUnmoved
<1>5. BusyInv' /\ busy'.phase \in {"idle", "refresh"}
  BY <1>1, <1>2, RunIsOver
<1>6. SaidInv'
  <2>1. said'.tap = busy.tap /\ said'.text \in {"paid", "burned"}
    BY <1>1 DEF Say
  <2> QED BY <1>1, <1>2, <1>3, <1>4, <1>5, <2>1, TextsAre DEF SaidInv
<1>7. pending' \in Seq(Entries) /\ \A i \in DOMAIN pending' : pending'[i].id \in Burns
  <2>0. pending \in Seq(Entries) /\ \A i \in DOMAIN pending : pending[i].id \in Burns
    BY DEF WalletInv, PageInv
  <2>1. CASE busy.tx.type = "withdraw"
    <3>1. PICK entry : entry = [id |-> busy.seq, shown |-> "none"]
      OBVIOUS
    <3>2. entry \in Entries /\ entry.id \in Burns
      BY <1>2, <1>3, <2>1, <3>1, NoneIsAStage DEF Entries, Burns
    <3>3. pending' = <<entry>> \o pending
      BY <1>1, <2>1, <3>1
    <3>4. pending' \in Seq(Entries) /\ \A i \in DOMAIN pending' : pending'[i] = entry \/ \E j \in DOMAIN pending : pending'[i] = pending[j]
      <4>1. <<entry>> \in Seq(Entries) /\ Len(<<entry>>) = 1 /\ <<entry>>[1] = entry
        BY <3>2
      <4>2. pending' \in Seq(Entries) /\ DOMAIN pending' = 1..(Len(pending) + 1)
        BY <2>0, <3>3, <4>1
      <4>3. ASSUME NEW i \in DOMAIN pending' PROVE pending'[i] = entry \/ \E j \in DOMAIN pending : pending'[i] = pending[j]
        <5>1. CASE i = 1
          BY <2>0, <3>3, <4>1, <4>2, <5>1
        <5>2. CASE i # 1
          <6>1. i - 1 \in DOMAIN pending /\ pending'[i] = pending[i - 1]
            BY <2>0, <3>3, <4>1, <4>2, <5>2
          <6> QED BY <6>1
        <5> QED BY <5>1, <5>2
      <4> QED BY <4>2, <4>3
    <3> QED BY <2>0, <3>2, <3>4
  <2>2. CASE busy.tx.type # "withdraw"
    BY <1>1, <2>0, <2>2
  <2> QED BY <2>1, <2>2
<1>8. PageInv'
  BY <1>1, <1>4, <1>7 DEF WalletInv, PageInv
<1> QED BY <1>1, <1>5, <1>6, <1>8, PageMoves, LenOfAsked

\* What the code of a refusal says is so.
LEMMA RefusedKeeps ==
    ASSUME WalletInv, Refused
    PROVE  WalletInv'
<1>1. /\ busy.phase = "answered" /\ busy.answer.status # 201
      /\ said' = HumanError(busy.answer.code, busy.tap, busy.tx.nonce)
      /\ busy' = Idle
      /\ UNCHANGED <<rows, l2, payment, inTransit, address, pending, flashBalance, refresh, list, poll, asked, moves>>
  BY DEF Refused, server
<1>2. /\ busy.tap \in DOMAIN asked /\ busy.tap \in 0..Len(asked)
      /\ asked[busy.tap].from = busy.tx.from /\ busy.answer.code \in FlashCodes \cup {"INTERNAL", "receipt"}
  BY <1>1, AnsweredIs DEF Answers
<1>3. /\ busy.tap \notin TapsPosted
      /\ busy.answer.code \in FlashCodes => busy.tap \notin TapsExecuted
      /\ busy.answer.code = "BAD_NONCE" => <<busy.tx.from, busy.tx.nonce>> \in Landed
  BY <1>1 DEF WalletInv, BusyInv
<1>4. Landed' = Landed /\ TapsExecuted' = TapsExecuted /\ TapsPosted' = TapsPosted
  BY <1>1, ServerUnmoved DEF TapsPosted
<1>5. BusyInv' /\ busy'.phase \in {"idle", "refresh"}
  BY <1>1, RunIsOver
<1>6. SaidInv'
  <2>1. said'.tap = busy.tap /\ said'.text = busy.answer.code /\ said'.nonce = busy.tx.nonce
    BY <1>1 DEF HumanError
  <2> QED BY <1>1, <1>2, <1>3, <1>4, <1>5, <2>1, TextsAre DEF SaidInv
<1> QED BY <1>1, <1>5, <1>6, PageUnmoved, PageMoves, LenOfAsked

LEMMA RunThrowsKeeps ==
    ASSUME WalletInv, RunThrows
    PROVE  WalletInv'
<1>1. /\ busy.phase \in {"nonce", "sign", "posted", "answered", "pay", "credit"}
      /\ said' = Say("threw", busy.tap) /\ busy' = Idle
      /\ UNCHANGED <<rows, l2, payment, inTransit, address, pending, flashBalance, refresh, list, poll, asked, moves>>
  BY DEF RunThrows, server
<1>2. busy.tap \in DOMAIN asked
  BY <1>1, TapOfRun DEF WalletInv, BusyInv
<1>3. BusyInv' /\ busy'.phase \in {"idle", "refresh"}
  BY <1>1, RunIsOver
<1>4. said'.tap \in 0..Len(asked') /\ said'.text \notin FlashCodes \cup {"paid", "burned"}
  BY <1>1, <1>2, TextsAre, LenOfAsked DEF Say
<1>5. SaidInv'
  BY <1>3, <1>4, SaysLittle
<1> QED BY <1>1, <1>3, <1>5, PageUnmoved, PageMoves, LenOfAsked

LEMMA SendPaymentKeeps ==
    ASSUME WalletInv, NEW lost \in BOOLEAN, SendPayment(lost)
    PROVE  WalletInv'
<1>1. /\ busy.phase = "pay"
      /\ payment' = [account |-> busy.from, row |-> "seen", credited |-> FALSE]
      /\ lost => busy' = Idle /\ said' = Say("threw", busy.tap)
      /\ ~lost => busy' = [busy EXCEPT !.phase = "credit"] /\ said' = said
      /\ UNCHANGED <<rows, l2, inTransit, address, pending, flashBalance, refresh, list, poll, asked, moves>>
  BY DEF SendPayment
<1>2. busy \in [phase : {"pay", "credit"}, tap : DOMAIN asked, from : Mine, before : Nat]
  BY <1>1, RunIs DEF WalletInv, BusyInv
<1>3. PaymentInv'
  BY <1>1, <1>2 DEF PaymentInv, Payments
<1>4. BusyInv' /\ SaidInv'
  <2>1. CASE lost
    <3>1. BusyInv' /\ busy'.phase \in {"idle", "refresh"}
      BY <1>1, <2>1, RunIsOver
    <3>2. said'.tap \in 0..Len(asked') /\ said'.text \notin FlashCodes \cup {"paid", "burned"}
      BY <1>1, <1>2, <2>1, TextsAre, LenOfAsked DEF Say
    <3> QED BY <3>1, <3>2, SaysLittle
  <2>2. CASE ~lost
    <3>1. busy' \in [phase : {"pay", "credit"}, tap : DOMAIN asked, from : Mine, before : Nat] /\ busy'.phase = "credit"
      BY <1>1, <1>2, <2>2
    <3>2. busy' \in Runs'
      BY <1>1, <3>1 DEF Runs
    <3>3. said' = Silent
      BY <1>1, <2>2 DEF WalletInv, SaidInv
    <3>4. SaidInv'
      BY <1>1, <3>3, SilentIs, LenOfAsked, SaysLittle
    <3> QED BY <3>1, <3>2, <3>4 DEF BusyInv
  <2> QED BY <2>1, <2>2
<1>5. ServerInv' /\ RequestInv' /\ PageInv'
  BY <1>1, ServerUnmoved, RequestsUnmoved, PageUnmoved, LenOfAsked
<1> QED BY <1>3, <1>4, <1>5 DEF WalletInv

LEMMA DepositEndsKeeps ==
    ASSUME WalletInv, NEW text \in {"credited", "landed"}, DepositEnds(text)
    PROVE  WalletInv'
<1>1. /\ busy.phase = "credit"
      /\ said' = Say(text, busy.tap) /\ busy' = [phase |-> "refresh", from |-> busy.from]
      /\ UNCHANGED <<rows, l2, payment, inTransit, address, pending, flashBalance, refresh, list, poll, asked, moves>>
  BY DEF DepositEnds, server
<1>2. busy \in [phase : {"pay", "credit"}, tap : DOMAIN asked, from : Mine, before : Nat]
  BY <1>1, RunIs DEF WalletInv, BusyInv
<1>3. BusyInv' /\ busy'.phase \in {"idle", "refresh"}
  BY <1>1, <1>2, RunIsOver
<1>4. said'.tap \in 0..Len(asked') /\ said'.text \notin FlashCodes \cup {"paid", "burned"}
  BY <1>1, <1>2, TextsAre, LenOfAsked DEF Say
<1>5. SaidInv'
  BY <1>3, <1>4, SaysLittle
<1> QED BY <1>1, <1>3, <1>5, PageUnmoved, PageMoves, LenOfAsked

LEMMA DepositRefusedKeeps ==
    ASSUME WalletInv, DepositRefused
    PROVE  WalletInv'
<1>1. /\ busy.phase = "credit"
      /\ said' = Say("refused", busy.tap) /\ busy' = Idle
      /\ UNCHANGED <<rows, l2, payment, inTransit, address, pending, flashBalance, refresh, list, poll, asked, moves>>
  BY DEF DepositRefused, server
<1>2. busy.tap \in DOMAIN asked
  BY <1>1, TapOfRun DEF WalletInv, BusyInv
<1>3. BusyInv' /\ busy'.phase \in {"idle", "refresh"}
  BY <1>1, RunIsOver
<1>4. said'.tap \in 0..Len(asked') /\ said'.text \notin FlashCodes \cup {"paid", "burned"}
  BY <1>1, <1>2, TextsAre, LenOfAsked DEF Say
<1>5. SaidInv'
  BY <1>3, <1>4, SaysLittle
<1> QED BY <1>1, <1>3, <1>5, PageUnmoved, PageMoves, LenOfAsked

\* run is over, and shows the balance, or does not.
LEMMA BalanceIsNat ==
    ASSUME WalletInv, NEW account
    PROVE  BalanceOf(account) \in Nat
<1>1. l2 \in States
  BY DEF WalletInv, ServerInv
<1>2. Get(l2, account, Asset).balance \in Nat
  BY <1>1, GetType
<1> QED BY <1>2 DEF BalanceOf, AccountView

LEMMA RunEndsKeeps ==
    ASSUME WalletInv, NEW answered \in BOOLEAN, RunEnds(answered)
    PROVE  WalletInv'
<1>1. /\ busy.phase = "refresh"
      /\ flashBalance' = IF answered THEN BalanceOf(busy.from) ELSE flashBalance
      /\ busy' = Idle
      /\ UNCHANGED <<rows, l2, payment, inTransit, address, said, pending, refresh, list, poll, asked, moves>>
  BY DEF RunEnds, server
<1>2. flashBalance' \in Nat
  BY <1>1, BalanceIsNat DEF WalletInv, PageInv
<1>3. PageInv'
  <2>1. Burns' = Burns /\ PageInv
    BY <1>1, ServerUnmoved DEF WalletInv
  <2> QED BY <1>1, <1>2, <2>1 DEF PageInv
<1>4. BusyInv' /\ busy'.phase \in {"idle", "refresh"}
  BY <1>1, RunIsOver
<1>5. SaidInv'
  <2>1. Landed' = Landed /\ TapsExecuted' = TapsExecuted /\ TapsPosted' = TapsPosted /\ SaidInv
    BY <1>1, ServerUnmoved DEF TapsPosted, WalletInv
  <2> QED BY <1>1, <1>4, <2>1 DEF SaidInv
<1> QED BY <1>1, <1>3, <1>4, <1>5, PageMoves, LenOfAsked

\* What else the page does leaves run and its requests alone.
LEMMA OnlyPageMoves ==
    ASSUME WalletInv, UNCHANGED <<rows, l2, payment, inTransit, busy, said, asked, moves>>,
           PageInv /\ Burns' = Burns => PageInv'
    PROVE  WalletInv'
<1>1. PageInv'
  BY ServerUnmoved DEF WalletInv
<1> QED BY <1>1, BusyUnmoved, SaidUnmoved, PageMoves, LenOfAsked

LEMMA RefreshStepKeeps ==
    ASSUME WalletInv, RefreshStep
    PROVE  WalletInv'
<1>1. CASE RefreshAnswered
  <2>1. /\ refresh' = [balance |-> BalanceOf(address)]
        /\ UNCHANGED <<rows, l2, payment, inTransit, address, busy, said, pending, flashBalance, list, poll, asked, moves>>
    BY <1>1 DEF RefreshAnswered, server
  <2>2. refresh' \in [balance : Nat]
    BY <2>1, BalanceIsNat
  <2>3. PageInv /\ Burns' = Burns => PageInv'
    BY <2>1, <2>2 DEF PageInv
  <2> QED BY <2>1, <2>3, OnlyPageMoves
<1>2. CASE RefreshArrives
  <2>1. /\ refresh # None /\ flashBalance' = refresh.balance /\ refresh' = None
        /\ UNCHANGED <<rows, l2, payment, inTransit, address, busy, said, pending, list, poll, asked, moves>>
    BY <1>2 DEF RefreshArrives, server
  <2>2. flashBalance' \in Nat
    BY <2>1 DEF WalletInv, PageInv
  <2>3. PageInv /\ Burns' = Burns => PageInv'
    BY <2>1, <2>2 DEF PageInv
  <2> QED BY <2>1, <2>3, OnlyPageMoves
<1> QED BY <1>1, <1>2 DEF RefreshStep

\* What is listed.
LEMMA ListedAreBurns ==
    ASSUME WalletInv, NEW account
    PROVE  /\ AccountView(l2, Txs, account, Asset).withdrawals \subseteq Burns
           /\ Burns \subseteq 1..Len(rows) /\ Len(rows) \in Nat
<1>1. Len(rows) \in Nat /\ DOMAIN rows = 1..Len(rows)
  BY RowsAre DEF WalletInv
<1>2. DOMAIN Txs = DOMAIN rows /\ \A seq \in DOMAIN rows : Txs[seq] = rows[seq].tx
  BY DEF Txs
<1>3. WithdrawalsOf(Txs, account) \subseteq Burns
  BY <1>2 DEF WithdrawalsOf, TxsForAccount, Burns
<1> QED BY <1>1, <1>3 DEF AccountView, Burns

\* A listing is made of its elements.
LEMMA NewestFirstIs ==
    ASSUME NEW n \in Nat, NEW ids, ids \subseteq 1..n
    PROVE  NewestFirst(ids) \in Seq(ids)
<1> DEFINE Newer == [id \in ids |-> {newer \in ids : newer > id}]
<1>1. IsFiniteSet(ids)
  <2>1. IsFiniteSet(1..n)
    <3>1. 1 \in Int /\ n \in Int
      OBVIOUS
    <3> QED BY <3>1, FS_Interval
  <2>2. ids \in SUBSET (1..n)
    OBVIOUS
  <2> QED BY <2>1, <2>2, FS_Subset
<1>2. Newer \in [ids -> SUBSET ids] /\ \A id \in ids : Newer[id] = {newer \in ids : newer > id}
  OBVIOUS
<1>3. \A id \in ids : id \in Int
  OBVIOUS
<1> HIDE DEF Newer
<1>4. \A w \in ids : w \notin Newer[w]
  BY <1>2, <1>3
<1>5. \A v, w \in ids : v \in Newer[w] => Newer[v] \subseteq Newer[w]
  <2> SUFFICES ASSUME NEW v \in ids, NEW w \in ids, v \in Newer[w], NEW u \in Newer[v] PROVE u \in Newer[w]
    OBVIOUS
  <2>1. Newer[v] = {newer \in ids : newer > v} /\ Newer[w] = {newer \in ids : newer > w}
    BY <1>2
  <2>2. u \in ids /\ u > v /\ v > w
    BY <2>1
  <2>3. u > w
    BY <1>3, <2>2
  <2> QED BY <2>1, <2>2, <2>3
<1>6. \A v, w \in ids : v # w => v \in Newer[w] \/ w \in Newer[v]
  BY <1>2, <1>3
<1>7. /\ Cardinality(ids) \in Nat
      /\ \A i \in 1..Cardinality(ids) : \E w \in ids : Cardinality(Newer[w]) = i - 1
  <2>1. Newer \in [ids -> SUBSET ids]
    BY <1>2
  <2> QED BY <1>1, <1>4, <1>5, <1>6, <2>1, RanksExist, Zenon
<1>8. \A i \in 1..Cardinality(ids) : \E id \in ids : Cardinality({newer \in ids : newer > id}) = i - 1
  BY <1>2, <1>7
<1>9. \A i \in 1..Cardinality(ids) :
         (CHOOSE id \in ids : Cardinality({newer \in ids : newer > id}) = i - 1) \in ids
  BY <1>8
<1>10. NewestFirst(ids) \in [1..Cardinality(ids) -> ids]
  BY <1>9 DEF NewestFirst
<1> QED BY <1>7, <1>10, SMT

\* What is shown is a stage.
LEMMA ShownIsAStage ==
    ASSUME WalletInv, NEW seq \in Burns, NEW old \in Range(Stages)
    PROVE  Shown(seq, old) \in Range(Stages)
<1>1. seq \in DOMAIN rows /\ rows[seq].stage \in Range(Stages)
  BY RowsAre DEF WalletInv, Burns, RowType
<1>2. StageOf[seq] = rows[seq].stage
  BY <1>1 DEF StageOf
<1> QED BY <1>1, <1>2 DEF Shown, ProofView

LEMMA ListStepKeeps ==
    ASSUME WalletInv, ListStep
    PROVE  WalletInv'
<1>0. PageInv
  BY DEF WalletInv
<1>1. CASE ListAnswered
  <2>1. PICK withdrawals : withdrawals = AccountView(l2, Txs, list.account, Asset).withdrawals
    OBVIOUS
  <2>2. /\ list # None
        /\ list' = IF withdrawals = {} THEN None ELSE [list EXCEPT !.asked = FALSE, !.todo = withdrawals]
        /\ UNCHANGED <<rows, l2, payment, inTransit, address, busy, said, pending, flashBalance, refresh, poll, asked, moves>>
    BY <1>1, <2>1 DEF ListAnswered, server
  <2>3. withdrawals \subseteq Burns /\ Burns \subseteq Nat
    BY <2>1, ListedAreBurns
  <2>4. list \in [account : Mine, asked : BOOLEAN, todo : SUBSET Nat] /\ list.account = address
    BY <1>0, <2>2 DEF PageInv
  <2>5. list' = None \/ /\ list' \in [account : Mine, asked : BOOLEAN, todo : SUBSET Nat]
                        /\ list'.account = address
                        /\ list'.todo = withdrawals
    BY <2>2, <2>3, <2>4
  <2>6. PageInv /\ Burns' = Burns => PageInv'
    BY <2>2, <2>3, <2>5 DEF PageInv
  <2> QED BY <2>2, <2>6, OnlyPageMoves
<1>2. ASSUME list # None, NEW failed \in SUBSET list.todo, NEW old \in SUBSET list.todo, ListArrives(failed, old)
      PROVE  WalletInv'
  <2> DEFINE stage(id) == IF id \in failed THEN "none" ELSE Shown(id, "none")
             ids == {id \in list.todo \ ShownIds(pending) : stage(id) # "claimed" \/ id \notin old}
             added == NewestFirst(ids)
             more == [i \in DOMAIN added |-> [id |-> added[i], shown |-> stage(added[i])]]
  <2>1. /\ pending' = pending \o more /\ list' = None
        /\ UNCHANGED <<rows, l2, payment, inTransit, address, busy, said, flashBalance, refresh, poll, asked, moves>>
    BY <1>2 DEF ListArrives, server
  <2>2. list.todo \subseteq Burns /\ Burns \subseteq 1..Len(rows) /\ Len(rows) \in Nat
    BY <1>0, <1>2, ListedAreBurns DEF PageInv
  <2>3. ids \subseteq Burns /\ ids \subseteq 1..Len(rows)
    BY <2>2
  <2>4. \A id \in Burns : stage(id) \in Range(Stages)
    BY NoneIsAStage, ShownIsAStage
  <2> HIDE DEF ids, stage
  <2>5. added \in Seq(ids)
    BY <2>2, <2>3, NewestFirstIs
  <2> HIDE DEF added
  <2>6. /\ Len(added) \in Nat /\ DOMAIN added = 1..Len(added)
        /\ \A i \in 1..Len(added) : added[i] \in Burns /\ added[i] \in Nat
    <3>1. Len(added) \in Nat /\ DOMAIN added = 1..Len(added)
      BY <2>5
    <3>2. \A i \in 1..Len(added) : added[i] \in ids
      BY <2>5
    <3>3. \A id \in ids : id \in Burns /\ id \in Nat
      BY <2>2, <2>3
    <3> QED BY <3>1, <3>2, <3>3
  <2>7. /\ DOMAIN more = 1..Len(added)
        /\ \A i \in 1..Len(added) : more[i] \in Entries /\ more[i].id \in Burns
    BY <2>4, <2>6 DEF Entries
  <2> HIDE DEF more
  <2>8. more \in Seq(Entries) /\ Len(more) = Len(added)
    <3>1. more = [i \in 1..Len(added) |-> more[i]]
      BY <2>7 DEF more
    <3> QED BY <2>6, <2>7, <3>1
  <2>9. pending \in Seq(Entries) /\ \A i \in 1..Len(pending) : pending[i].id \in Burns
    BY <1>0 DEF PageInv
  <2>10. pending' \in Seq(Entries) /\ \A i \in DOMAIN pending' : pending'[i].id \in Burns
    <3>1. PICK p : p = pending
      OBVIOUS
    <3>2. p \in Seq(Entries) /\ \A i \in 1..Len(p) : p[i].id \in Burns
      BY <2>9, <3>1
    <3>3. p \o more \in Seq(Entries) /\ Len(p \o more) = Len(p) + Len(more)
      <4>1. p \in Seq(Entries) /\ more \in Seq(Entries)
        BY <2>8, <3>2
      <4> QED BY <4>1
    <3>4. ASSUME NEW i \in 1..(Len(p) + Len(more)) PROVE (p \o more)[i].id \in Burns
      <4>1. CASE i <= Len(p)
        <5>1. i \in 1..Len(p) /\ (p \o more)[i] = p[i]
          BY <2>8, <3>2, <4>1
        <5> QED BY <3>2, <5>1
      <4>2. CASE ~(i <= Len(p))
        <5>1. i - Len(p) \in 1..Len(more) /\ (p \o more)[i] = more[i - Len(p)]
          BY <2>8, <3>2, <4>2
        <5> QED BY <2>7, <2>8, <5>1
      <4> QED BY <4>1, <4>2
    <3>5. DOMAIN (p \o more) = 1..(Len(p) + Len(more))
      BY <3>3
    <3> QED BY <2>1, <3>1, <3>3, <3>4, <3>5
  <2>11. PageInv /\ Burns' = Burns => PageInv'
    BY <2>1, <2>10 DEF PageInv
  <2> QED BY <2>1, <2>11, OnlyPageMoves
<1>3. CASE ListFails
  <2>1. /\ list' = None
        /\ UNCHANGED <<rows, l2, payment, inTransit, address, busy, said, pending, flashBalance, refresh, poll, asked, moves>>
    BY <1>3 DEF ListFails, server
  <2>2. PageInv /\ Burns' = Burns => PageInv'
    BY <2>1 DEF PageInv
  <2> QED BY <2>1, <2>2, OnlyPageMoves
<1> QED BY <1>1, <1>2, <1>3 DEF ListStep

LEMMA PollStepKeeps ==
    ASSUME WalletInv, PollStep
    PROVE  WalletInv'
<1>0. PageInv
  BY DEF WalletInv
<1>1. CASE PollStarts
  <2>1. /\ poll' = [entries |-> pending]
        /\ UNCHANGED <<rows, l2, payment, inTransit, address, busy, said, pending, flashBalance, refresh, list, asked, moves>>
    BY <1>1 DEF PollStarts, server
  <2>2. PageInv /\ Burns' = Burns => PageInv'
    BY <2>1 DEF PageInv
  <2> QED BY <2>1, <2>2, OnlyPageMoves
<1>2. ASSUME poll # None, NEW failed \in SUBSET DOMAIN poll.entries, PollArrives(failed)
      PROVE  WalletInv'
  <2>1. PICK entries : entries = poll.entries
    OBVIOUS
  <2>2. /\ pending' = [i \in DOMAIN entries |-> IF i \in failed THEN entries[i]
                                                ELSE [entries[i] EXCEPT !.shown = Shown(entries[i].id, @)]]
        /\ poll' = None
        /\ UNCHANGED <<rows, l2, payment, inTransit, address, busy, said, flashBalance, refresh, list, asked, moves>>
    BY <1>2, <2>1 DEF PollArrives, server
  <2>3. entries \in Seq(Entries) /\ \A i \in DOMAIN entries : entries[i].id \in Burns
    BY <1>0, <1>2, <2>1 DEF PageInv
  <2>4. \A i \in DOMAIN entries : entries[i] \in Entries
    BY <2>3
  <2>5. ASSUME NEW i \in DOMAIN entries
        PROVE  [entries[i] EXCEPT !.shown = Shown(entries[i].id, @)] \in Entries
               /\ [entries[i] EXCEPT !.shown = Shown(entries[i].id, @)].id = entries[i].id
    <3>1. PICK entry \in Entries : entry = entries[i]
      BY <2>4
    <3>2. Shown(entry.id, entry.shown) \in Range(Stages)
      BY <2>3, <3>1, ShownIsAStage DEF Entries
    <3> QED BY <3>1, <3>2 DEF Entries
  <2>6. \A i \in DOMAIN entries : pending'[i] \in Entries /\ pending'[i].id \in Burns
    BY <2>2, <2>3, <2>4, <2>5
  <2>7. DOMAIN pending' = 1..Len(entries) /\ Len(entries) \in Nat /\ DOMAIN entries = 1..Len(entries)
    BY <2>2, <2>3
  <2>8. pending' \in Seq(Entries)
    <3>1. pending' = [i \in 1..Len(entries) |-> pending'[i]]
      BY <2>2, <2>7
    <3> QED BY <2>6, <2>7, <3>1
  <2>9. PageInv /\ Burns' = Burns => PageInv'
    BY <2>2, <2>6, <2>7, <2>8 DEF PageInv
  <2> QED BY <2>2, <2>9, OnlyPageMoves
<1> QED BY <1>1, <1>2 DEF PollStep

LEMMA InitHolds ==
    ASSUME Init
    PROVE  WalletInv
<1>1. /\ rows = [i \in DOMAIN Funding |-> Row(Funding[i], 0)] /\ l2 = StateAfter(Funding)
      /\ payment = None /\ inTransit = {} /\ address \in Mine /\ busy = Idle /\ said = Silent
      /\ pending = <<>> /\ flashBalance = 0 /\ refresh = None /\ list = ListOf(address) /\ poll = None
      /\ asked = <<>> /\ moves = 0
  BY DEF Init
<1>2. Len(Funding) \in Nat /\ DOMAIN Funding = 1..Len(Funding) /\ \A i \in 1..Len(Funding) : Funding[i] \in DepositTxs
  <2> DEFINE Deposits == [type : {"deposit"}, depositIndex : Nat, to : Account, token : Token,
                          amount : Nat, l1TxHash : STRING]
  <2>1. Funding \in Seq(Deposits)
    BY WalletConfig
  <2>2. Deposits \subseteq DepositTxs
    BY DEF DepositTxs
  <2> HIDE DEF Deposits
  <2>3. /\ Len(Funding) \in Nat /\ DOMAIN Funding = 1..Len(Funding)
        /\ \A i \in 1..Len(Funding) : Funding[i] \in Deposits
    BY <2>1
  <2> QED BY <2>2, <2>3
<1>3. DOMAIN rows = 1..Len(Funding) /\ \A i \in DOMAIN rows : /\ rows[i] \in RowType /\ rows[i].tap = 0
                                                               /\ rows[i].tx.type = "deposit"
  <2>1. DOMAIN rows = 1..Len(Funding) /\ \A i \in DOMAIN rows : rows[i] = Row(Funding[i], 0)
    BY <1>1, <1>2
  <2>2. ASSUME NEW tx \in DepositTxs
        PROVE  Row(tx, 0) \in RowType /\ Row(tx, 0).tap = 0 /\ Row(tx, 0).tx.type = "deposit"
    <3>1. tx.type = "deposit"
      BY DEF DepositTxs
    <3> QED BY <3>1, NoneIsAStage DEF Row, RowType
  <2> QED BY <1>2, <2>1, <2>2
<1>4. rows \in Seq(RowType)
  <2>1. rows = [i \in 1..Len(Funding) |-> rows[i]]
    BY <1>1, <1>2
  <2> QED BY <1>2, <1>3, <2>1
<1>5. ServerInv
  <2>1. l2 \in States /\ \A a : Get(l2, a, Asset).nonce = 0
    BY <1>1, FundingApplies
  <2>2. \A a \in Account : \A n \in Nat : ~(n < Get(l2, a, Asset).nonce)
    BY <2>1
  <2> QED BY <1>3, <1>4, <2>1, <2>2 DEF ServerInv
<1>6. RequestInv
  <2>1. asked \in Seq(Contents) /\ moves \in 0..MaxMoves
    BY <1>1, WalletConfig
  <2>2. \A i, j \in DOMAIN rows : rows[i].tap = rows[j].tap => i = j \/ rows[i].tap = 0
    BY <1>3
  <2> QED BY <1>1, <1>3, <2>1, <2>2 DEF RequestInv
<1>7. BusyInv
  <2>1. busy \in Runs /\ busy.phase = "idle"
    BY <1>1 DEF Runs, Idle
  <2> QED BY <2>1 DEF BusyInv
<1>8. SaidInv
  <2>1. said.tap \in 0..Len(asked) /\ said.text \notin FlashCodes \cup {"paid", "burned"} /\ "BAD_NONCE" \in FlashCodes
    BY <1>1, SilentIs, TextsAre
  <2> QED BY <1>1, <2>1 DEF SaidInv
<1>9. PageInv
  BY <1>1, ListOfIs DEF PageInv
<1> QED BY <1>1, <1>5, <1>6, <1>7, <1>8, <1>9 DEF WalletInv, PaymentInv

LEMMA NextKeeps ==
    ASSUME WalletInv, [Next]_vars
    PROVE  WalletInv'
<1>1. CASE ServerStep
  <2>1. ASSUME NEW request \in inTransit, NEW snapshotFails \in BOOLEAN, Deliver(request, snapshotFails)
        PROVE  WalletInv'
    BY <2>1, DeliverKeeps
  <2>2. ASSUME NEW form \in OthersForms, OthersSubmit(form) PROVE WalletInv'
    BY <2>2, OthersSubmitKeeps
  <2>3. ASSUME NEW seq \in DOMAIN rows, Advance(seq) PROVE WalletInv'
    BY <2>3, AdvanceKeeps
  <2>4. ASSUME NEW row \in {"refused", "deposited"}, Onramp(row) PROVE WalletInv'
    BY <2>4, OnrampKeeps
  <2>5. CASE CreditPayment
    BY <2>5, CreditPaymentKeeps
  <2> QED BY <1>1, <2>1, <2>2, <2>3, <2>4, <2>5 DEF ServerStep
<1>2. ASSUME NEW account \in Mine \cup {None}, SwitchTo(account) \/ Reload(account) PROVE WalletInv'
  BY <1>2, SwitchToKeeps, ReloadKeeps
<1>3. ASSUME NEW form \in Forms, Tap(form) PROVE WalletInv'
  BY <1>3, TapKeeps
<1>4. CASE RunStep
  <2>1. CASE NonceAnswered
    BY <2>1, NonceAnsweredKeeps
  <2>2. ASSUME NEW key \in Mine, Sign(key) PROVE WalletInv'
    BY <2>2, SignKeeps
  <2>3. CASE Confirmed
    BY <2>3, ConfirmedKeeps
  <2>4. CASE Refused
    BY <2>4, RefusedKeeps
  <2>5. CASE RunThrows
    BY <2>5, RunThrowsKeeps
  <2>6. ASSUME NEW lost \in BOOLEAN, SendPayment(lost) PROVE WalletInv'
    BY <2>6, SendPaymentKeeps
  <2>7. ASSUME NEW text \in {"credited", "landed"}, DepositEnds(text) PROVE WalletInv'
    BY <2>7, DepositEndsKeeps
  <2>8. CASE DepositRefused
    BY <2>8, DepositRefusedKeeps
  <2>9. ASSUME NEW answered \in BOOLEAN, RunEnds(answered) PROVE WalletInv'
    BY <2>9, RunEndsKeeps
  <2> QED BY <1>4, <2>1, <2>2, <2>3, <2>4, <2>5, <2>6, <2>7, <2>8, <2>9 DEF RunStep
<1>5. CASE ListStep
  BY <1>5, ListStepKeeps
<1>6. CASE RefreshStep
  BY <1>6, RefreshStepKeeps
<1>7. CASE PollStep
  BY <1>7, PollStepKeeps
<1>8. CASE UNCHANGED vars
  <2>1. UNCHANGED <<rows, l2, payment, inTransit, busy, said, asked, moves, address, pending, flashBalance, refresh, list, poll>>
    BY <1>8 DEF vars, server, page
  <2> QED BY <2>1, PageUnmoved, OnlyPageMoves
<1> QED BY <1>1, <1>2, <1>3, <1>4, <1>5, <1>6, <1>7, <1>8 DEF Next

\* The invariant of all that follows: what is in the log, on its way, in the
\* hands of run, and on the page.
THEOREM SpecWalletInv == Spec => []WalletInv
<1>1. Init => WalletInv
  BY InitHolds
<1>2. WalletInv /\ [Next]_vars => WalletInv'
  BY NextKeeps
<1> QED BY <1>1, <1>2, PTL DEF Spec

-----------------------------------------------------------------------------
(* What it implies *)

LEMMA InvIsTyped ==
    ASSUME WalletInv
    PROVE  TypeOK
<1>1. /\ ServerInv /\ PaymentInv /\ RequestInv /\ BusyInv /\ SaidInv /\ PageInv
      /\ Len(asked) \in Nat /\ DOMAIN asked = 1..Len(asked)
  BY LenOfAsked DEF WalletInv
<1>2. ASSUME NEW i \in DOMAIN rows
      PROVE  rows[i].stage \in Range(Stages) /\ rows[i].tap \in 0..Len(asked)
  <2>1. rows[i].stage \in Range(Stages) /\ rows[i].tap \in Nat
    BY <1>1, RowsAre DEF RowType
  <2>2. rows[i].tap # 0 => rows[i].tap \in 1..Len(asked)
    BY <1>1 DEF RequestInv
  <2> QED BY <1>1, <2>1, <2>2
<1>3. payment = None \/ payment.account \in Mine
  BY <1>1 DEF PaymentInv, Payments
<1>4. \A r \in inTransit : r.tap \in DOMAIN asked
  BY <1>1 DEF RequestInv
<1>5. busy = Idle \/ busy.phase \in {"nonce", "sign", "posted", "answered", "pay", "credit", "refresh"}
  BY <1>1, RunIs DEF BusyInv
<1>6. \A id \in ShownIds(pending) : id \in DOMAIN rows /\ rows[id].tx.type = "withdraw"
  BY <1>1 DEF PageInv, ShownIds, Burns
<1>7. /\ address \in Mine \cup {None} /\ flashBalance \in Nat /\ said.tap \in 0..Len(asked)
      /\ list # None => list.account = address
      /\ moves \in 0..MaxMoves
  BY <1>1 DEF PageInv, SaidInv, RequestInv
<1>8. asked \in Seq([from : Mine, type : {"transfer", "withdraw", "deposit"}, to : Account, amount : Nat])
  BY <1>1 DEF RequestInv, Contents
<1> QED BY <1>2, <1>3, <1>4, <1>5, <1>6, <1>7, <1>8 DEF TypeOK

LEMMA InvNoticeIsTrue ==
    ASSUME WalletInv
    PROVE  NoticeIsTrue
<1>1. SaidInv
  BY DEF WalletInv
<1>2. said.text \in {"paid", "burned"} => ExecutedFor(said.tap) # {}
  BY <1>1 DEF SaidInv, TapsExecuted, ExecutedFor
<1>3. said.text \in FlashCodes => ExecutedFor(said.tap) = {} /\ \A r \in inTransit : r.tap # said.tap
  BY <1>1 DEF SaidInv, TapsExecuted, TapsPosted, ExecutedFor
<1>4. ASSUME said.text = "BAD_NONCE"
      PROVE  \E i \in DOMAIN rows : /\ rows[i].tx.type # "deposit"
                                    /\ rows[i].tx.from = asked[said.tap].from
                                    /\ rows[i].tx.nonce = said.nonce
  BY <1>1, <1>4 DEF SaidInv, Landed
<1> QED BY <1>2, <1>3, <1>4 DEF NoticeIsTrue

LEMMA InvNobodyTrapped ==
    ASSUME WalletInv
    PROVE  NobodyTrapped
<1> SUFFICES ASSUME NEW account \in Account, BalanceOf(account) > 0
             PROVE  LET leave == [type |-> "withdraw", to |-> account, amount |-> BalanceOf(account)]
                        tx == Signed(Unsigned(account, leave, GetNonce(l2, account, Asset)), account, "raw")
                    IN  PostTransaction(l2, Txs, TxToJson(tx), FALSE).status = 201
  BY DEF NobodyTrapped
<1>1. PICK leave : leave = [type |-> "withdraw", to |-> account, amount |-> BalanceOf(account)]
  OBVIOUS
<1>2. PICK nonce : nonce = GetNonce(l2, account, Asset)
  OBVIOUS
<1>3. ServerInv /\ l2 \in States
  BY DEF WalletInv, ServerInv
<1>4. nonce \in Nat /\ nonce = Get(l2, account, Asset).nonce
  BY <1>2, <1>3, GetType DEF GetNonce
<1>5. BalanceOf(account) \in Nat /\ BalanceOf(account) = Get(l2, account, Asset).balance
  BY <1>3, BalanceIsNat DEF BalanceOf, AccountView
<1>6. PICK body : body = Unsigned(account, leave, nonce)
  OBVIOUS
<1>7. /\ body \in Bodies /\ body.type = "withdraw" /\ body.from = account
      /\ body.amount = BalanceOf(account) /\ body.nonce = nonce
  <2>1. leave.type \in {"transfer", "withdraw"} /\ leave.to \in Account /\ leave.amount \in Nat
    BY <1>1, <1>5
  <2>2. body \in Bodies
    BY <1>4, <1>6, <2>1, UnsignedIs
  <2> QED BY <1>1, <1>6, <2>2 DEF Unsigned
<1>8. PICK tx : tx = Signed(body, account, "raw")
  OBVIOUS
<1>9. /\ tx \in UserTxs /\ tx.from = account /\ tx.nonce = nonce /\ tx.type = "withdraw"
      /\ tx.amount = BalanceOf(account) /\ tx.token = Asset
      /\ tx.signature = Signature(account, "raw", body)
  BY <1>7, <1>8, SignedIs
<1>10. VerifyTxSignature(tx)
  <2>1. TxBody(tx) = TxBody(body)
    BY <1>7, <1>8 DEF Signed, TxBody, Bodies
  <2>2. Signature(account, "raw", body) = Signature(tx.from, "raw", tx)
    BY <1>9, <2>1 DEF Signature, SigningMessage
  <2> QED BY <1>9, <2>2 DEF VerifyTxSignature
<1>11. Accepts(l2, tx)
  BY <1>4, <1>5, <1>9, <1>10 DEF Accepts, NonceMatches, BalanceCovers
<1>12. ~Duplicate(Txs, tx)
  <2> SUFFICES ASSUME Duplicate(Txs, tx) PROVE FALSE
    OBVIOUS
  <2>1. PICK i \in DOMAIN rows : TxId(rows[i].tx) = TxId(tx)
    BY DEF Duplicate, Txs
  <2>2. rows[i].tx \in UserTxs \cup DepositTxs
    BY <1>3, RowsAre DEF RowType
  <2>3. rows[i].tx.type # "deposit" /\ rows[i].tx.from = account /\ rows[i].tx.nonce = nonce
    BY <1>9, <2>1, <2>2, SameId
  <2>4. nonce < Get(l2, account, Asset).nonce
    BY <1>3, <2>3 DEF ServerInv
  <2> QED BY <1>4, <2>4
<1>13. CanSpend(tx)
  BY <1>9 DEF CanSpend
<1>14. PostTransaction(l2, Txs, TxToJson(tx), FALSE).status = 201
  <2>1. tx \in UserTxs
    BY <1>9
  <2>2. PostTransaction(l2, Txs, TxToJson(tx), FALSE) = Receipt
    BY <1>11, <1>12, <1>13, <2>1, AcceptedIsAnswered, Zenon
  <2>3. Receipt.status = 201
    BY DEF Answer, Receipt
  <2> QED BY <2>2, <2>3
<1> QED BY <1>1, <1>2, <1>6, <1>8, <1>14

\* The types of the page and the server; what the page lists are withdrawals, and
\* what is under way was tapped (Wallet!TypeOK).
THEOREM SpecTypeOK == Spec => []TypeOK
BY SpecWalletInv, InvIsTyped, PTL

\* "Paid" and "burned" were executed, what a code refused was not and never will
\* be, and after BAD_NONCE another payment did land (Wallet!NoticeIsTrue), whatever
\* answer was lost or request late.
THEOREM SpecNoticeIsTrue == Spec => []NoticeIsTrue
BY SpecWalletInv, InvNoticeIsTrue, PTL

\* A withdrawal of everything an account holds, with the nonce the server gives, is
\* executed, on the allowlist or not (Wallet!NobodyTrapped).
THEOREM SpecNobodyTrapped == Spec => []NobodyTrapped
BY SpecWalletInv, InvNobodyTrapped, PTL

-----------------------------------------------------------------------------
(* The published data *)

\* A recursion that appends, each time, a word and a frame.
Frames(d, first, n, W, E) ==
    d[0] = <<first>> /\ \A i \in 1..n : d[i] = Append(d[i - 1], W[i]) \o E[i]

\* Where the words and the frames are in the end.
Framed(d, first, n, W, E) ==
    /\ Len(d[0]) = 1 /\ d[n][1] = first
    /\ \A i \in 0..n : Len(d[i]) \in Nat \ {0} /\ Len(d[i]) <= Len(d[n])
    /\ \A i \in 1..n :
          /\ Len(d[i]) = Len(d[i - 1]) + 1 + Len(E[i])
          /\ d[n][Len(d[i - 1]) + 1] = W[i]
          /\ \A k \in 1..Len(E[i]) : d[n][Len(d[i - 1]) + 1 + k] = E[i][k]

LEMMA FramesExist ==
    ASSUME NEW V, NEW n \in Nat, NEW first \in V, NEW W \in [1..n -> V], NEW E \in [1..n -> Seq(V)]
    PROVE  \E d \in [0..n -> Seq(V)] : Frames(d, first, n, W, E)
<1> DEFINE S == Seq(V)
           step == [x \in S \X (1..n) |-> Append(x[1], W[x[2]]) \o E[x[2]]]
<1>1. ASSUME NEW s \in Seq(V), NEW i \in 1..n PROVE Append(s, W[i]) \o E[i] \in Seq(V)
  <2>1. W[i] \in V /\ E[i] \in Seq(V)
    OBVIOUS
  <2>2. Append(s, W[i]) \in Seq(V)
    BY <2>1
  <2> QED BY <2>1, <2>2
<1>2. step \in [S \X (1..n) -> S]
  <2>1. ASSUME NEW x \in S \X (1..n) PROVE Append(x[1], W[x[2]]) \o E[x[2]] \in S
    <3>1. x[1] \in Seq(V) /\ x[2] \in 1..n
      OBVIOUS
    <3> QED BY <1>1, <3>1
  <2> QED BY <2>1
<1>3. <<first>> \in S
  OBVIOUS
<1>4. \E f \in [0..n -> S] : Recursion(f, <<first>>, n, step)
  <2> HIDE DEF step, S
  <2> QED BY <1>2, <1>3, RecursionExists
<1>5. PICK f \in [0..n -> S] : f[0] = <<first>> /\ \A i \in 1..n : f[i] = step[<<f[i - 1], i>>]
  BY <1>4 DEF Recursion
<1>6. ASSUME NEW i \in 1..n PROVE f[i] = Append(f[i - 1], W[i]) \o E[i]
  <2>1. i - 1 \in 0..n
    OBVIOUS
  <2>2. <<f[i - 1], i>> \in S \X (1..n)
    BY <1>5, <2>1
  <2> QED BY <1>5, <2>2
<1> QED BY <1>5, <1>6 DEF Frames

LEMMA FramesAre ==
    ASSUME NEW V, NEW n \in Nat, NEW first \in V, NEW W \in [1..n -> V], NEW E \in [1..n -> Seq(V)],
           NEW d \in [0..n -> Seq(V)], Frames(d, first, n, W, E)
    PROVE  Framed(d, first, n, W, E)
<1>0. d[0] = <<first>> /\ \A i \in 1..n : d[i] = Append(d[i - 1], W[i]) \o E[i]
  BY DEF Frames
<1>1. \A i \in 0..n : d[i] \in Seq(V) /\ Len(d[i]) \in Nat
  OBVIOUS
<1>2. ASSUME NEW i \in 1..n
      PROVE  /\ Len(d[i]) = Len(d[i - 1]) + 1 + Len(E[i]) /\ Len(E[i]) \in Nat
             /\ \A k \in 1..Len(d[i - 1]) : d[i][k] = d[i - 1][k]
             /\ d[i][Len(d[i - 1]) + 1] = W[i]
             /\ \A k \in 1..Len(E[i]) : d[i][Len(d[i - 1]) + 1 + k] = E[i][k]
  <2>1. PICK s : s = d[i - 1]
    OBVIOUS
  <2>2. i - 1 \in 0..n
    OBVIOUS
  <2>3. s \in Seq(V) /\ W[i] \in V /\ E[i] \in Seq(V)
    BY <2>1, <2>2
  <2>4. PICK w : w = W[i]
    OBVIOUS
  <2>5. PICK e : e = E[i]
    OBVIOUS
  <2>6. s \in Seq(V) /\ w \in V /\ e \in Seq(V)
    BY <2>3, <2>4, <2>5
  <2>7. PICK a : a = Append(s, w)
    OBVIOUS
  <2>8. /\ a \in Seq(V) /\ Len(a) = Len(s) + 1
        /\ \A k \in 1..Len(s) : a[k] = s[k]
        /\ a[Len(s) + 1] = w
    <3>1. s \in Seq(V) /\ w \in V
      BY <2>6
    <3>2. /\ Append(s, w) \in Seq(V) /\ Len(Append(s, w)) = Len(s) + 1
          /\ \A k \in 1..Len(s) : Append(s, w)[k] = s[k]
          /\ Append(s, w)[Len(s) + 1] = w
      BY <3>1, AppendIs
    <3> QED BY <2>7, <3>2
  <2>9. d[i] = a \o e
    BY <1>0, <2>1, <2>4, <2>5, <2>7
  <2>10. /\ Len(a \o e) = Len(a) + Len(e)
         /\ \A k \in 1..Len(a) : (a \o e)[k] = a[k]
         /\ \A k \in 1..Len(e) : (a \o e)[Len(a) + k] = e[k]
    <3>1. a \in Seq(V) /\ e \in Seq(V)
      BY <2>6, <2>8
    <3>2. Len(a \o e) = Len(a) + Len(e)
      BY <3>1
    <3>3. \A k \in 1..Len(a) : (a \o e)[k] = a[k]
      BY <3>1
    <3>4. \A k \in 1..Len(e) : (a \o e)[Len(a) + k] = e[k]
      BY <3>1
    <3> QED BY <3>2, <3>3, <3>4
  <2>11. Len(s) \in Nat /\ Len(e) \in Nat
    BY <2>6
  <2>12. Len(d[i]) = Len(s) + 1 + Len(e)
    BY <2>8, <2>9, <2>10
  <2>13. \A k \in 1..Len(s) : d[i][k] = s[k]
    <3>1. \A k \in 1..Len(s) : k \in 1..(Len(s) + 1)
      BY <2>11
    <3> QED BY <2>8, <2>9, <2>10, <3>1
  <2>14. d[i][Len(s) + 1] = w
    <3>1. Len(s) + 1 \in 1..(Len(s) + 1)
      BY <2>11
    <3> QED BY <2>8, <2>9, <2>10, <3>1
  <2>15. \A k \in 1..Len(e) : d[i][Len(s) + 1 + k] = e[k]
    BY <2>8, <2>9, <2>10
  <2> QED BY <2>1, <2>4, <2>5, <2>11, <2>12, <2>13, <2>14, <2>15
<1> DEFINE Prefix(i, m) == Len(d[i]) <= Len(d[m]) /\ \A k \in 1..Len(d[i]) : d[m][k] = d[i][k]
           T == {m \in 0..n : \A i \in 0..m : Prefix(i, m)}
<1>3. 0 \in T
  <2>1. Len(d[0]) <= Len(d[0]) /\ \A i \in 0..0 : i = 0
    BY <1>1
  <2> QED BY <2>1
<1>4. ASSUME NEW m \in 0..(n - 1), m \in T PROVE m + 1 \in T
  <2>1. m + 1 \in 1..n /\ m + 1 \in 0..n /\ m \in 0..n /\ (m + 1) - 1 = m
    OBVIOUS
  <2>2. Len(d[m + 1]) = Len(d[m]) + 1 + Len(E[m + 1]) /\ Len(E[m + 1]) \in Nat
        /\ \A k \in 1..Len(d[m]) : d[m + 1][k] = d[m][k]
    BY <1>2, <2>1
  <2>3. Len(d[m]) \in Nat /\ Len(d[m + 1]) \in Nat
    BY <1>1, <2>1
  <2>4. ASSUME NEW i \in 0..(m + 1) PROVE Prefix(i, m + 1)
    <3>1. CASE i = m + 1
      BY <2>3, <3>1
    <3>2. CASE i # m + 1
      <4>1. i \in 0..m /\ i \in 0..n
        BY <3>2
      <4>2. Prefix(i, m) /\ Len(d[i]) \in Nat
        BY <1>1, <1>4, <4>1
      <4>3. Len(d[i]) <= Len(d[m + 1])
        <5>1. \A a, b, c, e \in Nat : a <= b /\ c = b + 1 + e => a <= c
          OBVIOUS
        <5> QED BY <2>2, <2>3, <4>2, <5>1, Zenon
      <4>4. ASSUME NEW k \in 1..Len(d[i]) PROVE d[m + 1][k] = d[i][k]
        <5>1. k \in 1..Len(d[m])
          BY <2>3, <4>2
        <5> QED BY <2>2, <4>2, <5>1
      <4> QED BY <4>3, <4>4
    <3> QED BY <3>1, <3>2
  <2> QED BY <2>1, <2>4
<1> HIDE DEF T
<1>5. \A m \in 0..n : m \in T
  BY <1>3, <1>4, UpTo
<1>6. \A i \in 0..n : Prefix(i, n)
  BY <1>5 DEF T
<1>7. Len(d[0]) = 1 /\ d[0][1] = first
  BY <1>0
<1>8. d[n][1] = first
  <2>1. 0 \in 0..n /\ 1 \in 1..Len(d[0])
    BY <1>7
  <2> QED BY <1>6, <1>7, <2>1
<1>9. \A i \in 0..n : Len(d[i]) \in Nat \ {0}
  <2>1. ASSUME NEW i \in 0..n PROVE Len(d[i]) \in Nat \ {0}
    <3>1. CASE i = 0
      <4>1. 1 \in Nat \ {0}
        OBVIOUS
      <4> QED BY <1>7, <3>1, <4>1, Zenon
    <3>2. CASE i # 0
      <4>1. i \in 1..n /\ i - 1 \in 0..n
        BY <3>2
      <4> QED BY <1>1, <1>2, <4>1
    <3> QED BY <3>1, <3>2
  <2> QED BY <2>1
<1>10. ASSUME NEW i \in 1..n
       PROVE  /\ d[n][Len(d[i - 1]) + 1] = W[i]
              /\ \A k \in 1..Len(E[i]) : d[n][Len(d[i - 1]) + 1 + k] = E[i][k]
  <2>1. i \in 0..n /\ i - 1 \in 0..n
    OBVIOUS
  <2>2. Prefix(i, n) /\ Len(d[i - 1]) \in Nat
    BY <1>1, <1>6, <2>1
  <2>3. Len(d[i]) = Len(d[i - 1]) + 1 + Len(E[i]) /\ Len(E[i]) \in Nat
    BY <1>2
  <2>4. Len(d[i - 1]) + 1 \in 1..Len(d[i])
    BY <2>2, <2>3
  <2>5. \A k \in 1..Len(E[i]) : Len(d[i - 1]) + 1 + k \in 1..Len(d[i])
    BY <2>2, <2>3
  <2> QED BY <1>2, <2>2, <2>4, <2>5
<1> HIDE DEF Prefix
<1>11. \A i \in 0..n : Len(d[i]) <= Len(d[n])
  BY <1>6 DEF Prefix
<1> QED BY <1>2, <1>7, <1>8, <1>9, <1>10, <1>11 DEF Framed

\* What one round of decodeBatchData makes of what was read before.
ReadFrame(bytes, before) ==
    LET at  == before.next
        one == DecodeTx(bytes, at + 1)
    IN  IF /\ before.ok
           /\ Reads(bytes, at, <<"u16">>)
           /\ one.ok
           /\ ByteLength(SubSeq(bytes, at + 1, one.next - 1)) = bytes[at].value
        THEN [ok |-> TRUE, txs |-> Append(before.txs, one.tx), next |-> one.next]
        ELSE [before EXCEPT !.ok = FALSE]

\* Fields of the kinds that are expected are read.
LEMMA ReadsOne ==
    ASSUME NEW bytes, Len(bytes) \in Nat, NEW at \in Nat, at <= Len(bytes), NEW kind, bytes[at].kind = kind
    PROVE  Reads(bytes, at, <<kind>>)
<1>1. PICK kinds : kinds = <<kind>>
  OBVIOUS
<1>2. Len(kinds) = 1 /\ DOMAIN kinds = 1..1 /\ kinds[1] = kind
  BY <1>1
<1>3. ASSUME NEW i \in 1..1 PROVE bytes[at + i - 1].kind = kinds[i]
  <2>1. i = 1 /\ at + i - 1 = at
    OBVIOUS
  <2> QED BY <1>2, <2>1, Zenon
<1>4. at + 1 - 1 <= Len(bytes)
  OBVIOUS
<1> QED BY <1>1, <1>2, <1>3, <1>4 DEF Reads

LEMMA ReadsFive ==
    ASSUME NEW bytes, Len(bytes) \in Nat, NEW at \in Nat, at + 5 <= Len(bytes),
           NEW k1, NEW k2, NEW k3, NEW k4, NEW k5,
           bytes[at + 1].kind = k1, bytes[at + 2].kind = k2, bytes[at + 3].kind = k3, bytes[at + 4].kind = k4, bytes[at + 5].kind = k5
    PROVE  Reads(bytes, at + 1, <<k1, k2, k3, k4, k5>>)
<1>1. PICK kinds : kinds = <<k1, k2, k3, k4, k5>>
  OBVIOUS
<1>2. /\ Len(kinds) = 5 /\ DOMAIN kinds = 1..5
      /\ kinds[1] = k1 /\ kinds[2] = k2 /\ kinds[3] = k3 /\ kinds[4] = k4 /\ kinds[5] = k5
  BY <1>1
<1>3. ASSUME NEW i \in 1..5 PROVE bytes[at + 1 + i - 1].kind = kinds[i]
  <2>1. CASE i = 1
    <3>1. at + 1 + i - 1 = at + 1
      BY <2>1
    <3> QED BY <1>2, <2>1, <3>1, Zenon
  <2>2. CASE i = 2
    <3>1. at + 1 + i - 1 = at + 2
      BY <2>2
    <3> QED BY <1>2, <2>2, <3>1, Zenon
  <2>3. CASE i = 3
    <3>1. at + 1 + i - 1 = at + 3
      BY <2>3
    <3> QED BY <1>2, <2>3, <3>1, Zenon
  <2>4. CASE i = 4
    <3>1. at + 1 + i - 1 = at + 4
      BY <2>4
    <3> QED BY <1>2, <2>4, <3>1, Zenon
  <2>5. CASE i = 5
    <3>1. at + 1 + i - 1 = at + 5
      BY <2>5
    <3> QED BY <1>2, <2>5, <3>1, Zenon
  <2>6. i = 1 \/ i = 2 \/ i = 3 \/ i = 4 \/ i = 5
    OBVIOUS
  <2> QED BY <2>1, <2>2, <2>3, <2>4, <2>5, <2>6
<1>4. at + 1 + 5 - 1 <= Len(bytes)
  OBVIOUS
<1> QED BY <1>1, <1>2, <1>3, <1>4 DEF Reads

LEMMA ReadsSix ==
    ASSUME NEW bytes, Len(bytes) \in Nat, NEW at \in Nat, at + 6 <= Len(bytes),
           NEW k1, NEW k2, NEW k3, NEW k4, NEW k5, NEW k6,
           bytes[at + 1].kind = k1, bytes[at + 2].kind = k2, bytes[at + 3].kind = k3, bytes[at + 4].kind = k4, bytes[at + 5].kind = k5, bytes[at + 6].kind = k6
    PROVE  Reads(bytes, at + 1, <<k1, k2, k3, k4, k5, k6>>)
<1>1. PICK kinds : kinds = <<k1, k2, k3, k4, k5, k6>>
  OBVIOUS
<1>2. /\ Len(kinds) = 6 /\ DOMAIN kinds = 1..6
      /\ kinds[1] = k1 /\ kinds[2] = k2 /\ kinds[3] = k3 /\ kinds[4] = k4 /\ kinds[5] = k5 /\ kinds[6] = k6
  BY <1>1
<1>3. ASSUME NEW i \in 1..6 PROVE bytes[at + 1 + i - 1].kind = kinds[i]
  <2>1. CASE i = 1
    <3>1. at + 1 + i - 1 = at + 1
      BY <2>1
    <3> QED BY <1>2, <2>1, <3>1, Zenon
  <2>2. CASE i = 2
    <3>1. at + 1 + i - 1 = at + 2
      BY <2>2
    <3> QED BY <1>2, <2>2, <3>1, Zenon
  <2>3. CASE i = 3
    <3>1. at + 1 + i - 1 = at + 3
      BY <2>3
    <3> QED BY <1>2, <2>3, <3>1, Zenon
  <2>4. CASE i = 4
    <3>1. at + 1 + i - 1 = at + 4
      BY <2>4
    <3> QED BY <1>2, <2>4, <3>1, Zenon
  <2>5. CASE i = 5
    <3>1. at + 1 + i - 1 = at + 5
      BY <2>5
    <3> QED BY <1>2, <2>5, <3>1, Zenon
  <2>6. CASE i = 6
    <3>1. at + 1 + i - 1 = at + 6
      BY <2>6
    <3> QED BY <1>2, <2>6, <3>1, Zenon
  <2>7. i = 1 \/ i = 2 \/ i = 3 \/ i = 4 \/ i = 5 \/ i = 6
    OBVIOUS
  <2> QED BY <2>1, <2>2, <2>3, <2>4, <2>5, <2>6, <2>7
<1>4. at + 1 + 6 - 1 <= Len(bytes)
  OBVIOUS
<1> QED BY <1>1, <1>2, <1>3, <1>4 DEF Reads

\* A deposit is read from where it was written, ...
LEMMA DepositIsRead ==
    ASSUME NEW bytes, Len(bytes) \in Nat, NEW at \in Nat, at + 5 <= Len(bytes), NEW tx \in DepositTxs,
           bytes[at] = Field("tag", Tag.deposit),
           bytes[at + 1] = Field("u64", tx.depositIndex),
           bytes[at + 2] = Field("address", tx.to),
           bytes[at + 3] = Field("address", tx.token),
           bytes[at + 4] = Field("i128", tx.amount),
           bytes[at + 5] = Field("hash", tx.l1TxHash)
    PROVE  /\ DecodeTx(bytes, at).ok /\ DecodeTx(bytes, at).tx = tx
           /\ DecodeTx(bytes, at).next = at + 6
<1>1. \A b, kind, value : b = Field(kind, value) => b.kind = kind /\ b.value = value
  BY DEF Field
<1>2. /\ bytes[at].kind = "tag" /\ bytes[at].value = Tag.deposit
      /\ bytes[at + 1].kind = "u64" /\ bytes[at + 1].value = tx.depositIndex
      /\ bytes[at + 2].kind = "address" /\ bytes[at + 2].value = tx.to
      /\ bytes[at + 3].kind = "address" /\ bytes[at + 3].value = tx.token
      /\ bytes[at + 4].kind = "i128" /\ bytes[at + 4].value = tx.amount
      /\ bytes[at + 5].kind = "hash" /\ bytes[at + 5].value = tx.l1TxHash
  <2>1. bytes[at].kind = "tag" /\ bytes[at].value = Tag.deposit
    <3>1. PICK b : b = bytes[at]
      OBVIOUS
    <3> QED BY <1>1, <3>1
  <2>2. bytes[at + 1].kind = "u64" /\ bytes[at + 1].value = tx.depositIndex
    <3>1. PICK b : b = bytes[at + 1]
      OBVIOUS
    <3> QED BY <1>1, <3>1
  <2>3. bytes[at + 2].kind = "address" /\ bytes[at + 2].value = tx.to
    <3>1. PICK b : b = bytes[at + 2]
      OBVIOUS
    <3> QED BY <1>1, <3>1
  <2>4. bytes[at + 3].kind = "address" /\ bytes[at + 3].value = tx.token
    <3>1. PICK b : b = bytes[at + 3]
      OBVIOUS
    <3> QED BY <1>1, <3>1
  <2>5. bytes[at + 4].kind = "i128" /\ bytes[at + 4].value = tx.amount
    <3>1. PICK b : b = bytes[at + 4]
      OBVIOUS
    <3> QED BY <1>1, <3>1
  <2>6. bytes[at + 5].kind = "hash" /\ bytes[at + 5].value = tx.l1TxHash
    <3>1. PICK b : b = bytes[at + 5]
      OBVIOUS
    <3> QED BY <1>1, <3>1
  <2> QED BY <2>1, <2>2, <2>3, <2>4, <2>5, <2>6
<1>4. Reads(bytes, at, <<"tag">>)
  BY <1>2, ReadsOne
<1>5. Reads(bytes, at + 1, <<"u64", "address", "address", "i128", "hash">>)
  BY <1>2, ReadsFive, Zenon
<1>6. bytes[at].value = Tag.deposit
  BY <1>2
<1>7. DepositTx(bytes, at) = tx
  <2>1. tx = [type |-> "deposit", depositIndex |-> tx.depositIndex, to |-> tx.to, token |-> tx.token,
              amount |-> tx.amount, l1TxHash |-> tx.l1TxHash]
    BY DEF DepositTxs
  <2> QED BY <1>2, <2>1, Zenon DEF DepositTx
<1>8. DecodeTx(bytes, at) = [ok |-> TRUE, tx |-> DepositTx(bytes, at), next |-> at + 6]
  BY <1>4, <1>5, <1>6 DEF DecodeTx
<1> QED BY <1>7, <1>8

\* ... and a transaction of a user.
LEMMA UserTxIsRead ==
    ASSUME NEW bytes, Len(bytes) \in Nat, NEW at \in Nat, at + 6 <= Len(bytes), NEW tx \in UserTxs,
           bytes[at] = Field("tag", Tag[tx.type]),
           bytes[at + 1] = Field("address", tx.from),
           bytes[at + 2] = Field("address", tx.to),
           bytes[at + 3] = Field("address", tx.token),
           bytes[at + 4] = Field("i128", tx.amount),
           bytes[at + 5] = Field("u64", tx.nonce),
           bytes[at + 6] = Field("signature", tx.signature)
    PROVE  /\ DecodeTx(bytes, at).ok /\ DecodeTx(bytes, at).tx = tx
           /\ DecodeTx(bytes, at).next = at + 7
<1>1. \A b, kind, value : b = Field(kind, value) => b.kind = kind /\ b.value = value
  BY DEF Field
<1>2. /\ bytes[at].kind = "tag" /\ bytes[at].value = Tag[tx.type]
      /\ bytes[at + 1].kind = "address" /\ bytes[at + 1].value = tx.from
      /\ bytes[at + 2].kind = "address" /\ bytes[at + 2].value = tx.to
      /\ bytes[at + 3].kind = "address" /\ bytes[at + 3].value = tx.token
      /\ bytes[at + 4].kind = "i128" /\ bytes[at + 4].value = tx.amount
      /\ bytes[at + 5].kind = "u64" /\ bytes[at + 5].value = tx.nonce
      /\ bytes[at + 6].kind = "signature" /\ bytes[at + 6].value = tx.signature
  <2>1. bytes[at].kind = "tag" /\ bytes[at].value = Tag[tx.type]
    <3>1. PICK b : b = bytes[at]
      OBVIOUS
    <3>2. PICK tag : tag = Tag[tx.type]
      OBVIOUS
    <3>3. b = Field("tag", tag)
      BY <3>1, <3>2, Zenon
    <3>4. b.kind = "tag" /\ b.value = tag
      BY <3>3 DEF Field
    <3> QED BY <3>1, <3>2, <3>4, Zenon
  <2>2. bytes[at + 1].kind = "address" /\ bytes[at + 1].value = tx.from
    <3>1. PICK b : b = bytes[at + 1]
      OBVIOUS
    <3> QED BY <1>1, <3>1
  <2>3. bytes[at + 2].kind = "address" /\ bytes[at + 2].value = tx.to
    <3>1. PICK b : b = bytes[at + 2]
      OBVIOUS
    <3> QED BY <1>1, <3>1
  <2>4. bytes[at + 3].kind = "address" /\ bytes[at + 3].value = tx.token
    <3>1. PICK b : b = bytes[at + 3]
      OBVIOUS
    <3> QED BY <1>1, <3>1
  <2>5. bytes[at + 4].kind = "i128" /\ bytes[at + 4].value = tx.amount
    <3>1. PICK b : b = bytes[at + 4]
      OBVIOUS
    <3> QED BY <1>1, <3>1
  <2>6. bytes[at + 5].kind = "u64" /\ bytes[at + 5].value = tx.nonce
    <3>1. PICK b : b = bytes[at + 5]
      OBVIOUS
    <3> QED BY <1>1, <3>1
  <2>7. bytes[at + 6].kind = "signature" /\ bytes[at + 6].value = tx.signature
    <3>1. PICK b : b = bytes[at + 6]
      OBVIOUS
    <3> QED BY <1>1, <3>1
  <2> QED BY <2>1, <2>2, <2>3, <2>4, <2>5, <2>6, <2>7
<1>4. Reads(bytes, at, <<"tag">>)
  BY <1>2, ReadsOne
<1>5. Reads(bytes, at + 1, <<"address", "address", "address", "i128", "u64", "signature">>)
  BY <1>2, ReadsSix, Zenon
<1>6. PICK tag : tag = bytes[at].value
  OBVIOUS
<1>7. /\ tag \in {Tag.transfer, Tag.withdraw, Tag.deposit} /\ tag # Tag.deposit
      /\ (IF tag = Tag.transfer THEN "transfer" ELSE "withdraw") = tx.type
  <2>1. tx.type \in {"transfer", "withdraw"}
    BY DEF UserTxs
  <2>2. tag = Tag[tx.type]
    BY <1>2, <1>6
  <2> QED BY <2>1, <2>2, TagsDiffer
<1>8. UserTx(bytes, at, tx.type) = tx
  <2>1. tx = [type |-> tx.type, from |-> tx.from, to |-> tx.to, token |-> tx.token,
              amount |-> tx.amount, nonce |-> tx.nonce, signature |-> tx.signature]
    BY DEF UserTxs
  <2> QED BY <1>2, <2>1, Zenon DEF UserTx
<1>9. DecodeTx(bytes, at) = [ok |-> TRUE, next |-> at + 7, tx |-> UserTx(bytes, at, tx.type)]
  BY <1>4, <1>5, <1>6, <1>7 DEF DecodeTx
<1> QED BY <1>8, <1>9

\* The fields e are there from `at` on.
WrittenAt(bytes, at, e) ==
    /\ at + Len(e) - 1 <= Len(bytes)
    /\ \A k \in 1..Len(e) : bytes[at + k - 1] = e[k]

LEMMA DecodeTxIs ==
    ASSUME NEW bytes, Len(bytes) \in Nat, NEW at \in Nat, NEW tx \in UserTxs \cup DepositTxs,
           WrittenAt(bytes, at, EncodeTx(tx))
    PROVE  /\ DecodeTx(bytes, at).ok /\ DecodeTx(bytes, at).tx = tx
           /\ DecodeTx(bytes, at).next = at + Len(EncodeTx(tx))
<1>1. PICK E : E = EncodeTx(tx)
  OBVIOUS
<1>2. at + Len(E) - 1 <= Len(bytes) /\ \A k \in 1..Len(E) : bytes[at + k - 1] = E[k]
  BY <1>1 DEF WrittenAt
<1>3. CASE tx.type = "deposit"
  <2>0. tx \in DepositTxs
    BY <1>3 DEF DepositTxs, UserTxs
  <2>1. /\ Len(E) = 6
        /\ E[1] = Field("tag", Tag.deposit)
        /\ E[2] = Field("u64", tx.depositIndex)
        /\ E[3] = Field("address", tx.to)
        /\ E[4] = Field("address", tx.token)
        /\ E[5] = Field("i128", tx.amount)
        /\ E[6] = Field("hash", tx.l1TxHash)
    BY <1>1, <1>3, DepositBytes
  <2>2. \A k \in 1..6 : bytes[at + k - 1] = E[k]
    BY <1>2, <2>1
  <2>3. /\ bytes[at] = E[1]
        /\ bytes[at + 1] = E[2]
        /\ bytes[at + 2] = E[3]
        /\ bytes[at + 3] = E[4]
        /\ bytes[at + 4] = E[5]
        /\ bytes[at + 5] = E[6]
    <3>1. 1 \in 1..6 /\ 2 \in 1..6 /\ 3 \in 1..6 /\ 4 \in 1..6 /\ 5 \in 1..6 /\ 6 \in 1..6
      OBVIOUS
    <3>2. /\ at + 1 - 1 = at
          /\ at + 2 - 1 = at + 1
          /\ at + 3 - 1 = at + 2
          /\ at + 4 - 1 = at + 3
          /\ at + 5 - 1 = at + 4
          /\ at + 6 - 1 = at + 5
      OBVIOUS
    <3> QED BY <2>2, <3>1, <3>2, Zenon
  <2>4. at + 5 <= Len(bytes)
    BY <1>2, <2>1
  <2>5. /\ bytes[at] = Field("tag", Tag.deposit)
        /\ bytes[at + 1] = Field("u64", tx.depositIndex)
        /\ bytes[at + 2] = Field("address", tx.to)
        /\ bytes[at + 3] = Field("address", tx.token)
        /\ bytes[at + 4] = Field("i128", tx.amount)
        /\ bytes[at + 5] = Field("hash", tx.l1TxHash)
    BY <2>1, <2>3, Zenon
  <2>6. /\ DecodeTx(bytes, at).ok /\ DecodeTx(bytes, at).tx = tx
        /\ DecodeTx(bytes, at).next = at + 6
    BY <2>0, <2>4, <2>5, DepositIsRead, Zenon
  <2> QED BY <1>1, <2>1, <2>6
<1>4. CASE tx.type # "deposit"
  <2>0. tx \in UserTxs
    BY <1>4 DEF DepositTxs, UserTxs
  <2>1. /\ Len(E) = 7
        /\ E[1] = Field("tag", Tag[tx.type])
        /\ E[2] = Field("address", tx.from)
        /\ E[3] = Field("address", tx.to)
        /\ E[4] = Field("address", tx.token)
        /\ E[5] = Field("i128", tx.amount)
        /\ E[6] = Field("u64", tx.nonce)
        /\ E[7] = Field("signature", tx.signature)
    BY <1>1, <1>4, UserBytes
  <2>2. \A k \in 1..7 : bytes[at + k - 1] = E[k]
    BY <1>2, <2>1
  <2>3. /\ bytes[at] = E[1]
        /\ bytes[at + 1] = E[2]
        /\ bytes[at + 2] = E[3]
        /\ bytes[at + 3] = E[4]
        /\ bytes[at + 4] = E[5]
        /\ bytes[at + 5] = E[6]
        /\ bytes[at + 6] = E[7]
    <3>1. 1 \in 1..7 /\ 2 \in 1..7 /\ 3 \in 1..7 /\ 4 \in 1..7 /\ 5 \in 1..7 /\ 6 \in 1..7 /\ 7 \in 1..7
      OBVIOUS
    <3>2. /\ at + 1 - 1 = at
          /\ at + 2 - 1 = at + 1
          /\ at + 3 - 1 = at + 2
          /\ at + 4 - 1 = at + 3
          /\ at + 5 - 1 = at + 4
          /\ at + 6 - 1 = at + 5
          /\ at + 7 - 1 = at + 6
      OBVIOUS
    <3> QED BY <2>2, <3>1, <3>2, Zenon
  <2>4. at + 6 <= Len(bytes)
    BY <1>2, <2>1
  <2>5. /\ bytes[at] = Field("tag", Tag[tx.type])
        /\ bytes[at + 1] = Field("address", tx.from)
        /\ bytes[at + 2] = Field("address", tx.to)
        /\ bytes[at + 3] = Field("address", tx.token)
        /\ bytes[at + 4] = Field("i128", tx.amount)
        /\ bytes[at + 5] = Field("u64", tx.nonce)
        /\ bytes[at + 6] = Field("signature", tx.signature)
    BY <2>1, <2>3, Zenon
  <2>6. /\ DecodeTx(bytes, at).ok /\ DecodeTx(bytes, at).tx = tx
        /\ DecodeTx(bytes, at).next = at + 7
    BY <2>0, <2>4, <2>5, UserTxIsRead, Zenon
  <2> QED BY <1>1, <2>1, <2>6
<1> QED BY <1>3, <1>4

\* The bytes of a transaction are a sequence of fields.
LEMMA EncodedIsSeq ==
    ASSUME NEW tx, NEW S, \A k \in 1..Len(EncodeTx(tx)) : EncodeTx(tx)[k] \in S
    PROVE  EncodeTx(tx) \in Seq(S) /\ Len(EncodeTx(tx)) \in Nat
<1>1. CASE tx.type = "deposit"
  <2>1. PICK a, b, c, d, e, f : EncodeTx(tx) = <<a, b, c, d, e, f>>
    BY <1>1, DepositBytes, Zenon
  <2>2. \A k \in 1..6 : <<a, b, c, d, e, f>>[k] \in S
    BY <2>1
  <2>3. a \in S /\ b \in S /\ c \in S /\ d \in S /\ e \in S /\ f \in S
    BY <2>2
  <2>4. <<a, b, c, d, e, f>> \in Seq(S) /\ Len(<<a, b, c, d, e, f>>) = 6
    BY <2>3
  <2> QED BY <2>1, <2>4
<1>2. CASE tx.type # "deposit"
  <2>1. PICK a, b, c, d, e, f, g : EncodeTx(tx) = <<a, b, c, d, e, f, g>>
    BY <1>2, UserBytes, Zenon
  <2>2. \A k \in 1..7 : <<a, b, c, d, e, f, g>>[k] \in S
    BY <2>1
  <2>3. a \in S /\ b \in S /\ c \in S /\ d \in S /\ e \in S /\ f \in S /\ g \in S
    BY <2>2
  <2>4. <<a, b, c, d, e, f, g>> \in Seq(S) /\ Len(<<a, b, c, d, e, f, g>>) = 7
    BY <2>3
  <2> QED BY <2>1, <2>4
<1> QED BY <1>1, <1>2

\* The data of a batch: where each transaction was written.
Written(bytes, ends, txs, V) ==
    /\ bytes \in Seq(V)
    /\ bytes[1] = Field("u32", Len(txs))
    /\ ends[0] = 1 /\ ends[Len(txs)] = Len(bytes)
    /\ \A i \in 0..Len(txs) : ends[i] \in Nat \ {0} /\ ends[i] <= Len(bytes)
    /\ \A i \in 1..Len(txs) :
          /\ EncodeTx(txs[i]) \in Seq(V)
          /\ ends[i] = ends[i - 1] + 1 + Len(EncodeTx(txs[i]))
          /\ bytes[ends[i - 1] + 1] = Field("u16", ByteLength(EncodeTx(txs[i])))
          /\ \A k \in 1..Len(EncodeTx(txs[i])) : bytes[ends[i - 1] + 1 + k] = EncodeTx(txs[i])[k]

LEMMA EncodeBatchDataIs ==
    ASSUME NEW txs, Len(txs) \in Nat
    PROVE  \E V, ends : Written(EncodeBatchData(txs), ends, txs, V)
<1>0. PICK first : first = Field("u32", Len(txs))
  OBVIOUS
<1> DEFINE n == Len(txs)
           data == CHOOSE d : d = [i \in 0..Len(txs) |->
                      IF i = 0 THEN <<Field("u32", Len(txs))>>
                      ELSE Append(d[i - 1], Field("u16", ByteLength(EncodeTx(txs[i])))) \o EncodeTx(txs[i])]
<1>1. EncodeBatchData(txs) = data[n]
  BY DEF EncodeBatchData
<1>2. PICK W : W = [i \in 1..n |-> Field("u16", ByteLength(EncodeTx(txs[i])))]
  OBVIOUS
<1>3. PICK E : E = [i \in 1..n |-> EncodeTx(txs[i])]
  OBVIOUS
<1> DEFINE V == {first} \cup {W[i] : i \in 1..n} \cup UNION {{E[i][k] : k \in 1..Len(E[i])} : i \in 1..n}
<1>4. first \in V /\ W \in [1..n -> V]
  BY <1>2
<1>5. E \in [1..n -> Seq(V)]
  <2>1. ASSUME NEW i \in 1..n PROVE E[i] \in Seq(V)
    <3>1. E[i] = EncodeTx(txs[i])
      BY <1>3
    <3>2. \A k \in 1..Len(E[i]) : E[i][k] \in V
      OBVIOUS
    <3> HIDE DEF V
    <3> QED BY <3>1, <3>2, EncodedIsSeq
  <2> HIDE DEF V
  <2> QED BY <1>3, <2>1
<1>6. n \in Nat
  OBVIOUS
<1> HIDE DEF V, n
<1>7. PICK f \in [0..n -> Seq(V)] : f[0] = <<first>> /\ \A i \in 1..n : f[i] = Append(f[i - 1], W[i]) \o E[i]
  <2>1. \E f \in [0..n -> Seq(V)] : Frames(f, first, n, W, E)
    BY <1>4, <1>5, <1>6, FramesExist
  <2> QED BY <2>1 DEF Frames
<1>8. f = [i \in 0..n |-> IF i = 0 THEN <<first>>
                          ELSE Append(f[i - 1], Field("u16", ByteLength(EncodeTx(txs[i])))) \o EncodeTx(txs[i])]
  <2>1. ASSUME NEW i \in 0..n, i # 0
        PROVE  f[i] = Append(f[i - 1], Field("u16", ByteLength(EncodeTx(txs[i])))) \o EncodeTx(txs[i])
    <3>1. i \in 1..n
      BY <1>6, <2>1
    <3>2. W[i] = Field("u16", ByteLength(EncodeTx(txs[i]))) /\ E[i] = EncodeTx(txs[i])
      BY <1>2, <1>3, <3>1
    <3> QED BY <1>7, <3>1, <3>2, Zenon
  <2> QED BY <1>7, <2>1
<1>9. data = [i \in 0..n |-> IF i = 0 THEN <<first>>
                             ELSE Append(data[i - 1], Field("u16", ByteLength(EncodeTx(txs[i])))) \o EncodeTx(txs[i])]
  BY <1>0, <1>8, Zenon DEF n
<1> HIDE DEF data
<1>10. data[0] = <<first>>
  <2>1. 0 \in 0..n
    BY <1>6
  <2> QED BY <1>9, <2>1
<1>11. ASSUME NEW i \in 1..n PROVE data[i] = Append(data[i - 1], W[i]) \o E[i]
  <2>1. i \in 0..n /\ i # 0
    BY <1>6
  <2>2. W[i] = Field("u16", ByteLength(EncodeTx(txs[i]))) /\ E[i] = EncodeTx(txs[i])
    BY <1>2, <1>3
  <2>3. data[i] = Append(data[i - 1], Field("u16", ByteLength(EncodeTx(txs[i])))) \o EncodeTx(txs[i])
    BY <1>9, <2>1, Zenon
  <2> QED BY <2>2, <2>3, Zenon
<1>12. data \in [0..n -> Seq(V)]
  <2> DEFINE T == {i \in 0..n : data[i] = f[i]}
  <2>1. 0 \in T
    <3>1. 0 \in 0..n
      BY <1>6
    <3> QED BY <1>7, <1>10, <3>1, Zenon
  <2>2. ASSUME NEW k \in 0..(n - 1), k \in T PROVE k + 1 \in T
    <3>1. k + 1 \in 1..n /\ k + 1 \in 0..n /\ (k + 1) - 1 = k
      BY <1>6
    <3>2. data[k + 1] = Append(data[k], W[k + 1]) \o E[k + 1]
      BY <1>11, <3>1
    <3>3. f[k + 1] = Append(f[k], W[k + 1]) \o E[k + 1]
      BY <1>7, <3>1
    <3> QED BY <2>2, <3>1, <3>2, <3>3
  <2> HIDE DEF T
  <2>3. \A k \in 0..n : k \in T
    BY <1>6, <2>1, <2>2, UpTo
  <2>4. \A k \in 0..n : data[k] \in Seq(V)
    BY <1>7, <2>3 DEF T
  <2> QED BY <1>9, <2>4
<1>13. /\ Len(data[0]) = 1 /\ data[n][1] = first
       /\ \A i \in 0..n : Len(data[i]) \in Nat \ {0} /\ Len(data[i]) <= Len(data[n])
       /\ \A i \in 1..n :
             /\ Len(data[i]) = Len(data[i - 1]) + 1 + Len(E[i])
             /\ data[n][Len(data[i - 1]) + 1] = W[i]
             /\ \A k \in 1..Len(E[i]) : data[n][Len(data[i - 1]) + 1 + k] = E[i][k]
  <2>1. Frames(data, first, n, W, E)
    BY <1>10, <1>11 DEF Frames
  <2>2. first \in V /\ W \in [1..n -> V]
    BY <1>4
  <2>3. Framed(data, first, n, W, E)
    BY <1>5, <1>6, <1>12, <2>1, <2>2, FramesAre
  <2> QED BY <2>3 DEF Framed
<1>14. PICK ends : ends = [i \in 0..n |-> Len(data[i])]
  OBVIOUS
<1>15. \A i \in 0..n : ends[i] = Len(data[i])
  BY <1>14
<1>16. PICK bytes : bytes = EncodeBatchData(txs)
  OBVIOUS
<1>17. bytes = data[n] /\ bytes \in Seq(V)
  <2>1. n \in 0..n
    BY <1>6
  <2> QED BY <1>1, <1>12, <1>16, <2>1
<1>18. ends[0] = 1 /\ ends[n] = Len(bytes) /\ \A i \in 0..n : ends[i] \in Nat \ {0} /\ ends[i] <= Len(bytes)
  <2>1. 0 \in 0..n /\ n \in 0..n
    BY <1>6
  <2> QED BY <1>13, <1>15, <1>17, <2>1, Zenon
<1>19. ASSUME NEW i \in 1..n
       PROVE  /\ EncodeTx(txs[i]) \in Seq(V)
              /\ ends[i] = ends[i - 1] + 1 + Len(EncodeTx(txs[i]))
              /\ bytes[ends[i - 1] + 1] = Field("u16", ByteLength(EncodeTx(txs[i])))
              /\ \A k \in 1..Len(EncodeTx(txs[i])) : bytes[ends[i - 1] + 1 + k] = EncodeTx(txs[i])[k]
  <2>1. i \in 0..n /\ i - 1 \in 0..n
    BY <1>6
  <2>2. W[i] = Field("u16", ByteLength(EncodeTx(txs[i]))) /\ E[i] = EncodeTx(txs[i]) /\ E[i] \in Seq(V)
    BY <1>2, <1>3, <1>5
  <2>3. ends[i] = Len(data[i]) /\ ends[i - 1] = Len(data[i - 1])
    BY <1>15, <2>1
  <2> QED BY <1>13, <1>17, <2>2, <2>3, Zenon
<1>20. bytes[1] = first
  BY <1>13, <1>17
<1>21. Written(bytes, ends, txs, V)
  BY <1>0, <1>17, <1>18, <1>19, <1>20 DEF n, Written
<1> QED BY <1>16, <1>21

LEMMA SameSeq ==
    ASSUME NEW S, NEW s \in Seq(S), NEW t \in Seq(S), Len(s) = Len(t), \A i \in 1..Len(s) : s[i] = t[i]
    PROVE  s = t
<1>1. \A g \in Seq(S) : DOMAIN g = 1..Len(g) /\ g = [i \in DOMAIN g |-> g[i]]
  OBVIOUS
<1> QED BY <1>1

\* The first i of a sequence, and one more.
LEMMA TakenAndOne ==
    ASSUME NEW S, NEW n \in Nat, NEW s \in [1..n -> S], NEW i \in 1..n
    PROVE  Append([k \in 1..(i - 1) |-> s[k]], s[i]) = [k \in 1..i |-> s[k]]
<1> DEFINE before == [k \in 1..(i - 1) |-> s[k]]
           after == [k \in 1..i |-> s[k]]
<1>1. \A m \in Nat : \A f \in [1..m -> S] : f \in Seq(S) /\ Len(f) = m
  OBVIOUS
<1>2. i - 1 \in Nat /\ i \in Nat /\ before \in [1..(i - 1) -> S] /\ after \in [1..i -> S] /\ s[i] \in S
  OBVIOUS
<1>3. before \in Seq(S) /\ Len(before) = i - 1 /\ after \in Seq(S) /\ Len(after) = i
  BY <1>1, <1>2
<1>4. (\A k \in 1..(i - 1) : before[k] = s[k]) /\ \A k \in 1..i : after[k] = s[k]
  OBVIOUS
<1> HIDE DEF before, after
<1>5. PICK x : x = s[i]
  OBVIOUS
<1>6. /\ Append(before, x) \in Seq(S) /\ Len(Append(before, x)) = Len(before) + 1
      /\ \A k \in 1..Len(before) : Append(before, x)[k] = before[k]
      /\ Append(before, x)[Len(before) + 1] = x
  <2>1. before \in Seq(S) /\ x \in S
    BY <1>2, <1>3, <1>5
  <2> QED BY <2>1, AppendIs
<1>7. Len(Append(before, x)) = i /\ \A k \in 1..i : Append(before, x)[k] = after[k]
  <2>1. \A k \in 1..i : k \in 1..(i - 1) \/ k = i
    OBVIOUS
  <2>2. (i - 1) + 1 = i
    OBVIOUS
  <2>3. Append(before, x)[i] = x /\ after[i] = x
    BY <1>3, <1>4, <1>5, <1>6, <2>2
  <2>4. ASSUME NEW k \in 1..(i - 1) PROVE Append(before, x)[k] = after[k]
    <3>1. k \in 1..i
      OBVIOUS
    <3> QED BY <1>3, <1>4, <1>6, <3>1
  <2>5. Len(Append(before, x)) = i
    BY <1>3, <1>6, <2>2
  <2> QED BY <2>1, <2>3, <2>4, <2>5
<1>8. Append(before, x) = after
  <2>1. /\ Append(before, x) \in Seq(S) /\ after \in Seq(S)
        /\ Len(Append(before, x)) = Len(after)
        /\ \A k \in 1..Len(Append(before, x)) : Append(before, x)[k] = after[k]
    BY <1>3, <1>6, <1>7
  <2> QED BY <2>1, SameSeq
<1> QED BY <1>5, <1>8 DEF before, after

\* The frame that was written there is a piece of the data.
LEMMA PieceIs ==
    ASSUME NEW V, NEW bytes \in Seq(V), NEW e \in Seq(V), NEW at \in Nat, at + Len(e) <= Len(bytes),
           \A k \in 1..Len(e) : bytes[at + k] = e[k]
    PROVE  SubSeq(bytes, at + 1, at + Len(e)) = e
<1> DEFINE piece == SubSeq(bytes, at + 1, at + Len(e))
<1>1. Len(e) \in Nat /\ Len(bytes) \in Nat
  OBVIOUS
<1>2. piece \in Seq(V) /\ Len(piece) = Len(e) /\ \A k \in 1..Len(e) : piece[k] = bytes[at + k]
  <2>1. PICK a, b : a = at + 1 /\ b = at + Len(e)
    OBVIOUS
  <2>2. a \in Int /\ b \in Int /\ a \in 1..(Len(bytes) + 1) /\ b \in (a - 1)..Len(bytes)
    BY <1>1, <2>1
  <2>3. /\ SubSeq(bytes, a, b) \in Seq(V)
        /\ Len(SubSeq(bytes, a, b)) = b - a + 1
        /\ \A k \in 1..(b - a + 1) : SubSeq(bytes, a, b)[k] = bytes[a + k - 1]
    <3>1. bytes \in Seq(V)
      OBVIOUS
    <3> QED BY <2>2, <3>1
  <2>4. b - a + 1 = Len(e) /\ \A k \in 1..Len(e) : a + k - 1 = at + k
    <3>1. PICK n \in Nat : n = Len(e)
      BY <1>1
    <3>2. b = at + n
      BY <2>1, <3>1
    <3>3. b - a + 1 = n /\ \A k \in 1..n : a + k - 1 = at + k
      BY <2>1, <3>2
    <3> QED BY <3>1, <3>3
  <2> QED BY <2>1, <2>3, <2>4
<1>3. \A k \in 1..Len(e) : piece[k] = e[k]
  BY <1>2
<1> HIDE DEF piece
<1>4. piece = e
  BY <1>2, <1>3, SameSeq
<1> QED BY <1>4 DEF piece

\* What encodeBatchData writes, decodeBatchData reads back: every transaction with its
\* signature, in order, and nothing is left over.
THEOREM BatchRoundTrip ==
    ASSUME NEW txs \in Seq(UserTxs \cup DepositTxs)
    PROVE  DecodeBatchData(EncodeBatchData(txs)) = [ok |-> TRUE, txs |-> txs]
<1>1. PICK n \in Nat : n = Len(txs)
  OBVIOUS
<1>2. PICK bytes : bytes = EncodeBatchData(txs)
  OBVIOUS
<1>3. PICK V, ends : Written(bytes, ends, txs, V)
  BY <1>1, <1>2, EncodeBatchDataIs
<1>4. /\ bytes \in Seq(V) /\ Len(bytes) \in Nat
      /\ bytes[1] = Field("u32", n)
      /\ ends[0] = 1 /\ ends[n] = Len(bytes)
      /\ \A i \in 0..n : ends[i] \in Nat \ {0} /\ ends[i] <= Len(bytes)
      /\ \A i \in 1..n :
            /\ EncodeTx(txs[i]) \in Seq(V)
            /\ ends[i] = ends[i - 1] + 1 + Len(EncodeTx(txs[i]))
            /\ bytes[ends[i - 1] + 1] = Field("u16", ByteLength(EncodeTx(txs[i])))
            /\ \A k \in 1..Len(EncodeTx(txs[i])) : bytes[ends[i - 1] + 1 + k] = EncodeTx(txs[i])[k]
  BY <1>1, <1>3 DEF Written
<1>5. txs \in [1..n -> UserTxs \cup DepositTxs]
  BY <1>1
<1> DEFINE first == [ok |-> TRUE, txs |-> <<>>, next |-> 2]
           f == [i \in 0..n |-> [ok |-> TRUE, txs |-> [k \in 1..i |-> txs[k]], next |-> ends[i] + 1]]
<1>6. f[0] = first
  <2>1. [k \in 1..0 |-> txs[k]] = <<>>
    OBVIOUS
  <2>2. 0 \in 0..n /\ 1 + 1 = 2
    BY <1>1
  <2> QED BY <1>4, <2>1, <2>2, Zenon
<1>7. ASSUME NEW i \in 1..n PROVE ReadFrame(bytes, f[i - 1]) = f[i]
  <2>1. i \in 0..n /\ i - 1 \in 0..n
    BY <1>1
  <2>2. PICK before : before = f[i - 1]
    OBVIOUS
  <2>3. PICK at : at = ends[i - 1] + 1
    OBVIOUS
  <2>4. before.ok /\ before.txs = [k \in 1..(i - 1) |-> txs[k]] /\ before.next = at
    BY <2>1, <2>2, <2>3
  <2>5. f[i] = [ok |-> TRUE, txs |-> [k \in 1..i |-> txs[k]], next |-> ends[i] + 1]
    BY <2>1
  <2> HIDE DEF f
  <2>6. PICK tx \in UserTxs \cup DepositTxs : tx = txs[i]
    BY <1>5
  <2>7. PICK e \in Seq(V) : e = EncodeTx(tx)
    BY <1>4, <2>6
  <2>8. /\ at \in Nat /\ Len(e) \in Nat /\ at + Len(e) <= Len(bytes) /\ ends[i] = at + Len(e)
    <3>1. ends[i - 1] \in Nat /\ ends[i] <= Len(bytes) /\ ends[i] = ends[i - 1] + 1 + Len(EncodeTx(txs[i]))
      BY <1>4, <2>1
    <3>2. Len(e) \in Nat
      BY <2>7
    <3>3. ends[i] = at + Len(e)
      BY <2>3, <2>6, <2>7, <3>1
    <3>4. at \in Nat
      <4>1. PICK last \in Nat : last = ends[i - 1]
        BY <3>1
      <4>2. at = last + 1
        BY <2>3, <4>1
      <4> HIDE DEF f, first
      <4> QED BY <4>2
    <3> QED BY <3>1, <3>2, <3>3, <3>4
  <2>9. /\ bytes[at] = Field("u16", ByteLength(e))
        /\ \A k \in 1..Len(e) : bytes[at + k] = e[k]
    BY <1>4, <2>3, <2>6, <2>7
  <2>10. PICK one : one = DecodeTx(bytes, at + 1)
    OBVIOUS
  <2>11. one.ok /\ one.tx = tx /\ one.next = at + 1 + Len(e)
    <3>1. PICK from : from = at + 1
      OBVIOUS
    <3>2. from \in Nat /\ from + Len(e) - 1 <= Len(bytes) /\ Len(bytes) \in Nat
      BY <1>4, <2>8, <3>1
    <3>3. \A k \in 1..Len(e) : bytes[from + k - 1] = e[k]
      <4>1. ASSUME NEW k \in 1..Len(e) PROVE bytes[from + k - 1] = e[k]
        <5>1. from + k - 1 = at + k
          BY <2>8, <3>1
        <5> QED BY <2>9, <5>1
      <4> QED BY <4>1
    <3>4. /\ DecodeTx(bytes, from).ok /\ DecodeTx(bytes, from).tx = tx
          /\ DecodeTx(bytes, from).next = from + Len(EncodeTx(tx))
      <4>1. WrittenAt(bytes, from, EncodeTx(tx))
        BY <2>7, <3>2, <3>3 DEF WrittenAt
      <4> QED BY <2>6, <3>2, <4>1, DecodeTxIs, Zenon
    <3> QED BY <2>7, <2>10, <3>1, <3>4
  <2>12. Reads(bytes, at, <<"u16">>)
    <3>1. at <= Len(bytes)
      BY <1>4, <2>8
    <3>2. bytes[at].kind = "u16"
      BY <2>9 DEF Field
    <3> QED BY <1>4, <2>8, <3>1, <3>2, ReadsOne
  <2>13. ByteLength(SubSeq(bytes, at + 1, one.next - 1)) = bytes[at].value
    <3>1. one.next - 1 = at + Len(e)
      BY <2>8, <2>11
    <3>2. SubSeq(bytes, at + 1, at + Len(e)) = e
      BY <1>4, <2>8, <2>9, PieceIs
    <3>3. bytes[at].value = ByteLength(e)
      BY <2>9 DEF Field
    <3> QED BY <3>1, <3>2, <3>3
  <2>14. ReadFrame(bytes, before) = [ok |-> TRUE, txs |-> Append(before.txs, one.tx), next |-> one.next]
    BY <2>4, <2>10, <2>11, <2>12, <2>13, Zenon DEF ReadFrame
  <2>15. Append(before.txs, one.tx) = [k \in 1..i |-> txs[k]]
    <3>1. Append([k \in 1..(i - 1) |-> txs[k]], txs[i]) = [k \in 1..i |-> txs[k]]
      BY <1>5, TakenAndOne
    <3> QED BY <2>4, <2>6, <2>11, <3>1, Zenon
  <2>16. one.next = ends[i] + 1
    BY <2>8, <2>11
  <2> QED BY <2>2, <2>5, <2>14, <2>15, <2>16, Zenon
<1>8. f = [i \in 0..n |-> IF i = 0 THEN first ELSE ReadFrame(bytes, f[i - 1])]
  <2>1. ASSUME NEW i \in 0..n, i # 0 PROVE f[i] = ReadFrame(bytes, f[i - 1])
    <3>1. i \in 1..n
      BY <2>1
    <3> QED BY <1>7, <3>1, Zenon
  <2>2. f = [i \in 0..n |-> f[i]]
    OBVIOUS
  <2> HIDE DEF f, first
  <2>3. \A i \in 0..n : f[i] = IF i = 0 THEN first ELSE ReadFrame(bytes, f[i - 1])
    BY <1>6, <2>1
  <2> QED BY <2>2, <2>3
<1>9. f[n] = [ok |-> TRUE, txs |-> [k \in 1..n |-> txs[k]], next |-> ends[n] + 1] /\ n \in 0..n
  BY <1>1
<1> DEFINE r == CHOOSE g : g = [i \in 0..n |-> IF i = 0 THEN first ELSE ReadFrame(bytes, g[i - 1])]
<1> HIDE DEF f
<1>10. r = [i \in 0..n |-> IF i = 0 THEN first ELSE ReadFrame(bytes, r[i - 1])]
  BY <1>8, Zenon
<1>11. bytes[1].value = n
  BY <1>4 DEF Field
<1>12. DecodeBatchData(bytes) = [ok |-> r[n].ok /\ r[n].next = Len(bytes) + 1, txs |-> r[n].txs]
  <2> DEFINE q == CHOOSE g : g = [i \in 0..bytes[1].value |->
                     IF i = 0 THEN [ok |-> TRUE, txs |-> <<>>, next |-> 2] ELSE ReadFrame(bytes, g[i - 1])]
             count == bytes[1].value
  <2>1. DecodeBatchData(bytes) = [ok |-> q[count].ok /\ q[count].next = Len(bytes) + 1, txs |-> q[count].txs]
    BY Zenon DEF DecodeBatchData, ReadFrame
  <2>2. q = r
    BY <1>11, Zenon
  <2> HIDE DEF q, r
  <2> QED BY <1>11, <2>1, <2>2, Zenon
<1> HIDE DEF r, first
<1>13. r[n] = f[n]
  <2> DEFINE T == {i \in 0..n : r[i] = f[i]}
  <2>1. 0 \in T
    <3>1. 0 \in 0..n
      BY <1>1
    <3> QED BY <1>6, <1>10, <3>1
  <2>2. ASSUME NEW k \in 0..(n - 1), k \in T PROVE k + 1 \in T
    <3>1. k + 1 \in 1..n /\ k + 1 \in 0..n /\ k + 1 # 0 /\ (k + 1) - 1 = k
      BY <1>1
    <3>2. r[k + 1] = ReadFrame(bytes, r[k])
      BY <1>10, <3>1, Zenon
    <3>3. f[k + 1] = ReadFrame(bytes, f[k])
      BY <1>7, <3>1, Zenon
    <3> QED BY <2>2, <3>1, <3>2, <3>3
  <2> HIDE DEF T
  <2>3. \A k \in 0..n : k \in T
    BY <1>1, <2>1, <2>2, UpTo
  <2> QED BY <1>9, <2>3 DEF T
<1>14. [k \in 1..n |-> txs[k]] = txs
  BY <1>5
<1>15. r[n].ok /\ r[n].next = Len(bytes) + 1 /\ r[n].txs = txs
  BY <1>4, <1>9, <1>13, <1>14
<1>16. (r[n].ok /\ r[n].next = Len(bytes) + 1) = TRUE
  BY <1>9, <1>13, <1>15
<1> QED BY <1>2, <1>12, <1>15, <1>16, Zenon

LEMMA TxsAre ==
    ASSUME ServerInv
    PROVE  Txs \in Seq(UserTxs \cup DepositTxs)
<1>1. /\ Len(rows) \in Nat /\ DOMAIN rows = 1..Len(rows)
      /\ \A i \in DOMAIN rows : rows[i] \in RowType
  BY RowsAre
<1>2. \A i \in 1..Len(rows) : rows[i].tx \in UserTxs \cup DepositTxs
  BY <1>1 DEF RowType
<1>3. PICK n : n = Len(rows)
  OBVIOUS
<1>4. n \in Nat /\ Txs = [i \in 1..n |-> rows[i].tx]
  BY <1>1, <1>3 DEF Txs
<1>5. Txs \in [1..n -> UserTxs \cup DepositTxs]
  BY <1>2, <1>3, <1>4
<1> QED BY <1>4, <1>5

LEMMA InvExecutedAsTapped ==
    ASSUME WalletInv
    PROVE  ExecutedAsTapped
<1>1. ServerInv /\ RequestInv
  BY DEF WalletInv
<1>2. Txs \in Seq(UserTxs \cup DepositTxs)
  BY <1>1, TxsAre
<1> SUFFICES ASSUME NEW published \in {DecodeBatchData(EncodeBatchData(Txs))}
             PROVE  /\ published.ok
                    /\ \A i \in DOMAIN rows : LET tx == published.txs[i] IN
                          /\ tx.type # "deposit" =>
                                tx.signature.key = tx.from /\ tx.signature.message = SigningMessage(tx)
                          /\ rows[i].tap # 0 => Content(tx.from, tx) = asked[rows[i].tap]
                    /\ \A i, j \in DOMAIN rows : rows[i].tap = rows[j].tap => i = j \/ rows[i].tap = 0
  BY Zenon DEF ExecutedAsTapped
<1>3. published = [ok |-> TRUE, txs |-> Txs]
  BY <1>2, BatchRoundTrip
<1>4. ASSUME NEW i \in DOMAIN rows, NEW tx, tx = published.txs[i]
      PROVE  /\ tx.type # "deposit" =>
                   tx.signature.key = tx.from /\ tx.signature.message = SigningMessage(tx)
             /\ rows[i].tap # 0 => Content(tx.from, tx) = asked[rows[i].tap]
  <2>1. tx = rows[i].tx
    BY <1>3, <1>4 DEF Txs
  <2>2. ASSUME tx.type # "deposit"
        PROVE  tx.signature.key = tx.from /\ tx.signature.message = SigningMessage(tx)
    <3>1. VerifyTxSignature(tx)
      BY <1>1, <2>1, <2>2 DEF ServerInv
    <3> QED BY <3>1 DEF VerifyTxSignature, Signature
  <2>3. ASSUME rows[i].tap # 0 PROVE Content(tx.from, tx) = asked[rows[i].tap]
    BY <1>1, <2>1, <2>3 DEF RequestInv
  <2> QED BY <2>2, <2>3
<1>5. \A i, j \in DOMAIN rows : rows[i].tap = rows[j].tap => i = j \/ rows[i].tap = 0
  BY <1>1 DEF RequestInv
<1>6. published.ok
  BY <1>3
<1> QED BY <1>4, <1>5, <1>6

\* Everything executed, as an auditor reads it from the published bytes, is
\* signed by the account that pays; what came from the page is what the user
\* tapped, and no tap is executed twice: whatever is lost, late or refused on
\* the way of run of Bridge.tsx.
THEOREM SpecExecutedAsTapped == Spec => []ExecutedAsTapped
BY SpecWalletInv, InvExecutedAsTapped, PTL
=============================================================================
