------------------------------- MODULE Wallet -------------------------------
(***************************************************************************)
(* The page a user moves funds with: frontend/src/pages/Bridge.tsx over    *)
(* context/WalletContext.tsx, lib/wallet.ts and the SDK, against the       *)
(* server of FlashApi, other clients of the same accounts, and what        *)
(* becomes of withdrawals and payments meanwhile.                          *)
(*                                                                         *)
(* The page is one thread: between the awaits of `run`, of the refresh of  *)
(* the balance, of the list of withdrawals and of the poll of their        *)
(* proofs, anything else happens.  A request is posted once; its answer    *)
(* may be lost, or the request may arrive when the page has given up.      *)
(*                                                                         *)
(* Abstractions: one token; how a withdrawal is settled is its stage       *)
(* (modules SettlementEngine and Offramp), how a payment becomes a deposit *)
(* the row of the onramp (module BridgeOperator), where refused is failed  *)
(* or skipped; an error is the code it is worded from; of overlapping      *)
(* requests of a timer one is kept.                                        *)
(***************************************************************************)
EXTENDS FlashApi

CONSTANTS
    Mine,        \* accounts of the user's wallet
    Asset,       \* the token of the page
    Funding,     \* the transactions executed before the page is opened
    Forms,       \* what the user may ask for: [type, to, amount]
    OthersForms, \* what other clients submit: [from, type, to, amount]
    Stages,      \* how a withdrawal proceeds: none (in no batch), ..., claimed
    None,
    MaxMoves,    \* bound: forms submitted, changes of account, reloads, and what other
                 \* clients submit, together
    MaxRows      \* bound: transactions executed

ASSUME WalletConfig ==
    /\ Mine \subseteq Account
    /\ Asset \in Token
    /\ Stages \in Seq(STRING) /\ Len(Stages) > 0
    /\ Stages[1] = "none" /\ Stages[Len(Stages)] = "claimed"
    /\ Funding \in Seq([type : {"deposit"}, depositIndex : Nat, to : Account, token : Token,
                        amount : Nat, l1TxHash : STRING])
    /\ Forms \subseteq [type : {"transfer", "withdraw", "deposit"}, to : Account, amount : Nat]
    /\ OthersForms \subseteq [from : Account, type : {"transfer", "withdraw"}, to : Account, amount : Nat]
    /\ {MaxMoves, MaxRows} \subseteq Nat

VARIABLES
    \* the server
    rows,          \* executed transactions: [tx, tap, stage]; tap 0 is another client
    l2,            \* the state of the sequencer
    payment,       \* the payment on Stellar and its row: [account, row, credited]
    inTransit,     \* posted requests that have not arrived
    \* the page
    address,
    busy,          \* the run of a form: phase, and what it holds
    said,          \* notice or error: a text, and the tap it is about
    pending,       \* withdrawals shown: [id, shown]
    flashBalance,
    refresh, list, poll,  \* requests under way
    \* history
    asked,         \* what was tapped, in order: [from, type, to, amount]
    moves          \* how many

server == <<rows, l2, payment, inTransit>>
page == <<address, busy, said, pending, flashBalance, refresh, list, poll>>
vars == <<server, page, asked, moves>>

Idle == [phase |-> "idle"]
Silent == [text |-> "", tap |-> 0, nonce |-> 0]

Txs == [i \in DOMAIN rows |-> rows[i].tx]
StageOf == [i \in DOMAIN rows |-> rows[i].stage]
MayMove == moves < MaxMoves

BalanceOf(account) == AccountView(l2, Txs, account, Asset).balance

-----------------------------------------------------------------------------
(* The server *)

Row(tx, tap) == [tx |-> tx, tap |-> tap, stage |-> "none"]

Unsigned(from, form, nonce) ==
    [type |-> form.type, from |-> from, to |-> form.to, token |-> Asset,
     amount |-> form.amount, nonce |-> nonce, signature |-> None]

Signed(tx, key, encoding) == [tx EXCEPT !.signature = Signature(key, encoding, tx)]

\* record: the row is written and applied.
Record(tx, tap) ==
    /\ rows' = Append(rows, Row(tx, tap))
    /\ l2' = Apply(l2, tx)

\* A request of the page arrives.
Deliver(request, snapshotFails) ==
    LET answer == PostTransaction(l2, Txs, request.json, snapshotFails)
    IN  /\ Len(rows) < MaxRows
        /\ snapshotFails => answer.status = 500
        /\ inTransit' = inTransit \ {request}
        /\ IF Executed(answer) THEN Record(TxFromJson(request.json).tx, request.tap) ELSE UNCHANGED <<rows, l2>>
        /\ busy' = IF busy.phase = "posted" /\ busy.tap = request.tap
                   THEN [busy EXCEPT !.phase = "answered", !.answer = answer, !.seq = Len(rows')]
                   ELSE busy
        /\ UNCHANGED <<payment, address, said, pending, flashBalance, refresh, list, poll, asked, moves>>

\* transfer or withdraw of the SDK, by another client with the account's key.
OthersSubmit(form) ==
    LET tx == Signed(Unsigned(form.from, form, GetNonce(l2, form.from, Asset)), form.from, "raw")
    IN  /\ Len(rows) < MaxRows
        /\ PostTransaction(l2, Txs, TxToJson(tx), FALSE).status = 201
        /\ MayMove
        /\ Record(tx, 0)
        /\ moves' = moves + 1
        /\ UNCHANGED <<payment, inTransit, page, asked>>

NextStage(stage) == Stages[CHOOSE i \in DOMAIN Stages : i > 1 /\ Stages[i - 1] = stage]

\* The batch of a withdrawal is sealed, in order, and comes further.
Advance(seq) ==
    /\ rows[seq].tx.type = "withdraw"
    /\ rows[seq].stage # "claimed"
    /\ \A i \in 1..(seq - 1) : rows[i].tx.type = "withdraw" => rows[i].stage # "none"
    /\ rows' = [rows EXCEPT ![seq].stage = NextStage(@)]
    /\ UNCHANGED <<l2, payment, inTransit, page, asked, moves>>

OnrampMoves == {<<"seen", "refused">>, <<"seen", "deposited">>, <<"refused", "deposited">>}

\* The operator handles the payment (seen: or has no row of it yet; a failed
\* row is tried again).
Onramp(row) ==
    /\ payment # None
    /\ <<payment.row, row>> \in OnrampMoves
    /\ payment' = [payment EXCEPT !.row = row]
    /\ UNCHANGED <<rows, l2, inTransit, page, asked, moves>>

\* Its deposit is credited; the relay of a refused row may have been included.
CreditPayment ==
    /\ payment # None
    /\ payment.row \in {"refused", "deposited"}
    /\ ~payment.credited
    /\ Len(rows) < MaxRows
    /\ Record([type |-> "deposit", depositIndex |-> l2.nextDepositIndex, to |-> payment.account,
               token |-> Asset, amount |-> 1, l1TxHash |-> "relay"], 0)
    /\ payment' = [payment EXCEPT !.credited = TRUE]
    /\ UNCHANGED <<inTransit, page, asked, moves>>

-----------------------------------------------------------------------------
(* The page: the account *)

\* The effect on [address]: the list of the account before is cancelled.
ListOf(account) ==
    IF account = None THEN None ELSE [account |-> account, asked |-> TRUE, todo |-> {}]

\* connect and disconnect.
SwitchTo(account) ==
    /\ MayMove
    /\ account # address
    /\ address' = account
    /\ list' = ListOf(account)
    /\ moves' = moves + 1
    /\ UNCHANGED <<server, busy, said, pending, flashBalance, refresh, poll, asked>>

\* The page is left and opened again; restoreWallet finds the account or not.
Reload(account) ==
    /\ MayMove
    /\ account \in {address, None}
    /\ address' = account
    /\ list' = ListOf(account)
    /\ busy' = Idle
    /\ said' = Silent
    /\ pending' = <<>>
    /\ flashBalance' = 0
    /\ refresh' = None
    /\ poll' = None
    /\ moves' = moves + 1
    /\ UNCHANGED <<server, asked>>

-----------------------------------------------------------------------------
(* The page: run, with pay, withdraw and deposit *)

Content(from, form) == [from |-> from, type |-> form.type, to |-> form.to, amount |-> form.amount]

\* A form is submitted: the first await of its function.
Tap(form) ==
    /\ MayMove
    /\ address # None
    /\ busy = Idle
    /\ form.type = "withdraw" => form.to = address
    /\ form.type = "deposit" => payment = None
    /\ said' = Silent
    /\ asked' = Append(asked, Content(address, form))
    /\ busy' = IF form.type = "deposit"
               THEN [phase |-> "pay", tap |-> Len(asked'), from |-> address, before |-> flashBalance]
               ELSE [phase |-> "nonce", tap |-> Len(asked'), tx |-> Unsigned(address, form, 0)]
    /\ moves' = moves + 1
    /\ UNCHANGED <<server, address, pending, flashBalance, refresh, list, poll>>

\* signingMessage of the SDK: the nonce comes from the server, the bytes are
\* made here.
NonceAnswered ==
    /\ busy.phase = "nonce"
    /\ busy' = [busy EXCEPT !.phase = "sign", !.tx.nonce = GetNonce(l2, busy.tx.from, Asset)]
    /\ UNCHANGED <<server, address, said, pending, flashBalance, refresh, list, poll, asked, moves>>

\* signFlashMessage, by the key the wallet has selected, and submitSigned.
Sign(key) ==
    /\ busy.phase = "sign"
    /\ LET tx == Signed(busy.tx, key, "hex")
       IN  /\ inTransit' = inTransit \cup {[json |-> TxToJson(tx), tap |-> busy.tap]}
           /\ busy' = [phase |-> "posted", tap |-> busy.tap, tx |-> tx, answer |-> None, seq |-> 0]
    /\ UNCHANGED <<rows, l2, payment, address, said, pending, flashBalance, refresh, list, poll, asked, moves>>

Say(text, tap) == [text |-> text, tap |-> tap, nonce |-> 0]

\* humanError of a code, with the nonce of the transaction it is about.
HumanError(code, tap, nonce) == [text |-> code, tap |-> tap, nonce |-> nonce]

\* The receipt arrives.
Confirmed ==
    /\ busy.phase = "answered"
    /\ busy.answer.status = 201
    /\ pending' = IF busy.tx.type = "withdraw"
                  THEN <<[id |-> busy.seq, shown |-> "none"]>> \o pending ELSE pending
    /\ said' = Say(IF busy.tx.type = "withdraw" THEN "burned" ELSE "paid", busy.tap)
    /\ busy' = [phase |-> "refresh", from |-> busy.tx.from]
    /\ UNCHANGED <<server, address, flashBalance, refresh, list, poll, asked, moves>>

\* request throws a FlashApiError, worded from its code.
Refused ==
    /\ busy.phase = "answered"
    /\ busy.answer.status # 201
    /\ said' = HumanError(busy.answer.code, busy.tap, busy.tx.nonce)
    /\ busy' = Idle
    /\ UNCHANGED <<server, address, pending, flashBalance, refresh, list, poll, asked, moves>>

\* The wallet refuses, a connection fails, or an answer is lost; the loop of a
\* deposit throws when an answer cannot be read (a failed fetch it swallows).
RunThrows ==
    /\ busy.phase \in {"nonce", "sign", "posted", "answered", "pay", "credit"}
    /\ said' = Say("threw", busy.tap)
    /\ busy' = Idle
    /\ UNCHANGED <<server, address, pending, flashBalance, refresh, list, poll, asked, moves>>

\* The payment is made on Stellar; its answer may be lost.
SendPayment(lost) ==
    /\ busy.phase = "pay"
    /\ payment' = [account |-> busy.from, row |-> "seen", credited |-> FALSE]
    /\ busy' = IF lost THEN Idle ELSE [busy EXCEPT !.phase = "credit"]
    /\ said' = IF lost THEN Say("threw", busy.tap) ELSE said
    /\ UNCHANGED <<rows, l2, inTransit, address, pending, flashBalance, refresh, list, poll, asked, moves>>

\* The deposit loop ends: the balance is above the one shown when the form was
\* submitted, or the time is over, ...
DepositEnds(text) ==
    /\ busy.phase = "credit"
    /\ text = "credited" => BalanceOf(busy.from) > busy.before
    /\ said' = Say(text, busy.tap)
    /\ busy' = [phase |-> "refresh", from |-> busy.from]
    /\ UNCHANGED <<server, address, pending, flashBalance, refresh, list, poll, asked, moves>>

\* ... or the row of the payment says failed or skipped.
DepositRefused ==
    /\ busy.phase = "credit"
    /\ \E row \in OnrampView({payment}, busy.from) : row.row = "refused"
    /\ said' = Say("refused", busy.tap)
    /\ busy' = Idle
    /\ UNCHANGED <<server, address, pending, flashBalance, refresh, list, poll, asked, moves>>

\* run awaits a refresh of the account it was started for, which may fail.
RunEnds(answered) ==
    /\ busy.phase = "refresh"
    /\ flashBalance' = IF answered THEN BalanceOf(busy.from) ELSE flashBalance
    /\ busy' = Idle
    /\ UNCHANGED <<server, address, said, pending, refresh, list, poll, asked, moves>>

-----------------------------------------------------------------------------
(* The page: balance and withdrawals *)

\* Mutant: the balance is read when the page opens, and after a form only.
RefreshOnce == refresh = None /\ flashBalance = 0

RefreshDue == refresh = None /\ flashBalance # BalanceOf(address)

\* Every five seconds; the server answers with the balance it has now (an
\* answer that is on the page already is left out) ...
RefreshAnswered ==
    /\ address # None
    /\ RefreshDue
    /\ refresh' = [balance |-> BalanceOf(address)]
    /\ UNCHANGED <<server, address, busy, said, pending, flashBalance, list, poll, asked, moves>>

\* ... and the answer arrives, whatever account is connected by then.
RefreshArrives ==
    /\ refresh # None
    /\ flashBalance' = refresh.balance
    /\ refresh' = None
    /\ UNCHANGED <<server, address, busy, said, pending, list, poll, asked, moves>>

ShownIds(entries) == {entries[i].id : i \in DOMAIN entries}

\* fetchAccount of the list: the withdrawals of the account, if there are any.
ListAnswered ==
    /\ list # None
    /\ list.asked
    /\ LET withdrawals == AccountView(l2, Txs, list.account, Asset).withdrawals
       IN  list' = IF withdrawals = {} THEN None
                   ELSE [list EXCEPT !.asked = FALSE, !.todo = withdrawals]
    /\ UNCHANGED <<server, address, busy, said, pending, flashBalance, refresh, poll, asked, moves>>

\* What the page keeps of a proof, or of a request that failed.
Shown(seq, old) == LET view == ProofView(StageOf, seq) IN IF view.ok THEN view.stage ELSE old

\* The order of the listing: the i-th has i - 1 after it in the log.
NewestFirst(ids) ==
    [i \in 1..Cardinality(ids) |-> CHOOSE id \in ids : Cardinality({newer \in ids : newer > id}) = i - 1]

\* The last of their proofs arrives; what could not be read is shown as waiting,
\* old claimed ones are left out, and what is not shown yet is added.
ListArrives(failed, old) ==
    /\ ~list.asked
    /\ LET stage(id) == IF id \in failed THEN "none" ELSE Shown(id, "none")
           added == NewestFirst({id \in list.todo \ ShownIds(pending) : stage(id) # "claimed" \/ id \notin old})
       IN  pending' = pending \o [i \in DOMAIN added |-> [id |-> added[i], shown |-> stage(added[i])]]
    /\ list' = None
    /\ UNCHANGED <<server, address, busy, said, flashBalance, refresh, poll, asked, moves>>

\* fetchAccount fails: the list is not asked for again.
ListFails ==
    /\ list # None
    /\ list.asked
    /\ list' = None
    /\ UNCHANGED <<server, address, busy, said, pending, flashBalance, refresh, poll, asked, moves>>

\* A tick of the poll takes the list as it is now ...
PollStarts ==
    /\ pending # <<>>
    /\ poll = None
    /\ poll' = [entries |-> pending]
    /\ UNCHANGED <<server, address, busy, said, pending, flashBalance, refresh, list, asked, moves>>

\* ... and ends with the last proof: setPending with the list of the start,
\* what was added since is gone.
PollArrives(failed) ==
    /\ pending' = [i \in DOMAIN poll.entries |->
                      IF i \in failed THEN poll.entries[i]
                      ELSE [poll.entries[i] EXCEPT !.shown = Shown(poll.entries[i].id, @)]]
    /\ poll' = None
    /\ UNCHANGED <<server, address, busy, said, flashBalance, refresh, list, asked, moves>>

-----------------------------------------------------------------------------
Init ==
    /\ rows = [i \in DOMAIN Funding |-> Row(Funding[i], 0)]
    /\ l2 = StateAfter(Funding)
    /\ payment = None
    /\ inTransit = {}
    /\ address \in Mine
    /\ busy = Idle
    /\ said = Silent
    /\ pending = <<>>
    /\ flashBalance = 0
    /\ refresh = None
    /\ list = ListOf(address)
    /\ poll = None
    /\ asked = <<>>
    /\ moves = 0

ServerStep ==
    \/ \E request \in inTransit, snapshotFails \in BOOLEAN : Deliver(request, snapshotFails)
    \/ \E form \in OthersForms : OthersSubmit(form)
    \/ \E seq \in DOMAIN rows : Advance(seq)
    \/ \E row \in {"refused", "deposited"} : Onramp(row)
    \/ CreditPayment

RunStep ==
    \/ NonceAnswered
    \/ \E key \in Mine : Sign(key)
    \/ Confirmed
    \/ Refused
    \/ RunThrows
    \/ \E lost \in BOOLEAN : SendPayment(lost)
    \/ \E text \in {"credited", "landed"} : DepositEnds(text)
    \/ DepositRefused
    \/ \E answered \in BOOLEAN : RunEnds(answered)

ListStep ==
    \/ ListAnswered
    \/ list # None /\ \E failed, old \in SUBSET list.todo : ListArrives(failed, old)
    \/ ListFails

RefreshStep == RefreshAnswered \/ RefreshArrives

PollStep ==
    \/ PollStarts
    \/ poll # None /\ \E failed \in SUBSET DOMAIN poll.entries : PollArrives(failed)

Next ==
    \/ ServerStep
    \/ \E account \in Mine \cup {None} : SwitchTo(account) \/ Reload(account)
    \/ \E form \in Forms : Tap(form)
    \/ RunStep
    \/ ListStep
    \/ RefreshStep
    \/ PollStep

\* The timers of the page run, and each request is answered when it is made
\* again and again.
Fairness ==
    /\ WF_vars(RefreshStep)
    /\ WF_vars(PollStep)
    /\ SF_vars(poll # None /\ PollArrives({}))

Spec == Init /\ [][Next]_vars /\ Fairness

-----------------------------------------------------------------------------
\* Type invariant; an entry shown is a withdrawal, and a request that is under
\* way was tapped.
TypeOK ==
    /\ \A i \in DOMAIN rows : rows[i].stage \in Range(Stages) /\ rows[i].tap \in 0..Len(asked)
    /\ payment = None \/ payment.account \in Mine
    /\ \A r \in inTransit : r.tap \in DOMAIN asked
    /\ address \in Mine \cup {None}
    /\ busy = Idle \/ busy.phase \in
          {"nonce", "sign", "posted", "answered", "pay", "credit", "refresh"}
    /\ said.tap \in 0..Len(asked)
    /\ \A id \in ShownIds(pending) : id \in DOMAIN rows /\ rows[id].tx.type = "withdraw"
    /\ flashBalance \in Nat
    /\ list # None => list.account = address
    /\ asked \in Seq([from : Mine, type : {"transfer", "withdraw", "deposit"}, to : Account, amount : Nat])
    /\ moves \in 0..MaxMoves

\* Whatever was lost, late, refused, repeated or signed with another account of
\* the wallet: everything executed is, as an auditor reads it from the published
\* bytes, signed by the account that pays; what came from the page is what the
\* user asked for, from the account connected then; and no tap is executed twice.
ExecutedAsTapped ==
    \A published \in {DecodeBatchData(EncodeBatchData(Txs))} :
    /\ published.ok
    /\ \A i \in DOMAIN rows : LET tx == published.txs[i] IN
          /\ tx.type # "deposit" =>
                tx.signature.key = tx.from /\ tx.signature.message = SigningMessage(tx)
          /\ rows[i].tap # 0 => Content(tx.from, tx) = asked[rows[i].tap]
    /\ \A i, j \in DOMAIN rows : rows[i].tap = rows[j].tap => i = j \/ rows[i].tap = 0

FlashCodes == {"INVALID_AMOUNT", "TOKEN_NOT_ALLOWED", "SELF_TRANSFER", "INVALID_SIGNATURE",
               "BAD_NONCE", "INSUFFICIENT_BALANCE", "NOT_ALLOWLISTED"}

ExecutedFor(tap) == {i \in DOMAIN rows : rows[i].tap = tap}

\* What the page says is so, and stays so: "Paid" and "burned" were executed; what a code
\* refuses was not, and is not executed later; and with BAD_NONCE another
\* payment of the account did land (Bridge.tsx:50: "Another payment of yours
\* landed first. Try again.").  Of other errors nothing is promised: a lost
\* answer, or a 500, may belong to a payment that was executed.
NoticeIsTrue ==
    /\ said.text \in {"paid", "burned"} => ExecutedFor(said.tap) # {}
    /\ said.text \in FlashCodes =>
          /\ ExecutedFor(said.tap) = {}
          /\ \A r \in inTransit : r.tap # said.tap
    /\ said.text = "BAD_NONCE" =>
          \E i \in DOMAIN rows : /\ rows[i].tx.type # "deposit"
                                 /\ rows[i].tx.from = asked[said.tap].from
                                 /\ rows[i].tx.nonce = said.nonce

\* Whoever holds FXLM and a key can leave with all of it, on the allowlist or
\* not, with the nonce the server gives (server.ts:187: "cualquiera con FXLM
\* puede salir (si no, un pago a un no-listado atrapa el XLM)").
NobodyTrapped ==
    \A account \in Account : BalanceOf(account) > 0 =>
        LET leave == [type |-> "withdraw", to |-> account, amount |-> BalanceOf(account)]
            tx == Signed(Unsigned(account, leave, GetNonce(l2, account, Asset)), account, "raw")
        IN  PostTransaction(l2, Txs, TxToJson(tx), FALSE).status = 201

\* The page comes to show the balance of the connected account and the stage
\* of every withdrawal it lists, although refreshes are not cancelled when the
\* account changes, and a poll overwrites the list with an older one.  (It may
\* have lost a withdrawal from the list, Bridge.tsx:158.)
PageSettles ==
    /\ <>[](address # None => flashBalance = BalanceOf(address))
    /\ <>[](\A i \in DOMAIN pending : pending[i].shown = rows[pending[i].id].stage)
=============================================================================
