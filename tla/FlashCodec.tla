----------------------------- MODULE FlashCodec -----------------------------
(***************************************************************************)
(* protocol/src/tx.ts and bytes.ts: what a user signs, what identifies a   *)
(* transaction, and the data of a batch that is published and read back.   *)
(*                                                                         *)
(* A byte string is the sequence of the fields that were concatenated,     *)
(* each of a kind with a width; it is read field by field, and reading a   *)
(* field of another kind fails, as the discriminants and lengths of the    *)
(* code make it fail.  A transaction is the record of FlashState, with a   *)
(* field `signature`; `to` is l1Recipient of a withdraw.  SHA-256 and      *)
(* ed25519 are symbolic: a signature is the key and the message signed.    *)
(***************************************************************************)
EXTENDS Integers, SequencesExt

CONSTANTS Domain  \* domainSeparator of the network and the bridge

Tag == [transfer |-> 16, withdraw |-> 17, deposit |-> 18]

Width == [tag |-> 1, address |-> 44, i128 |-> 16, u64 |-> 8, hash |-> 32,
          signature |-> 64, u32 |-> 4, u16 |-> 2]

Field(kind, value) == [kind |-> kind, value |-> value]

ByteLength(bytes) == FoldLeft(LAMBDA n, f : n + Width[f.kind], 0, bytes)

\* txBody
TxBody(tx) ==
    IF tx.type = "deposit"
    THEN <<Field("tag", Tag.deposit), Field("u64", tx.depositIndex), Field("address", tx.to),
           Field("address", tx.token), Field("i128", tx.amount), Field("hash", tx.l1TxHash)>>
    ELSE <<Field("tag", Tag[tx.type]), Field("address", tx.from), Field("address", tx.to),
           Field("address", tx.token), Field("i128", tx.amount), Field("u64", tx.nonce)>>

\* signingMessage: domain || body
SigningMessage(tx) == <<Field("hash", Domain)>> \o TxBody(tx)

\* A key signs the bytes, or their hex or Base64 as text.
Signature(key, form, tx) == [key |-> key, form |-> form, message |-> SigningMessage(tx)]

\* Mutant: any key may sign.
VerifyAnyKey(tx) == tx.signature.message = SigningMessage(tx)

VerifyTxSignature(tx) ==
    \E form \in {"raw", "hex", "base64"} : tx.signature = Signature(tx.from, form, tx)

\* encodeTx
EncodeTx(tx) ==
    IF tx.type = "deposit" THEN TxBody(tx) ELSE Append(TxBody(tx), Field("signature", tx.signature))

\* txId
TxId(tx) == <<Domain, EncodeTx(tx)>>

\* encodeBatchData: u32 count || repeat(u16 len || tx_bytes)
EncodeBatchData(txs) ==
    LET data[i \in 0..Len(txs)] ==
            IF i = 0 THEN <<Field("u32", Len(txs))>>
            ELSE Append(data[i - 1], Field("u16", ByteLength(EncodeTx(txs[i])))) \o EncodeTx(txs[i])
    IN  data[Len(txs)]

\* The fields from `at` on have these kinds.
Reads(bytes, at, kinds) ==
    /\ at + Len(kinds) - 1 <= Len(bytes)
    /\ \A i \in DOMAIN kinds : bytes[at + i - 1].kind = kinds[i]

\* Mutant: token and recipient are read in the wrong order.
UserTxSwapped(bytes, at, type) ==
    [type |-> type, from |-> bytes[at + 1].value, to |-> bytes[at + 3].value,
     token |-> bytes[at + 2].value, amount |-> bytes[at + 4].value,
     nonce |-> bytes[at + 5].value, signature |-> bytes[at + 6].value]

UserTx(bytes, at, type) ==
    [type |-> type, from |-> bytes[at + 1].value, to |-> bytes[at + 2].value,
     token |-> bytes[at + 3].value, amount |-> bytes[at + 4].value,
     nonce |-> bytes[at + 5].value, signature |-> bytes[at + 6].value]

DepositTx(bytes, at) ==
    [type |-> "deposit", depositIndex |-> bytes[at + 1].value, to |-> bytes[at + 2].value,
     token |-> bytes[at + 3].value, amount |-> bytes[at + 4].value, l1TxHash |-> bytes[at + 5].value]

BadTx == [ok |-> FALSE]

\* decodeTx: the transaction whose tag is at `at`, and where it ends.
DecodeTx(bytes, at) ==
    IF \/ ~Reads(bytes, at, <<"tag">>)
       \/ bytes[at].value \notin {Tag.transfer, Tag.withdraw, Tag.deposit}
    THEN BadTx
    ELSE IF bytes[at].value = Tag.deposit
    THEN IF Reads(bytes, at + 1, <<"u64", "address", "address", "i128", "hash">>)
         THEN [ok |-> TRUE, tx |-> DepositTx(bytes, at), next |-> at + 6] ELSE BadTx
    ELSE IF Reads(bytes, at + 1, <<"address", "address", "address", "i128", "u64", "signature">>)
         THEN [ok |-> TRUE, next |-> at + 7,
               tx |-> UserTx(bytes, at, IF bytes[at].value = Tag.transfer THEN "transfer" ELSE "withdraw")]
         ELSE BadTx

\* decodeBatchData: it throws when a length is wrong or bytes are left.
DecodeBatchData(bytes) ==
    LET count == bytes[1].value
        r[i \in 0..count] ==
            IF i = 0 THEN [ok |-> TRUE, txs |-> <<>>, next |-> 2]
            ELSE LET at  == r[i - 1].next
                     one == DecodeTx(bytes, at + 1)
                 IN  IF /\ r[i - 1].ok
                        /\ Reads(bytes, at, <<"u16">>)
                        /\ one.ok
                        /\ ByteLength(SubSeq(bytes, at + 1, one.next - 1)) = bytes[at].value
                     THEN [ok |-> TRUE, txs |-> Append(r[i - 1].txs, one.tx), next |-> one.next]
                     ELSE [r[i - 1] EXCEPT !.ok = FALSE]
    IN  [ok |-> r[count].ok /\ r[count].next = Len(bytes) + 1, txs |-> r[count].txs]

-----------------------------------------------------------------------------
(* JSON of the API: numbers as decimal text, bytes as hex. *)

Text(value) == [text |-> value]

\* txToJson: the recipient of a withdraw is named l1Recipient.
TxToJson(tx) ==
    CASE tx.type = "transfer" ->
            [type |-> tx.type, from |-> tx.from, to |-> tx.to, token |-> tx.token,
             amount |-> Text(tx.amount), nonce |-> Text(tx.nonce), signature |-> Text(tx.signature)]
      [] tx.type = "withdraw" ->
            [type |-> tx.type, from |-> tx.from, l1Recipient |-> tx.to, token |-> tx.token,
             amount |-> Text(tx.amount), nonce |-> Text(tx.nonce), signature |-> Text(tx.signature)]
      [] tx.type = "deposit" ->
            [type |-> tx.type, to |-> tx.to, token |-> tx.token, amount |-> Text(tx.amount),
             depositIndex |-> Text(tx.depositIndex), l1TxHash |-> tx.l1TxHash]

JsonFields ==
    [transfer |-> {"from", "to", "token", "amount", "nonce", "signature"},
     withdraw |-> {"from", "l1Recipient", "token", "amount", "nonce", "signature"},
     deposit  |-> {"to", "token", "amount", "depositIndex", "l1TxHash"}]

\* txFromJson: it throws when the type is unknown or a field is missing.
TxFromJson(json) ==
    IF json.type \notin DOMAIN JsonFields \/ ~(JsonFields[json.type] \subseteq DOMAIN json)
    THEN BadTx
    ELSE [ok |-> TRUE, tx |->
            IF json.type = "deposit"
            THEN [type |-> json.type, to |-> json.to, token |-> json.token, amount |-> json.amount.text,
                  depositIndex |-> json.depositIndex.text, l1TxHash |-> json.l1TxHash]
            ELSE [type |-> json.type, from |-> json.from, token |-> json.token,
                  to |-> IF json.type = "withdraw" THEN json.l1Recipient ELSE json.to,
                  amount |-> json.amount.text, nonce |-> json.nonce.text,
                  signature |-> json.signature.text]]
=============================================================================
