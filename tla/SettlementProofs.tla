-------------------------- MODULE SettlementProofs --------------------------
(***************************************************************************)
(* Theorems about SettlementEngine: for any number of endpoints, batches   *)
(* and ledgers, whatever is lost, late or sent again, the contract holds   *)
(* the sealed batches in order, and the database says of them what is so.  *)
(*                                                                         *)
(* The argument: the engine tries only the oldest batch not marked, and    *)
(* marks it only when it is in the contract.  So every transaction in      *)
(* flight, however old, is for a batch all of whose predecessors are       *)
(* marked, and the contract is at most one batch ahead of the database.    *)
(***************************************************************************)
EXTENDS SettlementEngine, TreesAndSums

\* A transaction is for a batch of the database whose predecessors are marked.
FromDb(tx) ==
    /\ tx.index \in DOMAIN db
    /\ tx.prevRoot = db[tx.index].prevRoot
    /\ tx.newRoot = db[tx.index].newRoot
    /\ \A j \in 1..(tx.index - 1) : db[j].status # "sealed"

\* The transaction that is polled is for the batch that is settled, and is in
\* the contract if it succeeded.
SentIsOldest ==
    sent # NoTx =>
        /\ FromDb(sent.tx)
        /\ db[sent.tx.index].status = "sealed"
        /\ sent.result = "SUCCESS" =>
              /\ sent.ledger \in Nat
              /\ sent.tx.index \in DOMAIN chain
              /\ chain[sent.tx.index].ledger = sent.ledger

\* All batches of the contract but the last are marked.
OneAhead == \A j \in 1..(Len(chain) - 1) : db[j].status # "sealed"

LedgersInOrder == \A j, k \in DOMAIN chain : j <= k => chain[j].ledger <= chain[k].ledger

\* A phase of the settlement has a batch to settle.
HasWork ==
    /\ pc \in {"send", "poll", "reconcile"} => Sealed # {}
    /\ pc = "send" => serversLeft > 0

\* What holds of the L1 and the database together.
DataInv ==
    /\ L1Types
    /\ DbTypes
    /\ PublishedInOrder
    /\ CommittedIsOnL1
    /\ \A tx \in orphans : FromDb(tx)
    /\ SentIsOldest
    /\ OneAhead
    /\ LedgersInOrder

Inv == DataInv /\ ProcessTypes /\ HasWork

-----------------------------------------------------------------------------
\* OldestSealed is the oldest sealed batch.
LEMMA OldestIsFirst ==
    ASSUME Inv, Sealed # {}
    PROVE  /\ OldestSealed \in Sealed
           /\ OldestSealed \in 1..Len(db)
           /\ \A j \in 1..(OldestSealed - 1) : db[j].status # "sealed"
<1>1. DOMAIN db = 1..Len(db) /\ Len(db) \in Nat
  BY DEF Inv, DataInv, DbTypes
<1>2. Sealed \subseteq Nat /\ Sealed \subseteq 1..Len(db)
  BY <1>1 DEF Sealed
<1>3. \E k \in Sealed : \A j \in Sealed : k <= j
  BY <1>2, Least
<1>4. OldestSealed \in Sealed /\ \A j \in Sealed : OldestSealed <= j
  BY <1>3, Zenon DEF OldestSealed
<1>5. ASSUME NEW j \in 1..(OldestSealed - 1) PROVE db[j].status # "sealed"
  <2>1. j \in DOMAIN db /\ ~(OldestSealed <= j)
    BY <1>1, <1>2, <1>4
  <2> QED BY <2>1, <1>4 DEF Sealed
<1> QED BY <1>2, <1>4, <1>5

\* What the engine sends is for a batch whose predecessors are marked.
LEMMA CommitTxFromDb ==
    ASSUME Inv, Sealed # {}
    PROVE  /\ CommitTx \in CommitTxs
           /\ FromDb(CommitTx)
           /\ CommitTx.index = OldestSealed
           /\ db[OldestSealed].status = "sealed"
<1>1. OldestSealed \in 1..Len(db) /\ OldestSealed \in Sealed
  BY OldestIsFirst
<1>2. OldestSealed \in DOMAIN db /\ OldestSealed \in 1..MaxBatches
  BY <1>1, SettlementConfig DEF Inv, DataInv, DbTypes
<1>3. db[OldestSealed].prevRoot \in BatchRoot /\ db[OldestSealed].newRoot \in BatchRoot
  <2>1. db[OldestSealed] \in BatchRecord
    BY <1>2 DEF Inv, DataInv, DbTypes
  <2> QED BY <2>1 DEF BatchRecord
<1>4. db[OldestSealed].status = "sealed"
  BY <1>1 DEF Sealed
<1>5. CommitTx \in CommitTxs /\ CommitTx.index = OldestSealed
  BY <1>2, <1>3 DEF CommitTx, CommitTxs
<1>6. FromDb(CommitTx)
  BY <1>2, OldestIsFirst DEF CommitTx, FromDb
<1> QED BY <1>4, <1>5, <1>6

\* The parts of a well-typed state that SMT does not see by itself.
LEMMA Facts ==
    ASSUME DataInv
    PROVE  /\ ledger \in Nat
           /\ Len(db) \in Nat /\ DOMAIN db = 1..Len(db)
           /\ Len(chain) \in Nat /\ DOMAIN chain = 1..Len(chain) /\ Len(chain) <= Len(db)
           /\ \A k \in DOMAIN chain : chain[k].ledger \in 0..ledger
           /\ \A k \in DOMAIN db : db[k] \in BatchRecord
<1> USE SettlementConfig DEF DataInv
<1>1. ledger \in Nat
  BY DEF L1Types
<1>2. Len(db) \in Nat /\ DOMAIN db = 1..Len(db)
  BY DEF DbTypes
<1>3. Len(chain) \in Nat /\ DOMAIN chain = 1..Len(chain) /\ Len(chain) <= Len(db)
  BY DEF L1Types, PublishedInOrder
<1>4. \A k \in DOMAIN chain : chain[k].ledger \in 0..ledger
  <2>1. \A k \in DOMAIN chain : chain[k] \in BatchInfo
    BY DEF L1Types
  <2> QED BY <1>1, <2>1 DEF L1Types, BatchInfo
<1>5. \A k \in DOMAIN db : db[k] \in BatchRecord
  BY DEF DbTypes
<1> QED BY <1>1, <1>2, <1>3, <1>4, <1>5

-----------------------------------------------------------------------------
\* Batches stay, with their roots, and what is marked stays marked.
DbGrows ==
    /\ DOMAIN db \subseteq DOMAIN db'
    /\ \A k \in DOMAIN db : /\ db'[k].prevRoot = db[k].prevRoot
                            /\ db'[k].newRoot = db[k].newRoot
                            /\ db[k].status # "sealed" => db'[k].status # "sealed"

\* Then a transaction in flight stays one for a batch whose predecessors are
\* marked.
LEMMA FromDbStays ==
    ASSUME DataInv, DbGrows, NEW tx, FromDb(tx)
    PROVE  FromDb(tx)'
<1>1. \A j \in 1..(tx.index - 1) : j \in DOMAIN db
  BY Facts DEF FromDb
<1> QED BY <1>1 DEF FromDb, DbGrows

\* A step that touches the database only.
LEMMA DbStep ==
    ASSUME DataInv, DbGrows, DbTypes', CommittedIsOnL1', sent' = NoTx,
           UNCHANGED <<ledger, chain>>, orphans' \subseteq CommitTxs,
           \A tx \in orphans' : tx \in orphans \/ FromDb(tx)
    PROVE  DataInv'
<1>1. L1Types'
  BY DEF DataInv, L1Types
<1>2. PublishedInOrder'
  <2>1. Len(db) <= Len(db')
    <3>1. DOMAIN db' = 1..Len(db') /\ Len(db') \in Nat
      BY DEF DbTypes
    <3>2. DOMAIN db = 1..Len(db) /\ Len(db) \in Nat
      BY Facts
    <3> QED BY <3>1, <3>2 DEF DbGrows
  <2>2. \A k \in DOMAIN chain : k \in DOMAIN db
    BY Facts
  <2>3. Len(db') \in Nat
    BY DEF DbTypes
  <2> QED BY <2>1, <2>2, <2>3, Facts DEF PublishedInOrder, DbGrows, DataInv
<1>3. \A tx \in orphans' : FromDb(tx)'
  BY FromDbStays DEF DataInv
<1>4. SentIsOldest'
  BY DEF SentIsOldest
<1>5. OneAhead'
  <2>1. \A j \in 1..(Len(chain) - 1) : j \in DOMAIN db
    BY Facts
  <2> QED BY <2>1 DEF OneAhead, DbGrows, DataInv
<1>6. LedgersInOrder'
  BY DEF LedgersInOrder, DataInv
<1> QED BY <1>1, <1>2, <1>3, <1>4, <1>5, <1>6 DEF DataInv

\* One row of the batches table changes, and stays in the contract if marked.
LEMMA RowChanges ==
    ASSUME DataInv, UNCHANGED chain, NEW k \in DOMAIN db, NEW row \in BatchRecord,
           db' = [db EXCEPT ![k] = row],
           row.prevRoot = db[k].prevRoot, row.newRoot = db[k].newRoot,
           row.status = "sealed" => db[k].status = "sealed",
           row.status = "sealed" <=> row.commitLedger = NoLedger,
           row.status # "sealed" => k \in DOMAIN chain /\ chain[k].ledger = row.commitLedger
    PROVE  DbGrows /\ DbTypes' /\ CommittedIsOnL1'
<1>1. /\ DOMAIN db' = DOMAIN db
      /\ db'[k] = row
      /\ \A j \in DOMAIN db : j # k => db'[j] = db[j]
  BY Facts
<1>2. DbGrows
  BY <1>1 DEF DbGrows
<1>3. DbTypes'
  <2>1. db' \in Seq(BatchRecord) /\ Len(db') = Len(db)
    BY DEF DataInv, DbTypes
  <2>2. \A j \in DOMAIN db' : db'[j].status = "sealed" <=> db'[j].commitLedger = NoLedger
    BY <1>1 DEF DataInv, DbTypes
  <2>3. Len(db') <= MaxBatches
    BY <2>1 DEF DataInv, DbTypes
  <2> QED BY <2>1, <2>2, <2>3 DEF DbTypes
<1>4. CommittedIsOnL1'
  <2> SUFFICES ASSUME NEW j \in DOMAIN db, db'[j].status # "sealed"
               PROVE  /\ j \in DOMAIN chain
                      /\ chain[j].newRoot = db'[j].newRoot
                      /\ chain[j].ledger = db'[j].commitLedger
    BY <1>1 DEF CommittedIsOnL1
  <2>1. CASE j = k
    BY <1>1, <2>1 DEF DataInv, PublishedInOrder
  <2>2. CASE j # k
    BY <1>1, <2>2 DEF DataInv, CommittedIsOnL1
  <2> QED BY <2>1, <2>2
<1> QED BY <1>2, <1>3, <1>4

\* A failed attempt is written down.
LEMMA AttemptMarked ==
    ASSUME Inv, Sealed # {}, MarkAttempt, UNCHANGED chain
    PROVE  DbGrows /\ DbTypes' /\ CommittedIsOnL1' /\ Sealed' # {}
<1> DEFINE k == OldestSealed
           row == [db[k] EXCEPT !.attempted = TRUE]
<1>0. DataInv
  BY DEF Inv
<1>1. k \in DOMAIN db /\ db[k].status = "sealed"
  BY <1>0, OldestIsFirst, Facts DEF Sealed
<1>2. db[k] \in BatchRecord
  BY <1>0, <1>1, Facts
<1>3. /\ row \in BatchRecord
      /\ row.prevRoot = db[k].prevRoot /\ row.newRoot = db[k].newRoot
      /\ row.status = "sealed" /\ row.commitLedger = db[k].commitLedger
  BY <1>1, <1>2 DEF BatchRecord
<1>4. db[k].commitLedger = NoLedger
  BY <1>0, <1>1 DEF DataInv, DbTypes
<1>5. db' = [db EXCEPT ![k] = row]
  BY DEF MarkAttempt
<1> HIDE DEF k, row
<1>6. DbGrows /\ DbTypes' /\ CommittedIsOnL1'
  BY <1>0, <1>1, <1>3, <1>4, <1>5, RowChanges
<1>7. k \in Sealed'
  BY <1>0, <1>1, <1>3, <1>5, Facts DEF Sealed
<1> QED BY <1>6, <1>7

\* A batch that is in the contract is marked, with the ledger it has there.
LEMMA CommitMarked ==
    ASSUME Inv, Sealed # {}, UNCHANGED chain, NEW commitLedger, MarkCommitted(commitLedger),
           OldestSealed \in DOMAIN chain, chain[OldestSealed].ledger = commitLedger
    PROVE  DbGrows /\ DbTypes' /\ CommittedIsOnL1'
<1> DEFINE k == OldestSealed
           row == [db[k] EXCEPT !.status = "committed", !.commitLedger = commitLedger]
<1>0. DataInv
  BY DEF Inv
<1>1. k \in DOMAIN db /\ db[k].status = "sealed"
  BY <1>0, OldestIsFirst, Facts DEF Sealed
<1>2. db[k] \in BatchRecord /\ commitLedger \in Nat
  BY <1>0, <1>1, Facts
<1>3. /\ row \in BatchRecord
      /\ row.prevRoot = db[k].prevRoot /\ row.newRoot = db[k].newRoot
      /\ row.status = "committed" /\ row.commitLedger = commitLedger
  BY <1>1, <1>2 DEF BatchRecord
<1>4. commitLedger # NoLedger
  BY <1>2, SettlementConfig
<1>5. db' = [db EXCEPT ![k] = row]
  BY <1>1 DEF MarkCommitted
<1>6. k \in DOMAIN chain /\ chain[k].ledger = commitLedger
  OBVIOUS
<1> HIDE DEF k, row
<1> QED BY <1>0, <1>1, <1>3, <1>4, <1>5, <1>6, RowChanges

\* A committed batch is marked final.
LEMMA FinalMarked ==
    ASSUME Inv, UNCHANGED chain, NEW k \in DOMAIN db, db[k].status = "committed", MarkFinalized(k)
    PROVE  DbGrows /\ DbTypes' /\ CommittedIsOnL1'
<1> DEFINE row == [db[k] EXCEPT !.status = "finalized"]
<1>0. DataInv
  BY DEF Inv
<1>1. db[k] \in BatchRecord
  BY <1>0, Facts
<1>2. /\ row \in BatchRecord
      /\ row.prevRoot = db[k].prevRoot /\ row.newRoot = db[k].newRoot
      /\ row.status = "finalized" /\ row.commitLedger = db[k].commitLedger
  BY <1>1 DEF BatchRecord
<1>3. /\ db[k].commitLedger # NoLedger
      /\ k \in DOMAIN chain /\ chain[k].ledger = db[k].commitLedger
  BY <1>0 DEF DataInv, DbTypes, CommittedIsOnL1
<1>4. db' = [db EXCEPT ![k] = row]
  BY DEF MarkFinalized
<1> HIDE DEF row
<1> QED BY <1>0, <1>2, <1>3, <1>4, RowChanges

\* A batch is sealed.
LEMMA BatchSealed ==
    ASSUME Inv, UNCHANGED chain, NEW root \in BatchRoot, Seal(root)
    PROVE  DbGrows /\ DbTypes' /\ CommittedIsOnL1'
<1> DEFINE row == [prevRoot |-> RootOf(db), newRoot |-> root, status |-> "sealed",
                   commitLedger |-> NoLedger, attempted |-> FALSE]
<1>0. DataInv
  BY DEF Inv
<1>1. db \in Seq(BatchRecord) /\ Len(db) \in Nat /\ DOMAIN db = 1..Len(db)
  BY <1>0 DEF DataInv, DbTypes
<1>2. RootOf(db) \in BatchRoot
  <2>1. CASE db = <<>>
    BY <2>1, SettlementConfig DEF RootOf
  <2>2. CASE db # <<>>
    <3>1. db[Len(db)] \in BatchRecord
      BY <1>1, <2>2
    <3> QED BY <2>2, <3>1 DEF RootOf, BatchRecord
  <2> QED BY <2>1, <2>2
<1>3. row \in BatchRecord /\ row.status = "sealed" /\ row.commitLedger = NoLedger
  BY <1>2 DEF BatchRecord
<1>4. db' = Append(db, row) /\ Len(db) < MaxBatches
  BY DEF Seal
<1> HIDE DEF row
<1>5. /\ db' \in Seq(BatchRecord)
      /\ Len(db') = Len(db) + 1
      /\ DOMAIN db' = 1..(Len(db) + 1)
      /\ db'[Len(db) + 1] = row
      /\ \A k \in 1..Len(db) : db'[k] = db[k]
  BY <1>1, <1>3, <1>4
<1>6. DbGrows
  BY <1>1, <1>5 DEF DbGrows
<1>7. DbTypes'
  <2>1. \A k \in DOMAIN db' : db'[k].status = "sealed" <=> db'[k].commitLedger = NoLedger
    BY <1>0, <1>1, <1>3, <1>5 DEF DataInv, DbTypes
  <2>2. Len(db') <= MaxBatches
    BY <1>1, <1>4, <1>5, SettlementConfig
  <2> QED BY <1>5, <2>1, <2>2 DEF DbTypes
<1>8. CommittedIsOnL1'
  BY <1>0, <1>1, <1>3, <1>5 DEF DataInv, CommittedIsOnL1
<1> QED BY <1>6, <1>7, <1>8

-----------------------------------------------------------------------------
\* A transaction in flight that the contract accepts adds the next batch of the
\* database, and all before it are marked.
LEMMA Included ==
    ASSUME DataInv, NEW tx \in CommitTxs, FromDb(tx), Accepts(chain, tx), chain' = Recorded(tx),
           UNCHANGED <<ledger, db>>
    PROVE  /\ chain' \in Seq(BatchInfo)
           /\ \A k \in DOMAIN chain' : chain'[k].ledger <= ledger'
           /\ \A k \in DOMAIN chain : k \in DOMAIN chain' /\ chain'[k] = chain[k]
           /\ tx.index \in DOMAIN chain' /\ chain'[tx.index].ledger = ledger
           /\ DbTypes' /\ PublishedInOrder' /\ CommittedIsOnL1' /\ OneAhead' /\ LedgersInOrder'
<1> DEFINE n == Len(chain)
           batch == [prevRoot |-> tx.prevRoot, newRoot |-> tx.newRoot, ledger |-> ledger]
<1>1. chain \in Seq(BatchInfo) /\ n \in Nat /\ DOMAIN chain = 1..n /\ ledger \in Nat
  BY Facts DEF DataInv, L1Types
<1>2. batch \in BatchInfo /\ batch.ledger = ledger
      /\ batch.prevRoot = tx.prevRoot /\ batch.newRoot = tx.newRoot
  BY <1>1 DEF BatchInfo, CommitTxs
<1>3. chain' = Append(chain, batch) /\ tx.index = n + 1
  BY DEF Recorded, Accepts
<1> HIDE DEF batch
<1>4. /\ chain' \in Seq(BatchInfo)
      /\ Len(chain') = n + 1
      /\ DOMAIN chain' = 1..(n + 1)
      /\ chain'[n + 1] = batch
      /\ \A k \in 1..n : chain'[k] = chain[k]
  BY <1>1, <1>2, <1>3
<1> HIDE DEF n
<1>5. \A k \in DOMAIN chain' : chain'[k].ledger <= ledger'
  <2>1. \A k \in 1..n : chain[k].ledger <= ledger
    BY <1>1 DEF DataInv, L1Types
  <2> QED BY <1>1, <1>2, <1>4, <2>1
<1>6. DbTypes'
  BY DEF DataInv, DbTypes
<1>7. PublishedInOrder'
  <2>1. n + 1 <= Len(db)
    BY <1>3, Facts DEF FromDb
  <2>2. \A k \in 1..n : chain[k].prevRoot = db[k].prevRoot /\ chain[k].newRoot = db[k].newRoot
    BY <1>1 DEF DataInv, PublishedInOrder
  <2>3. batch.prevRoot = db[n + 1].prevRoot /\ batch.newRoot = db[n + 1].newRoot
    BY <1>2, <1>3 DEF FromDb
  <2> QED BY <1>1, <1>4, <2>1, <2>2, <2>3 DEF PublishedInOrder
<1>8. CommittedIsOnL1'
  BY <1>1, <1>4 DEF DataInv, CommittedIsOnL1
<1>9. OneAhead'
  <2>1. \A j \in 1..n : db[j].status # "sealed"
    BY <1>1, <1>3 DEF FromDb
  <2> QED BY <1>1, <1>4, <2>1 DEF OneAhead
<1>10. LedgersInOrder'
  <2> SUFFICES ASSUME NEW j \in 1..(n + 1), NEW k \in 1..(n + 1), j <= k
               PROVE  chain'[j].ledger <= chain'[k].ledger
    BY <1>4 DEF LedgersInOrder
  <2>1. CASE k = n + 1
    BY <1>2, <1>4, <1>5, <2>1
  <2>2. CASE k \in 1..n
    <3>1. j \in 1..n
      BY <1>1, <2>2
    <3> QED BY <1>1, <1>4, <2>2, <3>1 DEF DataInv, LedgersInOrder
  <2> QED BY <1>1, <2>1, <2>2
<1> QED BY <1>1, <1>2, <1>3, <1>4, <1>5, <1>6, <1>7, <1>8, <1>9, <1>10

\* A ledger closes.
LEMMA LedgerClosed == ASSUME DataInv, CloseLedger PROVE DataInv'
<1> USE DEF CloseLedger
<1>1. L1Types'
  <2>1. \A k \in DOMAIN chain : chain[k].ledger \in 0..ledger
    BY Facts
  <2>2. ledger' \in 0..MaxLedger /\ ledger \in Nat /\ ledger' = ledger + 1
    BY SettlementConfig, Facts DEF DataInv, L1Types
  <2> QED BY <2>1, <2>2 DEF DataInv, L1Types
<1>2. DbTypes' BY DEF DataInv, DbTypes
<1>3. PublishedInOrder' BY DEF DataInv, PublishedInOrder
<1>4. CommittedIsOnL1' BY DEF DataInv, CommittedIsOnL1
<1>5. \A tx \in orphans' : FromDb(tx)' BY DEF DataInv, FromDb
<1>6. SentIsOldest' BY DEF DataInv, SentIsOldest, FromDb
<1>7. OneAhead' BY DEF DataInv, OneAhead
<1>8. LedgersInOrder' BY DEF DataInv, LedgersInOrder
<1> QED BY <1>1, <1>2, <1>3, <1>4, <1>5, <1>6, <1>7, <1>8 DEF DataInv

\* The transaction the client polls is included, or fails.
LEMMA SentSettled ==
    ASSUME DataInv, IncludeSent \/ LoseSent
    PROVE  DataInv' /\ sent' # NoTx
<1>0. sent # NoTx /\ sent \in SentTx /\ sent.result = "pending"
      /\ FromDb(sent.tx) /\ db[sent.tx.index].status = "sealed"
  BY DEF IncludeSent, LoseSent, DataInv, L1Types, SentIsOldest
<1>1. CASE IncludeSent
  <2> USE DEF IncludeSent
  <2>1. sent' = [sent EXCEPT !.result = "SUCCESS", !.ledger = ledger] /\ ledger \in Nat
    BY <1>1, Facts
  <2>2. sent' \in SentTx /\ sent'.tx = sent.tx /\ sent'.ledger = ledger
    BY <1>0, <2>1 DEF SentTx
  <2>3. sent' # NoTx
    BY <2>2, SettlementConfig
  <2>4. sent.tx \in CommitTxs
    BY <1>0 DEF SentTx
  <2>5. /\ chain' \in Seq(BatchInfo)
        /\ \A k \in DOMAIN chain' : chain'[k].ledger <= ledger'
        /\ sent.tx.index \in DOMAIN chain' /\ chain'[sent.tx.index].ledger = ledger
        /\ DbTypes' /\ PublishedInOrder' /\ CommittedIsOnL1' /\ OneAhead' /\ LedgersInOrder'
    BY <1>0, <1>1, <2>4, Included
  <2>6. L1Types'
    BY <1>1, <2>2, <2>5 DEF DataInv, L1Types
  <2>7. \A tx \in orphans' : FromDb(tx)'
    BY <1>1 DEF DataInv, FromDb
  <2>8. SentIsOldest'
    <3>1. FromDb(sent.tx)'
      BY <1>0, <1>1 DEF FromDb
    <3> QED BY <1>0, <1>1, <2>1, <2>2, <2>5, <3>1 DEF SentIsOldest, FromDb
  <2> QED BY <2>3, <2>5, <2>6, <2>7, <2>8 DEF DataInv
<1>2. CASE LoseSent
  <2> USE DEF LoseSent
  <2>1. sent' = [sent EXCEPT !.result = "lost"]
    BY <1>2
  <2>2. sent' \in SentTx /\ sent'.tx = sent.tx /\ sent'.result = "lost"
    BY <1>0, <2>1 DEF SentTx
  <2>3. sent' # NoTx
    BY <2>2, SettlementConfig
  <2>4. L1Types' BY <1>2, <2>2 DEF DataInv, L1Types
  <2>5. DbTypes' BY <1>2 DEF DataInv, DbTypes
  <2>6. PublishedInOrder' BY <1>2 DEF DataInv, PublishedInOrder
  <2>7. CommittedIsOnL1' BY <1>2 DEF DataInv, CommittedIsOnL1
  <2>8. \A tx \in orphans' : FromDb(tx)' BY <1>2 DEF DataInv, FromDb
  <2>9. SentIsOldest' BY <1>0, <1>2, <2>2 DEF SentIsOldest, FromDb
  <2>10. OneAhead' BY <1>2 DEF DataInv, OneAhead
  <2>11. LedgersInOrder' BY <1>2 DEF DataInv, LedgersInOrder
  <2> QED BY <2>3, <2>4, <2>5, <2>6, <2>7, <2>8, <2>9, <2>10, <2>11 DEF DataInv
<1> QED BY <1>1, <1>2

\* A transaction nobody polls is included late, or expires.
LEMMA OrphanSettled ==
    ASSUME DataInv, NEW tx \in orphans, SettleOrphan(tx)
    PROVE  DataInv'
<1> USE DEF SettleOrphan
<1>0. tx \in CommitTxs /\ FromDb(tx) /\ orphans' \subseteq orphans
  BY DEF DataInv, L1Types
<1>1. \A t \in orphans' : FromDb(t)'
  BY <1>0 DEF DataInv, FromDb
<1>2. CASE Accepts(chain, tx) /\ chain' = Recorded(tx)
  <2>1. /\ chain' \in Seq(BatchInfo)
        /\ \A k \in DOMAIN chain' : chain'[k].ledger <= ledger'
        /\ \A k \in DOMAIN chain : k \in DOMAIN chain' /\ chain'[k] = chain[k]
        /\ DbTypes' /\ PublishedInOrder' /\ CommittedIsOnL1' /\ OneAhead' /\ LedgersInOrder'
    BY <1>0, <1>2, Included
  <2>2. L1Types'
    BY <1>0, <2>1 DEF DataInv, L1Types
  <2>3. SentIsOldest'
    BY <2>1 DEF DataInv, SentIsOldest, FromDb
  <2> QED BY <1>1, <2>1, <2>2, <2>3 DEF DataInv
<1>3. CASE UNCHANGED chain
  <2>1. L1Types' BY <1>0, <1>3 DEF DataInv, L1Types
  <2>2. DbTypes' BY DEF DataInv, DbTypes
  <2>3. PublishedInOrder' BY <1>3 DEF DataInv, PublishedInOrder
  <2>4. CommittedIsOnL1' BY <1>3 DEF DataInv, CommittedIsOnL1
  <2>5. SentIsOldest' BY <1>3 DEF DataInv, SentIsOldest, FromDb
  <2>6. OneAhead' BY <1>3 DEF DataInv, OneAhead
  <2>7. LedgersInOrder' BY <1>3 DEF DataInv, LedgersInOrder
  <2> QED BY <1>1, <2>1, <2>2, <2>3, <2>4, <2>5, <2>6, <2>7 DEF DataInv
<1> QED BY <1>2, <1>3

-----------------------------------------------------------------------------
\* An endpoint that lags knows the first batches of the contract.
LEMMA SeenIsPrefix ==
    ASSUME DataInv, NEW seen \in 0..ledger
    PROVE  \E n \in 0..Len(chain) :
              /\ SeenBy(seen) \in Seq(BatchInfo) /\ Len(SeenBy(seen)) = n
              /\ \A k \in 1..n : SeenBy(seen)[k] = chain[k]
<1> DEFINE known == {j \in DOMAIN chain : chain[j].ledger <= seen}
           beyond == 1..(Len(chain) + 1) \ known
<1>1. /\ chain \in Seq(BatchInfo) /\ Len(chain) \in Nat /\ DOMAIN chain = 1..Len(chain)
      /\ seen \in Nat /\ \A k \in 1..Len(chain) : chain[k].ledger \in Nat
  BY Facts DEF DataInv, L1Types
<1>2. beyond \subseteq Nat /\ Len(chain) + 1 \in beyond
  BY <1>1
<1>3. PICK m \in beyond : \A j \in beyond : m <= j
  BY <1>2, Least
<1>4. m \in 1..(Len(chain) + 1)
  OBVIOUS
<1>5. \A j \in 1..(m - 1) : j \in known
  BY <1>1, <1>3, <1>4
<1>6. \A j \in known : j < m
  <2> SUFFICES ASSUME NEW j \in known, m <= j PROVE FALSE
    BY <1>1, <1>4
  <2>1. m \in 1..Len(chain) /\ ~(chain[m].ledger <= seen)
    BY <1>1, <1>3, <1>4
  <2>2. chain[m].ledger <= chain[j].ledger /\ chain[j].ledger <= seen
    BY <1>1, <2>1 DEF DataInv, LedgersInOrder
  <2> QED BY <1>1, <2>1, <2>2
<1>7. known = 1..(m - 1)
  BY <1>1, <1>4, <1>5, <1>6
<1>8. SeenBy(seen) = [k \in 1..(m - 1) |-> chain[k]]
  BY <1>7 DEF SeenBy
<1> HIDE DEF known, beyond
<1>9. \A k \in 1..(m - 1) : chain[k] \in BatchInfo
  BY <1>1, <1>4
<1>10. m - 1 \in 0..Len(chain)
  BY <1>1, <1>4
<1>11. SeenBy(seen) \in Seq(BatchInfo) /\ Len(SeenBy(seen)) = m - 1
  BY <1>8, <1>9, <1>10
<1>12. \A k \in 1..(m - 1) : SeenBy(seen)[k] = chain[k]
  BY <1>8
<1> QED BY <1>10, <1>11, <1>12

\* What reconcile marks is in the contract, at the ledger it is marked with,
\* because the contract is at most one batch ahead.
LEMMA ReconcileIsRight ==
    ASSUME Inv, Sealed # {}, NEW seen \in 0..ledger, HasBatch(SeenBy(seen))
    PROVE  /\ OldestSealed \in DOMAIN chain
           /\ chain[OldestSealed].ledger = LastCommitLedger(SeenBy(seen))
<1>0. DataInv
  BY DEF Inv
<1>1. PICK n \in 0..Len(chain) :
              /\ SeenBy(seen) \in Seq(BatchInfo) /\ Len(SeenBy(seen)) = n
              /\ \A k \in 1..n : SeenBy(seen)[k] = chain[k]
  BY <1>0, SeenIsPrefix
<1>2. OldestSealed \in 1..Len(db) /\ db[OldestSealed].status = "sealed"
  BY OldestIsFirst DEF Sealed
<1>3. Len(chain) \in Nat /\ DOMAIN chain = 1..Len(chain) /\ Len(db) \in Nat
  BY <1>0, Facts
<1>4. OldestSealed <= n
  BY <1>1 DEF HasBatch
<1>5. OldestSealed >= Len(chain)
  BY <1>0, <1>2, <1>3 DEF DataInv, OneAhead
<1>7. n \in Nat /\ n <= Len(chain)
  BY <1>3
<1>8. OldestSealed \in Nat /\ OldestSealed > 0
  BY <1>2, <1>3
<1>6. OldestSealed = n /\ n = Len(chain) /\ n > 0
  <2>1. n \in Nat
    BY <1>7
  <2>2. Len(chain) \in Nat
    BY <1>3
  <2>3. OldestSealed \in Nat
    BY <1>8
  <2> QED BY <2>1, <2>2, <2>3, <1>4, <1>5, <1>7, <1>8
<1> QED BY <1>1, <1>3, <1>6 DEF LastCommitLedger

\* What the probes of all endpoints say together.
LEMMA ProbeTypes ==
    ASSUME DataInv, NEW probe \in Probes
    PROVE  probe = Unprobed \/ probe \in [status : {"HEALTHY", "DEGRADED", "DOWN"}, latestLedger : 0..ledger]
<1> PICK probes \in [1..Servers -> Answers] : probe = EvaluateHealth(probes)
  BY DEF Probes
<1> DEFINE ok == {e \in DOMAIN probes : probes[e].ok}
           behind == {ledger - probes[e].latestLedger : e \in ok}
           reached == [ok : {TRUE}, latestLedger : 0..ledger, age : {"fresh", "late", "stopped"}, surge : BOOLEAN]
           best == CHOOSE e \in ok : \A f \in ok : probes[f].latestLedger <= probes[e].latestLedger
<1>0. ledger \in Nat
  BY Facts
<1>1. CASE ok = {}
  BY <1>1 DEF EvaluateHealth
<1>2. CASE ok # {}
  <2>1. \A e \in ok : probes[e] \in reached
    <3> SUFFICES ASSUME NEW e \in ok PROVE probes[e] \in reached
      OBVIOUS
    <3>1. probes[e] \in {[ok |-> FALSE]} \cup reached
      BY DEF Answers
    <3>2. probes[e].ok
      OBVIOUS
    <3>3. ASSUME probes[e] = [ok |-> FALSE] PROVE FALSE
      <4>1. probes[e].ok = FALSE
        BY <3>3
      <4> QED BY <3>2, <4>1
    <3> HIDE DEF reached
    <3> QED BY <3>1, <3>3
  <2>2. \A e \in ok : probes[e].latestLedger \in 0..ledger
    BY <2>1
  <2>3. behind \subseteq Nat /\ behind # {}
    BY <1>0, <1>2, <2>2
  <2>4. PICK d \in behind : \A b \in behind : d <= b
    BY <2>3, Least
  <2>5. PICK e \in ok : d = ledger - probes[e].latestLedger
    OBVIOUS
  <2>6. \A f \in ok : probes[f].latestLedger <= probes[e].latestLedger
    <3> SUFFICES ASSUME NEW f \in ok PROVE probes[f].latestLedger <= probes[e].latestLedger
      OBVIOUS
    <3>1. d <= ledger - probes[f].latestLedger
      BY <2>4
    <3> QED BY <1>0, <2>2, <2>5, <3>1
  <2>7. best \in ok
    BY <2>6, Zenon
  <2>8. /\ probes[best].latestLedger \in 0..ledger
        /\ probes[best].age \in {"fresh", "late", "stopped"}
        /\ probes[best].surge \in BOOLEAN
    BY <2>1, <2>7
  <2>9. probe = [status |-> CASE probes[best].age = "stopped" -> "DOWN"
                           [] probes[best].age = "late" -> "DEGRADED"
                           [] probes[best].age = "fresh" -> IF probes[best].surge THEN "DEGRADED" ELSE "HEALTHY",
                 latestLedger |-> probes[best].latestLedger]
    BY <1>2, Zenon DEF EvaluateHealth
  <2> HIDE DEF best
  <2> QED BY <2>8, <2>9
<1> QED BY <1>1, <1>2

-----------------------------------------------------------------------------
\* A step of the process that leaves the L1 and the database alone.
LEMMA DataKept == ASSUME DataInv, UNCHANGED <<l1Vars, db>> PROVE DataInv'
<1> USE DEF l1Vars
<1>1. L1Types' BY DEF DataInv, L1Types
<1>2. DbTypes' BY DEF DataInv, DbTypes
<1>3. PublishedInOrder' BY DEF DataInv, PublishedInOrder
<1>4. CommittedIsOnL1' BY DEF DataInv, CommittedIsOnL1
<1>5. \A tx \in orphans' : FromDb(tx)' BY DEF DataInv, FromDb
<1>6. SentIsOldest' BY DEF DataInv, SentIsOldest, FromDb
<1>7. OneAhead' BY DEF DataInv, OneAhead
<1>8. LedgersInOrder' BY DEF DataInv, LedgersInOrder
<1> QED BY <1>1, <1>2, <1>3, <1>4, <1>5, <1>6, <1>7, <1>8 DEF DataInv

\* A transaction that is no longer polled is one of those in flight.
LEMMA PollingStopped ==
    ASSUME DataInv, StopPolling
    PROVE  /\ sent' = NoTx /\ orphans' \subseteq CommitTxs
           /\ \A tx \in orphans' : tx \in orphans \/ FromDb(tx)
<1>1. sent # NoTx => sent.tx \in CommitTxs /\ FromDb(sent.tx)
  BY DEF DataInv, L1Types, SentTx, SentIsOldest
<1> QED BY <1>1 DEF StopPolling, DataInv, L1Types

\* Steps of the L1.
LEMMA L1StepKeepsInv == ASSUME Inv, L1Step PROVE Inv'
<1>1. DataInv' /\ (sent' # NoTx <=> sent # NoTx)
  <2>1. CASE CloseLedger
    BY <2>1, LedgerClosed DEF Inv, CloseLedger
  <2>2. CASE IncludeSent \/ LoseSent
    BY <2>2, SentSettled DEF Inv, IncludeSent, LoseSent
  <2>3. CASE \E tx \in orphans : SettleOrphan(tx)
    BY <2>3, OrphanSettled DEF Inv, SettleOrphan
  <2> QED BY <2>1, <2>2, <2>3 DEF L1Step
<1>2. UNCHANGED <<db, pc, health, halted, serversLeft>> /\ (ledger' = ledger \/ ledger' = ledger + 1)
  BY DEF L1Step, CloseLedger, IncludeSent, LoseSent, SettleOrphan
<1>3. ledger \in Nat /\ 0..ledger \subseteq 0..ledger'
  BY <1>2, Facts DEF Inv
<1>4. ProcessTypes'
  BY <1>1, <1>2, <1>3 DEF Inv, ProcessTypes, Unprobed
<1>5. HasWork'
  BY <1>2 DEF Inv, HasWork, Sealed
<1> QED BY <1>1, <1>4, <1>5 DEF Inv

\* Steps of the tick, and of starting, that leave the L1 and the database alone.
LEMMA QuietStepKeepsInv ==
    ASSUME Inv,
           \/ pc = "idle" /\ \E probe \in Probes : Tick(probe)
           \/ SettleNothing \/ SettleOldest \/ ReconcileLater \/ TickEnds \/ Start
    PROVE  Inv'
<1>0. UNCHANGED <<l1Vars, db>>
  BY DEF Tick, SettleNothing, SettleOldest, ReconcileLater, TickEnds, Start
<1>1. DataInv'
  BY <1>0, DataKept DEF Inv
<1>2. ProcessTypes' /\ HasWork'
  <2> USE SettlementConfig DEF ProcessTypes, HasWork, Inv
  <2>1. CASE pc = "idle" /\ \E probe \in Probes : Tick(probe)
    <3> PICK probe \in Probes : Tick(probe)
      BY <2>1
    <3>1. health' = Unprobed \/ health' \in [status : {"HEALTHY", "DEGRADED", "DOWN"}, latestLedger : 0..ledger]
      BY ProbeTypes DEF Tick
    <3>2. UNCHANGED <<ledger, sent, serversLeft>> /\ halted' \in BOOLEAN /\ pc' \in {"finalize", "seal"}
      BY DEF Tick, l1Vars
    <3> QED BY <2>1, <3>1, <3>2 DEF Unprobed
  <2>2. CASE SettleNothing
    BY <2>2 DEF SettleNothing, Sealed, l1Vars
  <2>3. CASE SettleOldest
    BY <2>3 DEF SettleOldest, Sealed, l1Vars
  <2>4. CASE ReconcileLater
    BY <2>4 DEF ReconcileLater, Sealed, l1Vars
  <2>5. CASE TickEnds
    BY <2>5 DEF TickEnds, Sealed, l1Vars
  <2>6. CASE Start
    BY <2>6 DEF Start, Sealed, l1Vars
  <2> QED BY <2>1, <2>2, <2>3, <2>4, <2>5, <2>6
<1> QED BY <1>1, <1>2 DEF Inv

\* A batch is sealed.
LEMMA SealKeepsInv == ASSUME Inv, NEW root \in BatchRoot, Seal(root) PROVE Inv'
<1>1. UNCHANGED <<l1Vars, pc, health, halted, serversLeft>> /\ pc = "seal" /\ sent = NoTx
  BY DEF Seal, Inv, ProcessTypes
<1>2. DbGrows /\ DbTypes' /\ CommittedIsOnL1'
  BY <1>1, BatchSealed DEF l1Vars
<1>3. DataInv'
  BY <1>1, <1>2, DbStep DEF Inv, DataInv, L1Types, l1Vars
<1>4. ProcessTypes'
  BY <1>1 DEF Inv, ProcessTypes, l1Vars
<1>5. HasWork'
  BY <1>1 DEF HasWork
<1> QED BY <1>3, <1>4, <1>5 DEF Inv

\* The commit of the oldest sealed batch is sent.
LEMMA SendKeepsInv == ASSUME Inv, NEW seen \in 0..ledger, Send(seen) PROVE Inv'
<1>1. /\ UNCHANGED <<ledger, chain, orphans, db, health, halted, serversLeft>>
      /\ sent' = [tx |-> CommitTx, result |-> "pending", ledger |-> NoLedger]
      /\ pc' = "poll" /\ pc = "send" /\ Sealed # {}
  BY DEF Send, Inv, HasWork
<1>2. /\ CommitTx \in CommitTxs /\ FromDb(CommitTx)
      /\ CommitTx.index = OldestSealed /\ db[OldestSealed].status = "sealed"
  BY <1>1, CommitTxFromDb
<1>3. sent' \in SentTx /\ sent'.tx = CommitTx /\ sent'.result = "pending"
  BY <1>1, <1>2 DEF SentTx
<1>4. sent' # NoTx
  BY <1>3, SettlementConfig
<1>5. DataInv'
  <2>1. L1Types' BY <1>1, <1>3 DEF Inv, DataInv, L1Types
  <2>2. DbTypes' BY <1>1 DEF Inv, DataInv, DbTypes
  <2>3. PublishedInOrder' BY <1>1 DEF Inv, DataInv, PublishedInOrder
  <2>4. CommittedIsOnL1' BY <1>1 DEF Inv, DataInv, CommittedIsOnL1
  <2>5. \A tx \in orphans' : FromDb(tx)' BY <1>1 DEF Inv, DataInv, FromDb
  <2>6. SentIsOldest'
    <3>1. /\ sent'.tx.index \in DOMAIN db /\ db[sent'.tx.index].status = "sealed"
          /\ sent'.tx.prevRoot = db[sent'.tx.index].prevRoot
          /\ sent'.tx.newRoot = db[sent'.tx.index].newRoot
          /\ \A j \in 1..(sent'.tx.index - 1) : db[j].status # "sealed"
      BY <1>2, <1>3 DEF FromDb
    <3> QED BY <1>1, <1>3, <3>1 DEF SentIsOldest, FromDb
  <2>7. OneAhead' BY <1>1 DEF Inv, DataInv, OneAhead
  <2>8. LedgersInOrder' BY <1>1 DEF Inv, DataInv, LedgersInOrder
  <2> QED BY <2>1, <2>2, <2>3, <2>4, <2>5, <2>6, <2>7, <2>8 DEF DataInv
<1>6. ProcessTypes'
  BY <1>1, <1>4 DEF Inv, ProcessTypes
<1>7. HasWork'
  BY <1>1 DEF HasWork, Sealed
<1> QED BY <1>5, <1>6, <1>7 DEF Inv

\* An attempt fails, before the transaction was sent, after it, or while it is
\* polled.
LEMMA FailureKeepsInv ==
    ASSUME Inv,
           \/ \E seen \in 0..ledger : SimulationFails(seen)
           \/ SendRefused \/ CommitFails
           \/ \E delivered \in BOOLEAN : EndpointFails(delivered)
    PROVE  Inv'
<1>0. /\ UNCHANGED <<ledger, chain, health, halted>> /\ pc \in {"send", "poll"}
      /\ Sealed # {}
  BY DEF SimulationFails, SendRefused, CommitFails, EndpointFails, l1Vars, Inv, HasWork
<1>1. DbGrows /\ DbTypes' /\ CommittedIsOnL1' /\ Sealed' # {}
  <2>1. CASE MarkAttempt
    BY <1>0, <2>1, AttemptMarked
  <2>2. CASE UNCHANGED db
    BY <1>0, <2>2 DEF DbGrows, Inv, DataInv, DbTypes, CommittedIsOnL1, Sealed
  <2> QED BY <2>1, <2>2 DEF SimulationFails, SendRefused, CommitFails, EndpointFails
<1>2. /\ sent' = NoTx /\ orphans' \subseteq CommitTxs
      /\ \A tx \in orphans' : tx \in orphans \/ FromDb(tx)
  <2>1. CASE CommitFails
    BY <2>1, PollingStopped DEF CommitFails, Inv
  <2>2. CASE SendRefused \/ \E seen \in 0..ledger : SimulationFails(seen)
    BY <2>2 DEF SendRefused, SimulationFails, l1Vars, Inv, DataInv, L1Types, ProcessTypes
  <2>3. CASE \E delivered \in BOOLEAN : EndpointFails(delivered)
    <3>1. CommitTx \in CommitTxs /\ FromDb(CommitTx)
      BY <1>0, CommitTxFromDb
    <3> QED BY <2>3, <3>1 DEF EndpointFails, Inv, DataInv, L1Types, ProcessTypes
  <2> QED BY <2>1, <2>2, <2>3
<1>3. DataInv'
  BY <1>0, <1>1, <1>2, DbStep DEF Inv
<1>4. /\ pc' \in {"send", "reconcile", "finalize"} /\ serversLeft' \in 0..Servers
      /\ pc' = "send" => serversLeft' > 0
  <2>1. serversLeft \in 0..Servers /\ (pc = "send" => serversLeft > 0) /\ Servers \in Nat
    BY SettlementConfig DEF Inv, ProcessTypes, HasWork
  <2>2. CASE CommitFails
    BY <2>1, <2>2 DEF CommitFails
  <2>3. CASE SendRefused \/ \E seen \in 0..ledger : SimulationFails(seen)
    BY <2>1, <2>3 DEF SendRefused, SimulationFails
  <2>4. CASE \E delivered \in BOOLEAN : EndpointFails(delivered)
    BY <2>1, <2>4 DEF EndpointFails
  <2> QED BY <2>2, <2>3, <2>4
<1>5. ProcessTypes'
  BY <1>0, <1>2, <1>4 DEF Inv, ProcessTypes
<1>6. HasWork'
  BY <1>1, <1>4 DEF HasWork
<1> QED BY <1>3, <1>5, <1>6 DEF Inv

\* The batch is marked committed: its commit was seen, or reconcile found it.
LEMMA MarkingKeepsInv ==
    ASSUME Inv, Confirm \/ \E seen \in 0..ledger : Reconcile(seen)
    PROVE  Inv'
<1>0. /\ UNCHANGED <<ledger, chain, health, halted, serversLeft>> /\ pc \in {"poll", "reconcile"}
      /\ Sealed # {} /\ pc' = "finalize"
  BY DEF Confirm, Reconcile, l1Vars, Inv, HasWork
<1>1. DbGrows /\ DbTypes' /\ CommittedIsOnL1'
  <2>1. CASE Confirm
    <3>1. /\ sent.tx.index \in DOMAIN db /\ db[sent.tx.index].status = "sealed"
          /\ \A j \in 1..(sent.tx.index - 1) : db[j].status # "sealed"
          /\ sent.tx.index \in DOMAIN chain /\ chain[sent.tx.index].ledger = sent.ledger
      BY <2>1 DEF Confirm, Inv, DataInv, ProcessTypes, SentIsOldest, FromDb
    <3>2. /\ OldestSealed \in 1..Len(db) /\ db[OldestSealed].status = "sealed"
          /\ \A j \in 1..(OldestSealed - 1) : db[j].status # "sealed"
      BY <1>0, OldestIsFirst DEF Sealed
    <3>3. sent.tx.index = OldestSealed
      <4>1. sent.tx.index \in 1..Len(db) /\ Len(db) \in Nat
        BY <3>1, Facts DEF Inv
      <4>2. ~(sent.tx.index < OldestSealed) /\ ~(OldestSealed < sent.tx.index)
        BY <3>1, <3>2, <4>1
      <4> QED BY <3>2, <4>1, <4>2
    <3>4. MarkCommitted(sent.ledger)
      BY <2>1 DEF Confirm
    <3> QED BY <1>0, <3>1, <3>3, <3>4, CommitMarked
  <2>2. CASE \E seen \in 0..ledger : Reconcile(seen)
    <3> PICK seen \in 0..ledger : Reconcile(seen)
      BY <2>2
    <3>1. HasBatch(SeenBy(seen)) /\ MarkCommitted(LastCommitLedger(SeenBy(seen)))
      BY DEF Reconcile
    <3>2. /\ OldestSealed \in DOMAIN chain
          /\ chain[OldestSealed].ledger = LastCommitLedger(SeenBy(seen))
      BY <1>0, <3>1, ReconcileIsRight
    <3> QED BY <1>0, <3>1, <3>2, CommitMarked
  <2> QED BY <2>1, <2>2
<1>2. /\ sent' = NoTx /\ orphans' \subseteq CommitTxs
      /\ \A tx \in orphans' : tx \in orphans \/ FromDb(tx)
  <2>1. CASE Confirm
    BY <2>1, PollingStopped DEF Confirm, Inv
  <2>2. CASE \E seen \in 0..ledger : Reconcile(seen)
    BY <2>2 DEF Reconcile, l1Vars, Inv, DataInv, L1Types, ProcessTypes
  <2> QED BY <2>1, <2>2
<1>3. DataInv'
  BY <1>0, <1>1, <1>2, DbStep DEF Inv
<1>4. ProcessTypes' /\ HasWork'
  BY <1>0, <1>2 DEF Inv, ProcessTypes, HasWork
<1> QED BY <1>3, <1>4 DEF Inv

\* A batch is marked final.
LEMMA FinalizeKeepsInv == ASSUME Inv, NEW k \in DOMAIN db, Finalize(k) PROVE Inv'
<1>1. /\ UNCHANGED <<l1Vars, pc, health, halted, serversLeft>> /\ pc = "finalize" /\ sent = NoTx
      /\ db[k].status = "committed" /\ MarkFinalized(k)
  BY DEF Finalize, Finalizable, Inv, ProcessTypes
<1>2. DbGrows /\ DbTypes' /\ CommittedIsOnL1'
  BY <1>1, FinalMarked DEF l1Vars
<1>3. DataInv'
  BY <1>1, <1>2, DbStep DEF Inv, DataInv, L1Types, l1Vars
<1>4. ProcessTypes' /\ HasWork'
  BY <1>1 DEF Inv, ProcessTypes, HasWork, l1Vars
<1> QED BY <1>3, <1>4 DEF Inv

\* The process dies.
LEMMA CrashKeepsInv == ASSUME Inv, Crash PROVE Inv'
<1>1. /\ UNCHANGED <<ledger, chain, db, serversLeft>> /\ pc' = "down"
      /\ halted' = FALSE /\ health' = Unprobed
  BY DEF Crash
<1>2. /\ sent' = NoTx /\ orphans' \subseteq CommitTxs
      /\ \A tx \in orphans' : tx \in orphans \/ FromDb(tx)
  BY PollingStopped DEF Crash, Inv
<1>3. DbGrows /\ DbTypes' /\ CommittedIsOnL1'
  BY <1>1 DEF DbGrows, Inv, DataInv, DbTypes, CommittedIsOnL1
<1>4. DataInv'
  BY <1>1, <1>2, <1>3, DbStep DEF Inv
<1>5. ProcessTypes' /\ HasWork'
  BY <1>1, <1>2 DEF Inv, ProcessTypes, HasWork, Unprobed
<1> QED BY <1>4, <1>5 DEF Inv

-----------------------------------------------------------------------------
\* The invariant holds at the start, ...
LEMMA InitInv == Init => Inv
<1> SUFFICES ASSUME Init PROVE Inv
  OBVIOUS
<1> USE SettlementConfig DEF Init
<1>1. L1Types BY DEF L1Types
<1>2. DbTypes BY DEF DbTypes
<1>3. PublishedInOrder BY DEF PublishedInOrder
<1>4. CommittedIsOnL1 BY DEF CommittedIsOnL1
<1>5. (\A tx \in orphans : FromDb(tx)) /\ SentIsOldest BY DEF SentIsOldest
<1>6. OneAhead /\ LedgersInOrder
  <2>1. DOMAIN chain = {} /\ Len(chain) = 0
    OBVIOUS
  <2>2. \A k \in 1..(Len(chain) - 1) : FALSE
    BY <2>1
  <2>3. OneAhead
    BY <2>2 DEF OneAhead
  <2>4. LedgersInOrder
    BY <2>1 DEF LedgersInOrder
  <2> QED BY <2>3, <2>4
<1>7. ProcessTypes
  <2>1. Servers \in 0..Servers
    OBVIOUS
  <2> QED BY ONLY <2>1, Init DEF Init, ProcessTypes
<1>8. HasWork BY DEF HasWork
<1> QED BY <1>1, <1>2, <1>3, <1>4, <1>5, <1>6, <1>7, <1>8 DEF Inv, DataInv

\* ... and every step keeps it.
LEMMA StepKeepsInv == Inv /\ [Next]_vars => Inv'
<1> SUFFICES ASSUME Inv, [Next]_vars PROVE Inv'
  OBVIOUS
<1>1. CASE L1Step
  BY <1>1, L1StepKeepsInv
<1>2. CASE TickStep
  BY <1>2, QuietStepKeepsInv, SealKeepsInv, SendKeepsInv, FailureKeepsInv, MarkingKeepsInv,
     FinalizeKeepsInv DEF TickStep
<1>3. CASE Crash
  BY <1>3, CrashKeepsInv
<1>4. CASE Start
  BY <1>4, QuietStepKeepsInv
<1>5. CASE UNCHANGED vars
  <2>1. DataInv'
    BY <1>5, DataKept DEF vars, Inv
  <2>2. ProcessTypes' /\ HasWork'
    BY <1>5 DEF vars, l1Vars, Inv, ProcessTypes, HasWork, Sealed
  <2> QED BY <2>1, <2>2 DEF Inv
<1> QED BY <1>1, <1>2, <1>3, <1>4, <1>5 DEF Next

\* In every reachable state all of the invariant holds.
LEMMA Invariance == Spec => []Inv
<1> QED BY InitInv, StepKeepsInv, PTL DEF Spec

\* L1, database and process keep their types.
THEOREM EngineTypes == Spec => []TypeOK
<1>1. Inv => TypeOK
  BY DEF Inv, DataInv, TypeOK
<1> QED BY <1>1, Invariance, PTL

\* The contract holds the sealed batches in order, each once: no resubmission
\* after a timeout, lost answer, failover or crash breaks the chain.
THEOREM PublishedOnceInOrder == Spec => []PublishedInOrder
<1>1. Inv => PublishedInOrder
  BY DEF Inv, DataInv
<1> QED BY <1>1, Invariance, PTL

\* What the database calls committed is in the contract, with that root and that
\* ledger, although reconcile compares neither.
THEOREM CommittedMeansOnL1 == Spec => []CommittedIsOnL1
<1>1. Inv => CommittedIsOnL1
  BY DEF Inv, DataInv
<1> QED BY <1>1, Invariance, PTL

\* Ledgers only close, and the contract only appends.
LEMMA L1OnlyGrows ==
    ASSUME Inv, [Next]_vars
    PROVE  /\ ledger \in Nat /\ ledger' \in Nat /\ ledger' >= ledger
           /\ \A j \in DOMAIN chain : j \in DOMAIN chain' /\ chain'[j] = chain[j]
<1>1. ledger \in Nat /\ MaxLedger \in Nat /\ chain \in Seq(BatchInfo)
  BY SettlementConfig DEF Inv, DataInv, L1Types
<1>2. ASSUME NEW tx, chain' = Recorded(tx)
      PROVE  \A j \in DOMAIN chain : j \in DOMAIN chain' /\ chain'[j] = chain[j]
  BY <1>1, <1>2 DEF Recorded
<1>3. CASE L1Step
  <2>1. ledger' = ledger \/ ledger' = ledger + 1
    BY <1>3 DEF L1Step, CloseLedger, IncludeSent, LoseSent, SettleOrphan
  <2>2. chain' = chain \/ \E tx : chain' = Recorded(tx)
    BY <1>3 DEF L1Step, CloseLedger, IncludeSent, LoseSent, SettleOrphan
  <2> QED BY <1>1, <1>2, <2>1, <2>2
<1>4. CASE TickStep \/ Crash \/ Start \/ UNCHANGED vars
  <2>1. ledger' = ledger /\ chain' = chain
    BY <1>4 DEF TickStep, Tick, Seal, SettleNothing, SettleOldest, Send, SimulationFails, Reconcile,
       EndpointFails, SendRefused, Confirm, CommitFails, ReconcileLater, Finalize, TickEnds, Crash,
       Start, vars, l1Vars
  <2> QED BY <1>1, <2>1
<1> QED BY <1>3, <1>4 DEF Next

\* Only Finalize marks a batch final.
LEMMA OnlyFinalizeFinalizes ==
    ASSUME Inv, [Next]_vars, NEW k \in DOMAIN db', db'[k].status = "finalized"
    PROVE  \/ k \in DOMAIN db /\ db[k].status = "finalized"
           \/ k \in DOMAIN db /\ Finalize(k)
<1>1. db \in Seq(BatchRecord)
  BY DEF Inv, DataInv, DbTypes
<1>2. CASE UNCHANGED db
  BY <1>2
<1>3. CASE MarkAttempt
  <2>1. k \in DOMAIN db /\ db[k] \in BatchRecord
    BY <1>1, <1>3 DEF MarkAttempt
  <2>2. db'[k].status = db[k].status
    BY <1>3, <2>1 DEF MarkAttempt, BatchRecord
  <2> QED BY <2>1, <2>2
<1>4. CASE \E commitLedger : MarkCommitted(commitLedger)
  <2> PICK commitLedger : MarkCommitted(commitLedger)
    BY <1>4
  <2>1. k \in DOMAIN db /\ db[k] \in BatchRecord
    BY <1>1 DEF MarkCommitted
  <2>2. k # OldestSealed
    BY <2>1 DEF MarkCommitted, BatchRecord
  <2>3. db'[k] = db[k]
    BY <2>1, <2>2 DEF MarkCommitted
  <2> QED BY <2>1, <2>3
<1>5. CASE \E root \in BatchRoot : Seal(root)
  <2> PICK root \in BatchRoot : Seal(root)
    BY <1>5
  <2> DEFINE row == [prevRoot |-> RootOf(db), newRoot |-> root, status |-> "sealed",
                     commitLedger |-> NoLedger, attempted |-> FALSE]
  <2>1. db' = Append(db, row) /\ row.status = "sealed"
    BY DEF Seal
  <2> HIDE DEF row
  <2>2. k \in 1..(Len(db) + 1)
    BY <1>1, <2>1
  <2>3. k # Len(db) + 1
    BY <1>1, <2>1
  <2> QED BY <1>1, <2>1, <2>2, <2>3
<1>6. CASE \E j \in DOMAIN db : Finalize(j)
  <2> PICK j \in DOMAIN db : Finalize(j)
    BY <1>6
  <2>1. k \in DOMAIN db
    BY <1>1 DEF Finalize, MarkFinalized
  <2>2. CASE k # j
    BY <1>1, <2>1, <2>2 DEF Finalize, MarkFinalized
  <2>3. CASE k = j
    BY <2>1, <2>3
  <2> QED BY <2>2, <2>3
<1>7. \/ UNCHANGED db \/ MarkAttempt \/ \E commitLedger : MarkCommitted(commitLedger)
      \/ \E root \in BatchRoot : Seal(root)
      \/ \E j \in DOMAIN db : Finalize(j)
  <2>1. CASE L1Step \/ Crash \/ Start \/ UNCHANGED vars
    BY <2>1 DEF L1Step, CloseLedger, IncludeSent, LoseSent, SettleOrphan, Crash, Start, vars
  <2>2. CASE TickStep
    BY <2>2 DEF TickStep, Tick, SettleNothing, SettleOldest, Send, SimulationFails, Reconcile,
       EndpointFails, SendRefused, Confirm, CommitFails, ReconcileLater, TickEnds, l1Vars
  <2> QED BY <2>1, <2>2 DEF Next
<1> QED BY <1>2, <1>3, <1>4, <1>5, <1>6, <1>7

\* Every step keeps what is marked final final, if the process waits at least
\* as long as the contract.
LEMMA FinalStep ==
    ASSUME ConfiguredChallenge >= ChallengePeriod, Inv, Inv', FinalizedIsFinal, [Next]_vars
    PROVE  FinalizedIsFinal'
<1> SUFFICES ASSUME NEW k \in DOMAIN db', db'[k].status = "finalized"
             PROVE  k \in DOMAIN chain' /\ ledger' >= chain'[k].ledger + ChallengePeriod
  BY DEF FinalizedIsFinal
<1>1. ChallengePeriod \in Nat /\ ConfiguredChallenge \in Nat /\ NoLedger \notin Nat
  BY SettlementConfig
<1>2. k \in DOMAIN db /\ db[k].status # "sealed"
  BY OnlyFinalizeFinalizes DEF Finalize, Finalizable
<1>3. k \in DOMAIN chain /\ chain[k].ledger = db[k].commitLedger /\ chain[k].ledger \in Nat
  <2>1. k \in DOMAIN chain /\ chain[k].ledger = db[k].commitLedger
    BY <1>2 DEF Inv, DataInv, CommittedIsOnL1
  <2>2. chain \in Seq(BatchInfo)
    BY DEF Inv, DataInv, L1Types
  <2>3. chain[k] \in BatchInfo
    BY <2>1, <2>2
  <2> QED BY <2>1, <2>3 DEF BatchInfo
<1>4. ledger >= chain[k].ledger + ChallengePeriod
  <2>1. CASE db[k].status = "finalized"
    BY <1>2, <2>1 DEF FinalizedIsFinal
  <2>2. CASE Finalize(k)
    <3>1. health.latestLedger \in Nat /\ health.latestLedger <= ledger
      BY <1>1, <2>2, L1OnlyGrows DEF Finalize, Finalizable, Inv, ProcessTypes, Unprobed
    <3>2. health.latestLedger >= chain[k].ledger + ConfiguredChallenge
      BY <1>3, <2>2 DEF Finalize, Finalizable, PastChallenge
    <3> QED BY <1>1, <1>3, <3>1, <3>2, L1OnlyGrows
  <2> QED BY <2>1, <2>2, OnlyFinalizeFinalizes
<1>5. k \in DOMAIN chain' /\ chain'[k] = chain[k] /\ ledger' \in Nat /\ ledger' >= ledger
  BY <1>3, L1OnlyGrows
<1> QED BY <1>1, <1>3, <1>4, <1>5, L1OnlyGrows

\* If the process waits at least as long as the contract, what it marks final is
\* final for the contract, however stale the probe it decided from.
THEOREM FinalMeansFinal ==
    ASSUME ConfiguredChallenge >= ChallengePeriod PROVE Spec => []FinalizedIsFinal
<1>1. Init => FinalizedIsFinal
  BY DEF Init, FinalizedIsFinal
<1>2. Inv /\ Inv' /\ FinalizedIsFinal /\ [Next]_vars => FinalizedIsFinal'
  BY FinalStep
<1> QED BY <1>1, <1>2, Invariance, PTL DEF Spec
=============================================================================
