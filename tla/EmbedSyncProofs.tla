--------------------------- MODULE EmbedSyncProofs ---------------------------
(***************************************************************************)
(* Proofs about EmbedSync, for any number of processes, rows, tables,      *)
(* edits and failures: a stored vector is of the content its hash names,   *)
(* and two synchronisations overlap only after a lock's connection died.   *)
(***************************************************************************)
EXTENDS EmbedSync, TLAPS

\* The part of the type the proofs rest on.
DataTypeOK ==
    /\ content \in [Rows -> Contents \cup {NoText}]
    /\ todo \in [Procs -> SUBSET Rows]
    /\ batch \in [Procs -> SUBSET Read]
    /\ embedded \in [Procs -> SUBSET Read]

\* What a sync read goes by the hash read with it, in a batch and once embedded.
ReadsAgree == \A p \in Procs : \A b \in batch[p] \cup embedded[p] : b.hash = b.text

VInv == DataTypeOK /\ ReadsAgree /\ VectorsAreOfTheirHash

LEMMA InitVInv == Init => VInv
BY DEF Init, VInv, DataTypeOK, ReadsAgree, VectorsAreOfTheirHash, NoVector

\* Every step but four leaves the tables, the batches and the vectors alone or
\* empties the batches.
LEMMA NextVInv == VInv /\ [Next]_vars => VInv'
<1> SUFFICES ASSUME VInv, [Next]_vars PROVE VInv'
  OBVIOUS
<1> USE DEF VInv, DataTypeOK, ReadsAgree, VectorsAreOfTheirHash
<1>1. CASE UNCHANGED vars
  BY <1>1 DEF vars
<1>2. ASSUME NEW r \in Rows, Edit(r) PROVE VInv'
  BY <1>2 DEF Edit, sync
<1>3. CASE ServerChanges
  BY <1>3 DEF ServerChanges, sync, data
<1>4. ASSUME NEW p \in Procs, Start(p) PROVE VInv'
  BY <1>4 DEF Start, data
<1>5. ASSUME NEW p \in Procs, ListRows(p) PROVE VInv'
  BY <1>5 DEF ListRows, data
<1>6. ASSUME NEW p \in Procs, ReadStored(p) PROVE VInv'
  BY <1>6 DEF ReadStored, Stale, RowsAt, data
<1>7. ASSUME NEW p \in Procs, DeleteOrphans(p) PROVE VInv'
  <2>1. VectorsAreOfTheirHash'
    BY <1>7 DEF DeleteOrphans, NoVector
  <2> QED
    BY <1>7, <2>1 DEF DeleteOrphans, data
<1>8. ASSUME NEW p \in Procs, ReadBatch(p) PROVE VInv'
  <2>1. PICK rows \in SUBSET todo[p] :
            batch' = [batch EXCEPT ![p] = {ReadRow(p, r) : r \in {s \in rows : content[s] # NoText}}]
    BY <1>8 DEF ReadBatch
  <2> DEFINE read == {ReadRow(p, r) : r \in {s \in rows : content[s] # NoText}}
  <2>2. rows \subseteq Rows
    OBVIOUS
  <2>3. \A b \in read : b \in Read /\ b.hash = b.text
    BY <2>2 DEF ReadRow, Read
  <2> HIDE DEF read
  <2>4. batch' = [batch EXCEPT ![p] = read]
    BY <2>1 DEF read
  <2>5. todo' \in [Procs -> SUBSET Rows]
    BY <1>8 DEF ReadBatch
  <2>6. DataTypeOK'
    BY <1>8, <2>3, <2>4, <2>5 DEF ReadBatch, data
  <2>7. ReadsAgree'
    BY <1>8, <2>3, <2>4 DEF ReadBatch
  <2> QED
    BY <1>8, <2>6, <2>7 DEF ReadBatch
<1>9. ASSUME NEW p \in Procs, TableDone(p) \/ Unwritable(p) \/ Unanswered(p) PROVE VInv'
  <2>1. NextTable(p)
    BY <1>9 DEF TableDone, Unwritable, Unanswered
  <2> QED
    BY <2>1 DEF NextTable, data
<1>10. ASSUME NEW p \in Procs, BatchTaken(p) PROVE VInv'
  BY <1>10 DEF BatchTaken, data
<1>11. ASSUME NEW p \in Procs, ProbeRefused(p) PROVE VInv'
  BY <1>11 DEF ProbeRefused, data
<1>12. ASSUME NEW p \in Procs, BatchRefused(p) PROVE VInv'
  BY <1>12 DEF BatchRefused, data
<1>13. ASSUME NEW p \in Procs, RowTaken(p) PROVE VInv'
  <2>1. PICK b \in batch[p] : /\ embedded' = [embedded EXCEPT ![p] = {b}]
                              /\ batch' = [batch EXCEPT ![p] = @ \ {b}]
    BY <1>13 DEF RowTaken
  <2>2. b \in Read /\ b.hash = b.text
    BY <2>1
  <2>3. DataTypeOK'
    BY <1>13, <2>1, <2>2 DEF RowTaken, data
  <2>4. ReadsAgree'
    BY <1>13, <2>1, <2>2 DEF RowTaken
  <2> QED
    BY <1>13, <2>3, <2>4 DEF RowTaken
<1>14. ASSUME NEW p \in Procs, RowRefused(p) PROVE VInv'
  <2>1. PICK b \in batch[p] :
            IF FailsAll(p, b) THEN NextTable(p)
            ELSE /\ batch' = [batch EXCEPT ![p] = @ \ {b}]
                 /\ UNCHANGED <<data, vectors, todo, embedded>>
    BY <1>14 DEF RowRefused
  <2>2. CASE NextTable(p)
    BY <2>2 DEF NextTable, data
  <2>3. CASE batch' = [batch EXCEPT ![p] = @ \ {b}] /\ UNCHANGED <<data, vectors, todo, embedded>>
    BY <2>3 DEF data
  <2> QED
    BY <2>1, <2>2, <2>3
<1>15. ASSUME NEW p \in Procs, BatchDone(p) PROVE VInv'
  BY <1>15 DEF BatchDone, data
<1>16. ASSUME NEW p \in Procs, Store(p) PROVE VInv'
  <2>1. PICK rows \in SUBSET embedded[p] :
            vectors' = [r \in Rows |->
               IF \E b \in rows : b.row = r
               THEN LET b == CHOOSE c \in rows : c.row = r IN [hash |-> b.hash, text |-> b.text]
               ELSE vectors[r]]
    BY <1>16 DEF Store
  <2>2. VectorsAreOfTheirHash'
    <3> SUFFICES ASSUME NEW r \in Rows PROVE vectors'[r].hash = vectors'[r].text
      OBVIOUS
    <3>1. CASE \E b \in rows : b.row = r
      <4> DEFINE b == CHOOSE c \in rows : c.row = r
      <4>1. b \in rows
        BY <3>1
      <4>2. b.hash = b.text
        BY <4>1
      <4>3. vectors'[r] = [hash |-> b.hash, text |-> b.text]
        BY <2>1, <3>1
      <4> QED
        BY <4>2, <4>3
    <3>2. CASE ~\E b \in rows : b.row = r
      BY <2>1, <3>2
    <3> QED
      BY <3>1, <3>2
  <2> QED
    BY <1>16, <2>2 DEF Store, data
<1>17. ASSUME NEW p \in Procs, Finish(p) \/ Fail(p) PROVE VInv'
  <2>1. End(p) /\ UNCHANGED <<data, vectors>>
    BY <1>17 DEF Finish, Fail
  <2> QED
    BY <2>1 DEF End, data
<1>18. ASSUME NEW p \in Procs, LoseLock(p) PROVE VInv'
  BY <1>18 DEF LoseLock, sync, data
<1> QED
  BY <1>1, <1>2, <1>3, <1>4, <1>5, <1>6, <1>7, <1>8, <1>9, <1>10, <1>11, <1>12, <1>13, <1>14,
     <1>15, <1>16, <1>17, <1>18 DEF Next, Work

\* A stored vector was made of the content its hash names: a search, which goes by
\* the hash, finds no row by what it no longer says.
THEOREM HashesAreTrue == Spec => []VectorsAreOfTheirHash
<1>1. VInv => VectorsAreOfTheirHash
  BY DEF VInv
<1> QED
  BY InitVInv, NextVInv, <1>1, PTL DEF Spec

-----------------------------------------------------------------------------
\* A sync that goes on has the lock, or a connection died with one.
LInv ==
    /\ pc \in [Procs -> Stages] /\ lost \in BOOLEAN
    /\ \A p \in Procs : pc[p] # "idle" => holder = p \/ lost

\* A step of a sync that has begun leaves the lock alone.
LEMMA WorkLInv == ASSUME LInv, NEW p \in Procs, pc[p] # "idle", pc' \in [Procs -> Stages],
                         \A q \in Procs \ {p} : pc'[q] = pc[q], UNCHANGED lock
                  PROVE  LInv'
BY DEF LInv, lock

LEMMA EndLInv == ASSUME LInv, NEW p \in Procs, End(p) PROVE LInv'
<1>1. /\ pc' = [pc EXCEPT ![p] = "idle"]
      /\ holder' = IF holder = p THEN NoProc ELSE holder
      /\ lost' = (lost /\ \E q \in Procs \ {p} : pc[q] # "idle")
  BY DEF End
<1>2. pc' \in [Procs -> Stages] /\ lost' \in BOOLEAN
  BY <1>1 DEF LInv, Stages
<1>3. ASSUME NEW q \in Procs, pc'[q] # "idle" PROVE holder' = q \/ lost'
  <2>1. q # p /\ pc[q] # "idle"
    BY <1>1, <1>3 DEF LInv
  <2>2. CASE holder = q
    BY <1>1, <2>1, <2>2
  <2>3. CASE lost
    BY <1>1, <2>1, <2>3
  <2> QED
    BY <2>1, <2>2, <2>3 DEF LInv
<1> QED
  BY <1>2, <1>3 DEF LInv

LEMMA NextLInv == LInv /\ [Next]_vars => LInv'
<1> SUFFICES ASSUME LInv, [Next]_vars PROVE LInv'
  OBVIOUS
<1>1. CASE UNCHANGED vars
  BY <1>1 DEF vars, LInv
<1>2. ASSUME NEW r \in Rows, Edit(r) PROVE LInv'
  BY <1>2 DEF Edit, sync, lock, LInv
<1>3. CASE ServerChanges
  BY <1>3 DEF ServerChanges, sync, lock, LInv
<1>4. ASSUME NEW p \in Procs, Start(p) PROVE LInv'
  BY <1>4, EmbedSyncAssumption DEF Start, LInv, Stages
<1>5. ASSUME NEW p \in Procs,
             \/ ListRows(p) \/ ReadStored(p) \/ DeleteOrphans(p) \/ ReadBatch(p) \/ TableDone(p)
             \/ Unwritable(p) \/ Unanswered(p) \/ BatchTaken(p) \/ ProbeRefused(p)
             \/ BatchRefused(p) \/ RowTaken(p) \/ RowRefused(p) \/ BatchDone(p) \/ Store(p)
      PROVE  LInv'
  <2> USE DEF Stages, LInv
  <2>1. CASE ListRows(p) \/ ReadStored(p) \/ DeleteOrphans(p) \/ ReadBatch(p)
    BY <1>5, <2>1, WorkLInv DEF ListRows, ReadStored, DeleteOrphans, ReadBatch
  <2>2. CASE TableDone(p) \/ Unwritable(p) \/ Unanswered(p)
    BY <2>2, WorkLInv DEF TableDone, Unwritable, Unanswered, NextTable
  <2>3. CASE BatchTaken(p) \/ ProbeRefused(p) \/ BatchRefused(p)
    BY <2>3, WorkLInv DEF BatchTaken, ProbeRefused, BatchRefused
  <2>4. CASE RowTaken(p) \/ BatchDone(p) \/ Store(p)
    BY <2>4, WorkLInv DEF RowTaken, BatchDone, Store
  <2>5. CASE RowRefused(p)
    <3>1. pc[p] # "idle" /\ UNCHANGED lock /\ (pc' = pc \/ pc' = [pc EXCEPT ![p] = "list"])
      BY <2>5 DEF RowRefused, NextTable
    <3> QED
      BY <3>1, WorkLInv
  <2> QED
    BY <1>5, <2>1, <2>2, <2>3, <2>4, <2>5
<1>6. ASSUME NEW p \in Procs, Finish(p) \/ Fail(p) PROVE LInv'
  BY <1>6, EndLInv DEF Finish, Fail
<1>7. ASSUME NEW p \in Procs, LoseLock(p) PROVE LInv'
  BY <1>7 DEF LoseLock, sync, LInv
<1> QED
  BY <1>1, <1>2, <1>3, <1>4, <1>5, <1>6, <1>7 DEF Next, Work

\* Two synchronisations overlap only after a lock's connection died.
THEOREM SyncsTakeTurns == Spec => []OneSyncAtATime
<1>1. Init => LInv
  <2> SUFFICES ASSUME Init PROVE LInv
    OBVIOUS
  <2>1. pc = [p \in Procs |-> "idle"] /\ lost = FALSE
    BY DEF Init
  <2> QED
    BY <2>1 DEF LInv, Stages
<1>2. LInv => OneSyncAtATime
  BY DEF LInv, OneSyncAtATime
<1> QED
  BY <1>1, <1>2, NextLInv, PTL DEF Spec
=============================================================================
