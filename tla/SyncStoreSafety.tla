--------------------------- MODULE SyncStoreSafety ---------------------------
(* The safety invariants of SyncStore and its refinement of EtagRegisters. *)
EXTENDS SyncStoreProofs, FiniteSetTheorems

data == <<meta, blob, objects, objMeta, lastEtag>>

Writes(r) == WriteMetadata(r) \/ WriteBlob(r) \/ WriteObject(r)
               \/ RemoveObject(r) \/ CreateNamespace(r) \/ Purge(r)

-----------------------------------------------------------------------------
(* Which steps change what *)

\* Only six transactions change the snapshot and object tables.
LEMMA OnlyWritesChangeData ==
  ASSUME [Next]_vars PROVE (\E r \in Requests : Writes(r)) \/ UNCHANGED data
<1>1. ASSUME NEW r \in Requests, Step(r) PROVE Writes(r) \/ UNCHANGED data
  BY <1>1 DEF Step, Writes, data, tables, Start, Admit, Refuse, ReadMetadata,
     ReadBlob, ReadBlobEtag, ReadObject, ReadObjectEtag, ReadExisting,
     RejectBlob, RejectObject, Conflict, RecordConflict, SkipRefresh,
     BeginRefresh, MeasureBlob, MeasureObjects, WriteUsage, CheckDeleted,
     CheckMetadata, CheckObjects, SoftDelete, Restore, Finish, StorageError
<1> QED
  BY <1>1 DEF Next, Crash, Quiet, vars, tables, data

\* A handler's locals are its own.
LEMMA KeepIsLocal ==
  ASSUME NEW r \in Requests, NEW q \in Requests \ {r}, HandlersOK
  PROVE  /\ \A m : KeepMeta(r, m) => loc'[q] = loc[q]
         /\ \A m : KeepPayload(r, m) => loc'[q] = loc[q]
         /\ \A m : KeepEtag(r, m) => loc'[q] = loc[q]
         /\ \A m : KeepMeasured(r, m) => loc'[q] = loc[q]
         /\ \A m, t : KeepConflict(r, m, t) => loc'[q] = loc[q]
         /\ \A m : KeepStatus(r, m) => loc'[q] = loc[q]
         /\ \A m, t : KeepAnswer(r, m, t) => loc'[q] = loc[q]
  BY DEF HandlersOK, KeepMeta, KeepPayload, KeepEtag, KeepMeasured,
         KeepConflict, KeepStatus, KeepAnswer

LEMMA StepIsLocal ==
  ASSUME TypeOK, NEW r \in Requests, NEW q \in Requests \ {r}, Step(r)
  PROVE  pc'[q] = pc[q] /\ call'[q] = call[q] /\ loc'[q] = loc[q]
<1> USE DEF TypeOK
<1>1. \A l : Goto(r, l) => pc'[q] = pc[q]
  BY DEF HandlersOK, Goto
<1>2. pc'[q] = pc[q]
  BY <1>1 DEF Step, Start, Admit, Refuse, ReadMetadata,
     ReadBlob, ReadBlobEtag, ReadObject, ReadObjectEtag, ReadExisting,
     WriteMetadata, WriteBlob, WriteObject, RemoveObject,
     RejectBlob, RejectObject, Conflict, RecordConflict, SkipRefresh,
     BeginRefresh, MeasureBlob, MeasureObjects, WriteUsage, CheckDeleted,
     CheckMetadata, CheckObjects, CreateNamespace, SoftDelete, Restore, Purge,
     Finish, StorageError, Reply, ReplyWithEtag
<1>3. call'[q] = call[q]
  <2>1. CASE Start(r) \/ Finish(r)
    BY <2>1 DEF Start, Finish, HandlersOK
  <2>2. CASE ~(Start(r) \/ Finish(r))
    BY <2>2 DEF Step, Admit, Refuse, ReadMetadata,
     ReadBlob, ReadBlobEtag, ReadObject, ReadObjectEtag, ReadExisting,
     WriteMetadata, WriteBlob, WriteObject, RemoveObject,
     RejectBlob, RejectObject, Conflict, RecordConflict, SkipRefresh,
     BeginRefresh, MeasureBlob, MeasureObjects, WriteUsage, CheckDeleted,
     CheckMetadata, CheckObjects, CreateNamespace, SoftDelete, Restore, Purge,
     StorageError
  <2> QED
    BY <2>1, <2>2
<1>4. loc'[q] = loc[q]
  <2>1. CASE Finish(r)
    BY <2>1 DEF Finish, HandlersOK
  <2>2. CASE ~Finish(r)
    BY <2>2, KeepIsLocal DEF Step, Start, Admit, Refuse, ReadMetadata,
     ReadBlob, ReadBlobEtag, ReadObject, ReadObjectEtag, ReadExisting,
     WriteMetadata, WriteBlob, WriteObject, RemoveObject,
     RejectBlob, RejectObject, Conflict, RecordConflict, SkipRefresh,
     BeginRefresh, MeasureBlob, MeasureObjects, WriteUsage, CheckDeleted,
     CheckMetadata, CheckObjects, CreateNamespace, SoftDelete, Restore, Purge,
     StorageError, Reply, ReplyWithEtag
  <2> QED
    BY <2>1, <2>2
<1> QED
  BY <1>2, <1>3, <1>4

-----------------------------------------------------------------------------
(* The tables *)

LEMMA StorageInit == Init => StorageInv
  BY DEF Init, StorageInv, ObjectPairing, BlobHasMetadata, ExistsMeansEtag,
         EtagsAreMinted, ItemEtag, EtagOfMeta, Items, Keys

\* The rows the uploads build.
LEMMA RowFacts ==
  ASSUME NEW m \in SyncMetadata \cup {None}, NEW v \in Nat \ {0}
  PROVE  /\ MetadataRow(m, v) # None /\ SnapshotRow(m, v) # None
         /\ EmptyMetadata # None
         /\ EtagOfMeta(MetadataRow(m, v)) = v /\ EtagOfMeta(SnapshotRow(m, v)) = v
         /\ EtagOfMeta(EmptyMetadata) = 0 /\ EtagOfMeta(None) = 0
         /\ MetadataRow(m, v).exists /\ SnapshotRow(m, v).exists
         /\ ~EmptyMetadata.exists
         /\ MetadataRow(m, v).etag = v /\ SnapshotRow(m, v).etag = v
         /\ EmptyMetadata.etag = 0
<1>1. MetadataRow(m, v) # None /\ SnapshotRow(m, v) # None
  BY RowTypes, RowAssumption
<1>2. EmptyMetadata \in SyncMetadata
  BY DEF EmptyMetadata, SyncMetadata
<1>3. EmptyMetadata # None
  BY <1>2, RowAssumption
<1> QED
  BY <1>1, <1>3 DEF MetadataRow, SnapshotRow, EmptyMetadata, EtagOfMeta

\* What one step may do to the tables: an ETag stays, goes, or is replaced
\* by the one minted in this step, and a blob changes together with it.
Moves ==
  /\ lastEtag' \in {lastEtag, lastEtag + 1}
  /\ \A n \in Namespaces :
       \/ meta'[n] = meta[n] /\ blob'[n] = blob[n]
       \/ meta'[n] = None /\ blob'[n] = 0
       \/ meta'[n] = EmptyMetadata /\ blob'[n] = blob[n]
       \/ /\ lastEtag' = lastEtag + 1 /\ meta'[n] # None
          /\ meta'[n].exists /\ meta'[n].etag = lastEtag'
          /\ blob'[n] \in {blob[n], lastEtag'}
  /\ \A k \in Keys :
       \/ objects'[k] = objects[k] /\ objMeta'[k] = objMeta[k]
       \/ objects'[k] = 0 /\ objMeta'[k] = 0
       \/ /\ lastEtag' = lastEtag + 1
          /\ objects'[k] = lastEtag' /\ objMeta'[k] = lastEtag'

LEMMA StepMoves == ASSUME TypeOK, [Next]_vars PROVE Moves
<1>1. CASE UNCHANGED data
  BY <1>1 DEF data, Moves
<1>2. ASSUME NEW r \in Requests, Writes(r) PROVE Moves
  <2>1. pc[r] # "idle" /\ lastEtag \in Nat /\ lastEtag + 1 \in Nat \ {0}
    BY <1>2 DEF TypeOK, TablesOK, Writes, WriteMetadata, WriteBlob, WriteObject,
                RemoveObject, CreateNamespace, Purge
  <2>2. call[r].ns \in Namespaces /\ loc[r].meta \in SyncMetadata \cup {None}
    BY <2>1, Target DEF TypeOK, HandlersOK, Locals
  <2>3. CASE WriteMetadata(r)
    <3>1. \A n \in Namespaces :
            meta'[n] = IF n = call[r].ns THEN MetadataRow(loc[r].meta, lastEtag + 1)
                                         ELSE meta[n]
      BY <2>3 DEF WriteMetadata, TypeOK, TablesOK
    <3> QED
      BY <2>1, <2>2, <2>3, <3>1, RowFacts DEF WriteMetadata, Moves
  <2>4. CASE WriteBlob(r)
    <3>1. \A n \in Namespaces :
            /\ meta'[n] = IF n = call[r].ns THEN SnapshotRow(loc[r].meta, lastEtag + 1)
                                            ELSE meta[n]
            /\ blob'[n] = IF n = call[r].ns THEN lastEtag + 1 ELSE blob[n]
      BY <2>4 DEF WriteBlob, PutSnapshot, TypeOK, TablesOK
    <3> QED
      BY <2>1, <2>2, <2>4, <3>1, RowFacts DEF WriteBlob, Moves
  <2>5. CASE WriteObject(r)
    BY <2>1, <2>5 DEF WriteObject, PutObject, Moves, TypeOK, TablesOK
  <2>6. CASE RemoveObject(r)
    BY <2>1, <2>6 DEF RemoveObject, PutObject, Moves, TypeOK, TablesOK
  <2>7. CASE CreateNamespace(r)
    BY <2>1, <2>2, <2>7 DEF CreateNamespace, Moves, TypeOK, TablesOK
  <2>8. CASE Purge(r)
    BY <2>1, <2>2, <2>8 DEF Purge, PutSnapshot, Moves, TypeOK, TablesOK
  <2> QED
    BY <1>2, <2>3, <2>4, <2>5, <2>6, <2>7, <2>8 DEF Writes
<1> QED
  BY <1>1, <1>2, OnlyWritesChangeData

LEMMA StorageStep ==
  ASSUME TypeOK, TypeOK', StorageInv, Moves PROVE StorageInv'
<1> USE DEF StorageInv
<1>0. lastEtag \in Nat /\ lastEtag' \in Nat /\ lastEtag <= lastEtag'
  BY DEF Moves, TypeOK, TablesOK
<1>1. ObjectPairing'
  BY DEF ObjectPairing, Moves
<1>2. EmptyMetadata # None /\ ~EmptyMetadata.exists /\ EmptyMetadata.etag = 0
  BY RowFacts, <1>0
<1>3. BlobHasMetadata'
  BY <1>2 DEF BlobHasMetadata, Moves
<1>4. ExistsMeansEtag'
  BY <1>0, <1>2 DEF ExistsMeansEtag, Moves, TypeOK, TablesOK
<1>5. ASSUME NEW n \in Namespaces
      PROVE  /\ EtagOfMeta(meta'[n]) <= lastEtag'
             /\ blob'[n] <= lastEtag'
             /\ EtagOfMeta(meta'[n]) # 0 => blob'[n] <= EtagOfMeta(meta'[n])
  <2>1. /\ blob[n] \in Nat /\ meta[n] \in SyncMetadata \cup {None}
        /\ EtagOfMeta(meta[n]) \in Nat
    BY RowTypes, <1>0 DEF TypeOK, TablesOK
  <2>2. /\ EtagOfMeta(meta[n]) <= lastEtag /\ blob[n] <= lastEtag
        /\ EtagOfMeta(meta[n]) # 0 => blob[n] <= EtagOfMeta(meta[n])
    <3>1. <<n, None>> \in Items /\ ItemEtag(<<n, None>>) = EtagOfMeta(meta[n])
      BY DEF Items, ItemEtag
    <3> QED
      BY <3>1 DEF EtagsAreMinted
  <2> QED
    BY <1>0, <1>2, <2>1, <2>2 DEF Moves, EtagOfMeta
<1>6. ASSUME NEW k \in Keys PROVE objMeta'[k] <= lastEtag'
  <2>1. k \in Items /\ ItemEtag(k) = objMeta[k]
    BY NoneAssumption DEF Keys, Items, ItemEtag
  <2> QED
    BY <1>0, <2>1 DEF Moves, EtagsAreMinted, TypeOK, TablesOK
<1>7. ASSUME NEW i \in Items PROVE ItemEtag(i)' <= lastEtag'
  <2>1. i[1] \in Namespaces /\ (i[2] # None => i \in Keys)
    BY DEF Items, Keys
  <2> QED
    BY <1>5, <1>6, <2>1 DEF ItemEtag
<1>8. EtagsAreMinted'
  BY <1>5, <1>7 DEF EtagsAreMinted
<1> QED
  BY <1>1, <1>3, <1>4, <1>8

-----------------------------------------------------------------------------
(* The handlers *)

LEMMA HandlerInit == Init => HandlerInv
  BY DEF Init, HandlerInv, EtagIsKnown, ReadIsCurrent, EtagWillDo

\* What a waiting handler relies on survives the steps of the others.
LEMMA OthersKeep ==
  ASSUME TypeOK, HandlerInv, Moves, NEW q \in Requests,
         pc'[q] = pc[q], call'[q] = call[q], loc'[q] = loc[q]
  PROVE  (EtagIsKnown(q) /\ ReadIsCurrent(q) /\ EtagWillDo(q))'
<1>0. lastEtag \in Nat /\ lastEtag' \in Nat /\ lastEtag <= lastEtag'
  BY DEF Moves, TypeOK, TablesOK
<1>1. CASE pc[q] = "idle"
  BY <1>1 DEF EtagIsKnown, ReadIsCurrent, EtagWillDo
<1>2. CASE pc[q] # "idle"
  <2>1. /\ call[q].ns \in Namespaces /\ call[q].etag \in Nat
        /\ pc[q] = "read_object_etag" => Item(q) \in Keys
        /\ loc[q].payload \in Nat
    BY <1>2, Target DEF TypeOK, HandlersOK, Locals, ObjectLabels
  <2>2. Item(q)' = Item(q)
    BY DEF Item
  <2>3. call[q].etag <= lastEtag
    BY <1>2 DEF HandlerInv, EtagIsKnown
  <2>4. EtagIsKnown(q)'
    BY <1>0, <2>1, <2>3 DEF EtagIsKnown
  <2>5. LET n == call[q].ns IN
          \/ meta'[n] = meta[n]
          \/ EtagOfMeta(meta'[n]) = 0
          \/ EtagOfMeta(meta'[n]) = lastEtag' /\ lastEtag' = lastEtag + 1
    <3>1. EtagOfMeta(EmptyMetadata) = 0 /\ EtagOfMeta(None) = 0
      BY <1>0, RowFacts
    <3> QED
      BY <2>1, <3>1 DEF Moves, EtagOfMeta
  <2>6. ReadIsCurrent(q)'
    <3> DEFINE n == call[q].ns
    <3>1. CASE EtagOfMeta(meta'[n]) = call[q].etag /\ call[q].etag # 0
      <4>1. meta'[n] = meta[n]
        BY <1>0, <2>1, <2>3, <2>5, <3>1
      <4> QED
        BY <3>1, <4>1 DEF HandlerInv, ReadIsCurrent
    <3>2. CASE ~(EtagOfMeta(meta'[n]) = call[q].etag /\ call[q].etag # 0)
      BY <3>2 DEF ReadIsCurrent
    <3> QED
      BY <3>1, <3>2
  <2>7. EtagWillDo(q)'
    <3>1. CASE pc[q] = "read_etag"
      BY <1>0, <2>1, <2>5, <3>1 DEF HandlerInv, EtagWillDo
    <3>2. CASE pc[q] = "read_object_etag"
      <4>1. LET k == Item(q) IN
              objMeta'[k] = objMeta[k] \/ objMeta'[k] \in {0, lastEtag'}
        BY <2>1, <3>2 DEF Moves
      <4> QED
        BY <1>0, <2>1, <2>2, <3>2, <4>1 DEF HandlerInv, EtagWillDo
    <3> QED
      BY <3>1, <3>2 DEF EtagWillDo
  <2> QED
    BY <2>4, <2>6, <2>7
<1> QED
  BY <1>1, <1>2

\* A handler that has just moved relies on what it has just read.
LEMMA MoverKeeps ==
  ASSUME TypeOK, StorageInv, HandlerInv, Moves, NEW r \in Requests, Step(r)
  PROVE  (EtagIsKnown(r) /\ ReadIsCurrent(r) /\ EtagWillDo(r))'
<1> USE DEF TypeOK
<1>0. lastEtag \in Nat /\ lastEtag' \in Nat /\ lastEtag <= lastEtag'
  BY DEF Moves, TablesOK
<1>1. \A l : Goto(r, l) => pc'[r] = l
  BY DEF HandlersOK, Goto
<1>2. CASE Start(r)
  <2>1. PICK c \in [op : Ops, ns : Namespaces, path : Paths \cup {None},
                    cond : Conditions, etag : 0..lastEtag] :
          call' = [call EXCEPT ![r] = c]
    BY <1>2, Zenon DEF Start
  <2>2. call'[r].etag <= lastEtag /\ lastEtag' = lastEtag
    BY <1>2, <2>1 DEF HandlersOK, Start
  <2>3. pc'[r] \in {"admit", "purge", "check_deleted"}
    BY <1>1, <1>2 DEF Start
  <2> QED
    BY <2>2, <2>3 DEF EtagIsKnown, ReadIsCurrent, EtagWillDo
<1>3. CASE Finish(r)
  BY <1>1, <1>3 DEF Finish, EtagIsKnown, ReadIsCurrent, EtagWillDo
<1>4. CASE ~Start(r) /\ ~Finish(r)
  <2>1. call' = call /\ pc[r] # "idle"
    BY <1>4 DEF Step, Admit, Refuse, ReadMetadata,
     ReadBlob, ReadBlobEtag, ReadObject, ReadObjectEtag, ReadExisting,
     WriteMetadata, WriteBlob, WriteObject, RemoveObject,
     RejectBlob, RejectObject, Conflict, RecordConflict, SkipRefresh,
     BeginRefresh, MeasureBlob, MeasureObjects, WriteUsage, CheckDeleted,
     CheckMetadata, CheckObjects, CreateNamespace, SoftDelete, Restore, Purge,
     StorageError
  <2>2. /\ call[r].ns \in Namespaces /\ call[r].etag \in Nat
        /\ Item(r)' = Item(r) /\ call[r].op \in SyncOps \cup AdminOps
        /\ pc[r] = "admit" => call[r].op \in SyncOps
    BY <2>1, Target, OpsAssumption DEF Item, HandlersOK, Serves
  <2>3. EtagIsKnown(r)'
    BY <1>0, <2>1, <2>2 DEF HandlerInv, EtagIsKnown
  <2>4. CASE ReadExisting(r)
    <3>1. /\ pc'[r] \in {"write_blob", "write_metadata"}
          /\ loc'[r].meta = meta[call[r].ns] /\ UNCHANGED meta
      BY <1>1, <2>4 DEF ReadExisting, KeepMeta, HandlersOK, Locals, tables
    <3> QED
      BY <2>1, <2>3, <3>1 DEF ReadIsCurrent, EtagWillDo
  <2>5. CASE ReadBlob(r)
    <3>1. CASE blob[call[r].ns] = 0
      BY <1>1, <2>3, <2>5, <3>1 DEF ReadBlob, Reply, ReadIsCurrent, EtagWillDo
    <3>2. CASE blob[call[r].ns] # 0
      <4>1. /\ pc'[r] = "read_etag" /\ loc'[r].payload = blob[call[r].ns]
            /\ UNCHANGED <<meta, lastEtag>>
        BY <1>1, <2>5, <3>2 DEF ReadBlob, KeepPayload, HandlersOK, Locals, tables
      <4>2. /\ EtagOfMeta(meta[call[r].ns]) \in Nat /\ blob[call[r].ns] \in Nat
            /\ blob[call[r].ns] <= lastEtag
            /\ EtagOfMeta(meta[call[r].ns]) # 0 =>
                 blob[call[r].ns] <= EtagOfMeta(meta[call[r].ns])
        BY <1>0, <2>2, RowTypes DEF StorageInv, EtagsAreMinted, TablesOK
      <4> QED
        BY <1>0, <2>1, <2>3, <4>1, <4>2 DEF ReadIsCurrent, EtagWillDo
    <3> QED
      BY <3>1, <3>2
  <2>6. CASE ReadObject(r)
    <3>1. CASE objects[Item(r)] = 0
      BY <1>1, <2>3, <2>6, <3>1 DEF ReadObject, Reply, ReadIsCurrent, EtagWillDo
    <3>2. CASE objects[Item(r)] # 0
      <4>1. /\ pc'[r] = "read_object_etag" /\ loc'[r].payload = objects[Item(r)]
            /\ UNCHANGED <<objMeta, lastEtag>>
        BY <1>1, <2>6, <3>2 DEF ReadObject, KeepPayload, HandlersOK, Locals, tables
      <4>2. Item(r) \in Keys
        BY <2>1, <2>6, Target DEF ReadObject, ObjectLabels
      <4>3. /\ objects[Item(r)] = objMeta[Item(r)] /\ objMeta[Item(r)] \in Nat
            /\ ItemEtag(Item(r)) = objMeta[Item(r)] /\ Item(r) \in Items
        BY <4>2, NoneAssumption DEF StorageInv, ObjectPairing, TablesOK, ItemEtag,
           Keys, Items
      <4>4. objMeta[Item(r)] <= lastEtag
        BY <4>3 DEF StorageInv, EtagsAreMinted
      <4> QED
        BY <2>1, <2>2, <2>3, <4>1, <4>3, <4>4 DEF ReadIsCurrent, EtagWillDo
    <3> QED
      BY <3>1, <3>2
  <2>7. CASE ~ReadExisting(r) /\ ~ReadBlob(r) /\ ~ReadObject(r)
    <3>1. CASE Admit(r)
      BY <1>1, <2>2, <2>3, <3>1 DEF Admit, Reply, FirstStep, SyncOps, ReadIsCurrent, EtagWillDo
    <3>2. CASE ~Admit(r)
      <4>1. pc'[r] \notin {"write_blob", "read_etag", "read_object_etag"}
        BY <1>1, <1>4, <2>7, <3>2 DEF Step, Refuse, ReadMetadata, ReadBlobEtag,
         ReadObjectEtag, WriteMetadata, WriteBlob, WriteObject, RemoveObject,
         RejectBlob, RejectObject, Conflict, RecordConflict, SkipRefresh,
         BeginRefresh, MeasureBlob, MeasureObjects, WriteUsage, CheckDeleted,
         CheckMetadata, CheckObjects, CreateNamespace, SoftDelete, Restore, Purge,
         StorageError, Reply, ReplyWithEtag
      <4> QED
        BY <2>3, <4>1 DEF ReadIsCurrent, EtagWillDo
    <3> QED
      BY <3>1, <3>2
  <2> QED
    BY <2>4, <2>5, <2>6, <2>7
<1> QED
  BY <1>2, <1>3, <1>4

LEMMA HandlerStep ==
  ASSUME TypeOK, StorageInv, HandlerInv, Moves, [Next]_vars PROVE HandlerInv'
<1>1. ASSUME NEW r \in Requests, Step(r) PROVE HandlerInv'
  BY <1>1, MoverKeeps, OthersKeep, StepIsLocal DEF HandlerInv
<1>2. CASE Crash
  BY <1>2 DEF Crash, HandlerInv, EtagIsKnown, ReadIsCurrent, EtagWillDo
<1>3. CASE UNCHANGED vars
  <2>1. pc' = pc /\ call' = call /\ loc' = loc
    BY <1>3 DEF vars
  <2> QED
    BY <2>1, OthersKeep DEF HandlerInv
<1> QED
  BY <1>1, <1>2, <1>3 DEF Next, Quiet

-----------------------------------------------------------------------------
(* The theorems *)

SafetyInv == TypeOK /\ StorageInv /\ HandlerInv

LEMMA SafetyStep == SafetyInv /\ [Next]_vars => SafetyInv'
<1> SUFFICES ASSUME SafetyInv, [Next]_vars PROVE SafetyInv'
  OBVIOUS
<1>1. TypeOK' /\ Moves
  BY TypeStep, StepMoves DEF SafetyInv
<1> QED
  BY <1>1, StorageStep, HandlerStep DEF SafetyInv

LEMMA Safety == Spec => []SafetyInv
<1>1. Init => SafetyInv
  BY TypeInit, StorageInit, HandlerInit DEF SafetyInv
<1> QED
  BY <1>1, SafetyStep, PTL DEF Spec

\* An object's payload row and its ETag row are written and removed together
\* by every handler, purge included.
THEOREM ObjectsStayPaired == Spec => []ObjectPairing
<1>1. SafetyInv => ObjectPairing
  BY DEF SafetyInv, StorageInv
<1> QED
  BY <1>1, Safety, PTL

\* No blob outlives its metadata row.
THEOREM BlobsStayDescribed == Spec => []BlobHasMetadata
<1>1. SafetyInv => BlobHasMetadata
  BY DEF SafetyInv, StorageInv
<1> QED
  BY <1>1, Safety, PTL

\* A purge removes object metadata only for objects it finds, and there is
\* none anywhere else: after its transaction the namespace has no row left.
THEOREM PurgeIsComplete == Spec => PurgeLeavesNothing
<1>1. ASSUME SafetyInv, [Next]_vars, NEW r \in Requests,
             pc[r] = "purge", pc'[r] = "reply", loc'[r].status = "ok"
      PROVE  LET n == call[r].ns IN
             /\ meta'[n] = None /\ blob'[n] = 0 /\ usage'[n] = None
             /\ n \notin deleted'
             /\ \A k \in KeysOf(n) : objects'[k] = 0 /\ objMeta'[k] = 0
  <2>1. Purge(r)
    <3>1. Step(r)
      <4>1. ASSUME NEW q \in Requests \ {r}, Step(q) PROVE FALSE
        BY <1>1, <4>1, StepIsLocal DEF SafetyInv
      <4>2. CASE Crash \/ Quiet \/ UNCHANGED vars
        BY <1>1, <4>2 DEF Crash, Quiet, vars
      <4> QED
        BY <1>1, <4>1, <4>2 DEF Next
    <3>2. ASSUME Refuse(r) \/ StorageError(r) PROVE FALSE
      <4>1. PICK s \in {"refused", "error"} : KeepStatus(r, s)
        BY <3>2 DEF Refuse, StorageError, Reply
      <4>2. loc'[r].status = s
        BY <1>1, <4>1 DEF KeepStatus, SafetyInv, TypeOK, HandlersOK, Locals
      <4> QED
        BY <1>1, <4>2
    <3> QED
      BY <1>1, <3>1, <3>2 DEF Step, Start, Admit, ReadMetadata, ReadBlob,
        ReadBlobEtag, ReadObject, ReadObjectEtag, ReadExisting, WriteMetadata,
        WriteBlob, RejectBlob, WriteObject, RejectObject, RemoveObject,
        RecordConflict, SkipRefresh, BeginRefresh, MeasureBlob, MeasureObjects,
        WriteUsage, CheckDeleted, CheckMetadata, CheckObjects, CreateNamespace,
        SoftDelete, Restore, Finish
  <2>2. call[r].ns \in Namespaces /\ KeysOf(call[r].ns) \subseteq Keys
    BY <1>1, Target DEF SafetyInv, TypeOK, KeysOf, Keys
  <2>3. \A k \in KeysOf(call[r].ns) : objMeta[k] = objects[k]
    BY <1>1, <2>2 DEF SafetyInv, StorageInv, ObjectPairing
  <2>4. \A k \in KeysOf(call[r].ns) : objects'[k] = 0 /\ objMeta'[k] = 0
    BY <2>1, <2>2, <2>3 DEF Purge, StoredKeys
  <2> QED
    BY <1>1, <2>1, <2>2, <2>4 DEF Purge, PutSnapshot, SafetyInv, TypeOK, TablesOK
<1>2. SafetyInv /\ [Next]_vars =>
        [\A r \in Requests :
           pc[r] = "purge" /\ pc'[r] = "reply" /\ loc'[r].status = "ok" =>
             LET n == call[r].ns IN
             /\ meta'[n] = None /\ blob'[n] = 0 /\ usage'[n] = None
             /\ n \notin deleted'
             /\ \A k \in KeysOf(n) : objects'[k] = 0 /\ objMeta'[k] = 0]_vars
  BY <1>1
<1> QED
  BY <1>2, Safety, PTL DEF Spec, PurgeLeavesNothing

-----------------------------------------------------------------------------
(* Downloads *)

Downloads == {"get_blob", "get_object"}
DownloadLabels == {"admit", "read_blob", "read_etag", "read_object",
                   "read_object_etag", "reply"}

\* A download passes through the transactions of its handler and no others,
\* and what it answers obeys EtagNotOlderThanPayload.
OnDownloadPath(r) ==
  pc[r] # "idle" /\ call[r].op \in Downloads => pc[r] \in DownloadLabels
AnswerNotOlder(r) ==
  pc[r] = "reply" /\ loc[r].status = "ok" /\ call[r].op \in Downloads
    /\ loc[r].etag # 0 => loc[r].etag >= loc[r].payload
DownloadInv == \A r \in Requests : OnDownloadPath(r) /\ AnswerNotOlder(r)

\* A handler that is not on the path of a download does not get onto it but
\* by being admitted.
LEMMA DownloadMoves ==
  ASSUME SafetyInv, DownloadInv, NEW r \in Requests, Step(r)
  PROVE  (OnDownloadPath(r) /\ AnswerNotOlder(r))'
<1> USE DEF SafetyInv, TypeOK
<1>1. \A l : Goto(r, l) => pc'[r] = l
  BY DEF HandlersOK, Goto
<1>2. \A s : KeepStatus(r, s) => loc'[r].status = s
  BY DEF HandlersOK, Locals, KeepStatus
<1>3. CASE Start(r)
  <2>1. PICK c \in [op : Ops, ns : Namespaces, path : Paths \cup {None},
                    cond : Conditions, etag : 0..lastEtag] :
          /\ call' = [call EXCEPT ![r] = c]
          /\ Goto(r, CASE c.op \in SyncOps -> "admit"
                       [] c.op = "purge"   -> "purge"
                       [] OTHER            -> "check_deleted")
    BY <1>3, Zenon DEF Start
  <2>2. call'[r].op = c.op
    BY <2>1 DEF HandlersOK
  <2>3. pc'[r] \in {"admit", "purge", "check_deleted"}
        /\ (c.op \in Downloads => pc'[r] = "admit")
    BY <1>1, <2>1 DEF Downloads, SyncOps
  <2> QED
    BY <2>2, <2>3 DEF OnDownloadPath, AnswerNotOlder, DownloadLabels
<1>4. CASE Finish(r)
  BY <1>1, <1>4 DEF Finish, OnDownloadPath, AnswerNotOlder
<1>5. CASE ~Start(r) /\ ~Finish(r)
  <2>1. call' = call /\ pc[r] \notin {"idle", "reply"}
    BY <1>5 DEF Step, Admit, Refuse, ReadMetadata,
     ReadBlob, ReadBlobEtag, ReadObject, ReadObjectEtag, ReadExisting,
     WriteMetadata, WriteBlob, WriteObject, RemoveObject,
     RejectBlob, RejectObject, Conflict, RecordConflict, SkipRefresh,
     BeginRefresh, MeasureBlob, MeasureObjects, WriteUsage, CheckDeleted,
     CheckMetadata, CheckObjects, CreateNamespace, SoftDelete, Restore, Purge,
     StorageError
  <2>2. CASE call[r].op \notin Downloads
    BY <2>1, <2>2 DEF OnDownloadPath, AnswerNotOlder
  <2>3. CASE call[r].op \in Downloads
    <3>1. pc[r] \in DownloadLabels \ {"reply"}
      BY <2>1, <2>3 DEF DownloadInv, OnDownloadPath
    <3>2. \/ Admit(r) \/ Refuse(r) \/ StorageError(r) \/ ReadBlob(r)
          \/ ReadObject(r) \/ ReadBlobEtag(r) \/ ReadObjectEtag(r)
      BY <1>5, <3>1 DEF DownloadLabels, Step, ReadMetadata, ReadExisting,
        WriteMetadata, WriteBlob, RejectBlob, WriteObject, RejectObject,
        RemoveObject, RecordConflict, SkipRefresh, BeginRefresh, MeasureBlob,
        MeasureObjects, WriteUsage, CheckDeleted, CheckMetadata, CheckObjects,
        CreateNamespace, SoftDelete, Restore, Purge
    <3>3. CASE Admit(r) \/ Refuse(r) \/ StorageError(r) \/ ReadBlob(r) \/ ReadObject(r)
      <4>1. \/ pc'[r] = "reply" /\ loc'[r].status # "ok"
            \/ pc'[r] \in DownloadLabels \ {"reply"}
        BY <1>1, <1>2, <2>3, <3>3 DEF Admit, Refuse, StorageError, ReadBlob,
          ReadObject, Reply, FirstStep, Downloads, DownloadLabels
      <4> QED
        BY <4>1 DEF OnDownloadPath, AnswerNotOlder, DownloadLabels
    <3>4. CASE ReadBlobEtag(r)
      <4>1. /\ pc'[r] = "reply" /\ loc'[r].payload = loc[r].payload
            /\ loc'[r].etag = EtagOfMeta(meta[call[r].ns])
        BY <1>1, <3>4 DEF ReadBlobEtag, ReplyWithEtag, KeepAnswer, HandlersOK, Locals
      <4> QED
        BY <3>4, <4>1 DEF ReadBlobEtag, HandlerInv, EtagWillDo, OnDownloadPath,
           AnswerNotOlder, DownloadLabels
    <3>5. CASE ReadObjectEtag(r)
      <4>1. /\ pc'[r] = "reply" /\ loc'[r].payload = loc[r].payload
            /\ loc'[r].etag = objMeta[Item(r)]
        BY <1>1, <3>5 DEF ReadObjectEtag, ReplyWithEtag, KeepAnswer, HandlersOK, Locals
      <4> QED
        BY <3>5, <4>1 DEF ReadObjectEtag, HandlerInv, EtagWillDo, OnDownloadPath,
           AnswerNotOlder, DownloadLabels
    <3> QED
      BY <3>2, <3>3, <3>4, <3>5
  <2> QED
    BY <2>2, <2>3
<1> QED
  BY <1>3, <1>4, <1>5

LEMMA DownloadStep == SafetyInv /\ DownloadInv /\ [Next]_vars => DownloadInv'
<1> SUFFICES ASSUME SafetyInv, DownloadInv, [Next]_vars PROVE DownloadInv'
  OBVIOUS
<1>1. ASSUME NEW r \in Requests, Step(r) PROVE DownloadInv'
  <2>1. \A q \in Requests \ {r} : pc'[q] = pc[q] /\ call'[q] = call[q] /\ loc'[q] = loc[q]
    BY <1>1, StepIsLocal DEF SafetyInv
  <2> QED
    BY <1>1, <2>1, DownloadMoves DEF DownloadInv, OnDownloadPath, AnswerNotOlder
<1>2. CASE Crash
  BY <1>2 DEF Crash, DownloadInv, OnDownloadPath, AnswerNotOlder
<1>3. CASE Quiet \/ UNCHANGED vars
  BY <1>3 DEF Quiet, vars, DownloadInv, OnDownloadPath, AnswerNotOlder
<1> QED
  BY <1>1, <1>2, <1>3 DEF Next

\* A download never answers with an ETag older than its payload, although it
\* reads the two in different transactions.
THEOREM DownloadsAreNotOutdated == Spec => []EtagNotOlderThanPayload
<1>1. Init => DownloadInv
  BY DEF Init, DownloadInv, OnDownloadPath, AnswerNotOlder
<1>2. DownloadInv => EtagNotOlderThanPayload
  BY DEF DownloadInv, AnswerNotOlder, EtagNotOlderThanPayload, Downloads
<1> QED
  BY <1>1, <1>2, Safety, DownloadStep, PTL DEF Spec

-----------------------------------------------------------------------------
(* The conflict log *)

\* Stamps are drawn once, so the records form a line; a handler that has drawn
\* one but not inserted its record yet may be overtaken.
StampsOnce ==
  /\ IsFiniteSet(logged)
  /\ \A c, d \in logged : c.at = d.at => c = d
  /\ \A c \in logged : c.at <= lastStamp

StampPending(r) ==
  pc[r] = "record_conflict" =>
    /\ loc[r].stamp <= lastStamp
    /\ \A c \in logged : c.at # loc[r].stamp
    /\ \A q \in Requests \ {r} : pc[q] = "record_conflict" => loc[q].stamp # loc[r].stamp

ConflictInv ==
  /\ StampsOnce /\ \A r \in Requests : StampPending(r)
  /\ ConflictLogKeepsNewest /\ Cardinality(conflicts) <= MaxConflicts

LEMMA LeastNumber ==
  ASSUME NEW T \in SUBSET Nat, T # {}
  PROVE  \E x \in T : \A y \in T : x <= y
<1>1. PICK R : R = {ss \in Nat \X Nat : ss[1] < ss[2]}
  OBVIOUS
<1>2. IsWellFoundedOn(R, Nat)
  BY <1>1, NatLessThanWellFounded DEF OpToRel
<1>3. PICK x \in T : \A y \in T : ~(<<y, x>> \in R)
  BY <1>2, WFMin
<1>4. ASSUME NEW y \in T PROVE x <= y
  <2>1. x \in Nat /\ y \in Nat /\ ~(<<y, x>> \in R)
    BY <1>3
  <2>2. ~(y < x)
    BY <1>1, <2>1
  <2> QED
    BY <2>1, <2>2
<1> QED
  BY <1>4

LEMMA PartOfFinite ==
  ASSUME NEW S, IsFiniteSet(S), NEW T \in SUBSET S
  PROVE  /\ IsFiniteSet(T) /\ Cardinality(T) \in Nat /\ Cardinality(S) \in Nat
         /\ Cardinality(T) <= Cardinality(S)
         /\ T # S => Cardinality(T) < Cardinality(S)
<1>1. IsFiniteSet(T) /\ Cardinality(T) <= Cardinality(S) /\ (Cardinality(S) = Cardinality(T) => S = T)
  BY FS_Subset
<1>2. Cardinality(T) \in Nat /\ Cardinality(S) \in Nat
  BY <1>1, FS_CardinalityType
<1> QED
  BY <1>1, <1>2

\* The newer a record, the fewer are newer still.
LEMMA FewerNewer ==
  ASSUME NEW S, IsFiniteSet(S), \A c \in S : c.at \in Nat,
         NEW x \in S, NEW y \in S, x.at < y.at
  PROVE  /\ Cardinality({d \in S : d.at > x.at}) \in Nat
         /\ Cardinality({d \in S : d.at > y.at}) \in Nat
         /\ Cardinality({d \in S : d.at > y.at}) < Cardinality({d \in S : d.at > x.at})
<1>1. PICK A : A = {d \in S : d.at > x.at}
  OBVIOUS
<1>2. PICK B : B = {d \in S : d.at > y.at}
  OBVIOUS
<1>3. B \in SUBSET A
  BY <1>1, <1>2
<1>4. y \in A /\ y \notin B
  BY <1>1, <1>2
<1>5. IsFiniteSet(A)
  BY <1>1, PartOfFinite
<1> QED
  BY <1>1, <1>2, <1>3, <1>4, <1>5, PartOfFinite

\* Trimming keeps the newest, as many as the limit if it drops any, and never
\* more.
LEMMA NewestFacts ==
  ASSUME NEW S, IsFiniteSet(S), \A c \in S : c.at \in Nat,
         \A c, d \in S : c.at = d.at => c = d, NEW m \in Nat, NEW N, N = NewestOf(S, m)
  PROVE  /\ N \in SUBSET S /\ Cardinality(N) \in Nat /\ Cardinality(N) <= m
         /\ \A x \in N, d \in S \ N : d.at < x.at
         /\ N # S => Cardinality(N) = m
<1>1. N \in SUBSET S
  BY DEF NewestOf
<1>2. IsFiniteSet(N) /\ Cardinality(N) \in Nat
  BY <1>1, PartOfFinite
<1>3. ASSUME NEW x \in N, NEW d \in S \ N PROVE d.at < x.at
  <2>1. x \in S /\ Cardinality({e \in S : e.at > x.at}) < m
    BY DEF NewestOf
  <2>2. ~(Cardinality({e \in S : e.at > d.at}) < m)
    BY DEF NewestOf
  <2>3. x.at \in Nat /\ d.at \in Nat /\ x.at # d.at
    BY <2>1
  <2>4. ~(x.at < d.at)
    <3> SUFFICES ASSUME x.at < d.at PROVE FALSE
      OBVIOUS
    <3>1. PICK a, b : a = Cardinality({e \in S : e.at > x.at}) /\ b = Cardinality({e \in S : e.at > d.at})
      OBVIOUS
    <3>2. a \in Nat /\ b \in Nat /\ b < a
      BY <2>1, <3>1, FewerNewer
    <3> QED
      BY <2>1, <2>2, <3>1, <3>2
  <2> QED
    BY <2>3, <2>4
<1>4. Cardinality(N) <= m
  <2>1. CASE N = {}
    BY <1>2, <2>1, FS_EmptySet
  <2>2. CASE N # {}
    <3>1. PICK T : T = {c.at : c \in N}
      OBVIOUS
    <3>2. T \in SUBSET Nat /\ T # {}
      BY <1>1, <2>2, <3>1
    <3>3. PICK t \in T : \A u \in T : t <= u
      BY <3>2, LeastNumber
    <3>4. PICK x \in N : t = x.at
      BY <3>1, <3>3
    <3>5. PICK A : A = {e \in S : e.at > x.at}
      OBVIOUS
    <3>6. A \in SUBSET S /\ x \notin A /\ Cardinality(A) < m
      BY <1>1, <3>5 DEF NewestOf
    <3>7. IsFiniteSet(A) /\ Cardinality(A) \in Nat
      BY <3>6, PartOfFinite
    <3>8. IsFiniteSet(A \cup {x}) /\ Cardinality(A \cup {x}) = Cardinality(A) + 1
      BY <3>6, <3>7, FS_AddElement
    <3>9. N \in SUBSET (A \cup {x})
      <4> SUFFICES ASSUME NEW c \in N, c # x PROVE c \in A
        OBVIOUS
      <4>1. c.at \in T /\ c \in S /\ x \in S
        BY <1>1, <3>1
      <4>2. t <= c.at /\ c.at # x.at /\ c.at \in Nat /\ x.at \in Nat
        BY <3>3, <4>1
      <4> QED
        BY <3>4, <3>5, <4>1, <4>2
    <3>10. Cardinality(N) <= Cardinality(A \cup {x})
      BY <3>8, <3>9, PartOfFinite
    <3> QED
      BY <1>2, <3>6, <3>7, <3>8, <3>10
  <2> QED
    BY <2>1, <2>2
<1>5. ASSUME N # S PROVE Cardinality(N) >= m
  <2>0. PICK D : D = S \ N
    OBVIOUS
  <2>f. PICK f : f = [c \in S |-> Cardinality({e \in S : e.at > c.at})]
    OBVIOUS
  <2>1. PICK T : T = {f[c] : c \in D}
    OBVIOUS
  <2>2. \A c \in S : Cardinality({e \in S : e.at > c.at}) \in Nat
    BY PartOfFinite
  <2>3. T \in SUBSET Nat /\ T # {}
    <3>1. D # {} /\ \A c \in D : c \in S
      BY <1>1, <1>5, <2>0
    <3>2. \A c \in D : f[c] \in Nat
      BY <2>2, <2>f, <3>1
    <3> QED
      BY <2>1, <3>1, <3>2
  <2>4. PICK t \in T : \A u \in T : t <= u
    BY <2>3, LeastNumber
  <2>5. PICK z \in S \ N : t = Cardinality({e \in S : e.at > z.at})
    BY <2>0, <2>1, <2>4, <2>f
  <2>6. PICK A : A = {e \in S : e.at > z.at}
    OBVIOUS
  <2>7. A \in SUBSET N
    <3> SUFFICES ASSUME NEW e \in S \ N, e.at > z.at PROVE FALSE
      BY <2>6
    <3>1. PICK u : u = Cardinality({d \in S : d.at > e.at})
      OBVIOUS
    <3>2. u \in T
      BY <2>0, <2>1, <2>f, <3>1
    <3>3. z.at < e.at
      OBVIOUS
    <3>4. u \in Nat /\ t \in Nat /\ u < t
      <4>1. z \in S /\ e \in S
        OBVIOUS
      <4>2. /\ Cardinality({d \in S : d.at > z.at}) \in Nat
            /\ Cardinality({d \in S : d.at > e.at}) \in Nat
            /\ Cardinality({d \in S : d.at > e.at}) < Cardinality({d \in S : d.at > z.at})
        BY <3>3, <4>1, FewerNewer
      <4> QED
        BY <2>5, <3>1, <4>2, Zenon
    <3> QED
      BY <2>4, <3>2, <3>4
  <2>8. ~(Cardinality(A) < m)
    BY <2>5, <2>6 DEF NewestOf
  <2>9. Cardinality(A) \in Nat /\ Cardinality(A) <= Cardinality(N)
    BY <1>2, <2>7, PartOfFinite
  <2> QED
    BY <1>2, <2>8, <2>9
<1> QED
  BY <1>1, <1>2, <1>3, <1>4, <1>5

\* Records with stamps of their own; one with yet another stamp; the newest
\* of them, up to m.
Lined(L) ==
  IsFiniteSet(L) /\ (\A d \in L : d.at \in Nat) /\ \A d, e \in L : d.at = e.at => d = e
Fresh(c, L) == c.at \in Nat /\ \A d \in L : d.at # c.at
NewestPart(C, L, m) ==
  /\ C \in SUBSET L /\ \A x \in C, d \in L \ C : d.at < x.at
  /\ C # L => Cardinality(C) = m

\* Inserting a record with a stamp of its own, however old, keeps the log the
\* newest part of all that was inserted.
LEMMA InsertKeepsNewest ==
  ASSUME NEW L, NEW C, NEW c, NEW m \in Nat, Lined(L), Fresh(c, L), NewestPart(C, L, m),
         NEW N, N = NewestOf(C \cup {c}, m)
  PROVE  NewestPart(N, L \cup {c}, m) /\ Cardinality(N) <= m
<1> USE DEF Lined, Fresh, NewestPart
<1>1. PICK S : S = C \cup {c}
  OBVIOUS
<1>2. c \notin L /\ IsFiniteSet(C) /\ Cardinality(C) \in Nat
  BY PartOfFinite
<1>3. IsFiniteSet(S) /\ Cardinality(S) = Cardinality(C) + 1
  BY <1>1, <1>2, FS_AddElement
<1>4. /\ \A d \in S : d.at \in Nat
      /\ \A d, e \in S : d.at = e.at => d = e
  BY <1>1
<1>5. /\ N \in SUBSET S /\ Cardinality(N) \in Nat /\ Cardinality(N) <= m
      /\ \A x \in N, d \in S \ N : d.at < x.at
      /\ N # S => Cardinality(N) = m
  <2>1. N = NewestOf(S, m)
    BY <1>1
  <2> QED
    BY <1>3, <1>4, <2>1, NewestFacts, Zenon
<1>6. C # L => N # S
  <2> SUFFICES ASSUME C # L, N = S PROVE FALSE
    OBVIOUS
  <2>1. Cardinality(N) = m + 1
    BY <1>3
  <2> QED
    BY <1>5, <2>1
<1>7. ASSUME NEW x \in N, NEW d \in (L \cup {c}) \ N PROVE d.at < x.at
  <2>1. CASE d \in S
    BY <1>5, <2>1
  <2>2. CASE d \notin S
    <3>1. d \in L \ C
      BY <1>1, <2>2
    <3>2. CASE x \in C
      BY <3>1, <3>2
    <3>3. CASE x = c
      <4>1. PICK e \in S : e \notin N
        BY <1>5, <1>6, <3>1
      <4>2. e \in C
        BY <1>1, <3>3, <4>1
      <4>3. d.at < e.at /\ e.at < x.at
        BY <1>5, <3>1, <4>1, <4>2
      <4>4. d.at \in Nat /\ e.at \in Nat /\ x.at \in Nat
        BY <3>1, <3>3, <4>2
      <4> QED
        BY <4>3, <4>4
    <3> QED
      BY <1>1, <1>5, <3>2, <3>3
  <2> QED
    BY <2>1, <2>2
<1>8. ASSUME N # L \cup {c} PROVE Cardinality(N) = m
  BY <1>1, <1>5, <1>6, <1>8
<1> QED
  BY <1>1, <1>5, <1>7, <1>8
\* Only a failed precondition draws a stamp, and only the record of it enters
\* the log.
LEMMA OnlyConflictsLog ==
  ASSUME TypeOK, NEW r \in Requests, Step(r)
  PROVE  \/ RecordConflict(r) \/ RejectBlob(r) \/ RejectObject(r)
         \/ UNCHANGED <<conflicts, logged, lastStamp>> /\ pc'[r] # "record_conflict"
<1> USE DEF TypeOK
<1>1. \A l : Goto(r, l) => pc'[r] = l
  BY DEF HandlersOK, Goto
<1>2. CASE Start(r)
  <2>1. pc'[r] \in {"admit", "purge", "check_deleted"}
    BY <1>1, <1>2 DEF Start
  <2> QED
    BY <1>2, <2>1 DEF Start, tables, history
<1>3. CASE Admit(r)
  <2>1. call[r].op \in SyncOps
    BY <1>3 DEF Admit, HandlersOK, Serves
  <2> QED
    BY <1>1, <1>3, <2>1 DEF Admit, Reply, FirstStep, SyncOps, tables, history
<1>4. CASE \/ Refuse(r) \/ ReadMetadata(r) \/ ReadBlob(r) \/ ReadBlobEtag(r)
           \/ ReadObject(r) \/ ReadObjectEtag(r) \/ ReadExisting(r) \/ SkipRefresh(r)
           \/ BeginRefresh(r) \/ MeasureBlob(r) \/ MeasureObjects(r) \/ CheckDeleted(r)
           \/ CheckMetadata(r) \/ CheckObjects(r) \/ Finish(r) \/ StorageError(r)
  BY <1>1, <1>4 DEF Refuse, ReadMetadata, ReadBlob, ReadBlobEtag, ReadObject,
     ReadObjectEtag, ReadExisting, SkipRefresh, BeginRefresh, MeasureBlob,
     MeasureObjects, CheckDeleted, CheckMetadata, CheckObjects, Finish,
     StorageError, Reply, ReplyWithEtag, tables, history
<1>5. CASE \/ WriteMetadata(r) \/ WriteBlob(r) \/ WriteObject(r) \/ RemoveObject(r)
           \/ WriteUsage(r) \/ CreateNamespace(r) \/ SoftDelete(r) \/ Restore(r) \/ Purge(r)
  BY <1>1, <1>5 DEF WriteMetadata, WriteBlob, WriteObject, RemoveObject, WriteUsage,
     CreateNamespace, SoftDelete, Restore, Purge, Reply, history
<1> QED
  BY <1>2, <1>3, <1>4, <1>5 DEF Step

LEMMA ConflictStep == TypeOK /\ ConflictInv /\ [Next]_vars => ConflictInv'
<1> SUFFICES ASSUME TypeOK, ConflictInv, [Next]_vars PROVE ConflictInv'
  OBVIOUS
<1>0. /\ lastStamp \in Nat /\ MaxConflicts \in Nat
      /\ \A c \in logged : c.at \in Nat
      /\ \A r \in Requests : loc[r].stamp \in Nat
  BY BoundsAssumption DEF TypeOK, TablesOK, HistoryOK, HandlersOK, ConflictRecord, Locals
<1>1. ASSUME NEW r \in Requests, Step(r) PROVE ConflictInv'
  <2>1. \A q \in Requests \ {r} : pc'[q] = pc[q] /\ loc'[q] = loc[q]
    BY <1>1, StepIsLocal
  <2>2. \A l : Goto(r, l) => pc'[r] = l
    BY DEF TypeOK, HandlersOK, Goto
  <2>3. CASE UNCHANGED <<conflicts, logged, lastStamp>> /\ pc'[r] # "record_conflict"
    <3>1. StampsOnce' /\ ConflictLogKeepsNewest' /\ Cardinality(conflicts') <= MaxConflicts
      BY <2>3 DEF ConflictInv, StampsOnce, ConflictLogKeepsNewest
    <3>2. \A q \in Requests : StampPending(q)'
      BY <2>1, <2>3 DEF ConflictInv, StampPending
    <3> QED
      BY <3>1, <3>2 DEF ConflictInv
  <2>4. CASE RejectBlob(r) \/ RejectObject(r)
    <3>1. Conflict(r)
      BY <2>4 DEF RejectBlob, RejectObject
    <3>2. CASE MaxConflicts = 0
      <4>1. UNCHANGED <<conflicts, logged, lastStamp>> /\ pc'[r] # "record_conflict"
        BY <2>2, <3>1, <3>2 DEF Conflict, ReplyWithEtag, tables, history
      <4> QED
        BY <2>3, <4>1
    <3>3. CASE MaxConflicts # 0
      <4>1. /\ UNCHANGED <<conflicts, logged>> /\ lastStamp' = lastStamp + 1
            /\ KeepConflict(r, ItemEtag(Item(r)), lastStamp + 1)
        BY <3>1, <3>3 DEF Conflict, tables, history
      <4>2. loc'[r].stamp = lastStamp + 1
        BY <4>1 DEF KeepConflict, TypeOK, HandlersOK, Locals
      <4>3. StampsOnce'
        BY <1>0, <4>1 DEF ConflictInv, StampsOnce
      <4>4. ConflictLogKeepsNewest' /\ Cardinality(conflicts') <= MaxConflicts
        BY <4>1 DEF ConflictInv, ConflictLogKeepsNewest
      <4>5. \A c \in logged' : c.at # lastStamp + 1 /\ c.at <= lastStamp
        BY <1>0, <4>1 DEF ConflictInv, StampsOnce
      <4>6. ASSUME NEW q \in Requests \ {r} PROVE StampPending(q)'
        <5> SUFFICES ASSUME pc'[q] = "record_conflict" PROVE StampPending(q)'
          BY DEF StampPending
        <5>1. pc[q] = "record_conflict" /\ loc'[q] = loc[q] /\ loc[q].stamp \in Nat
          BY <1>0, <2>1
        <5>2. /\ loc[q].stamp <= lastStamp
              /\ \A c \in logged : c.at # loc[q].stamp
              /\ \A p \in Requests \ {q} : pc[p] = "record_conflict" => loc[p].stamp # loc[q].stamp
          BY <5>1 DEF ConflictInv, StampPending
        <5>3. loc[q].stamp <= lastStamp' /\ loc[q].stamp # lastStamp + 1
          BY <1>0, <4>1, <5>1, <5>2
        <5>4. \A p \in Requests \ {q} :
                pc'[p] = "record_conflict" => loc'[p].stamp # loc'[q].stamp
          BY <2>1, <4>2, <5>1, <5>2, <5>3
        <5> QED
          BY <4>1, <5>1, <5>2, <5>3, <5>4 DEF StampPending
      <4>7. StampPending(r)'
        <5>1. \A q \in Requests \ {r} : pc'[q] = "record_conflict" => loc'[q].stamp # lastStamp + 1
          BY <1>0, <2>1 DEF ConflictInv, StampPending
        <5>2. lastStamp + 1 <= lastStamp'
          BY <1>0, <4>1
        <5> QED
          BY <4>2, <4>5, <5>1, <5>2 DEF StampPending
      <4> QED
        BY <4>3, <4>4, <4>6, <4>7 DEF ConflictInv
    <3> QED
      BY <3>2, <3>3
  <2>5. CASE RecordConflict(r)
    <3>1. PICK c : c = [at |-> loc[r].stamp, item |-> Item(r),
                        requested |-> call[r].etag, remote |-> loc[r].etag]
      OBVIOUS
    <3>2. /\ pc[r] = "record_conflict" /\ pc'[r] = "reply"
          /\ conflicts' = NewestOf(conflicts \cup {c}, MaxConflicts)
          /\ logged' = logged \cup {c} /\ lastStamp' = lastStamp
      BY <2>2, <2>5, <3>1 DEF RecordConflict, Reply
    <3>3. c.at = loc[r].stamp /\ c.at \in Nat
      BY <1>0, <3>1
    <3>4. c.at <= lastStamp /\ \A d \in logged : d.at # c.at
      BY <3>2, <3>3 DEF ConflictInv, StampPending
    <3>5. /\ IsFiniteSet(logged)
          /\ \A d, e \in logged : d.at = e.at => d = e
          /\ \A d \in logged : d.at <= lastStamp
      BY DEF ConflictInv, StampsOnce
    <3>6. Lined(logged) /\ Fresh(c, logged) /\ NewestPart(conflicts, logged, MaxConflicts)
      BY <1>0, <3>3, <3>4, <3>5 DEF Lined, Fresh, NewestPart, ConflictInv, ConflictLogKeepsNewest
    <3>7. NewestPart(conflicts', logged', MaxConflicts) /\ Cardinality(conflicts') <= MaxConflicts
      BY <1>0, <3>2, <3>6, InsertKeepsNewest
    <3>8. ConflictLogKeepsNewest' /\ Cardinality(conflicts') <= MaxConflicts
      BY <3>7 DEF ConflictLogKeepsNewest, NewestPart
    <3>9. StampsOnce'
      <4>1. IsFiniteSet(logged')
        BY <3>2, <3>5, FS_AddElement
      <4>2. \A d, e \in logged' : d.at = e.at => d = e
        BY <3>2, <3>4, <3>5
      <4>3. \A d \in logged' : d.at <= lastStamp'
        BY <3>2, <3>4, <3>5
      <4> QED
        BY <4>1, <4>2, <4>3 DEF StampsOnce
    <3>10. ASSUME NEW q \in Requests PROVE StampPending(q)'
      <4> SUFFICES ASSUME pc'[q] = "record_conflict" PROVE StampPending(q)'
        BY DEF StampPending
      <4>1. q # r /\ pc[q] = "record_conflict" /\ loc'[q] = loc[q]
        BY <2>1, <3>2
      <4>2. /\ loc[q].stamp <= lastStamp
            /\ \A d \in logged : d.at # loc[q].stamp
            /\ \A p \in Requests \ {q} : pc[p] = "record_conflict" => loc[p].stamp # loc[q].stamp
        BY <4>1 DEF ConflictInv, StampPending
      <4>3. \A d \in logged' : d.at # loc[q].stamp
        BY <3>2, <3>3, <4>1, <4>2
      <4>4. \A p \in Requests \ {q} :
              pc'[p] = "record_conflict" => loc'[p].stamp # loc[q].stamp
        BY <2>1, <3>2, <4>1, <4>2
      <4> QED
        BY <3>2, <4>1, <4>2, <4>3, <4>4 DEF StampPending
    <3> QED
      BY <3>8, <3>9, <3>10 DEF ConflictInv
  <2> QED
    BY <1>1, <2>3, <2>4, <2>5, OnlyConflictsLog
<1>2. CASE Crash
  BY <1>2 DEF Crash, tables, history, ConflictInv, StampsOnce, StampPending, ConflictLogKeepsNewest
<1>3. CASE Quiet \/ UNCHANGED vars
  BY <1>3 DEF Quiet, vars, tables, history, ConflictInv, StampsOnce, StampPending, ConflictLogKeepsNewest
<1> QED
  BY <1>1, <1>2, <1>3 DEF Next

\* The conflict log holds the newest of all the records ever inserted, as many
\* as fit, in whatever order handlers that drew their stamps come to insert.
THEOREM LogKeepsNewest == Spec => []ConflictLogKeepsNewest
<1>1. Init => ConflictInv
  <2> SUFFICES ASSUME Init PROVE ConflictInv
    OBVIOUS
  <2>1. logged = {} /\ conflicts = {} /\ \A r \in Requests : pc[r] = "idle"
    BY DEF Init
  <2>2. IsFiniteSet(logged) /\ Cardinality(conflicts) = 0
    BY <2>1, FS_EmptySet
  <2> QED
    BY <2>1, <2>2, BoundsAssumption DEF ConflictInv, StampsOnce, StampPending, ConflictLogKeepsNewest
<1>2. ConflictInv => ConflictLogKeepsNewest
  BY DEF ConflictInv
<1> QED
  BY <1>1, <1>2, TypeCorrect, ConflictStep, PTL DEF Spec
-----------------------------------------------------------------------------
(* Handlers that do not meet *)

\* Requests in flight are about different namespaces: above all, a single one
\* is.  Snapshots, objects, tombstones and usage rows of a namespace are then
\* in the hands of one handler, while ETags and conflicts are still shared.
Disjoint ==
  \A r, q \in Requests :
    r # q /\ pc[r] # "idle" /\ pc[q] # "idle" => call[r].ns # call[q].ns

Writing == {"read_existing", "write_metadata", "write_blob", "write_object", "remove_object"}
Creating == {"check_objects", "create_namespace"}
Refreshing == {"stale", "measure_blob", "measure_objects", "write_usage"}

\* Alone in its namespace, a handler finds the tables as it read them.
StillTrue(r) ==
  /\ pc[r] \in {"write_metadata", "write_blob"} => loc[r].meta = meta[call[r].ns]
  /\ pc[r] \in Writing \cup Creating \cup {"check_metadata"} => call[r].ns \notin deleted
  /\ pc[r] \in Creating => meta[call[r].ns] = None
  /\ pc[r] = "soft_delete" => meta[call[r].ns] # None \/ ObjectsOf(call[r].ns) # {}

\* A snapshot exists for clients, and nothing stored is newer than the newest
\* ETag at a purge.
SnapshotsExist == \A n \in Namespaces : blob[n] # 0 => meta[n] # None /\ meta[n].exists
PurgesArePast == \A n \in Namespaces : purgedAt[n] <= lastEtag

SoloTables ==
  /\ SnapshotsExist /\ PurgesArePast
  /\ MetadataDescribesBlob /\ TombstoneHasData
  /\ SnapshotCreateOnly /\ PurgedMetadataStaysGone

SoloInv == SoloTables /\ \A r \in Requests : StillTrue(r)

\* The transactions that write neither snapshots, objects nor tombstones.
Unwritten == <<meta, blob, objects, deleted, lastEtag, accepted, purgedAt>>

LEMMA OnlyWritesTouch ==
  ASSUME NEW r \in Requests, Step(r)
  PROVE  Writes(r) \/ SoftDelete(r) \/ Restore(r) \/ UNCHANGED Unwritten
  BY DEF Step, Writes, Unwritten, tables, history, Start, Admit, Refuse, ReadMetadata,
     ReadBlob, ReadBlobEtag, ReadObject, ReadObjectEtag, ReadExisting,
     RejectBlob, RejectObject, Conflict, RecordConflict, SkipRefresh,
     BeginRefresh, MeasureBlob, MeasureObjects, WriteUsage, CheckDeleted,
     CheckMetadata, CheckObjects, Finish, StorageError

LEMMA SameObjects ==
  ASSUME NEW n, \A k \in KeysOf(n) : objects'[k] = objects[k]
  PROVE  ObjectsOf(n)' = ObjectsOf(n)
  BY DEF ObjectsOf, KeysOf

LEMMA ContentFacts ==
  ASSUME NEW m \in SyncMetadata \cup {None}, NEW v \in Nat \ {0}
  PROVE  /\ ContentOf(MetadataRow(m, v)) = ContentOf(m) /\ MetadataRow(m, v).profile = v
         /\ ContentOf(SnapshotRow(m, v)) = v /\ SnapshotRow(m, v).profile = ProfileOf(m)
         /\ ContentOf(EmptyMetadata) = 0 /\ EmptyMetadata.profile = 0 /\ ContentOf(None) = 0
<1>1. MetadataRow(m, v) # None /\ SnapshotRow(m, v) # None /\ EmptyMetadata # None
  BY RowFacts
<1>2. /\ MetadataRow(m, v).content = ContentOf(m) /\ MetadataRow(m, v).profile = v
      /\ SnapshotRow(m, v).content = v /\ SnapshotRow(m, v).profile = ProfileOf(m)
      /\ EmptyMetadata.content = 0 /\ EmptyMetadata.profile = 0
  BY DEF MetadataRow, SnapshotRow, EmptyMetadata
<1> QED
  BY <1>1, <1>2 DEF ContentOf

\* What a handler is about to do rests on what it has just read.
LEMMA SoloReads ==
  ASSUME SafetyInv, NEW r \in Requests, StillTrue(r), Step(r)
  PROVE  StillTrue(r)'
<1> USE DEF SafetyInv, TypeOK
<1>1. \A l : Goto(r, l) => pc'[r] = l
  BY DEF HandlersOK, Goto
<1> DEFINE Relying == Writing \cup Creating \cup {"check_metadata", "soft_delete"}
<1>2. ASSUME pc'[r] \notin Relying PROVE StillTrue(r)'
  BY <1>2 DEF StillTrue, Writing, Creating
<1>3. CASE Start(r)
  <2>1. pc'[r] \in {"admit", "purge", "check_deleted"}
    BY <1>1, <1>3 DEF Start
  <2> QED
    BY <1>2, <2>1 DEF Writing, Creating
<1>4. CASE Admit(r)
  <2>1. call[r].op \in SyncOps /\ UNCHANGED <<call, deleted>>
    BY <1>4 DEF Admit, HandlersOK, Serves, tables
  <2>2. \/ pc'[r] = "reply"
        \/ /\ call[r].ns \notin deleted
           /\ pc'[r] \in {"read_metadata", "read_blob", "read_object", "read_existing",
                          "write_object", "remove_object"}
    BY <1>1, <1>4, <2>1 DEF Admit, Reply, FirstStep, SyncOps
  <2> QED
    BY <2>1, <2>2 DEF StillTrue, Writing, Creating
<1>5. CASE ReadExisting(r)
  <2>1. /\ pc[r] = "read_existing" /\ pc'[r] \in {"write_blob", "write_metadata"}
        /\ loc'[r].meta = meta[call[r].ns] /\ UNCHANGED <<meta, deleted, call>>
    BY <1>1, <1>5 DEF ReadExisting, KeepMeta, HandlersOK, Locals, tables
  <2>2. call[r].ns \notin deleted
    BY <2>1 DEF StillTrue, Writing
  <2> QED
    BY <2>1, <2>2 DEF StillTrue, Writing, Creating
<1>6. CASE CheckDeleted(r)
  <2>1. UNCHANGED <<call, deleted>>
    BY <1>6 DEF CheckDeleted, tables
  <2>2. pc'[r] \in {"restore", "reply"} \/ (pc'[r] = "check_metadata" /\ call[r].ns \notin deleted)
    BY <1>1, <1>6 DEF CheckDeleted, Reply
  <2> QED
    BY <2>1, <2>2 DEF StillTrue, Writing, Creating
<1>7. CASE CheckMetadata(r)
  <2>1. UNCHANGED <<call, deleted, meta, objects>> /\ call[r].ns \notin deleted
    BY <1>7 DEF CheckMetadata, tables, StillTrue
  <2>2. \/ pc'[r] = "reply"
        \/ pc'[r] = "check_objects" /\ meta[call[r].ns] = None
        \/ pc'[r] = "soft_delete" /\ meta[call[r].ns] # None
    BY <1>1, <1>7 DEF CheckMetadata, Reply
  <2> QED
    BY <2>1, <2>2 DEF StillTrue, Writing, Creating
<1>8. CASE CheckObjects(r)
  <2>1. /\ UNCHANGED <<call, deleted, meta, objects>>
        /\ call[r].ns \notin deleted /\ meta[call[r].ns] = None
    BY <1>8 DEF CheckObjects, tables, StillTrue, Creating
  <2>2. \/ pc'[r] \in {"reply", "create_namespace"}
        \/ pc'[r] = "soft_delete" /\ ObjectsOf(call[r].ns) # {}
    BY <1>1, <1>8 DEF CheckObjects, Reply
  <2>3. ObjectsOf(call[r].ns)' = ObjectsOf(call[r].ns)
    BY <2>1 DEF ObjectsOf, KeysOf
  <2> QED
    BY <2>1, <2>2, <2>3 DEF StillTrue, Writing, Creating
<1>9. CASE ~(\/ Start(r) \/ Admit(r) \/ ReadExisting(r) \/ CheckDeleted(r)
             \/ CheckMetadata(r) \/ CheckObjects(r))
  <2>1. pc'[r] \in {"idle", "reply", "read_etag", "read_object_etag", "record_conflict",
                    "stale", "measure_blob", "measure_objects", "write_usage"}
    BY <1>1, <1>9 DEF Step, Refuse, ReadMetadata, ReadBlob, ReadBlobEtag, ReadObject,
       ReadObjectEtag, WriteMetadata, WriteBlob, WriteObject, RemoveObject,
       RejectBlob, RejectObject, Conflict, RecordConflict, SkipRefresh,
       BeginRefresh, MeasureBlob, MeasureObjects, WriteUsage, CreateNamespace,
       SoftDelete, Restore, Purge, Finish, StorageError, Reply, ReplyWithEtag
  <2> QED
    BY <1>2, <2>1 DEF Writing, Creating
<1> QED
  BY <1>3, <1>4, <1>5, <1>6, <1>7, <1>8, <1>9

\* What a handler writes on what it has read keeps the tables in order.
LEMMA SoloWrites ==
  ASSUME SafetyInv, SoloTables, NEW r \in Requests, StillTrue(r), Step(r)
  PROVE  SoloTables'
<1> USE DEF SafetyInv, TypeOK
<1>1. CASE UNCHANGED Unwritten
  <2>1. UNCHANGED <<meta, blob, objects, deleted, lastEtag, accepted, purgedAt>>
    BY <1>1 DEF Unwritten
  <2>2. \A n : ObjectsOf(n)' = ObjectsOf(n)
    BY <2>1 DEF ObjectsOf, KeysOf
  <2> QED
    BY <2>1, <2>2 DEF SoloTables, SnapshotsExist, PurgesArePast, MetadataDescribesBlob,
       TombstoneHasData, SnapshotCreateOnly, PurgedMetadataStaysGone
<1>2. ASSUME Writes(r) \/ SoftDelete(r) \/ Restore(r) PROVE SoloTables'
  <2>0. pc[r] # "idle" /\ lastEtag \in Nat /\ lastEtag + 1 \in Nat \ {0}
    BY <1>2 DEF TablesOK, Writes, WriteMetadata, WriteBlob, WriteObject,
                RemoveObject, CreateNamespace, Purge, SoftDelete, Restore
  <2>1. PICK n : n = call[r].ns
    OBVIOUS
  <2>2. /\ n \in Namespaces /\ loc[r].meta \in SyncMetadata \cup {None}
        /\ \A m \in Namespaces : /\ meta[m] \in SyncMetadata \cup {None} /\ blob[m] \in Nat
                                 /\ purgedAt[m] \in Nat /\ purgedAt[m] <= lastEtag
    BY <2>0, <2>1, Target DEF HandlersOK, Locals, TablesOK, HistoryOK, SoloTables, PurgesArePast
  <2>3. CASE WriteMetadata(r)
    <3>1. PICK row : row = MetadataRow(loc[r].meta, lastEtag + 1)
      OBVIOUS
    <3>2. /\ \A m \in Namespaces : meta'[m] = IF m = n THEN row ELSE meta[m]
          /\ UNCHANGED <<blob, objects, deleted, accepted, purgedAt>> /\ lastEtag' = lastEtag + 1
      BY <2>1, <2>2, <2>3, <3>1 DEF WriteMetadata, TablesOK, history
    <3>3. loc[r].meta = meta[n]
      BY <2>1, <2>3 DEF WriteMetadata, StillTrue
    <3>4. row # None /\ row.exists /\ ContentOf(row) = ContentOf(meta[n]) /\ row.profile = lastEtag + 1
      BY <2>0, <2>2, <3>1, <3>3, RowFacts, ContentFacts
    <3>5. \A m : ObjectsOf(m)' = ObjectsOf(m)
      BY <3>2 DEF ObjectsOf, KeysOf
    <3>6. SnapshotsExist' /\ MetadataDescribesBlob'
      BY <3>2, <3>4 DEF SoloTables, SnapshotsExist, MetadataDescribesBlob
    <3>7. PurgesArePast' /\ PurgedMetadataStaysGone'
      BY <2>0, <2>2, <3>2, <3>4 DEF SoloTables, PurgesArePast, PurgedMetadataStaysGone
    <3>8. TombstoneHasData' /\ SnapshotCreateOnly'
      BY <3>2, <3>4, <3>5 DEF SoloTables, TombstoneHasData, SnapshotCreateOnly, TablesOK
    <3> QED
      BY <3>6, <3>7, <3>8 DEF SoloTables
  <2>4. CASE WriteBlob(r)
    <3>1. PICK row : row = SnapshotRow(loc[r].meta, lastEtag + 1)
      OBVIOUS
    <3>2. /\ \A m \in Namespaces : /\ meta'[m] = IF m = n THEN row ELSE meta[m]
                                   /\ blob'[m] = IF m = n THEN lastEtag + 1 ELSE blob[m]
          /\ UNCHANGED <<objects, deleted, purgedAt>> /\ lastEtag' = lastEtag + 1
      BY <2>1, <2>2, <2>4, <3>1 DEF WriteBlob, PutSnapshot, TablesOK
    <3>3. loc[r].meta = meta[n] /\ n \notin deleted
      BY <2>1, <2>4 DEF WriteBlob, StillTrue, Writing
    <3>4. /\ row # None /\ row.exists
          /\ ContentOf(row) = lastEtag + 1 /\ row.profile = ProfileOf(meta[n])
      BY <2>0, <2>2, <3>1, <3>3, RowFacts, ContentFacts
    <3>5. \A m : ObjectsOf(m)' = ObjectsOf(m)
      BY <3>2 DEF ObjectsOf, KeysOf
    <3>6. SnapshotsExist' /\ MetadataDescribesBlob'
      BY <3>2, <3>4 DEF SoloTables, SnapshotsExist, MetadataDescribesBlob
    <3>7. PurgesArePast'
      BY <2>0, <2>2, <3>2 DEF PurgesArePast
    <3>8. PurgedMetadataStaysGone'
      BY <3>2, <3>4 DEF SoloTables, PurgedMetadataStaysGone, ProfileOf
    <3>9. TombstoneHasData'
      BY <3>2, <3>3, <3>5 DEF SoloTables, TombstoneHasData, TablesOK
    <3>10. SnapshotCreateOnly'
      <4>1. call[r].cond = "absent" => blob[n] = 0
        BY <2>1, <2>2, <2>4 DEF WriteBlob, BlobPrecondition, SoloTables, SnapshotsExist
      <4>2. Accept(r, blob[n], ProfileOf(loc[r].meta), ProfileOf(meta[n]))
        BY <2>1, <2>4 DEF WriteBlob
      <4> QED
        BY <4>1, <4>2 DEF Accept, SoloTables, SnapshotCreateOnly
    <3> QED
      BY <3>6, <3>7, <3>8, <3>9, <3>10 DEF SoloTables
  <2>5. CASE WriteObject(r) \/ RemoveObject(r)
    <3>1. /\ UNCHANGED <<meta, blob, deleted, purgedAt>> /\ lastEtag' \in {lastEtag, lastEtag + 1}
          /\ \E v : objects' = [objects EXCEPT ![Item(r)] = v]
      BY <2>5 DEF WriteObject, RemoveObject, PutObject, history
    <3>2. n \notin deleted /\ Item(r) \in Keys /\ Item(r)[1] = n /\ Item(r)[2] # None
      <4>1. pc[r] \in {"write_object", "remove_object"}
        BY <2>5 DEF WriteObject, RemoveObject
      <4>2. Item(r) \in Keys
        BY <2>0, <4>1, Target DEF ObjectLabels
      <4> QED
        BY <2>1, <4>1, <4>2, NoneAssumption DEF StillTrue, Writing, Item, Keys
    <3>3. ASSUME NEW m \in Namespaces, m # n PROVE ObjectsOf(m)' = ObjectsOf(m)
      <4>1. \A k \in KeysOf(m) : k \in Keys /\ k # Item(r)
        BY <3>2, <3>3 DEF KeysOf, Keys, Item
      <4>2. \A k \in KeysOf(m) : objects'[k] = objects[k]
        BY <3>1, <4>1 DEF TablesOK
      <4> QED
        BY <4>2, SameObjects
    <3>4. TombstoneHasData'
      BY <3>1, <3>2, <3>3 DEF SoloTables, TombstoneHasData, TablesOK
    <3>5. SnapshotsExist' /\ MetadataDescribesBlob' /\ PurgedMetadataStaysGone'
      BY <3>1 DEF SoloTables, SnapshotsExist, MetadataDescribesBlob, PurgedMetadataStaysGone
    <3>6. PurgesArePast'
      BY <2>0, <2>2, <3>1 DEF PurgesArePast
    <3>7. SnapshotCreateOnly'
      <4>1. CASE WriteObject(r)
        BY <3>2, <4>1 DEF WriteObject, Accept, SoloTables, SnapshotCreateOnly
      <4>2. CASE RemoveObject(r)
        BY <4>2 DEF RemoveObject, history, SoloTables, SnapshotCreateOnly
      <4> QED
        BY <2>5, <4>1, <4>2
    <3> QED
      BY <3>4, <3>5, <3>6, <3>7 DEF SoloTables
  <2>6. CASE CreateNamespace(r)
    <3>1. /\ \A m \in Namespaces : meta'[m] = IF m = n THEN EmptyMetadata ELSE meta[m]
          /\ UNCHANGED <<blob, objects, deleted, lastEtag, accepted, purgedAt>>
      BY <2>1, <2>2, <2>6 DEF CreateNamespace, TablesOK, history
    <3>2. meta[n] = None
      BY <2>1, <2>6 DEF CreateNamespace, StillTrue, Creating
    <3>3. EmptyMetadata # None /\ ContentOf(EmptyMetadata) = 0 /\ EmptyMetadata.profile = 0 /\ ContentOf(None) = 0
      BY <2>0, <2>2, RowFacts, ContentFacts
    <3>4. blob[n] = 0
      BY <2>2, <3>2, <3>3 DEF SoloTables, MetadataDescribesBlob
    <3>5. \A m : ObjectsOf(m)' = ObjectsOf(m)
      BY <3>1 DEF ObjectsOf, KeysOf
    <3>6. SnapshotsExist' /\ MetadataDescribesBlob' /\ PurgedMetadataStaysGone'
      BY <3>1, <3>3, <3>4 DEF SoloTables, SnapshotsExist, MetadataDescribesBlob, PurgedMetadataStaysGone
    <3>7. PurgesArePast' /\ SnapshotCreateOnly'
      BY <3>1 DEF SoloTables, PurgesArePast, SnapshotCreateOnly
    <3>8. TombstoneHasData'
      BY <3>1, <3>3, <3>5 DEF SoloTables, TombstoneHasData, TablesOK
    <3> QED
      BY <3>6, <3>7, <3>8 DEF SoloTables
  <2>7. CASE SoftDelete(r) \/ Restore(r)
    <3>1. UNCHANGED <<meta, blob, objects, lastEtag, accepted, purgedAt>>
      BY <2>7 DEF SoftDelete, Restore, history
    <3>2. \A m : ObjectsOf(m)' = ObjectsOf(m)
      BY <3>1 DEF ObjectsOf, KeysOf
    <3>3. \A m \in deleted' : m \in deleted \/ (m = n /\ (meta[n] # None \/ ObjectsOf(n) # {}))
      BY <2>1, <2>7 DEF SoftDelete, Restore, StillTrue
    <3>4. TombstoneHasData'
      BY <3>1, <3>2, <3>3 DEF SoloTables, TombstoneHasData
    <3> QED
      BY <3>1, <3>4 DEF SoloTables, SnapshotsExist, PurgesArePast, MetadataDescribesBlob,
         SnapshotCreateOnly, PurgedMetadataStaysGone
  <2>8. CASE Purge(r)
    <3>1. /\ \A m \in Namespaces : /\ meta'[m] = IF m = n THEN None ELSE meta[m]
                                   /\ blob'[m] = IF m = n THEN 0 ELSE blob[m]
                                   /\ purgedAt'[m] = IF m = n THEN lastEtag ELSE purgedAt[m]
          /\ deleted' = deleted \ {n} /\ UNCHANGED <<lastEtag, accepted>>
          /\ objects' = [k \in Keys |-> IF k \in StoredKeys(n) THEN 0 ELSE objects[k]]
      BY <2>1, <2>2, <2>8 DEF Purge, PutSnapshot, TablesOK, HistoryOK
    <3>2. ASSUME NEW m \in Namespaces, m # n PROVE ObjectsOf(m)' = ObjectsOf(m)
      <4>1. \A k \in KeysOf(m) : k \in Keys /\ k \notin StoredKeys(n)
        BY <3>2 DEF KeysOf, Keys, StoredKeys
      <4>2. \A k \in KeysOf(m) : objects'[k] = objects[k]
        BY <3>1, <4>1
      <4> QED
        BY <4>2, SameObjects
    <3>3. ContentOf(None) = 0
      BY DEF ContentOf
    <3>4. SnapshotsExist' /\ MetadataDescribesBlob' /\ PurgedMetadataStaysGone'
      BY <3>1, <3>3 DEF SoloTables, SnapshotsExist, MetadataDescribesBlob, PurgedMetadataStaysGone
    <3>5. PurgesArePast'
      BY <2>0, <3>1 DEF SoloTables, PurgesArePast
    <3>6. TombstoneHasData' /\ SnapshotCreateOnly'
      BY <3>1, <3>2 DEF SoloTables, TombstoneHasData, SnapshotCreateOnly, TablesOK
    <3> QED
      BY <3>4, <3>5, <3>6 DEF SoloTables
  <2> QED
    BY <1>2, <2>3, <2>4, <2>5, <2>6, <2>7, <2>8 DEF Writes
<1> QED
  BY <1>1, <1>2, OnlyWritesTouch

\* What a step leaves of a namespace that it is not about.
SameNamespace(n) ==
  /\ meta'[n] = meta[n] /\ blob'[n] = blob[n] /\ usage'[n] = usage[n]
  /\ n \in deleted' <=> n \in deleted
  /\ \A k \in KeysOf(n) : objects'[k] = objects[k]

LEMMA OtherNamespacesStay ==
  ASSUME SafetyInv, NEW r \in Requests, Step(r), NEW n \in Namespaces,
         pc[r] # "idle" => n # call[r].ns
  PROVE  SameNamespace(n)
<1> USE DEF SafetyInv, TypeOK
<1>1. CASE UNCHANGED <<meta, blob, objects, deleted, usage>>
  BY <1>1 DEF SameNamespace
<1>2. CASE WriteMetadata(r) \/ CreateNamespace(r)
  <2>1. /\ n # call[r].ns /\ UNCHANGED <<blob, objects, deleted, usage>>
        /\ \E row : meta' = [meta EXCEPT ![call[r].ns] = row]
    BY <1>2 DEF WriteMetadata, CreateNamespace
  <2> QED
    BY <2>1 DEF TablesOK, SameNamespace
<1>3. CASE WriteBlob(r)
  <2>1. /\ n # call[r].ns /\ UNCHANGED <<objects, deleted, usage>>
        /\ \E row : meta' = [meta EXCEPT ![call[r].ns] = row]
        /\ \E v : blob' = [blob EXCEPT ![call[r].ns] = v]
    BY <1>3 DEF WriteBlob, PutSnapshot
  <2> QED
    BY <2>1 DEF TablesOK, SameNamespace
<1>4. CASE WriteObject(r) \/ RemoveObject(r)
  <2>1. /\ n # call[r].ns /\ UNCHANGED <<meta, blob, deleted, usage>>
        /\ \E v : objects' = [objects EXCEPT ![Item(r)] = v]
    BY <1>4 DEF WriteObject, RemoveObject, PutObject
  <2>2. \A k \in KeysOf(n) : k \in Keys /\ k # Item(r)
    BY <2>1 DEF KeysOf, Keys, Item
  <2> QED
    BY <2>1, <2>2 DEF TablesOK, SameNamespace
<1>5. CASE WriteUsage(r)
  <2>1. /\ n # call[r].ns /\ UNCHANGED <<meta, blob, objects, deleted>>
        /\ \E row : usage' = [usage EXCEPT ![call[r].ns] = row]
    BY <1>5 DEF WriteUsage
  <2> QED
    BY <2>1 DEF TablesOK, SameNamespace
<1>6. CASE SoftDelete(r) \/ Restore(r)
  <2>1. /\ n # call[r].ns /\ UNCHANGED <<meta, blob, objects, usage>>
        /\ deleted' = deleted \cup {call[r].ns} \/ deleted' = deleted \ {call[r].ns}
    BY <1>6 DEF SoftDelete, Restore
  <2> QED
    BY <2>1 DEF SameNamespace
<1>7. CASE Purge(r)
  <2>1. /\ n # call[r].ns /\ deleted' = deleted \ {call[r].ns}
        /\ meta' = [meta EXCEPT ![call[r].ns] = None]
        /\ blob' = [blob EXCEPT ![call[r].ns] = 0]
        /\ usage' = [usage EXCEPT ![call[r].ns] = None]
        /\ objects' = [k \in Keys |-> IF k \in StoredKeys(call[r].ns) THEN 0 ELSE objects[k]]
    BY <1>7 DEF Purge, PutSnapshot
  <2>2. \A k \in KeysOf(n) : k \in Keys /\ k \notin StoredKeys(call[r].ns)
    BY <2>1 DEF KeysOf, Keys, StoredKeys
  <2>3. \A k \in KeysOf(n) : objects'[k] = objects[k]
    BY <2>1, <2>2
  <2> QED
    BY <2>1, <2>3 DEF TablesOK, SameNamespace
<1>8. CASE ~(\/ WriteMetadata(r) \/ WriteBlob(r) \/ WriteObject(r) \/ RemoveObject(r)
             \/ CreateNamespace(r) \/ WriteUsage(r) \/ SoftDelete(r) \/ Restore(r) \/ Purge(r))
  <2>1. UNCHANGED <<meta, blob, objects, deleted, usage>>
    BY <1>8 DEF Step, tables, Start, Admit, Refuse, ReadMetadata, ReadBlob, ReadBlobEtag,
       ReadObject, ReadObjectEtag, ReadExisting, RejectBlob, RejectObject, Conflict,
       RecordConflict, SkipRefresh, BeginRefresh, MeasureBlob, MeasureObjects,
       CheckDeleted, CheckMetadata, CheckObjects, Finish, StorageError
  <2> QED
    BY <1>1, <2>1
<1> QED
  BY <1>2, <1>3, <1>4, <1>5, <1>6, <1>7, <1>8

\* What the others at work see of a step.
LEMMA OthersUndisturbed ==
  ASSUME SafetyInv, Disjoint, NEW r \in Requests, Step(r), NEW q \in Requests \ {r},
         pc[q] # "idle"
  PROVE  /\ pc'[q] = pc[q] /\ call'[q] = call[q] /\ loc'[q] = loc[q]
         /\ call[q].ns \in Namespaces /\ SameNamespace(call[q].ns)
         /\ ObjectsOf(call[q].ns)' = ObjectsOf(call[q].ns)
<1>1. pc'[q] = pc[q] /\ call'[q] = call[q] /\ loc'[q] = loc[q]
  BY StepIsLocal DEF SafetyInv
<1>2. call[q].ns \in Namespaces
  BY Target DEF SafetyInv, TypeOK
<1>3. pc[r] # "idle" => call[q].ns # call[r].ns
  BY DEF Disjoint
<1>4. PICK n \in Namespaces : n = call[q].ns
  BY <1>2
<1>5. SameNamespace(n)
  BY <1>3, <1>4, OtherNamespacesStay
<1>6. ObjectsOf(n)' = ObjectsOf(n)
  BY <1>5, SameObjects DEF SameNamespace
<1>7. ObjectsOf(call[q].ns)' = ObjectsOf(n)'
  BY <1>1, <1>4 DEF ObjectsOf, KeysOf
<1> QED
  BY <1>1, <1>2, <1>4, <1>5, <1>6, <1>7

LEMMA SoloStep ==
  ASSUME Disjoint, SafetyInv, SoloInv, [Next]_vars PROVE SoloInv'
<1>1. ASSUME NEW r \in Requests, Step(r) PROVE SoloInv'
  <2>1. StillTrue(r)' /\ SoloTables'
    BY <1>1, SoloReads, SoloWrites DEF SoloInv
  <2>2. ASSUME NEW q \in Requests \ {r} PROVE StillTrue(q)'
    <3>1. CASE pc[q] = "idle"
      <4>1. pc'[q] = "idle"
        BY <1>1, <3>1, StepIsLocal DEF SafetyInv
      <4> QED
        BY <4>1 DEF StillTrue, Writing, Creating
    <3>2. CASE pc[q] # "idle"
      <4>1. /\ pc'[q] = pc[q] /\ call'[q] = call[q] /\ loc'[q] = loc[q]
            /\ SameNamespace(call[q].ns)
            /\ ObjectsOf(call[q].ns)' = ObjectsOf(call[q].ns)
        BY <1>1, <3>2, OthersUndisturbed
      <4> QED
        BY <4>1 DEF SoloInv, StillTrue, SameNamespace
    <3> QED
      BY <3>1, <3>2
  <2> QED
    BY <2>1, <2>2 DEF SoloInv
<1>2. CASE Crash \/ Quiet \/ UNCHANGED vars
  <2>1. UNCHANGED <<meta, blob, objects, deleted, lastEtag, accepted, purgedAt>>
    BY <1>2 DEF Crash, Quiet, vars, tables, history
  <2>2. \A n : ObjectsOf(n)' = ObjectsOf(n)
    BY <2>1 DEF ObjectsOf, KeysOf
  <2>3. SoloTables'
    BY <2>1, <2>2 DEF SoloInv, SoloTables, SnapshotsExist, PurgesArePast, MetadataDescribesBlob,
       TombstoneHasData, SnapshotCreateOnly, PurgedMetadataStaysGone
  <2>4. CASE Crash
    BY <2>3, <2>4 DEF Crash, SoloInv, StillTrue, Writing, Creating
  <2>5. CASE UNCHANGED vars
    <3>1. UNCHANGED <<pc, call, loc>>
      BY <2>5 DEF vars
    <3> QED
      BY <2>1, <2>2, <2>3, <3>1 DEF SoloInv, StillTrue
  <2> QED
    BY <1>2, <2>4, <2>5 DEF Quiet
<1> QED
  BY <1>1, <1>2 DEF Next

LEMMA SoloInit == Init => SoloInv
  BY DEF Init, SoloInv, SoloTables, StillTrue, Writing, Creating, SnapshotsExist,
     PurgesArePast, MetadataDescribesBlob, ContentOf, TombstoneHasData,
     SnapshotCreateOnly, PurgedMetadataStaysGone

LEMMA Solo == Spec /\ []Disjoint => []SoloInv
<1>1. Disjoint /\ SafetyInv /\ SoloInv /\ [Next]_vars => SoloInv'
  BY SoloStep
<1> QED
  BY <1>1, SoloInit, Safety, PTL DEF Spec

\* As long as no two requests in flight are about one namespace, with failures
\* and crashes: content hash and length describe the stored blob.
THEOREM MetadataIsRight == Spec /\ []Disjoint => []MetadataDescribesBlob
<1>1. SoloInv => MetadataDescribesBlob
  BY DEF SoloInv, SoloTables
<1> QED
  BY <1>1, Solo, PTL

\* Under the same condition a soft-deleted namespace has something to restore.
THEOREM TombstonesHaveData == Spec /\ []Disjoint => []TombstoneHasData
<1>1. SoloInv => TombstoneHasData
  BY DEF SoloInv, SoloTables
<1> QED
  BY <1>1, Solo, PTL

\* Under the same condition an If-None-Match: * upload never replaces a
\* snapshot.  (The run create_race shows one that meets another request.)
THEOREM SnapshotsAreCreated == Spec /\ []Disjoint => []SnapshotCreateOnly
<1>1. SoloInv => SnapshotCreateOnly
  BY DEF SoloInv, SoloTables
<1> QED
  BY <1>1, Solo, PTL

\* Under the same condition nothing stored after a purge carries format,
\* sections or scope from before it.
THEOREM PurgesAreFinal == Spec /\ []Disjoint => []PurgedMetadataStaysGone
<1>1. SoloInv => PurgedMetadataStaysGone
  BY DEF SoloInv, SoloTables
<1> QED
  BY <1>1, Solo, PTL

\* Under the same condition no step changes what a soft-deleted namespace
\* stores, as long as it is soft-deleted.
THEOREM TombstonesFreeze == Spec /\ []Disjoint => SoftDeletedIsFrozen
<1>1. ASSUME SafetyInv, SoloInv, [Next]_vars, NEW n \in deleted \cap deleted'
      PROVE  /\ meta'[n] = meta[n] /\ blob'[n] = blob[n]
             /\ \A k \in KeysOf(n) : objects'[k] = objects[k]
  <2>0. n \in Namespaces
    BY <1>1 DEF SafetyInv, TypeOK, TablesOK
  <2>1. CASE UNCHANGED data
    BY <2>1 DEF data
  <2>2. ASSUME NEW r \in Requests, Writes(r)
        PROVE  /\ meta'[n] = meta[n] /\ blob'[n] = blob[n]
               /\ \A k \in KeysOf(n) : objects'[k] = objects[k]
    <3>1. n # call[r].ns
      <4>1. CASE Purge(r)
        BY <4>1 DEF Purge
      <4>2. CASE ~Purge(r)
        <5>1. pc[r] \in Writing \cup Creating
          BY <2>2, <4>2 DEF Writes, WriteMetadata, WriteBlob, WriteObject, RemoveObject,
             CreateNamespace, Writing, Creating
        <5> QED
          BY <1>1, <5>1 DEF SoloInv, StillTrue
      <4> QED
        BY <4>1, <4>2
    <3>2. \A k \in KeysOf(n) : k \in Keys /\ k # Item(r) /\ k \notin StoredKeys(call[r].ns)
      BY <2>0, <3>1 DEF KeysOf, Keys, Item, StoredKeys
    <3>3. meta'[n] = meta[n] /\ blob'[n] = blob[n]
      BY <1>1, <2>0, <2>2, <3>1 DEF Writes, WriteMetadata, WriteBlob, WriteObject, RemoveObject,
         CreateNamespace, Purge, PutSnapshot, SafetyInv, TypeOK, TablesOK
    <3>4. \A k \in KeysOf(n) : objects'[k] = objects[k]
      BY <1>1, <2>2, <3>2 DEF Writes, WriteMetadata, WriteBlob, WriteObject, RemoveObject,
         CreateNamespace, Purge, PutObject, SafetyInv, TypeOK, TablesOK
    <3> QED
      BY <3>3, <3>4
  <2> QED
    BY <1>1, <2>1, <2>2, OnlyWritesChangeData
<1>2. SafetyInv /\ SoloInv /\ [Next]_vars =>
        [\A n \in deleted \cap deleted' :
           /\ meta'[n] = meta[n] /\ blob'[n] = blob[n]
           /\ \A k \in KeysOf(n) : objects'[k] = objects[k]]_vars
  BY <1>1
<1> QED
  BY <1>2, Solo, Safety, PTL DEF Spec, SoftDeletedIsFrozen
-----------------------------------------------------------------------------
(* The usage row *)

\* What the row of a namespace is to say.
UsageRight(n) ==
  usage[n] # None =>
    usage[n] = [blob |-> blob[n], objects |-> ObjectsOf(n), soft |-> n \in deleted]

\* A handler between its write and the usage row knows what it has measured,
\* and its endpoint tells whether the namespace is soft-deleted.
Measures(r) ==
  /\ pc[r] \in Writing => call[r].op \notin AdminOps
  /\ pc[r] \in {"soft_delete", "restore"} => call[r].op = pc[r]
  /\ pc[r] \in Refreshing => (call[r].op = "soft_delete" <=> call[r].ns \in deleted)
  /\ pc[r] \in {"measure_objects", "write_usage"} => loc[r].payload = blob[call[r].ns]
  /\ pc[r] = "write_usage" => loc[r].measured = ObjectsOf(call[r].ns)

\* Only the namespace a handler is refreshing may have an outdated row.
UsageInv ==
  /\ \A r \in Requests : Measures(r)
  /\ \A n \in Namespaces :
       (\A r \in Requests : pc[r] \in Refreshing => call[r].ns # n) => UsageRight(n)

Untouched(n) ==
  /\ blob'[n] = blob[n] /\ usage'[n] = usage[n]
  /\ n \in deleted' <=> n \in deleted
  /\ \A k \in KeysOf(n) : objects'[k] = objects[k]

LEMMA UntouchedStaysRight ==
  ASSUME NEW n, UsageRight(n), Untouched(n) PROVE UsageRight(n)'
<1>1. ObjectsOf(n)' = ObjectsOf(n)
  BY SameObjects DEF Untouched
<1> QED
  BY <1>1 DEF Untouched, UsageRight

\* Every write leads on to a refresh, except the ones that leave payloads alone.
LEMMA WritesLeadToRefresh ==
  ASSUME SafetyInv, NEW r \in Requests, Step(r), RefreshAlways, ~MayFail,
         NEW n \in Namespaces
  PROVE  \/ Untouched(n)
         \/ pc'[r] \in Refreshing /\ call'[r].ns = n
         \/ WriteUsage(r) /\ call[r].ns = n
         \/ Purge(r) /\ call[r].ns = n
<1> USE DEF SafetyInv, TypeOK
<1>1. \A l : Goto(r, l) => pc'[r] = l
  BY DEF HandlersOK, Goto
<1>2. CASE pc[r] # "idle" => n # call[r].ns
  BY <1>2, OtherNamespacesStay DEF SameNamespace, Untouched
<1>3. CASE UNCHANGED <<blob, objects, deleted, usage>>
  BY <1>3 DEF Untouched
<1>4. CASE n = call[r].ns /\ (\/ WriteBlob(r) \/ WriteObject(r) \/ RemoveObject(r)
                              \/ SoftDelete(r) \/ Restore(r))
  <2>1. CASE pc'[r] \in {"stale", "measure_blob"}
    BY <1>4, <2>1 DEF WriteBlob, WriteObject, RemoveObject, SoftDelete, Restore, Refreshing
  <2>2. CASE pc'[r] \notin {"stale", "measure_blob"}
    <3>1. RemoveObject(r) /\ objects[Item(r)] = 0
      BY <1>1, <1>4, <2>2 DEF WriteBlob, WriteObject, RemoveObject, SoftDelete, Restore
    <3>2. objects' = [objects EXCEPT ![Item(r)] = 0] /\ UNCHANGED <<blob, deleted, usage>>
      BY <3>1 DEF RemoveObject, PutObject
    <3>3. \A k \in KeysOf(n) : k \in Keys
      BY DEF KeysOf, Keys
    <3> QED
      BY <3>1, <3>2, <3>3 DEF Untouched, TablesOK
  <2> QED
    BY <2>1, <2>2
<1>5. CASE ~(\/ WriteBlob(r) \/ WriteObject(r) \/ RemoveObject(r)
             \/ SoftDelete(r) \/ Restore(r) \/ WriteUsage(r) \/ Purge(r))
  <2>1. UNCHANGED <<blob, objects, deleted, usage>>
    BY <1>5 DEF Step, tables, Start, Admit, Refuse, ReadMetadata, ReadBlob, ReadBlobEtag,
       ReadObject, ReadObjectEtag, ReadExisting, RejectBlob, RejectObject, Conflict,
       RecordConflict, SkipRefresh, BeginRefresh, MeasureBlob, MeasureObjects,
       CheckDeleted, CheckMetadata, CheckObjects, Finish, StorageError,
       WriteMetadata, CreateNamespace
  <2> QED
    BY <1>3, <2>1
<1> QED
  BY <1>2, <1>4, <1>5

\* A handler that has just moved knows what it has just measured.
LEMMA MoverMeasures ==
  ASSUME SafetyInv, NEW r \in Requests, Measures(r), StillTrue(r), Step(r),
         RefreshAlways, ~MayFail
  PROVE  Measures(r)'
<1> USE DEF SafetyInv, TypeOK
<1>1. \A l : Goto(r, l) => pc'[r] = l
  BY DEF HandlersOK, Goto
<1>2. pc'[r] \notin Writing \cup Refreshing \cup {"soft_delete", "restore"} => Measures(r)'
  BY DEF Measures, Refreshing
<1>3. CASE Start(r)
  <2>1. pc'[r] \in {"admit", "purge", "check_deleted"}
    BY <1>1, <1>3 DEF Start
  <2> QED
    BY <1>2, <2>1 DEF Writing, Refreshing
<1>4. CASE Finish(r)
  BY <1>1, <1>2, <1>4 DEF Finish, Writing, Refreshing
<1>5. CASE Admit(r) \/ ReadExisting(r)
  <2>1. UNCHANGED call /\ pc[r] # "idle" /\ (pc[r] = "admit" \/ pc[r] = "read_existing")
    BY <1>5 DEF Admit, ReadExisting
  <2>2. call[r].op \notin AdminOps
    BY <2>1 DEF HandlersOK, Serves, SyncOps, AdminOps, Measures, Writing
  <2>3. call[r].op \in SyncOps
    BY <2>1, <2>2, Target, OpsAssumption
  <2>4. pc'[r] \in {"reply", "read_metadata", "read_blob", "read_object", "read_existing",
                    "write_object", "remove_object", "write_blob", "write_metadata"}
    BY <1>1, <1>5, <2>3 DEF Admit, ReadExisting, Reply, FirstStep, SyncOps
  <2> QED
    BY <2>1, <2>2, <2>4 DEF Measures, Refreshing
<1>6. CASE WriteMetadata(r) \/ WriteBlob(r) \/ WriteObject(r) \/ RemoveObject(r)
  <2>1. UNCHANGED <<call, deleted>> /\ pc[r] \in Writing /\ pc'[r] \in {"stale", "reply"}
    BY <1>1, <1>6 DEF WriteMetadata, WriteBlob, WriteObject, RemoveObject, Reply, Writing
  <2>2. call[r].op \notin AdminOps /\ call[r].ns \notin deleted
    BY <2>1 DEF Measures, StillTrue
  <2> QED
    BY <2>1, <2>2 DEF Measures, Writing, AdminOps
<1>7. CASE BeginRefresh(r)
  <2>1. pc[r] = "stale" /\ pc'[r] = "measure_blob" /\ UNCHANGED <<call, deleted>>
    BY <1>1, <1>7 DEF BeginRefresh, tables
  <2> QED
    BY <2>1 DEF Measures, Writing, Refreshing
<1>8. CASE MeasureBlob(r)
  <2>1. /\ pc[r] = "measure_blob" /\ pc'[r] = "measure_objects"
        /\ UNCHANGED <<call, deleted, blob>> /\ loc'[r].payload = blob[call[r].ns]
    BY <1>1, <1>8 DEF MeasureBlob, tables, KeepPayload, HandlersOK, Locals
  <2> QED
    BY <2>1 DEF Measures, Writing, Refreshing
<1>9. CASE MeasureObjects(r)
  <2>1. /\ pc[r] = "measure_objects" /\ pc'[r] = "write_usage"
        /\ UNCHANGED <<call, deleted, blob, objects>>
        /\ loc'[r].measured = ObjectsOf(call[r].ns) /\ loc'[r].payload = loc[r].payload
    BY <1>1, <1>9 DEF MeasureObjects, tables, KeepMeasured, HandlersOK, Locals
  <2>2. ObjectsOf(call[r].ns)' = ObjectsOf(call[r].ns)
    BY <2>1 DEF ObjectsOf, KeysOf
  <2> QED
    BY <2>1, <2>2 DEF Measures, Writing, Refreshing
<1>10. CASE SoftDelete(r) \/ Restore(r)
  <2>1. /\ pc'[r] = "measure_blob" /\ UNCHANGED call /\ call[r].op = pc[r]
        /\ \/ pc[r] = "soft_delete" /\ deleted' = deleted \cup {call[r].ns}
           \/ pc[r] = "restore" /\ deleted' = deleted \ {call[r].ns}
    BY <1>1, <1>10 DEF SoftDelete, Restore, Measures
  <2> QED
    BY <2>1 DEF Measures, Writing
<1>11. CASE CheckDeleted(r)
  <2>1. UNCHANGED call /\ (\/ pc'[r] \in {"reply", "check_metadata"}
                           \/ pc'[r] = "restore" /\ call[r].op = "restore")
    BY <1>1, <1>11 DEF CheckDeleted, Reply
  <2> QED
    BY <2>1 DEF Measures, Writing, Refreshing
<1>12. CASE CheckMetadata(r) \/ CheckObjects(r)
  <2>1. UNCHANGED call /\ (\/ pc'[r] \in {"reply", "check_objects", "create_namespace"}
                           \/ pc'[r] = "soft_delete" /\ call[r].op = "soft_delete")
    BY <1>1, <1>12 DEF CheckMetadata, CheckObjects, Reply
  <2> QED
    BY <2>1 DEF Measures, Writing, Refreshing
<1>13. CASE \/ Refuse(r) \/ ReadMetadata(r) \/ ReadBlob(r) \/ ReadBlobEtag(r) \/ ReadObject(r)
            \/ ReadObjectEtag(r) \/ RejectBlob(r) \/ RejectObject(r) \/ RecordConflict(r)
            \/ SkipRefresh(r) \/ WriteUsage(r) \/ CreateNamespace(r) \/ Purge(r) \/ StorageError(r)
  <2>1. pc'[r] \in {"reply", "read_etag", "read_object_etag", "record_conflict"}
    BY <1>1, <1>13 DEF Refuse, ReadMetadata, ReadBlob, ReadBlobEtag, ReadObject, ReadObjectEtag,
       RejectBlob, RejectObject, Conflict, RecordConflict, SkipRefresh, WriteUsage,
       CreateNamespace, Purge, StorageError, Reply, ReplyWithEtag
  <2> QED
    BY <1>2, <2>1 DEF Writing, Refreshing
<1> QED
  BY <1>3, <1>4, <1>5, <1>6, <1>7, <1>8, <1>9, <1>10, <1>11, <1>12, <1>13 DEF Step

\* A handler leaves the refresh through WriteUsage only.
LEMMA RefreshEndsInRow ==
  ASSUME SafetyInv, NEW r \in Requests, Step(r), pc[r] \in Refreshing,
         RefreshAlways, ~MayFail
  PROVE  (pc'[r] \in Refreshing /\ call' = call) \/ WriteUsage(r)
<1>1. \A l : Goto(r, l) => pc'[r] = l
  BY DEF SafetyInv, TypeOK, HandlersOK, Goto
<1>2. BeginRefresh(r) \/ MeasureBlob(r) \/ MeasureObjects(r) \/ WriteUsage(r)
  BY DEF Refreshing, Step, Start, Admit, Refuse, ReadMetadata, ReadBlob, ReadBlobEtag,
     ReadObject, ReadObjectEtag, ReadExisting, WriteMetadata, WriteBlob, WriteObject,
     RemoveObject, RejectBlob, RejectObject, RecordConflict, SkipRefresh, CheckDeleted,
     CheckMetadata, CheckObjects, CreateNamespace, SoftDelete, Restore, Purge, Finish,
     StorageError
<1> QED
  BY <1>1, <1>2 DEF BeginRefresh, MeasureBlob, MeasureObjects, Refreshing

LEMMA UsageStep ==
  ASSUME Disjoint, RefreshAlways, ~MayFail, SafetyInv, SoloInv, UsageInv, [Next]_vars
  PROVE  UsageInv'
<1> USE DEF SafetyInv, TypeOK
<1>1. ASSUME NEW r \in Requests, Step(r) PROVE UsageInv'
  <2>1. Measures(r)'
    BY <1>1, MoverMeasures DEF UsageInv, SoloInv
  <2>2. ASSUME NEW q \in Requests \ {r} PROVE Measures(q)'
    <3>1. CASE pc[q] = "idle"
      <4>1. pc'[q] = "idle"
        BY <1>1, <3>1, StepIsLocal DEF SafetyInv
      <4> QED
        BY <4>1 DEF Measures, Writing, Refreshing
    <3>2. CASE pc[q] # "idle"
      <4>1. /\ pc'[q] = pc[q] /\ call'[q] = call[q] /\ loc'[q] = loc[q]
            /\ SameNamespace(call[q].ns)
            /\ ObjectsOf(call[q].ns)' = ObjectsOf(call[q].ns)
        BY <1>1, <3>2, OthersUndisturbed
      <4> QED
        BY <4>1 DEF UsageInv, Measures, SameNamespace
    <3> QED
      BY <3>1, <3>2
  <2>3. ASSUME NEW n \in Namespaces, \A q \in Requests : pc'[q] \in Refreshing => call'[q].ns # n
        PROVE  UsageRight(n)'
    <3>1. CASE WriteUsage(r) /\ call[r].ns = n
      <4>1. /\ usage'[n] = UsageRow(r) /\ UNCHANGED <<blob, objects, deleted>>
            /\ pc[r] = "write_usage"
        BY <3>1 DEF WriteUsage, TablesOK
      <4>2. ObjectsOf(n)' = ObjectsOf(n)
        BY <4>1 DEF ObjectsOf, KeysOf
      <4>3. /\ loc[r].payload = blob[n] /\ loc[r].measured = ObjectsOf(n)
            /\ (call[r].op = "soft_delete") = (n \in deleted)
        BY <3>1, <4>1 DEF UsageInv, Measures, Refreshing
      <4> QED
        BY <4>1, <4>2, <4>3 DEF UsageRight, UsageRow
    <3>2. CASE Purge(r) /\ call[r].ns = n
      <4>1. usage'[n] = None
        BY <3>2 DEF Purge, TablesOK
      <4> QED
        BY <4>1 DEF UsageRight
    <3>3. CASE Untouched(n) /\ ~(WriteUsage(r) /\ call[r].ns = n)
      <4>1. ~(pc[r] \in Refreshing /\ call[r].ns = n)
        BY <1>1, <2>3, <3>3, RefreshEndsInRow
      <4>2. \A q \in Requests \ {r} : pc[q] \in Refreshing => call[q].ns # n
        BY <1>1, <2>3, StepIsLocal
      <4>3. UsageRight(n)
        BY <4>1, <4>2 DEF UsageInv
      <4> QED
        BY <3>3, <4>3, UntouchedStaysRight
    <3> QED
      BY <1>1, <2>3, <3>1, <3>2, <3>3, WritesLeadToRefresh
  <2> QED
    BY <2>1, <2>2, <2>3 DEF UsageInv
<1>2. CASE Quiet \/ UNCHANGED vars
  <2>1. UNCHANGED <<blob, objects, deleted, usage, pc, call, loc>>
    BY <1>2 DEF Quiet, vars, tables
  <2>2. \A n : ObjectsOf(n)' = ObjectsOf(n)
    BY <2>1 DEF ObjectsOf, KeysOf
  <2> QED
    BY <2>1, <2>2 DEF UsageInv, Measures, UsageRight
<1> QED
  BY <1>1, <1>2 DEF Next, Crash

\* As long as no two requests in flight are about one namespace, none fails and
\* every write is followed by a refresh, the usage rows say what the tables hold.
THEOREM UsageIsRight ==
  ASSUME RefreshAlways, ~MayFail PROVE Spec /\ []Disjoint => []UsageAccurateWhenQuiet
<1>1. Init => UsageInv
  BY DEF Init, UsageInv, Measures, UsageRight, Writing, Refreshing
<1>2. Disjoint /\ SafetyInv /\ SoloInv /\ UsageInv /\ [Next]_vars => UsageInv'
  BY UsageStep
<1>3. UsageInv => UsageAccurateWhenQuiet
  BY DEF UsageInv, UsageRight, UsageAccurateWhenQuiet, AllIdle, Refreshing
<1> QED
  BY <1>1, <1>2, <1>3, Solo, Safety, PTL DEF Spec
=============================================================================
