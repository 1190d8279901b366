--------------------------- MODULE SyncStoreProofs ---------------------------
(* Theorems about SyncStore, for every number of namespaces, paths, requests *)
(* and calls, with storage errors and crashes.                               *)
EXTENDS SyncStore, TLAPS

-----------------------------------------------------------------------------
(* Lemmas on rows and on the moves of a handler *)

\* What is read from a metadata row, present or missing, is a number, and
\* what the two uploads make of it is a row.
LEMMA RowTypes ==
  ASSUME NEW m \in SyncMetadata \cup {None}, NEW v \in Nat
  PROVE  /\ EtagOfMeta(m) \in Nat /\ ProfileOf(m) \in Nat /\ ContentOf(m) \in Nat
         /\ MetadataRow(m, v) \in SyncMetadata
         /\ SnapshotRow(m, v) \in SyncMetadata
<1>1. EtagOfMeta(m) \in Nat /\ ProfileOf(m) \in Nat /\ ContentOf(m) \in Nat
  BY DEF EtagOfMeta, ProfileOf, ContentOf, SyncMetadata
<1> QED
  BY <1>1 DEF MetadataRow, SnapshotRow, SyncMetadata

\* A handler keeps values of the right type in its locals.
LEMMA KeepTypes ==
  ASSUME NEW r \in Requests, HandlersOK
  PROVE  /\ \A m \in SyncMetadata \cup {None} :
              KeepMeta(r, m) => loc' \in [Requests -> Locals]
         /\ \A p \in Nat : KeepPayload(r, p) => loc' \in [Requests -> Locals]
         /\ \A e \in Nat : KeepEtag(r, e) => loc' \in [Requests -> Locals]
         /\ \A S \in SUBSET Nat :
              KeepMeasured(r, S) => loc' \in [Requests -> Locals]
         /\ \A e, t \in Nat :
              KeepConflict(r, e, t) => loc' \in [Requests -> Locals]
         /\ \A s \in Statuses : KeepStatus(r, s) => loc' \in [Requests -> Locals]
         /\ \A s \in Statuses, e \in Nat :
              KeepAnswer(r, s, e) => loc' \in [Requests -> Locals]
<1> USE DEF HandlersOK, Locals
<1>1. \A m \in SyncMetadata \cup {None} :
        KeepMeta(r, m) => loc' \in [Requests -> Locals]
  BY DEF KeepMeta
<1>2. \A p \in Nat : KeepPayload(r, p) => loc' \in [Requests -> Locals]
  BY SMTT(30) DEF KeepPayload
<1>3. \A e \in Nat : KeepEtag(r, e) => loc' \in [Requests -> Locals]
  BY DEF KeepEtag
<1>4. \A S \in SUBSET Nat : KeepMeasured(r, S) => loc' \in [Requests -> Locals]
  BY DEF KeepMeasured
<1>5. \A e, t \in Nat : KeepConflict(r, e, t) => loc' \in [Requests -> Locals]
  <2> SUFFICES ASSUME NEW e \in Nat, NEW t \in Nat, KeepConflict(r, e, t)
               PROVE  loc' \in [Requests -> Locals]
    OBVIOUS
  <2>1. [loc[r] EXCEPT !.etag = e, !.stamp = t] \in Locals
    OBVIOUS
  <2> QED
    BY <2>1 DEF KeepConflict
<1>6. \A s \in Statuses : KeepStatus(r, s) => loc' \in [Requests -> Locals]
  BY DEF KeepStatus
<1>7. \A s \in Statuses, e \in Nat :
        KeepAnswer(r, s, e) => loc' \in [Requests -> Locals]
  <2> SUFFICES ASSUME NEW s \in Statuses, NEW e \in Nat, KeepAnswer(r, s, e)
               PROVE  loc' \in [Requests -> Locals]
    OBVIOUS
  <2>1. [loc[r] EXCEPT !.status = s, !.etag = e] \in Locals
    OBVIOUS
  <2> QED
    BY <2>1 DEF KeepAnswer
<1> QED
  BY <1>1, <1>2, <1>3, <1>4, <1>5, <1>6, <1>7

\* The labels that every request at work may reach.
LEMMA CommonLabels ==
  ASSUME NEW r \in Requests, HandlersOK, pc[r] # "idle",
         NEW label \in Labels \ (ObjectLabels \cup SnapshotLabels \cup {"admit"})
  PROVE  Serves(label, call[r])
  BY DEF HandlersOK, Serves

\* A handler moves on to a label that still serves its request.
LEMMA Move ==
  ASSUME NEW r \in Requests, NEW label \in Labels, HandlersOK,
         Serves(label, call[r]), Goto(r, label), UNCHANGED call,
         loc' \in [Requests -> Locals]
  PROVE  HandlersOK'
  BY DEF HandlersOK, Goto

LEMMA MoveToCommon ==
  ASSUME NEW r \in Requests, HandlersOK, pc[r] # "idle",
         NEW label \in Labels \ (ObjectLabels \cup SnapshotLabels \cup {"admit"}),
         Goto(r, label), UNCHANGED call, loc' \in [Requests -> Locals]
  PROVE  HandlersOK'
  BY CommonLabels, Move

LEMMA AnswerOK ==
  ASSUME NEW r \in Requests, HandlersOK, pc[r] # "idle", UNCHANGED call,
         \/ \E s \in Statuses : Reply(r, s)
         \/ \E s \in Statuses, e \in Nat : ReplyWithEtag(r, s, e)
  PROVE  HandlersOK'
<1>1. Goto(r, "reply") /\ loc' \in [Requests -> Locals]
  BY KeepTypes DEF Reply, ReplyWithEtag
<1>2. "reply" \in Labels \ (ObjectLabels \cup SnapshotLabels \cup {"admit"})
  BY DEF Labels, ObjectLabels, SnapshotLabels
<1> QED
  BY <1>1, <1>2, MoveToCommon

\* A step that leaves the tables and the history alone.
LEMMA Frame ==
  ASSUME TypeOK, UNCHANGED <<tables, lastEtag, calls, history>>, lastStamp' \in Nat
  PROVE  TablesOK' /\ HistoryOK'
  BY DEF TypeOK, TablesOK, HistoryOK, tables, history

\* A handler at work addresses a namespace, and an object where it must.
LEMMA Target ==
  ASSUME NEW r \in Requests, HandlersOK, pc[r] # "idle"
  PROVE  /\ call[r] \in Call /\ call[r].ns \in Namespaces /\ call[r].etag \in Nat
         /\ call[r].cond \in Conditions /\ call[r].op \in Ops
         /\ Item(r) \in Items
         /\ call[r].path # None => Item(r) \in Keys
         /\ pc[r] \in ObjectLabels => Item(r) \in Keys
         /\ pc[r] \in SnapshotLabels => call[r].path = None
  BY DEF HandlersOK, Serves, Call, Item, Items, Keys

-----------------------------------------------------------------------------
(* Type correctness *)

LEMMA TypeInit == Init => TypeOK
  BY BoundsAssumption
  DEF Init, TypeOK, TablesOK, HandlersOK, HistoryOK, NoLocals, Locals, Labels,
      Statuses, Keys, Serves

LEMMA StartType == ASSUME TypeOK, NEW r \in Requests, Start(r) PROVE TypeOK'
<1>1. TablesOK' /\ HistoryOK'
  BY DEF TypeOK, Start, tables, history, TablesOK, HistoryOK
<1>2. \A c \in [op : Ops, ns : Namespaces, path : Paths \cup {None},
                cond : Conditions, etag : 0..lastEtag] : c \in Call
  BY DEF Call, TypeOK, TablesOK
<1>3. PICK c \in Call : /\ WellFormed(c)
                        /\ call' = [call EXCEPT ![r] = c]
                        /\ Goto(r, CASE c.op \in SyncOps -> "admit"
                                     [] c.op = "purge"   -> "purge"
                                     [] OTHER            -> "check_deleted")
  BY <1>2, Zenon DEF Start
<1>4. PICK l \in {"admit", "purge", "check_deleted"} :
        Goto(r, l) /\ (l = "admit" => c.op \in SyncOps)
  BY <1>3
<1>5. l \in Labels /\ Serves(l, c)
  BY <1>3, <1>4 DEF Labels, Serves, ObjectLabels, SnapshotLabels
<1>6. pc' \in [Requests -> Labels] /\ call' \in [Requests -> Call \cup {None}]
  BY <1>3, <1>4, <1>5 DEF TypeOK, HandlersOK, Goto
<1>7. \A q \in Requests : Serves(pc'[q], call'[q])
  BY <1>3, <1>4, <1>5 DEF TypeOK, HandlersOK, Goto
<1> QED
  BY <1>1, <1>6, <1>7 DEF Start, TypeOK, HandlersOK

LEMMA AdmitType == ASSUME TypeOK, NEW r \in Requests, Admit(r) PROVE TypeOK'
<1>1. TablesOK' /\ HistoryOK'
  BY Frame DEF Admit, TypeOK, TablesOK
<1>2. CASE call[r].ns \in deleted
  BY <1>1, <1>2, AnswerOK DEF Admit, TypeOK, Statuses
<1>3. CASE call[r].ns \notin deleted
  <2>1. call[r] \in Call /\ WellFormed(call[r]) /\ call[r].op \in SyncOps
    BY DEF Admit, TypeOK, HandlersOK, Serves
  <2>2. FirstStep(call[r].op) \in Labels /\ Serves(FirstStep(call[r].op), call[r])
    BY <2>1 DEF SyncOps, FirstStep, Labels, Serves, WellFormed, ObjectLabels,
                SnapshotLabels, ObjectOps
  <2> QED
    BY <1>1, <1>3, <2>2, Move DEF Admit, TypeOK, HandlersOK
<1> QED
  BY <1>2, <1>3

LEMMA ReadType ==
  ASSUME TypeOK, NEW r \in Requests,
         ReadMetadata(r) \/ ReadBlob(r) \/ ReadBlobEtag(r) \/ ReadObject(r)
           \/ ReadObjectEtag(r) \/ ReadExisting(r)
  PROVE  TypeOK'
<1> USE DEF TypeOK
<1>1. TablesOK' /\ HistoryOK'
  BY Frame DEF ReadMetadata, ReadBlob, ReadBlobEtag, ReadObject, ReadObjectEtag,
               ReadExisting, TablesOK
<1>2. pc[r] # "idle"
  BY DEF ReadMetadata, ReadBlob, ReadBlobEtag, ReadObject, ReadObjectEtag,
         ReadExisting
<1>3. /\ call[r].ns \in Namespaces
      /\ meta[call[r].ns] \in SyncMetadata \cup {None}
      /\ EtagOfMeta(meta[call[r].ns]) \in Nat /\ blob[call[r].ns] \in Nat
  BY <1>2, Target, RowTypes DEF TablesOK
<1>4. CASE ReadMetadata(r) \/ ReadBlobEtag(r)
  BY <1>1, <1>2, <1>3, <1>4, AnswerOK DEF ReadMetadata, ReadBlobEtag, Statuses
<1>5. CASE ReadBlob(r) /\ blob[call[r].ns] = 0
  BY <1>1, <1>2, <1>5, AnswerOK DEF ReadBlob, Statuses
<1>6. CASE ReadBlob(r) /\ blob[call[r].ns] # 0
  <2>1. "read_etag" \in Labels /\ Serves("read_etag", call[r])
    BY <1>6 DEF ReadBlob, HandlersOK, Serves, ObjectLabels, SnapshotLabels, Labels
  <2>2. loc' \in [Requests -> Locals]
    BY <1>3, <1>6, KeepTypes DEF ReadBlob
  <2> QED
    BY <1>1, <1>6, <2>1, <2>2, Move DEF ReadBlob
<1>7. pc[r] \in ObjectLabels => objects[Item(r)] \in Nat /\ objMeta[Item(r)] \in Nat
  BY <1>2, Target DEF TablesOK
<1>8. CASE ReadObjectEtag(r)
  BY <1>1, <1>2, <1>7, <1>8, AnswerOK DEF ReadObjectEtag, Statuses, ObjectLabels
<1>9. CASE ReadObject(r) /\ objects[Item(r)] = 0
  BY <1>1, <1>2, <1>9, AnswerOK DEF ReadObject, Statuses
<1>10. CASE ReadObject(r) /\ objects[Item(r)] # 0
  <2>1. "read_object_etag" \in Labels /\ Serves("read_object_etag", call[r])
    BY <1>10 DEF ReadObject, HandlersOK, Serves, ObjectLabels, SnapshotLabels, Labels
  <2>2. loc' \in [Requests -> Locals]
    BY <1>7, <1>10, KeepTypes DEF ReadObject, ObjectLabels
  <2> QED
    BY <1>1, <1>10, <2>1, <2>2, Move DEF ReadObject
<1>11. CASE ReadExisting(r)
  <2>1. PICK l \in {"write_blob", "write_metadata"} : Goto(r, l)
    BY <1>11 DEF ReadExisting
  <2>2. l \in Labels /\ Serves(l, call[r])
    BY <1>11 DEF ReadExisting, HandlersOK, Serves, ObjectLabels, SnapshotLabels, Labels
  <2>3. loc' \in [Requests -> Locals]
    BY <1>3, <1>11, KeepTypes DEF ReadExisting
  <2> QED
    BY <1>1, <1>11, <2>1, <2>2, <2>3, Move DEF ReadExisting
<1> QED
  BY <1>4, <1>5, <1>6, <1>8, <1>9, <1>10, <1>11 DEF ReadBlob, ReadObject

LEMMA UploadType ==
  ASSUME TypeOK, NEW r \in Requests,
         WriteMetadata(r) \/ WriteBlob(r) \/ WriteObject(r)
  PROVE  TypeOK'
<1> USE DEF TypeOK
<1>1. pc[r] # "idle" /\ lastEtag \in Nat /\ lastEtag + 1 \in Nat
  BY DEF WriteMetadata, WriteBlob, WriteObject, TablesOK
<1>2. /\ call[r].ns \in Namespaces /\ call[r].cond \in Conditions
      /\ call[r].etag \in Nat /\ Item(r) \in Items
      /\ pc[r] = "write_object" => Item(r) \in Keys
  BY <1>1, Target DEF ObjectLabels
<1>3. loc[r].meta \in SyncMetadata \cup {None}
  BY DEF HandlersOK, Locals
<1>4. HandlersOK'
  <2>1. Goto(r, "stale") /\ KeepEtag(r, lastEtag + 1) /\ UNCHANGED call
    BY DEF WriteMetadata, WriteBlob, WriteObject
  <2>2. "stale" \in Labels \ (ObjectLabels \cup SnapshotLabels \cup {"admit"})
    BY DEF Labels, ObjectLabels, SnapshotLabels
  <2> QED
    BY <1>1, <2>1, <2>2, KeepTypes, MoveToCommon
<1>5. TablesOK'
  <2>1. CASE WriteMetadata(r)
    BY <1>1, <1>2, <1>3, <2>1, RowTypes DEF WriteMetadata, TablesOK
  <2>2. CASE WriteBlob(r)
    BY <1>1, <1>2, <1>3, <2>2, RowTypes DEF WriteBlob, PutSnapshot, TablesOK
  <2>3. CASE WriteObject(r)
    BY <1>1, <1>2, <2>3 DEF WriteObject, PutObject, TablesOK
  <2> QED
    BY <2>1, <2>2, <2>3
<1>6. HistoryOK'
  <2>1. CASE WriteMetadata(r)
    BY <2>1 DEF WriteMetadata, history, HistoryOK
  <2>2. ASSUME NEW x \in Nat, NEW y \in Nat, NEW z \in Nat, Accept(r, x, y, z)
        PROVE  accepted' \in SUBSET AcceptedUpload
    BY <1>1, <1>2, <2>2 DEF Accept, AcceptedUpload, HistoryOK
  <2>3. CASE WriteBlob(r)
    <3>1. /\ blob[call[r].ns] \in Nat /\ ProfileOf(loc[r].meta) \in Nat
          /\ ProfileOf(meta[call[r].ns]) \in Nat
      BY <1>1, <1>2, <1>3, RowTypes DEF TablesOK
    <3> QED
      BY <2>2, <2>3, <3>1 DEF WriteBlob, HistoryOK
  <2>4. CASE WriteObject(r)
    <3>1. objects[Item(r)] \in Nat
      BY <1>2, <2>4 DEF WriteObject, TablesOK
    <3> QED
      BY <2>2, <2>4, <3>1 DEF WriteObject, HistoryOK
  <2> QED
    BY <2>1, <2>3, <2>4
<1> QED
  BY <1>4, <1>5, <1>6

LEMMA ItemEtagType ==
  ASSUME TypeOK, NEW i \in Items PROVE ItemEtag(i) \in Nat
<1>1. i[1] \in Namespaces /\ (i[2] # None => i \in Keys)
  BY DEF Items, Keys
<1> QED
  BY <1>1, RowTypes DEF TypeOK, TablesOK, ItemEtag

LEMMA RejectType ==
  ASSUME TypeOK, NEW r \in Requests, RejectBlob(r) \/ RejectObject(r)
  PROVE  TypeOK'
<1> USE DEF TypeOK
<1>1. pc[r] # "idle" /\ Conflict(r)
  BY DEF RejectBlob, RejectObject
<1>2. ItemEtag(Item(r)) \in Nat /\ lastStamp \in Nat /\ lastStamp + 1 \in Nat
  BY <1>1, Target, ItemEtagType DEF TablesOK
<1>3. TablesOK' /\ HistoryOK'
  BY <1>1, <1>2, Frame DEF Conflict
<1>4. CASE MaxConflicts = 0
  BY <1>1, <1>2, <1>3, <1>4, AnswerOK DEF Conflict, Statuses
<1>5. CASE MaxConflicts # 0
  <2>1. "record_conflict" \in Labels \ (ObjectLabels \cup SnapshotLabels \cup {"admit"})
    BY DEF Labels, ObjectLabels, SnapshotLabels
  <2>2. loc' \in [Requests -> Locals]
    BY <1>1, <1>2, <1>5, KeepTypes DEF Conflict
  <2> QED
    BY <1>1, <1>3, <1>5, <2>1, <2>2, MoveToCommon DEF Conflict
<1> QED
  BY <1>4, <1>5

LEMMA RemoveObjectType ==
  ASSUME TypeOK, NEW r \in Requests, RemoveObject(r) PROVE TypeOK'
<1> USE DEF TypeOK
<1>1. TablesOK' /\ HistoryOK'
  BY DEF RemoveObject, PutObject, TablesOK, HistoryOK, history
<1>2. CASE objects[Item(r)] = 0
  BY <1>1, <1>2, AnswerOK DEF RemoveObject, Statuses
<1>3. CASE objects[Item(r)] # 0
  <2>1. "stale" \in Labels \ (ObjectLabels \cup SnapshotLabels \cup {"admit"})
    BY DEF Labels, ObjectLabels, SnapshotLabels
  <2> QED
    BY <1>1, <1>3, <2>1, MoveToCommon DEF RemoveObject, HandlersOK
<1> QED
  BY <1>2, <1>3

LEMMA RecordConflictType ==
  ASSUME TypeOK, NEW r \in Requests, RecordConflict(r) PROVE TypeOK'
<1> USE DEF TypeOK
<1> DEFINE c == [at |-> loc[r].stamp, item |-> Item(r),
                 requested |-> call[r].etag, remote |-> loc[r].etag]
<1>1. pc[r] # "idle" /\ Reply(r, "conflict")
  BY DEF RecordConflict
<1>2. c \in ConflictRecord
  BY <1>1, Target DEF ConflictRecord, HandlersOK, Locals
<1>3. NewestOf(conflicts \cup {c}, MaxConflicts) \subseteq conflicts \cup {c}
  BY DEF NewestOf
<1>4. /\ conflicts' = NewestOf(conflicts \cup {c}, MaxConflicts)
      /\ logged' = logged \cup {c}
      /\ UNCHANGED <<meta, blob, objects, objMeta, deleted, usage, lastEtag,
                     lastStamp, calls, call, accepted, purgedAt>>
  BY DEF RecordConflict
<1> HIDE DEF c
<1>5. TablesOK' /\ HistoryOK'
  BY <1>2, <1>3, <1>4 DEF TablesOK, HistoryOK
<1> QED
  BY <1>1, <1>4, <1>5, AnswerOK DEF Statuses

LEMMA UsageType ==
  ASSUME TypeOK, NEW r \in Requests,
         SkipRefresh(r) \/ BeginRefresh(r) \/ MeasureBlob(r)
           \/ MeasureObjects(r) \/ WriteUsage(r)
  PROVE  TypeOK'
<1> USE DEF TypeOK
<1>1. pc[r] # "idle"
  BY DEF SkipRefresh, BeginRefresh, MeasureBlob, MeasureObjects, WriteUsage
<1>2. call[r].ns \in Namespaces
  BY <1>1, Target
<1>3. ASSUME UNCHANGED <<tables, lastEtag, lastStamp, calls, history>>
      PROVE  TablesOK' /\ HistoryOK'
  BY <1>3, Frame DEF TablesOK
<1>4. {"measure_blob", "measure_objects", "write_usage"} \subseteq
        Labels \ (ObjectLabels \cup SnapshotLabels \cup {"admit"})
  BY DEF Labels, ObjectLabels, SnapshotLabels
<1>5. CASE SkipRefresh(r)
  BY <1>1, <1>3, <1>5, AnswerOK DEF SkipRefresh, Statuses
<1>6. CASE BeginRefresh(r)
  BY <1>1, <1>3, <1>4, <1>6, MoveToCommon DEF BeginRefresh, HandlersOK
<1>7. CASE MeasureBlob(r)
  <2>1. blob[call[r].ns] \in Nat
    BY <1>2 DEF TablesOK
  <2> QED
    BY <1>1, <1>3, <1>4, <1>7, <2>1, KeepTypes, MoveToCommon DEF MeasureBlob
<1>8. CASE MeasureObjects(r)
  <2>1. ObjectsOf(call[r].ns) \in SUBSET Nat
    BY <1>2 DEF TablesOK, ObjectsOf, KeysOf, Keys
  <2> QED
    BY <1>1, <1>3, <1>4, <1>8, <2>1, KeepTypes, MoveToCommon DEF MeasureObjects
<1>9. CASE WriteUsage(r)
  <2>1. UsageRow(r) \in UsageRecord
    BY DEF UsageRow, UsageRecord, HandlersOK, Locals
  <2>2. TablesOK' /\ HistoryOK'
    BY <1>9, <2>1 DEF WriteUsage, TablesOK, HistoryOK, history
  <2> QED
    BY <1>1, <1>9, <2>2, AnswerOK DEF WriteUsage, Statuses
<1> QED
  BY <1>5, <1>6, <1>7, <1>8, <1>9

LEMMA CheckType ==
  ASSUME TypeOK, NEW r \in Requests,
         CheckDeleted(r) \/ CheckMetadata(r) \/ CheckObjects(r)
  PROVE  TypeOK'
<1> USE DEF TypeOK
<1>1. pc[r] # "idle" /\ UNCHANGED call
  BY DEF CheckDeleted, CheckMetadata, CheckObjects
<1>2. TablesOK' /\ HistoryOK'
  BY Frame DEF CheckDeleted, CheckMetadata, CheckObjects, TablesOK
<1>3. {"check_metadata", "check_objects", "create_namespace", "soft_delete",
       "restore"} \subseteq
        Labels \ (ObjectLabels \cup SnapshotLabels \cup {"admit"})
  BY DEF Labels, ObjectLabels, SnapshotLabels
<1>4. \/ \E s \in Statuses : Reply(r, s)
      \/ \E l \in {"check_metadata", "check_objects", "create_namespace",
                   "soft_delete", "restore"} : Goto(r, l) /\ UNCHANGED loc
  BY DEF CheckDeleted, CheckMetadata, CheckObjects, Statuses
<1>5. CASE \E s \in Statuses : Reply(r, s)
  BY <1>1, <1>2, <1>5, AnswerOK
<1>6. CASE \E l \in {"check_metadata", "check_objects", "create_namespace",
                    "soft_delete", "restore"} : Goto(r, l) /\ UNCHANGED loc
  BY <1>1, <1>2, <1>3, <1>6, MoveToCommon DEF HandlersOK
<1> QED
  BY <1>4, <1>5, <1>6

LEMMA AdminWriteType ==
  ASSUME TypeOK, NEW r \in Requests,
         CreateNamespace(r) \/ SoftDelete(r) \/ Restore(r) \/ Purge(r)
  PROVE  TypeOK'
<1> USE DEF TypeOK
<1>1. pc[r] # "idle"
  BY DEF CreateNamespace, SoftDelete, Restore, Purge
<1>2. call[r].ns \in Namespaces
  BY <1>1, Target
<1>3. CASE CreateNamespace(r)
  <2>1. EmptyMetadata \in SyncMetadata
    BY DEF EmptyMetadata, SyncMetadata
  <2>2. TablesOK' /\ HistoryOK'
    BY <1>3, <2>1 DEF CreateNamespace, TablesOK, HistoryOK, history
  <2> QED
    BY <1>1, <1>3, <2>2, AnswerOK DEF CreateNamespace, Statuses
<1>4. CASE SoftDelete(r) \/ Restore(r)
  <2>1. TablesOK' /\ HistoryOK'
    BY <1>2, <1>4 DEF SoftDelete, Restore, TablesOK, HistoryOK, history
  <2>2. "measure_blob" \in Labels \ (ObjectLabels \cup SnapshotLabels \cup {"admit"})
    BY DEF Labels, ObjectLabels, SnapshotLabels
  <2> QED
    BY <1>1, <1>4, <2>1, <2>2, MoveToCommon DEF SoftDelete, Restore, HandlersOK
<1>5. CASE Purge(r)
  <2>1. TablesOK'
    BY <1>2, <1>5 DEF Purge, PutSnapshot, TablesOK
  <2>2. HistoryOK'
    BY <1>2, <1>5 DEF Purge, TablesOK, HistoryOK
  <2> QED
    BY <1>1, <1>5, <2>1, <2>2, AnswerOK DEF Purge, Statuses
<1> QED
  BY <1>3, <1>4, <1>5

LEMMA EndType ==
  ASSUME TypeOK,
         \/ \E r \in Requests : Refuse(r) \/ Finish(r) \/ StorageError(r)
         \/ Crash \/ UNCHANGED vars
  PROVE  TypeOK'
<1> USE DEF TypeOK
<1>1. ASSUME NEW r \in Requests, Refuse(r) \/ StorageError(r) PROVE TypeOK'
  <2>1. /\ pc[r] # "idle" /\ UNCHANGED call
        /\ \E s \in Statuses : Reply(r, s)
    BY <1>1 DEF Refuse, StorageError, Statuses
  <2>2. TablesOK' /\ HistoryOK'
    BY <1>1, Frame DEF Refuse, StorageError, TablesOK
  <2> QED
    BY <2>1, <2>2, AnswerOK
<1>2. NoLocals \in Locals /\ "idle" \in Labels /\ \A c : Serves("idle", c)
  BY DEF NoLocals, Locals, Statuses, Labels, Serves
<1>3. ASSUME NEW r \in Requests, Finish(r) PROVE TypeOK'
  <2>1. TablesOK' /\ HistoryOK'
    BY <1>3, Frame DEF Finish, TablesOK
  <2> QED
    BY <1>2, <1>3, <2>1 DEF Finish, Goto, HandlersOK
<1>4. CASE Crash
  <2>1. TablesOK' /\ HistoryOK'
    BY <1>4, Frame DEF Crash, TablesOK
  <2> QED
    BY <1>2, <1>4, <2>1 DEF Crash, HandlersOK
<1>5. CASE UNCHANGED vars
  BY <1>5 DEF vars, tables, history, TablesOK, HandlersOK, HistoryOK
<1> QED
  BY <1>1, <1>3, <1>4, <1>5

LEMMA TypeStep == TypeOK /\ [Next]_vars => TypeOK'
<1> SUFFICES ASSUME TypeOK, [Next]_vars PROVE TypeOK'
  OBVIOUS
<1>1. ASSUME NEW r \in Requests, Step(r) PROVE TypeOK'
  BY <1>1, StartType, AdmitType, ReadType, UploadType, RejectType,
     RemoveObjectType, RecordConflictType, UsageType, CheckType,
     AdminWriteType, EndType DEF Step
<1>2. CASE Crash \/ Quiet \/ UNCHANGED vars
  BY <1>2, EndType DEF Quiet
<1> QED
  BY <1>1, <1>2 DEF Next

\* Whatever handlers run side by side, fail or crash, every table row and
\* every handler's state keeps the shape its Rust type promises.
THEOREM TypeCorrect == Spec => []TypeOK
<1>1. Init => TypeOK
  BY TypeInit
<1>2. TypeOK /\ [Next]_vars => TypeOK'
  BY TypeStep
<1> QED
  BY <1>1, <1>2, PTL DEF Spec

=============================================================================
