------------------------------ MODULE SyncStore ------------------------------
(***************************************************************************)
(* The namespace storage plane of the cloud-sync server: the sync handlers *)
(* of api.rs and the namespace handlers of panel.rs over the redb tables   *)
(* of db.rs.                                                               *)
(*                                                                         *)
(* A handler is an async function without an await in its body.  It runs   *)
(* on one of several worker threads and calls the database several times;  *)
(* each call is one redb transaction, atomic and durable, and other        *)
(* handlers run between two of them.  One action below is one transaction  *)
(* of one handler, with the code up to the handler's next transaction.     *)
(*                                                                         *)
(* Data is abstracted to identity.  Every accepted write mints a fresh     *)
(* UUID as ETag; the model numbers them in commit order, and the number    *)
(* also names the payload stored by that write.  0 is the absent payload   *)
(* and the empty ETag.                                                     *)
(***************************************************************************)
EXTENDS Naturals, FiniteSets

CONSTANTS
  Namespaces,     \* namespace names
  Paths,          \* object paths
  Requests,       \* handlers that may be in flight at the same time
  Ops,            \* the endpoints that clients and admins call
  MaxCalls,       \* bound on the requests accepted in a behaviour
  MaxConflicts,   \* MAX_SYNC_CONFLICT_RECORDS
  RefreshAlways,  \* USAGE_REFRESH_INTERVAL_SECONDS is zero
  MayFail,        \* redb calls may return an error, the process may crash
  None            \* a missing row; as a path, the namespace's snapshot

SyncOps == {"get_metadata", "put_metadata", "get_blob", "put_blob",
            "get_object", "put_object", "delete_object"}
ObjectOps == {"get_object", "put_object", "delete_object"}
AdminOps == {"create_namespace", "soft_delete", "restore", "purge"}

ASSUME OpsAssumption == Ops \subseteq SyncOps \cup AdminOps
ASSUME BoundsAssumption == MaxCalls \in Nat /\ MaxConflicts \in Nat
ASSUME SwitchAssumption == RefreshAlways \in BOOLEAN /\ MayFail \in BOOLEAN
ASSUME NoneAssumption == None \notin Paths

VARIABLES
  meta,       \* METADATA_TABLE
  blob,       \* BLOB_TABLE
  objects,    \* OBJECT_TABLE
  objMeta,    \* OBJECT_META_TABLE
  deleted,    \* DELETED_NAMESPACE_TABLE
  usage,      \* NAMESPACE_USAGE_TABLE
  conflicts,  \* SYNC_CONFLICT_TABLE
  lastEtag,   \* UUIDs minted so far
  lastStamp,  \* the wall clock, as far as conflict records read it
  calls,      \* requests accepted so far
  pc,         \* the next transaction of each handler
  call,       \* the request each handler serves
  loc,        \* the handler's local values, and at "reply" its response
  accepted,   \* history: the conditional uploads that were accepted
  logged,     \* history: every conflict record ever inserted
  purgedAt    \* history: the newest ETag when a namespace was last purged

tables == <<meta, blob, objects, objMeta, deleted, usage, conflicts>>
history == <<accepted, logged, purgedAt>>
vars == <<tables, lastEtag, lastStamp, calls, pc, call, loc, history>>

-----------------------------------------------------------------------------
(* Rows *)

Keys == Namespaces \X Paths
Items == Namespaces \X (Paths \cup {None})

\* `content' is the payload that content_hash and content_length describe,
\* `profile' the metadata upload that supplied format, sections and scope.
SyncMetadata == [exists : BOOLEAN, etag : Nat, content : Nat, profile : Nat]

\* Mutant: the empty record stores its absent etag as a missing value.
EmptyMetadataWithoutEtag ==
  [exists |-> FALSE, etag |-> None, content |-> 0, profile |-> 0]

EmptyMetadata == [exists |-> FALSE, etag |-> 0, content |-> 0, profile |-> 0]

ASSUME RowAssumption == None \notin SyncMetadata

\* A usage row, with the payloads that were measured in place of their sizes.
UsageRecord == [blob : Nat, objects : SUBSET Nat, soft : BOOLEAN]

ConflictRecord == [at : Nat, item : Items, requested : Nat, remote : Nat]

\* The etag of a metadata row, or of a missing one: unwrap_or("").
EtagOfMeta(m) == IF m = None THEN 0 ELSE m.etag
ProfileOf(m) == IF m = None THEN 0 ELSE m.profile
ContentOf(m) == IF m = None THEN 0 ELSE m.content

ItemEtag(i) == IF i[2] = None THEN EtagOfMeta(meta[i[1]]) ELSE objMeta[i]

KeysOf(n) == {n} \X Paths
ObjectsOf(n) == {objects[k] : k \in KeysOf(n)} \ {0}

\* Mutant: trims from the wrong end.
OldestOf(S, k) == {c \in S : Cardinality({d \in S : d.at < c.at}) < k}

\* The k newest of a set of conflict records: what trimming from the start
\* of the timestamp-ordered table leaves.
NewestOf(S, k) == {c \in S : Cardinality({d \in S : d.at > c.at}) < k}

-----------------------------------------------------------------------------
(* Requests *)

Conditions == {"any", "match", "absent"}

\* `cond' is the precondition the headers ask for: If-Match with `etag',
\* else If-None-Match: *, else none.
Call == [op : Ops, ns : Namespaces, path : Paths \cup {None},
         cond : Conditions, etag : Nat]

WellFormed(c) ==
  /\ (c.path # None) <=> (c.op \in ObjectOps)
  /\ c.cond # "any" => c.op \in {"put_blob", "put_object"}
  /\ c.cond # "match" => c.etag = 0

Statuses == {"none", "ok", "missing", "exists", "conflict", "refused", "error"}

Locals == [meta : SyncMetadata \cup {None}, payload : Nat, etag : Nat,
           measured : SUBSET Nat, stamp : Nat, status : Statuses]

NoLocals == [meta |-> None, payload |-> 0, etag |-> 0,
             measured |-> {}, stamp |-> 0, status |-> "none"]

Item(r) == <<call[r].ns, call[r].path>>

Goto(r, label) == pc' = [pc EXCEPT ![r] = label]

KeepMeta(r, m) == loc' = [loc EXCEPT ![r].meta = m]
KeepPayload(r, p) == loc' = [loc EXCEPT ![r].payload = p]
KeepEtag(r, e) == loc' = [loc EXCEPT ![r].etag = e]
KeepMeasured(r, S) == loc' = [loc EXCEPT ![r].measured = S]
KeepConflict(r, e, t) ==
  loc' = [loc EXCEPT ![r] = [@ EXCEPT !.etag = e, !.stamp = t]]

KeepStatus(r, status) == loc' = [loc EXCEPT ![r].status = status]
KeepAnswer(r, status, e) ==
  loc' = [loc EXCEPT ![r] = [@ EXCEPT !.status = status, !.etag = e]]

Reply(r, status) == Goto(r, "reply") /\ KeepStatus(r, status)

ReplyWithEtag(r, status, e) == Goto(r, "reply") /\ KeepAnswer(r, status, e)

\* The first transaction of a handler after it admitted the request.
FirstStep(op) ==
  CASE op = "get_metadata"  -> "read_metadata"
    [] op = "get_blob"      -> "read_blob"
    [] op = "get_object"    -> "read_object"
    [] op = "put_metadata"  -> "read_existing"
    [] op = "put_blob"      -> "read_existing"
    [] op = "put_object"    -> "write_object"
    [] op = "delete_object" -> "remove_object"

Labels == {"idle", "reply", "admit", "read_metadata", "read_blob", "read_etag",
           "read_object", "read_object_etag", "read_existing",
           "write_metadata", "write_blob", "write_object", "remove_object",
           "record_conflict", "stale", "measure_blob", "measure_objects",
           "write_usage", "check_deleted", "check_metadata", "check_objects",
           "create_namespace", "soft_delete", "restore", "purge"}

Init ==
  /\ meta = [n \in Namespaces |-> None]
  /\ blob = [n \in Namespaces |-> 0]
  /\ objects = [k \in Keys |-> 0]
  /\ objMeta = [k \in Keys |-> 0]
  /\ deleted = {}
  /\ usage = [n \in Namespaces |-> None]
  /\ conflicts = {}
  /\ lastEtag = 0 /\ lastStamp = 0 /\ calls = 0
  /\ pc = [r \in Requests |-> "idle"]
  /\ call \in [Requests -> {None}]
  /\ loc = [r \in Requests |-> NoLocals]
  /\ accepted = {} /\ logged = {}
  /\ purgedAt = [n \in Namespaces |-> 0]

\* A request arrives.  An If-Match names an ETag the server has issued, or
\* is empty; a value it never issued is as stale as any other old one.
Start(r) ==
  /\ pc[r] = "idle" /\ calls < MaxCalls
  /\ \E c \in [op : Ops, ns : Namespaces, path : Paths \cup {None},
               cond : Conditions, etag : 0..lastEtag] :
       /\ WellFormed(c)
       /\ call' = [call EXCEPT ![r] = c]
       /\ Goto(r, CASE c.op \in SyncOps -> "admit"
                    [] c.op = "purge"   -> "purge"
                    [] OTHER            -> "check_deleted")
  /\ calls' = calls + 1
  /\ UNCHANGED <<tables, lastEtag, lastStamp, loc, history>>

\* Mutant: forgets ensure_namespace_active.
AdmitUnchecked(r) ==
  /\ pc[r] = "admit"
  /\ Goto(r, FirstStep(call[r].op))
  /\ UNCHANGED <<tables, lastEtag, lastStamp, calls, call, loc, history>>

\* authorize_sync_request: a soft-deleted namespace is refused before the
\* token is looked at.  Tokens are another component, which may refuse too.
Admit(r) ==
  /\ pc[r] = "admit"
  /\ IF call[r].ns \in deleted
     THEN Reply(r, "missing")
     ELSE Goto(r, FirstStep(call[r].op)) /\ UNCHANGED loc
  /\ UNCHANGED <<tables, lastEtag, lastStamp, calls, call, history>>

\* A bad token, session or CSRF header, an oversized body or a full disk.
\* The sync handlers and most admin handlers test these before they touch
\* the namespace; the soft delete tests the disk just before it writes.
Refuse(r) ==
  /\ \/ pc[r] = "admit" /\ call[r].ns \notin deleted
     \/ pc[r] \in {"check_deleted", "soft_delete", "purge"}
  /\ Reply(r, "refused")
  /\ UNCHANGED <<tables, lastEtag, lastStamp, calls, call, history>>

-----------------------------------------------------------------------------
(* Downloads *)

ReadMetadata(r) ==
  /\ pc[r] = "read_metadata"
  /\ ReplyWithEtag(r, "ok", EtagOfMeta(meta[call[r].ns]))
  /\ UNCHANGED <<tables, lastEtag, lastStamp, calls, call, history>>

ReadBlob(r) ==
  /\ pc[r] = "read_blob"
  /\ IF blob[call[r].ns] = 0
     THEN Reply(r, "missing")
     ELSE Goto(r, "read_etag") /\ KeepPayload(r, blob[call[r].ns])
  /\ UNCHANGED <<tables, lastEtag, lastStamp, calls, call, history>>

ReadBlobEtag(r) ==
  /\ pc[r] = "read_etag"
  /\ ReplyWithEtag(r, "ok", EtagOfMeta(meta[call[r].ns]))
  /\ UNCHANGED <<tables, lastEtag, lastStamp, calls, call, history>>

ReadObject(r) ==
  /\ pc[r] = "read_object"
  /\ IF objects[Item(r)] = 0
     THEN Reply(r, "missing")
     ELSE Goto(r, "read_object_etag") /\ KeepPayload(r, objects[Item(r)])
  /\ UNCHANGED <<tables, lastEtag, lastStamp, calls, call, history>>

ReadObjectEtag(r) ==
  /\ pc[r] = "read_object_etag"
  /\ ReplyWithEtag(r, "ok", objMeta[Item(r)])
  /\ UNCHANGED <<tables, lastEtag, lastStamp, calls, call, history>>

-----------------------------------------------------------------------------
(* Uploads and removals *)

\* The metadata a metadata or snapshot upload will partly carry forward.
ReadExisting(r) ==
  /\ pc[r] = "read_existing"
  /\ KeepMeta(r, meta[call[r].ns])
  /\ Goto(r, IF call[r].op = "put_blob" THEN "write_blob" ELSE "write_metadata")
  /\ UNCHANGED <<tables, lastEtag, lastStamp, calls, call, history>>

\* Mutant: carries the old ETag forward with the other retained values.
MetadataRowKeepsEtag(old, fresh) ==
  [exists |-> TRUE, etag |-> IF old = None THEN fresh ELSE old.etag,
   content |-> ContentOf(old), profile |-> fresh]

\* Mutant: forgets to carry content_hash and content_length forward.
MetadataRowDropsContent(old, fresh) ==
  [exists |-> TRUE, etag |-> fresh, content |-> 0, profile |-> fresh]

\* The row a metadata upload stores, from the row read before.
MetadataRow(old, fresh) ==
  [exists |-> TRUE, etag |-> fresh, content |-> ContentOf(old),
   profile |-> fresh]

\* The row a snapshot upload stores, from the row read before.
SnapshotRow(old, fresh) ==
  [exists |-> TRUE, etag |-> fresh, content |-> fresh,
   profile |-> ProfileOf(old)]

\* A metadata upload replaces the row without any precondition.
WriteMetadata(r) ==
  /\ pc[r] = "write_metadata"
  /\ lastEtag' = lastEtag + 1
  /\ meta' = [meta EXCEPT ![call[r].ns] = MetadataRow(loc[r].meta, lastEtag + 1)]
  /\ KeepEtag(r, lastEtag + 1)
  /\ Goto(r, "stale")
  /\ UNCHANGED <<blob, objects, objMeta, deleted, usage, conflicts,
                 lastStamp, calls, call, history>>

\* Mutant: If-Match only asks for a row with some ETag.
BlobPreconditionAnyMatch(c) ==
  LET current == meta[c.ns] IN
  CASE c.cond = "match"  -> EtagOfMeta(current) # 0
    [] c.cond = "absent" -> ~(current # None /\ current.exists)
    [] OTHER             -> TRUE

\* Mutant: If-None-Match is not looked at.
BlobPreconditionOverwrites(c) ==
  c.cond = "match" => EtagOfMeta(meta[c.ns]) = c.etag

\* The precondition of put_blob_if_matches, inside its transaction.
BlobPrecondition(c) ==
  LET current == meta[c.ns] IN
  CASE c.cond = "match"  -> EtagOfMeta(current) = c.etag
    [] c.cond = "absent" -> ~(current # None /\ current.exists)
    [] OTHER             -> TRUE

\* Mutant: If-Match passes on an object that is gone.
ObjectPreconditionLax(c) ==
  LET current == objMeta[<<c.ns, c.path>>] IN
  CASE c.cond = "match"  -> current \in {0, c.etag}
    [] c.cond = "absent" -> current = 0
    [] OTHER             -> TRUE

\* Mutant: If-None-Match is not looked at.
ObjectPreconditionOverwrites(c) ==
  c.cond = "match" => objMeta[<<c.ns, c.path>>] = c.etag

\* The precondition of put_object_if_matches, inside its transaction.
ObjectPrecondition(c) ==
  LET current == objMeta[<<c.ns, c.path>>] IN
  CASE c.cond = "match"  -> current = c.etag
    [] c.cond = "absent" -> current = 0
    [] OTHER             -> TRUE

\* History: the upload named its precondition and was accepted.  `replaced'
\* is the payload it overwrote, `profile' the format, sections and scope it
\* stored and `current' the ones that were stored until then.
AcceptedUpload == [item : Items, cond : Conditions \ {"any"}, base : Nat,
                   ver : Nat, replaced : Nat, profile : Nat, current : Nat]

Accept(r, replaced, profile, current) ==
  accepted' = IF call[r].cond = "any" THEN accepted
              ELSE accepted \cup
                   {[item |-> Item(r), cond |-> call[r].cond,
                     base |-> call[r].etag, ver |-> lastEtag + 1,
                     replaced |-> replaced, profile |-> profile,
                     current |-> current]}

\* A failed precondition: remember the current ETag, stamp the record.
Conflict(r) ==
  /\ IF MaxConflicts = 0
     THEN ReplyWithEtag(r, "conflict", ItemEtag(Item(r))) /\ UNCHANGED lastStamp
     ELSE /\ Goto(r, "record_conflict")
          /\ KeepConflict(r, ItemEtag(Item(r)), lastStamp + 1)
          /\ lastStamp' = lastStamp + 1
  /\ UNCHANGED <<tables, lastEtag, calls, call, history>>

\* Mutant: removal forgets the blob.
PutSnapshotKeepsBlob(n, row, payload) ==
  /\ meta' = [meta EXCEPT ![n] = row]
  /\ blob' = IF payload = 0 THEN blob ELSE [blob EXCEPT ![n] = payload]

\* Mutant: removal forgets the metadata.
PutSnapshotKeepsMeta(n, row, payload) ==
  /\ meta' = IF row = None THEN meta ELSE [meta EXCEPT ![n] = row]
  /\ blob' = [blob EXCEPT ![n] = payload]

\* Both rows of a snapshot, in one transaction.
PutSnapshot(n, row, payload) ==
  /\ meta' = [meta EXCEPT ![n] = row]
  /\ blob' = [blob EXCEPT ![n] = payload]

\* Mutant: removal forgets the object's metadata.
PutObjectKeepsMeta(k, ver) ==
  /\ objects' = [objects EXCEPT ![k] = ver]
  /\ objMeta' = IF ver = 0 THEN objMeta ELSE [objMeta EXCEPT ![k] = ver]

\* Both rows of an object, in one transaction.
PutObject(k, ver) ==
  /\ objects' = [objects EXCEPT ![k] = ver]
  /\ objMeta' = [objMeta EXCEPT ![k] = ver]

WriteBlob(r) ==
  /\ pc[r] = "write_blob" /\ BlobPrecondition(call[r])
  /\ lastEtag' = lastEtag + 1
  /\ PutSnapshot(call[r].ns, SnapshotRow(loc[r].meta, lastEtag + 1), lastEtag + 1)
  /\ KeepEtag(r, lastEtag + 1)
  /\ Goto(r, "stale")
  /\ Accept(r, blob[call[r].ns], ProfileOf(loc[r].meta),
            ProfileOf(meta[call[r].ns]))
  /\ UNCHANGED <<objects, objMeta, deleted, usage, conflicts, lastStamp, calls,
                 call, logged, purgedAt>>

RejectBlob(r) ==
  /\ pc[r] = "write_blob" /\ ~BlobPrecondition(call[r])
  /\ Conflict(r)

WriteObject(r) ==
  /\ pc[r] = "write_object" /\ ObjectPrecondition(call[r])
  /\ lastEtag' = lastEtag + 1
  /\ PutObject(Item(r), lastEtag + 1)
  /\ KeepEtag(r, lastEtag + 1)
  /\ Goto(r, "stale")
  /\ Accept(r, objects[Item(r)], 0, 0)
  /\ UNCHANGED <<meta, blob, deleted, usage, conflicts, lastStamp, calls, call,
                 logged, purgedAt>>

RejectObject(r) ==
  /\ pc[r] = "write_object" /\ ~ObjectPrecondition(call[r])
  /\ Conflict(r)

\* Deleting an absent object answers 204 too, without a usage refresh.
RemoveObject(r) ==
  /\ pc[r] = "remove_object"
  /\ PutObject(Item(r), 0)
  /\ IF objects[Item(r)] # 0
     THEN Goto(r, "stale") /\ UNCHANGED loc
     ELSE Reply(r, "ok")
  /\ UNCHANGED <<meta, blob, deleted, usage, conflicts, lastEtag, lastStamp,
                 calls, call, history>>

\* add_sync_conflict: insert and trim to the limit in one transaction.
RecordConflict(r) ==
  LET c == [at |-> loc[r].stamp, item |-> Item(r),
            requested |-> call[r].etag, remote |-> loc[r].etag] IN
  /\ pc[r] = "record_conflict"
  /\ conflicts' = NewestOf(conflicts \cup {c}, MaxConflicts)
  /\ logged' = logged \cup {c}
  /\ Reply(r, "conflict")
  /\ UNCHANGED <<meta, blob, objects, objMeta, deleted, usage, lastEtag,
                 lastStamp, calls, call, accepted, purgedAt>>

-----------------------------------------------------------------------------
(* Usage accounting *)

\* refresh_namespace_usage_if_stale: a recent row makes the refresh skip.
SkipRefresh(r) ==
  /\ pc[r] = "stale"
  /\ ~RefreshAlways /\ usage[call[r].ns] # None
  /\ Reply(r, "ok")
  /\ UNCHANGED <<tables, lastEtag, lastStamp, calls, call, history>>

BeginRefresh(r) ==
  /\ pc[r] = "stale"
  /\ Goto(r, "measure_blob")
  /\ UNCHANGED <<tables, lastEtag, lastStamp, calls, call, loc, history>>

MeasureBlob(r) ==
  /\ pc[r] = "measure_blob"
  /\ KeepPayload(r, blob[call[r].ns])
  /\ Goto(r, "measure_objects")
  /\ UNCHANGED <<tables, lastEtag, lastStamp, calls, call, history>>

MeasureObjects(r) ==
  /\ pc[r] = "measure_objects"
  /\ KeepMeasured(r, ObjectsOf(call[r].ns))
  /\ Goto(r, "write_usage")
  /\ UNCHANGED <<tables, lastEtag, lastStamp, calls, call, history>>

\* Mutant: the flag of every refresh is that of the sync handlers.
UsageRowNeverSoft(r) ==
  [blob |-> loc[r].payload, objects |-> loc[r].measured, soft |-> FALSE]

UsageRow(r) ==
  [blob |-> loc[r].payload, objects |-> loc[r].measured,
   soft |-> call[r].op = "soft_delete"]

WriteUsage(r) ==
  /\ pc[r] = "write_usage"
  /\ usage' = [usage EXCEPT ![call[r].ns] = UsageRow(r)]
  /\ Reply(r, "ok")
  /\ UNCHANGED <<meta, blob, objects, objMeta, deleted, conflicts, lastEtag,
                 lastStamp, calls, call, history>>

-----------------------------------------------------------------------------
(* Namespace administration *)

CheckDeleted(r) ==
  /\ pc[r] = "check_deleted"
  /\ \/ /\ call[r].op = "restore" /\ call[r].ns \in deleted
        /\ Goto(r, "restore") /\ UNCHANGED loc
     \/ /\ call[r].op = "restore" /\ call[r].ns \notin deleted
        /\ Reply(r, "missing")
     \/ /\ call[r].op # "restore" /\ call[r].ns \in deleted
        /\ Reply(r, "exists")
     \/ /\ call[r].op # "restore" /\ call[r].ns \notin deleted
        /\ Goto(r, "check_metadata") /\ UNCHANGED loc
  /\ UNCHANGED <<tables, lastEtag, lastStamp, calls, call, history>>

\* A namespace exists when it has a metadata row or, read afterwards in a
\* transaction of its own, an object.
CheckMetadata(r) ==
  /\ pc[r] = "check_metadata"
  /\ \/ /\ meta[call[r].ns] = None
        /\ Goto(r, "check_objects") /\ UNCHANGED loc
     \/ /\ meta[call[r].ns] # None /\ call[r].op = "create_namespace"
        /\ Reply(r, "exists")
     \/ /\ meta[call[r].ns] # None /\ call[r].op = "soft_delete"
        /\ Goto(r, "soft_delete") /\ UNCHANGED loc
  /\ UNCHANGED <<tables, lastEtag, lastStamp, calls, call, history>>

CheckObjects(r) ==
  /\ pc[r] = "check_objects"
  /\ \/ /\ ObjectsOf(call[r].ns) = {} /\ call[r].op = "create_namespace"
        /\ Goto(r, "create_namespace") /\ UNCHANGED loc
     \/ /\ ObjectsOf(call[r].ns) = {} /\ call[r].op = "soft_delete"
        /\ Reply(r, "missing")
     \/ /\ ObjectsOf(call[r].ns) # {} /\ call[r].op = "create_namespace"
        /\ Reply(r, "exists")
     \/ /\ ObjectsOf(call[r].ns) # {} /\ call[r].op = "soft_delete"
        /\ Goto(r, "soft_delete") /\ UNCHANGED loc
  /\ UNCHANGED <<tables, lastEtag, lastStamp, calls, call, history>>

CreateNamespace(r) ==
  /\ pc[r] = "create_namespace"
  /\ meta' = [meta EXCEPT ![call[r].ns] = EmptyMetadata]
  /\ Reply(r, "ok")
  /\ UNCHANGED <<blob, objects, objMeta, deleted, usage, conflicts, lastEtag,
                 lastStamp, calls, call, history>>

\* Soft delete and restore refresh the usage row whatever its age.
SoftDelete(r) ==
  /\ pc[r] = "soft_delete"
  /\ deleted' = deleted \cup {call[r].ns}
  /\ Goto(r, "measure_blob")
  /\ UNCHANGED <<meta, blob, objects, objMeta, usage, conflicts, lastEtag,
                 lastStamp, calls, call, loc, history>>

Restore(r) ==
  /\ pc[r] = "restore"
  /\ deleted' = deleted \ {call[r].ns}
  /\ Goto(r, "measure_blob")
  /\ UNCHANGED <<meta, blob, objects, objMeta, usage, conflicts, lastEtag,
                 lastStamp, calls, call, loc, history>>

\* Mutant: looks for the objects under a key no object has.
StoredKeysMissed(n) == {}

\* The object keys a purge finds by scanning OBJECT_TABLE for the prefix.
StoredKeys(n) == {k \in KeysOf(n) : objects[k] # 0}

\* hard_delete_namespace: one transaction.  It removes the metadata of the
\* objects it finds in OBJECT_TABLE, and no other object metadata.
Purge(r) ==
  LET n == call[r].ns IN
  /\ pc[r] = "purge"
  /\ PutSnapshot(n, None, 0)
  /\ deleted' = deleted \ {n}
  /\ usage' = [usage EXCEPT ![n] = None]
  /\ objects' = [k \in Keys |-> IF k \in StoredKeys(n) THEN 0 ELSE objects[k]]
  /\ objMeta' = [k \in Keys |-> IF k \in StoredKeys(n) THEN 0 ELSE objMeta[k]]
  /\ purgedAt' = [purgedAt EXCEPT ![n] = lastEtag]
  /\ Reply(r, "ok")
  /\ UNCHANGED <<conflicts, lastEtag, lastStamp, calls, call, accepted, logged>>

-----------------------------------------------------------------------------
(* Responses, failures, restarts *)

\* The response leaves; the handler's frame is gone.
Finish(r) ==
  /\ pc[r] = "reply"
  /\ Goto(r, "idle")
  /\ call' = [call EXCEPT ![r] = None]
  /\ loc' = [loc EXCEPT ![r] = NoLocals]
  /\ UNCHANGED <<tables, lastEtag, lastStamp, calls, history>>

\* A transaction fails and leaves no trace; `?' answers 500.
StorageError(r) ==
  /\ MayFail
  /\ pc[r] \notin {"idle", "reply"}
  /\ Reply(r, "error")
  /\ UNCHANGED <<tables, lastEtag, lastStamp, calls, call, history>>

\* The process dies and restarts: handlers are lost, the tables are not.
Crash ==
  /\ MayFail
  /\ \E r \in Requests : pc[r] # "idle"
  /\ pc' = [r \in Requests |-> "idle"]
  /\ call' = [r \in Requests |-> None]
  /\ loc' = [r \in Requests |-> NoLocals]
  /\ UNCHANGED <<tables, lastEtag, lastStamp, calls, history>>

\* The run's bound on requests is used up and every one was answered.
Quiet ==
  /\ calls = MaxCalls /\ \A r \in Requests : pc[r] = "idle"
  /\ UNCHANGED vars

Step(r) ==
  \/ Start(r) \/ Admit(r) \/ Refuse(r)
  \/ ReadMetadata(r) \/ ReadBlob(r) \/ ReadBlobEtag(r)
  \/ ReadObject(r) \/ ReadObjectEtag(r)
  \/ ReadExisting(r) \/ WriteMetadata(r)
  \/ WriteBlob(r) \/ RejectBlob(r) \/ WriteObject(r) \/ RejectObject(r)
  \/ RemoveObject(r) \/ RecordConflict(r)
  \/ SkipRefresh(r) \/ BeginRefresh(r) \/ MeasureBlob(r) \/ MeasureObjects(r)
  \/ WriteUsage(r)
  \/ CheckDeleted(r) \/ CheckMetadata(r) \/ CheckObjects(r)
  \/ CreateNamespace(r) \/ SoftDelete(r) \/ Restore(r) \/ Purge(r)
  \/ Finish(r) \/ StorageError(r)

Next == (\E r \in Requests : Step(r)) \/ Crash \/ Quiet

Spec == Init /\ [][Next]_vars

-----------------------------------------------------------------------------
(* Properties *)

ObjectLabels == {"read_object", "read_object_etag", "write_object",
                 "remove_object"}
SnapshotLabels == {"read_blob", "read_etag", "read_existing",
                   "write_metadata", "write_blob"}

\* A handler at this label may be serving the request c.
Serves(label, c) ==
  label # "idle" =>
    /\ c \in Call /\ WellFormed(c)
    /\ label \in ObjectLabels => c.path # None
    /\ label \in SnapshotLabels => c.path = None
    /\ label = "admit" => c.op \in SyncOps

TablesOK ==
  /\ meta \in [Namespaces -> SyncMetadata \cup {None}]
  /\ blob \in [Namespaces -> Nat]
  /\ objects \in [Keys -> Nat] /\ objMeta \in [Keys -> Nat]
  /\ deleted \in SUBSET Namespaces
  /\ usage \in [Namespaces -> UsageRecord \cup {None}]
  /\ conflicts \in SUBSET ConflictRecord
  /\ lastEtag \in Nat /\ lastStamp \in Nat /\ calls \in Nat

HandlersOK ==
  /\ pc \in [Requests -> Labels]
  /\ call \in [Requests -> Call \cup {None}]
  /\ loc \in [Requests -> Locals]
  /\ \A r \in Requests : Serves(pc[r], call[r])

HistoryOK ==
  /\ accepted \in SUBSET AcceptedUpload
  /\ logged \in SUBSET ConflictRecord
  /\ purgedAt \in [Namespaces -> Nat]

\* Every table row, request and local value has the shape the Rust types
\* give it, and a handler at work serves a request that leads it there.
TypeOK == TablesOK /\ HandlersOK /\ HistoryOK

\* put_object_if_matches, delete_object and hard_delete_namespace keep the
\* payload table and the ETag table of objects in step: an ETag is stored
\* exactly where a payload is, and it is the ETag of that payload.
ObjectPairing == \A k \in Keys : objMeta[k] = objects[k]

\* put_blob stores metadata with the blob and only a purge removes either:
\* no blob is ever left without a metadata row.
BlobHasMetadata == \A n \in Namespaces : blob[n] # 0 => meta[n] # None

\* "ETag-based optimistic locking is enforced for blob and object uploads":
\* of all uploads that name the same ETag in If-Match, at most one is ever
\* accepted, whatever runs between a client's read and its upload.
SingleSuccessor ==
  \A a, b \in accepted :
    a.cond = "match" /\ b.cond = "match" /\ a.base # 0 /\ a.base = b.base
      => a.ver = b.ver

\* put_blob reads the metadata whose format, sections and scope it carries
\* forward in an earlier transaction than the one that checks If-Match.  An
\* accepted If-Match upload still carries exactly what it replaces.
CarryForward ==
  \A a \in accepted :
    a.item[2] = None /\ a.cond = "match" /\ a.base # 0
      => a.profile = a.current

\* An accepted If-None-Match: * upload of an object replaced nothing.
ObjectCreateOnly ==
  \A a \in accepted :
    a.item[2] # None /\ a.cond = "absent" => a.replaced = 0

\* "Remote snapshot already exists": the same promise for the snapshot blob.
SnapshotCreateOnly ==
  \A a \in accepted :
    a.item[2] = None /\ a.cond = "absent" => a.replaced = 0

\* get_blob and get_object read the payload first and its ETag in a second
\* transaction: the ETag of a response is never older than its payload, so
\* a later If-Match with it never rejects a client that is up to date.
EtagNotOlderThanPayload ==
  \A r \in Requests :
    pc[r] = "reply" /\ loc[r].status = "ok"
      /\ call[r].op \in {"get_blob", "get_object"} /\ loc[r].etag # 0
        => loc[r].etag >= loc[r].payload

\* "Download structured object with `ETag`": the ETag of a response is the
\* ETag of the payload in the same response.
DownloadEtagMatchesPayload ==
  \A r \in Requests :
    pc[r] = "reply" /\ loc[r].status = "ok" /\ call[r].op = "get_object"
      => loc[r].etag = loc[r].payload

\* "removing from the start keeps newest records": whatever the order in
\* which stamped records reach add_sync_conflict, the table holds the
\* newest of all that were ever inserted.
ConflictLogKeepsNewest ==
  /\ conflicts \subseteq logged
  /\ \A c \in conflicts, d \in logged \ conflicts : d.at < c.at
  /\ conflicts # logged => Cardinality(conflicts) = MaxConflicts

\* hard_delete_namespace finds object metadata through OBJECT_TABLE only:
\* the step that drops a namespace's last row leaves none of any kind.
PurgeLeavesNothing ==
  [][\A r \in Requests :
       pc[r] = "purge" /\ pc'[r] = "reply" /\ loc'[r].status = "ok" =>
         LET n == call[r].ns IN
         /\ meta'[n] = None /\ blob'[n] = 0 /\ usage'[n] = None
         /\ n \notin deleted'
         /\ \A k \in KeysOf(n) : objects'[k] = 0 /\ objMeta'[k] = 0]_vars

\* "Soft-deleted namespaces stop serving sync traffic until restored":
\* while a namespace is soft-deleted no upload changes what it stores.
SoftDeletedIsFrozen ==
  [][\A n \in deleted \cap deleted' :
       /\ meta'[n] = meta[n] /\ blob'[n] = blob[n]
       /\ \A k \in KeysOf(n) : objects'[k] = objects[k]]_vars

\* "Permanent deletion ... removes the namespace metadata": nothing stored
\* later carries format, sections or scope from before the purge.
PurgedMetadataStaysGone ==
  \A n \in Namespaces :
    meta[n] # None /\ meta[n].profile # 0 => meta[n].profile > purgedAt[n]

AllIdle == \A r \in Requests : pc[r] = "idle"

\* Refreshed after every write (USAGE_REFRESH_INTERVAL_SECONDS = 0), the
\* usage row of a namespace describes exactly what the tables hold, and
\* its soft-delete flag is right, whenever no handler is at work.
UsageAccurateWhenQuiet ==
  AllIdle => \A n \in Namespaces :
    usage[n] # None => usage[n] = [blob |-> blob[n], objects |-> ObjectsOf(n),
                                   soft |-> n \in deleted]

\* put_metadata keeps content_hash and content_length of the row it
\* replaces, put_blob computes them: they describe the stored blob.
MetadataDescribesBlob == \A n \in Namespaces : ContentOf(meta[n]) = blob[n]

\* admin_delete_namespace tests that a namespace exists before it writes
\* the tombstone: a soft-deleted namespace has something to restore.
TombstoneHasData ==
  \A n \in deleted : meta[n] # None \/ ObjectsOf(n) # {}

-----------------------------------------------------------------------------
(* The inductive invariant behind these properties *)

\* A row exists for clients exactly when it carries an ETag.
ExistsMeansEtag ==
  \A n \in Namespaces : meta[n] # None => (meta[n].exists <=> meta[n].etag # 0)

\* Stored ETags and payloads were minted, and no blob is newer than the ETag
\* its namespace shows.
EtagsAreMinted ==
  /\ \A i \in Items : ItemEtag(i) <= lastEtag
  /\ \A n \in Namespaces :
       /\ blob[n] <= lastEtag
       /\ EtagOfMeta(meta[n]) # 0 => blob[n] <= EtagOfMeta(meta[n])

\* An If-Match names an ETag of the past.
EtagIsKnown(r) == pc[r] # "idle" => call[r].etag <= lastEtag

\* What an upload read for carrying forward is still the stored row if the
\* ETag the client named is still the stored ETag.
ReadIsCurrent(r) ==
  pc[r] = "write_blob" /\ call[r].cond = "match" /\ call[r].etag # 0
    /\ EtagOfMeta(meta[call[r].ns]) = call[r].etag
      => loc[r].meta = meta[call[r].ns]

\* The ETag a download will read next is absent or as new as its payload.
EtagWillDo(r) ==
  /\ pc[r] = "read_etag" =>
       /\ loc[r].payload <= lastEtag
       /\ EtagOfMeta(meta[call[r].ns]) # 0 =>
            EtagOfMeta(meta[call[r].ns]) >= loc[r].payload
  /\ pc[r] = "read_object_etag" =>
       /\ loc[r].payload <= lastEtag
       /\ objMeta[Item(r)] # 0 => objMeta[Item(r)] >= loc[r].payload

StorageInv == ObjectPairing /\ BlobHasMetadata /\ ExistsMeansEtag /\ EtagsAreMinted
HandlerInv ==
  \A r \in Requests : EtagIsKnown(r) /\ ReadIsCurrent(r) /\ EtagWillDo(r)

-----------------------------------------------------------------------------
(* Refinement *)

\* The snapshot and the objects of a namespace as ETag registers.
Registers == INSTANCE EtagRegisters WITH
  current <- [i \in Items |-> ItemEtag(i)],
  last <- lastEtag,
  accepted <- {[item |-> a.item, cond |-> a.cond, base |-> a.base,
                ver |-> a.ver] : a \in accepted}

\* The handlers, with their separate transactions, tables, conflicts and
\* crashes, implement registers whose conditional uploads are atomic.
ImplementsRegisters == Registers!Spec

=============================================================================
