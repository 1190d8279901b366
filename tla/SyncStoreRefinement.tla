------------------------- MODULE SyncStoreRefinement -------------------------
(* SyncStore implements EtagRegisters, and what follows for its uploads. *)
EXTENDS SyncStoreSafety

-----------------------------------------------------------------------------
(* Accepted conditional uploads *)

\* Only the two upload transactions accept anything.
LEMMA OnlyUploadsAccept ==
  ASSUME [Next]_vars
  PROVE  (\E r \in Requests : WriteBlob(r) \/ WriteObject(r)) \/ UNCHANGED accepted
<1>1. ASSUME NEW r \in Requests, Step(r)
      PROVE  WriteBlob(r) \/ WriteObject(r) \/ UNCHANGED accepted
  BY <1>1 DEF Step, history, Start, Admit, Refuse, ReadMetadata,
     ReadBlob, ReadBlobEtag, ReadObject, ReadObjectEtag, ReadExisting,
     WriteMetadata, RemoveObject, RejectBlob, RejectObject, Conflict,
     RecordConflict, SkipRefresh, BeginRefresh, MeasureBlob, MeasureObjects,
     WriteUsage, CheckDeleted, CheckMetadata, CheckObjects, CreateNamespace,
     SoftDelete, Restore, Purge, Finish, StorageError
<1> QED
  BY <1>1 DEF Next, Crash, Quiet, vars, history

UploadInv == CarryForward /\ ObjectCreateOnly

LEMMA UploadStep ==
  ASSUME SafetyInv, UploadInv, [Next]_vars PROVE UploadInv'
<1> USE DEF UploadInv
<1>1. CASE UNCHANGED accepted
  BY <1>1 DEF CarryForward, ObjectCreateOnly
<1>2. ASSUME NEW r \in Requests, WriteBlob(r) PROVE UploadInv'
  <2>1. pc[r] = "write_blob" /\ call[r].path = None
    BY <1>2, Target DEF WriteBlob, SafetyInv, TypeOK, SnapshotLabels
  <2>2. call[r].cond = "match" /\ call[r].etag # 0 =>
          ProfileOf(loc[r].meta) = ProfileOf(meta[call[r].ns])
    <3>1. SUFFICES ASSUME call[r].cond = "match", call[r].etag # 0
                   PROVE  loc[r].meta = meta[call[r].ns]
      OBVIOUS
    <3>2. EtagOfMeta(meta[call[r].ns]) = call[r].etag
      BY <1>2, <3>1 DEF WriteBlob, BlobPrecondition
    <3> QED
      BY <2>1, <3>1, <3>2 DEF SafetyInv, HandlerInv, ReadIsCurrent
  <2>3. Item(r)[2] = None
    BY <2>1 DEF Item
  <2>4. Accept(r, blob[call[r].ns], ProfileOf(loc[r].meta),
               ProfileOf(meta[call[r].ns]))
    BY <1>2 DEF WriteBlob
  <2> QED
    BY <2>2, <2>3, <2>4 DEF Accept, CarryForward, ObjectCreateOnly
<1>3. ASSUME NEW r \in Requests, WriteObject(r) PROVE UploadInv'
  <2>1. Item(r) \in Keys
    BY <1>3, Target DEF WriteObject, SafetyInv, TypeOK, ObjectLabels
  <2>2. Item(r)[2] # None
    BY <2>1, NoneAssumption DEF Keys
  <2>3. call[r].cond = "absent" => objects[Item(r)] = 0
    BY <1>3, <2>1 DEF WriteObject, ObjectPrecondition, Item, SafetyInv,
                      StorageInv, ObjectPairing
  <2>4. Accept(r, objects[Item(r)], 0, 0)
    BY <1>3 DEF WriteObject
  <2> QED
    BY <2>2, <2>3, <2>4 DEF Accept, CarryForward, ObjectCreateOnly
<1> QED
  BY <1>1, <1>2, <1>3, OnlyUploadsAccept

LEMMA Uploads == Spec => []UploadInv
<1>1. Init => UploadInv
  BY DEF Init, UploadInv, CarryForward, ObjectCreateOnly
<1>2. SafetyInv /\ UploadInv /\ [Next]_vars => UploadInv'
  BY UploadStep
<1> QED
  BY <1>1, <1>2, Safety, PTL DEF Spec

\* An accepted If-Match upload of a snapshot keeps the format, sections and
\* scope of exactly the version it replaces, although put_blob reads them
\* before the transaction that compares the ETag.
THEOREM UploadsCarryForward == Spec => []CarryForward
<1>1. UploadInv => CarryForward
  BY DEF UploadInv
<1> QED
  BY <1>1, Uploads, PTL

\* An accepted If-None-Match: * upload of an object never overwrites one.
THEOREM CreateOnlyCreates == Spec => []ObjectCreateOnly
<1>1. UploadInv => ObjectCreateOnly
  BY DEF UploadInv
<1> QED
  BY <1>1, Uploads, PTL

-----------------------------------------------------------------------------
(* The refinement *)

Current == [i \in Items |-> ItemEtag(i)]
Project(a) == [item |-> a.item, cond |-> a.cond, base |-> a.base, ver |-> a.ver]
Accepted == {Project(a) : a \in accepted}

LEMMA AcceptMaps ==
  ASSUME NEW r, NEW x, NEW y, NEW z, Accept(r, x, y, z)
  PROVE  Accepted' = IF call[r].cond = "any" THEN Accepted
                     ELSE Accepted \cup {[item |-> Item(r), cond |-> call[r].cond,
                                          base |-> call[r].etag,
                                          ver |-> lastEtag + 1]}
<1> DEFINE a == [item |-> Item(r), cond |-> call[r].cond, base |-> call[r].etag,
                 ver |-> lastEtag + 1, replaced |-> x, profile |-> y,
                 current |-> z]
<1>1. Project(a) = [item |-> Item(r), cond |-> call[r].cond,
                    base |-> call[r].etag, ver |-> lastEtag + 1]
  BY DEF Project
<1>2. accepted' = IF call[r].cond = "any" THEN accepted ELSE accepted \cup {a}
  BY DEF Accept
<1> HIDE DEF a
<1> QED
  BY <1>1, <1>2 DEF Accepted

\* An upload that rewrites the ETag of one item, with its precondition.
LEMMA UploadMaps ==
  ASSUME TypeOK, NEW r \in Requests, pc[r] # "idle", lastEtag' = lastEtag + 1,
         Current' = [Current EXCEPT ![Item(r)] = lastEtag + 1],
         ItemEtag(Item(r)) <= lastEtag,
         call[r].cond = "match" => ItemEtag(Item(r)) = call[r].etag,
         call[r].cond = "absent" => ItemEtag(Item(r)) = 0,
         NEW x, NEW y, NEW z, Accept(r, x, y, z)
  PROVE  Registers!Next
<1>1. /\ Item(r) \in Items /\ call[r].cond \in Conditions /\ lastEtag \in Nat
      /\ call[r].etag \in Nat /\ WellFormed(call[r])
      /\ ItemEtag(Item(r)) = Current[Item(r)]
  BY Target DEF TypeOK, TablesOK, HandlersOK, Serves, Current
<1>2. CASE call[r].cond = "any"
  <2>1. Registers!Overwrite(Item(r))
    BY <1>2, AcceptMaps DEF Registers!Overwrite, Current, Accepted, Project
  <2> QED
    BY <1>1, <2>1 DEF Registers!Next
<1>3. CASE call[r].cond # "any"
  <2>1. call[r].cond \in {"match", "absent"} /\ call[r].etag \in 0..lastEtag
    BY <1>1, <1>3 DEF Conditions, WellFormed
  <2>2. PICK i \in Items, c \in {"match", "absent"}, b \in 0..lastEtag :
          i = Item(r) /\ c = call[r].cond /\ b = call[r].etag
    BY <1>1, <2>1
  <2>3. Accepted' = Accepted \cup {[item |-> i, cond |-> c, base |-> b,
                                    ver |-> lastEtag + 1]}
    BY <1>3, <2>2, AcceptMaps
  <2>4. /\ c = "match" => Current[i] = b
        /\ c = "absent" => Current[i] = 0
    BY <1>1, <2>2
  <2>5. Current' = [Current EXCEPT ![i] = lastEtag + 1]
    BY <2>2
  <2>6. Registers!Put(i, c, b)
    BY <2>3, <2>4, <2>5, Zenon DEF Registers!Put, Current, Accepted, Project
  <2> QED
    BY <2>6, Zenon DEF Registers!Next
<1> QED
  BY <1>2, <1>3

\* Writing one item's row rewrites one register.
LEMMA CurrentMaps ==
  ASSUME TypeOK, NEW n \in Namespaces, NEW v
  PROVE  /\ /\ UNCHANGED objMeta
            /\ \A m \in Namespaces : EtagOfMeta(meta'[m]) =
                 IF m = n THEN v ELSE EtagOfMeta(meta[m])
            => Current' = [Current EXCEPT ![<<n, None>>] = v]
         /\ \A k \in Keys :
              /\ UNCHANGED meta
              /\ objMeta' = [objMeta EXCEPT ![k] = v]
              => Current' = [Current EXCEPT ![k] = v]
<1>1. \A i \in Items : i[1] \in Namespaces /\ i = <<i[1], i[2]>>
        /\ (i[2] # None => i \in Keys)
  BY DEF Items, Keys
<1>2. ASSUME UNCHANGED objMeta,
             \A m \in Namespaces : EtagOfMeta(meta'[m]) =
                 IF m = n THEN v ELSE EtagOfMeta(meta[m])
      PROVE  Current' = [Current EXCEPT ![<<n, None>>] = v]
  <2>1. \A i \in Items : ItemEtag(i)' = IF i = <<n, None>> THEN v ELSE ItemEtag(i)
    BY <1>1, <1>2 DEF ItemEtag
  <2> QED
    BY <2>1 DEF Current
<1>3. ASSUME NEW k \in Keys, UNCHANGED meta, objMeta' = [objMeta EXCEPT ![k] = v]
      PROVE  Current' = [Current EXCEPT ![k] = v]
  <2>1. k[2] # None /\ k \in Items
    BY NoneAssumption DEF Keys, Items
  <2>2. \A i \in Items : ItemEtag(i)' = IF i = k THEN v ELSE ItemEtag(i)
    BY <1>1, <1>3, <2>1 DEF ItemEtag, TypeOK, TablesOK
  <2> QED
    BY <2>2 DEF Current
<1> QED
  BY <1>2, <1>3

\* The transactions that only remove ETags clear a set of registers.
LEMMA ClearMaps ==
  ASSUME NEW K \in SUBSET Items, UNCHANGED <<lastEtag, accepted>>,
         \A i \in Items : ItemEtag(i)' = IF i \in K THEN 0 ELSE ItemEtag(i)
  PROVE  Registers!Next
<1>1. Registers!Clear(K)
  BY DEF Registers!Clear
<1> QED
  BY <1>1, Zenon DEF Registers!Next

LEMMA RefinementInit == Init => Registers!Init
  BY DEF Init, Registers!Init, ItemEtag, EtagOfMeta, Items, Keys

LEMMA RefinementStep ==
  SafetyInv /\ [Next]_vars => [Registers!Next]_(Registers!vars)
<1> SUFFICES ASSUME SafetyInv, [Next]_vars
             PROVE  Registers!Next \/ UNCHANGED Registers!vars
  OBVIOUS
<1> USE DEF SafetyInv
<1>1. \A i \in Items : i[1] \in Namespaces /\ i = <<i[1], i[2]>>
        /\ (i[2] # None => i \in Keys)
  BY DEF Items, Keys
<1>2. \A i \in Items : ItemEtag(i) <= lastEtag
  BY DEF StorageInv, EtagsAreMinted
<1>3. CASE UNCHANGED data /\ UNCHANGED accepted
  <2>1. \A i \in Items : ItemEtag(i)' = ItemEtag(i)
    BY <1>3 DEF data, ItemEtag
  <2> QED
    BY <1>3, <2>1 DEF data, Registers!vars
<1>4. ASSUME NEW r \in Requests, Writes(r) PROVE Registers!Next
  <2>1. pc[r] # "idle" /\ lastEtag \in Nat /\ lastEtag + 1 \in Nat \ {0}
    BY <1>4 DEF TypeOK, TablesOK, Writes, WriteMetadata, WriteBlob, WriteObject,
                RemoveObject, CreateNamespace, Purge
  <2>2. /\ call[r].ns \in Namespaces /\ loc[r].meta \in SyncMetadata \cup {None}
        /\ Item(r) \in Items /\ ItemEtag(Item(r)) <= lastEtag
        /\ <<call[r].ns, None>> \in Items
    BY <1>2, <2>1, Target DEF TypeOK, HandlersOK, Locals, Items
  <2>3. CASE WriteMetadata(r)
    <3>1. \A m \in Namespaces : EtagOfMeta(meta'[m]) =
            IF m = call[r].ns THEN lastEtag + 1 ELSE EtagOfMeta(meta[m])
      BY <2>1, <2>2, <2>3, RowFacts DEF WriteMetadata, TypeOK, TablesOK
    <3>2. Current' = [Current EXCEPT ![<<call[r].ns, None>>] = lastEtag + 1]
      BY <2>2, <2>3, <3>1, CurrentMaps DEF WriteMetadata
    <3>3. Registers!Overwrite(<<call[r].ns, None>>)
      BY <2>3, <3>2 DEF WriteMetadata, history, Registers!Overwrite, Current
    <3> QED
      BY <2>2, <3>3, Zenon DEF Registers!Next
  <2>4. CASE WriteBlob(r)
    <3>1. \A m \in Namespaces : EtagOfMeta(meta'[m]) =
            IF m = call[r].ns THEN lastEtag + 1 ELSE EtagOfMeta(meta[m])
      BY <2>1, <2>2, <2>4, RowFacts DEF WriteBlob, PutSnapshot, TypeOK, TablesOK
    <3>2. Item(r) = <<call[r].ns, None>>
      BY <2>1, <2>4, Target DEF WriteBlob, SnapshotLabels, Item, TypeOK
    <3>3. Current' = [Current EXCEPT ![Item(r)] = lastEtag + 1]
      BY <2>2, <2>4, <3>1, <3>2, CurrentMaps DEF WriteBlob
    <3>4. ItemEtag(Item(r)) = EtagOfMeta(meta[call[r].ns])
      BY <3>2 DEF ItemEtag
    <3>5. /\ call[r].cond = "match" => ItemEtag(Item(r)) = call[r].etag
          /\ call[r].cond = "absent" => ItemEtag(Item(r)) = 0
      BY <2>2, <2>4, <3>4 DEF WriteBlob, BlobPrecondition, EtagOfMeta,
         StorageInv, ExistsMeansEtag
    <3> QED
      BY <2>1, <2>2, <2>4, <3>3, <3>5, UploadMaps DEF WriteBlob
  <2>5. CASE WriteObject(r)
    <3>1. Item(r) \in Keys
      BY <2>1, <2>5, Target DEF WriteObject, ObjectLabels, TypeOK
    <3>2. Current' = [Current EXCEPT ![Item(r)] = lastEtag + 1]
      BY <2>2, <2>5, <3>1, CurrentMaps DEF WriteObject, PutObject
    <3>3. ItemEtag(Item(r)) = objMeta[Item(r)]
      BY <3>1, NoneAssumption DEF ItemEtag, Keys
    <3>4. /\ call[r].cond = "match" => ItemEtag(Item(r)) = call[r].etag
          /\ call[r].cond = "absent" => ItemEtag(Item(r)) = 0
      BY <2>5, <3>3 DEF WriteObject, ObjectPrecondition, Item
    <3> QED
      BY <2>1, <2>2, <2>5, <3>2, <3>4, UploadMaps DEF WriteObject
  <2>6. CASE RemoveObject(r)
    <3>1. Item(r) \in Keys
      BY <2>1, <2>6, Target DEF RemoveObject, ObjectLabels, TypeOK
    <3>2. \A i \in Items : ItemEtag(i)' = IF i \in {Item(r)} THEN 0 ELSE ItemEtag(i)
      BY <1>1, <2>6, <3>1, NoneAssumption
      DEF RemoveObject, PutObject, ItemEtag, TypeOK, TablesOK, Keys
    <3> QED
      BY <2>2, <2>6, <3>2, ClearMaps DEF RemoveObject, history
  <2>7. CASE CreateNamespace(r)
    <3>1. \A m \in Namespaces : EtagOfMeta(meta'[m]) =
            IF m = call[r].ns THEN 0 ELSE EtagOfMeta(meta[m])
      BY <2>1, <2>2, <2>7, RowFacts DEF CreateNamespace, TypeOK, TablesOK
    <3>2. \A i \in Items : ItemEtag(i)' =
            IF i \in {<<call[r].ns, None>>} THEN 0 ELSE ItemEtag(i)
      BY <1>1, <2>7, <3>1 DEF CreateNamespace, ItemEtag
    <3> QED
      BY <2>2, <2>7, <3>2, ClearMaps DEF CreateNamespace, history
  <2>8. CASE Purge(r)
    <3> DEFINE K == {i \in Items : i[1] = call[r].ns}
    <3>1. \A m \in Namespaces : EtagOfMeta(meta'[m]) =
            IF m = call[r].ns THEN 0 ELSE EtagOfMeta(meta[m])
      BY <2>1, <2>2, <2>8, RowFacts DEF Purge, PutSnapshot, TypeOK, TablesOK
    <3>2. \A k \in Keys : objMeta'[k] = IF k[1] = call[r].ns THEN 0 ELSE objMeta[k]
      BY <2>8 DEF Purge, StoredKeys, KeysOf, Keys, StorageInv, ObjectPairing
    <3>3. \A i \in Items : ItemEtag(i)' = IF i \in K THEN 0 ELSE ItemEtag(i)
      BY <1>1, <3>1, <3>2 DEF ItemEtag
    <3> QED
      BY <2>8, <3>3, ClearMaps DEF Purge
  <2> QED
    BY <1>4, <2>3, <2>4, <2>5, <2>6, <2>7, <2>8 DEF Writes
<1> QED
  BY <1>3, <1>4, OnlyWritesChangeData, OnlyUploadsAccept DEF Writes

\* The sync handlers, with the check and the write of an upload inside one
\* transaction and everything else outside it, implement ETag registers
\* with atomic conditional uploads.
THEOREM ImplementsEtagRegisters == Spec => ImplementsRegisters
  BY RefinementInit, RefinementStep, Safety, PTL
  DEF Spec, ImplementsRegisters, Registers!Spec

\* "ETag-based optimistic locking is enforced": of two uploads that name the
\* same ETag at most one is accepted.  It holds of the registers, and the
\* handlers implement them.
THEOREM OptimisticLocking == Spec => []SingleSuccessor
<1>1. Registers!Spec => []Registers!AtMostOneSuccessor
  BY Registers!RegistersLockOptimistically
<1>2. Registers!AtMostOneSuccessor => SingleSuccessor
  <2> SUFFICES ASSUME Registers!AtMostOneSuccessor,
                      NEW a \in accepted, NEW b \in accepted,
                      a.cond = "match", b.cond = "match", a.base # 0, a.base = b.base
               PROVE  a.ver = b.ver
    BY DEF SingleSuccessor
  <2>1. Project(a) = Project(b)
    BY DEF Registers!AtMostOneSuccessor, Project
  <2> QED
    BY <2>1 DEF Project
<1> QED
  BY <1>1, <1>2, ImplementsEtagRegisters, PTL DEF ImplementsRegisters

=============================================================================
