----------------------------- MODULE MCSyncStore -----------------------------
(* Instances of SyncStore for TLC: the endpoints each run lets clients call. *)
EXTENDS SyncStore, TLC

ObjectTraffic == {"get_object", "put_object", "delete_object", "purge"}
SnapshotTraffic == {"get_blob", "put_blob", "put_metadata", "create_namespace",
                    "purge"}
DownloadRace == {"get_object", "put_object"}
CreateRace == {"put_blob", "create_namespace"}
AllTraffic == SyncOps \cup AdminOps

\* Handlers, namespaces and paths are interchangeable.
Symmetry == Permutations(Requests) \cup Permutations(Namespaces)
              \cup Permutations(Paths)
=============================================================================
