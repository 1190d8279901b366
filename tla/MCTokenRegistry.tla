--------------------------- MODULE MCTokenRegistry ---------------------------
(* Instances of TokenRegistry for TLC: endpoints, overlap and bounds. *)
EXTENDS TokenRegistry, TLC

AllOverlaps == "any" :> 4 @@ "one_admin" :> 4 @@ "admin_alone" :> 5

RotateRace == {"sync", "create_token", "rotate_token", "update_token"}
AnyOverlap == "any" :> 4

\* Handlers, token ids and device ids are interchangeable.
Symmetry == Permutations(Requests) \cup Permutations(Tokens)
              \cup Permutations(Devices)
=============================================================================
