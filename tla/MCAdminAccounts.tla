--------------------------- MODULE MCAdminAccounts ---------------------------
(* Instances of AdminAccounts for TLC: endpoints, handlers and bounds. *)
EXTENDS AdminAccounts, TLC

\* One handler that serves everything, or all of them and only logins.
SerialOrLogins ==
  {[handlers |-> {CHOOSE r \in Requests : TRUE}, users |-> Users, changes |-> 4],
   [handlers |-> Requests, users |-> {BootUser}, changes |-> 0]}

DeleteRace == {"login", "create_user", "delete_user"}
ThreeChanges == {[handlers |-> Requests, users |-> Users, changes |-> 3]}

PasswordRace == {"login", "change_password"}
OneChange == {[handlers |-> Requests, users |-> Users, changes |-> 1]}

\* Handlers and addresses are interchangeable where all handlers are in use;
\* the user the server boots with is not.
Symmetry == Permutations(Requests) \cup Permutations(Ips)
=============================================================================
