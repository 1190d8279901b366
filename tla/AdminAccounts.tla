---------------------------- MODULE AdminAccounts ----------------------------
(***************************************************************************)
(* Admin users, their sessions and the login throttle: the account         *)
(* handlers of panel.rs over ADMIN_USER_TABLE and LOGIN_ATTEMPT_TABLE, and *)
(* the bootstrap of main.rs that runs before the server listens.           *)
(*                                                                         *)
(* One action is one redb transaction of one handler, with the code up to  *)
(* the handler's next transaction.  A handler reads a user row, works on   *)
(* its copy (a bcrypt check takes long) and writes the whole copy back.    *)
(*                                                                         *)
(* Times are kept relative: a throttle row holds its age and how long it   *)
(* still blocks, and Tick moves every row, stored or copied, one unit on.  *)
(***************************************************************************)
EXTENDS Naturals, FiniteSets

CONSTANTS
  Users,          \* admin usernames
  BootUser,       \* ADMIN_USERNAME
  Passwords,      \* passwords users may have
  BootPasswords,  \* values of ADMIN_PASSWORD the operator starts with, or None
  Ips,            \* client addresses
  Requests,       \* handlers that may be in flight at the same time
  Ops,            \* the endpoints that are called
  Traffics,       \* what a behaviour may be about: the handlers in use, the
                  \* users that requests name, and a bound on restarts and
                  \* requests other than logins
  Window,         \* LOGIN_WINDOW_SECONDS
  Lockout,        \* LOGIN_LOCKOUT_SECONDS
  MaxFailures,    \* MAX_LOGIN_FAILURES
  SecretPersists, \* ADMIN_JWT_SECRET is configured
  None,           \* a missing row, an unset option
  Keep            \* a field the request body leaves out

AllOps == {"login", "change_password", "create_user", "update_user",
           "delete_user"}

ASSUME AccountOpsAssumption == Ops \subseteq AllOps
ASSUME AccountBoundsAssumption ==
  /\ \A t \in Traffics : /\ t.handlers \subseteq Requests /\ t.users \subseteq Users
                         /\ t.changes \in Nat
  /\ Window \in Nat /\ Lockout \in Nat
  /\ MaxFailures \in Nat \ {0}
ASSUME BootAssumption ==
  /\ BootUser \in Users /\ BootPasswords \subseteq Passwords \cup {None}
  /\ SecretPersists \in BOOLEAN
ASSUME AccountNoneAssumption ==
  None \notin Passwords /\ Keep \notin Passwords \cup BOOLEAN

VARIABLES
  traffic,   \* the one of Traffics that this behaviour is about
  users,     \* ADMIN_USER_TABLE
  attempts,  \* LOGIN_ATTEMPT_TABLE
  panelOn,   \* AppState::admin_enabled, decided when the server starts
  sessions,  \* the claims of every JWT signed with the secret in use
  changes,   \* restarts and requests other than logins so far
  pc,        \* the next transaction of each handler
  call,      \* the request each handler serves
  loc,       \* the handler's local values
  revoked,   \* history: claims issued before a session_version increment
  lives,     \* history: how often each username was deleted
  tried      \* history: failed logins of an address since its row was new

tables == <<users, attempts>>
history == <<revoked, lives, tried>>
load == <<traffic, changes>>
vars == <<tables, panelOn, sessions, load, pc, call, loc, history>>

-----------------------------------------------------------------------------
(* Rows, requests and local values *)

\* AdminUserRecord without its login statistics.
UserRow == [password : Passwords, ver : Nat, enabled : BOOLEAN]

\* LoginAttemptRecord: seconds since first_failure_at, up to one past the
\* window, failures, up to the threshold, and seconds until blocked_until,
\* zero once it has passed.  The code tells no higher values apart.
Attempt == [age : 0..(Window + 1), failures : 0..MaxFailures,
            blocked : BOOLEAN, left : 0..Lockout]

ASSUME AccountRowsAssumption == None \notin UserRow \cup Attempt

\* What a JWT claims.  `life' is history: which of the accounts of that name,
\* deleted and created again, it was issued for.
Claims == [user : Users, ver : Nat, life : Nat]

LoginCall == [op : {"login"}, ip : Ips, user : Users, password : Passwords]
ChangePasswordCall == [op : {"change_password"}, session : sessions,
                       current : Passwords, password : Passwords]
CreateUserCall == [op : {"create_user"}, session : sessions, user : Users,
                   password : Passwords, enabled : BOOLEAN]
UpdateUserCall == [op : {"update_user"}, session : sessions, user : Users,
                   password : Passwords \cup {Keep},
                   enabled : BOOLEAN \cup {Keep}]
DeleteUserCall == [op : {"delete_user"}, session : sessions, user : Users]

Calls == LoginCall \cup ChangePasswordCall \cup CreateUserCall
           \cup UpdateUserCall \cup DeleteUserCall

\* `user' is the copy of a user row, `bump' says whether its version was
\* incremented, `attempt' is the copy of a throttle row.
Locals == [user : UserRow \cup {None}, bump : BOOLEAN,
           attempt : Attempt \cup {None}]
NoLocals == [user |-> None, bump |-> FALSE, attempt |-> None]

Labels == {"idle", "cleanup", "gate", "load_user", "write_failure",
           "count_failure", "write_attempt", "clear_attempt", "finish_login",
           "verify", "verify_again", "count_admins", "write_user",
           "remove_user"}

\* The user a handler works on; a password change is about the caller.
Subject(c) == IF c.op = "change_password" THEN c.session.user ELSE c.user

Goto(r, label) == pc' = [pc EXCEPT ![r] = label] /\ UNCHANGED call

\* The handler answers, with success or an error, and its frame is gone.
Done(r) ==
  /\ pc' = [pc EXCEPT ![r] = "idle"]
  /\ call' = [call EXCEPT ![r] = None]
  /\ loc' = [loc EXCEPT ![r] = NoLocals]

Proceed(r, label) == Goto(r, label) /\ UNCHANGED loc

KeepUser(r, row, bump) ==
  loc' = [loc EXCEPT ![r] = [@ EXCEPT !.user = row, !.bump = bump]]
KeepAttempt(r, a) == loc' = [loc EXCEPT ![r].attempt = a]

-----------------------------------------------------------------------------
(* Starting the server *)

Bump(row) == [row EXCEPT !.ver = @ + 1]

\* The row ADMIN_PASSWORD leaves for ADMIN_USERNAME: enabled, with a new
\* version only if the password is another one.
BootRow(old, p) ==
  IF old = None THEN [password |-> p, ver |-> 0, enabled |-> TRUE]
  ELSE IF old.password = p THEN [old EXCEPT !.enabled = TRUE]
  ELSE Bump([old EXCEPT !.password = p, !.enabled = TRUE])

\* Boots on a fresh database.
Init ==
  /\ traffic \in Traffics
  /\ \E p \in BootPasswords :
       users = [u \in Users |-> IF u = BootUser /\ p # None
                                THEN BootRow(None, p) ELSE None]
  /\ attempts = [i \in Ips |-> None]
  /\ panelOn = (\E u \in Users : users[u] # None)
  /\ sessions = {} /\ revoked = {}
  /\ changes = 0
  /\ pc = [r \in Requests |-> "idle"]
  /\ call = [r \in Requests |-> None]
  /\ loc = [r \in Requests |-> NoLocals]
  /\ tried = [i \in Ips |-> 0]
  /\ lives = [u \in Users |-> 0]

SessionsOf(u) == {s \in sessions : s.user = u /\ s.life = lives[u]}

\* The process dies, at any point, and starts again.  Without a configured
\* secret a random one is drawn and no earlier JWT verifies any more.
Restart ==
  /\ changes < traffic.changes /\ changes' = changes + 1
  /\ \E p \in BootPasswords :
       LET row == BootRow(users[BootUser], p)
           changed == p # None /\ users[BootUser] # None
                        /\ users[BootUser].password # p IN
       /\ users' = IF p = None THEN users ELSE [users EXCEPT ![BootUser] = row]
       /\ IF SecretPersists
          THEN /\ revoked' = IF changed THEN revoked \cup SessionsOf(BootUser)
                             ELSE revoked
               /\ UNCHANGED sessions
          ELSE sessions' = {} /\ revoked' = {}
  /\ panelOn' = (\E u \in Users : users'[u] # None)
  /\ pc' = [r \in Requests |-> "idle"]
  /\ call' = [r \in Requests |-> None]
  /\ loc' = [r \in Requests |-> NoLocals]
  /\ UNCHANGED <<traffic, attempts, lives, tried>>

\* A request arrives.  An admin request carries a session the server signed,
\* and the checks without a table (CSRF, disk, password length) pass; one
\* that fails them changes nothing.
Start(r) ==
  /\ pc[r] = "idle" /\ r \in traffic.handlers
  /\ \E c \in Calls :
       /\ c.op \in Ops /\ Subject(c) \in traffic.users
       /\ call' = [call EXCEPT ![r] = c]
       /\ IF c.op = "login"
          THEN /\ pc' = [pc EXCEPT ![r] = "cleanup"] /\ UNCHANGED changes
          ELSE /\ changes < traffic.changes /\ changes' = changes + 1
               /\ pc' = [pc EXCEPT ![r] = "verify"]
  /\ UNCHANGED <<traffic, tables, panelOn, sessions, loc, history>>

-----------------------------------------------------------------------------
(* The login throttle *)

\* What cleanup_login_attempts keeps: rows that block, rows in their window.
InForce(a) == IF a.blocked THEN a.left > 0 ELSE a.age <= Window

CleanupAttempts(r) ==
  LET gone == {i \in Ips : attempts[i] # None /\ ~InForce(attempts[i])} IN
  /\ pc[r] = "cleanup"
  /\ attempts' = [i \in Ips |-> IF i \in gone THEN None ELSE attempts[i]]
  /\ tried' = [i \in Ips |-> IF i \in gone THEN 0 ELSE tried[i]]
  /\ Proceed(r, "gate")
  /\ UNCHANGED <<users, panelOn, sessions, load, revoked, lives>>

\* Mutant: trying while blocked starts the lockout anew.
GateExtendsLockout(r) ==
  LET i == call[r].ip
      refused == attempts[i] # None /\ attempts[i].blocked IN
  /\ pc[r] = "gate"
  /\ attempts' = IF refused THEN [attempts EXCEPT ![i].left = Lockout] ELSE attempts
  /\ IF refused THEN Done(r) ELSE Proceed(r, "load_user")
  /\ UNCHANGED <<users, panelOn, sessions, load, history>>

\* The second read of ensure_login_allowed compares with the time stamp taken
\* before the cleanup, by which no stored block was over.
Gate(r) ==
  LET a == attempts[call[r].ip] IN
  /\ pc[r] = "gate"
  /\ IF (a # None /\ a.blocked) \/ ~panelOn THEN Done(r)
     ELSE Proceed(r, "load_user")
  /\ UNCHANGED <<tables, panelOn, sessions, load, history>>

\* Mutant: one failure too many before the address is blocked.
FailedOnceMoreLate(a) ==
  IF a.failures >= MaxFailures
  THEN [a EXCEPT !.blocked = TRUE, !.left = Lockout]
  ELSE [a EXCEPT !.failures = @ + 1]

FailedOnceMore(a) ==
  IF a.failures + 1 >= MaxFailures
  THEN [a EXCEPT !.failures = MaxFailures, !.blocked = TRUE, !.left = Lockout]
  ELSE [a EXCEPT !.failures = @ + 1]

NewAttempt == [age |-> 0, failures |-> 0, blocked |-> FALSE, left |-> 0]

\* Mutant: a new window does not lift the old block.
CurrentAttemptKeepsBlock(a) ==
  CASE a = None       -> NewAttempt
    [] a.age > Window -> [a EXCEPT !.age = 0, !.failures = 0]
    [] OTHER          -> a

\* The row a failure is counted on: a new one once the window is past.
CurrentAttempt(a) == IF a = None \/ a.age > Window THEN NewAttempt ELSE a

\* record_login_failure reads the row and counts on its copy.
CountFailure(r) ==
  LET i == call[r].ip
      over == attempts[i] # None /\ attempts[i].age > Window IN
  /\ pc[r] = "count_failure"
  /\ KeepAttempt(r, FailedOnceMore(CurrentAttempt(attempts[i])))
  /\ tried' = IF over THEN [tried EXCEPT ![i] = 0] ELSE tried
  /\ Goto(r, "write_attempt")
  /\ UNCHANGED <<tables, panelOn, sessions, load, revoked, lives>>

\* `tried' stops one past the threshold, all that a property can tell.
WriteAttempt(r) ==
  LET i == call[r].ip IN
  /\ pc[r] = "write_attempt"
  /\ attempts' = [attempts EXCEPT ![i] = loc[r].attempt]
  /\ tried' = [tried EXCEPT ![i] = IF @ > MaxFailures THEN @ ELSE @ + 1]
  /\ Done(r)
  /\ UNCHANGED <<users, panelOn, sessions, load, revoked, lives>>

ClearAttempt(r) ==
  LET i == call[r].ip IN
  /\ pc[r] = "clear_attempt"
  /\ attempts' = [attempts EXCEPT ![i] = None]
  /\ tried' = [tried EXCEPT ![i] = 0]
  /\ Proceed(r, "finish_login")
  /\ UNCHANGED <<users, panelOn, sessions, load, revoked, lives>>

-----------------------------------------------------------------------------
(* Accounts and sessions *)

\* validate_admin_session on claims whose signature verifies.
Valid(s) ==
  /\ panelOn /\ users[s.user] # None
  /\ users[s.user].enabled /\ users[s.user].ver = s.ver

\* Every admin mutation validates its session twice, in two transactions.
Verify(r) ==
  /\ pc[r] \in {"verify", "verify_again"}
  /\ IF ~Valid(call[r].session) THEN Done(r)
     ELSE Proceed(r, IF pc[r] = "verify" THEN "verify_again" ELSE "load_user")
  /\ UNCHANGED <<tables, panelOn, sessions, load, history>>

\* Mutant: a new password leaves the sessions as they are.
UpdatedUserQuietly(old, c) ==
  LET new == [old EXCEPT
                !.password = IF c.password = Keep THEN @ ELSE c.password,
                !.enabled = IF c.enabled = Keep THEN @ ELSE c.enabled] IN
  IF new.enabled # old.enabled THEN Bump(new) ELSE new

\* Mutant: a password the body leaves out is stored as it came.
UpdatedUserVerbatim(old, c) ==
  Bump([old EXCEPT !.password = c.password,
                   !.enabled = IF c.enabled = Keep THEN @ ELSE c.enabled])

\* The row admin_update_user writes.
UpdatedUser(old, c) ==
  LET new == [old EXCEPT
                !.password = IF c.password = Keep THEN @ ELSE c.password,
                !.enabled = IF c.enabled = Keep THEN @ ELSE c.enabled] IN
  IF c.password # Keep \/ new.enabled # old.enabled THEN Bump(new) ELSE new

\* The handlers read the user they work on and branch on what they find.
LoadForLogin(r, row) ==
  \/ row = None /\ Proceed(r, "count_failure")
  \/ /\ row # None /\ ~(row.enabled /\ row.password = call[r].password)
     /\ KeepUser(r, row, FALSE) /\ Goto(r, "write_failure")
  \/ /\ row # None /\ row.enabled /\ row.password = call[r].password
     /\ KeepUser(r, row, FALSE) /\ Goto(r, "clear_attempt")

LoadForPassword(r, row) ==
  \/ row = None /\ Done(r)
  \/ /\ row # None /\ row.password # call[r].current
     /\ KeepUser(r, row, FALSE) /\ Goto(r, "write_failure")
  \/ /\ row # None /\ row.password = call[r].current
     /\ KeepUser(r, Bump([row EXCEPT !.password = call[r].password]), TRUE)
     /\ Goto(r, "write_user")

LoadForCreate(r, row) ==
  \/ row # None /\ Done(r)
  \/ /\ row = None
     /\ KeepUser(r, [password |-> call[r].password, ver |-> 0,
                     enabled |-> call[r].enabled], FALSE)
     /\ Goto(r, "write_user")

LoadForUpdate(r, row) ==
  \/ row = None /\ Done(r)
  \/ /\ row # None
     /\ KeepUser(r, UpdatedUser(row, call[r]),
                 call[r].password # Keep \/ UpdatedUser(row, call[r]).enabled # row.enabled)
     /\ Goto(r, IF row.enabled /\ call[r].enabled = FALSE THEN "count_admins"
                ELSE "write_user")

LoadForDelete(r, row) ==
  \/ row = None /\ Done(r)
  \/ row # None /\ Proceed(r, IF row.enabled THEN "count_admins" ELSE "remove_user")

LoadUser(r) ==
  LET row == users[Subject(call[r])] IN
  /\ pc[r] = "load_user"
  /\ CASE call[r].op = "login"           -> LoadForLogin(r, row)
       [] call[r].op = "change_password" -> LoadForPassword(r, row)
       [] call[r].op = "create_user"     -> LoadForCreate(r, row)
       [] call[r].op = "update_user"     -> LoadForUpdate(r, row)
       [] call[r].op = "delete_user"     -> LoadForDelete(r, row)
  /\ UNCHANGED <<tables, panelOn, sessions, load, history>>

SetUser(r) == users' = [users EXCEPT ![Subject(call[r])] = loc[r].user]

\* record_user_login_failure writes the copy back; only a login goes on to
\* the throttle.
WriteFailure(r) ==
  /\ pc[r] = "write_failure"
  /\ SetUser(r)
  /\ IF call[r].op = "login" THEN Proceed(r, "count_failure") ELSE Done(r)
  /\ UNCHANGED <<attempts, panelOn, sessions, load, history>>

NewSession(r) ==
  LET u == Subject(call[r]) IN
  [user |-> u, ver |-> loc[r].user.ver, life |-> lives[u]]

\* The copy is written back and a session issued for the version it holds.
FinishLogin(r) ==
  /\ pc[r] = "finish_login"
  /\ SetUser(r)
  /\ sessions' = sessions \cup {NewSession(r)}
  /\ Done(r)
  /\ UNCHANGED <<attempts, panelOn, load, history>>

EnabledAdmins == {u \in Users : users[u] # None /\ users[u].enabled}

\* Mutant: the last admin passes.
CountAdminsOffByOne(r) ==
  /\ pc[r] = "count_admins"
  /\ IF Cardinality(EnabledAdmins) < 1 THEN Done(r)
     ELSE Proceed(r, IF call[r].op = "delete_user" THEN "remove_user"
                     ELSE "write_user")
  /\ UNCHANGED <<tables, panelOn, sessions, load, history>>

\* An enabled user is disabled or deleted only if another is enabled too.
CountAdmins(r) ==
  /\ pc[r] = "count_admins"
  /\ IF Cardinality(EnabledAdmins) <= 1 THEN Done(r)
     ELSE Proceed(r, IF call[r].op = "delete_user" THEN "remove_user"
                     ELSE "write_user")
  /\ UNCHANGED <<tables, panelOn, sessions, load, history>>

\* Changing one's own password keeps the caller signed in.
WriteUser(r) ==
  /\ pc[r] = "write_user"
  /\ SetUser(r)
  /\ revoked' = IF loc[r].bump THEN revoked \cup SessionsOf(Subject(call[r]))
                ELSE revoked
  /\ sessions' = IF call[r].op = "change_password"
                 THEN sessions \cup {NewSession(r)} ELSE sessions
  /\ Done(r)
  /\ UNCHANGED <<attempts, panelOn, load, lives, tried>>

RemoveUser(r) ==
  /\ pc[r] = "remove_user"
  /\ users' = [users EXCEPT ![call[r].user] = None]
  /\ lives' = [lives EXCEPT ![call[r].user] = @ + 1]
  /\ Done(r)
  /\ UNCHANGED <<attempts, panelOn, sessions, load, revoked, tried>>

-----------------------------------------------------------------------------
(* Time and the specification *)

Aged(a) ==
  IF a = None THEN None
  ELSE [a EXCEPT !.age = IF @ > Window THEN @ ELSE @ + 1,
                 !.left = IF @ = 0 THEN 0 ELSE @ - 1]

Tick ==
  /\ attempts' = [i \in Ips |-> Aged(attempts[i])]
  /\ loc' = [r \in Requests |-> [loc[r] EXCEPT !.attempt = Aged(@)]]
  /\ UNCHANGED <<users, panelOn, sessions, load, pc, call, history>>

\* A transaction fails and leaves no trace; the handler answers 500 and the
\* transactions it committed before stay.
StorageError(r) ==
  /\ pc[r] # "idle"
  /\ Done(r)
  /\ UNCHANGED <<tables, panelOn, sessions, load, history>>

Step(r) ==
  \/ Start(r) \/ StorageError(r)
  \/ CleanupAttempts(r) \/ Gate(r) \/ CountFailure(r) \/ WriteAttempt(r)
  \/ ClearAttempt(r) \/ FinishLogin(r) \/ WriteFailure(r)
  \/ Verify(r) \/ LoadUser(r) \/ CountAdmins(r) \/ WriteUser(r) \/ RemoveUser(r)

Next == (\E r \in Requests : Step(r)) \/ Restart \/ Tick

Spec == Init /\ [][Next]_vars

\* Time passes.  Nothing else is needed: no handler waits for another.
TimedSpec == Spec /\ WF_vars(Tick)

-----------------------------------------------------------------------------
(* Properties *)

\* Every row and local value has the shape the Rust types give it.
TypeOK ==
  /\ users \in [Users -> UserRow \cup {None}]
  /\ attempts \in [Ips -> Attempt \cup {None}]
  /\ panelOn \in BOOLEAN
  /\ sessions \in SUBSET Claims /\ revoked \in SUBSET sessions
  /\ traffic \in Traffics /\ changes \in 0..traffic.changes
  /\ pc \in [Requests -> Labels]
  /\ loc \in [Requests -> Locals]
  /\ lives \in [Users -> Nat]
  /\ tried \in [Ips -> 0..(MaxFailures + 1)]

\* "Cannot disable the last enabled admin user", "Cannot delete the last
\* enabled admin user": a panel that is on can be logged into.
LastAdminKept == panelOn => EnabledAdmins # {}

\* "Incrementing this value invalidates every previously issued session":
\* a session issued before a password change, a disabling or an enabling of
\* its user is never accepted again, as long as that user is not deleted.
RevokedStaysRevoked ==
  \A s \in revoked : s.life = lives[s.user] => ~Valid(s)

\* No two requests are handled at the same time.
OneAtATime == \A q, r \in traffic.handlers : q = r

\* "Failure threshold before lockout": an address gets no more than
\* MAX_LOGIN_FAILURES failed logins before its throttle row has run out, if
\* the server handles one request at a time.
ThrottleHolds == OneAtATime => \A i \in Ips : tried[i] <= MaxFailures

\* A row of the throttle blocks exactly when it has reached the threshold,
\* whatever copies are written back over it.
BlockedAtThreshold ==
  \A i \in Ips : attempts[i] # None =>
    (attempts[i].blocked <=> attempts[i].failures >= MaxFailures)

Blocked(i) == attempts[i] # None /\ attempts[i].blocked /\ attempts[i].left > 0

\* "Temporary admin lockout": a blocked address is let through to the
\* password check again, even if it keeps trying while it is blocked.
LockoutEnds == \A i \in Ips : Blocked(i) ~> ~Blocked(i)
=============================================================================
