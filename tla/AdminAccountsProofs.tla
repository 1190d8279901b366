------------------------- MODULE AdminAccountsProofs -------------------------
(* Theorems about AdminAccounts, for every set of users, passwords, client   *)
(* addresses and handlers, any window, lockout and threshold, and any number *)
(* of requests and restarts.                                                 *)
EXTENDS AdminAccounts, FiniteSetTheorems, TLAPS

-----------------------------------------------------------------------------
(* What a handler knows at each of its transactions *)

\* The body of a request has the fields its endpoint reads.
CallOK(c) ==
  /\ c.op \in AllOps
  /\ c.op = "login" => c.ip \in Ips /\ c.user \in Users /\ c.password \in Passwords
  /\ c.op # "login" => c.session \in Claims
  /\ c.op \in {"create_user", "update_user", "delete_user"} => c.user \in Users
  /\ c.op \in {"change_password", "create_user"} => c.password \in Passwords
  /\ c.op = "create_user" => c.enabled \in BOOLEAN
  /\ c.op = "update_user" => /\ c.password \in Passwords \cup {Keep}
                             /\ c.enabled \in BOOLEAN \cup {Keep}

\* Which endpoint is at a label, and what it has read by then.
HandlerOK(r) ==
  /\ pc[r] # "idle" => CallOK(call[r]) /\ r \in traffic.handlers
  /\ pc[r] \in {"cleanup", "gate", "count_failure", "write_attempt", "clear_attempt",
                "finish_login"} => call[r].op = "login"
  /\ pc[r] \in {"verify", "verify_again"} => call[r].op # "login"
  /\ pc[r] = "write_failure" => call[r].op \in {"login", "change_password"}
  /\ pc[r] = "write_user" => call[r].op \in {"change_password", "create_user", "update_user"}
  /\ pc[r] = "count_admins" => call[r].op \in {"update_user", "delete_user"}
  /\ pc[r] = "remove_user" => call[r].op = "delete_user"
  /\ pc[r] \in {"write_failure", "clear_attempt", "finish_login", "write_user"}
       => loc[r].user \in UserRow
  /\ pc[r] = "count_admins" /\ call[r].op = "update_user" => loc[r].user \in UserRow
  /\ pc[r] = "write_attempt" => loc[r].attempt \in Attempt

TypeInv == TypeOK /\ DOMAIN call = Requests /\ \A r \in Requests : HandlerOK(r)

-----------------------------------------------------------------------------
(* The throttle *)

\* A throttle row blocks exactly at the threshold.
AtThreshold(a) == a.blocked <=> a.failures >= MaxFailures

ThresholdInv ==
  /\ TypeInv /\ BlockedAtThreshold
  /\ \A r \in Requests : pc[r] = "write_attempt" => AtThreshold(loc[r].attempt)

\* With one request at a time, what the row counts is what was tried, and the
\* gate still holds when the failure is counted.
TriedCounted ==
  OneAtATime =>
    /\ \A i \in Ips : attempts[i] = None => tried[i] = 0
    /\ \A i \in Ips : attempts[i] # None => tried[i] <= attempts[i].failures
    /\ \A r \in Requests :
         pc[r] \in {"load_user", "write_failure", "count_failure"} /\ call[r].op = "login"
           => attempts[call[r].ip] = None \/ ~attempts[call[r].ip].blocked
    /\ \A r \in Requests :
         pc[r] = "write_attempt" => tried[call[r].ip] + 1 <= loc[r].attempt.failures

ThrottleInv == ThresholdInv /\ TriedCounted

-----------------------------------------------------------------------------
(* Accounts, one request at a time *)

\* The panel is on exactly if there are users, and then one is enabled; a row
\* about to be written or removed leaves an enabled one.
AdminsRemain ==
  OneAtATime =>
    /\ panelOn => EnabledAdmins # {}
    /\ ~panelOn => \A u \in Users : users[u] = None
    /\ \A r \in Requests :
         /\ pc[r] \in {"verify_again", "count_admins", "write_user", "remove_user"} => panelOn
         /\ pc[r] = "load_user" /\ call[r].op # "login" => panelOn
         /\ pc[r] = "write_user" => \/ loc[r].user.enabled
                                    \/ EnabledAdmins \ {Subject(call[r])} # {}
         /\ pc[r] = "remove_user" => EnabledAdmins \ {Subject(call[r])} # {}
         /\ pc[r] \in {"write_failure", "clear_attempt", "finish_login"}
              => loc[r].user = users[Subject(call[r])]

AdminInv == TypeInv /\ AdminsRemain

\* The copy that a handler will write has the next version, or that of the row.
VersionFits(r) ==
  LET old == users[Subject(call[r])] IN
  IF old = None THEN call[r].op = "create_user" /\ ~loc[r].bump
  ELSE loc[r].user.ver = IF loc[r].bump THEN old.ver + 1 ELSE old.ver

\* Sessions of a living account are no newer than its row, revoked ones older;
\* a new row for an account has the next version if its sessions are revoked.
VersionsFit ==
  OneAtATime =>
    /\ \A s \in sessions : s.life <= lives[s.user]
    /\ \A s \in sessions : s.life = lives[s.user] =>
         users[s.user] # None /\ s.ver <= users[s.user].ver
    /\ \A s \in revoked : s.life = lives[s.user] => s.ver < users[s.user].ver
    /\ \A r \in Requests :
         (pc[r] = "write_user" \/ (pc[r] = "count_admins" /\ call[r].op = "update_user"))
           => VersionFits(r)
    /\ \A r \in Requests : pc[r] = "write_user" /\ call[r].op = "change_password"
         => loc[r].bump /\ users[Subject(call[r])] # None
    /\ \A r \in Requests : pc[r] \in {"write_failure", "clear_attempt", "finish_login"}
         => loc[r].user = users[Subject(call[r])]

SessionInv == TypeInv /\ VersionsFit
-----------------------------------------------------------------------------
(* Steps of one handler leave the others alone *)

OthersKept(r) ==
  \A q \in Requests \ {r} : pc'[q] = pc[q] /\ call'[q] = call[q] /\ loc'[q] = loc[q]

\* The tables and histories of TypeOK, without the handlers' frames.
DataOK ==
  /\ users \in [Users -> UserRow \cup {None}]
  /\ attempts \in [Ips -> Attempt \cup {None}]
  /\ panelOn \in BOOLEAN
  /\ sessions \in SUBSET Claims /\ revoked \in SUBSET sessions
  /\ traffic \in Traffics /\ changes \in 0..traffic.changes
  /\ lives \in [Users -> Nat]
  /\ tried \in [Ips -> 0..(MaxFailures + 1)]

FramesOK == pc \in [Requests -> Labels] /\ loc \in [Requests -> Locals]

\* What a step of a handler must establish about its own frame.
FrameOK(r) == FramesOK' /\ DOMAIN call' = Requests /\ OthersKept(r) /\ HandlerOK(r)'

LEMMA TypeSplit == TypeOK <=> DataOK /\ FramesOK
  BY DEF TypeOK, DataOK, FramesOK

LEMMA DataKept ==
  ASSUME DataOK, UNCHANGED <<tables, panelOn, sessions, load, history>>
  PROVE  DataOK'
  BY DEF DataOK, tables, load, history

\* What a handler knows depends on nothing but its own frame.
LEMMA OtherHandlers ==
  ASSUME NEW r \in Requests, OthersKept(r), traffic' = traffic
  PROVE  \A q \in Requests \ {r} : HandlerOK(q) => HandlerOK(q)'
  BY DEF OthersKept, HandlerOK, CallOK

\* A handler that answers forgets everything.
LEMMA DoneType ==
  ASSUME TypeInv, NEW r \in Requests, Done(r)
  PROVE  FrameOK(r) /\ pc'[r] = "idle"
<1>1. /\ pc' \in [Requests -> Labels] /\ loc' \in [Requests -> Locals]
      /\ DOMAIN call' = Requests /\ OthersKept(r) /\ pc'[r] = "idle"
  BY DEF Done, TypeInv, TypeOK, Labels, OthersKept, Locals, NoLocals
<1>2. HandlerOK(r)'
  BY <1>1 DEF HandlerOK
<1> QED
  BY <1>1, <1>2 DEF FrameOK, FramesOK

LEMMA GotoLocal ==
  ASSUME TypeInv, NEW r \in Requests, NEW l \in Labels, Goto(r, l)
  PROVE  /\ pc' \in [Requests -> Labels] /\ pc'[r] = l
         /\ DOMAIN call' = Requests /\ call'[r] = call[r]
         /\ \A q \in Requests \ {r} : pc'[q] = pc[q] /\ call'[q] = call[q]
  BY DEF Goto, TypeInv, TypeOK

\* A handler that goes on with the same local values.
LEMMA ProceedLocal ==
  ASSUME TypeInv, NEW r \in Requests, NEW l \in Labels, Proceed(r, l)
  PROVE  /\ FramesOK' /\ pc'[r] = l /\ loc'[r] = loc[r]
         /\ DOMAIN call' = Requests /\ call'[r] = call[r] /\ OthersKept(r)
  BY GotoLocal DEF Proceed, TypeInv, TypeOK, OthersKept, FramesOK

\* A handler that goes on with a new copy of a user row.
LEMMA KeepUserLocal ==
  ASSUME TypeInv, NEW r \in Requests, NEW row \in UserRow, NEW b \in BOOLEAN,
         NEW l \in Labels, KeepUser(r, row, b), Goto(r, l)
  PROVE  /\ FramesOK' /\ DOMAIN call' = Requests /\ OthersKept(r)
         /\ pc'[r] = l /\ call'[r] = call[r]
         /\ loc'[r].user = row /\ loc'[r].bump = b
<1>1. loc'[r] = [loc[r] EXCEPT !.user = row, !.bump = b] /\ loc[r] \in Locals
      /\ \A q \in Requests \ {r} : loc'[q] = loc[q]
  BY DEF KeepUser, TypeInv, TypeOK
<1>2. loc'[r] \in Locals /\ loc'[r].user = row /\ loc'[r].bump = b
  BY <1>1 DEF Locals
<1>3. loc' \in [Requests -> Locals]
  BY <1>2 DEF KeepUser, TypeInv, TypeOK
<1> QED
  BY <1>1, <1>2, <1>3, GotoLocal DEF FramesOK, OthersKept

\* A handler that goes on with a new copy of a throttle row.
LEMMA KeepAttemptLocal ==
  ASSUME TypeInv, NEW r \in Requests, NEW a \in Attempt,
         NEW l \in Labels, KeepAttempt(r, a), Goto(r, l)
  PROVE  /\ FramesOK' /\ DOMAIN call' = Requests /\ OthersKept(r)
         /\ pc'[r] = l /\ call'[r] = call[r] /\ loc'[r].attempt = a
<1>1. loc'[r] = [loc[r] EXCEPT !.attempt = a] /\ loc[r] \in Locals
      /\ \A q \in Requests \ {r} : loc'[q] = loc[q]
  BY DEF KeepAttempt, TypeInv, TypeOK
<1>2. loc'[r] \in Locals /\ loc'[r].attempt = a
  BY <1>1 DEF Locals
<1>3. loc' \in [Requests -> Locals]
  BY <1>2 DEF KeepAttempt, TypeInv, TypeOK
<1> QED
  BY <1>1, <1>2, <1>3, GotoLocal DEF FramesOK, OthersKept
-----------------------------------------------------------------------------
(* Rows *)

\* The rows that handlers make of throttle rows.
LEMMA AttemptTypes ==
  /\ NewAttempt \in Attempt /\ None \notin Attempt
  /\ \A a \in Attempt : FailedOnceMore(a) \in Attempt
  /\ \A a \in Attempt \cup {None} : CurrentAttempt(a) \in Attempt
  /\ \A a \in Attempt \cup {None} : Aged(a) \in Attempt \cup {None}
  /\ \A a \in Attempt : Aged(a) \in Attempt /\ Aged(a).failures = a.failures
                        /\ Aged(a).blocked = a.blocked
<1> USE AccountBoundsAssumption
<1>1. NewAttempt \in Attempt
  BY DEF NewAttempt, Attempt
<1>2. None \notin Attempt
  BY AccountRowsAssumption
<1>3. ASSUME NEW a \in Attempt PROVE FailedOnceMore(a) \in Attempt
  <2>1. a.failures \in 0..MaxFailures
    BY DEF Attempt
  <2>2. CASE a.failures + 1 >= MaxFailures
    <3>1. MaxFailures \in 0..MaxFailures /\ Lockout \in 0..Lockout
      OBVIOUS
    <3>2. [a EXCEPT !.failures = MaxFailures, !.blocked = TRUE, !.left = Lockout] \in Attempt
      BY <3>1 DEF Attempt
    <3> QED
      BY <2>2, <3>2 DEF FailedOnceMore
  <2>3. CASE ~(a.failures + 1 >= MaxFailures)
    BY <2>1, <2>3 DEF FailedOnceMore, Attempt
  <2> QED
    BY <2>2, <2>3
<1>4. \A a \in Attempt \cup {None} : CurrentAttempt(a) \in Attempt
  BY <1>1 DEF CurrentAttempt
<1>5. ASSUME NEW a \in Attempt
      PROVE  Aged(a) \in Attempt /\ Aged(a).failures = a.failures
             /\ Aged(a).blocked = a.blocked
  <2>1. a # None
    BY <1>2
  <2>2. (IF a.age > Window THEN a.age ELSE a.age + 1) \in 0..(Window + 1)
    BY DEF Attempt
  <2>3. (IF a.left = 0 THEN 0 ELSE a.left - 1) \in 0..Lockout
    BY DEF Attempt
  <2> QED
    BY <2>1, <2>2, <2>3 DEF Aged, Attempt
<1>6. Aged(None) = None
  BY DEF Aged
<1> QED
  BY <1>1, <1>2, <1>3, <1>4, <1>5, <1>6

\* The rows that handlers and the bootstrap make of user rows.
LEMMA UserRowTypes ==
  /\ None \notin UserRow
  /\ \A p \in Passwords : BootRow(None, p) \in UserRow /\ BootRow(None, p).enabled
  /\ \A row \in UserRow, p \in Passwords :
       /\ BootRow(row, p) \in UserRow /\ BootRow(row, p).enabled
       /\ BootRow(row, p).ver = IF row.password = p THEN row.ver ELSE row.ver + 1
       /\ Bump([row EXCEPT !.password = p]) \in UserRow
       /\ Bump([row EXCEPT !.password = p]).ver = row.ver + 1
       /\ Bump([row EXCEPT !.password = p]).enabled = row.enabled
<1>1. None \notin UserRow
  BY AccountRowsAssumption
<1>2. ASSUME NEW p \in Passwords
      PROVE  BootRow(None, p) \in UserRow /\ BootRow(None, p).enabled
  BY DEF BootRow, UserRow
<1>3. ASSUME NEW row \in UserRow, NEW p \in Passwords
      PROVE  /\ Bump([row EXCEPT !.password = p]) \in UserRow
             /\ Bump([row EXCEPT !.password = p]).ver = row.ver + 1
             /\ Bump([row EXCEPT !.password = p]).enabled = row.enabled
  <2>1. PICK new : new = [row EXCEPT !.password = p]
    OBVIOUS
  <2>2. new \in UserRow /\ new.ver = row.ver /\ new.enabled = row.enabled
    BY <2>1 DEF UserRow
  <2>3. Bump(new) \in UserRow /\ Bump(new).ver = new.ver + 1 /\ Bump(new).enabled = new.enabled
    BY <2>2 DEF Bump, UserRow
  <2> QED
    BY <2>1, <2>2, <2>3
<1>4. ASSUME NEW row \in UserRow, NEW p \in Passwords
      PROVE  /\ BootRow(row, p) \in UserRow /\ BootRow(row, p).enabled
             /\ BootRow(row, p).ver = IF row.password = p THEN row.ver ELSE row.ver + 1
  <2>1. row # None
    BY <1>1
  <2>2. CASE row.password = p
    BY <2>1, <2>2 DEF BootRow, UserRow
  <2>3. CASE row.password # p
    <3>1. PICK new : new = [row EXCEPT !.password = p, !.enabled = TRUE]
      OBVIOUS
    <3>2. new \in UserRow /\ new.ver = row.ver /\ new.enabled
      BY <3>1 DEF UserRow
    <3>3. Bump(new) \in UserRow /\ Bump(new).ver = new.ver + 1 /\ Bump(new).enabled
      BY <3>2 DEF Bump, UserRow
    <3>4. BootRow(row, p) = Bump(new)
      BY <2>1, <2>3, <3>1 DEF BootRow
    <3> QED
      BY <2>3, <3>2, <3>3, <3>4
  <2> QED
    BY <2>2, <2>3
<1> QED
  BY <1>1, <1>2, <1>3, <1>4

\* The row of an update, and when its version is a new one.
LEMMA UpdatedTypes ==
  ASSUME NEW row \in UserRow, NEW c,
         c.password \in Passwords \cup {Keep}, c.enabled \in BOOLEAN \cup {Keep}
  PROVE  /\ UpdatedUser(row, c) \in UserRow
         /\ UpdatedUser(row, c).ver =
              IF c.password # Keep \/ UpdatedUser(row, c).enabled # row.enabled
              THEN row.ver + 1 ELSE row.ver
         /\ row.enabled /\ c.enabled # FALSE => UpdatedUser(row, c).enabled
<1>1. PICK p : p = IF c.password = Keep THEN row.password ELSE c.password
  OBVIOUS
<1>2. PICK e : e = IF c.enabled = Keep THEN row.enabled ELSE c.enabled
  OBVIOUS
<1>3. PICK new : new = [row EXCEPT !.password = p, !.enabled = e]
  OBVIOUS
<1>4. p \in Passwords /\ e \in BOOLEAN
  <2>1. row.password \in Passwords /\ row.enabled \in BOOLEAN
    BY DEF UserRow
  <2> QED
    BY <1>1, <1>2, <2>1
<1>5. new \in UserRow /\ new.enabled = e /\ new.ver = row.ver
  BY <1>3, <1>4 DEF UserRow
<1>6. UpdatedUser(row, c) = IF c.password # Keep \/ new.enabled # row.enabled
                            THEN Bump(new) ELSE new
  BY <1>1, <1>2, <1>3 DEF UpdatedUser
<1>7. Bump(new) \in UserRow /\ Bump(new).enabled = e /\ Bump(new).ver = row.ver + 1
  BY <1>5 DEF Bump, UserRow
<1>8. UpdatedUser(row, c) \in UserRow /\ UpdatedUser(row, c).enabled = e
  BY <1>5, <1>6, <1>7
<1>9. UpdatedUser(row, c).ver = IF c.password # Keep \/ e # row.enabled
                                THEN row.ver + 1 ELSE row.ver
  BY <1>5, <1>6, <1>7
<1>10. row.enabled /\ c.enabled # FALSE => e
  <2>1. c.enabled = Keep \/ c.enabled = TRUE \/ c.enabled = FALSE
    OBVIOUS
  <2> QED
    BY <1>2, <2>1
<1> QED
  BY <1>8, <1>9, <1>10
-----------------------------------------------------------------------------
(* Type correctness *)

LEMMA TypeInit == Init => TypeInv
<1> SUFFICES ASSUME Init PROVE TypeInv
  OBVIOUS
<1>1. users \in [Users -> UserRow \cup {None}]
  <2>1. PICK p \in BootPasswords :
          users = [u \in Users |-> IF u = BootUser /\ p # None
                                   THEN BootRow(None, p) ELSE None]
    BY DEF Init
  <2>2. p # None => BootRow(None, p) \in UserRow
    BY UserRowTypes, BootAssumption
  <2> QED
    BY <2>1, <2>2
<1>2. panelOn \in BOOLEAN
  BY DEF Init
<1>3. changes \in 0..traffic.changes /\ 0 \in 0..(MaxFailures + 1) /\ traffic \in Traffics
  BY AccountBoundsAssumption DEF Init
<1>4. DataOK
  BY <1>1, <1>2, <1>3 DEF Init, DataOK
<1>5. FramesOK
  BY DEF Init, FramesOK, Labels, Locals, NoLocals
<1>6. ASSUME NEW r \in Requests PROVE HandlerOK(r)
  BY DEF Init, HandlerOK
<1>7. DOMAIN call = Requests
  BY DEF Init
<1> QED
  BY <1>4, <1>5, <1>6, <1>7, TypeSplit DEF TypeInv

\* The user a handler works on.
LEMMA SubjectType ==
  ASSUME NEW c, CallOK(c)
  PROVE  Subject(c) \in Users
  BY DEF CallOK, AllOps, Subject, Claims

LEMMA StartType ==
  ASSUME TypeInv, NEW r \in Requests, Start(r)
  PROVE  DataOK' /\ FrameOK(r) /\ pc'[r] \in {"cleanup", "verify"}
<1>1. PICK c \in Calls :
        /\ c.op \in Ops
        /\ call' = [call EXCEPT ![r] = c]
        /\ IF c.op = "login"
           THEN /\ pc' = [pc EXCEPT ![r] = "cleanup"] /\ UNCHANGED changes
           ELSE /\ changes < traffic.changes /\ changes' = changes + 1
                /\ pc' = [pc EXCEPT ![r] = "verify"]
  BY DEF Start
<1>2. CallOK(c)
  <2>0. sessions \subseteq Claims
    BY DEF TypeInv, TypeOK
  <2>1. CASE c \in LoginCall
    BY <2>1 DEF LoginCall, CallOK, AllOps
  <2>2. CASE c \in ChangePasswordCall
    BY <2>0, <2>2 DEF ChangePasswordCall, CallOK, AllOps
  <2>3. CASE c \in CreateUserCall
    BY <2>0, <2>3 DEF CreateUserCall, CallOK, AllOps
  <2>4. CASE c \in UpdateUserCall
    BY <2>0, <2>4 DEF UpdateUserCall, CallOK, AllOps
  <2>5. CASE c \in DeleteUserCall
    BY <2>0, <2>5 DEF DeleteUserCall, CallOK, AllOps
  <2> QED
    BY <2>1, <2>2, <2>3, <2>4, <2>5 DEF Calls
<1>3. PICK l \in {"cleanup", "verify"} :
        pc' = [pc EXCEPT ![r] = l] /\ (l = "cleanup" <=> c.op = "login")
  BY <1>1
<1>4. l \in Labels /\ loc' = loc /\ traffic' = traffic /\ r \in traffic.handlers
  BY DEF Labels, Start
<1>5. FramesOK' /\ DOMAIN call' = Requests /\ OthersKept(r)
  BY <1>1, <1>3, <1>4 DEF TypeInv, TypeOK, FramesOK, OthersKept
<1>6. call'[r] = c /\ pc'[r] = l
  BY <1>1, <1>3 DEF TypeInv, TypeOK
<1>7. HandlerOK(r)'
  BY <1>2, <1>3, <1>4, <1>6 DEF HandlerOK
<1>8. changes' \in 0..traffic'.changes
  BY <1>1, <1>4, AccountBoundsAssumption DEF TypeInv, TypeOK
<1>9. DataOK'
  BY <1>8 DEF Start, TypeInv, TypeOK, DataOK, tables, history
<1> QED
  BY <1>5, <1>6, <1>7, <1>9 DEF FrameOK

LEMMA ThrottleType ==
  ASSUME TypeInv, NEW r \in Requests,
         \/ CleanupAttempts(r) \/ Gate(r) \/ CountFailure(r) \/ WriteAttempt(r)
         \/ ClearAttempt(r)
  PROVE  DataOK' /\ FrameOK(r)
<1> USE TypeSplit DEF TypeInv
<1>0. pc[r] # "idle" /\ call[r].op = "login" /\ call[r].ip \in Ips /\ HandlerOK(r)
  BY DEF CleanupAttempts, Gate, CountFailure, WriteAttempt, ClearAttempt, HandlerOK, CallOK
<1>z. 0 \in 0..(MaxFailures + 1)
  BY AccountBoundsAssumption
<1>1. CASE CleanupAttempts(r)
  <2>1. Proceed(r, "gate") /\ "gate" \in Labels
    BY <1>1 DEF CleanupAttempts, Labels
  <2>2. HandlerOK(r)'
    BY <1>0, <1>1, <2>1, ProceedLocal DEF HandlerOK, CallOK, CleanupAttempts, load
  <2>3. attempts' \in [Ips -> Attempt \cup {None}]
    BY <1>1 DEF CleanupAttempts, DataOK
  <2>4. tried' \in [Ips -> 0..(MaxFailures + 1)]
    BY <1>1, <1>z DEF CleanupAttempts, DataOK
  <2>5. DataOK'
    BY <1>1, <2>3, <2>4 DEF CleanupAttempts, DataOK, load
  <2> QED
    BY <2>1, <2>2, <2>5, ProceedLocal DEF FrameOK
<1>2. CASE Gate(r)
  <2>1. DataOK'
    BY <1>2, DataKept DEF Gate
  <2>2. CASE Done(r)
    BY <2>1, <2>2, DoneType
  <2>3. CASE Proceed(r, "load_user")
    <3>1. "load_user" \in Labels
      BY DEF Labels
    <3>2. HandlerOK(r)'
      BY <1>0, <1>2, <2>3, <3>1, ProceedLocal DEF HandlerOK, CallOK, Gate, load
    <3> QED
      BY <2>1, <2>3, <3>1, <3>2, ProceedLocal DEF FrameOK
  <2> QED
    BY <1>2, <2>2, <2>3 DEF Gate
<1>3. CASE CountFailure(r)
  <2>1. PICK a : a = FailedOnceMore(CurrentAttempt(attempts[call[r].ip]))
    OBVIOUS
  <2>2. a \in Attempt
    BY <1>0, <2>1, AttemptTypes DEF DataOK
  <2>3. KeepAttempt(r, a) /\ Goto(r, "write_attempt") /\ "write_attempt" \in Labels
    BY <1>3, <2>1 DEF CountFailure, Labels
  <2>4. /\ FramesOK' /\ DOMAIN call' = Requests /\ OthersKept(r)
        /\ pc'[r] = "write_attempt" /\ call'[r] = call[r] /\ loc'[r].attempt = a
    BY <2>2, <2>3, KeepAttemptLocal
  <2>5. HandlerOK(r)'
    BY <1>0, <1>3, <2>2, <2>4 DEF HandlerOK, CallOK, CountFailure, load
  <2>6. tried' \in [Ips -> 0..(MaxFailures + 1)]
    BY <1>0, <1>3, <1>z DEF CountFailure, DataOK
  <2>7. DataOK'
    BY <1>3, <2>6 DEF CountFailure, DataOK, load, tables
  <2> QED
    BY <2>4, <2>5, <2>7 DEF FrameOK
<1>4. CASE WriteAttempt(r)
  <2>1. loc[r].attempt \in Attempt
    BY <1>0, <1>4 DEF HandlerOK, WriteAttempt
  <2>2. attempts' \in [Ips -> Attempt \cup {None}]
    BY <1>0, <1>4, <2>1 DEF WriteAttempt, DataOK
  <2>3. ASSUME NEW n \in 0..(MaxFailures + 1)
        PROVE  (IF n > MaxFailures THEN n ELSE n + 1) \in 0..(MaxFailures + 1)
    BY AccountBoundsAssumption
  <2>4. tried[call[r].ip] \in 0..(MaxFailures + 1)
    BY <1>0 DEF DataOK
  <2>5. tried' \in [Ips -> 0..(MaxFailures + 1)]
    BY <1>0, <1>4, <2>3, <2>4 DEF WriteAttempt, DataOK
  <2>6. DataOK'
    BY <1>4, <2>2, <2>5 DEF WriteAttempt, DataOK, load
  <2> QED
    BY <1>4, <2>6, DoneType DEF WriteAttempt
<1>5. CASE ClearAttempt(r)
  <2>1. Proceed(r, "finish_login") /\ "finish_login" \in Labels
    BY <1>5 DEF ClearAttempt, Labels
  <2>2. HandlerOK(r)'
    BY <1>0, <1>5, <2>1, ProceedLocal DEF HandlerOK, CallOK, ClearAttempt, load
  <2>3. attempts' \in [Ips -> Attempt \cup {None}]
    BY <1>0, <1>5 DEF ClearAttempt, DataOK
  <2>4. tried' \in [Ips -> 0..(MaxFailures + 1)]
    BY <1>0, <1>5, <1>z DEF ClearAttempt, DataOK
  <2>5. DataOK'
    BY <1>5, <2>3, <2>4 DEF ClearAttempt, DataOK, load
  <2> QED
    BY <2>1, <2>2, <2>5, ProceedLocal DEF FrameOK
<1> QED
  BY <1>1, <1>2, <1>3, <1>4, <1>5

\* What a handler does with the user row it has read: it answers, goes on
\* without it, or keeps a row for the write that follows.
LoadResult(r) ==
  LET row == users[Subject(call[r])]
      op == call[r].op IN
  \/ pc'[r] = "idle"
  \/ /\ pc'[r] = "count_failure" /\ op = "login"
  \/ /\ pc'[r] \in {"write_failure", "clear_attempt"} /\ row \in UserRow
     /\ op = "login" \/ (op = "change_password" /\ pc'[r] = "write_failure")
     /\ loc'[r].user = row
  \/ /\ pc'[r] = "write_user" /\ op = "create_user" /\ row = None
     /\ loc'[r].user \in UserRow /\ ~loc'[r].bump
  \/ /\ pc'[r] = "write_user" /\ op = "change_password" /\ row \in UserRow
     /\ loc'[r].user \in UserRow /\ loc'[r].bump
     /\ loc'[r].user.ver = row.ver + 1
     /\ row.enabled => loc'[r].user.enabled
  \/ /\ pc'[r] \in {"write_user", "count_admins"} /\ op = "update_user" /\ row \in UserRow
     /\ loc'[r].user \in UserRow
     /\ loc'[r].user.ver = IF loc'[r].bump THEN row.ver + 1 ELSE row.ver
     /\ row.enabled /\ pc'[r] = "write_user" => loc'[r].user.enabled
  \/ /\ pc'[r] = "count_admins" /\ op = "delete_user"
  \/ /\ pc'[r] = "remove_user" /\ op = "delete_user" /\ row \in UserRow /\ ~row.enabled
LEMMA LoadUserResult ==
  ASSUME TypeInv, NEW r \in Requests, LoadUser(r)
  PROVE  /\ FramesOK' /\ DOMAIN call' = Requests /\ OthersKept(r)
         /\ pc'[r] = "idle" \/ call'[r] = call[r]
         /\ LoadResult(r) /\ CallOK(call[r])
<1> USE DEF TypeInv
<1>1. CallOK(call[r])
  BY DEF LoadUser, HandlerOK
<1>2. PICK row : row = users[Subject(call[r])]
  OBVIOUS
<1>3. row \in UserRow \cup {None} /\ None \notin UserRow
  BY <1>1, <1>2, SubjectType, UserRowTypes DEF TypeOK
<1>4. CASE Done(r)
  BY <1>1, <1>4, DoneType DEF FrameOK, LoadResult
<1>5. CASE call[r].op = "login" /\ LoadForLogin(r, row)
  <2>1. CASE Proceed(r, "count_failure")
    <3>1. "count_failure" \in Labels
      BY DEF Labels
    <3>2. /\ FramesOK' /\ pc'[r] = "count_failure" /\ DOMAIN call' = Requests
          /\ call'[r] = call[r] /\ OthersKept(r)
      BY <2>1, <3>1, ProceedLocal
    <3> QED
      BY <1>1, <1>5, <3>2 DEF LoadResult
  <2>2. CASE row # None /\ ~Proceed(r, "count_failure")
    <3>1. PICK l \in {"write_failure", "clear_attempt"} : KeepUser(r, row, FALSE) /\ Goto(r, l)
      BY <1>5, <2>2 DEF LoadForLogin
    <3>2. l \in Labels /\ row \in UserRow
      BY <1>3, <2>2 DEF Labels
    <3>3. /\ FramesOK' /\ DOMAIN call' = Requests /\ OthersKept(r)
          /\ pc'[r] = l /\ call'[r] = call[r] /\ loc'[r].user = row
      BY <3>1, <3>2, KeepUserLocal
    <3> QED
      BY <1>1, <1>2, <1>5, <3>2, <3>3 DEF LoadResult
  <2> QED
    BY <1>5, <2>1, <2>2 DEF LoadForLogin
<1>6. CASE call[r].op = "change_password" /\ LoadForPassword(r, row) /\ ~Done(r)
  <2>0. row \in UserRow
    BY <1>3, <1>6 DEF LoadForPassword
  <2>1. CASE KeepUser(r, row, FALSE) /\ Goto(r, "write_failure")
    <3>1. "write_failure" \in Labels
      BY DEF Labels
    <3>2. /\ FramesOK' /\ DOMAIN call' = Requests /\ OthersKept(r)
          /\ pc'[r] = "write_failure" /\ call'[r] = call[r] /\ loc'[r].user = row
      BY <2>0, <2>1, <3>1, KeepUserLocal
    <3> QED
      BY <1>1, <1>2, <1>6, <2>0, <3>2 DEF LoadResult
  <2>2. CASE /\ KeepUser(r, Bump([row EXCEPT !.password = call[r].password]), TRUE)
             /\ Goto(r, "write_user")
    <3>1. "write_user" \in Labels
      BY DEF Labels
    <3>2. PICK new : new = Bump([row EXCEPT !.password = call[r].password])
      OBVIOUS
    <3>3. new \in UserRow /\ new.ver = row.ver + 1 /\ new.enabled = row.enabled
      BY <1>1, <1>6, <2>0, <3>2, UserRowTypes DEF CallOK
    <3>4. /\ FramesOK' /\ DOMAIN call' = Requests /\ OthersKept(r)
          /\ pc'[r] = "write_user" /\ call'[r] = call[r]
          /\ loc'[r].user = new /\ loc'[r].bump = TRUE
      BY <2>2, <3>1, <3>2, <3>3, KeepUserLocal
    <3> QED
      BY <1>1, <1>2, <1>6, <2>0, <3>3, <3>4 DEF LoadResult
  <2> QED
    BY <1>6, <2>1, <2>2 DEF LoadForPassword
<1>7. CASE call[r].op = "create_user" /\ LoadForCreate(r, row) /\ ~Done(r)
  <2>1. PICK new : new = [password |-> call[r].password, ver |-> 0,
                          enabled |-> call[r].enabled]
    OBVIOUS
  <2>2. row = None /\ KeepUser(r, new, FALSE) /\ Goto(r, "write_user")
    BY <1>7, <2>1 DEF LoadForCreate
  <2>3. new \in UserRow /\ "write_user" \in Labels
    BY <1>1, <1>7, <2>1 DEF CallOK, UserRow, Labels
  <2>4. /\ FramesOK' /\ DOMAIN call' = Requests /\ OthersKept(r)
        /\ pc'[r] = "write_user" /\ call'[r] = call[r]
        /\ loc'[r].user = new /\ loc'[r].bump = FALSE
    BY <2>2, <2>3, KeepUserLocal
  <2> QED
    BY <1>1, <1>2, <1>7, <2>2, <2>3, <2>4 DEF LoadResult
<1>8. CASE call[r].op = "update_user" /\ LoadForUpdate(r, row) /\ ~Done(r)
  <2>0. /\ row \in UserRow
        /\ call[r].password \in Passwords \cup {Keep} /\ call[r].enabled \in BOOLEAN \cup {Keep}
    BY <1>1, <1>3, <1>8 DEF LoadForUpdate, CallOK
  <2>1. PICK new : new = UpdatedUser(row, call[r])
    OBVIOUS
  <2>2. PICK b : b = (call[r].password # Keep \/ new.enabled # row.enabled)
    OBVIOUS
  <2>3. b \in BOOLEAN
    BY <2>2
  <2>4. /\ new \in UserRow /\ new.ver = IF b THEN row.ver + 1 ELSE row.ver
        /\ row.enabled /\ call[r].enabled # FALSE => new.enabled
    BY <2>0, <2>1, <2>2, UpdatedTypes
  <2>5. PICK l \in {"count_admins", "write_user"} :
          /\ KeepUser(r, new, b) /\ Goto(r, l)
          /\ row.enabled /\ l = "write_user" => call[r].enabled # FALSE
    BY <1>8, <2>1, <2>2 DEF LoadForUpdate
  <2>6. l \in Labels
    BY DEF Labels
  <2>7. /\ FramesOK' /\ DOMAIN call' = Requests /\ OthersKept(r)
        /\ pc'[r] = l /\ call'[r] = call[r] /\ loc'[r].user = new /\ loc'[r].bump = b
    BY <2>3, <2>4, <2>5, <2>6, KeepUserLocal
  <2> QED
    BY <1>1, <1>2, <1>8, <2>0, <2>4, <2>5, <2>7 DEF LoadResult
<1>9. CASE call[r].op = "delete_user" /\ LoadForDelete(r, row) /\ ~Done(r)
  <2>1. PICK l \in {"count_admins", "remove_user"} :
          Proceed(r, l) /\ row # None /\ (l = "remove_user" => ~row.enabled)
    BY <1>9 DEF LoadForDelete
  <2>2. l \in Labels
    BY DEF Labels
  <2>3. /\ FramesOK' /\ pc'[r] = l /\ DOMAIN call' = Requests
        /\ call'[r] = call[r] /\ OthersKept(r)
    BY <2>1, <2>2, ProceedLocal
  <2> QED
    BY <1>1, <1>2, <1>3, <1>9, <2>1, <2>3 DEF LoadResult
<1>10. \/ call[r].op = "login" /\ LoadForLogin(r, row)
       \/ call[r].op = "change_password" /\ LoadForPassword(r, row)
       \/ call[r].op = "create_user" /\ LoadForCreate(r, row)
       \/ call[r].op = "update_user" /\ LoadForUpdate(r, row)
       \/ call[r].op = "delete_user" /\ LoadForDelete(r, row)
  BY <1>1, <1>2 DEF LoadUser, CallOK, AllOps
<1> QED
  BY <1>4, <1>5, <1>6, <1>7, <1>8, <1>9, <1>10

LEMMA LoadUserType ==
  ASSUME TypeInv, NEW r \in Requests, LoadUser(r)
  PROVE  DataOK' /\ FrameOK(r)
<1>1. DataOK'
  BY TypeSplit, DataKept DEF TypeInv, LoadUser
<1>2. HandlerOK(r)'
  <2>1. CASE pc'[r] = "idle"
    BY <2>1 DEF HandlerOK
  <2>2. CASE pc'[r] # "idle"
    <3>1. r \in traffic.handlers /\ traffic' = traffic
      BY DEF TypeInv, HandlerOK, LoadUser, load
    <3>2. LoadResult(r) /\ call'[r] = call[r] /\ CallOK(call[r])
      BY <2>2, LoadUserResult
    <3>3. (pc[r] # "idle" => CallOK(call[r]) /\ r \in traffic.handlers)'
      BY <3>1, <3>2 DEF CallOK
    <3> QED
      BY <2>2, <3>2, <3>3 DEF HandlerOK, LoadResult
  <2> QED
    BY <2>1, <2>2
<1> QED
  BY <1>1, <1>2, LoadUserResult DEF FrameOK

LEMMA AccountType ==
  ASSUME TypeInv, NEW r \in Requests,
         \/ Verify(r) \/ CountAdmins(r) \/ WriteFailure(r) \/ FinishLogin(r)
         \/ WriteUser(r) \/ RemoveUser(r) \/ StorageError(r)
  PROVE  DataOK' /\ FrameOK(r)
<1> USE TypeSplit DEF TypeInv
<1>0. /\ pc[r] # "idle" /\ CallOK(call[r]) /\ HandlerOK(r) /\ r \in traffic.handlers
      /\ Subject(call[r]) \in Users
  BY SubjectType DEF Verify, CountAdmins, WriteFailure, FinishLogin, WriteUser, RemoveUser,
                     StorageError, HandlerOK
<1>1. CASE Verify(r)
  <2>1. DataOK'
    BY <1>1, DataKept DEF Verify
  <2>2. CASE Done(r)
    BY <2>1, <2>2, DoneType
  <2>3. CASE ~Done(r)
    <3>1. PICK l \in {"verify_again", "load_user"} : Proceed(r, l)
      BY <1>1, <2>3 DEF Verify
    <3>2. l \in Labels
      BY DEF Labels
    <3>3. HandlerOK(r)'
      BY <1>0, <1>1, <3>1, <3>2, ProceedLocal DEF HandlerOK, CallOK, Verify, load
    <3> QED
      BY <2>1, <3>1, <3>2, <3>3, ProceedLocal DEF FrameOK
  <2> QED
    BY <2>2, <2>3
<1>2. CASE CountAdmins(r)
  <2>1. DataOK'
    BY <1>2, DataKept DEF CountAdmins
  <2>2. CASE Done(r)
    BY <2>1, <2>2, DoneType
  <2>3. CASE ~Done(r)
    <3>1. PICK l \in {"remove_user", "write_user"} :
            Proceed(r, l) /\ (l = "remove_user" <=> call[r].op = "delete_user")
      BY <1>2, <2>3 DEF CountAdmins
    <3>2. l \in Labels
      BY DEF Labels
    <3>3. HandlerOK(r)'
      BY <1>0, <1>2, <3>1, <3>2, ProceedLocal DEF HandlerOK, CallOK, CountAdmins, load
    <3> QED
      BY <2>1, <3>1, <3>2, <3>3, ProceedLocal DEF FrameOK
  <2> QED
    BY <2>2, <2>3
<1>3. ASSUME SetUser(r), loc[r].user \in UserRow
      PROVE  users' \in [Users -> UserRow \cup {None}]
  BY <1>0, <1>3 DEF SetUser, DataOK
<1>4. ASSUME loc[r].user \in UserRow PROVE NewSession(r) \in Claims
  <2>1. loc[r].user.ver \in Nat /\ lives[Subject(call[r])] \in Nat
    BY <1>0, <1>4 DEF DataOK, UserRow
  <2> QED
    BY <1>0, <2>1 DEF NewSession, Claims
<1>5. CASE WriteFailure(r)
  <2>1. users' \in [Users -> UserRow \cup {None}]
    BY <1>0, <1>3, <1>5 DEF WriteFailure, HandlerOK
  <2>2. DataOK'
    BY <1>5, <2>1 DEF WriteFailure, DataOK, load, history
  <2>3. CASE Done(r)
    BY <2>2, <2>3, DoneType
  <2>4. CASE Proceed(r, "count_failure") /\ call[r].op = "login"
    <3>2. "count_failure" \in Labels
      BY DEF Labels
    <3>3. HandlerOK(r)'
      BY <1>0, <1>5, <2>4, <3>2, ProceedLocal DEF HandlerOK, CallOK, WriteFailure, load
    <3> QED
      BY <2>2, <2>4, <3>2, <3>3, ProceedLocal DEF FrameOK
  <2> QED
    BY <1>5, <2>3, <2>4 DEF WriteFailure
<1>6. CASE FinishLogin(r)
  <2>0. loc[r].user \in UserRow
    BY <1>0, <1>6 DEF FinishLogin, HandlerOK
  <2>1. users' \in [Users -> UserRow \cup {None}]
    BY <1>3, <1>6, <2>0 DEF FinishLogin
  <2>2. sessions' \in SUBSET Claims /\ revoked' \in SUBSET sessions'
    BY <1>4, <1>6, <2>0 DEF FinishLogin, DataOK, history
  <2>3. DataOK'
    BY <1>6, <2>1, <2>2 DEF FinishLogin, DataOK, load, history
  <2> QED
    BY <1>6, <2>3, DoneType DEF FinishLogin
<1>7. CASE WriteUser(r)
  <2>0. loc[r].user \in UserRow
    BY <1>0, <1>7 DEF WriteUser, HandlerOK
  <2>1. users' \in [Users -> UserRow \cup {None}]
    BY <1>3, <1>7, <2>0 DEF WriteUser
  <2>2. SessionsOf(Subject(call[r])) \subseteq sessions
    BY DEF SessionsOf
  <2>3. sessions' \in SUBSET Claims /\ sessions \subseteq sessions'
    BY <1>4, <1>7, <2>0 DEF WriteUser, DataOK
  <2>4. revoked' \in SUBSET sessions'
    BY <1>7, <2>2, <2>3 DEF WriteUser, DataOK
  <2>5. DataOK'
    BY <1>7, <2>1, <2>3, <2>4 DEF WriteUser, DataOK, load
  <2> QED
    BY <1>7, <2>5, DoneType DEF WriteUser
<1>8. CASE RemoveUser(r)
  <2>1. call[r].user \in Users
    BY <1>0, <1>8 DEF RemoveUser, HandlerOK, CallOK
  <2>2. users' \in [Users -> UserRow \cup {None}]
    BY <1>8, <2>1 DEF RemoveUser, DataOK
  <2>3. lives' \in [Users -> Nat]
    BY <1>8, <2>1 DEF RemoveUser, DataOK
  <2>4. DataOK'
    BY <1>8, <2>2, <2>3 DEF RemoveUser, DataOK, load
  <2> QED
    BY <1>8, <2>4, DoneType DEF RemoveUser
<1>9. CASE StorageError(r)
  BY <1>9, DataKept, DoneType DEF StorageError
<1> QED
  BY <1>1, <1>2, <1>5, <1>6, <1>7, <1>8, <1>9

\* Every step of a handler leaves good data, a good frame, and the others.
LEMMA StepType ==
  ASSUME TypeInv, NEW r \in Requests, Step(r)
  PROVE  TypeInv' /\ OthersKept(r) /\ traffic' = traffic
<1>1. DataOK' /\ FrameOK(r)
  BY StartType, ThrottleType, LoadUserType, AccountType DEF Step
<1>2. traffic' = traffic
  BY DEF Step, Start, StorageError, CleanupAttempts, Gate, CountFailure, WriteAttempt,
         ClearAttempt, FinishLogin, WriteFailure, Verify, LoadUser, CountAdmins, WriteUser,
         RemoveUser, load
<1>3. \A q \in Requests : HandlerOK(q)'
  BY <1>1, <1>2, OtherHandlers DEF FrameOK, TypeInv
<1>4. TypeOK'
  BY <1>1, TypeSplit DEF TypeOK, DataOK, FramesOK, FrameOK
<1> QED
  BY <1>1, <1>2, <1>3, <1>4 DEF FrameOK, TypeInv

\* After a restart there are no handlers, and the boot user has its row.
LEMMA RestartType ==
  ASSUME TypeInv, Restart
  PROVE  /\ TypeInv' /\ traffic' = traffic
         /\ \A r \in Requests : pc'[r] = "idle"
<1>1. PICK p \in BootPasswords :
        /\ users' = IF p = None THEN users
                    ELSE [users EXCEPT ![BootUser] = BootRow(users[BootUser], p)]
        /\ IF SecretPersists
           THEN /\ \/ revoked' = revoked \cup SessionsOf(BootUser)
                   \/ revoked' = revoked
                /\ UNCHANGED sessions
           ELSE sessions' = {} /\ revoked' = {}
  BY DEF Restart
<1>2. users' \in [Users -> UserRow \cup {None}]
  <2>1. users[BootUser] \in UserRow \cup {None}
    BY BootAssumption DEF TypeInv, TypeOK
  <2>2. p # None => BootRow(users[BootUser], p) \in UserRow
    BY <2>1, UserRowTypes, BootAssumption
  <2> QED
    BY <1>1, <2>2, BootAssumption DEF TypeInv, TypeOK
<1>3. sessions' \in SUBSET Claims /\ revoked' \in SUBSET sessions'
  <2>1. SessionsOf(BootUser) \subseteq sessions
    BY DEF SessionsOf
  <2> QED
    BY <1>1, <2>1 DEF TypeInv, TypeOK
<1>4. panelOn' \in BOOLEAN
  BY DEF Restart
<1>5. changes' \in 0..traffic'.changes
  BY AccountBoundsAssumption DEF Restart, TypeInv, TypeOK
<1>6. DataOK'
  BY <1>2, <1>3, <1>4, <1>5 DEF Restart, TypeInv, TypeOK, DataOK
<1>7. FramesOK' /\ DOMAIN call' = Requests
  BY DEF Restart, FramesOK, Labels, Locals, NoLocals
<1>8. \A r \in Requests : pc'[r] = "idle"
  BY DEF Restart
<1>9. \A r \in Requests : HandlerOK(r)'
  BY <1>8 DEF HandlerOK
<1>10. TypeOK'
  BY <1>6, <1>7 DEF TypeOK, DataOK, FramesOK
<1> QED
  BY <1>7, <1>8, <1>9, <1>10 DEF TypeInv, Restart

\* Time moves the throttle rows and the copies of them, and nothing else.
LEMMA TickType ==
  ASSUME TypeInv, Tick
  PROVE  /\ TypeInv'
         /\ \A r \in Requests : /\ loc'[r].user = loc[r].user /\ loc'[r].bump = loc[r].bump
                                /\ loc'[r].attempt = Aged(loc[r].attempt)
<1>1. ASSUME NEW r \in Requests
      PROVE  /\ loc'[r] \in Locals
             /\ loc'[r].user = loc[r].user /\ loc'[r].bump = loc[r].bump
             /\ loc'[r].attempt = Aged(loc[r].attempt)
  <2>1. loc[r] \in Locals /\ loc'[r] = [loc[r] EXCEPT !.attempt = Aged(loc[r].attempt)]
    BY DEF TypeInv, TypeOK, Tick
  <2>2. Aged(loc[r].attempt) \in Attempt \cup {None}
    BY <2>1, AttemptTypes DEF Locals
  <2> QED
    BY <2>1, <2>2 DEF Locals
<1>2. loc' \in [Requests -> Locals]
  BY <1>1 DEF Tick
<1>3. attempts' \in [Ips -> Attempt \cup {None}]
  BY AttemptTypes DEF Tick, TypeInv, TypeOK
<1>4. TypeOK'
  BY <1>2, <1>3 DEF Tick, TypeInv, TypeOK, load, history
<1>5. ASSUME NEW r \in Requests PROVE HandlerOK(r)'
  <2>1. pc'[r] = pc[r] /\ call'[r] = call[r] /\ traffic' = traffic
    BY DEF Tick, load
  <2>2. pc[r] = "write_attempt" => loc'[r].attempt \in Attempt
    BY <1>1, AttemptTypes DEF TypeInv, HandlerOK
  <2> QED
    BY <1>1, <2>1, <2>2 DEF TypeInv, HandlerOK, CallOK
<1> QED
  BY <1>1, <1>4, <1>5 DEF TypeInv, Tick

LEMMA TypeNext == TypeInv /\ [Next]_vars => TypeInv'
<1> SUFFICES ASSUME TypeInv, [Next]_vars PROVE TypeInv'
  OBVIOUS
<1>1. ASSUME NEW r \in Requests, Step(r) PROVE TypeInv'
  BY <1>1, StepType
<1>2. CASE Restart
  BY <1>2, RestartType
<1>3. CASE Tick
  BY <1>3, TickType
<1>4. CASE UNCHANGED vars
  BY <1>4 DEF vars, tables, load, history, TypeInv, TypeOK, HandlerOK, CallOK
<1> QED
  BY <1>1, <1>2, <1>3, <1>4 DEF Next

\* The shapes the Rust types give rows and local values are kept by every
\* handler, a restart in the middle of any of them, and time.
THEOREM TypeCorrect == Spec => []TypeOK
<1>1. TypeInv => TypeOK
  BY DEF TypeInv
<1> QED
  BY <1>1, TypeInit, TypeNext, PTL DEF Spec
-----------------------------------------------------------------------------
(* The throttle blocks at the threshold *)

LEMMA ThresholdInit == Init => ThresholdInv
  BY TypeInit DEF Init, ThresholdInv, BlockedAtThreshold

\* Counting a failure keeps the threshold, and counts one.
LEMMA FailedOnceMoreCounts ==
  ASSUME NEW a \in Attempt, AtThreshold(a)
  PROVE  /\ AtThreshold(FailedOnceMore(a))
         /\ ~a.blocked => FailedOnceMore(a).failures = a.failures + 1
<1> USE AccountBoundsAssumption
<1>1. a.failures \in 0..MaxFailures /\ a.blocked \in BOOLEAN
  BY DEF Attempt
<1>2. CASE a.failures + 1 >= MaxFailures
  <2>1. /\ FailedOnceMore(a).failures = MaxFailures
        /\ FailedOnceMore(a).blocked = TRUE
    BY <1>2 DEF FailedOnceMore, Attempt
  <2> QED
    BY <1>1, <1>2, <2>1 DEF AtThreshold
<1>3. CASE ~(a.failures + 1 >= MaxFailures)
  <2>1. /\ FailedOnceMore(a).failures = a.failures + 1
        /\ FailedOnceMore(a).blocked = a.blocked
    BY <1>3 DEF FailedOnceMore, Attempt
  <2> QED
    BY <1>1, <1>3, <2>1 DEF AtThreshold
<1> QED
  BY <1>2, <1>3

\* The row a failure is counted on starts below the threshold.
LEMMA CurrentAtThreshold ==
  ASSUME NEW a \in Attempt \cup {None}, a # None => AtThreshold(a)
  PROVE  AtThreshold(CurrentAttempt(a))
<1>1. AtThreshold(NewAttempt)
  BY AccountBoundsAssumption DEF AtThreshold, NewAttempt
<1> QED
  BY <1>1 DEF CurrentAttempt

LEMMA ThresholdStep ==
  ASSUME ThresholdInv, NEW r \in Requests, Step(r)
  PROVE  ThresholdInv'
<1> USE DEF ThresholdInv
<1>1. TypeInv' /\ OthersKept(r)
  BY StepType
<1>2. \A q \in Requests \ {r} : pc'[q] = "write_attempt" => AtThreshold(loc'[q].attempt)
  BY <1>1 DEF OthersKept
<1>3. \A i \in Ips : attempts[i] # None => AtThreshold(attempts[i])
  BY DEF BlockedAtThreshold, AtThreshold
<1>4. CASE CountFailure(r)
  <2>1. call[r].ip \in Ips
    BY <1>4 DEF CountFailure, TypeInv, HandlerOK, CallOK
  <2>2. PICK a : a = CurrentAttempt(attempts[call[r].ip])
    OBVIOUS
  <2>3. a \in Attempt /\ AtThreshold(a)
    BY <1>3, <2>1, <2>2, AttemptTypes, CurrentAtThreshold DEF TypeInv, TypeOK
  <2>4. KeepAttempt(r, FailedOnceMore(a)) /\ Goto(r, "write_attempt") /\ attempts' = attempts
    BY <1>4, <2>2 DEF CountFailure, tables
  <2>5. FailedOnceMore(a) \in Attempt /\ "write_attempt" \in Labels
    BY <2>3, AttemptTypes DEF Labels
  <2>6. loc'[r].attempt = FailedOnceMore(a)
    BY <2>4, <2>5, KeepAttemptLocal
  <2>7. AtThreshold(loc'[r].attempt)
    BY <2>3, <2>6, FailedOnceMoreCounts
  <2> QED
    BY <1>1, <1>2, <2>4, <2>7 DEF BlockedAtThreshold, AtThreshold
<1>5. CASE ~CountFailure(r)
  <2>1. pc'[r] # "write_attempt"
    <3>1. CASE Done(r)
      BY <3>1, DoneType
    <3>2. CASE \E l \in Labels \ {"write_attempt"} : Proceed(r, l)
      BY <3>2, ProceedLocal
    <3>3. CASE LoadUser(r)
      BY <3>3, LoadUserResult DEF LoadResult
    <3>4. CASE Start(r)
      BY <3>4, StartType
    <3> QED
      BY <1>5, <3>1, <3>2, <3>3, <3>4
      DEF Step, StorageError, CleanupAttempts, Gate, WriteAttempt,
          ClearAttempt, FinishLogin, WriteFailure, Verify, CountAdmins, WriteUser,
          RemoveUser, Labels
  <2>2. BlockedAtThreshold'
    <3>1. CASE attempts' = attempts
      BY <3>1 DEF BlockedAtThreshold
    <3>2. CASE CleanupAttempts(r)
      BY <3>2 DEF CleanupAttempts, BlockedAtThreshold
    <3>3. CASE ClearAttempt(r)
      BY <3>3 DEF ClearAttempt, BlockedAtThreshold, TypeInv, TypeOK
    <3>4. CASE WriteAttempt(r)
      <4>1. AtThreshold(loc[r].attempt)
        BY <3>4 DEF WriteAttempt
      <4>2. attempts' = [attempts EXCEPT ![call[r].ip] = loc[r].attempt]
        BY <3>4 DEF WriteAttempt
      <4>3. \A i \in Ips : attempts'[i] = attempts[i] \/ attempts'[i] = loc[r].attempt
        BY <4>2 DEF TypeInv, TypeOK
      <4> QED
        BY <1>3, <4>1, <4>3 DEF BlockedAtThreshold, AtThreshold
    <3> QED
      BY <1>5, <3>1, <3>2, <3>3, <3>4
      DEF Step, Start, StorageError, Gate, FinishLogin, WriteFailure, Verify, LoadUser,
          CountAdmins, WriteUser, RemoveUser, tables
  <2> QED
    BY <1>1, <1>2, <2>1, <2>2 DEF AtThreshold
<1> QED
  BY <1>4, <1>5

LEMMA ThresholdNext == ThresholdInv /\ [Next]_vars => ThresholdInv'
<1> SUFFICES ASSUME ThresholdInv, [Next]_vars PROVE ThresholdInv'
  OBVIOUS
<1> USE DEF ThresholdInv
<1>1. ASSUME NEW r \in Requests, Step(r) PROVE ThresholdInv'
  BY <1>1, ThresholdStep
<1>2. CASE Restart
  BY <1>2, RestartType DEF Restart, BlockedAtThreshold
<1>3. CASE Tick
  <2>1. \A i \in Ips : attempts'[i] = Aged(attempts[i])
    BY <1>3 DEF Tick
  <2>2. \A i \in Ips : attempts[i] \in Attempt \cup {None}
    BY DEF TypeInv, TypeOK
  <2>3. BlockedAtThreshold'
    <3>1. Aged(None) = None
      BY DEF Aged
    <3>2. ASSUME NEW i \in Ips, attempts'[i] # None
          PROVE  attempts'[i].blocked <=> attempts'[i].failures >= MaxFailures
      <4>1. attempts[i] # None /\ attempts[i] \in Attempt
        BY <2>1, <2>2, <3>1, <3>2
      <4>2. attempts'[i].failures = attempts[i].failures
            /\ attempts'[i].blocked = attempts[i].blocked
        BY <2>1, <4>1, AttemptTypes
      <4> QED
        BY <4>1, <4>2 DEF BlockedAtThreshold
    <3> QED
      BY <3>2 DEF BlockedAtThreshold
  <2>4. ASSUME NEW r \in Requests, pc'[r] = "write_attempt"
        PROVE  AtThreshold(loc[r].attempt)'
    <3>1. pc[r] = "write_attempt" /\ loc[r].attempt \in Attempt
      BY <1>3, <2>4 DEF Tick, TypeInv, HandlerOK
    <3>2. loc'[r].attempt = Aged(loc[r].attempt)
      BY <1>3, TickType
    <3>3. loc'[r].attempt.failures = loc[r].attempt.failures
          /\ loc'[r].attempt.blocked = loc[r].attempt.blocked
      BY <3>1, <3>2, AttemptTypes
    <3> QED
      BY <3>1, <3>3 DEF AtThreshold
  <2> QED
    BY <1>3, <2>3, <2>4, TickType
<1>4. CASE UNCHANGED vars
  BY <1>4, TypeNext DEF vars, tables, load, history, BlockedAtThreshold, AtThreshold
<1> QED
  BY <1>1, <1>2, <1>3, <1>4 DEF Next

\* A row of the throttle blocks exactly when it has reached the threshold,
\* whichever of several logins of an address writes its copy back last.
THEOREM BlocksAtThreshold == Spec => []BlockedAtThreshold
<1>1. ThresholdInv => BlockedAtThreshold
  BY DEF ThresholdInv
<1> QED
  BY <1>1, ThresholdInit, ThresholdNext, PTL DEF Spec
-----------------------------------------------------------------------------
(* The throttle counts what was tried *)

\* With one request at a time, a handler at work is the only one.
LEMMA Alone ==
  ASSUME TypeInv, OneAtATime, NEW r \in Requests, NEW q \in Requests, q # r,
         r \in traffic.handlers
  PROVE  pc[q] = "idle"
  BY DEF TypeInv, HandlerOK, OneAtATime

\* The handler that takes a step is one of those in use.
LEMMA StepInUse ==
  ASSUME TypeInv, NEW r \in Requests, Step(r)
  PROVE  r \in traffic.handlers
<1>1. CASE Start(r)
  BY <1>1 DEF Start
<1>2. CASE pc[r] # "idle"
  BY <1>2 DEF TypeInv, HandlerOK
<1> QED
  BY <1>1, <1>2 DEF Step, StorageError, CleanupAttempts, Gate, CountFailure, WriteAttempt,
         ClearAttempt, FinishLogin, WriteFailure, Verify, LoadUser, CountAdmins, WriteUser,
         RemoveUser

LEMMA OthersIdle ==
  ASSUME TypeInv, NEW r \in Requests, Step(r), OneAtATime'
  PROVE  OneAtATime /\ \A q \in Requests \ {r} : pc'[q] = "idle"
<1>1. OneAtATime /\ OthersKept(r)
  BY StepType DEF OneAtATime
<1> QED
  BY <1>1, StepInUse, Alone DEF OthersKept

LEMMA ThrottleInit == Init => ThrottleInv
<1> SUFFICES ASSUME Init PROVE ThrottleInv
  OBVIOUS
<1>1. TriedCounted
  BY DEF Init, TriedCounted
<1> QED
  BY <1>1, ThresholdInit DEF ThrottleInv

\* The parts of TriedCounted: the rows, and the handlers.
RowsCount == \A i \in Ips : IF attempts[i] = None THEN tried[i] = 0
                            ELSE tried[i] <= attempts[i].failures
Gated(r) == /\ pc[r] \in {"load_user", "write_failure", "count_failure"} /\ call[r].op = "login"
                 => attempts[call[r].ip] = None \/ ~attempts[call[r].ip].blocked
            /\ pc[r] = "write_attempt" => tried[call[r].ip] + 1 <= loc[r].attempt.failures

LEMMA TriedSplit == TriedCounted <=> (OneAtATime => RowsCount /\ \A r \in Requests : Gated(r))
  BY DEF TriedCounted, RowsCount, Gated

LEMMA ThrottleStep ==
  ASSUME ThrottleInv, NEW r \in Requests, Step(r)
  PROVE  TriedCounted'
<1> USE DEF ThrottleInv
<1>0. TypeInv /\ TypeInv' /\ ThresholdInv
  BY StepType DEF ThresholdInv
<1> SUFFICES ASSUME OneAtATime' PROVE RowsCount' /\ \A q \in Requests : Gated(q)'
  BY DEF TriedCounted, RowsCount, Gated
<1>1. OneAtATime /\ \A q \in Requests \ {r} : pc'[q] = "idle"
  BY <1>0, OthersIdle
<1>2. RowsCount /\ Gated(r)
  BY <1>1, TriedSplit
<1>3. SUFFICES RowsCount' /\ Gated(r)'
  BY <1>1 DEF Gated
<1>4. \A i \in Ips : tried[i] \in 0..(MaxFailures + 1) /\ attempts[i] \in Attempt \cup {None}
  BY <1>0 DEF TypeInv, TypeOK
<1>5. CASE pc'[r] = "idle" /\ attempts' = attempts /\ tried' = tried
  BY <1>2, <1>5 DEF RowsCount, Gated
<1>6. CASE Start(r)
  <2>1. pc'[r] \in {"cleanup", "verify"}
    BY <1>0, <1>6, StartType
  <2> QED
    BY <1>2, <1>6, <2>1 DEF Start, tables, history, RowsCount, Gated
<1>7. CASE CleanupAttempts(r)
  <2>1. pc'[r] = "gate"
    BY <1>0, <1>7, ProceedLocal DEF CleanupAttempts, Labels
  <2> QED
    BY <1>2, <1>7, <2>1 DEF CleanupAttempts, RowsCount, Gated
<1>8. CASE Gate(r) /\ ~Done(r)
  <2>1. Proceed(r, "load_user") /\ "load_user" \in Labels
        /\ ~(attempts[call[r].ip] # None /\ attempts[call[r].ip].blocked)
    BY <1>8 DEF Gate, Labels
  <2>2. pc'[r] = "load_user" /\ call'[r] = call[r]
    BY <1>0, <2>1, ProceedLocal
  <2> QED
    BY <1>2, <1>8, <2>1, <2>2 DEF Gate, tables, history, RowsCount, Gated
<1>9. CASE LoadUser(r)
  <2>1. attempts' = attempts /\ tried' = tried /\ pc[r] = "load_user"
    BY <1>9 DEF LoadUser, tables, history
  <2>2. pc'[r] = "idle" \/ call'[r] = call[r]
    BY <1>0, <1>9, LoadUserResult
  <2>3. pc'[r] \notin {"load_user", "write_attempt"}
    BY <1>0, <1>9, LoadUserResult DEF LoadResult
  <2> QED
    BY <1>2, <2>1, <2>2, <2>3 DEF RowsCount, Gated
<1>10. CASE WriteFailure(r) /\ ~Done(r)
  <2>1. Proceed(r, "count_failure") /\ "count_failure" \in Labels
    BY <1>10 DEF WriteFailure, Labels
  <2>2. pc'[r] = "count_failure" /\ call'[r] = call[r]
    BY <1>0, <2>1, ProceedLocal
  <2> QED
    BY <1>2, <1>10, <2>2 DEF WriteFailure, history, RowsCount, Gated
<1>11. CASE CountFailure(r)
  <2>0. PICK i \in Ips : i = call[r].ip
    BY <1>0, <1>11 DEF CountFailure, TypeInv, HandlerOK, CallOK
  <2>a. call[r].op = "login" /\ pc[r] = "count_failure"
    BY <1>0, <1>11 DEF CountFailure, TypeInv, HandlerOK
  <2>1. PICK a : a = CurrentAttempt(attempts[i])
    OBVIOUS
  <2>2. a \in Attempt /\ AtThreshold(a)
    BY <1>0, <1>4, <2>1, AttemptTypes, CurrentAtThreshold
    DEF ThresholdInv, BlockedAtThreshold, AtThreshold
  <2>3. KeepAttempt(r, FailedOnceMore(a)) /\ Goto(r, "write_attempt") /\ attempts' = attempts
        /\ tried' = IF attempts[i] # None /\ attempts[i].age > Window
                    THEN [tried EXCEPT ![i] = 0] ELSE tried
    BY <1>11, <2>0, <2>1 DEF CountFailure, tables
  <2>4. FailedOnceMore(a) \in Attempt /\ "write_attempt" \in Labels
    BY <2>2, AttemptTypes DEF Labels
  <2>5. pc'[r] = "write_attempt" /\ call'[r] = call[r] /\ loc'[r].attempt = FailedOnceMore(a)
    BY <1>0, <2>3, <2>4, KeepAttemptLocal
  <2>6. ~a.blocked
    BY <1>2, <2>0, <2>1, <2>a DEF Gated, CurrentAttempt, NewAttempt
  <2>7. FailedOnceMore(a).failures = a.failures + 1
    BY <2>2, <2>6, FailedOnceMoreCounts
  <2>8. \A j \in Ips : tried'[j] = IF j = i /\ attempts[i] # None /\ attempts[i].age > Window
                                   THEN 0 ELSE tried[j]
    BY <1>0, <2>3 DEF TypeInv, TypeOK
  <2>9. \A j \in Ips : attempts[j] # None => attempts[j].failures \in 0..MaxFailures
    BY <1>4 DEF Attempt
  <2>10. RowsCount'
    <3>1. \A j \in Ips : attempts[j] # None => attempts[j].failures >= 0
      BY <2>9, AccountBoundsAssumption
    <3> QED
      BY <1>2, <2>3, <2>8, <3>1 DEF RowsCount
  <2>11. tried'[i] <= a.failures
    <3>1. CASE attempts[i] = None \/ attempts[i].age > Window
      <4>1. a.failures = 0
        BY <2>1, <3>1 DEF CurrentAttempt, NewAttempt
      <4>2. tried'[i] = 0
        BY <1>2, <2>8, <3>1 DEF RowsCount
      <4> QED
        BY <4>1, <4>2
    <3>2. CASE ~(attempts[i] = None \/ attempts[i].age > Window)
      BY <1>2, <2>1, <2>8, <3>2 DEF CurrentAttempt, RowsCount
    <3> QED
      BY <3>1, <3>2
  <2>12. tried'[i] + 1 <= a.failures + 1
    <3>1. tried'[i] \in Nat /\ a.failures \in Nat
      BY <1>4, <2>2, <2>8, AccountBoundsAssumption DEF Attempt
    <3> QED
      BY <2>11, <3>1
  <2> QED
    BY <2>0, <2>5, <2>7, <2>10, <2>12 DEF Gated
<1>12. CASE WriteAttempt(r)
  <2>0. PICK i \in Ips : i = call[r].ip
    BY <1>0, <1>12 DEF WriteAttempt, TypeInv, HandlerOK, CallOK
  <2>1. pc'[r] = "idle"
    BY <1>0, <1>12, DoneType DEF WriteAttempt
  <2>2. loc[r].attempt \in Attempt /\ tried[i] + 1 <= loc[r].attempt.failures
    BY <1>0, <1>2, <1>12, <2>0 DEF WriteAttempt, TypeInv, HandlerOK, Gated
  <2>3. loc[r].attempt.failures \in 0..MaxFailures /\ loc[r].attempt # None
    BY <2>2, AttemptTypes DEF Attempt
  <2>4. /\ attempts'[i] = loc[r].attempt
        /\ tried'[i] = IF tried[i] > MaxFailures THEN tried[i] ELSE tried[i] + 1
        /\ \A j \in Ips \ {i} : attempts'[j] = attempts[j] /\ tried'[j] = tried[j]
    BY <1>0, <1>12, <2>0 DEF WriteAttempt, TypeInv, TypeOK
  <2>5. tried'[i] <= attempts'[i].failures
    BY <1>4, <2>2, <2>3, <2>4, AccountBoundsAssumption
  <2> QED
    BY <1>2, <2>1, <2>3, <2>4, <2>5 DEF RowsCount, Gated
<1>13. CASE ClearAttempt(r)
  <2>0. PICK i \in Ips : i = call[r].ip
    BY <1>0, <1>13 DEF ClearAttempt, TypeInv, HandlerOK, CallOK
  <2>1. pc'[r] = "finish_login"
    BY <1>0, <1>13, ProceedLocal DEF ClearAttempt, Labels
  <2>2. /\ attempts'[i] = None /\ tried'[i] = 0
        /\ \A j \in Ips \ {i} : attempts'[j] = attempts[j] /\ tried'[j] = tried[j]
    BY <1>0, <1>13, <2>0 DEF ClearAttempt, TypeInv, TypeOK
  <2> QED
    BY <1>2, <2>1, <2>2 DEF RowsCount, Gated
<1>14. CASE (Verify(r) \/ CountAdmins(r)) /\ ~Done(r)
  <2>1. PICK l \in {"verify_again", "load_user", "write_user", "remove_user"} :
          Proceed(r, l)
    BY <1>14 DEF Verify, CountAdmins
  <2>2. l \in Labels
    BY DEF Labels
  <2>3. pc'[r] = l /\ call'[r] = call[r]
    BY <1>0, <2>1, <2>2, ProceedLocal
  <2>4. call[r].op # "login"
    BY <1>0, <1>14 DEF Verify, CountAdmins, TypeInv, HandlerOK
  <2> QED
    BY <1>2, <1>14, <2>3, <2>4 DEF Verify, CountAdmins, RowsCount, Gated, tables, history
<1>15. CASE Done(r) /\ ~WriteAttempt(r)
  <2>1. pc'[r] = "idle"
    BY <1>0, <1>15, DoneType
  <2>2. CASE attempts' = attempts /\ tried' = tried
    BY <1>5, <2>1, <2>2
  <2> QED
    BY <1>6, <1>7, <1>9, <1>11, <1>13, <1>15, <2>2
    DEF Step, StorageError, Gate, FinishLogin, WriteFailure, Verify,
        CountAdmins, WriteUser, RemoveUser, tables, history
<1> QED
  BY <1>6, <1>7, <1>8, <1>9, <1>10, <1>11, <1>12, <1>13, <1>14, <1>15
  DEF Step, StorageError, FinishLogin, WriteUser, RemoveUser

LEMMA ThrottleNext == ThrottleInv /\ [Next]_vars => ThrottleInv'
<1> SUFFICES ASSUME ThrottleInv, [Next]_vars PROVE ThrottleInv'
  OBVIOUS
<1>0. ThresholdInv /\ ThresholdInv' /\ TypeInv /\ TypeInv' /\ TriedCounted
  BY ThresholdNext DEF ThrottleInv, ThresholdInv
<1> SUFFICES TriedCounted'
  BY <1>0 DEF ThrottleInv
<1>1. ASSUME NEW r \in Requests, Step(r) PROVE TriedCounted'
  BY <1>1, ThrottleStep
<1>2. CASE Restart
  <2>1. (OneAtATime' => OneAtATime) /\ \A r \in Requests : pc'[r] = "idle"
    BY <1>0, <1>2, RestartType DEF OneAtATime
  <2> QED
    BY <1>0, <1>2, <2>1 DEF TriedCounted, Restart
<1>3. CASE Tick
  <2> SUFFICES ASSUME OneAtATime' PROVE RowsCount' /\ \A q \in Requests : Gated(q)'
    BY DEF TriedCounted, RowsCount, Gated
  <2>1. RowsCount /\ \A q \in Requests : Gated(q)
    BY <1>0, <1>3, TriedSplit DEF Tick, load, OneAtATime
  <2>2. ASSUME NEW i \in Ips
        PROVE  /\ attempts'[i] = None <=> attempts[i] = None
               /\ attempts[i] # None =>
                    /\ attempts'[i].failures = attempts[i].failures
                    /\ attempts'[i].blocked = attempts[i].blocked
    <3>1. attempts'[i] = Aged(attempts[i]) /\ attempts[i] \in Attempt \cup {None}
      BY <1>0, <1>3 DEF Tick, TypeInv, TypeOK
    <3>2. Aged(None) = None
      BY DEF Aged
    <3> QED
      BY <3>1, <3>2, AttemptTypes
  <2>3. RowsCount'
    BY <1>3, <2>1, <2>2 DEF RowsCount, Tick, history
  <2>4. ASSUME NEW q \in Requests PROVE Gated(q)'
    <3>1. pc'[q] = pc[q] /\ call'[q] = call[q] /\ tried' = tried
      BY <1>3 DEF Tick, history
    <3>2. pc[q] = "write_attempt" => loc'[q].attempt.failures = loc[q].attempt.failures
      <4>1. loc'[q].attempt = Aged(loc[q].attempt)
        BY <1>0, <1>3, TickType
      <4> QED
        BY <1>0, <4>1, AttemptTypes DEF TypeInv, HandlerOK
    <3>3. pc[q] # "idle" /\ call[q].op = "login" => call[q].ip \in Ips
      BY <1>0 DEF TypeInv, HandlerOK, CallOK
    <3> QED
      BY <2>1, <2>2, <3>1, <3>2, <3>3 DEF Gated
  <2> QED
    BY <2>3, <2>4
<1>4. CASE UNCHANGED vars
  BY <1>0, <1>4 DEF vars, tables, load, history, TriedCounted, OneAtATime
<1> QED
  BY <1>1, <1>2, <1>3, <1>4 DEF Next

\* An address never gets more failed logins than the threshold allows before
\* its row has run out, if requests are handled one at a time.
THEOREM ThrottleIsKept == Spec => []ThrottleHolds
<1>1. ThrottleInv => ThrottleHolds
  <2> SUFFICES ASSUME ThrottleInv, OneAtATime, NEW i \in Ips
               PROVE  tried[i] <= MaxFailures
    BY DEF ThrottleHolds
  <2>1. tried[i] \in 0..(MaxFailures + 1) /\ attempts[i] \in Attempt \cup {None}
    BY DEF ThrottleInv, ThresholdInv, TypeInv, TypeOK
  <2>2. attempts[i] # None => attempts[i].failures \in 0..MaxFailures
    BY <2>1 DEF Attempt
  <2> QED
    BY <2>1, <2>2, AccountBoundsAssumption DEF ThrottleInv, TriedCounted
<1> QED
  BY <1>1, ThrottleInit, ThrottleNext, PTL DEF Spec
-----------------------------------------------------------------------------
(* Accounts, one request at a time: the last admin *)

\* The parts of AdminsRemain: the table, and the handlers.
AdminTable == /\ panelOn => EnabledAdmins # {}
              /\ ~panelOn => \A u \in Users : users[u] = None

CopyExact(r) == pc[r] \in {"write_failure", "clear_attempt", "finish_login"}
                  => loc[r].user = users[Subject(call[r])]

AdminFrame(r) ==
  /\ pc[r] \in {"verify_again", "count_admins", "write_user", "remove_user"} => panelOn
  /\ pc[r] = "load_user" /\ call[r].op # "login" => panelOn
  /\ pc[r] = "write_user" => \/ loc[r].user.enabled
                             \/ EnabledAdmins \ {Subject(call[r])} # {}
  /\ pc[r] = "remove_user" => EnabledAdmins \ {Subject(call[r])} # {}
  /\ CopyExact(r)

LEMMA AdminSplit ==
  AdminsRemain <=> (OneAtATime => AdminTable /\ \A r \in Requests : AdminFrame(r))
  BY DEF AdminsRemain, AdminTable, AdminFrame, CopyExact

LEMMA AdminInit == Init => AdminInv
<1> SUFFICES ASSUME Init PROVE AdminInv
  OBVIOUS
<1>1. AdminTable
  <2>1. PICK p \in BootPasswords :
          users = [u \in Users |-> IF u = BootUser /\ p # None
                                   THEN BootRow(None, p) ELSE None]
    BY DEF Init
  <2>2. panelOn = (\E u \in Users : users[u] # None)
    BY DEF Init
  <2>3. CASE p = None
    BY <2>1, <2>2, <2>3 DEF AdminTable
  <2>4. CASE p # None
    <3>1. users[BootUser] \in UserRow /\ users[BootUser].enabled
      BY <2>1, <2>4, UserRowTypes, BootAssumption
    <3>2. users[BootUser] # None
      BY <3>1, UserRowTypes
    <3>3. BootUser \in EnabledAdmins /\ panelOn
      BY <2>2, <3>1, <3>2, BootAssumption DEF EnabledAdmins
    <3> QED
      BY <3>3 DEF AdminTable
  <2> QED
    BY <2>3, <2>4
<1>2. \A r \in Requests : AdminFrame(r)
  BY DEF Init, AdminFrame, CopyExact
<1> QED
  BY <1>1, <1>2, TypeInit, AdminSplit DEF AdminInv

\* If more than one is counted, one is left without any given user.
LEMMA AnotherOne ==
  ASSUME NEW S, NEW u, ~(Cardinality(S) <= 1)
  PROVE  S \ {u} # {}
<1> SUFFICES ASSUME S \ {u} = {} PROVE FALSE
  OBVIOUS
<1>1. S = {} \/ S = {u}
  OBVIOUS
<1>2. Cardinality({}) = 0 /\ Cardinality({u}) = 1
  BY FS_EmptySet, FS_Singleton
<1> QED
  BY <1>1, <1>2

\* The user row a handler holds has been read unchanged: writing it back
\* changes nothing.
LEMMA CopyBack ==
  ASSUME TypeInv, NEW r \in Requests, CopyExact(r), SetUser(r),
         pc[r] \in {"write_failure", "finish_login"}
  PROVE  users' = users
  BY DEF TypeInv, TypeOK, CopyExact, SetUser

LEMMA AdminStep ==
  ASSUME AdminInv, NEW r \in Requests, Step(r), OneAtATime'
  PROVE  AdminTable' /\ \A q \in Requests : AdminFrame(q)'
<1>0. TypeInv /\ TypeInv' /\ HandlerOK(r)
  BY StepType DEF AdminInv, TypeInv
<1>1. OneAtATime /\ \A q \in Requests \ {r} : pc'[q] = "idle"
  BY <1>0, OthersIdle
<1>2. AdminTable /\ AdminFrame(r)
  BY <1>1, AdminSplit DEF AdminInv
<1>3. SUFFICES AdminTable' /\ AdminFrame(r)'
  BY <1>1 DEF AdminFrame, CopyExact
<1>4. ASSUME users' = users, panelOn' = panelOn
      PROVE  AdminTable' /\ EnabledAdmins' = EnabledAdmins
  BY <1>2, <1>4 DEF AdminTable, EnabledAdmins
<1>5. ASSUME Done(r), users' = users, panelOn' = panelOn
      PROVE  AdminTable' /\ AdminFrame(r)'
  <2>1. pc'[r] = "idle"
    BY <1>0, <1>5, DoneType
  <2> QED
    BY <1>4, <1>5, <2>1 DEF AdminFrame, CopyExact
<1>6. CASE Start(r)
  <2>1. pc'[r] \in {"cleanup", "verify"} /\ users' = users /\ panelOn' = panelOn
    BY <1>0, <1>6, StartType DEF Start, tables
  <2> QED
    BY <1>4, <2>1 DEF AdminFrame, CopyExact
<1>7. CASE CleanupAttempts(r) \/ CountFailure(r) \/ (Gate(r) /\ ~Done(r))
  <2>1. users' = users /\ panelOn' = panelOn
    BY <1>7 DEF CleanupAttempts, CountFailure, Gate, tables
  <2>2. PICK l \in {"gate", "write_attempt", "load_user"} : Goto(r, l)
    BY <1>7 DEF CleanupAttempts, CountFailure, Gate, Proceed
  <2>3. l \in Labels /\ call[r].op = "login"
    BY <1>0, <1>7 DEF Labels, CleanupAttempts, CountFailure, Gate, HandlerOK
  <2>4. pc'[r] = l /\ call'[r] = call[r]
    BY <1>0, <2>2, <2>3, GotoLocal
  <2> QED
    BY <1>4, <2>1, <2>3, <2>4 DEF AdminFrame, CopyExact
<1>8. CASE ClearAttempt(r)
  <2>1. users' = users /\ panelOn' = panelOn /\ pc[r] = "clear_attempt"
    BY <1>8 DEF ClearAttempt
  <2>2. pc'[r] = "finish_login" /\ call'[r] = call[r] /\ loc'[r] = loc[r]
    BY <1>0, <1>8, ProceedLocal DEF ClearAttempt, Labels
  <2> QED
    BY <1>2, <1>4, <2>1, <2>2 DEF AdminFrame, CopyExact
<1>9. CASE WriteFailure(r)
  <2>1. users' = users /\ panelOn' = panelOn
    BY <1>0, <1>2, <1>9, CopyBack DEF WriteFailure, AdminFrame
  <2>2. CASE Done(r)
    BY <1>5, <2>1, <2>2
  <2>3. CASE Proceed(r, "count_failure")
    <3>1. pc'[r] = "count_failure"
      BY <1>0, <2>3, ProceedLocal DEF Labels
    <3> QED
      BY <1>4, <2>1, <3>1 DEF AdminFrame, CopyExact
  <2> QED
    BY <1>9, <2>2, <2>3 DEF WriteFailure
<1>10. CASE Verify(r) /\ ~Done(r)
  <2>1. users' = users /\ panelOn' = panelOn /\ panelOn
    BY <1>10 DEF Verify, tables, Valid
  <2>2. PICK l \in {"verify_again", "load_user"} : Proceed(r, l)
    BY <1>10 DEF Verify
  <2>3. pc'[r] = l
    BY <1>0, <2>2, ProceedLocal DEF Labels
  <2> QED
    BY <1>4, <2>1, <2>3 DEF AdminFrame, CopyExact
<1>11. CASE LoadUser(r)
  <2>1. users' = users /\ panelOn' = panelOn /\ pc[r] = "load_user"
    BY <1>11 DEF LoadUser, tables
  <2>2. LoadResult(r) /\ (pc'[r] = "idle" \/ call'[r] = call[r]) /\ CallOK(call[r])
    BY <1>0, <1>11, LoadUserResult
  <2>3. PICK u \in Users : u = Subject(call[r])
    BY <2>2, SubjectType
  <2>4. EnabledAdmins' = EnabledAdmins /\ AdminTable'
    BY <1>4, <2>1
  <2>5. CASE pc'[r] \in {"idle", "count_failure"}
    BY <2>4, <2>5 DEF AdminFrame, CopyExact
  <2>6. CASE pc'[r] \in {"write_failure", "clear_attempt"}
    <3>1. loc'[r].user = users[u] /\ call'[r] = call[r]
      BY <2>2, <2>3, <2>6 DEF LoadResult
    <3> QED
      BY <2>1, <2>3, <2>4, <2>6, <3>1 DEF AdminFrame, CopyExact
  <2>7. CASE pc'[r] \in {"count_admins", "write_user", "remove_user"}
    <3>1. call[r].op # "login" /\ call'[r] = call[r] /\ panelOn
      BY <1>2, <2>1, <2>2, <2>7 DEF LoadResult, AdminFrame
    <3>2. EnabledAdmins # {}
      BY <1>2, <3>1 DEF AdminTable
    <3>3. users[u] = None \/ ~users[u].enabled => EnabledAdmins \ {u} # {}
      BY <3>2 DEF EnabledAdmins
    <3>4. pc'[r] = "write_user" =>
            users[u] = None \/ ~users[u].enabled \/ loc'[r].user.enabled
      BY <2>2, <2>3 DEF LoadResult
    <3>5. pc'[r] = "remove_user" => ~users[u].enabled
      BY <2>2, <2>3 DEF LoadResult
    <3> QED
      BY <2>1, <2>3, <2>4, <2>7, <3>1, <3>3, <3>4, <3>5 DEF AdminFrame, CopyExact
  <2> QED
    BY <2>2, <2>5, <2>6, <2>7 DEF LoadResult
<1>12. CASE CountAdmins(r) /\ ~Done(r)
  <2>1. users' = users /\ panelOn' = panelOn /\ pc[r] = "count_admins" /\ panelOn
    BY <1>2, <1>12 DEF CountAdmins, tables, AdminFrame
  <2>2. PICK l \in {"remove_user", "write_user"} : Proceed(r, l)
    BY <1>12 DEF CountAdmins
  <2>3. pc'[r] = l /\ call'[r] = call[r]
    BY <1>0, <2>2, ProceedLocal DEF Labels
  <2>4. ~(Cardinality(EnabledAdmins) <= 1)
    BY <1>12 DEF CountAdmins
  <2>5. EnabledAdmins \ {Subject(call[r])} # {}
    BY <2>4, AnotherOne
  <2> QED
    BY <1>4, <2>1, <2>3, <2>5 DEF AdminFrame, CopyExact
<1>13. CASE FinishLogin(r)
  <2>1. users' = users /\ panelOn' = panelOn
    BY <1>0, <1>2, <1>13, CopyBack DEF FinishLogin, AdminFrame
  <2> QED
    BY <1>5, <1>13, <2>1 DEF FinishLogin
<1>14. CASE WriteUser(r)
  <2>0. PICK u \in Users : u = Subject(call[r])
    BY <1>0, <1>14, SubjectType DEF WriteUser, HandlerOK
  <2>1. panelOn /\ panelOn' = panelOn /\ pc'[r] = "idle" /\ loc[r].user \in UserRow
    BY <1>0, <1>2, <1>14, DoneType DEF WriteUser, AdminFrame, HandlerOK
  <2>2. users'[u] = loc[r].user /\ \A v \in Users \ {u} : users'[v] = users[v]
    BY <1>0, <1>14, <2>0 DEF WriteUser, SetUser, TypeInv, TypeOK
  <2>3. loc[r].user.enabled \/ EnabledAdmins \ {u} # {}
    BY <1>2, <1>14, <2>0 DEF WriteUser, AdminFrame
  <2>4. loc[r].user # None
    BY <2>1, UserRowTypes
  <2>5. EnabledAdmins' # {}
    BY <2>2, <2>3, <2>4 DEF EnabledAdmins
  <2> QED
    BY <2>1, <2>5 DEF AdminTable, AdminFrame, CopyExact
<1>15. CASE RemoveUser(r)
  <2>0. PICK u \in Users : u = call[r].user /\ u = Subject(call[r])
    BY <1>0, <1>15 DEF RemoveUser, HandlerOK, CallOK, Subject
  <2>1. panelOn /\ panelOn' = panelOn /\ pc'[r] = "idle"
    BY <1>0, <1>2, <1>15, DoneType DEF RemoveUser, AdminFrame
  <2>2. \A v \in Users \ {u} : users'[v] = users[v]
    BY <1>0, <1>15, <2>0 DEF RemoveUser, TypeInv, TypeOK
  <2>3. EnabledAdmins \ {u} # {}
    BY <1>2, <1>15, <2>0 DEF RemoveUser, AdminFrame
  <2>4. EnabledAdmins' # {}
    BY <2>2, <2>3 DEF EnabledAdmins
  <2> QED
    BY <2>1, <2>4 DEF AdminTable, AdminFrame, CopyExact
<1>16. CASE StorageError(r) \/ WriteAttempt(r) \/ (Gate(r) /\ Done(r))
            \/ (Verify(r) /\ Done(r)) \/ (CountAdmins(r) /\ Done(r))
  BY <1>5, <1>16 DEF StorageError, WriteAttempt, Gate, Verify, CountAdmins, tables
<1> QED
  BY <1>6, <1>7, <1>8, <1>9, <1>10, <1>11, <1>12, <1>13, <1>14, <1>15, <1>16 DEF Step

LEMMA AdminNext == AdminInv /\ [Next]_vars => AdminInv'
<1> SUFFICES ASSUME AdminInv, [Next]_vars PROVE AdminInv'
  OBVIOUS
<1>0. TypeInv /\ TypeInv' /\ AdminsRemain
  BY TypeNext DEF AdminInv
<1> SUFFICES ASSUME OneAtATime' PROVE AdminTable' /\ \A q \in Requests : AdminFrame(q)'
  BY <1>0 DEF AdminInv, AdminsRemain, AdminTable, AdminFrame, CopyExact
<1>1. ASSUME NEW r \in Requests, Step(r)
      PROVE  AdminTable' /\ \A q \in Requests : AdminFrame(q)'
  BY <1>1, AdminStep
<1>2. CASE Restart
  <2>1. AdminTable /\ \A r \in Requests : pc'[r] = "idle"
    BY <1>0, <1>2, RestartType, AdminSplit DEF OneAtATime
  <2>2. panelOn' = (\E u \in Users : users'[u] # None)
    BY <1>2 DEF Restart
  <2>3. PICK p \in BootPasswords :
          users' = IF p = None THEN users
                   ELSE [users EXCEPT ![BootUser] = BootRow(users[BootUser], p)]
    BY <1>2 DEF Restart
  <2>4. CASE p = None
    <3>1. users' = users /\ EnabledAdmins' = EnabledAdmins
      BY <2>3, <2>4 DEF EnabledAdmins
    <3>2. AdminTable'
      BY <2>1, <2>2, <3>1 DEF AdminTable
    <3> QED
      BY <2>1, <3>2 DEF AdminFrame, CopyExact
  <2>5. CASE p # None
    <3>1. users'[BootUser] = BootRow(users[BootUser], p) /\ users[BootUser] \in UserRow \cup {None}
      BY <1>0, <2>3, <2>5, BootAssumption DEF TypeInv, TypeOK
    <3>2. p \in Passwords
      BY <2>5, BootAssumption
    <3>3. users'[BootUser] \in UserRow /\ users'[BootUser].enabled
      <4>1. PICK old \in UserRow \cup {None} : users'[BootUser] = BootRow(old, p)
        BY <3>1
      <4>2. CASE old = None
        BY <3>2, <4>1, <4>2, UserRowTypes
      <4>3. CASE old \in UserRow
        <5>1. BootRow(old, p) \in UserRow /\ BootRow(old, p).enabled
          BY <3>2, <4>3, UserRowTypes
        <5> QED
          BY <4>1, <5>1
      <4> QED
        BY <4>2, <4>3
    <3>4. BootUser \in EnabledAdmins'
      BY <3>3, UserRowTypes, BootAssumption DEF EnabledAdmins
    <3>5. panelOn'
      BY <2>2, <3>3, UserRowTypes, BootAssumption
    <3> QED
      BY <2>1, <3>4, <3>5 DEF AdminTable, AdminFrame, CopyExact
  <2> QED
    BY <2>4, <2>5
<1>3. CASE Tick
  <2>1. /\ users' = users /\ panelOn' = panelOn /\ pc' = pc /\ call' = call
        /\ \A r \in Requests : loc'[r].user = loc[r].user
        /\ traffic' = traffic
    BY <1>0, <1>3, TickType DEF Tick, load
  <2>2. AdminTable /\ \A q \in Requests : AdminFrame(q)
    BY <1>0, <2>1, AdminSplit DEF OneAtATime
  <2>3. EnabledAdmins' = EnabledAdmins
    BY <2>1 DEF EnabledAdmins
  <2> QED
    BY <2>1, <2>2, <2>3 DEF AdminTable, AdminFrame, CopyExact
<1>4. CASE UNCHANGED vars
  <2>1. AdminTable /\ \A q \in Requests : AdminFrame(q)
    BY <1>0, <1>4, AdminSplit DEF OneAtATime, vars, load
  <2> QED
    BY <1>4, <2>1 DEF vars, tables, load, history, AdminTable, AdminFrame, CopyExact, EnabledAdmins
<1> QED
  BY <1>1, <1>2, <1>3, <1>4 DEF Next

\* A panel that is on always has an enabled admin, whatever restarts and
\* storage errors cut short, if requests are handled one at a time.  (The run
\* last_admin_race shows that two deletions at a time can remove both.)
THEOREM LastAdminStays == Spec => [](OneAtATime => LastAdminKept)
<1>1. AdminInv => (OneAtATime => LastAdminKept)
  BY DEF AdminInv, AdminsRemain, LastAdminKept
<1> QED
  BY <1>1, AdminInit, AdminNext, PTL DEF Spec
-----------------------------------------------------------------------------
(* Accounts, one request at a time: revoked sessions *)

\* The parts of VersionsFit: the table, and the handlers.
SessionTable ==
  /\ \A s \in sessions : s.life <= lives[s.user]
  /\ \A s \in sessions : s.life = lives[s.user] =>
       users[s.user] # None /\ s.ver <= users[s.user].ver
  /\ \A s \in revoked : s.life = lives[s.user] => s.ver < users[s.user].ver

SessionFrame(r) ==
  /\ (pc[r] = "write_user" \/ (pc[r] = "count_admins" /\ call[r].op = "update_user"))
       => VersionFits(r)
  /\ pc[r] = "write_user" /\ call[r].op = "change_password"
       => loc[r].bump /\ users[Subject(call[r])] # None
  /\ CopyExact(r)

LEMMA SessionSplit ==
  VersionsFit <=> (OneAtATime => SessionTable /\ \A r \in Requests : SessionFrame(r))
  BY DEF VersionsFit, SessionTable, SessionFrame, CopyExact

LEMMA SessionInit == Init => SessionInv
<1> SUFFICES ASSUME Init PROVE SessionInv
  OBVIOUS
<1>1. SessionTable /\ \A r \in Requests : SessionFrame(r)
  BY DEF Init, SessionTable, SessionFrame, CopyExact
<1> QED
  BY <1>1, TypeInit, SessionSplit DEF SessionInv

LEMMA SessionTableKept ==
  ASSUME SessionTable, UNCHANGED <<users, sessions, revoked, lives>>
  PROVE  SessionTable'
  BY DEF SessionTable

\* A row of u with a version no lower takes the place of one there is; the
\* sessions of u are revoked if the version is higher, and one with the new
\* version may be issued.
LEMMA NewVersion ==
  ASSUME DataOK, SessionTable, NEW u \in Users, NEW row \in UserRow, NEW b \in BOOLEAN,
         users[u] # None,
         users' = [users EXCEPT ![u] = row],
         row.ver = IF b THEN users[u].ver + 1 ELSE users[u].ver,
         revoked' = IF b THEN revoked \cup SessionsOf(u) ELSE revoked,
         sessions' \subseteq sessions \cup {[user |-> u, ver |-> row.ver, life |-> lives[u]]},
         lives' = lives
  PROVE  SessionTable'
<1>1. users[u] \in UserRow /\ users[u].ver \in Nat /\ row.ver \in Nat /\ row # None
  BY UserRowTypes DEF DataOK, UserRow
<1>2. users[u].ver <= row.ver /\ (b => users[u].ver < row.ver)
  BY <1>1
<1>3. users'[u] = row /\ \A v \in Users \ {u} : users'[v] = users[v]
  BY DEF DataOK
<1>4. PICK n : n = [user |-> u, ver |-> row.ver, life |-> lives[u]]
  OBVIOUS
<1>5. n.user = u /\ n.ver = row.ver /\ n.life = lives[u] /\ lives[u] \in Nat
  BY <1>4 DEF DataOK
<1>6. \A s \in sessions : s.user \in Users /\ s.ver \in Nat /\ s.life \in Nat
  BY DEF DataOK, Claims
<1>7. \A s \in sessions' : s.life <= lives'[s.user]
  BY <1>4, <1>5 DEF SessionTable
<1>8. ASSUME NEW s \in sessions', s.life = lives'[s.user]
      PROVE  users'[s.user] # None /\ s.ver <= users'[s.user].ver
  <2>1. CASE s = n
    BY <1>1, <1>3, <1>5, <2>1
  <2>2. CASE s \in sessions /\ s.user = u
    <3>1. s.ver <= users[u].ver
      BY <1>8, <2>2 DEF SessionTable
    <3> QED
      BY <1>1, <1>2, <1>3, <1>6, <2>2, <3>1
  <2>3. CASE s \in sessions /\ s.user # u
    BY <1>3, <1>6, <1>8, <2>3 DEF SessionTable
  <2> QED
    BY <1>4, <2>1, <2>2, <2>3
<1>9. ASSUME NEW s \in revoked', s.life = lives'[s.user]
      PROVE  s.ver < users'[s.user].ver
  <2>1. CASE s \in revoked /\ s.user = u
    <3>1. s.ver < users[u].ver /\ s \in sessions
      BY <1>9, <2>1 DEF SessionTable, DataOK
    <3> QED
      BY <1>1, <1>2, <1>3, <1>6, <2>1, <3>1
  <2>2. CASE s \in revoked /\ s.user # u
    <3>1. s \in sessions
      BY <2>2 DEF DataOK
    <3> QED
      BY <1>3, <1>6, <1>9, <2>2, <3>1 DEF SessionTable
  <2>3. CASE b /\ s \in SessionsOf(u)
    <3>1. s \in sessions /\ s.user = u
      BY <2>3 DEF SessionsOf
    <3>2. s.ver <= users[u].ver
      BY <1>9, <3>1 DEF SessionTable
    <3> QED
      BY <1>1, <1>2, <1>3, <1>6, <2>3, <3>1, <3>2
  <2> QED
    BY <2>1, <2>2, <2>3
<1> QED
  BY <1>7, <1>8, <1>9 DEF SessionTable

\* A new account has no session: those of its predecessors are of another life.
LEMMA NewAccount ==
  ASSUME DataOK, SessionTable, NEW u \in Users, NEW row \in UserRow, users[u] = None,
         users' = [users EXCEPT ![u] = row], UNCHANGED <<sessions, revoked, lives>>
  PROVE  SessionTable'
<1>1. \A v \in Users \ {u} : users'[v] = users[v]
  BY DEF DataOK
<1>2. \A s \in sessions : s.user \in Users /\ (s.life = lives[s.user] => s.user # u)
  BY DEF SessionTable, DataOK, Claims
<1>3. revoked \subseteq sessions
  BY DEF DataOK
<1> QED
  BY <1>1, <1>2, <1>3 DEF SessionTable

LEMMA SessionStep ==
  ASSUME SessionInv, NEW r \in Requests, Step(r), OneAtATime'
  PROVE  SessionTable' /\ \A q \in Requests : SessionFrame(q)'
<1>0. TypeInv /\ TypeInv' /\ HandlerOK(r) /\ DataOK
  BY StepType, TypeSplit DEF SessionInv, TypeInv
<1>1. OneAtATime /\ \A q \in Requests \ {r} : pc'[q] = "idle"
  BY <1>0, OthersIdle
<1>2. SessionTable /\ SessionFrame(r)
  BY <1>1, SessionSplit DEF SessionInv
<1>3. SUFFICES SessionTable' /\ SessionFrame(r)'
  BY <1>1 DEF SessionFrame, CopyExact
<1>4. ASSUME Done(r) PROVE SessionFrame(r)'
  BY <1>0, <1>4, DoneType DEF SessionFrame, CopyExact
<1>5. CASE Start(r)
  <2>1. pc'[r] \in {"cleanup", "verify"}
    BY <1>0, <1>5, StartType
  <2>2. SessionTable'
    BY <1>2, <1>5, SessionTableKept DEF Start, tables, history
  <2> QED
    BY <2>1, <2>2 DEF SessionFrame, CopyExact
<1>6. CASE \/ CleanupAttempts(r) \/ CountFailure(r) \/ (Gate(r) /\ ~Done(r))
           \/ (Verify(r) /\ ~Done(r))
  <2>1. SessionTable'
    BY <1>2, <1>6, SessionTableKept DEF CleanupAttempts, CountFailure, Gate, Verify, tables, history
  <2>2. PICK l \in {"gate", "write_attempt", "load_user", "verify_again"} : Goto(r, l)
    BY <1>6 DEF CleanupAttempts, CountFailure, Gate, Verify, Proceed
  <2>3. pc'[r] = l
    BY <1>0, <2>2, GotoLocal DEF Labels
  <2> QED
    BY <2>1, <2>3 DEF SessionFrame, CopyExact
<1>7. CASE ClearAttempt(r)
  <2>1. pc[r] = "clear_attempt" /\ users' = users
    BY <1>7 DEF ClearAttempt
  <2>2. pc'[r] = "finish_login" /\ call'[r] = call[r] /\ loc'[r] = loc[r]
    BY <1>0, <1>7, ProceedLocal DEF ClearAttempt, Labels
  <2>3. SessionTable'
    BY <1>2, <1>7, SessionTableKept DEF ClearAttempt
  <2> QED
    BY <1>2, <2>1, <2>2, <2>3 DEF SessionFrame, CopyExact
<1>8. CASE WriteFailure(r)
  <2>1. users' = users
    BY <1>0, <1>2, <1>8, CopyBack DEF WriteFailure, SessionFrame
  <2>2. SessionTable'
    BY <1>2, <1>8, <2>1, SessionTableKept DEF WriteFailure, history
  <2>3. CASE Done(r)
    BY <1>4, <2>2, <2>3
  <2>4. CASE Proceed(r, "count_failure")
    <3>1. pc'[r] = "count_failure"
      BY <1>0, <2>4, ProceedLocal DEF Labels
    <3> QED
      BY <2>2, <3>1 DEF SessionFrame, CopyExact
  <2> QED
    BY <1>8, <2>3, <2>4 DEF WriteFailure
<1>9. CASE LoadUser(r)
  <2>1. users' = users
    BY <1>9 DEF LoadUser, tables
  <2>2. LoadResult(r) /\ (pc'[r] = "idle" \/ call'[r] = call[r]) /\ None \notin UserRow
    BY <1>0, <1>9, LoadUserResult, UserRowTypes
  <2>3. SessionTable'
    BY <1>2, <1>9, SessionTableKept DEF LoadUser, tables, history
  <2>4. CopyExact(r)'
    BY <2>1, <2>2 DEF LoadResult, CopyExact
  <2>5. pc'[r] = "write_user" /\ call'[r].op = "change_password"
          => loc'[r].bump /\ users'[Subject(call'[r])] # None
    BY <2>1, <2>2 DEF LoadResult
  <2>6. (pc'[r] = "write_user" \/ (pc'[r] = "count_admins" /\ call'[r].op = "update_user"))
          => VersionFits(r)'
    BY <2>1, <2>2 DEF LoadResult, VersionFits
  <2> QED
    BY <2>3, <2>4, <2>5, <2>6 DEF SessionFrame
<1>10. CASE CountAdmins(r) /\ ~Done(r)
  <2>1. PICK l \in {"remove_user", "write_user"} :
          Proceed(r, l) /\ (l = "remove_user" <=> call[r].op = "delete_user")
    BY <1>10 DEF CountAdmins
  <2>2. pc'[r] = l /\ call'[r] = call[r] /\ loc'[r] = loc[r]
    BY <1>0, <2>1, ProceedLocal DEF Labels
  <2>3. users' = users /\ call[r].op \in {"update_user", "delete_user"} /\ pc[r] = "count_admins"
    BY <1>0, <1>10 DEF CountAdmins, tables, HandlerOK
  <2>4. SessionTable'
    BY <1>2, <1>10, SessionTableKept DEF CountAdmins, tables, history
  <2>5. VersionFits(r)' = VersionFits(r)
    BY <2>2, <2>3 DEF VersionFits
  <2> QED
    BY <1>2, <2>1, <2>2, <2>3, <2>4, <2>5 DEF SessionFrame, CopyExact
<1>11. CASE FinishLogin(r)
  <2>0. PICK u \in Users : u = Subject(call[r])
    BY <1>0, <1>11, SubjectType DEF FinishLogin, HandlerOK
  <2>1. users' = users
    BY <1>0, <1>2, <1>11, CopyBack DEF FinishLogin, SessionFrame
  <2>2. loc[r].user \in UserRow /\ loc[r].user = users[u] /\ users[u] # None
    BY <1>0, <1>2, <1>11, <2>0, UserRowTypes DEF FinishLogin, HandlerOK, SessionFrame, CopyExact
  <2>3. users' = [users EXCEPT ![u] = users[u]]
    BY <1>0, <2>0, <2>1 DEF DataOK
  <2>4. sessions' \subseteq sessions \cup {[user |-> u, ver |-> users[u].ver, life |-> lives[u]]}
    BY <1>11, <2>0, <2>2 DEF FinishLogin, NewSession
  <2>5. revoked' = revoked /\ lives' = lives
    BY <1>11 DEF FinishLogin, history
  <2>6. SessionTable'
    BY <1>0, <1>2, <2>2, <2>3, <2>4, <2>5, NewVersion
  <2> QED
    BY <1>4, <1>11, <2>6 DEF FinishLogin
<1>12. CASE WriteUser(r)
  <2>0. PICK u \in Users : u = Subject(call[r])
    BY <1>0, <1>12, SubjectType DEF WriteUser, HandlerOK
  <2>1. PICK row \in UserRow : row = loc[r].user
    BY <1>0, <1>12 DEF WriteUser, HandlerOK
  <2>2. PICK b \in BOOLEAN : b <=> loc[r].bump
    BY <1>0 DEF TypeInv, TypeOK, Locals
  <2>3. /\ users' = [users EXCEPT ![u] = row]
        /\ revoked' = IF b THEN revoked \cup SessionsOf(u) ELSE revoked
        /\ lives' = lives
    BY <1>12, <2>0, <2>1, <2>2 DEF WriteUser, SetUser
  <2>v. VersionFits(r)
    BY <1>2, <1>12 DEF WriteUser, SessionFrame
  <2>4. CASE users[u] = None
    <3>1. ~b /\ call[r].op # "change_password"
      BY <2>0, <2>2, <2>4, <2>v DEF VersionFits
    <3>2. UNCHANGED <<sessions, revoked, lives>>
      BY <1>12, <2>3, <3>1 DEF WriteUser
    <3>3. SessionTable'
      BY <1>0, <1>2, <2>3, <2>4, <3>2, NewAccount
    <3> QED
      BY <1>4, <1>12, <3>3 DEF WriteUser
  <2>5. CASE users[u] # None
    <3>1. row.ver = IF b THEN users[u].ver + 1 ELSE users[u].ver
      BY <2>0, <2>1, <2>2, <2>5, <2>v DEF VersionFits
    <3>2. sessions' \subseteq sessions \cup {[user |-> u, ver |-> row.ver, life |-> lives[u]]}
      BY <1>12, <2>0, <2>1 DEF WriteUser, NewSession
    <3>3. SessionTable'
      BY <1>0, <1>2, <2>3, <2>5, <3>1, <3>2, NewVersion
    <3> QED
      BY <1>4, <1>12, <3>3 DEF WriteUser
  <2> QED
    BY <2>4, <2>5
<1>13. CASE RemoveUser(r)
  <2>0. PICK u \in Users : u = call[r].user
    BY <1>0, <1>13 DEF RemoveUser, HandlerOK, CallOK
  <2>1. /\ lives'[u] = lives[u] + 1 /\ lives[u] \in Nat
        /\ \A v \in Users \ {u} : lives'[v] = lives[v] /\ users'[v] = users[v]
    BY <1>0, <1>13, <2>0 DEF RemoveUser, DataOK
  <2>2. sessions' = sessions /\ revoked' = revoked /\ revoked \subseteq sessions
    BY <1>0, <1>13 DEF RemoveUser, DataOK
  <2>3. \A s \in sessions : s.user \in Users /\ s.life \in Nat /\ s.ver \in Nat
    BY <1>0 DEF DataOK, Claims
  <2>4. \A s \in sessions : s.life <= lives'[s.user] /\ (s.life = lives'[s.user] => s.user # u)
    <3> SUFFICES ASSUME NEW s \in sessions
                 PROVE  s.life <= lives'[s.user] /\ (s.life = lives'[s.user] => s.user # u)
      OBVIOUS
    <3>1. s.life <= lives[s.user]
      BY <1>2 DEF SessionTable
    <3>2. CASE s.user = u
      BY <2>1, <2>3, <3>1, <3>2
    <3>3. CASE s.user # u
      BY <2>1, <2>3, <3>1, <3>3
    <3> QED
      BY <3>2, <3>3
  <2>5. SessionTable'
    BY <1>2, <2>1, <2>2, <2>3, <2>4 DEF SessionTable
  <2> QED
    BY <1>4, <1>13, <2>5 DEF RemoveUser
<1>14. CASE StorageError(r) \/ WriteAttempt(r) \/ (Gate(r) /\ Done(r))
            \/ (Verify(r) /\ Done(r)) \/ (CountAdmins(r) /\ Done(r))
  <2>1. Done(r)
    BY <1>14 DEF StorageError, WriteAttempt
  <2>2. SessionTable'
    BY <1>2, <1>14, SessionTableKept
    DEF StorageError, WriteAttempt, Gate, Verify, CountAdmins, tables, history
  <2> QED
    BY <1>4, <2>1, <2>2
<1> QED
  BY <1>5, <1>6, <1>7, <1>8, <1>9, <1>10, <1>11, <1>12, <1>13, <1>14 DEF Step

LEMMA SessionRestart ==
  ASSUME SessionInv, Restart, OneAtATime
  PROVE  SessionTable'
<1>0. TypeInv /\ DataOK /\ SessionTable
  BY TypeSplit, SessionSplit DEF SessionInv, TypeInv
<1>1. PICK p \in BootPasswords :
        /\ users' = IF p = None THEN users
                    ELSE [users EXCEPT ![BootUser] = BootRow(users[BootUser], p)]
        /\ IF SecretPersists
           THEN /\ revoked' = IF p # None /\ users[BootUser] # None
                                    /\ users[BootUser].password # p
                              THEN revoked \cup SessionsOf(BootUser) ELSE revoked
                /\ UNCHANGED sessions
           ELSE sessions' = {} /\ revoked' = {}
  BY DEF Restart
<1>2. lives' = lives /\ BootUser \in Users /\ users[BootUser] \in UserRow \cup {None}
  BY <1>0, BootAssumption DEF Restart, DataOK
<1>3. CASE ~SecretPersists
  BY <1>1, <1>3 DEF SessionTable
<1>4. CASE SecretPersists /\ p = None
  BY <1>0, <1>1, <1>2, <1>4, SessionTableKept
<1>5. CASE SecretPersists /\ p # None
  <2>1. p \in Passwords /\ sessions' = sessions
    BY <1>1, <1>5, BootAssumption
  <2>2. PICK row : row = BootRow(users[BootUser], p)
    OBVIOUS
  <2>3. users' = [users EXCEPT ![BootUser] = row]
    BY <1>1, <1>5, <2>2
  <2>4. CASE users[BootUser] = None
    <3>1. row \in UserRow /\ revoked' = revoked
      BY <1>1, <1>5, <2>1, <2>2, <2>4, UserRowTypes
    <3> QED
      BY <1>0, <1>2, <2>1, <2>3, <2>4, <3>1, NewAccount
  <2>5. CASE users[BootUser] # None
    <3>1. PICK old \in UserRow : old = users[BootUser]
      BY <1>2, <2>5
    <3>2. BootRow(old, p) \in UserRow
          /\ BootRow(old, p).ver = IF old.password = p THEN old.ver ELSE old.ver + 1
      BY <2>1, UserRowTypes
    <3>3. PICK b \in BOOLEAN : b <=> old.password # p
      OBVIOUS
    <3>4. row \in UserRow /\ row.ver = IF b THEN users[BootUser].ver + 1 ELSE users[BootUser].ver
      BY <2>2, <3>1, <3>2, <3>3
    <3>5. revoked' = IF b THEN revoked \cup SessionsOf(BootUser) ELSE revoked
      BY <1>1, <1>5, <2>5, <3>1, <3>3
    <3> QED
      BY <1>0, <1>2, <2>1, <2>3, <2>5, <3>4, <3>5, NewVersion
  <2> QED
    BY <2>4, <2>5
<1> QED
  BY <1>3, <1>4, <1>5

LEMMA SessionNext == SessionInv /\ [Next]_vars => SessionInv'
<1> SUFFICES ASSUME SessionInv, [Next]_vars PROVE SessionInv'
  OBVIOUS
<1>0. TypeInv /\ TypeInv' /\ VersionsFit
  BY TypeNext DEF SessionInv
<1> SUFFICES ASSUME OneAtATime' PROVE SessionTable' /\ \A q \in Requests : SessionFrame(q)'
  BY <1>0 DEF SessionInv, VersionsFit, SessionTable, SessionFrame, CopyExact
<1>1. ASSUME NEW r \in Requests, Step(r)
      PROVE  SessionTable' /\ \A q \in Requests : SessionFrame(q)'
  BY <1>1, SessionStep
<1>2. CASE Restart
  <2>1. OneAtATime /\ \A r \in Requests : pc'[r] = "idle"
    BY <1>0, <1>2, RestartType DEF OneAtATime
  <2> QED
    BY <1>2, <2>1, SessionRestart DEF SessionFrame, CopyExact
<1>3. CASE Tick
  <2>1. /\ users' = users /\ pc' = pc /\ call' = call
        /\ sessions' = sessions /\ revoked' = revoked /\ lives' = lives
        /\ \A r \in Requests : loc'[r].user = loc[r].user /\ loc'[r].bump = loc[r].bump
        /\ traffic' = traffic
    BY <1>0, <1>3, TickType DEF Tick, load, history
  <2>2. SessionTable /\ \A q \in Requests : SessionFrame(q)
    BY <1>0, <2>1, SessionSplit DEF OneAtATime
  <2>3. SessionTable'
    BY <2>1, <2>2, SessionTableKept
  <2>4. ASSUME NEW q \in Requests PROVE SessionFrame(q)'
    <3>1. VersionFits(q)' <=> VersionFits(q)
      BY <2>1 DEF VersionFits
    <3> QED
      BY <2>1, <2>2, <3>1 DEF SessionFrame, CopyExact
  <2> QED
    BY <2>3, <2>4
<1>4. CASE UNCHANGED vars
  <2>1. SessionTable /\ \A q \in Requests : SessionFrame(q)
    BY <1>0, <1>4, SessionSplit DEF OneAtATime, vars, load
  <2> QED
    BY <1>4, <2>1 DEF vars, tables, load, history, SessionTable, SessionFrame, CopyExact, VersionFits
<1> QED
  BY <1>1, <1>2, <1>3, <1>4 DEF Next

\* A session issued before its user's version was incremented is never
\* accepted again while the account lives, over restarts and storage errors,
\* if requests are handled one at a time.  (The run stale_login shows that a
\* login under way during a password change writes the old row back.)
THEOREM RevokedSessionsStay == Spec => [](OneAtATime => RevokedStaysRevoked)
<1>1. SessionInv => (OneAtATime => RevokedStaysRevoked)
  <2> SUFFICES ASSUME SessionInv, OneAtATime, NEW s \in revoked, s.life = lives[s.user]
               PROVE  ~Valid(s)
    BY DEF RevokedStaysRevoked
  <2>1. s \in Claims /\ users[s.user] \in UserRow \cup {None}
    BY DEF SessionInv, TypeInv, TypeOK, Claims
  <2>2. s.ver < users[s.user].ver /\ s.ver \in Nat
    BY <2>1 DEF SessionInv, VersionsFit, Claims
  <2>3. users[s.user] # None => users[s.user].ver \in Nat
    BY <2>1 DEF UserRow
  <2> QED
    BY <2>2, <2>3 DEF Valid
<1> QED
  BY <1>1, SessionInit, SessionNext, PTL DEF Spec
=============================================================================
