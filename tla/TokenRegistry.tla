---------------------------- MODULE TokenRegistry ----------------------------
(***************************************************************************)
(* API tokens and devices: the token checks of every sync request (api.rs) *)
(* and the admin handlers that create, change, rotate, delete and link     *)
(* tokens and devices (panel.rs), over TOKEN_TABLE, TOKEN_HASH_TABLE and   *)
(* DEVICE_TABLE (db.rs).                                                   *)
(*                                                                         *)
(* One action is one redb transaction of one handler, with the code up to  *)
(* the handler's next transaction.  Handlers keep copies of rows between   *)
(* transactions and write whole rows back.                                 *)
(*                                                                         *)
(* Secrets are numbered in the order they are minted; the number stands    *)
(* for the secret and for its hash.  Identifiers are UUIDs and are never   *)
(* handed out twice.                                                       *)
(***************************************************************************)
EXTENDS Naturals

CONSTANTS
  Tokens,       \* token ids
  Devices,      \* device ids
  Requests,     \* handlers that may be in flight at the same time
  Ops,          \* the endpoints that clients and admins call
  MaxCalls,     \* bounds on the requests accepted in a behaviour, one for
                \* each kind of overlap that may occur
  MaxTime,      \* bound on the clock
  MayFail,      \* redb calls may return an error, the process may crash
  None,         \* a missing row, no link
  Keep          \* a field the request body leaves out

AllOps == {"sync", "create_token", "update_token", "rotate_token",
           "delete_token", "create_device", "update_device", "delete_device"}

ASSUME TokenOpsAssumption == Ops \subseteq AllOps
\* Which requests are in flight together: any; one admin request beside sync
\* requests; or an admin request only by itself.
Overlaps == {"any", "one_admin", "admin_alone"}

ASSUME TokenBoundsAssumption ==
  /\ DOMAIN MaxCalls \subseteq Overlaps /\ \A o \in DOMAIN MaxCalls : MaxCalls[o] \in Nat
  /\ MaxTime \in Nat
ASSUME TokenSwitchAssumption == MayFail \in BOOLEAN
ASSUME TokenNoneAssumption ==
  /\ None \notin Tokens \cup Devices /\ Keep \notin Tokens \cup Devices
  /\ Keep # None /\ Keep \notin BOOLEAN \cup Nat

VARIABLES
  overlap,    \* the overlap that this behaviour allows
  tokens,     \* TOKEN_TABLE
  hashes,     \* TOKEN_HASH_TABLE, as a set of pairs <<hash, token id>>
  devices,    \* DEVICE_TABLE
  ids,        \* identifiers handed out
  minted,     \* history: every <<secret, token id>> ever minted
  lastSecret, \* secrets minted so far
  now,        \* the wall clock
  calls,      \* requests accepted so far
  pc,         \* the next transaction of each handler
  call,       \* the request each handler serves
  loc,        \* the handler's local values
  retired,    \* history: secrets a rotation or a deletion took out of use
  observed    \* history: admissions and refusals the server recorded

tables == <<tokens, hashes, devices>>
mint == <<ids, minted, lastSecret>>
history == <<retired, observed>>
load == <<overlap, calls>>
vars == <<load, tables, mint, now, pc, call, loc, history>>

-----------------------------------------------------------------------------
(* Rows, requests and local values *)

Expiries == 0..MaxTime   \* expires_at; 0 stands for a token without expiry

TokenRow == [hash : Nat, enabled : BOOLEAN, expires : Nat,
             device : Devices \cup {None}, uses : Nat, fails : Nat]

\* A device row, as far as other rows refer to it: token_id.
DeviceRow == [token : Tokens \cup {None}]

ASSUME TokenRowsAssumption == None \notin TokenRow \cup DeviceRow

\* ensure_token_active and token_expired.
Active(row) == row.enabled /\ ~(row.expires # 0 /\ row.expires <= now)

\* The bodies of the endpoints.  A create call's own id is freshly minted.
\* `late' is history: the secret was out of use before the request came.
SyncCall == {[op |-> "sync", secret |-> s, scoped |-> b, late |-> s \in retired] :
               s \in 1..lastSecret, b \in BOOLEAN}
CreateTokenCall == [op : {"create_token"}, token : Tokens \ ids,
                    device : Devices \cup {None}, expires : Expiries]
UpdateTokenCall == [op : {"update_token"}, token : Tokens \cap ids,
                    device : Devices \cup {None, Keep},
                    enabled : BOOLEAN \cup {Keep},
                    expires : Expiries \cup {Keep}]
TokenCall == [op : {"rotate_token", "delete_token"}, token : Tokens \cap ids]
CreateDeviceCall == [op : {"create_device"}, device : Devices \ ids,
                     token : (Tokens \cap ids) \cup {None}]
UpdateDeviceCall == [op : {"update_device"}, device : Devices \cap ids,
                     token : (Tokens \cap ids) \cup {None, Keep}]
DeviceCall == [op : {"delete_device"}, device : Devices \cap ids]

Calls == SyncCall \cup CreateTokenCall \cup UpdateTokenCall \cup TokenCall
           \cup CreateDeviceCall \cup UpdateDeviceCall \cup DeviceCall

\* `token' is the id a secret led to, `row' the copy of a token row, `old'
\* the token a device was linked to, `listed' the devices still to unlink.
Locals == [token : Tokens \cup {None}, row : TokenRow \cup {None},
           old : Tokens \cup {None}, listed : SUBSET Devices]
NoLocals == [token |-> None, row |-> None, old |-> None, listed |-> {}]

FirstStep(c) ==
  CASE c.op = "sync"          -> "lookup"
    [] c.op = "create_token"  -> IF c.device = None THEN "create_token"
                                 ELSE "check_device"
    [] c.op \in {"update_token", "rotate_token"} -> "load_token"
    [] c.op = "delete_token"  -> "list_devices"
    [] c.op = "create_device" -> IF c.token = None THEN "set_device"
                                 ELSE "check_token"
    [] c.op \in {"update_device", "delete_device"} -> "load_device"

Labels == {"idle", "lookup", "load_by_id", "record_usage", "record_failure",
           "load_token", "check_device", "load_old_device", "unlink_device",
           "load_new_device", "link_device", "create_token", "set_token",
           "list_devices", "unlink_listed", "delete_token", "check_token",
           "load_device", "set_device", "load_old_token", "unlink_token",
           "load_new_token", "link_token", "delete_device"}

Goto(r, label) == pc' = [pc EXCEPT ![r] = label] /\ UNCHANGED call

\* The handler answers, with success or an error, and its frame is gone.
Done(r) ==
  /\ pc' = [pc EXCEPT ![r] = "idle"]
  /\ call' = [call EXCEPT ![r] = None]
  /\ loc' = [loc EXCEPT ![r] = NoLocals]

Proceed(r, label) == Goto(r, label) /\ UNCHANGED loc

KeepToken(r, t) == loc' = [loc EXCEPT ![r].token = t]
KeepRow(r, row) == loc' = [loc EXCEPT ![r].row = row]
KeepOld(r, t) == loc' = [loc EXCEPT ![r].old = t]
KeepListed(r, S) == loc' = [loc EXCEPT ![r].listed = S]

Init ==
  /\ overlap \in DOMAIN MaxCalls
  /\ tokens = [t \in Tokens |-> None]
  /\ hashes = {}
  /\ devices = [d \in Devices |-> None]
  /\ ids = {} /\ minted = {} /\ lastSecret = 0
  /\ now = 0 /\ calls = 0
  /\ pc = [r \in Requests |-> "idle"]
  /\ call = [r \in Requests |-> None]
  /\ loc = [r \in Requests |-> NoLocals]
  /\ retired = {}
  /\ observed = [t \in Tokens |-> [uses |-> 0, fails |-> 0]]

\* Whether a request may begin while another is in flight.
MayOverlap(c, d) ==
  CASE overlap = "any"         -> TRUE
    [] overlap = "one_admin"   -> c.op = "sync" \/ d.op = "sync"
    [] overlap = "admin_alone" -> c.op = "sync" /\ d.op = "sync"

\* A request arrives and passes the checks that need no table: headers, the
\* admin session, the free disk space.  One that fails them changes nothing.
Start(r) ==
  /\ pc[r] = "idle" /\ calls < MaxCalls[overlap]
  /\ \E c \in Calls :
       /\ c.op \in Ops
       /\ \A q \in Requests : pc[q] # "idle" => MayOverlap(c, call[q])
       /\ call' = [call EXCEPT ![r] = c]
       /\ pc' = [pc EXCEPT ![r] = FirstStep(c)]
       /\ ids' = CASE c.op = "create_token"  -> ids \cup {c.token}
                   [] c.op = "create_device" -> ids \cup {c.device}
                   [] OTHER -> ids
  /\ calls' = calls + 1
  /\ UNCHANGED <<overlap, tables, minted, lastSecret, now, loc, history>>

-----------------------------------------------------------------------------
(* Transactions that write a token row *)

Unindexed(t) ==
  IF tokens[t] = None THEN hashes ELSE {e \in hashes : e[1] # tokens[t].hash}

Retire(t, S) ==
  retired' = IF tokens[t] = None THEN retired
             ELSE retired \cup ({tokens[t].hash} \ S)

\* Mutant: leaves the replaced hash in the index.
SetTokenKeepsHash(t, row) ==
  /\ tokens' = [tokens EXCEPT ![t] = row]
  /\ hashes' = {e \in hashes : e[1] # row.hash} \cup {<<row.hash, t>>}
  /\ Retire(t, {row.hash})

\* Replaces the row whatever it was, and its entry in the hash index.
SetToken(t, row) ==
  /\ tokens' = [tokens EXCEPT ![t] = row]
  /\ hashes' = {e \in Unindexed(t) : e[1] # row.hash} \cup {<<row.hash, t>>}
  /\ Retire(t, {row.hash})

MintSecret(t) ==
  /\ lastSecret' = lastSecret + 1
  /\ minted' = minted \cup {<<lastSecret + 1, t>>}
  /\ UNCHANGED ids

-----------------------------------------------------------------------------
(* Sync requests: extract_auth and the token checks that follow *)

\* get_token_by_hash reads the index and then, in a transaction of its own,
\* the row of the id it found.
LookupSecret(r) ==
  /\ pc[r] = "lookup"
  /\ IF \E t \in Tokens : <<call[r].secret, t>> \in hashes
     THEN /\ \E t \in Tokens : <<call[r].secret, t>> \in hashes /\ KeepToken(r, t)
          /\ Goto(r, "load_by_id")
     ELSE Done(r)
  /\ UNCHANGED <<tables, mint, now, load, history>>

\* A usage update is due at once for a token never used before, and always
\* when the write interval is zero; otherwise it may be due.
UsageDue(row) == row.uses = 0

LoadBySecret(r) ==
  LET row == tokens[loc[r].token] IN
  /\ pc[r] = "load_by_id"
  /\ \/ row = None /\ Done(r)
     \/ /\ row # None /\ ~(Active(row) /\ call[r].scoped)
        /\ Proceed(r, "record_failure")
     \/ /\ row # None /\ Active(row) /\ call[r].scoped
        /\ Proceed(r, "record_usage")
     \/ /\ row # None /\ Active(row) /\ call[r].scoped /\ ~UsageDue(row)
        /\ Done(r)
  /\ UNCHANGED <<tables, mint, now, load, history>>

\* record_token_usage links the token's device back if nothing else is linked.
TakeDevice(t, d) ==
  devices' = IF d # None /\ devices[d] # None /\ devices[d].token = None
             THEN [devices EXCEPT ![d].token = t] ELSE devices

\* Mutant: sets the counter where it should increment it.
CountUseOnce(row) == [row EXCEPT !.uses = 1]

CountUse(row) == [row EXCEPT !.uses = @ + 1]

RecordUsage(r) ==
  LET t == loc[r].token IN
  /\ pc[r] = "record_usage"
  /\ IF tokens[t] = None THEN UNCHANGED <<tokens, devices>>
     ELSE /\ tokens' = [tokens EXCEPT ![t] = CountUse(@)]
          /\ TakeDevice(t, tokens[t].device)
  /\ observed' = [observed EXCEPT ![t].uses = @ + 1]
  /\ Done(r)
  /\ UNCHANGED <<hashes, mint, now, load, retired>>

RecordFailure(r) ==
  LET t == loc[r].token IN
  /\ pc[r] = "record_failure"
  /\ tokens' = IF tokens[t] = None THEN tokens
               ELSE [tokens EXCEPT ![t].fails = @ + 1]
  /\ observed' = [observed EXCEPT ![t].fails = @ + 1]
  /\ Done(r)
  /\ UNCHANGED <<hashes, devices, mint, now, load, retired>>

-----------------------------------------------------------------------------
(* Token administration *)

\* The row admin_update_token will write, but for the device link.
Edited(row, c) ==
  [row EXCEPT !.enabled = IF c.enabled = Keep THEN @ ELSE c.enabled,
              !.expires = IF c.expires = Keep THEN @ ELSE c.expires]

\* After the requested device was found, or none was asked for: unlink the
\* old device, link the new one, or go straight to the token row.
RelinkStep(old, new) ==
  IF old = new THEN "set_token"
  ELSE IF old = None THEN "load_new_device" ELSE "load_old_device"

\* Mutant: rotation also brings a disabled token back.
RotatedRowEnabled(row, secret) == [row EXCEPT !.hash = secret, !.enabled = TRUE]

RotatedRow(row, secret) == [row EXCEPT !.hash = secret]

LoadToken(r) ==
  LET c == call[r]
      row == tokens[c.token] IN
  /\ pc[r] = "load_token"
  /\ \/ row = None /\ Done(r) /\ UNCHANGED mint
     \/ /\ row # None /\ c.op = "rotate_token"
        /\ KeepRow(r, RotatedRow(row, lastSecret + 1))
        /\ MintSecret(c.token)
        /\ Goto(r, "set_token")
     \/ /\ row # None /\ c.op = "update_token"
        /\ KeepRow(r, Edited(row, c))
        /\ Goto(r, CASE c.device = Keep -> "set_token"
                     [] c.device = None -> RelinkStep(row.device, None)
                     [] OTHER           -> "check_device")
        /\ UNCHANGED mint
  /\ UNCHANGED <<tables, now, load, history>>

\* Creating and updating a token refuse a device that is not there.
CheckDevice(r) ==
  /\ pc[r] = "check_device"
  /\ \/ devices[call[r].device] = None /\ Done(r)
     \/ /\ devices[call[r].device] # None /\ call[r].op = "create_token"
        /\ Proceed(r, "create_token")
     \/ /\ devices[call[r].device] # None /\ call[r].op = "update_token"
        /\ Proceed(r, RelinkStep(loc[r].row.device, call[r].device))
  /\ UNCHANGED <<tables, mint, now, load, history>>

\* A new token is enabled; its device is linked in later transactions.
CreateToken(r) ==
  LET c == call[r] IN
  /\ pc[r] = "create_token"
  /\ SetToken(c.token, [hash |-> lastSecret + 1, enabled |-> TRUE,
                        expires |-> c.expires, device |-> c.device,
                        uses |-> 0, fails |-> 0])
  /\ MintSecret(c.token)
  /\ IF c.device = None THEN Done(r) ELSE Proceed(r, "load_new_device")
  /\ UNCHANGED <<devices, now, load, observed>>

AfterUnlink(r) == IF call[r].device = None THEN "set_token" ELSE "load_new_device"

LoadOldDevice(r) ==
  LET d == loc[r].row.device IN
  /\ pc[r] = "load_old_device"
  /\ IF devices[d] # None /\ devices[d].token = call[r].token
     THEN Proceed(r, "unlink_device")
     ELSE Proceed(r, AfterUnlink(r))
  /\ UNCHANGED <<tables, mint, now, load, history>>

SetDeviceLink(d, t) == devices' = [devices EXCEPT ![d] = [token |-> t]]

UnlinkDevice(r) ==
  /\ pc[r] = "unlink_device"
  /\ SetDeviceLink(loc[r].row.device, None)
  /\ Proceed(r, AfterUnlink(r))
  /\ UNCHANGED <<tokens, hashes, mint, now, load, history>>

\* The last write of admin_create_token is the device, that of
\* admin_update_token the token.
AfterLink(r) ==
  IF call[r].op = "create_token" THEN Done(r) ELSE Proceed(r, "set_token")

LoadNewDevice(r) ==
  /\ pc[r] = "load_new_device"
  /\ IF devices[call[r].device] = None THEN AfterLink(r)
     ELSE Proceed(r, "link_device")
  /\ UNCHANGED <<tables, mint, now, load, history>>

LinkDevice(r) ==
  /\ pc[r] = "link_device"
  /\ SetDeviceLink(call[r].device, call[r].token)
  /\ AfterLink(r)
  /\ UNCHANGED <<tokens, hashes, mint, now, load, history>>

\* The row read in the handler's first transaction is written back, edited.
WriteToken(r) ==
  LET c == call[r] IN
  /\ pc[r] = "set_token"
  /\ SetToken(c.token, IF c.op = "update_token" /\ c.device # Keep
                       THEN [loc[r].row EXCEPT !.device = c.device]
                       ELSE loc[r].row)
  /\ Done(r)
  /\ UNCHANGED <<devices, mint, now, load, observed>>

\* Mutant: finds no device to unlink.
LinkedToNone(t) == {}

\* The devices whose row names the token.
LinkedTo(t) == {d \in Devices : devices[d] # None /\ devices[d].token = t}

AfterListed(S) == IF S = {} THEN "delete_token" ELSE "unlink_listed"

ListDevices(r) ==
  /\ pc[r] = "list_devices"
  /\ KeepListed(r, LinkedTo(call[r].token))
  /\ Goto(r, AfterListed(LinkedTo(call[r].token)))
  /\ UNCHANGED <<tables, mint, now, load, history>>

UnlinkListed(r) ==
  /\ pc[r] = "unlink_listed"
  /\ \E d \in loc[r].listed :
       /\ SetDeviceLink(d, None)
       /\ KeepListed(r, loc[r].listed \ {d})
       /\ Goto(r, AfterListed(loc[r].listed \ {d}))
  /\ UNCHANGED <<tokens, hashes, mint, now, load, history>>

\* Deleting an absent token succeeds as well.
DeleteToken(r) ==
  LET t == call[r].token IN
  /\ pc[r] = "delete_token"
  /\ tokens' = [tokens EXCEPT ![t] = None]
  /\ hashes' = Unindexed(t)
  /\ Retire(t, {})
  /\ Done(r)
  /\ UNCHANGED <<devices, mint, now, load, observed>>

-----------------------------------------------------------------------------
(* Device administration *)

\* Creating and updating a device refuse a token that is not there.
CheckToken(r) ==
  /\ pc[r] = "check_token"
  /\ IF tokens[call[r].token] = None THEN Done(r) ELSE Proceed(r, "set_device")
  /\ UNCHANGED <<tables, mint, now, load, history>>

LoadDevice(r) ==
  LET c == call[r]
      row == devices[c.device] IN
  /\ pc[r] = "load_device"
  /\ \/ row = None /\ Done(r)
     \/ /\ row # None /\ c.op = "update_device"
        /\ KeepOld(r, row.token)
        /\ Goto(r, IF c.token \in {None, Keep} THEN "set_device" ELSE "check_token")
     \/ /\ row # None /\ c.op = "delete_device"
        /\ KeepOld(r, row.token)
        /\ Goto(r, IF row.token = None THEN "delete_device" ELSE "load_old_token")
  /\ UNCHANGED <<tables, mint, now, load, history>>

\* Mutant: a link the body leaves out is stored as it came.
NewLinkVerbatim(r) ==
  IF call[r].op = "delete_device" THEN None ELSE call[r].token

NewLink(r) == IF call[r].op = "delete_device" THEN None
              ELSE IF call[r].token = Keep THEN loc[r].old ELSE call[r].token

\* set_device, then set_token_device_link from the old to the new token.
WriteDevice(r) ==
  LET new == NewLink(r) IN
  /\ pc[r] = "set_device"
  /\ SetDeviceLink(call[r].device, new)
  /\ \/ loc[r].old = new /\ Done(r)
     \/ /\ loc[r].old # new
        /\ Proceed(r, IF loc[r].old # None THEN "load_old_token"
                      ELSE "load_new_token")
  /\ UNCHANGED <<tokens, hashes, mint, now, load, history>>

\* The old token is unlinked, or needed no unlinking.
AfterOld(r) ==
  \/ call[r].op = "delete_device" /\ Proceed(r, "delete_device")
  \/ /\ call[r].op = "update_device"
     /\ IF NewLink(r) = None THEN Done(r) ELSE Proceed(r, "load_new_token")

LoadOldToken(r) ==
  LET row == tokens[loc[r].old] IN
  /\ pc[r] = "load_old_token"
  /\ IF row # None /\ row.device = call[r].device
     THEN KeepRow(r, [row EXCEPT !.device = None]) /\ Goto(r, "unlink_token")
     ELSE AfterOld(r)
  /\ UNCHANGED <<tables, mint, now, load, history>>

UnlinkToken(r) ==
  /\ pc[r] = "unlink_token"
  /\ SetToken(loc[r].old, loc[r].row)
  /\ AfterOld(r)
  /\ UNCHANGED <<devices, mint, now, load, observed>>

LoadNewToken(r) ==
  LET row == tokens[NewLink(r)] IN
  /\ pc[r] = "load_new_token"
  /\ IF row = None THEN Done(r)
     ELSE /\ KeepRow(r, [row EXCEPT !.device = call[r].device])
          /\ Goto(r, "link_token")
  /\ UNCHANGED <<tables, mint, now, load, history>>

LinkToken(r) ==
  /\ pc[r] = "link_token"
  /\ SetToken(NewLink(r), loc[r].row)
  /\ Done(r)
  /\ UNCHANGED <<devices, mint, now, load, observed>>

DeleteDevice(r) ==
  /\ pc[r] = "delete_device"
  /\ devices' = [devices EXCEPT ![call[r].device] = None]
  /\ Done(r)
  /\ UNCHANGED <<tokens, hashes, mint, now, load, history>>

-----------------------------------------------------------------------------
(* Time, failures, restarts *)

Tick ==
  /\ now < MaxTime /\ now' = now + 1
  /\ UNCHANGED <<tables, mint, load, pc, call, loc, history>>

\* A transaction fails and leaves no trace; the handler answers 500 and the
\* transactions it committed before stay.
StorageError(r) ==
  /\ MayFail /\ pc[r] # "idle"
  /\ Done(r)
  /\ UNCHANGED <<tables, mint, now, load, history>>

\* The process dies and restarts: handlers are lost, the tables are not.
Crash ==
  /\ MayFail /\ \E r \in Requests : pc[r] # "idle"
  /\ pc' = [r \in Requests |-> "idle"]
  /\ call' = [r \in Requests |-> None]
  /\ loc' = [r \in Requests |-> NoLocals]
  /\ UNCHANGED <<tables, mint, now, load, history>>

\* Every request was answered and no further one needs to come.
Quiet == (\A r \in Requests : pc[r] = "idle") /\ UNCHANGED vars

Step(r) ==
  \/ Start(r)
  \/ LookupSecret(r) \/ LoadBySecret(r) \/ RecordUsage(r) \/ RecordFailure(r)
  \/ LoadToken(r) \/ CheckDevice(r) \/ CreateToken(r)
  \/ LoadOldDevice(r) \/ UnlinkDevice(r) \/ LoadNewDevice(r) \/ LinkDevice(r)
  \/ WriteToken(r)
  \/ ListDevices(r) \/ UnlinkListed(r) \/ DeleteToken(r)
  \/ CheckToken(r) \/ LoadDevice(r) \/ WriteDevice(r)
  \/ LoadOldToken(r) \/ UnlinkToken(r) \/ LoadNewToken(r) \/ LinkToken(r)
  \/ DeleteDevice(r)
  \/ StorageError(r)

Next == (\E r \in Requests : Step(r)) \/ Tick \/ Crash \/ Quiet

Spec == Init /\ [][Next]_vars

-----------------------------------------------------------------------------
(* Properties *)

\* Every row and local value has the shape the Rust types give it.
TypeOK ==
  /\ overlap \in Overlaps
  /\ tokens \in [Tokens -> TokenRow \cup {None}]
  /\ hashes \in SUBSET (Nat \X Tokens)
  /\ devices \in [Devices -> DeviceRow \cup {None}]
  /\ ids \in SUBSET (Tokens \cup Devices)
  /\ minted \in SUBSET (Nat \X Tokens)
  /\ lastSecret \in Nat /\ now \in Nat /\ calls \in Nat
  /\ pc \in [Requests -> Labels]
  /\ loc \in [Requests -> Locals]
  /\ retired \in SUBSET Nat
  /\ observed \in [Tokens -> [uses : Nat, fails : Nat]]

\* set_token and delete_token keep the hash index and the token rows in
\* step, though handlers write back rows that may be out of date: a hash
\* leads to a token exactly when it is the hash in that token's row.
HashIndexExact ==
  hashes = {<<tokens[t].hash, t>> : t \in {u \in Tokens : tokens[u] # None}}

\* A secret that a rotation replaced, or whose token was deleted, before a
\* sync request began never admits that request.  get_token_by_hash reads the
\* index and the row in two transactions: a request already on its way may
\* still be judged by a row that has another hash by then.
RetiredStaysRetired ==
  \A r \in Requests : pc[r] = "record_usage" => ~call[r].late

\* The same, while no two admin requests overlap; sync requests overlap with
\* everything.
SerialAdminsRetire == overlap # "any" => RetiredStaysRetired

\* "can be disabled": while no two admin requests overlap, a disabled token
\* becomes enabled only by a request that asks for it.
OnlyEnableEnables ==
  [][overlap # "any" => \A t \in Tokens :
       tokens[t] # None /\ ~tokens[t].enabled
         /\ tokens'[t] # None /\ tokens'[t].enabled
         => \E r \in Requests : pc[r] = "set_token" /\ call[r].token = t
              /\ call[r].op = "update_token" /\ call[r].enabled = TRUE]_vars

\* admin_delete_token unlinks every device before it deletes the token, so
\* that no device row refers to a token that is gone, also when the handler
\* fails or the process dies between two of its transactions.  A sync request
\* in between may link the device again, so the admin works alone.
DeviceTokenExists ==
  overlap = "admin_alone" => \A d \in Devices :
    devices[d] # None /\ devices[d].token # None => tokens[devices[d].token] # None

\* The counters of a token count exactly the requests that were recorded as
\* admitted and as refused with it, while the admin works alone.
UsageRecorded ==
  overlap = "admin_alone" => \A t \in Tokens : tokens[t] # None =>
    tokens[t].uses = observed[t].uses /\ tokens[t].fails = observed[t].fails
=============================================================================
