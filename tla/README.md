# TLA+ models of the OxideTerm cloud-sync server

The server (`src/`, Rust: axum handlers over an embedded redb database) stores
snapshots and objects for sync clients, controls access with API tokens, and has
an admin panel with its own users. This directory holds TLA+ models of its
stateful parts, TLC configurations that check them on small instances, and
proofs, checked by TLAPS, that all their safety properties hold for every number
of namespaces, objects, tokens, users and concurrent requests, and every
sequence of restarts.

## 1. Inventory

### The execution model

All handlers are `async fn`s without an `await` between their first and last
database call. tokio runs them in parallel on worker threads. A handler calls
`Database` several times, and **each call is one redb transaction** (serialised
writers, snapshot readers, durable on commit). Nothing spans two calls: there
is no lock, no queue, no background task. So every hazard of this program has
the same shape: *a handler uses in one transaction what it read in an earlier
one*. Every module therefore has one action per transaction of a handler
(together with the code up to the next transaction), a `pc` per handler in
flight, and the handler's local copies as state.

### Components

| Component | State | Operations | Module |
|---|---|---|---|
| Namespace storage (`api.rs`, `db.rs`, `panel.rs`) | metadata, blob, object, object-metadata, tombstone, usage and conflict tables | get/put metadata, get/put blob, get/put/delete object; create, soft-delete, restore, purge a namespace | `SyncStore` |
| API tokens and devices (`api.rs`, `db.rs`, `panel.rs`) | token, token-hash and device tables | authenticate a sync request and count it; create, update, rotate, delete a token; create, update, delete a device | `TokenRegistry` |
| Admin users, sessions, login throttle (`panel.rs`, `auth.rs`, `main.rs`) | admin-user and login-attempt tables; the JWTs in circulation; `admin_enabled` and the JWT secret of the process | start-up bootstrap, login, change own password, create, update, delete a user | `AdminAccounts` |
| Object listing (`api.rs`, `db.rs`) and the admin's overview (`panel.rs`, `db.rs`) | none of their own; the object, metadata and tombstone tables | read a page, read the live and the deleted namespaces | `ObjectListing` |
| Token scope (`auth.rs`, `api.rs`) | none | pattern and permission predicates | `ObjectListing` |
| Offline backup, restore, verify (`main.rs`) | database file, backup file, its `.sha256` side file | `--backup-to`, `--verify-backup`, `--restore-from` | `ServerLifecycle` |
| Encryption at rest, token reveal (`crypto.rs`, `api.rs`, `panel.rs`, `main.rs`) | the secrets of the process | encrypt, decrypt, reveal a token, restart with other secrets | `ServerLifecycle` |
| Admin panel page, single-read listings, routing, CORS, readiness, error mapping | none | read-only or stateless | no |

How they interact: a sync handler first asks the tombstone table (storage), then
the token tables (registry), then does its storage transactions. Admin handlers
validate their session against the user table (accounts) and then work on one of
the other two. These three share no table, so each module models one of them
and takes the verdict of the others as a nondeterministic input: `Refuse` in
`SyncStore` is what a bad token, session, body size or full disk does; the
`scoped` field of a sync call in `TokenRegistry` is the outcome of the pattern
and permission checks, which `ObjectListing` models. Readers of whole tables
change nothing, so `ObjectListing` has one reader beside the commits of all
writers. The offline commands run while no server does; `ServerLifecycle` has
one process at a time and is about what survives it.

### What makes each component correct

* Storage: "ETag-based optimistic locking is enforced for blob and object
  uploads" (`README.md:11`): a conditional upload takes effect only on the
  version it names. Rows of two tables that belong together stay together.
  Purge leaves nothing. What is carried forward is what is replaced.
* Tokens: the hash index and the rows agree, retired secrets stay retired,
  disabled tokens stay disabled, links name tokens that exist, usage is counted.
* Accounts: an enabled admin remains, revoked sessions stay revoked, the
  throttle limits failures and lets an address in again.
* Listing: what was stored all the time is listed once and in order, nothing of
  another namespace is, and following the cursor ends.
* Files: killing any command leaves a copy that is whole and that a restore
  accepts; a payload is answered as uploaded or not at all.

The hazards, each at its line and with the properties that cover it, are listed
in `PROJECT.json`.

## 2. Modules

| Module | Content |
|---|---|
| `EtagRegisters` | Abstract specification: items are registers holding the ETag of their current version; a conditional upload is one atomic step. With the proof that it never accepts two successors of one version. |
| `SyncStore` | The storage handlers, transaction by transaction; its properties, its inductive invariant, and the refinement mapping to `EtagRegisters`. |
| `SyncStoreProofs` | `TypeCorrect`: the type invariant. |
| `SyncStoreSafety` | The inductive invariants of storage: for any overlap, for the conflict log, for requests that do not meet in a namespace, for the usage rows; and the theorems that follow from them. |
| `SyncStoreRefinement` | History properties and the refinement. |
| `TokenRegistry` | Tokens and devices, transaction by transaction. |
| `TokenRegistryProofs` | The theorems about it. |
| `AdminAccounts` | Admin users, sessions, throttle and bootstrap, transaction by transaction. |
| `AdminAccountsProofs` | The theorems about it. |
| `ObjectListing` | Pagination, token scope and the admin's overview, beside all writers. |
| `ObjectListingProofs` | The order of strings and keys, what a scan finds, and the theorems about listing, scope and overview. |
| `ServerLifecycle` | Restarts, secrets, backup, verification and restore of one database file; its inductive invariant. |
| `ServerLifecycleProofs` | The theorems about it. |
| `MC...` | Instances for TLC: endpoints, inputs, bounds and symmetry. |

Definitions named like `PutObjectKeepsMeta`, with a comment that starts with
"Mutant", are plausible bugs. They are used by no action; substituting one for
the definition after it must make a property fail, which shows that the property
depends on that piece of code.

### Correspondence and abstractions: `SyncStore`

* `meta`, `blob`, `objects`, `objMeta`, `deleted`, `usage`, `conflicts` are the
  redb tables. `pc`, `call`, `loc` are the handlers in flight.
* ETags are UUIDs; the model numbers them in commit order, and the same number
  names the payload written with it. 0 is "no payload" and the empty ETag. A
  client may name any ETag issued so far, or the empty one.
* A metadata row is reduced to `exists`, its ETag, `content` (the payload that
  content hash and length describe) and `profile` (the metadata upload that
  format, sections and scope come from). The metadata-retention switches, which
  can drop revision, device, upload time and hash, are at their defaults.
* A usage row holds the payloads measured instead of byte counts; the growth
  figure, and the extra read for it, is left out.
* A conflict record is stamped (`occurred_at`) before the transaction that
  inserts it. Keys are RFC 3339 strings compared as text; for the variable
  number of fraction digits chrono prints, text order equals time order
  (`+` < `.` < digits), so the model uses numbers. Two records are never given
  the same stamp.
* `StorageError` lets any transaction fail without effect and the handler answer
  500; `Crash` loses all handlers and keeps the tables. Both are switched by
  `MayFail`.
* `accepted`, `logged`, `purgedAt` are history variables; no action reads them.

### `TokenRegistry`

* `hashes` is the hash index as a set of pairs, so that a wrong index could
  hold two tokens for one hash. Secrets are numbered; the number is secret and
  hash. Identifiers are UUIDs, hence never reused.
* A token row keeps what decisions depend on: hash, enabled, expiry, device link
  and the two counters (reads and writes are one counter). A device row is its
  `token_id`.
* Handlers write whole rows back from their copy (`loc[r].row`), as the code
  does.
* `LoadBySecret` records a usage when one is due; with a positive interval it
  may or may not be due, except for a token never used.
* `overlap` says which requests of a behaviour may be in flight together: any;
  one admin request beside sync requests; or an admin request only by itself.
  It is chosen at the start and never changes. It separates what the handlers
  guarantee by themselves from what needs that discipline: a property that needs
  one says so.
* `call[r].late` records, when a sync request begins, whether its secret has
  been retired by then. The request looks the hash up and reads the row in two
  transactions (`LookupSecret`, `LoadBySecret`); `RetiredStaysRetired` says that
  a late one is never admitted.

### `AdminAccounts`

* A user row is password, `session_version`, enabled. Login statistics are left
  out: no decision reads them. Their being *written* is modelled, because it
  writes the whole row back (`WriteFailure`, `FinishLogin`).
* Time is relative: a throttle row holds its age and the time it still blocks;
  `Tick` advances all rows, also those in handlers' copies, by one unit. Values
  the code cannot tell apart are merged (age beyond the window, failures beyond
  the threshold), so the state space is finite for unbounded logins.
* `ensure_login_allowed` compares with one time stamp for the cleanup and for
  the read after it; a row that blocks at the read therefore blocks, whatever
  time passed in between (`Gate`).
* `sessions` are the JWTs signed with the secret in use. They do not expire
  (24 hours in the code), which only makes the properties harder. `life` tells
  accounts of the same name apart and is history.
* `Restart` is crash and start-up together: bootstrap from `ADMIN_PASSWORD`, a
  fresh secret unless one is configured, `admin_enabled` computed once.
* `traffic`, chosen at the start, says which handlers are in use, so that one
  run covers one request at a time and many.

### `ObjectListing`

* Strings are sequences of character codes, because the order of keys decides
  what a scan meets. The constant prefix `ns:` is left out and `/obj:` is one
  character; no namespace name contains it, a path may.
* redb's ordered range is `KeysFrom`; the scan takes `limit` keys and stops at
  the first without the prefix (`FirstOf`, `InPrefix`). A page is a set, since
  order inside a page is that of the scan.
* Each page is a request of its own: `AdmitPage` or `RefusePage` (tombstone,
  scope, query parameters), then `ScanPage`. The client follows `nextCursor`.
  Lengths and control characters of parameters are not modelled. Whether the
  token is active is the matter of `TokenRegistry`.
* Writers are single transactions, without the guards of their handlers: any
  commit may happen between two reads. This allows more than the server does.
* The overview reads the live and the deleted namespaces in two transactions;
  figures per namespace are left out.
* `throughout` and `touched` are history: what stayed the same during a read.

### `ServerLifecycle`

* A file is absent, empty, cut short or whole, and holds rows. A digest is the
  file it was computed from, so equal digests mean equal files.
* `fs::copy` and `fs::write` truncate the destination, then write; `Kill` can
  come after either, as can a panic on a full disk.
* A sealed value is its data with the key it was sealed under. Opening it with
  another key, or opening plain bytes with a key, is an error, since
  ChaCha20-Poly1305 authenticates (external). Without a key nothing is done to
  bytes, in either direction.
* redb creates a database in an absent or empty file and refuses one cut short
  (external).
* `careless` records what an operator can do that the commands do not prevent:
  restoring a backup that has no side file, and starting or backing up a
  database that a killed restore left. `keyDropped` records a restart without
  `ENCRYPTION_KEY` after one with it. The properties say which they exclude.

## 3. Runs

Bounds: `MaxCalls` (requests accepted in a behaviour), `traffic.changes`
(restarts and non-login requests), `MaxTime`, `MaxBoots`, `MaxWrites`, and the
number of `Requests` (handlers in flight). Interleaving hazards here need two
handlers and three or four requests: one to create what is raced for, two that
race, one that observes. Each bug the violation runs show appears within these
bounds, as does every mutant. `ObjectListing` needs no bound on steps: its state
is finite, and writers and readers go on for ever.

| Run | Instance | Shows |
|---|---|---|
| `objects` | 1 namespace, 2 paths, 3 handlers, 3 requests, errors and crashes | `ObjectPairing`, `SingleSuccessor`, `ObjectCreateOnly`, `ConflictLogKeepsNewest` (a log of one record, stamped out of insertion order), `PurgeLeavesNothing`, and the refinement |
| `snapshots` | 1 namespace, 2 handlers, 4 requests | `TypeOK`, `BlobHasMetadata`, `CarryForward`, `EtagNotOlderThanPayload`, and the refinement |
| `sequential` | 1 namespace, 2 paths, 1 handler, 5 requests, all endpoints | what holds only without overlap: `UsageAccurateWhenQuiet`, `MetadataDescribesBlob`, `TombstoneHasData`, `SnapshotCreateOnly`, `PurgedMetadataStaysGone`, `SoftDeletedIsFrozen` |
| `tokens` | 2 handlers, 4 requests under any overlap or with one admin, 5 with the admin alone; all endpoints, expiry, errors and crashes | `HashIndexExact` under any overlap; `SerialAdminsRetire` and `OnlyEnableEnables` while no two admin requests overlap; `DeviceTokenExists` and `UsageRecorded` while the admin works alone |
| `accounts` | 1 address; either 2 users, 1 handler, 4 changes and unbounded logins, restarts with and without a password; or 1 user and 3 concurrent logins, unbounded | `LastAdminKept`, `RevokedStaysRevoked`, and `ThrottleHolds` for one handler; `BlockedAtThreshold` and `LockoutEnds` also for three |
| `listing` | namespaces "a" and "ab", whose keys are adjacent; 3 objects in one and 1 in the other; pages of 1 and 2, prefixes, cursors, refused parameters and scopes | `PagesAscend`, `ListingComplete`, `PagesAreStored`, `ScopeRespected`, `OverviewExact`, `ListingEnds` |
| `lifecycle` | 2 encryption keys or none, 1 JWT secret or none, 3 starts, 3 writes, unbounded commands and kills | `SurvivingCopy`, `PayloadOrError`, `RevealKeepsWorking` |
| `torn_download` | an upload during a download | violation of `DownloadEtagMatchesPayload` |
| `create_race` | an upload during a namespace creation | violation of `SnapshotCreateOnly` |
| `rotate_race` | an update during a rotation | violation of `RetiredStaysRetired` |
| `stale_login` | a password change during a login | violation of `RevokedStaysRevoked` |
| `last_admin_race` | two deletions at once | violation of `LastAdminKept` |

Fairness is assumed in two places. `TimedSpec` of `AdminAccounts` is
`Spec /\ WF_vars(Tick)`: the wall clock goes on. `FairSpec` of `ObjectListing` is
`Spec /\ WF_vars(Read)`: the server answers a listing request, which waits for
nobody, since redb readers are never blocked, and the client asks for the next
page. Nothing is assumed of the writers, which may write all the time:
`ListingEnds` holds because every page starts behind the last one in a finite
set of possible keys. Other handlers need no fairness, since no handler waits
for another and no property says that a request is answered.

### What the disagreements are

The five violation runs are findings; `PROJECT.json` quotes the lines they
contradict. In short: `get_object` and `get_blob` read payload and ETag in two
transactions, so that a client can get a new ETag with an old payload and then
overwrite, with a valid If-Match, a version it never saw. And four times a
handler checks or copies in one transaction and writes in another: creating a
namespace over a concurrent upload; updating a token over a rotation; a login
over a password change; disabling or deleting admins against each other.

The same shape lies behind the properties that hold for one handler, or for
restricted overlap, only. With overlapping handlers `SoftDeletedIsFrozen` fails (an upload
admitted before the soft delete), `PurgedMetadataStaysGone` fails (an
unconditional upload that read metadata before a purge), `MetadataDescribesBlob`
fails (metadata upload against snapshot upload), `OnlyEnableEnables` fails (a
rotation against a disabling), `UsageRecorded` fails (an update against a
counted request), `DeviceTokenExists` fails even beside one sync request (it
links its device again after the deletion of its token has unlinked it) and `ThrottleHolds` fails (parallel failures pass the gate
before one is counted). These are the limits of what the code guarantees, and
the passing runs state them as such.

Three accidents are outside `SurvivingCopy` and `PayloadOrError` because the code
does not prevent them. A first backup killed before its digest is written has no
side file, and `--restore-from` takes it unchecked. A restore killed after
truncating the database leaves an empty file; starting the server on it makes an
empty database without complaint, and backing it up replaces the good backup.
And a server restarted without `ENCRYPTION_KEY` answers downloads with ciphertext.
The overview may show a namespace twice, or not at all, if it is deleted or
restored between its two reads; `OverviewExact` is about all the others.

## 4. Proofs

Every theorem holds for arbitrary values of the constants: storage for any sets of
namespaces, paths, handlers and endpoints and any `MaxConflicts`, with and
without failures; tokens and accounts for any sets of rows, addresses and
handlers and any thresholds; listing for any finite or infinite alphabet, names, objects
and queries; the life cycle for any keys and secrets and any number of starts
and writes. What is assumed of the constants is named in the modules and
evaluated by TLC in every run: bounds are naturals, switches Booleans; keys,
secrets and numbers differ; `None` and `Keep` are none of the rows, files, paths,
users and queries they are to be told from; characters are numbers, and names
contain neither the separator nor `*`, which is what `validate_namespace` enforces;
a token's pattern is one `admin_create_token` accepts.

| Module | Theorem | Says |
|---|---|---|
| `SyncStoreProofs` | `TypeCorrect` | `TypeOK` |
| `SyncStoreSafety` | `ObjectsStayPaired` | `ObjectPairing` |
| | `BlobsStayDescribed` | `BlobHasMetadata` |
| | `PurgeIsComplete` | `PurgeLeavesNothing`, an action property |
| | `DownloadsAreNotOutdated` | `EtagNotOlderThanPayload` |
| | `LogKeepsNewest` | `ConflictLogKeepsNewest` |
| | `MetadataIsRight`, `TombstonesHaveData`, `SnapshotsAreCreated`, `PurgesAreFinal`, `TombstonesFreeze` | if no two requests in flight are about one namespace, failures and crashes allowed: `MetadataDescribesBlob`, `TombstoneHasData`, `SnapshotCreateOnly`, `PurgedMetadataStaysGone`, `SoftDeletedIsFrozen` |
| | `UsageIsRight` | if also nothing fails and every write is followed by a refresh: `UsageAccurateWhenQuiet` |
| `SyncStoreRefinement` | `UploadsCarryForward` | `CarryForward` |
| | `CreateOnlyCreates` | `ObjectCreateOnly` |
| | `ImplementsEtagRegisters` | `SyncStore` implements `EtagRegisters` |
| | `OptimisticLocking` | `SingleSuccessor` |
| `EtagRegisters` | `RegistersLockOptimistically` | the same promise of the registers themselves |
| `TokenRegistryProofs` | `TypeCorrect` | `TypeOK` |
| | `IndexIsExact` | `HashIndexExact` |
| | `RetiredSecretsRefused` | `SerialAdminsRetire` |
| | `DisabledStaysDisabled` | `OnlyEnableEnables`, an action property |
| | `UsageIsRecorded` | `UsageRecorded` |
| | `DeviceLinksExist` | `DeviceTokenExists` |
| `AdminAccountsProofs` | `TypeCorrect` | `TypeOK` |
| | `BlocksAtThreshold` | `BlockedAtThreshold` |
| | `ThrottleIsKept` | `ThrottleHolds` |
| | `LastAdminStays`, `RevokedSessionsStay` | with at most one handler: `LastAdminKept`, `RevokedStaysRevoked` |
| `ObjectListingProofs` | `TypeCorrect` | `TypeOK` |
| | `PathsAscend` | `PagesAscend` |
| | `ListingShowsAll` | `ListingComplete` |
| | `PagesShowStored` | `PagesAreStored`, an action property |
| | `ScopeIsRespected` | `ScopeRespected` |
| | `OverviewIsExact` | `OverviewExact`, an action property |
| `ServerLifecycleProofs` | `TypeCorrect` | `TypeOK` |
| | `CopySurvives` | `SurvivingCopy` |
| | `DownloadsAreGenuine` | `PayloadOrError` |
| | `RevealsAreGenuine` | `RevealKeepsWorking` |

The argument for storage. `TypeOK` is inductive by itself once it says which request a
handler at a given `pc` may serve (`Serves`). The safety properties need more:

* `StorageInv`: object payloads and ETags are paired, blobs have metadata, a row
  that exists for clients has an ETag and vice versa (`ExistsMeansEtag`), and
  all stored ETags were minted (`EtagsAreMinted`). The last makes a fresh ETag
  differ from everything stored or remembered.
* `HandlerInv`: what a handler remembers. `ReadIsCurrent` is the heart of it: if
  the ETag a client named in If-Match is *still* the stored ETag when the upload
  transaction runs, then the row read before is *still* the stored row, since
  every change of a row with an ETag drops that ETag or mints a new one, larger than any
  the client can have named. That is why reading the metadata outside the checking
  transaction is harmless for conditional uploads, and `CarryForward` follows.
  It fails for unconditional ones, as section 3 says.
* `EtagWillDo`, its other part, says that the ETag a download is about to read is
  absent or at least as new as the payload it has read. `DownloadInv` adds which
  transactions a download goes through, and `EtagNotOlderThanPayload` follows.

`PurgeIsComplete` follows from `ObjectPairing`: metadata without a payload would
be missed by the scan of the object table, and there is none. The refinement
maps each item to its ETag (`ItemEtag`) and drops what `accepted` records beyond
the precondition. Accepted uploads map to `Put` or `Overwrite`, removals, purge
and namespace creation to `Clear`, everything else to stuttering. `SingleSuccessor`
is then inherited from the abstract theorem, whose invariant says that an ETag is
current for one item at most, and one that served as a base never is again.

The argument for the life cycle. `SurvivingCopy` is not inductive: it does not
say why a restore, once begun, has a good backup to copy from. `FilesInv` does.
A side file that is neither absent nor empty is the digest of the last finished
backup, which was whole, because only a database untouched by a killed restore
is ever copied; a restore begins only if the backup equals its side file; and as
long as the database is torn nothing writes to backup or side file. A stale side
file beside a half-written backup is therefore refused, and harmless. `KeysInv`
says that without a key ever set all objects are in the clear, in the backup
too, which is what `PayloadOrError` needs when there is no key. `TokensInv`
records for each stored token, wherever it was copied to, which secrets the
server had when it was issued; `RevealKeepsWorking` follows since a configured
key does not depend on the start.

The argument for the conflict log. A record is stamped in one transaction and
inserted in another, so records arrive out of order. `ConflictInv` says that
stamps are drawn once (also those of handlers that have yet to insert), that the
log is finite, and that the table is its newest part. Inserting a record and
keeping the newest `MaxConflicts` of the result then is the same as keeping the
newest of everything: what was trimmed before stays behind what is kept.

The argument for requests that do not meet. Six properties fail if two requests
about one namespace overlap; `create_race` shows one of the reasons. TLC checks
them with a single handler. The theorems need less: `Disjoint` says that the
requests in flight at any moment are about different namespaces, and the
theorems have the form `Spec /\ []Disjoint => ...`. Handlers then still share the
supply of ETags and the conflict log, and `OtherNamespacesStay` shows that they
share nothing else that matters. A front end that serialised requests per
namespace would be enough to make the properties hold.
`StillTrue` says what such a handler may rely on, while others move: the row it
is about to carry forward is the stored row, the namespace it was admitted to is
not soft-deleted, the namespace it creates has no metadata, and the one
it soft-deletes has something to restore. The properties need each other: a
namespace without metadata has no blob (`MetadataDescribesBlob`), so creating it
leaves no blob behind a row that says there is none (`SnapshotsExist`), which
`SnapshotCreateOnly` rests on. A failure or crash loses a handler between two
transactions, and since every transaction alone keeps `SoloTables`, that does no
harm. It does harm to the usage row: `UsageInv` says that only the namespace being
refreshed may have an outdated row, which a handler lost before `WriteUsage`
leaves for good. Hence the hypotheses of `UsageIsRight`.

The argument for tokens. `TypeOK` becomes inductive with `HandlerOK`, which says
for each `pc` which endpoint is there and what it has read. On top of it:

* `IndexInv`: a secret is minted for one token only, and a row, *stored or in the
  copy of a handler*, holds a secret of its own token. So writing back an old
  copy may bring back an old secret but never another token's, and the index,
  which every write adjusts in the same transaction, stays exact.
* `SerialInv`, while no two admin requests overlap: the row that a handler holds
  a copy of is still stored, and no secret out of use is in a row or a copy. A
  sync request that comes late therefore finds no entry in the index. Recording usage reads and writes the row in one transaction, which is why any
  number of sync requests does not disturb this.
* `UsageInv` and `LinkInv`, while the admin works alone: the counters in a copy
  are those recorded; a token about to be linked exists, and the devices
  a deletion has yet to unlink are on the list it has read.

The argument for accounts. `ThresholdInv` is about copies again: every copy of a
throttle row has been computed from some state of the row and blocks exactly at
the threshold, so it does not matter which is written last. `ThrottleInv` adds,
for one request at a time, that the row counts what was tried and
that the gate passed still stands open when the failure is counted. `AdminsRemain`
says that a row about to be written is enabled or another enabled admin remains,
and that the panel is off only when there are no users, which makes the
bootstrap after a restart harmless. `VersionsFit` says that every row about to be
written for an account has the next version if its sessions are being revoked, and
the present one otherwise. The runs `last_admin_race` and `stale_login` show
what overlapping requests do to both.

The argument for listing. Lexicographic order on sequences is shown to be a
strict total order with no assumption on the alphabet, and the strings with a
given prefix to be contiguous in it (`PrefixConvex`). Keys of one namespace are
ordered like their paths, and a key splits into name and path in one way only,
because the separator is in no name (`KeyOrder`, `KeyParts`). Hence a scan that
starts at the prefix or behind the cursor and stops at the first key without the
prefix finds objects of this namespace only (`ScanSound`), and everything with
the prefix unless the page is full (`ScanComplete`). The invariant `CursorInv`
ties the pages together: nothing shown lies behind the cursor, and every path
that is owed, because it was stored all the time, has been shown or lies behind
it. The one path read beyond the limit decides between asking on and stopping; at the
end nothing lies behind the cursor, so all that is owed has been shown.
`OverviewInv` says the first of the two reads is still right about namespaces
that nobody touched since.

Only model-checked: the two liveness properties, `LockoutEnds` and `ListingEnds`,
since proofs under fairness are out of the prover's reach. Every other property
of a passing run has a theorem.

## 5. Not modelled

* The admin page: HTML, CSS and JavaScript served as a constant.
* Single reads: lists of users, tokens, devices and conflicts, current user,
  metadata figures of the overview. Each is one transaction, or several whose
  results are shown side by side, and nothing is decided on them.
* Routing, CORS, cookies, CSRF comparison, client address resolution, error
  mapping, health and readiness: stateless. The models start where a handler's
  first database call does and record the kind of answer.
* Logging out only clears cookies; the JWT stays valid and is in `sessions`.
* One-sided links between tokens and devices (`panel.rs:344`): reachable without
  any failure, and nothing in the repository promises symmetry. A user deleted
  and created again starts at session version 0 (`panel.rs:772`), at which
  unexpired sessions of the former account may have been issued; the properties
  are stated per account life.

## 6. Plan

Done: the stateful components, listing, scope, file life cycle and secrets, the
abstract register specification, and a theorem for every safety property of a
passing run. Next:

1. Sharpen hypotheses as `Disjoint` does for storage: `RevokedStaysRevoked` should
   need only that no two requests about the same *account* overlap, and
   `LastAdminKept` only that no two changes of accounts do.
2. A ranking function for `ListingEnds`: each page strictly shrinks the set of
   stored keys behind the cursor unless a writer adds one, as an action property that
   can be proved, beside the liveness property that TLC checks.
3. Share the lemmas that the proof modules repeat (frames of handlers, least
   elements of finite sets).
