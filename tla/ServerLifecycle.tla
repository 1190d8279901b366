--------------------------- MODULE ServerLifecycle ---------------------------
(***************************************************************************)
(* The life of one database file: server processes with changing secrets   *)
(* that seal payloads and token copies in it (crypto.rs, api.rs,           *)
(* panel.rs), and the offline commands --backup-to, --verify-backup and    *)
(* --restore-from (main.rs), any of which may be killed half way.          *)
(*                                                                         *)
(* A file is its state and its rows; a digest of a file is the file.  The  *)
(* database holds one object and one token.  Requests are single steps:    *)
(* how they interleave is the matter of SyncStore and TokenRegistry.       *)
(***************************************************************************)
EXTENDS Naturals

CONSTANTS
  EncKeys,     \* values of ENCRYPTION_KEY
  JwtSecrets,  \* values of ADMIN_JWT_SECRET
  MaxBoots,    \* bound on the starts of the server
  MaxWrites,   \* bound on the payloads uploaded and secrets issued
  None         \* an option that is not set, a row or a file that is absent

ASSUME LifecycleBoundsAssumption == MaxBoots \in Nat /\ MaxWrites \in Nat
ASSUME LifecycleNoneAssumption ==
  /\ EncKeys \cap JwtSecrets = {} /\ (EncKeys \cup JwtSecrets) \cap Nat = {}
  /\ None \notin EncKeys \cup JwtSecrets \cup Nat

\* Bytes with the key they are sealed under; the rows of a database; files.
Sealed(K) == [key : K \cup {None}, data : Nat]
TokenRow == [hash : Nat, copy : Sealed(EncKeys \cup JwtSecrets \cup Nat)]
Rows == [object : Sealed(EncKeys) \cup {None}, token : TokenRow \cup {None}]
Files == [state : {"empty", "partial", "whole"}, rows : Rows]

ASSUME LifecycleAbsentAssumption ==
  None \notin Sealed(EncKeys) \cup TokenRow \cup Rows \cup Files

VARIABLES
  db,          \* the file at DB_PATH
  backup,      \* the file at the backup path
  sidecar,     \* its .sha256 file: the digest it holds
  mode,        \* what the process is doing
  config,      \* the secrets the server runs with
  boots,       \* starts of the server so far
  writes,      \* payloads and secrets so far
  answer,      \* what the latest download or reveal answered
  committed,   \* history: the rows as the server, or a restore, left them
  lastBackup,  \* history: the file the last finished backup copied
  torn,        \* history: the file at DB_PATH is what a killed restore left
  careless,    \* history: the operator did what the README warns of
  keyDropped,  \* history: ENCRYPTION_KEY was removed after it had been set
  issuedUnder  \* history: the secrets the server had when it sealed each token secret

files == <<db, backup, sidecar>>
server == <<config, boots, writes, answer>>
history == <<committed, lastBackup, torn, careless, keyDropped, issuedUnder>>
vars == <<files, mode, server, history>>

-----------------------------------------------------------------------------
(* Secrets and what is sealed with them *)

Configs == [enc : EncKeys \cup {None}, jwt : JwtSecrets \cup {None}]

\* Mutant: the key ignores a configured JWT secret.
RevealKeyPerBoot(c, boot) == IF c.enc # None THEN c.enc ELSE boot

\* The key for the tokens' encrypted copies: ENCRYPTION_KEY, or one derived
\* from the JWT secret, which is a new one at each start unless configured.
RevealKey(c, boot) == CASE c.enc # None -> c.enc
                        [] c.enc = None /\ c.jwt # None -> c.jwt
                        [] OTHER -> boot

\* token_reveal_persistent.
RevealPersistent(c) == c.enc # None \/ c.jwt # None

\* Without a key the bytes are stored as they are.
Seal(key, data) == [key |-> key, data |-> data]

\* Mutant: hands out the stored bytes when they cannot be decrypted.
UnsealLax(key, s) == IF key = None \/ s.key # key THEN s ELSE Seal(None, s.data)

\* The plain bytes, or None for an error: a wrong key, or bytes that were
\* never encrypted, fail the authentication.  Without a key nothing is done.
Unseal(key, s) == CASE key = None -> s
                    [] key # None /\ s.key = key -> Seal(None, s.data)
                    [] OTHER -> None

EmptyRows == [object |-> None, token |-> None]

Whole(rows) == [state |-> "whole", rows |-> rows]
Truncated == [state |-> "empty", rows |-> EmptyRows]
Partial(f) == [state |-> "partial", rows |-> f.rows]

Init ==
  /\ db = None /\ backup = None /\ sidecar = None /\ mode = "down"
  /\ config = [enc |-> None, jwt |-> None] /\ boots = 0 /\ writes = 0
  /\ answer = None
  /\ committed = None /\ lastBackup = None
  /\ issuedUnder = [w \in 1..MaxWrites |-> None]
  /\ torn = FALSE /\ careless = FALSE /\ keyDropped = FALSE

-----------------------------------------------------------------------------
(* The server *)

\* redb makes a new database of a file that is absent or empty, and refuses
\* one that is cut short.
Opened(f) == IF f = None \/ f = Truncated THEN Whole(EmptyRows) ELSE f

Start(c) ==
  /\ mode = "down" /\ boots < MaxBoots
  /\ Opened(db).state = "whole"
  /\ mode' = "serving" /\ db' = Opened(db)
  /\ config' = c /\ boots' = boots + 1
  /\ committed' = Opened(db).rows
  /\ careless' = (careless \/ torn) /\ torn' = FALSE
  /\ keyDropped' = (keyDropped \/ (config.enc # None /\ c.enc = None))
  /\ UNCHANGED <<backup, sidecar, writes, answer, lastBackup, issuedUnder>>

\* Every request commits before it answers: there is nothing to lose.
Stop ==
  /\ mode = "serving" /\ mode' = "down" /\ answer' = None
  /\ UNCHANGED <<files, config, boots, writes, history>>

Commit(rows) ==
  /\ mode = "serving" /\ writes < MaxWrites /\ writes' = writes + 1
  /\ db' = Whole(rows) /\ committed' = rows
  /\ answer' = None
  /\ UNCHANGED <<backup, sidecar, mode, config, boots, lastBackup, torn, careless,
                 keyDropped>>

Upload ==
  /\ Commit([db.rows EXCEPT !.object = Seal(config.enc, writes + 1)])
  /\ UNCHANGED issuedUnder

Download ==
  /\ mode = "serving" /\ db.rows.object # None
  /\ answer' = [to |-> "download", body |-> Unseal(config.enc, db.rows.object)]
  /\ UNCHANGED <<files, mode, config, boots, writes, history>>

\* Creating and rotating a token store the hash and the encrypted copy.
IssuedToken(secret, key) == [hash |-> secret, copy |-> Seal(key, secret)]

IssueToken ==
  /\ Commit([db.rows EXCEPT !.token =
               IssuedToken(writes + 1, RevealKey(config, boots))])
  /\ issuedUnder' = [issuedUnder EXCEPT ![writes + 1] = config]

Reveal ==
  /\ mode = "serving" /\ db.rows.token # None
  /\ answer' = [to |-> "reveal", body |-> Unseal(RevealKey(config, boots), db.rows.token.copy)]
  /\ UNCHANGED <<files, mode, config, boots, writes, history>>

-----------------------------------------------------------------------------
(* The commands.  fs::copy and fs::write truncate the destination first. *)

BeginBackup ==
  /\ mode = "down" /\ db # None
  /\ mode' = "backup_copy" /\ backup' = Truncated
  /\ careless' = (careless \/ torn)
  /\ UNCHANGED <<db, sidecar, server, committed, lastBackup, torn, keyDropped, issuedUnder>>

CopyBackup ==
  /\ mode = "backup_copy"
  /\ \/ backup' = Partial(db) /\ UNCHANGED mode
     \/ backup' = db /\ mode' = "backup_digest"
  /\ UNCHANGED <<db, sidecar, server, history>>

BeginDigest ==
  /\ mode = "backup_digest"
  /\ sidecar' = Truncated /\ mode' = "backup_sum"
  /\ UNCHANGED <<db, backup, server, history>>

\* Mutant: main goes on after the command, and the database is not opened.
WriteDigestThenServes ==
  /\ mode = "backup_sum"
  /\ sidecar' = backup /\ mode' = "serving"
  /\ lastBackup' = backup
  /\ UNCHANGED <<db, backup, server, committed, torn, careless, keyDropped, issuedUnder>>

WriteDigest ==
  /\ mode = "backup_sum"
  /\ sidecar' = backup /\ mode' = "down"
  /\ lastBackup' = backup
  /\ UNCHANGED <<db, backup, server, committed, torn, careless, keyDropped, issuedUnder>>

\* Mutant: a digest that is there is good enough.
VerifiedLax(f, digest) == f # None /\ digest # None

\* verify_backup_file: an empty side file is malformed, a cut-off digest
\* matches nothing.
Verified(f, digest) == f # None /\ digest # None /\ digest # Truncated /\ f = digest

\* A backup without a side file is restored unchecked.
BeginRestore ==
  /\ mode = "down" /\ backup # None
  /\ sidecar # None => Verified(backup, sidecar)
  /\ mode' = "restore_copy" /\ db' = Truncated
  /\ torn' = TRUE /\ careless' = (careless \/ sidecar = None)
  /\ UNCHANGED <<backup, sidecar, server, committed, lastBackup, keyDropped, issuedUnder>>

CopyRestore ==
  /\ mode = "restore_copy"
  /\ \/ /\ db' = Partial(backup)
        /\ UNCHANGED <<mode, torn, committed>>
     \/ /\ db' = backup /\ mode' = "down"
        /\ torn' = FALSE /\ committed' = backup.rows
  /\ UNCHANGED <<backup, sidecar, server, lastBackup, careless, keyDropped, issuedUnder>>

\* A command is killed, or fails on a full disk and panics.
Kill ==
  /\ mode \in {"backup_copy", "backup_digest", "backup_sum", "restore_copy"}
  /\ mode' = "down"
  /\ UNCHANGED <<files, server, history>>

-----------------------------------------------------------------------------

Next ==
  \/ \E c \in Configs : Start(c)
  \/ Stop \/ Upload \/ Download \/ IssueToken \/ Reveal
  \/ BeginBackup \/ CopyBackup \/ BeginDigest \/ WriteDigest
  \/ BeginRestore \/ CopyRestore \/ Kill

Spec == Init /\ [][Next]_vars

-----------------------------------------------------------------------------
(* The inductive invariant: what the files hold in every mode *)

GoodBackup == /\ backup # None /\ backup = lastBackup
              /\ backup.state = "whole" /\ Verified(backup, sidecar)

FilesInv ==
  /\ mode \in {"backup_copy", "backup_digest", "backup_sum"} => db # None
  /\ mode = "restore_copy" => torn /\ backup # None
  /\ boots = 0 => /\ db = None /\ backup = None /\ sidecar = None
                  /\ mode = "down" /\ ~torn
  /\ boots # 0 /\ ~careless =>
       /\ ~torn => db = Whole(committed)
       /\ torn => mode \in {"down", "restore_copy"} /\ GoodBackup
       /\ sidecar \notin {None, Truncated} =>
            sidecar = lastBackup /\ sidecar.state = "whole"
       /\ mode \in {"backup_digest", "backup_sum"} => backup = db

\* Without a key ever having been set, objects are stored in the clear.
Plain(f) == f # None /\ f.rows.object # None => f.rows.object.key = None
KeysInv == config.enc = None /\ ~keyDropped => Plain(db) /\ Plain(backup)

\* A stored token's copy holds the secret its hash admits, sealed under the
\* key that the server had then.
Recorded(t) ==
  /\ t.hash \in 1..writes /\ t.copy.data = t.hash
  /\ issuedUnder[t.hash] \in Configs
  /\ RevealPersistent(issuedUnder[t.hash]) =>
       t.copy.key = RevealKey(issuedUnder[t.hash], 0)
TokensInv == \A f \in {db, backup} \ {None} : f.rows.token # None => Recorded(f.rows.token)

-----------------------------------------------------------------------------
(* Properties *)

\* Files, rows and answers have the shape the code gives them, a database
\* that is served is whole, and no maintenance command runs beside it.
TypeOK ==
  /\ db \in Files \cup {None} /\ backup \in Files \cup {None} /\ sidecar \in Files \cup {None}
  /\ mode \in {"down", "serving", "backup_copy", "backup_digest", "backup_sum",
               "restore_copy"}
  /\ config \in Configs /\ boots \in 0..MaxBoots /\ writes \in 0..MaxWrites
  /\ mode = "serving" => db # None /\ db.state = "whole"
  /\ answer # None => mode = "serving"
  /\ committed \in Rows \cup {None} /\ lastBackup \in Files \cup {None}
  /\ torn \in BOOLEAN /\ careless \in BOOLEAN /\ keyDropped \in BOOLEAN
  /\ issuedUnder \in [1..MaxWrites -> Configs \cup {None}]

\* No single accident loses the data: at every moment, with the process
\* killed in any command, either the database file holds what was last
\* committed, or the backup is exactly what the last finished backup copied,
\* and a restore will take it.  The operator has never restored a backup
\* without a side file, and has repeated a killed restore before anything
\* else.
SurvivingCopy ==
  \/ boots = 0 \/ careless
  \/ db = Whole(committed)
  \/ backup = lastBackup /\ backup.state = "whole" /\ Verified(backup, sidecar)

\* A download answers with the uploaded bytes or with an error, never with
\* ciphertext or another payload, under whatever keys the server is restarted
\* and whichever backup is restored, as long as ENCRYPTION_KEY is not removed.
PayloadOrError ==
  answer # None /\ answer.to = "download" /\ answer.body # None /\ ~keyDropped =>
    answer.body = Seal(None, db.rows.object.data)

\* A reveal answers with the secret that the stored hash admits or with an
\* error; and it does succeed after any number of restarts when the server
\* has the secrets again that it had when the token was issued and they are
\* configured (README.md:201).
RevealKeepsWorking ==
  answer # None /\ answer.to = "reveal" =>
    /\ answer.body \in {None, Seal(None, db.rows.token.hash)}
    /\ issuedUnder[db.rows.token.hash] = config /\ RevealPersistent(config)
         => answer.body # None
=============================================================================
