------------------------ MODULE ServerLifecycleProofs ------------------------
(* Theorems about ServerLifecycle, for every set of keys and secrets and any *)
(* number of starts and writes.                                              *)
EXTENDS ServerLifecycle, TLAPS

-----------------------------------------------------------------------------
(* Lemmas on files and keys *)

\* The files that the processes make are files.
LEMMA FileTypes ==
  /\ EmptyRows \in Rows /\ Truncated \in Files /\ Truncated # None
  /\ \A rows \in Rows : Whole(rows) \in Files /\ Whole(rows) # None
  /\ \A f \in Files : Partial(f) \in Files /\ Partial(f) # None /\ f # None
  /\ \A f \in Files \cup {None} : Opened(f) \in Files
<1>1. EmptyRows \in Rows
  BY DEF EmptyRows, Rows
<1>2. Truncated \in Files
  BY <1>1 DEF Truncated, Files
<1>3. \A rows \in Rows : Whole(rows) \in Files
  BY DEF Whole, Files
<1>4. \A f \in Files : Partial(f) \in Files
  BY DEF Partial, Files
<1>5. None \notin Files
  BY LifecycleAbsentAssumption
<1>6. \A f \in Files \cup {None} : Opened(f) \in Files
  BY <1>1, <1>3 DEF Opened
<1> QED
  BY <1>1, <1>2, <1>3, <1>4, <1>5, <1>6

\* There always is a key for the tokens' copies.
LEMMA KeyTypes ==
  ASSUME NEW c \in Configs, NEW boot \in Nat
  PROVE  /\ RevealKey(c, boot) \in EncKeys \cup JwtSecrets \cup Nat
         /\ RevealKey(c, boot) # None
         /\ c.enc \in EncKeys \cup {None}
         /\ RevealPersistent(c) => RevealKey(c, boot) = RevealKey(c, 0)
  BY LifecycleNoneAssumption DEF Configs, RevealKey, RevealPersistent

\* What an upload and an issued token store are rows.
LEMMA RowTypes ==
  ASSUME NEW rows \in Rows, NEW c \in Configs, NEW n \in Nat, NEW boot \in Nat
  PROVE  /\ [rows EXCEPT !.object = Seal(c.enc, n)] \in Rows
         /\ [rows EXCEPT !.token = IssuedToken(n, RevealKey(c, boot))] \in Rows
<1>1. Seal(c.enc, n) \in Sealed(EncKeys)
  BY KeyTypes DEF Seal, Sealed
<1>2. IssuedToken(n, RevealKey(c, boot)) \in TokenRow
  BY KeyTypes DEF IssuedToken, TokenRow, Seal, Sealed
<1> QED
  BY <1>1, <1>2 DEF Rows

-----------------------------------------------------------------------------
(* Type correctness *)

LEMMA TypeInit == Init => TypeOK
<1> SUFFICES ASSUME Init PROVE TypeOK
  OBVIOUS
<1> USE DEF Init
<1>1. config \in Configs /\ boots \in 0..MaxBoots /\ writes \in 0..MaxWrites
  BY LifecycleBoundsAssumption DEF Configs
<1>2. issuedUnder \in [1..MaxWrites -> Configs \cup {None}]
  OBVIOUS
<1>3. torn \in BOOLEAN /\ careless \in BOOLEAN /\ keyDropped \in BOOLEAN
  BY Zenon
<1> QED
  BY <1>1, <1>2, <1>3 DEF TypeOK

\* What a commit leaves behind, whichever rows it writes.
LEMMA CommitType ==
  ASSUME TypeOK, NEW rows \in Rows, Commit(rows),
         issuedUnder' \in [1..MaxWrites -> Configs \cup {None}]
  PROVE  TypeOK'
<1>1. db' \in Files /\ db' # None /\ db'.state = "whole"
  BY FileTypes DEF Commit, Whole
<1>2. writes' \in 0..MaxWrites
  BY LifecycleBoundsAssumption DEF Commit, TypeOK
<1> QED
  BY <1>1, <1>2 DEF Commit, TypeOK

LEMMA TypeStep ==
  ASSUME TypeOK, FilesInv, [Next]_vars
  PROVE  TypeOK'
<1> USE DEF TypeOK
<1>1. ASSUME NEW c \in Configs, Start(c) PROVE TypeOK'
  <2>1. Opened(db) \in Files /\ Opened(db) # None
    BY FileTypes
  <2>2. Opened(db).rows \in Rows
    BY <2>1 DEF Files
  <2>3. boots' \in 0..MaxBoots
    BY <1>1, LifecycleBoundsAssumption DEF Start
  <2>4. answer = None
    BY <1>1 DEF Start
  <2> QED
    BY <1>1, <2>1, <2>2, <2>3, <2>4 DEF Start
<1>2. CASE Stop
  BY <1>2 DEF Stop, files, history
<1>3. CASE Upload
  <2>1. db.rows \in Rows /\ writes + 1 \in Nat
    BY <1>3, LifecycleBoundsAssumption DEF Upload, Commit, Files
  <2> QED
    BY <1>3, <2>1, RowTypes, CommitType, LifecycleBoundsAssumption DEF Upload
<1>4. CASE Download
  BY <1>4 DEF Download, files, history
<1>5. CASE IssueToken
  <2>1. /\ db.rows \in Rows /\ config \in Configs /\ boots \in Nat
        /\ writes + 1 \in 1..MaxWrites /\ writes + 1 \in Nat
    BY <1>5, LifecycleBoundsAssumption DEF IssueToken, Commit, Files
  <2>2. issuedUnder' \in [1..MaxWrites -> Configs \cup {None}]
    BY <1>5, <2>1 DEF IssueToken
  <2>3. [db.rows EXCEPT !.token = IssuedToken(writes + 1, RevealKey(config, boots))] \in Rows
    BY <2>1, RowTypes
  <2> QED
    BY <1>5, <2>2, <2>3, CommitType DEF IssueToken
<1>6. CASE Reveal
  BY <1>6 DEF Reveal, files, history
<1>7. CASE BeginBackup
  BY <1>7, FileTypes DEF BeginBackup, server
<1>8. CASE CopyBackup
  <2>1. db \in Files
    BY <1>8 DEF CopyBackup, FilesInv
  <2> QED
    BY <1>8, <2>1, FileTypes DEF CopyBackup, server, history
<1>9. CASE BeginDigest
  BY <1>9, FileTypes DEF BeginDigest, server, history
<1>10. CASE WriteDigest
  BY <1>10 DEF WriteDigest, server
<1>11. CASE BeginRestore
  BY <1>11, FileTypes DEF BeginRestore, server
<1>12. CASE CopyRestore
  <2>1. backup \in Files /\ backup.rows \in Rows
    BY <1>12 DEF CopyRestore, FilesInv, Files
  <2> QED
    BY <1>12, <2>1, FileTypes DEF CopyRestore, server
<1>13. CASE Kill
  BY <1>13 DEF Kill, files, server, history
<1>14. CASE UNCHANGED vars
  BY <1>14 DEF vars, files, server, history
<1> QED
  BY <1>1, <1>2, <1>3, <1>4, <1>5, <1>6, <1>7, <1>8, <1>9, <1>10, <1>11, <1>12, <1>13,
     <1>14 DEF Next

-----------------------------------------------------------------------------
(* What the files hold *)

LEMMA FilesInit == Init => FilesInv
  BY DEF Init, FilesInv

\* A server that has started serves what was committed.
LEMMA FilesStart ==
  ASSUME TypeOK, FilesInv, NEW c \in Configs, Start(c)
  PROVE  FilesInv'
<1>1. boots' # 0 /\ mode' = "serving" /\ ~torn'
  BY LifecycleBoundsAssumption DEF Start, TypeOK
<1>2. db' = Whole(committed')
  BY FileTypes DEF Start, Whole, Files, TypeOK
<1>3. ASSUME ~careless', sidecar \notin {None, Truncated}
      PROVE  sidecar = lastBackup /\ sidecar.state = "whole"
  BY <1>3 DEF Start, FilesInv
<1> QED
  BY <1>1, <1>2, <1>3 DEF Start, FilesInv

\* A commit changes the database and what was committed alike.
LEMMA FilesCommit ==
  ASSUME TypeOK, FilesInv, NEW rows, Commit(rows)
  PROVE  FilesInv'
  BY DEF Commit, FilesInv, TypeOK

\* Only a database that no killed restore has left is copied to the backup,
\* and the digest written is that of the whole copy.
LEMMA FilesBackup ==
  ASSUME TypeOK, FilesInv, BeginBackup \/ CopyBackup \/ BeginDigest \/ WriteDigest
  PROVE  FilesInv'
<1>1. CASE BeginBackup
  BY <1>1 DEF BeginBackup, FilesInv, TypeOK, server
<1>2. CASE CopyBackup
  BY <1>2 DEF CopyBackup, FilesInv, TypeOK, server, history
<1>3. CASE BeginDigest
  BY <1>3 DEF BeginDigest, FilesInv, TypeOK, server, history
<1>4. CASE WriteDigest
  BY <1>4 DEF WriteDigest, FilesInv, TypeOK, server, Whole
<1> QED
  BY <1>1, <1>2, <1>3, <1>4

\* A restore starts from the last finished backup, or the operator is careless.
LEMMA FilesRestore ==
  ASSUME TypeOK, FilesInv, BeginRestore \/ CopyRestore
  PROVE  FilesInv'
<1>1. CASE BeginRestore
  BY <1>1 DEF BeginRestore, FilesInv, TypeOK, server, GoodBackup, Verified
<1>2. CASE CopyRestore
  <2>1. backup \in Files
    BY <1>2 DEF CopyRestore, FilesInv, TypeOK
  <2>2. backup.state = "whole" => backup = Whole(backup.rows)
    BY <2>1 DEF Files, Whole
  <2> QED
    BY <1>2, <2>2 DEF CopyRestore, FilesInv, TypeOK, server, GoodBackup
<1> QED
  BY <1>1, <1>2

LEMMA FilesStep ==
  ASSUME TypeOK, FilesInv, [Next]_vars
  PROVE  FilesInv'
<1>1. CASE Stop
  BY <1>1 DEF Stop, FilesInv, TypeOK, files, history, GoodBackup
<1>2. CASE Download
  BY <1>2 DEF Download, FilesInv, files, history, GoodBackup
<1>3. CASE Reveal
  BY <1>3 DEF Reveal, FilesInv, files, history, GoodBackup
<1>4. CASE Kill
  BY <1>4 DEF Kill, FilesInv, files, server, history, GoodBackup
<1>5. CASE UNCHANGED vars
  BY <1>5 DEF vars, FilesInv, files, server, history, GoodBackup
<1> QED
  BY <1>1, <1>2, <1>3, <1>4, <1>5, FilesStart, FilesCommit, FilesBackup, FilesRestore
     DEF Next, Upload, IssueToken

-----------------------------------------------------------------------------
(* Keys *)

LEMMA KeysInit == Init => KeysInv
  BY DEF Init, KeysInv, Plain

LEMMA KeysStep ==
  ASSUME TypeOK, FilesInv, KeysInv, [Next]_vars
  PROVE  KeysInv'
<1> SUFFICES ASSUME config'.enc = None, ~keyDropped'
             PROVE  Plain(db)' /\ Plain(backup)'
  BY DEF KeysInv
<1> USE DEF KeysInv
<1>1. ASSUME NEW c \in Configs, Start(c) PROVE Plain(db)' /\ Plain(backup)'
  BY <1>1, FileTypes DEF Start, Opened, Whole, EmptyRows, Plain
<1>2. CASE Stop
  BY <1>2 DEF Stop, files, history, Plain
<1>3. CASE Upload
  <2>1. config.enc = None /\ ~keyDropped /\ db # None /\ db \in Files
    BY <1>3 DEF Upload, Commit, TypeOK
  <2>2. db'.rows.object = Seal(None, writes + 1)
    BY <1>3, <2>1 DEF Upload, Commit, Whole, Files, Rows
  <2> QED
    BY <1>3, <2>1, <2>2 DEF Upload, Commit, Seal, Plain
<1>4. CASE Download
  BY <1>4 DEF Download, files, history, Plain
<1>5. CASE IssueToken
  <2>1. config.enc = None /\ ~keyDropped /\ db # None /\ db \in Files
    BY <1>5 DEF IssueToken, Commit, TypeOK
  <2>2. db'.rows.object = db.rows.object
    BY <1>5, <2>1 DEF IssueToken, Commit, Whole, Files, Rows
  <2> QED
    BY <1>5, <2>1, <2>2 DEF IssueToken, Commit, Plain
<1>6. CASE Reveal
  BY <1>6 DEF Reveal, files, history, Plain
<1>7. CASE BeginBackup
  BY <1>7 DEF BeginBackup, server, Truncated, EmptyRows, Plain
<1>8. CASE CopyBackup
  BY <1>8 DEF CopyBackup, server, history, FilesInv, Partial, Plain
<1>9. CASE BeginDigest
  BY <1>9 DEF BeginDigest, server, history, Plain
<1>10. CASE WriteDigest
  BY <1>10 DEF WriteDigest, server, Plain
<1>11. CASE BeginRestore
  BY <1>11 DEF BeginRestore, server, Truncated, EmptyRows, Plain
<1>12. CASE CopyRestore
  <2>1. Plain(backup) /\ backup # None /\ UNCHANGED backup
    BY <1>12 DEF CopyRestore, server, FilesInv
  <2>2. db' = Partial(backup) \/ db' = backup
    BY <1>12 DEF CopyRestore
  <2> QED
    BY <2>1, <2>2 DEF Partial, Plain
<1>13. CASE Kill
  BY <1>13 DEF Kill, files, server, history, Plain
<1>14. CASE UNCHANGED vars
  BY <1>14 DEF vars, files, server, history, Plain
<1> QED
  BY <1>1, <1>2, <1>3, <1>4, <1>5, <1>6, <1>7, <1>8, <1>9, <1>10, <1>11, <1>12, <1>13,
     <1>14 DEF Next

\* Other steps than downloads and reveals leave no answer behind.
LEMMA OnlyAnswers ==
  ASSUME TypeOK, Next, ~Download, ~Reveal
  PROVE  answer' = None
<1>1. answer = None \/ answer' = None
  BY DEF Next, Start, Stop, Upload, IssueToken, Commit, BeginBackup, CopyBackup,
         BeginDigest, WriteDigest, BeginRestore, CopyRestore, Kill, TypeOK
<1>2. answer' = answer \/ answer' = None
  BY DEF Next, Start, Stop, Upload, IssueToken, Commit, BeginBackup, CopyBackup,
         BeginDigest, WriteDigest, BeginRestore, CopyRestore, Kill, server
<1> QED
  BY <1>1, <1>2

\* A download answers with the payload in the clear or with an error.
LEMMA PayloadStep ==
  ASSUME TypeOK, FilesInv, KeysInv, PayloadOrError, [Next]_vars
  PROVE  PayloadOrError'
<1> SUFFICES ASSUME answer' # None, answer'.to = "download", answer'.body # None,
                    ~keyDropped'
             PROVE  answer'.body = Seal(None, db'.rows.object.data)
  BY DEF PayloadOrError
<1>1. CASE Download
  <2>1. /\ db # None /\ db \in Files /\ UNCHANGED <<db, keyDropped>>
        /\ answer'.body = Unseal(config.enc, db.rows.object)
    BY <1>1 DEF Download, TypeOK, files, history
  <2>2. db.rows.object \in Sealed(EncKeys)
    BY <1>1, <2>1 DEF Download, Files, Rows
  <2>3. CASE config.enc = None
    <3>1. db.rows.object.key = None
      BY <1>1, <2>1, <2>3 DEF Download, KeysInv, Plain
    <3>2. db.rows.object = Seal(None, db.rows.object.data)
      BY <2>2, <3>1 DEF Sealed, Seal
    <3> QED
      BY <2>1, <2>3, <3>2 DEF Unseal
  <2>4. CASE config.enc # None
    BY <2>1, <2>4 DEF Unseal
  <2> QED
    BY <2>3, <2>4
<1>2. CASE Reveal
  BY <1>2 DEF Reveal
<1>3. CASE UNCHANGED vars
  BY <1>3 DEF vars, files, server, history, PayloadOrError
<1>4. CASE Next /\ ~Download /\ ~Reveal
  BY <1>4, OnlyAnswers
<1> QED
  BY <1>1, <1>2, <1>3, <1>4

-----------------------------------------------------------------------------
(* Tokens *)

LEMMA TokensInit == Init => TokensInv
  BY DEF Init, TokensInv

\* What is known of a token stays true while nothing about secrets changes,
\* and after another secret was issued.
LEMMA RecordedStays ==
  ASSUME TypeOK, NEW t \in TokenRow, Recorded(t),
         \/ UNCHANGED <<writes, issuedUnder>>
         \/ /\ writes' = writes + 1
            /\ \/ UNCHANGED issuedUnder
               \/ issuedUnder' = [issuedUnder EXCEPT ![writes + 1] = config]
  PROVE  Recorded(t)'
<1>1. writes \in Nat /\ t.hash \in 1..writes /\ t.hash \in 1..MaxWrites
  BY LifecycleBoundsAssumption DEF TypeOK, Recorded
<1>2. t.hash \in 1..writes' /\ t.hash # writes + 1
  BY <1>1
<1>3. issuedUnder \in [1..MaxWrites -> Configs \cup {None}]
  BY DEF TypeOK
<1>4. issuedUnder'[t.hash] = issuedUnder[t.hash]
  BY <1>1, <1>2, <1>3
<1> QED
  BY <1>2, <1>4 DEF Recorded

\* The rows of a file are rows, with a token that is one or none.
LEMMA TokenOf ==
  ASSUME NEW f \in Files, f.rows.token # None
  PROVE  f.rows.token \in TokenRow
  BY DEF Files, Rows

\* A step that only copies files, or resets them, keeps their tokens.
LEMMA TokensCopied ==
  ASSUME TypeOK, TokensInv, UNCHANGED <<writes, issuedUnder>>,
         \A f \in {db', backup'} \ {None} :
           \/ f.rows.token = None
           \/ \E g \in {db, backup} \ {None} : f.rows = g.rows
  PROVE  TokensInv'
<1> SUFFICES ASSUME NEW f \in {db', backup'} \ {None}, f.rows.token # None
             PROVE  Recorded(f.rows.token)'
  BY DEF TokensInv
<1>1. PICK g \in {db, backup} \ {None} : f.rows = g.rows
  OBVIOUS
<1>2. g \in Files /\ g.rows.token # None /\ Recorded(g.rows.token)
  BY <1>1 DEF TypeOK, TokensInv
<1>3. g.rows.token \in TokenRow
  BY <1>2, TokenOf
<1>4. Recorded(f.rows.token)
  BY <1>1, <1>2
<1> QED
  BY <1>1, <1>3, <1>4, RecordedStays DEF Recorded

LEMMA TokensStep ==
  ASSUME TypeOK, FilesInv, TokensInv, [Next]_vars
  PROVE  TokensInv'
<1>1. ASSUME NEW c \in Configs, Start(c) PROVE TokensInv'
  <2>1. UNCHANGED <<writes, issuedUnder, backup>>
    BY <1>1 DEF Start
  <2>2. db'.rows.token = None \/ (db # None /\ db'.rows = db.rows)
    BY <1>1 DEF Start, Opened, Whole, EmptyRows
  <2> QED
    BY <2>1, <2>2, TokensCopied
<1>2. CASE Stop \/ Download \/ Reveal \/ Kill \/ BeginDigest \/ WriteDigest
             \/ UNCHANGED vars
  <2>1. UNCHANGED <<writes, issuedUnder, db, backup>>
    BY <1>2 DEF Stop, Download, Reveal, Kill, BeginDigest, WriteDigest, vars, files,
                server, history
  <2> QED
    BY <2>1, TokensCopied
<1>3. CASE Upload \/ IssueToken
  <2>1. /\ db # None /\ db \in Files /\ UNCHANGED backup
        /\ writes' = writes + 1 /\ writes \in Nat /\ boots \in Nat
        /\ writes + 1 \in 1..MaxWrites /\ config \in Configs
    BY <1>3, LifecycleBoundsAssumption DEF Upload, IssueToken, Commit, TypeOK
  <2>2. \/ UNCHANGED issuedUnder
        \/ issuedUnder' = [issuedUnder EXCEPT ![writes + 1] = config]
    BY <1>3 DEF Upload, IssueToken
  <2>3. \A f \in {db, backup} \ {None} :
          f.rows.token # None => Recorded(f.rows.token)'
    BY <2>1, <2>2, TokenOf, RecordedStays DEF TokensInv, TypeOK
  <2>4. CASE Upload
    <3>1. db'.rows.token = db.rows.token
      BY <2>1, <2>4 DEF Upload, Commit, Whole, Files, Rows
    <3> QED
      BY <2>1, <2>3, <3>1 DEF TokensInv
  <2>5. CASE IssueToken
    <3>0. PICK t : t = IssuedToken(writes + 1, RevealKey(config, boots))
      OBVIOUS
    <3>1. db'.rows.token = t
      BY <2>1, <2>5, <3>0 DEF IssueToken, Commit, Whole, Files, Rows
    <3>2. issuedUnder'[writes + 1] = config
      BY <2>1, <2>5 DEF IssueToken, TypeOK
    <3>3. t.hash = writes + 1 /\ t.copy.data = t.hash /\ t.copy.key = RevealKey(config, boots)
      BY <3>0 DEF IssuedToken, Seal
    <3>4. Recorded(t)'
      BY <2>1, <3>2, <3>3, KeyTypes DEF Recorded
    <3> QED
      BY <2>1, <2>3, <3>1, <3>4 DEF TokensInv
  <2> QED
    BY <1>3, <2>4, <2>5
<1>4. CASE BeginBackup \/ CopyBackup
  <2>1. UNCHANGED <<writes, issuedUnder, db>>
    BY <1>4 DEF BeginBackup, CopyBackup, server, history
  <2>2. backup'.rows.token = None \/ (db # None /\ backup'.rows = db.rows)
    BY <1>4 DEF BeginBackup, CopyBackup, FilesInv, Truncated, EmptyRows, Partial
  <2> QED
    BY <2>1, <2>2, TokensCopied
<1>5. CASE BeginRestore \/ CopyRestore
  <2>1. UNCHANGED <<writes, issuedUnder, backup>>
    BY <1>5 DEF BeginRestore, CopyRestore, server
  <2>2. db'.rows.token = None \/ (backup # None /\ db'.rows = backup.rows)
    BY <1>5 DEF BeginRestore, CopyRestore, FilesInv, Truncated, EmptyRows, Partial
  <2> QED
    BY <2>1, <2>2, TokensCopied
<1> QED
  BY <1>1, <1>2, <1>3, <1>4, <1>5 DEF Next

\* A reveal answers with the secret of the stored hash, and with nothing else.
LEMMA RevealStep ==
  ASSUME TypeOK, FilesInv, TokensInv, RevealKeepsWorking, [Next]_vars
  PROVE  RevealKeepsWorking'
<1>1. CASE Reveal
  <2>1. /\ db # None /\ db \in Files /\ db.rows.token # None
        /\ config \in Configs /\ boots \in Nat
        /\ UNCHANGED <<db, config, issuedUnder>>
    BY <1>1, LifecycleBoundsAssumption DEF Reveal, TypeOK, files, history
  <2>2. Recorded(db.rows.token)
    BY <2>1 DEF TokensInv
  <2>3. PICK t : t = db.rows.token
    OBVIOUS
  <2>4. PICK key : key = RevealKey(config, boots)
    OBVIOUS
  <2>5. t \in TokenRow /\ t.copy.data = t.hash /\ key # None
    BY <2>1, <2>2, <2>3, <2>4, TokenOf, KeyTypes DEF Recorded
  <2>6. answer'.body = IF t.copy.key = key THEN Seal(None, t.hash) ELSE None
    BY <1>1, <2>3, <2>4, <2>5 DEF Reveal, Unseal
  <2>7. Seal(None, t.hash) # None
    BY <2>5, LifecycleAbsentAssumption DEF Seal, Sealed, TokenRow
  <2>8. issuedUnder[t.hash] = config /\ RevealPersistent(config) => t.copy.key = key
    BY <2>1, <2>2, <2>3, <2>4, KeyTypes DEF Recorded
  <2> QED
    BY <2>1, <2>3, <2>6, <2>7, <2>8 DEF RevealKeepsWorking, RevealPersistent
<1>2. CASE Download
  BY <1>2 DEF Download, RevealKeepsWorking
<1>3. CASE UNCHANGED vars
  BY <1>3 DEF vars, files, server, history, RevealKeepsWorking, RevealPersistent
<1>4. CASE Next /\ ~Download /\ ~Reveal
  BY <1>4, OnlyAnswers DEF RevealKeepsWorking
<1> QED
  BY <1>1, <1>2, <1>3, <1>4

-----------------------------------------------------------------------------
(* The theorems *)

IInv == TypeOK /\ FilesInv /\ KeysInv /\ TokensInv /\ PayloadOrError /\ RevealKeepsWorking

LEMMA Inductive == Spec => []IInv
<1>1. Init => IInv
  BY TypeInit, FilesInit, KeysInit, TokensInit
     DEF IInv, Init, PayloadOrError, RevealKeepsWorking
<1>2. IInv /\ [Next]_vars => IInv'
  BY TypeStep, FilesStep, KeysStep, TokensStep, PayloadStep, RevealStep DEF IInv
<1> QED
  BY <1>1, <1>2, PTL DEF Spec

\* TypeOK holds for any sets of secrets and any number of starts and writes:
\* what is served is a whole database, beside no maintenance command.
THEOREM TypeCorrect == Spec => []TypeOK
<1>1. IInv => TypeOK
  BY DEF IInv
<1> QED
  BY <1>1, Inductive, PTL

\* SurvivingCopy: whichever of backup_database, write_checksum and
\* restore_database is killed, and when, the database or a backup that
\* restore_database accepts holds the data.
THEOREM CopySurvives == Spec => []SurvivingCopy
<1>1. IInv => SurvivingCopy
  <2> SUFFICES ASSUME TypeOK, FilesInv, boots # 0, ~careless, torn
               PROVE  backup = lastBackup /\ backup.state = "whole" /\ Verified(backup, sidecar)
    BY DEF IInv, FilesInv, SurvivingCopy
  <2> QED
    BY DEF FilesInv, GoodBackup
<1> QED
  BY <1>1, Inductive, PTL

\* PayloadOrError: decrypt_if_needed hands out the uploaded bytes or fails,
\* under any sequence of restarts with other keys and of restores.
THEOREM DownloadsAreGenuine == Spec => []PayloadOrError
<1>1. IInv => PayloadOrError
  BY DEF IInv
<1> QED
  BY <1>1, Inductive, PTL

\* RevealKeepsWorking: admin_reveal_token answers with the secret its token's
\* hash admits, and does so whenever the configured secrets are back.
THEOREM RevealsAreGenuine == Spec => []RevealKeepsWorking
<1>1. IInv => RevealKeepsWorking
  BY DEF IInv
<1> QED
  BY <1>1, Inductive, PTL
=============================================================================
