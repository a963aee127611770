--------------------------- MODULE Storage_proofs ---------------------------
(***************************************************************************)
(* Proofs about Storage for every value of its constants.                  *)
(***************************************************************************)
EXTENDS Storage, TLAPS

Path == Backup \cup {Database}
Content == [versions : SUBSET Int, data : Nat, flushed : Nat]

(* What a tool knows at each of its places.                                *)
Starting(r) ==
    r = [tool |-> r.tool, at |-> r.at, source |-> r.source, target |-> r.target, since |-> r.since]
Copier(r) ==
    /\ Starting(r) /\ url = "sqlite" /\ r.since \in Nat
    /\ r.at \in {"start", "checked", "created", "copied", "reported"}
    /\ \/ r.tool = "backup" /\ r.source = Database /\ r.target \in Backup
       \/ r.tool = "restore" /\ r.source \in Backup /\ r.target = Database
Starter(r) == Starting(r) /\ r.tool \in {"migrate", "dev", "prod"} /\ r.at \in {"start", "locked"}
Reader(r) ==
    /\ r = [tool |-> r.tool, at |-> "read", todo |-> r.todo]
    /\ r.tool \in {"migrate", "dev"}
Work(r) == r = Idle \/ Copier(r) \/ Starter(r) \/ Reader(r)

Types ==
    /\ url \in {"sqlite", "postgres"}
    /\ file \in [Path -> Content] /\ commits \in Nat /\ app \in BOOLEAN
    /\ DOMAIN process = Process
    /\ \A p \in Process : Work(process[p])

(* Nothing works beside a restore.                                         *)
RestoreAlone ==
    \A p \in Process : process[p].tool = "restore" =>
        ~app /\ \A q \in Process : q # p => process[q] = Idle

(* PostgreSQL: who is past the advisory lock holds it.                     *)
LockHeld ==
    url = "postgres" => \A p \in Process : process[p].at \in {"locked", "read"} => lock = {p}

(* The migrations in a database, and those a reader has left to apply.     *)
Schemas ==
    /\ url = "postgres" =>
          Exists(Database) /\ \E n \in 0..Latest : file[Database].versions = 1..n
    /\ url = "sqlite" => \A f \in Path : Exists(f) => file[f].versions \subseteq {Latest}
    /\ app => Exists(Database) /\ file[Database].versions = Files
ReaderFits(p) ==
    process[p].at = "read" =>
        /\ Exists(Database)
        /\ process[p].todo \subseteq Files
        /\ Files \ file[Database].versions \subseteq process[p].todo
        /\ url = "postgres" => process[p].todo = Files \ file[Database].versions
ReadersFit == \A p \in Process : ReaderFits(p)

(* A file has one writer, who made it; no copy is behind the start of its  *)
(* tool.                                                                   *)
Writing(p) == process[p].tool \in {"backup", "restore"}
              /\ process[p].at \in {"created", "copied", "reported"}
OneWriter ==
    \A p, q \in Process :
        Writing(p) /\ Writing(q) /\ process[p].target = process[q].target => p = q
CopyFits(p) ==
    process[p].tool \in {"backup", "restore"} =>
        /\ Writing(p) => Exists(process[p].target)
        /\ process[p].at = "created" => file[process[p].target].data = 0
        /\ process[p].at \in {"start", "checked", "created"} =>
              process[p].since <= file[process[p].source].data
        /\ process[p].at \in {"copied", "reported"} =>
              process[p].since <= file[process[p].target].data
        /\ process[p].at = "reported" => Current(process[p].target)
CopiesFit ==
    /\ \A f \in Path : file[f].data <= commits
    /\ \A p \in Process : CopyFits(p)

StorageInv ==
    Types /\ RestoreAlone /\ LockHeld /\ Schemas /\ ReadersFit /\ OneWriter /\ CopiesFit

LEMMA PathsApart == Database \notin Backup /\ Latest \in Nat \ {0} /\ Latest \in Int
BY StorageAssumption

LEMMA InitStorageInv == Init => StorageInv
<1> SUFFICES ASSUME Init PROVE StorageInv
  OBVIOUS
<1>1. Types
  <2>1. Missing \in Content /\ Empty \in Content
    BY DEF Missing, Empty, Content
  <2> QED BY <2>1 DEF Init, Types, Path, Work
<1>2. RestoreAlone /\ LockHeld /\ ReadersFit /\ OneWriter
  BY DEF Init, RestoreAlone, LockHeld, ReadersFit, ReaderFits, OneWriter, Writing, Idle
<1>3. Schemas
  <2>1. url = "postgres" => file[Database] = Empty /\ {} = 1..0 /\ 0 \in 0..Latest
    BY PathsApart DEF Init
  <2>2. Empty # Missing /\ Empty.versions = {}
    BY DEF Empty, Missing
  <2>3. url = "sqlite" => \A f \in Path : ~Exists(f)
    BY DEF Init, Path, Exists
  <2> QED BY <2>1, <2>2, <2>3 DEF Init, Schemas, Exists
<1>4. CopiesFit
  BY DEF Init, CopiesFit, CopyFits, Path, Missing, Empty, Idle
<1> QED BY <1>1, <1>2, <1>3, <1>4 DEF StorageInv

----------------------------------------------------------------------------
(* A step of one tool.                                                     *)
Others(p) ==
    DOMAIN process' = Process /\ \A q \in Process \ {p} : process'[q] = process[q]
Moved(p, place) ==
    process'[p] = [tool |-> process[p].tool, at |-> place, source |-> process[p].source,
                   target |-> process[p].target, since |-> process[p].since]

LEMMA GoStep ==
    ASSUME Types, NEW p \in Process, NEW place, Starting(process[p]), Go(p, place)
    PROVE  Others(p) /\ Moved(p, place)
BY DEF Types, Starting, Go, Others, Moved

LEMMA EndStep ==
    ASSUME Types, NEW p \in Process, End(p)
    PROVE  Others(p) /\ process'[p] = Idle
BY DEF Types, End, Others

LEMMA TheWorker ==
    ASSUME Types, NEW p \in Process
    PROVE  /\ process[p].tool \in {"backup", "restore"} => Copier(process[p])
           /\ process[p].tool \in {"migrate", "dev", "prod"} => Starter(process[p]) \/ Reader(process[p])
           /\ process[p].tool = "prod" \/ process[p].at \in {"locked"} => Starter(process[p])
           /\ process[p].at = "start" /\ process[p].tool \in {"migrate", "dev"} => Starter(process[p])
           /\ process[p].at = "read" => Reader(process[p])
           /\ process[p] = Idle <=> process[p].tool = "none"
BY DEF Types, Work, Copier, Starter, Reader, Idle

(* The absence of a file shows in its versions.                            *)
LEMMA DatabaseThere ==
    ASSUME StorageInv
    PROVE  /\ Exists(Database) <=> -1 \notin file[Database].versions
           /\ ~Exists(Database) => file[Database] = Missing
<1>1. -1 \notin {Latest} /\ \A n \in 0..Latest : -1 \notin 1..n
  BY PathsApart
<1> QED BY <1>1, PathsApart DEF StorageInv, Types, Schemas, Exists, Missing, Path

(* Commits and migrations of the database leave copies as good as before.  *)
LEMMA DatabaseGrows ==
    ASSUME StorageInv, file' \in [Path -> Content], commits' \in Nat, commits <= commits',
           \A f \in Backup : file'[f] = file[f],
           file[Database].data <= file'[Database].data, file'[Database].data <= commits',
           \A q \in Process : process[q].tool # "restore",
           \A q \in Process : process'[q].tool \in {"backup", "restore"} => process'[q] = process[q]
    PROVE  CopiesFit'
<1>1. \A f \in Path : file[f].data \in Nat /\ file'[f].data \in Nat /\ file[f].data <= commits
  BY DEF StorageInv, Types, Content, CopiesFit
<1>2. \A f \in Path : file'[f].data <= commits'
  BY <1>1 DEF Path, StorageInv, Types
<1>3. ASSUME NEW q \in Process, process'[q].tool \in {"backup", "restore"} PROVE CopyFits(q)'
  <2>1. /\ process'[q] = process[q] /\ CopyFits(q)
        /\ process[q].source = Database /\ process[q].target \in Backup
        /\ process[q].since \in Nat
    <3>1. process'[q] = process[q] /\ CopyFits(q) /\ process[q].tool = "backup"
      BY <1>3 DEF StorageInv, CopiesFit
    <3>2. Copier(process[q])
      BY <3>1, TheWorker DEF StorageInv
    <3>3. process[q].since \in Nat /\ process[q].source = Database /\ process[q].target \in Backup
      BY <3>1, <3>2 DEF Copier
    <3> QED BY <3>1, <3>3
  <2>2. file'[process[q].target] = file[process[q].target]
    BY <2>1
  <2>3. process[q].since <= file[Database].data => process[q].since <= file'[Database].data
    BY <1>1, <2>1 DEF Path
  <2> QED BY <2>1, <2>2, <2>3 DEF CopyFits, Writing, Exists, Current
<1> QED BY <1>2, <1>3 DEF CopiesFit, CopyFits

----------------------------------------------------------------------------
(* Steps that touch no file and leave one tool at another place.           *)

LEMMA StartBackupKeeps ==
    ASSUME StorageInv, NEW p \in Process, NEW f \in Backup, StartBackup(p, f)
    PROVE  StorageInv'
<1> USE PathsApart DEF StorageInv, StartBackup, Run, Restoring, Idle
<1>1. Types'
  BY DEF Types, Work, Copier, Starter, Reader, Starting, Path, Content
<1>2. RestoreAlone'
  BY DEF Types, Work, Copier, Starter, Reader, RestoreAlone
<1>3. LockHeld'
  BY DEF Types, Work, Copier, Starter, Reader, LockHeld
<1>4. Schemas'
  BY DEF Types, Schemas, Exists, Files
<1>5. ReadersFit'
  BY DEF Types, ReadersFit, ReaderFits, Exists, Files
<1>6. OneWriter'
  BY DEF Types, OneWriter, Writing
<1>7. CopiesFit'
  <2>1. /\ Others(p) /\ UNCHANGED <<file, commits>>
        /\ process'[p] = [tool |-> "backup", at |-> "start", source |-> Database, target |-> f,
                          since |-> file[Database].data]
    BY DEF Types, Others
  <2>2. file[Database].data \in Nat
    BY DEF Types, Content, Path
  <2>3. ASSUME NEW q \in Process PROVE CopyFits(q)'
    <3>1. CASE q = p
      BY <2>1, <2>2, <3>1 DEF CopyFits, Writing
    <3>2. CASE q # p
      <4>1. process'[q] = process[q] /\ CopyFits(q)
        BY <2>1, <3>2 DEF CopiesFit
      <4> QED BY <2>1, <4>1 DEF CopyFits, Writing, Exists, Current
    <3> QED BY <3>1, <3>2
  <2> QED BY <2>1, <2>3 DEF CopiesFit
<1> QED BY <1>1, <1>2, <1>3, <1>4, <1>5, <1>6, <1>7

LEMMA StartRestoreKeeps ==
    ASSUME StorageInv, NEW p \in Process, NEW f \in Backup, StartRestore(p, f)
    PROVE  StorageInv'
<1> USE PathsApart DEF StorageInv, StartRestore, Run, Alone, Idle
<1>1. Types'
  BY DEF Types, Work, Copier, Starter, Reader, Starting, Path, Content
<1>2. RestoreAlone'
  BY DEF Types, Work, Copier, Starter, Reader, RestoreAlone
<1>3. LockHeld'
  BY DEF Types, Work, Copier, Starter, Reader, LockHeld
<1>4. Schemas'
  BY DEF Types, Schemas, Exists, Files
<1>5. ReadersFit'
  BY DEF Types, ReadersFit, ReaderFits, Exists, Files
<1>6. OneWriter'
  BY DEF Types, OneWriter, Writing
<1>7. CopiesFit'
  <2>1. /\ Others(p) /\ UNCHANGED <<file, commits>>
        /\ process'[p] = [tool |-> "restore", at |-> "start", source |-> f, target |-> Database,
                          since |-> file[f].data]
    BY DEF Types, Others
  <2>2. file[f].data \in Nat
    BY DEF Types, Content, Path
  <2>3. ASSUME NEW q \in Process PROVE CopyFits(q)'
    <3>1. CASE q = p
      BY <2>1, <2>2, <3>1 DEF CopyFits, Writing
    <3>2. CASE q # p
      <4>1. process'[q] = process[q] /\ CopyFits(q)
        BY <2>1, <3>2 DEF CopiesFit
      <4> QED BY <2>1, <4>1 DEF CopyFits, Writing, Exists, Current
    <3> QED BY <3>1, <3>2
  <2> QED BY <2>1, <2>3 DEF CopiesFit
<1> QED BY <1>1, <1>2, <1>3, <1>4, <1>5, <1>6, <1>7

LEMMA StartMigrationKeeps ==
    ASSUME StorageInv, NEW p \in Process, NEW tool \in {"migrate", "dev", "prod"}, StartMigration(p, tool)
    PROVE  StorageInv'
<1> USE PathsApart DEF StorageInv, StartMigration, Run, Restoring, Idle
<1>1. Types'
  BY DEF Types, Work, Copier, Starter, Reader, Starting, Path, Content
<1>2. RestoreAlone'
  BY DEF Types, Work, Copier, Starter, Reader, RestoreAlone
<1>3. LockHeld'
  BY DEF Types, Work, Copier, Starter, Reader, LockHeld
<1>4. Schemas'
  BY DEF Types, Schemas, Exists, Files
<1>5. ReadersFit'
  BY DEF Types, ReadersFit, ReaderFits, Exists, Files
<1>6. OneWriter'
  BY DEF Types, OneWriter, Writing
<1>7. CopiesFit'
  BY DEF Types, CopiesFit, CopyFits, Writing, Exists, Current, Path
<1> QED BY <1>1, <1>2, <1>3, <1>4, <1>5, <1>6, <1>7

(* A tool ends and leaves the files as they are.                           *)
LEMMA IdleKeeps ==
    ASSUME StorageInv, NEW p \in Process, Others(p), process'[p] = Idle,
           UNCHANGED <<url, file, commits, app, lock>>
    PROVE  StorageInv'
<1>1. Types'
  BY DEF StorageInv, Types, Work, Others, Copier, Starter, Reader
<1>2. RestoreAlone' /\ LockHeld' /\ Schemas' /\ OneWriter'
  BY DEF StorageInv, RestoreAlone, LockHeld, Schemas, OneWriter, Writing, Others, Idle, Exists, Files
<1>3. ASSUME NEW q \in Process PROVE ReaderFits(q)' /\ CopyFits(q)'
  <2>1. CASE q = p
    BY <2>1 DEF CopyFits, ReaderFits, Idle
  <2>2. CASE q # p
    <3>1. process'[q] = process[q] /\ ReaderFits(q) /\ CopyFits(q)
      BY <2>2 DEF StorageInv, ReadersFit, CopiesFit, Others
    <3> QED BY <3>1 DEF ReaderFits, CopyFits, Writing, Exists, Current, Files
  <2> QED BY <2>1, <2>2
<1> QED BY <1>1, <1>2, <1>3 DEF StorageInv, ReadersFit, CopiesFit

LEMMA CheckCopyKeeps ==
    ASSUME StorageInv, NEW p \in Process, CheckCopy(p)
    PROVE  StorageInv'
<1>1. Copier(process[p]) /\ process[p].at = "start"
  BY TheWorker DEF StorageInv, CheckCopy, Copying
<1>2. /\ Others(p) /\ UNCHANGED <<url, file, commits, app, lock>>
      /\ process'[p] = Idle \/ Moved(p, "checked")
  <2>1. Go(p, "checked") \/ End(p)
    BY DEF CheckCopy
  <2> QED BY <1>1, <2>1, GoStep, EndStep DEF StorageInv, CheckCopy, Copier
<1>3. Types'
  <2>1. process'[p] = Idle \/ Copier(process'[p])
    BY <1>1, <1>2 DEF Copier, Starting, Moved
  <2> QED BY <1>2, <2>1 DEF StorageInv, Types, Work, Others, Copier, Starter, Reader
<1>4. RestoreAlone' /\ LockHeld' /\ Schemas' /\ OneWriter'
  BY <1>1, <1>2 DEF StorageInv, RestoreAlone, LockHeld, Schemas, OneWriter, Writing,
     Others, Moved, Idle, Copier, Exists, Files
<1>5. ASSUME NEW q \in Process PROVE ReaderFits(q)' /\ CopyFits(q)'
  <2>1. CASE q = p
    BY <1>1, <1>2, <2>1 DEF StorageInv, CopiesFit, CopyFits, ReaderFits, Writing, Moved, Idle, Copier
  <2>2. CASE q # p
    <3>1. process'[q] = process[q] /\ ReaderFits(q) /\ CopyFits(q)
      BY <1>2, <2>2 DEF StorageInv, ReadersFit, CopiesFit, Others
    <3> QED BY <1>2, <3>1 DEF ReaderFits, CopyFits, Writing, Exists, Current, Files
  <2> QED BY <2>1, <2>2
<1> QED BY <1>2, <1>3, <1>4, <1>5 DEF StorageInv, ReadersFit, CopiesFit

LEMMA LockKeeps ==
    ASSUME StorageInv, NEW p \in Process, Lock(p)
    PROVE  StorageInv'
<1>1. Starter(process[p]) /\ process[p].at = "start"
  BY TheWorker DEF StorageInv, Lock, Migrating
<1>2. /\ Others(p) /\ UNCHANGED <<url, file, commits, app>>
      /\ \/ process'[p] = Idle /\ lock' = lock
         \/ Moved(p, "locked") /\ (url = "postgres" => lock = {} /\ lock' = {p})
  <2>1. \/ url = "postgres" /\ lock = {} /\ lock' = {p} /\ Go(p, "locked")
        \/ End(p) /\ UNCHANGED lock
        \/ url = "sqlite" /\ Go(p, "locked") /\ UNCHANGED lock
    BY DEF Lock
  <2> QED BY <1>1, <2>1, GoStep, EndStep DEF StorageInv, Lock, Starter
<1>3. Types'
  <2>1. process'[p] = Idle \/ Starter(process'[p])
    BY <1>1, <1>2 DEF Starter, Starting, Moved
  <2> QED BY <1>2, <2>1 DEF StorageInv, Types, Work, Others, Copier
<1>4. LockHeld'
  <2>1. lock = {} => \A q \in Process : url = "postgres" => process[q].at \notin {"locked", "read"}
    BY DEF StorageInv, LockHeld
  <2> QED BY <1>2, <2>1 DEF StorageInv, LockHeld, Others, Moved, Idle
<1>5. RestoreAlone' /\ Schemas' /\ OneWriter'
  BY <1>1, <1>2 DEF StorageInv, RestoreAlone, Schemas, OneWriter, Writing,
     Others, Moved, Idle, Starter, Exists, Files
<1>6. ASSUME NEW q \in Process PROVE ReaderFits(q)' /\ CopyFits(q)'
  <2>1. CASE q = p
    BY <1>1, <1>2, <2>1 DEF CopyFits, ReaderFits, Moved, Idle, Starter
  <2>2. CASE q # p
    <3>1. process'[q] = process[q] /\ ReaderFits(q) /\ CopyFits(q)
      BY <1>2, <2>2 DEF StorageInv, ReadersFit, CopiesFit, Others
    <3> QED BY <1>2, <3>1 DEF ReaderFits, CopyFits, Writing, Exists, Current, Files
  <2> QED BY <2>1, <2>2
<1> QED BY <1>2, <1>3, <1>4, <1>5, <1>6 DEF StorageInv, ReadersFit, CopiesFit

LEMMA VerifyCopyKeeps ==
    ASSUME StorageInv, NEW p \in Process, VerifyCopy(p)
    PROVE  StorageInv'
<1> USE PathsApart DEF StorageInv, VerifyCopy, Copying, Go, Idle
<1>1. Types'
  BY DEF Types, Work, Copier, Starter, Reader, Starting, Path, Content
<1>2. RestoreAlone'
  BY DEF Types, Work, Copier, Starter, Reader, RestoreAlone
<1>3. LockHeld'
  BY DEF Types, Work, Copier, Starter, Reader, LockHeld
<1>4. Schemas'
  BY DEF Types, Schemas, Exists, Files
<1>5. ReadersFit'
  BY DEF Types, ReadersFit, ReaderFits, Exists, Files
<1>6. OneWriter'
  BY DEF Types, OneWriter, Writing
<1>7. CopiesFit'
  BY DEF Types, CopiesFit, CopyFits, Writing, Exists, Current, Path
<1> QED BY <1>1, <1>2, <1>3, <1>4, <1>5, <1>6, <1>7

LEMMA KillKeeps ==
    ASSUME StorageInv, NEW p \in Process, Kill(p)
    PROVE  StorageInv'
<1> USE PathsApart DEF StorageInv, Kill, End, Idle
<1>1. Types'
  BY DEF Types, Work, Copier, Starter, Reader, Starting, Path, Content
<1>2. RestoreAlone'
  BY DEF Types, Work, Copier, Starter, Reader, RestoreAlone
<1>3. LockHeld'
  BY DEF Types, Work, Copier, Starter, Reader, LockHeld
<1>4. Schemas'
  BY DEF Types, Schemas, Exists, Files
<1>5. ReadersFit'
  BY DEF Types, ReadersFit, ReaderFits, Exists, Files
<1>6. OneWriter'
  BY DEF Types, OneWriter, Writing
<1>7. CopiesFit'
  BY DEF Types, CopiesFit, CopyFits, Writing, Exists, Current, Path
<1> QED BY <1>1, <1>2, <1>3, <1>4, <1>5, <1>6, <1>7

LEMMA FailMigrationKeeps ==
    ASSUME StorageInv, NEW p \in Process, FailMigration(p)
    PROVE  StorageInv'
<1> USE PathsApart DEF StorageInv, FailMigration, Migrating, End, Idle
<1>1. Types'
  BY DEF Types, Work, Copier, Starter, Reader, Starting, Path, Content
<1>2. RestoreAlone'
  BY DEF Types, Work, Copier, Starter, Reader, RestoreAlone
<1>3. LockHeld'
  BY DEF Types, Work, Copier, Starter, Reader, LockHeld
<1>4. Schemas'
  BY DEF Types, Schemas, Exists, Files
<1>5. ReadersFit'
  BY DEF Types, ReadersFit, ReaderFits, Exists, Files
<1>6. OneWriter'
  BY DEF Types, OneWriter, Writing
<1>7. CopiesFit'
  BY DEF Types, CopiesFit, CopyFits, Writing, Exists, Current, Path
<1> QED BY <1>1, <1>2, <1>3, <1>4, <1>5, <1>6, <1>7

LEMMA EndMigrationKeeps ==
    ASSUME StorageInv, NEW p \in Process, EndMigration(p)
    PROVE  StorageInv'
<1> USE PathsApart DEF StorageInv, EndMigration, Migrating, End, Idle
<1>1. Types'
  BY DEF Types, Work, Copier, Starter, Reader, Starting, Path, Content
<1>2. RestoreAlone'
  BY DEF Types, Work, Copier, Starter, Reader, RestoreAlone
<1>3. LockHeld'
  BY DEF Types, Work, Copier, Starter, Reader, LockHeld
<1>4. Schemas'
  <2>1. process[p].at = "read" /\ process[p].todo = {} /\ Exists(Database)
        /\ Files \ file[Database].versions \subseteq {}
    BY DEF ReadersFit, ReaderFits
  <2>2. file[Database].versions \subseteq Files
    BY <2>1 DEF Types, Schemas, Files, Path
  <2> QED BY <2>1, <2>2 DEF Types, Schemas, Exists, Files
<1>5. ReadersFit'
  BY DEF Types, ReadersFit, ReaderFits, Exists, Files
<1>6. OneWriter'
  BY DEF Types, OneWriter, Writing
<1>7. CopiesFit'
  BY DEF Types, CopiesFit, CopyFits, Writing, Exists, Current, Path
<1> QED BY <1>1, <1>2, <1>3, <1>4, <1>5, <1>6, <1>7

LEMMA StopKeeps ==
    ASSUME StorageInv, Stop
    PROVE  StorageInv'
<1> USE PathsApart DEF StorageInv, Stop, Idle
<1>1. Types'
  BY DEF Types, Work, Copier, Starter, Reader, Starting, Path, Content
<1>2. RestoreAlone'
  BY DEF Types, Work, Copier, Starter, Reader, RestoreAlone
<1>3. LockHeld'
  BY DEF Types, Work, Copier, Starter, Reader, LockHeld
<1>4. Schemas'
  BY DEF Types, Schemas, Exists, Files
<1>5. ReadersFit'
  BY DEF Types, ReadersFit, ReaderFits, Exists, Files
<1>6. OneWriter'
  BY DEF Types, OneWriter, Writing
<1>7. CopiesFit'
  BY DEF Types, CopiesFit, CopyFits, Writing, Exists, Current, Path
<1> QED BY <1>1, <1>2, <1>3, <1>4, <1>5, <1>6, <1>7

----------------------------------------------------------------------------
(* Steps that write a file.                                                *)

(* A tool writes the file it is about to make, or has made.                *)
LEMMA CopierWrites ==
    ASSUME StorageInv, NEW p \in Process, Copier(process[p]), Others(p),
           NEW c \in Content, file' = [file EXCEPT ![process[p].target] = c],
           UNCHANGED <<url, commits, app, lock>>,
           c = Missing \/ c.versions \subseteq {Latest}, c.data <= commits,
           Writing(p) \/ ~Exists(process[p].target),
           \/ process'[p] = Idle
           \/ Moved(p, "created") /\ process[p].at = "checked" /\ c = Empty
           \/ Moved(p, "copied") /\ c # Missing /\ process[p].since <= c.data
    PROVE  StorageInv'
<1> DEFINE t == process[p].target
           s == process[p].source
<1>1. /\ url = "sqlite" /\ t \in Path /\ s \in Path /\ s # t /\ process[p] # Idle
      /\ process[p].since \in Nat
      /\ process[p].tool = "backup" => t # Database /\ s = Database
      /\ process[p].tool \in {"backup", "restore"}
  BY PathsApart DEF Copier, Path, Idle
<1>2. /\ \A f \in Path : f # t => file'[f] = file[f]
      /\ file'[t] = c /\ file' \in [Path -> Content]
  BY <1>1 DEF StorageInv, Types
<1>3. Empty # Missing /\ Empty.data = 0
  BY DEF Empty, Missing
<1>4. Types'
  <2>1. process'[p] = Idle \/ Copier(process'[p])
    BY <1>1 DEF Copier, Starting, Moved
  <2> QED BY <1>2, <2>1 DEF StorageInv, Types, Work, Others, Copier, Starter, Reader
<1>5. RestoreAlone'
  BY <1>1 DEF StorageInv, RestoreAlone, Others, Moved, Idle
<1>6. LockHeld'
  BY <1>1 DEF LockHeld
<1>7. ASSUME NEW q \in Process, q # p, process[q] # Idle
      PROVE  process[p].tool = "backup" /\ process[q].tool # "restore" /\ t # Database
  BY <1>1, <1>7 DEF StorageInv, RestoreAlone
<1>8. app => t # Database
  BY <1>1 DEF StorageInv, RestoreAlone
<1>9. Schemas'
  <2>1. \A f \in Path : Exists(f)' => file'[f].versions \subseteq {Latest}
    BY <1>1, <1>2 DEF StorageInv, Schemas, Exists
  <2>2. app => Exists(Database)' /\ file'[Database].versions = Files
    BY <1>2, <1>8 DEF StorageInv, Schemas, Exists, Path
  <2> QED BY <1>1, <2>1, <2>2 DEF Schemas, Files
<1>10. ASSUME NEW q \in Process, q # p, Writing(q)
       PROVE  process[q].target # t /\ process[q].target \in Path
  <2>1. Copier(process[q]) /\ Exists(process[q].target)
    BY <1>10, TheWorker DEF StorageInv, CopiesFit, CopyFits, Writing
  <2>2. process[q].target # t
    BY <1>10, <2>1 DEF StorageInv, OneWriter
  <2> QED BY <2>1, <2>2 DEF Copier, Path
<1>11. OneWriter'
  <2> SUFFICES ASSUME NEW q \in Process, NEW r \in Process, q # r, Writing(q)', Writing(r)'
               PROVE  process'[q].target # process'[r].target
    BY DEF OneWriter
  <2>1. ASSUME NEW o \in Process, o # p, Writing(o)'
        PROVE  Writing(o) /\ process'[o].target = process[o].target
    BY <2>1 DEF Others, Writing
  <2>2. Writing(p)' => process'[p].target = t
    BY DEF Writing, Moved, Idle
  <2> QED BY <1>10, <2>1, <2>2 DEF StorageInv, OneWriter
<1>12. ASSUME NEW q \in Process PROVE ReaderFits(q)' /\ CopyFits(q)'
  <2>1. CASE q = p
    <3>1. ReaderFits(q)'
      BY <2>1 DEF ReaderFits, Moved, Idle
    <3>2. CASE process'[p] = Idle
      BY <2>1, <3>1, <3>2 DEF CopyFits, Idle
    <3>3. CASE Moved(p, "created") /\ process[p].at = "checked" /\ c = Empty
      <4>1. process[p].since <= file[s].data
        BY <1>1, <3>3 DEF StorageInv, CopiesFit, CopyFits
      <4> QED BY <1>1, <1>2, <1>3, <2>1, <3>1, <3>3, <4>1 DEF CopyFits, Writing, Exists, Moved
    <3>4. CASE Moved(p, "copied") /\ c # Missing /\ process[p].since <= c.data
      BY <1>1, <1>2, <2>1, <3>1, <3>4 DEF CopyFits, Writing, Exists, Moved
    <3> QED BY <3>1, <3>2, <3>3, <3>4
  <2>2. CASE q # p
    <3>1. process'[q] = process[q] /\ ReaderFits(q) /\ CopyFits(q)
      BY <2>2 DEF StorageInv, ReadersFit, CopiesFit, Others
    <3>2. ReaderFits(q)'
      <4>1. process[q].at = "read" => file'[Database] = file[Database]
        BY <1>2, <1>7, <2>2 DEF Idle, Path
      <4> QED BY <3>1, <4>1 DEF ReaderFits, Exists, Files
    <3>3. CopyFits(q)'
      <4> SUFFICES ASSUME process[q].tool \in {"backup", "restore"} PROVE CopyFits(q)'
        BY <3>1 DEF CopyFits
      <4>1. Copier(process[q]) /\ process[q] # Idle
        BY TheWorker DEF StorageInv, Idle
      <4>2. process[q].source = Database /\ file'[Database] = file[Database]
        BY <1>2, <1>7, <2>2, <4>1 DEF Copier, Path
      <4>3. Writing(q) => file'[process[q].target] = file[process[q].target]
        BY <1>2, <1>10, <2>2
      <4> QED BY <3>1, <4>2, <4>3 DEF CopyFits, Writing, Exists, Current
    <3> QED BY <3>2, <3>3
  <2> QED BY <2>1, <2>2
<1>13. \A f \in Path : file'[f].data <= commits'
  BY <1>2 DEF StorageInv, CopiesFit
<1> QED BY <1>4, <1>5, <1>6, <1>9, <1>11, <1>12, <1>13 DEF StorageInv, ReadersFit, CopiesFit

LEMMA CopyingWorker ==
    ASSUME StorageInv, NEW p \in Process, NEW place, Copying(p, place)
    PROVE  Copier(process[p]) /\ Starting(process[p]) /\ process[p].at = place
BY TheWorker DEF StorageInv, Copying, Copier

LEMMA CreateKeeps ==
    ASSUME StorageInv, NEW p \in Process, Create(p)
    PROVE  StorageInv'
<1>1. Copier(process[p]) /\ Starting(process[p]) /\ process[p].at = "checked"
  BY CopyingWorker DEF Create
<1>2. CASE Exists(process[p].target)
  <2>1. Others(p) /\ process'[p] = Idle /\ UNCHANGED <<url, file, commits, app, lock>>
    BY <1>2, EndStep DEF StorageInv, Create
  <2> QED BY <2>1, IdleKeeps
<1>3. CASE ~Exists(process[p].target)
  <2>1. /\ Others(p) /\ Moved(p, "created") /\ UNCHANGED <<url, commits, app, lock>>
        /\ file' = [file EXCEPT ![process[p].target] = Empty]
    BY <1>1, <1>3, GoStep DEF StorageInv, Create, Put
  <2>2. Empty \in Content /\ Empty.versions \subseteq {Latest} /\ Empty.data <= commits
    BY DEF Empty, Content, StorageInv, Types
  <2> QED BY <1>1, <1>3, <2>1, <2>2, CopierWrites
<1> QED BY <1>2, <1>3

LEMMA CopyKeeps ==
    ASSUME StorageInv, NEW p \in Process, Copy(p)
    PROVE  StorageInv'
<1> DEFINE s == process[p].source
           c == Snapshot(s)
<1>1. Copier(process[p]) /\ Starting(process[p]) /\ process[p].at = "created"
  BY CopyingWorker DEF Copy
<1>2. /\ Others(p) /\ Moved(p, "copied") /\ UNCHANGED <<url, commits, app, lock>>
      /\ file' = [file EXCEPT ![process[p].target] = c] /\ Exists(s)
  BY <1>1, GoStep DEF StorageInv, Copy, Put
<1>3. s \in Path /\ file[s] \in Content
  BY <1>1 DEF Copier, Path, StorageInv, Types
<1>4. c = [versions |-> file[s].versions, data |-> file[s].data, flushed |-> file[s].data]
  BY <1>3 DEF Snapshot, Content
<1>5. file[s].versions \subseteq {Latest}
  BY <1>1, <1>2, <1>3 DEF Copier, StorageInv, Schemas
<1>6. c \in Content /\ c.versions \subseteq {Latest} /\ c.data = file[s].data
  BY <1>3, <1>4, <1>5 DEF Content
<1>7. c # Missing
  BY <1>6, PathsApart DEF Missing
<1>8. process[p].since <= file[s].data /\ file[s].data <= commits /\ Writing(p)
  BY <1>1, <1>3 DEF StorageInv, CopiesFit, CopyFits, Copier, Writing
<1> HIDE DEF c
<1> QED BY <1>1, <1>2, <1>6, <1>7, <1>8, CopierWrites

LEMMA FailCopyKeeps ==
    ASSUME StorageInv, NEW p \in Process, FailCopy(p)
    PROVE  StorageInv'
<1>1. Copier(process[p]) /\ process[p].at \in {"created", "copied"}
  BY CopyingWorker DEF FailCopy
<1>2. /\ Others(p) /\ process'[p] = Idle /\ UNCHANGED <<url, commits, app, lock>>
      /\ file' = [file EXCEPT ![process[p].target] = Missing]
  BY EndStep DEF StorageInv, FailCopy, Put
<1>3. Missing \in Content /\ Missing.data <= commits
  BY DEF Missing, Content, StorageInv, Types
<1>4. Writing(p)
  BY <1>1 DEF Writing, Copier
<1> QED BY <1>1, <1>2, <1>3, <1>4, CopierWrites

----------------------------------------------------------------------------
(* Who works with a database that is served, or beside a migration, does   *)
(* not restore.                                                            *)
LEMMA NoRestore ==
    ASSUME StorageInv,
           app \/ \E p \in Process : process[p].tool \in {"migrate", "dev", "prod"}
    PROVE  \A q \in Process : process[q].tool # "restore"
BY DEF StorageInv, RestoreAlone, Idle

(* The application changes what the database holds, not its migrations.    *)
LEMMA ServedKeeps ==
    ASSUME StorageInv, app, NEW c \in Content, file' = [file EXCEPT ![Database] = c],
           c.versions = file[Database].versions,
           file[Database].data <= c.data, c.data <= commits', commits' \in Nat, commits <= commits',
           UNCHANGED <<url, app, process, lock>>
    PROVE  StorageInv'
<1>1. Database \in Path /\ file \in [Path -> Content] /\ Exists(Database)
  BY DEF Path, StorageInv, Types, Schemas
<1>2. /\ file'[Database] = c /\ file' \in [Path -> Content]
      /\ \A f \in Backup : file'[f] = file[f]
  BY <1>1, PathsApart DEF Path
<1>3. Exists(Database)'
  <2>1. -1 \notin c.versions
    BY <1>1, DatabaseThere
  <2> QED BY <1>2, <2>1 DEF Exists, Missing
<1>4. Types' /\ RestoreAlone' /\ LockHeld' /\ OneWriter'
  BY <1>2 DEF StorageInv, Types, Work, Copier, Starter, Reader, RestoreAlone, LockHeld, OneWriter, Writing
<1>5. Schemas'
  BY <1>1, <1>2, <1>3 DEF StorageInv, Schemas, Exists, Files, Path
<1>6. ReadersFit'
  BY <1>2, <1>3 DEF StorageInv, ReadersFit, ReaderFits, Files
<1>7. CopiesFit'
  BY <1>2, NoRestore, DatabaseGrows
<1> QED BY <1>4, <1>5, <1>6, <1>7 DEF StorageInv

LEMMA CommitKeeps == ASSUME StorageInv, Commit PROVE StorageInv'
<1> DEFINE c == [file[Database] EXCEPT !.data = commits + 1]
<1>1. Database \in Path /\ file[Database] \in Content /\ commits \in Nat /\ file[Database].data <= commits
  BY DEF Path, StorageInv, Types, CopiesFit
<1>2. c \in Content /\ c.versions = file[Database].versions /\ c.data = commits + 1
  BY <1>1 DEF Content
<1>3. file' = [file EXCEPT ![Database] = c] /\ commits' = commits + 1
  BY DEF Commit
<1>4. app /\ UNCHANGED <<url, app, process, lock>>
  BY DEF Commit
<1>5. file[Database].data <= c.data /\ c.data <= commits' /\ commits' \in Nat /\ commits <= commits'
  BY <1>1, <1>2, <1>3 DEF Content
<1> HIDE DEF c
<1> QED BY <1>2, <1>3, <1>4, <1>5, ServedKeeps

LEMMA CheckpointKeeps == ASSUME StorageInv, Checkpoint PROVE StorageInv'
<1> DEFINE c == [file[Database] EXCEPT !.flushed = file[Database].data]
<1>1. Database \in Path /\ file[Database] \in Content /\ commits \in Nat /\ file[Database].data <= commits
  BY DEF Path, StorageInv, Types, CopiesFit
<1>2. c \in Content /\ c.versions = file[Database].versions /\ c.data = file[Database].data
  BY <1>1 DEF Content
<1>3. file' = [file EXCEPT ![Database] = c] /\ commits' = commits
  BY DEF Checkpoint
<1>4. app /\ UNCHANGED <<url, app, process, lock>>
  BY DEF Checkpoint
<1>5. file[Database].data <= c.data /\ c.data <= commits' /\ commits' \in Nat /\ commits <= commits'
  BY <1>1, <1>2, <1>3 DEF Content
<1> HIDE DEF c
<1> QED BY <1>2, <1>3, <1>4, <1>5, ServedKeeps

(* A migration, or start_prod, goes on: what it leaves in the database and *)
(* what it knows by then.                                                  *)
LEMMA MigratorKeeps ==
    ASSUME StorageInv, NEW p \in Process, process[p].tool \in {"migrate", "dev", "prod"},
           Others(p), NEW c \in Content, file' = [file EXCEPT ![Database] = c],
           c.data = file[Database].data, c # Missing, UNCHANGED <<url, commits>>,
           process'[p] = Idle \/ Reader(process'[p]), app' \in BOOLEAN,
           file[Database].versions \subseteq c.versions \/ ~Exists(Database),
           url = "postgres" => \E n \in 0..Latest : c.versions = 1..n,
           url = "sqlite" => c.versions \subseteq {Latest},
           app' => c.versions = Files,
           lock' = lock \/ (lock' = lock \ {p} /\ process'[p] = Idle),
           process'[p].at = "read" => process[p].at \in {"locked", "read"} /\ ReaderFits(p)',
           \A q \in Process \ {p} :
               url = "postgres" /\ process[q].at = "read" => c = file[Database]
    PROVE  StorageInv'
<1>1. Database \in Path /\ file \in [Path -> Content] /\ commits \in Nat
  BY DEF Path, StorageInv, Types
<1>2. /\ file'[Database] = c /\ file' \in [Path -> Content] /\ commits' = commits
      /\ \A f \in Backup : file'[f] = file[f]
  BY <1>1, PathsApart DEF Path
<1>3. Exists(Database)'
  BY <1>2 DEF Exists
<1>4. process'[p].tool \notin {"backup", "restore"}
  BY DEF Idle, Reader
<1>5. Types'
  BY <1>2 DEF StorageInv, Types, Work, Others, Copier, Starter, Reader
<1>6. RestoreAlone'
  BY <1>4, NoRestore DEF Others, RestoreAlone
<1>7. LockHeld'
  BY DEF StorageInv, LockHeld, Others, Idle, Reader
<1>8. Schemas'
  BY <1>1, <1>2, <1>3 DEF StorageInv, Schemas, Exists, Files, Path
<1>9. OneWriter'
  BY <1>4 DEF StorageInv, OneWriter, Writing, Others
<1>10. ASSUME NEW q \in Process, process'[q].at = "read" PROVE ReaderFits(q)'
  <2>1. CASE q = p
    BY <1>10, <2>1
  <2>2. CASE q # p
    <3>1. process'[q] = process[q] /\ ReaderFits(q) /\ Exists(Database)
      BY <1>10, <2>2 DEF StorageInv, ReadersFit, ReaderFits, Others
    <3> QED BY <1>2, <1>3, <1>10, <2>2, <3>1 DEF ReaderFits, Files
  <2> QED BY <2>1, <2>2
<1>11. CopiesFit'
  <2>1. \A q \in Process : process[q].tool # "restore"
    BY NoRestore
  <2>2. \A q \in Process : process'[q].tool \in {"backup", "restore"} => process'[q] = process[q]
    BY <1>4 DEF Others
  <2>3. file[Database].data <= c.data /\ c.data <= commits /\ commits <= commits
    BY <1>1 DEF StorageInv, CopiesFit, Content
  <2> QED BY <1>1, <1>2, <2>1, <2>2, <2>3, DatabaseGrows
<1> QED BY <1>5, <1>6, <1>7, <1>8, <1>9, <1>10, <1>11 DEF StorageInv, ReadersFit, ReaderFits

LEMMA ConnectedFits ==
    ASSUME StorageInv
    PROVE  /\ Connected \in Content /\ Connected # Missing
           /\ Connected.data = file[Database].data
           /\ Exists(Database) => Connected = file[Database]
           /\ app => Exists(Database) /\ Connected.versions = Files
           /\ url = "postgres" => Exists(Database) /\ \E n \in 0..Latest : Connected.versions = 1..n
           /\ url = "sqlite" => Connected.versions \subseteq {Latest}
<1>1. file[Database] \in Content /\ Database \in Path
  BY DEF StorageInv, Types, Path
<1>2. CASE Exists(Database)
  BY <1>1, <1>2 DEF Connected, Exists, StorageInv, Schemas
<1>3. CASE ~Exists(Database)
  <2>1. file[Database] = Missing /\ Connected = Empty
    BY <1>3, DatabaseThere DEF Connected
  <2>2. Empty \in Content /\ Empty # Missing /\ Empty.data = Missing.data /\ Empty.versions = {}
    BY DEF Empty, Missing, Content
  <2> QED BY <1>3, <2>1, <2>2 DEF StorageInv, Schemas
<1> QED BY <1>2, <1>3

LEMMA ReadVersionsKeeps ==
    ASSUME StorageInv, NEW p \in Process, ReadVersions(p)
    PROVE  StorageInv'
<1>1. Starter(process[p]) /\ process[p].at = "locked" /\ process[p].tool \in {"migrate", "dev"}
  BY TheWorker DEF StorageInv, ReadVersions, Migrating
<1>2. file' = [file EXCEPT ![Database] = Connected] /\ UNCHANGED <<url, commits, app>>
  BY DEF ReadVersions, Put
<1>3. /\ Others(p)
      /\ \/ process'[p] = Idle /\ lock' = lock \ {p}
         \/ /\ process'[p] = [tool |-> process[p].tool, at |-> "read", todo |-> Files \ Connected.versions]
            /\ lock' = lock
  BY EndStep DEF StorageInv, Types, ReadVersions, Others
<1>4. process'[p] = Idle \/ Reader(process'[p])
  BY <1>1, <1>3 DEF Reader
<1>5. file'[Database] = Connected
  BY <1>2 DEF StorageInv, Types, Path
<1>6. process'[p].at = "read" => ReaderFits(p)'
  BY <1>2, <1>3, <1>5, ConnectedFits DEF ReaderFits, Exists, Files, Idle
<1>7. \A q \in Process : process[q].at = "read" => Connected = file[Database]
  BY ConnectedFits DEF StorageInv, ReadersFit, ReaderFits
<1>8. app \in BOOLEAN
  BY DEF StorageInv, Types
<1>9. /\ app' \in BOOLEAN /\ (app' => Connected.versions = Files)
      /\ lock' = lock \/ (lock' = lock \ {p} /\ process'[p] = Idle)
      /\ file[Database].versions \subseteq Connected.versions \/ ~Exists(Database)
      /\ process'[p].at = "read" => process[p].at \in {"locked", "read"} /\ ReaderFits(p)'
  BY <1>1, <1>2, <1>3, <1>6, <1>8, ConnectedFits DEF Idle
<1> HIDE DEF Connected
<1> QED BY <1>1, <1>2, <1>3, <1>4, <1>7, <1>9, ConnectedFits, MigratorKeeps

LEMMA StartProdKeeps ==
    ASSUME StorageInv, NEW p \in Process, StartProd(p)
    PROVE  StorageInv'
<1>1. /\ process[p].tool = "prod" /\ Others(p) /\ process'[p] = Idle
      /\ file' = [file EXCEPT ![Database] = Connected] /\ UNCHANGED <<url, commits, lock>>
      /\ app' = (app \/ Current(Database))
  BY EndStep DEF StorageInv, StartProd, Put
<1>2. Current(Database) => Connected.versions = Files
  <2> SUFFICES ASSUME Current(Database) PROVE Connected.versions = Files
    OBVIOUS
  <2>1. Latest \in Connected.versions
    BY ConnectedFits DEF Current
  <2>2. CASE url = "postgres"
    <3>1. PICK n \in 0..Latest : Connected.versions = 1..n
      BY <2>2, ConnectedFits
    <3>2. n = Latest
      BY <2>1, <3>1, PathsApart
    <3> QED BY <2>2, <3>1, <3>2 DEF Files
  <2>3. CASE url = "sqlite"
    BY <2>1, <2>3, ConnectedFits DEF Files
  <2> QED BY <2>2, <2>3 DEF StorageInv, Types
<1>3. \A q \in Process : process[q].at = "read" => Connected = file[Database]
  BY ConnectedFits DEF StorageInv, ReadersFit, ReaderFits
<1>4. app \in BOOLEAN /\ Current(Database) \in BOOLEAN /\ Idle.at # "read"
  BY DEF StorageInv, Types, Current, Exists, Idle
<1> HIDE DEF Connected
<1> QED BY <1>1, <1>2, <1>3, <1>4, ConnectedFits, MigratorKeeps

LEMMA ApplyKeeps ==
    ASSUME StorageInv, NEW p \in Process, Apply(p)
    PROVE  StorageInv'
<1> DEFINE todo == process[p].todo
           v == First(todo)
           c == [file[Database] EXCEPT !.versions = @ \cup {v}]
<1>1. Reader(process[p]) /\ process[p].at = "read" /\ process[p].tool \in {"migrate", "dev"} /\ todo # {}
  BY TheWorker DEF StorageInv, Apply, Migrating
<1>2. /\ Exists(Database) /\ todo \subseteq Files /\ Files \ file[Database].versions \subseteq todo
      /\ url = "postgres" => todo = Files \ file[Database].versions
  BY <1>1 DEF StorageInv, ReadersFit, ReaderFits
<1>3. file[Database] \in Content /\ Database \in Path
  BY DEF StorageInv, Types, Path
<1>4. /\ url = "sqlite" => v = Latest /\ file[Database].versions \subseteq {Latest}
      /\ url = "postgres" => v \in todo /\ \E n \in 0..Latest : file[Database].versions \cup {v} = 1..n
  <2>1. CASE url = "sqlite"
    <3>1. todo = {Latest}
      BY <1>1, <1>2, <2>1 DEF Files
    <3> QED BY <1>2, <1>3, <2>1, <3>1, PathsApart DEF First, StorageInv, Schemas
  <2>2. CASE url = "postgres"
    <3>1. PICK n \in 0..Latest : file[Database].versions = 1..n
      BY <2>2 DEF StorageInv, Schemas
    <3>2. todo = (1..Latest) \ (1..n)
      BY <1>2, <2>2, <3>1 DEF Files
    <3>3. n + 1 \in todo /\ \A w \in todo : n + 1 <= w
      BY <1>1, <3>2, PathsApart
    <3>4. v \in todo /\ \A w \in todo : v <= w
      BY <3>3 DEF First
    <3>5. v = n + 1 /\ n + 1 \in 0..Latest
      <4>1. v <= n + 1 /\ n + 1 <= v
        BY <3>3, <3>4
      <4>2. v \in Int /\ n + 1 \in Int /\ n + 1 \in 1..Latest
        BY <3>2, <3>3, <3>4
      <4> QED BY <4>1, <4>2
    <3>6. (1..n) \cup {n + 1} = 1..(n + 1)
      OBVIOUS
    <3> QED BY <2>2, <3>1, <3>4, <3>5, <3>6
  <2> QED BY <2>1, <2>2 DEF StorageInv, Types
<1>5. v \in Files /\ v \in Int
  BY <1>2, <1>4, PathsApart DEF Files, StorageInv, Types
<1>6. /\ c \in Content /\ c.versions = file[Database].versions \cup {v}
      /\ c.data = file[Database].data
  BY <1>3, <1>5 DEF Content
<1>7. c # Missing
  <2>1. -1 \notin c.versions
    BY <1>2, <1>5, <1>6, DatabaseThere, PathsApart DEF Files
  <2> QED BY <2>1 DEF Missing
<1>8. /\ file' = [file EXCEPT ![Database] = c] /\ UNCHANGED <<url, commits, app, lock>> /\ Others(p)
      /\ process'[p] = [tool |-> process[p].tool, at |-> "read", todo |-> todo \ {v}]
  <2>1. process'[p] = [process[p] EXCEPT !.todo = @ \ {v}] /\ Others(p)
    BY DEF Apply, StorageInv, Types, Others
  <2> QED BY <1>1, <2>1 DEF Apply, Reader
<1> HIDE DEF v, c, todo
<1>9. Reader(process'[p]) /\ file'[Database] = c
  BY <1>1, <1>3, <1>8 DEF Reader, StorageInv, Types
<1>10. ReaderFits(p)'
  BY <1>2, <1>6, <1>7, <1>8, <1>9 DEF ReaderFits, Exists, Files
<1>11. app => c.versions = Files
  BY <1>5, <1>6 DEF StorageInv, Schemas
<1>12. ASSUME NEW q \in Process \ {p}, url = "postgres" PROVE process[q].at # "read"
  BY <1>1, <1>12 DEF StorageInv, LockHeld
<1>13. /\ url = "postgres" => \E n \in 0..Latest : c.versions = 1..n
       /\ url = "sqlite" => c.versions \subseteq {Latest}
       /\ app \in BOOLEAN
  BY <1>4, <1>6 DEF StorageInv, Types
<1>14. /\ app' \in BOOLEAN /\ (app' => c.versions = Files)
       /\ lock' = lock /\ file[Database].versions \subseteq c.versions
       /\ process'[p].at = "read" => process[p].at \in {"locked", "read"} /\ ReaderFits(p)'
  BY <1>1, <1>6, <1>8, <1>10, <1>11, <1>13
<1>15. \A q \in Process \ {p} :
          url = "postgres" /\ process[q].at = "read" => c = file[Database]
  BY <1>12
<1>16. process[p].tool \in {"migrate", "dev", "prod"}
  BY <1>1
<1> QED BY <1>6, <1>7, <1>8, <1>9, <1>13, <1>14, <1>15, <1>16, MigratorKeeps

LEMMA EmptyVolumeKeeps == ASSUME StorageInv, EmptyVolume PROVE StorageInv'
<1>1. /\ \A q \in Process : process[q] = Idle
      /\ file' = [file EXCEPT ![Database] = Missing]
      /\ url = "sqlite" /\ ~app /\ UNCHANGED <<url, commits, app, process, lock>>
  BY DEF EmptyVolume, Alone, Put
<1>2. Missing \in Content /\ Database \in Path /\ file \in [Path -> Content]
  BY DEF Missing, Content, Path, StorageInv, Types
<1>3. Types'
  BY <1>1, <1>2 DEF StorageInv, Types, Work
<1>4. RestoreAlone' /\ LockHeld' /\ OneWriter' /\ ReadersFit'
  BY <1>1 DEF RestoreAlone, LockHeld, OneWriter, Writing, ReadersFit, ReaderFits, Idle
<1>5. Schemas'
  BY <1>1, <1>2 DEF StorageInv, Schemas, Exists
<1>6. CopiesFit'
  <2>1. Missing.data = 0 /\ commits \in Nat
    BY DEF Missing, StorageInv, Types
  <2>2. \A f \in Path : file'[f].data <= commits'
    BY <1>1, <1>2, <2>1 DEF StorageInv, CopiesFit
  <2> QED BY <1>1, <2>2 DEF CopiesFit, CopyFits, Idle
<1> QED BY <1>3, <1>4, <1>5, <1>6 DEF StorageInv

----------------------------------------------------------------------------
LEMMA NextStorageInv == StorageInv /\ [Next]_vars => StorageInv'
<1> SUFFICES ASSUME StorageInv, [Next]_vars PROVE StorageInv'
  OBVIOUS
<1>1. CASE UNCHANGED vars
  BY <1>1 DEF vars, StorageInv, Types, Work, Copier, Starter, Starting, Reader, RestoreAlone, LockHeld,
     Schemas, ReadersFit, ReaderFits, OneWriter, CopiesFit, CopyFits, Writing, Exists, Current, Files
<1>2. CASE Commit \/ Checkpoint \/ Stop \/ EmptyVolume
  BY <1>2, CommitKeeps, CheckpointKeeps, StopKeeps, EmptyVolumeKeeps
<1>3. ASSUME NEW p \in Process, NEW f \in Backup, StartBackup(p, f) \/ StartRestore(p, f)
      PROVE  StorageInv'
  BY <1>3, StartBackupKeeps, StartRestoreKeeps
<1>4. ASSUME NEW p \in Process, NEW tool \in {"migrate", "dev", "prod"}, StartMigration(p, tool)
      PROVE  StorageInv'
  BY <1>4, StartMigrationKeeps
<1>5. ASSUME NEW p \in Process,
             CheckCopy(p) \/ Create(p) \/ Copy(p) \/ FailCopy(p) \/ VerifyCopy(p)
      PROVE  StorageInv'
  BY <1>5, CheckCopyKeeps, CreateKeeps, CopyKeeps, FailCopyKeeps, VerifyCopyKeeps
<1>6. ASSUME NEW p \in Process,
             \/ Lock(p) \/ ReadVersions(p) \/ Apply(p) \/ FailMigration(p) \/ EndMigration(p)
             \/ StartProd(p) \/ Kill(p)
      PROVE  StorageInv'
  BY <1>6, LockKeeps, ReadVersionsKeeps, ApplyKeeps, FailMigrationKeeps, EndMigrationKeeps,
     StartProdKeeps, KillKeeps
<1> QED BY <1>1, <1>2, <1>3, <1>4, <1>5, <1>6 DEF Next

LEMMA StorageInvAlways == Spec => []StorageInv
<1> QED BY InitStorageInv, NextStorageInv, PTL DEF Spec

(* Migrations killed, failed or started twice leave the versions of the    *)
(* first files in PostgreSQL, and whichever start script it was, the       *)
(* application serves only a database with all of them.                    *)
THEOREM StorageServesComplete == Spec => []ServedIsComplete
<1>1. StorageInv => ServedIsComplete
  BY DEF StorageInv, Schemas, ServedIsComplete
<1> QED BY <1>1, StorageInvAlways, PTL

(* What backup and restore report is a verified file with every commit the *)
(* source had when the tool was started.                                   *)
THEOREM StorageReportsWhole == Spec => []ReportedCopyIsWhole
<1>1. StorageInv => ReportedCopyIsWhole
  <2> SUFFICES ASSUME StorageInv, NEW p \in Process, Copying(p, "reported")
               PROVE  /\ Current(process[p].target)
                      /\ file[process[p].target].data >= process[p].since
    BY DEF ReportedCopyIsWhole
  <2>1. Copier(process[p]) /\ process[p].at = "reported" /\ CopyFits(p)
    BY CopyingWorker DEF StorageInv, CopiesFit
  <2>2. process[p].since \in Nat /\ file[process[p].target].data \in Nat
    BY <2>1 DEF Copier, StorageInv, Types, Path, Content
  <2> QED BY <2>1, <2>2 DEF CopyFits, Copier
<1> QED BY <1>1, StorageInvAlways, PTL

----------------------------------------------------------------------------
Kept(f) ==
    Loses(f) =>
        \/ EmptyVolume
        \/ \E p \in Process : Copying(p, "copied") /\ process[p].target = f /\ process'[p] = Idle

LEMMA WrittenOver ==
    ASSUME StorageInv, NEW g \in Path, NEW c, file' = [file EXCEPT ![g] = c],
           (c.data \in Nat /\ c.data >= file[g].data) \/ file[g].data = 0, NEW f \in Path
    PROVE  ~Loses(f)
<1>1. file[g].data \in Nat /\ file[f].data \in Nat /\ file'[g] = c /\ (f # g => file'[f] = file[f])
  BY DEF StorageInv, Types, Content
<1>2. CASE file[g].data = 0
  BY <1>1, <1>2 DEF Loses
<1>3. CASE c.data \in Nat /\ c.data >= file[g].data
  BY <1>1, <1>3 DEF Loses
<1> QED BY <1>2, <1>3

LEMMA StepKeeps == ASSUME StorageInv, [Next]_vars, NEW f \in Path PROVE Kept(f)
<1>1. /\ file \in [Path -> Content] /\ Database \in Path
      /\ \A g \in Path : file[g] \in Content /\ file[g].data \in Nat
  BY DEF StorageInv, Types, Content, Path
<1>2. CASE UNCHANGED file
  BY <1>1, <1>2 DEF Kept, Loses
<1>3. CASE EmptyVolume
  BY <1>3 DEF Kept
<1>4. CASE Commit
  <2> DEFINE c == [file[Database] EXCEPT !.data = commits + 1]
  <2>1. c.data = commits + 1 /\ file[Database].data <= commits /\ commits \in Nat
    BY <1>1 DEF Content, StorageInv, Types, CopiesFit
  <2>2. file' = [file EXCEPT ![Database] = c]
    BY <1>4 DEF Commit
  <2>3. c.data \in Nat /\ c.data >= file[Database].data
    BY <1>1, <2>1
  <2> HIDE DEF c
  <2> QED BY <1>1, <2>2, <2>3, WrittenOver DEF Kept
<1>5. CASE Checkpoint
  <2> DEFINE c == [file[Database] EXCEPT !.flushed = file[Database].data]
  <2>1. c.data \in Nat /\ c.data >= file[Database].data
    BY <1>1 DEF Content
  <2>2. file' = [file EXCEPT ![Database] = c]
    BY <1>5 DEF Checkpoint
  <2> HIDE DEF c
  <2> QED BY <1>1, <2>1, <2>2, WrittenOver DEF Kept
<1>6. ASSUME NEW p \in Process, Create(p) PROVE Kept(f)
  <2>1. Copier(process[p])
    BY <1>6, CopyingWorker DEF Create
  <2>2. CASE Exists(process[p].target)
    BY <1>1, <1>6, <2>2 DEF Create, Kept, Loses
  <2>3. CASE ~Exists(process[p].target)
    <3>1. file' = [file EXCEPT ![process[p].target] = Empty] /\ process[p].target \in Path
      BY <1>6, <2>1, <2>3 DEF Create, Put, Copier, Path
    <3>2. file[process[p].target].data = 0
      BY <2>3 DEF Exists, Missing
    <3> QED BY <3>1, <3>2, WrittenOver DEF Kept
  <2> QED BY <2>2, <2>3
<1>7. ASSUME NEW p \in Process, Copy(p) PROVE Kept(f)
  <2>1. Copier(process[p]) /\ process[p].at = "created" /\ CopyFits(p)
    BY <1>7, CopyingWorker DEF Copy, StorageInv, CopiesFit
  <2>2. process[p].target \in Path /\ file[process[p].target].data = 0
    BY <2>1 DEF CopyFits, Copier, Path
  <2>3. file' = [file EXCEPT ![process[p].target] = Snapshot(process[p].source)]
    BY <1>7 DEF Copy, Put
  <2> QED BY <2>2, <2>3, WrittenOver DEF Kept
<1>8. ASSUME NEW p \in Process, FailCopy(p) PROVE Kept(f)
  <2>1. Copier(process[p]) /\ process[p].at \in {"created", "copied"} /\ CopyFits(p)
    BY <1>8, CopyingWorker DEF FailCopy, StorageInv, CopiesFit
  <2>2. process[p].target \in Path /\ file' = [file EXCEPT ![process[p].target] = Missing]
    BY <1>8, <2>1 DEF FailCopy, Put, Copier, Path
  <2>3. process'[p] = Idle
    BY <1>8, EndStep DEF FailCopy, StorageInv
  <2>4. CASE process[p].at = "created"
    <3>1. file[process[p].target].data = 0
      BY <2>1, <2>4 DEF CopyFits, Copier
    <3> QED BY <2>2, <3>1, WrittenOver DEF Kept
  <2>5. CASE process[p].at = "copied" /\ f = process[p].target
    BY <2>1, <2>3, <2>5 DEF Kept, Copying, Copier
  <2>6. CASE f # process[p].target
    BY <1>1, <2>2, <2>6 DEF Kept, Loses
  <2> QED BY <2>1, <2>4, <2>5, <2>6
<1>9. ASSUME NEW p \in Process, ReadVersions(p) \/ StartProd(p) PROVE Kept(f)
  <2>1. file' = [file EXCEPT ![Database] = Connected]
    BY <1>9 DEF ReadVersions, StartProd, Put
  <2>2. Connected.data \in Nat /\ Connected.data >= file[Database].data
    BY <1>1, ConnectedFits
  <2> QED BY <1>1, <2>1, <2>2, WrittenOver DEF Kept
<1>10. ASSUME NEW p \in Process, Apply(p) PROVE Kept(f)
  <2> DEFINE c == [file[Database] EXCEPT !.versions = @ \cup {First(process[p].todo)}]
  <2>1. c.data \in Nat /\ c.data >= file[Database].data
    BY <1>1 DEF Content
  <2>2. file' = [file EXCEPT ![Database] = c]
    BY <1>10 DEF Apply
  <2> HIDE DEF c
  <2> QED BY <1>1, <2>1, <2>2, WrittenOver DEF Kept
<1>11. CASE UNCHANGED vars \/ Stop
  BY <1>2, <1>11 DEF vars, Stop
<1>12. ASSUME NEW p \in Process, NEW g \in Backup, StartBackup(p, g) \/ StartRestore(p, g)
       PROVE  UNCHANGED file
  BY <1>12 DEF StartBackup, StartRestore, Run
<1>13. ASSUME NEW p \in Process, NEW tool \in {"migrate", "dev", "prod"}, StartMigration(p, tool)
       PROVE  UNCHANGED file
  BY <1>13 DEF StartMigration, Run
<1>14. ASSUME NEW p \in Process,
              CheckCopy(p) \/ VerifyCopy(p) \/ Lock(p) \/ FailMigration(p) \/ EndMigration(p) \/ Kill(p)
       PROVE  UNCHANGED file
  BY <1>14 DEF CheckCopy, VerifyCopy, Lock, FailMigration, EndMigration, Kill
<1> QED BY <1>2, <1>3, <1>4, <1>5, <1>6, <1>7, <1>8, <1>9, <1>10, <1>11, <1>12, <1>13, <1>14 DEF Next

(* Whatever tools run together and wherever they are killed, a file loses  *)
(* commits only as a copy its maker has not reported, or when the operator *)
(* empties the volume.                                                     *)
THEOREM StorageLosesNothing == Spec => NothingIsLost
<1>1. StorageInv /\ [Next]_vars => [\A f \in DOMAIN file : Kept(f)]_vars
  <2> SUFFICES ASSUME StorageInv, [Next]_vars, NEW f \in DOMAIN file PROVE Kept(f)
    OBVIOUS
  <2>1. f \in Path
    BY DEF StorageInv, Types
  <2> QED BY <2>1, StepKeeps
<1>2. Spec => [][\A f \in DOMAIN file : Kept(f)]_vars
  BY <1>1, StorageInvAlways, PTL DEF Spec
<1> QED BY <1>2 DEF NothingIsLost, Kept
=============================================================================
