------------------------------- MODULE Storage -------------------------------
(***************************************************************************)
(* The database of a deployment and the tools that make, copy and check    *)
(* it: migrate, the two start scripts, backup and restore.  Tools run      *)
(* beside each other and beside the application, and any of them may be    *)
(* killed between two steps.  What a database holds is the number of the   *)
(* last commit in it, beside the versions in schema_migrations.            *)
(***************************************************************************)
EXTENDS Integers, FiniteSets

CONSTANTS
    Process,        \* processes an operator may have started
    Backup,         \* paths of backup files
    Latest,         \* LATEST_SCHEMA
    CommitLimit     \* bound on the commits

Database == "database"

ASSUME StorageAssumption ==
    Latest \in Nat \ {0} /\ CommitLimit \in Nat /\ Database \notin Backup

Missing == [versions |-> {-1}, data |-> 0, flushed |-> 0]
Empty == [versions |-> {}, data |-> 0, flushed |-> 0]
Idle == [tool |-> "none", at |-> "none"]

VARIABLES
    url,            \* the kind of DATABASE_URL
    file,           \* content by path; flushed is what has left the WAL
    commits,        \* commits made so far, which names them
    app,            \* whether the application serves
    process,        \* the tools under way
    lock            \* processes that hold the advisory lock

vars == <<url, file, commits, app, process, lock>>

Exists(f) == file[f] # Missing
Put(f, content) == file' = [file EXCEPT ![f] = content]
Go(p, place) == process' = [process EXCEPT ![p].at = place]
End(p) == process' = [process EXCEPT ![p] = Idle]

(* The files of db/migrations; SQLite gets the whole schema under one      *)
(* number.                                                                 *)
Files == IF url = "sqlite" THEN {Latest} ELSE 1..Latest

(* Variant with a defect: some migration is taken for all.                 *)
CurrentSome(f) == Exists(f) /\ file[f].versions # {}

(* max(version) or user_version is the latest.                             *)
Current(f) == Exists(f) /\ Latest \in file[f].versions

----------------------------------------------------------------------------
(* Starting a tool.  The README restores with the application stopped, in  *)
(* a container of its own, so that nothing else works beside a restore;    *)
(* what an earlier tool left behind may be there.                          *)

Alone == \A p \in Process : process[p] = Idle
Restoring == \E p \in Process : process[p].tool = "restore"

Run(p, tool, source, target) ==
    /\ process[p] = Idle
    /\ process' = [process EXCEPT ![p] =
          [tool |-> tool, at |-> "start", source |-> source, target |-> target,
           since |-> file[source].data]]
    /\ UNCHANGED <<url, file, commits, app, lock>>

StartBackup(p, f) == url = "sqlite" /\ ~Restoring /\ Run(p, "backup", Database, f)
StartRestore(p, f) == url = "sqlite" /\ ~app /\ Alone /\ Run(p, "restore", f, Database)
StartMigration(p, tool) ==
    /\ ~Restoring
    /\ tool # "migrate" => ~app
    /\ Run(p, tool, Database, Database)

----------------------------------------------------------------------------
(* backup and restore.                                                     *)

Copying(p, place) == process[p].tool \in {"backup", "restore"} /\ process[p].at = place

(* The source is verified, the target must be absent.                      *)
CheckCopy(p) ==
    /\ Copying(p, "start")
    /\ IF Current(process[p].source) /\ ~Exists(process[p].target) THEN Go(p, "checked") ELSE End(p)
    /\ UNCHANGED <<url, file, commits, app, lock>>

(* Variant with a defect: the file is opened to be written anew.           *)
CreateAnyway(p) ==
    /\ Copying(p, "checked")
    /\ Put(process[p].target, Empty) /\ Go(p, "created")
    /\ UNCHANGED <<url, commits, app, lock>>

(* open("xb"): outside the try, a target made since is left alone.         *)
Create(p) ==
    /\ Copying(p, "checked")
    /\ IF Exists(process[p].target) THEN End(p) /\ UNCHANGED file
       ELSE Put(process[p].target, Empty) /\ Go(p, "created")
    /\ UNCHANGED <<url, commits, app, lock>>

(* Variant with a defect: the file is copied without its WAL.              *)
SnapshotOfFile(f) == [file[f] EXCEPT !.data = file[f].flushed]

(* live.backup: the committed content of one moment.                       *)
Snapshot(f) == [file[f] EXCEPT !.flushed = file[f].data]

Copy(p) ==
    /\ Copying(p, "created") /\ Exists(process[p].source)
    /\ Put(process[p].target, Snapshot(process[p].source)) /\ Go(p, "copied")
    /\ UNCHANGED <<url, commits, app, lock>>

FailCopy(p) ==
    /\ Copying(p, "created") \/ Copying(p, "copied")
    /\ Put(process[p].target, Missing) /\ End(p)
    /\ UNCHANGED <<url, commits, app, lock>>

(* The copy is verified and reported.                                      *)
VerifyCopy(p) ==
    /\ Copying(p, "copied") /\ Current(process[p].target)
    /\ Go(p, "reported")
    /\ UNCHANGED <<url, file, commits, app, lock>>

----------------------------------------------------------------------------
(* migrate, alone or from start_dev, and start_prod.                       *)

Migrating(p, place) == process[p].tool \in {"migrate", "dev"} /\ process[p].at = place

(* pg_advisory_lock, or giving up at the timeout; SQLite needs none.       *)
Lock(p) ==
    /\ Migrating(p, "start")
    /\ \/ url = "postgres" /\ lock = {} /\ lock' = {p} /\ Go(p, "locked")
       \/ url = "postgres" /\ lock # {} /\ End(p) /\ UNCHANGED lock
       \/ url = "sqlite" /\ Go(p, "locked") /\ UNCHANGED lock
    /\ UNCHANGED <<url, file, commits, app>>

(* Connecting to SQLite makes the file.                                    *)
Connected == IF Exists(Database) THEN file[Database] ELSE Empty

(* Which versions are applied already; unknown ones are refused.           *)
ReadVersions(p) ==
    /\ Migrating(p, "locked")
    /\ Put(Database, Connected)
    /\ IF Connected.versions \subseteq Files
       THEN process' = [process EXCEPT ![p] =
               [tool |-> @.tool, at |-> "read", todo |-> Files \ Connected.versions]]
            /\ UNCHANGED lock
       ELSE End(p) /\ lock' = lock \ {p}
    /\ UNCHANGED <<url, commits, app>>

First(todo) == CHOOSE v \in todo : \A w \in todo : v <= w

(* One file, one transaction.  The tables of SQLite are made if they do    *)
(* not exist; in PostgreSQL a version that is there already is an error.   *)
Apply(p) ==
    LET v == First(process[p].todo)
    IN  /\ Migrating(p, "read") /\ process[p].todo # {}
        /\ url = "sqlite" \/ v \notin file[Database].versions
        /\ file' = [file EXCEPT ![Database].versions = @ \cup {v}]
        /\ process' = [process EXCEPT ![p].todo = @ \ {v}]
        /\ UNCHANGED <<url, commits, app, lock>>

FailMigration(p) ==
    /\ Migrating(p, "read") /\ process[p].todo # {}
    /\ End(p) /\ lock' = lock \ {p}
    /\ UNCHANGED <<url, file, commits, app>>

(* start_dev goes on to serve.                                             *)
EndMigration(p) ==
    /\ Migrating(p, "read") /\ process[p].todo = {}
    /\ End(p) /\ lock' = lock \ {p}
    /\ app' = (app \/ process[p].tool = "dev")
    /\ UNCHANGED <<url, file, commits>>

StartProd(p) ==
    /\ process[p].tool = "prod"
    /\ Put(Database, Connected) /\ End(p)
    /\ app' = (app \/ Current(Database))
    /\ UNCHANGED <<url, commits, lock>>

----------------------------------------------------------------------------
(* The application commits; the WAL is written back; it stops; a process   *)
(* is killed, and PostgreSQL drops its lock; an operator puts a reported   *)
(* result to use.                                                          *)

Commit ==
    /\ app /\ commits < CommitLimit
    /\ commits' = commits + 1
    /\ file' = [file EXCEPT ![Database].data = commits']
    /\ UNCHANGED <<url, app, process, lock>>

Checkpoint ==
    /\ app /\ file[Database].flushed # file[Database].data
    /\ file' = [file EXCEPT ![Database].flushed = file[Database].data]
    /\ UNCHANGED <<url, commits, app, process, lock>>

Stop == app /\ app' = FALSE /\ UNCHANGED <<url, file, commits, process, lock>>

Kill(p) ==
    /\ process[p] # Idle
    /\ End(p) /\ lock' = lock \ {p}
    /\ UNCHANGED <<url, file, commits, app>>

(* The volume with the database is replaced by an empty one.               *)
EmptyVolume ==
    /\ url = "sqlite" /\ ~app /\ Alone
    /\ Exists(Database) /\ \E f \in Backup : Current(f)
    /\ Put(Database, Missing)
    /\ UNCHANGED <<url, commits, app, process, lock>>

----------------------------------------------------------------------------
Init ==
    /\ url \in {"sqlite", "postgres"}
    /\ file = [f \in Backup \cup {Database} |->
                  IF f = Database /\ url = "postgres" THEN Empty ELSE Missing]
    /\ commits = 0 /\ app = FALSE /\ lock = {}
    /\ process = [p \in Process |-> Idle]

Next ==
    \/ Commit \/ Checkpoint \/ Stop \/ EmptyVolume
    \/ \E p \in Process :
          \/ \E f \in Backup : StartBackup(p, f) \/ StartRestore(p, f)
          \/ \E tool \in {"migrate", "dev", "prod"} : StartMigration(p, tool)
          \/ CheckCopy(p) \/ Create(p) \/ Copy(p) \/ FailCopy(p) \/ VerifyCopy(p)
          \/ Lock(p) \/ ReadVersions(p) \/ Apply(p) \/ FailMigration(p) \/ EndMigration(p)
          \/ StartProd(p) \/ Kill(p)

Spec == Init /\ [][Next]_vars

----------------------------------------------------------------------------
(* A backup or restore that is reported holds every commit its source had  *)
(* when the tool was started, though the application went on, or may have  *)
(* been killed with commits that only the WAL holds.                       *)
ReportedCopyIsWhole ==
    \A p \in Process : Copying(p, "reported") =>
        /\ Current(process[p].target)
        /\ file[process[p].target].data >= process[p].since

(* No tool, whatever runs beside it and wherever it is killed, overwrites, *)
(* empties or removes a file that holds commits, but for a copy it made    *)
(* itself and has not reported.                                            *)
Loses(f) == file[f].data > 0 /\ file'[f].data < file[f].data
NothingIsLost ==
    [][\A f \in DOMAIN file : Loses(f) =>
          \/ EmptyVolume
          \/ \E p \in Process : Copying(p, "copied") /\ process[p].target = f /\ process'[p] = Idle]_vars

(* Migrations killed, failed or started twice leave those of the first     *)
(* files, and the application serves only with all of them, by whichever   *)
(* script and after whichever restore it was started.                      *)
ServedIsComplete ==
    /\ Exists(Database) /\ url = "postgres" =>
          \E n \in 0..Latest : file[Database].versions = 1..n
    /\ app => file[Database].versions = Files
=============================================================================
