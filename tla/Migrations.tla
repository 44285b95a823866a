----------------------------- MODULE Migrations -----------------------------
(***************************************************************************)
(* RunMigrations on one SQLite file by several processes: the server at    *)
(* each of its boots, and create-admin whenever start.sh or an operator    *)
(* runs it.  A process is stopped by a failing statement (log.Fatal) or a   *)
(* crash at any point, and each start may be of another release, with a    *)
(* longer or a shorter list of embedded migrations.                        *)
(*                                                                         *)
(* A migration is its position in the sorted list.  SQLite is external:    *)
(* one writer at a time, what a transaction wrote is invisible to others   *)
(* until it commits and gone if its process ends before.                   *)
(***************************************************************************)
EXTENDS Naturals

CONSTANTS
  Server,      \* the process pm2 keeps running
  Tools,       \* executions of create-admin
  None,        \* no process
  Releases,    \* the numbers of migrations in the releases around
  MaxRuns,     \* bound: starts of Tools
  MaxCrashes   \* bound: crashes, and statements that fail for any other
               \* reason than another writer

ASSUME ProcsAssumption == Server \notin Tools /\ None \notin Tools \cup {Server}
ASSUME ReleasesAssumption == Releases \subseteq Nat

Procs == Tools \cup {Server}

(* The versions of a release: a later one appends files to the sorted list. *)
Versions(r) == 1..r
AllVersions == UNION {Versions(r) : r \in Releases}

VARIABLES
  ledger,     \* the table schema_migrations exists
  recorded,   \* the versions in it
  tables,     \* the migrations whose tables and indexes exist
  writer,     \* the process that holds SQLite's write lock
  pc,         \* how far each process is in RunMigrations
  release,    \* the number of migrations embedded in its binary
  at,         \* the version its loop is at
  runs, crashes,   \* how much of each bound is used up
  applied     \* history: how often each version was committed

database == <<ledger, recorded, tables>>
vars == <<database, writer, pc, release, at, runs, crashes, applied>>

Init ==
  /\ ledger = FALSE /\ recorded = {} /\ tables = {}
  /\ writer = None
  /\ pc = [p \in Procs |-> "off"]
  /\ release \in [Procs -> Releases]
  /\ at = [p \in Procs |-> 1]
  /\ runs = 0 /\ crashes = 0
  /\ applied = [v \in AllVersions |-> 0]

Goto(p, label) == pc' = [pc EXCEPT ![p] = label]

(* The write lock is free for p, or p's already. *)
Lockable(p) == writer \in {None, p}

(* The process ends; SQLite rolls back what it has not committed. *)
Ends(p) ==
  /\ Goto(p, "off")
  /\ writer' = IF writer = p THEN None ELSE writer
  /\ UNCHANGED <<database, release, at, runs, applied>>

-----------------------------------------------------------------------------
(* The process is started and connects. Opening the file and its pragmas
   change nothing the migrations depend on. *)
Start(p) ==
  /\ pc[p] = "off"
  /\ p \in Tools => runs < MaxRuns
  /\ runs' = IF p \in Tools THEN runs + 1 ELSE runs
  /\ release' \in {[release EXCEPT ![p] = r] : r \in Releases}
  /\ at' = [at EXCEPT ![p] = 1]
  /\ Goto(p, "connected")
  /\ UNCHANGED <<database, writer, crashes, applied>>

(* CREATE TABLE IF NOT EXISTS schema_migrations, committed at once. *)
Ledger(p) ==
  /\ pc[p] = "connected"
  /\ ledger \/ writer = None
  /\ ledger' = TRUE
  /\ Goto(p, "check")
  /\ UNCHANGED <<recorded, tables, writer, release, at, runs, crashes, applied>>

(* A mutant: whatever the table says, every migration is applied. *)
CheckIgnored(p) ==
  /\ pc[p] = "check" /\ at[p] \in Versions(release[p])
  /\ Goto(p, "missing")
  /\ UNCHANGED <<database, writer, release, at, runs, crashes, applied>>

(* A mutant: the loop runs past the end of the list. *)
CheckTooFar(p) ==
  /\ pc[p] = "check" /\ at[p] \in Versions(release[p] + 1)
  /\ IF at[p] \in recorded
       THEN at' = [at EXCEPT ![p] = @ + 1] /\ UNCHANGED pc
       ELSE Goto(p, "missing") /\ UNCHANGED at
  /\ UNCHANGED <<database, writer, release, runs, crashes, applied>>

(* SELECT COUNT of the version, outside of any transaction. *)
Check(p) ==
  /\ pc[p] = "check" /\ at[p] \in Versions(release[p])
  /\ IF at[p] \in recorded
       THEN at' = [at EXCEPT ![p] = @ + 1] /\ UNCHANGED pc
       ELSE Goto(p, "missing") /\ UNCHANGED at
  /\ UNCHANGED <<database, writer, release, runs, crashes, applied>>

(* A mutant: the file is executed outside of a transaction. *)
ApplyAtOnce(p) ==
  /\ pc[p] = "missing" /\ Lockable(p)
  /\ tables' = tables \cup {at[p]}
  /\ Goto(p, "applied")
  /\ UNCHANGED <<ledger, recorded, writer, release, at, runs, crashes, applied>>

(* tx.Exec of the file: CREATE ... IF NOT EXISTS writes, and takes the lock,
   only if something is missing. *)
Apply(p) ==
  /\ pc[p] = "missing"
  /\ IF at[p] \in tables
       THEN UNCHANGED writer
       ELSE Lockable(p) /\ writer' = p
  /\ Goto(p, "applied")
  /\ UNCHANGED <<database, release, at, runs, crashes, applied>>

(* A mutant: schema_migrations has no primary key. *)
RecordTwice(p) ==
  /\ pc[p] = "applied" /\ Lockable(p)
  /\ writer' = p
  /\ Goto(p, "stored")
  /\ UNCHANGED <<database, release, at, runs, crashes, applied>>

(* tx.Exec of INSERT INTO schema_migrations; version is its primary key. *)
Record(p) ==
  /\ pc[p] = "applied" /\ Lockable(p)
  /\ at[p] \notin recorded
  /\ writer' = p
  /\ Goto(p, "stored")
  /\ UNCHANGED <<database, release, at, runs, crashes, applied>>

(* The end of db.Transaction, and on to the next version. *)
Commit(p) ==
  /\ pc[p] = "stored"
  /\ tables' = tables \cup {at[p]}
  /\ recorded' = recorded \cup {at[p]}
  /\ applied' = [applied EXCEPT ![at[p]] = @ + 1]
  /\ writer' = None
  /\ at' = [at EXCEPT ![p] = @ + 1]
  /\ Goto(p, "check")
  /\ UNCHANGED <<ledger, release, runs, crashes>>

(* A mutant: a migration that fails is passed over. *)
RefusedGoesOn(p) ==
  /\ \/ pc[p] \in {"missing", "applied"} /\ ~Lockable(p)
     \/ pc[p] = "applied" /\ at[p] \in recorded
  /\ at' = [at EXCEPT ![p] = @ + 1]
  /\ Goto(p, "check")
  /\ UNCHANGED <<database, writer, release, runs, crashes, applied>>

(* A statement of the transaction meets another writer (SQLITE_BUSY) or the
   primary key: RunMigrations returns the error and main ends, as create-admin
   does when its own write is refused. *)
Refused(p) ==
  /\ \/ pc[p] \in {"missing", "applied"} /\ ~Lockable(p)
     \/ pc[p] = "applied" /\ at[p] \in recorded
     \/ p \in Tools /\ pc[p] = "ready" /\ ~Lockable(p)
  /\ Ends(p)
  /\ UNCHANGED crashes

(* Every version is there: RunMigrations returns, the tables are used. *)
Finish(p) ==
  /\ pc[p] = "check" /\ at[p] \notin Versions(release[p])
  /\ Goto(p, "ready")
  /\ UNCHANGED <<database, writer, release, at, runs, crashes, applied>>

(* create-admin writes its user, the server its jobs. *)
Write(p) ==
  /\ pc[p] = "ready" /\ Lockable(p)
  /\ writer' = p
  /\ Goto(p, "writing")
  /\ UNCHANGED <<database, release, at, runs, crashes, applied>>

(* create-admin is done then. *)
Wrote(p) ==
  /\ pc[p] = "writing"
  /\ \/ p \in Tools /\ Ends(p)
     \/ /\ p = Server
        /\ Goto(p, "ready") /\ writer' = None
        /\ UNCHANGED <<database, release, at, runs, applied>>
  /\ UNCHANGED crashes

(* The process is killed, or a statement fails and main ends. *)
Crash(p) ==
  /\ pc[p] # "off" /\ crashes < MaxCrashes
  /\ crashes' = crashes + 1
  /\ Ends(p)

-----------------------------------------------------------------------------
Step(p) == \/ Ledger(p) \/ Check(p) \/ Apply(p) \/ Record(p) \/ Commit(p)
           \/ Refused(p) \/ Finish(p) \/ Write(p) \/ Wrote(p)

Next == \E p \in Procs : Start(p) \/ Step(p) \/ Crash(p)

Spec == Init /\ [][Next]_vars

(* A process that was started runs, and pm2 starts the server again. *)
Fairness == WF_vars(Start(Server)) /\ \A p \in Procs : WF_vars(Step(p))

FairSpec == Spec /\ Fairness

-----------------------------------------------------------------------------
(* Properties *)

TypeOK ==
  /\ ledger \in BOOLEAN
  /\ recorded \subseteq AllVersions /\ tables \subseteq AllVersions
  /\ writer \in Procs \cup {None}
  /\ pc \in [Procs -> {"off", "connected", "check", "missing", "applied",
                       "stored", "ready", "writing"}]
  /\ release \in [Procs -> Releases]
  /\ at \in [Procs -> Nat \ {0}]
  /\ runs \in Nat /\ crashes \in Nat
  /\ applied \in [AllVersions -> Nat]

(* What schema_migrations says of the database is what is there, whichever
   process is stopped where: a version is recorded exactly if its tables
   exist (db.Transaction around the two statements, migrations.go:62). *)
RecordedIffApplied == recorded = tables

(* Migrations take effect in their sorted order, each once, and none before
   those it builds on, although processes of different releases work through
   their lists at the same time and every one of them can be refused. *)
InOrderOnce ==
  \A v \in AllVersions :
    /\ applied[v] = IF v \in recorded THEN 1 ELSE 0
    /\ v \in recorded => Versions(v) \subseteq recorded

(* RunMigrations has returned without an error. *)
Migrated(p) == pc[p] \in {"ready", "writing"}

(* A process that goes on from RunMigrations to use the database, because it
   applied the last version or because it found it recorded, has every table
   its release knows (main.go:35, create-admin/main.go:46). *)
ReadyMeansMigrated ==
  \A p \in Procs : Migrated(p) => Versions(release[p]) \subseteq tables

(* "Safe to call on every boot" (migrations.go:23): whatever create-admin
   does meanwhile and whatever was stopped before, the server gets past its
   migrations for good. *)
ServerStarts == <>[]Migrated(Server)
=============================================================================
