-------------------------- MODULE MigrationsProofs --------------------------
(***************************************************************************)
(* Theorems about Migrations, for any number of processes, releases,       *)
(* starts and crashes.                                                     *)
(***************************************************************************)
EXTENDS Migrations, TLAPS

(* The states in which a process is in its loop. *)
Looping == {"check", "missing", "applied", "stored"}

(* A process that has written both statements, or writes its own rows, holds
   the write lock, and nobody has recorded the version it has stored. *)
WriterAlone ==
  \A p \in Procs : /\ pc[p] \in {"stored", "writing"} => writer = p
                   /\ pc[p] = "stored" => at[p] \notin recorded

(* The loop goes from version to version, and is on one of its release while
   it is at work on it. *)
Passed ==
  \A p \in Procs :
    /\ pc[p] \in Looping \cup {"ready", "writing"} =>
         \A v \in AllVersions : v < at[p] => v \in recorded
    /\ pc[p] \in {"missing", "applied", "stored"} =>
         at[p] \in Versions(release[p])
    /\ pc[p] = "connected" => at[p] = 1

IInv == /\ TypeOK /\ RecordedIffApplied /\ InOrderOnce /\ ReadyMeansMigrated
        /\ WriterAlone /\ Passed

LEMMA VersionsAreNaturals ==
  /\ \A r \in Releases : Versions(r) \subseteq AllVersions
  /\ AllVersions \subseteq Nat \ {0}
BY ReleasesAssumption DEF Versions, AllVersions

(* Versions are closed downwards. *)
LEMMA VersionsBelow ==
  ASSUME NEW v \in AllVersions, NEW u \in Versions(v)
  PROVE  u \in AllVersions /\ (u < v \/ u = v)
<1>1. PICK r \in Releases : v \in Versions(r)
  BY DEF AllVersions
<1>2. r \in Nat
  BY ReleasesAssumption
<1>3. u \in Versions(r) /\ (u < v \/ u = v)
  BY <1>1, <1>2 DEF Versions
<1> QED
  BY <1>3 DEF AllVersions

LEMMA InitHolds == Init => IInv
<1> SUFFICES ASSUME Init PROVE IInv
  OBVIOUS
<1>1. TypeOK
  <2>1. /\ pc = [p \in Procs |-> "off"] /\ at = [p \in Procs |-> 1]
        /\ release \in [Procs -> Releases]
        /\ applied = [v \in AllVersions |-> 0]
    BY DEF Init
  <2>2. /\ ledger = FALSE /\ recorded = {} /\ tables = {} /\ writer = None
        /\ runs = 0 /\ crashes = 0
    BY DEF Init
  <2>3. at \in [Procs -> Nat \ {0}] /\ applied \in [AllVersions -> Nat]
    BY <2>1
  <2> QED
    BY <2>1, <2>2, <2>3 DEF TypeOK
<1>2. RecordedIffApplied /\ InOrderOnce
  BY DEF Init, RecordedIffApplied, InOrderOnce
<1>3. ReadyMeansMigrated /\ WriterAlone /\ Passed
  BY DEF Init, ReadyMeansMigrated, Migrated, WriterAlone, Passed, Looping
<1> QED
  BY <1>1, <1>2, <1>3 DEF IInv

(* A process that ends takes nothing with it but the lock it held. *)
LEMMA EndsKeeps ==
  ASSUME IInv, NEW p \in Procs, Ends(p), crashes' \in Nat
  PROVE  IInv'
<1>1. TypeOK'
  BY DEF IInv, TypeOK, Ends, Goto, database
<1>2. RecordedIffApplied' /\ InOrderOnce'
  BY DEF IInv, RecordedIffApplied, InOrderOnce, Ends, database
<1>3. ReadyMeansMigrated' /\ Passed'
  BY DEF IInv, TypeOK, ReadyMeansMigrated, Migrated, Passed, Looping, Ends, Goto, database
<1>4. WriterAlone'
  BY ProcsAssumption DEF IInv, TypeOK, WriterAlone, Ends, Goto, database
<1> QED
  BY <1>1, <1>2, <1>3, <1>4 DEF IInv

LEMMA StartKeeps ==
  ASSUME IInv, NEW p \in Procs, Start(p)
  PROVE  IInv'
<1>1. TypeOK'
  BY DEF IInv, TypeOK, Start, Goto, database
<1>2. RecordedIffApplied' /\ InOrderOnce'
  BY DEF IInv, RecordedIffApplied, InOrderOnce, Start, database
<1>3. PICK r \in Releases : release' = [release EXCEPT ![p] = r]
  BY DEF Start
<1>4. \A q \in Procs \ {p} : pc'[q] = pc[q] /\ at'[q] = at[q]
                              /\ release'[q] = release[q]
  BY <1>3 DEF IInv, TypeOK, Start, Goto
<1>5. pc'[p] = "connected" /\ at'[p] = 1
  BY DEF IInv, TypeOK, Start, Goto
<1>6. ReadyMeansMigrated' /\ Passed' /\ WriterAlone'
  BY <1>4, <1>5 DEF IInv, ReadyMeansMigrated, Migrated, Passed, Looping, WriterAlone, Start,
                    database
<1> QED
  BY <1>1, <1>2, <1>6 DEF IInv

LEMMA LedgerKeeps ==
  ASSUME IInv, NEW p \in Procs, Ledger(p)
  PROVE  IInv'
<1>1. TypeOK'
  BY DEF IInv, TypeOK, Ledger, Goto
<1>2. RecordedIffApplied' /\ InOrderOnce'
  BY DEF IInv, RecordedIffApplied, InOrderOnce, Ledger
<1>3. \A q \in Procs \ {p} : pc'[q] = pc[q]
  BY DEF IInv, TypeOK, Ledger, Goto
<1>4. pc'[p] = "check"
  BY DEF IInv, TypeOK, Ledger, Goto
<1>5. ReadyMeansMigrated' /\ WriterAlone'
  BY <1>3, <1>4 DEF IInv, ReadyMeansMigrated, Migrated, WriterAlone, Ledger
<1>6. at'[p] = 1
  BY DEF IInv, Passed, Ledger
<1>7. Passed'
  BY <1>3, <1>4, <1>6, VersionsAreNaturals DEF IInv, Passed, Looping, Ledger
<1> QED
  BY <1>1, <1>2, <1>5, <1>7 DEF IInv

LEMMA CheckKeeps ==
  ASSUME IInv, NEW p \in Procs, Check(p)
  PROVE  IInv'
<1>1. at[p] \in Versions(release[p]) /\ at[p] \in AllVersions
  BY VersionsAreNaturals DEF IInv, TypeOK, Check
<1>2. \A q \in Procs \ {p} : pc'[q] = pc[q] /\ at'[q] = at[q]
  BY DEF IInv, TypeOK, Check, Goto
<1>3. RecordedIffApplied' /\ InOrderOnce'
  BY DEF IInv, RecordedIffApplied, InOrderOnce, Check, database
<1>4. CASE at[p] \in recorded
  <2>1. pc' = pc /\ at'[p] = at[p] + 1 /\ at' \in [Procs -> Nat \ {0}]
    BY <1>4 DEF IInv, TypeOK, Check
  <2>2. TypeOK'
    BY <2>1 DEF IInv, TypeOK, Check, database
  <2>3. ReadyMeansMigrated' /\ WriterAlone'
    BY <1>2, <2>1 DEF IInv, ReadyMeansMigrated, Migrated, WriterAlone, Check, database
  <2>4. \A v \in AllVersions : v < at'[p] => v \in recorded
    <3> SUFFICES ASSUME NEW v \in AllVersions, v < at[p] + 1 PROVE v \in recorded
      BY <2>1
    <3>1. v < at[p] \/ v = at[p]
      BY VersionsAreNaturals DEF IInv, TypeOK
    <3> QED
      BY <3>1, <1>4 DEF IInv, Passed, Looping, Check
  <2>5. Passed'
    BY <1>2, <2>1, <2>4 DEF IInv, Passed, Looping, Check, database
  <2> QED
    BY <2>2, <1>3, <2>3, <2>5 DEF IInv
<1>5. CASE at[p] \notin recorded
  <2>1. at' = at /\ pc'[p] = "missing"
    BY <1>5 DEF IInv, TypeOK, Check, Goto
  <2>2. TypeOK'
    BY <1>5 DEF IInv, TypeOK, Check, Goto, database
  <2>3. ReadyMeansMigrated' /\ WriterAlone'
    BY <1>2, <2>1 DEF IInv, ReadyMeansMigrated, Migrated, WriterAlone, Check, database
  <2>4. Passed'
    BY <1>1, <1>2, <2>1 DEF IInv, Passed, Looping, Check, database
  <2> QED
    BY <2>2, <1>3, <2>3, <2>4 DEF IInv
<1> QED
  BY <1>4, <1>5

LEMMA ApplyKeeps ==
  ASSUME IInv, NEW p \in Procs, Apply(p)
  PROVE  IInv'
<1>1. pc[p] = "missing" /\ pc'[p] = "applied" /\ at' = at
  BY DEF IInv, TypeOK, Apply, Goto
<1>2. \A q \in Procs \ {p} : pc'[q] = pc[q]
  BY DEF IInv, TypeOK, Apply, Goto
<1>3. TypeOK'
  BY DEF IInv, TypeOK, Apply, Goto, Lockable, database
<1>4. RecordedIffApplied' /\ InOrderOnce'
  BY DEF IInv, RecordedIffApplied, InOrderOnce, Apply, database
<1>5. ReadyMeansMigrated' /\ Passed'
  BY <1>1, <1>2 DEF IInv, ReadyMeansMigrated, Migrated, Passed, Looping, Apply, database
<1>6. \A q \in Procs : pc[q] \in {"stored", "writing"} => writer' = q
  BY ProcsAssumption, <1>1
     DEF IInv, TypeOK, WriterAlone, Apply, Lockable, Procs
<1>7. WriterAlone'
  BY <1>1, <1>2, <1>6 DEF IInv, WriterAlone, Apply, database
<1> QED
  BY <1>3, <1>4, <1>5, <1>7 DEF IInv

LEMMA RecordKeeps ==
  ASSUME IInv, NEW p \in Procs, Record(p)
  PROVE  IInv'
<1>1. pc[p] = "applied" /\ pc'[p] = "stored" /\ at' = at /\ writer' = p
  BY DEF IInv, TypeOK, Record, Goto
<1>2. \A q \in Procs \ {p} : pc'[q] = pc[q] /\ pc[q] \notin {"stored", "writing"}
  BY ProcsAssumption DEF IInv, TypeOK, WriterAlone, Record, Goto, Lockable,
                             Procs
<1>3. TypeOK'
  BY DEF IInv, TypeOK, Record, Goto, database
<1>4. RecordedIffApplied' /\ InOrderOnce'
  BY DEF IInv, RecordedIffApplied, InOrderOnce, Record, database
<1>5. ReadyMeansMigrated' /\ Passed'
  BY <1>1, <1>2 DEF IInv, ReadyMeansMigrated, Migrated, Passed, Looping, Record, database
<1>6. WriterAlone'
  BY <1>1, <1>2 DEF WriterAlone, Record, database
<1> QED
  BY <1>3, <1>4, <1>5, <1>6 DEF IInv

(* The one step that changes the database. Nobody else has written both
   statements, and every version below the one that is recorded is there. *)
LEMMA CommitKeeps ==
  ASSUME IInv, NEW p \in Procs, Commit(p)
  PROVE  IInv'
<1> DEFINE v == at[p]
<1>1. pc[p] = "stored" /\ v \in Versions(release[p]) /\ v \in AllVersions
      /\ v \notin recorded
  BY VersionsAreNaturals DEF IInv, TypeOK, WriterAlone, Passed, Commit
<1>2. recorded' = recorded \cup {v} /\ tables' = tables \cup {v}
      /\ applied' = [applied EXCEPT ![v] = @ + 1]
  BY DEF Commit
<1>3. pc'[p] = "check" /\ at'[p] = v + 1 /\ v \in Nat \ {0}
  BY DEF IInv, TypeOK, Commit, Goto
<1>4. \A q \in Procs \ {p} : /\ pc'[q] = pc[q] /\ at'[q] = at[q]
                              /\ pc[q] \notin {"stored", "writing"}
  BY <1>1 DEF IInv, TypeOK, WriterAlone, Commit, Goto
<1>5. TypeOK'
  BY <1>1, <1>2 DEF IInv, TypeOK, Commit, Goto
<1>6. RecordedIffApplied'
  BY <1>2 DEF IInv, RecordedIffApplied
<1>7. \A u \in AllVersions : u < v => u \in recorded
  BY <1>1 DEF IInv, Passed, Looping
<1>8. InOrderOnce'
  <2> SUFFICES ASSUME NEW u \in AllVersions
               PROVE  /\ applied'[u] = IF u \in recorded' THEN 1 ELSE 0
                      /\ u \in recorded' => Versions(u) \subseteq recorded'
    BY DEF InOrderOnce
  <2>1. applied'[u] = IF u \in recorded' THEN 1 ELSE 0
    BY <1>1, <1>2 DEF IInv, TypeOK, InOrderOnce
  <2>2. CASE u = v
    BY <2>1, <2>2, <1>2, <1>7, VersionsBelow
  <2>3. CASE u # v
    BY <2>1, <2>3, <1>2 DEF IInv, InOrderOnce
  <2> QED
    BY <2>2, <2>3
<1>9. ReadyMeansMigrated'
  BY <1>2, <1>3, <1>4 DEF IInv, ReadyMeansMigrated, Migrated, Commit
<1>10. WriterAlone'
  BY <1>3, <1>4 DEF WriterAlone
<1>11. \A u \in AllVersions : u < at'[p] => u \in recorded'
  <2> SUFFICES ASSUME NEW u \in AllVersions, u < v + 1 PROVE u \in recorded'
    BY <1>3
  <2>1. u < v \/ u = v
    BY <1>3, VersionsAreNaturals
  <2> QED
    BY <2>1, <1>2, <1>7
<1>12. Passed'
  BY <1>2, <1>3, <1>4, <1>11 DEF IInv, Passed, Looping, Commit
<1> QED
  BY <1>5, <1>6, <1>8, <1>9, <1>10, <1>12 DEF IInv

(* A process that is through has met every version of its release. *)
LEMMA FinishKeeps ==
  ASSUME IInv, NEW p \in Procs, Finish(p)
  PROVE  IInv'
<1>1. pc[p] = "check" /\ pc'[p] = "ready" /\ at' = at /\ release' = release
  BY DEF IInv, TypeOK, Finish, Goto
<1>2. \A q \in Procs \ {p} : pc'[q] = pc[q]
  BY DEF IInv, TypeOK, Finish, Goto
<1>3. TypeOK'
  BY DEF IInv, TypeOK, Finish, Goto, database
<1>4. RecordedIffApplied' /\ InOrderOnce'
  BY DEF IInv, RecordedIffApplied, InOrderOnce, Finish, database
<1>5. \A v \in Versions(release[p]) : v < at[p] /\ v \in AllVersions
  <2>1. release[p] \in Releases /\ release[p] \in Nat /\ at[p] \in Nat \ {0}
    BY ReleasesAssumption DEF IInv, TypeOK
  <2>2. at[p] \notin Versions(release[p])
    BY DEF Finish
  <2>3. at[p] > release[p]
    BY <2>1, <2>2 DEF Versions
  <2> QED
    BY <2>1, <2>3, VersionsAreNaturals DEF Versions
<1>6. Versions(release[p]) \subseteq tables
  BY <1>1, <1>5 DEF IInv, Passed, Looping, RecordedIffApplied
<1>7. ReadyMeansMigrated'
  BY <1>1, <1>2, <1>6 DEF IInv, ReadyMeansMigrated, Migrated, Finish, database
<1>8. Passed' /\ WriterAlone'
  BY <1>1, <1>2 DEF IInv, Passed, Looping, WriterAlone, Finish, database
<1> QED
  BY <1>3, <1>4, <1>7, <1>8 DEF IInv

(* What a migrated process writes of its own takes the lock and gives it back. *)
LEMMA WriteKeeps ==
  ASSUME IInv, NEW p \in Procs, Write(p)
  PROVE  IInv'
<1>1. pc[p] = "ready" /\ pc'[p] = "writing" /\ at' = at /\ writer' = p
  BY DEF IInv, TypeOK, Write, Goto
<1>2. \A q \in Procs \ {p} : pc'[q] = pc[q] /\ pc[q] \notin {"stored", "writing"}
  BY ProcsAssumption DEF IInv, TypeOK, WriterAlone, Write, Goto, Lockable, Procs
<1>3. TypeOK'
  BY DEF IInv, TypeOK, Write, Goto, database
<1>4. RecordedIffApplied' /\ InOrderOnce'
  BY DEF IInv, RecordedIffApplied, InOrderOnce, Write, database
<1>5. ReadyMeansMigrated' /\ Passed'
  BY <1>1, <1>2 DEF IInv, ReadyMeansMigrated, Migrated, Passed, Looping, Write,
                    database
<1>6. WriterAlone'
  BY <1>1, <1>2 DEF WriterAlone, Write, database
<1> QED
  BY <1>3, <1>4, <1>5, <1>6 DEF IInv

LEMMA WroteKeeps ==
  ASSUME IInv, NEW p \in Procs, Wrote(p)
  PROVE  IInv'
<1>1. CASE Ends(p)
  <2>1. crashes' \in Nat
    BY DEF IInv, TypeOK, Wrote
  <2> QED
    BY <1>1, <2>1, EndsKeeps
<1>2. CASE ~Ends(p)
  <2>1. /\ pc[p] = "writing" /\ Goto(p, "ready") /\ writer' = None
        /\ UNCHANGED <<database, release, at, runs, crashes, applied>>
    BY <1>2 DEF Wrote
  <2>2. TypeOK'
    BY <2>1 DEF IInv, TypeOK, Goto, database
  <2>3. RecordedIffApplied' /\ InOrderOnce'
    BY <2>1 DEF IInv, RecordedIffApplied, InOrderOnce, database
  <2>4. /\ pc'[p] = "ready"
        /\ \A q \in Procs \ {p} : /\ pc'[q] = pc[q]
                                  /\ pc[q] \notin {"stored", "writing"}
    BY <2>1 DEF IInv, TypeOK, WriterAlone, Goto
  <2>5. ReadyMeansMigrated' /\ Passed'
    BY <2>1, <2>4 DEF IInv, ReadyMeansMigrated, Migrated, Passed, Looping, database
  <2>6. WriterAlone'
    BY <2>4 DEF WriterAlone
  <2> QED
    BY <2>2, <2>3, <2>5, <2>6 DEF IInv
<1> QED
  BY <1>1, <1>2

LEMMA StepKeeps == IInv /\ [Next]_vars => IInv'
<1> SUFFICES ASSUME IInv, [Next]_vars PROVE IInv'
  OBVIOUS
<1>1. ASSUME NEW p \in Procs, Start(p) PROVE IInv'
  BY <1>1, StartKeeps
<1>2. ASSUME NEW p \in Procs, Step(p) PROVE IInv'
  <2>1. CASE Ledger(p)
    BY <2>1, LedgerKeeps
  <2>2. CASE Check(p)
    BY <2>2, CheckKeeps
  <2>3. CASE Apply(p)
    BY <2>3, ApplyKeeps
  <2>4. CASE Record(p)
    BY <2>4, RecordKeeps
  <2>5. CASE Commit(p)
    BY <2>5, CommitKeeps
  <2>6. CASE Refused(p)
    <3>1. crashes' \in Nat
      BY <2>6 DEF IInv, TypeOK, Refused
    <3> QED
      BY <2>6, <3>1, EndsKeeps DEF Refused
  <2>7. CASE Finish(p)
    BY <2>7, FinishKeeps
  <2>8. CASE Write(p)
    BY <2>8, WriteKeeps
  <2>9. CASE Wrote(p)
    BY <2>9, WroteKeeps
  <2> QED
    BY <1>2, <2>1, <2>2, <2>3, <2>4, <2>5, <2>6, <2>7, <2>8, <2>9 DEF Step
<1>3. ASSUME NEW p \in Procs, Crash(p) PROVE IInv'
  <2>1. crashes' \in Nat
    BY <1>3 DEF IInv, TypeOK, Crash
  <2> QED
    BY <1>3, <2>1, EndsKeeps DEF Crash
<1>4. CASE UNCHANGED vars
  BY <1>4 DEF IInv, TypeOK, RecordedIffApplied, InOrderOnce, ReadyMeansMigrated,
              Migrated, WriterAlone, Passed, vars, database
<1> QED
  BY <1>1, <1>2, <1>3, <1>4 DEF Next

LEMMA Invariant == Spec => []IInv
BY InitHolds, StepKeeps, PTL DEF Spec

-----------------------------------------------------------------------------

(* Every reachable state of the database and of the processes is well-formed. *)
THEOREM TypeCorrect == Spec => []TypeOK
<1>1. IInv => TypeOK
  BY DEF IInv
<1> QED
  BY Invariant, <1>1, PTL

(* Wherever processes are stopped, schema_migrations tells which tables exist. *)
THEOREM LedgerIsTrue == Spec => []RecordedIffApplied
<1>1. IInv => RecordedIffApplied
  BY DEF IInv
<1> QED
  BY Invariant, <1>1, PTL

(* Migrations take effect once and in order, however many processes of
   whatever releases run them at the same time. *)
THEOREM AppliedInOrderOnce == Spec => []InOrderOnce
<1>1. IInv => InOrderOnce
  BY DEF IInv
<1> QED
  BY Invariant, <1>1, PTL

(* No process uses the database before every table it knows exists. *)
THEOREM SchemaBeforeUse == Spec => []ReadyMeansMigrated
<1>1. IInv => ReadyMeansMigrated
  BY DEF IInv
<1> QED
  BY Invariant, <1>1, PTL
=============================================================================
