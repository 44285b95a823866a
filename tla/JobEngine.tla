----------------------------- MODULE JobEngine -----------------------------
(***************************************************************************)
(* The execution engine of the backend: the job rows in SQLite, the HTTP   *)
(* handlers that submit and cancel jobs, the channel between them and the  *)
(* worker pool, the registry of cancel functions, the subprocess each      *)
(* worker drives, and the life of the server process itself (boot          *)
(* recovery, SIGTERM, crash).                                              *)
(*                                                                         *)
(* One action is what happens between two points at which another          *)
(* goroutine can intervene: a database statement, a channel operation, a   *)
(* registry call under its mutex, or an event of the operating system.     *)
(***************************************************************************)
EXTENDS Naturals, Sequences, FiniteSets

CONSTANTS
  Jobs,        \* the jobs that may ever be submitted (uuids)
  Workers,     \* the goroutines Pool.Start spawns
  Cancellers,  \* concurrent executions of the cancel handler
  None,        \* "no job" and "no worker"
  Capacity,    \* jobChannelBuffer
  MaxCrashes,  \* bound: crashes of the server process
  MaxSignals,  \* bound: SIGTERM / SIGINT deliveries
  MaxFaults    \* bound: database statements that fail (SQLITE_BUSY, disk)

ASSUME NoneAssumption == None \notin Jobs \cup Workers
ASSUME CapacityAssumption == Capacity \in Nat \ {0}
ASSUME BoundsAssumption == {MaxCrashes, MaxSignals, MaxFaults} \subseteq Nat
ASSUME FiniteAssumption == IsFiniteSet(Jobs) /\ IsFiniteSet(Workers)

Terminal == {"done", "failed", "cancelled"}
Statuses == {"absent", "pending", "running"} \cup Terminal

VARIABLES
  row,        \* jobs.status of every job, "absent" when there is no row
  born,       \* jobs.created_at as a stamp, 0 before the row is created
  queue,      \* the contents of Pool.jobs
  wpc,        \* where each worker goroutine is in its loop and in runJob
  wjob,       \* the job ID it took from the channel
  wctx,       \* the state of its jobCtx
  wend,       \* the status it will write with finishJob
  registry,   \* Registry.cancels: which worker's context the entry cancels
  alive,      \* jobs whose subprocess exists
  submit,     \* where the Enqueue handler of each job is
  csaw,       \* the status a cancel handler read, "none" when it is idle
  cjob,       \* the job that handler is for
  phase,      \* the life of the server process
  todo,       \* rows Recover has listed and not yet handled
  crashes, signals, faults,   \* how much of each bound is used up
  \* History, read by properties only
  spawns,     \* how many subprocesses were started for each job, ever
  acked,      \* jobs for which a cancel request was answered with success
  halted,     \* jobs not executed yet whose cancel was answered with success
              \* after the handler had read that they run
  stranded    \* non-terminal rows that nothing in this process will touch

storeVars   == <<row, born>>
workerVars  == <<wpc, wjob, wctx, wend>>
handlerVars == <<submit, csaw, cjob>>
serverVars  == <<phase, todo>>
boundVars   == <<crashes, signals, faults>>
historyVars == <<spawns, acked, halted, stranded>>
vars == <<storeVars, queue, workerVars, registry, alive, handlerVars,
          serverVars, boundVars, historyVars>>

-----------------------------------------------------------------------------
(* Initial state: an empty database, the server not yet started. *)

Init ==
  /\ row = [j \in Jobs |-> "absent"]
  /\ born = [j \in Jobs |-> 0]
  /\ queue = <<>>
  /\ wpc = [w \in Workers |-> "off"]
  /\ wjob = [w \in Workers |-> None]
  /\ wctx = [w \in Workers |-> "live"]
  /\ wend = [w \in Workers |-> "failed"]
  /\ registry = [j \in Jobs |-> None]
  /\ alive = {}
  /\ submit = [j \in Jobs |-> "new"]
  /\ csaw = [c \in Cancellers |-> "none"]
  /\ cjob = [c \in Cancellers |-> None]
  /\ phase = "down"
  /\ todo = {}
  /\ crashes = 0 /\ signals = 0 /\ faults = 0
  /\ spawns = [j \in Jobs |-> 0]
  /\ acked = {} /\ halted = {}
  /\ stranded = {}

(* A database statement that fails. Every error path below starts here. *)
Fault ==
  /\ faults < MaxFaults
  /\ faults' = faults + 1
  /\ UNCHANGED <<crashes, signals>>

(* The HTTP listener accepts requests: also after SIGTERM, because r.Run is
   not tied to rootCtx. *)
Serving == phase \in {"up", "draining"}

InQueue(j) == \E i \in 1..Len(queue) : queue[i] = j

(* The statuses a worker holds its job in after it read "pending". *)
Executing == {"marked", "registered", "spawned", "resolved"}

-----------------------------------------------------------------------------
(* POST /api/jobs: JobService.Enqueue *)

(* jobRepo.Create: the row is inserted as "pending". *)
Create(j) ==
  /\ Serving /\ submit[j] = "new"
  /\ row' = [row EXCEPT ![j] = "pending"]
  /\ born' = [born EXCEPT ![j] = 1 + Cardinality({k \in Jobs : born[k] > 0})]
  /\ submit' = [submit EXCEPT ![j] = "created"]
  /\ UNCHANGED <<queue, workerVars, registry, alive, csaw, cjob, serverVars,
                 boundVars, historyVars>>

CreateFails(j) ==
  /\ Serving /\ submit[j] = "new" /\ Fault
  /\ submit' = [submit EXCEPT ![j] = "dropped"]
  /\ UNCHANGED <<storeVars, queue, workerVars, registry, alive, csaw, cjob,
                 serverVars, historyVars>>

(* A mutant: the check and the send are not one step. *)
OfferUnchecked(j) ==
  /\ submit[j] = "created"
  /\ queue' = Append(queue, j)
  /\ submit' = [submit EXCEPT ![j] = "accepted"]
  /\ UNCHANGED <<storeVars, workerVars, registry, alive, csaw, cjob,
                 serverVars, boundVars, historyVars>>

(* pool.Enqueue: a send that never blocks. *)
Offer(j) ==
  /\ submit[j] = "created"
  /\ \/ /\ Len(queue) < Capacity
        /\ queue' = Append(queue, j)
        /\ submit' = [submit EXCEPT ![j] = "accepted"]
     \/ /\ Len(queue) >= Capacity
        /\ submit' = [submit EXCEPT ![j] = "full"]
        /\ UNCHANGED queue
  /\ UNCHANGED <<storeVars, workerVars, registry, alive, csaw, cjob,
                 serverVars, boundVars, historyVars>>

(* A mutant: the row of a refused job is left behind. *)
WithdrawForgets(j) ==
  /\ submit[j] = "full"
  /\ submit' = [submit EXCEPT ![j] = "rejected"]
  /\ UNCHANGED <<storeVars, queue, workerVars, registry, alive, csaw, cjob,
                 serverVars, boundVars, historyVars>>

(* jobRepo.Delete of a job the channel had no room for, then ErrQueueFull. *)
Withdraw(j) ==
  /\ submit[j] = "full"
  /\ row' = [row EXCEPT ![j] = "absent"]
  /\ submit' = [submit EXCEPT ![j] = "rejected"]
  /\ UNCHANGED <<born, queue, workerVars, registry, alive, csaw, cjob,
                 serverVars, boundVars, historyVars>>

(* The error of Delete is discarded: the client is told 503 all the same. *)
WithdrawFails(j) ==
  /\ submit[j] = "full" /\ Fault
  /\ submit' = [submit EXCEPT ![j] = "rejected"]
  /\ stranded' = stranded \cup {j}
  /\ UNCHANGED <<storeVars, queue, workerVars, registry, alive, csaw, cjob,
                 serverVars, spawns, acked, halted>>

-----------------------------------------------------------------------------
(* POST /api/jobs/:id/cancel: JobService.Cancel. A row that is absent or     *)
(* terminal is answered with an error and changes nothing.                  *)

CancelRead(c, j) ==
  /\ Serving /\ csaw[c] = "none"
  /\ row[j] \in {"pending", "running"}
  /\ csaw' = [csaw EXCEPT ![c] = row[j]]
  /\ cjob' = [cjob EXCEPT ![c] = j]
  /\ UNCHANGED <<storeVars, queue, workerVars, registry, alive, submit,
                 serverVars, boundVars, historyVars>>

CancelReturns(c) ==
  /\ csaw' = [csaw EXCEPT ![c] = "none"]
  /\ cjob' = [cjob EXCEPT ![c] = None]

(* The row read as pending is saved whole, whatever it has become since; a
   row deleted since is inserted again (GORM's Save is an upsert). *)
CancelPending(c) ==
  /\ csaw[c] = "pending"
  /\ row' = [row EXCEPT ![cjob[c]] = "cancelled"]
  /\ acked' = acked \cup {cjob[c]}
  /\ CancelReturns(c)
  /\ UNCHANGED <<born, queue, workerVars, registry, alive, submit, serverVars,
                 boundVars, spawns, halted, stranded>>

CancelPendingFails(c) ==
  /\ csaw[c] = "pending" /\ Fault
  /\ CancelReturns(c)
  /\ UNCHANGED <<storeVars, queue, workerVars, registry, alive, submit,
                 serverVars, historyVars>>

(* pool.Cancel: Registry.Cancel under its mutex. Its result is ignored, so a
   job without an entry is acknowledged as well. *)
CancelRunning(c) ==
  /\ csaw[c] = "running"
  /\ LET w == registry[cjob[c]] IN
       wctx' = [v \in Workers |-> IF v = w /\ wctx[v] = "live"
                                    THEN "cancelled" ELSE wctx[v]]
  /\ registry' = [registry EXCEPT ![cjob[c]] = None]
  /\ acked' = acked \cup {cjob[c]}
  /\ halted' = halted \cup {j \in {cjob[c]} : spawns[j] = 0}
  /\ CancelReturns(c)
  /\ UNCHANGED <<storeVars, queue, wpc, wjob, wend, alive, submit, serverVars,
                 boundVars, spawns, stranded>>

-----------------------------------------------------------------------------
(* A worker goroutine: the select loop of Pool.Start and runJob. *)

(* select takes a job although ctx.Done may be ready too. *)
Fetch(w) ==
  /\ wpc[w] = "idle" /\ queue # <<>>
  /\ wjob' = [wjob EXCEPT ![w] = Head(queue)]
  /\ queue' = Tail(queue)
  /\ wpc' = [wpc EXCEPT ![w] = "fetched"]
  /\ UNCHANGED <<storeVars, wctx, wend, registry, alive, handlerVars,
                 serverVars, boundVars, historyVars>>

(* select takes ctx.Done. *)
Stop(w) ==
  /\ wpc[w] = "idle" /\ phase = "draining"
  /\ wpc' = [wpc EXCEPT ![w] = "off"]
  /\ UNCHANGED <<storeVars, queue, wjob, wctx, wend, registry, alive,
                 handlerVars, serverVars, boundVars, historyVars>>

(* The worker drops the job and goes back to the select. *)
Abandon(w) ==
  /\ wpc' = [wpc EXCEPT ![w] = "idle"]
  /\ wjob' = [wjob EXCEPT ![w] = None]
  /\ UNCHANGED <<wctx, wend>>

(* A mutant: the pending guard is gone. *)
LoadUnguarded(w) ==
  /\ wpc[w] = "fetched"
  /\ wpc' = [wpc EXCEPT ![w] = "loaded"]
  /\ UNCHANGED <<storeVars, queue, wjob, wctx, wend, registry, alive,
                 handlerVars, serverVars, boundVars, historyVars>>

(* FindByID and the status guard of runJob. *)
Load(w) ==
  /\ wpc[w] = "fetched"
  /\ \/ /\ row[wjob[w]] = "pending"
        /\ wpc' = [wpc EXCEPT ![w] = "loaded"]
        /\ UNCHANGED <<wjob, wctx, wend>>
     \/ /\ row[wjob[w]] # "pending"
        /\ Abandon(w)
  /\ UNCHANGED <<storeVars, queue, registry, alive, handlerVars, serverVars,
                 boundVars, historyVars>>

LoadFails(w) ==
  /\ wpc[w] = "fetched" /\ Fault
  /\ Abandon(w)
  /\ stranded' = stranded \cup {wjob[w]}
  /\ UNCHANGED <<storeVars, queue, registry, alive, handlerVars, serverVars,
                 spawns, acked, halted>>

(* jobRepo.Update(running): the row read by Load is saved whole, over a
   cancellation written in between. *)
Mark(w) ==
  /\ wpc[w] = "loaded"
  /\ row' = [row EXCEPT ![wjob[w]] = "running"]
  /\ wpc' = [wpc EXCEPT ![w] = "marked"]
  /\ UNCHANGED <<born, queue, wjob, wctx, wend, registry, alive, handlerVars,
                 serverVars, boundVars, historyVars>>

(* runJob returns: the row is still pending and no longer in the channel. *)
MarkFails(w) ==
  /\ wpc[w] = "loaded" /\ Fault
  /\ Abandon(w)
  /\ stranded' = stranded \cup {wjob[w]}
  /\ UNCHANGED <<storeVars, queue, registry, alive, handlerVars, serverVars,
                 spawns, acked, halted>>

(* context.WithTimeout on the root context, then reg.Set. *)
Register(w) ==
  /\ wpc[w] = "marked"
  /\ wctx' = [wctx EXCEPT ![w] = IF phase = "draining" THEN "cancelled"
                                                       ELSE "live"]
  /\ registry' = [registry EXCEPT ![wjob[w]] = w]
  /\ wpc' = [wpc EXCEPT ![w] = "registered"]
  /\ UNCHANGED <<storeVars, queue, wjob, wend, alive, handlerVars, serverVars,
                 boundVars, historyVars>>

(* cmd.Start: refuses a context that is already done. *)
Spawn(w) ==
  /\ wpc[w] = "registered" /\ wctx[w] = "live"
  /\ alive' = alive \cup {wjob[w]}
  /\ spawns' = [spawns EXCEPT ![wjob[w]] = @ + 1]
  /\ wpc' = [wpc EXCEPT ![w] = "spawned"]
  /\ UNCHANGED <<storeVars, queue, wjob, wctx, wend, registry, handlerVars,
                 serverVars, boundVars, acked, halted, stranded>>

(* A mutant: an error of cmd.Start goes unnoticed. *)
SpawnFailsUnseen(w) ==
  /\ wpc[w] = "registered"
  /\ wend' = [wend EXCEPT ![w] = "done"]
  /\ wpc' = [wpc EXCEPT ![w] = "resolved"]
  /\ UNCHANGED <<storeVars, queue, wjob, wctx, registry, alive, handlerVars,
                 serverVars, boundVars, historyVars>>

(* A pipe error, an error of cmd.Start, or a context already done. *)
SpawnFails(w) ==
  /\ wpc[w] = "registered"
  /\ wend' = [wend EXCEPT ![w] = "failed"]
  /\ wpc' = [wpc EXCEPT ![w] = "resolved"]
  /\ UNCHANGED <<storeVars, queue, wjob, wctx, registry, alive, handlerVars,
                 serverVars, boundVars, historyVars>>

(* A mutant: any context error counts as a cancellation. *)
OutcomesAnyError(ctx) == IF ctx = "live" THEN {"done", "failed"}
                                         ELSE {"cancelled"}

(* resolveOutcome: the context decides first, then the output. *)
Outcomes(ctx) == CASE ctx = "cancelled" -> {"cancelled"}
                   [] ctx = "deadline"  -> {"failed"}
                   [] OTHER             -> {"done", "failed"}

(* A mutant: the worker does not wait for its process. *)
ResolveEarly(w) ==
  /\ wpc[w] = "spawned"
  /\ \E end \in Outcomes(wctx[w]) : wend' = [wend EXCEPT ![w] = end]
  /\ wpc' = [wpc EXCEPT ![w] = "resolved"]
  /\ UNCHANGED <<storeVars, queue, wjob, wctx, registry, alive, handlerVars,
                 serverVars, boundVars, historyVars>>

(* Both pipes are at EOF and cmd.Wait has returned. *)
Resolve(w) ==
  /\ wpc[w] = "spawned" /\ wjob[w] \notin alive
  /\ \E end \in Outcomes(wctx[w]) : wend' = [wend EXCEPT ![w] = end]
  /\ wpc' = [wpc EXCEPT ![w] = "resolved"]
  /\ UNCHANGED <<storeVars, queue, wjob, wctx, registry, alive, handlerVars,
                 serverVars, boundVars, historyVars>>

(* finishJob: the row is saved whole, over whatever it has become. *)
Finish(w) ==
  /\ wpc[w] = "resolved"
  /\ row' = [row EXCEPT ![wjob[w]] = wend[w]]
  /\ wpc' = [wpc EXCEPT ![w] = "saved"]
  /\ UNCHANGED <<born, queue, wjob, wctx, wend, registry, alive, handlerVars,
                 serverVars, boundVars, historyVars>>

(* The error is only logged: the row stays as it is until the next boot. *)
FinishFails(w) ==
  /\ wpc[w] = "resolved" /\ Fault
  /\ wpc' = [wpc EXCEPT ![w] = "saved"]
  /\ stranded' = stranded \cup {wjob[w]}
  /\ UNCHANGED <<storeVars, queue, wjob, wctx, wend, registry, alive,
                 handlerVars, serverVars, spawns, acked, halted>>

(* A mutant: the registry entry outlives the run. *)
ReleaseKeepsEntry(w) ==
  /\ wpc[w] = "saved"
  /\ Abandon(w)
  /\ UNCHANGED <<storeVars, queue, registry, alive, handlerVars, serverVars,
                 boundVars, historyVars>>

(* The deferred cancel() and reg.Remove, then back to the select. *)
Release(w) ==
  /\ wpc[w] = "saved"
  /\ wpc' = [wpc EXCEPT ![w] = "idle"]
  /\ wjob' = [wjob EXCEPT ![w] = None]
  /\ wctx' = [wctx EXCEPT ![w] = "live"]
  /\ registry' = [registry EXCEPT ![wjob[w]] = None]
  /\ UNCHANGED <<storeVars, queue, wend, alive, handlerVars, serverVars,
                 boundVars, historyVars>>

-----------------------------------------------------------------------------
(* Timers and processes. *)

(* JobTimeoutMin elapses. *)
Deadline(w) ==
  /\ wpc[w] \in {"registered", "spawned"} /\ wctx[w] = "live"
  /\ wctx' = [wctx EXCEPT ![w] = "deadline"]
  /\ UNCHANGED <<storeVars, queue, wpc, wjob, wend, registry, alive,
                 handlerVars, serverVars, boundVars, historyVars>>

(* A subprocess exits: by itself, or by the SIGTERM of cmd.Cancel. *)
Exit(j) ==
  /\ j \in alive
  /\ alive' = alive \ {j}
  /\ UNCHANGED <<storeVars, queue, workerVars, registry, handlerVars,
                 serverVars, boundVars, historyVars>>

(* It exits after cmd.Cancel was called, and WaitDelay makes it. *)
Reap(j) ==
  /\ \E w \in Workers :
       wpc[w] = "spawned" /\ wjob[w] = j /\ wctx[w] # "live"
  /\ Exit(j)

-----------------------------------------------------------------------------
(* The server process: main, Pool.Recover, SIGTERM, crash. *)

(* main up to ListRecoverable. *)
Boot ==
  /\ phase = "down"
  /\ phase' = "recovering"
  /\ todo' = {j \in Jobs : row[j] \in {"pending", "running"}}
  /\ UNCHANGED <<storeVars, queue, workerVars, registry, alive, handlerVars,
                 boundVars, historyVars>>

(* Recover takes the listed rows in created_at order. *)
RecoverNext(j) ==
  /\ phase = "recovering" /\ j \in todo
  /\ \A k \in todo : born[j] <= born[k]
  /\ todo' = todo \ {j}

(* A mutant: a crashed run is started again. *)
RecoverRetries(j) ==
  /\ RecoverNext(j) /\ row[j] = "running"
  /\ Len(queue) < Capacity
  /\ row' = [row EXCEPT ![j] = "pending"]
  /\ queue' = Append(queue, j)
  /\ UNCHANGED <<born, workerVars, registry, alive, handlerVars, phase,
                 boundVars, historyVars>>

RecoverRunning(j) ==
  /\ RecoverNext(j) /\ row[j] = "running"
  /\ row' = [row EXCEPT ![j] = "failed"]
  /\ UNCHANGED <<born, queue, workerVars, registry, alive, handlerVars, phase,
                 boundVars, historyVars>>

RecoverRunningFails(j) ==
  /\ RecoverNext(j) /\ row[j] = "running" /\ Fault
  /\ stranded' = stranded \cup {j}
  /\ UNCHANGED <<storeVars, queue, workerVars, registry, alive, handlerVars,
                 phase, spawns, acked, halted>>

(* A mutant: pending rows are listed and not put back in the channel. *)
RecoverForgets(j) ==
  /\ RecoverNext(j) /\ row[j] = "pending"
  /\ UNCHANGED <<storeVars, queue, workerVars, registry, alive, handlerVars,
                 phase, boundVars, historyVars>>

(* No worker runs yet, so a full channel stays full: the job is skipped. *)
RecoverPending(j) ==
  /\ RecoverNext(j) /\ row[j] = "pending"
  /\ \/ /\ Len(queue) < Capacity
        /\ queue' = Append(queue, j)
        /\ UNCHANGED stranded
     \/ /\ Len(queue) >= Capacity
        /\ stranded' = stranded \cup {j}
        /\ UNCHANGED queue
  /\ UNCHANGED <<storeVars, workerVars, registry, alive, handlerVars, phase,
                 boundVars, spawns, acked, halted>>

(* pool.Start and r.Run. *)
Serve ==
  /\ phase = "recovering" /\ todo = {}
  /\ phase' = "up"
  /\ wpc' = [w \in Workers |-> "idle"]
  /\ UNCHANGED <<storeVars, queue, wjob, wctx, wend, registry, alive,
                 handlerVars, todo, boundVars, historyVars>>

(* SIGINT or SIGTERM: rootCtx is cancelled, and with it every live jobCtx. *)
Signal ==
  /\ phase = "up" /\ signals < MaxSignals
  /\ phase' = "draining"
  /\ signals' = signals + 1
  /\ wctx' = [w \in Workers |->
                IF wpc[w] \in {"registered", "spawned", "resolved", "saved"}
                   /\ wctx[w] = "live"
                  THEN "cancelled" ELSE wctx[w]]
  /\ UNCHANGED <<storeVars, queue, wpc, wjob, wend, registry, alive,
                 handlerVars, todo, crashes, faults, historyVars>>

(* The memory of the process is gone; the rows, and the subprocesses, which
   have process groups of their own, are not. *)
Die ==
  /\ phase' = "down"
  /\ queue' = <<>>
  /\ wpc' = [w \in Workers |-> "off"]
  /\ wjob' = [w \in Workers |-> None]
  /\ wctx' = [w \in Workers |-> "live"]
  /\ wend' = [w \in Workers |-> "failed"]
  /\ registry' = [j \in Jobs |-> None]
  /\ submit' = [j \in Jobs |-> IF submit[j] \in {"created", "full"}
                                 THEN "dropped" ELSE submit[j]]
  /\ csaw' = [c \in Cancellers |-> "none"]
  /\ cjob' = [c \in Cancellers |-> None]
  /\ todo' = {}
  /\ stranded' = {}
  /\ UNCHANGED <<storeVars, alive, spawns, acked, halted>>

Crash ==
  /\ phase # "down" /\ crashes < MaxCrashes
  /\ crashes' = crashes + 1
  /\ Die
  /\ UNCHANGED <<signals, faults>>

(* The process manager's SIGKILL after a SIGTERM that did not end it. *)
Kill ==
  /\ phase = "draining"
  /\ Die
  /\ UNCHANGED boundVars

-----------------------------------------------------------------------------
Submission(j) == Create(j) \/ Offer(j) \/ Withdraw(j)
Cancellation(c) == CancelPending(c) \/ CancelRunning(c)
Work(w) == \/ Fetch(w) \/ Stop(w) \/ Load(w) \/ Mark(w) \/ Register(w)
           \/ Spawn(w) \/ SpawnFails(w) \/ Resolve(w) \/ Finish(w)
           \/ Release(w)
Recovery == \/ Boot
            \/ \E j \in Jobs : RecoverRunning(j) \/ RecoverPending(j)
            \/ Serve
Failure == \/ \E j \in Jobs : \/ CreateFails(j) \/ WithdrawFails(j)
                              \/ RecoverRunningFails(j)
           \/ \E c \in Cancellers : CancelPendingFails(c)
           \/ \E w \in Workers : LoadFails(w) \/ MarkFails(w) \/ FinishFails(w)

Next ==
  \/ \E j \in Jobs : Submission(j) \/ Exit(j)
  \/ \E c \in Cancellers :
       Cancellation(c) \/ \E j \in Jobs : CancelRead(c, j)
  \/ \E w \in Workers : Work(w) \/ Deadline(w)
  \/ Recovery \/ Signal \/ Crash \/ Kill
  \/ Failure

Spec == Init /\ [][Next]_vars

(* Goroutines that can run do run; the timeout fires; a subprocess whose
   context is over is terminated; the process manager restarts the server
   and completes a stop with SIGKILL. A subprocess need not end by itself,
   and nobody has to submit or cancel. *)
Fairness ==
  /\ \A j \in Jobs : WF_vars(Offer(j) \/ Withdraw(j)) /\ WF_vars(Reap(j))
  /\ \A w \in Workers : WF_vars(Work(w)) /\ WF_vars(Deadline(w))
  /\ WF_vars(Recovery)
  /\ WF_vars(Kill)

FairSpec == Spec /\ Fairness

-----------------------------------------------------------------------------
(* Properties *)

TypeOK ==
  /\ row \in [Jobs -> Statuses]
  /\ born \in [Jobs -> Nat]
  /\ queue \in Seq(Jobs) /\ Len(queue) <= Capacity
  /\ wpc \in [Workers -> {"off", "idle", "fetched", "loaded", "saved"}
                         \cup Executing]
  /\ wjob \in [Workers -> Jobs \cup {None}]
  /\ wctx \in [Workers -> {"live", "cancelled", "deadline"}]
  /\ wend \in [Workers -> Terminal]
  /\ registry \in [Jobs -> Workers \cup {None}]
  /\ alive \subseteq Jobs
  /\ submit \in [Jobs -> {"new", "created", "full", "accepted", "rejected",
                          "dropped"}]
  /\ csaw \in [Cancellers -> {"none", "pending", "running"}]
  /\ cjob \in [Cancellers -> Jobs \cup {None}]
  /\ phase \in {"down", "recovering", "up", "draining"}
  /\ todo \subseteq Jobs
  /\ crashes \in Nat /\ signals \in Nat /\ faults \in Nat
  /\ spawns \in [Jobs -> Nat]
  /\ acked \subseteq Jobs /\ halted \subseteq Jobs
  /\ stranded \subseteq Jobs

(* A job is handed to at most one subprocess, whatever mixture of crashes,
   recoveries, failed statements, cancellations and restarts it goes through:
   the status guard of runJob and Recover's treatment of running rows. *)
AtMostOnce == \A j \in Jobs : spawns[j] <= 1

(* A cancel function in the registry always belongs to the run of the very
   job it is filed under, so that pool.Cancel(id) can never end the run of
   another job (the entry is removed by the deferred call of runJob). *)
RegistryExact ==
  \A j \in Jobs : registry[j] # None =>
    /\ wjob[registry[j]] = j
    /\ wpc[registry[j]] \in {"registered", "spawned", "resolved", "saved"}

(* Every row that is not terminal is somebody's: a pending row is in the
   channel, with the handler that inserted it or with a worker that has not
   marked it, a running row is with the worker that marked it. The rows that
   slip through are exactly those of "stranded": a statement failed, or
   Recover found the channel full. *)
LiveRowsOwned ==
  Serving => \A j \in Jobs \ stranded :
    /\ row[j] = "pending" =>
         \/ InQueue(j)
         \/ submit[j] \in {"created", "full"}
         \/ \E w \in Workers : wjob[w] = j /\ wpc[w] \in {"fetched", "loaded"}
    /\ row[j] = "running" =>
         \E w \in Workers : wjob[w] = j /\ wpc[w] \in Executing

(* The three parties that may still write the row of j from a copy of it
   they read earlier. *)
StaleWriter(j) ==
  \/ \E w \in Workers : wjob[w] = j /\ wpc[w] \in Executing \cup {"loaded"}
  \/ \E c \in Cancellers : cjob[c] = j /\ csaw[c] = "pending"
  \/ submit[j] \in {"created", "full"}

Settled(j) == row[j] \in Terminal /\ ~StaleWriter(j)

(* Once a row is terminal and nobody is still under way for it with an older
   copy, it never changes again and nobody starts on it again: not a worker
   that finds it in the channel, not a later cancel, not a later boot. *)
SettledIsFinal ==
  [][\A j \in Jobs : Settled(j) => Settled(j)' /\ row'[j] = row[j]]_vars

(* A job whose submission was answered with 503 is never executed
   (job_service.go, the reason given for deleting its row), as long as no
   statement fails: the error of that deletion is discarded. *)
RejectedNeverRuns ==
  faults = 0 => \A j \in Jobs : submit[j] = "rejected" => spawns[j] = 0

(* A job ends as cancelled only if somebody asked for it, as long as the
   server receives no signal: a stop ends running jobs as cancelled too. *)
CancelledWasAsked ==
  signals = 0 => \A j \in Jobs : row[j] = "cancelled" => j \in acked

(* Only as many subprocesses as there are workers exist at a time
   (docs/system-architecture.md), until a server that died left some behind,
   beside which the next one starts its own. *)
ConcurrentJobsBounded ==
  crashes = 0 /\ signals = 0 => Cardinality(alive) <= Cardinality(Workers)

(* An accepted job reaches a terminal status for good, through crashes and
   stops of the server, when no statement fails and the channel can hold
   every row a boot finds. *)
EventuallySettled ==
  \A j \in Jobs : submit[j] = "accepted" ~> [](row[j] \in Terminal)

Lifecycle ==
  INSTANCE JobLifecycle WITH Jobs <- Jobs, row <- row, spawns <- spawns

(* Every behaviour of the engine, seen through the rows and the executions
   only, is one the lifecycle allows: in particular no row leaves a terminal
   status but by a late cancel or by the worker that already holds the job, a
   job is marked running before it is executed, and is done only if it was. *)
LifecycleKept == Lifecycle!Spec

(* A claim of the repository the code does not keep, see README.  phase-02:
   cancelling a running job ends it with status cancelled.  It is stated of
   jobs that were not executed yet when the cancel was answered, since one
   that has just ended cannot be cancelled by anybody. *)
AckedCancelHolds == \A j \in halted : row[j] # "done"
=============================================================================
