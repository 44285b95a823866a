---------------------------- MODULE JobLifecycle ----------------------------
(***************************************************************************)
(* What the backend promises of a job to the users of its API: the        *)
(* statuses a reader of the row can see one after the other, and how they  *)
(* are tied to executions of the job.  Handlers, channel, workers and      *)
(* restarts are out of sight; JobEngine is shown to implement this.        *)
(***************************************************************************)
EXTENDS Naturals

CONSTANT Jobs   \* the jobs that may ever be submitted

VARIABLES
  row,      \* status of every job, "absent" when there is no row
  spawns    \* how often the job was executed

vars == <<row, spawns>>

Init ==
  /\ row = [j \in Jobs |-> "absent"]
  /\ spawns = [j \in Jobs |-> 0]

Becomes(j, status) ==
  /\ row' = [row EXCEPT ![j] = status]
  /\ UNCHANGED spawns

(* A job is accepted, or kept for the moment it takes to find the queue full. *)
Submit(j) ==
  /\ row[j] = "absent" /\ spawns[j] = 0
  /\ Becomes(j, "pending")

(* It is refused: its row goes, whether it was cancelled meanwhile or not. *)
Refuse(j) ==
  /\ row[j] \in {"pending", "cancelled"} /\ spawns[j] = 0
  /\ Becomes(j, "absent")

(* The cancel of a pending job is written, possibly late. *)
Cancel(j) == Becomes(j, "cancelled")

(* A worker takes it up, possibly over a cancel that was just written. *)
Begin(j) ==
  /\ row[j] \in {"pending", "cancelled"} /\ spawns[j] = 0
  /\ Becomes(j, "running")

(* The job is executed, for the first and last time. *)
Execute(j) ==
  /\ row[j] \in {"running", "cancelled"} /\ spawns[j] = 0
  /\ spawns' = [spawns EXCEPT ![j] = 1]
  /\ UNCHANGED row

(* It ends. Only a job that was executed can be done. *)
End(j) ==
  /\ row[j] \in {"running", "cancelled"}
  /\ \/ Becomes(j, "failed") \/ Becomes(j, "cancelled")
     \/ spawns[j] = 1 /\ Becomes(j, "done")

Next == \E j \in Jobs : \/ Submit(j) \/ Refuse(j) \/ Cancel(j) \/ Begin(j)
                        \/ Execute(j) \/ End(j)

Spec == Init /\ [][Next]_vars
=============================================================================
