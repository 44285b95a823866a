-------------------------- MODULE JobEngineProofs --------------------------
(* Theorems about JobEngine, for every value of its constants. *)
EXTENDS JobEngine, FiniteSetTheorems, TLAPS

(* A worker that is in runJob has a job, and so has a cancel handler between
   its read and its write. *)
HandsTyped ==
  /\ \A w \in Workers : wpc[w] \notin {"off", "idle"} => wjob[w] \in Jobs
  /\ \A c \in Cancellers : csaw[c] # "none" => cjob[c] \in Jobs

TypeInv == TypeOK /\ HandsTyped

LEMMA TypeInit == Init => TypeInv
<1>. SUFFICES ASSUME Init PROVE TypeInv
  OBVIOUS
<1>. QED
  BY NoneAssumption, CapacityAssumption DEF Init, TypeInv, TypeOK, HandsTyped,
     Statuses, Terminal, Executing

LEMMA TypeNext == TypeInv /\ [Next]_vars => TypeInv'
<1>. SUFFICES ASSUME TypeInv, [Next]_vars PROVE TypeInv'
  OBVIOUS
<1>. USE NoneAssumption, CapacityAssumption, BoundsAssumption
     DEF TypeInv, TypeOK, HandsTyped, Statuses, Terminal, Executing, storeVars,
         workerVars, handlerVars, serverVars, boundVars, historyVars
<1>1. ASSUME NEW j \in Jobs, Submission(j) \/ Exit(j) PROVE TypeInv'
  <2>1. CASE Create(j)
    <3>1. IsFiniteSet({k \in Jobs : born[k] > 0})
      BY FiniteAssumption, FS_Subset
    <3>2. Cardinality({k \in Jobs : born[k] > 0}) \in Nat
      BY <3>1, FS_CardinalityType
    <3>. QED
      BY <2>1, <3>2 DEF Create
  <2>2. CASE Offer(j)
    <3>0. Len(queue) \in Nat /\ Capacity \in Nat
      OBVIOUS
    <3>1. CASE Len(queue) < Capacity
      <4>1. queue' = Append(queue, j) /\ submit' = [submit EXCEPT ![j] = "accepted"]
        BY <2>2, <3>1 DEF Offer
      <4>2. queue' \in Seq(Jobs) /\ Len(queue') <= Capacity
        BY <3>1, <4>1
      <4>. QED
        BY <2>2, <4>1, <4>2 DEF Offer
    <3>2. CASE Len(queue) >= Capacity
      <4>1. queue' = queue /\ submit' = [submit EXCEPT ![j] = "full"]
        BY <2>2, <3>0, <3>2 DEF Offer
      <4>. QED
        BY <2>2, <4>1 DEF Offer
    <3>3. Len(queue) < Capacity \/ Len(queue) >= Capacity
      BY ONLY <3>0
    <3>. QED
      BY ONLY <3>1, <3>2, <3>3
  <2>3. CASE Withdraw(j)
    BY <2>3 DEF Withdraw
  <2>4. CASE Exit(j)
    BY <2>4 DEF Exit
  <2>. QED
    BY <1>1, <2>1, <2>2, <2>3, <2>4 DEF Submission
<1>2. ASSUME NEW c \in Cancellers, Cancellation(c) PROVE TypeInv'
  <2>1. CASE CancelPending(c)
    BY <2>1 DEF CancelPending, CancelReturns
  <2>2. CASE CancelRunning(c)
    BY <2>2 DEF CancelRunning, CancelReturns
  <2>. QED
    BY <1>2, <2>1, <2>2 DEF Cancellation
<1>3. ASSUME NEW c \in Cancellers, NEW j \in Jobs, CancelRead(c, j)
      PROVE  TypeInv'
  BY <1>3 DEF CancelRead
<1>4. ASSUME NEW w \in Workers, Work(w) \/ Deadline(w) PROVE TypeInv'
  <2>1. CASE Fetch(w)
    BY <2>1 DEF Fetch
  <2>2. CASE Stop(w)
    BY <2>2 DEF Stop
  <2>3. CASE Load(w)
    <3>1. wpc[w] = "fetched" /\ wjob[w] \in Jobs
      BY <2>3 DEF Load
    <3>2. CASE row[wjob[w]] = "pending"
      BY <2>3, <3>1, <3>2 DEF Load
    <3>3. CASE row[wjob[w]] # "pending"
      BY <2>3, <3>1, <3>3 DEF Load, Abandon
    <3>. QED
      BY <3>2, <3>3
  <2>4. CASE Mark(w)
    BY <2>4 DEF Mark
  <2>5. CASE Register(w)
    BY <2>5 DEF Register
  <2>6. CASE Spawn(w)
    <3>1. wjob[w] \in Jobs
      BY <2>6 DEF Spawn
    <3>2. spawns' \in [Jobs -> Nat]
      BY <2>6, <3>1 DEF Spawn
    <3>. QED
      BY <2>6, <3>1, <3>2 DEF Spawn
  <2>7. CASE SpawnFails(w)
    BY <2>7 DEF SpawnFails
  <2>8. CASE Resolve(w)
    BY <2>8 DEF Resolve, Outcomes
  <2>9. CASE Finish(w)
    BY <2>9 DEF Finish
  <2>10. CASE Release(w)
    BY <2>10 DEF Release
  <2>11. CASE Deadline(w)
    BY <2>11 DEF Deadline
  <2>. QED
    BY <1>4, <2>1, <2>2, <2>3, <2>4, <2>5, <2>6, <2>7, <2>8, <2>9, <2>10, <2>11 DEF Work
<1>5. CASE Recovery
  <2>1. CASE Boot
    BY <2>1 DEF Boot
  <2>2. ASSUME NEW j \in Jobs, RecoverRunning(j) PROVE TypeInv'
    BY <2>2 DEF RecoverRunning, RecoverNext
  <2>3. ASSUME NEW j \in Jobs, RecoverPending(j) PROVE TypeInv'
    <3>0. Len(queue) \in Nat /\ Capacity \in Nat
      OBVIOUS
    <3>1. CASE Len(queue) < Capacity
      <4>1. queue' = Append(queue, j) /\ stranded' = stranded
        BY <2>3, <3>1 DEF RecoverPending
      <4>2. queue' \in Seq(Jobs) /\ Len(queue') <= Capacity
        BY <2>3, <3>1, <4>1
      <4>. QED
        BY <2>3, <4>1, <4>2 DEF RecoverPending, RecoverNext
    <3>2. CASE Len(queue) >= Capacity
      BY <2>3, <3>2 DEF RecoverPending, RecoverNext
    <3>3. Len(queue) < Capacity \/ Len(queue) >= Capacity
      BY ONLY <3>0
    <3>. QED
      BY ONLY <3>1, <3>2, <3>3
  <2>4. CASE Serve
    BY <2>4 DEF Serve
  <2>. QED
    BY <1>5, <2>1, <2>2, <2>3, <2>4 DEF Recovery
<1>6. CASE Signal
  BY <1>6 DEF Signal
<1>7. CASE Crash \/ Kill
  <2>1. Die /\ crashes' \in Nat /\ signals' \in Nat /\ faults' \in Nat
    BY <1>7 DEF Crash, Kill
  <2>2. queue' \in Seq(Jobs) /\ Len(queue') <= Capacity
    BY <2>1 DEF Die
  <2>. QED
    BY <2>1, <2>2 DEF Die
<1>8. CASE Failure
  <2>1. ASSUME NEW j \in Jobs, CreateFails(j) PROVE TypeInv'
    BY <2>1 DEF CreateFails, Fault
  <2>2. ASSUME NEW j \in Jobs, WithdrawFails(j) PROVE TypeInv'
    BY <2>2 DEF WithdrawFails, Fault
  <2>3. ASSUME NEW j \in Jobs, RecoverRunningFails(j) PROVE TypeInv'
    BY <2>3 DEF RecoverRunningFails, RecoverNext, Fault
  <2>4. ASSUME NEW c \in Cancellers, CancelPendingFails(c) PROVE TypeInv'
    BY <2>4 DEF CancelPendingFails, CancelReturns, Fault
  <2>5. ASSUME NEW w \in Workers, LoadFails(w) PROVE TypeInv'
    <3>1. wjob[w] \in Jobs
      BY <2>5 DEF LoadFails
    <3>2. faults' \in Nat /\ stranded' \subseteq Jobs
      BY <2>5, <3>1 DEF LoadFails, Fault
    <3>. QED
      BY <2>5, <3>2 DEF LoadFails, Abandon, Fault
  <2>6. ASSUME NEW w \in Workers, MarkFails(w) PROVE TypeInv'
    <3>1. wjob[w] \in Jobs
      BY <2>6 DEF MarkFails
    <3>2. faults' \in Nat /\ stranded' \subseteq Jobs
      BY <2>6, <3>1 DEF MarkFails, Fault
    <3>. QED
      BY <2>6, <3>2 DEF MarkFails, Abandon, Fault
  <2>7. ASSUME NEW w \in Workers, FinishFails(w) PROVE TypeInv'
    BY <2>7 DEF FinishFails, Fault
  <2>. QED
    BY <1>8, <2>1, <2>2, <2>3, <2>4, <2>5, <2>6, <2>7 DEF Failure
<1>9. CASE UNCHANGED vars
  BY <1>9 DEF vars
<1>. QED
  BY <1>1, <1>2, <1>3, <1>4, <1>5, <1>6, <1>7, <1>8, <1>9 DEF Next

(* Type correctness: every variable of the engine keeps its type, and the
   channel never holds more than jobChannelBuffer entries. *)
THEOREM TypeCorrect == Spec => []TypeOK
<1>1. Spec => []TypeInv
  BY TypeInit, TypeNext, PTL DEF Spec
<1>2. TypeInv => TypeOK
  BY DEF TypeInv
<1>. QED
  BY <1>1, <1>2, PTL

-----------------------------------------------------------------------------
(* The inductive invariant behind AtMostOnce and RegistryExact: at any time a
   job is in one place only, and a job that was started can never be found
   pending again. *)

(* No job is twice in the channel. *)
QueueDistinct ==
  \A i, k \in 1..Len(queue) : queue[i] = queue[k] => i = k

(* A worker outside runJob has no job, and a job in a worker's hands is in no
   other worker's hands and no longer in the channel. *)
OneHolder ==
  /\ \A w \in Workers : wpc[w] \in {"off", "idle"} => wjob[w] = None
  /\ \A v, w \in Workers : wjob[v] = wjob[w] /\ wjob[w] # None => v = w
  /\ \A w \in Workers : ~InQueue(wjob[w])

(* Before its submit handler has offered it, a job is nowhere else. *)
NotYetOffered ==
  \A j \in Jobs :
    /\ submit[j] \in {"new", "created", "full"} =>
         /\ ~InQueue(j)
         /\ \A w \in Workers : wjob[w] # j
         /\ spawns[j] = 0
    /\ submit[j] = "new" =>
         /\ row[j] = "absent"
         /\ \A c \in Cancellers : csaw[c] # "none" => cjob[c] # j

(* A worker past Mark has made the row something else than pending, and so has
   every job that was ever started: no worker will start it again. *)
StartedOnce ==
  /\ \A w \in Workers : wpc[w] \in Executing => row[wjob[w]] # "pending"
  /\ \A j \in Jobs : spawns[j] > 0 =>
       /\ row[j] # "pending"
       /\ \A w \in Workers :
            wjob[w] = j => wpc[w] \notin {"loaded", "marked", "registered"}

(* While the server is down or recovering nobody else is at work, and the
   rows Recover has yet to handle are not in the channel. *)
BootAlone ==
  /\ phase \in {"down", "recovering"} =>
       /\ \A w \in Workers : wpc[w] = "off"
       /\ \A j \in Jobs : submit[j] \notin {"created", "full"}
       /\ \A c \in Cancellers : csaw[c] = "none"
  /\ phase = "down" => queue = <<>>
  /\ phase # "recovering" => todo = {}
  /\ \A j \in todo : ~InQueue(j) /\ submit[j] # "new"

IInv == /\ TypeInv
        /\ QueueDistinct
        /\ OneHolder
        /\ NotYetOffered
        /\ StartedOnce
        /\ AtMostOnce
        /\ BootAlone
        /\ RegistryExact

LEMMA IInvInit == Init => IInv
<1>. SUFFICES ASSUME Init PROVE IInv
  OBVIOUS
<1>1. TypeInv
  BY TypeInit
<1>2. QueueDistinct /\ \A j : ~InQueue(j)
  BY DEF Init, QueueDistinct, InQueue
<1>. QED
  BY <1>1, <1>2, NoneAssumption
  DEF Init, IInv, OneHolder, NotYetOffered, StartedOnce, AtMostOnce, BootAlone,
      RegistryExact, Executing

(* A send at the end of the channel adds the job and nothing else. *)
LEMMA SendInQueue ==
  ASSUME queue \in Seq(Jobs), QueueDistinct, NEW j \in Jobs, ~InQueue(j),
         queue' = Append(queue, j)
  PROVE  /\ QueueDistinct'
         /\ \A k : InQueue(k)' <=> InQueue(k) \/ k = j
<1>1. /\ Len(queue') = Len(queue) + 1 /\ Len(queue) \in Nat
      /\ \A i \in 1..Len(queue) : queue'[i] = queue[i]
      /\ queue'[Len(queue) + 1] = j
  OBVIOUS
<1>2. 1..Len(queue') = 1..Len(queue) \cup {Len(queue) + 1}
  BY <1>1
<1>. QED
  BY <1>1, <1>2 DEF QueueDistinct, InQueue

(* A receive from the channel removes the first job and nothing else. *)
LEMMA ReceiveInQueue ==
  ASSUME queue \in Seq(Jobs), QueueDistinct, queue # <<>>,
         queue' = Tail(queue)
  PROVE  /\ QueueDistinct'
         /\ InQueue(Head(queue))
         /\ \A k : InQueue(k)' <=> InQueue(k) /\ k # Head(queue)
<1>1. /\ Len(queue) \in Nat \ {0} /\ Len(queue') = Len(queue) - 1
      /\ \A i \in 1..Len(queue') : queue'[i] = queue[i + 1]
      /\ Head(queue) = queue[1]
  OBVIOUS
<1>2. QueueDistinct'
  BY <1>1 DEF QueueDistinct
<1>3. InQueue(Head(queue))
  BY <1>1 DEF InQueue
<1>4. ASSUME NEW k, InQueue(k)' PROVE InQueue(k) /\ k # Head(queue)
  BY <1>1, <1>4 DEF QueueDistinct, InQueue
<1>5. ASSUME NEW k, InQueue(k), k # Head(queue) PROVE InQueue(k)'
  <2>1. PICK i \in 1..Len(queue) : queue[i] = k
    BY <1>5 DEF InQueue
  <2>2. i # 1 /\ i - 1 \in 1..Len(queue') /\ queue'[i - 1] = k
    BY <1>1, <1>5, <2>1
  <2>. QED
    BY <2>2 DEF InQueue
<1>. QED
  BY <1>2, <1>3, <1>4, <1>5

LEMMA IInvNext == IInv /\ [Next]_vars => IInv'
<1>. SUFFICES ASSUME IInv, [Next]_vars PROVE IInv'
  OBVIOUS
<1>0. TypeInv' /\ TypeInv
  BY TypeNext DEF IInv
<1>. USE NoneAssumption DEF IInv, TypeInv, TypeOK, HandsTyped, OneHolder, NotYetOffered, StartedOnce,
         AtMostOnce, BootAlone, RegistryExact, Executing, Serving, storeVars,
         workerVars, handlerVars, serverVars, boundVars, historyVars
<1>q. queue' = queue => QueueDistinct' /\ \A k : InQueue(k)' <=> InQueue(k)
  BY DEF QueueDistinct, InQueue
<1>d. ASSUME NEW w \in Workers, wpc[w] \in {"fetched", "loaded"}, Abandon(w),
             UNCHANGED <<queue, row, registry, submit, csaw, cjob, phase, todo,
                         spawns>>
      PROVE  IInv'
  <2>1. /\ wpc' = [wpc EXCEPT ![w] = "idle"]
        /\ wjob' = [wjob EXCEPT ![w] = None]
    BY <1>d DEF Abandon
  <2>2. ~InQueue(None)
    BY DEF InQueue
  <2>3. OneHolder'
    BY <1>0, <1>q, <1>d, <2>1, <2>2
  <2>4. NotYetOffered' /\ StartedOnce' /\ AtMostOnce'
    BY <1>0, <1>q, <1>d, <2>1
  <2>5. BootAlone' /\ RegistryExact'
    BY <1>0, <1>q, <1>d, <2>1
  <2>. QED
    BY <1>0, <1>q, <1>d, <2>3, <2>4, <2>5
<1>1. ASSUME NEW j \in Jobs, Submission(j) \/ Exit(j) PROVE IInv'
  <2>1. CASE Create(j)
    BY <1>0, <1>q, <2>1 DEF Create
  <2>2. CASE Offer(j)
    <3>1. submit[j] = "created" /\ ~InQueue(j)
      BY <2>2 DEF Offer
    <3>2. CASE queue' = queue /\ submit' = [submit EXCEPT ![j] = "full"]
      BY <1>0, <1>q, <2>2, <3>2 DEF Offer
    <3>3. CASE /\ queue' = Append(queue, j)
               /\ submit' = [submit EXCEPT ![j] = "accepted"]
      <4>1. QueueDistinct' /\ \A k : InQueue(k)' <=> InQueue(k) \/ k = j
        BY <3>1, <3>3, SendInQueue
      <4>2. phase \notin {"down", "recovering"}
        BY <3>1
      <4>. QED
        BY <1>0, <2>2, <3>1, <3>3, <4>1, <4>2 DEF Offer
    <3>. QED
      BY <2>2, <3>2, <3>3 DEF Offer
  <2>3. CASE Withdraw(j)
    BY <1>0, <1>q, <2>3 DEF Withdraw
  <2>4. CASE Exit(j)
    BY <1>0, <1>q, <2>4 DEF Exit
  <2>. QED
    BY <1>1, <2>1, <2>2, <2>3, <2>4 DEF Submission
<1>2. ASSUME NEW c \in Cancellers, Cancellation(c) PROVE IInv'
  <2>1. CASE CancelPending(c)
    BY <1>0, <1>q, <2>1 DEF CancelPending, CancelReturns
  <2>2. CASE CancelRunning(c)
    BY <1>0, <1>q, <2>2 DEF CancelRunning, CancelReturns
  <2>. QED
    BY <1>2, <2>1, <2>2 DEF Cancellation
<1>3. ASSUME NEW c \in Cancellers, NEW j \in Jobs, CancelRead(c, j)
      PROVE  IInv'
  BY <1>0, <1>q, <1>3 DEF CancelRead
<1>4. ASSUME NEW w \in Workers, Work(w) \/ Deadline(w) PROVE IInv'
  <2>1. CASE Fetch(w)
    <3>1. /\ QueueDistinct' /\ InQueue(Head(queue))
          /\ \A k : InQueue(k)' <=> InQueue(k) /\ k # Head(queue)
      BY <2>1, ReceiveInQueue DEF Fetch
    <3>2. Head(queue) \in Jobs
      BY <2>1 DEF Fetch
    <3>3. /\ wpc' = [wpc EXCEPT ![w] = "fetched"]
          /\ wjob' = [wjob EXCEPT ![w] = Head(queue)]
          /\ wjob[w] = None /\ phase \notin {"down", "recovering"}
      BY <2>1 DEF Fetch
    <3>4. OneHolder'
      BY <1>0, <3>1, <3>2, <3>3
    <3>5. NotYetOffered' /\ StartedOnce' /\ AtMostOnce'
      BY <1>0, <2>1, <3>1, <3>2, <3>3 DEF Fetch
    <3>6. BootAlone' /\ RegistryExact'
      BY <1>0, <2>1, <3>1, <3>2, <3>3 DEF Fetch
    <3>. QED
      BY <1>0, <3>1, <3>4, <3>5, <3>6
  <2>2. CASE Stop(w)
    BY <1>0, <1>q, <2>2 DEF Stop
  <2>3. CASE Load(w)
    <3>1. wpc[w] = "fetched" /\ wjob[w] \in Jobs
      BY <2>3 DEF Load
    <3>2. CASE row[wjob[w]] = "pending"
      <4>1. wpc' = [wpc EXCEPT ![w] = "loaded"] /\ wjob' = wjob
        BY <2>3, <3>2 DEF Load
      <4>2. StartedOnce'
        BY <1>0, <2>3, <3>1, <3>2, <4>1 DEF Load
      <4>3. OneHolder' /\ NotYetOffered' /\ AtMostOnce'
        BY <1>0, <1>q, <2>3, <3>1, <4>1 DEF Load
      <4>4. BootAlone' /\ RegistryExact'
        BY <1>0, <1>q, <2>3, <3>1, <4>1 DEF Load
      <4>. QED
        BY <1>0, <1>q, <2>3, <4>2, <4>3, <4>4 DEF Load
    <3>3. CASE row[wjob[w]] # "pending"
      BY <1>0, <1>q, <1>d, <2>3, <3>1, <3>3 DEF Load
    <3>. QED
      BY <3>2, <3>3
  <2>4. CASE Mark(w)
    BY <1>0, <1>q, <2>4 DEF Mark
  <2>5. CASE Register(w)
    BY <1>0, <1>q, <2>5 DEF Register
  <2>6. CASE Spawn(w)
    <3>1. /\ wpc' = [wpc EXCEPT ![w] = "spawned"]
          /\ spawns' = [spawns EXCEPT ![wjob[w]] = @ + 1]
          /\ alive' = alive \cup {wjob[w]}
          /\ wpc[w] = "registered" /\ wjob[w] \in Jobs
      BY <2>6 DEF Spawn
    <3>2. UNCHANGED <<row, queue, wjob, registry, submit, csaw, cjob, phase,
                      todo>>
      BY <2>6 DEF Spawn
    <3>3. spawns[wjob[w]] = 0
      <4>1. ~(spawns[wjob[w]] > 0)
        BY ONLY <3>1, StartedOnce DEF StartedOnce
      <4>. QED
        BY <1>0, <3>1, <4>1
    <3>4. StartedOnce' /\ AtMostOnce'
      BY <1>0, <3>1, <3>2, <3>3
    <3>5. NotYetOffered'
      BY <1>0, <1>q, <3>1, <3>2
    <3>6. OneHolder' /\ BootAlone' /\ RegistryExact'
      BY <1>0, <1>q, <3>1, <3>2
    <3>. QED
      BY <1>0, <1>q, <3>2, <3>4, <3>5, <3>6
  <2>7. CASE SpawnFails(w)
    BY <1>0, <1>q, <2>7 DEF SpawnFails
  <2>8. CASE Resolve(w)
    BY <1>0, <1>q, <2>8 DEF Resolve
  <2>9. CASE Finish(w)
    <3>1. /\ wpc[w] = "resolved" /\ wjob[w] \in Jobs
          /\ wpc' = [wpc EXCEPT ![w] = "saved"]
          /\ row' = [row EXCEPT ![wjob[w]] = wend[w]]
          /\ wend[w] # "pending" /\ submit[wjob[w]] # "new"
      BY <2>9 DEF Finish, Terminal
    <3>2. OneHolder' /\ NotYetOffered' /\ AtMostOnce'
      BY <1>0, <1>q, <2>9, <3>1 DEF Finish
    <3>3. StartedOnce'
      BY <1>0, <1>q, <2>9, <3>1 DEF Finish
    <3>4. BootAlone' /\ RegistryExact'
      BY <1>0, <1>q, <2>9, <3>1 DEF Finish
    <3>. QED
      BY <1>0, <1>q, <2>9, <3>2, <3>3, <3>4 DEF Finish
  <2>10. CASE Release(w)
    <3>1. /\ wpc[w] = "saved" /\ wjob[w] \in Jobs
          /\ wpc' = [wpc EXCEPT ![w] = "idle"]
          /\ wjob' = [wjob EXCEPT ![w] = None]
          /\ registry' = [registry EXCEPT ![wjob[w]] = None]
      BY <2>10 DEF Release
    <3>2. ~InQueue(None)
      BY DEF InQueue
    <3>3. OneHolder'
      BY <1>0, <1>q, <2>10, <3>1, <3>2 DEF Release
    <3>4. NotYetOffered' /\ StartedOnce' /\ AtMostOnce' /\ BootAlone'
      BY <1>0, <1>q, <2>10, <3>1 DEF Release
    <3>5. RegistryExact'
      BY <1>0, <3>1
    <3>. QED
      BY <1>0, <1>q, <2>10, <3>3, <3>4, <3>5 DEF Release
  <2>11. CASE Deadline(w)
    BY <1>0, <1>q, <2>11 DEF Deadline
  <2>. QED
    BY <1>4, <2>1, <2>2, <2>3, <2>4, <2>5, <2>6, <2>7, <2>8, <2>9, <2>10, <2>11 DEF Work
<1>5. CASE Recovery
  <2>1. CASE Boot
    <3>1. \A j : ~InQueue(j)
      BY <2>1 DEF Boot, InQueue
    <3>2. BootAlone'
      BY <1>0, <1>q, <2>1, <3>1 DEF Boot
    <3>. QED
      BY <1>0, <1>q, <2>1, <3>1, <3>2 DEF Boot
  <2>2. ASSUME NEW j \in Jobs, RecoverRunning(j) PROVE IInv'
    BY <1>0, <1>q, <2>2 DEF RecoverRunning, RecoverNext
  <2>3. ASSUME NEW j \in Jobs, RecoverPending(j) PROVE IInv'
    <3>1. /\ phase = "recovering" /\ j \in todo /\ ~InQueue(j)
          /\ row[j] = "pending" /\ todo' = todo \ {j}
      BY <2>3 DEF RecoverPending, RecoverNext
    <3>2. CASE queue' = queue
      BY <1>0, <1>q, <2>3, <3>1, <3>2 DEF RecoverPending
    <3>3. CASE queue' = Append(queue, j)
      <4>1. QueueDistinct' /\ \A k : InQueue(k)' <=> InQueue(k) \/ k = j
        BY <3>1, <3>3, SendInQueue
      <4>2. OneHolder'
        BY <1>0, <2>3, <3>1, <4>1 DEF RecoverPending
      <4>3. NotYetOffered' /\ StartedOnce' /\ AtMostOnce'
        BY <1>0, <2>3, <3>1, <4>1 DEF RecoverPending
      <4>4. BootAlone' /\ RegistryExact'
        BY <1>0, <2>3, <3>1, <4>1 DEF RecoverPending
      <4>. QED
        BY <1>0, <4>1, <4>2, <4>3, <4>4
    <3>. QED
      BY <2>3, <3>2, <3>3 DEF RecoverPending
  <2>4. CASE Serve
    BY <1>0, <1>q, <2>4 DEF Serve
  <2>. QED
    BY <1>5, <2>1, <2>2, <2>3, <2>4 DEF Recovery
<1>6. CASE Signal
  BY <1>0, <1>q, <1>6 DEF Signal
<1>7. CASE Crash \/ Kill
  <2>1. Die
    BY <1>7 DEF Crash, Kill
  <2>2. QueueDistinct' /\ \A k : ~InQueue(k)'
    BY <2>1 DEF Die, QueueDistinct, InQueue
  <2>. QED
    BY <1>0, <2>1, <2>2 DEF Die
<1>8. CASE Failure
  <2>1. ASSUME NEW j \in Jobs, CreateFails(j) PROVE IInv'
    BY <1>0, <1>q, <2>1 DEF CreateFails, Fault
  <2>2. ASSUME NEW j \in Jobs, WithdrawFails(j) PROVE IInv'
    BY <1>0, <1>q, <2>2 DEF WithdrawFails, Fault
  <2>3. ASSUME NEW j \in Jobs, RecoverRunningFails(j) PROVE IInv'
    BY <1>0, <1>q, <2>3 DEF RecoverRunningFails, RecoverNext, Fault
  <2>4. ASSUME NEW c \in Cancellers, CancelPendingFails(c) PROVE IInv'
    BY <1>0, <1>q, <2>4 DEF CancelPendingFails, CancelReturns, Fault
  <2>5. ASSUME NEW w \in Workers, LoadFails(w) PROVE IInv'
    BY <1>d, <2>5 DEF LoadFails
  <2>6. ASSUME NEW w \in Workers, MarkFails(w) PROVE IInv'
    BY <1>d, <2>6 DEF MarkFails
  <2>7. ASSUME NEW w \in Workers, FinishFails(w) PROVE IInv'
    BY <1>0, <1>q, <2>7 DEF FinishFails, Fault
  <2>. QED
    BY <1>8, <2>1, <2>2, <2>3, <2>4, <2>5, <2>6, <2>7 DEF Failure
<1>9. CASE UNCHANGED vars
  BY <1>0, <1>q, <1>9 DEF vars
<1>. QED
  BY <1>1, <1>2, <1>3, <1>4, <1>5, <1>6, <1>7, <1>8, <1>9 DEF Next

THEOREM Invariance == Spec => []IInv
  BY IInvInit, IInvNext, PTL DEF Spec

(* A job is executed at most once, across crashes, recoveries, failed
   statements, cancellations and signals, for any number of jobs, workers and
   handlers, any channel capacity and any number of faults. *)
THEOREM ExecutedAtMostOnce == Spec => []AtMostOnce
<1>1. IInv => AtMostOnce
  BY DEF IInv
<1>. QED
  BY <1>1, Invariance, PTL

(* A cancel function is only ever filed under the job whose run it ends. *)
THEOREM CancelsTheRightRun == Spec => []RegistryExact
<1>1. IInv => RegistryExact
  BY DEF IInv
<1>. QED
  BY <1>1, Invariance, PTL

-----------------------------------------------------------------------------
(* Ownership of the rows that are not terminal. *)

(* What LiveRowsOwned becomes while Recover is at work. *)
RecoveredRowsOwned ==
  phase = "recovering" => \A j \in Jobs \ stranded :
    /\ row[j] = "pending" => InQueue(j) \/ j \in todo
    /\ row[j] = "running" => j \in todo

OInv == IInv /\ LiveRowsOwned /\ RecoveredRowsOwned

LEMMA OInvNext == OInv /\ [Next]_vars => LiveRowsOwned' /\ RecoveredRowsOwned'
<1>. DEFINE Goal == LiveRowsOwned /\ RecoveredRowsOwned
<1>. SUFFICES ASSUME OInv, [Next]_vars PROVE Goal'
  OBVIOUS
<1>. USE NoneAssumption DEF OInv, LiveRowsOwned, RecoveredRowsOwned
<1>i. IInv /\ IInv'
  BY IInvNext
<1>t. TypeInv /\ TypeInv'
  BY <1>i DEF IInv
<1>. USE DEF IInv, TypeInv, TypeOK, HandsTyped, OneHolder, NotYetOffered,
         BootAlone, Executing, Serving, storeVars, workerVars, handlerVars,
         serverVars, boundVars, historyVars
(* The owners LiveRowsOwned speaks of, as facts about one job. *)
<1>p. ASSUME NEW j \in Jobs \ stranded, Serving, row[j] = "pending",
             ~InQueue(j), submit[j] \notin {"created", "full"}
      PROVE  \E v \in Workers : wjob[v] = j /\ wpc[v] \in {"fetched", "loaded"}
  BY <1>p
<1>r. ASSUME NEW j \in Jobs \ stranded, Serving, row[j] = "running"
      PROVE  \E v \in Workers : wjob[v] = j /\ wpc[v] \in Executing
  BY <1>r
<1>q. queue' = queue => \A k : InQueue(k)' <=> InQueue(k)
  BY DEF InQueue
(* A step of a worker that goes on executing its job. *)
<1>e. ASSUME NEW w \in Workers, NEW pc \in Executing, wpc[w] \in Executing,
             wpc' = [wpc EXCEPT ![w] = pc],
             UNCHANGED <<queue, row, wjob, submit, phase, todo, stranded>>
      PROVE  Goal'
  <2>1. \A v \in Workers : wpc'[v] = wpc[v] \/ (v = w /\ wpc'[v] \in Executing)
    BY <1>e
  <2>2. RecoveredRowsOwned'
    BY <1>e, <1>q
  <2>3. ASSUME NEW j \in Jobs \ stranded, Serving, row[j] = "pending"
        PROVE  \/ InQueue(j)'
               \/ submit[j] \in {"created", "full"}
               \/ \E v \in Workers : wjob[v] = j /\ wpc'[v] \in {"fetched", "loaded"}
    <3>1. CASE InQueue(j) \/ submit[j] \in {"created", "full"}
      BY <1>e, <1>q, <3>1
    <3>2. CASE ~InQueue(j) /\ submit[j] \notin {"created", "full"}
      <4>1. PICK v \in Workers : wjob[v] = j /\ wpc[v] \in {"fetched", "loaded"}
        BY <1>p, <2>3, <3>2
      <4>. QED
        BY <1>e, <2>1, <4>1
    <3>. QED
      BY <3>1, <3>2
  <2>4. ASSUME NEW j \in Jobs \ stranded, Serving, row[j] = "running"
        PROVE  \E v \in Workers : wjob[v] = j /\ wpc'[v] \in Executing
    BY <1>e, <2>1, <2>4
  <2>. QED
    BY <1>e, <2>2, <2>3, <2>4
(* A step of a worker that lets go of a job that is neither pending nor, in
   its hands, running. *)
<1>l. ASSUME NEW w \in Workers, wpc[w] \in {"fetched", "saved"},
             wpc' = [wpc EXCEPT ![w] = "idle"],
             wjob' = [wjob EXCEPT ![w] = None],
             row[wjob[w]] # "pending" \/ wpc[w] = "saved",
             UNCHANGED <<queue, row, submit, phase, todo, stranded>>
      PROVE  Goal'
  <2>1. \A v \in Workers : v # w => wpc'[v] = wpc[v] /\ wjob'[v] = wjob[v]
    BY <1>l, <1>t
  <2>2. RecoveredRowsOwned'
    BY <1>l, <1>q
  <2>3. ASSUME NEW j \in Jobs \ stranded, Serving, row[j] = "pending"
        PROVE  \/ InQueue(j)'
               \/ submit[j] \in {"created", "full"}
               \/ \E v \in Workers : wjob'[v] = j /\ wpc'[v] \in {"fetched", "loaded"}
    <3>1. CASE InQueue(j) \/ submit[j] \in {"created", "full"}
      BY <1>l, <1>q, <3>1
    <3>2. CASE ~InQueue(j) /\ submit[j] \notin {"created", "full"}
      <4>1. PICK v \in Workers : wjob[v] = j /\ wpc[v] \in {"fetched", "loaded"}
        BY <1>p, <2>3, <3>2
      <4>2. v # w
        BY <1>l, <2>3, <4>1
      <4>. QED
        BY <2>1, <4>1, <4>2
    <3>. QED
      BY <3>1, <3>2
  <2>4. ASSUME NEW j \in Jobs \ stranded, Serving, row[j] = "running"
        PROVE  \E v \in Workers : wjob'[v] = j /\ wpc'[v] \in Executing
    <3>1. row[j] = "running" /\ Serving
      BY <1>l, <2>4
    <3>2. PICK v \in Workers : wjob[v] = j /\ wpc[v] \in Executing
      BY <1>r, <2>4, <3>1
    <3>3. v # w
      BY <1>l, <3>2
    <3>. QED
      BY <2>1, <3>2, <3>3
  <2>. QED
    BY <1>l, <2>2, <2>3, <2>4
<1>1. ASSUME NEW j \in Jobs, Submission(j) \/ Exit(j) PROVE Goal'
  <2>1. CASE Create(j)
    BY <1>i, <1>t, <1>q, <2>1 DEF Create
  <2>2. CASE Offer(j)
    <3>1. submit[j] = "created" /\ ~InQueue(j) /\ Serving
      BY <1>i, <1>t, <2>2 DEF Offer
    <3>2. CASE queue' = queue /\ submit' = [submit EXCEPT ![j] = "full"]
      BY <1>i, <1>t, <1>q, <2>2, <3>1, <3>2 DEF Offer
    <3>3. CASE /\ queue' = Append(queue, j)
               /\ submit' = [submit EXCEPT ![j] = "accepted"]
      <4>1. \A k : InQueue(k)' <=> InQueue(k) \/ k = j
        BY <1>i, <3>1, <3>3, SendInQueue
      <4>. QED
        BY <1>i, <1>t, <2>2, <3>1, <3>3, <4>1 DEF Offer
    <3>. QED
      BY <2>2, <3>2, <3>3 DEF Offer
  <2>3. CASE Withdraw(j)
    BY <1>i, <1>t, <1>q, <2>3 DEF Withdraw
  <2>4. CASE Exit(j)
    BY <1>i, <1>t, <1>q, <2>4 DEF Exit
  <2>. QED
    BY <1>1, <2>1, <2>2, <2>3, <2>4 DEF Submission
<1>2. ASSUME NEW c \in Cancellers, Cancellation(c) PROVE Goal'
  <2>1. CASE CancelPending(c)
    BY <1>i, <1>t, <1>q, <2>1 DEF CancelPending, CancelReturns
  <2>2. CASE CancelRunning(c)
    BY <1>i, <1>t, <1>q, <2>2 DEF CancelRunning, CancelReturns
  <2>. QED
    BY <1>2, <2>1, <2>2 DEF Cancellation
<1>3. ASSUME NEW c \in Cancellers, NEW j \in Jobs, CancelRead(c, j)
      PROVE  Goal'
  BY <1>i, <1>t, <1>q, <1>3 DEF CancelRead
<1>4. ASSUME NEW w \in Workers, Work(w) \/ Deadline(w) PROVE Goal'
  <2>1. CASE Fetch(w)
    <3>1. \A k : InQueue(k)' <=> InQueue(k) /\ k # Head(queue)
      BY <1>i, <2>1, ReceiveInQueue DEF Fetch
    <3>2. /\ wpc[w] = "idle" /\ wpc'[w] = "fetched" /\ wjob'[w] = Head(queue)
          /\ \A v \in Workers : v # w => wpc'[v] = wpc[v] /\ wjob'[v] = wjob[v]
          /\ Serving /\ Serving'
      BY <1>i, <1>t, <2>1 DEF Fetch
    <3>3. ASSUME NEW j \in Jobs \ stranded, row[j] = "pending"
          PROVE  \/ InQueue(j)'
                 \/ submit[j] \in {"created", "full"}
                 \/ \E v \in Workers : wjob'[v] = j /\ wpc'[v] \in {"fetched", "loaded"}
      <4>1. CASE InQueue(j)
        BY <3>1, <3>2, <4>1
      <4>2. CASE submit[j] \in {"created", "full"}
        BY <4>2
      <4>3. CASE ~InQueue(j) /\ submit[j] \notin {"created", "full"}
        <5>1. PICK v \in Workers : wjob[v] = j /\ wpc[v] \in {"fetched", "loaded"}
          BY <1>p, <3>2, <3>3, <4>3
        <5>. QED
          BY <3>2, <5>1
      <4>. QED
        BY <4>1, <4>2, <4>3
    <3>4. ASSUME NEW j \in Jobs \ stranded, row[j] = "running"
          PROVE  \E v \in Workers : wjob'[v] = j /\ wpc'[v] \in Executing
      <4>1. PICK v \in Workers : wjob[v] = j /\ wpc[v] \in Executing
        BY <1>r, <3>2, <3>4
      <4>. QED
        BY <3>2, <4>1
    <3>. QED
      BY <2>1, <3>2, <3>3, <3>4 DEF Fetch
  <2>2. CASE Stop(w)
    BY <1>i, <1>t, <1>q, <2>2 DEF Stop
  <2>3. CASE Load(w)
    <3>1. wpc[w] = "fetched" /\ wjob[w] \in Jobs
      BY <1>t, <2>3 DEF Load
    <3>2. CASE row[wjob[w]] # "pending"
      BY <1>l, <2>3, <3>1, <3>2 DEF Load, Abandon
    <3>3. CASE wpc' = [wpc EXCEPT ![w] = "loaded"] /\ wjob' = wjob
      <4>1. \A v \in Workers : wpc'[v] = IF v = w THEN "loaded" ELSE wpc[v]
        BY <3>3
      <4>2. ASSUME NEW j \in Jobs \ stranded, Serving, row[j] = "pending"
            PROVE  \/ InQueue(j)
                   \/ submit[j] \in {"created", "full"}
                   \/ \E v \in Workers : wjob[v] = j /\ wpc'[v] \in {"fetched", "loaded"}
        <5>1. CASE InQueue(j) \/ submit[j] \in {"created", "full"}
          BY <5>1
        <5>2. CASE ~InQueue(j) /\ submit[j] \notin {"created", "full"}
          <6>1. PICK v \in Workers : wjob[v] = j /\ wpc[v] \in {"fetched", "loaded"}
            BY <1>p, <4>2, <5>2
          <6>. QED
            BY <4>1, <6>1
        <5>. QED
          BY <5>1, <5>2
      <4>3. ASSUME NEW j \in Jobs \ stranded, Serving, row[j] = "running"
            PROVE  \E v \in Workers : wjob[v] = j /\ wpc'[v] \in Executing
        <5>1. PICK v \in Workers : wjob[v] = j /\ wpc[v] \in Executing
          BY <1>r, <4>3
        <5>. QED
          BY <3>1, <4>1, <5>1
      <4>. QED
        BY <1>q, <2>3, <3>3, <4>2, <4>3 DEF Load
    <3>. QED
      BY <2>3, <3>2, <3>3 DEF Load
  <2>4. CASE Mark(w)
    BY <1>i, <1>t, <1>q, <2>4 DEF Mark
  <2>5. CASE Register(w)
    BY <1>e, <2>5 DEF Register
  <2>6. CASE Spawn(w)
    BY <1>e, <2>6 DEF Spawn
  <2>7. CASE SpawnFails(w)
    BY <1>e, <2>7 DEF SpawnFails
  <2>8. CASE Resolve(w)
    BY <1>e, <2>8 DEF Resolve
  <2>9. CASE Finish(w)
    <3>1. /\ wpc[w] = "resolved" /\ wjob[w] \in Jobs
          /\ row'[wjob[w]] \in Terminal
          /\ \A j \in Jobs : j # wjob[w] => row'[j] = row[j]
          /\ \A v \in Workers : v # w => wpc'[v] = wpc[v]
      BY <1>t, <2>9 DEF Finish
    <3>2. row'[wjob[w]] \notin {"pending", "running"}
      BY <3>1 DEF Terminal
    <3>3. RecoveredRowsOwned'
      BY <1>q, <2>9, <3>1, <3>2 DEF Finish
    <3>4. ASSUME NEW j \in Jobs \ stranded, Serving, row'[j] = "pending"
          PROVE  \/ InQueue(j)
                 \/ submit[j] \in {"created", "full"}
                 \/ \E v \in Workers : wjob[v] = j /\ wpc'[v] \in {"fetched", "loaded"}
      <4>1. row[j] = "pending"
        BY <3>1, <3>2, <3>4
      <4>2. CASE InQueue(j) \/ submit[j] \in {"created", "full"}
        BY <4>2
      <4>3. CASE ~InQueue(j) /\ submit[j] \notin {"created", "full"}
        <5>1. PICK v \in Workers : wjob[v] = j /\ wpc[v] \in {"fetched", "loaded"}
          BY <1>p, <3>4, <4>1, <4>3
        <5>. QED
          BY <3>1, <5>1
      <4>. QED
        BY <4>2, <4>3
    <3>5. ASSUME NEW j \in Jobs \ stranded, Serving, row'[j] = "running"
          PROVE  \E v \in Workers : wjob[v] = j /\ wpc'[v] \in Executing
      <4>1. row[j] = "running" /\ j # wjob[w]
        BY <3>1, <3>2, <3>5
      <4>2. PICK v \in Workers : wjob[v] = j /\ wpc[v] \in Executing
        BY <1>r, <3>5, <4>1
      <4>. QED
        BY <3>1, <4>1, <4>2
    <3>. QED
      BY <1>q, <2>9, <3>3, <3>4, <3>5 DEF Finish
  <2>10. CASE Release(w)
    BY <1>l, <2>10 DEF Release
  <2>11. CASE Deadline(w)
    BY <1>i, <1>t, <1>q, <2>11 DEF Deadline
  <2>. QED
    BY <1>4, <2>1, <2>2, <2>3, <2>4, <2>5, <2>6, <2>7, <2>8, <2>9, <2>10, <2>11 DEF Work
<1>5. CASE Recovery
  <2>1. CASE Boot
    BY <1>i, <1>t, <1>q, <2>1 DEF Boot
  <2>2. ASSUME NEW j \in Jobs, RecoverRunning(j) PROVE Goal'
    BY <1>i, <1>t, <1>q, <2>2 DEF RecoverRunning, RecoverNext
  <2>3. ASSUME NEW j \in Jobs, RecoverPending(j) PROVE Goal'
    <3>1. /\ phase = "recovering" /\ phase' = phase /\ j \in todo /\ ~InQueue(j)
          /\ todo' = todo \ {j}
      BY <1>i, <2>3 DEF RecoverPending, RecoverNext
    <3>2. CASE queue' = queue /\ stranded' = stranded \cup {j}
      BY <1>q, <2>3, <3>1, <3>2 DEF RecoverPending
    <3>3. CASE queue' = Append(queue, j) /\ stranded' = stranded
      <4>1. \A k : InQueue(k)' <=> InQueue(k) \/ k = j
        BY <1>i, <3>1, <3>3, SendInQueue
      <4>. QED
        BY <2>3, <3>1, <3>3, <4>1 DEF RecoverPending
    <3>. QED
      BY <2>3, <3>2, <3>3 DEF RecoverPending
  <2>4. CASE Serve
    BY <1>i, <1>t, <1>q, <2>4 DEF Serve
  <2>. QED
    BY <1>5, <2>1, <2>2, <2>3, <2>4 DEF Recovery
<1>6. CASE Signal
  BY <1>i, <1>t, <1>q, <1>6 DEF Signal
<1>7. CASE Crash \/ Kill
  BY <1>i, <1>t, <1>7 DEF Crash, Kill, Die
<1>8. CASE Failure
  <2>1. ASSUME NEW j \in Jobs, CreateFails(j) PROVE Goal'
    BY <1>i, <1>t, <1>q, <2>1 DEF CreateFails, Fault
  <2>2. ASSUME NEW j \in Jobs, WithdrawFails(j) PROVE Goal'
    BY <1>i, <1>t, <1>q, <2>2 DEF WithdrawFails, Fault
  <2>3. ASSUME NEW j \in Jobs, RecoverRunningFails(j) PROVE Goal'
    BY <1>i, <1>t, <1>q, <2>3 DEF RecoverRunningFails, RecoverNext, Fault
  <2>4. ASSUME NEW c \in Cancellers, CancelPendingFails(c) PROVE Goal'
    BY <1>i, <1>t, <1>q, <2>4 DEF CancelPendingFails, CancelReturns, Fault
  <2>5. ASSUME NEW w \in Workers, LoadFails(w) PROVE Goal'
    BY <1>i, <1>t, <1>q, <2>5 DEF LoadFails, Abandon, Fault
  <2>6. ASSUME NEW w \in Workers, MarkFails(w) PROVE Goal'
    BY <1>i, <1>t, <1>q, <2>6 DEF MarkFails, Abandon, Fault
  <2>7. ASSUME NEW w \in Workers, FinishFails(w) PROVE Goal'
    BY <1>i, <1>t, <1>q, <2>7 DEF FinishFails, Fault
  <2>. QED
    BY <1>8, <2>1, <2>2, <2>3, <2>4, <2>5, <2>6, <2>7 DEF Failure
<1>9. CASE UNCHANGED vars
  BY <1>i, <1>t, <1>q, <1>9 DEF vars
<1>. QED
  BY <1>1, <1>2, <1>3, <1>4, <1>5, <1>6, <1>7, <1>8, <1>9 DEF Next

(* Every row of a serving process that is not terminal and was not dropped by
   a failed statement or an overflowing Recover is in somebody's hands. *)
THEOREM NoRowForgotten == Spec => []LiveRowsOwned
<1>1. Init => OInv
  BY IInvInit DEF Init, OInv, LiveRowsOwned, RecoveredRowsOwned, Serving
<1>2. OInv /\ [Next]_vars => OInv'
  BY IInvNext, OInvNext DEF OInv
<1>3. OInv => LiveRowsOwned
  BY DEF OInv
<1>. QED
  BY <1>1, <1>2, <1>3, PTL DEF Spec

-----------------------------------------------------------------------------
(* Finality of settled rows. *)

LEMMA SettledStep ==
  ASSUME IInv, [Next]_vars, NEW k \in Jobs, Settled(k)
  PROVE  Settled(k)' /\ row'[k] = row[k]
<1>. DEFINE Goal == Settled(k)' /\ row'[k] = row[k]
<1>t. TypeInv
  BY DEF IInv
<1>. USE NoneAssumption DEF TypeInv, TypeOK, HandsTyped, Settled, StaleWriter, Terminal,
     Executing, storeVars, workerVars, handlerVars, serverVars, boundVars,
     historyVars
<1>s. /\ row[k] \in Terminal
      /\ \A w \in Workers : wjob[w] = k => wpc[w] \notin Executing \cup {"loaded"}
      /\ \A c \in Cancellers : cjob[c] = k => csaw[c] # "pending"
      /\ submit[k] \notin {"new", "created", "full"}
  BY DEF IInv, NotYetOffered
<1>1. ASSUME NEW j \in Jobs, Submission(j) \/ Exit(j) PROVE Goal
  <2>1. CASE Create(j)
    BY <1>t, <1>s, <2>1 DEF Create
  <2>2. CASE Offer(j)
    BY <1>t, <1>s, <2>2 DEF Offer
  <2>3. CASE Withdraw(j)
    BY <1>t, <1>s, <2>3 DEF Withdraw
  <2>4. CASE Exit(j)
    BY <1>t, <1>s, <2>4 DEF Exit
  <2>. QED
    BY <1>1, <2>1, <2>2, <2>3, <2>4 DEF Submission
<1>2. ASSUME NEW c \in Cancellers, Cancellation(c) PROVE Goal
  <2>1. CASE CancelPending(c)
    BY <1>t, <1>s, <2>1 DEF CancelPending, CancelReturns
  <2>2. CASE CancelRunning(c)
    BY <1>t, <1>s, <2>2 DEF CancelRunning, CancelReturns
  <2>. QED
    BY <1>2, <2>1, <2>2 DEF Cancellation
<1>3. ASSUME NEW c \in Cancellers, NEW j \in Jobs, CancelRead(c, j)
      PROVE  Goal
  BY <1>t, <1>s, <1>3 DEF CancelRead
<1>4. ASSUME NEW w \in Workers, Work(w) \/ Deadline(w) PROVE Goal
  <2>1. CASE Fetch(w)
    BY <1>t, <1>s, <2>1 DEF Fetch
  <2>2. CASE Stop(w)
    BY <1>t, <1>s, <2>2 DEF Stop
  <2>3. CASE Load(w)
    BY <1>t, <1>s, <2>3 DEF Load, Abandon
  <2>4. CASE Mark(w)
    BY <1>t, <1>s, <2>4 DEF Mark
  <2>5. CASE Register(w)
    BY <1>t, <1>s, <2>5 DEF Register
  <2>6. CASE Spawn(w)
    BY <1>t, <1>s, <2>6 DEF Spawn
  <2>7. CASE SpawnFails(w)
    BY <1>t, <1>s, <2>7 DEF SpawnFails
  <2>8. CASE Resolve(w)
    BY <1>t, <1>s, <2>8 DEF Resolve
  <2>9. CASE Finish(w)
    BY <1>t, <1>s, <2>9 DEF Finish
  <2>10. CASE Release(w)
    BY <1>t, <1>s, <2>10 DEF Release
  <2>11. CASE Deadline(w)
    BY <1>t, <1>s, <2>11 DEF Deadline
  <2>. QED
    BY <1>4, <2>1, <2>2, <2>3, <2>4, <2>5, <2>6, <2>7, <2>8, <2>9, <2>10, <2>11 DEF Work
<1>5. CASE Recovery
  <2>1. CASE Boot
    BY <1>t, <1>s, <2>1 DEF Boot
  <2>2. ASSUME NEW j \in Jobs, RecoverRunning(j) PROVE Goal
    BY <1>t, <1>s, <2>2 DEF RecoverRunning, RecoverNext
  <2>3. ASSUME NEW j \in Jobs, RecoverPending(j) PROVE Goal
    BY <1>t, <1>s, <2>3 DEF RecoverPending, RecoverNext
  <2>4. CASE Serve
    BY <1>t, <1>s, <2>4 DEF Serve
  <2>. QED
    BY <1>5, <2>1, <2>2, <2>3, <2>4 DEF Recovery
<1>6. CASE Signal
  BY <1>t, <1>s, <1>6 DEF Signal
<1>7. CASE Crash \/ Kill
  BY <1>t, <1>s, <1>7 DEF Crash, Kill, Die
<1>8. CASE Failure
  <2>1. ASSUME NEW j \in Jobs, CreateFails(j) PROVE Goal
    BY <1>t, <1>s, <2>1 DEF CreateFails, Fault
  <2>2. ASSUME NEW j \in Jobs, WithdrawFails(j) PROVE Goal
    BY <1>t, <1>s, <2>2 DEF WithdrawFails, Fault
  <2>3. ASSUME NEW j \in Jobs, RecoverRunningFails(j) PROVE Goal
    BY <1>t, <1>s, <2>3 DEF RecoverRunningFails, RecoverNext, Fault
  <2>4. ASSUME NEW c \in Cancellers, CancelPendingFails(c) PROVE Goal
    BY <1>t, <1>s, <2>4 DEF CancelPendingFails, CancelReturns, Fault
  <2>5. ASSUME NEW w \in Workers, LoadFails(w) PROVE Goal
    BY <1>t, <1>s, <2>5 DEF LoadFails, Abandon, Fault
  <2>6. ASSUME NEW w \in Workers, MarkFails(w) PROVE Goal
    BY <1>t, <1>s, <2>6 DEF MarkFails, Abandon, Fault
  <2>7. ASSUME NEW w \in Workers, FinishFails(w) PROVE Goal
    BY <1>t, <1>s, <2>7 DEF FinishFails, Fault
  <2>. QED
    BY <1>8, <2>1, <2>2, <2>3, <2>4, <2>5, <2>6, <2>7 DEF Failure
<1>9. CASE UNCHANGED vars
  BY <1>t, <1>s, <1>9 DEF vars
<1>. QED
  BY <1>1, <1>2, <1>3, <1>4, <1>5, <1>6, <1>7, <1>8, <1>9 DEF Next

(* A terminal row nobody is under way for stays as it is, for ever. *)
THEOREM SettledForGood == Spec => SettledIsFinal
<1>1. IInv /\ [Next]_vars
        => [\A j \in Jobs : Settled(j) => Settled(j)' /\ row'[j] = row[j]]_vars
  BY SettledStep
<1>. QED
  BY <1>1, Invariance, PTL DEF Spec, SettledIsFinal

-----------------------------------------------------------------------------
(* The number of subprocesses. *)

(* Until the server is signalled or crashes, every subprocess has a worker
   that waits for it. *)
AliveAttended ==
  /\ phase = "draining" => signals > 0
  /\ crashes = 0 /\ signals = 0 =>
       \A j \in alive : \E w \in Workers : wjob[w] = j /\ wpc[w] = "spawned"

LEMMA AttendedNext ==
  IInv /\ AliveAttended /\ [Next]_vars => AliveAttended'
<1>. SUFFICES ASSUME IInv, AliveAttended, [Next]_vars PROVE AliveAttended'
  OBVIOUS
<1>t. TypeInv
  BY DEF IInv
<1>. USE NoneAssumption DEF TypeInv, TypeOK, HandsTyped, AliveAttended, Executing,
     storeVars, workerVars, handlerVars, serverVars, boundVars, historyVars
<1>1. ASSUME NEW j \in Jobs, Submission(j) \/ Exit(j) PROVE AliveAttended'
  <2>1. CASE Submission(j)
    BY <1>t, <2>1 DEF Submission, Create, Offer, Withdraw
  <2>2. CASE Exit(j)
    BY <1>t, <2>2 DEF Exit
  <2>. QED
    BY <1>1, <2>1, <2>2
<1>2. ASSUME NEW c \in Cancellers, Cancellation(c) PROVE AliveAttended'
  BY <1>t, <1>2 DEF Cancellation, CancelPending, CancelRunning, CancelReturns
<1>3. ASSUME NEW c \in Cancellers, NEW j \in Jobs, CancelRead(c, j)
      PROVE  AliveAttended'
  BY <1>t, <1>3 DEF CancelRead
<1>4. ASSUME NEW w \in Workers, Work(w) \/ Deadline(w) PROVE AliveAttended'
  <2>1. CASE Fetch(w)
    BY <1>t, <2>1 DEF Fetch
  <2>2. CASE Stop(w)
    BY <1>t, <2>2 DEF Stop
  <2>3. CASE Load(w)
    BY <1>t, <2>3 DEF Load, Abandon
  <2>4. CASE Mark(w)
    BY <1>t, <2>4 DEF Mark
  <2>5. CASE Register(w)
    BY <1>t, <2>5 DEF Register
  <2>6. CASE Spawn(w)
    BY <1>t, <2>6 DEF Spawn
  <2>7. CASE SpawnFails(w)
    BY <1>t, <2>7 DEF SpawnFails
  <2>8. CASE Resolve(w)
    BY <1>t, <2>8 DEF Resolve
  <2>9. CASE Finish(w)
    BY <1>t, <2>9 DEF Finish
  <2>10. CASE Release(w)
    BY <1>t, <2>10 DEF Release
  <2>11. CASE Deadline(w)
    BY <1>t, <2>11 DEF Deadline
  <2>. QED
    BY <1>4, <2>1, <2>2, <2>3, <2>4, <2>5, <2>6, <2>7, <2>8, <2>9, <2>10, <2>11 DEF Work
<1>5. CASE Recovery
  <2>1. CASE Boot
    BY <1>t, <2>1 DEF Boot
  <2>2. ASSUME NEW j \in Jobs, RecoverRunning(j) PROVE AliveAttended'
    BY <1>t, <2>2 DEF RecoverRunning, RecoverNext
  <2>3. ASSUME NEW j \in Jobs, RecoverPending(j) PROVE AliveAttended'
    BY <1>t, <2>3 DEF RecoverPending, RecoverNext
  <2>4. CASE Serve
    BY <1>t, <2>4 DEF Serve, IInv, BootAlone
  <2>. QED
    BY <1>5, <2>1, <2>2, <2>3, <2>4 DEF Recovery
<1>6. CASE Signal
  BY <1>t, <1>6 DEF Signal
<1>7. CASE Crash \/ Kill
  BY <1>t, <1>7 DEF Crash, Kill, Die
<1>8. CASE Failure
  <2>1. ASSUME NEW j \in Jobs, CreateFails(j) PROVE AliveAttended'
    BY <1>t, <2>1 DEF CreateFails, Fault
  <2>2. ASSUME NEW j \in Jobs, WithdrawFails(j) PROVE AliveAttended'
    BY <1>t, <2>2 DEF WithdrawFails, Fault
  <2>3. ASSUME NEW j \in Jobs, RecoverRunningFails(j) PROVE AliveAttended'
    BY <1>t, <2>3 DEF RecoverRunningFails, RecoverNext, Fault
  <2>4. ASSUME NEW c \in Cancellers, CancelPendingFails(c) PROVE AliveAttended'
    BY <1>t, <2>4 DEF CancelPendingFails, CancelReturns, Fault
  <2>5. ASSUME NEW w \in Workers, LoadFails(w) PROVE AliveAttended'
    BY <1>t, <2>5 DEF LoadFails, Abandon, Fault
  <2>6. ASSUME NEW w \in Workers, MarkFails(w) PROVE AliveAttended'
    BY <1>t, <2>6 DEF MarkFails, Abandon, Fault
  <2>7. ASSUME NEW w \in Workers, FinishFails(w) PROVE AliveAttended'
    BY <1>t, <2>7 DEF FinishFails, Fault
  <2>. QED
    BY <1>8, <2>1, <2>2, <2>3, <2>4, <2>5, <2>6, <2>7 DEF Failure
<1>9. CASE UNCHANGED vars
  BY <1>t, <1>9 DEF vars
<1>. QED
  BY <1>1, <1>2, <1>3, <1>4, <1>5, <1>6, <1>7, <1>8, <1>9 DEF Next

LEMMA AttendedBounded ==
  ASSUME IInv, AliveAttended
  PROVE  ConcurrentJobsBounded
<1>. SUFFICES ASSUME crashes = 0, signals = 0
              PROVE  Cardinality(alive) <= Cardinality(Workers)
  BY DEF ConcurrentJobsBounded
<1>. DEFINE Held == {wjob[w] : w \in Workers}
<1>1. wjob \in Surjection(Workers, Held)
  BY DEF IInv, TypeInv, TypeOK, Surjection
<1>2. IsFiniteSet(Held) /\ Cardinality(Held) <= Cardinality(Workers)
  BY <1>1, FiniteAssumption, FS_Surjection
<1>3. alive \subseteq Held
  BY DEF AliveAttended
<1>4. IsFiniteSet(alive) /\ Cardinality(alive) <= Cardinality(Held)
  BY <1>2, <1>3, FS_Subset
<1>5. /\ Cardinality(alive) \in Nat /\ Cardinality(Held) \in Nat
      /\ Cardinality(Workers) \in Nat
  BY <1>2, <1>4, FiniteAssumption, FS_CardinalityType
<1>. QED
  BY <1>2, <1>4, <1>5

(* As long as the server has neither crashed nor been signalled, there are at
   most as many subprocesses as workers. *)
THEOREM ConcurrencyLimited ==
  Spec => []ConcurrentJobsBounded
<1>1. Init => AliveAttended
  BY DEF Init, AliveAttended
<1>2. Spec => []AliveAttended
  BY <1>1, AttendedNext, Invariance, PTL DEF Spec
<1>3. IInv /\ AliveAttended => ConcurrentJobsBounded
  BY AttendedBounded
<1>. QED
  BY <1>2, <1>3, Invariance, PTL
-----------------------------------------------------------------------------
(* Jobs that were refused, and rows that say "cancelled". *)

(* A job answered with 503 is in nobody's hands for good: its row is gone, or
   a cancel handler that had read it has written it again as cancelled. *)
RefusedNowhere ==
  faults = 0 => \A j \in Jobs : submit[j] = "rejected" =>
    /\ row[j] \in {"absent", "cancelled"}
    /\ spawns[j] = 0
    /\ ~InQueue(j)
    /\ \A w \in Workers : wjob[w] # j

LEMMA RefusedNext == IInv /\ RefusedNowhere /\ [Next]_vars => RefusedNowhere'
<1>. DEFINE Goal == RefusedNowhere'
<1>. SUFFICES ASSUME IInv, RefusedNowhere, [Next]_vars PROVE Goal
  OBVIOUS
<1>t. TypeInv
  BY DEF IInv
<1>o. /\ NotYetOffered /\ BootAlone /\ OneHolder
      /\ \A w \in Workers : wpc[w] \notin {"off", "idle"} => wjob[w] \in Jobs
  BY DEF IInv, TypeInv, HandsTyped
<1>q. queue' = queue => \A k : InQueue(k)' <=> InQueue(k)
  BY DEF InQueue
<1>. USE NoneAssumption DEF TypeInv, TypeOK, RefusedNowhere, Executing,
     storeVars, workerVars, handlerVars, serverVars, boundVars, historyVars
<1>1. ASSUME NEW j \in Jobs, Submission(j) \/ Exit(j) PROVE Goal
  <2>1. CASE Create(j)
    BY <1>t, <1>q, <2>1 DEF Create
  <2>2. CASE Offer(j)
    <3>1. submit[j] = "created" /\ ~InQueue(j)
      BY <1>o, <2>2 DEF Offer, NotYetOffered
    <3>2. CASE queue' = queue /\ submit' = [submit EXCEPT ![j] = "full"]
      BY <1>t, <1>q, <2>2, <3>2 DEF Offer
    <3>3. CASE /\ queue' = Append(queue, j)
               /\ submit' = [submit EXCEPT ![j] = "accepted"]
      <4>1. \A k : InQueue(k)' <=> InQueue(k) \/ k = j
        BY <1>t, <3>1, <3>3, SendInQueue DEF IInv
      <4>. QED
        BY <1>t, <2>2, <3>3, <4>1 DEF Offer
    <3>. QED
      BY <2>2, <3>2, <3>3 DEF Offer
  <2>3. CASE Withdraw(j)
    BY <1>t, <1>o, <1>q, <2>3 DEF Withdraw, NotYetOffered
  <2>4. CASE Exit(j)
    BY <1>t, <1>q, <2>4 DEF Exit
  <2>. QED
    BY <1>1, <2>1, <2>2, <2>3, <2>4 DEF Submission
<1>2. ASSUME NEW c \in Cancellers, Cancellation(c) PROVE Goal
  <2>1. CASE CancelPending(c)
    <3>1. /\ row' = [row EXCEPT ![cjob[c]] = "cancelled"]
          /\ UNCHANGED <<queue, wjob, submit, spawns, faults>>
      BY <2>1 DEF CancelPending
    <3>. QED
      BY <1>t, <1>q, <3>1
  <2>2. CASE CancelRunning(c)
    <3>1. UNCHANGED <<row, queue, wjob, submit, spawns, faults>>
      BY <2>2 DEF CancelRunning
    <3>. QED
      BY <1>t, <1>q, <3>1
  <2>. QED
    BY <1>2, <2>1, <2>2 DEF Cancellation
<1>3. ASSUME NEW c \in Cancellers, NEW j \in Jobs, CancelRead(c, j)
      PROVE  Goal
  BY <1>t, <1>q, <1>3 DEF CancelRead
<1>4. ASSUME NEW w \in Workers, Work(w) \/ Deadline(w) PROVE Goal
  <2>1. CASE Fetch(w)
    <3>1. /\ InQueue(Head(queue))
          /\ \A k : InQueue(k)' => InQueue(k)
      BY <1>t, <2>1, ReceiveInQueue DEF Fetch, IInv
    <3>. QED
      BY <1>t, <2>1, <3>1 DEF Fetch
  <2>2. CASE Stop(w)
    BY <1>t, <1>q, <2>2 DEF Stop
  <2>3. CASE Load(w)
    BY <1>t, <1>q, <2>3 DEF Load, Abandon
  <2>4. CASE Mark(w)
    BY <1>t, <1>o, <1>q, <2>4 DEF Mark
  <2>5. CASE Register(w)
    BY <1>t, <1>q, <2>5 DEF Register
  <2>6. CASE Spawn(w)
    BY <1>t, <1>o, <1>q, <2>6 DEF Spawn
  <2>7. CASE SpawnFails(w)
    BY <1>t, <1>q, <2>7 DEF SpawnFails
  <2>8. CASE Resolve(w)
    BY <1>t, <1>q, <2>8 DEF Resolve
  <2>9. CASE Finish(w)
    BY <1>t, <1>o, <1>q, <2>9 DEF Finish
  <2>10. CASE Release(w)
    BY <1>t, <1>q, <2>10 DEF Release
  <2>11. CASE Deadline(w)
    BY <1>t, <1>q, <2>11 DEF Deadline
  <2>. QED
    BY <1>4, <2>1, <2>2, <2>3, <2>4, <2>5, <2>6, <2>7, <2>8, <2>9, <2>10, <2>11 DEF Work
<1>5. CASE Recovery
  <2>1. CASE Boot \/ Serve
    BY <1>t, <1>q, <2>1 DEF Boot, Serve
  <2>2. ASSUME NEW j \in Jobs, RecoverRunning(j) PROVE Goal
    BY <1>t, <1>q, <2>2 DEF RecoverRunning, RecoverNext
  <2>3. ASSUME NEW j \in Jobs, RecoverPending(j) PROVE Goal
    <3>1. row[j] = "pending" /\ ~InQueue(j)
      BY <1>o, <2>3 DEF RecoverPending, RecoverNext, BootAlone
    <3>2. CASE queue' = queue
      BY <1>t, <1>q, <2>3, <3>2 DEF RecoverPending
    <3>3. CASE queue' = Append(queue, j)
      <4>1. \A k : InQueue(k)' <=> InQueue(k) \/ k = j
        BY <1>t, <3>1, <3>3, SendInQueue DEF IInv
      <4>. QED
        BY <1>t, <2>3, <3>1, <4>1 DEF RecoverPending
    <3>. QED
      BY <2>3, <3>2, <3>3 DEF RecoverPending
  <2>. QED
    BY <1>5, <2>1, <2>2, <2>3 DEF Recovery
<1>6. CASE Signal
  BY <1>t, <1>q, <1>6 DEF Signal
<1>7. CASE Crash \/ Kill
  <2>1. \A k : ~InQueue(k)'
    BY <1>7 DEF Crash, Kill, Die, InQueue
  <2>. QED
    BY <1>t, <1>7, <2>1 DEF Crash, Kill, Die
<1>8. CASE Failure
  <2>1. faults \in Nat /\ faults' = faults + 1
    BY <1>t, <1>8
       DEF Failure, CreateFails, WithdrawFails, RecoverRunningFails,
           CancelPendingFails, LoadFails, MarkFails, FinishFails, Fault
  <2>. QED
    BY <2>1
<1>9. CASE UNCHANGED vars
  BY <1>t, <1>q, <1>9 DEF vars
<1>. QED
  BY <1>1, <1>2, <1>3, <1>4, <1>5, <1>6, <1>7, <1>8, <1>9 DEF Next

(* A job whose submission was answered with 503 is never executed, through any
   mixture of cancellations, crashes and boots, as long as no statement fails
   (the deletion of its row, whose error the code discards, among them). *)
THEOREM RefusedJobsNeverRun == Spec => []RejectedNeverRuns
<1>1. Init => RefusedNowhere
  BY DEF Init, RefusedNowhere
<1>2. Spec => []RefusedNowhere
  BY <1>1, RefusedNext, Invariance, PTL DEF Spec
<1>3. RefusedNowhere => RejectedNeverRuns
  BY DEF RefusedNowhere, RejectedNeverRuns
<1>. QED
  BY <1>2, <1>3, PTL

(* Until a signal, every cancelled context, and every outcome that was derived
   from one, goes back to a cancel request that was answered with success. *)
AskedFor ==
  signals = 0 =>
    /\ phase # "draining"
    /\ \A j \in Jobs : row[j] = "cancelled" => j \in acked
    /\ \A w \in Workers :
         /\ wpc[w] \in {"registered", "spawned"} /\ wctx[w] = "cancelled"
              => wjob[w] \in acked
         /\ wpc[w] = "resolved" /\ wend[w] = "cancelled" => wjob[w] \in acked

LEMMA AskedNext == IInv /\ AskedFor /\ [Next]_vars => AskedFor'
<1>. DEFINE Goal == AskedFor'
<1>. SUFFICES ASSUME IInv, AskedFor, [Next]_vars PROVE Goal
  OBVIOUS
<1>t. TypeInv
  BY DEF IInv
<1>. USE NoneAssumption DEF TypeInv, TypeOK, HandsTyped, AskedFor, Executing,
     storeVars, workerVars, handlerVars, serverVars, boundVars, historyVars
<1>1. ASSUME NEW j \in Jobs, Submission(j) \/ Exit(j) PROVE Goal
  BY <1>t, <1>1 DEF Submission, Create, Offer, Withdraw, Exit
<1>2. ASSUME NEW c \in Cancellers, Cancellation(c) PROVE Goal
  <2>1. CASE CancelPending(c)
    BY <1>t, <2>1 DEF CancelPending, CancelReturns
  <2>2. CASE CancelRunning(c)
    <3>1. cjob[c] \in Jobs /\ acked' = acked \cup {cjob[c]}
      BY <1>t, <2>2 DEF CancelRunning
    <3>2. ASSUME NEW w \in Workers, wctx'[w] = "cancelled"
          PROVE  wctx[w] = "cancelled" \/ wjob[w] \in acked'
      <4>1. CASE w = registry[cjob[c]]
        BY <3>1, <4>1 DEF IInv, RegistryExact
      <4>2. CASE w # registry[cjob[c]]
        BY <1>t, <2>2, <3>2, <4>2 DEF CancelRunning
      <4>. QED
        BY <4>1, <4>2
    <3>. QED
      BY <1>t, <2>2, <3>1, <3>2 DEF CancelRunning
  <2>. QED
    BY <1>2, <2>1, <2>2 DEF Cancellation
<1>3. ASSUME NEW c \in Cancellers, NEW j \in Jobs, CancelRead(c, j)
      PROVE  Goal
  BY <1>t, <1>3 DEF CancelRead
<1>4. ASSUME NEW w \in Workers, Work(w) \/ Deadline(w) PROVE Goal
  <2>1. CASE Fetch(w) \/ Stop(w)
    BY <1>t, <2>1 DEF Fetch, Stop
  <2>2. CASE Load(w)
    BY <1>t, <2>2 DEF Load, Abandon
  <2>3. CASE Mark(w)
    BY <1>t, <2>3 DEF Mark
  <2>4. CASE Register(w)
    BY <1>t, <2>4 DEF Register
  <2>5. CASE Spawn(w)
    BY <1>t, <2>5 DEF Spawn
  <2>6. CASE SpawnFails(w)
    BY <1>t, <2>6 DEF SpawnFails
  <2>7. CASE Resolve(w)
    BY <1>t, <2>7 DEF Resolve, Outcomes
  <2>8. CASE Finish(w)
    BY <1>t, <2>8 DEF Finish
  <2>9. CASE Release(w)
    BY <1>t, <2>9 DEF Release
  <2>10. CASE Deadline(w)
    BY <1>t, <2>10 DEF Deadline
  <2>. QED
    BY <1>4, <2>1, <2>2, <2>3, <2>4, <2>5, <2>6, <2>7, <2>8, <2>9, <2>10 DEF Work
<1>5. CASE Recovery
  <2>1. CASE Boot \/ Serve
    BY <1>t, <2>1 DEF Boot, Serve
  <2>2. ASSUME NEW j \in Jobs, RecoverRunning(j) \/ RecoverPending(j) PROVE Goal
    BY <1>t, <2>2 DEF RecoverRunning, RecoverPending, RecoverNext
  <2>. QED
    BY <1>5, <2>1, <2>2 DEF Recovery
<1>6. CASE Signal
  BY <1>t, <1>6 DEF Signal
<1>7. CASE Crash \/ Kill
  BY <1>t, <1>7 DEF Crash, Kill, Die
<1>8. CASE Failure
  <2>1. ASSUME NEW j \in Jobs, \/ CreateFails(j) \/ WithdrawFails(j)
                              \/ RecoverRunningFails(j)
        PROVE  Goal
    BY <1>t, <2>1 DEF CreateFails, WithdrawFails, RecoverRunningFails,
                      RecoverNext, Fault
  <2>2. ASSUME NEW c \in Cancellers, CancelPendingFails(c) PROVE Goal
    BY <1>t, <2>2 DEF CancelPendingFails, CancelReturns, Fault
  <2>3. ASSUME NEW w \in Workers, LoadFails(w) \/ MarkFails(w) PROVE Goal
    BY <1>t, <2>3 DEF LoadFails, MarkFails, Abandon, Fault
  <2>4. ASSUME NEW w \in Workers, FinishFails(w) PROVE Goal
    BY <1>t, <2>4 DEF FinishFails, Fault
  <2>. QED
    BY <1>8, <2>1, <2>2, <2>3, <2>4 DEF Failure
<1>9. CASE UNCHANGED vars
  BY <1>t, <1>9 DEF vars
<1>. QED
  BY <1>1, <1>2, <1>3, <1>4, <1>5, <1>6, <1>7, <1>8, <1>9 DEF Next

(* A row says "cancelled" only if a cancel request for that job was answered
   with success, as long as the server receives no signal: a deadline, a
   failure and the cancellation of another job never end a job so. *)
THEOREM CancelledOnlyIfAsked == Spec => []CancelledWasAsked
<1>1. Init => AskedFor
  BY DEF Init, AskedFor
<1>2. Spec => []AskedFor
  BY <1>1, AskedNext, Invariance, PTL DEF Spec
<1>3. AskedFor => CancelledWasAsked
  BY DEF AskedFor, CancelledWasAsked
<1>. QED
  BY <1>2, <1>3, PTL

-----------------------------------------------------------------------------
(* JobEngine implements JobLifecycle. *)

(* What the row of a job can be while a worker or a submit handler holds it,
   although cancel handlers write over it at any time; and a worker that is
   about to write "done" has executed its job. *)
RowsHeld ==
  /\ \A w \in Workers :
       /\ wpc[w] = "loaded" =>
            row[wjob[w]] \in {"pending", "cancelled"} /\ spawns[wjob[w]] = 0
       /\ wpc[w] \in Executing => row[wjob[w]] \in {"running", "cancelled"}
       /\ wpc[w] \in {"marked", "registered"} => spawns[wjob[w]] = 0
       /\ wpc[w] = "spawned" => spawns[wjob[w]] = 1
       /\ wpc[w] = "resolved" /\ wend[w] = "done" => spawns[wjob[w]] = 1
  /\ \A j \in Jobs :
       submit[j] \in {"created", "full"} => row[j] \in {"pending", "cancelled"}

RInv == IInv /\ RowsHeld

LEMMA RowsHeldInit == Init => RowsHeld
  BY DEF Init, RowsHeld, Executing

LEMMA RowsHeldNext == RInv /\ [Next]_vars => RowsHeld'
<1>. DEFINE Goal == RowsHeld'
<1>. SUFFICES ASSUME RInv, [Next]_vars PROVE Goal
  OBVIOUS
<1>i. IInv /\ IInv' /\ RowsHeld
  BY IInvNext DEF RInv
<1>. USE NoneAssumption DEF IInv, TypeInv, TypeOK, HandsTyped, OneHolder,
         NotYetOffered, StartedOnce, BootAlone, Executing, Terminal, storeVars,
         workerVars, handlerVars, serverVars, boundVars, historyVars
<1>. USE DEF RowsHeld
<1>1. ASSUME NEW j \in Jobs, Submission(j) \/ Exit(j) PROVE Goal
  <2>1. CASE Create(j)
    BY <1>i, <2>1 DEF Create
  <2>2. CASE Offer(j)
    BY <1>i, <2>2 DEF Offer
  <2>3. CASE Withdraw(j)
    BY <1>i, <2>3 DEF Withdraw
  <2>4. CASE Exit(j)
    BY <1>i, <2>4 DEF Exit
  <2>. QED
    BY <1>1, <2>1, <2>2, <2>3, <2>4 DEF Submission
<1>2. ASSUME NEW c \in Cancellers, Cancellation(c) PROVE Goal
  <2>1. CASE CancelPending(c)
    BY <1>i, <2>1 DEF CancelPending, CancelReturns
  <2>2. CASE CancelRunning(c)
    BY <1>i, <2>2 DEF CancelRunning, CancelReturns
  <2>. QED
    BY <1>2, <2>1, <2>2 DEF Cancellation
<1>3. ASSUME NEW c \in Cancellers, NEW j \in Jobs, CancelRead(c, j)
      PROVE  Goal
  BY <1>i, <1>3 DEF CancelRead
<1>4. ASSUME NEW w \in Workers, Work(w) \/ Deadline(w) PROVE Goal
  <2>1. CASE Fetch(w)
    BY <1>i, <2>1 DEF Fetch
  <2>2. CASE Stop(w)
    BY <1>i, <2>2 DEF Stop
  <2>3. CASE Load(w)
    BY <1>i, <2>3 DEF Load, Abandon
  <2>4. CASE Mark(w)
    BY <1>i, <2>4 DEF Mark
  <2>5. CASE Register(w)
    BY <1>i, <2>5 DEF Register
  <2>6. CASE Spawn(w)
    BY <1>i, <2>6 DEF Spawn
  <2>7. CASE SpawnFails(w)
    BY <1>i, <2>7 DEF SpawnFails
  <2>8. CASE Resolve(w)
    BY <1>i, <2>8 DEF Resolve
  <2>9. CASE Finish(w)
    BY <1>i, <2>9 DEF Finish
  <2>10. CASE Release(w)
    BY <1>i, <2>10 DEF Release
  <2>11. CASE Deadline(w)
    BY <1>i, <2>11 DEF Deadline
  <2>. QED
    BY <1>4, <2>1, <2>2, <2>3, <2>4, <2>5, <2>6, <2>7, <2>8, <2>9, <2>10, <2>11 DEF Work
<1>5. CASE Recovery
  <2>1. CASE Boot
    BY <1>i, <2>1 DEF Boot
  <2>2. ASSUME NEW j \in Jobs, RecoverRunning(j) PROVE Goal
    BY <1>i, <2>2 DEF RecoverRunning, RecoverNext
  <2>3. ASSUME NEW j \in Jobs, RecoverPending(j) PROVE Goal
    BY <1>i, <2>3 DEF RecoverPending, RecoverNext
  <2>4. CASE Serve
    BY <1>i, <2>4 DEF Serve
  <2>. QED
    BY <1>5, <2>1, <2>2, <2>3, <2>4 DEF Recovery
<1>6. CASE Signal
  BY <1>i, <1>6 DEF Signal
<1>7. CASE Crash \/ Kill
  BY <1>i, <1>7 DEF Crash, Kill, Die
<1>8. CASE Failure
  <2>1. ASSUME NEW j \in Jobs, CreateFails(j) PROVE Goal
    BY <1>i, <2>1 DEF CreateFails, Fault
  <2>2. ASSUME NEW j \in Jobs, WithdrawFails(j) PROVE Goal
    BY <1>i, <2>2 DEF WithdrawFails, Fault
  <2>3. ASSUME NEW j \in Jobs, RecoverRunningFails(j) PROVE Goal
    BY <1>i, <2>3 DEF RecoverRunningFails, RecoverNext, Fault
  <2>4. ASSUME NEW c \in Cancellers, CancelPendingFails(c) PROVE Goal
    BY <1>i, <2>4 DEF CancelPendingFails, CancelReturns, Fault
  <2>5. ASSUME NEW w \in Workers, LoadFails(w) PROVE Goal
    BY <1>i, <2>5 DEF LoadFails, Abandon, Fault
  <2>6. ASSUME NEW w \in Workers, MarkFails(w) PROVE Goal
    BY <1>i, <2>6 DEF MarkFails, Abandon, Fault
  <2>7. ASSUME NEW w \in Workers, FinishFails(w) PROVE Goal
    BY <1>i, <2>7 DEF FinishFails, Fault
  <2>. QED
    BY <1>8, <2>1, <2>2, <2>3, <2>4, <2>5, <2>6, <2>7 DEF Failure
<1>9. CASE UNCHANGED vars
  BY <1>i, <1>9 DEF vars
<1>. QED
  BY <1>1, <1>2, <1>3, <1>4, <1>5, <1>6, <1>7, <1>8, <1>9 DEF Next

LEMMA LifecycleInit == Init => Lifecycle!Init
  BY DEF Init, Lifecycle!Init

(* Every step of the engine is a step of the lifecycle or changes neither a
   row nor the number of executions. *)
LEMMA LifecycleStep == RInv /\ [Next]_vars => [Lifecycle!Next]_<<row, spawns>>
<1>. DEFINE Goal == [Lifecycle!Next]_<<row, spawns>>
<1>. SUFFICES ASSUME RInv, [Next]_vars PROVE Goal
  OBVIOUS
<1>i. IInv /\ RowsHeld
  BY DEF RInv
<1>. USE NoneAssumption DEF IInv, TypeInv, TypeOK, HandsTyped, OneHolder,
         NotYetOffered, StartedOnce, BootAlone, Executing, Terminal, storeVars,
         workerVars, handlerVars, serverVars, boundVars, historyVars
<1>. USE DEF RowsHeld, Lifecycle!Next, Lifecycle!Submit, Lifecycle!Refuse,
         Lifecycle!Cancel, Lifecycle!Begin, Lifecycle!Execute, Lifecycle!End,
         Lifecycle!Becomes
<1>1. ASSUME NEW j \in Jobs, Submission(j) \/ Exit(j) PROVE Goal
  <2>1. CASE Create(j)
    BY <1>i, <2>1 DEF Create
  <2>2. CASE Offer(j)
    BY <1>i, <2>2 DEF Offer
  <2>3. CASE Withdraw(j)
    BY <1>i, <2>3 DEF Withdraw
  <2>4. CASE Exit(j)
    BY <1>i, <2>4 DEF Exit
  <2>. QED
    BY <1>1, <2>1, <2>2, <2>3, <2>4 DEF Submission
<1>2. ASSUME NEW c \in Cancellers, Cancellation(c) PROVE Goal
  <2>1. CASE CancelPending(c)
    BY <1>i, <2>1 DEF CancelPending, CancelReturns
  <2>2. CASE CancelRunning(c)
    BY <1>i, <2>2 DEF CancelRunning, CancelReturns
  <2>. QED
    BY <1>2, <2>1, <2>2 DEF Cancellation
<1>3. ASSUME NEW c \in Cancellers, NEW j \in Jobs, CancelRead(c, j)
      PROVE  Goal
  BY <1>i, <1>3 DEF CancelRead
<1>4. ASSUME NEW w \in Workers, Work(w) \/ Deadline(w) PROVE Goal
  <2>1. CASE Fetch(w)
    BY <1>i, <2>1 DEF Fetch
  <2>2. CASE Stop(w)
    BY <1>i, <2>2 DEF Stop
  <2>3. CASE Load(w)
    BY <1>i, <2>3 DEF Load, Abandon
  <2>4. CASE Mark(w)
    BY <1>i, <2>4 DEF Mark
  <2>5. CASE Register(w)
    BY <1>i, <2>5 DEF Register
  <2>6. CASE Spawn(w)
    <3>1. wjob[w] \in Jobs /\ spawns[wjob[w]] = 0
      BY <1>i, <2>6 DEF Spawn
    <3>2. spawns' = [spawns EXCEPT ![wjob[w]] = 1] /\ UNCHANGED row
      BY <1>i, <2>6, <3>1 DEF Spawn
    <3>3. row[wjob[w]] \in {"running", "cancelled"}
      BY <1>i, <2>6 DEF Spawn
    <3>. QED
      BY <3>1, <3>2, <3>3
  <2>7. CASE SpawnFails(w)
    BY <1>i, <2>7 DEF SpawnFails
  <2>8. CASE Resolve(w)
    BY <1>i, <2>8 DEF Resolve
  <2>9. CASE Finish(w)
    <3>1. wjob[w] \in Jobs /\ row[wjob[w]] \in {"running", "cancelled"}
      BY <1>i, <2>9 DEF Finish
    <3>2. wend[w] \in Terminal /\ (wend[w] = "done" => spawns[wjob[w]] = 1)
      BY <1>i, <2>9 DEF Finish
    <3>3. row' = [row EXCEPT ![wjob[w]] = wend[w]] /\ UNCHANGED spawns
      BY <2>9 DEF Finish
    <3>. QED
      BY <3>1, <3>2, <3>3
  <2>10. CASE Release(w)
    BY <1>i, <2>10 DEF Release
  <2>11. CASE Deadline(w)
    BY <1>i, <2>11 DEF Deadline
  <2>. QED
    BY <1>4, <2>1, <2>2, <2>3, <2>4, <2>5, <2>6, <2>7, <2>8, <2>9, <2>10, <2>11 DEF Work
<1>5. CASE Recovery
  <2>1. CASE Boot
    BY <1>i, <2>1 DEF Boot
  <2>2. ASSUME NEW j \in Jobs, RecoverRunning(j) PROVE Goal
    BY <1>i, <2>2 DEF RecoverRunning, RecoverNext
  <2>3. ASSUME NEW j \in Jobs, RecoverPending(j) PROVE Goal
    BY <1>i, <2>3 DEF RecoverPending, RecoverNext
  <2>4. CASE Serve
    BY <1>i, <2>4 DEF Serve
  <2>. QED
    BY <1>5, <2>1, <2>2, <2>3, <2>4 DEF Recovery
<1>6. CASE Signal
  BY <1>i, <1>6 DEF Signal
<1>7. CASE Crash \/ Kill
  BY <1>i, <1>7 DEF Crash, Kill, Die
<1>8. CASE Failure
  <2>1. ASSUME NEW j \in Jobs, CreateFails(j) PROVE Goal
    BY <1>i, <2>1 DEF CreateFails, Fault
  <2>2. ASSUME NEW j \in Jobs, WithdrawFails(j) PROVE Goal
    BY <1>i, <2>2 DEF WithdrawFails, Fault
  <2>3. ASSUME NEW j \in Jobs, RecoverRunningFails(j) PROVE Goal
    BY <1>i, <2>3 DEF RecoverRunningFails, RecoverNext, Fault
  <2>4. ASSUME NEW c \in Cancellers, CancelPendingFails(c) PROVE Goal
    BY <1>i, <2>4 DEF CancelPendingFails, CancelReturns, Fault
  <2>5. ASSUME NEW w \in Workers, LoadFails(w) PROVE Goal
    BY <1>i, <2>5 DEF LoadFails, Abandon, Fault
  <2>6. ASSUME NEW w \in Workers, MarkFails(w) PROVE Goal
    BY <1>i, <2>6 DEF MarkFails, Abandon, Fault
  <2>7. ASSUME NEW w \in Workers, FinishFails(w) PROVE Goal
    BY <1>i, <2>7 DEF FinishFails, Fault
  <2>. QED
    BY <1>8, <2>1, <2>2, <2>3, <2>4, <2>5, <2>6, <2>7 DEF Failure
<1>9. CASE UNCHANGED vars
  BY <1>i, <1>9 DEF vars
<1>. QED
  BY <1>1, <1>2, <1>3, <1>4, <1>5, <1>6, <1>7, <1>8, <1>9 DEF Next

(* The engine implements the lifecycle. *)
THEOREM ImplementsLifecycle == Spec => LifecycleKept
<1>1. RInv /\ [Next]_vars => RInv'
  BY IInvNext, RowsHeldNext DEF RInv
<1>2. Init => RInv
  BY IInvInit, RowsHeldInit DEF RInv
<1>. QED
  BY <1>1, <1>2, LifecycleInit, LifecycleStep, PTL
     DEF Spec, LifecycleKept, Lifecycle!Spec, Lifecycle!vars
=============================================================================
