------------------------------ MODULE JobPages ------------------------------
(***************************************************************************)
(* The job pages in one browser tab: list, new job and job detail, over    *)
(* the React Query cache they share.  The rows on the server change by the *)
(* steps of JobLifecycle, which JobEngine implements.  Of the library only *)
(* what the pages rely on is modelled: one fetch at a time per key, its    *)
(* retries, stale and invalidated entries, the interval.  The tab is in    *)
(* the foreground.                                                         *)
(***************************************************************************)
EXTENDS Naturals

CONSTANTS
  Jobs,       \* the jobs that may be submitted, one per click on "Run job"
  None,
  Retries,    \* attempts after a failed one, 3
  MaxWrites,  \* bound: changes of a row
  MaxFaults   \* bound: requests that fail or whose answer is lost

ASSUME BoundsAssumption == {Retries, MaxWrites, MaxFaults} \subseteq Nat

VARIABLES
  row, spawns,  \* the backend's jobs, see JobLifecycle
  writes,       \* how often a row has changed, its version
  session,      \* whether useSession has the token yet
  page,         \* "list", "new" or the job whose page is open
  cache,        \* the query cache, an entry per key
  post,         \* the POST of each job and what became of it
  form,         \* the job the form on the page submitted last
  push,         \* the job router.push is on its way to
  cancel,       \* the POST that cancels a job
  mark,         \* history: the version of the row when the open job's page
                \* last learnt that its cancel was accepted
  faults

server  == <<row, spawns, writes>>
vars    == <<row, spawns, writes, session, page, cache, post, form, push,
             cancel, mark, faults>>

Backend == INSTANCE JobLifecycle WITH Jobs <- Jobs, row <- row, spawns <- spawns

-----------------------------------------------------------------------------
(* The cache *)

Terminal == {"done", "failed", "cancelled"}
Active   == {"running", "pending"}
Statuses == {"absent"} \cup Active \cup Terminal
Keys     == {"list"} \cup Jobs
Of(k)    == IF k = "list" THEN Jobs ELSE {k}

Snapshot(k) == [j \in Of(k) |-> [status |-> row[j], at |-> writes[j]]]

Rows(k) == [Of(k) -> [status : Statuses, at : 0 .. MaxWrites]]

(* data is what the page shows; failed is the query's error status; old says
   that it was invalidated.  fetch is the attempt under way and answer what
   the server read for it. *)
Entry(k) ==
  [data : Rows(k) \cup {None}, failed : BOOLEAN, old : BOOLEAN,
   fetch : {"idle", "asked", "answered", "refused"},
   answer : Rows(k) \cup {None}, tries : 0 .. Retries]

Empty == [data |-> None, failed |-> FALSE, old |-> FALSE,
          fetch |-> "idle", answer |-> None, tries |-> 0]

(* clientFetch: without a token the backend answers 401. *)
Sent == IF session THEN "asked" ELSE "refused"

Fetching(e) ==
  [e EXCEPT !.fetch = Sent, !.answer = None, !.tries = 0,
            !.failed = @ /\ e.data # None]

(* What becomes of an entry when a component that uses it is mounted: a fetch,
   unless one is under way or the data is neither invalidated nor five minutes
   old.  Its age is left open. *)
Mounted(e) ==
  IF e.fetch # "idle" THEN {e}
  ELSE {Fetching(e)} \cup IF e.data = None \/ e.old THEN {} ELSE {e}

(* A mutant: a fetch under way is joined even when there is data. *)
InvalidatedJoins(e, shown) ==
  IF shown /\ e.fetch = "idle" THEN Fetching([e EXCEPT !.old = TRUE])
                               ELSE [e EXCEPT !.old = TRUE]

(* invalidateQueries: an entry on show is fetched again, and a fetch under way
   is given up for it; one that nobody shows is only marked. *)
Invalidated(e, shown) ==
  IF shown /\ (e.fetch = "idle" \/ e.data # None)
    THEN Fetching([e EXCEPT !.old = TRUE])
    ELSE [e EXCEPT !.old = TRUE]

(* A mutant: only running jobs are polled. *)
PolledRunning(k, data) ==
  IF k = "list" THEN TRUE ELSE data # None /\ data[k].status = "running"

(* A mutant: the list is polled while a job is active only. *)
PolledActive(k, data) ==
  /\ data # None
  /\ \E j \in Of(k) : data[j].status \in Active

(* refetchInterval of useJobs, never off, and of useJob. *)
Polled(k, data) ==
  IF k = "list" THEN TRUE ELSE data # None /\ data[k].status \notin Terminal

(* The rows that /dashboard/jobs renders, also over an error. *)
Listed(j) ==
  /\ cache["list"].data # None
  /\ cache["list"].data[j].status # "absent"

(* What /dashboard/jobs/[id] renders. *)
View(j) ==
  CASE cache[j].data = None /\ ~cache[j].failed -> "skeleton"
    [] cache[j].failed -> "panel"
    [] OTHER -> "job"

Shown(k) == page = k

-----------------------------------------------------------------------------
Init ==
  /\ Backend!Init
  /\ writes = [j \in Jobs |-> 0]
  /\ session = FALSE
  /\ page = "list"
  /\ cache = [k \in Keys |-> IF k = "list" THEN Fetching(Empty) ELSE Empty]
  /\ post = [j \in Jobs |-> "none"]
  /\ form = None /\ push = None
  /\ cancel = [j \in Jobs |-> "none"]
  /\ mark = 0 /\ faults = 0

Fault ==
  /\ faults < MaxFaults
  /\ faults' = faults + 1

Change(k, e) == cache' = [cache EXCEPT ![k] = e]

-----------------------------------------------------------------------------
(* The life of a fetch *)

Reads(k) ==
  /\ cache[k].fetch = "asked"
  /\ IF k \in Jobs /\ row[k] = "absent"
       THEN Change(k, [cache[k] EXCEPT !.fetch = "refused"])
       ELSE Change(k, [cache[k] EXCEPT !.fetch = "answered",
                                       !.answer = Snapshot(k)])
  /\ UNCHANGED <<server, session, page, post, form, push, cancel, mark, faults>>

Delivered(k) ==
  /\ cache[k].fetch = "answered"
  /\ Change(k, [Empty EXCEPT !.data = cache[k].answer])
  /\ UNCHANGED <<server, session, page, post, form, push, cancel, mark, faults>>

(* The request or its answer is lost, and those of as many further attempts as
   the outage lasts for. *)
FetchFails(k) ==
  /\ cache[k].fetch \in {"asked", "answered"}
  /\ Fault
  /\ \E n \in cache[k].tries .. Retries :
       Change(k, [cache[k] EXCEPT !.fetch = "refused", !.answer = None,
                                  !.tries = n])
  /\ UNCHANGED <<server, session, page, post, form, push, cancel, mark>>

(* A mutant: the attempts are not counted. *)
RetryUncounted(k) ==
  /\ cache[k].fetch = "refused" /\ Shown(k)
  /\ Change(k, [cache[k] EXCEPT !.fetch = Sent, !.tries = @ + 1])
  /\ UNCHANGED <<server, session, page, post, form, push, cancel, mark, faults>>

(* After the backoff, with the token of that moment. *)
Retry(k) ==
  /\ cache[k].fetch = "refused" /\ Shown(k)
  /\ cache[k].tries < Retries
  /\ Change(k, [cache[k] EXCEPT !.fetch = Sent, !.tries = @ + 1])
  /\ UNCHANGED <<server, session, page, post, form, push, cancel, mark, faults>>

(* The data is kept.  Nobody waits for a retry of what is not shown. *)
GiveUp(k) ==
  /\ cache[k].fetch = "refused"
  /\ cache[k].tries = Retries \/ ~Shown(k)
  /\ Change(k, [cache[k] EXCEPT !.fetch = "idle", !.tries = 0,
                                !.failed = TRUE, !.old = TRUE])
  /\ UNCHANGED <<server, session, page, post, form, push, cancel, mark, faults>>

(* A mutant: no interval after an error. *)
PollsUnlessFailed(k) ==
  /\ Shown(k) /\ cache[k].fetch = "idle"
  /\ Polled(k, cache[k].data) /\ ~cache[k].failed
  /\ Change(k, Fetching(cache[k]))
  /\ UNCHANGED <<server, session, page, post, form, push, cancel, mark, faults>>

Polls(k) ==
  /\ Shown(k) /\ cache[k].fetch = "idle"
  /\ Polled(k, cache[k].data)
  /\ Change(k, Fetching(cache[k]))
  /\ UNCHANGED <<server, session, page, post, form, push, cancel, mark, faults>>

(* The window is focused again and the data is old. *)
Focus(k) ==
  /\ Shown(k) /\ cache[k].fetch = "idle"
  /\ Change(k, Fetching(cache[k]))
  /\ UNCHANGED <<server, session, page, post, form, push, cancel, mark, faults>>

(* Nobody has shown the entry for five minutes. *)
Dropped(k) ==
  /\ ~Shown(k) /\ cache[k].fetch = "idle" /\ cache[k] # Empty
  /\ Change(k, Empty)
  /\ UNCHANGED <<server, session, page, post, form, push, cancel, mark, faults>>

Fetch(k) ==
  \/ Reads(k) \/ Delivered(k) \/ FetchFails(k) \/ Retry(k) \/ GiveUp(k)
  \/ Polls(k) \/ Focus(k) \/ Dropped(k)

-----------------------------------------------------------------------------
(* The tab *)

SessionLoads ==
  /\ ~session
  /\ session' = TRUE
  /\ UNCHANGED <<server, page, cache, post, form, push, cancel, mark, faults>>

Goes(p) ==
  /\ page' = p
  /\ IF p \in Keys THEN \E e \in Mounted(cache[p]) : Change(p, e)
                    ELSE UNCHANGED cache
  /\ form' = None /\ mark' = 0

(* The links of the navigation bar and "Back to jobs". *)
Navigate(p) ==
  /\ p \in {"list", "new"} \ {page}
  /\ Goes(p)
  /\ UNCHANGED <<server, session, post, push, cancel, faults>>

(* A mutant: the row that was clicked is put in the cache of its page. *)
OpenJobSeeded(j) ==
  /\ page = "list" /\ Listed(j)
  /\ page' = j
  /\ Change(j, [cache[j] EXCEPT
                  !.data = [i \in {j} |-> cache["list"].data[j]]])
  /\ form' = None /\ mark' = 0
  /\ UNCHANGED <<server, session, post, push, cancel, faults>>

OpenJob(j) ==
  /\ page = "list" /\ Listed(j)
  /\ Goes(j)
  /\ UNCHANGED <<server, session, post, push, cancel, faults>>

(* A reload of the page: all the tab knows is gone, and its requests. *)
Reload ==
  /\ session' = FALSE
  /\ cache' = [k \in Keys |->
                 IF Shown(k) THEN [Empty EXCEPT !.fetch = "refused"] ELSE Empty]
  /\ post' = [j \in Jobs |-> IF post[j] = "none" THEN "none" ELSE "settled"]
  /\ cancel' = [j \in Jobs |-> "none"]
  /\ form' = None /\ push' = None /\ mark' = 0
  /\ UNCHANGED <<server, page, faults>>

-----------------------------------------------------------------------------
(* A new job *)

Pending(j) == post[j] \in {"sent", "stored", "made"}

(* The button is disabled while the form's mutation is pending, no longer once
   it has succeeded and router.push is under way: a second click is a second
   job. *)
Submit(j) ==
  /\ page = "new" /\ post[j] = "none"
  /\ form # None => ~Pending(form)
  /\ post' = [post EXCEPT ![j] = IF session THEN "sent" ELSE "settled"]
  /\ form' = j
  /\ UNCHANGED <<server, session, page, cache, push, cancel, mark, faults>>

Written(j) ==
  /\ writes[j] < MaxWrites
  /\ writes' = [writes EXCEPT ![j] = @ + 1]

Stored(j) ==
  /\ post[j] = "sent"
  /\ Backend!Submit(j) /\ Written(j)
  /\ post' = [post EXCEPT ![j] = "stored"]
  /\ UNCHANGED <<session, page, cache, form, push, cancel, mark, faults>>

(* The queue has room, or has none: the row is deleted and the form shows the
   error. *)
Accepted(j) ==
  /\ post[j] = "stored"
  /\ post' = [post EXCEPT ![j] = "made"]
  /\ UNCHANGED <<server, session, page, cache, form, push, cancel, mark, faults>>

Refused(j) ==
  /\ post[j] = "stored"
  /\ Backend!Refuse(j) /\ Written(j)
  /\ post' = [post EXCEPT ![j] = "settled"]
  /\ UNCHANGED <<session, page, cache, form, push, cancel, mark, faults>>

(* The request or its answer is lost: the form cannot tell which. *)
PostFails(j) ==
  /\ post[j] \in {"sent", "made"}
  /\ Fault
  /\ post' = [post EXCEPT ![j] = "settled"]
  /\ UNCHANGED <<server, session, page, cache, form, push, cancel, mark>>

(* onSuccess, wherever the user is by now. *)
Created(j) ==
  /\ post[j] = "made"
  /\ post' = [post EXCEPT ![j] = "ok"]
  /\ Change("list", Invalidated(cache["list"], Shown("list")))
  /\ push' = j
  /\ UNCHANGED <<server, session, page, form, cancel, mark, faults>>

Pushed ==
  /\ push # None
  /\ push' = None
  /\ IF page = push THEN UNCHANGED <<page, cache, form, mark>> ELSE Goes(push)
  /\ UNCHANGED <<server, session, post, cancel, faults>>

Creation(j) ==
  \/ Submit(j) \/ Stored(j) \/ Accepted(j) \/ Refused(j) \/ PostFails(j)
  \/ Created(j)

-----------------------------------------------------------------------------
(* A cancel.  An error is shown and changes nothing: the button is there again
   if the job still runs.  Bound: one cancel of a job at a time. The button is
   disabled while its mutation is pending, but only until the header is mounted
   again. *)

Cancel(j) ==
  /\ page = j /\ View(j) = "job"
  /\ cache[j].data[j].status = "running"
  /\ cancel[j] = "none"
  /\ cancel' = [cancel EXCEPT ![j] = "sent"]
  /\ UNCHANGED <<server, session, page, cache, post, form, push, mark, faults>>

(* The job was running once, so it is not pending.  The backend refuses the
   cancel if it has ended and else leaves it to its worker. *)
CancelHandled(j) ==
  /\ cancel[j] = "sent"
  /\ \/ row[j] \in Terminal /\ cancel' = [cancel EXCEPT ![j] = "none"]
     \/ row[j] = "running" /\ cancel' = [cancel EXCEPT ![j] = "done"]
  /\ UNCHANGED <<server, session, page, cache, post, form, push, mark, faults>>

CancelFails(j) ==
  /\ cancel[j] \in {"sent", "done"}
  /\ Fault
  /\ cancel' = [cancel EXCEPT ![j] = "none"]
  /\ UNCHANGED <<server, session, page, cache, post, form, push, mark>>

(* onSuccess: the list and the job are invalidated. *)
Cancelled(j) ==
  /\ cancel[j] = "done"
  /\ cancel' = [cancel EXCEPT ![j] = "none"]
  /\ cache' = [k \in Keys |-> IF k \in {"list", j}
                                THEN Invalidated(cache[k], Shown(k))
                                ELSE cache[k]]
  /\ mark' = IF page = j /\ cache[j].data # None THEN writes[j] ELSE mark
  /\ UNCHANGED <<server, session, page, post, form, push, faults>>

Cancellation(j) ==
  \/ Cancel(j) \/ CancelHandled(j) \/ CancelFails(j) \/ Cancelled(j)

-----------------------------------------------------------------------------
(* The rest of the backend: whatever JobLifecycle allows once the job is in the
   queue.  The last is the write of a cancel that some other client made, maybe
   before the queue had room, maybe late: over whatever status the row has by
   then, or in its place when it was deleted. *)

Queued(j) == post[j] \notin {"none", "sent", "stored"}

Begins(j) ==
  /\ Queued(j) /\ Backend!Begin(j) /\ Written(j)
  /\ UNCHANGED <<session, page, cache, post, form, push, cancel, mark, faults>>

Executes(j) ==
  /\ Backend!Execute(j)
  /\ UNCHANGED <<writes, session, page, cache, post, form, push, cancel, mark, faults>>

Ends(j) ==
  /\ Queued(j) /\ Backend!End(j) /\ Written(j)
  /\ UNCHANGED <<session, page, cache, post, form, push, cancel, mark, faults>>

CancelledElsewhere(j) ==
  /\ writes[j] > 0 /\ row[j] # "cancelled"
  /\ Backend!Cancel(j) /\ Written(j)
  /\ UNCHANGED <<session, page, cache, post, form, push, cancel, mark, faults>>

Server(j) == Begins(j) \/ Executes(j) \/ Ends(j) \/ CancelledElsewhere(j)

-----------------------------------------------------------------------------
Next ==
  \/ SessionLoads \/ Reload \/ Pushed
  \/ \E k \in Keys : Fetch(k)
  \/ \E p \in {"list", "new"} : Navigate(p)
  \/ \E j \in Jobs : OpenJob(j) \/ Creation(j) \/ Cancellation(j) \/ Server(j)

Spec == Init /\ [][Next]_vars

(* The browser and the network go on, for what is read: an attempt is answered
   or fails, a retry and the next poll come.  The user, a POST, the focus and
   the server's jobs need not move, nor need a fault happen. *)
Fairness ==
  /\ WF_vars(SessionLoads)
  /\ \A k \in Keys : WF_vars(Reads(k) \/ Delivered(k) \/ Retry(k) \/ GiveUp(k)
                               \/ Polls(k))

FairSpec == Spec /\ Fairness

-----------------------------------------------------------------------------
(* Properties *)

TypeOK ==
  /\ row \in [Jobs -> Statuses] /\ spawns \in [Jobs -> 0 .. 1]
  /\ writes \in [Jobs -> 0 .. MaxWrites]
  /\ session \in BOOLEAN
  /\ page \in {"list", "new"} \cup Jobs
  /\ cache = [k \in Keys |-> cache[k]]
  /\ \A k \in Keys : cache[k] \in Entry(k)
  /\ post \in [Jobs -> {"none", "sent", "stored", "made", "ok", "settled"}]
  /\ form \in Jobs \cup {None}
  /\ push \in Jobs \cup {None}
  /\ cancel \in [Jobs -> {"none", "sent", "done"}]
  /\ mark \in 0 .. MaxWrites
  /\ faults \in 0 .. MaxFaults

(* No page goes back to an older version of a row than it has shown. *)
NeverBack ==
  [][\A k \in Keys : \A j \in Of(k) :
       cache[k].data # None /\ cache'[k].data # None
         => cache'[k].data[j].at >= cache[k].data[j].at]_vars

(* Once the page of a job knows that its cancel was accepted, what it shows
   with no fetch under way was read later than that, also when a poll was under
   way. *)
FreshAfterCancel ==
  \A j \in Jobs :
    page = j /\ cache[j].data # None /\ cache[j].fetch = "idle"
      /\ ~cache[j].failed
      => cache[j].data[j].at >= mark

(* The page of a job that was loaded once and that has ended comes to show an
   end, if the user stays on it and the end is not written over before. *)
EndShown ==
  \A j \in Jobs :
    page = j /\ cache[j].data # None /\ row[j] \in Terminal
      ~> \/ page # j \/ cache[j].data = None \/ row[j] \notin Terminal
         \/ cache[j].data[j].status \in Terminal

(* A failed poll takes header and log off the page, but not for good while the
   job exists. *)
PanelGoes ==
  \A j \in Jobs :
    page = j /\ View(j) = "panel" /\ Polled(j, cache[j].data)
      ~> \/ page # j \/ View(j) # "panel" \/ row[j] = "absent"
         \/ ~Polled(j, cache[j].data)

(* A job that was created comes to be on the list the user looks at. *)
CreatedListed ==
  \A j \in Jobs :
    page = "list" /\ post[j] = "ok"
      ~> page # "list" \/ post[j] # "ok" \/ Listed(j)
=============================================================================
