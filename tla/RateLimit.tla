----------------------------- MODULE RateLimit -----------------------------
(***************************************************************************)
(* The login rate limiter: the bucket of one client IP and the requests    *)
(* that go through it.  Buckets of different IPs share nothing, and a      *)
(* bucket is never removed while the process lives.                        *)
(***************************************************************************)
EXTENDS Integers, Sequences

CONSTANTS
  Requests,    \* login requests of the IP that are served at the same time
  Limit,       \* limit, 5
  Window,      \* window, one minute, in ticks of the clock
  MaxTime      \* bound: the clock stops here

ASSUME SizesAssumption == {Limit, Window} \subseteq Nat \ {0}
ASSUME BoundAssumption == MaxTime \in Nat

VARIABLES
  now,      \* time.Now
  bucket,   \* "none" before the first request, then "stored" in the map
  count,    \* rateBucket.count
  resetAt,  \* rateBucket.resetAt
  pc,       \* where each request is
  passed    \* history: the attempts let through, each with its time and with
            \* the time its window began

vars == <<now, bucket, count, resetAt, pc, passed>>

Init ==
  /\ now = 0
  /\ bucket = "none" /\ count = 0 /\ resetAt = 0
  /\ pc = [r \in Requests |-> "new"]
  /\ passed = <<>>

Tick ==
  /\ now < MaxTime
  /\ now' = now + 1
  /\ UNCHANGED <<bucket, count, resetAt, pc, passed>>

(* check, LoadOrStore: of the requests that come first only one stores its
   bucket, with a window that begins now. *)
Resolve(r) ==
  /\ pc[r] # "resolved"
  /\ pc' = [pc EXCEPT ![r] = "resolved"]
  /\ bucket' = "stored"
  /\ resetAt' = IF bucket = "none" THEN now + Window ELSE resetAt
  /\ UNCHANGED <<now, count, passed>>

(* A mutant: the new window has no new end. *)
WindowForgotten == IF now > resetAt
                     THEN [count |-> 0, resetAt |-> resetAt]
                     ELSE [count |-> count, resetAt |-> resetAt]

(* The bucket once allow has started a fresh window if the last is over. *)
Refreshed == IF now > resetAt
               THEN [count |-> 0, resetAt |-> now + Window]
               ELSE [count |-> count, resetAt |-> resetAt]

(* A mutant: every refused attempt begins a new window. *)
AllowExtends(r) ==
  /\ pc[r] = "resolved"
  /\ IF Refreshed.count >= Limit
       THEN /\ pc' = [pc EXCEPT ![r] = "refused"]
            /\ resetAt' = now + Window
            /\ UNCHANGED <<count, passed>>
       ELSE /\ pc' = [pc EXCEPT ![r] = "allowed"]
            /\ count' = Refreshed.count + 1
            /\ resetAt' = Refreshed.resetAt
            /\ passed' = Append(passed, [at |-> now,
                                         from |-> resetAt' - Window])
  /\ UNCHANGED <<now, bucket>>

(* allow, under the mutex of the bucket. *)
Allow(r) ==
  /\ pc[r] = "resolved"
  /\ resetAt' = Refreshed.resetAt
  /\ \/ /\ Refreshed.count >= Limit
        /\ pc' = [pc EXCEPT ![r] = "refused"]
        /\ count' = Refreshed.count
        /\ UNCHANGED passed
     \/ /\ Refreshed.count < Limit
        /\ pc' = [pc EXCEPT ![r] = "allowed"]
        /\ count' = Refreshed.count + 1
        /\ passed' = Append(passed, [at |-> now,
                                     from |-> Refreshed.resetAt - Window])
  /\ UNCHANGED <<now, bucket>>

Next == Tick \/ \E r \in Requests : Resolve(r) \/ Allow(r)

Spec == Init /\ [][Next]_vars

-----------------------------------------------------------------------------
(* Properties *)

(* In no span of one window length, wherever it begins, are more than twice
   the limit let through: of any 2 * Limit + 1 consecutive attempts the last
   comes more than a window after the first. *)
SlidingBound ==
  \A i \in 1 .. Len(passed) :
    i + 2 * Limit <= Len(passed)
      => passed[i + 2 * Limit].at > passed[i].at + Window

(* An attempt is refused only if the full limit was let through within the
   last window: refusals do not push the end of the window away. *)
RefusedOnlyAtLimit ==
  [][\A r \in Requests : pc[r] = "resolved" /\ pc'[r] = "refused" =>
       /\ Len(passed) >= Limit
       /\ passed[Len(passed) - Limit + 1].at + Window >= now]_vars
=============================================================================
