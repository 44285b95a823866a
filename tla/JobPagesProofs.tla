---------------------------- MODULE JobPagesProofs ----------------------------
(***************************************************************************)
(* Proofs about JobPages: no page goes back to an older row, and a page    *)
(* that knows of its cancel shows nothing older, for any number of jobs,   *)
(* retries, faults and writes.                                             *)
(***************************************************************************)
EXTENDS JobPages, TLAPS

-----------------------------------------------------------------------------
(* What becomes of an entry of the cache *)

Requested(f) == f.fetch \in {"asked", "refused"}

SameRows(e, f) ==
  f.data = e.data /\ f.fetch = e.fetch /\ f.answer = e.answer
    /\ f.failed = e.failed

LEMMA EmptyEntry ==
  ASSUME NEW k \in Keys
  PROVE  /\ Empty \in Entry(k) /\ Empty.data = None /\ Empty.fetch = "idle"
         /\ [Empty EXCEPT !.fetch = "refused"] \in Entry(k)
         /\ [Empty EXCEPT !.fetch = "refused"].data = None
         /\ [Empty EXCEPT !.fetch = "refused"].fetch = "refused"
<1>1. 0 \in 0 .. Retries
  BY BoundsAssumption
<1>2. Empty \in Entry(k)
  BY <1>1 DEF Empty, Entry
<1>3. [Empty EXCEPT !.fetch = "refused"] \in Entry(k)
  BY <1>1 DEF Empty, Entry
<1>. QED
  BY <1>2, <1>3 DEF Empty

LEMMA FetchingEntry ==
  ASSUME NEW k \in Keys, NEW e \in Entry(k)
  PROVE  /\ Fetching(e) \in Entry(k)
         /\ Fetching(e).data = e.data /\ Requested(Fetching(e))
<1>1. Sent \in {"asked", "refused"}
  BY DEF Sent
<1>2. 0 \in 0 .. Retries
  BY BoundsAssumption
<1>3. PICK b \in BOOLEAN : b = (e.failed /\ e.data # None)
  OBVIOUS
<1>4. Fetching(e) = [e EXCEPT !.fetch = Sent, !.answer = None, !.tries = 0,
                              !.failed = b]
  BY <1>3 DEF Fetching
<1>. QED
  BY <1>1, <1>2, <1>4 DEF Entry, Requested

LEMMA MarkedEntry ==
  ASSUME NEW k \in Keys, NEW e \in Entry(k)
  PROVE  /\ [e EXCEPT !.old = TRUE] \in Entry(k)
         /\ SameRows(e, [e EXCEPT !.old = TRUE])
  BY DEF Entry, SameRows

LEMMA InvalidatedEntry ==
  ASSUME NEW k \in Keys, NEW e \in Entry(k), NEW shown \in BOOLEAN
  PROVE  /\ Invalidated(e, shown) \in Entry(k)
         /\ \/ SameRows(e, Invalidated(e, shown))
            \/ /\ Invalidated(e, shown).data = e.data
               /\ Requested(Invalidated(e, shown))
         /\ shown /\ e.data # None => Requested(Invalidated(e, shown))
<1>. DEFINE m == [e EXCEPT !.old = TRUE]
<1>1. m \in Entry(k) /\ SameRows(e, m)
  BY MarkedEntry
<1>. HIDE DEF m
<1>2. CASE shown /\ (e.fetch = "idle" \/ e.data # None)
  <2>1. Invalidated(e, shown) = Fetching(m)
    BY <1>2 DEF Invalidated, m
  <2>. QED
    BY <1>1, <2>1, FetchingEntry DEF SameRows
<1>3. CASE ~(shown /\ (e.fetch = "idle" \/ e.data # None))
  <2>1. Invalidated(e, shown) = m
    BY <1>3 DEF Invalidated, m
  <2>. QED
    BY <1>1, <1>3, <2>1
<1>. QED
  BY <1>2, <1>3

LEMMA MountedEntry ==
  ASSUME NEW k \in Keys, NEW e \in Entry(k), NEW f \in Mounted(e)
  PROVE  /\ f \in Entry(k)
         /\ f = e \/ (f.data = e.data /\ Requested(f))
<1>1. f = e \/ f = Fetching(e)
  BY DEF Mounted
<1>. QED
  BY <1>1, FetchingEntry

-----------------------------------------------------------------------------
(* Types, and what a step does to each entry *)

ServerTyped ==
  /\ row \in [Jobs -> Statuses] /\ spawns \in [Jobs -> 0 .. 1]
  /\ writes \in [Jobs -> 0 .. MaxWrites]

CacheTyped ==
  cache = [k \in Keys |-> cache[k]] /\ \A k \in Keys : cache[k] \in Entry(k)

TabTyped ==
  /\ session \in BOOLEAN
  /\ page \in {"list", "new"} \cup Jobs
  /\ form \in Jobs \cup {None} /\ push \in Jobs \cup {None}
  /\ mark \in 0 .. MaxWrites

RequestsTyped ==
  /\ post \in [Jobs -> {"none", "sent", "stored", "made", "ok", "settled"}]
  /\ cancel \in [Jobs -> {"none", "sent", "done"}]
  /\ faults \in 0 .. MaxFaults

TypeByParts == ServerTyped /\ CacheTyped /\ TabTyped /\ RequestsTyped

LEMMA TypeParts == (TypeOK <=> TypeByParts) /\ (TypeOK' <=> TypeByParts')
  BY DEF TypeOK, TypeByParts, ServerTyped, CacheTyped, TabTyped, RequestsTyped

LEMMA TypeInit == Init => TypeOK
<1>. SUFFICES ASSUME Init PROVE TypeByParts
  BY TypeParts
<1>1. ServerTyped
  BY BoundsAssumption DEF Init, Backend!Init, ServerTyped, Statuses
<1>2. TabTyped
  <2>1. mark \in 0 .. MaxWrites
    BY BoundsAssumption DEF Init
  <2>2. session \in BOOLEAN
    BY DEF Init
  <2>3. page \in {"list", "new"} \cup Jobs
    BY DEF Init
  <2>. QED
    BY <2>1, <2>2, <2>3 DEF Init, TabTyped
<1>4. RequestsTyped
  BY BoundsAssumption DEF Init, RequestsTyped
<1>3. CacheTyped
  BY EmptyEntry, FetchingEntry DEF Init, CacheTyped
<1>. QED
  BY <1>1, <1>2, <1>3, <1>4 DEF TypeByParts

LEMMA OfTyped == ASSUME NEW k \in Keys PROVE Of(k) \subseteq Jobs
  BY DEF Keys, Of

LEMMA SnapshotTyped ==
  ASSUME TypeOK, NEW k \in Keys
  PROVE  Snapshot(k) \in Rows(k)
<1>1. \A j \in Of(k) : row[j] \in Statuses /\ writes[j] \in 0 .. MaxWrites
  BY OfTyped, TypeParts DEF TypeByParts, ServerTyped
<1>. QED
  BY <1>1 DEF Snapshot, Rows

Moved(k) ==
  LET e == cache[k] f == cache'[k] IN
  \/ SameRows(e, f)
  \/ f.data = e.data /\ Requested(f)
  \/ f.data = e.data /\ f.fetch = "answered" /\ f.answer = Snapshot(k)
  \/ f.data = e.data /\ f.fetch = "idle" /\ f.failed
  \/ e.fetch = "answered" /\ f.data = e.answer /\ f.fetch = "idle"
  \/ f.data = None /\ f.fetch # "answered"

LEMMA Put ==
  ASSUME CacheTyped, NEW k \in Keys, NEW f \in Entry(k), Change(k, f)
  PROVE  CacheTyped' /\ cache'[k] = f /\ \A i \in Keys \ {k} : cache'[i] = cache[i]
<1>1. cache' = [cache EXCEPT ![k] = f] /\ DOMAIN cache = Keys
  BY DEF Change, CacheTyped
<1>2. cache'[k] = f /\ \A i \in Keys \ {k} : cache'[i] = cache[i]
  BY <1>1
<1>3. cache' = [i \in Keys |-> cache'[i]]
  BY <1>1
<1>. QED
  BY <1>2, <1>3 DEF CacheTyped

LEMMA SameMoved ==
  ASSUME UNCHANGED cache PROVE (CacheTyped => CacheTyped') /\ \A k : Moved(k)
  BY DEF CacheTyped, Moved, SameRows

LEMMA FetchMoves ==
  ASSUME TypeOK, NEW k \in Keys, Fetch(k)
  PROVE  CacheTyped' /\ \A i \in Keys : Moved(i)
<1>. DEFINE e == cache[k] Goal == CacheTyped' /\ \A i \in Keys : Moved(i)
<1>1. CacheTyped /\ e \in Entry(k)
  BY TypeParts DEF TypeByParts, CacheTyped
<1>2. ASSUME NEW f \in Entry(k), Change(k, f),
             cache'[k] = f => Moved(k)
      PROVE  Goal
  <2>1. CacheTyped' /\ cache'[k] = f /\ \A i \in Keys \ {k} : cache'[i] = cache[i]
    BY <1>1, <1>2, Put
  <2>2. \A i \in Keys \ {k} : Moved(i)
    BY <2>1 DEF Moved, SameRows
  <2>. QED
    BY <1>2, <2>1, <2>2
<1>3. CASE Reads(k)
  <2>1. CASE k \in Jobs /\ row[k] = "absent"
    <3>1. Change(k, [e EXCEPT !.fetch = "refused"])
      BY <1>3, <2>1 DEF Reads
    <3>2. /\ [e EXCEPT !.fetch = "refused"] \in Entry(k)
          /\ [e EXCEPT !.fetch = "refused"].data = e.data
          /\ [e EXCEPT !.fetch = "refused"].fetch = "refused"
      BY <1>1 DEF Entry
    <3>. QED
      BY <1>2, <3>1, <3>2 DEF Moved, Requested
  <2>2. CASE ~(k \in Jobs /\ row[k] = "absent")
    <3>. DEFINE f == [e EXCEPT !.fetch = "answered", !.answer = Snapshot(k)]
    <3>1. Change(k, f)
      BY <1>3, <2>2 DEF Reads
    <3>2. /\ f \in Entry(k) /\ f.data = e.data /\ f.fetch = "answered"
          /\ f.answer = Snapshot(k)
      BY <1>1, SnapshotTyped DEF Entry
    <3>. HIDE DEF f
    <3>. QED
      BY <1>2, <3>1, <3>2 DEF Moved
  <2>. QED
    BY <2>1, <2>2
<1>4. CASE Delivered(k)
  <2>. DEFINE f == [Empty EXCEPT !.data = e.answer]
  <2>1. Change(k, f) /\ e.fetch = "answered"
    BY <1>4 DEF Delivered
  <2>2. f \in Entry(k) /\ f.data = e.answer /\ f.fetch = "idle"
    BY <1>1, EmptyEntry DEF Entry, Empty
  <2>. HIDE DEF f
  <2>. QED
    BY <1>2, <2>1, <2>2 DEF Moved
<1>5. CASE FetchFails(k)
  <2>1. PICK n \in e.tries .. Retries :
          Change(k, [e EXCEPT !.fetch = "refused", !.answer = None, !.tries = n])
    BY <1>5 DEF FetchFails
  <2>. DEFINE f == [e EXCEPT !.fetch = "refused", !.answer = None, !.tries = n]
  <2>2. n \in 0 .. Retries
    BY <1>1, BoundsAssumption DEF Entry
  <2>3. f \in Entry(k) /\ f.data = e.data /\ f.fetch = "refused"
    BY <1>1, <2>2 DEF Entry
  <2>. HIDE DEF f
  <2>. QED
    BY <1>2, <2>1, <2>3 DEF Moved, Requested, f
<1>6. CASE Retry(k)
  <2>. DEFINE f == [e EXCEPT !.fetch = Sent, !.tries = @ + 1]
  <2>1. Change(k, f) /\ e.tries < Retries
    BY <1>6 DEF Retry
  <2>2. Sent \in {"asked", "refused"} /\ e.tries + 1 \in 0 .. Retries
    BY <1>1, <2>1, BoundsAssumption DEF Sent, Entry
  <2>3. f \in Entry(k) /\ f.data = e.data /\ f.fetch = Sent
    BY <1>1, <2>2 DEF Entry
  <2>. HIDE DEF f
  <2>. QED
    BY <1>2, <2>1, <2>2, <2>3 DEF Moved, Requested
<1>7. CASE GiveUp(k)
  <2>. DEFINE f == [e EXCEPT !.fetch = "idle", !.tries = 0, !.failed = TRUE,
                             !.old = TRUE]
  <2>1. Change(k, f)
    BY <1>7 DEF GiveUp
  <2>2. 0 \in 0 .. Retries
    BY BoundsAssumption
  <2>3. f \in Entry(k) /\ f.data = e.data /\ f.fetch = "idle" /\ f.failed
    BY <1>1, <2>2 DEF Entry
  <2>. HIDE DEF f
  <2>. QED
    BY <1>2, <2>1, <2>3 DEF Moved
<1>8. CASE Polls(k) \/ Focus(k)
  <2>1. Change(k, Fetching(e))
    BY <1>8 DEF Polls, Focus
  <2>. QED
    BY <1>1, <1>2, <2>1, FetchingEntry DEF Moved
<1>9. CASE Dropped(k)
  <2>1. Change(k, Empty)
    BY <1>9 DEF Dropped
  <2>. QED
    BY <1>2, <2>1, EmptyEntry DEF Moved
<1>. QED
  BY <1>3, <1>4, <1>5, <1>6, <1>7, <1>8, <1>9 DEF Fetch

LEMMA GoesMoves ==
  ASSUME TypeOK, NEW p, Goes(p)
  PROVE  CacheTyped' /\ \A i \in Keys : Moved(i)
<1>1. CacheTyped /\ \A k \in Keys : cache[k] \in Entry(k)
  BY TypeParts DEF TypeByParts, CacheTyped
<1>2. CASE p \in Keys
  <2>1. PICK f \in Mounted(cache[p]) : Change(p, f)
    BY <1>2 DEF Goes
  <2>2. f \in Entry(p) /\ (f = cache[p] \/ (f.data = cache[p].data /\ Requested(f)))
    BY <1>1, <1>2, MountedEntry
  <2>3. CacheTyped' /\ cache'[p] = f /\ \A i \in Keys \ {p} : cache'[i] = cache[i]
    BY <1>1, <1>2, <2>1, <2>2, Put
  <2>4. ASSUME NEW i \in Keys PROVE Moved(i)
    BY <2>2, <2>3 DEF Moved, SameRows
  <2>. QED
    BY <2>3, <2>4
<1>3. CASE p \notin Keys
  BY <1>1, <1>3, SameMoved DEF Goes
<1>. QED
  BY <1>2, <1>3

LEMMA CacheStep ==
  ASSUME TypeOK, [Next]_vars
  PROVE  CacheTyped' /\ \A k \in Keys : Moved(k)
<1>. DEFINE Goal == CacheTyped' /\ \A k \in Keys : Moved(k)
<1>1. CacheTyped /\ (\A k \in Keys : cache[k] \in Entry(k)) /\ "list" \in Keys
  BY TypeParts DEF TypeByParts, CacheTyped, Keys
<1>2. CASE UNCHANGED cache
  BY <1>1, <1>2, SameMoved
<1>3. ASSUME NEW p, Goes(p) PROVE Goal
  BY <1>3, GoesMoves
<1>4. CASE Reload
  <2>1. cache' = [k \in Keys |->
          IF Shown(k) THEN [Empty EXCEPT !.fetch = "refused"] ELSE Empty]
    BY <1>4 DEF Reload
  <2>2. \A k \in Keys : cache'[k] \in Entry(k) /\ cache'[k].data = None
                        /\ cache'[k].fetch # "answered"
    BY <2>1, EmptyEntry
  <2>. QED
    BY <2>1, <2>2 DEF Moved, CacheTyped
<1>5. ASSUME NEW j \in Jobs, Created(j) PROVE Goal
  <2>. DEFINE f == Invalidated(cache["list"], Shown("list"))
  <2>1. Shown("list") \in BOOLEAN
    BY DEF Shown
  <2>2. /\ f \in Entry("list")
        /\ \/ SameRows(cache["list"], f)
           \/ f.data = cache["list"].data /\ Requested(f)
    BY <1>1, <2>1, InvalidatedEntry
  <2>3. Change("list", f)
    BY <1>5 DEF Created
  <2>. HIDE DEF f
  <2>4. CacheTyped' /\ cache'["list"] = f
        /\ \A i \in Keys \ {"list"} : cache'[i] = cache[i]
    BY <1>1, <2>2, <2>3, Put
  <2>5. ASSUME NEW k \in Keys PROVE Moved(k)
    BY <2>2, <2>4 DEF Moved, SameRows
  <2>. QED
    BY <2>4, <2>5
<1>6. ASSUME NEW j \in Jobs, Cancelled(j) PROVE Goal
  <2>1. cache' = [k \in Keys |-> IF k \in {"list", j}
                                   THEN Invalidated(cache[k], Shown(k))
                                   ELSE cache[k]]
    BY <1>6 DEF Cancelled
  <2>2. ASSUME NEW k \in Keys PROVE cache'[k] \in Entry(k) /\ Moved(k)
    <3>1. CASE k \in {"list", j}
      <4>. DEFINE f == Invalidated(cache[k], Shown(k))
      <4>1. cache'[k] = f /\ Shown(k) \in BOOLEAN
        BY <2>1, <3>1 DEF Shown
      <4>2. /\ f \in Entry(k)
            /\ \/ SameRows(cache[k], f)
               \/ f.data = cache[k].data /\ Requested(f)
        BY <1>1, <4>1, InvalidatedEntry
      <4>. HIDE DEF f
      <4>. QED
        BY <4>1, <4>2 DEF Moved
    <3>2. CASE k \notin {"list", j}
      <4>1. cache'[k] = cache[k]
        BY <2>1, <3>2
      <4>. QED
        BY <1>1, <4>1 DEF Moved, SameRows
    <3>. QED
      BY <3>1, <3>2
  <2>. QED
    BY <2>1, <2>2 DEF CacheTyped
<1>7. CASE Pushed
  BY <1>2, <1>3, <1>7 DEF Pushed
<1>8. ASSUME NEW p \in {"list", "new"}, Navigate(p) PROVE Goal
  BY <1>3, <1>8 DEF Navigate
<1>9. ASSUME NEW j \in Jobs, OpenJob(j) PROVE Goal
  BY <1>3, <1>9 DEF OpenJob
<1>10. CASE SessionLoads \/ UNCHANGED vars
  BY <1>2, <1>10 DEF SessionLoads, vars
<1>11. ASSUME NEW j \in Jobs,
              \/ Submit(j) \/ Stored(j) \/ Accepted(j) \/ Refused(j)
              \/ PostFails(j) \/ Cancel(j) \/ CancelHandled(j) \/ CancelFails(j)
              \/ Server(j)
       PROVE  Goal
  BY <1>2, <1>11 DEF Submit, Stored, Accepted, Refused, PostFails, Cancel,
     CancelHandled, CancelFails, Server, Begins, Executes, Ends,
     CancelledElsewhere
<1>. QED
  BY <1>4, <1>5, <1>6, <1>7, <1>8, <1>9, <1>10, <1>11, FetchMoves
     DEF Next, Creation, Cancellation

LEMMA ServerStep ==
  ASSUME TypeOK, [Next]_vars
  PROVE  ServerTyped' /\ \A j \in Jobs : writes'[j] >= writes[j]
<1>1. ServerTyped
  BY TypeParts DEF TypeByParts
<1>2. CASE UNCHANGED server
  BY <1>1, <1>2, BoundsAssumption DEF server, ServerTyped
<1>3. ASSUME NEW j \in Jobs, Written(j)
      PROVE  /\ writes' \in [Jobs -> 0 .. MaxWrites]
             /\ \A i \in Jobs : writes'[i] >= writes[i]
  <2>1. writes[j] \in 0 .. MaxWrites /\ writes[j] + 1 \in 0 .. MaxWrites
        /\ writes' = [writes EXCEPT ![j] = writes[j] + 1]
    BY <1>1, <1>3, BoundsAssumption DEF ServerTyped, Written
  <2>2. \A i \in Jobs : writes[i] \in 0 .. MaxWrites
    BY <1>1 DEF ServerTyped
  <2>3. writes' \in [Jobs -> 0 .. MaxWrites]
    BY <1>1, <2>1 DEF ServerTyped
  <2>4. ASSUME NEW i \in Jobs PROVE writes'[i] >= writes[i]
    <3>1. writes'[i] = writes[i] \/ writes'[i] = writes[i] + 1
      BY <1>1, <2>1 DEF ServerTyped
    <3>. QED
      BY <2>2, <3>1
  <2>. QED
    BY <2>3, <2>4
<1>4. ASSUME NEW j \in Jobs, Creation(j) PROVE UNCHANGED server \/ Written(j)
  BY <1>4 DEF Creation, Submit, Stored, Accepted, Refused, PostFails, Created
<1>5. ASSUME NEW j \in Jobs, Creation(j) \/ Server(j)
      PROVE  row' \in [Jobs -> Statuses] /\ spawns' \in [Jobs -> 0 .. 1]
  <2>1. CASE UNCHANGED <<row, spawns>>
    BY <1>1, <2>1 DEF ServerTyped
  <2>2. CASE \E s \in Statuses : Backend!Becomes(j, s)
    BY <1>1, <2>2 DEF ServerTyped, Backend!Becomes
  <2>3. CASE Backend!Execute(j)
    BY <1>1, <2>3 DEF ServerTyped, Backend!Execute
  <2>. QED
    BY <1>5, <2>1, <2>2, <2>3
       DEF Creation, Submit, Stored, Accepted, Refused, PostFails, Created,
           Server, Begins, Executes, Ends, CancelledElsewhere, server,
           Backend!Submit, Backend!Refuse, Backend!Cancel, Backend!Begin,
           Backend!End, Statuses, Active, Terminal
<1>6. ASSUME NEW j \in Jobs, Server(j) PROVE writes' = writes \/ Written(j)
  BY <1>6 DEF Server, Begins, Executes, Ends, CancelledElsewhere
<1>7. ASSUME NEW j \in Jobs, Creation(j) \/ Server(j)
      PROVE  ServerTyped' /\ \A i \in Jobs : writes'[i] >= writes[i]
  <2>1. CASE writes' = writes
    BY <1>1, <1>5, <1>7, <2>1, BoundsAssumption DEF ServerTyped
  <2>2. CASE Written(j)
    BY <1>3, <1>5, <1>7, <2>2 DEF ServerTyped
  <2>. QED
    BY <1>4, <1>6, <1>7, <2>1, <2>2 DEF server
<1>8. ASSUME NEW k \in Keys, Fetch(k) PROVE UNCHANGED server
  BY <1>8 DEF Fetch, Reads, Delivered, FetchFails, Retry, GiveUp, Polls, Focus,
              Dropped
<1>9. CASE SessionLoads \/ Reload \/ Pushed
  BY <1>2, <1>9 DEF SessionLoads, Reload, Pushed
<1>10. ASSUME NEW p \in {"list", "new"}, Navigate(p) PROVE UNCHANGED server
  BY <1>10 DEF Navigate
<1>11. ASSUME NEW j \in Jobs, OpenJob(j) \/ Cancellation(j)
       PROVE  UNCHANGED server
  BY <1>11 DEF OpenJob, Cancellation, Cancel, CancelHandled, CancelFails,
               Cancelled
<1>. QED
  BY <1>2, <1>7, <1>8, <1>9, <1>10, <1>11 DEF Next, vars, server

(* Only a change of page or a reload resets the mark, and only a cancel that
   fetches the job again sets it. *)
LEMMA PageStep ==
  ASSUME TypeOK, [Next]_vars
  PROVE  \/ UNCHANGED <<page, mark>>
         \/ page' \in {"list", "new"} \cup Jobs /\ mark' = 0
         \/ /\ page' = page
            /\ \E j \in Jobs : /\ page = j /\ mark' = writes[j]
                               /\ Requested(cache'[j])
<1>. DEFINE Goal ==
       \/ UNCHANGED <<page, mark>>
       \/ page' \in {"list", "new"} \cup Jobs /\ mark' = 0
       \/ /\ page' = page
          /\ \E j \in Jobs : /\ page = j /\ mark' = writes[j]
                             /\ Requested(cache'[j])
<1>1. /\ page \in {"list", "new"} \cup Jobs /\ push \in Jobs \cup {None}
      /\ \A k \in Keys : cache[k] \in Entry(k)
  BY TypeParts DEF TypeByParts, TabTyped, CacheTyped
<1>2. ASSUME NEW j \in Jobs, Cancelled(j) PROVE Goal
  <2>1. CASE page = j /\ cache[j].data # None
    <3>1. /\ mark' = writes[j] /\ page' = page /\ j \in Keys
          /\ cache' = [k \in Keys |-> IF k \in {"list", j}
                                        THEN Invalidated(cache[k], Shown(k))
                                        ELSE cache[k]]
      BY <1>2, <2>1 DEF Cancelled, Keys
    <3>2. cache'[j] = Invalidated(cache[j], TRUE)
      BY <2>1, <3>1 DEF Shown
    <3>3. Requested(cache'[j])
      BY <1>1, <2>1, <3>1, <3>2, InvalidatedEntry
    <3>. QED
      BY <2>1, <3>1, <3>3
  <2>2. CASE ~(page = j /\ cache[j].data # None)
    BY <1>2, <2>2 DEF Cancelled
  <2>. QED
    BY <2>1, <2>2
<1>3. ASSUME NEW k \in Keys, Fetch(k) PROVE Goal
  BY <1>3 DEF Fetch, Reads, Delivered, FetchFails, Retry, GiveUp, Polls, Focus,
              Dropped
<1>4. CASE SessionLoads \/ UNCHANGED vars
  BY <1>4 DEF SessionLoads, vars
<1>5. CASE Reload
  BY <1>1, <1>5 DEF Reload
<1>6. CASE Pushed
  BY <1>1, <1>6 DEF Pushed, Goes
<1>7. ASSUME NEW p \in {"list", "new"}, Navigate(p) PROVE Goal
  BY <1>7 DEF Navigate, Goes
<1>8. ASSUME NEW j \in Jobs, OpenJob(j) PROVE Goal
  BY <1>8 DEF OpenJob, Goes
<1>9. ASSUME NEW j \in Jobs, Creation(j) \/ Server(j) PROVE Goal
  BY <1>9 DEF Creation, Submit, Stored, Accepted, Refused, PostFails, Created,
              Server, Begins, Executes, Ends, CancelledElsewhere
<1>10. ASSUME NEW j \in Jobs, Cancel(j) \/ CancelHandled(j) \/ CancelFails(j)
       PROVE  Goal
  BY <1>10 DEF Cancel, CancelHandled, CancelFails
<1>. QED
  BY <1>2, <1>3, <1>4, <1>5, <1>6, <1>7, <1>8, <1>9, <1>10
     DEF Next, Cancellation

LEMMA TabStep == ASSUME TypeOK, [Next]_vars PROVE TabTyped' /\ RequestsTyped'
<1>. DEFINE Goal == /\ session' \in BOOLEAN
                    /\ form' \in Jobs \cup {None} /\ push' \in Jobs \cup {None}
                    /\ RequestsTyped'
<1>1. TabTyped /\ RequestsTyped /\ ServerTyped
  BY TypeParts DEF TypeByParts
<1>2. page' \in {"list", "new"} \cup Jobs /\ mark' \in 0 .. MaxWrites
  BY <1>1, PageStep, BoundsAssumption DEF TabTyped, ServerTyped
<1>. USE <1>1, BoundsAssumption DEF TabTyped, RequestsTyped, Fault
<1>3. ASSUME NEW k \in Keys, Fetch(k) PROVE Goal
  <2>1. UNCHANGED <<session, post, form, push, cancel>>
    BY <1>3 DEF Fetch, Reads, Delivered, FetchFails, Retry, GiveUp, Polls,
                Focus, Dropped
  <2>2. faults' = faults \/ Fault
    BY <1>3 DEF Fetch, Reads, Delivered, FetchFails, Retry, GiveUp, Polls,
                Focus, Dropped
  <2>. QED
    BY <2>1, <2>2
<1>4. CASE SessionLoads \/ UNCHANGED vars
  BY <1>4 DEF SessionLoads, vars
<1>5. CASE Reload
  <2>1. /\ post' = [j \in Jobs |-> IF post[j] = "none" THEN "none" ELSE "settled"]
        /\ cancel' = [j \in Jobs |-> "none"]
        /\ form' = None /\ push' = None /\ faults' = faults
    BY <1>5 DEF Reload
  <2>2. RequestsTyped'
    BY <2>1
  <2>3. session' \in BOOLEAN
    BY <1>5 DEF Reload
  <2>4. form' \in Jobs \cup {None} /\ push' \in Jobs \cup {None}
    BY <2>1
  <2>. HIDE DEF RequestsTyped
  <2>. QED
    BY <1>2, <2>2, <2>3, <2>4
<1>6. CASE Pushed
  BY <1>6 DEF Pushed, Goes
<1>7. ASSUME NEW p \in {"list", "new"}, Navigate(p) PROVE Goal
  BY <1>7 DEF Navigate, Goes
<1>8. ASSUME NEW j \in Jobs, OpenJob(j) PROVE Goal
  BY <1>8 DEF OpenJob, Goes
<1>9. ASSUME NEW j \in Jobs, Creation(j) PROVE Goal
  <2>1. \/ post' = post
        \/ \E s \in {"sent", "stored", "made", "ok", "settled"} :
             post' = [post EXCEPT ![j] = s]
    BY <1>9 DEF Creation, Submit, Stored, Accepted, Refused, PostFails, Created
  <2>2. post' \in [Jobs -> {"none", "sent", "stored", "made", "ok", "settled"}]
    BY <2>1
  <2>3. UNCHANGED <<session, cancel>> /\ form' \in {form, j} /\ push' \in {push, j}
    BY <1>9 DEF Creation, Submit, Stored, Accepted, Refused, PostFails, Created
  <2>4. faults' = faults \/ Fault
    BY <1>9 DEF Creation, Submit, Stored, Accepted, Refused, PostFails, Created
  <2>. QED
    BY <2>2, <2>3, <2>4
<1>10. ASSUME NEW j \in Jobs, Cancellation(j) PROVE Goal
  <2>1. \E s \in {"none", "sent", "done"} : cancel' = [cancel EXCEPT ![j] = s]
    BY <1>10 DEF Cancellation, Cancel, CancelHandled, CancelFails, Cancelled
  <2>2. cancel' \in [Jobs -> {"none", "sent", "done"}]
    BY <2>1
  <2>3. UNCHANGED <<session, post, form, push>>
    BY <1>10 DEF Cancellation, Cancel, CancelHandled, CancelFails, Cancelled
  <2>4. faults' = faults \/ Fault
    BY <1>10 DEF Cancellation, Cancel, CancelHandled, CancelFails, Cancelled
  <2>. QED
    BY <2>2, <2>3, <2>4
<1>11. ASSUME NEW j \in Jobs, Server(j) PROVE Goal
  BY <1>11 DEF Server, Begins, Executes, Ends, CancelledElsewhere
<1>12. Goal
  BY <1>3, <1>4, <1>5, <1>6, <1>7, <1>8, <1>9, <1>10, <1>11 DEF Next
<1>. QED
  BY <1>2, <1>12

LEMMA TypeStep == TypeOK /\ [Next]_vars => TypeOK'
  BY TypeParts, ServerStep, CacheStep, TabStep DEF TypeByParts

(* TypeOK. *)
THEOREM TypeCorrect == Spec => []TypeOK
  BY TypeInit, TypeStep, PTL DEF Spec

-----------------------------------------------------------------------------
(* Versions: an entry holds rows the server had, and the answer under way is *)
(* no older than the entry.                                                 *)

VersionsAt(k) ==
  /\ cache[k].data # None =>
       \A j \in Of(k) : cache[k].data[j].at <= writes[j]
  /\ cache[k].fetch = "answered" =>
       /\ cache[k].answer \in Rows(k)
       /\ \A j \in Of(k) :
            /\ cache[k].answer[j].at <= writes[j]
            /\ cache[k].data # None =>
                 cache[k].data[j].at <= cache[k].answer[j].at

Versions == \A k \in Keys : VersionsAt(k)

LEMMA VersionsInit == Init => Versions
<1>. SUFFICES ASSUME Init, NEW k \in Keys PROVE VersionsAt(k)
  BY DEF Versions
<1>1. cache[k].data = None /\ cache[k].fetch # "answered"
  BY EmptyEntry, FetchingEntry DEF Init, Requested
<1>. QED
  BY <1>1 DEF VersionsAt

(* What is in an entry, as numbers. *)
LEMMA EntryNumbers ==
  ASSUME TypeOK, NEW k \in Keys, NEW j \in Of(k)
  PROVE  /\ writes[j] \in Nat
         /\ cache[k].data # None => cache[k].data[j].at \in Nat
         /\ cache[k].answer \in Rows(k) => cache[k].answer[j].at \in Nat
         /\ cache[k].data # None => cache[k].data \in Rows(k)
<1>1. j \in Jobs /\ writes[j] \in 0 .. MaxWrites /\ cache[k] \in Entry(k)
  BY OfTyped, TypeParts DEF TypeByParts, ServerTyped, CacheTyped
<1>2. ASSUME NEW r \in Rows(k) PROVE r[j].at \in Nat
  BY <1>2, BoundsAssumption DEF Rows
<1>3. cache[k].data # None => cache[k].data \in Rows(k)
  BY <1>1 DEF Entry
<1>. QED
  BY <1>1, <1>2, <1>3, BoundsAssumption

LEMMA SnapshotAt ==
  ASSUME NEW k, NEW j \in Of(k) PROVE Snapshot(k)[j].at = writes[j]
  BY DEF Snapshot

LEMMA VersionsStep == TypeOK /\ Versions /\ [Next]_vars => Versions'
<1>. SUFFICES ASSUME TypeOK, Versions, [Next]_vars, NEW k \in Keys
              PROVE  VersionsAt(k)'
  BY DEF Versions
<1>. DEFINE e == cache[k] f == cache'[k]
<1>1. VersionsAt(k) /\ Moved(k)
  BY CacheStep DEF Versions
<1>2. ASSUME NEW j \in Of(k)
      PROVE  /\ writes[j] \in Nat /\ writes'[j] \in Nat
             /\ writes'[j] >= writes[j]
             /\ e.data # None => e.data[j].at \in Nat
             /\ e.answer \in Rows(k) => e.answer[j].at \in Nat
  <2>1. writes'[j] \in 0 .. MaxWrites /\ writes'[j] >= writes[j]
    BY OfTyped, ServerStep DEF ServerTyped
  <2>. QED
    BY <2>1, EntryNumbers, BoundsAssumption
<1>3. CASE SameRows(e, f)
  BY <1>1, <1>2, <1>3 DEF SameRows, VersionsAt
<1>4. CASE f.data = e.data /\ (Requested(f) \/ f.fetch = "idle")
  BY <1>1, <1>2, <1>4 DEF Requested, VersionsAt
<1>5. CASE f.data = e.data /\ f.fetch = "answered" /\ f.answer = Snapshot(k)
  <2>1. f.answer \in Rows(k)
    BY <1>5, SnapshotTyped
  <2>2. \A j \in Of(k) : f.answer[j].at = writes[j]
    BY <1>5, SnapshotAt
  <2>3. \A j \in Of(k) : f.data # None => f.data[j].at <= writes[j]
    BY <1>1, <1>5 DEF VersionsAt
  <2>4. \A j \in Of(k) : f.data # None => f.data[j].at <= writes'[j]
    BY <1>2, <1>5, <2>3
  <2>. QED
    BY <1>2, <2>1, <2>2, <2>3, <2>4 DEF VersionsAt
<1>6. CASE e.fetch = "answered" /\ f.data = e.answer /\ f.fetch = "idle"
  <2>1. \A j \in Of(k) : f.data[j].at \in Nat /\ f.data[j].at <= writes[j]
    BY <1>1, <1>2, <1>6 DEF VersionsAt
  <2>2. \A j \in Of(k) : f.data[j].at <= writes'[j]
    BY <1>2, <2>1
  <2>. QED
    BY <1>6, <2>2 DEF VersionsAt
<1>7. CASE f.data = None /\ f.fetch # "answered"
  BY <1>7 DEF VersionsAt
<1>. QED
  BY <1>1, <1>3, <1>4, <1>5, <1>6, <1>7 DEF Moved

(* NeverBack: no page goes back to an older version of a row than it has
   shown, whatever polls, retries, cancels and reloads are under way. *)
THEOREM PagesNeverBack == Spec => NeverBack
<1>. DEFINE Step == \A k \in Keys : \A j \in Of(k) :
       cache[k].data # None /\ cache'[k].data # None
         => cache'[k].data[j].at >= cache[k].data[j].at
<1>1. TypeOK /\ Versions /\ [Next]_vars => Step
  <2>. SUFFICES ASSUME TypeOK, Versions, [Next]_vars,
                       NEW k \in Keys, NEW j \in Of(k),
                       cache[k].data # None, cache'[k].data # None
                PROVE  cache'[k].data[j].at >= cache[k].data[j].at
    OBVIOUS
  <2>1. /\ VersionsAt(k) /\ Moved(k) /\ cache[k].data[j].at \in Nat
    BY CacheStep, EntryNumbers DEF Versions
  <2>2. CASE cache'[k].data = cache[k].data
    BY <2>1, <2>2
  <2>3. CASE cache[k].fetch = "answered" /\ cache'[k].data = cache[k].answer
    BY <2>1, <2>3 DEF VersionsAt
  <2>. QED
    BY <2>1, <2>2, <2>3 DEF Moved, SameRows
<1>2. TypeOK /\ Versions /\ [Next]_vars => [Step]_vars
  BY <1>1
<1>. HIDE DEF Step
<1>3. Spec => [][Step]_vars
  BY TypeInit, TypeStep, VersionsInit, VersionsStep, <1>2, PTL DEF Spec
<1>. QED
  BY <1>3, PTL DEF NeverBack, Step

-----------------------------------------------------------------------------
(* Marks: on the page of a job, what was read after its cancel was accepted. *)

MarkAt(j) ==
  page = j =>
    /\ mark <= writes[j]
    /\ cache[j].fetch = "answered" => mark <= cache[j].answer[j].at
    /\ cache[j].data # None /\ cache[j].fetch = "idle" /\ ~cache[j].failed
         => mark <= cache[j].data[j].at

Marks == \A j \in Jobs : MarkAt(j)

LEMMA MarksInit == Init => Marks
<1>. SUFFICES ASSUME Init, NEW j \in Jobs PROVE MarkAt(j)
  BY DEF Marks
<1>1. j \in Keys /\ mark = 0 /\ writes[j] = 0
  BY DEF Init, Keys
<1>2. cache[j].data = None /\ cache[j].fetch # "answered"
  BY <1>1, EmptyEntry, FetchingEntry DEF Init, Requested
<1>. QED
  BY <1>1, <1>2 DEF MarkAt

LEMMA MarksStep == TypeOK /\ Versions /\ Marks /\ [Next]_vars => Marks'
<1>. SUFFICES ASSUME TypeOK, Versions, Marks, [Next]_vars,
                     NEW j \in Jobs, page' = j
              PROVE  MarkAt(j)'
  BY DEF Marks, MarkAt
<1>. DEFINE e == cache[j] f == cache'[j]
<1>1. j \in Keys /\ j \in Of(j)
  BY DEF Keys, Of
<1>2. MarkAt(j) /\ Moved(j) /\ VersionsAt(j) /\ VersionsAt(j)'
  BY <1>1, CacheStep, VersionsStep DEF Marks, Versions
<1>3. /\ writes[j] \in Nat /\ writes'[j] \in Nat /\ writes'[j] >= writes[j]
      /\ e.answer \in Rows(j) => e.answer[j].at \in Nat
      /\ mark \in Nat
  BY <1>1, EntryNumbers, ServerStep, TypeParts, BoundsAssumption
     DEF ServerTyped, TypeByParts, TabTyped
<1>4. TypeOK'
  BY TypeStep
<1>5. /\ f.answer \in Rows(j) => f.answer[j].at \in Nat
      /\ f.data # None => f.data[j].at \in Nat
  <2>1. f \in Entry(j)
    BY <1>1, <1>4, TypeParts DEF TypeByParts, CacheTyped
  <2>2. ASSUME NEW r \in Rows(j) PROVE r[j].at \in Nat
    BY <1>1, <2>2, BoundsAssumption DEF Rows
  <2>. QED
    BY <2>1, <2>2 DEF Entry
<1>6. CASE mark' = 0
  BY <1>2, <1>3, <1>5, <1>6 DEF MarkAt, VersionsAt
<1>7. CASE page = j /\ mark' = writes[j] /\ Requested(f)
  BY <1>3, <1>7 DEF MarkAt, Requested
<1>8. CASE page = j /\ mark' = mark
  <2>1. mark' <= writes'[j] /\ mark <= writes[j]
    BY <1>2, <1>3, <1>8 DEF MarkAt
  <2>2. CASE SameRows(e, f)
    BY <1>2, <1>8, <2>1, <2>2 DEF MarkAt, SameRows
  <2>3. CASE f.data = e.data /\ Requested(f)
    BY <2>1, <2>3 DEF MarkAt, Requested
  <2>4. CASE f.data = e.data /\ f.fetch = "answered" /\ f.answer = Snapshot(j)
    <3>1. f.answer[j].at = writes[j]
      BY <1>1, <2>4, SnapshotAt
    <3>. QED
      BY <1>8, <2>1, <2>4, <3>1 DEF MarkAt
  <2>5. CASE f.data = e.data /\ f.fetch = "idle" /\ f.failed
    BY <2>1, <2>5 DEF MarkAt
  <2>6. CASE e.fetch = "answered" /\ f.data = e.answer /\ f.fetch = "idle"
    BY <1>2, <1>8, <2>1, <2>6 DEF MarkAt
  <2>7. CASE f.data = None /\ f.fetch # "answered"
    BY <2>1, <2>7 DEF MarkAt
  <2>. QED
    BY <1>2, <2>2, <2>3, <2>4, <2>5, <2>6, <2>7 DEF Moved
<1>9. \/ page' = page /\ mark' = mark
      \/ mark' = 0
      \/ page = j /\ mark' = writes[j] /\ Requested(f)
  BY PageStep
<1>. QED
  BY <1>6, <1>7, <1>8, <1>9

(* FreshAfterCancel: the page of a job that has learnt that its cancel was
   accepted does not settle on a row read before, although a poll that was
   under way may still be answered. *)
THEOREM PageFreshAfterCancel == Spec => []FreshAfterCancel
<1>1. TypeOK /\ Marks => FreshAfterCancel
  <2>. SUFFICES ASSUME TypeOK, Marks, NEW j \in Jobs, page = j,
                       cache[j].data # None, cache[j].fetch = "idle",
                       ~cache[j].failed
                PROVE  cache[j].data[j].at >= mark
    BY DEF FreshAfterCancel
  <2>1. mark <= cache[j].data[j].at /\ mark \in Nat
    BY TypeParts, BoundsAssumption DEF Marks, MarkAt, TypeByParts, TabTyped
  <2>2. cache[j].data[j].at \in Nat
    BY EntryNumbers DEF Keys, Of
  <2>. QED
    BY <2>1, <2>2
<1>. QED
  BY TypeInit, TypeStep, VersionsInit, VersionsStep, MarksInit, MarksStep, <1>1,
     PTL DEF Spec
=============================================================================
