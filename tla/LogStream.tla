----------------------------- MODULE LogStream -----------------------------
(***************************************************************************)
(* The way of one job's output lines: from the LogWriter of the worker     *)
(* that runs the job, through the batches it stores in job_logs and the    *)
(* channels of the SSE hub, through the stream handlers, to one log viewer *)
(* that reconnects with the last event id it has seen.                     *)
(*                                                                         *)
(* A line is its sequence number.  Rows are stored in order and without    *)
(* holes (a failed batch is kept and sent again with the next), so the     *)
(* table is the number of its rows and the writer's buffer is what lies    *)
(* between that number and seq.                                            *)
(***************************************************************************)
EXTENDS Integers, Sequences, FiniteSets

CONSTANTS
  Conns,       \* executions of the stream handler that can exist at a time
  None,        \* "no connection"
  MaxLines,    \* bound: lines the subprocess prints
  Threshold,   \* logFlushThreshold
  ChanCap,     \* capacity of a subscriber's channel
  WireCap,     \* events on their way to the viewer before a write blocks
  CheckEvery,  \* live events between two checks of the job's status
  MaxRetries,  \* MAX_RETRIES of the viewer
  MaxFaults,   \* bound: database statements that fail
  MaxCrashes   \* bound: crashes of the server

ASSUME ConnsAssumption == None \notin Conns
ASSUME SizesAssumption ==
  {Threshold, ChanCap, WireCap, CheckEvery} \subseteq Nat \ {0}
ASSUME BoundsAssumption ==
  {MaxLines, MaxRetries, MaxFaults, MaxCrashes} \subseteq Nat

VARIABLES
  seq,      \* LogWriter.seq: the next sequence number
  stored,   \* rows of the job in job_logs: 0 .. stored - 1
  wpc,      \* where the writer is
  status,   \* of the job row, as far as terminalStatuses tells apart
  hpc,      \* where each stream handler is
  hterm,    \* the status snapshot it took was terminal
  hafter,   \* lastID
  hnext,    \* the next history row to write
  hmax,     \* maxHistorySeq
  hcount,   \* eventCount, modulo CheckEvery
  sub,      \* the handler's channel is in Hub.subs
  ch,       \* the contents of that channel
  closed,   \* that channel is closed
  wire,     \* events written to the connection and not yet received
  vpc,      \* the viewer: "backoff" (a connect is due), "open", "banner"
  cur,      \* the connection its EventSource has open
  cursor,   \* lastEventIdRef, -1 for ""
  retries,  \* retryCountRef
  faults, crashes,   \* how much of each bound is used up
  \* History, read by properties only
  subAt,    \* seq when the handler subscribed
  got,      \* every line the viewer received, in order
  missed    \* lines the viewer's connection could not have: see Query, Append

writerVars == <<seq, stored, wpc, status>>
handlerVars == <<hterm, hafter, hnext, hmax, hcount>>
hubVars == <<sub, ch, closed, subAt>>
viewerVars == <<vpc, cur, cursor, retries, got>>
boundVars == <<faults, crashes>>
vars == <<writerVars, hpc, handlerVars, hubVars, wire, viewerVars, boundVars,
          missed>>

Init ==
  /\ seq = 0 /\ stored = 0 /\ wpc = "ready" /\ status = "active"
  /\ hpc = [h \in Conns |-> "free"]
  /\ hterm = [h \in Conns |-> FALSE]
  /\ hafter = [h \in Conns |-> 0]
  /\ hnext = [h \in Conns |-> 0]
  /\ hmax = [h \in Conns |-> -1]
  /\ hcount = [h \in Conns |-> 0]
  /\ sub = [h \in Conns |-> FALSE]
  /\ ch = [h \in Conns |-> <<>>]
  /\ closed = [h \in Conns |-> FALSE]
  /\ subAt = [h \in Conns |-> 0]
  /\ wire = [h \in Conns |-> <<>>]
  /\ vpc = "backoff" /\ cur = None /\ cursor = -1 /\ retries = 0
  /\ got = <<>>
  /\ faults = 0 /\ crashes = 0
  /\ missed = {}

Fault ==
  /\ faults < MaxFaults
  /\ faults' = faults + 1
  /\ UNCHANGED crashes

-----------------------------------------------------------------------------
(* The writer.  LogWriter.mu serialises the stdout and the stderr reader, so *)
(* one "writer" stands for both; Hub.mu lets Subscribe and unsub in only     *)
(* between two calls of Publish.                                            *)

(* Hub.Publish: a send that skips the channels that are full. *)
Publish(n) ==
  /\ ch' = [h \in Conns |-> IF sub[h] /\ Len(ch[h]) < ChanCap
                              THEN Append(ch[h], n) ELSE ch[h]]
  /\ missed' = IF cur # None /\ sub[cur] /\ Len(ch[cur]) >= ChanCap
                 THEN missed \cup {n} ELSE missed

(* A mutant: the batch is stored first and the line is published after. *)
AppendStoresFirst ==
  \/ /\ wpc = "ready" /\ seq < MaxLines
     /\ seq' = seq + 1
     /\ stored' = IF seq + 1 - stored >= Threshold THEN seq + 1 ELSE stored
     /\ wpc' = "published"
     /\ UNCHANGED <<ch, missed>>
  \/ /\ wpc = "published"
     /\ Publish(seq - 1)
     /\ wpc' = "ready"
     /\ UNCHANGED <<seq, stored>>

(* A mutant: a full channel blocks the writer. *)
AppendBlocking ==
  \/ /\ wpc = "ready" /\ seq < MaxLines
     /\ wpc' = "publishing"
     /\ UNCHANGED <<seq, stored, ch, missed>>
  \/ /\ wpc = "publishing"
     /\ \A h \in Conns : sub[h] => Len(ch[h]) < ChanCap
     /\ Publish(seq)
     /\ seq' = seq + 1
     /\ wpc' = "published"
     /\ UNCHANGED stored

(* LogWriter.Append up to the flush: the line is numbered, buffered and
   published. *)
AppendLine ==
  /\ wpc = "ready" /\ seq < MaxLines
  /\ seq' = seq + 1
  /\ Publish(seq)
  /\ wpc' = "published"
  /\ UNCHANGED stored

(* The rest of Append: flushLocked once the buffer is long enough. *)
FlushIfFull ==
  /\ wpc = "published"
  /\ stored' = IF seq - stored >= Threshold THEN seq ELSE stored
  /\ wpc' = "ready"
  /\ UNCHANGED <<seq, status>>

(* The buffer is kept for the next flush. *)
FlushFails ==
  /\ wpc = "published" /\ seq - stored >= Threshold /\ Fault
  /\ wpc' = "ready"
  /\ UNCHANGED <<seq, stored, status>>

(* Both pipes are at EOF. *)
EndOfOutput ==
  /\ wpc = "ready"
  /\ wpc' = "eof"
  /\ UNCHANGED <<seq, stored, status>>

(* A mutant: Flush is forgotten. *)
FinalFlushSkipped ==
  /\ wpc = "eof"
  /\ wpc' = "flushed"
  /\ UNCHANGED <<seq, stored, status>>

(* lw.Flush in runJob, before the row turns terminal. *)
FinalFlush ==
  /\ wpc = "eof"
  /\ stored' = seq
  /\ wpc' = "flushed"
  /\ UNCHANGED <<seq, status>>

(* Its error is only logged: the buffered lines are never stored. *)
FinalFlushFails ==
  /\ wpc = "eof" /\ seq > stored /\ Fault
  /\ wpc' = "flushed"
  /\ UNCHANGED <<seq, stored, status>>

(* finishJob. *)
FinishJob ==
  /\ wpc = "flushed"
  /\ status' = "terminal"
  /\ wpc' = "gone"
  /\ UNCHANGED <<seq, stored>>

(* Its error is only logged: the worker is done with the job, whose row stays
   as it was. *)
FinishJobFails ==
  /\ wpc = "flushed" /\ Fault
  /\ wpc' = "gone"
  /\ UNCHANGED <<seq, stored, status>>

Writer ==
  \/ AppendLine /\ UNCHANGED <<status, sub, closed, subAt, boundVars>>
  \/ /\ FlushIfFull \/ EndOfOutput \/ FinalFlush \/ FinishJob
     /\ UNCHANGED <<hubVars, boundVars, missed>>

WriterFails ==
  /\ FlushFails \/ FinalFlushFails \/ FinishJobFails
  /\ UNCHANGED <<hubVars, missed>>

-----------------------------------------------------------------------------
(* The stream handler, from Subscribe to its deferred unsub. *)

(* Hub.Subscribe: a new channel. *)
Subscribe(h) ==
  /\ hpc[h] = "found"
  /\ hpc' = [hpc EXCEPT ![h] = "subscribed"]
  /\ sub' = [sub EXCEPT ![h] = TRUE]
  /\ ch' = [ch EXCEPT ![h] = <<>>]
  /\ closed' = [closed EXCEPT ![h] = FALSE]
  /\ subAt' = [subAt EXCEPT ![h] = seq]
  /\ UNCHANGED <<handlerVars, wire, boundVars, missed>>

(* ListAfterSeq: the rows after lastID that are stored by now. What was
   published before the subscription and is not stored yet is in neither. *)
Query(h) ==
  /\ hpc[h] = "subscribed"
  /\ hpc' = [hpc EXCEPT ![h] = "history"]
  /\ hnext' = [hnext EXCEPT ![h] = hafter[h] + 1]
  /\ hmax' = [hmax EXCEPT ![h] = IF stored > hafter[h] + 1 THEN stored - 1
                                                          ELSE -1]
  /\ missed' = IF cur = h THEN missed \cup stored .. subAt[h] - 1 ELSE missed
  /\ UNCHANGED <<hterm, hafter, hcount, hubVars, wire, boundVars>>

QueryFails(h) ==
  /\ hpc[h] = "subscribed" /\ Fault
  /\ hpc' = [hpc EXCEPT ![h] = "leaving"]
  /\ UNCHANGED <<handlerVars, hubVars, wire, missed>>

(* writeSSEEvent: blocks while the connection takes no more, and goes
   nowhere once the viewer has left it. *)
WriteEvent(h, n) ==
  \/ /\ cur = h /\ Len(wire[h]) < WireCap
     /\ wire' = [wire EXCEPT ![h] = Append(@, n)]
  \/ /\ cur # h
     /\ UNCHANGED wire

WriteHistory(h) ==
  /\ hpc[h] = "history" /\ hnext[h] <= hmax[h]
  /\ WriteEvent(h, hnext[h])
  /\ hnext' = [hnext EXCEPT ![h] = @ + 1]
  /\ UNCHANGED <<hpc, hterm, hafter, hmax, hcount, hubVars, boundVars, missed>>

(* A mutant: the snapshot is not looked at. *)
HistoryDoneGoesOn(h) ==
  /\ hpc[h] = "history" /\ hnext[h] > hmax[h]
  /\ hpc' = [hpc EXCEPT ![h] = "drain"]
  /\ UNCHANGED <<handlerVars, hubVars, wire, boundVars, missed>>

(* A terminal snapshot ends the stream here. *)
HistoryDone(h) ==
  /\ hpc[h] = "history" /\ hnext[h] > hmax[h]
  /\ hpc' = [hpc EXCEPT ![h] = IF hterm[h] THEN "leaving" ELSE "drain"]
  /\ UNCHANGED <<handlerVars, hubVars, wire, boundVars, missed>>

Counted(h) == [hcount EXCEPT ![h] = (@ + 1) % CheckEvery]

(* A mutant: whatever is in the channel is taken for history. *)
DrainDiscards(h) ==
  /\ hpc[h] = "drain"
  /\ ch' = [ch EXCEPT ![h] = <<>>]
  /\ hpc' = [hpc EXCEPT ![h] = "live"]
  /\ UNCHANGED <<handlerVars, wire, sub, closed, subAt, boundVars, missed>>

(* drainLoop: what is in the channel already, without the history. *)
Drain(h) ==
  /\ hpc[h] = "drain"
  /\ \/ /\ ch[h] # <<>>
        /\ ch' = [ch EXCEPT ![h] = Tail(@)]
        /\ \/ /\ Head(ch[h]) > hmax[h]
              /\ WriteEvent(h, Head(ch[h]))
              /\ hcount' = Counted(h)
           \/ /\ Head(ch[h]) <= hmax[h]
              /\ UNCHANGED <<wire, hcount>>
        /\ UNCHANGED hpc
     \/ /\ ch[h] = <<>>
        /\ hpc' = [hpc EXCEPT ![h] = "live"]
        /\ UNCHANGED <<ch, wire, hcount>>
  /\ UNCHANGED <<hterm, hafter, hnext, hmax, sub, closed, subAt, boundVars,
                 missed>>

(* The blocking select, an event: written without a comparison. *)
Forward(h) ==
  /\ hpc[h] = "live" /\ ch[h] # <<>>
  /\ ch' = [ch EXCEPT ![h] = Tail(@)]
  /\ WriteEvent(h, Head(ch[h]))
  /\ hcount' = Counted(h)
  /\ hpc' = [hpc EXCEPT ![h] = IF Counted(h)[h] = 0 THEN "recheck" ELSE "live"]
  /\ UNCHANGED <<hterm, hafter, hnext, hmax, sub, closed, subAt, boundVars,
                 missed>>

(* Every CheckEvery events: FindByID. *)
Recheck(h) ==
  /\ hpc[h] = "recheck"
  /\ hpc' = [hpc EXCEPT ![h] = IF status = "terminal" THEN "leaving"
                                                      ELSE "live"]
  /\ UNCHANGED <<handlerVars, hubVars, wire, boundVars, missed>>

RecheckFails(h) ==
  /\ hpc[h] = "recheck" /\ Fault
  /\ hpc' = [hpc EXCEPT ![h] = "live"]
  /\ UNCHANGED <<handlerVars, hubVars, wire, missed>>

(* The blocking select, ctx.Done: the viewer has left. *)
ClientGone(h) ==
  /\ hpc[h] = "live" /\ cur # h
  /\ hpc' = [hpc EXCEPT ![h] = "leaving"]
  /\ UNCHANGED <<handlerVars, hubVars, wire, boundVars, missed>>

(* A mutant: the channel is closed before it is taken out of the hub. *)
UnsubscribeClosesFirst(h) ==
  \/ /\ hpc[h] = "leaving"
     /\ hpc' = [hpc EXCEPT ![h] = "closing"]
     /\ closed' = [closed EXCEPT ![h] = TRUE]
     /\ UNCHANGED <<handlerVars, sub, ch, subAt, wire, boundVars, missed>>
  \/ /\ hpc[h] = "closing"
     /\ hpc' = [hpc EXCEPT ![h] = "over"]
     /\ sub' = [sub EXCEPT ![h] = FALSE]
     /\ UNCHANGED <<handlerVars, ch, closed, subAt, wire, boundVars, missed>>

(* unsub: the channel leaves the hub under the lock, and is closed after. *)
Unsubscribe(h) ==
  \/ /\ hpc[h] = "leaving"
     /\ hpc' = [hpc EXCEPT ![h] = "closing"]
     /\ sub' = [sub EXCEPT ![h] = FALSE]
     /\ UNCHANGED <<handlerVars, ch, closed, subAt, wire, boundVars, missed>>
  \/ /\ hpc[h] = "closing"
     /\ hpc' = [hpc EXCEPT ![h] = "over"]
     /\ closed' = [closed EXCEPT ![h] = TRUE]
     /\ UNCHANGED <<handlerVars, sub, ch, subAt, wire, boundVars, missed>>

(* The slot of a finished handler can be used again. *)
Recycle(h) ==
  /\ hpc[h] = "over" /\ cur # h
  /\ hpc' = [hpc EXCEPT ![h] = "free"]
  /\ ch' = [ch EXCEPT ![h] = <<>>]
  /\ UNCHANGED <<handlerVars, sub, closed, subAt, wire, boundVars, missed>>

Handler(h) ==
  \/ Subscribe(h) \/ Query(h) \/ WriteHistory(h) \/ HistoryDone(h)
  \/ Drain(h) \/ Forward(h) \/ Recheck(h) \/ ClientGone(h)
  \/ Unsubscribe(h) \/ Recycle(h)

HandlerFails(h) == QueryFails(h) \/ RecheckFails(h)

-----------------------------------------------------------------------------
(* The viewer: JobLogViewer and its EventSource. *)

ServerUp == wpc # "crashed"

(* parseLastEventID: 0 when there is no cursor. *)
LastEventID == IF cursor = -1 THEN 0 ELSE cursor

(* connect, and the first lines of Stream: the status snapshot and lastID. *)
Connect(h) ==
  /\ vpc = "backoff" /\ ServerUp /\ hpc[h] = "free"
  /\ hpc' = [hpc EXCEPT ![h] = "found"]
  /\ hterm' = [hterm EXCEPT ![h] = status = "terminal"]
  /\ hafter' = [hafter EXCEPT ![h] = LastEventID]
  /\ hcount' = [hcount EXCEPT ![h] = 0]
  /\ vpc' = "open" /\ cur' = h
  /\ UNCHANGED <<writerVars, hnext, hmax, hubVars, wire, cursor, retries, got,
                 boundVars, missed>>

(* onmessage *)
Receive ==
  /\ cur # None /\ wire[cur] # <<>>
  /\ got' = Append(got, Head(wire[cur]))
  /\ cursor' = Head(wire[cur])
  /\ wire' = [wire EXCEPT ![cur] = Tail(@)]
  /\ retries' = 0
  /\ UNCHANGED <<writerVars, hpc, handlerVars, hubVars, vpc, cur, boundVars,
                 missed>>

(* A mutant: the number of attempts is not limited. *)
OnErrorUnlimited ==
  /\ cur' = None
  /\ retries' = retries + 1
  /\ vpc' = "backoff"
  /\ UNCHANGED <<cursor, got>>

(* onerror: backoff, or the banner after MAX_RETRIES attempts. *)
OnError ==
  /\ cur' = None
  /\ retries' = IF retries < MaxRetries THEN retries + 1 ELSE retries
  /\ vpc' = IF retries < MaxRetries THEN "backoff" ELSE "banner"
  /\ UNCHANGED <<cursor, got>>

(* The server has ended the response and everything was read. *)
EndOfStream ==
  /\ cur # None /\ hpc[cur] = "over" /\ wire[cur] = <<>>
  /\ OnError
  /\ UNCHANGED <<writerVars, hpc, handlerVars, hubVars, wire, boundVars, missed>>

(* The connection breaks; what was on its way is lost. *)
Disconnect ==
  /\ cur # None
  /\ OnError
  /\ wire' = [wire EXCEPT ![cur] = <<>>]
  /\ UNCHANGED <<writerVars, hpc, handlerVars, hubVars, boundVars, missed>>

ConnectFails ==
  /\ vpc = "backoff" /\ ~ServerUp
  /\ OnError
  /\ UNCHANGED <<writerVars, hpc, handlerVars, hubVars, wire, boundVars, missed>>

(* handleRetry *)
Retry ==
  /\ vpc = "banner"
  /\ vpc' = "backoff" /\ retries' = 0
  /\ UNCHANGED <<writerVars, hpc, handlerVars, hubVars, wire, cur, cursor, got,
                 boundVars, missed>>

Viewer == \/ \E h \in Conns : Connect(h)
          \/ Receive \/ EndOfStream \/ Disconnect \/ ConnectFails \/ Retry

-----------------------------------------------------------------------------
(* The server dies, while the job runs or after it: buffer, hub and handlers
   are gone. *)
Crash ==
  /\ wpc # "crashed" /\ crashes < MaxCrashes
  /\ crashes' = crashes + 1
  /\ wpc' = "crashed"
  /\ hpc' = [h \in Conns |-> "free"]
  /\ sub' = [h \in Conns |-> FALSE]
  /\ ch' = [h \in Conns |-> <<>>]
  /\ wire' = [h \in Conns |-> <<>>]
  /\ IF cur = None THEN UNCHANGED viewerVars ELSE OnError
  /\ UNCHANGED <<seq, stored, status, handlerVars, closed, subAt, faults,
                 missed>>

(* Recover marks a row that is still running failed before the server listens
   again. *)
Restart ==
  /\ wpc = "crashed"
  /\ wpc' = "gone" /\ status' = "terminal"
  /\ UNCHANGED <<seq, stored, hpc, handlerVars, hubVars, wire, viewerVars,
                 boundVars, missed>>

(* Recover only logs that it could not. *)
RestartFails ==
  /\ wpc = "crashed" /\ status = "active" /\ Fault
  /\ wpc' = "gone"
  /\ UNCHANGED <<seq, stored, status, hpc, handlerVars, hubVars, wire,
                 viewerVars, missed>>

Next ==
  \/ (Writer \/ WriterFails) /\ UNCHANGED <<hpc, handlerVars, wire, viewerVars>>
  \/ \E h \in Conns :
       (Handler(h) \/ HandlerFails(h)) /\ UNCHANGED <<writerVars, viewerVars>>
  \/ Viewer
  \/ Crash
  \/ Restart \/ RestartFails

Spec == Init /\ [][Next]_vars

WriterStep == Writer /\ UNCHANGED <<hpc, handlerVars, wire, viewerVars>>
HandlerStep(h) == Handler(h) /\ UNCHANGED <<writerVars, viewerVars>>

(* The worker goes on whatever handlers and viewers do; the output ends
   (MaxLines stands for the JobTimeoutMin that ends the process); the process
   manager restarts a crashed server. *)
WriterFairness == WF_vars(WriterStep) /\ WF_vars(Restart)

(* The goroutine of a handler that can run does run, and a viewer reads what
   arrives. It need not ever leave. *)
StreamFairness ==
  /\ \A h \in Conns : WF_vars(HandlerStep(h))
  /\ WF_vars(Receive)
  /\ WF_vars(EndOfStream)

WriterSpec == Spec /\ WriterFairness
FairSpec == Spec /\ WriterFairness /\ StreamFairness

-----------------------------------------------------------------------------
(* Properties *)

Lines == 0 .. MaxLines - 1

TypeOK ==
  /\ seq \in 0 .. MaxLines /\ stored \in 0 .. seq
  /\ wpc \in {"ready", "published", "eof", "flushed", "gone", "crashed"}
  /\ status \in {"active", "terminal"}
  /\ hpc \in [Conns -> {"free", "found", "subscribed", "history", "drain",
                        "live", "recheck", "leaving", "closing", "over"}]
  /\ hterm \in [Conns -> BOOLEAN]
  /\ hafter \in [Conns -> Nat]
  /\ hnext \in [Conns -> Nat]
  /\ hmax \in [Conns -> {-1} \cup Lines]
  /\ hcount \in [Conns -> 0 .. CheckEvery - 1]
  /\ sub \in [Conns -> BOOLEAN]
  /\ ch \in [Conns -> Seq(Lines)] /\ \A h \in Conns : Len(ch[h]) <= ChanCap
  /\ closed \in [Conns -> BOOLEAN]
  /\ subAt \in [Conns -> 0 .. MaxLines]
  /\ wire \in [Conns -> Seq(Lines)] /\ \A h \in Conns : Len(wire[h]) <= WireCap
  /\ vpc \in {"backoff", "open", "banner"}
  /\ cur \in Conns \cup {None} /\ (vpc = "open" <=> cur # None)
  /\ cursor \in {-1} \cup Lines
  /\ retries \in 0 .. MaxRetries
  /\ got \in Seq(Lines)
  /\ faults \in Nat /\ crashes \in Nat
  /\ missed \subseteq Lines

(* The viewer never sees a line twice nor an older line after a newer one,
   over any number of reconnections, although the blocking loop forwards
   without comparing: Publish comes before the row is stored, and Subscribe
   before the history is read. *)
InOrder == \A i, k \in 1 .. Len(got) : i < k => got[i] < got[k]

(* Below the last line it received, the viewer lacks only line 0 (which a
   cursor of 0 says it has, although the comment on parseLastEventID promises
   "send all") and lines that no code could still give its connection: published before it
   subscribed and not stored when the history was read, or dropped because
   its channel was full. Early ends of a stream and lost connections cost
   nothing, since the cursor asks again for what they cut off. *)
OnlyKnownGaps ==
  \A n \in 1 .. cursor : n \in missed \/ \E i \in 1 .. Len(got) : got[i] = n

(* The hub never sends on a closed channel, which would panic the server. *)
NoSendOnClosed == \A h \in Conns : sub[h] => ~closed[h]

(* A handler whose snapshot was terminal ends only when it has written every
   line of the job after its cursor: runJob flushes before it turns the row
   terminal. It holds while no flush fails and the server does not crash. *)
TerminalReplayComplete ==
  faults = 0 /\ crashes = 0 =>
    \A h \in Conns : hpc[h] = "leaving" /\ hterm[h] => hnext[h] >= seq

(* The worker is never held up by streams: with no assumption that handlers
   or viewers make progress, it comes to its end. (The row need not turn
   terminal: the statement that writes it can fail.) *)
NeverBlocked == <>(wpc = "gone")

(* A handler that found the job terminal ends its stream, if handlers and the
   viewer make progress. *)
TerminalStreamEnds ==
  StreamFairness =>
    \A h \in Conns : hpc[h] = "found" /\ hterm[h] ~> hpc[h] \in {"over", "free"}
=============================================================================
