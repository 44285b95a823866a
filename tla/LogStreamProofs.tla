--------------------------- MODULE LogStreamProofs ---------------------------
(***************************************************************************)
(* Proofs about LogStream: the order of the lines at the viewer, the lines *)
(* it lacks, the replay of a job that has ended and the life of the hub's  *)
(* channels, for any number of handlers and lines and for every capacity.  *)
(***************************************************************************)
EXTENDS LogStream, SequenceTheorems, TLAPS

-----------------------------------------------------------------------------
(* Sequences of line numbers *)

Items(s) == {s[i] : i \in 1 .. Len(s)}

Rising(s) == \A i, k \in 1 .. Len(s) : i < k => s[i] < s[k]

LEMMA EmptySequence == Items(<<>>) = {} /\ Rising(<<>>)
  BY DEF Items, Rising

LEMMA ItemsTyped == ASSUME NEW s \in Seq(Int) PROVE Items(s) \subseteq Int
  BY LenProperties DEF Items

LEMMA AppendedItems ==
  ASSUME NEW s \in Seq(Int), NEW e \in Int
  PROVE  Items(Append(s, e)) = Items(s) \cup {e}
<1>. DEFINE t == Append(s, e)
<1>1. /\ Len(t) = Len(s) + 1 /\ Len(s) \in Nat
      /\ \A i \in 1 .. Len(s) : t[i] = s[i]
      /\ t[Len(s) + 1] = e
  BY AppendProperties, LenProperties
<1>. HIDE DEF t
<1>2. \A i \in 1 .. Len(t) : i \in 1 .. Len(s) \/ i = Len(s) + 1
  BY <1>1
<1>3. \A i \in 1 .. Len(s) : i \in 1 .. Len(t)
  BY <1>1
<1>4. Len(s) + 1 \in 1 .. Len(t)
  BY <1>1
<1>. QED
  BY <1>1, <1>2, <1>3, <1>4 DEF Items, t

LEMMA TailItems ==
  ASSUME NEW s \in Seq(Int), s # <<>>
  PROVE  Items(s) = {Head(s)} \cup Items(Tail(s))
<1>. DEFINE t == Tail(s)
<1>1. /\ Len(s) \in Nat /\ Len(s) > 0 /\ Len(t) = Len(s) - 1
      /\ \A i \in 1 .. Len(t) : t[i] = s[i + 1]
  BY HeadTailProperties, LenProperties, EmptySeq
<1>2. Head(s) = s[1]
  OBVIOUS
<1>. HIDE DEF t
<1>3. \A i \in 1 .. Len(s) : i = 1 \/ (i - 1 \in 1 .. Len(t) /\ s[i] = t[i - 1])
  BY <1>1
<1>4. \A i \in 1 .. Len(t) : i + 1 \in 1 .. Len(s) /\ t[i] = s[i + 1]
  BY <1>1
<1>5. 1 \in 1 .. Len(s)
  BY <1>1
<1>6. ASSUME NEW x \in Items(s) PROVE x \in {Head(s)} \cup Items(t)
  BY <1>2, <1>3 DEF Items
<1>7. ASSUME NEW x \in {Head(s)} \cup Items(t) PROVE x \in Items(s)
  BY <1>2, <1>4, <1>5 DEF Items
<1>. QED
  BY <1>6, <1>7 DEF t

LEMMA RisingAppend ==
  ASSUME NEW s \in Seq(Int), NEW e \in Int, Rising(s),
         \A n \in Items(s) : n < e
  PROVE  Rising(Append(s, e))
<1>. DEFINE t == Append(s, e)
<1>1. /\ Len(t) = Len(s) + 1 /\ Len(s) \in Nat
      /\ \A i \in 1 .. Len(s) : t[i] = s[i]
      /\ t[Len(s) + 1] = e
  BY AppendProperties, LenProperties
<1>. HIDE DEF t
<1>2. \A i \in 1 .. Len(s) : t[i] < e
  BY <1>1 DEF Items
<1>3. ASSUME NEW i \in 1 .. Len(t), NEW k \in 1 .. Len(t), i < k
      PROVE  t[i] < t[k]
  <2>1. i \in 1 .. Len(s)
    BY <1>1, <1>3
  <2>2. CASE k = Len(s) + 1
    BY <1>1, <1>2, <2>1, <2>2
  <2>3. CASE k # Len(s) + 1
    <3>1. k \in 1 .. Len(s)
      BY <1>1, <2>3
    <3>. QED
      BY <1>1, <1>3, <2>1, <3>1 DEF Rising
  <2>. QED
    BY <2>2, <2>3
<1>. QED
  BY <1>3 DEF Rising, t

LEMMA RisingTail ==
  ASSUME NEW s \in Seq(Int), s # <<>>, Rising(s)
  PROVE  Rising(Tail(s)) /\ \A n \in Items(Tail(s)) : Head(s) < n
<1>. DEFINE t == Tail(s)
<1>1. /\ Len(s) \in Nat /\ Len(s) > 0 /\ Len(t) = Len(s) - 1
      /\ \A i \in 1 .. Len(t) : t[i] = s[i + 1]
  BY HeadTailProperties, LenProperties, EmptySeq
<1>2. Head(s) = s[1]
  OBVIOUS
<1>. HIDE DEF t
<1>3. \A i \in 1 .. Len(t) :
        i + 1 \in 1 .. Len(s) /\ t[i] = s[i + 1] /\ 1 < i + 1
  BY <1>1
<1>4. 1 \in 1 .. Len(s)
  BY <1>1
<1>5. \A n \in Items(t) : Head(s) < n
  BY <1>2, <1>3, <1>4 DEF Items, Rising
<1>6. Rising(t)
  BY <1>3 DEF Rising
<1>. QED
  BY <1>5, <1>6 DEF t

-----------------------------------------------------------------------------
(* Types *)

LEMMA LinesTyped == MaxLines \in Nat /\ Lines \subseteq Int
  BY BoundsAssumption DEF Lines

WriterTyped ==
  /\ seq \in 0 .. MaxLines /\ stored \in 0 .. seq
  /\ wpc \in {"ready", "published", "eof", "flushed", "gone", "crashed"}
  /\ status \in {"active", "terminal"}

HandlersTyped ==
  /\ hpc \in [Conns -> {"free", "found", "subscribed", "history", "drain",
                        "live", "recheck", "leaving", "closing", "over"}]
  /\ hterm \in [Conns -> BOOLEAN]
  /\ hafter \in [Conns -> Nat]
  /\ hnext \in [Conns -> Nat]
  /\ hmax \in [Conns -> {-1} \cup Lines]
  /\ hcount \in [Conns -> 0 .. CheckEvery - 1]

HubTyped ==
  /\ sub \in [Conns -> BOOLEAN]
  /\ closed \in [Conns -> BOOLEAN]
  /\ subAt \in [Conns -> 0 .. MaxLines]

ChannelsTyped ==
  ch \in [Conns -> Seq(Lines)] /\ \A h \in Conns : Len(ch[h]) <= ChanCap

WiresTyped ==
  wire \in [Conns -> Seq(Lines)] /\ \A h \in Conns : Len(wire[h]) <= WireCap

ViewerTyped ==
  /\ vpc \in {"backoff", "open", "banner"}
  /\ cur \in Conns \cup {None} /\ (vpc = "open" <=> cur # None)
  /\ cursor \in {-1} \cup Lines
  /\ retries \in 0 .. MaxRetries

RestTyped ==
  got \in Seq(Lines) /\ faults \in Nat /\ crashes \in Nat /\ missed \subseteq Lines

TypeByParts ==
  /\ WriterTyped /\ HandlersTyped /\ HubTyped /\ ChannelsTyped
  /\ WiresTyped /\ ViewerTyped /\ RestTyped

LEMMA TypeParts == (TypeOK <=> TypeByParts) /\ (TypeOK' <=> TypeByParts')
  BY DEF TypeOK, TypeByParts, WriterTyped, HandlersTyped, HubTyped,
         ChannelsTyped, WiresTyped, ViewerTyped, RestTyped

LEMMA TypeInit == Init => TypeOK
<1>. SUFFICES ASSUME Init PROVE TypeOK
  OBVIOUS
<1>1. \A S : <<>> \in Seq(S)
  OBVIOUS
<1>. QED
  BY <1>1, ConnsAssumption, SizesAssumption, BoundsAssumption
     DEF Init, TypeOK, Lines

(* A part none of whose variables changes. *)
LEMMA TypeFrames ==
  /\ WriterTyped /\ UNCHANGED writerVars => WriterTyped'
  /\ HandlersTyped /\ UNCHANGED <<hpc, handlerVars>> => HandlersTyped'
  /\ HubTyped /\ UNCHANGED <<sub, closed, subAt>> => HubTyped'
  /\ ChannelsTyped /\ UNCHANGED ch => ChannelsTyped'
  /\ WiresTyped /\ UNCHANGED wire => WiresTyped'
  /\ ViewerTyped /\ UNCHANGED <<vpc, cur, cursor, retries>> => ViewerTyped'
  /\ RestTyped /\ UNCHANGED <<got, boundVars, missed>> => RestTyped'
<1>1. WriterTyped /\ UNCHANGED writerVars => WriterTyped'
  BY DEF WriterTyped, writerVars
<1>2. HandlersTyped /\ UNCHANGED <<hpc, handlerVars>> => HandlersTyped'
  BY DEF HandlersTyped, handlerVars
<1>3. HubTyped /\ UNCHANGED <<sub, closed, subAt>> => HubTyped'
  BY DEF HubTyped
<1>4. ChannelsTyped /\ UNCHANGED ch => ChannelsTyped'
  BY DEF ChannelsTyped
<1>5. WiresTyped /\ UNCHANGED wire => WiresTyped'
  BY DEF WiresTyped
<1>6. ViewerTyped /\ UNCHANGED <<vpc, cur, cursor, retries>> => ViewerTyped'
  BY DEF ViewerTyped
<1>7. RestTyped /\ UNCHANGED <<got, boundVars, missed>> => RestTyped'
  BY DEF RestTyped, boundVars
<1>. QED
  BY <1>1, <1>2, <1>3, <1>4, <1>5, <1>6, <1>7

LEMMA ModTyped ==
  ASSUME NEW a \in Nat, NEW b \in Nat \ {0} PROVE a % b \in 0 .. b - 1
  OBVIOUS

LEMMA WriteTyped ==
  ASSUME WiresTyped, NEW h \in Conns, NEW n \in Lines, WriteEvent(h, n)
  PROVE  WiresTyped'
<1>1. CASE cur = h /\ Len(wire[h]) < WireCap
  <2>1. wire' = [wire EXCEPT ![h] = Append(wire[h], n)]
    BY <1>1 DEF WriteEvent
  <2>2. Append(wire[h], n) \in Seq(Lines) /\ Len(wire[h]) \in Nat
        /\ Len(Append(wire[h], n)) = Len(wire[h]) + 1
    BY AppendProperties, LenProperties DEF WiresTyped
  <2>. QED
    BY <1>1, <2>1, <2>2, SizesAssumption DEF WiresTyped
<1>. QED
  BY <1>1 DEF WriteEvent, WiresTyped

(* The head of a channel is taken out of it. *)
LEMMA TakeTyped ==
  ASSUME ChannelsTyped, NEW h \in Conns, ch[h] # <<>>,
         ch' = [ch EXCEPT ![h] = Tail(@)]
  PROVE  ChannelsTyped' /\ Head(ch[h]) \in Lines
<1>1. ch[h] \in Seq(Lines)
  BY DEF ChannelsTyped
<1>2. Head(ch[h]) \in Lines /\ Tail(ch[h]) \in Seq(Lines)
      /\ Len(Tail(ch[h])) = Len(ch[h]) - 1 /\ Len(ch[h]) \in Nat
  BY <1>1, HeadTailProperties, LenProperties
<1>. QED
  BY <1>1, <1>2, SizesAssumption DEF ChannelsTyped

LEMMA CountTyped ==
  ASSUME HandlersTyped, NEW h \in Conns
  PROVE  Counted(h) \in [Conns -> 0 .. CheckEvery - 1]
<1>1. hcount[h] + 1 \in Nat /\ CheckEvery \in Nat \ {0}
  BY SizesAssumption DEF HandlersTyped
<1>2. (hcount[h] + 1) % CheckEvery \in 0 .. CheckEvery - 1
  BY <1>1, ModTyped
<1>. QED
  BY <1>2 DEF Counted, HandlersTyped

LEMMA WriterTypeStep ==
  ASSUME TypeOK, Writer \/ WriterFails,
         UNCHANGED <<hpc, handlerVars, wire, viewerVars>>
  PROVE  TypeOK'
<1>. USE TypeParts, TypeFrames DEF TypeByParts
<1>1. CASE AppendLine /\ UNCHANGED <<status, sub, closed, subAt, boundVars>>
  <2>1. seq \in Lines
    BY <1>1, BoundsAssumption DEF AppendLine, Lines, TypeOK
  <2>2. missed' \subseteq missed \cup {seq}
    BY <1>1 DEF AppendLine, Publish
  <2>3. ch' \in [Conns -> Seq(Lines)]
    BY <1>1, <2>1 DEF AppendLine, Publish, ChannelsTyped
  <2>4. \A h \in Conns : Len(ch'[h]) <= ChanCap
    BY <1>1, <2>1, SizesAssumption, LenProperties, AppendProperties
       DEF AppendLine, Publish, ChannelsTyped
  <2>5. WriterTyped'
    BY <1>1, BoundsAssumption DEF AppendLine, WriterTyped
  <2>6. RestTyped'
    BY <1>1, <2>1, <2>2 DEF RestTyped, boundVars, viewerVars
  <2>. QED
    BY <1>1, <2>3, <2>4, <2>5, <2>6
       DEF ChannelsTyped, viewerVars
<1>2. CASE /\ FlushIfFull \/ EndOfOutput \/ FinalFlush \/ FinishJob
                \/ FlushFails \/ FinalFlushFails \/ FinishJobFails
           /\ UNCHANGED <<hubVars, missed>>
           /\ boundVars' = boundVars \/ Fault
  <2>1. WriterTyped'
    BY <1>2
       DEF FlushIfFull, EndOfOutput, FinalFlush, FinishJob, FlushFails,
           FinalFlushFails, FinishJobFails, WriterTyped
  <2>2. RestTyped'
    BY <1>2 DEF RestTyped, boundVars, viewerVars, Fault
  <2>. QED
    BY <1>2, <2>1, <2>2 DEF viewerVars, hubVars
<1>. QED
  BY <1>1, <1>2 DEF Writer, WriterFails, FlushFails, FinalFlushFails,
                    FinishJobFails

LEMMA HandlerTypeStep ==
  ASSUME TypeOK, NEW h \in Conns, Handler(h) \/ HandlerFails(h),
         UNCHANGED <<writerVars, viewerVars>>
  PROVE  TypeOK'
<1>. USE TypeParts, TypeFrames DEF TypeByParts
<1>1. WriterTyped' /\ ViewerTyped' /\ got' = got
  BY DEF viewerVars
<1>2. CASE Subscribe(h)
  <2>1. HandlersTyped'
    BY <1>2 DEF Subscribe, HandlersTyped, handlerVars
  <2>2. HubTyped'
    BY <1>2 DEF Subscribe, HubTyped, WriterTyped
  <2>3. ChannelsTyped'
    BY <1>2, EmptySeq, SizesAssumption DEF Subscribe, ChannelsTyped
  <2>4. WiresTyped' /\ RestTyped'
    BY <1>1, <1>2 DEF Subscribe
  <2>. QED
    BY <1>1, <2>1, <2>2, <2>3, <2>4
<1>3. CASE Query(h)
  <2>1. stored \in 0 .. MaxLines /\ subAt[h] \in 0 .. MaxLines
    BY BoundsAssumption DEF WriterTyped, HubTyped
  <2>2. stored > hafter[h] + 1 => stored - 1 \in Lines
    BY <2>1, BoundsAssumption DEF HandlersTyped, Lines
  <2>3. HandlersTyped'
    BY <1>3, <2>2 DEF Query, HandlersTyped
  <2>4. stored .. subAt[h] - 1 \subseteq Lines
    BY <2>1, BoundsAssumption DEF Lines
  <2>5. RestTyped'
    BY <1>1, <1>3, <2>4 DEF Query, RestTyped, boundVars
  <2>6. HubTyped' /\ ChannelsTyped' /\ WiresTyped'
    BY <1>3 DEF Query, hubVars
  <2>. QED
    BY <1>1, <2>3, <2>5, <2>6
<1>4. CASE WriteHistory(h)
  <2>1. hnext[h] \in Lines
    BY <1>4, BoundsAssumption DEF WriteHistory, HandlersTyped, Lines
  <2>2. WiresTyped'
    BY <1>4, <2>1, WriteTyped DEF WriteHistory
  <2>3. HandlersTyped'
    BY <1>4 DEF WriteHistory, HandlersTyped
  <2>4. HubTyped' /\ ChannelsTyped' /\ RestTyped'
    BY <1>1, <1>4 DEF WriteHistory, hubVars
  <2>. QED
    BY <1>1, <2>2, <2>3, <2>4
<1>5. CASE \/ HistoryDone(h) \/ Recheck(h) \/ ClientGone(h)
           \/ QueryFails(h) \/ RecheckFails(h)
  <2>1. HandlersTyped'
    BY <1>5 DEF HistoryDone, Recheck, ClientGone, QueryFails, RecheckFails,
                HandlersTyped, handlerVars
  <2>2. RestTyped'
    BY <1>1, <1>5 DEF HistoryDone, Recheck, ClientGone, QueryFails,
                RecheckFails, RestTyped, boundVars, Fault
  <2>3. HubTyped' /\ ChannelsTyped' /\ WiresTyped'
    BY <1>5 DEF HistoryDone, Recheck, ClientGone, QueryFails, RecheckFails,
                hubVars
  <2>. QED
    BY <1>1, <2>1, <2>2, <2>3
<1>6. CASE Drain(h)
  <2>1. UNCHANGED <<hterm, hafter, hnext, hmax, sub, closed, subAt, boundVars,
                    missed>>
    BY <1>6 DEF Drain
  <2>2. \/ /\ ch[h] # <<>> /\ ch' = [ch EXCEPT ![h] = Tail(@)]
           /\ WriteEvent(h, Head(ch[h])) /\ hcount' = Counted(h)
           /\ hpc' = hpc
        \/ /\ ch[h] # <<>> /\ ch' = [ch EXCEPT ![h] = Tail(@)]
           /\ UNCHANGED <<wire, hcount, hpc>>
        \/ /\ hpc' = [hpc EXCEPT ![h] = "live"]
           /\ UNCHANGED <<ch, wire, hcount>>
    BY <1>6 DEF Drain
  <2>3. ChannelsTyped' /\ WiresTyped'
    BY <2>2, TakeTyped, WriteTyped
  <2>4. HandlersTyped'
    BY <2>1, <2>2, CountTyped DEF HandlersTyped
  <2>. QED
    BY <1>1, <2>1, <2>3, <2>4
<1>7. CASE Forward(h)
  <2>1. /\ ch[h] # <<>> /\ ch' = [ch EXCEPT ![h] = Tail(@)]
        /\ WriteEvent(h, Head(ch[h])) /\ hcount' = Counted(h)
        /\ \/ hpc' = [hpc EXCEPT ![h] = "recheck"]
           \/ hpc' = [hpc EXCEPT ![h] = "live"]
        /\ UNCHANGED <<hterm, hafter, hnext, hmax, sub, closed, subAt,
                       boundVars, missed>>
    BY <1>7 DEF Forward
  <2>2. ChannelsTyped' /\ WiresTyped'
    BY <2>1, TakeTyped, WriteTyped
  <2>3. HandlersTyped'
    BY <2>1, CountTyped DEF HandlersTyped
  <2>. QED
    BY <1>1, <2>1, <2>2, <2>3
<1>8. CASE Unsubscribe(h)
  <2>1. HandlersTyped'
    BY <1>8 DEF Unsubscribe, HandlersTyped, handlerVars
  <2>2. HubTyped'
    BY <1>8 DEF Unsubscribe, HubTyped
  <2>3. ChannelsTyped' /\ WiresTyped' /\ RestTyped'
    BY <1>1, <1>8 DEF Unsubscribe
  <2>. QED
    BY <1>1, <2>1, <2>2, <2>3
<1>9. CASE Recycle(h)
  <2>1. HandlersTyped'
    BY <1>9 DEF Recycle, HandlersTyped, handlerVars
  <2>2. ChannelsTyped'
    BY <1>9, EmptySeq, SizesAssumption DEF Recycle, ChannelsTyped
  <2>3. HubTyped' /\ WiresTyped' /\ RestTyped'
    BY <1>1, <1>9 DEF Recycle
  <2>. QED
    BY <1>1, <2>1, <2>2, <2>3
<1>. QED
  BY <1>2, <1>3, <1>4, <1>5, <1>6, <1>7, <1>8, <1>9 DEF Handler, HandlerFails

LEMMA ViewerTypeStep == ASSUME TypeOK, Viewer PROVE TypeOK'
<1>. USE TypeParts, TypeFrames DEF TypeByParts
<1>1. ASSUME NEW h \in Conns, Connect(h) PROVE TypeOK'
  <2>1. LastEventID \in Nat
    BY DEF LastEventID, Lines, ViewerTyped
  <2>2. hterm' \in [Conns -> BOOLEAN]
    BY <1>1 DEF Connect, HandlersTyped
  <2>3. HandlersTyped'
    BY <1>1, <2>1, <2>2, SizesAssumption DEF Connect, HandlersTyped
  <2>4. ViewerTyped'
    BY <1>1, ConnsAssumption DEF Connect, ViewerTyped
  <2>. QED
    BY <1>1, <2>3, <2>4 DEF Connect, hubVars
<1>2. CASE Receive
  <2>1. cur \in Conns /\ wire[cur] \in Seq(Lines) /\ wire[cur] # <<>>
    BY <1>2 DEF Receive, ViewerTyped, WiresTyped
  <2>2. /\ Head(wire[cur]) \in Lines /\ Tail(wire[cur]) \in Seq(Lines)
        /\ Len(Tail(wire[cur])) = Len(wire[cur]) - 1
        /\ Len(wire[cur]) \in Nat
    BY <2>1, HeadTailProperties, LenProperties
  <2>3. WiresTyped'
    <3>1. wire' = [wire EXCEPT ![cur] = Tail(wire[cur])]
      BY <1>2 DEF Receive
    <3>2. wire' \in [Conns -> Seq(Lines)]
      BY <2>2, <3>1 DEF WiresTyped
    <3>3. ASSUME NEW h \in Conns PROVE Len(wire'[h]) <= WireCap
      <4>1. Len(wire[cur]) <= WireCap /\ WireCap \in Nat
        BY <2>1, SizesAssumption DEF WiresTyped
      <4>2. CASE h = cur
        <5>1. wire'[h] = Tail(wire[cur])
          BY <2>1, <3>1, <4>2 DEF WiresTyped
        <5>. QED
          BY <2>2, <4>1, <5>1
      <4>3. CASE h # cur
        BY <3>1, <4>3 DEF WiresTyped
      <4>. QED
        BY <4>2, <4>3
    <3>. QED
      BY <3>2, <3>3 DEF WiresTyped
  <2>4. ViewerTyped'
    BY <1>2, <2>2, BoundsAssumption DEF Receive, ViewerTyped
  <2>5. RestTyped'
    BY <1>2, <2>2, AppendProperties DEF Receive, RestTyped, boundVars
  <2>. QED
    BY <1>2, <2>3, <2>4, <2>5 DEF Receive, hubVars
<1>3. CASE EndOfStream \/ Disconnect \/ ConnectFails \/ Retry
  <2>1. ViewerTyped' /\ got' = got
    BY <1>3, BoundsAssumption
       DEF EndOfStream, Disconnect, ConnectFails, Retry, OnError, ViewerTyped
  <2>2. UNCHANGED <<writerVars, hpc, handlerVars, hubVars, boundVars, missed>>
    BY <1>3 DEF EndOfStream, Disconnect, ConnectFails, Retry
  <2>3. CASE wire' = wire
    BY <2>1, <2>2, <2>3 DEF hubVars
  <2>4. CASE Disconnect
    <3>1. cur \in Conns /\ wire' = [wire EXCEPT ![cur] = <<>>]
      BY <2>4 DEF Disconnect, ViewerTyped
    <3>2. WiresTyped'
      BY <3>1, EmptySeq, SizesAssumption DEF WiresTyped
    <3>. QED
      BY <2>1, <2>2, <3>2 DEF hubVars
  <2>. QED
    BY <1>3, <2>3, <2>4 DEF EndOfStream, ConnectFails, Retry
<1>. QED
  BY <1>1, <1>2, <1>3 DEF Viewer

LEMMA TypeStep == TypeOK /\ [Next]_vars => TypeOK'
<1>. SUFFICES ASSUME TypeOK, [Next]_vars PROVE TypeOK'
  OBVIOUS
<1>. USE TypeParts, TypeFrames DEF TypeByParts
<1>1. CASE Crash
  <2>1. ViewerTyped' /\ got' = got
    BY <1>1, BoundsAssumption DEF Crash, OnError, ViewerTyped, viewerVars
  <2>2. ChannelsTyped' /\ WiresTyped'
    BY <1>1, EmptySeq, SizesAssumption DEF Crash, ChannelsTyped, WiresTyped
  <2>3. WriterTyped' /\ HandlersTyped'
    BY <1>1 DEF Crash, WriterTyped, HandlersTyped, handlerVars
  <2>4. HubTyped' /\ RestTyped'
    BY <1>1, <2>1 DEF Crash, HubTyped, RestTyped
  <2>. QED
    BY <2>1, <2>2, <2>3, <2>4
<1>2. CASE Restart \/ RestartFails
  <2>1. WriterTyped'
    BY <1>2 DEF Restart, RestartFails, WriterTyped
  <2>2. RestTyped'
    BY <1>2 DEF Restart, RestartFails, RestTyped, boundVars, viewerVars, Fault
  <2>. QED
    BY <1>2, <2>1, <2>2 DEF Restart, RestartFails, viewerVars, hubVars
<1>3. CASE UNCHANGED vars
  BY <1>3 DEF vars, viewerVars, hubVars
<1>. QED
  BY <1>1, <1>2, <1>3, WriterTypeStep, HandlerTypeStep, ViewerTypeStep DEF Next

(* TypeOK. *)
THEOREM TypeCorrect == Spec => []TypeOK
  BY TypeInit, TypeStep, PTL DEF Spec

-----------------------------------------------------------------------------
(* What a step does, handler by handler *)

LEMMA Domains ==
  ASSUME TypeOK
  PROVE  /\ DOMAIN hpc = Conns /\ DOMAIN hterm = Conns /\ DOMAIN hafter = Conns
         /\ DOMAIN hnext = Conns /\ DOMAIN hmax = Conns /\ DOMAIN sub = Conns
         /\ DOMAIN closed = Conns /\ DOMAIN subAt = Conns /\ DOMAIN ch = Conns
         /\ DOMAIN wire = Conns
  BY TypeParts DEF TypeByParts, HandlersTyped, HubTyped, ChannelsTyped,
                   WiresTyped

LEMMA Numbers ==
  ASSUME TypeOK
  PROVE  /\ seq \in Nat /\ stored \in 0 .. seq /\ cursor \in Int /\ cursor >= -1
         /\ \A h \in Conns : /\ hafter[h] \in Nat /\ hnext[h] \in Nat
                             /\ hmax[h] \in Int /\ hmax[h] >= -1
                             /\ subAt[h] \in Nat
                             /\ ch[h] \in Seq(Int) /\ wire[h] \in Seq(Int)
         /\ got \in Seq(Int) /\ missed \subseteq Int
         /\ cur \in Conns \cup {None}
         /\ faults \in Nat /\ crashes \in Nat
<1>1. Seq(Lines) \subseteq Seq(Int)
  BY LinesTyped, SeqMonotonic
<1>2. seq \in Nat /\ stored \in 0 .. seq
  BY TypeParts, BoundsAssumption DEF TypeByParts, WriterTyped
<1>3. \A h \in Conns : /\ hafter[h] \in Nat /\ hnext[h] \in Nat
                       /\ hmax[h] \in Int /\ hmax[h] >= -1
  BY TypeParts DEF TypeByParts, HandlersTyped, Lines
<1>4. \A h \in Conns : /\ subAt[h] \in Nat
                       /\ ch[h] \in Seq(Int) /\ wire[h] \in Seq(Int)
  BY <1>1, TypeParts DEF TypeByParts, HubTyped, ChannelsTyped, WiresTyped
<1>5. cursor \in Int /\ cursor >= -1 /\ cur \in Conns \cup {None}
  BY TypeParts DEF TypeByParts, ViewerTyped, Lines
<1>6. got \in Seq(Int) /\ missed \subseteq Int /\ faults \in Nat /\ crashes \in Nat
  BY <1>1, LinesTyped, TypeParts DEF TypeByParts, RestTyped
<1>. QED
  BY <1>2, <1>3, <1>4, <1>5, <1>6

(* A step of one handler leaves the others alone. *)
LEMMA OtherHandlers ==
  ASSUME TypeOK, NEW h \in Conns, Handler(h) \/ HandlerFails(h),
         NEW g \in Conns, g # h
  PROVE  /\ hpc'[g] = hpc[g] /\ hterm'[g] = hterm[g] /\ hafter'[g] = hafter[g]
         /\ hnext'[g] = hnext[g] /\ hmax'[g] = hmax[g] /\ sub'[g] = sub[g]
         /\ closed'[g] = closed[g] /\ subAt'[g] = subAt[g] /\ ch'[g] = ch[g]
         /\ wire'[g] = wire[g]
<1>. USE Domains DEF handlerVars, hubVars
<1>1. CASE Subscribe(h) \/ Query(h) \/ WriteHistory(h) \/ HistoryDone(h)
  BY <1>1 DEF Subscribe, Query, WriteHistory, WriteEvent, HistoryDone
<1>2. CASE Drain(h)
  BY <1>2 DEF Drain, WriteEvent
<1>3. CASE Forward(h)
  BY <1>3 DEF Forward, WriteEvent
<1>4. CASE Recheck(h) \/ ClientGone(h) \/ QueryFails(h) \/ RecheckFails(h)
  BY <1>4 DEF Recheck, ClientGone, QueryFails, RecheckFails
<1>5. CASE Unsubscribe(h) \/ Recycle(h)
  BY <1>5 DEF Unsubscribe, Recycle
<1>. QED
  BY <1>1, <1>2, <1>3, <1>4, <1>5 DEF Handler, HandlerFails

(* An event taken out of a channel. *)
LEMMA Taken ==
  ASSUME TypeOK, NEW h \in Conns, ch[h] # <<>>, Rising(ch[h]),
         ch' = [ch EXCEPT ![h] = Tail(@)]
  PROVE  /\ Head(ch[h]) \in Int
         /\ Items(ch[h]) = {Head(ch[h])} \cup Items(ch'[h])
         /\ Rising(ch'[h])
         /\ \A n \in Items(ch'[h]) : Head(ch[h]) < n
<1>1. ch[h] \in Seq(Int) /\ ch'[h] = Tail(ch[h])
  BY Domains, Numbers
<1>. QED
  BY <1>1, TailItems, RisingTail, HeadTailProperties

(* An event written to a connection. *)
LEMMA Written ==
  ASSUME TypeOK, NEW h \in Conns, NEW n \in Int, WriteEvent(h, n),
         Rising(wire[h]), \A m \in Items(wire[h]) : m < n
  PROVE  \/ cur # h /\ wire' = wire
         \/ /\ cur = h /\ Rising(wire'[h])
            /\ Items(wire'[h]) = Items(wire[h]) \cup {n}
<1>1. CASE cur = h
  <2>1. wire'[h] = Append(wire[h], n) /\ wire[h] \in Seq(Int)
    BY <1>1, Domains, Numbers DEF WriteEvent
  <2>. QED
    BY <1>1, <2>1, AppendedItems, RisingAppend
<1>2. CASE cur # h
  BY <1>2 DEF WriteEvent
<1>. QED
  BY <1>1, <1>2

(* A line published to a channel. *)
LEMMA Published ==
  ASSUME TypeOK, Publish(seq), NEW h \in Conns, Rising(ch[h]),
         \A n \in Items(ch[h]) : n < seq
  PROVE  /\ Rising(ch'[h])
         /\ \/ /\ Items(ch'[h]) = Items(ch[h]) \cup {seq}
               /\ sub[h]
            \/ /\ ch'[h] = ch[h]
               /\ sub[h] /\ cur = h => missed' = missed \cup {seq}
<1>1. ch[h] \in Seq(Int) /\ seq \in Int
  BY Numbers
<1>2. CASE sub[h] /\ Len(ch[h]) < ChanCap
  <2>1. ch'[h] = Append(ch[h], seq)
    BY <1>2 DEF Publish
  <2>. QED
    BY <1>1, <1>2, <2>1, AppendedItems, RisingAppend
<1>3. CASE ~(sub[h] /\ Len(ch[h]) < ChanCap)
  <2>1. ch'[h] = ch[h]
    BY <1>3 DEF Publish
  <2>2. sub[h] => Len(ch[h]) >= ChanCap
    BY <1>1, <1>3, LenProperties, SizesAssumption
  <2>3. ASSUME sub[h], cur = h PROVE missed' = missed \cup {seq}
    BY <2>2, <2>3, ConnsAssumption DEF Publish
  <2>. QED
    BY <2>1, <2>3
<1>. QED
  BY <1>2, <1>3

-----------------------------------------------------------------------------
(* The hub: a handler is subscribed from Subscribe to unsub. *)

Sending == {"history", "drain", "live", "recheck"}
Attached == Sending \cup {"subscribed", "leaving"}

HubAt(h) == /\ sub[h] => hpc[h] \in Attached /\ ~closed[h]
            /\ hpc[h] \in Attached => sub[h]

HubInv == \A h \in Conns : HubAt(h)

LEMMA HubInit == Init => HubInv
  BY DEF Init, HubInv, HubAt, Attached, Sending

LEMMA HubStep == TypeOK /\ HubInv /\ [Next]_vars => HubInv'
<1>. SUFFICES ASSUME TypeOK, HubInv, [Next]_vars, NEW g \in Conns
              PROVE  HubAt(g)'
  BY DEF HubInv
<1>. USE Domains DEF HubAt, Attached, Sending, handlerVars, hubVars
<1>0. HubAt(g)
  BY DEF HubInv
<1>1. CASE UNCHANGED <<hpc, sub, closed>>
  BY <1>0, <1>1
<1>2. ASSUME NEW h \in Conns, Handler(h) \/ HandlerFails(h) PROVE HubAt(g)'
  <2>1. CASE g # h
    BY <1>0, <1>2, <2>1, OtherHandlers
  <2>2. CASE g = h
    <3>1. CASE Subscribe(h)
      BY <1>0, <2>2, <3>1 DEF Subscribe
    <3>2. CASE Query(h) \/ QueryFails(h)
      BY <1>0, <2>2, <3>2 DEF Query, QueryFails
    <3>3. CASE WriteHistory(h) \/ HistoryDone(h)
      BY <1>0, <2>2, <3>3 DEF WriteHistory, HistoryDone
    <3>4. CASE Drain(h)
      BY <1>0, <2>2, <3>4 DEF Drain
    <3>5. CASE Forward(h)
      BY <1>0, <2>2, <3>5 DEF Forward
    <3>6. CASE Recheck(h) \/ RecheckFails(h) \/ ClientGone(h)
      BY <1>0, <2>2, <3>6 DEF Recheck, RecheckFails, ClientGone
    <3>7. CASE Unsubscribe(h) \/ Recycle(h)
      BY <1>0, <2>2, <3>7 DEF Unsubscribe, Recycle
    <3>. QED
      BY <1>2, <3>1, <3>2, <3>3, <3>4, <3>5, <3>6, <3>7 DEF Handler, HandlerFails
  <2>. QED
    BY <2>1, <2>2
<1>3. ASSUME NEW h \in Conns, Connect(h) PROVE HubAt(g)'
  BY <1>0, <1>3 DEF Connect
<1>4. CASE Crash
  BY <1>4 DEF Crash
<1>5. CASE (Writer \/ WriterFails) /\ UNCHANGED hpc
  BY <1>1, <1>5 DEF Writer, WriterFails
<1>6. CASE \/ Receive \/ EndOfStream \/ Disconnect \/ ConnectFails \/ Retry
           \/ Restart \/ RestartFails \/ UNCHANGED vars
  BY <1>1, <1>6 DEF Receive, EndOfStream, Disconnect, ConnectFails, Retry,
                    Restart, RestartFails, vars
<1>. QED
  BY <1>2, <1>3, <1>4, <1>5, <1>6 DEF Next, Viewer

(* NoSendOnClosed: whatever handlers, writer and crashes do, a channel that
   the hub can send to is open. *)
THEOREM HubNeverPanics == Spec => []NoSendOnClosed
<1>1. HubInv => NoSendOnClosed
  BY DEF HubInv, HubAt, NoSendOnClosed
<1>. QED
  BY TypeInit, TypeStep, HubInit, HubStep, <1>1, PTL DEF Spec

-----------------------------------------------------------------------------
(* The channels: what is in one was published since its subscription, in
   order. *)

ChannelAt(h) ==
  /\ subAt[h] <= seq
  /\ Rising(ch[h])
  /\ \A n \in Items(ch[h]) : subAt[h] <= n /\ n < seq

ChannelInv == \A h \in Conns : ChannelAt(h)

LEMMA ChannelInit == Init => ChannelInv
<1>. SUFFICES ASSUME Init, NEW h \in Conns PROVE ChannelAt(h)
  BY DEF ChannelInv
<1>1. ch[h] = <<>> /\ subAt[h] = 0 /\ seq = 0
  BY DEF Init
<1>. QED
  BY <1>1, EmptySequence DEF ChannelAt

LEMMA ChannelStep == TypeOK /\ ChannelInv /\ [Next]_vars => ChannelInv'
<1>. SUFFICES ASSUME TypeOK, ChannelInv, [Next]_vars, NEW g \in Conns
              PROVE  ChannelAt(g)'
  BY DEF ChannelInv
<1>0. ChannelAt(g) /\ seq \in Nat /\ subAt[g] \in Nat
  BY Numbers DEF ChannelInv
<1>1. CASE seq' = seq /\ subAt'[g] = subAt[g] /\ ch'[g] = ch[g]
  BY <1>0, <1>1 DEF ChannelAt
<1>2. CASE seq' = seq /\ subAt'[g] \in {subAt[g], seq} /\ ch'[g] = <<>>
  BY <1>0, <1>2, EmptySequence DEF ChannelAt
<1>3. CASE /\ seq' = seq /\ subAt' = subAt
           /\ ch[g] # <<>> /\ ch' = [ch EXCEPT ![g] = Tail(@)]
  BY <1>0, <1>3, Taken DEF ChannelAt
<1>4. CASE AppendLine /\ subAt' = subAt
  <2>1. Publish(seq) /\ seq' = seq + 1
    BY <1>4 DEF AppendLine
  <2>2. Rising(ch'[g]) /\ Items(ch'[g]) \subseteq Items(ch[g]) \cup {seq}
    BY <1>0, <2>1, Published DEF ChannelAt
  <2>3. ASSUME NEW n \in Items(ch'[g]) PROVE subAt[g] <= n /\ n < seq + 1
    <3>1. n \in Items(ch[g]) => n \in Int
      BY Numbers, ItemsTyped
    <3>. QED
      BY <1>0, <2>2, <2>3, <3>1 DEF ChannelAt
  <2>. QED
    BY <1>0, <1>4, <2>1, <2>2, <2>3 DEF ChannelAt
<1>5. CASE (Writer \/ WriterFails) /\ ~AppendLine
  BY <1>1, <1>5 DEF Writer, WriterFails, FlushIfFull, EndOfOutput, FinalFlush,
                    FinishJob, FlushFails, FinalFlushFails, FinishJobFails, hubVars
<1>6. ASSUME NEW h \in Conns, Handler(h) \/ HandlerFails(h), seq' = seq
      PROVE  ChannelAt(g)'
  <2>1. CASE g # h
    BY <1>1, <1>6, <2>1, OtherHandlers
  <2>2. CASE g = h
    <3>. USE Domains DEF hubVars
    <3>1. CASE Subscribe(h) \/ Recycle(h)
      BY <1>2, <1>6, <2>2, <3>1 DEF Subscribe, Recycle
    <3>2. CASE \/ Query(h) \/ QueryFails(h) \/ WriteHistory(h)
               \/ HistoryDone(h) \/ Recheck(h) \/ RecheckFails(h)
               \/ ClientGone(h) \/ Unsubscribe(h)
      BY <1>1, <1>6, <2>2, <3>2 DEF Query, QueryFails, WriteHistory,
         HistoryDone, Recheck, RecheckFails, ClientGone, Unsubscribe
    <3>3. CASE Drain(h)
      BY <1>1, <1>3, <1>6, <2>2, <3>3 DEF Drain
    <3>4. CASE Forward(h)
      BY <1>3, <1>6, <2>2, <3>4 DEF Forward
    <3>. QED
      BY <1>6, <3>1, <3>2, <3>3, <3>4 DEF Handler, HandlerFails
  <2>. QED
    BY <2>1, <2>2
<1>7. CASE Crash
  BY <1>2, <1>7 DEF Crash
<1>8. ASSUME NEW h \in Conns, Connect(h) PROVE ChannelAt(g)'
  BY <1>1, <1>8 DEF Connect, hubVars, writerVars
<1>9. CASE \/ Receive \/ EndOfStream \/ Disconnect \/ ConnectFails \/ Retry
           \/ Restart \/ RestartFails \/ UNCHANGED vars
  BY <1>1, <1>9 DEF Receive, EndOfStream, Disconnect, ConnectFails, Retry,
                    Restart, RestartFails, vars, hubVars, writerVars
<1>. QED
  BY <1>4, <1>5, <1>6, <1>7, <1>8, <1>9 DEF Next, Viewer, Writer, WriterFails,
     writerVars, hubVars

-----------------------------------------------------------------------------
(* Order: what the viewer has received is behind what is on its connection, *)
(* and that is behind what its handler will write.                          *)

Received ==
  cursor < seq /\ Rising(got) /\ \A n \in Items(got) : n <= cursor

WireAt(h) ==
  /\ cur # h => wire[h] = <<>>
  /\ cur = h => hpc[h] # "free"
  /\ Rising(wire[h])
  /\ \A n \in Items(wire[h]) : cursor < n /\ n < seq

(* n comes after all that was written to the connection. *)
Past(h, n) == cursor < n /\ \A m \in Items(wire[h]) : m < n

AheadAt(h) ==
  /\ hmax[h] < seq
  /\ hpc[h] \in {"drain", "live", "recheck"} => hnext[h] > hmax[h]
  /\ hpc[h] \in {"live", "recheck"} => \A n \in Items(ch[h]) : n > hmax[h]
  /\ cur = h =>
       /\ hpc[h] \in {"found", "subscribed"} =>
            wire[h] = <<>> /\ hafter[h] = LastEventID
       /\ hpc[h] = "subscribed" => cursor < subAt[h]
       /\ hpc[h] = "history" => Past(h, hnext[h])
       /\ hpc[h] \in Sending =>
            \A n \in Items(ch[h]) : n > hmax[h] => Past(h, n)

OrderInv == Received /\ \A h \in Conns : WireAt(h) /\ AheadAt(h)

LEMMA OrderInit == Init => OrderInv
<1>. SUFFICES ASSUME Init PROVE OrderInv
  OBVIOUS
<1>1. Received
  BY EmptySequence DEF Init, Received
<1>2. ASSUME NEW h \in Conns PROVE WireAt(h)
  BY <1>2, EmptySequence, ConnsAssumption DEF Init, WireAt
<1>3. ASSUME NEW h \in Conns PROVE AheadAt(h)
  BY <1>3, ConnsAssumption DEF Init, AheadAt, Sending
<1>. QED
  BY <1>1, <1>2, <1>3 DEF OrderInv

(* Nothing that the order at h depends on changes. *)
Still(h) ==
  /\ UNCHANGED <<seq, cursor, cur>>
  /\ hpc'[h] = hpc[h] /\ hafter'[h] = hafter[h] /\ hnext'[h] = hnext[h]
  /\ hmax'[h] = hmax[h] /\ subAt'[h] = subAt[h] /\ ch'[h] = ch[h]
  /\ wire'[h] = wire[h]

LEMMA StillOrder ==
  ASSUME NEW h \in Conns, WireAt(h), AheadAt(h), Still(h)
  PROVE  WireAt(h)' /\ AheadAt(h)'
  BY DEF Still, WireAt, AheadAt, Past, LastEventID

LEMMA AppendOrder ==
  ASSUME TypeOK, ChannelInv, OrderInv, AppendLine, NEW g \in Conns,
         UNCHANGED <<subAt, hpc, handlerVars, wire, viewerVars>>
  PROVE  WireAt(g)' /\ AheadAt(g)'
<1>1. /\ WireAt(g) /\ AheadAt(g) /\ ChannelAt(g) /\ Received
      /\ seq \in Nat /\ cursor \in Int /\ hmax[g] \in Int /\ seq' = seq + 1
  BY Numbers DEF OrderInv, ChannelInv, AppendLine
<1>2. Items(ch'[g]) \subseteq Items(ch[g]) \cup {seq}
  BY <1>1, Published DEF ChannelAt, AppendLine
<1>3. Items(wire[g]) \subseteq Int
  BY Numbers, ItemsTyped
<1>4. WireAt(g)'
  BY <1>1, <1>3 DEF WireAt, viewerVars
<1>5. Past(g, seq)
  BY <1>1 DEF Past, Received, WireAt
<1>6. seq > hmax[g]
  BY <1>1 DEF AheadAt
<1>7. AheadAt(g)'
  BY <1>1, <1>2, <1>5, <1>6
     DEF AheadAt, Past, LastEventID, viewerVars, handlerVars, Sending
<1>. QED
  BY <1>4, <1>7

LEMMA WriteOrder ==
  ASSUME TypeOK, NEW h \in Conns, NEW n \in Int, WriteEvent(h, n), WireAt(h),
         cur = h => Past(h, n), n < seq, UNCHANGED <<seq, cursor, cur>>,
         hpc'[h] # "free"
  PROVE  /\ WireAt(h)'
         /\ cur = h => Items(wire'[h]) = Items(wire[h]) \cup {n}
<1>1. \A m \in Items(wire[h]) : m < n
  BY EmptySequence DEF WireAt, Past
<1>2. \/ cur # h /\ wire' = wire
      \/ /\ cur = h /\ Rising(wire'[h])
         /\ Items(wire'[h]) = Items(wire[h]) \cup {n}
  BY <1>1, Written DEF WireAt
<1>. QED
  BY <1>2 DEF WireAt, Past

LEMMA HandlerOrder ==
  ASSUME TypeOK, ChannelInv, OrderInv, NEW h \in Conns,
         Handler(h) \/ HandlerFails(h), UNCHANGED <<writerVars, viewerVars>>
  PROVE  WireAt(h)' /\ AheadAt(h)'
<1>. USE Domains DEF handlerVars, hubVars, Sending
<1>1. WireAt(h) /\ AheadAt(h) /\ ChannelAt(h) /\ Received
  BY DEF OrderInv, ChannelInv
<1>2. /\ seq \in Nat /\ stored \in 0 .. seq /\ cursor \in Int /\ cursor >= -1
      /\ hafter[h] \in Nat /\ hnext[h] \in Nat /\ hmax[h] \in Int
      /\ subAt[h] \in Nat
      /\ Items(ch[h]) \subseteq Int /\ Items(wire[h]) \subseteq Int
  BY Numbers, ItemsTyped
<1>3. UNCHANGED <<seq, cursor, cur>> /\ LastEventID' = LastEventID
  BY DEF writerVars, viewerVars, LastEventID
<1>4. CASE Subscribe(h)
  <2>1. /\ hpc[h] = "found" /\ hpc'[h] = "subscribed" /\ wire' = wire
        /\ subAt'[h] = seq /\ UNCHANGED handlerVars
    BY <1>4 DEF Subscribe
  <2>. QED
    BY <1>1, <1>3, <2>1 DEF WireAt, AheadAt, Received
<1>5. CASE Query(h)
  <2>1. /\ hpc[h] = "subscribed" /\ hpc'[h] = "history" /\ wire' = wire
        /\ hnext'[h] = hafter[h] + 1 /\ hmax'[h] < seq
        /\ ch' = ch /\ hafter' = hafter /\ subAt' = subAt
    BY <1>2, <1>5 DEF Query
  <2>2. WireAt(h)'
    BY <1>1, <1>3, <2>1 DEF WireAt
  <2>3. ASSUME cur = h
        PROVE  Past(h, hnext[h])' /\ \A n \in Items(ch[h]) : Past(h, n)'
    <3>1. wire[h] = <<>> /\ hafter[h] >= cursor /\ cursor < subAt[h]
      BY <1>1, <1>2, <2>1, <2>3 DEF AheadAt, LastEventID
    <3>2. \A n \in Items(ch[h]) : cursor < n
      BY <1>1, <1>2, <3>1 DEF ChannelAt
    <3>. QED
      BY <1>2, <1>3, <2>1, <3>1, <3>2, EmptySequence DEF Past
  <2>. QED
    BY <1>3, <2>1, <2>2, <2>3 DEF AheadAt
<1>6. CASE WriteHistory(h)
  <2>1. /\ hpc[h] = "history" /\ hpc'[h] = "history" /\ hnext[h] <= hmax[h]
        /\ WriteEvent(h, hnext[h]) /\ hnext'[h] = hnext[h] + 1
        /\ UNCHANGED <<ch, hafter, hmax, subAt>>
    BY <1>6 DEF WriteHistory
  <2>2. hnext[h] < seq /\ (cur = h => Past(h, hnext[h]))
    BY <1>1, <1>2, <2>1 DEF AheadAt
  <2>3. /\ WireAt(h)'
        /\ cur = h => Items(wire'[h]) = Items(wire[h]) \cup {hnext[h]}
    BY <1>1, <1>2, <1>3, <2>1, <2>2, WriteOrder
  <2>4. ASSUME cur = h
        PROVE  /\ Past(h, hnext[h])'
               /\ \A n \in Items(ch[h]) : n > hmax[h] => Past(h, n)'
    BY <1>1, <1>2, <1>3, <2>1, <2>2, <2>3, <2>4 DEF Past, AheadAt
  <2>. QED
    BY <1>1, <1>3, <2>1, <2>3, <2>4 DEF AheadAt
<1>7. CASE HistoryDone(h)
  <2>1. /\ hpc[h] = "history" /\ hpc'[h] \in {"leaving", "drain"}
        /\ hnext[h] > hmax[h]
        /\ UNCHANGED <<hnext, hmax, hafter, ch, subAt, wire>>
    BY <1>7 DEF HistoryDone
  <2>. QED
    BY <1>1, <1>3, <2>1 DEF WireAt, AheadAt, Past
<1>. DEFINE n0 == Head(ch[h])
<1>8. ASSUME ch[h] # <<>>, ch' = [ch EXCEPT ![h] = Tail(@)],
             hpc[h] \in {"drain", "live"}, hpc'[h] \in Sending \ {"history"},
             hpc'[h] # "drain" => hpc[h] = "live",
             UNCHANGED <<hafter, hnext, hmax, subAt>>,
             \/ n0 > hmax[h] /\ WriteEvent(h, n0)
             \/ n0 <= hmax[h] /\ wire' = wire
      PROVE  WireAt(h)' /\ AheadAt(h)'
  <2>1. /\ n0 \in Int /\ Items(ch[h]) = {n0} \cup Items(ch'[h])
        /\ \A n \in Items(ch'[h]) : n0 < n
    BY <1>1, <1>8, Taken DEF ChannelAt
  <2>2. n0 < seq /\ (cur = h /\ n0 > hmax[h] => Past(h, n0))
    BY <1>1, <1>8, <2>1 DEF ChannelAt, AheadAt
  <2>3. /\ WireAt(h)'
        /\ \/ wire' = wire
           \/ cur = h /\ Items(wire'[h]) = Items(wire[h]) \cup {n0}
           \/ cur # h
    <3>1. CASE n0 > hmax[h] /\ WriteEvent(h, n0)
      BY <1>1, <1>3, <1>8, <2>1, <2>2, <3>1, WriteOrder
    <3>2. CASE wire' = wire
      BY <1>1, <1>3, <1>8, <3>2 DEF WireAt
    <3>. QED
      BY <1>8, <3>1, <3>2
  <2>4. ASSUME cur = h, NEW n \in Items(ch'[h]), n > hmax[h]
        PROVE  Past(h, n)'
    <3>1. Past(h, n) /\ n0 < n
      BY <1>1, <1>8, <2>1, <2>4 DEF AheadAt
    <3>. QED
      BY <1>3, <2>3, <2>4, <3>1 DEF Past
  <2>5. hpc'[h] \in {"live", "recheck"} => \A n \in Items(ch'[h]) : n > hmax[h]
    BY <1>1, <1>8, <2>1 DEF AheadAt
  <2>. QED
    BY <1>1, <1>3, <1>8, <2>3, <2>4, <2>5 DEF AheadAt
<1>9. CASE Drain(h)
  <2>1. hpc[h] = "drain" /\ UNCHANGED <<hafter, hnext, hmax, subAt>>
    BY <1>9 DEF Drain
  <2>2. CASE ch[h] # <<>>
    <3>1. /\ ch' = [ch EXCEPT ![h] = Tail(@)] /\ hpc' = hpc
          /\ \/ n0 > hmax[h] /\ WriteEvent(h, n0)
             \/ n0 <= hmax[h] /\ wire' = wire
      BY <1>9, <2>2 DEF Drain
    <3>. QED
      BY <1>8, <2>1, <2>2, <3>1
  <2>3. CASE ch[h] = <<>>
    <3>1. hpc'[h] = "live" /\ UNCHANGED <<ch, wire>>
      BY <1>9, <2>3 DEF Drain
    <3>. QED
      BY <1>1, <1>3, <2>1, <2>3, <3>1, EmptySequence DEF WireAt, AheadAt
  <2>. QED
    BY <2>2, <2>3
<1>10. CASE Forward(h)
  <2>1. /\ hpc[h] = "live" /\ ch[h] # <<>> /\ ch' = [ch EXCEPT ![h] = Tail(@)]
        /\ WriteEvent(h, n0) /\ hpc'[h] \in {"recheck", "live"}
        /\ UNCHANGED <<hafter, hnext, hmax, subAt>>
    BY <1>10 DEF Forward
  <2>2. n0 > hmax[h]
    BY <1>1, <2>1, Taken DEF AheadAt, ChannelAt
  <2>. QED
    BY <1>8, <2>1, <2>2
<1>11. CASE \/ Recheck(h) \/ RecheckFails(h) \/ ClientGone(h)
            \/ QueryFails(h) \/ Unsubscribe(h)
  <2>1. /\ \/ hpc[h] = "recheck" /\ hpc'[h] = "live"
           \/ hpc[h] # "free" /\ hpc'[h] \in {"leaving", "closing", "over"}
        /\ UNCHANGED <<hafter, hnext, hmax, subAt, ch, wire>>
    BY <1>11 DEF Recheck, RecheckFails, ClientGone, QueryFails, Unsubscribe
  <2>. QED
    BY <1>1, <1>3, <2>1 DEF WireAt, AheadAt, Past
<1>12. CASE Recycle(h)
  <2>1. /\ cur # h /\ hpc'[h] = "free" /\ ch'[h] = <<>>
        /\ UNCHANGED <<hmax, wire>>
    BY <1>12 DEF Recycle
  <2>. QED
    BY <1>1, <1>3, <2>1 DEF WireAt, AheadAt
<1>. QED
  BY <1>4, <1>5, <1>6, <1>7, <1>9, <1>10, <1>11, <1>12 DEF Handler, HandlerFails

LEMMA ReceiveOrder ==
  ASSUME TypeOK, OrderInv, Receive
  PROVE  OrderInv'
<1>. DEFINE n0 == Head(wire[cur])
<1>1. /\ cur \in Conns /\ wire[cur] # <<>> /\ wire[cur] \in Seq(Int)
      /\ Received /\ WireAt(cur) /\ got \in Seq(Int) /\ seq \in Nat
      /\ cursor \in Int
  BY Numbers DEF OrderInv, Receive
<1>2. /\ wire'[cur] = Tail(wire[cur]) /\ \A h \in Conns \ {cur} : wire'[h] = wire[h]
      /\ got' = Append(got, n0) /\ cursor' = n0
      /\ UNCHANGED <<seq, cur, hpc, hafter, hnext, hmax, ch, subAt>>
  BY <1>1, Domains DEF Receive, writerVars, handlerVars, hubVars
<1>3. /\ n0 \in Int /\ Items(wire[cur]) = {n0} \cup Items(wire'[cur])
      /\ Rising(wire'[cur]) /\ \A n \in Items(wire'[cur]) : n0 < n
  BY <1>1, <1>2, HeadTailProperties, TailItems, RisingTail DEF WireAt
<1>4. cursor < n0 /\ n0 < seq
  BY <1>1, <1>3 DEF WireAt
<1>5. Received'
  <2>1. \A n \in Items(got) : n \in Int /\ n < n0
    BY <1>1, <1>3, <1>4, ItemsTyped DEF Received
  <2>2. Rising(got') /\ Items(got') = Items(got) \cup {n0}
    BY <1>1, <1>2, <1>3, <2>1, AppendedItems, RisingAppend DEF Received
  <2>. QED
    BY <1>2, <1>3, <1>4, <2>1, <2>2 DEF Received
<1>6. ASSUME NEW h \in Conns PROVE WireAt(h)' /\ AheadAt(h)'
  <2>1. WireAt(h) /\ AheadAt(h)
    BY DEF OrderInv
  <2>2. CASE h # cur
    <3>1. wire[h] = <<>> /\ wire'[h] = <<>>
      BY <1>2, <2>1, <2>2 DEF WireAt
    <3>. QED
      BY <1>2, <2>1, <2>2, <3>1, EmptySequence DEF WireAt, AheadAt
  <2>3. CASE h = cur
    <3>1. WireAt(h)'
      BY <1>2, <1>3, <2>1, <2>3 DEF WireAt
    <3>2. hpc[h] \notin {"found", "subscribed"}
      BY <1>1, <2>1, <2>3 DEF AheadAt
    <3>3. \A n : Past(h, n) => Past(h, n)'
      BY <1>2, <1>3, <2>3 DEF Past
    <3>. QED
      BY <1>2, <2>1, <3>1, <3>2, <3>3 DEF AheadAt
  <2>. QED
    BY <2>2, <2>3
<1>. QED
  BY <1>5, <1>6 DEF OrderInv

LEMMA OrderStep ==
  TypeOK /\ ChannelInv /\ OrderInv /\ [Next]_vars => OrderInv'
<1>. SUFFICES ASSUME TypeOK, ChannelInv, OrderInv, [Next]_vars PROVE OrderInv'
  OBVIOUS
<1>1. CASE Receive
  BY <1>1, ReceiveOrder
<1>2. CASE ~Receive
  <2>1. UNCHANGED <<cursor, got>> /\ seq' \in {seq, seq + 1}
    BY <1>2 DEF Next, Writer, WriterFails, AppendLine, FlushIfFull, EndOfOutput,
       FinalFlush, FinishJob, FlushFails, FinalFlushFails, FinishJobFails,
       Viewer, Connect, EndOfStream, Disconnect, ConnectFails, Retry, OnError,
       Crash, Restart, RestartFails,
       writerVars, viewerVars, vars
  <2>2. Received'
    BY <2>1, Numbers DEF OrderInv, Received
  <2>3. ASSUME NEW g \in Conns PROVE WireAt(g)' /\ AheadAt(g)'
    <3>1. WireAt(g) /\ AheadAt(g)
      BY DEF OrderInv
    <3>2. CASE Still(g)
      BY <3>1, <3>2, StillOrder
    <3>3. CASE /\ Writer \/ WriterFails
               /\ AppendLine /\ UNCHANGED <<hpc, handlerVars, wire, viewerVars>>
      BY <3>3, AppendOrder DEF Writer, WriterFails, hubVars
    <3>4. CASE /\ Writer \/ WriterFails
               /\ ~AppendLine /\ UNCHANGED <<hpc, handlerVars, wire, viewerVars>>
      BY <3>2, <3>4 DEF Still, Writer, WriterFails, FlushIfFull, EndOfOutput,
         FinalFlush, FinishJob, FlushFails, FinalFlushFails, FinishJobFails,
         hubVars,
         handlerVars, viewerVars
    <3>5. ASSUME NEW h \in Conns, Handler(h) \/ HandlerFails(h),
                 UNCHANGED <<writerVars, viewerVars>>
          PROVE  WireAt(g)' /\ AheadAt(g)'
      <4>1. CASE h = g
        BY <3>5, <4>1, HandlerOrder
      <4>2. CASE h # g
        BY <3>2, <3>5, <4>2, OtherHandlers DEF Still, writerVars, viewerVars
      <4>. QED
        BY <4>1, <4>2
    <3>6. ASSUME NEW h \in Conns, Connect(h) PROVE WireAt(g)' /\ AheadAt(g)'
      <4>1. /\ cur = None /\ cur' = h /\ g # None
            /\ UNCHANGED <<seq, cursor, hnext, hmax, ch, subAt, wire>>
            /\ hpc' = [hpc EXCEPT ![h] = "found"]
            /\ hafter' = [hafter EXCEPT ![h] = LastEventID]
        BY <3>6, ConnsAssumption, TypeParts
           DEF Connect, TypeByParts, ViewerTyped, writerVars, hubVars
      <4>2. wire[g] = <<>> /\ wire'[g] = <<>>
        BY <3>1, <4>1 DEF WireAt
      <4>3. CASE g = h
        <5>1. hpc'[g] = "found" /\ hafter'[g] = LastEventID
          BY <4>1, <4>3, Domains
        <5>. QED
          BY <3>1, <4>1, <4>2, <5>1, EmptySequence
             DEF WireAt, AheadAt, LastEventID, Sending
      <4>4. CASE g # h
        <5>1. hpc'[g] = hpc[g]
          BY <4>1, <4>4, Domains
        <5>. QED
          BY <3>1, <4>1, <4>2, <4>4, <5>1, EmptySequence DEF WireAt, AheadAt
      <4>. QED
        BY <4>3, <4>4
    <3>7. CASE EndOfStream \/ Disconnect \/ ConnectFails
      <4>1. /\ cur' = None /\ g # None
            /\ UNCHANGED <<seq, hpc, hmax, hnext, ch>>
        BY <3>7, ConnsAssumption
           DEF EndOfStream, Disconnect, ConnectFails, OnError, writerVars,
               handlerVars, hubVars
      <4>2. wire'[g] = <<>>
        <5>1. CASE cur = g
          BY <3>7, <4>1, <5>1, Domains, TypeParts
             DEF EndOfStream, Disconnect, ConnectFails, TypeByParts, ViewerTyped
        <5>2. CASE cur # g
          BY <3>1, <3>7, <5>2, Domains
             DEF EndOfStream, Disconnect, ConnectFails, WireAt
        <5>. QED
          BY <5>1, <5>2
      <4>. QED
        BY <2>1, <3>1, <4>1, <4>2, EmptySequence DEF WireAt, AheadAt
    <3>8. CASE Crash
      <4>1. /\ cur' = None /\ g # None /\ seq' = seq /\ hmax' = hmax
            /\ hpc'[g] = "free" /\ wire'[g] = <<>>
        BY <3>8, ConnsAssumption DEF Crash, OnError, viewerVars, handlerVars
      <4>. QED
        BY <3>1, <4>1, EmptySequence DEF WireAt, AheadAt, Sending
    <3>9. CASE Retry \/ Restart \/ RestartFails \/ UNCHANGED vars
      BY <3>2, <3>9 DEF Still, Retry, Restart, RestartFails, vars, writerVars,
         handlerVars,
         hubVars, viewerVars
    <3>. QED
      BY <1>2, <3>3, <3>4, <3>5, <3>6, <3>7, <3>8, <3>9 DEF Next, Viewer
  <2>. QED
    BY <2>2, <2>3 DEF OrderInv
<1>. QED
  BY <1>1, <1>2

(* InOrder: the viewer receives every line once at most and in order, however
   often it reconnects and wherever the handlers of old connections are. *)
THEOREM ViewerInOrder == Spec => []InOrder
<1>1. OrderInv => InOrder
  BY DEF OrderInv, Received, InOrder, Rising
<1>. QED
  BY TypeInit, TypeStep, ChannelInit, ChannelStep, OrderInit, OrderStep, <1>1,
     PTL DEF Spec

-----------------------------------------------------------------------------
(* Gaps: every line below what was written to the open connection is        *)
(* accounted for.  It was received, is on its way or could not be had.      *)

Has(h) == missed \cup Items(got) \cup Items(wire[h])

Known == \A n \in 1 .. cursor : n \in missed \cup Items(got)

GapAt(h) ==
  cur = h =>
    /\ \A m \in Items(wire[h]) : \A n \in 1 .. m : n \in Has(h)
    /\ hpc[h] = "subscribed" =>
         \A n \in subAt[h] .. seq - 1 : n \in missed \cup Items(ch[h])
    /\ hpc[h] \in Sending =>
         /\ \A n \in 1 .. hnext[h] - 1 : n \in Has(h)
         /\ \A n \in 1 .. seq - 1 :
              n \in Has(h) \cup Items(ch[h]) \cup hnext[h] .. hmax[h]

GapInv == Known /\ \A h \in Conns : GapAt(h)

LEMMA GapInit == Init => GapInv
<1>. SUFFICES ASSUME Init PROVE GapInv
  OBVIOUS
<1>1. Known
  BY DEF Init, Known
<1>2. ASSUME NEW h \in Conns PROVE GapAt(h)
  BY ConnsAssumption DEF Init, GapAt
<1>. QED
  BY <1>1, <1>2 DEF GapInv

LEMMA StillGap ==
  ASSUME NEW h \in Conns, GapAt(h), Still(h), got' = got,
         missed \subseteq missed'
  PROVE  GapAt(h)'
<1>1. Has(h) \subseteq Has(h)'
  BY DEF Has, Still
<1>. QED
  BY <1>1 DEF GapAt, Still

LEMMA AppendGap ==
  ASSUME TypeOK, HubInv, ChannelInv, GapInv, AppendLine, NEW g \in Conns,
         UNCHANGED <<subAt, hpc, handlerVars, wire, viewerVars>>
  PROVE  GapAt(g)'
<1>1. /\ GapAt(g) /\ HubAt(g) /\ ChannelAt(g)
      /\ seq \in Nat /\ seq' = seq + 1 /\ subAt[g] \in Nat
  BY Numbers DEF GapInv, HubInv, ChannelInv, AppendLine
<1>2. SUFFICES ASSUME cur = g PROVE GapAt(g)'
  BY DEF GapAt, viewerVars
<1>3. missed \subseteq missed'
  BY DEF AppendLine, Publish
<1>4. Has(g) \subseteq Has(g)'
  BY <1>3 DEF Has, viewerVars
<1>5. /\ Items(ch[g]) \subseteq Items(ch'[g])
      /\ hpc[g] \in Attached => seq \in missed' \cup Items(ch'[g])
  BY <1>1, <1>2, Published DEF ChannelAt, AppendLine, HubAt
<1>6. \A n \in Int : n <= seq => n = seq \/ n <= seq - 1
  BY <1>1
<1>. QED
  BY <1>1, <1>2, <1>3, <1>4, <1>5, <1>6
     DEF GapAt, Has, Attached, viewerVars, handlerVars

LEMMA HandlerGap ==
  ASSUME TypeOK, ChannelInv, OrderInv, OrderInv', GapInv, NEW h \in Conns,
         Handler(h) \/ HandlerFails(h), UNCHANGED <<writerVars, viewerVars>>
  PROVE  GapAt(h)'
<1>. USE Domains DEF handlerVars, hubVars, Sending
<1>1. WireAt(h) /\ AheadAt(h) /\ ChannelAt(h) /\ GapAt(h) /\ Known
  BY DEF OrderInv, ChannelInv, GapInv
<1>2. /\ seq \in Nat /\ stored \in 0 .. seq /\ cursor \in Int /\ cursor >= -1
      /\ hafter[h] \in Nat /\ hnext[h] \in Nat /\ hmax[h] \in Int
      /\ subAt[h] \in Nat
      /\ Items(ch[h]) \subseteq Int /\ Items(wire[h]) \subseteq Int
  BY Numbers, ItemsTyped
<1>3. UNCHANGED <<seq, cursor, cur, got>>
  BY DEF writerVars, viewerVars
<1>4. SUFFICES ASSUME cur = h PROVE GapAt(h)'
  BY <1>3 DEF GapAt
<1>5. CASE Subscribe(h)
  <2>1. /\ hpc'[h] = "subscribed" /\ subAt'[h] = seq
        /\ UNCHANGED <<wire, missed>>
    BY <1>5 DEF Subscribe
  <2>. QED
    BY <1>1, <1>2, <1>3, <1>4, <2>1 DEF GapAt, Has
<1>6. CASE Query(h)
  <2>1. /\ hpc[h] = "subscribed" /\ hpc'[h] = "history"
        /\ UNCHANGED <<wire, ch, hafter, subAt>> /\ hnext'[h] = hafter[h] + 1
        /\ hmax'[h] = IF stored > hafter[h] + 1 THEN stored - 1 ELSE -1
        /\ missed' = missed \cup stored .. subAt[h] - 1
    BY <1>4, <1>6 DEF Query
  <2>2. wire[h] = <<>> /\ hafter[h] = LastEventID
    BY <1>1, <1>4, <2>1 DEF AheadAt
  <2>3. \A n \in 1 .. hafter[h] : n \in Has(h)'
    <3>1. hafter[h] <= cursor \/ hafter[h] = 0
      BY <1>2, <2>2 DEF LastEventID
    <3>2. \A n \in 1 .. hafter[h] : n \in 1 .. cursor
      BY <1>2, <3>1
    <3>. QED
      BY <1>1, <1>3, <2>1, <3>2 DEF Known, Has
  <2>4. ASSUME NEW n \in 1 .. seq - 1
        PROVE  n \in Has(h)' \cup Items(ch'[h]) \cup hnext'[h] .. hmax'[h]
    <3>1. CASE n <= hafter[h]
      BY <1>2, <2>3, <3>1
    <3>2. CASE n > hafter[h] /\ n < stored
      BY <1>2, <2>1, <3>2
    <3>3. CASE n >= stored /\ n < subAt[h]
      <4>1. n \in stored .. subAt[h] - 1
        BY <1>2, <3>3
      <4>. QED
        BY <2>1, <4>1 DEF Has
    <3>4. CASE n >= subAt[h]
      <4>1. n \in missed \cup Items(ch[h])
        BY <1>1, <1>2, <1>4, <2>1, <3>4 DEF GapAt
      <4>. QED
        BY <2>1, <4>1 DEF Has
    <3>. QED
      BY <1>2, <3>1, <3>2, <3>3, <3>4
  <2>5. Items(wire'[h]) = {}
    BY <2>1, <2>2, EmptySequence
  <2>. QED
    BY <1>2, <1>3, <2>1, <2>3, <2>4, <2>5 DEF GapAt
<1>7. CASE WriteHistory(h)
  <2>1. /\ hpc[h] = "history" /\ hpc' = hpc /\ hnext[h] <= hmax[h]
        /\ WriteEvent(h, hnext[h]) /\ hnext'[h] = hnext[h] + 1
        /\ UNCHANGED <<ch, hmax, subAt, missed>>
    BY <1>7 DEF WriteHistory
  <2>2. Items(wire'[h]) = Items(wire[h]) \cup {hnext[h]}
    BY <1>1, <1>2, <1>4, <2>1, Written DEF AheadAt, Past, WireAt
  <2>3. Has(h)' = Has(h) \cup {hnext[h]}
    BY <1>3, <2>1, <2>2 DEF Has
  <2>4. \A n \in 1 .. hnext[h] : n \in Has(h)'
    <3>1. \A n \in 1 .. hnext[h] : n \in 1 .. hnext[h] - 1 \/ n = hnext[h]
      BY <1>2
    <3>. QED
      BY <1>1, <1>4, <2>1, <2>3, <3>1 DEF GapAt
  <2>5. ASSUME NEW n \in 1 .. seq - 1
        PROVE  n \in Has(h)' \cup Items(ch[h]) \cup hnext[h] + 1 .. hmax[h]
    <3>1. n \in Has(h) \cup Items(ch[h]) \cup hnext[h] .. hmax[h]
      BY <1>1, <1>4, <2>1 DEF GapAt
    <3>2. n \in hnext[h] .. hmax[h] => n = hnext[h] \/ n \in hnext[h] + 1 .. hmax[h]
      BY <1>2
    <3>. QED
      BY <2>3, <3>1, <3>2
  <2>6. \A m \in Items(wire'[h]) : \A n \in 1 .. m : n \in Has(h)'
    BY <1>1, <1>4, <2>2, <2>3, <2>4 DEF GapAt
  <2>7. hnext'[h] - 1 = hnext[h]
    BY <1>2, <2>1
  <2>. QED
    BY <1>3, <2>1, <2>4, <2>5, <2>6, <2>7 DEF GapAt
<1>8. CASE \/ HistoryDone(h) \/ Recheck(h) \/ RecheckFails(h) \/ ClientGone(h)
           \/ QueryFails(h) \/ Unsubscribe(h)
  <2>1. /\ \/ hpc[h] \in Sending /\ hpc'[h] \in Sending
           \/ hpc'[h] \in {"leaving", "closing", "over"}
        /\ UNCHANGED <<hnext, hmax, subAt, ch, wire, missed>>
    BY <1>8 DEF HistoryDone, Recheck, RecheckFails, ClientGone, QueryFails,
                Unsubscribe
  <2>2. Has(h)' = Has(h)
    BY <1>3, <2>1 DEF Has
  <2>. QED
    BY <1>1, <1>3, <2>1, <2>2 DEF GapAt
<1>. DEFINE n0 == Head(ch[h])
<1>9. ASSUME ch[h] # <<>>, ch' = [ch EXCEPT ![h] = Tail(@)],
             hpc[h] \in {"drain", "live"}, hpc'[h] \in Sending,
             UNCHANGED <<hnext, hmax, missed>>,
             \/ n0 > hmax[h] /\ WriteEvent(h, n0)
             \/ n0 <= hmax[h] /\ wire' = wire
      PROVE  GapAt(h)'
  <2>1. /\ n0 \in Int /\ Items(ch[h]) = {n0} \cup Items(ch'[h])
        /\ \A n \in Items(ch'[h]) : n0 < n
    BY <1>1, <1>9, Taken DEF ChannelAt
  <2>2. /\ hnext[h] > hmax[h] /\ n0 < seq
        /\ \A n \in 1 .. hnext[h] - 1 : n \in Has(h)
        /\ \A n \in 1 .. seq - 1 : n \in Has(h) \cup Items(ch[h])
    <3>1. hnext[h] .. hmax[h] = {}
      BY <1>1, <1>2, <1>9 DEF AheadAt
    <3>. QED
      BY <1>1, <1>4, <1>9, <2>1, <3>1 DEF AheadAt, ChannelAt, GapAt
  <2>3. CASE n0 <= hmax[h] /\ wire' = wire
    <3>1. Has(h)' = Has(h)
      BY <1>3, <1>9, <2>3 DEF Has
    <3>2. n0 \in 1 .. seq - 1 => n0 \in Has(h)
      BY <1>2, <2>1, <2>2, <2>3
    <3>3. \A n \in 1 .. seq - 1 : n \in Has(h) \cup Items(ch'[h])
      BY <2>1, <2>2, <3>2
    <3>. QED
      BY <1>1, <1>3, <1>4, <1>9, <2>2, <2>3, <3>1, <3>3 DEF GapAt
  <2>4. CASE n0 > hmax[h] /\ WriteEvent(h, n0)
    <3>1. Items(wire'[h]) = Items(wire[h]) \cup {n0}
      BY <1>1, <1>4, <1>9, <2>1, <2>4, Written DEF AheadAt, Past, WireAt
    <3>2. Has(h)' = Has(h) \cup {n0}
      BY <1>3, <1>9, <3>1 DEF Has
    <3>3. \A n \in 1 .. seq - 1 : n \in Has(h)' \cup Items(ch'[h])
      BY <2>1, <2>2, <3>2
    <3>4. \A n \in 1 .. n0 : n \in Has(h)'
      <4>1. \A n \in 1 .. n0 : n \in 1 .. seq - 1 /\ n \notin Items(ch'[h])
        BY <1>2, <2>1, <2>2
      <4>. QED
        BY <3>3, <4>1
    <3>5. \A m \in Items(wire'[h]) : \A n \in 1 .. m : n \in Has(h)'
      BY <1>1, <1>4, <3>1, <3>2, <3>4 DEF GapAt
    <3>. QED
      BY <1>3, <1>9, <2>2, <3>2, <3>3, <3>5 DEF GapAt
  <2>. QED
    BY <1>9, <2>3, <2>4
<1>10. CASE Drain(h)
  <2>1. hpc[h] = "drain" /\ UNCHANGED <<hnext, hmax, missed, subAt>>
    BY <1>10 DEF Drain
  <2>2. CASE ch[h] # <<>>
    <3>1. /\ ch' = [ch EXCEPT ![h] = Tail(@)] /\ hpc' = hpc
          /\ \/ n0 > hmax[h] /\ WriteEvent(h, n0)
             \/ n0 <= hmax[h] /\ wire' = wire
      BY <1>10, <2>2 DEF Drain
    <3>. QED
      BY <1>9, <2>1, <2>2, <3>1
  <2>3. CASE ch[h] = <<>>
    <3>1. hpc'[h] = "live" /\ UNCHANGED <<ch, wire>>
      BY <1>10, <2>3 DEF Drain
    <3>2. Has(h)' = Has(h)
      BY <1>3, <2>1, <3>1 DEF Has
    <3>. QED
      BY <1>1, <1>3, <2>1, <3>1, <3>2 DEF GapAt
  <2>. QED
    BY <2>2, <2>3
<1>11. CASE Forward(h)
  <2>1. /\ hpc[h] = "live" /\ ch[h] # <<>> /\ ch' = [ch EXCEPT ![h] = Tail(@)]
        /\ WriteEvent(h, n0) /\ hpc'[h] \in {"recheck", "live"}
        /\ UNCHANGED <<hnext, hmax, missed>>
    BY <1>11 DEF Forward
  <2>2. n0 > hmax[h]
    BY <1>1, <2>1, Taken DEF AheadAt, ChannelAt
  <2>. QED
    BY <1>9, <2>1, <2>2
<1>12. CASE Recycle(h)
  BY <1>4, <1>12 DEF Recycle
<1>. QED
  BY <1>5, <1>6, <1>7, <1>8, <1>10, <1>11, <1>12 DEF Handler, HandlerFails

LEMMA ReceiveGap == ASSUME TypeOK, OrderInv, GapInv, Receive PROVE GapInv'
<1>. DEFINE n0 == Head(wire[cur])
<1>1. /\ cur \in Conns /\ wire[cur] # <<>> /\ wire[cur] \in Seq(Int)
      /\ WireAt(cur) /\ GapAt(cur) /\ got \in Seq(Int)
  BY Numbers DEF OrderInv, GapInv, Receive
<1>2. /\ wire'[cur] = Tail(wire[cur]) /\ got' = Append(got, n0) /\ cursor' = n0
      /\ UNCHANGED <<seq, cur, hpc, hnext, hmax, ch, subAt, missed>>
  BY <1>1, Domains DEF Receive, writerVars, handlerVars, hubVars
<1>3. /\ n0 \in Int /\ Items(wire[cur]) = {n0} \cup Items(wire'[cur])
      /\ \A n \in Items(wire'[cur]) : n0 < n
      /\ Items(got') = Items(got) \cup {n0}
  BY <1>1, <1>2, HeadTailProperties, TailItems, RisingTail, AppendedItems
     DEF WireAt
<1>4. Has(cur)' = Has(cur)
  BY <1>2, <1>3 DEF Has
<1>5. Known'
  <2>1. ASSUME NEW n \in 1 .. n0 PROVE n \in missed \cup Items(got')
    <3>1. n \in Has(cur)
      BY <1>1, <1>3 DEF GapAt
    <3>2. n \notin Items(wire'[cur])
      BY <1>3
    <3>. QED
      BY <1>3, <3>1, <3>2 DEF Has
  <2>. QED
    BY <1>2, <2>1 DEF Known
<1>6. GapAt(cur)'
  BY <1>1, <1>2, <1>3, <1>4 DEF GapAt
<1>7. ASSUME NEW h \in Conns PROVE GapAt(h)'
  BY <1>2, <1>6 DEF GapAt
<1>. QED
  BY <1>5, <1>7 DEF GapInv

LEMMA GapStep ==
  /\ TypeOK /\ HubInv /\ ChannelInv /\ OrderInv /\ OrderInv' /\ GapInv
  /\ [Next]_vars
  => GapInv'
<1>. SUFFICES ASSUME TypeOK, HubInv, ChannelInv, OrderInv, OrderInv', GapInv,
                     [Next]_vars
              PROVE  GapInv'
  OBVIOUS
<1>1. CASE Receive
  BY <1>1, ReceiveGap
<1>2. CASE ~Receive
  <2>1. UNCHANGED <<cursor, got>>
    BY <1>2 DEF Next, Viewer, Connect, EndOfStream, Disconnect, ConnectFails,
       Retry, OnError, Crash, Restart, RestartFails, viewerVars, vars
  <2>2. missed \subseteq missed'
    BY <1>2 DEF Next, Writer, WriterFails, AppendLine, Publish, Handler,
       HandlerFails, Subscribe, Query, QueryFails, WriteHistory, HistoryDone,
       Drain, Forward, Recheck, RecheckFails, ClientGone, Unsubscribe, Recycle,
       Viewer, Connect, EndOfStream, Disconnect, ConnectFails, Retry, Crash,
       Restart, RestartFails, vars
  <2>3. Known'
    BY <2>1, <2>2 DEF GapInv, Known
  <2>4. ASSUME NEW g \in Conns PROVE GapAt(g)'
    <3>1. GapAt(g) /\ g # None /\ WireAt(g)
      BY ConnsAssumption DEF GapInv, OrderInv
    <3>2. CASE Still(g)
      BY <2>1, <2>2, <3>1, <3>2, StillGap
    <3>3. CASE /\ Writer \/ WriterFails
               /\ AppendLine /\ UNCHANGED <<hpc, handlerVars, wire, viewerVars>>
      BY <3>3, AppendGap DEF Writer, WriterFails, hubVars
    <3>4. CASE /\ Writer \/ WriterFails
               /\ ~AppendLine /\ UNCHANGED <<hpc, handlerVars, wire, viewerVars>>
      BY <3>2, <3>4 DEF Still, Writer, WriterFails, FlushIfFull, EndOfOutput,
         FinalFlush, FinishJob, FlushFails, FinalFlushFails, FinishJobFails,
         hubVars,
         handlerVars, viewerVars
    <3>5. ASSUME NEW h \in Conns, Handler(h) \/ HandlerFails(h),
                 UNCHANGED <<writerVars, viewerVars>>
          PROVE  GapAt(g)'
      <4>1. CASE h = g
        BY <3>5, <4>1, HandlerGap
      <4>2. CASE h # g
        BY <3>2, <3>5, <4>2, OtherHandlers DEF Still, writerVars, viewerVars
      <4>. QED
        BY <4>1, <4>2
    <3>6. ASSUME NEW h \in Conns, Connect(h) PROVE GapAt(g)'
      <4>1. cur = None /\ cur' = h /\ wire' = wire
            /\ hpc' = [hpc EXCEPT ![h] = "found"]
        BY <3>6, TypeParts DEF Connect, TypeByParts, ViewerTyped
      <4>2. Items(wire'[g]) = {}
        BY <3>1, <4>1, EmptySequence DEF WireAt
      <4>3. g = h => hpc'[g] = "found"
        BY <4>1, Domains
      <4>. QED
        BY <4>1, <4>2, <4>3 DEF GapAt, Sending
    <3>7. CASE EndOfStream \/ Disconnect \/ ConnectFails \/ Crash
      <4>1. cur' = None
        BY <3>7 DEF EndOfStream, Disconnect, ConnectFails, Crash, OnError,
           viewerVars
      <4>. QED
        BY <3>1, <4>1 DEF GapAt
    <3>8. CASE Retry \/ Restart \/ RestartFails \/ UNCHANGED vars
      BY <3>2, <3>8 DEF Still, Retry, Restart, RestartFails, vars, writerVars,
         handlerVars,
         hubVars, viewerVars
    <3>. QED
      BY <1>2, <3>3, <3>4, <3>5, <3>6, <3>7, <3>8 DEF Next, Viewer
  <2>. QED
    BY <2>3, <2>4 DEF GapInv
<1>. QED
  BY <1>1, <1>2

(* OnlyKnownGaps: below the last line it received the viewer lacks line 0 and
   lines that its connection could not have, and nothing else. *)
THEOREM ViewerGaps == Spec => []OnlyKnownGaps
<1>1. GapInv => OnlyKnownGaps
  BY DEF GapInv, Known, OnlyKnownGaps, Items
<1>. QED
  BY TypeInit, TypeStep, HubInit, HubStep, ChannelInit, ChannelStep, OrderInit,
     OrderStep, GapInit, GapStep, <1>1, PTL DEF Spec

-----------------------------------------------------------------------------
(* The replay of a job that has ended.  The row turns terminal after the last *)
(* flush, so a handler that saw it terminal finds every line in the table.    *)

Clean == faults = 0 /\ crashes = 0

Flushed ==
  /\ status = "terminal" => wpc \in {"gone", "crashed"}
  /\ wpc = "crashed" => crashes > 0
  /\ Clean /\ wpc \in {"flushed", "gone"} => stored = seq

ReplayAt(h) ==
  hterm[h] =>
    /\ status = "terminal"
    /\ hpc[h] \notin {"drain", "live", "recheck"}
    /\ Clean /\ hpc[h] = "history" => hmax[h] >= seq - 1 \/ hnext[h] >= seq
    /\ Clean /\ hpc[h] = "leaving" => hnext[h] >= seq

ReplayInv == Flushed /\ \A h \in Conns : ReplayAt(h)

LEMMA ReplayInit == Init => ReplayInv
  BY DEF Init, ReplayInv, Flushed, ReplayAt, Clean

LEMMA FlushedStep == TypeOK /\ Flushed /\ [Next]_vars => Flushed'
<1>. SUFFICES ASSUME TypeOK, Flushed, [Next]_vars PROVE Flushed'
  OBVIOUS
<1>1. /\ seq \in Nat /\ stored \in 0 .. seq /\ faults \in Nat /\ crashes \in Nat
  BY Numbers
<1>. USE DEF Flushed, Clean, Fault, boundVars
<1>2. CASE Writer
  BY <1>1, <1>2 DEF Writer, AppendLine, FlushIfFull, EndOfOutput, FinalFlush,
                    FinishJob
<1>3. CASE WriterFails
  BY <1>1, <1>3 DEF WriterFails, FlushFails, FinalFlushFails, FinishJobFails
<1>4. ASSUME NEW h \in Conns, Handler(h) \/ HandlerFails(h), UNCHANGED writerVars
      PROVE  Flushed'
  <2>1. crashes' = crashes /\ faults' \in {faults, faults + 1}
    BY <1>4 DEF Handler, HandlerFails, Subscribe, Query, QueryFails,
       WriteHistory, HistoryDone, Drain, Forward, Recheck, RecheckFails,
       ClientGone, Unsubscribe, Recycle
  <2>. QED
    BY <1>1, <1>4, <2>1 DEF writerVars
<1>5. CASE Viewer
  BY <1>5 DEF Viewer, Connect, Receive, EndOfStream, Disconnect, ConnectFails,
              Retry, writerVars
<1>6. CASE Crash
  BY <1>1, <1>6 DEF Crash
<1>7. CASE Restart \/ RestartFails
  BY <1>1, <1>7 DEF Restart, RestartFails
<1>8. CASE UNCHANGED vars
  BY <1>8 DEF vars, writerVars
<1>. QED
  BY <1>2, <1>3, <1>4, <1>5, <1>6, <1>7, <1>8 DEF Next

(* Faults and crashes only add up, and a terminal row stays and with it what
   was numbered and stored. *)
LEMMA CleanBefore ==
  ASSUME TypeOK, Flushed, [Next]_vars
  PROVE  /\ Clean' => Clean
         /\ status = "terminal" => UNCHANGED <<seq, stored>> /\ status' = "terminal"
<1>1. /\ seq \in Nat /\ stored \in 0 .. seq /\ faults \in Nat /\ crashes \in Nat
  BY Numbers
<1>2. Clean' => Clean
  BY <1>1 DEF Next, Writer, WriterFails, AppendLine, FlushIfFull, EndOfOutput,
     FinalFlush, FinishJob, FlushFails, FinalFlushFails, FinishJobFails,
     Handler, HandlerFails,
     Subscribe, Query, QueryFails, WriteHistory, HistoryDone, Drain, Forward,
     Recheck, RecheckFails, ClientGone, Unsubscribe, Recycle, Viewer, Connect,
     Receive, EndOfStream, Disconnect, ConnectFails, Retry, Crash, Restart,
     RestartFails,
     vars, Clean, Fault, boundVars
<1>3. ASSUME status = "terminal"
      PROVE  UNCHANGED <<seq, stored>> /\ status' = "terminal"
  <2>1. wpc \in {"gone", "crashed"}
    BY <1>3 DEF Flushed
  <2>. QED
    BY <1>3, <2>1 DEF Next, Writer, WriterFails, AppendLine, FlushIfFull,
       EndOfOutput, FinalFlush, FinishJob, FlushFails, FinalFlushFails,
       FinishJobFails, Viewer, Connect, Receive, EndOfStream, Disconnect, ConnectFails, Retry, Crash,
       Restart, RestartFails, vars, writerVars
<1>. QED
  BY <1>2, <1>3

LEMMA ReplayStep == TypeOK /\ ReplayInv /\ [Next]_vars => ReplayInv'
<1>. SUFFICES ASSUME TypeOK, ReplayInv, [Next]_vars, NEW g \in Conns
              PROVE  ReplayAt(g)'
  BY FlushedStep DEF ReplayInv
<1>. USE Domains DEF handlerVars
<1>1. /\ Flushed /\ ReplayAt(g) /\ seq \in Nat /\ stored \in 0 .. seq
      /\ hafter[g] \in Nat /\ hnext[g] \in Nat /\ hmax[g] \in Int
      /\ faults \in Nat
  BY Numbers DEF ReplayInv
<1>2. /\ Clean' => Clean
      /\ status = "terminal" => UNCHANGED <<seq, stored>> /\ status' = "terminal"
  BY <1>1, CleanBefore
<1>3. CASE /\ hpc'[g] = hpc[g] /\ hterm'[g] = hterm[g] /\ hnext'[g] = hnext[g]
           /\ hmax'[g] = hmax[g]
  BY <1>1, <1>2, <1>3 DEF ReplayAt
<1>4. ASSUME NEW h \in Conns, Handler(h) \/ HandlerFails(h),
             UNCHANGED <<writerVars, viewerVars>>
      PROVE  ReplayAt(g)'
  <2>1. CASE g # h
    BY <1>3, <1>4, <2>1, OtherHandlers
  <2>2. CASE g = h
    <3>1. CASE Subscribe(h)
      BY <1>1, <1>2, <2>2, <3>1 DEF Subscribe, ReplayAt
    <3>2. CASE Query(h)
      <4>1. /\ hpc'[h] = "history" /\ hterm' = hterm
            /\ hnext'[h] = hafter[h] + 1
            /\ hmax'[h] = stored - 1 \/ hnext'[h] >= stored
        BY <1>1, <2>2, <3>2 DEF Query
      <4>2. hterm[h] /\ Clean => stored = seq
        BY <1>1, <2>2 DEF ReplayAt, Flushed, Clean
      <4>. QED
        BY <1>1, <1>2, <2>2, <4>1, <4>2 DEF ReplayAt
    <3>3. CASE QueryFails(h) \/ RecheckFails(h)
      <4>1. ~Clean' /\ hterm' = hterm
        BY <1>1, <3>3 DEF QueryFails, RecheckFails, Fault, Clean
      <4>2. hpc[h] = "recheck" \/ hpc'[h] = "leaving"
        BY <3>3 DEF QueryFails, RecheckFails
      <4>. QED
        BY <1>1, <1>2, <2>2, <4>1, <4>2 DEF ReplayAt
    <3>4. CASE WriteHistory(h)
      <4>1. /\ hpc[h] = "history" /\ hpc' = hpc /\ hterm' = hterm
            /\ hmax' = hmax /\ hnext'[h] = hnext[h] + 1
        BY <3>4 DEF WriteHistory
      <4>. QED
        BY <1>1, <1>2, <2>2, <4>1 DEF ReplayAt
    <3>5. CASE HistoryDone(h)
      <4>1. /\ hpc[h] = "history" /\ hnext[h] > hmax[h] /\ hterm' = hterm
            /\ hnext' = hnext
            /\ hterm[h] => hpc'[h] = "leaving"
        BY <3>5 DEF HistoryDone
      <4>. QED
        BY <1>1, <1>2, <2>2, <4>1 DEF ReplayAt
    <3>6. CASE Drain(h) \/ Forward(h) \/ Recheck(h) \/ ClientGone(h)
      <4>1. hpc[h] \in {"drain", "live", "recheck"} /\ hterm' = hterm
        BY <3>6 DEF Drain, Forward, Recheck, ClientGone
      <4>. QED
        BY <1>1, <2>2, <4>1 DEF ReplayAt
    <3>7. CASE Unsubscribe(h) \/ Recycle(h)
      <4>1. hpc'[h] \in {"closing", "over", "free"} /\ hterm' = hterm
        BY <3>7 DEF Unsubscribe, Recycle
      <4>. QED
        BY <1>1, <1>2, <2>2, <4>1 DEF ReplayAt
    <3>. QED
      BY <1>4, <3>1, <3>2, <3>3, <3>4, <3>5, <3>6, <3>7
         DEF Handler, HandlerFails
  <2>. QED
    BY <2>1, <2>2
<1>5. ASSUME NEW h \in Conns, Connect(h) PROVE ReplayAt(g)'
  <2>1. CASE g # h
    BY <1>3, <1>5, <2>1 DEF Connect
  <2>2. CASE g = h
    <3>1. hpc'[g] = "found" /\ (hterm'[g] => status = "terminal")
      BY <1>5, <2>2 DEF Connect
    <3>. QED
      BY <1>2, <3>1 DEF ReplayAt
  <2>. QED
    BY <2>1, <2>2
<1>6. CASE Crash
  <2>1. hpc'[g] = "free" /\ hterm' = hterm
    BY <1>6 DEF Crash
  <2>. QED
    BY <1>1, <1>2, <2>1 DEF ReplayAt
<1>7. CASE (Writer \/ WriterFails) /\ UNCHANGED <<hpc, handlerVars>>
  BY <1>3, <1>7
<1>8. CASE \/ Receive \/ EndOfStream \/ Disconnect \/ ConnectFails \/ Retry
           \/ Restart \/ RestartFails \/ UNCHANGED vars
  BY <1>3, <1>8 DEF Receive, EndOfStream, Disconnect, ConnectFails, Retry,
                    Restart, RestartFails, vars
<1>. QED
  BY <1>4, <1>5, <1>6, <1>7, <1>8 DEF Next, Viewer

(* TerminalReplayComplete: a stream that ends because its snapshot was terminal
   has sent every line of the job, while no statement failed and the server
   did not crash. *)
THEOREM ReplayComplete == Spec => []TerminalReplayComplete
<1>1. TypeOK /\ ReplayInv => TerminalReplayComplete
  BY DEF ReplayInv, ReplayAt, Clean, TerminalReplayComplete
<1>. QED
  BY TypeInit, TypeStep, ReplayInit, ReplayStep, <1>1, PTL DEF Spec
=============================================================================
