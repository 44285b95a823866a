---------------------------- MODULE LogTailProofs ---------------------------
(* Proofs about LogTail, for every size of the page and every threshold. *)
EXTENDS LogTail, TLAPS

HeightsTyped ==
  /\ pending \in 0 .. Burst /\ shown \in 0 .. MaxLines
  /\ top \in 0 .. End
  /\ user \in {"never", "near", "away"}

(* Where a user went away to is beyond the threshold, and stays there. *)
AwayIsFar == user = "away" => Below >= Slack

(* Of a viewer that follows: what is not on the page yet came after the last
   scroll. *)
ScrolledFirst == user = "never" /\ atBottom /\ pending > 0 => top = End

(* Only the user brings it back once it has stopped. *)
StoppedForGood == user = "never" /\ ~atBottom => ~scrolled

TailInv ==
  HeightsTyped /\ AwayIsFar /\ Paused /\ ScrolledFirst /\ StoppedForGood
    /\ BehindByARender

LEMMA TailInit == Init => TailInv
<1>. SUFFICES ASSUME Init PROVE TailInv
  OBVIOUS
<1>1. View \in Nat /\ MaxLines \in Nat /\ Burst \in Nat
  BY HeightsAssumption
<1>2. End = 0 /\ Below = 0
  BY <1>1 DEF Init, End, Below
<1>3. HeightsTyped
  BY <1>1, <1>2 DEF Init, HeightsTyped
<1>4. BehindByARender
  BY <1>1, <1>2 DEF BehindByARender
<1>5. AwayIsFar /\ Paused /\ ScrolledFirst /\ StoppedForGood
  BY <1>2 DEF Init, AwayIsFar, Paused, ScrolledFirst, StoppedForGood
<1>. QED
  BY <1>3, <1>4, <1>5 DEF TailInv

LEMMA TailStep == TailInv /\ [Next]_vars => TailInv'
<1>. SUFFICES ASSUME TailInv, [Next]_vars PROVE TailInv'
  OBVIOUS
<1>. USE HeightsAssumption DEF TailInv, HeightsTyped, AwayIsFar, Paused,
         ScrolledFirst, StoppedForGood, BehindByARender, Below, End
<1>1. CASE Line
  <2>1. /\ pending' \in 1 .. Burst
        /\ UNCHANGED <<shown, atBottom>> /\ End' = End
    BY <1>1 DEF Line
  <2>2. CASE ~atBottom
    <3>1. top' = top /\ user' = user /\ (scrolled' <=> scrolled)
      BY <1>1, <2>2 DEF Line
    <3>. QED
      BY <2>1, <2>2, <3>1
  <2>3. CASE atBottom /\ top = End
    <3>1. top' = top /\ user' = user /\ (scrolled' <=> scrolled)
      BY <1>1, <2>3 DEF Line
    <3>. QED
      BY <2>1, <2>3, <3>1
  <2>4. CASE atBottom /\ top # End
    <3>1. top' = End /\ scrolled' /\ user' \in {"never", "near"}
      BY <1>1, <2>4 DEF Line
    <3>. QED
      BY <2>1, <2>4, <3>1
  <2>. QED
    BY <2>2, <2>3, <2>4
<1>2. CASE Render
  BY <1>2 DEF Render
<1>3. CASE Scroll
  BY <1>3 DEF Scroll
<1>4. CASE HandleScroll
  <2>1. UNCHANGED <<pending, shown, top, user>> /\ End' = End /\ Below' = Below
    BY <1>4 DEF HandleScroll
  <2>2. scrolled /\ scrolled' = FALSE /\ atBottom' = (Below < Slack)
    BY <1>4 DEF HandleScroll
  <2>3. atBottom' => Below < Slack
    BY <2>2
  <2>4. user = "never" => atBottom
    BY <2>2
  <2>5. HeightsTyped'
    BY <2>1
  <2>6. AwayIsFar' /\ ScrolledFirst' /\ BehindByARender'
    BY <2>1, <2>4
  <2>7. Paused'
    BY <2>1, <2>3
  <2>8. StoppedForGood'
    BY <2>2
  <2>. QED
    BY <2>5, <2>6, <2>7, <2>8
<1>5. CASE UNCHANGED vars
  BY <1>5 DEF vars
<1>. QED
  BY <1>1, <1>2, <1>3, <1>4, <1>5 DEF Next

(* Paused: a user who scrolled up is left alone, however lines, renders and
   scroll events are interleaved. *)
THEOREM ReaderLeftAlone == Spec => []Paused
<1>1. TailInv => Paused
  BY DEF TailInv
<1>. QED
  BY TailInit, TailStep, <1>1, PTL DEF Spec

(* BehindByARender: a viewer that follows lags by one render at most. *)
THEOREM LagBounded == Spec => []BehindByARender
<1>1. TailInv => BehindByARender
  BY DEF TailInv
<1>. QED
  BY TailInit, TailStep, <1>1, PTL DEF Spec
=============================================================================
