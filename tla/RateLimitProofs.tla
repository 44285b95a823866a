-------------------------- MODULE RateLimitProofs --------------------------
(* Theorems about RateLimit, for every limit, window and number of requests. *)
EXTENDS RateLimit, SequenceTheorems, TLAPS

Attempt == [at : Int, from : Int]

TypeInv ==
  /\ now \in Nat /\ count \in Nat /\ resetAt \in Nat
  /\ bucket \in {"none", "stored"}
  /\ pc \in [Requests -> {"new", "resolved", "allowed", "refused"}]
  /\ passed \in Seq(Attempt)

(* Before the first request there is nothing; after it the window in force
   has begun. *)
WindowBegun ==
  /\ bucket = "none" => passed = <<>> /\ \A r \in Requests : pc[r] = "new"
  /\ bucket = "none" => count = 0
  /\ bucket = "stored" => resetAt - Window <= now

(* Every attempt lies in its window, and windows do not overlap. *)
Windows ==
  /\ \A i \in 1 .. Len(passed) :
       /\ passed[i].from <= passed[i].at
       /\ passed[i].at <= passed[i].from + Window
       /\ \/ passed[i].from = resetAt - Window
          \/ passed[i].from + Window < resetAt - Window
  /\ \A i, k \in 1 .. Len(passed) :
       i < k => \/ passed[i].from = passed[k].from
                \/ passed[i].from + Window < passed[k].from

(* count is the number of attempts in the window in force, the last ones, and
   no window holds more than Limit. *)
Counted ==
  /\ count <= Limit /\ count <= Len(passed)
  /\ \A i \in 1 .. Len(passed) :
       passed[i].from = resetAt - Window <=> i > Len(passed) - count
  /\ \A i \in 1 .. Len(passed) :
       i + Limit <= Len(passed) => passed[i + Limit].from # passed[i].from

IInv == TypeInv /\ WindowBegun /\ Windows /\ Counted

LEMMA IInvInit == Init => IInv
  BY SizesAssumption DEF Init, IInv, TypeInv, WindowBegun, Windows, Counted

LEMMA IInvNext == IInv /\ [Next]_vars => IInv'
<1>. SUFFICES ASSUME IInv, [Next]_vars PROVE IInv'
  OBVIOUS
<1>0. Limit \in Nat \ {0} /\ Window \in Nat \ {0}
  BY SizesAssumption
<1>. USE <1>0, BoundAssumption
     DEF IInv, TypeInv, WindowBegun, Windows, Counted
<1>1. CASE Tick
  BY <1>1 DEF Tick
<1>2. ASSUME NEW r \in Requests, Resolve(r) PROVE IInv'
  <2>1. CASE bucket = "none"
    BY <1>2, <2>1 DEF Resolve
  <2>2. CASE bucket = "stored"
    BY <1>2, <2>2 DEF Resolve
  <2>. QED
    BY <2>1, <2>2
<1>3. ASSUME NEW r \in Requests, Allow(r) PROVE IInv'
  <2>0. bucket = "stored" /\ pc[r] = "resolved"
    BY <1>3 DEF Allow
  (* A refusal: the window in force is not over. *)
  <2>1. CASE Refreshed.count >= Limit
    <3>1. now <= resetAt /\ resetAt' = resetAt
      BY <1>3, <2>1 DEF Allow, Refreshed
    <3>2. /\ count' = count /\ passed' = passed
          /\ pc' = [pc EXCEPT ![r] = "refused"] /\ now' = now /\ bucket' = bucket
      BY <1>3, <2>1, <3>1 DEF Allow, Refreshed
    <3>. QED
      BY <2>0, <3>1, <3>2
  (* An attempt let through, in the window in force or in a fresh one. *)
  <2>2. CASE Refreshed.count < Limit
    <3>. DEFINE n == Len(passed)
                e == [at |-> now, from |-> resetAt' - Window]
    <3>1. /\ resetAt' \in Nat /\ count' = Refreshed.count + 1
          /\ passed' = Append(passed, e) /\ bucket' = bucket /\ now' = now
          /\ pc' = [pc EXCEPT ![r] = "allowed"]
      BY <1>3, <2>2 DEF Allow, Refreshed
    <3>2. /\ n \in Nat /\ e \in Attempt
          /\ passed' \in Seq(Attempt) /\ Len(passed') = n + 1
          /\ passed'[n + 1] = e
          /\ \A i \in 1 .. n : passed'[i] = passed[i]
      <4>1. e \in Attempt
        BY <3>1 DEF Attempt
      <4>. QED
        BY <3>1, <4>1, AppendProperties, LenProperties
    <3>3. /\ e.at = now /\ e.from = resetAt' - Window
          /\ \A i \in 1 .. n : passed[i].at \in Int /\ passed[i].from \in Int
      <4>1. \A i \in 1 .. n : passed[i] \in Attempt
        BY ElementOfSeq
      <4>. QED
        BY <4>1 DEF Attempt
    <3>4. TypeInv' /\ WindowBegun'
      BY <1>3, <2>0, <3>1, <3>2 DEF Allow, Refreshed
    <3>w. \A i, k \in 1 .. n :
            i < k => \/ passed[i].from = passed[k].from
                     \/ passed[i].from + Window < passed[k].from
      OBVIOUS
    <3>5. CASE now > resetAt
      <4>1. resetAt' = now + Window /\ count' = 1
        BY <1>3, <3>1, <3>5 DEF Allow, Refreshed
      <4>2. \A i \in 1 .. n : passed[i].from + Window < resetAt' - Window
        BY <3>2, <3>3, <3>5, <4>1
      <4>3. Windows'
        <5>1. \A i \in 1 .. n : passed'[i].from + Window < resetAt' - Window
          BY <3>2, <4>2
        <5>2. \A i \in 1 .. n : /\ passed'[i].from <= passed'[i].at
                                /\ passed'[i].at <= passed'[i].from + Window
          BY <3>2
        <5>3. \A i \in 1 .. n + 1 : i \in 1 .. n \/ i = n + 1
          BY <3>2
        <5>4. /\ passed'[n + 1].at = now
              /\ passed'[n + 1].from = now
          BY <3>2, <3>3, <4>1
        <5>5. \A i \in 1 .. n + 1 :
                /\ passed'[i].from <= passed'[i].at
                /\ passed'[i].at <= passed'[i].from + Window
                /\ \/ passed'[i].from = resetAt' - Window
                   \/ passed'[i].from + Window < resetAt' - Window
          BY <4>1, <5>1, <5>2, <5>3, <5>4
        <5>6. \A i, k \in 1 .. n + 1 :
                i < k => \/ passed'[i].from = passed'[k].from
                         \/ passed'[i].from + Window < passed'[k].from
          <6>0. SUFFICES ASSUME NEW i \in 1 .. n + 1, NEW k \in 1 .. n + 1, i < k
                         PROVE  \/ passed'[i].from = passed'[k].from
                                \/ passed'[i].from + Window < passed'[k].from
            OBVIOUS
          <6>. n \in Nat /\ i \in 1 .. n + 1 /\ k \in 1 .. n + 1 /\ i < k
            BY <3>2, <6>0
          <6>1. i \in 1 .. n
            BY ONLY n \in Nat, i \in 1 .. n + 1, k \in 1 .. n + 1, i < k
          <6>2. CASE k = n + 1
            <7>1. passed'[k].from = now /\ passed'[i].from + Window < now
              BY <4>1, <5>1, <5>4, <6>1, <6>2
            <7>. QED
              BY ONLY <7>1
          <6>3. CASE k # n + 1
            <7>1. k \in 1 .. n
              BY ONLY n \in Nat, k \in 1 .. n + 1, <6>3
            <7>2. passed'[i] = passed[i] /\ passed'[k] = passed[k]
              BY <3>2, <6>1, <7>1
            <7>3. \/ passed[i].from = passed[k].from
                  \/ passed[i].from + Window < passed[k].from
              BY ONLY <3>w, <6>1, <7>1, i < k
            <7>. QED
              BY ONLY <7>2, <7>3
          <6>. QED
            BY <6>2, <6>3
        <5>. QED
          BY <3>2, <5>5, <5>6
      <4>4. Counted'
        <5>1. \A i \in 1 .. n : passed'[i].from + Window < now
          BY <3>2, <4>1, <4>2
        <5>2. passed'[n + 1].from = now
          BY <3>2, <3>3, <4>1
        <5>3. \A i \in 1 .. n : passed'[i].from \in Int
          BY <3>2, <3>3
        <5>4. \A i \in 1 .. n : i + Limit <= n =>
                                passed'[i + Limit].from # passed'[i].from
          BY <3>2
        <5>5. \A i \in 1 .. n + 1 :
                passed'[i].from = resetAt' - Window <=> i > n + 1 - count'
          BY <3>2, <4>1, <5>1, <5>2, <5>3
        <5>6. ASSUME NEW i \in 1 .. n + 1, i + Limit <= n + 1
              PROVE  passed'[i + Limit].from # passed'[i].from
          <6>1. i \in 1 .. n /\ i + Limit \in Nat
            BY <3>2, <5>6
          <6>2. CASE i + Limit <= n
            BY <5>4, <6>1, <6>2
          <6>3. CASE i + Limit = n + 1
            <7>1. passed'[i + Limit].from = now
              BY <5>2, <6>3
            <7>2. passed'[i].from + Window < now
              BY <5>1, <6>1
            <7>3. passed'[i].from \in Int
              BY <5>3, <6>1
            <7>. QED
              BY <7>1, <7>2, <7>3
          <6>4. n \in Nat /\ i + Limit <= n + 1
            BY <3>2, <5>6
          <6>5. i + Limit <= n \/ i + Limit = n + 1
            BY ONLY <6>1, <6>4
          <6>. QED
            BY <6>2, <6>3, <6>5
        <5>. QED
          BY <3>2, <4>1, <5>5, <5>6
      <4>. QED
        BY <3>4, <4>3, <4>4
    <3>6. CASE now <= resetAt
      <4>1. resetAt' = resetAt /\ count' = count + 1 /\ count < Limit
        BY <1>3, <2>2, <3>1, <3>6 DEF Allow, Refreshed
      <4>2. Windows'
        BY <2>0, <3>1, <3>2, <3>3, <3>6, <4>1
      <4>3. Counted'
        <5>1. passed'[n + 1].from = resetAt - Window
          BY <3>2, <3>3, <4>1
        <5>2. \A i \in 1 .. n : i + Limit <= n =>
                                passed'[i + Limit].from # passed'[i].from
          BY <3>2
        <5>3. \A i \in 1 .. n :
                passed'[i].from = resetAt - Window <=> i > n - count
          BY <3>2
        <5>4. \A i \in 1 .. n + 1 :
                passed'[i].from = resetAt' - Window <=> i > n + 1 - count'
          BY <3>2, <4>1, <5>1, <5>3
        <5>5. ASSUME NEW i \in 1 .. n + 1, i + Limit <= n + 1
              PROVE  passed'[i + Limit].from # passed'[i].from
          <6>1. i \in 1 .. n /\ i + Limit \in Nat
            BY <3>2, <5>5
          <6>2. CASE i + Limit <= n
            BY <5>2, <6>1, <6>2
          <6>3. CASE i + Limit = n + 1
            <7>1. passed'[i + Limit].from = resetAt - Window
              BY <5>1, <6>3
            <7>2. ~(i > n - count)
              BY <3>2, <4>1, <6>1, <6>3
            <7>3. passed'[i].from # resetAt - Window
              BY <5>3, <6>1, <7>2
            <7>. QED
              BY <7>1, <7>3
          <6>4. n \in Nat /\ i + Limit <= n + 1
            BY <3>2, <5>5
          <6>5. i + Limit <= n \/ i + Limit = n + 1
            BY ONLY <6>1, <6>4
          <6>. QED
            BY <6>2, <6>3, <6>5
        <5>. QED
          BY <3>2, <4>1, <5>4, <5>5
      <4>. QED
        BY <3>4, <4>2, <4>3
    <3>. QED
      BY <3>5, <3>6
  <2>. QED
    BY <1>3, <2>1, <2>2 DEF Allow
<1>4. CASE UNCHANGED vars
  BY <1>4 DEF vars
<1>. QED
  BY <1>1, <1>2, <1>3, <1>4 DEF Next

THEOREM Invariance == Spec => []IInv
  BY IInvInit, IInvNext, PTL DEF Spec

(* The arithmetic of three attempts of which no two share a window. *)
LEMMA TwoWindows ==
  \A w, iAt, iFrom, jFrom, kFrom, kAt \in Int :
    /\ iAt <= iFrom + w /\ iFrom + w < jFrom
    /\ jFrom + w < kFrom /\ kFrom <= kAt
    => kAt > iAt + w
  OBVIOUS

(* Wherever a span of one window begins, at most twice the limit is let
   through in it: the two windows it can touch hold at most the limit each. *)
THEOREM TwiceTheLimit == Spec => []SlidingBound
<1>1. ASSUME IInv PROVE SlidingBound
  <2>. SUFFICES ASSUME NEW i \in 1 .. Len(passed), i + 2 * Limit <= Len(passed)
                PROVE  passed[i + 2 * Limit].at > passed[i].at + Window
    BY DEF SlidingBound
  <2>. DEFINE j == i + Limit
              k == j + Limit
  <2>1. /\ Limit \in Nat \ {0} /\ Window \in Nat \ {0}
        /\ i \in 1 .. Len(passed) /\ j \in 1 .. Len(passed)
        /\ k \in 1 .. Len(passed) /\ i < j /\ j < k /\ k = i + 2 * Limit
    BY <1>1, SizesAssumption DEF IInv, TypeInv
  <2>2. \A l \in 1 .. Len(passed) : passed[l].at \in Int /\ passed[l].from \in Int
    <3>1. \A l \in 1 .. Len(passed) : passed[l] \in Attempt
      BY <1>1, ElementOfSeq DEF IInv, TypeInv
    <3>. QED
      BY <3>1 DEF Attempt
  <2>3. passed[i].from + Window < passed[j].from
    BY <1>1, <2>1 DEF IInv, Windows, Counted
  <2>4. passed[j].from + Window < passed[k].from
    BY <1>1, <2>1 DEF IInv, Windows, Counted
  <2>5. /\ passed[i].at <= passed[i].from + Window
        /\ passed[k].from <= passed[k].at
    BY <1>1, <2>1 DEF IInv, Windows
  <2>6. passed[k].at > passed[i].at + Window
    <3>1. /\ passed[i].at \in Int /\ passed[i].from \in Int
          /\ passed[j].from \in Int
          /\ passed[k].from \in Int /\ passed[k].at \in Int
      BY <2>1, <2>2
    <3>2. Window \in Int
      BY <2>1
    <3>. HIDE DEF j, k
    <3>. QED
      BY <3>1, <3>2, <2>3, <2>4, <2>5, TwoWindows
  <2>. QED
    BY <2>1, <2>6
<1>. QED
  BY <1>1, Invariance, PTL

(* A refusal always has the full limit of attempts behind it, all within the
   last window. *)
THEOREM RefusalsJustified == Spec => RefusedOnlyAtLimit
<1>. DEFINE Justified ==
       \A r \in Requests : pc[r] = "resolved" /\ pc'[r] = "refused" =>
         /\ Len(passed) >= Limit
         /\ passed[Len(passed) - Limit + 1].at + Window >= now
<1>1. ASSUME IInv, [Next]_vars, NEW r \in Requests,
             pc[r] = "resolved", pc'[r] = "refused"
      PROVE  /\ Len(passed) >= Limit
             /\ passed[Len(passed) - Limit + 1].at + Window >= now
  <2>. USE SizesAssumption DEF IInv, TypeInv
  <2>1. Allow(r) /\ pc'[r] = "refused"
    <3>1. ~Tick /\ ~UNCHANGED vars
      BY <1>1 DEF Tick, vars
    <3>2. PICK q \in Requests : Resolve(q) \/ Allow(q)
      BY <1>1, <3>1 DEF Next
    <3>3. q = r /\ ~Resolve(q)
      BY <1>1, <3>2 DEF Resolve, Allow
    <3>. QED
      BY <1>1, <3>2, <3>3
  <2>2. now <= resetAt /\ count >= Limit
    BY <1>1, <2>1 DEF Allow, Refreshed
  <2>. DEFINE f == Len(passed) - Limit + 1
  <2>3. count = Limit /\ Len(passed) >= Limit /\ f \in 1 .. Len(passed)
    BY <1>1, <2>2 DEF Counted
  <2>4. passed[f].at \in Int /\ passed[f].from \in Int
    <3>1. passed[f] \in Attempt
      BY <1>1, <2>3, ElementOfSeq
    <3>. QED
      BY <3>1 DEF Attempt
  <2>5. passed[f].from = resetAt - Window
    BY <1>1, <2>3 DEF Counted
  <2>6. passed[f].from <= passed[f].at
    BY <1>1, <2>3 DEF Windows
  <2>. QED
    BY <1>1, <2>2, <2>3, <2>4, <2>5, <2>6
<1>2. IInv /\ [Next]_vars => [Justified]_vars
  BY <1>1
<1>. QED
  BY <1>2, Invariance, PTL DEF Spec, RefusedOnlyAtLimit
=============================================================================
