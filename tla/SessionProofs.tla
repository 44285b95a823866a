---------------------------- MODULE SessionProofs ---------------------------
(* Proofs about Session, for any number of tabs, of requests under way and any *)
(* lifetimes.                                                                *)
EXTENDS Session, TLAPS

(* What a request that is no older than the last login or logout has read. *)
RequestsFresh ==
  ~late => \A q \in asked :
             ~q.old /\ q.read # None => signed # None /\ q.read.token = signed

SInv == TypeOK /\ SessionKeepsToken /\ RequestsFresh

Requests == [tab : Tabs, read : Sessions \cup {None},
             signing : BOOLEAN, old : BOOLEAN]

LEMMA SessionInit == Init => SInv
<1>. SUFFICES ASSUME Init PROVE SInv
  OBVIOUS
<1>1. cookie = None /\ asked = {} /\ late = FALSE /\ signed = None
  BY DEF Init
<1>2. SessionKeepsToken /\ RequestsFresh
  BY <1>1 DEF SessionKeepsToken, RequestsFresh
<1>3. now \in 0 .. MaxTime
  BY LivesAssumption DEF Init
<1>4. TypeOK
  BY <1>1, <1>3 DEF Init, TypeOK
<1>. QED
  BY <1>2, <1>4 DEF SInv

(* A session request reads what the cookie holds. *)
LEMMA RequestReads ==
  ASSUME SInv, NEW t \in Tabs
  PROVE  /\ Request(t, FALSE) \in Requests
         /\ ~late /\ Request(t, FALSE).read # None =>
              signed # None /\ Request(t, FALSE).read.token = signed
<1>1. /\ Read \in Sessions \cup {None}
      /\ Read # None => cookie # None /\ Read.token = cookie.token
  <2>1. CASE ~HasSession
    BY <2>1 DEF Read
  <2>2. CASE HasSession
    <3>1. cookie \in Sessions /\ cookie # None
      BY <2>2 DEF HasSession, SInv, TypeOK
    <3>2. now + SessionLife \in 0 .. MaxTime + SessionLife
      BY LivesAssumption DEF SInv, TypeOK
    <3>. QED
      BY <2>2, <3>1, <3>2 DEF Read, Sessions
  <2>. QED
    BY <2>1, <2>2
<1>2. Request(t, FALSE).read = Read
  BY DEF Request
<1>. QED
  BY <1>1, <1>2 DEF Request, Requests, SInv, SessionKeepsToken

LEMMA OutdatedTyped ==
  ASSUME TypeOK
  PROVE  Outdated \subseteq Requests /\ \A q \in Outdated : q.old
<1>. SUFFICES ASSUME NEW q \in Outdated PROVE q \in Requests /\ q.old
  OBVIOUS
<1>1. PICK r \in asked : q = [r EXCEPT !.old = TRUE]
  BY DEF Outdated
<1>2. r \in Requests
  BY DEF TypeOK, Requests
<1>. QED
  BY <1>1, <1>2 DEF Requests

LEMMA SessionStep == SInv /\ [Next]_vars => SInv'
<1>. SUFFICES ASSUME SInv, [Next]_vars PROVE SInv'
  OBVIOUS
<1>t. TypeOK /\ asked \subseteq Requests
  BY DEF SInv, TypeOK, Requests
<1>. USE LivesAssumption, NoneAssumption
     DEF SInv, SessionKeepsToken, RequestsFresh, tabVars
<1>1. CASE Tick
  BY <1>1 DEF Tick, TypeOK
<1>2. ASSUME NEW t \in Tabs, Submit(t) \/ ServerError(t) \/ Enter(t) \/ Call(t)
      PROVE  SInv'
  BY <1>2 DEF Submit, ServerError, Enter, Guarded, Call, TypeOK
<1>3. ASSUME NEW t \in Tabs, Decided(t) PROVE SInv'
  <2>1. now + TokenLife \in Tokens
    BY DEF TypeOK, Tokens
  <2>. QED
    BY <1>3, <2>1 DEF Decided, TypeOK
<1>4. ASSUME NEW t \in Tabs, Authorize(t) PROVE SInv'
  <2>1. grant[t] \in Tokens /\ grant[t] # None
    BY <1>4 DEF Authorize, TypeOK
  <2>2. cookie' \in Sessions /\ cookie'.token = grant[t]
    BY <1>4, <2>1 DEF Authorize, Sessions, TypeOK
  <2>. DEFINE own == [tab |-> t, read |-> cookie', signing |-> TRUE, old |-> FALSE]
  <2>3. own \in Requests /\ own.read.token = grant[t]
    BY <2>2 DEF Requests
  <2>4. asked' = Outdated \cup {own}
    BY <1>4 DEF Authorize, SignedIn
  <2>5. signed' = grant[t] /\ late' = FALSE
    BY <1>4 DEF Authorize, SignedIn
  <2>6. asked' \subseteq Requests
    BY <1>t, <2>3, <2>4, OutdatedTyped
  <2>7. RequestsFresh'
    BY <1>t, <2>1, <2>3, <2>4, <2>5, OutdatedTyped
  <2>8. TypeOK'
    BY <1>4, <2>1, <2>2, <2>5, <2>6
       DEF Authorize, SignedIn, TypeOK, Requests
  <2>. QED
    BY <2>1, <2>2, <2>5, <2>7, <2>8
<1>5. ASSUME NEW t \in Tabs, Visit(t) \/ Focus(t) PROVE SInv'
  <2>1. /\ asked' \subseteq asked \cup {Request(t, FALSE)}
        /\ UNCHANGED <<now, cookie, signed, late>>
    BY <1>5 DEF Visit, Focus
  <2>2. asked' \subseteq Requests
    BY <1>t, <2>1, RequestReads
  <2>3. RequestsFresh'
    BY <2>1, RequestReads
  <2>4. TypeOK'
    BY <1>5, <2>1, <2>2 DEF Visit, Focus, Guarded, TypeOK, Requests
  <2>. QED
    BY <2>1, <2>3, <2>4
<1>6. ASSUME NEW t \in Tabs, Logout(t) PROVE SInv'
  <2>1. /\ asked' = Outdated
        /\ cookie' = None /\ signed' = None /\ late' = FALSE
    BY <1>6 DEF Logout
  <2>2. asked' \subseteq Requests /\ \A q \in asked' : q.old
    BY <1>t, <2>1, OutdatedTyped
  <2>. QED
    BY <1>6, <2>1, <2>2 DEF Logout, TypeOK, Requests
<1>7. ASSUME NEW q \in asked, Told(q) \/ Untold(q) PROVE SInv'
  <2>1. /\ q.tab \in Tabs /\ q.read \in Sessions \cup {None}
        /\ q.signing \in BOOLEAN /\ q.old \in BOOLEAN
    BY <1>t DEF Requests
  <2>2. Token(q.read) \in Tokens \cup {None}
    BY <2>1 DEF Token, Sessions
  <2>3. asked' \subseteq asked /\ UNCHANGED <<now, page, grant, refused, signed>>
    BY <1>7 DEF Told, Untold, Over
  <2>4. \/ UNCHANGED <<cookie, late>>
        \/ q.read # None /\ cookie' = q.read /\ late' = (late \/ q.old)
    BY <1>7 DEF Told, Untold
  <2>5. /\ form' = form \/ form' = [form EXCEPT ![q.tab] = "pushing"]
        /\ \E k \in Tokens \cup {None} : known' = [known EXCEPT ![q.tab] = k]
    BY <1>7, <2>2 DEF Told, Untold, Over
  <2>6. TypeOK'
    <3>1. cookie' \in Sessions \cup {None} /\ late' \in BOOLEAN
      BY <2>1, <2>4 DEF TypeOK
    <3>2. /\ known' \in [Tabs -> Tokens \cup {None}]
          /\ form' \in [Tabs -> {"idle", "sent", "granted", "denied",
                                 "reading", "pushing"}]
          /\ \A t \in Tabs : form'[t] = "granted" => form[t] = "granted"
      BY <2>1, <2>5 DEF TypeOK
    <3>. QED
      BY <1>t, <2>3, <3>1, <3>2 DEF TypeOK
  <2>7. SessionKeepsToken'
    <3>1. CASE UNCHANGED <<cookie, late>>
      BY <2>3, <3>1
    <3>2. CASE q.read # None /\ cookie' = q.read /\ late' = (late \/ q.old)
      <4>1. ~late' => ~late /\ ~q.old
        BY <3>2
      <4>2. ~late' => signed # None /\ q.read.token = signed
        BY <3>2, <4>1
      <4>. QED
        BY <2>3, <3>2, <4>2
    <3>. QED
      BY <2>4, <3>1, <3>2
  <2>8. RequestsFresh'
    BY <2>1, <2>3, <2>4
  <2>. QED
    BY <2>6, <2>7, <2>8
<1>8. CASE UNCHANGED vars
  BY <1>8 DEF vars, TypeOK
<1>. QED
  BY <1>1, <1>2, <1>3, <1>4, <1>5, <1>6, <1>7, <1>8 DEF Next

LEMMA Invariance == Spec => []SInv
<1>. QED
  BY SessionInit, SessionStep, PTL DEF Spec

(* TypeOK: the cookie is a session with a token or there is none, and so is
   what every request under way has read. *)
THEOREM TypeCorrect == Spec => []TypeOK
<1>1. SInv => TypeOK
  BY DEF SInv
<1>. QED
  BY <1>1, Invariance, PTL

(* SessionKeepsToken: however requests and answers of the tabs interleave with
   logins and logouts, the session is that of the last login, and there is none
   after a logout, until the answer to an older request replaces it. *)
THEOREM TokenOfLastLogin == Spec => []SessionKeepsToken
<1>1. SInv => SessionKeepsToken
  BY DEF SInv
<1>. QED
  BY <1>1, Invariance, PTL
=============================================================================
