------------------------------ MODULE Session ------------------------------
(***************************************************************************)
(* Sessions of the frontend: the tabs of one browser, the cookie NextAuth  *)
(* keeps for them and the token it holds for the backend.  Requests of the *)
(* session endpoint take their time: what a request reads is settled when  *)
(* it goes out (the endpoint has no state but the cookie it is sent), the  *)
(* renewed cookie is set when the answer arrives.  That a login is denied  *)
(* stands for a wrong password, the limiter of RateLimit, and a backend    *)
(* that cannot be reached.                                                 *)
(***************************************************************************)
EXTENDS Naturals, FiniteSets

CONSTANTS
  Tabs,         \* tabs of the browser, each with one login at a time
  None,
  TokenLife,    \* the backend's token, 24 hours
  SessionLife,  \* the cookie, 30 days from when it was last read
  MaxTime,      \* bound: the clock stops here
  MaxAsked      \* bound: session requests of a tab at a time, its login's
                \* own not counted

ASSUME LivesAssumption ==
  /\ {TokenLife, SessionLife, MaxTime, MaxAsked} \subseteq Nat
  /\ 0 < TokenLife /\ TokenLife < SessionLife

(* A token is the time it expires. *)
Tokens == 0 .. MaxTime + TokenLife
ASSUME NoneAssumption == None \notin Tokens

VARIABLES
  now,     \* the clock
  cookie,  \* None or the session: its token and until when it holds
  asked,   \* the session requests under way
  page,    \* "login" or "dashboard"
  form,    \* the login of a tab: where it is
  grant,   \* the token the backend gave that login
  known,   \* the token useSession gives the pages of the tab, or None
  refused, \* the tab's last call of the API got a 401, whose message it shows
  \* History, read by properties only
  signed,  \* the token of the last login, None after a logout
  late     \* a request from before that login or logout set the cookie since

tabVars == <<page, form, grant, known, refused>>
vars == <<now, cookie, asked, tabVars, signed, late>>

HasSession == cookie # None /\ now < cookie.until

(* The session callback. *)
Token(s) == IF s = None THEN None ELSE s.token

(* A mutant: the jwt callback stores what it is given, also when it is not
   called for a login. *)
ReadForgets == IF HasSession
                 THEN [token |-> None, until |-> now + SessionLife] ELSE None

(* The session endpoint: the jwt callback keeps the token, the cookie is to be
   set anew. *)
Read == IF HasSession
          THEN [token |-> cookie.token, until |-> now + SessionLife] ELSE None

(* getSession: a request of tab t. *)
Request(t, signing) ==
  [tab |-> t, read |-> Read, signing |-> signing, old |-> FALSE]

OfTab(t) == {q \in asked : q.tab = t}

(* What is under way at a login or a logout was sent before it. *)
Outdated == {[q EXCEPT !.old = TRUE] : q \in asked}

Init ==
  /\ now = 0
  /\ cookie = None /\ asked = {}
  /\ page = [t \in Tabs |-> "login"]
  /\ form = [t \in Tabs |-> "idle"]
  /\ grant = [t \in Tabs |-> None]
  /\ known = [t \in Tabs |-> None]
  /\ refused = [t \in Tabs |-> FALSE]
  /\ signed = None /\ late = FALSE

Tick ==
  /\ now < MaxTime
  /\ now' = now + 1
  /\ UNCHANGED <<cookie, asked, tabVars, signed, late>>

-----------------------------------------------------------------------------
(* Logging in *)

(* The button is disabled while the form is submitting. *)
Submit(t) ==
  /\ page[t] = "login" /\ form[t] = "idle"
  /\ form' = [form EXCEPT ![t] = "sent"]
  /\ UNCHANGED <<now, cookie, asked, page, grant, known, refused, signed, late>>

(* What the backend answers to the call of authorize. *)
Decided(t) ==
  /\ form[t] = "sent"
  /\ \/ /\ form' = [form EXCEPT ![t] = "granted"]
        /\ grant' = [grant EXCEPT ![t] = now + TokenLife]
     \/ /\ form' = [form EXCEPT ![t] = "denied"]
        /\ UNCHANGED grant
  /\ UNCHANGED <<now, cookie, asked, page, known, refused, signed, late>>

(* The answer of signIn arrives with a new session, and signIn reads it. *)
SignedIn(t) ==
  /\ signed' = grant[t] /\ late' = FALSE
  /\ asked' = Outdated \cup
       {[tab |-> t, read |-> cookie', signing |-> TRUE, old |-> FALSE]}
  /\ form' = [form EXCEPT ![t] = "reading"]
  /\ grant' = [grant EXCEPT ![t] = None]
  /\ UNCHANGED <<now, page, known, refused>>

(* A mutant: authorize does not look at res.ok, so a denial is a session with
   no token. *)
AuthorizeUnchecked(t) ==
  /\ form[t] \in {"granted", "denied"}
  /\ cookie' = [token |-> grant[t], until |-> now + SessionLife]
  /\ SignedIn(t)

Authorize(t) ==
  /\ form[t] = "granted"
  /\ cookie' = [token |-> grant[t], until |-> now + SessionLife]
  /\ SignedIn(t)

(* Whatever the reason, the form says "Invalid username or password", and can
   be submitted again. *)
ServerError(t) ==
  /\ form[t] = "denied"
  /\ form' = [form EXCEPT ![t] = "idle"]
  /\ UNCHANGED <<now, cookie, asked, page, grant, known, refused, signed, late>>

(* The guard of the dashboard's layout reads the session and renews nothing. *)
Guarded(t) ==
  page' = [page EXCEPT ![t] = IF HasSession THEN "dashboard" ELSE "login"]

(* router.push *)
Enter(t) ==
  /\ form[t] = "pushing"
  /\ Guarded(t)
  /\ form' = [form EXCEPT ![t] = "idle"]
  /\ UNCHANGED <<now, cookie, asked, grant, known, refused, signed, late>>

-----------------------------------------------------------------------------
(* Being logged in *)

(* A page is opened anew, / or one of the dashboard: what the tab had under
   way is given up, and its SessionProvider asks for the session. *)
Visit(t) ==
  /\ Guarded(t)
  /\ asked' = (asked \ OfTab(t)) \cup {Request(t, FALSE)}
  /\ known' = [known EXCEPT ![t] = None]
  /\ form' = [form EXCEPT ![t] = "idle"]
  /\ grant' = [grant EXCEPT ![t] = None]
  /\ refused' = [refused EXCEPT ![t] = FALSE]
  /\ UNCHANGED <<now, cookie, signed, late>>

(* SessionProvider asks again when the window is focused, and when another tab
   tells that it has. *)
Focus(t) ==
  /\ Cardinality(OfTab(t)) < MaxAsked
  /\ asked' = asked \cup {Request(t, FALSE)}
  /\ UNCHANGED <<now, cookie, tabVars, signed, late>>

(* The request q is over; signIn goes on when it was its own. *)
Over(q) ==
  /\ asked' = asked \ {q}
  /\ form' = IF q.signing THEN [form EXCEPT ![q.tab] = "pushing"] ELSE form
  /\ UNCHANGED <<now, page, grant, refused, signed>>

(* A mutant: the answer renews the cookie and does not reach useSession. *)
ToldKeeps(q) ==
  /\ q \in asked
  /\ IF q.read = None THEN UNCHANGED <<cookie, late>>
                      ELSE cookie' = q.read /\ late' = (late \/ q.old)
  /\ known' = IF known[q.tab] = None
                THEN [known EXCEPT ![q.tab] = Token(q.read)] ELSE known
  /\ Over(q)

(* The answer arrives: it renews the cookie with what the request read, and
   useSession gives the pages that token. *)
Told(q) ==
  /\ q \in asked
  /\ IF q.read = None THEN UNCHANGED <<cookie, late>>
                      ELSE cookie' = q.read /\ late' = (late \/ q.old)
  /\ known' = [known EXCEPT ![q.tab] = Token(q.read)]
  /\ Over(q)

(* A request that fails is taken for no session. *)
Untold(q) ==
  /\ q \in asked
  /\ known' = [known EXCEPT ![q.tab] = None]
  /\ Over(q)
  /\ UNCHANGED <<cookie, late>>

(* The action runs on the server: no tab is told, this one is redirected. *)
Logout(t) ==
  /\ page[t] = "dashboard"
  /\ cookie' = None /\ signed' = None /\ late' = FALSE
  /\ asked' = Outdated
  /\ page' = [page EXCEPT ![t] = "login"]
  /\ UNCHANGED <<now, form, grant, known, refused>>

(* A call of the API by a page, whatever token it has. *)
Call(t) ==
  /\ page[t] = "dashboard"
  /\ refused' = [refused EXCEPT ![t] = known[t] = None \/ now >= known[t]]
  /\ UNCHANGED <<now, cookie, asked, page, form, grant, known, signed, late>>

-----------------------------------------------------------------------------
Next ==
  \/ Tick
  \/ \E t \in Tabs :
       \/ Submit(t) \/ Decided(t) \/ Authorize(t) \/ ServerError(t) \/ Enter(t)
       \/ Visit(t) \/ Focus(t) \/ Logout(t) \/ Call(t)
  \/ \E q \in asked : Told(q) \/ Untold(q)

Spec == Init /\ [][Next]_vars

(* Every tab that has a session is focused again and again, its requests are
   over in the end, and its page polls. A tab without one does not ask when it
   is focused. *)
FairSpec ==
  /\ Spec
  /\ \A t \in Tabs :
       /\ WF_vars(known[t] # None /\ Focus(t))
       /\ WF_vars(\E q \in OfTab(t) : Told(q) \/ Untold(q))
       /\ WF_vars(Call(t))

-----------------------------------------------------------------------------
(* Properties *)

Sessions == [token : Tokens, until : 0 .. MaxTime + SessionLife]

TypeOK ==
  /\ now \in 0 .. MaxTime
  /\ cookie \in Sessions \cup {None}
  /\ asked \subseteq [tab : Tabs, read : Sessions \cup {None},
                      signing : BOOLEAN, old : BOOLEAN]
  /\ page \in [Tabs -> {"login", "dashboard"}]
  /\ form \in [Tabs -> {"idle", "sent", "granted", "denied", "reading",
                        "pushing"}]
  /\ grant \in [Tabs -> Tokens \cup {None}]
  /\ \A t \in Tabs : form[t] = "granted" => grant[t] # None
  /\ known \in [Tabs -> Tokens \cup {None}]
  /\ refused \in [Tabs -> BOOLEAN]
  /\ signed \in Tokens \cup {None} /\ late \in BOOLEAN

(* Whatever the tabs read, renewed and were told since, the session holds the
   token of the last login, and there is none after a logout: only the answer
   to a request from before that login or logout can put another one in its
   place (the jwt callback renews whatever session the request came with). *)
SessionKeepsToken ==
  ~late /\ cookie # None => signed # None /\ cookie.token = signed

(* If the browser stays without a session, a tab that is left on the dashboard
   gets nothing but 401 in the end: the other tabs go on with the token they
   have only until they are focused. *)
LogoutReaches ==
  \A t \in Tabs :
    <>[](~HasSession /\ page[t] = "dashboard") => <>[]refused[t]
=============================================================================
