------------------------------ MODULE LogTail ------------------------------
(***************************************************************************)
(* How the log viewer follows the output: LogStream's viewer receives      *)
(* lines, React puts them on the page later, and the browser tells of a    *)
(* scroll later still.  Heights are counted in lines of 20 pixels; an      *)
(* event with escaped line breaks stands for several lines rendered        *)
(* together.                                                               *)
(***************************************************************************)
EXTENDS Integers

CONSTANTS
  View,      \* lines the <pre> shows at once
  MaxLines,  \* lines the viewer keeps
  Slack,     \* threshold of handleScroll
  Burst      \* bound: lines received between two renders

ASSUME HeightsAssumption ==
  /\ {View, MaxLines, Slack, Burst} \subseteq Nat
  /\ 0 < View /\ View < MaxLines

VARIABLES
  pending,   \* lines in the state of the component that are not on the page
  shown,     \* lines on the page
  top,       \* scrollTop
  scrolled,  \* a scroll event waits to be dispatched
  atBottom,  \* isAtBottomRef
  user       \* history: "never" scrolled, or where the last scroll ended,
             \* "near" the end or "away", unless the viewer has moved since

vars == <<pending, shown, top, scrolled, atBottom, user>>

(* scrollTop of the last page, the largest the browser accepts. *)
End == IF shown > View THEN shown - View ELSE 0

Below == End - top

Init ==
  /\ pending = 0 /\ shown = 0 /\ top = 0
  /\ scrolled = FALSE /\ atBottom = TRUE
  /\ user = "never"

(* A mutant: the line is stored, and nothing scrolls. *)
LineUnscrolled ==
  /\ pending < Burst
  /\ pending' = pending + 1
  /\ UNCHANGED <<shown, top, scrolled, atBottom, user>>

(* onmessage scrolls at once, to the height of what is on the page by then. *)
Line ==
  /\ pending < Burst
  /\ pending' = pending + 1
  /\ top' = IF atBottom THEN End ELSE top
  /\ scrolled' = (scrolled \/ top' # top)
  /\ user' = IF user = "away" /\ top' # top THEN "near" ELSE user
  /\ UNCHANGED <<shown, atBottom>>

Render ==
  /\ pending > 0
  /\ shown' = IF shown + pending > MaxLines THEN MaxLines ELSE shown + pending
  /\ pending' = 0
  /\ UNCHANGED <<top, scrolled, atBottom, user>>

(* The user scrolls, up or down. *)
Scroll ==
  \E to \in (0 .. End) \ {top} :
    /\ top' = to
    /\ user' = IF End - to < Slack THEN "near" ELSE "away"
    /\ scrolled' = TRUE
    /\ UNCHANGED <<pending, shown, atBottom>>

(* A mutant: the viewer only ever learns that it is at the end. *)
HandleScrollSticks ==
  /\ scrolled
  /\ scrolled' = FALSE
  /\ atBottom' = (atBottom \/ Below < Slack)
  /\ UNCHANGED <<pending, shown, top, user>>

HandleScroll ==
  /\ scrolled
  /\ scrolled' = FALSE
  /\ atBottom' = (Below < Slack)
  /\ UNCHANGED <<pending, shown, top, user>>

Next == Line \/ Render \/ Scroll \/ HandleScroll

Spec == Init /\ [][Next]_vars

-----------------------------------------------------------------------------
(* Properties *)

(* Once the viewer has heard of it, a user who scrolled up is left alone, also
   when lines came and were rendered in between. *)
Paused == user = "away" /\ ~scrolled => ~atBottom

(* While the viewer follows, the end is never further below than what the last
   render added, although every scroll is to a height that is out of date. *)
BehindByARender == user = "never" /\ atBottom => Below <= Burst

(* phase-06-jobs-ui-pages.md:181 says "Log viewer
   auto-scrolls while at bottom; if user scrolls up, auto-scroll pauses until
   they return": only the user ends the following. *)
Follows == user = "never" => atBottom
=============================================================================
