----------------------------- MODULE FramePacing -----------------------------
(***************************************************************************)
(* What the compositor promises its clients, without saying how it wakes   *)
(* up: while it is visible, content gets on screen and every commit gets   *)
(* its frame callback, one frame is drawn per tick unless the operating    *)
(* system asks for one, and no callback is released for content that a     *)
(* visible compositor has not drawn.  FrameLoop implements it.             *)
(***************************************************************************)
CONSTANT Content   \* what can be out of date on screen

VARIABLES
  visible,  \* there is a surface to draw to
  unseen,   \* content newer than what is on screen
  owed,     \* commits that wait for their frame callback
  spent,    \* the frame of this tick is drawn
  front     \* the app is in front, where ticks are let through

vars == <<visible, unseen, owed, spent, front>>

Init == visible = FALSE /\ unseen = {} /\ owed = {} /\ spent = FALSE /\ front = FALSE

\* A frame shows everything; drawing one may lose the surface instead.
Draw(pending) ==
  \/ visible' = TRUE /\ unseen' = {} /\ spent' = TRUE
  \/ visible' = FALSE /\ unseen' = pending /\ UNCHANGED spent

\* New content and new commits, drawn at once if this tick's frame is left.
Work(content, commits) ==
  /\ owed' = owed \cup commits
  /\ IF visible /\ ~spent /\ unseen \cup content # {}
       THEN Draw(unseen \cup content)
       ELSE unseen' = unseen \cup content /\ UNCHANGED <<visible, spent>>

\* The display is about to refresh: draw what is left, then release.
Tick ==
  /\ visible
  /\ owed # {} \/ unseen # {}
  /\ owed' = {}
  /\ \/ visible' = TRUE /\ unseen' = {} /\ spent' \in BOOLEAN
     \/ visible' = FALSE /\ unseen' = unseen /\ spent' = FALSE

\* A tick that finds nothing to do, or nowhere to do it.
IdleTick ==
  /\ ~visible \/ (owed = {} /\ unseen = {})
  /\ spent' \in BOOLEAN
  /\ visible' \in {visible, FALSE}
  /\ UNCHANGED <<unseen, owed>>

\* The operating system wants a frame, whether or not one is left.
ForcedFrame(shown) ==
  /\ visible \/ shown
  /\ \/ visible' = TRUE /\ unseen' = {} /\ spent' = TRUE
     \/ visible' = FALSE /\ UNCHANGED unseen /\ spent' = FALSE
  /\ UNCHANGED owed

Hide == visible /\ visible' = FALSE /\ UNCHANGED <<unseen, owed, spent>>

Keep == UNCHANGED <<visible, unseen, owed, spent>>

\* The app comes to the front, and finds a surface or not, or leaves it, where
\* a monitor's surface stays.
Come == ~front /\ front' = TRUE /\ (ForcedFrame(TRUE) \/ Keep)
Leave == front /\ front' = FALSE /\ (Hide \/ Keep)

Next ==
  \/ /\ UNCHANGED front
     /\ \/ \E content, commits \in SUBSET Content : Work(content, commits)
        \/ Tick
        \/ IdleTick
        \/ \E shown \in BOOLEAN : ForcedFrame(shown)
  \/ Come \/ Leave

Spec == Init /\ [][Next]_vars

\* Ticks keep coming in front while there is something to do for them.
FairSpec == Spec /\ WF_vars(front /\ Tick /\ UNCHANGED front)

=============================================================================
