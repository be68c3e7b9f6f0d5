--------------------------- MODULE FrameLoopProofs ---------------------------
(***************************************************************************)
(* Theorems about FrameLoop, for any clients, faults and bounds.           *)
(*                                                                         *)
(* A handler is a composition of functions on the loop record, so each     *)
(* invariant is first a lemma about those functions, and the step proofs   *)
(* only put the lemmas together.                                           *)
(***************************************************************************)
EXTENDS FrameLoop, TLAPS

(***************************************************************************)
(* Types                                                                   *)
(***************************************************************************)

LEMMA UpType == ASSUME NEW n \in 0 .. MaxCount PROVE Up(n) \in 0 .. MaxCount
BY BoundsType DEF Up

LEMMA ZeroCount == 0 \in 0 .. MaxCount
BY BoundsType

LEMMA RequestType ==
  ASSUME NEW s \in LoopState PROVE Request(s) \in LoopState
<1>1. s.posted + 1 \in Nat
  BY DEF LoopState
<1>2. QED
  BY <1>1 DEF Request, LoopState

LEMMA TickedType ==
  ASSUME NEW s \in LoopState PROVE Ticked(s) \in LoopState
BY DEF Ticked, LoopState

LEMMA RenderFrameType ==
  ASSUME NEW s \in LoopState, NEW ok \in BOOLEAN
  PROVE  RenderFrame(s, ok) \in LoopState
<1>1. Up(s.drawn) \in 0 .. MaxCount
  BY UpType DEF LoopState
<1>2. QED
  BY <1>1 DEF RenderFrame, LoopState

LEMMA ScheduleFrameType ==
  ASSUME NEW s \in LoopState, NEW ok \in BOOLEAN
  PROVE  ScheduleFrame(s, ok) \in LoopState
<1> DEFINE after == IF s.render_pending /\ ~s.rendered_since_vsync
                      THEN RenderFrame(s, ok) ELSE s
<1>1. after \in LoopState
  BY RenderFrameType
<1>2. Request(after) \in LoopState
  BY <1>1, RequestType
<1>3. QED
  BY <1>1, <1>2 DEF ScheduleFrame

LEMMA ReleaseCallbacksType ==
  ASSUME NEW s \in LoopState PROVE ReleaseCallbacks(s) \in LoopState
<1>1. Up(s.released) \in 0 .. MaxCount
  BY UpType DEF LoopState
<1>2. QED
  BY <1>1 DEF ReleaseCallbacks, LoopState

LEMMA OnVsyncType ==
  ASSUME NEW s \in LoopState, NEW ok \in BOOLEAN
  PROVE  OnVsync(s, ok) \in LoopState
<1> DEFINE ticked == [Ticked(s) EXCEPT !.rendered_since_vsync = FALSE]
           drawn  == IF ticked.render_pending THEN RenderFrame(ticked, ok) ELSE ticked
<1>1. ticked \in LoopState
  BY TickedType DEF LoopState
<1>2. drawn \in LoopState
  BY <1>1, RenderFrameType
<1>3. ScheduleFrame(ReleaseCallbacks(drawn), ok) \in LoopState
  BY <1>2, ReleaseCallbacksType, ScheduleFrameType
<1>4. QED
  BY <1>1, <1>3 DEF OnVsync

LEMMA RedrawType ==
  ASSUME NEW s \in LoopState, NEW ok \in BOOLEAN
  PROVE  Redraw(s, ok) \in LoopState
<1> DEFINE asked == [s EXCEPT !.render_pending = TRUE, !.rendered_since_vsync = FALSE]
<1>1. asked \in LoopState
  BY DEF LoopState
<1>2. ScheduleFrame(asked, ok) \in LoopState
  BY <1>1, ScheduleFrameType
<1>3. QED
  BY <1>2 DEF Redraw, LoopState

LEMMA ApplyRequestsType ==
  ASSUME NEW s \in LoopState, NEW reqs, reqs \subseteq Requests
  PROVE  ApplyRequests(s, reqs) \in LoopState
<1> DEFINE damaging == { r \in reqs : r.kind \in {"buffer", "cursor"} }
           commits  == { r \in reqs : r.kind \in {"buffer", "bare"} }
           unseen   == s.unseen \cup { r.client : r \in damaging }
           owed     == s.owed \cup { r.client : r \in commits }
<1>1. unseen \in SUBSET (Client \cup {Pointer}) /\ owed \in SUBSET Client
  BY DEF LoopState, Requests
<1>2. /\ (s.render_pending \/ damaging # {}) \in BOOLEAN
      /\ (s.frame_pending \/ commits # {}) \in BOOLEAN
  OBVIOUS
<1>3. ApplyRequests(s, reqs)
        = [s EXCEPT !.render_pending = s.render_pending \/ damaging # {},
                    !.frame_pending = s.frame_pending \/ commits # {},
                    !.unseen = unseen, !.owed = owed]
  BY DEF ApplyRequests
<1> HIDE DEF damaging, commits, unseen, owed
<1>4. QED
  BY <1>1, <1>2, <1>3 DEF LoopState

LEMMA HandledType ==
  ASSUME NEW s \in LoopState PROVE Handled(s) \in LoopState
BY DEF Handled, LoopState

LEMMA InitType == Init => TypeOK
<1> SUFFICES ASSUME Init PROVE TypeOK
  OBVIOUS
<1>1. loop \in LoopState
  <2>1. PICK choreographer \in BOOLEAN :
          loop = [renderer |-> FALSE, render_pending |-> FALSE,
                  frame_pending |-> FALSE, rendered_since_vsync |-> FALSE,
                  choreographer |-> choreographer, requested_at |-> "none",
                  deadline |-> "none", posted |-> 0,
                  awake |-> TRUE, control_flow |-> "Wait",
                  unseen |-> {}, owed |-> {}, outbox |-> {},
                  drawn |-> 0, released |-> 0]
    BY DEF Init
  <2>2. QED
    BY <2>1, ZeroCount DEF LoopState
<1>2. queue \in Seq({"WaylandReady", "Vsync"})
  BY DEF Init
<1>3. QED
  BY <1>1, <1>2 DEF Init, TypeOK

\* Spec keeps every variable in its type.
THEOREM TypeCorrect == Spec => []TypeOK
<1>1. Init => TypeOK
  BY InitType
<1>2. TypeOK /\ [Next]_vars => TypeOK'
  <2> SUFFICES ASSUME TypeOK, [Next]_vars PROVE TypeOK'
    OBVIOUS
  <2> USE DEF TypeOK
  <2>1. ASSUME NEW r \in Requests, ClientRequest(r) PROVE TypeOK'
    BY <2>1 DEF ClientRequest
  <2>2. CASE WatcherReady
    BY <2>2 DEF WatcherReady
  <2>3. CASE WatcherRearmed
    BY <2>3 DEF WatcherRearmed
  <2>4. CASE WatcherStops
    BY <2>4 DEF WatcherStops
  <2>5. CASE Refresh
    <3> DEFINE fired == [i \in 1 .. loop.posted |-> "Vsync"]
    <3>1. fired \in Seq({"WaylandReady", "Vsync"})
      BY DEF LoopState
    <3>2. queue' \in Seq({"WaylandReady", "Vsync"})
      <4>1. queue' = queue \o fired
        BY <2>5 DEF Refresh
      <4> HIDE DEF fired
      <4>2. QED
        BY <3>1, <4>1
    <3>3. loop' \in LoopState
      BY <2>5, ZeroCount DEF Refresh, LoopState
    <3>4. QED
      BY <2>5, <3>2, <3>3 DEF Refresh
  <2>6. CASE LoseCallback
    BY <2>6 DEF LoseCallback, LoopState
  <2>7. CASE PeriodElapses
    BY <2>7, ZeroCount DEF PeriodElapses, LoopState
  <2>8. CASE RequestAges
    BY <2>8 DEF RequestAges, LoopState
  <2>9. ASSUME NEW ok \in BOOLEAN, DispatchClients(ok) PROVE TypeOK'
    <3>1. loop' \in LoopState
      BY <2>9, ApplyRequestsType, ScheduleFrameType, HandledType DEF DispatchClients
    <3>2. QED
      BY <2>9, <3>1 DEF DispatchClients
  <2>10. ASSUME NEW ok \in BOOLEAN, VsyncArrives(ok) PROVE TypeOK'
    <3>1. loop' \in LoopState
      BY <2>10, OnVsyncType, HandledType DEF VsyncArrives
    <3>2. QED
      BY <2>10, <3>1 DEF VsyncArrives
  <2>11. CASE WakeAtDeadline
    BY <2>11, HandledType DEF WakeAtDeadline
  <2>12. ASSUME NEW ok \in BOOLEAN, MoveCursor(ok) PROVE TypeOK'
    <3>1. [loop EXCEPT !.render_pending = TRUE, !.unseen = @ \cup {Pointer}] \in LoopState
      BY DEF LoopState
    <3>2. QED
      BY <2>12, <3>1, ScheduleFrameType, HandledType DEF MoveCursor
  <2>13. ASSUME NEW ok \in BOOLEAN, RedrawRequested(ok) PROVE TypeOK'
    BY <2>13, RedrawType, HandledType DEF RedrawRequested
  <2>14. ASSUME NEW ok \in BOOLEAN, Idle(ok) PROVE TypeOK'
    <3> DEFINE ticked == IF loop.deadline = "due" THEN OnVsync(loop, ok) ELSE loop
    <3>1. ticked \in LoopState
      BY OnVsyncType
    <3>2. loop' = [ticked EXCEPT !.outbox = {}, !.awake = FALSE,
                     !.control_flow = IF ticked.deadline # "none"
                                      THEN "WaitUntil" ELSE "Wait"]
      BY <2>14 DEF Idle
    <3> HIDE DEF ticked
    <3>3. loop' \in LoopState
      BY <3>1, <3>2 DEF LoopState
    <3>4. QED
      BY <2>14, <3>3 DEF Idle
  <2>15. ASSUME NEW bound \in BOOLEAN, NEW ok \in BOOLEAN, Resumed(bound, ok) PROVE TypeOK'
    <3>1. [loop EXCEPT !.renderer = TRUE] \in LoopState
      BY DEF LoopState
    <3>2. Handled(Redraw([loop EXCEPT !.renderer = TRUE], ok)) \in LoopState
      BY <3>1, RedrawType, HandledType
    <3>3. [Handled(loop) EXCEPT !.control_flow = "Wait"] \in LoopState
      BY HandledType DEF LoopState
    <3>4. QED
      BY <2>15, <3>2, <3>3 DEF Resumed
  <2>16. ASSUME NEW trackpad \in BOOLEAN, Suspended(trackpad) PROVE TypeOK'
    BY <2>16 DEF Suspended, Handled, LoopState
  <2>17. CASE UNCHANGED vars
    BY <2>17 DEF vars
  <2>18. QED
    BY <2>1, <2>2, <2>3, <2>4, <2>5, <2>6, <2>7, <2>8, <2>9, <2>10, <2>11, <2>12,
       <2>13, <2>14, <2>15, <2>16, <2>17
       DEF Next, WatcherStep, TimeStep, LoopStep, UserEvent
<1>3. QED
  BY <1>1, <1>2, PTL DEF Spec


(***************************************************************************)
(* No damage is forgotten and visible work has asked for a tick            *)
(***************************************************************************)

\* DamageRemembered and WorkRequestsTick, of any loop state.
Remembers(s) ==
  /\ s.unseen # {} => s.render_pending
  /\ s.owed # {} => s.frame_pending

Asks(s) ==
  s.renderer /\ (s.render_pending \/ s.frame_pending) => s.requested_at # "none"

LEMMA RequestKeeps ==
  ASSUME NEW s \in LoopState
  PROVE  /\ Remembers(s) => Remembers(Request(s))
         /\ Request(s).requested_at = "recent"
         /\ Request(s).unseen = s.unseen
         /\ Request(s).owed = s.owed
         /\ Request(s).renderer = s.renderer
BY DEF Request, LoopState, Remembers

LEMMA RenderFrameKeeps ==
  ASSUME NEW s \in LoopState, NEW ok \in BOOLEAN
  PROVE  /\ Remembers(s) => Remembers(RenderFrame(s, ok))
         /\ RenderFrame(s, ok).owed = s.owed
         /\ \/ RenderFrame(s, ok).unseen = {}
            \/ ~RenderFrame(s, ok).renderer /\ RenderFrame(s, ok).unseen = s.unseen
BY DEF RenderFrame, LoopState, Remembers

\* Whatever led to it, schedule_frame leaves no visible work without a tick.
LEMMA ScheduleFrameAsks ==
  ASSUME NEW s \in LoopState, NEW ok \in BOOLEAN
  PROVE  /\ Remembers(s) => Remembers(ScheduleFrame(s, ok))
         /\ Asks(ScheduleFrame(s, ok))
         /\ ScheduleFrame(s, ok).owed = s.owed
         /\ ScheduleFrame(s, ok).unseen \in {{}, s.unseen}
<1> DEFINE after == IF s.render_pending /\ ~s.rendered_since_vsync
                      THEN RenderFrame(s, ok) ELSE s
<1>1. after \in LoopState
  BY RenderFrameType
<1>2. /\ Remembers(s) => Remembers(after)
      /\ after.owed = s.owed
      /\ after.unseen \in {{}, s.unseen}
  BY RenderFrameKeeps
<1>3. ScheduleFrame(s, ok) =
        CASE ~s.renderer -> s
          [] s.renderer /\ (after.render_pending \/ after.frame_pending) -> Request(after)
          [] OTHER -> after
  BY DEF ScheduleFrame
<1> HIDE DEF after
<1>4. CASE ~s.renderer
  BY <1>3, <1>4 DEF Asks
<1>5. CASE s.renderer /\ (after.render_pending \/ after.frame_pending)
  <2>1. ScheduleFrame(s, ok) = Request(after)
    BY <1>3, <1>5
  <2>2. QED
    BY <2>1, <1>1, <1>2, RequestKeeps DEF Asks
<1>6. CASE s.renderer /\ ~(after.render_pending \/ after.frame_pending)
  <2>1. ScheduleFrame(s, ok) = after
    BY <1>3, <1>6
  <2>2. QED
    BY <2>1, <1>2, <1>6 DEF Asks
<1>7. QED
  BY <1>4, <1>5, <1>6

LEMMA ReleaseCallbacksKeeps ==
  ASSUME NEW s \in LoopState
  PROVE  /\ Remembers(s) => Remembers(ReleaseCallbacks(s))
         /\ ReleaseCallbacks(s).unseen = s.unseen
         /\ ReleaseCallbacks(s).renderer = s.renderer
         /\ ReleaseCallbacks(s).render_pending = s.render_pending
BY DEF ReleaseCallbacks, LoopState, Remembers

LEMMA OnVsyncKeeps ==
  ASSUME NEW s \in LoopState, NEW ok \in BOOLEAN, Remembers(s)
  PROVE  /\ Remembers(OnVsync(s, ok))
         /\ Asks(OnVsync(s, ok))
         /\ s.renderer => \/ OnVsync(s, ok).unseen = {}
                          \/ ~OnVsync(s, ok).renderer
         /\ ~s.renderer => OnVsync(s, ok).owed = s.owed
<1> DEFINE ticked == [Ticked(s) EXCEPT !.rendered_since_vsync = FALSE]
           drawn  == IF ticked.render_pending THEN RenderFrame(ticked, ok) ELSE ticked
           released == ReleaseCallbacks(drawn)
<1>1. /\ ticked \in LoopState
      /\ Remembers(ticked)
      /\ ticked.renderer = s.renderer
      /\ ticked.owed = s.owed
  BY TickedType DEF LoopState, Ticked, Remembers
<1>2. /\ drawn \in LoopState
      /\ Remembers(drawn)
      /\ drawn.unseen = {} \/ ~drawn.renderer
  <2> HIDE DEF ticked
  <2>1. CASE ticked.render_pending
    BY <2>1, <1>1, RenderFrameType, RenderFrameKeeps
  <2>2. CASE ~ticked.render_pending
    BY <2>2, <1>1 DEF Remembers
  <2>3. QED
    BY <2>1, <2>2
<1>3. OnVsync(s, ok) = IF ~s.renderer THEN ticked ELSE ScheduleFrame(released, ok)
  BY DEF OnVsync
<1>4. /\ released \in LoopState
      /\ Remembers(released)
      /\ released.unseen = drawn.unseen
      /\ released.renderer = drawn.renderer
  BY <1>2, ReleaseCallbacksType, ReleaseCallbacksKeeps
<1> HIDE DEF ticked, drawn, released
<1>5. CASE ~s.renderer
  BY <1>1, <1>3, <1>5 DEF Asks
<1>6. CASE s.renderer
  <2>1. /\ Remembers(ScheduleFrame(released, ok))
        /\ Asks(ScheduleFrame(released, ok))
        /\ ScheduleFrame(released, ok).unseen \in {{}, released.unseen}
    BY <1>4, ScheduleFrameAsks
  <2>2. ~released.renderer => ScheduleFrame(released, ok) = released
    BY DEF ScheduleFrame
  <2>3. QED
    BY <1>2, <1>3, <1>4, <1>6, <2>1, <2>2
<1>7. QED
  BY <1>5, <1>6

LEMMA RedrawKeeps ==
  ASSUME NEW s \in LoopState, NEW ok \in BOOLEAN, Remembers(s)
  PROVE  /\ Remembers(Redraw(s, ok))
         /\ Asks(Redraw(s, ok))
         /\ Redraw(s, ok).owed = s.owed
<1> DEFINE asked == [s EXCEPT !.render_pending = TRUE, !.rendered_since_vsync = FALSE]
           framed == ScheduleFrame(asked, ok)
<1>1. asked \in LoopState /\ Remembers(asked) /\ asked.owed = s.owed
  BY DEF LoopState, Remembers
<1>2. /\ framed \in LoopState
      /\ Remembers(framed)
      /\ Asks(framed)
      /\ framed.owed = s.owed
  BY <1>1, ScheduleFrameType, ScheduleFrameAsks
<1>3. Redraw(s, ok) = [framed EXCEPT !.drawn = s.drawn]
  BY DEF Redraw
<1> HIDE DEF asked, framed
<1>4. QED
  BY <1>2, <1>3 DEF LoopState, Remembers, Asks

LEMMA ApplyRequestsKeeps ==
  ASSUME NEW s \in LoopState, Remembers(s), NEW reqs, reqs \subseteq Requests
  PROVE  /\ Remembers(ApplyRequests(s, reqs))
         /\ s.owed \subseteq ApplyRequests(s, reqs).owed
BY DEF ApplyRequests, LoopState, Remembers

LEMMA HandledKeeps ==
  ASSUME NEW s \in LoopState
  PROVE  /\ Remembers(s) => Remembers(Handled(s))
         /\ Asks(s) => Asks(Handled(s))
         /\ Handled(s).owed = s.owed
         /\ Handled(s).unseen = s.unseen
         /\ Handled(s).renderer = s.renderer
BY DEF Handled, LoopState, Remembers, Asks

\* The inductive invariant: neither half needs the other, but the action
\* property below needs the first.
FrameInv == TypeOK /\ Remembers(loop) /\ Asks(loop)

LEMMA IdleKeeps ==
  ASSUME NEW ok \in BOOLEAN, FrameInv, Idle(ok)
  PROVE  /\ Remembers(loop') /\ Asks(loop')
         /\ \/ loop.owed = loop'.owed
            \/ loop'.unseen = {} \/ ~loop'.renderer
<1> DEFINE ticked == IF loop.deadline = "due" THEN OnVsync(loop, ok) ELSE loop
<1>1. /\ ticked \in LoopState
      /\ Remembers(ticked) /\ Asks(ticked)
      /\ \/ loop.owed = ticked.owed
         \/ ticked.unseen = {} \/ ~ticked.renderer
  BY OnVsyncType, OnVsyncKeeps DEF FrameInv, TypeOK
<1>2. loop' = [ticked EXCEPT !.outbox = {}, !.awake = FALSE,
                 !.control_flow = IF ticked.deadline # "none"
                                  THEN "WaitUntil" ELSE "Wait"]
  BY DEF Idle
<1> HIDE DEF ticked
<1>3. QED
  BY <1>1, <1>2 DEF LoopState, Remembers, Asks

\* One step: the invariant again, and callbacks released only for content
\* that is on screen.
LEMMA FrameStep ==
  ASSUME FrameInv, [Next]_vars, TypeOK'
  PROVE  /\ FrameInv'
         /\ loop.owed # {} /\ loop'.owed = {} => loop'.unseen = {} \/ ~loop'.renderer
<1> DEFINE Goal == /\ Remembers(loop') /\ Asks(loop')
                   /\ \/ loop.owed \subseteq loop'.owed
                      \/ loop'.unseen = {} \/ ~loop'.renderer
<1>s. SUFFICES Goal
  BY DEF FrameInv, TypeOK
<1> USE DEF FrameInv
<1>t. loop \in LoopState
  BY DEF TypeOK
<1>1. ASSUME NEW r \in Requests, ClientRequest(r) PROVE Goal
  BY <1>1 DEF ClientRequest
<1>2. CASE WatcherStep
  BY <1>2 DEF WatcherStep, WatcherReady, WatcherRearmed, WatcherStops
<1>3. CASE TimeStep
  BY <1>3, <1>t DEF TimeStep, Refresh, LoseCallback, PeriodElapses, RequestAges,
     LoopState, Remembers, Asks
<1>4. ASSUME NEW ok \in BOOLEAN, DispatchClients(ok) PROVE Goal
  <2> DEFINE applied == ApplyRequests(loop, wire)
  <2>1. /\ applied \in LoopState
        /\ Remembers(applied)
        /\ loop.owed \subseteq applied.owed
    BY <1>t, ApplyRequestsType, ApplyRequestsKeeps DEF TypeOK
  <2>2. loop' = Handled(ScheduleFrame(applied, ok))
    BY <1>4 DEF DispatchClients
  <2> HIDE DEF applied
  <2>3. QED
    BY <2>1, <2>2, ScheduleFrameType, ScheduleFrameAsks, HandledKeeps
<1>5. ASSUME NEW ok \in BOOLEAN, VsyncArrives(ok) PROVE Goal
  <2>1. loop' = Handled(OnVsync(loop, ok))
    BY <1>5 DEF VsyncArrives
  <2>2. QED
    BY <2>1, <1>t, OnVsyncType, OnVsyncKeeps, HandledKeeps
<1>6. CASE WakeAtDeadline
  BY <1>6, <1>t, HandledKeeps DEF WakeAtDeadline
<1>7. ASSUME NEW ok \in BOOLEAN, MoveCursor(ok) PROVE Goal
  <2> DEFINE moved == [loop EXCEPT !.render_pending = TRUE, !.unseen = @ \cup {Pointer}]
  <2>1. moved \in LoopState /\ Remembers(moved) /\ moved.owed = loop.owed
    BY <1>t DEF LoopState, Remembers
  <2>2. loop' = Handled(ScheduleFrame(moved, ok))
    BY <1>7 DEF MoveCursor
  <2> HIDE DEF moved
  <2>3. QED
    BY <2>1, <2>2, ScheduleFrameType, ScheduleFrameAsks, HandledKeeps
<1>8. ASSUME NEW ok \in BOOLEAN, RedrawRequested(ok) PROVE Goal
  <2>1. loop' = Handled(Redraw(loop, ok))
    BY <1>8 DEF RedrawRequested
  <2>2. QED
    BY <2>1, <1>t, RedrawType, RedrawKeeps, HandledKeeps
<1>9. ASSUME NEW ok \in BOOLEAN, Idle(ok) PROVE Goal
  BY <1>9, IdleKeeps
<1>10. ASSUME NEW bound \in BOOLEAN, NEW ok \in BOOLEAN, Resumed(bound, ok) PROVE Goal
  <2> DEFINE shown == [loop EXCEPT !.renderer = TRUE]
  <2>1. shown \in LoopState /\ Remembers(shown) /\ shown.owed = loop.owed
    BY <1>t DEF LoopState, Remembers
  <2>2. CASE loop' = Handled(Redraw(shown, ok))
    <3> HIDE DEF shown
    <3>1. QED
      BY <2>1, <2>2, RedrawType, RedrawKeeps, HandledKeeps
  <2>3. CASE loop' = [Handled(loop) EXCEPT !.control_flow = "Wait"]
    BY <2>3, <1>t DEF Handled, LoopState, Remembers, Asks
  <2>4. QED
    BY <1>10, <2>2, <2>3 DEF Resumed
<1>11. ASSUME NEW trackpad \in BOOLEAN, Suspended(trackpad) PROVE Goal
  BY <1>11, <1>t DEF Suspended, Handled, LoopState, Remembers, Asks
<1>12. CASE UNCHANGED vars
  BY <1>12 DEF vars
<1>13. QED
  BY <1>1, <1>2, <1>3, <1>4, <1>5, <1>6, <1>7, <1>8, <1>9, <1>10, <1>11, <1>12
     DEF Next, LoopStep, UserEvent

LEMMA FrameInvariant == Spec => []FrameInv
<1>1. Init => FrameInv
  <2>1. Init => loop.unseen = {} /\ loop.owed = {} /\ ~loop.renderer
    BY DEF Init
  <2>2. QED
    BY <2>1, InitType DEF FrameInv, Remembers, Asks
<1>2. FrameInv /\ [Next]_vars /\ TypeOK' => FrameInv'
  BY FrameStep
<1>3. QED
  BY <1>1, <1>2, TypeCorrect, PTL DEF Spec

\* No order of commits, frames, failed frames, hides and redraws makes the
\* flags forget content or a commit.
THEOREM DamageNeverForgotten == Spec => []DamageRemembered
<1>1. FrameInv => DamageRemembered
  BY DEF FrameInv, Remembers, DamageRemembered
<1>2. QED
  BY <1>1, FrameInvariant, PTL

\* Between handlers, visible work has always asked the clock for a tick.
THEOREM WorkAlwaysRequestsTick == Spec => []WorkRequestsTick
<1>1. FrameInv => WorkRequestsTick
  BY DEF FrameInv, Asks, WorkRequestsTick, VisibleWork
<1>2. QED
  BY <1>1, FrameInvariant, PTL

\* Clients are sent on only after a visible compositor has drawn.
THEOREM ReleaseFollowsFrame == Spec => ReleasedOnlyWhenShown
<1>1. FrameInv /\ TypeOK' /\ [Next]_vars
        => [loop.owed # {} /\ loop.owed' = {} => loop.unseen' = {} \/ ~loop.renderer']_vars
  BY FrameStep
<1>2. QED
  BY <1>1, FrameInvariant, TypeCorrect, PTL DEF Spec, ReleasedOnlyWhenShown

(***************************************************************************)
(* User events: what handling and posting one does to the others           *)
(***************************************************************************)

Events == {"WaylandReady", "Vsync"}

At(q, e) == { i \in DOMAIN q : q[i] = e }
Has(q, e) == At(q, e) # {}
AtMostOne(q, e) == \A i, j \in At(q, e) : i = j

LEMMA PopKeepsOther ==
  ASSUME NEW q \in Seq(Events), q # <<>>, NEW e \in Events, Head(q) # e
  PROVE  /\ Has(Tail(q), e) <=> Has(q, e)
         /\ AtMostOne(q, e) => AtMostOne(Tail(q), e)
<1>1. /\ \A i \in At(Tail(q), e) : i + 1 \in At(q, e)
      /\ \A i \in At(q, e) : i - 1 \in At(Tail(q), e)
  BY DEF At
<1>2. At(Tail(q), e) \subseteq Nat
  BY DEF At
<1>3. QED
  BY <1>1, <1>2 DEF Has, AtMostOne

LEMMA PopTakesOnly ==
  ASSUME NEW q \in Seq(Events), q # <<>>, AtMostOne(q, Head(q))
  PROVE  ~Has(Tail(q), Head(q))
<1>1. 1 \in At(q, Head(q))
  BY DEF At
<1>2. \A i \in At(Tail(q), Head(q)) : i + 1 \in At(q, Head(q)) /\ i \in Nat \ {0}
  BY DEF At
<1>3. QED
  BY <1>1, <1>2 DEF Has, AtMostOne

LEMMA HeadIsThere ==
  ASSUME NEW q \in Seq(Events), q # <<>> PROVE Head(q) \in Events /\ Has(q, Head(q))
<1>1. 1 \in At(q, Head(q))
  BY DEF At
<1>2. QED
  BY <1>1 DEF Has

LEMMA AppendAdds ==
  ASSUME NEW q \in Seq(Events), NEW e \in Events, NEW f \in Events
  PROVE  /\ e # f => At(Append(q, e), f) = At(q, f)
         /\ Has(Append(q, e), e)
         /\ ~Has(q, e) => AtMostOne(Append(q, e), e)
<1>1. e # f => At(Append(q, e), f) = At(q, f)
  BY DEF At
<1>2. Len(q) + 1 \in At(Append(q, e), e)
  BY DEF At
<1>3. ~Has(q, e) => At(Append(q, e), e) = {Len(q) + 1}
  BY DEF At, Has
<1>4. QED
  BY <1>1, <1>2, <1>3 DEF Has, AtMostOne

\* The choreographer's callbacks, n of them at once.
Fired(n) == [i \in 1 .. n |-> "Vsync"]

LEMMA FiredAdds ==
  ASSUME NEW q \in Seq(Events), NEW n \in Nat
  PROVE  /\ At(q \o Fired(n), "WaylandReady") = At(q, "WaylandReady")
         /\ Has(q \o Fired(n), "Vsync") <=> Has(q, "Vsync") \/ n > 0
         /\ AtMostOne(q, "Vsync") /\ n <= 1 /\ (n = 1 => ~Has(q, "Vsync"))
              => AtMostOne(q \o Fired(n), "Vsync")
<1> DEFINE all == q \o Fired(n)
<1>1. Fired(n) \in Seq(Events) /\ Len(Fired(n)) = n /\ \A i \in 1 .. n : Fired(n)[i] = "Vsync"
  BY DEF Fired, Events
<1>2. /\ all \in Seq(Events) /\ Len(all) = Len(q) + n
      /\ \A i \in 1 .. Len(q) : all[i] = q[i]
      /\ \A i \in Len(q) + 1 .. Len(q) + n : all[i] = "Vsync"
  BY <1>1
<1> HIDE DEF all
<1>3. At(all, "WaylandReady") = At(q, "WaylandReady")
  BY <1>2 DEF At
<1>4. Has(all, "Vsync") <=> Has(q, "Vsync") \/ n > 0
  <2>1. n > 0 => Len(q) + 1 \in At(all, "Vsync")
    BY <1>2 DEF At
  <2>2. At(q, "Vsync") \subseteq At(all, "Vsync")
    BY <1>2 DEF At
  <2>3. n = 0 => At(all, "Vsync") = At(q, "Vsync")
    BY <1>2 DEF At
  <2>4. QED
    BY <2>1, <2>2, <2>3 DEF Has
<1>5. AtMostOne(q, "Vsync") /\ n <= 1 /\ (n = 1 => ~Has(q, "Vsync")) => AtMostOne(all, "Vsync")
  <2>1. n = 0 => At(all, "Vsync") = At(q, "Vsync")
    BY <1>2 DEF At
  <2>2. n = 1 /\ ~Has(q, "Vsync") => At(all, "Vsync") = {Len(q) + 1}
    BY <1>2 DEF At, Has
  <2>3. QED
    BY <2>1, <2>2 DEF AtMostOne
<1>6. QED
  BY <1>3, <1>4, <1>5 DEF all

(***************************************************************************)
(* The watcher's handshake: one token, its event or its rearm              *)
(***************************************************************************)

Token(w, q, n) ==
  IF w = "waiting" THEN \/ n = 1 /\ ~Has(q, "WaylandReady")
                        \/ n = 0 /\ Has(q, "WaylandReady") /\ AtMostOne(q, "WaylandReady")
  ELSE n = 0 /\ ~Has(q, "WaylandReady")

HandshakeInv == TypeOK /\ Token(watcher, queue, rearms)

LEMMA HandshakeStep == ASSUME HandshakeInv, [Next]_vars PROVE Token(watcher, queue, rearms)'
<1> USE DEF HandshakeInv
<1>t. queue \in Seq(Events) /\ rearms \in Nat
      /\ watcher \in {"none", "polling", "waiting", "stopped"}
  BY DEF TypeOK, Events
<1>e. "WaylandReady" \in Events /\ "Vsync" \in Events
  BY DEF Events
<1>1. ASSUME UNCHANGED <<queue, watcher, rearms>> PROVE Token(watcher, queue, rearms)'
  BY <1>1 DEF Token
<1>2. CASE WatcherReady
  <2>1. /\ Has(queue', "WaylandReady")
        /\ ~Has(queue, "WaylandReady") => AtMostOne(queue', "WaylandReady")
    BY <1>t, <1>e, <1>2, AppendAdds DEF WatcherReady
  <2>2. QED
    BY <1>2, <2>1 DEF WatcherReady, Token
<1>3. CASE WatcherRearmed
  BY <1>t, <1>3 DEF WatcherRearmed, Token
<1>4. CASE WatcherStops
  BY <1>4 DEF WatcherStops, Token
<1>5. CASE Refresh
  <2>1. At(queue', "WaylandReady") = At(queue, "WaylandReady")
    <3>1. loop.posted \in Nat
      BY DEF TypeOK, LoopState
    <3>2. QED
      BY <1>t, <1>5, <3>1, FiredAdds DEF Refresh, Fired
  <2>2. QED
    BY <1>5, <2>1 DEF Refresh, Token, Has, AtMostOne
<1>6. ASSUME NEW ok \in BOOLEAN, DispatchClients(ok)
      PROVE  Token(watcher, queue, rearms)'
  <2>1. Has(queue, "WaylandReady")
    BY <1>t, <1>6, HeadIsThere DEF DispatchClients
  <2>2. watcher = "waiting" /\ rearms = 0 /\ AtMostOne(queue, "WaylandReady")
    BY <2>1 DEF Token
  <2>3. ~Has(queue', "WaylandReady")
    BY <1>t, <1>6, <2>2, PopTakesOnly DEF DispatchClients
  <2>4. QED
    BY <1>6, <2>2, <2>3 DEF DispatchClients, Token
<1>7. ASSUME NEW ok \in BOOLEAN, VsyncArrives(ok)
      PROVE  Token(watcher, queue, rearms)'
  <2>1. /\ Has(queue', "WaylandReady") <=> Has(queue, "WaylandReady")
        /\ AtMostOne(queue, "WaylandReady") => AtMostOne(queue', "WaylandReady")
    BY <1>t, <1>e, <1>7, PopKeepsOther DEF VsyncArrives
  <2>2. QED
    BY <1>7, <2>1 DEF VsyncArrives, Token
<1>8. ASSUME NEW bound \in BOOLEAN, NEW ok \in BOOLEAN, Resumed(bound, ok)
      PROVE  Token(watcher, queue, rearms)'
  BY <1>8 DEF Resumed, Token
<1>9. QED
  BY <1>1, <1>2, <1>3, <1>4, <1>5, <1>6, <1>7, <1>8
     DEF Next, vars, WatcherStep, TimeStep, LoopStep, UserEvent, ClientRequest,
         LoseCallback, PeriodElapses, RequestAges, WakeAtDeadline, MoveCursor,
         RedrawRequested, Idle, Suspended

\* The watcher neither spins nor sleeps through a request: whatever order events
\* and rearms come in, it waits for exactly one of the two.
THEOREM HandshakeHolds == Spec => []WatcherHandshake
<1>1. Init => Token(watcher, queue, rearms)
  BY DEF Init, Token, Has, At
<1>2. TypeOK /\ Token(watcher, queue, rearms) /\ [Next]_vars => Token(watcher, queue, rearms)'
  BY HandshakeStep DEF HandshakeInv
<1>3. Token(watcher, queue, rearms) => WatcherHandshake
  <2>1. \A e : Queued(e) = At(queue, e)
    BY DEF Queued, At
  <2>2. ASSUME Has(queue, "WaylandReady"), AtMostOne(queue, "WaylandReady")
        PROVE  \E i \in Queued("WaylandReady") : Queued("WaylandReady") = {i}
    BY <2>1, <2>2 DEF Has, AtMostOne
  <2>3. QED
    BY <2>1, <2>2 DEF Token, WatcherHandshake, Has
<1>4. QED
  BY <1>1, <1>2, <1>3, TypeCorrect, PTL DEF Spec

(***************************************************************************)
(* The loop sleeps on nothing it owes and on no timer it did not set       *)
(***************************************************************************)

\* Inductive as it stands: every handler but Idle leaves the loop awake.
THEOREM SleepIsSafe == Spec => []SleepsSafely
<1>1. Init => SleepsSafely
  BY DEF Init, SleepsSafely
<1>2. TypeOK /\ SleepsSafely /\ [Next]_vars => SleepsSafely'
  <2> SUFFICES ASSUME TypeOK, SleepsSafely, [Next]_vars PROVE SleepsSafely'
    OBVIOUS
  <2>t. loop \in LoopState
    BY DEF TypeOK
  <2>h. \A s \in LoopState : Handled(s).awake
    BY DEF Handled, LoopState
  <2>1. ASSUME UNCHANGED loop PROVE SleepsSafely'
    BY <2>1 DEF SleepsSafely
  <2>2. ASSUME loop'.awake PROVE SleepsSafely'
    BY <2>2 DEF SleepsSafely
  <2>3. CASE TimeStep
    BY <2>3, <2>t DEF TimeStep, Refresh, LoseCallback, PeriodElapses, RequestAges,
       SleepsSafely, LoopState
  <2>4. ASSUME NEW ok \in BOOLEAN, Idle(ok) PROVE SleepsSafely'
    <3> DEFINE ticked == IF loop.deadline = "due" THEN OnVsync(loop, ok) ELSE loop
    <3>1. ticked \in LoopState
      BY <2>t, OnVsyncType
    <3>2. loop' = [ticked EXCEPT !.outbox = {}, !.awake = FALSE,
                     !.control_flow = IF ticked.deadline # "none"
                                      THEN "WaitUntil" ELSE "Wait"]
      BY <2>4 DEF Idle
    <3> HIDE DEF ticked
    <3>3. QED
      BY <3>1, <3>2 DEF SleepsSafely, LoopState
  <2>5. ASSUME NEW ok \in BOOLEAN, DispatchClients(ok) PROVE loop'.awake
    BY <2>5, <2>t, <2>h, ApplyRequestsType, ScheduleFrameType DEF DispatchClients, TypeOK
  <2>6. ASSUME NEW ok \in BOOLEAN, VsyncArrives(ok) PROVE loop'.awake
    BY <2>6, <2>t, <2>h, OnVsyncType DEF VsyncArrives
  <2>7. ASSUME NEW ok \in BOOLEAN, MoveCursor(ok) PROVE loop'.awake
    <3>1. [loop EXCEPT !.render_pending = TRUE, !.unseen = @ \cup {Pointer}] \in LoopState
      BY <2>t DEF LoopState
    <3>2. QED
      BY <2>7, <2>h, <3>1, ScheduleFrameType DEF MoveCursor
  <2>8. ASSUME NEW ok \in BOOLEAN, RedrawRequested(ok) PROVE loop'.awake
    BY <2>8, <2>t, <2>h, RedrawType DEF RedrawRequested
  <2>9. ASSUME NEW bound \in BOOLEAN, NEW ok \in BOOLEAN, Resumed(bound, ok) PROVE loop'.awake
    <3>1. [loop EXCEPT !.renderer = TRUE] \in LoopState
      BY <2>t DEF LoopState
    <3>2. Redraw([loop EXCEPT !.renderer = TRUE], ok) \in LoopState
      BY <3>1, RedrawType
    <3>3. [Handled(loop) EXCEPT !.control_flow = "Wait"].awake
      BY <2>t DEF Handled, LoopState
    <3>4. QED
      BY <2>9, <2>h, <3>2, <3>3 DEF Resumed
  <2>10. ASSUME NEW trackpad \in BOOLEAN, Suspended(trackpad) PROVE loop'.awake
    BY <2>10, <2>t DEF Suspended, Handled, LoopState
  <2>11. CASE WakeAtDeadline
    BY <2>11, <2>t, <2>2, <2>h DEF WakeAtDeadline
  <2>12. QED
    BY <2>1, <2>2, <2>3, <2>4, <2>5, <2>6, <2>7, <2>8, <2>9, <2>10, <2>11
       DEF Next, vars, WatcherStep, LoopStep, UserEvent, ClientRequest,
           WatcherReady, WatcherRearmed, WatcherStops
<1>3. QED
  BY <1>1, <1>2, TypeCorrect, PTL DEF Spec

(***************************************************************************)
(* The pace.  No request is left without a tick, as long as the platform   *)
(* loses no callback.  If none is late either, there is one tick at most,  *)
(* and a refresh has room for two frames: each is either drawn, or can be  *)
(* because this refresh's is left, or will be by a tick that is there.     *)
(***************************************************************************)

\* `q`: a Vsync event is in the queue.
Wakes(s, q) == s.requested_at # "none" => s.posted > 0 \/ q \/ s.deadline # "none"

Clock(s, q) ==
  /\ s.choreographer => s.deadline = "none"
  /\ ~s.choreographer => s.posted = 0 /\ ~q
  /\ s.requested_at = "none" => s.posted = 0 /\ ~q /\ s.deadline = "none"
  /\ s.requested_at # "old"
  /\ s.posted <= 1
  /\ s.posted = 1 => ~q

\* `tick`: one is there for the loop to handle.
Frames(s, tick) ==
  s.drawn + (IF s.renderer /\ ~s.rendered_since_vsync THEN 1 ELSE 0)
          + (IF tick THEN 1 ELSE 0)

Paced(s, tick) ==
  /\ Frames(s, tick) <= 2
  /\ s.released <= 1
  /\ tick => s.released = 0

LEMMA RequestPace ==
  ASSUME NEW s \in LoopState, NEW q \in BOOLEAN
  PROVE  /\ Wakes(s, q) => Wakes(Request(s), q)
         /\ Clock(s, q) => Clock(Request(s), q)
         /\ \A tick \in BOOLEAN : Paced(s, tick) => Paced(Request(s), tick)
<1>1. CASE s.requested_at = "recent"
  BY <1>1 DEF Request
<1>2. CASE s.requested_at # "recent" /\ s.choreographer
  <2>1. Request(s) = [s EXCEPT !.requested_at = "recent", !.posted = s.posted + 1]
    BY <1>2 DEF Request
  <2>2. QED
    BY <1>2, <2>1 DEF LoopState, Wakes, Clock, Paced, Frames
<1>3. CASE s.requested_at # "recent" /\ ~s.choreographer
  <2>1. Request(s) = [s EXCEPT !.requested_at = "recent", !.deadline = "armed"]
    BY <1>3 DEF Request
  <2>2. QED
    BY <1>3, <2>1 DEF LoopState, Wakes, Clock, Paced, Frames
<1>4. QED
  BY <1>1, <1>2, <1>3

LEMMA RenderFramePace ==
  ASSUME NEW s \in LoopState, NEW ok \in BOOLEAN, NEW q \in BOOLEAN
  PROVE  /\ Wakes(s, q) => Wakes(RenderFrame(s, ok), q)
         /\ Clock(s, q) => Clock(RenderFrame(s, ok), q)
         /\ s.renderer /\ ~s.rendered_since_vsync
              => \A tick \in BOOLEAN : Paced(s, tick) => Paced(RenderFrame(s, ok), tick)
<1>1. CASE ok
  <2>1. RenderFrame(s, ok) = [s EXCEPT !.render_pending = FALSE, !.rendered_since_vsync = TRUE,
                                       !.unseen = {}, !.drawn = Up(s.drawn)]
    BY <1>1 DEF RenderFrame
  <2>2. Up(s.drawn) \in Nat /\ Up(s.drawn) <= s.drawn + 1 /\ s.drawn \in Nat
    BY BoundsType DEF Up, LoopState
  <2>3. QED
    BY <2>1, <2>2 DEF LoopState, Wakes, Clock, Paced, Frames
<1>2. CASE ~ok
  <2>1. RenderFrame(s, ok) = [s EXCEPT !.renderer = FALSE]
    BY <1>2 DEF RenderFrame
  <2>2. s.drawn \in Nat
    BY BoundsType DEF LoopState
  <2>3. QED
    BY <2>1, <2>2 DEF LoopState, Wakes, Clock, Paced, Frames
<1>3. QED
  BY <1>1, <1>2

LEMMA ScheduleFramePace ==
  ASSUME NEW s \in LoopState, NEW ok \in BOOLEAN, NEW q \in BOOLEAN
  PROVE  /\ Wakes(s, q) => Wakes(ScheduleFrame(s, ok), q)
         /\ Clock(s, q) => Clock(ScheduleFrame(s, ok), q)
         /\ \A tick \in BOOLEAN : Paced(s, tick) => Paced(ScheduleFrame(s, ok), tick)
<1> DEFINE after == IF s.render_pending /\ ~s.rendered_since_vsync
                      THEN RenderFrame(s, ok) ELSE s
<1>1. CASE ~s.renderer
  BY <1>1 DEF ScheduleFrame
<1>2. CASE s.renderer
  <2>1. after \in LoopState
    BY RenderFrameType
  <2>2. /\ Wakes(s, q) => Wakes(after, q)
        /\ Clock(s, q) => Clock(after, q)
        /\ \A tick \in BOOLEAN : Paced(s, tick) => Paced(after, tick)
    BY <1>2, RenderFramePace
  <2>3. ScheduleFrame(s, ok) \in {after, Request(after)}
    BY <1>2 DEF ScheduleFrame
  <2> HIDE DEF after
  <2>4. QED
    BY <2>1, <2>2, <2>3, RequestPace
<1>3. QED
  BY <1>1, <1>2

\* The tick in hand is the one there was: handling it, whoever posted it, leaves
\* the refresh room for what it draws and for what it releases.
LEMMA OnVsyncPace ==
  ASSUME NEW s \in LoopState, NEW ok \in BOOLEAN, NEW q \in BOOLEAN
  PROVE  /\ Wakes(OnVsync(s, ok), q)
         /\ Clock(Ticked(s), q) => Clock(OnVsync(s, ok), q)
         /\ Paced(s, TRUE) => Paced(OnVsync(s, ok), FALSE)
<1> DEFINE ticked == [Ticked(s) EXCEPT !.rendered_since_vsync = FALSE]
           drawn  == IF ticked.render_pending THEN RenderFrame(ticked, ok) ELSE ticked
           released == ReleaseCallbacks(drawn)
<1>n. s.drawn \in Nat /\ s.released \in Nat
  BY BoundsType DEF LoopState
<1>1. /\ ticked \in LoopState
      /\ Wakes(ticked, q)
      /\ Clock(Ticked(s), q) => Clock(ticked, q)
      /\ Paced(s, TRUE) => Paced(ticked, FALSE) /\ ticked.released = 0
      /\ ticked.renderer = s.renderer
      /\ ~ticked.rendered_since_vsync
  <2>1. /\ ticked.drawn = s.drawn /\ ticked.released = s.released
        /\ ticked.renderer = s.renderer
        /\ ~ticked.rendered_since_vsync
        /\ ticked.requested_at = "none"
    BY DEF LoopState, Ticked
  <2>2. ticked \in LoopState
    BY TickedType DEF LoopState
  <2>3. Clock(Ticked(s), q) => Clock(ticked, q)
    BY TickedType DEF LoopState, Clock
  <2>4. Paced(s, TRUE) => Paced(ticked, FALSE) /\ ticked.released = 0
    <3> HIDE DEF ticked
    <3>1. QED
      BY <1>n, <2>1 DEF Paced, Frames
  <2>5. QED
    BY <2>1, <2>2, <2>3, <2>4 DEF Wakes
<1>2. CASE ~s.renderer
  BY <1>1, <1>2 DEF OnVsync
<1>3. CASE s.renderer
  <2>1. /\ drawn \in LoopState
        /\ Wakes(drawn, q)
        /\ Clock(Ticked(s), q) => Clock(drawn, q)
        /\ Paced(s, TRUE) => Paced(drawn, FALSE) /\ drawn.released = 0
    <3> HIDE DEF ticked
    <3>1. CASE ticked.render_pending
      <4>1. RenderFrame(ticked, ok).released = ticked.released
        BY <1>1 DEF RenderFrame, LoopState
      <4>2. QED
        BY <1>1, <1>3, <3>1, <4>1, RenderFrameType, RenderFramePace
    <3>2. CASE ~ticked.render_pending
      BY <1>1, <3>2
    <3>3. QED
      BY <3>1, <3>2
  <2> HIDE DEF drawn
  <2>2. /\ released \in LoopState
        /\ Wakes(released, q)
        /\ Clock(Ticked(s), q) => Clock(released, q)
        /\ Paced(s, TRUE) => Paced(released, FALSE)
    <3>1. Up(0) \in Nat /\ Up(0) <= 1
      BY BoundsType DEF Up
    <3>2. drawn.drawn \in Nat /\ drawn.released \in Nat
      BY <2>1, BoundsType DEF LoopState
    <3>3. released \in LoopState
      BY <2>1, ReleaseCallbacksType
    <3>4. CASE drawn.frame_pending
      <4>1. released = [drawn EXCEPT !.frame_pending = FALSE, !.owed = {},
                                     !.outbox = drawn.outbox \cup drawn.owed,
                                     !.released = Up(drawn.released)]
        BY <3>4 DEF ReleaseCallbacks
      <4>2. QED
        BY <2>1, <3>1, <3>2, <3>3, <4>1 DEF LoopState, Wakes, Clock, Paced, Frames
    <3>5. CASE ~drawn.frame_pending
      BY <2>1, <3>3, <3>5 DEF ReleaseCallbacks
    <3>6. QED
      BY <3>4, <3>5
  <2>3. OnVsync(s, ok) = ScheduleFrame(released, ok)
    BY <1>3 DEF OnVsync, drawn
  <2> HIDE DEF released
  <2>4. QED
    BY <2>2, <2>3, ScheduleFramePace
<1>4. QED
  BY <1>2, <1>3

\* A frame the operating system asks for does not count, and uses up this
\* refresh's own unless it fails.
LEMMA RedrawPace ==
  ASSUME NEW s \in LoopState, NEW ok \in BOOLEAN, NEW q \in BOOLEAN, NEW tick \in BOOLEAN
  PROVE  /\ Wakes(s, q) => Wakes(Redraw(s, ok), q)
         /\ Clock(s, q) => Clock(Redraw(s, ok), q)
         /\ s.drawn + (IF tick THEN 1 ELSE 0) <= 2 /\ s.released <= 1 /\ (tick => s.released = 0)
              => Paced(Redraw(s, ok), tick)
<1> DEFINE asked == [s EXCEPT !.render_pending = TRUE, !.rendered_since_vsync = FALSE]
           framed == ScheduleFrame(asked, ok)
<1>1. /\ asked \in LoopState
      /\ Wakes(s, q) => Wakes(asked, q)
      /\ Clock(s, q) => Clock(asked, q)
      /\ asked.released = s.released
  BY DEF LoopState, Wakes, Clock
<1>2. /\ framed \in LoopState
      /\ Wakes(s, q) => Wakes(framed, q)
      /\ Clock(s, q) => Clock(framed, q)
  BY <1>1, ScheduleFrameType, ScheduleFramePace
<1>3. framed.released = s.released /\ (framed.renderer => framed.rendered_since_vsync)
  <2> DEFINE drawn == RenderFrame(asked, ok)
  <2>1. /\ drawn \in LoopState
        /\ drawn.released = s.released
        /\ drawn.renderer => drawn.rendered_since_vsync
    <3>1. asked.released = s.released
      BY <1>1
    <3> HIDE DEF asked
    <3>2. drawn \in LoopState
      BY <1>1, RenderFrameType
    <3>3. CASE ok
      <4>1. drawn = [asked EXCEPT !.render_pending = FALSE, !.rendered_since_vsync = TRUE,
                                  !.unseen = {}, !.drawn = Up(asked.drawn)]
        BY <3>3 DEF RenderFrame
      <4>2. QED
        BY <1>1, <3>1, <3>2, <4>1 DEF LoopState
    <3>4. CASE ~ok
      <4>1. drawn = [asked EXCEPT !.renderer = FALSE]
        BY <3>4 DEF RenderFrame
      <4>2. QED
        BY <1>1, <3>1, <3>2, <4>1 DEF LoopState
    <3>5. QED
      BY <3>3, <3>4
  <2>2. Request(drawn).released = drawn.released
        /\ Request(drawn).renderer = drawn.renderer
        /\ Request(drawn).rendered_since_vsync = drawn.rendered_since_vsync
    <3> HIDE DEF drawn
    <3>1. QED
      BY <2>1 DEF Request, LoopState
  <2>3. framed \in {drawn, Request(drawn)} \/ (~s.renderer /\ framed = asked)
    BY DEF ScheduleFrame, LoopState
  <2>4. ~s.renderer => framed = asked /\ ~asked.renderer
    BY DEF ScheduleFrame, LoopState
  <2>5. QED
    <3> HIDE DEF asked, framed, drawn
    <3>1. QED
      BY <1>1, <2>1, <2>2, <2>3, <2>4
<1>4. Redraw(s, ok) = [framed EXCEPT !.drawn = s.drawn]
  BY DEF Redraw
<1> HIDE DEF asked, framed
<1>n. s.drawn \in Nat /\ s.released \in Nat
  BY BoundsType DEF LoopState
<1>5. QED
  BY <1>n, <1>2, <1>3, <1>4 DEF LoopState, Wakes, Clock, Paced, Frames

\* Whether the timer is due is nothing schedule_frame or a redraw decides.
LEMMA DueStays ==
  ASSUME NEW s \in LoopState, NEW ok \in BOOLEAN, NEW q \in BOOLEAN, Clock(s, q)
  PROVE  /\ ScheduleFrame(s, ok).deadline = "due" <=> s.deadline = "due"
         /\ Redraw(s, ok).deadline = "due" <=> s.deadline = "due"
<1>1. ASSUME NEW t \in LoopState, Clock(t, q)
      PROVE  Request(t).deadline = "due" <=> t.deadline = "due"
  BY <1>1 DEF Request, Clock, LoopState
<1>2. ASSUME NEW t \in LoopState, Clock(t, q)
      PROVE  ScheduleFrame(t, ok).deadline = "due" <=> t.deadline = "due"
  <2> DEFINE after == IF t.render_pending /\ ~t.rendered_since_vsync
                        THEN RenderFrame(t, ok) ELSE t
  <2>1. /\ after \in LoopState
        /\ Clock(after, q)
        /\ after.deadline = t.deadline
    <3>1. RenderFrame(t, ok).deadline = t.deadline
      BY DEF RenderFrame, LoopState
    <3>2. QED
      BY <1>2, <3>1, RenderFrameType, RenderFramePace
  <2>2. ScheduleFrame(t, ok) \in {t, after, Request(after)}
    BY DEF ScheduleFrame
  <2> HIDE DEF after
  <2>3. QED
    BY <1>1, <2>1, <2>2
<1>3. Redraw(s, ok).deadline = "due" <=> s.deadline = "due"
  <2> DEFINE asked == [s EXCEPT !.render_pending = TRUE, !.rendered_since_vsync = FALSE]
             framed == ScheduleFrame(asked, ok)
  <2>1. asked \in LoopState /\ Clock(asked, q) /\ asked.deadline = s.deadline
    BY DEF LoopState, Clock
  <2>2. framed \in LoopState /\ (framed.deadline = "due" <=> s.deadline = "due")
    BY <1>2, <2>1, ScheduleFrameType
  <2>3. Redraw(s, ok) = [framed EXCEPT !.drawn = s.drawn]
    BY DEF Redraw
  <2> HIDE DEF framed
  <2>4. QED
    BY <2>2, <2>3 DEF LoopState
<1>4. QED
  BY <1>2, <1>3

LEMMA OnVsyncUndue ==
  ASSUME NEW s \in LoopState, NEW ok \in BOOLEAN PROVE OnVsync(s, ok).deadline # "due"
<1> DEFINE ticked == [Ticked(s) EXCEPT !.rendered_since_vsync = FALSE]
           drawn  == IF ticked.render_pending THEN RenderFrame(ticked, ok) ELSE ticked
           released == ReleaseCallbacks(drawn)
           after == IF released.render_pending /\ ~released.rendered_since_vsync
                      THEN RenderFrame(released, ok) ELSE released
<1>1. \A t \in LoopState : RenderFrame(t, ok).deadline = t.deadline
  BY DEF RenderFrame, LoopState
<1>2. \A t \in LoopState : ReleaseCallbacks(t).deadline = t.deadline
  BY DEF ReleaseCallbacks, LoopState
<1>3. \A t \in LoopState : t.deadline = "none" => Request(t).deadline # "due"
  BY DEF Request, LoopState
<1>4. ticked \in LoopState /\ ticked.deadline = "none"
  BY TickedType DEF Ticked, LoopState
<1>5. drawn \in LoopState /\ drawn.deadline = "none"
  <2> HIDE DEF ticked
  <2>1. QED
    BY <1>1, <1>4, RenderFrameType
<1>6. released \in LoopState /\ released.deadline = "none"
  <2> HIDE DEF drawn
  <2>1. QED
    BY <1>2, <1>5, ReleaseCallbacksType
<1>7. after \in LoopState /\ after.deadline = "none"
  <2> HIDE DEF released
  <2>1. QED
    BY <1>1, <1>6, RenderFrameType
<1>8. OnVsync(s, ok) \in {ticked, ScheduleFrame(released, ok)}
  BY DEF OnVsync
<1>9. ScheduleFrame(released, ok) \in {released, after, Request(after)}
  <2> HIDE DEF released
  <2>1. QED
    BY DEF ScheduleFrame
<1> HIDE DEF ticked, released, after
<1>10. QED
  BY <1>3, <1>4, <1>6, <1>7, <1>8, <1>9

LEMMA ApplyRequestsPace ==
  ASSUME NEW s \in LoopState, NEW reqs, reqs \subseteq Requests, NEW q \in BOOLEAN
  PROVE  LET applied == ApplyRequests(s, reqs)
         IN  /\ Wakes(s, q) => Wakes(applied, q)
             /\ Clock(s, q) => Clock(applied, q)
             /\ \A tick \in BOOLEAN : Paced(s, tick) => Paced(applied, tick)
             /\ applied.deadline = s.deadline
<1> DEFINE applied == ApplyRequests(s, reqs)
<1>1. /\ applied.requested_at = s.requested_at /\ applied.posted = s.posted
      /\ applied.deadline = s.deadline /\ applied.choreographer = s.choreographer
      /\ applied.drawn = s.drawn /\ applied.released = s.released
      /\ applied.renderer = s.renderer
      /\ applied.rendered_since_vsync = s.rendered_since_vsync
  BY DEF ApplyRequests, LoopState
<1> HIDE DEF applied
<1>2. QED
  BY <1>1 DEF Wakes, Clock, Paced, Frames, applied

\* What about_to_wait and user_event do to the record besides.
LEMMA HandledPace ==
  ASSUME NEW s \in LoopState, NEW q \in BOOLEAN
  PROVE  /\ Wakes(Handled(s), q) <=> Wakes(s, q)
         /\ Clock(Handled(s), q) <=> Clock(s, q)
         /\ \A tick \in BOOLEAN : Paced(Handled(s), tick) <=> Paced(s, tick)
         /\ Handled(s).deadline = s.deadline
BY DEF Handled, LoopState, Wakes, Clock, Paced, Frames

WakeInv == TypeOK /\ Wakes(loop, Has(queue, "Vsync"))

\* Every step of the loop's at once: where the record and the queue come from
\* the handlers, the lemmas say it of each.
LEMMA WakeStep ==
  ASSUME "lost" \notin Faults, WakeInv, [Next]_vars PROVE Wakes(loop, Has(queue, "Vsync"))'
<1> USE DEF WakeInv
<1> DEFINE q == Has(queue, "Vsync")
           Goal == Wakes(loop', Has(queue', "Vsync"))
<1>t. loop \in LoopState /\ queue \in Seq(Events) /\ wire \subseteq Requests
  BY DEF TypeOK, Events
<1>b. q \in BOOLEAN /\ Has(queue', "Vsync") \in BOOLEAN
      /\ "Vsync" \in Events /\ "WaylandReady" \in Events
  BY DEF Has, Events
<1>1. ASSUME UNCHANGED <<loop, queue>> PROVE Goal
  BY <1>1
<1>2. CASE WatcherReady
  <2>1. At(queue', "Vsync") = At(queue, "Vsync")
    BY <1>t, <1>b, <1>2, AppendAdds DEF WatcherReady
  <2>2. QED
    BY <1>2, <2>1 DEF WatcherReady, Has
<1>3. CASE Refresh
  <2>1. loop.posted \in Nat
    BY <1>t DEF LoopState
  <2>2. Has(queue', "Vsync") <=> q \/ loop.posted > 0
    BY <1>t, <1>3, <2>1, FiredAdds DEF Refresh, Fired
  <2>3. QED
    BY <1>t, <1>3, <2>2 DEF Refresh, LoopState, Wakes
<1>4. CASE PeriodElapses \/ LoseCallback
  BY <1>t, <1>4 DEF PeriodElapses, LoseCallback, LoopState, Wakes
<1>5. CASE RequestAges
  BY <1>t, <1>5 DEF RequestAges, LoopState, Wakes
<1>6. ASSUME NEW ok \in BOOLEAN, DispatchClients(ok) PROVE Goal
  <2> DEFINE applied == ApplyRequests(loop, wire)
             framed == ScheduleFrame(applied, ok)
  <2>1. Has(queue', "Vsync") <=> q
    BY <1>t, <1>b, <1>6, PopKeepsOther DEF DispatchClients
  <2>2. applied \in LoopState /\ Wakes(applied, q)
    BY <1>t, <1>b, ApplyRequestsType, ApplyRequestsPace
  <2>3. framed \in LoopState /\ Wakes(framed, q)
    <3> HIDE DEF applied
    <3>1. QED
      BY <1>b, <2>2, ScheduleFrameType, ScheduleFramePace
  <2>4. QED
    BY <1>b, <1>6, <2>1, <2>3, HandledPace DEF DispatchClients
<1>7. ASSUME NEW ok \in BOOLEAN, VsyncArrives(ok) PROVE Goal
  BY <1>t, <1>b, <1>7, OnVsyncType, OnVsyncPace, HandledPace DEF VsyncArrives
<1>8. CASE WakeAtDeadline
  BY <1>t, <1>b, <1>8, HandledPace DEF WakeAtDeadline
<1>9. ASSUME NEW ok \in BOOLEAN, MoveCursor(ok) PROVE Goal
  <2> DEFINE moved == [loop EXCEPT !.render_pending = TRUE, !.unseen = @ \cup {Pointer}]
             framed == ScheduleFrame(moved, ok)
  <2>1. moved \in LoopState /\ Wakes(moved, q)
    BY <1>t DEF LoopState, Wakes
  <2>2. framed \in LoopState /\ Wakes(framed, q)
    <3> HIDE DEF moved
    <3>1. QED
      BY <1>b, <2>1, ScheduleFrameType, ScheduleFramePace
  <2>3. QED
    BY <1>b, <1>9, <2>2, HandledPace DEF MoveCursor
<1>10. ASSUME NEW ok \in BOOLEAN, RedrawRequested(ok) PROVE Goal
  BY <1>t, <1>b, <1>10, RedrawType, RedrawPace, HandledPace DEF RedrawRequested
<1>11. ASSUME NEW ok \in BOOLEAN, Idle(ok) PROVE Goal
  <2> DEFINE ticked == IF loop.deadline = "due" THEN OnVsync(loop, ok) ELSE loop
  <2>1. ticked \in LoopState /\ Wakes(ticked, q)
    BY <1>t, <1>b, OnVsyncType, OnVsyncPace
  <2>2. loop' = [ticked EXCEPT !.outbox = {}, !.awake = FALSE,
                   !.control_flow = IF ticked.deadline # "none"
                                    THEN "WaitUntil" ELSE "Wait"]
        /\ UNCHANGED queue
    BY <1>11 DEF Idle
  <2> HIDE DEF ticked
  <2>3. QED
    BY <2>1, <2>2 DEF LoopState, Wakes
<1>12. ASSUME NEW bound \in BOOLEAN, NEW ok \in BOOLEAN, Resumed(bound, ok) PROVE Goal
  <2> DEFINE shown == [loop EXCEPT !.renderer = TRUE]
  <2>1. shown \in LoopState /\ Wakes(shown, q)
    BY <1>t DEF LoopState, Wakes
  <2>2. Wakes(Handled(Redraw(shown, ok)), q)
    <3> HIDE DEF shown
    <3>1. QED
      BY <1>b, <2>1, RedrawType, RedrawPace, HandledPace
  <2>3. Wakes([Handled(loop) EXCEPT !.control_flow = "Wait"], q)
    BY <1>t DEF Handled, LoopState, Wakes
  <2>4. QED
    BY <1>12, <2>2, <2>3 DEF Resumed
<1>13. ASSUME NEW trackpad \in BOOLEAN, Suspended(trackpad) PROVE Goal
  BY <1>t, <1>13 DEF Suspended, Handled, LoopState, Wakes
<1>14. QED
  BY <1>1, <1>2, <1>3, <1>4, <1>5, <1>6, <1>7, <1>8, <1>9, <1>10, <1>11, <1>12, <1>13
     DEF Next, vars, WatcherStep, TimeStep, LoopStep, UserEvent, ClientRequest,
         WatcherRearmed, WatcherStops

\* The inductive invariant of a platform that is never late either: a request
\* has one tick, and one alone (OneTick); what it leaves room for (Room).
OneTick == Clock(loop, Has(queue, "Vsync")) /\ AtMostOne(queue, "Vsync")
Room == Paced(loop, Has(queue, "Vsync") \/ loop.deadline = "due")
PaceInv == WakeInv /\ OneTick /\ Room

LEMMA PaceStep ==
  ASSUME Faults \cap {"late", "lost"} = {}, PaceInv, [Next]_vars PROVE (OneTick /\ Room)'
<1> USE DEF PaceInv, WakeInv
<1> DEFINE q == Has(queue, "Vsync")
           due == loop.deadline = "due"
           Goal == /\ Clock(loop', Has(queue', "Vsync")) /\ AtMostOne(queue', "Vsync")
                   /\ Paced(loop', Has(queue', "Vsync") \/ loop'.deadline = "due")
<1>s. SUFFICES Goal
  BY DEF OneTick, Room
<1>t. loop \in LoopState /\ queue \in Seq(Events) /\ wire \subseteq Requests
  BY DEF TypeOK, Events
<1>b. /\ q \in BOOLEAN /\ Has(queue', "Vsync") \in BOOLEAN /\ due \in BOOLEAN
      /\ (q \/ due) \in BOOLEAN
      /\ "Vsync" \in Events /\ "WaylandReady" \in Events
  BY DEF Has, Events
<1>p. Clock(loop, q) /\ AtMostOne(queue, "Vsync") /\ Paced(loop, q \/ due)
  BY DEF OneTick, Room
<1>n. /\ loop.drawn \in Nat /\ loop.released \in Nat
      /\ loop.drawn + (IF q \/ due THEN 1 ELSE 0) <= 2
      /\ loop.released <= 1 /\ (q \/ due => loop.released = 0)
  BY <1>t, <1>p, BoundsType DEF LoopState, Paced, Frames
<1>1. ASSUME UNCHANGED <<loop, queue>> PROVE Goal
  BY <1>1, <1>p
\* A handler that changes neither whether a Vsync is there nor whether the
\* timer is due.
<1>k. ASSUME Has(queue', "Vsync") <=> q, AtMostOne(queue', "Vsync"),
             NEW s \in LoopState, loop' = Handled(s), s.deadline = "due" <=> due,
             Clock(s, q), Paced(s, q \/ due)
      PROVE  Goal
  <2>1. /\ loop'.requested_at = s.requested_at /\ loop'.posted = s.posted
        /\ loop'.deadline = s.deadline /\ loop'.choreographer = s.choreographer
        /\ loop'.drawn = s.drawn /\ loop'.released = s.released
        /\ loop'.renderer = s.renderer
        /\ loop'.rendered_since_vsync = s.rendered_since_vsync
    BY <1>k DEF Handled, LoopState
  <2>2. QED
    BY <1>k, <2>1 DEF Clock, Paced, Frames
<1>2. CASE WatcherReady
  <2>1. At(queue', "Vsync") = At(queue, "Vsync")
    BY <1>t, <1>b, <1>2, AppendAdds DEF WatcherReady
  <2>2. QED
    BY <1>2, <1>p, <2>1 DEF WatcherReady, Has, AtMostOne
<1>3. CASE Refresh
  <2>1. loop.posted \in Nat
    BY <1>t DEF LoopState
  <2>2. /\ Has(queue', "Vsync") <=> q \/ loop.posted > 0
        /\ AtMostOne(queue', "Vsync")
    BY <1>t, <1>3, <1>p, <2>1, FiredAdds DEF Refresh, Fired, Clock
  <2>3. loop' = [loop EXCEPT !.posted = 0, !.drawn = 0, !.released = 0] /\ loop.choreographer
    BY <1>3 DEF Refresh
  <2>4. Clock(loop', Has(queue', "Vsync"))
    <3>1. /\ loop'.requested_at = loop.requested_at /\ loop'.posted = 0
          /\ loop'.deadline = loop.deadline /\ loop'.choreographer
      BY <1>t, <2>3 DEF LoopState
    <3>2. QED
      BY <1>p, <2>1, <2>2, <2>3, <3>1 DEF Clock
  <2>5. Paced(loop', Has(queue', "Vsync") \/ loop'.deadline = "due")
    BY <1>t, <2>3 DEF LoopState, Paced, Frames
  <2>6. QED
    BY <2>2, <2>4, <2>5
<1>4. CASE LoseCallback
  BY <1>4 DEF LoseCallback
<1>5. CASE PeriodElapses
  <2>1. loop' = [loop EXCEPT !.deadline = "due", !.drawn = 0, !.released = 0]
        /\ loop.deadline = "armed" /\ UNCHANGED queue
    BY <1>5 DEF PeriodElapses
  <2>2. Clock(loop', q)
    BY <1>t, <1>p, <2>1 DEF LoopState, Clock
  <2>3. Paced(loop', TRUE) /\ loop'.deadline = "due"
    BY <1>t, <2>1 DEF LoopState, Paced, Frames
  <2>4. QED
    BY <1>p, <2>1, <2>2, <2>3 DEF Paced
<1>6. CASE RequestAges
  <2>1. TickUnderWay
    BY <1>6 DEF RequestAges, Wakes, TickUnderWay, Has, At, Queued
  <2>2. QED
    BY <1>6, <2>1 DEF RequestAges
<1>7. ASSUME NEW ok \in BOOLEAN, DispatchClients(ok) PROVE Goal
  <2> DEFINE applied == ApplyRequests(loop, wire)
             framed == ScheduleFrame(applied, ok)
  <2>1. (Has(queue', "Vsync") <=> q) /\ AtMostOne(queue', "Vsync")
    BY <1>t, <1>b, <1>7, <1>p, PopKeepsOther DEF DispatchClients
  <2>2. /\ applied \in LoopState /\ applied.deadline = loop.deadline
        /\ Clock(applied, q) /\ Paced(applied, q \/ due)
    BY <1>t, <1>b, <1>p, ApplyRequestsType, ApplyRequestsPace
  <2>3. /\ framed \in LoopState /\ (framed.deadline = "due" <=> due)
        /\ Clock(framed, q) /\ Paced(framed, q \/ due)
    <3> HIDE DEF applied
    <3>1. QED
      BY <1>b, <2>2, ScheduleFrameType, ScheduleFramePace, DueStays
  <2>4. loop' = Handled(framed)
    BY <1>7 DEF DispatchClients
  <2> HIDE DEF framed
  <2>5. QED
    BY <1>k, <2>1, <2>3, <2>4
<1>8. ASSUME NEW ok \in BOOLEAN, VsyncArrives(ok) PROVE Goal
  <2> DEFINE ticked == OnVsync(loop, ok)
  <2>1. q
    BY <1>t, <1>8, HeadIsThere DEF VsyncArrives
  <2>2. ~Has(queue', "Vsync") /\ AtMostOne(queue', "Vsync")
    <3>1. ~Has(queue', "Vsync")
      BY <1>t, <1>8, <1>p, PopTakesOnly DEF VsyncArrives
    <3>2. QED
      BY <3>1 DEF Has, AtMostOne
  <2>3. Clock(Ticked(loop), FALSE)
    BY <1>t, <1>p, <2>1 DEF LoopState, Clock, Ticked
  <2>4. /\ ticked \in LoopState /\ ticked.deadline # "due"
        /\ Clock(ticked, FALSE) /\ Paced(ticked, FALSE)
    BY <1>t, <1>p, <2>1, <2>3, OnVsyncType, OnVsyncPace, OnVsyncUndue
  <2>5. loop' = Handled(ticked)
    BY <1>8 DEF VsyncArrives
  <2> HIDE DEF ticked
  <2>6. Clock(loop', FALSE) /\ Paced(loop', FALSE) /\ loop'.deadline # "due"
    BY <2>4, <2>5, HandledPace
  <2>7. QED
    BY <2>2, <2>6 DEF Clock, Paced, Frames
<1>9. CASE WakeAtDeadline
  BY <1>t, <1>b, <1>9, <1>p, HandledPace DEF WakeAtDeadline
<1>10. ASSUME NEW ok \in BOOLEAN, MoveCursor(ok) PROVE Goal
  <2> DEFINE moved == [loop EXCEPT !.render_pending = TRUE, !.unseen = @ \cup {Pointer}]
             framed == ScheduleFrame(moved, ok)
  <2>1. /\ moved \in LoopState /\ moved.deadline = loop.deadline
        /\ Clock(moved, q) /\ Paced(moved, q \/ due)
    BY <1>t, <1>p DEF LoopState, Clock, Paced, Frames
  <2>2. /\ framed \in LoopState /\ (framed.deadline = "due" <=> due)
        /\ Clock(framed, q) /\ Paced(framed, q \/ due)
    <3> HIDE DEF moved
    <3>1. QED
      BY <1>b, <2>1, ScheduleFrameType, ScheduleFramePace, DueStays
  <2>3. loop' = Handled(framed) /\ UNCHANGED queue
    BY <1>10 DEF MoveCursor
  <2> HIDE DEF framed
  <2>4. QED
    BY <1>k, <1>p, <2>2, <2>3
<1>r. ASSUME NEW s \in LoopState, NEW ok \in BOOLEAN, Clock(s, q), UNCHANGED queue,
             s.drawn = loop.drawn, s.released = loop.released, s.deadline = loop.deadline,
             loop' = Handled(Redraw(s, ok))
      PROVE  Goal
  <2> DEFINE redrawn == Redraw(s, ok)
  <2>1. /\ redrawn \in LoopState /\ (redrawn.deadline = "due" <=> due)
        /\ Clock(redrawn, q) /\ Paced(redrawn, q \/ due)
    BY <1>b, <1>n, <1>r, RedrawType, RedrawPace, DueStays
  <2>2. loop' = Handled(redrawn)
    BY <1>r
  <2> HIDE DEF redrawn
  <2>3. QED
    BY <1>k, <1>p, <1>r, <2>1, <2>2
<1>11. ASSUME NEW ok \in BOOLEAN, RedrawRequested(ok) PROVE Goal
  BY <1>t, <1>p, <1>r, <1>11 DEF RedrawRequested
<1>12. ASSUME NEW ok \in BOOLEAN, Idle(ok) PROVE Goal
  <2> DEFINE ticked == IF due THEN OnVsync(loop, ok) ELSE loop
  <2>1. /\ ticked \in LoopState /\ ticked.deadline # "due"
        /\ Clock(ticked, q) /\ Paced(ticked, q)
    <3>1. CASE due
      <4>1. ~q /\ Clock(Ticked(loop), FALSE) /\ Paced(loop, TRUE)
        BY <1>t, <1>p, <3>1 DEF LoopState, Clock, Ticked, Paced, Frames
      <4>2. /\ OnVsync(loop, ok) \in LoopState /\ OnVsync(loop, ok).deadline # "due"
            /\ Clock(OnVsync(loop, ok), FALSE) /\ Paced(OnVsync(loop, ok), FALSE)
        BY <1>t, <4>1, OnVsyncType, OnVsyncPace, OnVsyncUndue
      <4>3. QED
        BY <3>1, <4>1, <4>2 DEF Clock, Paced, Frames
    <3>2. CASE ~due
      BY <1>t, <1>p, <3>2 DEF Paced, Frames
    <3>3. QED
      BY <3>1, <3>2
  <2>2. loop' = [ticked EXCEPT !.outbox = {}, !.awake = FALSE,
                   !.control_flow = IF ticked.deadline # "none"
                                    THEN "WaitUntil" ELSE "Wait"]
        /\ UNCHANGED queue
    BY <1>12 DEF Idle
  <2> HIDE DEF ticked
  <2>3. QED
    BY <1>p, <2>1, <2>2 DEF LoopState, Clock, Paced, Frames
<1>13. ASSUME NEW bound \in BOOLEAN, NEW ok \in BOOLEAN, Resumed(bound, ok) PROVE Goal
  <2>1. ASSUME loop' = Handled(Redraw([loop EXCEPT !.renderer = TRUE], ok)) PROVE Goal
    <3> DEFINE shown == [loop EXCEPT !.renderer = TRUE]
    <3>1. /\ shown \in LoopState /\ Clock(shown, q) /\ shown.deadline = loop.deadline
          /\ shown.drawn = loop.drawn /\ shown.released = loop.released
      BY <1>t, <1>p DEF LoopState, Clock
    <3>2. loop' = Handled(Redraw(shown, ok)) /\ UNCHANGED queue
      BY <1>13, <2>1 DEF Resumed
    <3> HIDE DEF shown
    <3>3. QED
      BY <1>r, <3>1, <3>2
  <2>2. ASSUME loop' = [Handled(loop) EXCEPT !.control_flow = "Wait"] PROVE Goal
    <3>1. UNCHANGED queue
      BY <1>13 DEF Resumed
    <3>2. QED
      BY <1>t, <1>p, <2>2, <3>1 DEF Handled, LoopState, Clock, Paced, Frames
  <2>3. QED
    BY <1>13, <2>1, <2>2 DEF Resumed
<1>14. ASSUME NEW trackpad \in BOOLEAN, Suspended(trackpad) PROVE Goal
  BY <1>t, <1>n, <1>p, <1>14 DEF Suspended, Handled, LoopState, Clock, Paced, Frames
<1>15. QED
  BY <1>1, <1>2, <1>3, <1>4, <1>5, <1>6, <1>7, <1>8, <1>9, <1>10, <1>11, <1>12, <1>13,
     <1>14
     DEF Next, vars, WatcherStep, TimeStep, LoopStep, UserEvent, ClientRequest,
         WatcherRearmed, WatcherStops

\* A platform that loses no vsync callback, however late they are: no request
\* to the frame clock is left standing with nothing to answer it.
THEOREM NoWakeupLost ==
  ASSUME "lost" \notin Faults PROVE Spec => []NoLostWakeup
<1>1. Init => Wakes(loop, Has(queue, "Vsync"))
  BY DEF Init, Wakes
<1>2. TypeOK /\ Wakes(loop, Has(queue, "Vsync")) /\ [Next]_vars
        => Wakes(loop, Has(queue, "Vsync"))'
  BY WakeStep DEF WakeInv
<1>3. Wakes(loop, Has(queue, "Vsync")) => NoLostWakeup
  BY DEF Wakes, NoLostWakeup, TickUnderWay, Has, At, Queued
<1>4. QED
  BY <1>1, <1>2, <1>3, TypeCorrect, PTL DEF Spec

\* ... and if they are never 250 ms late, clients are sent on once per refresh
\* and a refresh gets two frames at most, for any number of clients and whatever
\* they, the watcher and the activity's life cycle do.
THEOREM PaceHolds ==
  ASSUME Faults \cap {"late", "lost"} = {} PROVE Spec => []PaceIsKept
<1>1. Init => OneTick /\ Room
  <2> SUFFICES ASSUME Init PROVE OneTick /\ Room
    OBVIOUS
  <2>1. /\ ~Has(queue, "Vsync") /\ AtMostOne(queue, "Vsync")
        /\ loop.requested_at = "none" /\ loop.posted = 0 /\ loop.deadline = "none"
        /\ loop.drawn = 0 /\ loop.released = 0
        /\ ~loop.renderer
    BY DEF Init, Has, AtMostOne, At
  <2>2. QED
    BY <2>1 DEF OneTick, Room, Clock, Paced, Frames
<1>2. TypeOK /\ NoLostWakeup /\ (OneTick /\ Room) /\ [Next]_vars => (OneTick /\ Room)'
  <2>1. NoLostWakeup => Wakes(loop, Has(queue, "Vsync"))
    BY DEF Wakes, NoLostWakeup, TickUnderWay, Has, At, Queued
  <2>2. QED
    BY <2>1, PaceStep DEF PaceInv, WakeInv
<1>3. TypeOK /\ NoLostWakeup /\ (OneTick /\ Room) => PaceIsKept
  <2>1. loop \in LoopState => loop.drawn \in Nat
    BY BoundsType DEF LoopState
  <2>2. QED
    BY <2>1 DEF TypeOK, Room, Paced, Frames, PaceIsKept, OneReleasePerRefresh,
                AtMostTwoFramesPerRefresh
<1>4. Spec => []NoLostWakeup
  BY NoWakeupLost
<1>5. QED
  BY <1>1, <1>2, <1>3, <1>4, TypeCorrect, PTL DEF Spec

(***************************************************************************)
(* FrameLoop implements FramePacing.  The flags of compositor.rs say no    *)
(* more than what they stand for, so that what a handler does with them is *)
(* what the abstract compositor does with unseen and owed.                 *)
(***************************************************************************)

\* The converse of Remembers, for render_pending while it can be acted on: a
\* redraw without a renderer leaves it set.
Exact(s) ==
  /\ s.frame_pending => s.owed # {}
  /\ s.renderer /\ s.render_pending => s.unseen # {}

\* The abstract compositor draws: everything is shown, or the surface is lost.
Drawn(s, t) == t.renderer /\ t.unseen = {} /\ t.rendered_since_vsync
Lost(s, t) == ~t.renderer /\ t.unseen = s.unseen

SameView(s, t) ==
  /\ t.renderer = s.renderer /\ t.unseen = s.unseen /\ t.owed = s.owed
  /\ t.rendered_since_vsync = s.rendered_since_vsync

LEMMA RequestView ==
  ASSUME NEW s \in LoopState
  PROVE  SameView(s, Request(s)) /\ (Exact(s) => Exact(Request(s)))
BY DEF Request, LoopState, SameView, Exact

LEMMA RenderFrameView ==
  ASSUME NEW s \in LoopState, NEW ok \in BOOLEAN
  PROVE  LET t == RenderFrame(s, ok)
         IN  /\ \/ ok /\ t.renderer = s.renderer /\ t.unseen = {}
                   /\ t.rendered_since_vsync /\ ~t.render_pending
                \/ ~ok /\ Lost(s, t)
                   /\ t.rendered_since_vsync = s.rendered_since_vsync
                   /\ t.render_pending = s.render_pending
             /\ t.owed = s.owed /\ t.frame_pending = s.frame_pending
BY DEF RenderFrame, LoopState, Lost

LEMMA ScheduleFrameView ==
  ASSUME NEW s \in LoopState, NEW ok \in BOOLEAN, Remembers(s), Exact(s)
  PROVE  LET t == ScheduleFrame(s, ok)
         IN  /\ Exact(t)
             /\ t.owed = s.owed
             /\ IF s.renderer /\ ~s.rendered_since_vsync /\ s.unseen # {}
                  THEN \/ Drawn(s, t)
                       \/ Lost(s, t) /\ t.rendered_since_vsync = s.rendered_since_vsync
                  ELSE SameView(s, t)
<1> DEFINE drawNow == s.render_pending /\ ~s.rendered_since_vsync
           after == IF drawNow THEN RenderFrame(s, ok) ELSE s
           t == ScheduleFrame(s, ok)
<1>1. CASE ~s.renderer
  BY <1>1 DEF ScheduleFrame, SameView
<1>2. CASE s.renderer
  <2>1. after \in LoopState
    BY RenderFrameType
  <2>2. /\ Exact(after)
        /\ after.owed = s.owed
        /\ IF drawNow THEN \/ Drawn(s, after)
                           \/ Lost(s, after)
                              /\ after.rendered_since_vsync = s.rendered_since_vsync
           ELSE SameView(s, after)
    <3>1. CASE drawNow
      BY <1>2, <3>1, RenderFrameView DEF Exact, Drawn, Lost
    <3>2. CASE ~drawNow
      BY <3>2 DEF SameView
    <3>3. QED
      BY <3>1, <3>2
  <2>3. t \in {after, Request(after)}
    BY <1>2 DEF ScheduleFrame
  <2>4. /\ Exact(t)
        /\ SameView(after, t)
    <3> HIDE DEF after
    <3>1. QED
      BY <2>1, <2>2, <2>3, RequestView DEF SameView
  <2>5. drawNow <=> ~s.rendered_since_vsync /\ s.unseen # {}
    BY <1>2 DEF Remembers, Exact
  <2>6. QED
    <3> HIDE DEF after, t, drawNow
    <3>1. Exact(t) /\ t.owed = s.owed
      BY <2>2, <2>4 DEF SameView
    <3>2. CASE drawNow
      BY <1>2, <2>2, <2>4, <2>5, <3>1, <3>2 DEF SameView, Drawn, Lost, t
    <3>3. CASE ~drawNow
      BY <1>2, <2>2, <2>4, <2>5, <3>1, <3>3 DEF SameView, t
    <3>4. QED
      BY <3>2, <3>3
<1>3. QED
  BY <1>1, <1>2

\* A tick: with a renderer everything is shown, or the renderer lost, and the
\* callbacks go out; without one only the guard of this refresh is reset.
LEMMA OnVsyncView ==
  ASSUME NEW s \in LoopState, NEW ok \in BOOLEAN, Remembers(s), Exact(s)
  PROVE  LET t == OnVsync(s, ok)
         IN  /\ Exact(t)
             /\ IF s.renderer
                  THEN /\ t.owed = {}
                       /\ \/ t.renderer /\ t.unseen = {}
                          \/ Lost(s, t) /\ ~t.rendered_since_vsync
                  ELSE ~t.renderer /\ t.unseen = s.unseen /\ t.owed = s.owed
<1> DEFINE ticked == [Ticked(s) EXCEPT !.rendered_since_vsync = FALSE]
           drawn  == IF ticked.render_pending THEN RenderFrame(ticked, ok) ELSE ticked
           released == ReleaseCallbacks(drawn)
           t == OnVsync(s, ok)
<1>1. /\ ticked \in LoopState /\ Remembers(ticked) /\ Exact(ticked)
      /\ ticked.renderer = s.renderer /\ ticked.unseen = s.unseen /\ ticked.owed = s.owed
      /\ ~ticked.rendered_since_vsync
  BY TickedType DEF LoopState, Ticked, Remembers, Exact
<1>2. CASE ~s.renderer
  BY <1>1, <1>2 DEF OnVsync
<1>3. CASE s.renderer
  <2>1. /\ drawn \in LoopState /\ drawn.owed = s.owed
        /\ drawn.frame_pending <=> drawn.owed # {}
        /\ \/ drawn.renderer /\ drawn.unseen = {} /\ ~drawn.render_pending
           \/ Lost(s, drawn) /\ ~drawn.rendered_since_vsync
    <3> HIDE DEF ticked
    <3>1. CASE ticked.render_pending
      <4>1. drawn = RenderFrame(ticked, ok) /\ drawn \in LoopState
        BY <1>1, <3>1, RenderFrameType
      <4>2. /\ \/ drawn.renderer = ticked.renderer /\ drawn.unseen = {} /\ ~drawn.render_pending
               \/ /\ ~drawn.renderer /\ drawn.unseen = ticked.unseen
                  /\ drawn.rendered_since_vsync = ticked.rendered_since_vsync
            /\ drawn.owed = ticked.owed /\ drawn.frame_pending = ticked.frame_pending
        BY <1>1, <4>1, RenderFrameView DEF Lost
      <4>3. QED
        BY <1>1, <1>3, <4>1, <4>2 DEF Remembers, Exact, Lost
    <3>2. CASE ~ticked.render_pending
      BY <1>1, <1>3, <3>2 DEF Remembers, Exact
    <3>3. QED
      BY <3>1, <3>2
  <2> HIDE DEF drawn
  <2>2. /\ released.renderer = drawn.renderer /\ released.unseen = drawn.unseen
        /\ released.render_pending = drawn.render_pending
        /\ released.rendered_since_vsync = drawn.rendered_since_vsync
        /\ ~released.frame_pending /\ released.owed = {}
    <3>1. CASE drawn.frame_pending
      BY <2>1, <3>1 DEF ReleaseCallbacks, LoopState
    <3>2. CASE ~drawn.frame_pending
      BY <2>1, <3>2 DEF ReleaseCallbacks
    <3>3. QED
      BY <3>1, <3>2
  <2>3. t = ScheduleFrame(released, ok)
    BY <1>3 DEF OnVsync, drawn
  <2>4. t = released
    <3> HIDE DEF released, t
    <3>1. released.renderer => ~released.render_pending
      BY <2>1, <2>2 DEF Lost
    <3>2. QED
      BY <2>2, <2>3, <3>1 DEF ScheduleFrame
  <2> HIDE DEF released
  <2>5. QED
    BY <1>3, <2>1, <2>2, <2>4 DEF Lost, Exact
<1>4. QED
  BY <1>2, <1>3

LEMMA RedrawView ==
  ASSUME NEW s \in LoopState, NEW ok \in BOOLEAN, s.frame_pending => s.owed # {}
  PROVE  LET t == Redraw(s, ok)
         IN  /\ Exact(t)
             /\ t.owed = s.owed
             /\ IF s.renderer
                  THEN Drawn(s, t) \/ (Lost(s, t) /\ ~t.rendered_since_vsync)
                  ELSE ~t.renderer /\ t.unseen = s.unseen
<1> DEFINE asked == [s EXCEPT !.render_pending = TRUE, !.rendered_since_vsync = FALSE]
           drawn == RenderFrame(asked, ok)
           framed == ScheduleFrame(asked, ok)
           t == Redraw(s, ok)
<1>1. /\ asked \in LoopState
      /\ asked.render_pending /\ ~asked.rendered_since_vsync
      /\ asked.renderer = s.renderer /\ asked.unseen = s.unseen /\ asked.owed = s.owed
      /\ asked.frame_pending = s.frame_pending
  BY DEF LoopState
<1> HIDE DEF asked
<1>2. /\ framed \in LoopState
      /\ Exact(framed) /\ framed.owed = s.owed
      /\ IF s.renderer
           THEN Drawn(s, framed) \/ (Lost(s, framed) /\ ~framed.rendered_since_vsync)
           ELSE ~framed.renderer /\ framed.unseen = s.unseen
  <2>1. framed \in LoopState
    BY <1>1, ScheduleFrameType
  <2>2. CASE ~s.renderer
    BY <1>1, <2>1, <2>2 DEF ScheduleFrame, Exact
  <2>3. CASE s.renderer
    <3>1. drawn \in LoopState
      BY <1>1, RenderFrameType
    <3>2. /\ Exact(drawn) /\ drawn.owed = s.owed
          /\ Drawn(s, drawn) \/ (Lost(s, drawn) /\ ~drawn.rendered_since_vsync)
      <4>1. /\ \/ /\ drawn.renderer = asked.renderer /\ drawn.unseen = {}
                  /\ drawn.rendered_since_vsync /\ ~drawn.render_pending
               \/ /\ ~drawn.renderer /\ drawn.unseen = asked.unseen
                  /\ drawn.rendered_since_vsync = asked.rendered_since_vsync
            /\ drawn.owed = asked.owed /\ drawn.frame_pending = asked.frame_pending
        BY <1>1, RenderFrameView DEF Lost
      <4> HIDE DEF drawn
      <4>2. QED
        BY <1>1, <2>3, <4>1 DEF Exact, Drawn, Lost
    <3>3. framed \in {drawn, Request(drawn)}
      BY <1>1, <2>3 DEF ScheduleFrame
    <3> HIDE DEF drawn, framed
    <3>4. QED
      BY <2>1, <2>3, <3>1, <3>2, <3>3, RequestView DEF SameView, Drawn, Lost
  <2>4. QED
    BY <2>2, <2>3
<1>3. t = [framed EXCEPT !.drawn = s.drawn]
  BY DEF Redraw, asked
<1> HIDE DEF framed, t
<1>4. /\ SameView(framed, t)
      /\ t.frame_pending = framed.frame_pending /\ t.render_pending = framed.render_pending
  BY <1>2, <1>3 DEF LoopState, SameView
<1>5. QED
  BY <1>2, <1>4 DEF SameView, Exact, Drawn, Lost, t

ExactInv == FrameInv /\ Exact(loop)

AbstractStep == [Pacing!Next]_(Pacing!vars)

\* Handlers whose steps FramePacing has the same name for, or none.
LEMMA PacingWork ==
  ASSUME NEW s \in LoopState, NEW ok \in BOOLEAN, Remembers(s), Exact(s),
         NEW content \in SUBSET (Client \cup {Pointer}), NEW commits \in SUBSET Client,
         s.unseen = loop.unseen \cup content, s.owed = loop.owed \cup commits,
         s.renderer = loop.renderer, s.rendered_since_vsync = loop.rendered_since_vsync,
         loop' = Handled(ScheduleFrame(s, ok)), UNCHANGED active
  PROVE  AbstractStep
<1> DEFINE t == ScheduleFrame(s, ok)
<1>1. t \in LoopState
  BY ScheduleFrameType
<1>2. /\ t.owed = s.owed
      /\ IF s.renderer /\ ~s.rendered_since_vsync /\ s.unseen # {}
           THEN \/ Drawn(s, t)
                \/ Lost(s, t) /\ t.rendered_since_vsync = s.rendered_since_vsync
           ELSE SameView(s, t)
  BY ScheduleFrameView
<1>3. /\ loop'.renderer = t.renderer /\ loop'.unseen = t.unseen /\ loop'.owed = t.owed
      /\ loop'.rendered_since_vsync = t.rendered_since_vsync
  BY <1>1 DEF Handled, LoopState
<1> HIDE DEF t
<1>t. /\ {s.renderer, s.rendered_since_vsync, t.renderer, t.rendered_since_vsync} \subseteq BOOLEAN
  BY <1>1 DEF LoopState
<1>4. Pacing!Work(content, commits)
  <2>1. CASE s.renderer /\ ~s.rendered_since_vsync /\ s.unseen # {}
    <3>1. Pacing!Draw(loop.unseen \cup content)
      BY <1>2, <1>3, <1>t, <2>1 DEF Pacing!Draw, Drawn, Lost
    <3>2. QED
      BY <1>2, <1>3, <2>1, <3>1 DEF Pacing!Work
  <2>2. CASE ~(s.renderer /\ ~s.rendered_since_vsync /\ s.unseen # {})
    BY <1>2, <1>3, <2>2 DEF Pacing!Work, SameView
  <2>3. QED
    BY <2>1, <2>2
<1>5. QED
  BY <1>4 DEF AbstractStep, Pacing!Next

LEMMA PacingStutter ==
  ASSUME SameView(loop, loop'), UNCHANGED active PROVE AbstractStep
BY DEF AbstractStep, Pacing!vars, SameView

\* A tick with work is Tick, one without is IdleTick.
LEMMA PacingTick ==
  ASSUME ExactInv, NEW ok \in BOOLEAN, SameView(OnVsync(loop, ok), loop'), UNCHANGED active
  PROVE  AbstractStep
<1> DEFINE t == OnVsync(loop, ok)
<1>0. loop \in LoopState /\ t \in LoopState
  BY OnVsyncType DEF ExactInv, FrameInv, TypeOK
<1>1. IF loop.renderer
        THEN /\ t.owed = {}
             /\ \/ t.renderer /\ t.unseen = {}
                \/ Lost(loop, t) /\ ~t.rendered_since_vsync
        ELSE ~t.renderer /\ t.unseen = loop.unseen /\ t.owed = loop.owed
  BY <1>0, OnVsyncView DEF ExactInv, FrameInv
<1>2. /\ loop'.renderer = t.renderer /\ loop'.unseen = t.unseen /\ loop'.owed = t.owed
      /\ loop'.rendered_since_vsync = t.rendered_since_vsync
  BY DEF SameView
<1>t. {loop.renderer, t.renderer, t.rendered_since_vsync} \subseteq BOOLEAN
  BY <1>0 DEF LoopState
<1> HIDE DEF t
<1>3. CASE loop.renderer /\ (loop.owed # {} \/ loop.unseen # {})
  <2>1. Pacing!Tick
    BY <1>1, <1>2, <1>3, <1>t DEF Pacing!Tick, Lost
  <2>2. QED
    BY <2>1 DEF AbstractStep, Pacing!Next
<1>4. CASE ~loop.renderer \/ (loop.owed = {} /\ loop.unseen = {})
  <2>1. Pacing!IdleTick
    BY <1>1, <1>2, <1>4, <1>t DEF Pacing!IdleTick, Lost
  <2>2. QED
    BY <2>1 DEF AbstractStep, Pacing!Next
<1>5. QED
  BY <1>3, <1>4

\* Every step of FrameLoop is one of FramePacing, and keeps the flags exact.
LEMMA PacingStep ==
  ASSUME ExactInv, [Next]_vars PROVE Exact(loop') /\ AbstractStep
<1> DEFINE Goal == Exact(loop') /\ AbstractStep
<1>t. loop \in LoopState /\ wire \subseteq Requests /\ Remembers(loop) /\ Exact(loop)
      /\ active \in BOOLEAN
  BY DEF ExactInv, FrameInv, TypeOK
<1>1. ASSUME UNCHANGED <<loop, active>> PROVE Goal
  BY <1>1, <1>t, PacingStutter DEF SameView
<1>2. CASE TimeStep
  <2>1. SameView(loop, loop') /\ Exact(loop') /\ UNCHANGED active
    BY <1>2, <1>t DEF TimeStep, Refresh, LoseCallback, PeriodElapses, RequestAges,
       LoopState, SameView, Exact
  <2>2. QED
    BY <2>1, PacingStutter
<1>h. ASSUME NEW s \in LoopState PROVE SameView(s, Handled(s)) /\ (Exact(s) => Exact(Handled(s)))
  BY DEF Handled, LoopState, SameView, Exact
<1>3. ASSUME NEW ok \in BOOLEAN, DispatchClients(ok) PROVE Goal
  <2> DEFINE content == { r.client : r \in { r \in wire : r.kind \in {"buffer", "cursor"} } }
             commits == { r.client : r \in { r \in wire : r.kind \in {"buffer", "bare"} } }
             applied == ApplyRequests(loop, wire)
  <2>1. content \in SUBSET (Client \cup {Pointer}) /\ commits \in SUBSET Client
    BY <1>t DEF Requests
  <2>2. /\ applied \in LoopState /\ Remembers(applied)
        /\ applied.unseen = loop.unseen \cup content /\ applied.owed = loop.owed \cup commits
        /\ applied.renderer = loop.renderer
        /\ applied.rendered_since_vsync = loop.rendered_since_vsync
    <3>1. applied \in LoopState /\ Remembers(applied)
      BY <1>t, ApplyRequestsType, ApplyRequestsKeeps
    <3>2. applied = [loop EXCEPT !.render_pending = applied.render_pending,
                                 !.frame_pending = applied.frame_pending,
                                 !.unseen = loop.unseen \cup content,
                                 !.owed = loop.owed \cup commits]
      BY <1>t DEF ApplyRequests, LoopState
    <3> HIDE DEF applied, content, commits
    <3>3. QED
      BY <1>t, <3>1, <3>2 DEF LoopState
  <2>3. Exact(applied)
    <3>1. /\ applied.render_pending
               => loop.render_pending \/ \E r \in wire : r.kind \in {"buffer", "cursor"}
          /\ applied.frame_pending
               => loop.frame_pending \/ \E r \in wire : r.kind \in {"buffer", "bare"}
      BY <1>t DEF ApplyRequests, LoopState
    <3>2. /\ (\E r \in wire : r.kind \in {"buffer", "cursor"}) => content # {}
          /\ (\E r \in wire : r.kind \in {"buffer", "bare"}) => commits # {}
      OBVIOUS
    <3> HIDE DEF applied, content, commits
    <3>3. QED
      BY <1>t, <2>2, <3>1, <3>2 DEF Exact
  <2>4. loop' = Handled(ScheduleFrame(applied, ok)) /\ UNCHANGED active
    BY <1>3 DEF DispatchClients
  <2> HIDE DEF applied, content, commits
  <2>5. AbstractStep
    BY <2>1, <2>2, <2>3, <2>4, PacingWork
  <2>6. QED
    BY <1>h, <2>2, <2>3, <2>4, <2>5, ScheduleFrameType, ScheduleFrameView
<1>4. ASSUME NEW ok \in BOOLEAN, VsyncArrives(ok) PROVE Goal
  <2>1. loop' = Handled(OnVsync(loop, ok)) /\ UNCHANGED active
    BY <1>4 DEF VsyncArrives
  <2>2. SameView(OnVsync(loop, ok), loop') /\ Exact(loop')
    BY <1>h, <1>t, <2>1, OnVsyncType, OnVsyncView
  <2>3. QED
    BY <2>1, <2>2, PacingTick
<1>5. CASE WakeAtDeadline
  BY <1>5, <1>h, <1>t, PacingStutter DEF WakeAtDeadline
<1>6. ASSUME NEW ok \in BOOLEAN, MoveCursor(ok) PROVE Goal
  <2> DEFINE moved == [loop EXCEPT !.render_pending = TRUE, !.unseen = @ \cup {Pointer}]
  <2>1. /\ moved \in LoopState /\ Remembers(moved) /\ Exact(moved)
        /\ moved.unseen = loop.unseen \cup {Pointer} /\ moved.owed = loop.owed \cup {}
        /\ moved.renderer = loop.renderer
        /\ moved.rendered_since_vsync = loop.rendered_since_vsync
    BY <1>t DEF LoopState, Remembers, Exact
  <2>2. loop' = Handled(ScheduleFrame(moved, ok)) /\ UNCHANGED active
    BY <1>6 DEF MoveCursor
  <2> HIDE DEF moved
  <2>3. AbstractStep
    <3>1. {Pointer} \in SUBSET (Client \cup {Pointer}) /\ {} \in SUBSET Client
      OBVIOUS
    <3>2. QED
      BY <2>1, <2>2, <3>1, PacingWork
  <2>4. QED
    BY <1>h, <2>1, <2>2, <2>3, ScheduleFrameType, ScheduleFrameView
\* A redraw of the record s, which is the loop's but for the renderer.
<1>r. ASSUME NEW s \in LoopState, NEW ok \in BOOLEAN, s.frame_pending => s.owed # {},
             s.unseen = loop.unseen, s.owed = loop.owed,
             loop' = Handled(Redraw(s, ok))
      PROVE  /\ Exact(loop')
             /\ s.renderer => \A shown \in BOOLEAN :
                                loop.renderer \/ shown => Pacing!ForcedFrame(shown)
             /\ ~s.renderer => /\ loop'.renderer = FALSE /\ loop'.unseen = loop.unseen
                               /\ loop'.owed = loop.owed
                               /\ loop'.rendered_since_vsync \in BOOLEAN
  <2> DEFINE t == Redraw(s, ok)
  <2>1. /\ t \in LoopState /\ Exact(t)
        /\ t.owed = s.owed
        /\ IF s.renderer
             THEN Drawn(s, t) \/ (Lost(s, t) /\ ~t.rendered_since_vsync)
             ELSE ~t.renderer /\ t.unseen = s.unseen
    BY <1>r, RedrawType, RedrawView
  <2>2. loop' = Handled(t)
    BY <1>r
  <2>3. {t.renderer, t.rendered_since_vsync, loop.renderer, s.renderer} \subseteq BOOLEAN
    BY <1>t, <2>1 DEF LoopState
  <2> HIDE DEF t
  <2>4. SameView(t, loop') /\ Exact(loop')
    BY <1>h, <2>1, <2>2
  <2>5. QED
    BY <1>r, <2>1, <2>3, <2>4 DEF Pacing!ForcedFrame, SameView, Drawn, Lost
<1>7. ASSUME NEW ok \in BOOLEAN, RedrawRequested(ok) PROVE Goal
  <2>1. loop' = Handled(Redraw(loop, ok)) /\ UNCHANGED active
    BY <1>7 DEF RedrawRequested
  <2>2. CASE loop.renderer
    <3>1. Exact(loop') /\ Pacing!ForcedFrame(FALSE)
      BY <1>r, <1>t, <2>1, <2>2 DEF Exact
    <3>2. QED
      BY <2>1, <3>1 DEF AbstractStep, Pacing!Next
  <2>3. CASE ~loop.renderer
    <3>1. Exact(loop') /\ Pacing!IdleTick
      BY <1>r, <1>t, <2>1, <2>3 DEF Pacing!IdleTick, Exact
    <3>2. QED
      BY <2>1, <3>1 DEF AbstractStep, Pacing!Next
  <2>4. QED
    BY <2>2, <2>3
<1>8. ASSUME NEW ok \in BOOLEAN, Idle(ok) PROVE Goal
  <2> DEFINE ticked == IF loop.deadline = "due" THEN OnVsync(loop, ok) ELSE loop
  <2>1. ticked \in LoopState /\ Exact(ticked)
    BY <1>t, OnVsyncType, OnVsyncView
  <2>2. loop' = [ticked EXCEPT !.outbox = {}, !.awake = FALSE,
                   !.control_flow = IF ticked.deadline # "none"
                                    THEN "WaitUntil" ELSE "Wait"]
        /\ UNCHANGED active
    BY <1>8 DEF Idle
  <2>3. SameView(ticked, loop') /\ Exact(loop')
    <3> HIDE DEF ticked
    <3>1. QED
      BY <2>1, <2>2 DEF LoopState, SameView, Exact
  <2>4. CASE loop.deadline = "due"
    BY <2>2, <2>3, <2>4, PacingTick
  <2>5. CASE loop.deadline # "due"
    BY <2>2, <2>3, <2>5, PacingStutter
  <2>6. QED
    BY <2>4, <2>5
<1>9. ASSUME NEW bound \in BOOLEAN, NEW ok \in BOOLEAN, Resumed(bound, ok) PROVE Goal
  <2>1. CASE loop.renderer \/ bound
    <3> DEFINE shown == [loop EXCEPT !.renderer = TRUE]
    <3>1. /\ shown \in LoopState /\ shown.renderer
          /\ shown.frame_pending => shown.owed # {}
          /\ shown.unseen = loop.unseen /\ shown.owed = loop.owed
      BY <1>t DEF LoopState, Exact
    <3>2. loop' = Handled(Redraw(shown, ok)) /\ ~active /\ active' = TRUE
      BY <1>9, <2>1 DEF Resumed
    <3> HIDE DEF shown
    <3>3. Exact(loop') /\ Pacing!ForcedFrame(TRUE)
      BY <1>r, <3>1, <3>2
    <3>4. QED
      BY <3>2, <3>3 DEF AbstractStep, Pacing!Next, Pacing!Come
  <2>2. CASE ~(loop.renderer \/ bound)
    <3>1. SameView(loop, loop') /\ Exact(loop') /\ ~active /\ active' = TRUE
      BY <1>9, <1>t, <2>2 DEF Resumed, Handled, LoopState, SameView, Exact
    <3>2. Pacing!Come
      BY <3>1 DEF Pacing!Come, Pacing!Keep, SameView
    <3>3. QED
      BY <3>1, <3>2 DEF AbstractStep, Pacing!Next
  <2>3. QED
    BY <2>1, <2>2
<1>10. ASSUME NEW trackpad \in BOOLEAN, Suspended(trackpad) PROVE Goal
  <2>1. /\ active /\ active' = FALSE
        /\ loop'.unseen = loop.unseen /\ loop'.owed = loop.owed
        /\ loop'.rendered_since_vsync = loop.rendered_since_vsync
        /\ loop'.renderer = (loop.renderer /\ trackpad)
        /\ Exact(loop')
    BY <1>10, <1>t DEF Suspended, Handled, LoopState, Exact
  <2>2. Pacing!Leave
    BY <1>t, <2>1 DEF Pacing!Leave, Pacing!Hide, Pacing!Keep, LoopState
  <2>3. QED
    BY <2>1, <2>2 DEF AbstractStep, Pacing!Next
<1>11. QED
  BY <1>1, <1>2, <1>3, <1>4, <1>5, <1>6, <1>7, <1>8, <1>9, <1>10
     DEF Next, vars, WatcherStep, LoopStep, UserEvent, ClientRequest,
         WatcherReady, WatcherRearmed, WatcherStops

\* FrameLoop implements FramePacing, but for the ticks' fairness: whatever the
\* platform loses or delays, each step of the event loop is one the abstract
\* compositor may take, and all others leave what the clients see alone.
THEOREM PacingImplemented == Spec => PacingSafety
<1>1. Init => Pacing!Init /\ Exact(loop)
  <2> SUFFICES ASSUME Init PROVE Pacing!Init /\ Exact(loop)
    OBVIOUS
  <2>1. /\ loop.renderer = FALSE /\ loop.unseen = {} /\ loop.owed = {}
        /\ loop.rendered_since_vsync = FALSE /\ active = FALSE
        /\ ~loop.frame_pending
    BY DEF Init
  <2>2. QED
    BY <2>1 DEF Pacing!Init, Exact
<1>2. FrameInv /\ Exact(loop) /\ [Next]_vars => Exact(loop)'
  BY PacingStep DEF ExactInv
<1>3. FrameInv /\ Exact(loop) /\ [Next]_vars => [Pacing!Next]_(Pacing!vars)
  BY PacingStep DEF ExactInv, AbstractStep
<1>4. QED
  BY <1>1, <1>2, <1>3, FrameInvariant, PTL DEF Spec, PacingSafety, Pacing!Spec

=============================================================================
