------------------------------ MODULE FrameLoop ------------------------------
(***************************************************************************)
(* How the compositor wakes up and paces its frames: the event loop of     *)
(* android_main (event_handler.rs, run.rs), the vsync source               *)
(* (frame_clock.rs) and the thread that watches the Wayland sockets        *)
(* (watcher.rs).                                                           *)
(*                                                                         *)
(* Nothing polls.  The loop sleeps until the watcher or the display posts  *)
(* a user event, so everything here is about wake-ups that must not be     *)
(* lost and frames that must not be drawn too often.                       *)
(*                                                                         *)
(* The state a handler of the event loop reads and writes is one record,   *)
(* `loop`; a handler is a composition of functions on that record, in the  *)
(* order of the calls in the code.  Buffers, sizes and damage rectangles   *)
(* are abstracted to the set of clients whose newest content is not on     *)
(* screen.                                                                 *)
(***************************************************************************)
EXTENDS Integers, Sequences, FiniteSets

CONSTANTS
  Client,           \* Wayland clients
  Faults,           \* what the platform may do to us, a subset of AllFaults
  MaxTicks,         \* bound on vsync callbacks and Vsync events under way
  MaxCount          \* the per-refresh counters saturate here

\* "late": a vsync is handled more than 250 ms after it was requested.
\* "lost": a posted vsync callback never fires.
\* "poll": poll() in the watcher thread fails.
AllFaults == {"late", "lost", "poll"}

ASSUME FaultsType == Faults \subseteq AllFaults
ASSUME BoundsType == MaxTicks \in Nat \ {0} /\ MaxCount \in Nat \ {0}

VARIABLES
  loop,    \* the event loop's own state, see LoopState
  queue,   \* user events sent through the EventLoopProxy and not yet handled
  watcher, \* the watcher thread: where it is in its loop
  rearms,  \* messages in the watcher's rearm channel
  wire,    \* requests the clients sent and nobody dispatched
  active   \* the activity is resumed

vars == <<loop, queue, watcher, rearms, wire, active>>

Pointer == "pointer"   \* the cursor, drawn by the compositor itself

\* What a client asks for: a commit with a new buffer, a commit without one
\* (frame callback only), or another cursor image.
Requests == [client : Client, kind : {"buffer", "bare", "cursor"}]

LoopState ==
  [ \* WaylandBackend and State
    renderer : BOOLEAN,             \* graphic_renderer.is_some()
    render_pending : BOOLEAN,
    frame_pending : BOOLEAN,
    rendered_since_vsync : BOOLEAN,
    \* FrameClock
    choreographer : BOOLEAN,        \* FALSE: no AChoreographer, use a timer
    requested_at : {"none", "recent", "old"},   \* old: at least 250 ms ago
    deadline : {"none", "armed", "due"},
    posted : Nat,                   \* callbacks the choreographer holds
    \* winit
    awake : BOOLEAN,                \* about_to_wait is still to be called
    control_flow : {"Wait", "WaitUntil"},
    \* what the clients and the display see
    unseen : SUBSET (Client \cup {Pointer}),  \* content not yet on screen
    owed : SUBSET Client,           \* committed, frame callback not released
    outbox : SUBSET Client,         \* released, not flushed to the socket
    drawn : 0 .. MaxCount,          \* frames since the display last refreshed
    released : 0 .. MaxCount ]      \* callback releases since then

Up(n) == IF n < MaxCount THEN n + 1 ELSE n

Queued(e) == { i \in DOMAIN queue : queue[i] = e }

-----------------------------------------------------------------------------
(* FrameClock *)

\* FrameClock::request: a request younger than LOST_CALLBACK_AFTER stands.
Request(s) ==
  IF s.requested_at = "recent" THEN s
  ELSE IF s.choreographer
    THEN [s EXCEPT !.requested_at = "recent", !.posted = @ + 1]
    ELSE [s EXCEPT !.requested_at = "recent", !.deadline = "armed"]

\* Slip: the tick leaves the request standing.
TickedNoReset(s) == [s EXCEPT !.deadline = "none"]

Ticked(s) == [s EXCEPT !.requested_at = "none", !.deadline = "none"]

-----------------------------------------------------------------------------
(* Drawing.  `ok` is whether EGL and GL accept the frame. *)

\* Slip: the damage is forgotten before it is known to be drawn.
RenderFrameForgets(s, ok) ==
  IF ok THEN [s EXCEPT !.render_pending = FALSE, !.rendered_since_vsync = TRUE,
                       !.unseen = {}, !.drawn = Up(@)]
        ELSE [s EXCEPT !.renderer = FALSE, !.render_pending = FALSE]

\* render_frame; both callers have returned if there is no renderer.
RenderFrame(s, ok) ==
  IF ok THEN [s EXCEPT !.render_pending = FALSE, !.rendered_since_vsync = TRUE,
                       !.unseen = {}, !.drawn = Up(@)]
        ELSE [s EXCEPT !.renderer = FALSE]

\* Slip: only damage keeps vsync ticking.
ScheduleFrameDamageOnly(s, ok) ==
  LET drawNow == s.render_pending /\ ~s.rendered_since_vsync
      after   == IF drawNow THEN RenderFrame(s, ok) ELSE s
  IN  IF s.renderer /\ after.render_pending THEN Request(after)
      ELSE IF s.renderer THEN after ELSE s

\* Slip: drawing at once even if this refresh has its frame.
ScheduleFrameUnpaced(s, ok) ==
  IF s.renderer /\ s.render_pending
    THEN LET after == RenderFrame(s, ok)
         IN  IF after.frame_pending THEN Request(after) ELSE after
    ELSE IF s.renderer /\ s.frame_pending THEN Request(s) ELSE s

\* The clock exists whenever a renderer does: resumed creates both before any
\* other handler of the loop runs.
ScheduleFrame(s, ok) ==
  LET drawNow == s.render_pending /\ ~s.rendered_since_vsync
      after   == IF drawNow THEN RenderFrame(s, ok) ELSE s
  IN  CASE ~s.renderer -> s
        [] s.renderer /\ (after.render_pending \/ after.frame_pending) -> Request(after)
        [] OTHER -> after

\* Frame callbacks of everything committed since they were last released.
ReleaseCallbacks(s) ==
  IF s.frame_pending
    THEN [s EXCEPT !.frame_pending = FALSE, !.owed = {},
                   !.outbox = @ \cup s.owed, !.released = Up(@)]
    ELSE s

\* Slip: releasing callbacks without drawing what they answer.
OnVsyncReleaseOnly(s, ok) ==
  IF ~s.renderer THEN Ticked(s)
  ELSE ScheduleFrame(ReleaseCallbacks(Ticked(s)), ok)

OnVsync(s, ok) ==
  LET ticked == [Ticked(s) EXCEPT !.rendered_since_vsync = FALSE]
      drawn  == IF ticked.render_pending THEN RenderFrame(ticked, ok) ELSE ticked
  IN  IF ~s.renderer THEN ticked
      ELSE ScheduleFrame(ReleaseCallbacks(drawn), ok)

\* CentralizedEvent::Redraw, drawn even without damage.  The operating system
\* asked for this frame, so it does not count against the display's pace.
Redraw(s, ok) ==
  LET asked == [s EXCEPT !.render_pending = TRUE, !.rendered_since_vsync = FALSE]
  IN  [ScheduleFrame(asked, ok) EXCEPT !.drawn = s.drawn]

\* State::commit and SeatHandler::cursor_image for every request in reqs.
ApplyRequests(s, reqs) ==
  LET damaging == { r \in reqs : r.kind \in {"buffer", "cursor"} }
      commits  == { r \in reqs : r.kind \in {"buffer", "bare"} }
  IN  [s EXCEPT !.render_pending = @ \/ damaging # {},
                !.frame_pending = @ \/ commits # {},
                !.unseen = @ \cup { r.client : r \in damaging },
                !.owed = @ \cup { r.client : r \in commits }]

Handled(s) == [s EXCEPT !.awake = TRUE]   \* about_to_wait follows a handler

-----------------------------------------------------------------------------
Init ==
  /\ \E choreographer \in BOOLEAN :
       loop = [renderer |-> FALSE, render_pending |-> FALSE,
               frame_pending |-> FALSE, rendered_since_vsync |-> FALSE,
               choreographer |-> choreographer, requested_at |-> "none",
               deadline |-> "none", posted |-> 0,
               awake |-> TRUE, control_flow |-> "Wait",
               unseen |-> {}, owed |-> {}, outbox |-> {},
               drawn |-> 0, released |-> 0]
  /\ queue = <<>>
  /\ watcher = "none"
  /\ rearms = 0
  /\ wire = {}
  /\ active = FALSE

-----------------------------------------------------------------------------
(* Clients.  The guest is launched by the first resume that finds a        *)
(* renderer, after the watcher.  A client has one undispatched request at  *)
(* a time, which bounds the wire; it need not wait for its frame callback. *)

ClientRequest(r) ==
  /\ watcher # "none"
  /\ \A q \in wire : q.client # r.client
  /\ wire' = wire \cup {r}
  /\ UNCHANGED <<loop, queue, watcher, rearms, active>>

-----------------------------------------------------------------------------
(* The wayland-watcher thread: poll, post WaylandReady, wait for rearm.    *)

\* poll returns with data to read, or with EINTR and maybe none.
WatcherReady ==
  /\ watcher = "polling"
  /\ queue' = Append(queue, "WaylandReady")
  /\ watcher' = "waiting"
  /\ UNCHANGED <<loop, rearms, wire, active>>

WatcherRearmed ==
  /\ watcher = "waiting"
  /\ rearms > 0
  /\ rearms' = rearms - 1
  /\ watcher' = "polling"
  /\ UNCHANGED <<loop, queue, wire, active>>

WatcherStops ==
  /\ "poll" \in Faults
  /\ watcher = "polling"
  /\ watcher' = "stopped"
  /\ UNCHANGED <<loop, queue, rearms, wire, active>>

-----------------------------------------------------------------------------
(* The display and the passage of time. *)

\* The choreographer runs its callbacks: on_frame posts one Vsync each.
Refresh ==
  /\ loop.choreographer
  /\ loop.posted > 0 \/ loop.drawn > 0 \/ loop.released > 0
  /\ queue' = queue \o [i \in 1 .. loop.posted |-> "Vsync"]
  /\ loop' = [loop EXCEPT !.posted = 0, !.drawn = 0, !.released = 0]
  /\ UNCHANGED <<watcher, rearms, wire, active>>

LoseCallback ==
  /\ "lost" \in Faults
  /\ loop.posted > 0
  /\ loop' = [loop EXCEPT !.posted = @ - 1]
  /\ UNCHANGED <<queue, watcher, rearms, wire, active>>

\* The timer that stands for the display when there is no choreographer.
PeriodElapses ==
  /\ loop.deadline = "armed"
  /\ loop' = [loop EXCEPT !.deadline = "due", !.drawn = 0, !.released = 0]
  /\ UNCHANGED <<queue, watcher, rearms, wire, active>>

TickUnderWay == loop.posted > 0 \/ Queued("Vsync") # {} \/ loop.deadline # "none"

\* 250 ms pass since the request.  The display refreshes every few
\* milliseconds, so a tick still under way by then is a fault.  MaxTicks
\* bounds the callbacks that posting another one piles up.
RequestAges ==
  /\ loop.requested_at = "recent"
  /\ TickUnderWay => /\ "late" \in Faults
                     /\ loop.posted + Cardinality(Queued("Vsync")) < MaxTicks
  /\ loop' = [loop EXCEPT !.requested_at = "old"]
  /\ UNCHANGED <<queue, watcher, rearms, wire, active>>

-----------------------------------------------------------------------------
(* Handlers of the event loop, one at a time on one thread. *)

\* Slip: dispatching without rearming the watcher.
DispatchClientsNoRearm(ok) ==
  /\ queue # <<>> /\ Head(queue) = "WaylandReady"
  /\ queue' = Tail(queue)
  /\ wire' = {}
  /\ loop' = Handled(ScheduleFrame(ApplyRequests(loop, wire), ok))
  /\ UNCHANGED <<watcher, rearms, active>>

\* AppUserEvent::WaylandReady
DispatchClients(ok) ==
  /\ queue # <<>> /\ Head(queue) = "WaylandReady"
  /\ queue' = Tail(queue)
  /\ wire' = {}
  /\ rearms' = rearms + 1
  /\ loop' = Handled(ScheduleFrame(ApplyRequests(loop, wire), ok))
  /\ UNCHANGED <<watcher, active>>

\* AppUserEvent::Vsync
VsyncArrives(ok) ==
  /\ queue # <<>> /\ Head(queue) = "Vsync"
  /\ queue' = Tail(queue)
  /\ loop' = Handled(OnVsync(loop, ok))
  /\ UNCHANGED <<watcher, rearms, wire, active>>

UserEvent == \E ok \in BOOLEAN : DispatchClients(ok) \/ VsyncArrives(ok)

\* The trackpad, a mouse on the monitor or a resize moved something the
\* compositor draws.
MoveCursor(ok) ==
  /\ watcher # "none"
  /\ loop' = Handled(ScheduleFrame(
               [loop EXCEPT !.render_pending = TRUE, !.unseen = @ \cup {Pointer}], ok))
  /\ UNCHANGED <<queue, watcher, rearms, wire, active>>

\* RedrawRequested, or the redraw after ExternalDisplayChanged.
RedrawRequested(ok) ==
  /\ watcher # "none"
  /\ loop' = Handled(Redraw(loop, ok))
  /\ UNCHANGED <<queue, watcher, rearms, wire, active>>

\* Slip: flushing before the tick that releases the callbacks.
IdleFlushFirst(ok) ==
  LET flushed == [loop EXCEPT !.outbox = {}]
      ticked  == IF loop.deadline = "due" THEN OnVsync(flushed, ok) ELSE flushed
  IN  /\ loop.awake
      /\ loop' = [ticked EXCEPT !.awake = FALSE,
                     !.control_flow = IF ticked.deadline # "none"
                                      THEN "WaitUntil" ELSE "Wait"]
      /\ UNCHANGED <<queue, watcher, rearms, wire, active>>

\* Slip: sleeping without an alarm for the timer.
IdleNoAlarm(ok) ==
  LET ticked == IF loop.deadline = "due" THEN OnVsync(loop, ok) ELSE loop
  IN  /\ loop.awake
      /\ loop' = [ticked EXCEPT !.outbox = {}, !.awake = FALSE, !.control_flow = "Wait"]
      /\ UNCHANGED <<queue, watcher, rearms, wire, active>>

\* about_to_wait: flush what the handlers produced, then sleep.  Before that
\* the timer, if it is due, is the vsync.
Idle(ok) ==
  LET ticked == IF loop.deadline = "due" THEN OnVsync(loop, ok) ELSE loop
  IN  /\ loop.awake
      /\ loop' = [ticked EXCEPT
                    !.outbox = {}, !.awake = FALSE,
                    !.control_flow = IF ticked.deadline # "none"
                                     THEN "WaitUntil" ELSE "Wait"]
      /\ UNCHANGED <<queue, watcher, rearms, wire, active>>

\* The loop sleeps until the control flow's deadline.
WakeAtDeadline ==
  /\ ~loop.awake
  /\ loop.control_flow = "WaitUntil"
  /\ loop.deadline = "due"
  /\ loop' = Handled(loop)
  /\ UNCHANGED <<queue, watcher, rearms, wire, active>>

\* `bound`: a renderer could be created; without one resumed returns early.
Resumed(bound, ok) ==
  /\ ~active
  /\ active' = TRUE
  /\ IF loop.renderer \/ bound
       THEN /\ loop' = Handled(Redraw([loop EXCEPT !.renderer = TRUE], ok))
            /\ watcher' = IF watcher = "none" THEN "polling" ELSE watcher
       ELSE /\ loop' = [Handled(loop) EXCEPT !.control_flow = "Wait"]
            /\ UNCHANGED watcher
  /\ UNCHANGED <<queue, rearms, wire>>

\* `trackpad`: the desktop is on an external display, so its renderer stays.
Suspended(trackpad) ==
  /\ active
  /\ active' = FALSE
  /\ loop' = [Handled(loop) EXCEPT !.control_flow = "Wait",
                                   !.renderer = @ /\ trackpad]
  /\ UNCHANGED <<queue, watcher, rearms, wire>>

-----------------------------------------------------------------------------
WatcherStep == WatcherReady \/ WatcherRearmed \/ WatcherStops
TimeStep == Refresh \/ LoseCallback \/ PeriodElapses \/ RequestAges
LoopStep ==
  \/ UserEvent
  \/ WakeAtDeadline
  \/ \E ok \in BOOLEAN : MoveCursor(ok) \/ RedrawRequested(ok) \/ Idle(ok)
  \/ \E bound, ok \in BOOLEAN : Resumed(bound, ok)
  \/ \E trackpad \in BOOLEAN : Suspended(trackpad)

Next ==
  \/ \E r \in Requests : ClientRequest(r)
  \/ WatcherStep
  \/ TimeStep
  \/ LoopStep

Spec == Init /\ [][Next]_vars

(***************************************************************************)
(* The threads keep running, the display keeps refreshing and time passes. *)
(* Clients, input and the activity's life cycle are free to do nothing.    *)
(* A user event wakes the loop only while the activity is resumed: winit   *)
(* ignores its own wake-ups otherwise (poll_events_with_timeout), and only *)
(* an alarm or the next call of Android gets it going; once it goes it     *)
(* takes the events that are there before about_to_wait.                   *)
(***************************************************************************)
Fairness ==
  /\ WF_vars(WatcherReady /\ wire # {}) /\ WF_vars(WatcherRearmed)
  /\ WF_vars(Refresh) /\ WF_vars(PeriodElapses) /\ WF_vars(RequestAges)
  /\ SF_vars((active \/ loop.awake) /\ UserEvent)
  /\ WF_vars(\E ok \in BOOLEAN : Idle(ok))
  /\ WF_vars(WakeAtDeadline)

FairSpec == Spec /\ Fairness

-----------------------------------------------------------------------------
(* Properties *)

TypeOK ==
  /\ loop \in LoopState
  /\ queue \in Seq({"WaylandReady", "Vsync"})
  /\ watcher \in {"none", "polling", "waiting", "stopped"}
  /\ rearms \in Nat
  /\ wire \subseteq Requests
  /\ active \in BOOLEAN

\* The two flags of compositor.rs never forget a client: whatever order frames,
\* hides, failed renders and commits come in, content that is not on screen
\* keeps render_pending set and an unanswered commit keeps frame_pending set.
DamageRemembered ==
  /\ loop.unseen # {} => loop.render_pending
  /\ loop.owed # {} => loop.frame_pending

VisibleWork == loop.renderer /\ (loop.render_pending \/ loop.frame_pending)

\* Between two handlers, a visible compositor with work left has asked the
\* frame clock for a tick (the promise of schedule_frame's comment).
WorkRequestsTick == VisibleWork => loop.requested_at # "none"

\* ... and unless the platform loses callbacks, that tick is really coming:
\* requested_at alone would suppress every later request.
NoLostWakeup ==
  loop.requested_at # "none" => TickUnderWay

\* The watcher and the loop hand one token to and fro: a watcher that waits
\* has either its event still queued or its rearm under way, never both and
\* never neither, so it neither spins nor sleeps through a request.
WatcherHandshake ==
  /\ watcher = "waiting" =>
       \/ rearms = 1 /\ Queued("WaylandReady") = {}
       \/ rearms = 0 /\ \E i \in Queued("WaylandReady") : Queued("WaylandReady") = {i}
  /\ watcher # "waiting" => rearms = 0 /\ Queued("WaylandReady") = {}

\* The loop never goes to sleep on a released frame callback that is not
\* flushed, nor with a timer tick it did not set an alarm for (idle).
SleepsSafely ==
  ~loop.awake => /\ loop.outbox = {}
                 /\ loop.deadline # "none" => loop.control_flow = "WaitUntil"

\* Clients are told to start their next frame at most once per refresh
\* (frame_clock.rs: one Vsync per requested refresh).
OneReleasePerRefresh == loop.released <= 1

\* A refresh gets at most two frames: the one its vsync event resets the
\* guard for, and one drawn just before that event was handled.
AtMostTwoFramesPerRefresh == loop.drawn <= 2

\* A requested tick comes, once: the loop neither loses its pace nor runs ahead
\* of the display, however events and refreshes interleave.
PaceIsKept == NoLostWakeup /\ OneReleasePerRefresh /\ AtMostTwoFramesPerRefresh

\* A client is told to go on only once what it had committed is on screen,
\* or the renderer is gone (the order of render and release in on_vsync).
ReleasedOnlyWhenShown ==
  [][ loop.owed # {} /\ loop.owed' = {} => loop.unseen' = {} \/ ~loop.renderer' ]_vars

\* In front, a request on the wire is dispatched, with a renderer or without
\* (the watcher's promise).
RequestsDispatched ==
  \A r \in Requests : r \in wire ~> r \notin wire \/ ~active

\* run.rs:285: "The monitor stays a desktop display, for a mouse and keyboard
\* on it."  A client that asks for something while the loop sleeps in the
\* background, with a monitor to draw to, is served there.
MonitorStaysDesktop ==
  \A r \in Requests :
    r \in wire /\ ~active /\ ~loop.awake /\ loop.renderer
      ~> r \notin wire \/ active \/ ~loop.renderer

-----------------------------------------------------------------------------
(* The wake-ups, the clock, the queue and the watcher are how FrameLoop      *)
(* keeps the promise that FramePacing states without them.                   *)

Pacing == INSTANCE FramePacing WITH
  Content <- Client \cup {Pointer},
  visible <- loop.renderer,
  unseen  <- loop.unseen,
  owed    <- loop.owed,
  spent   <- loop.rendered_since_vsync,
  front   <- active

\* Every step of the event loop is a step of the abstract compositor.
PacingSafety == Pacing!Spec

\* ... and it takes the ticks the abstract compositor must take.
PacingFair == Pacing!FairSpec

=============================================================================
