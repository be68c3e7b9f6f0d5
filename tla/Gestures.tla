------------------------------ MODULE Gestures ------------------------------
(***************************************************************************)
(* From fingers to pointer buttons (event_centralizer.rs, event_handler.rs,*)
(* mod.rs): taps, scrolls, long presses and drags on the phone's screen,   *)
(* or on the phone as a trackpad while the desktop is on a monitor, and    *)
(* the buttons of a mouse on that monitor.                                 *)
(*                                                                         *)
(* What the guest has pressed is kept apart from what the compositor       *)
(* believes to hold, so that a button can get stuck.  Fingers have places  *)
(* on a line, from which the code computes its centroid and its distances; *)
(* `hist` keeps what each finger did, apart from that.  A handler is a     *)
(* function on the record `seat`.  Not here: a mouse on the phone's own    *)
(* window or captured there, whose buttons are passed on as they come.     *)
(***************************************************************************)
EXTENDS Integers, Sequences, FiniteSets, SequencesExt

CONSTANTS
  Finger,      \* touch ids
  Slop,        \* touch_slop_px
  Scenes,      \* who may take part, see Scene
  MaxReports   \* bound on the mouse's events waiting in the bridge

\* "display": a monitor comes or goes, and the desktop moves to or from it.
\* "render": a frame fails and the renderer is dropped.
\* "suspend": the activity is stopped, and may be resumed.
AllInterrupts == {"display", "render", "suspend"}

Button == {"left", "right", "middle"}

Scene ==
  [ touching : SUBSET Finger,            \* fingers that may touch the phone
    places : SUBSET Int,                 \* where
    mouse : SUBSET Button,               \* buttons of a mouse on the monitor
    interrupts : SUBSET AllInterrupts ]  \* what may cut a gesture short

ASSUME ScenesType == Scenes \subseteq Scene
ASSUME SlopType == Slop \in Nat
ASSUME BoundType == MaxReports \in Nat

VARIABLES
  scene,     \* one of Scenes, the same all the time
  fingers,   \* on the screen, whatever the compositor knows of them
  place,     \* where each is; Home if it is not down
  reports,   \* pointer events in the bridge, as the buttons they report
  seat,      \* WaylandBackend and the guest's buttons, see SeatState
  marks,     \* scroll_centroid and touch_down_position, see MarkState
  renderer,  \* graphic_renderer.is_some()
  trackpad,  \* is_trackpad(), if there is a renderer
  monitor,   \* a presentation is there, for a mouse to point at
  active,    \* the activity is resumed
  awake,     \* about_to_wait is still to be called
  alarm,     \* ControlFlow::WaitUntil for a long press
  hist       \* history of the gesture, see HistState

vars == <<scene, fingers, place, reports, seat, marks, renderer, trackpad, monitor,
          active, awake, alarm, hist>>
touches == <<fingers, place>>
displays == <<renderer, trackpad, monitor>>
loopState == <<awake, alarm>>

Modes == {"Undecided", "Scroll", "Move", "LongPress", "Drag"}

SeatState ==
  [ points : SUBSET Finger,           \* touch_points
    mode : Modes,                     \* touch_mode
    centroid : BOOLEAN,               \* scroll_centroid.is_some()
    down : {"none", "recent", "due"}, \* touch_down_time and _position; due: it
                                      \* is longer ago than the long press timeout
    most : Nat,                       \* touch_fingers
    pressed : BOOLEAN,                \* pointer_pressed
    external : SUBSET Button,         \* external_buttons
    guest : SUBSET Button,            \* pressed as far as the clients know
    clicked : Button \cup {"none"} ]  \* the last click of this gesture

\* A mean, as a sum and the number of what is summed.
Mean == [sum : Int, of : Nat]

MarkState ==
  [ anchor : Mean,   \* scroll_centroid, if there is one
    origin : Int ]   \* touch_down_position, if there is one

HistState ==
  [ most : Nat,           \* fingers down at once since the first one landed
    from : [Finger -> Int],  \* where they were when the last one landed
    lifted : BOOLEAN,     \* one has been lifted, others were not
    moved : BOOLEAN,      \* before that, all moved off one way, farther than the slop
    restless : BOOLEAN,   \* one moved off farther than the slop, or moved after a lift
    long : BOOLEAN,       \* the long press was armed
    pad : BOOLEAN,        \* it began on the trackpad
    broken : BOOLEAN,     \* it was cut short with fingers down, or ignored
    cancelled : BOOLEAN,  \* Android took the fingers back
    lost : SUBSET Button ] \* held when who was to release them went, in any gesture

Home == 0
Nowhere == [f \in Finger |-> Home]
NoMarks == [anchor |-> [sum |-> 0, of |-> 0], origin |-> Home]

\* A finger lands, and they are now at those places.
Fresh(lost, places) ==
  [most |-> 1, from |-> places, lifted |-> FALSE, moved |-> FALSE, restless |-> FALSE,
   long |-> FALSE, pad |-> trackpad, broken |-> ~renderer, cancelled |-> FALSE, lost |-> lost]

Init ==
  /\ scene \in Scenes
  /\ fingers = {} /\ place = Nowhere /\ reports = <<>> /\ marks = NoMarks
  /\ seat = [points |-> {}, mode |-> "Undecided", centroid |-> FALSE, down |-> "none",
             most |-> 0, pressed |-> FALSE, external |-> {}, guest |-> {},
             clicked |-> "none"]
  /\ renderer = TRUE /\ trackpad \in BOOLEAN /\ monitor = trackpad /\ active = TRUE
  /\ awake = FALSE /\ alarm = FALSE
  /\ hist = [Fresh({}, Nowhere) EXCEPT !.broken = TRUE]

-----------------------------------------------------------------------------
(* Distances *)

\* centroid
Centroid(points, at) ==
  [sum |-> MapThenSumSet(LAMBDA f : at[f], points), of |-> Cardinality(points)]

Off(here, there) == here - there > Slop \/ there - here > Slop

\* The same of two means, without dividing.
MeansOff(m, n) ==
  \/ m.sum * n.of - n.sum * m.of > Slop * m.of * n.of
  \/ n.sum * m.of - m.sum * n.of > Slop * m.of * n.of

\* All fingers have moved off one way, as far as that.
Together(from) ==
  \/ \A f \in fingers : place'[f] - from[f] > Slop
  \/ \A f \in fingers : from[f] - place'[f] > Slop

-----------------------------------------------------------------------------
(* Buttons *)

\* Slip: the drag's button is forgotten with the gesture.
ResetForgetsButton(s) ==
  [s EXCEPT !.points = {}, !.centroid = FALSE, !.mode = "Undecided", !.down = "none",
            !.most = 0, !.pressed = FALSE]

\* reset_touch_state
Reset(s) ==
  [s EXCEPT !.points = {}, !.centroid = FALSE, !.mode = "Undecided", !.down = "none",
            !.most = 0]

Press(s, b) == [s EXCEPT !.guest = @ \cup {b}]
Release(s, b) == [s EXCEPT !.guest = @ \ {b}]
Click(s, b) == [Release(Press(s, b), b) EXCEPT !.clicked = b]

\* A drag takes the left button on its first motion.
Grab(s) == IF s.pressed THEN s ELSE [Press(s, "left") EXCEPT !.pressed = TRUE]
LetGo(s) == IF s.pressed THEN [Release(s, "left") EXCEPT !.pressed = FALSE] ELSE s

\* scroll() and the handler of the axis event it makes, if any.
Scroll(s, still) ==
  IF ~s.centroid THEN [s EXCEPT !.centroid = TRUE]
  ELSE IF still THEN s ELSE LetGo(s)

\* on_external_pointer
External(s, buttons) ==
  [s EXCEPT !.guest = (@ \cup (buttons \ s.external)) \ (s.external \ buttons),
            !.external = buttons]

-----------------------------------------------------------------------------
(* Fingers on the phone's own screen: centralize *)

PhoneStarted(s, f) ==
  LET at == [s EXCEPT !.points = @ \cup {f}, !.centroid = TRUE]
  IN  IF Cardinality(at.points) >= 2 THEN [at EXCEPT !.mode = "Scroll"]
      ELSE [at EXCEPT !.mode = "Undecided", !.down = "recent"]

Strays(s, past) == past /\ s.down # "none"

\* Slip: a drag starts from any finger that moves far enough.
PhoneMovedEager(s, f, past, still) ==
  LET at == [s EXCEPT !.points = @ \cup {f}]
  IN  CASE at.mode \in {"Undecided", "LongPress"} /\ Strays(s, past) ->
             Grab([at EXCEPT !.mode = "Drag"])
        [] at.mode = "Scroll" -> Scroll(at, still)
        [] at.mode = "Drag" -> Grab(at)
        [] OTHER -> at

PhoneMoved(s, f, past, still) ==
  LET at == [s EXCEPT !.points = @ \cup {f}]
  IN  CASE at.mode = "Undecided" /\ Strays(s, past) ->
             [at EXCEPT !.mode = "Scroll", !.centroid = TRUE]
        [] at.mode = "LongPress" /\ Strays(s, past) -> Grab([at EXCEPT !.mode = "Drag"])
        [] at.mode = "Scroll" -> Scroll(at, still)
        [] at.mode = "Drag" -> Grab(at)
        [] OTHER -> at

\* Slip: touch_fingers counts the fingers that are down.
WithoutCount(s, gone) == [s EXCEPT !.points = @ \ gone, !.most = @ - Cardinality(gone)]

Without(s, gone) == [s EXCEPT !.points = @ \ gone]

PhoneEnded(s, f) ==
  LET left == Without(s, {f})
      done == Reset(left)
  IN  CASE left.points # {} -> [left EXCEPT !.centroid = TRUE]
        [] left.points = {} /\ s.pressed -> LetGo(done)
        [] left.points = {} /\ ~s.pressed ->
             CASE s.mode = "Undecided" -> Click(done, "left")
               [] s.mode = "LongPress" -> Click(done, "right")
               [] OTHER -> done

\* Slip: a drag Android takes back keeps its button.
CancelledKeepsButton(s, gone) ==
  LET left == Without(s, gone)
  IN  IF left.points # {} THEN [left EXCEPT !.centroid = TRUE] ELSE Reset(left)

\* Android takes back all fingers at once.
Cancelled(s, gone) ==
  LET left == Without(s, gone)
  IN  IF left.points # {} THEN [left EXCEPT !.centroid = TRUE] ELSE LetGo(Reset(left))

-----------------------------------------------------------------------------
(* Fingers on the trackpad: centralize_trackpad *)

Bigger(m, n) == IF m > n THEN m ELSE n

TrackpadStarted(s, f) ==
  LET points == s.points \cup {f}
      at == [s EXCEPT !.points = points, !.centroid = TRUE,
                      !.most = Bigger(@, Cardinality(points))]
  IN  CASE Cardinality(points) = 1 -> [at EXCEPT !.mode = "Undecided", !.down = "recent"]
        [] Cardinality(points) # 1 /\ s.mode = "LongPress" -> [at EXCEPT !.mode = "Undecided"]
        [] OTHER -> at

\* With two fingers or more, past means that their centroid left the slop.
TrackpadMoved(s, f, past, still) ==
  LET at == [s EXCEPT !.points = @ \cup {f}]
      mode == CASE s.mode = "Undecided" /\ Strays(s, past) -> "Move"
                [] s.mode = "LongPress" /\ Strays(s, past) -> "Drag"
                [] OTHER -> s.mode
  IN  CASE Cardinality(at.points) >= 2 /\ s.mode # "Scroll" ->
             IF s.centroid /\ past THEN [at EXCEPT !.mode = "Scroll"] ELSE at
        [] s.mode = "Scroll" -> Scroll(at, still)
        [] Cardinality(at.points) = 1 /\ s.mode # "Scroll" ->
             IF mode = "Drag" /\ f \in s.points
               THEN Grab([at EXCEPT !.mode = mode]) ELSE [at EXCEPT !.mode = mode]

\* Slip: any tap of several fingers is a right click.
TrackpadEndedRight(s, f) ==
  LET left == Without(s, {f})
      done == Reset(left)
  IN  CASE left.points # {} -> [left EXCEPT !.centroid = TRUE]
        [] left.points = {} /\ s.pressed -> LetGo(done)
        [] left.points = {} /\ ~s.pressed ->
             CASE s.mode = "Undecided" /\ s.most = 1 -> Click(done, "left")
               [] s.mode = "Undecided" /\ s.most # 1 -> Click(done, "right")
               [] s.mode = "LongPress" -> Click(done, "right")
               [] OTHER -> done

TrackpadEnded(s, f) ==
  LET left == Without(s, {f})
      done == Reset(left)
  IN  CASE left.points # {} -> [left EXCEPT !.centroid = TRUE]
        [] left.points = {} /\ s.pressed -> LetGo(done)
        [] left.points = {} /\ ~s.pressed ->
             CASE s.mode = "Undecided" /\ s.most = 1 -> Click(done, "left")
               [] s.mode = "Undecided" /\ s.most = 2 -> Click(done, "right")
               [] s.mode = "Undecided" /\ s.most \notin {1, 2} -> Click(done, "middle")
               [] s.mode = "LongPress" /\ s.most = 1 -> Click(done, "right")
               [] OTHER -> done

-----------------------------------------------------------------------------
(* Events of the event loop *)

\* window_event drops what arrives while there is no renderer.
Handle(handled, marked) ==
  /\ seat' = IF renderer THEN handled ELSE seat
  /\ marks' = IF ~renderer THEN marks ELSE IF handled.points = {} THEN NoMarks ELSE marked
  /\ awake' = TRUE
  /\ UNCHANGED <<scene, reports, displays, active, alarm>>

\* Buttons that are still not the guest's, or no longer, are not lost.
StillLost == IF reports = <<>> THEN hist.lost \cap seat.guest ELSE hist.lost

TouchStarted(f, at) ==
  /\ active /\ f \notin fingers
  /\ fingers' = fingers \cup {f}
  /\ place' = [place EXCEPT ![f] = at]
  /\ LET s == IF fingers = {} THEN [seat EXCEPT !.clicked = "none"] ELSE seat
         points == s.points \cup {f}
     IN  Handle(IF trackpad THEN TrackpadStarted(s, f) ELSE PhoneStarted(s, f),
                [anchor |-> Centroid(points, place'),
                 origin |-> IF points = {f} THEN at ELSE marks.origin])
  /\ hist' = IF fingers = {} THEN Fresh(StillLost, place')
             ELSE [hist EXCEPT !.most = Bigger(@, Cardinality(fingers')),
                               !.from = IF hist.broken THEN @ ELSE place']

\* What the code asks of the place a finger has come to.
TouchMoved(f, at) ==
  /\ f \in fingers
  /\ place' = [place EXCEPT ![f] = at]
  /\ LET points == seat.points \cup {f}
         now == Centroid(points, place')
         past == IF trackpad /\ Cardinality(points) >= 2 THEN MeansOff(now, marks.anchor)
                 ELSE Off(at, marks.origin)
         still == now.sum * marks.anchor.of = marks.anchor.sum * now.of
         moved == IF trackpad THEN TrackpadMoved(seat, f, past, still)
                  ELSE PhoneMoved(seat, f, past, still)
     IN  Handle(moved, IF moved.mode = "Scroll" THEN [marks EXCEPT !.anchor = now] ELSE marks)
  /\ hist' = IF hist.broken THEN hist
             ELSE [hist EXCEPT !.moved = @ \/ (~hist.lifted /\ Together(hist.from)),
                               !.restless = @ \/ hist.lifted \/ Off(at, hist.from[f])]
  /\ UNCHANGED fingers

TouchEnded(f) ==
  /\ f \in fingers
  /\ fingers' = fingers \ {f}
  /\ place' = [place EXCEPT ![f] = Home]
  /\ Handle(IF trackpad THEN TrackpadEnded(seat, f) ELSE PhoneEnded(seat, f),
            [marks EXCEPT !.anchor = Centroid(seat.points \ {f}, place)])
  /\ hist' = IF hist.broken THEN hist
             ELSE [hist EXCEPT !.lifted = @ \/ fingers' # {}, !.from[f] = Home]

TouchCancelled ==
  /\ fingers # {}
  /\ fingers' = {} /\ place' = Nowhere
  /\ Handle(Cancelled(seat, fingers),
            [marks EXCEPT !.anchor = Centroid(seat.points \ fingers, place)])
  /\ hist' = IF hist.broken THEN hist ELSE [hist EXCEPT !.cancelled = TRUE, !.from = Nowhere]

\* The mouse on the monitor, while there is a presentation to listen to it.
MouseReports ==
  /\ scene.mouse # {} /\ monitor /\ Len(reports) < MaxReports
  /\ \E buttons \in SUBSET scene.mouse : reports' = Append(reports, buttons)
  /\ UNCHANGED <<scene, touches, seat, marks, displays, active, loopState, hist>>

\* user_event, AppUserEvent::ExternalPointer: all that is in the bridge.
ExternalPointer ==
  /\ reports # <<>>
  /\ reports' = <<>>
  /\ seat' = FoldLeft(External, seat, reports)
  /\ hist' = [hist EXCEPT !.lost = @ \cap seat'.guest]
  /\ awake' = TRUE
  /\ UNCHANGED <<scene, touches, marks, displays, active, alarm>>

\* long_press_remaining
Holding(s) == s.mode = "Undecided" /\ Cardinality(s.points) = 1 /\ s.down # "none"

\* Slip: sleeping without an alarm for the long press.
IdleNoAlarm ==
  /\ awake
  /\ LET armed == Holding(seat) /\ seat.down = "due"
     IN  /\ seat' = IF armed THEN [seat EXCEPT !.mode = "LongPress"] ELSE seat
         /\ hist' = [hist EXCEPT !.long = @ \/ armed]
  /\ alarm' = FALSE
  /\ awake' = FALSE
  /\ UNCHANGED <<scene, touches, reports, marks, displays, active>>

\* idle: poll_long_press, then sleep until the next deadline.
Idle ==
  /\ awake
  /\ LET armed == Holding(seat) /\ seat.down = "due"
     IN  /\ seat' = IF armed THEN [seat EXCEPT !.mode = "LongPress"] ELSE seat
         /\ hist' = [hist EXCEPT !.long = @ \/ armed]
  /\ alarm' = Holding(seat')
  /\ awake' = FALSE
  /\ UNCHANGED <<scene, touches, reports, marks, displays, active>>

TimeoutPasses ==
  /\ seat.down = "recent"
  /\ seat' = [seat EXCEPT !.down = "due"]
  /\ UNCHANGED <<scene, touches, reports, marks, displays, active, loopState, hist>>

WakeAtDeadline ==
  /\ ~awake /\ alarm /\ seat.down = "due"
  /\ awake' = TRUE
  /\ UNCHANGED <<scene, touches, reports, seat, marks, displays, active, alarm, hist>>

\* A gesture is cut short, and its fingers are no longer followed.
Broken ==
  IF fingers = {} THEN hist
  ELSE [hist EXCEPT !.broken = TRUE, !.from = Nowhere, !.lifted = FALSE, !.moved = FALSE,
                    !.restless = FALSE, !.cancelled = FALSE]
DragsButton == IF seat.pressed THEN {"left"} ELSE {}
MousesButtons == IF reports = <<>> THEN seat.external ELSE Last(reports)

\* A monitor is plugged in, unless the app has stopped listening for one.
MonitorComes ==
  /\ "display" \in scene.interrupts /\ ~monitor /\ (active \/ renderer)
  /\ monitor' = TRUE
  /\ UNCHANGED <<scene, touches, reports, seat, marks, renderer, trackpad, active,
                 loopState, hist>>

\* It is unplugged, and the mouse that pointed at it is heard no more.
MonitorGoes ==
  /\ "display" \in scene.interrupts /\ monitor
  /\ monitor' = FALSE
  /\ hist' = [hist EXCEPT !.lost = @ \cup MousesButtons]
  /\ UNCHANGED <<scene, touches, reports, seat, marks, renderer, trackpad, active, loopState>>

\* apply_external_display finds another surface, or none, or cannot attach it.
DisplayChanged ==
  /\ "display" \in scene.interrupts /\ renderer /\ (trackpad \/ monitor)
  /\ trackpad' \in {FALSE, monitor}
  /\ seat' = Reset(seat) /\ marks' = NoMarks
  /\ hist' = Broken
  /\ awake' = TRUE
  /\ UNCHANGED <<scene, touches, reports, renderer, monitor, active, alarm>>

\* render_frame fails: the renderer goes, the gesture's state stays.
RenderFails ==
  /\ "render" \in scene.interrupts /\ renderer
  /\ renderer' = FALSE /\ trackpad' = FALSE
  /\ hist' = [Broken EXCEPT !.lost = @ \cup DragsButton]
  /\ awake' = TRUE
  /\ UNCHANGED <<scene, touches, reports, seat, marks, monitor, active, alarm>>

\* suspended: only on a monitor the renderer stays.  The window is gone, so
\* what its fingers do from now on is not told here.
Suspended ==
  /\ "suspend" \in scene.interrupts /\ active
  /\ active' = FALSE
  /\ fingers' = {} /\ place' = Nowhere
  /\ seat' = [Reset(seat) EXCEPT !.pressed = FALSE] /\ marks' = NoMarks
  /\ renderer' = trackpad
  /\ hist' = [Broken EXCEPT !.lost = @ \cup DragsButton]
  /\ awake' = TRUE /\ alarm' = FALSE
  /\ UNCHANGED <<scene, reports, trackpad, monitor>>

\* resumed: bind may fail; apply_external_display may find another surface.
Resumed ==
  /\ ~active
  /\ active' = TRUE
  /\ renderer' \in {TRUE, renderer}
  /\ IF renderer'
       THEN /\ trackpad' \in {FALSE, monitor, trackpad}
            /\ seat' \in {seat, Reset(seat)}
            /\ trackpad' # trackpad => seat' = Reset(seat)
       ELSE UNCHANGED <<trackpad, seat>>
  /\ awake' = TRUE
  /\ UNCHANGED <<scene, touches, reports, marks, monitor, alarm, hist>>

-----------------------------------------------------------------------------
Next ==
  \/ \E f \in scene.touching :
       \/ \E at \in scene.places : TouchStarted(f, at) \/ TouchMoved(f, at)
       \/ TouchEnded(f)
  \/ TouchCancelled \/ MouseReports \/ ExternalPointer
  \/ Idle \/ TimeoutPasses \/ WakeAtDeadline
  \/ MonitorComes \/ MonitorGoes \/ DisplayChanged \/ RenderFails \/ Suspended \/ Resumed

Spec == Init /\ [][Next]_vars

\* The event loop runs and time passes; fingers do as they please.
FairSpec == Spec /\ WF_vars(Idle) /\ WF_vars(TimeoutPasses) /\ WF_vars(WakeAtDeadline)

-----------------------------------------------------------------------------
(* Properties *)

TypeOK ==
  /\ fingers \subseteq Finger
  /\ place \in [Finger -> Int]
  /\ reports \in Seq(SUBSET Button)
  /\ seat \in SeatState /\ marks \in MarkState
  /\ {renderer, trackpad, monitor, active, awake, alarm} \subseteq BOOLEAN
  /\ hist \in HistState

\* The fingers have made a tap: none moved off farther than the slop, and none
\* moved once others were lifted.  On the phone one finger taps, however long.
\* On the trackpad any number does, but for a tap of several in which one was
\* ever held alone for the long press: that is lost, as the press is armed
\* again for the finger that is lifted last (event_handler.rs:181).
TapMade ==
  /\ fingers = {} /\ ~hist.cancelled /\ ~hist.restless
  /\ hist.most = 1 \/ (hist.pad /\ ~hist.long)

\* A gesture that was not cut short clicks if its fingers made a tap, and if it
\* clicks they have not moved off together, be it one finger or more: one is
\* a left click if it lifted in time and a right click if not, and on the
\* trackpad two make a right and more a middle click.  Fingers that move each
\* its own way, as in a pinch, may click all the same: the code's question is
\* where their centroid went.  No gesture before it changes this.
ClicksAreTaps ==
  ~hist.broken =>
    /\ TapMade => seat.clicked # "none"
    /\ seat.clicked # "none" => ~hist.moved /\ ~hist.cancelled
    /\ seat.clicked = "left" => hist.most = 1 /\ ~hist.long
    /\ seat.clicked = "right" => (hist.most = 1 /\ hist.long) \/ (hist.most = 2 /\ hist.pad)
    /\ seat.clicked = "middle" => hist.most > 2 /\ hist.pad

\* The left button is only taken for a drag, after a finger alone was held for
\* the long press.  If it is the gesture's only one, it has moved off from
\* where it landed, farther than the slop; one that others have left behind is
\* measured from where the first of them landed (travelled_past_slop), and
\* may drag without having moved.
DragAfterLongPress ==
  [][seat'.pressed /\ ~seat.pressed =>
       /\ seat'.mode = "Drag" /\ hist.long
       /\ hist.most = 1 /\ ~hist.broken => hist'.moved]_vars

\* Every button the guest sees pressed has somebody to release it: a drag that
\* is handled, a mouse that is heard or whose reports still are.  The desktop
\* moving to a monitor and back in the middle of a drag must not lose the
\* button.  Three events do, and hist.lost says which buttons: a frame that
\* fails and a stop of the activity in the middle of a drag (run.rs:281-283
\* clears pointer_pressed without a release), and a monitor that goes while its
\* mouse holds a button (external_buttons waits for another report).
NoStuckButton ==
  seat.guest \subseteq
    (IF renderer THEN DragsButton ELSE {})
      \cup (IF monitor \/ reports # <<>> THEN seat.external ELSE {})
      \cup hist.lost

\* With no finger on the screen no drag holds a button, whatever display the
\* drag began on and however often that changed.
DragEndsWithFingers == fingers = {} => ~seat.pressed

\* The compositor believes no finger down that has been lifted; with one too
\* many, every tap to come would be a scroll of two fingers.
PointsOnScreen == seat.points \subseteq fingers

\* Whatever cut a gesture short, it is over for the compositor once it is for
\* the hand, so that the next one starts afresh.
GestureEndsWithFingers == renderer => DragEndsWithFingers /\ PointsOnScreen

\* A finger that stays where it landed becomes a long press although no event
\* arrives: the loop sets itself an alarm and wakes up for it.
LongPressArms == Holding(seat) ~> ~Holding(seat)

=============================================================================
