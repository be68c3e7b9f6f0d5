------------------------------ MODULE KeyBridge ------------------------------
(***************************************************************************)
(* Keys on their way to the guest (accessibility.rs, external_display.rs,  *)
(* run.rs): Android's UI thread queues them in the bridge and posts a user *)
(* event, the event loop drains the queue.                                 *)
(*                                                                         *)
(* Keys of a hardware keyboard come from the accessibility service, which  *)
(* asks under one lock whether the runtime is active and queues under the  *)
(* next.  What it does not take goes to the window with the focus: the     *)
(* phone's, or one of the monitor's, which queues it in the bridge like    *)
(* the Android keyboard its keys, unasked.  The focus is Android's to give *)
(* and may move between any two events.  Not here: key_counter, which      *)
(* nothing reads, and setup's progress page, under which the event loop    *)
(* throws the queue away.                                                  *)
(***************************************************************************)
EXTENDS Integers, Sequences, SequencesExt

CONSTANTS
  Hardware,   \* keys the service is asked about, if it is connected
  Forwarded,  \* keys of the Android keyboard, some of them perhaps Hardware's
  MaxWaiting  \* bound on the bridge's queue, the window's and the user events

Key == Hardware \cup Forwarded

ASSUME BoundType == MaxWaiting \in Nat \ {0}

VARIABLES
  service,   \* the accessibility service is connected, all the time or never
  held,      \* keys whose last event was a press
  ui,        \* the UI thread in inject_key: where, and with which key event
  active,    \* runtime_active
  pending,   \* pending_events
  ready,     \* AccessibilityInputReady events that are not handled
  window,    \* key events the window has got and the loop has not handled
  front,     \* the activity has its window
  renderer,  \* graphic_renderer.is_some()
  guest,     \* keys down as far as the guest knows (pressed_keys)
  whole      \* history: keys whose last press was on one way only, and nothing
             \* was lost, deactivated or on the other way since

vars == <<service, held, ui, active, pending, ready, window, front, renderer, guest, whole>>
loopVars == <<active, pending, ready, window, front, renderer, guest>>

\* `asked`: the event has passed the check of enqueue_key_event.
KeyEvent == [key : Key, down : BOOLEAN, asked : BOOLEAN]
NoEvent == [key |-> "none", down |-> FALSE, asked |-> FALSE]

Idle == [at |-> "idle", event |-> NoEvent]

Init ==
  /\ service \in BOOLEAN
  /\ held = {} /\ guest = {} /\ whole = {}
  /\ ui = Idle
  /\ active = FALSE /\ renderer = FALSE /\ front = FALSE
  /\ pending = <<>> /\ ready = 0 /\ window = <<>>

-----------------------------------------------------------------------------
(* The UI thread *)

\* A key goes down or up.  A press of a key that is down is that of a second
\* keyboard, or a repeat, which only the service is given; a release of one that
\* is not follows on what Android released for a window that lost the focus.
Strikes(e) ==
  /\ ui = Idle /\ Len(pending) < MaxWaiting /\ ready < MaxWaiting
  /\ held' = IF e.down THEN held \cup {e.key} ELSE held \ {e.key}

\* Nothing orders the two ways: what is on one may overtake the other.
Followed(e, other) ==
  IF \E i \in DOMAIN other : other[i].key = e.key THEN whole \ {e.key}
  ELSE IF e.down THEN whole \cup {e.key} ELSE whole

Bridged(e) ==
  /\ Strikes(e)
  /\ ui' = [at |-> "push", event |-> e]
  /\ whole' = Followed(e, window)
  /\ UNCHANGED <<service, loopVars>>

\* enqueue_key_event finds the runtime active and lets go of the lock.
ServiceTakes(e) ==
  /\ e.asked /\ e.key \in Hardware /\ service /\ active
  /\ Bridged(e)

\* What the service does not take ...
PassedOn(e) == ~e.asked /\ e.key \in Hardware /\ ~(service /\ active)

\* ... a window of the monitor's gets, as it has the focus (dispatchKeyEvent), or
\* the Android keyboard types a key: nativeOnKey, whether active or not.
Forward(e) ==
  /\ PassedOn(e) \/ (~e.asked /\ e.key \in Forwarded)
  /\ Bridged(e)

\* The phone's window has the focus.  Without a renderer the key comes to nothing.
WindowGets(e) ==
  /\ PassedOn(e)
  /\ Strikes(e) /\ Len(window) < MaxWaiting
  /\ window' = IF front THEN Append(window, e) ELSE window
  /\ whole' = IF front /\ renderer THEN Followed(e, pending) ELSE whole \ {e.key}
  /\ UNCHANGED <<service, ui, active, pending, ready, front, renderer, guest>>

\* inject_key queues the event ...
Push ==
  /\ ui.at = "push"
  /\ pending' = Append(pending, ui.event)
  /\ ui' = [ui EXCEPT !.at = "send"]
  /\ UNCHANGED <<service, held, active, ready, window, front, renderer, guest, whole>>

\* Slip: nobody is woken for a runtime that is not active.
SendIfActive ==
  /\ ui.at = "send"
  /\ ready' = IF active THEN ready + 1 ELSE ready
  /\ ui' = Idle
  /\ UNCHANGED <<service, held, active, pending, window, front, renderer, guest, whole>>

\* ... and, the lock let go of, posts AccessibilityInputReady.
Send ==
  /\ ui.at = "send"
  /\ ready' = ready + 1
  /\ ui' = Idle
  /\ UNCHANGED <<service, held, active, pending, window, front, renderer, guest, whole>>

-----------------------------------------------------------------------------
(* The event loop *)

\* KeyboardHandle::input
Press(down, e) == IF e.down THEN down \cup {e.key} ELSE down \ {e.key}

\* Slip: of the events that are queued only the last is handled.
ReadyArrivesLast ==
  /\ ready > 0
  /\ ready' = ready - 1
  /\ pending' = <<>>
  /\ guest' = IF pending = <<>> THEN guest ELSE Press(guest, Last(pending))
  /\ UNCHANGED <<service, held, ui, active, window, front, renderer, whole>>

\* user_event, AppUserEvent::AccessibilityInputReady
ReadyArrives ==
  /\ ready > 0
  /\ ready' = ready - 1
  /\ pending' = <<>>
  /\ guest' = FoldLeft(Press, guest, pending)
  /\ UNCHANGED <<service, held, ui, active, window, front, renderer, whole>>

\* window_event
KeyArrives ==
  /\ window # <<>>
  /\ window' = Tail(window)
  /\ guest' = IF renderer THEN Press(guest, Head(window)) ELSE guest
  /\ UNCHANGED <<service, held, ui, active, pending, ready, front, renderer, whole>>

\* Slip: the queue outlives the runtime.
DeactivateKeeps == active' = FALSE /\ whole' = {} /\ UNCHANGED pending

\* set_runtime_active(false)
Deactivate == active' = FALSE /\ pending' = <<>> /\ whole' = {}

\* render_frame fails.
RenderFails ==
  /\ renderer
  /\ renderer' = FALSE
  /\ Deactivate
  /\ UNCHANGED <<service, held, ui, ready, window, front, guest>>

\* resumed: bind fails, unless there is a renderer.
Resumed(bound) ==
  /\ ~front
  /\ front' = TRUE
  /\ renderer' = (renderer \/ bound)
  /\ IF renderer' THEN active' = TRUE /\ UNCHANGED <<pending, whole>> ELSE Deactivate
  /\ UNCHANGED <<service, held, ui, ready, window, guest>>

\* suspended, with Android's UI thread waiting for it.  `monitor`: the desktop
\* is on a monitor, whose renderer stays.  The window takes its input with it.
Suspended(monitor) ==
  /\ front /\ ui = Idle
  /\ front' = FALSE
  /\ renderer' = (renderer /\ monitor)
  /\ Deactivate
  /\ window' = <<>>
  /\ UNCHANGED <<service, held, ui, ready, guest>>

-----------------------------------------------------------------------------
Next ==
  \/ \E e \in KeyEvent : ServiceTakes(e) \/ Forward(e) \/ WindowGets(e)
  \/ Push \/ Send
  \/ ReadyArrives \/ KeyArrives
  \/ RenderFails
  \/ \E bound \in BOOLEAN : Resumed(bound)
  \/ \E monitor \in BOOLEAN : Suspended(monitor)

Spec == Init /\ [][Next]_vars

-----------------------------------------------------------------------------
(* Properties *)

\* What the bridge itself is made of.
BridgeTypeOK ==
  /\ ui \in [at : {"idle"}, event : {NoEvent}] \cup [at : {"push", "send"}, event : KeyEvent]
  /\ active \in BOOLEAN
  /\ pending \in Seq(KeyEvent)
  /\ ready \in Nat

TypeOK ==
  /\ BridgeTypeOK
  /\ Len(pending) <= MaxWaiting /\ ready <= MaxWaiting
  /\ window \in Seq(KeyEvent) /\ Len(window) <= MaxWaiting
  /\ {service, front, renderer} \subseteq BOOLEAN
  /\ held \subseteq Key /\ guest \subseteq Key /\ whole \subseteq Key

\* The guest has a key down just when its last event was a press, once what is
\* under way is counted: no press or release is lost, doubled or out of order
\* between the two threads, the locks and the queues (inject_key, user_event,
\* window_event).  Excepted until their next press: keys a deactivation came
\* upon, keys of a window without a renderer, and keys with events on both ways
\* at once (a hardware key as the focus moves, Enter on either keyboard), of
\* which the code may deliver the later first.
GuestAgrees ==
  LET underWay == window \o pending \o (IF ui.at = "push" THEN <<ui.event>> ELSE <<>>)
  IN  \A k \in whole : k \in FoldLeft(Press, guest, underWay) <=> k \in held

\* Whatever is queued has a wake-up that is still to be handled, or the UI
\* thread is about to post it.
QueuedIsAnnounced == pending # <<>> => ready > 0 \/ ui.at = "send"

\* Once the runtime is not active, at most one key event of the service is left
\* to reach the guest: the one that had passed enqueue_key_event's check.
OneLateKey ==
  ~active =>
    /\ \A i, j \in DOMAIN pending : pending[i].asked /\ pending[j].asked => i = j
    /\ ui.at = "push" /\ ui.event.asked => \A i \in DOMAIN pending : ~pending[i].asked

=============================================================================
