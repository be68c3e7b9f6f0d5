--------------------------- MODULE ExternalDisplay ---------------------------
(***************************************************************************)
(* Handing the surface of an external monitor from the Android UI thread   *)
(* (ExternalDisplay.java) to the event loop (run.rs, winit_backend.rs)     *)
(* through the bridge of external_display.rs, and taking it back.          *)
(*                                                                         *)
(* The UI thread publishes a surface, and when Android destroys it waits,  *)
(* for a second at most, until the event loop says it draws elsewhere.     *)
(* The event loop reads the bridge, attaches and says so in three steps    *)
(* (surface, attach_external, set_in_use) with the bridge unlocked in      *)
(* between, so the UI thread's steps interleave with them.                 *)
(***************************************************************************)
EXTENDS Integers, Sequences, FiniteSets

CONSTANTS
  MaxMonitors,   \* bound: monitors plugged in, one after the other
  MaxWindows,    \* bound: native windows Android creates for presentations
  MaxChanges,    \* bound: surfaceChanged calls per window
  MaxResumes,    \* bound: times the activity is resumed
  RenderMayFail, \* EGL or GL may refuse a surface or a frame
  WaitMayExpire  \* the UI thread's wait of one second may run out

ASSUME BoundsType ==
  {MaxMonitors, MaxWindows, MaxChanges, MaxResumes} \subseteq Nat
ASSUME FlagsType == RenderMayFail \in BOOLEAN /\ WaitMayExpire \in BOOLEAN

VARIABLES
  monitor,    \* the presentation display, 0 if none
  plugged,    \* how many were ever plugged in
  ui,         \* ExternalDisplay.java, see UiState
  messages,   \* the UI thread's message queue
  bridge,     \* external_display::Bridge
  changes,    \* ExternalDisplayChanged events sent and not handled
  loop,       \* the event loop, see LoopState
  fate,       \* history: how nativeSurfaceDestroyed returned for each window
  drewDead    \* history: windows drawn to after it had

vars == <<monitor, plugged, ui, messages, bridge, changes, loop, fate, drewDead>>

Windows == 1 .. MaxWindows

\* An Arc<ExternalSurface>: every surfaceChanged makes one, also for a window
\* that has one already.
Surfaces == [window : Windows, change : 1 .. MaxChanges]
None == [window |-> 0, change |-> 0]

UiState ==
  [ activity : BOOLEAN,               \* ExternalDisplay.activity # null
    presentation : 0 .. MaxMonitors,  \* the display it is on, 0 if null
    controls : BOOLEAN,
    window : 0 .. MaxWindows,         \* of the presentation's SurfaceView
    created : 0 .. MaxWindows,        \* windows created so far
    published : 0 .. MaxChanges,      \* surfaceChanged calls for this window
    waiting : BOOLEAN,                \* inside nativeSurfaceDestroyed
    then : {"nothing", "show", "forget"},  \* what follows dismiss()
    target : 0 .. MaxMonitors ]       \* the display update() found

BridgeState == [surface : Surfaces \cup {None}, in_use : BOOLEAN]

LoopState ==
  [ active : BOOLEAN,                 \* the activity is resumed
    resumes : 0 .. MaxResumes,
    renderer : BOOLEAN,               \* graphic_renderer.is_some()
    phone : BOOLEAN,                  \* egl_surface.is_some()
    external : Surfaces \cup {None},  \* what ExternalTarget holds
    pc : {"idle", "attach", "publish", "redraw"},
    read : Surfaces \cup {None},      \* `surface` in apply_external_display
    starting : BOOLEAN ]              \* its caller is resumed

NoRenderer(l) == [l EXCEPT !.renderer = FALSE, !.phone = FALSE, !.external = None]

Init ==
  /\ monitor = 0 /\ plugged = 0
  /\ ui = [activity |-> FALSE, presentation |-> 0, controls |-> FALSE, window |-> 0,
           created |-> 0, published |-> 0, waiting |-> FALSE, then |-> "nothing",
           target |-> 0]
  /\ messages = <<>>
  /\ bridge = [surface |-> None, in_use |-> FALSE]
  /\ changes = 0
  /\ loop = [active |-> FALSE, resumes |-> 0, renderer |-> FALSE, phone |-> FALSE,
             external |-> None, pc |-> "idle", read |-> None, starting |-> FALSE]
  /\ fate = [w \in Windows |-> "alive"]
  /\ drewDead = {}

-----------------------------------------------------------------------------
(* Android: a monitor comes and goes.  The display listener, while it is    *)
(* registered, has the UI thread call update().                             *)

Listened ==
  IF ui.activity /\ ui.then # "forget" THEN Append(messages, "update") ELSE messages

Plug ==
  /\ monitor = 0 /\ plugged < MaxMonitors
  /\ plugged' = plugged + 1
  /\ monitor' = plugged + 1
  /\ messages' = Listened
  /\ UNCHANGED <<ui, bridge, changes, loop, fate, drewDead>>

Unplug ==
  /\ monitor # 0
  /\ monitor' = 0
  /\ messages' = Listened
  /\ UNCHANGED <<plugged, ui, bridge, changes, loop, fate, drewDead>>

-----------------------------------------------------------------------------
(* The UI thread *)

UiIdle == ~ui.waiting /\ ui.then = "nothing"

\* nativeSurfaceChanged: the SurfaceView got its surface, or it has a new size.
SurfaceChanged ==
  /\ UiIdle /\ ui.presentation # 0 /\ ui.presentation = monitor
  /\ ui.window # 0 \/ ui.created < MaxWindows
  /\ ui.published < MaxChanges
  /\ LET window == IF ui.window = 0 THEN ui.created + 1 ELSE ui.window
     IN  /\ ui' = [ui EXCEPT !.window = window, !.published = @ + 1,
                             !.created = IF ui.window = 0 THEN @ + 1 ELSE @]
         /\ bridge' = [bridge EXCEPT !.surface =
                         [window |-> window, change |-> ui.published + 1]]
  /\ changes' = changes + 1
  /\ UNCHANGED <<monitor, plugged, messages, loop, fate, drewDead>>

\* The window is Android's again once nativeSurfaceDestroyed has returned.
Returned(u) == [u EXCEPT !.waiting = FALSE, !.window = 0, !.published = 0]

\* Slip: the surface goes without a word to the event loop.
DestroySurfaceQuietly(u) ==
  /\ bridge' = [bridge EXCEPT !.surface = None]
  /\ IF bridge.in_use
       THEN ui' = [u EXCEPT !.waiting = TRUE] /\ UNCHANGED fate
       ELSE ui' = Returned(u) /\ fate' = [fate EXCEPT ![u.window] = "unused"]
  /\ UNCHANGED changes

\* nativeSurfaceDestroyed up to its wait.  The lock is held from the first
\* assignment to the wait, so a surface not in use is given up in one step.
DestroySurface(u) ==
  /\ bridge' = [bridge EXCEPT !.surface = None]
  /\ changes' = changes + 1
  /\ IF bridge.in_use
       THEN ui' = [u EXCEPT !.waiting = TRUE] /\ UNCHANGED fate
       ELSE ui' = Returned(u) /\ fate' = [fate EXCEPT ![u.window] = "unused"]

SurfaceLost ==
  /\ UiIdle /\ ui.window # 0
  /\ DestroySurface(ui)
  /\ UNCHANGED <<monitor, plugged, messages, loop, drewDead>>

DestroyWakes ==
  /\ ui.waiting /\ ~bridge.in_use
  /\ ui' = Returned(ui)
  /\ fate' = [fate EXCEPT ![ui.window] = "released"]
  /\ UNCHANGED <<monitor, plugged, messages, bridge, changes, loop, drewDead>>

DestroyTimesOut ==
  /\ WaitMayExpire /\ ui.waiting /\ bridge.in_use
  /\ ui' = Returned(ui)
  /\ fate' = [fate EXCEPT ![ui.window] = "expired"]
  /\ UNCHANGED <<monitor, plugged, messages, bridge, changes, loop, drewDead>>

\* dismiss(): the controls and the presentation go, and before its dismiss()
\* returns the surface it has, if any, is destroyed.
Dismiss(u, then) ==
  LET gone == [u EXCEPT !.controls = FALSE, !.presentation = 0, !.then = then]
  IN  IF u.window # 0 THEN DestroySurface(gone)
                      ELSE ui' = gone /\ UNCHANGED <<bridge, changes, fate>>

\* Slip: a presentation is kept whatever display it is on.
UpdateKeeps(u, fromStart) ==
  IF ~u.activity \/ u.presentation # 0
    THEN /\ ui' = [u EXCEPT !.controls = @ \/ (fromStart /\ u.presentation # 0)]
         /\ UNCHANGED <<bridge, changes, fate>>
    ELSE Dismiss([u EXCEPT !.target = monitor], "show")

\* update() up to the end of dismiss().  start() puts the controls back up on
\* a presentation that stays.
Update(u, fromStart) ==
  IF ~u.activity \/ (u.presentation # 0 /\ u.presentation = monitor)
    THEN /\ ui' = [u EXCEPT !.controls = @ \/ (fromStart /\ u.presentation # 0)]
         /\ UNCHANGED <<bridge, changes, fate>>
    ELSE Dismiss([u EXCEPT !.target = monitor], "show")

\* The next message of the UI thread, each a Runnable of ExternalDisplay.java.
Deliver ==
  /\ UiIdle /\ messages # <<>>
  /\ messages' = Tail(messages)
  /\ CASE Head(messages) = "start"      -> Update([ui EXCEPT !.activity = TRUE], TRUE)
       [] Head(messages) = "update"     -> Update(ui, FALSE)
       [] Head(messages) = "stop"       -> Dismiss(ui, "forget")
       [] Head(messages) = "background" -> /\ ui' = [ui EXCEPT !.controls = FALSE]
                                           /\ UNCHANGED <<bridge, changes, fate>>
  /\ UNCHANGED <<monitor, plugged, loop, drewDead>>

\* What follows dismiss().  In update() a presentation is shown on the display
\* found before it, which may be gone (InvalidDisplayException); stop() forgets
\* the activity.
Dismissed ==
  /\ ~ui.waiting /\ ui.then # "nothing"
  /\ LET shown == ui.then = "show" /\ ui.target # 0 /\ ui.target = monitor
     IN  ui' = [ui EXCEPT !.then = "nothing", !.target = 0,
                          !.activity = ui.then = "show",
                          !.presentation = IF shown THEN ui.target ELSE 0,
                          !.controls = shown]
  /\ UNCHANGED <<monitor, plugged, messages, bridge, changes, loop, fate, drewDead>>

-----------------------------------------------------------------------------
(* The event loop *)

LoopIdle == loop.pc = "idle"

\* Slip: in_use is taken back as soon as the change is noticed.
ReadSurfaceReleases(l) ==
  /\ loop' = [l EXCEPT !.read = bridge.surface,
                       !.pc = IF bridge.surface = l.external THEN "redraw" ELSE "attach"]
  /\ bridge' = [bridge EXCEPT !.in_use = @ /\ bridge.surface = l.external]

\* Slip: comparing whether there is a surface, not which one.
ReadSurfaceByPresence(l) ==
  /\ loop' = [l EXCEPT !.read = bridge.surface,
                       !.pc = IF (bridge.surface = None) = (l.external = None)
                                THEN "redraw" ELSE "attach"]
  /\ UNCHANGED bridge

\* The start of apply_external_display: Arc::ptr_eq tells whether to go on.
ReadSurface(l) ==
  /\ loop' = [l EXCEPT !.read = bridge.surface,
                       !.pc = IF bridge.surface = l.external THEN "redraw" ELSE "attach"]
  /\ UNCHANGED bridge

\* user_event, AppUserEvent::ExternalDisplayChanged
ExternalDisplayChanged ==
  /\ LoopIdle /\ changes > 0
  /\ changes' = changes - 1
  /\ IF loop.renderer THEN ReadSurface(loop) ELSE UNCHANGED <<loop, bridge>>
  /\ UNCHANGED <<monitor, plugged, ui, messages, fate, drewDead>>

\* attach_external, which lets go of the old surface first, or detach_external.
AttachOrDetach ==
  /\ loop.pc = "attach"
  /\ \E attached \in BOOLEAN :
       /\ attached => loop.read # None
       /\ ~attached => loop.read = None \/ RenderMayFail
       /\ loop' = [loop EXCEPT !.external = IF attached THEN loop.read ELSE None,
                               !.pc = "publish"]
  /\ UNCHANGED <<monitor, plugged, ui, messages, bridge, changes, fate, drewDead>>

\* Slip: only a release is told.
PublishInUseRelease ==
  /\ loop.pc = "publish"
  /\ bridge' = [bridge EXCEPT !.in_use = @ /\ loop.external # None]
  /\ loop' = [loop EXCEPT !.pc = "redraw"]
  /\ UNCHANGED <<monitor, plugged, ui, messages, changes, fate, drewDead>>

\* Slip: only an attachment is told.
PublishInUseAttach ==
  /\ loop.pc = "publish"
  /\ bridge' = [bridge EXCEPT !.in_use = @ \/ loop.external # None]
  /\ loop' = [loop EXCEPT !.pc = "redraw"]
  /\ UNCHANGED <<monitor, plugged, ui, messages, changes, fate, drewDead>>

\* set_in_use(attached)
PublishInUse ==
  /\ loop.pc = "publish"
  /\ bridge' = [bridge EXCEPT !.in_use = loop.external # None]
  /\ loop' = [loop EXCEPT !.pc = "redraw"]
  /\ UNCHANGED <<monitor, plugged, ui, messages, changes, fate, drewDead>>

\* render_frame: with neither surface to draw to, or if EGL or GL refuses, the
\* renderer is dropped, and with it the surfaces.
RenderFrame(l) ==
  /\ \E ok \in BOOLEAN :
       /\ ok => l.external # None \/ l.phone
       /\ ~ok => RenderMayFail \/ (l.external = None /\ ~l.phone)
       /\ loop' = IF ok THEN l ELSE NoRenderer(l)
  /\ drewDead' = drewDead \cup { w \in {l.external.window} \cap Windows : fate[w] # "alive" }

\* handle(Redraw) after apply_external_display; resumed has the UI thread
\* start() in between.
RedrawAfterApply ==
  /\ loop.pc = "redraw"
  /\ messages' = IF loop.starting THEN Append(messages, "start") ELSE messages
  /\ RenderFrame([loop EXCEPT !.pc = "idle", !.starting = FALSE, !.read = None])
  /\ UNCHANGED <<monitor, plugged, ui, bridge, changes, fate>>

\* Any frame the loop draws for clients, input or a vsync.
DrawFrame ==
  /\ LoopIdle /\ loop.renderer
  /\ RenderFrame(loop)
  /\ UNCHANGED <<monitor, plugged, ui, messages, bridge, changes, fate>>

\* resumed: a new renderer, or the window again for the one kept.  resume_window
\* may fail and leaves the renderer without a window; bind may fail too.
Resumed ==
  /\ LoopIdle /\ ~loop.active /\ loop.resumes < MaxResumes
  /\ \E ok \in BOOLEAN :
       /\ ok \/ RenderMayFail
       /\ LET l == [loop EXCEPT !.active = TRUE, !.resumes = @ + 1]
          IN  IF ~loop.renderer /\ ~ok
                THEN loop' = l /\ UNCHANGED bridge
                ELSE ReadSurface([l EXCEPT !.renderer = TRUE, !.starting = TRUE,
                                           !.phone = @ \/ ok])
  /\ UNCHANGED <<monitor, plugged, ui, messages, changes, fate, drewDead>>

\* suspended: Android's UI thread waits for it, so it is not in here meanwhile.
Suspended ==
  /\ LoopIdle /\ loop.active /\ UiIdle
  /\ IF loop.external # None
       THEN /\ loop' = [loop EXCEPT !.active = FALSE, !.phone = FALSE]
            /\ messages' = Append(messages, "background")
            /\ UNCHANGED bridge
       ELSE /\ loop' = [NoRenderer(loop) EXCEPT !.active = FALSE]
            /\ messages' = Append(messages, "stop")
            /\ bridge' = [bridge EXCEPT !.in_use = FALSE]
  /\ UNCHANGED <<monitor, plugged, ui, changes, fate, drewDead>>

-----------------------------------------------------------------------------
UiStep == Deliver \/ Dismissed \/ DestroyWakes
LoopStep == ExternalDisplayChanged \/ AttachOrDetach \/ PublishInUse \/ RedrawAfterApply

Next ==
  \/ Plug \/ Unplug
  \/ SurfaceChanged \/ SurfaceLost \/ DestroyTimesOut
  \/ UiStep
  \/ LoopStep \/ DrawFrame \/ Resumed \/ Suspended

Spec == Init /\ [][Next]_vars

\* Both threads keep running, but a change wakes the event loop only while the
\* activity is resumed: winit ignores its own wake-ups otherwise.  Nothing is
\* asked of Android: monitors, surfaces and the activity come and go as they
\* please, and the second may never pass.
LoopRuns ==
  (loop.active /\ ExternalDisplayChanged) \/ AttachOrDetach \/ PublishInUse \/ RedrawAfterApply

FairSpec == Spec /\ WF_vars(UiStep) /\ WF_vars(LoopRuns)

-----------------------------------------------------------------------------
(* Properties *)

TypeOK ==
  /\ monitor \in 0 .. MaxMonitors
  /\ plugged \in 0 .. MaxMonitors
  /\ ui \in UiState
  /\ messages \in Seq({"start", "background", "stop", "update"})
  /\ bridge \in BridgeState
  /\ changes \in Nat
  /\ loop \in LoopState
  /\ fate \in [Windows -> {"alive", "unused", "released", "expired"}]
  /\ drewDead \subseteq Windows

\* A surface Android got back because the event loop said it had let go is not
\* its EGL surface any more and is never drawn to again, however the UI
\* thread's calls fall between the three steps of apply_external_display.
ReleasedForGood ==
  \A w \in Windows : fate[w] = "released" => w \notin drewDead /\ loop.external.window # w

\* Between two handlers the event loop never holds the monitor's surface
\* without the bridge saying so: nativeSurfaceDestroyed then waits for it.
HeldIsInUse == LoopIdle /\ loop.external # None => bridge.in_use

\* With no ExternalDisplayChanged under way, the loop draws to the surface the
\* bridge holds: no change is lost between its read of the bridge and its
\* announcement, nor while it has no renderer.  Only a surface EGL refused is
\* passed over, and then for good.
TargetFollowsBridge ==
  LoopIdle /\ changes = 0 /\ loop.renderer =>
    \/ loop.external = bridge.surface
    \/ RenderMayFail /\ loop.external = None

\* Once the UI thread has handled what it was sent, the presentation is on the
\* monitor that is plugged in, even if that was swapped while update() ran.
PresentationFollowsMonitor ==
  UiIdle /\ messages = <<>> /\ ui.activity => ui.presentation = monitor

\* With the app in front and both threads caught up, the trackpad's controls are
\* on the phone exactly while the desktop is on a monitor, whether the monitor
\* or the app was there first and through every trip to the background.
ControlsFollowPresentation ==
  UiIdle /\ messages = <<>> /\ LoopIdle /\ loop.active /\ loop.renderer /\ ui.activity =>
    (ui.controls <=> ui.presentation # 0)

\* While the app is stopped and the UI thread has caught up, no presentation
\* is left behind on the monitor by an activity that is forgotten.
NothingLeftBehind ==
  UiIdle /\ ~ui.activity => ui.presentation = 0 /\ ui.window = 0 /\ bridge.surface = None

\* Monitor, presentation, controls and surface are in step whenever the threads
\* have caught up with what Android did.
PresentationInStep ==
  PresentationFollowsMonitor /\ ControlsFollowPresentation /\ NothingLeftBehind

\* With the app in front, the UI thread's wait for a surface is ended by the
\* event loop, not only by the clock: it always gets to hear that the surface
\* was let go, or the app leaves the front first.
WaitEnds == ui.waiting ~> ~ui.waiting \/ ~loop.active

\* A surface put in the bridge is drawn to, unless it is replaced or taken back,
\* the renderer is gone or the app leaves the front.
SurfaceServed ==
  \A s \in Surfaces :
    bridge.surface = s ~>
      loop.external = s \/ bridge.surface # s \/ ~loop.renderer \/ ~loop.active

\* external_display.rs:255: "The surface must not be drawn to once this
\* returns."
NoDrawAfterDestroy == drewDead = {}

=============================================================================
