------------------------ MODULE ExternalDisplayProofs ------------------------
(***************************************************************************)
(* Theorems about ExternalDisplay, for any number of monitors, windows,    *)
(* surfaces and resumes, whatever EGL refuses and however long the event   *)
(* loop lets the UI thread wait: a surface that was released is never      *)
(* drawn to, a surface the loop holds is marked in use, and the loop never *)
(* misses a change of surface.                                             *)
(***************************************************************************)
EXTENDS ExternalDisplay, TLAPS

LEMMA Bounds ==
  /\ MaxMonitors \in Nat /\ MaxWindows \in Nat /\ MaxChanges \in Nat /\ MaxResumes \in Nat
  /\ 0 \in 0 .. MaxMonitors /\ 0 \in 0 .. MaxWindows /\ 0 \in 0 .. MaxChanges
<1>1. /\ MaxMonitors \in Nat /\ MaxWindows \in Nat /\ MaxChanges \in Nat
      /\ MaxResumes \in Nat
  BY BoundsType
<1>2. QED
  BY <1>1

-----------------------------------------------------------------------------
(* What the UI thread's steps do to the surface *)

\* The UI thread has no surface to give up, or keeps the one it has.
KeepsSurface ==
  /\ UNCHANGED <<bridge, changes, fate>>
  /\ ui'.window = ui.window /\ ui'.created = ui.created /\ ui'.waiting = ui.waiting

\* ... or it gives it up, whatever else it was about.
GivesSurfaceUp ==
  /\ ui.window # 0
  /\ \E u \in UiState : /\ u.window = ui.window /\ u.created = ui.created
                        /\ DestroySurface(u)

LEMMA DestroySurfaceType ==
  ASSUME TypeOK, NEW u \in UiState, DestroySurface(u), u.window # 0
  PROVE  ui' \in UiState /\ bridge' \in BridgeState /\ changes' \in Nat
         /\ fate' \in [Windows -> {"alive", "unused", "released", "expired"}]
<1>1. bridge' \in BridgeState /\ changes' \in Nat
  BY DEF TypeOK, DestroySurface, BridgeState
<1>2. /\ [u EXCEPT !.waiting = TRUE] \in UiState
      /\ Returned(u) \in UiState
  BY Bounds DEF UiState, Returned
<1>3. fate' \in [Windows -> {"alive", "unused", "released", "expired"}]
  BY DEF TypeOK, DestroySurface
<1>4. QED
  BY <1>1, <1>2, <1>3 DEF DestroySurface

LEMMA DismissEffect ==
  ASSUME TypeOK, NEW u \in UiState, NEW then \in {"show", "forget"},
         u.window = ui.window, u.created = ui.created, u.waiting = ui.waiting,
         Dismiss(u, then)
  PROVE  ui' \in UiState /\ (KeepsSurface \/ GivesSurfaceUp)
<1> DEFINE gone == [u EXCEPT !.controls = FALSE, !.presentation = 0, !.then = then]
<1>1. /\ gone \in UiState
      /\ gone.window = ui.window /\ gone.created = ui.created /\ gone.waiting = ui.waiting
  BY Bounds DEF UiState
<1>2. Dismiss(u, then) = IF u.window # 0 THEN DestroySurface(gone)
                         ELSE ui' = gone /\ UNCHANGED <<bridge, changes, fate>>
  BY DEF Dismiss
<1> HIDE DEF gone
<1>3. CASE u.window # 0
  BY <1>1, <1>2, <1>3, DestroySurfaceType DEF GivesSurfaceUp
<1>4. CASE u.window = 0
  BY <1>1, <1>2, <1>4 DEF KeepsSurface
<1>5. QED
  BY <1>3, <1>4

LEMMA UpdateEffect ==
  ASSUME TypeOK, NEW u \in UiState, NEW fromStart \in BOOLEAN,
         u.window = ui.window, u.created = ui.created, u.waiting = ui.waiting,
         Update(u, fromStart)
  PROVE  ui' \in UiState /\ (KeepsSurface \/ GivesSurfaceUp)
<1> DEFINE found == [u EXCEPT !.target = monitor]
           kept  == [u EXCEPT !.controls = @ \/ (fromStart /\ u.presentation # 0)]
<1>1. /\ found \in UiState
      /\ found.window = ui.window /\ found.created = ui.created
      /\ found.waiting = ui.waiting
  BY DEF UiState, TypeOK
<1>2. /\ kept \in UiState
      /\ kept.window = ui.window /\ kept.created = ui.created
      /\ kept.waiting = ui.waiting
  BY DEF UiState
<1>3. \/ ui' = kept /\ UNCHANGED <<bridge, changes, fate>>
      \/ Dismiss(found, "show")
  BY DEF Update
<1> HIDE DEF found, kept
<1>4. QED
  BY <1>1, <1>2, <1>3, DismissEffect DEF KeepsSurface

LEMMA DeliverEffect ==
  ASSUME TypeOK, Deliver
  PROVE  ui' \in UiState /\ (KeepsSurface \/ GivesSurfaceUp)
<1>1. Head(messages) \in {"start", "background", "stop", "update"}
  BY DEF TypeOK, Deliver
<1>2. CASE Head(messages) = "start"
  <2> DEFINE started == [ui EXCEPT !.activity = TRUE]
  <2>1. /\ started \in UiState
        /\ started.window = ui.window /\ started.created = ui.created
        /\ started.waiting = ui.waiting
    BY DEF TypeOK, UiState
  <2>2. Update(started, TRUE)
    BY <1>2 DEF Deliver
  <2> HIDE DEF started
  <2>3. QED
    BY <2>1, <2>2, UpdateEffect
<1>3. CASE Head(messages) = "update"
  <2>1. Update(ui, FALSE)
    BY <1>3 DEF Deliver
  <2>2. QED
    BY <2>1, UpdateEffect DEF TypeOK
<1>4. CASE Head(messages) = "stop"
  <2>1. Dismiss(ui, "forget")
    BY <1>4 DEF Deliver
  <2>2. QED
    BY <2>1, DismissEffect DEF TypeOK
<1>5. CASE Head(messages) = "background"
  <2>1. ui' = [ui EXCEPT !.controls = FALSE] /\ UNCHANGED <<bridge, changes, fate>>
    BY <1>5 DEF Deliver
  <2>2. QED
    BY <2>1 DEF TypeOK, UiState, KeepsSurface
<1>6. QED
  BY <1>1, <1>2, <1>3, <1>4, <1>5

-----------------------------------------------------------------------------
(* Types *)

LEMMA NoneType == None \in Surfaces \cup {None}
OBVIOUS

LEMMA ReadSurfaceType ==
  ASSUME NEW l \in LoopState, ReadSurface(l), bridge \in BridgeState
  PROVE  loop' \in LoopState /\ bridge' = bridge
BY DEF ReadSurface, LoopState, BridgeState

LEMMA NoRendererType ==
  ASSUME NEW l \in LoopState PROVE NoRenderer(l) \in LoopState
BY NoneType DEF NoRenderer, LoopState

LEMMA RenderFrameType ==
  ASSUME TypeOK, NEW l \in LoopState, RenderFrame(l)
  PROVE  loop' \in LoopState /\ drewDead' \subseteq Windows
<1>1. loop' \in {l, NoRenderer(l)}
  BY DEF RenderFrame
<1>2. drewDead' \subseteq Windows
  BY DEF RenderFrame, TypeOK
<1>3. QED
  BY <1>1, <1>2, NoRendererType

LEMMA InitType == Init => TypeOK
<1> SUFFICES ASSUME Init PROVE TypeOK
  OBVIOUS
<1>1. ui \in UiState
  BY Bounds DEF Init, UiState
<1>2. bridge \in BridgeState
  BY NoneType DEF Init, BridgeState
<1>3. loop \in LoopState
  <2>1. 0 \in 0 .. MaxResumes
    BY Bounds
  <2>2. QED
    BY <2>1, NoneType DEF Init, LoopState
<1>4. monitor \in 0 .. MaxMonitors /\ plugged \in 0 .. MaxMonitors
  BY Bounds DEF Init
<1>5. messages \in Seq({"start", "background", "stop", "update"}) /\ changes \in Nat
  BY DEF Init
<1>6. QED
  BY <1>1, <1>2, <1>3, <1>4, <1>5 DEF Init, TypeOK

LEMMA ListenedType ==
  ASSUME TypeOK PROVE Listened \in Seq({"start", "background", "stop", "update"})
BY DEF Listened, TypeOK

\* The UI thread's steps and Android's keep every type.
LEMMA UiTypeStep ==
  ASSUME TypeOK,
         Plug \/ Unplug \/ SurfaceChanged \/ SurfaceLost \/ DestroyTimesOut \/ UiStep
  PROVE  TypeOK'
<1>1. CASE Plug
  <2>1. monitor' \in 0 .. MaxMonitors /\ plugged' \in 0 .. MaxMonitors
    BY <1>1, Bounds DEF Plug, TypeOK
  <2>2. QED
    BY <1>1, <2>1, ListenedType DEF Plug, TypeOK
<1>2. CASE Unplug
  BY <1>2, Bounds, ListenedType DEF Unplug, TypeOK
<1>3. CASE SurfaceChanged
  <2> DEFINE window == IF ui.window = 0 THEN ui.created + 1 ELSE ui.window
  <2>1. /\ window \in Windows
        /\ ui.published + 1 \in 1 .. MaxChanges
        /\ ui.window = 0 => ui.created + 1 \in 0 .. MaxWindows
    BY <1>3, Bounds DEF SurfaceChanged, TypeOK, UiState, Windows
  <2>2. /\ Windows \subseteq 0 .. MaxWindows
        /\ 1 .. MaxChanges \subseteq 0 .. MaxChanges
    BY Bounds DEF Windows
  <2>3. /\ ui' = [ui EXCEPT !.window = window, !.published = @ + 1,
                            !.created = IF ui.window = 0 THEN @ + 1 ELSE @]
        /\ bridge' = [bridge EXCEPT !.surface =
                        [window |-> window, change |-> ui.published + 1]]
    BY <1>3 DEF SurfaceChanged
  <2> HIDE DEF window
  <2>4. ui' \in UiState
    BY <2>1, <2>2, <2>3 DEF TypeOK, UiState
  <2>5. bridge' \in BridgeState
    BY <2>1, <2>3 DEF TypeOK, BridgeState, Surfaces
  <2>6. changes' \in Nat
    BY <1>3 DEF SurfaceChanged, TypeOK
  <2>7. QED
    BY <1>3, <2>4, <2>5, <2>6 DEF SurfaceChanged, TypeOK
<1>4. CASE SurfaceLost
  <2>1. /\ ui' \in UiState /\ bridge' \in BridgeState /\ changes' \in Nat
        /\ fate' \in [Windows -> {"alive", "unused", "released", "expired"}]
    BY <1>4, DestroySurfaceType DEF SurfaceLost, TypeOK
  <2>2. QED
    BY <1>4, <2>1 DEF SurfaceLost, TypeOK
<1>5. CASE DestroyTimesOut \/ DestroyWakes
  <2>1. ui' \in UiState
    BY <1>5, Bounds DEF DestroyTimesOut, DestroyWakes, Returned, TypeOK, UiState
  <2>2. fate' \in [Windows -> {"alive", "unused", "released", "expired"}]
    BY <1>5 DEF DestroyTimesOut, DestroyWakes, TypeOK
  <2>3. QED
    BY <1>5, <2>1, <2>2 DEF DestroyTimesOut, DestroyWakes, TypeOK
<1>6. CASE Deliver
  <2>1. messages' \in Seq({"start", "background", "stop", "update"})
    BY <1>6 DEF Deliver, TypeOK
  <2>2. /\ ui' \in UiState /\ bridge' \in BridgeState /\ changes' \in Nat
        /\ fate' \in [Windows -> {"alive", "unused", "released", "expired"}]
    <3>1. CASE KeepsSurface
      BY <1>6, <3>1, DeliverEffect DEF KeepsSurface, TypeOK
    <3>2. CASE GivesSurfaceUp
      <4>1. PICK u \in UiState : u.window # 0 /\ DestroySurface(u)
        BY <3>2 DEF GivesSurfaceUp
      <4>2. QED
        BY <4>1, DestroySurfaceType
    <3>3. QED
      BY <1>6, <3>1, <3>2, DeliverEffect
  <2>3. QED
    BY <1>6, <2>1, <2>2 DEF Deliver, TypeOK
<1>7. CASE Dismissed
  <2>1. ui' \in UiState
    BY <1>7, Bounds DEF Dismissed, TypeOK, UiState
  <2>2. QED
    BY <1>7, <2>1 DEF Dismissed, TypeOK
<1>8. QED
  BY <1>1, <1>2, <1>3, <1>4, <1>5, <1>6, <1>7 DEF UiStep

\* ... and so do the event loop's.
LEMMA LoopTypeStep ==
  ASSUME TypeOK, LoopStep \/ DrawFrame \/ Resumed \/ Suspended
  PROVE  TypeOK'
<1>1. CASE ExternalDisplayChanged
  <2>1. changes' \in Nat
    BY <1>1 DEF ExternalDisplayChanged, TypeOK
  <2>2. loop' \in LoopState /\ bridge' = bridge
    BY <1>1, ReadSurfaceType DEF ExternalDisplayChanged, TypeOK
  <2>3. QED
    BY <1>1, <2>1, <2>2 DEF ExternalDisplayChanged, TypeOK
<1>2. CASE AttachOrDetach
  <2>1. loop' \in LoopState
    BY <1>2, NoneType DEF AttachOrDetach, TypeOK, LoopState
  <2>2. QED
    BY <1>2, <2>1 DEF AttachOrDetach, TypeOK
<1>3. CASE PublishInUse
  <2>1. loop' \in LoopState /\ bridge' \in BridgeState
    BY <1>3 DEF PublishInUse, TypeOK, LoopState, BridgeState
  <2>2. QED
    BY <1>3, <2>1 DEF PublishInUse, TypeOK
<1>4. CASE RedrawAfterApply
  <2>1. [loop EXCEPT !.pc = "idle", !.starting = FALSE, !.read = None] \in LoopState
    BY NoneType DEF TypeOK, LoopState
  <2>2. loop' \in LoopState /\ drewDead' \subseteq Windows
    BY <1>4, <2>1, RenderFrameType DEF RedrawAfterApply
  <2>3. messages' \in Seq({"start", "background", "stop", "update"})
    BY <1>4 DEF RedrawAfterApply, TypeOK
  <2>4. QED
    BY <1>4, <2>2, <2>3 DEF RedrawAfterApply, TypeOK
<1>5. CASE DrawFrame
  <2>1. loop' \in LoopState /\ drewDead' \subseteq Windows
    BY <1>5, RenderFrameType DEF DrawFrame, TypeOK
  <2>2. QED
    BY <1>5, <2>1 DEF DrawFrame, TypeOK
<1>6. CASE Resumed
  <2>1. PICK ok \in BOOLEAN :
          LET l == [loop EXCEPT !.active = TRUE, !.resumes = @ + 1]
          IN  IF ~loop.renderer /\ ~ok
                THEN loop' = l /\ UNCHANGED bridge
                ELSE ReadSurface([l EXCEPT !.renderer = TRUE, !.starting = TRUE,
                                           !.phone = @ \/ ok])
    BY <1>6 DEF Resumed
  <2> DEFINE l == [loop EXCEPT !.active = TRUE, !.resumes = @ + 1]
             m == [l EXCEPT !.renderer = TRUE, !.starting = TRUE, !.phone = @ \/ ok]
  <2>2. loop.resumes + 1 \in 0 .. MaxResumes
    <3>1. loop.resumes < MaxResumes
      BY <1>6 DEF Resumed
    <3>2. loop.resumes \in 0 .. MaxResumes
      BY DEF TypeOK, LoopState
    <3>3. QED
      BY <3>1, <3>2, Bounds
  <2>3. l \in LoopState
    BY <2>2 DEF TypeOK, LoopState
  <2>4. m \in LoopState
    <3> HIDE DEF l
    <3>1. QED
      BY <2>3 DEF LoopState
  <2>5. (loop' = l /\ bridge' = bridge) \/ ReadSurface(m)
    BY <2>1
  <2> HIDE DEF l, m
  <2>6. loop' \in LoopState /\ bridge' = bridge
    BY <2>3, <2>4, <2>5, ReadSurfaceType DEF TypeOK
  <2>7. QED
    BY <1>6, <2>6 DEF Resumed, TypeOK
<1>7. CASE Suspended
  <2>1. loop' \in LoopState
    <3>1. NoRenderer(loop) \in LoopState
      BY NoRendererType DEF TypeOK
    <3>2. [loop EXCEPT !.active = FALSE, !.phone = FALSE] \in LoopState
      BY DEF TypeOK, LoopState
    <3>3. [NoRenderer(loop) EXCEPT !.active = FALSE] \in LoopState
      BY <3>1 DEF LoopState
    <3>4. QED
      BY <1>7, <3>2, <3>3 DEF Suspended
  <2>2. messages' \in Seq({"start", "background", "stop", "update"})
    <3>1. messages' \in {Append(messages, "background"), Append(messages, "stop")}
      BY <1>7 DEF Suspended
    <3>2. messages \in Seq({"start", "background", "stop", "update"})
      BY DEF TypeOK
    <3>3. QED
      BY <3>1, <3>2
  <2>3. bridge' \in BridgeState
    BY <1>7 DEF Suspended, TypeOK, BridgeState
  <2>4. QED
    BY <1>7, <2>1, <2>2, <2>3 DEF Suspended, TypeOK
<1>8. QED
  BY <1>1, <1>2, <1>3, <1>4, <1>5, <1>6, <1>7 DEF LoopStep

\* Every variable keeps its type.
THEOREM TypeCorrect == Spec => []TypeOK
<1>1. TypeOK /\ [Next]_vars => TypeOK'
  <2>1. CASE UNCHANGED vars
    BY <2>1 DEF vars, TypeOK
  <2>2. QED
    BY <2>1, UiTypeStep, LoopTypeStep DEF Next
<1>2. QED
  BY <1>1, InitType, PTL DEF Spec



-----------------------------------------------------------------------------
(* The event loop's own side of the handover *)

\* HeldIsInUse also while apply_external_display is at work, except between
\* its attaching and its telling so.
HeldInv == loop.pc # "publish" /\ loop.external # None => bridge.in_use

\* TargetFollowsBridge in the middle of apply_external_display: with no change
\* under way what it read still is what the bridge holds.
Follows == loop.external = bridge.surface \/ (RenderMayFail /\ loop.external = None)

FollowInv ==
  changes = 0 =>
    /\ loop.pc = "attach" => loop.read = bridge.surface
    /\ loop.pc \in {"publish", "redraw"} => Follows
    /\ loop.pc = "idle" /\ loop.renderer => Follows

\* What Android gets back because the loop let go: while the UI thread waits,
\* the bridge is empty, so once in_use is taken back the loop holds nothing and
\* is about to attach nothing; the window then given back is none the loop
\* can come by again.
ReleaseInv ==
  /\ ui.waiting => bridge.surface = None /\ ui.window # 0
  /\ ui.waiting /\ ~bridge.in_use =>
       loop.external = None /\ (loop.pc = "attach" => loop.read = None)
  /\ ui.window <= ui.created
  /\ ui.window # 0 => fate[ui.window] = "alive"
  /\ \A w \in Windows : w > ui.created => fate[w] = "alive"
  /\ \A w \in drewDead : fate[w] # "alive"
  /\ \A w \in Windows : fate[w] = "released" =>
       /\ w \notin drewDead
       /\ loop.external.window # w /\ bridge.surface.window # w
       /\ loop.pc = "attach" => loop.read.window # w

\* A window given up: the bridge is empty, the event loop will hear of it, and
\* the UI thread waits exactly if the loop holds the window.
LEMMA GiveUpEffect ==
  ASSUME TypeOK, GivesSurfaceUp
  PROVE  /\ bridge'.surface = None /\ bridge'.in_use = bridge.in_use
         /\ changes' # 0
         /\ ui.window \in Windows
         /\ ui'.created = ui.created
         /\ \/ /\ bridge.in_use /\ ui'.waiting
               /\ ui'.window = ui.window /\ fate' = fate
            \/ /\ ~bridge.in_use /\ ~ui'.waiting
               /\ ui'.window = 0 /\ fate' = [fate EXCEPT ![ui.window] = "unused"]
<1>1. PICK u \in UiState : /\ u.window = ui.window /\ u.created = ui.created
                           /\ DestroySurface(u)
  BY DEF GivesSurfaceUp
<1>2. ui.window \in Windows
  BY Bounds DEF GivesSurfaceUp, TypeOK, UiState, Windows
<1>3. bridge'.surface = None /\ bridge'.in_use = bridge.in_use
  BY <1>1 DEF DestroySurface, TypeOK, BridgeState
<1>4. changes' # 0
  BY <1>1 DEF DestroySurface, TypeOK
<1>5. CASE bridge.in_use
  <2>1. ui' = [u EXCEPT !.waiting = TRUE] /\ fate' = fate
    BY <1>1, <1>5 DEF DestroySurface
  <2>2. ui'.waiting /\ ui'.window = u.window /\ ui'.created = u.created
    BY <2>1 DEF UiState
  <2>3. QED
    BY <1>1, <1>2, <1>3, <1>4, <1>5, <2>1, <2>2
<1>6. CASE ~bridge.in_use
  <2>1. ui' = Returned(u) /\ fate' = [fate EXCEPT ![u.window] = "unused"]
    BY <1>1, <1>6 DEF DestroySurface
  <2>2. ~ui'.waiting /\ ui'.window = 0 /\ ui'.created = u.created
    BY <2>1 DEF UiState, Returned
  <2>3. QED
    BY <1>1, <1>2, <1>3, <1>4, <1>6, <2>1, <2>2
<1>7. QED
  BY <1>5, <1>6

\* A delivered message keeps the surface or gives it up; so does the callback.
LEMMA UiEffect ==
  ASSUME TypeOK, Deliver \/ SurfaceLost
  PROVE  /\ KeepsSurface \/ GivesSurfaceUp
         /\ ~ui.waiting
         /\ UNCHANGED <<loop, drewDead>>
<1>1. CASE Deliver
  BY <1>1, DeliverEffect DEF Deliver, UiIdle
<1>2. CASE SurfaceLost
  BY <1>2 DEF SurfaceLost, UiIdle, GivesSurfaceUp, TypeOK
<1>3. QED
  BY <1>1, <1>2

LEMMA SurfaceChangedEffect ==
  ASSUME TypeOK, SurfaceChanged
  PROVE  /\ ~ui.waiting /\ ~ui'.waiting
         /\ bridge'.in_use = bridge.in_use
         /\ changes' # 0
         /\ bridge'.surface.window = ui'.window
         /\ UNCHANGED <<loop, fate, drewDead>>
         /\ \/ /\ ui.window = 0 /\ ui'.window = ui.created + 1
               /\ ui'.window \in Windows /\ ui'.created = ui.created + 1
            \/ /\ ui.window # 0
               /\ ui'.window = ui.window /\ ui'.created = ui.created
<1> DEFINE window == IF ui.window = 0 THEN ui.created + 1 ELSE ui.window
<1>1. /\ ui' = [ui EXCEPT !.window = window, !.published = @ + 1,
                          !.created = IF ui.window = 0 THEN @ + 1 ELSE @]
      /\ bridge' = [bridge EXCEPT !.surface =
                      [window |-> window, change |-> ui.published + 1]]
      /\ ~ui.waiting
      /\ changes' = changes + 1
      /\ UNCHANGED <<loop, fate, drewDead>>
  BY DEF SurfaceChanged, UiIdle
<1>2. /\ bridge'.surface.window = window /\ bridge'.in_use = bridge.in_use
  BY <1>1 DEF TypeOK, BridgeState
<1>3. /\ ui'.window = window /\ ui'.waiting = ui.waiting
      /\ ui'.created = IF ui.window = 0 THEN ui.created + 1 ELSE ui.created
  BY <1>1 DEF TypeOK, UiState
<1>4. changes' # 0
  BY <1>1 DEF TypeOK
<1>5. ui.window = 0 => ui.created + 1 \in Windows
  BY Bounds DEF SurfaceChanged, TypeOK, UiState, Windows
<1>6. QED
  BY <1>1, <1>2, <1>3, <1>4, <1>5

LEMMA ReturnEffect ==
  ASSUME TypeOK, ReleaseInv, DestroyWakes \/ DestroyTimesOut
  PROVE  /\ ui.waiting /\ ~ui'.waiting
         /\ ui.window \in Windows
         /\ ui'.window = 0 /\ ui'.created = ui.created
         /\ \/ ~bridge.in_use /\ fate' = [fate EXCEPT ![ui.window] = "released"]
            \/ fate' = [fate EXCEPT ![ui.window] = "expired"]
         /\ UNCHANGED <<bridge, changes, loop, drewDead>>
<1>1. ui' = Returned(ui)
  BY DEF DestroyWakes, DestroyTimesOut
<1>2. ~ui'.waiting /\ ui'.window = 0 /\ ui'.created = ui.created
  BY <1>1 DEF Returned, TypeOK, UiState
<1>3. ui.waiting /\ ui.window \in Windows
  BY Bounds DEF DestroyWakes, DestroyTimesOut, ReleaseInv, TypeOK, UiState, Windows
<1>4. QED
  BY <1>2, <1>3 DEF DestroyWakes, DestroyTimesOut

LEMMA DismissedEffect ==
  ASSUME TypeOK, Dismissed
  PROVE  /\ ui'.window = ui.window /\ ui'.created = ui.created
         /\ ui'.waiting = ui.waiting
         /\ UNCHANGED <<bridge, changes, loop, fate, drewDead>>
BY DEF Dismissed, TypeOK, UiState

HandoverInv == HeldInv /\ FollowInv /\ ReleaseInv

\* Android and the UI thread.
LEMMA UiKeeps ==
  ASSUME TypeOK, HandoverInv,
         Plug \/ Unplug \/ SurfaceChanged \/ SurfaceLost \/ DestroyTimesOut \/ UiStep
  PROVE  HandoverInv'
<1>w. \A w \in Windows : w \in Nat /\ w # 0
  BY Bounds DEF Windows
<1>n. None.window = 0
  BY DEF None
<1>c. ui.created \in Nat /\ ui.window \in Nat
  BY Bounds DEF TypeOK, UiState
<1>f. fate \in [Windows -> {"alive", "unused", "released", "expired"}]
  BY DEF TypeOK
<1>d. drewDead \subseteq Windows
  BY DEF TypeOK
<1>1. CASE Plug \/ Unplug
  BY <1>1 DEF Plug, Unplug, HandoverInv, HeldInv, FollowInv, Follows, ReleaseInv
<1>2. CASE SurfaceChanged
  <2>1. HeldInv' /\ FollowInv'
    BY <1>2, SurfaceChangedEffect DEF HandoverInv, HeldInv, FollowInv
  <2>2. ReleaseInv'
    <3>1. /\ ~ui'.waiting
          /\ \A w \in Windows : w > ui'.created => fate'[w] = "alive"
          /\ \A w \in drewDead' : fate'[w] # "alive"
      BY <1>2, <1>c, <1>w, SurfaceChangedEffect DEF HandoverInv, ReleaseInv
    <3>2. ui'.window <= ui'.created /\ fate'[ui'.window] = "alive"
      BY <1>2, <1>c, <1>w, SurfaceChangedEffect DEF HandoverInv, ReleaseInv
    <3>3. ASSUME NEW w \in Windows, fate'[w] = "released"
          PROVE  /\ w \notin drewDead'
                 /\ loop'.external.window # w /\ bridge'.surface.window # w
                 /\ loop'.pc = "attach" => loop'.read.window # w
      BY <1>2, <3>2, <3>3, SurfaceChangedEffect DEF HandoverInv, ReleaseInv
    <3>4. QED
      BY <3>1, <3>2, <3>3 DEF ReleaseInv
  <2>3. QED
    BY <2>1, <2>2 DEF HandoverInv
<1>3. CASE Deliver \/ SurfaceLost
  <2>1. CASE KeepsSurface
    BY <1>3, <2>1, UiEffect
       DEF KeepsSurface, HandoverInv, HeldInv, FollowInv, Follows, ReleaseInv
  <2>2. CASE GivesSurfaceUp
    <3>1. HeldInv' /\ FollowInv'
      BY <1>3, <2>2, UiEffect, GiveUpEffect DEF HandoverInv, HeldInv, FollowInv
    <3>2. ReleaseInv'
      <4>1. CASE bridge.in_use
        <5>1. /\ ui'.waiting /\ ui'.window = ui.window /\ ui'.created = ui.created
              /\ fate' = fate /\ bridge'.surface = None /\ bridge'.in_use
              /\ loop' = loop /\ drewDead' = drewDead /\ ui.window # 0
          BY <1>3, <2>2, <4>1, <1>w, UiEffect, GiveUpEffect
        <5>2. QED
          BY <5>1, <1>n, <1>w DEF HandoverInv, ReleaseInv
      <4>2. CASE ~bridge.in_use
        <5>1. /\ ~ui'.waiting /\ ui'.window = 0 /\ ui'.created = ui.created
              /\ fate' = [fate EXCEPT ![ui.window] = "unused"]
              /\ ui.window \in Windows /\ bridge'.surface = None
              /\ loop' = loop /\ drewDead' = drewDead
          BY <1>3, <2>2, <4>2, UiEffect, GiveUpEffect
        <5>2. \A w \in Windows : fate'[w] = IF w = ui.window THEN "unused" ELSE fate[w]
          BY <5>1, <1>f
        <5>3. QED
          BY <5>1, <5>2, <1>n, <1>w, <1>c, <1>d DEF HandoverInv, ReleaseInv
      <4>3. QED
        BY <4>1, <4>2
    <3>3. QED
      BY <3>1, <3>2 DEF HandoverInv
  <2>3. QED
    BY <1>3, <2>1, <2>2, UiEffect
<1>4. CASE DestroyWakes \/ DestroyTimesOut
  <2>1. ReleaseInv
    BY DEF HandoverInv
  <2>2. /\ ui.waiting /\ ~ui'.waiting /\ ui.window \in Windows
        /\ ui'.window = 0 /\ ui'.created = ui.created
        /\ UNCHANGED <<bridge, changes, loop, drewDead>>
    BY <1>4, <2>1, ReturnEffect
  <2>3. HeldInv' /\ FollowInv'
    BY <2>2 DEF HandoverInv, HeldInv, FollowInv, Follows
  <2>4. \/ /\ ~bridge.in_use
           /\ \A w \in Windows : fate'[w] = IF w = ui.window THEN "released" ELSE fate[w]
        \/ \A w \in Windows : fate'[w] = IF w = ui.window THEN "expired" ELSE fate[w]
    BY <1>4, <2>1, <2>2, <1>f, ReturnEffect
  <2>5. ReleaseInv'
    <3>1. /\ \A w \in Windows : w > ui'.created => fate'[w] = "alive"
          /\ \A w \in drewDead' : fate'[w] # "alive"
      BY <2>1, <2>2, <2>4, <1>c, <1>w, <1>d DEF ReleaseInv
    <3>2. ASSUME NEW w \in Windows, fate'[w] = "released"
          PROVE  /\ w \notin drewDead'
                 /\ loop'.external.window # w /\ bridge'.surface.window # w
                 /\ loop'.pc = "attach" => loop'.read.window # w
      <4>1. CASE w # ui.window
        BY <2>1, <2>2, <2>4, <3>2, <4>1 DEF ReleaseInv
      <4>2. CASE w = ui.window
        <5>1. ~bridge.in_use
          BY <2>4, <3>2, <4>2
        <5>2. /\ loop.external = None /\ bridge.surface = None
              /\ loop.pc = "attach" => loop.read = None
              /\ w \notin drewDead
          BY <2>1, <2>2, <5>1, <4>2, <1>w DEF ReleaseInv
        <5>3. QED
          BY <2>2, <5>2, <1>n, <1>w
      <4>3. QED
        BY <4>1, <4>2
    <3>3. QED
      BY <3>1, <3>2, <2>2, <1>c DEF ReleaseInv
  <2>6. QED
    BY <2>3, <2>5 DEF HandoverInv
<1>5. CASE Dismissed
  BY <1>5, DismissedEffect DEF HandoverInv, HeldInv, FollowInv, Follows, ReleaseInv
<1>6. QED
  BY <1>1, <1>2, <1>3, <1>4, <1>5 DEF UiStep

LEMMA ReadSurfaceEffect ==
  ASSUME NEW l \in LoopState, ReadSurface(l)
  PROVE  /\ loop'.read = bridge.surface
         /\ loop'.external = l.external
         /\ loop'.pc = IF bridge.surface = l.external THEN "redraw" ELSE "attach"
         /\ bridge' = bridge
BY DEF ReadSurface, LoopState

\* Reading the bridge starts from a record whose target is the loop's.
LEMMA ReadSurfaceKeeps ==
  ASSUME TypeOK, HandoverInv, LoopIdle, NEW l \in LoopState,
         l.external = loop.external, ReadSurface(l),
         UNCHANGED <<ui, fate, drewDead>>
  PROVE  HandoverInv'
<1>1. /\ loop'.read = bridge.surface
      /\ loop'.external = loop.external
      /\ loop'.pc = IF bridge.surface = loop.external THEN "redraw" ELSE "attach"
      /\ bridge' = bridge
  BY ReadSurfaceEffect
<1>2. HeldInv'
  BY <1>1 DEF HandoverInv, HeldInv, LoopIdle
<1>3. FollowInv'
  BY <1>1 DEF FollowInv, Follows
<1>4. ReleaseInv'
  BY <1>1 DEF HandoverInv, ReleaseInv
<1>5. QED
  BY <1>2, <1>3, <1>4 DEF HandoverInv

\* A frame draws to a surface that was not released, and a failing one ends in
\* no surface at all.
LEMMA RenderFrameKeeps ==
  ASSUME TypeOK, HandoverInv, NEW l \in LoopState, RenderFrame(l),
         l.external = loop.external, l.pc = "idle",
         (loop.pc = "idle" /\ loop.renderer) \/ loop.pc = "redraw",
         UNCHANGED <<ui, bridge, changes, fate>>
  PROVE  HandoverInv'
<1>1. /\ loop'.pc = "idle"
      /\ \/ loop'.external = loop.external
         \/ loop'.external = None /\ ~loop'.renderer
  BY DEF RenderFrame, NoRenderer, LoopState
<1>2. drewDead' = drewDead \cup
                    { w \in {loop.external.window} \cap Windows : fate[w] # "alive" }
  BY DEF RenderFrame
<1>3. HeldInv'
  BY <1>1 DEF HandoverInv, HeldInv
<1>4. FollowInv'
  BY <1>1 DEF HandoverInv, FollowInv, Follows
<1>5. ReleaseInv'
  <2>1. \A w \in Windows : None.window # w
    BY Bounds DEF None, Windows
  <2>2. QED
    BY <1>1, <1>2, <2>1 DEF HandoverInv, ReleaseInv
<1>6. QED
  BY <1>3, <1>4, <1>5 DEF HandoverInv

\* The event loop.
LEMMA LoopKeeps ==
  ASSUME TypeOK, HandoverInv, LoopStep \/ DrawFrame \/ Resumed \/ Suspended
  PROVE  HandoverInv'
<1>t. loop \in LoopState
  BY DEF TypeOK
<1>n. \A w \in Windows : None.window # w
  BY Bounds DEF None, Windows
<1>1. CASE ExternalDisplayChanged
  <2>1. CASE loop.renderer
    BY <1>1, <1>t, <2>1, ReadSurfaceKeeps DEF ExternalDisplayChanged
  <2>2. CASE ~loop.renderer
    <3>1. loop.pc = "idle" /\ UNCHANGED <<loop, bridge, ui, fate, drewDead>>
      BY <1>1, <2>2 DEF ExternalDisplayChanged, LoopIdle
    <3>2. QED
      BY <2>2, <3>1 DEF HandoverInv, HeldInv, FollowInv, ReleaseInv
  <2>3. QED
    BY <2>1, <2>2
<1>2. CASE AttachOrDetach
  <2>1. PICK attached \in BOOLEAN :
          /\ attached => loop.read # None
          /\ ~attached => loop.read = None \/ RenderMayFail
          /\ loop' = [loop EXCEPT !.external = IF attached THEN loop.read ELSE None,
                                  !.pc = "publish"]
    BY <1>2 DEF AttachOrDetach
  <2>2. /\ loop'.external = IF attached THEN loop.read ELSE None
        /\ loop'.pc = "publish" /\ loop.pc = "attach"
        /\ UNCHANGED <<ui, bridge, changes, fate, drewDead>>
    BY <1>2, <1>t, <2>1 DEF AttachOrDetach, LoopState
  <2>3. HeldInv'
    BY <2>2 DEF HeldInv
  <2>4. FollowInv'
    BY <2>1, <2>2 DEF HandoverInv, FollowInv, Follows
  <2>5. ReleaseInv'
    BY <2>1, <2>2, <1>n DEF HandoverInv, ReleaseInv
  <2>6. QED
    BY <2>3, <2>4, <2>5 DEF HandoverInv
<1>3. CASE PublishInUse
  <2>1. /\ bridge'.in_use = (loop.external # None) /\ bridge'.surface = bridge.surface
        /\ loop'.external = loop.external /\ loop'.pc = "redraw" /\ loop.pc = "publish"
        /\ UNCHANGED <<ui, changes, fate, drewDead>>
    BY <1>3 DEF PublishInUse, TypeOK, LoopState, BridgeState
  <2>2. HeldInv'
    BY <2>1 DEF HeldInv
  <2>3. FollowInv'
    BY <2>1 DEF HandoverInv, FollowInv, Follows
  <2>4. ReleaseInv'
    BY <2>1 DEF HandoverInv, ReleaseInv
  <2>5. QED
    BY <2>2, <2>3, <2>4 DEF HandoverInv
<1>4. CASE RedrawAfterApply
  <2> DEFINE l == [loop EXCEPT !.pc = "idle", !.starting = FALSE, !.read = None]
  <2>1. l \in LoopState /\ l.external = loop.external /\ l.pc = "idle"
    BY <1>t, NoneType DEF LoopState
  <2>2. RenderFrame(l) /\ loop.pc = "redraw" /\ UNCHANGED <<ui, bridge, changes, fate>>
    BY <1>4 DEF RedrawAfterApply
  <2> HIDE DEF l
  <2>3. QED
    BY <2>1, <2>2, RenderFrameKeeps
<1>5. CASE DrawFrame
  BY <1>5, <1>t, RenderFrameKeeps DEF DrawFrame, LoopIdle
<1>6. CASE Resumed
  <2>1. PICK ok \in BOOLEAN :
          LET l == [loop EXCEPT !.active = TRUE, !.resumes = @ + 1]
          IN  IF ~loop.renderer /\ ~ok
                THEN loop' = l /\ UNCHANGED bridge
                ELSE ReadSurface([l EXCEPT !.renderer = TRUE, !.starting = TRUE,
                                           !.phone = @ \/ ok])
    BY <1>6 DEF Resumed
  <2> DEFINE l == [loop EXCEPT !.active = TRUE, !.resumes = @ + 1]
             m == [l EXCEPT !.renderer = TRUE, !.starting = TRUE, !.phone = @ \/ ok]
  <2>2. l \in LoopState /\ l.external = loop.external /\ l.pc = loop.pc
        /\ l.renderer = loop.renderer /\ l.read = loop.read
    <3>1. loop.resumes + 1 \in 0 .. MaxResumes
      <4>1. loop.resumes < MaxResumes /\ loop.resumes \in 0 .. MaxResumes
        BY <1>6, <1>t DEF Resumed, LoopState
      <4>2. QED
        BY <4>1, Bounds
    <3>2. QED
      BY <1>t, <3>1 DEF LoopState
  <2>3. m \in LoopState /\ m.external = loop.external
    <3> HIDE DEF l
    <3>1. QED
      BY <2>2 DEF LoopState
  <2>4. (~loop.renderer /\ loop' = l /\ bridge' = bridge) \/ ReadSurface(m)
    BY <2>1
  <2>5. LoopIdle /\ UNCHANGED <<ui, changes, fate, drewDead>>
    BY <1>6 DEF Resumed
  <2> HIDE DEF l, m
  <2>6. CASE ~loop.renderer /\ loop' = l /\ bridge' = bridge
    BY <2>2, <2>5, <2>6
       DEF HandoverInv, HeldInv, FollowInv, ReleaseInv, LoopIdle
  <2>7. CASE ReadSurface(m)
    BY <2>3, <2>5, <2>7, ReadSurfaceKeeps
  <2>8. QED
    BY <2>4, <2>6, <2>7
<1>7. CASE Suspended
  <2>1. /\ loop.pc = "idle" /\ loop'.pc = "idle" /\ ~ui.waiting
        /\ UNCHANGED <<ui, changes, fate, drewDead>>
        /\ \/ /\ loop'.external = loop.external /\ loop'.renderer = loop.renderer
              /\ bridge' = bridge
           \/ /\ loop'.external = None /\ ~loop'.renderer
              /\ bridge'.surface = bridge.surface
    <3>1. CASE loop.external # None
      BY <1>7, <1>t, <3>1 DEF Suspended, LoopIdle, UiIdle, LoopState
    <3>2. CASE loop.external = None
      <4>1. NoRenderer(loop) \in LoopState
        BY <1>t, NoRendererType
      <4>2. /\ NoRenderer(loop).external = None /\ ~NoRenderer(loop).renderer
            /\ NoRenderer(loop).pc = loop.pc
        BY <1>t DEF NoRenderer, LoopState
      <4>3. /\ loop' = [NoRenderer(loop) EXCEPT !.active = FALSE]
            /\ bridge' = [bridge EXCEPT !.in_use = FALSE]
            /\ loop.pc = "idle" /\ ~ui.waiting
            /\ UNCHANGED <<ui, changes, fate, drewDead>>
        BY <1>7, <3>2 DEF Suspended, LoopIdle, UiIdle
      <4>4. /\ loop'.external = NoRenderer(loop).external
            /\ loop'.renderer = NoRenderer(loop).renderer
            /\ loop'.pc = NoRenderer(loop).pc
            /\ bridge'.surface = bridge.surface
        BY <4>1, <4>3 DEF LoopState, TypeOK, BridgeState
      <4>5. QED
        BY <4>2, <4>3, <4>4
    <3>3. QED
      BY <3>1, <3>2
  <2>2. HeldInv'
    BY <2>1 DEF HandoverInv, HeldInv
  <2>3. FollowInv'
    BY <2>1 DEF HandoverInv, FollowInv, Follows
  <2>4. ReleaseInv'
    BY <2>1, <1>n DEF HandoverInv, ReleaseInv
  <2>5. QED
    BY <2>2, <2>3, <2>4 DEF HandoverInv
<1>8. QED
  BY <1>1, <1>2, <1>3, <1>4, <1>5, <1>6, <1>7 DEF LoopStep

LEMMA HandoverInvariant == Spec => []HandoverInv
<1>1. Init => HandoverInv
  <2>1. SUFFICES ASSUME Init PROVE HandoverInv
    OBVIOUS
  <2>2. HeldInv /\ FollowInv
    BY <2>1 DEF Init, HeldInv, FollowInv, Follows
  <2>3. ReleaseInv
    BY <2>1 DEF Init, ReleaseInv
  <2>4. QED
    BY <2>2, <2>3 DEF HandoverInv
<1>2. TypeOK /\ HandoverInv /\ [Next]_vars => HandoverInv'
  <2>1. SUFFICES ASSUME TypeOK, HandoverInv, [Next]_vars PROVE HandoverInv'
    OBVIOUS
  <2>2. CASE UNCHANGED vars
    BY <2>1, <2>2 DEF vars, HandoverInv, HeldInv, FollowInv, Follows, ReleaseInv
  <2>3. CASE Next
    BY <2>1, <2>3, UiKeeps, LoopKeeps DEF Next
  <2>4. QED
    BY <2>1, <2>2, <2>3
<1>3. QED
  BY <1>1, <1>2, TypeCorrect, PTL DEF Spec

\* A surface whose destruction waited for the event loop is never drawn to
\* again.
THEOREM ReleasedIsForGood == Spec => []ReleasedForGood
<1>1. HandoverInv => ReleasedForGood
  BY DEF HandoverInv, ReleaseInv, ReleasedForGood
<1>2. QED
  BY <1>1, HandoverInvariant, PTL

\* Between two handlers of the event loop, in_use is set whenever it holds a
\* surface.
THEOREM HeldAlwaysInUse == Spec => []HeldIsInUse
<1>1. HandoverInv => HeldIsInUse
  BY DEF HandoverInv, HeldInv, HeldIsInUse, LoopIdle
<1>2. QED
  BY <1>1, HandoverInvariant, PTL

\* With every change handled, the loop draws to the surface in the bridge.
THEOREM NoChangeMissed == Spec => []TargetFollowsBridge
<1>1. HandoverInv => TargetFollowsBridge
  BY DEF HandoverInv, FollowInv, Follows, TargetFollowsBridge, LoopIdle
<1>2. QED
  BY <1>1, HandoverInvariant, PTL

-----------------------------------------------------------------------------
(* Presentation, controls and monitor in step                              *)

Message == {"start", "background", "stop", "update"}

\* A message on its way to the UI thread.
Sent(m) == \E i \in 1 .. Len(messages) : messages[i] = m

\* The controls taken down on the way to the background go up again.
StartFollows ==
  \A i \in 1 .. Len(messages) : messages[i] = "background" =>
    \E j \in i + 1 .. Len(messages) : messages[j] = "start"

\* The app in front, and the event loop has sent the start() of its resuming.
StartSaid == loop.active /\ loop.renderer /\ ~loop.starting

\* What dismiss() has taken away by the time something follows it.
DismissInv ==
  /\ ui.then = "show" => ui.activity
  /\ ui.then # "nothing" => ui.presentation = 0 /\ (ui.waiting \/ ui.window = 0)
  /\ ui.controls => ui.presentation # 0

\* With no update() on its way, the display found last is the monitor.
MonitorInv ==
  ui.activity /\ ~Sent("update") =>
    /\ ui.then = "nothing" => ui.presentation = monitor
    /\ ui.then = "show" => ui.target = monitor

\* Controls that are missing are a start() away.
ControlsInv ==
  /\ LoopIdle => ~loop.starting
  /\ StartSaid /\ ui.presentation # 0 /\ ~ui.controls => Sent("start")
  /\ StartSaid => StartFollows

\* Without an activity there is no presentation, without a window no surface.
BehindInv ==
  /\ ~ui.activity => ui.presentation = 0 /\ ui.window = 0
  /\ ui.window = 0 => bridge.surface = None

StepInv == DismissInv /\ MonitorInv /\ ControlsInv /\ BehindInv

LEMMA SendingEffect ==
  ASSUME messages \in Seq(Message), NEW x \in Message, messages' = Append(messages, x)
  PROVE  /\ \A m \in Message : Sent(m)' <=> Sent(m) \/ m = x
         /\ x # "background" => (StartFollows => StartFollows')
         /\ x = "start" => StartFollows'
<1>1. /\ Len(messages) \in Nat /\ Len(messages') = Len(messages) + 1
      /\ messages'[Len(messages) + 1] = x
      /\ \A i \in 1 .. Len(messages) : messages'[i] = messages[i]
  OBVIOUS
<1>2. \A i \in 1 .. Len(messages') : i \in 1 .. Len(messages) \/ i = Len(messages) + 1
  BY <1>1
<1>3. ASSUME NEW m \in Message PROVE Sent(m)' <=> Sent(m) \/ m = x
  BY <1>1, <1>2 DEF Sent
<1>4. ASSUME x # "background", StartFollows PROVE StartFollows'
  <2>1. ASSUME NEW i \in 1 .. Len(messages'), messages'[i] = "background"
        PROVE  \E j \in i + 1 .. Len(messages') : messages'[j] = "start"
    <3>1. i \in 1 .. Len(messages) /\ messages[i] = "background"
      BY <1>1, <1>2, <1>4, <2>1
    <3>2. PICK j \in i + 1 .. Len(messages) : messages[j] = "start"
      BY <1>4, <3>1 DEF StartFollows
    <3>3. j \in i + 1 .. Len(messages') /\ messages'[j] = "start"
      BY <1>1, <3>1, <3>2
    <3>4. QED
      BY <3>3
  <2>2. QED
    BY <2>1 DEF StartFollows
<1>5. ASSUME x = "start" PROVE StartFollows'
  <2>1. ASSUME NEW i \in 1 .. Len(messages'), messages'[i] = "background"
        PROVE  \E j \in i + 1 .. Len(messages') : messages'[j] = "start"
    <3>1. i # Len(messages) + 1
      BY <1>1, <1>5, <2>1
    <3>2. Len(messages) + 1 \in i + 1 .. Len(messages')
      BY <1>1, <1>2, <2>1, <3>1
    <3>3. QED
      BY <1>1, <1>5, <3>2
  <2>2. QED
    BY <2>1 DEF StartFollows
<1>6. QED
  BY <1>3, <1>4, <1>5

LEMMA TakingEffect ==
  ASSUME messages \in Seq(Message), messages # <<>>, messages' = Tail(messages)
  PROVE  /\ Head(messages) \in Message
         /\ \A m \in Message : Sent(m)' => Sent(m)
         /\ \A m \in Message : Sent(m) /\ Head(messages) # m => Sent(m)'
         /\ StartFollows => StartFollows'
         /\ StartFollows /\ Head(messages) = "background" => Sent("start")'
<1>1. /\ Len(messages) \in Nat \ {0} /\ Len(messages') = Len(messages) - 1
      /\ Head(messages) = messages[1] /\ Head(messages) \in Message
      /\ \A i \in 1 .. Len(messages') : messages'[i] = messages[i + 1]
  OBVIOUS
<1>2. /\ \A i \in 1 .. Len(messages') : i + 1 \in 1 .. Len(messages)
      /\ \A i \in 2 .. Len(messages) :
           i - 1 \in 1 .. Len(messages') /\ messages'[i - 1] = messages[i]
  <2>1. \A i \in 1 .. Len(messages') : i + 1 \in 1 .. Len(messages)
    BY <1>1
  <2>2. ASSUME NEW i \in 2 .. Len(messages)
        PROVE  i - 1 \in 1 .. Len(messages') /\ messages'[i - 1] = messages[i]
    <3>1. i - 1 \in 1 .. Len(messages') /\ (i - 1) + 1 = i
      BY <1>1
    <3>2. QED
      BY <1>1, <3>1
  <2>3. QED
    BY <2>1, <2>2
<1>3. ASSUME NEW m \in Message, Sent(m)' PROVE Sent(m)
  <2>1. PICK i \in 1 .. Len(messages') : messages'[i] = m
    BY <1>3 DEF Sent
  <2>2. i + 1 \in 1 .. Len(messages) /\ messages[i + 1] = m
    BY <1>1, <1>2, <2>1
  <2>3. QED
    BY <2>2 DEF Sent
<1>4. ASSUME NEW m \in Message, NEW i \in 2 .. Len(messages), messages[i] = m
      PROVE  Sent(m)'
  BY <1>2, <1>4 DEF Sent
<1>5. ASSUME NEW m \in Message, Sent(m), Head(messages) # m PROVE Sent(m)'
  <2>1. PICK i \in 1 .. Len(messages) : messages[i] = m
    BY <1>5 DEF Sent
  <2>2. i \in 2 .. Len(messages)
    BY <1>1, <1>5, <2>1
  <2>3. QED
    BY <1>4, <2>1, <2>2
<1>6. ASSUME StartFollows PROVE StartFollows'
  <2>1. ASSUME NEW i \in 1 .. Len(messages'), messages'[i] = "background"
        PROVE  \E j \in i + 1 .. Len(messages') : messages'[j] = "start"
    <3>1. i + 1 \in 1 .. Len(messages) /\ messages[i + 1] = "background"
      BY <1>1, <1>2, <2>1
    <3>2. PICK j \in i + 2 .. Len(messages) : messages[j] = "start"
      <4>1. PICK j \in (i + 1) + 1 .. Len(messages) : messages[j] = "start"
        BY <1>6, <3>1 DEF StartFollows
      <4>2. QED
        BY <4>1
    <3>3. j \in 2 .. Len(messages)
      BY <1>1, <3>2
    <3>4. j - 1 \in i + 1 .. Len(messages') /\ messages'[j - 1] = "start"
      BY <1>1, <1>2, <3>2, <3>3
    <3>5. QED
      BY <3>4
  <2>2. QED
    BY <2>1 DEF StartFollows
<1>7. ASSUME StartFollows, Head(messages) = "background" PROVE Sent("start")'
  <2>1. 1 \in 1 .. Len(messages) /\ messages[1] = "background"
    BY <1>1, <1>7
  <2>2. PICK j \in 1 + 1 .. Len(messages) : messages[j] = "start"
    BY <1>7, <2>1 DEF StartFollows
  <2>3. j \in 2 .. Len(messages)
    BY <1>1, <2>2
  <2>4. QED
    BY <1>4, <2>2, <2>3 DEF Message
<1>8. QED
  BY <1>1, <1>3, <1>5, <1>6, <1>7

\* What the UI thread knows of a presentation, which giving up a surface leaves
\* alone.
SameScene(u) ==
  /\ ui'.activity = u.activity /\ ui'.presentation = u.presentation
  /\ ui'.controls = u.controls /\ ui'.then = u.then /\ ui'.target = u.target

\* dismiss() done, with what follows it left to do.
Left(then) ==
  /\ ui'.presentation = 0 /\ ~ui'.controls /\ ui'.then = then
  /\ ui'.waiting \/ ui'.window = 0
  /\ bridge'.surface = None

LEMMA GivingUpScene ==
  ASSUME TypeOK, NEW u \in UiState, DestroySurface(u)
  PROVE  /\ SameScene(u) /\ (ui'.waiting \/ ui'.window = 0)
         /\ bridge'.surface = None
<1>1. bridge'.surface = None
  BY DEF DestroySurface, TypeOK, BridgeState
<1>2. CASE bridge.in_use
  BY <1>1, <1>2 DEF DestroySurface, UiState, SameScene
<1>3. CASE ~bridge.in_use
  BY <1>1, <1>3 DEF DestroySurface, Returned, UiState, SameScene
<1>4. QED
  BY <1>2, <1>3

LEMMA DismissScene ==
  ASSUME TypeOK, BehindInv, NEW u \in UiState, NEW then \in {"show", "forget"},
         u.window = ui.window, Dismiss(u, then)
  PROVE  Left(then) /\ ui'.activity = u.activity /\ ui'.target = u.target
<1> DEFINE gone == [u EXCEPT !.controls = FALSE, !.presentation = 0, !.then = then]
<1>1. /\ gone \in UiState /\ gone.window = u.window
      /\ gone.controls = FALSE /\ gone.presentation = 0 /\ gone.then = then
      /\ gone.activity = u.activity /\ gone.target = u.target
  BY Bounds DEF UiState
<1>2. IF u.window # 0 THEN DestroySurface(gone)
      ELSE ui' = gone /\ UNCHANGED <<bridge, changes, fate>>
  BY DEF Dismiss
<1> HIDE DEF gone
<1>3. CASE u.window # 0
  BY <1>1, <1>2, <1>3, GivingUpScene DEF SameScene, Left
<1>4. CASE u.window = 0
  BY <1>1, <1>2, <1>4 DEF Left, BehindInv
<1>5. QED
  BY <1>3, <1>4

LEMMA UpdateScene ==
  ASSUME TypeOK, BehindInv, NEW u \in UiState, NEW fromStart \in BOOLEAN,
         u.window = ui.window, Update(u, fromStart)
  PROVE  \/ /\ ~u.activity \/ (u.presentation # 0 /\ u.presentation = monitor)
            /\ ui'.activity = u.activity /\ ui'.presentation = u.presentation
            /\ ui'.controls = (u.controls \/ (fromStart /\ u.presentation # 0))
            /\ ui'.then = u.then /\ ui'.window = u.window /\ ui'.waiting = u.waiting
            /\ bridge' = bridge
         \/ u.activity /\ ui'.activity /\ Left("show") /\ ui'.target = monitor
<1>1. CASE ~u.activity \/ (u.presentation # 0 /\ u.presentation = monitor)
  <2>1. /\ ui' = [u EXCEPT !.controls = @ \/ (fromStart /\ u.presentation # 0)]
        /\ bridge' = bridge
    BY <1>1 DEF Update
  <2>2. QED
    BY <1>1, <2>1 DEF UiState
<1>2. CASE ~(~u.activity \/ (u.presentation # 0 /\ u.presentation = monitor))
  <2> DEFINE found == [u EXCEPT !.target = monitor]
  <2>1. /\ found \in UiState /\ found.window = ui.window
        /\ found.activity = u.activity /\ found.target = monitor
    BY DEF TypeOK, UiState
  <2>2. Dismiss(found, "show") /\ u.activity
    BY <1>2 DEF Update
  <2> HIDE DEF found
  <2>3. QED
    BY <2>1, <2>2, DismissScene
<1>3. QED
  BY <1>1, <1>2

-----------------------------------------------------------------------------
(* The UI thread and Android keep StepInv                                  *)

LEMMA DeliverSteps ==
  ASSUME TypeOK, StepInv, Deliver PROVE StepInv'
<1>0. /\ ui \in UiState /\ messages \in Seq(Message) /\ messages # <<>>
      /\ messages' = Tail(messages) /\ UNCHANGED <<monitor, loop>>
      /\ ui.then = "nothing" /\ ~ui.waiting
      /\ DismissInv /\ MonitorInv /\ ControlsInv /\ BehindInv
  BY DEF TypeOK, Deliver, UiIdle, StepInv, Message
<1>m. /\ Head(messages) \in Message
      /\ \A m \in Message : Sent(m)' => Sent(m)
      /\ \A m \in Message : Sent(m) /\ Head(messages) # m => Sent(m)'
      /\ StartFollows => StartFollows'
      /\ StartFollows /\ Head(messages) = "background" => Sent("start")'
      /\ {"start", "update"} \subseteq Message
  BY <1>0, TakingEffect DEF Message
<1>1. CASE Head(messages) \in {"start", "update"}
  <2> DEFINE u == IF Head(messages) = "start" THEN [ui EXCEPT !.activity = TRUE] ELSE ui
             fromStart == Head(messages) = "start"
  <2>1. Update(u, fromStart)
    BY <1>1 DEF Deliver
  <2>2. /\ u \in UiState /\ u.window = ui.window /\ u.presentation = ui.presentation
        /\ u.controls = ui.controls /\ u.then = ui.then /\ u.waiting = ui.waiting
        /\ u.activity = (ui.activity \/ fromStart) /\ fromStart \in BOOLEAN
    BY <1>0 DEF UiState
  <2> HIDE DEF u
  <2>3. \/ /\ ~u.activity \/ (u.presentation # 0 /\ u.presentation = monitor)
           /\ ui'.activity = u.activity /\ ui'.presentation = u.presentation
           /\ ui'.controls = (u.controls \/ (fromStart /\ u.presentation # 0))
           /\ ui'.then = u.then /\ ui'.window = u.window /\ ui'.waiting = u.waiting
           /\ bridge' = bridge
        \/ u.activity /\ ui'.activity /\ Left("show") /\ ui'.target = monitor
    BY <1>0, <2>1, <2>2, UpdateScene
  <2>4. CASE u.activity /\ ui'.activity /\ Left("show") /\ ui'.target = monitor
    <3>1. DismissInv' /\ MonitorInv' /\ BehindInv'
      BY <1>0, <2>4 DEF Left, DismissInv, MonitorInv, BehindInv
    <3>2. ControlsInv'
      BY <1>0, <1>m, <2>4 DEF Left, ControlsInv, StartSaid, LoopIdle
    <3>3. QED
      BY <3>1, <3>2 DEF StepInv
  <2>5. CASE /\ ~u.activity \/ (u.presentation # 0 /\ u.presentation = monitor)
             /\ ui'.activity = u.activity /\ ui'.presentation = u.presentation
             /\ ui'.controls = (u.controls \/ (fromStart /\ u.presentation # 0))
             /\ ui'.then = u.then /\ ui'.window = u.window /\ ui'.waiting = u.waiting
             /\ bridge' = bridge
    <3>1. DismissInv' /\ BehindInv'
      BY <1>0, <2>2, <2>5 DEF DismissInv, BehindInv
    <3>2. MonitorInv'
      BY <1>0, <2>2, <2>5 DEF MonitorInv
    <3>3. ControlsInv'
      BY <1>0, <1>m, <2>2, <2>5 DEF ControlsInv, StartSaid, LoopIdle
    <3>4. QED
      BY <3>1, <3>2, <3>3 DEF StepInv
  <2>6. QED
    BY <2>3, <2>4, <2>5
<1>2. CASE Head(messages) = "stop"
  <2>1. Dismiss(ui, "forget")
    BY <1>2 DEF Deliver
  <2>2. Left("forget") /\ ui'.activity = ui.activity
    BY <1>0, <2>1, DismissScene
  <2>3. DismissInv' /\ MonitorInv'
    BY <1>0, <2>2 DEF Left, DismissInv, MonitorInv
  <2>4. ControlsInv'
    BY <1>0, <1>m, <2>2 DEF Left, ControlsInv, StartSaid, LoopIdle
  <2>5. BehindInv'
    <3>1. ~ui.activity => ui.window = 0
      BY <1>0 DEF BehindInv
    <3>2. ui.window = 0 => ui'.window = 0
      BY <2>1 DEF Dismiss, UiState, TypeOK
    <3>3. QED
      BY <2>2, <3>1, <3>2 DEF Left, BehindInv
  <2>6. QED
    BY <2>3, <2>4, <2>5 DEF StepInv
<1>3. CASE Head(messages) = "background"
  <2>1. ui' = [ui EXCEPT !.controls = FALSE] /\ bridge' = bridge
    BY <1>3 DEF Deliver
  <2>2. /\ ~ui'.controls /\ ui'.activity = ui.activity /\ ui'.then = ui.then
        /\ ui'.presentation = ui.presentation /\ ui'.window = ui.window
        /\ ui'.waiting = ui.waiting
    BY <1>0, <2>1 DEF UiState
  <2>3. DismissInv' /\ BehindInv'
    BY <1>0, <2>1, <2>2 DEF DismissInv, BehindInv
  <2>4. MonitorInv'
    BY <1>0, <1>m, <1>3, <2>2 DEF MonitorInv
  <2>5. ControlsInv'
    BY <1>0, <1>m, <1>3, <2>2 DEF ControlsInv, StartSaid, LoopIdle
  <2>6. QED
    BY <2>3, <2>4, <2>5 DEF StepInv
<1>4. QED
  BY <1>m, <1>1, <1>2, <1>3 DEF Message

\* A monitor that comes or goes is news, unless nobody listens.
LEMMA MonitorSteps ==
  ASSUME TypeOK, StepInv, Plug \/ Unplug PROVE StepInv'
<1>0. /\ messages \in Seq(Message) /\ UNCHANGED <<ui, bridge, loop>>
      /\ messages' = Listened
      /\ DismissInv /\ MonitorInv /\ ControlsInv /\ BehindInv
  BY DEF TypeOK, Plug, Unplug, StepInv, Message
<1>1. DismissInv' /\ BehindInv'
  BY <1>0 DEF DismissInv, BehindInv
<1>2. CASE ui.activity /\ ui.then # "forget"
  <2>1. messages' = Append(messages, "update")
    BY <1>0, <1>2 DEF Listened
  <2>2. /\ \A m \in Message : Sent(m)' <=> Sent(m) \/ m = "update"
        /\ StartFollows => StartFollows'
        /\ {"start", "update"} \subseteq Message
    <3>1. "update" \in Message /\ "start" \in Message
      BY DEF Message
    <3>2. QED
      BY <1>0, <2>1, <3>1, SendingEffect
  <2>3. MonitorInv'
    BY <2>2 DEF MonitorInv
  <2>4. ControlsInv'
    BY <1>0, <2>2 DEF ControlsInv, StartSaid, LoopIdle
  <2>5. QED
    BY <1>1, <2>3, <2>4 DEF StepInv
<1>3. CASE ~(ui.activity /\ ui.then # "forget")
  <2>1. messages' = messages
    BY <1>0, <1>3 DEF Listened
  <2>2. MonitorInv'
    BY <1>0, <1>3 DEF MonitorInv
  <2>3. ControlsInv'
    BY <1>0, <2>1 DEF ControlsInv, StartSaid, LoopIdle, StartFollows, Sent
  <2>4. QED
    BY <1>1, <2>2, <2>3 DEF StepInv
<1>4. QED
  BY <1>2, <1>3

LEMMA SurfaceSteps ==
  ASSUME TypeOK, HandoverInv, StepInv,
         SurfaceChanged \/ SurfaceLost \/ DestroyTimesOut \/ DestroyWakes \/ Dismissed
  PROVE  StepInv'
<1>0. /\ ui \in UiState /\ bridge \in BridgeState /\ ui.created \in Nat
      /\ DismissInv /\ MonitorInv /\ ControlsInv /\ BehindInv
  BY Bounds DEF TypeOK, StepInv, UiState
<1>1. UNCHANGED <<monitor, messages, loop>>
  BY DEF SurfaceChanged, SurfaceLost, DestroyTimesOut, DestroyWakes, Dismissed
<1>2. /\ Sent("start")' = Sent("start") /\ Sent("update")' = Sent("update")
      /\ StartFollows' = StartFollows /\ StartSaid' = StartSaid
  BY <1>1 DEF Sent, StartFollows, StartSaid
<1>3. CASE SurfaceChanged
  <2>1. ui.then = "nothing" /\ ui.presentation # 0
    BY <1>3 DEF SurfaceChanged, UiIdle
  <2>2. /\ ui'.activity = ui.activity /\ ui'.presentation = ui.presentation
        /\ ui'.controls = ui.controls /\ ui'.then = ui.then /\ ui'.window # 0
    <3> DEFINE window == IF ui.window = 0 THEN ui.created + 1 ELSE ui.window
               created == IF ui.window = 0 THEN ui.created + 1 ELSE ui.created
    <3>1. window # 0
      BY <1>0
    <3>2. ui' = [ui EXCEPT !.window = window, !.published = @ + 1, !.created = created]
      BY <1>0, <1>3 DEF SurfaceChanged, UiState
    <3> HIDE DEF window, created
    <3>3. QED
      BY <1>0, <3>1, <3>2 DEF UiState
  <2>3. QED
    BY <1>0, <1>1, <1>2, <2>1, <2>2
       DEF StepInv, DismissInv, MonitorInv, ControlsInv, BehindInv, LoopIdle
<1>4. CASE SurfaceLost
  <2>1. DestroySurface(ui) /\ ui.then = "nothing" /\ ui.window # 0
    BY <1>4 DEF SurfaceLost, UiIdle
  <2>2. SameScene(ui) /\ bridge'.surface = None
    BY <1>0, <2>1, GivingUpScene
  <2>3. ui.activity
    BY <1>0, <2>1 DEF BehindInv
  <2>4. QED
    BY <1>0, <1>1, <1>2, <2>1, <2>2, <2>3
       DEF StepInv, SameScene, DismissInv, MonitorInv, ControlsInv, BehindInv, LoopIdle
<1>5. CASE DestroyTimesOut \/ DestroyWakes
  <2>1. ui.waiting /\ ui' = Returned(ui) /\ bridge' = bridge
    BY <1>5 DEF DestroyTimesOut, DestroyWakes
  <2>2. bridge.surface = None
    BY <2>1 DEF HandoverInv, ReleaseInv
  <2>3. SameScene(ui) /\ ui'.window = 0
    BY <1>0, <2>1 DEF Returned, UiState, SameScene
  <2>4. QED
    BY <1>0, <1>1, <1>2, <2>1, <2>2, <2>3
       DEF StepInv, SameScene, DismissInv, MonitorInv, ControlsInv, BehindInv, LoopIdle
<1>6. CASE Dismissed
  <2> DEFINE shown == ui.then = "show" /\ ui.target # 0 /\ ui.target = monitor
  <2>1. /\ ~ui.waiting /\ ui.then \in {"show", "forget"} /\ bridge' = bridge
        /\ ui' = [ui EXCEPT !.then = "nothing", !.target = 0, !.activity = ui.then = "show",
                            !.presentation = IF shown THEN ui.target ELSE 0,
                            !.controls = shown]
    BY <1>0, <1>6 DEF Dismissed, UiState
  <2>2. /\ ui'.then = "nothing" /\ ui'.window = ui.window /\ ui'.waiting = ui.waiting
        /\ ui'.activity = (ui.then = "show") /\ ui'.controls = shown
        /\ ui'.presentation = IF shown THEN ui.target ELSE 0
    BY <1>0, <2>1 DEF UiState
  <2>3. shown <=> ui.then = "show" /\ ui.target # 0 /\ ui.target = monitor
    OBVIOUS
  <2> HIDE DEF shown
  <2>4. DismissInv' /\ BehindInv'
    BY <1>0, <2>1, <2>2, <2>3 DEF DismissInv, BehindInv
  <2>5. MonitorInv'
    BY <1>0, <1>1, <1>2, <2>1, <2>2, <2>3 DEF MonitorInv, DismissInv
  <2>6. ControlsInv'
    BY <1>0, <1>1, <1>2, <2>2, <2>3 DEF ControlsInv, LoopIdle
  <2>7. QED
    BY <2>4, <2>5, <2>6 DEF StepInv
<1>7. QED
  BY <1>3, <1>4, <1>5, <1>6

-----------------------------------------------------------------------------
(* The event loop keeps StepInv                                            *)

\* All the event loop can do to what is in step: send the UI thread a message,
\* and come to the front or leave it.
LoopSays ==
  /\ UNCHANGED <<monitor, ui>> /\ bridge'.surface = bridge.surface
  /\ loop'.pc = "idle" => ~loop'.starting
  /\ \/ /\ messages' = messages
        /\ StartSaid' => StartSaid
     \/ \E m \in {"start", "stop", "background"} :
          /\ messages' = Append(messages, m)
          /\ m = "start" \/ ~StartSaid'

LEMMA LoopSteps == ASSUME TypeOK, StepInv, LoopSays PROVE StepInv'
<1>0. /\ messages \in Seq(Message)
      /\ UNCHANGED <<monitor, ui>> /\ bridge'.surface = bridge.surface
      /\ DismissInv /\ MonitorInv /\ ControlsInv /\ BehindInv
  BY DEF TypeOK, LoopSays, StepInv, Message
<1>1. DismissInv' /\ BehindInv'
  BY <1>0 DEF DismissInv, BehindInv
<1>2. CASE messages' = messages /\ (StartSaid' => StartSaid)
  BY <1>0, <1>1, <1>2
     DEF StepInv, MonitorInv, ControlsInv, LoopSays, LoopIdle, Sent, StartFollows
<1>3. ASSUME NEW m \in {"start", "stop", "background"},
             messages' = Append(messages, m), m = "start" \/ ~StartSaid'
      PROVE  StepInv'
  <2>1. m \in Message /\ {"start", "update"} \subseteq Message /\ m # "update"
    BY <1>3 DEF Message
  <2>2. /\ \A x \in Message : Sent(x)' <=> Sent(x) \/ x = m
        /\ m = "start" => StartFollows'
    BY <1>0, <1>3, <2>1, SendingEffect
  <2>3. MonitorInv'
    BY <1>0, <2>1, <2>2 DEF MonitorInv
  <2>4. ControlsInv'
    BY <1>0, <1>3, <2>1, <2>2 DEF ControlsInv, LoopSays, LoopIdle
  <2>5. QED
    BY <1>1, <2>3, <2>4 DEF StepInv
<1>4. QED
  BY <1>2, <1>3 DEF LoopSays

LEMMA LoopSaysIt ==
  ASSUME TypeOK, StepInv, LoopStep \/ DrawFrame \/ Resumed \/ Suspended
  PROVE  LoopSays
<1>t. loop \in LoopState /\ ControlsInv
  BY DEF TypeOK, StepInv
<1>1. CASE ExternalDisplayChanged
  <2>1. CASE loop.renderer
    <3>1. ReadSurface(loop) /\ UNCHANGED <<monitor, ui, messages>>
      BY <1>1, <2>1 DEF ExternalDisplayChanged
    <3>2. /\ loop'.active = loop.active /\ loop'.renderer = loop.renderer
          /\ loop'.starting = loop.starting /\ loop'.pc # "idle" /\ bridge' = bridge
      BY <1>t, <3>1 DEF ReadSurface, LoopState
    <3>3. QED
      BY <3>1, <3>2 DEF LoopSays, StartSaid
  <2>2. CASE ~loop.renderer
    BY <1>1, <1>t, <2>2 DEF ExternalDisplayChanged, LoopSays, StartSaid, ControlsInv, LoopIdle
  <2>3. QED
    BY <2>1, <2>2
<1>2. CASE AttachOrDetach
  <2>1. UNCHANGED <<monitor, ui, messages, bridge>>
        /\ \E s : loop' = [loop EXCEPT !.external = s, !.pc = "publish"]
    BY <1>2 DEF AttachOrDetach
  <2>2. /\ loop'.active = loop.active /\ loop'.renderer = loop.renderer
        /\ loop'.starting = loop.starting /\ loop'.pc # "idle"
    BY <1>t, <2>1 DEF LoopState
  <2>3. QED
    BY <2>1, <2>2 DEF LoopSays, StartSaid
<1>3. CASE PublishInUse
  <2>1. /\ loop'.active = loop.active /\ loop'.renderer = loop.renderer
        /\ loop'.starting = loop.starting /\ loop'.pc # "idle"
        /\ bridge'.surface = bridge.surface /\ UNCHANGED <<monitor, ui, messages>>
    BY <1>3, <1>t DEF PublishInUse, LoopState, TypeOK, BridgeState
  <2>2. QED
    BY <2>1 DEF LoopSays, StartSaid
<1>4. CASE RedrawAfterApply
  <2> DEFINE l == [loop EXCEPT !.pc = "idle", !.starting = FALSE, !.read = None]
  <2>1. /\ l \in LoopState /\ l.active = loop.active /\ l.renderer = loop.renderer
        /\ ~l.starting
    BY <1>t, NoneType DEF LoopState
  <2>2. loop' \in {l, NoRenderer(l)} /\ UNCHANGED <<monitor, ui, bridge>>
    BY <1>4 DEF RedrawAfterApply, RenderFrame
  <2>3. messages' = IF loop.starting THEN Append(messages, "start") ELSE messages
    BY <1>4 DEF RedrawAfterApply
  <2> HIDE DEF l
  <2>4. ~loop'.starting /\ loop'.active = loop.active /\ (loop'.renderer => loop.renderer)
    BY <2>1, <2>2 DEF NoRenderer, LoopState
  <2>5. QED
    BY <2>2, <2>3, <2>4 DEF LoopSays, StartSaid
<1>5. CASE DrawFrame
  <2>1. /\ loop' \in {loop, NoRenderer(loop)} /\ UNCHANGED <<monitor, ui, bridge, messages>>
        /\ loop.pc = "idle"
    BY <1>5 DEF DrawFrame, RenderFrame, LoopIdle
  <2>2. /\ loop'.starting = loop.starting /\ loop'.active = loop.active
        /\ loop'.renderer => loop.renderer
    BY <1>t, <2>1 DEF NoRenderer, LoopState
  <2>3. QED
    BY <1>t, <2>1, <2>2 DEF LoopSays, StartSaid, ControlsInv, LoopIdle
<1>6. CASE Resumed
  <2>1. PICK ok \in BOOLEAN :
          LET l == [loop EXCEPT !.active = TRUE, !.resumes = @ + 1]
          IN  IF ~loop.renderer /\ ~ok
                THEN loop' = l /\ UNCHANGED bridge
                ELSE ReadSurface([l EXCEPT !.renderer = TRUE, !.starting = TRUE,
                                           !.phone = @ \/ ok])
    BY <1>6 DEF Resumed
  <2> DEFINE l == [loop EXCEPT !.active = TRUE, !.resumes = @ + 1]
             m == [l EXCEPT !.renderer = TRUE, !.starting = TRUE, !.phone = @ \/ ok]
  <2>2. l.renderer = loop.renderer /\ l.starting = loop.starting /\ l.pc = loop.pc
    BY <1>t DEF LoopState
  <2>3. \/ /\ loop' = [m EXCEPT !.read = bridge.surface,
                         !.pc = IF bridge.surface = m.external THEN "redraw" ELSE "attach"]
        \/ ~loop.renderer /\ loop' = l
    BY <2>1 DEF ReadSurface
  <2>4. UNCHANGED <<monitor, ui, messages, bridge>> /\ loop.pc = "idle"
    BY <1>6, <2>1 DEF Resumed, ReadSurface, LoopIdle
  <2>5. (~loop'.renderer \/ loop'.starting) /\ (loop'.pc = "idle" => ~loop'.starting)
    <3>1. CASE ~loop.renderer /\ loop' = l
      BY <1>t, <2>2, <2>4, <3>1 DEF ControlsInv, LoopIdle
    <3>2. CASE loop' = [m EXCEPT !.read = bridge.surface,
                          !.pc = IF bridge.surface = m.external THEN "redraw" ELSE "attach"]
      <4>1. loop'.starting /\ loop'.pc # "idle"
        BY <1>t, <3>2 DEF LoopState
      <4>2. QED
        BY <4>1
    <3>3. QED
      BY <2>3, <3>1, <3>2
  <2> HIDE DEF l, m
  <2>6. QED
    BY <2>4, <2>5 DEF LoopSays, StartSaid
<1>7. CASE Suspended
  <2>1. /\ loop.pc = "idle" /\ UNCHANGED <<monitor, ui>>
        /\ bridge'.surface = bridge.surface
        /\ \E m \in {"stop", "background"} : messages' = Append(messages, m)
    BY <1>7 DEF Suspended, LoopIdle, TypeOK, BridgeState
  <2>2. NoRenderer(loop) \in LoopState /\ NoRenderer(loop).starting = loop.starting
    BY <1>t, NoRendererType DEF NoRenderer, LoopState
  <2>3. ~loop'.active /\ loop'.starting = loop.starting
    <3>1. CASE loop.external # None
      BY <1>7, <1>t, <3>1 DEF Suspended, LoopState
    <3>2. CASE loop.external = None
      <4>1. loop' = [NoRenderer(loop) EXCEPT !.active = FALSE]
        BY <1>7, <3>2 DEF Suspended
      <4>2. QED
        BY <2>2, <4>1 DEF LoopState
    <3>3. QED
      BY <3>1, <3>2
  <2>4. QED
    BY <1>t, <2>1, <2>3 DEF LoopSays, StartSaid, ControlsInv, LoopIdle
<1>8. QED
  BY <1>1, <1>2, <1>3, <1>4, <1>5, <1>6, <1>7 DEF LoopStep

\* Whenever the threads have caught up: the presentation is on the monitor, the
\* controls are on the phone exactly while there is one, and a stopped app has
\* left nothing on the monitor, whatever came in between of plugging, suspending
\* and failing frames.
THEOREM InStep == Spec => []PresentationInStep
<1>1. Init => StepInv
  BY DEF Init, StepInv, DismissInv, MonitorInv, ControlsInv, BehindInv, StartSaid,
         LoopIdle, UiState
<1>2. TypeOK /\ HandoverInv /\ StepInv /\ [Next]_vars => StepInv'
  <2>1. SUFFICES ASSUME TypeOK, HandoverInv, StepInv, [Next]_vars PROVE StepInv'
    OBVIOUS
  <2>2. CASE UNCHANGED vars
    BY <2>1, <2>2 DEF vars, StepInv, DismissInv, MonitorInv, ControlsInv, BehindInv,
       StartSaid, LoopIdle, Sent, StartFollows
  <2>3. CASE Plug \/ Unplug
    BY <2>1, <2>3, MonitorSteps
  <2>4. CASE SurfaceChanged \/ SurfaceLost \/ DestroyTimesOut \/ UiStep
    BY <2>1, <2>4, SurfaceSteps, DeliverSteps DEF UiStep
  <2>5. CASE LoopStep \/ DrawFrame \/ Resumed \/ Suspended
    BY <2>1, <2>5, LoopSaysIt, LoopSteps
  <2>6. QED
    BY <2>1, <2>2, <2>3, <2>4, <2>5 DEF Next
<1>3. StepInv => PresentationInStep
  <2>1. SUFFICES ASSUME StepInv PROVE PresentationInStep
    OBVIOUS
  <2>2. messages = <<>> => ~Sent("start") /\ ~Sent("update")
    BY DEF Sent
  <2>3. PresentationFollowsMonitor
    BY <2>1, <2>2 DEF StepInv, MonitorInv, PresentationFollowsMonitor, UiIdle
  <2>4. ControlsFollowPresentation
    BY <2>1, <2>2
       DEF StepInv, DismissInv, ControlsInv, ControlsFollowPresentation, StartSaid
  <2>5. NothingLeftBehind
    BY <2>1 DEF StepInv, BehindInv, NothingLeftBehind
  <2>6. QED
    BY <2>3, <2>4, <2>5 DEF PresentationInStep
<1>4. QED
  BY <1>1, <1>2, <1>3, TypeCorrect, HandoverInvariant, PTL DEF Spec

=============================================================================
