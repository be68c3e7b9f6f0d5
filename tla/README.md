# Local Desktop in TLA+

Local Desktop runs an Arch Linux desktop in a proot on an Android phone. The app
is a small Wayland compositor: the guest's clients connect to its socket, it
draws them to the phone's window or to an external monitor, and it turns touches
into pointer and keyboard events. Next to it run the installer of the guest, an
audio server with its AAudio sink, and a keyboard accessibility service.

Almost all of the app runs in callbacks of other people's loops (winit, Android's
UI thread, a choreographer, an audio callback) and in threads that talk to them
over a queue, a mutex or a socket. What is hard to get right there is order and
wake-ups, which unit tests do not reach. That is what is modelled here.

## Inventory

Paths are relative to `src/src/android/` (`wl/` stands for `backend/wayland/`,
`java/` for `java/io/github/localdesktop/`).

| Component | State | Operations | Talks to |
|---|---|---|---|
| Frame loop: `wl/event_handler.rs`, `wl/compositor.rs`, `wl/mod.rs`, `app/run.rs` | renderer, `render_pending`, `frame_pending`, `rendered_since_vsync`, the clients' surfaces | `dispatch_clients`, `on_vsync`, `idle`, `schedule_frame`, `render_frame`, `commit`, `resumed`, `suspended` | watcher and frame clock (user events), clients (socket) |
| Frame clock: `wl/frame_clock.rs` | `requested_at`, `deadline`, the callbacks Android holds | `request`, `ticked`, `on_frame` | choreographer (callback), event loop (`Vsync`) |
| Watcher: `wl/watcher.rs` | where its thread is, the rearm channel | `poll`, post `WaylandReady`, wait for `rearm` | event loop |
| External display: `external_display.rs`, `java/ExternalDisplay.java`, `wl/winit_backend.rs` | `Bridge` (surface, `in_use`), the `Presentation`, the controls, `ExternalTarget` | `surfaceChanged`, `surfaceDestroyed` (waits), `update`, `start`, `stop`, `background`, `apply_external_display` | UI thread and event loop over a mutex, a condvar and user events |
| Gestures: `wl/event_centralizer.rs`, `wl/event_handler.rs` | `touch_points`, `touch_mode`, `touch_down_*`, `pointer_pressed`, `external_buttons` | `centralize`, `centralize_trackpad`, `poll_long_press`, `on_external_pointer`, `reset_touch_state` | winit's touches, the bridge's pointer events, the guest's seat |
| Audio supervisor: `backend/pipewire_standalone_aaudio.rs` | `AAUDIO_CHILDREN`, `AAUDIO_START_IN_PROGRESS`, the monitor threads, the sockets | `spawn_after_ready`, `ensure_running`, monitors, `shutdown` | event loop, child processes, sockets |
| Audio sink: `../bin/localdesktop_pipewire_aaudio_sink.rs` | ring buffer with two indices, the stream | `write`, `read`, `clear`, the AAudio and PipeWire callbacks | real-time threads |
| Setup pipeline: `proot/setup.rs`, `proot/process.rs` | what is on disk, the list of stages | each stage, its already-done check | a thread per stage, the progress page |
| Progress server: `backend/webview.rs` | current progress, the active client | accept, greet, forward | setup threads, the pages of `setup-progress.html` |
| Session launch: `proot/launch.rs` | the launch guard | `launch` | `resumed`, guest process |
| Keyboard bridge: `accessibility.rs`, `java/KeyboardAccessibilityService.java` | `runtime_active`, the queue | `enqueue_key_event`, `inject_key`, activate, suspend, drain | Android's UI thread, event loop |
| Hardware buffers: `wl/hardware_buffer.rs` | buffer slots, fences, damage | import, release after the fence, merge damage | GPU, clients |
| Input and keymap, output state, configuration, dialogs, JNI helpers, build tools, vendored crates, web site, editor extension | none that outlives a call, or none of the app's | conversions, files, views | |

What is hard, and what makes each component right:

- **Frame loop.** Nothing polls, so one path that leaves work without a wake-up
  freezes the picture and every client that waits for its frame callback. Ticks
  that come twice, late or never, frames that fail inside a handler, hides
  between any two of them. Right: nothing undrawn or unanswered is forgotten,
  visible work has asked for a tick which is coming, one release per refresh, no
  release before the frame, the watcher neither spins nor sleeps through a request.
- **External display.** Two threads and a mutex that is free between the event
  loop's read, attach and announcement; a UI thread that waits at most a second.
  Right: what was given back is never drawn to, every surface is noticed, the
  presentation and the controls follow the monitor, nobody waits for ever.
- **Gestures.** Fingers, timeouts and interruptions in any order. Right: clicks
  are what the fingers did, and what the guest believes pressed can be released.
- **Audio supervisor.** Starting and stopping race on two threads; monitors do
  not know which generation they were spawned for. Right: every child has one
  thread that has its handle, what is published is watched, a dead child takes
  its generation down.
- **Setup and launch.** The app may be killed between any two writes. Right: a
  stage taken for done is done, whatever was interrupted; the desktop is reached
  prepared, and reached at all; one session at a time.
- **Progress page.** Two threads send to a page that may connect at any time.
  Right: it never announces the end early, and shows nothing after the last word.
- **Keyboard bridge.** A check under one lock and a push under the next, three
  ways for a key. Right: the guest has down what is down, no queue without a
  wake-up.
- **Audio sink, hardware buffers.** Sharing without a lock with a real-time thread
  and with the GPU. Right: nothing is overwritten while it is read, nothing is
  dropped, the cycle goes on.

`PROJECT.json` lists every one of these hazards at its line, with the properties
that cover it or the reason why none does.

## Modules

| Module | What |
|---|---|
| `FrameLoop` | frame loop, frame clock, watcher |
| `FramePacing` | the abstract compositor `FrameLoop` implements |
| `ExternalDisplay` | the surface handover and the presentation's life |
| `Gestures` | fingers and mouse to pointer buttons |
| `KeyBridge` | keys from Android's UI thread to the guest |
| `AudioSupervisor` | the audio backend's processes and the desktop session |
| `AudioRing` | the AAudio sink's ring buffer and its handshake |
| `Orchestrator` | the thread that runs the stages, abstractly; composed into the next two |
| `Setup` | the twelve stages and the disk; implements `Orchestrator` |
| `SetupProgress` | `Orchestrator` with the progress server and its pages |
| `*Proofs` | theorems about the module they are named after |
| `MC*` | values for the constants |

A definition whose comment starts with "Slip:" is not part of the model: it is a
wrong version of the definition after it (a lost reset, a dropped guard), kept to
show that the properties notice.

### FrameLoop

The event loop's handlers run one at a time and touch a lot of state, so that
state is one record `loop` and each function of the code (`Request`,
`ScheduleFrame`, `RenderFrame`, `OnVsync`, `Redraw`, ...) is a function on it; an
action is a handler, composed in the order of its calls. `queue` holds the user
events, `watcher` and `rearms` the watcher thread and its channel, `wire` what
the clients sent and nobody dispatched. Buffers and damage become the set
`unseen` of clients (and the pointer) whose newest content is not on screen, and
`owed` the clients whose frame callback is not released. `ok` says whether EGL and
GL took a frame; if not, the renderer is dropped in the middle of the handler, as
in `render_frame`. Time is three ages of a request (none, younger, older than
250 ms). `Refresh` is the display: it fires all posted callbacks.

Whether libandroid has an `AChoreographer` is chosen at the start
(`loop.choreographer`); without one `deadline` is the timer that stands for it.

`drawn` and `released` count since the last refresh and are history only. A frame
the operating system asks for (`Redraw`) is not counted.

Simplifications: one undispatched request per client; a cursor image changes only
through a client's request; popups, new clients and the protocol's other
requests are left out; input other than the pointer's moves does not touch this
state.

Bounds: `MaxTicks` limits how many callbacks re-posting may pile up and
`MaxCount` saturates the two counters one above what the properties allow (no
property of `frame_faults` reads them, so it is 1 there). Two clients are enough
for one to be answered while another is not; the runs with liveness use one, as
the handlers treat clients alike and the pointer is a second thing to draw.

`FramePacing` states the promise without wake-ups: content, owed callbacks, the
frame of this tick, and whether the app is in front. `frame_live` checks that
`FrameLoop` implements it, with its fairness: the ticks the abstract compositor
must take are taken. That is the loop's liveness, too: in `FramePacing` a tick
shows what is unseen and releases what is owed.

### ExternalDisplay

Three parts: Android (monitors plugged and unplugged), the UI thread and the
event loop. The UI thread runs messages from its queue; `surfaceDestroyed` waits
inside one (`ui.waiting`), and what follows a `dismiss()` is `ui.then`. The event
loop's `apply_external_display` is split where the bridge is unlocked:
`ReadSurface`, `AttachOrDetach`, `PublishInUse`, then the redraw. A surface is a window
with the number of the `surfaceChanged` that published it, since `Arc::ptr_eq`
tells two surfaces of one window apart. `fate` records how
`nativeSurfaceDestroyed` returned for a window: `unused` (nobody held it),
`released` (the event loop said so) or `expired` (the second ran out).

`RenderMayFail = FALSE` idealises: a destroyed window then still takes frames.
`display_race` uses that, so that what it shows does not need a failing
platform; `display_safe` allows every failure. `Suspended` happens only while the UI thread
runs nothing else, because Android's UI thread is the one that waits for it.
`changes` counts the `ExternalDisplayChanged` events under way. The bridge's
pointer events are in `Gestures`; the keyboard inset is left out.

Bounds: two monitors, so that one is swapped for another; two windows with two
surfaces each, so that a surface can be replaced in and across windows; two
resumes, so that one follows a suspend.

### Gestures

`seat` is the compositor's record of the gesture plus `guest`, the buttons the
clients have seen pressed; `marks` its two reference points. Fingers have places on
a line (one dimension of the screen, in units the slop is given in), and the
code's tests are computed from them as the code does: the centroid of the
`touch_points` against `scroll_centroid` (`MeansOff`, without dividing), a finger
against `touch_down_position` (`Off`). The long press timeout is an age.
`centralize` and its handler are one function per phase for the phone's screen
(`PhoneMoved`, ...) and one for the trackpad.

`hist` is what the fingers did, without regard to any of this: for each finger on
the screen where it was when the last one landed (`from`), whether one moved off
from there farther than the slop or moved once others were lifted (`restless`),
and whether all moved off one way (`moved`). So the code's tests can disagree with
it, and they do: a pinch whose centroid stays put clicks, with restless fingers.
`ClicksAreTaps` claims what lies on either side of that: fingers that made a tap
click, and fingers that moved off together do not. `hist.lost` names the buttons
that were held when whoever was to release them went, at the three events where
the code lets that happen (see `NoStuckButton`).

Android's `ACTION_CANCEL` reaches winit as a `Cancelled` for every pointer, hence
all fingers at once. After `Suspended` the fingers' further events are not told, as
the window is gone. A mouse on the phone's own window is left out: its buttons are
passed on as they come.

Who takes part is the record `scene`, one of five, chosen at the start: two fingers
with three places each, so that they stay, drift, pinch or move together; three
fingers, the most the code tells apart; two fingers while the desktop goes to a
monitor and back and the activity stops; two fingers while frames fail; one finger
and a mouse on the monitor under every interruption. The mouse's left button is the
drag's; two of its reports fit in the bridge, as a handler takes all of them at
once. Places are 0, 1 and 2 with a slop of 1: a step of 1 is within the slop, one of
2 is not, and the centroid of two can move by either. More fingers, places and
slops are the theorems'.

### KeyBridge

Android's UI thread handles one key event at a time, in up to two steps: `Push`
under the bridge's lock, `Send` without it. A key of a hardware keyboard goes to
the accessibility service, which asks for `runtime_active` under the lock it then
lets go of (`ServiceTakes`). If that does not take it (`PassedOn`), the window with
the focus gets it: the phone's, whose queue is winit's (`WindowGets`), or one of the
monitor's, which forwards it to the bridge unasked (`Forward`, by
`ExternalDisplay.dispatchKeyEvent`). The Android keyboard forwards its keys the same
way. The focus may move between any two events, so that a key goes down one way and
comes up the other, and the two keyboards may have keys in common. The event
loop drains the bridge for each wake-up and takes the window's events one by one.

`held` is what is down, `guest` what the guest believes to be down, `whole` which keys
the comparison is fair for: since their last press no deactivation came upon them,
they were not typed at a window without a renderer, and they never had events on
both ways at once. Nothing in the code orders the two ways, so in the last case the
later event may be delivered first. A key that changes its way with nothing
under way is compared.

The service is connected for the whole run or not at all. The service also hands
on repeats, unlike the other two ways. Left out: `key_counter`, which nothing
reads, and the drain under the setup page, which throws the keys away.
Control and Enter on the hardware keyboard, Enter on Android's; at most three
waiting in each queue.

### AudioSupervisor

A generation is the children of one start: PipeWire, the session manager, the
sink and PulseAudio's daemon. Threads: the main loop in `shutdown`, one starter at
a time, one monitor for each start that succeeded, one launcher for each session.
A thread that has a generation's handles (`holds`) is the only one that can stop
it. A step ends where a lock is let go of or something outside is waited for. A
child may exit at any time; the starter may fail at every child. `abandoned`
records the generations a start let go of at the `?` of line 249
(`write_pipewire_pulse_config`), whose children run on without an owner.
Two resumes; the bundle has PulseAudio and no session manager, which is spawned
without being waited for.

### AudioRing

One step is one access to what the three threads share: an atomic of `Sink` or a
slot of the ring. A frame is its number, and frame n belongs in slot
`n % ring_frames`, so that a wrong frame in a slot shows. Both callers of
`maybe_trigger_process` (the callback and the main loop) run it step by step.

`SharedSafely` and `NothingDropped` are claimed of rings of `Enough` frames,
`LowWater + (4 + undone) * MaxQuantum`: what may be there when a cycle is triggered,
the cycle, one more for each caller that finds the level low and claims late, the
first after a clear, and one for each clear since the last that took. A callback
held up in `Sink::read` while the stream is paused and started again loads its
index before the clear and stores it after: the clear is undone, and as the main
loop asks for a cycle after each, the next such clear finds one quantum more. The
history variable `undone` counts those in a row; it goes back to 0 with a clear that
finds no such callback (and no cycle under way). Without it both properties hold
for two starts and fail for three. It is 0 but for a callback that outlasts a
restart; with it at 0 a ring of one frame less does drop a frame (TLC, for a
trigger level of 0 and a quantum of 1).

The run has a ring of four quanta, one of five and a smaller one, where the writer
does drop the oldest frame: there too the difference never wraps and the stream
goes on. Eight frames before the last cycle are enough for the ring of four quanta
to wrap; other sizes, levels and numbers of starts are the theorems'. In the program the
ring has 5760 frames by default and the trigger level is half a quantum, 256 at the
least: that suffices for a quantum of 1024 frames (512 + 4096), not for one of 2048
(1024 + 8192). There the writer may catch up with the reader, and the comment on
`Sink` (lines 35-37, "the two threads only ever touch disjoint slots") need not hold.

A cycle that finds no buffer returns early and leaves `process_pending` set, so
that nothing is triggered any more (`starved`). Opening the streams and the end of
`run()` are left out.

### Setup, Orchestrator, SetupProgress

`Setup`'s `disk` outlives the process; every write that a kill may fall between
is a step, and `fs::write` is two (truncate, fill) where what the file held
matters. Errors are of two kinds. An `expect()` panics, on the stage's thread or the
calling one (`WorkFails`, `CallFails`). Three others the code logs or does not look
at, and the stage goes on (`Ignores`): `pci_devices` that cannot be written, and a
`pacman.conf` that cannot be read when the hold is to be lifted or to be put back.
The history variable `skipped` has the stages whose last call did that, and the
properties name them as their exceptions. `at` is the step the one thread at work is at. Three kills, three
failures of network or disk, two attempts at the packages and two versions of the
app: enough for a launch that repairs what two others left. `Orchestrator` is
what the progress server relies on: stages in order, a last word, a panic that
ends it all. `Setup` implements it (`Orchestrates`), `SetupProgress` extends it with
two stages, two pages and one message of a stage.

Left out: what the configuration files say, unsupported devices, the download of
the user manual, the link for GLX that `setup_guest_mesa` makes. pacman is assumed to be killed with the app.

## Runs

| Run | Shows |
|---|---|
| `frame_faults` | two clients, choreographer or timer, late and lost callbacks, a failing `poll`: `DamageRemembered`, `WorkRequestsTick`, `WatcherHandshake`, `SleepsSafely` and `ReleasedOnlyWhenShown` in any order of commits, frames, failed frames, hides and resumes |
| `frame_live` | a platform without faults: the pace (`PaceIsKept`: no wake-up lost, one release and at most two frames per refresh), in front every request dispatched, and the refinement of `FramePacing` with its fairness |
| `frame_background` | the monitor's desktop stands still while the app is in the background |
| `display_safe` | all safety properties of `ExternalDisplay` with failures and an expiring wait |
| `display_live` | in front, the UI thread's wait always ends through the event loop, and every surface is drawn to while there is a renderer |
| `display_race` | a surface is drawn to after it was destroyed |
| `gestures` | taps click and clicks are not moves (`ClicksAreTaps`, for a gesture not cut short), drags follow long presses, a gesture is over for the compositor when it is for the hand, no button is stuck but those lost at three named events, a still finger becomes a long press with no event to wake the loop |
| `keys` | the guest has down what is down once what is under way is counted, wherever the focus goes, no queue without a wake-up, at most one key after a deactivation |
| `ring` | in a ring of `Enough` frames nothing is dropped, read where it is written, or read before it is there; in a smaller one too the unsigned difference never wraps and a running stream is asked for cycle after cycle |
| `audio` | suspends, failures and deaths at every step of a start: no orphans, one owner and a watcher for what is published, a dead child takes its generation down, no session under another's display |
| `setup` | kills and failures between any two writes: done is done, the guest is whole before anything runs in it, the hold is lifted for pacman and back for the desktop unless `pacman.conf` could not be read, `Orchestrator` is implemented, and the desktop runs some day |
| `progress` | no early end, nothing after the last word, the page that stays active is told it |

Distinct states and times with two workers: `ring` 1.5 million in two to three
minutes, `keys` 979,096 and `setup` 483,595 in half a minute each, `gestures` 460,235
(4.7 million generated) in two minutes, the others below 300,000 in less than a
minute each.

The type invariants are proved; that of `Gestures` is in its run as well.

`CHECK_DEADLOCK FALSE` is set where nothing need be left to do: for `ExternalDisplay`
(its bounded monitors, windows and resumes are used up), `AudioSupervisor` (resumes),
`Setup` (kills and versions) and `SetupProgress` (the setup is over).

### What the failing runs show

1. `display_race`: a surface destroyed between the event loop's read of the bridge
   and `set_in_use(true)` is drawn to after `nativeSurfaceDestroyed` returned.
2. `frame_background`: winit ignores wake-ups from the activity's pause to its
   resume (`src/patches/winit/src/platform_impl/android/mod.rs:690`). In the
   background, with the desktop on a monitor, `WaylandReady` and every other user
   event waits until Android itself calls or an alarm set before rings.

### Disagreements without a run

Seen in the models; the properties above except them by name.

- `FrameLoop`: a lost vsync callback is posted again only when something else calls
  `request`, and `idle` sets no alarm for it (`frame_clock.rs:60` promises another).
  A refresh can get two frames, as the flag that paces them is cleared when the
  `Vsync` event is handled.
- `ExternalDisplay`: a monitor unplugged in the background takes the renderer with
  it, and the next one stays black until the app is resumed
  (`external_display.rs:198`: "whenever one is connected"). `render_frame` drops a
  failing renderer and leaves `in_use` set, so that the next
  `nativeSurfaceDestroyed` waits out its second; in the background it does so in
  any case, as the loop does not wake.
- `Gestures`: `suspended` and a failing frame forget a held left button, which stays down in the guest;
  a display change in the middle of a gesture ends it in a click
  (`wl/mod.rs:91`: "Callers holding a pressed button must release it first", "Forget
  the in-flight gesture"); a second finger after a long press, lifted one by one,
  arms it again and the two-finger tap is lost (`event_centralizer.rs:310`: "Could
  still be a two-finger tap"); fingers on the trackpad that move apart, their
  centroid staying put, click; a finger left behind by others is measured from where
  the first of them landed, not from "where it landed" (`event_centralizer.rs:393`),
  so that it may drag without having moved; the buttons of a mouse whose monitor
  went stay held until another mouse reports.
- `KeyBridge`: a key whose focus moves between two of its events may have the later
  one delivered first; a key held across a suspend or a failed frame stays pressed in the
  guest; the service's repeats are forwarded although apps repeat keys themselves
  (`TrackpadControls.java:597`).
- `AudioSupervisor`: suspended after a start's daemon made its socket and before
  the start publishes its children, `shutdown` removes that socket; the children
  published then are reused although nobody can connect to them
  (`pipewire_standalone_aaudio.rs:131`, `147`), and they run in the background.
- `Setup`: killed between truncating and filling `pacman.conf`, the guest has no
  repositories for good (the error then says "Please check your net connection and
  try restarting the app."); killed between removing and making the keyboard link,
  every later launch panics in `Compositor::build`; with a `pacman.conf` that cannot
  be read, pacman is run with the PipeWire packages held, or the desktop is reached
  without the hold, and the user is not told; a failure to write `pci_devices` goes
  unnoticed, and Firefox then loses hardware rendering; killed after `.version`, the
  simulated `/proc` files after it are never written; killed between rename and
  cleanup, the archive stays; a create-if-missing file torn by a kill stays torn.
- `SetupProgress`: a panic on the orchestrating thread ends the setup silently; a
  page that connects between the last message and becoming active hears nothing
  of it (after a failure it says "Connected to installer"); the progress may go
  back once, right after the greeting.

## Fairness

Only what the code or the platform drives is fair.

- `FrameLoop`: the watcher's thread runs, `poll` returns when there is something to
  read, the display refreshes if a callback is posted, time passes, the loop goes
  idle and wakes at its alarm. Clients, input and the activity are free. User events are
  handled while the activity is resumed or the loop is awake: winit ignores its
  wake-ups otherwise. That is strong fairness, as an activity that comes and goes
  makes it possible again and again, and an iteration of the loop takes every user
  event before it goes idle.
- `ExternalDisplay`: both threads keep running, each as one weakly fair
  disjunction, as a thread takes its steps in turn; the loop takes up an
  `ExternalDisplayChanged` only while resumed. Monitors, surfaces and the activity
  are Android's, and the second of the wait may never pass.
- `Gestures`: the loop goes idle after a handler, time passes, the alarm wakes it.
- `AudioSupervisor`: the main loop ends a shutdown, the starter goes on (its waits
  are bounded), a monitor polls every second. Children owe nothing.
- `AudioRing`: the data thread takes a triggered cycle and ends it, the callback
  keeps coming while the stream runs, the main loop ends a handler.
- `Setup`: a step is done, or fails, the app is launched again once it is gone and
  the user leaves an installer that has ended. Kills and failures are bounded.
- `SetupProgress`: the orchestrator, the two threads of the server, and the pages
  run. Stages are not obliged to say anything.

## Proofs

The proofs hold for any set of clients, keys, fingers or files, any faults (but for
the two theorems that name them) and any bounds, where TLC covers the instances above. Every property of a passing run that
is not a liveness property is stated by a theorem.

`FrameLoopProofs`:

- `TypeCorrect`: `Spec => []TypeOK`. One lemma per function on the `loop` record,
  one step per action.
- `DamageNeverForgotten` and `WorkAlwaysRequestsTick` rest on the inductive
  invariant `FrameInv == TypeOK /\ Remembers(loop) /\ Asks(loop)`, the two
  properties stated of any `loop` record. They are proved together, since
  `schedule_frame` is what restores `WorkRequestsTick` and each handler ends in
  it: the lemma `ScheduleFrameAsks` says that whatever record it is given, with
  damage remembered, it returns one with both; the lemmas on the other functions
  say that they keep `DamageRemembered` on the way there.
- `ReleaseFollowsFrame`: an action property, from the same invariant. Only
  `on_vsync` releases, and it has drawn by then: if nothing was pending, by
  `DamageRemembered`, nothing was unseen.
- `HandshakeHolds`: the watcher and the loop pass one token to and fro, as a state of
  the watcher, an event in the queue or a rearm; `Token` says where it may be, and
  that it is in one place.
- `SleepIsSafe`: inductive as it stands, since every handler but `Idle` leaves the loop
  awake, and `Idle` sets the alarm and flushes before it sleeps.
- `NoWakeupLost`, under `"lost" \notin Faults`: with a request to the clock standing
  there is a callback, a queued tick or a deadline to answer it (`Wakes`). The
  hypothesis is needed: after a lost callback it takes the 250 ms and a new request.
- `PaceHolds`, under `Faults \cap {"late", "lost"} = {}`: at most one tick is under way
  (`OneTick`), and the frames a refresh has had together with those it may still have,
  one between two ticks and one with a tick under way, are two at most (`Room`). Both
  hypotheses are needed, since TLC breaks `PaceIsKept` with either fault alone: a lost
  callback leaves a request unanswered until the 250 ms are over, and one that is late
  comes as well as the one asked for in its place.
- `PacingImplemented`: the refinement, for any faults. Each handler maps to a step of
  `FramePacing` or a stutter; the fairness of `FramePacing` is TLC's (`PacingFair`).

`ExternalDisplayProofs`:

- `TypeCorrect`, as above.
- `ReleasedIsForGood`, `HeldAlwaysInUse` and `NoChangeMissed` follow from the
  inductive `HandoverInv == HeldInv /\ FollowInv /\ ReleaseInv`. The properties
  speak of the times between two handlers; `HeldInv` and `FollowInv` extend them to
  the steps inside `apply_external_display`: only between attaching and telling
  may `in_use` be behind, and what was read still is what the bridge holds unless a
  change is under way. `ReleaseInv` is the argument for the wait: while the UI
  thread waits the bridge is empty, so whatever the loop reads now is nothing; a
  surface it read before makes it set `in_use` again; hence once `in_use` is taken
  back the loop holds nothing and is about to attach nothing. Windows are new each
  time (`ui.created`), so one given back cannot return. The proof needs nothing
  about EGL or the length of the wait. It does not cover a surface that was not in
  use when it was destroyed, and could not: that is `display_race`.
- `InStep`: the property speaks of a UI thread that has caught up, so the invariant
  must say what its queue still holds. `StepInv` adds, for each of the three things
  in step, the message that will mend it: a monitor that is not the one shown has
  an `update` under way (`MonitorInv`), missing controls a `start` (`ControlsInv`), and
  behind the last `background` there is the `start` of a resume (`StartFollows`);
  `DismissInv` says what a dismissal that is under way has left.

`AudioRingProofs`:

- `Typing`, and `Underflow`, that the unsigned `write - read` never wraps, from
  `IInv`: the type, `IndicesInOrder` (every copy of the read index a thread has made is
  no more than the written one it is compared with), and `FramesLeft` (a thread that
  loops over frames has one left).
- `RoomKept` and `Shared`, from `IInv /\ LevelInv`. `Due` is how far the writer will have
  come once every cycle that is ordered has run: the frames in hand, and a
  quantum for each order that stands, whether triggered, about to be, or decided by
  a thread that found the level low. `RoomInv` says that every read index that is, or
  can still become, the reader's leaves room for `Due`; the hard case is a callback
  that looked at a newer index than the one a start's `clear` then stores back, and
  `SeenInv` bounds how far back that can be. `CycleInv` counts the cycles that
  `process_pending` does not know of. A first version of the bound, without `undone`,
  is not inductive, and is false: TLC drops a frame after three starts
  that each undo a read. With room for what is due, the slots of what the callback
  copies and of what the graph writes are apart, and hold the frames they are
  taken for (`ContentInv`).

`AudioSupervisorProofs`:

- `Typing`, and `Orphans`: whoever lets go of a generation's handles has stopped
  it, or hands them on in the same step.
- `OneHand`, from `HandInv == Alone /\ Begun /\ ChildrenWatched`: the published handles,
  the main loop's, the starter's and the monitors' are of different generations,
  and of generations that have begun, so that a new one is nobody's.
- `DisplayKept`, from `SessionInv`: the guard lets one launcher through, and the one
  with a session owns the lock file.

`SetupProofs`: one inductive `IInv` whose parts say, for each file, at which steps it
may be in which state, and for each error that was ignored, from which step on it
may still be so (`skipped`). From it `Typing`, `Doneness`, `Readiness`, `Unheld`,
`Preparation`, and `Orchestration`, the refinement: every step of a stage, a kill
or a panic is a step of `Orchestrator` or a stutter.

`SetupProgressProofs`: `Typing`; `Alerts`, since a progress of 100 is read only when
the last stage is over (`FullIsDone`); `LastWord`, since what is under way to a page
after the last word was greeted before it (`Unheard`, with the messages in order
behind it in `LastInv`).

`KeyBridgeProofs`:

- `Announcement` and `LateKeys` from `BridgeInv`, the two properties with the types
  of the bridge. Each is inductive with those: a key is queued one step before the
  same thread posts its event, and after a deactivation the service's check is not
  passed again.
- `KeysAgree`: `GuestAgrees` delivers all that is under way with a `FoldLeft`, so the
  proof first says what that comes to for one key: what the latest event in the
  queue says of it, or what the guest believes now if there is none. That is
  proved for queues of any length, by induction in the form of a shortest
  counterexample (`NatLessThanWellFounded`; the library's induction theorems take
  an operator as a parameter and cannot be used). `AgreeInv` adds `Apart`: a
  key that is still `whole` has its events on one way at most, and in the window's
  queue only with a renderer there to take them. Nothing is assumed of which
  keyboard has which keys.
- `Typing`: the bounds of the model never cut a handler short; there is room left in
  each queue for what a thread is about to put there (`RoomLeft`).

`GesturesProofs`: `TypeCorrect`, `TapsOnly`, `NothingStuck`, `GesturesEnd` and the action
property `DragsOnly`, from one inductive `GestureInv`. The five functions that handle a
touch come to three things that can happen to the `seat` (a finger lands, moves or
leaves), and the reports to the guest fold over a list, so each function has a lemma
that says which buttons it leaves down. `RestInv` is about a seat
without fingers, `WholeInv` says what the compositor knows of a gesture that nothing
came upon, `SeenInv` that its reference points are where its fingers were when the
last one landed, and `TapInv` what such a gesture's mode says of where each finger
went since: that is the step between the code's arithmetic and the fingers' own
paths. Fingers that all moved off one way farther than the slop have moved their
centroid by more than that (`Far`), and fingers that each stayed within it have not
(`Near`). Both are inequalities between sums over a set of any size, proved by
induction on it in the form of a smallest counterexample, as for `KeysAgree`.
`NothingStuck` is inductive with `LostInv`: what a mouse that is heard no more reported
last, before its monitor went, already is in `hist.lost` when it is handled.

Assumptions: those the modules name on their constants, checked by TLC on every run,
and the two on `Faults` that `NoWakeupLost` and `PaceHolds` state.

Only model-checked: what holds under fairness, `RequestsDispatched`, `PacingFair`,
`WaitEnds`, `SurfaceServed`, `LongPressArms`, `DriveGoesOn`, `DeadNoticed`, `DesktopRuns` and
`ActivePageLearns`, since the prover handles neither `ENABLED` nor fairness; and that
`AudioRing`'s ring of the app's real size is one of those `RoomKept` speaks of, which
depends on how many starts undo a read before a cycle runs.

## Not modelled

Without a module: hardware buffers (each step is a call into EGL or Vulkan, and the
GPU's fences decide when a buffer is free), input conversions and the key table,
the output state file, configuration, dialogs, JNI glue. They are straight-line
or keep no state of their own.

Not part of the running app, and most of the repository's lines: the build tools,
the vendored crates (smithay, winit, xbuild; what the app relies on is in the
modules as their environment, and winit's sleeping in `FrameLoop` and
`ExternalDisplay`), the editor extension, and the web site with its game.

## Plan

Modelled first is what every user meets on every frame and touch, then what
survives a kill, then the rest of the threads. The list of runs is kept short: one
or two per module, and one for each disagreement worth keeping.

Done: all modules above, and a theorem for every property of theirs that needs no
fairness. Left:

1. That the step-wise `TargetFollowsBridge` and `HeldIsInUse` of `ExternalDisplay` come from
   a specification of the handover alone, as `FramePacing` is for `FrameLoop`, and its
   refinement; the same for the keys (`KeyBridge` as one queue that a deactivation
   empties).
2. The slots of `hardware_buffer.rs` with an assumed fence, and its
   `merge_overlapping` as an operator checked against the union of its rectangles.
3. The programs beside the app: the lockstep room of the site's game and the
   doorbell of the extension's chat.
