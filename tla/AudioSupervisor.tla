--------------------------- MODULE AudioSupervisor ---------------------------
(***************************************************************************)
(* The processes the app runs beside its compositor: the audio backend of  *)
(* pipewire_standalone_aaudio.rs (PipeWire, its session manager, the       *)
(* AAudio sink and the PulseAudio server) and the desktop session of       *)
(* proot/launch.rs.  Both are started whenever the activity resumes; the   *)
(* backend is stopped when it is suspended, unless the screen is a         *)
(* trackpad for a monitor.                                                 *)
(*                                                                         *)
(* Threads: the main loop (resumed, suspended, shutdown), one starter at a *)
(* time (ensure_running), one monitor for every start that succeeded, and  *)
(* one launcher for every session.  A generation is the children of one    *)
(* start; whoever has their handles is the only one to stop them, so that  *)
(* stop_children is one step.                                              *)
(***************************************************************************)
EXTENDS Integers

CONSTANTS
  Bundled,     \* which optional helpers the APK has
  MaxResumes   \* bound: times the activity is resumed

ASSUME ConstantsType ==
  /\ Bundled \subseteq {"wireplumber", "pulse"}
  /\ MaxResumes \in Nat

Generation == 1 .. MaxResumes
None == 0

\* The order children are started in.
Order == <<"pipewire", "wireplumber", "sink", "pulse">>
Role == {"pipewire", "wireplumber", "sink", "pulse"}
Socket == {"pipewire", "pulse"}

VARIABLES
  front,         \* the activity is resumed
  resumes,
  main,          \* the main loop in shutdown(): where, and whose handles it has
  children,      \* AAUDIO_CHILDREN: a generation or None
  start_in_progress,   \* AAUDIO_START_IN_PROGRESS
  starter,       \* ensure_running: where, at which child, of which generation
  starts,
  monitor,       \* of each generation: where, and whose handles it has
  process,       \* of each generation and role
  socket,        \* which generation's daemon made the socket file
  abandoned,     \* history: generations a failed start let go of
  launch_running,   \* LAUNCH_RUNNING
  launcher,      \* of each resume: where launch()'s thread is
  x_lock         \* which launch's X server made display :1's files

mainVars == <<front, resumes, main>>
launchVars == <<launch_running, launcher, x_lock>>
startVars == <<start_in_progress, starter, starts, abandoned>>
vars == <<mainVars, launchVars, startVars, children, monitor, process, socket>>

Stoppers == [pc : {"none", "watch", "stop", "clean", "ended"},
             holds : Generation \cup {None}]
Starters == [pc : {"none", "check", "stop", "clean", "prepare", "spawn", "wait",
                   "undo", "publish", "watch", "ready", "failed"},
             at : 1 .. 5, holds : Generation \cup {None}]

TypeOK ==
  /\ front \in BOOLEAN /\ resumes \in 0 .. MaxResumes
  /\ main \in Stoppers
  /\ children \in Generation \cup {None}
  /\ start_in_progress \in BOOLEAN
  /\ starter \in Starters /\ starts \in 0 .. MaxResumes
  /\ monitor \in [Generation -> Stoppers]
  /\ process \in [Generation -> [Role -> {"none", "running", "listening", "gone"}]]
  /\ socket \in [Socket -> Generation \cup {None}]
  /\ abandoned \subseteq Generation
  /\ launch_running \in BOOLEAN
  /\ launcher \in [Generation -> {"none", "clean", "start", "session", "ended"}]
  /\ x_lock \in Generation \cup {None}

Idle == [pc |-> "none", holds |-> None]
NoStarter == [pc |-> "none", at |-> 1, holds |-> None]

Init ==
  /\ front = FALSE /\ resumes = 0 /\ main = Idle
  /\ children = None
  /\ start_in_progress = FALSE /\ starter = NoStarter /\ starts = 0
  /\ monitor = [g \in Generation |-> Idle]
  /\ process = [g \in Generation |-> [r \in Role |-> "none"]]
  /\ socket = [s \in Socket |-> None]
  /\ abandoned = {}
  /\ launch_running = FALSE /\ x_lock = None
  /\ launcher = [g \in Generation |-> "none"]

Live(g) == {r \in Role : process[g][r] \in {"running", "listening"}}
\* poll_child_exit finds one
SomeGone(g) == \E r \in Role : process[g][r] = "gone"

\* stop_children and the undoing of a failed start: kill and wait for each.
Stopped(g) == [process EXCEPT ![g] = [r \in Role |->
                 IF process[g][r] = "none" THEN "none" ELSE "gone"]]
\* cleanup_socket, whoever's they are
CleanSockets == [s \in Socket |-> None]

-----------------------------------------------------------------------------
(* The main loop: resumed and suspended of run.rs                           *)

\* Slip: no guard, every resume starts a session.
LaunchAlways ==
  /\ launch_running' = TRUE
  /\ launcher' = [launcher EXCEPT ![resumes + 1] = "clean"]

\* launch()
Launch ==
  /\ launch_running' = TRUE
  /\ launcher' = IF launch_running THEN launcher
                 ELSE [launcher EXCEPT ![resumes + 1] = "clean"]

\* spawn_after_ready()
SpawnAfterReady ==
  /\ start_in_progress' = TRUE
  /\ starter' = IF start_in_progress THEN starter ELSE [NoStarter EXCEPT !.pc = "check"]

Resumed ==
  /\ ~front /\ main.pc = "none" /\ resumes < MaxResumes
  /\ front' = TRUE /\ resumes' = resumes + 1
  /\ Launch
  /\ SpawnAfterReady
  /\ UNCHANGED <<main, children, starts, abandoned, monitor, process, socket, x_lock>>

\* suspended, as a trackpad: everything goes on.
SuspendedAsTrackpad ==
  /\ front /\ front' = FALSE
  /\ UNCHANGED <<resumes, main, children, startVars, monitor, process, socket, launchVars>>

\* suspended: shutdown() takes the children,
Suspended ==
  /\ front /\ front' = FALSE
  /\ main' = [pc |-> IF children = None THEN "clean" ELSE "stop", holds |-> children]
  /\ children' = None
  /\ UNCHANGED <<resumes, startVars, monitor, process, socket, launchVars>>

\* stops them,
MainStops ==
  /\ main.pc = "stop"
  /\ process' = Stopped(main.holds)
  /\ main' = [pc |-> "clean", holds |-> None]
  /\ UNCHANGED <<front, resumes, children, startVars, monitor, socket, launchVars>>

\* and removes the sockets.
MainCleans ==
  /\ main.pc = "clean"
  /\ socket' = CleanSockets
  /\ main' = Idle
  /\ UNCHANGED <<front, resumes, children, startVars, monitor, process, launchVars>>

-----------------------------------------------------------------------------
(* The starter: ensure_running                                              *)

Goes(pc) == starter' = [starter EXCEPT !.pc = pc]

\* Slip: the stale children are not taken out of AAUDIO_CHILDREN.
StarterBorrows ==
  /\ starter.pc = "check"
  /\ \/ children = None /\ Goes("prepare")
     \/ children # None /\ ~SomeGone(children) /\ Goes("ready")
     \/ /\ children # None /\ SomeGone(children)
        /\ starter' = [starter EXCEPT !.pc = "stop", !.holds = children]
  /\ UNCHANGED <<mainVars, launchVars, start_in_progress, starts, abandoned,
                 children, monitor, process, socket>>

\* Under the lock: reuse running children, or take them if one is gone.
StarterChecks ==
  /\ starter.pc = "check"
  /\ \/ children = None /\ Goes("prepare") /\ UNCHANGED children
     \/ children # None /\ ~SomeGone(children) /\ Goes("ready") /\ UNCHANGED children
     \/ /\ children # None /\ SomeGone(children)
        /\ starter' = [starter EXCEPT !.pc = "stop", !.holds = children]
        /\ children' = None
  /\ UNCHANGED <<mainVars, launchVars, start_in_progress, starts, abandoned,
                 monitor, process, socket>>

StarterStopsStale ==
  /\ starter.pc = "stop"
  /\ process' = Stopped(starter.holds)
  /\ starter' = [starter EXCEPT !.pc = "clean", !.holds = None]
  /\ UNCHANGED <<mainVars, launchVars, start_in_progress, starts, abandoned,
                 children, monitor, socket>>

StarterCleansStale ==
  /\ starter.pc = "clean"
  /\ socket' = CleanSockets
  /\ Goes("prepare")
  /\ UNCHANGED <<mainVars, launchVars, start_in_progress, starts, abandoned,
                 children, monitor, process>>

\* Directories, plugins and the first configuration, with a cleanup in between.
StarterPrepares ==
  /\ starter.pc = "prepare"
  /\ starts' = starts + 1
  /\ socket' = CleanSockets
  /\ starter' = [pc |-> "spawn", at |-> 1, holds |-> starts']
  /\ UNCHANGED <<mainVars, launchVars, start_in_progress, abandoned,
                 children, monitor, process>>

\* One of these fails, or the device is too old: nothing was started.
StarterGivesUp ==
  /\ starter.pc = "prepare"
  /\ \/ UNCHANGED socket
     \/ socket' = CleanSockets
  /\ Goes("failed")
  /\ UNCHANGED <<mainVars, launchVars, start_in_progress, starts, abandoned,
                 children, monitor, process>>

Required(role) == role \in {"pipewire", "sink"} \cup Bundled
\* after the child at: the next one, or all of them are there
Onwards == starter' = [starter EXCEPT !.at = @ + 1,
                                      !.pc = IF starter.at = 4 THEN "publish" ELSE "spawn"]

StarterSkips ==
  /\ starter.pc = "spawn" /\ ~Required(Order[starter.at])
  /\ Onwards
  /\ UNCHANGED <<mainVars, launchVars, start_in_progress, starts, abandoned,
                 children, monitor, process, socket>>

\* The session manager is not waited for.
StarterSpawns ==
  /\ starter.pc = "spawn" /\ Required(Order[starter.at])
  /\ process' = [process EXCEPT ![starter.holds][Order[starter.at]] = "running"]
  /\ IF Order[starter.at] = "wireplumber" THEN Onwards ELSE Goes("wait")
  /\ UNCHANGED <<mainVars, launchVars, start_in_progress, starts, abandoned,
                 children, monitor, socket>>

StarterSpawnFails ==
  /\ starter.pc = "spawn" /\ Required(Order[starter.at])
  /\ Goes("undo")
  /\ UNCHANGED <<mainVars, launchVars, start_in_progress, starts, abandoned,
                 children, monitor, process, socket>>

\* write_pipewire_pulse_config fails: the `?` returns at once, and the handles
\* of the three children are dropped, which stops nothing.
StarterDropsChildren ==
  /\ starter.pc = "spawn" /\ Order[starter.at] = "pulse" /\ Required("pulse")
  /\ abandoned' = abandoned \cup {starter.holds}
  /\ starter' = [starter EXCEPT !.pc = "failed", !.holds = None]
  /\ UNCHANGED <<mainVars, launchVars, start_in_progress, starts,
                 children, monitor, process, socket>>

Connectable(s) == socket[s] # None /\ process[socket[s]][s] = "listening"

\* wait_for_socket connects, whoever answers; verify_child_still_running.
StarterSeesReady ==
  /\ starter.pc = "wait"
  /\ LET r == Order[starter.at] IN
       IF r \in Socket THEN Connectable(r) ELSE process[starter.holds][r] # "gone"
  /\ Onwards
  /\ UNCHANGED <<mainVars, launchVars, start_in_progress, starts, abandoned,
                 children, monitor, process, socket>>

\* The child exited, or 80 attempts went by.
StarterSeesFailure ==
  /\ starter.pc = "wait"
  /\ LET r == Order[starter.at] IN
       IF r \in Socket THEN ~Connectable(r) ELSE process[starter.holds][r] = "gone"
  /\ Goes("undo")
  /\ UNCHANGED <<mainVars, launchVars, start_in_progress, starts, abandoned,
                 children, monitor, process, socket>>

StarterUndoes ==
  /\ starter.pc = "undo"
  /\ process' = Stopped(starter.holds)
  /\ starter' = [starter EXCEPT !.pc = "failed", !.holds = None]
  /\ UNCHANGED <<mainVars, launchVars, start_in_progress, starts, abandoned,
                 children, monitor, socket>>

StarterPublishes ==
  /\ starter.pc = "publish"
  /\ children' = starter.holds
  /\ Goes("watch")
  /\ UNCHANGED <<mainVars, launchVars, start_in_progress, starts, abandoned,
                 monitor, process, socket>>

\* spawn_child_monitor
StarterSpawnsMonitor ==
  /\ starter.pc = "watch"
  /\ monitor' = [monitor EXCEPT ![starter.holds].pc = "watch"]
  /\ starter' = [starter EXCEPT !.pc = "ready", !.holds = None]
  /\ UNCHANGED <<mainVars, launchVars, start_in_progress, starts, abandoned,
                 children, process, socket>>

StarterEnds ==
  /\ starter.pc \in {"ready", "failed"}
  /\ start_in_progress' = FALSE
  /\ starter' = NoStarter
  /\ UNCHANGED <<mainVars, launchVars, starts, abandoned, children, monitor, process, socket>>

-----------------------------------------------------------------------------
(* A monitor: spawn_child_monitor's thread, every second                    *)

\* It watches whatever children are there, its own or a later generation's.
MonitorPolls(m) ==
  /\ monitor[m].pc = "watch"
  /\ \/ /\ children = None
        /\ monitor' = [monitor EXCEPT ![m].pc = "ended"]
        /\ UNCHANGED children
     \/ /\ children # None /\ SomeGone(children)
        /\ monitor' = [monitor EXCEPT ![m] = [pc |-> "stop", holds |-> children]]
        /\ children' = None
  /\ UNCHANGED <<mainVars, launchVars, startVars, process, socket>>

\* Slip: the monitor drops the handles of children it has not stopped.
MonitorDrops(m) ==
  /\ monitor[m].pc = "stop"
  /\ monitor' = [monitor EXCEPT ![m] = [pc |-> "clean", holds |-> None]]
  /\ UNCHANGED <<mainVars, launchVars, startVars, children, process, socket>>

MonitorStops(m) ==
  /\ monitor[m].pc = "stop"
  /\ process' = Stopped(monitor[m].holds)
  /\ monitor' = [monitor EXCEPT ![m] = [pc |-> "clean", holds |-> None]]
  /\ UNCHANGED <<mainVars, launchVars, startVars, children, socket>>

MonitorCleans(m) ==
  /\ monitor[m].pc = "clean"
  /\ socket' = CleanSockets
  /\ monitor' = [monitor EXCEPT ![m].pc = "ended"]
  /\ UNCHANGED <<mainVars, launchVars, startVars, children, process>>

-----------------------------------------------------------------------------
(* The children                                                             *)

\* A daemon makes its socket, in place of one left over.
DaemonListens(g, s) ==
  /\ process[g][s] = "running"
  /\ process' = [process EXCEPT ![g][s] = "listening"]
  /\ socket' = [socket EXCEPT ![s] = g]
  /\ UNCHANGED <<mainVars, launchVars, startVars, children, monitor>>

\* A child crashes; its socket stays.
ChildExits(g, r) ==
  /\ r \in Live(g)
  /\ process' = [process EXCEPT ![g][r] = "gone"]
  /\ UNCHANGED <<mainVars, launchVars, startVars, children, monitor, socket>>

-----------------------------------------------------------------------------
(* A launcher: launch()'s thread                                            *)

\* Two commands that remove what an X server on display :1 left.
LauncherCleans(l) ==
  /\ launcher[l] = "clean"
  /\ x_lock' = None
  /\ launcher' = [launcher EXCEPT ![l] = "start"]
  /\ UNCHANGED <<mainVars, startVars, children, monitor, process, socket, launch_running>>

SessionStarts(l) ==
  /\ launcher[l] = "start"
  /\ x_lock' = l
  /\ launcher' = [launcher EXCEPT ![l] = "session"]
  /\ UNCHANGED <<mainVars, startVars, children, monitor, process, socket, launch_running>>

\* The session's command ends, its X server having removed its files or not;
\* the guard is dropped.
SessionEnds(l) ==
  /\ launcher[l] = "session"
  /\ \/ x_lock' = None
     \/ UNCHANGED x_lock
  /\ launcher' = [launcher EXCEPT ![l] = "ended"]
  /\ launch_running' = FALSE
  /\ UNCHANGED <<mainVars, startVars, children, monitor, process, socket>>

-----------------------------------------------------------------------------
StarterSteps ==
  \/ StarterChecks \/ StarterStopsStale \/ StarterCleansStale
  \/ StarterPrepares \/ StarterGivesUp
  \/ StarterSkips \/ StarterSpawns \/ StarterSpawnFails \/ StarterDropsChildren
  \/ StarterSeesReady \/ StarterSeesFailure
  \/ StarterUndoes \/ StarterPublishes \/ StarterSpawnsMonitor \/ StarterEnds

MonitorSteps(m) == MonitorPolls(m) \/ MonitorStops(m) \/ MonitorCleans(m)

Next ==
  \/ Resumed \/ SuspendedAsTrackpad \/ Suspended \/ MainStops \/ MainCleans
  \/ StarterSteps
  \/ \E g \in Generation :
       \/ MonitorSteps(g)
       \/ \E s \in Socket : DaemonListens(g, s)
       \/ \E r \in Role : ChildExits(g, r)
       \/ LauncherCleans(g) \/ SessionStarts(g) \/ SessionEnds(g)

\* Threads get to run: the main loop ends a shutdown, the starter's waits are
\* bounded, a monitor polls every second.
Fairness ==
  /\ WF_vars(MainStops \/ MainCleans)
  /\ WF_vars(StarterSteps)
  /\ \A m \in Generation : WF_vars(MonitorSteps(m))

Spec == Init /\ [][Next]_vars
FairSpec == Spec /\ Fairness

-----------------------------------------------------------------------------
(* Properties *)

\* Who has the handles of the generation's children.
Owners(g) ==
  (IF children = g THEN {<<"children">>} ELSE {})
    \cup (IF main.holds = g THEN {<<"main">>} ELSE {})
    \cup (IF starter.holds = g /\ starter.pc # "watch" THEN {<<"starter">>} ELSE {})
    \cup {<<"monitor", m>> : m \in {n \in Generation : monitor[n].holds = g}}

\* No process runs on without anybody who could stop it, but those a start
\* dropped as it failed to write PulseAudio's configuration.
NoOrphans == \A g \in Generation \ abandoned : Live(g) # {} => Owners(g) # {}

\* No two threads have the same children to stop.
OneOwner == \A g \in Generation : \A o, p \in Owners(g) : o = p

\* Published children are watched: by a monitor, or one is about to be spawned.
ChildrenWatched ==
  children # None =>
    starter.pc = "watch" \/ \E m \in Generation : monitor[m].pc = "watch"

\* Children are always looked after, and by one thread: whoever of the main
\* loop, the starter and the monitors took them has taken them alone, and those
\* nobody took are watched, if need be by the monitor of another generation.
InOneHand == OneOwner /\ ChildrenWatched

\* An X server's files are not removed while its session runs.
SessionKeepsDisplay ==
  \A l \in Generation : launcher[l] = "session" => x_lock = l

\* A dead child among those published takes its generation down.
DeadNoticed ==
  \A g \in Generation :
    (children = g /\ SomeGone(g)) ~> (Live(g) = {})

=============================================================================
