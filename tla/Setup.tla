------------------------------- MODULE Setup -------------------------------
(***************************************************************************)
(* The setup pipeline: twelve stages that turn an empty data directory     *)
(* into a desktop (src/src/android/proot/setup.rs).  Every launch of the   *)
(* app calls them in order.  A stage whose task is done returns None;      *)
(* one with heavy work returns the handle of a thread, and the stages      *)
(* after the first such one are called by an orchestrating thread, while   *)
(* the main thread goes on to show the progress page.  As a stage is only  *)
(* called once the one before is over, one thread is at work at a time.    *)
(*                                                                         *)
(* The disk outlives the process, and Android may kill the process between *)
(* any two writes.  A file that fs::write truncates and then fills takes   *)
(* two steps where what it held matters.                                   *)
(***************************************************************************)
EXTENDS Integers, Sequences

CONSTANTS
    MaxAttempts,    \* how often one launch tries to install the packages
    Kgsl,           \* whether the device has the GPU the Mesa build is for
    MaxKills,       \* bound: how often Android kills the app
    MaxFaults,      \* bound: how many network, disk and process errors happen
    MaxVersion      \* bound: how many versions of the app are installed

ASSUME SetupAssumption ==
    /\ MaxAttempts \in Nat \ {0}
    /\ Kgsl \in BOOLEAN
    /\ MaxKills \in Nat
    /\ MaxFaults \in Nat
    /\ MaxVersion \in Nat \ {0}

VARIABLES
    disk,           \* what is on the disk, see Disk
    \* the process
    at,             \* the step it is at
    turn,           \* the file or the attempt a stage's loop is at
    content,        \* had the pacman.conf that was read its repositories
    orch, stage, progress,      \* see Orchestrator
    skipped,        \* history: stages whose last call went on after an error
                    \* that it only logged, or did not look at
    \* bounds
    kills, faults

process == <<at, turn, content, orch, stage, progress>>
vars == <<disk, process, skipped, kills, faults>>

\* Slips that the runs must notice: the packages before the /proc files, and
\* the hold before the packages that lift it.
DepsFirst == <<"arch_fs", "deps", "sysdata", "machine_id", "pipewire_lock",
               "firefox", "bwrap", "chromium", "onboard", "mesa", "xfce",
               "xkb">>
HoldFirst == <<"arch_fs", "sysdata", "pipewire_lock", "deps", "machine_id",
               "firefox", "bwrap", "chromium", "onboard", "mesa", "xfce",
               "xkb">>

StageOrder == <<"arch_fs", "sysdata", "deps", "machine_id", "pipewire_lock",
                "firefox", "bwrap", "chromium", "onboard", "mesa", "xfce",
                "xkb">>

NStages == Len(StageOrder)

\* Stages that rewrite their files on every launch, on the calling thread.
Configs == {"firefox", "bwrap", "chromium", "onboard", "xfce"}

\* The simulated /proc files, in the order they are written.
SysFiles == <<"loadavg", "stat", "uptime", "version", "vmstat", "cap_last_cap",
              "max_user_watches", "pci_devices">>

Whole == {"none", "part", "whole"}

Disk == [archive  : Whole,      \* the downloaded archive
         tree     : Whole,      \* what is unpacked of it
         root     : Whole,      \* the guest's root, "none" if it is empty
         sysdata  : SUBSET {SysFiles[i] : i \in 1 .. 8},
         deps     : Whole,      \* the packages the check asks for
         dbLock   : BOOLEAN,    \* pacman's db.lck
         repos    : BOOLEAN,    \* pacman.conf names its repositories
         held     : BOOLEAN,    \* pacman.conf ignores the PipeWire packages
         identity : {"none", "id", "linked"},       \* /etc/machine-id
         mesa     : 0 .. MaxVersion,    \* whose drivers are whole, if any's
         stamp    : 0 .. MaxVersion,    \* what the drivers are stamped with
         xkb      : {"none", "absolute", "lost", "relative"},
         version  : 1 .. MaxVersion]    \* of the app

O == INSTANCE Orchestrator WITH
        Stages <- NStages,
        stage <- IF orch = "none" THEN 0 ELSE stage

ThreadSteps == {"fetch", "download", "unpack", "unpacking", "dropArchive",
                "rename", "cleanup", "sysfile", "rmlock", "pacman",
                "installing", "recheck"}

InlineSteps == {"call", "unlock", "linkId", "relock", "mesaUnpack",
                "mesaStamp", "xkbLink", "build", "tell"}

TypeOK ==
    /\ disk \in Disk
    /\ at \in ThreadSteps \cup InlineSteps \cup {"off", "running", "ended"}
    /\ turn \in 1 .. 8 \cup 1 .. MaxAttempts
    /\ content \in BOOLEAN
    /\ orch \in O!OrchStates
    /\ stage \in 0 .. NStages - 1
    /\ progress \in 0 .. 100
    /\ skipped \subseteq {"sysdata", "deps", "pipewire_lock"}
    /\ kills \in 0 .. MaxKills
    /\ faults \in 0 .. MaxFaults

NewDisk == [archive |-> "none", tree |-> "none", root |-> "none",
            sysdata |-> {}, deps |-> "none", dbLock |-> FALSE,
            repos |-> TRUE, held |-> FALSE,     \* once the root is there
            identity |-> "none", mesa |-> 0, stamp |-> 0, xkb |-> "none",
            version |-> 1]

Init ==
    /\ disk = NewDisk
    /\ at = "off"
    /\ turn = 1
    /\ content = FALSE
    /\ orch = "none"
    /\ stage = 0
    /\ progress = 0
    /\ skipped = {}
    /\ kills = 0
    /\ faults = 0

-----------------------------------------------------------------------------
(* The loops over the stages: setup() on the main thread, as long as every *)
(* stage returns None, and then the orchestrating thread.                  *)

Bounds == <<skipped, kills, faults>>

\* The network, the disk or a process does not do what it is asked ...
Fault ==
    /\ faults < MaxFaults
    /\ faults' = faults + 1
    /\ UNCHANGED <<skipped, kills>>

\* ... and the stage of that name goes on in spite of it, or need not.
Ignores(name) ==
    /\ faults < MaxFaults
    /\ faults' = faults + 1
    /\ skipped' = skipped \cup {name}
    /\ UNCHANGED kills

Succeeds(name) ==
    /\ skipped' = skipped \ {name}
    /\ UNCHANGED <<kills, faults>>

Goto(step) ==
    /\ at' = step
    /\ UNCHANGED <<turn, content, orch, stage, progress>>

\* The thread at work calls the stage of that name.
Calls(name) == at = "call" /\ StageOrder[stage + 1] = name

\* Slip: the progress of the stage that is over.
NextStageLags ==
    /\ orch \in {"none", "working"}
    /\ stage + 1 < NStages
    /\ stage' = stage + 1
    /\ at' = "call"
    /\ progress' = IF orch = "none" THEN progress ELSE O!Percent(stage)
    /\ turn' = 1
    /\ content' = FALSE
    /\ UNCHANGED orch

\* The stage is over: whichever thread called it goes on to the next one.
\* (turn and content are locals of the stage.)
NextStage ==
    /\ orch \in {"none", "working"}
    /\ IF stage + 1 < NStages
       THEN /\ stage' = stage + 1
            /\ at' = "call"
            /\ progress' = IF orch = "none" THEN progress
                                            ELSE O!Percent(stage + 1)
            /\ UNCHANGED orch
       ELSE /\ at' = IF orch = "none" THEN "build" ELSE "tell"
            /\ orch' = IF orch = "none" THEN "none" ELSE "done"
            /\ progress' = IF orch = "none" THEN progress ELSE 100
            /\ UNCHANGED stage
    /\ turn' = 1
    /\ content' = FALSE

\* The stage returns the handle of a thread.  On the main thread that is
\* where setup() stops and the orchestrating thread takes over.
StartThread(step) ==
    /\ at' = step
    /\ turn' = 1
    /\ orch' = IF orch = "none" THEN "spawned" ELSE orch
    /\ UNCHANGED <<content, stage, progress>>

\* The orchestrating thread records its progress, beside the stage's thread.
Announce ==
    /\ orch = "spawned"
    /\ orch' = "working"
    /\ progress' = O!Percent(stage)
    /\ UNCHANGED <<disk, at, turn, content, stage, Bounds>>

\* A stage's thread panics, and join() says so.
ThreadPanics ==
    /\ orch = "working"
    /\ orch' = "failed"
    /\ at' = "ended"
    /\ turn' = 1
    /\ content' = FALSE
    /\ UNCHANGED <<stage, progress>>

\* A stage panics on the thread that called it: the app, or that thread,
\* ends.
CallerPanics ==
    /\ \/ orch = "none" /\ at' = "off" /\ stage' = 0 /\ UNCHANGED orch
       \/ orch = "working" /\ at' = "ended" /\ orch' = "dead"
          /\ UNCHANGED stage
    /\ turn' = 1
    /\ content' = FALSE
    /\ UNCHANGED progress

\* The work of these steps is an expect() away from a panic: a file, or a
\* command that cannot be run (ArchProcess::run).  pacman, at work, is left
\* to itself.
WorkFails ==
    /\ at \in {"fetch", "download", "rename", "cleanup", "sysfile", "rmlock",
               "pacman", "installing", "recheck"}
    /\ Fault
    /\ ThreadPanics
    /\ UNCHANGED disk

\* As is the work of these, on the calling thread.
CallFails ==
    /\ \/ at \in {"unlock", "linkId", "relock"}
       \/ Calls("deps")
       \/ Calls("machine_id") /\ disk.identity # "linked"
       \/ \E c \in Configs : Calls(c)
    /\ Fault
    /\ CallerPanics
    /\ UNCHANGED disk

-----------------------------------------------------------------------------
(* setup_arch_fs *)

ArchFs ==
    /\ Calls("arch_fs")
    /\ IF disk.root = "none" THEN StartThread("fetch") ELSE NextStage
    /\ UNCHANGED <<disk, Bounds>>

\* An archive that exists is not downloaded again, whole or not.
Fetch ==
    /\ at = "fetch"
    /\ IF disk.archive = "none"
       THEN disk' = [disk EXCEPT !.archive = "part"] /\ Goto("download")
       ELSE UNCHANGED disk /\ Goto("unpack")
    /\ UNCHANGED Bounds

Download ==
    /\ at = "download"
    /\ disk' = [disk EXCEPT !.archive = "whole"]
    /\ Goto("unpack")
    /\ UNCHANGED Bounds

\* The unpacked tree is cleared first.
Unpack ==
    /\ at = "unpack"
    /\ disk' = [disk EXCEPT !.tree = "part"]
    /\ Goto("unpacking")
    /\ UNCHANGED Bounds

UnpackWorks ==
    /\ at = "unpacking"
    /\ disk.archive = "whole"
    /\ disk' = [disk EXCEPT !.tree = "whole"]
    /\ Goto("rename")
    /\ UNCHANGED Bounds

\* Slip: the loop is left whatever unpack() returned.
UnpackFailsUnseen ==
    /\ at = "unpacking"
    /\ IF disk.archive = "whole" THEN Fault ELSE UNCHANGED Bounds
    /\ UNCHANGED disk
    /\ Goto("rename")

\* A truncated archive never unpacks.  The tree goes, and then the archive.
UnpackFails ==
    /\ at = "unpacking"
    /\ IF disk.archive = "whole" THEN Fault ELSE UNCHANGED Bounds
    /\ disk' = [disk EXCEPT !.tree = "none"]
    /\ Goto("dropArchive")

DropArchive ==
    /\ at = "dropArchive"
    /\ disk' = [disk EXCEPT !.archive = "none"]
    /\ Goto("fetch")
    /\ UNCHANGED Bounds

Rename ==
    /\ at = "rename"
    /\ disk' = [disk EXCEPT !.root = disk.tree, !.tree = "none"]
    /\ Goto("cleanup")
    /\ UNCHANGED Bounds

Cleanup ==
    /\ at = "cleanup"
    /\ disk' = [disk EXCEPT !.archive = "none"]
    /\ NextStage
    /\ UNCHANGED Bounds

-----------------------------------------------------------------------------
(* simulate_linux_sysdata_stage *)

\* The list of PCI devices is made on the calling thread, as older installs
\* lack it, if the root has a directory for it, which it has once the other
\* files are made; nobody looks whether that works.  ".version" tells whether
\* the other files were written.
SysData ==
    /\ Calls("sysdata")
    /\ \/ /\ disk' = [disk EXCEPT !.sysdata = @ \cup {"pci_devices"}]
          /\ Succeeds("sysdata")
       \/ /\ disk.sysdata = {}
          /\ UNCHANGED disk
          /\ Succeeds("sysdata")
       \/ /\ "pci_devices" \notin disk.sysdata
          /\ UNCHANGED disk
          /\ Ignores("sysdata")
    /\ IF "version" \in disk.sysdata THEN NextStage ELSE StartThread("sysfile")

SysFile ==
    /\ at = "sysfile"
    /\ disk' = [disk EXCEPT !.sysdata = @ \cup {SysFiles[turn]}]
    /\ IF turn < Len(SysFiles)
       THEN /\ turn' = turn + 1
            /\ UNCHANGED <<at, content, orch, stage, progress>>
       ELSE NextStage
    /\ UNCHANGED Bounds

-----------------------------------------------------------------------------
(* install_dependencies *)

\* fs::write truncates pacman.conf, and panics or is killed, or fills it.
Truncate(step) ==
    /\ content' = disk.repos
    /\ disk' = [disk EXCEPT !.repos = FALSE, !.held = FALSE]
    /\ at' = step
    /\ UNCHANGED <<turn, orch, stage, progress>>

\* Slip: the hold is not lifted.
DepsHeld ==
    /\ Calls("deps")
    /\ IF disk.deps = "whole" THEN NextStage ELSE StartThread("rmlock")
    /\ Succeeds("deps")
    /\ UNCHANGED disk

\* The check says what is missing.  Packages that pacman.conf holds cannot
\* be installed, so it is cleared of the PipeWire ones; if it cannot be read,
\* that is logged, and pacman is run all the same.
Deps ==
    /\ Calls("deps")
    /\ \/ disk.deps = "whole" /\ NextStage /\ UNCHANGED disk /\ Succeeds("deps")
       \/ /\ disk.deps # "whole" /\ ~disk.held
          /\ StartThread("rmlock")
          /\ UNCHANGED disk
          /\ Succeeds("deps")
       \/ /\ disk.deps # "whole" /\ disk.held
          /\ Truncate("unlock")
          /\ Succeeds("deps")
       \/ /\ disk.deps # "whole" /\ disk.held
          /\ StartThread("rmlock")
          /\ UNCHANGED disk
          /\ Ignores("deps")

Unlock ==
    /\ at = "unlock"
    /\ disk' = [disk EXCEPT !.repos = content]
    /\ StartThread("rmlock")
    /\ UNCHANGED Bounds

\* Slip: the lock stays.
KeepDbLock ==
    /\ at = "rmlock"
    /\ Goto("pacman")
    /\ UNCHANGED <<disk, Bounds>>

\* What a pacman that was killed left behind.
RemoveDbLock ==
    /\ at = "rmlock"
    /\ disk' = [disk EXCEPT !.dbLock = FALSE]
    /\ Goto("pacman")
    /\ UNCHANGED Bounds

\* pacman refuses a locked database, and has nothing to install from without
\* repositories.  From here on it may be killed, and leaves the lock.
Pacman ==
    /\ at = "pacman"
    /\ IF disk.dbLock \/ ~disk.repos
       THEN Goto("recheck") /\ UNCHANGED disk
       ELSE /\ Goto("installing")
            /\ \E link \in {disk.xkb, "absolute"} :
                 disk' = [disk EXCEPT !.dbLock = TRUE, !.deps = "part",
                                      !.xkb = link]
    /\ UNCHANGED Bounds

\* The packages it installs include the absolute symlink, unless a release
\* that has it is there already.
PacmanWorks ==
    /\ at = "installing"
    /\ disk' = [disk EXCEPT !.dbLock = FALSE, !.deps = "whole",
                            !.xkb = IF @ = "none" THEN "absolute" ELSE @]
    /\ Goto("recheck")
    /\ UNCHANGED Bounds

\* It may also leave out what is held.
PacmanFails ==
    /\ at = "installing"
    /\ IF disk.held THEN UNCHANGED Bounds ELSE Fault
    /\ disk' = [disk EXCEPT !.dbLock = FALSE]
    /\ Goto("recheck")

Recheck ==
    /\ at = "recheck"
    /\ \/ disk.deps = "whole" /\ NextStage
       \/ /\ disk.deps # "whole"
          /\ turn < MaxAttempts
          /\ turn' = turn + 1
          /\ at' = "rmlock"
          /\ UNCHANGED <<content, orch, stage, progress>>
       \/ disk.deps # "whole" /\ turn = MaxAttempts /\ ThreadPanics
    /\ UNCHANGED <<disk, Bounds>>

-----------------------------------------------------------------------------
(* The stages that run on the calling thread *)

\* setup_machine_id: a file that is not a machine id is written again.
MachineId ==
    /\ Calls("machine_id")
    /\ IF disk.identity = "linked"
       THEN UNCHANGED disk /\ NextStage
       ELSE disk' = [disk EXCEPT !.identity = "id"] /\ Goto("linkId")
    /\ UNCHANGED Bounds

LinkMachineId ==
    /\ at = "linkId"
    /\ disk' = [disk EXCEPT !.identity = "linked"]
    /\ NextStage
    /\ UNCHANGED Bounds

\* setup_pipewire_package_lock: a pacman.conf that cannot be read is left as it
\* is, and the setup goes on.
PipewireLock ==
    /\ Calls("pipewire_lock")
    /\ \/ disk.held /\ NextStage /\ UNCHANGED disk /\ Succeeds("pipewire_lock")
       \/ ~disk.held /\ Truncate("relock") /\ Succeeds("pipewire_lock")
       \/ ~disk.held /\ NextStage /\ UNCHANGED disk /\ Ignores("pipewire_lock")

Relock ==
    /\ at = "relock"
    /\ disk' = [disk EXCEPT !.repos = content, !.held = TRUE]
    /\ NextStage
    /\ UNCHANGED Bounds

Configure ==
    /\ \E c \in Configs : Calls(c)
    /\ NextStage
    /\ UNCHANGED <<disk, Bounds>>

\* setup_guest_mesa: drivers with another stamp are removed, unless those of the
\* app cannot be read.  The removal takes the stamp, which is one of their
\* files, sooner or later.
Mesa ==
    /\ Calls("mesa")
    /\ \/ (~Kgsl \/ disk.stamp = disk.version) /\ UNCHANGED <<disk, Bounds>> /\ NextStage
       \/ /\ Kgsl /\ disk.stamp # disk.version
          /\ \E s \in {0, disk.stamp} :
               disk' = [disk EXCEPT !.mesa = 0, !.stamp = s]
          /\ Goto("mesaUnpack")
          /\ UNCHANGED Bounds
       \/ Kgsl /\ disk.stamp # disk.version /\ UNCHANGED disk /\ Fault /\ NextStage

MesaUnpacks ==
    /\ at = "mesaUnpack"
    /\ disk' = [disk EXCEPT !.mesa = disk.version, !.stamp = 0]
    /\ Goto("mesaStamp")
    /\ UNCHANGED Bounds

MesaUnpackFails ==
    /\ at = "mesaUnpack"
    /\ Fault
    /\ disk' = [disk EXCEPT !.mesa = 0, !.stamp = 0]
    /\ NextStage

\* The stamp comes last, and nothing says whether it was written.  (The link
\* that is made before it for GLX, and whose failure is ignored too, is no
\* part of what is stamped here.)
MesaStamp ==
    /\ at = "mesaStamp"
    /\ \/ UNCHANGED Bounds /\ disk' = [disk EXCEPT !.stamp = disk.version]
       \/ Fault /\ UNCHANGED disk
    /\ NextStage

\* fix_xkb_symlink: an absolute link is removed and made again as a relative
\* one.  No link at all is not looked into.
Xkb ==
    /\ Calls("xkb")
    /\ IF disk.xkb = "absolute"
       THEN disk' = [disk EXCEPT !.xkb = "lost"] /\ Goto("xkbLink")
       ELSE UNCHANGED disk /\ NextStage
    /\ UNCHANGED Bounds

XkbLink ==
    /\ at = "xkbLink"
    /\ \/ UNCHANGED Bounds /\ disk' = [disk EXCEPT !.xkb = "relative"]
       \/ Fault /\ UNCHANGED disk
    /\ NextStage

-----------------------------------------------------------------------------
(* The process and its user *)

\* Compositor::build cannot add a keyboard without the keyboard data, and
\* what it cannot build is an expect() that ends the app.
BuildDesktop ==
    /\ at = "build"
    /\ at' = IF disk.xkb = "relative" THEN "running" ELSE "off"
    /\ stage' = 0
    /\ UNCHANGED <<disk, turn, content, orch, progress, Bounds>>

Tell ==
    /\ at = "tell"
    /\ at' = "ended"
    /\ orch' = "told"
    /\ UNCHANGED <<disk, turn, content, stage, progress, Bounds>>

Launch ==
    /\ at = "off"
    /\ Goto("call")
    /\ UNCHANGED <<disk, Bounds>>

\* The process is gone, and what it had in memory.
Gone ==
    /\ at' = "off"
    /\ turn' = 1
    /\ content' = FALSE
    /\ orch' = "none"
    /\ stage' = 0
    /\ progress' = 0

\* The user leaves the desktop, or restarts an app whose setup has ended.
Quit ==
    /\ at \in {"running", "ended"}
    /\ Gone
    /\ UNCHANGED <<disk, Bounds>>

Kill ==
    /\ at # "off"
    /\ kills < MaxKills
    /\ kills' = kills + 1
    /\ Gone
    /\ UNCHANGED <<disk, skipped, faults>>

\* In the desktop, the user removes a package, or upgrades them all.
UsePacman ==
    /\ at = "running"
    /\ \/ disk' = [disk EXCEPT !.deps = "part"]
       \/ disk' = [disk EXCEPT !.xkb = "absolute"]
    /\ UNCHANGED <<process, Bounds>>

\* A new version of the app may ask for more packages.
UpdateApp ==
    /\ at = "off"
    /\ disk.version < MaxVersion
    /\ \E d \in {disk.deps, "part"} :
         disk' = [disk EXCEPT !.version = @ + 1,
                              !.deps = IF @ = "none" THEN "none" ELSE d]
    /\ UNCHANGED <<process, Bounds>>

Work ==
    \/ Announce
    \/ ArchFs \/ Fetch \/ Download \/ Unpack \/ UnpackWorks \/ UnpackFails
    \/ DropArchive \/ Rename \/ Cleanup
    \/ SysData \/ SysFile
    \/ Deps \/ Unlock \/ RemoveDbLock \/ Pacman \/ PacmanWorks \/ PacmanFails
    \/ Recheck
    \/ MachineId \/ LinkMachineId
    \/ PipewireLock \/ Relock
    \/ Configure
    \/ Mesa \/ MesaUnpacks \/ MesaUnpackFails \/ MesaStamp
    \/ Xkb \/ XkbLink
    \/ BuildDesktop \/ Tell

Next ==
    \/ Work
    \/ WorkFails \/ CallFails
    \/ Launch \/ Quit \/ Kill
    \/ UsePacman \/ UpdateApp

Spec == Init /\ [][Next]_vars

\* Threads are scheduled, and a user whose app has ended starts it again.
\* Nobody need leave a running desktop.
FairSpec ==
    /\ Spec
    /\ WF_vars(Work)
    /\ WF_vars(Launch)
    /\ WF_vars(at = "ended" /\ Quit)

-----------------------------------------------------------------------------
(* Properties *)

\* The root is never a part of the archive, whenever the app is killed: what
\* setup_arch_fs takes for done (a root that is not empty) is done.
RootIsWhole == disk.root \in {"none", "whole"}

\* What the bind mounts of ArchProcess::run name up to the file the
\* done-check looks at exists whenever a command runs in the guest, and so does
\* the one that may crash Firefox, unless writing it has failed in this very
\* launch, which nobody looks at.  (Of the files after ".version" this does not
\* hold: a launch that is killed among them leaves the rest out for good.)
GuestIsReady ==
    Calls("deps") \/ at \in {"rmlock", "pacman", "installing", "recheck",
                             "running"} =>
        /\ disk.root = "whole"
        /\ {"loadavg", "stat", "uptime", "version"} \subseteq disk.sysdata
        /\ "pci_devices" \in disk.sysdata \/ "sysdata" \in skipped

\* pacman is not asked to install a package that pacman.conf holds, unless
\* that file could not be read when this launch came to lift the hold.
PacmanRunsUnheld ==
    at \in {"pacman", "installing"} => ~disk.held \/ "deps" \in skipped

\* However often an install was interrupted, with the hold lifted, the
\* PipeWire packages are held again, and the guest has a machine id, by the
\* time the desktop runs or the user is told that the installation finished.
\* Excepted are launches in which pacman.conf could not be read to hold them:
\* those go on to the desktop and say no word of it.
DesktopIsPrepared ==
    at \in {"build", "tell", "running"} \/ orch \in {"done", "told"} =>
        /\ disk.held \/ "pipewire_lock" \in skipped
        /\ disk.identity = "linked"

\* Drivers stamped with the app's version are that version's, all of them.
StampIsTrue == disk.stamp = disk.version => disk.mesa = disk.version

\* The two stages that take what an earlier launch left for done, or do it all
\* again, never take a part of it, wherever that launch was killed.
DoneIsDone == RootIsWhole /\ StampIsTrue

\* What the progress page's server relies on.
Orchestrates == O!OrchSpec

\* The desktop runs some day, unless a kill or a failure hit one of the two
\* gaps that no later launch repairs: pacman.conf truncated, or the keyboard
\* link removed and not made again.
DesktopRuns ==
    \/ <>(at = "running")
    \/ <>[](~disk.repos \/ disk.xkb = "lost")
=============================================================================
