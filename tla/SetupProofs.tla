---------------------------- MODULE SetupProofs ----------------------------
(***************************************************************************)
(* Theorems about Setup, for any number of attempts, kills, faults and     *)
(* versions of the app.                                                    *)
(*                                                                         *)
(* One induction says which thread takes which step of which stage, and    *)
(* what the types are (Kept).  Four more, on top of it, say what the disk  *)
(* has when the process is there: the root, the drivers and their stamp,   *)
(* the hold on the PipeWire packages, the simulated /proc files.           *)
(***************************************************************************)
EXTENDS Setup, TLAPS

\* Where the process can be: which steps belong to which stage, ...
AtHome(step, s) ==
  /\ step \in {"fetch", "download", "unpack", "unpacking", "dropArchive",
               "rename", "cleanup", "off", "running"} => s = 0
  /\ step = "sysfile" => s = 1
  /\ step \in {"unlock", "rmlock", "pacman", "installing", "recheck"} => s = 2
  /\ step = "linkId" => s = 3
  /\ step = "relock" => s = 4
  /\ step \in {"mesaUnpack", "mesaStamp"} => s = 9
  /\ step \in {"xkbLink", "build", "tell"} => s = 11

\* ... and which thread takes them.
OnThread(step, o) ==
  /\ step \in ThreadSteps => o \in {"spawned", "working"}
  /\ step \in {"call", "unlock", "linkId", "relock", "mesaUnpack",
               "mesaStamp", "xkbLink"} => o \in {"none", "working"}
  /\ step \in {"off", "build", "running"} => o = "none"
  /\ step = "tell" <=> o = "done"
  /\ step = "ended" <=> o \in {"told", "failed", "dead"}

Places == ThreadSteps \cup InlineSteps \cup {"off", "running", "ended"}

Process ==
  /\ at \in Places
  /\ turn \in 1 .. 8 \cup 1 .. MaxAttempts
  /\ content \in BOOLEAN
  /\ orch \in O!OrchStates
  /\ stage \in 0 .. NStages - 1
  /\ progress \in 0 .. 100
  /\ AtHome(at, stage)
  /\ OnThread(at, orch)
  /\ orch = "told" => stage = 11
  /\ at = "sysfile" => turn \in 1 .. 8

BoundsType ==
  /\ skipped \subseteq {"sysdata", "deps", "pipewire_lock"}
  /\ kills \in 0 .. MaxKills
  /\ faults \in 0 .. MaxFaults

LEMMA NStagesIs == NStages = 12 BY DEF NStages, StageOrder

LEMMA SysFilesAre == Len(SysFiles) = 8 /\ SysFiles[8] = "pci_devices"
BY DEF SysFiles

LEMMA StageNames ==
  ASSUME NEW s \in 0 .. NStages - 1
  PROVE  /\ StageOrder[s + 1] = "arch_fs" => s = 0
         /\ StageOrder[s + 1] = "sysdata" => s = 1
         /\ StageOrder[s + 1] = "deps" => s = 2
         /\ StageOrder[s + 1] = "machine_id" => s = 3
         /\ StageOrder[s + 1] = "pipewire_lock" => s = 4
         /\ StageOrder[s + 1] = "mesa" => s = 9
         /\ StageOrder[s + 1] = "xkb" => s = 11
BY NStagesIs DEF StageOrder

LEMMA PercentType ==
  ASSUME NEW s \in 0 .. NStages - 1
  PROVE  O!Percent(s) \in 0 .. 100
BY NStagesIs DEF O!Percent

\* What the helpers of the actions do to the process.
LEMMA GotoStep ==
  ASSUME Process, NEW step \in Places \ {"sysfile"}, AtHome(step, stage),
         OnThread(step, orch), Goto(step)
  PROVE  Process'
BY DEF Process, Goto, AtHome, OnThread

LEMMA LocalsReset ==
  ASSUME turn' = 1, content' = FALSE
  PROVE  turn' \in 1 .. 8 \cup 1 .. MaxAttempts /\ content' \in BOOLEAN
<1>1. turn' \in 1 .. 8 \cup 1 .. MaxAttempts OBVIOUS
<1>2. content' \in BOOLEAN BY Zenon
<1> QED BY <1>1, <1>2

LEMMA NextStageStep ==
  ASSUME Process, NextStage
  PROVE  Process'
<1>0. turn' = 1 /\ content' = FALSE /\ orch \in {"none", "working"}
  BY DEF NextStage
<1>1. turn' \in 1 .. 8 \cup 1 .. MaxAttempts /\ content' \in BOOLEAN
  BY <1>0, LocalsReset
<1>2. CASE stage + 1 < NStages
  <2>1. O!Percent(stage + 1) \in 0 .. 100
    BY <1>2, PercentType, NStagesIs DEF Process
  <2>2. /\ at' = "call" /\ orch' = orch
        /\ stage' = stage + 1
        /\ progress' \in 0 .. 100
    BY <1>2, <2>1 DEF NextStage, Process
  <2>3. stage' \in 0 .. NStages - 1
    BY <1>2, <2>2, NStagesIs DEF Process
  <2>4. AtHome(at', stage') /\ OnThread(at', orch') /\ at' \in Places
    BY <1>0, <2>2 DEF AtHome, OnThread, Places, InlineSteps, ThreadSteps
  <2> QED
    BY <1>0, <1>1, <2>2, <2>3, <2>4 DEF Process, AtHome, OnThread
<1>3. CASE ~(stage + 1 < NStages)
  <2>1. stage = 11 BY <1>3, NStagesIs DEF Process
  <2>2. stage' = stage /\ progress' \in 0 .. 100
    BY <1>3 DEF NextStage, Process
  <2>3. \/ at' = "build" /\ orch' = "none"
        \/ at' = "tell" /\ orch' = "done"
    BY <1>3 DEF NextStage
  <2>4. AtHome(at', stage') /\ OnThread(at', orch') /\ at' \in Places /\ orch' \in O!OrchStates
    BY <2>1, <2>2, <2>3
    DEF AtHome, OnThread, Places, InlineSteps, ThreadSteps, O!OrchStates
  <2> QED
    BY <1>1, <2>1, <2>2, <2>3, <2>4, NStagesIs DEF Process, AtHome, OnThread
<1> QED BY <1>2, <1>3

LEMMA StartThreadStep ==
  ASSUME Process, NEW step \in ThreadSteps, AtHome(step, stage), at = "call" \/ at = "unlock",
         StartThread(step)
  PROVE  Process'
<1>1. turn' = 1 /\ turn' \in 1 .. 8 \cup 1 .. MaxAttempts
  BY DEF StartThread
<1>2. orch' \in {"spawned", "working"}
  BY DEF StartThread, Process, OnThread
<1>3. at' = step /\ stage' = stage /\ content' = content /\ progress' = progress
  BY DEF StartThread
<1>4. AtHome(at', stage') /\ OnThread(at', orch') /\ at' \in Places
  BY <1>2, <1>3 DEF AtHome, OnThread, Places, ThreadSteps
<1>5. orch' \in O!OrchStates BY <1>2 DEF O!OrchStates
<1> QED
  BY <1>1, <1>2, <1>3, <1>4, <1>5 DEF Process, AtHome, OnThread

LEMMA ThreadPanicsStep ==
  ASSUME Process, ThreadPanics
  PROVE  Process'
<1>1. turn' \in 1 .. 8 \cup 1 .. MaxAttempts /\ content' \in BOOLEAN
  BY LocalsReset DEF ThreadPanics
<1>2. at' = "ended" /\ orch' = "failed" /\ stage' = stage /\ progress' = progress
  BY DEF ThreadPanics
<1>3. AtHome(at', stage') /\ OnThread(at', orch') /\ at' \in Places /\ orch' \in O!OrchStates
  BY <1>2 DEF AtHome, OnThread, Places, ThreadSteps, O!OrchStates
<1> QED
  BY <1>1, <1>2, <1>3 DEF Process, AtHome, OnThread

LEMMA CallerPanicsStep ==
  ASSUME Process, CallerPanics
  PROVE  Process'
<1>1. turn' \in 1 .. 8 \cup 1 .. MaxAttempts /\ content' \in BOOLEAN
  BY LocalsReset DEF CallerPanics
<1>2. /\ \/ at' = "off" /\ orch' = "none" /\ stage' = 0
         \/ at' = "ended" /\ orch' = "dead" /\ stage' = stage
      /\ progress' = progress
  BY DEF CallerPanics
<1>3. AtHome(at', stage') /\ OnThread(at', orch') /\ at' \in Places /\ orch' \in O!OrchStates
  BY <1>2 DEF AtHome, OnThread, Places, ThreadSteps, O!OrchStates
<1> QED
  BY <1>1, <1>2, <1>3, NStagesIs DEF Process, AtHome, OnThread

LEMMA GoneStep ==
  ASSUME Gone
  PROVE  Process'
<1>1. turn' \in 1 .. 8 \cup 1 .. MaxAttempts /\ content' \in BOOLEAN
  BY LocalsReset DEF Gone
<1>2. at' = "off" /\ orch' = "none" /\ stage' = 0 /\ progress' = 0
  BY DEF Gone
<1>3. AtHome(at', stage') /\ OnThread(at', orch') /\ at' \in Places /\ orch' \in O!OrchStates
  BY <1>2 DEF AtHome, OnThread, Places, ThreadSteps, O!OrchStates
<1> QED
  BY <1>1, <1>2, <1>3, NStagesIs DEF Process, AtHome, OnThread

LEMMA TruncateStep ==
  ASSUME Process, disk \in Disk, NEW step \in {"unlock", "relock"}, at = "call",
         AtHome(step, stage), Truncate(step)
  PROVE  Process' /\ disk' \in Disk
<1>1. disk' \in Disk BY DEF Truncate, Disk
<1>2. content' \in BOOLEAN BY DEF Truncate, Disk
<1>3. Process'
  BY <1>2
  DEF Process, Truncate, Places, InlineSteps, ThreadSteps, AtHome, OnThread
<1> QED BY <1>1, <1>3

LEMMA CallsStep ==
  ASSUME Process
  PROVE  /\ Calls("arch_fs") => at = "call" /\ stage = 0
         /\ Calls("sysdata") => at = "call" /\ stage = 1
         /\ Calls("deps") => at = "call" /\ stage = 2
         /\ Calls("machine_id") => at = "call" /\ stage = 3
         /\ Calls("pipewire_lock") => at = "call" /\ stage = 4
         /\ Calls("mesa") => at = "call" /\ stage = 9
         /\ Calls("xkb") => at = "call" /\ stage = 11
BY StageNames DEF Calls, Process

LEMMA FaultStep == ASSUME BoundsType, Fault PROVE BoundsType'
BY SetupAssumption DEF BoundsType, Fault

LEMMA SkipStep ==
  ASSUME BoundsType, NEW name \in {"sysdata", "deps", "pipewire_lock"},
         Ignores(name) \/ Succeeds(name)
  PROVE  BoundsType'
<1>1. CASE Ignores(name)
  <2>1. kills' = kills /\ faults' = faults + 1 /\ faults < MaxFaults
        /\ skipped' = skipped \cup {name}
    BY <1>1 DEF Ignores
  <2>2. kills' \in 0 .. MaxKills /\ faults' \in 0 .. MaxFaults
    BY <2>1, SetupAssumption DEF BoundsType
  <2> QED BY <2>1, <2>2 DEF BoundsType
<1>2. CASE Succeeds(name)
  BY <1>2 DEF BoundsType, Succeeds
<1> QED BY <1>1, <1>2

LEMMA BoundsStep == ASSUME BoundsType, UNCHANGED Bounds PROVE BoundsType'
BY DEF BoundsType, Bounds

Kept == Process /\ disk \in Disk /\ BoundsType

LEMMA KeptStep == Kept /\ [Next]_vars => Kept'
<1> SUFFICES ASSUME Kept, [Next]_vars PROVE Kept'
  OBVIOUS
<1> USE DEF Kept
<1>1. CASE Announce
  <2>1. disk' \in Disk
    BY <1>1 DEF Announce, Disk, Whole
  <2>2. Process'
    <3>1. O!Percent(stage) \in 0 .. 100
      BY PercentType DEF Process
    <3>2. at' = at /\ stage' = stage /\ orch = "spawned" /\ orch' = "working"
          /\ turn' = turn /\ content' = content /\ progress' \in 0 .. 100
      BY <1>1, <3>1 DEF Announce
    <3>3. OnThread(at', orch')
      BY <3>2 DEF Process, OnThread, Places, ThreadSteps, InlineSteps
    <3> QED BY <3>2, <3>3 DEF Process, O!OrchStates, AtHome, OnThread
  <2>3. BoundsType'
    BY <1>1, BoundsStep DEF Announce
  <2> QED BY <2>1, <2>2, <2>3
<1>2. CASE ArchFs
  <2>1. disk' \in Disk
    BY <1>2 DEF ArchFs, Disk, Whole
  <2>2. Process'
    BY <1>2, CallsStep, StartThreadStep, NextStageStep
    DEF ArchFs, AtHome, OnThread, Places, ThreadSteps, InlineSteps, Process
  <2>3. BoundsType'
    BY <1>2, BoundsStep DEF ArchFs
  <2> QED BY <2>1, <2>2, <2>3
<1>3. CASE Fetch
  <2>1. disk' \in Disk
    BY <1>3 DEF Fetch, Disk, Whole
  <2>2. Process'
    BY <1>3, GotoStep
    DEF Fetch, AtHome, OnThread, Places, ThreadSteps, InlineSteps, Process
  <2>3. BoundsType'
    BY <1>3, BoundsStep DEF Fetch
  <2> QED BY <2>1, <2>2, <2>3
<1>4. CASE Download
  <2>1. disk' \in Disk
    BY <1>4 DEF Download, Disk, Whole
  <2>2. Process'
    BY <1>4, GotoStep
    DEF Download, AtHome, OnThread, Places, ThreadSteps, InlineSteps, Process
  <2>3. BoundsType'
    BY <1>4, BoundsStep DEF Download
  <2> QED BY <2>1, <2>2, <2>3
<1>5. CASE Unpack
  <2>1. disk' \in Disk
    BY <1>5 DEF Unpack, Disk, Whole
  <2>2. Process'
    BY <1>5, GotoStep
    DEF Unpack, AtHome, OnThread, Places, ThreadSteps, InlineSteps, Process
  <2>3. BoundsType'
    BY <1>5, BoundsStep DEF Unpack
  <2> QED BY <2>1, <2>2, <2>3
<1>6. CASE UnpackWorks
  <2>1. disk' \in Disk
    BY <1>6 DEF UnpackWorks, Disk, Whole
  <2>2. Process'
    BY <1>6, GotoStep
    DEF UnpackWorks, AtHome, OnThread, Places, ThreadSteps, InlineSteps,
       Process
  <2>3. BoundsType'
    BY <1>6, BoundsStep DEF UnpackWorks
  <2> QED BY <2>1, <2>2, <2>3
<1>7. CASE UnpackFails
  <2>1. disk' \in Disk
    BY <1>7 DEF UnpackFails, Disk, Whole
  <2>2. Process'
    BY <1>7, GotoStep
    DEF UnpackFails, AtHome, OnThread, Places, ThreadSteps, InlineSteps,
       Process
  <2>3. BoundsType'
    BY <1>7, BoundsStep, FaultStep DEF UnpackFails
  <2> QED BY <2>1, <2>2, <2>3
<1>8. CASE DropArchive
  <2>1. disk' \in Disk
    BY <1>8 DEF DropArchive, Disk, Whole
  <2>2. Process'
    BY <1>8, GotoStep
    DEF DropArchive, AtHome, OnThread, Places, ThreadSteps, InlineSteps,
       Process
  <2>3. BoundsType'
    BY <1>8, BoundsStep DEF DropArchive
  <2> QED BY <2>1, <2>2, <2>3
<1>9. CASE Rename
  <2>1. disk' \in Disk
    BY <1>9 DEF Rename, Disk, Whole
  <2>2. Process'
    BY <1>9, GotoStep
    DEF Rename, AtHome, OnThread, Places, ThreadSteps, InlineSteps, Process
  <2>3. BoundsType'
    BY <1>9, BoundsStep DEF Rename
  <2> QED BY <2>1, <2>2, <2>3
<1>10. CASE Cleanup
  <2>1. disk' \in Disk
    BY <1>10 DEF Cleanup, Disk, Whole
  <2>2. Process'
    BY <1>10, NextStageStep
    DEF Cleanup, AtHome, OnThread, Places, ThreadSteps, InlineSteps, Process
  <2>3. BoundsType'
    BY <1>10, BoundsStep DEF Cleanup
  <2> QED BY <2>1, <2>2, <2>3
<1>11. CASE SysData
  <2>1. disk' \in Disk
    <3>1. disk.sysdata \cup {"pci_devices"} \in SUBSET {SysFiles[k] : k \in 1 .. 8}
      BY SysFilesAre DEF Disk
    <3> QED BY <1>11, <3>1 DEF SysData, Disk
  <2>2. Process'
    BY <1>11, CallsStep, NextStageStep, StartThreadStep
    DEF SysData, AtHome, OnThread, Places, ThreadSteps, InlineSteps, Process
  <2>3. BoundsType'
    BY <1>11, SkipStep DEF SysData
  <2> QED BY <2>1, <2>2, <2>3
<1>12. CASE SysFile
  <2>0. turn \in 1 .. 8
    BY <1>12 DEF SysFile, Process
  <2>1. disk' \in Disk
    <3>1. disk.sysdata \cup {SysFiles[turn]} \in SUBSET {SysFiles[k] : k \in 1 .. 8}
      BY <2>0 DEF Disk
    <3> QED BY <1>12, <3>1 DEF SysFile, Disk
  <2>2. Process'
    <3>1. CASE turn < Len(SysFiles)
      <4>1. /\ turn' = turn + 1
            /\ at' = at /\ stage' = stage /\ orch' = orch
            /\ content' = content /\ progress' = progress
        BY <1>12, <3>1 DEF SysFile
      <4>2. turn' \in 1 .. 8
        BY <2>0, <3>1, <4>1, SysFilesAre
      <4> QED BY <4>1, <4>2 DEF Process, AtHome, OnThread
    <3> QED BY <1>12, <3>1, NextStageStep DEF SysFile
  <2>3. BoundsType'
    BY <1>12, BoundsStep DEF SysFile
  <2> QED BY <2>1, <2>2, <2>3
<1>13. CASE Deps
  <2>1. disk' \in Disk
    BY <1>13, TruncateStep, CallsStep DEF Deps, Disk, Whole, AtHome
  <2>2. Process'
    BY <1>13, CallsStep, NextStageStep, StartThreadStep, TruncateStep
    DEF Deps, AtHome, OnThread, Places, ThreadSteps, InlineSteps, Process
  <2>3. BoundsType'
    BY <1>13, SkipStep DEF Deps
  <2> QED BY <2>1, <2>2, <2>3
<1>14. CASE Unlock
  <2>1. disk' \in Disk
    BY <1>14 DEF Unlock, Disk, Process
  <2>2. Process'
    BY <1>14, StartThreadStep
    DEF Unlock, AtHome, OnThread, Places, ThreadSteps, InlineSteps, Process
  <2>3. BoundsType'
    BY <1>14, BoundsStep DEF Unlock
  <2> QED BY <2>1, <2>2, <2>3
<1>15. CASE RemoveDbLock
  <2>1. disk' \in Disk
    BY <1>15 DEF RemoveDbLock, Disk, Whole
  <2>2. Process'
    BY <1>15, GotoStep
    DEF RemoveDbLock, AtHome, OnThread, Places, ThreadSteps, InlineSteps,
       Process
  <2>3. BoundsType'
    BY <1>15, BoundsStep DEF RemoveDbLock
  <2> QED BY <2>1, <2>2, <2>3
<1>16. CASE Pacman
  <2>1. disk' \in Disk
    <3>1. CASE disk.dbLock \/ ~disk.repos
      BY <1>16, <3>1 DEF Pacman
    <3>2. CASE ~(disk.dbLock \/ ~disk.repos)
      <4>1. PICK link \in {disk.xkb, "absolute"} :
              disk' = [disk EXCEPT !.dbLock = TRUE, !.deps = "part", !.xkb = link]
        BY <1>16, <3>2 DEF Pacman
      <4>2. link \in {"none", "absolute", "lost", "relative"}
        BY DEF Disk
      <4> QED BY <4>1, <4>2 DEF Disk, Whole
    <3> QED BY <3>1, <3>2
  <2>2. Process'
    BY <1>16, GotoStep
    DEF Pacman, AtHome, OnThread, Places, ThreadSteps, InlineSteps, Process
  <2>3. BoundsType'
    BY <1>16, BoundsStep DEF Pacman
  <2> QED BY <2>1, <2>2, <2>3
<1>17. CASE PacmanWorks
  <2>1. disk' \in Disk
    <3>1. CASE disk.xkb = "none"
      <4>1. disk' = [disk EXCEPT !.dbLock = FALSE, !.deps = "whole", !.xkb = "absolute"]
        BY <1>17, <3>1 DEF PacmanWorks
      <4> QED BY <4>1 DEF Disk, Whole
    <3>2. CASE disk.xkb # "none"
      <4>1. disk' = [disk EXCEPT !.dbLock = FALSE, !.deps = "whole", !.xkb = disk.xkb]
        BY <1>17, <3>2 DEF PacmanWorks
      <4> QED BY <4>1 DEF Disk, Whole
    <3> QED BY <3>1, <3>2
  <2>2. Process'
    BY <1>17, GotoStep
    DEF PacmanWorks, AtHome, OnThread, Places, ThreadSteps, InlineSteps,
       Process
  <2>3. BoundsType'
    BY <1>17, BoundsStep DEF PacmanWorks
  <2> QED BY <2>1, <2>2, <2>3
<1>18. CASE PacmanFails
  <2>1. disk' \in Disk
    BY <1>18 DEF PacmanFails, Disk, Whole
  <2>2. Process'
    BY <1>18, GotoStep
    DEF PacmanFails, AtHome, OnThread, Places, ThreadSteps, InlineSteps,
       Process
  <2>3. BoundsType'
    BY <1>18, FaultStep, BoundsStep DEF PacmanFails
  <2> QED BY <2>1, <2>2, <2>3
<1>19. CASE Recheck
  <2>1. disk' \in Disk
    BY <1>19 DEF Recheck, Disk, Whole
  <2>2. Process'
    <3>1. CASE turn < MaxAttempts /\ turn' = turn + 1 /\ at' = "rmlock"
               /\ UNCHANGED <<content, orch, stage, progress>>
      <4>1. turn' \in 1 .. MaxAttempts
        BY <3>1, SetupAssumption DEF Process
      <4>2. AtHome(at', stage') /\ OnThread(at', orch') /\ at' \in Places
        BY <1>19, <3>1
        DEF Recheck, Process, AtHome, OnThread, Places, ThreadSteps
      <4> QED BY <3>1, <4>1, <4>2 DEF Process, AtHome, OnThread
    <3> QED BY <1>19, <3>1, NextStageStep, ThreadPanicsStep DEF Recheck
  <2>3. BoundsType'
    BY <1>19, BoundsStep DEF Recheck
  <2> QED BY <2>1, <2>2, <2>3
<1>20. CASE MachineId
  <2>1. disk' \in Disk
    BY <1>20 DEF MachineId, Disk, Whole
  <2>2. Process'
    BY <1>20, CallsStep, NextStageStep, GotoStep
    DEF MachineId, AtHome, OnThread, Places, ThreadSteps, InlineSteps, Process
  <2>3. BoundsType'
    BY <1>20, BoundsStep DEF MachineId
  <2> QED BY <2>1, <2>2, <2>3
<1>21. CASE LinkMachineId
  <2>1. disk' \in Disk
    BY <1>21 DEF LinkMachineId, Disk, Whole
  <2>2. Process'
    BY <1>21, NextStageStep
    DEF LinkMachineId, AtHome, OnThread, Places, ThreadSteps, InlineSteps,
       Process
  <2>3. BoundsType'
    BY <1>21, BoundsStep DEF LinkMachineId
  <2> QED BY <2>1, <2>2, <2>3
<1>22. CASE PipewireLock
  <2>1. disk' \in Disk
    BY <1>22, TruncateStep, CallsStep DEF PipewireLock, Disk, Whole, AtHome
  <2>2. Process'
    BY <1>22, CallsStep, NextStageStep, TruncateStep
    DEF PipewireLock, AtHome, OnThread, Places, ThreadSteps, InlineSteps,
       Process
  <2>3. BoundsType'
    BY <1>22, SkipStep DEF PipewireLock
  <2> QED BY <2>1, <2>2, <2>3
<1>23. CASE Relock
  <2>1. disk' \in Disk
    BY <1>23 DEF Relock, Disk, Process
  <2>2. Process'
    BY <1>23, NextStageStep
    DEF Relock, AtHome, OnThread, Places, ThreadSteps, InlineSteps, Process
  <2>3. BoundsType'
    BY <1>23, BoundsStep DEF Relock
  <2> QED BY <2>1, <2>2, <2>3
<1>24. CASE Configure
  <2>1. disk' \in Disk
    BY <1>24 DEF Configure, Disk, Whole
  <2>2. Process'
    BY <1>24, CallsStep, NextStageStep
    DEF Configure, AtHome, OnThread, Places, ThreadSteps, InlineSteps, Process
  <2>3. BoundsType'
    BY <1>24, BoundsStep DEF Configure
  <2> QED BY <2>1, <2>2, <2>3
<1>25. CASE Mesa
  <2>1. disk' \in Disk
    <3>1. 0 \in 0 .. MaxVersion /\ disk.stamp \in 0 .. MaxVersion
      BY SetupAssumption DEF Disk
    <3>2. CASE UNCHANGED disk BY <3>2
    <3>3. CASE \E s \in {0, disk.stamp} : disk' = [disk EXCEPT !.mesa = 0, !.stamp = s]
      BY <3>1, <3>3 DEF Disk
    <3> QED BY <1>25, <3>2, <3>3 DEF Mesa
  <2>2. Process'
    BY <1>25, CallsStep, NextStageStep, GotoStep
    DEF Mesa, AtHome, OnThread, Places, ThreadSteps, InlineSteps, Process
  <2>3. BoundsType'
    BY <1>25, BoundsStep, FaultStep DEF Mesa, Bounds
  <2> QED BY <2>1, <2>2, <2>3
<1>26. CASE MesaUnpacks
  <2>1. disk' \in Disk
    <3>1. 0 \in 0 .. MaxVersion /\ disk.version \in 0 .. MaxVersion
      BY SetupAssumption DEF Disk
    <3> QED BY <1>26, <3>1 DEF MesaUnpacks, Disk
  <2>2. Process'
    BY <1>26, GotoStep
    DEF MesaUnpacks, AtHome, OnThread, Places, ThreadSteps, InlineSteps,
       Process
  <2>3. BoundsType'
    BY <1>26, BoundsStep DEF MesaUnpacks
  <2> QED BY <2>1, <2>2, <2>3
<1>27. CASE MesaUnpackFails
  <2>1. disk' \in Disk
    <3>1. 0 \in 0 .. MaxVersion
      BY SetupAssumption
    <3> QED BY <1>27, <3>1 DEF MesaUnpackFails, Disk
  <2>2. Process'
    BY <1>27, NextStageStep
    DEF MesaUnpackFails, AtHome, OnThread, Places, ThreadSteps, InlineSteps,
       Process
  <2>3. BoundsType'
    BY <1>27, FaultStep DEF MesaUnpackFails
  <2> QED BY <2>1, <2>2, <2>3
<1>28. CASE MesaStamp
  <2>1. disk' \in Disk
    BY <1>28 DEF MesaStamp, Disk, Whole
  <2>2. Process'
    BY <1>28, NextStageStep
    DEF MesaStamp, AtHome, OnThread, Places, ThreadSteps, InlineSteps, Process
  <2>3. BoundsType'
    BY <1>28, FaultStep, BoundsStep DEF MesaStamp
  <2> QED BY <2>1, <2>2, <2>3
<1>29. CASE Xkb
  <2>1. disk' \in Disk
    BY <1>29 DEF Xkb, Disk, Whole
  <2>2. Process'
    BY <1>29, CallsStep, NextStageStep, GotoStep
    DEF Xkb, AtHome, OnThread, Places, ThreadSteps, InlineSteps, Process
  <2>3. BoundsType'
    BY <1>29, BoundsStep DEF Xkb
  <2> QED BY <2>1, <2>2, <2>3
<1>30. CASE XkbLink
  <2>1. disk' \in Disk
    BY <1>30 DEF XkbLink, Disk, Whole
  <2>2. Process'
    BY <1>30, NextStageStep
    DEF XkbLink, AtHome, OnThread, Places, ThreadSteps, InlineSteps, Process
  <2>3. BoundsType'
    BY <1>30, FaultStep, BoundsStep DEF XkbLink
  <2> QED BY <2>1, <2>2, <2>3
<1>31. CASE BuildDesktop
  <2>1. disk' \in Disk
    BY <1>31 DEF BuildDesktop, Disk, Whole
  <2>2. Process'
    <3>1. /\ at' \in {"running", "off"} /\ orch' = "none" /\ stage' = 0
          /\ turn' = turn /\ content' = content /\ progress' = progress
      BY <1>31 DEF BuildDesktop, Process, OnThread
    <3>2. AtHome(at', stage') /\ OnThread(at', orch') /\ at' \in Places
      BY <3>1 DEF AtHome, OnThread, Places, ThreadSteps
    <3> QED
      BY <3>1, <3>2, NStagesIs
      DEF Process, O!OrchStates, AtHome, OnThread
  <2>3. BoundsType'
    BY <1>31, BoundsStep DEF BuildDesktop
  <2> QED BY <2>1, <2>2, <2>3
<1>32. CASE Tell
  <2>1. disk' \in Disk
    BY <1>32 DEF Tell, Disk, Whole
  <2>2. Process'
    BY <1>32
    DEF Tell, AtHome, OnThread, Places, ThreadSteps, InlineSteps, process,
       Process, O!OrchStates
  <2>3. BoundsType'
    BY <1>32, BoundsStep DEF Tell
  <2> QED BY <2>1, <2>2, <2>3
<1>33. CASE WorkFails
  <2>1. disk' \in Disk
    BY <1>33 DEF WorkFails, Disk, Whole
  <2>2. Process'
    BY <1>33, ThreadPanicsStep
    DEF WorkFails, AtHome, OnThread, Places, ThreadSteps, InlineSteps, Process
  <2>3. BoundsType'
    BY <1>33, FaultStep DEF WorkFails
  <2> QED BY <2>1, <2>2, <2>3
<1>34. CASE CallFails
  <2>1. disk' \in Disk
    BY <1>34 DEF CallFails, Disk, Whole
  <2>2. Process'
    BY <1>34, CallsStep, CallerPanicsStep
    DEF CallFails, AtHome, OnThread, Places, ThreadSteps, InlineSteps, Process
  <2>3. BoundsType'
    BY <1>34, FaultStep DEF CallFails
  <2> QED BY <2>1, <2>2, <2>3
<1>35. CASE Launch
  <2>1. disk' \in Disk
    BY <1>35 DEF Launch, Disk, Whole
  <2>2. Process'
    BY <1>35, GotoStep
    DEF Launch, AtHome, OnThread, Places, ThreadSteps, InlineSteps, Process
  <2>3. BoundsType'
    BY <1>35, BoundsStep DEF Launch
  <2> QED BY <2>1, <2>2, <2>3
<1>36. CASE Quit
  <2>1. disk' \in Disk
    BY <1>36 DEF Quit, Disk, Whole
  <2>2. Process'
    BY <1>36, GoneStep
    DEF Quit, AtHome, OnThread, Places, ThreadSteps, InlineSteps, Process
  <2>3. BoundsType'
    BY <1>36, BoundsStep DEF Quit
  <2> QED BY <2>1, <2>2, <2>3
<1>37. CASE Kill
  <2>1. disk' \in Disk
    BY <1>37 DEF Kill, Disk, Whole
  <2>2. Process'
    BY <1>37, GoneStep
    DEF Kill, AtHome, OnThread, Places, ThreadSteps, InlineSteps, Process
  <2>3. BoundsType'
    BY <1>37, SetupAssumption DEF Kill, BoundsType
  <2> QED BY <2>1, <2>2, <2>3
<1>38. CASE UsePacman
  <2>1. disk' \in Disk
    BY <1>38 DEF UsePacman, Disk, Whole
  <2>2. Process'
    BY <1>38
    DEF UsePacman, AtHome, OnThread, Places, ThreadSteps, InlineSteps,
       process, Process, O!OrchStates
  <2>3. BoundsType'
    BY <1>38, BoundsStep DEF UsePacman
  <2> QED BY <2>1, <2>2, <2>3
<1>39. CASE UpdateApp
  <2>1. disk' \in Disk
    <3>1. PICK d \in {disk.deps, "part"} :
            disk' = [disk EXCEPT !.version = disk.version + 1,
                                 !.deps = IF disk.deps = "none" THEN "none" ELSE d]
      BY <1>39 DEF UpdateApp
    <3>2. disk.version + 1 \in 1 .. MaxVersion
      BY <1>39, SetupAssumption DEF UpdateApp, Disk
    <3>3. CASE disk.deps = "none"
      BY <3>1, <3>2, <3>3 DEF Disk, Whole
    <3>4. CASE disk.deps # "none"
      <4>1. disk' = [disk EXCEPT !.version = disk.version + 1, !.deps = d]
        BY <3>1, <3>4
      <4>2. d \in Whole BY DEF Disk, Whole
      <4> QED BY <3>2, <4>1, <4>2 DEF Disk
    <3> QED BY <3>3, <3>4
  <2>2. Process'
    BY <1>39
    DEF UpdateApp, AtHome, OnThread, Places, ThreadSteps, InlineSteps,
       process, Process, O!OrchStates
  <2>3. BoundsType'
    BY <1>39, BoundsStep DEF UpdateApp
  <2> QED BY <2>1, <2>2, <2>3
<1>40. CASE UNCHANGED vars
  BY <1>40 DEF vars, process, Process, BoundsType, AtHome, OnThread
<1> QED
  BY <1>1, <1>2, <1>3, <1>4, <1>5, <1>6, <1>7, <1>8, <1>9, <1>10, <1>11,
     <1>12, <1>13, <1>14, <1>15, <1>16, <1>17, <1>18, <1>19, <1>20, <1>21,
     <1>22, <1>23, <1>24, <1>25, <1>26, <1>27, <1>28, <1>29, <1>30, <1>31,
     <1>32, <1>33, <1>34, <1>35, <1>36, <1>37, <1>38, <1>39, <1>40
  DEF Next, Work
-----------------------------------------------------------------------------
(* What the disk has when the process is where it is. *)

RootInv ==
  /\ disk.root \in {"none", "whole"}
  /\ at = "rename" => disk.tree = "whole"

StampInv ==
  /\ disk.stamp <= disk.version
  /\ disk.stamp = disk.version => disk.mesa = disk.version
  /\ at = "mesaUnpack" => disk.stamp # disk.version
  /\ at = "mesaStamp" => disk.mesa = disk.version

\* The hold is off while pacman is asked to install, and on from the stage
\* that sets it to the next launch, unless pacman.conf could not be read.
HeldInv ==
  /\ at \in {"unlock", "rmlock", "pacman", "installing", "recheck"} =>
       ~disk.held \/ "deps" \in skipped
  /\ stage > 4 \/ at = "running" => disk.held \/ "pipewire_lock" \in skipped
  /\ stage > 3 \/ at = "running" => disk.identity = "linked"

\* ".version" is written after those the commands need as well.
SysInv ==
  /\ "version" \in disk.sysdata => {"loadavg", "stat", "uptime"} \subseteq disk.sysdata
  /\ at = "sysfile" => \A k \in 1 .. turn - 1 : SysFiles[k] \in disk.sysdata
  /\ stage > 1 \/ at = "running" =>
       "pci_devices" \in disk.sysdata \/ "sysdata" \in skipped
  /\ stage > 1 \/ at = "running" => "version" \in disk.sysdata
  /\ at = "cleanup" \/ stage > 0 \/ at = "running" => disk.root = "whole"

\* Where the helpers of the actions leave the process.
LEMMA NextStageEffect ==
  ASSUME Process, NextStage
  PROVE  /\ at' \in {"call", "build", "tell"}
         /\ \/ stage' = stage + 1
            \/ stage = 11 /\ stage' = stage
BY NStagesIs DEF NextStage, Process

LEMMA PanicEffect ==
  ASSUME Process, ThreadPanics \/ CallerPanics
  PROVE  \/ at' = "ended" /\ stage' = stage
         \/ at' = "off" /\ stage' = 0
BY DEF ThreadPanics, CallerPanics

LEMMA ConfigsAt ==
  ASSUME Process, NEW c \in Configs, Calls(c)
  PROVE  at = "call" /\ stage > 4
<1>1. StageOrder[stage + 1] \in Configs /\ stage \in 0 .. 11
  BY NStagesIs DEF Calls, Process
<1>2. ASSUME stage \in 0 .. 4 PROVE FALSE
  BY <1>1, <1>2 DEF StageOrder, Configs
<1> QED BY <1>1, <1>2 DEF Calls

LEMMA GoneEffect ==
  ASSUME Gone PROVE at' = "off" /\ stage' = 0
BY DEF Gone

LEMMA RootInvStep == Kept /\ RootInv /\ [Next]_vars => RootInv'
<1> SUFFICES ASSUME Kept, RootInv, [Next]_vars PROVE RootInv'
  OBVIOUS
<1>0. Process /\ disk \in Disk
  BY DEF Kept
<1> USE <1>0 DEF RootInv, Disk
<1>1. CASE Announce
  BY <1>1 DEF Announce, Process, AtHome
<1>2. CASE ArchFs
  BY <1>2, CallsStep, NextStageEffect DEF ArchFs, StartThread, Process, AtHome
<1>3. CASE Fetch
  BY <1>3 DEF Fetch, Goto, Process, AtHome
<1>4. CASE Download
  BY <1>4 DEF Download, Goto, Process, AtHome
<1>5. CASE Unpack
  BY <1>5 DEF Unpack, Goto, Process, AtHome
<1>6. CASE UnpackWorks
  BY <1>6 DEF UnpackWorks, Goto, Process, AtHome
<1>7. CASE UnpackFails
  BY <1>7 DEF UnpackFails, Goto, Process, AtHome
<1>8. CASE DropArchive
  BY <1>8 DEF DropArchive, Goto, Process, AtHome
<1>9. CASE Rename
  BY <1>9 DEF Rename, Goto, Process, AtHome
<1>10. CASE Cleanup
  BY <1>10, NextStageEffect DEF Cleanup, Process, AtHome
<1>11. CASE SysData
  BY <1>11, CallsStep, NextStageEffect
  DEF SysData, StartThread, Process, AtHome
<1>12. CASE SysFile
  BY <1>12, NextStageEffect DEF SysFile, Process, AtHome
<1>13. CASE Deps
  BY <1>13, CallsStep, NextStageEffect
  DEF Deps, StartThread, Truncate, Process, AtHome
<1>14. CASE Unlock
  BY <1>14 DEF Unlock, StartThread, Process, AtHome
<1>15. CASE RemoveDbLock
  BY <1>15 DEF RemoveDbLock, Goto, Process, AtHome
<1>16. CASE Pacman
  BY <1>16 DEF Pacman, Goto, Process, AtHome
<1>17. CASE PacmanWorks
  BY <1>17 DEF PacmanWorks, Goto, Process, AtHome
<1>18. CASE PacmanFails
  BY <1>18 DEF PacmanFails, Goto, Process, AtHome
<1>19. CASE Recheck
  BY <1>19, NextStageEffect, PanicEffect DEF Recheck, Process, AtHome
<1>20. CASE MachineId
  BY <1>20, CallsStep, NextStageEffect DEF MachineId, Goto, Process, AtHome
<1>21. CASE LinkMachineId
  BY <1>21, NextStageEffect DEF LinkMachineId, Process, AtHome
<1>22. CASE PipewireLock
  BY <1>22, CallsStep, NextStageEffect
  DEF PipewireLock, Truncate, Process, AtHome
<1>23. CASE Relock
  BY <1>23, NextStageEffect DEF Relock, Process, AtHome
<1>24. CASE Configure
  BY <1>24, CallsStep, NextStageEffect DEF Configure, Process, AtHome
<1>25. CASE Mesa
  BY <1>25, CallsStep, NextStageEffect DEF Mesa, Goto, Process, AtHome
<1>26. CASE MesaUnpacks
  BY <1>26 DEF MesaUnpacks, Goto, Process, AtHome
<1>27. CASE MesaUnpackFails
  BY <1>27, NextStageEffect DEF MesaUnpackFails, Process, AtHome
<1>28. CASE MesaStamp
  BY <1>28, NextStageEffect DEF MesaStamp, Process, AtHome
<1>29. CASE Xkb
  BY <1>29, CallsStep, NextStageEffect DEF Xkb, Goto, Process, AtHome
<1>30. CASE XkbLink
  BY <1>30, NextStageEffect DEF XkbLink, Process, AtHome
<1>31. CASE BuildDesktop
  BY <1>31 DEF BuildDesktop, Process, AtHome
<1>32. CASE Tell
  BY <1>32 DEF Tell, Process, AtHome
<1>33. CASE WorkFails
  BY <1>33, PanicEffect DEF WorkFails, Process, AtHome
<1>34. CASE CallFails
  BY <1>34, CallsStep, PanicEffect DEF CallFails, Process, AtHome
<1>35. CASE Launch
  BY <1>35 DEF Launch, Goto, Process, AtHome
<1>36. CASE Quit
  BY <1>36, GoneEffect DEF Quit, Process, AtHome
<1>37. CASE Kill
  BY <1>37, GoneEffect DEF Kill, Process, AtHome
<1>38. CASE UsePacman
  BY <1>38 DEF UsePacman, process, Process, AtHome
<1>39. CASE UpdateApp
  BY <1>39 DEF UpdateApp, process, Process, AtHome
<1>40. CASE UNCHANGED vars
  BY <1>40 DEF vars, process
<1> QED
  BY <1>1, <1>2, <1>3, <1>4, <1>5, <1>6, <1>7, <1>8, <1>9, <1>10, <1>11,
     <1>12, <1>13, <1>14, <1>15, <1>16, <1>17, <1>18, <1>19, <1>20, <1>21,
     <1>22, <1>23, <1>24, <1>25, <1>26, <1>27, <1>28, <1>29, <1>30, <1>31,
     <1>32, <1>33, <1>34, <1>35, <1>36, <1>37, <1>38, <1>39, <1>40
  DEF Next, Work

LEMMA StampInvStep == Kept /\ StampInv /\ [Next]_vars => StampInv'
<1> SUFFICES ASSUME Kept, StampInv, [Next]_vars PROVE StampInv'
  OBVIOUS
<1>0. Process /\ disk \in Disk
  BY DEF Kept
<1> USE <1>0 DEF StampInv, Disk
<1>1. CASE Announce
  BY <1>1 DEF Announce, Process, AtHome
<1>2. CASE ArchFs
  BY <1>2, CallsStep, NextStageEffect DEF ArchFs, StartThread, Process, AtHome
<1>3. CASE Fetch
  BY <1>3 DEF Fetch, Goto, Process, AtHome
<1>4. CASE Download
  BY <1>4 DEF Download, Goto, Process, AtHome
<1>5. CASE Unpack
  BY <1>5 DEF Unpack, Goto, Process, AtHome
<1>6. CASE UnpackWorks
  BY <1>6 DEF UnpackWorks, Goto, Process, AtHome
<1>7. CASE UnpackFails
  BY <1>7 DEF UnpackFails, Goto, Process, AtHome
<1>8. CASE DropArchive
  BY <1>8 DEF DropArchive, Goto, Process, AtHome
<1>9. CASE Rename
  BY <1>9 DEF Rename, Goto, Process, AtHome
<1>10. CASE Cleanup
  BY <1>10, NextStageEffect DEF Cleanup, Process, AtHome
<1>11. CASE SysData
  BY <1>11, CallsStep, NextStageEffect
  DEF SysData, StartThread, Process, AtHome
<1>12. CASE SysFile
  BY <1>12, NextStageEffect DEF SysFile, Process, AtHome
<1>13. CASE Deps
  BY <1>13, CallsStep, NextStageEffect
  DEF Deps, StartThread, Truncate, Process, AtHome
<1>14. CASE Unlock
  BY <1>14 DEF Unlock, StartThread, Process, AtHome
<1>15. CASE RemoveDbLock
  BY <1>15 DEF RemoveDbLock, Goto, Process, AtHome
<1>16. CASE Pacman
  BY <1>16 DEF Pacman, Goto, Process, AtHome
<1>17. CASE PacmanWorks
  BY <1>17 DEF PacmanWorks, Goto, Process, AtHome
<1>18. CASE PacmanFails
  BY <1>18 DEF PacmanFails, Goto, Process, AtHome
<1>19. CASE Recheck
  BY <1>19, NextStageEffect, PanicEffect DEF Recheck, Process, AtHome
<1>20. CASE MachineId
  BY <1>20, CallsStep, NextStageEffect DEF MachineId, Goto, Process, AtHome
<1>21. CASE LinkMachineId
  BY <1>21, NextStageEffect DEF LinkMachineId, Process, AtHome
<1>22. CASE PipewireLock
  BY <1>22, CallsStep, NextStageEffect
  DEF PipewireLock, Truncate, Process, AtHome
<1>23. CASE Relock
  BY <1>23, NextStageEffect DEF Relock, Process, AtHome
<1>24. CASE Configure
  BY <1>24, CallsStep, NextStageEffect DEF Configure, Process, AtHome
<1>25. CASE Mesa
  <2>0. at = "call" /\ stage = 9
    BY <1>25, CallsStep DEF Mesa
  <2>1. CASE UNCHANGED disk /\ NextStage
    BY <2>0, <2>1, NextStageEffect
  <2>2. CASE /\ Kgsl /\ disk.stamp # disk.version
             /\ \E s \in {0, disk.stamp} : disk' = [disk EXCEPT !.mesa = 0, !.stamp = s]
             /\ Goto("mesaUnpack")
             /\ UNCHANGED Bounds
    <3>1. PICK s \in {0, disk.stamp} : disk' = [disk EXCEPT !.mesa = 0, !.stamp = s]
      BY <2>2
    <3>2. at' = "mesaUnpack" /\ stage' = 9
      BY <2>0, <2>2 DEF Goto
    <3> QED BY <2>0, <2>2, <3>1, <3>2, SetupAssumption DEF Bounds
  <2> QED BY <1>25, <2>1, <2>2 DEF Mesa
<1>26. CASE MesaUnpacks
  BY <1>26 DEF MesaUnpacks, Goto, Process, AtHome
<1>27. CASE MesaUnpackFails
  BY <1>27, NextStageEffect DEF MesaUnpackFails, Process, AtHome
<1>28. CASE MesaStamp
  BY <1>28, NextStageEffect DEF MesaStamp, Process, AtHome
<1>29. CASE Xkb
  BY <1>29, CallsStep, NextStageEffect DEF Xkb, Goto, Process, AtHome
<1>30. CASE XkbLink
  BY <1>30, NextStageEffect DEF XkbLink, Process, AtHome
<1>31. CASE BuildDesktop
  BY <1>31 DEF BuildDesktop, Process, AtHome
<1>32. CASE Tell
  BY <1>32 DEF Tell, Process, AtHome
<1>33. CASE WorkFails
  BY <1>33, PanicEffect DEF WorkFails, Process, AtHome
<1>34. CASE CallFails
  BY <1>34, CallsStep, PanicEffect DEF CallFails, Process, AtHome
<1>35. CASE Launch
  BY <1>35 DEF Launch, Goto, Process, AtHome
<1>36. CASE Quit
  BY <1>36, GoneEffect DEF Quit, Process, AtHome
<1>37. CASE Kill
  BY <1>37, GoneEffect DEF Kill, Process, AtHome
<1>38. CASE UsePacman
  BY <1>38 DEF UsePacman, process, Process, AtHome
<1>39. CASE UpdateApp
  BY <1>39 DEF UpdateApp, process, Process, AtHome
<1>40. CASE UNCHANGED vars
  BY <1>40 DEF vars, process
<1> QED
  BY <1>1, <1>2, <1>3, <1>4, <1>5, <1>6, <1>7, <1>8, <1>9, <1>10, <1>11,
     <1>12, <1>13, <1>14, <1>15, <1>16, <1>17, <1>18, <1>19, <1>20, <1>21,
     <1>22, <1>23, <1>24, <1>25, <1>26, <1>27, <1>28, <1>29, <1>30, <1>31,
     <1>32, <1>33, <1>34, <1>35, <1>36, <1>37, <1>38, <1>39, <1>40
  DEF Next, Work

LEMMA HeldInvStep == Kept /\ HeldInv /\ [Next]_vars => HeldInv'
<1> SUFFICES ASSUME Kept, HeldInv, [Next]_vars PROVE HeldInv'
  OBVIOUS
<1>0. Process /\ disk \in Disk
  BY DEF Kept
<1> USE <1>0 DEF HeldInv, Disk, Bounds, Fault
<1>1. CASE Announce
  BY <1>1 DEF Announce, Process, AtHome
<1>2. CASE ArchFs
  BY <1>2, CallsStep, NextStageEffect DEF ArchFs, StartThread, Process, AtHome
<1>3. CASE Fetch
  BY <1>3 DEF Fetch, Goto, Process, AtHome
<1>4. CASE Download
  BY <1>4 DEF Download, Goto, Process, AtHome
<1>5. CASE Unpack
  BY <1>5 DEF Unpack, Goto, Process, AtHome
<1>6. CASE UnpackWorks
  BY <1>6 DEF UnpackWorks, Goto, Process, AtHome
<1>7. CASE UnpackFails
  BY <1>7 DEF UnpackFails, Goto, Process, AtHome
<1>8. CASE DropArchive
  BY <1>8 DEF DropArchive, Goto, Process, AtHome
<1>9. CASE Rename
  BY <1>9 DEF Rename, Goto, Process, AtHome
<1>10. CASE Cleanup
  BY <1>10, NextStageEffect DEF Cleanup, Process, AtHome
<1>11. CASE SysData
  <2>1. skipped' \ {"sysdata"} = skipped \ {"sysdata"}
    BY <1>11 DEF SysData, Succeeds, Ignores
  <2>2. disk'.held = disk.held /\ disk'.identity = disk.identity
    BY <1>11 DEF SysData
  <2>3. at = "call" /\ stage = 1 /\ at' \in {"call", "build", "tell", "sysfile"}
        /\ stage' \in {1, 2}
    BY <1>11, CallsStep, NextStageEffect DEF SysData, StartThread
  <2> QED BY <2>1, <2>2, <2>3
<1>12. CASE SysFile
  BY <1>12, NextStageEffect DEF SysFile, Process, AtHome
<1>13. CASE Deps
  <2>0. at = "call" /\ stage = 2
    BY <1>13, CallsStep DEF Deps
  <2>1. skipped' \ {"deps"} = skipped \ {"deps"}
    BY <1>13 DEF Deps, Succeeds, Ignores
  <2>2. CASE disk.deps = "whole" /\ NextStage /\ UNCHANGED disk
    BY <2>0, <2>1, <2>2, NextStageEffect
  <2>3. CASE ~disk.held /\ StartThread("rmlock") /\ UNCHANGED disk
    BY <2>0, <2>1, <2>3 DEF StartThread
  <2>4. CASE disk.held /\ Truncate("unlock")
    BY <2>0, <2>1, <2>4 DEF Truncate
  <2>5. CASE StartThread("rmlock") /\ UNCHANGED disk /\ Ignores("deps")
    BY <2>0, <2>1, <2>5 DEF StartThread, Ignores
  <2> QED BY <1>13, <2>2, <2>3, <2>4, <2>5 DEF Deps
<1>14. CASE Unlock
  BY <1>14 DEF Unlock, StartThread, Process, AtHome
<1>15. CASE RemoveDbLock
  BY <1>15 DEF RemoveDbLock, Goto, Process, AtHome
<1>16. CASE Pacman
  BY <1>16 DEF Pacman, Goto, Process, AtHome
<1>17. CASE PacmanWorks
  BY <1>17 DEF PacmanWorks, Goto, Process, AtHome
<1>18. CASE PacmanFails
  BY <1>18 DEF PacmanFails, Goto, Process, AtHome
<1>19. CASE Recheck
  BY <1>19, NextStageEffect, PanicEffect DEF Recheck, Process, AtHome
<1>20. CASE MachineId
  BY <1>20, CallsStep, NextStageEffect DEF MachineId, Goto, Process, AtHome
<1>21. CASE LinkMachineId
  BY <1>21, NextStageEffect DEF LinkMachineId, Process, AtHome
<1>22. CASE PipewireLock
  <2>0. at = "call" /\ stage = 4
    BY <1>22, CallsStep DEF PipewireLock
  <2>1. skipped' \ {"pipewire_lock"} = skipped \ {"pipewire_lock"}
    BY <1>22 DEF PipewireLock, Succeeds, Ignores
  <2>2. CASE disk.held /\ NextStage /\ UNCHANGED disk
    BY <2>0, <2>1, <2>2, NextStageEffect
  <2>3. CASE ~disk.held /\ Truncate("relock")
    BY <2>0, <2>1, <2>3 DEF Truncate
  <2>4. CASE NextStage /\ UNCHANGED disk /\ Ignores("pipewire_lock")
    BY <2>0, <2>1, <2>4, NextStageEffect DEF Ignores
  <2> QED BY <1>22, <2>2, <2>3, <2>4 DEF PipewireLock
<1>23. CASE Relock
  BY <1>23, NextStageEffect DEF Relock, Process, AtHome
<1>24. CASE Configure
  <2>1. at = "call" /\ stage > 4
    BY <1>24, ConfigsAt DEF Configure
  <2> QED BY <1>24, <2>1, NextStageEffect DEF Configure, Process
<1>25. CASE Mesa
  <2>0. at = "call" /\ stage = 9
    BY <1>25, CallsStep DEF Mesa
  <2>1. CASE UNCHANGED <<disk, skipped>> /\ NextStage
    BY <2>0, <2>1, NextStageEffect
  <2>2. CASE /\ Kgsl /\ disk.stamp # disk.version
             /\ \E s \in {0, disk.stamp} : disk' = [disk EXCEPT !.mesa = 0, !.stamp = s]
             /\ Goto("mesaUnpack")
             /\ UNCHANGED Bounds
    <3>1. PICK s \in {0, disk.stamp} : disk' = [disk EXCEPT !.mesa = 0, !.stamp = s]
      BY <2>2
    <3>2. at' = "mesaUnpack" /\ stage' = 9
      BY <2>0, <2>2 DEF Goto
    <3> QED BY <2>0, <2>2, <3>1, <3>2, SetupAssumption DEF Bounds
  <2> QED BY <1>25, <2>1, <2>2 DEF Mesa
<1>26. CASE MesaUnpacks
  BY <1>26 DEF MesaUnpacks, Goto, Process, AtHome
<1>27. CASE MesaUnpackFails
  BY <1>27, NextStageEffect DEF MesaUnpackFails, Process, AtHome
<1>28. CASE MesaStamp
  BY <1>28, NextStageEffect DEF MesaStamp, Process, AtHome
<1>29. CASE Xkb
  BY <1>29, CallsStep, NextStageEffect DEF Xkb, Goto, Process, AtHome
<1>30. CASE XkbLink
  BY <1>30, NextStageEffect DEF XkbLink, Process, AtHome
<1>31. CASE BuildDesktop
  BY <1>31 DEF BuildDesktop, Process, AtHome
<1>32. CASE Tell
  BY <1>32 DEF Tell, Process, AtHome
<1>33. CASE WorkFails
  BY <1>33, PanicEffect DEF WorkFails, Process, AtHome
<1>34. CASE CallFails
  BY <1>34, CallsStep, PanicEffect DEF CallFails, Process, AtHome
<1>35. CASE Launch
  BY <1>35 DEF Launch, Goto, Process, AtHome
<1>36. CASE Quit
  BY <1>36, GoneEffect DEF Quit, Process, AtHome
<1>37. CASE Kill
  BY <1>37, GoneEffect DEF Kill, Process, AtHome
<1>38. CASE UsePacman
  BY <1>38 DEF UsePacman, process, Process, AtHome
<1>39. CASE UpdateApp
  BY <1>39 DEF UpdateApp, process, Process, AtHome
<1>40. CASE UNCHANGED vars
  BY <1>40 DEF vars, process
<1> QED
  BY <1>1, <1>2, <1>3, <1>4, <1>5, <1>6, <1>7, <1>8, <1>9, <1>10, <1>11,
     <1>12, <1>13, <1>14, <1>15, <1>16, <1>17, <1>18, <1>19, <1>20, <1>21,
     <1>22, <1>23, <1>24, <1>25, <1>26, <1>27, <1>28, <1>29, <1>30, <1>31,
     <1>32, <1>33, <1>34, <1>35, <1>36, <1>37, <1>38, <1>39, <1>40
  DEF Next, Work

LEMMA SysInvStep == Kept /\ SysInv /\ RootInv /\ [Next]_vars => SysInv'
<1> SUFFICES ASSUME Kept, SysInv, RootInv, [Next]_vars PROVE SysInv'
  OBVIOUS
<1>0. Process /\ disk \in Disk
  BY DEF Kept
<1> USE <1>0 DEF SysInv, Disk, RootInv, Bounds, Fault
<1>1. CASE Announce
  BY <1>1 DEF Announce, Process, AtHome
<1>2. CASE ArchFs
  BY <1>2, CallsStep, NextStageEffect DEF ArchFs, StartThread, Process, AtHome
<1>3. CASE Fetch
  BY <1>3 DEF Fetch, Goto, Process, AtHome
<1>4. CASE Download
  BY <1>4 DEF Download, Goto, Process, AtHome
<1>5. CASE Unpack
  BY <1>5 DEF Unpack, Goto, Process, AtHome
<1>6. CASE UnpackWorks
  BY <1>6 DEF UnpackWorks, Goto, Process, AtHome
<1>7. CASE UnpackFails
  BY <1>7 DEF UnpackFails, Goto, Process, AtHome
<1>8. CASE DropArchive
  BY <1>8 DEF DropArchive, Goto, Process, AtHome
<1>9. CASE Rename
  BY <1>9 DEF Rename, Goto, Process, AtHome
<1>10. CASE Cleanup
  BY <1>10, NextStageEffect DEF Cleanup, Process, AtHome
<1>11. CASE SysData
  <2>0. at = "call" /\ stage = 1 /\ disk'.root = disk.root /\ disk'.tree = disk.tree
    BY <1>11, CallsStep DEF SysData
  <2>1. disk.sysdata \subseteq disk'.sysdata
        /\ ("version" \in disk'.sysdata <=> "version" \in disk.sysdata)
    BY <1>11 DEF SysData
  <2>2. CASE "version" \in disk.sysdata /\ NextStage
    <3>1. "pci_devices" \in disk'.sysdata \/ "sysdata" \in skipped'
      BY <1>11, <2>2 DEF SysData, Ignores
    <3> QED BY <2>0, <2>1, <2>2, <3>1, NextStageEffect
  <2>3. CASE StartThread("sysfile")
    BY <2>0, <2>1, <2>3 DEF StartThread
  <2> QED BY <1>11, <2>2, <2>3 DEF SysData
<1>12. CASE SysFile
  <2>0. stage = 1 /\ turn \in 1 .. 8
    BY <1>12 DEF SysFile, Process, AtHome
  <2>1. disk'.sysdata = disk.sysdata \cup {SysFiles[turn]} /\ disk'.root = disk.root
    BY <1>12 DEF SysFile
  <2>2. CASE turn < Len(SysFiles)
    <3>1. turn' = turn + 1 /\ at' = at /\ stage' = stage
      BY <1>12, <2>2 DEF SysFile
    <3>2. \A k \in 1 .. turn' - 1 : SysFiles[k] \in disk'.sysdata
      BY <1>12, <2>0, <2>1, <3>1 DEF SysFile
    <3>3. "version" \in disk'.sysdata => {"loadavg", "stat", "uptime"} \subseteq disk'.sysdata
      <4>1. CASE turn \in 1 .. 3
        BY <2>0, <2>1, <4>1 DEF SysFiles
      <4>2. CASE turn > 3
        <5>1. {"loadavg", "stat", "uptime"} = {SysFiles[1], SysFiles[2], SysFiles[3]}
          BY DEF SysFiles
        <5>2. {SysFiles[1], SysFiles[2], SysFiles[3]} \subseteq disk.sysdata
          BY <1>12, <2>0, <4>2 DEF SysFile
        <5> QED BY <2>1, <5>1, <5>2
      <4> QED BY <2>0, <4>1, <4>2
    <3> QED BY <1>12, <2>0, <2>1, <3>1, <3>2, <3>3 DEF SysFile
  <2>3. CASE ~(turn < Len(SysFiles))
    <3>1. turn = 8
      BY <2>0, <2>3, SysFilesAre
    <3>2. {SysFiles[1], SysFiles[2], SysFiles[3], SysFiles[4]} \subseteq disk.sysdata
      BY <1>12, <3>1 DEF SysFile
    <3>3. {"loadavg", "stat", "uptime", "version"} \subseteq disk'.sysdata
      BY <2>1, <3>2 DEF SysFiles
    <3>4. at' = "call" /\ stage' = 2
      BY <1>12, <2>0, <2>3, NextStageEffect, NStagesIs DEF SysFile, NextStage
    <3>5. "pci_devices" \in disk'.sysdata
      BY <2>1, <3>1, SysFilesAre
    <3> QED BY <1>12, <2>0, <2>1, <3>3, <3>4, <3>5 DEF SysFile
  <2> QED BY <2>2, <2>3
<1>13. CASE Deps
  <2>0. at = "call" /\ stage = 2
    BY <1>13, CallsStep DEF Deps
  <2>1. skipped' \ {"deps"} = skipped \ {"deps"}
    BY <1>13 DEF Deps, Succeeds, Ignores
  <2>2. CASE disk.deps = "whole" /\ NextStage /\ UNCHANGED disk
    BY <2>0, <2>1, <2>2, NextStageEffect
  <2>3. CASE ~disk.held /\ StartThread("rmlock") /\ UNCHANGED disk
    BY <2>0, <2>1, <2>3 DEF StartThread
  <2>4. CASE disk.held /\ Truncate("unlock")
    BY <2>0, <2>1, <2>4 DEF Truncate
  <2>5. CASE StartThread("rmlock") /\ UNCHANGED disk /\ Ignores("deps")
    BY <2>0, <2>1, <2>5 DEF StartThread, Ignores
  <2> QED BY <1>13, <2>2, <2>3, <2>4, <2>5 DEF Deps
<1>14. CASE Unlock
  BY <1>14 DEF Unlock, StartThread, Process, AtHome
<1>15. CASE RemoveDbLock
  BY <1>15 DEF RemoveDbLock, Goto, Process, AtHome
<1>16. CASE Pacman
  BY <1>16 DEF Pacman, Goto, Process, AtHome
<1>17. CASE PacmanWorks
  BY <1>17 DEF PacmanWorks, Goto, Process, AtHome
<1>18. CASE PacmanFails
  BY <1>18 DEF PacmanFails, Goto, Process, AtHome
<1>19. CASE Recheck
  BY <1>19, NextStageEffect, PanicEffect DEF Recheck, Process, AtHome
<1>20. CASE MachineId
  BY <1>20, CallsStep, NextStageEffect DEF MachineId, Goto, Process, AtHome
<1>21. CASE LinkMachineId
  BY <1>21, NextStageEffect DEF LinkMachineId, Process, AtHome
<1>22. CASE PipewireLock
  <2>0. at = "call" /\ stage = 4
    BY <1>22, CallsStep DEF PipewireLock
  <2>1. skipped' \ {"pipewire_lock"} = skipped \ {"pipewire_lock"}
    BY <1>22 DEF PipewireLock, Succeeds, Ignores
  <2>2. CASE disk.held /\ NextStage /\ UNCHANGED disk
    BY <2>0, <2>1, <2>2, NextStageEffect
  <2>3. CASE ~disk.held /\ Truncate("relock")
    BY <2>0, <2>1, <2>3 DEF Truncate
  <2>4. CASE NextStage /\ UNCHANGED disk /\ Ignores("pipewire_lock")
    BY <2>0, <2>1, <2>4, NextStageEffect DEF Ignores
  <2> QED BY <1>22, <2>2, <2>3, <2>4 DEF PipewireLock
<1>23. CASE Relock
  BY <1>23, NextStageEffect DEF Relock, Process, AtHome
<1>24. CASE Configure
  <2>1. at = "call" /\ stage > 4
    BY <1>24, ConfigsAt DEF Configure
  <2> QED BY <1>24, <2>1, NextStageEffect DEF Configure, Process
<1>25. CASE Mesa
  <2>0. at = "call" /\ stage = 9
    BY <1>25, CallsStep DEF Mesa
  <2>1. CASE UNCHANGED <<disk, skipped>> /\ NextStage
    BY <2>0, <2>1, NextStageEffect
  <2>2. CASE /\ Kgsl /\ disk.stamp # disk.version
             /\ \E s \in {0, disk.stamp} : disk' = [disk EXCEPT !.mesa = 0, !.stamp = s]
             /\ Goto("mesaUnpack")
             /\ UNCHANGED Bounds
    <3>1. PICK s \in {0, disk.stamp} : disk' = [disk EXCEPT !.mesa = 0, !.stamp = s]
      BY <2>2
    <3>2. at' = "mesaUnpack" /\ stage' = 9
      BY <2>0, <2>2 DEF Goto
    <3> QED BY <2>0, <2>2, <3>1, <3>2, SetupAssumption DEF Bounds
  <2> QED BY <1>25, <2>1, <2>2 DEF Mesa
<1>26. CASE MesaUnpacks
  BY <1>26 DEF MesaUnpacks, Goto, Process, AtHome
<1>27. CASE MesaUnpackFails
  BY <1>27, NextStageEffect DEF MesaUnpackFails, Process, AtHome
<1>28. CASE MesaStamp
  BY <1>28, NextStageEffect DEF MesaStamp, Process, AtHome
<1>29. CASE Xkb
  BY <1>29, CallsStep, NextStageEffect DEF Xkb, Goto, Process, AtHome
<1>30. CASE XkbLink
  BY <1>30, NextStageEffect DEF XkbLink, Process, AtHome
<1>31. CASE BuildDesktop
  BY <1>31 DEF BuildDesktop, Process, AtHome
<1>32. CASE Tell
  BY <1>32 DEF Tell, Process, AtHome
<1>33. CASE WorkFails
  BY <1>33, PanicEffect DEF WorkFails, Process, AtHome
<1>34. CASE CallFails
  BY <1>34, CallsStep, PanicEffect DEF CallFails, Process, AtHome
<1>35. CASE Launch
  BY <1>35 DEF Launch, Goto, Process, AtHome
<1>36. CASE Quit
  BY <1>36, GoneEffect DEF Quit, Process, AtHome
<1>37. CASE Kill
  BY <1>37, GoneEffect DEF Kill, Process, AtHome
<1>38. CASE UsePacman
  BY <1>38 DEF UsePacman, process, Process, AtHome
<1>39. CASE UpdateApp
  BY <1>39 DEF UpdateApp, process, Process, AtHome
<1>40. CASE UNCHANGED vars
  BY <1>40 DEF vars, process
<1> QED
  BY <1>1, <1>2, <1>3, <1>4, <1>5, <1>6, <1>7, <1>8, <1>9, <1>10, <1>11,
     <1>12, <1>13, <1>14, <1>15, <1>16, <1>17, <1>18, <1>19, <1>20, <1>21,
     <1>22, <1>23, <1>24, <1>25, <1>26, <1>27, <1>28, <1>29, <1>30, <1>31,
     <1>32, <1>33, <1>34, <1>35, <1>36, <1>37, <1>38, <1>39, <1>40
  DEF Next, Work

-----------------------------------------------------------------------------
(* Every step is a step of the orchestrating thread, or none it takes. *)

LEMMA Stutter ==
  ASSUME UNCHANGED <<orch, progress>>, stage' = stage \/ orch = "none"
  PROVE  UNCHANGED O!orchVars
BY DEF O!orchVars

LEMMA NextStageRefines ==
  ASSUME Process, NextStage
  PROVE  [O!OrchNext]_(O!orchVars)
<1>1. CASE orch = "none"
  BY <1>1, Stutter DEF NextStage
<1>2. CASE orch = "working" /\ stage + 1 < NStages
  <2>1. O!Advance BY <1>2 DEF NextStage, O!Advance
  <2> QED BY <2>1 DEF O!OrchNext
<1>3. CASE orch = "working" /\ ~(stage + 1 < NStages)
  <2>1. stage + 1 = NStages BY <1>3, NStagesIs DEF Process
  <2>2. O!Complete BY <1>3, <2>1 DEF NextStage, O!Complete
  <2> QED BY <2>2 DEF O!OrchNext
<1> QED BY <1>1, <1>2, <1>3 DEF NextStage

LEMMA StartThreadRefines ==
  ASSUME Process, NEW step \in ThreadSteps, StartThread(step)
  PROVE  [O!OrchNext]_(O!orchVars)
<1>1. CASE orch = "none"
  <2>1. O!Spawn(stage) BY <1>1 DEF StartThread, O!Spawn
  <2>2. stage \in 0 .. NStages - 1 BY DEF Process
  <2> QED BY <2>1, <2>2 DEF O!OrchNext
<1>2. CASE orch # "none"
  BY <1>2, Stutter DEF StartThread
<1> QED BY <1>1, <1>2

LEMMA PanicRefines ==
  ASSUME ThreadPanics \/ CallerPanics
  PROVE  [O!OrchNext]_(O!orchVars)
<1>1. CASE ThreadPanics
  <2>1. O!Fail BY <1>1 DEF ThreadPanics, O!Fail
  <2> QED BY <2>1 DEF O!OrchNext
<1>2. CASE CallerPanics /\ orch = "none"
  BY <1>2, Stutter DEF CallerPanics
<1>3. CASE CallerPanics /\ orch = "working"
  <2>1. O!Die BY <1>3 DEF CallerPanics, O!Die
  <2> QED BY <2>1 DEF O!OrchNext
<1> QED BY <1>1, <1>2, <1>3 DEF CallerPanics

LEMMA GoneRefines ==
  ASSUME Gone PROVE [O!OrchNext]_(O!orchVars)
<1>1. O!Restart BY DEF Gone, O!Restart
<1> QED BY <1>1 DEF O!OrchNext

LEMMA GotoRefines ==
  ASSUME NEW step, Goto(step) PROVE [O!OrchNext]_(O!orchVars)
BY Stutter DEF Goto

LEMMA TruncateRefines ==
  ASSUME NEW step, Truncate(step) PROVE [O!OrchNext]_(O!orchVars)
BY Stutter DEF Truncate

LEMMA RefinementStep == Kept /\ [Next]_vars => [O!OrchNext]_(O!orchVars)
<1> SUFFICES ASSUME Kept, [Next]_vars PROVE [O!OrchNext]_(O!orchVars)
  OBVIOUS
<1>0. Process
  BY DEF Kept
<1>1. CASE Announce
  <2>1. O!Announce BY <1>1 DEF Announce, O!Announce
  <2> QED BY <2>1 DEF O!OrchNext
<1>2. CASE ArchFs
  BY <1>2, <1>0, StartThreadRefines, NextStageRefines DEF ArchFs, ThreadSteps
<1>3. CASE Fetch
  BY <1>3, <1>0, GotoRefines DEF Fetch
<1>4. CASE Download
  BY <1>4, <1>0, GotoRefines DEF Download
<1>5. CASE Unpack
  BY <1>5, <1>0, GotoRefines DEF Unpack
<1>6. CASE UnpackWorks
  BY <1>6, <1>0, GotoRefines DEF UnpackWorks
<1>7. CASE UnpackFails
  BY <1>7, <1>0, GotoRefines DEF UnpackFails
<1>8. CASE DropArchive
  BY <1>8, <1>0, GotoRefines DEF DropArchive
<1>9. CASE Rename
  BY <1>9, <1>0, GotoRefines DEF Rename
<1>10. CASE Cleanup
  BY <1>10, <1>0, NextStageRefines DEF Cleanup
<1>11. CASE SysData
  BY <1>11, <1>0, NextStageRefines, StartThreadRefines DEF SysData, ThreadSteps
<1>12. CASE SysFile
  BY <1>12, <1>0, Stutter, NextStageRefines DEF SysFile
<1>13. CASE Deps
  BY <1>13, <1>0, NextStageRefines, StartThreadRefines, TruncateRefines
  DEF Deps, ThreadSteps
<1>14. CASE Unlock
  BY <1>14, <1>0, StartThreadRefines DEF Unlock, ThreadSteps
<1>15. CASE RemoveDbLock
  BY <1>15, <1>0, GotoRefines DEF RemoveDbLock
<1>16. CASE Pacman
  BY <1>16, <1>0, GotoRefines DEF Pacman
<1>17. CASE PacmanWorks
  BY <1>17, <1>0, GotoRefines DEF PacmanWorks
<1>18. CASE PacmanFails
  BY <1>18, <1>0, GotoRefines DEF PacmanFails
<1>19. CASE Recheck
  BY <1>19, <1>0, Stutter, NextStageRefines, PanicRefines DEF Recheck
<1>20. CASE MachineId
  BY <1>20, <1>0, NextStageRefines, GotoRefines DEF MachineId
<1>21. CASE LinkMachineId
  BY <1>21, <1>0, NextStageRefines DEF LinkMachineId
<1>22. CASE PipewireLock
  BY <1>22, <1>0, NextStageRefines, TruncateRefines DEF PipewireLock
<1>23. CASE Relock
  BY <1>23, <1>0, NextStageRefines DEF Relock
<1>24. CASE Configure
  BY <1>24, <1>0, NextStageRefines DEF Configure
<1>25. CASE Mesa
  BY <1>25, <1>0, NextStageRefines, GotoRefines DEF Mesa
<1>26. CASE MesaUnpacks
  BY <1>26, <1>0, GotoRefines DEF MesaUnpacks
<1>27. CASE MesaUnpackFails
  BY <1>27, <1>0, NextStageRefines DEF MesaUnpackFails
<1>28. CASE MesaStamp
  BY <1>28, <1>0, NextStageRefines DEF MesaStamp
<1>29. CASE Xkb
  BY <1>29, <1>0, NextStageRefines, GotoRefines DEF Xkb
<1>30. CASE XkbLink
  BY <1>30, <1>0, NextStageRefines DEF XkbLink
<1>31. CASE BuildDesktop
  BY <1>31, <1>0, Stutter DEF BuildDesktop, Process, OnThread
<1>32. CASE Tell
  <2>1. O!Tell BY <1>32, <1>0 DEF Tell, O!Tell, Process, OnThread
  <2> QED BY <2>1 DEF O!OrchNext
<1>33. CASE WorkFails
  BY <1>33, <1>0, PanicRefines DEF WorkFails
<1>34. CASE CallFails
  BY <1>34, <1>0, PanicRefines DEF CallFails
<1>35. CASE Launch
  BY <1>35, <1>0, GotoRefines DEF Launch
<1>36. CASE Quit
  BY <1>36, <1>0, GoneRefines DEF Quit
<1>37. CASE Kill
  BY <1>37, <1>0, GoneRefines DEF Kill
<1>38. CASE UsePacman
  BY <1>38, Stutter DEF UsePacman, process
<1>39. CASE UpdateApp
  BY <1>39, Stutter DEF UpdateApp, process
<1>40. CASE UNCHANGED vars
  BY <1>40, Stutter DEF vars, process
<1> QED
  BY <1>1, <1>2, <1>3, <1>4, <1>5, <1>6, <1>7, <1>8, <1>9, <1>10, <1>11,
     <1>12, <1>13, <1>14, <1>15, <1>16, <1>17, <1>18, <1>19, <1>20, <1>21,
     <1>22, <1>23, <1>24, <1>25, <1>26, <1>27, <1>28, <1>29, <1>30, <1>31,
     <1>32, <1>33, <1>34, <1>35, <1>36, <1>37, <1>38, <1>39, <1>40
  DEF Next, Work

-----------------------------------------------------------------------------
IInv == Kept /\ RootInv /\ StampInv /\ HeldInv /\ SysInv

LEMMA Initially == Init => IInv
<1> SUFFICES ASSUME Init PROVE IInv
  OBVIOUS
<1>1. disk \in Disk
  BY SetupAssumption DEF Init, NewDisk, Disk, Whole
<1>2. content \in BOOLEAN
  BY Zenon DEF Init
<1>3. Process
  BY <1>2, NStagesIs, SetupAssumption
  DEF Init, Process, Places, ThreadSteps, AtHome, OnThread, O!OrchStates
<1>4. BoundsType
  BY SetupAssumption DEF Init, BoundsType
<1>5. RootInv /\ StampInv /\ HeldInv /\ SysInv
  BY DEF Init, NewDisk, RootInv, StampInv, HeldInv, SysInv
<1> QED BY <1>1, <1>3, <1>4, <1>5 DEF IInv, Kept

LEMMA Induction == Spec => []IInv
<1>1. IInv /\ [Next]_vars => IInv'
  BY KeptStep, RootInvStep, StampInvStep, HeldInvStep, SysInvStep DEF IInv
<1> QED BY Initially, <1>1, PTL DEF Spec

(* The types of all variables: what the disk can hold, and which step is   *)
(* taken by which thread.                                                  *)
THEOREM Typing == Spec => []TypeOK
<1>1. IInv => TypeOK
  BY DEF IInv, Kept, Process, Places, BoundsType, TypeOK
<1> QED BY Induction, <1>1, PTL

(* setup_arch_fs: a root that is not empty is a whole one, after any       *)
(* number of kills and failures.                                           *)
THEOREM Extraction == Spec => []RootIsWhole
<1>1. IInv => RootIsWhole
  BY DEF IInv, RootInv, RootIsWhole
<1> QED BY Induction, <1>1, PTL

(* ArchProcess::run: the guest has a root and the simulated files that its *)
(* commands are given, whenever setup or the desktop runs one; the list of *)
(* PCI devices as well, unless writing it failed in this launch, unseen    *)
(* (simulate_linux_sysdata_stage).                                         *)
THEOREM Readiness == Spec => []GuestIsReady
<1>1. IInv => GuestIsReady
  BY CallsStep DEF IInv, Kept, SysInv, GuestIsReady, Process, AtHome
<1> QED BY Induction, <1>1, PTL

(* clear_pipewire_package_lock_for_install: no install runs into the hold, *)
(* unless pacman.conf could not be read to lift it.                        *)
THEOREM Unheld == Spec => []PacmanRunsUnheld
<1>1. IInv => PacmanRunsUnheld
  BY DEF IInv, HeldInv, PacmanRunsUnheld
<1> QED BY Induction, <1>1, PTL

(* setup_pipewire_package_lock and setup_machine_id: the hold is back, and *)
(* the machine id there, when the desktop runs or the installation ends;   *)
(* the hold only if pacman.conf could be read in this launch.              *)
THEOREM Preparation == Spec => []DesktopIsPrepared
<1>1. IInv => DesktopIsPrepared
  BY DEF IInv, Kept, HeldInv, DesktopIsPrepared, Process, AtHome, OnThread
<1> QED BY Induction, <1>1, PTL

(* setup_guest_mesa: the stamp of this version means its drivers are there.*)
THEOREM Stamp == Spec => []StampIsTrue
<1>1. IInv => StampIsTrue
  BY DEF IInv, StampInv, StampIsTrue
<1> QED BY Induction, <1>1, PTL

(* What setup_arch_fs and setup_guest_mesa take for done is all there.     *)
THEOREM Doneness == Spec => []DoneIsDone
<1>1. RootIsWhole /\ StampIsTrue => DoneIsDone
  BY DEF DoneIsDone
<1> QED BY Extraction, Stamp, <1>1, PTL

(* setup() implements the orchestrating thread that the server of the      *)
(* progress page relies on, for any number of attempts, kills and failures.*)
THEOREM Orchestration == Spec => Orchestrates
<1>1. Init => O!OrchInit
  BY DEF Init, O!OrchInit
<1>2. IInv /\ [Next]_vars => [O!OrchNext]_(O!orchVars)
  BY RefinementStep DEF IInv
<1> QED BY <1>1, <1>2, Induction, PTL DEF Spec, Orchestrates, O!OrchSpec
=============================================================================
