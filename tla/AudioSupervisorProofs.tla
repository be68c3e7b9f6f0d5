------------------------ MODULE AudioSupervisorProofs ------------------------
(***************************************************************************)
(* Theorems about AudioSupervisor, for any number of resumes and whatever  *)
(* the APK bundles.                                                        *)
(*                                                                         *)
(* Types and control are one induction, who has whose handles is another   *)
(* on top of it: a step either leaves handles and processes alone, hands   *)
(* handles over, or stops the processes whose handles it lets go of.       *)
(***************************************************************************)
EXTENDS AudioSupervisor, TLAPS

Processes == [Generation -> [Role -> {"none", "running", "listening", "gone"}]]
Handles == Generation \cup {None}

(***************************************************************************)
(* Where each thread can be when it has handles, and that the one starter  *)
(* finds AAUDIO_CHILDREN as it left it.                                    *)
(***************************************************************************)
MainControl ==
  /\ front => main.pc = "none"
  /\ main.pc \in {"none", "stop", "clean"}
  /\ main.holds # None <=> main.pc = "stop"

Building == starter.pc \in {"spawn", "wait", "undo", "publish", "watch"}

\* A generation's monitor is there once the generation was published.
MonitorControl ==
  \A m \in Generation :
    /\ monitor[m].holds # None <=> monitor[m].pc = "stop"
    /\ monitor[m].pc # "none" => m <= starts /\ ~(Building /\ m = starts)

StarterControl ==
  /\ start_in_progress <=> starter.pc # "none"
  /\ starter.holds # None
       <=> starter.pc \in {"stop", "spawn", "wait", "undo", "publish", "watch"}
  /\ starter.pc \in {"stop", "clean", "prepare", "spawn", "wait", "undo", "publish"}
       => children = None
  /\ starter.pc \in {"spawn", "wait"} => starter.at <= 4
  /\ Building => starter.holds = starts
  /\ starts <= resumes
  /\ starter.pc \in {"check", "stop", "clean", "prepare"} => starts < resumes

IInv == TypeOK /\ MainControl /\ MonitorControl /\ StarterControl

LEMMA StoppedType ==
  ASSUME NEW g \in Generation, process \in Processes
  PROVE  Stopped(g) \in Processes
BY DEF Stopped, Processes

LEMMA ProcessStep ==
  ASSUME NEW g \in Generation, NEW r \in Role,
         NEW v \in {"none", "running", "listening", "gone"}, process \in Processes
  PROVE  [process EXCEPT ![g][r] = v] \in Processes
BY DEF Processes

LEMMA OrderType ==
  ASSUME NEW i \in 1 .. 4 PROVE Order[i] \in Role
BY DEF Order, Role

LEMMA OnwardsStep ==
  ASSUME starter \in Starters, starter.at <= 4, Onwards
  PROVE  /\ starter' = [pc |-> IF starter.at = 4 THEN "publish" ELSE "spawn",
                       at |-> starter.at + 1, holds |-> starter.holds]
         /\ starter' \in Starters
<1>1. starter' = [pc |-> IF starter.at = 4 THEN "publish" ELSE "spawn",
                  at |-> starter.at + 1, holds |-> starter.holds]
  BY DEF Onwards, Starters
<1>2. starter.at + 1 \in 1 .. 5 /\ starter.holds \in Generation \cup {None}
  BY DEF Starters
<1>3. QED
  BY <1>1, <1>2 DEF Starters

LEMMA InitIInv == Init => IInv
<1> SUFFICES ASSUME Init PROVE IInv
  OBVIOUS
<1>1. resumes \in 0 .. MaxResumes /\ starts \in 0 .. MaxResumes
  BY ConstantsType DEF Init
<1>2. main \in Stoppers /\ starter \in Starters
  BY DEF Init, Idle, NoStarter, Stoppers, Starters, None
<1>3. monitor \in [Generation -> Stoppers]
  BY DEF Init, Idle, Stoppers, None
<1>4. TypeOK
  BY <1>1, <1>2, <1>3 DEF Init, TypeOK, None
<1>5. QED
  BY <1>4
     DEF Init, IInv, MainControl, MonitorControl, StarterControl, Building, Idle,
         NoStarter, None

LEMMA StarterIInv == ASSUME IInv, StarterSteps PROVE IInv'
<1> USE DEF None, Building
<1>0. /\ TypeOK /\ MainControl /\ MonitorControl /\ StarterControl
      /\ process \in Processes
  BY DEF IInv, TypeOK, Processes
<1>t. /\ starter.at \in 1 .. 5 /\ starter.holds \in Handles
      /\ starter = [pc |-> starter.pc, at |-> starter.at, holds |-> starter.holds]
  BY <1>0 DEF TypeOK, Starters, Handles
<1>1. CASE StarterChecks
  <2>1. starter' \in Starters
    BY <1>0, <1>t, <1>1
       DEF StarterChecks, TypeOK, Starters, Handles, StarterControl, Goes, Onwards,
           NoStarter
  <2>2. TypeOK'
    BY <1>0, <1>1, <2>1
       DEF StarterChecks, TypeOK, mainVars, launchVars, Processes, CleanSockets,
           Generation
  <2>3. StarterControl'
    BY <1>0, <1>t, <1>1, <2>1
       DEF StarterChecks, TypeOK, StarterControl, mainVars, Goes, Onwards,
           NoStarter, Generation, Handles
  <2>4. MainControl'
    BY <1>0, <1>1 DEF StarterChecks, MainControl, mainVars
  <2>5. MonitorControl'
    BY <1>0, <1>t, <1>1, <2>1
       DEF StarterChecks, TypeOK, MonitorControl, StarterControl, mainVars,
           Stoppers, Goes, Onwards, NoStarter, Generation
  <2>6. QED
    BY <2>2, <2>3, <2>4, <2>5 DEF IInv
<1>2. CASE StarterStopsStale
  <2>1. starter.holds \in Generation
    BY <1>0, <1>t, <1>2 DEF StarterStopsStale, StarterControl, Handles
  <2>2. process' \in Processes
    BY <1>0, <1>2, <2>1, StoppedType DEF StarterStopsStale
  <2>3. starter' \in Starters
    BY <1>0, <1>t, <1>2, <2>2
       DEF StarterStopsStale, TypeOK, Starters, Handles, StarterControl, Goes,
           Onwards, NoStarter
  <2>4. TypeOK'
    BY <1>0, <1>2, <2>2, <2>3
       DEF StarterStopsStale, TypeOK, mainVars, launchVars, Processes,
           CleanSockets, Generation
  <2>5. StarterControl'
    BY <1>0, <1>t, <1>2, <2>2, <2>3
       DEF StarterStopsStale, TypeOK, StarterControl, mainVars, Goes, Onwards,
           NoStarter, Generation, Handles
  <2>6. MainControl'
    BY <1>0, <1>2 DEF StarterStopsStale, MainControl, mainVars
  <2>7. MonitorControl'
    BY <1>0, <1>t, <1>2, <2>2, <2>3
       DEF StarterStopsStale, TypeOK, MonitorControl, StarterControl, mainVars,
           Stoppers, Goes, Onwards, NoStarter, Generation
  <2>8. QED
    BY <2>4, <2>5, <2>6, <2>7 DEF IInv
<1>3. CASE StarterCleansStale
  <2>1. starter' \in Starters
    BY <1>0, <1>t, <1>3
       DEF StarterCleansStale, TypeOK, Starters, Handles, StarterControl, Goes,
           Onwards, NoStarter
  <2>2. TypeOK'
    BY <1>0, <1>3, <2>1
       DEF StarterCleansStale, TypeOK, mainVars, launchVars, Processes,
           CleanSockets, Generation
  <2>3. StarterControl'
    BY <1>0, <1>t, <1>3, <2>1
       DEF StarterCleansStale, TypeOK, StarterControl, mainVars, Goes, Onwards,
           NoStarter, Generation, Handles
  <2>4. MainControl'
    BY <1>0, <1>3 DEF StarterCleansStale, MainControl, mainVars
  <2>5. MonitorControl'
    BY <1>0, <1>t, <1>3, <2>1
       DEF StarterCleansStale, TypeOK, MonitorControl, StarterControl, mainVars,
           Stoppers, Goes, Onwards, NoStarter, Generation
  <2>6. QED
    BY <2>2, <2>3, <2>4, <2>5 DEF IInv
<1>4. CASE StarterPrepares
  <2>1. starts' \in Generation
    BY <1>0, <1>4, ConstantsType
       DEF StarterPrepares, TypeOK, StarterControl, Generation
  <2>2. starter' \in Starters
    BY <1>0, <1>t, <1>4, <2>1
       DEF StarterPrepares, TypeOK, Starters, Handles, StarterControl, Goes,
           Onwards, NoStarter
  <2>3. TypeOK'
    BY <1>0, <1>4, <2>1, <2>2
       DEF StarterPrepares, TypeOK, mainVars, launchVars, Processes, CleanSockets,
           Generation
  <2>4. StarterControl'
    BY <1>0, <1>t, <1>4, <2>1, <2>2
       DEF StarterPrepares, TypeOK, StarterControl, mainVars, Goes, Onwards,
           NoStarter, Generation, Handles
  <2>5. MainControl'
    BY <1>0, <1>4 DEF StarterPrepares, MainControl, mainVars
  <2>6. MonitorControl'
    BY <1>0, <1>t, <1>4, <2>1, <2>2
       DEF StarterPrepares, TypeOK, MonitorControl, StarterControl, mainVars,
           Stoppers, Goes, Onwards, NoStarter, Generation
  <2>7. QED
    BY <2>3, <2>4, <2>5, <2>6 DEF IInv
<1>5. CASE StarterGivesUp
  <2>1. starter' \in Starters
    BY <1>0, <1>t, <1>5
       DEF StarterGivesUp, TypeOK, Starters, Handles, StarterControl, Goes,
           Onwards, NoStarter
  <2>2. TypeOK'
    BY <1>0, <1>5, <2>1
       DEF StarterGivesUp, TypeOK, mainVars, launchVars, Processes, CleanSockets,
           Generation
  <2>3. StarterControl'
    BY <1>0, <1>t, <1>5, <2>1
       DEF StarterGivesUp, TypeOK, StarterControl, mainVars, Goes, Onwards,
           NoStarter, Generation, Handles
  <2>4. MainControl'
    BY <1>0, <1>5 DEF StarterGivesUp, MainControl, mainVars
  <2>5. MonitorControl'
    BY <1>0, <1>t, <1>5, <2>1
       DEF StarterGivesUp, TypeOK, MonitorControl, StarterControl, mainVars,
           Stoppers, Goes, Onwards, NoStarter, Generation
  <2>6. QED
    BY <2>2, <2>3, <2>4, <2>5 DEF IInv
<1>6. CASE StarterSkips
  <2>1. starter.at <= 4 /\ Onwards
    BY <1>0, <1>t, <1>6 DEF StarterSkips, StarterControl
  <2>2. starter' \in Starters
    BY <1>0, <1>t, <1>6, <2>1, OnwardsStep
       DEF StarterSkips, TypeOK, Starters, Handles, StarterControl, Goes, Onwards,
           NoStarter
  <2>3. TypeOK'
    BY <1>0, <1>6, <2>1, <2>2
       DEF StarterSkips, TypeOK, mainVars, launchVars, Processes, CleanSockets,
           Generation
  <2>4. StarterControl'
    BY <1>0, <1>t, <1>6, <2>1, <2>2, OnwardsStep
       DEF StarterSkips, TypeOK, StarterControl, mainVars, Goes, Onwards,
           NoStarter, Generation, Handles
  <2>5. MainControl'
    BY <1>0, <1>6 DEF StarterSkips, MainControl, mainVars
  <2>6. MonitorControl'
    BY <1>0, <1>t, <1>6, <2>1, <2>2, OnwardsStep
       DEF StarterSkips, TypeOK, MonitorControl, StarterControl, mainVars,
           Stoppers, Goes, Onwards, NoStarter, Generation
  <2>7. QED
    BY <2>3, <2>4, <2>5, <2>6 DEF IInv
<1>7. CASE StarterSpawns
  <2>1. starter.holds \in Generation /\ Order[starter.at] \in Role
    BY <1>0, <1>t, <1>7, OrderType DEF StarterSpawns, StarterControl, Handles
  <2>2. process' \in Processes
    BY <1>0, <1>7, <2>1, ProcessStep DEF StarterSpawns
  <2>3. starter' \in Starters
    BY <1>0, <1>t, <1>7, OnwardsStep
       DEF StarterSpawns, TypeOK, Starters, Handles, StarterControl, Goes, Onwards,
           NoStarter
  <2>4. TypeOK'
    BY <1>0, <1>7, <2>2, <2>3
       DEF StarterSpawns, TypeOK, mainVars, launchVars, Processes, CleanSockets,
           Generation
  <2>5. StarterControl'
    BY <1>0, <1>t, <1>7, <2>2, <2>3, OnwardsStep
       DEF StarterSpawns, TypeOK, StarterControl, mainVars, Goes, Onwards,
           NoStarter, Generation, Handles
  <2>6. MainControl'
    BY <1>0, <1>7 DEF StarterSpawns, MainControl, mainVars
  <2>7. MonitorControl'
    BY <1>0, <1>t, <1>7, <2>2, <2>3, OnwardsStep
       DEF StarterSpawns, TypeOK, MonitorControl, StarterControl, mainVars,
           Stoppers, Goes, Onwards, NoStarter, Generation
  <2>8. QED
    BY <2>4, <2>5, <2>6, <2>7 DEF IInv
<1>8. CASE StarterSpawnFails
  <2>1. starter' \in Starters
    BY <1>0, <1>t, <1>8
       DEF StarterSpawnFails, TypeOK, Starters, Handles, StarterControl, Goes,
           Onwards, NoStarter
  <2>2. TypeOK'
    BY <1>0, <1>8, <2>1
       DEF StarterSpawnFails, TypeOK, mainVars, launchVars, Processes,
           CleanSockets, Generation
  <2>3. StarterControl'
    BY <1>0, <1>t, <1>8, <2>1
       DEF StarterSpawnFails, TypeOK, StarterControl, mainVars, Goes, Onwards,
           NoStarter, Generation, Handles
  <2>4. MainControl'
    BY <1>0, <1>8 DEF StarterSpawnFails, MainControl, mainVars
  <2>5. MonitorControl'
    BY <1>0, <1>t, <1>8, <2>1
       DEF StarterSpawnFails, TypeOK, MonitorControl, StarterControl, mainVars,
           Stoppers, Goes, Onwards, NoStarter, Generation
  <2>6. QED
    BY <2>2, <2>3, <2>4, <2>5 DEF IInv
<1>9. CASE StarterDropsChildren
  <2>1. starter.holds \in Generation
    BY <1>0, <1>t, <1>9 DEF StarterDropsChildren, StarterControl, Handles
  <2>2. starter' \in Starters
    BY <1>0, <1>t, <1>9
       DEF StarterDropsChildren, TypeOK, Starters, Handles, StarterControl, Goes,
           Onwards, NoStarter
  <2>3. TypeOK'
    BY <1>0, <1>9, <2>1, <2>2
       DEF StarterDropsChildren, TypeOK, mainVars, launchVars, Processes,
           CleanSockets, Generation
  <2>4. StarterControl'
    BY <1>0, <1>t, <1>9, <2>1, <2>2
       DEF StarterDropsChildren, TypeOK, StarterControl, mainVars, Goes, Onwards,
           NoStarter, Generation, Handles
  <2>5. MainControl'
    BY <1>0, <1>9 DEF StarterDropsChildren, MainControl, mainVars
  <2>6. MonitorControl'
    BY <1>0, <1>t, <1>9, <2>1, <2>2
       DEF StarterDropsChildren, TypeOK, MonitorControl, StarterControl, mainVars,
           Stoppers, Goes, Onwards, NoStarter, Generation
  <2>7. QED
    BY <2>3, <2>4, <2>5, <2>6 DEF IInv
<1>10. CASE StarterSeesReady
  <2>1. starter.at <= 4 /\ Onwards
    BY <1>0, <1>t, <1>10 DEF StarterSeesReady, StarterControl
  <2>2. starter' \in Starters
    BY <1>0, <1>t, <1>10, <2>1, OnwardsStep
       DEF StarterSeesReady, TypeOK, Starters, Handles, StarterControl, Goes,
           Onwards, NoStarter
  <2>3. TypeOK'
    BY <1>0, <1>10, <2>1, <2>2
       DEF StarterSeesReady, TypeOK, mainVars, launchVars, Processes, CleanSockets,
           Generation
  <2>4. StarterControl'
    BY <1>0, <1>t, <1>10, <2>1, <2>2, OnwardsStep
       DEF StarterSeesReady, TypeOK, StarterControl, mainVars, Goes, Onwards,
           NoStarter, Generation, Handles
  <2>5. MainControl'
    BY <1>0, <1>10 DEF StarterSeesReady, MainControl, mainVars
  <2>6. MonitorControl'
    BY <1>0, <1>t, <1>10, <2>1, <2>2, OnwardsStep
       DEF StarterSeesReady, TypeOK, MonitorControl, StarterControl, mainVars,
           Stoppers, Goes, Onwards, NoStarter, Generation
  <2>7. QED
    BY <2>3, <2>4, <2>5, <2>6 DEF IInv
<1>11. CASE StarterSeesFailure
  <2>1. starter' \in Starters
    BY <1>0, <1>t, <1>11
       DEF StarterSeesFailure, TypeOK, Starters, Handles, StarterControl, Goes,
           Onwards, NoStarter
  <2>2. TypeOK'
    BY <1>0, <1>11, <2>1
       DEF StarterSeesFailure, TypeOK, mainVars, launchVars, Processes,
           CleanSockets, Generation
  <2>3. StarterControl'
    BY <1>0, <1>t, <1>11, <2>1
       DEF StarterSeesFailure, TypeOK, StarterControl, mainVars, Goes, Onwards,
           NoStarter, Generation, Handles
  <2>4. MainControl'
    BY <1>0, <1>11 DEF StarterSeesFailure, MainControl, mainVars
  <2>5. MonitorControl'
    BY <1>0, <1>t, <1>11, <2>1
       DEF StarterSeesFailure, TypeOK, MonitorControl, StarterControl, mainVars,
           Stoppers, Goes, Onwards, NoStarter, Generation
  <2>6. QED
    BY <2>2, <2>3, <2>4, <2>5 DEF IInv
<1>12. CASE StarterUndoes
  <2>1. starter.holds \in Generation
    BY <1>0, <1>t, <1>12 DEF StarterUndoes, StarterControl, Handles
  <2>2. process' \in Processes
    BY <1>0, <1>12, <2>1, StoppedType DEF StarterUndoes
  <2>3. starter' \in Starters
    BY <1>0, <1>t, <1>12, <2>2
       DEF StarterUndoes, TypeOK, Starters, Handles, StarterControl, Goes, Onwards,
           NoStarter
  <2>4. TypeOK'
    BY <1>0, <1>12, <2>2, <2>3
       DEF StarterUndoes, TypeOK, mainVars, launchVars, Processes, CleanSockets,
           Generation
  <2>5. StarterControl'
    BY <1>0, <1>t, <1>12, <2>2, <2>3
       DEF StarterUndoes, TypeOK, StarterControl, mainVars, Goes, Onwards,
           NoStarter, Generation, Handles
  <2>6. MainControl'
    BY <1>0, <1>12 DEF StarterUndoes, MainControl, mainVars
  <2>7. MonitorControl'
    BY <1>0, <1>t, <1>12, <2>2, <2>3
       DEF StarterUndoes, TypeOK, MonitorControl, StarterControl, mainVars,
           Stoppers, Goes, Onwards, NoStarter, Generation
  <2>8. QED
    BY <2>4, <2>5, <2>6, <2>7 DEF IInv
<1>13. CASE StarterPublishes
  <2>1. starter.holds \in Generation
    BY <1>0, <1>t, <1>13 DEF StarterPublishes, StarterControl, Handles
  <2>2. starter' \in Starters
    BY <1>0, <1>t, <1>13
       DEF StarterPublishes, TypeOK, Starters, Handles, StarterControl, Goes,
           Onwards, NoStarter
  <2>3. TypeOK'
    BY <1>0, <1>13, <2>1, <2>2
       DEF StarterPublishes, TypeOK, mainVars, launchVars, Processes, CleanSockets,
           Generation
  <2>4. StarterControl'
    BY <1>0, <1>t, <1>13, <2>1, <2>2
       DEF StarterPublishes, TypeOK, StarterControl, mainVars, Goes, Onwards,
           NoStarter, Generation, Handles
  <2>5. MainControl'
    BY <1>0, <1>13 DEF StarterPublishes, MainControl, mainVars
  <2>6. MonitorControl'
    BY <1>0, <1>t, <1>13, <2>1, <2>2
       DEF StarterPublishes, TypeOK, MonitorControl, StarterControl, mainVars,
           Stoppers, Goes, Onwards, NoStarter, Generation
  <2>7. QED
    BY <2>3, <2>4, <2>5, <2>6 DEF IInv
<1>14. CASE StarterSpawnsMonitor
  <2>1. starter.holds \in Generation
    BY <1>0, <1>t, <1>14 DEF StarterSpawnsMonitor, StarterControl, Handles
  <2>2. monitor' \in [Generation -> Stoppers]
    BY <1>0, <1>14, <2>1 DEF StarterSpawnsMonitor, TypeOK, Stoppers
  <2>3. starter' \in Starters
    BY <1>0, <1>t, <1>14
       DEF StarterSpawnsMonitor, TypeOK, Starters, Handles, StarterControl, Goes,
           Onwards, NoStarter
  <2>4. TypeOK'
    BY <1>0, <1>14, <2>1, <2>2, <2>3
       DEF StarterSpawnsMonitor, TypeOK, mainVars, launchVars, Processes,
           CleanSockets, Generation
  <2>5. StarterControl'
    BY <1>0, <1>t, <1>14, <2>1, <2>2, <2>3
       DEF StarterSpawnsMonitor, TypeOK, StarterControl, mainVars, Goes, Onwards,
           NoStarter, Generation, Handles
  <2>6. MainControl'
    BY <1>0, <1>14 DEF StarterSpawnsMonitor, MainControl, mainVars
  <2>7. MonitorControl'
    BY <1>0, <1>t, <1>14, <2>1, <2>2, <2>3
       DEF StarterSpawnsMonitor, TypeOK, MonitorControl, StarterControl, mainVars,
           Stoppers, Goes, Onwards, NoStarter, Generation
  <2>8. QED
    BY <2>4, <2>5, <2>6, <2>7 DEF IInv
<1>15. CASE StarterEnds
  <2>1. starter' \in Starters
    BY <1>0, <1>t, <1>15
       DEF StarterEnds, TypeOK, Starters, Handles, StarterControl, Goes, Onwards,
           NoStarter
  <2>2. TypeOK'
    BY <1>0, <1>15, <2>1
       DEF StarterEnds, TypeOK, mainVars, launchVars, Processes, CleanSockets,
           Generation
  <2>3. StarterControl'
    BY <1>0, <1>t, <1>15, <2>1
       DEF StarterEnds, TypeOK, StarterControl, mainVars, Goes, Onwards, NoStarter,
           Generation, Handles
  <2>4. MainControl'
    BY <1>0, <1>15 DEF StarterEnds, MainControl, mainVars
  <2>5. MonitorControl'
    BY <1>0, <1>t, <1>15, <2>1
       DEF StarterEnds, TypeOK, MonitorControl, StarterControl, mainVars, Stoppers,
           Goes, Onwards, NoStarter, Generation
  <2>6. QED
    BY <2>2, <2>3, <2>4, <2>5 DEF IInv
<1>16. QED
  BY <1>1, <1>2, <1>3, <1>4, <1>5, <1>6, <1>7, <1>8, <1>9, <1>10, <1>11, <1>12, <1>13, <1>14, <1>15
     DEF StarterSteps

LEMMA MainIInv ==
  ASSUME IInv, Resumed \/ SuspendedAsTrackpad \/ Suspended \/ MainStops \/ MainCleans
  PROVE  IInv'
<1> USE DEF None, Building
<1>0. /\ TypeOK /\ MainControl /\ MonitorControl /\ StarterControl
      /\ process \in Processes
  BY DEF IInv, TypeOK, Processes
<1>1. CASE Resumed
  <2>1. resumes + 1 \in Generation
    BY <1>0, <1>1, ConstantsType DEF Resumed, TypeOK, Generation
  <2>2. launch_running' \in BOOLEAN
        /\ launcher' \in [Generation -> {"none", "clean", "start", "session", "ended"}]
    BY <1>0, <1>1, <2>1 DEF Resumed, Launch, TypeOK
  <2>3. starter' \in Starters /\ start_in_progress' \in BOOLEAN
    BY <1>0, <1>1 DEF Resumed, SpawnAfterReady, NoStarter, Starters, TypeOK
  <2>4. TypeOK'
    BY <1>0, <1>1, <2>1, <2>2, <2>3
       DEF Resumed, TypeOK, startVars, launchVars, Processes, CleanSockets,
           Generation
  <2>5. StarterControl'
    BY <1>0, <1>1
       DEF Resumed, TypeOK, StarterControl, startVars, SpawnAfterReady, NoStarter
  <2>6. MainControl' /\ MonitorControl'
    BY <1>0, <1>1
       DEF Resumed, TypeOK, MainControl, MonitorControl, Idle, startVars,
           SpawnAfterReady, NoStarter
  <2>7. QED
    BY <2>4, <2>5, <2>6 DEF IInv
<1>2. CASE SuspendedAsTrackpad
  <2>1. TypeOK'
    BY <1>0, <1>2
       DEF SuspendedAsTrackpad, TypeOK, startVars, launchVars, Processes,
           CleanSockets, Generation
  <2>2. StarterControl'
    BY <1>0, <1>2
       DEF SuspendedAsTrackpad, TypeOK, StarterControl, startVars, SpawnAfterReady,
           NoStarter
  <2>3. MainControl' /\ MonitorControl'
    BY <1>0, <1>2
       DEF SuspendedAsTrackpad, TypeOK, MainControl, MonitorControl, Idle,
           startVars, SpawnAfterReady, NoStarter
  <2>4. QED
    BY <2>1, <2>2, <2>3 DEF IInv
<1>3. CASE Suspended
  <2>1. main' \in Stoppers
    BY <1>0, <1>3 DEF Suspended, TypeOK, Stoppers
  <2>2. TypeOK'
    BY <1>0, <1>3, <2>1
       DEF Suspended, TypeOK, startVars, launchVars, Processes, CleanSockets,
           Generation
  <2>3. StarterControl'
    BY <1>0, <1>3
       DEF Suspended, TypeOK, StarterControl, startVars, SpawnAfterReady, NoStarter
  <2>4. MainControl' /\ MonitorControl'
    BY <1>0, <1>3
       DEF Suspended, TypeOK, MainControl, MonitorControl, Idle, startVars,
           SpawnAfterReady, NoStarter
  <2>5. QED
    BY <2>2, <2>3, <2>4 DEF IInv
<1>4. CASE MainStops
  <2>1. main' \in Stoppers
    BY <1>0, <1>4 DEF MainStops, TypeOK, Stoppers
  <2>2. process' \in Processes
    <3>1. main.holds \in Generation
      BY <1>0, <1>4 DEF MainStops, MainControl, TypeOK, Stoppers
    <3>2. QED
      BY <1>0, <3>1, <1>4, StoppedType DEF MainStops
  <2>3. TypeOK'
    BY <1>0, <1>4, <2>1, <2>2
       DEF MainStops, TypeOK, startVars, launchVars, Processes, CleanSockets,
           Generation
  <2>4. StarterControl'
    BY <1>0, <1>4
       DEF MainStops, TypeOK, StarterControl, startVars, SpawnAfterReady, NoStarter
  <2>5. MainControl' /\ MonitorControl'
    BY <1>0, <1>4
       DEF MainStops, TypeOK, MainControl, MonitorControl, Idle, startVars,
           SpawnAfterReady, NoStarter
  <2>6. QED
    BY <2>3, <2>4, <2>5 DEF IInv
<1>5. CASE MainCleans
  <2>1. main' \in Stoppers
    BY <1>5 DEF MainCleans, Idle, Stoppers
  <2>2. TypeOK'
    BY <1>0, <1>5, <2>1
       DEF MainCleans, TypeOK, startVars, launchVars, Processes, CleanSockets,
           Generation
  <2>3. StarterControl'
    BY <1>0, <1>5
       DEF MainCleans, TypeOK, StarterControl, startVars, SpawnAfterReady,
           NoStarter
  <2>4. MainControl' /\ MonitorControl'
    BY <1>0, <1>5
       DEF MainCleans, TypeOK, MainControl, MonitorControl, Idle, startVars,
           SpawnAfterReady, NoStarter
  <2>5. QED
    BY <2>2, <2>3, <2>4 DEF IInv
<1>6. QED
  BY <1>1, <1>2, <1>3, <1>4, <1>5

LEMMA MonitorIInv ==
  ASSUME IInv, NEW m \in Generation, MonitorSteps(m) PROVE IInv'
<1> USE DEF None, Building
<1>0. /\ TypeOK /\ MainControl /\ MonitorControl /\ StarterControl
      /\ process \in Processes
  BY DEF IInv, TypeOK, Processes
<1>1. CASE MonitorPolls(m)
  <2>1. \E s \in Stoppers : monitor' = [monitor EXCEPT ![m] = s]
    BY <1>0, <1>1 DEF MonitorPolls, TypeOK, Stoppers
  <2>t. monitor' \in [Generation -> Stoppers]
    BY <1>0, <2>1 DEF TypeOK
  <2>2. TypeOK'
    BY <1>0, <1>1, <2>t
       DEF MonitorPolls, TypeOK, mainVars, startVars, launchVars, Processes,
           CleanSockets
  <2>3. MonitorControl'
    <3>1. monitor'[m].pc # "watch" /\ (monitor'[m].holds # None <=> monitor'[m].pc = "stop")
      BY <1>0, <1>1 DEF MonitorPolls, TypeOK, MonitorControl, Stoppers
    <3>2. \A n \in Generation \ {m} : monitor'[n] = monitor[n]
      BY <1>0, <1>1 DEF MonitorPolls, TypeOK
    <3>3. monitor[m].pc # "none" /\ UNCHANGED <<starts, starter>>
      BY <1>1 DEF MonitorPolls, startVars
    <3>4. QED
      BY <1>0, <3>1, <3>2, <3>3 DEF MonitorControl
  <2>4. MainControl' /\ StarterControl'
    BY <1>0, <1>1
       DEF MonitorPolls, TypeOK, MainControl, StarterControl, mainVars, startVars
  <2>5. QED
    BY <2>2, <2>3, <2>4 DEF IInv
<1>2. CASE MonitorStops(m)
  <2>1. \E s \in Stoppers : monitor' = [monitor EXCEPT ![m] = s]
    BY <1>0, <1>2 DEF MonitorStops, TypeOK, Stoppers
  <2>t. monitor' \in [Generation -> Stoppers]
    BY <1>0, <2>1 DEF TypeOK
  <2>2. process' \in Processes
    <3>1. monitor[m].holds \in Generation
      BY <1>0, <1>2 DEF MonitorStops, MonitorControl, TypeOK, Stoppers
    <3>2. QED
      BY <1>0, <3>1, <1>2, StoppedType DEF MonitorStops
  <2>3. TypeOK'
    BY <1>0, <1>2, <2>t, <2>2
       DEF MonitorStops, TypeOK, mainVars, startVars, launchVars, Processes,
           CleanSockets
  <2>4. MonitorControl'
    <3>1. monitor'[m].pc # "watch" /\ (monitor'[m].holds # None <=> monitor'[m].pc = "stop")
      BY <1>0, <1>2 DEF MonitorStops, TypeOK, MonitorControl, Stoppers
    <3>2. \A n \in Generation \ {m} : monitor'[n] = monitor[n]
      BY <1>0, <1>2 DEF MonitorStops, TypeOK
    <3>3. monitor[m].pc # "none" /\ UNCHANGED <<starts, starter>>
      BY <1>2 DEF MonitorStops, startVars
    <3>4. QED
      BY <1>0, <3>1, <3>2, <3>3 DEF MonitorControl
  <2>5. MainControl' /\ StarterControl'
    BY <1>0, <1>2
       DEF MonitorStops, TypeOK, MainControl, StarterControl, mainVars, startVars
  <2>6. QED
    BY <2>3, <2>4, <2>5 DEF IInv
<1>3. CASE MonitorCleans(m)
  <2>1. \E s \in Stoppers : monitor' = [monitor EXCEPT ![m] = s]
    BY <1>0, <1>3 DEF MonitorCleans, TypeOK, Stoppers
  <2>t. monitor' \in [Generation -> Stoppers]
    BY <1>0, <2>1 DEF TypeOK
  <2>2. TypeOK'
    BY <1>0, <1>3, <2>t
       DEF MonitorCleans, TypeOK, mainVars, startVars, launchVars, Processes,
           CleanSockets
  <2>3. MonitorControl'
    <3>1. monitor'[m].pc # "watch" /\ (monitor'[m].holds # None <=> monitor'[m].pc = "stop")
      BY <1>0, <1>3 DEF MonitorCleans, TypeOK, MonitorControl, Stoppers
    <3>2. \A n \in Generation \ {m} : monitor'[n] = monitor[n]
      BY <1>0, <1>3 DEF MonitorCleans, TypeOK
    <3>3. monitor[m].pc # "none" /\ UNCHANGED <<starts, starter>>
      BY <1>3 DEF MonitorCleans, startVars
    <3>4. QED
      BY <1>0, <3>1, <3>2, <3>3 DEF MonitorControl
  <2>4. MainControl' /\ StarterControl'
    BY <1>0, <1>3
       DEF MonitorCleans, TypeOK, MainControl, StarterControl, mainVars, startVars
  <2>5. QED
    BY <2>2, <2>3, <2>4 DEF IInv
<1>4. QED
  BY <1>1, <1>2, <1>3 DEF MonitorSteps

LEMMA OthersIInv ==
  ASSUME IInv, NEW g \in Generation,
         \/ \E s \in Socket : DaemonListens(g, s)
         \/ \E r \in Role : ChildExits(g, r)
         \/ LauncherCleans(g) \/ SessionStarts(g) \/ SessionEnds(g)
  PROVE  IInv'
<1>0. /\ TypeOK /\ MainControl /\ MonitorControl /\ StarterControl
      /\ process \in Processes
  BY DEF IInv, TypeOK, Processes
<1>1. UNCHANGED <<mainVars, startVars, children, monitor>>
  BY DEF DaemonListens, ChildExits, LauncherCleans, SessionStarts, SessionEnds
<1>2. MainControl' /\ MonitorControl' /\ StarterControl'
  BY <1>0, <1>1
     DEF MainControl, MonitorControl, StarterControl, Building, mainVars, startVars
<1>3. process' \in Processes
  BY <1>0, ProcessStep DEF DaemonListens, ChildExits, LauncherCleans, SessionStarts,
     SessionEnds, Socket, Role
<1>4. socket' \in [Socket -> Handles]
  BY <1>0
     DEF TypeOK, Handles, DaemonListens, ChildExits, LauncherCleans, SessionStarts,
     SessionEnds
<1>5. /\ launch_running' \in BOOLEAN /\ x_lock' \in Handles
      /\ launcher' \in [Generation -> {"none", "clean", "start", "session", "ended"}]
  BY <1>0
     DEF TypeOK, Handles, None, DaemonListens, ChildExits, LauncherCleans,
         SessionStarts,
     SessionEnds, launchVars
<1>6. TypeOK'
  BY <1>0, <1>1, <1>3, <1>4, <1>5
     DEF TypeOK, Processes, Handles, mainVars, startVars
<1>7. QED
  BY <1>2, <1>6 DEF IInv

LEMMA StepIInv == IInv /\ [Next]_vars => IInv'
<1> SUFFICES ASSUME IInv, [Next]_vars PROVE IInv'
  OBVIOUS
<1>1. CASE Next
  BY <1>1, MainIInv, StarterIInv, MonitorIInv, OthersIInv DEF Next
<1>2. CASE UNCHANGED vars
  BY <1>2 DEF IInv, TypeOK, MainControl, MonitorControl, StarterControl, Building,
              vars, mainVars, launchVars, startVars
<1>3. QED
  BY <1>1, <1>2

\* Every thread's state stays in its type, however often the app is resumed.
THEOREM Typing == Spec => []TypeOK
<1>1. IInv => TypeOK
  BY DEF IInv
<1>2. QED
  BY <1>1, InitIInv, StepIInv, PTL DEF Spec

(***************************************************************************)
(* Who can stop whom                                                       *)
(***************************************************************************)

\* Owners as a condition on where the handles are.
Owned(g) ==
  \/ children = g
  \/ main.holds = g
  \/ starter.holds = g /\ starter.pc # "watch"
  \/ \E m \in Generation : monitor[m].holds = g

Running(g) == \E r \in Role : process[g][r] \in {"running", "listening"}

Kept == \A g \in Generation \ abandoned : Running(g) => Owned(g)

LEMMA KeptIsNoOrphans == Kept <=> NoOrphans
<1>1. \A g \in Generation : Owners(g) # {} <=> Owned(g)
  BY DEF Owners, Owned
<1>2. \A g \in Generation : Live(g) # {} <=> Running(g)
  BY DEF Live, Running
<1>3. QED
  BY <1>1, <1>2 DEF Kept, NoOrphans

\* Nothing of a generation runs once it was stopped; the others are untouched.
LEMMA StoppedStops ==
  ASSUME process \in Processes, NEW g \in Generation, process' = Stopped(g)
  PROVE  /\ ~Running(g)'
         /\ \A h \in Generation \ {g} : Running(h)' => Running(h)
BY DEF Stopped, Running, Processes

LEMMA StarterKept == ASSUME IInv, Kept, StarterSteps PROVE Kept'
<1> USE DEF None
<1>0. /\ starter.holds \in Handles /\ process \in Processes
      /\ StarterControl /\ MonitorControl
      /\ monitor \in [Generation -> Stoppers]
  BY DEF IInv, TypeOK, Starters, Handles, Processes
<1>1. CASE StarterStopsStale \/ StarterUndoes
  <2>1. /\ starter.holds \in Generation /\ process' = Stopped(starter.holds)
        /\ UNCHANGED <<children, main, monitor, abandoned>>
    BY <1>0, <1>1 DEF StarterStopsStale, StarterUndoes, StarterControl, Handles, mainVars
  <2>2. \A g \in Generation \ {starter.holds} : Owned(g) => Owned(g)'
    BY <2>1 DEF Owned
  <2>3. QED
    BY <1>0, <2>1, <2>2, StoppedStops DEF Kept
<1>2. CASE StarterSpawns
  <2>1. /\ starter.holds \in Generation /\ Order[starter.at] \in Role
        /\ starter'.holds = starter.holds /\ starter'.pc # "watch" /\ starter.pc # "watch"
    <3>1. starter \in Starters /\ starter.pc = "spawn" /\ starter.at <= 4
      BY <1>0, <1>2 DEF IInv, TypeOK, StarterSpawns, StarterControl
    <3>2. starter.holds \in Generation
      BY <1>0, <3>1 DEF StarterControl, Handles
    <3>3. Order[starter.at] \in Role
      BY <3>1, OrderType DEF Starters
    <3>4. starter'.holds = starter.holds /\ starter'.pc # "watch"
      BY <1>2, <3>1, OnwardsStep DEF StarterSpawns, Goes, Starters
    <3>5. QED
      BY <3>1, <3>2, <3>3, <3>4
  <2>2. process' = [process EXCEPT ![starter.holds][Order[starter.at]] = "running"]
        /\ UNCHANGED <<children, main, monitor, abandoned>>
    BY <1>2 DEF StarterSpawns, mainVars
  <2>3. \A g \in Generation \ {starter.holds} : Running(g)' => Running(g)
    BY <1>0, <2>1, <2>2 DEF Running, Processes
  <2>4. Owned(starter.holds)' /\ \A g \in Generation : Owned(g) => Owned(g)'
    BY <2>1, <2>2 DEF Owned
  <2>5. ASSUME NEW g \in Generation \ abandoned', Running(g)' PROVE Owned(g)'
    <3>1. CASE g = starter.holds
      BY <2>1, <2>4, <3>1 DEF Owned
    <3>2. CASE g # starter.holds
      BY <2>2, <2>3, <2>4, <2>5, <3>2 DEF Kept
    <3>3. QED
      BY <3>1, <3>2
  <2>6. QED
    BY <2>5 DEF Kept
<1>3. CASE StarterDropsChildren
  <2>1. /\ abandoned' = abandoned \cup {starter.holds}
        /\ UNCHANGED <<children, main, monitor, process>>
    BY <1>3 DEF StarterDropsChildren, mainVars
  <2>2. \A g \in Generation \ {starter.holds} : Owned(g) => Owned(g)'
    BY <2>1 DEF Owned
  <2>3. QED
    BY <2>1, <2>2 DEF Kept, Running
<1>4. CASE StarterChecks \/ StarterPublishes
  <2>1. UNCHANGED <<main, monitor, process, abandoned>>
    BY <1>4 DEF StarterChecks, StarterPublishes, mainVars
  <2>2. ASSUME NEW g \in Generation, Owned(g) PROVE Owned(g)'
    <3>1. CASE StarterChecks
      <4>1. starter.holds = None
        BY <1>0, <3>1 DEF StarterChecks, StarterControl
      <4>2. children = g => children' = g \/ (starter'.holds = g /\ starter'.pc = "stop")
        BY <3>1, <1>0 DEF StarterChecks, IInv, TypeOK, Starters
      <4>3. QED
        BY <2>1, <2>2, <4>1, <4>2 DEF Owned, Generation
    <3>2. CASE StarterPublishes
      <4>1. children = None /\ children' = starter.holds
        BY <1>0, <3>2 DEF StarterPublishes, StarterControl
      <4>2. QED
        BY <2>1, <2>2, <4>1 DEF Owned, Generation
    <3>3. QED
      BY <1>4, <3>1, <3>2
  <2>3. QED
    BY <2>1, <2>2 DEF Kept, Running
<1>5. CASE StarterSpawnsMonitor
  <2>1. starter.holds \in Generation /\ monitor[starter.holds].pc = "none"
    BY <1>0, <1>5 DEF StarterSpawnsMonitor, StarterControl, MonitorControl, Handles, Building
  <2>2. /\ \A m \in Generation : monitor'[m].holds = monitor[m].holds
        /\ starter.pc = "watch"
        /\ UNCHANGED <<children, main, process, abandoned>>
    BY <1>0, <1>5, <2>1 DEF StarterSpawnsMonitor, Stoppers, mainVars
  <2>3. QED
    BY <2>2 DEF Kept, Owned, Running
<1>6. CASE StarterPrepares
  <2>1. starter.holds = None /\ UNCHANGED <<children, main, monitor, process, abandoned>>
    BY <1>0, <1>6 DEF StarterPrepares, StarterControl, mainVars
  <2>2. QED
    BY <2>1 DEF Kept, Owned, Running, Generation
<1>7. CASE \/ StarterCleansStale \/ StarterGivesUp \/ StarterSkips \/ StarterSpawnFails
           \/ StarterSeesReady \/ StarterSeesFailure
  <2>1. /\ starter'.holds = starter.holds /\ starter'.pc # "watch"
        /\ UNCHANGED <<children, main, monitor, process, abandoned>>
    BY <1>7 DEF IInv, TypeOK, Starters, Goes, Onwards, mainVars, StarterCleansStale,
       StarterGivesUp, StarterSkips, StarterSpawnFails, StarterSeesReady, StarterSeesFailure
  <2>2. QED
    BY <2>1 DEF Kept, Owned, Running
<1>8. CASE StarterEnds
  <2>1. starter.holds = None /\ UNCHANGED <<children, main, monitor, process, abandoned>>
    BY <1>0, <1>8 DEF StarterEnds, StarterControl, mainVars
  <2>2. QED
    BY <2>1 DEF Kept, Owned, Running, Generation
<1>9. QED
  BY <1>1, <1>2, <1>3, <1>4, <1>5, <1>6, <1>7, <1>8 DEF StarterSteps

LEMMA MainKept ==
  ASSUME IInv, Kept,
         Resumed \/ SuspendedAsTrackpad \/ Suspended \/ MainStops \/ MainCleans
  PROVE  Kept'
<1> USE DEF None
<1>0. MainControl /\ StarterControl /\ process \in Processes /\ main \in Stoppers
  BY DEF IInv, TypeOK, Processes
<1>1. CASE Resumed
  <2>1. UNCHANGED <<children, main, monitor, process, abandoned>>
    BY <1>1 DEF Resumed
  <2>2. starter.pc # "none" => starter' = starter
    BY <1>0, <1>1 DEF Resumed, SpawnAfterReady, StarterControl
  <2>3. starter.pc = "none" => starter.holds = None
    BY <1>0 DEF StarterControl
  <2>4. QED
    BY <2>1, <2>2, <2>3 DEF Kept, Owned, Running, Generation
<1>2. CASE SuspendedAsTrackpad
  BY <1>2 DEF SuspendedAsTrackpad, Kept, Owned, Running, startVars
<1>3. CASE Suspended
  <2>1. main.holds = None
    BY <1>0, <1>3 DEF Suspended, MainControl
  <2>2. main'.holds = children /\ UNCHANGED <<starter, monitor, process, abandoned>>
    BY <1>3 DEF Suspended, startVars
  <2>3. QED
    BY <2>1, <2>2 DEF Kept, Owned, Running, Generation
<1>4. CASE MainStops
  <2>1. /\ main.holds \in Generation /\ process' = Stopped(main.holds)
        /\ UNCHANGED <<starter, children, monitor, abandoned>>
    BY <1>0, <1>4 DEF MainStops, MainControl, Stoppers, startVars
  <2>2. \A g \in Generation \ {main.holds} : Owned(g) => Owned(g)'
    BY <2>1 DEF Owned
  <2>3. QED
    BY <1>0, <2>1, <2>2, StoppedStops DEF Kept
<1>5. CASE MainCleans
  <2>1. main.holds = None /\ UNCHANGED <<starter, children, monitor, process, abandoned>>
    BY <1>0, <1>5 DEF MainCleans, MainControl, startVars
  <2>2. QED
    BY <2>1 DEF Kept, Owned, Running, Generation
<1>6. QED
  BY <1>1, <1>2, <1>3, <1>4, <1>5

LEMMA MonitorKept ==
  ASSUME IInv, Kept, NEW m \in Generation, MonitorSteps(m) PROVE Kept'
<1> USE DEF None
<1>0. /\ MonitorControl /\ process \in Processes
      /\ monitor \in [Generation -> Stoppers]
  BY DEF IInv, TypeOK, Processes
<1>1. \A n \in Generation \ {m} : monitor'[n] = monitor[n]
  BY <1>0 DEF MonitorSteps, MonitorPolls, MonitorStops, MonitorCleans
<1>2. UNCHANGED <<main, starter, abandoned>>
  BY DEF MonitorSteps, MonitorPolls, MonitorStops, MonitorCleans, mainVars, startVars
<1>3. CASE MonitorPolls(m)
  <2>1. monitor[m].holds = None /\ process' = process
    BY <1>0, <1>3 DEF MonitorPolls, MonitorControl
  <2>2. children' = children \/ monitor'[m].holds = children
    BY <1>0, <1>3 DEF MonitorPolls
  <2>3. QED
    BY <1>1, <1>2, <2>1, <2>2 DEF Kept, Owned, Running, Generation
<1>4. CASE MonitorStops(m)
  <2>1. /\ monitor[m].holds \in Generation /\ process' = Stopped(monitor[m].holds)
        /\ children' = children
    BY <1>0, <1>4 DEF MonitorStops, MonitorControl, Stoppers
  <2>2. \A g \in Generation \ {monitor[m].holds} : Owned(g) => Owned(g)'
    BY <1>1, <1>2, <2>1 DEF Owned
  <2>3. QED
    BY <1>0, <1>2, <2>1, <2>2, StoppedStops DEF Kept
<1>5. CASE MonitorCleans(m)
  <2>1. monitor[m].holds = None /\ UNCHANGED <<process, children>>
    BY <1>0, <1>5 DEF MonitorCleans, MonitorControl
  <2>2. QED
    BY <1>1, <1>2, <2>1 DEF Kept, Owned, Running, Generation
<1>6. QED
  BY <1>3, <1>4, <1>5 DEF MonitorSteps

LEMMA OthersKept ==
  ASSUME IInv, Kept, NEW g \in Generation,
         \/ \E s \in Socket : DaemonListens(g, s)
         \/ \E r \in Role : ChildExits(g, r)
         \/ LauncherCleans(g) \/ SessionStarts(g) \/ SessionEnds(g)
  PROVE  Kept'
<1>1. UNCHANGED <<mainVars, startVars, children, monitor>>
  BY DEF DaemonListens, ChildExits, LauncherCleans, SessionStarts, SessionEnds
<1>2. \A h \in Generation : Running(h)' => Running(h)
  <2>1. process \in Processes
    BY DEF IInv, TypeOK, Processes
  <2>2. CASE \E s \in Socket : DaemonListens(g, s)
    BY <2>1, <2>2 DEF DaemonListens, Running, Processes, Socket, Role
  <2>3. CASE \E r \in Role : ChildExits(g, r)
    BY <2>1, <2>3 DEF ChildExits, Running, Processes
  <2>4. CASE LauncherCleans(g) \/ SessionStarts(g) \/ SessionEnds(g)
    BY <2>4 DEF LauncherCleans, SessionStarts, SessionEnds, Running
  <2>5. QED
    BY <2>2, <2>3, <2>4
<1>3. QED
  BY <1>1, <1>2 DEF Kept, Owned, mainVars, startVars

\* Whatever the interleaving of the main loop, the starter and the monitors of
\* several starts, a running child is one that somebody can still stop.
THEOREM Orphans == Spec => []NoOrphans
<1>1. Init => Kept
  BY DEF Init, Kept, Running
<1>2. IInv /\ Kept /\ [Next]_vars => Kept'
  <2> SUFFICES ASSUME IInv, Kept, [Next]_vars PROVE Kept'
    OBVIOUS
  <2>1. CASE Next
    BY <2>1, MainKept, StarterKept, MonitorKept, OthersKept DEF Next
  <2>2. CASE UNCHANGED vars
    BY <2>2 DEF Kept, Owned, Running, vars, mainVars, startVars
  <2>3. QED
    BY <2>1, <2>2
<1>3. Kept => NoOrphans
  BY KeptIsNoOrphans
<1>4. QED
  BY <1>1, <1>2, <1>3, InitIInv, StepIInv, PTL DEF Spec

(***************************************************************************)
(* In one hand                                                             *)
(***************************************************************************)

\* The generation the starter would stop: once it has published its children
\* they are no longer its own.
StarterHand == IF starter.pc = "watch" THEN None ELSE starter.holds

\* No two hands have the same generation,
Alone ==
  /\ children # None =>
       /\ main.holds # children /\ StarterHand # children
       /\ \A m \in Generation : monitor[m].holds # children
  /\ main.holds # None =>
       /\ StarterHand # main.holds
       /\ \A m \in Generation : monitor[m].holds # main.holds
  /\ StarterHand # None => \A m \in Generation : monitor[m].holds # StarterHand
  /\ \A m, n \in Generation :
       monitor[m].holds # None /\ monitor[m].holds = monitor[n].holds => m = n

\* and none has one that was not started yet: the next start's is nobody's.
Begun ==
  /\ children <= starts /\ main.holds <= starts /\ StarterHand <= starts
  /\ \A m \in Generation : monitor[m].holds <= starts

HandInv == Alone /\ Begun /\ ChildrenWatched

LEMMA AloneIsOneOwner == Alone => OneOwner
<1> SUFFICES ASSUME Alone, NEW g \in Generation, NEW o \in Owners(g), NEW p \in Owners(g)
             PROVE  o = p
  BY DEF OneOwner
<1>1. /\ g # None
      /\ <<"main">> # <<"children">> /\ <<"starter">> # <<"children">>
      /\ <<"main">> # <<"starter">>
  BY DEF Generation, None
<1>2. ASSUME NEW x \in Owners(g)
      PROVE  \/ x = <<"children">> /\ children = g
             \/ x = <<"main">> /\ main.holds = g
             \/ x = <<"starter">> /\ StarterHand = g
             \/ \E m \in Generation : x = <<"monitor", m>> /\ monitor[m].holds = g
  BY <1>2 DEF Owners, StarterHand
<1>3. CASE \E m \in Generation : o = <<"monitor", m>> /\ monitor[m].holds = g
  BY <1>1, <1>2, <1>3 DEF Alone
<1>4. CASE \E m \in Generation : p = <<"monitor", m>> /\ monitor[m].holds = g
  BY <1>1, <1>2, <1>4 DEF Alone
<1>5. QED
  BY <1>1, <1>2, <1>3, <1>4 DEF Alone

\* Where the hands are in IInv's state.
LEMMA HandTypes ==
  ASSUME IInv
  PROVE  /\ children \in Handles /\ main.holds \in Handles /\ StarterHand \in Handles
         /\ \A m \in Generation : monitor[m].holds \in Handles
         /\ starts \in Nat
         /\ \A h \in Handles : h \in Int /\ (h # None => h \in Generation)
BY DEF IInv, TypeOK, Stoppers, Starters, Handles, StarterHand, Generation, None

\* Letting go, or keeping: no hand has more than it had.
LEMMA LettingGo ==
  ASSUME IInv, Alone, Begun,
         starts' = starts, children' \in {children, None},
         main'.holds \in {main.holds, None},
         StarterHand' \in {StarterHand, None},
         \A m \in Generation : monitor'[m].holds \in {monitor[m].holds, None}
  PROVE  Alone' /\ Begun'
<1>1. 0 <= starts
  BY HandTypes
<1>2. Alone'
  BY DEF Alone
<1>3. Begun'
  BY <1>1 DEF Begun, None
<1>4. QED
  BY <1>2, <1>3

LEMMA StarterHands ==
  ASSUME IInv, HandInv, StarterSteps PROVE HandInv'
<1>0. /\ starter \in Starters /\ StarterControl /\ MonitorControl
      /\ monitor \in [Generation -> Stoppers] /\ Alone /\ Begun /\ ChildrenWatched
      /\ starter.holds \in Handles /\ starts \in Nat
  BY HandTypes DEF IInv, TypeOK, HandInv, Starters, Handles
<1>1. CASE StarterChecks
  <2>1. UNCHANGED <<main, monitor, starts>>
    BY <1>1 DEF StarterChecks, mainVars
  <2>2. starter.holds = None /\ StarterHand = None
    BY <1>0, <1>1 DEF StarterChecks, StarterControl, StarterHand
  <2>3. CASE children' = None /\ StarterHand' = children
    <3>1. Alone'
      BY <1>0, <2>1, <2>2, <2>3 DEF Alone
    <3>2. Begun'
      BY <1>0, <2>1, <2>2, <2>3 DEF Begun, None
    <3>3. QED
      BY <2>3, <3>1, <3>2 DEF HandInv, ChildrenWatched
  <2>4. CASE UNCHANGED children /\ StarterHand' = None
    <3>1. Alone' /\ Begun'
      BY <1>0, <2>1, <2>4, LettingGo
    <3>2. ChildrenWatched'
      BY <1>0, <1>1, <2>1, <2>4 DEF ChildrenWatched, StarterChecks
    <3>3. QED
      BY <3>1, <3>2 DEF HandInv
  <2>5. QED
    BY <1>0, <1>1, <2>2, <2>3, <2>4 DEF StarterChecks, StarterHand, Goes, Starters
<1>2. CASE StarterPrepares
  <2>1. /\ UNCHANGED <<main, monitor, children>> /\ starts' = starts + 1
        /\ children = None /\ StarterHand' = starts + 1
    BY <1>0, <1>2 DEF StarterPrepares, StarterControl, StarterHand, mainVars
  <2>2. \A h \in Handles : h <= starts => h <= starts + 1 /\ h # starts + 1
    BY <1>0, HandTypes
  <2>3. Alone'
    BY <1>0, <2>1, <2>2, HandTypes DEF Alone, Begun
  <2>4. Begun'
    BY <1>0, <2>1, <2>2, HandTypes DEF Begun
  <2>5. QED
    BY <2>1, <2>3, <2>4 DEF HandInv, ChildrenWatched
<1>3. CASE StarterPublishes
  <2>1. /\ UNCHANGED <<main, monitor, starts>> /\ children = None
        /\ children' = StarterHand /\ StarterHand' = None /\ starter'.pc = "watch"
    BY <1>0, <1>3
       DEF StarterPublishes, StarterControl, StarterHand, Goes, mainVars, Starters
  <2>2. Alone'
    BY <1>0, <2>1 DEF Alone
  <2>3. Begun'
    BY <1>0, <2>1 DEF Begun, None
  <2>4. QED
    BY <2>1, <2>2, <2>3 DEF HandInv, ChildrenWatched
<1>4. CASE StarterSpawnsMonitor
  <2>1. starter.holds \in Generation /\ UNCHANGED <<main, children, starts>>
    BY <1>0, <1>4
       DEF StarterSpawnsMonitor, StarterControl, Handles, mainVars
  <2>2. /\ \A m \in Generation : monitor'[m].holds = monitor[m].holds
        /\ monitor'[starter.holds].pc = "watch" /\ StarterHand' = None
    BY <1>0, <1>4, <2>1 DEF StarterSpawnsMonitor, Stoppers, Starters, StarterHand
  <2>3. Alone' /\ Begun'
    BY <1>0, <2>1, <2>2, LettingGo
  <2>4. QED
    BY <2>1, <2>2, <2>3 DEF HandInv, ChildrenWatched
<1>5. CASE StarterStopsStale \/ StarterUndoes \/ StarterDropsChildren \/ StarterEnds
  <2>1. UNCHANGED <<main, monitor, children, starts>> /\ starter.pc # "watch"
    BY <1>5 DEF StarterStopsStale, StarterUndoes, StarterDropsChildren, StarterEnds, mainVars
  <2>2. starter'.holds = None
    <3>1. CASE StarterStopsStale
      BY <1>0, <3>1 DEF Starters, StarterStopsStale
    <3>2. CASE StarterUndoes
      BY <1>0, <3>2 DEF Starters, StarterUndoes
    <3>3. CASE StarterDropsChildren
      BY <1>0, <3>3 DEF Starters, StarterDropsChildren
    <3>4. CASE StarterEnds
      BY <3>4 DEF StarterEnds, NoStarter
    <3>5. QED
      BY <1>5, <3>1, <3>2, <3>3, <3>4
  <2>3. StarterHand' = None
    BY <2>2 DEF StarterHand
  <2>4. QED
    BY <1>0, <2>1, <2>3, LettingGo DEF HandInv, ChildrenWatched
<1>6. CASE \/ StarterCleansStale \/ StarterGivesUp \/ StarterSkips \/ StarterSpawns
           \/ StarterSpawnFails \/ StarterSeesReady \/ StarterSeesFailure
  <2>1. /\ starter'.holds = starter.holds /\ starter'.pc # "watch" /\ starter.pc # "watch"
        /\ UNCHANGED <<children, main, monitor, starts>>
    BY <1>0, <1>6 DEF Starters, Goes, Onwards, mainVars, StarterCleansStale, StarterSpawns,
       StarterGivesUp, StarterSkips, StarterSpawnFails, StarterSeesReady, StarterSeesFailure
  <2>2. StarterHand' = StarterHand
    BY <2>1 DEF StarterHand
  <2>3. QED
    BY <1>0, <2>1, <2>2, LettingGo DEF HandInv, ChildrenWatched
<1>7. QED
  BY <1>1, <1>2, <1>3, <1>4, <1>5, <1>6 DEF StarterSteps

LEMMA MainHands ==
  ASSUME IInv, HandInv,
         Resumed \/ SuspendedAsTrackpad \/ Suspended \/ MainStops \/ MainCleans
  PROVE  HandInv'
<1>0. /\ starter \in Starters /\ StarterControl /\ MainControl /\ main \in Stoppers
      /\ Alone /\ Begun /\ ChildrenWatched
  BY DEF IInv, TypeOK, HandInv
<1>1. UNCHANGED <<monitor, starts>>
  BY DEF Resumed, SuspendedAsTrackpad, Suspended, MainStops, MainCleans, startVars
<1>2. StarterHand' = StarterHand /\ (starter.pc = "watch" => starter'.pc = "watch")
  <2>1. CASE Resumed
    BY <1>0, <2>1 DEF Resumed, SpawnAfterReady, StarterControl, StarterHand, NoStarter
  <2>2. CASE SuspendedAsTrackpad \/ Suspended \/ MainStops \/ MainCleans
    BY <2>2 DEF SuspendedAsTrackpad, Suspended, MainStops, MainCleans, startVars, StarterHand
  <2>3. QED
    BY <2>1, <2>2
<1>3. CASE Suspended
  <2>1. main.holds = None /\ main'.holds = children /\ children' = None
    BY <1>0, <1>3 DEF Suspended, MainControl
  <2>2. Alone'
    BY <1>0, <1>1, <1>2, <2>1 DEF Alone
  <2>3. Begun'
    BY <1>0, <1>1, <1>2, <2>1 DEF Begun, None
  <2>4. QED
    BY <2>1, <2>2, <2>3 DEF HandInv, ChildrenWatched
<1>4. CASE Resumed \/ SuspendedAsTrackpad \/ MainStops \/ MainCleans
  <2>1. main'.holds \in {main.holds, None} /\ children' = children
    BY <1>4 DEF Resumed, SuspendedAsTrackpad, MainStops, MainCleans, Idle
  <2>2. Alone' /\ Begun'
    BY <1>0, <1>1, <1>2, <2>1, LettingGo
  <2>3. QED
    BY <1>0, <1>1, <1>2, <2>1, <2>2 DEF HandInv, ChildrenWatched
<1>5. QED
  BY <1>3, <1>4

LEMMA MonitorHands ==
  ASSUME IInv, HandInv, NEW m \in Generation, MonitorSteps(m) PROVE HandInv'
<1>0. /\ MonitorControl /\ monitor \in [Generation -> Stoppers]
      /\ Alone /\ Begun /\ ChildrenWatched
  BY DEF IInv, TypeOK, HandInv
<1>1. \A n \in Generation \ {m} : monitor'[n] = monitor[n]
  BY <1>0 DEF MonitorSteps, MonitorPolls, MonitorStops, MonitorCleans
<1>2. UNCHANGED <<main, starter, starts>> /\ StarterHand' = StarterHand
  BY DEF MonitorSteps, MonitorPolls, MonitorStops, MonitorCleans, mainVars, startVars,
         StarterHand
<1>3. CASE MonitorPolls(m) /\ children # None
  <2>1. monitor[m].holds = None /\ monitor'[m].holds = children /\ children' = None
    BY <1>0, <1>3 DEF MonitorPolls, MonitorControl
  <2>2. Alone'
    BY <1>0, <1>1, <1>2, <2>1 DEF Alone
  <2>3. Begun'
    BY <1>0, <1>1, <1>2, <2>1 DEF Begun, None
  <2>4. QED
    BY <2>1, <2>2, <2>3 DEF HandInv, ChildrenWatched
<1>4. CASE MonitorPolls(m) /\ children = None
  <2>1. monitor'[m].holds = monitor[m].holds /\ children' = None
    BY <1>0, <1>4 DEF MonitorPolls, Stoppers
  <2>2. Alone' /\ Begun'
    BY <1>0, <1>1, <1>2, <1>4, <2>1, LettingGo
  <2>3. QED
    BY <2>1, <2>2 DEF HandInv, ChildrenWatched
<1>5. CASE MonitorStops(m) \/ MonitorCleans(m)
  <2>1. /\ monitor'[m].holds \in {monitor[m].holds, None} /\ children' = children
        /\ monitor[m].pc # "watch"
    BY <1>0, <1>5 DEF MonitorStops, MonitorCleans, Stoppers
  <2>2. Alone' /\ Begun'
    BY <1>0, <1>1, <1>2, <2>1, LettingGo
  <2>3. ChildrenWatched'
    BY <1>0, <1>1, <1>2, <2>1 DEF ChildrenWatched
  <2>4. QED
    BY <2>2, <2>3 DEF HandInv
<1>6. QED
  BY <1>3, <1>4, <1>5 DEF MonitorSteps

LEMMA OthersHands ==
  ASSUME HandInv, UNCHANGED <<mainVars, startVars, children, monitor>> PROVE HandInv'
BY DEF HandInv, Alone, Begun, ChildrenWatched, StarterHand, mainVars, startVars

\* No two threads ever hold the handles of the same children, and children that
\* are published have a monitor, or are about to get one: taking them out of
\* AAUDIO_CHILDREN under its lock makes a thread their only owner, and each start
\* makes handles of its own.
THEOREM OneHand == Spec => []InOneHand
<1>1. Init => HandInv
  BY DEF Init, HandInv, Alone, Begun, ChildrenWatched, StarterHand, Idle, NoStarter, None
<1>2. IInv /\ HandInv /\ [Next]_vars => HandInv'
  <2> SUFFICES ASSUME IInv, HandInv, [Next]_vars PROVE HandInv'
    OBVIOUS
  <2>1. CASE Resumed \/ SuspendedAsTrackpad \/ Suspended \/ MainStops \/ MainCleans
    BY <2>1, MainHands
  <2>2. CASE StarterSteps
    BY <2>2, StarterHands
  <2>3. ASSUME NEW g \in Generation, MonitorSteps(g) PROVE HandInv'
    BY <2>3, MonitorHands
  <2>4. ASSUME NEW g \in Generation,
               \/ \E s \in Socket : DaemonListens(g, s)
               \/ \E r \in Role : ChildExits(g, r)
               \/ LauncherCleans(g) \/ SessionStarts(g) \/ SessionEnds(g)
        PROVE  HandInv'
    <3>1. UNCHANGED <<mainVars, startVars, children, monitor>>
      BY <2>4 DEF DaemonListens, ChildExits, LauncherCleans, SessionStarts, SessionEnds
    <3>2. QED
      BY <3>1, OthersHands
  <2>5. CASE UNCHANGED vars
    BY <2>5, OthersHands DEF vars
  <2>6. QED
    BY <2>1, <2>2, <2>3, <2>4, <2>5 DEF Next
<1>3. HandInv => InOneHand
  BY AloneIsOneOwner DEF HandInv, InOneHand
<1>4. QED
  BY <1>1, <1>2, <1>3, InitIInv, StepIInv, PTL DEF Spec

(***************************************************************************)
(* The session's display                                                   *)
(***************************************************************************)

Launching(l) == launcher[l] \in {"clean", "start", "session"}

\* LAUNCH_RUNNING lets one launcher through at a time.
SessionInv ==
  \A l \in Generation :
    /\ Launching(l) => launch_running /\ \A k \in Generation : Launching(k) => k = l
    /\ launcher[l] = "session" => x_lock = l

\* However often the activity resumes, no launch removes the files of the display
\* a session is running on: the guard keeps it out until that session has ended.
THEOREM DisplayKept == Spec => []SessionKeepsDisplay
<1>1. Init => SessionInv
  BY DEF Init, SessionInv, Launching
<1>2. TypeOK /\ SessionInv /\ [Next]_vars => SessionInv'
  <2> SUFFICES ASSUME TypeOK, SessionInv, [Next]_vars PROVE SessionInv'
    OBVIOUS
  <2>0. launcher \in [Generation -> {"none", "clean", "start", "session", "ended"}]
    BY DEF TypeOK
  <2>1. CASE Resumed
    <3>1. CASE launch_running
      BY <2>1, <3>1 DEF Resumed, Launch, SessionInv, Launching
    <3>2. CASE ~launch_running
      <4>1. \A l \in Generation : ~Launching(l)
        BY <3>2 DEF SessionInv
      <4>2. /\ launch_running' = TRUE /\ x_lock' = x_lock
            /\ launcher' = [launcher EXCEPT ![resumes + 1] = "clean"]
        BY <2>1, <3>2 DEF Resumed, Launch
      <4>3. \A l \in Generation : Launching(l)' => l = resumes + 1 /\ launcher'[l] = "clean"
        BY <2>0, <4>1, <4>2 DEF Launching
      <4>4. QED
        BY <4>2, <4>3 DEF SessionInv, Launching
    <3>3. QED
      BY <3>1, <3>2
  <2>2. ASSUME NEW l \in Generation, LauncherCleans(l) \/ SessionStarts(l)
        PROVE  SessionInv'
    <3>1. Launching(l) /\ launch_running' = launch_running
      BY <2>2 DEF LauncherCleans, SessionStarts, Launching
    <3>2. \A k \in Generation : Launching(k)' => Launching(k)
      BY <2>0, <2>2, <3>1 DEF LauncherCleans, SessionStarts, Launching
    <3>3. \A k \in Generation : launcher'[k] = "session" => k = l /\ x_lock' = l
      BY <2>0, <2>2, <3>1 DEF LauncherCleans, SessionStarts, SessionInv, Launching
    <3>4. QED
      BY <3>1, <3>2, <3>3 DEF SessionInv
  <2>3. ASSUME NEW l \in Generation, SessionEnds(l) PROVE SessionInv'
    <3>1. \A k \in Generation : ~Launching(k)'
      BY <2>0, <2>3 DEF SessionEnds, SessionInv, Launching
    <3>2. QED
      BY <3>1 DEF SessionInv, Launching
  <2>4. CASE UNCHANGED launchVars
    BY <2>4 DEF launchVars, SessionInv, Launching
  <2>5. CASE StarterSteps
    BY <2>4, <2>5 DEF StarterSteps, StarterChecks, StarterStopsStale, StarterCleansStale,
       StarterPrepares, StarterGivesUp, StarterSkips, StarterSpawns, StarterSpawnFails,
       StarterDropsChildren, StarterSeesReady, StarterSeesFailure, StarterUndoes,
       StarterPublishes, StarterSpawnsMonitor, StarterEnds
  <2>6. ASSUME NEW g \in Generation,
               \/ MonitorSteps(g) \/ \E s \in Socket : DaemonListens(g, s)
               \/ \E r \in Role : ChildExits(g, r)
        PROVE  UNCHANGED launchVars
    BY <2>6 DEF MonitorSteps, MonitorPolls, MonitorStops, MonitorCleans, DaemonListens,
                ChildExits
  <2>7. CASE SuspendedAsTrackpad \/ Suspended \/ MainStops \/ MainCleans
    BY <2>4, <2>7 DEF SuspendedAsTrackpad, Suspended, MainStops, MainCleans
  <2>8. QED
    BY <2>1, <2>2, <2>3, <2>4, <2>5, <2>6, <2>7 DEF Next, vars
<1>3. SessionInv => SessionKeepsDisplay
  BY DEF SessionInv, SessionKeepsDisplay
<1>4. QED
  BY <1>1, <1>2, <1>3, Typing, PTL DEF Spec
=============================================================================
