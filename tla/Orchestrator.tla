---------------------------- MODULE Orchestrator ----------------------------
(***************************************************************************)
(* What the rest of the program may rely on of the thread that setup()     *)
(* starts when a stage has work to do: it goes through the stages in       *)
(* order, records the progress as it enters each of them, and ends in one  *)
(* of three ways.  Setup.tla implements it, stage by stage;                *)
(* SetupProgress.tla composes it with the server of the progress page.     *)
(***************************************************************************)
EXTENDS Integers

CONSTANT Stages     \* how many stages there are (stages.len())

ASSUME StagesAssumption == Stages \in Nat \ {0}

VARIABLES
    orch,           \* what the orchestrating thread is doing
    stage,          \* the stage it is at, counted from 0
    progress        \* what the page is told, out of 100

orchVars == <<orch, stage, progress>>

OrchStates == {"none",      \* setup() itself is still calling the stages
               "spawned",   \* the thread exists, its progress is not recorded
               "working",   \* joins a stage, or calls one that returns None
               "done",      \* progress is 100, the last message is not sent
               "told",      \* "Installation finished" is sent
               "failed",    \* a stage thread panicked, its error is sent
               "dead"}      \* a stage panicked on this thread, nothing is sent

OrchTypeOK ==
    /\ orch \in OrchStates
    /\ stage \in 0 .. Stages - 1
    /\ progress \in 0 .. 100

\* What is recorded on the way into stage i.
PercentDone(i) == ((i + 1) * 100) \div Stages      \* a slip
Percent(i) == (i * 100) \div Stages

OrchInit ==
    /\ orch = "none"
    /\ stage = 0
    /\ progress = 0

\* setup() found a stage with work to do, and leaves the rest to the thread.
Spawn(i) ==
    /\ orch = "none"
    /\ orch' = "spawned"
    /\ stage' = i
    /\ UNCHANGED progress

\* Its first step, beside the stage thread that is already at work.
Announce ==
    /\ orch = "spawned"
    /\ orch' = "working"
    /\ progress' = Percent(stage)
    /\ UNCHANGED stage

\* A stage is over: on to the next one ...
Advance ==
    /\ orch = "working"
    /\ stage + 1 < Stages
    /\ stage' = stage + 1
    /\ progress' = Percent(stage + 1)
    /\ UNCHANGED orch

\* ... or, after the last, to the end.
Complete ==
    /\ orch = "working"
    /\ stage + 1 = Stages
    /\ orch' = "done"
    /\ progress' = 100
    /\ UNCHANGED stage

Tell ==
    /\ orch = "done"
    /\ orch' = "told"
    /\ UNCHANGED <<stage, progress>>

\* join() returned an error: a message says so, and the thread returns.
Fail ==
    /\ orch = "working"
    /\ orch' = "failed"
    /\ UNCHANGED <<stage, progress>>

\* A stage that runs on this very thread panicked.
Die ==
    /\ orch = "working"
    /\ orch' = "dead"
    /\ UNCHANGED <<stage, progress>>

\* The process ends, whatever it was doing, and starts again some day.
Restart ==
    /\ orch' = "none"
    /\ stage' = 0
    /\ progress' = 0

OrchNext ==
    \/ \E i \in 0 .. Stages - 1 : Spawn(i)
    \/ Announce \/ Advance \/ Complete \/ Tell \/ Fail \/ Die
    \/ Restart

OrchSpec == OrchInit /\ [][OrchNext]_orchVars
=============================================================================
