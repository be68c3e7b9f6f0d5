----------------------------- MODULE MCGestures -----------------------------
(* Values for model-checking Gestures. *)
EXTENDS Gestures

CONSTANTS f1, f2, f3

ThreeFingers == {f1, f2, f3}

\* Two fingers, three places: with a slop of 1 they can stay, drift, pinch,
\* move off one by one and together.
TwoFingers ==
  [touching |-> {f1, f2}, places |-> {0, 1, 2}, mouse |-> {}, interrupts |-> {}]

\* Three fingers are the most the code tells apart.
ManyFingers ==
  [touching |-> ThreeFingers, places |-> {0, 2}, mouse |-> {}, interrupts |-> {}]

\* A gesture cut short: the desktop goes to the monitor and back, ...
Moving ==
  [touching |-> {f1, f2}, places |-> {0, 2}, mouse |-> {},
   interrupts |-> {"display", "suspend"}]

\* ... or a frame fails.
Failing ==
  [touching |-> {f1, f2}, places |-> {0, 2}, mouse |-> {},
   interrupts |-> {"render", "suspend"}]

\* The mouse's left button is the drag's.
MouseAndFinger ==
  [touching |-> {f1}, places |-> {0, 2}, mouse |-> {"left"}, interrupts |-> AllInterrupts]

AllScenes == {TwoFingers, ManyFingers, Moving, Failing, MouseAndFinger}
=============================================================================
