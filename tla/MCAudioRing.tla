----------------------------- MODULE MCAudioRing -----------------------------
(* Rings for model-checking AudioRing.                                       *)
EXTENDS AudioRing

\* One in which the oldest frame has to be dropped, the smallest in which it
\* never is while no callback undoes a clear, and after one has.
SmallAndEnough ==
  {LowWater + 2, LowWater + 4 * MaxQuantum, LowWater + 5 * MaxQuantum}
=============================================================================
