---------------------------- MODULE MCFrameLoop ----------------------------
(* Values for the constants of FrameLoop. *)
EXTENDS FrameLoop, TLC

NoFaults == {}
EveryFault == AllFaults

ClientSymmetry == Permutations(Client)

=============================================================================
