------------------------------ MODULE MCSetup ------------------------------
(* Values for the model checker.  Two attempts make a first, a repeated    *)
(* and a last one; three faults are enough to fail a whole launch and the  *)
(* next one's first attempt.                                               *)
EXTENDS Setup
=============================================================================
