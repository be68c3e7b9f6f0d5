-------------------------- MODULE MCExternalDisplay --------------------------
(* Bounds for model-checking ExternalDisplay; the numbers are in the .cfg.  *)
EXTENDS ExternalDisplay
=============================================================================
