-------------------------- MODULE MCAudioSupervisor --------------------------
(* What the APK may bundle, for model-checking AudioSupervisor.              *)
EXTENDS AudioSupervisor

PulseOnly == {"pulse"}
=============================================================================
