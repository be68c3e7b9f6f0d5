-------------------------- MODULE MCSetupProgress --------------------------
EXTENDS SetupProgress
=============================================================================
