---------------------------- MODULE MCNvmQueue ----------------------------
(* Model checking of NvmQueue; the values are in the configuration.        *)
EXTENDS NvmQueue
=============================================================================
