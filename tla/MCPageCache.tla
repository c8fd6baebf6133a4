---------------------------- MODULE MCPageCache ----------------------------
(* Model checking of PageCache; the values are in the configurations.      *)
EXTENDS PageCache
=============================================================================
