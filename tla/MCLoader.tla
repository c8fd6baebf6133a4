------------------------------ MODULE MCLoader ------------------------------
(***************************************************************************)
(* The loaders' iterators for TLC; the values are in the configuration.     *)
(***************************************************************************)
EXTENDS Loader
=============================================================================
