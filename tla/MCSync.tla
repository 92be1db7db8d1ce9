-------------------------------- MODULE MCSync --------------------------------
(* Model-checking definitions for Sync.                                      *)
EXTENDS Sync, TLC

Symmetry == Permutations(Threads)
===============================================================================
