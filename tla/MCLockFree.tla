------------------------------ MODULE MCLockFree ------------------------------
(* Model-checking definitions for LockFree.                                  *)
EXTENDS LockFree, TLC

\* The SPSC queue names its producer and its consumer, so only the items are
\* interchangeable.
Symmetry == Permutations(Items)
===============================================================================
