-------------------------------- MODULE MCAsync --------------------------------
(* Model-checking definitions for Async.                                     *)
EXTENDS Async, TLC
================================================================================
