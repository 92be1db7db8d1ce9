------------------------------- MODULE MCFuture -------------------------------
(* Model-checking definitions for Future.                                    *)
EXTENDS Future, TLC
=============================================================================
