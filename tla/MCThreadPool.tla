----------------------------- MODULE MCThreadPool -----------------------------
(* Model-checking definitions for ThreadPool.                                *)
EXTENDS ThreadPool, TLC

\* Workers, clients and tasks are interchangeable; for runs without liveness.
Symmetry == Permutations(Workers) \cup Permutations(Clients) \cup Permutations(Tasks)
=============================================================================
