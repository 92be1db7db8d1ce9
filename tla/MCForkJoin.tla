------------------------------ MODULE MCForkJoin ------------------------------
(* Model-checking definitions for ForkJoin.                                  *)
EXTENDS ForkJoin

\* An empty range, one that begins past 0, one of which the last thread gets nothing.
MCRanges == {<<3, 2>>, <<1, 3>>, <<0, 4>>}
\* Seen in the result wherever it gets into it; not an element of a range.
MCInitial == <<9>>
\* With an element twice, and none at its place.
MCKey == <<3, 1, 3, 2>>
===============================================================================
