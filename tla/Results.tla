-------------------------------- MODULE Results --------------------------------
(***************************************************************************)
(* How the results of chunks are combined: Reduce joins them in order,     *)
(* Sort (sync.hpp) merges them.  Chunks are numbered from 0.               *)
(***************************************************************************)
EXTENDS Naturals, Sequences, FiniteSets

\* std::sort with a comparator that does not throw: the k-th element is the one that
\* fewer than k are less than, and at least k not greater than.
Sorted(s) ==
    [k \in DOMAIN s |->
        CHOOSE v \in {s[i] : i \in DOMAIN s} :
            /\ Cardinality({i \in DOMAIN s : s[i] < v}) < k
            /\ Cardinality({i \in DOMAIN s : s[i] <= v}) >= k]

\* The results of n chunks, the one of chunk 0 first.
InOrder(parts, n) ==
    LET upTo[i \in 0..n] == IF i = 0 THEN <<>> ELSE upTo[i - 1] \o parts[i - 1]
    IN  upTo[n]

\* The sequence without the elements that are in S.
Without(s, S) ==
    LET upTo[k \in 0..Len(s)] ==
            IF k = 0 THEN <<>>
            ELSE IF s[k] \in S THEN upTo[k - 1] ELSE Append(upTo[k - 1], s[k])
    IN  upTo[Len(s)]

-----------------------------------------------------------------------------
(* The merge.  indices[i] elements of chunk i are in the result.             *)

Unexhausted(chunks, indices) == {i \in DOMAIN chunks : indices[i] < Len(chunks[i])}

Front(chunks, indices, i) == chunks[i][indices[i] + 1]

\* The chunk whose next element is least, the first such one.
Best(chunks, indices) ==
    CHOOSE i \in Unexhausted(chunks, indices) :
        \A j \in Unexhausted(chunks, indices) :
            \/ Front(chunks, indices, i) < Front(chunks, indices, j)
            \/ Front(chunks, indices, i) = Front(chunks, indices, j) /\ i <= j

\* One turn of the loop, which ends when no chunk is found.
Pushed(chunks, m) ==
    IF Unexhausted(chunks, m.indices) = {} THEN m
    ELSE LET b == Best(chunks, m.indices)
         IN  [result  |-> Append(m.result, Front(chunks, m.indices, b)),
              indices |-> [m.indices EXCEPT ![b] = @ + 1]]

\* The result once it has as many elements as there were.
Merged(chunks, count) ==
    LET merge[k \in 0..count] ==
            IF k = 0 THEN [result |-> <<>>, indices |-> [i \in DOMAIN chunks |-> 0]]
            ELSE Pushed(chunks, merge[k - 1])
    IN  merge[count].result
===============================================================================
