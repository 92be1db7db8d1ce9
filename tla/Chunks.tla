-------------------------------- MODULE Chunks --------------------------------
(***************************************************************************)
(* How ParallelFor (pool.cpp), Reduce and Sort (sync.hpp) divide a range   *)
(* of indices among threads.  The three compute the same chunks; Reduce    *)
(* and Sort begin at 0.                                                    *)
(***************************************************************************)
EXTENDS Naturals

CONSTANT Modulus   \* 2^w, for the width w of size_t

Least(a, b) == IF a <= b THEN a ELSE b

\* Faulty variant: the remainder is left over.
ChunkSizeFloor(count, threads) == count \div threads

\* The count divided by the threads, rounded up.
ChunkSize(count, threads) == ((count + threads - 1) % Modulus) \div threads

Chunk(begin, end, threads, i) ==
    LET size  == ChunkSize(end - begin, threads)
        first == (begin + i * size) % Modulus
    IN  [begin |-> first, end |-> Least(end, (first + size) % Modulus)]

\* The loops break at the first chunk that is empty.
IsEmpty(chunk) == chunk.begin >= chunk.end
===============================================================================
