---------------------------- MODULE ForkJoinProofs ----------------------------
(***************************************************************************)
(* What the parallel algorithms guarantee for any callers, workers, ranges *)
(* and numbers of threads.                                                 *)
(***************************************************************************)
EXTENDS ForkJoin, ResultsProofs

-----------------------------------------------------------------------------
(* The division of a range.                                                  *)

\* Rounded up: so many chunks of this size hold the range, and none is of size 0.
LEMMA RoundedUp ==
  ASSUME NEW count \in Nat \ {0}, NEW n \in Nat \ {0}
  PROVE  /\ (count + n - 1) \div n \in Nat \ {0}
         /\ ((count + n - 1) \div n) * n >= count
  <1> DEFINE a == count + n - 1
             q == a \div n
  <1>1. a = n * q + (a % n) /\ q \in Nat /\ a % n \in 0..(n - 1)
    OBVIOUS
  <1> HIDE DEF q
  <1>2. n * q >= count
    BY <1>1
  <1>3. q # 0
    BY <1>2, <1>1
  <1>4. n * q = q * n
    BY <1>1
  <1>5. QED
    BY <1>1, <1>2, <1>3, <1>4 DEF q

\* Greater numbers of chunks are longer.
LEMMA Longer ==
  ASSUME NEW size \in Nat \ {0}, NEW i \in Nat, NEW j \in Nat, i < j
  PROVE  i * size + size <= j * size
  <1>1. i * size + size = (i + 1) * size
    OBVIOUS
  <1>2. (j - i - 1) * size >= 0
    OBVIOUS
  <1>3. (j - i - 1) * size = j * size - (i + 1) * size
    OBVIOUS
  <1>4. i * size \in Nat /\ j * size \in Nat /\ (i + 1) * size \in Nat
    OBVIOUS
  <1>5. QED
    BY <1>1, <1>2, <1>3, <1>4

\* Every position is in some chunk.
LEMMA Divided ==
  ASSUME NEW size \in Nat \ {0}, NEW n \in Nat \ {0}, NEW x \in Nat, x < size * n
  PROVE  \E i \in 0..(n - 1) : i * size <= x /\ x < i * size + size
  <1> DEFINE q == x \div size
  <1>1. x = size * q + (x % size) /\ q \in Nat /\ x % size \in 0..(size - 1)
    OBVIOUS
  <1> HIDE DEF q
  <1>2. size * q = q * size /\ size * n = n * size
    BY <1>1
  <1>3. q * size <= x /\ x < q * size + size
    BY <1>1, <1>2
  <1>4. q < n
    <2>1. CASE q = n
      BY <2>1, <1>2, <1>3
    <2>2. CASE n < q
      <3>1. n * size + size <= q * size
        BY <2>2, <1>1, Longer
      <3>2. QED
        BY <3>1, <1>2, <1>3, <1>1
    <2>3. QED
      BY <2>1, <2>2, <1>1
  <1>5. q \in 0..(n - 1)
    BY <1>1, <1>4
  <1>6. QED
    BY <1>3, <1>5

\* A chunk of a range that is not so long that its chunks wrap around.
LEMMA ChunkBounds ==
  ASSUME NEW b \in Nat, NEW e \in Nat, NEW n \in Nat \ {0}, Modulus \in Nat \ {0},
         ChunkSize(e - b, n) \in Nat \ {0}, b + n * ChunkSize(e - b, n) < Modulus
  PROVE  \A i \in 0..(n - 1) :
            LET size == ChunkSize(e - b, n)
            IN  /\ Chunk(b, e, n, i).begin = b + i * size
                /\ Chunk(b, e, n, i).end = Least(e, b + i * size + size)
  <1> DEFINE size == ChunkSize(e - b, n)
  <1>0. size \in Nat \ {0} /\ b + n * size < Modulus
    OBVIOUS
  <1>a. SUFFICES ASSUME NEW i \in 0..(n - 1)
                 PROVE  /\ Chunk(b, e, n, i).begin = b + i * size
                        /\ Chunk(b, e, n, i).end = Least(e, b + i * size + size)
    OBVIOUS
  <1>b. /\ Chunk(b, e, n, i).begin = (b + i * size) % Modulus
        /\ Chunk(b, e, n, i).end = Least(e, (((b + i * size) % Modulus) + size) % Modulus)
    BY DEF Chunk
  <1> HIDE DEF size
  <1>1. i * size + size <= n * size /\ i * size \in Nat /\ n * size \in Nat
    <2>1. i < n /\ i \in Nat
      OBVIOUS
    <2>2. QED
      BY <1>0, <2>1, Longer
  <1>2. b + i * size < Modulus /\ b + i * size + size < Modulus
    BY <1>0, <1>1
  <1>3. /\ (b + i * size) % Modulus = b + i * size
        /\ (b + i * size + size) % Modulus = b + i * size + size
    BY <1>0, <1>1, <1>2
  <1>4. QED
    BY <1>b, <1>3

\* Every index of a range is in exactly one of its chunks, and none of the chunks
\* before that one is empty, so that the loop that submits them comes to it: for
\* every range and number of threads, as long as no sum is as great as 2^w
\* (pool.cpp:67-75, sync.hpp:134-142, 188-199).
THEOREM EveryIndexInOneChunk ==
  ASSUME NEW b \in Nat, NEW e \in Nat, b < e, NEW n \in Nat \ {0}, Modulus \in Nat \ {0},
         e - b + n - 1 < Modulus, b + n * ChunkSize(e - b, n) < Modulus,
         NEW x \in b..(e - 1)
  PROVE  \E i \in 0..(n - 1) :
            /\ \A j \in 0..(n - 1) :
                  (Chunk(b, e, n, j).begin <= x /\ x < Chunk(b, e, n, j).end) <=> j = i
            /\ \A j \in 0..i : ~IsEmpty(Chunk(b, e, n, j))
  <1> DEFINE size == ChunkSize(e - b, n)
  <1>1. e - b \in Nat \ {0} /\ e - b + n - 1 \in Nat
    OBVIOUS
  <1>2. size = (e - b + n - 1) \div n
    BY <1>1 DEF ChunkSize
  <1>3. size \in Nat \ {0} /\ size * n >= e - b
    BY <1>1, <1>2, RoundedUp
  <1>4. b + n * size < Modulus /\ size = ChunkSize(e - b, n)
    OBVIOUS
  <1>5. \A j \in 0..(n - 1) : /\ Chunk(b, e, n, j).begin = b + j * size
                            /\ Chunk(b, e, n, j).end = Least(e, b + j * size + size)
    <2>1. ChunkSize(e - b, n) \in Nat \ {0} /\ b + n * ChunkSize(e - b, n) < Modulus
      BY <1>3, <1>4
    <2>2. QED
      BY <2>1, ChunkBounds
  <1> HIDE DEF size
  <1>6. x - b \in Nat /\ x - b < size * n
    BY <1>3
  <1>7. PICK i \in 0..(n - 1) : i * size <= x - b /\ x - b < i * size + size
    BY <1>3, <1>6, Divided
  <1>8. \A j \in 0..(n - 1) : j * size \in Nat
    BY <1>3
  <1>9. \A j \in 0..(n - 1) :
           (Chunk(b, e, n, j).begin <= x /\ x < Chunk(b, e, n, j).end) <=> j = i
    <2> SUFFICES ASSUME NEW j \in 0..(n - 1)
                 PROVE  (b + j * size <= x /\ x < Least(e, b + j * size + size)) <=> j = i
      BY <1>5
    <2>1. j < i => j * size + size <= i * size
      BY <1>3, Longer
    <2>2. i < j => i * size + size <= j * size
      BY <1>3, Longer
    <2>3. j = i => b + j * size <= x /\ x < Least(e, b + j * size + size)
      BY <1>3, <1>7, <1>8 DEF Least
    <2>4. j # i => ~(b + j * size <= x /\ x < Least(e, b + j * size + size))
      BY <1>3, <1>7, <1>8, <2>1, <2>2 DEF Least
    <2>5. QED
      BY <2>3, <2>4
  <1>10. \A j \in 0..i : ~IsEmpty(Chunk(b, e, n, j))
    <2> SUFFICES ASSUME NEW j \in 0..i PROVE ~IsEmpty(Chunk(b, e, n, j))
      OBVIOUS
    <2>1. j \in 0..(n - 1)
      OBVIOUS
    <2>2. j < i => j * size + size <= i * size
      BY <1>3, Longer
    <2>3. b + j * size < e
      BY <1>3, <1>7, <1>8, <2>1, <2>2
    <2>4. b + j * size < Least(e, b + j * size + size)
      BY <1>3, <1>8, <2>1, <2>3 DEF Least
    <2>5. QED
      BY <1>3, <1>5, <1>8, <2>1, <2>4 DEF IsEmpty, Least
  <1>11. QED
    BY <1>7, <1>9, <1>10

-----------------------------------------------------------------------------
(* The calls.                                                                *)

Indices == 0..(MaxThreads - 1)

Types ==
    /\ waiting \in Seq(Tasks)
    /\ running \in [Workers -> Tasks \cup {NoTask}]
    /\ ready \subseteq Tasks
    /\ pc \in [Callers -> {"idle", "inline", "submit", "wait", "returned", "threw"}]
    /\ threads \in [Callers -> 0..MaxThreads]
    /\ next \in [Callers -> Nat]
    /\ sent \in [Callers -> Nat]

\* A task is at one place of the pool, and no longer there once its future is ready.
OncePerTask ==
    /\ \A k, l \in 1..Len(waiting) : waiting[k] = waiting[l] => k = l
    /\ \A v, w \in Workers : running[v] = running[w] /\ running[v] # NoTask => v = w
    /\ \A k \in 1..Len(waiting), w \in Workers : waiting[k] # running[w]
    /\ \A k \in 1..Len(waiting) : waiting[k] \notin ready
    /\ \A w \in Workers : running[w] \notin ready

\* The chunks that callers have submitted, if that was for a call.
Submitted ==
    {t \in Tasks : t[2] < (IF pc[t[1]] = "submit" THEN next[t[1]] ELSE sent[t[1]])}

\* There is no task but of a chunk that was submitted.
Numbered ==
    /\ \A k \in 1..Len(waiting) : waiting[k] \in Submitted
    /\ \A w \in Workers : running[w] # NoTask => running[w] \in Submitted
    /\ ready \subseteq Submitted

\* A caller in its second loop has passed futures that are ready only, and has passed
\* them all when the call is over.
Awaited ==
    \A c \in Callers :
        /\ pc[c] \in {"idle", "inline"} => next[c] = 0 /\ sent[c] = 0
        /\ pc[c] \in {"wait", "returned", "threw"} =>
              \A i \in Indices : i < next[c] => <<c, i>> \in ready
        /\ pc[c] \in {"returned", "threw"} => next[c] = sent[c]

IInv == Types /\ OncePerTask /\ Numbered /\ Awaited

LEMMA InitIInv == Init => IInv
  <1> SUFFICES ASSUME Init PROVE IInv
    OBVIOUS
  <1> USE DEF Init, Pool!Init
  <1>1. Types
    BY ForkJoinAssumption DEF Types
  <1>2. waiting = <<>> /\ ready = {} /\ \A w \in Workers : running[w] = NoTask
    OBVIOUS
  <1>3. OncePerTask
    BY <1>2 DEF OncePerTask
  <1>4. Numbered
    BY <1>2 DEF Numbered
  <1>5. Awaited
    BY DEF Awaited
  <1>6. QED
    BY <1>1, <1>3, <1>4, <1>5 DEF IInv

\* There are at most as many threads as may be (pool.cpp:55, sync.hpp:120, 178).
LEMMA ThreadsBounded ==
  ASSUME NEW algo \in Algorithms, NEW r \in Ranges
  PROVE  NumThreads(algo, Count(r)) \in 0..MaxThreads
  <1>1. r[1] \in Nat /\ r[2] \in Nat
    BY ForkJoinAssumption
  <1>2. Count(r) \in Nat
    BY <1>1 DEF Count
  <1>3. Count(r) \div Grain \in Nat
    BY <1>2, ForkJoinAssumption
  <1>4. \A n \in Nat : Least(MaxThreads, n) \in 0..MaxThreads
    BY ForkJoinAssumption DEF Least
  <1>5. QED
    BY <1>2, <1>3, <1>4, ForkJoinAssumption DEF NumThreads

\* A step of a caller that submits nothing leaves the tasks as they are.
LEMMA NothingSubmitted ==
  ASSUME IInv, UNCHANGED <<poolVars, ready>>, Submitted' = Submitted
  PROVE  OncePerTask' /\ Numbered'
  <1>1. UNCHANGED <<waiting, running, ready>>
    BY DEF poolVars
  <1>2. OncePerTask'
    BY <1>1 DEF IInv, OncePerTask
  <1>3. Numbered'
    BY <1>1 DEF IInv, Numbered
  <1>4. QED
    BY <1>2, <1>3

LEMMA TaskOf ==
  ASSUME NEW t \in Tasks
  PROVE  t[1] \in Callers /\ t[2] \in Indices /\ t = <<t[1], t[2]>>
  BY DEF Tasks, Indices

LEMMA CallKeepsIInv ==
  ASSUME IInv, NEW c \in Callers, NEW algo \in Algorithms, NEW r \in Ranges, Call(c, algo, r)
  PROVE  IInv'
  <1>1. /\ pc[c] = "idle" /\ UNCHANGED <<poolVars, ready, next, sent>>
        /\ threads' = [threads EXCEPT ![c] = NumThreads(algo, Count(r))]
        /\ \E s \in {"inline", "submit"} : pc' = [pc EXCEPT ![c] = s]
    BY DEF Call
  <1>2. Types'
    BY <1>1, ThreadsBounded DEF IInv, Types, poolVars
  <1>3. next[c] = 0 /\ sent[c] = 0
    BY <1>1 DEF IInv, Awaited
  <1>4. Submitted' = Submitted
    BY <1>1, <1>3, TaskOf DEF IInv, Types, Submitted
  <1>5. OncePerTask' /\ Numbered'
    BY <1>1, <1>4, NothingSubmitted
  <1>6. Awaited'
    BY <1>1, <1>3 DEF IInv, Types, Awaited, poolVars
  <1>7. QED
    BY <1>2, <1>5, <1>6 DEF IInv

LEMMA InlineKeepsIInv ==
  ASSUME IInv, NEW c \in Callers, Inline(c)
  PROVE  IInv'
  <1>1. /\ pc[c] = "inline" /\ UNCHANGED <<poolVars, ready, threads, next, sent>>
        /\ \E s \in {"returned", "threw"} : pc' = [pc EXCEPT ![c] = s]
    BY DEF Inline, callVars
  <1>2. Types'
    BY <1>1 DEF IInv, Types, poolVars
  <1>3. next[c] = 0 /\ sent[c] = 0
    BY <1>1 DEF IInv, Awaited
  <1>4. Submitted' = Submitted
    BY <1>1, TaskOf DEF IInv, Types, Submitted
  <1>5. OncePerTask' /\ Numbered'
    BY <1>1, <1>4, NothingSubmitted
  <1>6. Awaited'
    BY <1>1, <1>3 DEF IInv, Types, Awaited, poolVars, Indices
  <1>7. QED
    BY <1>2, <1>5, <1>6 DEF IInv

\* The new task is another one than those that are anywhere.
LEMMA SubmitChunkKeepsIInv ==
  ASSUME IInv, NEW c \in Callers, SubmitChunk(c)
  PROVE  IInv'
  <1> DEFINE t == <<c, next[c]>>
  <1>1. /\ pc[c] = "submit" /\ next[c] < threads[c]
        /\ waiting' = Append(waiting, t)
        /\ next' = [next EXCEPT ![c] = @ + 1]
        /\ UNCHANGED <<running, ready, threads, pc, sent>>
    BY DEF SubmitChunk, Pool!Accept, chunkVars, callVars
  <1>2. next[c] \in Indices /\ t \in Tasks /\ t # NoTask
    BY <1>1, ForkJoinAssumption DEF IInv, Types, Tasks, Indices
  <1>3. /\ Len(waiting') = Len(waiting) + 1
        /\ \A k \in 1..Len(waiting) : waiting'[k] = waiting[k]
        /\ waiting'[Len(waiting) + 1] = t
    BY <1>1, <1>2 DEF IInv, Types
  <1>4. Types'
    <2>1. waiting' \in Seq(Tasks)
      BY <1>1, <1>2 DEF IInv, Types
    <2>2. next' \in [Callers -> Nat]
      BY <1>1 DEF IInv, Types
    <2>3. QED
      BY <1>1, <2>1, <2>2 DEF IInv, Types
  <1>5. t \in Submitted' /\ Submitted \subseteq Submitted'
    <2>1. \A u \in Tasks : u \in Submitted => u \in Submitted'
      BY <1>1, TaskOf DEF IInv, Types, Submitted, Indices
    <2>2. t[1] = c /\ t[2] = next[c] /\ next'[c] = next[c] + 1 /\ next[c] \in Nat
      BY <1>1 DEF IInv, Types
    <2>3. t \in Submitted'
      BY <1>1, <1>2, <2>2 DEF Submitted
    <2>4. QED
      BY <2>1, <2>3 DEF Submitted
  <1>6. t \notin Submitted
    BY <1>1 DEF IInv, Types, Submitted
  <1>7. /\ \A k \in 1..Len(waiting) : waiting[k] # t
        /\ \A w \in Workers : running[w] # t
        /\ t \notin ready
    BY <1>2, <1>6 DEF IInv, Numbered
  <1>8. OncePerTask'
    <2>1. Len(waiting) \in Nat
      BY DEF IInv, Types
    <2>2. \A k \in 1..Len(waiting') : k \in 1..Len(waiting) \/ k = Len(waiting) + 1
      BY <1>3, <2>1
    <2>3. \A k, l \in 1..Len(waiting') : waiting'[k] = waiting'[l] => k = l
      BY <1>3, <1>7, <2>2 DEF IInv, OncePerTask
    <2>4. \A k \in 1..Len(waiting') : waiting'[k] \notin ready
      BY <1>3, <1>7, <2>2 DEF IInv, OncePerTask
    <2>5. \A k \in 1..Len(waiting'), w \in Workers : waiting'[k] # running[w]
      BY <1>3, <1>7, <2>2 DEF IInv, OncePerTask
    <2>6. QED
      BY <1>1, <2>3, <2>4, <2>5 DEF IInv, OncePerTask
  <1>9. Numbered'
    <2>1. \A k \in 1..Len(waiting') : k \in 1..Len(waiting) \/ k = Len(waiting) + 1
      BY <1>3 DEF IInv, Types
    <2>2. \A k \in 1..Len(waiting') : waiting'[k] \in Submitted'
      BY <1>3, <1>5, <2>1 DEF IInv, Numbered
    <2>3. QED
      BY <1>1, <1>5, <2>2 DEF IInv, Numbered
  <1>10. Awaited'
    BY <1>1 DEF IInv, Types, Awaited
  <1>11. QED
    BY <1>4, <1>8, <1>9, <1>10 DEF IInv

LEMMA EndSubmitKeepsIInv ==
  ASSUME IInv, NEW c \in Callers, EndSubmit(c)
  PROVE  IInv'
  <1>1. /\ pc[c] = "submit" /\ UNCHANGED <<poolVars, ready, threads>>
        /\ pc' = [pc EXCEPT ![c] = "wait"]
        /\ sent' = [sent EXCEPT ![c] = next[c]]
        /\ next' = [next EXCEPT ![c] = 0]
    BY DEF EndSubmit, chunkVars, callVars
  <1>2. Types'
    BY <1>1 DEF IInv, Types, poolVars
  <1>3. Submitted' = Submitted
    BY <1>1, TaskOf DEF IInv, Types, Submitted
  <1>4. OncePerTask' /\ Numbered'
    BY <1>1, <1>3, NothingSubmitted
  <1>5. Awaited'
    BY <1>1 DEF IInv, Types, Awaited, Indices
  <1>6. QED
    BY <1>2, <1>4, <1>5 DEF IInv

LEMMA AwaitChunkKeepsIInv ==
  ASSUME IInv, NEW c \in Callers, AwaitChunk(c)
  PROVE  IInv'
  <1>1. /\ pc[c] = "wait" /\ <<c, next[c]>> \in ready
        /\ next' = [next EXCEPT ![c] = @ + 1]
        /\ UNCHANGED <<poolVars, ready, threads, pc, sent>>
    BY DEF AwaitChunk, chunkVars, callVars
  <1>2. Types'
    BY <1>1 DEF IInv, Types, poolVars
  <1>3. Submitted' = Submitted
    BY <1>1, TaskOf DEF IInv, Types, Submitted
  <1>4. OncePerTask' /\ Numbered'
    BY <1>1, <1>3, NothingSubmitted
  <1>5. \A i \in Indices : i < next[c] + 1 => <<c, i>> \in ready
    <2>1. \A i \in Indices : i < next[c] + 1 => i < next[c] \/ i = next[c]
      BY DEF IInv, Types, Indices
    <2>2. QED
      BY <1>1, <2>1 DEF IInv, Awaited
  <1>6. Awaited'
    BY <1>1, <1>5 DEF IInv, Types, Awaited
  <1>7. QED
    BY <1>2, <1>4, <1>6 DEF IInv

LEMMA ReturnKeepsIInv ==
  ASSUME IInv, NEW c \in Callers, Return(c)
  PROVE  IInv'
  <1>1. /\ pc[c] = "wait" /\ next[c] = sent[c]
        /\ UNCHANGED <<poolVars, ready, threads, next, sent>>
        /\ \E s \in {"returned", "threw"} : pc' = [pc EXCEPT ![c] = s]
    BY DEF Return, callVars
  <1>2. Types'
    BY <1>1 DEF IInv, Types, poolVars
  <1>3. Submitted' = Submitted
    BY <1>1, TaskOf DEF IInv, Types, Submitted
  <1>4. OncePerTask' /\ Numbered'
    BY <1>1, <1>3, NothingSubmitted
  <1>5. Awaited'
    BY <1>1 DEF IInv, Types, Awaited
  <1>6. QED
    BY <1>2, <1>4, <1>5 DEF IInv

LEMMA StartChunkKeepsIInv ==
  ASSUME IInv, NEW w \in Workers, StartChunk(w)
  PROVE  IInv'
  <1>1. /\ running[w] = NoTask /\ waiting # <<>>
        /\ running' = [running EXCEPT ![w] = Head(waiting)]
        /\ waiting' = Tail(waiting)
        /\ UNCHANGED <<ready, threads, pc, next, sent>>
    BY DEF StartChunk, Pool!Start, chunkVars, callVars
  <1>2. /\ Len(waiting) \in Nat \ {0} /\ Head(waiting) = waiting[1]
        /\ waiting' \in Seq(Tasks) /\ Len(waiting') = Len(waiting) - 1
        /\ \A k \in 1..Len(waiting') : waiting'[k] = waiting[k + 1]
    BY <1>1 DEF IInv, Types
  <1>3. 1 \in 1..Len(waiting) /\ waiting[1] \in Tasks /\ waiting[1] # NoTask
    BY <1>2, ForkJoinAssumption DEF IInv, Types, Tasks
  <1>4. \A k \in 1..Len(waiting') : k + 1 \in 1..Len(waiting) /\ k + 1 # 1
    BY <1>2
  <1>5. \A v \in Workers : running'[v] = (IF v = w THEN waiting[1] ELSE running[v])
    BY <1>1, <1>2 DEF IInv, Types
  <1>6. Types'
    <2>1. running' \in [Workers -> Tasks \cup {NoTask}]
      BY <1>1, <1>2, <1>3 DEF IInv, Types
    <2>2. QED
      BY <1>1, <1>2, <2>1 DEF IInv, Types
  <1>7. OncePerTask'
    <2>1. \A k, l \in 1..Len(waiting') : waiting'[k] = waiting'[l] => k = l
      <3> SUFFICES ASSUME NEW k \in 1..Len(waiting'), NEW l \in 1..Len(waiting'),
                          waiting'[k] = waiting'[l]
                   PROVE  k = l
        OBVIOUS
      <3>1. waiting[k + 1] = waiting[l + 1]
        BY <1>2
      <3>2. k + 1 = l + 1
        BY <3>1, <1>4 DEF IInv, OncePerTask
      <3>3. QED
        BY <3>2
    <2>2. \A v \in Workers : running[v] # waiting[1]
      BY <1>3 DEF IInv, OncePerTask
    <2>3. \A u, v \in Workers :
             running'[u] = running'[v] /\ running'[u] # NoTask => u = v
      BY <1>5, <2>2 DEF IInv, OncePerTask
    <2>4. \A k \in 1..Len(waiting') : waiting'[k] # waiting[1]
      BY <1>2, <1>3, <1>4 DEF IInv, OncePerTask
    <2>5. \A k \in 1..Len(waiting'), v \in Workers : waiting'[k] # running'[v]
      BY <1>2, <1>4, <1>5, <2>4 DEF IInv, OncePerTask
    <2>6. \A k \in 1..Len(waiting') : waiting'[k] \notin ready
      BY <1>2, <1>4 DEF IInv, OncePerTask
    <2>7. \A v \in Workers : running'[v] \notin ready
      BY <1>3, <1>5 DEF IInv, OncePerTask
    <2>8. QED
      BY <1>1, <2>1, <2>3, <2>5, <2>6, <2>7 DEF OncePerTask
  <1>8. Numbered'
    <2>1. Submitted' = Submitted
      BY <1>1 DEF Submitted
    <2>2. \A k \in 1..Len(waiting') : waiting'[k] \in Submitted
      BY <1>2, <1>4 DEF IInv, Numbered
    <2>3. \A v \in Workers : running'[v] # NoTask => running'[v] \in Submitted
      BY <1>3, <1>5 DEF IInv, Numbered
    <2>4. QED
      BY <1>1, <2>1, <2>2, <2>3 DEF IInv, Numbered
  <1>9. Awaited'
    BY <1>1 DEF IInv, Awaited
  <1>10. QED
    BY <1>6, <1>7, <1>8, <1>9 DEF IInv

\* The future of a chunk is ready when the chunk is over, however it ends.
LEMMA EndOfChunkKeepsIInv ==
  ASSUME IInv, NEW w \in Workers, FinishChunk(w) \/ FailChunk(w)
  PROVE  IInv'
  <1>1. /\ running[w] # NoTask
        /\ running' = [running EXCEPT ![w] = NoTask]
        /\ ready' = ready \cup {running[w]}
        /\ UNCHANGED <<waiting, threads, pc, next, sent>>
    BY DEF FinishChunk, FailChunk, Pool!Finish, callVars
  <1>2. \A v \in Workers : running'[v] = (IF v = w THEN NoTask ELSE running[v])
    BY <1>1 DEF IInv, Types
  <1>3. running[w] \in Tasks
    BY <1>1 DEF IInv, Types
  <1>4. Types'
    BY <1>1, <1>3 DEF IInv, Types
  <1>5. NoTask \notin Tasks
    BY ForkJoinAssumption DEF Tasks
  <1>6. OncePerTask'
    <2>1. \A k \in 1..Len(waiting), v \in Workers : waiting[k] # running'[v]
      BY <1>2, <1>5 DEF IInv, Types, OncePerTask
    <2>2. \A k \in 1..Len(waiting) : waiting[k] \notin ready'
      BY <1>1 DEF IInv, OncePerTask
    <2>3. \A v \in Workers : running'[v] \notin ready'
      BY <1>1, <1>2, <1>3, <1>5 DEF IInv, Types, OncePerTask
    <2>4. \A u, v \in Workers :
             running'[u] = running'[v] /\ running'[u] # NoTask => u = v
      BY <1>2 DEF IInv, OncePerTask
    <2>5. QED
      BY <1>1, <2>1, <2>2, <2>3, <2>4 DEF IInv, OncePerTask
  <1>7. Numbered'
    <2>1. Submitted' = Submitted
      BY <1>1 DEF Submitted
    <2>2. QED
      BY <1>1, <1>2, <2>1 DEF IInv, Numbered
  <1>8. Awaited'
    BY <1>1 DEF IInv, Awaited
  <1>9. QED
    BY <1>4, <1>6, <1>7, <1>8 DEF IInv

\* Tasks that are discarded are never ready, and so their caller never returns.
LEMMA PoolStepKeepsIInv ==
  ASSUME IInv, PoolStep
  PROVE  IInv'
  <1>1. /\ UNCHANGED <<running, ready, threads, pc, next, sent>>
        /\ waiting' = waiting \/ waiting' = <<>>
    BY DEF PoolStep, PausePool, ResumePool, BeginStop, Raises, EndStop,
           Pool!Close, Pool!Discard, chunkVars, callVars
  <1>2. Types'
    <2>1. waiting \in Seq(Tasks) /\ <<>> \in Seq(Tasks)
      BY DEF IInv, Types
    <2>2. waiting' \in Seq(Tasks)
      BY <1>1, <2>1
    <2>3. QED
      BY <1>1, <2>2 DEF IInv, Types
  <1>3. OncePerTask'
    BY <1>1 DEF IInv, OncePerTask
  <1>4. Submitted' = Submitted
    BY <1>1 DEF Submitted
  <1>5. Numbered'
    BY <1>1, <1>4 DEF IInv, Numbered
  <1>6. Awaited'
    BY <1>1 DEF IInv, Awaited
  <1>7. QED
    BY <1>2, <1>3, <1>5, <1>6 DEF IInv

LEMMA NextKeepsIInv == IInv /\ [Next]_vars => IInv'
  <1> SUFFICES ASSUME IInv, [Next]_vars PROVE IInv'
    OBVIOUS
  <1>1. ASSUME NEW c \in Callers, CallerStep(c) PROVE IInv'
    BY <1>1, InlineKeepsIInv, SubmitChunkKeepsIInv, EndSubmitKeepsIInv,
       AwaitChunkKeepsIInv, ReturnKeepsIInv DEF CallerStep
  <1>2. ASSUME NEW c \in Callers, NEW algo \in Algorithms, NEW r \in Ranges,
               Call(c, algo, r)
        PROVE  IInv'
    BY <1>2, CallKeepsIInv
  <1>3. ASSUME NEW w \in Workers, WorkerStep(w) PROVE IInv'
    BY <1>3, StartChunkKeepsIInv, EndOfChunkKeepsIInv DEF WorkerStep
  <1>4. CASE PoolStep
    BY <1>4, PoolStepKeepsIInv
  <1>5. CASE UNCHANGED vars
    <2>1. UNCHANGED <<waiting, running, ready, threads, pc, next, sent>>
      BY <1>5 DEF vars, poolVars, chunkVars, callVars
    <2>2. Submitted' = Submitted
      BY <2>1 DEF Submitted
    <2>3. QED
      BY <2>1, <2>2 DEF IInv, Types, OncePerTask, Numbered, Awaited
  <1>6. QED
    BY <1>1, <1>2, <1>3, <1>4, <1>5 DEF Next

\* ParallelFor, Reduce and Sort wait for every future they have, without asking for
\* outcomes, before they return or throw (pool.cpp:84-85, sync.hpp:156-157, 209-210):
\* no task that refers to the stack frame of a call is waiting or running after it,
\* for any callers, workers, ranges and numbers of threads.
THEOREM NoChunkIsLeft == Spec => []NoChunkOutlivesCall
  <1>1. IInv => NoChunkOutlivesCall
    <2> SUFFICES ASSUME IInv, NEW c \in Callers, pc[c] \in {"returned", "threw"},
                        NEW i \in Indices
                 PROVE  /\ \A k \in DOMAIN waiting : waiting[k] # <<c, i>>
                        /\ \A w \in Workers : running[w] # <<c, i>>
      BY DEF NoChunkOutlivesCall, Indices
    <2>1. <<c, i>> \in Submitted => i < sent[c]
      BY DEF Submitted
    <2>2. <<c, i>> \in Submitted => <<c, i>> \in ready
      BY <2>1 DEF IInv, Awaited
    <2>3. DOMAIN waiting = 1..Len(waiting)
      BY DEF IInv, Types
    <2>4. <<c, i>> # NoTask
      BY ForkJoinAssumption DEF Indices
    <2>5. QED
      BY <2>2, <2>3, <2>4 DEF IInv, OncePerTask, Numbered
  <1>2. QED
    BY InitIInv, NextKeepsIInv, <1>1, PTL DEF Spec

-----------------------------------------------------------------------------
(* The results.                                                              *)

\* A caller that is not idle has made a call.
Called ==
    \A c \in Callers : pc[c] # "idle" =>
        /\ range[c] \in Ranges /\ (op[c] = "for" \/ range[c][1] = 0)
        /\ threads[c] = NumThreads(op[c], Count(range[c]))

\* What a chunk has before it is run.
Blank(algo) == IF algo = "reduce" THEN Initial ELSE <<>>

\* As long as the function has not thrown, the chunks that are over have left what a
\* sequential loop over their data computes, and the others nothing.
Pieces ==
    \A c \in Callers : pc[c] # "idle" /\ ~failed[c] =>
        \A i \in 0..(threads[c] - 1) :
            partial[c][i] = IF <<c, i>> \in ready THEN Sequentially(op[c], ChunkData(<<c, i>>))
                            ELSE Blank(op[c])

\* The first chunk that was not submitted is empty.
SentAll ==
    \A c \in Callers :
        /\ pc[c] = "inline" => threads[c] <= 1
        /\ pc[c] \in {"wait", "returned", "threw"} /\ threads[c] > 1 =>
              sent[c] = threads[c] \/ IsEmpty(ChunkOf(c, sent[c]))

Domains == DOMAIN range = Callers /\ DOMAIN partial = Callers

RInv == IInv /\ TypeOK /\ Domains /\ Called /\ Pieces /\ SentAll

\* Elements of a range, or what Sort is given of them.
LEMMA DataTyped ==
  ASSUME NEW algo \in Algorithms, NEW r \in Ranges, algo = "for" \/ r[1] = 0,
         NEW a \in Nat, NEW b \in Nat, b <= r[2]
  PROVE  /\ Data(algo, a, b) \in Seq(Elements)
         /\ Len(Data(algo, a, b)) = (IF a < b THEN b - a ELSE 0)
         /\ algo = "sort" => Data(algo, a, b) \in Seq(Nat)
  <1> DEFINE at(k) == IF algo = "sort" THEN Key[a + k] ELSE a + k - 1
             n == IF a < b THEN b - a ELSE 0
  <1>1. n \in Nat /\ 1..(b - a) = 1..n /\ \A k \in 1..n : a + k \in 1..r[2] /\ a + k - 1 \in 0..r[2]
    <2>1. r[2] \in Nat
      BY ForkJoinAssumption
    <2>2. QED
      BY <2>1
  <1>2. Data(algo, a, b) = [k \in 1..n |-> at(k)]
    BY <1>1 DEF Data
  <1>3. \A k \in 1..n : at(k) \in Elements /\ (algo = "sort" => at(k) \in Nat)
    <2> SUFFICES ASSUME NEW k \in 1..n
                 PROVE  at(k) \in Elements /\ (algo = "sort" => at(k) \in Nat)
      OBVIOUS
    <2> HIDE DEF n
    <2>1. CASE algo = "sort"
      <3>1. r[2] <= Len(Key) /\ Key \in Seq(Nat) /\ Len(Key) \in Nat /\ r[2] \in Nat
        BY <2>1, DataAssumption, ForkJoinAssumption
      <3>2. a + k \in 1..Len(Key)
        BY <1>1, <3>1
      <3>3. Key[a + k] \in Nat /\ a + k \in DOMAIN Key
        BY <3>1, <3>2
      <3>4. QED
        BY <2>1, <3>3 DEF Elements
    <2>2. CASE algo # "sort"
      <3>1. a + k - 1 \in 0..r[2]
        BY <1>1
      <3>2. QED
        BY <2>2, <3>1 DEF Elements
    <2>3. QED
      BY <2>1, <2>2
  <1> HIDE DEF at, n
  <1>4. Data(algo, a, b) \in Seq(Elements) /\ Len(Data(algo, a, b)) = n
    BY <1>1, <1>2, <1>3
  <1>5. algo = "sort" => Data(algo, a, b) \in Seq(Nat)
    BY <1>1, <1>2, <1>3
  <1>6. QED
    BY <1>4, <1>5 DEF n

\* A chunk ends with the range at the latest.
LEMMA ChunkTyped ==
  ASSUME NEW r \in Ranges, NEW n \in Nat \ {0}, NEW i \in Nat
  PROVE  LET chunk == Chunk(r[1], r[2], n, i)
         IN  chunk.begin \in Nat /\ chunk.end \in Nat /\ chunk.end <= r[2]
  <1> DEFINE size == ChunkSize(r[2] - r[1], n)
             first == (r[1] + i * size) % Modulus
             chunk == Chunk(r[1], r[2], n, i)
  <1>1. r[1] \in Nat /\ r[2] \in Nat /\ Modulus \in Nat \ {0}
    BY ForkJoinAssumption
  <1>2. size \in Nat
    <2>1. (r[2] - r[1] + n - 1) % Modulus \in Nat
      BY <1>1
    <2>2. QED
      BY <2>1 DEF ChunkSize
  <1>3. chunk.begin = first /\ chunk.end = Least(r[2], (first + size) % Modulus)
    BY DEF Chunk
  <1> HIDE DEF size, chunk
  <1>4. i * size \in Nat
    BY <1>2
  <1>5. first \in Nat
    BY <1>1, <1>4
  <1> HIDE DEF first
  <1>6. (first + size) % Modulus \in Nat
    BY <1>1, <1>2, <1>5
  <1>7. QED
    BY <1>1, <1>3, <1>5, <1>6 DEF Least, chunk

\* Sorted has the elements it was given.
LEMMA SortedTyped ==
  ASSUME NEW T, NEW s \in Seq(T), s \in Seq(Nat)
  PROVE  Sorted(s) \in Seq(T)
  <1> DEFINE t == Sorted(s)
  <1>1. t \in Seq(Nat) /\ Len(t) = Len(s) /\ \A k \in 1..Len(s) : IsKth(s, k, t[k])
    BY SortedIsKth
  <1> HIDE DEF t
  <1>2. \A k \in 1..Len(t) : t[k] \in T
    BY <1>1 DEF IsKth
  <1>3. t \in Seq(T)
    BY <1>1, <1>2
  <1>4. QED
    BY <1>3 DEF t

\* What a chunk may leave is a sequence of elements.
LEMMA PieceTyped ==
  ASSUME NEW algo \in Algorithms, NEW r \in Ranges, algo = "for" \/ r[1] = 0,
         NEW a \in Nat, NEW b \in Nat, b <= r[2]
  PROVE  /\ Sequentially(algo, Data(algo, a, b)) \in Seq(Elements)
         /\ \A piece \in Remains(algo, Data(algo, a, b)) : piece \in Seq(Elements)
         /\ Blank(algo) \in Seq(Elements)
  <1> DEFINE d == Data(algo, a, b)
  <1>1. d \in Seq(Elements) /\ (algo = "sort" => d \in Seq(Nat))
    BY DataTyped
  <1> HIDE DEF d
  <1>2. Initial \in Seq(Elements) /\ <<>> \in Seq(Elements)
    <2>1. Initial \in Seq(InitialElements)
      BY DataAssumption DEF InitialElements
    <2>2. InitialElements \subseteq Elements
      BY DEF Elements
    <2>3. QED
      BY <2>1, <2>2
  <1>3. CASE algo = "for"
    <2>1. \A k \in 0..(Len(d) - 1) : SubSeq(d, 1, k) \in Seq(Elements)
      BY <1>1
    <2>2. QED
      BY <1>1, <1>2, <1>3, <2>1 DEF Sequentially, Remains, Blank, d
  <1>4. CASE algo = "reduce"
    <2>1. Initial \o d \in Seq(Elements)
      BY <1>1, <1>2
    <2>2. QED
      BY <1>1, <1>2, <1>4, <2>1 DEF Sequentially, Remains, Blank, d
  <1>5. CASE algo = "sort"
    <2>1. Sorted(d) \in Seq(Elements)
      BY <1>1, <1>5, SortedTyped
    <2>2. QED
      BY <1>1, <1>2, <1>5, <2>1 DEF Sequentially, Remains, Blank, d
  <1>6. QED
    BY <1>3, <1>4, <1>5 DEF Algorithms

LEMMA InitRInv == Init => RInv
  <1> SUFFICES ASSUME Init PROVE RInv
    OBVIOUS
  <1>1. IInv
    BY InitIInv
  <1> USE DEF Init, Pool!Init
  <1>2. TypeOK
    <2>1. 0 \in 0..MaxThreads
      BY ForkJoinAssumption
    <2>2. \A c \in Callers : partial[c] \in [0..(threads[c] - 1) -> Seq(Elements)]
      <3> SUFFICES ASSUME NEW c \in Callers
                   PROVE  partial[c] \in [0..(threads[c] - 1) -> Seq(Elements)]
        OBVIOUS
      <3>1. threads[c] = 0 /\ 0..(0 - 1) = {}
        OBVIOUS
      <3>2. DOMAIN partial[c] = {} /\ partial[c] = [i \in {} |-> <<>>]
        OBVIOUS
      <3>3. QED
        BY <3>1, <3>2
    <2>3. /\ waiting \in Seq(Tasks) /\ ready \subseteq completed /\ completed \subseteq Tasks
          /\ mode = "open" /\ ~closed
      OBVIOUS
    <2>4. /\ running \in [Workers -> Tasks \cup {NoTask}] /\ closed \in BOOLEAN
          /\ failed \in [Callers -> BOOLEAN] /\ op \in [Callers -> Algorithms]
      BY DEF Algorithms
    <2>5. /\ pc \in [Callers -> {"idle", "inline", "submit", "wait", "returned", "threw"}]
          /\ threads \in [Callers -> 0..MaxThreads] /\ next \in [Callers -> 0..MaxThreads]
          /\ \A c \in Callers : pc[c] = "idle" /\ next[c] <= threads[c] /\ sent[c] <= threads[c]
      BY <2>1
    <2>6. QED
      BY <2>2, <2>3, <2>4, <2>5 DEF TypeOK
  <1>3. Called
    BY DEF Called
  <1>4. Pieces
    BY DEF Pieces
  <1>5. SentAll
    BY DEF SentAll
  <1>6. Domains
    BY DEF Domains
  <1>7. QED
    BY <1>1, <1>2, <1>3, <1>4, <1>5, <1>6 DEF RInv

\* A step that leaves the calls and their chunks alone.
LEMMA SameCalls ==
  ASSUME RInv, UNCHANGED <<callVars, ready, partial>>,
         \A c \in Callers : (pc'[c] # "idle" => pc[c] # "idle") /\ (failed[c] => failed'[c])
  PROVE  Called' /\ Pieces'
  <1>1. UNCHANGED <<op, range, threads, ready, partial>>
    BY DEF callVars
  <1>2. Called'
    BY <1>1 DEF RInv, Called
  <1>3. \A c \in Callers, i \in Nat : ChunkData(<<c, i>>)' = ChunkData(<<c, i>>)
    BY <1>1 DEF ChunkData, ChunkOf
  <1>4. Pieces'
    <2> SUFFICES ASSUME NEW c \in Callers, (pc[c] # "idle")', (~failed[c])',
                        NEW i \in 0..(threads'[c] - 1)
                 PROVE  partial'[c][i] =
                          IF <<c, i>> \in ready'
                          THEN Sequentially(op'[c], ChunkData(<<c, i>>)') ELSE Blank(op'[c])
      BY DEF Pieces
    <2>1. pc[c] # "idle" /\ ~failed[c] /\ i \in 0..(threads[c] - 1) /\ i \in Nat
      BY <1>1
    <2>2. partial[c][i] = IF <<c, i>> \in ready THEN Sequentially(op[c], ChunkData(<<c, i>>))
                          ELSE Blank(op[c])
      BY <2>1 DEF RInv, Pieces
    <2>3. ChunkData(<<c, i>>)' = ChunkData(<<c, i>>)
      BY <1>3, <2>1
    <2>4. QED
      BY <1>1, <2>2, <2>3
  <1>5. QED
    BY <1>2, <1>4

\* Nor has it sent anything.
LEMMA SameSent ==
  ASSUME RInv, UNCHANGED <<callVars, sent>>,
         \A c \in Callers : /\ pc'[c] = "inline" => pc[c] = "inline"
                            /\ pc'[c] \in {"wait", "returned", "threw"} /\ threads[c] > 1 =>
                                  pc[c] \in {"wait", "returned", "threw"}
  PROVE  SentAll'
  <1>1. UNCHANGED <<op, range, threads, sent>>
    BY DEF callVars
  <1>2. \A c \in Callers, i \in Nat : ChunkOf(c, i)' = ChunkOf(c, i)
    BY <1>1 DEF ChunkOf
  <1>3. \A c \in Callers : IsEmpty(ChunkOf(c, sent[c]))' <=> IsEmpty(ChunkOf(c, sent[c]))
    BY <1>1 DEF ChunkOf, IsEmpty
  <1>4. QED
    BY <1>1, <1>3 DEF RInv, SentAll

LEMMA CallKeepsRInv ==
  ASSUME RInv, NEW c \in Callers, NEW algo \in Algorithms, NEW r \in Ranges, Call(c, algo, r)
  PROVE  RInv'
  <1> DEFINE n == NumThreads(algo, Count(r))
             blanks == [i \in 0..(n - 1) |-> Blank(algo)]
  <1>1. IInv'
    BY CallKeepsIInv DEF RInv
  <1>2. /\ pc[c] = "idle" /\ (algo = "for" \/ r[1] = 0)
        /\ threads' = [threads EXCEPT ![c] = n]
        /\ partial' = [partial EXCEPT ![c] = blanks]
        /\ pc' = [pc EXCEPT ![c] = IF n <= 1 THEN "inline" ELSE "submit"]
        /\ op' = [op EXCEPT ![c] = algo]
        /\ range' = [range EXCEPT ![c] = r]
        /\ UNCHANGED <<waiting, running, completed, closed, mode, ready, failed, next, sent>>
    BY DEF Call, Blank, poolVars
  <1>3. n \in 0..MaxThreads /\ MaxThreads \in Nat
    BY ThreadsBounded, ForkJoinAssumption
  <1>4. next[c] = 0 /\ sent[c] = 0
    BY <1>2 DEF RInv, IInv, Awaited
  <1>5. blanks \in [0..(n - 1) -> Seq(Elements)]
    <2>1. 0 \in Nat /\ 0 <= r[2]
      BY ForkJoinAssumption
    <2>2. Blank(algo) \in Seq(Elements)
      BY <1>2, <2>1, PieceTyped
    <2>3. QED
      BY <2>2
  <1> HIDE DEF n, blanks
  <1>6. /\ threads'[c] = n /\ partial'[c] = blanks /\ op'[c] = algo /\ range'[c] = r
        /\ \A d \in Callers \ {c} : /\ threads'[d] = threads[d] /\ partial'[d] = partial[d]
                                    /\ op'[d] = op[d] /\ range'[d] = range[d]
                                    /\ pc'[d] = pc[d]
    BY <1>2 DEF RInv, TypeOK, Domains
  <1>7. TypeOK'
    <2>1. \A d \in Callers : partial'[d] \in [0..(threads'[d] - 1) -> Seq(Elements)]
      BY <1>5, <1>6 DEF RInv, TypeOK
    <2>2. \A d \in Callers : (pc[d] # "idle")' => range'[d] \in Ranges
      BY <1>6 DEF RInv, TypeOK
    <2>3. \A d \in Callers : next'[d] <= threads'[d] /\ sent'[d] <= threads'[d]
      BY <1>2, <1>3, <1>4, <1>6 DEF RInv, TypeOK
    <2>4. /\ pc' \in [Callers -> {"idle", "inline", "submit", "wait", "returned", "threw"}]
          /\ op' \in [Callers -> Algorithms] /\ threads' \in [Callers -> 0..MaxThreads]
      BY <1>2, <1>3 DEF RInv, TypeOK
    <2>5. QED
      BY <1>2, <2>1, <2>2, <2>3, <2>4 DEF RInv, TypeOK
  <1>8. Called'
    <2> SUFFICES ASSUME NEW d \in Callers, (pc[d] # "idle")'
                 PROVE  /\ range'[d] \in Ranges /\ (op'[d] = "for" \/ range'[d][1] = 0)
                        /\ threads'[d] = NumThreads(op'[d], Count(range'[d]))
      BY DEF Called
    <2>1. CASE d = c
      BY <1>2, <1>6, <2>1 DEF n
    <2>2. CASE d # c
      BY <1>6, <2>2 DEF RInv, Called
    <2>3. QED
      BY <2>1, <2>2
  <1>9. Pieces'
    <2> SUFFICES ASSUME NEW d \in Callers, (pc[d] # "idle")', (~failed[d])',
                        NEW i \in 0..(threads'[d] - 1)
                 PROVE  partial'[d][i] =
                          IF <<d, i>> \in ready'
                          THEN Sequentially(op'[d], ChunkData(<<d, i>>)') ELSE Blank(op'[d])
      BY DEF Pieces
    <2>1. CASE d = c
      <3>1. <<c, i>> \notin ready
        <4>1. <<c, i>> \notin Submitted
          BY <1>2, <1>4 DEF Submitted
        <4>2. QED
          BY <4>1 DEF RInv, IInv, Numbered
      <3>2. partial'[c][i] = Blank(algo)
        BY <1>6, <2>1 DEF blanks
      <3>3. QED
        BY <1>2, <1>6, <2>1, <3>1, <3>2
    <2>2. CASE d # c
      <3>1. pc[d] # "idle" /\ ~failed[d] /\ i \in 0..(threads[d] - 1)
        BY <1>2, <1>6, <2>2
      <3>2. ChunkData(<<d, i>>)' = ChunkData(<<d, i>>)
        BY <1>6, <2>2 DEF ChunkData, ChunkOf
      <3>3. partial[d][i] = IF <<d, i>> \in ready THEN Sequentially(op[d], ChunkData(<<d, i>>))
                            ELSE Blank(op[d])
        BY <3>1 DEF RInv, Pieces
      <3>4. QED
        BY <1>2, <1>6, <2>2, <3>2, <3>3
    <2>3. QED
      BY <2>1, <2>2
  <1>10. SentAll'
    <2>a. ASSUME NEW d \in Callers, (pc[d] = "inline")' PROVE threads'[d] <= 1
      <3>1. CASE d = c
        BY <1>2, <1>3, <1>6, <2>a, <3>1 DEF RInv, TypeOK
      <3>2. CASE d # c
        BY <1>6, <2>a, <3>2 DEF RInv, SentAll
      <3>3. QED
        BY <3>1, <3>2
    <2> SUFFICES ASSUME NEW d \in Callers, (pc[d] \in {"wait", "returned", "threw"})',
                        threads'[d] > 1
                 PROVE  sent'[d] = threads'[d] \/ IsEmpty(ChunkOf(d, sent[d]))'
      BY <2>a DEF SentAll
    <2>1. d # c
      BY <1>2 DEF RInv, TypeOK
    <2>2. sent[d] = threads[d] \/ IsEmpty(ChunkOf(d, sent[d]))
      BY <1>6, <2>1 DEF RInv, SentAll
    <2>3. ChunkOf(d, sent[d])' = ChunkOf(d, sent[d])
      BY <1>2, <1>6, <2>1 DEF ChunkOf
    <2>4. QED
      BY <1>2, <1>6, <2>1, <2>2, <2>3
  <1>11. QED
    BY <1>1, <1>2, <1>7, <1>8, <1>9, <1>10 DEF RInv, Domains


LEMMA InlineKeepsRInv ==
  ASSUME RInv, NEW c \in Callers, Inline(c)
  PROVE  RInv'
  <1>1. IInv'
    BY InlineKeepsIInv DEF RInv
  <1>2. /\ pc[c] = "inline" /\ UNCHANGED <<poolVars, ready, partial, callVars, next, sent>>
        /\ \E s \in {"returned", "threw"} : pc' = [pc EXCEPT ![c] = s]
        /\ failed' = failed \/ failed' = [failed EXCEPT ![c] = TRUE]
    BY DEF Inline
  <1>3. TypeOK' /\ Domains'
    BY <1>2 DEF RInv, TypeOK, Domains, poolVars, callVars
  <1>4. \A d \in Callers : (pc'[d] # "idle" => pc[d] # "idle") /\ (failed[d] => failed'[d])
    BY <1>2 DEF RInv, TypeOK
  <1>5. Called' /\ Pieces'
    BY <1>2, <1>4, SameCalls
  <1>6. threads[c] <= 1 /\ threads[c] \in Nat
    BY <1>2 DEF RInv, SentAll, IInv, Types
  <1>7. SentAll'
    <2>1. \A d \in Callers : /\ pc'[d] = "inline" => pc[d] = "inline"
                             /\ pc'[d] \in {"wait", "returned", "threw"} /\ threads[d] > 1 =>
                                   pc[d] \in {"wait", "returned", "threw"}
      BY <1>2, <1>6 DEF RInv, TypeOK
    <2>2. QED
      BY <1>2, <2>1, SameSent
  <1>8. QED
    BY <1>1, <1>3, <1>5, <1>7 DEF RInv

LEMMA SubmitChunkKeepsRInv ==
  ASSUME RInv, NEW c \in Callers, SubmitChunk(c)
  PROVE  RInv'
  <1>1. IInv'
    BY SubmitChunkKeepsIInv DEF RInv
  <1>2. /\ pc[c] = "submit" /\ next[c] < threads[c]
        /\ waiting' = Append(waiting, <<c, next[c]>>)
        /\ next' = [next EXCEPT ![c] = @ + 1]
        /\ UNCHANGED <<running, completed, closed, mode, ready, partial, failed, callVars>>
        /\ UNCHANGED <<pc, sent>>
    BY DEF SubmitChunk, Pool!Accept, chunkVars
  <1>3. TypeOK' /\ Domains'
    <2>1. waiting' \in Seq(Tasks)
      BY <1>1 DEF IInv, Types
    <2>2. threads[c] \in 0..MaxThreads /\ next[c] \in 0..MaxThreads /\ MaxThreads \in Nat
      BY ForkJoinAssumption DEF RInv, TypeOK
    <2>3. next' \in [Callers -> 0..MaxThreads] /\ \A d \in Callers : next'[d] <= threads[d]
      BY <1>2, <2>2 DEF RInv, TypeOK
    <2>4. UNCHANGED <<op, range, threads>>
      BY <1>2 DEF callVars
    <2>5. QED
      BY <1>2, <2>1, <2>3, <2>4 DEF RInv, TypeOK, Domains
  <1>4. Called' /\ Pieces'
    BY <1>2, SameCalls
  <1>5. SentAll'
    BY <1>2, SameSent
  <1>6. QED
    BY <1>1, <1>3, <1>4, <1>5 DEF RInv

LEMMA EndSubmitKeepsRInv ==
  ASSUME RInv, NEW c \in Callers, EndSubmit(c)
  PROVE  RInv'
  <1>1. IInv'
    BY EndSubmitKeepsIInv DEF RInv
  <1>2. /\ pc[c] = "submit" /\ (next[c] = threads[c] \/ IsEmpty(ChunkOf(c, next[c])))
        /\ pc' = [pc EXCEPT ![c] = "wait"]
        /\ sent' = [sent EXCEPT ![c] = next[c]]
        /\ next' = [next EXCEPT ![c] = 0]
        /\ UNCHANGED <<poolVars, ready, partial, failed, callVars>>
    BY DEF EndSubmit, chunkVars
  <1>3. UNCHANGED <<op, range, threads>>
    BY <1>2 DEF callVars
  <1>4. \A d \in Callers : sent'[d] = (IF d = c THEN next[c] ELSE sent[d])
    BY <1>2 DEF RInv, IInv, Types
  <1>5. TypeOK' /\ Domains'
    <2>1. next' \in [Callers -> 0..MaxThreads] /\ \A d \in Callers : next'[d] <= threads[d]
      <3>1. 0 \in 0..MaxThreads /\ threads[c] \in Nat
        BY ForkJoinAssumption DEF RInv, TypeOK
      <3>2. QED
        BY <1>2, <3>1 DEF RInv, TypeOK
    <2>2. \A d \in Callers : sent'[d] <= threads[d]
      BY <1>4 DEF RInv, TypeOK
    <2>3. QED
      BY <1>2, <1>3, <2>1, <2>2 DEF RInv, TypeOK, Domains, poolVars
  <1>6. \A d \in Callers : pc'[d] # "idle" => pc[d] # "idle"
    BY <1>2 DEF RInv, TypeOK
  <1>7. Called' /\ Pieces'
    BY <1>2, <1>6, SameCalls
  <1>8. SentAll'
    <2>1. \A d \in Callers, i \in Nat : ChunkOf(d, i)' = ChunkOf(d, i)
      BY <1>3 DEF ChunkOf
    <2> SUFFICES ASSUME NEW d \in Callers
                 PROVE  /\ pc'[d] = "inline" => threads'[d] <= 1
                        /\ pc'[d] \in {"wait", "returned", "threw"} /\ threads'[d] > 1 =>
                              sent'[d] = threads'[d] \/ IsEmpty(ChunkOf(d, sent[d]))'
      BY DEF SentAll
    <2>2. ChunkOf(d, sent[d])' = Chunk(range[d][1], range[d][2], threads[d], sent'[d])
      BY <1>3 DEF ChunkOf
    <2>3. CASE d = c
      BY <1>2, <1>3, <1>4, <2>2, <2>3 DEF RInv, TypeOK, ChunkOf, IsEmpty
    <2>4. CASE d # c
      BY <1>2, <1>3, <1>4, <2>2, <2>4 DEF RInv, TypeOK, SentAll, ChunkOf, IsEmpty
    <2>5. QED
      BY <2>3, <2>4
  <1>9. QED
    BY <1>1, <1>5, <1>7, <1>8 DEF RInv

LEMMA AwaitChunkKeepsRInv ==
  ASSUME RInv, NEW c \in Callers, AwaitChunk(c)
  PROVE  RInv'
  <1>1. IInv'
    BY AwaitChunkKeepsIInv DEF RInv
  <1>2. /\ next[c] < sent[c] /\ next' = [next EXCEPT ![c] = @ + 1]
        /\ UNCHANGED <<poolVars, ready, partial, failed, callVars, pc, sent>>
    BY DEF AwaitChunk, chunkVars
  <1>3. TypeOK' /\ Domains'
    <2>1. /\ next[c] \in 0..MaxThreads /\ sent[c] <= threads[c] /\ sent[c] \in Nat
          /\ threads[c] \in 0..MaxThreads /\ MaxThreads \in Nat
      BY ForkJoinAssumption DEF RInv, TypeOK, IInv, Types
    <2>2. next[c] + 1 \in 0..MaxThreads /\ next[c] + 1 <= threads[c]
      BY <1>2, <2>1
    <2>3. next' \in [Callers -> 0..MaxThreads] /\ \A d \in Callers : next'[d] <= threads[d]
      BY <1>2, <2>2 DEF RInv, TypeOK
    <2>4. UNCHANGED <<op, range, threads>>
      BY <1>2 DEF callVars
    <2>5. QED
      BY <1>2, <2>3, <2>4 DEF RInv, TypeOK, Domains, poolVars
  <1>4. Called' /\ Pieces'
    BY <1>2, SameCalls
  <1>5. SentAll'
    BY <1>2, SameSent
  <1>6. QED
    BY <1>1, <1>3, <1>4, <1>5 DEF RInv

LEMMA ReturnKeepsRInv ==
  ASSUME RInv, NEW c \in Callers, Return(c)
  PROVE  RInv'
  <1>1. IInv'
    BY ReturnKeepsIInv DEF RInv
  <1>2. /\ pc[c] = "wait" /\ UNCHANGED <<poolVars, ready, partial, callVars, next, sent>>
        /\ \E s \in {"returned", "threw"} : pc' = [pc EXCEPT ![c] = s]
        /\ failed' = failed \/ failed' = [failed EXCEPT ![c] = TRUE]
    BY DEF Return
  <1>3. TypeOK' /\ Domains'
    BY <1>2 DEF RInv, TypeOK, Domains, poolVars, callVars
  <1>4. \A d \in Callers : /\ pc'[d] # "idle" => pc[d] # "idle"
                           /\ failed[d] => failed'[d]
                           /\ pc'[d] = "inline" => pc[d] = "inline"
                           /\ pc'[d] \in {"wait", "returned", "threw"} =>
                                 pc[d] \in {"wait", "returned", "threw"}
    BY <1>2 DEF RInv, TypeOK
  <1>5. Called' /\ Pieces'
    BY <1>2, <1>4, SameCalls
  <1>6. SentAll'
    BY <1>2, <1>4, SameSent
  <1>7. QED
    BY <1>1, <1>3, <1>5, <1>6 DEF RInv

LEMMA StartChunkKeepsRInv ==
  ASSUME RInv, NEW w \in Workers, StartChunk(w)
  PROVE  RInv'
  <1>1. IInv'
    BY StartChunkKeepsIInv DEF RInv
  <1>2. UNCHANGED <<completed, closed, mode, ready, partial, failed, callVars, pc, next, sent>>
    BY DEF StartChunk, Pool!Start, chunkVars
  <1>3. TypeOK' /\ Domains'
    <2>1. waiting' \in Seq(Tasks) /\ running' \in [Workers -> Tasks \cup {NoTask}]
      BY <1>1 DEF IInv, Types
    <2>2. UNCHANGED <<op, range, threads>>
      BY <1>2 DEF callVars
    <2>3. QED
      BY <1>2, <2>1, <2>2 DEF RInv, TypeOK, Domains
  <1>4. Called' /\ Pieces'
    BY <1>2, SameCalls
  <1>5. SentAll'
    BY <1>2, SameSent
  <1>6. QED
    BY <1>1, <1>3, <1>4, <1>5 DEF RInv

LEMMA PoolStepKeepsRInv ==
  ASSUME RInv, PoolStep
  PROVE  RInv'
  <1>1. IInv'
    BY PoolStepKeepsIInv DEF RInv
  <1>2. /\ UNCHANGED <<completed, ready, partial, failed, callVars, pc, next, sent>>
        /\ closed' \in BOOLEAN /\ mode' \in {"open", "paused", "stopping"}
        /\ closed' => mode' = "stopping"
    <2>1. closed \in BOOLEAN /\ (closed => mode = "stopping")
      BY DEF RInv, TypeOK
    <2>2. CASE PausePool \/ ResumePool \/ BeginStop
      BY <2>1, <2>2 DEF PausePool, ResumePool, BeginStop, Raises, chunkVars
    <2>3. CASE EndStop
      BY <2>1, <2>3 DEF EndStop, Pool!Close, Pool!Discard, chunkVars
    <2>4. QED
      BY <2>2, <2>3 DEF PoolStep
  <1>3. TypeOK' /\ Domains'
    <2>1. waiting' \in Seq(Tasks) /\ running' \in [Workers -> Tasks \cup {NoTask}]
      BY <1>1 DEF IInv, Types
    <2>2. UNCHANGED <<op, range, threads>>
      BY <1>2 DEF callVars
    <2>3. QED
      BY <1>2, <2>1, <2>2 DEF RInv, TypeOK, Domains
  <1>4. Called' /\ Pieces'
    BY <1>2, SameCalls
  <1>5. SentAll'
    BY <1>2, SameSent
  <1>6. QED
    BY <1>1, <1>3, <1>4, <1>5 DEF RInv

\* The chunk that a worker runs is one of a call that is not over.
LEMMA RunningChunk ==
  ASSUME RInv, NEW w \in Workers, running[w] # NoTask
  PROVE  \E c \in Callers, i \in Nat :
            /\ running[w] = <<c, i>> /\ running[w] \in Tasks
            /\ i \in 0..(threads[c] - 1) /\ pc[c] # "idle"
  <1> DEFINE t == running[w]
  <1>1. t \in Tasks /\ t \in Submitted
    BY DEF RInv, IInv, Types, Numbered
  <1>2. PICK c \in Callers, i \in Nat : t = <<c, i>> /\ i \in Indices
    BY <1>1, TaskOf DEF Tasks, Indices
  <1>3. i < (IF pc[c] = "submit" THEN next[c] ELSE sent[c])
    BY <1>1, <1>2 DEF Submitted
  <1>4. /\ next[c] <= threads[c] /\ sent[c] <= threads[c]
        /\ next[c] \in Nat /\ sent[c] \in Nat /\ threads[c] \in Nat
    BY DEF RInv, TypeOK, IInv, Types
  <1>5. i \in 0..(threads[c] - 1)
    BY <1>3, <1>4
  <1>6. pc[c] # "idle"
    BY <1>3, <1>4 DEF RInv, IInv, Awaited
  <1>7. QED
    BY <1>1, <1>2, <1>5, <1>6

\* What a chunk is about.
LEMMA RunningData ==
  ASSUME RInv, NEW c \in Callers, NEW i \in Nat, i \in 0..(threads[c] - 1), pc[c] # "idle"
  PROVE  /\ Sequentially(op[c], ChunkData(<<c, i>>)) \in Seq(Elements)
         /\ \A piece \in Remains(op[c], ChunkData(<<c, i>>)) : piece \in Seq(Elements)
  <1> DEFINE chunk == Chunk(range[c][1], range[c][2], threads[c], i)
  <1>1. /\ range[c] \in Ranges /\ (op[c] = "for" \/ range[c][1] = 0)
        /\ op[c] \in Algorithms /\ threads[c] \in Nat \ {0}
    BY DEF RInv, Called, TypeOK, IInv, Types
  <1>2. chunk.begin \in Nat /\ chunk.end \in Nat /\ chunk.end <= range[c][2]
    BY <1>1, ChunkTyped
  <1>3. ChunkData(<<c, i>>) = Data(op[c], chunk.begin, chunk.end)
    BY DEF ChunkData, ChunkOf
  <1> HIDE DEF chunk
  <1>4. QED
    BY <1>1, <1>2, <1>3, PieceTyped

LEMMA EndOfChunkKeepsRInv ==
  ASSUME RInv, NEW w \in Workers, FinishChunk(w) \/ FailChunk(w)
  PROVE  RInv'
  <1>1. IInv'
    BY EndOfChunkKeepsIInv DEF RInv
  <1>2. running[w] # NoTask
    BY DEF FinishChunk, FailChunk, Pool!Finish
  <1>3. PICK c \in Callers, i \in Nat :
            /\ running[w] = <<c, i>> /\ running[w] \in Tasks
            /\ i \in 0..(threads[c] - 1) /\ pc[c] # "idle"
    BY <1>2, RunningChunk
  <1> DEFINE full == Sequentially(op[c], ChunkData(<<c, i>>))
  <1>4. /\ completed' = completed \cup {<<c, i>>} /\ ready' = ready \cup {<<c, i>>}
        /\ UNCHANGED <<closed, mode, callVars, pc, next, sent>>
    BY <1>3 DEF FinishChunk, FailChunk, Pool!Finish
  <1>5. \E piece \in Seq(Elements) :
           /\ partial' = [partial EXCEPT ![c] = [@ EXCEPT ![i] = piece]]
           /\ \/ piece = full /\ failed' = failed
              \/ failed' = [failed EXCEPT ![c] = TRUE]
    <2>1. /\ full \in Seq(Elements)
          /\ \A piece \in Remains(op[c], ChunkData(<<c, i>>)) : piece \in Seq(Elements)
      BY <1>3, RunningData
    <2>2. CASE FinishChunk(w)
      <3>1. Leaves(<<c, i>>, full) /\ failed' = failed
        BY <1>3, <2>2 DEF FinishChunk
      <3> HIDE DEF full
      <3>2. partial' = [partial EXCEPT ![c] = [@ EXCEPT ![i] = full]]
        BY <3>1 DEF Leaves
      <3>3. QED
        BY <2>1, <3>1, <3>2
    <2>3. CASE FailChunk(w)
      <3>1. PICK piece \in Remains(op[c], ChunkData(<<c, i>>)) : Leaves(<<c, i>>, piece)
        BY <1>3, <2>3 DEF FailChunk
      <3>2. partial' = [partial EXCEPT ![c] = [@ EXCEPT ![i] = piece]]
        BY <3>1 DEF Leaves
      <3>3. failed' = [failed EXCEPT ![c] = TRUE]
        BY <1>3, <2>3 DEF FailChunk
      <3>4. piece \in Seq(Elements)
        BY <2>1, <3>1
      <3>5. QED
        BY <3>2, <3>3, <3>4
    <2>4. QED
      BY <2>2, <2>3
  <1>6. PICK piece \in Seq(Elements) :
           /\ partial' = [partial EXCEPT ![c] = [@ EXCEPT ![i] = piece]]
           /\ \/ piece = full /\ failed' = failed
              \/ failed' = [failed EXCEPT ![c] = TRUE]
    BY <1>5
  <1>7. UNCHANGED <<op, range, threads>>
    BY <1>4 DEF callVars
  <1>8. /\ partial'[c] = [partial[c] EXCEPT ![i] = piece]
        /\ \A d \in Callers \ {c} : partial'[d] = partial[d]
    BY <1>6 DEF RInv, Domains
  <1>9. partial[c] \in [0..(threads[c] - 1) -> Seq(Elements)]
    BY DEF RInv, TypeOK
  <1>10. TypeOK' /\ Domains'
    <2>1. waiting' \in Seq(Tasks) /\ running' \in [Workers -> Tasks \cup {NoTask}]
      BY <1>1 DEF IInv, Types
    <2>2. \A d \in Callers : partial'[d] \in [0..(threads[d] - 1) -> Seq(Elements)]
      <3>1. partial'[c] \in [0..(threads[c] - 1) -> Seq(Elements)]
        BY <1>8, <1>9
      <3>2. QED
        BY <1>8, <3>1 DEF RInv, TypeOK
    <2>3. completed' \subseteq Tasks /\ ready' \subseteq completed'
      BY <1>3, <1>4 DEF RInv, TypeOK
    <2>4. failed' \in [Callers -> BOOLEAN]
      BY <1>6 DEF RInv, TypeOK
    <2>5. DOMAIN partial' = Callers
      BY <1>6 DEF RInv, Domains
    <2>6. QED
      BY <1>4, <1>7, <2>1, <2>2, <2>3, <2>4, <2>5 DEF RInv, TypeOK, Domains
  <1>11. Called'
    BY <1>4, <1>7 DEF RInv, Called
  <1>12. SentAll'
    BY <1>4, SameSent
  <1>13. Pieces'
    <2> SUFFICES ASSUME NEW d \in Callers, (pc[d] # "idle")', (~failed[d])',
                        NEW j \in 0..(threads'[d] - 1)
                 PROVE  partial'[d][j] =
                          IF <<d, j>> \in ready'
                          THEN Sequentially(op'[d], ChunkData(<<d, j>>)') ELSE Blank(op'[d])
      BY DEF Pieces
    <2>1. ChunkData(<<d, j>>)' = ChunkData(<<d, j>>)
      BY <1>7 DEF ChunkData, ChunkOf
    <2>2. pc[d] # "idle" /\ ~failed[d] /\ j \in 0..(threads[d] - 1)
      BY <1>4, <1>6, <1>7 DEF RInv, TypeOK
    <2>3. CASE d = c /\ j = i
      <3>1. piece = full
        BY <1>6, <2>3 DEF RInv, TypeOK
      <3>2. partial'[d][j] = full
        BY <1>8, <1>9, <2>2, <2>3, <3>1
      <3>3. <<d, j>> \in ready'
        BY <1>4, <2>3
      <3>4. QED
        BY <1>7, <2>1, <2>3, <3>2, <3>3
    <2>4. CASE ~(d = c /\ j = i)
      <3>1. partial'[d][j] = partial[d][j]
        BY <1>8, <1>9, <2>2, <2>4
      <3>2. <<d, j>> \in ready' <=> <<d, j>> \in ready
        BY <1>4, <2>4
      <3>3. partial[d][j] = IF <<d, j>> \in ready THEN Sequentially(op[d], ChunkData(<<d, j>>))
                            ELSE Blank(op[d])
        BY <2>2 DEF RInv, Pieces
      <3>4. QED
        BY <1>7, <2>1, <3>1, <3>2, <3>3
    <2>5. QED
      BY <2>3, <2>4
  <1>14. QED
    BY <1>1, <1>10, <1>11, <1>12, <1>13 DEF RInv

LEMMA NextKeepsRInv == RInv /\ [Next]_vars => RInv'
  <1> SUFFICES ASSUME RInv, [Next]_vars PROVE RInv'
    OBVIOUS
  <1>1. ASSUME NEW c \in Callers, CallerStep(c) PROVE RInv'
    BY <1>1, InlineKeepsRInv, SubmitChunkKeepsRInv, EndSubmitKeepsRInv,
       AwaitChunkKeepsRInv, ReturnKeepsRInv DEF CallerStep
  <1>2. ASSUME NEW c \in Callers, NEW algo \in Algorithms, NEW r \in Ranges,
               Call(c, algo, r)
        PROVE  RInv'
    BY <1>2, CallKeepsRInv
  <1>3. ASSUME NEW w \in Workers, WorkerStep(w) PROVE RInv'
    BY <1>3, StartChunkKeepsRInv, EndOfChunkKeepsRInv DEF WorkerStep
  <1>4. CASE PoolStep
    BY <1>4, PoolStepKeepsRInv
  <1>5. CASE UNCHANGED vars
    <2>1. /\ UNCHANGED <<waiting, running, completed, closed, mode, ready, partial, failed>>
          /\ UNCHANGED <<callVars, pc, next, sent>>
      BY <1>5 DEF vars, poolVars, chunkVars
    <2>2. IInv'
      BY <1>5, NextKeepsIInv DEF RInv
    <2>3. Called' /\ Pieces'
      BY <2>1, SameCalls
    <2>4. SentAll'
      BY <2>1, SameSent
    <2>5. UNCHANGED <<op, range, threads>>
      BY <2>1 DEF callVars
    <2>6. TypeOK' /\ Domains'
      BY <2>1, <2>5 DEF RInv, TypeOK, Domains
    <2>7. QED
      BY <2>2, <2>3, <2>4, <2>6 DEF RInv
  <1>6. QED
    BY <1>1, <1>2, <1>3, <1>4, <1>5 DEF Next

\* Rounded up by less than the number of threads.
LEMMA RoundedUpByLess ==
  ASSUME NEW count \in Nat, NEW n \in Nat \ {0}
  PROVE  n * ((count + n - 1) \div n) <= count + n - 1
  <1> DEFINE a == count + n - 1
             q == a \div n
  <1>1. a \in Nat /\ a = n * q + (a % n) /\ q \in Nat /\ a % n \in 0..(n - 1)
    OBVIOUS
  <1> HIDE DEF q
  <1>2. n * q <= a
    BY <1>1
  <1>3. QED
    BY <1>2 DEF q

\* The data of the chunks are the data of the range, cut into pieces, and after an empty
\* chunk all are.
LEMMA ChunkCuts ==
  ASSUME NEW algo \in Algorithms, NEW r \in Ranges, algo = "for" \/ r[1] = 0, r[1] < r[2],
         NEW n \in Nat \ {0}, r[2] + n <= Modulus
  PROVE  \E cut :
            /\ IsCut(cut, n, Data(algo, r[1], r[2]))
            /\ \A i \in 0..(n - 1) :
                  LET chunk == Chunk(r[1], r[2], n, i)
                  IN  /\ Data(algo, chunk.begin, chunk.end) =
                           SubSeq(Data(algo, r[1], r[2]), cut[i] + 1, cut[i + 1])
                      /\ IsEmpty(chunk) =>
                            \A j \in i..(n - 1) : IsEmpty(Chunk(r[1], r[2], n, j))
  <1> DEFINE b == r[1]
             e == r[2]
             count == e - b
             size == ChunkSize(e - b, n)
             d == Data(algo, b, e)
             cut == [i \in 0..n |-> Least(count, i * size)]
             C(i) == Chunk(b, e, n, i)
  <1>1. b \in Nat /\ e \in Nat /\ b < e /\ e + n <= Modulus /\ Modulus \in Nat \ {0}
    BY ForkJoinAssumption
  <1>2. d \in Seq(Elements) /\ Len(d) = count
    <2>1. e <= r[2]
      BY <1>1
    <2>2. QED
      BY <1>1, <2>1, DataTyped
  <1> HIDE DEF b, e
  <1>3. count \in Nat \ {0} /\ count + n - 1 \in Nat /\ count + n - 1 < Modulus
    BY <1>1
  <1>4. size = (count + n - 1) \div n
    BY <1>1, <1>3 DEF ChunkSize
  <1>5. /\ size \in Nat \ {0} /\ size * n >= count
        /\ n * size <= count + n - 1
    <2>1. /\ (count + n - 1) \div n \in Nat \ {0} /\ ((count + n - 1) \div n) * n >= count
          /\ n * ((count + n - 1) \div n) <= count + n - 1
      BY <1>3, RoundedUp, RoundedUpByLess
    <2>2. QED
      BY <1>4, <2>1
  <1>6. b + n * size < Modulus
    <2>1. n * size \in Nat
      BY <1>5
    <2>2. QED
      BY <1>1, <1>5, <2>1
  <1>7. \A i \in 0..(n - 1) : C(i).begin = b + i * size /\ C(i).end = Least(e, b + i * size + size)
    BY <1>1, <1>5, <1>6, ChunkBounds
  <1> HIDE DEF size, C, d
  <1>8. \A i \in 0..n : i * size \in Nat
    BY <1>5
  <1>9. \A i \in 0..(n - 1) : i * size + size = (i + 1) * size /\ i \in 0..n /\ i + 1 \in 0..n
    BY <1>5
  <1> HIDE DEF count
  <1>10. \A i \in 0..n : cut[i] = Least(count, i * size)
    OBVIOUS
  <1> HIDE DEF cut
  <1>11. IsCut(cut, n, d)
    <2>1. \A i \in 0..n : cut[i] \in 0..count
      BY <1>3, <1>8, <1>10 DEF Least
    <2>2. cut \in [0..n -> 0..Len(d)]
      BY <1>2, <2>1 DEF cut
    <2>3. cut[0] = 0
      <3>1. 0 \in 0..n /\ 0 * size = 0
        BY <1>5
      <3>2. QED
        BY <1>3, <1>10, <3>1 DEF Least
    <2>4. cut[n] = Len(d)
      <3>1. n \in 0..n /\ n * size = size * n
        BY <1>5
      <3>2. QED
        BY <1>2, <1>3, <1>5, <1>10, <3>1 DEF Least
    <2>5. \A i \in 0..(n - 1) : cut[i] <= cut[i + 1]
      <3> SUFFICES ASSUME NEW i \in 0..(n - 1) PROVE cut[i] <= cut[i + 1]
        OBVIOUS
      <3>1. cut[i] = Least(count, i * size) /\ cut[i + 1] = Least(count, i * size + size)
        BY <1>9, <1>10
      <3>2. i * size \in Nat
        BY <1>8, <1>9
      <3>3. QED
        BY <1>3, <1>5, <3>1, <3>2 DEF Least
    <2>6. QED
      BY <2>2, <2>3, <2>4, <2>5 DEF IsCut
  <1>12. ASSUME NEW i \in 0..(n - 1)
         PROVE  Data(algo, C(i).begin, C(i).end) = SubSeq(d, cut[i] + 1, cut[i + 1])
    <2> DEFINE x == i * size
               u == Data(algo, C(i).begin, C(i).end)
               v == SubSeq(d, cut[i] + 1, cut[i + 1])
    <2>1. x \in Nat /\ C(i).begin = b + x /\ C(i).end = Least(e, b + x + size)
      BY <1>7, <1>8, <1>9
    <2>2. cut[i] = Least(count, x) /\ cut[i + 1] = Least(count, x + size)
      BY <1>9, <1>10
    <2>3. C(i).begin \in Nat /\ C(i).end \in Nat /\ C(i).end <= r[2]
      BY <1>1, <1>5, <2>1 DEF Least, e
    <2>4. u \in Seq(Elements) /\ Len(u) = (IF C(i).begin < C(i).end THEN C(i).end - C(i).begin ELSE 0)
      <3> DEFINE lo == C(i).begin hi == C(i).end
      <3>1. lo \in Nat /\ hi \in Nat /\ hi <= r[2]
        BY <2>3
      <3> HIDE DEF lo, hi
      <3>2. /\ Data(algo, lo, hi) \in Seq(Elements)
            /\ Len(Data(algo, lo, hi)) = (IF lo < hi THEN hi - lo ELSE 0)
        BY <3>1, DataTyped
      <3>3. QED
        BY <3>2 DEF lo, hi
    <2>5. cut[i] \in 0..Len(d) /\ cut[i + 1] \in 0..Len(d) /\ cut[i] <= cut[i + 1]
      BY <1>9, <1>11 DEF IsCut
    <2>6. v \in Seq(Elements) /\ Len(v) = cut[i + 1] - cut[i] /\ \A k \in 1..Len(v) : v[k] = d[cut[i] + k]
      <3> DEFINE p == cut[i] q == cut[i + 1]
      <3>1. p \in 0..Len(d) /\ q \in 0..Len(d) /\ p <= q
        BY <2>5
      <3>2. v = SubSeq(d, p + 1, q)
        OBVIOUS
      <3> HIDE DEF p, q, v
      <3>3. v \in Seq(Elements) /\ Len(v) = q - p
        BY <1>2, <3>1, <3>2
      <3>4. ASSUME NEW k \in 1..(q - p) PROVE v[k] = d[p + k]
        BY <1>2, <3>1, <3>2
      <3>5. QED
        BY <3>3, <3>4 DEF p, q
    <2> HIDE DEF x, v
    <2>7. Len(u) = Len(v)
      <3>0. e = b + count
        BY <1>1 DEF count
      <3>1. CASE x >= count
        <4>1. cut[i] = count /\ cut[i + 1] = count
          BY <1>3, <1>5, <2>1, <2>2, <3>1 DEF Least
        <4>2. ~(C(i).begin < C(i).end)
          BY <1>1, <1>3, <1>5, <2>1, <3>0, <3>1 DEF Least
        <4>3. QED
          BY <1>3, <2>4, <2>6, <4>1, <4>2
      <3>2. CASE ~(x >= count)
        <4>1. cut[i] = x /\ cut[i + 1] = Least(count, x + size)
          BY <1>3, <1>5, <2>1, <2>2, <3>2 DEF Least
        <4>2. C(i).end = b + cut[i + 1] /\ C(i).begin < C(i).end
          BY <1>1, <1>3, <1>5, <2>1, <3>0, <3>2, <4>1 DEF Least
        <4>3. Len(u) = (b + cut[i + 1]) - (b + x)
          BY <2>1, <2>4, <4>2
        <4>4. cut[i + 1] \in Nat
          BY <1>3, <1>5, <2>1, <4>1 DEF Least
        <4>5. QED
          BY <1>1, <2>1, <2>6, <4>1, <4>3, <4>4
      <3>3. QED
        BY <3>1, <3>2
    <2>8. ASSUME NEW k \in 1..Len(v) PROVE u[k] = v[k]
      <3>1. Len(v) \in Nat /\ Len(v) > 0
        BY <2>6
      <3>2. C(i).begin < C(i).end /\ C(i).begin = b + x /\ cut[i] = x /\ Len(v) = C(i).end - C(i).begin
        BY <1>1, <1>3, <1>5, <2>1, <2>2, <2>4, <2>6, <2>7, <3>1 DEF Least, count
      <3>3. x + k \in 1..(e - b)
        BY <1>2, <2>1, <2>5, <2>6, <3>1, <3>2 DEF count
      <3>4. u[k] = IF algo = "sort" THEN Key[(b + x) + k] ELSE (b + x) + k - 1
        BY <3>2 DEF Data
      <3>5. d[x + k] = IF algo = "sort" THEN Key[b + (x + k)] ELSE b + (x + k) - 1
        BY <3>3 DEF Data, d
      <3>6. (b + x) + k = b + (x + k)
        BY <1>1, <2>1
      <3>7. v[k] = d[x + k]
        BY <2>6, <3>2
      <3>8. QED
        <4>1. CASE algo = "sort"
          BY <3>4, <3>5, <3>6, <3>7, <4>1
        <4>2. CASE algo # "sort"
          <5>1. u[k] = (b + x) + k - 1 /\ v[k] = b + (x + k) - 1
            BY <3>4, <3>5, <3>7, <4>2
          <5>2. QED
            BY <1>1, <2>1, <5>1
        <4>3. QED
          BY <4>1, <4>2
    <2> HIDE DEF u
    <2>9. u = v
      BY <2>4, <2>6, <2>7, <2>8, SeqEqual
    <2>10. QED
      BY <2>9 DEF u, v
  <1>13. ASSUME NEW i \in 0..(n - 1), IsEmpty(C(i)), NEW j \in i..(n - 1) PROVE IsEmpty(C(j))
    <2>1. C(i).begin = b + i * size /\ C(i).end = Least(e, b + i * size + size)
      BY <1>7
    <2>2. C(j).begin = b + j * size /\ C(j).end = Least(e, b + j * size + size)
      BY <1>7
    <2>3. i * size \in Nat /\ j * size \in Nat /\ i \in Nat /\ j \in Nat
      BY <1>8
    <2>4. b + i * size >= e
      BY <1>1, <1>5, <1>13, <2>1, <2>3 DEF IsEmpty, Least
    <2>5. i * size <= j * size
      <3>1. CASE i = j
        BY <2>3, <3>1
      <3>2. CASE i # j
        <4>1. i < j
          BY <3>2
        <4>2. i * size + size <= j * size
          BY <1>5, <2>3, <4>1, Longer
        <4>3. QED
          BY <1>5, <2>3, <4>2
      <3>3. QED
        BY <3>1, <3>2
    <2>6. QED
      BY <1>1, <1>5, <2>2, <2>3, <2>4, <2>5 DEF IsEmpty, Least
  <1>14. QED
    BY <1>11, <1>12, <1>13 DEF C, d, b, e

\* The end of a range and the number of threads do not add up to more than 2^w.
NoWrap == \A r \in Ranges : r[2] + MaxThreads <= Modulus

\* The initial value of Reduce can be told from what is reduced.
InitialApart == \A r \in Ranges : InitialElements \cap 0..r[2] = {}

\* When a call has returned, all its chunks have left what they should: those that were
\* submitted are over, and the others are empty.
LEMMA AllPieces ==
  ASSUME RInv, NEW c \in Callers, pc[c] = "returned", ~failed[c], threads[c] > 1,
         range[c][1] < range[c][2], range[c][2] + threads[c] <= Modulus
  PROVE  \A i \in 0..(threads[c] - 1) :
            partial[c][i] = Sequentially(op[c], ChunkData(<<c, i>>))
  <1> SUFFICES ASSUME NEW i \in 0..(threads[c] - 1)
               PROVE  partial[c][i] = Sequentially(op[c], ChunkData(<<c, i>>))
    OBVIOUS
  <1> DEFINE r == range[c]
             n == threads[c]
             chunk == Chunk(r[1], r[2], n, i)
  <1>1. /\ r \in Ranges /\ (op[c] = "for" \/ r[1] = 0) /\ op[c] \in Algorithms
        /\ n \in Nat \ {0} /\ n <= MaxThreads /\ MaxThreads \in Nat
    BY ForkJoinAssumption DEF RInv, Called, TypeOK, IInv, Types
  <1>2. partial[c][i] = IF <<c, i>> \in ready THEN Sequentially(op[c], ChunkData(<<c, i>>))
                        ELSE Blank(op[c])
    BY DEF RInv, Pieces
  <1>3. CASE i < sent[c]
    <2>1. i \in Indices /\ next[c] = sent[c]
      BY <1>1 DEF Indices, RInv, IInv, Awaited
    <2>2. <<c, i>> \in ready
      BY <1>3, <2>1 DEF RInv, IInv, Awaited
    <2>3. QED
      BY <1>2, <2>2
  <1>4. CASE ~(i < sent[c])
    <2>1. sent[c] \in Nat /\ sent[c] <= n
      BY DEF RInv, TypeOK, IInv, Types
    <2>2. sent[c] \in 0..(n - 1) /\ i \in sent[c]..(n - 1)
      BY <1>1, <1>4, <2>1
    <2>3. IsEmpty(Chunk(r[1], r[2], n, sent[c]))
      BY <2>2 DEF RInv, SentAll, ChunkOf
    <2>4. IsEmpty(chunk)
      <3> HIDE DEF r, n
      <3>1. r[1] < r[2] /\ r[2] + n <= Modulus
        BY DEF r, n
      <3>2. QED
        BY <1>1, <2>2, <2>3, <3>1, ChunkCuts DEF chunk
    <2>5. chunk.begin \in Nat /\ chunk.end \in Nat /\ chunk.end <= r[2]
      BY <1>1, ChunkTyped
    <2>6. ChunkData(<<c, i>>) = Data(op[c], chunk.begin, chunk.end)
      BY DEF ChunkData, ChunkOf
    <2> DEFINE d == Data(op[c], chunk.begin, chunk.end)
    <2>7. d \in Seq(Elements) /\ Len(d) = 0 /\ (op[c] = "sort" => d \in Seq(Nat))
      <3> HIDE DEF chunk, r, n
      <3>1. ~(chunk.begin < chunk.end)
        BY <2>4, <2>5 DEF IsEmpty
      <3>2. QED
        BY <1>1, <2>5, <3>1, DataTyped
    <2> HIDE DEF d
    <2>8. d = <<>>
      BY <2>7
    <2>9. Sequentially(op[c], d) = Blank(op[c])
      <3>1. CASE op[c] = "for"
        BY <2>8, <3>1 DEF Sequentially, Blank
      <3>2. CASE op[c] = "reduce"
        <4>1. Initial \in Seq(InitialElements)
          BY DataAssumption DEF InitialElements
        <4>2. Initial \o <<>> = Initial
          BY <4>1
        <4>3. QED
          BY <2>8, <3>2, <4>2 DEF Sequentially, Blank
      <3>3. CASE op[c] = "sort"
        <4>1. Sorted(d) \in Seq(Nat) /\ Len(Sorted(d)) = 0
          BY <2>7, <3>3, SortedIsKth
        <4>2. Sorted(d) = <<>>
          BY <4>1
        <4>3. QED
          BY <3>3, <4>2 DEF Sequentially, Blank
      <3>4. QED
        BY <1>1, <3>1, <3>2, <3>3 DEF Algorithms
    <2>10. QED
      BY <1>2, <2>6, <2>9 DEF d
  <1>5. QED
    BY <1>3, <1>4

\* A call that has returned, and whose function has not thrown, has the sequential result.
LEMMA ResultOfCall ==
  ASSUME NoWrap, InitialApart, RInv,
         NEW c \in Callers, pc[c] = "returned", ~failed[c], threads[c] > 1
  PROVE  LET data == Data(op[c], range[c][1], range[c][2])
         IN  IF op[c] # "reduce" THEN Combine(c) = Sequentially(op[c], data)
             ELSE /\ Without(Combine(c), InitialElements) = data
                  /\ Len(Combine(c)) = Len(data) + (threads[c] + 1) * Len(Initial)
  <1> DEFINE r == range[c]
             n == threads[c]
             parts == partial[c]
             data == Data(op[c], r[1], r[2])
             C(i) == Chunk(r[1], r[2], n, i)
  <1>1. /\ r \in Ranges /\ (op[c] = "for" \/ r[1] = 0) /\ op[c] \in Algorithms
        /\ n \in Nat \ {0} /\ n > 1 /\ n <= MaxThreads /\ MaxThreads \in Nat
        /\ n = NumThreads(op[c], Count(r))
        /\ parts \in [0..(n - 1) -> Seq(Elements)]
    BY ForkJoinAssumption DEF RInv, Called, TypeOK, IInv, Types
  <1>2. r[1] \in Nat /\ r[2] \in Nat /\ r[1] < r[2] /\ Count(r) = r[2] - r[1]
    <2>1. r[1] \in Nat /\ r[2] \in Nat
      BY <1>1, ForkJoinAssumption
    <2>2. ASSUME Count(r) = 0 PROVE FALSE
      <3>1. 0 \div Grain = 0
        BY ForkJoinAssumption
      <3>2. NumThreads(op[c], 0) = 0
        BY <1>1, <3>1 DEF NumThreads, Least
      <3>3. QED
        BY <1>1, <2>2, <3>2
    <2>3. r[1] < r[2]
      BY <2>1, <2>2 DEF Count
    <2>4. QED
      BY <2>1, <2>3 DEF Count
  <1>3. r[2] + n <= Modulus
    <2>1. r[2] + MaxThreads <= Modulus /\ Modulus \in Nat
      BY <1>1, ForkJoinAssumption DEF NoWrap
    <2>2. QED
      BY <1>1, <1>2, <2>1
  <1>4. \A i \in 0..(n - 1) : parts[i] = Sequentially(op[c], Data(op[c], C(i).begin, C(i).end))
    <2>1. \A i \in 0..(n - 1) : parts[i] = Sequentially(op[c], ChunkData(<<c, i>>))
      BY <1>2, <1>3, AllPieces
    <2>2. \A i \in 0..(n - 1) : ChunkData(<<c, i>>) = Data(op[c], C(i).begin, C(i).end)
      BY DEF ChunkData, ChunkOf
    <2>3. QED
      BY <2>1, <2>2
  <1>5. PICK cut : /\ IsCut(cut, n, data)
                   /\ \A i \in 0..(n - 1) :
                         Data(op[c], C(i).begin, C(i).end) = SubSeq(data, cut[i] + 1, cut[i + 1])
    <2> HIDE DEF r, n, data, C
    <2>1. \E cut :
            /\ IsCut(cut, n, Data(op[c], r[1], r[2]))
            /\ \A i \in 0..(n - 1) :
                  LET chunk == Chunk(r[1], r[2], n, i)
                  IN  /\ Data(op[c], chunk.begin, chunk.end) =
                           SubSeq(Data(op[c], r[1], r[2]), cut[i] + 1, cut[i + 1])
                      /\ IsEmpty(chunk) =>
                            \A j \in i..(n - 1) : IsEmpty(Chunk(r[1], r[2], n, j))
      BY <1>1, <1>2, <1>3, ChunkCuts
    <2>2. QED
      BY <2>1 DEF data, C
  <1>6. /\ data \in Seq(Elements) /\ Len(data) = r[2] - r[1]
        /\ op[c] = "sort" => data \in Seq(Nat)
    <2>1. r[2] <= r[2]
      BY <1>2
    <2>2. QED
      BY <1>1, <1>2, <2>1, DataTyped
  <1>7. \A i \in 0..(n - 1) :
           parts[i] = Sequentially(op[c], SubSeq(data, cut[i] + 1, cut[i + 1]))
    BY <1>4, <1>5
  <1>8. CASE op[c] = "for"
    <2>1. Combine(c) = InOrder(parts, n)
      BY <1>8 DEF Combine
    <2>2. ArePieces(parts, data, cut, n)
      BY <1>7, <1>8 DEF Sequentially, ArePieces
    <2> HIDE DEF data, parts, n, r
    <2>3. InOrder(parts, n) = data
      BY <1>1, <1>5, <1>6, <2>2, PiecesInOrder
    <2>4. Sequentially(op[c], data) = data
      BY <1>8 DEF Sequentially
    <2>5. Combine(c) = Sequentially(op[c], data)
      BY <2>1, <2>3, <2>4
    <2>6. QED
      BY <1>8, <2>5 DEF data, r
  <1>9. CASE op[c] = "reduce"
    <2>1. IsJoin(Combine(c), Initial, InOrder(parts, n))
      BY <1>9 DEF Combine, IsJoin
    <2>2. \A i \in 0..(n - 1) : parts[i] = Initial \o SubSeq(data, cut[i] + 1, cut[i + 1])
      BY <1>7, <1>9 DEF Sequentially
    <2>3. /\ Initial \in Seq(InitialElements) /\ InitialElements \subseteq Elements
          /\ Initial \in Seq(Elements)
      <3>1. Initial \in Seq(InitialElements)
        BY DataAssumption DEF InitialElements
      <3>2. InitialElements \subseteq Elements
        BY DEF Elements
      <3>3. QED
        BY <3>1, <3>2
    <2>4. \A k \in 1..Len(Initial) : Initial[k] \in InitialElements
      BY <2>3
    <2>5. \A k \in 1..Len(data) : data[k] \notin InitialElements
      <3> SUFFICES ASSUME NEW k \in 1..Len(data) PROVE data[k] \notin InitialElements
        OBVIOUS
      <3>1. k \in 1..(r[2] - r[1])
        BY <1>6
      <3>2. data[k] = r[1] + k - 1
        BY <1>9, <3>1 DEF Data
      <3>3. data[k] \in 0..r[2]
        BY <1>2, <3>1, <3>2
      <3>4. QED
        BY <1>1, <3>3 DEF InitialApart
    <2> HIDE DEF data, parts, n, r
    <2>6. ArePrefixed(parts, Initial, data, cut, n)
      BY <2>2 DEF ArePrefixed
    <2>7. /\ Without(Combine(c), InitialElements) = data
          /\ Len(Combine(c)) = Len(data) + (n + 1) * Len(Initial)
      <3> DEFINE T == Elements S == InitialElements result == Combine(c)
      <3>1. AllIn(Initial, S) /\ NoneIn(data, S)
        BY <2>4, <2>5 DEF AllIn, NoneIn
      <3>2. PrefixedPieces(parts, Initial, data, S, cut, n, T)
        BY <1>1, <1>5, <1>6, <2>3, <2>6, <3>1 DEF PrefixedPieces
      <3>3. IsJoin(result, Initial, InOrder(parts, n))
        BY <2>1
      <3> HIDE DEF T, S, result
      <3>4. Without(result, S) = data /\ Len(result) = Len(data) + (n + 1) * Len(Initial)
        BY <3>2, <3>3, PrefixedInOrder
      <3>5. QED
        BY <3>4 DEF S, result
    <2>8. QED
      BY <1>9, <2>7 DEF data, n, r
  <1>10. CASE op[c] = "sort"
    <2>1. Combine(c) = Merged(parts, Count(r))
      BY <1>10 DEF Combine
    <2>2. \A i \in 0..(n - 1) : parts[i] = Sorted(SubSeq(data, cut[i] + 1, cut[i + 1]))
      BY <1>7, <1>10 DEF Sequentially
    <2> HIDE DEF data, parts, n, r
    <2>3. AreSorted(parts, data, cut, n)
      BY <2>2 DEF AreSorted
    <2>4. \A i \in 0..(n - 1) : parts[i] \in Seq(Nat)
      <3> SUFFICES ASSUME NEW i \in 0..(n - 1) PROVE parts[i] \in Seq(Nat)
        OBVIOUS
      <3>1. SubSeq(data, cut[i] + 1, cut[i + 1]) \in Seq(Nat)
        <4>1. i \in 0..n /\ i + 1 \in 0..n
          BY <1>1
        <4>2. cut[i] \in 0..Len(data) /\ cut[i + 1] \in 0..Len(data)
          BY <1>5, <4>1 DEF IsCut
        <4>3. QED
          BY <1>6, <1>10, <4>2
      <3>2. QED
        BY <2>2, <3>1, SortedIsKth
    <2>5. parts \in [0..(n - 1) -> Seq(Nat)]
      BY <1>1, <2>4
    <2>6. Merged(parts, Len(data)) = Sorted(data)
      BY <1>1, <1>5, <1>6, <1>10, <2>3, <2>5, PiecesMerged
    <2>7. Combine(c) = Sequentially(op[c], data)
      BY <1>2, <1>6, <1>10, <2>1, <2>6 DEF Sequentially
    <2>8. QED
      BY <1>10, <2>7 DEF data, r
  <1>11. QED
    BY <1>1, <1>8, <1>9, <1>10 DEF Algorithms

\* The state of the pool, the callers and the chunks, for any callers, workers, ranges and
\* numbers of threads, whether or not sums wrap around: what a chunk leaves is a sequence
\* of elements, and no caller has submitted or awaited more chunks than it has threads.
THEOREM ForkJoinTypeCorrect == Spec => []TypeOK
  <1>1. RInv => TypeOK
    BY DEF RInv
  <1>2. QED
    BY InitRInv, NextKeepsRInv, <1>1, PTL DEF Spec

\* ParallelFor, Reduce and Sort compute what the sequential loop does, whatever the order
\* in which their chunks are run (pool.cpp:52-87, sync.hpp:116-244): the chunks are the
\* range, their results joined in order are the result, and merging them sorts it.  That
\* is for any number of callers, workers and threads, and any ranges whose end plus the
\* number of threads is at most 2^w.
THEOREM ResultsAreSequential ==
  ASSUME NoWrap, InitialApart
  PROVE  Spec => []ResultIsSequential
  <1>1. RInv => ResultIsSequential
    BY ResultOfCall DEF ResultIsSequential
  <1>2. QED
    BY InitRInv, NextKeepsRInv, <1>1, PTL DEF Spec

-----------------------------------------------------------------------------
(* The pool loses no chunk of a call.                                        *)

InQueue(t) == \E k \in 1..Len(waiting) : waiting[k] = t
OnWorker(t) == \E w \in Workers : running[w] = t

\* A chunk that was submitted is over, waits or runs, unless the pool has closed.
NoChunkLost == \A t \in Submitted : t \in ready \/ InQueue(t) \/ OnWorker(t) \/ closed

\* What a caller does but for submitting changes nothing of what it has submitted.
LEMMA SubmittedStays ==
  ASSUME IInv, NEW c \in Callers,
         \/ Inline(c) \/ EndSubmit(c) \/ AwaitChunk(c) \/ Return(c)
         \/ \E algo \in Algorithms, r \in Ranges : Call(c, algo, r)
  PROVE  Submitted' = Submitted /\ UNCHANGED <<waiting, running, closed, ready>>
  <1>1. CASE Inline(c)
    <2>1. /\ pc[c] = "inline" /\ UNCHANGED <<poolVars, ready, next, sent>>
          /\ \E s \in {"returned", "threw"} : pc' = [pc EXCEPT ![c] = s]
      BY <1>1 DEF Inline
    <2>2. next[c] = 0 /\ sent[c] = 0
      BY <2>1 DEF IInv, Awaited
    <2>3. QED
      BY <2>1, <2>2, TaskOf DEF IInv, Types, Submitted, poolVars
  <1>2. CASE EndSubmit(c)
    <2>1. /\ pc[c] = "submit" /\ UNCHANGED <<poolVars, ready>>
          /\ pc' = [pc EXCEPT ![c] = "wait"]
          /\ sent' = [sent EXCEPT ![c] = next[c]]
          /\ next' = [next EXCEPT ![c] = 0]
      BY <1>2 DEF EndSubmit, chunkVars
    <2>2. QED
      BY <2>1, TaskOf DEF IInv, Types, Submitted, poolVars
  <1>3. CASE AwaitChunk(c)
    <2>1. /\ pc[c] = "wait" /\ next' = [next EXCEPT ![c] = @ + 1]
          /\ UNCHANGED <<poolVars, ready, pc, sent>>
      BY <1>3 DEF AwaitChunk, chunkVars
    <2>2. QED
      BY <2>1, TaskOf DEF IInv, Types, Submitted, poolVars
  <1>4. CASE Return(c)
    <2>1. /\ pc[c] = "wait" /\ UNCHANGED <<poolVars, ready, next, sent>>
          /\ \E s \in {"returned", "threw"} : pc' = [pc EXCEPT ![c] = s]
      BY <1>4 DEF Return
    <2>2. QED
      BY <2>1, TaskOf DEF IInv, Types, Submitted, poolVars
  <1>5. ASSUME NEW algo \in Algorithms, NEW r \in Ranges, Call(c, algo, r)
        PROVE  Submitted' = Submitted /\ UNCHANGED <<waiting, running, closed, ready>>
    <2>1. /\ pc[c] = "idle" /\ UNCHANGED <<poolVars, ready, next, sent>>
          /\ \E s \in {"inline", "submit"} : pc' = [pc EXCEPT ![c] = s]
      BY <1>5 DEF Call
    <2>2. next[c] = 0 /\ sent[c] = 0
      BY <2>1 DEF IInv, Awaited
    <2>3. QED
      BY <2>1, <2>2, TaskOf DEF IInv, Types, Submitted, poolVars
  <1>6. QED
    BY <1>1, <1>2, <1>3, <1>4, <1>5

LEMMA NextKeepsNoChunkLost == IInv /\ NoChunkLost /\ [Next]_vars => NoChunkLost'
  <1> SUFFICES ASSUME IInv, NoChunkLost, [Next]_vars PROVE NoChunkLost'
    OBVIOUS
  <1>1. ASSUME Submitted' = Submitted, UNCHANGED <<waiting, running, closed, ready>>
        PROVE  NoChunkLost'
    BY <1>1 DEF NoChunkLost, InQueue, OnWorker
  <1>2. ASSUME NEW c \in Callers, SubmitChunk(c) PROVE NoChunkLost'
    <2>0. PICK new : new = <<c, next[c]>>
      OBVIOUS
    <2>1. /\ pc[c] = "submit" /\ next[c] < threads[c]
          /\ waiting' = Append(waiting, new)
          /\ next' = [next EXCEPT ![c] = @ + 1]
          /\ UNCHANGED <<running, closed, ready, pc, sent>>
      BY <1>2, <2>0 DEF SubmitChunk, Pool!Accept, chunkVars
    <2>2. new \in Tasks
      BY <2>0, <2>1, ForkJoinAssumption DEF IInv, Types, Tasks
    <2>3. /\ Len(waiting') = Len(waiting) + 1 /\ Len(waiting) \in Nat
          /\ \A k \in 1..Len(waiting) : waiting'[k] = waiting[k]
          /\ waiting'[Len(waiting) + 1] = new
      BY <2>1, <2>2 DEF IInv, Types
    <2>4. \A t \in Submitted' : t \in Submitted \/ t = new
      <3> SUFFICES ASSUME NEW t \in Submitted', t # new PROVE t \in Submitted
        OBVIOUS
      <3>1. t \in Tasks /\ t[1] \in Callers /\ t[2] \in Indices /\ t = <<t[1], t[2]>>
        BY TaskOf DEF Submitted
      <3>2. CASE t[1] = c
        <4>1. t[2] < next[c] + 1 /\ t[2] # next[c]
          BY <2>0, <2>1, <3>1, <3>2 DEF IInv, Types, Submitted
        <4>2. t[2] < next[c]
          BY <3>1, <4>1 DEF IInv, Types, Indices
        <4>3. QED
          BY <2>1, <3>1, <3>2, <4>2 DEF Submitted
      <3>3. CASE t[1] # c
        BY <2>1, <3>1, <3>3 DEF IInv, Types, Submitted
      <3>4. QED
        BY <3>2, <3>3
    <2>5. \A t : InQueue(t) => InQueue(t)'
      <3> SUFFICES ASSUME NEW k \in 1..Len(waiting)
                   PROVE  k \in 1..Len(waiting') /\ waiting'[k] = waiting[k]
        BY DEF InQueue
      <3>1. QED
        BY <2>3
    <2>6. InQueue(new)'
      <3>1. Len(waiting) + 1 \in 1..Len(waiting')
        BY <2>3
      <3>2. QED
        BY <2>3, <3>1 DEF InQueue
    <2>7. QED
      BY <2>1, <2>4, <2>5, <2>6 DEF NoChunkLost, OnWorker
  <1>3. ASSUME NEW w \in Workers, StartChunk(w) PROVE NoChunkLost'
    <2>1. /\ running[w] = NoTask /\ waiting # <<>>
          /\ running' = [running EXCEPT ![w] = Head(waiting)]
          /\ waiting' = Tail(waiting)
          /\ UNCHANGED <<closed, ready, pc, next, sent>>
      BY <1>3 DEF StartChunk, Pool!Start, chunkVars
    <2>2. /\ Len(waiting) \in Nat \ {0} /\ Head(waiting) = waiting[1]
          /\ Len(waiting') = Len(waiting) - 1
          /\ \A k \in 1..Len(waiting') : waiting'[k] = waiting[k + 1]
      BY <2>1 DEF IInv, Types
    <2>3. Submitted' = Submitted
      BY <2>1 DEF Submitted
    <2>4. \A v \in Workers : running'[v] = (IF v = w THEN waiting[1] ELSE running[v])
      BY <2>1, <2>2 DEF IInv, Types
    <2>5. ASSUME NEW t, InQueue(t) PROVE InQueue(t)' \/ OnWorker(t)'
      <3>1. PICK k \in 1..Len(waiting) : waiting[k] = t
        BY <2>5 DEF InQueue
      <3>2. CASE k = 1
        BY <2>4, <3>1, <3>2 DEF OnWorker
      <3>3. CASE k # 1
        <4>1. k - 1 \in 1..Len(waiting') /\ (k - 1) + 1 = k
          BY <2>2, <3>3
        <4>2. QED
          BY <2>2, <3>1, <4>1 DEF InQueue
      <3>4. QED
        BY <3>2, <3>3
    <2>6. ASSUME NEW t \in Submitted, OnWorker(t) PROVE OnWorker(t)'
      <3>1. t # NoTask
        BY ForkJoinAssumption DEF Submitted, Tasks
      <3>2. QED
        BY <2>1, <2>4, <2>6, <3>1 DEF OnWorker
    <2>7. QED
      BY <2>1, <2>3, <2>5, <2>6 DEF NoChunkLost
  <1>4. ASSUME NEW w \in Workers, FinishChunk(w) \/ FailChunk(w) PROVE NoChunkLost'
    <2>1. /\ running' = [running EXCEPT ![w] = NoTask]
          /\ ready' = ready \cup {running[w]}
          /\ UNCHANGED <<waiting, closed, pc, next, sent>>
      BY <1>4 DEF FinishChunk, FailChunk, Pool!Finish
    <2>2. Submitted' = Submitted
      BY <2>1 DEF Submitted
    <2>3. \A v \in Workers : v # w => running'[v] = running[v]
      BY <2>1 DEF IInv, Types
    <2>4. \A t : OnWorker(t) => OnWorker(t)' \/ t \in ready'
      BY <2>1, <2>3 DEF OnWorker
    <2>5. \A t : InQueue(t) => InQueue(t)'
      BY <2>1 DEF InQueue
    <2>6. QED
      BY <2>1, <2>2, <2>4, <2>5 DEF NoChunkLost
  <1>5. CASE PoolStep
    <2>1. CASE EndStop
      BY <2>1 DEF EndStop, Pool!Close, Pool!Discard, NoChunkLost
    <2>2. CASE PausePool \/ ResumePool \/ BeginStop
      <3>1. UNCHANGED <<waiting, running, closed, ready, pc, next, sent>>
        BY <2>2 DEF PausePool, ResumePool, BeginStop, Raises, chunkVars
      <3>2. QED
        BY <1>1, <3>1 DEF Submitted
    <2>3. QED
      BY <1>5, <2>1, <2>2 DEF PoolStep
  <1>6. CASE UNCHANGED vars
    <2>1. UNCHANGED <<waiting, running, closed, ready, pc, next, sent>>
      BY <1>6 DEF vars, poolVars, chunkVars
    <2>2. QED
      BY <1>1, <2>1 DEF Submitted
  <1>7. QED
    BY <1>1, <1>2, <1>3, <1>4, <1>5, <1>6, SubmittedStays DEF Next, CallerStep, WorkerStep

\* A caller in future.Wait() (pool.cpp:84-85) waits for a future that is ready, or whose
\* task waits in the queue or runs: only a pool that is paused or stopped can keep the
\* call from going on.  This is what CallReturns owes to the pool; the rest is fairness.
THEOREM AwaitedChunkIsServed ==
  Spec => [](\A c \in Callers :
                pc[c] = "wait" /\ next[c] < sent[c] =>
                    LET t == <<c, next[c]>>
                    IN  t \in ready \/ InQueue(t) \/ OnWorker(t) \/ closed)
  <1> DEFINE Served ==
        \A c \in Callers :
            pc[c] = "wait" /\ next[c] < sent[c] =>
                LET t == <<c, next[c]>> IN t \in ready \/ InQueue(t) \/ OnWorker(t) \/ closed
  <1>1. Init => NoChunkLost
    BY DEF Init, NoChunkLost, Submitted, Tasks
  <1>2. IInv /\ TypeOK /\ NoChunkLost => Served
    <2> SUFFICES ASSUME IInv, TypeOK, NoChunkLost, NEW c \in Callers,
                        pc[c] = "wait", next[c] < sent[c]
                 PROVE  <<c, next[c]>> \in Submitted
      BY DEF NoChunkLost
    <2>1. <<c, next[c]>> \in Tasks
      BY ForkJoinAssumption DEF IInv, Types, Tasks, TypeOK
    <2>2. QED
      BY <2>1 DEF Submitted
  <1> HIDE DEF Served
  <1>3. Spec => []Served
    BY InitIInv, NextKeepsIInv, NextKeepsNoChunkLost, ForkJoinTypeCorrect, <1>1, <1>2, PTL
       DEF Spec
  <1>4. QED
    BY <1>3 DEF Served
===============================================================================
