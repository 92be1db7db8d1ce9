------------------------------- MODULE ForkJoin -------------------------------
(***************************************************************************)
(* ParallelFor (pool.cpp), ForEach, Reduce and Sort (sync.hpp) on a pool:  *)
(* the caller submits a task per chunk and waits for the futures in turn.  *)
(* Of the pool this uses what TaskExecutor promises, and that it can be    *)
(* paused and stopped; a future is ready once its task has set its promise.*)
(*                                                                         *)
(* Reduce is over the free monoid: the function joins sequences, so that   *)
(* its result shows which elements went in, and in which order.  For       *)
(* ParallelFor the result is the indices its function was called with.     *)
(***************************************************************************)
EXTENDS Chunks, Results

CONSTANTS
    Workers,     \* the threads of the pool
    Callers,     \* the threads that make a call each
    NoTask,      \* what an idle worker runs
    Ranges,      \* pairs <<begin, end>> of size_t
    MaxThreads,  \* m_config.maxThreads, and hardware_concurrency() as well
    SortMin,     \* the size from which Sort is parallel: 10000
    Grain,       \* the elements Sort wants per thread: 1000
    Initial,     \* the initial value of Reduce, a sequence
    Key          \* the elements Sort sorts, by index

ASSUME ForkJoinAssumption ==
    /\ Modulus \in Nat \ {0} /\ MaxThreads \in Nat \ {0}
    /\ SortMin \in Nat /\ Grain \in Nat \ {0}
    /\ Ranges \subseteq (0..(Modulus - 1)) \X (0..(Modulus - 1))
    /\ NoTask \notin Callers \X (0..(MaxThreads - 1))

\* The elements can be compared, and there are as many as Sort is called with.
ASSUME DataAssumption ==
    /\ Initial \in Seq({Initial[x] : x \in DOMAIN Initial})
    /\ Key \in Seq(Nat)
    /\ \A r \in Ranges : r[1] = 0 => r[2] <= Len(Key)

VARIABLES
    waiting, running, completed, closed,  \* the executor
    mode,     \* which of m_stopping and m_paused is up; after the former, neither counts
    ready,    \* the tasks whose promise is satisfied
    pc,       \* where each caller is
    op,       \* what it has called
    range,    \* on which range
    threads,  \* numThreads
    next,     \* the variable of its loops
    sent,     \* futures.size()
    partial,  \* what its chunks have computed
    failed    \* whether the function it passed has thrown

poolVars   == <<waiting, running, completed, closed, mode>>
chunkVars  == <<ready, partial, failed>>
callVars   == <<op, range, threads>>
vars == <<poolVars, chunkVars, callVars, pc, next, sent>>

Algorithms == {"for", "reduce", "sort"}
Tasks      == Callers \X (0..(MaxThreads - 1))
InitialElements == {Initial[x] : x \in DOMAIN Initial}
Elements   == (UNION {0..r[2] : r \in Ranges}) \cup {Key[x] : x \in DOMAIN Key}
                  \cup InitialElements

Pool == INSTANCE TaskExecutor WITH Slots <- Workers

TypeOK ==
    /\ waiting \in Seq(Tasks)
    /\ running \in [Workers -> Tasks \cup {NoTask}]
    /\ completed \subseteq Tasks /\ ready \subseteq completed
    /\ closed \in BOOLEAN /\ mode \in {"open", "paused", "stopping"}
    /\ closed => mode = "stopping"
    /\ pc \in [Callers -> {"idle", "inline", "submit", "wait", "returned", "threw"}]
    /\ op \in [Callers -> Algorithms]
    /\ \A c \in Callers : pc[c] # "idle" => range[c] \in Ranges
    /\ threads \in [Callers -> 0..MaxThreads]
    /\ next \in [Callers -> 0..MaxThreads]
    /\ \A c \in Callers : next[c] <= threads[c] /\ sent[c] <= threads[c]
    /\ \A c \in Callers : partial[c] \in [0..(threads[c] - 1) -> Seq(Elements)]
    /\ failed \in [Callers -> BOOLEAN]

Init ==
    /\ Pool!Init /\ mode = "open"
    /\ ready = {}
    /\ pc = [c \in Callers |-> "idle"]
    /\ op = [c \in Callers |-> "for"]
    /\ range = [c \in Callers |-> <<0, 0>>]
    /\ threads = [c \in Callers |-> 0]
    /\ next = [c \in Callers |-> 0]
    /\ sent = [c \in Callers |-> 0]
    /\ partial = [c \in Callers |-> [i \in {} |-> <<>>]]
    /\ failed = [c \in Callers |-> FALSE]

-----------------------------------------------------------------------------
(* What is computed.                                                         *)

Count(r) == IF r[1] < r[2] THEN r[2] - r[1] ELSE 0

\* Faulty variant: the greater of the numbers, not the smaller.
TooManyThreads(algo, count) == IF MaxThreads >= count THEN MaxThreads + 1 ELSE count + 1

\* numThreads.
NumThreads(algo, count) ==
    IF algo # "sort" THEN Least(MaxThreads, count)
    ELSE IF count < SortMin THEN 0 ELSE Least(MaxThreads, count \div Grain)

\* What the function is applied to in [begin, end): the indices, or, in Sort, the
\* elements themselves.
Data(algo, begin, end) ==
    [k \in 1..(end - begin) |-> IF algo = "sort" THEN Key[begin + k] ELSE begin + k - 1]

\* A sequential loop over data that does not throw.
Sequentially(algo, data) ==
    CASE algo = "for" -> data
      [] algo = "reduce" -> Initial \o data
      [] algo = "sort" -> Sorted(data)

\* What the call returns, or has done, once its futures are ready.
Combine(c) ==
    CASE op[c] = "for" -> InOrder(partial[c], threads[c])
      [] op[c] = "reduce" -> Initial \o InOrder(partial[c], threads[c])
      [] op[c] = "sort" -> Merged(partial[c], Count(range[c]))

-----------------------------------------------------------------------------
(* The caller.                                                               *)

Call(c, algo, r) ==
    /\ pc[c] = "idle"
    /\ algo = "for" \/ r[1] = 0
    /\ LET n == NumThreads(algo, Count(r))
       IN  /\ threads' = [threads EXCEPT ![c] = n]
           /\ partial' = [partial EXCEPT ![c] =
                            [i \in 0..(n - 1) |-> IF algo = "reduce" THEN Initial ELSE <<>>]]
           /\ pc' = [pc EXCEPT ![c] = IF n <= 1 THEN "inline" ELSE "submit"]
    /\ op' = [op EXCEPT ![c] = algo]
    /\ range' = [range EXCEPT ![c] = r]
    /\ UNCHANGED <<poolVars, ready, failed, next, sent>>

\* One thread, or nothing to do: the caller runs the loop, and an exception of the
\* function is its own.
Inline(c) ==
    /\ pc[c] = "inline"
    /\ \/ /\ pc' = [pc EXCEPT ![c] = "returned"]
          /\ UNCHANGED failed
       \/ /\ Count(range[c]) > (IF op[c] = "sort" THEN 1 ELSE 0)
          /\ pc' = [pc EXCEPT ![c] = "threw"]
          /\ failed' = [failed EXCEPT ![c] = TRUE]
    /\ UNCHANGED <<poolVars, ready, partial, callVars, next, sent>>

ChunkOf(c, i) == Chunk(range[c][1], range[c][2], threads[c], i)

SubmitChunk(c) ==
    /\ pc[c] = "submit"
    /\ next[c] < threads[c] /\ ~IsEmpty(ChunkOf(c, next[c]))
    /\ Pool!Accept(<<c, next[c]>>)
    /\ next' = [next EXCEPT ![c] = @ + 1]
    /\ UNCHANGED <<mode, chunkVars, callVars, pc, sent>>

EndSubmit(c) ==
    /\ pc[c] = "submit"
    /\ next[c] = threads[c] \/ IsEmpty(ChunkOf(c, next[c]))
    /\ pc' = [pc EXCEPT ![c] = "wait"]
    /\ sent' = [sent EXCEPT ![c] = next[c]]
    /\ next' = [next EXCEPT ![c] = 0]
    /\ UNCHANGED <<poolVars, chunkVars, callVars>>

\* Faulty variant: the future is got, and its exception leaves the call.
AwaitRethrows(c) ==
    /\ pc[c] = "wait" /\ next[c] < sent[c]
    /\ <<c, next[c]>> \in ready
    /\ pc' = [pc EXCEPT ![c] = IF failed[c] THEN "threw" ELSE "wait"]
    /\ next' = [next EXCEPT ![c] = @ + 1]
    /\ UNCHANGED <<poolVars, chunkVars, callVars, sent>>

\* future.Wait(): it does not ask for the outcome.
AwaitChunk(c) ==
    /\ pc[c] = "wait" /\ next[c] < sent[c]
    /\ <<c, next[c]>> \in ready
    /\ next' = [next EXCEPT ![c] = @ + 1]
    /\ UNCHANGED <<poolVars, chunkVars, callVars, pc, sent>>

\* The results are combined, by the function of Reduce and the comparator of Sort,
\* which may throw here too.
Return(c) ==
    /\ pc[c] = "wait" /\ next[c] = sent[c]
    /\ \/ /\ pc' = [pc EXCEPT ![c] = "returned"]
          /\ UNCHANGED failed
       \/ /\ op[c] # "for"
          /\ pc' = [pc EXCEPT ![c] = "threw"]
          /\ failed' = [failed EXCEPT ![c] = TRUE]
    /\ UNCHANGED <<poolVars, ready, partial, callVars, next, sent>>

-----------------------------------------------------------------------------
(* The workers.                                                              *)

\* A worker may have tested both flags before they were raised.
StartChunk(w) ==
    /\ Pool!Start(w)
    /\ UNCHANGED <<mode, chunkVars, callVars, pc, next, sent>>

\* The chunk is over and has left `piece'.
Leaves(task, piece) ==
    partial' = [partial EXCEPT ![task[1]] = [@ EXCEPT ![task[2]] = piece]]

ChunkData(task) ==
    LET chunk == ChunkOf(task[1], task[2]) IN Data(op[task[1]], chunk.begin, chunk.end)

FinishChunk(w) ==
    /\ Pool!Finish(w)
    /\ LET task == running[w]
       IN  /\ Leaves(task, Sequentially(op[task[1]], ChunkData(task)))
           /\ ready' = ready \cup {task}
    /\ UNCHANGED <<mode, failed, callVars, pc, next, sent>>

\* What a chunk leaves whose function throws: ParallelFor has called it for some
\* indices, Reduce has stored nothing, Sort has copied the chunk, if that (whatever
\* order it is then in is left out).
Remains(algo, data) ==
    CASE algo = "for" -> {SubSeq(data, 1, k) : k \in 0..(Len(data) - 1)}
      [] algo = "reduce" -> {Initial}
      [] algo = "sort" -> {<<>>, data}

\* Faulty variant: the exception does not get to the promise.
FailChunkSilently(w) ==
    /\ Pool!Finish(w)
    /\ LET task == running[w]
       IN  /\ \E piece \in Remains(op[task[1]], ChunkData(task)) : Leaves(task, piece)
           /\ failed' = [failed EXCEPT ![task[1]] = TRUE]
    /\ UNCHANGED <<mode, ready, callVars, pc, next, sent>>

\* The exception goes to the promise; the future is ready with it.
FailChunk(w) ==
    /\ Pool!Finish(w)
    /\ LET task == running[w]
       IN  /\ \E piece \in Remains(op[task[1]], ChunkData(task)) : Leaves(task, piece)
           /\ ready' = ready \cup {task}
           /\ failed' = [failed EXCEPT ![task[1]] = TRUE]
    /\ UNCHANGED <<mode, callVars, pc, next, sent>>

\* Other threads pause, resume and stop the pool.
Raises(to) ==
    /\ mode' = to
    /\ UNCHANGED <<waiting, running, completed, closed, chunkVars, callVars, pc, next, sent>>

PausePool == mode = "open" /\ Raises("paused")

ResumePool == mode = "paused" /\ Raises("open")

\* Stop raises m_stopping.
BeginStop == mode # "stopping" /\ Raises("stopping")

\* It has joined the workers, and clears the queue.  A Stop that waits for the
\* tasks need not get there.
EndStop ==
    /\ mode = "stopping"
    /\ Pool!Close \/ Pool!Discard
    /\ UNCHANGED <<mode, chunkVars, callVars, pc, next, sent>>

PoolStep == PausePool \/ ResumePool \/ BeginStop \/ EndStop

-----------------------------------------------------------------------------
CallerStep(c) ==
    Inline(c) \/ SubmitChunk(c) \/ EndSubmit(c) \/ AwaitChunk(c) \/ Return(c)

WorkerStep(w) == StartChunk(w) \/ FinishChunk(w) \/ FailChunk(w)

Next ==
    \/ \E c \in Callers :
          CallerStep(c) \/ \E algo \in Algorithms, r \in Ranges : Call(c, algo, r)
    \/ \E w \in Workers : WorkerStep(w)
    \/ PoolStep

Spec == Init /\ [][Next]_vars

\* Callers go on with a call, and tasks end.  Workers start what is in the queue as
\* long as neither flag is up, and need not start anything else: what ThreadPool has
\* as QueuedTaskServed.  Nobody has to resume a pool, or can end a stop.
FairSpec ==
    /\ Spec
    /\ \A c \in Callers : WF_<<pc, next>>(CallerStep(c))
    /\ \A w \in Workers : WF_running(Pool!Finish(w))
    /\ WF_running(mode = "open" /\ \E w \in Workers : Pool!Start(w))

-----------------------------------------------------------------------------
(* Properties.                                                               *)

\* A call whose function never throws computes what the sequential loop does,
\* whatever the order of its chunks (test_ezthread.cpp:275-280, 868-892).  For
\* Reduce, an initial value that is neutral is no part of the result; another one
\* gets into it once for each thread and once more (sync.hpp:136, 149, 159).
ResultIsSequential ==
    \A c \in Callers :
        pc[c] = "returned" /\ ~failed[c] /\ threads[c] > 1 =>
            LET data == Data(op[c], range[c][1], range[c][2])
            IN  IF op[c] # "reduce" THEN Combine(c) = Sequentially(op[c], data)
                ELSE /\ Without(Combine(c), InitialElements) = data
                     /\ Len(Combine(c)) = Len(data) + (threads[c] + 1) * Len(Initial)

\* The tasks refer to the caller's function, range and partial results: when the
\* call is over, normally or not, none of them runs or will.
NoChunkOutlivesCall ==
    \A c \in Callers :
        pc[c] \in {"returned", "threw"} =>
            \A i \in 0..(MaxThreads - 1) :
                /\ \A k \in DOMAIN waiting : waiting[k] # <<c, i>>
                /\ \A w \in Workers : running[w] # <<c, i>>

\* A call on a pool that is neither stopped nor paused for good ends, even if its
\* function throws.
CallReturns ==
    <>[](mode = "open") =>
        \A c \in Callers : (pc[c] = "submit") ~> (pc[c] \in {"returned", "threw"})
===============================================================================
