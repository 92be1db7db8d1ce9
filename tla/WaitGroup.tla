------------------------------- MODULE WaitGroup -------------------------------
(***************************************************************************)
(* async::WaitAll and WaitAny (async.hpp): one thread waits for a group of *)
(* futures, the first `size' of those Run has returned; each gets ready    *)
(* when its work item is over.  The forms over a vector and over iterators *)
(* have the same loops.                                                    *)
(*                                                                         *)
(* Time is a count of milliseconds.  A wait lasts as long as its timeout   *)
(* or longer.  For the kernel, in WaitAll, INFINITE is no timeout at all;  *)
(* WaitAny compares it with a DWORD like any other.                        *)
(***************************************************************************)
EXTENDS Integers, FiniteSets

CONSTANTS
    MaxFutures,   \* bound: the size of a group
    Limits,       \* the timeouts
    TickModulus,  \* 2^w, for the width w of DWORD
    MaxTime       \* bound: the clock

INFINITE == TickModulus - 1

ASSUME WaitGroupAssumption ==
    /\ MaxFutures \in Nat /\ MaxTime \in Nat /\ TickModulus \in Nat \ {0}
    /\ Limits \subseteq 0..INFINITE

VARIABLES
    done,        \* the futures that are ready
    now,         \* the clock
    gpc,         \* where the thread is in its call
    api,         \* "all" or "any"
    flags,       \* whether it passed `completed'
    size,        \* futures.size()
    limit,       \* timeoutMs
    began,       \* when the call began: startTime, in WaitAny
    since,       \* when WaitFor fell asleep
    at,          \* the variable of the loops
    completed,   \* completed
    answer,      \* the index, 0 for success without one, -1 for false or a throw
    fooled,      \* whether a WaitFor of this call woke unprompted
    readyBefore  \* the futures that were ready when WaitAny began its last pass

callVars  == <<api, flags, size, limit, began>>
groupVars == <<done, now, gpc, callVars, since, at, completed, answer, fooled, readyBefore>>

Futures == 1..MaxFutures

GroupTypeOK ==
    /\ done \subseteq Futures /\ readyBefore \subseteq done
    /\ now \in 0..MaxTime /\ began \in 0..now /\ since \in 0..now
    /\ gpc \in {"idle", "test", "asleep", "look", "nap", "answered"}
    /\ api \in {"all", "any"} /\ flags \in BOOLEAN
    /\ size \in 0..MaxFutures /\ limit \in Limits \cup {0}
    /\ at \in 1..(size + 1) /\ (gpc = "asleep" => at <= size)
    /\ completed \in [1..size -> BOOLEAN]
    /\ answer \in -1..size
    /\ fooled \in BOOLEAN

GroupInit ==
    /\ done = {} /\ now = 0 /\ gpc = "idle"
    /\ api = "all" /\ flags = FALSE /\ size = 0 /\ limit = 0 /\ began = 0
    /\ since = 0 /\ at = 1 /\ completed = [i \in 1..0 |-> FALSE]
    /\ answer = 0 /\ fooled = FALSE /\ readyBefore = {}

\* The work item of Run has satisfied its promise.
RunEnds(i) ==
    /\ i \notin done
    /\ done' = done \cup {i}
    /\ UNCHANGED <<now, gpc, callVars, since, at, completed, answer, fooled, readyBefore>>

Tick ==
    /\ now < MaxTime
    /\ now' = now + 1
    /\ UNCHANGED <<done, gpc, callVars, since, at, completed, answer, fooled, readyBefore>>

Begin(what, n, ms, withFlags) ==
    /\ gpc \in {"idle", "answered"}
    /\ api' = what /\ size' = n /\ limit' = ms /\ flags' = withFlags
    /\ began' = now /\ at' = 1
    /\ completed' = [i \in 1..n |-> FALSE]
    /\ fooled' = FALSE /\ since' = now
    /\ UNCHANGED <<done, now>>

-----------------------------------------------------------------------------
(* WaitAll.                                                                  *)

WaitAll(n, ms, withFlags) ==
    /\ Begin("all", n, ms, withFlags)
    /\ gpc' = "test" /\ answer' = 0
    /\ readyBefore' = {}

\* WaitFor has returned.  Without flags the first false ends the call with a throw.
Waited(result) ==
    IF result \/ flags
    THEN /\ completed' = [completed EXCEPT ![at] = result]
         /\ at' = at + 1
         /\ gpc' = "test"
         /\ UNCHANGED answer
    ELSE /\ gpc' = "answered" /\ answer' = -1
         /\ UNCHANGED <<completed, at>>

TestFuture ==
    /\ gpc = "test" /\ at <= size
    /\ IF at \in done
       THEN Waited(TRUE) /\ UNCHANGED since
       ELSE /\ gpc' = "asleep" /\ since' = now
            /\ UNCHANGED <<completed, at, answer>>
    /\ UNCHANGED <<done, now, callVars, fooled, readyBefore>>

\* Notified, or woken unprompted: WaitFor does not look which.
WakeInGroup ==
    /\ gpc = "asleep"
    /\ Waited(TRUE)
    /\ fooled' = (fooled \/ at \notin done)
    /\ UNCHANGED <<done, now, callVars, since, readyBefore>>

\* Faulty variant: the timeout is the call's, not each future's.
ExpireForAll ==
    /\ gpc = "asleep" /\ limit # INFINITE
    /\ now - began >= limit
    /\ Waited(FALSE)
    /\ UNCHANGED <<done, now, callVars, since, fooled, readyBefore>>

\* Each future is given the whole timeout, from when its turn comes.
ExpireInGroup ==
    /\ gpc = "asleep" /\ limit # INFINITE
    /\ now - since >= limit
    /\ Waited(FALSE)
    /\ UNCHANGED <<done, now, callVars, since, fooled, readyBefore>>

EndAll ==
    /\ gpc = "test" /\ at > size
    /\ gpc' = "answered"
    /\ answer' = IF \A i \in 1..size : completed[i] THEN 0 ELSE -1
    /\ UNCHANGED <<done, now, callVars, since, at, completed, fooled, readyBefore>>

-----------------------------------------------------------------------------
(* WaitAny.                                                                  *)

\* For no futures, the form with an index has none to return, and the other
\* returns.
WaitAny(n, ms, withFlags) ==
    /\ Begin("any", n, ms, withFlags)
    /\ gpc' = IF n = 0 THEN "answered" ELSE "look"
    /\ answer' = IF n = 0 /\ withFlags THEN -1 ELSE 0
    /\ readyBefore' = done

LookAtFuture ==
    /\ gpc = "look" /\ at <= size
    /\ IF at \in done
       THEN /\ completed' = [completed EXCEPT ![at] = TRUE]
            /\ gpc' = "answered" /\ answer' = at
            /\ UNCHANGED at
       ELSE at' = at + 1 /\ UNCHANGED <<completed, gpc, answer>>
    /\ UNCHANGED <<done, now, callVars, since, fooled, readyBefore>>

\* The difference is cast to a DWORD.
Elapsed == (now - began) % TickModulus

EndPass ==
    /\ gpc = "look" /\ at > size
    /\ IF Elapsed >= limit
       THEN gpc' = "answered" /\ answer' = -1
       ELSE gpc' = "nap" /\ UNCHANGED answer
    /\ UNCHANGED <<done, now, callVars, since, at, completed, fooled, readyBefore>>

\* Faulty variant: the loop goes on where the last pass ended.
NapKeepsPlace ==
    /\ gpc = "nap"
    /\ gpc' = "look"
    /\ readyBefore' = done
    /\ UNCHANGED <<done, now, callVars, since, at, completed, answer, fooled>>

\* Sleep(1), and another pass.
Nap ==
    /\ gpc = "nap"
    /\ gpc' = "look" /\ at' = 1
    /\ readyBefore' = done
    /\ UNCHANGED <<done, now, callVars, since, completed, answer, fooled>>

-----------------------------------------------------------------------------
GroupNext ==
    \/ \E i \in Futures : RunEnds(i)
    \/ Tick
    \/ \E n \in 0..MaxFutures, ms \in Limits, withFlags \in BOOLEAN :
          WaitAll(n, ms, withFlags) \/ WaitAny(n, ms, withFlags)
    \/ TestFuture \/ WakeInGroup \/ ExpireInGroup \/ EndAll
    \/ LookAtFuture \/ EndPass \/ Nap

GroupSpec == GroupInit /\ [][GroupNext]_groupVars

-----------------------------------------------------------------------------
(* Properties.                                                               *)

\* WaitAll succeeds when all are ready, unless a wake-up was spurious, and fails
\* only after it has given its whole timeout to each future it counts as missing:
\* the timeouts add up.  Without flags it fails for the first.
AllAnswersHonestly ==
    LET missed == {i \in 1..size : ~completed[i]}
    IN  /\ ~fooled => \A i \in 1..size : completed[i] => i \in done
        /\ answer = 0 => missed = {}
        /\ answer = -1 =>
              /\ limit # INFINITE
              /\ now - began >= (IF flags THEN Cardinality(missed) ELSE 1) * limit

\* WaitAny names a ready future, before which none was ready for the whole pass, and
\* flags no other; it fails only when its timeout is over and none was ready when
\* its last pass began.
AnyAnswersHonestly ==
    /\ answer > 0 => answer \in done /\ \A i \in 1..(answer - 1) : i \notin readyBefore
    /\ \A i \in 1..size : completed[i] <=> i = answer
    /\ answer = -1 /\ size > 0 =>
          now - began >= limit /\ \A i \in 1..size : i \notin readyBefore

\* What a call answers is true of the futures and of the clock, although both go on
\* while it looks (the tests look at the futures after it, test_ezthread.cpp:1091-1156).
VerdictsAreHonest ==
    gpc = "answered" =>
        IF api = "all" THEN AllAnswersHonestly ELSE AnyAnswersHonestly
================================================================================
