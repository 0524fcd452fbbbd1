------------------------------ MODULE LockAsync ------------------------------
(***************************************************************************)
(* LockAsync.cs: DoWorkAsync waits two seconds for a semaphore of one      *)
(* permit, does not look at whether it got it, works, and releases the     *)
(* semaphore all the same.                                                 *)
(***************************************************************************)
EXTENDS Naturals, Sequences, FiniteSets

CONSTANT Calls      \* the calls of DoWorkAsync

VARIABLES
    state,          \* where a call stands
    currentCount,   \* semaphoreSlim.CurrentCount
    waiters,        \* the calls that wait, the first one first
    timeouts        \* history: the calls whose wait has timed out

vars == <<state, currentCount, waiters, timeouts>>

MaxCount == 1

\* The calls inside the try.
Working == {c \in Calls : state[c] = "working"}

TypeOK ==
    /\ state \in [Calls -> {"idle", "waiting", "working", "done", "full"}]
    /\ currentCount \in 0 .. MaxCount
    /\ waiters \in Seq(Calls)
    /\ timeouts \in SUBSET Calls

\* new SemaphoreSlim(1, 1)
Init ==
    /\ state = [c \in Calls |-> "idle"]
    /\ currentCount = MaxCount
    /\ waiters = <<>>
    /\ timeouts = {}

Move(c, s) == state' = [state EXCEPT ![c] = s]

\* WaitAsync takes a free permit at once, or queues.
WaitAsync(c) ==
    /\ state[c] = "idle"
    /\ IF currentCount > 0
       THEN Move(c, "working") /\ currentCount' = currentCount - 1 /\ UNCHANGED waiters
       ELSE Move(c, "waiting") /\ waiters' = Append(waiters, c) /\ UNCHANGED currentCount
    /\ UNCHANGED timeouts

\* After two seconds WaitAsync returns false, and the call goes on.
TimesOut(c) ==
    /\ state[c] = "waiting"
    /\ Move(c, "working")
    /\ \E i \in DOMAIN waiters :
           /\ waiters[i] = c
           /\ waiters' = SubSeq(waiters, 1, i - 1) \o SubSeq(waiters, i + 1, Len(waiters))
    /\ timeouts' = timeouts \cup {c}
    /\ UNCHANGED currentCount

\* Mutant of Release: the permit is given to the first waiter and returned too.
ReleaseTwice(c) ==
    /\ state[c] = "working"
    /\ currentCount' = MaxCount
    /\ IF waiters # <<>>
       THEN state' = [state EXCEPT ![c] = "done", ![Head(waiters)] = "working"] /\ waiters' = Tail(waiters)
       ELSE Move(c, "done") /\ UNCHANGED waiters
    /\ UNCHANGED timeouts

\* Mutant of Release: new SemaphoreSlim(1), which has no maximum.
ReleaseWithoutMaximum(c) ==
    /\ state[c] = "working"
    /\ Move(c, "done")
    /\ currentCount' = currentCount + 1
    /\ UNCHANGED <<waiters, timeouts>>

\* The finally: SemaphoreFullException, a permit for the first that waits, or a
\* free permit.
Release(c) ==
    /\ state[c] = "working"
    /\ \/ /\ currentCount = MaxCount
          /\ Move(c, "full")
          /\ UNCHANGED <<currentCount, waiters>>
       \/ /\ currentCount < MaxCount /\ waiters # <<>>
          /\ state' = [state EXCEPT ![c] = "done", ![Head(waiters)] = "working"]
          /\ waiters' = Tail(waiters)
          /\ UNCHANGED currentCount
       \/ /\ currentCount < MaxCount /\ waiters = <<>>
          /\ Move(c, "done")
          /\ currentCount' = currentCount + 1
          /\ UNCHANGED waiters
    /\ UNCHANGED timeouts

Next == \E c \in Calls : WaitAsync(c) \/ TimesOut(c) \/ Release(c)

Spec == Init /\ [][Next]_vars

-----------------------------------------------------------------------------
(* Properties *)

\* One call is inside and one more for every wait that timed out, at most; a
\* Release throws only after a timeout; and a call that waits is never the only
\* one left: somebody inside will hand it the permit (the ignored result of
\* WaitAsync and the unconditional Release).
OnlyTimeoutsBreakTheLock ==
    /\ Cardinality(Working) <= 1 + Cardinality(timeouts)
    /\ (\E c \in Calls : state[c] = "full") => timeouts # {}
    /\ waiters # <<>> => currentCount = 0 /\ Working # {}
=============================================================================
