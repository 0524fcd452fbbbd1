-------------------------- MODULE SmallPartsProofs --------------------------
(***************************************************************************)
(* Proofs about LockAsync, for every finite set of calls, about FileCache, *)
(* for every set of requests and any number of interruptions, and about    *)
(* UploadFiles, for any requests, file names, times and failures.          *)
(***************************************************************************)
EXTENDS SmallParts, FiniteSetTheorems, SequenceTheorems, TLAPS

-----------------------------------------------------------------------------
(* The semaphore.  What makes its property inductive is that permits are   *)
(* conserved: a call inside, a free permit and a Release that threw are    *)
(* each worth one, the semaphore started with one and every timeout adds   *)
(* one.                                                                    *)

Full == {c \in Calls : state[c] = "full"}

PermitsAreConserved == Cardinality(Working) + currentCount + Cardinality(Full) = MaxCount + Cardinality(timeouts)

\* The queue holds calls that wait, each of them once, and no permit is free
\* while somebody waits.
QueueInv ==
    /\ \A i \in DOMAIN waiters : state[waiters[i]] = "waiting"
    /\ \A i, j \in DOMAIN waiters : waiters[i] = waiters[j] => i = j
    /\ waiters # <<>> => currentCount = 0

\* A Release that throws leaves a free permit behind: there are fewer of them
\* than timeouts.
FullInv == Cardinality(Full) <= Cardinality(timeouts)

\* Whose wait timed out is no longer waiting: a wait times out once.
OnceInv == \A c \in timeouts : state[c] \in {"working", "done", "full"}

LockInv == TypeOK /\ QueueInv /\ PermitsAreConserved /\ FullInv /\ OnceInv

\* w is u and then v, the parts of s before and after its element i.
Joins(s, i, u, v, w) ==
    /\ Len(u) = i - 1 /\ \A j \in 1 .. i - 1 : u[j] = s[j]
    /\ Len(v) = Len(s) - i /\ \A j \in 1 .. Len(s) - i : v[j] = s[i + j]
    /\ Len(w) = Len(u) + Len(v)
    /\ \A j \in 1 .. Len(u) + Len(v) : w[j] = IF j <= Len(u) THEN u[j] ELSE v[j - Len(u)]

\* Then it is s without that element.
LEMMA Joined ==
    ASSUME NEW S, NEW s \in Seq(S), NEW i \in 1 .. Len(s), NEW u \in Seq(S), NEW v \in Seq(S), NEW w \in Seq(S),
           Joins(s, i, u, v, w)
    PROVE  /\ DOMAIN w = 1 .. Len(s) - 1
           /\ \A j \in 1 .. Len(s) - 1 : w[j] = IF j < i THEN s[j] ELSE s[j + 1]
<1> USE DEF Joins
<1>1. Len(s) \in Nat /\ Len(w) = Len(s) - 1 /\ DOMAIN w = 1 .. Len(w)
      BY LenProperties
<1>2. ASSUME NEW j \in 1 .. Len(s) - 1
      PROVE  w[j] = IF j < i THEN s[j] ELSE s[j + 1]
  <2>1. CASE j < i
        BY <1>1, <2>1
  <2>2. CASE ~ (j < i)
    <3>1. j - Len(u) \in 1 .. Len(s) - i /\ i + (j - Len(u)) = j + 1
          BY <1>1, <2>2
    <3>2. j \in 1 .. Len(u) + Len(v) /\ ~ (j <= Len(u))
          BY <1>1, <2>2
    <3>3. w[j] = v[j - Len(u)]
          BY <3>2
    <3>4. v[j - Len(u)] = s[j + 1]
          BY <3>1
    <3> QED  BY <2>2, <3>3, <3>4, Zenon
  <2> QED  BY <2>1, <2>2
<1> QED  BY <1>1, <1>2

\* What is left of a sequence when one element is taken out.
LEMMA TakenOut ==
    ASSUME NEW S, NEW s \in Seq(S), NEW i \in 1 .. Len(s)
    PROVE  LET w == SubSeq(s, 1, i - 1) \o SubSeq(s, i + 1, Len(s))
           IN  /\ w \in Seq(S) /\ DOMAIN w = 1 .. Len(s) - 1
               /\ \A j \in 1 .. Len(s) - 1 : w[j] = IF j < i THEN s[j] ELSE s[j + 1]
<1> DEFINE u == SubSeq(s, 1, i - 1)
           v == SubSeq(s, i + 1, Len(s))
           w == u \o v
<1>1. Len(s) \in Nat /\ \A j \in 1 .. Len(s) : s[j] \in S
      BY ElementOfSeq
<1>2. u \in Seq(S) /\ Len(u) = i - 1 /\ \A j \in 1 .. i - 1 : u[j] = s[j]
  <2>1. \A j \in 1 .. i - 1 : s[j] \in S
        BY <1>1
  <2>2. 1 \in Int /\ i - 1 \in Int
        BY <1>1
  <2>3. /\ u \in Seq(S) /\ Len(u) = IF 1 <= i - 1 THEN i - 1 - 1 + 1 ELSE 0
        /\ \A j \in 1 .. i - 1 - 1 + 1 : u[j] = s[1 + j - 1]
        BY <2>1, <2>2, SubSeqProperties
  <2> QED  BY <1>1, <2>3
<1>3. v \in Seq(S) /\ Len(v) = Len(s) - i /\ \A j \in 1 .. Len(s) - i : v[j] = s[i + j]
  <2>1. \A j \in i + 1 .. Len(s) : s[j] \in S
        BY <1>1
  <2>2. i + 1 \in Int /\ Len(s) \in Int
        BY <1>1
  <2>3. /\ v \in Seq(S) /\ Len(v) = IF i + 1 <= Len(s) THEN Len(s) - (i + 1) + 1 ELSE 0
        /\ \A j \in 1 .. Len(s) - (i + 1) + 1 : v[j] = s[i + 1 + j - 1]
        BY <2>1, <2>2, SubSeqProperties
  <2> QED  BY <1>1, <2>3
<1> HIDE DEF u, v
<1>4. /\ w \in Seq(S) /\ Len(w) = Len(u) + Len(v)
      /\ \A j \in 1 .. Len(u) + Len(v) : w[j] = IF j <= Len(u) THEN u[j] ELSE v[j - Len(u)]
  <2>1. u \in Seq(S) /\ v \in Seq(S)
        BY <1>2, <1>3
  <2> QED  BY <2>1, ConcatProperties, Zenon
<1> HIDE DEF w
<1>5. /\ DOMAIN w = 1 .. Len(s) - 1
      /\ \A j \in 1 .. Len(s) - 1 : w[j] = IF j < i THEN s[j] ELSE s[j + 1]
  <2>1. u \in Seq(S) /\ v \in Seq(S) /\ w \in Seq(S) /\ Joins(s, i, u, v, w)
        BY <1>2, <1>3, <1>4 DEF Joins
  <2> QED  BY <2>1, Joined
<1> QED  BY <1>4, <1>5, Zenon DEF u, v, w

\* The counts of the three sets, and what they say of them.
LEMMA Counts ==
    ASSUME IsFiniteSet(Calls), TypeOK
    PROVE  /\ IsFiniteSet(Working) /\ IsFiniteSet(Full) /\ IsFiniteSet(timeouts)
           /\ Cardinality(Working) \in Nat /\ Cardinality(Full) \in Nat /\ Cardinality(timeouts) \in Nat
           /\ Cardinality(Working) = 0 <=> Working = {}
           /\ Cardinality(Full) = 0 <=> Full = {}
           /\ Cardinality(timeouts) = 0 <=> timeouts = {}
<1>1. Working \in SUBSET Calls /\ Full \in SUBSET Calls /\ timeouts \in SUBSET Calls
      BY DEF Working, Full, TypeOK
<1>2. IsFiniteSet(Working) /\ IsFiniteSet(Full) /\ IsFiniteSet(timeouts)
      BY <1>1, FS_Subset
<1> QED  BY <1>2, FS_EmptySet, FS_CardinalityType

\* The invariant implies the property.
LEMMA LockInvImplies ==
    ASSUME IsFiniteSet(Calls), LockInv
    PROVE  OnlyTimeoutsBreakTheLock
<1>1. currentCount \in 0 .. 1
      BY DEF LockInv, TypeOK, MaxCount
<1>2. Cardinality(Working) <= 1 + Cardinality(timeouts)
      BY <1>1, Counts DEF LockInv, PermitsAreConserved, MaxCount
<1>3. (\E c \in Calls : state[c] = "full") => timeouts # {}
  <2> SUFFICES ASSUME Full # {} PROVE timeouts # {}
      BY DEF Full
  <2> QED  BY Counts DEF LockInv, FullInv
<1>4. waiters # <<>> => currentCount = 0 /\ Working # {}
  <2> SUFFICES ASSUME waiters # <<>> PROVE currentCount = 0 /\ Working # {}
      OBVIOUS
  <2>1. currentCount = 0
        BY DEF LockInv, QueueInv
  <2> QED  BY <2>1, Counts DEF LockInv, FullInv, PermitsAreConserved, MaxCount
<1> QED  BY <1>2, <1>3, <1>4 DEF OnlyTimeoutsBreakTheLock

\* A call takes the free permit or queues.
LEMMA WaitStep ==
    ASSUME IsFiniteSet(Calls), LockInv, NEW c \in Calls, WaitAsync(c)
    PROVE  LockInv'
<1>1. /\ state \in [Calls -> {"idle", "waiting", "working", "done", "full"}] /\ state[c] = "idle"
      /\ currentCount \in 0 .. 1 /\ waiters \in Seq(Calls) /\ timeouts' = timeouts
      BY DEF LockInv, TypeOK, WaitAsync, MaxCount
<1>2. CASE currentCount > 0
  <2>1. /\ state' = [state EXCEPT ![c] = "working"] /\ currentCount = 1 /\ currentCount' = 0 /\ waiters' = waiters
        BY <1>1, <1>2 DEF WaitAsync, Move
  <2>2. Working' = Working \cup {c} /\ c \notin Working /\ Full' = Full
        BY <1>1, <2>1 DEF Working, Full
  <2>3. Cardinality(Working') = Cardinality(Working) + 1
        BY <2>2, Counts, FS_AddElement DEF LockInv
  <2>4. TypeOK'
        BY <1>1, <2>1 DEF LockInv, TypeOK, MaxCount
  <2>5. QueueInv'
        BY <1>1, <2>1 DEF LockInv, QueueInv
  <2>6. PermitsAreConserved' /\ FullInv'
        BY <1>1, <2>1, <2>2, <2>3, Counts DEF LockInv, PermitsAreConserved, FullInv
  <2>7. OnceInv'
        BY <1>1, <2>1 DEF LockInv, OnceInv, TypeOK
  <2> QED  BY <2>4, <2>5, <2>6, <2>7 DEF LockInv
<1>3. CASE ~ (currentCount > 0)
  <2>1. /\ state' = [state EXCEPT ![c] = "waiting"] /\ currentCount = 0 /\ currentCount' = 0
        /\ waiters' = Append(waiters, c)
        BY <1>1, <1>3 DEF WaitAsync, Move
  <2>2. Working' = Working /\ Full' = Full
        BY <1>1, <2>1 DEF Working, Full
  <2>3. /\ waiters' \in Seq(Calls) /\ Len(waiters) \in Nat /\ DOMAIN waiters = 1 .. Len(waiters)
        /\ DOMAIN waiters' = 1 .. Len(waiters) + 1 /\ waiters'[Len(waiters) + 1] = c
        /\ \A i \in 1 .. Len(waiters) : waiters'[i] = waiters[i]
        BY <1>1, <2>1, AppendProperties
  <2>4. TypeOK'
        BY <1>1, <2>1, <2>3 DEF LockInv, TypeOK, MaxCount
  <2>5. \A i \in 1 .. Len(waiters) : waiters[i] # c /\ waiters[i] \in Calls /\ state[waiters[i]] = "waiting"
        BY <1>1, <2>3 DEF LockInv, QueueInv
  <2>6. \A i \in DOMAIN waiters' : state'[waiters'[i]] = "waiting"
        BY <1>1, <2>1, <2>3, <2>5
  <2>7. \A i, j \in DOMAIN waiters' : waiters'[i] = waiters'[j] => i = j
        BY <2>3, <2>5 DEF LockInv, QueueInv
  <2>8. PermitsAreConserved' /\ FullInv'
        BY <1>1, <2>1, <2>2 DEF LockInv, PermitsAreConserved, FullInv
  <2>9. OnceInv'
        BY <1>1, <2>1 DEF LockInv, OnceInv, TypeOK
  <2> QED  BY <2>1, <2>4, <2>6, <2>7, <2>8, <2>9 DEF LockInv, QueueInv
<1> QED  BY <1>2, <1>3

\* A wait times out: one more call inside and one more timeout.
LEMMA TimeoutStep ==
    ASSUME IsFiniteSet(Calls), LockInv, NEW c \in Calls, TimesOut(c)
    PROVE  LockInv'
<1>1. /\ state \in [Calls -> {"idle", "waiting", "working", "done", "full"}] /\ state[c] = "waiting"
      /\ state' = [state EXCEPT ![c] = "working"] /\ currentCount' = currentCount
      /\ waiters \in Seq(Calls) /\ timeouts \subseteq Calls /\ timeouts' = timeouts \cup {c}
      BY DEF LockInv, TypeOK, TimesOut, Move
<1>2. PICK i \in DOMAIN waiters :
         waiters[i] = c /\ waiters' = SubSeq(waiters, 1, i - 1) \o SubSeq(waiters, i + 1, Len(waiters))
      BY DEF TimesOut
<1>3. Len(waiters) \in Nat /\ DOMAIN waiters = 1 .. Len(waiters)
      BY <1>1, LenProperties
<1>4. /\ waiters' \in Seq(Calls) /\ DOMAIN waiters' = 1 .. Len(waiters) - 1
      /\ \A j \in 1 .. Len(waiters) - 1 : waiters'[j] = IF j < i THEN waiters[j] ELSE waiters[j + 1]
  <2>1. waiters \in Seq(Calls) /\ i \in 1 .. Len(waiters)
        BY <1>1, <1>3
  <2> QED  BY <1>2, <2>1, TakenOut, Zenon
<1>5. TypeOK'
      BY <1>1, <1>4 DEF LockInv, TypeOK
<1>6. QueueInv'
  <2>1. \A j \in DOMAIN waiters' : (IF j < i THEN j ELSE j + 1) \in DOMAIN waiters \ {i}
        BY <1>3, <1>4
  <2>2. \A j \in DOMAIN waiters' : waiters'[j] \in Calls \ {c} /\ state[waiters'[j]] = "waiting"
    <3> SUFFICES ASSUME NEW j \in DOMAIN waiters', NEW k \in DOMAIN waiters \ {i}, waiters'[j] = waiters[k]
                 PROVE  waiters'[j] \in Calls \ {c} /\ state[waiters'[j]] = "waiting"
        BY <1>4, <2>1
    <3>1. waiters[k] \in Calls
          BY <1>1, <1>3
    <3> QED  BY <1>2, <3>1 DEF LockInv, QueueInv
  <2>3. \A j, k \in DOMAIN waiters' : waiters'[j] = waiters'[k] => j = k
    <3> SUFFICES ASSUME NEW j \in DOMAIN waiters', NEW k \in DOMAIN waiters', waiters'[j] = waiters'[k]
                 PROVE  j = k
        OBVIOUS
    <3>1. (IF j < i THEN j ELSE j + 1) = (IF k < i THEN k ELSE k + 1)
          BY <1>4, <2>1 DEF LockInv, QueueInv
    <3> QED  BY <1>3, <1>4, <3>1
  <2>4. waiters # <<>> /\ currentCount' = 0
        BY <1>1, <1>2, <1>3 DEF LockInv, QueueInv
  <2> QED  BY <1>1, <2>2, <2>3, <2>4 DEF QueueInv
<1>7. PermitsAreConserved' /\ FullInv'
  <2>1. Working' = Working \cup {c} /\ c \notin Working /\ Full' = Full /\ c \notin timeouts
        BY <1>1 DEF Working, Full, LockInv, OnceInv
  <2>2. /\ Cardinality(Working') = Cardinality(Working) + 1
        /\ Cardinality(timeouts') = Cardinality(timeouts) + 1
        BY <1>1, <2>1, Counts, FS_AddElement DEF LockInv
  <2>3. currentCount \in 0 .. 1
        BY DEF LockInv, TypeOK, MaxCount
  <2> QED  BY <1>1, <2>1, <2>2, <2>3, Counts DEF LockInv, PermitsAreConserved, FullInv, MaxCount
<1>8. OnceInv'
      BY <1>1 DEF LockInv, OnceInv
<1> QED  BY <1>5, <1>6, <1>7, <1>8 DEF LockInv

\* A call releases: it throws, hands the permit to the first that waits, or
\* frees it.
LEMMA ReleaseStep ==
    ASSUME IsFiniteSet(Calls), LockInv, NEW c \in Calls, Release(c)
    PROVE  LockInv'
<1>1. /\ state \in [Calls -> {"idle", "waiting", "working", "done", "full"}] /\ state[c] = "working"
      /\ currentCount \in 0 .. 1 /\ waiters \in Seq(Calls) /\ timeouts \subseteq Calls /\ timeouts' = timeouts
      BY DEF LockInv, TypeOK, Release, MaxCount
<1>2. /\ c \in Working /\ Cardinality(Working \ {c}) = Cardinality(Working) - 1
  <2>1. IsFiniteSet(Working) /\ c \in Working
        BY <1>1, Counts DEF LockInv, Working
  <2> QED  BY <2>1, FS_RemoveElement
<1>3. CASE currentCount = MaxCount
  <2>1. /\ state' = [state EXCEPT ![c] = "full"] /\ currentCount = 1 /\ UNCHANGED <<currentCount, waiters>>
        /\ waiters = <<>>
        BY <1>3 DEF Release, Move, MaxCount, LockInv, QueueInv
  <2>2. Working' = Working \ {c} /\ Full' = Full \cup {c} /\ c \notin Full
        BY <1>1, <2>1 DEF Working, Full
  <2>3. Cardinality(Full') = Cardinality(Full) + 1
        BY <2>2, Counts, FS_AddElement DEF LockInv
  <2>4. PermitsAreConserved' /\ FullInv'
        BY <1>1, <1>2, <2>1, <2>2, <2>3, Counts DEF LockInv, PermitsAreConserved, FullInv, MaxCount
  <2>5. TypeOK' /\ OnceInv'
        BY <1>1, <2>1 DEF LockInv, TypeOK, OnceInv
  <2>6. QueueInv'
        BY <2>1, EmptySeq DEF QueueInv
  <2> QED  BY <2>4, <2>5, <2>6 DEF LockInv
<1>4. CASE currentCount < MaxCount /\ waiters # <<>>
  <2> DEFINE h == Head(waiters)
  <2>1. /\ state' = [state EXCEPT ![c] = "done", ![h] = "working"] /\ currentCount' = currentCount
        /\ waiters' = Tail(waiters) /\ currentCount = 0
        BY <1>1, <1>4 DEF Release, Move, MaxCount
  <2>2. /\ Len(waiters) \in Nat \ {0} /\ DOMAIN waiters = 1 .. Len(waiters) /\ h = waiters[1] /\ h \in Calls
        /\ waiters' \in Seq(Calls) /\ DOMAIN waiters' = 1 .. Len(waiters) - 1
        /\ \A i \in 1 .. Len(waiters) - 1 : waiters'[i] = waiters[i + 1]
        BY <1>1, <1>4, <2>1, HeadTailProperties, LenProperties, EmptySeq
  <2>3. state[h] = "waiting" /\ h # c
        BY <1>1, <2>2 DEF LockInv, QueueInv
  <2> HIDE DEF h
  <2>4. Working' = (Working \ {c}) \cup {h} /\ h \notin Working \ {c} /\ Full' = Full
        BY <1>1, <2>1, <2>2, <2>3 DEF Working, Full
  <2>5. Cardinality(Working') = Cardinality(Working)
    <3>1. IsFiniteSet(Working \ {c}) /\ Cardinality(Working) \in Nat
          BY Counts, FS_RemoveElement DEF LockInv
    <3>2. Cardinality(Working') = Cardinality(Working \ {c}) + 1
          BY <2>4, <3>1, FS_AddElement
    <3> QED  BY <1>2, <3>1, <3>2
  <2>6. PermitsAreConserved' /\ FullInv'
        BY <1>1, <2>1, <2>4, <2>5 DEF LockInv, PermitsAreConserved, FullInv
  <2>7. TypeOK' /\ OnceInv'
        BY <1>1, <2>1, <2>2 DEF LockInv, TypeOK, OnceInv
  <2>8. \A i \in 1 .. Len(waiters) - 1 : i + 1 \in DOMAIN waiters /\ waiters[i + 1] # h /\ waiters[i + 1] # c
        BY <1>1, <2>2 DEF LockInv, QueueInv
  <2>9. QueueInv'
    <3>1. \A i \in DOMAIN waiters' : state'[waiters'[i]] = "waiting"
          BY <1>1, <2>1, <2>2, <2>8 DEF LockInv, QueueInv
    <3>2. \A i, j \in DOMAIN waiters' : waiters'[i] = waiters'[j] => i = j
          BY <2>2, <2>8 DEF LockInv, QueueInv
    <3> QED  BY <2>1, <3>1, <3>2 DEF QueueInv
  <2> QED  BY <2>6, <2>7, <2>9 DEF LockInv
<1>5. CASE currentCount < MaxCount /\ waiters = <<>>
  <2>1. /\ state' = [state EXCEPT ![c] = "done"] /\ currentCount = 0 /\ currentCount' = 1 /\ waiters' = waiters
        BY <1>1, <1>5 DEF Release, Move, MaxCount
  <2>2. Working' = Working \ {c} /\ Full' = Full
        BY <1>1, <2>1 DEF Working, Full
  <2>3. PermitsAreConserved' /\ FullInv'
        BY <1>1, <1>2, <2>1, <2>2, Counts DEF LockInv, PermitsAreConserved, FullInv
  <2>4. TypeOK' /\ OnceInv'
        BY <1>1, <2>1 DEF LockInv, TypeOK, OnceInv, MaxCount
  <2>5. QueueInv'
        BY <1>5, <2>1, EmptySeq DEF QueueInv
  <2> QED  BY <2>3, <2>4, <2>5 DEF LockInv
<1> QED  BY <1>1, <1>3, <1>4, <1>5 DEF MaxCount

\* At the start the one permit is free.
LEMMA LockInitially ==
    ASSUME IsFiniteSet(Calls), Init
    PROVE  LockInv
<1>1. Working = {} /\ Full = {}
      BY DEF Init, Working, Full
<1>2. PermitsAreConserved /\ FullInv
      BY <1>1, FS_EmptySet DEF Init, PermitsAreConserved, FullInv, MaxCount
<1> QED  BY <1>2, EmptySeq DEF Init, LockInv, TypeOK, QueueInv, OnceInv, MaxCount

\* The invariant of the semaphore holds for every finite set of calls.
THEOREM LockInvCorrect == Spec => []LockInv
<1>1. LockInv /\ [Next]_vars => LockInv'
  <2> SUFFICES ASSUME LockInv, [Next]_vars PROVE LockInv'
      OBVIOUS
  <2>1. CASE UNCHANGED vars
        BY <2>1 DEF vars, LockInv, TypeOK, QueueInv, PermitsAreConserved, FullInv, OnceInv, Working, Full
  <2> QED  BY <2>1, WaitStep, TimeoutStep, ReleaseStep, PartsAssumption DEF Next
<1>2. Init => LockInv
      BY LockInitially, PartsAssumption
<1> QED  BY <1>1, <1>2, PTL DEF Spec

\* Only timeouts break the lock: calls beyond the one permit are as many as the
\* timeouts at most, Release throws only after one, and whoever waits has
\* somebody inside to wait for (LockAsync.DoWorkAsync).
THEOREM LockCorrect == Spec => []OnlyTimeoutsBreakTheLock
<1>1. LockInv => OnlyTimeoutsBreakTheLock
      BY LockInvImplies, PartsAssumption
<1> QED  BY <1>1, LockInvCorrect, PTL

-----------------------------------------------------------------------------
(* The file cache.  While a request writes nobody reads, and a request     *)
(* that reads has the file as it is.                                       *)

CacheInv ==
    /\ Cache!TypeOK
    /\ \A r \in Cache!Writing : file.by = r /\ ~ file.whole /\ Cache!Reading = {}
    /\ Cache!OnlyInterruptionsBreakTheFile

\* A request that looks, opens, reads or is interrupted leaves the file alone;
\* one that creates or saves it is alone with it.
LEMMA CacheStep ==
    ASSUME MaxInterruptions \in Nat, CacheInv, NEW r \in Requests,
           Cache!Exists(r) \/ Cache!Create(r) \/ Cache!Save(r) \/ Cache!Open(r) \/ Cache!Deserialize(r)
           \/ Cache!Interrupted(r)
    PROVE  CacheInv'
<1> USE DEF CacheInv, Cache!TypeOK, Cache!Writing, Cache!Reading, Cache!OnlyInterruptionsBreakTheFile, Cache!To,
            Cache!Contents
<1>1. CASE Cache!Exists(r)
      BY <1>1 DEF Cache!Exists
<1>2. CASE Cache!Create(r)
  <2>1. CASE Cache!Shareable
    <3>1. /\ cacheStage' = [cacheStage EXCEPT ![r] = "saving"] /\ file' = [by |-> r, whole |-> FALSE]
          /\ UNCHANGED <<opened, cacheFailures>>
          /\ \A q \in Requests : cacheStage[q] # "saving" /\ cacheStage[q] # "reading"
          BY <1>2, <2>1 DEF Cache!Create, Cache!Shareable
    <3> QED  BY <3>1
  <2>2. CASE ~ Cache!Shareable
    <3>1. cacheStage' = [cacheStage EXCEPT ![r] = "failed"] /\ cacheStage[r] = "creating" /\ UNCHANGED <<file, opened, cacheFailures>>
          BY <1>2, <2>2 DEF Cache!Create
    <3> QED  BY <3>1
  <2> QED  BY <2>1, <2>2
<1>3. CASE Cache!Save(r)
  <2>1. /\ cacheStage[r] = "saving" /\ cacheStage' = [cacheStage EXCEPT ![r] = "loading"] /\ file.by = r
        /\ UNCHANGED <<opened, cacheFailures>>
        /\ \A q \in Requests : cacheStage[q] # "reading" /\ (cacheStage[q] = "saving" => q = r)
        BY <1>3 DEF Cache!Save
  <2>2. file' = [by |-> r, whole |-> TRUE]
        BY <1>3, <2>1 DEF Cache!Save, Cache!NoFile
  <2> QED  BY <2>1, <2>2
<1>4. CASE Cache!Open(r)
      BY <1>4 DEF Cache!Open
<1>5. CASE Cache!Deserialize(r)
      BY <1>5 DEF Cache!Deserialize
<1>6. CASE Cache!Interrupted(r)
      BY <1>6 DEF Cache!Interrupted
<1> QED  BY <1>1, <1>2, <1>3, <1>4, <1>5, <1>6

\* The invariant of the cache file, for every set of requests.
THEOREM CacheInvCorrect == Cache!Spec => []CacheInv
<1>1. Cache!Init => CacheInv
      BY PartsAssumption DEF Cache!Init, CacheInv, Cache!TypeOK, Cache!Contents, Cache!NoFile, Cache!Writing, Cache!Reading,
             Cache!OnlyInterruptionsBreakTheFile
<1>2. CacheInv /\ [Cache!Next]_Cache!vars => CacheInv'
  <2> SUFFICES ASSUME CacheInv, [Cache!Next]_Cache!vars PROVE CacheInv'
      OBVIOUS
  <2>1. CASE UNCHANGED Cache!vars
        BY <2>1 DEF Cache!vars, CacheInv, Cache!TypeOK, Cache!Writing, Cache!Reading,
                    Cache!OnlyInterruptionsBreakTheFile
  <2> QED  BY <2>1, CacheStep, PartsAssumption DEF Cache!Next
<1> QED  BY <1>1, <1>2, PTL DEF Cache!Spec

\* Only interruptions break the cache file, for every set of requests and any
\* bound on the interruptions (SaveAsync, LoadAsync).
THEOREM CacheCorrect == Cache!Spec => []OnlyInterruptionsBreakTheFile
<1>1. CacheInv => OnlyInterruptionsBreakTheFile
      BY DEF CacheInv, OnlyInterruptionsBreakTheFile
<1> QED  BY <1>1, CacheInvCorrect, PTL

-----------------------------------------------------------------------------
(* The files of an upload.                                                 *)

\* What PartsAssumption says of them.

UploadAssumption ==
    /\ Upload!Nobody \notin Requests /\ Upload!Leaked \notin Requests
    /\ \A r \in Requests : FileName[r] # Upload!Nobody
    /\ HalfDay \in Nat \ {0} /\ MaxTime \in Nat /\ MaxFailures \in Nat

LEMMA UploadAssumed == UploadAssumption
BY PartsAssumption DEF UploadAssumption, Upload!Nobody, Upload!Leaked

\* Another request uploads a file of the name of r's.
SharesItsName(r) == \E q \in Requests \ {r} : FileName[q] = FileName[r]

\* The stages in which a request has a log, and in which it has a backup.
HasLog == {"logging", "saving", "reading", "heading", "writing", "compressing", "archiving", "filling"}
HasBackup == HasLog \ {"logging"}

\* A backup is named once, when it is created, and whatever is written over it
\* afterwards came from a file of the same name.
NamingInv ==
    /\ \A r \in Requests : stage[r] \in {"idle", "logging"} => backupOf[r] = Upload!NoName
    /\ \A r \in Requests : stage[r] \in HasBackup => backupOf[r] # Upload!NoName
    /\ \A r \in Requests : backupOf[r] # Upload!NoName =>
           backupOf[r] = <<FileName[r], Upload!Stamp(savedAt[r])>> /\ backups[backupOf[r]] # Upload!NoSheet
    /\ \A b \in Upload!BackupNames : backups[b] # Upload!NoSheet => backupOf[backups[b].upload] = b
    /\ \A r \in Requests : sheet[r] # Upload!NoSheet =>
           backupOf[r] # Upload!NoName /\ backupOf[sheet[r].upload] = backupOf[r]
    /\ \A r \in Requests : stage[r] \in {"heading", "writing"} => sheet[r] # Upload!NoSheet
    /\ \A d \in documents : backupOf[d.upload] # Upload!NoName /\ d.backup = backupOf[d.upload]

\* The sheet of r before and after its statuses are written.
Fresh(r) == [upload |-> r, statuses |-> {}]
Own(r) == [upload |-> r, statuses |-> {r}]

\* A request whose file has a name of its own finds its log and its backup as
\* it left them.
OwnFilesInv ==
    \A r \in Requests : ~ SharesItsName(r) =>
        /\ stage[r] \in HasLog => logs[FileName[r]] = r
        /\ stage[r] \in {"saving", "reading"} => backups[backupOf[r]] = Fresh(r)
        /\ stage[r] \in {"heading", "writing"} => sheet[r] = Fresh(r)
        /\ stage[r] \in {"compressing", "archiving", "filling"} => backups[backupOf[r]] = Own(r)

\* The archive as CreateArchive leaves it.
Begun(r) == [by |-> r, sheet |-> Upload!NoSheet, log |-> Upload!Nobody]

\* Who fills or streams the archive has it open, and it is there while it is
\* open: nobody deletes it or makes another.
HolderInv ==
    /\ \A r \in Requests : stage[r] = "filling" => holder = r /\ archive = Begun(r)
    /\ \A r \in Requests : stage[r] = "answering" => holder = r
    /\ holder # Upload!Nobody => archive # Upload!NoArchive

\* What its maker put into a whole archive.
Filled(a) ==
    \/ a.sheet = Own(a.by) /\ a.log = a.by
    \/ a.sheet # Upload!NoSheet /\ SharesItsName(a.by)

\* The archive is whole, or still being filled, or its maker failed; who is
\* about to open it made it or has been overlapped.
ArchiveInv ==
    archive # Upload!NoArchive =>
        /\ archive.by \in Requests
        /\ \/ Filled(archive)
           \/ archive.sheet = Upload!NoSheet /\ stage[archive.by] \in {"filling", "failed"}
        /\ \A r \in Requests : stage[r] = "opening" => archive.by = r \/ r \in overlapped

\* The same of the archive a request has opened.
AnswerInv ==
    \A r \in Requests : stage[r] \in {"answering", "done"} =>
        LET g == answer[r].by IN
        /\ g \in Requests
        /\ g # r => r \in overlapped
        /\ \/ Filled(answer[r])
           \/ answer[r].sheet = Upload!NoSheet /\ g # r /\ stage[g] = "failed"

UploadInv == Upload!TypeOK /\ NamingInv /\ OwnFilesInv /\ HolderInv /\ ArchiveInv /\ AnswerInv

\* What the properties ask of the requests and the documents is part of it.
LEMMA UploadInvImplies ==
    ASSUME UploadAssumption, UploadInv
    PROVE  Upload!ArchivesAreOwn /\ Upload!DocumentsLeadToTheirFiles
<1>1. Upload!ArchivesAreOwn
  <2> SUFFICES ASSUME NEW r \in Requests, stage[r] = "done"
               PROVE  LET g == answer[r].by IN
                      /\ g # r => r \in overlapped
                      /\ \/ answer[r].sheet = [upload |-> g, statuses |-> {g}] /\ answer[r].log = g
                         \/ answer[r].sheet = Upload!NoSheet /\ g # r /\ stage[g] = "failed"
                         \/ answer[r].sheet # Upload!NoSheet /\ \E q \in Requests \ {g} : FileName[q] = FileName[g]
      BY DEF Upload!ArchivesAreOwn
  <2> QED  BY DEF UploadInv, AnswerInv, Filled, Own, SharesItsName
<1>2. Upload!DocumentsLeadToTheirFiles
  <2> SUFFICES ASSUME NEW d \in documents
               PROVE  LET found == backups[d.backup].upload IN
                      /\ FileName[found] = FileName[d.upload]
                      /\ savedAt[found] % HalfDay = savedAt[d.upload] % HalfDay
      BY DEF Upload!DocumentsLeadToTheirFiles
  <2>1. /\ d.upload \in Requests /\ d.backup \in Upload!BackupNames
        /\ backupOf[d.upload] # Upload!NoName /\ d.backup = backupOf[d.upload]
        BY DEF UploadInv, Upload!TypeOK, NamingInv
  <2>2. /\ backups[d.backup] # Upload!NoSheet /\ backupOf[backups[d.backup].upload] = d.backup
        /\ d.backup = <<FileName[d.upload], Upload!Stamp(savedAt[d.upload])>>
        BY <2>1 DEF UploadInv, NamingInv
  <2>3. backups[d.backup].upload \in Requests
        BY <2>1, <2>2 DEF UploadInv, Upload!TypeOK, Upload!Sheets
  <2>4. d.backup = <<FileName[backups[d.backup].upload], Upload!Stamp(savedAt[backups[d.backup].upload])>>
        BY <2>1, <2>2, <2>3 DEF UploadInv, NamingInv
  <2>5. /\ FileName[backups[d.backup].upload] = FileName[d.upload]
        /\ Upload!Stamp(savedAt[backups[d.backup].upload]) = Upload!Stamp(savedAt[d.upload])
        BY <2>2, <2>4
  <2>6. savedAt[backups[d.backup].upload] % HalfDay = savedAt[d.upload] % HalfDay
        BY <2>5 DEF Upload!Stamp
  <2> QED  BY <2>5, <2>6
<1> QED  BY <1>1, <1>2

\* At the start there is no file.
LEMMA UploadInitially ==
    ASSUME UploadAssumption, Upload!Init
    PROVE  UploadInv
<1>1. Upload!TypeOK
      BY DEF Upload!Init, Upload!TypeOK, UploadAssumption, Upload!Stages, Upload!Archives
<1>2. NamingInv /\ OwnFilesInv /\ HolderInv /\ ArchiveInv /\ AnswerInv
      BY DEF Upload!Init, NamingInv, OwnFilesInv, HolderInv, ArchiveInv, AnswerInv, HasLog, HasBackup
<1> QED  BY <1>1, <1>2 DEF UploadInv

\* Every variable keeps its type.
LEMMA UploadTypeStep ==
    ASSUME UploadAssumption, UploadInv, NEW r \in Requests, Upload!RequestStep(r)
    PROVE  Upload!TypeOK'
<1> USE DEF Upload!TypeOK, Upload!To, Upload!Refused, Upload!Stages, Upload!Names
<1>0. Upload!TypeOK
      BY DEF UploadInv
<1>1. CASE Upload!CreateLogger(r)
      BY <1>0, <1>1 DEF Upload!CreateLogger
<1>2. CASE Upload!CreateBackup(r)
  <2>1. <<FileName[r], Upload!Stamp(time)>> \in Upload!BackupNames
        BY <1>0 DEF Upload!BackupNames, Upload!Stamp, UploadAssumption
  <2>2. Fresh(r) \in Upload!Sheets
        BY DEF Fresh, Upload!Sheets
  <2> QED  BY <1>0, <1>2, <2>1, <2>2 DEF Upload!CreateBackup, Fresh
<1>3. CASE Upload!SaveDocument(r)
  <2>1. backupOf[r] \in Upload!BackupNames
        BY <1>0, <1>3 DEF Upload!SaveDocument, UploadInv, NamingInv, HasBackup, HasLog
  <2> QED  BY <1>0, <1>3, <2>1 DEF Upload!SaveDocument
<1>4. CASE Upload!ReadBackup(r)
  <2>1. backupOf[r] \in Upload!BackupNames
        BY <1>0, <1>4 DEF Upload!ReadBackup, UploadInv, NamingInv, HasBackup, HasLog
  <2> QED  BY <1>0, <1>4, <2>1 DEF Upload!ReadBackup
<1>12. CASE Upload!SaveHeadings(r)
  <2>1. sheet[r] \in Upload!Sheets
        BY <1>0, <1>12 DEF Upload!SaveHeadings, UploadInv, NamingInv
  <2> QED  BY <1>0, <1>12, <2>1 DEF Upload!SaveHeadings
<1>5. CASE Upload!WriteStatuses(r)
  <2>1. [sheet[r] EXCEPT !.statuses = @ \cup {r}] \in Upload!Sheets
        BY <1>0, <1>5 DEF Upload!WriteStatuses, UploadInv, NamingInv, Upload!Sheets
  <2> QED  BY <1>0, <1>5, <2>1 DEF Upload!WriteStatuses
<1>6. CASE Upload!DeleteArchive(r)
      BY <1>0, <1>6 DEF Upload!DeleteArchive, Upload!Archives
<1>7. CASE Upload!CreateArchive(r)
  <2>1. [Upload!NoArchive EXCEPT !.by = r] \in Upload!Archives
        BY DEF Upload!NoArchive, Upload!Archives
  <2> QED  BY <1>0, <1>7, <2>1 DEF Upload!CreateArchive
<1>8. CASE Upload!FillArchive(r)
  <2>1. backupOf[r] \in Upload!BackupNames /\ logs[FileName[r]] \in Requests \cup {Upload!Nobody}
        BY <1>0, <1>8 DEF Upload!FillArchive, UploadInv, NamingInv, HasBackup, HasLog
  <2>2. [by |-> r, sheet |-> backups[backupOf[r]], log |-> logs[FileName[r]]] \in Upload!Archives
        BY <1>0, <2>1 DEF Upload!Archives
  <2> QED  BY <1>0, <1>8, <2>2 DEF Upload!FillArchive
<1>9. CASE Upload!OpenArchive(r)
      BY <1>0, <1>9 DEF Upload!OpenArchive
<1>10. CASE Upload!Answer(r)
      BY <1>0, <1>10 DEF Upload!Answer
<1>11. CASE Upload!Throws(r)
      BY <1>0, <1>11 DEF Upload!Throws, UploadAssumption
<1> QED  BY <1>1, <1>2, <1>3, <1>4, <1>5, <1>6, <1>7, <1>8, <1>9, <1>10, <1>11, <1>12 DEF Upload!RequestStep

\* The names of the backups: only CreateBackup gives one, and what is read from
\* a backup and written over it stays under its name.
LEMMA NamingStep ==
    ASSUME UploadAssumption, UploadInv, NEW r \in Requests, Upload!RequestStep(r)
    PROVE  NamingInv'
<1> USE DEF HasLog, HasBackup
<1>0. /\ NamingInv
      /\ stage \in [Requests -> Upload!Stages] /\ backups \in [Upload!BackupNames -> Upload!Sheets \cup {Upload!NoSheet}]
      /\ backupOf \in [Requests -> Upload!BackupNames \cup {Upload!NoName}]
      /\ sheet \in [Requests -> Upload!Sheets \cup {Upload!NoSheet}] /\ savedAt \in [Requests -> 0 .. MaxTime]
      /\ \A d \in documents : d.upload \in Requests
      BY DEF UploadInv, Upload!TypeOK
<1>1. /\ \A b \in Upload!BackupNames : b # Upload!NoName
      /\ \A x \in Upload!Sheets : x.upload \in Requests /\ x # Upload!NoSheet
      BY DEF UploadAssumption, Upload!BackupNames, Upload!Names, Upload!NoName, Upload!Sheets, Upload!NoSheet
<1>2. CASE /\ UNCHANGED <<backups, backupOf, savedAt, sheet, documents>>
           /\ \E s \in Upload!Stages : stage' = [stage EXCEPT ![r] = s] /\ (s \in HasBackup => stage[r] \in HasBackup)
           /\ stage'[r] \in {"idle", "logging"} => stage[r] \in {"idle", "logging"}
           /\ stage'[r] \notin {"heading", "writing"}
      BY <1>0, <1>2 DEF NamingInv
<1>3. CASE Upload!CreateBackup(r) /\ stage'[r] # "failed"
  <2> DEFINE name == <<FileName[r], Upload!Stamp(time)>>
  <2>1. /\ stage[r] = "logging" /\ stage' = [stage EXCEPT ![r] = "saving"] /\ UNCHANGED <<sheet, documents>>
        /\ backups' = [backups EXCEPT ![name] = Fresh(r)] /\ backupOf' = [backupOf EXCEPT ![r] = name]
        /\ savedAt' = [savedAt EXCEPT ![r] = time]
        BY <1>0, <1>3 DEF Upload!CreateBackup, Upload!To, Upload!Refused, Fresh
  <2>2. name \in Upload!BackupNames /\ name # Upload!NoName /\ backupOf[r] = Upload!NoName
    <3>1. name \in Upload!BackupNames
          BY DEF UploadInv, Upload!TypeOK, Upload!BackupNames, Upload!Names, Upload!Stamp, UploadAssumption
    <3> QED  BY <1>0, <1>1, <2>1, <3>1 DEF NamingInv
  <2>3. Fresh(r).upload = r /\ Fresh(r) # Upload!NoSheet
        BY DEF Fresh, Upload!NoSheet, UploadAssumption
  <2>4. /\ backupOf'[r] = name /\ name = <<FileName[r], Upload!Stamp(savedAt'[r])>> /\ backups'[name] = Fresh(r)
        /\ \A q \in Requests \ {r} : backupOf'[q] = backupOf[q] /\ savedAt'[q] = savedAt[q]
        /\ \A b \in Upload!BackupNames : b # name => backups'[b] = backups[b]
        BY <1>0, <2>1, <2>2
  <2> HIDE DEF name
  <2>5. \A q \in Requests : backupOf'[q] # Upload!NoName =>
            backupOf'[q] = <<FileName[q], Upload!Stamp(savedAt'[q])>> /\ backups'[backupOf'[q]] # Upload!NoSheet
        BY <1>0, <2>2, <2>3, <2>4 DEF NamingInv
  <2>6. \A b \in Upload!BackupNames : backups'[b] # Upload!NoSheet => backupOf'[backups'[b].upload] = b
        BY <1>0, <1>1, <2>2, <2>3, <2>4 DEF NamingInv
  <2>7. \A q \in Requests : sheet'[q] # Upload!NoSheet =>
            backupOf'[q] # Upload!NoName /\ backupOf'[sheet'[q].upload] = backupOf'[q]
        BY <1>0, <1>1, <2>1, <2>2, <2>4 DEF NamingInv
  <2>8. \A q \in Requests : /\ stage'[q] \in {"idle", "logging"} => backupOf'[q] = Upload!NoName
                            /\ stage'[q] \in HasBackup => backupOf'[q] # Upload!NoName
                            /\ stage'[q] \in {"heading", "writing"} => sheet'[q] # Upload!NoSheet
        BY <1>0, <2>1, <2>2, <2>4 DEF NamingInv
  <2>9. \A d \in documents' : backupOf'[d.upload] # Upload!NoName /\ d.backup = backupOf'[d.upload]
        BY <1>0, <2>1, <2>2, <2>4 DEF NamingInv
  <2> QED  BY <2>5, <2>6, <2>7, <2>8, <2>9 DEF NamingInv
<1>4. CASE Upload!SaveDocument(r)
  <2>1. /\ stage[r] = "saving" /\ stage' = [stage EXCEPT ![r] = "reading"]
        /\ documents' = documents \cup {[upload |-> r, backup |-> backupOf[r]]}
        /\ UNCHANGED <<backups, backupOf, savedAt, sheet>>
        BY <1>4 DEF Upload!SaveDocument, Upload!To
  <2> QED  BY <1>0, <2>1 DEF NamingInv
<1>5. CASE Upload!ReadBackup(r) /\ stage'[r] # "failed"
  <2>1. /\ stage[r] = "reading" /\ \E s \in {"heading", "writing"} : stage' = [stage EXCEPT ![r] = s]
        /\ sheet' = [sheet EXCEPT ![r] = backups[backupOf[r]]]
        /\ UNCHANGED <<backups, backupOf, savedAt, documents>>
        BY <1>0, <1>5 DEF Upload!ReadBackup, Upload!To, Upload!Refused
  <2>2. /\ backupOf[r] \in Upload!BackupNames /\ backupOf[r] # Upload!NoName
        /\ backups[backupOf[r]] # Upload!NoSheet /\ backupOf[backups[backupOf[r]].upload] = backupOf[r]
        BY <1>0, <2>1 DEF NamingInv
  <2> QED  BY <1>0, <2>1, <2>2 DEF NamingInv
<1>9. CASE Upload!SaveHeadings(r) /\ stage'[r] # "failed"
  <2>1. /\ stage[r] = "heading" /\ stage' = [stage EXCEPT ![r] = "writing"]
        /\ backups' = [backups EXCEPT ![backupOf[r]] = sheet[r]]
        /\ UNCHANGED <<backupOf, savedAt, sheet, documents>>
        BY <1>0, <1>9 DEF Upload!SaveHeadings, Upload!To, Upload!Refused
  <2>2. /\ backupOf[r] \in Upload!BackupNames /\ backupOf[sheet[r].upload] = backupOf[r] /\ sheet[r] \in Upload!Sheets
        BY <1>0, <2>1 DEF NamingInv
  <2> QED  BY <1>0, <1>1, <2>1, <2>2 DEF NamingInv
<1>6. CASE Upload!WriteStatuses(r) /\ stage'[r] # "failed"
  <2> DEFINE new == [sheet[r] EXCEPT !.statuses = @ \cup {r}]
  <2>1. /\ stage[r] = "writing" /\ stage' = [stage EXCEPT ![r] = "compressing"]
        /\ backups' = [backups EXCEPT ![backupOf[r]] = new]
        /\ UNCHANGED <<backupOf, savedAt, sheet, documents>>
        BY <1>0, <1>6 DEF Upload!WriteStatuses, Upload!To, Upload!Refused
  <2>2. /\ backupOf[r] \in Upload!BackupNames /\ backupOf[sheet[r].upload] = backupOf[r] /\ sheet[r] \in Upload!Sheets
        BY <1>0, <2>1 DEF NamingInv
  <2>3. new.upload = sheet[r].upload /\ new \in Upload!Sheets
        BY <2>2 DEF Upload!Sheets
  <2> HIDE DEF new
  <2>4. new # Upload!NoSheet
        BY <1>1, <2>3
  <2> QED  BY <1>0, <2>1, <2>2, <2>3, <2>4 DEF NamingInv
<1>7. CASE stage'[r] = "failed" /\ (Upload!CreateBackup(r) \/ Upload!ReadBackup(r) \/ Upload!SaveHeadings(r) \/ Upload!WriteStatuses(r))
  <2>1. stage' = [stage EXCEPT ![r] = "failed"] /\ UNCHANGED <<backups, backupOf, savedAt, sheet, documents>>
        BY <1>0, <1>7 DEF Upload!CreateBackup, Upload!ReadBackup, Upload!SaveHeadings, Upload!WriteStatuses, Upload!To,
                          Upload!Refused
  <2> QED  BY <1>0, <1>2, <2>1 DEF Upload!Stages
<1>8. CASE \/ Upload!CreateLogger(r) \/ Upload!DeleteArchive(r) \/ Upload!CreateArchive(r) \/ Upload!FillArchive(r)
           \/ Upload!OpenArchive(r) \/ Upload!Answer(r) \/ Upload!Throws(r)
  <2>1. UNCHANGED <<backups, backupOf, savedAt, sheet, documents>>
        BY <1>8 DEF Upload!CreateLogger, Upload!DeleteArchive, Upload!CreateArchive, Upload!FillArchive,
                    Upload!OpenArchive, Upload!Answer, Upload!Throws
  <2>2. PICK s \in Upload!Stages \ {"idle", "saving", "reading", "heading", "writing", "compressing"} :
            /\ stage' = [stage EXCEPT ![r] = s]
            /\ s \in {"archiving", "filling"} => stage[r] \in {"compressing", "archiving"}
            /\ s = "logging" => stage[r] = "idle"
        BY <1>8 DEF Upload!CreateLogger, Upload!DeleteArchive, Upload!CreateArchive, Upload!FillArchive,
                    Upload!OpenArchive, Upload!Answer, Upload!Throws, Upload!To, Upload!Refused, Upload!Stages
  <2>3. stage' = [stage EXCEPT ![r] = s] /\ stage'[r] = s
        BY <1>0, <2>2, Zenon
  <2> QED  BY <1>2, <2>1, <2>2, <2>3
<1> QED  BY <1>3, <1>4, <1>5, <1>6, <1>7, <1>8, <1>9 DEF Upload!RequestStep

\* The log and the backup of a file with a name of its own are written by its
\* request only.
LEMMA OwnFilesStep ==
    ASSUME UploadAssumption, UploadInv, NEW r \in Requests, Upload!RequestStep(r)
    PROVE  OwnFilesInv'
<1> USE DEF HasLog
<1>0. /\ OwnFilesInv /\ NamingInv
      /\ stage \in [Requests -> Upload!Stages] /\ backups \in [Upload!BackupNames -> Upload!Sheets \cup {Upload!NoSheet}]
      /\ backupOf \in [Requests -> Upload!BackupNames \cup {Upload!NoName}]
      /\ sheet \in [Requests -> Upload!Sheets \cup {Upload!NoSheet}]
      /\ logs \in [Upload!Names -> Requests \cup {Upload!Nobody}] /\ \A q \in Requests : FileName[q] \in Upload!Names
      BY DEF UploadInv, Upload!TypeOK, Upload!Names
<1> SUFFICES ASSUME NEW q \in Requests, ~ SharesItsName(q)
             PROVE  /\ stage'[q] \in HasLog => logs'[FileName[q]] = q
                    /\ stage'[q] \in {"saving", "reading"} => backups'[backupOf'[q]] = Fresh(q)
                    /\ stage'[q] \in {"heading", "writing"} => sheet'[q] = Fresh(q)
                    /\ stage'[q] \in {"compressing", "archiving", "filling"} => backups'[backupOf'[q]] = Own(q)
    BY DEF OwnFilesInv, SharesItsName, Fresh, Own
<1>1. /\ stage[q] \in HasLog => logs[FileName[q]] = q
      /\ stage[q] \in {"saving", "reading"} => backups[backupOf[q]] = Fresh(q)
      /\ stage[q] \in {"heading", "writing"} => sheet[q] = Fresh(q)
      /\ stage[q] \in {"compressing", "archiving", "filling"} => backups[backupOf[q]] = Own(q)
      /\ q # r => FileName[r] # FileName[q]
      BY <1>0 DEF OwnFilesInv, SharesItsName
<1>2. CASE UNCHANGED <<logs, backups, backupOf, sheet>> /\ (stage'[q] = stage[q] \/ stage'[q] \in {"opening", "answering", "done", "failed"})
      BY <1>1, <1>2
<1>3. CASE Upload!CreateLogger(r) /\ stage'[r] # "failed"
  <2>1. /\ stage' = [stage EXCEPT ![r] = "logging"] /\ logs' = [logs EXCEPT ![FileName[r]] = r]
        /\ UNCHANGED <<backups, backupOf, sheet>>
        BY <1>0, <1>3 DEF Upload!CreateLogger, Upload!To, Upload!Refused
  <2> QED  BY <1>0, <1>1, <2>1
<1>4. CASE Upload!CreateBackup(r) /\ stage'[r] # "failed"
  <2> DEFINE name == <<FileName[r], Upload!Stamp(time)>>
  <2>1. /\ stage[r] = "logging" /\ stage' = [stage EXCEPT ![r] = "saving"] /\ UNCHANGED <<logs, sheet>>
        /\ backups' = [backups EXCEPT ![name] = Fresh(r)] /\ backupOf' = [backupOf EXCEPT ![r] = name]
        BY <1>0, <1>4 DEF Upload!CreateBackup, Upload!To, Upload!Refused, Fresh
  <2>2. name \in Upload!BackupNames
        BY DEF UploadInv, Upload!TypeOK, Upload!BackupNames, Upload!Names, Upload!Stamp, UploadAssumption
  <2>3. q # r /\ stage[q] \in HasBackup => backupOf[q] \in Upload!BackupNames /\ backupOf[q] # name
        BY <1>0, <1>1 DEF NamingInv
  <2> HIDE DEF name
  <2> QED  BY <1>0, <1>1, <2>1, <2>2, <2>3 DEF HasBackup
<1>5. CASE Upload!SaveDocument(r)
  <2>1. /\ stage[r] = "saving" /\ stage' = [stage EXCEPT ![r] = "reading"] /\ UNCHANGED <<logs, backups, backupOf, sheet>>
        BY <1>5 DEF Upload!SaveDocument, Upload!To
  <2> QED  BY <1>0, <1>1, <2>1
<1>6. CASE Upload!ReadBackup(r) /\ stage'[r] # "failed"
  <2>1. /\ stage[r] = "reading" /\ UNCHANGED <<logs, backups, backupOf>>
        /\ \E s \in {"heading", "writing"} : stage' = [stage EXCEPT ![r] = s]
        /\ sheet' = [sheet EXCEPT ![r] = backups[backupOf[r]]]
        BY <1>0, <1>6 DEF Upload!ReadBackup, Upload!To, Upload!Refused
  <2> QED  BY <1>0, <1>1, <2>1
<1>10. CASE Upload!SaveHeadings(r) /\ stage'[r] # "failed"
  <2>1. /\ stage[r] = "heading" /\ stage' = [stage EXCEPT ![r] = "writing"] /\ UNCHANGED <<logs, backupOf, sheet>>
        /\ backups' = [backups EXCEPT ![backupOf[r]] = sheet[r]]
        BY <1>0, <1>10 DEF Upload!SaveHeadings, Upload!To, Upload!Refused
  <2>2. backupOf[r] \in Upload!BackupNames /\ backupOf[r] = <<FileName[r], Upload!Stamp(savedAt[r])>>
        BY <1>0, <2>1 DEF NamingInv, HasBackup
  <2>3. q # r /\ stage[q] \in HasBackup => backupOf[q] # backupOf[r]
        BY <1>0, <1>1, <2>2 DEF NamingInv
  <2> QED  BY <1>0, <1>1, <2>1, <2>2, <2>3 DEF HasBackup
<1>7. CASE Upload!WriteStatuses(r) /\ stage'[r] # "failed"
  <2> DEFINE new == [sheet[r] EXCEPT !.statuses = @ \cup {r}]
  <2>1. /\ stage[r] = "writing" /\ stage' = [stage EXCEPT ![r] = "compressing"] /\ UNCHANGED <<logs, backupOf, sheet>>
        /\ backups' = [backups EXCEPT ![backupOf[r]] = new]
        BY <1>0, <1>7 DEF Upload!WriteStatuses, Upload!To, Upload!Refused
  <2>2. q = r => new = Own(r)
        BY <1>1, <2>1 DEF Fresh, Own
  <2>3. backupOf[r] \in Upload!BackupNames /\ backupOf[r] = <<FileName[r], Upload!Stamp(savedAt[r])>>
        BY <1>0, <2>1 DEF NamingInv, HasBackup
  <2>4. q # r /\ stage[q] \in HasBackup => backupOf[q] # backupOf[r]
        BY <1>0, <1>1, <2>3 DEF NamingInv
  <2> HIDE DEF new
  <2> QED  BY <1>0, <1>1, <2>1, <2>2, <2>3, <2>4 DEF HasBackup
<1>8. CASE stage'[r] = "failed" /\ (\/ Upload!CreateLogger(r) \/ Upload!CreateBackup(r) \/ Upload!ReadBackup(r)
                                 \/ Upload!SaveHeadings(r) \/ Upload!WriteStatuses(r))
  <2>1. stage' = [stage EXCEPT ![r] = "failed"] /\ UNCHANGED <<logs, backups, backupOf, sheet>>
        BY <1>0, <1>8 DEF Upload!CreateLogger, Upload!CreateBackup, Upload!ReadBackup, Upload!SaveHeadings,
                          Upload!WriteStatuses, Upload!To, Upload!Refused
  <2> QED  BY <1>0, <1>2, <2>1
<1>9. CASE \/ Upload!DeleteArchive(r) \/ Upload!CreateArchive(r) \/ Upload!FillArchive(r)
           \/ Upload!OpenArchive(r) \/ Upload!Answer(r) \/ Upload!Throws(r)
  <2> USE DEF Upload!DeleteArchive, Upload!CreateArchive, Upload!FillArchive, Upload!OpenArchive, Upload!Answer,
              Upload!Throws, Upload!To, Upload!Refused
  <2>1. UNCHANGED <<logs, backups, backupOf, sheet>>
        BY <1>9
  <2>2. PICK s \in {"archiving", "filling", "opening", "answering", "done", "failed"} :
            /\ stage' = [stage EXCEPT ![r] = s]
            /\ s \in {"archiving", "filling"} => stage[r] \in {"compressing", "archiving"}
        BY <1>9
  <2> QED  BY <1>0, <1>1, <2>1, <2>2
<1> QED  BY <1>3, <1>4, <1>5, <1>6, <1>7, <1>8, <1>9, <1>10 DEF Upload!RequestStep

\* The steps that leave the archive and who has it open alone.
LEMMA ArchiveAlone ==
    ASSUME UploadInv, NEW r \in Requests,
           \/ Upload!CreateLogger(r) \/ Upload!CreateBackup(r) \/ Upload!SaveDocument(r)
           \/ Upload!ReadBackup(r) \/ Upload!SaveHeadings(r) \/ Upload!WriteStatuses(r)
    PROVE  /\ UNCHANGED <<archive, holder, answer, overlapped>> /\ stage[r] \in Upload!Stages
           /\ \E s \in Upload!Stages \ {"filling", "opening", "answering", "done"} : stage' = [stage EXCEPT ![r] = s]
           /\ stage[r] \notin {"filling", "opening", "answering", "done", "failed"}
BY DEF Upload!CreateLogger, Upload!CreateBackup, Upload!SaveDocument, Upload!ReadBackup, Upload!SaveHeadings, Upload!WriteStatuses,
       Upload!To, Upload!Refused, Upload!Stages, UploadInv, Upload!TypeOK

\* The archive that CreateArchive makes is none.
LEMMA BegunArchive ==
    ASSUME UploadAssumption, NEW r \in Requests
    PROVE  /\ [Upload!NoArchive EXCEPT !.by = r] = Begun(r) /\ Begun(r) # Upload!NoArchive
           /\ Begun(r).by = r /\ Begun(r).sheet = Upload!NoSheet
           /\ r # Upload!Nobody /\ r # Upload!Leaked /\ Upload!Leaked # Upload!Nobody
BY DEF UploadAssumption, Upload!NoArchive, Begun, Upload!Nobody, Upload!Leaked

\* Who has the archive open.
LEMMA HolderStep ==
    ASSUME UploadAssumption, UploadInv, NEW r \in Requests, Upload!RequestStep(r)
    PROVE  HolderInv'
<1>0. /\ HolderInv /\ stage \in [Requests -> Upload!Stages]
      /\ \A q \in Requests : q # Upload!Nobody /\ q # Upload!Leaked
      /\ Upload!Leaked # Upload!Nobody
      BY BegunArchive DEF UploadInv, Upload!TypeOK, Upload!Leaked, Upload!Nobody, UploadAssumption
<1> USE DEF Upload!To, Upload!Refused
<1>1. CASE \/ Upload!CreateLogger(r) \/ Upload!CreateBackup(r) \/ Upload!SaveDocument(r)
           \/ Upload!ReadBackup(r) \/ Upload!SaveHeadings(r) \/ Upload!WriteStatuses(r)
      BY <1>0, <1>1, ArchiveAlone DEF HolderInv, Begun
<1>2. CASE Upload!DeleteArchive(r)
      BY <1>0, <1>2 DEF Upload!DeleteArchive, HolderInv, Begun
<1>3. CASE Upload!CreateArchive(r)
  <2>1. CASE archive = Upload!NoArchive
    <3>1. /\ archive' = Begun(r) /\ holder' = r /\ stage' = [stage EXCEPT ![r] = "filling"] /\ holder = Upload!Nobody
          BY <1>0, <1>3, <2>1, BegunArchive DEF Upload!CreateArchive, HolderInv
    <3> QED  BY <1>0, <3>1, BegunArchive DEF HolderInv
  <2>2. CASE archive # Upload!NoArchive
        BY <1>0, <1>3, <2>2 DEF Upload!CreateArchive, HolderInv, Begun
  <2> QED  BY <2>1, <2>2
<1>4. CASE Upload!FillArchive(r)
  <2>1. /\ stage[r] = "filling" /\ holder = r /\ archive = Begun(r)
        /\ \A q \in Requests \ {r} : stage[q] # "filling" /\ stage[q] # "answering"
        BY <1>0, <1>4 DEF Upload!FillArchive, HolderInv
  <2>2. CASE stage'[r] = "failed"
    <3>1. stage' = [stage EXCEPT ![r] = "failed"] /\ holder' = Upload!Leaked /\ archive' = archive
          BY <1>0, <1>4, <2>2 DEF Upload!FillArchive
    <3> QED  BY <1>0, <2>1, <3>1, BegunArchive DEF HolderInv
  <2>3. CASE stage'[r] # "failed"
    <3>1. stage' = [stage EXCEPT ![r] = "opening"] /\ holder' = Upload!Nobody
          BY <1>0, <1>4, <2>3 DEF Upload!FillArchive
    <3> QED  BY <1>0, <2>1, <3>1 DEF HolderInv
  <2> QED  BY <2>2, <2>3
<1>5. CASE Upload!OpenArchive(r)
  <2>1. CASE archive = Upload!NoArchive \/ holder # Upload!Nobody
        BY <1>0, <1>5, <2>1 DEF Upload!OpenArchive, HolderInv, Begun
  <2>2. CASE ~ (archive = Upload!NoArchive \/ holder # Upload!Nobody)
    <3>1. stage' = [stage EXCEPT ![r] = "answering"] /\ holder' = r /\ archive' = archive
          BY <1>5, <2>2 DEF Upload!OpenArchive
    <3> QED  BY <1>0, <2>2, <3>1 DEF HolderInv
  <2> QED  BY <2>1, <2>2
<1>6. CASE Upload!Answer(r)
  <2>1. /\ stage' = [stage EXCEPT ![r] = "done"] /\ holder = r /\ holder' = Upload!Nobody
        /\ \A q \in Requests \ {r} : stage[q] # "filling" /\ stage[q] # "answering"
        BY <1>0, <1>6 DEF Upload!Answer, HolderInv
  <2> QED  BY <1>0, <2>1 DEF HolderInv
<1>7. CASE Upload!Throws(r)
  <2>1. stage' = [stage EXCEPT ![r] = "failed"] /\ archive' = archive
        BY <1>7 DEF Upload!Throws
  <2>2. CASE stage[r] \in {"filling", "answering"}
    <3>1. /\ holder = r /\ \A q \in Requests \ {r} : stage[q] # "filling" /\ stage[q] # "answering"
          BY <1>0, <2>2 DEF HolderInv
    <3> QED  BY <1>0, <2>1, <3>1 DEF HolderInv
  <2>3. CASE stage[r] \notin {"filling", "answering"}
    <3>1. holder' = holder
          BY <1>7, <2>3 DEF Upload!Throws
    <3> QED  BY <1>0, <2>1, <3>1 DEF HolderInv, Begun
  <2> QED  BY <2>2, <2>3
<1> QED  BY <1>1, <1>2, <1>3, <1>4, <1>5, <1>6, <1>7 DEF Upload!RequestStep

\* What is in the archive.
LEMMA ArchiveStep ==
    ASSUME UploadAssumption, UploadInv, NEW r \in Requests, Upload!RequestStep(r)
    PROVE  ArchiveInv'
<1>0. /\ ArchiveInv /\ HolderInv /\ stage \in [Requests -> Upload!Stages] /\ overlapped \subseteq Requests
      BY DEF UploadInv, Upload!TypeOK
<1> USE DEF Upload!To, Upload!Refused
<1>1. CASE \/ Upload!CreateLogger(r) \/ Upload!CreateBackup(r) \/ Upload!SaveDocument(r)
           \/ Upload!ReadBackup(r) \/ Upload!SaveHeadings(r) \/ Upload!WriteStatuses(r)
      BY <1>0, <1>1, ArchiveAlone DEF ArchiveInv, Filled
<1>2. CASE Upload!DeleteArchive(r)
      BY <1>0, <1>2 DEF Upload!DeleteArchive, ArchiveInv, Filled
<1>3. CASE Upload!CreateArchive(r)
  <2>1. CASE archive = Upload!NoArchive
    <3>1. /\ archive' = Begun(r) /\ stage' = [stage EXCEPT ![r] = "filling"]
          /\ overlapped' = overlapped \cup {q \in Requests \ {r} : stage[q] \in {"filling", "opening"}}
          BY <1>0, <1>3, <2>1, BegunArchive DEF Upload!CreateArchive
    <3> QED  BY <1>0, <3>1, BegunArchive DEF ArchiveInv
  <2>2. CASE archive # Upload!NoArchive
        BY <1>0, <1>3, <2>2 DEF Upload!CreateArchive, ArchiveInv, Filled
  <2> QED  BY <2>1, <2>2
<1>4. CASE Upload!FillArchive(r)
  <2>1. /\ stage[r] = "filling" /\ holder = r /\ archive = Begun(r) /\ overlapped' = overlapped
        BY <1>0, <1>4 DEF Upload!FillArchive, HolderInv
  <2>2. CASE stage'[r] = "failed"
    <3>1. stage' = [stage EXCEPT ![r] = "failed"] /\ archive' = archive
          BY <1>0, <1>4, <2>2 DEF Upload!FillArchive
    <3> QED  BY <1>0, <2>1, <3>1, BegunArchive DEF ArchiveInv
  <2>3. CASE stage'[r] # "failed"
    <3>1. /\ stage' = [stage EXCEPT ![r] = "opening"]
          /\ archive' = [by |-> r, sheet |-> backups[backupOf[r]], log |-> logs[FileName[r]]]
          BY <1>0, <1>4, <2>3 DEF Upload!FillArchive
    <3>2. backups[backupOf[r]] # Upload!NoSheet
          BY <2>1 DEF UploadInv, NamingInv, HasBackup, HasLog
    <3>3. ~ SharesItsName(r) => backups[backupOf[r]] = Own(r) /\ logs[FileName[r]] = r
          BY <2>1 DEF UploadInv, OwnFilesInv, HasLog
    <3>4. archive'.by = r /\ archive'.sheet = backups[backupOf[r]] /\ archive'.log = logs[FileName[r]]
          BY <3>1
    <3>5. \/ archive'.sheet = Own(archive'.by) /\ archive'.log = archive'.by
          \/ archive'.sheet # Upload!NoSheet /\ SharesItsName(archive'.by)
          BY <3>2, <3>3, <3>4 DEF Own, SharesItsName
    <3>6. \A q \in Requests : stage'[q] = "opening" => r = q \/ q \in overlapped'
          BY <1>0, <2>1, <3>1, BegunArchive DEF ArchiveInv
    <3>7. Filled(archive)'
          BY <3>5, Zenon DEF Filled, Own, SharesItsName
    <3> QED  BY <3>4, <3>6, <3>7 DEF ArchiveInv
  <2> QED  BY <2>2, <2>3
<1>5. CASE Upload!OpenArchive(r) \/ Upload!Answer(r) \/ Upload!Throws(r)
  <2>1. /\ UNCHANGED <<archive, overlapped>>
        /\ \E s \in {"answering", "done", "failed"} : stage' = [stage EXCEPT ![r] = s]
        /\ stage[r] \in {"filling", "failed"} => stage' = [stage EXCEPT ![r] = "failed"]
        BY <1>5 DEF Upload!OpenArchive, Upload!Answer, Upload!Throws
  <2> QED  BY <1>0, <2>1 DEF ArchiveInv, Filled
<1> QED  BY <1>1, <1>2, <1>3, <1>4, <1>5 DEF Upload!RequestStep

\* What is in the answers: an archive is opened when its maker has closed it or
\* has failed.
LEMMA AnswerStep ==
    ASSUME UploadAssumption, UploadInv, NEW r \in Requests, Upload!RequestStep(r)
    PROVE  AnswerInv'
<1>0. /\ AnswerInv /\ stage \in [Requests -> Upload!Stages] /\ answer \in [Requests -> Upload!Archives]
      /\ overlapped \subseteq Requests
      BY DEF UploadInv, Upload!TypeOK
<1> USE DEF Upload!To, Upload!Refused
<1>1. CASE Upload!OpenArchive(r) /\ stage'[r] # "failed"
  <2>1. /\ stage[r] = "opening" /\ stage' = [stage EXCEPT ![r] = "answering"] /\ overlapped' = overlapped
        /\ archive # Upload!NoArchive /\ holder = Upload!Nobody /\ answer' = [answer EXCEPT ![r] = archive]
        BY <1>0, <1>1 DEF Upload!OpenArchive
  <2>2. \A q \in Requests : stage[q] # "filling"
        BY <2>1, BegunArchive DEF UploadInv, HolderInv
  <2>3. /\ archive.by \in Requests /\ (archive.by # r => r \in overlapped)
        /\ \/ Filled(archive)
           \/ archive.sheet = Upload!NoSheet /\ archive.by # r /\ stage[archive.by] = "failed"
        BY <2>1, <2>2 DEF UploadInv, ArchiveInv
  <2>4. answer'[r] = archive /\ \A q \in Requests \ {r} : answer'[q] = answer[q] /\ stage'[q] = stage[q]
        BY <1>0, <2>1
  <2> QED  BY <1>0, <2>1, <2>3, <2>4 DEF AnswerInv, Filled
<1>2. CASE ~ (Upload!OpenArchive(r) /\ stage'[r] # "failed")
  <2>1. /\ answer' = answer /\ overlapped \subseteq overlapped'
        /\ \E s \in Upload!Stages \ {"answering"} : stage' = [stage EXCEPT ![r] = s] /\ (s = "done" => stage[r] = "answering")
        /\ stage[r] # "failed"
        BY <1>0, <1>2 DEF Upload!RequestStep, Upload!CreateLogger, Upload!CreateBackup, Upload!SaveDocument,
                   Upload!ReadBackup, Upload!SaveHeadings, Upload!WriteStatuses, Upload!DeleteArchive, Upload!CreateArchive,
                   Upload!FillArchive, Upload!OpenArchive, Upload!Answer, Upload!Throws, Upload!Stages
  <2> QED  BY <1>0, <2>1 DEF AnswerInv, Filled
<1> QED  BY <1>1, <1>2

\* The invariant of the files of an upload, for any requests and file names.
THEOREM UploadInvCorrect == Upload!Spec => []UploadInv
<1>0. UploadAssumption
      BY UploadAssumed
<1>1. Upload!Init => UploadInv
      BY <1>0, UploadInitially
<1>2. UploadInv /\ [Upload!Next]_Upload!vars => UploadInv'
  <2> SUFFICES ASSUME UploadInv, [Upload!Next]_Upload!vars PROVE UploadInv'
      OBVIOUS
  <2>1. CASE UNCHANGED Upload!vars
    <3>1. Upload!TypeOK'
          BY <2>1 DEF UploadInv, Upload!TypeOK, Upload!vars
    <3>2. NamingInv' /\ OwnFilesInv' /\ HolderInv' /\ ArchiveInv' /\ AnswerInv'
          BY <2>1 DEF UploadInv, NamingInv, OwnFilesInv, HolderInv, ArchiveInv, AnswerInv, Filled, Upload!vars
    <3> QED  BY <3>1, <3>2 DEF UploadInv
  <2>2. CASE Upload!Tick
    <3>1. Upload!TypeOK'
          BY <1>0, <2>2 DEF UploadInv, Upload!TypeOK, Upload!Tick, UploadAssumption
    <3>2. NamingInv' /\ OwnFilesInv' /\ HolderInv' /\ ArchiveInv' /\ AnswerInv'
          BY <2>2 DEF UploadInv, NamingInv, OwnFilesInv, HolderInv, ArchiveInv, AnswerInv, Filled, Upload!Tick
    <3> QED  BY <3>1, <3>2 DEF UploadInv
  <2>3. CASE Upload!Finalize
    <3>1. Upload!TypeOK'
          BY <2>3 DEF UploadInv, Upload!TypeOK, Upload!Finalize
    <3>2. HolderInv'
          BY <1>0, <2>3, BegunArchive DEF UploadInv, HolderInv, Upload!Finalize
    <3>3. NamingInv' /\ OwnFilesInv' /\ ArchiveInv' /\ AnswerInv'
          BY <2>3 DEF UploadInv, NamingInv, OwnFilesInv, ArchiveInv, AnswerInv, Filled, Upload!Finalize
    <3> QED  BY <3>1, <3>2, <3>3 DEF UploadInv
  <2>4. CASE \E r \in Requests : Upload!RequestStep(r)
        BY <1>0, <2>4, UploadTypeStep, NamingStep, OwnFilesStep, HolderStep, ArchiveStep, AnswerStep DEF UploadInv
  <2> QED  BY <2>1, <2>2, <2>3, <2>4 DEF Upload!Next
<1> QED  BY <1>1, <1>2, PTL DEF Upload!Spec

\* Only overlapping requests mix up the archives, and only files of one name
\* their contents (ZipService.Compress, OnPost, LogService).
THEOREM ArchivesCorrect == Upload!Spec => []ArchivesAreOwn
<1>1. UploadInv => ArchivesAreOwn
      BY UploadInvImplies, UploadAssumed DEF ArchivesAreOwn
<1> QED  BY <1>1, UploadInvCorrect, PTL

\* A row of the uploaded documents leads to its file, or to one of the same
\* name and clock (FileBackupService.Save).
THEOREM DocumentsCorrect == Upload!Spec => []DocumentsLeadToTheirFiles
<1>1. UploadInv => DocumentsLeadToTheirFiles
      BY UploadInvImplies, UploadAssumed DEF DocumentsLeadToTheirFiles
<1> QED  BY <1>1, UploadInvCorrect, PTL

\* The types of the three parts, from the invariant of each.
THEOREM TypesCorrect == Spec /\ Cache!Spec /\ Upload!Spec => []TypesOK
<1>1. LockInv /\ CacheInv /\ UploadInv => TypesOK
      BY DEF LockInv, CacheInv, UploadInv, TypesOK
<1> QED  BY <1>1, LockInvCorrect, CacheInvCorrect, UploadInvCorrect, PTL
=============================================================================
