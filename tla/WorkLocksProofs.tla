---------------------------- MODULE WorkLocksProofs ----------------------------
(***************************************************************************)
(* Proofs about WorkLocks: whatever the size of the map, it is a mutex per *)
(* work, the one WorkMutex specifies, until a lock is evicted between its  *)
(* hand-out and its acquisition, which cannot happen while the works fit   *)
(* into it; and its order and its entries stay one dictionary.             *)
(***************************************************************************)
EXTENDS WorkLocks, FiniteSetTheorems, SequenceTheorems, WellFoundedInduction, TLAPS

\* What the types of the variables say, but for the order of the keys, on
\* which the proofs do not depend.
Shape ==
    /\ lockOf \in [Works -> Locks \cup {None}]
    /\ owner \in [Locks -> Calls \cup {None}]
    /\ pc \in [Calls -> {"idle", "handed", "inside"}]
    /\ work \in [Calls -> Works \cup {None}]
    /\ handed \in [Calls -> Locks \cup {None}]
    /\ evicted \in BOOLEAN

\* A call that was handed a lock has the one the map has for its work: it was not
\* evicted in between.
HandedIsCurrent ==
    \A c \in Calls : pc[c] # "idle" =>
        work[c] \in Works /\ handed[c] \in Locks /\ lockOf[work[c]] = handed[c]

\* A call that is inside owns the lock it was handed.
InsideOwns == \A c \in Calls : pc[c] = "inside" => owner[handed[c]] = c

LocksInv == Shape /\ HandedIsCurrent /\ InsideOwns

\* What holds until a lock is evicted that was handed out and not acquired.
MapInv == ~evicted => LocksInv

\* The works fit into the map.
Fits == Cardinality(Works) <= MaxEntries

-----------------------------------------------------------------------------
(* Pruning *)

\* Nothing is evicted while the works fit.
LEMMA NothingEvicted ==
    ASSUME WorkLocksAssumption, Fits, NEW keys, NEW locks
    PROVE  Evicted(keys, locks) = {}
<1>1. Surplus(locks) = 0
  <2>1. IsFiniteSet(Entries(locks)) /\ Cardinality(Entries(locks)) <= Cardinality(Works)
    BY FS_Subset DEF WorkLocksAssumption, Entries
  <2>2. Cardinality(Entries(locks)) \in Nat /\ Cardinality(Works) \in Nat
    BY <2>1, FS_CardinalityType DEF WorkLocksAssumption
  <2> QED
    BY <2>1, <2>2 DEF Surplus, Fits, WorkLocksAssumption
<1>2. ASSUME NEW w PROVE Cardinality(Evictable(locks) \cap Older(keys, w)) \in Nat
  <2>1. IsFiniteSet(Evictable(locks) \cap Older(keys, w))
    BY FS_Subset DEF WorkLocksAssumption, Evictable, Entries
  <2> QED
    BY <2>1, FS_CardinalityType
<1> QED
  BY <1>1, <1>2 DEF Evicted

-----------------------------------------------------------------------------
(* One mutex per work                                                      *)

LEMMA LocksInit == WorkLocksAssumption /\ Init => LocksInv
BY DEF WorkLocksAssumption, Init, LocksInv, Shape, HandedIsCurrent, InsideOwns

\* A call is handed a lock without disturbing another's: what is evicted is neither
\* held, nor handed out.
LEMMA LookupStep ==
    ASSUME WorkLocksAssumption, LocksInv, ~evicted', NEW c \in Calls, NEW w \in Works,
           LookupKnown(c, w) \/ LookupNew(c, w)
    PROVE  /\ LocksInv'
           /\ UNCHANGED owner
           /\ \A d \in Calls : pc[d] = "inside" \/ pc'[d] = "inside" =>
                 pc'[d] = pc[d] /\ work'[d] = work[d]
<1>1. \E k \in Locks : /\ lockOf' \in [Works -> Locks \cup {None}] /\ lockOf'[w] = k
                       /\ \A d \in Calls : pc[d] # "idle" => lockOf'[work[d]] = lockOf[work[d]]
                       /\ evicted' \in BOOLEAN
                       /\ pc[c] = "idle" /\ Hand(c, w, k)
  <2>1. CASE LookupKnown(c, w)
    BY <2>1 DEF LookupKnown, LocksInv, Shape
  <2>2. CASE LookupNew(c, w)
    <3>1. PICK k \in Locks :
            LET locks == [lockOf EXCEPT ![w] = k]
                gone == Evicted(Append(lru, w), locks)
            IN  /\ lockOf' = [v \in Works |-> IF v \in gone THEN None ELSE locks[v]]
                /\ evicted' = \/ evicted \/ w \in gone
                              \/ \E d \in Calls, v \in gone :
                                   pc[d] = "handed" /\ handed[d] = locks[v]
                /\ Hand(c, w, k)
      BY <2>2 DEF LookupNew
    <3> DEFINE locks == [lockOf EXCEPT ![w] = k]
               gone == Evicted(Append(lru, w), locks)
    <3>2. /\ lockOf \in [Works -> Locks \cup {None}]
          /\ locks \in [Works -> Locks \cup {None}] /\ locks[w] = k
          /\ \A v \in Works : v # w => locks[v] = lockOf[v]
      BY DEF LocksInv, Shape
    <3>3. gone \subseteq {v \in Works : owner[locks[v]] = None}
      BY DEF Evicted, Evictable, Entries
    <3>4. /\ lockOf' = [v \in Works |-> IF v \in gone THEN None ELSE locks[v]]
          /\ w \notin gone
          /\ \A d \in Calls, v \in gone : ~(pc[d] = "handed" /\ handed[d] = locks[v])
          /\ evicted' = FALSE
      BY <3>1 DEF LocksInv, Shape
    <3> HIDE DEF locks, gone
    <3>5. lockOf' \in [Works -> Locks \cup {None}] /\ lockOf'[w] = k
      BY <3>2, <3>4
    <3>6. ASSUME NEW d \in Calls, pc[d] # "idle"
          PROVE  lockOf'[work[d]] = lockOf[work[d]]
      <4>1. work[d] \in Works /\ handed[d] \in Locks /\ lockOf[work[d]] = handed[d]
        BY <3>6 DEF LocksInv, HandedIsCurrent
      <4>2. work[d] # w
        BY <2>2, <4>1 DEF LookupNew, WorkLocksAssumption
      <4>3. locks[work[d]] = handed[d]
        BY <3>2, <4>1, <4>2
      <4>4. CASE pc[d] = "handed"
        BY <3>4, <4>1, <4>3, <4>4
      <4>5. CASE pc[d] = "inside"
        <5>1. owner[handed[d]] # None
          BY <4>5 DEF LocksInv, InsideOwns, WorkLocksAssumption
        <5> QED
          BY <3>3, <3>4, <4>1, <4>3, <5>1
      <4> QED
        BY <3>6, <4>4, <4>5 DEF LocksInv, Shape
    <3> QED
      BY <2>2, <3>1, <3>4, <3>5, <3>6 DEF LookupNew
  <2> QED
    BY <2>1, <2>2
<1>2. PICK k \in Locks : /\ lockOf' \in [Works -> Locks \cup {None}] /\ lockOf'[w] = k
                         /\ \A d \in Calls : pc[d] # "idle" => lockOf'[work[d]] = lockOf[work[d]]
                         /\ evicted' \in BOOLEAN
                         /\ pc[c] = "idle" /\ Hand(c, w, k)
  BY <1>1
<1>3. Shape'
  BY <1>2 DEF LocksInv, Shape, Hand
<1>4. HandedIsCurrent'
  <2> SUFFICES ASSUME NEW d \in Calls, pc'[d] # "idle"
               PROVE  /\ work'[d] \in Works /\ handed'[d] \in Locks
                      /\ lockOf'[work'[d]] = handed'[d]
    BY DEF HandedIsCurrent
  <2>1. CASE d = c
    BY <1>2, <2>1 DEF Hand, LocksInv, Shape
  <2>2. CASE d # c
    <3>1. /\ work'[d] = work[d] /\ handed'[d] = handed[d]
          /\ work[d] \in Works /\ handed[d] \in Locks /\ lockOf[work[d]] = handed[d]
      BY <1>2, <2>2 DEF Hand, LocksInv, Shape, HandedIsCurrent
    <3>2. pc[d] # "idle"
      BY <1>2, <2>2 DEF Hand, LocksInv, Shape
    <3> QED
      BY <1>2, <3>1, <3>2
  <2> QED
    BY <2>1, <2>2
<1>5. InsideOwns' /\ UNCHANGED owner
  BY <1>2 DEF LocksInv, Shape, InsideOwns, Hand
<1>6. \A d \in Calls : pc[d] = "inside" \/ pc'[d] = "inside" =>
         pc'[d] = pc[d] /\ work'[d] = work[d]
  BY <1>2 DEF LocksInv, Shape, Hand
<1> QED
  BY <1>3, <1>4, <1>5, <1>6 DEF LocksInv

LEMMA AcquireStep ==
    ASSUME WorkLocksAssumption, LocksInv, NEW c \in Calls, Acquire(c)
    PROVE  LocksInv'
<1>1. Shape'
  BY DEF LocksInv, Shape, Acquire
<1>2. HandedIsCurrent'
  BY DEF LocksInv, Shape, HandedIsCurrent, Acquire
<1>3. InsideOwns'
  BY DEF LocksInv, Shape, HandedIsCurrent, InsideOwns, Acquire, Free, WorkLocksAssumption
<1> QED
  BY <1>1, <1>2, <1>3 DEF LocksInv

LEMMA ReleaseStep ==
    ASSUME WorkLocksAssumption, LocksInv, NEW c \in Calls, Release(c)
    PROVE  LocksInv'
<1>1. Shape'
  BY DEF LocksInv, Shape, Release
<1>2. HandedIsCurrent'
  BY DEF LocksInv, Shape, HandedIsCurrent, Release
<1>3. InsideOwns'
  <2> SUFFICES ASSUME NEW d \in Calls, pc'[d] = "inside"
               PROVE  owner'[handed'[d]] = d
    BY DEF InsideOwns
  <2>1. d # c /\ pc[d] = "inside" /\ handed'[d] = handed[d]
    BY DEF LocksInv, Shape, Release
  <2>2. handed[d] # handed[c]
    BY <2>1 DEF LocksInv, InsideOwns, Release
  <2> QED
    BY <2>1, <2>2 DEF LocksInv, Shape, InsideOwns, HandedIsCurrent, Release
<1> QED
  BY <1>1, <1>2, <1>3 DEF LocksInv

LEMMA LocksStep ==
    ASSUME WorkLocksAssumption, LocksInv, ~evicted', [Next]_vars
    PROVE  LocksInv'
<1>1. CASE UNCHANGED vars
  BY <1>1 DEF vars, LocksInv, Shape, HandedIsCurrent, InsideOwns
<1>2. CASE Next
  BY <1>2, LookupStep, AcquireStep, ReleaseStep DEF Next
<1> QED
  BY <1>1, <1>2

\* What was evicted once, was evicted.
LEMMA EvictedStays == evicted /\ [Next]_vars => evicted'
BY DEF Next, vars, LookupKnown, LookupNew, Acquire, Release

LEMMA MapStep == WorkLocksAssumption /\ MapInv /\ [Next]_vars => MapInv'
BY LocksStep, EvictedStays DEF MapInv

\* Two calls that are inside one work are the same call.
LEMMA OneInside ==
    ASSUME LocksInv, NEW c \in Calls, NEW d \in Calls,
           pc[c] = "inside", pc[d] = "inside", work[c] = work[d]
    PROVE  c = d
BY DEF LocksInv, HandedIsCurrent, InsideOwns

\* What the choice in Inside comes to, now and after a step.
LEMMA InsideIs ==
    ASSUME LocksInv, NEW w \in Works
    PROVE  /\ \A c \in Calls : pc[c] = "inside" /\ work[c] = w => Inside[w] = c
           /\ (\A c \in Calls : ~(pc[c] = "inside" /\ work[c] = w)) => Inside[w] = None
BY OneInside DEF Inside

LEMMA InsideIsNext ==
    ASSUME LocksInv', NEW w \in Works
    PROVE  /\ \A c \in Calls : pc'[c] = "inside" /\ work'[c] = w => Inside'[w] = c
           /\ (\A c \in Calls : ~(pc'[c] = "inside" /\ work'[c] = w)) => Inside'[w] = None
<1>1. ASSUME NEW c \in Calls, NEW d \in Calls,
             pc'[c] = "inside", pc'[d] = "inside", work'[c] = work'[d]
      PROVE  c = d
  BY <1>1 DEF LocksInv, HandedIsCurrent, InsideOwns
<1> QED
  BY <1>1 DEF Inside

\* Every step of the locks is a step of the mutex or changes nothing of it.
LEMMA MutexStep ==
    ASSUME WorkLocksAssumption, LocksInv, LocksInv', ~evicted', [Next]_vars
    PROVE  [Mutex!Next]_Inside
<1>1. CASE UNCHANGED vars
  <2>1. UNCHANGED Inside
    BY <1>1 DEF vars, Inside
  <2> QED
    BY <2>1
<1>2. ASSUME NEW c \in Calls, NEW w \in Works, LookupKnown(c, w) \/ LookupNew(c, w)
      PROVE  UNCHANGED Inside
  <2>1. \A d \in Calls, v \in Works :
           pc'[d] = "inside" /\ work'[d] = v <=> pc[d] = "inside" /\ work[d] = v
    BY <1>2, LookupStep
  <2>2. \A v \in Works : Inside'[v] = Inside[v]
    BY <2>1, InsideIs, InsideIsNext
  <2> QED
    BY <2>2 DEF Inside
<1>3. ASSUME NEW c \in Calls, Acquire(c) PROVE Mutex!Enter(c, work[c])
  <2>1. work[c] \in Works /\ pc[c] = "handed" /\ owner[handed[c]] = None
    BY <1>3 DEF Acquire, Free, LocksInv, HandedIsCurrent
  <2>2. Inside[work[c]] = None
    <3>1. ASSUME NEW d \in Calls, pc[d] = "inside", work[d] = work[c] PROVE FALSE
      BY <2>1, <3>1 DEF LocksInv, HandedIsCurrent, InsideOwns, WorkLocksAssumption
    <3> QED
      BY <2>1, <3>1, InsideIs
  <2>3. \A d \in Calls, v \in Works :
           pc'[d] = "inside" /\ work'[d] = v
             <=> (pc[d] = "inside" /\ work[d] = v) \/ (d = c /\ v = work[c])
    BY <1>3, <2>1 DEF Acquire, LocksInv, Shape
  <2>4. ASSUME NEW v \in Works
        PROVE  Inside'[v] = IF v = work[c] THEN c ELSE Inside[v]
    BY <2>3, InsideIs, InsideIsNext
  <2> QED
    BY <2>1, <2>2, <2>4 DEF Mutex!Enter, Inside
<1>4. ASSUME NEW c \in Calls, Release(c) PROVE Mutex!Leave(work[c])
  <2>1. work[c] \in Works /\ pc[c] = "inside"
    BY <1>4 DEF Release, LocksInv, HandedIsCurrent
  <2>2. Inside[work[c]] # None
    BY <2>1, InsideIs DEF WorkLocksAssumption
  <2>3. \A d \in Calls, v \in Works :
           pc'[d] = "inside" /\ work'[d] = v
             <=> pc[d] = "inside" /\ work[d] = v /\ v # work[c]
    <3>1. \A d \in Calls \ {c} : pc'[d] = pc[d] /\ work'[d] = work[d]
      BY <1>4 DEF Release, LocksInv, Shape
    <3>2. pc'[c] = "idle"
      BY <1>4 DEF Release, LocksInv, Shape
    <3> QED
      BY <2>1, <3>1, <3>2, OneInside
  <2>4. ASSUME NEW v \in Works
        PROVE  Inside'[v] = IF v = work[c] THEN None ELSE Inside[v]
    BY <2>3, InsideIs, InsideIsNext
  <2> QED
    BY <2>1, <2>2, <2>4 DEF Mutex!Leave, Inside
<1>5. CASE Next
  <2>1. ASSUME NEW c \in Calls, Acquire(c) \/ Release(c) PROVE work[c] \in Works
    BY <2>1 DEF Acquire, Release, LocksInv, HandedIsCurrent
  <2> QED
    BY <1>2, <1>3, <1>4, <1>5, <2>1 DEF Next, Mutex!Next
<1> QED
  BY <1>1, <1>5

\* Every step does, until a lock is evicted that was handed out.
LEMMA MutexUntil ==
    WorkLocksAssumption /\ MapInv /\ [Next]_vars
        => [UNCHANGED vars \/ evicted' \/ Mutex!Next]_Inside
<1> SUFFICES ASSUME WorkLocksAssumption, MapInv, [Next]_vars, ~evicted'
             PROVE  [Mutex!Next]_Inside
  OBVIOUS
<1>1. LocksInv /\ LocksInv'
  BY LocksStep, EvictedStays DEF MapInv
<1> QED
  BY <1>1, MutexStep

\* Whatever the size of the map, the lock objects, handed out before they are acquired,
\* and their map implement one mutex per work until one is evicted in between.
THEOREM LocksAreMutexes == ASSUME WorkLocksAssumption PROVE Spec => ImplementsMutex
<1>1. Init => MapInv /\ Mutex!Init
  BY LocksInit DEF Init, MapInv, Mutex!Init, Inside
<1>2. MapInv /\ [Next]_vars => MapInv'
  BY MapStep
<1>3. MapInv /\ [Next]_vars => [UNCHANGED vars \/ evicted' \/ Mutex!Next]_Inside
  BY MutexUntil
<1> QED
  BY <1>1, <1>2, <1>3, PTL DEF Spec, ImplementsMutex

\* While the works fit into the map nothing is evicted, and it is a mutex per work
\* without a condition.
THEOREM MutexesWhileFits == ASSUME WorkLocksAssumption, Fits PROVE Spec => Mutex!Spec
<1>1. Init => ~evicted /\ Mutex!Init
  BY DEF Init, Mutex!Init, Inside
<1>2. ~evicted /\ [Next]_vars => ~evicted'
  <2> SUFFICES ASSUME ~evicted, [Next]_vars PROVE ~evicted'
    OBVIOUS
  <2>1. ASSUME NEW c \in Calls, NEW w \in Works, LookupNew(c, w) PROVE ~evicted'
    BY <2>1, NothingEvicted DEF LookupNew
  <2>2. ASSUME NEW c \in Calls, NEW w \in Works, LookupKnown(c, w) PROVE ~evicted'
    BY <2>2 DEF LookupKnown
  <2>3. ASSUME NEW c \in Calls, Acquire(c) \/ Release(c) PROVE ~evicted'
    BY <2>3 DEF Acquire, Release
  <2> QED
    BY <2>1, <2>2, <2>3 DEF Next, vars
<1>3. ~evicted' /\ [UNCHANGED vars \/ evicted' \/ Mutex!Next]_Inside => [Mutex!Next]_Inside
  BY DEF vars, Inside
<1> QED
  BY <1>1, <1>2, <1>3, LocksAreMutexes, PTL DEF Spec, ImplementsMutex, Mutex!Spec

-----------------------------------------------------------------------------
(* The order of the keys                                                   *)

\* A number of S with the smallest interval 0..n is the least of S.
LEMMA LeastNumber ==
  ASSUME NEW S, S \subseteq Nat, S # {}
  PROVE  \E n \in S : \A k \in S : n <= k
<1> DEFINE Starts == {0..n : n \in S}
           Less == StrictSubsetOrdering(Nat)
<1>1. Starts \subseteq FiniteSubsetsOf(Nat)
  <2>1. ASSUME NEW n \in S PROVE 0..n \in SUBSET Nat /\ IsFiniteSet(0..n)
    BY FS_Interval
  <2> QED
    BY <2>1 DEF FiniteSubsetsOf
<1>2. \E least \in Starts : \A other \in Starts : <<other, least>> \notin Less
  <2>1. Starts # {}
    OBVIOUS
  <2> HIDE DEF Starts
  <2> QED
    BY <1>1, <2>1, FS_StrictSubsetOrderingWellFounded, WFMin
<1>3. PICK n \in S : \A k \in S : <<0..k, 0..n>> \notin Less
  BY <1>2
<1>4. ASSUME NEW k \in S, k < n PROVE FALSE
  <2>1. 0..k \subseteq 0..n /\ n \in 0..n /\ n \notin 0..k
    BY <1>4
  <2>2. 0..k \in SUBSET Nat /\ 0..n \in SUBSET Nat
    OBVIOUS
  <2>3. <<0..k, 0..n>> \in Less
    BY <2>1, <2>2 DEF StrictSubsetOrdering
  <2> QED
    BY <1>3, <2>3
<1> QED
  BY <1>4

KeysOf(list) == {list[i] : i \in DOMAIN list}
Distinct(list) == \A i, k \in DOMAIN list : list[i] = list[k] => i = k

\* What stays of the keys, after each of the first n.
Keeps(keys, gone, n, f) ==
    /\ f = [i \in 0..n |-> f[i]] /\ f[0] = <<>>
    /\ \A i \in 1..n : f[i] = IF keys[i] \in gone THEN f[i - 1] ELSE Append(f[i - 1], keys[i])

LEMMA KeepsOn ==
  ASSUME NEW keys, NEW gone, NEW n \in Nat
  PROVE  \E f : Keeps(keys, gone, n, f)
<1> DEFINE Stuck == {k \in Nat : ~\E f : Keeps(keys, gone, k, f)}
<1>1. ASSUME Stuck # {} PROVE FALSE
  <2>1. PICK k \in Stuck : \A j \in Stuck : k <= j
    BY <1>1, LeastNumber
  <2>2. k \in Nat /\ ~\E f : Keeps(keys, gone, k, f)
    OBVIOUS
  <2>3. CASE k = 0
    <3> DEFINE g == [i \in 0..k |-> <<>>]
    <3>1. Keeps(keys, gone, k, g)
      BY <2>3 DEF Keeps
    <3> QED
      BY <2>2, <3>1
  <2>4. CASE k # 0
    <3>1. k - 1 \in Nat /\ ~(k <= k - 1)
      BY <2>2, <2>4
    <3>2. k - 1 \notin Stuck
      <4> HIDE DEF Stuck
      <4> QED
        BY <2>1, <3>1
    <3>3. PICK f : Keeps(keys, gone, k - 1, f)
      BY <3>1, <3>2
    <3> DEFINE last == IF keys[k] \in gone THEN f[k - 1] ELSE Append(f[k - 1], keys[k])
               g == [i \in 0..k |-> IF i = k THEN last ELSE f[i]]
    <3>4. /\ 0 \in 0..k /\ 0 # k /\ k \in 0..k /\ k - 1 \in 0..k /\ k - 1 # k
          /\ \A i \in 1..k : i \in 0..k /\ i - 1 \in 0..k /\ i - 1 # k
                             /\ (i # k => i \in 1..k - 1)
      BY <2>2, <2>4
    <3>5. g[0] = <<>>
      BY <3>3, <3>4 DEF Keeps
    <3>6. ASSUME NEW i \in 1..k
          PROVE  g[i] = IF keys[i] \in gone THEN g[i - 1] ELSE Append(g[i - 1], keys[i])
      <4>1. g[i - 1] = f[i - 1]
        BY <3>4
      <4>2. CASE i = k
        BY <3>4, <4>1, <4>2
      <4>3. CASE i # k
        <5>1. f[i] = IF keys[i] \in gone THEN f[i - 1] ELSE Append(f[i - 1], keys[i])
          BY <3>3, <3>4, <4>3 DEF Keeps
        <5> QED
          BY <3>4, <4>1, <4>3, <5>1
      <4> QED
        BY <4>2, <4>3
    <3>7. Keeps(keys, gone, k, g)
      <4>1. g = [i \in 0..k |-> g[i]]
        OBVIOUS
      <4> HIDE DEF g
      <4> QED
        BY <3>5, <3>6, <4>1 DEF Keeps
    <3> QED
      BY <2>2, <3>7
  <2> QED
    BY <2>3, <2>4
<1> QED
  BY <1>1

LEMMA WithoutKeeps ==
  ASSUME NEW keys, NEW gone, Len(keys) \in Nat
  PROVE  \E f : Keeps(keys, gone, Len(keys), f) /\ Without(keys, gone) = f[Len(keys)]
<1> DEFINE n == Len(keys)
           Equation(f) == f = [i \in 0..n |->
               IF i = 0 THEN <<>>
               ELSE IF keys[i] \in gone THEN f[i - 1] ELSE Append(f[i - 1], keys[i])]
           kept == CHOOSE f : Equation(f)
<1>1. \E f : Equation(f)
  <2>1. PICK f : Keeps(keys, gone, n, f)
    BY KeepsOn
  <2>2. \A i \in 0..n : i # 0 => i \in 1..n
    OBVIOUS
  <2>3. \A i \in 0..n : f[i] = IF i = 0 THEN <<>>
                               ELSE IF keys[i] \in gone THEN f[i - 1]
                               ELSE Append(f[i - 1], keys[i])
    BY <2>1, <2>2 DEF Keeps
  <2>4. f = [i \in 0..n |-> f[i]]
    BY <2>1 DEF Keeps
  <2>5. [i \in 0..n |-> f[i]] = [i \in 0..n |->
            IF i = 0 THEN <<>>
            ELSE IF keys[i] \in gone THEN f[i - 1] ELSE Append(f[i - 1], keys[i])]
    BY <2>3
  <2> QED
    BY <2>4, <2>5
<1>2. Equation(kept)
  <2> HIDE DEF Equation
  <2> QED
    BY <1>1
<1>3. Without(keys, gone) = kept[n]
  BY DEF Without
<1> HIDE DEF kept
<1>4. \A i \in 0..n : kept[i] = IF i = 0 THEN <<>>
                                ELSE IF keys[i] \in gone THEN kept[i - 1]
                                ELSE Append(kept[i - 1], keys[i])
  BY <1>2
<1>5. kept = [i \in 0..n |-> kept[i]]
  BY <1>2
<1>6. 0 \in 0..n /\ \A i \in 1..n : i \in 0..n /\ i # 0
  OBVIOUS
<1>7. Keeps(keys, gone, n, kept)
  BY <1>4, <1>5, <1>6 DEF Keeps
<1> QED
  BY <1>3, <1>7

\* A key that is new goes to the end.
LEMMA KeysAppend ==
  ASSUME NEW keys \in Seq(Works), Distinct(keys), NEW w \in Works, w \notin KeysOf(keys)
  PROVE  /\ Append(keys, w) \in Seq(Works) /\ Distinct(Append(keys, w))
         /\ KeysOf(Append(keys, w)) = KeysOf(keys) \cup {w}
<1> DEFINE more == Append(keys, w)
           m == Len(keys)
<1>1. /\ m \in Nat /\ DOMAIN keys = 1..m
      /\ more \in Seq(Works) /\ DOMAIN more = 1..m + 1 /\ more[m + 1] = w
      /\ \A j \in 1..m : more[j] = keys[j]
  OBVIOUS
<1> HIDE DEF more, m
<1>2. (\A j \in 1..m : j \in 1..m + 1) /\ \A j \in 1..m + 1 : j \in 1..m \/ j = m + 1
  BY <1>1
<1>3. \A j \in 1..m : more[j] # w
  BY <1>1 DEF KeysOf
<1>4. Distinct(more)
  BY <1>1, <1>2, <1>3 DEF Distinct
<1>5. KeysOf(more) = KeysOf(keys) \cup {w}
  <2>1. m + 1 \in 1..m + 1
    BY <1>1
  <2> QED
    BY <1>1, <1>2, <2>1 DEF KeysOf
<1> QED
  BY <1>1, <1>4, <1>5 DEF more

\* The keys that are not gone stay, each once.
LEMMA KeysStay ==
  ASSUME NEW keys \in Seq(Works), NEW gone, Distinct(keys)
  PROVE  /\ Without(keys, gone) \in Seq(Works) /\ Distinct(Without(keys, gone))
         /\ KeysOf(Without(keys, gone)) = KeysOf(keys) \ gone
<1> DEFINE n == Len(keys)
<1>1. n \in Nat /\ DOMAIN keys = 1..n
  OBVIOUS
<1>2. PICK f : Keeps(keys, gone, n, f) /\ Without(keys, gone) = f[n]
  BY <1>1, WithoutKeeps
<1> DEFINE Right(i) == /\ f[i] \in Seq(Works) /\ Distinct(f[i])
                       /\ KeysOf(f[i]) = {keys[k] : k \in 1..i} \ gone
           Wrong == {i \in 0..n : ~Right(i)}
<1>3. ASSUME Wrong # {} PROVE FALSE
  <2>1. Wrong \subseteq Nat
    OBVIOUS
  <2>2. PICK i \in Wrong : \A j \in Wrong : i <= j
    <3> HIDE DEF Wrong
    <3> QED
      BY <1>3, <2>1, LeastNumber
  <2>3. i \in 0..n /\ ~Right(i)
    OBVIOUS
  <2>4. Right(0)
    <3> DEFINE none == <<>>
    <3>1. f[0] = none /\ none \in Seq(Works) /\ DOMAIN none = {}
      BY <1>2 DEF Keeps
    <3>2. {keys[j] : j \in 1..0} = {}
      OBVIOUS
    <3> HIDE DEF none
    <3>3. Distinct(none) /\ KeysOf(none) = {}
      BY <3>1 DEF Distinct, KeysOf
    <3> QED
      BY <3>1, <3>2, <3>3
  <2> DEFINE k == i - 1
  <2>5. i # 0
    BY <2>3, <2>4
  <2>6. k \in Nat /\ k \in 0..n /\ k + 1 = i /\ i \in 1..n /\ ~(i <= k)
    BY <1>1, <2>3, <2>5
  <2>7. Right(k)
    <3> HIDE DEF Right, k
    <3>1. k \notin Wrong
      <4> HIDE DEF Wrong
      <4> QED
        BY <2>2, <2>6
    <3> QED
      BY <2>6, <3>1
  <2>8. f[i] = IF keys[i] \in gone THEN f[k] ELSE Append(f[k], keys[i])
    BY <1>2, <2>6 DEF Keeps
  <2>9. {keys[j] : j \in 1..i} = {keys[j] : j \in 1..k} \cup {keys[i]}
    BY <2>6
  <2>10. keys[i] \in Works /\ keys[i] \notin {keys[j] : j \in 1..k}
    <3>1. \A j \in 1..k : j \in DOMAIN keys /\ j # i
      BY <1>1, <2>6
    <3> QED
      BY <1>1, <2>6, <3>1 DEF Distinct
  <2>11. CASE keys[i] \in gone
    BY <2>3, <2>7, <2>8, <2>9, <2>11
  <2>12. CASE keys[i] \notin gone
    <3> DEFINE old == f[k]
    <3>1. /\ old \in Seq(Works) /\ Distinct(old) /\ keys[i] \notin KeysOf(old)
          /\ KeysOf(old) = {keys[j] : j \in 1..k} \ gone
      BY <2>7, <2>10
    <3>2. f[i] = Append(old, keys[i])
      BY <2>8, <2>12
    <3> HIDE DEF old
    <3>3. /\ f[i] \in Seq(Works) /\ Distinct(f[i])
          /\ KeysOf(f[i]) = KeysOf(old) \cup {keys[i]}
      BY <2>10, <3>1, <3>2, KeysAppend
    <3> QED
      BY <2>3, <2>9, <2>12, <3>1, <3>3
  <2> QED
    BY <2>11, <2>12
<1>4. n \in 0..n
  BY <1>1
<1>5. Right(n)
  BY <1>3, <1>4
<1>6. KeysOf(keys) = {keys[k] : k \in 1..n}
  BY <1>1 DEF KeysOf
<1> QED
  BY <1>2, <1>5, <1>6

-----------------------------------------------------------------------------
(* The types, and the one dictionary lru and lockOf stand for              *)

LEMMA TypesInit == ASSUME WorkLocksAssumption, Init PROVE TypeOK
<1>1. lru \in Seq(Works) /\ DOMAIN lru = {}
  BY DEF Init
<1>2. {lru[i] : i \in DOMAIN lru} = {w \in Works : lockOf[w] # None}
  BY <1>1 DEF Init
<1> QED
  BY <1>1, <1>2 DEF Init, TypeOK

LEMMA KnownTypes ==
  ASSUME WorkLocksAssumption, TypeOK, NEW c \in Calls, NEW w \in Works, LookupKnown(c, w)
  PROVE  TypeOK'
<1> DEFINE others == Without(lru, {w})
<1>1. lru \in Seq(Works) /\ Distinct(lru) /\ KeysOf(lru) = {v \in Works : lockOf[v] # None}
  BY DEF TypeOK, Distinct, KeysOf
<1>2. /\ others \in Seq(Works) /\ Distinct(others)
      /\ KeysOf(others) = KeysOf(lru) \ {w}
  BY <1>1, KeysStay
<1>3. lru' = Append(others, w) /\ lockOf' = lockOf /\ lockOf[w] # None
  BY DEF LookupKnown
<1> HIDE DEF others
<1>4. lru' \in Seq(Works) /\ Distinct(lru') /\ KeysOf(lru') = KeysOf(others) \cup {w}
  BY <1>2, <1>3, KeysAppend
<1>5. KeysOf(lru') = {v \in Works : lockOf'[v] # None}
  BY <1>1, <1>2, <1>3, <1>4
<1>6. /\ owner' \in [Locks -> Calls \cup {None}] /\ lockOf' \in [Works -> Locks \cup {None}]
      /\ pc' \in [Calls -> {"idle", "handed", "inside"}]
      /\ work' \in [Calls -> Works \cup {None}] /\ handed' \in [Calls -> Locks \cup {None}]
  BY DEF LookupKnown, Hand, TypeOK
<1>7. evicted' \in BOOLEAN
  BY DEF LookupKnown, TypeOK
<1> QED
  BY <1>4, <1>5, <1>6, <1>7 DEF TypeOK, Distinct, KeysOf

LEMMA NewTypes ==
  ASSUME WorkLocksAssumption, TypeOK, NEW c \in Calls, NEW w \in Works, LookupNew(c, w)
  PROVE  TypeOK'
<1>1. lru \in Seq(Works) /\ Distinct(lru) /\ KeysOf(lru) = {v \in Works : lockOf[v] # None}
  BY DEF TypeOK, Distinct, KeysOf
<1> DEFINE keys == Append(lru, w)
           With(k) == [lockOf EXCEPT ![w] = k]
<1>2. PICK k \in Locks :
         /\ lru' = Without(keys, Evicted(keys, With(k)))
         /\ lockOf' = [v \in Works |-> IF v \in Evicted(keys, With(k)) THEN None
                                       ELSE With(k)[v]]
         /\ Hand(c, w, k)
  BY DEF LookupNew
<1> DEFINE locks == With(k)
           gone == Evicted(keys, locks)
<1>3. lru' = Without(keys, gone)
  BY <1>2
<1>4. lockOf' = [v \in Works |-> IF v \in gone THEN None ELSE locks[v]]
  BY <1>2
<1> HIDE DEF gone
<1>5. lockOf[w] = None /\ k # None
  BY DEF LookupNew, WorkLocksAssumption
<1>6. /\ keys \in Seq(Works) /\ Distinct(keys)
      /\ KeysOf(keys) = KeysOf(lru) \cup {w}
  BY <1>1, <1>5, KeysAppend
<1>7. /\ locks \in [Works -> Locks \cup {None}]
      /\ \A v \in Works : locks[v] # None <=> v \in KeysOf(keys)
  <2>1. locks[w] = k /\ \A v \in Works \ {w} : locks[v] = lockOf[v]
    BY DEF TypeOK
  <2> QED
    BY <1>1, <1>5, <1>6, <2>1 DEF TypeOK
<1> HIDE DEF keys, locks
<1>9. lru' \in Seq(Works) /\ Distinct(lru') /\ KeysOf(lru') = KeysOf(keys) \ gone
  BY <1>3, <1>6, KeysStay
<1>8. KeysOf(lru') \subseteq Works
  BY <1>9 DEF KeysOf
<1>10. KeysOf(lru') = {v \in Works : lockOf'[v] # None}
  BY <1>4, <1>7, <1>8, <1>9
<1>11. lockOf' \in [Works -> Locks \cup {None}]
  BY <1>4, <1>7
<1>12. /\ owner' \in [Locks -> Calls \cup {None}]
       /\ pc' \in [Calls -> {"idle", "handed", "inside"}]
       /\ work' \in [Calls -> Works \cup {None}] /\ handed' \in [Calls -> Locks \cup {None}]
  BY <1>2 DEF Hand, TypeOK
<1>13. evicted' \in BOOLEAN
  BY DEF LookupNew
<1> QED
  BY <1>9, <1>10, <1>11, <1>12, <1>13 DEF TypeOK, Distinct, KeysOf

LEMMA TypesStep == ASSUME WorkLocksAssumption, TypeOK, [Next]_vars PROVE TypeOK'
<1>1. ASSUME NEW c \in Calls, Acquire(c) PROVE TypeOK'
  <2>1. UNCHANGED <<lru, lockOf, evicted>>
    BY <1>1 DEF Acquire
  <2>2. /\ owner' \in [Locks -> Calls \cup {None}]
        /\ pc' \in [Calls -> {"idle", "handed", "inside"}]
        /\ work' \in [Calls -> Works \cup {None}] /\ handed' \in [Calls -> Locks \cup {None}]
    BY <1>1 DEF Acquire, TypeOK
  <2> QED
    BY <2>1, <2>2 DEF TypeOK
<1>2. ASSUME NEW c \in Calls, Release(c) PROVE TypeOK'
  <2>1. UNCHANGED <<lru, lockOf, evicted>>
    BY <1>2 DEF Release
  <2>2. /\ owner' \in [Locks -> Calls \cup {None}]
        /\ pc' \in [Calls -> {"idle", "handed", "inside"}]
        /\ work' \in [Calls -> Works \cup {None}] /\ handed' \in [Calls -> Locks \cup {None}]
    BY <1>2 DEF Release, TypeOK
  <2> QED
    BY <2>1, <2>2 DEF TypeOK
<1>3. CASE UNCHANGED vars
  BY <1>3 DEF vars, TypeOK
<1> QED
  BY <1>1, <1>2, <1>3, KnownTypes, NewTypes DEF Next

\* Whatever the size of the map: each work that has a lock is a key, once, and no other.
THEOREM MapIsOneDictionary == ASSUME WorkLocksAssumption PROVE Spec => []TypeOK
<1>1. Init => TypeOK
  BY TypesInit
<1>2. TypeOK /\ [Next]_vars => TypeOK'
  BY TypesStep
<1> QED
  BY <1>1, <1>2, PTL DEF Spec

=============================================================================
