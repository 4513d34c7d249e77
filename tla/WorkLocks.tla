------------------------------- MODULE WorkLocks -------------------------------
(***************************************************************************)
(* The map of work locks of one ChatService: _work_lock hands a call the   *)
(* lock object of a work, creating it and pruning the map if there is none; *)
(* the call acquires that object later, after the guard of the map was     *)
(* released.  Lock objects are members of Locks; an object nothing refers  *)
(* to may be allocated again.                                              *)
(***************************************************************************)
EXTENDS Naturals, Sequences, FiniteSets

CONSTANTS
    Calls,       \* threads that call chat() or submit_task_input()
    Works,
    Locks,       \* lock objects
    MaxEntries,  \* max_entries of _prune_work_locks, 1024 in the code
    None

WorkLocksAssumption ==
    /\ MaxEntries \in Nat \ {0}
    /\ IsFiniteSet(Works)
    /\ None \notin Calls \cup Locks \cup Works

VARIABLES
    lru,     \* keys of _work_locks, least recently used first
    lockOf,  \* the lock object _work_locks has for each work
    owner,   \* who holds each lock object
    pc,      \* where each call is
    work,    \* the work it is for
    handed,  \* the lock object it was handed
    evicted  \* history: a lock was evicted between its hand-out and its acquisition

vars == <<lru, lockOf, owner, pc, work, handed, evicted>>

\* Every variable keeps its type; lru and lockOf stay what they stand for, one ordered
\* dictionary: each work that has a lock is a key, once.
TypeOK ==
    /\ lru \in Seq(Works)
    /\ \A i, k \in DOMAIN lru : lru[i] = lru[k] => i = k
    /\ {lru[i] : i \in DOMAIN lru} = {w \in Works : lockOf[w] # None}
    /\ lockOf \in [Works -> Locks \cup {None}]
    /\ owner \in [Locks -> Calls \cup {None}]
    /\ pc \in [Calls -> {"idle", "handed", "inside"}]
    /\ work \in [Calls -> Works \cup {None}]
    /\ handed \in [Calls -> Locks \cup {None}]
    /\ evicted \in BOOLEAN

Init ==
    /\ lru = <<>>
    /\ lockOf = [w \in Works |-> None]
    /\ owner = [k \in Locks |-> None]
    /\ pc = [c \in Calls |-> "idle"]
    /\ work = [c \in Calls |-> None]
    /\ handed = [c \in Calls |-> None]
    /\ evicted = FALSE

-----------------------------------------------------------------------------
Unreferenced(k) ==
    (\A w \in Works : lockOf[w] # k) /\ (\A c \in Calls : handed[c] # k)

\* The keys that stay, in their order: those of the first ones, and so on to the last.
Without(keys, gone) ==
    LET kept[i \in 0..Len(keys)] ==
            IF i = 0 THEN <<>>
            ELSE IF keys[i] \in gone THEN kept[i - 1] ELSE Append(kept[i - 1], keys[i])
    IN  kept[Len(keys)]

\* slip: lock and work mixed up
Hand_Swapped(c, w, k) ==
    /\ handed' = [handed EXCEPT ![c] = w]
    /\ work' = [work EXCEPT ![c] = k]
    /\ pc' = [pc EXCEPT ![c] = "handed"]
    /\ UNCHANGED owner

Hand(c, w, k) ==
    /\ handed' = [handed EXCEPT ![c] = k]
    /\ work' = [work EXCEPT ![c] = w]
    /\ pc' = [pc EXCEPT ![c] = "handed"]
    /\ UNCHANGED owner

\* The lock of w exists: it becomes the most recently used.
LookupKnown(c, w) ==
    /\ pc[c] = "idle"
    /\ lockOf[w] # None
    /\ lru' = Append(Without(lru, {w}), w)
    /\ Hand(c, w, lockOf[w])
    /\ UNCHANGED <<lockOf, evicted>>

Entries(locks) == {w \in Works : locks[w] # None}

\* slip: held locks are evicted as well
Evictable_Any(locks) == Entries(locks)
\* lock.locked() is false
Evictable(locks) == {w \in Entries(locks) : owner[locks[w]] = None}

\* How many entries are too many.
Surplus(locks) == IF Cardinality(Entries(locks)) > MaxEntries
                  THEN Cardinality(Entries(locks)) - MaxEntries ELSE 0

Older(keys, w) == {keys[i] : i \in {k \in DOMAIN keys : \E j \in DOMAIN keys :
                                                     k < j /\ keys[j] = w}}

\* _prune_work_locks: the first unlocked keys, as many as are too many.
Evicted(keys, locks) ==
    {w \in Evictable(locks) : Cardinality(Evictable(locks) \cap Older(keys, w)) < Surplus(locks)}

\* The lock of w is new: it is added, and the map pruned, w's own entry too if
\* every other lock is held.
LookupNew(c, w) ==
    /\ pc[c] = "idle"
    /\ lockOf[w] = None
    /\ \E k \in Locks :
         /\ Unreferenced(k)
         /\ LET keys == Append(lru, w)
                locks == [lockOf EXCEPT ![w] = k]
                gone == Evicted(keys, locks)
            IN  /\ lru' = Without(keys, gone)
                /\ lockOf' = [v \in Works |-> IF v \in gone THEN None ELSE locks[v]]
                /\ evicted' = \/ evicted \/ w \in gone
                              \/ \E d \in Calls, v \in gone :
                                   pc[d] = "handed" /\ handed[d] = locks[v]
         /\ Hand(c, w, k)

\* slip: the lock is not waited for
Free_Ignored(c) == TRUE
Free(c) == owner[handed[c]] = None

Acquire(c) ==
    /\ pc[c] = "handed"
    /\ Free(c)
    /\ owner' = [owner EXCEPT ![handed[c]] = c]
    /\ pc' = [pc EXCEPT ![c] = "inside"]
    /\ UNCHANGED <<lru, lockOf, work, handed, evicted>>

Release(c) ==
    /\ pc[c] = "inside"
    /\ owner' = [owner EXCEPT ![handed[c]] = None]
    /\ pc' = [pc EXCEPT ![c] = "idle"]
    /\ work' = [work EXCEPT ![c] = None]
    /\ handed' = [handed EXCEPT ![c] = None]
    /\ UNCHANGED <<lru, lockOf, evicted>>

Next ==
    \E c \in Calls :
        \/ \E w \in Works : LookupKnown(c, w) \/ LookupNew(c, w)
        \/ Acquire(c)
        \/ Release(c)

Spec == Init /\ [][Next]_vars

-----------------------------------------------------------------------------
(* Properties                                                              *)

\* "Evict idle (unlocked) LRU entries": no call has been handed an evicted lock.
EvictsOnlyIdle ==
    [][\A w \in Works :
         lockOf[w] # None /\ lockOf'[w] # lockOf[w]
           => \A c \in Calls : handed[c] # lockOf[w]]_vars

\* Seen from outside: the call inside each work.
Inside ==
    [w \in Works |->
       IF \E c \in Calls : pc[c] = "inside" /\ work[c] = w
       THEN CHOOSE c \in Calls : pc[c] = "inside" /\ work[c] = w ELSE None]

Mutex == INSTANCE WorkMutex WITH inside <- Inside

\* A map of any size implements one mutex per work until a lock is evicted between its
\* hand-out and its acquisition: pruning and new lock objects let no second call in.
\* (A step of other parts is let through first, which spares TLC half of its time.)
ImplementsMutex == Mutex!Init /\ [][UNCHANGED vars \/ evicted' \/ Mutex!Next]_Inside

=============================================================================
