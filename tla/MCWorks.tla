-------------------------------- MODULE MCWorks --------------------------------
(***************************************************************************)
(* Instances for TLC of what concurrent calls in works share: the tables   *)
(* and files of a work, and the map of work locks, with fewer entries than *)
(* works.  The two have no state in common, so a behaviour is one of one   *)
(* of them: part says which.                                               *)
(***************************************************************************)
EXTENDS Integers, Sequences, FiniteSets, TLC

CONSTANTS Callers, Works, Members, Host, Sessions, Chat, Names,  \* WorkTables
          LockedWorks, Locks, MaxEntries,                        \* WorkLocks
          None

VARIABLES part,
          db, disk, at, owner, crossed, raced, moved,
          lru, lockOf, holder, where, work, handed, evicted

tableVars == <<db, disk, at, owner, crossed, raced, moved>>
lockVars == <<lru, lockOf, holder, where, work, handed, evicted>>

Tables == INSTANCE WorkTables
Map == INSTANCE WorkLocks WITH Calls <- Callers, Works <- LockedWorks, owner <- holder,
                               pc <- where

ASSUME WorksAssumption == Tables!TableAssumption /\ Map!WorkLocksAssumption

\* A part that does not move stands at one of its initial states.
Init == /\ part \in {"tables", "locks"}
        /\ Tables!Init /\ (part # "tables" => db.works = {})
        /\ Map!Init

Next == \/ part = "tables" /\ Tables!Next /\ UNCHANGED <<part, lockVars>>
        \/ part = "locks" /\ Map!Next /\ UNCHANGED <<part, tableVars>>

Spec == Init /\ [][Next]_<<part, tableVars, lockVars>>

\* Calls, sessions and names are interchangeable.
WorksSymmetry == Permutations(Callers) \cup Permutations(Sessions) \cup Permutations(Names)

-----------------------------------------------------------------------------
(* The properties of the parts, stated in their modules *)

\* Every variable of every part keeps its type.
TypesOK == CASE part = "tables" -> Tables!TypeOK
             [] part = "locks" -> Map!TypeOK

\* Tables: a deletion that nothing ran across leaves nothing of the work.
NothingLeft == part = "tables" => Tables!NothingLeft

\* Tables: an artifact whose row stands has its file.
RowsHaveFiles == part = "tables" => Tables!RowsHaveFiles

\* Locks: the map implements one mutex per work, until a lock that was handed out
\* is evicted before it is acquired.
ImplementsMutex == Map!ImplementsMutex
=============================================================================
