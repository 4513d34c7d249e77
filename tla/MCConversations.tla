---------------------------- MODULE MCConversations ----------------------------
(***************************************************************************)
(* Instances for TLC of two services that work on a conversation next to   *)
(* its calls: the delivery of planned replies and the long-term memory.    *)
(* They have no state in common, so a behaviour is one of one of them: part *)
(* says which.                                                             *)
(***************************************************************************)
EXTENDS Integers, Sequences, FiniteSets, TLC

CONSTANTS Turns, Pollers, Pausers, MaxParts, Blank,              \* ConversationDelivery
          Jobs, Sessions, Subjects, Contents, Shared, MaxRows,   \* LongTermMemory
          Parts                                                  \* the parts a run is of

VARIABLES part,
          store, pending, delivered, paused, pc, ref, snapshot, mode, keep, head,
          size, told, owner, hushed, overlaps,
          rows, job, overlap, renamed, broken

deliveryVars == <<store, pending, delivered, paused, pc, ref, snapshot, mode, keep, head,
                  size, told, owner, hushed, overlaps>>
memoryVars == <<rows, job, overlap, renamed, broken>>

Delivery == INSTANCE ConversationDelivery
Memory == INSTANCE LongTermMemory

ASSUME ConversationsAssumption ==
    /\ Delivery!DeliveryAssumption /\ Memory!MemoryAssumption
    /\ Parts \subseteq {"delivery", "memory"}

Init == part \in Parts /\ Delivery!Init /\ Memory!Init

Next == \/ part = "delivery" /\ Delivery!Next /\ UNCHANGED <<part, memoryVars>>
        \/ part = "memory" /\ Memory!Next /\ UNCHANGED <<part, deliveryVars>>

Spec == Init /\ [][Next]_<<part, deliveryVars, memoryVars>>

\* Turns and jobs share their names in the instance, and so do polls and
\* contents: two permutations serve both parts.
ConversationSymmetry ==
    Permutations(Jobs) \cup Permutations(Contents) \cup Permutations(Sessions)
    \cup Permutations(Subjects)

\* Constraint of the run: of what the properties make exceptions for, one thing
\* happens, and nothing is looked at after a second one.
OneException ==
    /\ part = "delivery" => Cardinality(overlaps) <= 1
    /\ part = "memory" => ~(overlap /\ renamed) /\ ~(overlap /\ broken) /\ ~(renamed /\ broken)

-----------------------------------------------------------------------------
(* The properties of the parts, stated in their modules *)

\* Every variable of every part keeps its type.
TypesOK == CASE part = "delivery" -> Delivery!TypeOK
             [] part = "memory" -> Memory!TypeOK

\* Delivery: after a new topic nothing of the old one is queued.
ResetForgets == part = "delivery" => Delivery!ResetForgets

\* Delivery: no piece is skipped while polls do not overlap.
NoPieceSkipped == part = "delivery" => Delivery!NoPieceSkipped

\* Delivery: one call at a time, each piece is told once and in order, and what
\* was told and what is queued is the reply.
NothingLost == part = "delivery" => Delivery!NothingLost

\* Delivery: after a pause nothing is told before the user's next message.
PauseHolds == Delivery!PauseHolds

\* Memory: a job changes memories of its own session, shared ones, and the one it
\* was given the id of.
OwnSessionOnly == Memory!OwnSessionOnly

\* Memory: a memory is superseded for another one.
SupersededHasSuccessor == part = "memory" => Memory!SupersededHasSuccessor

\* Memory: while no two jobs add to one subject, a session has one active memory
\* of it.
OneFactPerSubject == part = "memory" => Memory!OneFactPerSubject
=============================================================================
