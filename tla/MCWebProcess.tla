------------------------------ MODULE MCWebProcess ------------------------------
(***************************************************************************)
(* An instance for TLC of what runs in the web process: the calls of       *)
(* TaskLifecycle, whose definitions keep their names here, and the event   *)
(* bus.  The two share no state, so a behaviour is one of one of them:     *)
(* part says which.                                                        *)
(***************************************************************************)
EXTENDS TaskLifecycle, TLC

CONSTANTS Clients, Writers, Capacity, MaxChanges   \* EventBus

VARIABLES part, version, committed, published, listed, stream, queue, joined, taken,
          armed, seen

busVars == <<version, committed, published, listed, stream, queue, joined, taken,
             armed, seen>>

Bus == INSTANCE EventBus

ASSUME WebAssumption == Bus!EventBusAssumption

WebInit == part \in {"tasks", "bus"} /\ Init /\ Bus!Init

WebNext == \/ part = "tasks" /\ Next /\ UNCHANGED <<part, busVars>>
           \/ part = "bus" /\ Bus!Next /\ UNCHANGED <<part, vars>>

\* The bus at rest enables nothing its fairness asks for.
WebSpec == WebInit /\ [][WebNext]_<<part, vars, busVars>> /\ Bus!Fairness

\* Calls are interchangeable.  The one liveness property is about the bus, of
\* whose states the symmetry leaves every one as it is.
CallSymmetry == Permutations(Calls)

-----------------------------------------------------------------------------
(* The properties of the event bus, stated in its module *)

\* An open connection receives a gap-free stretch of the events.
NoGaps == part = "bus" => Bus!NoGaps

\* A change committed while a page is subscribed reaches it, unless the bus
\* drops the page.
ChangeReachesPage == Bus!ChangeReachesPage
=============================================================================
