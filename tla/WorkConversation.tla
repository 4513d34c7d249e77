--------------------------- MODULE WorkConversation ---------------------------
(***************************************************************************)
(* A work as its user knows it: requests that run, ask, and end, one turn  *)
(* at a time.  A turn is one message or answer and what comes of it; that  *)
(* the code writes it in a dozen transactions cannot be told from here.    *)
(***************************************************************************)
EXTENDS Sequences

CONSTANTS Requests, Works, None

VARIABLES
    workOf,  \* the work of each request, None before it is opened
    stage,   \* where the request stands
    told     \* the outcomes its user was told

vars == <<workOf, stage, told>>

Outcomes == {"waiting_input", "done", "failed"}

Init ==
    /\ workOf = [r \in Requests |-> None]
    /\ stage = [r \in Requests |-> "absent"]
    /\ told = [r \in Requests |-> <<>>]

\* No turn of w is under way.
Calm(w) == \A r \in Requests : workOf[r] = w => stage[r] # "running"

Become(r, there) == stage' = [stage EXCEPT ![r] = there]

\* A message opens a request.
Open(r, w) ==
    /\ stage[r] = "absent" /\ Calm(w)
    /\ workOf' = [workOf EXCEPT ![r] = w]
    /\ Become(r, "running")
    /\ UNCHANGED told

\* Its turn comes to a question or to an end, of which the user is told.
Tell(r, outcome) ==
    /\ stage[r] = "running"
    /\ Become(r, outcome)
    /\ told' = [told EXCEPT ![r] = Append(@, outcome)]
    /\ UNCHANGED workOf

\* A message answers its question.
Answer(r) ==
    /\ stage[r] = "waiting_input" /\ Calm(workOf[r])
    /\ Become(r, "running")
    /\ UNCHANGED <<workOf, told>>

\* "stop": the question will not be answered.
Stop(r) ==
    /\ stage[r] = "waiting_input" /\ Calm(workOf[r])
    /\ Become(r, "cancelled")
    /\ UNCHANGED <<workOf, told>>

Next ==
    \E r \in Requests :
        \/ \E w \in Works : Open(r, w)
        \/ \E outcome \in Outcomes : Tell(r, outcome)
        \/ Answer(r)
        \/ Stop(r)

Spec == Init /\ [][Next]_vars

=============================================================================
