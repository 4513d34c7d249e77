------------------------------- MODULE WorkMutex -------------------------------
(***************************************************************************)
(* What the rest of ChatService takes _work_lock for: at any time at most  *)
(* one call is inside each work.  TaskLifecycle's holder is this mutex.    *)
(***************************************************************************)
CONSTANTS Calls, Works, None

VARIABLE inside   \* the call inside each work

Init == inside = [w \in Works |-> None]

Enter(c, w) == inside[w] = None /\ inside' = [inside EXCEPT ![w] = c]
Leave(w) == inside[w] # None /\ inside' = [inside EXCEPT ![w] = None]

Next == \E w \in Works : Leave(w) \/ \E c \in Calls : Enter(c, w)

Spec == Init /\ [][Next]_inside

=============================================================================
