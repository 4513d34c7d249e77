-------------------------- MODULE TaskLifecycleProofs --------------------------
(***************************************************************************)
(* Proofs about TaskLifecycle, for any calls, works and processes, every   *)
(* operation included.                                                     *)
(***************************************************************************)
EXTENDS TaskLifecycle, TLAPS

\* A call that writes an outcome has one: what makes TypeOK inductive.
OutcomeKnown ==
    \A c \in Calls :
        pc[c] \in {"park", "mark", "settle request", "settle root", "notify"}
            => verdict[c] \in {"done", "failed", "ask", "blank"}

\* A call that has arrived knows its process and its work.
PlaceKnown ==
    \A c \in Calls : pc[c] # "idle" =>
        job[c].proc \in Procs /\ job[c].work \in Works

\* A task exists only for a request whose call has arrived.
TasksOfCalls ==
    \A r \in Calls : pc[r] = "idle" => root[r] = "absent" /\ manager[r] = "absent"

\* A call works on a request whose call has arrived.
AboutArrived == \A c \in Calls : pc[c] # "idle" => pc[about[c]] # "idle"

\* A locking call that is inside holds the lock of its place.
LockHeld == \A c \in Calls : Busy(c) /\ Locking(c) => holder[Place(c)] = c

\* A call that has not got past opening its own request.
Opens(c) ==
    \/ pc[c] \in {"find", "create request", "create root", "open request", "open root",
                  "run", "delegate", "start manager"}
    \/ pc[c] = "lock" /\ job[c].op = "chat"

\* Until then it works on that request and no other.
OpensOwn == \A c \in Calls : Opens(c) => about[c] = c

TypeInv == TypeOK /\ OutcomeKnown
ArrivalInv == PlaceKnown /\ TasksOfCalls /\ AboutArrived

-----------------------------------------------------------------------------
LEMMA TypeInit == Init => TypeInv
BY LifecycleAssumption
DEF Init, TypeInv, TypeOK, OutcomeKnown, Active, Final, TaskStatus, RequestStatus,
   Outside,
    Operations, Jobs, Verdicts

LEMMA TypeStep == TypeInv /\ [Next]_vars => TypeOK'
<1> SUFFICES ASSUME TypeOK, OutcomeKnown, [Next]_vars PROVE TypeOK'
  BY DEF TypeInv
<1> USE DEF TypeOK
<1>1. ASSUME NEW c \in Calls, StartChat(c) PROVE TypeOK'
  <2>1. \E x \in Jobs : job' = [job EXCEPT ![c] = x]
    BY <1>1, LifecycleAssumption DEF StartChat, Arrive, Jobs
  <2>2. \E x \in Calls : about' = [about EXCEPT ![c] = x]
    BY <1>1 DEF StartChat, Arrive
  <2>3. \E x \in Outside \cup Inside : pc' = [pc EXCEPT ![c] = x]
    BY <1>1 DEF StartChat, Arrive, Goto, Outside, Inside
  <2>4. UNCHANGED <<request, root, manager, marker, pending, created, holder, target,
                    verdict, asks, answers, notices>>
    BY <1>1 DEF StartChat, Arrive, tables, locals, history
  <2> QED
    BY <2>1, <2>2, <2>3, <2>4
<1>2. ASSUME NEW c \in Calls, StartSubmit(c) PROVE TypeOK'
  <2>1. \E x \in Jobs : job' = [job EXCEPT ![c] = x]
    BY <1>2, LifecycleAssumption DEF StartSubmit, Arrive, Jobs
  <2>2. \E x \in Calls : about' = [about EXCEPT ![c] = x]
    BY <1>2 DEF StartSubmit, Arrive
  <2>3. \E x \in Outside \cup Inside : pc' = [pc EXCEPT ![c] = x]
    BY <1>2 DEF StartSubmit, Arrive, Goto, Outside, Inside
  <2>4. UNCHANGED <<request, root, manager, marker, pending, created, holder, target,
                    verdict, asks, answers, notices>>
    BY <1>2 DEF StartSubmit, Arrive, tables, locals, history
  <2> QED
    BY <2>1, <2>2, <2>3, <2>4
<1>3. ASSUME NEW c \in Calls, StartRetry(c) PROVE TypeOK'
  <2>1. \E x \in Jobs : job' = [job EXCEPT ![c] = x]
    BY <1>3, LifecycleAssumption DEF StartRetry, Arrive, Jobs
  <2>2. \E x \in Calls : about' = [about EXCEPT ![c] = x]
    BY <1>3 DEF StartRetry, Arrive
  <2>3. \E x \in Inside : pc' = [pc EXCEPT ![c] = x]
    BY <1>3 DEF StartRetry, Arrive, Goto, Inside
  <2>4. UNCHANGED <<request, root, manager, marker, pending, created, holder, target,
                    verdict, asks, answers, notices>>
    BY <1>3 DEF StartRetry, Arrive, tables, locals, history
  <2> QED
    BY <2>1, <2>2, <2>3, <2>4
<1>4. ASSUME NEW c \in Calls, StartCancel(c) PROVE TypeOK'
  <2>1. \E x \in Jobs : job' = [job EXCEPT ![c] = x]
    BY <1>4, LifecycleAssumption DEF StartCancel, Arrive, Jobs
  <2>2. \E x \in Calls : about' = [about EXCEPT ![c] = x]
    BY <1>4 DEF StartCancel, Arrive
  <2>3. \E x \in {"manager", "root"} : target' = [target EXCEPT ![c] = x]
    BY <1>4 DEF StartCancel, Arrive
  <2>4. \E x \in Inside : pc' = [pc EXCEPT ![c] = x]
    BY <1>4 DEF StartCancel, Arrive, Goto, Inside
  <2>5. UNCHANGED <<request, root, manager, marker, pending, created, holder,
                    verdict, asks, answers, notices>>
    BY <1>4 DEF StartCancel, Arrive, tables, locals, history
  <2> QED
    BY <2>1, <2>2, <2>3, <2>4, <2>5
<1>5. ASSUME NEW c \in Calls, AcquireLock(c) PROVE TypeOK'
  <2>1. holder' = [holder EXCEPT ![Place(c)] = c]
    BY <1>5 DEF AcquireLock
  <2>2. \E x \in Inside : pc' = [pc EXCEPT ![c] = x]
    BY <1>5 DEF AcquireLock, Goto, Inside, GotoIf
  <2>3. UNCHANGED <<request, root, manager, marker, pending, created, job, about,
                    target, verdict, asks, answers, notices>>
    BY <1>5 DEF AcquireLock, tables, locals, history
  <2>4. holder' \in [Procs \X Works -> Calls \cup {None}]
    BY <2>1 DEF TypeOK
  <2> QED
    BY <2>4, <2>2, <2>3
<1>6. ASSUME NEW c \in Calls, FindPending(c) PROVE TypeOK'
  <2>1. \/ UNCHANGED about
       \/ \E x \in Calls : about' = [about EXCEPT ![c] = x]
    BY <1>6 DEF FindPending
  <2>2. \E x \in Inside : pc' = [pc EXCEPT ![c] = x]
    BY <1>6 DEF FindPending, Goto, Inside, GotoIf
  <2>3. UNCHANGED <<request, root, manager, marker, pending, created, holder, job,
                    target, verdict, asks, answers, notices>>
    BY <1>6 DEF FindPending, tables, locals, history
  <2>4. about' \in [Calls -> Calls]
    BY <2>1
  <2> QED
    BY <2>4, <2>2, <2>3
<1>7. ASSUME NEW c \in Calls, CreateRequest(c) PROVE TypeOK'
  <2>1. \E x \in RequestStatus : request' = [request EXCEPT ![c] = x]
    BY <1>7 DEF CreateRequest, RequestStatus
  <2>2. \E x \in Inside : pc' = [pc EXCEPT ![c] = x]
    BY <1>7 DEF CreateRequest, Goto, Inside
  <2>3. UNCHANGED <<root, manager, marker, pending, created, holder, job, about,
                    target, verdict, asks, answers, notices>>
    BY <1>7 DEF CreateRequest, tables, locals, history
  <2> QED
    BY <2>1, <2>2, <2>3
<1>8. ASSUME NEW c \in Calls, CreateRoot(c) PROVE TypeOK'
  <2>1. \E x \in TaskStatus : root' = [root EXCEPT ![c] = x]
    BY <1>8 DEF CreateRoot, TaskStatus, Active, Final
  <2>2. created' = Append(created, c)
    BY <1>8 DEF CreateRoot
  <2>3. \E x \in Inside : pc' = [pc EXCEPT ![c] = x]
    BY <1>8 DEF CreateRoot, Goto, Inside
  <2>4. UNCHANGED <<request, manager, marker, pending, holder, job, about, target,
                    verdict, asks, answers, notices>>
    BY <1>8 DEF CreateRoot, tables, locals, history
  <2> QED
    BY <2>1, <2>2, <2>3, <2>4
<1>9. ASSUME NEW c \in Calls, OpenRequest(c) PROVE TypeOK'
  <2>1. \E x \in RequestStatus : request' = [request EXCEPT ![c] = x]
    BY <1>9 DEF OpenRequest, RequestStatus
  <2>2. \E x \in Inside : pc' = [pc EXCEPT ![c] = x]
    BY <1>9 DEF OpenRequest, Goto, Inside
  <2>3. UNCHANGED <<root, manager, marker, pending, created, holder, job, about,
                    target, verdict, asks, answers, notices>>
    BY <1>9 DEF OpenRequest, tables, locals, history
  <2> QED
    BY <2>1, <2>2, <2>3
<1>10. ASSUME NEW c \in Calls, OpenRoot(c) PROVE TypeOK'
  <2>1. \E x \in TaskStatus : root' = [root EXCEPT ![c] = x]
    BY <1>10 DEF OpenRoot, TaskStatus, Active, Final
  <2>2. \E x \in Inside : pc' = [pc EXCEPT ![c] = x]
    BY <1>10 DEF OpenRoot, Goto, Inside, GotoIf
  <2>3. UNCHANGED <<request, manager, marker, pending, created, holder, job, about,
                    target, verdict, asks, answers, notices>>
    BY <1>10 DEF OpenRoot, tables, locals, history
  <2> QED
    BY <2>1, <2>2, <2>3
<1>11. ASSUME NEW c \in Calls, RunDirect(c) PROVE TypeOK'
  <2>1. \E x \in Verdicts : verdict' = [verdict EXCEPT ![c] = x]
    BY <1>11 DEF RunDirect, Verdicts
  <2>2. \E x \in Inside : pc' = [pc EXCEPT ![c] = x]
    BY <1>11 DEF RunDirect, Goto, Inside
  <2>3. UNCHANGED <<request, root, manager, marker, pending, created, holder, job,
                    about, target, asks, answers, notices>>
    BY <1>11 DEF RunDirect, tables, locals, history
  <2> QED
    BY <2>1, <2>2, <2>3
<1>12. ASSUME NEW c \in Calls, Delegate(c) PROVE TypeOK'
  <2>1. \E x \in TaskStatus : manager' = [manager EXCEPT ![c] = x]
    BY <1>12 DEF Delegate, TaskStatus, Active, Final
  <2>2. \E x \in Inside : pc' = [pc EXCEPT ![c] = x]
    BY <1>12 DEF Delegate, Goto, Inside
  <2>3. UNCHANGED <<request, root, marker, pending, created, holder, job, about,
                    target, verdict, asks, answers, notices>>
    BY <1>12 DEF Delegate, tables, locals, history
  <2> QED
    BY <2>1, <2>2, <2>3
<1>13. ASSUME NEW c \in Calls, StartManager(c) PROVE TypeOK'
  <2>1. \E x \in TaskStatus : manager' = [manager EXCEPT ![c] = x]
    BY <1>13 DEF StartManager, TaskStatus, Active, Final
  <2>2. \E x \in Inside : pc' = [pc EXCEPT ![c] = x]
    BY <1>13 DEF StartManager, Goto, Inside
  <2>3. UNCHANGED <<request, root, marker, pending, created, holder, job, about,
                    target, verdict, asks, answers, notices>>
    BY <1>13 DEF StartManager, tables, locals, history
  <2> QED
    BY <2>1, <2>2, <2>3
<1>14. ASSUME NEW c \in Calls, GroupChatEnds(c) PROVE TypeOK'
  <2>1. \E x \in Verdicts : verdict' = [verdict EXCEPT ![c] = x]
    BY <1>14 DEF GroupChatEnds, Verdicts
  <2>2. \E x \in TaskStatus : manager' = [manager EXCEPT ![about[c]] = x]
    BY <1>14 DEF GroupChatEnds, TaskStatus, Active, Final
  <2>3. \E x \in Inside : pc' = [pc EXCEPT ![c] = x]
    BY <1>14 DEF GroupChatEnds, Goto, Inside
  <2>4. UNCHANGED <<request, root, marker, pending, created, holder, job, about,
                    target, asks, answers, notices>>
    BY <1>14 DEF GroupChatEnds, tables, locals, history
  <2> QED
    BY <2>1, <2>2, <2>3, <2>4
<1>15. ASSUME NEW c \in Calls, GroupChatAsks(c) PROVE TypeOK'
  <2>1. \E x \in Verdicts : verdict' = [verdict EXCEPT ![c] = x]
    BY <1>15 DEF GroupChatAsks, Verdicts
  <2>2. asks' = [asks EXCEPT ![about[c]] = asks[about[c]] + 1]
    BY <1>15 DEF GroupChatAsks
  <2>3. pending' = [pending EXCEPT ![about[c]] = asks[about[c]] + 1]
    BY <1>15 DEF GroupChatAsks
  <2>4. \E x \in Inside : pc' = [pc EXCEPT ![c] = x]
    BY <1>15 DEF GroupChatAsks, Goto, Inside
  <2>5. UNCHANGED <<request, root, manager, marker, created, holder, job, about,
                    target, answers, notices>>
    BY <1>15 DEF GroupChatAsks, tables, locals, history
  <2>6. asks' \in [Calls -> Nat]
    BY <2>2
  <2>7. pending' \in [Calls -> Nat]
    BY <2>3
  <2> QED
    BY <2>1, <2>6, <2>7, <2>4, <2>5
<1>16. ASSUME NEW c \in Calls, Park(c) PROVE TypeOK'
  <2>1. \E x \in TaskStatus : manager' = [manager EXCEPT ![about[c]] = x]
    BY <1>16 DEF Park, TaskStatus, Active, Final
  <2>2. \E x \in Inside : pc' = [pc EXCEPT ![c] = x]
    BY <1>16 DEF Park, Goto, Inside
  <2>3. UNCHANGED <<request, root, marker, pending, created, holder, job, about,
                    target, verdict, asks, answers, notices>>
    BY <1>16 DEF Park, tables, locals, history
  <2> QED
    BY <2>1, <2>2, <2>3
<1>17. ASSUME NEW c \in Calls, Mark(c) PROVE TypeOK'
  <2>1. \E x \in BOOLEAN : marker' = [marker EXCEPT ![about[c]] = x]
    BY <1>17 DEF Mark, MarkerAfter, Verdicts
  <2>2. \E x \in Inside : pc' = [pc EXCEPT ![c] = x]
    BY <1>17 DEF Mark, Goto, Inside
  <2>3. UNCHANGED <<request, root, manager, pending, created, holder, job, about,
                    target, verdict, asks, answers, notices>>
    BY <1>17 DEF Mark, tables, locals, history
  <2> QED
    BY <2>1, <2>2, <2>3
<1>18. ASSUME NEW c \in Calls, SettleRequest(c) PROVE TypeOK'
  <2>1. \E x \in RequestStatus : request' = [request EXCEPT ![about[c]] = x]
    BY <1>18 DEF SettleRequest, RequestStatus, RequestStatusOf
  <2>2. \E x \in Inside : pc' = [pc EXCEPT ![c] = x]
    BY <1>18 DEF SettleRequest, Goto, Inside
  <2>3. UNCHANGED <<root, manager, marker, pending, created, holder, job, about,
                    target, verdict, asks, answers, notices>>
    BY <1>18 DEF SettleRequest, tables, locals, history
  <2> QED
    BY <2>1, <2>2, <2>3
<1>19. ASSUME NEW c \in Calls, SettleRoot(c) PROVE TypeOK'
  <2>1. \E x \in TaskStatus : root' = [root EXCEPT ![about[c]] = x]
    BY <1>19 DEF SettleRoot, TaskStatus, Active, Final, Outcome, OutcomeKnown, At
  <2>2. \E x \in Inside : pc' = [pc EXCEPT ![c] = x]
    BY <1>19 DEF SettleRoot, Goto, Inside
  <2>3. UNCHANGED <<request, manager, marker, pending, created, holder, job, about,
                    target, verdict, asks, answers, notices>>
    BY <1>19 DEF SettleRoot, tables, locals, history
  <2> QED
    BY <2>1, <2>2, <2>3
<1>20. ASSUME NEW c \in Calls, Notify(c) PROVE TypeOK'
  <2>1. \E x \in Seq(TaskStatus) : notices' = [notices EXCEPT ![about[c]] = x]
    <3>1. notices[about[c]] \in Seq(TaskStatus)
      OBVIOUS
    <3>2. Announced(c) => Append(notices[about[c]], Outcome(c)) \in Seq(TaskStatus)
      BY <3>1 DEF Announced, TaskStatus, Active, Final
    <3> QED
      BY <1>20, <3>1, <3>2 DEF Notify
  <2>2. \/ UNCHANGED holder
       \/ holder' = [holder EXCEPT ![Place(c)] = None]
    BY <1>20 DEF Notify, Release
  <2>3. \E x \in Outside \cup Inside : pc' = [pc EXCEPT ![c] = x]
    BY <1>20 DEF Notify, Goto, Outside, Inside
  <2>4. UNCHANGED <<request, root, manager, marker, pending, created, job, about,
                    target, verdict, asks, answers>>
    BY <1>20 DEF Notify, tables, locals, history
  <2>5. holder' \in [Procs \X Works -> Calls \cup {None}]
    BY <2>2 DEF TypeOK
  <2> QED
    BY <2>1, <2>5, <2>3, <2>4
<1>21. ASSUME NEW c \in Calls, Reopen(c) PROVE TypeOK'
  <2>1. \E x \in Inside : pc' = [pc EXCEPT ![c] = x]
    BY <1>21 DEF Reopen, Goto, Inside, GotoIf
  <2>2. UNCHANGED <<request, root, manager, marker, pending, created, holder, job,
                    about, target, verdict, asks, answers, notices>>
    BY <1>21 DEF Reopen, tables, locals, history
  <2> QED
    BY <2>1, <2>2
<1>22. ASSUME NEW c \in Calls, Unmark(c) PROVE TypeOK'
  <2>1. \E x \in BOOLEAN : marker' = [marker EXCEPT ![about[c]] = x]
    BY <1>22 DEF Unmark
  <2>2. \E x \in Inside : pc' = [pc EXCEPT ![c] = x]
    BY <1>22 DEF Unmark, Goto, Inside
  <2>3. UNCHANGED <<request, root, manager, pending, created, holder, job, about,
                    target, verdict, asks, answers, notices>>
    BY <1>22 DEF Unmark, tables, locals, history
  <2> QED
    BY <2>1, <2>2, <2>3
<1>23. ASSUME NEW c \in Calls, ReopenRoot(c) PROVE TypeOK'
  <2>1. \E x \in TaskStatus : root' = [root EXCEPT ![about[c]] = x]
    BY <1>23 DEF ReopenRoot, TaskStatus, Active, Final
  <2>2. \E x \in Inside : pc' = [pc EXCEPT ![c] = x]
    BY <1>23 DEF ReopenRoot, Goto, Inside
  <2>3. UNCHANGED <<request, manager, marker, pending, created, holder, job, about,
                    target, verdict, asks, answers, notices>>
    BY <1>23 DEF ReopenRoot, tables, locals, history
  <2> QED
    BY <2>1, <2>2, <2>3
<1>24. ASSUME NEW c \in Calls, ReopenRequest(c) PROVE TypeOK'
  <2>1. \E x \in RequestStatus : request' = [request EXCEPT ![about[c]] = x]
    BY <1>24 DEF ReopenRequest, RequestStatus
  <2>2. \E x \in Inside : pc' = [pc EXCEPT ![c] = x]
    BY <1>24 DEF ReopenRequest, Goto, Inside
  <2>3. UNCHANGED <<root, manager, marker, pending, created, holder, job, about,
                    target, verdict, asks, answers, notices>>
    BY <1>24 DEF ReopenRequest, tables, locals, history
  <2> QED
    BY <2>1, <2>2, <2>3
<1>25. ASSUME NEW c \in Calls, Resume(c) PROVE TypeOK'
  <2>1. \/ UNCHANGED holder
       \/ holder' = [holder EXCEPT ![Place(c)] = None]
    BY <1>25 DEF Resume, Release
  <2>2. \E x \in Outside \cup Inside : pc' = [pc EXCEPT ![c] = x]
    BY <1>25 DEF Resume, Goto, Outside, Inside
  <2>3. UNCHANGED <<request, root, manager, marker, pending, created, job, about,
                    target, verdict, asks, answers, notices>>
    BY <1>25 DEF Resume, tables, locals, history
  <2>4. holder' \in [Procs \X Works -> Calls \cup {None}]
    BY <2>1 DEF TypeOK
  <2> QED
    BY <2>4, <2>2, <2>3
<1>26. ASSUME NEW c \in Calls, TakeAnswer(c) PROVE TypeOK'
  <2>1. pending' = [pending EXCEPT ![about[c]] = 0]
    BY <1>26 DEF TakeAnswer
  <2>2. answers' = [answers EXCEPT ![about[c]] = answers[about[c]] + 1]
    BY <1>26 DEF TakeAnswer
  <2>3. \E x \in Inside : pc' = [pc EXCEPT ![c] = x]
    BY <1>26 DEF TakeAnswer, Goto, Inside
  <2>4. UNCHANGED <<request, root, manager, marker, created, holder, job, about,
                    target, verdict, asks, notices>>
    BY <1>26 DEF TakeAnswer, tables, locals, history
  <2>5. pending' \in [Calls -> Nat]
    BY <2>1
  <2>6. answers' \in [Calls -> Nat]
    BY <2>2
  <2> QED
    BY <2>5, <2>6, <2>3, <2>4
<1>27. ASSUME NEW c \in Calls, Wake(c) PROVE TypeOK'
  <2>1. \E x \in TaskStatus : manager' = [manager EXCEPT ![about[c]] = x]
    BY <1>27 DEF Wake, TaskStatus, Active, Final
  <2>2. \E x \in Inside : pc' = [pc EXCEPT ![c] = x]
    BY <1>27 DEF Wake, Goto, Inside
  <2>3. UNCHANGED <<request, root, marker, pending, created, holder, job, about,
                    target, verdict, asks, answers, notices>>
    BY <1>27 DEF Wake, tables, locals, history
  <2> QED
    BY <2>1, <2>2, <2>3
<1>28. ASSUME NEW c \in Calls, CancelCheck(c) PROVE TypeOK'
  <2>1. \/ UNCHANGED target
       \/ \E x \in {"manager", "root"} : target' = [target EXCEPT ![c] = x]
    BY <1>28 DEF CancelCheck
  <2>2. \/ UNCHANGED holder
       \/ holder' = [holder EXCEPT ![Place(c)] = None]
    BY <1>28 DEF CancelCheck, Release
  <2>3. \E x \in Outside \cup Inside : pc' = [pc EXCEPT ![c] = x]
    BY <1>28 DEF CancelCheck, Goto, Outside, Inside
  <2>4. UNCHANGED <<request, root, manager, marker, pending, created, job, about,
                    verdict, asks, answers, notices>>
    BY <1>28 DEF CancelCheck, tables, locals, history
  <2>5. target' \in [Calls -> {"manager", "root"}]
    BY <2>1
  <2>6. holder' \in [Procs \X Works -> Calls \cup {None}]
    BY <2>2 DEF TypeOK
  <2> QED
    BY <2>5, <2>6, <2>3, <2>4
<1>29. ASSUME NEW c \in Calls, CancelLook(c) PROVE TypeOK'
  <2>1. \/ UNCHANGED target
       \/ \E x \in {"manager", "root"} : target' = [target EXCEPT ![c] = x]
    BY <1>29 DEF CancelLook, NextToCancel
  <2>2. \E x \in Inside : pc' = [pc EXCEPT ![c] = x]
    BY <1>29 DEF CancelLook, Goto, Inside, NextToCancel, GotoIf
  <2>3. UNCHANGED <<request, root, manager, marker, pending, created, holder, job,
                    about, verdict, asks, answers, notices>>
    BY <1>29 DEF CancelLook, tables, locals, history
  <2>4. target' \in [Calls -> {"manager", "root"}]
    BY <2>1
  <2> QED
    BY <2>4, <2>2, <2>3
<1>30. ASSUME NEW c \in Calls, CancelWrite(c) PROVE TypeOK'
  <2>1. \/ UNCHANGED manager
       \/ \E x \in TaskStatus : manager' = [manager EXCEPT ![about[c]] = x]
    BY <1>30 DEF CancelWrite, TaskStatus, Active, Final
  <2>2. \/ UNCHANGED root
       \/ \E x \in TaskStatus : root' = [root EXCEPT ![about[c]] = x]
    BY <1>30 DEF CancelWrite, TaskStatus, Active, Final
  <2>3. \E x \in {"manager", "root"} : target' = [target EXCEPT ![c] = x]
    BY <1>30 DEF CancelWrite, NextToCancel
  <2>4. \E x \in Inside : pc' = [pc EXCEPT ![c] = x]
    BY <1>30 DEF CancelWrite, Goto, Inside, NextToCancel, GotoIf
  <2>5. UNCHANGED <<request, marker, pending, created, holder, job, about, verdict,
                    asks, answers, notices>>
    BY <1>30 DEF CancelWrite, tables, locals, history
  <2>6. manager' \in [Calls -> TaskStatus]
    BY <2>1
  <2>7. root' \in [Calls -> TaskStatus]
    BY <2>2
  <2> QED
    BY <2>6, <2>7, <2>3, <2>4, <2>5
<1>31. ASSUME NEW c \in Calls, CancelRequest(c) PROVE TypeOK'
  <2>1. \E x \in RequestStatus : request' = [request EXCEPT ![about[c]] = x]
    BY <1>31 DEF CancelRequest, RequestStatus
  <2>2. \E x \in Inside : pc' = [pc EXCEPT ![c] = x]
    BY <1>31 DEF CancelRequest, Goto, Inside
  <2>3. UNCHANGED <<root, manager, marker, pending, created, holder, job, about,
                    target, verdict, asks, answers, notices>>
    BY <1>31 DEF CancelRequest, tables, locals, history
  <2> QED
    BY <2>1, <2>2, <2>3
<1>32. ASSUME NEW c \in Calls, CancelUnmark(c) PROVE TypeOK'
  <2>1. \E x \in BOOLEAN : marker' = [marker EXCEPT ![about[c]] = x]
    BY <1>32 DEF CancelUnmark
  <2>2. \E x \in Verdicts : verdict' = [verdict EXCEPT ![c] = x]
    BY <1>32 DEF CancelUnmark, Verdicts
  <2>3. \/ UNCHANGED holder
       \/ holder' = [holder EXCEPT ![Place(c)] = None]
    BY <1>32 DEF CancelUnmark, Release
  <2>4. \E x \in Outside \cup Inside : pc' = [pc EXCEPT ![c] = x]
    BY <1>32 DEF CancelUnmark, Goto, Outside, Inside
  <2>5. UNCHANGED <<request, root, manager, pending, created, job, about, target,
                    asks, answers, notices>>
    BY <1>32 DEF CancelUnmark, tables, locals, history
  <2>6. holder' \in [Procs \X Works -> Calls \cup {None}]
    BY <2>3 DEF TypeOK
  <2> QED
    BY <2>1, <2>2, <2>6, <2>4, <2>5
<1>33. ASSUME NEW p \in Procs, Crash(p) PROVE TypeOK'
  BY <1>33 DEF Crash, Outside, tables, locals, history
<1>34. CASE UNCHANGED vars
  BY <1>34 DEF vars, tables, locals, history
<1>35. QED
  BY <1>1, <1>2, <1>3, <1>4, <1>5, <1>6, <1>7, <1>8, <1>9, <1>10, <1>11, <1>12,
     <1>13, <1>14, <1>15, <1>16, <1>17, <1>18, <1>19, <1>20, <1>21, <1>22, <1>23,
     <1>24, <1>25, <1>26, <1>27, <1>28, <1>29, <1>30, <1>31, <1>32, <1>33, <1>34
  DEF Next, Start, Step, OpenSteps, GroupChatSteps, SettleSteps, AnswerSteps,
     CancelSteps, Over

LEMMA ChatArrives ==
  ASSUME NEW c \in Calls, StartChat(c)
  PROVE  \E p \in Procs, w \in Works, t \in {"message", "stop"} :
           job' = [job EXCEPT ![c] = [op |-> "chat", proc |-> p, work |-> w,
               text |-> t]]
BY DEF StartChat, Arrive

LEMMA OutcomeStep == TypeInv /\ [Next]_vars => OutcomeKnown'
<1> SUFFICES ASSUME TypeInv, [Next]_vars PROVE OutcomeKnown'
  OBVIOUS
<1> USE DEF TypeInv, TypeOK, OutcomeKnown, At, Goto
<1>1. ASSUME NEW c \in Calls, StartChat(c) PROVE OutcomeKnown'
  <2>1. /\ UNCHANGED verdict
        /\ \E x \in {"lock", "find", "cancel look"} : pc' = [pc EXCEPT ![c] = x]
    BY <1>1 DEF StartChat, Arrive
  <2> QED
    BY <2>1
<1>2. ASSUME NEW c \in Calls, StartSubmit(c) PROVE OutcomeKnown'
  <2>1. /\ UNCHANGED verdict
        /\ \E x \in {"lock", "find", "cancel look"} : pc' = [pc EXCEPT ![c] = x]
    BY <1>2 DEF StartSubmit, Arrive
  <2> QED
    BY <2>1
<1>3. ASSUME NEW c \in Calls, StartRetry(c) PROVE OutcomeKnown'
  <2>1. /\ UNCHANGED verdict
        /\ \E x \in {"lock", "find", "cancel look"} : pc' = [pc EXCEPT ![c] = x]
    BY <1>3 DEF StartRetry, Arrive
  <2> QED
    BY <2>1
<1>4. ASSUME NEW c \in Calls, StartCancel(c) PROVE OutcomeKnown'
  <2>1. /\ UNCHANGED verdict
        /\ \E x \in {"lock", "find", "cancel look"} : pc' = [pc EXCEPT ![c] = x]
    BY <1>4 DEF StartCancel, Arrive
  <2> QED
    BY <2>1
<1>5. ASSUME NEW c \in Calls, AcquireLock(c) PROVE OutcomeKnown'
  BY <1>5 DEF AcquireLock, GotoIf, tables, locals, history
<1>6. ASSUME NEW c \in Calls, FindPending(c) PROVE OutcomeKnown'
  BY <1>6 DEF FindPending, GotoIf, tables, locals, history
<1>7. ASSUME NEW c \in Calls, CreateRequest(c) PROVE OutcomeKnown'
  BY <1>7 DEF CreateRequest, tables, locals, history
<1>8. ASSUME NEW c \in Calls, CreateRoot(c) PROVE OutcomeKnown'
  BY <1>8 DEF CreateRoot, tables, locals, history
<1>9. ASSUME NEW c \in Calls, OpenRequest(c) PROVE OutcomeKnown'
  BY <1>9 DEF OpenRequest, tables, locals, history
<1>10. ASSUME NEW c \in Calls, OpenRoot(c) PROVE OutcomeKnown'
  BY <1>10 DEF OpenRoot, GotoIf, tables, locals, history
<1>11. ASSUME NEW c \in Calls, RunDirect(c) PROVE OutcomeKnown'
  <2>1. \E v \in {"done", "failed"}, x \in {"mark", "settle request"} :
          verdict' = [verdict EXCEPT ![c] = v] /\ pc' = [pc EXCEPT ![c] = x]
    BY <1>11 DEF RunDirect
  <2> QED
    BY <2>1
<1>12. ASSUME NEW c \in Calls, Delegate(c) PROVE OutcomeKnown'
  BY <1>12 DEF Delegate, tables, locals, history
<1>13. ASSUME NEW c \in Calls, StartManager(c) PROVE OutcomeKnown'
  BY <1>13 DEF StartManager, tables, locals, history
<1>14. ASSUME NEW c \in Calls, GroupChatEnds(c) PROVE OutcomeKnown'
  BY <1>14 DEF GroupChatEnds, tables, locals, history
<1>15. ASSUME NEW c \in Calls, GroupChatAsks(c) PROVE OutcomeKnown'
  BY <1>15 DEF GroupChatAsks, tables, locals, history
<1>16. ASSUME NEW c \in Calls, Park(c) PROVE OutcomeKnown'
  BY <1>16 DEF Park, tables, locals, history
<1>17. ASSUME NEW c \in Calls, Mark(c) PROVE OutcomeKnown'
  BY <1>17 DEF Mark, MarkerAfter, tables, locals, history
<1>18. ASSUME NEW c \in Calls, SettleRequest(c) PROVE OutcomeKnown'
  BY <1>18 DEF SettleRequest, RequestStatusOf, tables, locals, history
<1>19. ASSUME NEW c \in Calls, SettleRoot(c) PROVE OutcomeKnown'
  BY <1>19 DEF SettleRoot, Outcome, tables, locals, history
<1>20. ASSUME NEW c \in Calls, Notify(c) PROVE OutcomeKnown'
  BY <1>20 DEF Notify, Outcome, Release, tables, locals, history
<1>21. ASSUME NEW c \in Calls, Reopen(c) PROVE OutcomeKnown'
  BY <1>21 DEF Reopen, GotoIf, tables, locals, history
<1>22. ASSUME NEW c \in Calls, Unmark(c) PROVE OutcomeKnown'
  BY <1>22 DEF Unmark, tables, locals, history
<1>23. ASSUME NEW c \in Calls, ReopenRoot(c) PROVE OutcomeKnown'
  BY <1>23 DEF ReopenRoot, tables, locals, history
<1>24. ASSUME NEW c \in Calls, ReopenRequest(c) PROVE OutcomeKnown'
  BY <1>24 DEF ReopenRequest, tables, locals, history
<1>25. ASSUME NEW c \in Calls, Resume(c) PROVE OutcomeKnown'
  BY <1>25 DEF Resume, Release, tables, locals, history
<1>26. ASSUME NEW c \in Calls, TakeAnswer(c) PROVE OutcomeKnown'
  BY <1>26 DEF TakeAnswer, tables, locals, history
<1>27. ASSUME NEW c \in Calls, Wake(c) PROVE OutcomeKnown'
  BY <1>27 DEF Wake, tables, locals, history
<1>28. ASSUME NEW c \in Calls, CancelCheck(c) PROVE OutcomeKnown'
  BY <1>28 DEF CancelCheck, Release, tables, locals, history
<1>29. ASSUME NEW c \in Calls, CancelLook(c) PROVE OutcomeKnown'
  BY <1>29 DEF CancelLook, NextToCancel, GotoIf, tables, locals, history
<1>30. ASSUME NEW c \in Calls, CancelWrite(c) PROVE OutcomeKnown'
  BY <1>30 DEF CancelWrite, NextToCancel, GotoIf, tables, locals, history
<1>31. ASSUME NEW c \in Calls, CancelRequest(c) PROVE OutcomeKnown'
  BY <1>31 DEF CancelRequest, tables, locals, history
<1>32. ASSUME NEW c \in Calls, CancelUnmark(c) PROVE OutcomeKnown'
  BY <1>32 DEF CancelUnmark, Release, tables, locals, history
<1>33. ASSUME NEW p \in Procs, Crash(p) PROVE OutcomeKnown'
  BY <1>33 DEF Crash, tables, locals, history
<1>34. CASE UNCHANGED vars
  BY <1>34 DEF vars, tables, locals, history
<1>35. QED
  BY <1>1, <1>2, <1>3, <1>4, <1>5, <1>6, <1>7, <1>8, <1>9, <1>10, <1>11, <1>12,
     <1>13, <1>14, <1>15, <1>16, <1>17, <1>18, <1>19, <1>20, <1>21, <1>22, <1>23,
     <1>24, <1>25, <1>26, <1>27, <1>28, <1>29, <1>30, <1>31, <1>32, <1>33, <1>34
  DEF Next, Start, Step, OpenSteps, GroupChatSteps, SettleSteps, AnswerSteps,
     CancelSteps, Over

LEMMA ArrivalStep == TypeOK /\ ArrivalInv /\ [Next]_vars => ArrivalInv'
<1> SUFFICES ASSUME TypeOK /\ ArrivalInv, [Next]_vars PROVE ArrivalInv'
  OBVIOUS
<1> USE DEF ArrivalInv, PlaceKnown, TasksOfCalls, AboutArrived, TypeOK, At, Goto
<1>1. ASSUME NEW c \in Calls, StartChat(c) PROVE ArrivalInv'
  <2>1. PICK p \in Procs, w \in Works, t \in {"message", "stop"} :
          job' = [job EXCEPT ![c] = [op |-> "chat", proc |-> p, work |-> w, text |-> t]]
    BY <1>1, ChatArrives
  <2>2. /\ pc[c] = "idle"
        /\ about' = [about EXCEPT ![c] = c]
        /\ pc' = [pc EXCEPT ![c] = "lock"]
        /\ UNCHANGED <<root, manager, holder>>
    BY <1>1 DEF StartChat, Arrive, tables
  <2>3. pc[c] = "idle"
    BY <2>2
  <2>4. PlaceKnown'
    BY <2>1, <2>2
  <2>5. TasksOfCalls'
    BY <2>2
  <2>6. AboutArrived'
    BY <2>2, <2>3
  <2> QED
    BY <2>4, <2>5, <2>6
<1>2. ASSUME NEW c \in Calls, StartSubmit(c) PROVE ArrivalInv'
  <2>1. PICK r \in Calls :
          /\ Answerable(r)
          /\ Arrive(c, "submit", <<Web, job[r].work>>, r, "message")
          /\ Goto(c, "lock")
    BY <1>2 DEF StartSubmit
  <2>2. /\ job' = [job EXCEPT ![c] = [op |-> "submit", proc |-> Web,
                                    work |-> job[r].work, text |-> "message"]]
        /\ about' = [about EXCEPT ![c] = r]
        /\ pc' = [pc EXCEPT ![c] = "lock"]
        /\ UNCHANGED <<root, manager, holder>>
    BY <2>1 DEF Arrive, tables
  <2>3. pc[r] # "idle"
    BY <2>1 DEF Answerable, StatusOf, Active
  <2>4. PlaceKnown'
    BY <2>2, <2>3, LifecycleAssumption
  <2>5. TasksOfCalls'
    BY <2>2
  <2>6. AboutArrived'
    BY <2>2, <2>3
  <2> QED
    BY <2>4, <2>5, <2>6
<1>3. ASSUME NEW c \in Calls, StartRetry(c) PROVE ArrivalInv'
  <2>1. PICK r \in Calls :
          /\ root[r] = "failed"
          /\ Arrive(c, "retry", <<Web, job[r].work>>, c, job[r].text)
          /\ Goto(c, "find")
    BY <1>3 DEF StartRetry
  <2>2. /\ job' = [job EXCEPT ![c] = [op |-> "retry", proc |-> Web,
                                    work |-> job[r].work, text |-> job[r].text]]
        /\ about' = [about EXCEPT ![c] = c]
        /\ pc' = [pc EXCEPT ![c] = "find"]
        /\ UNCHANGED <<root, manager, holder>>
    BY <2>1 DEF Arrive, tables
  <2>3. pc[r] # "idle"
    BY <2>1 DEF Answerable, StatusOf, Active
  <2>4. PlaceKnown'
    BY <2>2, <2>3, LifecycleAssumption
  <2>5. TasksOfCalls'
    BY <2>2
  <2>6. AboutArrived'
    BY <2>2, <2>3
  <2> QED
    BY <2>4, <2>5, <2>6
<1>4. ASSUME NEW c \in Calls, StartCancel(c) PROVE ArrivalInv'
  <2>1. PICK r \in Calls, task \in {"manager", "root"} :
          /\ StatusOf(r, task) \in Active
          /\ Arrive(c, "cancel", <<Web, job[r].work>>, r, "message")
          /\ Goto(c, "cancel look")
    BY <1>4 DEF StartCancel
  <2>2. /\ job' = [job EXCEPT ![c] = [op |-> "cancel", proc |-> Web,
                                    work |-> job[r].work, text |-> "message"]]
        /\ about' = [about EXCEPT ![c] = r]
        /\ pc' = [pc EXCEPT ![c] = "cancel look"]
        /\ UNCHANGED <<root, manager, holder>>
    BY <2>1 DEF Arrive, tables
  <2>3. pc[r] # "idle"
    BY <2>1 DEF Answerable, StatusOf, Active
  <2>4. PlaceKnown'
    BY <2>2, <2>3, LifecycleAssumption
  <2>5. TasksOfCalls'
    BY <2>2
  <2>6. AboutArrived'
    BY <2>2, <2>3
  <2> QED
    BY <2>4, <2>5, <2>6
<1>5. ASSUME NEW c \in Calls, AcquireLock(c) PROVE ArrivalInv'
  BY <1>5 DEF AcquireLock, GotoIf, tables, locals, history
<1>6. ASSUME NEW c \in Calls, FindPending(c) PROVE ArrivalInv'
  <2>1. /\ UNCHANGED <<job, root, manager>>
        /\ pc[c] = "find"
        /\ \E x \in {"cancel check", "reopen",
            "create request"} : pc' = [pc EXCEPT ![c] = x]
    BY <1>6 DEF FindPending, GotoIf, tables
  <2>2. UNCHANGED about \/ \E r \in Calls : pc[r] # "idle" /\ about' = [about EXCEPT ![c] = r]
    BY <1>6 DEF FindPending, Finds, FindsOnly, FindsMarked, InWork
  <2>3. PlaceKnown' /\ TasksOfCalls'
    BY <2>1
  <2>4. CASE UNCHANGED about
    <3>1. \A d \in Calls : pc'[d] # "idle" <=> pc[d] # "idle"
      BY <2>1
    <3> QED
      BY <2>1, <2>3, <2>4, <3>1
  <2>5. ASSUME NEW r \in Calls, pc[r] # "idle",
      about' = [about EXCEPT ![c] = r] PROVE AboutArrived'
    <3>1. \A d \in Calls : pc'[d] # "idle" <=> pc[d] # "idle"
      BY <2>1
    <3>2. \A d \in Calls \ {c} : about'[d] = about[d]
      BY <2>5
    <3>3. about'[c] = r
      BY <2>5
    <3> QED
      BY <3>1, <3>2, <3>3, <2>5, <2>1
  <2> QED
    BY <2>2, <2>3, <2>4, <2>5
<1>7. ASSUME NEW c \in Calls, CreateRequest(c) PROVE ArrivalInv'
  BY <1>7 DEF CreateRequest, tables, locals, history
<1>8. ASSUME NEW c \in Calls, CreateRoot(c) PROVE ArrivalInv'
  BY <1>8 DEF CreateRoot, tables, locals, history
<1>9. ASSUME NEW c \in Calls, OpenRequest(c) PROVE ArrivalInv'
  BY <1>9 DEF OpenRequest, tables, locals, history
<1>10. ASSUME NEW c \in Calls, OpenRoot(c) PROVE ArrivalInv'
  BY <1>10 DEF OpenRoot, GotoIf, tables, locals, history
<1>11. ASSUME NEW c \in Calls, RunDirect(c) PROVE ArrivalInv'
  <2>1. /\ UNCHANGED <<job, about, root, manager>>
        /\ pc[c] # "idle"
        /\ \E x \in {"mark", "settle request"} : pc' = [pc EXCEPT ![c] = x]
    BY <1>11 DEF RunDirect, tables, locals
  <2>2. \A d \in Calls : pc'[d] # "idle" <=> pc[d] # "idle"
    BY <2>1
  <2> QED
    BY <2>1, <2>2
<1>12. ASSUME NEW c \in Calls, Delegate(c) PROVE ArrivalInv'
  BY <1>12 DEF Delegate, tables, locals, history
<1>13. ASSUME NEW c \in Calls, StartManager(c) PROVE ArrivalInv'
  BY <1>13 DEF StartManager, tables, locals, history
<1>14. ASSUME NEW c \in Calls, GroupChatEnds(c) PROVE ArrivalInv'
  BY <1>14 DEF GroupChatEnds, tables, locals, history
<1>15. ASSUME NEW c \in Calls, GroupChatAsks(c) PROVE ArrivalInv'
  BY <1>15 DEF GroupChatAsks, tables, locals, history
<1>16. ASSUME NEW c \in Calls, Park(c) PROVE ArrivalInv'
  BY <1>16 DEF Park, tables, locals, history
<1>17. ASSUME NEW c \in Calls, Mark(c) PROVE ArrivalInv'
  BY <1>17 DEF Mark, MarkerAfter, tables, locals, history
<1>18. ASSUME NEW c \in Calls, SettleRequest(c) PROVE ArrivalInv'
  BY <1>18 DEF SettleRequest, RequestStatusOf, tables, locals, history
<1>19. ASSUME NEW c \in Calls, SettleRoot(c) PROVE ArrivalInv'
  BY <1>19 DEF SettleRoot, Outcome, tables, locals, history
<1>20. ASSUME NEW c \in Calls, Notify(c) PROVE ArrivalInv'
  BY <1>20 DEF Notify, Outcome, Release, tables, locals, history
<1>21. ASSUME NEW c \in Calls, Reopen(c) PROVE ArrivalInv'
  BY <1>21 DEF Reopen, GotoIf, tables, locals, history
<1>22. ASSUME NEW c \in Calls, Unmark(c) PROVE ArrivalInv'
  BY <1>22 DEF Unmark, tables, locals, history
<1>23. ASSUME NEW c \in Calls, ReopenRoot(c) PROVE ArrivalInv'
  BY <1>23 DEF ReopenRoot, tables, locals, history
<1>24. ASSUME NEW c \in Calls, ReopenRequest(c) PROVE ArrivalInv'
  BY <1>24 DEF ReopenRequest, tables, locals, history
<1>25. ASSUME NEW c \in Calls, Resume(c) PROVE ArrivalInv'
  <2>1. /\ UNCHANGED <<job, about, root, manager>>
        /\ pc[c] # "idle"
        /\ \E x \in {"take", "returned"} : pc' = [pc EXCEPT ![c] = x]
    BY <1>25 DEF Resume, tables, locals
  <2>2. \A d \in Calls : pc'[d] # "idle" <=> pc[d] # "idle"
    BY <2>1
  <2> QED
    BY <2>1, <2>2
<1>26. ASSUME NEW c \in Calls, TakeAnswer(c) PROVE ArrivalInv'
  BY <1>26 DEF TakeAnswer, tables, locals, history
<1>27. ASSUME NEW c \in Calls, Wake(c) PROVE ArrivalInv'
  BY <1>27 DEF Wake, tables, locals, history
<1>28. ASSUME NEW c \in Calls, CancelCheck(c) PROVE ArrivalInv'
  <2>1. /\ UNCHANGED <<job, about, root, manager>>
        /\ pc[c] # "idle"
        /\ \E x \in {"cancel look", "returned"} : pc' = [pc EXCEPT ![c] = x]
    BY <1>28 DEF CancelCheck, tables, locals
  <2>2. \A d \in Calls : pc'[d] # "idle" <=> pc[d] # "idle"
    BY <2>1
  <2> QED
    BY <2>1, <2>2
<1>29. ASSUME NEW c \in Calls, CancelLook(c) PROVE ArrivalInv'
  <2>1. /\ UNCHANGED <<job, about, root, manager>>
        /\ pc[c] # "idle"
        /\ \E x \in {"cancel write", "cancel look",
            "cancel request"} : pc' = [pc EXCEPT ![c] = x]
    BY <1>29 DEF CancelLook, NextToCancel, GotoIf, tables, locals
  <2>2. \A d \in Calls : pc'[d] # "idle" <=> pc[d] # "idle"
    BY <2>1
  <2> QED
    BY <2>1, <2>2
<1>30. ASSUME NEW c \in Calls, CancelWrite(c) PROVE ArrivalInv'
  <2>1. /\ UNCHANGED <<job, about>>
        /\ pc[c] # "idle"
        /\ \E x \in {"cancel look", "cancel request"} : pc' = [pc EXCEPT ![c] = x]
        /\ \A d \in Calls : d # about[c] => root'[d] = root[d] /\ manager'[d] = manager[d]
    BY <1>30 DEF CancelWrite, NextToCancel, GotoIf
  <2>2. \A d \in Calls : pc'[d] # "idle" <=> pc[d] # "idle"
    BY <2>1
  <2> QED
    BY <2>1, <2>2
<1>31. ASSUME NEW c \in Calls, CancelRequest(c) PROVE ArrivalInv'
  BY <1>31 DEF CancelRequest, tables, locals, history
<1>32. ASSUME NEW c \in Calls, CancelUnmark(c) PROVE ArrivalInv'
  BY <1>32 DEF CancelUnmark, Release, tables, locals, history
<1>33. ASSUME NEW p \in Procs, Crash(p) PROVE ArrivalInv'
  BY <1>33 DEF Crash, tables, locals, history
<1>34. CASE UNCHANGED vars
  BY <1>34 DEF vars, tables, locals, history
<1>35. QED
  BY <1>1, <1>2, <1>3, <1>4, <1>5, <1>6, <1>7, <1>8, <1>9, <1>10, <1>11, <1>12,
     <1>13, <1>14, <1>15, <1>16, <1>17, <1>18, <1>19, <1>20, <1>21, <1>22, <1>23,
     <1>24, <1>25, <1>26, <1>27, <1>28, <1>29, <1>30, <1>31, <1>32, <1>33, <1>34
  DEF Next, Start, Step, OpenSteps, GroupChatSteps, SettleSteps, AnswerSteps,
     CancelSteps, Over

LEMMA ReleaseStep ==
  ASSUME TypeOK, PlaceKnown, LockHeld, NEW c \in Calls,
         Busy(c), UNCHANGED job, Release(c), pc' = [pc EXCEPT ![c] = "returned"]
  PROVE  LockHeld'
<1> USE DEF TypeOK, PlaceKnown, LockHeld, Busy, Locking, Place
<1>1. pc[c] # "idle" /\ Place(c) \in Procs \X Works
  BY DEF Inside
<1>2. ASSUME NEW d \in Calls, (Busy(d) /\ Locking(d))' PROVE (holder[Place(d)] = d)'
  <2>1. d # c /\ Busy(d) /\ Locking(d) /\ Place(d)' = Place(d)
    BY <1>2 DEF Inside
  <2>2. CASE Locking(c)
    BY <2>1, <2>2, <1>1 DEF Release
  <2>3. CASE ~Locking(c)
    BY <2>1, <2>3 DEF Release
  <2> QED
    BY <2>2, <2>3
<1> QED
  BY <1>2

LEMMA LockStep == TypeOK /\ PlaceKnown /\ LockHeld /\ [Next]_vars => LockHeld'
<1> SUFFICES ASSUME TypeOK /\ PlaceKnown /\ LockHeld, [Next]_vars PROVE LockHeld'
  OBVIOUS
<1> USE DEF LockHeld, PlaceKnown, TypeOK, Busy, Locking, Place, Inside, At, Goto
<1>1. ASSUME NEW c \in Calls, StartChat(c) PROVE LockHeld'
  <2>1. PICK p \in Procs, w \in Works, t \in {"message", "stop"} :
          job' = [job EXCEPT ![c] = [op |-> "chat", proc |-> p, work |-> w, text |-> t]]
    BY <1>1, ChatArrives
  <2>2. /\ pc[c] = "idle"
        /\ about' = [about EXCEPT ![c] = c]
        /\ pc' = [pc EXCEPT ![c] = "lock"]
        /\ UNCHANGED <<root, manager, holder>>
    BY <1>1 DEF StartChat, Arrive, tables
  <2>3. ~(Busy(c) /\ Locking(c))'
    BY <2>1, <2>2
  <2>4. \A d \in Calls \ {c} : job'[d] = job[d] /\ pc'[d] = pc[d]
    BY <2>1, <2>2
  <2> QED
    BY <2>2, <2>3, <2>4
<1>2. ASSUME NEW c \in Calls, StartSubmit(c) PROVE LockHeld'
  <2>1. PICK r \in Calls :
          /\ Answerable(r)
          /\ Arrive(c, "submit", <<Web, job[r].work>>, r, "message")
          /\ Goto(c, "lock")
    BY <1>2 DEF StartSubmit
  <2>2. /\ job' = [job EXCEPT ![c] = [op |-> "submit", proc |-> Web,
                                    work |-> job[r].work, text |-> "message"]]
        /\ about' = [about EXCEPT ![c] = r]
        /\ pc' = [pc EXCEPT ![c] = "lock"]
        /\ UNCHANGED <<root, manager, holder>>
    BY <2>1 DEF Arrive, tables
  <2>3. ~(Busy(c) /\ Locking(c))'
    BY <2>2
  <2>4. \A d \in Calls \ {c} : job'[d] = job[d] /\ pc'[d] = pc[d]
    BY <2>2
  <2> QED
    BY <2>2, <2>3, <2>4
<1>3. ASSUME NEW c \in Calls, StartRetry(c) PROVE LockHeld'
  <2>1. PICK r \in Calls :
          /\ root[r] = "failed"
          /\ Arrive(c, "retry", <<Web, job[r].work>>, c, job[r].text)
          /\ Goto(c, "find")
    BY <1>3 DEF StartRetry
  <2>2. /\ job' = [job EXCEPT ![c] = [op |-> "retry", proc |-> Web,
                                    work |-> job[r].work, text |-> job[r].text]]
        /\ about' = [about EXCEPT ![c] = c]
        /\ pc' = [pc EXCEPT ![c] = "find"]
        /\ UNCHANGED <<root, manager, holder>>
    BY <2>1 DEF Arrive, tables
  <2>3. ~(Busy(c) /\ Locking(c))'
    BY <2>2
  <2>4. \A d \in Calls \ {c} : job'[d] = job[d] /\ pc'[d] = pc[d]
    BY <2>2
  <2> QED
    BY <2>2, <2>3, <2>4
<1>4. ASSUME NEW c \in Calls, StartCancel(c) PROVE LockHeld'
  <2>1. PICK r \in Calls, task \in {"manager", "root"} :
          /\ StatusOf(r, task) \in Active
          /\ Arrive(c, "cancel", <<Web, job[r].work>>, r, "message")
          /\ Goto(c, "cancel look")
    BY <1>4 DEF StartCancel
  <2>2. /\ job' = [job EXCEPT ![c] = [op |-> "cancel", proc |-> Web,
                                    work |-> job[r].work, text |-> "message"]]
        /\ about' = [about EXCEPT ![c] = r]
        /\ pc' = [pc EXCEPT ![c] = "cancel look"]
        /\ UNCHANGED <<root, manager, holder>>
    BY <2>1 DEF Arrive, tables
  <2>3. ~(Busy(c) /\ Locking(c))'
    BY <2>2
  <2>4. \A d \in Calls \ {c} : job'[d] = job[d] /\ pc'[d] = pc[d]
    BY <2>2
  <2> QED
    BY <2>2, <2>3, <2>4
<1>5. ASSUME NEW c \in Calls, AcquireLock(c) PROVE LockHeld'
  <2>1. /\ pc[c] = "lock" /\ holder[Place(c)] = None
        /\ job' = job
        /\ holder' = [holder EXCEPT ![Place(c)] = c]
        /\ \A d \in Calls \ {c} : pc'[d] = pc[d]
    BY <1>5 DEF AcquireLock, LockFree, GotoIf, locals
  <2>2. Place(c) \in Procs \X Works
    BY <2>1
  <2>3. ASSUME NEW d \in Calls, (Busy(d) /\ Locking(d))' PROVE (holder[Place(d)] = d)'
    <3>1. CASE d = c
      BY <3>1, <2>1, <2>2
    <3>2. CASE d # c
      <4>1. Busy(d) /\ Locking(d) /\ Place(d)' = Place(d)
        BY <3>2, <2>1, <2>3
      <4>2. holder[Place(d)] = d /\ d # None
        BY <4>1, LifecycleAssumption
      <4>3. Place(d) # Place(c)
        BY <4>2, <2>1
      <4> QED
        BY <4>1, <4>2, <4>3, <2>1, <2>2
    <3> QED
      BY <3>1, <3>2
  <2> QED
    BY <2>3
<1>6. ASSUME NEW c \in Calls, FindPending(c) PROVE LockHeld'
  <2>1. /\ Busy(c) /\ UNCHANGED <<job, holder>>
        /\ \A d \in Calls \ {c} : pc'[d] = pc[d]
    BY <1>6 DEF FindPending, GotoIf, tables, locals
  <2> QED
    BY <2>1
<1>7. ASSUME NEW c \in Calls, CreateRequest(c) PROVE LockHeld'
  BY <1>7, LifecycleAssumption DEF CreateRequest, tables, locals, history
<1>8. ASSUME NEW c \in Calls, CreateRoot(c) PROVE LockHeld'
  BY <1>8, LifecycleAssumption DEF CreateRoot, tables, locals, history
<1>9. ASSUME NEW c \in Calls, OpenRequest(c) PROVE LockHeld'
  BY <1>9, LifecycleAssumption DEF OpenRequest, tables, locals, history
<1>10. ASSUME NEW c \in Calls, OpenRoot(c) PROVE LockHeld'
  BY <1>10, LifecycleAssumption DEF OpenRoot, GotoIf, tables, locals, history
<1>11. ASSUME NEW c \in Calls, RunDirect(c) PROVE LockHeld'
  <2>1. /\ Busy(c) /\ UNCHANGED <<job, holder>>
        /\ \A d \in Calls \ {c} : pc'[d] = pc[d]
    BY <1>11 DEF RunDirect, tables, locals
  <2> QED
    BY <2>1
<1>12. ASSUME NEW c \in Calls, Delegate(c) PROVE LockHeld'
  BY <1>12, LifecycleAssumption DEF Delegate, tables, locals, history
<1>13. ASSUME NEW c \in Calls, StartManager(c) PROVE LockHeld'
  BY <1>13, LifecycleAssumption DEF StartManager, tables, locals, history
<1>14. ASSUME NEW c \in Calls, GroupChatEnds(c) PROVE LockHeld'
  <2>1. /\ Busy(c) /\ UNCHANGED <<job, holder>>
        /\ \A d \in Calls \ {c} : pc'[d] = pc[d]
    BY <1>14 DEF GroupChatEnds, tables, locals
  <2> QED
    BY <2>1
<1>15. ASSUME NEW c \in Calls, GroupChatAsks(c) PROVE LockHeld'
  BY <1>15, LifecycleAssumption DEF GroupChatAsks, tables, locals, history
<1>16. ASSUME NEW c \in Calls, Park(c) PROVE LockHeld'
  BY <1>16, LifecycleAssumption DEF Park, tables, locals, history
<1>17. ASSUME NEW c \in Calls, Mark(c) PROVE LockHeld'
  BY <1>17, LifecycleAssumption DEF Mark, MarkerAfter, tables, locals, history
<1>18. ASSUME NEW c \in Calls, SettleRequest(c) PROVE LockHeld'
  BY <1>18, LifecycleAssumption DEF SettleRequest, RequestStatusOf, tables, locals,
     history
<1>19. ASSUME NEW c \in Calls, SettleRoot(c) PROVE LockHeld'
  BY <1>19, LifecycleAssumption DEF SettleRoot, Outcome, tables, locals, history
<1>20. ASSUME NEW c \in Calls, Notify(c) PROVE LockHeld'
  <2>1. Busy(c) /\ UNCHANGED job /\ Release(c) /\ pc' = [pc EXCEPT ![c] = "returned"]
    BY <1>20 DEF Notify, locals
  <2> QED
    BY <2>1, ReleaseStep
<1>21. ASSUME NEW c \in Calls, Reopen(c) PROVE LockHeld'
  BY <1>21, LifecycleAssumption DEF Reopen, GotoIf, tables, locals, history
<1>22. ASSUME NEW c \in Calls, Unmark(c) PROVE LockHeld'
  BY <1>22, LifecycleAssumption DEF Unmark, tables, locals, history
<1>23. ASSUME NEW c \in Calls, ReopenRoot(c) PROVE LockHeld'
  BY <1>23, LifecycleAssumption DEF ReopenRoot, tables, locals, history
<1>24. ASSUME NEW c \in Calls, ReopenRequest(c) PROVE LockHeld'
  BY <1>24, LifecycleAssumption DEF ReopenRequest, tables, locals, history
<1>25. ASSUME NEW c \in Calls, Resume(c) PROVE LockHeld'
  <2>1. CASE UNCHANGED holder
    <3>1. /\ Busy(c) /\ UNCHANGED job
          /\ \A d \in Calls \ {c} : pc'[d] = pc[d]
      BY <1>25 DEF Resume, locals
    <3> QED
      BY <2>1, <3>1
  <2>2. CASE Release(c) /\ pc' = [pc EXCEPT ![c] = "returned"]
    <3>1. Busy(c) /\ UNCHANGED job
      BY <1>25 DEF Resume, locals
    <3> QED
      BY <2>2, <3>1, ReleaseStep
  <2> QED
    BY <1>25, <2>1, <2>2 DEF Resume
<1>26. ASSUME NEW c \in Calls, TakeAnswer(c) PROVE LockHeld'
  BY <1>26, LifecycleAssumption DEF TakeAnswer, tables, locals, history
<1>27. ASSUME NEW c \in Calls, Wake(c) PROVE LockHeld'
  BY <1>27, LifecycleAssumption DEF Wake, tables, locals, history
<1>28. ASSUME NEW c \in Calls, CancelCheck(c) PROVE LockHeld'
  <2>1. CASE UNCHANGED holder
    <3>1. /\ Busy(c) /\ UNCHANGED job
          /\ \A d \in Calls \ {c} : pc'[d] = pc[d]
      BY <1>28 DEF CancelCheck, locals
    <3> QED
      BY <2>1, <3>1
  <2>2. CASE Release(c) /\ pc' = [pc EXCEPT ![c] = "returned"]
    <3>1. Busy(c) /\ UNCHANGED job
      BY <1>28 DEF CancelCheck, locals
    <3> QED
      BY <2>2, <3>1, ReleaseStep
  <2> QED
    BY <1>28, <2>1, <2>2 DEF CancelCheck
<1>29. ASSUME NEW c \in Calls, CancelLook(c) PROVE LockHeld'
  <2>1. /\ pc[c] = "cancel look" /\ UNCHANGED <<job, holder>>
        /\ \E x \in Inside : pc' = [pc EXCEPT ![c] = x]
    BY <1>29 DEF CancelLook, NextToCancel, GotoIf, tables
  <2> QED
    BY <2>1
<1>30. ASSUME NEW c \in Calls, CancelWrite(c) PROVE LockHeld'
  BY <1>30, LifecycleAssumption DEF CancelWrite, NextToCancel, GotoIf, tables,
     locals, history
<1>31. ASSUME NEW c \in Calls, CancelRequest(c) PROVE LockHeld'
  BY <1>31, LifecycleAssumption DEF CancelRequest, tables, locals, history
<1>32. ASSUME NEW c \in Calls, CancelUnmark(c) PROVE LockHeld'
  <2>1. Busy(c) /\ UNCHANGED job /\ Release(c) /\ pc' = [pc EXCEPT ![c] = "returned"]
    BY <1>32 DEF CancelUnmark, locals
  <2> QED
    BY <2>1, ReleaseStep
<1>33. ASSUME NEW p \in Procs, Crash(p) PROVE LockHeld'
  <2>1. UNCHANGED job
    BY <1>33 DEF Crash, locals
  <2>2. ASSUME NEW d \in Calls, (Busy(d) /\ Locking(d))' PROVE (holder[Place(d)] = d)'
    <3>1. Busy(d) /\ job[d].proc # p
      BY <1>33, <2>2 DEF Crash
    <3>2. holder'[Place(d)] = holder[Place(d)]
      BY <1>33, <3>1 DEF Crash
    <3> QED
      BY <2>1, <2>2, <3>1, <3>2
  <2> QED
    BY <2>2
<1>34. CASE UNCHANGED vars
  BY <1>34 DEF vars, tables, locals, history
<1>35. QED
  BY <1>1, <1>2, <1>3, <1>4, <1>5, <1>6, <1>7, <1>8, <1>9, <1>10, <1>11, <1>12,
     <1>13, <1>14, <1>15, <1>16, <1>17, <1>18, <1>19, <1>20, <1>21, <1>22, <1>23,
     <1>24, <1>25, <1>26, <1>27, <1>28, <1>29, <1>30, <1>31, <1>32, <1>33, <1>34
  DEF Next, Start, Step, OpenSteps, GroupChatSteps, SettleSteps, AnswerSteps,
     CancelSteps, Over

-----------------------------------------------------------------------------
(* What a step of a call leaves alone: the other calls, and the rows of every *)
(* request but the one it works on.                                          *)

CallsKept(c) ==
    \A d \in Calls \ {c} :
        /\ pc'[d] = pc[d] /\ about'[d] = about[d]
        /\ target'[d] = target[d] /\ verdict'[d] = verdict[d]

RowsKept(c) ==
    \A r \in Calls \ {about[c]} :
        /\ request'[r] = request[r] /\ root'[r] = root[r] /\ manager'[r] = manager[r]
        /\ marker'[r] = marker[r] /\ pending'[r] = pending[r]
        /\ asks'[r] = asks[r] /\ answers'[r] = answers[r] /\ notices'[r] = notices[r]

LEMMA StepFrame ==
    ASSUME TypeOK, OpensOwn, NEW c \in Calls, Step(c)
    PROVE  /\ CallsKept(c) /\ RowsKept(c) /\ UNCHANGED job
           /\ pc[c] \in Inside \cup {"lock"} /\ pc'[c] \in Inside \cup {"returned"}
           /\ pc[c] # "find" => UNCHANGED about
           /\ Opens(c)' => Opens(c) /\ UNCHANGED about
<1> USE DEF TypeOK, OpensOwn, Opens, CallsKept, RowsKept, At, Goto, tables, locals,
            history, Inside
<1>1. CASE AcquireLock(c)
  BY <1>1 DEF AcquireLock, GotoIf
<1>2. CASE FindPending(c)
  BY ZenonT(60), <1>2 DEF FindPending, GotoIf
<1>3. CASE CreateRequest(c)
  BY <1>3 DEF CreateRequest
<1>4. CASE CreateRoot(c)
  BY <1>4 DEF CreateRoot
<1>5. CASE OpenRequest(c)
  BY <1>5 DEF OpenRequest
<1>6. CASE OpenRoot(c)
  BY <1>6 DEF OpenRoot, GotoIf
<1>7. CASE RunDirect(c)
  BY ZenonT(60), <1>7 DEF RunDirect
<1>8. CASE Delegate(c)
  BY <1>8 DEF Delegate
<1>9. CASE StartManager(c)
  BY <1>9 DEF StartManager
<1>10. CASE GroupChatEnds(c)
  BY <1>10 DEF GroupChatEnds
<1>11. CASE GroupChatAsks(c)
  BY <1>11 DEF GroupChatAsks
<1>12. CASE Park(c)
  BY <1>12 DEF Park
<1>13. CASE Mark(c)
  BY <1>13 DEF Mark
<1>14. CASE SettleRequest(c)
  BY <1>14 DEF SettleRequest
<1>15. CASE SettleRoot(c)
  BY <1>15 DEF SettleRoot
<1>16. CASE Notify(c)
  BY <1>16 DEF Notify
<1>17. CASE Reopen(c)
  BY <1>17 DEF Reopen, GotoIf
<1>18. CASE Unmark(c)
  BY <1>18 DEF Unmark
<1>19. CASE ReopenRoot(c)
  BY <1>19 DEF ReopenRoot
<1>20. CASE ReopenRequest(c)
  BY <1>20 DEF ReopenRequest
<1>21. CASE Resume(c)
  BY <1>21 DEF Resume
<1>22. CASE TakeAnswer(c)
  BY <1>22 DEF TakeAnswer
<1>23. CASE Wake(c)
  BY <1>23 DEF Wake
<1>24. CASE CancelCheck(c)
  BY ZenonT(60), <1>24 DEF CancelCheck
<1>25. CASE CancelLook(c)
  BY <1>25 DEF CancelLook, NextToCancel, GotoIf
<1>26. CASE CancelWrite(c)
  <2>1. /\ pc[c] = "cancel write"
        /\ \E x \in {"cancel look", "cancel request"} : pc' = [pc EXCEPT ![c] = x]
        /\ target' = [target EXCEPT ![c] = "root"]
        /\ UNCHANGED <<request, marker, pending, job, about, verdict, asks, answers, notices>>
    BY <1>26 DEF CancelWrite, NextToCancel, GotoIf
  <2>2. \A r \in Calls \ {about[c]} : root'[r] = root[r] /\ manager'[r] = manager[r]
    BY <1>26 DEF CancelWrite
  <2>3. CallsKept(c)
    BY <2>1
  <2>4. RowsKept(c)
    BY <2>1, <2>2
  <2> QED
    BY <2>1, <2>3, <2>4
<1>27. CASE CancelRequest(c)
  BY <1>27 DEF CancelRequest
<1>28. CASE CancelUnmark(c)
  BY <1>28 DEF CancelUnmark
<1> QED
  BY <1>1, <1>2, <1>3, <1>4, <1>5, <1>6, <1>7, <1>8, <1>9, <1>10, <1>11, <1>12,
     <1>13, <1>14, <1>15, <1>16, <1>17, <1>18, <1>19, <1>20, <1>21, <1>22, <1>23,
     <1>24, <1>25, <1>26, <1>27, <1>28
  DEF Step, OpenSteps, GroupChatSteps, SettleSteps, AnswerSteps, CancelSteps

\* A call takes over a question of its own work only.
LEMMA FindStep ==
    ASSUME TypeOK, NEW c \in Calls, FindPending(c)
    PROVE  \/ UNCHANGED about /\ pc' = [pc EXCEPT ![c] = "create request"]
           \/ \E r \in Calls : /\ Finds(c, r) /\ InWork(r, job[c].work) /\ Answerable(r)
                              /\ about' = [about EXCEPT ![c] = r]
                              /\ \E x \in {"cancel check", "reopen"} : pc' = [pc EXCEPT ![c] = x]
<1>1. ASSUME NEW r \in Calls, Finds(c, r) PROVE InWork(r, job[c].work) /\ Answerable(r)
  BY <1>1 DEF Finds, FindsOnly, FindsMarked, Marked
<1> QED
  BY <1>1 DEF FindPending, Goto, GotoIf

\* How a call arrives: about its own request, or about one of its work.
Arrives(c, r, j, x) ==
    /\ pc[c] = "idle"
    /\ about' = [about EXCEPT ![c] = r] /\ job' = [job EXCEPT ![c] = j]
    /\ pc' = [pc EXCEPT ![c] = x]
    /\ UNCHANGED <<tables, holder, verdict, history>>
    /\ \A d \in Calls \ {c} : target'[d] = target[d]
    /\ j.op \in Ops
    /\ \/ r = c /\ x = "lock" /\ j.op = "chat"
       \/ r = c /\ x = "find" /\ j.op = "retry"
       \/ /\ pc[r] # "idle" /\ j.work = job[r].work
          /\ \/ x = "lock" /\ j.op = "submit" /\ Answerable(r)
             \/ x = "cancel look" /\ j.op = "cancel" /\ j.text = "message"

LEMMA StartFrame ==
    ASSUME TypeOK, ArrivalInv, NEW c \in Calls, Start(c)
    PROVE  \E r \in Calls, j \in Jobs, x \in {"lock", "find", "cancel look"} : Arrives(c, r, j, x)
<1> USE DEF Arrives, Arrive, At, Goto, TypeOK
<1>1. CASE StartChat(c)
  <2>1. PICK p \in Procs, w \in Works, t \in {"message", "stop"} :
          job' = [job EXCEPT ![c] = [op |-> "chat", proc |-> p, work |-> w, text |-> t]]
    BY <1>1, ChatArrives
  <2>2. [op |-> "chat", proc |-> p, work |-> w, text |-> t] \in Jobs
    BY DEF Jobs, Operations
  <2>3. Arrives(c, c, [op |-> "chat", proc |-> p, work |-> w, text |-> t], "lock")
    BY <1>1, <2>1 DEF StartChat
  <2> QED
    BY <2>2, <2>3
<1>2. ASSUME NEW r \in Calls, Answerable(r) \/ (\E task : StatusOf(r, task) \in Active)
          \/ root[r] = "failed"
      PROVE  /\ pc[r] # "idle" /\ job[r].work \in Works
             /\ \A o \in Operations, t \in {"message", "stop"} :
                  [op |-> o, proc |-> Web, work |-> job[r].work, text |-> t] \in Jobs
  <2>1. pc[r] # "idle"
    BY <1>2 DEF ArrivalInv, TasksOfCalls, Answerable, StatusOf, Active
  <2>2. job[r].work \in Works
    BY <2>1 DEF ArrivalInv, PlaceKnown
  <2> QED
    BY <2>1, <2>2, LifecycleAssumption DEF Jobs
<1>3. CASE StartSubmit(c)
  <2>1. PICK r \in Calls :
          /\ Answerable(r) /\ Arrive(c, "submit", <<Web, job[r].work>>, r, "message")
          /\ Goto(c, "lock") /\ UNCHANGED target
    BY <1>3 DEF StartSubmit
  <2>2. Arrives(c, r, [op |-> "submit", proc |-> Web, work |-> job[r].work,
                       text |-> "message"], "lock")
    BY <2>1, <1>2
  <2> QED
    BY <2>1, <2>2, <1>2 DEF Operations
<1>4. CASE StartRetry(c)
  <2>1. PICK r \in Calls :
          /\ root[r] = "failed" /\ Arrive(c, "retry", <<Web, job[r].work>>, c, job[r].text)
          /\ Goto(c, "find") /\ UNCHANGED target
    BY <1>4 DEF StartRetry
  <2>2. job[r].text \in {"message", "stop"}
    BY DEF Jobs
  <2>3. Arrives(c, c, [op |-> "retry", proc |-> Web, work |-> job[r].work,
                       text |-> job[r].text], "find")
    BY <2>1
  <2> QED
    BY <2>1, <2>2, <2>3, <1>2 DEF Operations
<1>5. CASE StartCancel(c)
  <2>1. PICK r \in Calls, task \in {"manager", "root"} :
          /\ StatusOf(r, task) \in Active
          /\ Arrive(c, "cancel", <<Web, job[r].work>>, r, "message")
          /\ target' = [target EXCEPT ![c] = task] /\ Goto(c, "cancel look")
    BY <1>5 DEF StartCancel
  <2>2. Arrives(c, r, [op |-> "cancel", proc |-> Web, work |-> job[r].work,
                       text |-> "message"], "cancel look")
    BY <2>1, <1>2
  <2>3. [op |-> "cancel", proc |-> Web, work |-> job[r].work, text |-> "message"] \in Jobs
    BY <2>1, <1>2 DEF Operations
  <2> QED
    BY <2>2, <2>3
<1> QED
  BY <1>1, <1>3, <1>4, <1>5 DEF Start

LEMMA OpensOwnStep == TypeOK /\ ArrivalInv /\ OpensOwn /\ [Next]_vars => OpensOwn'
<1> SUFFICES ASSUME TypeOK, ArrivalInv, OpensOwn, [Next]_vars PROVE OpensOwn'
  OBVIOUS
<1>1. ASSUME NEW c \in Calls, Start(c) PROVE OpensOwn'
  <2>1. PICK r \in Calls, j \in Jobs, x \in {"lock", "find", "cancel look"} :
          Arrives(c, r, j, x)
    BY <1>1, StartFrame
  <2>2. Opens(c)' => about'[c] = c
    BY <2>1 DEF Arrives, Opens, TypeOK
  <2>3. \A d \in Calls \ {c} : pc'[d] = pc[d] /\ job'[d] = job[d] /\ about'[d] = about[d]
    BY <2>1 DEF Arrives, TypeOK
  <2> QED
    BY <2>2, <2>3 DEF OpensOwn, Opens
<1>2. ASSUME NEW c \in Calls, Step(c) PROVE OpensOwn'
  BY ZenonT(60), <1>2, StepFrame DEF OpensOwn, Opens, CallsKept
<1>3. ASSUME NEW p \in Procs, Crash(p) PROVE OpensOwn'
  BY <1>3 DEF Crash, locals, OpensOwn, Opens
<1>4. CASE UNCHANGED vars
  BY <1>4 DEF vars, locals, OpensOwn, Opens
<1> QED
  BY <1>1, <1>2, <1>3, <1>4 DEF Next, Over

LEMMA OwnWorkStep ==
    TypeOK /\ ArrivalInv /\ OpensOwn /\ AnswersOwnWork /\ [Next]_vars => AnswersOwnWork'
<1> SUFFICES ASSUME TypeOK, ArrivalInv, OpensOwn, AnswersOwnWork, [Next]_vars
             PROVE  AnswersOwnWork'
  OBVIOUS
<1>1. ASSUME NEW c \in Calls, Start(c) PROVE AnswersOwnWork'
  <2>1. PICK r \in Calls, j \in Jobs, x \in {"lock", "find", "cancel look"} :
          Arrives(c, r, j, x)
    BY <1>1, StartFrame
  <2>2. \A d \in Calls \ {c} : pc[d] # "idle" => about[d] # c
    BY <2>1 DEF Arrives, ArrivalInv, AboutArrived
  <2>3. job'[about'[c]].work = job'[c].work
    BY <2>1 DEF Arrives, TypeOK
  <2>4. \A d \in Calls \ {c} : pc'[d] = pc[d] /\ job'[d] = job[d] /\ about'[d] = about[d]
    BY <2>1 DEF Arrives, TypeOK
  <2>5. \A d \in Calls : about[d] \in Calls
    BY DEF TypeOK
  <2>6. ASSUME NEW d \in Calls \ {c}, pc'[d] # "idle"
        PROVE  job'[about'[d]].work = job'[d].work
    <3>1. pc[d] # "idle" /\ about'[d] = about[d] /\ about[d] \in Calls \ {c}
      BY <2>2, <2>4, <2>5, <2>6
    <3> QED
      BY ZenonT(60), <2>4, <3>1 DEF AnswersOwnWork
  <2> QED
    BY <2>3, <2>6 DEF AnswersOwnWork
<1>2. ASSUME NEW c \in Calls, Step(c) PROVE AnswersOwnWork'
  <2>1. CASE FindPending(c)
    <3>1. UNCHANGED job /\ pc[c] # "idle"
      BY <2>1 DEF FindPending, At
    <3>2. \A d \in Calls : pc'[d] # "idle" => pc[d] # "idle"
      <4>1. \E x : pc' = [pc EXCEPT ![c] = x]
        BY <2>1 DEF FindPending, Goto, GotoIf
      <4> QED
        BY <3>1, <4>1 DEF TypeOK
    <3>3. \/ UNCHANGED about
          \/ \E r \in Calls : job[r].work = job[c].work /\ about' = [about EXCEPT ![c] = r]
      BY <2>1, FindStep DEF InWork
    <3> QED
      BY <3>1, <3>2, <3>3 DEF AnswersOwnWork, TypeOK
  <2>2. CASE ~FindPending(c)
    <3>1. pc[c] # "find"
      BY <1>2, <2>2 DEF Step, OpenSteps, GroupChatSteps, SettleSteps, AnswerSteps,
         CancelSteps, AcquireLock, CreateRequest, CreateRoot, OpenRequest, OpenRoot,
         RunDirect, Delegate, StartManager, GroupChatEnds, GroupChatAsks, Park, Mark,
         SettleRequest, SettleRoot, Notify, Reopen, Unmark, ReopenRoot, ReopenRequest,
         Resume, TakeAnswer, Wake, CancelCheck, CancelLook, CancelWrite, CancelRequest,
         CancelUnmark, At
    <3>2. UNCHANGED <<about, job>> /\ \A d \in Calls : pc'[d] # "idle" => pc[d] # "idle"
      BY <1>2, <3>1, StepFrame DEF CallsKept, Inside
    <3> QED
      BY <3>2 DEF AnswersOwnWork
  <2> QED
    BY <2>1, <2>2
<1>3. ASSUME NEW p \in Procs, Crash(p) PROVE AnswersOwnWork'
  BY <1>3 DEF Crash, locals, AnswersOwnWork
<1>4. CASE UNCHANGED vars
  BY <1>4 DEF vars, locals, AnswersOwnWork
<1> QED
  BY <1>1, <1>2, <1>3, <1>4 DEF Next, Over

-----------------------------------------------------------------------------
\* Every variable keeps its type, in any number of calls, works and processes.
THEOREM TypeCorrect == Spec => []TypeOK
<1>1. Init => TypeInv
  BY TypeInit
<1>2. TypeInv /\ [Next]_vars => TypeInv'
  BY TypeStep, OutcomeStep DEF TypeInv
<1>3. TypeInv => TypeOK
  BY DEF TypeInv
<1> QED
  BY <1>1, <1>2, <1>3, PTL DEF Spec

\* The inductive invariant of the lock and of whose request a call works on.
CallInv == TypeInv /\ ArrivalInv /\ LockHeld /\ OpensOwn /\ AnswersOwnWork

LEMMA CallInit == Init => CallInv
<1> SUFFICES ASSUME Init PROVE ArrivalInv /\ LockHeld /\ OpensOwn /\ AnswersOwnWork
  BY TypeInit DEF CallInv
<1> QED
  BY DEF Init, ArrivalInv, PlaceKnown, TasksOfCalls, AboutArrived, LockHeld, Busy,
     Inside, OpensOwn, Opens, AnswersOwnWork

LEMMA CallStep == CallInv /\ [Next]_vars => CallInv'
<1> SUFFICES ASSUME CallInv, [Next]_vars PROVE CallInv'
  OBVIOUS
<1>1. TypeInv'
  BY TypeStep, OutcomeStep DEF CallInv, TypeInv
<1>2. ArrivalInv'
  BY ArrivalStep DEF CallInv, TypeInv
<1>3. LockHeld'
  BY LockStep DEF CallInv, TypeInv, ArrivalInv
<1>4. OpensOwn'
  BY OpensOwnStep DEF CallInv, TypeInv
<1>5. AnswersOwnWork'
  BY OwnWorkStep DEF CallInv, TypeInv
<1> QED
  BY <1>1, <1>2, <1>3, <1>4, <1>5 DEF CallInv

\* The work lock excludes: calls of one process that take it are never both
\* inside one work, whatever calls without the lock and crashes interleave.
THEOREM MutualExclusion == Spec => []OneCallPerWork
<1>1. CallInv => OneCallPerWork
  BY DEF CallInv, LockHeld, OneCallPerWork
<1> QED
  BY CallInit, CallStep, <1>1, PTL DEF Spec

\* A message answers or stops questions of its own work only: also a retry, which
\* looks without the lock, and whatever the processes do at the same time.
THEOREM OwnWorkOnly == Spec => []AnswersOwnWork
<1>1. CallInv => AnswersOwnWork
  BY DEF CallInv
<1> QED
  BY CallInit, CallStep, <1>1, PTL DEF Spec

\* Every call does one of the operations of the run.
KnownOps == \A c \in Calls : pc[c] # "idle" => job[c].op \in Ops

LEMMA KnownOpsStep == TypeOK /\ ArrivalInv /\ OpensOwn /\ KnownOps /\ [Next]_vars => KnownOps'
<1> SUFFICES ASSUME TypeOK, ArrivalInv, OpensOwn, KnownOps, [Next]_vars PROVE KnownOps'
  OBVIOUS
<1>1. ASSUME NEW c \in Calls, Start(c) PROVE KnownOps'
  <2>1. PICK r \in Calls, j \in Jobs, x \in {"lock", "find", "cancel look"} :
           Arrives(c, r, j, x)
    BY <1>1, StartFrame
  <2>2. job' = [job EXCEPT ![c] = j] /\ pc' = [pc EXCEPT ![c] = x] /\ j.op \in Ops
    BY <2>1 DEF Arrives
  <2>3. DOMAIN job = Calls /\ DOMAIN pc = Calls
    BY DEF TypeOK
  <2> QED
    BY <2>2, <2>3 DEF KnownOps
<1>2. ASSUME NEW c \in Calls, Step(c) PROVE KnownOps'
  <2>1. CallsKept(c) /\ UNCHANGED job /\ pc[c] # "idle"
    BY <1>2, StepFrame DEF Inside
  <2> QED
    BY <2>1 DEF KnownOps, CallsKept
<1>3. ASSUME NEW p \in Procs, Crash(p) PROVE KnownOps'
  BY <1>3 DEF Crash, locals, KnownOps
<1>4. CASE UNCHANGED vars
  BY <1>4 DEF vars, locals, KnownOps
<1> QED
  BY <1>1, <1>2, <1>3, <1>4 DEF Next, Over

\* A message that is taken as an answer, or as a stop, goes to a question whose marker
\* stands, whatever processes, cancellations and crashes interleave, as long as nobody
\* retries: the retry is the one call that guesses (_chat_locked, retry_task).
THEOREM ByMarkerUnlessRetried == ASSUME "retry" \notin Ops PROVE Spec => ResumesByMarker
<1>1. Init => CallInv /\ KnownOps
  BY CallInit DEF Init, KnownOps
<1>2. CallInv /\ KnownOps /\ [Next]_vars => (CallInv /\ KnownOps)'
  BY CallStep, KnownOpsStep DEF CallInv, TypeInv
<1>3. CallInv /\ KnownOps /\ [Next]_vars =>
        [\A c \in Calls :
           At(c, "find") /\ pc'[c] \in {"reopen", "cancel check"} => Marked(about'[c])]_vars
  <2> SUFFICES ASSUME CallInv, KnownOps, Next, NEW c \in Calls, pc[c] = "find",
                      pc'[c] \in {"reopen", "cancel check"}
               PROVE  Marked(about'[c])
    BY DEF At
  <2>1. FindPending(c)
    <3>1. ASSUME NEW d \in Calls \ {c}, Start(d) \/ Step(d) PROVE FALSE
      <4>1. pc'[c] = pc[c]
        <5>1. CASE Step(d)
          BY <5>1, StepFrame DEF CallInv, TypeInv, CallsKept
        <5>2. CASE Start(d)
          <6>1. PICK r \in Calls, j \in Jobs, x \in {"lock", "find", "cancel look"} :
                   Arrives(d, r, j, x)
            BY <5>2, StartFrame DEF CallInv, TypeInv
          <6>2. pc' = [pc EXCEPT ![d] = x] /\ DOMAIN pc = Calls
            BY <6>1 DEF Arrives, CallInv, TypeInv, TypeOK
          <6> QED
            BY <6>2
        <5> QED
          BY <3>1, <5>1, <5>2
      <4> QED
        BY <4>1
    <3>2. ~Start(c)
      BY DEF Start, StartChat, StartSubmit, StartRetry, StartCancel, Arrive, At
    <3>3. Step(c) => FindPending(c)
      BY DEF Step, OpenSteps, GroupChatSteps, SettleSteps, AnswerSteps,
         CancelSteps, AcquireLock, CreateRequest, CreateRoot, OpenRequest, OpenRoot,
         RunDirect, Delegate, StartManager, GroupChatEnds, GroupChatAsks, Park, Mark,
         SettleRequest, SettleRoot, Notify, Reopen, Unmark, ReopenRoot, ReopenRequest,
         Resume, TakeAnswer, Wake, CancelCheck, CancelLook, CancelWrite, CancelRequest,
         CancelUnmark, At
    <3>4. ASSUME NEW p \in Procs, Crash(p) PROVE FALSE
      <4>1. pc'[c] \in {"crashed", pc[c]}
        BY <3>4 DEF Crash
      <4> QED
        BY <4>1
    <3>5. ~Over
      BY DEF Over
    <3> QED
      BY <3>1, <3>2, <3>3, <3>4, <3>5 DEF Next
  <2>2. job[c].op # "retry"
    BY DEF KnownOps
  <2>3. PICK r \in Calls : Finds(c, r) /\ about' = [about EXCEPT ![c] = r]
    <3>1. DOMAIN pc = Calls
      BY DEF CallInv, TypeInv, TypeOK
    <3>2. pc' # [pc EXCEPT ![c] = "create request"]
      BY <3>1
    <3> QED
      BY <2>1, <3>2 DEF FindPending, Goto
  <2>4. about'[c] = r
    BY <2>3 DEF CallInv, TypeInv, TypeOK
  <2> QED
    BY <2>2, <2>3, <2>4 DEF Finds, FindsMarked
<1> QED
  BY <1>1, <1>2, <1>3, PTL DEF Spec, ResumesByMarker

=============================================================================
