------------------------ MODULE TaskInterruptionProofs ------------------------
(***************************************************************************)
(* Proofs about TaskLifecycle in one process that is interrupted: messages *)
(* and answers, which hold the work lock, the cancel endpoint, which does  *)
(* not, and crashes; any number of calls, works and questions.             *)
(*                                                                         *)
(* The inductive invariant says what a locking call may still rely on at   *)
(* each point (Turn), although a cancellation from outside may turn either *)
(* task to cancelled under it: pending questions are the lock's alone, and *)
(* a root that waits has its question or a cancelled manager task.         *)
(***************************************************************************)
EXTENDS TaskLifecycleProofs

\* One process, and every call but a cancellation takes the work lock.
OneLock == Procs = {Web} /\ "retry" \notin Ops

CancelPoints == {"cancel look", "cancel write", "cancel request", "cancel unmark"}

\* Points of a call whose request has no manager task yet.
BeforeTask ==
    {"find", "create request", "create root", "open request", "open root", "delegate"}

\* Points at which the root of the request does not wait.
Running ==
    BeforeTask \cup
    {"start manager", "group chat", "park", "mark", "settle request", "settle root",
     "reopen request", "resume", "take", "wake"}

\* What a locking call c, inside and about r, relies on.
Turn(c, r) ==
    /\ pc[c] # "run"
    /\ manager[r] = "waiting_input" /\ pending[r] = 0 => pc[c] = "wake"
    /\ pc[c] \in BeforeTask => manager[r] = "absent"
    /\ pc[c] \in Running => root[r] # "waiting_input"
    /\ pc[c] = "group chat" => manager[r] # "absent"
    /\ pc[c] \in {"start manager", "group chat", "wake"} => pending[r] = 0
    /\ pc[c] \in {"park", "take"} => pending[r] # 0
    /\ pc[c] \in {"mark", "settle request", "settle root"} /\ verdict[c] \in {"ask", "blank"}
         => pending[r] # 0 /\ manager[r] \in {"waiting_input", "cancelled"}
    /\ pc[c] \in {"cancel check", "cancel look", "cancel write"} =>
         /\ root[r] \in {"waiting_input", "cancelled"}
         /\ manager[r] \in {"waiting_input", "cancelled"}
    /\ pc[c] \in {"cancel look", "cancel write"} /\ target[c] = "root" =>
         manager[r] = "cancelled"
    /\ pc[c] \in {"cancel request", "cancel unmark"} =>
         manager[r] = "cancelled" /\ root[r] = "cancelled"

TurnInv == \A c \in Calls : Busy(c) /\ Locking(c) => Turn(c, about[c])

\* Who is where: a call without the lock is cancelling, and has seen what it
\* is about to cancel.
WhoWhere ==
    \A c \in Calls :
        /\ pc[c] # "idle" => job[c].op \in {"chat", "submit", "cancel"}
        /\ job[c].op = "cancel" => job[c].text = "message"
        /\ Busy(c) /\ ~Locking(c) => pc[c] \in CancelPoints
        /\ pc[c] = "lock" => Locking(c)
        /\ pc[c] = "cancel write" => StatusOf(about[c], target[c]) # "absent"
        /\ verdict[c] = "stopped" => pc[c] = "returned"

\* What a call at the lock relies on: it is about its own request, still without
\* a task, or about one whose question, if it waits, is open or being taken.
QueueInv ==
    \A c \in Calls : Locking(c) =>
        /\ about[c] # c => manager[about[c]] # "absent"
        /\ pc[c] = "lock" /\ job[c].op = "chat" => manager[c] = "absent"
        /\ pc[c] = "lock" /\ manager[about[c]] = "waiting_input" /\ pending[about[c]] = 0
             => \E d \in Calls : pc[d] = "wake" /\ Locking(d) /\ about[d] = about[c]

\* The rows of a request, whoever works on it.
Counted(r) == answers[r] + (IF pending[r] = 0 THEN 0 ELSE 1) = asks[r]
Sound(r) ==
    /\ manager[r] = "absent" => pending[r] = 0
    /\ root[r] = "waiting_input" =>
         manager[r] = "cancelled" \/ (manager[r] = "waiting_input" /\ pending[r] # 0)
RowsInv == \A r \in Calls : Sound(r) /\ Counted(r)

\* A request a "stop" message has stopped stays so: a call that waited for the
\* lock meanwhile finds nothing to resume.
StopInv ==
    \A c \in Calls : verdict[c] = "stopped" /\ job[c].text = "stop" =>
        /\ root[about[c]] = "cancelled" /\ manager[about[c]] = "cancelled"
        /\ \A d \in Calls : Busy(d) /\ Locking(d) /\ about[d] = about[c] =>
             pc[d] \in {"reopen", "resume"}

InterruptionInv == TurnInv /\ WhoWhere /\ QueueInv /\ RowsInv /\ StopInv

-----------------------------------------------------------------------------
(* Alone under the lock *)

LEMMA AloneInWork ==
    ASSUME OneLock, CallInv, NEW c \in Calls, NEW d \in Calls,
           Busy(c), Busy(d), Locking(c), Locking(d), job[c].work = job[d].work
    PROVE  c = d
<1>1. pc[c] # "idle" /\ pc[d] # "idle"
  BY DEF Busy, Inside
<1>2. Place(c) = Place(d)
  BY <1>1 DEF OneLock, CallInv, ArrivalInv, PlaceKnown, Place
<1> QED
  BY <1>2 DEF CallInv, LockHeld

LEMMA AloneAtRequest ==
    ASSUME OneLock, CallInv, NEW c \in Calls, Busy(c), Locking(c)
    PROVE  \A d \in Calls \ {c} : Busy(d) /\ Locking(d) => about[d] # about[c]
<1>1. \A d \in Calls : Busy(d) => job[d].work = job[about[d]].work
  BY DEF CallInv, AnswersOwnWork, Busy, Inside
<1> QED
  BY <1>1, AloneInWork

-----------------------------------------------------------------------------
(* A cancellation from outside turns tasks that exist to cancelled, and does *)
(* nothing else that the invariant speaks of.                                *)

OnlyCancels ==
    /\ \A r \in Calls :
         /\ manager'[r] # manager[r] => manager[r] # "absent" /\ manager'[r] = "cancelled"
         /\ root'[r] # root[r] => root[r] # "absent" /\ root'[r] = "cancelled"
    /\ UNCHANGED <<pending, asks, answers>>

LEMMA OutsideStep ==
    ASSUME CallInv, WhoWhere, NEW c \in Calls, Busy(c), ~Locking(c), Step(c)
    PROVE  /\ OnlyCancels
           /\ UNCHANGED about
           /\ pc'[c] \in CancelPoints \cup {"returned"}
           /\ pc'[c] = "cancel write" => StatusOf(about[c], target[c])' # "absent"
           /\ verdict'[c] = "stopped" => pc'[c] = "returned"
<1> USE DEF At, Goto, GotoIf, tables, locals, history, OnlyCancels, CancelPoints
<1>1. pc[c] \in CancelPoints /\ verdict[c] # "stopped" /\ TypeOK
  BY DEF WhoWhere, CallInv, TypeInv, Busy, Inside
<1>2. CASE CancelLook(c)
  <2>1. UNCHANGED <<root, manager, pending, asks, answers, about, verdict>>
    BY <1>2 DEF CancelLook
  <2>2. \/ /\ pc' = [pc EXCEPT ![c] = "cancel write"] /\ UNCHANGED target
           /\ StatusOf(about[c], target[c]) # "absent"
        \/ \E x \in {"cancel look", "cancel request"} : pc' = [pc EXCEPT ![c] = x]
    <3>1. CASE StatusOf(about[c], target[c]) \in Active
      BY <1>2, <3>1 DEF CancelLook, Active
    <3>2. CASE StatusOf(about[c], target[c]) \notin Active
      BY <1>2, <3>2 DEF CancelLook, NextToCancel
    <3> QED
      BY <3>1, <3>2
  <2> QED
    BY ZenonT(60), <1>1, <2>1, <2>2 DEF StatusOf, TypeOK
<1>3. CASE CancelWrite(c)
  <2>1. StatusOf(about[c], target[c]) # "absent"
    BY <1>3 DEF CancelWrite, WhoWhere
  <2>2. OnlyCancels
    BY <1>1, <1>3, <2>1 DEF CancelWrite, StatusOf, TypeOK
  <2>3. UNCHANGED <<about, verdict>> /\ pc'[c] \in {"cancel look", "cancel request"}
    <3>1. \E x \in {"cancel look", "cancel request"} : pc' = [pc EXCEPT ![c] = x]
      BY <1>3 DEF CancelWrite, NextToCancel
    <3>2. UNCHANGED <<about, verdict>>
      BY <1>3 DEF CancelWrite
    <3> QED
      BY <1>1, <3>1, <3>2 DEF TypeOK
  <2> QED
    BY <1>1, <2>2, <2>3
<1>4. CASE CancelRequest(c)
  BY <1>1, <1>4 DEF CancelRequest, TypeOK
<1>5. CASE CancelUnmark(c)
  BY <1>1, <1>5 DEF CancelUnmark, TypeOK
<1> QED
  BY <1>1, <1>2, <1>3, <1>4, <1>5 DEF Step, OpenSteps, GroupChatSteps, SettleSteps,
     AnswerSteps, CancelSteps, AcquireLock, FindPending, CreateRequest, CreateRoot,
     OpenRequest, OpenRoot, RunDirect, Delegate, StartManager, GroupChatEnds,
     GroupChatAsks, Park, Mark, SettleRequest, SettleRoot, Notify, Reopen, Unmark,
     ReopenRoot, ReopenRequest, Resume, TakeAnswer, Wake, CancelCheck

LEMMA OutsideKeeps ==
    ASSUME CallInv, InterruptionInv, NEW c \in Calls, Busy(c), ~Locking(c), Step(c)
    PROVE  InterruptionInv'
<1>1. /\ CallsKept(c) /\ UNCHANGED <<job, about>> /\ OnlyCancels
      /\ pc'[c] \in CancelPoints \cup {"returned"}
      /\ pc'[c] = "cancel write" => StatusOf(about[c], target[c])' # "absent"
      /\ verdict'[c] = "stopped" => pc'[c] = "returned"
  BY OutsideStep, StepFrame DEF CallInv, TypeInv, InterruptionInv
<1>2. /\ about \in [Calls -> Calls] /\ UNCHANGED <<pending, asks, answers>>
      /\ \A r \in Calls :
           /\ manager'[r] # manager[r] => manager[r] # "absent" /\ manager'[r] = "cancelled"
           /\ root'[r] # root[r] => root[r] # "absent" /\ root'[r] = "cancelled"
  BY <1>1 DEF OnlyCancels, CallInv, TypeInv, TypeOK
<1>3. \A d \in Calls : Locking(d)' = Locking(d) /\ (Locking(d) => d # c)
  BY <1>1 DEF Locking
<1>4. TurnInv'
  <2> SUFFICES ASSUME NEW d \in Calls, Busy(d)', Locking(d)' PROVE Turn(d, about[d])'
    BY DEF TurnInv
  <2>1. /\ d # c /\ pc'[d] = pc[d] /\ about'[d] = about[d] /\ about[d] \in Calls
        /\ verdict'[d] = verdict[d] /\ target'[d] = target[d]
    BY <1>1, <1>2, <1>3 DEF CallsKept
  <2>2. Turn(d, about[d])
    BY <2>1, <1>3 DEF InterruptionInv, TurnInv, Busy
  <2> QED
    BY <1>2, <2>1, <2>2 DEF Turn
<1>5. WhoWhere'
  <2> SUFFICES ASSUME NEW d \in Calls
               PROVE  /\ pc'[d] # "idle" => job'[d].op \in {"chat", "submit", "cancel"}
                      /\ job'[d].op = "cancel" => job'[d].text = "message"
                      /\ (Busy(d) /\ ~Locking(d))' => pc'[d] \in CancelPoints
                      /\ pc'[d] = "lock" => Locking(d)'
                      /\ pc'[d] = "cancel write" => StatusOf(about[d], target[d])' # "absent"
                      /\ verdict'[d] = "stopped" => pc'[d] = "returned"
    BY DEF WhoWhere
  <2>1. WhoWhere /\ job' = job /\ Locking(d)' = Locking(d)
    BY <1>1, <1>3 DEF InterruptionInv
  <2>2. CASE d = c
    <3>1. pc[c] # "idle" /\ pc'[c] # "lock"
      BY <1>1 DEF Busy, Inside, CancelPoints
    <3>2. ~Busy(c)' \/ pc'[c] \in CancelPoints
      BY <1>1 DEF Busy, Inside
    <3> QED
      BY <1>1, <2>1, <2>2, <3>1, <3>2 DEF WhoWhere
  <2>3. CASE d # c
    <3>1. /\ pc'[d] = pc[d] /\ about'[d] = about[d] /\ target'[d] = target[d]
          /\ verdict'[d] = verdict[d] /\ about[d] \in Calls
      BY <1>1, <1>2, <2>3 DEF CallsKept
    <3>2. StatusOf(about[d], target[d]) # "absent" => StatusOf(about[d], target[d])' # "absent"
      BY <1>2, <3>1 DEF StatusOf
    <3> QED
      BY <2>1, <3>1, <3>2 DEF WhoWhere, Busy
  <2> QED
    BY <2>2, <2>3
<1>6. QueueInv'
  <2> SUFFICES ASSUME NEW d \in Calls, Locking(d)'
               PROVE  /\ about'[d] # d => manager'[about'[d]] # "absent"
                      /\ pc'[d] = "lock" /\ job'[d].op = "chat" => manager'[d] = "absent"
                      /\ /\ pc'[d] = "lock" /\ manager'[about'[d]] = "waiting_input"
                         /\ pending'[about'[d]] = 0
                         => \E e \in Calls : pc'[e] = "wake" /\ Locking(e)' /\ about'[e] = about'[d]
    BY DEF QueueInv
  <2>1. d # c /\ Locking(d) /\ about'[d] = about[d] /\ about[d] \in Calls
        /\ pc'[d] = pc[d] /\ job'[d] = job[d]
    BY <1>1, <1>2, <1>3 DEF CallsKept
  <2>2. \A e \in Calls : pc[e] = "wake" /\ Locking(e) =>
          pc'[e] = "wake" /\ Locking(e)' /\ about'[e] = about[e]
    BY <1>1, <1>3 DEF CallsKept
  <2> QED
    BY <1>2, <2>1, <2>2 DEF InterruptionInv, QueueInv
<1>7. RowsInv'
  BY <1>2 DEF InterruptionInv, RowsInv, Sound, Counted
<1>8. StopInv'
  <2> SUFFICES ASSUME NEW e \in Calls, verdict'[e] = "stopped", job'[e].text = "stop"
               PROVE  /\ root'[about'[e]] = "cancelled" /\ manager'[about'[e]] = "cancelled"
                      /\ \A d \in Calls : (Busy(d) /\ Locking(d))' /\ about'[d] = about'[e] =>
                           pc'[d] \in {"reopen", "resume"}
    BY DEF StopInv
  <2>1. e # c
    <3>1. job[c].op = "cancel"
      BY DEF InterruptionInv, WhoWhere, Locking, Busy, Inside
    <3> QED
      BY <1>1, <3>1 DEF InterruptionInv, WhoWhere
  <2>2. verdict[e] = "stopped" /\ job[e].text = "stop" /\ about'[e] = about[e] /\ about[e] \in Calls
    BY <1>1, <1>2, <2>1 DEF CallsKept
  <2>3. \A d \in Calls : (Busy(d) /\ Locking(d))' =>
          Busy(d) /\ Locking(d) /\ about'[d] = about[d] /\ pc'[d] = pc[d]
    BY <1>1, <1>3 DEF CallsKept, Busy
  <2> QED
    BY <1>2, <2>2, <2>3 DEF InterruptionInv, StopInv
<1> QED
  BY <1>4, <1>5, <1>6, <1>7, <1>8 DEF InterruptionInv

-----------------------------------------------------------------------------
(* A step of the call that holds the lock *)

\* What a step of c, inside and about r, leaves behind.
Moves(c, r) ==
    /\ Busy(c)' => Turn(c, r)'
    /\ Sound(r)' /\ Counted(r)'
    /\ manager[r] # "absent" => manager'[r] # "absent"
    /\ root[r] # "absent" => root'[r] # "absent"
    /\ manager'[r] = "waiting_input" /\ pending'[r] = 0 => pc'[c] = "wake"
    /\ root[r] = "cancelled" /\ manager[r] = "cancelled" /\ pc[c] \in {"reopen", "resume"} =>
         /\ root'[r] = "cancelled" /\ manager'[r] = "cancelled"
         /\ pc'[c] \in {"resume", "returned"}
    /\ verdict'[c] = "stopped" =>
         pc'[c] = "returned" /\ root'[r] = "cancelled" /\ manager'[r] = "cancelled"

\* Asking a question when none is open, and taking the open one.
LEMMA Counting ==
    ASSUME NEW n \in Nat, NEW p \in Nat, NEW q \in Nat,
           n + (IF p = 0 THEN 0 ELSE 1) = q
    PROVE  /\ q + 1 # 0
           /\ p = 0 => n + (IF q + 1 = 0 THEN 0 ELSE 1) = q + 1
           /\ p # 0 => n + 1 = q
OBVIOUS

LEMMA LockedStep ==
    ASSUME TypeOK, OutcomeKnown, OpensOwn, NEW c \in Calls, NEW r \in Calls, r = about[c],
           Busy(c), Locking(c), Turn(c, r), Sound(r), Counted(r), verdict[c] # "stopped",
           Step(c), ~FindPending(c)
    PROVE  Moves(c, r)
<1> USE DEF At, Goto, GotoIf, tables, locals, history
<1>1. /\ TypeOK /\ r = about[c] /\ Locking(c)
      /\ Opens(c) => c = r
  BY DEF OpensOwn
<1>2. /\ Turn(c, r) /\ Sound(r) /\ Counted(r) /\ verdict[c] # "stopped"
      /\ asks[r] \in Nat /\ answers[r] \in Nat /\ pending[r] \in Nat
  BY DEF TypeOK
<1>3. CASE CreateRequest(c)
  <2>1. /\ UNCHANGED <<root, manager, pending, asks, answers, verdict, target>>
        /\ pc[c] = "create request" /\ pc'[c] = "create root"
    BY <1>1, <1>3 DEF CreateRequest, TypeOK, Opens
  <2> QED
    BY <1>2, <2>1 DEF Moves, Turn, Sound, Counted, Running, BeforeTask
<1>4. CASE CreateRoot(c)
  <2>1. /\ UNCHANGED <<manager, pending, asks, answers, verdict, target>>
        /\ pc[c] = "create root" /\ root'[r] = "created" /\ pc'[c] = "open request"
    BY <1>1, <1>4 DEF CreateRoot, TypeOK, Opens
  <2> QED
    BY <1>2, <2>1 DEF Moves, Turn, Sound, Counted, Running, BeforeTask
<1>5. CASE OpenRequest(c)
  <2>1. /\ UNCHANGED <<root, manager, pending, asks, answers, verdict, target>>
        /\ pc[c] = "open request" /\ pc'[c] = "open root"
    BY <1>1, <1>5 DEF OpenRequest, TypeOK, Opens
  <2> QED
    BY <1>2, <2>1 DEF Moves, Turn, Sound, Counted, Running, BeforeTask
<1>6. CASE OpenRoot(c)
  <2>1. /\ UNCHANGED <<manager, pending, asks, answers, verdict, target>>
        /\ pc[c] = "open root" /\ root'[r] = "in_progress" /\ pc'[c] = "delegate"
    BY <1>1, <1>6 DEF OpenRoot, TypeOK, Opens, Locking
  <2> QED
    BY <1>2, <2>1 DEF Moves, Turn, Sound, Counted, Running, BeforeTask
<1>7. CASE Delegate(c)
  <2>1. /\ UNCHANGED <<root, pending, asks, answers, verdict, target>>
        /\ pc[c] = "delegate" /\ manager'[r] = "created" /\ pc'[c] = "start manager"
    BY <1>1, <1>7 DEF Delegate, TypeOK, Opens
  <2> QED
    BY <1>2, <2>1 DEF Moves, Turn, Sound, Counted, Running, BeforeTask
<1>8. CASE StartManager(c)
  <2>1. /\ UNCHANGED <<root, pending, asks, answers, verdict, target>>
        /\ pc[c] = "start manager" /\ manager'[r] = "in_progress" /\ pc'[c] = "group chat"
    BY <1>1, <1>8 DEF StartManager, TypeOK, Opens
  <2> QED
    BY <1>2, <2>1 DEF Moves, Turn, Sound, Counted, Running, BeforeTask
<1>9. CASE GroupChatEnds(c)
  <2>1. /\ UNCHANGED <<root, pending, asks, answers, target>>
        /\ pc[c] = "group chat" /\ manager'[r] \in {"done", "failed"}
        /\ pc'[c] = "mark" /\ verdict'[c] \in {"done", "failed"}
    BY <1>1, <1>9 DEF GroupChatEnds, TypeOK, Opens
  <2> QED
    BY <1>2, <2>1 DEF Moves, Turn, Sound, Counted, Running, BeforeTask
<1>10. CASE GroupChatAsks(c)
  <2>1. /\ UNCHANGED <<root, manager, answers, target>>
        /\ pc[c] = "group chat" /\ pending'[r] = asks[r] + 1
        /\ asks'[r] = asks[r] + 1 /\ pc'[c] = "park" /\ verdict'[c] \in {"ask", "blank"}
    BY <1>1, <1>10 DEF GroupChatAsks, TypeOK, Opens
  <2>2. pending[r] = 0 /\ root[r] # "waiting_input"
    BY <1>2, <2>1 DEF Turn, Running
  <2>3. /\ asks[r] + 1 # 0
        /\ answers[r] + (IF asks[r] + 1 = 0 THEN 0 ELSE 1) = asks[r] + 1
    BY <1>2, <2>2, Counting DEF Counted
  <2>4. pending'[r] # 0 /\ Counted(r)'
    BY <2>1, <2>3 DEF Counted
  <2> QED
    BY <1>2, <2>1, <2>2, <2>4 DEF Moves, Turn, Sound, Running, BeforeTask
<1>11. CASE Park(c)
  <2>1. /\ UNCHANGED <<root, pending, asks, answers, verdict, target>>
        /\ pc[c] = "park" /\ manager'[r] = "waiting_input" /\ pc'[c] = "mark"
    BY <1>1, <1>11 DEF Park, TypeOK, Opens
  <2> QED
    BY <1>2, <2>1 DEF Moves, Turn, Sound, Counted, Running, BeforeTask
<1>12. CASE Mark(c)
  <2>1. /\ UNCHANGED <<root, manager, pending, asks, answers, verdict, target>>
        /\ pc[c] = "mark" /\ pc'[c] = "settle request"
    BY <1>1, <1>12 DEF Mark, TypeOK, Opens
  <2> QED
    BY <1>2, <2>1 DEF Moves, Turn, Sound, Counted, Running, BeforeTask
<1>13. CASE SettleRequest(c)
  <2>1. /\ UNCHANGED <<root, manager, pending, asks, answers, verdict, target>>
        /\ pc[c] = "settle request" /\ pc'[c] = "settle root"
    BY <1>1, <1>13 DEF SettleRequest, TypeOK, Opens
  <2> QED
    BY <1>2, <2>1 DEF Moves, Turn, Sound, Counted, Running, BeforeTask
<1>14. CASE SettleRoot(c)
  <2>1. /\ UNCHANGED <<manager, pending, asks, answers, verdict, target>>
        /\ pc[c] = "settle root" /\ root'[r] = Outcome(c) /\ pc'[c] = "notify"
    BY <1>1, <1>14 DEF SettleRoot, TypeOK, Opens
  <2>2. verdict[c] \in {"done", "failed", "ask", "blank"}
    BY <2>1 DEF OutcomeKnown
  <2> QED
    BY <1>2, <2>1, <2>2 DEF Outcome, Moves, Turn, Sound, Counted, Running, BeforeTask
<1>15. CASE Notify(c)
  <2>1. /\ UNCHANGED <<root, manager, pending, asks, answers, verdict, target>>
        /\ pc[c] = "notify" /\ pc'[c] = "returned"
    BY <1>1, <1>15 DEF Notify, TypeOK, Opens
  <2> QED
    BY <1>2, <2>1 DEF Moves, Turn, Sound, Counted, Running, BeforeTask
<1>16. CASE Unmark(c)
  <2>1. /\ UNCHANGED <<root, manager, pending, asks, answers, verdict, target>>
        /\ pc[c] = "unmark" /\ pc'[c] = "reopen root"
    BY <1>1, <1>16 DEF Unmark, TypeOK, Opens
  <2> QED
    BY <1>2, <2>1 DEF Moves, Turn, Sound, Counted, Running, BeforeTask
<1>17. CASE ReopenRoot(c)
  <2>1. /\ UNCHANGED <<manager, pending, asks, answers, verdict, target>>
        /\ pc[c] = "reopen root" /\ root'[r] = "in_progress" /\ pc'[c] = "reopen request"
    BY <1>1, <1>17 DEF ReopenRoot, TypeOK, Opens
  <2> QED
    BY <1>2, <2>1 DEF Moves, Turn, Sound, Counted, Running, BeforeTask
<1>18. CASE ReopenRequest(c)
  <2>1. /\ UNCHANGED <<root, manager, pending, asks, answers, verdict, target>>
        /\ pc[c] = "reopen request" /\ pc'[c] = "resume"
    BY <1>1, <1>18 DEF ReopenRequest, TypeOK, Opens
  <2> QED
    BY <1>2, <2>1 DEF Moves, Turn, Sound, Counted, Running, BeforeTask
<1>19. CASE TakeAnswer(c)
  <2>1. /\ UNCHANGED <<root, manager, asks, verdict, target>>
        /\ pc[c] = "take" /\ pending'[r] = 0
        /\ answers'[r] = answers[r] + 1 /\ pc'[c] = "wake"
    BY <1>1, <1>19 DEF TakeAnswer, TypeOK, Opens
  <2> QED
    BY <1>2, <2>1 DEF Moves, Turn, Sound, Counted, Running, BeforeTask
<1>20. CASE Wake(c)
  <2>1. /\ UNCHANGED <<root, pending, asks, answers, verdict, target>>
        /\ pc[c] = "wake" /\ manager'[r] = "in_progress" /\ pc'[c] = "group chat"
    BY <1>1, <1>20 DEF Wake, TypeOK, Opens
  <2> QED
    BY <1>2, <2>1 DEF Moves, Turn, Sound, Counted, Running, BeforeTask
<1>21. CASE CancelRequest(c)
  <2>1. /\ UNCHANGED <<root, manager, pending, asks, answers, verdict, target>>
        /\ pc[c] = "cancel request" /\ pc'[c] = "cancel unmark"
    BY <1>1, <1>21 DEF CancelRequest, TypeOK, Opens
  <2> QED
    BY <1>2, <2>1 DEF Moves, Turn, Sound, Counted, Running, BeforeTask

<1>22. CASE Reopen(c)
  <2>1. /\ UNCHANGED <<root, manager, pending, asks, answers, verdict, target>>
        /\ pc[c] = "reopen" /\ pc'[c] \in {"unmark", "resume"}
        /\ pc'[c] = "unmark" <=> root[r] = "waiting_input"
    BY <1>1, <1>22 DEF Reopen, RootWaits, TypeOK
  <2> QED
    BY <1>2, <2>1 DEF Moves, Turn, Sound, Counted, Running, BeforeTask
<1>23. CASE Resume(c)
  <2>1. /\ UNCHANGED <<root, manager, pending, asks, answers, verdict, target>>
        /\ pc[c] = "resume" /\ pc'[c] \in {"take", "returned"}
        /\ pc'[c] = "take" <=> manager[r] = "waiting_input"
    BY <1>1, <1>23 DEF Resume, StillWaiting, TypeOK
  <2> QED
    BY <1>2, <2>1 DEF Moves, Turn, Sound, Counted, Running, BeforeTask, Busy, Inside
<1>24. CASE CancelCheck(c)
  <2>1. /\ UNCHANGED <<root, manager, pending, asks, answers, verdict>>
        /\ pc[c] = "cancel check"
        /\ \/ pc'[c] = "cancel look" /\ target'[c] = "manager"
           \/ pc'[c] = "returned"
    BY <1>1, <1>24 DEF CancelCheck, TypeOK
  <2> QED
    BY <1>2, <2>1 DEF Moves, Turn, Sound, Counted, Running, BeforeTask, Busy, Inside
<1>25. CASE CancelLook(c)
  <2>1. /\ UNCHANGED <<root, manager, pending, asks, answers, verdict>>
        /\ pc[c] = "cancel look" /\ target[c] \in {"manager", "root"}
        /\ \/ pc'[c] = "cancel write" /\ UNCHANGED target
           \/ /\ StatusOf(r, target[c]) \notin Active
              /\ target'[c] = "root"
              /\ pc'[c] = IF target[c] = "manager" THEN "cancel look" ELSE "cancel request"
    BY <1>1, <1>25 DEF CancelLook, NextToCancel, TypeOK
  <2> QED
    BY <1>2, <2>1 DEF Moves, Turn, Sound, Counted, Running, BeforeTask, StatusOf, Active
<1>26. CASE CancelWrite(c)
  <2>1. /\ UNCHANGED <<pending, asks, answers, verdict>> /\ pc[c] = "cancel write"
        /\ \/ /\ target[c] = "manager" /\ target'[c] = "root" /\ pc'[c] = "cancel look"
              /\ manager'[r] = "cancelled" /\ UNCHANGED root
           \/ /\ target[c] = "root" /\ pc'[c] = "cancel request"
              /\ root'[r] = "cancelled" /\ UNCHANGED manager
    BY <1>1, <1>26 DEF CancelWrite, NextToCancel, TypeOK
  <2> QED
    BY <1>2, <2>1 DEF Moves, Turn, Sound, Counted, Running, BeforeTask
<1>27. CASE CancelUnmark(c)
  <2>1. /\ UNCHANGED <<root, manager, pending, asks, answers>>
        /\ pc[c] = "cancel unmark" /\ pc'[c] = "returned"
    BY <1>1, <1>27 DEF CancelUnmark, TypeOK
  <2> QED
    BY <1>2, <2>1 DEF Moves, Turn, Sound, Counted, Running, BeforeTask, Busy, Inside
<1>28. ~AcquireLock(c) /\ ~RunDirect(c)
  BY <1>2 DEF AcquireLock, RunDirect, Turn, Busy, Inside
<1> QED
  BY <1>3, <1>4, <1>5, <1>6, <1>7, <1>8, <1>9, <1>10, <1>11, <1>12, <1>13, <1>14,
     <1>15, <1>16, <1>17, <1>18, <1>19, <1>20, <1>21, <1>22, <1>23, <1>24, <1>25, <1>26,
     <1>27, <1>28
  DEF Step, OpenSteps, GroupChatSteps, SettleSteps, AnswerSteps, CancelSteps

LEMMA LockedKeeps ==
    ASSUME OneLock, CallInv, InterruptionInv, NEW c \in Calls, Busy(c), Locking(c),
           Step(c), ~FindPending(c)
    PROVE  InterruptionInv'
<1>1. PICK r \in Calls : r = about[c]
  BY DEF CallInv, TypeInv, TypeOK
<1>2. /\ CallsKept(c) /\ RowsKept(c) /\ UNCHANGED job
      /\ pc'[c] \in Inside \cup {"returned"}
      /\ pc[c] # "find" => UNCHANGED about
  BY StepFrame DEF CallInv, TypeInv
<1>3. UNCHANGED about
  <2>1. pc[c] # "find"
    BY DEF Step, OpenSteps, GroupChatSteps, SettleSteps, AnswerSteps,
       CancelSteps, AcquireLock, CreateRequest, CreateRoot, OpenRequest, OpenRoot,
       RunDirect, Delegate, StartManager, GroupChatEnds, GroupChatAsks, Park, Mark,
       SettleRequest, SettleRoot, Notify, Reopen, Unmark, ReopenRoot, ReopenRequest,
       Resume, TakeAnswer, Wake, CancelCheck, CancelLook, CancelWrite, CancelRequest,
       CancelUnmark, At
  <2> QED
    BY <1>1, <1>2, <2>1
<1>4. Moves(c, r)
  <2>1. Turn(c, r) /\ Sound(r) /\ Counted(r) /\ verdict[c] # "stopped"
    BY <1>1 DEF InterruptionInv, TurnInv, RowsInv, WhoWhere, Busy, Inside
  <2> QED
    BY <1>1, <1>2, <2>1, LockedStep DEF CallInv, TypeInv
<1>5. /\ \A d \in Calls \ {c} : Busy(d) /\ Locking(d) => about[d] # r
      /\ \A d \in Calls : Locking(d)' = Locking(d) /\ about[d] \in Calls
      /\ \A d \in Calls \ {c} : Busy(d)' = Busy(d)
  BY <1>1, <1>2, AloneAtRequest DEF Locking, Busy, CallsKept, CallInv, TypeInv, TypeOK
<1>6. r = about[c] /\ about'[c] = r
  BY <1>1, <1>2, <1>3
<1>7. TurnInv'
  <2> SUFFICES ASSUME NEW d \in Calls, Busy(d)', Locking(d)' PROVE Turn(d, about[d])'
    BY DEF TurnInv
  <2>1. CASE d = c
    BY <1>4, <1>6, <2>1 DEF Moves
  <2>2. CASE d # c
    <3>1. /\ Turn(d, about[d]) /\ about[d] \in Calls \ {r} /\ about'[d] = about[d]
          /\ pc'[d] = pc[d] /\ verdict'[d] = verdict[d] /\ target'[d] = target[d]
      BY <1>1, <1>2, <1>3, <1>5, <2>2 DEF InterruptionInv, TurnInv, CallsKept
    <3>2. /\ root'[about[d]] = root[about[d]] /\ manager'[about[d]] = manager[about[d]]
          /\ pending'[about[d]] = pending[about[d]]
      BY <1>1, <1>2, <1>6, <3>1 DEF RowsKept
    <3> QED
      BY <3>1, <3>2 DEF Turn
  <2> QED
    BY <2>1, <2>2
<1>8. \A q \in Calls : /\ manager[q] # "absent" => manager'[q] # "absent"
                       /\ root[q] # "absent" => root'[q] # "absent"
  BY <1>1, <1>2, <1>4, <1>6 DEF Moves, RowsKept
<1>9. WhoWhere'
  <2> SUFFICES ASSUME NEW d \in Calls
               PROVE  /\ pc'[d] # "idle" => job'[d].op \in {"chat", "submit", "cancel"}
                      /\ job'[d].op = "cancel" => job'[d].text = "message"
                      /\ (Busy(d) /\ ~Locking(d))' => pc'[d] \in CancelPoints
                      /\ pc'[d] = "lock" => Locking(d)'
                      /\ pc'[d] = "cancel write" => StatusOf(about[d], target[d])' # "absent"
                      /\ verdict'[d] = "stopped" => pc'[d] = "returned"
    BY DEF WhoWhere
  <2>1. WhoWhere /\ job' = job /\ Locking(d)' = Locking(d)
    BY <1>1, <1>2, <1>5 DEF InterruptionInv
  <2>2. CASE d = c
    <3>1. pc'[c] # "lock" /\ pc[c] # "idle"
      BY <1>2 DEF Busy, Inside
    <3>2. pc'[c] = "cancel write" => StatusOf(about[c], target[c])' # "absent"
      BY <1>4, <1>6 DEF Moves, Turn, Busy, Inside, StatusOf
    <3> QED
      BY <1>4, <1>5, <2>1, <2>2, <3>1, <3>2 DEF WhoWhere, Moves
  <2>3. CASE d # c
    <3>1. /\ pc'[d] = pc[d] /\ about'[d] = about[d] /\ target'[d] = target[d]
          /\ verdict'[d] = verdict[d] /\ about[d] \in Calls
      BY <1>1, <1>2, <1>5, <2>3 DEF CallsKept
    <3>2. StatusOf(about[d], target[d]) # "absent" => StatusOf(about[d], target[d])' # "absent"
      BY <1>8, <3>1 DEF StatusOf
    <3> QED
      BY <2>1, <3>1, <3>2 DEF WhoWhere, Busy
  <2> QED
    BY <2>2, <2>3
<1>10. QueueInv'
  <2> SUFFICES ASSUME NEW d \in Calls, Locking(d)'
               PROVE  /\ about'[d] # d => manager'[about'[d]] # "absent"
                      /\ pc'[d] = "lock" /\ job'[d].op = "chat" => manager'[d] = "absent"
                      /\ /\ pc'[d] = "lock" /\ manager'[about'[d]] = "waiting_input"
                         /\ pending'[about'[d]] = 0
                         => \E e \in Calls : pc'[e] = "wake" /\ Locking(e)' /\ about'[e] = about'[d]
    BY DEF QueueInv
  <2>1. QueueInv /\ Locking(d) /\ about'[d] = about[d] /\ about[d] \in Calls
    BY <1>3, <1>5 DEF InterruptionInv
  <2>2. ASSUME pc'[d] = "lock"
        PROVE  d # c /\ pc[d] = "lock" /\ job'[d] = job[d]
    BY <1>1, <1>2, <2>2 DEF CallsKept, Inside
  <2>3. about'[d] # d => manager'[about'[d]] # "absent"
    BY <1>8, <2>1 DEF QueueInv
  <2>4. ASSUME pc'[d] = "lock", job'[d].op = "chat" PROVE manager'[d] = "absent"
    <3>1. manager[d] = "absent"
      BY <2>1, <2>2, <2>4 DEF QueueInv
    <3>2. d # r
      BY <1>6, <2>2, <2>4, <3>1, <2>1 DEF QueueInv
    <3> QED
      BY <1>1, <1>2, <1>6, <3>1, <3>2 DEF RowsKept
  <2>5. ASSUME pc'[d] = "lock", manager'[about[d]] = "waiting_input", pending'[about[d]] = 0
        PROVE  \E e \in Calls : pc'[e] = "wake" /\ Locking(e)' /\ about'[e] = about[d]
    <3>1. CASE about[d] = r
      BY <1>4, <1>5, <1>6, <2>5, <3>1 DEF Moves
    <3>2. CASE about[d] # r
      <4>1. manager[about[d]] = "waiting_input" /\ pending[about[d]] = 0
        BY <1>1, <1>2, <1>6, <2>1, <2>5, <3>2 DEF RowsKept
      <4>2. PICK e \in Calls : pc[e] = "wake" /\ Locking(e) /\ about[e] = about[d]
        BY <2>1, <2>2, <2>5, <4>1 DEF QueueInv
      <4> QED
        BY <1>1, <1>2, <1>3, <1>5, <1>6, <3>2, <4>2 DEF CallsKept
    <3> QED
      BY <3>1, <3>2
  <2> QED
    BY <2>1, <2>3, <2>4, <2>5
<1>11. RowsInv'
  <2>1. ASSUME NEW q \in Calls, q # r PROVE Sound(q)' /\ Counted(q)'
    <3>1. /\ root'[q] = root[q] /\ manager'[q] = manager[q] /\ pending'[q] = pending[q]
          /\ asks'[q] = asks[q] /\ answers'[q] = answers[q]
      BY <1>1, <1>2, <1>6, <2>1 DEF RowsKept
    <3> QED
      BY <3>1 DEF InterruptionInv, RowsInv, Sound, Counted
  <2> QED
    BY <1>4, <2>1 DEF Moves, RowsInv
<1>12. StopInv'
  <2> SUFFICES ASSUME NEW e \in Calls, verdict'[e] = "stopped", job'[e].text = "stop"
               PROVE  /\ root'[about'[e]] = "cancelled" /\ manager'[about'[e]] = "cancelled"
                      /\ \A d \in Calls : (Busy(d) /\ Locking(d))' /\ about'[d] = about'[e] =>
                           pc'[d] \in {"reopen", "resume"}
    BY DEF StopInv
  <2>1. CASE e = c
    <3>1. pc'[c] = "returned" /\ root'[r] = "cancelled" /\ manager'[r] = "cancelled"
      BY <1>4, <2>1 DEF Moves
    <3>2. ~Busy(c)'
      BY <3>1 DEF Busy, Inside
    <3> QED
      BY <1>3, <1>5, <1>6, <2>1, <3>1, <3>2
  <2>2. CASE e # c
    <3>1. /\ verdict[e] = "stopped" /\ job[e].text = "stop" /\ about'[e] = about[e]
          /\ about[e] \in Calls
      BY <1>1, <1>2, <1>3, <1>5, <2>2 DEF CallsKept
    <3>2. /\ root[about[e]] = "cancelled" /\ manager[about[e]] = "cancelled"
          /\ \A d \in Calls : Busy(d) /\ Locking(d) /\ about[d] = about[e] =>
               pc[d] \in {"reopen", "resume"}
      BY <3>1 DEF InterruptionInv, StopInv
    <3>3. CASE about[e] = r
      <4>1. /\ pc[c] \in {"reopen", "resume"}
            /\ root[r] = "cancelled" /\ manager[r] = "cancelled"
        BY <1>6, <3>2, <3>3
      <4>2. /\ root'[r] = "cancelled" /\ manager'[r] = "cancelled"
            /\ pc'[c] \in {"resume", "returned"}
        BY <1>4, <4>1 DEF Moves
      <4>3. Busy(c)' => pc'[c] = "resume"
        BY <4>2 DEF Busy, Inside
      <4> QED
        BY <1>3, <1>5, <3>1, <3>3, <4>2, <4>3
    <3>4. CASE about[e] # r
      <4>1. root'[about[e]] = "cancelled" /\ manager'[about[e]] = "cancelled"
        BY <1>1, <1>2, <1>6, <3>1, <3>2, <3>4 DEF RowsKept
      <4> QED
        BY <1>1, <1>2, <1>3, <1>5, <1>6, <3>1, <3>2, <3>4, <4>1 DEF CallsKept
    <3> QED
      BY <3>3, <3>4
  <2> QED
    BY <2>1, <2>2
<1> QED
  BY <1>7, <1>9, <1>10, <1>11, <1>12 DEF InterruptionInv

-----------------------------------------------------------------------------
(* The lock changes hands, a message finds its question *)

LEMMA AcquireKeeps ==
    ASSUME OneLock, CallInv, InterruptionInv, NEW c \in Calls, AcquireLock(c)
    PROVE  InterruptionInv'
<1>1. /\ pc[c] = "lock" /\ LockFree(c) /\ Locking(c)
      /\ pc' = [pc EXCEPT ![c] = IF job[c].op = "chat" THEN "find" ELSE "reopen"]
      /\ UNCHANGED <<root, manager, pending, asks, answers, job, about, target, verdict>>
  BY DEF AcquireLock, At, Goto, GotoIf, tables, locals, history, InterruptionInv, WhoWhere
<1>2. /\ pc'[c] \in {"find", "reopen"} /\ (pc'[c] = "find" <=> job[c].op = "chat")
      /\ \A d \in Calls \ {c} : pc'[d] = pc[d]
      /\ \A d \in Calls : about[d] \in Calls /\ Locking(d)' = Locking(d)
  BY <1>1 DEF CallInv, TypeInv, TypeOK, Locking
<1>3. job[c].op = "chat" => about[c] = c /\ manager[c] = "absent"
  BY <1>1 DEF CallInv, OpensOwn, Opens, InterruptionInv, QueueInv
<1>4. ~(manager[about[c]] = "waiting_input" /\ pending[about[c]] = 0)
  <2> SUFFICES ASSUME manager[about[c]] = "waiting_input", pending[about[c]] = 0 PROVE FALSE
    OBVIOUS
  <2>1. PICK d \in Calls : pc[d] = "wake" /\ Locking(d) /\ about[d] = about[c]
    BY <1>1 DEF InterruptionInv, QueueInv
  <2>2. holder[Place(d)] = d
    BY <2>1 DEF CallInv, LockHeld, Busy, Inside
  <2>3. Place(d) = Place(c)
    BY <1>1, <2>1 DEF OneLock, CallInv, ArrivalInv, PlaceKnown, AnswersOwnWork, Place
  <2> QED
    BY <1>1, <2>2, <2>3, LifecycleAssumption DEF LockFree
<1>5. TurnInv'
  <2> SUFFICES ASSUME NEW d \in Calls, Busy(d)', Locking(d)' PROVE Turn(d, about[d])'
    BY DEF TurnInv
  <2>1. CASE d = c
    <3>1. CASE pc'[c] = "find"
      <4>1. about[c] = c /\ manager[c] = "absent" /\ root[c] # "waiting_input"
        BY <1>2, <1>3, <3>1 DEF InterruptionInv, RowsInv, Sound
      <4> QED
        BY <1>1, <2>1, <3>1, <4>1 DEF Turn, BeforeTask, Running
    <3>2. CASE pc'[c] = "reopen"
      BY <1>1, <1>4, <2>1, <3>2 DEF Turn, BeforeTask, Running
    <3> QED
      BY <1>2, <3>1, <3>2
  <2>2. CASE d # c
    <3>1. Turn(d, about[d]) /\ pc'[d] = pc[d]
      BY <1>2, <2>2 DEF InterruptionInv, TurnInv, Busy
    <3> QED
      BY <1>1, <3>1 DEF Turn
  <2> QED
    BY <2>1, <2>2
<1>6. WhoWhere'
  <2> SUFFICES ASSUME NEW d \in Calls
               PROVE  /\ pc'[d] # "idle" => job'[d].op \in {"chat", "submit", "cancel"}
                      /\ job'[d].op = "cancel" => job'[d].text = "message"
                      /\ (Busy(d) /\ ~Locking(d))' => pc'[d] \in CancelPoints
                      /\ pc'[d] = "lock" => Locking(d)'
                      /\ pc'[d] = "cancel write" => StatusOf(about[d], target[d])' # "absent"
                      /\ verdict'[d] = "stopped" => pc'[d] = "returned"
    BY DEF WhoWhere
  <2>1. WhoWhere /\ Locking(d)' = Locking(d) /\ job' = job /\ verdict' = verdict
    BY <1>1, <1>2 DEF InterruptionInv
  <2>2. CASE d = c
    BY <1>1, <1>2, <2>1, <2>2 DEF WhoWhere
  <2>3. CASE d # c
    <3>1. pc'[d] = pc[d] /\ (Busy(d)' <=> Busy(d))
      BY <1>2, <2>3 DEF Busy
    <3>2. StatusOf(about[d], target[d])' = StatusOf(about[d], target[d])
      BY <1>1 DEF StatusOf
    <3> QED
      BY <2>1, <3>1, <3>2 DEF WhoWhere
  <2> QED
    BY <2>2, <2>3
<1>7. QueueInv'
  <2>1. \A d \in Calls : pc'[d] = "lock" => pc[d] = "lock"
    BY <1>1, <1>2
  <2>2. \A e \in Calls : pc[e] = "wake" => pc'[e] = "wake"
    BY <1>1, <1>2
  <2> QED
    BY <1>1, <1>2, <2>1, <2>2 DEF InterruptionInv, QueueInv
<1>8. RowsInv'
  BY <1>1 DEF InterruptionInv, RowsInv, Sound, Counted
<1>9. StopInv'
  <2> SUFFICES ASSUME NEW e \in Calls, verdict[e] = "stopped", job[e].text = "stop"
               PROVE  /\ root[about[e]] = "cancelled" /\ manager[about[e]] = "cancelled"
                      /\ \A d \in Calls : (Busy(d) /\ Locking(d))' /\ about[d] = about[e] =>
                           pc'[d] \in {"reopen", "resume"}
    BY <1>1 DEF StopInv
  <2>1. /\ root[about[e]] = "cancelled" /\ manager[about[e]] = "cancelled"
        /\ \A d \in Calls : Busy(d) /\ Locking(d) /\ about[d] = about[e] =>
             pc[d] \in {"reopen", "resume"}
    BY DEF InterruptionInv, StopInv
  <2>2. about[c] = about[e] => pc'[c] = "reopen"
    BY <1>2, <1>3, <2>1
  <2> QED
    BY <1>2, <2>1, <2>2 DEF Busy
<1> QED
  BY <1>5, <1>6, <1>7, <1>8, <1>9 DEF InterruptionInv

LEMMA FindKeeps ==
    ASSUME OneLock, CallInv, InterruptionInv, NEW c \in Calls, FindPending(c)
    PROVE  InterruptionInv'
<1>1. /\ pc[c] = "find" /\ TypeOK
      /\ UNCHANGED <<root, manager, pending, asks, answers, job, target, verdict>>
  BY DEF FindPending, At, tables, history, CallInv, TypeInv
<1>2. /\ Busy(c) /\ Locking(c) /\ about[c] = c
      /\ manager[c] = "absent" /\ root[c] # "waiting_input" /\ verdict[c] # "stopped"
  <2>1. Busy(c) /\ about[c] = c /\ verdict[c] # "stopped"
    BY <1>1 DEF Busy, Inside, CallInv, OpensOwn, Opens, InterruptionInv, WhoWhere
  <2>2. Locking(c)
    BY <1>1, <2>1 DEF InterruptionInv, WhoWhere, CancelPoints
  <2>3. Turn(c, c)
    BY <2>1, <2>2 DEF InterruptionInv, TurnInv
  <2> QED
    BY <1>1, <2>1, <2>2, <2>3 DEF Turn, BeforeTask, Running
<1>3. PICK r \in Calls, x \in {"create request", "cancel check", "reopen"} :
        /\ pc' = [pc EXCEPT ![c] = x] /\ about' = [about EXCEPT ![c] = r]
        /\ \/ x = "create request" /\ r = c
           \/ x # "create request" /\ Marked(r)
  <2>1. job[c].op # "retry"
    BY <1>2 DEF Locking
  <2>2. \A r \in Calls : Finds(c, r) => Marked(r)
    BY <2>1 DEF Finds, FindsMarked
  <2>3. CASE UNCHANGED about /\ pc' = [pc EXCEPT ![c] = "create request"]
    <3>1. about' = [about EXCEPT ![c] = c]
      BY <1>1, <1>2, <2>3 DEF TypeOK
    <3> QED
      BY <2>3, <3>1
  <2>4. ASSUME NEW r \in Calls, Finds(c, r), about' = [about EXCEPT ![c] = r],
               \E x \in {"cancel check", "reopen"} : pc' = [pc EXCEPT ![c] = x]
        PROVE  \E x \in {"create request", "cancel check", "reopen"} :
                 /\ pc' = [pc EXCEPT ![c] = x] /\ about' = [about EXCEPT ![c] = r]
                 /\ x # "create request" /\ Marked(r)
    BY <2>2, <2>4
  <2> QED
    BY <1>1, <2>3, <2>4, FindStep
<1>4. /\ pc'[c] = x /\ about'[c] = r /\ about \in [Calls -> Calls]
      /\ \A d \in Calls \ {c} : pc'[d] = pc[d] /\ about'[d] = about[d]
      /\ \A d \in Calls : Locking(d)' = Locking(d)
  BY <1>1, <1>3 DEF TypeOK, Locking
<1>5. Marked(r) => root[r] = "waiting_input" /\ manager[r] = "waiting_input" /\ pending[r] # 0
  BY DEF Marked, Answerable
<1>6. TurnInv'
  <2> SUFFICES ASSUME NEW d \in Calls, Busy(d)', Locking(d)' PROVE Turn(d, about[d])'
    BY DEF TurnInv
  <2>1. CASE d = c
    BY <1>1, <1>2, <1>3, <1>4, <1>5, <2>1 DEF Turn, BeforeTask, Running
  <2>2. CASE d # c
    <3>1. Turn(d, about[d]) /\ pc'[d] = pc[d] /\ about'[d] = about[d]
      BY <1>4, <2>2 DEF InterruptionInv, TurnInv, Busy
    <3> QED
      BY <1>1, <3>1 DEF Turn
  <2> QED
    BY <2>1, <2>2
<1>7. WhoWhere'
  <2> SUFFICES ASSUME NEW d \in Calls
               PROVE  /\ pc'[d] # "idle" => job'[d].op \in {"chat", "submit", "cancel"}
                      /\ job'[d].op = "cancel" => job'[d].text = "message"
                      /\ (Busy(d) /\ ~Locking(d))' => pc'[d] \in CancelPoints
                      /\ pc'[d] = "lock" => Locking(d)'
                      /\ pc'[d] = "cancel write" => StatusOf(about[d], target[d])' # "absent"
                      /\ verdict'[d] = "stopped" => pc'[d] = "returned"
    BY DEF WhoWhere
  <2>1. WhoWhere /\ Locking(d)' = Locking(d) /\ job' = job /\ verdict' = verdict
    BY <1>1, <1>4 DEF InterruptionInv
  <2>2. CASE d = c
    BY <1>1, <1>2, <1>4, <2>1, <2>2 DEF WhoWhere
  <2>3. CASE d # c
    BY ZenonT(60), <1>1, <1>4, <2>1, <2>3 DEF WhoWhere, Busy, StatusOf
  <2> QED
    BY <2>2, <2>3
<1>8. QueueInv'
  <2> SUFFICES ASSUME NEW d \in Calls, Locking(d)'
               PROVE  /\ about'[d] # d => manager'[about'[d]] # "absent"
                      /\ pc'[d] = "lock" /\ job'[d].op = "chat" => manager'[d] = "absent"
                      /\ /\ pc'[d] = "lock" /\ manager'[about'[d]] = "waiting_input"
                         /\ pending'[about'[d]] = 0
                         => \E e \in Calls : pc'[e] = "wake" /\ Locking(e)' /\ about'[e] = about'[d]
    BY DEF QueueInv
  <2>1. CASE d = c
    BY <1>1, <1>3, <1>4, <1>5, <2>1
  <2>2. CASE d # c
    <3>1. Locking(d) /\ pc'[d] = pc[d] /\ about'[d] = about[d]
      BY <1>4, <2>2
    <3>2. \A e \in Calls : pc[e] = "wake" /\ Locking(e) =>
            pc'[e] = "wake" /\ about'[e] = about[e] /\ Locking(e)'
      BY <1>1, <1>4
    <3>3. /\ about[d] # d => manager[about[d]] # "absent"
          /\ pc[d] = "lock" /\ job[d].op = "chat" => manager[d] = "absent"
          /\ pc[d] = "lock" /\ manager[about[d]] = "waiting_input" /\ pending[about[d]] = 0
               => \E e \in Calls : pc[e] = "wake" /\ Locking(e) /\ about[e] = about[d]
      BY <3>1 DEF InterruptionInv, QueueInv
    <3> QED
      BY <1>1, <3>1, <3>2, <3>3
  <2> QED
    BY <2>1, <2>2
<1>9. RowsInv'
  BY <1>1 DEF InterruptionInv, RowsInv, Sound, Counted
<1>10. StopInv'
  <2> SUFFICES ASSUME NEW e \in Calls, verdict[e] = "stopped", job[e].text = "stop"
               PROVE  /\ root[about'[e]] = "cancelled" /\ manager[about'[e]] = "cancelled"
                      /\ \A d \in Calls : (Busy(d) /\ Locking(d))' /\ about'[d] = about'[e] =>
                           pc'[d] \in {"reopen", "resume"}
    BY <1>1 DEF StopInv
  <2>1. /\ about'[e] = about[e]
        /\ root[about[e]] = "cancelled" /\ manager[about[e]] = "cancelled"
        /\ \A d \in Calls : Busy(d) /\ Locking(d) /\ about[d] = about[e] =>
             pc[d] \in {"reopen", "resume"}
    BY <1>2, <1>4 DEF InterruptionInv, StopInv
  <2>2. about'[c] # about[e]
    BY <1>2, <1>3, <1>4, <1>5, <2>1
  <2> QED
    BY <1>4, <2>1, <2>2 DEF Busy
<1> QED
  BY <1>6, <1>7, <1>8, <1>9, <1>10 DEF InterruptionInv

LEMMA ArrivalKeeps ==
    ASSUME OneLock, CallInv, InterruptionInv, NEW c \in Calls, Start(c)
    PROVE  InterruptionInv'
<1>1. PICK r \in Calls, j \in Jobs, x \in {"lock", "find", "cancel look"} : Arrives(c, r, j, x)
  BY StartFrame DEF CallInv, TypeInv
<1>2. /\ pc[c] = "idle" /\ root[c] = "absent" /\ manager[c] = "absent"
      /\ \A d \in Calls : pc[d] # "idle" => about[d] # c
      /\ UNCHANGED <<root, manager, pending, asks, answers, verdict>>
      /\ about'[c] = r /\ job'[c] = j /\ pc'[c] = x
  BY <1>1 DEF Arrives, tables, history, CallInv, TypeInv, TypeOK, ArrivalInv, TasksOfCalls,
     AboutArrived
<1>3. \A d \in Calls \ {c} : /\ pc'[d] = pc[d] /\ about'[d] = about[d] /\ job'[d] = job[d]
                             /\ target'[d] = target[d] /\ Locking(d)' = Locking(d)
  BY <1>1 DEF Arrives, Locking, CallInv, TypeInv, TypeOK
<1>4. \/ r = c /\ x = "lock" /\ j.op = "chat"
      \/ x = "lock" /\ j.op = "submit" /\ Answerable(r)
      \/ x = "cancel look" /\ j.op = "cancel" /\ j.text = "message"
  BY <1>1 DEF Arrives, OneLock
<1>5. verdict[c] # "stopped" /\ (Locking(c)' <=> x = "lock")
  BY <1>2, <1>4 DEF InterruptionInv, WhoWhere, Locking
<1>6. \A d \in Calls : Busy(d)' /\ Locking(d)' => d # c /\ Busy(d) /\ Locking(d)
  BY <1>2, <1>3, <1>5 DEF Busy, Inside
<1>7. TurnInv'
  <2> SUFFICES ASSUME NEW d \in Calls, Busy(d)', Locking(d)' PROVE Turn(d, about[d])'
    BY DEF TurnInv
  <2>1. /\ Turn(d, about[d]) /\ pc'[d] = pc[d] /\ about'[d] = about[d]
        /\ target'[d] = target[d]
    BY <1>3, <1>6 DEF InterruptionInv, TurnInv
  <2> QED
    BY <1>2, <2>1 DEF Turn
<1>8. WhoWhere'
  <2> SUFFICES ASSUME NEW d \in Calls
               PROVE  /\ pc'[d] # "idle" => job'[d].op \in {"chat", "submit", "cancel"}
                      /\ job'[d].op = "cancel" => job'[d].text = "message"
                      /\ (Busy(d) /\ ~Locking(d))' => pc'[d] \in CancelPoints
                      /\ pc'[d] = "lock" => Locking(d)'
                      /\ pc'[d] = "cancel write" => StatusOf(about[d], target[d])' # "absent"
                      /\ verdict'[d] = "stopped" => pc'[d] = "returned"
    BY DEF WhoWhere
  <2>1. CASE d = c
    <3>1. x = "lock" => ~Busy(c)'
      BY <1>2 DEF Busy, Inside
    <3>2. Locking(d)' <=> Locking(c)'
      BY <2>1
    <3>3. Busy(d)' <=> Busy(c)'
      BY <2>1
    <3> QED
      BY <1>2, <1>4, <1>5, <2>1, <3>1, <3>2, <3>3 DEF CancelPoints
  <2>2. CASE d # c
    <3>1. /\ pc'[d] = pc[d] /\ about'[d] = about[d] /\ job'[d] = job[d]
          /\ target'[d] = target[d] /\ verdict'[d] = verdict[d] /\ Locking(d)' = Locking(d)
          /\ root' = root /\ manager' = manager
      BY <1>2, <1>3, <2>2
    <3>2. WhoWhere
      BY DEF InterruptionInv
    <3> QED
      BY ZenonT(60), <3>1, <3>2 DEF WhoWhere, Busy, StatusOf
  <2> QED
    BY <2>1, <2>2
<1>9. QueueInv'
  <2> SUFFICES ASSUME NEW d \in Calls, Locking(d)'
               PROVE  /\ about'[d] # d => manager'[about'[d]] # "absent"
                      /\ pc'[d] = "lock" /\ job'[d].op = "chat" => manager'[d] = "absent"
                      /\ /\ pc'[d] = "lock" /\ manager'[about'[d]] = "waiting_input"
                         /\ pending'[about'[d]] = 0
                         => \E e \in Calls : pc'[e] = "wake" /\ Locking(e)' /\ about'[e] = about'[d]
    BY DEF QueueInv
  <2>1. CASE d = c
    <3>1. Locking(c)' /\ x = "lock" /\ about'[c] = r
      BY <1>2, <1>5, <2>1
    <3>2. CASE r = c /\ j.op = "chat"
      BY <1>2, <2>1, <3>1, <3>2
    <3>3. CASE j.op = "submit" /\ Answerable(r)
      BY <1>2, <2>1, <3>1, <3>3 DEF Answerable
    <3> QED
      BY <1>4, <3>1, <3>2, <3>3
  <2>2. CASE d # c
    <3>1. Locking(d) /\ pc'[d] = pc[d] /\ about'[d] = about[d] /\ job'[d] = job[d]
      BY <1>3, <2>2
    <3>2. \A e \in Calls : pc[e] = "wake" /\ Locking(e) =>
            pc'[e] = "wake" /\ about'[e] = about[e] /\ Locking(e)'
      BY <1>2, <1>3
    <3>3. /\ about[d] # d => manager[about[d]] # "absent"
          /\ pc[d] = "lock" /\ job[d].op = "chat" => manager[d] = "absent"
          /\ pc[d] = "lock" /\ manager[about[d]] = "waiting_input" /\ pending[about[d]] = 0
               => \E e \in Calls : pc[e] = "wake" /\ Locking(e) /\ about[e] = about[d]
      BY <3>1 DEF InterruptionInv, QueueInv
    <3> QED
      BY <1>2, <3>1, <3>2, <3>3
  <2> QED
    BY <2>1, <2>2
<1>10. RowsInv'
  BY <1>2 DEF InterruptionInv, RowsInv, Sound, Counted
<1>11. StopInv'
  <2> SUFFICES ASSUME NEW e \in Calls, verdict[e] = "stopped", job'[e].text = "stop"
               PROVE  /\ root[about'[e]] = "cancelled" /\ manager[about'[e]] = "cancelled"
                      /\ \A d \in Calls : (Busy(d) /\ Locking(d))' /\ about'[d] = about'[e] =>
                           pc'[d] \in {"reopen", "resume"}
    BY <1>2 DEF StopInv
  <2>1. /\ about'[e] = about[e]
        /\ root[about[e]] = "cancelled" /\ manager[about[e]] = "cancelled"
        /\ \A d \in Calls : Busy(d) /\ Locking(d) /\ about[d] = about[e] =>
             pc[d] \in {"reopen", "resume"}
    BY ZenonT(60), <1>3, <1>5 DEF InterruptionInv, StopInv
  <2> QED
    BY <1>3, <1>6, <2>1
<1> QED
  BY <1>7, <1>8, <1>9, <1>10, <1>11 DEF InterruptionInv

\* The process dies: every call that had arrived and not returned is gone.
LEMMA CrashKeeps ==
    ASSUME OneLock, CallInv, InterruptionInv, NEW p \in Procs, Crash(p)
    PROVE  InterruptionInv'
<1>1. UNCHANGED <<root, manager, pending, asks, answers, job, about, target, verdict>>
  BY DEF Crash, tables, locals, history
<1>2. \A d \in Calls :
        /\ pc'[d] \in {"idle", "returned", "crashed"}
        /\ pc[d] \in {"idle", "returned"} => pc'[d] = pc[d]
        /\ pc[d] \notin {"idle", "returned"} => pc'[d] # "idle"
  <2> SUFFICES ASSUME NEW d \in Calls
               PROVE  /\ pc'[d] \in {"idle", "returned", "crashed"}
                      /\ pc[d] \in {"idle", "returned"} => pc'[d] = pc[d]
                      /\ pc[d] \notin {"idle", "returned"} => pc'[d] # "idle"
    OBVIOUS
  <2>1. pc[d] # "idle" => job[d].proc = p
    BY DEF OneLock, CallInv, ArrivalInv, PlaceKnown
  <2>2. pc'[d] = IF job[d].proc = p /\ pc[d] \notin {"idle", "returned"}
                 THEN "crashed" ELSE pc[d]
    BY DEF Crash
  <2> QED
    BY <2>1, <2>2
<1>3. \A d \in Calls : ~Busy(d)' /\ pc'[d] \notin {"lock", "cancel write"}
  BY <1>2 DEF Busy, Inside
<1>4. TurnInv' /\ StopInv'
  BY <1>1, <1>3 DEF InterruptionInv, TurnInv, StopInv
<1>5. WhoWhere'
  BY <1>1, <1>2, <1>3 DEF InterruptionInv, WhoWhere
<1>6. QueueInv'
  BY <1>1, <1>3 DEF InterruptionInv, QueueInv, Locking
<1>7. RowsInv'
  BY <1>1 DEF InterruptionInv, RowsInv, Sound, Counted
<1> QED
  BY <1>4, <1>5, <1>6, <1>7 DEF InterruptionInv

LEMMA InterruptionStep ==
    OneLock /\ CallInv /\ InterruptionInv /\ [Next]_vars => InterruptionInv'
<1> SUFFICES ASSUME OneLock, CallInv, InterruptionInv, [Next]_vars PROVE InterruptionInv'
  OBVIOUS
<1>1. ASSUME NEW c \in Calls, Step(c) PROVE InterruptionInv'
  <2>1. CASE pc[c] = "lock"
    <3>1. AcquireLock(c)
      BY <1>1, <2>1 DEF Step, OpenSteps, GroupChatSteps, SettleSteps, AnswerSteps,
         CancelSteps, FindPending, CreateRequest, CreateRoot, OpenRequest, OpenRoot,
         RunDirect, Delegate, StartManager, GroupChatEnds, GroupChatAsks, Park, Mark,
         SettleRequest, SettleRoot, Notify, Reopen, Unmark, ReopenRoot, ReopenRequest,
         Resume, TakeAnswer, Wake, CancelCheck, CancelLook, CancelWrite, CancelRequest,
         CancelUnmark, At
    <3> QED
      BY <3>1, AcquireKeeps
  <2>2. CASE pc[c] # "lock"
    <3>1. Busy(c)
      BY <1>1, <2>2, StepFrame DEF CallInv, TypeInv, Busy
    <3> QED
      BY <1>1, <3>1, FindKeeps, LockedKeeps, OutsideKeeps
  <2> QED
    BY <2>1, <2>2
<1>2. ASSUME NEW c \in Calls, Start(c) PROVE InterruptionInv'
  BY <1>2, ArrivalKeeps
<1>3. ASSUME NEW p \in Procs, Crash(p) PROVE InterruptionInv'
  BY <1>3, CrashKeeps
<1>4. CASE UNCHANGED vars
  <2>1. UNCHANGED <<root, manager, pending, asks, answers, pc, job, about, target, verdict>>
    BY <1>4 DEF vars, tables, locals, history
  <2>2. TurnInv'
    BY <2>1 DEF InterruptionInv, TurnInv, Turn, Busy, Locking
  <2>3. WhoWhere'
    BY <2>1 DEF InterruptionInv, WhoWhere, Busy, Locking, StatusOf
  <2>4. QueueInv'
    BY <2>1 DEF InterruptionInv, QueueInv, Locking
  <2>5. RowsInv' /\ StopInv'
    BY <2>1 DEF InterruptionInv, RowsInv, Sound, Counted, StopInv, Busy, Locking
  <2> QED
    BY <2>2, <2>3, <2>4, <2>5 DEF InterruptionInv
<1> QED
  BY <1>1, <1>2, <1>3, <1>4 DEF Next, Over

LEMMA InterruptionInit == Init => InterruptionInv
<1> SUFFICES ASSUME Init PROVE InterruptionInv
  OBVIOUS
<1>1. \A r \in Calls : Sound(r) /\ Counted(r)
  <2>1. \A r \in Calls : /\ root[r] = "absent" /\ pending[r] = 0
                         /\ asks[r] = 0 /\ answers[r] = 0
    BY DEF Init
  <2>2. \A r \in Calls : Sound(r)
    BY <2>1 DEF Sound
  <2>3. ASSUME NEW r \in Calls PROVE Counted(r)
    <3>1. answers[r] + (IF pending[r] = 0 THEN 0 ELSE 1) = 0
      BY <2>1
    <3> QED
      BY <2>1, <3>1 DEF Counted
  <2> QED
    BY <2>2, <2>3
<1>2. \A c \in Calls :
        /\ pc[c] = "idle" /\ about[c] = c /\ verdict[c] = "none" /\ ~Busy(c)
        /\ ~Locking(c) /\ job[c].op = "none"
  <2> SUFFICES ASSUME NEW c \in Calls
               PROVE  /\ pc[c] = "idle" /\ about[c] = c /\ verdict[c] = "none"
                      /\ job[c].op = "none"
    BY DEF Busy, Inside, Locking
  <2> QED
    BY DEF Init
<1>3. TurnInv /\ WhoWhere
  BY <1>2 DEF TurnInv, WhoWhere
<1>4. QueueInv /\ RowsInv /\ StopInv
  BY <1>1, <1>2 DEF QueueInv, RowsInv, StopInv
<1> QED
  BY <1>3, <1>4 DEF InterruptionInv

-----------------------------------------------------------------------------
(* What the invariant says of the runs' properties *)

LEMMA InterruptionHolds == OneLock => (Spec => [](CallInv /\ InterruptionInv))
<1> SUFFICES ASSUME OneLock PROVE Spec => [](CallInv /\ InterruptionInv)
  OBVIOUS
<1>1. Init => CallInv /\ InterruptionInv
  BY CallInit, InterruptionInit
<1>2. CallInv /\ InterruptionInv /\ [Next]_vars => (CallInv /\ InterruptionInv)'
  BY CallStep, InterruptionStep
<1> QED
  BY <1>1, <1>2, PTL DEF Spec

\* Two messages that race for one question resume its task once, also when the
\* task is cancelled meanwhile and when the process dies in between.
THEOREM AnsweredOnce == ASSUME OneLock PROVE Spec => []OneAnswerPerQuestion
<1>1. InterruptionInv => OneAnswerPerQuestion
  BY DEF InterruptionInv, RowsInv, Counted, OneAnswerPerQuestion
<1> QED
  BY <1>1, InterruptionHolds, PTL

\* What a "stop" message stopped stays stopped: no message that was waiting for
\* the lock, and no cancellation or crash, brings it back.
THEOREM StopStays == ASSUME OneLock PROVE Spec => []StopIsFinal
<1>1. InterruptionInv => StopIsFinal
  BY DEF InterruptionInv, StopInv, StopIsFinal
<1> QED
  BY <1>1, InterruptionHolds, PTL

\* After a crash at any point a root that shows as waiting can be answered, or
\* its manager task was being cancelled.
THEOREM WaitingSurvives == ASSUME OneLock PROVE Spec => []WaitingSurvivesCrash
<1>1. InterruptionInv => WaitingSurvivesCrash
  BY DEF InterruptionInv, RowsInv, Sound, WaitingSurvivesCrash, Waits, Answerable
<1> QED
  BY <1>1, InterruptionHolds, PTL

=============================================================================
