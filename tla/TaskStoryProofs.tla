---------------------------- MODULE TaskStoryProofs ----------------------------
(***************************************************************************)
(* Proofs about TaskLifecycle where every call takes the work lock: one    *)
(* process, messages (stops among them) and answers, any number of them.   *)
(* The three tables then tell one story of each request, and the user is   *)
(* told the same one: turns that happen at once, as WorkConversation says. *)
(*                                                                         *)
(* The inductive invariant says what the rows of a request are at every    *)
(* point of the call that works on it (Phase), and what they are when no   *)
(* call does (Rest).                                                       *)
(***************************************************************************)
EXTENDS TaskLifecycleProofs

\* Every call is one that takes the lock of its work, and there is one lock.
LockedCalls == Procs = {Web} /\ Ops \subseteq {"chat", "submit"}

Rows(r, q, t, m) == request[r] = q /\ root[r] = t /\ manager[r] = m

Questions(n) == [i \in 1..n |-> "waiting_input"]

\* The user was told of the first n questions of r and of nothing else.
Told(r, n) == notices[r] = Questions(n)

\* The last question of r is open.
Open(r) == pending[r] = asks[r] /\ asks[r] # 0

-----------------------------------------------------------------------------
(* A request on which no call works *)

Blank(r) ==
    /\ Rows(r, "absent", "absent", "absent") /\ ~marker[r]
    /\ pending[r] = 0 /\ asks[r] = 0 /\ Told(r, 0)

Waiting(r) ==
    /\ Rows(r, "in_progress", "waiting_input", "waiting_input")
    /\ Open(r) /\ Told(r, asks[r])

Ended(r) ==
    /\ Rows(r, "completed", "done", "done") \/ Rows(r, "failed", "failed", "failed")
    /\ ~marker[r]
    /\ notices[r] = Questions(asks[r]) \o <<root[r]>>

Stopped(r) ==
    /\ Rows(r, "cancelled", "cancelled", "cancelled")
    /\ ~marker[r] /\ Told(r, asks[r])

Rest(r) == Blank(r) \/ Waiting(r) \/ Ended(r) \/ Stopped(r)

-----------------------------------------------------------------------------
(* A request on which call c works *)

Opened(c, q, t, m) ==
    /\ about[c] = c /\ Rows(c, q, t, m) /\ ~marker[c]
    /\ pending[c] = 0 /\ asks[c] = 0 /\ Told(c, 0)

Opening(c) ==
    /\ pc[c] # "run"
    /\ pc[c] \in {"find", "create request"} => Opened(c, "absent", "absent", "absent")
    /\ pc[c] = "create root" => Opened(c, "created", "absent", "absent")
    /\ pc[c] = "open request" => Opened(c, "created", "created", "absent")
    /\ pc[c] = "open root" => Opened(c, "in_progress", "created", "absent")
    /\ pc[c] = "delegate" => Opened(c, "in_progress", "in_progress", "absent")
    /\ pc[c] = "start manager" => Opened(c, "in_progress", "in_progress", "created")

Talking(c, r) ==
    /\ pc[c] \in {"group chat", "park"} =>
         Rows(r, "in_progress", "in_progress", "in_progress") /\ ~marker[r]
    /\ pc[c] = "group chat" => pending[r] = 0 /\ Told(r, asks[r])
    /\ pc[c] = "park" =>
         verdict[c] \in {"ask", "blank"} /\ Open(r) /\ Told(r, asks[r] - 1)

Settling(c, r) ==
    pc[c] \in {"mark", "settle request", "settle root", "notify"} =>
    /\ manager[r] = Outcome(c)
    /\ request[r] = IF pc[c] \in {"mark", "settle request"} THEN "in_progress"
                    ELSE RequestStatusOf(Outcome(c))
    /\ root[r] = IF pc[c] = "notify" THEN Outcome(c) ELSE "in_progress"
    /\ marker[r] => pc[c] # "mark" /\ verdict[c] = "ask"
    /\ \/ verdict[c] \in {"done", "failed"} /\ Told(r, asks[r])
       \/ verdict[c] \in {"ask", "blank"} /\ Open(r) /\ Told(r, asks[r] - 1)

Taking(r) ==
    /\ Rows(r, "in_progress", "in_progress", "waiting_input") /\ ~marker[r]
    /\ Told(r, asks[r])

Answering(c, r) ==
    /\ pc[c] = "reopen" => Rest(r)
    /\ pc[c] \in {"unmark", "reopen root"} => Waiting(r)
    /\ pc[c] = "reopen root" => ~marker[r]
    /\ pc[c] = "resume" => (Rest(r) /\ ~Waiting(r)) \/ (Taking(r) /\ Open(r))
    /\ pc[c] \in {"reopen request", "take"} => Taking(r) /\ Open(r)
    /\ pc[c] = "wake" => Taking(r) /\ pending[r] = 0

Stopping(c, r) ==
    /\ pc[c] = "cancel check" => Waiting(r)
    /\ pc[c] \in {"cancel look", "cancel write"} =>
         IF target[c] = "manager" THEN Waiting(r)
         ELSE Rows(r, "in_progress", "waiting_input", "cancelled") /\ Told(r, asks[r])
    /\ pc[c] = "cancel request" =>
         Rows(r, "in_progress", "cancelled", "cancelled") /\ Told(r, asks[r])
    /\ pc[c] = "cancel unmark" =>
         Rows(r, "cancelled", "cancelled", "cancelled") /\ Told(r, asks[r])

Phase(c) ==
    /\ Opening(c)
    /\ Talking(c, about[c]) /\ Settling(c, about[c])
    /\ Answering(c, about[c]) /\ Stopping(c, about[c])

-----------------------------------------------------------------------------
(* The inductive invariant *)

LockedOnly == \A c \in Calls : pc[c] # "idle" => job[c].op \in {"chat", "submit"}

\* A call about another's request is about one that has its manager task.
OthersTask == \A c \in Calls : about[c] # c => manager[about[c]] # "absent"

\* A call that has not begun: nothing is known of its request.
Fresh(c) == pc[c] = "idle" \/ (pc[c] = "lock" /\ job[c].op = "chat")
FreshInv == \A c \in Calls : Fresh(c) => Blank(c)
PhaseInv == \A c \in Calls : Busy(c) => Phase(c)

Free(r) == \A c \in Calls : Busy(c) => about[c] # r
RestInv == \A r \in Calls : Free(r) => Rest(r)

StoryInv == LockedOnly /\ OthersTask /\ FreshInv /\ PhaseInv /\ RestInv

LEMMA Exclusive ==
    ASSUME LockedCalls, CallInv, LockedOnly, NEW c \in Calls, NEW d \in Calls,
           Busy(c), Busy(d), job[c].work = job[d].work
    PROVE  c = d
<1>1. pc[c] # "idle" /\ pc[d] # "idle"
  BY DEF Busy, Inside
<1>2. Locking(c) /\ Locking(d)
  BY <1>1 DEF LockedOnly, Locking
<1>3. Place(c) = Place(d)
  BY <1>1 DEF LockedCalls, CallInv, ArrivalInv, PlaceKnown, Place
<1> QED
  BY <1>2, <1>3 DEF CallInv, LockHeld

LEMMA AloneInside ==
    ASSUME LockedCalls, CallInv, LockedOnly, NEW c \in Calls, Busy(c)
    PROVE  \A d \in Calls \ {c} : Busy(d) => about[d] # about[c]
<1>1. \A d \in Calls : Busy(d) => job[d].work = job[about[d]].work
  BY DEF CallInv, AnswersOwnWork, Busy, Inside
<1> QED
  BY <1>1, Exclusive

\* A step that keeps to the request it is about keeps the invariant of the others.
LEMMA KeepsOthers ==
    ASSUME CallInv, StoryInv, NEW c \in Calls,
           CallsKept(c), RowsKept(c), UNCHANGED <<job, about>>,
           pc[c] # "idle", pc'[c] \in Inside \cup {"returned"},
           \A d \in Calls \ {c} : Busy(d) => about[d] # about[c],
           Busy(c)' => Phase(c)', ~Busy(c)' => Rest(about[c])',
           manager[about[c]] # "absent" => manager'[about[c]] # "absent"
    PROVE  StoryInv'
<1> USE DEF StoryInv
<1>1. about \in [Calls -> Calls]
  BY DEF CallInv, TypeInv, TypeOK
<1>2. LockedOnly'
  BY DEF LockedOnly, CallsKept
<1>3. OthersTask'
  BY <1>1 DEF OthersTask, RowsKept
<1>4. FreshInv'
  <2> SUFFICES ASSUME NEW d \in Calls, Fresh(d)' PROVE Blank(d)'
    BY DEF FreshInv
  <2>1. d # c /\ Fresh(d)
    BY DEF Fresh, CallsKept, Inside
  <2>2. Blank(d) /\ about[c] # d
    BY <2>1 DEF FreshInv, OthersTask, Blank, Rows
  <2> QED
    BY <2>2 DEF RowsKept, Blank, Rows, Told
<1>5. PhaseInv'
  <2> SUFFICES ASSUME NEW d \in Calls \ {c}, Busy(d)' PROVE Phase(d)'
    BY DEF PhaseInv
  <2>1. Busy(d) /\ about[d] # about[c] /\ about[d] \in Calls
    BY <1>1 DEF CallsKept, Busy
  <2>2. Phase(d)
    BY <2>1 DEF PhaseInv
  <2>3. Opening(d)'
    <3>1. CASE about[d] = d
      <4>1. /\ pc'[d] = pc[d] /\ about'[d] = d
            /\ request'[d] = request[d] /\ root'[d] = root[d] /\ manager'[d] = manager[d]
            /\ marker'[d] = marker[d] /\ pending'[d] = pending[d] /\ asks'[d] = asks[d]
            /\ notices'[d] = notices[d]
        BY <2>1, <3>1 DEF CallsKept, RowsKept
      <4> QED
        BY <2>2, <4>1 DEF Phase, Opening, Opened, Rows, Told
    <3>2. CASE about[d] # d
      BY <2>2, <3>2 DEF Phase, Opening, Opened, CallsKept
    <3> QED
      BY <3>1, <3>2
  <2>4. Talking(d, about[d])'
    BY <2>1, <2>2 DEF Phase, Talking, Rows, Told, Open, CallsKept, RowsKept
  <2>5. Settling(d, about[d])'
    <3>1. verdict'[d] = verdict[d] /\ Outcome(d)' = Outcome(d)
      BY DEF CallsKept, Outcome
    <3>2. Settling(d, about[d])
      BY <2>2 DEF Phase
    <3> QED
      BY ZenonT(60), <2>1, <3>1, <3>2 DEF Settling, Told, Open, CallsKept, RowsKept
  <2>6. Answering(d, about[d])'
    BY ZenonT(60), <2>1, <2>2 DEF Phase, Answering, Taking, Rest, Blank, Waiting, Ended, Stopped,
       Rows, Told, Open, CallsKept, RowsKept
  <2>7. Stopping(d, about[d])'
    BY ZenonT(60), <2>1, <2>2 DEF Phase, Stopping, Waiting, Rows, Told, Open, CallsKept, RowsKept
  <2> QED
    BY <2>3, <2>4, <2>5, <2>6, <2>7 DEF Phase
<1>6. RestInv'
  <2> SUFFICES ASSUME NEW r \in Calls, Free(r)' PROVE Rest(r)'
    BY DEF RestInv
  <2>1. CASE r = about[c]
    BY <2>1 DEF Free, Busy
  <2>2. CASE r # about[c]
    <3>1. Free(r)
      BY <2>2 DEF Free, CallsKept, Busy
    <3>2. Rest(r)
      BY <3>1 DEF RestInv
    <3> QED
      BY <3>2, <2>2 DEF RowsKept, Rest, Blank, Waiting, Ended, Stopped, Rows, Told, Open
  <2> QED
    BY <2>1, <2>2
<1> QED
  BY <1>2, <1>3, <1>4, <1>5, <1>6

-----------------------------------------------------------------------------
(* Each step leads from its phase to the next, or leaves the request at rest *)

Leads(c) ==
    /\ Busy(c)' => Phase(c)'
    /\ ~Busy(c)' => Rest(about[c])'
    /\ manager[about[c]] # "absent" => manager'[about[c]] # "absent"

LEMMA QuestionAppended == \A n \in Nat : \A x : Append(Questions(n), x) = Questions(n) \o <<x>>
BY DEF Questions

LEMMA OneMore == \A n \in Nat \ {0} : Append(Questions(n - 1), "waiting_input") = Questions(n)
BY DEF Questions

LEMMA NoQuestions == Questions(0) = <<>>
BY DEF Questions

LEMMA CountsOn == \A n \in Nat : (n + 1) - 1 = n /\ n + 1 # 0
OBVIOUS

LEMMA PhaseStep ==
    ASSUME LockedCalls, CallInv, StoryInv, NEW c \in Calls, Phase(c), Busy(c),
           UNCHANGED <<job, about>>, Step(c)
    PROVE  AcquireLock(c) \/ FindPending(c) \/ Leads(c)
<1> DEFINE r == about[c]
<1>1. TypeOK /\ r \in Calls /\ about'[c] = r /\ job[c].op # "retry"
  BY DEF CallInv, TypeInv, TypeOK, StoryInv, LockedOnly, Busy, Inside
<1> USE <1>1 DEF TypeOK, Busy, Inside, At, Goto, GotoIf, tables, locals, history
<1>2. ASSUME CreateRequest(c) PROVE Leads(c)
  BY <1>2 DEF CreateRequest, Leads, Phase, Opening, Opened, Talking, Settling, Answering,
     Stopping,
     Taking, Rest, Blank, Waiting, Ended, Stopped, Rows, Told, Open
<1>3. ASSUME CreateRoot(c) PROVE Leads(c)
  BY <1>3 DEF CreateRoot, Leads, Phase, Opening, Opened, Talking, Settling, Answering, Stopping,
     Taking, Rest, Blank, Waiting, Ended, Stopped, Rows, Told, Open
<1>4. ASSUME OpenRequest(c) PROVE Leads(c)
  BY <1>4 DEF OpenRequest, Leads, Phase, Opening, Opened, Talking, Settling, Answering, Stopping,
     Taking, Rest, Blank, Waiting, Ended, Stopped, Rows, Told, Open
<1>5. ASSUME OpenRoot(c) PROVE Leads(c)
  BY <1>5 DEF OpenRoot, Leads, Phase, Opening, Opened, Talking, Settling, Answering, Stopping,
     Taking, Rest, Blank, Waiting, Ended, Stopped, Rows, Told, Open
<1>6. ASSUME Delegate(c) PROVE Leads(c)
  BY ZenonT(60), <1>6 DEF Delegate, Leads, Phase, Opening, Opened, Talking, Settling,
     Answering, Stopping, Taking, Rest, Blank, Waiting, Ended, Stopped, Rows, Told, Open
<1>7. ASSUME StartManager(c) PROVE Leads(c)
  BY ZenonT(60), <1>7 DEF StartManager, Leads, Phase, Opening, Opened, Talking, Settling,
     Answering, Stopping, Taking, Rest, Blank, Waiting, Ended, Stopped, Rows, Told, Open
<1>8. ASSUME GroupChatEnds(c) PROVE Leads(c)
  <2>1. Rows(r, "in_progress", "in_progress", "in_progress") /\ ~marker[r] /\ Told(r, asks[r])
    BY <1>8 DEF GroupChatEnds, Phase, Talking
  <2>2. /\ pc'[c] = "mark" /\ verdict'[c] \in {"done", "failed"} /\ manager'[r] = verdict'[c]
        /\ UNCHANGED <<request, root, marker, pending, asks, notices>>
    BY ZenonT(60), <1>8 DEF GroupChatEnds
  <2> QED
    BY <2>1, <2>2
    DEF Leads, Phase, Opening, Opened, Talking, Settling, Answering, Stopping,
        Outcome, Rows, Told, Open
<1>9. ASSUME GroupChatAsks(c) PROVE Leads(c)
  <2>1. /\ Rows(r, "in_progress", "in_progress", "in_progress") /\ ~marker[r]
        /\ Told(r, asks[r]) /\ asks[r] \in Nat
    BY <1>9 DEF GroupChatAsks, Phase, Talking
  <2>2. /\ pc'[c] = "park" /\ asks'[r] = asks[r] + 1 /\ pending'[r] = asks[r] + 1
        /\ UNCHANGED <<request, root, manager, marker, notices>>
    BY <1>9 DEF GroupChatAsks
  <2>3. verdict'[c] \in {"ask", "blank"}
    BY <1>9 DEF GroupChatAsks
  <2>4. Told(r, asks[r] - 1)' /\ Open(r)'
    <3>1. asks'[r] - 1 = asks[r] /\ asks'[r] # 0
      BY <2>1, <2>2, CountsOn
    <3>2. notices'[r] = Questions(asks[r])
      BY <2>1, <2>2 DEF Told
    <3> QED
      BY <2>2, <3>1, <3>2 DEF Told, Open
  <2> QED
    BY <2>1, <2>2, <2>3, <2>4
    DEF Leads, Phase, Opening, Opened, Talking, Settling, Answering, Stopping,
        Rows, Told, Open
<1>10. ASSUME Park(c) PROVE Leads(c)
  <2>1. /\ Rows(r, "in_progress", "in_progress", "in_progress") /\ ~marker[r]
        /\ verdict[c] \in {"ask", "blank"} /\ Open(r) /\ Told(r, asks[r] - 1)
    BY <1>10 DEF Park, Phase, Talking
  <2>2. /\ pc'[c] = "mark" /\ manager'[r] = "waiting_input"
        /\ UNCHANGED <<request, root, marker, pending, asks, notices, verdict>>
    BY <1>10 DEF Park
  <2> QED
    BY <2>1, <2>2
    DEF Leads, Phase, Opening, Opened, Talking, Settling, Answering, Stopping,
        Outcome, Rows, Told, Open
<1>11. ASSUME Mark(c) PROVE Leads(c)
  <2>1. pc[c] = "mark" /\ Settling(c, r)
    BY <1>11 DEF Mark, Phase
  <2>2. /\ pc'[c] = "settle request" /\ marker'[r] = MarkerAfter(c)
        /\ UNCHANGED <<request, root, manager, pending, asks, notices, verdict>>
    BY <1>11 DEF Mark
  <2> QED
    BY <2>1, <2>2
    DEF Leads, Phase, Opening, Opened, Talking, Settling, Answering, Stopping,
        Outcome, MarkerAfter, Told, Open
<1>12. ASSUME SettleRequest(c) PROVE Leads(c)
  <2>1. pc[c] = "settle request" /\ Settling(c, r)
    BY <1>12 DEF SettleRequest, Phase
  <2>2. /\ pc'[c] = "settle root" /\ request'[r] = RequestStatusOf(Outcome(c))
        /\ UNCHANGED <<root, manager, marker, pending, asks, notices, verdict>>
    BY <1>12 DEF SettleRequest
  <2> QED
    BY <2>1, <2>2
    DEF Leads, Phase, Opening, Opened, Talking, Settling, Answering, Stopping,
        Outcome, Told, Open
<1>13. ASSUME SettleRoot(c) PROVE Leads(c)
  <2>1. pc[c] = "settle root" /\ Settling(c, r)
    BY <1>13 DEF SettleRoot, Phase
  <2>2. /\ pc'[c] = "notify" /\ root'[r] = Outcome(c)
        /\ UNCHANGED <<request, manager, marker, pending, asks, notices, verdict>>
    BY <1>13 DEF SettleRoot
  <2> QED
    BY <2>1, <2>2
    DEF Leads, Phase, Opening, Opened, Talking, Settling, Answering, Stopping,
        Outcome, Told, Open
<1>14. ASSUME Notify(c) PROVE Leads(c)
  <2>1. pc[c] = "notify" /\ Settling(c, r)
    BY <1>14 DEF Notify, Phase
  <2>2. /\ pc'[c] = "returned"
        /\ notices'[r] = Append(notices[r], Outcome(c))
        /\ UNCHANGED <<request, root, manager, marker, pending, asks, verdict>>
    BY <1>14, <2>1 DEF Notify, Announced, Settling, Outcome
  <2>3. CASE verdict[c] \in {"done", "failed"}
    <3>1. notices[r] = Questions(asks[r]) /\ Outcome(c) = root[r] /\ asks[r] \in Nat
      BY <2>1, <2>3 DEF Settling, Told, Open
    <3>2. notices'[r] = Questions(asks[r]) \o <<root[r]>>
      BY <2>2, <3>1, QuestionAppended
    <3>3. Ended(r)'
      BY <2>1, <2>2, <2>3, <3>2 DEF Settling, Outcome, Ended, Rows, RequestStatusOf
    <3> QED
      BY <2>2, <3>3 DEF Leads, Rest
  <2>4. CASE verdict[c] \in {"ask", "blank"}
    <3>1. Told(r, asks[r])'
      BY <2>1, <2>2, <2>4, OneMore DEF Settling, Outcome, Told, Open
    <3>2. Waiting(r)'
      BY <2>1, <2>2, <2>4, <3>1 DEF Settling, Outcome, Waiting, Rows, RequestStatusOf, Open
    <3> QED
      BY <2>2, <3>2 DEF Leads, Rest
  <2> QED
    BY <2>1, <2>3, <2>4 DEF Settling
<1>15. ASSUME Reopen(c) PROVE Leads(c)
  <2>1. Rest(r)
    BY <1>15 DEF Reopen, Phase, Answering
  <2>2. /\ pc'[c] = IF root[r] = "waiting_input" THEN "unmark" ELSE "resume"
        /\ UNCHANGED <<request, root, manager, marker, pending, asks, notices>>
    BY <1>15 DEF Reopen, RootWaits
  <2> QED
    BY <2>1, <2>2
    DEF Leads, Phase, Opening, Opened, Talking, Settling, Answering, Stopping,
        Rest, Blank, Waiting, Ended, Stopped, Rows, Told, Open
<1>16. ASSUME Unmark(c) PROVE Leads(c)
  BY ZenonT(60), <1>16 DEF Unmark, Leads, Phase, Opening, Opened, Talking, Settling,
     Answering, Stopping, Taking, Rest, Blank, Waiting, Ended, Stopped, Rows, Told, Open
<1>17. ASSUME ReopenRoot(c) PROVE Leads(c)
  BY <1>17 DEF ReopenRoot, Leads, Phase, Opening, Opened, Talking, Settling, Answering, Stopping,
     Taking, Rest, Blank, Waiting, Ended, Stopped, Rows, Told, Open
<1>18. ASSUME ReopenRequest(c) PROVE Leads(c)
  BY <1>18 DEF ReopenRequest, Leads, Phase, Opening, Opened, Talking, Settling, Answering,
     Stopping,
     Taking, Rest, Blank, Waiting, Ended, Stopped, Rows, Told, Open
<1>19. ASSUME Resume(c) PROVE Leads(c)
  <2>1. (Rest(r) /\ ~Waiting(r)) \/ (Taking(r) /\ Open(r))
    BY <1>19 DEF Resume, Phase, Answering
  <2>2. /\ pc'[c] = IF manager[r] = "waiting_input" THEN "take" ELSE "returned"
        /\ UNCHANGED <<request, root, manager, marker, pending, asks, notices>>
    BY <1>19 DEF Resume, StillWaiting
  <2> QED
    BY ZenonT(60), <2>1, <2>2
    DEF Leads, Phase, Opening, Opened, Talking, Settling, Answering, Stopping,
        Taking, Rest, Blank, Waiting, Ended, Stopped, Rows, Told, Open
<1>20. ASSUME TakeAnswer(c) PROVE Leads(c)
  BY <1>20 DEF TakeAnswer, Leads, Phase, Opening, Opened, Talking, Settling, Answering, Stopping,
     Taking, Rest, Blank, Waiting, Ended, Stopped, Rows, Told, Open
<1>21. ASSUME Wake(c) PROVE Leads(c)
  BY ZenonT(60), <1>21 DEF Wake, Leads, Phase, Opening, Opened, Talking, Settling,
     Answering, Stopping,
     Taking, Rest, Blank, Waiting, Ended, Stopped, Rows, Told, Open
<1>22. ASSUME CancelCheck(c) PROVE Leads(c)
  BY ZenonT(60), <1>22 DEF CancelCheck, Leads, Phase, Opening, Opened, Talking, Settling,
     Answering, Stopping, Taking, Rest, Blank, Waiting, Ended, Stopped, Rows, Told, Open
<1>23. ASSUME CancelLook(c) PROVE Leads(c)
  <2>1. /\ target[c] \in {"manager", "root"}
        /\ IF target[c] = "manager" THEN Waiting(r)
           ELSE Rows(r, "in_progress", "waiting_input", "cancelled") /\ Told(r, asks[r])
    BY <1>23 DEF CancelLook, Phase, Stopping
  <2>2. pc'[c] = "cancel write" /\ UNCHANGED target
    BY <1>23, <2>1 DEF CancelLook, StatusOf, Waiting, Rows, Active
  <2>3. UNCHANGED <<request, root, manager, marker, pending, asks, notices>>
    BY <1>23 DEF CancelLook
  <2> QED
    BY <2>1, <2>2, <2>3
    DEF Leads, Phase, Opening, Opened, Talking, Settling, Answering, Stopping,
        Waiting, Rows, Told, Open
<1>24. ASSUME CancelWrite(c) PROVE Leads(c)
  <2>1. /\ target[c] \in {"manager", "root"}
        /\ IF target[c] = "manager" THEN Waiting(r)
           ELSE Rows(r, "in_progress", "waiting_input", "cancelled") /\ Told(r, asks[r])
    BY <1>24 DEF CancelWrite, Phase, Stopping
  <2>2. /\ target'[c] = "root"
        /\ IF target[c] = "manager"
           THEN pc'[c] = "cancel look" /\ manager'[r] = "cancelled" /\ UNCHANGED root
           ELSE pc'[c] = "cancel request" /\ root'[r] = "cancelled" /\ UNCHANGED manager
    BY <1>24, <2>1 DEF CancelWrite, NextToCancel
  <2>3. UNCHANGED <<request, marker, pending, asks, notices>>
    BY <1>24 DEF CancelWrite
  <2> QED
    BY <2>1, <2>2, <2>3
    DEF Leads, Phase, Opening, Opened, Talking, Settling, Answering, Stopping,
        Waiting, Rows, Told, Open
<1>25. ASSUME CancelRequest(c) PROVE Leads(c)
  BY <1>25 DEF CancelRequest, Leads, Phase, Opening, Opened, Talking, Settling, Answering,
     Stopping,
     Taking, Rest, Blank, Waiting, Ended, Stopped, Rows, Told, Open
<1>26. ASSUME CancelUnmark(c) PROVE Leads(c)
  BY <1>26 DEF CancelUnmark, Leads, Phase, Opening, Opened, Talking, Settling, Answering,
     Stopping,
     Taking, Rest, Blank, Waiting, Ended, Stopped, Rows, Told, Open
<1>27. ~RunDirect(c)
  BY DEF RunDirect, Phase, Opening
<1> QED
  BY <1>2, <1>3, <1>4, <1>5, <1>6, <1>7, <1>8, <1>9, <1>10, <1>11, <1>12, <1>13, <1>14, <1>15,
     <1>16, <1>17, <1>18, <1>19, <1>20, <1>21, <1>22, <1>23, <1>24, <1>25, <1>26,
         <1>27 DEF Step, OpenSteps, GroupChatSteps,
     SettleSteps, AnswerSteps, CancelSteps

-----------------------------------------------------------------------------
(* The steps that change which calls are busy, or with what *)

LEMMA ArrivalKeepsStory ==
    ASSUME LockedCalls, CallInv, StoryInv, NEW c \in Calls, Start(c)
    PROVE  StoryInv'
<1> USE DEF StoryInv
<1>1. TypeOK
  BY DEF CallInv, TypeInv
<1>2. PICK r \in Calls, j \in Jobs, x \in {"lock", "find", "cancel look"} :
        Arrives(c, r, j, x)
  BY <1>1, StartFrame DEF CallInv
<1>3. /\ pc[c] = "idle" /\ x = "lock" /\ pc'[c] = "lock" /\ job'[c] = j /\ about'[c] = r
      /\ \/ r = c /\ j.op = "chat"
         \/ j.op = "submit" /\ manager[r] # "absent"
  BY <1>1, <1>2 DEF Arrives, LockedCalls, Answerable, TypeOK
<1>4. \A d \in Calls \ {c} : pc'[d] = pc[d] /\ job'[d] = job[d] /\ about'[d] = about[d]
  BY <1>1, <1>2 DEF Arrives, TypeOK
<1>5. \A d \in Calls : verdict'[d] = verdict[d] /\ (d # c => target'[d] = target[d])
  BY <1>2 DEF Arrives
<1>6. UNCHANGED <<request, root, manager, marker, pending, asks, notices>>
  BY <1>2 DEF Arrives, tables, history
<1>7. LockedOnly' /\ OthersTask'
  BY <1>3, <1>4, <1>6 DEF LockedOnly, OthersTask
<1>8. \A d \in Calls : Busy(d)' => Busy(d) /\ d # c
  BY <1>3, <1>4 DEF Busy, Inside
<1>9. FreshInv'
  BY <1>3, <1>4, <1>6 DEF FreshInv, Fresh, Blank, Rows, Told
<1>10. PhaseInv'
  <2> SUFFICES ASSUME NEW d \in Calls, Busy(d)' PROVE Phase(d)'
    BY DEF PhaseInv
  <2>1. d # c /\ Phase(d)
    BY <1>8 DEF PhaseInv
  <2> QED
    BY ZenonT(60), <2>1, <1>4, <1>5, <1>6 DEF Phase, Opening, Opened, Talking, Settling,
       Answering, Stopping, Outcome, Taking, Rest, Blank, Waiting, Ended, Stopped, Rows, Told,
       Open
<1>11. RestInv'
  <2> SUFFICES ASSUME NEW r2 \in Calls, Free(r2)' PROVE Rest(r2)'
    BY DEF RestInv
  <2>1. Free(r2)
    <3>1. ~Busy(c)
      BY <1>3 DEF Busy, Inside
    <3> QED
      BY <3>1, <1>4 DEF Free, Busy
  <2>2. Rest(r2)
    BY <2>1 DEF RestInv
  <2> QED
    BY <2>2, <1>6 DEF Rest, Blank, Waiting, Ended, Stopped, Rows, Told, Open
<1> QED
  BY <1>7, <1>9, <1>10, <1>11

LEMMA AcquireKeepsStory ==
    ASSUME LockedCalls, CallInv, StoryInv, NEW c \in Calls, AcquireLock(c)
    PROVE  StoryInv'
<1>1. /\ pc[c] = "lock" /\ holder[Place(c)] = None
      /\ pc'[c] = IF job[c].op = "chat" THEN "find" ELSE "reopen"
      /\ UNCHANGED <<request, root, manager, marker, pending, asks, notices, about, job>>
  BY DEF AcquireLock, At, LockFree, GotoIf, Goto, tables, locals, history, CallInv,
     TypeInv, TypeOK
<1>2. CallsKept(c) /\ RowsKept(c)
  BY StepFrame DEF CallInv, TypeInv, Step
<1>3. ~Busy(c) /\ about[c] \in Calls
  BY <1>1 DEF Busy, Inside, CallInv, TypeInv, TypeOK
<1>4. \A d \in Calls : Busy(d) => about[d] # about[c]
  <2> SUFFICES ASSUME NEW d \in Calls, Busy(d), about[d] = about[c] PROVE FALSE
    OBVIOUS
  <2>1. pc[d] # "idle" /\ pc[c] # "idle"
    BY <1>1 DEF Busy, Inside
  <2>2. Place(d) = Place(c)
    BY <2>1 DEF Place, LockedCalls, CallInv, AnswersOwnWork, ArrivalInv, PlaceKnown
  <2>3. Locking(d)
    BY <2>1 DEF StoryInv, LockedOnly, Locking
  <2> QED
    BY <1>1, <2>2, <2>3, LifecycleAssumption DEF CallInv, LockHeld
<1>5. Phase(c)'
  <2>1. CASE job[c].op = "chat"
    <3>1. Blank(c) /\ about[c] = c /\ pc'[c] = "find"
      BY <1>1, <2>1 DEF StoryInv, FreshInv, Fresh, CallInv, OpensOwn, Opens
    <3> QED
      BY <1>1, <3>1 DEF Blank, Phase, Opening, Opened, Talking, Settling, Answering,
         Stopping, Rows, Told
  <2>2. CASE job[c].op # "chat"
    <3>1. Rest(about[c]) /\ pc'[c] = "reopen"
      BY <1>1, <1>3, <1>4, <2>2 DEF StoryInv, RestInv, Free
    <3> QED
      BY <1>1, <3>1 DEF Phase, Opening, Talking, Settling, Answering, Stopping, Rest,
         Blank, Waiting, Ended, Stopped, Rows, Told, Open
  <2> QED
    BY <2>1, <2>2
<1>6. pc'[c] \in Inside
  BY <1>1 DEF Inside
<1> QED
  BY <1>1, <1>2, <1>4, <1>5, <1>6, KeepsOthers DEF Busy

LEMMA FindKeepsStory ==
    ASSUME LockedCalls, CallInv, StoryInv, NEW c \in Calls, FindPending(c)
    PROVE  StoryInv'
<1>1. /\ pc[c] = "find" /\ Busy(c)
      /\ UNCHANGED <<request, root, manager, marker, pending, asks, notices, job>>
  BY DEF FindPending, At, tables, history, Busy, Inside
<1>2. CallsKept(c) /\ RowsKept(c) /\ TypeOK
  BY StepFrame DEF CallInv, TypeInv, Step
<1>3. about[c] = c /\ Blank(c)
  BY <1>1 DEF StoryInv, PhaseInv, Phase, Opening, Opened, Blank
<1>4. \A d \in Calls \ {c} : Busy(d) => about[d] # about[c]
  BY <1>1, AloneInside DEF StoryInv
<1>5. CASE UNCHANGED about /\ pc' = [pc EXCEPT ![c] = "create request"]
  <2>1. pc'[c] = "create request"
    BY <1>2, <1>5 DEF TypeOK
  <2>2. Phase(c)'
    BY <1>1, <1>3, <1>5, <2>1 DEF Phase, Opening, Opened, Talking, Settling, Answering,
       Stopping, Blank, Rows, Told
  <2> QED
    BY <1>1, <1>2, <1>4, <1>5, <2>1, <2>2, KeepsOthers DEF Busy, Inside
<1>6. ASSUME NEW r \in Calls, Finds(c, r), InWork(r, job[c].work), Answerable(r),
             about' = [about EXCEPT ![c] = r],
             \E x \in {"cancel check", "reopen"} : pc' = [pc EXCEPT ![c] = x]
      PROVE  StoryInv'
  <2>1. root[r] = "waiting_input"
    <3>1. job[c].op # "retry"
      BY <1>1 DEF StoryInv, LockedOnly
    <3> QED
      BY <1>6, <3>1 DEF Finds, FindsMarked, Marked
  <2>2. r # c
    BY <1>3, <2>1 DEF Blank, Rows
  <2>3. Free(r)
    <3> SUFFICES ASSUME NEW d \in Calls, Busy(d), about[d] = r PROVE FALSE
      BY DEF Free
    <3>1. job[d].work = job[c].work
      BY <1>6 DEF CallInv, AnswersOwnWork, InWork, Busy, Inside
    <3> QED
      BY <1>1, <1>3, <2>2, <3>1, Exclusive DEF StoryInv
  <2>4. Waiting(r)
    BY <2>1, <2>3 DEF StoryInv, RestInv, Rest, Blank, Ended, Stopped, Rows
  <2>5. /\ about'[c] = r /\ pc'[c] \in {"cancel check", "reopen"}
        /\ \A d \in Calls \ {c} : about'[d] = about[d] /\ pc'[d] = pc[d]
                                 /\ verdict'[d] = verdict[d] /\ target'[d] = target[d]
    BY <1>2, <1>6 DEF TypeOK, CallsKept
  <2>6. LockedOnly' /\ OthersTask'
    BY <1>1, <1>6, <2>5 DEF StoryInv, LockedOnly, OthersTask, Answerable
  <2>7. FreshInv'
    BY <1>1, <2>5 DEF StoryInv, FreshInv, Fresh, Blank, Rows, Told
  <2>8. PhaseInv'
    <3>1. Phase(c)'
      BY <1>1, <2>4, <2>5 DEF Phase, Opening, Talking, Settling, Answering, Stopping,
         Rest, Waiting, Rows, Told, Open
    <3>2. ASSUME NEW d \in Calls \ {c}, Busy(d)' PROVE Phase(d)'
      <4>1. Phase(d)
        BY <2>5, <3>2 DEF StoryInv, PhaseInv, Busy
      <4> QED
        BY ZenonT(60), <4>1, <1>1, <2>5 DEF Phase, Opening, Opened, Talking, Settling, Answering,
           Stopping, Outcome, Taking, Rest, Blank, Waiting, Ended, Stopped, Rows, Told, Open
    <3> QED
      BY <3>1, <3>2 DEF PhaseInv
  <2>9. RestInv'
    <3> SUFFICES ASSUME NEW q \in Calls, Free(q)' PROVE Rest(q)'
      BY DEF RestInv
    <3>1. Rest(q)
      <4>1. CASE q = c
        BY <1>3, <4>1 DEF Rest
      <4>2. CASE q # c
        <5>1. Free(q)
          BY <1>3, <2>5, <4>2 DEF Free, Busy
        <5> QED
          BY <5>1 DEF StoryInv, RestInv
      <4> QED
        BY <4>1, <4>2
    <3> QED
      BY <3>1, <1>1 DEF Rest, Blank, Waiting, Ended, Stopped, Rows, Told, Open
  <2> QED
    BY <2>6, <2>7, <2>8, <2>9 DEF StoryInv
<1> QED
  BY <1>2, <1>5, <1>6, FindStep

LEMMA StoryStep == LockedCalls /\ CallInv /\ StoryInv /\ [Next]_vars => StoryInv'
<1> SUFFICES ASSUME LockedCalls, CallInv, StoryInv, [Next]_vars PROVE StoryInv'
  OBVIOUS
<1>1. ASSUME NEW c \in Calls, Step(c) PROVE StoryInv'
  <2>1. /\ CallsKept(c) /\ RowsKept(c) /\ UNCHANGED job
        /\ pc[c] \in Inside \cup {"lock"} /\ pc'[c] \in Inside \cup {"returned"}
        /\ pc[c] # "find" => UNCHANGED about
    BY <1>1, StepFrame DEF CallInv, TypeInv
  <2>2. CASE AcquireLock(c)
    BY <2>2, AcquireKeepsStory
  <2>3. CASE FindPending(c)
    BY <2>3, FindKeepsStory
  <2>4. CASE ~AcquireLock(c) /\ ~FindPending(c)
    <3>1. pc[c] \notin {"lock", "find"}
      BY <1>1, <2>4 DEF Step, OpenSteps, GroupChatSteps, SettleSteps, AnswerSteps,
         CancelSteps, CreateRequest, CreateRoot, OpenRequest, OpenRoot,
         RunDirect, Delegate, StartManager, GroupChatEnds, GroupChatAsks, Park, Mark,
         SettleRequest, SettleRoot, Notify, Reopen, Unmark, ReopenRoot, ReopenRequest,
         Resume, TakeAnswer, Wake, CancelCheck, CancelLook, CancelWrite, CancelRequest,
         CancelUnmark, At
    <3>2. Busy(c) /\ UNCHANGED <<job, about>> /\ pc[c] # "idle"
      BY <2>1, <3>1 DEF Busy, Inside
    <3>3. Phase(c) /\ \A d \in Calls \ {c} : Busy(d) => about[d] # about[c]
      BY <3>2, AloneInside DEF StoryInv, PhaseInv
    <3>4. Leads(c)
      BY <1>1, <2>4, <3>2, <3>3, PhaseStep
    <3> QED
      BY <2>1, <3>2, <3>3, <3>4, KeepsOthers DEF Leads
  <2> QED
    BY <2>2, <2>3, <2>4
<1>2. ASSUME NEW p \in Procs, Crash(p) PROVE StoryInv'
  BY <1>2 DEF Crash, LockedCalls
<1>3. CASE UNCHANGED vars
  <2>1. UNCHANGED <<request, root, manager, marker, pending, asks, notices, pc, job, about,
                    target, verdict>>
    BY <1>3 DEF vars, tables, locals, history
  <2>2. LockedOnly' /\ OthersTask' /\ FreshInv'
    BY <2>1 DEF StoryInv, LockedOnly, OthersTask, FreshInv, Fresh, Blank, Rows, Told
  <2>3. ASSUME NEW c \in Calls, Phase(c) PROVE Phase(c)'
    <3>1. Opening(c)'
      BY <2>1, <2>3 DEF Phase, Opening, Opened, Rows, Told
    <3>2. Talking(c, about[c])' /\ Settling(c, about[c])'
      BY <2>1, <2>3 DEF Phase, Talking, Settling, Outcome, Rows, Told, Open
    <3>3. Answering(c, about[c])' /\ Stopping(c, about[c])'
      BY <2>1, <2>3 DEF Phase, Answering, Stopping, Taking, Rest, Blank, Waiting, Ended,
         Stopped, Rows, Told, Open
    <3> QED
      BY <3>1, <3>2, <3>3 DEF Phase
  <2>4. \A r \in Calls : Rest(r) => Rest(r)'
    BY <2>1 DEF Rest, Blank, Waiting, Ended, Stopped, Rows, Told, Open
  <2> QED
    BY <2>1, <2>2, <2>3, <2>4 DEF StoryInv, PhaseInv, RestInv, Free, Busy
<1>4. ASSUME NEW c \in Calls, Start(c) PROVE StoryInv'
  BY <1>4, ArrivalKeepsStory
<1> QED
  BY <1>1, <1>2, <1>3, <1>4 DEF Next, Over

LEMMA StoryInit == Init => StoryInv
<1> SUFFICES ASSUME Init PROVE StoryInv
  OBVIOUS
<1>1. \A r \in Calls : Blank(r)
  BY NoQuestions DEF Init, Blank, Rows, Told
<1> QED
  BY <1>1 DEF Init, StoryInv, LockedOnly, OthersTask, FreshInv, PhaseInv, RestInv, Rest,
     Busy, Inside

-----------------------------------------------------------------------------
(* What the invariant says of the runs' properties *)

LEMMA StoryHolds == LockedCalls => (Spec => [](CallInv /\ StoryInv))
<1> SUFFICES ASSUME LockedCalls PROVE Spec => [](CallInv /\ StoryInv)
  OBVIOUS
<1>1. Init => CallInv /\ StoryInv
  BY CallInit, StoryInit
<1>2. CallInv /\ StoryInv /\ [Next]_vars => (CallInv /\ StoryInv)'
  BY CallStep, StoryStep
<1> QED
  BY <1>1, <1>2, PTL DEF Spec

\* A request that is running has a call at it.
LEMMA RunningIsBusy ==
    ASSUME StoryInv, NEW r \in Calls, root[r] = "in_progress"
    PROVE  \E c \in Calls : Busy(c) /\ about[c] = r
BY DEF StoryInv, RestInv, Free, Rest, Blank, Waiting, Ended, Stopped, Rows

\* At most one request of a work runs at a time: the message that arrives while
\* one runs waits for it to end or to ask.
THEOREM OneRuns == ASSUME LockedCalls PROVE Spec => []OneRunningPerWork
<1>1. CallInv /\ StoryInv => OneRunningPerWork
  <2> SUFFICES ASSUME CallInv, StoryInv, NEW q \in Calls, NEW r \in Calls,
                      root[q] = "in_progress", root[r] = "in_progress",
                      job[q].work = job[r].work
               PROVE  q = r
    BY DEF OneRunningPerWork
  <2>1. PICK c \in Calls : Busy(c) /\ about[c] = q
    BY RunningIsBusy
  <2>2. PICK d \in Calls : Busy(d) /\ about[d] = r
    BY RunningIsBusy
  <2>3. job[c].work = job[d].work
    BY ZenonT(60), <2>1, <2>2 DEF CallInv, AnswersOwnWork, Busy, Inside
  <2> QED
    BY <2>1, <2>2, <2>3, Exclusive DEF StoryInv
<1> QED
  BY <1>1, StoryHolds, PTL

\* Quiet in the sense of the properties is free in that of the invariant.
LEMMA QuietRests ==
    ASSUME StoryInv, NEW r \in Calls, Quiet(r)
    PROVE  Waiting(r) \/ Ended(r) \/ Stopped(r)
BY DEF StoryInv, RestInv, Free, Quiet, Rest, Blank, Rows

\* The three tables agree on every request no call works on.
THEOREM TablesAgree == ASSUME LockedCalls PROVE Spec => []StatusesAgree
<1>1. StoryInv => StatusesAgree
  BY QuietRests DEF StatusesAgree, Waiting, Ended, Stopped, Rows
<1> QED
  BY <1>1, StoryHolds, PTL

\* A question that stands can be answered, and is marked only while it stands.
THEOREM QuestionsAnswerable == ASSUME LockedCalls PROVE Spec => []QuestionStaysAnswerable
<1>1. StoryInv => QuestionStaysAnswerable
  BY QuietRests DEF QuestionStaysAnswerable, Waits, Answerable, Waiting, Ended, Stopped,
     Rows, Open
<1> QED
  BY <1>1, StoryHolds, PTL

\* The notices of a request are its questions and then its end.
THEOREM NoticesComplete == ASSUME LockedCalls PROVE Spec => []NoticesTellTheStory
<1>1. CallInv /\ StoryInv => NoticesTellTheStory
  <2> SUFFICES ASSUME CallInv, StoryInv, NEW r \in Calls, Quiet(r)
               PROVE  notices[r] = Questions(asks[r]) \o
                        (IF root[r] \in {"done", "failed"} THEN <<root[r]>> ELSE <<>>)
    BY DEF NoticesTellTheStory, Questions
  <2>1. \A n \in Nat : Questions(n) \o <<>> = Questions(n)
    BY DEF Questions
  <2>2. asks[r] \in Nat
    BY DEF CallInv, TypeInv, TypeOK
  <2> QED
    BY <2>1, <2>2, QuietRests DEF Waiting, Ended, Stopped, Rows, Told
<1> QED
  BY <1>1, StoryHolds, PTL

\* Who writes a root finds one that has not ended.
LEMMA RootWriters ==
    ASSUME CallInv, StoryInv, NEW c \in Calls, Step(c)
    PROVE  UNCHANGED root \/ root[about[c]] \notin Final
<1> USE DEF At, tables
<1>1. Busy(c) => Phase(c)
  BY DEF StoryInv, PhaseInv
<1>2. CASE CreateRoot(c) \/ OpenRoot(c)
  BY <1>1, <1>2 DEF CreateRoot, OpenRoot, Busy, Inside, Phase, Opening, Opened, Rows, Final
<1>3. CASE SettleRoot(c)
  BY <1>1, <1>3 DEF SettleRoot, Busy, Inside, Phase, Settling, Final
<1>4. CASE ReopenRoot(c)
  BY <1>1, <1>4 DEF ReopenRoot, Busy, Inside, Phase, Answering, Waiting, Rows, Final
<1>5. CASE CancelWrite(c)
  BY <1>1, <1>5 DEF CancelWrite, Busy, Inside, Phase, Stopping, Waiting, Rows, Final
<1>6. CASE AcquireLock(c) \/ FindPending(c) \/ CreateRequest(c) \/ OpenRequest(c)
           \/ RunDirect(c) \/ Delegate(c) \/ StartManager(c) \/ GroupChatSteps(c)
  BY <1>6 DEF AcquireLock, FindPending, CreateRequest, OpenRequest, RunDirect, Delegate,
     StartManager, GroupChatSteps, GroupChatEnds, GroupChatAsks, Park
<1>7. CASE Mark(c) \/ SettleRequest(c) \/ Notify(c) \/ Reopen(c) \/ Unmark(c)
           \/ ReopenRequest(c) \/ Resume(c) \/ TakeAnswer(c) \/ Wake(c)
  BY <1>7 DEF Mark, SettleRequest, Notify, Reopen, Unmark, ReopenRequest, Resume,
     TakeAnswer, Wake
<1>8. CASE CancelCheck(c) \/ CancelLook(c) \/ CancelRequest(c) \/ CancelUnmark(c)
  BY <1>8 DEF CancelCheck, CancelLook, CancelRequest, CancelUnmark
<1> QED
  BY <1>2, <1>3, <1>4, <1>5, <1>6, <1>7, <1>8 DEF Step, OpenSteps, SettleSteps,
     AnswerSteps, CancelSteps

\* No step moves a root task out of done, failed or cancelled.
THEOREM EndsAreFinal == ASSUME LockedCalls PROVE Spec => SettledIsFinal
<1>1. CallInv /\ StoryInv /\ [Next]_vars =>
        [\A r \in Calls : root[r] \in Final => root'[r] = root[r]]_vars
  <2> SUFFICES ASSUME CallInv, StoryInv, Next, NEW r \in Calls, root[r] \in Final
               PROVE  root'[r] = root[r]
    BY DEF vars
  <2>1. ASSUME NEW c \in Calls, Start(c) PROVE UNCHANGED root
    BY <2>1 DEF Start, StartChat, StartSubmit, StartRetry, StartCancel, Arrive, tables
  <2>2. ASSUME NEW c \in Calls, Step(c) PROVE root'[r] = root[r]
    BY <2>2, RootWriters, StepFrame DEF RowsKept, CallInv, TypeInv
  <2>3. ASSUME NEW p \in Procs, Crash(p) PROVE UNCHANGED root
    BY <2>3 DEF Crash, tables
  <2> QED
    BY <2>1, <2>2, <2>3 DEF Next, Over, vars, tables
<1> QED
  BY <1>1, StoryHolds, PTL DEF Spec, SettledIsFinal

-----------------------------------------------------------------------------
(* The transactions of a call amount to turns that happen at once *)

Served(r) == \E c \in Calls : pc[c] \in Serving /\ about[c] = r

\* What the row of a root that nobody runs stands for.
Seen(r) == IF root[r] = "in_progress" THEN "waiting_input" ELSE root[r]

\* Nothing that WorkConversation tells of r is changed.
SameSeen(r) ==
    Stage'[r] = Stage[r] /\ WorkOf'[r] = WorkOf[r] /\ notices'[r] = notices[r]

LEMMA StageIs == \A r \in Calls : Stage[r] = IF Served(r) THEN "running" ELSE Seen(r)
BY DEF Stage, Served, Seen

LEMMA ServingIsBusy ==
    ASSUME NEW c \in Calls, pc[c] \in Serving
    PROVE  Busy(c) /\ pc[c] # "idle" /\ pc[c] \notin {"lock", "find"}
BY DEF Serving, Busy, Inside

\* A call alone at its request shows where that request stands.
LEMMA OwnStage ==
    ASSUME TypeOK, NEW c \in Calls, CallsKept(c), about'[c] = about[c],
           \A d \in Calls \ {c} : Busy(d) => about[d] # about[c]
    PROVE  /\ Stage[about[c]] = IF pc[c] \in Serving THEN "running" ELSE Seen(about[c])
           /\ Stage'[about[c]] = IF pc'[c] \in Serving THEN "running" ELSE Seen(about[c])'
<1> DEFINE r == about[c]
<1>1. r \in Calls
  BY DEF TypeOK
<1>2. Served(r) <=> pc[c] \in Serving
  BY ServingIsBusy DEF Served
<1>3. \A d \in Calls \ {c} : pc'[d] = pc[d] /\ about'[d] = about[d]
  BY DEF CallsKept
<1>4. Served(r)' <=> pc'[c] \in Serving
  <2>1. \A d \in Calls \ {c} : ~(pc'[d] \in Serving /\ about'[d] = r)
    BY <1>3, ServingIsBusy
  <2> QED
    BY <2>1 DEF Served
<1> QED
  BY <1>1, <1>2, <1>4 DEF Stage, Served, Seen

\* The other requests stand where they stood.
LEMMA OthersStage ==
    ASSUME TypeOK, NEW c \in Calls, CallsKept(c), RowsKept(c), about'[c] = about[c],
           UNCHANGED job
    PROVE  \A q \in Calls \ {about[c]} : SameSeen(q)
<1> SUFFICES ASSUME NEW q \in Calls, q # about[c] PROVE SameSeen(q)
  OBVIOUS
<1>1. \A d \in Calls \ {c} : pc'[d] = pc[d] /\ about'[d] = about[d]
  BY DEF CallsKept
<1>2. Served(q)' <=> Served(q)
  BY <1>1 DEF Served
<1>3. root'[q] = root[q] /\ notices'[q] = notices[q]
  BY DEF RowsKept
<1>4. Stage'[q] = Stage[q]
  BY <1>2, <1>3 DEF Stage, Served
<1> QED
  BY <1>3, <1>4 DEF SameSeen, WorkOf

\* A call inside its work that runs no request: nobody else there runs one.
LEMMA WorkIsCalm ==
    ASSUME LockedCalls, CallInv, StoryInv, NEW c \in Calls, Busy(c), pc[c] \notin Serving
    PROVE  Conversation!Calm(job[c].work)
<1> SUFFICES ASSUME NEW q \in Calls, WorkOf[q] = job[c].work, Stage[q] = "running"
             PROVE  FALSE
  BY DEF Conversation!Calm
<1>1. root[q] # "running" /\ Seen(q) # "running"
  BY DEF CallInv, TypeInv, TypeOK, TaskStatus, Active, Final, Seen
<1>2. PICK d \in Calls : pc[d] \in Serving /\ about[d] = q
  BY <1>1, StageIs DEF Served
<1>3. Busy(d) /\ pc[d] # "idle" /\ pc[c] # "idle"
  BY <1>2, ServingIsBusy DEF Busy, Inside
<1>4. job[c].work \in Works /\ None \notin Works
  BY <1>3, LifecycleAssumption DEF CallInv, ArrivalInv, PlaceKnown
<1>5. WorkOf[q] = job[q].work
  BY <1>4 DEF WorkOf
<1>6. job[d].work = job[q].work
  BY <1>2, <1>3 DEF CallInv, AnswersOwnWork
<1>7. d = c
  BY <1>3, <1>5, <1>6, Exclusive DEF StoryInv
<1> QED
  BY <1>2, <1>7

-----------------------------------------------------------------------------
(* Each step is a turn of WorkConversation or none *)

\* A step that changes nothing of any request.
LEMMA Unseen ==
    ASSUME \A q \in Calls : SameSeen(q), notices \in [Calls -> Seq(TaskStatus)],
           notices' \in [Calls -> Seq(TaskStatus)]
    PROVE  UNCHANGED <<WorkOf, Stage, notices>>
<1>1. Stage' = Stage
  <2>1. Stage = [q \in Calls |-> Stage[q]] /\ Stage' = [q \in Calls |-> Stage'[q]]
    BY DEF Stage
  <2> QED
    BY <2>1 DEF SameSeen
<1>2. WorkOf' = WorkOf
  <2>1. WorkOf = [q \in Calls |-> WorkOf[q]] /\ WorkOf' = [q \in Calls |-> WorkOf'[q]]
    BY DEF WorkOf
  <2> QED
    BY <2>1 DEF SameSeen
<1>3. notices' = notices
  BY DEF SameSeen
<1> QED
  BY <1>1, <1>2, <1>3

\* A step that moves one request.
LEMMA OneSeen ==
    ASSUME NEW r \in Calls, \A q \in Calls \ {r} : SameSeen(q)
    PROVE  /\ \A there : Stage'[r] = there => Stage' = [Stage EXCEPT ![r] = there]
           /\ \A w : WorkOf'[r] = w => WorkOf' = [WorkOf EXCEPT ![r] = w]
<1>1. Stage = [q \in Calls |-> Stage[q]] /\ Stage' = [q \in Calls |-> Stage'[q]]
  BY DEF Stage
<1>2. WorkOf = [q \in Calls |-> WorkOf[q]] /\ WorkOf' = [q \in Calls |-> WorkOf'[q]]
  BY DEF WorkOf
<1>3. \A q \in Calls \ {r} : Stage'[q] = Stage[q] /\ WorkOf'[q] = WorkOf[q]
  BY DEF SameSeen
<1> QED
  BY <1>1, <1>2, <1>3

\* What a step of c may do to its request, as seen from outside.
TurnStays(c) ==
    LET r == about[c]
    IN  /\ notices' = notices /\ (root'[r] = "absent" <=> root[r] = "absent")
        /\ pc'[c] \in Serving <=> pc[c] \in Serving
        /\ pc[c] \notin Serving => Seen(r)' = Seen(r)

TurnOpens(c) ==
    LET r == about[c]
    IN  /\ notices' = notices /\ root[r] = "absent" /\ root'[r] # "absent"
        /\ pc[c] \notin Serving /\ pc'[c] \in Serving

TurnTells(c) ==
    LET r == about[c]
    IN  /\ root' = root /\ root[r] \in Conversation!Outcomes
        /\ notices' = [notices EXCEPT ![r] = Append(@, root[r])]
        /\ pc[c] \in Serving /\ pc'[c] \notin Serving

TurnAnswers(c) ==
    LET r == about[c]
    IN  /\ notices' = notices /\ root' = root /\ root[r] = "in_progress"
        /\ pc[c] \notin Serving /\ pc'[c] \in Serving

TurnStops(c) ==
    LET r == about[c]
    IN  /\ notices' = notices /\ root[r] = "waiting_input" /\ root'[r] = "cancelled"
        /\ pc[c] \notin Serving /\ pc'[c] \notin Serving

LEMMA TurnStep ==
    ASSUME LockedCalls, CallInv, StoryInv, NEW c \in Calls, Phase(c), Busy(c),
           UNCHANGED <<job, about>>, Step(c), pc[c] # "find"
    PROVE  TurnStays(c) \/ TurnOpens(c) \/ TurnTells(c) \/ TurnAnswers(c) \/ TurnStops(c)
<1> DEFINE r == about[c]
<1>1. TypeOK /\ r \in Calls /\ job[c].op # "retry" /\ pc[c] # "lock"
  BY DEF CallInv, TypeInv, TypeOK, StoryInv, LockedOnly, Busy, Inside
<1> USE <1>1 DEF TypeOK, At, Goto, GotoIf, tables, locals, history
<1>2. ASSUME CreateRequest(c) \/ Reopen(c) \/ Unmark(c) \/ ReopenRequest(c) \/ Resume(c)
             \/ CancelCheck(c) \/ CancelLook(c) \/ CancelRequest(c) \/ CancelUnmark(c)
      PROVE  TurnStays(c)
  <2>1. root' = root /\ notices' = notices
    BY <1>2 DEF CreateRequest, Reopen, Unmark, ReopenRequest, Resume, CancelCheck, CancelLook,
       CancelRequest, CancelUnmark
  <2>2. pc[c] \notin Serving
    BY <1>2 DEF CreateRequest, Reopen, Unmark, ReopenRequest, Resume, CancelCheck, CancelLook,
       CancelRequest, CancelUnmark, Serving
  <2>3. pc'[c] \in {"create root", "unmark", "resume", "reopen root", "take", "returned",
                    "cancel look", "cancel write", "cancel request", "cancel unmark"}
    <3>1. CASE CreateRequest(c) \/ Reopen(c) \/ Unmark(c) \/ ReopenRequest(c) \/ Resume(c)
      BY <3>1 DEF CreateRequest, Reopen, Unmark, ReopenRequest, Resume
    <3>2. CASE CancelCheck(c) \/ CancelLook(c) \/ CancelRequest(c) \/ CancelUnmark(c)
      BY <3>2 DEF CancelCheck, CancelLook, CancelRequest, CancelUnmark, NextToCancel
    <3> QED
      BY <1>2, <3>1, <3>2
  <2>4. pc'[c] \notin Serving
    BY <2>3 DEF Serving
  <2> QED
    BY <2>1, <2>2, <2>4 DEF TurnStays, Seen
<1>3. ASSUME OpenRequest(c) \/ Delegate(c) \/ StartManager(c) \/ GroupChatEnds(c)
             \/ GroupChatAsks(c) \/ Park(c) \/ Mark(c) \/ SettleRequest(c) \/ Wake(c)
      PROVE  TurnStays(c)
  <2>1. root' = root /\ notices' = notices
    BY <1>3 DEF OpenRequest, Delegate, StartManager, GroupChatEnds, GroupChatAsks, Park, Mark,
       SettleRequest, Wake
  <2>2. pc[c] \in Serving
    BY <1>3 DEF OpenRequest, Delegate, StartManager, GroupChatEnds, GroupChatAsks, Park, Mark,
       SettleRequest, Wake, Serving
  <2>3. pc'[c] \in Serving
    BY <1>3 DEF OpenRequest, Delegate, StartManager, GroupChatEnds, GroupChatAsks, Park, Mark,
       SettleRequest, Wake, Serving
  <2> QED
    BY <2>1, <2>2, <2>3 DEF TurnStays
<1>4. ASSUME OpenRoot(c) \/ SettleRoot(c) PROVE TurnStays(c)
  <2>1. notices' = notices /\ root[r] # "absent" /\ root'[r] # "absent"
    <3>1. CASE OpenRoot(c)
      BY <3>1 DEF OpenRoot, Phase, Opening, Opened, Rows
    <3>2. CASE SettleRoot(c)
      <4>1. root[r] = "in_progress" /\ root'[r] = Outcome(c) /\ notices' = notices
        BY <3>2 DEF SettleRoot, Phase, Settling
      <4>2. Outcome(c) # "absent"
        BY <3>2 DEF SettleRoot, Phase, Settling, Outcome
      <4> QED
        BY <4>1, <4>2
    <3> QED
      BY <1>4, <3>1, <3>2
  <2>2. pc[c] \in Serving /\ pc'[c] \in Serving
    BY <1>4 DEF OpenRoot, SettleRoot, Serving
  <2> QED
    BY <2>1, <2>2 DEF TurnStays
<1>5. ASSUME ReopenRoot(c) PROVE TurnStays(c)
  <2>1. notices' = notices /\ root[r] = "waiting_input" /\ root'[r] = "in_progress"
    BY <1>5 DEF ReopenRoot, Phase, Answering, Waiting, Rows
  <2>2. pc[c] \notin Serving /\ pc'[c] \notin Serving
    BY <1>5 DEF ReopenRoot, Serving
  <2> QED
    BY <2>1, <2>2 DEF TurnStays, Seen
<1>6. ASSUME CreateRoot(c) PROVE TurnOpens(c)
  <2>1. notices' = notices /\ root[r] = "absent" /\ root'[r] # "absent"
    BY <1>6 DEF CreateRoot, Phase, Opening, Opened, Rows
  <2>2. pc[c] \notin Serving /\ pc'[c] \in Serving
    BY <1>6 DEF CreateRoot, Serving
  <2> QED
    BY <2>1, <2>2 DEF TurnOpens
<1>7. ASSUME Notify(c) PROVE TurnTells(c)
  <2>1. /\ root[r] = Outcome(c) /\ root' = root /\ pc[c] = "notify" /\ pc'[c] = "returned"
        /\ notices' = [notices EXCEPT ![r] =
                         IF Announced(c) THEN Append(@, Outcome(c)) ELSE @]
    BY <1>7 DEF Notify, Phase, Settling
  <2>2. Outcome(c) \in {"done", "failed", "waiting_input"}
    BY <2>1 DEF Phase, Settling, Outcome
  <2>3. notices' = [notices EXCEPT ![r] = Append(@, root[r])]
    BY <2>1, <2>2 DEF Announced
  <2> QED
    BY <2>1, <2>2, <2>3 DEF TurnTells, Conversation!Outcomes, Serving
<1>8. ASSUME TakeAnswer(c) PROVE TurnAnswers(c)
  <2>1. notices' = notices /\ root' = root /\ root[r] = "in_progress"
    BY <1>8 DEF TakeAnswer, Phase, Answering, Taking, Rows
  <2>2. pc[c] \notin Serving /\ pc'[c] \in Serving
    BY <1>8 DEF TakeAnswer, Serving
  <2> QED
    BY <2>1, <2>2 DEF TurnAnswers
<1>9. ASSUME CancelWrite(c) PROVE TurnStays(c) \/ TurnStops(c)
  <2>1. /\ pc[c] \notin Serving /\ pc'[c] \notin Serving
        /\ notices' = notices /\ root[r] = "waiting_input"
    <3>1. pc[c] = "cancel write" /\ pc'[c] \in {"cancel look", "cancel request"}
      <4>1. /\ pc[c] = "cancel write"
            /\ pc' = [pc EXCEPT ![c] = IF target[c] = "manager" THEN "cancel look"
                                      ELSE "cancel request"]
        BY <1>9 DEF CancelWrite, NextToCancel
      <4> QED
        BY <4>1
    <3>2. notices' = notices /\ root[r] = "waiting_input"
      BY <1>9, <3>1 DEF CancelWrite, Phase, Stopping, Waiting, Rows
    <3> QED
      BY <3>1, <3>2 DEF Serving
  <2>2. root' = root \/ root'[r] = "cancelled"
    BY <1>9 DEF CancelWrite
  <2> QED
    BY <2>1, <2>2 DEF TurnStays, TurnStops, Seen
<1>10. ~AcquireLock(c) /\ ~FindPending(c) /\ ~RunDirect(c)
  BY DEF AcquireLock, FindPending, RunDirect, Phase, Opening
<1> QED
  BY <1>2, <1>3, <1>4, <1>5, <1>6, <1>7, <1>8, <1>9, <1>10 DEF Step, OpenSteps,
     GroupChatSteps, SettleSteps, AnswerSteps, CancelSteps

\* A step inside the work is one of WorkConversation, or none.
LEMMA InsideStep ==
    ASSUME LockedCalls, CallInv, CallInv', StoryInv, NEW c \in Calls, Busy(c), Step(c),
           pc[c] # "find"
    PROVE  [Conversation!Next]_<<WorkOf, Stage, notices>>
<1> DEFINE r == about[c]
           w == job[c].work
<1>1. /\ CallsKept(c) /\ RowsKept(c) /\ UNCHANGED <<job, about>>
      /\ TypeOK /\ r \in Calls /\ pc[c] # "idle"
  BY StepFrame DEF CallInv, TypeInv, TypeOK, Busy, Inside
<1>2. Phase(c) /\ \A d \in Calls \ {c} : Busy(d) => about[d] # about[c]
  BY AloneInside DEF StoryInv, PhaseInv
<1>3. \A q \in Calls \ {r} : SameSeen(q)
  BY <1>1, OthersStage
<1>4. /\ Stage[r] = IF pc[c] \in Serving THEN "running" ELSE Seen(r)
      /\ Stage'[r] = IF pc'[c] \in Serving THEN "running" ELSE Seen(r)'
  BY <1>1, <1>2, OwnStage
<1>5. job[r].work = w /\ w \in Works
  BY <1>1 DEF CallInv, AnswersOwnWork, ArrivalInv, PlaceKnown
<1>6. /\ WorkOf[r] = IF root[r] = "absent" THEN None ELSE w
      /\ WorkOf'[r] = IF root'[r] = "absent" THEN None ELSE w
  BY <1>1, <1>5 DEF WorkOf
<1>7. /\ \A there : Stage'[r] = there => Stage' = [Stage EXCEPT ![r] = there]
      /\ \A x : WorkOf'[r] = x => WorkOf' = [WorkOf EXCEPT ![r] = x]
  BY <1>1, <1>3, OneSeen
<1>8. pc[c] \notin Serving => Conversation!Calm(w)
  BY WorkIsCalm
<1>9. CASE TurnStays(c)
  <2>1. SameSeen(r)
    BY <1>4, <1>6, <1>9 DEF TurnStays, SameSeen
  <2>2. \A q \in Calls : SameSeen(q)
    BY <1>3, <2>1
  <2>3. UNCHANGED <<WorkOf, Stage, notices>>
    BY <2>2, Unseen DEF CallInv, TypeInv, TypeOK
  <2> QED
    BY <2>3
<1>10. CASE TurnOpens(c)
  <2>1. Stage[r] = "absent" /\ Conversation!Calm(w)
    BY <1>4, <1>8, <1>10 DEF TurnOpens, Seen
  <2>2. Stage' = [Stage EXCEPT ![r] = "running"] /\ WorkOf' = [WorkOf EXCEPT ![r] = w]
    BY <1>4, <1>6, <1>7, <1>10 DEF TurnOpens
  <2>3. notices' = notices
    BY <1>10 DEF TurnOpens
  <2>4. Conversation!Open(r, w)
    BY <2>1, <2>2, <2>3 DEF Conversation!Open, Conversation!Become
  <2> QED
    BY <1>1, <1>5, <2>4 DEF Conversation!Next
<1>11. CASE TurnTells(c)
  <2>1. /\ root[r] \in Conversation!Outcomes /\ root' = root
        /\ notices' = [notices EXCEPT ![r] = Append(@, root[r])]
        /\ Stage[r] = "running" /\ Stage'[r] = root[r]
    <3>1. /\ root[r] \in Conversation!Outcomes /\ root' = root
          /\ notices' = [notices EXCEPT ![r] = Append(@, root[r])]
          /\ pc[c] \in Serving /\ pc'[c] \notin Serving
      BY <1>11 DEF TurnTells
    <3>2. root'[r] = root[r] /\ root[r] # "in_progress"
      BY <3>1 DEF Conversation!Outcomes
    <3>3. Stage[r] = "running" /\ Stage'[r] = root[r]
      BY <1>1, <1>4, <3>1, <3>2 DEF Seen
    <3> QED
      BY <3>1, <3>3
  <2>2. Stage' = [Stage EXCEPT ![r] = root[r]]
    BY <1>7, <2>1
  <2>3. WorkOf' = WorkOf
    <3>1. \A q \in Calls : WorkOf'[q] = WorkOf[q]
      BY <1>3, <1>6, <2>1 DEF SameSeen
    <3> QED
      BY <3>1 DEF WorkOf
  <2>4. Conversation!Tell(r, root[r])
    BY <2>1, <2>2, <2>3 DEF Conversation!Tell, Conversation!Become
  <2> QED
    BY <1>1, <2>1, <2>4 DEF Conversation!Next
<1>12. CASE TurnAnswers(c)
  <2>1. /\ Stage[r] = "waiting_input" /\ Stage'[r] = "running" /\ Conversation!Calm(w)
        /\ WorkOf[r] = w /\ WorkOf'[r] = w /\ notices' = notices
    BY <1>4, <1>6, <1>8, <1>12 DEF TurnAnswers, Seen
  <2>2. Stage' = [Stage EXCEPT ![r] = "running"]
    BY <1>7, <2>1
  <2>3. WorkOf' = WorkOf
    <3>1. \A q \in Calls : WorkOf'[q] = WorkOf[q]
      BY <1>3, <2>1 DEF SameSeen
    <3> QED
      BY <3>1 DEF WorkOf
  <2>4. Conversation!Answer(r)
    BY <2>1, <2>2, <2>3 DEF Conversation!Answer, Conversation!Become
  <2> QED
    BY <1>1, <2>4 DEF Conversation!Next
<1>13. CASE TurnStops(c)
  <2>1. /\ Stage[r] = "waiting_input" /\ Stage'[r] = "cancelled" /\ Conversation!Calm(w)
        /\ WorkOf[r] = w /\ WorkOf'[r] = w /\ notices' = notices
    <3>1. /\ notices' = notices /\ root[r] = "waiting_input" /\ root'[r] = "cancelled"
          /\ pc[c] \notin Serving /\ pc'[c] \notin Serving
      BY <1>13 DEF TurnStops
    <3>2. Stage[r] = "waiting_input" /\ Stage'[r] = "cancelled"
      BY <1>1, <1>4, <3>1 DEF Seen
    <3>3. WorkOf[r] = w /\ WorkOf'[r] = w
      BY <1>6, <3>1
    <3> QED
      BY <1>8, <3>1, <3>2, <3>3
  <2>2. Stage' = [Stage EXCEPT ![r] = "cancelled"]
    BY <1>7, <2>1
  <2>3. WorkOf' = WorkOf
    <3>1. \A q \in Calls : WorkOf'[q] = WorkOf[q]
      BY <1>3, <2>1 DEF SameSeen
    <3> QED
      BY <3>1 DEF WorkOf
  <2>4. Conversation!Stop(r)
    BY <2>1, <2>2, <2>3 DEF Conversation!Stop, Conversation!Become
  <2> QED
    BY <1>1, <2>4 DEF Conversation!Next
<1> QED
  BY <1>1, <1>2, <1>9, <1>10, <1>11, <1>12, <1>13, TurnStep

\* What an arrival assigns.
LEMMA Arriving ==
    ASSUME CallInv, NEW c \in Calls, Start(c)
    PROVE  /\ \E j \in Jobs : job' = [job EXCEPT ![c] = j]
           /\ \E r \in Calls, x \in {"lock", "find", "cancel look"} :
                 pc' = [pc EXCEPT ![c] = x] /\ about' = [about EXCEPT ![c] = r]
<1>1. PICK r \in Calls, j \in Jobs, x \in {"lock", "find", "cancel look"} :
         Arrives(c, r, j, x)
  BY StartFrame DEF CallInv, TypeInv
<1>2. /\ pc' = [pc EXCEPT ![c] = x] /\ about' = [about EXCEPT ![c] = r]
      /\ job' = [job EXCEPT ![c] = j]
  BY <1>1 DEF Arrives
<1> QED
  BY <1>1, <1>2

\* A call that arrives, gets the lock or looks for a question changes nothing yet.
LEMMA OutsideStep ==
    ASSUME LockedCalls, CallInv, CallInv', StoryInv, NEW c \in Calls,
           Start(c) \/ AcquireLock(c) \/ FindPending(c)
    PROVE  UNCHANGED <<WorkOf, Stage, notices>>
<1>1. TypeOK /\ TypeOK'
  BY DEF CallInv, TypeInv
<1>2. root' = root /\ notices' = notices
  BY DEF Start, StartChat, StartSubmit, StartRetry, StartCancel, Arrive, AcquireLock,
     FindPending, tables, history
<1>3. pc[c] \in {"idle", "lock", "find"} /\ pc[c] \notin Serving
  BY DEF Start, StartChat, StartSubmit, StartRetry, StartCancel, Arrive, AcquireLock,
     FindPending, At, Serving
<1>4. /\ \A d \in Calls \ {c} : pc'[d] = pc[d] /\ about'[d] = about[d]
      /\ pc'[c] \in {"lock", "find", "reopen", "cancel look", "cancel check",
                     "create request"}
  <2>1. CASE Start(c)
    <3>1. PICK r \in Calls, x \in {"lock", "find", "cancel look"} :
             pc' = [pc EXCEPT ![c] = x] /\ about' = [about EXCEPT ![c] = r]
      BY <2>1, Arriving
    <3>2. DOMAIN pc = Calls /\ DOMAIN about = Calls
      BY <1>1 DEF TypeOK
    <3>3. pc'[c] = x /\ \A d \in Calls \ {c} : pc'[d] = pc[d]
      BY <3>1, <3>2
    <3>4. \A d \in Calls \ {c} : about'[d] = about[d]
      BY <3>1, <3>2
    <3> QED
      BY <3>1, <3>3, <3>4
  <2>2. CASE AcquireLock(c)
    BY <1>1, <2>2 DEF AcquireLock, Goto, GotoIf, TypeOK, locals
  <2>3. CASE FindPending(c)
    <3>1. /\ \E x \in {"cancel check", "reopen", "create request"} : pc' = [pc EXCEPT ![c] = x]
          /\ about' = about \/ \E r \in Calls : about' = [about EXCEPT ![c] = r]
      BY <2>3 DEF FindPending, Goto, GotoIf
    <3> QED
      BY <1>1, <3>1 DEF TypeOK
  <2> QED
    BY <2>1, <2>2, <2>3
<1>5. pc'[c] \notin Serving
  BY <1>4 DEF Serving
<1>6. \A q \in Calls : root[q] # "absent" => job'[q] = job[q]
  <2>1. \A d \in Calls \ {c} : job'[d] = job[d]
    <3>1. CASE Start(c)
      <4>1. PICK j \in Jobs : job' = [job EXCEPT ![c] = j]
        BY <3>1, Arriving
      <4> QED
        BY <1>1, <4>1 DEF TypeOK
    <3>2. CASE AcquireLock(c) \/ FindPending(c)
      BY <3>2 DEF AcquireLock, FindPending, locals
    <3> QED
      BY <3>1, <3>2
  <2>2. pc[c] = "idle" => root[c] = "absent"
    BY DEF CallInv, ArrivalInv, TasksOfCalls
  <2>3. pc[c] # "idle" => job' = job
    BY DEF Start, StartChat, StartSubmit, StartRetry, StartCancel, Arrive, AcquireLock,
       FindPending, At, locals
  <2> QED
    BY <2>1, <2>2, <2>3
<1>7. \A q \in Calls : SameSeen(q)
  <2> SUFFICES ASSUME NEW q \in Calls PROVE SameSeen(q)
    OBVIOUS
  <2>1. Served(q)' <=> Served(q)
    BY <1>3, <1>4, <1>5 DEF Served
  <2>2. Stage'[q] = Stage[q]
    BY <1>2, <2>1 DEF Stage, Served
  <2>3. WorkOf'[q] = WorkOf[q]
    BY <1>2, <1>6 DEF WorkOf
  <2> QED
    BY <1>2, <2>2, <2>3 DEF SameSeen
<1> QED
  BY <1>1, <1>7, Unseen DEF TypeOK

\* In one process of messages and answers, where every call takes the lock of its work,
\* what the calls write in a dozen transactions amounts to turns that happen at once and
\* one after the other: nothing of another turn of the work falls into one, and what came
\* of a turn was told before the next begins (chat(), submit_task_input()).
THEOREM TurnsHappenAtOnce == ASSUME LockedCalls PROVE Spec => ImplementsConversation
<1>1. Init => Conversation!Init
  <2> SUFFICES ASSUME Init PROVE Conversation!Init
    OBVIOUS
  <2>1. \A r \in Calls : pc[r] \notin Serving /\ root[r] = "absent"
    BY DEF Init, Serving
  <2>2. Stage = [r \in Calls |-> "absent"] /\ WorkOf = [r \in Calls |-> None]
    BY <2>1 DEF Stage, WorkOf
  <2> QED
    BY <2>2 DEF Init, Conversation!Init
<1>2. CallInv /\ CallInv' /\ StoryInv /\ [Next]_vars =>
        [Conversation!Next]_<<WorkOf, Stage, notices>>
  <2> SUFFICES ASSUME CallInv, CallInv', StoryInv, [Next]_vars
               PROVE  [Conversation!Next]_<<WorkOf, Stage, notices>>
    OBVIOUS
  <2>1. ASSUME NEW c \in Calls, Start(c)
        PROVE  [Conversation!Next]_<<WorkOf, Stage, notices>>
    BY <2>1, OutsideStep
  <2>2. ASSUME NEW c \in Calls, Step(c)
        PROVE  [Conversation!Next]_<<WorkOf, Stage, notices>>
    <3>1. pc[c] \in Inside \cup {"lock"}
      BY <2>2, StepFrame DEF CallInv, TypeInv
    <3>2. CASE AcquireLock(c) \/ FindPending(c)
      BY <3>2, OutsideStep
    <3>3. CASE ~AcquireLock(c) /\ ~FindPending(c)
      <4>1. pc[c] \notin {"lock", "find"}
        BY <2>2, <3>3 DEF Step, OpenSteps, GroupChatSteps, SettleSteps, AnswerSteps,
           CancelSteps, CreateRequest, CreateRoot, OpenRequest, OpenRoot,
           RunDirect, Delegate, StartManager, GroupChatEnds, GroupChatAsks, Park, Mark,
           SettleRequest, SettleRoot, Notify, Reopen, Unmark, ReopenRoot, ReopenRequest,
           Resume, TakeAnswer, Wake, CancelCheck, CancelLook, CancelWrite, CancelRequest,
           CancelUnmark, At
      <4> QED
        BY <2>2, <3>1, <4>1, InsideStep DEF Busy
    <3> QED
      BY <3>2, <3>3
  <2>3. ASSUME NEW p \in Procs, Crash(p) PROVE FALSE
    BY <2>3 DEF Crash, LockedCalls
  <2>4. CASE UNCHANGED vars
    BY <2>4 DEF vars, tables, locals, history, WorkOf, Stage
  <2> QED
    BY <2>1, <2>2, <2>3, <2>4 DEF Next, Over
<1> QED
  BY <1>1, <1>2, StoryHolds, PTL DEF Spec, ImplementsConversation, Conversation!Spec,
     Conversation!vars

=============================================================================
