----------------------------- MODULE TaskLifecycle -----------------------------
(***************************************************************************)
(* The life of requests and tasks in ChatService and AgentManager.         *)
(*                                                                         *)
(* A user message in a work opens a request and its root task; the root is *)
(* delegated to one manager task whose group chat ends, fails, or asks the *)
(* user a question.  A question parks the manager task (waiting_input) and *)
(* leaves a marker on the root; the next message in the work, or a call of *)
(* the input endpoint, answers it and resumes the same task.               *)
(*                                                                         *)
(* Every store call commits a transaction of its own (core/db.py), so each *)
(* action below is one store call of one call c of the API; calls run in   *)
(* threads and interleave between any two of them.  Chat in a work and the *)
(* input endpoint hold that work's lock; cancel and retry hold none.  The  *)
(* lock is a threading.Lock: the web app and the MCP work-tools server are *)
(* processes with separate locks over one database.                        *)
(***************************************************************************)
EXTENDS Naturals, Sequences

CONSTANTS
    Calls,    \* the API calls of a run; one that opens a request lends it its name
    Works,    \* works; each has one conversation, its agent_chanakya session
    Procs,    \* processes that have a ChatService
    Web,      \* the one of them that serves the task endpoints
    Ops,      \* the operations that occur in a run
    MaxAsks,  \* bound: questions one request's group chat may raise
    None

Operations == {"chat", "submit", "retry", "cancel", "crash"}

ASSUME LifecycleAssumption ==
    /\ Web \in Procs
    /\ Ops \subseteq Operations
    /\ MaxAsks \in Nat
    /\ None \notin Calls \cup Works \cup Procs

VARIABLES
    request,  \* requests[r].status, "absent" before the row exists
    root,     \* status of the root task of r
    manager,  \* status of the manager task of r
    marker,   \* root input: work_pending_interaction is active
    pending,  \* manager input: maf_pending_request_id, 0 when cleared
    created,  \* requests in the order of their root tasks' created_at
    holder,   \* who holds each process's lock of each work
    pc,       \* the store call each API call makes next
    job,      \* what each API call was asked to do
    about,    \* the request it works on: its own, or the one it answers or stops
    target,   \* the task a cancellation looks at
    verdict,  \* how the agent run ended
    asks,     \* history: questions raised for r
    answers,  \* history: answers taken for r
    notices   \* history: outcomes notified for r

tables == <<request, root, manager, marker, pending, created>>
locals == <<job, about, target, verdict>>
history == <<asks, answers, notices>>
vars == <<tables, holder, pc, locals, history>>

Active == {"created", "in_progress", "waiting_input"}
Final == {"done", "failed", "cancelled"}
TaskStatus == Active \cup Final \cup {"absent"}
RequestStatus ==
    {"absent", "created", "in_progress", "completed", "failed", "cancelled"}
Outside == {"idle", "lock", "returned", "crashed"}
Inside ==
    {"find", "create request", "create root", "open request", "open root",
     "run", "delegate", "start manager", "group chat", "park", "mark",
     "settle request", "settle root", "notify", "reopen", "unmark",
     "reopen root", "reopen request", "resume", "take", "wake",
     "cancel check", "cancel look", "cancel write", "cancel request",
     "cancel unmark"}
Jobs ==
    [op: Operations \cup {"none"}, proc: Procs \cup {None},
     work: Works \cup {None}, text: {"message", "stop"}]
Verdicts == {"none", "done", "failed", "ask", "blank", "stopped"}

\* Every variable keeps its type.
TypeOK ==
    /\ request \in [Calls -> RequestStatus]
    /\ root \in [Calls -> TaskStatus]
    /\ manager \in [Calls -> TaskStatus]
    /\ marker \in [Calls -> BOOLEAN]
    /\ pending \in [Calls -> Nat]
    /\ created \in Seq(Calls)
    /\ holder \in [Procs \X Works -> Calls \cup {None}]
    /\ pc \in [Calls -> Outside \cup Inside]
    /\ job \in [Calls -> Jobs]
    /\ about \in [Calls -> Calls]
    /\ target \in [Calls -> {"manager", "root"}]
    /\ verdict \in [Calls -> Verdicts]
    /\ asks \in [Calls -> Nat]
    /\ answers \in [Calls -> Nat]
    /\ notices \in [Calls -> Seq(TaskStatus)]

Init ==
    /\ request = [r \in Calls |-> "absent"]
    /\ root = [r \in Calls |-> "absent"]
    /\ manager = [r \in Calls |-> "absent"]
    /\ marker = [r \in Calls |-> FALSE]
    /\ pending = [r \in Calls |-> 0]
    /\ created = <<>>
    /\ holder = [pw \in Procs \X Works |-> None]
    /\ pc = [c \in Calls |-> "idle"]
    /\ job = [c \in Calls |->
                [op |-> "none", proc |-> None, work |-> None, text |-> "message"]]
    /\ about = [c \in Calls |-> c]
    /\ target = [c \in Calls |-> "root"]
    /\ verdict = [c \in Calls |-> "none"]
    /\ asks = [r \in Calls |-> 0]
    /\ answers = [r \in Calls |-> 0]
    /\ notices = [r \in Calls |-> <<>>]

-----------------------------------------------------------------------------
(* The program counter and the work lock                                   *)

At(c, here) == pc[c] = here
Goto(c, there) == pc' = [pc EXCEPT ![c] = there]
GotoIf(c, test, there, otherwise) == Goto(c, IF test THEN there ELSE otherwise)

Place(c) == <<job[c].proc, job[c].work>>
Locking(c) == job[c].op \in {"chat", "submit"}
LockFree_Ignored(c) == TRUE   \* slip: the call does not wait for the lock
LockFree(c) == holder[Place(c)] = None

\* slip: acquire() and release() instead of "with": an exception keeps the lock
Release_OnReturnOnly(c) ==
    holder' = IF Locking(c) /\ verdict[c] # "none"
              THEN [holder EXCEPT ![Place(c)] = None] ELSE holder

\* Leaving the "with self._work_lock(work_id)" block, by return or exception.
Release(c) ==
    holder' = IF Locking(c) THEN [holder EXCEPT ![Place(c)] = None] ELSE holder

AcquireLock(c) ==
    /\ At(c, "lock")
    /\ LockFree(c)
    /\ holder' = [holder EXCEPT ![Place(c)] = c]
    /\ GotoIf(c, job[c].op = "chat", "find", "reopen")
    /\ UNCHANGED <<tables, locals, history>>

-----------------------------------------------------------------------------
(* A call arrives                                                          *)

\* The input endpoint's two checks: the task waits, and it is the asking one.
Answerable(r) == manager[r] = "waiting_input" /\ pending[r] # 0

Arrive(c, operation, place, r, text) ==
    /\ operation \in Ops
    /\ At(c, "idle")
    /\ job' = [job EXCEPT ![c] = [op |-> operation, proc |-> place[1],
                                  work |-> place[2], text |-> text]]
    /\ about' = [about EXCEPT ![c] = r]
    /\ UNCHANGED <<tables, holder, verdict, history>>

StartChat(c) ==
    \E p \in Procs, w \in Works, text \in {"message", "stop"} :
        /\ Arrive(c, "chat", <<p, w>>, c, text)
        /\ Goto(c, "lock")
        /\ UNCHANGED target

StartSubmit(c) ==
    \E r \in Calls :
        /\ Answerable(r)
        /\ Arrive(c, "submit", <<Web, job[r].work>>, r, "message")
        /\ Goto(c, "lock")
        /\ UNCHANGED target

\* retry_task repeats the request's message through chat() without a work:
\* no lock, and no delegation when it opens a new request.
StartRetry(c) ==
    \E r \in Calls :
        /\ root[r] = "failed"
        /\ Arrive(c, "retry", <<Web, job[r].work>>, c, job[r].text)
        /\ Goto(c, "find")
        /\ UNCHANGED target

StatusOf(r, task) == IF task = "root" THEN root[r] ELSE manager[r]

StartCancel(c) ==
    \E r \in Calls, task \in {"manager", "root"} :
        /\ StatusOf(r, task) \in Active
        /\ Arrive(c, "cancel", <<Web, job[r].work>>, r, "message")
        /\ target' = [target EXCEPT ![c] = task]
        /\ Goto(c, "cancel look")

-----------------------------------------------------------------------------
(* Whose question does the message answer?                                 *)

InWork_Any(r, w) == root[r] # "absent"   \* slip: the lookup is not scoped to the work
InWork(r, w) == root[r] # "absent" /\ job[r].work = w
Marked(r) == root[r] = "waiting_input" /\ marker[r] /\ Answerable(r)

\* _find_active_work_pending_task: the newest marked root of the work.
FindsMarked(w, r) ==
    \E i \in DOMAIN created :
        /\ created[i] = r
        /\ InWork(r, w) /\ Marked(r)
        /\ \A j \in DOMAIN created :
             j > i => ~(InWork(created[j], w) /\ Marked(created[j]))

\* find_waiting_input_task: the waiting task of the session if there is just one.
FindsOnly(w, r) ==
    \A q \in Calls : (InWork(q, w) /\ Answerable(q)) <=> q = r

Finds(c, r) ==
    IF job[c].op = "retry" THEN FindsOnly(job[c].work, r)
                           ELSE FindsMarked(job[c].work, r)

FindPending(c) ==
    /\ At(c, "find")
    /\ \/ \E r \in Calls :
            /\ Finds(c, r)
            /\ about' = [about EXCEPT ![c] = r]
            /\ GotoIf(c, job[c].text = "stop", "cancel check", "reopen")
       \/ /\ \A r \in Calls : ~Finds(c, r)
          /\ Goto(c, "create request")
          /\ UNCHANGED about
    /\ UNCHANGED <<tables, holder, job, target, verdict, history>>

-----------------------------------------------------------------------------
(* A message that answers nothing opens a request                          *)

CreateRequest(c) ==
    /\ At(c, "create request")
    /\ request' = [request EXCEPT ![c] = "created"]
    /\ Goto(c, "create root")
    /\ UNCHANGED <<root, manager, marker, pending, created, holder, locals, history>>

CreateRoot(c) ==
    /\ At(c, "create root")
    /\ root' = [root EXCEPT ![c] = "created"]
    /\ created' = Append(created, c)
    /\ Goto(c, "open request")
    /\ UNCHANGED <<request, manager, marker, pending, holder, locals, history>>

OpenRequest(c) ==
    /\ At(c, "open request")
    /\ request' = [request EXCEPT ![c] = "in_progress"]
    /\ Goto(c, "open root")
    /\ UNCHANGED <<root, manager, marker, pending, created, holder, locals, history>>

\* Both processes have a manager: in a work every message is delegated.
OpenRoot(c) ==
    /\ At(c, "open root")
    /\ root' = [root EXCEPT ![c] = "in_progress"]
    /\ GotoIf(c, job[c].op = "retry", "run", "delegate")
    /\ UNCHANGED <<request, manager, marker, pending, created, holder, locals, history>>

\* The direct run answers, or raises into the except block of _chat_internal.
RunDirect(c) ==
    /\ At(c, "run")
    /\ \/ /\ verdict' = [verdict EXCEPT ![c] = "done"]
          /\ Goto(c, "mark")
       \/ /\ verdict' = [verdict EXCEPT ![c] = "failed"]
          /\ Goto(c, "settle request")
    /\ UNCHANGED <<tables, holder, job, about, target, history>>

Delegate(c) ==
    /\ At(c, "delegate")
    /\ manager' = [manager EXCEPT ![c] = "created"]
    /\ Goto(c, "start manager")
    /\ UNCHANGED <<request, root, marker, pending, created, holder, locals, history>>

StartManager(c) ==
    /\ At(c, "start manager")
    /\ manager' = [manager EXCEPT ![c] = "in_progress"]
    /\ Goto(c, "group chat")
    /\ UNCHANGED <<request, root, marker, pending, created, holder, locals, history>>

-----------------------------------------------------------------------------
(* The group chat: it completes or fails (an exception is a failure), or it *)
(* needs user input, with a question to show ("ask") or a blank one.        *)

GroupChatEnds(c) ==
    /\ At(c, "group chat")
    /\ \E end \in {"done", "failed"} :
         /\ verdict' = [verdict EXCEPT ![c] = end]
         /\ manager' = [manager EXCEPT ![about[c]] = end]
    /\ Goto(c, "mark")
    /\ UNCHANGED <<request, root, marker, pending, created, holder,
                   job, about, target, history>>

GroupChatAsks(c) ==
    /\ At(c, "group chat")
    /\ asks[about[c]] < MaxAsks
    /\ \E end \in {"ask", "blank"} : verdict' = [verdict EXCEPT ![c] = end]
    /\ asks' = [asks EXCEPT ![about[c]] = @ + 1]
    /\ pending' = [pending EXCEPT ![about[c]] = asks[about[c]] + 1]
    /\ Goto(c, "park")
    /\ UNCHANGED <<request, root, manager, marker, created, holder,
                   job, about, target, answers, notices>>

Park(c) ==
    /\ At(c, "park")
    /\ manager' = [manager EXCEPT ![about[c]] = "waiting_input"]
    /\ Goto(c, "mark")
    /\ UNCHANGED <<request, root, marker, pending, created, holder, locals, history>>

-----------------------------------------------------------------------------
(* The shared tail of _chat_internal and _submit_task_input_locked         *)

Outcome_Raw(c) == verdict[c]   \* slip: the completion status taken as a task status
Outcome(c) == IF verdict[c] \in {"ask", "blank"} THEN "waiting_input" ELSE verdict[c]

\* slip: waiting_input falls through to completed
RequestStatusOf_NoWaiting(status) ==
    CASE status = "failed" -> "failed"
      [] status = "cancelled" -> "cancelled"
      [] OTHER -> "completed"

\* _request_status_from_task_status
RequestStatusOf(status) ==
    CASE status = "failed" -> "failed"
      [] status = "cancelled" -> "cancelled"
      [] status = "waiting_input" -> "in_progress"
      [] OTHER -> "completed"

MarkerAfter_UnlessDone(c) == verdict[c] # "done"   \* slip: a failure sets the marker
\* A question sets the marker, a blank one leaves it, an end clears it.
MarkerAfter(c) == IF verdict[c] = "blank" THEN marker[about[c]] ELSE verdict[c] = "ask"

Mark(c) ==
    /\ At(c, "mark")
    /\ marker' = [marker EXCEPT ![about[c]] = MarkerAfter(c)]
    /\ Goto(c, "settle request")
    /\ UNCHANGED <<request, root, manager, pending, created, holder, locals, history>>

SettleRequest(c) ==
    /\ At(c, "settle request")
    /\ request' = [request EXCEPT ![about[c]] = RequestStatusOf(Outcome(c))]
    /\ Goto(c, "settle root")
    /\ UNCHANGED <<root, manager, marker, pending, created, holder, locals, history>>

SettleRoot(c) ==
    /\ At(c, "settle root")
    /\ root' = [root EXCEPT ![about[c]] = Outcome(c)]
    /\ Goto(c, "notify")
    /\ UNCHANGED <<request, manager, marker, pending, created, holder, locals, history>>

Announced_EndsOnly(c) == Outcome(c) \in {"done", "failed"}   \* slip: questions go unannounced
\* _notify_root_task_outcome stays silent about any other status.
Announced(c) == Outcome(c) \in {"done", "failed", "waiting_input"}

Notify(c) ==
    /\ At(c, "notify")
    /\ notices' = [notices EXCEPT ![about[c]] =
                     IF Announced(c) THEN Append(@, Outcome(c)) ELSE @]
    /\ Release(c)
    /\ Goto(c, "returned")
    /\ UNCHANGED <<tables, locals, asks, answers>>

-----------------------------------------------------------------------------
(* An answer resumes the waiting task                                      *)

RootWaits_Assumed(c) == TRUE    \* slip: the root is reopened unseen
RootWaits_Ignored(c) == FALSE   \* slip: the root is never reopened
RootWaits(c) == root[about[c]] = "waiting_input"

Reopen(c) ==
    /\ At(c, "reopen")
    /\ GotoIf(c, RootWaits(c), "unmark", "resume")
    /\ UNCHANGED <<tables, holder, locals, history>>

Unmark(c) ==
    /\ At(c, "unmark")
    /\ marker' = [marker EXCEPT ![about[c]] = FALSE]
    /\ Goto(c, "reopen root")
    /\ UNCHANGED <<request, root, manager, pending, created, holder, locals, history>>

ReopenRoot(c) ==
    /\ At(c, "reopen root")
    /\ root' = [root EXCEPT ![about[c]] = "in_progress"]
    /\ Goto(c, "reopen request")
    /\ UNCHANGED <<request, manager, marker, pending, created, holder, locals, history>>

ReopenRequest(c) ==
    /\ At(c, "reopen request")
    /\ request' = [request EXCEPT ![about[c]] = "in_progress"]
    /\ Goto(c, "resume")
    /\ UNCHANGED <<root, manager, marker, pending, created, holder, locals, history>>

StillWaiting_Assumed(c) == TRUE   \* slip: the check before the lock is trusted
\* The manager checks the task once more and raises if it no longer waits.
StillWaiting(c) == manager[about[c]] = "waiting_input"

Resume(c) ==
    /\ At(c, "resume")
    /\ \/ /\ StillWaiting(c)
          /\ Goto(c, "take")
          /\ UNCHANGED holder
       \/ /\ ~StillWaiting(c)
          /\ Release(c)
          /\ Goto(c, "returned")
    /\ UNCHANGED <<tables, locals, history>>

TakeAnswer(c) ==
    /\ At(c, "take")
    /\ pending' = [pending EXCEPT ![about[c]] = 0]
    /\ answers' = [answers EXCEPT ![about[c]] = @ + 1]
    /\ Goto(c, "wake")
    /\ UNCHANGED <<request, root, manager, marker, created, holder, locals,
                   asks, notices>>

Wake(c) ==
    /\ At(c, "wake")
    /\ manager' = [manager EXCEPT ![about[c]] = "in_progress"]
    /\ Goto(c, "group chat")
    /\ UNCHANGED <<request, root, marker, pending, created, holder, locals, history>>

-----------------------------------------------------------------------------
(* Cancellation: the task, then its ancestors, each read and then written;  *)
(* then the request and the marker.  A "stop" message comes here with the   *)
(* lock held, the cancel endpoint without.                                  *)

CancelCheck(c) ==
    /\ At(c, "cancel check")
    /\ \/ /\ manager[about[c]] \in Active
          /\ target' = [target EXCEPT ![c] = "manager"]
          /\ Goto(c, "cancel look")
          /\ UNCHANGED holder
       \/ /\ manager[about[c]] \notin Active
          /\ Release(c)
          /\ Goto(c, "returned")
          /\ UNCHANGED target
    /\ UNCHANGED <<tables, job, about, verdict, history>>

\* slip: only the task itself is cancelled
NextToCancel_NoParent(c) == Goto(c, "cancel request") /\ UNCHANGED target

\* On to the parent of the current task, or past the root.
NextToCancel(c) ==
    /\ target' = [target EXCEPT ![c] = "root"]
    /\ GotoIf(c, target[c] = "manager", "cancel look", "cancel request")

CancelLook(c) ==
    /\ At(c, "cancel look")
    /\ \/ /\ StatusOf(about[c], target[c]) \in Active
          /\ Goto(c, "cancel write")
          /\ UNCHANGED target
       \/ /\ StatusOf(about[c], target[c]) \notin Active
          /\ NextToCancel(c)
    /\ UNCHANGED <<tables, holder, job, about, verdict, history>>

CancelWrite(c) ==
    /\ At(c, "cancel write")
    /\ \/ /\ target[c] = "manager"
          /\ manager' = [manager EXCEPT ![about[c]] = "cancelled"]
          /\ UNCHANGED root
       \/ /\ target[c] = "root"
          /\ root' = [root EXCEPT ![about[c]] = "cancelled"]
          /\ UNCHANGED manager
    /\ NextToCancel(c)
    /\ UNCHANGED <<request, marker, pending, created, holder, job, about, verdict,
                   history>>

CancelRequest(c) ==
    /\ At(c, "cancel request")
    /\ request' = [request EXCEPT ![about[c]] = "cancelled"]
    /\ Goto(c, "cancel unmark")
    /\ UNCHANGED <<root, manager, marker, pending, created, holder, locals, history>>

CancelUnmark(c) ==
    /\ At(c, "cancel unmark")
    /\ marker' = [marker EXCEPT ![about[c]] = FALSE]
    /\ verdict' = [verdict EXCEPT ![c] = "stopped"]
    /\ Release(c)
    /\ Goto(c, "returned")
    /\ UNCHANGED <<request, root, manager, pending, created, job, about, target,
                   history>>

-----------------------------------------------------------------------------
(* A process dies and is restarted: its calls are gone, its locks are new,  *)
(* and nothing at start-up looks at the tasks they left behind.             *)

Crash(p) ==
    /\ "crash" \in Ops
    /\ \E c \in Calls : job[c].proc = p /\ pc[c] \notin {"idle", "returned", "crashed"}
    /\ pc' = [c \in Calls |->
                IF job[c].proc = p /\ pc[c] \notin {"idle", "returned"}
                THEN "crashed" ELSE pc[c]]
    /\ holder' = [pw \in Procs \X Works |-> IF pw[1] = p THEN None ELSE holder[pw]]
    /\ UNCHANGED <<tables, locals, history>>

-----------------------------------------------------------------------------
Start(c) == StartChat(c) \/ StartSubmit(c) \/ StartRetry(c) \/ StartCancel(c)

OpenSteps(c) ==
    \/ CreateRequest(c) \/ CreateRoot(c) \/ OpenRequest(c) \/ OpenRoot(c)
    \/ RunDirect(c) \/ Delegate(c) \/ StartManager(c)
GroupChatSteps(c) == GroupChatEnds(c) \/ GroupChatAsks(c) \/ Park(c)
SettleSteps(c) == Mark(c) \/ SettleRequest(c) \/ SettleRoot(c) \/ Notify(c)
AnswerSteps(c) ==
    \/ Reopen(c) \/ Unmark(c) \/ ReopenRoot(c) \/ ReopenRequest(c)
    \/ Resume(c) \/ TakeAnswer(c) \/ Wake(c)
CancelSteps(c) ==
    \/ CancelCheck(c) \/ CancelLook(c) \/ CancelWrite(c)
    \/ CancelRequest(c) \/ CancelUnmark(c)

Step(c) ==
    \/ AcquireLock(c) \/ FindPending(c) \/ OpenSteps(c) \/ GroupChatSteps(c)
    \/ SettleSteps(c) \/ AnswerSteps(c) \/ CancelSteps(c)

\* All calls of the run are over.
Over ==
    /\ \A c \in Calls : pc[c] \in {"returned", "crashed"}
    /\ UNCHANGED vars

Next ==
    \/ \E c \in Calls : Start(c) \/ Step(c)
    \/ \E p \in Procs : Crash(p)
    \/ Over

Spec == Init /\ [][Next]_vars

\* A thread that entered a call keeps running: agent runs end by their timeout
\* and a lock is passed on when its holder returns.  Nobody need ever call.
FairSpec == Spec /\ \A c \in Calls : WF_vars(Step(c))

-----------------------------------------------------------------------------
(* Properties                                                              *)

Busy(c) == pc[c] \in Inside

\* A request no call is working on.
Quiet(r) == request[r] # "absent" /\ \A c \in Calls : Busy(c) => about[c] # r

Waits(r) == root[r] = "waiting_input"

\* Two calls of one process are never both inside one work's critical section:
\* what chat() and submit_task_input() take the work lock for.
OneCallPerWork ==
    \A c, d \in Calls :
        /\ Busy(c) /\ Locking(c)
        /\ Busy(d) /\ Locking(d)
        /\ Place(c) = Place(d)
        => c = d

\* At most one request of a work is running: a message sent meanwhile waits for
\* it to end or to ask, in _chat_locked and _submit_task_input_locked alike.
OneRunningPerWork ==
    \A q, r \in Calls :
        /\ root[q] = "in_progress" /\ root[r] = "in_progress"
        /\ job[q].work = job[r].work
        => q = r

\* When no call works on a request, its row, its root task and its manager task
\* tell one story, although three separate transactions wrote them.
StatusesAgree ==
    \A r \in Calls : Quiet(r) =>
        /\ manager[r] = root[r]
        /\ <<root[r], request[r]>> \in
             {<<"waiting_input", "in_progress">>, <<"done", "completed">>,
              <<"failed", "failed">>, <<"cancelled", "cancelled">>}

\* A root shown as waiting can be answered through the input endpoint, with the
\* id of its last question, and the marker that lets chat find it never points
\* at a request that stopped waiting.
QuestionStaysAnswerable ==
    \A r \in Calls : Quiet(r) =>
        /\ Waits(r) => Answerable(r) /\ pending[r] = asks[r]
        /\ marker[r] => Waits(r)

\* A message answers or stops questions of its own work only.
AnswersOwnWork ==
    \A c \in Calls : pc[c] # "idle" => job[about[c]].work = job[c].work

\* Every question is answered at most once, and none but an open question is
\* answered: two messages racing for one question resume its task once.
OneAnswerPerQuestion ==
    \A r \in Calls : answers[r] + (IF pending[r] = 0 THEN 0 ELSE 1) = asks[r]

\* The user is told of each question once and of the end once, in that order,
\* whatever calls resumed the request in between.
NoticesTellTheStory ==
    \A r \in Calls : Quiet(r) =>
        notices[r] = [i \in 1..asks[r] |-> "waiting_input"]
                       \o (IF root[r] \in {"done", "failed"} THEN <<root[r]>> ELSE <<>>)

\* "Stopped that task. I won't continue it unless you ask me to restart it."
StopIsFinal ==
    \A c \in Calls :
        verdict[c] = "stopped" /\ job[c].text = "stop" =>
            root[about[c]] = "cancelled" /\ manager[about[c]] = "cancelled"

\* No step moves a root task out of done, failed or cancelled.
SettledIsFinal ==
    [][\A r \in Calls : root[r] \in Final => root'[r] = root[r]]_vars

\* "In /work, resume from the explicit active pending interaction marker rather
\* than guessing from all historical waiting tasks in the session": a message
\* taken as an answer went to a marked question.
ResumesByMarker ==
    [][\A c \in Calls :
         At(c, "find") /\ pc'[c] \in {"reopen", "cancel check"} => Marked(about'[c])]_vars

\* Every call that waits for a work lock gets it and returns: the lock is
\* released on every path, exceptions included.
EveryCallReturns == \A c \in Calls : pc[c] = "lock" ~> pc[c] = "returned"

\* After a crash, a root that still shows as waiting can be answered, unless
\* the crash cut off a call that was stopping it.
WaitingSurvivesCrash ==
    \A r \in Calls : Quiet(r) /\ Waits(r) =>
        Answerable(r) \/ manager[r] = "cancelled"

-----------------------------------------------------------------------------
(* Seen from outside                                                       *)

\* A call at one of these runs its request: from its task on until the user was told,
\* and again from the moment an answer was taken.
Serving ==
    {"open request", "open root", "run", "delegate", "start manager", "group chat",
     "park", "mark", "settle request", "settle root", "notify", "wake"}

\* Rows that were reopened for an answer nobody has taken yet stand for the question.
Stage ==
    [r \in Calls |->
       IF \E c \in Calls : pc[c] \in Serving /\ about[c] = r THEN "running"
       ELSE IF root[r] = "in_progress" THEN "waiting_input" ELSE root[r]]

WorkOf == [r \in Calls |-> IF root[r] = "absent" THEN None ELSE job[r].work]

Conversation == INSTANCE WorkConversation WITH
    Requests <- Calls, workOf <- WorkOf, stage <- Stage, told <- notices

\* Where every call takes the lock of its work, the transactions of its calls amount to
\* turns that each happen at once, one after the other, in chat() and in
\* submit_task_input(): a message opens a request, or answers or stops a question,
\* and the user is told what came of it before the next turn of the work begins.
ImplementsConversation == Conversation!Spec

=============================================================================
