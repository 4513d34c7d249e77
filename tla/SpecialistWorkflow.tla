-------------------------- MODULE SpecialistWorkflow --------------------------
(***************************************************************************)
(* The workflows in which a specialist has one worker hand its result to   *)
(* a second one: developer and tester (software), researcher and writer    *)
(* (information).  A developer may ask the user a question: the workflow   *)
(* is then kept as a checkpoint and resumed with the answer.               *)
(*                                                                         *)
(* The chat handlers of today start the group chat instead; they resume    *)
(* the waiting developer tasks of databases in which a workflow asked.     *)
(* Calls that run a workflow exclude each other (the work lock), but the   *)
(* cancellation of a task takes no lock: it lies between any two writes.   *)
(***************************************************************************)
EXTENDS Integers, FiniteSets, FiniteSetsExt

CONSTANT MaxQuestions   \* bound: questions of one developer task

WorkflowAssumption == MaxQuestions \in Nat

VARIABLES kind,      \* "software" or "information"
          runner,    \* a workflow_runner is injected: it runs both workers
          clone,     \* the request looks like cloning a site
          task,      \* the statuses of the four tasks
          stage,     \* where the call that runs the workflow is
          raised,    \* the stage in which an exception was raised
          resumed,   \* the call is resume_waiting_input
          input,     \* input_json of the first task: the resume metadata
          row,       \* that input as the call has read it
          saved,     \* stored checkpoints, by the question each holds
          asked,     \* questions asked so far
          handed,    \* the handoff in the input of the second task
          artifacts, \* the shared workspace holds files of a clone
          deleting,  \* a cancellation is about to delete the checkpoint
          lost,      \* history: a checkpoint could not be written
          crossed    \* history: a cancellation met a running call

vars == <<kind, runner, clone, task, stage, raised, resumed, input, row, saved, asked,
          handed, artifacts, deleting, lost, crossed>>
request == <<kind, runner, clone>>
history == <<lost, crossed>>

Tasks == {"manager", "specialist", "first", "second"}
Statuses == {"none", "created", "in_progress", "waiting_input", "blocked",
             "done", "failed", "cancelled"}
Active == {"created", "in_progress", "waiting_input", "blocked"}
Idle == {"new", "over"}
Stages == Idle \cup {"brief", "relay", "developer", "deciding", "asked", "stored", "working",
                     "research", "handoff", "second", "review", "raised", "resuming"}

Metadata == [ids: BOOLEAN, checkpoint: 0..MaxQuestions, question: 0..MaxQuestions]

\* The route of a request: a follow-up of software work stays there; else the
\* manager decides, is asked again when its answer is no decision, and words of
\* the request decide at last.
Route(previous, followup, decision, repaired, technical) ==
    IF previous = "software" /\ followup THEN "software"
    ELSE IF decision # "none" THEN decision
    ELSE IF repaired # "none" THEN repaired
    ELSE IF technical THEN "software" ELSE "information"

Routes == {Route(previous, followup, decision, repaired, technical) :
             previous \in {"none", "software", "information"}, followup \in BOOLEAN,
             decision \in {"none", "software", "information"},
             repaired \in {"none", "software", "information"}, technical \in BOOLEAN}

Init == /\ kind \in Routes
        /\ runner \in BOOLEAN
        /\ clone \in BOOLEAN
        /\ task = [t \in Tasks |-> IF t \in {"manager", "specialist"} THEN "in_progress"
                                                                      ELSE "none"]
        /\ stage = "new"
        /\ raised = "new"
        /\ resumed = FALSE
        /\ input = [ids |-> FALSE, checkpoint |-> 0, question |-> 0]
        /\ row = input
        /\ saved = {}
        /\ asked = 0
        /\ handed = "none"
        /\ artifacts \in BOOLEAN
        /\ deleting = FALSE
        /\ lost = FALSE
        /\ crossed = FALSE

Goto(here, there) == stage = here /\ stage' = there

\* An exception ends the call of a resumption; a first run settles its tasks.
Raise == /\ raised' = stage
         /\ stage' = IF resumed THEN "over" ELSE "raised"

-----------------------------------------------------------------------------
(* What workers return, after the retries and repairs of their stage *)

Texts == {"blank", "bad", "good"}
Invalid == {"blank", "bad"}

\* A blank answer of a developer is asked for again, without tools.
Retried(text) == IF text = "blank" THEN Texts ELSE {text}

\* An invalid one is repaired, with tools and then without.
Repaired(text) == IF text \in Invalid THEN Texts ELSE {text}

\* The gate of a cloned site: with no files in the workspace they are fetched
\* by a script, else asked for in a repair.
Gated(text, files) ==
    IF ~clone \/ files
    THEN {[text |-> text, files |-> files]}
    ELSE {[text |-> "good", files |-> TRUE]} \cup [text: Texts, files: BOOLEAN]

\* What a developer may come up with, in a workspace with or without files.
DeveloperResults ==
    {result \in UNION {Gated(text, artifacts \/ wrote) :
                          text \in UNION {Repaired(t) : t \in UNION {Retried(s) : s \in Texts}},
                          wrote \in BOOLEAN} : result.files \/ ~artifacts}

\* An invalid result of another worker is recovered: the worker is asked again,
\* up to three times.  The report on a clone may be made from its files.
Recovered(text) == IF text \in Invalid THEN Texts ELSE {text}
Results == UNION {Recovered(text) : text \in Texts}

\* slip: the gate replaces the check of the text
Usable_FilesSuffice(result) == IF clone THEN result.files ELSE result.text \notin Invalid

\* The developer's result is handed over; otherwise the stage raises.
Usable(result) == result.text \notin Invalid /\ (clone => result.files)

-----------------------------------------------------------------------------
(* A first run *)

Begin ==
    /\ Goto("new", "brief")
    /\ task' = [task EXCEPT !.first = "in_progress", !.second = "blocked"]
    /\ UNCHANGED <<request, raised, resumed, input, row, saved, asked, handed, artifacts,
                   deleting, history>>

\* The specialist wrote its brief; unusable briefs are replaced by the request.
WriteBrief ==
    /\ stage = "brief"
    /\ stage' = IF runner THEN "relay" ELSE IF kind = "software" THEN "developer" ELSE "research"
    /\ input' = [input EXCEPT !.ids = (kind = "software" /\ ~runner)]
    /\ UNCHANGED <<request, task, raised, resumed, row, saved, asked, handed, artifacts,
                   deleting, history>>

\* Both workers ran in one workflow; the outputs, recovered if need be, are
\* recorded in order.  Only the texts are checked here.
Relay(text, report) ==
    /\ stage = "relay"
    /\ IF {text, report} \cap Invalid = {}
       THEN /\ stage' = "handoff"
            /\ task' = [task EXCEPT !.first = "done"]
            /\ handed' = text
            /\ UNCHANGED raised
       ELSE /\ Raise
            /\ UNCHANGED <<task, handed>>
    /\ UNCHANGED <<request, resumed, input, row, saved, asked, artifacts, deleting, history>>

-----------------------------------------------------------------------------
(* The developer, in a first run or with an answer *)

\* Its row is read once and serves every later write of the stage.
TakeUp ==
    /\ Goto("developer", "deciding")
    /\ row' = input
    /\ task' = [task EXCEPT !.first = IF @ = "waiting_input" THEN "in_progress" ELSE @]
    /\ UNCHANGED <<request, raised, resumed, input, saved, asked, handed, artifacts,
                   deleting, history>>

\* The developer asks; the workflow ends its run and writes a checkpoint.
Ask(written) ==
    /\ asked < MaxQuestions
    /\ Goto("deciding", "asked")
    /\ task' = [task EXCEPT !.first = "waiting_input"]
    /\ input' = row
    /\ asked' = asked + 1
    /\ saved' = IF written THEN saved \cup {asked'} ELSE saved
    /\ lost' = (lost \/ ~written)
    /\ UNCHANGED <<request, raised, resumed, row, handed, artifacts, deleting, crossed>>

\* The input once nothing is pending.
Answered(metadata) == [metadata EXCEPT !.checkpoint = 0, !.question = 0]

Proceed ==
    /\ Goto("deciding", "working")
    /\ input' = Answered(row)
    /\ UNCHANGED <<request, task, raised, resumed, row, saved, asked, handed, artifacts,
                   deleting, history>>

Develop(result) ==
    /\ stage = "working"
    /\ artifacts' = result.files
    /\ IF Usable(result)
       THEN /\ stage' = "handoff"
            /\ task' = [task EXCEPT !.first = "done"]
            /\ handed' = result.text
            /\ UNCHANGED raised
       ELSE /\ Raise
            /\ UNCHANGED <<task, handed>>
    /\ UNCHANGED <<request, resumed, input, row, saved, asked, deleting, history>>

\* The researcher returned notes, or recovered ones.
Research(text) ==
    /\ stage = "research"
    /\ IF text \notin Invalid
       THEN /\ stage' = "handoff"
            /\ task' = [task EXCEPT !.first = "done"]
            /\ handed' = text
            /\ UNCHANGED raised
       ELSE /\ Raise
            /\ UNCHANGED <<task, handed>>
    /\ UNCHANGED <<request, resumed, input, row, saved, asked, artifacts, deleting, history>>

-----------------------------------------------------------------------------
(* The second worker and the review *)

TakeHandoff ==
    /\ Goto("handoff", "second")
    /\ task' = [task EXCEPT !.second = "in_progress"]
    /\ UNCHANGED <<request, raised, resumed, input, row, saved, asked, handed, artifacts,
                   deleting, history>>

\* The second worker's report, or what its recovery came to; after Relay it is
\* known to be valid.
Report(text) ==
    /\ stage = "second"
    /\ runner => text \notin Invalid
    /\ IF text \notin Invalid
       THEN /\ stage' = "review"
            /\ task' = [task EXCEPT !.second = "done"]
            /\ UNCHANGED raised
       ELSE /\ Raise
            /\ UNCHANGED task
    /\ UNCHANGED <<request, resumed, input, row, saved, asked, handed, artifacts,
                   deleting, history>>

\* The specialist reviewed; a resumption completes the manager's task too.
Review ==
    /\ Goto("review", "over")
    /\ task' = [task EXCEPT !.specialist = "done",
                            !.manager = IF resumed THEN "done" ELSE @]
    /\ UNCHANGED <<request, raised, resumed, input, row, saved, asked, handed, artifacts,
                   deleting, history>>

\* The workflow of developer and tester ends with no report: the tester got no
\* handoff, or one that says the developer is not done.  A first run raises; after a
\* resumption the tasks above fail.
EndWithoutReport ==
    /\ stage = "handoff"
    /\ kind = "software" /\ ~runner
    /\ IF resumed
       THEN /\ stage' = "over"
            /\ task' = [task EXCEPT !.specialist = "failed", !.manager = "failed"]
            /\ UNCHANGED raised
       ELSE /\ Raise
            /\ UNCHANGED task
    /\ UNCHANGED <<request, resumed, input, row, saved, asked, handed, artifacts,
                   deleting, history>>

-----------------------------------------------------------------------------
(* A question *)

\* slip: the oldest checkpoint of the workflow is taken
Latest_Oldest == Min(saved)

\* The newest checkpoint of the workflow.
Latest == Max(saved)

\* The call records that checkpoint with the question.
StoreQuestion ==
    /\ stage = "asked"
    /\ IF saved = {}
       THEN /\ Raise
            /\ UNCHANGED input
       ELSE /\ stage' = "stored"
            /\ input' = [input EXCEPT !.checkpoint = Latest, !.question = asked]
            /\ UNCHANGED raised
    /\ UNCHANGED <<request, task, resumed, row, saved, asked, handed, artifacts,
                   deleting, history>>

MarkWaiting ==
    /\ Goto("stored", "over")
    /\ task' = [task EXCEPT !.specialist = "waiting_input",
                            !.manager = IF resumed THEN "waiting_input" ELSE @]
    /\ UNCHANGED <<request, raised, resumed, input, row, saved, asked, handed, artifacts,
                   deleting, history>>

\* A first run hands its outcome to its caller.
RecordFirstRun ==
    /\ stage = "over"
    /\ ~resumed
    /\ task.manager = "in_progress"
    /\ task' = [task EXCEPT !.manager = task.specialist]
    /\ UNCHANGED <<request, stage, raised, resumed, input, row, saved, asked, handed, artifacts,
                   deleting, history>>

\* The metadata without which an answer is refused.
Resumable == /\ task.first = "waiting_input"
             /\ input.ids
             /\ input.checkpoint # 0
             /\ input.question # 0

\* The waiting tasks above the developer go on with it.
Resume ==
    /\ stage = "over"
    /\ Resumable
    /\ stage' = "resuming"
    /\ resumed' = TRUE
    /\ row' = input
    /\ task' = [t \in Tasks |-> IF t \in {"manager", "specialist"} /\ task[t] = "waiting_input"
                                THEN "in_progress" ELSE task[t]]
    /\ UNCHANGED <<request, raised, input, saved, asked, handed, artifacts, deleting, history>>

\* The workflow goes on from the checkpoint, which must hold that question.
LoadCheckpoint ==
    /\ stage = "resuming"
    /\ IF row.checkpoint \in saved /\ row.checkpoint = row.question
       THEN stage' = "developer" /\ UNCHANGED raised
       ELSE Raise
    /\ UNCHANGED <<request, task, resumed, input, row, saved, asked, handed, artifacts,
                   deleting, history>>

-----------------------------------------------------------------------------
(* Failure and cancellation *)

\* A language model, a tool or a check of a stage raises.
StageFails ==
    /\ stage \in {"brief", "relay", "deciding", "working", "research", "second", "review"}
    /\ ~(runner /\ stage = "second")
    /\ Raise
    /\ UNCHANGED <<request, task, resumed, input, row, saved, asked, handed, artifacts,
                   deleting, history>>

\* Whether the handler takes a worker to have started, or to be done: the
\* software workflow looks at the tasks as well, the other at its flags only.
FirstDone == IF kind = "software" THEN task.first = "done" \/ raised = "review"
                                  ELSE raised \in {"second", "review"}
SecondOpen == IF kind = "software"
              THEN task.second = "in_progress" /\ raised # "review"
              ELSE raised = "second"

\* slip: the handler takes the second worker never to have started
Settled_FirstOnly ==
    [task EXCEPT !.first = IF ~FirstDone /\ (kind = "information" \/ @ = "in_progress")
                           THEN "failed" ELSE @,
                 !.specialist = "failed"]

\* The tasks after the handler: the worker that was running fails, and the
\* specialist.
Settled ==
    [task EXCEPT !.first = IF ~FirstDone /\ (kind = "information" \/ @ = "in_progress")
                           THEN "failed" ELSE @,
                 !.second = IF FirstDone /\ SecondOpen THEN "failed" ELSE @,
                 !.specialist = "failed"]

SettleFailure ==
    /\ Goto("raised", "over")
    /\ task' = Settled
    /\ UNCHANGED <<request, raised, resumed, input, row, saved, asked, handed, artifacts,
                   deleting, history>>

Above(t) == CASE t = "manager"    -> {"manager"}
              [] t = "specialist" -> {"specialist", "manager"}
              [] OTHER            -> {t, "specialist", "manager"}

\* The cancel endpoint marks a task and those above it.
Cancel(t) ==
    /\ ~deleting
    /\ stage # "new"
    /\ task[t] \in Active
    /\ task' = [u \in Tasks |-> IF u \in Above(t) /\ task[u] \in Active THEN "cancelled"
                                                                        ELSE task[u]]
    /\ deleting' = (t = "first")
    /\ crossed' = (crossed \/ stage \notin Idle)
    /\ UNCHANGED <<request, stage, raised, resumed, input, row, saved, asked, handed, artifacts,
                   lost>>

\* Then it reads the checkpoint of that task and deletes it.
DeleteCheckpoint ==
    /\ deleting
    /\ deleting' = FALSE
    /\ saved' = saved \ {input.checkpoint}
    /\ crossed' = (crossed \/ stage \notin Idle)
    /\ UNCHANGED <<request, task, stage, raised, resumed, input, row, asked, handed, artifacts,
                   lost>>

-----------------------------------------------------------------------------

Next == \/ Begin \/ WriteBrief
        \/ \E text, report \in Results : Relay(text, report)
        \/ TakeUp
        \/ \E written \in BOOLEAN : Ask(written)
        \/ Proceed
        \/ \E result \in DeveloperResults : Develop(result)
        \/ \E text \in Results : Research(text) \/ Report(text)
        \/ TakeHandoff \/ EndWithoutReport \/ Review
        \/ StoreQuestion \/ MarkWaiting \/ RecordFirstRun
        \/ Resume \/ LoadCheckpoint
        \/ StageFails \/ SettleFailure
        \/ \E t \in Tasks : Cancel(t)
        \/ DeleteCheckpoint

Spec == Init /\ [][Next]_vars

-----------------------------------------------------------------------------
(* Properties *)

\* Every variable keeps its type.
TypeOK == /\ kind \in {"software", "information"}
          /\ runner \in BOOLEAN
          /\ clone \in BOOLEAN
          /\ task \in [Tasks -> Statuses]
          /\ stage \in Stages
          /\ raised \in Stages
          /\ resumed \in BOOLEAN
          /\ input \in Metadata
          /\ row \in Metadata
          /\ saved \subseteq 1..MaxQuestions
          /\ asked \in 0..MaxQuestions
          /\ handed \in Texts \cup {"none"}
          /\ artifacts \in BOOLEAN
          /\ deleting \in BOOLEAN
          /\ lost \in BOOLEAN
          /\ crossed \in BOOLEAN

\* The second worker works, and has worked, only on a result the first one
\* completed, that is usable and, where a developer cloned a site, backed by
\* files: through questions, resumptions, failures and cancellations.
HandoffFirst ==
    task.second \in {"in_progress", "done"} =>
        /\ task.first = "done"
        /\ handed \notin Invalid \cup {"none"}
        /\ kind = "software" /\ clone /\ ~runner => artifacts

\* A developer task that waits while nothing runs can be resumed: it names a
\* stored checkpoint which holds the question asked last, and the tasks above
\* it wait as well, unless they were cancelled.
WaitingIsResumable ==
    task.first = "waiting_input" /\ stage = "over" /\ ~lost /\ ~crossed =>
        /\ input.ids
        /\ input.checkpoint \in saved
        /\ input.checkpoint = asked /\ input.question = asked
        /\ task.specialist \in {"waiting_input", "cancelled"}

\* A first run that is over, however it ended and whatever was cancelled
\* meanwhile, leaves no worker and no specialist in progress.
FirstRunSettles ==
    stage = "over" /\ ~resumed =>
        \A t \in Tasks \ {"manager"} : task[t] # "in_progress"
=============================================================================
