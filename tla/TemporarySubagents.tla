-------------------------- MODULE TemporarySubagents --------------------------
(***************************************************************************)
(* A worker that may call in temporary helpers.  It decides, plans, creates*)
(* one agent and one task per helper, lets all speak in a group chat, gives*)
(* every helper task its share of the outputs and cleans the agents up.    *)
(* Each write to the database is a step and may fail.                      *)
(***************************************************************************)
EXTENDS Integers, Sequences, FiniteSets, SequencesExt

CONSTANTS MaxHelpers,  \* helpers a plan may name (3)
          Passes,      \* CHANAKYA_SUBAGENT_GROUP_CHAT_ROUND_MULTIPLIER
          Backends     \* the backends in use, of "local" and "a2a"

VARIABLES backend,
          forced,   \* CHANAKYA_FORCE_SUBAGENTS
          stage,    \* where the worker's call is
          next,     \* the helper the current loop is at
          helpers,  \* how many helpers the plan has
          agent,    \* the status of each helper's agent
          htask,    \* the status of each helper's task
          outputs,  \* who spoke what is left of the chat; 0 is the worker
          result,   \* whose output each helper task got
          failed,   \* the exception handler runs
          leaked    \* history: a write failed outside the try block

subVars == <<backend, forced, stage, next, helpers, agent, htask, outputs, result, failed, leaked>>
given == <<backend, forced>>

Helper == 1..MaxHelpers
Worker == 0
Nobody == -1
Planned == 1..helpers

SubagentAssumption == /\ MaxHelpers \in Nat \ {0}
                      /\ Passes \in Nat \ {0}
                      /\ Backends \subseteq {"local", "a2a"}

Ended == {"plain", "returned", "raised"}
Loops == {"create", "taskFor", "activate", "done", "cleaning", "clean", "fail"}
Stages == {"decide", "plan", "chat", "map"} \cup Loops \cup Ended

Init == /\ backend \in Backends
        /\ forced \in BOOLEAN
        /\ stage = "decide"
        /\ next = 1
        /\ helpers = 0
        /\ agent = [i \in Helper |-> "none"]
        /\ htask = [i \in Helper |-> "none"]
        /\ outputs = <<>>
        /\ result = [i \in Helper |-> Nobody]
        /\ failed = FALSE
        /\ leaked = FALSE

-----------------------------------------------------------------------------
(* Decision and plan *)

\* A decision for helpers that names none is no decision.
Decisions == {"invalid", "no", "yes"}
Decision(should, count) == IF should /\ count <= 0 THEN "invalid"
                           ELSE IF should THEN "yes" ELSE "no"

\* The worker decides; without a decision, or with one against helpers, it
\* answers alone unless helpers are forced.  Other roles answer alone.
Decide(capable, decision) ==
    /\ stage = "decide"
    /\ stage' = IF capable /\ (forced \/ decision = "yes") THEN "plan" ELSE "plain"
    /\ UNCHANGED <<given, next, helpers, agent, htask, outputs, result, failed, leaked>>

\* The helpers of a plan: the complete ones of the first three it names.  A
\* plan that needs some and has none is no plan, nor is one that failed.
PlannedHelpers(needs, complete) == IF needs THEN complete ELSE 0

\* A worker without a plan answers alone, or with one default helper.
Plan(needs, complete) ==
    /\ stage = "plan"
    /\ helpers' = IF forced /\ PlannedHelpers(needs, complete) = 0 THEN 1
                  ELSE PlannedHelpers(needs, complete)
    /\ stage' = IF helpers' = 0 THEN "plain" ELSE "create"
    /\ UNCHANGED <<given, next, agent, htask, outputs, result, failed, leaked>>

-----------------------------------------------------------------------------
(* Loops over the helpers *)

\* The loop goes on with the next helper in stage here, or ends with there.
Advance(here, there) == IF next = helpers THEN stage' = there /\ next' = 1
                                          ELSE stage' = here /\ next' = next + 1

CreateAgent ==
    /\ stage = "create"
    /\ agent' = [agent EXCEPT ![next] = "created"]
    /\ stage' = "taskFor"
    /\ UNCHANGED <<given, next, helpers, htask, outputs, result, failed, leaked>>

CreateTask ==
    /\ stage = "taskFor"
    /\ htask' = [htask EXCEPT ![next] = "in_progress"]
    /\ Advance("create", "activate")
    /\ UNCHANGED <<given, helpers, agent, outputs, result, failed, leaked>>

Activate ==
    /\ stage = "activate"
    /\ agent' = [agent EXCEPT ![next] = "active"]
    /\ Advance("activate", "chat")
    /\ UNCHANGED <<given, helpers, htask, outputs, result, failed, leaked>>

\* The order of the speakers, and who speaks in a round (the first is 0): once
\* the order is through, the worker speaks on.
Speakers == <<Worker>> \o [i \in 1..helpers |-> i] \o <<Worker>>
SpeakerOf(round) == Speakers[IF round + 1 < Len(Speakers) THEN round + 1 ELSE Len(Speakers)]
Rounds == Len(Speakers) * Passes

\* The chat ends after all rounds; blank contributions leave no output.  The
\* a2a backend asks one after the other and keeps every answer.
Chat(blank) ==
    /\ stage = "chat"
    /\ outputs' = IF backend = "a2a" THEN Speakers
                  ELSE [i \in 1..Rounds - Cardinality(blank) |->
                           SpeakerOf(CHOOSE r \in 0..Rounds - 1 \ blank :
                                        Cardinality({q \in 0..r : q \notin blank}) = i)]
    /\ stage' = "map"
    /\ UNCHANGED <<given, next, helpers, agent, htask, result, failed, leaked>>

\* The outputs taken to be the helpers': those before the last one, without
\* the opening if the number fits, filled up at the front if too few.
HelperOutputs(texts) ==
    IF Len(texts) = helpers + 2 THEN SubSeq(texts, 2, helpers + 1)
    ELSE IF Len(texts) > helpers THEN SubSeq(texts, Len(texts) - helpers, Len(texts) - 1)
    ELSE [i \in 1..helpers |-> LET k == i - (helpers - Len(texts) + 1)
                               IN  IF k >= 1 THEN texts[k] ELSE Nobody]

\* A chat without any output is an error.
MapOutputs ==
    /\ stage = "map"
    /\ IF outputs = <<>>
       THEN /\ stage' = "fail"
            /\ failed' = TRUE
            /\ UNCHANGED result
       ELSE /\ stage' = "done"
            /\ result' = [i \in Helper |-> IF i \in Planned THEN HelperOutputs(outputs)[i]
                                                            ELSE Nobody]
            /\ UNCHANGED failed
    /\ UNCHANGED <<given, next, helpers, agent, htask, outputs, leaked>>

CompleteTask ==
    /\ stage = "done"
    /\ htask' = [htask EXCEPT ![next] = "done"]
    /\ Advance("done", "cleaning")
    /\ UNCHANGED <<given, helpers, agent, outputs, result, failed, leaked>>

\* slip: only a task in progress is failed
FailedTask_IfRunning(status) == IF status = "in_progress" THEN "failed" ELSE status

\* The status the handler gives a task, whatever it was.
FailedTask(status) == "failed"

FailTask ==
    /\ stage = "fail"
    /\ htask' = [htask EXCEPT ![next] = FailedTask(@)]
    /\ Advance("fail", "cleaning")
    /\ UNCHANGED <<given, helpers, agent, outputs, result, failed, leaked>>

StartCleanup ==
    /\ stage = "cleaning"
    /\ agent' = [agent EXCEPT ![next] = "cleaning_up"]
    /\ Advance("cleaning", "clean")
    /\ UNCHANGED <<given, helpers, htask, outputs, result, failed, leaked>>

Cleanup ==
    /\ stage = "clean"
    /\ agent' = [agent EXCEPT ![next] = IF failed THEN "failed" ELSE "cleaned"]
    /\ Advance("clean", IF failed THEN "raised" ELSE "returned")
    /\ UNCHANGED <<given, helpers, htask, outputs, result, failed, leaked>>

\* A write or the chat raises: outside the try block, and in its handler, the
\* call ends there; within, the handler starts over with the tasks.
Raise ==
    /\ stage \in Loops \cup {"chat"}
    /\ IF failed \/ stage \in {"create", "taskFor", "activate"}
       THEN /\ stage' = "raised"
            /\ leaked' = TRUE
            /\ UNCHANGED <<next, failed>>
       ELSE /\ stage' = "fail"
            /\ next' = 1
            /\ failed' = TRUE
            /\ UNCHANGED leaked
    /\ UNCHANGED <<given, helpers, agent, htask, outputs, result>>

-----------------------------------------------------------------------------

Next == \/ \E capable, should \in BOOLEAN, count \in 0..MaxHelpers :
              Decide(capable, Decision(should, count))
        \/ \E needs \in BOOLEAN, complete \in 0..MaxHelpers : Plan(needs, complete)
        \/ CreateAgent \/ CreateTask \/ Activate
        \/ \E blank \in SUBSET (0..Rounds - 1) : Chat(blank)
        \/ MapOutputs \/ CompleteTask \/ FailTask \/ StartCleanup \/ Cleanup
        \/ Raise

Spec == Init /\ [][Next]_subVars

-----------------------------------------------------------------------------
(* Properties *)

\* Every variable keeps its type.
TypeOK == /\ backend \in Backends
          /\ forced \in BOOLEAN
          /\ stage \in Stages
          /\ next \in Helper
          /\ helpers \in 0..MaxHelpers
          /\ agent \in [Helper -> {"none", "created", "active", "cleaning_up", "cleaned", "failed"}]
          /\ htask \in [Helper -> {"none", "in_progress", "done", "failed"}]
          /\ outputs \in Seq({Worker} \cup Helper)
          /\ result \in [Helper -> {Nobody, Worker} \cup Helper]
          /\ failed \in BOOLEAN
          /\ leaked \in BOOLEAN

\* When a call with helpers is over, all of it succeeded or all of it failed:
\* no helper keeps a live agent or an open task, and no task counts as done
\* when the call raised, even if the failure came after it was completed.  A
\* write that fails before the try block or in its handler is excepted.
AllOrNothing ==
    stage \in {"returned", "raised"} /\ ~leaked =>
        \/ stage = "returned" /\ \A i \in Planned : agent[i] = "cleaned" /\ htask[i] = "done"
        \/ stage = "raised" /\ \A i \in Planned : agent[i] = "failed" /\ htask[i] = "failed"
=============================================================================
