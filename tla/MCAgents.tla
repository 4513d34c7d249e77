------------------------------- MODULE MCAgents -------------------------------
(***************************************************************************)
(* Instances for TLC of the seven specifications of what agents do with a  *)
(* request, of the tools and the session they are given, and of the        *)
(* gateway that carries their model calls.  The seven share no state, so a *)
(* behaviour is one of one of them: part says which.                       *)
(***************************************************************************)
EXTENDS Integers, Sequences, FiniteSets, TLC

CONSTANTS ChatRounds, Retries, Answers,           \* GroupChat
          MaxQuestions,                           \* SpecialistWorkflow
          MaxHelpers, Passes, Backends,           \* TemporarySubagents
          Requests, Traces, Late, NoSummary,      \* ProxyTrace
          Urls, Models, Hosts, Kind, Types,       \* ProviderRegistry
          Fallback, MaxSlot, Refreshes, MaxChanges,
          Loads, Boot, Servers, Broken, Files, MaxEdits,         \* ToolLoader
          Turns, Pollers, MaxParts,                              \* SessionHistory
          Nothing,
          u1, u2, m1, m2, m3, sa, sb, sc          \* names in the values below

VARIABLES part,
          wish, yields, phase, seed, invited, tries, calls, since, speaker, ending,
          visible, verdict, task, pending, state, filed, asked,
          kind, runner, clone, tasks, stage, raised, resumed, input, row, saved,
          questions, handed, artifacts, deleting, lost, crossed,
          backend, forced, step, next, helpers, agent, htask, outputs, result,
          failed, leaked,
          pc, trace, number, summary, reports,
          env, shown, fetching, owner, changes, young, uptodate, missed,
          file, edits, cache, catalog, alive, loading, closing, todo, read, overlapped, stuck,
          rows, memory, store, contexts, at, turn, taken, story, last, remote, crossing

chatVars == <<wish, yields, phase, seed, invited, tries, calls, since, speaker, ending,
              visible, verdict, task, pending, state, filed, asked>>
flowVars == <<kind, runner, clone, tasks, stage, raised, resumed, input, row, saved,
              questions, handed, artifacts, deleting, lost, crossed>>
subVars == <<backend, forced, step, next, helpers, agent, htask, outputs, result,
             failed, leaked>>
traceVars == <<pc, trace, number, summary, reports>>
registryVars == <<env, shown, fetching, owner, changes, young, uptodate, missed>>
toolVars == <<file, edits, cache, catalog, alive, loading, closing, todo, read, overlapped,
              stuck>>
historyVars == <<rows, memory, store, contexts, at, turn, taken, story, last, remote,
                 crossing>>

\* What the run gives to Hosts, Kind, Types and Fallback: two servers that have one
\* model in common, of a kind its metadata does not tell; the other models are one
\* for speech and one for chat; one server is configured for speech without a number.
TwoHosts == [u \in {u1, u2} |-> IF u = u1 THEN {m1} ELSE {m1, m2, m3}]
ThreeKinds == (m1 :> "unknown") @@ (m2 :> "tts") @@ (m3 :> "llm")
TwoTypes == <<"llm", "tts">>
Unnumbered == [t \in {"llm", "tts"} |-> IF t = "tts" THEN u1 ELSE Nothing]

\* And to Files: two configurations of MCP servers that have one in common.
TwoFiles == {<<sa, sb>>, <<sc, sb>>}

Chat == INSTANCE GroupChat WITH Rounds <- ChatRounds
Flow == INSTANCE SpecialistWorkflow WITH task <- tasks, asked <- questions
Subs == INSTANCE TemporarySubagents WITH stage <- step
Trace == INSTANCE ProxyTrace
Registry == INSTANCE ProviderRegistry WITH asked <- fetching, None <- Nothing
Tools == INSTANCE ToolLoader WITH pc <- loading, Invalid <- Broken, None <- Nothing
History == INSTANCE SessionHistory WITH pc <- at, None <- Nothing

ASSUME AgentsAssumption ==
    /\ Chat!ChatAssumption /\ Flow!WorkflowAssumption /\ Subs!SubagentAssumption
    /\ Trace!TraceAssumption /\ Registry!RegistryAssumption /\ Tools!ToolAssumption
    /\ History!HistoryAssumption

Parts == {"chat", "flow", "subagents", "trace", "registry", "tools", "history"}

\* A part that does not move stands at one of its initial states.
Init == /\ part \in Parts
        /\ Chat!Init /\ (part # "chat" => ~wish.writing /\ ~wish.software /\ yields = "response")
        /\ Flow!Init /\ (part # "flow" => kind = "software" /\ ~runner /\ ~clone /\ ~artifacts)
        /\ Subs!Init /\ (part # "subagents" => backend = "local" /\ ~forced)
        /\ Trace!Init /\ (part # "trace" => \A r \in Requests : trace[r] = CHOOSE t \in Traces : TRUE)
        /\ Registry!Init
        /\ Tools!Init /\ (part # "tools" => file = CHOOSE f \in Files : TRUE)
        /\ History!Init

Next == \/ /\ part = "chat" /\ Chat!Next
           /\ UNCHANGED <<part, flowVars, subVars, traceVars, registryVars, toolVars, historyVars>>
        \/ /\ part = "flow" /\ Flow!Next
           /\ UNCHANGED <<part, chatVars, subVars, traceVars, registryVars, toolVars, historyVars>>
        \/ /\ part = "subagents" /\ Subs!Next
           /\ UNCHANGED <<part, chatVars, flowVars, traceVars, registryVars, toolVars, historyVars>>
        \/ /\ part = "trace" /\ Trace!Next
           /\ UNCHANGED <<part, chatVars, flowVars, subVars, registryVars, toolVars, historyVars>>
        \/ /\ part = "registry" /\ Registry!Next
           /\ UNCHANGED <<part, chatVars, flowVars, subVars, traceVars, toolVars, historyVars>>
        \/ /\ part = "tools" /\ Tools!Next
           /\ UNCHANGED <<part, chatVars, flowVars, subVars, traceVars, registryVars, historyVars>>
        \/ /\ part = "history" /\ History!Next
           /\ UNCHANGED <<part, chatVars, flowVars, subVars, traceVars, registryVars, toolVars>>

Spec == Init /\ [][Next]_<<part, chatVars, flowVars, subVars, traceVars, registryVars,
                     toolVars, historyVars>>

\* The property of the history is about calls that come one at a time, so what
\* follows once two have overlapped is not explored.
OneAtATime == part = "history" => ~crossing

-----------------------------------------------------------------------------
(* The properties of the parts, stated in their modules *)

\* Every variable of every part keeps its type.
TypesOK == CASE part = "chat" -> Chat!TypeOK
             [] part = "flow" -> Flow!TypeOK
             [] part = "subagents" -> Subs!TypeOK
             [] part = "trace" -> Trace!TypeOK
             [] part = "registry" -> Registry!TypeOK
             [] part = "tools" -> Tools!TypeOK
             [] part = "history" -> History!TypeOK

\* Group chat: done without a second opinion means that the required roles
\* were at work.
DoneMeansDone == part = "chat" => Chat!DoneMeansDone

\* Group chat: the question a manager task waits with is the one of its state.
QuestionStands == part = "chat" => Chat!QuestionStands

\* Group chat: the turn tasks are the visible turns.
TurnsAreFiled == part = "chat" => Chat!TurnsAreFiled

\* Workflow: the second worker works on a usable result of the first only.
HandoffFirst == part = "flow" => Flow!HandoffFirst

\* Workflow: a developer task that waits has the checkpoint of its question.
WaitingIsResumable == part = "flow" => Flow!WaitingIsResumable

\* Workflow: a first run that is over leaves nothing in progress.
FirstRunSettles == part = "flow" => Flow!FirstRunSettles

\* Subagents: all helpers of a call succeeded, or all count as failed.
AllOrNothing == part = "subagents" => Subs!AllOrNothing

\* Gateway: a trace summary waits only for requests still to end.
WaitsForTheLiving == part = "trace" => Trace!WaitsForTheLiving

\* Gateway: each request is reported in exactly one summary.
ReportedOnce == part = "trace" => Trace!ReportedOnce

\* Gateway: a model is routed to a provider that has it.
RoutesToHost == part = "registry" => Registry!RoutesToHost

\* Tools: between reloads agents are given connected tools, those of the catalog.
CacheIsLive == part = "tools" => Tools!CacheIsLive

\* History: one call at a time, a session continues from what the user has seen.
SessionContinues == part = "history" => History!SessionContinues
=============================================================================
