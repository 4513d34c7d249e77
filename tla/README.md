# TLA+ models of Chanakya

Chanakya is a personal assistant: a Flask web application over one SQL database, in
which a user's message is answered by a language-model agent or, inside a *work*,
delegated to a manager whose group chat of worker agents may stop to ask the user a
question. Around it live a router for language-model providers (AIR), an A2A core agent
application, a conversation layer that delivers long answers in pieces, MCP tool servers
and a background memory service. This directory holds TLA+ modules of the parts whose
correctness depends on the order of things, configurations that check them with TLC, and
proofs about them for TLAPS.

Paths below are relative to `src/apps/chanakya/` unless they start with `src/`.

## The system and its parts

| component | state it keeps | operations | what makes it correct |
|---|---|---|---|
| **Request and task lifecycle**: `core/chat_service.py`, `core/agent_manager.py`, the request and task repositories of `core/store.py` | rows of `requests` and `tasks` (status, parent, `input_json` with markers and pending ids) | chat in a work, task input, cancel, retry, group chat outcomes | one request of a work runs at a time; request, root task and manager task agree; a question is answered once and stays answerable until then; a stopped task stays stopped; each outcome is notified once |
| **Work locks**: `ChatService._work_lock`, `_prune_work_locks` | an LRU map from work id to `threading.Lock` | look up or create, prune, acquire, release | one call inside each work, through pruning and new lock objects |
| **Event bus and browser refresh**: `_EventBus` and `/api/stream` in `core/app.py`, `scheduleSSERefresh` in `templates/index.html` | subscriber queues; the page's refresh timer | publish after commit, subscribe, overflow, reconnect, refetch | a page sees every change while subscribed; the last refresh shows the last change |
| **Conversation layer**: `ConversationWrapper` and its state store in `src/apps/chanakya_conversation_layer`, `core/conversation_layer_support.py` | a working memory per session: queued and delivered pieces, pause | plan a reply, deliver the next piece, interrupt, pause | pieces in order, once; a topic that was reset stays away; a pause holds |
| **Manager group chat**: `core/agent_manager.py` | the trace and the result of one run; pending id and `group_chat_state` of the manager task; turn tasks | choose speakers, speak, end, rerun, assess, file turns, ask, resume | done means that the required roles did something; a question stands until it is answered; what is filed is what was shown |
| **Developer/tester workflow**: `core/maf_workflows.py` and its callers in `core/agent_manager.py` | four tasks, checkpoint files by workflow name, resume metadata | run two stages, validate and repair, suspend at a question, resume, fail, cancel | the second stage gets a usable result; what waits can be resumed; a failure leaves nothing in progress |
| **Temporary subagents**: `core/subagents.py` | temporary agent profiles and their tasks | decide, plan, create, chat, map outputs, complete, clean up | all of it succeeds or all of it counts as failed |
| **Work tables and artifacts**: `core/store.py`, `services/mcp_artifact_tools_server.py`, `DELETE /api/works` in `core/app.py` | works, work-agent sessions, requests, contexts, artifacts; their files and sandboxes | create, first message, artifact tools, delete | a deletion leaves nothing; every artifact row has its file |
| **Memory manager**: `services/memory_manager_service.py`, `services/mcp_memory_agent_server.py` | memories of an owner | read, ask a model, add, update, supersede, delete | what a job finds is of its session when it writes it; no memory is superseded for nothing; one fact per subject |
| **AIR proxy traces**: `src/apps/AI-Router-AIR/server/core/proxy_engine.py` | summaries by trace id | number, record, send, stream, complete, fail | a summary waits for the living and reports each request once |
| **AIR provider registry**: `.../services/provider_manager.py`, `discovery.py`, `api/admin.py`, `core/config.py`, `core/dependencies.py` | provider slots, owners of models, discovered servers | refresh, add, change, delete, discover, accept, route | a model is routed to a provider that has it |
| **Core agent app**: `src/apps/chanakya_conversation_layer/core_agent_app`, with the wrapper of the conversation layer | transcript rows and remote contexts of a session | answer, fall back, rewrite the last answer, delete the session | the agent continues from what the user has seen |
| **Tool loader**: `services/tool_loader.py`, `async_loop.py`, `PUT /api/tools/config` | connected tools, catalog, server processes | load, close, reload | agents are given connected tools, those of the catalog |

`PROJECT.json` lists the remaining components as well: the web pages, the other MCP
servers, notifications, the agent runtime, start-up code and the demos. They hold no state
that interleaves with anything, or only I/O.

### How they interact

- Flask serves each HTTP call in a thread. A call enters `ChatService`, which talks to
  `AgentManager` in the same thread; both write through the store.
- Every store method opens a session and commits it (`core/db.py`): **a store call is a
  transaction, a call of the API is not**. Between two store calls of one thread, any
  other thread may run. This is the grain of the models.
- `chat()` with a work id and `submit_task_input()` hold the lock of the work
  (`_work_lock`); `cancel_task()` and `retry_task()` hold none, and a retry passes no work
  id on. The MCP work-tools server (`services/mcp_work_tools_server.py`) is another
  process over the same database, with locks of its own.
- The store methods of the web process are patched at start-up to publish an event after
  they return (`core/app.py`); pages listen on `/api/stream` and refetch.

### What is hard in it

Threads that interleave between transactions; a check made before a lock is acquired; a
state machine spread over two rows of `tasks`, one of `requests` and two JSON fields;
operations that hold a lock against operations that do not; processes that share data but
no locks; a process that dies half way; lock objects that are handed out before they are
held; memory objects that calls keep using after they were replaced; bounded queues.
`PROJECT.json` lists each such place under `hazards`, with the
properties that cover it or the reason why none does.

## The modules

| module | models |
|---|---|
| `TaskLifecycle` | the life of requests and tasks, in any number of calls, works and processes |
| `WorkConversation` | what it promises: a work as its user knows it, one turn at a time |
| `TaskLifecycleProofs` | theorems about it, for every set of operations |
| `TaskStoryProofs` | theorems about it where every call takes the work lock: the tables tell one story, and it implements `WorkConversation` |
| `TaskInterruptionProofs` | theorems about it in one process with the cancel endpoint and crashes |
| `GroupChat` | one run of the manager's group chat, its questions and reruns: what `TaskLifecycle` takes as a choice of outcomes |
| `SpecialistWorkflow` | the developer/tester and researcher/writer workflows with checkpoints |
| `TemporarySubagents` | one worker's call with temporary helpers, any write of which may fail |
| `WorkLocks` | the map of lock objects behind the work locks |
| `WorkMutex` | what the map promises: one call per work |
| `WorkLocksProofs` | theorems about the map, and that it implements `WorkMutex` |
| `WorkTables` | the rows and files of works under creation, messages, artifact tools and deletion |
| `EventBus` | events from a commit to a refreshed page |
| `ConversationDelivery` | the reply of a classic chat in pieces: turns, polls and pauses on shared memory objects |
| `SessionHistory` | the transcript and the remote contexts of a session of the core agent app |
| `LongTermMemory` | memory jobs of one owner |
| `ToolLoader` | the tool cache under reloads |
| `ProxyTrace` | the trace summaries of the AIR proxy |
| `ProviderRegistry` | provider slots, refreshes and routes of AIR |
| `MCTaskLifecycle`, `MCWorkLocks`, `MCEventBus`, `MCConversationDelivery`, `MCWorkTables` | the symmetries of their instances |
| `MCWebProcess`, `MCAgents`, `MCWorks`, `MCConversations` | sums: several instances checked in one run, see below |
| `MCWebProcessProofs`, `MCAgentsProofs`, `MCWorksProofs`, `MCConversationsProofs` | theorems about the parts of the sums, for any values of their constants |

`WorkLocks` refines `WorkMutex` (`ImplementsMutex`), and `TaskLifecycle` uses a mutex of
that kind (`holder`): the lower level is checked once and abstracted in the upper one.
`TaskLifecycle` in turn refines `WorkConversation` (`ImplementsConversation`) where every call
takes the lock.
`SpecialistWorkflow` and `TaskLifecycle` share the cancel endpoint, each for its own tasks.

A **sum module** holds parts that share no state. Its variable `part` is chosen at the
start and says which part moves; the others stay at one of their initial states. A
property of a part is checked in the behaviours of that part, and an action property is
true of the steps of the others because they change nothing of it. A sum explores the
union of the state spaces of its parts, never their product.

### TaskLifecycle

A **call** is one invocation of the API, a **request** is named after the call that opened
it. `request`, `root` and `manager` are the statuses of the row in `requests`, of its root
task and of the task delegated to the manager; `marker` is `work_pending_interaction` in
the root's input, `pending` the `maf_pending_request_id` in the manager task's input
(numbered by question), `created` the order of `created_at` that the lookup of the newest
pending task reads. `holder` is the work lock of each process. `asks`, `answers`,
`notices` are history: they record what happened and guide nothing (`asks` also bounds the
number of questions).

Each action is one store call, or one decision between two:

| actions | code |
|---|---|
| `StartChat`, `StartSubmit`, `StartRetry`, `StartCancel` | the entry of each operation with the checks made *before* any lock |
| `AcquireLock`, `Release` | `with self._work_lock(work_id)`; leaving it by return and by exception |
| `FindPending` | `_find_active_work_pending_task` with a work id, `find_waiting_input_task` without |
| `CreateRequest` .. `StartManager`, `RunDirect` | the opening half of `_chat_internal`, `_create_child_task` |
| `GroupChatEnds`, `GroupChatAsks`, `Park` | the group chat: its content is a nondeterministic choice of end, failure, question, blank question |
| `Mark`, `SettleRequest`, `SettleRoot`, `Notify` | the tail that `_chat_internal` and `_submit_task_input_locked` share |
| `Reopen`, `Unmark`, `ReopenRoot`, `ReopenRequest`, `Resume`, `TakeAnswer`, `Wake` | an answer: first the root, then the manager task |
| `CancelCheck` .. `CancelUnmark` | `cancel_task` and the "stop" message: the task, its ancestors, the request, the marker, each looked at and then written |
| `Crash` | a process dies and restarts: its calls and locks are gone, its rows stay |

`WorkConversation` is the same seen by the user: a request opens, comes to a question or to
an end of which it tells (`Tell`), is answered or stopped, and each of these begins only when
no other request of the work is running (`Calm`). It has no calls, no lock and one status
instead of three rows, a marker and a pending id. The refinement mapping (*Seen from outside*
in `TaskLifecycle`) says that a request runs while a call is at one of the places `Serving`,
from its root task to its notification and again from the moment an answer was taken;
otherwise it stands where its root task does, except that rows which were reopened for an
answer nobody has taken yet still stand for the question. A turn thus happens at `TakeAnswer`
and at `Notify`; the dozen transactions around them stutter.

A group chat that raises and one that returns a failure take the same steps. A blank
question parks the manager task but writes no marker, which is why `MarkerAfter` keeps the
old value for it.

### WorkLocks

`LookupKnown` and `LookupNew` are `_work_lock`, atomic by its guard lock: the second adds
a new lock object and prunes the least recently used *unlocked* entries, which may include
the entry it just added. `Evicted` says which without walking the map: an unlocked entry
goes if fewer unlocked ones are older than there are entries too many. `Acquire` comes
later: between the two, `handed` is the only trace of the call. A lock object nothing
refers to may be allocated again. The history variable `evicted` says that a lock was
evicted in between; until then a map of any size implements `WorkMutex`, and
`locks_not_idle` shows what evicts it.

### EventBus

`Commit` and `Publish` are two steps of a writer. `Publish` puts the event into every
queue with room and removes the subscribers without. `Take` delivers an event to the page
and sets its timer, `Refresh` is the fetch when it fires. A page that connects does not
fetch.

### ConversationDelivery

One session of classic chat. The in-memory state store hands out references, so the
memory *objects* are the state: `store` is the one the store has, and `pending`,
`delivered`, `paused` are fields of each object. A turn makes at most one object and is its
name; a pause makes one for a session without memory. `ref` is the object a call got,
which may no longer be the stored one. A piece is a pair of the turn whose plan it is in
and its number.

| actions | code |
|---|---|
| `TurnReads`, `TurnDecides`, `TurnPlans`, `TurnSaves`, `TurnTells` | `handle`: get the memory and copy its queue; ask the working-memory model; plan; save; `_persist_conversation_messages` |
| `TurnFails`, `TurnPasses` | the exits of `wrap_reply` and `_build_conversation_layer_result` that clear the memory or leave it alone |
| `PollGets`, `PollChecks`, `PollTakes`, `PollSaves`, `PollTells` | `deliver_next_message` and the message `deliver_next_conversation_message` stores |
| `PauseMarks`, `PauseSaves` | `mark_manual_pause` |

The models may answer anything: `Decisions` is every combination of the fields that
`handle` looks at, `Normalized` what `_normalize_wm_decision` may make of one, whatever
the wording. `ModeOf` is what a decision comes to: clear the memory (`reset`), keep the
queue (`resume`) or plan anew (`replan`). `size`, `told`, `owner`, `hushed` and `overlaps`
are history. The documentation states its invariants for calls that come one at a time;
`overlaps` records when they did not. `ResetForgets` holds whatever overlaps,
`NoPieceSkipped` while no two polls do, `NothingLost` and `PauseHolds` while no calls do at
all, and each of them fails without its condition.

One assumption is about time: a queued piece is due (`Due`) only after the turn that
planned it has returned, since its delay is 5 s by default and the turn has only to store
one message.

### GroupChat

One run of `_run_manager_group_chat` and the answers to its questions. What participants
and the orchestrator say is abstracted to what the code tells apart: a text asks
(`question`), claims to have made or checked something (`claim`), reports a tool call
(`work`) or just talks (`words`), and an ending is one of the seven the extraction of the
completion payload distinguishes.

| actions | code |
|---|---|
| `Begin` | the seed conversation, the participants from the words of the request |
| `Select`, `Speak`, `Terminate` | the orchestrator names a speaker, who is traced; it ends the chat, or the rounds do |
| `Retry`, `Again` | a transient error runs the workflow again with the trace kept; missing work runs it again with a longer seed |
| `Conclude` | payload, completion assessment and the adjudicator's second opinion |
| `FileTurn`, `Ask`, `Finish`, `Break` | a task per visible turn; the pending id and the state of a question; the end; the handler of an exception |
| `Resume` | `_resume_group_chat_waiting_input`: pending id and state are cleared, a new run begins |

### SpecialistWorkflow

Four tasks (manager, specialist, first and second worker), the rows of checkpoints by the
question each holds, and the resume metadata in the developer task. `Results` is what the
chain of validation, retry, repair and the artifact gate may make of a worker's output.
The chat handlers of today start the group chat instead; `execute` is an external caller
(`RecordFirstRun`), while `resume_waiting_input` still reaches every waiting developer
task. The cancel endpoint (`Cancel`, `DeleteCheckpoint`) takes no lock and lies between
any two writes.

The workflow of developer and tester may end with no report, since the tester ends it when
the handoff it receives does not say that the developer is done (`EndWithoutReport`, which
may happen at any handoff). A first run raises then; after a resumption
`_finalize_resumed_software_workflow` fails the tasks above the workers and leaves the two
workers' tasks as they are.

### TemporarySubagents

One worker's call. Loops over helpers (`create`, `activate`, `done`, `fail`, `cleaning`,
`clean`) are a step per store call. `Raise` is a failure of the current step: inside the
try block it leads to the handler, outside of it or in the handler it ends the call and
sets `leaked`, which `AllOrNothing` excepts: the code leaks there, and no document says
otherwise.

### WorkTables

Rows are sets, files a set of pairs of artifact and name. A caller's `at` says what it is
doing and what it looked up; `Purge` is the one transaction of `delete_work`, everything
before and after it (`DropContext`, `ClearSandbox`, `DropFiles`) are steps of their own. A
chat turn (`Converse`, `Message`) may use the sandbox, summon an agent and handle
artifacts in any order. The mapping of agents to sessions is looked up (`Lookup`, `Miss`)
and then inserted (`Insert`), and the unique constraint refuses the second of two
(`Clash`). A revision refiles the row: it takes the session and the work of the turn if the
model passes them (`passed`, any subset), and keeps its own otherwise; the request it was
made by stays. `moved` records the artifacts that were refiled.

### LongTermMemory

A job is one operation of a model's answer. An addition looks at the active memories of its
session and at the shared ones (`Listed`; a job without a session sees every session's):
a fact that is there already only gains weight and changes nothing here, one of the same
subject is superseded (`Supersede`, then `Create`), and otherwise there is a new one. An
update or a deletion that gives an id is carried out on that id, whatever memory it is
(`ChangeById`): neither the session nor the status is checked. One that gives none looks
for its match (`Resolve`) and writes later (`Write`). `Change` is what `update_memory` does:
an update writes the content and the subject, a deletion the status. A job may die between
any two writes (`Die`). `Subjects` stands for pairs of subject and type.

`overlap`, `renamed` and `broken` are history: two jobs were adding to one subject of a
session at once, an update gave a memory another subject, a job died before it created the
successor of what it superseded. `OneFactPerSubject` is false after the first two, which
nothing in the code prevents, and `SupersededHasSuccessor` after the third.

### SessionHistory

The core agent app has a history provider, so the wrapper's rewriting of the transcript
takes effect there. A row is a user's message, a raw answer or a piece that was told;
`Trimmed` cuts the answers after the last user row and `Rewritten` puts others in their
place. A turn asks the framework agent (which stores message and answer; the rows of tool
calls before the answer, which a rewrite leaves alone, are not told apart from it), or a remote
agent in its stored context and, when that fails, once more without it. `DeleteRows`,
`DeleteMemory` and `DeleteContexts` are the three steps of deleting a session. `story`,
`last`, `remote` and `crossing` are history.

### ToolLoader

Coroutines of one loop: a step is what happens between two awaits. `Begin` is a reload up
to its first await, `Close` the return of one close, `Connect`, `Fail` and `Clean` the
return of a connect and the cleanup of a failed one, each followed by the loop over
unusable entries (`Loop`), which does not wait. A failed or timed-out connect may leave a
process, a failed close too (`stuck`).

### ProxyTrace and ProviderRegistry

`ProxyTrace` follows each request of a trace: `Number` and `ReadBody` before it is sent,
`Reply`, `OpenStream`, `EndStream`, `Abandon` and `Fail` after. Its `summary` holds the
counter, the active numbers and the records.

In `ProviderRegistry` a provider is a slot of a type with the URL of a server; the first
slot of a speech type falls back to an unnumbered variable (`Url`). `StartRefresh` remembers
which providers were asked, `FinishRefresh` pairs the answers with them; the admin endpoints
change slots and start a refresh, which suspends while other changes go on. `Accept` takes a
list of discovered servers: the slot of each is found in the configuration as it was before
the call. `Route` is `get_provider`: the provider that the registry names for the model
(`HostOf`), else the first one of the type of the request, else the first that has a model of
that type (`OfType`). `young`, `uptodate` and `missed` are history: the refreshes that began
since the last change, whether the registry is of one of them, and the providers that failed
to answer it.

## What is checked

| run | instance | question | result |
|---|---|---|---|
| `one_process` | 4 calls, 1 work, 2 questions per request; messages, stops, answers; or the bus: 1 page, 2 writers, a queue of 2, 3 changes; fairness of the bus | Do the tables tell one story when every operation holds the work lock? `OneRunningPerWork`, `StatusesAgree`, `QuestionStaysAnswerable`, `NoticesTellTheStory`, `SettledIsFinal`, `TypeOK`. Do their transactions amount to turns that happen at once? `ImplementsConversation`. Does a subscribed page miss nothing and hear of every change? `NoGaps`, `ChangeReachesPage` | hold |
| `interruptions` | 3 calls, 2 works; also the cancel endpoint and crashes | What survives operations without a lock and a process that dies? `OneAnswerPerQuestion`, `StopIsFinal`, `WaitingSurvivesCrash`, `AnswersOwnWork` | hold |
| `live` | 3 calls, 1 work, everything but crashes, fairness (242 121 states) | Is the lock released on every path, so that no call waits for ever? `EveryCallReturns` | hold |
| `agents` | seven parts (2.4 million states) | see the next table | hold |
| `works` | 3 calls on 1 work with 2 agents, 2 sessions, 2 file names; the lock map with room for 2 of 3 works (1.5 million states) | Is a deletion complete, and does every row have its file? `NothingLeft`, `RowsHaveFiles`. Is the map a mutex per work? `ImplementsMutex`; `TypesOK` | hold |
| `conversations` | 2 turns, 2 poll loops, 1 pause, plans of up to 3 pieces; or 2 memory jobs in 2 sessions and in none, 2 subjects, 2 contents (0.6 million states) | Does a reply arrive in order, once and whole? `ResetForgets`, `NoPieceSkipped`, `NothingLost`, `PauseHolds`. Do stale decisions harm memories? `OwnSessionOnly`, `SupersededHasSuccessor`, `OneFactPerSubject`; `TypesOK` | hold |
| `stop_across_processes` | 3 calls, 2 processes | Is a stopped task stopped for good when an answer arrives in the other process? | `StopIsFinal` violated |
| `retry_answers` | 3 calls, retry | Does a message answer a question only by its marker? | `ResumesByMarker` violated |
| `locks_not_idle` | 2 calls, 2 works, room for 1 | Are evicted locks idle? | `EvictsOnlyIdle` violated |
| `bus_silent_stream` | 1 page, 2 writers, queue of 1, 4 changes, fairness | Does an open stream deliver? | `OpenStreamDelivers` violated |
| `delivery_repeats` | 2 turns, 1 poll loop | Is a delivered piece never delivered again? | `NeverRedelivered` violated |
| `work_deletion` | 3 calls on 1 work | Do artifact files go with their rows? | `FilesGoWithRows` violated |

The parts of `agents`:

| part | instance | properties |
|---|---|---|
| `GroupChat` | 2 rounds, 1 rerun, 1 answered question, every combination of required roles | `DoneMeansDone`, `QuestionStands`, `TurnsAreFiled` |
| `SpecialistWorkflow` | 3 questions, both kinds, runner or not | `HandoffFirst`, `WaitingIsResumable`, `FirstRunSettles` |
| `TemporarySubagents` | 2 helpers, both backends, 2 passes | `AllOrNothing` |
| `ProxyTrace` | 3 requests, one of them with a late body, 2 traces | `WaitsForTheLiving`, `ReportedOnce` |
| `ProviderRegistry` | 2 servers with a model in common, one of them configured without a number, 2 slots of 2 types, 2 refreshes, 2 changes | `RoutesToHost` |
| `ToolLoader` | start-up and 2 reloads, 2 configurations of 2 servers, 2 edits | `CacheIsLive` |
| `SessionHistory` | 3 turns, 1 poll loop, plans of up to 2 pieces, one deletion | `SessionContinues` |

Each property of a passing run has a mutant in `PROJECT.json`: a definition replaced by
one with a plausible slip (named `<definition>_<slip>` and marked `slip:` in the modules),
under which TLC finds that property violated in the same instance.

### Bounds

- *Calls.* The properties of `TaskLifecycle` are about a question and the calls that
  compete for it: one call opens the request and asks, two more race for the answer. Three
  calls are therefore the least that shows every race, four let a race follow a race or
  open a second request. Larger instances of the interrupted system (4 calls with cancel
  or with crashes) were explored to some ten million states without a violation; they
  are too large to be kept as runs.
- *Questions.* `MaxAsks` is 1 or 2: with 2 a request goes through waiting and resuming
  twice, so that what the first round left behind meets the second. A workflow asks up to
  three times, so that the newest checkpoint is neither the first nor the second.
- *Works.* One work is where calls meet; two show that lookups and locks keep works apart.
- *Locks.* `Locks` has enough objects for every reference (works plus calls less one), so
  that allocation never blocks; `MaxEntries` (1024 in the code) is below the number of
  works, so that the map is pruned; with fewer works nothing is evicted.
- *Bus.* A queue of 2 (256 in the code) overflows within 3 changes; two writers publish out
  of the order of their commits.
- *Group chat.* 2 rounds of 10 and 1 rerun of 3: two speakers that alternate, merge or
  repeat, an attempt that fails after one of them, and the attempt after it.
- *Work tables.* Three calls are a writer, a second one that crosses it and the deletion.
- *Delivery.* Three pieces are one told at once, one that is due and one behind it. A poll
  is a loop and repeats without bound; a second one overlaps it. The second turn
  interrupts, keeps or resets what the first planned; three turns (with one poll loop and
  plans of 2) were explored without a violation.
- *Memory.* `MaxRows` bounds the memories ever created: two are one and its successor, or
  one and another that is renamed to its subject. Two jobs are one that reads and one that
  writes meanwhile.
- *Conversations.* `OneException` is a state constraint: a behaviour is followed through one
  of the things for which the properties make an exception (overlapping polls or other
  overlapping calls; overlapping additions, a renaming or a death half way), up to the second
  one. After that `NoPieceSkipped`, `NothingLost`, `PauseHolds` and `OneFactPerSubject`
  either claim nothing or are about what was seen before; that `ResetForgets`,
  `SupersededHasSuccessor` and `OwnSessionOnly` go on to hold was explored once without the
  constraint (2.8 million states) and is what the theorems say.
- *History.* `OneAtATime` is a state constraint on this part only: `SessionContinues` is
  about calls that come one at a time and is true of every state after two have overlapped
  (`crossing` never becomes false again), so nothing it could report is cut off. The type
  invariant is checked up to there and at the cut.
- *Registry.* Two refreshes overlap each other and two changes; three models are one that
  both servers have, one for speech and one for chat.
- *Tools.* Three reloads overlap in every way; the two configurations differ in a server
  that can be connected and one that cannot.
- *Symmetry.* Calls, works, sessions, file names, lock objects and threads are
  interchangeable where a run uses symmetry: no definition names one. Where two parts of a
  sum share names (turns and jobs, polls and contents), one permutation serves both. `live`
  uses none; in `one_process` the liveness property is about the bus, and the calls that
  are permuted do not move in its part, so that the symmetry identifies none of its states.
- *Deadlock.* It is checked in the runs of `TaskLifecycle`, `EventBus` and the delivery
  findings; `Over` lets `TaskLifecycle` stutter when all calls have returned. In `agents`,
  `works`, `conversations` and `work_deletion` parts stop when their requests or bounds are
  used up, and the check is off.

### Fairness

`FairSpec` of `TaskLifecycle` assumes weak fairness of each call's steps (and none of
its arrival): a thread keeps running, and an agent run ends because it has a timeout.
Weak fairness suffices for the lock: the instance has finitely many calls, each of
which takes it once. `FairSpec` of `EventBus` assumes that a writer publishes after its
commit, that an open stream is read and that a timer fires; connecting, disconnecting and
committing are never forced. `WebSpec` of `MCWebProcess` takes over the fairness of the
bus: while the calls move, nothing was committed and no page is connected, so it asks for
nothing there. The other modules claim no liveness: a model's answer has no bound but a
timeout, and nothing in the code repeats what failed.

### What the violated runs show

- **`stop_across_processes`.** "Stopped that task. I won't continue it unless you ask me
  to restart it." is promised under a lock that the MCP work-tools server does not share.
  An answer that found the root waiting writes it back to `in_progress` after the stop in the
  other process has cancelled the manager task and the root and said so. The manager task
  stays cancelled, so that the resumption raises: the stopped root is open again and nothing
  works on it.
- **`retry_answers`.** A comment says that in a work a message resumes "from the explicit
  active pending interaction marker rather than guessing". A retry calls `chat()` without
  the work id, so it guesses. In the trace the manager task of a second request has just been
  parked with a question that is not marked yet; the retry of the first, failed request finds
  it and submits the retried text as its answer, or cancels it, the text being a stop word.
- **`locks_not_idle`.** Pruning is documented to "Evict idle (unlocked) LRU entries". A
  lock that was handed out and is not yet acquired is unlocked and not idle; when it is
  evicted, the next call for the same work gets another. It takes a map at its limit of
  1024.
- **`bus_silent_stream`.** `/api/stream` "pushes lightweight change notifications to the
  browser". A subscriber whose queue overflowed is removed but its connection stays open
  and sends keepalives, so the browser does not reconnect and hears of no further change.
- **`delivery_repeats`.** "Already delivered messages are never re-delivered" is the first
  invariant of the conversation layer's hardening plan. An acknowledgement stores the queue
  it copied before it asked the model, and the page's poll loop goes on delivering from
  the old object meanwhile: that piece is in the new queue again.
- **`work_deletion`.** `delete_work` returns the artifacts whose files the caller is to
  remove. It deletes the artifacts of the work's requests before it lists those of the
  work: an artifact made in a work and revised from the classic chat, which has the chat's
  session by then, goes without being listed, and its file stays.

More facts met while modelling are recorded as hazards without a run, because no
documentation promises otherwise: the cancel endpoint takes no lock, so a cancellation
that overtakes a resumption leaves rows that disagree (`StatusesAgree` and
`SettledIsFinal` are therefore stated for `one_process` only), and cancelling a root does
not reach its waiting manager task; two reloads of the tools that overlap leave servers
twice in the catalog and processes nobody closes; a poll rewrites the transcript with
pieces kept from earlier turns, and a remote answer replaces the one before it; a refresh of
the providers that began before a change and ends after that of the change leaves a registry
in which a slot owns models that only its former server has, and nothing corrects it; two new
servers of one type that are accepted in one call find the same free slot, so that the first
is lost though both are reported as processed (the environment they look in is only reloaded
at the end).
Some conditions of properties stand for such facts too. `RoutesToHost` holds once a refresh
that began since the last change is over (`uptodate`), for providers that answered it;
`OwnSessionOnly` for memories a job found itself, since an id it is given is not checked;
`OneFactPerSubject` while no two jobs add to one subject of a session at once, no memory is
shared and no update renames one (`overlap`, `renamed`); `ReportedOnce` for traces in which nothing failed and nothing was read late;
`NothingLeft` for deletions no other call ran across (`crossed`); `AllOrNothing` for
failures the try block covers (`leaked`). Each fails without its condition.

## What is proved

All theorems are about every value of the constants that the named `ASSUME`s allow: any
number of calls, works, questions, pieces, pages, loads or memories. `PROJECT.json` lists
them with the property each states: 37 of the 39 properties of the passing runs are
theorems as well, every invariant among them; the other two are liveness properties. Every
proof has the same shape: an invariant that is inductive, one lemma per action (or per
group of actions that change the same things), and a last step in temporal logic. A
property is seldom inductive: the table says what had to be added to it.

| module | theorems | the inductive invariant and why it is needed |
|---|---|---|
| `TaskLifecycleProofs` | `TypeCorrect` (`TypeOK`), `MutualExclusion` (`OneCallPerWork`), `OwnWorkOnly` (`AnswersOwnWork`), `ByMarkerUnlessRetried` (`ResumesByMarker`, when `"retry"` is not among `Ops`) | `CallInv`. A call that writes an outcome has one (`OutcomeKnown`, without which `SettleRoot` could write "none" into a task); a locking call inside is the holder of the lock of its place (`LockHeld`); a call that arrived knows its place, works on a request that arrived, and tasks exist only for those (`PlaceKnown`, `AboutArrived`, `TasksOfCalls`). The locks of a process and its calls vanish together in a `Crash`. For the last theorem, that a call under way is of an operation in `Ops` (`KnownOps`). |
| `TaskStoryProofs`, under `LockedCalls` | `OneRuns`, `TablesAgree`, `QuestionsAnswerable`, `NoticesComplete`, `EndsAreFinal`, `TurnsHappenAtOnce` (`ImplementsConversation`) | `StoryInv` with `CallInv`. `Phase` says what request, root task, manager task, marker, pending id and notices are at each point of the call that works on a request, `Rest` what they are when no call does: blank, waiting, ended or stopped. The lock makes the call in `Phase` the only one of its work (`Exclusive`), so that what a call reads between two transactions still holds at the second. For the refinement, each step leaves its request where it stood or is one turn of it (`TurnStep`), a call is alone at its request, and since its work is locked no other request of the work is running (`WorkIsCalm`), as a turn requires. |
| `TaskInterruptionProofs`, under `OneLock` | `AnsweredOnce` (`OneAnswerPerQuestion`), `StopStays` (`StopIsFinal`), `WaitingSurvives` (`WaitingSurvivesCrash`) | `InterruptionInv` with `CallInv`. The cancel endpoint may change a task under a call and a crash may end it anywhere, so `Turn` keeps only what the lock protects: the pending id of a question changes under the lock alone, a waiting manager task without one is about to be woken, a root does not wait while a call is past its reopening. `QueueInv` says what a call that still waits at the lock may rely on, `StopInv` that such a call finds nothing to resume after a stop; `Counted` that answers and the open question are all the questions asked. |
| `WorkLocksProofs` | `LocksAreMutexes` (`ImplementsMutex`), `MutexesWhileFits`, `MapIsOneDictionary` (`TypeOK`) | `LocksInv`: what was handed out is still in the map (`HandedIsCurrent`) and a call inside owns it. It holds until a lock is evicted between its hand-out and its acquisition, whatever the size of the map (`MapInv`), and while it holds each step maps to a step of `WorkMutex` or a stutter: a held lock is never evictable, and a new lock object is none that a call still has. While the works fit into the map (`Fits`) nothing is evicted. The last theorem needs its own types only: a look-up moves a key to the end, pruning keeps the order of those that stay (`KeysStay`). |
| `MCWorksProofs` | `LocksImplementMutex` (`ImplementsMutex`), of the map of the sum; `PartsTyped` (`TypesOK`); `FilesStand` (`RowsHaveFiles`), `DeletionIsComplete` (`NothingLeft`) | `TablesInv`. Who made a row and which calls are handling it (`MadeInv`): an artifact that was not raced for is in one call's hands, and its session and work are those of the call that made it unless a revision refiled it. A file is there from before its row until after (`NamedInv`), and a file without row has a call that still removes it (`KeptInv`). A session belongs to the work it was inserted for (`OwnedInv`). `DeletionInv` says how far a deletion that nobody ran across has come: all sessions of the work are mapped until the purge, so that it lists them all, and from then on what is left is what it still holds. |
| `MCWebProcessProofs` | `TasksInWeb` (`WebSpec => Spec`), `NoEventSkipped` (`NoGaps`) | `BusInv`: what a page received and what is queued is the stretch of `published` from its subscription, up to its end while the page is listed. `TasksInWeb` carries the theorems about `TaskLifecycle` over to the sum. |
| `MCConversationsProofs` | `TypesHold` (`TypesOK`); `Successors`, `OneFact`, `OwnSessions`; `NewTopicForgets` (`ResetForgets`), `NoneSkipped` (`NoPieceSkipped`), `PausesHold` (`PauseHolds`), `NoneLost` (`NothingLost`) | `MemoryInv`: what a job found itself stays in its reach, since a memory keeps its session whatever is written into it (`Aims`); until two jobs overlap, one job adds to a subject of a session (`OneAdder`), and while no memory is shared or gets another subject, what it supersedes is the one rival of what it creates (`Replaces`). `DeliveryInv`: nobody knows the memory of a turn before it is saved (`Fresh`), so a topic that was reset has no way in; every queue and every copy of a queue goes on with a piece whose predecessors are told or on their way (`Queues`, `Flight`); one call at a time, told, queued and what a call holds make up the reply (`OneReply`). |
| `MCAgentsProofs` | `ChatAsks` (`QuestionStands`), `DoneIsWorked` (`DoneMeansDone`), `TurnsFiled` (`TurnsAreFiled`); `ResultsPrecede` (`HandoffFirst`), `QuestionsResume` (`WaitingIsResumable`), `RunsSettle` (`FirstRunSettles`); `HelpersEndAlike` (`AllOrNothing`); `NoDeadWait` (`WaitsForTheLiving`), `OneReport` (`ReportedOnce`); `ToolsAreLive` (`CacheIsLive`); `ModelsFindHosts` (`RoutesToHost`); `SessionsContinue` (`SessionContinues`); `PartsTyped` (`TypesOK`) | One invariant per part. `TurnInv`: what a run requires was at work in its trace when its payload was accepted, and the turn tasks filed so far are the first of the visible ones, which are the texts of the conversation whatever the seeds of reruns added. `FlowInv` says which worker is at what at each stage, and that a question's checkpoint is stored and named before its task waits. `SubEnds` says what each loop over helpers has done so far. `TraceInv`: a live request is recorded once, in the summary, which waits for its number, a finished one once in the summary or in a report. `ToolInv`: no load has cached what it is still to connect, and one load at a time has entered what it read up to where it is. `RegistryInv`: a refresh that is younger than the last change has asked the providers that are configured (`AskedInv`), and a registry that is up to date is what those providers answered, without those whose fetch failed (`OwnerInv`). `HistoryInv`: the call under way is alone and what it read still stands (`AloneInv`), the context lags by at most one answer (`ContextInv`), and the transcript by what the call under way is about to write (`ToldInv`). |

Two hypotheses stand for a scope, not for a convenience, and each is true of the run that
checks the property:

- `LockedCalls` (one process, messages and answers) and `OneLock` (one process, no retry)
  exclude what the code does not protect. `stop_across_processes` shows that `StopIsFinal`
  fails with a second process, which has locks of its own; a retry looks for a question
  without the lock, as `retry_answers` shows; and a cancellation that overtakes a
  resumption leaves rows that disagree, so that the story of the tables cannot be proved
  with the cancel endpoint.
- Inside a property, conditions such as `overlaps`, `crossed`, `raced` or `broken` are part
  of what is claimed, and the paragraphs above say what happens without them.

What the proofs use of the constants: a bound of the code is a natural number, positive
where the code needs one; sets of names are disjoint where the code has different types;
`Works` is finite where a map counts them. The constants of a part of `MCAgents` are those of
its module's assumption (`ChatAssumption`, `HistoryAssumption`, `RegistryAssumption` and the
others), which `AgentsAssumption` gathers; what each server offers, the types and slots of providers and
what the configuration file may hold are constants too, to which the run gives `TwoHosts`,
`ThreeKinds`, `TwoTypes`, `Unnumbered` and `TwoFiles`. Those of `MCWorks` are the assumptions
of its two modules.

What a definition computes over a list of any length is needed by several proofs: the keys
that pruning leaves in the map, the rows a rewritten transcript keeps, the visible turns of a
conversation, the providers in their order. Those definitions are recursive functions over
positions, and the lemmas about them go by the least position at which the claim would fail
(`LeastNumber`, from the well-foundedness of strict inclusion), which needs no induction
theorem with an operator parameter.

### What stays with TLC

- *Liveness and ENABLED* (`EveryCallReturns`, `ChangeReachesPage`): TLAPS proves neither.
- The properties of the violated runs, which are false there. `StopIsFinal` and
  `ResumesByMarker` are theorems where the second process or the retry is excluded.

## What is left out

- *Inside a store call.* A store call is taken to succeed and to be atomic. So is the pair
  that reads a task's `input_json` and writes it back, which in the code are two
  transactions (a hazard says so), and a lookup over the tasks of a work.
- *Content.* What agents say, prompts, histories, messages and task events. A verdict of
  the group chat is a choice.
- *Calls that are refused* at the door change nothing and are not modelled; neither is the
  follow-up of a writer after a completed group chat, nor `manual_unblock`, which the
  group chat does not reach.
- *Chat outside works* takes no lock and is not delegated; only retry brings it into a
  work's session.
- *More than 1024 works* in one process: `TaskLifecycle` assumes a proper mutex, which
  `WorkLocks` provides only up to the limit of the map.
- *Two processes*: in the theorems of `TaskLifecycleProofs` and in `stop_across_processes`.
  The other invariants of the tables are stated for one process, since the lock is what
  they rest on.
- *Conversation layer.* How a text is cut into pieces and how a planner's answer is checked
  and repaired; counts and reasons reported about a cleared queue; the Redis store, which
  the web application does not use. A turn that plans nothing stores its reply whole: that
  is no piece of a plan and not in `told`.
- *Core agent app.* Debug mode, in which a failure is answered as text; the options and
  routing metadata of targets; what an excerpt of the transcript contains.
- *Workflows.* The recovery run of a tester is part of its report; helpers of a worker are
  in `TemporarySubagents`, not inside the workflow.
- *Memory.* Which memories a prompt is given, and jobs with several operations, which are
  as many jobs here: each operation looks at the store anew.
- *Tools.* The calls of a loaded tool. An agent that is at work keeps the tools it was built
  with, which a reload closes under it.
- *Refreshes* of one page that overlap, and the fetch itself, are one step in `EventBus`.
- *The rest*: outbound notifications, the runtime that assembles prompts, Docker, start-up
  code and demos are I/O or text, without state that several steps share.

## Plan

Every part, run and theorem that was planned is there. What would be worth adding next:

1. An abstract specification of a delivered reply (told piece by piece, interrupted,
   resumed) that `ConversationDelivery` implements while calls come one at a time;
   `DeliveryInv` has the facts about what is told, queued and held.
2. The story of the tables with the cancel endpoint, should it come to take the work lock:
   `StatusesAgree` and `SettledIsFinal` could then be stated for `interruptions` as well,
   and `TurnsHappenAtOnce` with a turn that cancels.
3. Several processes over one map of locks in the database, should the MCP work-tools server
   come to share it: `StopIsFinal` would hold there as it does in one process.
