---------------------------- MODULE MCAgentsProofs ----------------------------
(***************************************************************************)
(* Safety of the parts of MCAgents, for any number of rounds, questions,   *)
(* helpers, requests, traces, providers, models, loads, servers, turns and *)
(* polls.  A behaviour is one of one part; the variables of the others     *)
(* stay as they were.  Each part has an inductive invariant of its own     *)
(* that says where its calls stand and what they have written by then.     *)
(***************************************************************************)
EXTENDS MCAgents, FiniteSetTheorems, FunctionTheorems, SequenceTheorems,
        WellFoundedInduction, TLAPS

allVars == <<part, chatVars, flowVars, subVars, traceVars, registryVars, toolVars, historyVars>>

-----------------------------------------------------------------------------
(* Numbers *)

\* A number of S with the smallest interval 0..n is the least of S.
LEMMA LeastNumber ==
  ASSUME NEW S, S \subseteq Nat, S # {}
  PROVE  \E n \in S : \A k \in S : n <= k
<1> DEFINE Starts == {0..n : n \in S}
           Less == StrictSubsetOrdering(Nat)
<1>1. Starts \subseteq FiniteSubsetsOf(Nat)
  <2>1. ASSUME NEW n \in S PROVE 0..n \in SUBSET Nat /\ IsFiniteSet(0..n)
    BY FS_Interval
  <2> QED
    BY <2>1 DEF FiniteSubsetsOf
<1>2. Starts # {}
  OBVIOUS
<1>3. \E least \in Starts : \A other \in Starts : <<other, least>> \notin Less
  <2> HIDE DEF Starts
  <2> QED
    BY <1>1, <1>2, FS_StrictSubsetOrderingWellFounded, WFMin
<1>4. PICK n \in S : \A k \in S : <<0..k, 0..n>> \notin Less
  BY <1>3
<1>5. ASSUME NEW k \in S, k < n PROVE FALSE
  <2>1. 0..k \subseteq 0..n /\ n \in 0..n /\ n \notin 0..k
    BY <1>5
  <2>2. 0..k \in SUBSET Nat /\ 0..n \in SUBSET Nat
    OBVIOUS
  <2>3. <<0..k, 0..n>> \in Less
    BY <2>1, <2>2 DEF StrictSubsetOrdering
  <2> QED
    BY <1>4, <2>3
<1> QED
  BY <1>5

LEMMA GreatestNumber ==
  ASSUME NEW m \in Nat, NEW S, S \subseteq 0..m, S # {}
  PROVE  \E n \in S : \A k \in S : n >= k
<1> DEFINE T == {m - n : n \in S}
<1>1. T \subseteq Nat /\ T # {}
  <2>1. \A n \in S : n \in 0..m /\ m - n \in Nat
    OBVIOUS
  <2>2. T \subseteq Nat
    BY <2>1
  <2> QED
    BY <2>2
<1>2. PICK i \in T : \A j \in T : i <= j
  BY <1>1, LeastNumber
<1>3. PICK n \in S : i = m - n
  BY <1>2
<1>4. ASSUME NEW k \in S PROVE n >= k
  <2>1. m - k \in T
    OBVIOUS
  <2>2. m - n <= m - k
    BY <1>2, <1>3, <2>1
  <2> QED
    BY <2>2
<1> QED
  BY <1>4

-----------------------------------------------------------------------------
(* Group chat: the question of a manager task *)

\* A run that is under way has a task at work, and so no question that is pending.
ChatInv ==
    /\ asked \in Nat
    /\ phase # "over" => task = "in_progress"
    /\ task = "waiting_input" <=> pending # Chat!None
    /\ pending # Chat!None => state.owner = pending
    /\ task \in {"done", "failed"} => state.owner = Chat!None

ChatRecord == <<task, pending, state, asked>>

LEMMA ChatInit == Init => ChatInv
BY DEF Init, Chat!Init, ChatInv, Chat!None

\* Until a run ends, its steps leave the task and its question alone.
LEMMA ChatTalks ==
  ASSUME ChatInv, UNCHANGED ChatRecord, phase # "over" \/ UNCHANGED phase
  PROVE  ChatInv'
BY DEF ChatInv, ChatRecord, Chat!None

LEMMA ChatStep ==
  ASSUME ChatInv, Chat!Next
  PROVE  ChatInv'
<1>1. ASSUME Chat!Begin PROVE ChatInv'
  BY <1>1, ChatTalks DEF Chat!Begin, Chat!record, ChatRecord
<1>2. ASSUME NEW r \in Chat!Roles, Chat!Select(r) PROVE ChatInv'
  BY <1>2, ChatTalks DEF Chat!Select, Chat!record, ChatRecord
<1>3. ASSUME NEW what \in Chat!Sayings, Chat!Speak(what) PROVE ChatInv'
  BY <1>3, ChatTalks DEF Chat!Speak, Chat!record, ChatRecord
<1>4. ASSUME NEW how \in Chat!Endings, Chat!Terminate(how) PROVE ChatInv'
  BY <1>4, ChatTalks DEF Chat!Terminate, Chat!record, ChatRecord
<1>5. ASSUME Chat!Retry PROVE ChatInv'
  BY <1>5, ChatTalks DEF Chat!Retry, Chat!record, ChatRecord
<1>6. ASSUME Chat!Again PROVE ChatInv'
  BY <1>6, ChatTalks DEF Chat!Again, Chat!record, ChatRecord
<1>7. ASSUME Chat!Conclude PROVE ChatInv'
  BY <1>7, ChatTalks DEF Chat!Conclude, Chat!record, ChatRecord
<1>8. ASSUME Chat!FileTurn PROVE ChatInv'
  BY <1>8, ChatTalks DEF Chat!FileTurn, Chat!record, ChatRecord
<1>9. ASSUME Chat!Ask PROVE ChatInv'
  BY <1>9 DEF Chat!Ask, ChatInv, Chat!StateOf, Chat!None
<1>10. ASSUME Chat!Finish PROVE ChatInv'
  BY <1>10 DEF Chat!Finish, ChatInv, Chat!StateOf, Chat!None
<1>11. ASSUME Chat!Break PROVE ChatInv'
  BY <1>11 DEF Chat!Break, ChatInv, Chat!None
<1>12. ASSUME Chat!Resume PROVE ChatInv'
  BY <1>12 DEF Chat!Resume, ChatInv, Chat!Answered, Chat!None
<1> QED
  BY <1>1, <1>2, <1>3, <1>4, <1>5, <1>6, <1>7, <1>8, <1>9, <1>10, <1>11, <1>12 DEF Chat!Next

LEMMA ChatAlways == Spec => []ChatInv
<1>1. Init => ChatInv
  BY ChatInit
<1>2. ChatInv /\ [Next]_allVars => ChatInv'
  <2>1. ChatInv /\ UNCHANGED chatVars => ChatInv'
    BY DEF chatVars, ChatInv
  <2> QED
    BY <2>1, ChatStep DEF Next, allVars
<1> QED
  BY <1>1, <1>2, PTL DEF Spec, allVars

\* The question that a waiting manager task is answered by is the one its state
\* names; a task that has ended has none.
THEOREM ChatAsks == Spec => []QuestionStands
<1>1. ChatInv => QuestionStands
  BY DEF ChatInv, QuestionStands, Chat!QuestionStands
<1> QED
  BY <1>1, ChatAlways, PTL
-----------------------------------------------------------------------------
(* Temporary subagents: all helpers or none *)

Before == {"decide", "plan", "create", "taskFor", "activate", "chat", "map", "done"}

SubTyped ==
    /\ step \in Subs!Stages
    /\ next \in Subs!Helper
    /\ helpers \in 0..MaxHelpers
    /\ agent \in [Subs!Helper -> {"none", "created", "active", "cleaning_up", "cleaned",
       "failed"}]
    /\ htask \in [Subs!Helper -> {"none", "in_progress", "done", "failed"}]
    /\ failed \in BOOLEAN
    /\ leaked \in BOOLEAN

\* A loop is at a helper of the plan, and starts at the first one.
SubPlace ==
    /\ step \in Subs!Loops => next <= helpers
    /\ step \in {"chat", "map"} => next = 1 /\ 1 <= helpers
    /\ step \in {"decide", "plan"} => next = 1
    /\ step \in Before => ~failed

TaskEnd == IF failed THEN "failed" ELSE "done"
AgentEnd == IF failed THEN "failed" ELSE "cleaned"

\* What the loops that end helpers have done so far, and did when they were over.
SubEnds ==
    /\ step = "fail" => failed
    /\ step \in {"done", "fail"} => \A i \in 1..(next - 1) : htask[i] = TaskEnd
    /\ step \in {"cleaning", "clean", "returned"} \/ (step = "raised" /\ ~leaked) =>
          \A i \in Subs!Planned : htask[i] = TaskEnd
    /\ step = "clean" => \A i \in 1..(next - 1) : agent[i] = AgentEnd
    /\ step = "returned" \/ (step = "raised" /\ ~leaked) =>
          \A i \in Subs!Planned : agent[i] = AgentEnd
    /\ step = "returned" => ~failed
    /\ step = "raised" => failed \/ leaked

SubInv == SubTyped /\ SubPlace /\ SubEnds

LEMMA HelpersNumbered == MaxHelpers \in Nat \ {0}
BY AgentsAssumption DEF Subs!SubagentAssumption

LEMMA SubInit == Init => SubInv
<1> SUFFICES ASSUME Init PROVE SubInv
  OBVIOUS
<1>1. /\ step = "decide" /\ next = 1 /\ helpers = 0 /\ failed = FALSE /\ leaked = FALSE
      /\ agent = [i \in Subs!Helper |-> "none"] /\ htask = [i \in Subs!Helper |-> "none"]
  BY DEF Init, Subs!Init
<1>2. SubTyped
  <2>1. next \in Subs!Helper /\ helpers \in 0..MaxHelpers
    BY <1>1, HelpersNumbered DEF Subs!Helper
  <2>2. /\ agent \in [Subs!Helper -> {"none", "created", "active", "cleaning_up", "cleaned",
           "failed"}]
        /\ htask \in [Subs!Helper -> {"none", "in_progress", "done", "failed"}]
    BY <1>1
  <2> QED
    BY <1>1, <2>1, <2>2 DEF SubTyped, Subs!Stages
<1>3. SubPlace /\ SubEnds
  BY <1>1 DEF SubPlace, SubEnds, Before, Subs!Loops
<1> QED
  BY <1>2, <1>3 DEF SubInv

LEMMA SubDecides ==
  ASSUME SubInv, NEW capable \in BOOLEAN, NEW decision, Subs!Decide(capable, decision)
  PROVE  SubInv'
BY HelpersNumbered DEF Subs!Decide, Subs!given, SubInv, SubTyped, SubPlace, SubEnds, Before,
   Subs!Helper, Subs!Planned, Subs!Stages, Subs!Loops, Subs!Ended, TaskEnd, AgentEnd

LEMMA SubPlans ==
  ASSUME SubInv, NEW needs \in BOOLEAN, NEW complete \in 0..MaxHelpers,
         Subs!Plan(needs, complete)
  PROVE  SubInv'
<1>1. helpers' \in 0..MaxHelpers
  BY HelpersNumbered DEF Subs!Plan, Subs!PlannedHelpers
<1>2. /\ step' = IF helpers' = 0 THEN "plain" ELSE "create"
      /\ UNCHANGED <<next, agent, htask, failed, leaked>>
      /\ step = "plan"
  BY DEF Subs!Plan
<1> QED
  BY <1>1, <1>2, HelpersNumbered DEF SubInv, SubTyped, SubPlace, SubEnds, Before,
     Subs!Helper, Subs!Planned, Subs!Stages, Subs!Loops, Subs!Ended

\* A loop goes on to the next helper, which is one of the plan, or starts anew.
LEMMA SubAdvances ==
  ASSUME SubInv, step \in Subs!Loops, NEW here \in Subs!Stages, NEW there \in Subs!Stages,
         Subs!Advance(here, there)
  PROVE  \/ next = helpers /\ step' = there /\ next' = 1
         \/ next < helpers /\ step' = here /\ next' = next + 1
BY DEF Subs!Advance, SubInv, SubTyped, SubPlace, Subs!Helper

LEMMA SubCreates ==
  ASSUME SubInv, Subs!CreateAgent \/ Subs!CreateTask \/ Subs!Activate
  PROVE  SubInv'
<1>1. ASSUME Subs!CreateAgent PROVE SubInv'
  BY <1>1, HelpersNumbered DEF Subs!CreateAgent, Subs!given, SubInv, SubTyped, SubPlace, SubEnds,
     Before, Subs!Helper, Subs!Planned, Subs!Stages, Subs!Loops, Subs!Ended
<1>2. ASSUME Subs!CreateTask PROVE SubInv'
  BY <1>2, HelpersNumbered DEF Subs!CreateTask, Subs!Advance, Subs!given, SubInv, SubTyped,
     SubPlace, SubEnds, Before, Subs!Helper, Subs!Planned, Subs!Stages, Subs!Loops, Subs!Ended
<1>3. ASSUME Subs!Activate PROVE SubInv'
  BY <1>3, HelpersNumbered DEF Subs!Activate, Subs!Advance, Subs!given, SubInv, SubTyped,
     SubPlace, SubEnds, Before, Subs!Helper, Subs!Planned, Subs!Stages, Subs!Loops, Subs!Ended
<1> QED
  BY <1>1, <1>2, <1>3

LEMMA SubTalks ==
  ASSUME SubInv, Subs!MapOutputs \/ \E blank \in SUBSET (0..Subs!Rounds - 1) : Subs!Chat(blank)
  PROVE  SubInv'
<1>1. ASSUME Subs!MapOutputs PROVE SubInv'
  <2>1. /\ step = "map" /\ UNCHANGED <<next, helpers, agent, htask, leaked>>
        /\ \/ step' = "fail" /\ failed' = TRUE
           \/ step' = "done" /\ UNCHANGED failed
    BY <1>1 DEF Subs!MapOutputs
  <2>2. next' = 1 /\ 1..(next' - 1) = {} /\ 1 <= helpers
    BY <2>1 DEF SubInv, SubPlace
  <2>3. SubTyped'
    BY <2>1 DEF SubInv, SubTyped, Subs!Stages, Subs!Loops
  <2>4. SubPlace' /\ SubEnds'
    BY <2>1, <2>2 DEF SubInv, SubPlace, SubEnds, Before, Subs!Loops
  <2> QED
    BY <2>3, <2>4 DEF SubInv
<1>2. ASSUME NEW blank \in SUBSET (0..Subs!Rounds - 1), Subs!Chat(blank) PROVE SubInv'
  <2>1. /\ step = "chat" /\ step' = "map"
        /\ UNCHANGED <<next, helpers, agent, htask, failed, leaked>>
    BY <1>2 DEF Subs!Chat
  <2> QED
    BY <2>1, HelpersNumbered DEF SubInv, SubTyped, SubPlace, SubEnds, Before,
       Subs!Helper, Subs!Planned, Subs!Stages, Subs!Loops, Subs!Ended
<1> QED
  BY <1>1, <1>2

\* Each helper task ends, done or failed by the loop it is in.
LEMMA SubEndsTasks ==
  ASSUME SubInv, Subs!CompleteTask \/ Subs!FailTask
  PROVE  SubInv'
<1>1. /\ step \in {"done", "fail"}
      /\ htask' = [htask EXCEPT ![next] = TaskEnd]
      /\ Subs!Advance(step, "cleaning")
      /\ UNCHANGED <<helpers, agent, failed, leaked>>
  BY DEF Subs!CompleteTask, Subs!FailTask, Subs!FailedTask, SubInv, SubPlace, SubEnds, Before,
     TaskEnd
<1>2. TaskEnd \in {"done", "failed"} /\ UNCHANGED TaskEnd
  BY <1>1 DEF TaskEnd
<1>3. next \in 1..MaxHelpers /\ next <= helpers /\ helpers \in 0..MaxHelpers
  BY <1>1 DEF SubInv, SubTyped, SubPlace, Subs!Helper, Subs!Loops
<1>4. \/ next = helpers /\ step' = "cleaning" /\ next' = 1
      \/ next < helpers /\ step' = step /\ next' = next + 1
  BY <1>1, <1>3 DEF Subs!Advance
<1>5. \A i \in 1..next : htask'[i] = TaskEnd
  BY <1>1, <1>3 DEF SubInv, SubTyped, SubEnds, Subs!Helper
<1>6. SubTyped'
  BY <1>1, <1>2, <1>3, <1>4, HelpersNumbered
     DEF SubInv, SubTyped, Subs!Helper, Subs!Stages, Subs!Loops
<1>7. SubPlace'
  BY <1>1, <1>3, <1>4 DEF SubInv, SubPlace, Before, Subs!Loops
<1>8. SubEnds'
  BY <1>1, <1>2, <1>3, <1>4, <1>5 DEF SubInv, SubEnds, Subs!Planned
<1> QED
  BY <1>6, <1>7, <1>8 DEF SubInv

LEMMA SubCleans ==
  ASSUME SubInv, Subs!StartCleanup \/ Subs!Cleanup
  PROVE  SubInv'
<1>1. ASSUME Subs!StartCleanup PROVE SubInv'
  BY <1>1, HelpersNumbered DEF Subs!StartCleanup, Subs!Advance, Subs!given, SubInv, SubTyped,
     SubPlace, SubEnds, Before, Subs!Helper, Subs!Planned, Subs!Stages, Subs!Loops, Subs!Ended,
     TaskEnd, AgentEnd
<1>2. ASSUME Subs!Cleanup PROVE SubInv'
  <2>1. /\ step = "clean"
        /\ agent' = [agent EXCEPT ![next] = AgentEnd]
        /\ UNCHANGED <<helpers, htask, failed, leaked>>
    BY <1>2 DEF Subs!Cleanup, AgentEnd
  <2>2. /\ AgentEnd \in {"cleaned", "failed"} /\ UNCHANGED AgentEnd /\ UNCHANGED TaskEnd
    BY <2>1 DEF AgentEnd, TaskEnd
  <2>3. next \in 1..MaxHelpers /\ next <= helpers /\ helpers \in 0..MaxHelpers
    BY <2>1 DEF SubInv, SubTyped, SubPlace, Subs!Helper, Subs!Loops
  <2>4. \/ next = helpers /\ step' = (IF failed THEN "raised" ELSE "returned") /\ next' = 1
        \/ next < helpers /\ step' = step /\ next' = next + 1
    BY <1>2, <2>1, <2>3 DEF Subs!Cleanup, Subs!Advance
  <2>5. \A i \in 1..next : agent'[i] = AgentEnd
    BY <2>1, <2>3 DEF SubInv, SubTyped, SubEnds, Subs!Helper
  <2>6. SubTyped'
    BY <2>1, <2>2, <2>3, <2>4, HelpersNumbered
       DEF SubInv, SubTyped, Subs!Helper, Subs!Stages, Subs!Loops, Subs!Ended
  <2>7. SubPlace'
    BY <2>1, <2>3, <2>4 DEF SubInv, SubPlace, Before, Subs!Loops
  <2>8. SubEnds'
    BY <2>1, <2>2, <2>3, <2>4, <2>5 DEF SubInv, SubEnds, Subs!Planned
  <2> QED
    BY <2>6, <2>7, <2>8 DEF SubInv
<1> QED
  BY <1>1, <1>2

LEMMA SubRaises ==
  ASSUME SubInv, Subs!Raise
  PROVE  SubInv'
<1>1. step \in Subs!Loops \cup {"chat"} /\ UNCHANGED <<helpers, agent, htask>>
  BY DEF Subs!Raise
<1>2. CASE step' = "raised" /\ leaked' = TRUE /\ UNCHANGED <<next, failed>>
  BY <1>1, <1>2 DEF SubInv, SubTyped, SubPlace, SubEnds, Before, Subs!Stages, Subs!Loops,
     Subs!Ended
<1>3. CASE step' = "fail" /\ next' = 1 /\ failed' = TRUE /\ UNCHANGED leaked
  <2>1. 1 <= helpers
    BY <1>1, HelpersNumbered DEF SubInv, SubTyped, SubPlace, Subs!Helper
  <2>2. SubTyped'
    BY <1>1, <1>3, HelpersNumbered DEF SubInv, SubTyped, Subs!Stages, Subs!Loops, Subs!Helper
  <2>3. SubPlace' /\ SubEnds'
    BY <1>1, <1>3, <2>1 DEF SubPlace, SubEnds, Before, Subs!Loops
  <2> QED
    BY <2>2, <2>3 DEF SubInv
<1> QED
  BY <1>2, <1>3 DEF Subs!Raise

LEMMA SubAlways == Spec => []SubInv
<1>1. Init => SubInv
  BY SubInit
<1>2. SubInv /\ Subs!Next => SubInv'
  BY SubDecides, SubPlans, SubCreates, SubTalks, SubEndsTasks, SubCleans, SubRaises DEF Subs!Next
<1>3. SubInv /\ UNCHANGED subVars => SubInv'
  BY DEF subVars, SubInv, SubTyped, SubPlace, SubEnds, TaskEnd, AgentEnd, Subs!Planned
<1>4. SubInv /\ [Next]_allVars => SubInv'
  BY <1>2, <1>3 DEF Next, allVars
<1> QED
  BY <1>1, <1>4, PTL DEF Spec, allVars

\* However many helpers a plan names, and whichever write or round fails within the
\* try block: the call that returns has all helpers done and cleaned up, the call
\* that raises has all of them failed.
THEOREM HelpersEndAlike == Spec => []AllOrNothing
<1>1. SubInv => AllOrNothing
  BY DEF SubInv, SubEnds, TaskEnd, AgentEnd, AllOrNothing, Subs!AllOrNothing
<1> QED
  BY <1>1, SubAlways, PTL
-----------------------------------------------------------------------------
(* Specialist workflow: what its tasks say wherever its call stands *)

First == tasks["first"]
Second == tasks["second"]
Specialist == tasks["specialist"]

Good == /\ handed \notin Flow!Invalid \cup {"none"}
        /\ kind = "software" /\ clone /\ ~runner => artifacts

\* A first worker is done from the handoff on, with a result that can be used, and
\* the second one has not started without it.
HandoffInv ==
    /\ stage = "relay" => runner
    /\ stage = "research" => kind # "software"
    /\ stage \in {"handoff", "second", "review"} => First = "done"
    /\ First = "done" => /\ Good
                         /\ stage \in {"handoff", "second", "review", "raised", "over"}
                         /\ stage = "raised" => \/ raised \in {"second", "review"}
                                                \/ raised = "handoff" /\ kind = "software"
    /\ Second \in {"in_progress", "done"} => First = "done"

\* Where the handler of an exception, or the end of the call, meets a task that is
\* in progress.
SettleInv ==
    /\ stage = "review" => Second # "in_progress"
    /\ stage = "raised" /\ raised \in {"second", "review"} => First = "done"
    /\ stage = "raised" /\ raised = "review" => Second # "in_progress"
    /\ stage \in {"asked", "stored"} => First # "in_progress"
    /\ stage = "over" /\ ~resumed =>
          First # "in_progress" /\ Second # "in_progress" /\ Specialist # "in_progress"

\* A task that waits has its checkpoint stored, and names it once the question is
\* recorded; a cancellation that deletes one has met no call.
WaitInv ==
    /\ saved \subseteq 1..questions
    /\ stage \in {"developer", "resuming", "asked", "stored"} => input.ids
    /\ stage = "deciding" => row.ids
    /\ ~crossed /\ deleting => stage = "over" /\ First = "cancelled"
    /\ ~crossed /\ ~lost /\ First = "waiting_input" =>
          /\ stage \in {"asked", "stored", "over", "resuming", "developer"}
          /\ questions \in saved
          /\ input.ids
          /\ stage # "asked" => input.checkpoint = questions /\ input.question = questions
          /\ stage = "over" => Specialist \in {"waiting_input", "cancelled"}
          /\ stage = "resuming" => row = input

FlowInv == Flow!TypeOK /\ HandoffInv /\ SettleInv /\ WaitInv

LEMMA QuestionsBounded == MaxQuestions \in Nat
BY AgentsAssumption DEF Flow!WorkflowAssumption

LEMMA TextsReturned == Flow!Results \subseteq Flow!Texts
BY DEF Flow!Results, Flow!Recovered, Flow!Texts

LEMMA ResultsReturned ==
  ASSUME artifacts \in BOOLEAN
  PROVE  Flow!DeveloperResults \subseteq [text : Flow!Texts, files : BOOLEAN]
<1>1. ASSUME NEW text \in Flow!Texts, NEW files \in BOOLEAN
      PROVE  Flow!Gated(text, files) \subseteq [text : Flow!Texts, files : BOOLEAN]
  <2> SUFFICES ASSUME NEW made \in Flow!Gated(text, files)
               PROVE  made \in [text : Flow!Texts, files : BOOLEAN]
    OBVIOUS
  <2>1. \/ made = [text |-> text, files |-> files]
        \/ made = [text |-> "good", files |-> TRUE]
        \/ made \in [text : Flow!Texts, files : BOOLEAN]
    BY DEF Flow!Gated
  <2>2. "good" \in Flow!Texts
    BY DEF Flow!Texts
  <2>3. [text |-> text, files |-> files] \in [text : Flow!Texts, files : BOOLEAN]
    BY <1>1, Zenon
  <2>4. [text |-> "good", files |-> TRUE] \in [text : Flow!Texts, files : BOOLEAN]
    BY <2>2
  <2> QED
    BY <2>1, <2>3, <2>4
<1>2. UNION {Flow!Repaired(t) : t \in UNION {Flow!Retried(s) : s \in Flow!Texts}} \subseteq Flow!Texts
  BY DEF Flow!Repaired, Flow!Retried, Flow!Texts
<1>3. ASSUME NEW wrote \in BOOLEAN PROVE (artifacts \/ wrote) \in BOOLEAN
  BY Zenon
<1>4. ASSUME NEW made \in Flow!DeveloperResults
      PROVE  made \in [text : Flow!Texts, files : BOOLEAN]
  <2>1. PICK text \in UNION {Flow!Repaired(t) : t \in UNION {Flow!Retried(s) : s \in Flow!Texts}},
             wrote \in BOOLEAN : made \in Flow!Gated(text, artifacts \/ wrote)
    BY DEF Flow!DeveloperResults
  <2> QED
    BY <1>1, <1>2, <1>3, <2>1
<1> QED
  BY <1>4

LEMMA TasksUpdated ==
  ASSUME NEW f \in [Flow!Tasks -> Flow!Statuses], NEW t \in Flow!Tasks, NEW u \in Flow!Tasks,
         NEW a \in Flow!Statuses, NEW b \in Flow!Statuses
  PROVE  [f EXCEPT ![t] = a, ![u] = b] \in [Flow!Tasks -> Flow!Statuses]
OBVIOUS

LEMMA InputUpdated ==
  ASSUME NEW m \in Flow!Metadata, NEW i \in BOOLEAN, NEW c \in 0..MaxQuestions,
         NEW q \in 0..MaxQuestions
  PROVE  /\ [m EXCEPT !.ids = i] \in Flow!Metadata
         /\ [m EXCEPT !.checkpoint = c, !.question = q] \in Flow!Metadata
BY DEF Flow!Metadata

LEMMA LatestStored ==
  ASSUME saved \subseteq 1..MaxQuestions, saved # {}
  PROVE  Flow!Latest \in saved /\ \A k \in saved : Flow!Latest >= k
<1>1. saved \subseteq 0..MaxQuestions
  BY QuestionsBounded
<1>2. \E n \in saved : \A k \in saved : n >= k
  BY <1>1, QuestionsBounded, GreatestNumber
<1> QED
  BY <1>2 DEF Flow!Latest, Flow!Max

\* Every variable of a workflow keeps its type.
LEMMA FlowTypes ==
  ASSUME FlowInv, Flow!Next
  PROVE  Flow!TypeOK'
<1> USE QuestionsBounded, TextsReturned DEF FlowInv, Flow!TypeOK, Flow!Tasks, Flow!Statuses,
        Flow!Stages, Flow!Idle, Flow!Goto, Flow!Raise, Flow!request, Flow!history
<1>1. ASSUME Flow!Begin PROVE Flow!TypeOK'
  <2>1. tasks' \in [Flow!Tasks -> Flow!Statuses]
    BY <1>1, TasksUpdated DEF Flow!Begin
  <2> QED
    BY <1>1, <2>1 DEF Flow!Begin
<1>2. ASSUME Flow!WriteBrief PROVE Flow!TypeOK'
  <2>1. (kind = "software" /\ ~runner) \in BOOLEAN
    BY Zenon
  <2>2. input' \in Flow!Metadata
    BY <1>2, <2>1, InputUpdated, Zenon DEF Flow!WriteBrief
  <2> QED
    BY <1>2, <2>2 DEF Flow!WriteBrief
<1>3. ASSUME NEW text \in Flow!Results, NEW report \in Flow!Results, Flow!Relay(text,
          report) PROVE Flow!TypeOK'
  BY <1>3 DEF Flow!Relay
<1>4. ASSUME Flow!TakeUp PROVE Flow!TypeOK'
  BY <1>4 DEF Flow!TakeUp
<1>5. ASSUME NEW written \in BOOLEAN, Flow!Ask(written) PROVE Flow!TypeOK'
  BY <1>5 DEF Flow!Ask
<1>6. ASSUME Flow!Proceed PROVE Flow!TypeOK'
  <2>1. input' \in Flow!Metadata
    <3>1. row \in Flow!Metadata /\ 0 \in 0..MaxQuestions
      OBVIOUS
    <3>2. input' = [row EXCEPT !.checkpoint = 0, !.question = 0]
      BY <1>6 DEF Flow!Proceed, Flow!Answered
    <3> QED
      BY <3>1, <3>2, InputUpdated
  <2> QED
    BY <1>6, <2>1 DEF Flow!Proceed
<1>7. ASSUME NEW made \in Flow!DeveloperResults, Flow!Develop(made) PROVE Flow!TypeOK'
  <2>1. made.text \in Flow!Texts /\ made.files \in BOOLEAN
    BY ResultsReturned
  <2>2. artifacts' \in BOOLEAN
    BY <1>7, <2>1 DEF Flow!Develop
  <2>3. handed' \in Flow!Texts \cup {"none"}
    BY <1>7, <2>1 DEF Flow!Develop
  <2>4. tasks' \in [Flow!Tasks -> Flow!Statuses]
    BY <1>7 DEF Flow!Develop
  <2> QED
    BY <1>7, <2>2, <2>3, <2>4 DEF Flow!Develop
<1>8. ASSUME NEW text \in Flow!Results, Flow!Research(text) PROVE Flow!TypeOK'
  BY <1>8 DEF Flow!Research
<1>9. ASSUME NEW text \in Flow!Results, Flow!Report(text) PROVE Flow!TypeOK'
  BY <1>9 DEF Flow!Report
<1>10. ASSUME Flow!TakeHandoff PROVE Flow!TypeOK'
  BY <1>10 DEF Flow!TakeHandoff
<1>11. ASSUME Flow!Review PROVE Flow!TypeOK'
  <2>1. tasks' \in [Flow!Tasks -> Flow!Statuses]
    BY ZenonT(60), <1>11, TasksUpdated DEF Flow!Review
  <2> QED
    BY <1>11, <2>1 DEF Flow!Review
<1>12. ASSUME Flow!StoreQuestion PROVE Flow!TypeOK'
  <2>1. input' \in Flow!Metadata
    <3>1. CASE saved = {}
      BY <1>12, <3>1 DEF Flow!StoreQuestion
    <3>2. CASE saved # {}
      <4>1. Flow!Latest \in 0..MaxQuestions
        <5>1. \A n \in 1..MaxQuestions : n \in 0..MaxQuestions
          OBVIOUS
        <5> QED
          BY <3>2, <5>1, LatestStored
      <4> QED
        <5>1. input' = [input EXCEPT !.checkpoint = Flow!Latest, !.question = questions]
          BY <1>12, <3>2 DEF Flow!StoreQuestion
        <5>2. input \in Flow!Metadata /\ questions \in 0..MaxQuestions
          OBVIOUS
        <5> QED
          BY <4>1, <5>1, <5>2, InputUpdated
    <3> QED
      BY <3>1, <3>2
  <2> QED
    BY <1>12, <2>1 DEF Flow!StoreQuestion
<1>13. ASSUME Flow!MarkWaiting PROVE Flow!TypeOK'
  <2>1. tasks' \in [Flow!Tasks -> Flow!Statuses]
    BY ZenonT(60), <1>13, TasksUpdated DEF Flow!MarkWaiting
  <2> QED
    BY <1>13, <2>1 DEF Flow!MarkWaiting
<1>14. ASSUME Flow!RecordFirstRun PROVE Flow!TypeOK'
  BY <1>14 DEF Flow!RecordFirstRun
<1>15. ASSUME Flow!Resume PROVE Flow!TypeOK'
  BY <1>15 DEF Flow!Resume
<1>16. ASSUME Flow!LoadCheckpoint PROVE Flow!TypeOK'
  BY <1>16 DEF Flow!LoadCheckpoint
<1>17. ASSUME Flow!StageFails PROVE Flow!TypeOK'
  BY <1>17 DEF Flow!StageFails
<1>18. ASSUME Flow!SettleFailure PROVE Flow!TypeOK'
  <2>1. tasks' = Flow!Settled /\ stage' = "over"
        /\ UNCHANGED <<kind, runner, clone, raised, resumed, input, row, saved, questions,
                       handed, artifacts, deleting, lost, crossed>>
    BY <1>18 DEF Flow!SettleFailure
  <2>2. Flow!Settled \in [Flow!Tasks -> Flow!Statuses]
    BY DEF Flow!Settled
  <2> QED
    BY <2>1, <2>2
<1>19. ASSUME NEW t \in Flow!Tasks, Flow!Cancel(t) PROVE Flow!TypeOK'
  BY <1>19 DEF Flow!Cancel
<1>20. ASSUME Flow!DeleteCheckpoint PROVE Flow!TypeOK'
  <2>1. saved' \subseteq 1..MaxQuestions
    BY <1>20 DEF Flow!DeleteCheckpoint
  <2>2. crossed' \in BOOLEAN
    BY <1>20, Zenon DEF Flow!DeleteCheckpoint
  <2>3. /\ deleting' = FALSE
        /\ UNCHANGED <<kind, runner, clone, tasks, stage, raised, resumed, input, row, questions,
                       handed, artifacts, lost>>
    BY <1>20 DEF Flow!DeleteCheckpoint
  <2> QED
    <3>1. deleting' \in BOOLEAN /\ lost' \in BOOLEAN
      BY <2>3
    <3>2. tasks' \in [Flow!Tasks -> Flow!Statuses] /\ stage' \in Flow!Stages
      BY <2>3
    <3>3. input' \in Flow!Metadata /\ row' \in Flow!Metadata
      BY <2>3
    <3> QED
      BY <2>1, <2>2, <2>3, <3>1, <3>2, <3>3
<1>21. ASSUME Flow!EndWithoutReport PROVE Flow!TypeOK'
  <2>1. tasks' \in [Flow!Tasks -> Flow!Statuses]
    <3>1. CASE resumed
      <4>1. tasks' = [tasks EXCEPT !["specialist"] = "failed", !["manager"] = "failed"]
        BY <1>21, <3>1 DEF Flow!EndWithoutReport
      <4>2. /\ "specialist" \in Flow!Tasks /\ "manager" \in Flow!Tasks
            /\ "failed" \in Flow!Statuses
        BY DEF Flow!Tasks, Flow!Statuses
      <4> QED
        BY <4>1, <4>2, TasksUpdated
    <3>2. CASE ~resumed
      BY <1>21, <3>2 DEF Flow!EndWithoutReport
    <3> QED
      BY <3>1, <3>2
  <2> QED
    BY <1>21, <2>1 DEF Flow!EndWithoutReport
<1> QED
  BY <1>1, <1>2, <1>3, <1>4, <1>5, <1>6, <1>7, <1>8, <1>9, <1>10, <1>11, <1>12, <1>13, <1>14,
     <1>15, <1>16, <1>17, <1>18, <1>19, <1>20, <1>21 DEF Flow!Next

LEMMA FlowBegin ==
  ASSUME FlowInv, Flow!Begin
  PROVE  HandoffInv' /\ SettleInv' /\ WaitInv'
<1>1. /\ UNCHANGED <<kind, runner, clone, Specialist, raised, resumed, input, row, saved,
         questions, handed, artifacts, deleting, lost, crossed>>
      /\ First' = "in_progress"
      /\ Second' = "blocked"
      /\ stage' = "brief"
      /\ stage = "new"
  BY DEF Flow!Begin, Flow!request, Flow!history, Flow!Goto, Flow!Raise, First, Second,
     Specialist, FlowInv, Flow!TypeOK, Flow!Tasks
<1> QED
  BY <1>1 DEF FlowInv, HandoffInv, SettleInv, WaitInv, Good

LEMMA FlowWriteBrief ==
  ASSUME FlowInv, Flow!WriteBrief
  PROVE  HandoffInv' /\ SettleInv' /\ WaitInv'
<1>1. /\ UNCHANGED <<kind, runner, clone, First, Second, Specialist, raised, resumed, row,
         saved, questions, handed, artifacts, deleting, lost, crossed>>
      /\ stage' = (IF runner THEN "relay" ELSE IF kind = "software" THEN "developer" ELSE "research")
      /\ stage = "brief"
  BY DEF Flow!WriteBrief, Flow!request, Flow!history, First, Second, Specialist
<1>2. kind = "software" /\ ~runner => input'.ids
  BY DEF Flow!WriteBrief, FlowInv, Flow!TypeOK, Flow!Metadata
<1> QED
  BY <1>1, <1>2 DEF FlowInv, HandoffInv, SettleInv, WaitInv, Good

LEMMA FlowTakeUp ==
  ASSUME FlowInv, Flow!TakeUp
  PROVE  HandoffInv' /\ SettleInv' /\ WaitInv'
<1>1. /\ UNCHANGED <<kind, runner, clone, Second, Specialist, raised, resumed, input, saved,
         questions, handed, artifacts, deleting, lost, crossed>>
      /\ stage' = "deciding"
      /\ row' = input
      /\ First' = (IF First = "waiting_input" THEN "in_progress" ELSE First)
      /\ stage = "developer"
  BY DEF Flow!TakeUp, Flow!request, Flow!history, Flow!Goto, Flow!Raise, First, Second,
     Specialist, FlowInv, Flow!TypeOK, Flow!Tasks
<1> QED
  BY <1>1 DEF FlowInv, HandoffInv, SettleInv, WaitInv, Good

LEMMA FlowAsk ==
  ASSUME FlowInv, NEW written \in BOOLEAN, Flow!Ask(written)
  PROVE  HandoffInv' /\ SettleInv' /\ WaitInv'
<1>1. /\ UNCHANGED <<kind, runner, clone, Second, Specialist, raised, resumed, row, handed,
         artifacts, deleting, crossed>>
      /\ stage' = "asked"
      /\ First' = "waiting_input"
      /\ input' = row
      /\ questions' = (questions + 1)
      /\ stage = "deciding"
      /\ saved' = saved \cup {questions'} \/ (saved' = saved /\ lost')
      /\ lost => lost'
  BY DEF Flow!Ask, Flow!request, Flow!history, Flow!Goto, Flow!Raise, First, Second,
     Specialist, FlowInv, Flow!TypeOK, Flow!Tasks
<1>2. saved \subseteq 1..questions /\ questions \in Nat
  BY QuestionsBounded DEF FlowInv, WaitInv, Flow!TypeOK
<1>3. saved' \subseteq 1..questions'
  <2>1. \A n \in saved : n \in 1..questions'
    BY <1>1, <1>2
  <2>2. questions' \in 1..questions'
    BY <1>1, <1>2
  <2> QED
    BY <1>1, <2>1, <2>2
<1>4. HandoffInv' /\ SettleInv'
  BY <1>1 DEF FlowInv, HandoffInv, SettleInv, Good
<1>5. WaitInv'
  BY <1>1, <1>3 DEF FlowInv, WaitInv
<1> QED
  BY <1>4, <1>5

LEMMA FlowProceed ==
  ASSUME FlowInv, Flow!Proceed
  PROVE  HandoffInv' /\ SettleInv' /\ WaitInv'
<1>1. /\ UNCHANGED <<kind, runner, clone, First, Second, Specialist, raised, resumed, row,
         saved, questions, handed, artifacts, deleting, lost, crossed>>
      /\ stage' = "working"
      /\ input' = Flow!Answered(row)
      /\ stage = "deciding"
  BY DEF Flow!Proceed, Flow!request, Flow!history, Flow!Goto, Flow!Raise, First, Second,
     Specialist, FlowInv, Flow!TypeOK, Flow!Tasks
<1> QED
  BY <1>1 DEF FlowInv, HandoffInv, SettleInv, WaitInv, Good, Flow!Answered

LEMMA FlowTakeHandoff ==
  ASSUME FlowInv, Flow!TakeHandoff
  PROVE  HandoffInv' /\ SettleInv' /\ WaitInv'
<1>1. /\ UNCHANGED <<kind, runner, clone, First, Specialist, raised, resumed, input, row,
         saved, questions, handed, artifacts, deleting, lost, crossed>>
      /\ stage' = "second"
      /\ Second' = "in_progress"
      /\ stage = "handoff"
  BY DEF Flow!TakeHandoff, Flow!request, Flow!history, Flow!Goto, Flow!Raise, First, Second,
     Specialist, FlowInv, Flow!TypeOK, Flow!Tasks
<1> QED
  BY <1>1 DEF FlowInv, HandoffInv, SettleInv, WaitInv, Good

LEMMA FlowEndsWithoutReport ==
  ASSUME FlowInv, Flow!EndWithoutReport
  PROVE  HandoffInv' /\ SettleInv' /\ WaitInv'
<1>1. /\ UNCHANGED <<kind, runner, clone, First, Second, resumed, input, row, saved,
         questions, handed, artifacts, deleting, lost, crossed>>
      /\ stage = "handoff" /\ kind = "software"
      /\ \/ resumed /\ stage' = "over" /\ Specialist' = "failed" /\ raised' = raised
         \/ ~resumed /\ stage' = "raised" /\ raised' = "handoff" /\ Specialist' = Specialist
  BY DEF Flow!EndWithoutReport, Flow!request, Flow!history, Flow!Raise, First, Second,
     Specialist, FlowInv, Flow!TypeOK, Flow!Tasks
<1> QED
  BY <1>1 DEF FlowInv, HandoffInv, SettleInv, WaitInv, Good

LEMMA FlowReview ==
  ASSUME FlowInv, Flow!Review
  PROVE  HandoffInv' /\ SettleInv' /\ WaitInv'
<1>1. /\ UNCHANGED <<kind, runner, clone, First, Second, raised, resumed, input, row, saved,
         questions, handed, artifacts, deleting, lost, crossed>>
      /\ stage' = "over"
      /\ Specialist' = "done"
      /\ stage = "review"
  BY DEF Flow!Review, Flow!request, Flow!history, Flow!Goto, Flow!Raise, First, Second,
     Specialist, FlowInv, Flow!TypeOK, Flow!Tasks
<1> QED
  BY <1>1 DEF FlowInv, HandoffInv, SettleInv, WaitInv, Good

LEMMA FlowMarkWaiting ==
  ASSUME FlowInv, Flow!MarkWaiting
  PROVE  HandoffInv' /\ SettleInv' /\ WaitInv'
<1>1. /\ UNCHANGED <<kind, runner, clone, First, Second, raised, resumed, input, row, saved,
         questions, handed, artifacts, deleting, lost, crossed>>
      /\ stage' = "over"
      /\ Specialist' = "waiting_input"
      /\ stage = "stored"
  BY DEF Flow!MarkWaiting, Flow!request, Flow!history, Flow!Goto, Flow!Raise, First, Second,
     Specialist, FlowInv, Flow!TypeOK, Flow!Tasks
<1> QED
  BY <1>1 DEF FlowInv, HandoffInv, SettleInv, WaitInv, Good

LEMMA FlowRecordFirstRun ==
  ASSUME FlowInv, Flow!RecordFirstRun
  PROVE  HandoffInv' /\ SettleInv' /\ WaitInv'
<1>1. /\ UNCHANGED <<kind, runner, clone, First, Second, Specialist, stage, raised, resumed,
         input, row, saved, questions, handed, artifacts, deleting, lost, crossed>>
      /\ stage = "over"
  BY DEF Flow!RecordFirstRun, Flow!request, Flow!history, Flow!Goto, Flow!Raise, First, Second,
     Specialist, FlowInv, Flow!TypeOK, Flow!Tasks
<1> QED
  BY <1>1 DEF FlowInv, HandoffInv, SettleInv, WaitInv, Good

LEMMA FlowLoadCheckpoint ==
  ASSUME FlowInv, Flow!LoadCheckpoint
  PROVE  HandoffInv' /\ SettleInv' /\ WaitInv'
<1> DEFINE Stored == row.checkpoint \in saved /\ row.checkpoint = row.question
<1>1. /\ UNCHANGED <<kind, runner, clone, First, Second, Specialist, resumed, input, row, saved,
                     questions, handed, artifacts, deleting, lost, crossed>>
      /\ stage = "resuming"
  BY DEF Flow!LoadCheckpoint, Flow!request, Flow!history, First, Second, Specialist
<1>2. CASE Stored
  <2>1. stage' = "developer" /\ raised' = raised
    BY <1>2 DEF Flow!LoadCheckpoint
  <2> QED
    BY <1>1, <2>1 DEF FlowInv, HandoffInv, SettleInv, WaitInv, Good
<1>3. CASE ~Stored
  <2>1. raised' = stage /\ stage' = IF resumed THEN "over" ELSE "raised"
    BY <1>3 DEF Flow!LoadCheckpoint, Flow!Raise
  <2>2. ~crossed /\ ~lost => First # "waiting_input"
    BY <1>1, <1>3 DEF FlowInv, WaitInv
  <2> QED
    BY <1>1, <2>1, <2>2 DEF FlowInv, HandoffInv, SettleInv, WaitInv, Good
<1> QED
  BY <1>2, <1>3

LEMMA FlowCancel ==
  ASSUME FlowInv, NEW t \in Flow!Tasks, Flow!Cancel(t)
  PROVE  HandoffInv' /\ SettleInv' /\ WaitInv'
<1>1. /\ UNCHANGED <<kind, runner, clone, stage, raised, resumed, input, row, saved, questions,
         handed, artifacts, lost>>
      /\ ~deleting /\ stage # "new"
      /\ crossed => crossed'
      /\ stage \notin {"new", "over"} => crossed'
      /\ First' \in {First, "cancelled"} /\ (First' # First => First # "done")
      /\ Second' \in {Second, "cancelled"} /\ (Second' # Second => Second # "done")
      /\ Specialist' \in {Specialist, "cancelled"}
      /\ deleting' => First' = "cancelled"
  BY DEF Flow!Cancel, Flow!request, Flow!history, Flow!Goto, Flow!Raise, First, Second,
     Specialist, FlowInv, Flow!TypeOK, Flow!Tasks, Flow!Above, Flow!Active, Flow!Idle
<1> QED
  BY <1>1 DEF FlowInv, HandoffInv, SettleInv, WaitInv, Good

LEMMA FlowDeleteCheckpoint ==
  ASSUME FlowInv, Flow!DeleteCheckpoint
  PROVE  HandoffInv' /\ SettleInv' /\ WaitInv'
<1>1. /\ UNCHANGED <<kind, runner, clone, First, Second, Specialist, stage, raised, resumed,
         input, row, questions, handed, artifacts, lost>>
      /\ deleting' = FALSE
      /\ saved' = (saved \ {input.checkpoint})
      /\ deleting
      /\ crossed => crossed'
  BY DEF Flow!DeleteCheckpoint, Flow!request, Flow!history, Flow!Goto, Flow!Raise, First,
     Second, Specialist, FlowInv, Flow!TypeOK, Flow!Tasks
<1>2. HandoffInv'
  BY <1>1 DEF FlowInv, HandoffInv, Good
<1>3. SettleInv'
  BY <1>1 DEF FlowInv, SettleInv
<1>4. WaitInv'
  <2>1. saved' \subseteq 1..questions'
    BY <1>1 DEF FlowInv, WaitInv
  <2>2. ~crossed' => stage \in {"new", "over"} /\ First = "cancelled"
    BY <1>1 DEF Flow!DeleteCheckpoint, Flow!Idle, FlowInv, WaitInv
  <2> QED
    BY <1>1, <2>1, <2>2 DEF FlowInv, WaitInv
<1> QED
  BY <1>2, <1>3, <1>4

\* A worker that hands over has made a result that can be used.
LEMMA FlowHandsOver ==
  ASSUME FlowInv,
         \/ \E text \in Flow!Results, report \in Flow!Results : Flow!Relay(text, report)
         \/ \E made \in Flow!DeveloperResults : Flow!Develop(made)
         \/ \E text \in Flow!Results : Flow!Research(text)
  PROVE  HandoffInv' /\ SettleInv' /\ WaitInv'
<1>1. /\ UNCHANGED <<kind, runner, clone, Second, Specialist, resumed, input, row, saved,
                     questions, deleting, lost, crossed>>
      /\ stage \in {"relay", "working", "research"}
  BY DEF Flow!Relay, Flow!Develop, Flow!Research, Flow!request, Flow!history, Second, Specialist,
     FlowInv, Flow!TypeOK, Flow!Tasks
<1>2. ~crossed /\ ~lost => First # "waiting_input"
  BY <1>1 DEF FlowInv, WaitInv
<1>3. First # "done"
  BY <1>1 DEF FlowInv, HandoffInv
<1> DEFINE Hands == stage' = "handoff" /\ First' = "done" /\ Good' /\ raised' = raised
           Raises == /\ raised' = stage /\ stage' = (IF resumed THEN "over" ELSE "raised")
                     /\ First' = First /\ handed' = handed
<1>4. Hands \/ Raises
  <2>1. ASSUME NEW text \in Flow!Results, NEW report \in Flow!Results, Flow!Relay(text, report)
        PROVE  Hands \/ Raises
    <3>1. runner /\ runner' = runner /\ text # "none"
      BY <1>1, <2>1, TextsReturned DEF FlowInv, HandoffInv, Flow!Relay, Flow!Texts
    <3> QED
      <4>1. CASE {text, report} \cap Flow!Invalid = {}
        <5>1. text \notin Flow!Invalid
          BY <4>1
        <5>2. stage' = "handoff" /\ First' = "done" /\ handed' = text /\ raised' = raised
          BY <2>1, <4>1 DEF Flow!Relay, First, FlowInv, Flow!TypeOK, Flow!Tasks
        <5> QED
          BY <3>1, <5>1, <5>2 DEF Good
      <4>2. CASE {text, report} \cap Flow!Invalid # {}
        BY <2>1, <4>2 DEF Flow!Relay, Flow!Raise, First
      <4> QED
        BY <4>1, <4>2
  <2>2. ASSUME NEW made \in Flow!DeveloperResults, Flow!Develop(made) PROVE Hands \/ Raises
    <3>1. made.text # "none"
      BY ResultsReturned DEF Flow!Texts, FlowInv, Flow!TypeOK
    <3> QED
      BY <1>1, <2>2, <3>1 DEF Flow!Develop, Flow!Usable, Flow!Raise, Flow!Invalid, Good, First,
         FlowInv, Flow!TypeOK, Flow!Tasks
  <2>3. ASSUME NEW text \in Flow!Results, Flow!Research(text) PROVE Hands \/ Raises
    <3>1. kind # "software" /\ kind' = kind /\ text # "none"
      BY <2>3, TextsReturned DEF FlowInv, HandoffInv, Flow!Research, Flow!Texts, Flow!request
    <3> QED
      BY <2>3, <3>1 DEF Flow!Research, Flow!Raise, Flow!Invalid, Good, First, FlowInv,
         Flow!TypeOK, Flow!Tasks
  <2> QED
    BY <1>3, <2>1, <2>2, <2>3
<1> HIDE DEF Hands, Raises
<1>5. CASE Hands
  BY <1>1, <1>2, <1>3, <1>5 DEF Hands, FlowInv, HandoffInv, SettleInv, WaitInv
<1>6. CASE Raises
  BY <1>1, <1>2, <1>3, <1>6 DEF Raises, FlowInv, HandoffInv, SettleInv, WaitInv
<1> QED
  BY <1>4, <1>5, <1>6

LEMMA FlowReport ==
  ASSUME FlowInv, NEW text \in Flow!Results, Flow!Report(text)
  PROVE  HandoffInv' /\ SettleInv' /\ WaitInv'
<1>1. /\ UNCHANGED <<kind, runner, clone, First, Specialist, resumed, input, row, saved,
                     questions, handed, artifacts, deleting, lost, crossed>>
      /\ stage = "second"
      /\ \/ stage' = "review" /\ Second' = "done" /\ raised' = raised
         \/ /\ raised' = stage /\ stage' = IF resumed THEN "over" ELSE "raised"
            /\ Second' = Second
  BY DEF Flow!Report, Flow!Raise, Flow!request, Flow!history, First, Second, Specialist, FlowInv,
     Flow!TypeOK, Flow!Tasks
<1> QED
  BY <1>1 DEF FlowInv, HandoffInv, SettleInv, WaitInv, Good

\* The newest checkpoint is the one of the question asked last.
LEMMA FlowStoreQuestion ==
  ASSUME FlowInv, Flow!StoreQuestion
  PROVE  HandoffInv' /\ SettleInv' /\ WaitInv'
<1>1. /\ UNCHANGED <<kind, runner, clone, First, Second, Specialist, resumed, row, saved,
                     questions, handed, artifacts, deleting, lost, crossed>>
      /\ stage = "asked"
  BY DEF Flow!StoreQuestion, Flow!request, Flow!history, First, Second, Specialist
<1>2. CASE saved = {}
  <2>1. /\ raised' = stage /\ stage' = (IF resumed THEN "over" ELSE "raised") /\ input' = input
    BY <1>2 DEF Flow!StoreQuestion, Flow!Raise
  <2>2. ~crossed /\ ~lost => First # "waiting_input"
    BY <1>2 DEF FlowInv, WaitInv
  <2> QED
    BY <1>1, <2>1, <2>2 DEF FlowInv, HandoffInv, SettleInv, WaitInv, Good
<1>3. CASE saved # {}
  <2>1. /\ raised' = raised /\ stage' = "stored"
        /\ input'.checkpoint = Flow!Latest /\ input'.question = questions
        /\ input'.ids = input.ids
    BY <1>3 DEF Flow!StoreQuestion, FlowInv, Flow!TypeOK, Flow!Metadata
  <2>2. questions \in saved => Flow!Latest = questions
    <3>1. Flow!Latest \in saved /\ \A k \in saved : Flow!Latest >= k
      BY <1>3, LatestStored DEF FlowInv, Flow!TypeOK
    <3>2. saved \subseteq 1..questions /\ questions \in Nat
      BY QuestionsBounded DEF FlowInv, WaitInv, Flow!TypeOK
    <3> QED
      BY <3>1, <3>2
  <2> QED
    BY <1>1, <2>1, <2>2 DEF FlowInv, HandoffInv, SettleInv, WaitInv, Good
<1> QED
  BY <1>2, <1>3

LEMMA FlowResume ==
  ASSUME FlowInv, Flow!Resume
  PROVE  HandoffInv' /\ SettleInv' /\ WaitInv'
<1>1. /\ UNCHANGED <<kind, runner, clone, First, Second, raised, input, saved,
                     questions, handed, artifacts, deleting, lost, crossed>>
      /\ stage = "over" /\ stage' = "resuming"
      /\ row' = input /\ input.ids /\ First = "waiting_input"
  BY DEF Flow!Resume, Flow!Resumable, Flow!request, Flow!history, First, Second, FlowInv,
     Flow!TypeOK, Flow!Tasks
<1> QED
  BY <1>1 DEF FlowInv, HandoffInv, SettleInv, WaitInv, Good

LEMMA FlowStageFails ==
  ASSUME FlowInv, Flow!StageFails
  PROVE  HandoffInv' /\ SettleInv' /\ WaitInv'
<1>1. /\ UNCHANGED <<kind, runner, clone, First, Second, Specialist, resumed, input, row, saved,
                     questions, handed, artifacts, deleting, lost, crossed>>
      /\ stage \in {"brief", "relay", "deciding", "working", "research", "second", "review"}
      /\ raised' = stage /\ stage' = IF resumed THEN "over" ELSE "raised"
  BY DEF Flow!StageFails, Flow!Raise, Flow!request, Flow!history, First, Second, Specialist
<1> QED
  BY <1>1 DEF FlowInv, HandoffInv, SettleInv, WaitInv, Good

\* The handler settles every worker the exception has left in progress.
LEMMA FlowSettles ==
  ASSUME FlowInv, Flow!SettleFailure
  PROVE  HandoffInv' /\ SettleInv' /\ WaitInv'
<1>1. /\ UNCHANGED <<kind, runner, clone, raised, resumed, input, row, saved,
                     questions, handed, artifacts, deleting, lost, crossed>>
      /\ stage = "raised" /\ stage' = "over"
  BY DEF Flow!SettleFailure, Flow!Goto, Flow!request, Flow!history
<1>2. /\ First' = IF ~Flow!FirstDone /\ (kind = "information" \/ First = "in_progress")
                  THEN "failed" ELSE First
      /\ Second' = IF Flow!FirstDone /\ Flow!SecondOpen THEN "failed" ELSE Second
      /\ Specialist' = "failed"
  BY DEF Flow!SettleFailure, Flow!Settled, First, Second, Specialist, FlowInv, Flow!TypeOK,
     Flow!Tasks
<1>3. First = "done" => Flow!FirstDone
  BY <1>1 DEF Flow!FirstDone, First, FlowInv, HandoffInv
<1>4. First' \in {"failed", First} /\ (First = "done" => First' = "done")
  BY <1>2, <1>3
<1>5. Second' \in {"failed", Second}
  BY <1>2
<1>6. First' # "in_progress" /\ Second' # "in_progress"
  BY <1>1, <1>2 DEF Flow!FirstDone, Flow!SecondOpen, First, Second, FlowInv, HandoffInv,
     SettleInv,
     Flow!TypeOK
<1> QED
  BY <1>1, <1>2, <1>4, <1>5, <1>6 DEF FlowInv, HandoffInv, SettleInv, WaitInv, Good

LEMMA FlowInit == Init => FlowInv
<1> SUFFICES ASSUME Init PROVE FlowInv
  OBVIOUS
<1>1. /\ kind \in Flow!Routes /\ runner \in BOOLEAN /\ clone \in BOOLEAN /\ artifacts \in BOOLEAN
      /\ tasks = [t \in Flow!Tasks |-> IF t \in {"manager", "specialist"} THEN "in_progress"
                                                                          ELSE "none"]
      /\ stage = "new" /\ raised = "new" /\ resumed = FALSE
      /\ input = [ids |-> FALSE, checkpoint |-> 0, question |-> 0] /\ row = input
      /\ saved = {} /\ questions = 0 /\ handed = "none"
      /\ deleting = FALSE /\ lost = FALSE /\ crossed = FALSE
  BY DEF Init, Flow!Init
<1>2. kind \in {"software", "information"}
  BY <1>1 DEF Flow!Routes, Flow!Route
<1>3. input \in Flow!Metadata /\ row \in Flow!Metadata
  BY <1>1, QuestionsBounded DEF Flow!Metadata
<1>4. tasks \in [Flow!Tasks -> Flow!Statuses]
  BY <1>1 DEF Flow!Tasks, Flow!Statuses
<1>5. Flow!TypeOK
  <2>1. raised \in Flow!Stages /\ stage \in Flow!Stages /\ questions \in 0..MaxQuestions
    BY <1>1, QuestionsBounded DEF Flow!Stages, Flow!Idle
  <2> QED
    BY <1>1, <1>2, <1>3, <1>4, <2>1 DEF Flow!TypeOK
<1>6. First = "none" /\ Second = "none"
  BY <1>1 DEF First, Second, Flow!Tasks
<1> QED
  BY <1>1, <1>5, <1>6 DEF FlowInv, HandoffInv, SettleInv, WaitInv

LEMMA FlowAlways == Spec => []FlowInv
<1>1. Init => FlowInv
  BY FlowInit
<1>2. FlowInv /\ Flow!Next => HandoffInv' /\ SettleInv' /\ WaitInv'
  BY FlowBegin, FlowWriteBrief, FlowTakeUp, FlowAsk, FlowProceed, FlowHandsOver, FlowReport,
     FlowTakeHandoff, FlowEndsWithoutReport, FlowReview, FlowStoreQuestion, FlowMarkWaiting, FlowRecordFirstRun,
     FlowResume, FlowLoadCheckpoint, FlowStageFails, FlowSettles, FlowCancel,
     FlowDeleteCheckpoint DEF Flow!Next
<1>3. FlowInv /\ Flow!Next => FlowInv'
  BY <1>2, FlowTypes DEF FlowInv
<1>4. FlowInv /\ UNCHANGED flowVars => FlowInv'
  BY DEF flowVars, FlowInv, Flow!TypeOK, HandoffInv, SettleInv, WaitInv, Good, First, Second,
     Specialist
<1>5. FlowInv /\ [Next]_allVars => FlowInv'
  BY <1>3, <1>4 DEF Next, allVars
<1> QED
  BY <1>1, <1>5, PTL DEF Spec, allVars

\* Through any number of questions, and whatever fails or is cancelled, no second
\* worker works on a result its first one did not complete, or that is not usable.
THEOREM ResultsPrecede == Spec => []HandoffFirst
<1>1. FlowInv => HandoffFirst
  BY DEF FlowInv, HandoffInv, Good, First, Second, HandoffFirst, Flow!HandoffFirst
<1> QED
  BY <1>1, FlowAlways, PTL

\* A developer task that waits is the one its newest checkpoint is for, after any
\* number of questions, unless that checkpoint could not be written or a cancellation
\* met the call.
THEOREM QuestionsResume == Spec => []WaitingIsResumable
<1>1. FlowInv => WaitingIsResumable
  BY DEF FlowInv, WaitInv, First, Specialist, WaitingIsResumable, Flow!WaitingIsResumable
<1> QED
  BY <1>1, FlowAlways, PTL

\* Whichever stage a first run fails at, and whatever is cancelled on the way, its
\* handler leaves no worker in progress.
THEOREM RunsSettle == Spec => []FirstRunSettles
<1>1. FlowInv => FirstRunSettles
  BY DEF FlowInv, SettleInv, First, Second, Specialist, FirstRunSettles, Flow!FirstRunSettles,
     Flow!Tasks
<1> QED
  BY <1>1, FlowAlways, PTL
-----------------------------------------------------------------------------
(* AIR proxy traces: what a summary waits for, and what is reported *)

\* Where a list of records, and a list of such lists, mention a request.
PlacesIn(records, r) == {i \in DOMAIN records : records[i].of = r}
MentionsIn(lists, r) == UNION {{i} \X PlacesIn(lists[i], r) : i \in DOMAIN lists}

RecordsOf(s) == IF s = NoSummary THEN <<>> ELSE s.records
Places(t, r) == PlacesIn(RecordsOf(summary[t]), r)
Mentions(t, r) == MentionsIn(reports[t], r)

Live == {"sent", "streaming", "abandoned"}

\* A summary that is kept waits for a request that is still to end.
KeptInv == \A t \in Traces : summary[t] # NoSummary => summary[t].active # {}

\* A new request is recorded nowhere, a live one once in the summary, one that is
\* done once in the summary or once in a report.
Listed(t, r) ==
    /\ pc[r] = "new" => Places(t, r) = {} /\ Mentions(t, r) = {}
    /\ pc[r] \in Live => Mentions(t, r) = {} /\ \E i : Places(t, r) = {i}
    /\ pc[r] = "done" => \/ Mentions(t, r) = {} /\ \E i : Places(t, r) = {i}
                         \/ Places(t, r) = {} /\ \E p : Mentions(t, r) = {p}

\* Live requests have numbers of their own, which the summary waits for.
Awaited(t, r) ==
    pc[r] \in Live => /\ summary[t] # NoSummary
                      /\ number[r] \in summary[t].active
                      /\ number[r] < summary[t].next
                      /\ \A q \in Trace!Of(t) \ {r} : pc[q] \in Live => number[q] # number[r]

RegularInv == \A t \in Traces : Trace!Regular(t) =>
    \A r \in Trace!Of(t) : pc[r] # "numbered" /\ Listed(t, r) /\ Awaited(t, r)

TraceInv == Trace!TypeOK /\ Trace!WaitsForTheLiving /\ KeptInv /\ RegularInv

LEMMA TraceAssumed == Late \subseteq Requests /\ NoSummary \notin Trace!Summary
BY AgentsAssumption DEF Trace!TraceAssumption, Trace!Summary, Trace!Record

LEMMA PlacesAppended ==
  ASSUME NEW records \in Seq(Trace!Record), NEW e \in Trace!Record, NEW r
  PROVE  PlacesIn(Append(records, e), r) =
            IF e.of = r THEN PlacesIn(records, r)
                \cup {Len(records) + 1} ELSE PlacesIn(records, r)
<1>1. /\ DOMAIN Append(records, e) = DOMAIN records \cup {Len(records) + 1}
      /\ Append(records, e)[Len(records) + 1] = e
      /\ \A i \in DOMAIN records : Append(records, e)[i] = records[i]
  BY AppendProperties
<1>2. Len(records) + 1 \notin DOMAIN records
  OBVIOUS
<1> QED
  BY <1>1, <1>2 DEF PlacesIn

LEMMA MentionsAppended ==
  ASSUME NEW lists \in Seq(Seq(Trace!Record)), NEW records \in Seq(Trace!Record), NEW r
  PROVE  MentionsIn(Append(lists, records), r) =
            MentionsIn(lists, r) \cup ({Len(lists) + 1} \X PlacesIn(records, r))
<1> DEFINE n == Len(lists) + 1
<1>1. /\ DOMAIN Append(lists, records) = DOMAIN lists \cup {n}
      /\ Append(lists, records)[n] = records
      /\ \A i \in DOMAIN lists : Append(lists, records)[i] = lists[i]
  BY AppendProperties
<1> DEFINE there == Append(lists, records)
<1> HIDE DEF n, there
<1>2. ASSUME NEW p
      PROVE  p \in MentionsIn(there, r) <=>
                p \in MentionsIn(lists, r) \/ p \in {n} \X PlacesIn(records, r)
  <2>1. p \in MentionsIn(there, r) <=> \E i \in DOMAIN there : p \in {i} \X PlacesIn(there[i], r)
    BY DEF MentionsIn
  <2>2. p \in MentionsIn(lists, r) <=> \E i \in DOMAIN lists : p \in {i} \X PlacesIn(lists[i], r)
    BY DEF MentionsIn
  <2> QED
    BY <1>1, <2>1, <2>2 DEF there
<1> QED
  BY <1>2 DEF n, there

\* An answer changes which request completed a record, not whose it is.
LEMMA AnsweredKeeps ==
  ASSUME NEW records \in Seq(Trace!Record), NEW r \in Requests, NEW n
  PROVE  /\ Trace!Answered(records, r, n) \in Seq(Trace!Record)
         /\ \A q : PlacesIn(Trace!Answered(records, r, n), q) = PlacesIn(records, q)
<1> DEFINE first == {i \in DOMAIN records : /\ records[i].number = n
                                            /\ \A j \in 1..(i-1) : records[j].number # n}
           new == Trace!Answered(records, r, n)
<1>1. new = [i \in DOMAIN records |-> IF i \in first THEN [records[i] EXCEPT !.by = {r}]
                                                     ELSE records[i]]
  BY DEF Trace!Answered
<1>2. DOMAIN records = 1..Len(records) /\ Len(records) \in Nat
  OBVIOUS
<1> HIDE DEF first, new
<1>3. ASSUME NEW i \in DOMAIN records PROVE new[i] \in Trace!Record /\ new[i].of = records[i].of
  <2>1. records[i] \in Trace!Record
    OBVIOUS
  <2>2. [records[i] EXCEPT !.by = {r}] \in Trace!Record
    BY <2>1 DEF Trace!Record
  <2>3. [records[i] EXCEPT !.by = {r}].of = records[i].of
    BY <2>1 DEF Trace!Record
  <2> QED
    BY <1>1, <2>1, <2>2, <2>3
<1>4. new \in Seq(Trace!Record)
  BY <1>1, <1>2, <1>3, IsASeq
<1>5. ASSUME NEW q PROVE PlacesIn(new, q) = PlacesIn(records, q)
  BY <1>1, <1>3 DEF PlacesIn
<1> QED
  BY <1>4, <1>5 DEF new

\* What recording a request makes of a summary.
LEMMA RecordingAppends ==
  ASSUME NEW s \in Trace!Summary \cup {NoSummary}, NEW r \in Requests, NEW n \in Nat
  PROVE  LET v == Trace!Recorded(s, r, n)
             e == [number |-> n, of |-> r, by |-> {}]
         IN  /\ v \in Trace!Summary /\ v # NoSummary
             /\ e \in Trace!Record
             /\ RecordsOf(s) \in Seq(Trace!Record)
             /\ v.records = Append(RecordsOf(s), e)
             /\ v.active = IF s = NoSummary THEN {n} ELSE s.active \cup {n}
             /\ v.next > n
<1> DEFINE e == [number |-> n, of |-> r, by |-> {}]
           v == Trace!Recorded(s, r, n)
<1>1. e \in Trace!Record
  BY DEF Trace!Record
<1>2. CASE s = NoSummary
  <2>1. v = [next |-> n + 1, active |-> {n}, records |-> <<e>>]
    BY <1>2 DEF Trace!Recorded
  <2>2. <<e>> = Append(<<>>, e) /\ <<e>> \in Seq(Trace!Record)
    BY <1>1
  <2> HIDE DEF e, v
  <2>3. v \in Trace!Summary
    BY <2>1, <2>2 DEF Trace!Summary
  <2>4. v # NoSummary
    BY <2>3, TraceAssumed
  <2>5. RecordsOf(s) = <<>> /\ <<>> \in Seq(Trace!Record)
    BY <1>2 DEF RecordsOf
  <2>6. v.records = Append(RecordsOf(s), e) /\ v.active = {n} /\ v.next > n
    BY <2>1, <2>2, <2>5
  <2> QED
    BY <1>1, <1>2, <2>3, <2>4, <2>5, <2>6 DEF e, v
<1>3. CASE s # NoSummary
  <2>1. v = [next    |-> IF s.next > n + 1 THEN s.next ELSE n + 1,
             active  |-> s.active \cup {n},
             records |-> Append(s.records, e)]
    BY <1>3 DEF Trace!Recorded
  <2>2. s.next \in Nat /\ s.active \in SUBSET Nat /\ s.records \in Seq(Trace!Record)
    BY <1>3 DEF Trace!Summary
  <2>3. Append(s.records, e) \in Seq(Trace!Record)
    BY <1>1, <2>2
  <2> HIDE DEF e, v
  <2>4. v \in Trace!Summary
    BY <2>1, <2>2, <2>3 DEF Trace!Summary
  <2>5. v # NoSummary
    BY <2>4, TraceAssumed
  <2>6. RecordsOf(s) = s.records
    BY <1>3 DEF RecordsOf
  <2>7. v.records = Append(RecordsOf(s), e) /\ v.active = s.active \cup {n} /\ v.next > n
    BY <2>1, <2>2, <2>6
  <2> QED
    BY <1>1, <1>3, <2>2, <2>4, <2>5, <2>6, <2>7 DEF e, v
<1> QED
  BY <1>2, <1>3

\* What numbering leaves of a summary.
LEMMA NumberingCounts ==
  ASSUME Trace!TypeOK, NEW t \in Traces
  PROVE  /\ Trace!NextNumber(t) \in Nat
         /\ Trace!Numbered(t) \in Trace!Summary \cup {NoSummary}
         /\ Trace!Numbered(t) = NoSummary <=> summary[t] = NoSummary
         /\ summary[t] # NoSummary =>
               /\ Trace!NextNumber(t) = summary[t].next
               /\ Trace!Numbered(t).active = summary[t].active
               /\ Trace!Numbered(t).records = summary[t].records
<1>1. summary[t] \in Trace!Summary \cup {NoSummary}
  BY DEF Trace!TypeOK
<1>2. CASE summary[t] = NoSummary
  BY <1>2 DEF Trace!NextNumber, Trace!Numbered
<1>3. CASE summary[t] # NoSummary
  <2>1. summary[t] \in Trace!Summary
    BY <1>1, <1>3
  <2>2. Trace!Numbered(t) = [summary[t] EXCEPT !.next = @ + 1]
    BY <1>3 DEF Trace!Numbered
  <2>3. /\ Trace!Numbered(t) \in Trace!Summary
        /\ Trace!Numbered(t).active = summary[t].active
        /\ Trace!Numbered(t).records = summary[t].records
        /\ summary[t].next \in Nat
    BY <2>1, <2>2 DEF Trace!Summary
  <2>4. Trace!Numbered(t) # NoSummary
    BY <2>3, TraceAssumed
  <2>5. Trace!NextNumber(t) = summary[t].next
    BY <1>3 DEF Trace!NextNumber
  <2> QED
    BY <1>3, <2>3, <2>4, <2>5
<1> QED
  BY <1>2, <1>3

\* A completion takes the request's number from the summary, and reports what no
\* request is awaited for.
LEMMA CompletionReports ==
  ASSUME Trace!TypeOK, NEW r \in Requests, Trace!Complete(r), UNCHANGED <<trace, number>>
  PROVE  LET t == trace[r]
             s == summary[t]
             rest == s.active \ {number[r]}
             records == Trace!Answered(s.records, r, number[r])
         IN  /\ \A u \in Traces \ {t} : summary'[u] = summary[u] /\ reports'[u] = reports[u]
             /\ \/ s = NoSummary /\ UNCHANGED <<summary, reports>>
                \/ /\ s # NoSummary /\ rest = {}
                   /\ summary' = [summary EXCEPT ![t] = NoSummary]
                   /\ reports' = [reports EXCEPT ![t] = Append(@, records)]
                \/ /\ s # NoSummary /\ rest # {}
                   /\ summary' = [summary EXCEPT ![t] = [next |-> s.next, active |-> rest,
                                                         records |-> records]]
                   /\ UNCHANGED reports
<1>1. trace[r] \in Traces
  BY DEF Trace!TypeOK
<1>2. DOMAIN summary = Traces /\ DOMAIN reports = Traces
  BY DEF Trace!TypeOK
<1> QED
  BY <1>1, <1>2 DEF Trace!Complete, Trace!StillActive

LEMMA TraceTypes ==
  ASSUME Trace!TypeOK, Trace!Next
  PROVE  Trace!TypeOK'
<1> USE DEF Trace!TypeOK, Trace!InFlight, Trace!Over, Trace!At
<1>1. PICK r \in Requests : Trace!RequestStep(r)
  BY DEF Trace!Next
<1>2. /\ trace[r] \in Traces /\ number[r] \in Nat
      /\ summary[trace[r]] \in Trace!Summary \cup {NoSummary}
  OBVIOUS
<1>3. ASSUME Trace!Number(r) PROVE Trace!TypeOK'
  BY <1>2, <1>3, NumberingCounts DEF Trace!Number
<1>4. ASSUME Trace!ReadBody(r) PROVE Trace!TypeOK'
  <2>1. Trace!Recorded(summary[trace[r]], r, number[r]) \in Trace!Summary
    BY <1>2, RecordingAppends
  <2> QED
    BY <1>2, <1>4, <2>1 DEF Trace!ReadBody
<1>5. ASSUME Trace!Send(r) PROVE Trace!TypeOK'
  <2>1. Trace!NextNumber(trace[r]) \in Nat /\ Trace!Numbered(trace[r]) \in Trace!Summary
            \cup {NoSummary}
    BY <1>2, NumberingCounts
  <2>2. Trace!Recorded(Trace!Numbered(trace[r]), r, Trace!NextNumber(trace[r])) \in Trace!Summary
    BY <2>1, RecordingAppends
  <2> QED
    BY <1>2, <1>5, <2>1, <2>2 DEF Trace!Send
<1>6. ASSUME Trace!Complete(r), UNCHANGED <<trace, number>>
      PROVE  /\ summary' \in [Traces -> Trace!Summary \cup {NoSummary}]
             /\ reports' \in [Traces -> Seq(Seq(Trace!Record))]
  <2> DEFINE t == trace[r]
             s == summary[t]
             rest == s.active \ {number[r]}
             records == Trace!Answered(s.records, r, number[r])
  <2>1. CASE s = NoSummary
    BY <1>6, <2>1, CompletionReports
  <2>2. CASE s # NoSummary
    <3>1. s \in Trace!Summary
      BY <1>2, <2>2
    <3>2. s.next \in Nat /\ rest \in SUBSET Nat /\ s.records \in Seq(Trace!Record)
      BY <3>1 DEF Trace!Summary
    <3>3. records \in Seq(Trace!Record)
      BY <3>2, AnsweredKeeps
    <3>4. [next |-> s.next, active |-> rest, records |-> records] \in Trace!Summary
      BY <3>2, <3>3 DEF Trace!Summary
    <3>5. Append(reports[t], records) \in Seq(Seq(Trace!Record))
      BY <1>2, <3>3
    <3>6. \/ /\ summary' = [summary EXCEPT ![t] = NoSummary]
             /\ reports' = [reports EXCEPT ![t] = Append(@, records)]
          \/ /\ summary' = [summary EXCEPT ![t] = [next |-> s.next, active |-> rest,
                                                   records |-> records]]
             /\ UNCHANGED reports
      BY <1>6, <2>2, CompletionReports
    <3>7. reports' = reports \/ reports' = [reports EXCEPT ![t] = Append(reports[t], records)]
      BY <3>6
    <3> HIDE DEF records, rest, s
    <3>8. reports' \in [Traces -> Seq(Seq(Trace!Record))]
      BY <1>2, <3>5, <3>7
    <3>9. summary' \in [Traces -> Trace!Summary \cup {NoSummary}]
      BY <1>2, <3>4, <3>6
    <3> QED
      BY <3>8, <3>9
  <2> QED
    BY <2>1, <2>2
<1>7. ASSUME Trace!Reply(r) \/ Trace!EndStream(r) PROVE Trace!TypeOK'
  BY <1>6, <1>7 DEF Trace!Reply, Trace!EndStream
<1>8. ASSUME Trace!OpenStream(r) \/ Trace!Abandon(r) \/ Trace!Fail(r) PROVE Trace!TypeOK'
  BY <1>2, <1>8 DEF Trace!OpenStream, Trace!Abandon, Trace!Fail
<1> QED
  BY <1>1, <1>3, <1>4, <1>5, <1>7, <1>8 DEF Trace!RequestStep

\* Every step of a request concerns it alone, and the summary of its trace.
LEMMA StepConcernsOne ==
  ASSUME Trace!TypeOK, NEW r \in Requests, Trace!RequestStep(r)
  PROVE  /\ UNCHANGED trace
         /\ \A q \in Requests \ {r} : pc'[q] = pc[q] /\ number'[q] = number[q]
         /\ \A u \in Traces \ {trace[r]} : summary'[u] = summary[u] /\ reports'[u] = reports[u]
         /\ pc[r] # "new" => number'[r] = number[r]
<1> USE DEF Trace!TypeOK, Trace!At
<1>1. ASSUME Trace!Reply(r) \/ Trace!EndStream(r)
      PROVE  \A u \in Traces \ {trace[r]} : summary'[u] = summary[u] /\ reports'[u] = reports[u]
  <2>1. Trace!Complete(r) /\ UNCHANGED <<trace, number>>
    BY <1>1 DEF Trace!Reply, Trace!EndStream
  <2> QED
    BY <2>1, CompletionReports
<1>2. ASSUME Trace!Reply(r) \/ Trace!EndStream(r)
      PROVE  UNCHANGED <<trace, number>> /\ \A q \in Requests \ {r} : pc'[q] = pc[q]
  BY <1>2 DEF Trace!Reply, Trace!EndStream
<1>3. CASE Trace!Number(r) \/ Trace!ReadBody(r) \/ Trace!Send(r)
  BY <1>3 DEF Trace!Number, Trace!ReadBody, Trace!Send
<1>4. CASE Trace!OpenStream(r) \/ Trace!Abandon(r) \/ Trace!Fail(r)
  BY <1>4 DEF Trace!OpenStream, Trace!Abandon, Trace!Fail
<1> QED
  BY <1>1, <1>2, <1>3, <1>4 DEF Trace!RequestStep

WaitsAt(u) ==
    summary[u] # NoSummary =>
        /\ summary[u].active # {}
        /\ \A n \in summary[u].active :
              \E q \in Requests : trace[q] = u /\ number[q] = n /\ pc[q] \in Live

LEMMA WaitsStep ==
  ASSUME TraceInv, Trace!Next
  PROVE  Trace!WaitsForTheLiving' /\ KeptInv'
<1>1. PICK r \in Requests : Trace!RequestStep(r)
  BY DEF Trace!Next
<1>0. PICK t \in Traces : t = trace[r]
  BY DEF TraceInv, Trace!TypeOK
<1>2. /\ Trace!TypeOK /\ UNCHANGED trace /\ t = trace[r]
      /\ \A q \in Requests \ {r} : pc'[q] = pc[q] /\ number'[q] = number[q]
      /\ \A u \in Traces \ {t} : summary'[u] = summary[u]
      /\ pc[r] # "new" => number'[r] = number[r]
  BY <1>0, <1>1, StepConcernsOne DEF TraceInv, Trace!TypeOK
<1>3. \A u \in Traces : WaitsAt(u)
  BY DEF TraceInv, KeptInv, Trace!WaitsForTheLiving, Trace!Of, Live, WaitsAt
<1>4. ASSUME NEW u \in Traces \ {t} PROVE WaitsAt(u)'
  <2>1. \A q \in Requests : trace[q] = u => q # r
    BY <1>2
  <2> QED
    BY <1>2, <1>3, <2>1 DEF WaitsAt
<1>5. ASSUME summary'[t] = NoSummary PROVE WaitsAt(t)'
  BY <1>2, <1>5 DEF WaitsAt
<1>6. ASSUME summary[t] # NoSummary, summary'[t].active = summary[t].active,
             pc[r] \in Live => pc'[r] \in Live
      PROVE  WaitsAt(t)'
  BY <1>2, <1>3, <1>6 DEF WaitsAt, Live
<1>7. ASSUME Trace!Number(r) PROVE WaitsAt(t)'
  <2>1. summary'[t] = Trace!Numbered(t) /\ pc[r] = "new"
    BY <1>2, <1>7 DEF Trace!Number, Trace!TypeOK, Trace!At
  <2>2. CASE summary[t] = NoSummary
    BY <1>2, <1>5, <2>1, <2>2, NumberingCounts
  <2>3. CASE summary[t] # NoSummary
    BY <1>2, <1>6, <2>1, <2>3, NumberingCounts DEF Live
  <2> QED
    BY <2>2, <2>3
<1>8. ASSUME NEW n \in Nat, NEW s \in Trace!Summary \cup {NoSummary},
             summary'[t] = Trace!Recorded(s, r, n), number'[r] = n, pc'[r] = "sent",
             pc[r] \notin Live,
             s # NoSummary => summary[t] # NoSummary /\ s.active = summary[t].active
      PROVE  WaitsAt(t)'
  <2>1. summary'[t].active = IF s = NoSummary THEN {n} ELSE summary[t].active \cup {n}
    <3>1. Trace!Recorded(s, r, n).active = IF s = NoSummary THEN {n} ELSE s.active \cup {n}
      BY RecordingAppends
    <3> QED
      BY <1>8, <3>1
  <2>2. r \in Requests /\ trace'[r] = t /\ number'[r] = n /\ pc'[r] \in Live
    BY <1>2, <1>8 DEF Live
  <2>3. ASSUME NEW k \in summary'[t].active
        PROVE  \E q \in Requests : trace'[q] = t /\ number'[q] = k /\ pc'[q] \in Live
    <3>1. CASE k = n
      BY <2>2, <3>1
    <3>2. CASE k # n
      <4>1. s # NoSummary /\ k \in summary[t].active
        BY <2>1, <2>3, <3>2
      <4>2. PICK q \in Requests : trace[q] = t /\ number[q] = k /\ pc[q] \in Live
        BY <1>2, <1>3, <1>8, <4>1 DEF WaitsAt
      <4>3. q # r
        BY <1>8, <4>2
      <4> QED
        BY <1>2, <4>2, <4>3
    <3> QED
      BY <3>1, <3>2
  <2> QED
    BY <1>2, <2>1, <2>3 DEF WaitsAt
<1>9. ASSUME Trace!ReadBody(r) PROVE WaitsAt(t)'
  <2>1. /\ summary'[t] = Trace!Recorded(summary[t], r, number[r])
        /\ pc[r] = "numbered" /\ pc'[r] = "sent" /\ number'[r] = number[r] /\ number[r] \in Nat
        /\ summary[t] \in Trace!Summary \cup {NoSummary}
    BY <1>2, <1>9 DEF Trace!ReadBody, Trace!TypeOK, Trace!At
  <2> QED
    BY <1>8, <2>1 DEF Live
<1>10. ASSUME Trace!Send(r) PROVE WaitsAt(t)'
  <2>1. /\ summary'[t] = Trace!Recorded(Trace!Numbered(t), r, Trace!NextNumber(t))
        /\ pc[r] = "new" /\ pc'[r] = "sent" /\ number'[r] = Trace!NextNumber(t)
    BY <1>2, <1>10 DEF Trace!Send, Trace!TypeOK, Trace!At
  <2>2. /\ Trace!NextNumber(t) \in Nat
        /\ Trace!Numbered(t) \in Trace!Summary \cup {NoSummary}
        /\ Trace!Numbered(t) # NoSummary =>
              summary[t] # NoSummary /\ Trace!Numbered(t).active = summary[t].active
    BY <1>2, NumberingCounts
  <2> QED
    BY <1>8, <2>1, <2>2 DEF Live
<1>11. ASSUME Trace!Reply(r) \/ Trace!EndStream(r) PROVE WaitsAt(t)'
  <2>1. Trace!Complete(r) /\ UNCHANGED <<trace, number>>
    BY <1>11 DEF Trace!Reply, Trace!EndStream
  <2>2. \/ summary'[t] = NoSummary
        \/ /\ summary[t] # NoSummary
           /\ summary'[t].active = summary[t].active \ {number[r]} /\ summary'[t].active # {}
    BY <1>2, <2>1, CompletionReports DEF Trace!TypeOK
  <2>3. ASSUME summary[t] # NoSummary, summary'[t].active = summary[t].active \ {number[r]},
               summary'[t].active # {}
        PROVE  WaitsAt(t)'
    <3>1. ASSUME NEW k \in summary'[t].active
          PROVE  \E q \in Requests : trace'[q] = t /\ number'[q] = k /\ pc'[q] \in Live
      <4>1. PICK q \in Requests : trace[q] = t /\ number[q] = k /\ pc[q] \in Live
        BY <1>2, <1>3, <2>3, <3>1 DEF WaitsAt
      <4>2. q # r
        BY <2>3, <3>1, <4>1
      <4> QED
        BY <1>2, <4>1, <4>2
    <3> QED
      BY <1>2, <2>3, <3>1 DEF WaitsAt
  <2> QED
    BY <1>5, <2>2, <2>3
<1>12. ASSUME Trace!OpenStream(r) \/ Trace!Abandon(r) PROVE WaitsAt(t)'
  <2>1. UNCHANGED summary /\ pc'[r] \in Live
    BY <1>12 DEF Trace!OpenStream, Trace!Abandon, Trace!At, Live, TraceInv, Trace!TypeOK
  <2> QED
    BY <1>5, <1>6, <2>1
<1>13. ASSUME Trace!Fail(r) PROVE WaitsAt(t)'
  <2>1. summary'[t] = NoSummary
    BY <1>2, <1>13 DEF Trace!Fail, Trace!TypeOK
  <2> QED
    BY <1>5, <2>1
<1>14. \A u \in Traces : WaitsAt(u)'
  BY <1>1, <1>4, <1>7, <1>9, <1>10, <1>11, <1>12, <1>13 DEF Trace!RequestStep
<1> QED
  BY <1>14 DEF KeptInv, Trace!WaitsForTheLiving, Trace!Of, Live, WaitsAt

RegularAt(u) ==
    Trace!Regular(u) =>
        \A q \in Requests : trace[q] = u => pc[q] # "numbered" /\ Listed(u, q) /\ Awaited(u, q)

\* The steps of regular traces: r alone moves in its trace t, from a place to another.
LEMMA SendIsListed ==
  ASSUME Trace!TypeOK, NEW r \in Requests, NEW t \in Traces, t = trace[r], Trace!Send(r),
         \A q \in Requests : trace[q] = t => Listed(t, q) /\ Awaited(t, q)
  PROVE  \A q \in Requests : trace[q] = t => Listed(t, q)' /\ Awaited(t, q)'
<1> DEFINE n == Trace!NextNumber(t)
           s == Trace!Numbered(t)
           e == [number |-> n, of |-> r, by |-> {}]
<1>1. /\ summary'[t] = Trace!Recorded(s, r, n)
      /\ pc[r] = "new" /\ pc'[r] = "sent" /\ number'[r] = n
      /\ UNCHANGED <<trace, reports>>
      /\ \A q \in Requests \ {r} : pc'[q] = pc[q] /\ number'[q] = number[q]
  BY DEF Trace!Send, Trace!TypeOK, Trace!At
<1>2. /\ n \in Nat /\ s \in Trace!Summary \cup {NoSummary}
      /\ s = NoSummary <=> summary[t] = NoSummary
      /\ summary[t] # NoSummary => /\ n = summary[t].next
                                   /\ s.active = summary[t].active
                                   /\ s.records = summary[t].records
  BY NumberingCounts
<1> HIDE DEF n, s
<1>3. /\ summary'[t] \in Trace!Summary /\ summary'[t] # NoSummary
      /\ e \in Trace!Record /\ RecordsOf(s) \in Seq(Trace!Record)
      /\ summary'[t].records = Append(RecordsOf(s), e)
      /\ summary'[t].active = IF s = NoSummary THEN {n} ELSE s.active \cup {n}
      /\ summary'[t].next > n
  <2> DEFINE v == Trace!Recorded(s, r, n)
  <2>1. /\ v \in Trace!Summary /\ v # NoSummary
        /\ e \in Trace!Record /\ RecordsOf(s) \in Seq(Trace!Record)
        /\ v.records = Append(RecordsOf(s), e)
        /\ v.active = IF s = NoSummary THEN {n} ELSE s.active \cup {n}
        /\ v.next > n
    BY <1>2, RecordingAppends
  <2>2. summary'[t] = v
    BY <1>1
  <2> HIDE DEF v, e
  <2> QED
    BY <2>1, <2>2
<1>4. RecordsOf(s) = RecordsOf(summary[t]) /\ RecordsOf(summary[t])' = summary'[t].records
  BY <1>2, <1>3 DEF RecordsOf
<1>5. PICK k : k = Len(RecordsOf(s)) + 1
  OBVIOUS
<1>6. \A q \in Requests :
         /\ Places(t, q)' = IF q = r THEN Places(t, q) \cup {k} ELSE Places(t, q)
         /\ Mentions(t, q)' = Mentions(t, q)
  <2>1. e.of = r
    OBVIOUS
  <2> HIDE DEF e
  <2>2. ASSUME NEW q
        PROVE  PlacesIn(Append(RecordsOf(s), e), q) =
                  IF r = q THEN PlacesIn(RecordsOf(s), q) \cup {k} ELSE PlacesIn(RecordsOf(s), q)
    BY <1>3, <1>5, <2>1, PlacesAppended
  <2>3. ASSUME NEW q \in Requests
        PROVE  /\ Places(t, q)' = PlacesIn(Append(RecordsOf(s), e), q)
               /\ Places(t, q) = PlacesIn(RecordsOf(s), q)
    BY <1>3, <1>4 DEF Places
  <2>4. \A q \in Requests : Mentions(t, q)' = Mentions(t, q)
    BY <1>1 DEF Mentions
  <2> QED
    BY <2>2, <2>3, <2>4
<1>7. ASSUME NEW q \in Requests, trace[q] = t PROVE Listed(t, q)'
  <2>1. CASE q = r
    <3>1. Places(t, r) = {} /\ Mentions(t, r) = {}
      BY <1>1, <1>7, <2>1 DEF Listed
    <3>2. pc'[q] = "sent" /\ Mentions(t, q)' = {} /\ \E i : Places(t, q)' = {i}
      BY <1>1, <1>6, <2>1, <3>1
    <3> QED
      BY <3>2 DEF Listed, Live
  <2>2. CASE q # r
    <3>1. pc'[q] = pc[q] /\ Places(t, q)' = Places(t, q) /\ Mentions(t, q)' = Mentions(t, q)
      BY <1>1, <1>6, <2>2
    <3>2. Listed(t, q)
      BY <1>7
    <3> QED
      BY <3>1, <3>2 DEF Listed
  <2> QED
    BY <2>1, <2>2
<1>8. ASSUME NEW q \in Requests, trace[q] = t, q # r, pc[q] \in Live
      PROVE  number[q] \in summary'[t].active /\ number[q] < n
  BY <1>2, <1>3, <1>8 DEF Awaited
<1>9. number'[r] \in summary'[t].active /\ number'[r] = n
  BY <1>1, <1>3
<1>10. \A q \in Requests : number[q] \in Nat
  BY DEF Trace!TypeOK
<1>11. summary'[t].next \in Nat
  BY <1>3 DEF Trace!Summary
<1>12. ASSUME NEW q \in Requests, trace[q] = t, pc'[q] \in Live
       PROVE  /\ number'[q] \in summary'[t].active /\ number'[q] < summary'[t].next
              /\ \A o \in Requests \ {q} :
                    trace[o] = t /\ pc'[o] \in Live => number'[o] # number'[q]
  <2>1. CASE q = r
    BY <1>1, <1>2, <1>3, <1>8, <1>9, <1>10, <2>1
  <2>2. CASE q # r
    <3>1. pc[q] \in Live /\ number'[q] = number[q] /\ number[q] < n
      BY <1>1, <1>8, <1>12, <2>2
    <3>2. \A o \in Requests \ {q} : trace[o] = t /\ pc[o] \in Live => number[o] # number[q]
      BY <1>12, <3>1 DEF Awaited, Trace!Of
    <3>3. ASSUME NEW o \in Requests \ {q}, trace[o] = t, pc'[o] \in Live
          PROVE  number'[o] # number'[q]
      BY <1>1, <1>2, <1>9, <1>10, <3>1, <3>2, <3>3
    <3>4. number'[q] < summary'[t].next
      BY <1>2, <1>3, <1>10, <1>11, <3>1
    <3> QED
      BY <1>8, <1>12, <2>2, <3>1, <3>3, <3>4
  <2> QED
    BY <2>1, <2>2
<1>13. ASSUME NEW q \in Requests, trace[q] = t PROVE Awaited(t, q)'
  BY <1>1, <1>3, <1>12, <1>13 DEF Awaited, Trace!Of
<1> QED
  BY <1>7, <1>13

LEMMA CompletionIsListed ==
  ASSUME Trace!TypeOK, NEW r \in Requests, NEW t \in Traces, t = trace[r], pc[r] \in Live,
         Trace!Complete(r), UNCHANGED <<trace, number>>, pc' = [pc EXCEPT ![r] = "done"],
         \A q \in Requests : trace[q] = t => Listed(t, q) /\ Awaited(t, q)
  PROVE  \A q \in Requests : trace[q] = t => Listed(t, q)' /\ Awaited(t, q)'
<1> DEFINE s == summary[t]
           rest == s.active \ {number[r]}
           records == Trace!Answered(s.records, r, number[r])
<1>1. pc'[r] = "done" /\ \A q \in Requests \ {r} : pc'[q] = pc[q]
  BY DEF Trace!TypeOK
<1>2. s # NoSummary /\ s \in Trace!Summary
  BY DEF Awaited, Trace!TypeOK
<1>3. s.records \in Seq(Trace!Record) /\ RecordsOf(s) = s.records
  BY <1>2 DEF Trace!Summary, RecordsOf
<1>4. records \in Seq(Trace!Record) /\ \A q : PlacesIn(records, q) = Places(t, q)
  BY <1>3, AnsweredKeeps DEF Places
<1>5. ASSUME NEW q \in Requests, trace[q] = t, q # r, pc[q] \in Live
      PROVE  number[q] \in rest
  <2>1. number[q] \in s.active
    BY <1>5 DEF Awaited
  <2>2. number[q] # number[r]
    BY <1>5 DEF Awaited, Trace!Of
  <2> QED
    BY <2>1, <2>2
<1>6. \/ /\ rest = {}
         /\ summary' = [summary EXCEPT ![t] = NoSummary]
         /\ reports' = [reports EXCEPT ![t] = Append(reports[t], records)]
      \/ /\ rest # {}
         /\ summary' = [summary EXCEPT ![t] = [next |-> s.next, active |-> rest,
                                               records |-> records]]
         /\ UNCHANGED reports
  BY <1>2, CompletionReports
<1> HIDE DEF s, rest, records
<1>7. CASE /\ rest = {}
           /\ summary' = [summary EXCEPT ![t] = NoSummary]
           /\ reports' = [reports EXCEPT ![t] = Append(reports[t], records)]
  <2>1. summary'[t] = NoSummary /\ reports'[t] = Append(reports[t], records)
    BY <1>7 DEF Trace!TypeOK
  <2>2. reports[t] \in Seq(Seq(Trace!Record))
    BY DEF Trace!TypeOK
  <2>3. \A q : Places(t, q)' = {}
    BY <2>1 DEF Places, RecordsOf, PlacesIn
  <2>last. PICK k : k = Len(reports[t]) + 1
    OBVIOUS
  <2>4. ASSUME NEW q PROVE Mentions(t, q)' = Mentions(t, q) \cup ({k} \X Places(t, q))
    <3>1. MentionsIn(Append(reports[t], records), q) =
             MentionsIn(reports[t], q) \cup ({k} \X PlacesIn(records, q))
      BY <1>4, <2>2, <2>last, MentionsAppended
    <3> QED
      BY <1>4, <2>1, <3>1 DEF Mentions
  <2>5. ASSUME NEW q \in Requests, trace[q] = t PROVE pc'[q] \notin Live
    BY <1>1, <1>5, <1>7, <2>5 DEF Live
  <2>6. ASSUME NEW q \in Requests, trace[q] = t, pc[q] = "new" PROVE Mentions(t, q)' = {}
    BY <2>4, <2>6 DEF Listed
  <2>7. ASSUME NEW q \in Requests, trace[q] = t, pc[q] \in Live \/ pc[q] = "done"
        PROVE  \E p : Mentions(t, q)' = {p}
    <3>1. Mentions(t, q)' = Mentions(t, q) \cup ({k} \X Places(t, q))
      BY <2>4
    <3>2. CASE Mentions(t, q) = {} /\ \E i : Places(t, q) = {i}
      <4>1. PICK i : Places(t, q) = {i}
        BY <3>2
      <4>2. {k} \X {i} = {<<k, i>>}
        OBVIOUS
      <4> QED
        BY <3>1, <3>2, <4>1, <4>2
    <3>3. CASE Places(t, q) = {} /\ \E p : Mentions(t, q) = {p}
      BY <3>1, <3>3
    <3> QED
      BY <2>7, <3>2, <3>3 DEF Listed
  <2>8. ASSUME NEW q \in Requests, trace[q] = t PROVE Listed(t, q)'
    BY <1>1, <2>3, <2>5, <2>6, <2>7, <2>8 DEF Listed
  <2>9. ASSUME NEW q \in Requests, trace[q] = t PROVE Awaited(t, q)'
    BY <2>5, <2>9 DEF Awaited
  <2> QED
    BY <2>8, <2>9
<1>8. CASE /\ rest # {}
           /\ summary' = [summary EXCEPT ![t] = [next |-> s.next, active |-> rest,
                                                 records |-> records]]
           /\ UNCHANGED reports
  <2>1. summary'[t] = [next |-> s.next, active |-> rest, records |-> records]
    BY <1>8 DEF Trace!TypeOK
  <2>2. summary'[t] # NoSummary
    <3>1. rest \in SUBSET Nat /\ s.next \in Nat
      BY <1>2 DEF Trace!Summary, rest
    <3>2. summary'[t] \in Trace!Summary
      BY <1>4, <2>1, <3>1 DEF Trace!Summary
    <3> QED
      BY <3>2, TraceAssumed
  <2>3. \A q : Places(t, q)' = Places(t, q) /\ Mentions(t, q)' = Mentions(t, q)
    <3>1. RecordsOf(summary[t])' = records
      BY <2>1, <2>2 DEF RecordsOf
    <3> QED
      BY <1>4, <1>8, <3>1 DEF Places, Mentions
  <2>4. ASSUME NEW q \in Requests, trace[q] = t PROVE Listed(t, q)'
    <3>1. CASE q = r
      BY <1>1, <2>3, <2>4, <3>1 DEF Listed, Live
    <3>2. CASE q # r
      BY <1>1, <2>3, <2>4, <3>2 DEF Listed
    <3> QED
      BY <3>1, <3>2
  <2>5. ASSUME NEW q \in Requests, trace[q] = t PROVE Awaited(t, q)'
    <3>1. CASE pc'[q] \notin Live
      BY <3>1 DEF Awaited
    <3>2. CASE pc'[q] \in Live
      <4>1. q # r /\ pc[q] \in Live
        BY <1>1, <3>2 DEF Live
      <4>2. number[q] < s.next
        BY <2>5, <4>1 DEF Awaited, s
      <4>3. \A o \in Requests \ {q} : trace[o] = t /\ pc'[o] \in Live => number[o] # number[q]
        <5>1. \A o \in Requests : pc'[o] \in Live => pc[o] \in Live
          BY <1>1 DEF Live
        <5> QED
          BY <2>5, <4>1, <5>1 DEF Awaited, Trace!Of
      <4> QED
        BY <1>5, <2>1, <2>2, <2>5, <4>1, <4>2, <4>3 DEF Awaited, Trace!Of
    <3> QED
      BY <3>1, <3>2
  <2> QED
    BY <2>4, <2>5
<1> QED
  BY <1>6, <1>7, <1>8

LEMMA RegularStep ==
  ASSUME TraceInv, Trace!Next
  PROVE  RegularInv'
<1>0. Trace!TypeOK /\ \A u \in Traces : RegularAt(u)
  BY DEF TraceInv, RegularInv, RegularAt, Trace!Of
<1>1. PICK r \in Requests : Trace!RequestStep(r)
  BY DEF Trace!Next
<1>2. PICK t \in Traces : t = trace[r]
  BY <1>0 DEF Trace!TypeOK
<1>3. /\ UNCHANGED trace
      /\ \A q \in Requests \ {r} : pc'[q] = pc[q] /\ number'[q] = number[q]
      /\ \A u \in Traces \ {t} : summary'[u] = summary[u] /\ reports'[u] = reports[u]
  BY <1>0, <1>1, <1>2, StepConcernsOne
<1>4. ASSUME NEW u \in Traces \ {t}, Trace!Regular(u)', NEW q \in Requests, trace'[q] = u
      PROVE  pc'[q] # "numbered" /\ Listed(u, q)' /\ Awaited(u, q)'
  <2>1. \A o \in Requests : trace[o] = u => o # r /\ pc'[o] = pc[o] /\ number'[o] = number[o]
    BY <1>2, <1>3
  <2>2. Trace!Regular(u)
    BY <1>3, <1>4, <2>1 DEF Trace!Regular, Trace!Of
  <2>3. pc[q] # "numbered" /\ Listed(u, q) /\ Awaited(u, q)
    BY <1>0, <1>3, <1>4, <2>2 DEF RegularAt
  <2>4. Places(u, q)' = Places(u, q) /\ Mentions(u, q)' = Mentions(u, q)
    BY <1>3 DEF Places, Mentions, RecordsOf
  <2>5. Listed(u, q)'
    BY <1>3, <1>4, <2>1, <2>3, <2>4 DEF Listed
  <2>6. Awaited(u, q)'
    BY <1>3, <1>4, <2>1, <2>3 DEF Awaited, Trace!Of
  <2> QED
    BY <1>3, <1>4, <2>1, <2>3, <2>5, <2>6
<1>5. ASSUME Trace!Regular(t)', NEW q \in Requests, trace'[q] = t
      PROVE  pc'[q] # "numbered" /\ Listed(t, q)' /\ Awaited(t, q)'
  <2>1. pc[r] # "failed"
    BY <1>0, <1>1 DEF Trace!RequestStep, Trace!Number, Trace!ReadBody, Trace!Send, Trace!Reply,
       Trace!OpenStream, Trace!EndStream, Trace!Abandon, Trace!Fail, Trace!At
  <2>2. Trace!Regular(t)
    BY <1>3, <1>5, <2>1 DEF Trace!Regular, Trace!Of
  <2>3. \A o \in Requests : trace[o] = t => pc[o] # "numbered" /\ Listed(t, o) /\ Awaited(t, o)
    BY <1>0, <2>2 DEF RegularAt
  <2>4. r \notin Late /\ pc[r] # "numbered" /\ pc'[r] # "failed"
    BY <1>2, <1>3, <1>5, <2>2, <2>3 DEF Trace!Regular, Trace!Of
  <2>5. trace[q] = t
    BY <1>3, <1>5
  <2>6. CASE Trace!Number(r) \/ Trace!ReadBody(r) \/ Trace!Fail(r)
    BY <1>0, <2>4, <2>6 DEF Trace!Number, Trace!ReadBody, Trace!Fail, Trace!At, Trace!TypeOK
  <2>7. CASE Trace!Send(r)
    <3>1. Listed(t, q)' /\ Awaited(t, q)'
      BY <1>0, <1>2, <2>3, <2>5, <2>7, SendIsListed
    <3>2. pc'[r] = "sent"
      BY <1>0, <2>7 DEF Trace!Send, Trace!At, Trace!TypeOK
    <3> QED
      BY <1>3, <2>3, <2>5, <3>1, <3>2
  <2>8. CASE Trace!Reply(r) \/ Trace!EndStream(r)
    <3>1. /\ pc[r] \in Live /\ pc' = [pc EXCEPT ![r] = "done"]
          /\ Trace!Complete(r) /\ UNCHANGED <<trace, number>>
      BY <2>8 DEF Trace!Reply, Trace!EndStream, Trace!At, Live
    <3>2. Listed(t, q)' /\ Awaited(t, q)'
      BY <1>0, <1>2, <2>3, <2>5, <3>1, CompletionIsListed
    <3>3. pc'[q] # "numbered"
      BY <1>0, <2>3, <2>5, <3>1 DEF Trace!TypeOK
    <3> QED
      BY <3>2, <3>3
  <2>9. CASE Trace!OpenStream(r) \/ Trace!Abandon(r)
    <3>1. /\ UNCHANGED <<trace, number, summary, reports>>
          /\ pc[r] \in Live /\ pc'[r] \in Live
      BY <1>0, <2>9 DEF Trace!OpenStream, Trace!Abandon, Trace!At, Trace!TypeOK, Live
    <3>2. \A o \in Requests : pc'[o] = pc[o] \/ (pc[o] \in Live /\ pc'[o] \in Live)
      BY <1>3, <3>1
    <3>3. Places(t, q)' = Places(t, q) /\ Mentions(t, q)' = Mentions(t, q)
      BY <3>1 DEF Places, Mentions, RecordsOf
    <3>4. Listed(t, q)'
      BY <2>3, <2>5, <3>2, <3>3 DEF Listed, Live
    <3>5. Awaited(t, q)'
      BY <2>3, <2>5, <3>1, <3>2 DEF Awaited, Trace!Of
    <3>6. pc'[q] # "numbered"
      BY <2>3, <2>5, <3>2 DEF Live
    <3> QED
      BY <3>4, <3>5, <3>6
  <2> QED
    BY <1>1, <2>6, <2>7, <2>8, <2>9 DEF Trace!RequestStep
<1> QED
  BY <1>4, <1>5 DEF RegularInv, Trace!Of

LEMMA TraceInit == Init => TraceInv
<1> SUFFICES ASSUME Init PROVE TraceInv
  OBVIOUS
<1>1. Trace!Init
  BY DEF Init
<1>2. Trace!TypeOK
  BY <1>1 DEF Trace!Init, Trace!TypeOK
<1>3. \A t \in Traces : summary[t] = NoSummary /\ reports[t] = <<>>
  BY <1>1 DEF Trace!Init
<1>4. \A t \in Traces, r \in Requests : Places(t, r) = {} /\ Mentions(t, r) = {}
  BY <1>3 DEF Places, Mentions, RecordsOf, PlacesIn, MentionsIn
<1>5. \A r \in Requests : pc[r] = "new"
  BY <1>1 DEF Trace!Init
<1>6. RegularInv
  BY <1>4, <1>5 DEF RegularInv, Listed, Awaited, Live, Trace!Of
<1> QED
  BY <1>2, <1>3, <1>6 DEF TraceInv, KeptInv, Trace!WaitsForTheLiving

LEMMA TraceAlways == Spec => []TraceInv
<1>1. Init => TraceInv
  BY TraceInit
<1>2. TraceInv /\ Trace!Next => TraceInv'
  BY TraceTypes, WaitsStep, RegularStep DEF TraceInv
<1>3. ASSUME TraceInv, UNCHANGED traceVars PROVE TraceInv'
  <2>1. pc' = pc /\ trace' = trace /\ number' = number /\ summary' = summary /\ reports' = reports
    BY <1>3 DEF traceVars
  <2>2. Trace!TypeOK'
    BY <1>3, <2>1 DEF TraceInv, Trace!TypeOK
  <2>3. Trace!WaitsForTheLiving' /\ KeptInv'
    BY <1>3, <2>1 DEF TraceInv, Trace!WaitsForTheLiving, Trace!Of, KeptInv
  <2>4. RegularInv'
    BY ZenonT(60), <1>3, <2>1 DEF TraceInv, RegularInv, Trace!Regular, Trace!Of, Listed, Awaited,
       Places, Mentions, RecordsOf
  <2> QED
    BY <2>2, <2>3, <2>4 DEF TraceInv
<1>4. TraceInv /\ [Next]_allVars => TraceInv'
  BY <1>2, <1>3 DEF Next, allVars
<1> QED
  BY <1>1, <1>4, PTL DEF Spec, allVars

\* However the requests of any number of traces interleave, share numbers and fail:
\* a summary never waits for a number whose request is over.
THEOREM NoDeadWait == Spec => []WaitsForTheLiving
<1>1. TraceInv => WaitsForTheLiving
  BY DEF TraceInv, WaitsForTheLiving
<1> QED
  BY <1>1, TraceAlways, PTL

\* A trace in which nothing failed and every body was known is reported whole: no
\* request of it is lost between two summaries, or told twice.
THEOREM OneReport == Spec => []ReportedOnce
<1>1. ASSUME TraceInv, NEW t \in Traces, Trace!Regular(t),
             \A r \in Trace!Of(t) : pc[r] \in {"new", "done"},
             NEW r \in Trace!Of(t), pc[r] = "done"
      PROVE  Cardinality(Trace!Mentions(t, r)) = 1
  <2>1. summary[t] = NoSummary
    BY <1>1 DEF TraceInv, KeptInv, Trace!WaitsForTheLiving
  <2>2. Places(t, r) = {}
    BY <2>1 DEF Places, RecordsOf, PlacesIn
  <2>3. \E p : Mentions(t, r) = {p}
    BY <1>1, <2>2 DEF TraceInv, RegularInv, Listed
  <2>4. Trace!Mentions(t, r) = Mentions(t, r)
    BY DEF Trace!Mentions, Mentions, MentionsIn, PlacesIn
  <2> QED
    BY <2>3, <2>4, FS_Singleton
<1>2. ASSUME TraceInv PROVE Trace!ReportedOnce
  <2>0. \A S : Trace!Cardinality(S) = Cardinality(S)
    BY DEF Trace!Cardinality, Cardinality
  <2>1. SUFFICES ASSUME NEW t \in Traces, Trace!Regular(t),
                        \A r \in Trace!Of(t) : pc[r] \in {"new", "done"},
                        NEW r \in Trace!Of(t), pc[r] = "done"
                 PROVE  Cardinality(Trace!Mentions(t, r)) = 1
    BY <2>0 DEF Trace!ReportedOnce
  <2> QED
    BY <1>1, <1>2, <2>1
<1>3. TraceInv => ReportedOnce
  BY <1>2 DEF ReportedOnce
<1> QED
  BY <1>3, TraceAlways, PTL

-----------------------------------------------------------------------------
(* Tool loader: what agents are given is connected *)

ServersOf(entries) == [i \in DOMAIN entries |-> entries[i].server]
ProcessesOf(entries) == {entries[i].process : i \in DOMAIN entries} \ {Nothing}
Items(list) == {list[i] : i \in DOMAIN list}
Distinct(list) == \A i, k \in DOMAIN list : list[i] = list[k] => i = k

\* A load connects what it has still to do, and closes what it has taken over.
LoadInv ==
    /\ \A l \in Loads : loading[l] \in {"connect", "clean"} => todo[l] # <<>>
    /\ \A l \in Loads : loading[l] = "close" => closing[l] # <<>>
    /\ \A l \in Loads : Distinct(todo[l])

\* The cached tools are those of the catalog; they are connected unless they are being
\* closed, and a load that still has a server to connect has not cached it.
CacheInv ==
    /\ Tools!Cached \subseteq alive \/ \E l \in Loads : loading[l] = "close"
    /\ Tools!Cached = ProcessesOf(catalog)
    /\ \A l \in Loads : \A s \in Items(todo[l]) : <<l, s>> \notin Tools!Cached

\* One load at a time has entered what it read up to where it is.
SerialInv ==
    ~overlapped =>
        /\ \A l, k \in Loads : Tools!Running(l) /\ Tools!Running(k) => l = k
        /\ \A l \in Loads : loading[l] \in {"connect", "clean"} =>
              read = ServersOf(catalog) \o todo[l]
        /\ (\A l \in Loads : loading[l] \notin {"connect", "clean"}) => read = ServersOf(catalog)

\* No other process runs than those cached, being closed or about to be cleaned up.
LeanInv ==
    ~overlapped /\ ~stuck =>
        /\ \A l \in Loads : loading[l] = "close" => alive \subseteq Items(closing[l])
        /\ \A l \in Loads : loading[l] = "clean" =>
              alive \subseteq Tools!Cached \cup {Tools!Current(l)}
        /\ (\A l \in Loads : loading[l] \notin {"close", "clean"}) => alive \subseteq Tools!Cached

ToolInv == Tools!TypeOK /\ LoadInv /\ CacheInv /\ SerialInv /\ LeanInv

LEMMA ToolAssumed ==
  /\ \A f \in Files : f \in Seq(Servers) /\ Distinct(f)
  /\ Broken \subseteq Servers /\ MaxEdits \in Nat
  /\ Nothing \notin Tools!Process
BY AgentsAssumption DEF Tools!ToolAssumption, Tools!Process, Distinct

\* The unusable entries at the head of a list, and no more.
LEMMA UnusableCounts ==
  ASSUME NEW list \in Seq(Servers)
  PROVE  Tools!Unusable(list) \in 0..Len(list)
<1> DEFINE Stops == {n \in 0..Len(list) : n < Len(list) => list[n + 1] \notin Broken}
<1>1. Len(list) \in Stops /\ Stops \subseteq Nat
  OBVIOUS
<1>2. PICK n \in Stops : \A k \in Stops : n <= k
  BY <1>1, LeastNumber
<1>3. ASSUME NEW i \in 1..n PROVE list[i] \in Broken
  <2> DEFINE len == Len(list)
  <2>1. len \in Nat /\ n \in 0..len
    BY <1>2
  <2> HIDE DEF len
  <2>2. i - 1 \in 0..len /\ i - 1 < len /\ (i - 1) + 1 = i /\ ~(n <= i - 1)
    BY <2>1
  <2>3. i - 1 \notin Stops
    <3> HIDE DEF Stops
    <3> QED
      BY <1>2, <2>2
  <2>4. list[(i - 1) + 1] \in Broken
    BY <2>2, <2>3 DEF len
  <2> QED
    BY <2>2, <2>4
<1>4. /\ n \in 0..Len(list)
      /\ \A i \in 1..n : list[i] \in Broken
      /\ n < Len(list) => list[n + 1] \notin Broken
  BY <1>2, <1>3
<1> QED
  BY <1>4 DEF Tools!Unusable

\* What the rest of a loop leaves: the servers entered and those to do are the list,
\* and no process is new in the catalog.
LEMMA LoopEnters ==
  ASSUME Tools!TypeOK, NEW l \in Loads, NEW entries \in Seq(Tools!Entry),
         NEW list \in Seq(Servers), Distinct(list), Tools!Loop(l, entries, list)
  PROVE  \E rest \in Seq(Servers) :
            /\ catalog' \in Seq(Tools!Entry)
            /\ todo' = [todo EXCEPT ![l] = rest]
            /\ loading' = [loading EXCEPT ![l] = IF rest = <<>> THEN "returned" ELSE "connect"]
            /\ Distinct(rest) /\ Items(rest) \subseteq Items(list)
            /\ ServersOf(catalog') \o rest = ServersOf(entries) \o list
            /\ ProcessesOf(catalog') = ProcessesOf(entries)
<1> DEFINE n == Tools!Unusable(list)
           skipped == [i \in 1..n |-> Tools!Unavailable(list[i])]
           rest == SubSeq(list, n + 1, Len(list))
           len == Len(list)
           before == Len(entries)
<1>1. /\ catalog' = entries \o skipped
      /\ todo' = [todo EXCEPT ![l] = rest]
      /\ loading' = [loading EXCEPT ![l] = IF rest = <<>> THEN "returned" ELSE "connect"]
  BY DEF Tools!Loop
<1>2. n \in 0..len /\ len \in Nat /\ before \in Nat
  BY UnusableCounts
<1>3. DOMAIN list = 1..len /\ DOMAIN entries = 1..before
  OBVIOUS
<1> HIDE DEF n, len, before
<1>4. \A i \in 1..len : list[i] \in Servers
  BY <1>3, ElementOfSeq DEF len
<1>5. skipped \in Seq(Tools!Entry) /\ Len(skipped) = n
  <2>1. \A i \in 1..n : Tools!Unavailable(list[i]) \in Tools!Entry
    BY <1>2, <1>4 DEF Tools!Unavailable, Tools!Entry
  <2>2. n \in Nat
    BY <1>2
  <2> QED
    BY <2>1, <2>2, IsASeq
<1>6. /\ rest \in Seq(Servers) /\ Len(rest) = len - n
      /\ \A i \in 1..(len - n) : rest[i] = list[n + i]
  <2>1. /\ SubSeq(list, n + 1, len) \in Seq(Servers)
        /\ Len(SubSeq(list, n + 1, len)) = IF n + 1 <= len THEN len - (n + 1) + 1 ELSE 0
        /\ \A i \in 1..(len - (n + 1) + 1) : SubSeq(list, n + 1, len)[i] = list[(n + 1) + i - 1]
    <3>1. \A i \in (n + 1)..len : list[i] \in Servers
      BY <1>2, <1>4
    <3> QED
      BY <1>2, <3>1, SubSeqProperties
  <2>2. \A i \in 1..(len - n) : (n + 1) + i - 1 = n + i
    BY <1>2
  <2> QED
    BY <1>2, <2>1, <2>2 DEF len
<1>7. /\ catalog' \in Seq(Tools!Entry) /\ Len(catalog') = before + n
      /\ \A i \in 1..(before + n) :
            catalog'[i] = IF i <= before THEN entries[i] ELSE skipped[i - before]
  <2> HIDE DEF skipped
  <2>1. /\ entries \o skipped \in Seq(Tools!Entry)
        /\ Len(entries \o skipped) = before + n
        /\ \A i \in 1..(before + n) :
              (entries \o skipped)[i] = IF i <= before THEN entries[i] ELSE skipped[i - before]
    BY <1>5, ConcatProperties DEF before
  <2> QED
    BY <1>1, <2>1
<1> HIDE DEF rest
<1>8. DOMAIN rest = 1..(len - n) /\ DOMAIN catalog' = 1..(before + n)
  BY <1>6, <1>7, LenProperties
<1>9. Distinct(rest) /\ Items(rest) \subseteq Items(list)
  <2>1. \A i \in DOMAIN rest : n + i \in DOMAIN list /\ rest[i] = list[n + i]
    BY <1>2, <1>3, <1>6, <1>8
  <2>2. ASSUME NEW i \in DOMAIN rest, NEW k \in DOMAIN rest, rest[i] = rest[k] PROVE i = k
    <3>1. n + i = n + k
      BY <2>1, <2>2 DEF Distinct
    <3> QED
      BY <1>2, <1>8, <3>1
  <2> QED
    BY <2>1, <2>2 DEF Distinct, Items
<1>10. ProcessesOf(catalog') = ProcessesOf(entries)
  <2>1. ASSUME NEW i \in 1..before PROVE i \in 1..(before + n) /\ catalog'[i] = entries[i]
    <3>1. i \in 1..(before + n) /\ i <= before
      BY <1>2
    <3> QED
      BY <1>7, <3>1
  <2>2. \A i \in 1..(before + n) : i \notin 1..before => catalog'[i].process = Nothing
    <3>1. ASSUME NEW i \in 1..(before + n), i \notin 1..before
          PROVE  catalog'[i].process = Nothing
      <4>1. i - before \in 1..n /\ ~(i <= before)
        BY <1>2, <3>1
      <4>2. catalog'[i] = Tools!Unavailable(list[i - before])
        BY <1>7, <4>1
      <4> QED
        BY <4>2 DEF Tools!Unavailable
    <3> QED
      BY <3>1
  <2> QED
    BY <1>3, <1>8, <2>1, <2>2 DEF ProcessesOf
<1>11. ServersOf(catalog') \o rest = ServersOf(entries) \o list
  <2>1. /\ ServersOf(catalog') \in Seq(Servers) /\ Len(ServersOf(catalog')) = before + n
        /\ \A i \in 1..(before + n) : ServersOf(catalog')[i] = catalog'[i].server
    <3>1. ASSUME NEW i \in 1..(before + n) PROVE catalog'[i].server \in Servers
      <4>1. catalog'[i] \in Tools!Entry
        BY <1>7, ElementOfSeq
      <4> QED
        BY <4>1 DEF Tools!Entry
    <3>2. ServersOf(catalog') = [i \in 1..(before + n) |-> catalog'[i].server]
      BY <1>8 DEF ServersOf
    <3>3. before + n \in Nat
      BY <1>2
    <3> QED
      BY <3>1, <3>2, <3>3, IsASeq
  <2>2. /\ ServersOf(entries) \in Seq(Servers) /\ Len(ServersOf(entries)) = before
        /\ \A i \in 1..before : ServersOf(entries)[i] = entries[i].server
    <3>1. ASSUME NEW i \in 1..before PROVE entries[i].server \in Servers
      <4>1. entries[i] \in Tools!Entry
        BY ElementOfSeq DEF before
      <4> QED
        BY <4>1 DEF Tools!Entry
    <3>2. ServersOf(entries) = [i \in 1..before |-> entries[i].server]
      BY <1>3 DEF ServersOf
    <3> QED
      BY <1>2, <3>1, <3>2, IsASeq
  <2> DEFINE a == ServersOf(catalog')
             b == ServersOf(entries)
  <2> HIDE DEF a, b
  <2>3. /\ a \o rest \in Seq(Servers) /\ Len(a \o rest) = before + len
        /\ \A i \in 1..(before + len) :
              (a \o rest)[i] = IF i <= before + n THEN a[i] ELSE rest[i - (before + n)]
    <3>1. Len(a) + Len(rest) = before + len
      BY <1>2, <1>6, <2>1 DEF a
    <3>2. Len(a) = before + n /\ a \in Seq(Servers)
      BY <2>1 DEF a
    <3>3. /\ a \o rest \in Seq(Servers) /\ Len(a \o rest) = Len(a) + Len(rest)
          /\ \A i \in 1..(Len(a) + Len(rest)) :
                (a \o rest)[i] = IF i <= Len(a) THEN a[i] ELSE rest[i - Len(a)]
      BY <1>6, <3>2, ConcatProperties
    <3> QED
      BY <3>1, <3>2, <3>3
  <2>4. /\ b \o list \in Seq(Servers) /\ Len(b \o list) = before + len
        /\ \A i \in 1..(before + len) :
              (b \o list)[i] = IF i <= before THEN b[i] ELSE list[i - before]
    BY <2>2, ConcatProperties DEF b, len
  <2>5. ASSUME NEW i \in 1..(before + len) PROVE (a \o rest)[i] = (b \o list)[i]
    <3>1. CASE i <= before
      <4>1. i \in 1..before /\ i \in 1..(before + n) /\ i <= before + n
        BY <1>2, <3>1
      <4>2. a[i] = entries[i].server /\ b[i] = entries[i].server
        BY <1>7, <2>1, <2>2, <3>1, <4>1 DEF a, b
      <4> QED
        BY <2>3, <2>4, <3>1, <4>1, <4>2
    <3>2. CASE ~(i <= before) /\ i <= before + n
      <4>1. i \in 1..(before + n) /\ i - before \in 1..n
        BY <1>2, <3>2
      <4>2. catalog'[i] = Tools!Unavailable(list[i - before])
        BY <1>7, <3>2, <4>1
      <4>3. a[i] = list[i - before]
        BY <2>1, <4>1, <4>2 DEF a, Tools!Unavailable
      <4> QED
        BY <2>3, <2>4, <3>2, <4>3
    <3>3. CASE ~(i <= before + n)
      <4>1. i - (before + n) \in 1..(len - n) /\ ~(i <= before)
                /\ n + (i - (before + n)) = i - before
        BY <1>2, <3>3
      <4>2. rest[i - (before + n)] = list[i - before]
        BY <1>6, <4>1
      <4> QED
        BY <2>3, <2>4, <3>3, <4>1, <4>2
    <3> QED
      BY <3>1, <3>2, <3>3
  <2>6. a \o rest = b \o list
    BY <2>3, <2>4, <2>5, SeqEqual
  <2> QED
    BY <2>6 DEF a, b
<1> QED
  BY <1>1, <1>6, <1>7, <1>9, <1>10, <1>11

\* Load l goes on with rest, or is over if that is empty.
Advanced(l, rest) ==
    /\ rest \in Seq(Servers) /\ Distinct(rest)
    /\ catalog' \in Seq(Tools!Entry)
    /\ todo' = [todo EXCEPT ![l] = rest]
    /\ loading' = [loading EXCEPT ![l] = IF rest = <<>> THEN "returned" ELSE "connect"]

LEMMA RestartReads ==
  ASSUME Tools!TypeOK, NEW l \in Loads, Tools!Restart(l)
  PROVE  \E rest : /\ Advanced(l, rest)
                   /\ cache' = <<>> /\ read' = file
                   /\ ServersOf(catalog') \o rest = file
                   /\ ProcessesOf(catalog') = {}
<1>1. file \in Seq(Servers) /\ Distinct(file) /\ <<>> \in Seq(Tools!Entry)
  BY ToolAssumed DEF Tools!TypeOK
<1>2. cache' = <<>> /\ read' = file /\ Tools!Loop(l, <<>>, file)
  BY DEF Tools!Restart
<1>3. PICK rest \in Seq(Servers) :
         /\ Advanced(l, rest)
         /\ ServersOf(catalog') \o rest = ServersOf(<<>>) \o file
         /\ ProcessesOf(catalog') = ProcessesOf(<<>>)
  BY <1>1, <1>2, LoopEnters DEF Advanced
<1>4. ServersOf(<<>>) = <<>> /\ ProcessesOf(<<>>) = {}
  BY DEF ServersOf, ProcessesOf
<1>5. <<>> \o file = file
  BY <1>1, ConcatEmptySeq
<1> QED
  BY <1>2, <1>3, <1>4, <1>5

LEMMA EntryAdds ==
  ASSUME Tools!TypeOK, NEW e \in Tools!Entry
  PROVE  /\ Append(catalog, e) \in Seq(Tools!Entry)
         /\ ServersOf(Append(catalog, e)) = ServersOf(catalog) \o <<e.server>>
         /\ ProcessesOf(Append(catalog, e)) = ProcessesOf(catalog) \cup ({e.process} \ {Nothing})
         /\ ServersOf(catalog) \in Seq(Servers)
<1> DEFINE n == Len(catalog)
           more == Append(catalog, e)
<1>1. /\ more \in Seq(Tools!Entry) /\ Len(more) = n + 1
      /\ \A i \in 1..n : more[i] = catalog[i]
      /\ more[n + 1] = e
  BY AppendProperties DEF Tools!TypeOK
<1>2. n \in Nat /\ DOMAIN catalog = 1..n /\ DOMAIN more = 1..(n + 1)
  BY <1>1, LenProperties DEF Tools!TypeOK
<1> HIDE DEF n, more
<1>3. 1..(n + 1) = 1..n \cup {n + 1} /\ n + 1 \notin 1..n
  BY <1>2
<1>4. ProcessesOf(more) = ProcessesOf(catalog) \cup ({e.process} \ {Nothing})
  BY <1>1, <1>2, <1>3 DEF ProcessesOf
<1>5. /\ ServersOf(catalog) \in Seq(Servers) /\ Len(ServersOf(catalog)) = n
      /\ \A i \in 1..n : ServersOf(catalog)[i] = catalog[i].server
  <2>1. ASSUME NEW i \in 1..n PROVE catalog[i].server \in Servers
    <3>1. catalog[i] \in Tools!Entry
      BY ElementOfSeq DEF n, Tools!TypeOK
    <3> QED
      BY <3>1 DEF Tools!Entry
  <2>2. ServersOf(catalog) = [i \in 1..n |-> catalog[i].server]
    BY <1>2 DEF ServersOf
  <2> QED
    BY <1>2, <2>1, <2>2, IsASeq
<1>6. /\ ServersOf(more) \in Seq(Servers) /\ Len(ServersOf(more)) = n + 1
      /\ \A i \in 1..(n + 1) : ServersOf(more)[i] = more[i].server
  <2>1. ASSUME NEW i \in 1..(n + 1) PROVE more[i].server \in Servers
    <3>1. more[i] \in Tools!Entry
      BY <1>1, ElementOfSeq
    <3> QED
      BY <3>1 DEF Tools!Entry
  <2>2. ServersOf(more) = [i \in 1..(n + 1) |-> more[i].server]
    BY <1>2 DEF ServersOf
  <2>3. n + 1 \in Nat
    BY <1>2
  <2> QED
    BY <2>1, <2>2, <2>3, IsASeq
<1>7. e.server \in Servers
  BY DEF Tools!Entry
<1>8. ServersOf(more) = Append(ServersOf(catalog), e.server)
  <2> DEFINE a == Append(ServersOf(catalog), e.server)
  <2>1. /\ a \in Seq(Servers) /\ Len(a) = n + 1
        /\ \A i \in 1..n : a[i] = ServersOf(catalog)[i]
        /\ a[n + 1] = e.server
    BY <1>5, <1>7, AppendProperties
  <2> HIDE DEF a
  <2>2. \A i \in 1..(n + 1) : ServersOf(more)[i] = a[i]
    BY <1>1, <1>3, <1>5, <1>6, <2>1
  <2>3. ServersOf(more) = a
    BY <1>6, <2>1, <2>2, SeqEqual
  <2> QED
    BY <2>3 DEF a
<1>9. Append(ServersOf(catalog), e.server) = ServersOf(catalog) \o <<e.server>>
  BY <1>5, <1>7, AppendIsConcat
<1> QED
  BY <1>1, <1>4, <1>5, <1>8, <1>9 DEF more

\* The server a load is at is entered with a process or none; the rest follows.
LEMMA HeadEnters ==
  ASSUME Tools!TypeOK, NEW l \in Loads, todo[l] # <<>>, Distinct(todo[l]),
         NEW p \in Tools!Process \cup {Nothing},
         Tools!Loop(l, Append(catalog, [server |-> Head(todo[l]), process |-> p]), Tail(todo[l]))
  PROVE  /\ Head(todo[l]) \in Items(todo[l]) /\ Head(todo[l]) \in Servers
         /\ \E rest : /\ Advanced(l, rest)
                      /\ Items(rest) \subseteq Items(todo[l]) \ {Head(todo[l])}
                      /\ ServersOf(catalog') \o rest = ServersOf(catalog) \o todo[l]
                      /\ ProcessesOf(catalog') = ProcessesOf(catalog) \cup ({p} \ {Nothing})
<1> DEFINE list == todo[l]
           h == Head(list)
           tail == Tail(list)
           e == [server |-> h, process |-> p]
           n == Len(tail)
<1>1. list \in Seq(Servers) /\ list # <<>>
  BY DEF Tools!TypeOK
<1>2. /\ h \in Servers /\ tail \in Seq(Servers) /\ n \in Nat /\ Len(list) = n + 1
      /\ h = list[1] /\ \A i \in 1..n : tail[i] = list[i + 1]
  <2>1. Len(list) \in Nat \ {0}
    BY <1>1, EmptySeq
  <2>2. /\ Head(list) \in Servers /\ Tail(list) \in Seq(Servers)
        /\ Len(Tail(list)) = Len(list) - 1
        /\ \A i \in 1..Len(Tail(list)) : Tail(list)[i] = list[i + 1]
    BY <1>1, HeadTailProperties
  <2>3. Head(list) = list[1]
    BY <1>1
  <2> QED
    BY <2>1, <2>2, <2>3
<1>3. DOMAIN list = 1..(n + 1) /\ DOMAIN tail = 1..n
  BY <1>1, <1>2, LenProperties
<1>4. e \in Tools!Entry /\ e.server = h /\ e.process = p
  BY <1>2 DEF Tools!Entry
<1>5. Distinct(list) /\ Tools!Loop(l, Append(catalog, e), tail)
  OBVIOUS
<1>6. <<h>> \o tail = list
  <2>1. 1 \in 1..Len(list) /\ Len(list) \in 1..Len(list)
    BY <1>2
  <2>2. SubSeq(list, 1, Len(list)) = <<list[1]>> \o SubSeq(list, 2, Len(list))
    BY <1>1, <2>1, SubSeqRecursiveFirst
  <2>3. SubSeq(list, 1, Len(list)) = list
    BY <1>1, SubSeqFull
  <2>4. tail = SubSeq(list, 2, Len(list))
    BY <1>1, TailIsSubSeq
  <2> QED
    BY <1>2, <2>2, <2>3, <2>4
<1> HIDE DEF list, h, tail, e, n
<1>7. Distinct(tail) /\ Items(tail) \subseteq Items(list) \ {h} /\ h \in Items(list)
  <2>1. \A i \in 1..n : i + 1 \in 1..(n + 1) /\ i + 1 # 1
    BY <1>2
  <2>2. 1 \in 1..(n + 1)
    BY <1>2
  <2>3. ASSUME NEW i \in 1..n, NEW k \in 1..n, tail[i] = tail[k] PROVE i = k
    <3>1. list[i + 1] = list[k + 1] /\ i + 1 \in DOMAIN list /\ k + 1 \in DOMAIN list
      BY <1>2, <1>3, <2>1, <2>3
    <3>2. i + 1 = k + 1
      BY <1>5, <3>1 DEF Distinct
    <3> QED
      BY <1>2, <3>2
  <2>4. ASSUME NEW i \in 1..n PROVE tail[i] \in Items(list) /\ tail[i] # h
    <3>1. tail[i] = list[i + 1] /\ i + 1 \in DOMAIN list /\ i + 1 # 1
      BY <1>2, <1>3, <2>1
    <3>2. h = list[1] /\ 1 \in DOMAIN list
      BY <1>2, <1>3, <2>2
    <3> QED
      BY <1>5, <3>1, <3>2 DEF Distinct, Items
  <2> QED
    BY <1>2, <1>3, <2>2, <2>3, <2>4 DEF Distinct, Items
<1>8. /\ Append(catalog, e) \in Seq(Tools!Entry)
      /\ ServersOf(Append(catalog, e)) = ServersOf(catalog) \o <<h>>
      /\ ProcessesOf(Append(catalog, e)) = ProcessesOf(catalog) \cup ({p} \ {Nothing})
      /\ ServersOf(catalog) \in Seq(Servers)
  BY <1>4, EntryAdds
<1>9. PICK rest \in Seq(Servers) :
         /\ Advanced(l, rest) /\ Items(rest) \subseteq Items(tail)
         /\ ServersOf(catalog') \o rest = ServersOf(Append(catalog, e)) \o tail
         /\ ProcessesOf(catalog') = ProcessesOf(Append(catalog, e))
  BY ZenonT(60), <1>2, <1>5, <1>7, <1>8, LoopEnters DEF Advanced
<1>10. (ServersOf(catalog) \o <<h>>) \o tail = ServersOf(catalog) \o list
  <2>1. <<h>> \in Seq(Servers)
    BY <1>2
  <2> DEFINE before == ServersOf(catalog)
  <2> HIDE DEF before
  <2>2. before \in Seq(Servers)
    BY <1>8 DEF before
  <2>3. (before \o <<h>>) \o tail = before \o (<<h>> \o tail)
    BY <1>2, <2>1, <2>2, ConcatAssociative
  <2> QED
    BY <1>6, <2>3 DEF before
<1>11. /\ Advanced(l, rest) /\ Items(rest) \subseteq Items(list) \ {h}
       /\ ServersOf(catalog') \o rest = ServersOf(catalog) \o list
       /\ ProcessesOf(catalog') = ProcessesOf(catalog) \cup ({p} \ {Nothing})
  BY <1>7, <1>8, <1>9, <1>10
<1> QED
  BY <1>2, <1>7, <1>11 DEF list, h

LEMMA ServersAreSeq ==
  ASSUME NEW entries \in Seq(Tools!Entry)
  PROVE  ServersOf(entries) \in Seq(Servers)
<1> DEFINE n == Len(entries)
<1>1. n \in Nat /\ DOMAIN entries = 1..n
  BY LenProperties
<1>2. ASSUME NEW i \in 1..n PROVE entries[i].server \in Servers
  <2>1. entries[i] \in Tools!Entry
    BY ElementOfSeq
  <2> QED
    BY <2>1 DEF Tools!Entry
<1>3. ServersOf(entries) = [i \in 1..n |-> entries[i].server]
  BY <1>1 DEF ServersOf
<1> QED
  BY <1>1, <1>2, <1>3, IsASeq

LEMMA AdvancedPoints ==
  ASSUME Tools!TypeOK, NEW l \in Loads, NEW rest, Advanced(l, rest)
  PROVE  /\ catalog' \in Seq(Tools!Entry)
         /\ todo' \in [Loads -> Seq(Servers)]
         /\ loading' \in [Loads -> {"idle", "close", "connect", "clean", "returned"}]
         /\ todo'[l] = rest
         /\ loading'[l] = IF rest = <<>> THEN "returned" ELSE "connect"
         /\ \A k \in Loads \ {l} : todo'[k] = todo[k] /\ loading'[k] = loading[k]
BY DEF Tools!TypeOK, Advanced

\* A load that advances has entered what it read, if it is the only one.
LEMMA AdvanceIsSerial ==
  ASSUME Tools!TypeOK, LoadInv, NEW l \in Loads, NEW rest, Advanced(l, rest),
         \A k \in Loads \ {l} : closing'[k] = closing[k]
  PROVE  /\ LoadInv'
         /\ /\ overlapped' \/ \A k \in Loads \ {l} : ~Tools!Running(k)
            /\ overlapped' \/ read' = ServersOf(catalog') \o rest
            => SerialInv'
<1>1. /\ todo'[l] = rest /\ Distinct(rest)
      /\ loading'[l] = IF rest = <<>> THEN "returned" ELSE "connect"
      /\ \A k \in Loads \ {l} : todo'[k] = todo[k] /\ loading'[k] = loading[k]
      /\ catalog' \in Seq(Tools!Entry)
  BY AdvancedPoints DEF Advanced
<1>2. LoadInv'
  BY <1>1 DEF LoadInv, Distinct
<1>3. ASSUME overlapped' \/ \A k \in Loads \ {l} : ~Tools!Running(k),
             overlapped' \/ read' = ServersOf(catalog') \o rest
      PROVE  SerialInv'
  <2>0. SUFFICES ASSUME ~overlapped' PROVE SerialInv'
    BY DEF SerialInv
  <2>1. \A k \in Loads : Tools!Running(k)' => k = l
    BY <1>1, <1>3, <2>0 DEF Tools!Running
  <2>2. \A k \in Loads : loading'[k] \in {"connect", "clean"} => k = l
    BY <2>1 DEF Tools!Running
  <2>3. rest = <<>> => read' = ServersOf(catalog')
    <3>1. ServersOf(catalog') \in Seq(Servers)
      BY <1>1, ServersAreSeq
    <3> QED
      BY <1>3, <2>0, <3>1, ConcatEmptySeq
  <2> QED
    BY <1>1, <1>3, <2>0, <2>1, <2>2, <2>3 DEF SerialInv
<1> QED
  BY <1>2, <1>3

LEMMA RestartKeeps ==
  ASSUME ToolInv, NEW l \in Loads, Tools!Restart(l),
         \A k \in Loads \ {l} : closing'[k] = closing[k],
         overlapped' \/ \A k \in Loads \ {l} : ~Tools!Running(k),
         overlapped' \/ stuck' \/ alive' = {}
  PROVE  LoadInv' /\ CacheInv' /\ SerialInv' /\ LeanInv'
<1>0. Tools!TypeOK /\ LoadInv
  BY DEF ToolInv
<1>1. PICK rest : /\ Advanced(l, rest)
                  /\ cache' = <<>> /\ read' = file
                  /\ ServersOf(catalog') \o rest = file
                  /\ ProcessesOf(catalog') = {}
  BY <1>0, RestartReads
<1>2. Tools!Cached' = {}
  BY <1>1 DEF Tools!Cached
<1>3. LoadInv' /\ SerialInv'
  BY <1>0, <1>1, AdvanceIsSerial DEF SerialInv
<1>4. CacheInv'
  BY <1>1, <1>2 DEF CacheInv
<1>5. LeanInv'
  BY DEF LeanInv
<1> QED
  BY <1>3, <1>4, <1>5

LEMMA BeginKeeps ==
  ASSUME ToolInv, NEW l \in Loads, Tools!Begin(l)
  PROVE  ToolInv'
<1>0. Tools!TypeOK /\ LoadInv /\ CacheInv /\ SerialInv /\ LeanInv
  BY DEF ToolInv
<1>1. /\ loading[l] = "idle" /\ UNCHANGED <<file, edits, alive, stuck>>
      /\ overlapped' = (overlapped \/ \E k \in Loads : Tools!Running(k))
  BY DEF Tools!Begin
<1>2. overlapped' \in BOOLEAN
  BY <1>1, Zenon
<1>3. ~overlapped' => ~overlapped /\ \A k \in Loads : ~Tools!Running(k)
  BY <1>1, Zenon
<1>4. \A k \in Loads : ~Tools!Running(k) => loading[k] \notin {"close", "connect", "clean"}
  BY DEF Tools!Running
<1>5. CASE cache = <<>> /\ Tools!Restart(l) /\ UNCHANGED closing
  <2>1. Tools!Cached = {}
    BY <1>5 DEF Tools!Cached
  <2>2. overlapped' \/ stuck' \/ alive' = {}
    BY <1>0, <1>1, <1>3, <1>4, <2>1 DEF LeanInv
  <2>3. LoadInv' /\ CacheInv' /\ SerialInv' /\ LeanInv'
    BY <1>3, <1>5, <2>2, RestartKeeps
  <2>4. PICK rest : Advanced(l, rest) /\ cache' = <<>> /\ read' = file
    BY <1>0, <1>5, RestartReads
  <2>5. Tools!TypeOK'
    BY <1>0, <1>1, <1>2, <1>5, <2>4, AdvancedPoints DEF Tools!TypeOK
  <2> QED
    BY <2>3, <2>5 DEF ToolInv
<1>6. CASE /\ cache # <<>> /\ closing' = [closing EXCEPT ![l] = cache]
           /\ loading' = [loading EXCEPT ![l] = "close"]
           /\ UNCHANGED <<cache, catalog, todo, read>>
  <2>1. Tools!TypeOK'
    BY <1>0, <1>1, <1>2, <1>6 DEF Tools!TypeOK
  <2>2. /\ closing'[l] = cache /\ loading'[l] = "close"
        /\ \A k \in Loads \ {l} : closing'[k] = closing[k] /\ loading'[k] = loading[k]
        /\ UNCHANGED <<cache, catalog, todo, read, alive, stuck>>
    BY <1>0, <1>1, <1>6 DEF Tools!TypeOK
  <2>3. LoadInv'
    BY <1>0, <1>6, <2>2 DEF LoadInv, Distinct
  <2>4. Tools!Cached' = Tools!Cached /\ Tools!Cached = Items(cache)
    BY <2>2 DEF Tools!Cached, Items
  <2>5. CacheInv'
    BY <1>0, <2>2, <2>4 DEF CacheInv, ProcessesOf, Items
  <2>6. ASSUME ~overlapped'
        PROVE  /\ \A k \in Loads \ {l} : loading'[k] \notin {"close", "connect", "clean"}
               /\ \A k \in Loads : Tools!Running(k)' => k = l
               /\ read = ServersOf(catalog)
    <3>1. ~overlapped /\ \A k \in Loads : ~Tools!Running(k)
      BY <1>3, <2>6
    <3>2. read = ServersOf(catalog)
      BY <1>0, <1>4, <3>1 DEF SerialInv
    <3>3. \A k \in Loads : Tools!Running(k)' => k = l
      BY <2>2, <3>1 DEF Tools!Running
    <3> QED
      BY <1>4, <2>2, <3>1, <3>2, <3>3
  <2>7. ServersOf(catalog)' = ServersOf(catalog)
    BY <2>2 DEF ServersOf
  <2>8. SerialInv'
    BY <2>2, <2>6, <2>7 DEF SerialInv
  <2>9. ASSUME ~overlapped', ~stuck' PROVE alive' \subseteq Items(closing'[l])
    BY <1>0, <1>1, <1>3, <1>4, <2>2, <2>4, <2>9 DEF LeanInv
  <2>10. LeanInv'
    BY <2>2, <2>6, <2>9 DEF LeanInv, Items
  <2> QED
    BY <2>1, <2>3, <2>5, <2>8, <2>10 DEF ToolInv
<1> QED
  BY <1>5, <1>6 DEF Tools!Begin

\* What a close leaves of the processes and of a list to close.
LEMMA TailLosesHead ==
  ASSUME NEW list \in Seq(Tools!Process), list # <<>>
  PROVE  /\ Tail(list) \in Seq(Tools!Process) /\ Head(list) \in Tools!Process
         /\ Items(list) \subseteq Items(Tail(list)) \cup {Head(list)}
         /\ Len(list) = 1 => Items(list) = {Head(list)}
         /\ Len(list) > 1 => Tail(list) # <<>>
         /\ Len(list) = 1 \/ Len(list) > 1
<1> DEFINE n == Len(list)
           tail == Tail(list)
<1>1. n \in Nat /\ n >= 1 /\ DOMAIN list = 1..n
  BY EmptySeq, LenProperties
<1>2. /\ Head(list) \in Tools!Process /\ tail \in Seq(Tools!Process) /\ Len(tail) = n - 1
      /\ \A i \in 1..Len(tail) : tail[i] = list[i + 1]
  BY HeadTailProperties
<1>3. Head(list) = list[1]
  OBVIOUS
<1>4. DOMAIN tail = 1..(n - 1)
  BY <1>2, LenProperties
<1> HIDE DEF n, tail
<1>5. ASSUME NEW i \in 1..n PROVE list[i] \in Items(tail) \cup {Head(list)}
  <2>1. CASE i = 1
    BY <1>3, <2>1
  <2>2. CASE i # 1
    <3>1. i - 1 \in 1..(n - 1) /\ (i - 1) + 1 = i
      BY <1>1, <2>2
    <3>2. tail[i - 1] = list[i]
      BY <1>2, <3>1
    <3> QED
      BY <1>4, <3>1, <3>2 DEF Items
  <2> QED
    BY <2>1, <2>2
<1>6. Items(list) \subseteq Items(tail) \cup {Head(list)}
  BY <1>1, <1>5 DEF Items
<1>7. n = 1 => Items(list) = {Head(list)}
  BY <1>1, <1>3 DEF Items
<1>8. n > 1 => tail # <<>>
  BY <1>1, <1>2
<1> QED
  BY <1>1, <1>2, <1>6, <1>7, <1>8 DEF n, tail

LEMMA CloseKeeps ==
  ASSUME ToolInv, NEW l \in Loads, Tools!Close(l)
  PROVE  ToolInv'
<1>0. Tools!TypeOK /\ LoadInv /\ CacheInv /\ SerialInv /\ LeanInv
  BY DEF ToolInv
<1> DEFINE list == closing[l]
<1>1. /\ loading[l] = "close" /\ UNCHANGED <<file, edits, overlapped>>
      /\ closing' = [closing EXCEPT ![l] = Tail(list)]
      /\ Tools!Closed(Head(list))
  BY DEF Tools!Close
<1>2. list \in Seq(Tools!Process) /\ list # <<>>
  BY <1>0, <1>1 DEF Tools!TypeOK, LoadInv
<1>3. /\ Tail(list) \in Seq(Tools!Process) /\ Head(list) \in Tools!Process
      /\ Items(list) \subseteq Items(Tail(list)) \cup {Head(list)}
      /\ Len(list) = 1 => Items(list) = {Head(list)}
      /\ Len(list) > 1 => Tail(list) # <<>>
  BY <1>2, TailLosesHead
<1>4. alive' \subseteq alive /\ stuck' \in BOOLEAN
  BY <1>0, <1>1, Zenon DEF Tools!Closed, Tools!TypeOK
<1>5. ~stuck' => ~stuck /\ alive' = alive \ {Head(list)}
  BY <1>1, Zenon DEF Tools!Closed
<1>6. /\ closing' \in [Loads -> Seq(Tools!Process)] /\ closing'[l] = Tail(list)
      /\ \A k \in Loads \ {l} : closing'[k] = closing[k]
  BY <1>0, <1>1, <1>3 DEF Tools!TypeOK
<1>7. ASSUME ~overlapped PROVE \A k \in Loads \ {l} : ~Tools!Running(k)
  BY <1>0, <1>1, <1>7 DEF SerialInv, Tools!Running
<1>8. ASSUME ~overlapped, ~stuck' PROVE alive' \subseteq Items(Tail(list)) /\
                                       (Len(list) = 1 => alive' = {})
  BY <1>0, <1>1, <1>3, <1>5, <1>8 DEF LeanInv
<1> HIDE DEF list
<1>9. CASE Len(list) = 1 /\ Tools!Restart(l)
  <2>1. LoadInv' /\ CacheInv' /\ SerialInv' /\ LeanInv'
    BY <1>1, <1>6, <1>7, <1>8, <1>9, RestartKeeps
  <2>2. PICK rest : Advanced(l, rest) /\ cache' = <<>> /\ read' = file
    BY <1>0, <1>9, RestartReads
  <2>3. Tools!TypeOK'
    BY <1>0, <1>1, <1>4, <1>6, <2>2, AdvancedPoints DEF Tools!TypeOK
  <2> QED
    BY <2>1, <2>3 DEF ToolInv
<1>10. CASE Len(list) > 1 /\ UNCHANGED <<cache, catalog, loading, todo, read>>
  <2>1. Tools!TypeOK'
    BY <1>0, <1>1, <1>4, <1>6, <1>10 DEF Tools!TypeOK
  <2>2. LoadInv'
    BY <1>0, <1>3, <1>6, <1>10 DEF LoadInv, Distinct
  <2>3. CacheInv'
    BY ZenonT(60), <1>0, <1>1, <1>10 DEF CacheInv, Tools!Cached, ProcessesOf, Items
  <2>4. SerialInv'
    BY <1>0, <1>1, <1>10 DEF SerialInv, Tools!Running, ServersOf
  <2>5. LeanInv'
    <3>1. ASSUME ~overlapped, ~stuck' PROVE alive' \subseteq Items(closing'[l])
      BY <1>6, <1>8, <3>1
    <3>2. \A k \in Loads : ~overlapped /\ loading'[k] \in {"close", "clean"} => k = l
      BY <1>7, <1>10 DEF Tools!Running
    <3> QED
      BY <1>1, <1>10, <3>1, <3>2 DEF LeanInv, Items
  <2> QED
    BY <2>1, <2>2, <2>3, <2>4, <2>5 DEF ToolInv
<1> QED
  BY <1>9, <1>10 DEF Tools!Close, list

LEMMA ConnectKeeps ==
  ASSUME ToolInv, NEW l \in Loads, Tools!Connect(l)
  PROVE  ToolInv'
<1>0. Tools!TypeOK /\ LoadInv /\ CacheInv /\ SerialInv /\ LeanInv
  BY DEF ToolInv
<1> DEFINE cur == Tools!Current(l)
           head == Head(todo[l])
<1>1. /\ loading[l] = "connect" /\ todo[l] # <<>> /\ Distinct(todo[l])
      /\ UNCHANGED <<file, edits, closing, read, overlapped, stuck>>
      /\ alive' = alive \cup {cur} /\ cache' = Append(cache, cur)
      /\ cur = <<l, head>>
      /\ Tools!Loop(l, Append(catalog, [server |-> head, process |-> cur]), Tail(todo[l]))
  BY <1>0 DEF Tools!Connect, Tools!Current, LoadInv
<1>2. cur \in Tools!Process
  <2>1. todo[l] \in Seq(Servers)
    BY <1>0 DEF Tools!TypeOK
  <2>2. head \in Servers
    BY <1>1, <2>1, HeadTailProperties
  <2> QED
    BY <1>1, <2>2 DEF Tools!Process
<1> HIDE DEF cur, head
<1>3. /\ head \in Items(todo[l])
      /\ \E rest : /\ Advanced(l, rest)
                   /\ Items(rest) \subseteq Items(todo[l]) \ {head}
                   /\ ServersOf(catalog') \o rest = ServersOf(catalog) \o todo[l]
                   /\ ProcessesOf(catalog') = ProcessesOf(catalog) \cup ({cur} \ {Nothing})
  BY <1>0, <1>1, <1>2, HeadEnters DEF head
<1>4. PICK rest : /\ Advanced(l, rest)
                  /\ Items(rest) \subseteq Items(todo[l]) \ {head}
                  /\ ServersOf(catalog') \o rest = ServersOf(catalog) \o todo[l]
                  /\ ProcessesOf(catalog') = ProcessesOf(catalog) \cup ({cur} \ {Nothing})
  BY <1>3
<1>5. /\ catalog' \in Seq(Tools!Entry)
      /\ todo' \in [Loads -> Seq(Servers)]
      /\ loading' \in [Loads -> {"idle", "close", "connect", "clean", "returned"}]
      /\ todo'[l] = rest /\ loading'[l] \in {"returned", "connect"}
      /\ \A k \in Loads \ {l} : todo'[k] = todo[k] /\ loading'[k] = loading[k]
  BY <1>0, <1>4, AdvancedPoints
<1>6. cache' \in Seq(Tools!Process) /\ Tools!Cached' = Tools!Cached \cup {cur}
  <2> DEFINE n == Len(cache)
  <2>1. cache \in Seq(Tools!Process) /\ n \in Nat /\ DOMAIN cache = 1..n
    BY <1>0, LenProperties DEF Tools!TypeOK
  <2>2. /\ cache' \in Seq(Tools!Process) /\ Len(cache') = n + 1
        /\ \A i \in 1..n : cache'[i] = cache[i]
        /\ cache'[n + 1] = cur
    BY <1>1, <1>2, <2>1, AppendProperties
  <2>3. DOMAIN cache' = 1..(n + 1)
    BY <2>2, LenProperties
  <2> HIDE DEF n
  <2>4. 1..(n + 1) = 1..n \cup {n + 1}
    BY <2>1
  <2> QED
    BY <2>1, <2>2, <2>3, <2>4 DEF Tools!Cached
<1>7. Tools!TypeOK'
  BY <1>0, <1>1, <1>2, <1>5, <1>6 DEF Tools!TypeOK
<1>8. ~overlapped => \A k \in Loads \ {l} : ~Tools!Running(k)
  BY <1>0, <1>1 DEF SerialInv, Tools!Running
<1>9. ~overlapped => read = ServersOf(catalog) \o todo[l]
  BY <1>0, <1>1 DEF SerialInv
<1>10. LoadInv' /\ SerialInv'
  BY <1>0, <1>1, <1>4, <1>8, <1>9, AdvanceIsSerial
<1>11. CacheInv'
  <2>1. cur # Nothing
    BY <1>2, ToolAssumed
  <2>2. Tools!Cached' = ProcessesOf(catalog')
    BY <1>0, <1>4, <1>6, <2>1 DEF CacheInv
  <2>3. Tools!Cached' \subseteq alive' \/ \E k \in Loads : loading'[k] = "close"
    BY <1>0, <1>1, <1>5, <1>6 DEF CacheInv
  <2>4. ASSUME NEW k \in Loads, NEW s \in Items(todo'[k]) PROVE <<k, s>> \notin Tools!Cached'
    <3>1. CASE k = l
      BY <1>0, <1>1, <1>4, <1>5, <1>6, <2>4, <3>1 DEF CacheInv
    <3>2. CASE k # l
      BY <1>0, <1>1, <1>5, <1>6, <2>4, <3>2 DEF CacheInv
    <3> QED
      BY <3>1, <3>2
  <2>5. ProcessesOf(catalog)' = ProcessesOf(catalog')
    BY DEF ProcessesOf
  <2> QED
    BY <2>2, <2>3, <2>4, <2>5 DEF CacheInv, Items
<1>12. LeanInv'
  <2>1. SUFFICES ASSUME ~overlapped', ~stuck' PROVE LeanInv'
    BY DEF LeanInv
  <2>2. \A k \in Loads : loading[k] \notin {"close", "clean"} /\ loading'[k] \notin {"close",
            "clean"}
    BY <1>1, <1>5, <1>8, <2>1 DEF Tools!Running
  <2>3. alive' \subseteq Tools!Cached'
    BY <1>0, <1>1, <1>6, <2>1, <2>2 DEF LeanInv
  <2> QED
    BY <2>2, <2>3 DEF LeanInv
<1> QED
  BY <1>7, <1>10, <1>11, <1>12 DEF ToolInv

LEMMA FailKeeps ==
  ASSUME ToolInv, NEW l \in Loads, Tools!Fail(l)
  PROVE  ToolInv'
<1>0. Tools!TypeOK /\ LoadInv /\ CacheInv /\ SerialInv /\ LeanInv
  BY DEF ToolInv
<1> DEFINE cur == Tools!Current(l)
<1>1. /\ loading[l] = "connect" /\ todo[l] # <<>>
      /\ alive' \in {alive, alive \cup {cur}}
      /\ loading' = [loading EXCEPT ![l] = "clean"]
      /\ UNCHANGED <<file, edits, cache, catalog, closing, todo, read, overlapped, stuck>>
  BY <1>0 DEF Tools!Fail, LoadInv
<1>2. cur \in Tools!Process
  <2>1. todo[l] \in Seq(Servers)
    BY <1>0 DEF Tools!TypeOK
  <2>2. Head(todo[l]) \in Servers
    BY <1>1, <2>1, HeadTailProperties
  <2> QED
    BY <2>2 DEF Tools!Process, Tools!Current
<1>3. cur' = cur
  BY <1>1 DEF Tools!Current
<1>4. \A k \in Loads : loading'[k] = IF k = l THEN "clean" ELSE loading[k]
  BY <1>0, <1>1 DEF Tools!TypeOK
<1> HIDE DEF cur
<1>5. Tools!TypeOK'
  BY <1>0, <1>1, <1>2 DEF Tools!TypeOK
<1>6. LoadInv'
  BY <1>0, <1>1, <1>4 DEF LoadInv, Distinct
<1>7. CacheInv'
  BY <1>0, <1>1, <1>4 DEF CacheInv, Tools!Cached, ProcessesOf, Items
<1>8. SerialInv'
  <2>1. \A k \in Loads : Tools!Running(k)' <=> Tools!Running(k)
    BY <1>1, <1>4 DEF Tools!Running
  <2>2. \A k \in Loads : loading'[k] \in {"connect", "clean"} <=> loading[k] \in {"connect",
            "clean"}
    BY <1>1, <1>4
  <2> QED
    BY ZenonT(60), <1>0, <1>1, <2>1, <2>2 DEF SerialInv, ServersOf
<1>9. LeanInv'
  <2>1. SUFFICES ASSUME ~overlapped', ~stuck' PROVE LeanInv'
    BY DEF LeanInv
  <2>2. \A k \in Loads \ {l} : loading[k] \notin {"close", "connect", "clean"}
    BY <1>0, <1>1, <2>1 DEF SerialInv, Tools!Running
  <2>3. alive \subseteq Tools!Cached
    BY <1>0, <1>1, <2>1, <2>2 DEF LeanInv
  <2>4. alive' \subseteq Tools!Cached' \cup {Tools!Current(l)'}
    BY <1>1, <1>3, <2>3 DEF Tools!Cached, cur
  <2> QED
    BY <1>4, <2>2, <2>4 DEF LeanInv
<1> QED
  BY <1>5, <1>6, <1>7, <1>8, <1>9 DEF ToolInv

LEMMA CleanKeeps ==
  ASSUME ToolInv, NEW l \in Loads, Tools!Clean(l)
  PROVE  ToolInv'
<1>0. Tools!TypeOK /\ LoadInv /\ CacheInv /\ SerialInv /\ LeanInv
  BY DEF ToolInv
<1> DEFINE cur == Tools!Current(l)
           head == Head(todo[l])
<1>1. /\ loading[l] = "clean" /\ todo[l] # <<>> /\ Distinct(todo[l])
      /\ UNCHANGED <<file, edits, cache, closing, read, overlapped>>
      /\ Tools!Closed(cur) /\ cur = <<l, head>>
      /\ Tools!Loop(l, Append(catalog, [server |-> head, process |-> Nothing]), Tail(todo[l]))
  BY <1>0 DEF Tools!Clean, Tools!Current, Tools!Unavailable, LoadInv
<1>2. alive' \subseteq alive /\ alive \ {cur} \subseteq alive' /\ stuck' \in BOOLEAN
  BY <1>0, <1>1, Zenon DEF Tools!Closed, Tools!TypeOK
<1>3. ~stuck' => ~stuck /\ alive' = alive \ {cur}
  BY <1>1, Zenon DEF Tools!Closed
<1> HIDE DEF cur, head
<1>4. /\ head \in Items(todo[l])
      /\ \E rest : /\ Advanced(l, rest)
                   /\ Items(rest) \subseteq Items(todo[l]) \ {head}
                   /\ ServersOf(catalog') \o rest = ServersOf(catalog) \o todo[l]
                   /\ ProcessesOf(catalog') = ProcessesOf(catalog) \cup ({Nothing} \ {Nothing})
  BY <1>0, <1>1, HeadEnters DEF head
<1>5. PICK rest : /\ Advanced(l, rest)
                  /\ Items(rest) \subseteq Items(todo[l]) \ {head}
                  /\ ServersOf(catalog') \o rest = ServersOf(catalog) \o todo[l]
                  /\ ProcessesOf(catalog') = ProcessesOf(catalog)
  BY <1>4
<1>6. /\ catalog' \in Seq(Tools!Entry)
      /\ todo' \in [Loads -> Seq(Servers)]
      /\ loading' \in [Loads -> {"idle", "close", "connect", "clean", "returned"}]
      /\ todo'[l] = rest /\ loading'[l] \in {"returned", "connect"}
      /\ \A k \in Loads \ {l} : todo'[k] = todo[k] /\ loading'[k] = loading[k]
  BY <1>0, <1>5, AdvancedPoints
<1>7. cur \notin Tools!Cached /\ Tools!Cached' = Tools!Cached
  BY <1>0, <1>1, <1>4 DEF CacheInv, Tools!Cached
<1>8. Tools!TypeOK'
  BY <1>0, <1>1, <1>2, <1>6 DEF Tools!TypeOK
<1>9. ~overlapped => \A k \in Loads \ {l} : ~Tools!Running(k)
  BY <1>0, <1>1 DEF SerialInv, Tools!Running
<1>10. ~overlapped => read = ServersOf(catalog) \o todo[l]
  BY <1>0, <1>1 DEF SerialInv
<1>11. LoadInv' /\ SerialInv'
  BY <1>0, <1>1, <1>5, <1>9, <1>10, AdvanceIsSerial
<1>12. CacheInv'
  <2>1. Tools!Cached' = ProcessesOf(catalog')
    BY <1>0, <1>5, <1>7 DEF CacheInv
  <2>2. Tools!Cached' \subseteq alive' \/ \E k \in Loads : loading'[k] = "close"
    BY <1>0, <1>1, <1>2, <1>6, <1>7 DEF CacheInv
  <2>3. ASSUME NEW k \in Loads, NEW s \in Items(todo'[k]) PROVE <<k, s>> \notin Tools!Cached'
    <3>1. CASE k = l
      BY <1>0, <1>5, <1>6, <1>7, <2>3, <3>1 DEF CacheInv
    <3>2. CASE k # l
      BY <1>0, <1>6, <1>7, <2>3, <3>2 DEF CacheInv
    <3> QED
      BY <3>1, <3>2
  <2>4. ProcessesOf(catalog)' = ProcessesOf(catalog')
    BY DEF ProcessesOf
  <2> QED
    BY <2>1, <2>2, <2>3, <2>4 DEF CacheInv, Items
<1>13. LeanInv'
  <2>1. SUFFICES ASSUME ~overlapped', ~stuck' PROVE LeanInv'
    BY DEF LeanInv
  <2>2. \A k \in Loads : loading'[k] \notin {"close", "clean"}
    BY <1>1, <1>6, <1>9, <2>1 DEF Tools!Running
  <2>3. alive \subseteq Tools!Cached \cup {cur}
    BY <1>0, <1>1, <1>3, <2>1 DEF LeanInv, cur
  <2>4. alive' \subseteq Tools!Cached'
    BY <1>3, <1>7, <2>1, <2>3
  <2> QED
    BY <2>2, <2>4 DEF LeanInv
<1> QED
  BY <1>8, <1>11, <1>12, <1>13 DEF ToolInv

\* An edit writes the file only: what was read, and all that follows from it, stays.
LEMMA EditKeeps ==
  ASSUME ToolInv, file' \in Files, edits' \in 0..MaxEdits,
         UNCHANGED <<cache, catalog, alive, loading, closing, todo, read, overlapped, stuck>>
  PROVE  ToolInv'
<1>1. Tools!TypeOK'
  BY DEF ToolInv, Tools!TypeOK
<1>2. /\ Tools!Cached' = Tools!Cached /\ ProcessesOf(catalog)' = ProcessesOf(catalog)
      /\ ServersOf(catalog)' = ServersOf(catalog)
  BY DEF Tools!Cached, ProcessesOf, ServersOf
<1>3. LoadInv'
  BY DEF ToolInv, LoadInv, Distinct
<1>4. CacheInv'
  BY <1>2 DEF ToolInv, CacheInv, Items
<1>5. SerialInv'
  BY <1>2 DEF ToolInv, SerialInv, Tools!Running
<1>6. LeanInv'
  BY <1>2 DEF ToolInv, LeanInv, Items, Tools!Current
<1> QED
  BY <1>1, <1>3, <1>4, <1>5, <1>6 DEF ToolInv

LEMMA ToolsAlways == Spec => []ToolInv
<1>1. Init => ToolInv
  <2>1. SUFFICES ASSUME Init PROVE ToolInv
    OBVIOUS
  <2>2. Tools!Init
    BY <2>1 DEF Init
  <2>3. Tools!TypeOK
    <3>1. <<>> \in Seq(Tools!Process) /\ <<>> \in Seq(Tools!Entry) /\ <<>> \in Seq(Servers)
      OBVIOUS
    <3>2. loading \in [Loads -> {"idle", "close", "connect", "clean", "returned"}]
      BY <2>2 DEF Tools!Init
    <3>3. closing \in [Loads -> Seq(Tools!Process)] /\ todo \in [Loads -> Seq(Servers)]
      BY <2>2, <3>1 DEF Tools!Init
    <3>4. edits \in 0..MaxEdits
      BY <2>2, ToolAssumed DEF Tools!Init
    <3> QED
      BY <2>2, <3>1, <3>2, <3>3, <3>4 DEF Tools!Init, Tools!TypeOK
  <2>4. \A l \in Loads : loading[l] = "idle" /\ todo[l] = <<>>
    BY <2>2 DEF Tools!Init
  <2>5. /\ Tools!Cached = {} /\ ProcessesOf(catalog) = {} /\ ServersOf(catalog) = <<>>
        /\ alive = {} /\ read = <<>>
    BY <2>2 DEF Tools!Init, Tools!Cached, ProcessesOf, ServersOf
  <2>6. LoadInv /\ CacheInv
    BY <2>4, <2>5 DEF LoadInv, CacheInv, Items, Distinct
  <2>7. SerialInv /\ LeanInv
    BY <2>4, <2>5 DEF SerialInv, LeanInv, Tools!Running
  <2> QED
    BY <2>3, <2>6, <2>7 DEF ToolInv
<1>2. ToolInv /\ Tools!Edit => ToolInv'
  BY EditKeeps, ToolAssumed DEF Tools!Edit, ToolInv, Tools!TypeOK
<1>3. ToolInv /\ Tools!Next => ToolInv'
  BY BeginKeeps, CloseKeeps, ConnectKeeps, FailKeeps, CleanKeeps, <1>2 DEF Tools!Next
<1>4. ToolInv /\ UNCHANGED toolVars => ToolInv'
  BY EditKeeps DEF toolVars, ToolInv, Tools!TypeOK
<1>5. ToolInv /\ [Next]_allVars => ToolInv'
  BY <1>3, <1>4 DEF Next, allVars
<1> QED
  BY <1>1, <1>5, PTL DEF Spec, allVars

\* However reloads, edits of the configuration and failing servers interleave: between
\* reloads agents are given connected tools, those the catalog calls available; after
\* reloads one at a time, the servers of the file they read and no process besides.
THEOREM ToolsAreLive == Spec => []CacheIsLive
<1>1. ASSUME ToolInv, \A l \in Loads : ~Tools!Running(l)
      PROVE  /\ Tools!Cached \subseteq alive
             /\ Tools!Cached = {catalog[i].process : i \in DOMAIN catalog} \ {Nothing}
             /\ ~overlapped => /\ read = [i \in DOMAIN catalog |-> catalog[i].server]
                               /\ ~stuck => alive = Tools!Cached
  <2>1. \A l \in Loads : loading[l] \notin {"close", "connect", "clean"}
    BY <1>1 DEF Tools!Running
  <2>2. Tools!Cached \subseteq alive /\ Tools!Cached = ProcessesOf(catalog)
    BY <1>1, <2>1 DEF ToolInv, CacheInv
  <2>3. ~overlapped => read = ServersOf(catalog)
    BY <1>1, <2>1 DEF ToolInv, SerialInv
  <2>4. ~overlapped /\ ~stuck => alive = Tools!Cached
    BY <1>1, <2>1, <2>2 DEF ToolInv, LeanInv
  <2> QED
    BY <2>2, <2>3, <2>4 DEF ProcessesOf, ServersOf
<1>2. ToolInv => CacheIsLive
  BY <1>1 DEF CacheIsLive, Tools!CacheIsLive
<1> QED
  BY <1>2, ToolsAlways, PTL

-----------------------------------------------------------------------------
(* Session history: the transcript says what the user has seen *)

\* A line that says something: not the empty text of a turn with nothing new.
Says(line) == line.kind # "told" \/ line.part # 0

\* f places the lines of s in list, in their order; and list says nothing that
\* is not in s, nor says it before its place.
Follows(list, s, f) ==
    /\ f \in [DOMAIN s -> DOMAIN list]
    /\ \A i \in DOMAIN s : list[f[i]] = s[i]
    /\ \A i, j \in DOMAIN s : i < j => f[i] < f[j]
    /\ \A k \in DOMAIN list : Says(list[k]) => \E i \in DOMAIN s : s[i] = list[k] /\ f[i] <= k

\* After line cut of list there are only answers; s has u lines up to there.
CutAt(list, s, f, cut, u) ==
    /\ cut \in 0..Len(list) /\ u \in 0..Len(s)
    /\ cut = 0 \/ list[cut].kind = "user"
    /\ \A k \in (cut + 1)..Len(list) : list[k].kind # "user"
    /\ \A i \in DOMAIN s : i <= u <=> f[i] <= cut

\* The pieces told end with the lines of s after u; those before are in s up to u.
EndsWith(s, u, told) ==
    /\ Len(s) - u <= Len(told)
    /\ \A j \in DOMAIN told :
         IF j <= Len(told) - (Len(s) - u)
         THEN \E i \in 1..u : s[i] = History!Told(told[j])
         ELSE s[Len(s) - Len(told) + j] = History!Told(told[j])

\* No piece of the queue is told twice, and none has been told in s.
Fresh(s, queue) ==
    /\ Distinct(queue)
    /\ \A i \in DOMAIN s, j \in DOMAIN queue : s[i] # History!Told(queue[j])

\* The transcript list follows s; and seen, which s is a beginning of, goes on
\* with the pieces told.
Seen(list, s) == \E f : Follows(list, s, f)
Settled(list, s, seen, told) ==
    \E f : \E cut \in Nat, u \in Nat : /\ Follows(list, s, f)
                                       /\ CutAt(list, s, f, cut, u)
                                       /\ EndsWith(seen, u, told)

LEMMA HistoryAssumed ==
  /\ MaxParts \in Nat \ {0}
  /\ Turns \cap Pollers = {} /\ Nothing \notin Turns /\ Nothing \notin Pollers
  /\ "delete" \notin Turns /\ "delete" \notin Pollers
BY AgentsAssumption DEF History!HistoryAssumption

LEMMA LinesTyped ==
  ASSUME NEW pieces \in Seq(History!Pieces)
  PROVE  /\ History!Lines(pieces) \in Seq(History!Line)
         /\ Len(History!Lines(pieces)) = Len(pieces)
         /\ \A i \in DOMAIN pieces : /\ History!Lines(pieces)[i] = History!Told(pieces[i])
                                     /\ Says(History!Told(pieces[i]))
<1>1. ASSUME NEW piece \in History!Pieces
      PROVE  History!Told(piece) \in History!Line /\ Says(History!Told(piece))
  BY HistoryAssumed DEF History!Pieces, History!Told, History!Line, Says
<1>2. \A i \in DOMAIN pieces : pieces[i] \in History!Pieces
  OBVIOUS
<1>3. Len(pieces) \in Nat /\ DOMAIN pieces = 1..Len(pieces)
  OBVIOUS
<1>4. History!Lines(pieces) \in [1..Len(pieces) -> History!Line]
  BY <1>1, <1>2, <1>3 DEF History!Lines
<1>5. History!Lines(pieces) \in Seq(History!Line)
  BY <1>3, <1>4
<1>6. DOMAIN History!Lines(pieces) = 1..Len(pieces)
  BY <1>4
<1>7. Len(History!Lines(pieces)) = Len(pieces)
  BY <1>3, <1>5, <1>6
<1> QED
  BY <1>1, <1>2, <1>5, <1>7 DEF History!Lines

\* A line that is added to both is placed at the end.
LEMMA FollowsBoth ==
  ASSUME NEW list \in Seq(History!Line), NEW s \in Seq(History!Line), NEW f,
         Follows(list, s, f), NEW line \in History!Line
  PROVE  Follows(Append(list, line), Append(s, line),
                 [i \in 1..(Len(s) + 1) |-> IF i <= Len(s) THEN f[i] ELSE Len(list) + 1])
<1> DEFINE list1 == Append(list, line)
           s1 == Append(s, line)
           g == [i \in 1..(Len(s) + 1) |-> IF i <= Len(s) THEN f[i] ELSE Len(list) + 1]
<1>1. /\ DOMAIN list = 1..Len(list) /\ DOMAIN list1 = 1..(Len(list) + 1)
      /\ DOMAIN s = 1..Len(s) /\ DOMAIN s1 = 1..(Len(s) + 1)
      /\ Len(list) \in Nat /\ Len(s) \in Nat
      /\ \A k \in 1..Len(list) : list1[k] = list[k]
      /\ \A i \in 1..Len(s) : s1[i] = s[i]
      /\ list1[Len(list) + 1] = line /\ s1[Len(s) + 1] = line
  OBVIOUS
<1>2. \A i \in 1..Len(s) : f[i] \in 1..Len(list) /\ list[f[i]] = s[i]
  BY <1>1 DEF Follows
<1> HIDE DEF list1, s1
<1>3. g \in [DOMAIN s1 -> DOMAIN list1]
  BY <1>1, <1>2
<1>4. \A i \in DOMAIN s1 : list1[g[i]] = s1[i]
  BY <1>1, <1>2
<1>5. \A i, j \in DOMAIN s1 : i < j => g[i] < g[j]
  <2>1. \A i, j \in 1..Len(s) : i < j => f[i] < f[j]
    BY <1>1 DEF Follows
  <2> QED
    BY <1>1, <1>2, <2>1
<1>6. ASSUME NEW k \in DOMAIN list1, Says(list1[k])
      PROVE  \E i \in DOMAIN s1 : s1[i] = list1[k] /\ g[i] <= k
  <2>1. CASE k = Len(list) + 1
    <3>1. Len(s) + 1 \in DOMAIN s1 /\ g[Len(s) + 1] = k
      BY <1>1, <2>1
    <3> QED
      BY <1>1, <2>1, <3>1
  <2>2. CASE k # Len(list) + 1
    <3>1. k \in DOMAIN list /\ list1[k] = list[k]
      BY <1>1, <2>2
    <3>2. PICK i \in DOMAIN s : s[i] = list[k] /\ f[i] <= k
      BY <1>6, <3>1 DEF Follows
    <3>3. i \in DOMAIN s1 /\ s1[i] = list1[k] /\ g[i] = f[i]
      BY <1>1, <3>1, <3>2
    <3> QED
      BY <3>2, <3>3
  <2> QED
    BY <2>1, <2>2
<1>7. Follows(list1, s1, g)
  BY <1>3, <1>4, <1>5, <1>6 DEF Follows
<1> QED
  BY <1>7 DEF list1, s1

\* A line that says nothing has no place.
LEMMA FollowsSilence ==
  ASSUME NEW list \in Seq(History!Line), NEW s \in Seq(History!Line), NEW f,
         Follows(list, s, f), NEW line, ~Says(line)
  PROVE  Follows(Append(list, line), s, f)
<1> DEFINE list1 == Append(list, line)
<1>1. /\ DOMAIN list = 1..Len(list) /\ DOMAIN list1 = 1..(Len(list) + 1)
      /\ Len(list) \in Nat
      /\ \A k \in 1..Len(list) : list1[k] = list[k]
      /\ list1[Len(list) + 1] = line
  OBVIOUS
<1> HIDE DEF list1
<1>2. f \in [DOMAIN s -> DOMAIN list1] /\ \A i \in DOMAIN s : list1[f[i]] = s[i]
  BY <1>1 DEF Follows
<1>3. \A k \in DOMAIN list1 : Says(list1[k]) => k \in DOMAIN list /\ list1[k] = list[k]
  BY <1>1
<1>4. Follows(list1, s, f)
  BY <1>2, <1>3 DEF Follows
<1> QED
  BY <1>4 DEF list1

\* Replacing the answers at the end of the transcript by all pieces told keeps it
\* to what was seen, the last piece included.
LEMMA RewriteSettles ==
  ASSUME NEW list \in Seq(History!Line), NEW s \in Seq(History!Line),
         NEW line \in History!Line, NEW told \in Seq(History!Pieces),
         NEW f, NEW cut \in Nat, NEW u \in Nat,
         Follows(list, s, f), CutAt(list, s, f, cut, u), EndsWith(Append(s, line), u, told)
  PROVE  Settled(SubSeq(list, 1, cut) \o History!Lines(told), Append(s, line), Append(s, line),
                 told)
<1> DEFINE new == SubSeq(list, 1, cut) \o History!Lines(told)
           t == Append(s, line)
           g == [i \in 1..(Len(s) + 1) |->
                   IF i <= u THEN f[i] ELSE cut + Len(told) - (Len(s) + 1 - i)]
<1>1. /\ Len(list) \in Nat /\ Len(s) \in Nat /\ Len(told) \in Nat /\ DOMAIN told = 1..Len(told)
      /\ DOMAIN list = 1..Len(list) /\ DOMAIN s = 1..Len(s)
      /\ DOMAIN t = 1..(Len(s) + 1) /\ Len(t) = Len(s) + 1
      /\ \A i \in 1..Len(s) : t[i] = s[i]
  OBVIOUS
<1>2. cut <= Len(list) /\ u <= Len(s)
  BY <1>1 DEF CutAt
<1>3. /\ new \in Seq(History!Line) /\ Len(new) = cut + Len(told)
      /\ DOMAIN new = 1..(cut + Len(told))
      /\ \A k \in 1..cut : new[k] = list[k]
      /\ \A j \in 1..Len(told) : new[cut + j] = History!Told(told[j])
  <2>1. /\ SubSeq(list, 1, cut) \in Seq(History!Line) /\ Len(SubSeq(list, 1, cut)) = cut
        /\ \A k \in 1..cut : SubSeq(list, 1, cut)[k] = list[k]
    BY <1>1, <1>2
  <2> DEFINE a == SubSeq(list, 1, cut)
             b == History!Lines(told)
  <2>2. b \in Seq(History!Line) /\ Len(b) = Len(told)
    BY LinesTyped
  <2>3. \A j \in 1..Len(told) : b[j] = History!Told(told[j])
    BY LinesTyped, <1>1
  <2>4. a \in Seq(History!Line) /\ Len(a) = cut
    BY <2>1
  <2>5. \A k \in 1..cut : a[k] = list[k]
    BY <2>1
  <2> HIDE DEF a, b
  <2>6. a \o b \in Seq(History!Line) /\ Len(a \o b) = cut + Len(told)
    <3>1. a \o b \in Seq(History!Line)
      BY <2>2, <2>4
    <3>2. Len(a \o b) = Len(a) + Len(b)
      BY <2>2, <2>4, ConcatProperties
    <3> QED
      BY <2>2, <2>4, <3>1, <3>2
  <2>7. DOMAIN (a \o b) = 1..(cut + Len(told))
    BY <1>1, <2>6
  <2>8. \A k \in 1..cut : (a \o b)[k] = list[k]
    BY <1>1, <2>2, <2>4, <2>5
  <2>9. \A j \in 1..Len(told) : (a \o b)[cut + j] = History!Told(told[j])
    BY <1>1, <2>2, <2>3, <2>4
  <2> QED
    BY <2>6, <2>7, <2>8, <2>9 DEF a, b
<1>4. EndsWith(t, u, told)
  OBVIOUS
<1>5. \A i \in 1..u : f[i] \in 1..cut /\ list[f[i]] = t[i]
  BY <1>1, <1>2 DEF Follows, CutAt
<1> HIDE DEF new, t
<1>6. /\ Len(s) + 1 - u <= Len(told)
      /\ \A j \in 1..Len(told) :
           IF j <= Len(told) - (Len(s) + 1 - u)
           THEN \E i \in 1..u : t[i] = History!Told(told[j])
           ELSE t[Len(s) + 1 - Len(told) + j] = History!Told(told[j])
  <2>1. /\ Len(t) - u <= Len(told)
        /\ \A j \in 1..Len(told) :
             IF j <= Len(told) - (Len(t) - u)
             THEN \E i \in 1..u : t[i] = History!Told(told[j])
             ELSE t[Len(t) - Len(told) + j] = History!Told(told[j])
    BY <1>1, <1>4 DEF EndsWith
  <2>2. Len(t) = Len(s) + 1
    BY <1>1
  <2> QED
    BY <2>1, <2>2
<1>7. \A i \in 1..(Len(s) + 1) :
        IF i <= u THEN g[i] = f[i] /\ g[i] \in 1..cut
                  ELSE /\ g[i] = cut + (Len(told) - (Len(s) + 1 - i))
                       /\ Len(told) - (Len(s) + 1 - i) \in 1..Len(told)
  BY <1>1, <1>2, <1>6, <1>5
<1>8. g \in [DOMAIN t -> DOMAIN new]
  BY SMTT(30), <1>1, <1>3, <1>7
<1>9. \A i \in DOMAIN t : new[g[i]] = t[i]
  <2>1. ASSUME NEW i \in 1..(Len(s) + 1), i <= u PROVE new[g[i]] = t[i]
    BY <1>1, <1>3, <1>5, <1>7, <2>1
  <2>2. ASSUME NEW i \in 1..(Len(s) + 1), ~(i <= u) PROVE new[g[i]] = t[i]
    <3>1. PICK j \in 1..Len(told) : j = Len(told) - (Len(s) + 1 - i)
      BY <1>7, <2>2
    <3>2. g[i] = cut + j /\ Len(s) + 1 - Len(told) + j = i
      BY <1>1, <1>7, <2>2, <3>1
    <3>3. ~(j <= Len(told) - (Len(s) + 1 - u))
      BY <1>1, <2>2, <3>1
    <3> QED
      BY <1>3, <1>6, <3>2, <3>3
  <2> QED
    BY <1>1, <2>1, <2>2
<1>10. \A i, j \in DOMAIN t : i < j => g[i] < g[j]
  <2>1. \A i, j \in 1..u : i < j => f[i] < f[j]
    BY SMTT(30), <1>1, <1>2 DEF Follows
  <2> SUFFICES ASSUME NEW i \in 1..(Len(s) + 1), NEW j \in 1..(Len(s) + 1), i < j
               PROVE  g[i] < g[j]
    BY <1>1
  <2>2. CASE j <= u
    BY <1>1, <1>7, <2>1, <2>2
  <2>3. CASE ~(j <= u) /\ i <= u
    BY <1>1, <1>7, <2>3
  <2>4. CASE ~(j <= u) /\ ~(i <= u)
    BY <1>1, <1>7, <2>4
  <2> QED
    BY <1>1, <2>2, <2>3, <2>4
<1>11. ASSUME NEW k \in DOMAIN new, Says(new[k])
       PROVE  \E i \in DOMAIN t : t[i] = new[k] /\ g[i] <= k
  <2>1. CASE k <= cut
    <3>1. k \in DOMAIN list /\ new[k] = list[k]
      BY <1>1, <1>2, <1>3, <2>1
    <3>2. PICK i \in DOMAIN s : s[i] = list[k] /\ f[i] <= k
      BY <1>11, <3>1 DEF Follows
    <3>3. f[i] \in 1..Len(list)
      BY <1>1, <3>2 DEF Follows
    <3>4. f[i] <= cut
      BY <1>1, <1>3, <2>1, <3>2, <3>3
    <3>5. i <= u
      BY <3>2, <3>4 DEF CutAt
    <3> QED
      BY <1>1, <1>7, <3>1, <3>2, <3>5
  <2>2. CASE ~(k <= cut)
    <3>1. PICK j \in 1..Len(told) : k = cut + j
      <4>1. k - cut \in 1..Len(told) /\ k = cut + (k - cut)
        BY <1>1, <1>3, <2>2
      <4> QED
        BY <4>1
    <3>2. new[k] = History!Told(told[j])
      BY <1>3, <3>1
    <3>3. CASE j <= Len(told) - (Len(s) + 1 - u)
      <4>1. PICK i \in 1..u : t[i] = History!Told(told[j])
        BY <1>6, <3>3
      <4>2. i \in 1..(Len(s) + 1) /\ g[i] \in 1..cut
        BY <1>1, <1>2, <1>7, <4>1
      <4> QED
        BY <1>1, <2>2, <3>1, <3>2, <4>1, <4>2
    <3>4. CASE ~(j <= Len(told) - (Len(s) + 1 - u))
      <4>1. PICK i \in 1..(Len(s) + 1) : i = Len(s) + 1 - Len(told) + j
        <5>1. Len(s) + 1 - Len(told) + j \in 1..(Len(s) + 1)
          BY <1>1, <1>6, <3>4
        <5> QED
          BY <5>1
      <4>2. ~(i <= u) /\ g[i] = k
        BY <1>1, <1>7, <3>1, <3>4, <4>1
      <4>3. t[i] = History!Told(told[j])
        BY <1>6, <3>4, <4>1
      <4>4. i \in DOMAIN t /\ g[i] <= k
        BY <1>1, <1>3, <4>1, <4>2
      <4> QED
        BY <3>2, <4>3, <4>4
    <3> QED
      BY <3>3, <3>4
  <2> QED
    BY <2>1, <2>2
<1>12. Follows(new, t, g)
  BY <1>8, <1>9, <1>10, <1>11 DEF Follows
<1>13. CutAt(new, t, g, cut, u)
  <2>1. cut \in 0..Len(new) /\ u \in 0..Len(t)
    BY <1>1, <1>2, <1>3
  <2>2. cut = 0 \/ new[cut].kind = "user"
    BY <1>1, <1>2, <1>3 DEF CutAt
  <2>3. ASSUME NEW k \in (cut + 1)..Len(new) PROVE new[k].kind # "user"
    <3>1. k - cut \in 1..Len(told) /\ k = cut + (k - cut)
      BY <1>1, <1>3, <2>3
    <3>2. new[k] = History!Told(told[k - cut])
      BY <1>3, <3>1
    <3> QED
      BY <3>2 DEF History!Told
  <2>4. \A i \in DOMAIN t : i <= u <=> g[i] <= cut
    BY <1>1, <1>7
  <2> QED
    BY <2>1, <2>2, <2>3, <2>4 DEF CutAt
<1>14. Settled(new, t, t, told)
  BY <1>4, <1>12, <1>13 DEF Settled
<1> QED
  BY <1>14 DEF new, t

\* The transcript without its last answers ends where they begin.
LEMMA TrimmedAt ==
  ASSUME NEW list \in Seq(History!Line), NEW cut \in 0..Len(list),
         cut = 0 \/ list[cut].kind = "user",
         \A k \in (cut + 1)..Len(list) : list[k].kind # "user"
  PROVE  History!Trimmed(list) = SubSeq(list, 1, cut)
<1> DEFINE ends == {n \in 0..Len(list) : n = 0 \/ list[n].kind = "user"}
           end == CHOOSE n \in ends : \A m \in ends : m <= n
<1>1. cut \in ends /\ Len(list) \in Nat
  OBVIOUS
<1>2. ASSUME NEW m \in ends PROVE m <= cut
  <2>1. m \in 0..Len(list) /\ m \notin (cut + 1)..Len(list)
    BY <1>1
  <2> QED
    BY <1>1, <2>1
<1>3. end \in ends /\ \A m \in ends : m <= end
  BY <1>1, <1>2
<1>4. end <= cut /\ cut <= end /\ end \in Nat /\ cut \in Nat
  BY <1>1, <1>2, <1>3
<1>5. end = cut
  BY <1>4
<1>6. History!Trimmed(list) = SubSeq(list, 1, end)
  BY DEF History!Trimmed
<1> QED
  BY <1>5, <1>6

\* The places of s in the transcript are where it says something for the first time.
LEMMA FirstPlaces ==
  ASSUME NEW s \in Seq(History!Line), NEW f, rows \in Seq(History!Line), Follows(rows, s, f),
         Distinct(s), \A i \in DOMAIN s : Says(s[i])
  PROVE  /\ Cardinality(History!Firsts) = Len(s)
         /\ \A i \in History!Firsts :
              rows[i] = s[Cardinality({k \in History!Firsts : k <= i})]
<1>1. /\ Len(s) \in Nat /\ Len(rows) \in Nat
      /\ DOMAIN s = 1..Len(s) /\ DOMAIN rows = 1..Len(rows)
  OBVIOUS
<1>2. \A i \in 1..Len(s) : f[i] \in 1..Len(rows) /\ rows[f[i]] = s[i]
  BY <1>1 DEF Follows
<1>3. \A i, j \in 1..Len(s) : i < j => f[i] < f[j]
  BY <1>1 DEF Follows
<1>4. \A i, j \in 1..Len(s) : (f[i] <= f[j] <=> i <= j) /\ (f[i] = f[j] => i = j)
  <2> SUFFICES ASSUME NEW i \in 1..Len(s), NEW j \in 1..Len(s)
               PROVE  (f[i] <= f[j] <=> i <= j) /\ (f[i] = f[j] => i = j)
    OBVIOUS
  <2>1. i < j \/ i = j \/ j < i
    BY <1>1
  <2> QED
    BY <1>1, <1>2, <1>3, <2>1
<1>5. ASSUME NEW k \in History!Firsts PROVE \E i \in 1..Len(s) : k = f[i]
  <2>1. k \in DOMAIN rows /\ Says(rows[k]) /\ \A m \in 1..(k - 1) : rows[m] # rows[k]
    BY DEF History!Firsts, Says
  <2>2. PICK i \in DOMAIN s : s[i] = rows[k] /\ f[i] <= k
    BY <2>1 DEF Follows
  <2>3. f[i] \notin 1..(k - 1)
    BY <1>1, <1>2, <2>1, <2>2
  <2>4. f[i] = k
    BY <1>1, <1>2, <2>1, <2>2, <2>3
  <2> QED
    BY <1>1, <2>4
<1>6. ASSUME NEW i \in 1..Len(s) PROVE f[i] \in History!Firsts
  <2>1. f[i] \in DOMAIN rows /\ Says(rows[f[i]])
    BY <1>1, <1>2
  <2>2. ASSUME NEW m \in 1..(f[i] - 1), rows[m] = rows[f[i]] PROVE FALSE
    <3>1. m \in DOMAIN rows /\ m < f[i]
      BY <1>1, <1>2
    <3>2. PICK j \in DOMAIN s : s[j] = rows[m] /\ f[j] <= m
      BY <2>1, <2>2, <3>1 DEF Follows
    <3>3. s[j] = s[i]
      BY <1>2, <2>2, <3>2
    <3>4. j = i
      BY <1>1, <3>2, <3>3 DEF Distinct
    <3> QED
      BY <1>1, <1>2, <3>1, <3>2, <3>4
  <2> QED
    BY <2>1, <2>2 DEF History!Firsts, Says
<1>7. ASSUME NEW n \in 0..Len(s), NEW T,
             \A i \in 1..n : f[i] \in T, \A k \in T : \E i \in 1..n : k = f[i]
      PROVE  Cardinality(T) = n
  <2> DEFINE g == [i \in 1..n |-> f[i]]
  <2>1. g \in [1..n -> T]
    BY <1>7
  <2>2. \A i, j \in 1..n : g[i] = g[j] => i = j
    <3>1. \A i \in 1..n : i \in 1..Len(s)
      BY <1>1
    <3> QED
      BY <1>4, <3>1
  <2>3. \A k \in T : \E i \in 1..n : g[i] = k
    BY <1>7
  <2>4. g \in Bijection(1..n, T)
    BY <2>1, <2>2, <2>3, Fun_IsBij
  <2>5. ExistsBijection(1..n, T)
    BY <2>4 DEF ExistsBijection
  <2>6. IsFiniteSet(1..n) /\ Cardinality(1..n) = n
    BY <1>1, FS_Interval
  <2> QED
    BY <2>5, <2>6, FS_Bijection
<1>8. Cardinality(History!Firsts) = Len(s)
  <2>1. Len(s) \in 0..Len(s)
    BY <1>1
  <2> QED
    BY <1>5, <1>6, <1>7, <2>1
<1>9. ASSUME NEW k \in History!Firsts
      PROVE  rows[k] = s[Cardinality({m \in History!Firsts : m <= k})]
  <2> DEFINE T == {m \in History!Firsts : m <= k}
  <2>1. PICK n \in 1..Len(s) : k = f[n]
    BY <1>5
  <2>2. ASSUME NEW i \in 1..n PROVE f[i] \in T
    <3>1. i \in 1..Len(s) /\ i <= n
      BY <1>1
    <3> QED
      BY <1>4, <1>6, <2>1, <3>1
  <2>3. ASSUME NEW m \in T PROVE \E i \in 1..n : m = f[i]
    <3>1. PICK i \in 1..Len(s) : m = f[i]
      BY <1>5
    <3>2. i <= n
      BY <1>4, <2>1, <3>1
    <3>3. i \in 1..n
      BY <1>1, <3>2
    <3> QED
      BY <3>1, <3>3
  <2>4. n \in 0..Len(s)
    BY <1>1
  <2>5. Cardinality(T) = n
    <3> HIDE DEF T
    <3> QED
      BY <1>7, <2>2, <2>3, <2>4
  <2> QED
    BY <1>2, <2>1, <2>5
<1> QED
  BY <1>8, <1>9

LEMMA ShortSequences ==
  ASSUME NEW S, NEW a \in S, NEW b \in S
  PROVE  <<a>> \in Seq(S) /\ <<a, b>> \in Seq(S)
OBVIOUS

\* Types, what a poll holds, and that there is nothing to tell without a memory.
HistoryTyped ==
    /\ History!TypeOK
    /\ \A p \in Pollers : at[p] = "write" => taken[p] \in Turns \X History!Pieces
    /\ memory[Nothing] = History!Blank

LEMMA LineTypes ==
  ASSUME NEW t \in Turns
  PROVE  /\ History!Said(t) \in History!Line /\ History!Raw(t) \in History!Line
         /\ History!Told(<<t, 0>>) \in History!Line /\ ~Says(History!Told(<<t, 0>>))
         /\ Says(History!Said(t)) /\ <<t, 1>> \in History!Pieces
BY HistoryAssumed DEF History!Said, History!Raw, History!Told, History!Line, History!Pieces, Says

LEMMA RewrittenTyped ==
  ASSUME rows \in Seq(History!Line), NEW pieces \in Seq(History!Pieces)
  PROVE  History!Rewritten(pieces) \in Seq(History!Line)
<1> DEFINE ends == {n \in 0..Len(rows) : n = 0 \/ rows[n].kind = "user"}
           end == CHOOSE n \in ends : \A m \in ends : m <= n
<1>1. Len(rows) \in Nat /\ 0 \in ends /\ ends \subseteq 0..Len(rows)
  OBVIOUS
<1>2. PICK n \in ends : \A m \in ends : n >= m
  <2> HIDE DEF ends
  <2> QED
    BY <1>1, GreatestNumber
<1>3. \A m \in ends : m <= n
  BY <1>2
<1>4. end \in ends
  BY <1>3
<1>5. History!Trimmed(rows) = SubSeq(rows, 1, end)
  BY DEF History!Trimmed
<1>6. end \in 0..Len(rows)
  BY <1>1, <1>4
<1> HIDE DEF end
<1>7. SubSeq(rows, 1, end) \in Seq(History!Line)
  BY <1>1, <1>6
<1>8. History!Lines(pieces) \in Seq(History!Line)
  BY LinesTyped
<1>9. SubSeq(rows, 1, end) \o History!Lines(pieces) \in Seq(History!Line)
  BY <1>7, <1>8
<1> QED
  BY <1>5, <1>9 DEF History!Rewritten

LEMMA MemoryUpdated ==
  ASSUME HistoryTyped, NEW o \in Turns,
         NEW told \in Seq(History!Pieces), NEW queue \in Seq(History!Pieces),
         memory' = [memory EXCEPT ![o] = [delivered |-> told, queue |-> queue]]
  PROVE  /\ memory' \in [Turns \cup {Nothing} -> [delivered : Seq(History!Pieces),
                                                 queue : Seq(History!Pieces)]]
         /\ memory'[Nothing] = History!Blank
         /\ memory'[o].delivered = told /\ memory'[o].queue = queue
<1>1. o # Nothing
  BY HistoryAssumed
<1> QED
  BY <1>1 DEF HistoryTyped, History!TypeOK

\* What a turn stores.
LEMMA PlanStored ==
  ASSUME HistoryTyped, NEW t \in Turns, History!TurnStores(t)
  PROVE  \E kept \in Seq(History!Pieces), plan \in Seq(History!Pieces) :
           /\ kept = IF turn[t].keep THEN memory[turn[t].ref].delivered ELSE <<>>
           /\ turn[t].mode = "resume" => plan = <<>>
           /\ turn[t].mode # "resume" => plan # <<>>
           /\ \A i \in DOMAIN plan : plan[i] = <<t, i>>
           /\ memory' = [memory EXCEPT ![t] =
                IF turn[t].mode = "resume" THEN [delivered |-> kept, queue |-> turn[t].queue]
                ELSE [delivered |-> Append(kept, <<t, 1>>), queue |-> Tail(plan)]]
<1> DEFINE kept == IF turn[t].keep THEN memory[turn[t].ref].delivered ELSE <<>>
<1>1. PICK n \in 0..MaxParts :
        /\ n = 0 <=> turn[t].mode = "resume"
        /\ memory' = [memory EXCEPT ![t] =
             IF n = 0 THEN [delivered |-> kept, queue |-> turn[t].queue]
             ELSE [delivered |-> Append(kept, Head([i \in 1..n |-> <<t, i>>])),
                   queue |-> Tail([i \in 1..n |-> <<t, i>>])]]
  BY DEF History!TurnStores
<1> DEFINE plan == [i \in 1..n |-> <<t, i>>]
<1>2. turn[t] \in [target : History!Targets, mode : {"core", "replan", "resume"},
                   keep : BOOLEAN, ref : Turns \cup {Nothing}, queue : Seq(History!Pieces),
                   sent : Turns \cup {Nothing}, got : Turns \cup {Nothing}]
  BY DEF HistoryTyped, History!TypeOK
<1>3. kept \in Seq(History!Pieces)
  BY <1>2 DEF HistoryTyped, History!TypeOK
<1>4. MaxParts \in Nat /\ n \in Nat /\ n <= MaxParts
  BY HistoryAssumed
<1>5. \A i \in 1..n : <<t, i>> \in History!Pieces
  BY <1>4 DEF History!Pieces
<1>6. plan \in Seq(History!Pieces)
  BY <1>4, <1>5
<1>7. n # 0 => plan # <<>> /\ Head(plan) = <<t, 1>>
  BY <1>4, <1>6
<1>8. n = 0 => plan = <<>>
  BY <1>4, <1>6
<1>9. \A i \in DOMAIN plan : plan[i] = <<t, i>>
  OBVIOUS
<1>10. memory' = [memory EXCEPT ![t] =
                IF turn[t].mode = "resume" THEN [delivered |-> kept, queue |-> turn[t].queue]
                ELSE [delivered |-> Append(kept, <<t, 1>>), queue |-> Tail(plan)]]
  <2>1. CASE n = 0
    BY <1>1, <2>1
  <2>2. CASE n # 0
    BY <1>1, <1>7, <2>2
  <2> QED
    BY <2>1, <2>2
<1> HIDE DEF kept, plan
<1>11. /\ turn[t].mode = "resume" => plan = <<>>
       /\ turn[t].mode # "resume" => plan # <<>>
  BY <1>1, <1>7, <1>8
<1>12. kept = IF turn[t].keep THEN memory[turn[t].ref].delivered ELSE <<>>
  BY DEF kept
<1> QED
  BY <1>3, <1>6, <1>9, <1>10, <1>11, <1>12

\* What a poll takes.
LEMMA HeadTaken ==
  ASSUME HistoryTyped, NEW p \in Pollers, History!PollTakes(p)
  PROVE  /\ store \in Turns
         /\ \E piece \in History!Pieces, rest \in Seq(History!Pieces) :
              /\ memory[store].queue = <<piece>> \o rest
              /\ rest = Tail(memory[store].queue)
              /\ at[piece[1]] = "returned"
              /\ memory' = [memory EXCEPT ![store] =
                     [delivered |-> Append(memory[store].delivered, piece), queue |-> rest]]
              /\ taken' = [taken EXCEPT ![p] = <<store, piece>>]
<1>1. store \in Turns /\ memory[store] \in [delivered : Seq(History!Pieces),
                                            queue : Seq(History!Pieces)]
  BY DEF HistoryTyped, History!TypeOK, History!PollTakes
<1> DEFINE told == memory[store].delivered
           queue == memory[store].queue
<1>2. told \in Seq(History!Pieces) /\ queue \in Seq(History!Pieces) /\ queue # <<>>
  BY <1>1 DEF History!PollTakes
<1>3. /\ at[Head(queue)[1]] = "returned"
      /\ memory' = [memory EXCEPT ![store].delivered = Append(@, Head(queue)),
                                  ![store].queue = Tail(@)]
      /\ taken' = [taken EXCEPT ![p] = <<store, Head(queue)>>]
  BY DEF History!PollTakes
<1>4. memory' = [memory EXCEPT ![store] = [delivered |-> Append(told, Head(queue)),
                                          queue |-> Tail(queue)]]
  <2>1. memory \in [Turns \cup {Nothing} -> [delivered : Seq(History!Pieces),
                                              queue : Seq(History!Pieces)]]
    BY DEF HistoryTyped, History!TypeOK
  <2>2. \A x, y : [memory EXCEPT ![store].delivered = x, ![store].queue = y]
                    = [memory EXCEPT ![store] = [delivered |-> x, queue |-> y]]
    <3>1. SUFFICES ASSUME NEW x, NEW y
                   PROVE  [memory EXCEPT ![store].delivered = x, ![store].queue = y]
                            = [memory EXCEPT ![store] = [delivered |-> x, queue |-> y]]
      OBVIOUS
    <3>2. [memory[store] EXCEPT !.delivered = x, !.queue = y] = [delivered |-> x, queue |-> y]
      <4>1. memory[store] = [delivered |-> told, queue |-> queue]
        BY <1>1
      <4> HIDE DEF told, queue
      <4>2. [[delivered |-> told, queue |-> queue] EXCEPT !.delivered = x, !.queue = y]
              = [delivered |-> x, queue |-> y]
        <5>1. [[delivered |-> told, queue |-> queue] EXCEPT !.delivered = x]
                = [delivered |-> x, queue |-> queue]
          OBVIOUS
        <5>2. [[delivered |-> x, queue |-> queue] EXCEPT !.queue = y]
                = [delivered |-> x, queue |-> y]
          OBVIOUS
        <5> QED
          BY <5>1, <5>2
      <4> QED
        BY <4>1, <4>2
    <3>3. [memory EXCEPT ![store].delivered = x, ![store].queue = y]
            = [memory EXCEPT ![store] = [memory[store] EXCEPT !.delivered = x, !.queue = y]]
      BY <1>1, <2>1
    <3> QED
      BY <3>2, <3>3
  <2>3. memory' = [memory EXCEPT ![store].delivered = Append(told, Head(queue)),
                                 ![store].queue = Tail(queue)]
    BY <1>1, <1>3, <2>1
  <2> QED
    BY <2>2, <2>3
<1>5. /\ Head(queue) \in History!Pieces /\ Tail(queue) \in Seq(History!Pieces)
      /\ queue = <<Head(queue)>> \o Tail(queue)
  <2> HIDE DEF queue
  <2> QED
    BY <1>2
<1> QED
  BY <1>1, <1>3, <1>4, <1>5

LEMMA ImmediateTyped ==
  ASSUME NEW t \in Turns
  PROVE  /\ History!Immediate(t) \in Seq(History!Pieces)
         /\ Len(History!Immediate(t)) \in 0..MaxParts
<1>1. <<t, 1>> \in History!Pieces
  BY LineTypes
<1>2. <<>> \in Seq(History!Pieces) /\ Len(<<>>) = 0
  OBVIOUS
<1>3. <<<<t, 1>>>> \in Seq(History!Pieces) /\ Len(<<<<t, 1>>>>) = 1
  BY <1>1, ShortSequences
<1>4. 0 \in 0..MaxParts /\ 1 \in 0..MaxParts
  BY HistoryAssumed
<1> QED
  BY <1>2, <1>3, <1>4 DEF History!Immediate

LEMMA HistoryTypes ==
  ASSUME HistoryTyped, History!Next
  PROVE  HistoryTyped'
<1> DEFINE Place == {"idle", "ask", "look", "run", "rerun", "save", "plan", "write",
                     "memory", "contexts", "returned"}
           Turn == [target : History!Targets, mode : {"core", "replan", "resume"},
                    keep : BOOLEAN, ref : Turns \cup {Nothing}, queue : Seq(History!Pieces),
                    sent : Turns \cup {Nothing}, got : Turns \cup {Nothing}]
           Memory == [Turns \cup {Nothing} -> [delivered : Seq(History!Pieces),
                                              queue : Seq(History!Pieces)]]
<1>1. /\ rows \in Seq(History!Line) /\ story \in Seq(History!Line)
      /\ memory \in Memory /\ memory[Nothing] = History!Blank
      /\ store \in Turns \cup {Nothing}
      /\ contexts \in [{"auto", "seeded_history"} -> Turns \cup {Nothing}]
      /\ at \in [History!Calls -> Place] /\ turn \in [Turns -> Turn]
      /\ last \in Turns \cup {Nothing} /\ remote \in BOOLEAN /\ crossing \in BOOLEAN
      /\ taken \in [Pollers -> {<<>>} \cup Turns \X History!Pieces]
      /\ \A p \in Pollers : at[p] = "write" => taken[p] \in Turns \X History!Pieces
  BY DEF HistoryTyped, History!TypeOK
<1>2. ASSUME rows' \in Seq(History!Line), story' \in Seq(History!Line),
             memory' \in Memory, memory'[Nothing] = History!Blank,
             store' \in Turns \cup {Nothing},
             contexts' \in [{"auto", "seeded_history"} -> Turns \cup {Nothing}],
             at' \in [History!Calls -> Place], turn' \in [Turns -> Turn],
             last' \in Turns \cup {Nothing}, remote' \in BOOLEAN, crossing' \in BOOLEAN,
             taken' \in [Pollers -> {<<>>} \cup Turns \X History!Pieces],
             \A p \in Pollers : at'[p] = "write" => taken'[p] \in Turns \X History!Pieces
      PROVE  HistoryTyped'
  BY <1>2 DEF HistoryTyped, History!TypeOK
<1>3. History!NoTurn \in Turn
  <2>1. <<>> \in Seq(History!Pieces)
    OBVIOUS
  <2> QED
    BY <2>1 DEF History!NoTurn, History!Targets
<1>4. /\ \A t \in Turns : t \in History!Calls /\ t \notin Pollers
      /\ \A p \in Pollers : p \in History!Calls
      /\ "delete" \in History!Calls /\ "delete" \notin Pollers
  BY HistoryAssumed DEF History!Calls
<1>5. ASSUME NEW c \in History!Calls, NEW there \in Place, at' = [at EXCEPT ![c] = there]
      PROVE  /\ at' \in [History!Calls -> Place]
             /\ \A p \in Pollers : p # c /\ at'[p] = "write" => taken[p] \in Turns \X History!Pieces
  BY <1>1, <1>4, <1>5
<1>6. ASSUME NEW t \in Turns, History!Returns(t)
      PROVE  turn' \in [Turns -> Turn]
  BY <1>1, <1>3, <1>6 DEF History!Returns
<1>7. History!Begins => crossing' \in BOOLEAN
  BY DEF History!Begins
<1> HIDE DEF Place, Turn, Memory
<1>8. ASSUME NEW t \in Turns, History!TurnDecides(t) PROVE HistoryTyped'
  <2>1. PICK target \in History!Targets, keep \in BOOLEAN,
             mode \in {"core", "replan", "resume"} :
          /\ turn' = [turn EXCEPT ![t] =
                [History!NoTurn EXCEPT !.target = target, !.mode = mode, !.keep = keep,
                               !.ref = store, !.queue = memory[store].queue]]
          /\ at' = [at EXCEPT ![t] = IF mode # "core" THEN "plan"
                    ELSE IF target = "framework" THEN "ask" ELSE "look"]
    BY <1>8 DEF History!TurnDecides, History!Goto
  <2>2. memory[store].queue \in Seq(History!Pieces)
    BY <1>1 DEF Memory
  <2>3. [History!NoTurn EXCEPT !.target = target, !.mode = mode, !.keep = keep,
                               !.ref = store, !.queue = memory[store].queue] \in Turn
    BY <1>1, <1>3, <2>2 DEF Turn
  <2>4. turn' \in [Turns -> Turn]
    BY <1>1, <2>1, <2>3
  <2>5. /\ at' \in [History!Calls -> Place]
        /\ \A p \in Pollers : at'[p] = "write" => taken[p] \in Turns \X History!Pieces
    BY <1>4, <1>5, <2>1 DEF Place
  <2> QED
    BY <1>1, <1>2, <1>7, <1>8, <2>4, <2>5 DEF History!TurnDecides
<1>9. ASSUME NEW t \in Turns, History!AgentAnswers(t) PROVE HistoryTyped'
  <2>1. /\ at' \in [History!Calls -> Place]
        /\ \A p \in Pollers : at'[p] = "write" => taken[p] \in Turns \X History!Pieces
    BY <1>4, <1>5, <1>9 DEF Place, History!AgentAnswers, History!Goto, History!Returns
  <2>2. turn' \in [Turns -> Turn]
    BY <1>1, <1>6, <1>9 DEF History!AgentAnswers
  <2>3. rows' \in Seq(History!Line)
    <3>1. <<History!Said(t), History!Raw(t)>> \in Seq(History!Line)
      BY LineTypes, ShortSequences
    <3>2. rows \o <<History!Said(t), History!Raw(t)>> \in Seq(History!Line)
      BY <1>1, <3>1
    <3> QED
      BY <1>1, <1>9, <3>2 DEF History!AgentAnswers
  <2> QED
    BY <1>1, <1>2, <1>9, <2>1, <2>2, <2>3 DEF History!AgentAnswers
<1>10. ASSUME NEW t \in Turns, History!RemoteLooks(t) PROVE HistoryTyped'
  <2>1. /\ at' \in [History!Calls -> Place]
        /\ \A p \in Pollers : at'[p] = "write" => taken[p] \in Turns \X History!Pieces
    BY <1>4, <1>5, <1>10 DEF Place, History!RemoteLooks, History!Goto
  <2>2. PICK c \in Turns \cup {Nothing} : turn' = [turn EXCEPT ![t].sent = c]
    BY <1>1, <1>10 DEF Turn, History!RemoteLooks
  <2>3. turn' \in [Turns -> Turn]
    <3>1. [turn[t] EXCEPT !.sent = c] \in Turn
      <4>1. turn[t] \in Turn
        BY <1>1
      <4>2. \A r \in Turn : [r EXCEPT !.sent = c] \in Turn
        BY DEF Turn
      <4> QED
        BY <4>1, <4>2
    <3>2. turn' = [turn EXCEPT ![t] = [turn[t] EXCEPT !.sent = c]]
      BY <1>1, <2>2
    <3> QED
      BY <1>1, <3>1, <3>2
  <2> QED
    BY <1>1, <1>2, <1>10, <2>1, <2>3 DEF History!RemoteLooks
<1>11. ASSUME NEW t \in Turns, History!RemoteAnswers(t) PROVE HistoryTyped'
  <2>1. /\ at' \in [History!Calls -> Place]
        /\ \A p \in Pollers : at'[p] = "write" => taken[p] \in Turns \X History!Pieces
    BY <1>4, <1>5, <1>11 DEF Place, History!RemoteAnswers, History!Goto
  <2>2. PICK c \in Turns \cup {Nothing} :
          /\ turn' = [turn EXCEPT ![t].got = c]
          /\ last' = IF turn[t].target = "auto" /\ c # Nothing THEN c ELSE last
    BY <1>1, <1>11 DEF Turn, History!RemoteAnswers
  <2>3. turn' \in [Turns -> Turn] /\ last' \in Turns \cup {Nothing}
    BY ZenonT(60), <1>1, <2>2 DEF Turn
  <2> QED
    BY <1>1, <1>2, <1>11, <2>1, <2>3 DEF History!RemoteAnswers
<1>12. ASSUME NEW t \in Turns, History!RemoteFails(t) PROVE HistoryTyped'
  <2>1. /\ at' \in [History!Calls -> Place]
        /\ \A p \in Pollers : at'[p] = "write" => taken[p] \in Turns \X History!Pieces
    BY <1>4, <1>5, <1>12 DEF Place, History!RemoteFails, History!Goto, History!Returns
  <2>2. turn' \in [Turns -> Turn]
    BY <1>1, <1>6, <1>12 DEF History!RemoteFails
  <2> QED
    BY <1>1, <1>2, <1>12, <2>1, <2>2 DEF History!RemoteFails
<1>13. ASSUME NEW t \in Turns, History!RemoteSaves(t) PROVE HistoryTyped'
  <2>1. /\ at' \in [History!Calls -> Place]
        /\ \A p \in Pollers : at'[p] = "write" => taken[p] \in Turns \X History!Pieces
    BY <1>4, <1>5, <1>13 DEF Place, History!RemoteSaves, History!Goto
  <2>2. History!ContextOf(t) \in Turns \cup {Nothing}
    BY <1>1 DEF Turn, History!ContextOf
  <2>3. contexts' \in [{"auto", "seeded_history"} -> Turns \cup {Nothing}]
    BY <1>1, <1>13, <2>2 DEF History!RemoteSaves
  <2> QED
    BY <1>1, <1>2, <1>13, <2>1, <2>3 DEF History!RemoteSaves
<1>14. ASSUME NEW t \in Turns, History!TurnStores(t) PROVE HistoryTyped'
  <2>1. /\ at' \in [History!Calls -> Place]
        /\ \A p \in Pollers : at'[p] = "write" => taken[p] \in Turns \X History!Pieces
    BY <1>4, <1>5, <1>14 DEF Place, History!TurnStores, History!Goto
  <2>2. PICK kept \in Seq(History!Pieces), plan \in Seq(History!Pieces) :
           /\ turn[t].mode # "resume" => plan # <<>>
           /\ memory' = [memory EXCEPT ![t] =
                IF turn[t].mode = "resume" THEN [delivered |-> kept, queue |-> turn[t].queue]
                ELSE [delivered |-> Append(kept, <<t, 1>>), queue |-> Tail(plan)]]
    BY <1>14, PlanStored
  <2>3. memory' \in Memory /\ memory'[Nothing] = History!Blank
    <3>1. Append(kept, <<t, 1>>) \in Seq(History!Pieces) /\ turn[t].queue \in Seq(History!Pieces)
      <4>1. <<t, 1>> \in History!Pieces
        BY LineTypes
      <4>2. Append(kept, <<t, 1>>) \in Seq(History!Pieces)
        BY <4>1
      <4> QED
        BY <1>1, <4>2 DEF Turn
    <3>2. turn[t].mode # "resume" => Tail(plan) \in Seq(History!Pieces)
      BY <2>2
    <3>3. CASE turn[t].mode = "resume"
      BY <2>2, <3>1, <3>3, MemoryUpdated DEF Memory
    <3>4. CASE turn[t].mode # "resume"
      BY <2>2, <3>1, <3>2, <3>4, MemoryUpdated DEF Memory
    <3> QED
      BY <3>3, <3>4
  <2> QED
    BY <1>1, <1>2, <1>14, <2>1, <2>3 DEF History!TurnStores
<1>15. ASSUME NEW t \in Turns, History!TurnWrites(t) PROVE HistoryTyped'
  <2>1. /\ at' \in [History!Calls -> Place]
        /\ \A p \in Pollers : at'[p] = "write" => taken[p] \in Turns \X History!Pieces
    BY <1>4, <1>5, <1>15 DEF Place, History!TurnWrites, History!Goto, History!Returns
  <2>2. turn' \in [Turns -> Turn]
    BY <1>6, <1>15 DEF History!TurnWrites
  <2>3. History!Immediate(t) \in Seq(History!Pieces) /\ Len(History!Immediate(t)) \in 0..MaxParts
    BY ImmediateTyped
  <2>4. History!Lines(History!Immediate(t)) \in Seq(History!Line)
    BY <2>3, LinesTyped
  <2>5. History!Told(<<t, Len(History!Immediate(t))>>) \in History!Line
    BY <2>3 DEF History!Told, History!Line
  <2>6. <<History!Said(t), History!Told(<<t, Len(History!Immediate(t))>>)>> \in Seq(History!Line)
        /\ <<History!Said(t)>> \in Seq(History!Line)
    BY <2>5, LineTypes, ShortSequences
  <2>7. rows' \in Seq(History!Line)
    BY <1>1, <1>15, <2>3, <2>6, RewrittenTyped DEF History!TurnWrites
  <2>8. story \o <<History!Said(t)>> \in Seq(History!Line)
    BY <1>1, <2>6
  <2>9. story' \in Seq(History!Line)
    <3>1. story \o <<History!Said(t)>> \o History!Lines(History!Immediate(t)) \in Seq(History!Line)
      BY <2>4, <2>8
    <3> QED
      BY <1>15, <3>1 DEF History!TurnWrites
  <2> QED
    BY <1>1, <1>2, <1>15, <2>1, <2>2, <2>7, <2>9 DEF History!TurnWrites
<1>16. ASSUME NEW p \in Pollers, History!PollTakes(p) PROVE HistoryTyped'
  <2>1. PICK piece \in History!Pieces, rest \in Seq(History!Pieces) :
              /\ memory' = [memory EXCEPT ![store] =
                     [delivered |-> Append(memory[store].delivered, piece), queue |-> rest]]
              /\ taken' = [taken EXCEPT ![p] = <<store, piece>>]
    BY <1>16, HeadTaken
  <2>2. store \in Turns /\ memory[store].delivered \in Seq(History!Pieces)
    BY <1>1, <1>16, HeadTaken DEF Memory
  <2>3. memory' \in Memory /\ memory'[Nothing] = History!Blank
    <3>1. Append(memory[store].delivered, piece) \in Seq(History!Pieces)
      BY <2>2
    <3> QED
      BY <2>1, <2>2, <3>1, MemoryUpdated DEF Memory
  <2>4. at' = [at EXCEPT ![p] = "write"]
    BY <1>16 DEF History!PollTakes, History!Goto
  <2>5. /\ at' \in [History!Calls -> Place]
        /\ \A q \in Pollers : q # p /\ at'[q] = "write" => taken[q] \in Turns \X History!Pieces
    BY <1>4, <1>5, <2>4 DEF Place
  <2>6. <<store, piece>> \in Turns \X History!Pieces
    BY <2>2
  <2>7. /\ taken' \in [Pollers -> {<<>>} \cup Turns \X History!Pieces]
        /\ \A q \in Pollers : at'[q] = "write" => taken'[q] \in Turns \X History!Pieces
    BY <1>1, <2>1, <2>5, <2>6
  <2> QED
    BY <1>1, <1>2, <1>7, <1>16, <2>3, <2>5, <2>6, <2>7 DEF History!PollTakes
<1>17. ASSUME NEW p \in Pollers, History!PollWrites(p) PROVE HistoryTyped'
  <2>1. taken[p][1] \in Turns /\ taken[p][2] \in History!Pieces
    BY <1>1, <1>17 DEF History!PollWrites
  <2>2. memory[taken[p][1]].delivered \in Seq(History!Pieces)
    BY <1>1, <2>1 DEF Memory
  <2>3. rows' \in Seq(History!Line)
    BY <1>1, <1>17, <2>2, RewrittenTyped DEF History!PollWrites
  <2>4. story' \in Seq(History!Line)
    <3>1. History!Told(taken[p][2]) \in History!Line
      BY <2>1 DEF History!Told, History!Line, History!Pieces
    <3>2. Append(story, History!Told(taken[p][2])) \in Seq(History!Line)
      BY <1>1, <3>1
    <3> QED
      BY <1>17, <3>2 DEF History!PollWrites
  <2>5. at' = [at EXCEPT ![p] = "idle"]
    BY <1>17 DEF History!PollWrites, History!Goto
  <2>6. /\ at' \in [History!Calls -> Place] /\ at'[p] = "idle"
        /\ \A q \in Pollers : q # p /\ at'[q] = "write" => taken[q] \in Turns \X History!Pieces
    BY <1>1, <1>4, <1>5, <2>5 DEF Place
  <2>7. /\ taken' \in [Pollers -> {<<>>} \cup Turns \X History!Pieces]
        /\ \A q \in Pollers : at'[q] = "write" => taken'[q] \in Turns \X History!Pieces
    BY <1>1, <1>17, <2>6 DEF History!PollWrites
  <2> QED
    BY <1>1, <1>2, <1>17, <2>1, <2>3, <2>4, <2>6, <2>7 DEF History!PollWrites
<1>18. ASSUME History!DeleteRows \/ History!DeleteMemory \/ History!DeleteContexts
       PROVE  HistoryTyped'
  <2>1. PICK there \in {"memory", "contexts", "returned"} : at' = [at EXCEPT !["delete"] = there]
    BY <1>18 DEF History!DeleteRows, History!DeleteMemory, History!DeleteContexts, History!Goto
  <2>2. /\ at' \in [History!Calls -> Place]
        /\ \A q \in Pollers : at'[q] = "write" => taken[q] \in Turns \X History!Pieces
    BY <1>4, <1>5, <2>1 DEF Place
  <2>3. CASE History!DeleteRows
    <3>1. <<>> \in Seq(History!Line)
      OBVIOUS
    <3> QED
      BY <1>1, <1>2, <1>7, <2>2, <2>3, <3>1 DEF History!DeleteRows
  <2>4. CASE History!DeleteMemory
    BY <1>1, <1>2, <2>2, <2>4 DEF History!DeleteMemory
  <2>5. CASE History!DeleteContexts
    <3>1. contexts' \in [{"auto", "seeded_history"} -> Turns \cup {Nothing}]
      BY <1>1, <2>5 DEF History!DeleteContexts
    <3> QED
      BY <1>1, <1>2, <2>2, <2>5, <3>1 DEF History!DeleteContexts
  <2> QED
    BY <1>18, <2>3, <2>4, <2>5
<1> QED
  BY <1>8, <1>9, <1>10, <1>11, <1>12, <1>13, <1>14, <1>15, <1>16, <1>17, <1>18
  DEF History!Next

\* While calls come one at a time, the one under way is alone; and what a turn has
\* read of the memory still stands when it uses it.
Asking == {"ask", "look", "run", "rerun", "save"}

AloneInv ==
    /\ \A c, d \in History!Calls : History!Busy(c) /\ History!Busy(d) => c = d
    /\ \A t \in Turns :
         /\ at[t] \in Asking \cup {"plan"} => /\ turn[t].ref = store
                                              /\ turn[t].queue = memory[store].queue
         /\ at[t] \in Asking => turn[t].mode = "core"
         /\ at[t] = "ask" => turn[t].target = "framework"
         /\ at[t] \in Asking \ {"ask"} => turn[t].target \in {"auto", "seeded_history"}
         /\ at[t] \in {"run", "rerun", "save"} => remote
         /\ at[t] \in {"plan", "write"} /\ turn[t].mode = "core" =>
              turn[t].target = "framework" \/ remote

\* The context kept for the remote agent is its last, but between its answer and
\* the write of it.
ContextInv ==
    /\ \A t \in Turns : turn[t].target = "auto" =>
         /\ at[t] \in {"run", "rerun", "save"} => turn[t].sent = contexts["auto"]
         /\ at[t] = "save" => last = History!ContextOf(t)
    /\ (\A t \in Turns : at[t] = "save" => turn[t].target # "auto") => contexts["auto"] = last

OneByOne == ~crossing => AloneInv /\ ContextInv

\* Only c moves.
Moves(c) == \A d \in History!Calls : d # c => at'[d] = at[d] /\ at[d] \in {"idle", "returned"}

LEMMA OnlyOneMoves ==
  ASSUME HistoryTyped, OneByOne, ~crossing', NEW c \in History!Calls, NEW there,
         History!Goto(c, there), History!Begins \/ (History!Busy(c) /\ UNCHANGED crossing)
  PROVE  ~crossing /\ AloneInv /\ ContextInv /\ Moves(c) /\ at'[c] = there
<1>1. ~crossing /\ AloneInv /\ ContextInv
  <2>1. ~crossing
    BY DEF History!Begins
  <2> QED
    BY <2>1 DEF OneByOne
<1>2. at' = [at EXCEPT ![c] = there] /\ DOMAIN at = History!Calls
  BY DEF History!Goto, HistoryTyped, History!TypeOK
<1>3. ASSUME NEW d \in History!Calls, d # c PROVE at[d] \in {"idle", "returned"}
  <2>1. CASE History!Begins
    BY <2>1, <1>3 DEF History!Begins, History!Busy
  <2>2. CASE History!Busy(c)
    BY <1>1, <1>3, <2>2 DEF AloneInv, History!Busy
  <2> QED
    BY <2>1, <2>2
<1> QED
  BY <1>1, <1>2, <1>3 DEF Moves

LEMMA CallsNamed ==
  /\ \A t \in Turns : t \in History!Calls /\ t \notin Pollers /\ t # "delete"
  /\ \A p \in Pollers : p \in History!Calls /\ p # "delete"
  /\ "delete" \in History!Calls
BY HistoryAssumed DEF History!Calls

\* A step of a turn concerns that turn only.
LEMMA TurnAlone ==
  ASSUME HistoryTyped, NEW t \in Turns, Moves(t),
         \A u \in Turns : u # t => turn'[u] = turn[u],
         at'[t] \in Asking \cup {"plan"} => /\ turn'[t].ref = store'
                                            /\ turn'[t].queue = memory'[store'].queue,
         at'[t] \in Asking => turn'[t].mode = "core",
         at'[t] = "ask" => turn'[t].target = "framework",
         at'[t] \in Asking \ {"ask"} => turn'[t].target \in {"auto", "seeded_history"},
         at'[t] \in {"run", "rerun", "save"} => remote',
         at'[t] \in {"plan", "write"} /\ turn'[t].mode = "core" =>
              turn'[t].target = "framework" \/ remote',
         turn'[t].target = "auto" =>
           /\ at'[t] \in {"run", "rerun", "save"} => turn'[t].sent = contexts'["auto"]
           /\ at'[t] = "save" => last' = History!ContextOf(t)',
         (at'[t] = "save" => turn'[t].target # "auto") => contexts'["auto"] = last'
  PROVE  AloneInv' /\ ContextInv'
<1>1. ASSUME NEW u \in Turns, u # t PROVE at'[u] \in {"idle", "returned"}
  BY <1>1, CallsNamed DEF Moves
<1>2. \A c, d \in History!Calls : History!Busy(c)' /\ History!Busy(d)' => c = d
  BY DEF Moves, History!Busy
<1>3. AloneInv'
  BY <1>1, <1>2 DEF AloneInv, Asking
<1>4. ContextInv'
  BY <1>1 DEF ContextInv
<1> QED
  BY <1>3, <1>4

\* A step of another call concerns no turn.
LEMMA OtherAlone ==
  ASSUME NEW c \in History!Calls, c \notin Turns, Moves(c), contexts'["auto"] = last'
  PROVE  AloneInv' /\ ContextInv'
<1>1. ASSUME NEW u \in Turns PROVE at'[u] \in {"idle", "returned"}
  BY <1>1, CallsNamed DEF Moves
<1>2. \A b, d \in History!Calls : History!Busy(b)' /\ History!Busy(d)' => b = d
  BY DEF Moves, History!Busy
<1> QED
  BY <1>1, <1>2 DEF AloneInv, ContextInv, Asking

LEMMA NobodySaves ==
  ASSUME ContextInv, NEW c \in History!Calls, Moves(c), c \in Turns => at[c] # "save"
  PROVE  contexts["auto"] = last
<1>1. ASSUME NEW u \in Turns PROVE at[u] # "save"
  BY <1>1, CallsNamed DEF Moves
<1> QED
  BY <1>1 DEF ContextInv

LEMMA OneByOneStep ==
  ASSUME HistoryTyped, OneByOne, History!Next
  PROVE  OneByOne'
<1> USE DEF History!Goto
<1>1. SUFFICES ASSUME ~crossing' PROVE AloneInv' /\ ContextInv'
  BY DEF OneByOne
<1>2. DOMAIN turn = Turns /\ DOMAIN contexts = {"auto", "seeded_history"}
  BY DEF HistoryTyped, History!TypeOK
<1>3. \A t \in Turns : t \in History!Calls
  BY CallsNamed
<1>4. ASSUME NEW t \in Turns, History!Returns(t)
      PROVE  /\ turn'[t] = History!NoTurn /\ History!NoTurn.target = "framework"
             /\ \A u \in Turns : u # t => turn'[u] = turn[u]
  BY <1>2, <1>4 DEF History!Returns, History!NoTurn
<1>5. ASSUME NEW t \in Turns, History!TurnDecides(t) PROVE AloneInv' /\ ContextInv'
  <2>1. PICK target \in History!Targets, keep \in BOOLEAN,
             mode \in {"core", "replan", "resume"} :
          /\ turn' = [turn EXCEPT ![t] =
                [History!NoTurn EXCEPT !.target = target, !.mode = mode, !.keep = keep,
                               !.ref = store, !.queue = memory[store].queue]]
          /\ History!Goto(t, IF mode # "core" THEN "plan"
                             ELSE IF target = "framework" THEN "ask" ELSE "look")
    BY <1>5 DEF History!TurnDecides
  <2>2. /\ ~crossing /\ AloneInv /\ ContextInv /\ Moves(t)
        /\ at'[t] = IF mode # "core" THEN "plan"
                    ELSE IF target = "framework" THEN "ask" ELSE "look"
    <3>1. History!Begins
      BY <1>5 DEF History!TurnDecides
    <3> QED
      BY <1>1, <1>3, <2>1, <3>1, OnlyOneMoves
  <2>3. /\ turn'[t].ref = store /\ turn'[t].queue = memory[store].queue
        /\ turn'[t].mode = mode /\ turn'[t].target = target
        /\ \A u \in Turns : u # t => turn'[u] = turn[u]
    BY <1>2, <2>1 DEF History!NoTurn
  <2>4. at[t] = "idle" /\ UNCHANGED <<memory, store, contexts, last, remote>>
    BY <1>5 DEF History!TurnDecides
  <2>5. contexts["auto"] = last
    BY <1>3, <2>2, <2>4, NobodySaves
  <2>6. at'[t] \in Asking => mode = "core" /\ (target = "framework" <=> at'[t] = "ask")
    BY <2>2 DEF Asking
  <2>7. at'[t] \in {"ask", "look", "plan"} /\ (at'[t] = "plan" => mode # "core")
    BY <2>2
  <2>8. target \in {"framework", "auto", "seeded_history"}
    BY DEF History!Targets
  <2> QED
    BY <2>2, <2>3, <2>4, <2>5, <2>6, <2>7, <2>8, TurnAlone DEF Asking
<1>6. ASSUME NEW t \in Turns, History!AgentAnswers(t) PROVE AloneInv' /\ ContextInv'
  <2>1. PICK there \in {"plan", "returned"} : History!Goto(t, there)
    BY <1>6 DEF History!AgentAnswers, History!Returns
  <2>2. /\ at[t] = "ask" /\ History!Busy(t)
        /\ UNCHANGED <<memory, store, contexts, last, remote, crossing>>
    BY <1>6 DEF History!AgentAnswers, History!Busy
  <2>3. ~crossing /\ AloneInv /\ ContextInv /\ Moves(t) /\ at'[t] = there
    BY <1>1, <1>3, <2>1, <2>2, OnlyOneMoves
  <2>4. contexts["auto"] = last
    BY <1>3, <2>2, <2>3, NobodySaves
  <2>5. /\ turn[t].ref = store /\ turn[t].queue = memory[store].queue
        /\ turn[t].target = "framework"
    BY <2>2, <2>3 DEF AloneInv, Asking
  <2>6. CASE UNCHANGED turn
    BY <2>1, <2>2, <2>3, <2>4, <2>5, <2>6, TurnAlone DEF Asking
  <2>7. CASE History!Returns(t)
    <3>1. at'[t] = "returned"
      BY <2>7, <1>3 DEF History!Returns, HistoryTyped, History!TypeOK
    <3> QED
      BY <1>4, <2>2, <2>3, <2>4, <2>7, <3>1, TurnAlone DEF Asking
  <2> QED
    BY <1>6, <2>6, <2>7 DEF History!AgentAnswers
<1>7. ASSUME NEW t \in Turns, History!RemoteLooks(t) PROVE AloneInv' /\ ContextInv'
  <2>1. /\ at[t] = "look" /\ History!Busy(t) /\ History!Goto(t, "run") /\ remote'
        /\ UNCHANGED <<memory, store, contexts, last, crossing>>
    BY <1>7 DEF History!RemoteLooks, History!Busy
  <2>2. ~crossing /\ AloneInv /\ ContextInv /\ Moves(t) /\ at'[t] = "run"
    BY <1>1, <1>3, <2>1, OnlyOneMoves
  <2>3. contexts["auto"] = last
    BY <1>3, <2>1, <2>2, NobodySaves
  <2>4. /\ turn[t].ref = store /\ turn[t].queue = memory[store].queue
        /\ turn[t].mode = "core" /\ turn[t].target \in {"auto", "seeded_history"}
    BY <2>1, <2>2 DEF AloneInv, Asking
  <2>5. /\ turn'[t].ref = turn[t].ref /\ turn'[t].queue = turn[t].queue
        /\ turn'[t].mode = turn[t].mode /\ turn'[t].target = turn[t].target
        /\ turn[t].target = "auto" => turn'[t].sent = contexts["auto"]
        /\ \A u \in Turns : u # t => turn'[u] = turn[u]
    BY <1>2, <1>7 DEF HistoryTyped, History!TypeOK, History!RemoteLooks
  <2> QED
    BY <2>1, <2>2, <2>3, <2>4, <2>5, TurnAlone
<1>8. ASSUME NEW t \in Turns, History!RemoteAnswers(t) PROVE AloneInv' /\ ContextInv'
  <2>1. /\ at[t] \in {"run", "rerun"} /\ History!Busy(t) /\ History!Goto(t, "save")
        /\ UNCHANGED <<memory, store, contexts, remote, crossing>>
    BY <1>8 DEF History!RemoteAnswers, History!Busy
  <2>2. ~crossing /\ AloneInv /\ ContextInv /\ Moves(t) /\ at'[t] = "save"
    BY <1>1, <1>3, <2>1, OnlyOneMoves
  <2>3. contexts["auto"] = last
    BY <1>3, <2>1, <2>2, NobodySaves
  <2>4. /\ turn[t].ref = store /\ turn[t].queue = memory[store].queue
        /\ turn[t].mode = "core" /\ turn[t].target \in {"auto", "seeded_history"} /\ remote
        /\ turn[t].target = "auto" => turn[t].sent = contexts["auto"]
    BY <2>1, <2>2 DEF AloneInv, ContextInv, Asking
  <2>5. PICK c : /\ turn' = [turn EXCEPT ![t].got = c]
                 /\ last' = IF turn[t].target = "auto" /\ c # Nothing THEN c ELSE last
    BY <1>8 DEF History!RemoteAnswers
  <2>6. /\ turn'[t].ref = turn[t].ref /\ turn'[t].queue = turn[t].queue
        /\ turn'[t].mode = turn[t].mode /\ turn'[t].target = turn[t].target
        /\ turn'[t].sent = turn[t].sent /\ turn'[t].got = c
        /\ \A u \in Turns : u # t => turn'[u] = turn[u]
    BY <1>2, <2>5 DEF HistoryTyped, History!TypeOK
  <2>7. turn[t].target = "auto" => last' = History!ContextOf(t)'
    BY <2>3, <2>4, <2>5, <2>6 DEF History!ContextOf
  <2>8. turn[t].target # "auto" => contexts'["auto"] = last'
    BY <2>1, <2>3, <2>5
  <2> QED
    BY <2>1, <2>2, <2>4, <2>6, <2>7, <2>8, TurnAlone
<1>9. ASSUME NEW t \in Turns, History!RemoteFails(t) PROVE AloneInv' /\ ContextInv'
  <2>1. /\ at[t] \in {"run", "rerun"} /\ History!Busy(t)
        /\ UNCHANGED <<memory, store, contexts, last, remote, crossing>>
    BY <1>9 DEF History!RemoteFails, History!Busy
  <2>2. PICK there \in {"rerun", "returned"} :
          /\ History!Goto(t, there)
          /\ there = "rerun" => UNCHANGED turn
          /\ there = "returned" => History!Returns(t)
    BY <1>9 DEF History!RemoteFails, History!Returns
  <2>3. ~crossing /\ AloneInv /\ ContextInv /\ Moves(t) /\ at'[t] = there
    BY <1>1, <1>3, <2>1, <2>2, OnlyOneMoves
  <2>4. contexts["auto"] = last
    BY <1>3, <2>1, <2>3, NobodySaves
  <2>5. CASE there = "returned"
    BY <1>4, <2>1, <2>2, <2>3, <2>4, <2>5, TurnAlone DEF Asking
  <2>6. CASE there = "rerun"
    <3>1. /\ turn[t].ref = store /\ turn[t].queue = memory[store].queue
          /\ turn[t].mode = "core" /\ turn[t].target \in {"auto", "seeded_history"} /\ remote
          /\ turn[t].target = "auto" => turn[t].sent = contexts["auto"]
      BY <2>1, <2>3 DEF AloneInv, ContextInv, Asking
    <3> QED
      BY <2>1, <2>2, <2>3, <2>4, <2>6, <3>1, TurnAlone
  <2> QED
    BY <2>5, <2>6
<1>10. ASSUME NEW t \in Turns, History!RemoteSaves(t) PROVE AloneInv' /\ ContextInv'
  <2>1. /\ at[t] = "save" /\ History!Busy(t) /\ History!Goto(t, "plan")
        /\ UNCHANGED <<memory, store, turn, last, remote, crossing>>
        /\ contexts' = [contexts EXCEPT ![turn[t].target] = History!ContextOf(t)]
    BY <1>10 DEF History!RemoteSaves, History!Busy
  <2>2. ~crossing /\ AloneInv /\ ContextInv /\ Moves(t) /\ at'[t] = "plan"
    BY <1>1, <1>3, <2>1, OnlyOneMoves
  <2>3. /\ turn[t].ref = store /\ turn[t].queue = memory[store].queue /\ remote
        /\ turn[t].target = "auto" => last = History!ContextOf(t)
    BY <2>1, <2>2 DEF AloneInv, ContextInv, Asking
  <2>4. contexts'["auto"] = last'
    <3>1. CASE turn[t].target = "auto"
      BY <1>2, <2>1, <2>3, <3>1
    <3>2. CASE turn[t].target # "auto"
      <4>1. \A u \in Turns : at[u] = "save" => turn[u].target # "auto"
        BY <2>2, <3>2, CallsNamed DEF Moves
      <4>2. contexts["auto"] = last
        BY <2>2, <4>1 DEF ContextInv
      <4> QED
        BY <1>2, <2>1, <3>2, <4>2
    <3> QED
      BY <3>1, <3>2
  <2> QED
    BY <2>1, <2>2, <2>3, <2>4, TurnAlone DEF Asking
<1>11. ASSUME NEW t \in Turns, History!TurnStores(t) PROVE AloneInv' /\ ContextInv'
  <2>1. /\ at[t] = "plan" /\ History!Busy(t) /\ History!Goto(t, "write")
        /\ UNCHANGED <<turn, contexts, last, remote, crossing>>
    BY <1>11 DEF History!TurnStores, History!Busy
  <2>2. ~crossing /\ AloneInv /\ ContextInv /\ Moves(t) /\ at'[t] = "write"
    BY <1>1, <1>3, <2>1, OnlyOneMoves
  <2>3. contexts["auto"] = last
    BY <1>3, <2>1, <2>2, NobodySaves
  <2>4. turn[t].mode = "core" => turn[t].target = "framework" \/ remote
    BY <2>1, <2>2 DEF AloneInv
  <2> QED
    BY <2>1, <2>2, <2>3, <2>4, TurnAlone DEF Asking
<1>12. ASSUME NEW t \in Turns, History!TurnWrites(t) PROVE AloneInv' /\ ContextInv'
  <2>1. /\ at[t] = "write" /\ History!Busy(t) /\ History!Returns(t)
        /\ UNCHANGED <<memory, contexts, last, remote, crossing>>
    BY <1>12 DEF History!TurnWrites, History!Busy
  <2>2. ~crossing /\ AloneInv /\ ContextInv /\ Moves(t) /\ at'[t] = "returned"
    BY <1>1, <1>3, <2>1, OnlyOneMoves DEF History!Returns
  <2>3. contexts["auto"] = last
    BY <1>3, <2>1, <2>2, NobodySaves
  <2> QED
    BY <1>4, <2>1, <2>2, <2>3, TurnAlone DEF Asking
<1>13. ASSUME NEW p \in Pollers, History!PollTakes(p) \/ History!PollWrites(p)
       PROVE  AloneInv' /\ ContextInv'
  <2>1. PICK there : /\ History!Goto(p, there)
                     /\ History!Begins \/ (History!Busy(p) /\ UNCHANGED crossing)
                     /\ UNCHANGED <<contexts, last>>
    BY <1>13 DEF History!PollTakes, History!PollWrites, History!Busy
  <2>2. p \in History!Calls /\ p \notin Turns
    BY CallsNamed
  <2>3. ~crossing /\ AloneInv /\ ContextInv /\ Moves(p)
    BY <1>1, <2>1, <2>2, OnlyOneMoves
  <2>4. contexts["auto"] = last
    BY <2>2, <2>3, NobodySaves
  <2> QED
    BY <2>1, <2>2, <2>3, <2>4, OtherAlone
<1>14. ASSUME History!DeleteRows \/ History!DeleteMemory \/ History!DeleteContexts
       PROVE  AloneInv' /\ ContextInv'
  <2>1. PICK there : /\ History!Goto("delete", there)
                     /\ History!Begins \/ (History!Busy("delete") /\ UNCHANGED crossing)
    BY <1>14 DEF History!DeleteRows, History!DeleteMemory, History!DeleteContexts, History!Busy
  <2>2. "delete" \in History!Calls /\ "delete" \notin Turns
    BY CallsNamed
  <2>3. ~crossing /\ AloneInv /\ ContextInv /\ Moves("delete")
    BY <1>1, <2>1, <2>2, OnlyOneMoves
  <2>4. contexts["auto"] = last
    BY <2>2, <2>3, NobodySaves
  <2>5. contexts'["auto"] = last'
    BY <1>2, <1>14, <2>4 DEF History!DeleteRows, History!DeleteMemory, History!DeleteContexts
  <2> QED
    BY <2>2, <2>3, <2>5, OtherAlone
<1> QED
  BY <1>5, <1>6, <1>7, <1>8, <1>9, <1>10, <1>11, <1>12, <1>13, <1>14 DEF History!Next

\* The transcript list, the story and the stored memory fit.
AtRest(list) ==
    /\ Settled(list, story, story, memory[store].delivered)
    /\ Fresh(story, memory[store].queue)

\* The transcript before the agent answered turn t.
Unanswered(t, list) ==
    rows = IF turn[t].mode = "core" THEN list \o <<History!Said(t), History!Raw(t)>> ELSE list

\* The story when turn t has told its first pieces, and when poll p has told its piece.
TurnTold(t) == story \o <<History!Said(t)>> \o History!Lines(History!Immediate(t))
PollTold(p) == Append(story, History!Told(taken[p][2]))

Planned(t) == \E list \in Seq(History!Line) : Unanswered(t, list) /\ AtRest(list)
Stored(t) ==
    /\ store = t
    /\ \E list \in Seq(History!Line) : Unanswered(t, list) /\ Seen(list, story)
    /\ EndsWith(TurnTold(t), Len(story) + 1, memory[store].delivered)
    /\ Fresh(TurnTold(t), memory[store].queue)
Taken(p) ==
    /\ taken[p][1] = store /\ at[taken[p][2][1]] = "returned"
    /\ \A i \in DOMAIN story : story[i] # History!Told(taken[p][2])
    /\ Settled(rows, story, PollTold(p), memory[store].delivered)
    /\ Fresh(PollTold(p), memory[store].queue)

\* Before the write that ends a call the transcript lags behind the memory by what
\* that call tells; at any other time it says the story.
ToldInv ==
    /\ Distinct(story)
    /\ \A i \in DOMAIN story : Says(story[i]) /\ at[story[i].turn] = "returned"
    /\ \A t \in Turns : /\ at[t] = "plan" => Planned(t)
                        /\ at[t] = "write" => Stored(t)
    /\ \A p \in Pollers : at[p] = "write" => Taken(p)
    /\ at["delete"] = "memory" => rows = <<>> /\ story = <<>>
    /\ \/ \E t \in Turns : at[t] \in {"plan", "write"}
       \/ \E p \in Pollers : at[p] = "write"
       \/ at["delete"] = "memory"
       \/ AtRest(rows)

LEMMA NothingSettled ==
  /\ Settled(<<>>, <<>>, <<>>, <<>>) /\ Fresh(<<>>, <<>>) /\ Distinct(<<>>)
<1> DEFINE f == [i \in {} |-> 0]
<1>1. DOMAIN <<>> = {} /\ Len(<<>>) = 0
  OBVIOUS
<1>2. Follows(<<>>, <<>>, f)
  BY <1>1 DEF Follows
<1>3. CutAt(<<>>, <<>>, f, 0, 0)
  BY <1>1 DEF CutAt
<1>4. EndsWith(<<>>, 0, <<>>)
  BY <1>1 DEF EndsWith
<1>5. Fresh(<<>>, <<>>) /\ Distinct(<<>>)
  BY <1>1 DEF Fresh, Distinct
<1> HIDE DEF f
<1>6. Settled(<<>>, <<>>, <<>>, <<>>)
  <2>1. 0 \in Nat
    OBVIOUS
  <2> QED
    BY <1>2, <1>3, <1>4, <2>1 DEF Settled
<1> QED
  BY <1>5, <1>6

\* A turn adds its message and what it answers at once.
LEMMA TurnSettles ==
  ASSUME NEW list \in Seq(History!Line), NEW s \in Seq(History!Line), Seen(list, s),
         NEW x \in History!Line, x.kind = "user", NEW y \in History!Line, y.kind = "told",
         NEW s1, s1 = IF Says(y) THEN Append(Append(s, x), y) ELSE Append(s, x),
         NEW told, EndsWith(s1, Len(s) + 1, told)
  PROVE  Settled(Append(Append(list, x), y), s1, s1, told)
<1>1. PICK f : Follows(list, s, f)
  BY DEF Seen
<1> DEFINE mid == Append(list, x)
           smid == Append(s, x)
           new == Append(mid, y)
           g == [i \in 1..(Len(s) + 1) |-> IF i <= Len(s) THEN f[i] ELSE Len(list) + 1]
           h == [i \in 1..(Len(smid) + 1) |-> IF i <= Len(smid) THEN g[i] ELSE Len(mid) + 1]
<1>2. /\ Len(list) \in Nat /\ Len(s) \in Nat
      /\ mid \in Seq(History!Line) /\ smid \in Seq(History!Line)
      /\ Len(mid) = Len(list) + 1 /\ Len(smid) = Len(s) + 1
      /\ DOMAIN s = 1..Len(s) /\ DOMAIN smid = 1..(Len(s) + 1)
      /\ DOMAIN list = 1..Len(list)
  OBVIOUS
<1>3. Follows(mid, smid, g)
  BY <1>1, FollowsBoth
<1>4. /\ new \in Seq(History!Line) /\ Len(new) = Len(list) + 2
      /\ new[Len(list) + 1] = x /\ new[Len(list) + 2] = y
  OBVIOUS
<1>5. \A i \in 1..Len(s) : f[i] \in 1..Len(list)
  BY <1>1, <1>2 DEF Follows
<1>6. \A i \in 1..(Len(s) + 1) : g[i] <= Len(list) + 1
  BY <1>2, <1>5
<1> HIDE DEF mid, smid, new
<1>7. \A k \in (Len(list) + 2)..Len(new) : new[k].kind # "user"
  <2>1. \A k \in (Len(list) + 2)..Len(new) : k = Len(list) + 2
    BY <1>2, <1>4
  <2> QED
    BY <1>4, <2>1
<1>8. Len(list) + 1 \in Nat /\ Len(s) + 1 \in Nat /\ Len(list) + 1 \in 0..Len(new)
  BY <1>2, <1>4
<1>9. (Len(list) + 1) + 1 = Len(list) + 2
  BY <1>2
<1>10. CASE Says(y)
  <2>1. s1 = Append(smid, y)
    BY <1>10 DEF smid
  <2>2. Follows(new, s1, h)
    <3> HIDE DEF g
    <3>1. Follows(Append(mid, y), Append(smid, y), h)
      BY <1>2, <1>3, FollowsBoth
    <3> QED
      BY <2>1, <3>1 DEF new
  <2>3. /\ s1 \in Seq(History!Line) /\ Len(s1) = Len(s) + 2 /\ DOMAIN s1 = 1..(Len(s) + 2)
    BY <1>2, <2>1
  <2>4. \A i \in DOMAIN s1 : i <= Len(s) + 1 <=> h[i] <= Len(list) + 1
    <3>1. \A i \in 1..(Len(s) + 2) : h[i] = IF i <= Len(s) + 1 THEN g[i] ELSE Len(list) + 2
      BY <1>2
    <3> HIDE DEF g, h
    <3> QED
      BY <1>2, <1>6, <2>3, <3>1
  <2>5. Len(s) + 1 \in 0..Len(s1)
    BY <1>2, <2>3
  <2> HIDE DEF g, h
  <2>6. CutAt(new, s1, h, Len(list) + 1, Len(s) + 1)
    BY <1>4, <1>7, <1>8, <1>9, <2>4, <2>5 DEF CutAt
  <2>7. Settled(new, s1, s1, told)
    BY <1>8, <2>2, <2>6 DEF Settled
  <2> QED
    BY <2>7 DEF new, mid
<1>11. CASE ~Says(y)
  <2>1. s1 = smid
    BY <1>11 DEF smid
  <2>2. Follows(new, s1, g)
    BY <1>2, <1>3, <1>11, <2>1, FollowsSilence DEF new
  <2>3. \A i \in DOMAIN s1 : i <= Len(s) + 1 <=> g[i] <= Len(list) + 1
    BY <1>2, <1>6, <2>1
  <2>4. Len(s) + 1 \in 0..Len(s1)
    BY <1>2, <2>1
  <2> HIDE DEF g, h
  <2>5. CutAt(new, s1, g, Len(list) + 1, Len(s) + 1)
    BY <1>4, <1>7, <1>8, <1>9, <2>3, <2>4 DEF CutAt
  <2>6. Settled(new, s1, s1, told)
    BY <1>8, <2>2, <2>5 DEF Settled
  <2> QED
    BY <2>6 DEF new, mid
<1> QED
  BY <1>10, <1>11

\* What is kept of an earlier memory has been told; the first piece of a plan is added.
LEMMA KeptEnds ==
  ASSUME NEW s \in Seq(History!Line), NEW x \in History!Line,
         NEW kept \in Seq(History!Pieces), NEW piece \in History!Pieces,
         \A j \in DOMAIN kept : \E i \in DOMAIN s : s[i] = History!Told(kept[j])
  PROVE  /\ EndsWith(Append(s, x), Len(s) + 1, kept)
         /\ EndsWith(Append(Append(s, x), History!Told(piece)), Len(s) + 1, Append(kept, piece))
<1> DEFINE s1 == Append(s, x)
           s2 == Append(s1, History!Told(piece))
           more == Append(kept, piece)
<1>1. /\ Len(s) \in Nat /\ Len(kept) \in Nat /\ DOMAIN s = 1..Len(s)
      /\ Len(s1) = Len(s) + 1 /\ Len(s2) = Len(s) + 2 /\ Len(more) = Len(kept) + 1
      /\ DOMAIN kept = 1..Len(kept) /\ DOMAIN more = 1..(Len(kept) + 1)
      /\ \A i \in 1..Len(s) : s1[i] = s[i] /\ s2[i] = s[i]
      /\ s2[Len(s) + 2] = History!Told(piece)
      /\ \A j \in 1..Len(kept) : more[j] = kept[j]
      /\ more[Len(kept) + 1] = piece
  OBVIOUS
<1> HIDE DEF s1, s2, more
<1>2. ASSUME NEW j \in 1..Len(kept)
      PROVE  \E i \in 1..(Len(s) + 1) : /\ s1[i] = History!Told(kept[j])
                                        /\ s2[i] = History!Told(kept[j])
  <2>1. PICK i \in DOMAIN s : s[i] = History!Told(kept[j])
    BY <1>1
  <2>2. i \in 1..(Len(s) + 1) /\ s1[i] = s[i] /\ s2[i] = s[i]
    BY <1>1
  <2> QED
    BY <2>1, <2>2
<1>3. EndsWith(s1, Len(s) + 1, kept)
  BY <1>1, <1>2 DEF EndsWith
<1>4. EndsWith(s2, Len(s) + 1, more)
  <2>1. Len(s2) - (Len(s) + 1) = 1
    BY <1>1
  <2>2. ASSUME NEW j \in DOMAIN more, j <= Len(more) - 1
        PROVE  \E i \in 1..(Len(s) + 1) : s2[i] = History!Told(more[j])
    <3>1. j \in 1..Len(kept)
      BY <1>1, <2>2
    <3> QED
      BY <1>1, <1>2, <3>1
  <2>3. ASSUME NEW j \in DOMAIN more, ~(j <= Len(more) - 1)
        PROVE  s2[Len(s2) - Len(more) + j] = History!Told(more[j])
    <3>1. j = Len(kept) + 1
      BY <1>1, <2>3
    <3>2. Len(s2) - Len(more) + j = Len(s) + 2
      BY <1>1, <3>1
    <3> QED
      BY <1>1, <3>1, <3>2
  <2>4. 1 <= Len(more)
    BY <1>1
  <2> QED
    BY <2>1, <2>2, <2>3, <2>4 DEF EndsWith
<1> QED
  BY <1>3, <1>4 DEF s1, s2, more

\* The next piece told is the next line of the story.
LEMMA NextEnds ==
  ASSUME NEW s \in Seq(History!Line), NEW told \in Seq(History!Pieces),
         NEW piece \in History!Pieces, NEW u \in 0..Len(s), EndsWith(s, u, told)
  PROVE  EndsWith(Append(s, History!Told(piece)), u, Append(told, piece))
<1> DEFINE s1 == Append(s, History!Told(piece))
           more == Append(told, piece)
<1>1. /\ Len(s) \in Nat /\ Len(told) \in Nat /\ DOMAIN s = 1..Len(s)
      /\ Len(s1) = Len(s) + 1 /\ Len(more) = Len(told) + 1
      /\ DOMAIN told = 1..Len(told) /\ DOMAIN more = 1..(Len(told) + 1)
      /\ \A i \in 1..Len(s) : s1[i] = s[i]
      /\ s1[Len(s) + 1] = History!Told(piece)
      /\ \A j \in 1..Len(told) : more[j] = told[j]
      /\ more[Len(told) + 1] = piece
  OBVIOUS
<1> HIDE DEF s1, more
<1>2. Len(s1) - u = Len(s) - u + 1 /\ Len(s) - u <= Len(told) /\ u \in Nat /\ u <= Len(s)
  BY <1>1 DEF EndsWith
<1>3. ASSUME NEW j \in DOMAIN more, j <= Len(more) - (Len(s1) - u)
      PROVE  \E i \in 1..u : s1[i] = History!Told(more[j])
  <2>1. j \in DOMAIN told /\ j <= Len(told) - (Len(s) - u)
    BY <1>1, <1>2, <1>3
  <2>2. PICK i \in 1..u : s[i] = History!Told(told[j])
    BY <2>1 DEF EndsWith
  <2>3. i \in 1..Len(s)
    BY <1>1, <1>2
  <2> QED
    BY <1>1, <2>1, <2>2, <2>3
<1>4. ASSUME NEW j \in DOMAIN more, ~(j <= Len(more) - (Len(s1) - u))
      PROVE  s1[Len(s1) - Len(more) + j] = History!Told(more[j])
  <2>1. CASE j = Len(told) + 1
    BY <1>1, <2>1
  <2>2. CASE j # Len(told) + 1
    <3>1. j \in DOMAIN told /\ ~(j <= Len(told) - (Len(s) - u))
      BY <1>1, <1>2, <1>4, <2>2
    <3>2. s[Len(s) - Len(told) + j] = History!Told(told[j])
      BY <3>1 DEF EndsWith
    <3>3. /\ Len(s) - Len(told) + j \in 1..Len(s)
          /\ Len(s1) - Len(more) + j = Len(s) - Len(told) + j
      BY <1>1, <1>2, <3>1
    <3> QED
      BY <1>1, <3>1, <3>2, <3>3
  <2> QED
    BY <2>1, <2>2
<1>5. EndsWith(s1, u, more)
  <2>1. Len(s1) - u <= Len(more)
    BY <1>1, <1>2
  <2> QED
    BY <1>3, <1>4, <2>1 DEF EndsWith
<1> QED
  BY <1>5 DEF s1, more

\* Pieces of the rest of a queue are as fresh when its head has been told.
LEMMA FreshRest ==
  ASSUME NEW s \in Seq(History!Line), NEW piece \in History!Pieces,
         NEW rest \in Seq(History!Pieces), Fresh(s, <<piece>> \o rest)
  PROVE  /\ Fresh(Append(s, History!Told(piece)), rest)
         /\ \A i \in DOMAIN s : s[i] # History!Told(piece)
<1> DEFINE queue == <<piece>> \o rest
           s1 == Append(s, History!Told(piece))
<1>1. /\ Len(s) \in Nat /\ Len(rest) \in Nat /\ DOMAIN s = 1..Len(s)
      /\ DOMAIN s1 = 1..(Len(s) + 1) /\ DOMAIN rest = 1..Len(rest)
      /\ \A i \in 1..Len(s) : s1[i] = s[i]
      /\ s1[Len(s) + 1] = History!Told(piece)
  OBVIOUS
<1>2. /\ DOMAIN queue = 1..(Len(rest) + 1) /\ queue[1] = piece
      /\ \A j \in 1..Len(rest) : queue[j + 1] = rest[j]
  <2>1. <<piece>> \in Seq(History!Pieces) /\ Len(<<piece>>) = 1 /\ <<piece>>[1] = piece
    BY ShortSequences
  <2> QED
    BY <1>1, <2>1
<1>3. Distinct(queue) /\ \A i \in DOMAIN s, j \in DOMAIN queue : s[i] # History!Told(queue[j])
  BY DEF Fresh
<1> HIDE DEF queue, s1
<1>4. \A j \in 1..Len(rest) : j + 1 \in DOMAIN queue /\ 1 \in DOMAIN queue /\ j + 1 # 1
  BY <1>1, <1>2
<1>5. Distinct(rest)
  BY <1>1, <1>2, <1>3, <1>4 DEF Distinct
<1>6. \A j \in 1..Len(rest) : rest[j] # piece
  BY <1>2, <1>3, <1>4 DEF Distinct
<1>7. \A j \in 1..Len(rest) : rest[j] \in History!Pieces
  BY <1>1
<1>8. ASSUME NEW a \in History!Pieces, NEW b \in History!Pieces,
             History!Told(a) = History!Told(b)
      PROVE  a = b
  BY <1>8 DEF History!Told, History!Pieces
<1>9. ASSUME NEW i \in DOMAIN s1, NEW j \in DOMAIN rest PROVE s1[i] # History!Told(rest[j])
  <2>1. CASE i = Len(s) + 1
    BY <1>1, <1>6, <1>7, <1>8, <2>1
  <2>2. CASE i # Len(s) + 1
    <3>1. i \in DOMAIN s /\ s1[i] = s[i]
      BY <1>1, <2>2
    <3>2. j + 1 \in DOMAIN queue /\ queue[j + 1] = rest[j]
      BY <1>1, <1>2, <1>4
    <3> QED
      BY <1>3, <3>1, <3>2
  <2> QED
    BY <2>1, <2>2
<1>10. \A i \in DOMAIN s : s[i] # History!Told(piece)
  BY <1>2, <1>3, <1>1
<1> QED
  BY <1>5, <1>9, <1>10 DEF Fresh, s1

\* What a turn tells at once.
LEMMA TurnTells ==
  ASSUME story \in Seq(History!Line), NEW t \in Turns
  PROVE  TurnTold(t) = IF turn[t].mode = "resume"
                       THEN Append(story, History!Said(t))
                       ELSE Append(Append(story, History!Said(t)), History!Told(<<t, 1>>))
<1>1. <<>> \in Seq(History!Pieces) /\ <<<<t, 1>>>> \in Seq(History!Pieces)
  <2>1. <<t, 1>> \in History!Pieces
    BY LineTypes
  <2>2. <<>> \in Seq(History!Pieces)
    OBVIOUS
  <2> QED
    BY <2>1, <2>2, ShortSequences
<1>2. History!Lines(<<>>) = <<>>
  <2>1. History!Lines(<<>>) \in Seq(History!Line) /\ Len(History!Lines(<<>>)) = 0
    BY <1>1, LinesTyped
  <2> QED
    BY <2>1
<1>3. History!Lines(<<<<t, 1>>>>) = <<History!Told(<<t, 1>>)>>
  <2> DEFINE l == History!Lines(<<<<t, 1>>>>)
  <2>1. Len(<<<<t, 1>>>>) = 1 /\ 1 \in DOMAIN <<<<t, 1>>>> /\ <<<<t, 1>>>>[1] = <<t, 1>>
    OBVIOUS
  <2>2. l \in Seq(History!Line) /\ Len(l) = 1 /\ l[1] = History!Told(<<t, 1>>)
    BY <1>1, <2>1, LinesTyped
  <2> HIDE DEF l
  <2>3. l = <<l[1]>>
    BY <2>2
  <2> QED
    BY <2>2, <2>3 DEF l
<1>4. story \o <<History!Said(t)>> = Append(story, History!Said(t))
  BY LineTypes
<1>5. Append(story, History!Said(t)) \in Seq(History!Line)
  <2>1. History!Said(t) \in History!Line
    BY LineTypes
  <2> QED
    BY <2>1
<1>6. CASE turn[t].mode = "resume"
  <2>1. TurnTold(t) = Append(story, History!Said(t)) \o <<>>
    BY <1>2, <1>4, <1>6 DEF TurnTold, History!Immediate
  <2> QED
    BY <1>5, <1>6, <2>1
<1>7. CASE turn[t].mode # "resume"
  <2>1. TurnTold(t) = Append(story, History!Said(t)) \o <<History!Told(<<t, 1>>)>>
    BY <1>3, <1>4, <1>7 DEF TurnTold, History!Immediate
  <2> QED
    BY <1>5, <1>7, <2>1
<1> QED
  BY <1>6, <1>7

\* The lines of a turn that is under way have not been seen.
LEMMA OwnLines ==
  ASSUME HistoryTyped, ToldInv, NEW t \in Turns, at[t] # "returned", NEW i \in DOMAIN story
  PROVE  story[i].turn \in Turns \ {t}
<1>1. story[i] \in History!Line
  BY DEF HistoryTyped, History!TypeOK
<1>2. story[i].turn \in Turns
  BY <1>1 DEF History!Line
<1> QED
  BY <1>2 DEF ToldInv

LEMMA TurnFresh ==
  ASSUME HistoryTyped, ToldInv, NEW t \in Turns, at[t] # "returned"
  PROVE  /\ TurnTold(t) \in Seq(History!Line)
         /\ Distinct(TurnTold(t))
         /\ \A i \in DOMAIN TurnTold(t) :
              /\ Says(TurnTold(t)[i])
              /\ TurnTold(t)[i].turn = t \/ at[TurnTold(t)[i].turn] = "returned"
         /\ \A i \in DOMAIN TurnTold(t) : \/ i \in DOMAIN story /\ TurnTold(t)[i] = story[i]
                                          \/ TurnTold(t)[i] = History!Said(t)
                                          \/ /\ TurnTold(t)[i] = History!Told(<<t, 1>>)
                                             /\ turn[t].mode # "resume"
<1> DEFINE x == History!Said(t)
           y == History!Told(<<t, 1>>)
           s1 == Append(story, x)
           s2 == Append(s1, y)
<1>1. story \in Seq(History!Line)
  BY DEF HistoryTyped, History!TypeOK
<1>2. x \in History!Line /\ y \in History!Line /\ Says(x) /\ Says(y)
      /\ x.turn = t /\ y.turn = t /\ x # y
  <2>1. <<t, 1>>[1] = t /\ <<t, 1>>[2] = 1
    OBVIOUS
  <2>2. 1 \in 0..MaxParts /\ 0 \in 0..MaxParts
    BY HistoryAssumed
  <2>3. x = [kind |-> "user", turn |-> t, part |-> 0]
    BY DEF History!Said
  <2>4. y = [kind |-> "told", turn |-> t, part |-> 1]
    BY <2>1 DEF History!Told
  <2> HIDE DEF x, y
  <2>5. x \in History!Line /\ y \in History!Line
    BY <2>2, <2>3, <2>4 DEF History!Line
  <2> QED
    BY <2>3, <2>4, <2>5 DEF Says
<1> HIDE DEF x, y
<1>3. /\ Len(story) \in Nat /\ DOMAIN story = 1..Len(story)
      /\ s1 \in Seq(History!Line) /\ s2 \in Seq(History!Line)
      /\ DOMAIN s1 = 1..(Len(story) + 1) /\ DOMAIN s2 = 1..(Len(story) + 2)
      /\ \A i \in 1..Len(story) : s1[i] = story[i] /\ s2[i] = story[i]
      /\ s1[Len(story) + 1] = x /\ s2[Len(story) + 1] = x /\ s2[Len(story) + 2] = y
  BY <1>1, <1>2
<1> HIDE DEF s1, s2
<1>4. \A i \in 1..Len(story) : /\ story[i].turn # t /\ Says(story[i])
                               /\ at[story[i].turn] = "returned"
  BY <1>3, OwnLines DEF ToldInv
<1>5. \A i, j \in 1..Len(story) : story[i] = story[j] => i = j
  BY <1>3 DEF ToldInv, Distinct
<1>6. \A i \in 1..(Len(story) + 1) : i \in 1..Len(story) \/ i = Len(story) + 1
  BY <1>3
<1>7. \A i \in 1..(Len(story) + 2) : \/ i \in 1..Len(story)
                                     \/ i = Len(story) + 1 \/ i = Len(story) + 2
  BY <1>3
<1>8. Distinct(s1) /\ Distinct(s2)
  <2>1. \A i \in 1..Len(story) : story[i] # x /\ story[i] # y
    BY <1>2, <1>4
  <2>2. Distinct(s1)
    BY <1>3, <1>5, <1>6, <2>1 DEF Distinct
  <2>3. Distinct(s2)
    BY <1>2, <1>3, <1>5, <1>7, <2>1 DEF Distinct
  <2> QED
    BY <2>2, <2>3
<1>9. CASE turn[t].mode = "resume"
  <2>1. TurnTold(t) = s1
    BY <1>1, <1>9, TurnTells DEF s1, x
  <2> QED
    BY <1>2, <1>3, <1>4, <1>6, <1>8, <2>1 DEF x
<1>10. CASE turn[t].mode # "resume"
  <2>1. TurnTold(t) = s2
    BY <1>1, <1>10, TurnTells DEF s1, s2, x, y
  <2> QED
    BY <1>2, <1>3, <1>4, <1>7, <1>8, <1>10, <2>1 DEF x, y
<1> QED
  BY <1>9, <1>10

LEMMA StoryKept ==
  ASSUME HistoryTyped, ToldInv, NEW c \in History!Calls, Moves(c), at[c] # "returned",
         UNCHANGED story
  PROVE  /\ Distinct(story')
         /\ \A i \in DOMAIN story' : Says(story'[i]) /\ at'[story'[i].turn] = "returned"
<1>1. ASSUME NEW i \in DOMAIN story PROVE at'[story[i].turn] = "returned"
  <2>1. story[i] \in History!Line
    BY DEF HistoryTyped, History!TypeOK
  <2>2. story[i].turn \in History!Calls
    BY <2>1, CallsNamed DEF History!Line
  <2>3. at[story[i].turn] = "returned"
    BY DEF ToldInv
  <2> QED
    BY <2>2, <2>3 DEF Moves
<1> QED
  BY <1>1 DEF ToldInv

\* Where a turn may leave the transcript.
LEMMA ToldByTurn ==
  ASSUME NEW t \in Turns, Moves(t), Distinct(story'),
         \A i \in DOMAIN story' : Says(story'[i]) /\ at'[story'[i].turn] = "returned",
         at'[t] = "plan" => Planned(t)', at'[t] = "write" => Stored(t)',
         at'[t] \notin {"plan", "write"} => AtRest(rows)'
  PROVE  ToldInv'
<1>1. \A u \in Turns : u # t => at'[u] \in {"idle", "returned"}
  BY CallsNamed DEF Moves
<1>2. \A p \in Pollers : at'[p] \in {"idle", "returned"}
  BY CallsNamed DEF Moves
<1>3. at'["delete"] \in {"idle", "returned"}
  BY CallsNamed DEF Moves
<1>4. \A u \in Turns : /\ at'[u] = "plan" => Planned(u)'
                       /\ at'[u] = "write" => Stored(u)'
  BY <1>1
<1> QED
  BY <1>2, <1>3, <1>4 DEF ToldInv

\* Where a poll, or the deletion, may leave it.
LEMMA ToldByOther ==
  ASSUME NEW c \in Pollers \cup {"delete"}, Moves(c), Distinct(story'),
         \A i \in DOMAIN story' : Says(story'[i]) /\ at'[story'[i].turn] = "returned",
         at'[c] = "write" => c \in Pollers /\ Taken(c)', at'[c] = "memory" => c = "delete",
         at'["delete"] = "memory" => rows' = <<>> /\ story' = <<>>,
         at'[c] \notin {"write", "memory"} => AtRest(rows)'
  PROVE  ToldInv'
<1>1. \A u \in Turns : at'[u] \in {"idle", "returned"}
  BY CallsNamed DEF Moves
<1>2. \A p \in Pollers : p # c => at'[p] \in {"idle", "returned"}
  BY CallsNamed DEF Moves
<1>3. c \in Pollers => at'["delete"] \in {"idle", "returned"}
  BY CallsNamed DEF Moves
<1>4. \A p \in Pollers : at'[p] = "write" => Taken(p)'
  BY <1>2
<1>5. CASE at'[c] \notin {"write", "memory"}
  BY <1>1, <1>4, <1>5 DEF ToldInv
<1>6. CASE at'[c] = "memory" /\ c = "delete"
  BY <1>1, <1>4, <1>6 DEF ToldInv
<1>7. CASE at'[c] = "write" /\ c \in Pollers
  BY <1>1, <1>4, <1>7 DEF ToldInv
<1> QED
  BY <1>5, <1>6, <1>7

\* When the only call that moves is not about to write, nothing lags behind.
LEMMA NothingLags ==
  ASSUME ToldInv, NEW c \in History!Calls, Moves(c), at[c] \notin {"plan", "write", "memory"}
  PROVE  AtRest(rows)
<1>1. \A d \in History!Calls : at[d] \notin {"plan", "write", "memory"}
  BY DEF Moves
<1> QED
  BY <1>1, CallsNamed DEF ToldInv

LEMMA TurnDecidesTold ==
  ASSUME HistoryTyped, ToldInv, NEW t \in Turns, Moves(t), History!TurnDecides(t),
         at'[t] = "plan" => turn'[t].mode # "core", at'[t] \in {"ask", "look", "plan"}
  PROVE  ToldInv'
<1>1. at[t] = "idle" /\ UNCHANGED <<rows, memory, store, story>> /\ t \in History!Calls
  BY CallsNamed DEF History!TurnDecides
<1>2. AtRest(rows)
  BY <1>1, NothingLags
<1>3. AtRest(rows)'
  BY <1>1, <1>2 DEF AtRest
<1>4. at'[t] = "plan" => Planned(t)'
  <2>1. rows' \in Seq(History!Line)
    BY <1>1 DEF HistoryTyped, History!TypeOK
  <2> QED
    BY <1>3, <2>1 DEF Planned, Unanswered
<1> QED
  BY <1>1, <1>3, <1>4, StoryKept, ToldByTurn

LEMMA AgentAnswersTold ==
  ASSUME HistoryTyped, ToldInv, NEW t \in Turns, Moves(t), turn[t].mode = "core",
         History!AgentAnswers(t)
  PROVE  ToldInv'
<1>1. at[t] = "ask" /\ UNCHANGED <<memory, store, story>> /\ t \in History!Calls
  BY CallsNamed DEF History!AgentAnswers
<1>2. AtRest(rows)
  BY <1>1, NothingLags
<1>3. at'[t] \in {"plan", "returned"}
  BY <1>1 DEF History!AgentAnswers, History!Returns, History!Goto, HistoryTyped, History!TypeOK
<1>4. ASSUME at'[t] = "plan" PROVE Planned(t)'
  <2>1. rows' = rows \o <<History!Said(t), History!Raw(t)>> /\ UNCHANGED turn
    BY <1>1, <1>4 DEF History!AgentAnswers, History!Returns, History!Goto, HistoryTyped,
                      History!TypeOK
  <2>2. rows \in Seq(History!Line)
    BY DEF HistoryTyped, History!TypeOK
  <2> QED
    BY <1>1, <1>2, <2>1, <2>2 DEF Planned, Unanswered, AtRest
<1>5. ASSUME at'[t] # "plan" PROVE AtRest(rows)'
  <2>1. UNCHANGED rows
    BY <1>1, <1>5 DEF History!AgentAnswers, History!Goto, HistoryTyped, History!TypeOK
  <2> QED
    BY <1>1, <1>2, <2>1 DEF AtRest
<1> QED
  BY <1>1, <1>3, <1>4, <1>5, StoryKept, ToldByTurn

LEMMA TurnStoresTold ==
  ASSUME HistoryTyped, HistoryTyped', ToldInv, AloneInv, NEW t \in Turns, Moves(t),
         at'[t] = "write", History!TurnStores(t)
  PROVE  ToldInv'
<1>1. /\ at[t] = "plan" /\ store' = t /\ UNCHANGED <<rows, story, turn>>
      /\ t \in History!Calls
  BY CallsNamed DEF History!TurnStores
<1>2. /\ turn[t].ref = store /\ turn[t].queue = memory[store].queue
      /\ story \in Seq(History!Line)
  BY <1>1 DEF AloneInv, HistoryTyped, History!TypeOK
<1>3. PICK list \in Seq(History!Line) : Unanswered(t, list) /\ AtRest(list)
  BY <1>1 DEF ToldInv, Planned
<1>4. Settled(list, story, story, memory[store].delivered)
  BY <1>3 DEF AtRest
<1>5. PICK f : \E cut \in Nat, u \in Nat :
        /\ Follows(list, story, f) /\ CutAt(list, story, f, cut, u)
        /\ EndsWith(story, u, memory[store].delivered)
  BY <1>4 DEF Settled
<1>6. PICK cut \in Nat, u \in Nat :
        /\ Follows(list, story, f) /\ CutAt(list, story, f, cut, u)
        /\ EndsWith(story, u, memory[store].delivered)
  BY <1>5
<1>7. PICK kept \in Seq(History!Pieces), plan \in Seq(History!Pieces) :
           /\ kept = IF turn[t].keep THEN memory[turn[t].ref].delivered ELSE <<>>
           /\ turn[t].mode # "resume" => plan # <<>>
           /\ \A i \in DOMAIN plan : plan[i] = <<t, i>>
           /\ memory' = [memory EXCEPT ![t] =
                IF turn[t].mode = "resume" THEN [delivered |-> kept, queue |-> turn[t].queue]
                ELSE [delivered |-> Append(kept, <<t, 1>>), queue |-> Tail(plan)]]
  BY PlanStored
<1>8. memory'[t] = IF turn[t].mode = "resume" THEN [delivered |-> kept, queue |-> turn[t].queue]
                   ELSE [delivered |-> Append(kept, <<t, 1>>), queue |-> Tail(plan)]
  BY <1>7 DEF HistoryTyped, History!TypeOK
<1>9. \A j \in DOMAIN kept : \E i \in DOMAIN story : story[i] = History!Told(kept[j])
  <2>1. CASE turn[t].keep
    <3>1. kept = memory[store].delivered
      BY <1>2, <1>7, <2>1
    <3>2. ASSUME NEW j \in DOMAIN kept
          PROVE  \E i \in DOMAIN story : story[i] = History!Told(kept[j])
      <4> DEFINE n == Len(story) - Len(kept) + j
      <4>1. /\ Len(story) \in Nat /\ Len(kept) \in Nat /\ DOMAIN story = 1..Len(story)
            /\ DOMAIN kept = 1..Len(kept) /\ u <= Len(story)
            /\ Len(story) - u <= Len(kept)
        BY <1>2, <1>6, <3>1 DEF EndsWith, CutAt
      <4>2. CASE j <= Len(kept) - (Len(story) - u)
        <5>1. PICK i \in 1..u : story[i] = History!Told(kept[j])
          BY <1>6, <3>1, <4>2 DEF EndsWith
        <5>2. i \in DOMAIN story
          BY <4>1
        <5> QED
          BY <5>1, <5>2
      <4>3. CASE ~(j <= Len(kept) - (Len(story) - u))
        <5>1. story[n] = History!Told(kept[j])
          BY <1>6, <3>1, <4>3 DEF EndsWith
        <5>2. n \in DOMAIN story
          BY <4>1, <4>3
        <5> QED
          BY <5>1, <5>2
      <4> QED
        BY <4>2, <4>3
    <3> QED
      BY <3>2
  <2>2. CASE ~turn[t].keep
    BY <1>7, <2>2
  <2> QED
    BY <2>1, <2>2
<1>10. EndsWith(TurnTold(t), Len(story) + 1, memory'[t].delivered)
  <2>1. History!Said(t) \in History!Line /\ <<t, 1>> \in History!Pieces
    BY LineTypes
  <2>2. /\ EndsWith(Append(story, History!Said(t)), Len(story) + 1, kept)
        /\ EndsWith(Append(Append(story, History!Said(t)), History!Told(<<t, 1>>)),
                    Len(story) + 1, Append(kept, <<t, 1>>))
    BY <1>2, <1>9, <2>1, KeptEnds
  <2>3. CASE turn[t].mode = "resume"
    <3>1. TurnTold(t) = Append(story, History!Said(t))
      BY <1>2, <2>3, TurnTells
    <3>2. memory'[t].delivered = kept
      BY <1>8, <2>3
    <3> QED
      BY <2>2, <3>1, <3>2
  <2>4. CASE turn[t].mode # "resume"
    <3>1. TurnTold(t) = Append(Append(story, History!Said(t)), History!Told(<<t, 1>>))
      BY <1>2, <2>4, TurnTells
    <3>2. memory'[t].delivered = Append(kept, <<t, 1>>)
      BY <1>8, <2>4
    <3> QED
      BY <2>2, <3>1, <3>2
  <2> QED
    BY <2>3, <2>4
<1>11. Fresh(TurnTold(t), memory'[t].queue)
  <2>1. \A i \in DOMAIN TurnTold(t) : \/ i \in DOMAIN story /\ TurnTold(t)[i] = story[i]
                                      \/ TurnTold(t)[i] = History!Said(t)
                                      \/ /\ TurnTold(t)[i] = History!Told(<<t, 1>>)
                                         /\ turn[t].mode # "resume"
    BY <1>1, TurnFresh
  <2>2. \A piece : History!Said(t) # History!Told(piece)
    BY DEF History!Said, History!Told
  <2>3. CASE turn[t].mode = "resume"
    <3>1. Fresh(story, memory'[t].queue)
      BY <1>2, <1>3, <1>8, <2>3 DEF AtRest
    <3> QED
      BY <2>1, <2>2, <2>3, <3>1 DEF Fresh
  <2>4. CASE turn[t].mode # "resume"
    <3> DEFINE queue == Tail(plan)
    <3>1. /\ Len(plan) \in Nat /\ Len(plan) # 0 /\ DOMAIN plan = 1..Len(plan)
          /\ queue \in Seq(History!Pieces) /\ DOMAIN queue = 1..(Len(plan) - 1)
          /\ \A j \in 1..(Len(plan) - 1) : queue[j] = plan[j + 1]
      BY <1>7, <2>4
    <3> HIDE DEF queue
    <3>2. \A j \in DOMAIN queue : j \in Nat /\ j >= 1 /\ queue[j] = <<t, j + 1>>
      <4>1. ASSUME NEW j \in DOMAIN queue PROVE j \in Nat /\ j >= 1 /\ queue[j] = <<t, j + 1>>
        <5>1. j \in Nat /\ j >= 1 /\ j + 1 \in DOMAIN plan /\ queue[j] = plan[j + 1]
          BY <3>1
        <5> QED
          BY <1>7, <5>1
      <4> QED
        BY <4>1
    <3>3. Distinct(queue)
      <4>1. ASSUME NEW i \in DOMAIN queue, NEW j \in DOMAIN queue, queue[i] = queue[j]
            PROVE  i = j
        <5>1. i + 1 = j + 1
          BY <3>2, <4>1
        <5> QED
          BY <3>2, <5>1
      <4> QED
        BY <4>1 DEF Distinct
    <3>4. ASSUME NEW j \in DOMAIN queue
          PROVE  /\ History!Told(queue[j]).turn = t
                 /\ History!Told(queue[j]).part # History!Told(<<t, 1>>).part
      BY <3>2 DEF History!Told
    <3>5. ASSUME NEW i \in DOMAIN TurnTold(t), NEW j \in DOMAIN queue
          PROVE  TurnTold(t)[i] # History!Told(queue[j])
      <4>1. CASE i \in DOMAIN story /\ TurnTold(t)[i] = story[i]
        BY <1>1, <3>4, <4>1, OwnLines
      <4>2. CASE TurnTold(t)[i] = History!Said(t)
        BY <2>2, <4>2
      <4>3. CASE TurnTold(t)[i] = History!Told(<<t, 1>>)
        BY <3>4, <4>3
      <4> QED
        BY <2>1, <4>1, <4>2, <4>3
    <3>6. Fresh(TurnTold(t), queue)
      BY <3>3, <3>5 DEF Fresh
    <3> QED
      BY <1>8, <2>4, <3>6 DEF queue
  <2> QED
    BY <2>3, <2>4
<1>12. Stored(t)'
  <2>1. TurnTold(t)' = TurnTold(t)
    BY <1>1 DEF TurnTold, History!Immediate
  <2>2. Unanswered(t, list)' /\ Seen(list, story)'
    BY <1>1, <1>3, <1>6 DEF Unanswered, Seen
  <2> QED
    BY <1>1, <1>10, <1>11, <2>1, <2>2 DEF Stored
<1> QED
  BY <1>1, <1>12, StoryKept, ToldByTurn

\* The answer of the agent, or nothing, gives way to what was told.
LEMMA WrittenRows ==
  ASSUME HistoryTyped, NEW t \in Turns, History!TurnWrites(t),
         NEW list \in Seq(History!Line), Unanswered(t, list)
  PROVE  rows' = Append(Append(list, History!Said(t)),
                        History!Told(<<t, IF turn[t].mode = "resume" THEN 0 ELSE 1>>))
<1> DEFINE x == History!Said(t)
           y == History!Raw(t)
           k == IF turn[t].mode = "resume" THEN 0 ELSE 1
           z == History!Told(<<t, k>>)
<1>1. x \in History!Line /\ y \in History!Line /\ x.kind = "user" /\ y.kind # "user"
  BY LineTypes DEF History!Said, History!Raw
<1>2. Len(History!Immediate(t)) = k
  BY DEF History!Immediate
<1>3. z \in History!Line
  <2>1. k \in 0..MaxParts /\ <<t, k>>[1] = t /\ <<t, k>>[2] = k
    BY HistoryAssumed
  <2> QED
    BY <2>1 DEF History!Told, History!Line
<1>4. CASE turn[t].mode # "core"
  <2>1. rows' = list \o <<x, z>>
    BY <1>2, <1>4 DEF Unanswered, History!TurnWrites
  <2> HIDE DEF x, y, z
  <2>2. list \o <<x, z>> = Append(Append(list, x), z)
    BY <1>1, <1>3
  <2> QED
    BY <2>1, <2>2 DEF x, z
<1>5. CASE turn[t].mode = "core"
  <2> DEFINE whole == list \o <<x, y>>
             cut == Len(list) + 1
  <2>1. rows = whole /\ rows' = History!Rewritten(<<<<t, 1>>>>)
    BY <1>5 DEF Unanswered, History!TurnWrites, History!Immediate
  <2>2. History!Lines(<<<<t, 1>>>>) = <<History!Told(<<t, 1>>)>>
    <3> DEFINE l == History!Lines(<<<<t, 1>>>>)
    <3>1. Len(<<<<t, 1>>>>) = 1 /\ 1 \in DOMAIN <<<<t, 1>>>> /\ <<<<t, 1>>>>[1] = <<t, 1>>
      OBVIOUS
    <3>2. <<<<t, 1>>>> \in Seq(History!Pieces)
      <4>1. <<t, 1>> \in History!Pieces
        BY LineTypes
      <4> QED
        BY <4>1, ShortSequences
    <3>3. l \in Seq(History!Line) /\ Len(l) = 1 /\ l[1] = History!Told(<<t, 1>>)
      BY <3>1, <3>2, LinesTyped
    <3> HIDE DEF l
    <3>4. l = <<l[1]>>
      BY <3>3
    <3> QED
      BY <3>3, <3>4 DEF l
  <2> HIDE DEF x, y
  <2>3. /\ whole \in Seq(History!Line) /\ Len(whole) = Len(list) + 2 /\ Len(list) \in Nat
        /\ whole[Len(list) + 1] = x /\ whole[Len(list) + 2] = y
        /\ cut \in 0..Len(whole)
    BY <1>1
  <2>4. \A n \in (cut + 1)..Len(whole) : whole[n].kind # "user"
    <3>1. \A n \in (cut + 1)..Len(whole) : n = Len(list) + 2
      BY <2>3
    <3> QED
      BY <1>1, <2>3, <3>1
  <2>5. SubSeq(whole, 1, cut) = Append(list, x)
    BY <1>1
  <2> HIDE DEF whole, cut
  <2>6. whole[cut].kind = "user"
    BY <1>1, <2>3 DEF cut
  <2>7. History!Trimmed(whole) = Append(list, x)
    BY <2>3, <2>4, <2>5, <2>6, TrimmedAt
  <2>8. rows' = Append(list, x) \o <<z>>
    BY <1>5, <2>1, <2>2, <2>7 DEF History!Rewritten
  <2>9. Append(list, x) \in Seq(History!Line)
    BY <1>1
  <2> HIDE DEF z
  <2>10. Append(list, x) \o <<z>> = Append(Append(list, x), z)
    BY <1>3, <2>9
  <2> QED
    BY <2>8, <2>10 DEF x, z
<1> QED
  BY <1>4, <1>5

LEMMA TurnWritesTold ==
  ASSUME HistoryTyped, ToldInv, NEW t \in Turns, Moves(t), at'[t] = "returned",
         History!TurnWrites(t)
  PROVE  ToldInv'
<1>1. /\ at[t] = "write" /\ story' = TurnTold(t) /\ UNCHANGED <<memory, store>>
      /\ t \in History!Calls /\ story \in Seq(History!Line)
  BY CallsNamed DEF History!TurnWrites, TurnTold, HistoryTyped, History!TypeOK
<1>2. /\ EndsWith(TurnTold(t), Len(story) + 1, memory[store].delivered)
      /\ Fresh(TurnTold(t), memory[store].queue)
      /\ \E list \in Seq(History!Line) : Unanswered(t, list) /\ Seen(list, story)
  BY <1>1 DEF ToldInv, Stored
<1>3. PICK list \in Seq(History!Line) : Unanswered(t, list) /\ Seen(list, story)
  BY <1>2
<1> DEFINE k == IF turn[t].mode = "resume" THEN 0 ELSE 1
           x == History!Said(t)
           y == History!Told(<<t, k>>)
<1>4. rows' = Append(Append(list, x), y)
  BY <1>3, WrittenRows
<1>5. x \in History!Line /\ x.kind = "user"
  BY LineTypes DEF History!Said
<1>6. /\ y \in History!Line /\ y.kind = "told"
      /\ Says(y) <=> turn[t].mode # "resume"
  <2>1. k \in 0..MaxParts /\ <<t, k>>[1] = t /\ <<t, k>>[2] = k
    BY HistoryAssumed
  <2>2. y = [kind |-> "told", turn |-> t, part |-> k]
    BY <2>1 DEF History!Told
  <2> HIDE DEF y
  <2> QED
    BY <2>1, <2>2 DEF History!Line, Says
<1>7. TurnTold(t) = IF Says(y) THEN Append(Append(story, x), y) ELSE Append(story, x)
  BY <1>1, <1>6, TurnTells
<1> HIDE DEF x, y
<1>8. Settled(rows', story', story', memory'[store'].delivered)
  <2>1. Settled(Append(Append(list, x), y), TurnTold(t), TurnTold(t), memory[store].delivered)
    BY <1>1, <1>2, <1>3, <1>5, <1>6, <1>7, TurnSettles
  <2> QED
    BY <1>1, <1>4, <2>1
<1>9. AtRest(rows)'
  BY <1>1, <1>2, <1>8 DEF AtRest
<1>10. /\ Distinct(TurnTold(t))
       /\ \A i \in DOMAIN TurnTold(t) :
            /\ Says(TurnTold(t)[i])
            /\ TurnTold(t)[i].turn = t \/ at[TurnTold(t)[i].turn] = "returned"
       /\ TurnTold(t) \in Seq(History!Line)
  BY <1>1, TurnFresh
<1>11. ASSUME NEW i \in DOMAIN story' PROVE Says(story'[i]) /\ at'[story'[i].turn] = "returned"
  <2>1. story'[i] \in History!Line
    BY <1>1, <1>10
  <2>2. story'[i].turn \in History!Calls
    BY <2>1, CallsNamed DEF History!Line
  <2> QED
    BY <1>1, <1>10, <2>2 DEF Moves
<1> QED
  BY <1>1, <1>9, <1>10, <1>11, ToldByTurn

LEMMA PollTakesTold ==
  ASSUME HistoryTyped, ToldInv, NEW p \in Pollers, Moves(p), at'[p] = "write",
         History!PollTakes(p)
  PROVE  ToldInv'
<1>1. /\ at[p] = "idle" /\ UNCHANGED <<rows, store, story>> /\ p \in History!Calls
      /\ story \in Seq(History!Line)
  BY CallsNamed DEF History!PollTakes, HistoryTyped, History!TypeOK
<1>2. AtRest(rows)
  BY <1>1, NothingLags
<1>3. PICK piece \in History!Pieces, rest \in Seq(History!Pieces) :
        /\ memory[store].queue = <<piece>> \o rest
        /\ at[piece[1]] = "returned"
        /\ memory' = [memory EXCEPT ![store] =
               [delivered |-> Append(memory[store].delivered, piece), queue |-> rest]]
        /\ taken' = [taken EXCEPT ![p] = <<store, piece>>]
  BY HeadTaken
<1>4. store \in Turns /\ memory[store].delivered \in Seq(History!Pieces)
  BY HeadTaken DEF HistoryTyped, History!TypeOK
<1>5. /\ memory'[store].delivered = Append(memory[store].delivered, piece)
      /\ memory'[store].queue = rest
  BY <1>3, <1>4 DEF HistoryTyped, History!TypeOK
<1>6. taken'[p] = <<store, piece>>
  BY <1>3 DEF HistoryTyped, History!TypeOK
<1>7. PollTold(p)' = Append(story, History!Told(piece))
  BY <1>1, <1>6 DEF PollTold
<1>8. /\ Fresh(Append(story, History!Told(piece)), rest)
      /\ \A i \in DOMAIN story : story[i] # History!Told(piece)
  BY <1>1, <1>2, <1>3, FreshRest DEF AtRest
<1>9. Settled(rows, story, Append(story, History!Told(piece)),
              Append(memory[store].delivered, piece))
  <2>1. PICK f : \E cut \in Nat, u \in Nat :
          /\ Follows(rows, story, f) /\ CutAt(rows, story, f, cut, u)
          /\ EndsWith(story, u, memory[store].delivered)
    BY <1>2 DEF AtRest, Settled
  <2>2. PICK cut \in Nat, u \in Nat :
          /\ Follows(rows, story, f) /\ CutAt(rows, story, f, cut, u)
          /\ EndsWith(story, u, memory[store].delivered)
    BY <2>1
  <2>3. u \in 0..Len(story)
    BY <2>2 DEF CutAt
  <2>4. EndsWith(Append(story, History!Told(piece)), u, Append(memory[store].delivered, piece))
    BY <1>1, <1>4, <2>2, <2>3, NextEnds
  <2> QED
    BY <2>2, <2>4 DEF Settled
<1>10. at'[piece[1]] = "returned"
  <2>1. piece[1] \in History!Calls
    BY CallsNamed DEF History!Pieces
  <2> QED
    BY <1>1, <1>3, <2>1 DEF Moves
<1>11. Taken(p)'
  <2>1. taken'[p][1] = store /\ taken'[p][2] = piece
    BY <1>6
  <2>2. Settled(rows', story', PollTold(p)', memory'[store'].delivered)
    BY <1>1, <1>5, <1>7, <1>9
  <2>3. Fresh(PollTold(p)', memory'[store'].queue)
    BY <1>1, <1>5, <1>7, <1>8
  <2>4. \A i \in DOMAIN story' : story'[i] # History!Told(taken'[p][2])
    BY <1>1, <1>8, <2>1
  <2> QED
    BY <1>1, <1>10, <2>1, <2>2, <2>3, <2>4 DEF Taken
<1>12. at'["delete"] \in {"idle", "returned"}
  BY CallsNamed DEF Moves
<1> QED
  BY <1>1, <1>11, <1>12, StoryKept, ToldByOther

LEMMA PollWritesTold ==
  ASSUME HistoryTyped, ToldInv, NEW p \in Pollers, Moves(p), at'[p] = "idle",
         History!PollWrites(p)
  PROVE  ToldInv'
<1>1. /\ at[p] = "write" /\ p \in History!Calls /\ Taken(p)
      /\ story \in Seq(History!Line) /\ rows \in Seq(History!Line)
  BY CallsNamed DEF History!PollWrites, HistoryTyped, History!TypeOK, ToldInv
<1> DEFINE piece == taken[p][2]
           told == memory[store].delivered
           line == History!Told(piece)
<1>2. /\ rows' = History!Rewritten(told) /\ store' = store /\ UNCHANGED memory
      /\ story' = Append(story, line) /\ PollTold(p) = Append(story, line)
  BY <1>1 DEF History!PollWrites, Taken, PollTold
<1>3. /\ piece \in History!Pieces /\ told \in Seq(History!Pieces)
  BY <1>1 DEF HistoryTyped, History!TypeOK, Taken
<1>4. line \in History!Line /\ Says(line) /\ line.turn = piece[1]
  BY <1>3, HistoryAssumed DEF History!Told, History!Line, History!Pieces, Says
<1>5. /\ Settled(rows, story, Append(story, line), told)
      /\ Fresh(Append(story, line), memory[store].queue)
      /\ \A i \in DOMAIN story : story[i] # line
      /\ at[piece[1]] = "returned"
  BY <1>1, <1>2 DEF Taken
<1> HIDE DEF line, told, piece
<1>6. PICK f : \E cut \in Nat, u \in Nat :
        /\ Follows(rows, story, f) /\ CutAt(rows, story, f, cut, u)
        /\ EndsWith(Append(story, line), u, told)
  BY <1>5 DEF Settled
<1>7. PICK cut \in Nat, u \in Nat :
        /\ Follows(rows, story, f) /\ CutAt(rows, story, f, cut, u)
        /\ EndsWith(Append(story, line), u, told)
  BY <1>6
<1>8. History!Trimmed(rows) = SubSeq(rows, 1, cut)
  BY <1>1, <1>7, TrimmedAt DEF CutAt
<1>9. Settled(rows', story', story', told)
  <2>1. Settled(SubSeq(rows, 1, cut) \o History!Lines(told), Append(story, line),
                Append(story, line), told)
    BY <1>1, <1>3, <1>4, <1>7, RewriteSettles
  <2> QED
    BY <1>2, <1>8, <2>1 DEF History!Rewritten
<1>10. AtRest(rows)'
  BY <1>2, <1>5, <1>9 DEF AtRest, told
<1>11. /\ Len(story) \in Nat /\ DOMAIN story = 1..Len(story)
       /\ DOMAIN story' = 1..(Len(story) + 1)
       /\ \A i \in 1..Len(story) : story'[i] = story[i]
       /\ story'[Len(story) + 1] = line
  BY <1>1, <1>2
<1>12. \A i \in DOMAIN story' : i \in 1..Len(story) \/ i = Len(story) + 1
  BY <1>11
<1>13. Distinct(story')
  BY <1>5, <1>11, <1>12 DEF Distinct, ToldInv
<1>14. ASSUME NEW i \in DOMAIN story' PROVE Says(story'[i]) /\ at'[story'[i].turn] = "returned"
  <2>1. Says(story'[i]) /\ at[story'[i].turn] = "returned" /\ story'[i] \in History!Line
    <3>1. CASE i \in 1..Len(story)
      BY <1>1, <1>11, <3>1 DEF ToldInv
    <3>2. CASE i = Len(story) + 1
      BY <1>4, <1>5, <1>11, <3>2
    <3> QED
      BY <1>12, <3>1, <3>2
  <2>2. story'[i].turn \in History!Calls
    BY <2>1, CallsNamed DEF History!Line
  <2> QED
    BY <1>1, <2>1, <2>2 DEF Moves
<1>15. at'["delete"] \in {"idle", "returned"}
  BY CallsNamed DEF Moves
<1> QED
  BY <1>10, <1>13, <1>14, <1>15, ToldByOther

\* A deletion forgets the transcript, and what the user has seen with it.
LEMMA DeleteRowsTold ==
  ASSUME Moves("delete"), at'["delete"] = "memory", History!DeleteRows
  PROVE  ToldInv'
<1>1. rows' = <<>> /\ story' = <<>>
  BY DEF History!DeleteRows
<1>2. Distinct(story') /\ \A i \in DOMAIN story' : FALSE
  <2>1. DOMAIN <<>> = {}
    OBVIOUS
  <2> QED
    BY <1>1, <2>1, NothingSettled
<1> QED
  BY <1>1, <1>2, ToldByOther

LEMMA DeleteMemoryTold ==
  ASSUME HistoryTyped, ToldInv, Moves("delete"), at'["delete"] = "contexts",
         History!DeleteMemory
  PROVE  ToldInv'
<1>1. /\ at["delete"] = "memory" /\ store' = Nothing /\ UNCHANGED <<rows, memory, story>>
      /\ "delete" \in History!Calls
  BY CallsNamed DEF History!DeleteMemory
<1>2. rows = <<>> /\ story = <<>>
  BY <1>1 DEF ToldInv
<1>3. memory[Nothing].delivered = <<>> /\ memory[Nothing].queue = <<>>
  BY DEF HistoryTyped, History!Blank
<1>4. AtRest(rows)'
  BY <1>1, <1>2, <1>3, NothingSettled DEF AtRest
<1>5. /\ Distinct(story')
      /\ \A i \in DOMAIN story' : Says(story'[i]) /\ at'[story'[i].turn] = "returned"
  BY <1>1, StoryKept
<1> QED
  BY <1>4, <1>5, ToldByOther

LEMMA DeleteContextsTold ==
  ASSUME HistoryTyped, ToldInv, Moves("delete"), at'["delete"] = "returned",
         History!DeleteContexts
  PROVE  ToldInv'
<1>1. /\ at["delete"] = "contexts" /\ UNCHANGED <<rows, memory, store, story>>
      /\ "delete" \in History!Calls
  BY CallsNamed DEF History!DeleteContexts
<1>2. AtRest(rows)'
  BY <1>1, NothingLags DEF AtRest
<1>3. /\ Distinct(story')
      /\ \A i \in DOMAIN story' : Says(story'[i]) /\ at'[story'[i].turn] = "returned"
  BY <1>1, StoryKept
<1> QED
  BY <1>2, <1>3, ToldByOther

\* Everything said of a session whose calls come one at a time.
HistoryInv == HistoryTyped /\ OneByOne /\ (~crossing /\ ~remote => ToldInv)

LEMMA ToldStep ==
  ASSUME HistoryInv, HistoryTyped', OneByOne', History!Next
  PROVE  (~crossing /\ ~remote => ToldInv)'
<1> USE DEF History!Goto
<1>1. SUFFICES ASSUME ~crossing', ~remote' PROVE ToldInv'
  OBVIOUS
<1>2. HistoryTyped /\ OneByOne /\ AloneInv' /\ (~crossing /\ ~remote => ToldInv)
  BY <1>1 DEF HistoryInv, OneByOne
<1>3. \A t \in Turns : t \in History!Calls
  BY CallsNamed
<1>4. DOMAIN turn = Turns /\ DOMAIN at = History!Calls
  BY <1>2 DEF HistoryTyped, History!TypeOK
<1>5. ASSUME NEW t \in Turns, History!TurnDecides(t) PROVE ToldInv'
  <2>1. PICK target \in History!Targets, keep \in BOOLEAN,
             mode \in {"core", "replan", "resume"} :
          /\ turn' = [turn EXCEPT ![t] =
                [History!NoTurn EXCEPT !.target = target, !.mode = mode, !.keep = keep,
                               !.ref = store, !.queue = memory[store].queue]]
          /\ History!Goto(t, IF mode # "core" THEN "plan"
                             ELSE IF target = "framework" THEN "ask" ELSE "look")
    BY <1>5 DEF History!TurnDecides
  <2>2. History!Begins /\ UNCHANGED remote
    BY <1>5 DEF History!TurnDecides
  <2>3. /\ ~crossing /\ Moves(t)
        /\ at'[t] = IF mode # "core" THEN "plan"
                    ELSE IF target = "framework" THEN "ask" ELSE "look"
    BY <1>1, <1>2, <1>3, <2>1, <2>2, OnlyOneMoves
  <2>4. turn'[t].mode = mode
    BY <1>4, <2>1 DEF History!NoTurn
  <2>5. /\ at'[t] = "plan" => turn'[t].mode # "core"
        /\ at'[t] \in {"ask", "look", "plan"}
    BY <2>3, <2>4
  <2> QED
    BY <1>1, <1>2, <1>5, <2>2, <2>3, <2>5, TurnDecidesTold
<1>6. ASSUME NEW t \in Turns, History!AgentAnswers(t) PROVE ToldInv'
  <2>1. PICK there \in {"plan", "returned"} : History!Goto(t, there)
    BY <1>6 DEF History!AgentAnswers, History!Returns
  <2>2. at[t] = "ask" /\ History!Busy(t) /\ UNCHANGED <<remote, crossing>>
    BY <1>6 DEF History!AgentAnswers, History!Busy
  <2>3. ~crossing /\ AloneInv /\ Moves(t)
    BY <1>1, <1>2, <1>3, <2>1, <2>2, OnlyOneMoves
  <2>4. turn[t].mode = "core"
    BY <2>2, <2>3 DEF AloneInv, Asking
  <2> QED
    BY <1>1, <1>2, <1>6, <2>2, <2>3, <2>4, AgentAnswersTold
<1>7. ASSUME NEW t \in Turns,
             \/ History!RemoteLooks(t) \/ History!RemoteAnswers(t)
             \/ History!RemoteFails(t) \/ History!RemoteSaves(t)
      PROVE  FALSE
  <2>1. CASE History!RemoteLooks(t)
    BY <1>1, <2>1 DEF History!RemoteLooks
  <2>2. CASE ~History!RemoteLooks(t)
    <3>1. /\ at[t] \in {"run", "rerun", "save"} /\ History!Busy(t)
          /\ UNCHANGED <<remote, crossing>>
      BY <1>7, <2>2 DEF History!RemoteAnswers, History!RemoteFails, History!RemoteSaves,
                        History!Busy
    <3>2. AloneInv
      BY <1>1, <1>2, <3>1 DEF OneByOne
    <3> QED
      BY <1>1, <3>1, <3>2 DEF AloneInv
  <2> QED
    BY <2>1, <2>2
<1>8. ASSUME NEW t \in Turns, History!TurnStores(t) PROVE ToldInv'
  <2>1. /\ at[t] = "plan" /\ History!Busy(t) /\ History!Goto(t, "write")
        /\ UNCHANGED <<remote, crossing>>
    BY <1>8 DEF History!TurnStores, History!Busy
  <2>2. ~crossing /\ AloneInv /\ Moves(t) /\ at'[t] = "write"
    BY <1>1, <1>2, <1>3, <2>1, OnlyOneMoves
  <2> QED
    BY <1>1, <1>2, <1>8, <2>1, <2>2, TurnStoresTold
<1>9. ASSUME NEW t \in Turns, History!TurnWrites(t) PROVE ToldInv'
  <2>1. /\ at[t] = "write" /\ History!Busy(t) /\ History!Goto(t, "returned")
        /\ UNCHANGED <<remote, crossing>>
    BY <1>9 DEF History!TurnWrites, History!Returns, History!Busy
  <2>2. ~crossing /\ Moves(t) /\ at'[t] = "returned"
    BY <1>1, <1>2, <1>3, <2>1, OnlyOneMoves
  <2> QED
    BY <1>1, <1>2, <1>9, <2>1, <2>2, TurnWritesTold
<1>10. ASSUME NEW p \in Pollers, History!PollTakes(p) PROVE ToldInv'
  <2>1. History!Begins /\ History!Goto(p, "write") /\ UNCHANGED remote
    BY <1>10 DEF History!PollTakes
  <2>2. ~crossing /\ Moves(p) /\ at'[p] = "write"
    BY <1>1, <1>2, <2>1, CallsNamed, OnlyOneMoves
  <2> QED
    BY <1>1, <1>2, <1>10, <2>1, <2>2, PollTakesTold
<1>11. ASSUME NEW p \in Pollers, History!PollWrites(p) PROVE ToldInv'
  <2>1. /\ at[p] = "write" /\ History!Busy(p) /\ History!Goto(p, "idle")
        /\ UNCHANGED <<remote, crossing>>
    BY <1>11 DEF History!PollWrites, History!Busy
  <2>2. ~crossing /\ Moves(p) /\ at'[p] = "idle"
    BY <1>1, <1>2, <2>1, CallsNamed, OnlyOneMoves
  <2> QED
    BY <1>1, <1>2, <1>11, <2>1, <2>2, PollWritesTold
<1>12. CASE History!DeleteRows
  <2>1. History!Begins /\ History!Goto("delete", "memory")
    BY <1>12 DEF History!DeleteRows
  <2>2. Moves("delete") /\ at'["delete"] = "memory"
    BY <1>1, <1>2, <2>1, CallsNamed, OnlyOneMoves
  <2> QED
    BY <1>12, <2>2, DeleteRowsTold
<1>13. CASE History!DeleteMemory
  <2>1. /\ History!Busy("delete") /\ History!Goto("delete", "contexts")
        /\ UNCHANGED <<remote, crossing>>
    BY <1>13 DEF History!DeleteMemory, History!Busy
  <2>2. ~crossing /\ Moves("delete") /\ at'["delete"] = "contexts"
    BY <1>1, <1>2, <2>1, CallsNamed, OnlyOneMoves
  <2> QED
    BY <1>1, <1>2, <1>13, <2>1, <2>2, DeleteMemoryTold
<1>14. CASE History!DeleteContexts
  <2>1. /\ History!Busy("delete") /\ History!Goto("delete", "returned")
        /\ UNCHANGED <<remote, crossing>>
    BY <1>14 DEF History!DeleteContexts, History!Busy
  <2>2. ~crossing /\ Moves("delete") /\ at'["delete"] = "returned"
    BY <1>1, <1>2, <2>1, CallsNamed, OnlyOneMoves
  <2> QED
    BY <1>1, <1>2, <1>14, <2>1, <2>2, DeleteContextsTold
<1> QED
  BY <1>5, <1>6, <1>7, <1>8, <1>9, <1>10, <1>11, <1>12, <1>13, <1>14 DEF History!Next

LEMMA HistoryBegins == Init => HistoryInv
<1>1. SUFFICES ASSUME Init PROVE HistoryInv
  OBVIOUS
<1>2. History!Init
  BY <1>1 DEF Init
<1>3. /\ \A c \in History!Calls : at[c] = "idle"
      /\ rows = <<>> /\ story = <<>> /\ store = Nothing
      /\ contexts["auto"] = Nothing /\ last = Nothing
  BY <1>2 DEF History!Init
<1>4. HistoryTyped
  <2>1. <<>> \in Seq(History!Line) /\ <<>> \in Seq(History!Pieces)
    OBVIOUS
  <2>2. /\ memory \in [Turns \cup {Nothing} -> [delivered : Seq(History!Pieces),
                                               queue : Seq(History!Pieces)]]
        /\ memory[Nothing] = History!Blank
    BY <1>2, <2>1 DEF History!Init, History!Blank
  <2>3. turn \in [Turns -> [target : History!Targets, mode : {"core", "replan", "resume"},
                    keep : BOOLEAN, ref : Turns \cup {Nothing}, queue : Seq(History!Pieces),
                    sent : Turns \cup {Nothing}, got : Turns \cup {Nothing}]]
    BY <1>2, <2>1 DEF History!Init, History!NoTurn, History!Targets
  <2>4. /\ at \in [History!Calls -> {"idle", "ask", "look", "run", "rerun", "save", "plan",
                                     "write", "memory", "contexts", "returned"}]
        /\ contexts \in [{"auto", "seeded_history"} -> Turns \cup {Nothing}]
        /\ taken \in [Pollers -> {<<>>} \cup Turns \X History!Pieces]
    BY <1>2 DEF History!Init
  <2>5. \A p \in Pollers : at[p] # "write"
    BY <1>3, CallsNamed
  <2> QED
    BY <1>2, <2>1, <2>2, <2>3, <2>4, <2>5 DEF HistoryTyped, History!TypeOK, History!Init
<1>5. OneByOne
  BY <1>3, CallsNamed DEF OneByOne, AloneInv, ContextInv, Asking, History!Busy
<1>6. ToldInv
  <2>1. memory[store].delivered = <<>> /\ memory[store].queue = <<>>
    BY <1>3, <1>4 DEF HistoryTyped, History!Blank
  <2>2. AtRest(rows) /\ Distinct(story) /\ \A i \in DOMAIN story : FALSE
    <3>1. DOMAIN <<>> = {}
      OBVIOUS
    <3> QED
      BY <1>3, <2>1, <3>1, NothingSettled DEF AtRest
  <2> QED
    BY <1>3, <2>2, CallsNamed DEF ToldInv
<1> QED
  BY <1>4, <1>5, <1>6 DEF HistoryInv

LEMMA HistoryAlways == Spec => []HistoryInv
<1>1. Init => HistoryInv
  BY HistoryBegins
<1>2. HistoryInv /\ History!Next => HistoryInv'
  BY HistoryTypes, OneByOneStep, ToldStep DEF HistoryInv
<1>3. HistoryInv /\ UNCHANGED historyVars => HistoryInv'
  <2>1. SUFFICES ASSUME HistoryInv, UNCHANGED historyVars PROVE HistoryInv'
    OBVIOUS
  <2>2. UNCHANGED <<rows, memory, store, contexts, at, turn, taken, story, last, remote,
                    crossing>>
    BY <2>1 DEF historyVars
  <2>3. HistoryTyped'
    BY <2>1, <2>2 DEF HistoryInv, HistoryTyped, History!TypeOK
  <2>4. OneByOne'
    BY <2>1, <2>2 DEF HistoryInv, OneByOne, AloneInv, ContextInv, History!Busy,
                      History!ContextOf
  <2>5. (~crossing /\ ~remote => ToldInv)'
    BY <2>1, <2>2 DEF HistoryInv, ToldInv, Planned, Stored, Taken, Unanswered, AtRest,
                      TurnTold, PollTold, History!Immediate
  <2> QED
    BY <2>3, <2>4, <2>5 DEF HistoryInv
<1>4. HistoryInv /\ [Next]_allVars => HistoryInv'
  BY <1>2, <1>3 DEF Next, allVars
<1> QED
  BY <1>1, <1>4, PTL DEF Spec, allVars

\* Between calls that come one at a time a session continues from what the user has
\* seen, for any number of turns, polling loops and pieces of a plan: the transcript of
\* a session answered by the framework agent says, in the order told, exactly what was
\* told, whatever turns re-plan, resume or fail in between; and the context kept for a
\* remote agent is the last it named.
THEOREM SessionsContinue == Spec => []SessionContinues
<1>1. ASSUME HistoryInv, ~crossing, History!Quiet PROVE contexts["auto"] = last
  <2>1. \A t \in Turns : at[t] # "save"
    BY <1>1, CallsNamed DEF History!Quiet, History!Busy
  <2> QED
    BY <1>1, <2>1 DEF HistoryInv, OneByOne, ContextInv
<1>2. ASSUME HistoryInv, ~crossing, ~remote, History!Quiet
      PROVE  /\ Cardinality(History!Firsts) = Len(story)
             /\ \A i \in History!Firsts :
                  rows[i] = story[Cardinality({k \in History!Firsts : k <= i})]
  <2>1. ToldInv /\ rows \in Seq(History!Line) /\ story \in Seq(History!Line)
    BY <1>2 DEF HistoryInv, HistoryTyped, History!TypeOK
  <2>2. \A c \in History!Calls : at[c] \notin {"plan", "write", "memory"}
    BY <1>2 DEF History!Quiet, History!Busy
  <2>3. AtRest(rows)
    BY <2>1, <2>2, CallsNamed DEF ToldInv
  <2>4. PICK f : Follows(rows, story, f)
    BY <2>3 DEF AtRest, Settled
  <2>5. Distinct(story) /\ \A i \in DOMAIN story : Says(story[i])
    BY <2>1 DEF ToldInv
  <2> QED
    BY <2>1, <2>4, <2>5, FirstPlaces
<1>3. ASSUME HistoryInv PROVE SessionContinues
  <2>1. ASSUME ~crossing, History!Quiet
        PROVE  /\ ~remote =>
                    /\ Cardinality(History!Firsts) = Len(story)
                    /\ \A i \in History!Firsts :
                         rows[i] = story[Cardinality({k \in History!Firsts : k <= i})]
               /\ contexts["auto"] = last
    <3>1. contexts["auto"] = last
      BY <1>1, <1>3, <2>1
    <3>2. CASE ~remote
      BY <1>2, <1>3, <2>1, <3>1, <3>2, Zenon
    <3>3. CASE remote
      BY <3>1, <3>3
    <3> QED
      BY <3>2, <3>3, Zenon
  <2>2. \A S : History!Cardinality(S) = Cardinality(S)
    BY DEF History!Cardinality, Cardinality
  <2>3. History!SessionContinues
    BY <2>1, <2>2, Zenon DEF History!SessionContinues
  <2> QED
    BY <2>3 DEF SessionContinues
<1> QED
  BY <1>3, HistoryAlways, PTL

-----------------------------------------------------------------------------
(* Provider registry: a model is routed to a server that has it *)

LEMMA RegistryAssumed ==
  /\ Types \in Seq(STRING) /\ "llm" \in Registry!Range(Types)
  /\ Hosts \in [Urls -> SUBSET Models]
  /\ Kind \in [Models -> Registry!Range(Types) \cup {"unknown"}]
  /\ Fallback \in [Registry!Range(Types) -> Urls \cup {Nothing}]
  /\ MaxSlot \in Nat \ {0} /\ MaxChanges \in Nat
  /\ Nothing \notin Urls /\ Nothing \notin Registry!Slots
  /\ Nothing \notin Seq(Registry!Request)
BY AgentsAssumption DEF Registry!RegistryAssumption

LEMMA RegistryCounts == \A S : Registry!Cardinality(S) = Cardinality(S)
BY DEF Registry!Cardinality, Cardinality

LEMMA TypesNumbered ==
  ASSUME NEW t \in Registry!Range(Types)
  PROVE  Registry!Nr(t) \in DOMAIN Types /\ Types[Registry!Nr(t)] = t
<1>1. \E i \in DOMAIN Types : Types[i] = t
  BY DEF Registry!Range
<1> QED
  BY <1>1 DEF Registry!Nr

LEMMA SlotsFinite == IsFiniteSet(Registry!Slots)
<1>1. Types \in [1..Len(Types) -> STRING] /\ Len(Types) \in Nat
  BY RegistryAssumed
<1>2. Types \in Surjection(1..Len(Types), Range(Types))
  BY <1>1, Fun_RangeProperties
<1>3. IsFiniteSet(1..Len(Types)) /\ IsFiniteSet(1..MaxSlot + 1)
  BY <1>1, RegistryAssumed, FS_Interval
<1>4. IsFiniteSet(Range(Types))
  BY <1>2, <1>3, FS_Surjection
<1>5. Registry!Range(Types) = Range(Types)
  BY DEF Registry!Range, Range
<1> QED
  BY <1>3, <1>4, <1>5, FS_Product DEF Registry!Slots

\* The slots in the order they are loaded.
Precedes(z, s) == \/ Registry!Nr(z[1]) < Registry!Nr(s[1])
                  \/ z[1] = s[1] /\ z[2] < s[2]

LEMMA SlotsOrdered ==
  ASSUME NEW s \in Registry!Slots, NEW z \in Registry!Slots
  PROVE  /\ ~Precedes(s, s)
         /\ s # z => Precedes(s, z) \/ Precedes(z, s)
         /\ \A x \in Registry!Slots : Precedes(x, s) /\ Precedes(s, z) => Precedes(x, z)
<1>1. \A x \in Registry!Slots : /\ x = <<x[1], x[2]>> /\ x[2] \in Int
                                /\ Registry!Nr(x[1]) \in Int
                                /\ Types[Registry!Nr(x[1])] = x[1]
  <2> SUFFICES ASSUME NEW x \in Registry!Slots
               PROVE  /\ x = <<x[1], x[2]>> /\ x[2] \in Int
                      /\ Registry!Nr(x[1]) \in Int
                      /\ Types[Registry!Nr(x[1])] = x[1]
    OBVIOUS
  <2>1. x = <<x[1], x[2]>> /\ x[1] \in Registry!Range(Types) /\ x[2] \in Int
    BY RegistryAssumed DEF Registry!Slots
  <2>2. DOMAIN Types \subseteq Int
    BY RegistryAssumed
  <2> QED
    BY <2>1, <2>2, TypesNumbered
<1>2. ~Precedes(s, s)
  BY <1>1 DEF Precedes
<1>3. s # z => Precedes(s, z) \/ Precedes(z, s)
  <2>1. CASE s[1] = z[1]
    <3>1. s # z => s[2] # z[2]
      BY <1>1, <2>1
    <3> QED
      BY <1>1, <2>1, <3>1 DEF Precedes
  <2>2. CASE s[1] # z[1]
    <3>1. Registry!Nr(s[1]) # Registry!Nr(z[1])
      BY <1>1, <2>2
    <3> QED
      BY <1>1, <3>1 DEF Precedes
  <2> QED
    BY <2>1, <2>2
<1>4. ASSUME NEW x \in Registry!Slots, Precedes(x, s), Precedes(s, z) PROVE Precedes(x, z)
  BY <1>1, <1>4 DEF Precedes
<1> QED
  BY <1>2, <1>3, <1>4

\* A provider has fewer before it than one that is loaded after it.
LEMMA EarlierGrows ==
  ASSUME NEW e, NEW s \in Registry!Loaded(e), NEW z \in Registry!Loaded(e)
  PROVE  /\ Cardinality(Registry!Earlier(e, s)) \in Nat
         /\ Precedes(z, s) =>
              Cardinality(Registry!Earlier(e, z)) < Cardinality(Registry!Earlier(e, s))
<1> DEFINE Lesser(x) == Registry!Earlier(e, x)
<1>1. Registry!Loaded(e) \subseteq Registry!Slots
  BY DEF Registry!Loaded
<1>2. \A x : Lesser(x) = {y \in Registry!Loaded(e) : Precedes(y, x)}
  BY DEF Registry!Earlier, Precedes
<1>3. IsFiniteSet(Lesser(s)) /\ IsFiniteSet(Lesser(z))
  <2>1. Lesser(s) \in SUBSET Registry!Slots /\ Lesser(z) \in SUBSET Registry!Slots
    BY <1>1, <1>2
  <2> HIDE DEF Lesser
  <2> QED
    BY <2>1, SlotsFinite, FS_Subset
<1> HIDE DEF Lesser
<1>4. Cardinality(Lesser(s)) \in Nat /\ Cardinality(Lesser(z)) \in Nat
  BY <1>3, FS_CardinalityType
<1>5. ASSUME Precedes(z, s) PROVE Cardinality(Lesser(z)) < Cardinality(Lesser(s))
  <2>1. z \in Lesser(s)
    BY <1>2, <1>5
  <2>2. Lesser(z) \in SUBSET (Lesser(s) \ {z})
    BY <1>1, <1>2, <1>5, SlotsOrdered
  <2>3. /\ IsFiniteSet(Lesser(s) \ {z})
        /\ Cardinality(Lesser(s) \ {z}) = Cardinality(Lesser(s)) - 1
    BY <1>3, <2>1, FS_RemoveElement
  <2>4. Cardinality(Lesser(z)) <= Cardinality(Lesser(s) \ {z})
    BY <2>2, <2>3, FS_Subset
  <2> QED
    BY <1>4, <2>3, <2>4
<1> QED
  BY <1>4, <1>5 DEF Lesser

\* Every number up to that of the loaded providers is one provider's, and each is listed.
LEMMA ProvidersListed ==
  ASSUME NEW e
  PROVE  /\ Registry!ProviderSeq(e) \in Seq(Registry!Loaded(e))
         /\ \A s \in Registry!Loaded(e) :
              \E i \in DOMAIN Registry!ProviderSeq(e) : Registry!ProviderSeq(e)[i] = s
<1> DEFINE Set == Registry!Loaded(e)
           rank == [s \in Set |-> Cardinality(Registry!Earlier(e, s)) + 1]
           n == Cardinality(Set)
<1>1. Set \in SUBSET Registry!Slots
  BY DEF Registry!Loaded
<1>2. IsFiniteSet(Set) /\ n \in Nat
  BY <1>1, SlotsFinite, FS_Subset, FS_CardinalityType
<1>3. ASSUME NEW s \in Set
      PROVE  Cardinality(Registry!Earlier(e, s)) \in 0..n - 1
  <2>1. ~Precedes(s, s)
    BY <1>1, SlotsOrdered
  <2>2. Registry!Earlier(e, s) \in SUBSET (Set \ {s})
    BY <2>1 DEF Registry!Earlier, Precedes
  <2>3. IsFiniteSet(Set \ {s}) /\ Cardinality(Set \ {s}) = n - 1
    BY <1>2, FS_RemoveElement
  <2>4. Cardinality(Registry!Earlier(e, s)) <= n - 1
    BY <2>2, <2>3, FS_Subset
  <2>5. Cardinality(Registry!Earlier(e, s)) \in Nat
    BY EarlierGrows
  <2> HIDE DEF Set, n
  <2> QED
    BY <1>2, <2>4, <2>5
<1>4. rank \in [Set -> 1..n]
  <2> HIDE DEF n
  <2> QED
    BY <1>2, <1>3
<1>5. ASSUME NEW s \in Set, NEW z \in Set, rank[s] = rank[z] PROVE s = z
  <2> DEFINE c(x) == Cardinality(Registry!Earlier(e, x))
  <2>1. c(s) \in Nat /\ c(z) \in Nat
    BY EarlierGrows
  <2>2. c(s) + 1 = c(z) + 1
    BY <1>5
  <2>3. ~(c(s) < c(z)) /\ ~(c(z) < c(s))
    <3> HIDE DEF c
    <3> QED
      BY <2>1, <2>2
  <2>4. ~Precedes(s, z) /\ ~Precedes(z, s)
    BY <2>3, EarlierGrows
  <2> QED
    BY <1>1, <2>4, SlotsOrdered
<1>6. rank \in Injection(Set, 1..n)
  <2> HIDE DEF rank, n
  <2> QED
    BY <1>4, <1>5, Fun_IsInj
<1>7. rank \in Surjection(Set, 1..n)
  <2>1. IsFiniteSet(1..n) /\ Cardinality(1..n) = n
    <3> HIDE DEF n
    <3> QED
      BY <1>2, FS_Interval
  <2> HIDE DEF rank
  <2> QED
    BY <1>6, <2>1, FS_Injection
<1>8. ASSUME NEW i \in 1..n
      PROVE  \E s \in Set : Cardinality(Registry!Earlier(e, s)) = i - 1
  <2>1. PICK s \in Set : rank[s] = i
    <3> HIDE DEF Set, rank, n
    <3>1. \A k \in 1..n : \E s \in Set : rank[s] = k
      BY <1>7, Fun_SurjectionProperties
    <3> QED
      BY <3>1
  <2>2. Cardinality(Registry!Earlier(e, s)) + 1 = i
    BY <2>1
  <2>3. Cardinality(Registry!Earlier(e, s)) \in Nat /\ i \in Int
    BY EarlierGrows
  <2> QED
    BY <2>2, <2>3
<1>9. ASSUME NEW i \in 1..n
      PROVE  (CHOOSE s \in Set : Registry!Cardinality(Registry!Earlier(e, s)) = i - 1) \in Set
  <2>1. \E s \in Set : Registry!Cardinality(Registry!Earlier(e, s)) = i - 1
    BY <1>8, RegistryCounts
  <2> HIDE DEF Set
  <2> QED
    BY <2>1
<1>10. Registry!Cardinality(Set) = n
  BY RegistryCounts
<1> DEFINE It(i) == CHOOSE s \in Set : Registry!Cardinality(Registry!Earlier(e, s)) = i - 1
<1>11. Registry!ProviderSeq(e) = [i \in 1..n |-> It(i)]
  BY <1>10 DEF Registry!ProviderSeq
<1>12. \A i \in 1..n : It(i) \in Set
  BY <1>9
<1>14. ASSUME NEW s \in Set PROVE rank[s] \in 1..n /\ It(rank[s]) = s
  <2> DEFINE i == rank[s]
  <2>1. i \in 1..n
    <3> HIDE DEF Set, n, rank
    <3> QED
      BY <1>4
  <2>2. \E z \in Set : Registry!Cardinality(Registry!Earlier(e, z)) = i - 1
    <3> HIDE DEF i
    <3> QED
      BY <1>8, <2>1, RegistryCounts
  <2>3. It(i) \in Set /\ Cardinality(Registry!Earlier(e, It(i))) = i - 1
    <3> HIDE DEF i, Set
    <3> QED
      BY <2>2, RegistryCounts
  <2>4. rank[It(i)] = (i - 1) + 1
    <3> HIDE DEF i, It
    <3> QED
      BY <2>3
  <2>5. rank[It(i)] = i
    <3> HIDE DEF rank, i, It, n
    <3> QED
      BY <2>1, <2>4, <1>2
  <2> QED
    BY <1>5, <2>1, <2>3, <2>5
<1> HIDE DEF It, n, Set, rank
<1>13. [i \in 1..n |-> It(i)] \in Seq(Set)
  BY <1>2, <1>12
<1>15. \A s \in Set : \E i \in 1..n : [k \in 1..n |-> It(k)][i] = s
  BY <1>14
<1> QED
  BY <1>11, <1>13, <1>15 DEF Set

\* The requests of a refresh that starts with configuration e.
Asked(e) == [i \in DOMAIN Registry!ProviderSeq(e) |->
    [slot |-> Registry!ProviderSeq(e)[i],
     url |-> Registry!Url(e, Registry!ProviderSeq(e)[i])]]

\* What the refreshes that began since the last change asked is what is configured, and
\* the registry is up to date when it is of the answers of one of them.
AskedInv == \A j \in young : fetching[j] = Asked(env)
OwnerInv == uptodate => owner = Registry!Owners(Asked(env), missed)

RegistryInv == Registry!TypeOK /\ AskedInv /\ OwnerInv

LEMMA SlotHasUrl ==
  ASSUME NEW e \in [Registry!Slots -> Urls \cup {Nothing}], NEW s \in Registry!Loaded(e)
  PROVE  s \in Registry!Slots /\ Registry!Url(e, s) \in Urls
<1>1. s \in Registry!Slots /\ Registry!Url(e, s) # Nothing
  BY DEF Registry!Loaded
<1>2. s[1] \in Registry!Range(Types) /\ e[s] \in Urls \cup {Nothing}
  BY <1>1 DEF Registry!Slots
<1> QED
  BY <1>1, <1>2, RegistryAssumed DEF Registry!Url

LEMMA AskedTyped ==
  ASSUME NEW e \in [Registry!Slots -> Urls \cup {Nothing}]
  PROVE  /\ Asked(e) \in Seq(Registry!Request) /\ Asked(e) # Nothing
         /\ Len(Asked(e)) = Len(Registry!ProviderSeq(e))
         /\ Len(Asked(e)) \in Nat
         /\ \A i \in DOMAIN Asked(e) : /\ Asked(e)[i].slot \in Registry!Loaded(e)
                                       /\ Asked(e)[i].url = Registry!Url(e, Asked(e)[i].slot)
         /\ \A s \in Registry!Loaded(e) : \E i \in DOMAIN Asked(e) : Asked(e)[i].slot = s
<1> DEFINE list == Registry!ProviderSeq(e)
           entry(s) == [slot |-> s, url |-> Registry!Url(e, s)]
<1>1. /\ list \in Seq(Registry!Loaded(e))
      /\ \A s \in Registry!Loaded(e) : \E i \in DOMAIN list : list[i] = s
  BY ProvidersListed
<1>2. \A s \in Registry!Loaded(e) : entry(s) \in Registry!Request
  BY SlotHasUrl DEF Registry!Request
<1>3. Asked(e) = [i \in DOMAIN list |-> entry(list[i])]
  BY DEF Asked
<1>4. \A s : entry(s).slot = s /\ entry(s).url = Registry!Url(e, s)
  OBVIOUS
<1> HIDE DEF list, entry
<1>5. Len(list) \in Nat /\ DOMAIN list = 1..Len(list)
  BY <1>1
<1>6. \A i \in 1..Len(list) : list[i] \in Registry!Loaded(e)
  BY <1>1, <1>5
<1>7. \A i \in 1..Len(list) : entry(list[i]) \in Registry!Request
  BY <1>2, <1>6
<1>8. Asked(e) \in Seq(Registry!Request) /\ Len(Asked(e)) = Len(list)
  BY <1>3, <1>5, <1>7
<1>9. DOMAIN Asked(e) = DOMAIN list /\ \A i \in DOMAIN list : Asked(e)[i] = entry(list[i])
  BY <1>3
<1>10. \A i \in DOMAIN Asked(e) : /\ Asked(e)[i].slot \in Registry!Loaded(e)
                                  /\ Asked(e)[i].url = Registry!Url(e, Asked(e)[i].slot)
  BY <1>4, <1>5, <1>6, <1>9
<1>11. \A s \in Registry!Loaded(e) : \E i \in DOMAIN Asked(e) : Asked(e)[i].slot = s
  BY <1>1, <1>4, <1>9
<1> QED
  BY <1>5, <1>8, <1>10, <1>11, RegistryAssumed DEF list

\* A refresh that starts asks what is configured from then on.
LEMMA RefreshBegins ==
  ASSUME RegistryInv, NEW j \in Refreshes, NEW e \in [Registry!Slots -> Urls \cup {Nothing}],
         Registry!Ask(j, e), env' = e,
         \/ e = env /\ young' = young \cup {j} /\ UNCHANGED uptodate
         \/ young' = {j} /\ uptodate' = FALSE,
         changes' \in 0..MaxChanges, UNCHANGED <<shown, owner, missed>>
  PROVE  RegistryInv'
<1>1. fetching' = [fetching EXCEPT ![j] = Asked(e)]
  BY DEF Registry!Ask, Asked
<1>2. Asked(e) \in Seq(Registry!Request) /\ Asked(e) # Nothing
  BY AskedTyped
<1>3. fetching \in [Refreshes -> Seq(Registry!Request) \cup {Nothing}]
  BY DEF RegistryInv, Registry!TypeOK
<1>4. fetching' \in [Refreshes -> Seq(Registry!Request) \cup {Nothing}]
  BY <1>1, <1>2, <1>3
<1>5. young' \subseteq Refreshes /\ uptodate' \in BOOLEAN
  BY DEF RegistryInv, Registry!TypeOK
<1>6. Registry!TypeOK'
  BY <1>4, <1>5 DEF RegistryInv, Registry!TypeOK
<1>7. Asked(env)' = Asked(e)
  BY DEF Asked
<1>8. AskedInv'
  <2>1. fetching'[j] = Asked(e) /\ \A k \in Refreshes \ {j} : fetching'[k] = fetching[k]
    BY <1>1, <1>3
  <2>2. ASSUME NEW k \in young', k # j PROVE fetching'[k] = Asked(e)
    <3>1. e = env /\ k \in young /\ k \in Refreshes
      BY <1>5, <2>2
    <3> QED
      BY <2>1, <2>2, <3>1 DEF RegistryInv, AskedInv
  <2> QED
    BY <1>7, <2>1, <2>2 DEF AskedInv
<1>9. OwnerInv'
  BY <1>7 DEF RegistryInv, OwnerInv
<1> QED
  BY <1>6, <1>8, <1>9 DEF RegistryInv

\* Only providers that were asked become owners, of models their server offers, and
\* every model a server has answered with has an owner.
LEMMA OwnersOffer ==
  ASSUME NEW list \in Seq(Registry!Request), NEW silent
  PROVE  /\ Registry!Owners(list, silent) \in [Models -> Registry!Slots \cup {Nothing}]
         /\ \A m \in Models :
              (\E i \in DOMAIN list : list[i].slot \notin silent /\ m \in Hosts[list[i].url]) =>
                \E i \in DOMAIN list : /\ Registry!Owners(list, silent)[m] = list[i].slot
                                       /\ m \in Hosts[list[i].url]
<1> DEFINE having(m) == {i \in DOMAIN list : m \in Registry!Fetched(list[i], silent)}
           first(m) == CHOOSE i \in having(m) : \A k \in having(m) : i <= k
<1>1. Registry!Owners(list, silent) =
        [m \in Models |-> IF having(m) = {} THEN Nothing ELSE list[first(m)].slot]
  BY DEF Registry!Owners
<1>2. DOMAIN list \subseteq Nat
  OBVIOUS
<1>3. ASSUME NEW m \in Models, having(m) # {}
      PROVE  first(m) \in DOMAIN list /\ m \in Registry!Fetched(list[first(m)], silent)
  <2>1. having(m) \subseteq Nat
    BY <1>2
  <2>2. \E i \in having(m) : \A k \in having(m) : i <= k
    <3> HIDE DEF having
    <3> QED
      BY <1>3, <2>1, LeastNumber
  <2>3. first(m) \in having(m)
    <3> HIDE DEF having
    <3> QED
      BY <2>2
  <2> QED
    BY <2>3
<1>4. \A i \in DOMAIN list : list[i].slot \in Registry!Slots
  <2>1. \A i \in DOMAIN list : list[i] \in Registry!Request
    OBVIOUS
  <2> QED
    BY <2>1 DEF Registry!Request
<1>7. ASSUME NEW m \in Models,
             \E i \in DOMAIN list : list[i].slot \notin silent /\ m \in Hosts[list[i].url]
      PROVE  having(m) # {}
  BY <1>7 DEF Registry!Fetched
<1> HIDE DEF having, first
<1>5. ASSUME NEW m \in Models, having(m) # {} PROVE m \in Hosts[list[first(m)].url]
  BY <1>3, <1>5 DEF Registry!Fetched
<1>6. Registry!Owners(list, silent) \in [Models -> Registry!Slots \cup {Nothing}]
  BY <1>1, <1>3, <1>4
<1> QED
  BY <1>1, <1>3, <1>5, <1>6, <1>7

LEMMA RefreshEnds ==
  ASSUME RegistryInv, NEW j \in Refreshes, NEW silent \in SUBSET Registry!AskedSlots(j),
         Registry!FinishRefresh(j, silent)
  PROVE  RegistryInv'
<1> DEFINE list == Registry!Paired(fetching[j], env)
<1>1. /\ fetching[j] # Nothing /\ fetching' = [fetching EXCEPT ![j] = Nothing]
      /\ owner' = Registry!Owners(list, silent)
      /\ young' = young \ {j} /\ uptodate' = (j \in young) /\ missed' = silent
      /\ UNCHANGED <<env, shown, changes>>
  BY DEF Registry!FinishRefresh
<1>2. /\ fetching \in [Refreshes -> Seq(Registry!Request) \cup {Nothing}]
      /\ env \in [Registry!Slots -> Urls \cup {Nothing}]
  BY DEF RegistryInv, Registry!TypeOK
<1>3. fetching[j] \in Seq(Registry!Request)
  BY <1>1, <1>2
<1>4. /\ Len(Registry!ProviderSeq(env)) \in Nat /\ Asked(env) \in Seq(Registry!Request)
      /\ Len(Asked(env)) = Len(Registry!ProviderSeq(env))
  BY <1>2, AskedTyped
<1>5. list \in Seq(Registry!Request) /\ (fetching[j] = Asked(env) => list = Asked(env))
  <2> DEFINE asked0 == fetching[j]
             n == IF Len(asked0) < Len(Registry!ProviderSeq(env))
                  THEN Len(asked0) ELSE Len(Registry!ProviderSeq(env))
  <2>1. list = SubSeq(asked0, 1, n)
    BY DEF Registry!Paired
  <2>2. n \in 0..Len(asked0) /\ Len(asked0) \in Nat
    BY <1>3, <1>4
  <2>3. asked0 = Asked(env) => n = Len(asked0)
    BY <1>4, <2>2
  <2>4. asked0 \in Seq(Registry!Request)
    BY <1>3
  <2> HIDE DEF n, asked0, list
  <2>5. list \in Seq(Registry!Request)
    BY <2>1, <2>2, <2>4
  <2>6. SubSeq(asked0, 1, Len(asked0)) = asked0
    BY <2>2, <2>4
  <2> QED
    BY <2>1, <2>3, <2>5, <2>6 DEF asked0
<1> HIDE DEF list
<1>6. Registry!AskedSlots(j) \subseteq Registry!Slots
  <2>1. \A i \in DOMAIN fetching[j] : fetching[j][i] \in Registry!Request
    BY <1>3
  <2>2. \A i \in DOMAIN fetching[j] : fetching[j][i].slot \in Registry!Slots
    BY <2>1 DEF Registry!Request
  <2> QED
    BY <1>1, <2>2 DEF Registry!AskedSlots
<1>7. owner' \in [Models -> Registry!Slots \cup {Nothing}]
  BY <1>1, <1>5, OwnersOffer
<1>8. Registry!TypeOK'
  BY <1>1, <1>2, <1>6, <1>7 DEF RegistryInv, Registry!TypeOK
<1>9. Asked(env)' = Asked(env)
  BY <1>1 DEF Asked
<1>10. AskedInv'
  <2>1. \A k \in young' : k \in young /\ k \in Refreshes /\ k # j
    BY <1>1 DEF RegistryInv, Registry!TypeOK
  <2>2. \A k \in young' : fetching'[k] = fetching[k]
    BY <1>1, <1>2, <2>1
  <2> QED
    BY <1>9, <2>1, <2>2 DEF RegistryInv, AskedInv
<1>11. ASSUME j \in young PROVE owner' = Registry!Owners(Asked(env), silent)
  <2>1. fetching[j] = Asked(env)
    BY <1>11 DEF RegistryInv, AskedInv
  <2> QED
    BY <1>1, <1>5, <2>1
<1>12. OwnerInv'
  BY <1>1, <1>9, <1>11 DEF OwnerInv
<1> QED
  BY <1>8, <1>10, <1>12 DEF RegistryInv

LEMMA ConfigurationChanges ==
  ASSUME RegistryInv, NEW j \in Refreshes, NEW e \in [Registry!Slots -> Urls \cup {Nothing}],
         Registry!Reconfigure(e, j), UNCHANGED <<shown, owner, missed>>
  PROVE  RegistryInv'
<1>1. changes \in 0..MaxChanges /\ MaxChanges \in Nat
  BY RegistryAssumed DEF RegistryInv, Registry!TypeOK
<1>2. changes' \in 0..MaxChanges
  BY <1>1 DEF Registry!Reconfigure
<1> QED
  BY <1>2, RefreshBegins DEF Registry!Reconfigure

LEMMA RegistryStep ==
  ASSUME RegistryInv, Registry!Next
  PROVE  RegistryInv'
<1>1. /\ env \in [Registry!Slots -> Urls \cup {Nothing}]
      /\ changes \in 0..MaxChanges
      /\ shown \in [Urls -> SUBSET Registry!Range(Types)]
  BY DEF RegistryInv, Registry!TypeOK
<1>2. ASSUME NEW s, NEW u \in Urls \cup {Nothing}
      PROVE  [env EXCEPT ![s] = u] \in [Registry!Slots -> Urls \cup {Nothing}]
  BY <1>1
<1>3. ASSUME NEW j \in Refreshes, Registry!StartRefresh(j) PROVE RegistryInv'
  BY <1>1, <1>3, RefreshBegins DEF Registry!StartRefresh
<1>4. ASSUME NEW j \in Refreshes, NEW silent \in SUBSET Registry!AskedSlots(j),
             Registry!FinishRefresh(j, silent)
      PROVE  RegistryInv'
  BY <1>4, RefreshEnds
<1>5. ASSUME NEW j \in Refreshes, NEW t \in Registry!Range(Types), NEW u \in Urls,
             Registry!AddProvider(t, u, j)
      PROVE  RegistryInv'
  <2> DEFINE s == <<t, Registry!FirstFree(env, t)>>
             e == [env EXCEPT ![s] = u]
  <2>1. Registry!Reconfigure(e, j) /\ UNCHANGED <<shown, owner, missed>>
    BY <1>5 DEF Registry!AddProvider
  <2>2. e \in [Registry!Slots -> Urls \cup {Nothing}]
    BY <1>2
  <2> HIDE DEF e
  <2> QED
    BY <2>1, <2>2, ConfigurationChanges
<1>6. ASSUME NEW j \in Refreshes, NEW s \in Registry!Slots, NEW u \in Urls,
             Registry!UpdateProvider(s, u, j)
      PROVE  RegistryInv'
  BY <1>2, <1>6, ConfigurationChanges DEF Registry!UpdateProvider
<1>7. ASSUME NEW j \in Refreshes, NEW s \in Registry!Slots, Registry!DeleteProvider(s, j)
      PROVE  RegistryInv'
  BY <1>2, <1>7, ConfigurationChanges DEF Registry!DeleteProvider
<1>8. ASSUME NEW j \in Refreshes, NEW us \in Registry!Lists, Registry!Accept(us, j)
      PROVE  RegistryInv'
  <2> DEFINE takers(s) == {i \in DOMAIN us : s[1] \in shown[us[i]]
                                            /\ Registry!Target(s[1], us[i]) = s[2]}
             last0(s) == CHOOSE i \in takers(s) : \A k \in takers(s) : k <= i
             e == [s \in Registry!Slots |-> IF takers(s) = {} THEN env[s] ELSE us[last0(s)]]
  <2>1. Registry!Reconfigure(e, j) /\ UNCHANGED <<shown, owner, missed>>
    BY <1>8 DEF Registry!Accept
  <2>2. PICK n \in Nat : us \in [1..n -> Urls]
    BY RegistryCounts DEF Registry!Lists
  <2>3. ASSUME NEW s \in Registry!Slots, takers(s) # {} PROVE us[last0(s)] \in Urls
    <3>1. takers(s) \subseteq 1..n
      BY <2>2
    <3>2. \E i \in takers(s) : \A k \in takers(s) : k <= i
      <4> HIDE DEF takers
      <4> QED
        BY <2>3, <3>1, GreatestNumber
    <3>3. last0(s) \in takers(s)
      <4> HIDE DEF takers
      <4> QED
        BY <3>2
    <3> HIDE DEF takers, last0
    <3> QED
      BY <2>2, <3>1, <3>3
  <2>4. \A s \in Registry!Slots :
          (IF takers(s) = {} THEN env[s] ELSE us[last0(s)]) \in Urls \cup {Nothing}
    <3> HIDE DEF takers, last0
    <3> QED
      BY <1>1, <2>3
  <2> HIDE DEF takers, last0
  <2>5. e \in [Registry!Slots -> Urls \cup {Nothing}]
    BY <2>4
  <2> HIDE DEF e
  <2> QED
    BY <2>1, <2>5, ConfigurationChanges
<1>9. ASSUME NEW up \in SUBSET Urls, Registry!Discover(up) PROVE RegistryInv'
  <2>1. \A u \in Urls : Registry!Uncovered(u) \subseteq Registry!Range(Types)
    <3> SUFFICES ASSUME NEW u \in Urls, NEW m \in Hosts[u]
                 PROVE  Registry!TypeOfModel(m, "llm") \in Registry!Range(Types)
      BY DEF Registry!Uncovered, Registry!Detected
    <3>1. m \in Models
      BY RegistryAssumed
    <3> QED
      BY <3>1, RegistryAssumed DEF Registry!TypeOfModel
  <2>2. shown' \in [Urls -> SUBSET Registry!Range(Types)]
    BY <1>9, <2>1 DEF Registry!Discover
  <2>3. UNCHANGED <<env, fetching, owner, changes, young, uptodate, missed>>
    BY <1>9 DEF Registry!Discover
  <2>4. Registry!TypeOK'
    BY <2>2, <2>3 DEF RegistryInv, Registry!TypeOK
  <2> QED
    BY <2>3, <2>4 DEF RegistryInv, AskedInv, OwnerInv, Asked
<1> QED
  BY <1>3, <1>4, <1>5, <1>6, <1>7, <1>8, <1>9 DEF Registry!Next

LEMMA RegistryAlways == Spec => []RegistryInv
<1>1. Init => RegistryInv
  <2>1. SUFFICES ASSUME Init PROVE RegistryInv
    OBVIOUS
  <2>2. Registry!Init
    BY <2>1 DEF Init
  <2>3. young = {} /\ uptodate = FALSE /\ missed = {}
    BY <2>2 DEF Registry!Init
  <2>4. env \in [Registry!Slots -> Urls \cup {Nothing}]
    BY <2>2 DEF Registry!Init
  <2>5. fetching \in [Refreshes -> Seq(Registry!Request) \cup {Nothing}]
    BY <2>2 DEF Registry!Init
  <2>6. /\ shown \in [Urls -> SUBSET Registry!Range(Types)]
        /\ owner \in [Models -> Registry!Slots \cup {Nothing}]
    BY <2>2 DEF Registry!Init
  <2>7. changes \in 0..MaxChanges
    <3>1. changes = 0 /\ MaxChanges \in Nat
      BY <2>2, RegistryAssumed DEF Registry!Init
    <3> QED
      BY <3>1
  <2> QED
    BY <2>3, <2>4, <2>5, <2>6, <2>7 DEF RegistryInv, Registry!TypeOK, AskedInv, OwnerInv
<1>2. RegistryInv /\ UNCHANGED registryVars => RegistryInv'
  BY DEF registryVars, RegistryInv, Registry!TypeOK, AskedInv, OwnerInv, Asked
<1>3. RegistryInv /\ [Next]_allVars => RegistryInv'
  BY <1>2, RegistryStep DEF Next, allVars
<1> QED
  BY <1>1, <1>3, PTL DEF Spec, allVars

\* However refreshes, changes of the configuration and scans for servers follow or
\* overlap each other: while the registry is of a refresh that began since the last
\* change, every request for a model that a provider offers, and that provider answered,
\* goes to a provider whose present server offers it, for any slots, servers and models.
THEOREM ModelsFindHosts == Spec => []RoutesToHost
<1>1. ASSUME RegistryInv PROVE Registry!RoutesToHost
  <2>1. SUFFICES ASSUME uptodate, NEW m \in Models, NEW t \in Registry!Range(Types),
                        NEW s \in Registry!Loaded(env) \ missed,
                        m \in Hosts[Registry!Url(env, s)]
                 PROVE  /\ Registry!Route(m, t) # Nothing
                        /\ m \in Hosts[Registry!Url(env, Registry!Route(m, t))]
    BY DEF Registry!RoutesToHost
  <2>2. env \in [Registry!Slots -> Urls \cup {Nothing}]
    BY <1>1 DEF RegistryInv, Registry!TypeOK
  <2>3. Asked(env) \in Seq(Registry!Request)
    BY <2>2, AskedTyped
  <2>4. \E i \in DOMAIN Asked(env) :
          Asked(env)[i].slot \notin missed /\ m \in Hosts[Asked(env)[i].url]
    BY <2>1, <2>2, AskedTyped
  <2>5. owner = Registry!Owners(Asked(env), missed)
    BY <1>1, <2>1 DEF RegistryInv, OwnerInv
  <2>6. \E i \in DOMAIN Asked(env) :
          owner[m] = Asked(env)[i].slot /\ m \in Hosts[Asked(env)[i].url]
    BY <2>3, <2>4, <2>5, OwnersOffer
  <2>7. /\ owner[m] \in Registry!Loaded(env)
        /\ m \in Hosts[Registry!Url(env, owner[m])]
    BY <2>2, <2>6, AskedTyped
  <2>8. owner[m] # Nothing
    <3>1. owner[m] \in Registry!Slots
      BY <2>7 DEF Registry!Loaded
    <3> QED
      BY <3>1, RegistryAssumed
  <2>9. Registry!Route(m, t) = owner[m]
    BY <2>7, <2>8 DEF Registry!Route, Registry!HostOf
  <2> QED
    BY <2>7, <2>8, <2>9
<1>2. RegistryInv => RoutesToHost
  BY <1>1 DEF RoutesToHost
<1> QED
  BY <1>2, RegistryAlways, PTL

-----------------------------------------------------------------------------
(* Group chat: what is shown, filed and called done *)

\* The loop that makes turns of the first n messages: its turns after each of them.
Loops(conv, n, f) ==
    /\ f = [i \in 0..n |-> f[i]] /\ f[0] = <<>>
    /\ \A i \in 1..n : f[i] = Chat!WithText(f[i - 1], conv[i], i)

LEMMA LoopRuns ==
  ASSUME NEW conv, NEW n \in Nat
  PROVE  \E f : Loops(conv, n, f)
<1> DEFINE Stuck == {k \in Nat : ~\E f : Loops(conv, k, f)}
<1>1. ASSUME Stuck # {} PROVE FALSE
  <2>1. PICK k \in Stuck : \A j \in Stuck : k <= j
    BY <1>1, LeastNumber
  <2>2. k \in Nat /\ ~\E f : Loops(conv, k, f)
    OBVIOUS
  <2>3. CASE k = 0
    <3> DEFINE g == [i \in 0..k |-> <<>>]
    <3>1. Loops(conv, k, g)
      BY <2>3 DEF Loops
    <3> QED
      BY <2>2, <3>1
  <2>4. CASE k # 0
    <3>1. k - 1 \in Nat /\ ~(k <= k - 1)
      BY <2>2, <2>4
    <3>2. k - 1 \notin Stuck
      <4> HIDE DEF Stuck
      <4> QED
        BY <2>1, <3>1
    <3>3. PICK f : Loops(conv, k - 1, f)
      BY <3>1, <3>2
    <3> DEFINE g == [i \in 0..k |-> IF i = k THEN Chat!WithText(f[k - 1], conv[k], k) ELSE f[i]]
    <3>4. /\ 0 \in 0..k /\ 0 # k /\ k \in 0..k /\ k - 1 \in 0..k /\ k - 1 # k
          /\ \A i \in 1..k : i \in 0..k /\ i - 1 \in 0..k /\ i - 1 # k
                             /\ (i # k => i \in 1..k - 1)
      BY <2>2, <2>4
    <3>5. g[0] = <<>>
      BY <3>3, <3>4 DEF Loops
    <3>6. ASSUME NEW i \in 1..k PROVE g[i] = Chat!WithText(g[i - 1], conv[i], i)
      <4>1. g[i - 1] = f[i - 1]
        BY <3>4
      <4>2. CASE i = k
        BY <3>4, <4>1, <4>2
      <4>3. CASE i # k
        <5>1. f[i] = Chat!WithText(f[i - 1], conv[i], i)
          BY <3>3, <3>4, <4>3 DEF Loops
        <5> QED
          BY <3>4, <4>1, <4>3, <5>1
      <4> QED
        BY <4>2, <4>3
    <3>7. Loops(conv, k, g)
      <4>1. g = [i \in 0..k |-> g[i]]
        OBVIOUS
      <4> HIDE DEF g
      <4> QED
        BY <3>5, <3>6, <4>1 DEF Loops
    <3> QED
      BY <2>2, <3>7
  <2> QED
    BY <2>3, <2>4
<1> QED
  BY <1>1

LEMMA VisibleLoops ==
  ASSUME NEW conv, Len(conv) \in Nat
  PROVE  \E f : Loops(conv, Len(conv), f) /\ Chat!Visible(conv) = f[Len(conv)]
<1> DEFINE n == Len(conv)
           Equation(f) == f = [i \in 0..n |-> IF i = 0 THEN <<>>
                                              ELSE Chat!WithText(f[i - 1], conv[i], i)]
           loop == CHOOSE f : Equation(f)
<1>1. \E f : Equation(f)
  <2>1. PICK f : Loops(conv, n, f)
    BY LoopRuns
  <2>2. \A i \in 0..n : f[i] = IF i = 0 THEN <<>> ELSE Chat!WithText(f[i - 1], conv[i], i)
    <3>1. \A i \in 0..n : i # 0 => i \in 1..n
      OBVIOUS
    <3> QED
      BY <2>1, <3>1 DEF Loops
  <2>3. f = [i \in 0..n |-> f[i]]
    BY <2>1 DEF Loops
  <2>4. [i \in 0..n |-> f[i]] = [i \in 0..n |-> IF i = 0 THEN <<>>
                                                ELSE Chat!WithText(f[i - 1], conv[i], i)]
    BY <2>2
  <2> QED
    BY <2>3, <2>4
<1>2. Equation(loop)
  <2> HIDE DEF Equation
  <2> QED
    BY <1>1
<1>3. Chat!Visible(conv) = loop[n]
  BY DEF Chat!Visible
<1> HIDE DEF loop
<1>4. \A i \in 0..n : loop[i] = IF i = 0 THEN <<>> ELSE Chat!WithText(loop[i - 1], conv[i], i)
  BY <1>2
<1>5. loop = [i \in 0..n |-> loop[i]]
  BY <1>2
<1>6. 0 \in 0..n /\ \A i \in 1..n : i \in 0..n /\ i # 0
  OBVIOUS
<1>7. Loops(conv, n, loop)
  BY <1>4, <1>5, <1>6 DEF Loops
<1> QED
  BY <1>3, <1>7

\* The turns are texts of the first n messages that are no questions, in their order
\* and no two adjacent ones of one participant; a claim is one of their participant.
ShownBy(turns, conv, n) ==
    /\ turns \in Seq(Chat!Turn)
    /\ \A i \in DOMAIN turns :
          /\ turns[i].at \in 1..n
          /\ turns[i].by = conv[turns[i].at].by
          /\ conv[turns[i].at].says # "question"
          /\ turns[i].claims => \E k \in 1..n : conv[k].by = turns[i].by /\ conv[k].says = "claim"
          /\ i > 1 => turns[i].by # turns[i - 1].by /\ turns[i].at > turns[i - 1].at

LEMMA ShownLater ==
  ASSUME NEW turns, NEW conv, NEW n \in Nat, ShownBy(turns, conv, n)
  PROVE  ShownBy(turns, conv, n + 1)
<1>1. 1..n \subseteq 1..n + 1
  OBVIOUS
<1> QED
  BY <1>1 DEF ShownBy

\* The last turn is replaced by, or followed by, one with the message after n.
LEMMA ShownWith ==
  ASSUME NEW turns, NEW conv, NEW n \in Nat, ShownBy(turns, conv, n),
         NEW m \in Nat, m <= Len(turns), NEW t \in Chat!Turn,
         t.at = n + 1, t.by = conv[n + 1].by, conv[n + 1].says # "question",
         t.claims => \E k \in 1..n + 1 : conv[k].by = t.by /\ conv[k].says = "claim",
         m > 0 => turns[m].by # t.by
  PROVE  ShownBy(Append(SubSeq(turns, 1, m), t), conv, n + 1)
<1> DEFINE head == SubSeq(turns, 1, m)
           new == Append(head, t)
<1>1. turns \in Seq(Chat!Turn) /\ Len(turns) \in Nat
  BY DEF ShownBy
<1>2. /\ head \in Seq(Chat!Turn) /\ Len(head) = m
      /\ \A i \in 1..m : head[i] = turns[i] /\ i \in DOMAIN turns
  BY <1>1
<1> HIDE DEF head
<1>3. /\ new \in Seq(Chat!Turn) /\ Len(new) = m + 1 /\ new[m + 1] = t
      /\ \A i \in 1..m : new[i] = head[i]
  BY <1>2
<1>4. \A i \in 1..m : new[i] = turns[i] /\ i \in DOMAIN turns
  BY <1>2, <1>3
<1>5. DOMAIN new = 1..m + 1
  BY <1>3
<1> HIDE DEF new
<1>6. ASSUME NEW i \in DOMAIN new
      PROVE  /\ new[i].at \in 1..n + 1
             /\ new[i].by = conv[new[i].at].by
             /\ conv[new[i].at].says # "question"
             /\ new[i].claims =>
                  \E k \in 1..n + 1 : conv[k].by = new[i].by /\ conv[k].says = "claim"
             /\ i > 1 => new[i].by # new[i - 1].by /\ new[i].at > new[i - 1].at
  <2>1. CASE i = m + 1
    <3>1. new[i] = t /\ n + 1 \in 1..n + 1
      BY <1>3, <2>1
    <3>2. ASSUME i > 1
          PROVE  new[i].by # new[i - 1].by /\ new[i].at > new[i - 1].at
      <4>1. m \in 1..m /\ i - 1 = m /\ m > 0
        BY <2>1, <3>2
      <4>2. new[i - 1] = turns[m] /\ m \in DOMAIN turns
        BY <1>4, <4>1
      <4>3. turns[m].at \in 1..n
        BY <4>2 DEF ShownBy
      <4>4. n + 1 > turns[m].at
        BY <4>3
      <4> QED
        BY <3>1, <4>1, <4>2, <4>4
    <3> QED
      BY <3>1, <3>2
  <2>2. CASE i # m + 1
    <3>1. i \in 1..m /\ i \in DOMAIN turns /\ new[i] = turns[i]
      BY <1>4, <1>5, <2>2
    <3>2. i > 1 => i - 1 \in 1..m
      BY <3>1
    <3>3. i > 1 => new[i - 1] = turns[i - 1]
      BY <1>4, <3>2
    <3>4. ShownBy(turns, conv, n + 1)
      BY ShownLater
    <3>5. /\ turns[i].at \in 1..n + 1
          /\ turns[i].by = conv[turns[i].at].by
          /\ conv[turns[i].at].says # "question"
          /\ turns[i].claims =>
               \E k \in 1..n + 1 : conv[k].by = turns[i].by /\ conv[k].says = "claim"
          /\ i > 1 => turns[i].by # turns[i - 1].by /\ turns[i].at > turns[i - 1].at
      BY <3>1, <3>4 DEF ShownBy
    <3> QED
      BY <3>1, <3>3, <3>5
  <2> QED
    BY <2>1, <2>2
<1>7. ShownBy(new, conv, n + 1)
  BY <1>3, <1>6 DEF ShownBy
<1> QED
  BY <1>7 DEF new, head

LEMMA ShownNext ==
  ASSUME NEW turns, NEW conv \in Seq(Chat!Call), NEW n \in Nat, n < Len(conv),
         ShownBy(turns, conv, n)
  PROVE  ShownBy(Chat!WithText(turns, conv[n + 1], n + 1), conv, n + 1)
<1> DEFINE c == conv[n + 1]
           t == [by |-> c.by, at |-> n + 1, claims |-> c.says = "claim"]
           len == Len(turns)
           prev == turns[len]
<1>1. n + 1 \in 1..Len(conv)
  OBVIOUS
<1>2. c \in Chat!Call
  BY <1>1
<1>3. c.by \in Chat!Roles /\ (c.says = "claim") \in BOOLEAN
  BY <1>2 DEF Chat!Call
<1>4. t \in Chat!Turn
  BY <1>3 DEF Chat!Turn
<1>5. turns \in Seq(Chat!Turn) /\ len \in Nat
  BY DEF ShownBy
<1>6. CASE c.says = "question"
  BY <1>6, ShownLater DEF Chat!WithText
<1>7. CASE c.says # "question" /\ turns # <<>> /\ prev.by = c.by
  <2> DEFINE more == [t EXCEPT !.claims = @ \/ prev.claims]
  <2>1. Chat!WithText(turns, c, n + 1) = Append(SubSeq(turns, 1, len - 1), more)
    BY <1>7 DEF Chat!WithText, Chat!Last, Chat!Front
  <2>2. len \in DOMAIN turns /\ len - 1 \in Nat /\ len - 1 <= len
    BY <1>5, <1>7
  <2>3. prev \in Chat!Turn
    BY <1>5, <2>2
  <2>4. /\ more.by = c.by /\ more.at = n + 1
        /\ more.claims = (c.says = "claim" \/ prev.claims)
    OBVIOUS
  <2>5. more \in Chat!Turn
    BY <1>4, <2>3 DEF Chat!Turn
  <2>6. ASSUME more.claims
        PROVE  \E k \in 1..n + 1 : conv[k].by = more.by /\ conv[k].says = "claim"
    <3>1. CASE c.says = "claim"
      <4>1. n + 1 \in 1..n + 1
        OBVIOUS
      <4> QED
        BY <2>4, <3>1, <4>1
    <3>2. CASE prev.claims
      <4>1. ShownBy(turns, conv, n + 1)
        BY ShownLater
      <4>2. \E k \in 1..n + 1 : conv[k].by = prev.by /\ conv[k].says = "claim"
        BY <2>2, <3>2, <4>1 DEF ShownBy
      <4> QED
        BY <1>7, <2>4, <4>2
    <3> QED
      BY <2>4, <2>6, <3>1, <3>2
  <2>7. len - 1 > 0 => turns[len - 1].by # more.by
    <3>1. len > 1 => turns[len].by # turns[len - 1].by
      BY <2>2 DEF ShownBy
    <3> QED
      BY <1>5, <1>7, <2>4, <3>1
  <2> HIDE DEF more, c
  <2>8. ShownBy(Append(SubSeq(turns, 1, len - 1), more), conv, n + 1)
    BY <1>5, <1>7, <2>2, <2>4, <2>5, <2>6, <2>7, ShownWith DEF c
  <2> QED
    BY <2>1, <2>8 DEF c
<1>8. CASE c.says # "question" /\ ~(turns # <<>> /\ prev.by = c.by)
  <2>1. Chat!WithText(turns, c, n + 1) = Append(turns, t)
    BY <1>8 DEF Chat!WithText, Chat!Last, Chat!Front
  <2>2. SubSeq(turns, 1, len) = turns
    BY <1>5
  <2>3. t.by = c.by /\ t.at = n + 1 /\ t.claims = (c.says = "claim")
    OBVIOUS
  <2>4. t.claims => \E k \in 1..n + 1 : conv[k].by = t.by /\ conv[k].says = "claim"
    <3>1. n + 1 \in 1..n + 1
      OBVIOUS
    <3> QED
      BY <2>3, <3>1
  <2>5. len > 0 => turns[len].by # t.by
    BY <1>5, <1>8, <2>3
  <2> HIDE DEF t, c
  <2>6. ShownBy(Append(SubSeq(turns, 1, len), t), conv, n + 1)
    BY <1>4, <1>5, <1>8, <2>3, <2>4, <2>5, ShownWith DEF c
  <2> QED
    BY <2>1, <2>2, <2>6 DEF c
<1> QED
  BY <1>6, <1>7, <1>8

LEMMA ShownAll ==
  ASSUME NEW conv \in Seq(Chat!Call)
  PROVE  ShownBy(Chat!Visible(conv), conv, Len(conv))
<1> DEFINE n == Len(conv)
<1>1. n \in Nat
  OBVIOUS
<1>2. PICK f : Loops(conv, n, f) /\ Chat!Visible(conv) = f[n]
  BY <1>1, VisibleLoops
<1> DEFINE Wrong == {i \in 0..n : ~ShownBy(f[i], conv, i)}
<1>3. ASSUME Wrong # {} PROVE FALSE
  <2>1. Wrong \subseteq Nat
    OBVIOUS
  <2>2. PICK i \in Wrong : \A j \in Wrong : i <= j
    <3> HIDE DEF Wrong
    <3> QED
      BY <1>3, <2>1, LeastNumber
  <2>3. i \in 0..n /\ ~ShownBy(f[i], conv, i)
    OBVIOUS
  <2>4. ShownBy(f[0], conv, 0)
    <3>1. f[0] = <<>>
      BY <1>2 DEF Loops
    <3> QED
      BY <3>1 DEF ShownBy
  <2>5. i # 0
    BY <2>3, <2>4
  <2> DEFINE k == i - 1
  <2>6. k \in Nat /\ k \in 0..n /\ k < n /\ k + 1 = i /\ i \in 1..n /\ ~(i <= k)
    BY <1>1, <2>3, <2>5
  <2>7. ShownBy(f[k], conv, k)
    <3> HIDE DEF Wrong, k
    <3>1. k \notin Wrong
      BY <2>2, <2>6
    <3> QED
      BY <2>6, <3>1 DEF Wrong
  <2>8. f[i] = Chat!WithText(f[k], conv[i], i)
    BY <1>2, <2>6 DEF Loops
  <2> HIDE DEF k
  <2>9. ShownBy(Chat!WithText(f[k], conv[k + 1], k + 1), conv, k + 1)
    BY <2>6, <2>7, ShownNext
  <2> QED
    BY <2>3, <2>6, <2>8, <2>9
<1>4. n \in 0..n
  BY <1>1
<1>5. ShownBy(f[n], conv, n)
  BY <1>3, <1>4
<1> QED
  BY <1>2, <1>5

\* The steps of the chat hand on what its next step relies on; the tools of a call are
\* those of the developer.
TalkInv ==
    /\ phase = "speaking" => speaker \in Chat!Roles
    /\ phase = "ended" => ending \in Chat!Endings
    /\ phase # "over" => asked <= Answers
    /\ \A i \in DOMAIN calls : calls[i].says = "work" => calls[i].by = "developer"

\* Whom the request requires was at work.
Worked == \A r \in Chat!Requires(wish) : \E i \in DOMAIN calls :
              calls[i].by = r /\ calls[i].says \in {"claim", "work"}
WorkInv ==
    /\ task = "done" => phase = "over"
    /\ (phase = "filing" \/ task = "done") /\ verdict.status = "completed" /\ ~verdict.judged
          => Worked
    /\ task = "done" => verdict.status = "completed"

\* The turns filed so far are the first of those shown, the texts of the conversation.
FiledInv ==
    /\ phase \notin {"filing", "over"} => filed = <<>>
    /\ phase = "filing" \/ (phase = "over" /\ state.turns > 0) =>
          /\ ShownBy(visible, Chat!Conversation, Len(Chat!Conversation))
          /\ Len(filed) <= Len(visible)
          /\ \A i \in DOMAIN filed : filed[i].by = visible[i].by /\ filed[i].at = visible[i].at
    /\ phase = "over" /\ state.turns > 0 => Len(filed) = Len(visible) /\ state.turns = Len(visible)

TurnInv == Chat!TypeOK /\ TalkInv /\ WorkInv /\ FiledInv

LEMMA ChatAssumed == ChatRounds \in Nat /\ Retries \in Nat /\ Answers \in Nat
BY AgentsAssumption DEF Chat!ChatAssumption

\* A step of the chat before anything is filed.
LEMMA TalkKeeps ==
  ASSUME TurnInv, phase \notin {"filing", "over"}, phase' \in {"choosing", "speaking", "ended"},
         UNCHANGED <<wish, yields, visible, verdict, task, pending, state, filed, asked>>,
         seed' \in Chat!Seeds, invited' \in SUBSET Chat!Roles, tries' \in 0..Retries,
         calls' \in Seq(Chat!Call), since' \in 0..Len(calls'),
         speaker' \in Chat!Roles \cup {Chat!Nobody},
         ending' \in Chat!Endings \cup {Chat!Nobody},
         phase' = "speaking" => speaker' \in Chat!Roles,
         phase' = "ended" => ending' \in Chat!Endings,
         \A i \in DOMAIN calls' : calls'[i].says = "work" => calls'[i].by = "developer"
  PROVE  TurnInv'
<1>1. Chat!TypeOK'
  BY DEF TurnInv, Chat!TypeOK
<1>2. TalkInv'
  BY DEF TurnInv, TalkInv
<1>3. task # "done"
  BY DEF TurnInv, WorkInv
<1>4. WorkInv'
  BY <1>3 DEF WorkInv
<1>5. FiledInv'
  BY DEF TurnInv, FiledInv
<1> QED
  BY <1>1, <1>2, <1>4, <1>5 DEF TurnInv

LEMMA InvitedRoles ==
  ASSUME NEW hints \in Chat!Hints
  PROVE  Chat!Participants(wish, hints) \in SUBSET Chat!Roles
BY DEF Chat!Participants, Chat!Makers, Chat!Requires, Chat!Roles

LEMMA ChatTalkStep ==
  ASSUME TurnInv,
         \/ Chat!Begin \/ \E r \in Chat!Roles : Chat!Select(r)
         \/ \E what \in Chat!Sayings : Chat!Speak(what)
         \/ \E how \in Chat!Endings : Chat!Terminate(how)
         \/ Chat!Retry \/ Chat!Again
  PROVE  TurnInv'
<1>1. /\ seed \in Chat!Seeds /\ invited \in SUBSET Chat!Roles /\ tries \in 0..Retries
      /\ calls \in Seq(Chat!Call) /\ Len(calls) \in Nat /\ since \in 0..Len(calls)
      /\ speaker \in Chat!Roles \cup {Chat!Nobody}
      /\ ending \in Chat!Endings \cup {Chat!Nobody}
      /\ Retries \in Nat
  BY ChatAssumed DEF TurnInv, Chat!TypeOK
<1>2. /\ phase = "speaking" => speaker \in Chat!Roles
      /\ phase = "ended" => ending \in Chat!Endings
      /\ \A i \in DOMAIN calls : calls[i].says = "work" => calls[i].by = "developer"
  BY DEF TurnInv, TalkInv
<1>3. CASE Chat!Begin
  <2>1. PICK hints \in Chat!Hints : invited' = Chat!Participants(wish, hints)
    BY <1>3 DEF Chat!Begin
  <2>2. invited' \in SUBSET Chat!Roles
    BY <2>1, InvitedRoles
  <2> QED
    BY <1>1, <1>2, <1>3, <2>2, TalkKeeps DEF Chat!Begin, Chat!given, Chat!record
<1>4. ASSUME NEW r \in Chat!Roles, Chat!Select(r) PROVE TurnInv'
  BY <1>1, <1>2, <1>4, TalkKeeps DEF Chat!Select, Chat!given, Chat!record
<1>5. ASSUME NEW what \in Chat!Sayings, Chat!Speak(what) PROVE TurnInv'
  <2> DEFINE c == [by |-> speaker, says |-> what]
  <2>1. /\ phase = "speaking" /\ phase' = "choosing" /\ speaker' = Chat!Nobody
        /\ calls' = Append(calls, c)
        /\ what = "work" => speaker = "developer"
        /\ UNCHANGED <<seed, invited, tries, since, ending>>
        /\ UNCHANGED <<wish, yields, visible, verdict, task, pending, state, filed, asked>>
    BY <1>5 DEF Chat!Speak, Chat!given, Chat!record
  <2>2. c \in Chat!Call /\ c.by = speaker /\ c.says = what
    BY <1>2, <2>1 DEF Chat!Call
  <2> HIDE DEF c
  <2>3. /\ calls' \in Seq(Chat!Call) /\ Len(calls') = Len(calls) + 1
        /\ calls'[Len(calls) + 1] = c
        /\ \A i \in 1..Len(calls) : calls'[i] = calls[i]
        /\ DOMAIN calls = 1..Len(calls) /\ DOMAIN calls' = 1..Len(calls) + 1
    BY <1>1, <2>1, <2>2
  <2>4. \A i \in DOMAIN calls' : calls'[i].says = "work" => calls'[i].by = "developer"
    <3>1. \A i \in DOMAIN calls' : i \in DOMAIN calls \/ i = Len(calls) + 1
      BY <1>1, <2>3
    <3> QED
      BY <1>2, <2>1, <2>2, <2>3, <3>1
  <2>5. since' \in 0..Len(calls')
    BY <1>1, <2>1, <2>3
  <2> QED
    BY <1>1, <2>1, <2>3, <2>4, <2>5, TalkKeeps
<1>6. ASSUME NEW how \in Chat!Endings, Chat!Terminate(how) PROVE TurnInv'
  BY <1>1, <1>2, <1>6, TalkKeeps DEF Chat!Terminate, Chat!given, Chat!record
<1>7. CASE Chat!Retry
  <2>1. since' \in 0..Len(calls') /\ tries' \in 0..Retries
    BY <1>1, <1>7 DEF Chat!Retry
  <2> QED
    BY <1>1, <1>2, <1>7, <2>1, TalkKeeps DEF Chat!Retry, Chat!given, Chat!record
<1>8. CASE Chat!Again
  <2>1. /\ calls' = <<>> /\ since' = 0 /\ tries' = 0 /\ seed' = "sanitized"
        /\ speaker' = Chat!Nobody /\ ending' = Chat!Nobody
        /\ phase = "ended" /\ phase' = "choosing" /\ UNCHANGED invited
        /\ UNCHANGED <<wish, yields, visible, verdict, task, pending, state, filed, asked>>
    BY <1>8 DEF Chat!Again, Chat!Fresh, Chat!given, Chat!record
  <2>2. calls' \in Seq(Chat!Call) /\ Len(calls') = 0 /\ DOMAIN calls' = {}
    BY <2>1
  <2>3. since' \in 0..Len(calls') /\ tries' \in 0..Retries /\ seed' \in Chat!Seeds
    BY <1>1, <2>1, <2>2 DEF Chat!Seeds
  <2> QED
    BY <1>1, <2>1, <2>2, <2>3, TalkKeeps
<1> QED
  BY <1>3, <1>4, <1>5, <1>6, <1>7, <1>8

\* The conversation is a part of the trace.
LEMMA ConversationTraced ==
  ASSUME Chat!TypeOK
  PROVE  /\ Chat!Conversation \in Seq(Chat!Call)
         /\ \A k \in 1..Len(Chat!Conversation) :
              \E i \in DOMAIN calls : calls[i] = Chat!Conversation[k]
<1>1. calls \in Seq(Chat!Call) /\ Len(calls) \in Nat /\ since \in 0..Len(calls)
  BY DEF Chat!TypeOK
<1>2. CASE yields = "conversation"
  <2>1. Chat!Conversation = SubSeq(calls, since + 1, Len(calls))
    BY <1>2 DEF Chat!Conversation
  <2>2. /\ SubSeq(calls, since + 1, Len(calls)) \in Seq(Chat!Call)
        /\ Len(SubSeq(calls, since + 1, Len(calls))) = Len(calls) - since
        /\ \A k \in 1..Len(calls) - since :
             SubSeq(calls, since + 1, Len(calls))[k] = calls[since + k]
    BY <1>1
  <2>3. \A k \in 1..Len(calls) - since : since + k \in DOMAIN calls
    BY <1>1
  <2> QED
    BY <2>1, <2>2, <2>3
<1>3. CASE yields # "conversation"
  BY <1>1, <1>3 DEF Chat!Conversation
<1> QED
  BY <1>2, <1>3

\* The verdict that a request is completed, without a second opinion, has the work of
\* every role that the request requires behind it.
LEMMA VerdictWorked ==
  ASSUME TurnInv, NEW turns, turns = Chat!Visible(Chat!Conversation),
         NEW reported \in Chat!Statuses, NEW v \in Chat!Verdicts(reported, turns)
  PROVE  v \in Chat!Verdict /\ (v.status = "completed" /\ ~v.judged => Worked)
<1>0. \/ v = [status |-> reported, judged |-> FALSE] /\ reported # "completed"
      \/ v \in [status : {"completed", "failed"}, judged : {TRUE}]
      \/ v = [status |-> "failed", judged |-> FALSE]
      \/ v = [status |-> "completed", judged |-> FALSE] /\ reported = "completed"
  BY DEF Chat!Verdicts, Chat!Adjudicated
<1>1. v \in Chat!Verdict /\ (v.judged \/ v.status # "completed" \/ reported = "completed")
  <2>1. CASE v = [status |-> reported, judged |-> FALSE] /\ reported # "completed"
    BY <2>1 DEF Chat!Verdict
  <2>2. CASE v \in [status : {"completed", "failed"}, judged : {TRUE}]
    <3>1. \A w \in [status : {"completed", "failed"}, judged : {TRUE}] :
            w \in [status : Chat!Statuses, judged : BOOLEAN] /\ w.judged = TRUE
      BY DEF Chat!Statuses
    <3> QED
      BY <2>2, <3>1 DEF Chat!Verdict
  <2>3. CASE v = [status |-> "failed", judged |-> FALSE]
    BY <2>3 DEF Chat!Verdict, Chat!Statuses
  <2>4. CASE v = [status |-> "completed", judged |-> FALSE] /\ reported = "completed"
    BY <2>4 DEF Chat!Verdict, Chat!Statuses
  <2> QED
    BY <1>0, <2>1, <2>2, <2>3, <2>4
<1>2. ASSUME v.status = "completed", ~v.judged PROVE Worked
  <2>1. reported = "completed"
    BY <1>1, <1>2
  <2>2. \A r \in Chat!Requires(wish) : Chat!Did(r, turns)
    BY <1>2, <2>1 DEF Chat!Verdicts
  <2> SUFFICES ASSUME NEW r \in Chat!Requires(wish)
               PROVE  \E i \in DOMAIN calls : calls[i].by = r
                                              /\ calls[i].says \in {"claim", "work"}
    BY DEF Worked
  <2>3. Chat!Did(r, turns)
    BY <2>2
  <2>4. CASE \E i \in DOMAIN turns : turns[i].by = r /\ turns[i].claims
    <3> DEFINE conv == Chat!Conversation
    <3>1. /\ conv \in Seq(Chat!Call)
          /\ \A k \in 1..Len(conv) : \E i \in DOMAIN calls : calls[i] = conv[k]
      BY ConversationTraced DEF TurnInv
    <3>2. ShownBy(turns, conv, Len(conv))
      BY <3>1, ShownAll
    <3> HIDE DEF conv
    <3>3. PICK i \in DOMAIN turns : turns[i].by = r /\ turns[i].claims
      BY <2>4
    <3>4. PICK k \in 1..Len(conv) : conv[k].by = turns[i].by /\ conv[k].says = "claim"
      BY <3>2, <3>3 DEF ShownBy
    <3> QED
      BY <3>1, <3>3, <3>4
  <2>5. CASE r = "developer" /\ \E i \in DOMAIN calls : calls[i].says = "work"
    BY <2>5 DEF TurnInv, TalkInv
  <2> QED
    BY <2>3, <2>4, <2>5 DEF Chat!Did
<1> QED
  BY <1>1, <1>2

LEMMA ChatConcludes ==
  ASSUME TurnInv, Chat!Conclude
  PROVE  TurnInv'
<1> DEFINE conv == Chat!Conversation
           report == Chat!Reported(ending, conv)
<1>1. /\ phase = "ended" /\ phase' = "filing" /\ visible' = Chat!Visible(conv)
      /\ verdict' \in Chat!Verdicts(report, visible')
      /\ UNCHANGED <<wish, yields, seed, invited, tries, calls, since, speaker, ending, task,
                     pending, state, filed, asked>>
  BY DEF Chat!Conclude, Chat!given, Chat!talk, Chat!record
<1>2. ending \in Chat!Endings
  BY <1>1 DEF TurnInv, TalkInv
<1>3. report \in Chat!Statuses
  BY <1>2 DEF Chat!Reported, Chat!Endings, Chat!Statuses
<1>4. conv \in Seq(Chat!Call)
  BY ConversationTraced DEF TurnInv
<1>5. ShownBy(visible', conv, Len(conv)) /\ Len(visible') \in Nat
  <2>1. ShownBy(visible', conv, Len(conv))
    BY <1>1, <1>4, ShownAll
  <2>2. visible' \in Seq(Chat!Turn)
    BY <2>1 DEF ShownBy
  <2> QED
    BY <2>1, <2>2
<1>6. verdict' \in Chat!Verdict
      /\ (verdict'.status = "completed" /\ ~verdict'.judged => Worked)
  <2> HIDE DEF report
  <2> QED
    BY <1>1, <1>3, VerdictWorked
<1>7. Worked' = Worked /\ conv' = conv
  BY <1>1 DEF Worked, Chat!Conversation
<1>8. Chat!TypeOK'
  BY <1>1, <1>5, <1>6 DEF ShownBy, TurnInv, Chat!TypeOK
<1>9. TalkInv' /\ WorkInv'
  BY <1>1, <1>6, <1>7 DEF TurnInv, TalkInv, WorkInv
<1>10. FiledInv'
  <2>1. filed' = <<>>
    BY <1>1 DEF TurnInv, FiledInv
  <2> HIDE DEF conv
  <2>2. ShownBy(visible', conv', Len(conv'))
    BY <1>5, <1>7
  <2>3. Len(filed') = 0 /\ DOMAIN filed' = {}
    BY <2>1
  <2> QED
    BY <1>1, <1>5, <2>1, <2>2, <2>3 DEF FiledInv, conv
<1> QED
  BY <1>8, <1>9, <1>10 DEF TurnInv

LEMMA ChatFiles ==
  ASSUME TurnInv, Chat!FileTurn
  PROVE  TurnInv'
<1> DEFINE n == Len(filed)
           t == visible[n + 1]
           new == [by |-> t.by, at |-> t.at, status |-> "done"]
           Filed == [by : Chat!Roles, at : Nat \ {0}, status : {"done"}]
<1>1. /\ phase = "filing" /\ n < Len(visible) /\ filed' = Append(filed, new)
      /\ UNCHANGED <<wish, yields, phase, seed, invited, tries, calls, since, speaker, ending,
                     visible, verdict, task, pending, state, asked>>
  BY DEF Chat!FileTurn, Chat!given, Chat!talk, Chat!record
<1>2. filed \in Seq(Filed) /\ visible \in Seq(Chat!Turn) /\ n \in Nat /\ Len(visible) \in Nat
  BY DEF TurnInv, Chat!TypeOK
<1>3. t \in Chat!Turn
  BY <1>1, <1>2
<1>4. new \in Filed /\ new.by = t.by /\ new.at = t.at
  BY <1>3 DEF Chat!Turn
<1> HIDE DEF new, Filed
<1>5. /\ filed' \in Seq(Filed) /\ Len(filed') = n + 1 /\ filed'[n + 1] = new
      /\ \A i \in 1..n : filed'[i] = filed[i]
      /\ DOMAIN filed = 1..n /\ DOMAIN filed' = 1..n + 1
  BY <1>1, <1>2, <1>4
<1>6. Chat!TypeOK'
  BY <1>1, <1>5 DEF TurnInv, Chat!TypeOK, Filed
<1>7. TalkInv' /\ WorkInv'
  BY <1>1 DEF TurnInv, TalkInv, WorkInv, Worked
<1>8. /\ ShownBy(visible, Chat!Conversation, Len(Chat!Conversation))
      /\ \A i \in 1..n : filed[i].by = visible[i].by /\ filed[i].at = visible[i].at
  BY <1>1, <1>5 DEF TurnInv, FiledInv
<1>9. \A i \in 1..n + 1 : filed'[i].by = visible[i].by /\ filed'[i].at = visible[i].at
  <2>1. \A i \in 1..n + 1 : i \in 1..n \/ i = n + 1
    BY <1>2
  <2> QED
    BY <1>4, <1>5, <1>8, <2>1
<1>10. Chat!Conversation' = Chat!Conversation
  BY <1>1 DEF Chat!Conversation
<1>11. n + 1 <= Len(visible)
  BY <1>1, <1>2
<1>12. FiledInv'
  BY <1>1, <1>5, <1>8, <1>9, <1>10, <1>11 DEF FiledInv
<1> QED
  BY <1>6, <1>7, <1>12 DEF TurnInv

\* The run comes to its end when all turns are filed.
LEMMA ChatEnds ==
  ASSUME TurnInv, Chat!Ask \/ Chat!Finish
  PROVE  TurnInv'
<1>1. /\ phase = "filing" /\ phase' = "over" /\ Len(filed) = Len(visible)
      /\ state'.turns = Len(visible)
      /\ UNCHANGED <<wish, yields, seed, invited, tries, calls, since, speaker, ending, visible,
                     verdict, filed>>
      /\ task' = "done" => verdict.status = "completed"
  BY DEF Chat!Ask, Chat!Finish, Chat!StateOf, Chat!given, Chat!talk
<1>2. /\ asked \in 0..(Answers + 1) /\ asked <= Answers /\ Answers \in Nat
      /\ pending \in 0..(Answers + 1) /\ Len(visible) \in Nat /\ verdict.status \in Chat!Statuses
  BY <1>1, ChatAssumed DEF TurnInv, TalkInv, Chat!TypeOK, Chat!Verdict
<1>3. asked + 1 \in 0..(Answers + 1) /\ 0 \in 0..(Answers + 1)
  BY <1>2
<1>4. /\ asked' \in 0..(Answers + 1) /\ pending' \in 0..(Answers + 1)
      /\ task' \in {"in_progress", "waiting_input", "done", "failed"}
  BY <1>2, <1>3 DEF Chat!Ask, Chat!Finish
<1>5. state' \in [owner : 0..(Answers + 1), turns : Nat, status : Chat!Statuses \cup {"none"}]
  BY <1>2, <1>3 DEF Chat!Ask, Chat!Finish, Chat!StateOf, Chat!None
<1>6. Chat!TypeOK'
  BY <1>1, <1>4, <1>5 DEF TurnInv, Chat!TypeOK
<1>7. TalkInv' /\ WorkInv'
  BY <1>1 DEF TurnInv, TalkInv, WorkInv, Worked
<1>8. Chat!Conversation' = Chat!Conversation
  BY <1>1 DEF Chat!Conversation
<1>9. FiledInv'
  BY <1>1, <1>8 DEF TurnInv, FiledInv
<1> QED
  BY <1>6, <1>7, <1>9 DEF TurnInv

\* A run that breaks, and one that is resumed, leave nothing shown or filed.
LEMMA ChatForgets ==
  ASSUME TurnInv, Chat!Break \/ Chat!Resume
  PROVE  TurnInv'
<1>1. /\ seed' = "history" /\ calls' = <<>> /\ since' = 0 /\ tries' = 0
      /\ speaker' = Chat!Nobody /\ ending' = Chat!Nobody /\ invited' = {}
      /\ visible' = <<>> /\ filed' = <<>>
      /\ verdict' = [status |-> "failed", judged |-> FALSE]
      /\ UNCHANGED <<wish, yields, asked>>
      /\ \/ /\ phase' = "over" /\ task' = "failed" /\ UNCHANGED pending
            /\ state' = [owner |-> Chat!None, turns |-> 0, status |-> "failed"]
         \/ /\ phase' = "ready" /\ task' = "in_progress" /\ pending' = Chat!None
            /\ asked <= Answers /\ UNCHANGED state
  BY DEF Chat!Break, Chat!Resume, Chat!Answered, Chat!Forget, Chat!Fresh, Chat!given
<1>2. /\ calls' \in Seq(Chat!Call) /\ visible' \in Seq(Chat!Turn)
      /\ filed' \in Seq([by : Chat!Roles, at : Nat \ {0}, status : {"done"}])
      /\ Len(calls') = 0 /\ DOMAIN calls' = {}
  BY <1>1
<1>3. Retries \in Nat /\ Answers \in Nat
  BY ChatAssumed
<1>4. tries' \in 0..Retries /\ since' \in 0..Len(calls') /\ 0 \in 0..(Answers + 1)
  BY <1>1, <1>2, <1>3
<1>5. /\ state \in [owner : 0..(Answers + 1), turns : Nat, status : Chat!Statuses \cup {"none"}]
      /\ pending \in 0..(Answers + 1) /\ asked \in 0..(Answers + 1)
      /\ wish \in Chat!Wishes /\ yields \in {"conversation", "response"}
  BY DEF TurnInv, Chat!TypeOK
<1>6. [owner |-> Chat!None, turns |-> 0, status |-> "failed"] \in
        [owner : 0..(Answers + 1), turns : Nat, status : Chat!Statuses \cup {"none"}]
  BY <1>4 DEF Chat!None, Chat!Statuses
<1>7. state' \in [owner : 0..(Answers + 1), turns : Nat, status : Chat!Statuses \cup {"none"}]
      /\ pending' \in 0..(Answers + 1)
  BY <1>1, <1>4, <1>5, <1>6 DEF Chat!None
<1>8. verdict' \in Chat!Verdict /\ seed' \in Chat!Seeds
  BY <1>1 DEF Chat!Verdict, Chat!Statuses, Chat!Seeds
<1>9. Chat!TypeOK'
  BY <1>1, <1>2, <1>4, <1>5, <1>7, <1>8 DEF Chat!TypeOK
<1>10. TalkInv' /\ WorkInv'
  BY <1>1, <1>2 DEF TalkInv, WorkInv
<1>11. FiledInv'
  BY <1>1 DEF FiledInv
<1> QED
  BY <1>9, <1>10, <1>11 DEF TurnInv

LEMMA TurnsAlways == Spec => []TurnInv
<1>1. Init => TurnInv
  <2>1. SUFFICES ASSUME Init PROVE TurnInv
    OBVIOUS
  <2>2. Chat!Init
    BY <2>1 DEF Init
  <2>3. /\ calls \in Seq(Chat!Call) /\ visible \in Seq(Chat!Turn)
        /\ filed \in Seq([by : Chat!Roles, at : Nat \ {0}, status : {"done"}])
        /\ Len(calls) = 0 /\ DOMAIN calls = {}
    BY <2>2 DEF Chat!Init
  <2>4. tries \in 0..Retries /\ since \in 0..Len(calls) /\ 0 \in 0..(Answers + 1)
    BY <2>2, <2>3, ChatAssumed DEF Chat!Init
  <2>5. state \in [owner : 0..(Answers + 1), turns : Nat, status : Chat!Statuses \cup {"none"}]
        /\ pending \in 0..(Answers + 1) /\ asked \in 0..(Answers + 1)
    BY <2>2, <2>4 DEF Chat!Init, Chat!None
  <2>6. verdict \in Chat!Verdict /\ seed \in Chat!Seeds
    BY <2>2 DEF Chat!Init, Chat!Verdict, Chat!Statuses, Chat!Seeds
  <2>7. Chat!TypeOK
    BY <2>2, <2>3, <2>4, <2>5, <2>6 DEF Chat!Init, Chat!TypeOK
  <2>8. TalkInv /\ WorkInv /\ FiledInv
    BY <2>2, <2>3, ChatAssumed DEF Chat!Init, TalkInv, WorkInv, FiledInv
  <2> QED
    BY <2>7, <2>8 DEF TurnInv
<1>2. TurnInv /\ Chat!Next => TurnInv'
  BY ChatTalkStep, ChatConcludes, ChatFiles, ChatEnds, ChatForgets DEF Chat!Next
<1>3. TurnInv /\ UNCHANGED chatVars => TurnInv'
  BY DEF chatVars, TurnInv, Chat!TypeOK, TalkInv, WorkInv, Worked, FiledInv,
         Chat!Conversation
<1>4. TurnInv /\ [Next]_allVars => TurnInv'
  BY <1>2, <1>3 DEF Next, allVars
<1> QED
  BY <1>1, <1>4, PTL DEF Spec, allVars

\* Whoever is invited and speaks, with any number of rounds, reruns and resumptions: a
\* manager task that is done without a second opinion had every required role at work in
\* this run, in that role.
THEOREM DoneIsWorked == Spec => []DoneMeansDone
<1>1. TurnInv => DoneMeansDone
  BY DEF DoneMeansDone, Chat!DoneMeansDone, TurnInv, WorkInv, Worked
<1> QED
  BY <1>1, TurnsAlways, PTL

\* However the texts of a chat follow each other: the turn tasks of a run that came to a
\* verdict are its visible turns in order, none of them a question and no two adjacent
\* ones of one participant, as many as its state counts.
THEOREM TurnsFiled == Spec => []TurnsAreFiled
<1>1. ASSUME TurnInv, phase = "over", state.turns > 0
      PROVE  /\ Len(filed) = state.turns
             /\ \A i \in DOMAIN filed :
                   /\ filed[i].by = Chat!Conversation[filed[i].at].by
                   /\ Chat!Conversation[filed[i].at].says # "question"
                   /\ i > 1 => /\ filed[i].by # filed[i - 1].by
                               /\ filed[i].at > filed[i - 1].at
  <2> DEFINE conv == Chat!Conversation
  <2>1. /\ Len(filed) = Len(visible) /\ state.turns = Len(visible)
        /\ ShownBy(visible, conv, Len(conv))
        /\ \A i \in DOMAIN filed : filed[i].by = visible[i].by /\ filed[i].at = visible[i].at
    BY <1>1 DEF TurnInv, FiledInv
  <2>2. DOMAIN filed = 1..Len(filed) /\ DOMAIN visible = 1..Len(visible) /\ Len(visible) \in Nat
    BY <1>1 DEF TurnInv, Chat!TypeOK
  <2> HIDE DEF conv
  <2>3. \A i \in DOMAIN filed : i \in DOMAIN visible /\ (i > 1 => i - 1 \in DOMAIN filed)
    BY <2>1, <2>2
  <2>4. \A i \in DOMAIN filed :
           /\ filed[i].by = conv[filed[i].at].by
           /\ conv[filed[i].at].says # "question"
    BY <2>1, <2>3 DEF ShownBy
  <2>5. \A i \in DOMAIN filed : i > 1 => /\ filed[i].by # filed[i - 1].by
                                         /\ filed[i].at > filed[i - 1].at
    BY <2>1, <2>3 DEF ShownBy
  <2> QED
    BY <2>1, <2>4, <2>5 DEF conv
<1>2. TurnInv => TurnsAreFiled
  BY <1>1 DEF TurnsAreFiled, Chat!TurnsAreFiled
<1> QED
  BY <1>2, TurnsAlways, PTL

-----------------------------------------------------------------------------
(* Types of all parts *)

\* The elements of a finite set of numbers are numbered in their order.
LEMMA NumbersRanked ==
  ASSUME NEW S, S \subseteq Nat, IsFiniteSet(S), NEW i \in 1..Cardinality(S)
  PROVE  \E r \in S : Cardinality({q \in S : q <= r}) = i
<1> DEFINE upTo(r) == {q \in S : q <= r}
           rank == [r \in S |-> Cardinality(upTo(r))]
           n == Cardinality(S)
<1>1. n \in Nat
  BY FS_CardinalityType
<1>2. ASSUME NEW r \in S
      PROVE  IsFiniteSet(upTo(r)) /\ Cardinality(upTo(r)) \in 1..n
  <2>1. upTo(r) \in SUBSET S /\ r \in upTo(r)
    OBVIOUS
  <2> HIDE DEF upTo
  <2>2. IsFiniteSet(upTo(r)) /\ Cardinality(upTo(r)) <= n /\ Cardinality(upTo(r)) \in Nat
    BY <2>1, FS_Subset, FS_CardinalityType
  <2>3. Cardinality(upTo(r)) # 0
    BY <2>1, <2>2, FS_EmptySet
  <2> HIDE DEF n
  <2> QED
    BY <1>1, <2>2, <2>3
<1>3. ASSUME NEW r \in S, NEW s \in S, r < s PROVE Cardinality(upTo(r)) # Cardinality(upTo(s))
  <2>1. upTo(r) \in SUBSET upTo(s) /\ s \in upTo(s) /\ s \notin upTo(r)
    <3>1. r \in Nat /\ s \in Nat /\ \A q \in S : q \in Nat
      OBVIOUS
    <3>2. \A q \in S : q <= r => q <= s
      BY <1>3, <3>1
    <3>3. s <= s /\ ~(s <= r)
      BY <1>3, <3>1
    <3> QED
      BY <3>2, <3>3
  <2> HIDE DEF upTo
  <2> QED
    BY <1>2, <2>1, FS_Subset
<1>4. \A r, s \in S : rank[r] = rank[s] => r = s
  <2> SUFFICES ASSUME NEW r \in S, NEW s \in S, rank[r] = rank[s], r # s PROVE FALSE
    OBVIOUS
  <2>1. r < s \/ s < r
    OBVIOUS
  <2>2. Cardinality(upTo(r)) = Cardinality(upTo(s))
    OBVIOUS
  <2> HIDE DEF upTo, rank
  <2> QED
    BY <1>3, <2>1, <2>2
<1>5. rank \in [S -> 1..n]
  BY <1>2
<1>6. rank \in Injection(S, 1..n)
  <2> HIDE DEF rank, n
  <2> QED
    BY <1>4, <1>5, Fun_IsInj
<1>7. IsFiniteSet(1..n) /\ Cardinality(1..n) = n
  <2> HIDE DEF n
  <2> QED
    BY <1>1, FS_Interval
<1>8. rank \in Surjection(S, 1..n)
  <2> HIDE DEF rank
  <2> QED
    BY <1>6, <1>7, FS_Injection
<1>9. \E r \in S : rank[r] = i
  <2> HIDE DEF rank
  <2>1. \A k \in 1..n : \E r \in S : rank[r] = k
    BY <1>8, Fun_SurjectionProperties
  <2> QED
    BY <2>1
<1> QED
  BY <1>9

Speaker == {Subs!Worker} \cup Subs!Helper

LEMMA SpeakersNamed ==
  ASSUME helpers \in 0..MaxHelpers
  PROVE  /\ Subs!Speakers \in Seq(Speaker) /\ Len(Subs!Speakers) = helpers + 2
         /\ \A r \in Nat : Subs!SpeakerOf(r) \in Speaker
<1>1. /\ <<Subs!Worker>> \in Seq(Speaker) /\ Len(<<Subs!Worker>>) = 1
      /\ [i \in 1..helpers |-> i] \in Seq(Speaker) /\ Len([i \in 1..helpers |-> i]) = helpers
  BY HelpersNumbered DEF Speaker, Subs!Helper
<1> DEFINE middle == [i \in 1..helpers |-> i]
           front == <<Subs!Worker>> \o middle
<1> HIDE DEF middle
<1>2. front \in Seq(Speaker) /\ Len(front) = helpers + 1
  BY <1>1, HelpersNumbered DEF middle
<1>3. Subs!Speakers = front \o <<Subs!Worker>>
  BY DEF Subs!Speakers, middle
<1> HIDE DEF front
<1>4. Subs!Speakers \in Seq(Speaker) /\ Len(Subs!Speakers) = helpers + 2
  BY <1>1, <1>2, <1>3, HelpersNumbered
<1>5. ASSUME NEW r \in Nat PROVE Subs!SpeakerOf(r) \in Speaker
  BY <1>4, HelpersNumbered DEF Subs!SpeakerOf
<1> QED
  BY <1>4, <1>5

LEMMA OutputsNamed ==
  ASSUME helpers \in 0..MaxHelpers, NEW blank \in SUBSET (0..Subs!Rounds - 1), Subs!Chat(blank)
  PROVE  outputs' \in Seq(Speaker)
<1> DEFINE rounds == Subs!Rounds
           S == 0..rounds - 1 \ blank
           It(i) == CHOOSE r \in S : Subs!Cardinality({q \in 0..r : q \notin blank}) = i
           n == rounds - Subs!Cardinality(blank)
<1>1. rounds \in Int
  <2>1. Passes \in Nat
    BY AgentsAssumption DEF Subs!SubagentAssumption
  <2>2. Len(Subs!Speakers) \in Int
    BY SpeakersNamed, HelpersNumbered
  <2> QED
    BY <2>1, <2>2 DEF Subs!Rounds
<1>2. CASE backend = "a2a"
  BY <1>2, SpeakersNamed DEF Subs!Chat
<1>3. CASE backend # "a2a"
  <2>1. outputs' = [i \in 1..n |-> Subs!SpeakerOf(It(i))]
    BY <1>3 DEF Subs!Chat
  <2>2. \A T : Subs!Cardinality(T) = Cardinality(T)
    BY DEF Subs!Cardinality, Cardinality
  <2> HIDE DEF rounds
  <2>3. /\ IsFiniteSet(0..rounds - 1) /\ blank \in SUBSET (0..rounds - 1)
        /\ Cardinality(0..rounds - 1) = IF rounds < 1 THEN 0 ELSE rounds
    <3>1. blank \in SUBSET (0..rounds - 1)
      BY DEF rounds
    <3>2. /\ IsFiniteSet(0..rounds - 1)
          /\ Cardinality(0..rounds - 1) = IF 0 > rounds - 1 THEN 0 ELSE rounds - 1 - 0 + 1
      <4>1. 0 \in Int /\ rounds - 1 \in Int
        BY <1>1
      <4> QED
        BY <4>1, FS_Interval
    <3>3. (0 > rounds - 1 <=> rounds < 1) /\ rounds - 1 - 0 + 1 = rounds
      BY <1>1
    <3> QED
      BY <3>1, <3>2, <3>3
  <2>4. IsFiniteSet(blank) /\ Cardinality(blank) \in Nat
    BY <2>3, FS_Subset, FS_CardinalityType
  <2>5. IsFiniteSet(S) /\ Cardinality(S) = Cardinality(0..rounds - 1) - Cardinality(blank)
    <3> DEFINE every == 0..rounds - 1
    <3>1. every \cap blank = blank /\ S = every \ blank
      BY <2>3
    <3>2. IsFiniteSet(every)
      BY <2>3
    <3> HIDE DEF every, S
    <3>3. /\ IsFiniteSet(every \ blank)
          /\ Cardinality(every \ blank) = Cardinality(every) - Cardinality(every \cap blank)
      BY <3>2, FS_Difference
    <3> QED
      BY <3>1, <3>3 DEF every
  <2>6. n \in Int /\ \A i \in 1..n : i \in 1..Cardinality(S)
    <3>1. n = rounds - Cardinality(blank)
      BY <2>2
    <3> HIDE DEF n, S
    <3>2. rounds < 1 => n < 1
      BY <1>1, <2>4, <3>1
    <3>3. ~(rounds < 1) => n = Cardinality(S)
      BY <2>3, <2>5, <3>1
    <3>4. n \in Int
      BY <1>1, <2>4, <3>1
    <3> QED
      BY <3>2, <3>3, <3>4
  <2>7. ASSUME NEW i \in 1..n PROVE It(i) \in Nat
    <3>1. S \subseteq Nat /\ \A r \in S : {q \in 0..r : q \notin blank} = {q \in S : q <= r}
      BY <1>1
    <3>2. PICK r \in S : Cardinality({q \in S : q <= r}) = i
      <4> HIDE DEF S, n
      <4> QED
        BY <2>5, <2>6, <3>1, NumbersRanked
    <3>3. Subs!Cardinality({q \in 0..r : q \notin blank}) = i
      BY <2>2, <3>1, <3>2
    <3>4. It(i) \in S
      <4> HIDE DEF S
      <4> QED
        BY <3>3
    <3> QED
      BY <3>1, <3>4
  <2> HIDE DEF It, n
  <2>8. \A i \in 1..n : Subs!SpeakerOf(It(i)) \in Speaker
    BY <2>7, SpeakersNamed
  <2>9. CASE n < 1
    <3>1. 1..n = 1..0
      BY <2>6, <2>9
    <3>2. outputs' = [i \in 1..0 |-> Subs!SpeakerOf(It(i))]
      BY <2>1, <3>1
    <3> QED
      BY <3>2
  <2>10. CASE n \in Nat
    BY <2>1, <2>8, <2>10
  <2> QED
    BY <2>6, <2>9, <2>10
<1> QED
  BY <1>2, <1>3

LEMMA ResultsNamed ==
  ASSUME helpers \in 0..MaxHelpers, NEW texts \in Seq(Speaker), NEW i \in 1..helpers
  PROVE  Subs!HelperOutputs(texts)[i] \in {Subs!Nobody} \cup Speaker
<1> DEFINE n == Len(texts)
<1>1. n \in Nat /\ helpers \in Nat /\ \A k \in 1..n : texts[k] \in Speaker
  BY HelpersNumbered
<1>2. CASE n = helpers + 2
  <2>1. SubSeq(texts, 2, helpers + 1)[i] = texts[i + 1] /\ i + 1 \in 1..n
    BY <1>1, <1>2
  <2> QED
    BY <1>1, <1>2, <2>1 DEF Subs!HelperOutputs
<1>3. CASE n # helpers + 2 /\ n > helpers
  <2>1. /\ SubSeq(texts, n - helpers, n - 1)[i] = texts[(n - helpers) + i - 1]
        /\ (n - helpers) + i - 1 \in 1..n
    BY <1>1, <1>3
  <2> QED
    BY <1>1, <1>3, <2>1 DEF Subs!HelperOutputs
<1>4. CASE ~(n > helpers)
  <2> DEFINE k == i - (helpers - n + 1)
  <2>1. n # helpers + 2 /\ k \in Int /\ (k >= 1 => k \in 1..n)
    BY <1>1, <1>4
  <2>2. Subs!HelperOutputs(texts)[i] = IF k >= 1 THEN texts[k] ELSE Subs!Nobody
    BY <1>4, <2>1 DEF Subs!HelperOutputs
  <2> QED
    BY <1>1, <2>1, <2>2
<1> QED
  BY <1>2, <1>3, <1>4

LEMMA SubTypes == Spec => []Subs!TypeOK
<1> DEFINE OutputInv == /\ backend \in Backends /\ forced \in BOOLEAN
                        /\ outputs \in Seq(Speaker)
                        /\ result \in [Subs!Helper -> {Subs!Nobody} \cup Speaker]
<1>1. Init => OutputInv
  BY DEF Init, Subs!Init
<1>2. ASSUME SubInv, OutputInv, Subs!Next PROVE OutputInv'
  <2>1. helpers \in 0..MaxHelpers
    BY <1>2 DEF SubInv, SubTyped
  <2>2. UNCHANGED <<backend, forced>>
    BY <1>2 DEF Subs!Next, Subs!Decide, Subs!Plan, Subs!CreateAgent, Subs!CreateTask,
       Subs!Activate, Subs!Chat, Subs!MapOutputs, Subs!CompleteTask, Subs!FailTask,
       Subs!StartCleanup, Subs!Cleanup, Subs!Raise, Subs!given
  <2>3. ASSUME NEW blank \in SUBSET (0..Subs!Rounds - 1), Subs!Chat(blank) PROVE OutputInv'
    <3>1. outputs' \in Seq(Speaker)
      BY <2>1, <2>3, OutputsNamed
    <3> QED
      BY <1>2, <2>2, <2>3, <3>1 DEF Subs!Chat
  <2>4. CASE Subs!MapOutputs
    <3>1. outputs' = outputs
      BY <2>4 DEF Subs!MapOutputs
    <3>2. result' \in [Subs!Helper -> {Subs!Nobody} \cup Speaker]
      <4>1. CASE outputs = <<>>
        BY <1>2, <2>4, <4>1 DEF Subs!MapOutputs
      <4>2. CASE outputs # <<>>
        <5>1. result' = [i \in Subs!Helper |-> IF i \in Subs!Planned
                                               THEN Subs!HelperOutputs(outputs)[i]
                                               ELSE Subs!Nobody]
          BY <2>4, <4>2 DEF Subs!MapOutputs
        <5>2. \A i \in Subs!Planned :
                Subs!HelperOutputs(outputs)[i] \in {Subs!Nobody} \cup Speaker
          BY <1>2, <2>1, ResultsNamed DEF Subs!Planned
        <5> QED
          BY <5>1, <5>2
      <4> QED
        BY <4>1, <4>2
    <3> QED
      BY <1>2, <2>2, <3>1, <3>2
  <2>5. CASE UNCHANGED <<outputs, result>>
    BY <1>2, <2>2, <2>5
  <2> QED
    BY <1>2, <2>3, <2>4, <2>5 DEF Subs!Next, Subs!Decide, Subs!Plan, Subs!CreateAgent,
       Subs!CreateTask, Subs!Activate, Subs!CompleteTask, Subs!FailTask, Subs!StartCleanup,
       Subs!Cleanup, Subs!Raise
<1>3. OutputInv /\ UNCHANGED subVars => OutputInv'
  BY DEF subVars
<1>4. SubInv /\ OutputInv /\ [Next]_allVars => OutputInv'
  BY <1>2, <1>3 DEF Next, allVars
<1>5. SubInv /\ OutputInv => Subs!TypeOK
  BY DEF SubInv, SubTyped, Subs!TypeOK, Speaker
<1> HIDE DEF OutputInv
<1> QED
  BY <1>1, <1>4, <1>5, SubAlways, PTL DEF Spec, allVars

\* Every variable of every part keeps its type: the texts a helper gets are ones that
\* were said, the turns of a chat have participants, the providers asked are loaded ones.
THEOREM PartsTyped == Spec => []TypesOK
<1>1. Init => part \in Parts
  BY DEF Init
<1>2. part \in Parts /\ [Next]_allVars => (part \in Parts)'
  BY DEF Next, allVars
<1>3. ASSUME part \in Parts, TurnInv, FlowInv, Subs!TypeOK, TraceInv, RegistryInv, ToolInv,
             HistoryInv
      PROVE  TypesOK
  <2>1. TurnInv => Chat!TypeOK
    BY DEF TurnInv
  <2>2. FlowInv => Flow!TypeOK
    BY DEF FlowInv
  <2>3. TraceInv => Trace!TypeOK
    BY DEF TraceInv
  <2>4. RegistryInv => Registry!TypeOK
    BY DEF RegistryInv
  <2>5. ToolInv => Tools!TypeOK
    BY DEF ToolInv
  <2>6. HistoryInv => History!TypeOK
    BY DEF HistoryInv, HistoryTyped
  <2>7. CASE part = "chat"
    <3>1. Chat!TypeOK
      BY <1>3, <2>1
    <3> QED
      BY <2>7, <3>1 DEF TypesOK
  <2>8. CASE part = "flow"
    <3>1. Flow!TypeOK
      BY <1>3, <2>2
    <3> QED
      BY <2>8, <3>1 DEF TypesOK
  <2>9. CASE part = "subagents"
    <3>1. Subs!TypeOK
      BY <1>3
    <3> QED
      BY <2>9, <3>1 DEF TypesOK
  <2>10. CASE part = "trace"
    <3>1. Trace!TypeOK
      BY <1>3, <2>3
    <3> QED
      BY <2>10, <3>1 DEF TypesOK
  <2>11. CASE part = "registry"
    <3>1. Registry!TypeOK
      BY <1>3, <2>4
    <3> QED
      BY <2>11, <3>1 DEF TypesOK
  <2>12. CASE part = "tools"
    <3>1. Tools!TypeOK
      BY <1>3, <2>5
    <3> QED
      BY <2>12, <3>1 DEF TypesOK
  <2>13. CASE part = "history"
    <3>1. History!TypeOK
      BY <1>3, <2>6
    <3> QED
      BY <2>13, <3>1 DEF TypesOK
  <2> QED
    BY <1>3, <2>7, <2>8, <2>9, <2>10, <2>11, <2>12, <2>13 DEF Parts
<1> QED
  BY <1>1, <1>2, <1>3, TurnsAlways, FlowAlways, SubTypes, TraceAlways, RegistryAlways,
     ToolsAlways, HistoryAlways, PTL DEF Spec, allVars

=============================================================================
