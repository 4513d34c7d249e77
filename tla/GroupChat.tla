------------------------------ MODULE GroupChat ------------------------------
(***************************************************************************)
(* The manager's group chat of one work request.  The request decides who  *)
(* is invited and which roles must have done their part; the orchestrator  *)
(* names speakers until it terminates or the rounds are used up; what was  *)
(* said and how it ended become a verdict, one task per visible turn, and  *)
(* a manager task that is done, failed or waits for the user.              *)
(* A transient error runs the workflow again with the trace it has.        *)
(***************************************************************************)
EXTENDS Integers, Sequences, FiniteSets, SequencesExt

CONSTANTS Rounds,   \* max_rounds of the orchestrator (10)
          Retries,  \* reruns after a transient error (3)
          Answers   \* bound: questions that get an answer

VARIABLES wish,     \* what the request's words say
          yields,   \* what the workflow outputs: all messages, or the last
          phase,    \* where the run is
          seed,     \* which conversation it started from
          invited,  \* the participants
          tries,    \* transient errors of this run
          calls,    \* the trace: every participant call since the run began
          since,    \* the calls before this attempt
          speaker,  \* whom the orchestrator named, until that participant has spoken
          ending,   \* how the orchestrator ended the chat
          visible,  \* the turns the user is shown
          verdict,  \* the completion payload
          task,     \* the status of the manager task
          pending,  \* its maf_pending_request_id
          state,    \* its group_chat_state
          filed,    \* the group_chat_turn tasks of the run
          asked     \* questions so far, the source of pending ids

chatVars == <<wish, yields, phase, seed, invited, tries, calls, since, speaker, ending,
              visible, verdict, task, pending, state, filed, asked>>
given == <<wish, yields>>
talk == <<seed, invited, tries, calls, since, speaker, ending>>
record == <<task, pending, state, asked>>

ChatAssumption == /\ Rounds \in Nat \ {0}
                  /\ Retries \in Nat
                  /\ Answers \in Nat

Roles == {"developer", "tester", "researcher", "writer"}
Nobody == "nobody"
None == 0

\* A text may ask the user, claim that something was made or checked, or just
\* talk; a developer may work with a tool and say so or not.
Sayings == {"question", "words", "claim", "work"}
Call == [by : Roles, says : Sayings]

\* "silent": terminated without final_message; "noquery": the reason of a
\* prompt template that met no user message.
Endings == {"completed", "empty", "failed", "noquery", "question", "silent", "rounds"}
Statuses == {"completed", "failed", "needs_user_input"}
Verdict == [status : Statuses, judged : BOOLEAN]
Turn == [by : Roles, at : Nat \ {0}, claims : BOOLEAN]

-----------------------------------------------------------------------------
(* Who is invited, and what completion requires *)

\* The words of a request: a revision ("rewrite this"), software by the markers
\* of select_workflow, a demand for validation.
Wishes == {w \in [writing : BOOLEAN, software : BOOLEAN, validate : BOOLEAN] :
              w.validate => w.software}

Requires(w) == IF w.software
               THEN {"developer"} \cup (IF w.validate THEN {"tester"} ELSE {})
               ELSE {}

Makers(w) == {"developer"} \cup (Requires(w) \cap {"tester"})

\* What other markers find in the request and in the memo of recent messages.
Hints == SUBSET {"software", "information"}

Participants(w, hints) ==
    IF w.writing THEN {"writer"}
    ELSE IF "software" \in hints \/ (w.software /\ "information" \notin hints) THEN Makers(w)
    ELSE {"researcher", "writer"}

Init == /\ wish \in Wishes
        /\ yields \in {"conversation", "response"}
        /\ phase = "ready"
        /\ seed = "history"
        /\ invited = {}
        /\ tries = 0
        /\ calls = <<>>
        /\ since = 0
        /\ speaker = Nobody
        /\ ending = Nobody
        /\ visible = <<>>
        /\ verdict = [status |-> "failed", judged |-> FALSE]
        /\ task = "in_progress"
        /\ pending = None
        /\ state = [owner |-> None, turns |-> 0, status |-> "none"]
        /\ filed = <<>>
        /\ asked = 0

-----------------------------------------------------------------------------
(* The chat *)

\* The session's last messages, earlier ones as a summary, or the request alone.
Seeds == {"history", "sanitized"}

\* A new workflow has a trace of its own.
Fresh(s) == /\ seed' = s
            /\ calls' = <<>>
            /\ since' = 0
            /\ tries' = 0
            /\ speaker' = Nobody
            /\ ending' = Nobody

\* What a run that is over leaves: its locals are gone.
Forget == /\ Fresh("history")
          /\ invited' = {}
          /\ visible' = <<>>
          /\ filed' = <<>>
          /\ verdict' = [status |-> "failed", judged |-> FALSE]

Begin == /\ phase = "ready"
         /\ \E hints \in Hints :
               invited' = Participants(wish, hints)
         /\ phase' = "choosing"
         /\ UNCHANGED <<given, seed, tries, calls, since, speaker, ending, visible, verdict,
                        record, filed>>

Spoken == Len(calls) - since

Select(r) == /\ phase = "choosing"
             /\ Spoken < Rounds
             /\ r \in invited
             /\ speaker' = r
             /\ phase' = "speaking"
             /\ UNCHANGED <<given, seed, invited, tries, calls, since, ending, visible, verdict,
                            record, filed>>

Speak(what) == /\ phase = "speaking"
               /\ what = "work" => speaker = "developer"
               /\ calls' = Append(calls, [by |-> speaker, says |-> what])
               /\ speaker' = Nobody
               /\ phase' = "choosing"
               /\ UNCHANGED <<given, seed, invited, tries, since, ending, visible,
                              verdict, record, filed>>

Terminate(how) == /\ phase = "choosing"
                  /\ IF how = "rounds" THEN Spoken = Rounds ELSE Spoken < Rounds
                  /\ ending' = how
                  /\ phase' = "ended"
                  /\ UNCHANGED <<given, seed, invited, tries, calls, since, speaker, visible,
                                 verdict, record, filed>>

\* with_transient_retry runs the same workflow again: the trace store stays.
Retry == /\ phase \in {"choosing", "speaking"}
         /\ tries < Retries
         /\ tries' = tries + 1
         /\ since' = Len(calls)
         /\ speaker' = Nobody
         /\ phase' = "choosing"
         /\ UNCHANGED <<given, seed, invited, calls, ending, visible, verdict, record,
                        filed>>

-----------------------------------------------------------------------------
(* From the conversation to a verdict *)

\* The output may be the conversation of the last attempt; if it is only the
\* last response, the conversation is put together from the whole trace.
Conversation == IF yields = "conversation" THEN SubSeq(calls, since + 1, Len(calls)) ELSE calls

\* slip: each text opens a turn of its own
WithText_Apart(turns, c, i) == Append(turns, [by |-> c.by, at |-> i, claims |-> c.says = "claim"])

\* A question is not shown, and consecutive texts of one participant are one
\* turn, which carries the index of the last of them.
WithText(turns, c, i) ==
    LET t == [by |-> c.by, at |-> i, claims |-> c.says = "claim"]
        prev == Last(turns)
    IN  IF c.says = "question" THEN turns
        ELSE IF turns # <<>> /\ prev.by = c.by
             THEN Append(Front(turns), [t EXCEPT !.claims = @ \/ prev.claims])
             ELSE Append(turns, t)

\* The turns of a conversation: those of its first messages, and so on to the last.
Visible(conv) ==
    LET shown[i \in 0..Len(conv)] == IF i = 0 THEN <<>> ELSE WithText(shown[i - 1], conv[i], i)
    IN  shown[Len(conv)]

\* slip: the orchestrator's ending is taken for the status
Reported_Raw(how, conv) == how

\* A final message that is no JSON object is the reason of a failure.  Put
\* together from the trace, a chat without final message has a default payload.
Reported(how, conv) ==
    CASE how \in {"completed", "empty"} -> "completed"
      [] how \in {"failed", "noquery"} -> "failed"
      [] how = "question" -> "needs_user_input"
      [] how \in {"silent", "rounds"} ->
            IF yields = "response" /\ conv # <<>> THEN "completed" ELSE "failed"

\* slip: a claim counts whoever makes it
Did_AnyRole(r, turns) == \E i \in DOMAIN turns : turns[i].claims

\* _assess_group_chat_completion: a claim counts for its own role only; what a
\* tool of the developer did counts wherever the trace has it.
Did(r, turns) == \/ \E i \in DOMAIN turns : turns[i].by = r /\ turns[i].claims
                 \/ r = "developer" /\ \E i \in DOMAIN calls : calls[i].says = "work"

\* The adjudicator reads what was shown and says completed or failed.
Adjudicated(turns) ==
    IF turns = <<>> THEN {} ELSE [status : {"completed", "failed"}, judged : {TRUE}]

\* The payload that reports a completion is checked, any other is put to the
\* adjudicator, whose run may fail and leave it.
Verdicts(reported, turns) ==
    IF reported # "completed"
    THEN {[status |-> reported, judged |-> FALSE]} \cup Adjudicated(turns)
    ELSE IF \/ turns = <<>> /\ ending # "completed"
            \/ \E r \in Requires(wish) : ~Did(r, turns)
         THEN {[status |-> "failed", judged |-> FALSE]}
         ELSE {[status |-> "completed", judged |-> FALSE]}

\* The chat of a request whose history lost the user's message starts again.
Again == /\ phase = "ended"
         /\ ending = "noquery"
         /\ Visible(Conversation) = <<>>
         /\ seed = "history"
         /\ Fresh("sanitized")
         /\ phase' = "choosing"
         /\ UNCHANGED <<given, invited, visible, verdict, record, filed>>

Conclude == /\ phase = "ended"
            /\ visible' = Visible(Conversation)
            /\ ending = "noquery" /\ visible' = <<>> => seed = "sanitized"
            /\ verdict' \in Verdicts(Reported(ending, Conversation), visible')
            /\ phase' = "filing"
            /\ UNCHANGED <<given, talk, record, filed>>

-----------------------------------------------------------------------------
(* Recording *)

\* The child task of a turn is created and completed.
FileTurn == /\ phase = "filing"
            /\ Len(filed) < Len(visible)
            /\ LET t == visible[Len(filed) + 1]
               IN  filed' = Append(filed, [by |-> t.by, at |-> t.at, status |-> "done"])
            /\ UNCHANGED <<given, phase, talk, visible, verdict, record>>

StateOf(id) == [owner |-> id, turns |-> Len(visible), status |-> verdict.status]

Ask == /\ phase = "filing"
       /\ Len(filed) = Len(visible)
       /\ verdict.status = "needs_user_input"
       /\ asked' = asked + 1
       /\ pending' = asked'
       /\ state' = StateOf(asked')
       /\ task' = "waiting_input"
       /\ phase' = "over"
       /\ UNCHANGED <<given, talk, visible, verdict, filed>>

Finish == /\ phase = "filing"
          /\ Len(filed) = Len(visible)
          /\ verdict.status # "needs_user_input"
          /\ state' = StateOf(None)
          /\ task' = IF verdict.status = "completed" THEN "done" ELSE "failed"
          /\ phase' = "over"
          /\ UNCHANGED <<given, talk, visible, verdict, pending, filed, asked>>

\* Any exception of the run or the recording.
Break == /\ phase \in {"choosing", "speaking", "ended", "filing"}
         /\ state' = [owner |-> None, turns |-> 0, status |-> "failed"]
         /\ task' = "failed"
         /\ phase' = "over"
         /\ Forget
         /\ UNCHANGED <<given, pending, asked>>

\* slip: only the prompt is cleared
Answered_Kept(id) == id

\* What a resumption leaves of the question.
Answered(id) == None

\* The user's answer is a message of the session; the request runs again.
Resume == /\ task = "waiting_input"
          /\ asked <= Answers
          /\ pending' = Answered(pending)
          /\ task' = "in_progress"
          /\ phase' = "ready"
          /\ Forget
          /\ UNCHANGED <<given, state, asked>>

Next == \/ Begin
        \/ \E r \in Roles : Select(r)
        \/ \E what \in Sayings : Speak(what)
        \/ \E how \in Endings : Terminate(how)
        \/ Retry
        \/ Again
        \/ Conclude
        \/ FileTurn
        \/ Ask
        \/ Finish
        \/ Break
        \/ Resume

Spec == Init /\ [][Next]_chatVars

-----------------------------------------------------------------------------
(* Properties *)

\* Types of every variable.
TypeOK == /\ wish \in Wishes
          /\ yields \in {"conversation", "response"}
          /\ phase \in {"ready", "choosing", "speaking", "ended", "filing", "over"}
          /\ seed \in Seeds
          /\ invited \in SUBSET Roles
          /\ tries \in 0..Retries
          /\ calls \in Seq(Call)
          /\ since \in 0..Len(calls)
          /\ speaker \in Roles \cup {Nobody}
          /\ ending \in Endings \cup {Nobody}
          /\ visible \in Seq(Turn)
          /\ verdict \in Verdict
          /\ task \in {"in_progress", "waiting_input", "done", "failed"}
          /\ pending \in 0..(Answers + 1)
          /\ state \in [owner : 0..(Answers + 1), turns : Nat, status : Statuses \cup {"none"}]
          /\ filed \in Seq([by : Roles, at : Nat \ {0}, status : {"done"}])
          /\ asked \in 0..(Answers + 1)

\* A request whose manager task is done without a second opinion had every role
\* it requires at work: the developer called a tool or told of an implementation,
\* the tester told of checks, in this run and in that role.
DoneMeansDone ==
    task = "done" /\ ~verdict.judged =>
        \A r \in Requires(wish) : \E i \in DOMAIN calls :
            calls[i].by = r /\ calls[i].says \in {"claim", "work"}

\* The question a task waits with is the one its group chat state names, no
\* other task has one, and a state that names an owner belongs to a task that
\* waits or was resumed and is still at work.
QuestionStands ==
    /\ task = "waiting_input" <=> pending # None
    /\ pending # None => state.owner = pending
    /\ task \in {"done", "failed"} => state.owner = None

\* When a run has come to its verdict and a task for it, the turn tasks are the
\* visible turns in order, no two adjacent ones of one participant and none of
\* them a question, and they count what the state counts.
TurnsAreFiled ==
    phase = "over" /\ state.turns > 0 =>
        /\ Len(filed) = state.turns
        /\ \A i \in DOMAIN filed :
              /\ filed[i].by = Conversation[filed[i].at].by
              /\ Conversation[filed[i].at].says # "question"
              /\ i > 1 => /\ filed[i].by # filed[i - 1].by
                          /\ filed[i].at > filed[i - 1].at
=============================================================================
