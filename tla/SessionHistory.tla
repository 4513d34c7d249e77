----------------------------- MODULE SessionHistory -----------------------------
(***************************************************************************)
(* What the conversation app (core_agent_app) keeps of one session: the    *)
(* transcript its core agent is given, which the conversation layer         *)
(* rewrites to what was really told, and the context the session has with  *)
(* a remote (A2A) agent.                                                   *)
(*                                                                         *)
(* A turn names the target that answers it.  The framework agent stores    *)
(* question and answer itself; a remote agent has its own memory, found by *)
(* a context id, and where that fails the turn is run again with an        *)
(* excerpt of the transcript.  The wrapper then plans the reply and        *)
(* replaces the last answer in the transcript by the pieces told, at the   *)
(* turn and again at each poll.  Calls run in threads without a lock.      *)
(***************************************************************************)
EXTENDS Naturals, Sequences, FiniteSets

CONSTANTS
    Turns,     \* messages of the user; a context is named by the turn it comes from
    Pollers,   \* loops that poll next-message
    MaxParts,  \* bound: pieces of a plan
    None       \* no memory object, no context

HistoryAssumption ==
    /\ MaxParts \in Nat \ {0}
    /\ Turns \cap Pollers = {} /\ {None, "delete"} \cap (Turns \cup Pollers) = {}

\* The framework agent, and remote agents with either strategy.
Targets == {"framework", "auto", "seeded_history"}
Calls == Turns \cup Pollers \cup {"delete"}
Pieces == Turns \X (1..MaxParts)

\* A row of the transcript, or a line of what the user has seen.  Raw is an answer
\* as the agent gave it; part 0 is the empty text of a turn with nothing new to say.
Line == [kind : {"user", "raw", "told"}, turn : Turns, part : 0..MaxParts]
Said(t) == [kind |-> "user", turn |-> t, part |-> 0]
Raw(t) == [kind |-> "raw", turn |-> t, part |-> 0]
Told(piece) == [kind |-> "told", turn |-> piece[1], part |-> piece[2]]
Lines(pieces) == [i \in DOMAIN pieces |-> Told(pieces[i])]

VARIABLES
    rows,       \* the transcript
    memory,     \* delivered and pending messages of each memory object
    store,      \* the object the state store has
    contexts,   \* remote_context_id of each remote target
    pc,         \* where each call is
    turn,       \* what a turn was decided to be, and what it read
    taken,      \* the piece a poll took, and from which object
    story,      \* history: what the user has seen since the session was deleted
    last,       \* history: the last context of the remote agent
    remote,     \* history: a turn was answered by a remote agent since then
    crossing    \* history: two calls have run at once

historyVars == <<rows, memory, store, contexts, pc, turn, taken, story, last, remote, crossing>>

Blank == [delivered |-> <<>>, queue |-> <<>>]
NoTurn == [target |-> "framework", mode |-> "core", keep |-> FALSE, ref |-> None,
           queue |-> <<>>, sent |-> None, got |-> None]

Init ==
    /\ rows = <<>>
    /\ memory = [o \in Turns \cup {None} |-> Blank] /\ store = None
    /\ contexts = [b \in {"auto", "seeded_history"} |-> None]
    /\ pc = [c \in Calls |-> "idle"]
    /\ turn = [t \in Turns |-> NoTurn]
    /\ taken = [p \in Pollers |-> <<>>]
    /\ story = <<>> /\ last = None /\ remote = FALSE /\ crossing = FALSE

-----------------------------------------------------------------------------
Goto(c, there) == pc' = [pc EXCEPT ![c] = there]
Busy(c) == pc[c] \notin {"idle", "returned"}
Begins == crossing' = (crossing \/ \E c \in Calls : Busy(c))
\* A turn is over, whether it answers or raises.
Returns(t) == Goto(t, "returned") /\ turn' = [turn EXCEPT ![t] = NoTurn]

\* slip: the search for the last answer does not stop at the user's message
Trimmed_NoBreak(list) == SelectSeq(list, LAMBDA l : l.kind = "user")
\* The transcript without the answers at its end.
Trimmed(list) ==
    LET ends == {n \in 0..Len(list) : n = 0 \/ list[n].kind = "user"}
    IN  SubSeq(list, 1, CHOOSE n \in ends : \A m \in ends : m <= n)

\* rewrite_latest_assistant_turn
Rewritten(pieces) == Trimmed(rows) \o Lines(pieces)

-----------------------------------------------------------------------------
(* A turn                                                                  *)

\* handle: the memory is read, and a model decides: whether the agent is asked,
\* the last answer is planned anew or the queue goes on, and what is kept.
TurnDecides(t) ==
    /\ pc[t] = "idle"
    /\ \E target \in Targets, keep \in BOOLEAN, mode \in {"core", "replan", "resume"} :
         /\ mode = "core" \/ store # None
         /\ mode = "resume" => memory[store].queue # <<>>
         /\ turn' = [turn EXCEPT ![t] =
                [NoTurn EXCEPT !.target = target, !.mode = mode, !.keep = keep,
                               !.ref = store, !.queue = memory[store].queue]]
         /\ Goto(t, IF mode # "core" THEN "plan"
                    ELSE IF target = "framework" THEN "ask" ELSE "look")
    /\ Begins
    /\ UNCHANGED <<rows, memory, store, contexts, taken, story, last, remote>>

\* The framework agent answers and stores message and answer, or raises.  The
\* rows of the tool calls it made, which go between the two and at which the
\* rewriting of the answer stops, are part of the raw row.
AgentAnswers(t) ==
    /\ pc[t] = "ask"
    /\ \/ rows' = rows \o <<Said(t), Raw(t)>> /\ Goto(t, "plan") /\ UNCHANGED turn
       \/ UNCHANGED rows /\ Returns(t)
    /\ UNCHANGED <<memory, store, contexts, taken, story, last, remote, crossing>>

\* The context of the session with a remote agent is looked up.  One that is
\* asked with an excerpt each time is sent none.
RemoteLooks(t) ==
    /\ pc[t] = "look"
    /\ turn' = [turn EXCEPT ![t].sent =
           IF turn[t].target = "auto" THEN contexts["auto"] ELSE None]
    /\ remote' = TRUE
    /\ Goto(t, "run")
    /\ UNCHANGED <<rows, memory, store, contexts, taken, story, last, crossing>>

\* A remote agent answers in the context it was sent, in a new one, or does not tell.
RemoteAnswers(t) ==
    /\ pc[t] \in {"run", "rerun"}
    /\ \E c \in {None, t} \cup (IF pc[t] = "run" THEN {turn[t].sent} ELSE {}) :
         /\ turn' = [turn EXCEPT ![t].got = c]
         /\ last' = IF turn[t].target = "auto" /\ c # None THEN c ELSE last
    /\ Goto(t, "save")
    /\ UNCHANGED <<rows, memory, store, contexts, taken, story, remote, crossing>>

\* It fails, times out or says nothing: the turn is run once more without a context.
RemoteFails(t) ==
    /\ \/ pc[t] = "run" /\ turn[t].target = "auto" /\ Goto(t, "rerun") /\ UNCHANGED turn
       \/ pc[t] = "run" /\ turn[t].target = "seeded_history" /\ Returns(t)
       \/ pc[t] = "rerun" /\ Returns(t)
    /\ UNCHANGED <<rows, memory, store, contexts, taken, story, last, remote, crossing>>

ContextOf(t) == IF turn[t].target = "seeded_history" THEN None
                ELSE IF turn[t].got # None THEN turn[t].got ELSE turn[t].sent

RemoteSaves(t) ==
    /\ pc[t] = "save"
    /\ contexts' = [contexts EXCEPT ![turn[t].target] = ContextOf(t)]
    /\ Goto(t, "plan")
    /\ UNCHANGED <<rows, memory, store, turn, taken, story, last, remote, crossing>>

\* The reply is planned, and the new memory is stored.
TurnStores(t) ==
    /\ pc[t] = "plan"
    /\ \E n \in 0..MaxParts :
         LET kept == IF turn[t].keep THEN memory[turn[t].ref].delivered ELSE <<>>
             plan == [i \in 1..n |-> <<t, i>>]
         IN  /\ n = 0 <=> turn[t].mode = "resume"
             /\ memory' = [memory EXCEPT ![t] =
                    IF n = 0 THEN [delivered |-> kept, queue |-> turn[t].queue]
                    ELSE [delivered |-> Append(kept, Head(plan)), queue |-> Tail(plan)]]
    /\ store' = t
    /\ Goto(t, "write")
    /\ UNCHANGED <<rows, contexts, turn, taken, story, last, remote, crossing>>

\* The pieces a turn tells at once.
Immediate(t) == IF turn[t].mode = "resume" THEN <<>> ELSE <<<<t, 1>>>>

\* The transcript gets them in place of the agent's answer; or the message and the
\* first of them, if the agent was not asked.
TurnWrites(t) ==
    /\ pc[t] = "write"
    /\ rows' = IF turn[t].mode = "core" THEN Rewritten(Immediate(t))
               ELSE rows \o <<Said(t), Told(<<t, Len(Immediate(t))>>)>>
    /\ story' = story \o <<Said(t)>> \o Lines(Immediate(t))
    /\ Returns(t)
    /\ UNCHANGED <<memory, store, contexts, taken, last, remote, crossing>>

-----------------------------------------------------------------------------
(* Polls and the deletion of the session                                   *)

\* The head of the queue is due some seconds after its turn.
PollTakes(p) ==
    /\ pc[p] = "idle" /\ store # None
    /\ memory[store].queue # <<>>
    /\ LET piece == Head(memory[store].queue)
       IN  /\ pc[piece[1]] = "returned"
           /\ memory' = [memory EXCEPT ![store].delivered = Append(@, piece),
                                       ![store].queue = Tail(@)]
           /\ taken' = [taken EXCEPT ![p] = <<store, piece>>]
    /\ Goto(p, "write")
    /\ Begins
    /\ UNCHANGED <<rows, store, contexts, turn, story, last, remote>>

\* All that was delivered from this memory is written as the last answer.
PollWrites(p) ==
    /\ pc[p] = "write"
    /\ rows' = Rewritten(memory[taken[p][1]].delivered)
    /\ store' = taken[p][1]
    /\ story' = Append(story, Told(taken[p][2]))
    /\ taken' = [taken EXCEPT ![p] = <<>>]
    /\ Goto(p, "idle")
    /\ UNCHANGED <<memory, contexts, turn, last, remote, crossing>>

\* DELETE /sessions/<id>: the transcript, the working memory and the contexts.
DeleteRows ==
    /\ pc["delete"] = "idle"
    /\ rows' = <<>> /\ story' = <<>> /\ remote' = FALSE
    /\ Begins
    /\ Goto("delete", "memory")
    /\ UNCHANGED <<memory, store, contexts, turn, taken, last>>
DeleteMemory ==
    /\ pc["delete"] = "memory"
    /\ store' = None
    /\ Goto("delete", "contexts")
    /\ UNCHANGED <<rows, memory, contexts, turn, taken, story, last, remote, crossing>>
DeleteContexts ==
    /\ pc["delete"] = "contexts"
    /\ contexts' = [b \in DOMAIN contexts |-> None] /\ last' = None
    /\ Goto("delete", "returned")
    /\ UNCHANGED <<rows, memory, store, turn, taken, story, remote, crossing>>

Next ==
    \/ \E t \in Turns : \/ TurnDecides(t) \/ AgentAnswers(t)
                        \/ RemoteLooks(t) \/ RemoteAnswers(t) \/ RemoteFails(t)
                        \/ RemoteSaves(t) \/ TurnStores(t) \/ TurnWrites(t)
    \/ \E p \in Pollers : PollTakes(p) \/ PollWrites(p)
    \/ DeleteRows \/ DeleteMemory \/ DeleteContexts

Spec == Init /\ [][Next]_historyVars

-----------------------------------------------------------------------------
(* Properties *)

Quiet == \A c \in Calls : ~Busy(c)

\* Every variable keeps its type.
TypeOK ==
    /\ rows \in Seq(Line) /\ story \in Seq(Line)
    /\ memory \in [Turns \cup {None} -> [delivered : Seq(Pieces), queue : Seq(Pieces)]]
    /\ store \in Turns \cup {None}
    /\ contexts \in [{"auto", "seeded_history"} -> Turns \cup {None}]
    /\ pc \in [Calls -> {"idle", "ask", "look", "run", "rerun", "save", "plan", "write",
                         "memory", "contexts", "returned"}]
    /\ turn \in [Turns -> [target : Targets, mode : {"core", "replan", "resume"},
                           keep : BOOLEAN, ref : Turns \cup {None}, queue : Seq(Pieces),
                           sent : Turns \cup {None}, got : Turns \cup {None}]]
    /\ taken \in [Pollers -> {<<>>} \cup Turns \X Pieces]
    /\ last \in Turns \cup {None}
    /\ remote \in BOOLEAN /\ crossing \in BOOLEAN

\* Where lines of the transcript stand that say something for the first time.
Firsts == {i \in DOMAIN rows : /\ rows[i].kind # "told" \/ rows[i].part # 0
                               /\ \A k \in 1..(i - 1) : rows[k] # rows[i]}

\* Between calls that come one at a time a session continues from what the user has
\* seen.  "That history should reflect the humanized delivered assistant conversation,
\* not raw old core-agent answers": answered by the framework agent, the transcript is
\* what was told, in that order, lines told before aside.  And the context kept for a
\* remote agent is the last one it named, through answers without one, failed attempts
\* and turns of other targets.
SessionContinues ==
    ~crossing /\ Quiet =>
        /\ ~remote =>
              /\ Cardinality(Firsts) = Len(story)
              /\ \A i \in Firsts : rows[i] = story[Cardinality({k \in Firsts : k <= i})]
        /\ contexts["auto"] = last
=============================================================================
