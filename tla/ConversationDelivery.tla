-------------------------- MODULE ConversationDelivery --------------------------
(***************************************************************************)
(* How a reply of classic chat reaches the user in pieces: the working     *)
(* memory of one session in ConversationWrapper, and the three calls that  *)
(* share it.  A turn (handle) lets a model decide what becomes of the      *)
(* queue, plans the new reply and stores a new memory object.  A poll      *)
(* (deliver_next_message) moves the head of the queue to the user.  A pause *)
(* (request_manual_pause) stops that until the next turn.                  *)
(*                                                                         *)
(* The store hands out references: a call keeps working on the object it   *)
(* got, and saves it back, although another call has stored a new one.     *)
(* Calls run in threads, no lock is taken, and a turn spends seconds in    *)
(* model calls between reading the memory and replacing it.                *)
(***************************************************************************)
EXTENDS Naturals, Sequences, FiniteSets

CONSTANTS
    Turns,     \* messages of the user; each has at most one plan and one memory
    Pollers,   \* loops that poll next-message, one call at a time each
    Pausers,   \* presses of the pause button
    MaxParts,  \* bound: pieces of a plan
    Blank      \* what get() returns for a session without memory

DeliveryAssumption ==
    /\ MaxParts \in Nat \ {0}
    /\ Turns \cap Pollers = {} /\ Turns \cap Pausers = {} /\ Pollers \cap Pausers = {}
    /\ Blank \notin Turns \cup Pollers \cup Pausers

Calls == Turns \cup Pollers \cup Pausers
Memories == Turns \cup Pausers \cup {Blank}
Pieces == Turns \X (1..MaxParts)

VARIABLES
    store,      \* the memory object the state store has for the session
    pending,    \* pending_messages of each object
    delivered,  \* delivered_messages of each object
    paused,     \* manual_pause_requested of each object
    pc,         \* where each call is
    ref,        \* the object each call got
    snapshot,   \* the queue a turn copied when it began
    mode,       \* what its decision comes to
    keep,       \* preserve_delivered_messages of its decision
    head,       \* the piece a poll is about to deliver
    size,       \* history: pieces of each turn's plan
    told,       \* history: pieces of each turn's plan stored as messages to the user
    owner,      \* history: the turn whose plan the session is in
    hushed,     \* history: a pause returned and no turn began since
    overlaps    \* history: the kinds of calls that have overlapped

memory == <<store, pending, delivered, paused>>
locals == <<ref, snapshot, mode, keep, head>>
history == <<size, told, owner, hushed, overlaps>>
vars == <<memory, pc, locals, history>>

\* Every variable keeps its type.
TypeOK ==
    /\ store \in Memories
    /\ pending \in [Memories -> Seq(Pieces)]
    /\ delivered \in [Memories -> Seq(Pieces)]
    /\ paused \in [Memories -> BOOLEAN]
    /\ pc \in [Calls -> {"idle", "decide", "plan", "save", "tell", "check", "take",
                         "returned"}]
    /\ ref \in [Calls -> Memories]
    /\ snapshot \in [Turns -> Seq(Pieces)]
    /\ mode \in [Turns -> {"none", "resume", "replan", "reset"}]
    /\ keep \in [Turns -> BOOLEAN]
    /\ head \in [Pollers -> Seq(Pieces)]
    /\ size \in [Turns -> 0..MaxParts]
    /\ told \in [Turns -> Seq(1..MaxParts)]
    /\ owner \in Turns \cup {Blank}
    /\ hushed \in BOOLEAN
    /\ overlaps \subseteq {"polls", "others"}

Init ==
    /\ store = Blank
    /\ pending = [o \in Memories |-> <<>>]
    /\ delivered = [o \in Memories |-> <<>>]
    /\ paused = [o \in Memories |-> FALSE]
    /\ pc = [c \in Calls |-> "idle"]
    /\ ref = [c \in Calls |-> Blank]
    /\ snapshot = [t \in Turns |-> <<>>]
    /\ mode = [t \in Turns |-> "none"]
    /\ keep = [t \in Turns |-> FALSE]
    /\ head = [p \in Pollers |-> <<>>]
    /\ size = [t \in Turns |-> 0]
    /\ told = [t \in Turns |-> <<>>]
    /\ owner = Blank
    /\ hushed = FALSE
    /\ overlaps = {}

-----------------------------------------------------------------------------
Goto(c, there) == pc' = [pc EXCEPT ![c] = there]
Busy(c) == pc[c] \notin {"idle", "returned"}

\* Bookkeeping of the history variable overlaps when call c begins.
Begin(c) ==
    overlaps' = overlaps \cup
        {IF {c, d} \subseteq Pollers THEN "polls" ELSE "others" :
            d \in {e \in Calls \ {c} : Busy(e)}}

-----------------------------------------------------------------------------
(* A turn                                                                  *)

\* handle: state_store.get, and a copy of the queue.
TurnReads(t) ==
    /\ pc[t] = "idle"
    /\ ref' = [ref EXCEPT ![t] = store]
    /\ snapshot' = [snapshot EXCEPT ![t] = pending[store]]
    /\ hushed' = FALSE
    /\ Begin(t)
    /\ Goto(t, "decide")
    /\ UNCHANGED <<memory, mode, keep, head, size, told, owner>>

\* The wrapper cannot be set up: the session's memory is cleared, and the reply
\* is an error message.
TurnFails(t) ==
    /\ pc[t] = "idle"
    /\ store' = Blank
    /\ owner' = Blank
    /\ hushed' = FALSE
    /\ Begin(t)
    /\ Goto(t, "returned")
    /\ UNCHANGED <<pending, delivered, paused, locals, size, told>>

\* No model to plan with, or nothing to plan: the reply, or an error message, is
\* stored whole, and the memory stays as it is.
TurnPasses(t) ==
    /\ pc[t] = "idle"
    /\ hushed' = FALSE
    /\ Begin(t)
    /\ Goto(t, "returned")
    /\ UNCHANGED <<memory, locals, size, told, owner>>

Decisions ==
    [type: {"ack_continue", "adapt_remaining", "adapt_remaining_with_core",
            "reset_and_new_query"},
     same: BOOLEAN, core: BOOLEAN, clear: BOOLEAN, delivered: BOOLEAN, pending: BOOLEAN]
NewTopic ==
    [type |-> "reset_and_new_query", same |-> FALSE, core |-> TRUE, clear |-> TRUE,
     delivered |-> FALSE, pending |-> FALSE]
FollowUp ==
    [type |-> "adapt_remaining", same |-> TRUE, core |-> TRUE, clear |-> FALSE,
     delivered |-> TRUE, pending |-> FALSE]

\* A memory has a topic and a response if a turn made it.
Answered(o) == o \in Turns

\* _normalize_wm_decision: what may become of decision d, depending on wording.
Normalized(d, o) ==
    LET newTopic == Answered(o) /\ (d.same \/ d.type # "reset_and_new_query")
        nothingToContinue == d.type = "ack_continue" /\ pending[o] = <<>>
    IN  (IF newTopic THEN {NewTopic} ELSE {})
          \cup (IF nothingToContinue THEN {FollowUp} ELSE {})
          \cup (IF nothingToContinue /\ d.pending THEN {} ELSE {d})

ModeOf(d, o) ==
    CASE d.clear -> "reset"
      [] /\ d.type = "ack_continue" /\ d.same /\ d.pending
         /\ ~d.core /\ Answered(o) -> "resume"
      [] OTHER -> "replan"

\* The working-memory model answers, whatever it likes, or the fallback does.
TurnDecides(t) ==
    /\ pc[t] = "decide"
    /\ \E d \in Decisions : \E e \in Normalized(d, ref[t]) :
         /\ mode' = [mode EXCEPT ![t] = ModeOf(e, ref[t])]
         /\ keep' = [keep EXCEPT ![t] = e.delivered]
    /\ Goto(t, "plan")
    /\ UNCHANGED <<memory, ref, snapshot, head, history>>

Prior_Uncleared(t) == ref[t]   \* slip: clear_working_memory is not looked at
Prior(t) == IF mode[t] = "reset" THEN Blank ELSE ref[t]

\* slip: one piece more than the planner may hand out
Plan_OneMore(t, n) == [i \in 1..(n + 1) |-> <<t, i>>]
Plan(t, n) == [i \in 1..n |-> <<t, i>>]

\* slip: the queue is not carried over to the new memory
Queued_Dropped(t, n) == IF n = 0 THEN <<>> ELSE Tail(Plan(t, n))
\* slip: the first queued piece is popped although there is an immediate one
Queued_Popped(t, n) == IF n = 0 THEN snapshot[t] ELSE SubSeq(Plan(t, n), 3, n)
\* A turn without a plan of its own keeps the queue it copied.
Queued(t, n) == IF n = 0 THEN snapshot[t] ELSE Tail(Plan(t, n))

\* The planner answers and the new memory is put together.
TurnPlans(t) ==
    /\ pc[t] = "plan"
    /\ \E n \in 0..MaxParts :
         /\ n = 0 <=> mode[t] = "resume"
         /\ size' = [size EXCEPT ![t] = n]
         /\ pending' = [pending EXCEPT ![t] = Queued(t, n)]
         /\ delivered' = [delivered EXCEPT ![t] =
                (IF keep[t] THEN delivered[Prior(t)] ELSE <<>>)
                  \o (IF n = 0 THEN <<>> ELSE <<Head(Plan(t, n))>>)]
    /\ Goto(t, "save")
    /\ UNCHANGED <<store, paused, locals, told, owner, hushed, overlaps>>

TurnSaves(t) ==
    /\ pc[t] = "save"
    /\ store' = t
    /\ owner' = IF mode[t] = "resume" THEN owner ELSE t
    /\ Goto(t, "tell")
    /\ UNCHANGED <<pending, delivered, paused, locals, size, told, hushed, overlaps>>

\* The immediate piece is stored as a message, and the call returns.  A turn without
\* a plan stores its reply whole: that is no piece of a plan.
TurnTells(t) ==
    /\ pc[t] = "tell"
    /\ told' = IF mode[t] = "resume" THEN told ELSE [told EXCEPT ![t] = Append(@, 1)]
    /\ ref' = [ref EXCEPT ![t] = Blank]
    /\ snapshot' = [snapshot EXCEPT ![t] = <<>>]
    /\ keep' = [keep EXCEPT ![t] = FALSE]
    /\ Goto(t, "returned")
    /\ UNCHANGED <<memory, mode, head, size, owner, hushed, overlaps>>

-----------------------------------------------------------------------------
(* A poll                                                                  *)

PollGets(p) ==
    /\ pc[p] = "idle"
    /\ ref' = [ref EXCEPT ![p] = store]
    /\ Begin(p)
    /\ Goto(p, "check")
    /\ UNCHANGED <<memory, snapshot, mode, keep, head, size, told, owner, hushed>>

PollReturns(p) ==
    /\ ref' = [ref EXCEPT ![p] = Blank]
    /\ head' = [head EXCEPT ![p] = <<>>]
    /\ Goto(p, "idle")

Paused_Ignored(o) == FALSE   \* slip: the pause is not looked at
Paused(o) == paused[o]

\* available_at lies the delay (5 s) after the plan: the turn has returned by then.
Due(piece) == pc[piece[1]] = "returned"

PollChecks(p) ==
    /\ pc[p] = "check"
    /\ \/ /\ ~Paused(ref[p]) /\ pending[ref[p]] # <<>> /\ Due(Head(pending[ref[p]]))
          /\ head' = [head EXCEPT ![p] = <<Head(pending[ref[p]])>>]
          /\ Goto(p, "take")
          /\ UNCHANGED ref
       \/ PollReturns(p)   \* paused, nothing pending, or too early
    /\ UNCHANGED <<memory, snapshot, mode, keep, history>>

Rest(queue) == Tail(queue)

\* pop(0) raises if another poll has taken the last piece meanwhile.
PollTakes(p) ==
    /\ pc[p] = "take"
    /\ delivered' = [delivered EXCEPT ![ref[p]] = @ \o head[p]]
    /\ \/ /\ pending[ref[p]] # <<>>
          /\ pending' = [pending EXCEPT ![ref[p]] = Rest(@)]
          /\ Goto(p, "save")
          /\ UNCHANGED <<ref, head>>
       \/ /\ pending[ref[p]] = <<>>
          /\ PollReturns(p)
          /\ UNCHANGED pending
    /\ UNCHANGED <<store, paused, snapshot, mode, keep, history>>

PollSaves(p) ==
    /\ pc[p] = "save"
    /\ store' = ref[p]
    /\ Goto(p, "tell")
    /\ UNCHANGED <<pending, delivered, paused, locals, history>>

PollTells(p) ==
    /\ pc[p] = "tell"
    /\ told' = [told EXCEPT ![head[p][1][1]] = Append(@, head[p][1][2])]
    /\ PollReturns(p)
    /\ UNCHANGED <<memory, snapshot, mode, keep, size, owner, hushed, overlaps>>

-----------------------------------------------------------------------------
(* A pause                                                                 *)

\* mark_manual_pause: a session without memory gets one.
PauseMarks(u) ==
    /\ pc[u] = "idle"
    /\ LET o == IF store = Blank THEN u ELSE store
       IN  /\ ref' = [ref EXCEPT ![u] = o]
           /\ paused' = [paused EXCEPT ![o] = TRUE]
    /\ Begin(u)
    /\ Goto(u, "save")
    /\ UNCHANGED <<store, pending, delivered, snapshot, mode, keep, head,
                   size, told, owner, hushed>>

PauseSaves(u) ==
    /\ pc[u] = "save"
    /\ store' = ref[u]
    /\ hushed' = TRUE
    /\ Goto(u, "returned")
    /\ UNCHANGED <<pending, delivered, paused, locals, size, told, owner, overlaps>>

-----------------------------------------------------------------------------
Next ==
    \/ \E t \in Turns :
         \/ TurnReads(t) \/ TurnFails(t) \/ TurnPasses(t)
         \/ TurnDecides(t) \/ TurnPlans(t) \/ TurnSaves(t) \/ TurnTells(t)
    \/ \E p \in Pollers :
         PollGets(p) \/ PollChecks(p) \/ PollTakes(p) \/ PollSaves(p) \/ PollTells(p)
    \/ \E u \in Pausers : PauseMarks(u) \/ PauseSaves(u)

Spec == Init /\ [][Next]_vars

-----------------------------------------------------------------------------
(* Properties                                                              *)

Quiet == \A c \in Calls : ~Busy(c)

\* "reset_and_new_query clears prior pending state": a memory made by a turn that
\* clears the old one holds pieces of that turn only, whatever overlaps.
ResetForgets ==
    \A t \in Turns : mode[t] = "reset" =>
        /\ \A i \in DOMAIN pending[t] : pending[t][i][1] = t
        /\ \A i \in DOMAIN delivered[t] : delivered[t][i][1] = t

\* The pieces of a reply are told in order and without a gap while no two polls
\* overlap, whatever turns and pauses come between; a piece may come twice.
NoPieceSkipped ==
    "polls" \notin overlaps =>
        \A t \in Turns : \A j \in DOMAIN told[t] :
            \A i \in 1..(told[t][j] - 1) : \E k \in 1..(j - 1) : told[t][k] = i

\* While calls come one at a time, each piece of a reply is told at most once and in
\* order, and what was told and what is queued make up the whole of the reply the
\* session is in: an acknowledgement, a pause or a poll loses nothing of it.
NothingLost ==
    overlaps = {} =>
        /\ \A t \in Turns : told[t] = [j \in DOMAIN told[t] |-> j]
        /\ Quiet /\ owner # Blank =>
              told[owner] \o [i \in DOMAIN pending[store] |-> pending[store][i][2]]
                  = [j \in 1..size[owner] |-> j]

\* "When paused, deliver_next_message will return {"status": "paused"} until a new
\* interaction resumes the flow", while calls come one at a time.
PauseHolds == [][overlaps' = {} /\ hushed => told' = told]_vars

\* "already delivered messages are never re-delivered".
NeverRedelivered ==
    \A t \in Turns : \A j, k \in DOMAIN told[t] : told[t][j] = told[t][k] => j = k

=============================================================================
