------------------------------- MODULE EventBus -------------------------------
(***************************************************************************)
(* _EventBus and /api/stream: how a browser learns that the store changed. *)
(* A patched store call commits its change and then publishes an event; the *)
(* bus puts it into the bounded queue of every subscriber and forgets the  *)
(* subscribers whose queue is full.  The page refetches after an event.    *)
(***************************************************************************)
EXTENDS Naturals, Sequences

CONSTANTS
    Clients,    \* pages with an /api/stream connection
    Writers,    \* threads that change the store
    Capacity,   \* maxsize of a client's queue, 256 in the code
    MaxChanges  \* bound: changes in a run

EventBusAssumption == Capacity \in Nat \ {0} /\ MaxChanges \in Nat

VARIABLES
    version,    \* number of changes committed to the store
    committed,  \* the change each writer committed and has yet to publish, or 0
    published,  \* history: the events published, by the change they announce
    listed,     \* _subscribers
    stream,     \* whether each client's connection is open
    queue,      \* the queue of each client's connection
    joined,     \* history: events published before the client subscribed
    taken,      \* history: events the client has received since
    armed,      \* the page's refresh timer is set
    seen        \* version of the store at the page's last fetch

vars == <<version, committed, published, listed, stream, queue, joined, taken,
          armed, seen>>

\* Every variable keeps its type.
TypeOK ==
    /\ version \in 0..MaxChanges
    /\ committed \in [Writers -> 0..MaxChanges]
    /\ published \in Seq(1..MaxChanges)
    /\ listed \subseteq Clients
    /\ stream \in [Clients -> {"closed", "open"}]
    /\ queue \in [Clients -> Seq(1..MaxChanges)]
    /\ \A c \in Clients : Len(queue[c]) <= Capacity
    /\ joined \in [Clients -> Nat] /\ taken \in [Clients -> Nat]
    /\ armed \in [Clients -> BOOLEAN]
    /\ seen \in [Clients -> 0..MaxChanges]

Init ==
    /\ version = 0
    /\ committed = [w \in Writers |-> 0]
    /\ published = <<>>
    /\ listed = {}
    /\ stream = [c \in Clients |-> "closed"]
    /\ queue = [c \in Clients |-> <<>>]
    /\ joined = [c \in Clients |-> 0]
    /\ taken = [c \in Clients |-> 0]
    /\ armed = [c \in Clients |-> FALSE]
    /\ seen = [c \in Clients |-> 0]

-----------------------------------------------------------------------------
Commit(w) ==
    /\ version < MaxChanges
    /\ committed[w] = 0
    /\ version' = version + 1
    /\ committed' = [committed EXCEPT ![w] = version + 1]
    /\ UNCHANGED <<published, listed, stream, queue, joined, taken, armed, seen>>

\* slip: a full queue loses the event and the client stays subscribed
Dropped_None(full) == {}
\* A subscriber whose queue is full is removed.
Dropped(full) == full

Full == {c \in listed : Len(queue[c]) >= Capacity}

\* One publish call; the bus lock makes it atomic.
Publish(w) ==
    /\ committed[w] # 0
    /\ published' = Append(published, committed[w])
    /\ queue' = [c \in Clients |->
                   IF c \in listed \ Full THEN Append(queue[c], committed[w]) ELSE queue[c]]
    /\ listed' = listed \ Dropped(Full)
    /\ committed' = [committed EXCEPT ![w] = 0]
    /\ UNCHANGED <<version, stream, joined, taken, armed, seen>>

\* The response generator subscribes; the page does not fetch on "connected".
Connect(c) ==
    /\ stream[c] = "closed"
    /\ stream' = [stream EXCEPT ![c] = "open"]
    /\ listed' = listed \cup {c}
    /\ queue' = [queue EXCEPT ![c] = <<>>]
    /\ joined' = [joined EXCEPT ![c] = Len(published)]
    /\ taken' = [taken EXCEPT ![c] = 0]
    /\ UNCHANGED <<version, committed, published, armed, seen>>

Disconnect(c) ==
    /\ stream[c] = "open"
    /\ stream' = [stream EXCEPT ![c] = "closed"]
    /\ listed' = listed \ {c}
    /\ UNCHANGED <<version, committed, published, queue, joined, taken, armed, seen>>

\* slip: a second event during the wait cancels the refresh
Arm_Toggle(c) == ~armed[c]
Arm(c) == TRUE

\* The stream delivers an event: scheduleSSERefresh sets the timer, unless set.
Take(c) ==
    /\ stream[c] = "open"
    /\ queue[c] # <<>>
    /\ queue' = [queue EXCEPT ![c] = Tail(@)]
    /\ taken' = [taken EXCEPT ![c] = @ + 1]
    /\ armed' = [armed EXCEPT ![c] = Arm(c)]
    /\ UNCHANGED <<version, committed, published, listed, stream, joined, seen>>

\* The timer fires: the page fetches what the store has by then.
Refresh(c) ==
    /\ armed[c]
    /\ armed' = [armed EXCEPT ![c] = FALSE]
    /\ seen' = [seen EXCEPT ![c] = version]
    /\ UNCHANGED <<version, committed, published, listed, stream, queue, joined, taken>>

Next ==
    \/ \E w \in Writers : Commit(w) \/ Publish(w)
    \/ \E c \in Clients : Connect(c) \/ Disconnect(c) \/ Take(c) \/ Refresh(c)

Spec == Init /\ [][Next]_vars

\* A writer publishes after its commit, an open stream is read, a timer fires.
Fairness ==
    /\ \A w \in Writers : WF_vars(Publish(w))
    /\ \A c \in Clients : WF_vars(Take(c)) /\ WF_vars(Refresh(c))

FairSpec == Spec /\ Fairness

-----------------------------------------------------------------------------
(* Properties                                                              *)

\* What an open connection received and will receive is a gap-free stretch of
\* the events from its subscription on; while it is subscribed, all of them.
NoGaps ==
    \A c \in Clients : stream[c] = "open" =>
        LET from == joined[c] + taken[c]
        IN  /\ queue[c] = SubSeq(published, from + 1, from + Len(queue[c]))
            /\ c \in listed => from + Len(queue[c]) = Len(published)

\* A change committed while a client is subscribed reaches its page, unless the
\* client is removed first.
ChangeReachesPage ==
    \A c \in Clients, v \in 1..MaxChanges :
        (c \in listed /\ \E w \in Writers : committed[w] = v)
            ~> (seen[c] >= v \/ c \notin listed)

\* "pushes lightweight change notifications to the browser": a change committed
\* while the stream is open reaches the page, unless the stream closes.
OpenStreamDelivers ==
    \A c \in Clients, v \in 1..MaxChanges :
        (stream[c] = "open" /\ \E w \in Writers : committed[w] = v)
            ~> (seen[c] >= v \/ stream[c] = "closed")

=============================================================================
