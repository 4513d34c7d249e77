--------------------------- MODULE MCWebProcessProofs ---------------------------
(***************************************************************************)
(* What the runs of MCWebProcess check on small sets, for all: the theorems *)
(* about tasks carried over to the sum, and the event bus, for any pages,  *)
(* writers, capacity and number of changes.                                *)
(***************************************************************************)
EXTENDS MCWebProcess, TaskStoryProofs, SequenceTheorems

\* The calls of the web process are those of TaskLifecycle: every theorem about
\* its specification is one about the sum.
THEOREM TasksInWeb == WebSpec => Spec
<1>1. WebInit => Init
  BY DEF WebInit
<1>2. [WebNext]_<<part, vars, busVars>> => [Next]_vars
  BY DEF WebNext
<1> QED
  BY <1>1, <1>2, PTL DEF WebSpec, Spec

-----------------------------------------------------------------------------
(* The event bus *)

\* What the bus keeps of the types.
BusTyped ==
    /\ version \in Nat /\ committed \in [Writers -> Nat] /\ published \in Seq(Nat)
    /\ queue \in [Clients -> Seq(Nat)]
    /\ joined \in [Clients -> Nat] /\ taken \in [Clients -> Nat]
    /\ stream \in [Clients -> {"closed", "open"}]

\* The queue q holds the events of p that follow the first n.
Follows(q, p, n) ==
    n + Len(q) <= Len(p) /\ \A i \in 1..Len(q) : q[i] = p[n + i]

\* NoGaps event by event: no queue is ahead of the bus.
Stretch(c) ==
    /\ Follows(queue[c], published, joined[c] + taken[c])
    /\ c \in listed => joined[c] + taken[c] + Len(queue[c]) = Len(published)

BusInv == BusTyped /\ \A c \in Clients : stream[c] = "open" => Stretch(c)

LEMMA BusInit == Bus!Init => BusInv
<1> SUFFICES ASSUME Bus!Init PROVE BusInv
  OBVIOUS
<1>1. BusTyped
  BY DEF Bus!Init, BusTyped
<1>2. \A c \in Clients : stream[c] = "closed"
  BY DEF Bus!Init
<1> QED
  BY <1>1, <1>2 DEF BusInv

-----------------------------------------------------------------------------
(* Queues and the events they follow *)

LEMMA BusAppend ==
    ASSUME NEW s \in Seq(Nat), NEW e \in Nat
    PROVE  /\ Append(s, e) \in Seq(Nat) /\ Len(Append(s, e)) = Len(s) + 1
           /\ \A i \in 1..Len(s) : Append(s, e)[i] = s[i]
           /\ Append(s, e)[Len(s) + 1] = e
BY AppendProperties

\* One more event leaves a queue where it was.
LEMMA FollowsLonger ==
    ASSUME NEW q \in Seq(Nat), NEW p \in Seq(Nat), NEW n \in Nat, NEW e \in Nat,
           Follows(q, p, n)
    PROVE  Follows(q, Append(p, e), n)
<1>1. Len(q) \in Nat /\ Len(p) \in Nat
  OBVIOUS
<1>2. /\ Len(Append(p, e)) = Len(p) + 1
      /\ \A i \in 1..Len(p) : Append(p, e)[i] = p[i]
  BY BusAppend
<1>3. \A i \in 1..Len(q) : n + i \in 1..Len(p)
  BY <1>1 DEF Follows
<1> QED
  BY <1>1, <1>2, <1>3 DEF Follows

\* A queue that is up to date and gets the event stays so.
LEMMA FollowsBoth ==
    ASSUME NEW q \in Seq(Nat), NEW p \in Seq(Nat), NEW n \in Nat, NEW e \in Nat,
           Follows(q, p, n), n + Len(q) = Len(p)
    PROVE  /\ Follows(Append(q, e), Append(p, e), n)
           /\ n + Len(Append(q, e)) = Len(Append(p, e))
<1>1. /\ Len(Append(q, e)) = Len(q) + 1 /\ Len(q) \in Nat /\ Len(p) \in Nat
      /\ \A i \in 1..Len(q) : Append(q, e)[i] = q[i]
      /\ Append(q, e)[Len(q) + 1] = e
  BY BusAppend
<1>2. /\ Len(Append(p, e)) = Len(p) + 1 /\ Append(p, e)[Len(p) + 1] = e
      /\ \A i \in 1..Len(q) : Append(p, e)[n + i] = q[i]
  BY BusAppend, FollowsLonger DEF Follows
<1>3. n + (Len(q) + 1) = Len(p) + 1
  BY <1>1
<1>4. ASSUME NEW i \in 1..(Len(q) + 1) PROVE Append(q, e)[i] = Append(p, e)[n + i]
  <2>1. CASE i = Len(q) + 1
    BY <1>1, <1>2, <1>3, <2>1
  <2>2. CASE i # Len(q) + 1
    <3>1. i \in 1..Len(q)
      BY <1>1, <2>2
    <3> QED
      BY <1>1, <1>2, <3>1
  <2> QED
    BY <2>1, <2>2
<1>5. n + Len(Append(q, e)) = Len(Append(p, e))
  BY <1>1, <1>2, <1>3
<1>6. \A i \in 1..Len(Append(q, e)) : Append(q, e)[i] = Append(p, e)[n + i]
  BY <1>1, <1>4
<1>7. n + Len(Append(q, e)) <= Len(Append(p, e))
  BY <1>1, <1>2, <1>3
<1> QED
  BY <1>5, <1>6, <1>7 DEF Follows

\* The first event is taken.
LEMMA FollowsTail ==
    ASSUME NEW q \in Seq(Nat), NEW p \in Seq(Nat), NEW n \in Nat, q # <<>>, Follows(q, p, n)
    PROVE  /\ Follows(Tail(q), p, n + 1) /\ n + 1 + Len(Tail(q)) = n + Len(q)
           /\ Tail(q) \in Seq(Nat)
<1>1. /\ Tail(q) \in Seq(Nat) /\ Len(Tail(q)) = Len(q) - 1 /\ Len(q) \in Nat
      /\ \A i \in 1..Len(Tail(q)) : Tail(q)[i] = q[i + 1]
  BY HeadTailProperties
<1>2. n + 1 + (Len(q) - 1) = n + Len(q)
  BY <1>1
<1>3. ASSUME NEW i \in 1..(Len(q) - 1) PROVE q[i + 1] = p[n + 1 + i]
  <2>1. i + 1 \in 1..Len(q) /\ n + (i + 1) = n + 1 + i
    BY <1>1
  <2> QED
    BY <2>1 DEF Follows
<1> QED
  BY <1>1, <1>2, <1>3 DEF Follows

\* What follows is a stretch of the events.
LEMMA FollowsSubSeq ==
    ASSUME NEW q \in Seq(Nat), NEW p \in Seq(Nat), NEW n \in Nat, Follows(q, p, n)
    PROVE  q = SubSeq(p, n + 1, n + Len(q))
<1>1. Len(q) \in Nat /\ n + Len(q) \in Int /\ n + 1 \in Int
  OBVIOUS
<1>2. \A i \in (n + 1)..(n + Len(q)) : p[i] \in Nat
  <2>1. \A i \in (n + 1)..(n + Len(q)) : i \in 1..Len(p)
    BY <1>1 DEF Follows
  <2> QED
    BY <2>1, ElementOfSeq
<1>3. /\ SubSeq(p, n + 1, n + Len(q)) \in Seq(Nat)
      /\ Len(SubSeq(p, n + 1, n + Len(q))) =
           IF n + 1 <= n + Len(q) THEN n + Len(q) - (n + 1) + 1 ELSE 0
      /\ \A i \in 1..(n + Len(q) - (n + 1) + 1) :
           SubSeq(p, n + 1, n + Len(q))[i] = p[n + 1 + i - 1]
  BY <1>1, <1>2, SubSeqProperties
<1>4. n + Len(q) - (n + 1) + 1 = Len(q) /\ \A i \in Nat : n + 1 + i - 1 = n + i
  BY <1>1
<1>5. Len(SubSeq(p, n + 1, n + Len(q))) = Len(q)
  BY <1>1, <1>3
<1>6. \A i \in 1..Len(q) : SubSeq(p, n + 1, n + Len(q))[i] = q[i]
  BY <1>1, <1>3, <1>4 DEF Follows
<1> QED
  BY <1>3, <1>5, <1>6, SeqEqual

-----------------------------------------------------------------------------
(* The steps of the bus *)

LEMMA PublishKeeps ==
    ASSUME BusInv, NEW w \in Writers, Bus!Publish(w)
    PROVE  BusInv'
<1> DEFINE e == committed[w]
<1>1. /\ e \in Nat /\ published' = Append(published, e)
      /\ queue' = [c \in Clients |-> IF c \in listed \ Bus!Full
                                     THEN Append(queue[c], e) ELSE queue[c]]
      /\ listed' = listed \ Bus!Full
      /\ committed' = [committed EXCEPT ![w] = 0]
      /\ UNCHANGED <<version, stream, joined, taken>>
  BY DEF Bus!Publish, Bus!Dropped, BusInv, BusTyped
<1> HIDE DEF e
<1>2. BusTyped'
  <2>1. queue' \in [Clients -> Seq(Nat)]
    BY <1>1, BusAppend DEF BusInv, BusTyped
  <2>2. published' \in Seq(Nat)
    BY <1>1, BusAppend DEF BusInv, BusTyped
  <2> QED
    BY <1>1, <2>1, <2>2 DEF BusInv, BusTyped
<1>3. ASSUME NEW c \in Clients, stream'[c] = "open" PROVE Stretch(c)'
  <2>1. /\ Stretch(c) /\ queue[c] \in Seq(Nat) /\ published \in Seq(Nat)
        /\ joined[c] + taken[c] \in Nat
    BY <1>1, <1>3 DEF BusInv, BusTyped
  <2>2. CASE c \in listed \ Bus!Full
    <3>1. queue'[c] = Append(queue[c], e)
      BY <1>1, <2>2
    <3> QED
      BY <1>1, <2>1, <2>2, <3>1, FollowsBoth DEF Stretch
  <2>3. CASE c \notin listed \ Bus!Full
    <3>1. queue'[c] = queue[c] /\ c \notin listed'
      BY <1>1, <2>3
    <3> QED
      BY <1>1, <2>1, <3>1, FollowsLonger DEF Stretch
  <2> QED
    BY <2>2, <2>3
<1> QED
  BY <1>2, <1>3 DEF BusInv

LEMMA TakeKeeps ==
    ASSUME BusInv, NEW d \in Clients, Bus!Take(d)
    PROVE  BusInv'
<1>1. /\ queue[d] # <<>> /\ queue' = [queue EXCEPT ![d] = Tail(queue[d])]
      /\ taken' = [taken EXCEPT ![d] = taken[d] + 1]
      /\ UNCHANGED <<version, committed, published, listed, stream, joined>>
  BY DEF Bus!Take
<1>2. BusTyped'
  <2>1. Tail(queue[d]) \in Seq(Nat)
    BY <1>1, HeadTailProperties DEF BusInv, BusTyped
  <2>2. queue' \in [Clients -> Seq(Nat)] /\ taken' \in [Clients -> Nat]
    BY <1>1, <2>1 DEF BusInv, BusTyped
  <2> QED
    BY <1>1, <2>2 DEF BusInv, BusTyped
<1>3. ASSUME NEW c \in Clients, stream'[c] = "open" PROVE Stretch(c)'
  <2>1. Stretch(c) /\ queue[c] \in Seq(Nat) /\ joined[c] \in Nat /\ taken[c] \in Nat
        /\ published \in Seq(Nat)
    BY <1>1, <1>3 DEF BusInv, BusTyped
  <2>2. CASE c = d
    <3>1. queue'[c] = Tail(queue[c]) /\ taken'[c] = taken[c] + 1
      BY <1>1, <2>2 DEF BusInv, BusTyped
    <3>2. /\ joined[c] + (taken[c] + 1) = joined[c] + taken[c] + 1
          /\ joined[c] + taken[c] \in Nat
      BY <2>1
    <3>3. /\ Follows(Tail(queue[c]), published, joined[c] + taken[c] + 1)
          /\ joined[c] + taken[c] + 1 + Len(Tail(queue[c])) = joined[c] + taken[c] + Len(queue[c])
      BY <1>1, <2>1, <2>2, <3>2, FollowsTail DEF Stretch
    <3> QED
      BY <1>1, <2>1, <3>1, <3>2, <3>3 DEF Stretch
  <2>3. CASE c # d
    <3>1. queue'[c] = queue[c] /\ taken'[c] = taken[c]
      BY <1>1, <2>3 DEF BusInv, BusTyped
    <3> QED
      BY <1>1, <2>1, <3>1 DEF Stretch
  <2> QED
    BY <2>2, <2>3
<1> QED
  BY <1>2, <1>3 DEF BusInv

LEMMA ConnectKeeps ==
    ASSUME BusInv, NEW d \in Clients, Bus!Connect(d)
    PROVE  BusInv'
<1>1. /\ listed' = listed \cup {d} /\ queue' = [queue EXCEPT ![d] = <<>>]
      /\ joined' = [joined EXCEPT ![d] = Len(published)] /\ taken' = [taken EXCEPT ![d] = 0]
      /\ stream' = [stream EXCEPT ![d] = "open"]
      /\ UNCHANGED <<version, committed, published>>
  BY DEF Bus!Connect
<1>2. BusTyped'
  BY <1>1 DEF BusInv, BusTyped
<1>3. ASSUME NEW c \in Clients, stream'[c] = "open" PROVE Stretch(c)'
  <2>1. CASE c = d
    <3>1. queue'[c] = <<>> /\ joined'[c] = Len(published) /\ taken'[c] = 0
          /\ Len(published) \in Nat
      BY <1>1, <2>1 DEF BusInv, BusTyped
    <3> QED
      BY <1>1, <3>1 DEF Stretch, Follows
  <2>2. CASE c # d
    <3>1. /\ queue'[c] = queue[c] /\ taken'[c] = taken[c] /\ joined'[c] = joined[c]
          /\ stream'[c] = stream[c] /\ (c \in listed' <=> c \in listed)
      BY <1>1, <2>2 DEF BusInv, BusTyped
    <3> QED
      BY <1>1, <1>3, <3>1 DEF BusInv, Stretch
  <2> QED
    BY <2>1, <2>2
<1> QED
  BY <1>2, <1>3 DEF BusInv

LEMMA BusStep == BusInv /\ [Bus!Next]_busVars => BusInv'
<1> SUFFICES ASSUME BusInv, [Bus!Next]_busVars PROVE BusInv'
  OBVIOUS
<1>1. ASSUME NEW w \in Writers, Bus!Commit(w) PROVE BusInv'
  <2>1. UNCHANGED <<published, listed, stream, queue, joined, taken>>
    BY <1>1 DEF Bus!Commit
  <2>2. BusTyped'
    BY <1>1, <2>1 DEF Bus!Commit, BusInv, BusTyped
  <2> QED
    BY <2>1, <2>2 DEF BusInv, Stretch
<1>2. ASSUME NEW w \in Writers, Bus!Publish(w) PROVE BusInv'
  BY <1>2, PublishKeeps
<1>3. ASSUME NEW c \in Clients, Bus!Connect(c) PROVE BusInv'
  BY <1>3, ConnectKeeps
<1>4. ASSUME NEW d \in Clients, Bus!Disconnect(d) PROVE BusInv'
  <2>1. /\ UNCHANGED <<version, committed, published, queue, joined, taken>>
        /\ listed' = listed \ {d} /\ stream' = [stream EXCEPT ![d] = "closed"]
    BY <1>4 DEF Bus!Disconnect
  <2>2. BusTyped' /\ \A c \in Clients : stream'[c] = "open" => stream[c] = "open"
    BY <2>1 DEF BusInv, BusTyped
  <2> QED
    BY <2>1, <2>2 DEF BusInv, Stretch
<1>5. ASSUME NEW c \in Clients, Bus!Take(c) PROVE BusInv'
  BY <1>5, TakeKeeps
<1>6. ASSUME NEW c \in Clients, Bus!Refresh(c) PROVE BusInv'
  BY <1>6 DEF Bus!Refresh, BusInv, BusTyped, Stretch
<1>7. CASE UNCHANGED busVars
  BY <1>7 DEF busVars, BusInv, BusTyped, Stretch
<1> QED
  BY <1>1, <1>2, <1>3, <1>4, <1>5, <1>6, <1>7 DEF Bus!Next

\* What an open connection received and will receive is a gap-free stretch of
\* the events from its subscription on, for any number of pages and writers and
\* any capacity: a full queue ends the subscription and leaves no hole.
THEOREM NoEventSkipped == WebSpec => []NoGaps
<1>1. WebInit => BusInv
  BY BusInit DEF WebInit
<1>2. BusInv /\ [WebNext]_<<part, vars, busVars>> => BusInv'
  BY BusStep DEF WebNext
<1>3. BusInv => NoGaps
  <2> SUFFICES ASSUME BusInv, NEW c \in Clients, stream[c] = "open"
               PROVE  LET from == joined[c] + taken[c]
                      IN  /\ queue[c] = SubSeq(published, from + 1, from + Len(queue[c]))
                          /\ c \in listed => from + Len(queue[c]) = Len(published)
    BY DEF NoGaps, Bus!NoGaps
  <2>1. /\ Stretch(c) /\ queue[c] \in Seq(Nat) /\ published \in Seq(Nat)
        /\ joined[c] + taken[c] \in Nat
    BY DEF BusInv, BusTyped
  <2> QED
    BY <2>1, FollowsSubSeq DEF Stretch
<1> QED
  BY <1>1, <1>2, <1>3, PTL DEF WebSpec

=============================================================================
