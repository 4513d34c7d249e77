-------------------------- MODULE MCConversationsProofs --------------------------
(***************************************************************************)
(* What the run of MCConversations checks on small sets, for all: the      *)
(* long-term memory for any jobs, sessions, subjects and number of         *)
(* memories, and the delivery of replies for any turns, polls, pauses and  *)
(* length of a plan.                                                       *)
(*                                                                         *)
(* The invariant of the memory says what a job that has looked still knows *)
(* when it writes.  That of the delivery says in which order the pieces of *)
(* each memory object stand, and, while calls come one at a time, where in *)
(* its work each call is and which pieces of the reply are told by then.   *)
(***************************************************************************)
EXTENDS MCConversations, SequenceTheorems, TLAPS

-----------------------------------------------------------------------------
(* Long-term memory: the invariant *)

Memories ==
    [subject : Subjects, content : Contents, session : Memory!Scopes,
     status : {"active", "superseded", "deleted"}, from : Nat]

JobsTyped == [Jobs -> [step : Memory!Steps, session : Memory!Scopes,
                       op : Memory!Ops \cup {Memory!NoOp}, target : Nat]]

MemoryTyped ==
    /\ rows \in Seq(Memories)
    /\ job \in JobsTyped
    /\ overlap \in BOOLEAN
    /\ renamed \in BOOLEAN

\* What a job is doing suits its operation.
Suits ==
    \A j \in Jobs :
        /\ job[j].step # "idle" => job[j].op \in Memory!Ops
        /\ job[j].step \in {"supersede", "create"} => job[j].op.op = "add"
        /\ job[j].step = "write" => job[j].op.op # "add"

\* A memory that job j may change: one of its session, or shared.
Reaches(j, i) ==
    /\ i \in DOMAIN rows
    /\ job[j].session = Shared \/ rows[i].session \in {job[j].session, Shared}

\* What a job found stays within its reach: a memory keeps its session.
Aims ==
    \A j \in Jobs :
        /\ job[j].step \in {"supersede", "write"} => Reaches(j, job[j].target)
        /\ job[j].step = "create" /\ job[j].target # 0 => job[j].target \in DOMAIN rows

Adds(j) == job[j].step \in {"supersede", "create"}

\* Until adds have overlapped there is one to a subject of a session at a time.
OneAdder ==
    ~overlap =>
        \A j, k \in Jobs :
            /\ Adds(j) /\ Adds(k) /\ job[j].session = job[k].session
            /\ job[j].op.subject = job[k].op.subject
            => j = k

\* An active memory of the session and subject of job j's operation.
Rivals(j, i) ==
    /\ rows[i].status = "active" /\ rows[i].session = job[j].session
    /\ rows[i].subject = job[j].op.subject

\* Nothing has happened yet that OneFactPerSubject leaves out.
Undisturbed == ~overlap /\ ~renamed /\ \A i \in DOMAIN rows : rows[i].session # Shared

\* Then an add replaces the one rival there can be, and creates only when there is
\* none.
Replaces ==
    Undisturbed =>
        \A j \in Jobs : job[j].session # Shared =>
            /\ job[j].step = "supersede" =>
                 \A i \in DOMAIN rows : Rivals(j, i) => i = job[j].target
            /\ job[j].step = "create" => \A i \in DOMAIN rows : ~Rivals(j, i)

MemoryInv ==
    /\ MemoryTyped /\ Suits /\ Aims /\ OneAdder /\ Replaces
    /\ Memory!SupersededHasSuccessor /\ Memory!OneFactPerSubject

-----------------------------------------------------------------------------
(* What the steps do to a job and to the memories *)

LEMMA Settling ==
    ASSUME MemoryTyped, NEW j \in Jobs, NEW s \in Memory!Scopes, NEW o \in Memory!Ops,
           NEW step \in Memory!Steps, NEW i \in Nat, job' = Memory!Take(j, s, o, step, i)
    PROVE  /\ job' \in JobsTyped
           /\ job'[j] = [step |-> step, session |-> s, op |-> o, target |-> i]
           /\ \A k \in Jobs \ {j} : job'[k] = job[k]
BY DEF MemoryTyped, JobsTyped, Memory!Take

LEMMA Aiming ==
    ASSUME MemoryTyped, NEW j \in Jobs, NEW step \in Memory!Steps, NEW i \in Nat,
           job' = Memory!Aim(j, step, i)
    PROVE  /\ job' \in JobsTyped
           /\ job'[j].step = step /\ job'[j].target = i
           /\ job'[j].session = job[j].session /\ job'[j].op = job[j].op
           /\ \A k \in Jobs \ {j} : job'[k] = job[k]
BY DEF MemoryTyped, JobsTyped, Memory!Aim

LEMMA Finishing ==
    ASSUME MemoryTyped, NEW j \in Jobs, job' = Memory!Done(j)
    PROVE  /\ job' \in JobsTyped
           /\ job'[j].step = "idle" /\ job'[j].target = 0
           /\ \A k \in Jobs \ {j} : job'[k] = job[k]
<1>1. Memory!Idle \in [step : Memory!Steps, session : Memory!Scopes,
                       op : Memory!Ops \cup {Memory!NoOp}, target : Nat]
  BY DEF Memory!Idle, Memory!Steps, Memory!Scopes, Memory!None
<1>2. Memory!Idle.step = "idle" /\ Memory!Idle.target = 0
  BY DEF Memory!Idle, Memory!None
<1> QED
  BY <1>1, <1>2 DEF MemoryTyped, JobsTyped, Memory!Done

\* A memory keeps its session and what it replaced, does not become active again,
\* and keeps its subject unless the step renames.
Kept(i) ==
    /\ rows'[i].session = rows[i].session /\ rows'[i].from = rows[i].from
    /\ rows'[i].status = "active" => rows[i].status = "active"
    /\ ~renamed' => rows'[i].subject = rows[i].subject

LEMMA Marking ==
    ASSUME MemoryTyped, NEW i \in DOMAIN rows,
           NEW s \in {"superseded", "deleted"},
           rows' = [rows EXCEPT ![i].status = s]
    PROVE  /\ rows' \in Seq(Memories) /\ DOMAIN rows' = DOMAIN rows
           /\ \A k \in DOMAIN rows : Kept(k) /\ (k # i => rows'[k] = rows[k])
           /\ rows'[i].status = s
<1>1. rows[i] \in Memories /\ i \in 1..Len(rows)
  BY DEF MemoryTyped
<1>2. [rows[i] EXCEPT !.status = s] \in Memories
  BY <1>1 DEF Memories
<1>3. rows' = [rows EXCEPT ![i] = [rows[i] EXCEPT !.status = s]]
  OBVIOUS
<1>4. rows' \in Seq(Memories) /\ DOMAIN rows' = DOMAIN rows
  BY <1>1, <1>2, <1>3, ExceptSeq DEF MemoryTyped
<1> QED
  BY <1>1, <1>3, <1>4 DEF Kept, Memories, MemoryTyped

LEMMA Rewording ==
    ASSUME MemoryTyped, NEW i \in DOMAIN rows, NEW c \in Contents, NEW n \in Subjects,
           rows' = [rows EXCEPT ![i].content = c, ![i].subject = n],
           ~renamed' => rows[i].subject = n
    PROVE  /\ rows' \in Seq(Memories) /\ DOMAIN rows' = DOMAIN rows
           /\ \A k \in DOMAIN rows : /\ Kept(k) /\ (k # i => rows'[k] = rows[k])
                                    /\ rows'[k].status = rows[k].status
<1>1. rows[i] \in Memories /\ i \in 1..Len(rows)
  BY DEF MemoryTyped
<1> DEFINE row == [rows[i] EXCEPT !.content = c, !.subject = n]
<1>2. row \in Memories /\ row.subject = n /\ row.session = rows[i].session
      /\ row.from = rows[i].from /\ row.status = rows[i].status
  BY <1>1 DEF Memories
<1>3. rows' = [rows EXCEPT ![i] = row]
  BY <1>1 DEF MemoryTyped, Memories
<1> HIDE DEF row
<1>4. rows' \in Seq(Memories) /\ DOMAIN rows' = DOMAIN rows
  <2>1. rows \in Seq(Memories)
    BY DEF MemoryTyped
  <2>2. PICK m \in Memories : m = row
    BY <1>2
  <2>3. [rows EXCEPT ![i] = m] \in Seq(Memories)
    BY <1>1, <2>1, ExceptSeq
  <2> QED
    BY <1>3, <2>2, <2>3
<1>5. rows'[i] = row /\ \A k \in DOMAIN rows : k # i => rows'[k] = rows[k]
  BY <1>1, <1>3 DEF MemoryTyped
<1> QED
  BY <1>2, <1>4, <1>5 DEF Kept

LEMMA Changing ==
    ASSUME MemoryTyped, NEW i \in DOMAIN rows, NEW o \in Memory!Ops, o.op # "add",
           Memory!Change(i, o)
    PROVE  /\ rows' \in Seq(Memories) /\ DOMAIN rows' = DOMAIN rows
           /\ \A k \in DOMAIN rows : /\ Kept(k) /\ (k # i => rows'[k] = rows[k])
                                    /\ rows'[k].status \in {rows[k].status, "deleted"}
           /\ renamed' \in BOOLEAN /\ (renamed => renamed')
<1>1. renamed' = (renamed \/ (o.op = "update" /\ rows[i].subject # o.subject))
  BY DEF Memory!Change
<1>2. CASE o.op = "delete"
  <2>1. rows' = [rows EXCEPT ![i].status = "deleted"]
    BY <1>2 DEF Memory!Change
  <2>2. renamed' = renamed
    BY <1>1, <1>2 DEF MemoryTyped
  <2> QED
    BY <2>1, <2>2, Marking DEF MemoryTyped
<1>3. CASE o.op # "delete"
  <2>1. o.content \in Contents /\ o.subject \in Subjects /\ o.op = "update"
    BY <1>3 DEF Memory!Ops
  <2>2. rows' = [rows EXCEPT ![i].content = o.content, ![i].subject = o.subject]
    BY <1>3 DEF Memory!Change
  <2>3. renamed' \in BOOLEAN /\ (renamed => renamed') /\ (~renamed' => rows[i].subject = o.subject)
    BY <1>1, <2>1
  <2> QED
    BY <2>1, <2>2, <2>3, Rewording
<1> QED
  BY <1>2, <1>3

\* Memories that are kept leave what the invariant says of them.
LEMMA Calm ==
    ASSUME MemoryInv, DOMAIN rows' = DOMAIN rows, \A k \in DOMAIN rows : Kept(k),
           overlap' = overlap, renamed => renamed'
    PROVE  /\ Memory!OneFactPerSubject'
           /\ Undisturbed' => Undisturbed
           /\ \A j \in Jobs, i \in DOMAIN rows :
                job'[j] = job[j] =>
                   /\ Reaches(j, i) => Reaches(j, i)'
                   /\ ~renamed' /\ Rivals(j, i)' => Rivals(j, i)
<1>1. Memory!OneFactPerSubject'
  BY DEF MemoryInv, Memory!OneFactPerSubject, Kept
<1>2. Undisturbed' => Undisturbed
  BY DEF Undisturbed, Kept
<1>3. \A j \in Jobs, i \in DOMAIN rows :
        job'[j] = job[j] =>
          /\ Reaches(j, i) => Reaches(j, i)'
          /\ ~renamed' /\ Rivals(j, i)' => Rivals(j, i)
  BY DEF Reaches, Rivals, Kept
<1> QED
  BY <1>1, <1>2, <1>3

-----------------------------------------------------------------------------
(* Steps that leave the memories alone *)

\* A job dies; before it creates, that leaves a mark.
LEMMA MemoryDies ==
    ASSUME MemoryInv, NEW j \in Jobs, Memory!Die(j)
    PROVE  MemoryInv'
<1>1. /\ job' = Memory!Done(j) /\ UNCHANGED <<rows, overlap, renamed>>
      /\ (broken => broken') /\ (broken' \/ job[j].step # "create")
  BY Zenon DEF Memory!Die
<1>2. /\ MemoryTyped' /\ job'[j].step = "idle"
      /\ \A k \in Jobs \ {j} : job'[k] = job[k]
  BY <1>1, Finishing DEF MemoryInv, MemoryTyped
<1>3. Suits' /\ OneAdder'
  BY <1>1, <1>2 DEF MemoryInv, Suits, OneAdder, Adds
<1>4. Aims'
  BY <1>1, <1>2 DEF MemoryInv, Aims, Reaches
<1>5. Replaces'
  BY <1>1, <1>2 DEF MemoryInv, Replaces, Rivals, Undisturbed
<1>6. Memory!SupersededHasSuccessor' /\ Memory!OneFactPerSubject'
  BY <1>1, <1>2 DEF MemoryInv, Memory!SupersededHasSuccessor, Memory!OneFactPerSubject
<1> QED
  BY <1>2, <1>3, <1>4, <1>5, <1>6 DEF MemoryInv

\* What a job finds for an operation: memories within its reach, among them every
\* rival of what an add is to create.
Finds(s, o) ==
    \A i \in Memory!Same(s, o) :
        /\ i \in DOMAIN rows /\ rows[i].status = "active" /\ rows[i].subject = o.subject
        /\ s = Shared \/ rows[i].session \in {s, Shared}

LEMMA Finding == \A s, o : Finds(s, o)
BY DEF Finds, Memory!Same, Memory!About, Memory!Listed

LEMMA MemoryLooks ==
    ASSUME MemoryInv, NEW j \in Jobs, NEW s \in Memory!Scopes, NEW o \in Memory!Ops,
           Memory!AddLooks(j, s, o)
    PROVE  MemoryInv'
<1> DEFINE same == Memory!Same(s, o)
<1>1. /\ job[j].step = "idle" /\ o.op = "add" /\ UNCHANGED <<rows, renamed, broken>>
      /\ overlap' = (overlap \/ Memory!Adding(s, o))
      /\ DOMAIN rows \subseteq Nat
  BY DEF Memory!AddLooks, MemoryInv, MemoryTyped
<1>2. PICK step \in {"supersede", "create"}, i \in Nat :
        /\ job' = Memory!Take(j, s, o, step, i)
        /\ step = "supersede" => i \in same
        /\ step = "create" => same = {} /\ i = 0
  <2>1. CASE \E i \in same : job' = Memory!Take(j, s, o, "supersede", i)
    BY <1>1, <2>1, Finding DEF Finds
  <2>2. CASE same = {} /\ job' = Memory!Take(j, s, o, "create", 0)
    BY <2>2
  <2> QED
    BY <2>1, <2>2 DEF Memory!AddLooks, Memory!None
<1>3. /\ job' \in JobsTyped
      /\ job'[j] = [step |-> step, session |-> s, op |-> o, target |-> i]
      /\ \A k \in Jobs \ {j} : job'[k] = job[k]
  <2>1. step \in Memory!Steps
    BY DEF Memory!Steps
  <2> QED
    BY <1>2, <2>1, Settling DEF MemoryInv
<1>4. MemoryTyped'
  <2>1. overlap' \in BOOLEAN
    BY <1>1 DEF MemoryInv, MemoryTyped
  <2> QED
    BY <1>1, <1>3, <2>1 DEF MemoryInv, MemoryTyped
<1>5. Suits' /\ Aims'
  <2>1. Suits'
    BY <1>1, <1>3 DEF MemoryInv, Suits
  <2>2. step = "supersede" => i \in DOMAIN rows /\ (s = Shared \/ rows[i].session \in {s, Shared})
    BY <1>2, Finding DEF Finds
  <2> QED
    BY <1>1, <1>2, <1>3, <2>1, <2>2 DEF MemoryInv, Aims, Reaches
<1>6. OneAdder'
  <2> SUFFICES ASSUME ~overlap', NEW a \in Jobs, NEW b \in Jobs, a # b,
                      Adds(a)', Adds(b)', job'[a].session = job'[b].session,
                      job'[a].op.subject = job'[b].op.subject
               PROVE  FALSE
    BY DEF OneAdder
  <2>1. ~overlap /\ ~Memory!Adding(s, o)
    BY <1>1
  <2>2. \A k \in Jobs \ {j} :
          ~(Adds(k) /\ job[k].session = s /\ job[k].op.subject = o.subject)
    <3>1. \A k \in Jobs : Adds(k) => job[k].step # "idle" /\ job[k].op.op = "add"
      BY DEF MemoryInv, Suits, Adds
    <3> QED
      BY <2>1, <3>1 DEF Memory!Adding
  <2>3. \A k \in Jobs \ {j} : Adds(k)' => Adds(k)
    BY <1>3 DEF Adds
  <2>4. CASE a # j /\ b # j
    BY <1>3, <2>1, <2>3, <2>4 DEF MemoryInv, OneAdder
  <2>5. CASE a = j \/ b = j
    BY <1>3, <2>2, <2>3, <2>5
  <2> QED
    BY <2>4, <2>5
<1>7. Replaces'
  <2> SUFFICES ASSUME Undisturbed', NEW k \in Jobs, job'[k].session # Shared,
                      NEW r \in DOMAIN rows, Rivals(k, r)'
               PROVE  /\ job'[k].step = "supersede" => r = job'[k].target
                      /\ job'[k].step # "create"
    BY <1>1 DEF Replaces
  <2>1. Undisturbed /\ Memory!OneFactPerSubject
    BY <1>1 DEF Undisturbed, MemoryInv
  <2>2. CASE k # j
    <3>1. job'[k] = job[k] /\ Rivals(k, r)
      BY <1>1, <1>3, <2>2 DEF Rivals
    <3> QED
      BY <2>1, <3>1 DEF MemoryInv, Replaces
  <2>3. CASE k = j
    <3>1. /\ r \in Memory!Listed(s) /\ r \in Memory!About(s, o.subject)
          /\ rows[r].status = "active" /\ rows[r].session = s /\ rows[r].subject = o.subject
          /\ s # Shared
      BY <1>1, <1>3, <2>3 DEF Rivals, Memory!About, Memory!Listed
    <3>2. same # {}
      BY <3>1 DEF Memory!Same
    <3>3. step = "supersede" => r = i
      <4>1. ASSUME step = "supersede" PROVE r = i
        <5>1. /\ i \in DOMAIN rows /\ rows[i].status = "active" /\ rows[i].subject = o.subject
              /\ rows[i].session \in {s, Shared}
          BY <1>2, <3>1, <4>1, Finding DEF Finds
        <5>2. rows[i].session = s
          BY <2>1, <5>1 DEF Undisturbed
        <5> QED
          BY <2>1, <3>1, <5>1, <5>2 DEF Undisturbed, Memory!OneFactPerSubject
      <4> QED
        BY <4>1
    <3> QED
      BY <1>2, <1>3, <2>3, <3>2, <3>3
  <2> QED
    BY <2>2, <2>3
<1>8. Memory!SupersededHasSuccessor'
  BY <1>1, <1>3 DEF MemoryInv, Memory!SupersededHasSuccessor
<1>9. Memory!OneFactPerSubject'
  BY <1>1 DEF MemoryInv, Memory!OneFactPerSubject
<1> QED
  BY <1>4, <1>5, <1>6, <1>7, <1>8, <1>9 DEF MemoryInv

LEMMA MemoryResolves ==
    ASSUME MemoryInv, NEW j \in Jobs, NEW s \in Memory!Scopes, NEW o \in Memory!Ops,
           Memory!Resolve(j, s, o)
    PROVE  MemoryInv'
<1>1. /\ job[j].step = "idle" /\ o.op # "add" /\ UNCHANGED <<rows, overlap, renamed, broken>>
      /\ DOMAIN rows \subseteq Nat
  BY DEF Memory!Resolve, MemoryInv, MemoryTyped
<1>2. PICK i \in Memory!Same(s, o) : job' = Memory!Take(j, s, o, "write", i)
  BY DEF Memory!Resolve
<1>3. i \in DOMAIN rows /\ i \in Nat /\ (s = Shared \/ rows[i].session \in {s, Shared})
  BY <1>1, Finding DEF Finds
<1>4. /\ job' \in JobsTyped
      /\ job'[j] = [step |-> "write", session |-> s, op |-> o, target |-> i]
      /\ \A k \in Jobs \ {j} : job'[k] = job[k]
  <2>1. "write" \in Memory!Steps
    BY DEF Memory!Steps
  <2> QED
    BY <1>2, <1>3, <2>1, Settling DEF MemoryInv
<1>5. MemoryTyped' /\ Suits' /\ OneAdder'
  BY <1>1, <1>4 DEF MemoryInv, MemoryTyped, Suits, OneAdder, Adds
<1>6. Aims'
  BY <1>1, <1>3, <1>4 DEF MemoryInv, Aims, Reaches
<1>7. Replaces'
  BY <1>1, <1>4 DEF MemoryInv, Replaces, Rivals, Undisturbed
<1>8. Memory!SupersededHasSuccessor' /\ Memory!OneFactPerSubject'
  BY <1>1, <1>4 DEF MemoryInv, Memory!SupersededHasSuccessor, Memory!OneFactPerSubject
<1> QED
  BY <1>5, <1>6, <1>7, <1>8 DEF MemoryInv

-----------------------------------------------------------------------------
(* Steps that write a memory *)

LEMMA MemorySupersede ==
    ASSUME MemoryInv, NEW j \in Jobs, Memory!Supersede(j)
    PROVE  MemoryInv'
<1> DEFINE t == job[j].target
<1>1. /\ job[j].step = "supersede" /\ t \in DOMAIN rows /\ t \in Nat
      /\ rows' = [rows EXCEPT ![t].status = "superseded"]
      /\ job' = Memory!Aim(j, "create", t) /\ UNCHANGED <<overlap, renamed, broken>>
  BY DEF Memory!Supersede, MemoryInv, MemoryTyped, Aims, Reaches
<1>2. /\ rows' \in Seq(Memories) /\ DOMAIN rows' = DOMAIN rows
      /\ \A k \in DOMAIN rows : Kept(k) /\ (k # t => rows'[k] = rows[k])
      /\ rows'[t].status = "superseded"
  BY <1>1, Marking DEF MemoryInv
<1>3. /\ job' \in JobsTyped
      /\ job'[j].step = "create" /\ job'[j].target = t
      /\ job'[j].session = job[j].session /\ job'[j].op = job[j].op
      /\ \A k \in Jobs \ {j} : job'[k] = job[k]
  BY <1>1, Aiming DEF MemoryInv, Memory!Steps
<1>4. MemoryTyped' /\ Suits' /\ OneAdder'
  <2>1. MemoryTyped'
    BY <1>1, <1>2, <1>3 DEF MemoryInv, MemoryTyped
  <2>2. Suits' /\ OneAdder'
    BY <1>1, <1>3 DEF MemoryInv, Suits, OneAdder, Adds
  <2> QED
    BY <2>1, <2>2
<1>5. Aims'
  <2>1. \A k \in Jobs : \A i : job'[k].session = job[k].session /\ Reaches(k, i) => Reaches(k, i)'
    BY <1>2 DEF Reaches, Kept
  <2> QED
    BY <1>1, <1>2, <1>3, <2>1 DEF MemoryInv, Aims
<1>6. /\ Memory!OneFactPerSubject' /\ (Undisturbed' => Undisturbed)
      /\ \A k \in Jobs, i \in DOMAIN rows :
           job'[k] = job[k] => (~renamed' /\ Rivals(k, i)' => Rivals(k, i))
  BY <1>1, <1>2, Calm
<1>7. Replaces'
  <2> SUFFICES ASSUME Undisturbed', NEW k \in Jobs, job'[k].session # Shared,
                      NEW r \in DOMAIN rows, Rivals(k, r)'
               PROVE  /\ job'[k].step = "supersede" => r = job'[k].target
                      /\ job'[k].step # "create"
    BY <1>2 DEF Replaces
  <2>1. Undisturbed /\ Replaces /\ ~renamed'
    BY <1>6 DEF MemoryInv, Undisturbed
  <2>2. CASE k # j
    BY <1>3, <1>6, <2>1, <2>2 DEF Replaces
  <2>3. CASE k = j
    <3>1. r # t
      BY <1>2 DEF Rivals
    <3>2. Rivals(j, r)
      BY <1>2, <1>3, <2>3, <3>1 DEF Rivals
    <3>3. job[j].session # Shared
      BY <1>3, <2>3
    <3> QED
      BY <1>1, <2>1, <3>1, <3>2, <3>3 DEF Replaces
  <2> QED
    BY <2>2, <2>3
<1>8. Memory!SupersededHasSuccessor'
  <2>1. ASSUME NEW i \in DOMAIN rows, rows'[i].status = "superseded", ~broken, i # t
        PROVE  \/ \E k \in DOMAIN rows : k > i /\ rows'[k].from = i
               \/ \E k \in Jobs : job'[k].step = "create" /\ job'[k].target = i
    <3>1. rows[i].status = "superseded"
      BY <1>2, <2>1
    <3>2. CASE \E k \in DOMAIN rows : k > i /\ rows[k].from = i
      BY <1>2, <3>2 DEF Kept
    <3>3. CASE \E k \in Jobs : job[k].step = "create" /\ job[k].target = i
      BY <1>1, <1>3, <3>3
    <3> QED
      BY <2>1, <3>1, <3>2, <3>3 DEF MemoryInv, Memory!SupersededHasSuccessor
  <2> QED
    BY <1>1, <1>2, <1>3, <2>1 DEF Memory!SupersededHasSuccessor
<1> QED
  BY <1>4, <1>5, <1>6, <1>7, <1>8 DEF MemoryInv

LEMMA MemoryCreate ==
    ASSUME MemoryInv, NEW j \in Jobs, Memory!Create(j)
    PROVE  MemoryInv'
<1> DEFINE t == job[j].target
           new == [subject |-> job[j].op.subject, content |-> job[j].op.content,
                   session |-> job[j].session, status |-> "active", from |-> t]
<1>1. /\ job[j].step = "create" /\ rows' = Append(rows, new) /\ job' = Memory!Done(j)
      /\ UNCHANGED <<overlap, renamed, broken>>
  BY DEF Memory!Create, Memory!Origin
<1>2. new \in Memories
  <2>1. job[j].op \in Memory!Ops /\ job[j].op.op = "add"
    BY <1>1 DEF MemoryInv, Suits
  <2>2. job[j].op.subject \in Subjects /\ job[j].op.content \in Contents
    BY <2>1 DEF Memory!Ops
  <2>3. job[j].session \in Memory!Scopes /\ t \in Nat
    BY DEF MemoryInv, MemoryTyped, JobsTyped
  <2> QED
    BY <2>2, <2>3 DEF Memories
<1>3. /\ rows' \in Seq(Memories) /\ Len(rows) \in Nat
      /\ DOMAIN rows = 1..Len(rows) /\ DOMAIN rows' = 1..Len(rows) + 1
      /\ \A k \in DOMAIN rows : rows'[k] = rows[k]
      /\ rows'[Len(rows) + 1] = new
  BY <1>1, <1>2, AppendProperties DEF MemoryInv, MemoryTyped
<1>4. /\ job' \in JobsTyped /\ job'[j].step = "idle"
      /\ \A k \in Jobs \ {j} : job'[k] = job[k]
  BY <1>1, Finishing DEF MemoryInv
<1>5. MemoryTyped' /\ Suits' /\ OneAdder'
  <2>1. MemoryTyped'
    BY <1>1, <1>3, <1>4 DEF MemoryInv, MemoryTyped
  <2>2. Suits' /\ OneAdder'
    BY <1>1, <1>4 DEF MemoryInv, Suits, OneAdder, Adds
  <2> QED
    BY <2>1, <2>2
<1>6. Aims'
  <2>1. \A k \in Jobs \ {j} : \A i : Reaches(k, i) => Reaches(k, i)'
    BY <1>3, <1>4 DEF Reaches
  <2> QED
    BY <1>3, <1>4, <2>1 DEF MemoryInv, Aims
<1>7. Undisturbed' => Undisturbed /\ job[j].session # Shared
  <2>1. Len(rows) + 1 \in DOMAIN rows' /\ rows'[Len(rows) + 1].session = job[j].session
    BY <1>3
  <2> QED
    BY <1>1, <1>3, <2>1 DEF Undisturbed
<1>8. Replaces'
  <2> SUFFICES ASSUME Undisturbed', NEW k \in Jobs, job'[k].session # Shared, Adds(k)',
                      NEW r \in DOMAIN rows', Rivals(k, r)'
               PROVE  job'[k].step = "supersede" /\ r = job'[k].target
    BY DEF Replaces, Adds
  <2>1. k # j /\ job'[k] = job[k] /\ Adds(k)
    BY <1>4 DEF Adds
  <2>2. CASE r \in DOMAIN rows
    <3>1. Rivals(k, r)
      BY <1>3, <2>1, <2>2 DEF Rivals
    <3> QED
      BY <1>7, <2>1, <2>2, <3>1 DEF MemoryInv, Replaces, Adds
  <2>3. CASE r = Len(rows) + 1
    <3>1. job[k].session = job[j].session /\ job[k].op.subject = job[j].op.subject
      BY <1>3, <2>1, <2>3 DEF Rivals
    <3>2. Adds(j) /\ ~overlap
      BY <1>1, <1>7 DEF Adds, Undisturbed
    <3> QED
      BY <2>1, <3>1, <3>2 DEF MemoryInv, OneAdder
  <2> QED
    BY <1>3, <2>2, <2>3
<1>9. Memory!SupersededHasSuccessor'
  <2>1. ASSUME NEW i \in DOMAIN rows, rows[i].status = "superseded", ~broken
        PROVE  \/ \E k \in DOMAIN rows' : k > i /\ rows'[k].from = i
               \/ \E k \in Jobs : job'[k].step = "create" /\ job'[k].target = i
    <3>1. CASE \E k \in DOMAIN rows : k > i /\ rows[k].from = i
      BY <1>3, <3>1
    <3>2. CASE t = i
      <4>1. /\ Len(rows) + 1 \in DOMAIN rows' /\ Len(rows) + 1 > i
            /\ rows'[Len(rows) + 1].from = i
        BY <1>3, <3>2
      <4> QED
        BY <4>1
    <3>3. CASE \E k \in Jobs \ {j} : job[k].step = "create" /\ job[k].target = i
      BY <1>4, <3>3
    <3> QED
      BY <2>1, <3>1, <3>2, <3>3 DEF MemoryInv, Memory!SupersededHasSuccessor
  <2> QED
    BY <1>1, <1>3, <2>1 DEF Memory!SupersededHasSuccessor
<1>10. Memory!OneFactPerSubject'
  <2> SUFFICES ASSUME Undisturbed',
                      NEW i \in DOMAIN rows', NEW k \in DOMAIN rows', i # k,
                      rows'[i].status = "active", rows'[k].status = "active",
                      rows'[i].session = rows'[k].session,
                      rows'[i].subject = rows'[k].subject
               PROVE  FALSE
    BY DEF Memory!OneFactPerSubject, Undisturbed
  <2>1. Undisturbed /\ job[j].session # Shared
    BY <1>7
  <2>2. \A x \in DOMAIN rows : ~Rivals(j, x)
    BY <1>1, <2>1 DEF MemoryInv, Replaces
  <2>3. CASE i \in DOMAIN rows /\ k \in DOMAIN rows
    BY <1>3, <2>1, <2>3 DEF MemoryInv, Memory!OneFactPerSubject, Undisturbed
  <2>4. CASE i = Len(rows) + 1 /\ k \in DOMAIN rows
    BY <1>3, <2>2, <2>4 DEF Rivals
  <2>5. CASE k = Len(rows) + 1 /\ i \in DOMAIN rows
    BY <1>3, <2>2, <2>5 DEF Rivals
  <2> QED
    BY <1>3, <2>3, <2>4, <2>5
<1> QED
  BY <1>5, <1>6, <1>8, <1>9, <1>10 DEF MemoryInv

\* An update or a deletion, of a memory a job found or was given the id of.
LEMMA MemoryChange ==
    ASSUME MemoryInv, NEW t \in DOMAIN rows, NEW o \in Memory!Ops, o.op # "add",
           Memory!Change(t, o), UNCHANGED <<overlap, broken>>, job' \in JobsTyped,
           \A k \in Jobs : job'[k] = job[k] \/ (job[k].step = "write" /\ job'[k].step = "idle")
    PROVE  MemoryInv'
<1>1. /\ rows' \in Seq(Memories) /\ DOMAIN rows' = DOMAIN rows
      /\ \A k \in DOMAIN rows : /\ Kept(k) /\ (k # t => rows'[k] = rows[k])
                               /\ rows'[k].status \in {rows[k].status, "deleted"}
      /\ renamed' \in BOOLEAN /\ (renamed => renamed')
  BY Changing DEF MemoryInv
<1>2. /\ Memory!OneFactPerSubject' /\ (Undisturbed' => Undisturbed)
      /\ \A k \in Jobs, i \in DOMAIN rows :
           job'[k] = job[k] => /\ Reaches(k, i) => Reaches(k, i)'
                               /\ ~renamed' /\ Rivals(k, i)' => Rivals(k, i)
  BY <1>1, Calm
<1>3. MemoryTyped' /\ Suits' /\ OneAdder'
  <2>1. MemoryTyped'
    BY <1>1 DEF MemoryInv, MemoryTyped
  <2>2. Suits' /\ OneAdder'
    BY DEF MemoryInv, Suits, OneAdder, Adds
  <2> QED
    BY <2>1, <2>2
<1>4. Aims'
  <2> SUFFICES ASSUME NEW k \in Jobs, job'[k].step # "idle"
               PROVE  /\ job'[k].step \in {"supersede", "write"} => Reaches(k, job[k].target)'
                      /\ job'[k].step = "create" /\ job'[k].target # 0
                           => job'[k].target \in DOMAIN rows'
                      /\ job'[k] = job[k]
    BY DEF Aims
  <2>1. job'[k] = job[k]
    OBVIOUS
  <2>2. job[k].step \in {"supersede", "write"} =>
          job[k].target \in DOMAIN rows /\ Reaches(k, job[k].target)
    BY DEF MemoryInv, Aims, Reaches
  <2> QED
    BY <1>1, <1>2, <2>1, <2>2 DEF MemoryInv, Aims
<1>5. Replaces'
  <2> SUFFICES ASSUME Undisturbed', NEW k \in Jobs, job'[k].session # Shared,
                      job'[k].step # "idle", NEW r \in DOMAIN rows, Rivals(k, r)'
               PROVE  /\ job'[k].step = "supersede" => r = job'[k].target
                      /\ job'[k].step # "create"
    BY <1>1 DEF Replaces
  <2>1. job'[k] = job[k] /\ ~renamed' /\ Undisturbed
    BY <1>2 DEF Undisturbed
  <2>2. Rivals(k, r)
    BY <1>2, <2>1
  <2> QED
    BY <2>1, <2>2 DEF MemoryInv, Replaces
<1>6. Memory!SupersededHasSuccessor'
  <2>1. ASSUME NEW i \in DOMAIN rows, rows'[i].status = "superseded", ~broken
        PROVE  \/ \E k \in DOMAIN rows : k > i /\ rows'[k].from = i
               \/ \E k \in Jobs : job'[k].step = "create" /\ job'[k].target = i
    <3>1. rows[i].status = "superseded"
      BY <1>1, <2>1
    <3>2. CASE \E k \in DOMAIN rows : k > i /\ rows[k].from = i
      BY <1>1, <3>2 DEF Kept
    <3>3. CASE \E k \in Jobs : job[k].step = "create" /\ job[k].target = i
      BY <3>3
    <3> QED
      BY <2>1, <3>1, <3>2, <3>3 DEF MemoryInv, Memory!SupersededHasSuccessor
  <2> QED
    BY <1>1, <2>1 DEF Memory!SupersededHasSuccessor
<1> QED
  BY <1>2, <1>3, <1>4, <1>5, <1>6 DEF MemoryInv

LEMMA MemoryWrite ==
    ASSUME MemoryInv, NEW j \in Jobs, Memory!Write(j)
    PROVE  MemoryInv'
<1>1. /\ job[j].step = "write" /\ job' = Memory!Done(j) /\ UNCHANGED <<overlap, broken>>
      /\ Memory!Change(job[j].target, job[j].op)
  BY DEF Memory!Write
<1>2. job[j].target \in DOMAIN rows /\ job[j].op \in Memory!Ops /\ job[j].op.op # "add"
  BY <1>1 DEF MemoryInv, Aims, Reaches, Suits
<1>3. /\ job' \in JobsTyped /\ job'[j].step = "idle"
      /\ \A k \in Jobs \ {j} : job'[k] = job[k]
  BY <1>1, Finishing DEF MemoryInv
<1> QED
  BY <1>1, <1>2, <1>3, MemoryChange

LEMMA MemoryChangeById ==
    ASSUME MemoryInv, NEW j \in Jobs, NEW i \in Memory!Ids, NEW o \in Memory!Ops,
           Memory!ChangeById(j, i, o)
    PROVE  MemoryInv'
<1>1. /\ i \in DOMAIN rows /\ o.op # "add" /\ Memory!Change(i, o)
      /\ job' = job /\ UNCHANGED <<overlap, broken>>
  BY DEF Memory!ChangeById
<1>2. job' \in JobsTyped
  BY <1>1 DEF MemoryInv, MemoryTyped
<1> QED
  BY <1>1, <1>2, MemoryChange

-----------------------------------------------------------------------------
(* Long-term memory: the theorems *)

LEMMA MemoryInit == Memory!Init => MemoryInv
<1> SUFFICES ASSUME Memory!Init PROVE MemoryInv
  OBVIOUS
<1>1. /\ rows = <<>> /\ job = [j \in Jobs |-> Memory!Idle] /\ overlap = FALSE
      /\ renamed = FALSE
  BY DEF Memory!Init
<1>2. DOMAIN rows = {} /\ rows \in Seq(Memories)
  BY <1>1
<1>3. Memory!Idle \in [step : Memory!Steps, session : Memory!Scopes,
                       op : Memory!Ops \cup {Memory!NoOp}, target : Nat]
  BY DEF Memory!Idle, Memory!Steps, Memory!Scopes, Memory!None
<1>4. \A j \in Jobs : job[j].step = "idle"
  BY <1>1 DEF Memory!Idle
<1>5. MemoryTyped
  BY <1>1, <1>2, <1>3 DEF MemoryTyped, JobsTyped
<1> QED
  BY <1>1, <1>2, <1>4, <1>5
     DEF MemoryInv, Suits, Aims, OneAdder, Adds, Replaces,
         Memory!SupersededHasSuccessor, Memory!OneFactPerSubject

LEMMA MemoryStep == MemoryInv /\ Memory!Next => MemoryInv'
<1> SUFFICES ASSUME MemoryInv, NEW j \in Jobs,
                    \/ \E s \in Memory!Scopes, o \in Memory!Ops :
                          Memory!AddLooks(j, s, o) \/ Memory!Resolve(j, s, o)
                    \/ \E i \in Memory!Ids, o \in Memory!Ops : Memory!ChangeById(j, i, o)
                    \/ Memory!Die(j) \/ Memory!Supersede(j) \/ Memory!Create(j)
                    \/ Memory!Write(j)
             PROVE  MemoryInv'
  BY DEF Memory!Next
<1> QED
  BY MemoryLooks, MemoryResolves, MemoryChangeById, MemoryDies, MemorySupersede,
     MemoryCreate, MemoryWrite

LEMMA MemoryStays == MemoryInv /\ UNCHANGED memoryVars => MemoryInv'
<1> SUFFICES ASSUME MemoryInv, UNCHANGED memoryVars PROVE MemoryInv'
  OBVIOUS
<1>1. UNCHANGED <<rows, job, overlap, renamed, broken>>
  BY DEF memoryVars
<1>2. MemoryTyped' /\ Suits' /\ OneAdder'
  BY <1>1 DEF MemoryInv, MemoryTyped, Suits, OneAdder, Adds
<1>3. Aims' /\ Replaces'
  BY <1>1 DEF MemoryInv, Aims, Reaches, Replaces, Rivals, Undisturbed
<1>4. Memory!SupersededHasSuccessor' /\ Memory!OneFactPerSubject'
  BY <1>1 DEF MemoryInv, Memory!SupersededHasSuccessor, Memory!OneFactPerSubject
<1> QED
  BY <1>2, <1>3, <1>4 DEF MemoryInv

LEMMA MemoryAlways == Spec => []MemoryInv
<1>1. Init => MemoryInv
  BY MemoryInit DEF Init
<1>2. MemoryInv /\ [Next]_<<part, deliveryVars, memoryVars>> => MemoryInv'
  BY MemoryStep, MemoryStays DEF Next
<1> QED
  BY <1>1, <1>2, PTL DEF Spec

\* However many jobs interleave, and whichever of them answer late, a memory is
\* only superseded for another one, unless a job died half way.
THEOREM Successors == Spec => []SupersededHasSuccessor
<1>1. MemoryInv => SupersededHasSuccessor
  BY DEF MemoryInv, SupersededHasSuccessor
<1> QED
  BY <1>1, MemoryAlways, PTL

\* Whatever updates and deletions other jobs make meanwhile, a session has one active
\* memory of a subject while no two adds to it overlap and none is renamed: what an
\* add replaces stays the only rival of what it creates.
THEOREM OneFact == Spec => []OneFactPerSubject
<1>1. MemoryInv => OneFactPerSubject
  BY DEF MemoryInv, OneFactPerSubject
<1> QED
  BY <1>1, MemoryAlways, PTL

\* What a step of job j says of a memory it changes.
Own(j, i) == job'[j] # job[j] /\ rows'[i] # rows[i] =>
                job[j].session = Shared \/ rows[i].session \in {job[j].session, Shared}

LEMMA MemoryOwn ==
    ASSUME MemoryInv, NEW j \in Jobs, Memory!Supersede(j) \/ Memory!Write(j)
    PROVE  \A k \in Jobs, i \in DOMAIN rows : Own(k, i)
<1> DEFINE t == job[j].target
<1>1. Reaches(j, t)
  BY DEF MemoryInv, Aims, Memory!Supersede, Memory!Write
<1>2. \A i \in DOMAIN rows : rows'[i] # rows[i] => i = t
  <2>1. CASE Memory!Supersede(j)
    BY <2>1 DEF Memory!Supersede
  <2>2. CASE Memory!Write(j)
    BY <2>2 DEF Memory!Write, Memory!Change
  <2> QED
    BY <2>1, <2>2
<1>3. \A k \in Jobs : k # j => job'[k] = job[k]
  <2>1. CASE Memory!Supersede(j)
    BY <2>1 DEF Memory!Supersede, Memory!Aim, MemoryInv, MemoryTyped, JobsTyped
  <2>2. CASE Memory!Write(j)
    BY <2>2, Finishing DEF MemoryInv, Memory!Write
  <2> QED
    BY <2>1, <2>2
<1> QED
  BY <1>1, <1>2, <1>3 DEF Own, Reaches

\* A job changes what it found itself only if it is of its session or shared, whatever
\* happens between its reading and its writing: a memory keeps its session.
THEOREM OwnSessions == Spec => OwnSessionOnly
<1> DEFINE AllOwn == \A j \in Jobs, i \in DOMAIN rows : Own(j, i)
<1>1. ASSUME MemoryInv, NEW j \in Jobs, Memory!Supersede(j) \/ Memory!Write(j) PROVE AllOwn
  BY <1>1, MemoryOwn
<1>2. ASSUME MemoryInv, NEW j \in Jobs, Memory!Create(j) PROVE AllOwn
  <2>1. \E x : rows' = Append(rows, x)
    BY <1>2 DEF Memory!Create
  <2>2. \A i \in DOMAIN rows : rows'[i] = rows[i]
    BY <1>2, <2>1 DEF MemoryInv, MemoryTyped
  <2> QED
    BY <2>2 DEF Own
<1>3. ASSUME NEW j \in Jobs, NEW s, NEW o, NEW i,
             \/ Memory!AddLooks(j, s, o) \/ Memory!Resolve(j, s, o)
             \/ Memory!Die(j) \/ Memory!ChangeById(j, i, o)
      PROVE  AllOwn
  <2>1. rows' = rows \/ job' = job
    BY <1>3 DEF Memory!AddLooks, Memory!Resolve, Memory!Die, Memory!ChangeById
  <2> QED
    BY <2>1 DEF Own
<1>4. MemoryInv /\ [Next]_<<part, deliveryVars, memoryVars>> => AllOwn \/ UNCHANGED memoryVars
  BY <1>1, <1>2, <1>3 DEF Next, Memory!Next
<1>5. AllOwn \/ UNCHANGED memoryVars
        => [\A j \in Jobs, i \in DOMAIN rows :
              job'[j] # job[j] /\ rows'[i] # rows[i] =>
                 job[j].session = Shared \/ rows[i].session \in {job[j].session, Shared}
           ]_(Memory!memVars)
  BY DEF Own, memoryVars, Memory!memVars
<1>6. MemoryInv /\ [Next]_<<part, deliveryVars, memoryVars>>
        => [\A j \in Jobs, i \in DOMAIN rows :
              job'[j] # job[j] /\ rows'[i] # rows[i] =>
                 job[j].session = Shared \/ rows[i].session \in {job[j].session, Shared}
           ]_(Memory!memVars)
  BY <1>4, <1>5
<1> QED
  BY <1>6, MemoryAlways, PTL DEF Spec, OwnSessionOnly, Memory!OwnSessionOnly

-----------------------------------------------------------------------------
(* Delivery: types, and what a plan and a poll do to a queue *)

LEMMA Names ==
    /\ MaxParts \in Nat /\ MaxParts > 0
    /\ Turns \cap Pollers = {} /\ Turns \cap Pausers = {} /\ Pollers \cap Pausers = {}
    /\ Blank \notin Turns \cup Pollers \cup Pausers
BY ConversationsAssumption DEF Delivery!DeliveryAssumption

\* A poll that has taken a piece holds one, of a memory object.
InFlight(p) == pc[p] \in {"take", "save", "tell"}
Holding ==
    \A p \in Pollers : InFlight(p) => Len(head[p]) = 1 /\ ref[p] # Blank

Blanked == pending[Blank] = <<>>

DeliveryTyped == Delivery!TypeOK /\ Holding /\ Blanked

\* The pieces x, k+1 to x, n.
Pieces(q, x, k) == \A i \in DOMAIN q : q[i] = <<x, k + i>>

LEMMA Planning ==
    ASSUME NEW t \in Turns, NEW n \in 1..MaxParts
    PROVE  /\ Head(Delivery!Plan(t, n)) = <<t, 1>>
           /\ <<t, 1>> \in Delivery!Pieces
           /\ Tail(Delivery!Plan(t, n)) \in Seq(Delivery!Pieces)
           /\ Len(Tail(Delivery!Plan(t, n))) = n - 1
           /\ Pieces(Tail(Delivery!Plan(t, n)), t, 1)
<1> DEFINE plan == Delivery!Plan(t, n)
<1>1. plan = [i \in 1..n |-> <<t, i>>]
  BY DEF Delivery!Plan
<1>2. n \in Nat /\ n > 0 /\ 1..n \subseteq 1..MaxParts
  BY Names
<1>3. \A i \in 1..n : plan[i] = <<t, i>> /\ <<t, i>> \in Delivery!Pieces
  BY <1>1, <1>2 DEF Delivery!Pieces
<1>4. plan \in Seq(Delivery!Pieces) /\ Len(plan) = n
  BY <1>1, <1>2, <1>3, IsASeq
<1>5. plan # <<>> /\ plan[1] = <<t, 1>>
  <2>1. 1 \in 1..n
    BY <1>2
  <2>2. plan[1] = <<t, 1>>
    BY <1>3, <2>1
  <2> HIDE DEF plan
  <2> QED
    BY <1>2, <1>4, <2>2, EmptySeq
<1> HIDE DEF plan
<1>6. /\ Head(plan) = <<t, 1>> /\ Tail(plan) \in Seq(Delivery!Pieces)
      /\ Len(Tail(plan)) = n - 1
      /\ \A i \in 1..Len(Tail(plan)) : Tail(plan)[i] = plan[i + 1]
  BY <1>4, <1>5, HeadTailProperties
<1>7. DOMAIN Tail(plan) = 1..(n - 1)
  BY <1>6
<1>8. ASSUME NEW i \in 1..(n - 1) PROVE Tail(plan)[i] = <<t, 1 + i>>
  <2>1. i + 1 \in 1..n /\ i + 1 = 1 + i
    BY <1>2
  <2>2. plan[i + 1] = <<t, i + 1>>
    BY <1>3, <2>1
  <2> QED
    BY <1>6, <2>1, <2>2
<1>9. <<t, 1>> \in Delivery!Pieces
  BY Names DEF Delivery!Pieces
<1>10. Pieces(Tail(plan), t, 1)
  BY <1>7, <1>8 DEF Pieces
<1> QED
  BY <1>6, <1>9, <1>10 DEF plan

\* What the steps of a poll keep: the other calls.
Others(p) ==
    /\ \A c \in Delivery!Calls \ {p} : pc'[c] = pc[c] /\ ref'[c] = ref[c]
    /\ \A x \in Pollers \ {p} : head'[x] = head[x]

CallsTyped ==
    /\ pc \in [Delivery!Calls -> {"idle", "decide", "plan", "save", "tell", "check", "take",
                                  "returned"}]
    /\ ref \in [Delivery!Calls -> Delivery!Memories]
    /\ head \in [Pollers -> Seq(Delivery!Pieces)]

Leaves(p) == pc'[p] = "idle" /\ ref'[p] = Blank /\ head'[p] = <<>>

Decided(t) ==
    /\ pc[t] = "decide" /\ pc' = [pc EXCEPT ![t] = "plan"]
    /\ UNCHANGED <<store, pending, delivered, paused, ref, snapshot, head, size, told, owner,
                   hushed, overlaps>>
    /\ mode' \in [Turns -> {"none", "resume", "replan", "reset"}]
    /\ keep' \in [Turns -> BOOLEAN]
    /\ \A x \in Turns \ {t} : mode'[x] = mode[x]
    /\ mode'[t] = "resume" => ref[t] \in Turns

Planned(t) ==
    /\ pc[t] = "plan" /\ pc' = [pc EXCEPT ![t] = "save"]
    /\ UNCHANGED <<store, paused, ref, snapshot, mode, keep, head, told, owner, hushed,
                   overlaps>>
    /\ pending' \in [Delivery!Memories -> Seq(Delivery!Pieces)]
    /\ delivered' \in [Delivery!Memories -> Seq(Delivery!Pieces)]
    /\ size' \in [Turns -> 0..MaxParts]
    /\ \A o \in Delivery!Memories \ {t} : pending'[o] = pending[o] /\ delivered'[o] = delivered[o]
    /\ \A x \in Turns \ {t} : size'[x] = size[x]
    /\ mode[t] = "resume" => pending'[t] = snapshot[t]
    /\ mode[t] # "resume" => Pieces(pending'[t], t, 1) /\ 1 + Len(pending'[t]) = size'[t]
    /\ mode[t] = "reset" /\ delivered[Blank] = <<>> => delivered'[t] = <<<<t, 1>>>>

Found(p) ==
    /\ pc[p] = "check"
    /\ UNCHANGED <<store, pending, delivered, paused, snapshot, mode, keep, size, told, owner,
                   hushed, overlaps>>
    /\ Others(p) /\ CallsTyped'
    /\ \/ /\ pc'[p] = "take" /\ ref'[p] = ref[p] /\ ref[p] # Blank
          /\ ~paused[ref[p]] /\ pending[ref[p]] # <<>>
          /\ head'[p] = <<pending[ref[p]][1]>> /\ pending[ref[p]][1] \in Delivery!Pieces
          /\ pc[pending[ref[p]][1][1]] = "returned"
       \/ Leaves(p)

Took(p) ==
    /\ pc[p] = "take" /\ ref[p] \in Delivery!Memories /\ ref[p] # Blank
    /\ UNCHANGED <<store, paused, snapshot, mode, keep, size, told, owner, hushed, overlaps>>
    /\ Others(p) /\ CallsTyped'
    /\ pending' \in [Delivery!Memories -> Seq(Delivery!Pieces)]
    /\ delivered' \in [Delivery!Memories -> Seq(Delivery!Pieces)]
    /\ \A o \in Delivery!Memories \ {ref[p]} :
         pending'[o] = pending[o] /\ delivered'[o] = delivered[o]
    /\ delivered'[ref[p]] = delivered[ref[p]] \o head[p]
    /\ \/ /\ pc'[p] = "save" /\ ref'[p] = ref[p] /\ head'[p] = head[p]
          /\ pending[ref[p]] # <<>>
          /\ Len(pending'[ref[p]]) = Len(pending[ref[p]]) - 1
          /\ \A i \in DOMAIN pending'[ref[p]] :
               i + 1 \in DOMAIN pending[ref[p]] /\ pending'[ref[p]][i] = pending[ref[p]][i + 1]
       \/ Leaves(p) /\ pending[ref[p]] = <<>> /\ pending'[ref[p]] = pending[ref[p]]

Told(p) ==
    /\ pc[p] = "tell"
    /\ UNCHANGED <<store, pending, delivered, paused, snapshot, mode, keep, size, owner, hushed,
                   overlaps>>
    /\ Others(p) /\ CallsTyped' /\ Leaves(p)
    /\ told' \in [Turns -> Seq(1..MaxParts)]
    /\ \E x \in Turns, k \in 1..MaxParts :
         /\ head[p] = <<<<x, k>>>> /\ told'[x] = Append(told[x], k)
         /\ \A y \in Turns \ {x} : told'[y] = told[y]

\* What a plan leaves: its own queue, or the one that was copied.
LEMMA TurnPlanned ==
    ASSUME Delivery!TypeOK, NEW t \in Turns, Delivery!TurnPlans(t)
    PROVE  Planned(t)
<1>1. PICK n \in 0..MaxParts :
        /\ n = 0 <=> mode[t] = "resume"
        /\ size' = [size EXCEPT ![t] = n]
        /\ pending' = [pending EXCEPT ![t] = Delivery!Queued(t, n)]
        /\ delivered' = [delivered EXCEPT ![t] =
             (IF keep[t] THEN delivered[Delivery!Prior(t)] ELSE <<>>)
               \o (IF n = 0 THEN <<>> ELSE <<Head(Delivery!Plan(t, n))>>)]
  BY DEF Delivery!TurnPlans
<1>2. /\ pc[t] = "plan" /\ pc' = [pc EXCEPT ![t] = "save"]
      /\ UNCHANGED <<store, paused, ref, snapshot, mode, keep, head, told, owner, hushed,
                     overlaps>>
  BY DEF Delivery!TurnPlans, Delivery!Goto, Delivery!locals
<1> DEFINE first == IF n = 0 THEN <<>> ELSE <<Head(Delivery!Plan(t, n))>>
           prior == IF keep[t] THEN delivered[Delivery!Prior(t)] ELSE <<>>
<1>3. t \in Delivery!Memories /\ Blank \in Delivery!Memories
  BY DEF Delivery!Memories
<1>4. first \in Seq(Delivery!Pieces) /\ (n # 0 => first = <<<<t, 1>>>>)
  <2>1. CASE n = 0
    BY <2>1
  <2>2. CASE n # 0
    <3>1. n \in 1..MaxParts
      BY <2>2, Names
    <3>2. Head(Delivery!Plan(t, n)) = <<t, 1>> /\ <<t, 1>> \in Delivery!Pieces
      BY <3>1, Planning
    <3>3. first = <<<<t, 1>>>>
      BY <2>2, <3>2
    <3> HIDE DEF first
    <3> QED
      BY <3>2, <3>3
  <2> QED
    BY <2>1, <2>2
<1>5. prior \in Seq(Delivery!Pieces)
  BY <1>3 DEF Delivery!TypeOK, Delivery!Prior, Delivery!Calls
<1>6. prior \o first \in Seq(Delivery!Pieces)
  BY <1>4, <1>5, ConcatProperties
<1>7. /\ Delivery!Queued(t, n) \in Seq(Delivery!Pieces)
      /\ mode[t] = "resume" => Delivery!Queued(t, n) = snapshot[t]
      /\ mode[t] # "resume" => /\ Pieces(Delivery!Queued(t, n), t, 1)
                               /\ 1 + Len(Delivery!Queued(t, n)) = n
  <2>1. CASE n = 0
    BY <1>1, <2>1 DEF Delivery!Queued, Delivery!TypeOK
  <2>2. CASE n # 0
    <3>1. n \in 1..MaxParts /\ n \in Nat
      BY <2>2, Names
    <3>2. Delivery!Queued(t, n) = Tail(Delivery!Plan(t, n))
      BY <2>2 DEF Delivery!Queued
    <3>3. /\ Tail(Delivery!Plan(t, n)) \in Seq(Delivery!Pieces)
          /\ Len(Tail(Delivery!Plan(t, n))) = n - 1
          /\ Pieces(Tail(Delivery!Plan(t, n)), t, 1)
      BY <3>1, Planning
    <3> QED
      BY <1>1, <2>2, <3>1, <3>2, <3>3
  <2> QED
    BY <2>1, <2>2
<1>8. mode[t] = "reset" /\ delivered[Blank] = <<>> => prior \o first = <<<<t, 1>>>>
  <2>1. mode[t] = "reset" /\ delivered[Blank] = <<>> => prior = <<>> /\ n # 0
    BY <1>1 DEF Delivery!Prior
  <2> QED
    BY <2>1, <1>4, <1>5, ConcatEmptySeq
<1>9. /\ pending' \in [Delivery!Memories -> Seq(Delivery!Pieces)]
      /\ \A o \in Delivery!Memories \ {t} : pending'[o] = pending[o]
      /\ pending'[t] = Delivery!Queued(t, n)
  BY <1>1, <1>3, <1>7 DEF Delivery!TypeOK
<1>10. /\ delivered' \in [Delivery!Memories -> Seq(Delivery!Pieces)]
       /\ \A o \in Delivery!Memories \ {t} : delivered'[o] = delivered[o]
       /\ delivered'[t] = prior \o first
  BY <1>1, <1>3, <1>6 DEF Delivery!TypeOK
<1>11. size' \in [Turns -> 0..MaxParts] /\ (\A x \in Turns \ {t} : size'[x] = size[x])
           /\ size'[t] = n
  BY <1>1 DEF Delivery!TypeOK
<1> QED
  BY <1>2, <1>7, <1>8, <1>9, <1>10, <1>11 DEF Planned

\* A poll that finds a piece leaves it in the queue.
LEMMA PollFound ==
    ASSUME DeliveryTyped, NEW p \in Pollers, Delivery!PollChecks(p)
    PROVE  Found(p)
<1>1. /\ pc[p] = "check"
      /\ UNCHANGED <<store, pending, delivered, paused, snapshot, mode, keep, size, told, owner,
                     hushed, overlaps>>
      /\ p \in Delivery!Calls /\ Blank \in Delivery!Memories /\ ref[p] \in Delivery!Memories
  BY DEF Delivery!PollChecks, Delivery!memory, Delivery!history, Delivery!Calls,
     Delivery!Memories,
         DeliveryTyped, Delivery!TypeOK
<1>2. CASE /\ ~Delivery!Paused(ref[p]) /\ pending[ref[p]] # <<>>
           /\ Delivery!Due(Head(pending[ref[p]]))
           /\ head' = [head EXCEPT ![p] = <<Head(pending[ref[p]])>>]
           /\ Delivery!Goto(p, "take")
           /\ UNCHANGED ref
  <2>1. pending[ref[p]] \in Seq(Delivery!Pieces) /\ pending[ref[p]] # <<>>
    BY <1>1, <1>2 DEF DeliveryTyped, Delivery!TypeOK
  <2>2. /\ Head(pending[ref[p]]) = pending[ref[p]][1]
        /\ pending[ref[p]][1] \in Delivery!Pieces
    BY <2>1
  <2>3. ref[p] # Blank
    BY <1>2 DEF DeliveryTyped, Blanked
  <2>4. <<pending[ref[p]][1]>> \in Seq(Delivery!Pieces)
    BY <2>2
  <2> QED
    BY <1>1, <1>2, <2>2, <2>3, <2>4
       DEF DeliveryTyped, Delivery!TypeOK, Delivery!Goto, Delivery!Paused, Delivery!Due, Found,
           Others, CallsTyped
<1>3. CASE Delivery!PollReturns(p)
  BY <1>1, <1>3 DEF DeliveryTyped, Delivery!TypeOK, Delivery!Goto, Delivery!PollReturns, Found,
                     Others, CallsTyped, Leaves
<1> QED
  BY <1>2, <1>3 DEF Delivery!PollChecks

\* The poll moves the piece it has from the queue to the delivered ones.
LEMMA PollTook ==
    ASSUME DeliveryTyped, NEW p \in Pollers, Delivery!PollTakes(p)
    PROVE  Took(p)
<1> DEFINE o == ref[p]
<1>1. /\ pc[p] = "take" /\ p \in Delivery!Calls
      /\ UNCHANGED <<store, paused, snapshot, mode, keep, size, told, owner, hushed, overlaps>>
      /\ delivered' = [delivered EXCEPT ![o] = @ \o head[p]]
      /\ o \in Delivery!Memories /\ o # Blank /\ Blank \in Delivery!Memories
      /\ head[p] \in Seq(Delivery!Pieces) /\ pending[o] \in Seq(Delivery!Pieces)
      /\ delivered[o] \in Seq(Delivery!Pieces)
  BY DEF Delivery!PollTakes, Delivery!history, Delivery!Calls, DeliveryTyped, Delivery!TypeOK,
     Holding,
         InFlight, Delivery!Memories
<1>2. delivered[o] \o head[p] \in Seq(Delivery!Pieces)
  BY <1>1, ConcatProperties
<1>3. /\ delivered' \in [Delivery!Memories -> Seq(Delivery!Pieces)]
      /\ \A x \in Delivery!Memories \ {o} : delivered'[x] = delivered[x]
      /\ delivered'[o] = delivered[o] \o head[p]
  BY <1>1, <1>2 DEF DeliveryTyped, Delivery!TypeOK
<1>4. CASE /\ pending[o] # <<>>
           /\ pending' = [pending EXCEPT ![o] = Delivery!Rest(@)]
           /\ Delivery!Goto(p, "save")
           /\ UNCHANGED <<ref, head>>
  <2>1. /\ Tail(pending[o]) \in Seq(Delivery!Pieces)
        /\ Len(Tail(pending[o])) = Len(pending[o]) - 1
        /\ \A i \in 1..Len(Tail(pending[o])) : Tail(pending[o])[i] = pending[o][i + 1]
    BY <1>1, <1>4, HeadTailProperties
  <2>2. /\ pending' \in [Delivery!Memories -> Seq(Delivery!Pieces)]
        /\ \A x \in Delivery!Memories \ {o} : pending'[x] = pending[x]
        /\ pending'[o] = Tail(pending[o])
    BY <1>1, <1>4, <2>1 DEF DeliveryTyped, Delivery!TypeOK, Delivery!Rest
  <2>3. \A i \in DOMAIN pending'[o] :
          i + 1 \in DOMAIN pending[o] /\ pending'[o][i] = pending[o][i + 1]
    BY <1>1, <2>1, <2>2
  <2>4. /\ pc'[p] = "save" /\ \A c \in Delivery!Calls \ {p} : pc'[c] = pc[c]
        /\ pc' \in [Delivery!Calls -> {"idle", "decide", "plan", "save", "tell", "check", "take",
                                       "returned"}]
        /\ ref' \in [Delivery!Calls -> Delivery!Memories]
        /\ head' \in [Pollers -> Seq(Delivery!Pieces)]
    BY <1>1, <1>4 DEF DeliveryTyped, Delivery!TypeOK, Delivery!Goto
  <2> QED
    BY <1>1, <1>3, <1>4, <2>1, <2>2, <2>3, <2>4 DEF Took, Others, CallsTyped
<1>5. CASE pending[o] = <<>> /\ Delivery!PollReturns(p) /\ UNCHANGED pending
  <2>1. /\ pc'[p] = "idle" /\ ref'[p] = Blank /\ head'[p] = <<>>
        /\ \A c \in Delivery!Calls \ {p} : pc'[c] = pc[c] /\ ref'[c] = ref[c]
        /\ \A x \in Pollers \ {p} : head'[x] = head[x]
        /\ pc' \in [Delivery!Calls -> {"idle", "decide", "plan", "save", "tell", "check", "take",
                                       "returned"}]
        /\ ref' \in [Delivery!Calls -> Delivery!Memories]
        /\ head' \in [Pollers -> Seq(Delivery!Pieces)]
    BY <1>1, <1>5 DEF DeliveryTyped, Delivery!TypeOK, Delivery!Goto, Delivery!PollReturns
  <2>2. pending' \in [Delivery!Memories -> Seq(Delivery!Pieces)]
    BY <1>5 DEF DeliveryTyped, Delivery!TypeOK
  <2> QED
    BY <1>1, <1>3, <1>5, <2>1, <2>2 DEF Took, Others, CallsTyped, Leaves
<1> QED
  BY <1>4, <1>5 DEF Delivery!PollTakes

LEMMA TurnDecided ==
    ASSUME Delivery!TypeOK, NEW t \in Turns, Delivery!TurnDecides(t)
    PROVE  Decided(t)
<1>1. PICK d \in Delivery!Decisions : \E e \in Delivery!Normalized(d, ref[t]) :
        /\ mode' = [mode EXCEPT ![t] = Delivery!ModeOf(e, ref[t])]
        /\ keep' = [keep EXCEPT ![t] = e.delivered]
  BY DEF Delivery!TurnDecides
<1>2. PICK e \in {Delivery!NewTopic, Delivery!FollowUp, d} :
        /\ mode' = [mode EXCEPT ![t] = Delivery!ModeOf(e, ref[t])]
        /\ keep' = [keep EXCEPT ![t] = e.delivered]
  BY <1>1 DEF Delivery!Normalized
<1>3. e.delivered \in BOOLEAN
  <2>1. d.delivered \in BOOLEAN
    BY DEF Delivery!Decisions
  <2>2. Delivery!NewTopic.delivered \in BOOLEAN /\ Delivery!FollowUp.delivered \in BOOLEAN
    BY DEF Delivery!NewTopic, Delivery!FollowUp
  <2> QED
    BY <1>2, <2>1, <2>2
<1>4. /\ Delivery!ModeOf(e, ref[t]) \in {"none", "resume", "replan", "reset"}
      /\ Delivery!ModeOf(e, ref[t]) = "resume" => ref[t] \in Turns
  BY DEF Delivery!ModeOf, Delivery!Answered
<1> QED
  BY <1>2, <1>3, <1>4
     DEF Delivery!TypeOK, Delivery!TurnDecides, Delivery!memory, Delivery!history, Delivery!Goto,
         Decided

\* A poll tells the user the piece it holds.
LEMMA PollTold ==
    ASSUME DeliveryTyped, NEW p \in Pollers, Delivery!PollTells(p)
    PROVE  Told(p)
<1> DEFINE x == head[p][1][1]
           k == head[p][1][2]
<1>1. /\ pc[p] = "tell" /\ p \in Delivery!Calls /\ Blank \in Delivery!Memories
      /\ UNCHANGED <<store, pending, delivered, paused, snapshot, mode, keep, size, owner, hushed,
                     overlaps>>
      /\ told' = [told EXCEPT ![x] = Append(@, k)]
      /\ Delivery!PollReturns(p)
  BY DEF Delivery!PollTells, Delivery!memory, Delivery!Calls, Delivery!Memories
<1>2. head[p] \in Seq(Delivery!Pieces) /\ Len(head[p]) = 1
  BY <1>1 DEF DeliveryTyped, Delivery!TypeOK, Holding, InFlight
<1>3. head[p][1] \in Delivery!Pieces /\ head[p] = <<head[p][1]>>
  BY <1>2
<1>4. x \in Turns /\ k \in 1..MaxParts /\ head[p] = <<<<x, k>>>>
  BY <1>3 DEF Delivery!Pieces
<1> HIDE DEF x, k
<1>5. /\ told' \in [Turns -> Seq(1..MaxParts)] /\ told'[x] = Append(told[x], k)
      /\ \A y \in Turns \ {x} : told'[y] = told[y]
  <2>1. told[x] \in Seq(1..MaxParts) /\ Append(told[x], k) \in Seq(1..MaxParts)
    BY <1>4, AppendProperties DEF DeliveryTyped, Delivery!TypeOK
  <2> QED
    BY <1>1, <1>4, <2>1 DEF DeliveryTyped, Delivery!TypeOK
<1>6. /\ \A c \in Delivery!Calls \ {p} : pc'[c] = pc[c] /\ ref'[c] = ref[c]
      /\ \A y \in Pollers \ {p} : head'[y] = head[y]
      /\ pc'[p] = "idle" /\ ref'[p] = Blank /\ head'[p] = <<>>
      /\ pc' \in [Delivery!Calls -> {"idle", "decide", "plan", "save", "tell", "check", "take",
                                     "returned"}]
      /\ ref' \in [Delivery!Calls -> Delivery!Memories]
      /\ head' \in [Pollers -> Seq(Delivery!Pieces)]
  BY <1>1 DEF DeliveryTyped, Delivery!TypeOK, Delivery!Goto, Delivery!PollReturns
<1> QED
  BY <1>1, <1>4, <1>5, <1>6 DEF Told, Others, CallsTyped, Leaves

\* A call that is not a poll leaves the polls alone.
LEMMA PollsStay ==
    ASSUME DeliveryTyped, NEW c \in Delivery!Calls, c \notin Pollers, head' = head,
           NEW there, pc' = [pc EXCEPT ![c] = there],
           \/ ref' = ref
           \/ \E o : ref' = [ref EXCEPT ![c] = o]
    PROVE  /\ \A p \in Pollers : pc'[p] = pc[p] /\ ref'[p] = ref[p]
           /\ Holding'
<1>1. \A p \in Pollers : pc'[p] = pc[p] /\ ref'[p] = ref[p]
  BY DEF DeliveryTyped, Delivery!TypeOK, Delivery!Calls
<1> QED
  BY <1>1 DEF DeliveryTyped, Holding, InFlight

\* A poll leaves the other polls alone.
LEMMA OthersHold ==
    ASSUME DeliveryTyped, NEW p \in Pollers, Others(p),
           pc'[p] \in {"take", "save", "tell"} => Len(head'[p]) = 1 /\ ref'[p] # Blank
    PROVE  Holding'
<1>1. \A x \in Pollers \ {p} : pc'[x] = pc[x] /\ ref'[x] = ref[x] /\ head'[x] = head[x]
  BY DEF Others, Delivery!Calls
<1> QED
  BY <1>1 DEF DeliveryTyped, Holding, InFlight

LEMMA DeliveryTypes == DeliveryTyped /\ Delivery!Next => DeliveryTyped'
<1> SUFFICES ASSUME DeliveryTyped, Delivery!Next PROVE DeliveryTyped'
  OBVIOUS
<1> DEFINE Spots == {"idle", "decide", "plan", "save", "tell", "check", "take", "returned"}
<1>0. /\ Turns \subseteq Delivery!Calls /\ Pollers \subseteq Delivery!Calls
      /\ Pausers \subseteq Delivery!Calls /\ Turns \subseteq Delivery!Memories
      /\ Pausers \subseteq Delivery!Memories /\ Blank \in Delivery!Memories
  BY DEF Delivery!Calls, Delivery!Memories
<1>b. ASSUME NEW c \in Delivery!Calls, Delivery!Begin(c)
      PROVE  overlaps' \subseteq {"polls", "others"}
  BY <1>b DEF DeliveryTyped, Delivery!TypeOK, Delivery!Begin
<1>1. ASSUME NEW t \in Turns, Delivery!TurnReads(t) PROVE DeliveryTyped'
  <2>1. /\ pc' = [pc EXCEPT ![t] = "decide"] /\ ref' = [ref EXCEPT ![t] = store]
        /\ snapshot' = [snapshot EXCEPT ![t] = pending[store]] /\ hushed' = FALSE
        /\ UNCHANGED <<store, pending, delivered, paused, mode, keep, head, size, told, owner>>
    BY <1>1 DEF Delivery!TurnReads, Delivery!Goto, Delivery!memory
  <2>2. Delivery!TypeOK'
    <3>1. overlaps' \subseteq {"polls", "others"}
      BY <1>0, <1>1, <1>b DEF Delivery!TurnReads
    <3>2. pending[store] \in Seq(Delivery!Pieces)
      BY DEF DeliveryTyped, Delivery!TypeOK
    <3> QED
      BY <1>0, <2>1, <3>1, <3>2 DEF DeliveryTyped, Delivery!TypeOK
  <2>3. Holding' /\ Blanked'
    <3>1. Holding'
      BY <1>0, <2>1, Names, PollsStay
    <3>2. Blanked'
      BY <1>0, <2>1, Names DEF DeliveryTyped, Delivery!TypeOK, Blanked
    <3> QED
      BY <3>1, <3>2
  <2> QED
    BY <2>2, <2>3 DEF DeliveryTyped
<1>2. ASSUME NEW t \in Turns, Delivery!TurnFails(t) \/ Delivery!TurnPasses(t) PROVE DeliveryTyped'
  <2>1. /\ pc' = [pc EXCEPT ![t] = "returned"] /\ store' \in {store, Blank}
        /\ owner' \in {owner, Blank}
        /\ hushed' = FALSE
        /\ UNCHANGED <<pending, delivered, paused, ref, snapshot, mode, keep, head, size, told>>
    BY <1>2 DEF Delivery!TurnFails, Delivery!TurnPasses, Delivery!Goto, Delivery!memory,
       Delivery!locals
  <2>2. Delivery!TypeOK'
    BY <1>0, <1>2, <1>b, <2>1
       DEF DeliveryTyped, Delivery!TypeOK, Delivery!TurnFails, Delivery!TurnPasses
  <2>3. Holding' /\ Blanked'
    <3>1. Holding'
      BY <1>0, <2>1, Names, PollsStay
    <3>2. Blanked'
      BY <1>0, <2>1, Names DEF DeliveryTyped, Delivery!TypeOK, Blanked
    <3> QED
      BY <3>1, <3>2
  <2> QED
    BY <2>2, <2>3 DEF DeliveryTyped
<1>3. ASSUME NEW t \in Turns, Delivery!TurnDecides(t) PROVE DeliveryTyped'
  <2>0. Decided(t)
    BY <1>3, TurnDecided DEF DeliveryTyped
  <2>1. Delivery!TypeOK'
    BY <1>0, <2>0 DEF DeliveryTyped, Delivery!TypeOK, Decided
  <2>2. Holding' /\ Blanked'
    <3>1. Holding'
      BY <1>0, <2>0, Names, PollsStay DEF Decided
    <3>2. Blanked'
      BY <1>0, <2>0, Names DEF DeliveryTyped, Delivery!TypeOK, Decided, Blanked
    <3> QED
      BY <3>1, <3>2
  <2> QED
    BY <2>1, <2>2 DEF DeliveryTyped
<1>4. ASSUME NEW t \in Turns, Delivery!TurnPlans(t) PROVE DeliveryTyped'
  <2>0. Planned(t)
    BY <1>4, TurnPlanned DEF DeliveryTyped
  <2>1. Delivery!TypeOK'
    BY <1>0, <2>0 DEF DeliveryTyped, Delivery!TypeOK, Planned
  <2>2. Holding' /\ Blanked'
    <3>1. Holding'
      BY <1>0, <2>0, Names, PollsStay DEF Planned
    <3>2. Blanked'
      BY <1>0, <2>0, Names DEF DeliveryTyped, Delivery!TypeOK, Planned, Blanked
    <3> QED
      BY <3>1, <3>2
  <2> QED
    BY <2>1, <2>2 DEF DeliveryTyped
<1>5. ASSUME NEW t \in Turns, Delivery!TurnSaves(t) PROVE DeliveryTyped'
  <2>1. /\ pc' = [pc EXCEPT ![t] = "tell"] /\ store' = t /\ owner' \in {owner, t}
        /\ UNCHANGED <<pending, delivered, paused, ref, snapshot, mode, keep, head, size, told,
                       hushed, overlaps>>
    BY <1>5 DEF Delivery!TurnSaves, Delivery!Goto, Delivery!locals
  <2>2. Delivery!TypeOK'
    BY <1>0, <2>1 DEF DeliveryTyped, Delivery!TypeOK
  <2>3. Holding' /\ Blanked'
    <3>1. Holding'
      BY <1>0, <2>1, Names, PollsStay
    <3>2. Blanked'
      BY <1>0, <2>1, Names DEF DeliveryTyped, Delivery!TypeOK, Blanked
    <3> QED
      BY <3>1, <3>2
  <2> QED
    BY <2>2, <2>3 DEF DeliveryTyped
<1>6. ASSUME NEW t \in Turns, Delivery!TurnTells(t) PROVE DeliveryTyped'
  <2>1. /\ pc' = [pc EXCEPT ![t] = "returned"] /\ ref' = [ref EXCEPT ![t] = Blank]
        /\ snapshot' = [snapshot EXCEPT ![t] = <<>>] /\ keep' = [keep EXCEPT ![t] = FALSE]
        /\ told' \in {told, [told EXCEPT ![t] = Append(told[t], 1)]}
        /\ UNCHANGED <<store, pending, delivered, paused, mode, head, size, owner, hushed,
                       overlaps>>
    BY <1>6 DEF Delivery!TurnTells, Delivery!Goto, Delivery!memory
  <2>2. told[t] \in Seq(1..MaxParts) /\ 1 \in 1..MaxParts
    BY Names DEF DeliveryTyped, Delivery!TypeOK
  <2>3. Append(told[t], 1) \in Seq(1..MaxParts)
    BY <2>2, AppendProperties
  <2>4. Delivery!TypeOK'
    <3>1. told' \in [Turns -> Seq(1..MaxParts)]
      BY <2>1, <2>3 DEF DeliveryTyped, Delivery!TypeOK
    <3>2. snapshot' \in [Turns -> Seq(Delivery!Pieces)]
      <4>1. <<>> \in Seq(Delivery!Pieces)
        OBVIOUS
      <4> QED
        BY <2>1, <4>1 DEF DeliveryTyped, Delivery!TypeOK
    <3> QED
      BY <1>0, <2>1, <3>1, <3>2 DEF DeliveryTyped, Delivery!TypeOK
  <2>5. Holding' /\ Blanked'
    <3>1. Holding'
      BY <1>0, <2>1, Names, PollsStay
    <3>2. Blanked'
      BY <1>0, <2>1, Names DEF DeliveryTyped, Delivery!TypeOK, Blanked
    <3> QED
      BY <3>1, <3>2
  <2> QED
    BY <2>4, <2>5 DEF DeliveryTyped
<1>7. ASSUME NEW p \in Pollers, Delivery!PollGets(p) PROVE DeliveryTyped'
  <2>1. /\ pc' = [pc EXCEPT ![p] = "check"] /\ ref' = [ref EXCEPT ![p] = store]
        /\ UNCHANGED <<store, pending, delivered, paused, snapshot, mode, keep, head, size,
                       told, owner, hushed>>
    BY <1>7 DEF Delivery!PollGets, Delivery!Goto, Delivery!memory
  <2>2. Delivery!TypeOK'
    BY SMTT(30), <1>0, <1>7, <1>b, <2>1 DEF DeliveryTyped, Delivery!TypeOK, Delivery!PollGets
  <2>3. Holding' /\ Blanked'
    <3>1. ASSUME NEW x \in Pollers, InFlight(x)' PROVE Len(head'[x]) = 1 /\ ref'[x] # Blank
      BY <1>0, <2>1, <3>1 DEF DeliveryTyped, Delivery!TypeOK, Holding, InFlight
    <3>2. Blanked'
      BY <1>0, <2>1 DEF DeliveryTyped, Delivery!TypeOK, Blanked
    <3> QED
      BY <3>1, <3>2 DEF Holding
  <2> QED
    BY <2>2, <2>3 DEF DeliveryTyped
<1>8. ASSUME NEW p \in Pollers, Delivery!PollChecks(p) PROVE DeliveryTyped'
  <2>0. Found(p)
    BY <1>8, PollFound DEF DeliveryTyped
  <2>1. Delivery!TypeOK'
    BY <1>0, <2>0 DEF DeliveryTyped, Delivery!TypeOK, Found, Others, CallsTyped, Leaves
  <2>2. Holding' /\ Blanked'
    <3>1. Others(p)
      BY <2>0 DEF Found
    <3>2. pc'[p] \in {"take", "save", "tell"} => Len(head'[p]) = 1 /\ ref'[p] # Blank
      <4>1. Len(<<pending[ref[p]][1]>>) = 1
        OBVIOUS
      <4> QED
        BY <2>0, <4>1 DEF Found, Leaves
    <3>3. Holding'
      BY <3>1, <3>2, OthersHold
    <3>4. Blanked'
      BY <1>0, <2>0 DEF DeliveryTyped, Delivery!TypeOK, Found, Others, CallsTyped, Leaves, Blanked
    <3> QED
      BY <3>3, <3>4
  <2> QED
    BY <2>1, <2>2 DEF DeliveryTyped
<1>9. ASSUME NEW p \in Pollers, Delivery!PollTakes(p) PROVE DeliveryTyped'
  <2>0. Took(p)
    BY <1>9, PollTook DEF DeliveryTyped
  <2>1. Delivery!TypeOK'
    BY <1>0, <2>0 DEF DeliveryTyped, Delivery!TypeOK, Took, Others, CallsTyped, Leaves
  <2>2. Holding' /\ Blanked'
    <3>1. Others(p)
      BY <2>0 DEF Took
    <3>2. pc'[p] \in {"take", "save", "tell"} => Len(head'[p]) = 1 /\ ref'[p] # Blank
      BY <2>0 DEF DeliveryTyped, Took, Leaves, Holding, InFlight
    <3>3. Holding'
      BY <3>1, <3>2, OthersHold
    <3>4. Blanked'
      BY <1>0, <2>0 DEF DeliveryTyped, Delivery!TypeOK, Took, Others, CallsTyped, Leaves, Blanked
    <3> QED
      BY <3>3, <3>4
  <2> QED
    BY <2>1, <2>2 DEF DeliveryTyped
<1>10. ASSUME NEW p \in Pollers, Delivery!PollSaves(p) PROVE DeliveryTyped'
  <2>1. /\ pc[p] = "save" /\ pc' = [pc EXCEPT ![p] = "tell"] /\ store' = ref[p]
        /\ UNCHANGED <<pending, delivered, paused, ref, snapshot, mode, keep, head, size, told,
                       owner, hushed, overlaps>>
    BY <1>10 DEF Delivery!PollSaves, Delivery!Goto, Delivery!locals, Delivery!history
  <2>2. Delivery!TypeOK'
    BY <1>0, <2>1 DEF DeliveryTyped, Delivery!TypeOK
  <2>3. Holding' /\ Blanked'
    <3>1. ASSUME NEW x \in Pollers, InFlight(x)' PROVE Len(head'[x]) = 1 /\ ref'[x] # Blank
      BY <1>0, <2>1, <3>1 DEF DeliveryTyped, Delivery!TypeOK, Holding, InFlight
    <3>2. Blanked'
      BY <1>0, <2>1 DEF DeliveryTyped, Delivery!TypeOK, Blanked
    <3> QED
      BY <3>1, <3>2 DEF Holding
  <2> QED
    BY <2>2, <2>3 DEF DeliveryTyped
<1>11. ASSUME NEW p \in Pollers, Delivery!PollTells(p) PROVE DeliveryTyped'
  <2>0. Told(p)
    BY <1>11, PollTold DEF DeliveryTyped
  <2>1. Delivery!TypeOK'
    BY <1>0, <2>0 DEF DeliveryTyped, Delivery!TypeOK, Told, Others, CallsTyped, Leaves
  <2>2. Holding' /\ Blanked'
    <3>1. Others(p)
      BY <2>0 DEF Told
    <3>2. pc'[p] \in {"take", "save", "tell"} => Len(head'[p]) = 1 /\ ref'[p] # Blank
      BY <2>0 DEF DeliveryTyped, Told, Leaves, Holding, InFlight
    <3>3. Holding'
      BY <3>1, <3>2, OthersHold
    <3>4. Blanked'
      BY <1>0, <2>0 DEF DeliveryTyped, Delivery!TypeOK, Told, Others, CallsTyped, Leaves, Blanked
    <3> QED
      BY <3>3, <3>4
  <2> QED
    BY <2>1, <2>2 DEF DeliveryTyped
<1>12. ASSUME NEW u \in Pausers, Delivery!PauseMarks(u) PROVE DeliveryTyped'
  <2>1. PICK o \in {u, store} :
          /\ ref' = [ref EXCEPT ![u] = o] /\ paused' = [paused EXCEPT ![o] = TRUE]
    BY <1>12 DEF Delivery!PauseMarks
  <2>2. /\ pc' = [pc EXCEPT ![u] = "save"]
        /\ UNCHANGED <<store, pending, delivered, snapshot, mode, keep, head, size, told, owner,
                       hushed>>
    BY <1>12 DEF Delivery!PauseMarks, Delivery!Goto
  <2>3. Delivery!TypeOK'
    BY <1>0, <1>12, <1>b, <2>1, <2>2 DEF DeliveryTyped, Delivery!TypeOK, Delivery!PauseMarks
  <2>4. Holding' /\ Blanked'
    <3>1. Holding'
      BY <1>0, <2>1, <2>2, Names, PollsStay
    <3>2. Blanked'
      BY <1>0, <2>1, <2>2, Names DEF DeliveryTyped, Delivery!TypeOK, Blanked
    <3> QED
      BY <3>1, <3>2
  <2> QED
    BY <2>3, <2>4 DEF DeliveryTyped
<1>13. ASSUME NEW u \in Pausers, Delivery!PauseSaves(u) PROVE DeliveryTyped'
  <2>1. /\ pc' = [pc EXCEPT ![u] = "returned"] /\ store' = ref[u] /\ hushed' = TRUE
        /\ UNCHANGED <<pending, delivered, paused, ref, snapshot, mode, keep, head, size, told,
                       owner, overlaps>>
    BY <1>13 DEF Delivery!PauseSaves, Delivery!Goto, Delivery!locals
  <2>2. Delivery!TypeOK'
    BY <1>0, <2>1 DEF DeliveryTyped, Delivery!TypeOK
  <2>3. Holding' /\ Blanked'
    <3>1. Holding'
      BY <1>0, <2>1, Names, PollsStay
    <3>2. Blanked'
      BY <1>0, <2>1, Names DEF DeliveryTyped, Delivery!TypeOK, Blanked
    <3> QED
      BY <3>1, <3>2
  <2> QED
    BY <2>2, <2>3 DEF DeliveryTyped
<1> QED
  BY <1>1, <1>2, <1>3, <1>4, <1>5, <1>6, <1>7, <1>8, <1>9, <1>10, <1>11, <1>12, <1>13
     DEF Delivery!Next

-----------------------------------------------------------------------------
(* Delivery: a new topic *)

\* A turn that has not put its memory together yet.
Unborn(t) == pc[t] \in {"idle", "decide", "plan"}

\* Nobody knows the memory of such a turn, and there is nothing in it.
Fresh ==
    /\ \A t \in Turns : Unborn(t) =>
         /\ store # t /\ \A c \in Delivery!Calls : ref[c] # t
         /\ pending[t] = <<>> /\ delivered[t] = <<>>
    /\ delivered[Blank] = <<>>

\* A piece on its way from a memory that forgot the old topic is of the new one.
OwnPiece ==
    \A p \in Pollers : InFlight(p) /\ ref[p] \in Turns /\ mode[ref[p]] = "reset" =>
        head[p][1][1] = ref[p]

ResetInv == Fresh /\ OwnPiece /\ Delivery!ResetForgets

\* A step that moves no pieces and shows nobody an unborn memory.
LEMMA ResetKept ==
    ASSUME DeliveryTyped, ResetInv, UNCHANGED <<pending, delivered, mode>>,
           \A t \in Turns : Unborn(t)' =>
              Unborn(t) /\ store' # t /\ \A c \in Delivery!Calls : ref'[c] # t,
           \A p \in Pollers : InFlight(p)' =>
              InFlight(p) /\ ref'[p] = ref[p] /\ head'[p] = head[p]
    PROVE  ResetInv'
<1>1. Fresh'
  BY DEF ResetInv, Fresh
<1>2. OwnPiece'
  BY DEF ResetInv, OwnPiece
<1>3. Delivery!ResetForgets'
  BY DEF ResetInv, Delivery!ResetForgets
<1> QED
  BY <1>1, <1>2, <1>3 DEF ResetInv

\* What call c learns of, or stores, is what it knew, or a memory of its own.
LEMMA NotShown ==
    ASSUME ResetInv, NEW c \in Delivery!Calls, NEW x \in Turns, Unborn(x)',
           \A d \in Delivery!Calls \ {c} : pc'[d] = pc[d] /\ ref'[d] = ref[d],
           c = x => Unborn(c),
           store' \in {store, Blank, ref[c]}
             \/ (store' = c /\ (c \in Turns => ~Unborn(c)')),
           ref'[c] \in {store, Blank, ref[c]} \/ (ref'[c] = c /\ c \notin Turns)
    PROVE  Unborn(x) /\ store' # x /\ \A d \in Delivery!Calls : ref'[d] # x
<1>1. x \in Delivery!Calls /\ x # Blank
  BY Names DEF Delivery!Calls
<1>2. Unborn(x)
  BY <1>1 DEF Unborn
<1>3. store # x /\ \A d \in Delivery!Calls : ref[d] # x
  BY <1>2 DEF ResetInv, Fresh
<1>4. store' # x
  BY <1>1, <1>3
<1>5. \A d \in Delivery!Calls : ref'[d] # x
  BY <1>1, <1>3
<1> QED
  BY <1>2, <1>4, <1>5

LEMMA ResetDecided ==
    ASSUME DeliveryTyped, ResetInv, NEW t \in Turns, Decided(t)
    PROVE  ResetInv'
<1>1. /\ Unborn(t) /\ UNCHANGED <<store, ref, pending, delivered, head>>
      /\ \A x \in Turns \ {t} : mode'[x] = mode[x]
      /\ \A x \in Turns : Unborn(x)' => Unborn(x)
      /\ \A p \in Pollers : InFlight(p)' <=> InFlight(p)
      /\ Pollers \subseteq Delivery!Calls
  BY Names DEF Decided, Unborn, InFlight, DeliveryTyped, Delivery!TypeOK, Delivery!Calls
<1>2. pending[t] = <<>> /\ delivered[t] = <<>> /\ \A c \in Delivery!Calls : ref[c] # t
  BY <1>1 DEF ResetInv, Fresh
<1>3. Fresh'
  BY <1>1 DEF ResetInv, Fresh
<1>4. OwnPiece'
  BY <1>1, <1>2 DEF ResetInv, OwnPiece
<1>5. Delivery!ResetForgets'
  BY <1>1, <1>2 DEF ResetInv, Delivery!ResetForgets
<1> QED
  BY <1>3, <1>4, <1>5 DEF ResetInv

LEMMA ResetPlanned ==
    ASSUME DeliveryTyped, ResetInv, NEW t \in Turns, Planned(t)
    PROVE  ResetInv'
<1>1. /\ Unborn(t) /\ ~Unborn(t)' /\ UNCHANGED <<store, ref, mode, head>>
      /\ \A x \in Turns \ {t} : pending'[x] = pending[x] /\ delivered'[x] = delivered[x]
      /\ \A x \in Turns \ {t} : Unborn(x)' <=> Unborn(x)
      /\ \A p \in Pollers : InFlight(p)' <=> InFlight(p)
      /\ Pollers \subseteq Delivery!Calls /\ delivered'[Blank] = delivered[Blank]
      /\ delivered[Blank] = <<>>
  <2>1. /\ Turns \subseteq Delivery!Calls /\ Pollers \subseteq Delivery!Calls
        /\ Turns \subseteq Delivery!Memories /\ Blank \in Delivery!Memories
        /\ delivered[Blank] = <<>> /\ t # Blank
    BY Names DEF Delivery!Calls, Delivery!Memories, ResetInv, Fresh
  <2>2. /\ pc[t] = "plan" /\ pc'[t] = "save"
        /\ \A c \in Delivery!Calls \ {t} : pc'[c] = pc[c]
    BY <2>1 DEF Planned, DeliveryTyped, Delivery!TypeOK
  <2>3. \A p \in Pollers : p # t
    BY Names
  <2> QED
    BY <2>1, <2>2, <2>3 DEF Planned, Unborn, InFlight
<1>2. Fresh'
  BY <1>1 DEF ResetInv, Fresh
<1>3. OwnPiece'
  BY <1>1 DEF ResetInv, OwnPiece
<1>4. mode[t] = "reset" => /\ \A i \in DOMAIN pending'[t] : pending'[t][i][1] = t
                           /\ \A i \in DOMAIN delivered'[t] : delivered'[t][i][1] = t
  <2>1. ASSUME mode[t] = "reset"
        PROVE  Pieces(pending'[t], t, 1) /\ delivered'[t] = <<<<t, 1>>>>
    BY <1>1, <2>1 DEF Planned
  <2> QED
    BY <2>1 DEF Pieces
<1>5. Delivery!ResetForgets'
  BY <1>1, <1>4 DEF ResetInv, Delivery!ResetForgets
<1> QED
  BY <1>2, <1>3, <1>5 DEF ResetInv

LEMMA ResetFound ==
    ASSUME DeliveryTyped, ResetInv, NEW p \in Pollers, Found(p)
    PROVE  ResetInv'
<1>1. /\ UNCHANGED <<store, pending, delivered, mode>> /\ ref'[p] \in {ref[p], Blank}
      /\ \A c \in Delivery!Calls \ {p} : pc'[c] = pc[c] /\ ref'[c] = ref[c]
      /\ \A x \in Pollers \ {p} : head'[x] = head[x]
      /\ Pollers \subseteq Delivery!Calls /\ Turns \subseteq Delivery!Calls
  BY DEF Found, Others, Leaves, Delivery!Calls
<1>2. \A t \in Turns : Unborn(t)' <=> Unborn(t)
  BY <1>1, Names DEF Unborn
<1>3. Fresh'
  BY <1>1, <1>2, Names DEF ResetInv, Fresh
<1>4. OwnPiece'
  <2>1. ASSUME InFlight(p)', ref'[p] \in Turns, mode[ref'[p]] = "reset"
        PROVE  head'[p][1][1] = ref'[p]
    <3>1. /\ ref'[p] = ref[p] /\ pending[ref[p]] # <<>>
          /\ head'[p] = <<pending[ref[p]][1]>>
      BY <2>1 DEF Found, Leaves, InFlight
    <3>2. pending[ref[p]] \in Seq(Delivery!Pieces)
      BY <2>1, <3>1 DEF DeliveryTyped, Delivery!TypeOK, Delivery!Memories
    <3>3. 1 \in DOMAIN pending[ref[p]]
      BY <3>1, <3>2
    <3>4. pending[ref[p]][1][1] = ref[p]
      BY <2>1, <3>1, <3>3 DEF ResetInv, Delivery!ResetForgets
    <3> QED
      BY <3>1, <3>4
  <2>2. ASSUME NEW x \in Pollers \ {p}
        PROVE  (InFlight(x)' <=> InFlight(x)) /\ ref'[x] = ref[x] /\ head'[x] = head[x]
    BY <1>1 DEF InFlight
  <2> QED
    BY <1>1, <2>1, <2>2 DEF ResetInv, OwnPiece
<1>5. Delivery!ResetForgets'
  BY <1>1 DEF ResetInv, Delivery!ResetForgets
<1> QED
  BY <1>3, <1>4, <1>5 DEF ResetInv

LEMMA ResetTook ==
    ASSUME DeliveryTyped, ResetInv, NEW p \in Pollers, Took(p)
    PROVE  ResetInv'
<1> DEFINE o == ref[p]
<1>1. /\ UNCHANGED <<store, mode>> /\ ref'[p] \in {o, Blank} /\ InFlight(p)
      /\ \A c \in Delivery!Calls \ {p} : pc'[c] = pc[c] /\ ref'[c] = ref[c]
      /\ \A x \in Pollers \ {p} : head'[x] = head[x]
      /\ Pollers \subseteq Delivery!Calls /\ Turns \subseteq Delivery!Calls
      /\ o \in Delivery!Memories /\ o # Blank
      /\ Turns \subseteq Delivery!Memories /\ Blank \in Delivery!Memories
      /\ \A x \in Delivery!Memories \ {o} : pending'[x] = pending[x]
         /\ delivered'[x] = delivered[x]
      /\ delivered'[o] = delivered[o] \o head[p]
      /\ InFlight(p)' => ref'[p] = o /\ head'[p] = head[p]
  BY DEF Took, Others, Leaves, Delivery!Calls, Delivery!Memories, InFlight
<1>2. \A t \in Turns : Unborn(t)' <=> Unborn(t)
  BY <1>1, Names DEF Unborn
<1>3. Fresh'
  <2>1. \A t \in Turns : Unborn(t) => t # o
    BY <1>1 DEF ResetInv, Fresh
  <2> QED
    BY <1>1, <1>2, <2>1, Names DEF ResetInv, Fresh
<1>4. OwnPiece'
  <2>1. ASSUME NEW x \in Pollers \ {p}
        PROVE  (InFlight(x)' <=> InFlight(x)) /\ ref'[x] = ref[x] /\ head'[x] = head[x]
    BY <1>1 DEF InFlight
  <2> QED
    BY <1>1, <2>1 DEF ResetInv, OwnPiece
<1>5. ASSUME o \in Turns, mode[o] = "reset"
      PROVE  /\ \A i \in DOMAIN pending'[o] : pending'[o][i][1] = o
             /\ \A i \in DOMAIN delivered'[o] : delivered'[o][i][1] = o
  <2>1. /\ \A i \in DOMAIN pending[o] : pending[o][i][1] = o
        /\ \A i \in DOMAIN delivered[o] : delivered[o][i][1] = o
    BY <1>5 DEF ResetInv, Delivery!ResetForgets
  <2>2. head[p][1][1] = o
    BY <1>1, <1>5 DEF ResetInv, OwnPiece
  <2>3. /\ head[p] \in Seq(Delivery!Pieces) /\ Len(head[p]) = 1
        /\ delivered[o] \in Seq(Delivery!Pieces) /\ pending[o] \in Seq(Delivery!Pieces)
    BY <1>1 DEF DeliveryTyped, Delivery!TypeOK, Holding
  <2>4. \A i \in DOMAIN pending'[o] : pending'[o][i][1] = o
    BY <2>1 DEF Took
  <2>5. \A i \in DOMAIN delivered'[o] : delivered'[o][i][1] = o
    <3>1. /\ delivered'[o] \in Seq(Delivery!Pieces)
          /\ Len(delivered'[o]) = Len(delivered[o]) + 1
          /\ \A i \in 1..(Len(delivered[o]) + 1) : delivered'[o][i] =
                IF i <= Len(delivered[o]) THEN delivered[o][i]
                ELSE head[p][i - Len(delivered[o])]
      <4>1. /\ delivered[o] \o head[p] \in Seq(Delivery!Pieces)
            /\ Len(delivered[o] \o head[p]) = Len(delivered[o]) + Len(head[p])
            /\ \A i \in 1..Len(delivered[o]) + Len(head[p]) : (delivered[o] \o head[p])[i] =
                  IF i <= Len(delivered[o]) THEN delivered[o][i]
                  ELSE head[p][i - Len(delivered[o])]
        BY <2>3, ConcatProperties
      <4> QED
        BY <1>1, <2>3, <4>1
    <3>2. ASSUME NEW i \in 1..(Len(delivered[o]) + 1) PROVE delivered'[o][i][1] = o
      <4>1. CASE i <= Len(delivered[o])
        BY <2>1, <2>3, <3>1, <4>1
      <4>2. CASE i = Len(delivered[o]) + 1
        <5>1. i - Len(delivered[o]) = 1 /\ ~(i <= Len(delivered[o]))
          BY <2>3, <4>2
        <5> QED
          BY <2>2, <3>1, <5>1
      <4>3. i <= Len(delivered[o]) \/ i = Len(delivered[o]) + 1
        BY <2>3
      <4> QED
        BY <4>1, <4>2, <4>3
    <3> QED
      BY <3>1, <3>2
  <2> QED
    BY <2>4, <2>5
<1>6. Delivery!ResetForgets'
  <2>1. ASSUME NEW t \in Turns, mode[t] = "reset", t # o
        PROVE  pending'[t] = pending[t] /\ delivered'[t] = delivered[t]
    BY <1>1, <2>1
  <2>2. ASSUME NEW t \in Turns, mode[t] = "reset"
        PROVE  /\ \A i \in DOMAIN pending'[t] : pending'[t][i][1] = t
               /\ \A i \in DOMAIN delivered'[t] : delivered'[t][i][1] = t
    <3>1. CASE t = o
      BY <1>5, <2>2, <3>1
    <3>2. CASE t # o
      BY <2>1, <2>2, <3>2 DEF ResetInv, Delivery!ResetForgets
    <3> QED
      BY <3>1, <3>2
  <2> QED
    BY <1>1, <2>2 DEF Delivery!ResetForgets
<1> QED
  BY <1>3, <1>4, <1>6 DEF ResetInv

LEMMA ResetStep == DeliveryTyped /\ ResetInv /\ Delivery!Next => ResetInv'
<1> SUFFICES ASSUME DeliveryTyped, ResetInv, Delivery!Next PROVE ResetInv'
  OBVIOUS
<1>0. /\ Turns \subseteq Delivery!Calls /\ Pollers \subseteq Delivery!Calls
      /\ Pausers \subseteq Delivery!Calls
  BY DEF Delivery!Calls
<1>1. ASSUME NEW t \in Turns,
             Delivery!TurnReads(t) \/ Delivery!TurnFails(t) \/ Delivery!TurnPasses(t)
      PROVE  ResetInv'
  <2>1. /\ UNCHANGED <<pending, delivered, mode, head>> /\ pc[t] = "idle"
        /\ pc' \in {[pc EXCEPT ![t] = "decide"], [pc EXCEPT ![t] = "returned"]}
        /\ store' \in {store, Blank} /\ (ref' = ref \/ ref' = [ref EXCEPT ![t] = store])
    BY <1>1 DEF Delivery!TurnReads, Delivery!TurnFails, Delivery!TurnPasses, Delivery!Goto,
                Delivery!memory, Delivery!locals
  <2>2. ASSUME NEW x \in Turns, Unborn(x)'
        PROVE  Unborn(x) /\ store' # x /\ \A c \in Delivery!Calls : ref'[c] # x
    <3>1. /\ \A d \in Delivery!Calls \ {t} : pc'[d] = pc[d] /\ ref'[d] = ref[d]
          /\ pc'[t] \in {"decide", "returned"} /\ Unborn(t) /\ ref'[t] \in {store, ref[t]}
          /\ store' \in {store, Blank}
      BY <1>0, <2>1 DEF Unborn, DeliveryTyped, Delivery!TypeOK
    <3>2. t = x => Unborn(t)
      BY <2>2, <3>1 DEF Unborn
    <3>3. /\ store' \in {store, Blank, ref[t]}
             \/ (store' = t /\ (t \in Turns => ~Unborn(t)'))
          /\ ref'[t] \in {store, Blank, ref[t]} \/ (ref'[t] = t /\ t \notin Turns)
      BY <3>1, <3>2 DEF Unborn
    <3> QED
      BY <1>0, <2>2, <3>1, <3>2, <3>3, NotShown
  <2>3. \A p \in Pollers : InFlight(p)' =>
            InFlight(p) /\ ref'[p] = ref[p] /\ head'[p] = head[p]
    BY <1>0, <2>1, Names DEF InFlight, DeliveryTyped, Delivery!TypeOK
  <2> QED
    BY <2>1, <2>2, <2>3, ResetKept
<1>2. ASSUME NEW t \in Turns, Delivery!TurnSaves(t) \/ Delivery!TurnTells(t) PROVE ResetInv'
  <2>1. /\ UNCHANGED <<pending, delivered, mode, head>> /\ pc[t] \in {"save", "tell"}
        /\ pc' \in {[pc EXCEPT ![t] = "tell"], [pc EXCEPT ![t] = "returned"]}
        /\ store' \in {store, t} /\ (ref' = ref \/ ref' = [ref EXCEPT ![t] = Blank])
    BY <1>2 DEF Delivery!TurnSaves, Delivery!TurnTells, Delivery!Goto, Delivery!memory,
       Delivery!locals
  <2>2. ASSUME NEW x \in Turns, Unborn(x)'
        PROVE  Unborn(x) /\ store' # x /\ \A c \in Delivery!Calls : ref'[c] # x
    <3>1. /\ \A d \in Delivery!Calls \ {t} : pc'[d] = pc[d] /\ ref'[d] = ref[d]
          /\ pc'[t] \in {"tell", "returned"} /\ ref'[t] \in {Blank, ref[t]}
          /\ store' \in {store, t}
      BY <1>0, <2>1 DEF Unborn, DeliveryTyped, Delivery!TypeOK
    <3>2. t = x => Unborn(t)
      BY <2>2, <3>1 DEF Unborn
    <3>3. /\ store' \in {store, Blank, ref[t]}
             \/ (store' = t /\ (t \in Turns => ~Unborn(t)'))
          /\ ref'[t] \in {store, Blank, ref[t]} \/ (ref'[t] = t /\ t \notin Turns)
      BY <3>1, <3>2 DEF Unborn
    <3> QED
      BY <1>0, <2>2, <3>1, <3>2, <3>3, NotShown
  <2>3. \A p \in Pollers : InFlight(p)' =>
            InFlight(p) /\ ref'[p] = ref[p] /\ head'[p] = head[p]
    BY SMTT(30), <1>0, <2>1, Names DEF InFlight, DeliveryTyped, Delivery!TypeOK
  <2> QED
    BY <2>1, <2>2, <2>3, ResetKept
<1>3. ASSUME NEW p \in Pollers, Delivery!PollGets(p) \/ Delivery!PollSaves(p) PROVE ResetInv'
  <2>1. /\ UNCHANGED <<pending, delivered, mode, head>>
        /\ \/ /\ pc' = [pc EXCEPT ![p] = "check"] /\ store' = store
              /\ ref' = [ref EXCEPT ![p] = store]
           \/ /\ pc[p] = "save" /\ pc' = [pc EXCEPT ![p] = "tell"] /\ store' = ref[p]
              /\ ref' = ref
    BY <1>3 DEF Delivery!PollGets, Delivery!PollSaves, Delivery!Goto, Delivery!memory,
                Delivery!locals, Delivery!history
  <2>2. ASSUME NEW x \in Turns, Unborn(x)'
        PROVE  Unborn(x) /\ store' # x /\ \A c \in Delivery!Calls : ref'[c] # x
    <3>1. /\ \A d \in Delivery!Calls \ {p} : pc'[d] = pc[d] /\ ref'[d] = ref[d]
          /\ pc'[p] \in {"check", "tell"} /\ ref'[p] \in {store, ref[p]} /\ store' \in {store,
             ref[p]}
      BY <1>0, <2>1 DEF Unborn, DeliveryTyped, Delivery!TypeOK
    <3>2. p # x /\ p \notin Turns
      BY Names
    <3> QED
      BY <1>0, <2>2, <3>1, <3>2, NotShown
  <2>3. \A q \in Pollers : InFlight(q)' =>
            InFlight(q) /\ ref'[q] = ref[q] /\ head'[q] = head[q]
    BY <1>0, <2>1, Names DEF InFlight, DeliveryTyped, Delivery!TypeOK
  <2> QED
    BY <2>1, <2>2, <2>3, ResetKept
<1>4. ASSUME NEW p \in Pollers, Delivery!PollTells(p) PROVE ResetInv'
  <2>1. Told(p)
    BY <1>4, PollTold
  <2>2. ASSUME NEW x \in Turns, Unborn(x)'
        PROVE  Unborn(x) /\ store' # x /\ \A c \in Delivery!Calls : ref'[c] # x
    <3>1. /\ \A d \in Delivery!Calls \ {p} : pc'[d] = pc[d] /\ ref'[d] = ref[d]
          /\ store' = store /\ ref'[p] = Blank /\ pc'[p] = "idle"
      BY <2>1 DEF Told, Others, Leaves
    <3>2. p # x
      BY Names
    <3> QED
      BY <1>0, <2>2, <3>1, <3>2, NotShown
  <2>3. \A q \in Pollers : InFlight(q)' =>
            InFlight(q) /\ ref'[q] = ref[q] /\ head'[q] = head[q]
    BY <1>0, <2>1 DEF InFlight, Told, Others, Leaves
  <2>4. UNCHANGED <<pending, delivered, mode>>
    BY <2>1 DEF Told
  <2> QED
    BY <2>2, <2>3, <2>4, ResetKept
<1>5. ASSUME NEW u \in Pausers, Delivery!PauseMarks(u) \/ Delivery!PauseSaves(u) PROVE ResetInv'
  <2>1. /\ UNCHANGED <<pending, delivered, mode, head>>
        /\ pc' \in {[pc EXCEPT ![u] = "save"], [pc EXCEPT ![u] = "returned"]}
        /\ \/ store' = store /\ ref' \in {[ref EXCEPT ![u] = store], [ref EXCEPT ![u] = u]}
           \/ store' = ref[u] /\ ref' = ref
    BY <1>5 DEF Delivery!PauseMarks, Delivery!PauseSaves, Delivery!Goto, Delivery!locals
  <2>2. ASSUME NEW x \in Turns, Unborn(x)'
        PROVE  Unborn(x) /\ store' # x /\ \A c \in Delivery!Calls : ref'[c] # x
    <3>1. /\ \A d \in Delivery!Calls \ {u} : pc'[d] = pc[d] /\ ref'[d] = ref[d]
          /\ pc'[u] \in {"save", "returned"} /\ ref'[u] \in {store, u, ref[u]}
          /\ store' \in {store, ref[u]}
      BY <1>0, <2>1 DEF Unborn, DeliveryTyped, Delivery!TypeOK
    <3>2. u # x /\ u \notin Turns
      BY Names
    <3>3. /\ store' \in {store, Blank, ref[u]}
             \/ (store' = u /\ (u \in Turns => ~Unborn(u)'))
          /\ ref'[u] \in {store, Blank, ref[u]} \/ (ref'[u] = u /\ u \notin Turns)
      BY <3>1, <3>2 DEF Unborn
    <3> QED
      BY <1>0, <2>2, <3>1, <3>2, <3>3, NotShown
  <2>3. \A q \in Pollers : InFlight(q)' =>
            InFlight(q) /\ ref'[q] = ref[q] /\ head'[q] = head[q]
    BY <1>0, <2>1, Names DEF InFlight, DeliveryTyped, Delivery!TypeOK
  <2> QED
    BY <2>1, <2>2, <2>3, ResetKept
<1>6. ASSUME NEW t \in Turns, Delivery!TurnDecides(t) \/ Delivery!TurnPlans(t) PROVE ResetInv'
  BY <1>6, TurnDecided, TurnPlanned, ResetDecided, ResetPlanned DEF DeliveryTyped
<1>7. ASSUME NEW p \in Pollers, Delivery!PollChecks(p) \/ Delivery!PollTakes(p) PROVE ResetInv'
  BY <1>7, PollFound, PollTook, ResetFound, ResetTook
<1> QED
  BY <1>1, <1>2, <1>3, <1>4, <1>5, <1>6, <1>7 DEF Delivery!Next

-----------------------------------------------------------------------------
(* Delivery: calls that do not overlap, and a pause *)

\* While overlaps does not say otherwise, one call, or one poll, is at work.
Alone ==
    /\ overlaps = {} => \A c, d \in Delivery!Calls : Delivery!Busy(c) /\ Delivery!Busy(d) => c = d
    /\ "polls" \notin overlaps =>
         \A p, q \in Pollers : Delivery!Busy(p) /\ Delivery!Busy(q) => p = q

LEMMA Beginning ==
    ASSUME NEW c \in Delivery!Calls, pc[c] = "idle", Delivery!Begin(c)
    PROVE  /\ overlaps \subseteq overlaps'
           /\ overlaps' = {} => \A d \in Delivery!Calls : ~Delivery!Busy(d)
           /\ c \in Pollers /\ "polls" \notin overlaps' => \A p \in Pollers : ~Delivery!Busy(p)
<1> DEFINE others == {d \in Delivery!Calls \ {c} : Delivery!Busy(d)}
           kind(d) == IF {c, d} \subseteq Pollers THEN "polls" ELSE "others"
<1>1. overlaps' = overlaps \cup {kind(d) : d \in others}
  BY DEF Delivery!Begin
<1>2. ~Delivery!Busy(c)
  BY DEF Delivery!Busy
<1>3. \A d \in others : kind(d) \in overlaps'
  BY <1>1
<1>4. \A d \in Delivery!Calls : Delivery!Busy(d) => d \in others
  BY <1>2
<1>5. c \in Pollers => \A d \in Pollers : kind(d) = "polls"
  OBVIOUS
<1>6. Pollers \subseteq Delivery!Calls
  BY DEF Delivery!Calls
<1> HIDE DEF others, kind
<1>7. overlaps \subseteq overlaps'
  BY <1>1
<1>8. overlaps' = {} => \A d \in Delivery!Calls : ~Delivery!Busy(d)
  BY <1>3, <1>4
<1>9. c \in Pollers /\ "polls" \notin overlaps' => \A p \in Pollers : ~Delivery!Busy(p)
  BY <1>3, <1>4, <1>5, <1>6
<1> QED
  BY <1>7, <1>8, <1>9

\* A step is the step of one call: it begins, or it was at work.
LEMMA OneMoves ==
    ASSUME DeliveryTyped, Delivery!Next
    PROVE  \E c \in Delivery!Calls :
             /\ \A d \in Delivery!Calls \ {c} : pc'[d] = pc[d]
             /\ \/ pc[c] = "idle" /\ Delivery!Begin(c)
                \/ Delivery!Busy(c) /\ overlaps' = overlaps
<1>0. /\ Turns \subseteq Delivery!Calls /\ Pollers \subseteq Delivery!Calls
      /\ Pausers \subseteq Delivery!Calls
  BY DEF Delivery!Calls
<1>1. ASSUME NEW c \in Delivery!Calls, NEW there, pc' = [pc EXCEPT ![c] = there]
      PROVE  \A d \in Delivery!Calls \ {c} : pc'[d] = pc[d]
  BY <1>1 DEF DeliveryTyped, Delivery!TypeOK
<1>2. ASSUME NEW t \in Turns,
             Delivery!TurnReads(t) \/ Delivery!TurnFails(t) \/ Delivery!TurnPasses(t)
      PROVE  pc[t] = "idle" /\ Delivery!Begin(t) /\ \E there : pc' = [pc EXCEPT ![t] = there]
  BY <1>2 DEF Delivery!TurnReads, Delivery!TurnFails, Delivery!TurnPasses, Delivery!Goto
<1>3. ASSUME NEW t \in Turns,
             \/ Delivery!TurnDecides(t) \/ Delivery!TurnPlans(t)
             \/ Delivery!TurnSaves(t) \/ Delivery!TurnTells(t)
      PROVE  /\ Delivery!Busy(t) /\ overlaps' = overlaps
             /\ \E there : pc' = [pc EXCEPT ![t] = there]
  BY <1>3 DEF Delivery!TurnDecides, Delivery!TurnPlans, Delivery!TurnSaves, Delivery!TurnTells,
              Delivery!Goto, Delivery!Busy, Delivery!history
<1>4. ASSUME NEW p \in Pollers, Delivery!PollGets(p)
      PROVE  pc[p] = "idle" /\ Delivery!Begin(p) /\ \E there : pc' = [pc EXCEPT ![p] = there]
  BY <1>4 DEF Delivery!PollGets, Delivery!Goto
<1>5. ASSUME NEW p \in Pollers,
             \/ Delivery!PollChecks(p) \/ Delivery!PollTakes(p)
             \/ Delivery!PollSaves(p) \/ Delivery!PollTells(p)
      PROVE  /\ Delivery!Busy(p) /\ overlaps' = overlaps
             /\ \E there : pc' = [pc EXCEPT ![p] = there]
  BY <1>5 DEF Delivery!PollChecks, Delivery!PollTakes, Delivery!PollSaves, Delivery!PollTells,
              Delivery!PollReturns, Delivery!Goto, Delivery!Busy, Delivery!history
<1>6. ASSUME NEW u \in Pausers, Delivery!PauseMarks(u)
      PROVE  pc[u] = "idle" /\ Delivery!Begin(u) /\ \E there : pc' = [pc EXCEPT ![u] = there]
  BY <1>6 DEF Delivery!PauseMarks, Delivery!Goto
<1>7. ASSUME NEW u \in Pausers, Delivery!PauseSaves(u)
      PROVE  /\ Delivery!Busy(u) /\ overlaps' = overlaps
             /\ \E there : pc' = [pc EXCEPT ![u] = there]
  BY <1>7 DEF Delivery!PauseSaves, Delivery!Goto, Delivery!Busy
<1>8. CASE \E t \in Turns :
             \/ Delivery!TurnReads(t) \/ Delivery!TurnFails(t) \/ Delivery!TurnPasses(t)
             \/ Delivery!TurnDecides(t) \/ Delivery!TurnPlans(t)
             \/ Delivery!TurnSaves(t) \/ Delivery!TurnTells(t)
  BY <1>0, <1>1, <1>2, <1>3, <1>8
<1>9. CASE \E p \in Pollers :
             \/ Delivery!PollGets(p) \/ Delivery!PollChecks(p) \/ Delivery!PollTakes(p)
             \/ Delivery!PollSaves(p) \/ Delivery!PollTells(p)
  BY <1>0, <1>1, <1>4, <1>5, <1>9
<1>10. CASE \E u \in Pausers : Delivery!PauseMarks(u) \/ Delivery!PauseSaves(u)
  BY <1>0, <1>1, <1>6, <1>7, <1>10
<1> QED
  BY <1>8, <1>9, <1>10 DEF Delivery!Next

LEMMA AloneStep == DeliveryTyped /\ Alone /\ Delivery!Next => Alone'
<1> SUFFICES ASSUME DeliveryTyped, Alone, Delivery!Next PROVE Alone'
  OBVIOUS
<1>1. PICK c \in Delivery!Calls :
        /\ \A d \in Delivery!Calls \ {c} : pc'[d] = pc[d]
        /\ \/ pc[c] = "idle" /\ Delivery!Begin(c)
           \/ Delivery!Busy(c) /\ overlaps' = overlaps
  BY OneMoves
<1>2. \A d \in Delivery!Calls \ {c} : Delivery!Busy(d)' <=> Delivery!Busy(d)
  BY <1>1 DEF Delivery!Busy
<1>3. Pollers \subseteq Delivery!Calls
  BY DEF Delivery!Calls
<1>4. CASE pc[c] = "idle" /\ Delivery!Begin(c)
  <2>1. overlaps' = {} => \A d \in Delivery!Calls : ~Delivery!Busy(d)
    BY <1>4, Beginning
  <2>2. c \in Pollers /\ "polls" \notin overlaps' => \A p \in Pollers : ~Delivery!Busy(p)
    BY <1>4, Beginning
  <2>3. overlaps \subseteq overlaps'
    BY <1>4, Beginning
  <2>4. overlaps' = {} =>
          \A x, y \in Delivery!Calls : Delivery!Busy(x)' /\ Delivery!Busy(y)' => x = y
    BY <1>2, <2>1
  <2>5. "polls" \notin overlaps' =>
          \A x, y \in Pollers : Delivery!Busy(x)' /\ Delivery!Busy(y)' => x = y
    BY <1>2, <1>3, <2>2, <2>3 DEF Alone
  <2> QED
    BY <2>4, <2>5 DEF Alone
<1>5. CASE Delivery!Busy(c) /\ overlaps' = overlaps
  BY <1>2, <1>3, <1>5 DEF Alone
<1> QED
  BY <1>1, <1>4, <1>5

\* One call at a time, no turn and no piece is under way after a pause, and a poll
\* has the memory that was paused.
Hushed ==
    /\ \A u \in Pausers : pc[u] = "save" => paused[ref[u]]
    /\ overlaps = {} /\ hushed =>
         /\ paused[store]
         /\ \A t \in Turns : ~Delivery!Busy(t)
         /\ \A p \in Pollers : ~InFlight(p) /\ (pc[p] = "check" => paused[ref[p]])

LEMMA HushedStep == DeliveryTyped /\ Alone /\ Hushed /\ Delivery!Next => Hushed'
<1> SUFFICES ASSUME DeliveryTyped, Alone, Hushed, Delivery!Next PROVE Hushed'
  OBVIOUS
<1>0. /\ Turns \subseteq Delivery!Calls /\ Pollers \subseteq Delivery!Calls
      /\ Pausers \subseteq Delivery!Calls
  BY DEF Delivery!Calls
<1>1. ASSUME NEW c \in Delivery!Calls, c \notin Pausers, paused' = paused,
             \A d \in Delivery!Calls \ {c} : pc'[d] = pc[d] /\ ref'[d] = ref[d],
             ~(overlaps' = {} /\ hushed')
      PROVE  Hushed'
  BY <1>0, <1>1 DEF Hushed
<1>2. ASSUME NEW t \in Turns,
             \/ Delivery!TurnReads(t) \/ Delivery!TurnFails(t) \/ Delivery!TurnPasses(t)
             \/ Delivery!TurnDecides(t) \/ Delivery!TurnPlans(t)
             \/ Delivery!TurnSaves(t) \/ Delivery!TurnTells(t)
      PROVE  Hushed'
  <2>1. \A d \in Delivery!Calls \ {t} : pc'[d] = pc[d] /\ ref'[d] = ref[d]
    BY <1>0, <1>2 DEF Delivery!TurnReads, Delivery!TurnFails, Delivery!TurnPasses,
      Delivery!TurnDecides, Delivery!TurnPlans, Delivery!TurnSaves, Delivery!TurnTells,
      Delivery!Goto, Delivery!locals, DeliveryTyped, Delivery!TypeOK
  <2>2. paused' = paused
    BY <1>2 DEF Delivery!TurnReads, Delivery!TurnFails, Delivery!TurnPasses,
      Delivery!TurnDecides, Delivery!TurnPlans, Delivery!TurnSaves, Delivery!TurnTells,
      Delivery!memory
  <2>3. hushed' = FALSE \/ (Delivery!Busy(t) /\ UNCHANGED <<hushed, overlaps>>)
    BY <1>2 DEF Delivery!TurnReads, Delivery!TurnFails, Delivery!TurnPasses,
      Delivery!TurnDecides, Delivery!TurnPlans, Delivery!TurnSaves, Delivery!TurnTells,
      Delivery!Busy, Delivery!history
  <2>4. ~(overlaps' = {} /\ hushed')
    BY <2>3 DEF Hushed
  <2> QED
    BY <1>0, <1>1, <2>1, <2>2, <2>4, Names
<1>3. ASSUME NEW p \in Pollers, Delivery!PollGets(p) PROVE Hushed'
  <2>1. /\ \A d \in Delivery!Calls \ {p} : pc'[d] = pc[d] /\ ref'[d] = ref[d]
        /\ pc'[p] = "check" /\ ref'[p] = store
        /\ UNCHANGED <<store, paused, hushed>>
    BY <1>0, <1>3 DEF Delivery!PollGets, Delivery!Goto, Delivery!memory, DeliveryTyped,
                      Delivery!TypeOK
  <2>2. overlaps' = {} => overlaps = {}
    BY <1>0, <1>3, Beginning DEF Delivery!PollGets
  <2>3. \A t \in Turns : Delivery!Busy(t)' <=> Delivery!Busy(t)
    BY <1>0, <2>1, Names DEF Delivery!Busy
  <2>4. \A q \in Pollers \ {p} : (InFlight(q)' <=> InFlight(q)) /\ pc'[q] = pc[q]
            /\ ref'[q] = ref[q]
    BY <1>0, <2>1 DEF InFlight
  <2>5. ~InFlight(p)'
    BY <2>1 DEF InFlight
  <2>6. \A u \in Pausers : pc'[u] = pc[u] /\ ref'[u] = ref[u]
    BY <1>0, <2>1, Names
  <2> QED
    BY <2>1, <2>2, <2>3, <2>4, <2>5, <2>6 DEF Hushed
<1>4. ASSUME NEW p \in Pollers, Found(p) \/ Took(p) \/ Told(p) PROVE Hushed'
  <2>1. /\ \A d \in Delivery!Calls \ {p} : pc'[d] = pc[d] /\ ref'[d] = ref[d]
        /\ UNCHANGED <<store, paused, hushed, overlaps>>
    BY <1>4 DEF Found, Took, Told, Others
  <2>2. CASE overlaps = {} /\ hushed
    <3>1. pc[p] = "check" /\ Found(p) /\ paused[ref[p]]
      BY <1>4, <2>2 DEF Hushed, InFlight, Found, Took, Told
    <3>2. pc'[p] = "idle"
      BY <3>1 DEF Found, Leaves
    <3>3. \A t \in Turns : Delivery!Busy(t)' <=> Delivery!Busy(t)
      BY <1>0, <2>1, Names DEF Delivery!Busy
    <3>4. \A q \in Pollers \ {p} :
            (InFlight(q)' <=> InFlight(q)) /\ pc'[q] = pc[q] /\ ref'[q] = ref[q]
      BY <1>0, <2>1 DEF InFlight
    <3>5. ~InFlight(p)'
      BY <3>2 DEF InFlight
    <3>6. \A u \in Pausers : pc'[u] = pc[u] /\ ref'[u] = ref[u]
      BY <1>0, <2>1, Names
    <3> QED
      BY <2>1, <3>2, <3>3, <3>4, <3>5, <3>6 DEF Hushed
  <2>3. CASE ~(overlaps = {} /\ hushed)
    BY <1>0, <1>1, <2>1, <2>3, Names
  <2> QED
    BY <2>2, <2>3
<1>5. ASSUME NEW p \in Pollers, Delivery!PollSaves(p) PROVE Hushed'
  <2>1. /\ \A d \in Delivery!Calls \ {p} : pc'[d] = pc[d] /\ ref'[d] = ref[d]
        /\ UNCHANGED <<paused, hushed, overlaps>> /\ InFlight(p)
    BY <1>0, <1>5 DEF Delivery!PollSaves, Delivery!Goto, Delivery!locals, Delivery!history,
                      DeliveryTyped, Delivery!TypeOK, InFlight
  <2>2. ~(overlaps = {} /\ hushed)
    BY <2>1 DEF Hushed
  <2> QED
    BY <1>0, <1>1, <2>1, <2>2, Names
<1>6. ASSUME NEW u \in Pausers, Delivery!PauseMarks(u) PROVE Hushed'
  <2>1. PICK o \in Delivery!Memories :
          ref' = [ref EXCEPT ![u] = o] /\ paused' = [paused EXCEPT ![o] = TRUE]
    BY <1>6 DEF Delivery!PauseMarks, DeliveryTyped, Delivery!TypeOK, Delivery!Memories
  <2>2. /\ \A d \in Delivery!Calls \ {u} : pc'[d] = pc[d] /\ ref'[d] = ref[d]
        /\ ref'[u] = o /\ UNCHANGED <<store, hushed>>
    BY <1>0, <1>6, <2>1 DEF Delivery!PauseMarks, Delivery!Goto, DeliveryTyped, Delivery!TypeOK
  <2>3. paused'[o] /\ \A x \in Delivery!Memories : paused[x] => paused'[x]
    BY <2>1 DEF DeliveryTyped, Delivery!TypeOK
  <2>4. overlaps' = {} => overlaps = {}
    BY <1>0, <1>6, Beginning DEF Delivery!PauseMarks
  <2>5. \A t \in Turns : Delivery!Busy(t)' <=> Delivery!Busy(t)
    BY <1>0, <2>2, Names DEF Delivery!Busy
  <2>6. \A q \in Pollers : (InFlight(q)' <=> InFlight(q)) /\ pc'[q] = pc[q] /\ ref'[q] = ref[q]
    BY <1>0, <2>2, Names DEF InFlight
  <2>7. store \in Delivery!Memories /\ \A d \in Delivery!Calls : ref[d] \in Delivery!Memories
    BY DEF DeliveryTyped, Delivery!TypeOK
  <2>8. \A x \in Pausers : pc'[x] = "save" => paused'[ref'[x]]
    BY <1>0, <2>2, <2>3, <2>7 DEF Hushed
  <2>9. overlaps' = {} /\ hushed' =>
          /\ paused'[store']
          /\ \A t \in Turns : ~Delivery!Busy(t)'
          /\ \A p \in Pollers : ~InFlight(p)' /\ (pc'[p] = "check" => paused'[ref'[p]])
    BY <1>0, <2>2, <2>3, <2>4, <2>5, <2>6, <2>7 DEF Hushed
  <2> QED
    BY <2>8, <2>9 DEF Hushed
<1>7. ASSUME NEW u \in Pausers, Delivery!PauseSaves(u) PROVE Hushed'
  <2>1. /\ \A d \in Delivery!Calls \ {u} : pc'[d] = pc[d]
        /\ pc[u] = "save" /\ pc'[u] = "returned" /\ store' = ref[u]
        /\ UNCHANGED <<paused, ref, overlaps>>
    BY <1>0, <1>7 DEF Delivery!PauseSaves, Delivery!Goto, Delivery!locals, DeliveryTyped,
                      Delivery!TypeOK
  <2>2. overlaps = {} => \A d \in Delivery!Calls \ {u} : ~Delivery!Busy(d)
    BY <1>0, <2>1 DEF Alone, Delivery!Busy
  <2>3. \A x \in Pausers : pc'[x] = "save" => paused'[ref'[x]]
    BY <1>0, <2>1 DEF Hushed
  <2>4. paused[ref[u]]
    BY <2>1 DEF Hushed
  <2>5. overlaps = {} => \A p \in Pollers : ~InFlight(p)' /\ pc'[p] # "check"
    BY <1>0, <2>1, <2>2, Names DEF InFlight, Delivery!Busy
  <2>6. overlaps = {} => \A t \in Turns : ~Delivery!Busy(t)'
    BY <1>0, <2>1, <2>2, Names DEF Delivery!Busy
  <2> QED
    BY <2>1, <2>3, <2>4, <2>5, <2>6 DEF Hushed
<1>8. ASSUME NEW p \in Pollers,
             Delivery!PollChecks(p) \/ Delivery!PollTakes(p) \/ Delivery!PollTells(p)
      PROVE  Hushed'
  BY <1>4, <1>8, PollFound, PollTook, PollTold
<1> QED
  BY <1>2, <1>3, <1>5, <1>6, <1>7, <1>8 DEF Delivery!Next

LEMMA PauseStep ==
    ASSUME DeliveryTyped, Hushed, Delivery!Next, overlaps' = {}, hushed
    PROVE  told' = told
<1>0. /\ Turns \subseteq Delivery!Calls /\ Pollers \subseteq Delivery!Calls
      /\ Pausers \subseteq Delivery!Calls
  BY DEF Delivery!Calls
<1>1. ASSUME NEW t \in Turns, Delivery!TurnTells(t) PROVE FALSE
  BY <1>1 DEF Delivery!TurnTells, Hushed, Delivery!Busy
<1>2. ASSUME NEW p \in Pollers, Delivery!PollTells(p) PROVE FALSE
  BY <1>2 DEF Delivery!PollTells, Hushed, InFlight
<1>3. ASSUME NEW t \in Turns,
             \/ Delivery!TurnReads(t) \/ Delivery!TurnFails(t) \/ Delivery!TurnPasses(t)
             \/ Delivery!TurnDecides(t) \/ Delivery!TurnPlans(t) \/ Delivery!TurnSaves(t)
      PROVE  told' = told
  BY <1>3 DEF Delivery!TurnReads, Delivery!TurnFails, Delivery!TurnPasses, Delivery!TurnDecides,
              Delivery!TurnPlans, Delivery!TurnSaves, Delivery!history
<1>4. ASSUME NEW p \in Pollers,
             \/ Delivery!PollGets(p) \/ Delivery!PollChecks(p) \/ Delivery!PollTakes(p)
             \/ Delivery!PollSaves(p)
      PROVE  told' = told
  BY <1>4 DEF Delivery!PollGets, Delivery!PollChecks, Delivery!PollTakes, Delivery!PollSaves,
              Delivery!history
<1>5. ASSUME NEW u \in Pausers, Delivery!PauseMarks(u) \/ Delivery!PauseSaves(u)
      PROVE  told' = told
  BY <1>5 DEF Delivery!PauseMarks, Delivery!PauseSaves
<1> QED
  BY <1>1, <1>2, <1>3, <1>4, <1>5 DEF Delivery!Next

-----------------------------------------------------------------------------
(* Delivery: the order of the pieces *)

Successive(q) == \A i \in DOMAIN q : i + 1 \in DOMAIN q => q[i + 1] = <<q[i][1], q[i][2] + 1>>

\* Piece i of turn x has been told, or a poll has taken it and is about to.
Heard(x, i) == \E j \in DOMAIN told[x] : told[x][j] = i
Flying(x, i) == \E p \in Pollers : pc[p] \in {"save", "tell"} /\ head[p] = <<<<x, i>>>>

\* The pieces that may come next: those before them are told or on their way, the
\* first of a plan with the turn itself.
Ready ==
    {h \in Delivery!Pieces :
        /\ ~Unborn(h[1]) /\ mode[h[1]] # "resume"
        /\ \A i \in 1..(h[2] - 1) :
             Heard(h[1], i) \/ Flying(h[1], i) \/ (i = 1 /\ pc[h[1]] # "returned")}

InOrder(q) == Successive(q) /\ (q # <<>> => q[1] \in Ready)

\* Every queue, and every copy of one, goes on with a piece that may come next.
Queues ==
    /\ \A o \in Delivery!Memories : InOrder(pending[o])
    /\ \A t \in Turns : InOrder(snapshot[t])

Flight ==
    \A p \in Pollers :
        /\ InFlight(p) => \A i \in 1..(head[p][1][2] - 1) : Heard(head[p][1][1], i)
        /\ pc[p] = "take" => pending[ref[p]] # <<>> /\ pending[ref[p]][1] = head[p][1]

QueueInv == ("polls" \notin overlaps => Queues /\ Flight) /\ Delivery!NoPieceSkipped

LEMMA ReadyKept ==
    ASSUME \A t \in Turns : ~Unborn(t) =>
              /\ ~Unborn(t)' /\ mode'[t] = mode[t]
              /\ pc[t] = "returned" \/ pc'[t] # "returned" \/ mode[t] = "resume" \/ Heard(t, 1)',
           \A t \in Turns : \A i \in 1..MaxParts : Heard(t, i) => Heard(t, i)',
           \A t \in Turns : \A i \in 1..MaxParts : Flying(t, i) => Heard(t, i)' \/ Flying(t, i)'
    PROVE  Ready \subseteq Ready'
<1> SUFFICES ASSUME NEW h \in Ready PROVE h \in Ready'
  OBVIOUS
<1>1. /\ h \in Delivery!Pieces /\ h[1] \in Turns /\ h[2] \in 1..MaxParts
      /\ ~Unborn(h[1]) /\ mode[h[1]] # "resume"
  BY DEF Ready, Delivery!Pieces
<1>2. ASSUME NEW i \in 1..(h[2] - 1)
      PROVE  Heard(h[1], i)' \/ Flying(h[1], i)' \/ (i = 1 /\ pc'[h[1]] # "returned")
  <2>1. i \in 1..MaxParts
    BY <1>1, <1>2, Names
  <2>2. Heard(h[1], i) \/ Flying(h[1], i) \/ (i = 1 /\ pc[h[1]] # "returned")
    BY DEF Ready
  <2> QED
    BY <1>1, <2>1, <2>2
<1> QED
  BY <1>1, <1>2 DEF Ready

\* A step that tells nothing and moves no piece.
LEMMA QueuesKept ==
    ASSUME DeliveryTyped, QueueInv, overlaps \subseteq overlaps', UNCHANGED <<pending, told>>,
           \A t \in Turns : snapshot'[t] = snapshot[t]
                            \/ \E o \in Delivery!Memories : snapshot'[t] = pending[o],
           \A t \in Turns : ~Unborn(t) =>
              ~Unborn(t)' /\ mode'[t] = mode[t] /\ (pc[t] = "returned" \/ pc'[t] # "returned"),
           \A p \in Pollers :
              /\ head'[p] = head[p] /\ (InFlight(p)' <=> InFlight(p))
              /\ pc[p] \in {"save", "tell"} => pc'[p] \in {"save", "tell"}
              /\ pc'[p] = "take" => pc[p] = "take" /\ ref'[p] = ref[p]
    PROVE  QueueInv'
<1>1. Delivery!NoPieceSkipped'
  BY DEF QueueInv, Delivery!NoPieceSkipped
<1>2. ASSUME "polls" \notin overlaps' PROVE Queues' /\ Flight'
  <2>1. Queues /\ Flight
    BY <1>2 DEF QueueInv
  <2>2. Ready \subseteq Ready'
    <3>1. \A t \in Turns : \A i \in 1..MaxParts : Heard(t, i) => Heard(t, i)'
      BY DEF Heard
    <3>2. \A t \in Turns : \A i \in 1..MaxParts : Flying(t, i) => Flying(t, i)'
      BY DEF Flying
    <3> QED
      BY <3>1, <3>2, ReadyKept
  <2>3. Queues'
    BY <2>1, <2>2 DEF Queues, InOrder
  <2>4. Flight'
    <3>1. ASSUME NEW p \in Pollers, InFlight(p)'
          PROVE  (\A i \in 1..(head[p][1][2] - 1) : Heard(head[p][1][1], i))'
      BY <2>1, <3>1 DEF Flight, Heard
    <3>2. ASSUME NEW p \in Pollers, pc'[p] = "take"
          PROVE  (pending[ref[p]] # <<>> /\ pending[ref[p]][1] = head[p][1])'
      BY <2>1, <3>2 DEF Flight
    <3> QED
      BY <3>1, <3>2 DEF Flight
  <2> QED
    BY <2>3, <2>4
<1> QED
  BY <1>1, <1>2 DEF QueueInv

LEMMA QueuesPlanned ==
    ASSUME DeliveryTyped, ResetInv, QueueInv, NEW t \in Turns, Planned(t)
    PROVE  QueueInv'
<1>0. /\ Turns \subseteq Delivery!Calls /\ Pollers \subseteq Delivery!Calls
      /\ Turns \subseteq Delivery!Memories
  BY DEF Delivery!Calls, Delivery!Memories
<1>1. /\ UNCHANGED <<store, ref, snapshot, mode, head, told, overlaps>>
      /\ \A o \in Delivery!Memories \ {t} : pending'[o] = pending[o]
      /\ pc[t] = "plan" /\ pc'[t] = "save"
      /\ \A c \in Delivery!Calls \ {t} : pc'[c] = pc[c]
  BY <1>0 DEF Planned, DeliveryTyped, Delivery!TypeOK
<1>2. Delivery!NoPieceSkipped'
  BY <1>1 DEF QueueInv, Delivery!NoPieceSkipped
<1>3. ASSUME "polls" \notin overlaps PROVE Queues' /\ Flight'
  <2>1. Queues /\ Flight
    BY <1>3 DEF QueueInv
  <2>2. \A p \in Pollers : pc'[p] = pc[p] /\ ref[p] # t
    BY <1>0, <1>1, Names DEF ResetInv, Fresh, Unborn
  <2>3. Ready \subseteq Ready'
    <3>1. \A x \in Turns : \A i \in 1..MaxParts : Heard(x, i) => Heard(x, i)'
      BY <1>1 DEF Heard
    <3>2. \A x \in Turns : \A i \in 1..MaxParts : Flying(x, i) => Flying(x, i)'
      BY <1>1, <2>2 DEF Flying
    <3>3. \A x \in Turns : ~Unborn(x) =>
            ~Unborn(x)' /\ mode'[x] = mode[x] /\ (pc[x] = "returned" \/ pc'[x] # "returned")
      BY <1>0, <1>1 DEF Unborn
    <3> QED
      BY <3>1, <3>2, <3>3, ReadyKept
  <2>4. InOrder(pending[t])'
    <3>1. CASE mode[t] = "resume"
      <4>1. pending'[t] = snapshot[t]
        BY <3>1 DEF Planned
      <4> QED
        BY <2>1, <2>3, <4>1 DEF Queues, InOrder
    <3>2. CASE mode[t] # "resume"
      <4>1. Pieces(pending'[t], t, 1) /\ pending'[t] \in Seq(Delivery!Pieces)
        BY <1>0, <3>2 DEF Planned
      <4>2. Successive(pending'[t])
        <5>1. ASSUME NEW i \in DOMAIN pending'[t], i + 1 \in DOMAIN pending'[t]
              PROVE  pending'[t][i + 1] = <<pending'[t][i][1], pending'[t][i][2] + 1>>
          <6>1. /\ pending'[t][i] = <<t, 1 + i>> /\ pending'[t][i + 1] = <<t, 1 + (i + 1)>>
                /\ i \in Nat
            BY <4>1, <5>1 DEF Pieces
          <6> QED
            BY <6>1
        <5> QED
          BY <5>1 DEF Successive
      <4>3. ASSUME pending'[t] # <<>> PROVE pending'[t][1] \in Ready'
        <5>1. 1 \in DOMAIN pending'[t]
          BY <4>1, <4>3
        <5>2. pending'[t][1] = <<t, 2>> /\ pending'[t][1] \in Delivery!Pieces
          BY <4>1, <5>1 DEF Pieces
        <5>3. ~Unborn(t)' /\ mode'[t] # "resume" /\ pc'[t] # "returned"
          BY <1>1, <3>2 DEF Unborn
        <5>4. \A i \in 1..(2 - 1) : i = 1
          OBVIOUS
        <5> QED
          BY <5>2, <5>3, <5>4 DEF Ready
      <4> QED
        BY <4>2, <4>3 DEF InOrder
    <3> QED
      BY <3>1, <3>2
  <2>5. \A o \in Delivery!Memories \ {t} : InOrder(pending[o])'
    BY <1>1, <2>1, <2>3 DEF Queues, InOrder
  <2>6. \A x \in Turns : InOrder(snapshot[x])'
    BY <1>1, <2>1, <2>3 DEF Queues, InOrder
  <2>7. Flight'
    <3>1. ASSUME NEW p \in Pollers, InFlight(p)'
          PROVE  (\A i \in 1..(head[p][1][2] - 1) : Heard(head[p][1][1], i))'
      BY <1>1, <2>1, <2>2, <3>1 DEF Flight, Heard, InFlight
    <3>2. ASSUME NEW p \in Pollers, pc'[p] = "take"
          PROVE  (pending[ref[p]] # <<>> /\ pending[ref[p]][1] = head[p][1])'
      <4>1. ref[p] \in Delivery!Memories
        BY <1>0 DEF DeliveryTyped, Delivery!TypeOK
      <4> QED
        BY <1>1, <2>1, <2>2, <3>2, <4>1 DEF Flight
    <3> QED
      BY <3>1, <3>2 DEF Flight
  <2> QED
    BY <2>4, <2>5, <2>6, <2>7 DEF Queues
<1> QED
  BY <1>1, <1>2, <1>3 DEF QueueInv

\* The turn tells the first piece of its plan.
LEMMA QueuesTold ==
    ASSUME DeliveryTyped, QueueInv, NEW t \in Turns, Delivery!TurnTells(t)
    PROVE  QueueInv'
<1>0. /\ Turns \subseteq Delivery!Calls /\ Pollers \subseteq Delivery!Calls
  BY DEF Delivery!Calls
<1>1. /\ UNCHANGED <<pending, mode, head, overlaps>>
      /\ pc[t] = "tell" /\ pc'[t] = "returned"
      /\ \A c \in Delivery!Calls \ {t} : pc'[c] = pc[c] /\ ref'[c] = ref[c]
      /\ snapshot'[t] = <<>> /\ \A x \in Turns \ {t} : snapshot'[x] = snapshot[x]
  BY <1>0 DEF Delivery!TurnTells, Delivery!Goto, Delivery!memory, DeliveryTyped, Delivery!TypeOK
<1>2. /\ mode[t] = "resume" => told' = told
      /\ mode[t] # "resume" => /\ told'[t] = Append(told[t], 1)
                               /\ \A x \in Turns \ {t} : told'[x] = told[x]
  BY DEF Delivery!TurnTells, DeliveryTyped, Delivery!TypeOK
<1>3. told[t] \in Seq(1..MaxParts) /\ 1 \in 1..MaxParts
  BY Names DEF DeliveryTyped, Delivery!TypeOK
<1>4. mode[t] # "resume" =>
        /\ Len(told'[t]) = Len(told[t]) + 1 /\ Len(told[t]) \in Nat
        /\ DOMAIN told'[t] = 1..(Len(told[t]) + 1) /\ DOMAIN told[t] = 1..Len(told[t])
        /\ \A j \in DOMAIN told[t] : told'[t][j] = told[t][j]
        /\ told'[t][Len(told[t]) + 1] = 1
  BY <1>2, <1>3, AppendProperties
<1>5. \A x \in Turns : \A i : Heard(x, i) => Heard(x, i)'
  BY <1>2, <1>4 DEF Heard
<1>6. Delivery!NoPieceSkipped'
  <2>1. ASSUME "polls" \notin overlaps, mode[t] # "resume", NEW j \in DOMAIN told'[t],
               NEW i \in 1..(told'[t][j] - 1)
        PROVE  \E k \in 1..(j - 1) : told'[t][k] = i
    <3>1. CASE j = Len(told[t]) + 1
      BY <1>4, <2>1, <3>1
    <3>2. CASE j \in DOMAIN told[t]
      <4>1. PICK k \in 1..(j - 1) : told[t][k] = i
        BY <1>4, <2>1, <3>2 DEF QueueInv, Delivery!NoPieceSkipped
      <4>2. k \in DOMAIN told[t]
        BY <1>4, <2>1, <3>2
      <4> QED
        BY <1>4, <2>1, <4>1, <4>2
    <3> QED
      BY <1>4, <2>1, <3>1, <3>2
  <2>2. CASE mode[t] = "resume"
    BY <1>1, <1>2, <2>2 DEF QueueInv, Delivery!NoPieceSkipped
  <2>3. CASE mode[t] # "resume"
    BY <1>1, <1>2, <2>1, <2>3 DEF QueueInv, Delivery!NoPieceSkipped
  <2> QED
    BY <2>2, <2>3
<1>7. ASSUME "polls" \notin overlaps PROVE Queues' /\ Flight'
  <2>1. Queues /\ Flight
    BY <1>7 DEF QueueInv
  <2>2. \A p \in Pollers : pc'[p] = pc[p] /\ ref'[p] = ref[p]
    BY <1>0, <1>1, Names
  <2>3. Ready \subseteq Ready'
    <3>1. \A x \in Turns : \A i \in 1..MaxParts : Flying(x, i) => Flying(x, i)'
      BY <1>1, <2>2 DEF Flying
    <3>2. \A x \in Turns : ~Unborn(x) => ~Unborn(x)' /\ mode'[x] = mode[x]
      BY <1>0, <1>1 DEF Unborn
    <3>3. mode[t] = "resume" \/ Heard(t, 1)'
      BY <1>4 DEF Heard
    <3>4. \A x \in Turns \ {t} : pc'[x] = pc[x]
      BY <1>0, <1>1
    <3> QED
      BY <1>5, <3>1, <3>2, <3>3, <3>4, ReadyKept
  <2>4. Successive(<<>>)
    BY DEF Successive
  <2>5. Queues'
    BY <1>1, <2>1, <2>3, <2>4 DEF Queues, InOrder
  <2>6. Flight'
    <3>1. ASSUME NEW p \in Pollers, InFlight(p)'
          PROVE  (\A i \in 1..(head[p][1][2] - 1) : Heard(head[p][1][1], i))'
      <4>1. InFlight(p) /\ head[p] \in Seq(Delivery!Pieces) /\ Len(head[p]) = 1
        BY <2>2, <3>1 DEF InFlight, DeliveryTyped, Delivery!TypeOK, Holding
      <4>2. head[p][1] \in Delivery!Pieces
        BY <4>1
      <4>3. head[p][1][1] \in Turns
        BY <4>2 DEF Delivery!Pieces
      <4>4. head'[p] = head[p]
        BY <1>1
      <4>5. \A i \in 1..(head[p][1][2] - 1) : Heard(head[p][1][1], i)
        BY <2>1, <4>1 DEF Flight
      <4>6. \A i : Heard(head[p][1][1], i) => Heard(head[p][1][1], i)'
        BY <1>5, <4>3, <4>4
      <4> QED
        BY <4>4, <4>5, <4>6
    <3>2. ASSUME NEW p \in Pollers, pc'[p] = "take"
          PROVE  (pending[ref[p]] # <<>> /\ pending[ref[p]][1] = head[p][1])'
      BY <1>1, <2>1, <2>2, <3>2 DEF Flight
    <3> QED
      BY <3>1, <3>2 DEF Flight
  <2> QED
    BY <2>5, <2>6
<1> QED
  BY <1>1, <1>6, <1>7 DEF QueueInv

LEMMA QueuesFound ==
    ASSUME DeliveryTyped, Alone, QueueInv, NEW p \in Pollers, Found(p)
    PROVE  QueueInv'
<1>0. Turns \subseteq Delivery!Calls /\ Pollers \subseteq Delivery!Calls
  BY DEF Delivery!Calls
<1>1. /\ UNCHANGED <<pending, snapshot, mode, told, overlaps>> /\ pc[p] = "check"
      /\ \A c \in Delivery!Calls \ {p} : pc'[c] = pc[c] /\ ref'[c] = ref[c]
      /\ \A x \in Pollers \ {p} : head'[x] = head[x]
  BY DEF Found, Others
<1>2. Delivery!NoPieceSkipped'
  BY <1>1 DEF QueueInv, Delivery!NoPieceSkipped
<1>3. ASSUME "polls" \notin overlaps PROVE Queues' /\ Flight'
  <2>1. Queues /\ Flight
    BY <1>3 DEF QueueInv
  <2>2. \A x \in Pollers \ {p} : ~Delivery!Busy(x)
    BY <1>1, <1>3 DEF Alone, Delivery!Busy
  <2>3. \A x \in Pollers : pc[x] \notin {"save", "tell"}
    BY <1>1, <2>2 DEF Delivery!Busy
  <2>4. Ready \subseteq Ready'
    <3>1. \A x \in Turns : \A i \in 1..MaxParts : Flying(x, i) => Flying(x, i)'
      BY <2>3 DEF Flying
    <3>2. \A x \in Turns : \A i \in 1..MaxParts : Heard(x, i) => Heard(x, i)'
      BY <1>1 DEF Heard
    <3>3. \A x \in Turns : pc'[x] = pc[x] /\ mode'[x] = mode[x]
      BY <1>0, <1>1, Names
    <3> QED
      BY <3>1, <3>2, <3>3, ReadyKept DEF Unborn
  <2>5. Queues'
    BY <1>1, <2>1, <2>4 DEF Queues, InOrder
  <2>6. \A x \in Pollers \ {p} : ~InFlight(x)' /\ pc'[x] # "take"
    BY <1>0, <1>1, <2>2 DEF InFlight, Delivery!Busy
  <2>7. CASE Leaves(p)
    BY <2>5, <2>6, <2>7 DEF Flight, Leaves, InFlight
  <2>8. CASE /\ pc'[p] = "take" /\ ref'[p] = ref[p] /\ pending[ref[p]] # <<>>
             /\ head'[p] = <<pending[ref[p]][1]>> /\ pending[ref[p]][1] \in Delivery!Pieces
             /\ pc[pending[ref[p]][1][1]] = "returned"
    <3> DEFINE h == pending[ref[p]][1]
    <3>1. h \in Ready
      <4>1. ref[p] \in Delivery!Memories
        BY <1>0 DEF DeliveryTyped, Delivery!TypeOK
      <4> QED
        BY <2>1, <2>8, <4>1 DEF Queues, InOrder
    <3>2. \A i \in 1..(h[2] - 1) : Heard(h[1], i)
      BY <2>3, <2>8, <3>1 DEF Ready, Flying
    <3>3. head'[p][1] = h
      BY <2>8
    <3>4. (\A i \in 1..(head[p][1][2] - 1) : Heard(head[p][1][1], i))'
      BY <1>1, <3>2, <3>3 DEF Heard
    <3>5. (pending[ref[p]] # <<>> /\ pending[ref[p]][1] = head[p][1])'
      BY <1>1, <2>8, <3>3
    <3> QED
      BY <2>5, <2>6, <3>4, <3>5 DEF Flight
  <2> QED
    BY <2>7, <2>8 DEF Found
<1> QED
  BY <1>1, <1>2, <1>3 DEF QueueInv

\* What follows the piece a poll has taken may come next: the piece is on its way.
LEMMA QueuesTook ==
    ASSUME DeliveryTyped, Alone, QueueInv, NEW p \in Pollers, Took(p)
    PROVE  QueueInv'
<1>a. PICK o \in Delivery!Memories : o = ref[p]
  BY DEF Took
<1>0. Turns \subseteq Delivery!Calls /\ Pollers \subseteq Delivery!Calls
  BY DEF Delivery!Calls
<1>1. /\ UNCHANGED <<snapshot, mode, told, overlaps>> /\ pc[p] = "take" /\ o \in Delivery!Memories
      /\ \A c \in Delivery!Calls \ {p} : pc'[c] = pc[c] /\ ref'[c] = ref[c]
      /\ \A x \in Pollers \ {p} : head'[x] = head[x]
      /\ \A x \in Delivery!Memories \ {o} : pending'[x] = pending[x]
  BY <1>a DEF Took, Others
<1>2. Delivery!NoPieceSkipped'
  BY <1>1 DEF QueueInv, Delivery!NoPieceSkipped
<1>3. ASSUME "polls" \notin overlaps PROVE Queues' /\ Flight'
  <2>1. Queues /\ Flight
    BY <1>3 DEF QueueInv
  <2>2. \A x \in Pollers \ {p} : ~Delivery!Busy(x)
    BY <1>1, <1>3 DEF Alone, Delivery!Busy
  <2>3. \A x \in Pollers : pc[x] \notin {"save", "tell"}
    BY <1>1, <2>2 DEF Delivery!Busy
  <2>4. Ready \subseteq Ready'
    <3>1. \A x \in Turns : \A i \in 1..MaxParts : Flying(x, i) => Flying(x, i)'
      BY <2>3 DEF Flying
    <3>2. \A x \in Turns : \A i \in 1..MaxParts : Heard(x, i) => Heard(x, i)'
      BY <1>1 DEF Heard
    <3>3. \A x \in Turns : pc'[x] = pc[x] /\ mode'[x] = mode[x]
      BY <1>0, <1>1, Names
    <3> QED
      BY <3>1, <3>2, <3>3, ReadyKept DEF Unborn
  <2>5. /\ pending[o] # <<>> /\ pending[o][1] = head[p][1]
        /\ \A i \in 1..(head[p][1][2] - 1) : Heard(head[p][1][1], i)
    BY <1>a, <1>1, <2>1 DEF Flight, InFlight
  <2>6. /\ pc'[p] = "save" /\ ref'[p] = o /\ head'[p] = head[p]
        /\ Len(pending'[o]) = Len(pending[o]) - 1
        /\ \A i \in DOMAIN pending'[o] :
             i + 1 \in DOMAIN pending[o] /\ pending'[o][i] = pending[o][i + 1]
        /\ pending'[o] \in Seq(Delivery!Pieces) /\ pending[o] \in Seq(Delivery!Pieces)
    BY <1>a, <1>1, <2>5 DEF Took, DeliveryTyped, Delivery!TypeOK
  <2>7. PICK x \in Turns, k \in 1..MaxParts : head[p] = <<<<x, k>>>> /\ pending[o][1] = <<x, k>>
    <3>1. head[p] \in Seq(Delivery!Pieces) /\ Len(head[p]) = 1
      BY <1>1 DEF DeliveryTyped, Delivery!TypeOK, Holding, InFlight
    <3>2. head[p][1] \in Delivery!Pieces /\ head[p] = <<head[p][1]>>
      BY <3>1
    <3> QED
      BY <2>5, <3>2 DEF Delivery!Pieces
  <2>8. InOrder(pending[o]) /\ 1 \in DOMAIN pending[o]
    BY <1>1, <2>1, <2>5, <2>6 DEF Queues
  <2>9. InOrder(pending[o])'
    <3>1. Successive(pending'[o])
      <4>1. ASSUME NEW i \in DOMAIN pending'[o], i + 1 \in DOMAIN pending'[o]
            PROVE  pending'[o][i + 1] = <<pending'[o][i][1], pending'[o][i][2] + 1>>
        <5>1. /\ i + 1 \in DOMAIN pending[o] /\ (i + 1) + 1 \in DOMAIN pending[o]
              /\ pending'[o][i] = pending[o][i + 1]
              /\ pending'[o][i + 1] = pending[o][(i + 1) + 1]
          BY <2>6, <4>1
        <5> QED
          BY <2>8, <5>1 DEF InOrder, Successive
      <4> QED
        BY <4>1 DEF Successive
    <3>2. ASSUME pending'[o] # <<>> PROVE pending'[o][1] \in Ready'
      <4>1. 1 \in DOMAIN pending'[o]
        BY <2>6, <3>2
      <4>2. 1 + 1 \in DOMAIN pending[o] /\ pending'[o][1] = pending[o][1 + 1]
        BY <2>6, <4>1
      <4>3. pending'[o][1] = <<x, k + 1>>
        BY <2>7, <2>8, <4>2 DEF InOrder, Successive
      <4>4. pending'[o][1] \in Delivery!Pieces
        BY <2>6, <4>1
      <4>5. pending[o][1] \in Ready
        BY <2>5, <2>8 DEF InOrder
      <4>6. ~Unborn(x) /\ mode[x] # "resume"
        BY <2>7, <4>5 DEF Ready
      <4>7. ~Unborn(x)' /\ mode'[x] # "resume"
        BY <1>0, <1>1, <4>6, Names DEF Unborn
      <4>8. Flying(x, k)'
        BY <2>6, <2>7 DEF Flying
      <4>9. \A i \in 1..(k - 1) : Heard(x, i)'
        BY <1>1, <2>5, <2>7 DEF Heard
      <4>10. \A i \in 1..((k + 1) - 1) : i \in 1..(k - 1) \/ i = k
        OBVIOUS
      <4> QED
        BY <4>3, <4>4, <4>7, <4>8, <4>9, <4>10 DEF Ready
    <3> QED
      BY <3>1, <3>2 DEF InOrder
  <2>10. \A y \in Delivery!Memories \ {o} : InOrder(pending[y])'
    BY <1>1, <2>1, <2>4 DEF Queues, InOrder
  <2>11. \A y \in Turns : InOrder(snapshot[y])'
    BY <1>1, <2>1, <2>4 DEF Queues, InOrder
  <2>12. Queues'
    BY <2>9, <2>10, <2>11 DEF Queues
  <2>13. \A y \in Pollers \ {p} : ~InFlight(y)' /\ pc'[y] # "take"
    BY <1>0, <1>1, <2>2 DEF InFlight, Delivery!Busy
  <2>14. (\A i \in 1..(head[p][1][2] - 1) : Heard(head[p][1][1], i))'
    BY <1>1, <2>5, <2>6 DEF Heard
  <2> QED
    BY <2>6, <2>12, <2>13, <2>14 DEF Flight
<1> QED
  BY <1>1, <1>2, <1>3 DEF QueueInv

LEMMA QueuesSaid ==
    ASSUME DeliveryTyped, Alone, QueueInv, NEW p \in Pollers, Told(p)
    PROVE  QueueInv'
<1>0. Turns \subseteq Delivery!Calls /\ Pollers \subseteq Delivery!Calls
  BY DEF Delivery!Calls
<1>1. /\ UNCHANGED <<pending, snapshot, mode, overlaps>> /\ pc[p] = "tell" /\ pc'[p] = "idle"
      /\ \A c \in Delivery!Calls \ {p} : pc'[c] = pc[c] /\ ref'[c] = ref[c]
      /\ \A x \in Pollers \ {p} : head'[x] = head[x]
  BY DEF Told, Others, Leaves
<1>2. PICK x \in Turns, k \in 1..MaxParts :
        /\ head[p] = <<<<x, k>>>> /\ told'[x] = Append(told[x], k)
        /\ \A y \in Turns \ {x} : told'[y] = told[y]
  BY DEF Told
<1>3. /\ Len(told'[x]) = Len(told[x]) + 1 /\ Len(told[x]) \in Nat
      /\ DOMAIN told'[x] = 1..(Len(told[x]) + 1) /\ DOMAIN told[x] = 1..Len(told[x])
      /\ \A j \in DOMAIN told[x] : told'[x][j] = told[x][j]
      /\ told'[x][Len(told[x]) + 1] = k
  <2>1. told[x] \in Seq(1..MaxParts)
    BY DEF DeliveryTyped, Delivery!TypeOK
  <2> QED
    BY <1>2, <2>1, AppendProperties
<1>4. \A y \in Turns : \A i : Heard(y, i) => Heard(y, i)'
  BY SMTT(30), <1>2, <1>3 DEF Heard
<1>5. ASSUME "polls" \notin overlaps PROVE Queues' /\ Flight' /\ Delivery!NoPieceSkipped'
  <2>1. Queues /\ Flight
    BY <1>5 DEF QueueInv
  <2>2. \A y \in Pollers \ {p} : ~Delivery!Busy(y)
    BY <1>1, <1>5 DEF Alone, Delivery!Busy
  <2>3. Ready \subseteq Ready'
    <3>1. Heard(x, k)'
      BY <1>3 DEF Heard
    <3>2. ASSUME NEW y \in Turns, NEW i \in 1..MaxParts, Flying(y, i) PROVE y = x /\ i = k
      <4>1. PICK q \in Pollers : pc[q] \in {"save", "tell"} /\ head[q] = <<<<y, i>>>>
        BY <3>2 DEF Flying
      <4>2. q = p
        BY <2>2, <4>1 DEF Delivery!Busy
      <4> QED
        BY <1>2, <4>1, <4>2
    <3>3. \A y \in Turns : pc'[y] = pc[y] /\ mode'[y] = mode[y]
      BY <1>0, <1>1, Names
    <3> QED
      BY <1>4, <3>1, <3>2, <3>3, ReadyKept DEF Unborn
  <2>4. Queues'
    BY <1>1, <2>1, <2>3 DEF Queues, InOrder
  <2>5. \A y \in Pollers : ~InFlight(y)' /\ pc'[y] # "take"
    BY <1>0, <1>1, <2>2 DEF InFlight, Delivery!Busy
  <2>6. Flight'
    BY <2>5 DEF Flight
  <2>7. ASSUME NEW j \in DOMAIN told'[x], NEW i \in 1..(told'[x][j] - 1)
        PROVE  \E m \in 1..(j - 1) : told'[x][m] = i
    <3>1. CASE j = Len(told[x]) + 1
      <4>1. i \in 1..(k - 1)
        BY <1>3, <2>7, <3>1
      <4>2. Heard(x, i)
        BY <1>1, <1>2, <2>1, <4>1 DEF Flight, InFlight
      <4> QED
        BY <1>3, <3>1, <4>2 DEF Heard
    <3>2. CASE j \in DOMAIN told[x]
      <4>1. PICK m \in 1..(j - 1) : told[x][m] = i
        BY <1>3, <1>5, <2>7, <3>2 DEF QueueInv, Delivery!NoPieceSkipped
      <4>2. m \in DOMAIN told[x]
        BY <1>3, <3>2
      <4> QED
        BY <1>3, <4>1, <4>2
    <3> QED
      BY <1>3, <3>1, <3>2
  <2>8. \A y \in Turns \ {x} : \A j \in DOMAIN told'[y] :
          \A i \in 1..(told'[y][j] - 1) : \E m \in 1..(j - 1) : told'[y][m] = i
    BY <1>2, <1>5 DEF QueueInv, Delivery!NoPieceSkipped
  <2>9. Delivery!NoPieceSkipped'
    BY <2>7, <2>8 DEF Delivery!NoPieceSkipped
  <2> QED
    BY <2>4, <2>6, <2>9
<1>6. "polls" \in overlaps => Delivery!NoPieceSkipped'
  BY <1>1 DEF Delivery!NoPieceSkipped
<1> QED
  BY <1>1, <1>5, <1>6 DEF QueueInv

LEMMA QueueStep == DeliveryTyped /\ Alone /\ ResetInv /\ QueueInv /\ Delivery!Next => QueueInv'
<1> SUFFICES ASSUME DeliveryTyped, Alone, ResetInv, QueueInv, Delivery!Next PROVE QueueInv'
  OBVIOUS
<1>0. /\ Turns \subseteq Delivery!Calls /\ Pollers \subseteq Delivery!Calls
      /\ Pausers \subseteq Delivery!Calls /\ store \in Delivery!Memories
  BY DEF Delivery!Calls, DeliveryTyped, Delivery!TypeOK
<1>1. \A c \in Delivery!Calls : pc[c] = "idle" /\ Delivery!Begin(c) =>
          overlaps \subseteq overlaps'
  BY Beginning
\* A turn or a pause that tells nothing leaves the polls alone.
<1>2. ASSUME NEW c \in Delivery!Calls, c \notin Pollers, UNCHANGED <<pending, told, head>>,
             overlaps \subseteq overlaps',
             \A d \in Delivery!Calls \ {c} : pc'[d] = pc[d] /\ ref'[d] = ref[d],
             \A t \in Turns : snapshot'[t] \in {snapshot[t], pending[store]},
             \A t \in Turns : ~Unborn(t) => mode'[t] = mode[t],
             c \in Turns => Unborn(c) \/ pc'[c] = "tell"
      PROVE  QueueInv'
  <2>1. \A p \in Pollers : pc'[p] = pc[p] /\ ref'[p] = ref[p]
    BY <1>0, <1>2
  <2>2. \A p \in Pollers :
          /\ head'[p] = head[p] /\ (InFlight(p)' <=> InFlight(p))
          /\ pc[p] \in {"save", "tell"} => pc'[p] \in {"save", "tell"}
          /\ pc'[p] = "take" => pc[p] = "take" /\ ref'[p] = ref[p]
    BY <1>2, <2>1 DEF InFlight
  <2>3. \A t \in Turns : ~Unborn(t) =>
          ~Unborn(t)' /\ mode'[t] = mode[t] /\ (pc[t] = "returned" \/ pc'[t] # "returned")
    BY <1>0, <1>2 DEF Unborn
  <2>4. \A t \in Turns : snapshot'[t] = snapshot[t]
                         \/ \E o \in Delivery!Memories : snapshot'[t] = pending[o]
    BY <1>0, <1>2
  <2> QED
    BY <1>2, <2>2, <2>3, <2>4, QueuesKept
<1>3. ASSUME NEW t \in Turns,
             \/ Delivery!TurnReads(t) \/ Delivery!TurnFails(t) \/ Delivery!TurnPasses(t)
      PROVE  QueueInv'
  <2>1. /\ UNCHANGED <<pending, told, head, mode>> /\ pc[t] = "idle" /\ Delivery!Begin(t)
        /\ \A d \in Delivery!Calls \ {t} : pc'[d] = pc[d] /\ ref'[d] = ref[d]
        /\ \A x \in Turns : snapshot'[x] \in {snapshot[x], pending[store]}
    BY <1>0, <1>3 DEF Delivery!TurnReads, Delivery!TurnFails, Delivery!TurnPasses, Delivery!Goto,
                      Delivery!memory, Delivery!locals, DeliveryTyped, Delivery!TypeOK
  <2>2. Unborn(t) /\ t \notin Pollers
    BY <2>1, Names DEF Unborn
  <2> QED
    BY <1>0, <1>1, <1>2, <2>1, <2>2
<1>4. ASSUME NEW t \in Turns, Decided(t) PROVE QueueInv'
  <2>1. /\ UNCHANGED <<pending, told, head, snapshot, overlaps>> /\ pc[t] = "decide"
        /\ \A d \in Delivery!Calls \ {t} : pc'[d] = pc[d] /\ ref'[d] = ref[d]
        /\ \A x \in Turns \ {t} : mode'[x] = mode[x]
    BY <1>0, <1>4 DEF Decided, DeliveryTyped, Delivery!TypeOK
  <2>2. Unborn(t) /\ t \notin Pollers
    BY <2>1, Names DEF Unborn
  <2> QED
    BY <1>0, <1>2, <2>1, <2>2
<1>5. ASSUME NEW t \in Turns, Delivery!TurnSaves(t) PROVE QueueInv'
  <2>1. /\ UNCHANGED <<pending, told, head, snapshot, mode, overlaps>> /\ pc'[t] = "tell"
        /\ \A d \in Delivery!Calls \ {t} : pc'[d] = pc[d] /\ ref'[d] = ref[d]
    BY <1>0, <1>5 DEF Delivery!TurnSaves, Delivery!Goto, Delivery!locals, DeliveryTyped,
                      Delivery!TypeOK
  <2> QED
    BY <1>0, <1>2, <2>1, Names
<1>6. ASSUME NEW u \in Pausers, Delivery!PauseMarks(u) \/ Delivery!PauseSaves(u)
      PROVE  QueueInv'
  <2>1. /\ UNCHANGED <<pending, told, head, snapshot, mode>>
        /\ \A d \in Delivery!Calls \ {u} : pc'[d] = pc[d] /\ ref'[d] = ref[d]
        /\ overlaps' = overlaps \/ (pc[u] = "idle" /\ Delivery!Begin(u))
    BY <1>0, <1>6 DEF Delivery!PauseMarks, Delivery!PauseSaves, Delivery!Goto, Delivery!locals,
                      DeliveryTyped, Delivery!TypeOK
  <2>2. overlaps \subseteq overlaps'
    BY <1>0, <1>1, <2>1
  <2> QED
    BY <1>0, <1>2, <2>1, <2>2, Names
<1>7. ASSUME NEW p \in Pollers, Delivery!PollGets(p) \/ Delivery!PollSaves(p) PROVE QueueInv'
  <2>1. /\ UNCHANGED <<pending, told, head, snapshot, mode>>
        /\ \A d \in Delivery!Calls \ {p} : pc'[d] = pc[d] /\ ref'[d] = ref[d]
        /\ \/ pc[p] = "idle" /\ pc'[p] = "check" /\ Delivery!Begin(p)
           \/ pc[p] = "save" /\ pc'[p] = "tell" /\ overlaps' = overlaps
    BY <1>0, <1>7 DEF Delivery!PollGets, Delivery!PollSaves, Delivery!Goto, Delivery!memory,
                      Delivery!locals, Delivery!history, DeliveryTyped, Delivery!TypeOK
  <2>2. overlaps \subseteq overlaps'
    BY <1>0, <1>1, <2>1
  <2>3. \A t \in Turns : pc'[t] = pc[t]
    BY <1>0, <2>1, Names
  <2>4. \A q \in Pollers :
          /\ head'[q] = head[q] /\ (InFlight(q)' <=> InFlight(q))
          /\ pc[q] \in {"save", "tell"} => pc'[q] \in {"save", "tell"}
          /\ pc'[q] = "take" => pc[q] = "take" /\ ref'[q] = ref[q]
    BY <1>0, <2>1 DEF InFlight
  <2> QED
    BY <2>1, <2>2, <2>3, <2>4, QueuesKept DEF Unborn
<1>8. ASSUME NEW t \in Turns, Delivery!TurnDecides(t) PROVE QueueInv'
  BY <1>4, <1>8, TurnDecided DEF DeliveryTyped
<1>9. ASSUME NEW t \in Turns, Delivery!TurnPlans(t) PROVE QueueInv'
  BY <1>9, TurnPlanned, QueuesPlanned DEF DeliveryTyped
<1>10. ASSUME NEW p \in Pollers, Delivery!PollChecks(p) PROVE QueueInv'
  BY <1>10, PollFound, QueuesFound
<1>11. ASSUME NEW p \in Pollers, Delivery!PollTakes(p) PROVE QueueInv'
  BY <1>11, PollTook, QueuesTook
<1>12. ASSUME NEW p \in Pollers, Delivery!PollTells(p) PROVE QueueInv'
  BY <1>12, PollTold, QueuesSaid
<1> QED
  BY <1>3, <1>5, <1>6, <1>7, <1>8, <1>9, <1>10, <1>11, <1>12, QueuesTold DEF Delivery!Next

-----------------------------------------------------------------------------
(* Delivery: one call at a time, and nothing is lost *)

\* The memories of pauses hold no pieces.
Bare == \A u \in Pausers : pending[u] = <<>>

\* A piece of the reply is with a call: it left the queue and is not told yet.
Taking ==
    \/ \E p \in Pollers : pc[p] \in {"save", "tell"}
    \/ \E t \in Turns : pc[t] = "tell" /\ mode[t] # "resume"

\* What was told, k pieces on their way and what is queued make up the reply.
Whole(k) ==
    /\ owner = Blank => pending[store] = <<>>
    /\ owner # Blank =>
         /\ store # Blank /\ pc[owner] \in {"tell", "returned"} /\ mode[owner] # "resume"
         /\ Pieces(pending[store], owner, Len(told[owner]) + k)
         /\ Len(told[owner]) + k + Len(pending[store]) = size[owner]

Orderly == \A t \in Turns : \A j \in DOMAIN told[t] : told[t][j] = j

Untold == \A t \in Turns : pc[t] \in {"idle", "decide", "plan", "save"} => told[t] = <<>>

\* What a call at work knows of the session is so.
TurnAt(t) ==
    /\ pc[t] \in {"decide", "plan"} => ref[t] = store /\ snapshot[t] = pending[store]
    /\ pc[t] = "save" =>
         /\ mode[t] = "resume" => pending[t] = pending[store]
         /\ mode[t] # "resume" => Pieces(pending[t], t, 1) /\ 1 + Len(pending[t]) = size[t]
    /\ pc[t] = "tell" /\ mode[t] # "resume" => owner = t /\ told[t] = <<>>

PollAt(p) ==
    /\ pc[p] \in {"check", "take", "save"} => ref[p] = store
    /\ InFlight(p) => owner \in Turns /\ head[p] = <<<<owner, Len(told[owner]) + 1>>>>

PauseAt(u) == pc[u] = "save" => ref[u] \in {store, u} /\ (ref[u] = u => store \in {Blank, u})

OneReply ==
    /\ Orderly /\ Untold
    /\ (Taking => Whole(1)) /\ (~Taking => Whole(0))
    /\ \A t \in Turns : TurnAt(t)
    /\ \A p \in Pollers : PollAt(p)
    /\ \A u \in Pausers : PauseAt(u)

OneInv == Bare /\ (overlaps = {} => OneReply)

\* One call at a time: the others are not at work, before the step and after it.
LEMMA Lone ==
    ASSUME DeliveryTyped, Alone, NEW c \in Delivery!Calls, overlaps' = {},
           \A d \in Delivery!Calls \ {c} : pc'[d] = pc[d],
           \/ pc[c] = "idle" /\ Delivery!Begin(c)
           \/ Delivery!Busy(c) /\ overlaps' = overlaps
    PROVE  /\ overlaps = {}
           /\ \A d \in Delivery!Calls \ {c} : ~Delivery!Busy(d) /\ ~Delivery!Busy(d)'
           /\ pc[c] = "idle" => ~Taking
           /\ (c \in Turns /\ pc[c] # "tell") \/ c \in Pausers => ~Taking
<1>1. overlaps = {} /\ \A d \in Delivery!Calls \ {c} : ~Delivery!Busy(d) /\ ~Delivery!Busy(d)'
  <2>1. overlaps = {}
    BY Beginning
  <2>2. \A d \in Delivery!Calls \ {c} : ~Delivery!Busy(d)
    <3>1. CASE pc[c] = "idle" /\ Delivery!Begin(c)
      BY <3>1, Beginning
    <3>2. CASE Delivery!Busy(c) /\ overlaps' = overlaps
      BY <2>1, <3>2 DEF Alone
    <3> QED
      BY <3>1, <3>2
  <2> QED
    BY <2>1, <2>2 DEF Delivery!Busy
<1>2. /\ pc[c] = "idle" => ~Taking
      /\ (c \in Turns /\ pc[c] # "tell") \/ c \in Pausers => ~Taking
  BY <1>1, Names DEF Taking, Delivery!Busy, Delivery!Calls
<1> QED
  BY <1>1, <1>2

\* Then what calls at work know is a matter of one call.
LEMMA Resting ==
    ASSUME NEW c \in Delivery!Calls,
           \A d \in Delivery!Calls \ {c} : ~Delivery!Busy(d)'
    PROVE  /\ \A t \in Turns \ {c} : TurnAt(t)'
           /\ \A p \in Pollers \ {c} : PollAt(p)'
           /\ \A u \in Pausers \ {c} : PauseAt(u)'
           /\ Taking' <=> \/ c \in Pollers /\ pc'[c] \in {"save", "tell"}
                          \/ c \in Turns /\ pc'[c] = "tell" /\ mode'[c] # "resume"
<1>1. \A d \in Delivery!Calls \ {c} : pc'[d] \in {"idle", "returned"}
  BY DEF Delivery!Busy
<1>2. Turns \subseteq Delivery!Calls /\ Pollers \subseteq Delivery!Calls
          /\ Pausers \subseteq Delivery!Calls
  BY DEF Delivery!Calls
<1> QED
  BY <1>1, <1>2 DEF TurnAt, PollAt, InFlight, PauseAt, Taking

\* A step that leaves the queue of the session and what was told of the reply.
LEMMA WholeKept ==
    ASSUME NEW k \in Nat, Whole(k), owner' = owner,
           pending'[store'] = pending[store], store # Blank => store' # Blank,
           owner # Blank => /\ told'[owner] = told[owner] /\ size'[owner] = size[owner]
                            /\ mode'[owner] = mode[owner]
                            /\ pc'[owner] \in {"tell", "returned"}
    PROVE  Whole(k)'
BY DEF Whole, Pieces

\* The steps of a turn.
LEMMA OneTurn ==
    ASSUME DeliveryTyped, Alone, ResetInv, OneInv, overlaps' = {}, NEW t \in Turns,
           \/ Delivery!TurnReads(t) \/ Delivery!TurnFails(t) \/ Delivery!TurnPasses(t)
           \/ Decided(t) \/ Planned(t) \/ Delivery!TurnSaves(t) \/ Delivery!TurnTells(t)
    PROVE  OneReply'
<1>0. /\ t \in Delivery!Calls /\ Turns \subseteq Delivery!Calls
      /\ Turns \subseteq Delivery!Memories
      /\ t # Blank /\ t \notin Pollers /\ t \notin Pausers /\ Blank \notin Turns
      /\ store \in Delivery!Memories /\ owner \in Turns \cup {Blank}
  BY Names DEF Delivery!Calls, Delivery!Memories, DeliveryTyped, Delivery!TypeOK
<1>1. /\ \A d \in Delivery!Calls \ {t} : pc'[d] = pc[d]
      /\ \/ pc[t] = "idle" /\ Delivery!Begin(t)
         \/ Delivery!Busy(t) /\ overlaps' = overlaps
  BY <1>0 DEF Delivery!TurnReads, Delivery!TurnFails, Delivery!TurnPasses, Decided, Planned,
              Delivery!TurnSaves, Delivery!TurnTells, Delivery!Goto, Delivery!Busy, DeliveryTyped,
              Delivery!TypeOK
<1>2. /\ overlaps = {}
      /\ \A d \in Delivery!Calls \ {t} : ~Delivery!Busy(d) /\ ~Delivery!Busy(d)'
      /\ pc[t] # "tell" => ~Taking
  BY <1>0, <1>1, Lone
<1>3. OneReply
  BY <1>2 DEF OneInv
<1>4. Taking <=> pc[t] = "tell" /\ mode[t] # "resume"
  BY <1>0, <1>2 DEF Taking, Delivery!Busy, Delivery!Calls
<1>5. /\ \A x \in Turns \ {t} : TurnAt(x)'
      /\ \A p \in Pollers : PollAt(p)'
      /\ \A u \in Pausers : PauseAt(u)'
      /\ Taking' <=> pc'[t] = "tell" /\ mode'[t] # "resume"
  BY <1>0, <1>2, Resting
<1>6. ASSUME UNCHANGED told, Untold', Whole(0)', pc'[t] # "tell", TurnAt(t)' PROVE OneReply'
  <2>1. Orderly'
    BY <1>3, <1>6 DEF OneReply, Orderly
  <2> QED
    BY <1>5, <1>6, <2>1 DEF OneReply
<1>7. CASE Delivery!TurnReads(t)
  <2>1. /\ pc[t] = "idle" /\ pc'[t] = "decide" /\ ref'[t] = store /\ snapshot'[t] = pending[store]
        /\ UNCHANGED <<store, pending, told, owner, size, mode>>
    BY <1>0, <1>7 DEF Delivery!TurnReads, Delivery!Goto, Delivery!memory, DeliveryTyped,
                      Delivery!TypeOK
  <2>2. Whole(0) /\ Untold
    BY <1>2, <1>3, <2>1 DEF OneReply
  <2>3. owner # t
    BY <1>0, <2>1, <2>2 DEF Whole
  <2>4. Whole(0)'
    BY <1>0, <1>1, <2>1, <2>2, <2>3 DEF Whole, Pieces
  <2>5. Untold' /\ TurnAt(t)'
    BY <1>0, <1>1, <2>1, <2>2 DEF Untold, TurnAt
  <2> QED
    BY <1>6, <2>1, <2>4, <2>5
<1>8. CASE Delivery!TurnFails(t)
  <2>1. /\ pc[t] = "idle" /\ pc'[t] = "returned" /\ store' = Blank /\ owner' = Blank
        /\ UNCHANGED <<pending, told>>
    BY <1>0, <1>8 DEF Delivery!TurnFails, Delivery!Goto, DeliveryTyped, Delivery!TypeOK
  <2>2. Whole(0)'
    BY <2>1 DEF Whole, DeliveryTyped, Blanked
  <2>3. Untold
    BY <1>3 DEF OneReply
  <2>4. Untold' /\ TurnAt(t)'
    BY <1>0, <1>1, <2>1, <2>3 DEF Untold, TurnAt
  <2> QED
    BY <1>6, <2>1, <2>2, <2>4
<1>9. CASE Delivery!TurnPasses(t)
  <2>1. /\ pc[t] = "idle" /\ pc'[t] = "returned"
        /\ UNCHANGED <<store, pending, told, owner, size, mode>>
    BY <1>0, <1>9 DEF Delivery!TurnPasses, Delivery!Goto, Delivery!memory, Delivery!locals,
                      DeliveryTyped, Delivery!TypeOK
  <2>2. Whole(0) /\ Untold
    BY <1>2, <1>3, <2>1 DEF OneReply
  <2>3. owner # t
    BY <1>0, <2>1, <2>2 DEF Whole
  <2>4. Whole(0)'
    BY <1>0, <1>1, <2>1, <2>2, <2>3 DEF Whole, Pieces
  <2>5. Untold' /\ TurnAt(t)'
    BY <1>0, <1>1, <2>1, <2>2 DEF Untold, TurnAt
  <2> QED
    BY <1>6, <2>1, <2>4, <2>5
<1>10. CASE Decided(t)
  <2>1. /\ pc[t] = "decide" /\ pc'[t] = "plan"
        /\ UNCHANGED <<store, pending, told, owner, size, ref, snapshot>>
        /\ \A x \in Turns \ {t} : mode'[x] = mode[x]
    BY <1>0, <1>10 DEF Decided, DeliveryTyped, Delivery!TypeOK
  <2>2. Whole(0) /\ Untold /\ TurnAt(t)
    BY <1>2, <1>3, <2>1 DEF OneReply
  <2>3. owner # t
    BY <1>0, <2>1, <2>2 DEF Whole
  <2>4. Whole(0)'
    BY <1>0, <1>1, <2>1, <2>2, <2>3 DEF Whole, Pieces
  <2>5. Untold' /\ TurnAt(t)'
    BY <1>0, <1>1, <2>1, <2>2 DEF Untold, TurnAt
  <2> QED
    BY <1>6, <2>1, <2>4, <2>5
<1>11. CASE Planned(t)
  <2>1. /\ pc[t] = "plan" /\ pc'[t] = "save"
        /\ UNCHANGED <<store, told, owner, ref, snapshot, mode>>
        /\ \A x \in Turns \ {t} : size'[x] = size[x]
        /\ \A o \in Delivery!Memories \ {t} : pending'[o] = pending[o]
        /\ mode[t] = "resume" => pending'[t] = snapshot[t]
        /\ mode[t] # "resume" => Pieces(pending'[t], t, 1) /\ 1 + Len(pending'[t]) = size'[t]
    BY <1>0, <1>11 DEF Planned, DeliveryTyped, Delivery!TypeOK
  <2>2. Whole(0) /\ Untold /\ TurnAt(t)
    BY <1>2, <1>3, <2>1 DEF OneReply
  <2>3. owner # t
    BY <1>0, <2>1, <2>2 DEF Whole
  <2>4. store # t
    BY <2>1 DEF ResetInv, Fresh, Unborn
  <2>5. pending'[store'] = pending[store]
    BY <1>0, <2>1, <2>4
  <2>6. Whole(0)'
    BY <1>0, <1>1, <2>1, <2>2, <2>3, <2>5 DEF Whole, Pieces
  <2>7. Untold'
    BY <1>0, <1>1, <2>1, <2>2 DEF Untold
  <2>8. TurnAt(t)'
    <3>1. mode'[t] = "resume" => pending'[t] = pending'[store']
      BY <2>1, <2>2, <2>5 DEF TurnAt
    <3>2. mode'[t] # "resume" => Pieces(pending[t], t, 1)' /\ 1 + Len(pending'[t]) = size'[t]
      BY <2>1 DEF Pieces
    <3> QED
      BY <2>1, <3>1, <3>2 DEF TurnAt
  <2> QED
    BY <1>6, <2>1, <2>6, <2>7, <2>8
<1>12. CASE Delivery!TurnSaves(t)
  <2>1. /\ pc[t] = "save" /\ pc'[t] = "tell" /\ store' = t
        /\ owner' = IF mode[t] = "resume" THEN owner ELSE t
        /\ UNCHANGED <<pending, told, size, mode>>
    BY <1>0, <1>12 DEF Delivery!TurnSaves, Delivery!Goto, Delivery!locals, DeliveryTyped,
                       Delivery!TypeOK
  <2>2. Whole(0) /\ Untold /\ TurnAt(t) /\ Orderly
    BY <1>2, <1>3, <2>1 DEF OneReply
  <2>3. owner # t
    BY <1>0, <2>1, <2>2 DEF Whole
  <2>4. Untold' /\ TurnAt(t)' /\ Orderly'
    BY <1>0, <1>1, <2>1, <2>2 DEF Untold, TurnAt, Orderly
  <2>5. CASE mode[t] = "resume"
    <3>1. pending'[store'] = pending[store]
      BY <2>1, <2>2, <2>5 DEF TurnAt
    <3>2. Whole(0)'
      BY <1>0, <1>1, <2>1, <2>2, <2>3, <2>5, <3>1 DEF Whole, Pieces
    <3> QED
      BY <1>5, <2>1, <2>4, <2>5, <3>2 DEF OneReply
  <2>6. CASE mode[t] # "resume"
    <3>1. Pieces(pending[t], t, 1) /\ 1 + Len(pending[t]) = size[t] /\ told[t] = <<>>
      BY <1>0, <2>1, <2>2, <2>6 DEF TurnAt, Untold
    <3>2. /\ owner' = t /\ store' = t /\ pending'[t] = pending[t] /\ mode'[t] = mode[t]
          /\ size'[t] = size[t] /\ Len(told'[t]) = 0
      BY <2>1, <2>6, <3>1
    <3>3. Len(pending[t]) \in Nat
      BY <1>0 DEF DeliveryTyped, Delivery!TypeOK
    <3>4. Len(told'[t]) + 1 = 1 /\ Len(told'[t]) + 1 + Len(pending'[t]) = size'[t]
      BY <3>1, <3>2, <3>3
    <3>5. \A i \in DOMAIN pending'[t] : pending'[t][i] = <<t, Len(told'[t]) + 1 + i>>
      BY <3>1, <3>2, <3>4 DEF Pieces
    <3>6. Whole(1)'
      BY <1>0, <2>1, <2>6, <3>2, <3>4, <3>5 DEF Whole, Pieces
    <3> QED
      BY <1>5, <2>1, <2>4, <2>6, <3>6 DEF OneReply
  <2> QED
    BY <2>5, <2>6
<1>13. CASE Delivery!TurnTells(t)
  <2>1. /\ pc[t] = "tell" /\ pc'[t] = "returned"
        /\ UNCHANGED <<store, pending, owner, size, mode>>
        /\ told' = IF mode[t] = "resume" THEN told ELSE [told EXCEPT ![t] = Append(@, 1)]
    BY <1>0, <1>13 DEF Delivery!TurnTells, Delivery!Goto, Delivery!memory, DeliveryTyped,
                       Delivery!TypeOK
  <2>2. Untold /\ Orderly /\ TurnAt(t)
    BY <1>3 DEF OneReply
  <2>3. TurnAt(t)' /\ ~Taking'
    BY <1>5, <2>1 DEF TurnAt
  <2>4. CASE mode[t] = "resume"
    <3>1. Whole(0)
      BY <1>3, <1>4, <2>4 DEF OneReply
    <3>2. owner # t
      BY <1>0, <2>4, <3>1 DEF Whole
    <3>3. Whole(0)'
      BY <1>0, <1>1, <2>1, <2>4, <3>1, <3>2 DEF Whole, Pieces
    <3>4. Untold'
      BY <1>0, <1>1, <2>1, <2>2, <2>4 DEF Untold
    <3> QED
      BY <1>6, <2>1, <2>3, <2>4, <3>3, <3>4
  <2>5. CASE mode[t] # "resume"
    <3>1. Whole(1) /\ owner = t
      BY <1>3, <1>4, <2>1, <2>2, <2>5 DEF OneReply, TurnAt
    <3>2. told[t] \in Seq(1..MaxParts) /\ 1 \in 1..MaxParts
      BY Names DEF DeliveryTyped, Delivery!TypeOK
    <3>3. /\ \A x \in Turns \ {t} : told'[x] = told[x]
          /\ told'[t] = Append(told[t], 1)
      BY <2>1, <2>5 DEF DeliveryTyped, Delivery!TypeOK
    <3>4. told[t] = <<>> /\ told'[t] = <<1>>
      <4>1. told[t] = <<>>
        BY <2>1, <2>2, <2>5 DEF TurnAt
      <4> QED
        BY <3>3, <4>1
    <3>5. Orderly' /\ Untold'
      BY <1>0, <1>1, <2>1, <2>2, <3>3, <3>4 DEF Orderly, Untold
    <3>6. Whole(0)'
      <4>1. Len(told[t]) = 0 /\ Len(told'[t]) = 1 /\ Len(pending[store]) \in Nat
        BY <1>0, <3>4 DEF DeliveryTyped, Delivery!TypeOK
      <4>2. /\ store # Blank /\ Pieces(pending[store], t, Len(told[t]) + 1)
            /\ Len(told[t]) + 1 + Len(pending[store]) = size[t]
        BY <1>0, <3>1 DEF Whole
      <4>3. /\ Len(told'[t]) + 0 = Len(told[t]) + 1
            /\ Len(told'[t]) + 0 + Len(pending[store]) = size[t]
        BY <4>1, <4>2
      <4>4. /\ owner' = t /\ store' # Blank /\ pending'[store'] = pending[store]
            /\ pc'[owner'] \in {"tell", "returned"} /\ mode'[owner'] # "resume" /\ owner' # Blank
            /\ size'[owner'] = size[t] /\ told'[owner'] = told'[t]
        BY <1>0, <2>1, <2>5, <3>1, <4>2
      <4>5. \A i \in DOMAIN pending'[store'] :
              pending'[store'][i] = <<owner', Len(told'[owner']) + 0 + i>>
        BY <4>2, <4>3, <4>4 DEF Pieces
      <4> QED
        BY <4>3, <4>4, <4>5 DEF Whole, Pieces
    <3> QED
      BY <1>5, <2>3, <3>5, <3>6 DEF OneReply
  <2> QED
    BY <2>4, <2>5
<1> QED
  BY <1>7, <1>8, <1>9, <1>10, <1>11, <1>12, <1>13

\* The steps of a poll.
LEMMA OnePoll ==
    ASSUME DeliveryTyped, Alone, QueueInv, OneInv, overlaps' = {}, NEW p \in Pollers,
           \/ Delivery!PollGets(p) \/ Found(p) \/ Took(p) \/ Delivery!PollSaves(p) \/ Told(p)
    PROVE  OneReply'
<1>0. /\ p \in Delivery!Calls /\ Turns \subseteq Delivery!Calls
      /\ Turns \subseteq Delivery!Memories
      /\ p \notin Turns /\ p \notin Pausers /\ Blank \notin Turns
      /\ store \in Delivery!Memories /\ owner \in Turns \cup {Blank}
  BY Names DEF Delivery!Calls, Delivery!Memories, DeliveryTyped, Delivery!TypeOK
<1>1. /\ \A d \in Delivery!Calls \ {p} : pc'[d] = pc[d]
      /\ \/ pc[p] = "idle" /\ Delivery!Begin(p)
         \/ Delivery!Busy(p) /\ overlaps' = overlaps
  BY <1>0 DEF Delivery!PollGets, Found, Took, Delivery!PollSaves, Told, Others, Delivery!Goto,
              Delivery!Busy, Delivery!history, DeliveryTyped, Delivery!TypeOK
<1>2. /\ overlaps = {}
      /\ \A d \in Delivery!Calls \ {p} : ~Delivery!Busy(d) /\ ~Delivery!Busy(d)'
  BY <1>0, <1>1, Lone
<1>3. OneReply
  BY <1>2 DEF OneInv
<1>4. Taking <=> pc[p] \in {"save", "tell"}
  BY <1>0, <1>2 DEF Taking, Delivery!Busy, Delivery!Calls
<1>5. /\ \A t \in Turns : TurnAt(t)'
      /\ \A q \in Pollers \ {p} : PollAt(q)'
      /\ \A u \in Pausers : PauseAt(u)'
      /\ Taking' <=> pc'[p] \in {"save", "tell"}
  BY <1>0, <1>2, Resting
<1>6. UNCHANGED <<owner, size, mode>> /\ \A t \in Turns : pc'[t] = pc[t]
  BY <1>0, <1>1 DEF Delivery!PollGets, Found, Took, Delivery!PollSaves, Told, Delivery!locals,
                    Delivery!history
<1>7. owner # Blank => owner \in Turns
  BY <1>0
\* Steps that leave the queue where it is.
<1>8. ASSUME UNCHANGED <<pending, told>>, store' = store, PollAt(p)',
             pc'[p] \in {"save", "tell"} <=> pc[p] \in {"save", "tell"}
      PROVE  OneReply'
  <2>1. Orderly' /\ Untold'
    BY <1>3, <1>6, <1>8 DEF OneReply, Orderly, Untold
  <2>2. Taking' <=> Taking
    BY <1>4, <1>5, <1>8
  <2>3. \A k \in {0, 1} : Whole(k) => Whole(k)'
    BY <1>6, <1>7, <1>8 DEF Whole, Pieces
  <2> QED
    BY <1>3, <1>5, <1>8, <2>1, <2>2, <2>3 DEF OneReply
<1>9. CASE Delivery!PollGets(p)
  <2>1. /\ UNCHANGED <<pending, told>> /\ store' = store
        /\ pc[p] = "idle" /\ pc'[p] = "check" /\ ref'[p] = store
    BY <1>0, <1>9 DEF Delivery!PollGets, Delivery!Goto, Delivery!memory, DeliveryTyped,
                      Delivery!TypeOK
  <2>2. PollAt(p)'
    BY <2>1 DEF PollAt, InFlight
  <2> QED
    BY <1>8, <2>1, <2>2
<1>10. CASE Found(p)
  <2>1. PollAt(p) /\ Whole(0)
    BY <1>3, <1>4, <1>10 DEF OneReply, Found
  <2>2. UNCHANGED <<pending, told>> /\ store' = store /\ pc[p] = "check" /\ ref[p] = store
    BY <1>10, <2>1 DEF Found, PollAt
  <2>3. CASE Leaves(p)
    <3>1. PollAt(p)'
      BY <2>3 DEF Leaves, PollAt, InFlight
    <3> QED
      BY <1>8, <2>2, <2>3, <3>1 DEF Leaves
  <2>4. CASE ~Leaves(p)
    <3>1. /\ pc'[p] = "take" /\ ref'[p] = store /\ pending[store] # <<>>
          /\ head'[p] = <<pending[store][1]>>
      BY <1>10, <2>2, <2>4 DEF Found
    <3>2. owner \in Turns /\ Pieces(pending[store], owner, Len(told[owner]) + 0)
      BY <1>7, <2>1, <3>1 DEF Whole
    <3>3. 1 \in DOMAIN pending[store] /\ Len(told[owner]) \in Nat
      <4>1. pending[store] \in Seq(Delivery!Pieces)
        BY <1>0 DEF DeliveryTyped, Delivery!TypeOK
      <4>2. told[owner] \in Seq(1..MaxParts)
        BY <3>2 DEF DeliveryTyped, Delivery!TypeOK
      <4> QED
        BY <3>1, <4>1, <4>2, EmptySeq
    <3>4. pending[store][1] = <<owner, Len(told[owner]) + 0 + 1>>
      BY <3>2, <3>3 DEF Pieces
    <3>5. head'[p] = <<<<owner, Len(told[owner]) + 1>>>>
      BY <3>1, <3>3, <3>4
    <3>6. PollAt(p)'
      BY <1>6, <2>2, <3>1, <3>2, <3>5 DEF PollAt, InFlight
    <3> QED
      BY <1>8, <2>2, <3>1, <3>6
  <2> QED
    BY <2>3, <2>4
<1>11. CASE Delivery!PollSaves(p)
  <2>1. /\ UNCHANGED <<pending, told, head>> /\ store' = ref[p]
        /\ pc[p] = "save" /\ pc'[p] = "tell"
    BY <1>0, <1>11 DEF Delivery!PollSaves, Delivery!Goto, Delivery!locals, Delivery!history,
                       DeliveryTyped, Delivery!TypeOK
  <2>2. PollAt(p)
    BY <1>3 DEF OneReply
  <2>3. store' = store /\ PollAt(p)'
    BY <1>6, <2>1, <2>2 DEF PollAt, InFlight
  <2> QED
    BY <1>8, <2>1, <2>3
<1>12. CASE Took(p)
  <2>1. PollAt(p) /\ Whole(0) /\ Orderly /\ Untold
    BY <1>3, <1>4, <1>12 DEF OneReply, Took
  <2>2. /\ pc[p] = "take" /\ ref[p] = store /\ store' = store /\ told' = told
        /\ owner \in Turns /\ head[p] = <<<<owner, Len(told[owner]) + 1>>>>
    BY <1>12, <2>1 DEF Took, PollAt, InFlight
  <2>3. pending[store] # <<>>
    BY <1>0, <1>2, <2>2 DEF QueueInv, Flight
  <2>4. /\ pc'[p] = "save" /\ ref'[p] = ref[p] /\ head'[p] = head[p]
        /\ Len(pending'[store]) = Len(pending[store]) - 1
        /\ \A i \in DOMAIN pending'[store] :
             i + 1 \in DOMAIN pending[store] /\ pending'[store][i] = pending[store][i + 1]
        /\ pending' \in [Delivery!Memories -> Seq(Delivery!Pieces)]
    BY <1>12, <2>2, <2>3 DEF Took
  <2>5. PollAt(p)'
    BY <1>6, <2>2, <2>4 DEF PollAt, InFlight
  <2>6. Orderly' /\ Untold'
    BY <1>6, <2>1, <2>2 DEF Orderly, Untold
  <2>7. Whole(1)'
    <3>1. /\ pending[store] \in Seq(Delivery!Pieces) /\ pending'[store] \in Seq(Delivery!Pieces)
          /\ told[owner] \in Seq(1..MaxParts) /\ owner # Blank
      BY <1>0, <2>2, <2>4 DEF DeliveryTyped, Delivery!TypeOK
    <3>2. /\ store # Blank /\ pc[owner] \in {"tell", "returned"} /\ mode[owner] # "resume"
          /\ Pieces(pending[store], owner, Len(told[owner]) + 0)
          /\ Len(told[owner]) + 0 + Len(pending[store]) = size[owner]
      BY <2>1, <3>1 DEF Whole
    <3>3. Len(told[owner]) \in Nat /\ Len(pending[store]) \in Nat
      BY <3>1
    <3>4. Len(told[owner]) + 1 + Len(pending'[store]) = size[owner]
      <4> DEFINE n == Len(told[owner])
                 old == Len(pending[store])
                 new == Len(pending'[store])
      <4>1. new = old - 1
        BY <2>4
      <4>2. n + 0 + old = size[owner] /\ size[owner] \in Nat
        BY <2>2, <3>2, Names DEF DeliveryTyped, Delivery!TypeOK
      <4>3. n \in Nat /\ old \in Nat
        BY <3>3
      <4> HIDE DEF n, old, new
      <4>4. n + 1 + new = size[owner]
        BY <4>1, <4>2, <4>3
      <4> QED
        BY <4>4 DEF n, old, new
    <3>5. ASSUME NEW i \in DOMAIN pending'[store]
          PROVE  pending'[store][i] = <<owner, Len(told[owner]) + 1 + i>>
      <4>1. i \in Nat
        BY <3>1
      <4>2. pending[store][i + 1] = <<owner, Len(told[owner]) + 0 + (i + 1)>>
        BY <2>4, <3>2 DEF Pieces
      <4>3. Len(told[owner]) + 0 + (i + 1) = Len(told[owner]) + 1 + i
        BY <3>3, <4>1
      <4> QED
        BY <2>4, <4>2, <4>3
    <3>6. owner' = owner /\ told'[owner] = told[owner] /\ mode'[owner] = mode[owner]
          /\ size'[owner] = size[owner] /\ pc'[owner] = pc[owner] /\ store' = store
      BY <1>6, <2>2
    <3> QED
      BY <3>1, <3>2, <3>4, <3>5, <3>6 DEF Whole, Pieces
  <2> QED
    BY <1>5, <2>4, <2>5, <2>6, <2>7 DEF OneReply
<1>13. CASE Told(p)
  <2>1. pc[p] = "tell" /\ UNCHANGED <<store, pending>> /\ Leaves(p)
    BY <1>13 DEF Told
  <2>2. PollAt(p) /\ Whole(1) /\ Orderly /\ Untold
    BY <1>3, <1>4, <2>1 DEF OneReply
  <2>3. owner \in Turns /\ head[p] = <<<<owner, Len(told[owner]) + 1>>>>
    BY <2>1, <2>2 DEF PollAt, InFlight
  <2>4. PICK x \in Turns, k \in 1..MaxParts :
          /\ head[p] = <<<<x, k>>>> /\ told'[x] = Append(told[x], k)
          /\ \A y \in Turns \ {x} : told'[y] = told[y]
    BY <1>13 DEF Told
  <2>5. x = owner /\ k = Len(told[owner]) + 1
    BY <2>3, <2>4
  <2>6. told[owner] \in Seq(1..MaxParts) /\ Len(told[owner]) \in Nat
    <3>1. told[owner] \in Seq(1..MaxParts)
      BY <2>3 DEF DeliveryTyped, Delivery!TypeOK
    <3> QED
      BY <3>1
  <2>7. /\ Len(told'[owner]) = Len(told[owner]) + 1
        /\ DOMAIN told'[owner] = 1..(Len(told[owner]) + 1)
        /\ told'[owner][Len(told[owner]) + 1] = Len(told[owner]) + 1
        /\ \A j \in 1..Len(told[owner]) : told'[owner][j] = told[owner][j]
    <3>1. told'[owner] = Append(told[owner], k) /\ k \in 1..MaxParts
      BY <2>4, <2>5
    <3>2. /\ Len(Append(told[owner], k)) = Len(told[owner]) + 1
          /\ Append(told[owner], k) \in Seq(1..MaxParts)
          /\ Append(told[owner], k)[Len(told[owner]) + 1] = k
          /\ \A j \in 1..Len(told[owner]) : Append(told[owner], k)[j] = told[owner][j]
      BY <2>6, <3>1, AppendProperties
    <3>3. DOMAIN Append(told[owner], k) = 1..(Len(told[owner]) + 1)
      BY <3>2
    <3> QED
      BY <2>5, <3>1, <3>2, <3>3
  <2>8. Orderly'
    <3>1. \A j \in DOMAIN told'[owner] : told'[owner][j] = j
      <4>1. \A j \in 1..Len(told[owner]) : told[owner][j] = j
        BY <2>2, <2>3, <2>6 DEF Orderly
      <4> QED
        BY <2>6, <2>7, <4>1
    <3> QED
      BY <2>2, <2>4, <2>5, <3>1 DEF Orderly
  <2>9. /\ store # Blank /\ pc[owner] \in {"tell", "returned"} /\ mode[owner] # "resume"
        /\ Pieces(pending[store], owner, Len(told[owner]) + 1)
        /\ Len(told[owner]) + 1 + Len(pending[store]) = size[owner]
    BY <1>0, <2>2, <2>3 DEF Whole
  <2>10. Untold'
    BY <1>6, <2>2, <2>4, <2>5, <2>9 DEF Untold
  <2>11. Whole(0)'
    <3>1. Len(told'[owner]) + 0 = Len(told[owner]) + 1
      BY <2>6, <2>7
    <3>2. /\ owner' = owner /\ store' = store /\ pending'[store] = pending[store]
          /\ mode'[owner] = mode[owner] /\ size'[owner] = size[owner] /\ pc'[owner] = pc[owner]
      BY <1>6, <2>1, <2>3
    <3>3. Len(told'[owner]) + 0 + Len(pending'[store]) = size[owner]
      BY <2>9, <3>1, <3>2
    <3>4. \A i \in DOMAIN pending'[store] :
            pending'[store][i] = <<owner, Len(told'[owner]) + 0 + i>>
      BY <2>9, <3>1, <3>2 DEF Pieces
    <3> QED
      BY <1>0, <2>3, <2>9, <3>2, <3>3, <3>4 DEF Whole, Pieces
  <2>12. PollAt(p)' /\ ~Taking'
    BY <1>5, <2>1 DEF Leaves, PollAt, InFlight
  <2> QED
    BY <1>5, <2>8, <2>10, <2>11, <2>12 DEF OneReply
<1> QED
  BY <1>9, <1>10, <1>11, <1>12, <1>13

\* The steps of a pause.
LEMMA OnePause ==
    ASSUME DeliveryTyped, Alone, OneInv, overlaps' = {}, NEW u \in Pausers,
           Delivery!PauseMarks(u) \/ Delivery!PauseSaves(u)
    PROVE  OneReply'
<1>0. /\ u \in Delivery!Calls /\ Turns \subseteq Delivery!Calls /\ u # Blank /\ Blank \notin Turns
      /\ u \notin Turns /\ u \notin Pollers /\ store \in Delivery!Memories
      /\ owner \in Turns \cup {Blank}
  BY Names DEF Delivery!Calls, DeliveryTyped, Delivery!TypeOK
<1>1. /\ \A d \in Delivery!Calls \ {u} : pc'[d] = pc[d]
      /\ \/ pc[u] = "idle" /\ Delivery!Begin(u)
         \/ Delivery!Busy(u) /\ overlaps' = overlaps
  BY <1>0 DEF Delivery!PauseMarks, Delivery!PauseSaves, Delivery!Goto, Delivery!Busy,
              DeliveryTyped, Delivery!TypeOK
<1>2. /\ overlaps = {} /\ ~Taking
      /\ \A d \in Delivery!Calls \ {u} : ~Delivery!Busy(d) /\ ~Delivery!Busy(d)'
  BY <1>0, <1>1, Lone
<1>3. OneReply /\ Bare
  BY <1>2 DEF OneInv
<1>4. Orderly /\ Untold /\ Whole(0) /\ PauseAt(u)
  BY <1>2, <1>3 DEF OneReply
<1>5. /\ \A t \in Turns : TurnAt(t)'
      /\ \A p \in Pollers : PollAt(p)'
      /\ \A x \in Pausers \ {u} : PauseAt(x)'
      /\ ~Taking'
  BY <1>0, <1>2, Resting
<1>6. UNCHANGED <<pending, told, owner, size, mode>> /\ \A t \in Turns : pc'[t] = pc[t]
  BY <1>0, <1>1 DEF Delivery!PauseMarks, Delivery!PauseSaves, Delivery!locals
<1>7. Orderly' /\ Untold'
  BY <1>4, <1>6 DEF Orderly, Untold
<1>8. ASSUME pending[store'] = pending[store], store' = store \/ store = Blank PROVE Whole(0)'
  <2>1. CASE store' = store
    BY <1>0, <1>4, <1>6, <2>1 DEF Whole, Pieces
  <2>2. CASE store = Blank
    BY <1>0, <1>4, <1>6, <1>8, <2>2 DEF Whole
  <2> QED
    BY <1>8, <2>1, <2>2
<1>9. CASE Delivery!PauseMarks(u)
  <2>1. store' = store /\ ref'[u] = (IF store = Blank THEN u ELSE store)
    BY <1>0, <1>9 DEF Delivery!PauseMarks, DeliveryTyped, Delivery!TypeOK
  <2>2. PauseAt(u)'
    BY <2>1 DEF PauseAt
  <2> QED
    BY <1>5, <1>7, <1>8, <2>1, <2>2 DEF OneReply
<1>10. CASE Delivery!PauseSaves(u)
  <2>1. pc[u] = "save" /\ pc'[u] = "returned" /\ store' = ref[u]
    BY <1>0, <1>10 DEF Delivery!PauseSaves, Delivery!Goto, DeliveryTyped, Delivery!TypeOK
  <2>2. store' = store \/ (store' = u /\ store = Blank)
    BY <1>4, <2>1 DEF PauseAt
  <2>3. pending[store'] = pending[store]
    BY <1>3, <2>2 DEF Bare, DeliveryTyped, Blanked
  <2>4. PauseAt(u)'
    BY <2>1 DEF PauseAt
  <2> QED
    BY <1>5, <1>7, <1>8, <2>2, <2>3, <2>4 DEF OneReply
<1> QED
  BY <1>9, <1>10

LEMMA BareStep == DeliveryTyped /\ Bare /\ Delivery!Next => Bare'
<1> SUFFICES ASSUME DeliveryTyped, Bare, Delivery!Next PROVE Bare'
  OBVIOUS
<1>1. Pausers \subseteq Delivery!Memories /\ \A t \in Turns : t \notin Pausers
  BY Names DEF Delivery!Memories
<1>2. ASSUME NEW t \in Turns, Planned(t) PROVE Bare'
  BY <1>1, <1>2 DEF Planned, Bare
<1>3. ASSUME NEW p \in Pollers, Took(p) PROVE Bare'
  BY <1>1, <1>3 DEF Took, Bare
<1>4. ASSUME pending' = pending PROVE Bare'
  BY <1>4 DEF Bare
<1>5. ASSUME NEW t \in Turns,
             \/ Delivery!TurnReads(t) \/ Delivery!TurnFails(t) \/ Delivery!TurnPasses(t)
             \/ Delivery!TurnDecides(t) \/ Delivery!TurnSaves(t) \/ Delivery!TurnTells(t)
      PROVE  pending' = pending
  BY <1>5 DEF Delivery!TurnReads, Delivery!TurnFails, Delivery!TurnPasses, Delivery!TurnDecides,
              Delivery!TurnSaves, Delivery!TurnTells, Delivery!memory
<1>6. ASSUME NEW p \in Pollers,
             \/ Delivery!PollGets(p) \/ Delivery!PollChecks(p) \/ Delivery!PollSaves(p)
             \/ Delivery!PollTells(p)
      PROVE  pending' = pending
  BY <1>6 DEF Delivery!PollGets, Delivery!PollChecks, Delivery!PollSaves, Delivery!PollTells,
              Delivery!memory
<1>7. ASSUME NEW u \in Pausers, Delivery!PauseMarks(u) \/ Delivery!PauseSaves(u)
      PROVE  pending' = pending
  BY <1>7 DEF Delivery!PauseMarks, Delivery!PauseSaves
<1>8. ASSUME NEW t \in Turns, Delivery!TurnPlans(t) PROVE Bare'
  BY <1>2, <1>8, TurnPlanned DEF DeliveryTyped
<1>9. ASSUME NEW p \in Pollers, Delivery!PollTakes(p) PROVE Bare'
  BY <1>3, <1>9, PollTook
<1> QED
  BY <1>4, <1>5, <1>6, <1>7, <1>8, <1>9 DEF Delivery!Next

LEMMA OneStep ==
    DeliveryTyped /\ Alone /\ ResetInv /\ QueueInv /\ OneInv /\ Delivery!Next => OneInv'
<1> SUFFICES ASSUME DeliveryTyped, Alone, ResetInv, QueueInv, OneInv, Delivery!Next PROVE OneInv'
  OBVIOUS
<1>1. Bare'
  BY BareStep DEF OneInv
<1>2. ASSUME overlaps' = {} PROVE OneReply'
  <2>1. CASE \E t \in Turns :
               \/ Delivery!TurnReads(t) \/ Delivery!TurnFails(t) \/ Delivery!TurnPasses(t)
               \/ Delivery!TurnDecides(t) \/ Delivery!TurnPlans(t)
               \/ Delivery!TurnSaves(t) \/ Delivery!TurnTells(t)
    BY <1>2, <2>1, OneTurn, TurnDecided, TurnPlanned DEF DeliveryTyped
  <2>2. CASE \E p \in Pollers :
               \/ Delivery!PollGets(p) \/ Delivery!PollChecks(p) \/ Delivery!PollTakes(p)
               \/ Delivery!PollSaves(p) \/ Delivery!PollTells(p)
    BY <1>2, <2>2, OnePoll, PollFound, PollTook, PollTold
  <2>3. CASE \E u \in Pausers : Delivery!PauseMarks(u) \/ Delivery!PauseSaves(u)
    BY <1>2, <2>3, OnePause
  <2> QED
    BY <2>1, <2>2, <2>3 DEF Delivery!Next
<1> QED
  BY <1>1, <1>2 DEF OneInv

\* When no call is at work, what was told and what is queued is the whole reply.
LEMMA OneLosesNothing ==
    ASSUME DeliveryTyped, OneInv
    PROVE  Delivery!NothingLost
<1>1. ASSUME overlaps = {}, NEW t \in Turns PROVE told[t] = [j \in DOMAIN told[t] |-> j]
  <2>1. told[t] \in Seq(1..MaxParts) /\ \A j \in DOMAIN told[t] : told[t][j] = j
    BY <1>1 DEF OneInv, OneReply, Orderly, DeliveryTyped, Delivery!TypeOK
  <2> QED
    BY <2>1
<1>2. ASSUME overlaps = {}, Delivery!Quiet, owner # Blank
      PROVE  told[owner] \o [i \in DOMAIN pending[store] |-> pending[store][i][2]]
               = [j \in 1..size[owner] |-> j]
  <2> DEFINE queue == pending[store]
             queued == [i \in 1..Len(queue) |-> queue[i][2]]
             n == Len(told[owner])
  <2>1. ~Taking
    BY <1>2 DEF Taking, Delivery!Quiet, Delivery!Busy, Delivery!Calls
  <2>2. Whole(0) /\ Orderly
    BY <1>2, <2>1 DEF OneInv, OneReply
  <2>3. /\ owner \in Turns /\ told[owner] \in Seq(1..MaxParts) /\ queue \in Seq(Delivery!Pieces)
        /\ size[owner] \in Nat
    BY <1>2, Names DEF DeliveryTyped, Delivery!TypeOK
  <2>4. n \in Nat /\ Len(queue) \in Nat /\ DOMAIN queue = 1..Len(queue)
    BY <2>3
  <2>5. /\ \A i \in 1..Len(queue) : queue[i] = <<owner, n + 0 + i>>
        /\ n + 0 + Len(queue) = size[owner]
    BY <1>2, <2>2, <2>4 DEF Whole, Pieces
  <2>6. n + Len(queue) = size[owner]
    <3>1. n + 0 + Len(queue) = size[owner]
      BY <2>5
    <3>2. n \in Nat /\ Len(queue) \in Nat /\ size[owner] \in Nat
      BY <2>3, <2>4
    <3> HIDE DEF n, queue
    <3> QED
      BY <3>1, <3>2
  <2> HIDE DEF n
  <2>7. \A i \in 1..Len(queue) : queue[i][2] = n + i /\ queue[i][2] \in Nat
    BY <2>4, <2>5
  <2> HIDE DEF queue
  <2>8. queued \in Seq(Nat) /\ Len(queued) = Len(queue)
            /\ \A i \in 1..Len(queue) : queued[i] = n + i
    <3>1. queued \in Seq(Nat)
      BY <2>4, <2>7, IsASeq
    <3> QED
      BY <2>4, <2>7, <3>1
  <2>9. told[owner] \in Seq(Nat) /\ Len(told[owner]) = n /\ \A j \in 1..n : told[owner][j] = j
    BY <2>2, <2>3 DEF Orderly, n
  <2> DEFINE whole == [j \in 1..size[owner] |-> j]
  <2>10. whole \in Seq(Nat) /\ Len(whole) = size[owner] /\ \A j \in 1..size[owner] : whole[j] = j
    BY <2>3
  <2> HIDE DEF queued, whole
  <2>11. /\ told[owner] \o queued \in Seq(Nat)
         /\ Len(told[owner] \o queued) = n + Len(queue)
         /\ \A i \in 1..(n + Len(queue)) :
              (told[owner] \o queued)[i] = IF i <= n THEN told[owner][i] ELSE queued[i - n]
    <3>1. /\ told[owner] \o queued \in Seq(Nat)
          /\ Len(told[owner] \o queued) = Len(told[owner]) + Len(queued)
          /\ \A i \in 1..(Len(told[owner]) + Len(queued)) :
               (told[owner] \o queued)[i] =
                   IF i <= Len(told[owner]) THEN told[owner][i] ELSE queued[i - Len(told[owner])]
      BY <2>8, <2>9, ConcatProperties
    <3> QED
      BY <2>8, <2>9, <3>1
  <2>12. \A i \in 1..size[owner] : (told[owner] \o queued)[i] = whole[i]
    <3> TAKE i \in 1..size[owner]
    <3>1. CASE i <= n
      <4>1. i \in 1..n /\ i \in 1..(n + Len(queue))
        BY <2>3, <2>4, <2>6, <3>1
      <4>2. (told[owner] \o queued)[i] = told[owner][i]
        BY <2>11, <3>1, <4>1
      <4> QED
        BY <2>9, <2>10, <4>1, <4>2
    <3>2. CASE ~(i <= n)
      <4>1. i - n \in 1..Len(queue) /\ n + (i - n) = i
        BY <2>3, <2>4, <2>6, <3>2
      <4> QED
        BY <2>6, <2>8, <2>10, <2>11, <3>2, <4>1
    <3> QED
      BY <3>1, <3>2
  <2>13. told[owner] \o queued = whole
    BY <2>6, <2>10, <2>11, <2>12, SeqEqual
  <2> QED
    BY <2>4, <2>13 DEF queued, whole, queue
<1> QED
  BY <1>1, <1>2 DEF Delivery!NothingLost

-----------------------------------------------------------------------------
(* Delivery: the theorems *)

DeliveryInv == DeliveryTyped /\ Alone /\ ResetInv /\ Hushed /\ QueueInv /\ OneInv

LEMMA DeliveryInit == Delivery!Init => DeliveryInv
<1> SUFFICES ASSUME Delivery!Init PROVE DeliveryInv
  OBVIOUS
<1>0. /\ Turns \subseteq Delivery!Calls /\ Pollers \subseteq Delivery!Calls
      /\ Pausers \subseteq Delivery!Calls /\ Blank \in Delivery!Memories
      /\ \A t \in Turns : t # Blank
  BY Names DEF Delivery!Calls, Delivery!Memories
<1>1. DeliveryTyped
  <2>1. Delivery!TypeOK
    <3>1. <<>> \in Seq(Delivery!Pieces) /\ <<>> \in Seq(1..MaxParts) /\ 0 \in 0..MaxParts
      BY Names
    <3> QED
      BY <1>0, <3>1 DEF Delivery!Init, Delivery!TypeOK
  <2>2. Holding /\ Blanked
    BY <1>0 DEF Delivery!Init, Holding, InFlight, Blanked
  <2> QED
    BY <2>1, <2>2 DEF DeliveryTyped
<1>2. \A c \in Delivery!Calls : pc[c] = "idle" /\ ref[c] = Blank
  BY DEF Delivery!Init
<1>3. \A o \in Delivery!Memories : pending[o] = <<>> /\ delivered[o] = <<>>
  BY DEF Delivery!Init
<1>4. Alone
  BY <1>0, <1>2 DEF Alone, Delivery!Busy
<1>5. ResetInv
  <2>1. Fresh
    BY <1>0, <1>2, <1>3 DEF Delivery!Init, Fresh, Delivery!Memories
  <2>2. OwnPiece
    BY <1>0, <1>2 DEF OwnPiece, InFlight
  <2>3. Delivery!ResetForgets
    BY DEF Delivery!Init, Delivery!ResetForgets
  <2> QED
    BY <2>1, <2>2, <2>3 DEF ResetInv
<1>6. Hushed
  BY <1>0, <1>2 DEF Delivery!Init, Hushed
<1>7. QueueInv
  <2>1. InOrder(<<>>)
    BY DEF InOrder, Successive
  <2>2. Queues
    BY <1>3, <2>1 DEF Queues, Delivery!Init
  <2>3. Flight
    BY <1>0, <1>2 DEF Flight, InFlight
  <2>4. Delivery!NoPieceSkipped
    BY DEF Delivery!Init, Delivery!NoPieceSkipped
  <2> QED
    BY <2>2, <2>3, <2>4 DEF QueueInv
<1>8. OneInv
  <2>1. Bare
    BY <1>3 DEF Bare, Delivery!Memories
  <2>2. ~Taking
    BY <1>0, <1>2 DEF Taking
  <2>3. Whole(0) /\ Orderly /\ Untold
    BY <1>0, <1>3 DEF Delivery!Init, Whole, Orderly, Untold
  <2>4. /\ \A t \in Turns : TurnAt(t)
        /\ \A p \in Pollers : PollAt(p)
        /\ \A u \in Pausers : PauseAt(u)
    BY <1>0, <1>2 DEF TurnAt, PollAt, PauseAt, InFlight
  <2> QED
    BY <2>1, <2>2, <2>3, <2>4 DEF OneInv, OneReply
<1> QED
  BY <1>1, <1>4, <1>5, <1>6, <1>7, <1>8 DEF DeliveryInv

LEMMA DeliveryStays == DeliveryInv /\ UNCHANGED deliveryVars => DeliveryInv'
<1> SUFFICES ASSUME DeliveryInv, UNCHANGED deliveryVars PROVE DeliveryInv'
  OBVIOUS
<1> USE DEF deliveryVars
<1>1. DeliveryTyped'
  BY DEF DeliveryInv, DeliveryTyped, Delivery!TypeOK, Holding, InFlight, Blanked
<1>2. Alone'
  BY DEF DeliveryInv, Alone, Delivery!Busy
<1>3. ResetInv'
  BY DEF DeliveryInv, ResetInv, Fresh, Unborn, OwnPiece, InFlight, Delivery!ResetForgets
<1>4. Hushed'
  BY DEF DeliveryInv, Hushed, InFlight, Delivery!Busy
<1>5. QueueInv'
  <2>1. Ready' = Ready
    BY DEF Ready, Unborn, Heard, Flying
  <2>2. Queues => Queues'
    BY <2>1 DEF Queues, InOrder, Successive
  <2>3. Flight => Flight'
    BY DEF Flight, InFlight, Heard
  <2> QED
    BY <2>2, <2>3 DEF DeliveryInv, QueueInv, Delivery!NoPieceSkipped
<1>6. OneInv'
  <2>1. (Bare => Bare') /\ (Orderly => Orderly') /\ (Untold => Untold') /\ (Taking' <=> Taking)
    BY DEF Bare, Orderly, Untold, Taking
  <2>2. (Whole(0) => Whole(0)') /\ (Whole(1) => Whole(1)')
    BY DEF Whole, Pieces
  <2>3. /\ \A t \in Turns : TurnAt(t) => TurnAt(t)'
        /\ \A p \in Pollers : PollAt(p) => PollAt(p)'
        /\ \A u \in Pausers : PauseAt(u) => PauseAt(u)'
    BY DEF TurnAt, PollAt, PauseAt, InFlight, Pieces
  <2> QED
    BY <2>1, <2>2, <2>3 DEF DeliveryInv, OneInv, OneReply
<1> QED
  BY <1>1, <1>2, <1>3, <1>4, <1>5, <1>6 DEF DeliveryInv

LEMMA DeliveryAlways == Spec => []DeliveryInv
<1>1. Init => DeliveryInv
  BY DeliveryInit DEF Init
<1>2. DeliveryInv /\ Delivery!Next => DeliveryInv'
  BY DeliveryTypes, AloneStep, ResetStep, HushedStep, QueueStep, OneStep DEF DeliveryInv
<1>3. DeliveryInv /\ [Next]_<<part, deliveryVars, memoryVars>> => DeliveryInv'
  BY <1>2, DeliveryStays DEF Next
<1> QED
  BY <1>1, <1>3, PTL DEF Spec

\* Whatever turns, polls and pauses overlap, the memory of a turn that starts a new
\* topic never holds a piece of the old one: a poll that still has the old memory
\* moves its pieces there.
THEOREM NewTopicForgets == Spec => []ResetForgets
<1>1. DeliveryInv => ResetForgets
  BY DEF DeliveryInv, ResetInv, ResetForgets
<1> QED
  BY <1>1, DeliveryAlways, PTL

\* Any number of turns, polls and pauses that overlap, as long as two polls do not,
\* tell the pieces of a reply in order and without a gap.
THEOREM NoneSkipped == Spec => []NoPieceSkipped
<1>1. DeliveryInv => NoPieceSkipped
  BY DEF DeliveryInv, QueueInv, NoPieceSkipped
<1> QED
  BY <1>1, DeliveryAlways, PTL

\* After a pause nothing is told before the user's next message, while calls come
\* one at a time.
THEOREM PausesHold == Spec => PauseHolds
<1> DEFINE Silent == overlaps' = {} /\ hushed => told' = told
<1>1. DeliveryInv /\ Delivery!Next => Silent
  BY PauseStep DEF DeliveryInv
<1>2. DeliveryInv /\ [Next]_<<part, deliveryVars, memoryVars>> => Silent \/ UNCHANGED deliveryVars
  BY <1>1 DEF Next
<1>3. UNCHANGED deliveryVars => UNCHANGED Delivery!vars
  BY DEF deliveryVars, Delivery!vars, Delivery!memory, Delivery!locals, Delivery!history
<1>4. DeliveryInv /\ [Next]_<<part, deliveryVars, memoryVars>> => [Silent]_(Delivery!vars)
  BY <1>2, <1>3
<1> QED
  BY <1>4, DeliveryAlways, PTL DEF Spec, PauseHolds, Delivery!PauseHolds

\* While calls come one at a time, each piece of a reply is told once and in order,
\* and what was told and what is queued is the whole reply, however many
\* acknowledgements, pauses, failures and polls come between.
THEOREM NoneLost == Spec => []NothingLost
<1>1. DeliveryInv => NothingLost
  BY OneLosesNothing DEF DeliveryInv, NothingLost
<1> QED
  BY <1>1, DeliveryAlways, PTL

-----------------------------------------------------------------------------
(* The types of both parts *)

\* Memories name only memories, and so do jobs.
MemoryFits ==
    /\ Len(rows) <= MaxRows /\ broken \in BOOLEAN
    /\ \A i \in DOMAIN rows : rows[i].from <= Len(rows)
    /\ \A j \in Jobs : job[j].target <= Len(rows)

\* It stays so while the memories and what they replaced stay, and a job that moves
\* names one of them or none.
LEMMA FitsWhileTheyStay ==
    ASSUME MemoryInv, MemoryFits, NEW j \in Jobs,
           rows' \in Seq(Memories), DOMAIN rows' = DOMAIN rows,
           \A k \in DOMAIN rows : rows'[k].from = rows[k].from,
           broken' \in BOOLEAN,
           job'[j].target \in {0, job[j].target},
           \A k \in Jobs \ {j} : job'[k] = job[k]
    PROVE  MemoryFits'
<1>1. /\ Len(rows) \in Nat /\ DOMAIN rows = 1..Len(rows) /\ Len(rows') = Len(rows)
      /\ job[j].target <= Len(rows)
  BY DEF MemoryInv, MemoryTyped, MemoryFits
<1>2. job'[j].target <= Len(rows)
  BY <1>1
<1> QED
  BY <1>1, <1>2 DEF MemoryFits

LEMMA FitsWhileRowsStay ==
    ASSUME MemoryInv, MemoryFits, NEW j \in Jobs, rows' = rows, broken' \in BOOLEAN,
           job'[j].target \in DOMAIN rows \cup {0},
           \A k \in Jobs \ {j} : job'[k] = job[k]
    PROVE  MemoryFits'
<1>1. Len(rows) \in Nat /\ DOMAIN rows = 1..Len(rows)
  BY DEF MemoryInv, MemoryTyped
<1>2. job'[j].target <= Len(rows)
  BY <1>1
<1> QED
  BY <1>2 DEF MemoryFits

\* A step that looks, or gives up.
LEMMA FitsQuiet ==
    ASSUME MemoryInv, MemoryFits, NEW j \in Jobs,
           \/ \E s \in Memory!Scopes, o \in Memory!Ops :
                 Memory!AddLooks(j, s, o) \/ Memory!Resolve(j, s, o)
           \/ Memory!Die(j)
    PROVE  MemoryFits'
<1>1. MemoryTyped /\ DOMAIN rows \subseteq Nat /\ broken \in BOOLEAN
  BY DEF MemoryInv, MemoryTyped, MemoryFits
<1>2. CASE Memory!Die(j)
  <2>1. rows' = rows /\ job' = Memory!Done(j) /\ broken' \in BOOLEAN
    BY <1>1, <1>2, Zenon DEF Memory!Die
  <2> QED
    BY <1>1, <2>1, Finishing, FitsWhileRowsStay
<1>3. ASSUME NEW s \in Memory!Scopes, NEW o \in Memory!Ops,
             Memory!AddLooks(j, s, o) \/ Memory!Resolve(j, s, o)
      PROVE  MemoryFits'
  <2>1. rows' = rows /\ broken' = broken
    BY <1>3 DEF Memory!AddLooks, Memory!Resolve
  <2>2. Memory!Same(s, o) \subseteq DOMAIN rows
    BY Finding DEF Finds
  <2>3. PICK step \in Memory!Steps, i \in DOMAIN rows \cup {0} :
          job' = Memory!Take(j, s, o, step, i)
    BY <1>3, <2>2 DEF Memory!AddLooks, Memory!Resolve, Memory!Steps, Memory!None
  <2>4. i \in Nat /\ step \in Memory!Steps /\ s \in Memory!Scopes /\ o \in Memory!Ops
    BY <1>1
  <2>5. /\ job' \in JobsTyped
        /\ job'[j] = [step |-> step, session |-> s, op |-> o, target |-> i]
        /\ \A k \in Jobs \ {j} : job'[k] = job[k]
    BY <1>1, <2>3, <2>4, Settling
  <2> QED
    BY <1>1, <2>1, <2>5, FitsWhileRowsStay
<1> QED
  BY <1>2, <1>3

\* A step that changes memories.
LEMMA FitsWritten ==
    ASSUME MemoryInv, MemoryFits, NEW j \in Jobs,
           \/ Memory!Supersede(j) \/ Memory!Write(j)
           \/ \E i \in Memory!Ids, o \in Memory!Ops : Memory!ChangeById(j, i, o)
    PROVE  MemoryFits'
<1>1. MemoryTyped /\ broken' \in BOOLEAN
  BY DEF MemoryInv, MemoryFits, Memory!Supersede, Memory!Write, Memory!ChangeById
<1>2. ASSUME NEW i \in DOMAIN rows, NEW o \in Memory!Ops, o.op # "add", Memory!Change(i, o)
      PROVE  /\ rows' \in Seq(Memories) /\ DOMAIN rows' = DOMAIN rows
             /\ \A k \in DOMAIN rows : rows'[k].from = rows[k].from
  BY <1>1, <1>2, Changing DEF Kept
<1>3. CASE Memory!Supersede(j)
  <2>1. /\ rows' \in Seq(Memories) /\ DOMAIN rows' = DOMAIN rows
        /\ \A k \in DOMAIN rows : rows'[k].from = rows[k].from
        /\ job[j].target \in DOMAIN rows
    <3>1. job[j].target \in DOMAIN rows
      BY <1>3 DEF MemoryInv, Aims, Reaches, Memory!Supersede
    <3> QED
      BY <1>1, <1>3, <3>1, Marking DEF Memory!Supersede, Kept
  <2>2. job'[j].target = job[j].target /\ \A k \in Jobs \ {j} : job'[k] = job[k]
    BY <1>1, <1>3, <2>1, Aiming DEF Memory!Supersede, Memory!Steps, MemoryTyped
  <2> QED
    BY <1>1, <2>1, <2>2, FitsWhileTheyStay
<1>4. CASE Memory!Write(j)
  <2>1. /\ job[j].target \in DOMAIN rows /\ job[j].op \in Memory!Ops /\ job[j].op.op # "add"
        /\ Memory!Change(job[j].target, job[j].op) /\ job' = Memory!Done(j)
    BY <1>4 DEF MemoryInv, Aims, Reaches, Suits, Memory!Write
  <2>2. job'[j].target = 0 /\ \A k \in Jobs \ {j} : job'[k] = job[k]
    BY <1>1, <2>1, Finishing
  <2> QED
    BY <1>1, <1>2, <2>1, <2>2, FitsWhileTheyStay
<1>5. ASSUME NEW i \in Memory!Ids, NEW o \in Memory!Ops, Memory!ChangeById(j, i, o)
      PROVE  MemoryFits'
  <2>1. i \in DOMAIN rows /\ o.op # "add" /\ Memory!Change(i, o) /\ job' = job
    BY <1>5 DEF Memory!ChangeById
  <2> QED
    BY <1>1, <1>2, <2>1, FitsWhileTheyStay
<1> QED
  BY <1>3, <1>4, <1>5

LEMMA FitsCreated ==
    ASSUME MemoryInv, MemoryFits, NEW j \in Jobs, Memory!Create(j), MaxRows \in Nat
    PROVE  MemoryFits'
<1> DEFINE new == [subject |-> job[j].op.subject, content |-> job[j].op.content,
                   session |-> job[j].session, status |-> "active", from |-> job[j].target]
<1>1. /\ MemoryTyped /\ rows' = Append(rows, new) /\ job' = Memory!Done(j)
      /\ broken' = broken /\ Len(rows) < MaxRows
  BY DEF Memory!Create, Memory!Origin, MemoryInv
<1>2. job[j].target \in Nat /\ job[j].target <= Len(rows)
  BY <1>1 DEF MemoryTyped, JobsTyped, MemoryFits
<1>3. /\ Len(rows) \in Nat /\ DOMAIN rows = 1..Len(rows)
      /\ Len(rows') = Len(rows) + 1 /\ DOMAIN rows' = 1..Len(rows) + 1
      /\ \A k \in DOMAIN rows : rows'[k] = rows[k] /\ rows[k].from \in Nat
      /\ rows'[Len(rows) + 1].from = job[j].target
  <2>1. \A k \in DOMAIN rows : rows[k] \in Memories
    BY <1>1 DEF MemoryTyped
  <2> QED
    BY <1>1, <2>1 DEF MemoryTyped, Memories
<1>4. /\ job'[j].target = 0 /\ \A k \in Jobs \ {j} : job'[k] = job[k]
      /\ \A k \in Jobs : job[k].target \in Nat
  BY <1>1, Finishing DEF MemoryTyped, JobsTyped
<1>5. \A i \in DOMAIN rows' : rows'[i].from <= Len(rows')
  BY <1>2, <1>3 DEF MemoryFits
<1>6. \A k \in Jobs : job'[k].target <= Len(rows')
  BY <1>3, <1>4 DEF MemoryFits
<1> QED
  BY <1>1, <1>3, <1>5, <1>6 DEF MemoryFits

LEMMA FitsAlways == Spec => []MemoryFits
<1>1. MaxRows \in Nat
  BY ConversationsAssumption DEF Memory!MemoryAssumption
<1>2. Init => MemoryFits
  <2> SUFFICES ASSUME Memory!Init PROVE MemoryFits
    BY DEF Init
  <2>1. rows = <<>> /\ job = [j \in Jobs |-> Memory!Idle] /\ broken = FALSE
    BY DEF Memory!Init
  <2>2. Memory!Idle.target = 0 /\ Len(rows) = 0 /\ DOMAIN rows = {}
    BY <2>1 DEF Memory!Idle, Memory!None
  <2>3. /\ \A j \in Jobs : job[j].target <= Len(rows)
        /\ \A i \in DOMAIN rows : rows[i].from <= Len(rows)
    BY <2>1, <2>2
  <2>4. broken \in BOOLEAN
    BY <2>1
  <2>5. Len(rows) <= MaxRows
    BY <1>1, <2>2
  <2> QED
    BY <2>3, <2>4, <2>5 DEF MemoryFits
<1>3. MemoryInv /\ MemoryFits /\ Memory!Next => MemoryFits'
  BY <1>1, FitsQuiet, FitsWritten, FitsCreated DEF Memory!Next
<1>4. MemoryInv /\ MemoryFits /\ [Next]_<<part, deliveryVars, memoryVars>> => MemoryFits'
  <2>1. MemoryFits /\ UNCHANGED memoryVars => MemoryFits'
    BY DEF memoryVars, MemoryFits
  <2> QED
    BY <1>3, <2>1 DEF Next
<1> QED
  BY <1>2, <1>4, MemoryAlways, PTL DEF Spec

\* Whatever overlaps, every variable of the delivery and of the memories keeps its type;
\* what a memory or a job names is a memory there is.
THEOREM TypesHold == Spec => []TypesOK
<1>1. MemoryInv /\ MemoryFits => Memory!TypeOK
  <2> SUFFICES ASSUME MemoryInv, MemoryFits PROVE Memory!TypeOK
    OBVIOUS
  <2>1. /\ MaxRows \in Nat /\ Len(rows) \in Nat /\ Len(rows) <= MaxRows
        /\ DOMAIN rows = 1..Len(rows) /\ MemoryTyped
    BY ConversationsAssumption DEF Memory!MemoryAssumption, MemoryInv, MemoryTyped, MemoryFits
  <2>2. ASSUME NEW i \in DOMAIN rows PROVE rows[i] \in Memory!Row
    <3>1. rows[i] \in Memories
      BY <2>1 DEF MemoryTyped
    <3>2. rows[i].from \in Nat /\ rows[i].from <= Len(rows)
      BY <3>1 DEF Memories, MemoryFits
    <3>3. rows[i].from \in Memory!Ids \cup {Memory!None}
      BY <2>1, <3>2 DEF Memory!Ids, Memory!None
    <3> QED
      BY <3>1, <3>3 DEF Memories, Memory!Row
  <2>3. rows \in Seq(Memory!Row)
    <3>1. rows \in [1..Len(rows) -> Memory!Row]
      BY <2>1, <2>2 DEF MemoryTyped
    <3> QED
      BY <2>1, <3>1, SeqDef
  <2>4. ASSUME NEW j \in Jobs
        PROVE  job[j] \in [step : Memory!Steps, session : Memory!Scopes,
                           op : Memory!Ops \cup {Memory!NoOp},
                           target : Memory!Ids \cup {Memory!None}]
    <3>1. job[j].target \in Nat /\ job[j].target <= Len(rows)
      BY <2>1 DEF MemoryTyped, JobsTyped, MemoryFits
    <3>2. job[j].target \in Memory!Ids \cup {Memory!None}
      BY <2>1, <3>1 DEF Memory!Ids, Memory!None
    <3> QED
      BY <2>1, <3>2 DEF MemoryTyped, JobsTyped
  <2>5. overlap \in BOOLEAN /\ renamed \in BOOLEAN /\ broken \in BOOLEAN
    BY <2>1 DEF MemoryTyped, MemoryFits
  <2> QED
    BY <2>1, <2>3, <2>4, <2>5 DEF MemoryTyped, JobsTyped, Memory!TypeOK
<1>2. DeliveryInv => Delivery!TypeOK
  BY DEF DeliveryInv, DeliveryTyped
<1>3. Spec => [](part \in {"delivery", "memory"})
  <2>1. Init => part \in {"delivery", "memory"}
    BY ConversationsAssumption DEF Init
  <2>2. part \in {"delivery", "memory"} /\ [Next]_<<part, deliveryVars, memoryVars>>
          => (part \in {"delivery", "memory"})'
    BY DEF Next
  <2> QED
    BY <2>1, <2>2, PTL DEF Spec
<1>4. part \in {"delivery", "memory"} /\ MemoryInv /\ MemoryFits /\ DeliveryInv => TypesOK
  <2>1. ASSUME part = "delivery", Delivery!TypeOK PROVE TypesOK
    BY <2>1 DEF TypesOK, Delivery!TypeOK
  <2>2. ASSUME part = "memory", Memory!TypeOK PROVE TypesOK
    BY <2>2 DEF TypesOK, Memory!TypeOK
  <2> QED
    BY <1>1, <1>2, <2>1, <2>2
<1> QED
  BY <1>3, <1>4, MemoryAlways, FitsAlways, DeliveryAlways, PTL

=============================================================================
