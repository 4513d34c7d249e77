---------------------------- MODULE LongTermMemory ----------------------------
(***************************************************************************)
(* The long-term memories of one owner.  A job reads the active memories of*)
(* its session, asks the memory manager model what to do about them, and   *)
(* does it one store call at a time.  Up to four jobs run in the executor  *)
(* of the web app, one per answered request, and explicit requests come    *)
(* from the MCP server, in a session or in none.  A job stands for one     *)
(* operation of an answer: each looks at the store anew, like the operation*)
(* of another job that was shown the same memories.                        *)
(***************************************************************************)
EXTENDS Integers, Sequences, FiniteSets

CONSTANTS Jobs,      \* jobs that may run at once
          Sessions,
          Subjects,  \* subject and type of a memory
          Contents,
          Shared,    \* the session id None
          MaxRows    \* bound: memories ever created

VARIABLES rows,     \* the memories, in the order of their creation
          job,      \* what each job is doing
          overlap,  \* history: two jobs were adding to one subject of a session at once
          renamed,  \* history: an update gave a memory another subject
          broken    \* history: a job has died half way

memVars == <<rows, job, overlap, renamed, broken>>

MemoryAssumption == Shared \notin Sessions /\ MaxRows \in Nat

Scopes == Sessions \cup {Shared}
Ids == 1..MaxRows
None == 0
Row == [subject : Subjects, content : Contents, session : Scopes,
        status : {"active", "superseded", "deleted"}, from : Ids \cup {None}]

NoOp == [op |-> "noop"]
Ops == [op : {"add"}, subject : Subjects, content : Contents]
       \cup [op : {"update"}, subject : Subjects, content : Contents]
       \cup [op : {"delete"}, subject : Subjects]

Steps == {"idle", "supersede", "create", "write"}
Idle == [step |-> "idle", session |-> Shared, op |-> NoOp, target |-> None]

Init == /\ rows = <<>>
        /\ job = [j \in Jobs |-> Idle]
        /\ overlap = FALSE
        /\ renamed = FALSE
        /\ broken = FALSE

-----------------------------------------------------------------------------
(* What a job sees *)

\* slip: the session is not asked for
Listed_All(s) == {i \in DOMAIN rows : rows[i].status = "active"}

\* list_memories with status "active": without a session every session's.
Listed(s) == {i \in DOMAIN rows : /\ rows[i].status = "active"
                                  /\ s = Shared \/ rows[i].session \in {s, Shared}}

About(s, subject) == {i \in Listed(s) : rows[i].subject = subject}

\* slip: an exact duplicate is all that is looked for
Same_Exact(s, o) == {i \in About(s, o.subject) : o.op = "delete" \/ rows[i].content = o.content}

\* The match an operation falls on: the newest of the listed ones, whichever
\* that is.
Same(s, o) == LET exact == {i \in About(s, o.subject) : o.op # "delete" /\ rows[i].content = o.content}
              IN  IF exact # {} THEN exact ELSE About(s, o.subject)

\* Job j, for session s, is to do step of the operation o on memory i.
Take(j, s, o, step, i) ==
    [job EXCEPT ![j] = [step |-> step, session |-> s, op |-> o, target |-> i]]
Aim(j, step, i) == [job EXCEPT ![j].step = step, ![j].target = i]
Done(j) == [job EXCEPT ![j] = Idle]

-----------------------------------------------------------------------------
(* A job *)

\* An exception or the end of the process: what is written stays written.
Die(j) == /\ job[j].step # "idle"
          /\ job' = Done(j)
          /\ broken' = (broken \/ job[j].step = "create")
          /\ UNCHANGED <<rows, overlap, renamed>>

\* Another job is adding to the subject of o, for session s.
Adding(s, o) == \E k \in Jobs : /\ job[k].step # "idle" /\ job[k].session = s
                               /\ job[k].op.op = "add" /\ job[k].op.subject = o.subject

\* The model's answer is an add: the job looks for the memory to replace.  A fact
\* that is there already only gains importance and confidence.
AddLooks(j, s, o) ==
    /\ job[j].step = "idle"
    /\ o.op = "add"
    /\ LET same == Same(s, o)
       IN  \/ \E i \in same : /\ rows[i].content # o.content
                             /\ job' = Take(j, s, o, "supersede", i)
           \/ same = {} /\ job' = Take(j, s, o, "create", None)
    /\ overlap' = (overlap \/ Adding(s, o))
    /\ UNCHANGED <<rows, renamed, broken>>

Supersede(j) == /\ job[j].step = "supersede"
                /\ rows' = [rows EXCEPT ![job[j].target].status = "superseded"]
                /\ job' = Aim(j, "create", job[j].target)
                /\ UNCHANGED <<overlap, renamed, broken>>

\* slip: the new memory does not name the old one
Origin_None(j) == None

Origin(j) == job[j].target

Create(j) == /\ job[j].step = "create"
             /\ Len(rows) < MaxRows
             /\ rows' = Append(rows, [subject |-> job[j].op.subject, content |-> job[j].op.content,
                                      session |-> job[j].session, status |-> "active",
                                      from |-> Origin(j)])
             /\ job' = Done(j)
             /\ UNCHANGED <<overlap, renamed, broken>>

\* slip: the status is that of the event
Change_Event(i, o) ==
    /\ rows' = [rows EXCEPT ![i].status = IF o.op = "delete" THEN "deleted" ELSE "updated"]
    /\ renamed' = renamed

\* What update_memory makes of memory i for an operation.  It looks neither at the
\* session nor at the status the memory has.
Change(i, o) ==
    /\ rows' = IF o.op = "delete" THEN [rows EXCEPT ![i].status = "deleted"]
               ELSE [rows EXCEPT ![i].content = o.content, ![i].subject = o.subject]
    /\ renamed' = (renamed \/ (o.op = "update" /\ rows[i].subject # o.subject))

\* The answer is an update or a deletion and gives an id, of any memory: it is
\* used as it is.  (One that no memory has is a KeyError and changes nothing.)
ChangeById(j, i, o) ==
    /\ job[j].step = "idle"
    /\ o.op # "add"
    /\ i \in DOMAIN rows
    /\ Change(i, o)
    /\ UNCHANGED <<job, overlap, broken>>

\* It gives none: the job looks for a match.
Resolve(j, s, o) ==
    /\ job[j].step = "idle"
    /\ o.op # "add"
    /\ \E i \in Same(s, o) : job' = Take(j, s, o, "write", i)
    /\ UNCHANGED <<rows, overlap, renamed, broken>>

Write(j) == /\ job[j].step = "write"
            /\ Change(job[j].target, job[j].op)
            /\ job' = Done(j)
            /\ UNCHANGED <<overlap, broken>>

Next == \E j \in Jobs :
           \/ \E s \in Scopes, o \in Ops : AddLooks(j, s, o) \/ Resolve(j, s, o)
           \/ \E i \in Ids, o \in Ops : ChangeById(j, i, o)
           \/ Die(j)
           \/ Supersede(j)
           \/ Create(j)
           \/ Write(j)

Spec == Init /\ [][Next]_memVars

-----------------------------------------------------------------------------
(* Properties *)

\* Types of every variable.
TypeOK == /\ rows \in Seq(Row)
          /\ Len(rows) <= MaxRows
          /\ job \in [Jobs -> [step : Steps, session : Scopes, op : Ops \cup {NoOp},
                               target : Ids \cup {None}]]
          /\ overlap \in BOOLEAN
          /\ renamed \in BOOLEAN
          /\ broken \in BOOLEAN

\* A memory that a job found itself, and not by an id it was given, is one of its
\* session or a shared one when the job changes it, whatever other jobs did
\* between its reading and its writing.
OwnSessionOnly ==
    [][\A j \in Jobs, i \in DOMAIN rows :
          job'[j] # job[j] /\ rows'[i] # rows[i] =>
             job[j].session = Shared \/ rows[i].session \in {job[j].session, Shared}]_memVars

\* However jobs interleave, a memory is only superseded for another one: there is
\* one that names it, or a job that is about to create it, unless a job died.
SupersededHasSuccessor ==
    \A i \in DOMAIN rows : rows[i].status = "superseded" =>
        \/ broken
        \/ \E k \in DOMAIN rows : k > i /\ rows[k].from = i
        \/ \E j \in Jobs : job[j].step = "create" /\ job[j].target = i

\* A new fact replaces the one it contradicts: a session has one active memory
\* of a subject, through any updates and deletions by other jobs, as long as no
\* two jobs add to one subject of a session at once, no memory is shared by all
\* sessions and no update gives a memory another subject.
OneFactPerSubject ==
    \/ overlap
    \/ renamed
    \/ \E i \in DOMAIN rows : rows[i].session = Shared
    \/ \A i, k \in DOMAIN rows :
          /\ rows[i].status = "active" /\ rows[k].status = "active"
          /\ rows[i].session = rows[k].session
          /\ rows[i].subject = rows[k].subject
          => i = k
=============================================================================
