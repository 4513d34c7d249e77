----------------------------- MODULE MCWorksProofs -----------------------------
(***************************************************************************)
(* What the run of MCWorks checks on small sets, for all: the theorems of  *)
(* WorkLocksProofs carried over to the map of the sum, and the tables      *)
(* and files of works with their types, for any calls, works, agents,      *)
(* sessions and names.                                                     *)
(*                                                                         *)
(* The invariant of the tables says who has made each row and each file,   *)
(* which calls are handling it, and how far a deletion that nobody ran     *)
(* across has come.                                                        *)
(***************************************************************************)
EXTENDS MCWorks, TLAPS

MapProofs == INSTANCE WorkLocksProofs WITH
    Calls <- Callers, Works <- LockedWorks, owner <- holder, pc <- where

-----------------------------------------------------------------------------
(* The map of locks *)

\* A step of the instance the runs check is one of the instance the proofs are about.
LEMMA SameSteps == Map!Next => MapProofs!Next
BY DEF Map!Next, MapProofs!Next, Map!LookupKnown, MapProofs!LookupKnown,
   Map!LookupNew, MapProofs!LookupNew, Map!Acquire, MapProofs!Acquire,
   Map!Release, MapProofs!Release, Map!Hand, MapProofs!Hand, Map!Without,
   MapProofs!Without, Map!Entries, MapProofs!Entries, Map!Evictable,
   MapProofs!Evictable, Map!Surplus, MapProofs!Surplus, Map!Older,
   MapProofs!Older, Map!Evicted, MapProofs!Evicted, Map!Unreferenced,
   MapProofs!Unreferenced, Map!Free, MapProofs!Free, Map!Cardinality,
   MapProofs!Cardinality

\* What the map of locks needs of the constants.
LEMMA LocksAssumed == MapProofs!WorkLocksAssumption
<1>1. MapProofs!IsFiniteSet(LockedWorks)
  BY WorksAssumption DEF Map!WorkLocksAssumption, Map!IsFiniteSet, MapProofs!IsFiniteSet
<1> QED
  BY <1>1, WorksAssumption DEF Map!WorkLocksAssumption, MapProofs!WorkLocksAssumption

\* Whatever the size of the map, it implements a mutex per work, until a lock that was
\* handed out is evicted before it is acquired.
THEOREM LocksImplementMutex == Spec => ImplementsMutex
<1>1. Init => MapProofs!MapInv /\ Map!Mutex!Init
  <2> SUFFICES ASSUME Init PROVE MapProofs!MapInv /\ Map!Mutex!Init
    OBVIOUS
  <2>1. MapProofs!Init
    BY DEF Init, Map!Init, MapProofs!Init
  <2>2. MapProofs!LocksInv
    BY LocksAssumed, <2>1, MapProofs!LocksInit
  <2>3. Map!Inside = [w \in LockedWorks |-> None]
    BY DEF Init, Map!Init, Map!Inside
  <2> QED
    BY <2>2, <2>3 DEF MapProofs!MapInv, Map!Mutex!Init
<1>2. MapProofs!MapInv /\ [Next]_<<part, tableVars, lockVars>> =>
        MapProofs!MapInv' /\ [UNCHANGED Map!vars \/ evicted' \/ Map!Mutex!Next]_Map!Inside
  <2> SUFFICES ASSUME MapProofs!MapInv, [Next]_<<part, tableVars, lockVars>>
               PROVE  MapProofs!MapInv' /\ [UNCHANGED Map!vars \/ evicted' \/ Map!Mutex!Next]_Map!Inside
    OBVIOUS
  <2>1. [MapProofs!Next]_MapProofs!vars
    BY SameSteps DEF Next, lockVars, MapProofs!vars
  <2>2. /\ MapProofs!MapInv'
        /\ [UNCHANGED MapProofs!vars \/ evicted' \/ MapProofs!Mutex!Next]_MapProofs!Inside
    BY <2>1, LocksAssumed, MapProofs!MapStep, MapProofs!MutexUntil
  <2>3. Map!Inside = MapProofs!Inside /\ Map!Inside' = MapProofs!Inside'
    BY DEF Map!Inside, MapProofs!Inside
  <2>4. MapProofs!Mutex!Next => Map!Mutex!Next
    BY <2>3 DEF MapProofs!Mutex!Next, MapProofs!Mutex!Leave, MapProofs!Mutex!Enter,
       Map!Mutex!Next, Map!Mutex!Leave, Map!Mutex!Enter
  <2>5. UNCHANGED MapProofs!vars => UNCHANGED Map!vars
    BY DEF MapProofs!vars, Map!vars
  <2> QED
    BY <2>2, <2>3, <2>4, <2>5
<1> QED
  BY <1>1, <1>2, PTL DEF Spec, ImplementsMutex, Map!ImplementsMutex

-----------------------------------------------------------------------------
(* The tables and files of works *)

Resting == {"open", "turn", "ensure", "insert", "done"}
Tooling == {"filing", "revising", "refiling", "scrapping", "unfiling"}
Steps == {"idle", "purge", "contexts", "dropping"} \cup Resting \cup Tooling

Place == [pc : Steps, op : {None, "create", "message", "chat", "delete"},
          work : Works \cup {None}, session : Tables!AnySession \cup {None},
          todo : SUBSET Members, listed : SUBSET Sessions, ids : SUBSET Callers,
          name : Names \cup Members \cup {None}, old : Names \cup {None}]

Typed ==
    /\ db \in [works : SUBSET Works,
               mapping : SUBSET [work : Works, member : Members, session : Sessions],
               chats : SUBSET Tables!AnySession, records : SUBSET Tables!AnySession,
               contexts : SUBSET Tables!AnySession, artifacts : SUBSET Tables!Artifact,
               notices : SUBSET Works]
    /\ disk \in [files : SUBSET (Callers \X Names), sandboxes : SUBSET Works,
                 kept : SUBSET Works]
    /\ at \in [Callers -> Place]
    /\ owner \in [Sessions -> Works \cup {None}]
    /\ crossed \subseteq Works /\ raced \subseteq Callers /\ moved \subseteq Callers

\* Where a call can be, and with what, by its operation.
CallOK(c) ==
    LET a == at[c]
    IN  /\ a.pc = "idle" => a = Tables!Idle
        /\ a.pc # "idle" =>
              /\ a.pc \in Tooling \cup {"open", "turn"} => a.op \in {"message", "chat"}
              /\ a.pc \in {"purge", "contexts", "dropping"} => a.op = "delete"
              /\ a.pc \in {"ensure", "insert"} => a.op \in {"create", "message"}
              /\ a.op \in {"create", "message", "chat", "delete"}
              /\ a.op = "chat" => a.session = Chat /\ a.work = None
              /\ a.op # "chat" => a.work \in Works
              /\ a.op = "message" /\ a.pc \in {"ensure", "insert", "done"} =>
                    \/ a.ids = {} /\ Host \in a.todo
                    \/ a.session \in Sessions /\ Host \notin a.todo
              /\ a.op = "message" /\ a.pc \notin {"ensure", "insert", "done"} =>
                    a.session \in Sessions /\ Host \notin a.todo
              /\ a.op = "message" /\ a.session \in Sessions /\ Host \notin a.todo =>
                    owner[a.session] = a.work
              /\ a.pc = "insert" => a.name \in a.todo
              /\ a.pc \in {"filing", "revising", "refiling"} => a.name \in Names
              /\ a.pc \in Tooling => \E id \in Callers : a.ids = {id}
              /\ a.pc = "filing" => a.ids = {c}
              /\ a.op = "create" \/ a.pc = "purge" => a.ids = {}
              /\ a.op = "delete" => a.pc \in {"purge", "contexts", "dropping", "done"}

CallsOK == \A c \in Callers : CallOK(c)

\* The call that makes an artifact has filed it.
Made(id) == at[id].ids = {id} /\ at[id].op \in {"message", "chat"} /\ at[id].pc \in Resting

\* A call that is at an artifact with a tool, or has taken it over with its work.
Handles(c, id) == id \in at[c].ids /\ (at[c].pc \in Tooling \/ at[c].op = "delete")

\* Rows and the calls that made them or have taken them.
MadeInv ==
    /\ \A r \in db.artifacts :
          /\ Made(r.id)
          /\ r.request = at[r.id].session
          /\ r.session = r.request \/ r.id \in moved
          /\ r.work \in {None, at[r.id].work} \/ r.id \in moved
    /\ \A r, q \in db.artifacts : r.id = q.id => r = q
    /\ \A c \in Callers : \A id \in at[c].ids : Made(id) \/ (id = c /\ at[c].pc = "filing")
    /\ \A c \in Callers : at[c].op = "delete" => \A id \in at[c].ids :
          /\ \A r \in db.artifacts : r.id # id
          /\ id \in moved \/ at[id].work = at[c].work
    /\ \A id \in Callers \ raced : \A c, d \in Callers :
          Handles(c, id) /\ Handles(d, id) => c = d

\* Rows have files: from the first, and at the end of a revision.
NamedInv ==
    /\ \A c \in Callers : at[c].pc = "filing" => <<c, at[c].name>> \in disk.files
    /\ \A r \in db.artifacts : r.id \notin raced =>
          /\ (\A c \in Callers : ~Handles(c, r.id)) => <<r.id, r.name>> \in disk.files
          /\ \A c \in Callers : at[c].pc = "refiling" /\ r.id \in at[c].ids =>
                <<r.id, at[c].name>> \in disk.files

\* Files have rows, or somebody still to remove them.
KeptInv ==
    /\ \A f \in disk.files :
          \/ f[1] \in raced \cup moved
          \/ \E r \in db.artifacts : r.id = f[1]
          \/ at[f[1]].pc = "filing"
          \/ \E c \in Callers : at[c].pc \in {"contexts", "dropping"} /\ f[1] \in at[c].ids
    /\ \A c \in Callers : \A id \in at[c].ids \ raced :
          /\ at[c].pc = "unfiling" => \A f \in disk.files : f[1] # id
          /\ at[c].pc \in Tooling \ {"filing"} => \E r \in db.artifacts : r.id = id

\* Sessions belong to works.
OwnedInv ==
    /\ \A r \in db.mapping : owner[r.session] = r.work
    /\ \A c \in Callers : at[c].op = "delete" =>
          \A s \in at[c].listed : owner[s] = at[c].work

Deletes(c, w) == at[c].work = w /\ at[c].op = "delete"
Past(c, w) == Deletes(c, w) /\ at[c].pc \in {"contexts", "dropping", "done"}
Owned(w) == {s \in Sessions : owner[s] = w}

\* A deletion that no other call of the work runs across.
DeletionInv ==
    \A w \in Works \ crossed :
       /\ (\A c \in Callers : ~Past(c, w)) =>
             \A s \in Owned(w) : \E r \in db.mapping : r.work = w /\ r.session = s
       /\ \A c \in Callers : Deletes(c, w) =>
             /\ \A d \in Callers : at[d].work = w => at[d].op = "delete" \/ at[d].pc = "done"
             /\ at[c].pc = "purge" => Owned(w) \subseteq at[c].listed
             /\ Owned(w) \cap db.contexts \subseteq at[c].listed \/ at[c].pc = "purge"
             /\ at[c].pc \in {"dropping", "done"} =>
                   at[c].listed = {} /\ w \notin disk.sandboxes \ disk.kept
       /\ \A c \in Callers : Past(c, w) =>
             /\ w \notin db.works \cup db.notices
             /\ \A r \in db.mapping : r.work # w
             /\ Owned(w) \cap (db.chats \cup db.records) = {}
             /\ \A r \in db.artifacts : r.session \notin Owned(w) /\ r.work # w

TablesInv == Typed /\ CallsOK /\ MadeInv /\ NamedInv /\ KeptInv /\ OwnedInv /\ DeletionInv

LEMMA TablesAssumed ==
  Host \in Members /\ Chat \notin Sessions /\ None \notin Works
BY WorksAssumption DEF Tables!TableAssumption

Others(c) == \A d \in Callers \ {c} : at'[d] = at[d]

\* A call goes on to another step.
Goes(c, step) ==
    /\ at'[c].pc = step /\ at'[c].op = at[c].op /\ at'[c].work = at[c].work
    /\ at'[c].session = at[c].session /\ at'[c].todo = at[c].todo
    /\ at'[c].listed = at[c].listed /\ at'[c].ids = at[c].ids
    /\ at'[c].name = at[c].name /\ at'[c].old = at[c].old

\* A call begins.
Begins(c, step, op, w, todo, listed) ==
    /\ at'[c].pc = step /\ at'[c].op = op /\ at'[c].work = w
    /\ at'[c].todo = todo /\ at'[c].listed = listed /\ at'[c].ids = {}

\* A call takes up a tool.
Uses(c, step, id, name) ==
    /\ at[c].pc = "turn" /\ at[c].ids = {}
    /\ at'[c].pc = step /\ at'[c].op = at[c].op /\ at'[c].work = at[c].work
    /\ at'[c].session = at[c].session /\ at'[c].todo = at[c].todo
    /\ at'[c].listed = at[c].listed /\ at'[c].ids = {id} /\ at'[c].name = name
    /\ raced' = IF Tables!Busy(id) THEN raced \cup {id} ELSE raced

LEMMA StepGoes ==
  ASSUME Typed, NEW c \in Callers, NEW step \in Steps, Tables!Step(c, step)
  PROVE  at' \in [Callers -> Place] /\ Others(c) /\ Goes(c, step)
<1>1. at[c] \in Place /\ at' = [at EXCEPT ![c].pc = step]
  BY DEF Typed, Tables!Step
<1>2. [at[c] EXCEPT !.pc = step] \in Place
  BY <1>1 DEF Place
<1>3. at'[c] = [at[c] EXCEPT !.pc = step] /\ at' \in [Callers -> Place] /\ Others(c)
  BY <1>1, <1>2 DEF Typed, Others
<1> QED
  BY <1>1, <1>3 DEF Goes, Place

LEMMA IdleBegins ==
  ASSUME Typed, NEW c \in Callers, NEW op \in {"create", "message", "delete"},
         NEW w \in Works, NEW todo \in SUBSET Members, NEW listed \in SUBSET Sessions,
         Tables!Begin(c, op, w, todo, listed)
  PROVE  /\ at' \in [Callers -> Place] /\ Others(c)
         /\ Begins(c, IF op = "delete" THEN "purge" ELSE "ensure", op, w, todo, listed)
<1> DEFINE step == IF op = "delete" THEN "purge" ELSE "ensure"
           p == [Tables!Idle EXCEPT !.pc = step, !.op = op, !.work = w, !.todo = todo,
                                    !.listed = listed]
<1>1. at' = [at EXCEPT ![c] = p]
  BY DEF Tables!Begin
<1>0. step \in Steps
  BY DEF Steps, Resting
<1> HIDE DEF step
<1>2. p \in Place
  <2>1. Tables!Idle \in Place
    BY DEF Tables!Idle, Place, Steps
  <2>2. [Tables!Idle EXCEPT !.pc = step, !.op = op] \in Place
    BY <1>0, <2>1 DEF Place
  <2> HIDE DEF p
  <2>3. p = [[Tables!Idle EXCEPT !.pc = step, !.op = op]
                EXCEPT !.work = w, !.todo = todo, !.listed = listed]
    BY DEF p
  <2> QED
    BY <2>2, <2>3 DEF Place
<1>3. /\ p.pc = step
      /\ p.op = op /\ p.work = w /\ p.todo = todo /\ p.listed = listed /\ p.ids = {}
  BY DEF Tables!Idle
<1> HIDE DEF p
<1>4. at'[c] = p /\ at' \in [Callers -> Place] /\ Others(c)
  BY <1>1, <1>2 DEF Typed, Others
<1> QED
  BY <1>3, <1>4 DEF Begins, step

LEMMA UseTakes ==
  ASSUME Typed, NEW c \in Callers, NEW step \in Steps, NEW id \in Callers,
         NEW name \in Names \cup {None}, NEW old \in Names \cup {None},
         Tables!Use(c, step, id, name, old)
  PROVE  at' \in [Callers -> Place] /\ Others(c) /\ Uses(c, step, id, name)
<1> DEFINE p == [at[c] EXCEPT !.pc = step, !.ids = {id}, !.name = name, !.old = old]
<1>1. at[c] \in Place /\ at' = [at EXCEPT ![c] = p]
  BY DEF Typed, Tables!Use
<1>2. p \in Place
  BY <1>1 DEF Place
<1>3. /\ p.pc = step /\ p.op = at[c].op /\ p.work = at[c].work /\ p.session = at[c].session
      /\ p.todo = at[c].todo /\ p.listed = at[c].listed /\ p.ids = {id} /\ p.name = name
  BY <1>1 DEF Place
<1> HIDE DEF p
<1>4. at'[c] = p /\ at' \in [Callers -> Place] /\ Others(c)
  BY <1>1, <1>2 DEF Typed, Others
<1> QED
  BY <1>3, <1>4 DEF Uses, Tables!Use, Tables!Is

LEMMA OneMoves ==
  ASSUME Typed, CallsOK, NEW c \in Callers, Others(c), at' \in [Callers -> Place],
         \A s \in Sessions : owner[s] # None => owner'[s] = owner[s],
         CallOK(c)'
  PROVE  CallsOK'
<1>1. ASSUME NEW d \in Callers, d # c PROVE CallOK(d)'
  <2>1. at'[d] = at[d] /\ CallOK(d)
    BY <1>1 DEF Others, CallsOK
  <2> QED
    BY <2>1, TablesAssumed DEF CallOK
<1> QED
  BY <1>1 DEF CallsOK


\* What a call writes of its own, one action at a time.
LEMMA WorkSteps ==
  ASSUME Typed, CallsOK, NEW c \in Callers
  PROVE  /\ \A w \in Works : Tables!Create(c, w) =>
               /\ at' \in [Callers -> Place] /\ Others(c)
               /\ Begins(c, "ensure", "create", w, Members, {})
         /\ \A w \in Works : Tables!Message(c, w) =>
               /\ at' \in [Callers -> Place] /\ Others(c)
               /\ Begins(c, "ensure", "message", w, {Host}, {})
         /\ \A w \in Works : Tables!Delete(c, w) =>
               /\ at' \in [Callers -> Place] /\ Others(c)
               /\ Begins(c, "purge", "delete", w, {},
                         {r.session : r \in {q \in db.mapping : q.work = w}})
         /\ Tables!Converse(c) =>
               /\ at' \in [Callers -> Place] /\ Others(c)
               /\ at'[c].pc = "open" /\ at'[c].op = "chat" /\ at'[c].work = None
               /\ at'[c].session = Chat /\ at'[c].listed = {} /\ at'[c].ids = {}
<1>1. ASSUME NEW w \in Works, Tables!Create(c, w)
      PROVE  /\ at' \in [Callers -> Place] /\ Others(c)
             /\ Begins(c, "ensure", "create", w, Members, {})
  BY <1>1, IdleBegins DEF Tables!Create
<1>2. ASSUME NEW w \in Works, Tables!Message(c, w)
      PROVE  /\ at' \in [Callers -> Place] /\ Others(c)
             /\ Begins(c, "ensure", "message", w, {Host}, {})
  <2>1. {Host} \in SUBSET Members
    BY TablesAssumed
  <2>2. Tables!Begin(c, "message", w, {Host}, {})
    BY <1>2 DEF Tables!Message
  <2> QED
    BY SMTT(30), <2>1, <2>2, IdleBegins
<1>3. ASSUME NEW w \in Works, Tables!Delete(c, w)
      PROVE  /\ at' \in [Callers -> Place] /\ Others(c)
             /\ Begins(c, "purge", "delete", w, {},
                       {r.session : r \in {q \in db.mapping : q.work = w}})
  <2> DEFINE listed == {r.session : r \in {q \in db.mapping : q.work = w}}
  <2>1. listed \in SUBSET Sessions
    BY DEF Typed
  <2>2. Tables!Begin(c, "delete", w, {}, listed)
    BY <1>3 DEF Tables!Delete
  <2> HIDE DEF listed
  <2>3. /\ at' \in [Callers -> Place] /\ Others(c)
        /\ Begins(c, "purge", "delete", w, {}, listed)
    BY <2>1, <2>2, IdleBegins
  <2> QED
    BY <2>3 DEF listed
<1>4. ASSUME Tables!Converse(c)
      PROVE  /\ at' \in [Callers -> Place] /\ Others(c)
             /\ at'[c].pc = "open" /\ at'[c].op = "chat" /\ at'[c].work = None
             /\ at'[c].session = Chat /\ at'[c].listed = {} /\ at'[c].ids = {}
  <2> DEFINE p == [Tables!Idle EXCEPT !.pc = "open", !.op = "chat", !.session = Chat]
  <2>1. at' = [at EXCEPT ![c] = p]
    BY <1>4 DEF Tables!Converse
  <2>2. p \in Place
    BY DEF Place, Tables!Idle, Tables!AnySession, Steps, Resting
  <2>3. /\ p.pc = "open" /\ p.op = "chat" /\ p.work = None /\ p.session = Chat
        /\ p.listed = {} /\ p.ids = {}
    BY DEF Tables!Idle
  <2> HIDE DEF p
  <2>4. at'[c] = p /\ at' \in [Callers -> Place] /\ Others(c)
    BY <2>1, <2>2 DEF Typed, Others
  <2> QED
    BY <2>3, <2>4
<1> QED
  BY <1>1, <1>2, <1>3, <1>4

LEMMA MissMoves ==
  ASSUME Typed, CallsOK, NEW c \in Callers, NEW a \in Members, Tables!Miss(c, a)
  PROVE  /\ at' \in [Callers -> Place] /\ Others(c)
         /\ at'[c].pc = "insert"
         /\ at'[c].op = at[c].op
         /\ at'[c].work = at[c].work
         /\ at'[c].session = at[c].session
         /\ at'[c].todo = at[c].todo
         /\ at'[c].listed = at[c].listed
         /\ at'[c].ids = at[c].ids
         /\ at'[c].name = a
<1> DEFINE p == [at[c] EXCEPT !.pc = "insert", !.name = a]
<1>1. at[c] \in Place /\ at' = [at EXCEPT ![c] = p]
  BY DEF Typed, Tables!Miss
<1>2. p \in Place
  BY <1>1 DEF Place, Steps, Resting
<1>3. /\ p.pc = "insert"
      /\ p.op = at[c].op
      /\ p.work = at[c].work
      /\ p.session = at[c].session
      /\ p.todo = at[c].todo
      /\ p.listed = at[c].listed
      /\ p.ids = at[c].ids
      /\ p.name = a
  BY <1>1 DEF Place
<1> HIDE DEF p
<1>4. at'[c] = p /\ at' \in [Callers -> Place] /\ Others(c)
  BY <1>1, <1>2 DEF Typed, Others
<1> QED
  BY <1>3, <1>4

LEMMA SummonMoves ==
  ASSUME Typed, CallsOK, NEW c \in Callers, NEW a \in Members, Tables!Summon(c, a)
  PROVE  /\ at' \in [Callers -> Place] /\ Others(c)
         /\ at'[c].pc = "ensure"
         /\ at'[c].op = at[c].op
         /\ at'[c].work = at[c].work
         /\ at'[c].session = at[c].session
         /\ at'[c].todo = {a}
         /\ at'[c].listed = at[c].listed
         /\ at'[c].ids = at[c].ids
         /\ at'[c].name = at[c].name
<1> DEFINE p == [at[c] EXCEPT !.pc = "ensure", !.todo = {a}]
<1>1. at[c] \in Place /\ at' = [at EXCEPT ![c] = p]
  BY DEF Typed, Tables!Summon
<1>2. p \in Place
  BY <1>1 DEF Place, Steps, Resting
<1>3. /\ p.pc = "ensure"
      /\ p.op = at[c].op
      /\ p.work = at[c].work
      /\ p.session = at[c].session
      /\ p.todo = {a}
      /\ p.listed = at[c].listed
      /\ p.ids = at[c].ids
      /\ p.name = at[c].name
  BY <1>1 DEF Place
<1> HIDE DEF p
<1>4. at'[c] = p /\ at' \in [Callers -> Place] /\ Others(c)
  BY <1>1, <1>2 DEF Typed, Others
<1> QED
  BY <1>3, <1>4

LEMMA LookupMoves ==
  ASSUME Typed, CallsOK, NEW c \in Callers, NEW a \in Members, Tables!Lookup(c, a)
  PROVE  /\ at' \in [Callers -> Place] /\ Others(c)
         /\ at'[c].pc = "ensure" /\ at'[c].op = at[c].op /\ at'[c].work = at[c].work
         /\ at'[c].todo = at[c].todo \ {a} /\ at'[c].listed = at[c].listed
         /\ at'[c].ids = at[c].ids
         /\ \E r \in Tables!Mapped(at[c].work, a) :
               at'[c].session = IF a = Host THEN r.session ELSE at[c].session
<1>1. PICK r \in Tables!Mapped(at[c].work, a) :
         at' = [at EXCEPT ![c].todo = @ \ {a},
                          ![c].session = IF a = Host THEN r.session ELSE @]
  BY DEF Tables!Lookup
<1> DEFINE s == IF a = Host THEN r.session ELSE at[c].session
           p == [at[c] EXCEPT !.todo = @ \ {a}, !.session = s]
<1>2. at[c] \in Place /\ at[c].pc = "ensure" /\ at' = [at EXCEPT ![c] = p]
  BY <1>1 DEF Typed, Tables!Lookup, Tables!Is
<1>3. s \in Tables!AnySession \cup {None}
  <2>1. r.session \in Tables!AnySession
    BY DEF Typed, Tables!Mapped, Tables!AnySession
  <2> QED
    BY <1>2, <2>1 DEF Place
<1> HIDE DEF s
<1>4. p \in Place
  BY <1>2, <1>3 DEF Place
<1>5. /\ p.pc = at[c].pc /\ p.op = at[c].op /\ p.work = at[c].work
      /\ p.todo = at[c].todo \ {a} /\ p.listed = at[c].listed /\ p.ids = at[c].ids
      /\ p.session = s
  BY <1>2 DEF Place
<1> HIDE DEF p
<1>6. at'[c] = p /\ at' \in [Callers -> Place] /\ Others(c)
  BY <1>2, <1>4 DEF Typed, Others
<1> QED
  BY <1>2, <1>5, <1>6 DEF s

LEMMA InsertMoves ==
  ASSUME Typed, CallsOK, NEW c \in Callers, NEW s \in Sessions, Tables!Insert(c, s)
  PROVE  /\ at' \in [Callers -> Place] /\ Others(c)
         /\ at'[c].pc = "ensure" /\ at'[c].op = at[c].op /\ at'[c].work = at[c].work
         /\ at'[c].todo = at[c].todo \ {at[c].name} /\ at'[c].listed = at[c].listed
         /\ at'[c].ids = at[c].ids
         /\ at'[c].session = IF at[c].name = Host THEN s ELSE at[c].session
<1> DEFINE t == IF at[c].name = Host THEN s ELSE at[c].session
           p == [at[c] EXCEPT !.pc = "ensure", !.todo = @ \ {at[c].name}, !.session = t]
<1>1. at[c] \in Place /\ at' = [at EXCEPT ![c] = p]
  BY DEF Typed, Tables!Insert
<1>2. t \in Tables!AnySession \cup {None}
  BY <1>1 DEF Place, Tables!AnySession
<1> HIDE DEF t
<1>3. p \in Place
  BY <1>1, <1>2 DEF Place, Steps, Resting
<1>4. /\ p.pc = "ensure" /\ p.op = at[c].op /\ p.work = at[c].work
      /\ p.todo = at[c].todo \ {at[c].name} /\ p.listed = at[c].listed /\ p.ids = at[c].ids
      /\ p.session = t
  BY <1>1 DEF Place
<1> HIDE DEF p
<1>5. at'[c] = p /\ at' \in [Callers -> Place] /\ Others(c)
  BY <1>1, <1>3 DEF Typed, Others
<1> QED
  BY <1>4, <1>5 DEF t

LEMMA PurgeMoves ==
  ASSUME Typed, CallsOK, NEW c \in Callers, Tables!Purge(c)
  PROVE  /\ at' \in [Callers -> Place] /\ Others(c)
         /\ at'[c].pc = "contexts" /\ at'[c].op = at[c].op /\ at'[c].work = at[c].work
         /\ at'[c].listed = at[c].listed
         /\ at'[c].ids = {r.id : r \in Tables!Returned(at[c].work, at[c].listed)}
<1> DEFINE ids == {r.id : r \in Tables!Returned(at[c].work, at[c].listed)}
           p == [at[c] EXCEPT !.pc = "contexts", !.ids = ids]
<1>1. at[c] \in Place /\ at' = [at EXCEPT ![c] = p]
  BY DEF Typed, Tables!Purge
<1>2. ids \in SUBSET Callers
  BY DEF Typed, Tables!Returned, Tables!Artifact
<1> HIDE DEF ids
<1>3. p \in Place
  BY <1>1, <1>2 DEF Place, Steps
<1>4. /\ p.pc = "contexts" /\ p.op = at[c].op /\ p.work = at[c].work
      /\ p.listed = at[c].listed /\ p.ids = ids
  BY <1>1 DEF Place
<1> HIDE DEF p
<1>5. at'[c] = p /\ at' \in [Callers -> Place] /\ Others(c)
  BY <1>1, <1>3 DEF Typed, Others
<1> QED
  BY <1>4, <1>5 DEF ids

LEMMA DropContextMoves ==
  ASSUME Typed, CallsOK, NEW c \in Callers, NEW s \in Sessions, Tables!DropContext(c, s)
  PROVE  /\ at' \in [Callers -> Place] /\ Others(c)
         /\ at'[c].pc = "contexts" /\ at'[c].op = at[c].op /\ at'[c].work = at[c].work
         /\ at'[c].listed = at[c].listed \ {s} /\ at'[c].ids = at[c].ids
<1> DEFINE p == [at[c] EXCEPT !.listed = @ \ {s}]
<1>1. at[c] \in Place /\ at[c].pc = "contexts" /\ at' = [at EXCEPT ![c] = p]
  BY DEF Typed, Tables!DropContext, Tables!Is
<1>2. p \in Place
  BY <1>1 DEF Place
<1>3. /\ p.pc = "contexts" /\ p.op = at[c].op /\ p.work = at[c].work
      /\ p.listed = at[c].listed \ {s} /\ p.ids = at[c].ids
  BY <1>1 DEF Place
<1> HIDE DEF p
<1>4. at'[c] = p /\ at' \in [Callers -> Place] /\ Others(c)
  BY <1>1, <1>2 DEF Typed, Others
<1> QED
  BY <1>3, <1>4

-----------------------------------------------------------------------------
(* Tables: calls are where they can be *)


\* What the tables and the disk of a step hold.
DataTyped ==
    /\ db' \in [works : SUBSET Works,
                mapping : SUBSET [work : Works, member : Members, session : Sessions],
                chats : SUBSET Tables!AnySession, records : SUBSET Tables!AnySession,
                contexts : SUBSET Tables!AnySession, artifacts : SUBSET Tables!Artifact,
                notices : SUBSET Works]
    /\ disk' \in [files : SUBSET (Callers \X Names), sandboxes : SUBSET Works,
                  kept : SUBSET Works]
    /\ owner' \in [Sessions -> Works \cup {None}]
    /\ crossed' \subseteq Works /\ raced' \subseteq Callers /\ moved' \subseteq Callers

LEMMA LocalStep ==
  ASSUME Typed, CallsOK, NEW c \in Callers,
         at' \in [Callers -> Place], Others(c), CallOK(c)', DataTyped,
         \A s \in Sessions : owner[s] # None => owner'[s] = owner[s]
  PROVE  Typed' /\ CallsOK'
<1>1. CallsOK'
  BY OneMoves
<1>2. Typed'
  BY DEF Typed, DataTyped
<1> QED
  BY <1>1, <1>2

\* A turn has a session: the classic chat's, or the host's in the work.
LEMMA TurnHasSession ==
  ASSUME Typed, CallsOK, NEW c \in Callers, at[c].pc \in Tooling \cup {"open", "turn"}
  PROVE  /\ at[c].session \in Tables!AnySession
         /\ at[c].op \in {"message", "chat"}
         /\ at[c].op = "message" => /\ at[c].session \in Sessions /\ Host \notin at[c].todo
                                    /\ at[c].work \in Works /\ owner[at[c].session] = at[c].work
         /\ at[c].op = "chat" => at[c].session = Chat /\ at[c].work = None
BY DEF CallsOK, CallOK, Tooling, Tables!AnySession

LEMMA CreateLocal ==
  ASSUME Typed, CallsOK, NEW c \in Callers, NEW w \in Works, Tables!Create(c, w)
  PROVE  Typed' /\ CallsOK'
<1>1. /\ at' \in [Callers -> Place] /\ Others(c)
      /\ Begins(c, "ensure", "create", w, Members, {})
  BY WorkSteps
<1>2. DataTyped
  BY DEF Typed, DataTyped, Tables!Create
<1>3. \A t \in Sessions : owner[t] # None => owner'[t] = owner[t]
  BY DEF Tables!Create
<1>4. CallOK(c)'
  BY <1>1, TablesAssumed DEF CallsOK, CallOK, Begins, Tooling
<1> QED
  BY <1>1, <1>2, <1>3, <1>4, LocalStep

LEMMA MessageLocal ==
  ASSUME Typed, CallsOK, NEW c \in Callers, NEW w \in Works, Tables!Message(c, w)
  PROVE  Typed' /\ CallsOK'
<1>1. /\ at' \in [Callers -> Place] /\ Others(c)
      /\ Begins(c, "ensure", "message", w, {Host}, {})
  BY WorkSteps
<1>2. DataTyped
  BY DEF Typed, DataTyped, Tables!Message
<1>3. \A t \in Sessions : owner[t] # None => owner'[t] = owner[t]
  BY DEF Tables!Message
<1>4. CallOK(c)'
  BY <1>1, TablesAssumed DEF CallsOK, CallOK, Begins, Tooling
<1> QED
  BY <1>1, <1>2, <1>3, <1>4, LocalStep

LEMMA DeleteLocal ==
  ASSUME Typed, CallsOK, NEW c \in Callers, NEW w \in Works, Tables!Delete(c, w)
  PROVE  Typed' /\ CallsOK'
<1>1. /\ at' \in [Callers -> Place] /\ Others(c)
      /\ Begins(c, "purge", "delete", w, {}, {r.session : r \in {q \in db.mapping : q.work = w}})
  BY WorkSteps
<1>2. DataTyped
  BY DEF Typed, DataTyped, Tables!Delete
<1>3. \A t \in Sessions : owner[t] # None => owner'[t] = owner[t]
  BY DEF Tables!Delete
<1>4. CallOK(c)'
  BY <1>1, TablesAssumed DEF CallsOK, CallOK, Begins, Tooling
<1> QED
  BY <1>1, <1>2, <1>3, <1>4, LocalStep

LEMMA ConverseLocal ==
  ASSUME Typed, CallsOK, NEW c \in Callers, Tables!Converse(c)
  PROVE  Typed' /\ CallsOK'
<1>1. /\ at' \in [Callers -> Place] /\ Others(c)
      /\ at'[c].pc = "open" /\ at'[c].op = "chat" /\ at'[c].work = None
      /\ at'[c].session = Chat /\ at'[c].ids = {}
  BY WorkSteps
<1>2. DataTyped
  BY DEF Typed, DataTyped, Tables!Converse
<1>3. \A t \in Sessions : owner[t] # None => owner'[t] = owner[t]
  BY DEF Tables!Converse
<1>4. CallOK(c)'
  BY <1>1, TablesAssumed DEF CallsOK, CallOK, Tooling
<1> QED
  BY <1>1, <1>2, <1>3, <1>4, LocalStep

LEMMA ClashLocal ==
  ASSUME Typed, CallsOK, NEW c \in Callers, NEW s \in Sessions, Tables!Clash(c, s)
  PROVE  Typed' /\ CallsOK'
<1>0. at[c].pc = "insert" /\ CallOK(c) /\ Tables!Step(c, "done")
  BY DEF CallsOK, Tables!Clash, Tables!Is
<1>1. at' \in [Callers -> Place] /\ Others(c) /\ Goes(c, "done")
  BY <1>0, StepGoes DEF Steps, Resting, Tooling
<1>2. DataTyped
  BY DEF Typed, DataTyped, Tables!Clash
<1>3. \A t \in Sessions : owner[t] # None => owner'[t] = owner[t]
  BY DEF Tables!Clash
<1>4. CallOK(c)'
  BY <1>0, <1>1 DEF CallOK, Goes, Tooling, Tables!Clash
<1> QED
  BY <1>1, <1>2, <1>3, <1>4, LocalStep

LEMMA EnsuredLocal ==
  ASSUME Typed, CallsOK, NEW c \in Callers, Tables!Ensured(c)
  PROVE  Typed' /\ CallsOK'
<1>0. at[c].pc = "ensure" /\ CallOK(c) /\ Tables!Step(c,
          IF at[c].op = "create" THEN "done" ELSE "open")
  BY DEF CallsOK, Tables!Ensured, Tables!Is
<1>1. at' \in [Callers -> Place] /\ Others(c) /\ Goes(c,
          IF at[c].op = "create" THEN "done" ELSE "open")
  BY <1>0, StepGoes DEF Steps, Resting, Tooling
<1>2. DataTyped
  BY DEF Typed, DataTyped, Tables!Ensured
<1>3. \A t \in Sessions : owner[t] # None => owner'[t] = owner[t]
  BY DEF Tables!Ensured
<1>4. CallOK(c)'
  BY <1>0, <1>1 DEF CallOK, Goes, Tooling, Tables!Ensured
<1> QED
  BY <1>1, <1>2, <1>3, <1>4, LocalStep

LEMMA RecordLocal ==
  ASSUME Typed, CallsOK, NEW c \in Callers, Tables!Record(c)
  PROVE  Typed' /\ CallsOK'
<1>0. at[c].pc = "open" /\ CallOK(c) /\ Tables!Step(c, "turn")
  BY DEF CallsOK, Tables!Record, Tables!Is
<1>1. at' \in [Callers -> Place] /\ Others(c) /\ Goes(c, "turn")
  BY <1>0, StepGoes DEF Steps, Resting, Tooling
<1>2. DataTyped
  BY ZenonT(60), <1>0, TurnHasSession DEF Typed, DataTyped, Tables!Record
<1>3. \A t \in Sessions : owner[t] # None => owner'[t] = owner[t]
  BY DEF Tables!Record
<1>4. CallOK(c)'
  BY <1>0, <1>1 DEF CallOK, Goes, Tooling, Tables!Record
<1> QED
  BY <1>1, <1>2, <1>3, <1>4, LocalStep

LEMMA EndTurnLocal ==
  ASSUME Typed, CallsOK, NEW c \in Callers, NEW ok \in BOOLEAN, Tables!EndTurn(c, ok)
  PROVE  Typed' /\ CallsOK'
<1>0. at[c].pc = "turn" /\ CallOK(c) /\ Tables!Step(c, "done")
  BY DEF CallsOK, Tables!EndTurn, Tables!Is
<1>1. at' \in [Callers -> Place] /\ Others(c) /\ Goes(c, "done")
  BY <1>0, StepGoes DEF Steps, Resting, Tooling
<1>2. DataTyped
  <2>1. at[c].session \in Tables!AnySession /\ {at[c].work} \ {None} \subseteq Works
    BY <1>0, TurnHasSession DEF Typed, Place
  <2>2. ok => db' \in [works : SUBSET Works,
                mapping : SUBSET [work : Works, member : Members, session : Sessions],
                chats : SUBSET Tables!AnySession, records : SUBSET Tables!AnySession,
                contexts : SUBSET Tables!AnySession, artifacts : SUBSET Tables!Artifact,
                notices : SUBSET Works]
    BY <2>1 DEF Typed, Tables!EndTurn
  <2>3. ~ok => db' = db
    BY DEF Tables!EndTurn
  <2> QED
    BY <2>2, <2>3 DEF Typed, DataTyped, Tables!EndTurn
<1>3. \A t \in Sessions : owner[t] # None => owner'[t] = owner[t]
  BY DEF Tables!EndTurn
<1>4. CallOK(c)'
  BY <1>0, <1>1 DEF CallOK, Goes, Tooling, Tables!EndTurn
<1> QED
  BY <1>1, <1>2, <1>3, <1>4, LocalStep

LEMMA FileNewLocal ==
  ASSUME Typed, CallsOK, NEW c \in Callers, NEW k \in Works \cup {None}, Tables!FileNew(c, k)
  PROVE  Typed' /\ CallsOK'
<1>0. at[c].pc = "filing" /\ CallOK(c) /\ Tables!Step(c, "turn")
  BY DEF CallsOK, Tables!FileNew, Tables!Is
<1>1. at' \in [Callers -> Place] /\ Others(c) /\ Goes(c, "turn")
  BY <1>0, StepGoes DEF Steps, Resting, Tooling
<1>2. DataTyped
  <2> DEFINE row == [id |-> c, session |-> at[c].session, request |-> at[c].session,
                     work |-> k, name |-> at[c].name]
  <2>1. at[c].session \in Tables!AnySession /\ at[c].name \in Names
    BY <1>0, TurnHasSession DEF CallOK, Tooling
  <2>2. row \in Tables!Artifact
    BY <2>1 DEF Tables!Artifact
  <2>3. db' = [db EXCEPT !.artifacts = @ \cup {row}]
    BY DEF Tables!FileNew
  <2> HIDE DEF row
  <2> QED
    BY <2>2, <2>3 DEF Typed, DataTyped, Tables!FileNew
<1>3. \A t \in Sessions : owner[t] # None => owner'[t] = owner[t]
  BY DEF Tables!FileNew
<1>4. CallOK(c)'
  BY <1>0, <1>1 DEF CallOK, Goes, Tooling, Tables!FileNew
<1> QED
  BY <1>1, <1>2, <1>3, <1>4, LocalStep

LEMMA RewriteLocal ==
  ASSUME Typed, CallsOK, NEW c \in Callers, Tables!Rewrite(c)
  PROVE  Typed' /\ CallsOK'
<1>0. at[c].pc = "revising" /\ CallOK(c) /\ Tables!Step(c, "refiling")
  BY DEF CallsOK, Tables!Rewrite, Tables!Is
<1>1. at' \in [Callers -> Place] /\ Others(c) /\ Goes(c, "refiling")
  BY <1>0, StepGoes DEF Steps, Resting, Tooling
<1>2. DataTyped
  BY <1>0 DEF Typed, DataTyped, Tables!Rewrite, CallsOK, CallOK, Tables!Rewritten, Place
<1>3. \A t \in Sessions : owner[t] # None => owner'[t] = owner[t]
  BY DEF Tables!Rewrite
<1>4. CallOK(c)'
  BY <1>0, <1>1 DEF CallOK, Goes, Tooling, Tables!Rewrite
<1> QED
  BY <1>1, <1>2, <1>3, <1>4, LocalStep

LEMMA RefileLocal ==
  ASSUME Typed, CallsOK, NEW c \in Callers, NEW passed \in SUBSET {"session", "work"},
         Tables!Refile(c, passed)
  PROVE  Typed' /\ CallsOK'
<1>0. at[c].pc = "refiling" /\ CallOK(c) /\ Tables!Step(c, "turn")
  BY DEF CallsOK, Tables!Refile, Tables!Is
<1>1. at' \in [Callers -> Place] /\ Others(c) /\ Goes(c, "turn")
  BY <1>0, StepGoes DEF Steps, Resting, Tooling
<1>2. DataTyped
  <2> DEFINE rows == {r \in db.artifacts : r.id \in at[c].ids}
             New(r) == Tables!Revised(c, passed, r)
             far == {q \in rows : New(q).session # q.session \/ New(q).work # q.work}
  <2>1. /\ at[c].session \in Tables!AnySession /\ at[c].name \in Names
        /\ at[c].work \in Works \cup {None}
    BY <1>0, TurnHasSession DEF CallOK, Tooling, Typed, Place
  <2>2. rows \subseteq Tables!Artifact
    BY DEF Typed
  <2>3. ASSUME NEW r \in rows PROVE New(r) \in Tables!Artifact
    BY <2>1, <2>2, <2>3 DEF Tables!Artifact, Tables!Revised
  <2>4. {r.id : r \in far} \subseteq Callers
    BY <2>2 DEF Tables!Artifact
  <2>5. /\ db' = [db EXCEPT !.artifacts = (@ \ rows) \cup {New(r) : r \in rows}]
        /\ moved' = moved \cup {r.id : r \in far}
    BY DEF Tables!Refile
  <2> HIDE DEF rows, far, New
  <2> QED
    BY <2>3, <2>4, <2>5 DEF Typed, DataTyped, Tables!Refile
<1>3. \A t \in Sessions : owner[t] # None => owner'[t] = owner[t]
  BY DEF Tables!Refile
<1>4. CallOK(c)'
  BY <1>0, <1>1 DEF CallOK, Goes, Tooling, Tables!Refile
<1> QED
  BY <1>1, <1>2, <1>3, <1>4, LocalStep

LEMMA RemoveDirectoryLocal ==
  ASSUME Typed, CallsOK, NEW c \in Callers, Tables!RemoveDirectory(c)
  PROVE  Typed' /\ CallsOK'
<1>0. at[c].pc = "scrapping" /\ CallOK(c) /\ Tables!Step(c, "unfiling")
  BY DEF CallsOK, Tables!RemoveDirectory, Tables!Is
<1>1. at' \in [Callers -> Place] /\ Others(c) /\ Goes(c, "unfiling")
  BY <1>0, StepGoes DEF Steps, Resting, Tooling
<1>2. DataTyped
  BY DEF Typed, DataTyped, Tables!RemoveDirectory
<1>3. \A t \in Sessions : owner[t] # None => owner'[t] = owner[t]
  BY DEF Tables!RemoveDirectory
<1>4. CallOK(c)'
  BY <1>0, <1>1 DEF CallOK, Goes, Tooling, Tables!RemoveDirectory
<1> QED
  BY <1>1, <1>2, <1>3, <1>4, LocalStep

LEMMA UnfileLocal ==
  ASSUME Typed, CallsOK, NEW c \in Callers, Tables!Unfile(c)
  PROVE  Typed' /\ CallsOK'
<1>0. at[c].pc = "unfiling" /\ CallOK(c) /\ Tables!Step(c, "turn")
  BY DEF CallsOK, Tables!Unfile, Tables!Is
<1>1. at' \in [Callers -> Place] /\ Others(c) /\ Goes(c, "turn")
  BY <1>0, StepGoes DEF Steps, Resting, Tooling
<1>2. DataTyped
  BY DEF Typed, DataTyped, Tables!Unfile
<1>3. \A t \in Sessions : owner[t] # None => owner'[t] = owner[t]
  BY DEF Tables!Unfile
<1>4. CallOK(c)'
  BY <1>0, <1>1 DEF CallOK, Goes, Tooling, Tables!Unfile
<1> QED
  BY <1>1, <1>2, <1>3, <1>4, LocalStep

LEMMA ClearSandboxLocal ==
  ASSUME Typed, CallsOK, NEW c \in Callers, NEW ok \in BOOLEAN, Tables!ClearSandbox(c, ok)
  PROVE  Typed' /\ CallsOK'
<1>0. at[c].pc = "contexts" /\ CallOK(c) /\ Tables!Step(c, "dropping")
  BY DEF CallsOK, Tables!ClearSandbox, Tables!Is
<1>1. at' \in [Callers -> Place] /\ Others(c) /\ Goes(c, "dropping")
  BY <1>0, StepGoes DEF Steps, Resting, Tooling
<1>2. DataTyped
  BY <1>0 DEF Typed, DataTyped, Tables!ClearSandbox, CallsOK, CallOK
<1>3. \A t \in Sessions : owner[t] # None => owner'[t] = owner[t]
  BY DEF Tables!ClearSandbox
<1>4. CallOK(c)'
  BY <1>0, <1>1 DEF CallOK, Goes, Tooling, Tables!ClearSandbox
<1> QED
  BY <1>1, <1>2, <1>3, <1>4, LocalStep

LEMMA DropFilesLocal ==
  ASSUME Typed, CallsOK, NEW c \in Callers, Tables!DropFiles(c)
  PROVE  Typed' /\ CallsOK'
<1>0. at[c].pc = "dropping" /\ CallOK(c) /\ Tables!Step(c, "done")
  BY DEF CallsOK, Tables!DropFiles, Tables!Is
<1>1. at' \in [Callers -> Place] /\ Others(c) /\ Goes(c, "done")
  BY <1>0, StepGoes DEF Steps, Resting, Tooling
<1>2. DataTyped
  BY DEF Typed, DataTyped, Tables!DropFiles
<1>3. \A t \in Sessions : owner[t] # None => owner'[t] = owner[t]
  BY DEF Tables!DropFiles
<1>4. CallOK(c)'
  BY <1>0, <1>1 DEF CallOK, Goes, Tooling, Tables!DropFiles
<1> QED
  BY <1>1, <1>2, <1>3, <1>4, LocalStep

LEMMA WriteNewLocal ==
  ASSUME Typed, CallsOK, NEW c \in Callers, NEW n \in Names, Tables!WriteNew(c, n)
  PROVE  Typed' /\ CallsOK'
<1>0. CallOK(c) /\ c \in Callers /\ None \in Names \cup {None}
      /\ Tables!Use(c, "filing", c, n, None)
  BY DEF CallsOK, Tables!WriteNew, Typed, Tables!Artifact
<1>1. at' \in [Callers -> Place] /\ Others(c) /\ Uses(c, "filing", c, n)
  BY <1>0, UseTakes DEF Steps, Tooling
<1>2. DataTyped
  BY <1>0, <1>1 DEF Typed, DataTyped, Tables!WriteNew, Uses
<1>3. \A t \in Sessions : owner[t] # None => owner'[t] = owner[t]
  BY DEF Tables!WriteNew
<1>4. CallOK(c)'
  BY <1>0, <1>1, <1>3, TablesAssumed DEF CallOK, Uses, Tooling, Typed, Tables!WriteNew
<1> QED
  BY <1>1, <1>2, <1>3, <1>4, LocalStep

LEMMA ReviseLocal ==
  ASSUME Typed, CallsOK, NEW c \in Callers, NEW r \in db.artifacts, NEW n \in Names,
         Tables!Revise(c, r, n)
  PROVE  Typed' /\ CallsOK'
<1>0. CallOK(c) /\ r.id \in Callers /\ r.name \in Names \cup {None}
      /\ Tables!Use(c, "revising", r.id, n, r.name)
  BY DEF CallsOK, Tables!Revise, Typed, Tables!Artifact
<1>1. at' \in [Callers -> Place] /\ Others(c) /\ Uses(c, "revising", r.id, n)
  BY <1>0, UseTakes DEF Steps, Tooling
<1>2. DataTyped
  BY <1>0, <1>1 DEF Typed, DataTyped, Tables!Revise, Uses
<1>3. \A t \in Sessions : owner[t] # None => owner'[t] = owner[t]
  BY DEF Tables!Revise
<1>4. CallOK(c)'
  BY <1>0, <1>1, <1>3, TablesAssumed DEF CallOK, Uses, Tooling, Typed, Tables!Revise
<1> QED
  BY <1>1, <1>2, <1>3, <1>4, LocalStep

LEMMA ScrapLocal ==
  ASSUME Typed, CallsOK, NEW c \in Callers, NEW r \in db.artifacts, Tables!Scrap(c, r)
  PROVE  Typed' /\ CallsOK'
<1>0. CallOK(c) /\ r.id \in Callers /\ r.name \in Names \cup {None}
      /\ Tables!Use(c, "scrapping", r.id, None, r.name)
  BY DEF CallsOK, Tables!Scrap, Typed, Tables!Artifact
<1>1. at' \in [Callers -> Place] /\ Others(c) /\ Uses(c, "scrapping", r.id, None)
  BY <1>0, UseTakes DEF Steps, Tooling
<1>2. DataTyped
  BY <1>0, <1>1 DEF Typed, DataTyped, Tables!Scrap, Uses
<1>3. \A t \in Sessions : owner[t] # None => owner'[t] = owner[t]
  BY DEF Tables!Scrap
<1>4. CallOK(c)'
  BY <1>0, <1>1, <1>3, TablesAssumed DEF CallOK, Uses, Tooling, Typed, Tables!Scrap
<1> QED
  BY <1>1, <1>2, <1>3, <1>4, LocalStep

LEMMA MissLocal ==
  ASSUME Typed, CallsOK, NEW c \in Callers, NEW a \in Members, Tables!Miss(c, a)
  PROVE  Typed' /\ CallsOK'
<1>0. at[c].pc = "ensure" /\ CallOK(c)
  BY DEF CallsOK, Tables!Miss, Tables!Is
<1>1. /\ at' \in [Callers -> Place] /\ Others(c)
      /\ at'[c].pc = "insert" /\ at'[c].name = a
      /\ at'[c].op = at[c].op
      /\ at'[c].work = at[c].work
      /\ at'[c].session = at[c].session
      /\ at'[c].todo = at[c].todo
      /\ at'[c].listed = at[c].listed
      /\ at'[c].ids = at[c].ids
  BY MissMoves
<1>2. DataTyped
  BY DEF Typed, DataTyped, Tables!Miss
<1>3. \A t \in Sessions : owner[t] # None => owner'[t] = owner[t]
  BY DEF Tables!Miss, Typed
<1>4. CallOK(c)'
  BY <1>0, <1>1, <1>3, TablesAssumed DEF CallOK, Tooling, Tables!Miss, Typed
<1> QED
  BY <1>1, <1>2, <1>3, <1>4, LocalStep

LEMMA SummonLocal ==
  ASSUME Typed, CallsOK, NEW c \in Callers, NEW a \in Members, Tables!Summon(c, a)
  PROVE  Typed' /\ CallsOK'
<1>0. at[c].pc = "turn" /\ CallOK(c)
  BY DEF CallsOK, Tables!Summon, Tables!Is
<1>1. /\ at' \in [Callers -> Place] /\ Others(c)
      /\ at'[c].pc = "ensure" /\ at'[c].todo = {a}
      /\ at'[c].op = at[c].op
      /\ at'[c].work = at[c].work
      /\ at'[c].session = at[c].session
      /\ at'[c].listed = at[c].listed
      /\ at'[c].ids = at[c].ids
  BY SummonMoves
<1>2. DataTyped
  BY DEF Typed, DataTyped, Tables!Summon
<1>3. \A t \in Sessions : owner[t] # None => owner'[t] = owner[t]
  BY DEF Tables!Summon, Typed
<1>4. CallOK(c)'
  BY <1>0, <1>1, <1>3, TablesAssumed DEF CallOK, Tooling, Tables!Summon, Typed
<1> QED
  BY <1>1, <1>2, <1>3, <1>4, LocalStep

LEMMA LookupLocal ==
  ASSUME Typed, CallsOK, OwnedInv, NEW c \in Callers, NEW a \in Members, Tables!Lookup(c, a)
  PROVE  Typed' /\ CallsOK'
<1>0. at[c].pc = "ensure" /\ CallOK(c)
  BY DEF CallsOK, Tables!Lookup, Tables!Is
<1>1. /\ at' \in [Callers -> Place] /\ Others(c)
      /\ at'[c].pc = "ensure" /\ at'[c].todo = at[c].todo \ {a}
      /\ at'[c].op = at[c].op
      /\ at'[c].work = at[c].work
      /\ at'[c].listed = at[c].listed
      /\ at'[c].ids = at[c].ids
      /\ \E r \in Tables!Mapped(at[c].work, a) :
            at'[c].session = IF a = Host THEN r.session ELSE at[c].session
  BY LookupMoves
<1>2. DataTyped
  BY DEF Typed, DataTyped, Tables!Lookup
<1>3. \A t \in Sessions : owner[t] # None => owner'[t] = owner[t]
  BY DEF Tables!Lookup, Typed
<1>4. CallOK(c)'
  <2>1. PICK r \in db.mapping : /\ r.work = at[c].work /\ r.member = a
                               /\ at'[c].session = IF a = Host THEN r.session ELSE at[c].session
    BY <1>1 DEF Tables!Mapped
  <2>2. owner'[r.session] = at[c].work /\ r.session \in Sessions
    BY <1>3, <2>1 DEF OwnedInv, Typed, Tables!Lookup
  <2>3. owner' = owner
    BY DEF Tables!Lookup
  <2> QED
    BY <1>0, <1>1, <2>1, <2>2, <2>3, TablesAssumed DEF CallOK, Tooling
<1> QED
  BY <1>1, <1>2, <1>3, <1>4, LocalStep

LEMMA InsertLocal ==
  ASSUME Typed, CallsOK, NEW c \in Callers, NEW s \in Sessions, Tables!Insert(c, s)
  PROVE  Typed' /\ CallsOK'
<1>0. at[c].pc = "insert" /\ CallOK(c)
  BY DEF CallsOK, Tables!Insert, Tables!Is
<1>1. /\ at' \in [Callers -> Place] /\ Others(c)
      /\ at'[c].pc = "ensure" /\ at'[c].todo = at[c].todo \ {at[c].name}
      /\ at'[c].op = at[c].op
      /\ at'[c].work = at[c].work
      /\ at'[c].listed = at[c].listed
      /\ at'[c].ids = at[c].ids
      /\ at'[c].session = IF at[c].name = Host THEN s ELSE at[c].session
  BY InsertMoves
<1>2. DataTyped
  <2> DEFINE row == [work |-> at[c].work, member |-> at[c].name, session |-> s]
  <2>1. at[c].work \in Works /\ at[c].name \in Members
    BY <1>0, TablesAssumed DEF CallOK, Typed, Place
  <2>2. /\ row \in [work : Works, member : Members, session : Sessions]
        /\ s \in Tables!AnySession
    BY <2>1 DEF Tables!AnySession
  <2>3. /\ db' = [db EXCEPT !.mapping = @ \cup {row}, !.chats = @ \cup {s}]
        /\ owner' = [owner EXCEPT ![s] = at[c].work]
        /\ UNCHANGED <<disk, crossed, raced, moved>>
    BY DEF Tables!Insert, Tables!Row
  <2> HIDE DEF row
  <2> QED
    BY <2>1, <2>2, <2>3 DEF Typed, DataTyped
<1>3. \A t \in Sessions : owner[t] # None => owner'[t] = owner[t]
  BY DEF Tables!Insert, Typed
<1>4. CallOK(c)'
  BY <1>0, <1>1, <1>3, TablesAssumed DEF CallOK, Tooling, Tables!Insert, Typed
<1> QED
  BY <1>1, <1>2, <1>3, <1>4, LocalStep

LEMMA PurgeLocal ==
  ASSUME Typed, CallsOK, NEW c \in Callers, Tables!Purge(c)
  PROVE  Typed' /\ CallsOK'
<1>0. at[c].pc = "purge" /\ CallOK(c)
  BY DEF CallsOK, Tables!Purge, Tables!Is
<1>1. /\ at' \in [Callers -> Place] /\ Others(c)
      /\ at'[c].pc = "contexts"
      /\ at'[c].op = at[c].op
      /\ at'[c].work = at[c].work
      /\ at'[c].listed = at[c].listed
  BY PurgeMoves
<1>2. DataTyped
  <2>1. /\ db'.works \subseteq db.works /\ db'.mapping \subseteq db.mapping
        /\ db'.chats \subseteq db.chats /\ db'.records \subseteq db.records
        /\ db'.contexts \subseteq db.contexts /\ db'.artifacts \subseteq db.artifacts
        /\ db'.notices \subseteq db.notices
        /\ db' = [works |-> db'.works, mapping |-> db'.mapping, chats |-> db'.chats,
                  records |-> db'.records, contexts |-> db'.contexts,
                  artifacts |-> db'.artifacts, notices |-> db'.notices]
        /\ UNCHANGED <<disk, owner, crossed, moved>>
    BY DEF Tables!Purge
  <2>2. raced' \subseteq raced \cup {r.id : r \in db.artifacts}
    BY DEF Tables!Purge, Tables!Purged
  <2>3. \A r \in db.artifacts : r.id \in Callers
    BY DEF Typed, Tables!Artifact
  <2> QED
    BY <2>1, <2>2, <2>3 DEF Typed, DataTyped
<1>3. \A t \in Sessions : owner[t] # None => owner'[t] = owner[t]
  BY DEF Tables!Purge, Typed
<1>4. CallOK(c)'
  BY <1>0, <1>1, <1>3, TablesAssumed DEF CallOK, Tooling, Tables!Purge, Typed
<1> QED
  BY <1>1, <1>2, <1>3, <1>4, LocalStep

LEMMA DropContextLocal ==
  ASSUME Typed, CallsOK, NEW c \in Callers, NEW s \in Sessions, Tables!DropContext(c, s)
  PROVE  Typed' /\ CallsOK'
<1>0. at[c].pc = "contexts" /\ CallOK(c)
  BY DEF CallsOK, Tables!DropContext, Tables!Is
<1>1. /\ at' \in [Callers -> Place] /\ Others(c)
      /\ at'[c].pc = "contexts"
      /\ at'[c].op = at[c].op
      /\ at'[c].work = at[c].work
      /\ at'[c].ids = at[c].ids
  BY DropContextMoves
<1>2. DataTyped
  BY DEF Typed, DataTyped, Tables!DropContext
<1>3. \A t \in Sessions : owner[t] # None => owner'[t] = owner[t]
  BY DEF Tables!DropContext, Typed
<1>4. CallOK(c)'
  BY <1>0, <1>1, <1>3, TablesAssumed DEF CallOK, Tooling, Tables!DropContext, Typed
<1> QED
  BY <1>1, <1>2, <1>3, <1>4, LocalStep

LEMMA UseSandboxLocal ==
  ASSUME Typed, CallsOK, NEW c \in Callers, Tables!UseSandbox(c)
  PROVE  Typed' /\ CallsOK'
<1>1. at[c].work \in Works
  BY DEF Typed, Place, Tables!UseSandbox
<1>2. Typed'
  BY <1>1 DEF Typed, Tables!UseSandbox
<1>3. CallsOK'
  BY DEF CallsOK, CallOK, Tables!UseSandbox
<1> QED
  BY <1>2, <1>3

CallStep(c) ==
    \/ \E w \in Works : Tables!Create(c, w) \/ Tables!Message(c, w) \/ Tables!Delete(c, w)
    \/ \E a \in Members : Tables!Lookup(c, a) \/ Tables!Miss(c, a) \/ Tables!Summon(c, a)
    \/ \E s \in Sessions : \/ Tables!Insert(c, s) \/ Tables!Clash(c, s)
                           \/ Tables!DropContext(c, s)
    \/ \E n \in Names : Tables!WriteNew(c, n)
    \/ \E k \in Works \cup {None} : Tables!FileNew(c, k)
    \/ \E r \in db.artifacts : Tables!Scrap(c, r) \/ \E n \in Names : Tables!Revise(c, r, n)
    \/ \E ok \in BOOLEAN : Tables!ClearSandbox(c, ok) \/ Tables!EndTurn(c, ok)
    \/ Tables!Converse(c) \/ Tables!Ensured(c) \/ Tables!Record(c) \/ Tables!UseSandbox(c)
    \/ \E passed \in SUBSET {"session", "work"} : Tables!Refile(c, passed)
    \/ Tables!Rewrite(c) \/ Tables!RemoveDirectory(c)
    \/ Tables!Unfile(c) \/ Tables!Purge(c) \/ Tables!DropFiles(c)

LEMMA EveryCallLocal ==
  ASSUME Typed, CallsOK, OwnedInv, NEW c \in Callers, CallStep(c)
  PROVE  Typed' /\ CallsOK'
BY CreateLocal, MessageLocal, DeleteLocal, ConverseLocal, LookupLocal, MissLocal,
   InsertLocal, ClashLocal, EnsuredLocal, RecordLocal, UseSandboxLocal, SummonLocal,
   EndTurnLocal, WriteNewLocal, FileNewLocal, ReviseLocal, RewriteLocal, RefileLocal,
   ScrapLocal, RemoveDirectoryLocal, UnfileLocal, PurgeLocal, DropContextLocal,
   ClearSandboxLocal, DropFilesLocal DEF CallStep

-----------------------------------------------------------------------------
(* Tables: artifacts and files *)

FilesInv == MadeInv /\ NamedInv /\ KeptInv

\* A step that handles no artifact.
Calm(c) ==
    /\ Others(c)
    /\ db'.artifacts = db.artifacts /\ disk'.files = disk.files
    /\ raced' = raced /\ moved' = moved
    /\ at'[c].ids = at[c].ids
    /\ \/ at[c].ids = {} /\ at'[c].pc \notin Tooling
       \/ /\ at[c].pc \in Resting /\ at'[c].pc \in Resting
          /\ at'[c].op = at[c].op /\ at'[c].work = at[c].work
          /\ at'[c].session = at[c].session
       \/ /\ at[c].pc = "contexts" /\ at'[c].pc \in {"contexts", "dropping"}
          /\ at'[c].op = at[c].op /\ at'[c].work = at[c].work

\* Every artifact is made by a caller, and a place that holds tools holds one artifact.
LEMMA RowIds ==
  ASSUME Typed
  PROVE  /\ \A r \in db.artifacts : r.id \in Callers
         /\ \A f \in disk.files : f[1] \in Callers
         /\ \A d \in Callers : at[d].ids \subseteq Callers
BY DEF Typed, Tables!Artifact, Place

LEMMA CalmKeeps ==
  ASSUME Typed, CallsOK, FilesInv, NEW c \in Callers, Calm(c)
  PROVE  FilesInv'
<1>0. MadeInv /\ NamedInv /\ KeptInv
  BY DEF FilesInv
<1>1. /\ db'.artifacts = db.artifacts /\ disk'.files = disk.files
      /\ raced' = raced /\ moved' = moved
      /\ \A d \in Callers \ {c} : at'[d] = at[d]
      /\ \A d \in Callers : at'[d].ids = at[d].ids
  BY DEF Calm, Others
<1>2. at[c].pc \notin Tooling /\ at'[c].pc \notin Tooling
  BY DEF Calm, CallsOK, CallOK, Tooling, Resting, Tables!Idle
<1>3. \A id \in Callers : Made(id) =>
         Made(id)' /\ at'[id].session = at[id].session /\ at'[id].work = at[id].work
  <2>1. Made(c) => Made(c)' /\ at'[c].session = at[c].session /\ at'[c].work = at[c].work
    BY DEF Made, Calm, Resting
  <2>2. ASSUME NEW id \in Callers, id # c, Made(id)
        PROVE  Made(id)' /\ at'[id].session = at[id].session /\ at'[id].work = at[id].work
    BY <1>1, <2>2 DEF Made
  <2> QED
    BY <2>1, <2>2
<1>4. \A d, id \in Callers : Handles(d, id)' => Handles(d, id)
  <2>1. \A id \in Callers : Handles(c, id)' => Handles(c, id)
    BY <1>2 DEF Handles, Calm
  <2>2. \A d \in Callers \ {c} : \A id \in Callers : Handles(d, id)' <=> Handles(d, id)
    BY <1>1 DEF Handles
  <2> QED
    BY <2>1, <2>2
<1>5. /\ \A r \in db.artifacts : r.id \in Callers
      /\ \A f \in disk.files : f[1] \in Callers
      /\ \A d \in Callers : at[d].ids \subseteq Callers
  BY RowIds
<1>6. MadeInv'
  <2>1. \A r \in db'.artifacts :
          /\ Made(r.id)'
          /\ r.request = at'[r.id].session
          /\ r.session = r.request \/ r.id \in moved'
          /\ r.work \in {None, at'[r.id].work} \/ r.id \in moved'
    BY <1>0, <1>1, <1>3, <1>5 DEF MadeInv
  <2>2. \A r, q \in db'.artifacts : r.id = q.id => r = q
    BY <1>0, <1>1 DEF MadeInv
  <2>3. \A d \in Callers : \A id \in at'[d].ids :
           Made(id)' \/ (id = d /\ at'[d].pc = "filing")
    BY <1>0, <1>1, <1>2, <1>3, <1>5 DEF MadeInv, Tooling
  <2>4. \A d \in Callers : at'[d].op = "delete" => \A id \in at'[d].ids :
          /\ \A r \in db'.artifacts : r.id # id
          /\ id \in moved' \/ at'[id].work = at'[d].work
    <3>1. ASSUME NEW d \in Callers, at'[d].op = "delete", NEW id \in at'[d].ids
          PROVE  at[d].op = "delete" /\ at'[d].work = at[d].work /\ id \in at[d].ids
      BY <1>1, <3>1 DEF Calm
    <3>2. ASSUME NEW d \in Callers, at[d].op = "delete", NEW id \in at[d].ids
          PROVE  Made(id)
      BY <1>0, <3>2 DEF MadeInv, CallsOK, CallOK, Tables!Idle
    <3> QED
      BY <1>0, <1>1, <1>3, <1>5, <3>1, <3>2 DEF MadeInv
  <2>5. \A id \in Callers \ raced' : \A d, e \in Callers :
          Handles(d, id)' /\ Handles(e, id)' => d = e
    BY <1>0, <1>1, <1>4 DEF MadeInv
  <2> QED
    BY <2>1, <2>2, <2>3, <2>4, <2>5 DEF MadeInv, Made, Handles
<1>7. NamedInv'
  BY <1>0, <1>1, <1>2 DEF NamedInv, Handles, Tooling, Calm
<1>8. KeptInv'
  <2>1. \A d \in Callers : at[d].pc = "filing" => at'[d].pc = "filing"
    BY <1>1, <1>2 DEF Tooling
  <2>2. ASSUME NEW d \in Callers, at[d].pc \in {"contexts", "dropping"}, at[d].ids # {}
        PROVE  at'[d].pc \in {"contexts", "dropping"}
    BY <1>1, <2>2 DEF Calm, Resting
  <2>3. ASSUME NEW f \in disk.files
        PROVE  \/ f[1] \in raced \cup moved
               \/ \E r \in db.artifacts : r.id = f[1]
               \/ at'[f[1]].pc = "filing"
               \/ \E d \in Callers : at'[d].pc \in {"contexts", "dropping"} /\ f[1] \in at[d].ids
    BY <1>0, <1>5, <2>1, <2>2 DEF KeptInv
  <2>4. \A d \in Callers : at'[d].pc \in Tooling => at'[d].pc = at[d].pc
    BY <1>1, <1>2
  <2>5. \A d \in Callers : \A id \in at[d].ids \ raced :
          /\ at'[d].pc = "unfiling" => \A f \in disk.files : f[1] # id
          /\ at'[d].pc \in Tooling \ {"filing"} => \E r \in db.artifacts : r.id = id
    BY <1>0, <2>4 DEF KeptInv, Tooling
  <2> QED
    BY <1>1, <2>3, <2>5 DEF KeptInv
<1> QED
  BY <1>6, <1>7, <1>8 DEF FilesInv

LEMMA CreateCalm ==
  ASSUME Typed, CallsOK, NEW c \in Callers, NEW w \in Works, Tables!Create(c, w)
  PROVE  Calm(c)
<1>0. at[c].pc = "idle" /\ at[c].ids = {}
  BY DEF CallsOK, CallOK, Tables!Create, Tables!Is, Tables!Idle
<1>1. Others(c) /\ Begins(c, "ensure", "create", w, Members, {})
  BY WorkSteps
<1>2. /\ db'.artifacts = db.artifacts /\ disk'.files = disk.files
      /\ raced' = raced /\ moved' = moved
  BY DEF Typed, Tables!Create
<1> QED
  BY <1>0, <1>1, <1>2 DEF Calm, Resting, Tooling, CallOK, Tables!Create, Begins

LEMMA MessageCalm ==
  ASSUME Typed, CallsOK, NEW c \in Callers, NEW w \in Works, Tables!Message(c, w)
  PROVE  Calm(c)
<1>0. at[c].pc = "idle" /\ at[c].ids = {}
  BY DEF CallsOK, CallOK, Tables!Message, Tables!Is, Tables!Idle
<1>1. Others(c) /\ Begins(c, "ensure", "message", w, {Host}, {})
  BY WorkSteps
<1>2. /\ db'.artifacts = db.artifacts /\ disk'.files = disk.files
      /\ raced' = raced /\ moved' = moved
  BY DEF Typed, Tables!Message
<1> QED
  BY <1>0, <1>1, <1>2 DEF Calm, Resting, Tooling, CallOK, Tables!Message, Begins

LEMMA DeleteCalm ==
  ASSUME Typed, CallsOK, NEW c \in Callers, NEW w \in Works, Tables!Delete(c, w)
  PROVE  Calm(c)
<1>0. at[c].pc = "idle" /\ at[c].ids = {}
  BY DEF CallsOK, CallOK, Tables!Delete, Tables!Is, Tables!Idle
<1>1. Others(c) /\ Begins(c, "purge", "delete", w, {},
          {r.session : r \in {q \in db.mapping : q.work = w}})
  BY WorkSteps
<1>2. /\ db'.artifacts = db.artifacts /\ disk'.files = disk.files
      /\ raced' = raced /\ moved' = moved
  BY DEF Typed, Tables!Delete
<1> QED
  BY <1>0, <1>1, <1>2 DEF Calm, Resting, Tooling, CallOK, Tables!Delete, Begins

LEMMA ConverseCalm ==
  ASSUME Typed, CallsOK, NEW c \in Callers, Tables!Converse(c)
  PROVE  Calm(c)
<1>0. at[c].pc = "idle" /\ at[c].ids = {}
  BY DEF CallsOK, CallOK, Tables!Converse, Tables!Is, Tables!Idle
<1>1. Others(c) /\ at'[c].pc = "open" /\ at'[c].ids = {}
  BY WorkSteps
<1>2. /\ db'.artifacts = db.artifacts /\ disk'.files = disk.files
      /\ raced' = raced /\ moved' = moved
  BY DEF Typed, Tables!Converse
<1> QED
  BY <1>0, <1>1, <1>2 DEF Calm, Resting, Tooling, CallOK, Tables!Converse

LEMMA ClashCalm ==
  ASSUME Typed, CallsOK, NEW c \in Callers, NEW s \in Sessions, Tables!Clash(c, s)
  PROVE  Calm(c)
<1>0. at[c].pc = "insert" /\ CallOK(c) /\ Tables!Step(c, "done")
  BY DEF CallsOK, Tables!Clash, Tables!Is
<1>1. Others(c) /\ Goes(c, "done")
  BY <1>0, StepGoes DEF Steps, Resting, Tooling
<1>2. /\ db'.artifacts = db.artifacts /\ disk'.files = disk.files
      /\ raced' = raced /\ moved' = moved
  BY DEF Typed, Tables!Clash
<1> QED
  BY <1>0, <1>1, <1>2 DEF Calm, Resting, Tooling, CallOK, Tables!Clash, Goes

LEMMA EnsuredCalm ==
  ASSUME Typed, CallsOK, NEW c \in Callers, Tables!Ensured(c)
  PROVE  Calm(c)
<1>0. at[c].pc = "ensure" /\ CallOK(c) /\ Tables!Step(c,
          IF at[c].op = "create" THEN "done" ELSE "open")
  BY DEF CallsOK, Tables!Ensured, Tables!Is
<1>1. Others(c) /\ Goes(c, IF at[c].op = "create" THEN "done" ELSE "open")
  BY <1>0, StepGoes DEF Steps, Resting, Tooling
<1>2. /\ db'.artifacts = db.artifacts /\ disk'.files = disk.files
      /\ raced' = raced /\ moved' = moved
  BY DEF Typed, Tables!Ensured
<1> QED
  BY <1>0, <1>1, <1>2 DEF Calm, Resting, Tooling, CallOK, Tables!Ensured, Goes

LEMMA RecordCalm ==
  ASSUME Typed, CallsOK, NEW c \in Callers, Tables!Record(c)
  PROVE  Calm(c)
<1>0. at[c].pc = "open" /\ CallOK(c) /\ Tables!Step(c, "turn")
  BY DEF CallsOK, Tables!Record, Tables!Is
<1>1. Others(c) /\ Goes(c, "turn")
  BY <1>0, StepGoes DEF Steps, Resting, Tooling
<1>2. /\ db'.artifacts = db.artifacts /\ disk'.files = disk.files
      /\ raced' = raced /\ moved' = moved
  BY DEF Typed, Tables!Record
<1> QED
  BY <1>0, <1>1, <1>2 DEF Calm, Resting, Tooling, CallOK, Tables!Record, Goes

LEMMA EndTurnCalm ==
  ASSUME Typed, CallsOK, NEW c \in Callers, NEW ok \in BOOLEAN, Tables!EndTurn(c, ok)
  PROVE  Calm(c)
<1>0. at[c].pc = "turn" /\ CallOK(c) /\ Tables!Step(c, "done")
  BY DEF CallsOK, Tables!EndTurn, Tables!Is
<1>1. Others(c) /\ Goes(c, "done")
  BY <1>0, StepGoes DEF Steps, Resting, Tooling
<1>2. /\ db'.artifacts = db.artifacts /\ disk'.files = disk.files
      /\ raced' = raced /\ moved' = moved
  BY DEF Typed, Tables!EndTurn
<1> QED
  BY <1>0, <1>1, <1>2 DEF Calm, Resting, Tooling, CallOK, Tables!EndTurn, Goes

LEMMA ClearSandboxCalm ==
  ASSUME Typed, CallsOK, NEW c \in Callers, NEW ok \in BOOLEAN, Tables!ClearSandbox(c, ok)
  PROVE  Calm(c)
<1>0. at[c].pc = "contexts" /\ CallOK(c) /\ Tables!Step(c, "dropping")
  BY DEF CallsOK, Tables!ClearSandbox, Tables!Is
<1>1. Others(c) /\ Goes(c, "dropping")
  BY <1>0, StepGoes DEF Steps, Resting, Tooling
<1>2. /\ db'.artifacts = db.artifacts /\ disk'.files = disk.files
      /\ raced' = raced /\ moved' = moved
  BY DEF Typed, Tables!ClearSandbox
<1> QED
  BY <1>0, <1>1, <1>2 DEF Calm, Resting, Tooling, CallOK, Tables!ClearSandbox, Goes

LEMMA MissCalm ==
  ASSUME Typed, CallsOK, NEW c \in Callers, NEW a \in Members, Tables!Miss(c, a)
  PROVE  Calm(c)
<1>0. at[c].pc = "ensure" /\ CallOK(c)
  BY DEF CallsOK, Tables!Miss, Tables!Is
<1>1. /\ Others(c) /\ at'[c].pc = "insert"
      /\ at'[c].op = at[c].op /\ at'[c].work = at[c].work /\ at'[c].session = at[c].session
      /\ at'[c].ids = at[c].ids
  BY MissMoves
<1>2. /\ db'.artifacts = db.artifacts /\ disk'.files = disk.files
      /\ raced' = raced /\ moved' = moved
  BY DEF Typed, Tables!Miss
<1> QED
  BY <1>0, <1>1, <1>2 DEF Calm, Resting, Tooling, CallOK, Tables!Miss

LEMMA SummonCalm ==
  ASSUME Typed, CallsOK, NEW c \in Callers, NEW a \in Members, Tables!Summon(c, a)
  PROVE  Calm(c)
<1>0. at[c].pc = "turn" /\ CallOK(c)
  BY DEF CallsOK, Tables!Summon, Tables!Is
<1>1. /\ Others(c) /\ at'[c].pc = "ensure"
      /\ at'[c].op = at[c].op /\ at'[c].work = at[c].work /\ at'[c].session = at[c].session
      /\ at'[c].ids = at[c].ids
  BY SummonMoves
<1>2. /\ db'.artifacts = db.artifacts /\ disk'.files = disk.files
      /\ raced' = raced /\ moved' = moved
  BY DEF Typed, Tables!Summon
<1> QED
  BY <1>0, <1>1, <1>2 DEF Calm, Resting, Tooling, CallOK, Tables!Summon

LEMMA LookupCalm ==
  ASSUME Typed, CallsOK, NEW c \in Callers, NEW a \in Members, Tables!Lookup(c, a)
  PROVE  Calm(c)
<1>0. at[c].pc = "ensure" /\ CallOK(c)
  BY DEF CallsOK, Tables!Lookup, Tables!Is
<1>1. /\ Others(c) /\ at'[c].pc = "ensure"
      /\ at'[c].op = at[c].op /\ at'[c].work = at[c].work /\ at'[c].ids = at[c].ids
      /\ \E t : at'[c].session = IF a = Host THEN t ELSE at[c].session
  BY LookupMoves
<1>2. /\ db'.artifacts = db.artifacts /\ disk'.files = disk.files
      /\ raced' = raced /\ moved' = moved
  BY DEF Typed, Tables!Lookup
<1> QED
  BY <1>0, <1>1, <1>2 DEF Calm, Resting, Tooling, CallOK, Tables!Lookup

LEMMA InsertCalm ==
  ASSUME Typed, CallsOK, NEW c \in Callers, NEW s \in Sessions, Tables!Insert(c, s)
  PROVE  Calm(c)
<1>0. at[c].pc = "insert" /\ CallOK(c)
  BY DEF CallsOK, Tables!Insert, Tables!Is
<1>1. /\ Others(c) /\ at'[c].pc = "ensure"
      /\ at'[c].op = at[c].op /\ at'[c].work = at[c].work /\ at'[c].ids = at[c].ids
      /\ at'[c].session = IF at[c].name = Host THEN s ELSE at[c].session
  BY InsertMoves
<1>2. /\ db'.artifacts = db.artifacts /\ disk'.files = disk.files
      /\ raced' = raced /\ moved' = moved
  BY DEF Typed, Tables!Insert
<1> QED
  BY <1>0, <1>1, <1>2 DEF Calm, Resting, Tooling, CallOK, Tables!Insert

LEMMA DropContextCalm ==
  ASSUME Typed, CallsOK, NEW c \in Callers, NEW s \in Sessions, Tables!DropContext(c, s)
  PROVE  Calm(c)
<1>0. at[c].pc = "contexts" /\ CallOK(c)
  BY DEF CallsOK, Tables!DropContext, Tables!Is
<1>1. /\ Others(c) /\ at'[c].pc = "contexts"
      /\ at'[c].op = at[c].op /\ at'[c].work = at[c].work /\ at'[c].ids = at[c].ids
  BY DropContextMoves
<1>2. /\ db'.artifacts = db.artifacts /\ disk'.files = disk.files
      /\ raced' = raced /\ moved' = moved
  BY DEF Typed, Tables!DropContext
<1> QED
  BY <1>0, <1>1, <1>2 DEF Calm, Resting, Tooling, CallOK, Tables!DropContext

LEMMA UseSandboxCalm ==
  ASSUME Typed, CallsOK, NEW c \in Callers, Tables!UseSandbox(c)
  PROVE  Calm(c)
BY DEF Typed, Tables!UseSandbox, Tables!Is, Calm, Others, Resting

\* A call takes up a tool: the artifact is its own new one, or one that has a row.
LEMMA UseKeeps ==
  ASSUME Typed, CallsOK, FilesInv, NEW c \in Callers, Others(c),
         NEW step \in Tooling, NEW id \in Callers, NEW name, Uses(c, step, id, name),
         db'.artifacts = db.artifacts, disk.files \subseteq disk'.files, moved' = moved,
         \/ /\ step = "filing" /\ id = c
            /\ <<c, name>> \in disk'.files
            /\ \A f \in disk'.files : f \in disk.files \/ f[1] = c
         \/ /\ step \in {"revising", "scrapping"} /\ disk'.files = disk.files
            /\ \E r \in db.artifacts : r.id = id
  PROVE  FilesInv'
<1>0. MadeInv /\ NamedInv /\ KeptInv
  BY DEF FilesInv
<1>1. /\ at[c].pc = "turn" /\ at[c].ids = {} /\ at[c].op \in {"message", "chat"}
      /\ at'[c].pc = step /\ at'[c].op = at[c].op /\ at'[c].work = at[c].work
      /\ at'[c].session = at[c].session /\ at'[c].ids = {id} /\ at'[c].name = name
      /\ \A d \in Callers \ {c} : at'[d] = at[d]
      /\ raced' = IF Tables!Busy(id) THEN raced \cup {id} ELSE raced
  BY DEF Uses, Others, CallsOK, CallOK, Tooling
<1>2. /\ \A r \in db.artifacts : r.id \in Callers
      /\ \A f \in disk.files : f[1] \in Callers
      /\ \A d \in Callers : at[d].ids \subseteq Callers
  BY RowIds
<1>3. \A i \in Callers : Made(i) =>
         i # c /\ Made(i)' /\ at'[i].session = at[i].session /\ at'[i].work = at[i].work
  BY <1>1 DEF Made
<1>4. step \in {"revising", "scrapping"} => Made(id)
  BY <1>0, <1>1 DEF MadeInv, Tooling
<1>5. raced \subseteq raced' /\ raced' \subseteq raced \cup {id}
  BY <1>1
<1>6. ASSUME id \notin raced', NEW d \in Callers, d # c PROVE ~Handles(d, id)
  <2>1. ~(id \in at[d].ids /\ at[d].pc \in Tooling)
    BY <1>1, <1>6 DEF Tables!Busy, Tables!ToolSteps, Tooling
  <2>2. ASSUME at[d].op = "delete", id \in at[d].ids PROVE FALSE
    <3>1. \A r \in db.artifacts : r.id # id
      BY <1>0, <2>2 DEF MadeInv
    <3>2. step = "filing" /\ id = c
      BY <3>1
    <3>3. Made(c) \/ (c = d /\ at[d].pc = "filing")
      BY <1>0, <2>2, <3>2 DEF MadeInv
    <3> QED
      BY <1>3, <1>6, <3>3
  <2> QED
    BY <2>1, <2>2 DEF Handles
<1>7. \A d \in Callers \ {c} : \A i \in Callers : Handles(d, i)' <=> Handles(d, i)
  BY <1>1 DEF Handles
<1>8. \A i \in Callers : Handles(c, i)' => i = id
  BY <1>1 DEF Handles
<1>9. MadeInv'
  <2>1. \A r \in db'.artifacts :
          /\ Made(r.id)'
          /\ r.request = at'[r.id].session
          /\ r.session = r.request \/ r.id \in moved'
          /\ r.work \in {None, at'[r.id].work} \/ r.id \in moved'
    BY <1>0, <1>2, <1>3 DEF MadeInv
  <2>2. \A r, q \in db'.artifacts : r.id = q.id => r = q
    BY <1>0 DEF MadeInv
  <2>3. ASSUME NEW d \in Callers, NEW i \in at'[d].ids
        PROVE  Made(i)' \/ (i = d /\ at'[d].pc = "filing")
    <3>1. CASE d = c
      BY <1>1, <1>3, <1>4, <2>3, <3>1 DEF Tooling
    <3>2. CASE d # c
      BY <1>0, <1>1, <1>2, <1>3, <2>3, <3>2 DEF MadeInv
    <3> QED
      BY <3>1, <3>2
  <2>4. ASSUME NEW d \in Callers, at'[d].op = "delete", NEW i \in at'[d].ids
        PROVE  /\ \A r \in db'.artifacts : r.id # i
               /\ i \in moved' \/ at'[i].work = at'[d].work
    <3>1. d # c /\ at[d].op = "delete" /\ i \in at[d].ids /\ i \in Callers
      BY <1>1, <1>2, <2>4
    <3>2. at'[i].work = at[i].work /\ at'[d].work = at[d].work
      BY <1>1, <3>1
    <3> QED
      BY <1>0, <3>1, <3>2 DEF MadeInv
  <2>5. ASSUME NEW i \in Callers \ raced', NEW d \in Callers, NEW e \in Callers,
               Handles(d, i)', Handles(e, i)'
        PROVE  d = e
    <3>1. i \notin raced
      BY <1>5
    <3>2. CASE d # c /\ e # c
      BY <1>0, <1>7, <2>5, <3>1, <3>2 DEF MadeInv
    <3>3. CASE d = c \/ e = c
      BY <1>6, <1>7, <1>8, <2>5, <3>3
    <3> QED
      BY <3>2, <3>3
  <2> QED
    BY <2>1, <2>2, <2>3, <2>4, <2>5 DEF MadeInv, Made, Handles
<1>10. NamedInv'
  <2>1. \A d \in Callers : at'[d].pc = "filing" => <<d, at'[d].name>> \in disk'.files
    BY <1>0, <1>1 DEF NamedInv, Tooling
  <2>2. ASSUME NEW r \in db.artifacts, r.id \notin raced', \A d \in Callers : ~Handles(d, r.id)'
        PROVE  <<r.id, r.name>> \in disk'.files
    <3>1. ~Handles(c, r.id)
      BY <1>1 DEF Handles
    <3>2. \A d \in Callers : ~Handles(d, r.id)
      BY <1>2, <1>7, <2>2, <3>1
    <3> QED
      BY <1>0, <1>5, <2>2, <3>2 DEF NamedInv
  <2>3. ASSUME NEW r \in db.artifacts, r.id \notin raced', NEW d \in Callers,
               at'[d].pc = "refiling", r.id \in at'[d].ids
        PROVE  <<r.id, at'[d].name>> \in disk'.files
    <3>1. d # c
      BY <1>1, <2>3 DEF Tooling
    <3> QED
      BY ZenonT(60), <1>0, <1>1, <1>5, <2>3, <3>1 DEF NamedInv
  <2> QED
    BY <2>1, <2>2, <2>3 DEF NamedInv, Handles
<1>11. KeptInv'
  <2>1. \A d \in Callers : at[d].pc \in {"filing", "contexts", "dropping"} => at'[d] = at[d]
    BY <1>1
  <2>2. ASSUME NEW f \in disk'.files
        PROVE  \/ f[1] \in raced' \cup moved'
               \/ \E r \in db'.artifacts : r.id = f[1]
               \/ at'[f[1]].pc = "filing"
               \/ \E d \in Callers : at'[d].pc \in {"contexts", "dropping"} /\ f[1] \in at'[d].ids
    <3>1. CASE f \in disk.files
      <4>1. CASE \E d \in Callers : at[d].pc \in {"contexts", "dropping"} /\ f[1] \in at[d].ids
        BY <2>1, <4>1
      <4>2. CASE at[f[1]].pc = "filing"
        BY <1>2, <2>1, <3>1, <4>2
      <4> QED
        BY <1>0, <1>5, <3>1, <4>1, <4>2 DEF KeptInv
    <3>2. CASE f \notin disk.files
      BY <1>1, <2>2, <3>2
    <3> QED
      BY <3>1, <3>2
  <2>3. ASSUME NEW d \in Callers, NEW i \in at'[d].ids \ raced'
        PROVE  /\ at'[d].pc = "unfiling" => \A f \in disk'.files : f[1] # i
               /\ at'[d].pc \in Tooling \ {"filing"} => \E r \in db'.artifacts : r.id = i
    <3>1. CASE d = c
      BY <1>1, <2>3, <3>1
    <3>2. CASE d # c
      <4>1. at'[d] = at[d] /\ i \in at[d].ids \ raced
        BY <1>1, <1>5, <2>3, <3>2
      <4>2. at[d].pc = "unfiling" => i # c
        BY <1>0, <1>3, <3>2, <4>1 DEF MadeInv
      <4> QED
        BY <1>0, <4>1, <4>2 DEF KeptInv
    <3> QED
      BY <3>1, <3>2
  <2> QED
    BY <2>2, <2>3 DEF KeptInv
<1> QED
  BY <1>9, <1>10, <1>11 DEF FilesInv

\* What a call with a tool holds.
LEMMA ToolHolds ==
  ASSUME Typed, CallsOK, MadeInv, NEW c \in Callers, at[c].pc \in Tooling
  PROVE  /\ ~Made(c) /\ at[c].op \in {"message", "chat"}
         /\ \E id \in Callers :
               /\ at[c].ids = {id}
               /\ IF at[c].pc = "filing" THEN id = c ELSE Made(id) /\ id # c
               /\ id \notin raced => \A d \in Callers \ {c} : ~Handles(d, id)
<1>1. at[c].op \in {"message", "chat"} /\ at[c].pc \notin Resting
  BY DEF CallsOK, CallOK, Tooling, Resting
<1>2. ~Made(c)
  BY <1>1 DEF Made
<1>3. PICK id \in Callers : at[c].ids = {id}
  BY DEF CallsOK, CallOK, Tooling
<1>4. IF at[c].pc = "filing" THEN id = c ELSE Made(id) /\ id # c
  BY <1>2, <1>3 DEF CallsOK, CallOK, MadeInv, Tooling
<1>5. Handles(c, id)
  BY <1>3 DEF Handles
<1>6. id \notin raced => \A d \in Callers \ {c} : ~Handles(d, id)
  BY <1>5 DEF MadeInv
<1> QED
  BY <1>1, <1>2, <1>3, <1>4, <1>6

\* A call takes a step with its tool: what it made stays made, and what others
\* are at is the same.
LEMMA ToolStays ==
  ASSUME Typed, CallsOK, MadeInv, NEW c \in Callers, at[c].pc \in Tooling, Others(c),
         NEW step \in (Tooling \ {"filing"}) \cup {"turn"}, Goes(c, step)
  PROVE  /\ \A d \in Callers : at'[d].ids = at[d].ids
         /\ \A i \in Callers : Made(i) =>
               Made(i)' /\ at'[i].session = at[i].session /\ at'[i].work = at[i].work
         /\ \A d, i \in Callers : d # c => (Handles(d, i)' <=> Handles(d, i))
         /\ \A i \in Callers : Handles(c, i)' => Handles(c, i)
<1>1. /\ \A d \in Callers \ {c} : at'[d] = at[d]
      /\ at'[c].ids = at[c].ids /\ at'[c].op = at[c].op /\ at'[c].pc = step
  BY DEF Others, Goes
<1>2. ~Made(c)
  BY ToolHolds
<1>3. ASSUME NEW i \in Callers, Made(i)
      PROVE  Made(i)' /\ at'[i].session = at[i].session /\ at'[i].work = at[i].work
  BY <1>1, <1>2, <1>3 DEF Made
<1>4. \A d \in Callers : at'[d].ids = at[d].ids
  BY <1>1
<1>5. ASSUME NEW d \in Callers, NEW i \in Callers, d # c
      PROVE  Handles(d, i)' <=> Handles(d, i)
  BY <1>1, <1>5 DEF Handles
<1>6. \A i \in Callers : Handles(c, i)' => Handles(c, i)
  BY <1>1 DEF Handles
<1> QED
  BY <1>3, <1>4, <1>5, <1>6

\* A row of the tables after a step, by the row it was before.
Same(r, q) ==
    /\ r.id = q.id /\ r.request = q.request
    /\ (r.session = q.session /\ r.work = q.work) \/ r.id \in moved'

NewRow(c, r) ==
    /\ at[c].pc = "filing" /\ r.id = c /\ r.request = at[c].session
    /\ r.session = r.request /\ r.work \in {None, at[c].work}

\* Then the rows are still those of the calls that made them.
LEMMA ToolMade ==
  ASSUME Typed, CallsOK, MadeInv, NEW c \in Callers, at[c].pc \in Tooling, Others(c),
         NEW step \in (Tooling \ {"filing"}) \cup {"turn"}, Goes(c, step),
         at[c].pc = "filing" => step = "turn",
         raced' = raced, moved \subseteq moved',
         \A r \in db'.artifacts : NewRow(c, r) \/ \E q \in db.artifacts : Same(r, q),
         \A r, q \in db'.artifacts : r.id = q.id => r = q
  PROVE  MadeInv'
<1>1. /\ \A d \in Callers \ {c} : at'[d] = at[d]
      /\ at'[c].ids = at[c].ids /\ at'[c].op = at[c].op /\ at'[c].pc = step
      /\ at'[c].session = at[c].session /\ at'[c].work = at[c].work
  BY DEF Others, Goes
<1>2. /\ \A d \in Callers : at'[d].ids = at[d].ids
      /\ \A i \in Callers : Made(i) =>
            Made(i)' /\ at'[i].session = at[i].session /\ at'[i].work = at[i].work
      /\ \A d, i \in Callers : d # c => (Handles(d, i)' <=> Handles(d, i))
      /\ \A i \in Callers : Handles(c, i)' => Handles(c, i)
  BY ToolStays
<1>3. ~Made(c) /\ at[c].op \in {"message", "chat"}
  BY ToolHolds
<1>4. /\ \A r \in db.artifacts : r.id \in Callers
      /\ \A d \in Callers : at[d].ids \subseteq Callers
  BY RowIds
<1>5. at[c].pc = "filing" => Made(c)'
  <2>1. at[c].pc = "filing" => at[c].ids = {c}
    BY DEF CallsOK, CallOK
  <2> QED
    BY <1>1, <1>3, <2>1 DEF Made, Resting
<1>6. \A r \in db'.artifacts :
          /\ Made(r.id)'
          /\ r.request = at'[r.id].session
          /\ r.session = r.request \/ r.id \in moved'
          /\ r.work \in {None, at'[r.id].work} \/ r.id \in moved'
  <2>1. ASSUME NEW r \in db'.artifacts, NewRow(c, r)
        PROVE  /\ Made(r.id)' /\ r.request = at'[r.id].session
               /\ r.session = r.request /\ r.work \in {None, at'[r.id].work}
    BY <1>1, <1>5, <2>1 DEF NewRow
  <2>2. ASSUME NEW r \in db'.artifacts, NEW q \in db.artifacts, Same(r, q)
        PROVE  /\ Made(r.id)' /\ r.request = at'[r.id].session
               /\ r.session = r.request \/ r.id \in moved'
               /\ r.work \in {None, at'[r.id].work} \/ r.id \in moved'
    <3>1. /\ Made(q.id) /\ q.id \in Callers
          /\ q.request = at[q.id].session
          /\ q.work \in {None, at[q.id].work} \/ q.id \in moved
          /\ q.session = q.request \/ q.id \in moved
      BY <1>4 DEF MadeInv
    <3> QED
      BY <1>2, <2>2, <3>1 DEF Same
  <2> QED
    BY <2>1, <2>2
<1>7. ASSUME NEW d \in Callers, NEW i \in at'[d].ids
      PROVE  Made(i)' \/ (i = d /\ at'[d].pc = "filing")
  <2>1. i \in at[d].ids /\ i \in Callers
    BY <1>2, <1>4, <1>7
  <2>2. Made(i) \/ (i = d /\ at[d].pc = "filing")
    BY <2>1 DEF MadeInv
  <2> QED
    BY <1>1, <1>2, <1>5, <2>1, <2>2
<1>8. ASSUME NEW d \in Callers, at'[d].op = "delete", NEW i \in at'[d].ids
      PROVE  /\ \A r \in db'.artifacts : r.id # i
             /\ i \in moved' \/ at'[i].work = at'[d].work
  <2>1. d # c /\ at'[d] = at[d] /\ i \in at[d].ids /\ i \in Callers
    BY <1>1, <1>3, <1>4, <1>8
  <2>2. /\ \A r \in db.artifacts : r.id # i
        /\ i \in moved \/ at[i].work = at[d].work
    BY <1>8, <2>1 DEF MadeInv
  <2>3. Made(i)
    BY <1>8, <2>1 DEF MadeInv, CallsOK, CallOK
  <2>4. i # c
    BY <1>3, <2>3
  <2> QED
    BY <1>2, <2>1, <2>2, <2>3, <2>4 DEF NewRow, Same
<1>9. ASSUME NEW i \in Callers \ raced', NEW d \in Callers, NEW e \in Callers,
             Handles(d, i)', Handles(e, i)'
      PROVE  d = e
  BY <1>2, <1>9 DEF MadeInv
<1> QED
  BY <1>6, <1>7, <1>8, <1>9 DEF MadeInv, Made, Handles

LEMMA FileNewKeeps ==
  ASSUME Typed, CallsOK, FilesInv, NEW c \in Callers, NEW k \in Works \cup {None},
         Tables!FileNew(c, k)
  PROVE  FilesInv'
<1>0. MadeInv /\ NamedInv /\ KeptInv
  BY DEF FilesInv
<1> DEFINE row == [id |-> c, session |-> at[c].session, request |-> at[c].session,
                   work |-> k, name |-> at[c].name]
<1>1. /\ at[c].pc = "filing" /\ k \in {None, at[c].work}
      /\ db'.artifacts = db.artifacts \cup {row}
      /\ disk' = disk /\ raced' = raced /\ moved' = moved
      /\ Tables!Step(c, "turn")
  BY DEF Tables!FileNew, Tables!Is, Typed
<1>2. Others(c) /\ Goes(c, "turn")
  BY <1>1, StepGoes DEF Steps, Resting
<1>3. at[c].pc \in Tooling
  BY <1>1 DEF Tooling
<1>4. /\ ~Made(c) /\ at[c].ids = {c}
      /\ c \notin raced => \A d \in Callers \ {c} : ~Handles(d, c)
  BY <1>0, <1>1, <1>3, ToolHolds
<1>5. NewRow(c, row)
  BY <1>1 DEF NewRow
<1>6. row.id = c /\ row.name = at[c].name
  OBVIOUS
<1> HIDE DEF row
<1>7. \A r \in db.artifacts : r.id # c /\ r.id \in Callers
  BY <1>0, <1>4, RowIds DEF MadeInv
<1>8. MadeInv'
  <2>1. \A r \in db'.artifacts : NewRow(c, r) \/ \E q \in db.artifacts : Same(r, q)
    BY <1>1, <1>5 DEF Same
  <2>2. \A r, q \in db'.artifacts : r.id = q.id => r = q
    BY <1>0, <1>1, <1>6, <1>7 DEF MadeInv
  <2> QED
    BY <1>0, <1>1, <1>2, <1>3, <2>1, <2>2, ToolMade
<1>9. /\ \A d \in Callers \ {c} : at'[d] = at[d]
      /\ at'[c].pc = "turn" /\ at'[c].ids = {c}
  BY <1>2, <1>4 DEF Others, Goes
<1>10. NamedInv'
  <2>1. \A d \in Callers : at'[d].pc = "filing" => <<d, at'[d].name>> \in disk'.files
    BY <1>0, <1>1, <1>9 DEF NamedInv
  <2>2. ASSUME NEW r \in db.artifacts, r.id \notin raced, \A d \in Callers : ~Handles(d, r.id)'
        PROVE  <<r.id, r.name>> \in disk.files
    <3>1. ASSUME NEW d \in Callers PROVE ~Handles(d, r.id)
      BY <1>4, <1>7, <1>9, <2>2, <3>1 DEF Handles
    <3> QED
      BY <1>0, <2>2, <3>1 DEF NamedInv
  <2>3. <<row.id, row.name>> \in disk.files
    BY <1>0, <1>1, <1>6 DEF NamedInv
  <2>4. ASSUME NEW r \in db'.artifacts, r.id \notin raced, NEW d \in Callers,
               at'[d].pc = "refiling", r.id \in at'[d].ids
        PROVE  <<r.id, at'[d].name>> \in disk.files
    <3>1. d # c /\ at'[d] = at[d] /\ Handles(d, r.id)
      BY <1>9, <2>4 DEF Handles, Tooling
    <3>2. r \in db.artifacts
      BY <1>1, <1>4, <1>6, <2>4, <3>1
    <3> QED
      BY <1>0, <2>4, <3>1, <3>2 DEF NamedInv
  <2> QED
    BY <1>1, <2>1, <2>2, <2>3, <2>4 DEF NamedInv, Handles
<1>11. KeptInv'
  <2>1. ASSUME NEW f \in disk.files
        PROVE  \/ f[1] \in raced \cup moved
               \/ \E r \in db'.artifacts : r.id = f[1]
               \/ at'[f[1]].pc = "filing"
               \/ \E d \in Callers : at'[d].pc \in {"contexts", "dropping"} /\ f[1] \in at'[d].ids
    <3>1. CASE f[1] = c
      BY <1>1, <1>6, <3>1
    <3>2. CASE f[1] # c /\ at[f[1]].pc = "filing"
      BY <1>9, <3>2, RowIds
    <3>3. CASE \E d \in Callers : at[d].pc \in {"contexts", "dropping"} /\ f[1] \in at[d].ids
      BY <1>1, <1>9, <3>3
    <3> QED
      BY <1>0, <1>1, <3>1, <3>2, <3>3 DEF KeptInv
  <2>2. ASSUME NEW d \in Callers, NEW i \in at'[d].ids \ raced
        PROVE  /\ at'[d].pc = "unfiling" => \A f \in disk.files : f[1] # i
               /\ at'[d].pc \in Tooling \ {"filing"} => \E r \in db'.artifacts : r.id = i
    BY <1>0, <1>1, <1>9, <2>2 DEF KeptInv, Tooling
  <2> QED
    BY <1>1, <2>1, <2>2 DEF KeptInv
<1> QED
  BY <1>8, <1>10, <1>11 DEF FilesInv

LEMMA RewriteKeeps ==
  ASSUME Typed, CallsOK, FilesInv, NEW c \in Callers, Tables!Rewrite(c)
  PROVE  FilesInv'
<1>0. MadeInv /\ NamedInv /\ KeptInv
  BY DEF FilesInv
<1>1. at[c].pc = "revising" /\ at[c].pc \in Tooling
  BY DEF Tables!Rewrite, Tables!Is, Tooling
<1>2. PICK id \in Callers :
        /\ at[c].ids = {id} /\ Made(id) /\ id # c
        /\ id \notin raced => \A d \in Callers \ {c} : ~Handles(d, id)
  BY <1>0, <1>1, ToolHolds
<1>3. /\ db' = db /\ raced' = raced /\ moved' = moved
      /\ disk'.files = (disk.files \ {<<id, at[c].old>>}) \cup {<<id, at[c].name>>}
      /\ Tables!Step(c, "refiling")
  BY <1>2 DEF Tables!Rewrite, Tables!Rewritten, Typed
<1>4. Others(c) /\ Goes(c, "refiling")
  BY <1>3, StepGoes DEF Steps, Tooling
<1>5. MadeInv'
  <2>1. \A r \in db'.artifacts : NewRow(c, r) \/ \E q \in db.artifacts : Same(r, q)
    BY <1>3 DEF Same
  <2>2. \A r, q \in db'.artifacts : r.id = q.id => r = q
    BY <1>0, <1>3 DEF MadeInv
  <2> QED
    BY <1>0, <1>1, <1>3, <1>4, <2>1, <2>2, ToolMade DEF Tooling
<1>6. /\ \A d \in Callers \ {c} : at'[d] = at[d]
      /\ at'[c].pc = "refiling" /\ at'[c].ids = {id} /\ at'[c].name = at[c].name
  BY <1>2, <1>4 DEF Others, Goes
<1>7. ASSUME NEW d \in Callers, at[d].pc = "filing" PROVE d # id
  BY <1>2, <1>7 DEF Made, Resting
<1>8. \A f \in disk'.files : f \in disk.files \/ f[1] = id
  BY <1>3
<1>9. \A f \in disk.files : f[1] # id => f \in disk'.files
  BY <1>3
<1>10. NamedInv'
  <2>1. ASSUME NEW d \in Callers, at'[d].pc = "filing"
        PROVE  <<d, at'[d].name>> \in disk'.files
    BY <1>0, <1>6, <1>7, <1>9, <2>1 DEF NamedInv
  <2>2. ASSUME NEW r \in db.artifacts, r.id \notin raced, \A d \in Callers : ~Handles(d, r.id)'
        PROVE  <<r.id, r.name>> \in disk'.files
    <3>1. r.id # id
      BY <1>6, <2>2 DEF Handles, Tooling
    <3>2. ASSUME NEW d \in Callers PROVE ~Handles(d, r.id)
      BY <1>2, <1>6, <2>2, <3>1, <3>2 DEF Handles
    <3> QED
      BY <1>0, <1>9, <2>2, <3>1, <3>2 DEF NamedInv
  <2>3. ASSUME NEW r \in db.artifacts, r.id \notin raced, NEW d \in Callers,
               at'[d].pc = "refiling", r.id \in at'[d].ids
        PROVE  <<r.id, at'[d].name>> \in disk'.files
    <3>1. CASE d = c
      BY <1>3, <1>6, <2>3, <3>1
    <3>2. CASE d # c
      <4>1. at'[d] = at[d] /\ Handles(d, r.id) /\ r.id # id
        BY <1>2, <1>6, <2>3, <3>2 DEF Handles, Tooling
      <4> QED
        BY <1>0, <1>9, <2>3, <4>1 DEF NamedInv
    <3> QED
      BY <3>1, <3>2
  <2> QED
    BY <1>3, <2>1, <2>2, <2>3 DEF NamedInv, Handles
<1>11. KeptInv'
  <2>1. ASSUME NEW f \in disk'.files
        PROVE  \/ f[1] \in raced \cup moved
               \/ \E r \in db.artifacts : r.id = f[1]
               \/ at'[f[1]].pc = "filing"
               \/ \E d \in Callers : at'[d].pc \in {"contexts", "dropping"} /\ f[1] \in at'[d].ids
    <3>1. CASE f[1] = id
      BY <1>0, <1>1, <1>2, <3>1 DEF KeptInv, Tooling
    <3>2. CASE f[1] # id
      <4>1. f \in disk.files
        BY <1>8, <3>2
      <4>2. at[f[1]].pc = "filing" => at'[f[1]].pc = "filing"
        BY <1>1, <1>6, <4>1, RowIds
      <4> QED
        BY <1>0, <1>1, <1>6, <4>1, <4>2 DEF KeptInv
    <3> QED
      BY <3>1, <3>2
  <2>2. ASSUME NEW d \in Callers, NEW i \in at'[d].ids \ raced
        PROVE  /\ at'[d].pc = "unfiling" => \A f \in disk'.files : f[1] # i
               /\ at'[d].pc \in Tooling \ {"filing"} => \E r \in db.artifacts : r.id = i
    <3>1. CASE d = c
      BY <1>0, <1>1, <1>2, <1>6, <2>2, <3>1 DEF KeptInv, Tooling
    <3>2. CASE d # c
      <4>1. at'[d].pc = "unfiling" => i # id
        BY <1>2, <1>6, <2>2, <3>2 DEF Handles, Tooling
      <4> QED
        BY <1>0, <1>6, <1>8, <2>2, <3>2, <4>1 DEF KeptInv
    <3> QED
      BY <3>1, <3>2
  <2> QED
    BY <1>3, <2>1, <2>2 DEF KeptInv
<1> QED
  BY <1>5, <1>10, <1>11 DEF FilesInv

LEMMA RefileKeeps ==
  ASSUME Typed, CallsOK, FilesInv, NEW c \in Callers, NEW passed \in SUBSET {"session", "work"},
         Tables!Refile(c, passed)
  PROVE  FilesInv'
<1>0. MadeInv /\ NamedInv /\ KeptInv
  BY DEF FilesInv
<1>1. at[c].pc = "refiling" /\ at[c].pc \in Tooling
  BY DEF Tables!Refile, Tables!Is, Tooling
<1>2. PICK id \in Callers :
        /\ at[c].ids = {id} /\ Made(id) /\ id # c
        /\ id \notin raced => \A d \in Callers \ {c} : ~Handles(d, id)
  BY <1>0, <1>1, ToolHolds
<1> DEFINE rows == {r \in db.artifacts : r.id \in at[c].ids}
           New(r) == Tables!Revised(c, passed, r)
           far == {q \in rows : New(q).session # q.session \/ New(q).work # q.work}
<1>3. /\ db'.artifacts = (db.artifacts \ rows) \cup {New(r) : r \in rows}
      /\ moved' = moved \cup {r.id : r \in far}
      /\ disk' = disk /\ raced' = raced
      /\ Tables!Step(c, "turn")
  BY DEF Tables!Refile, Typed
<1>4. Others(c) /\ Goes(c, "turn")
  BY <1>3, StepGoes DEF Steps, Resting
<1>5. moved \subseteq moved'
  BY <1>3
<1>6. ASSUME NEW r \in rows
      PROVE  /\ r \in db.artifacts /\ r.id = id
             /\ Same(New(r), r) /\ New(r).id = id /\ New(r).name = at[c].name
  <2>1. r \in db.artifacts /\ r.id = id
    BY <1>2, <1>6
  <2>2. /\ New(r).id = r.id /\ New(r).request = r.request
        /\ New(r).name = at[c].name
    BY <2>1 DEF Typed, Tables!Artifact, Tables!Revised
  <2>3. (New(r).session = r.session /\ New(r).work = r.work) \/ r.id \in moved'
    BY <1>3, <1>6, <2>2
  <2> QED
    BY <2>1, <2>2, <2>3 DEF Same
<1> HIDE DEF New, far
<1>7. \A r \in db'.artifacts : \/ r \in db.artifacts /\ r.id # id
                               \/ \E q \in rows : r = New(q)
  BY <1>2, <1>3
<1>8. \A r \in db.artifacts : r.id # id => r \in db'.artifacts
  BY <1>2, <1>3
<1>9. \A r \in rows : New(r) \in db'.artifacts
  BY <1>3
<1>10. \A r \in db.artifacts : \E q \in db'.artifacts : q.id = r.id
  BY <1>2, <1>6, <1>8, <1>9
<1>11. MadeInv'
  <2>1. \A r \in db'.artifacts : NewRow(c, r) \/ \E q \in db.artifacts : Same(r, q)
    BY <1>6, <1>7 DEF Same
  <2>2. \A r, q \in db'.artifacts : r.id = q.id => r = q
    BY <1>0, <1>6, <1>7 DEF MadeInv
  <2> QED
    BY <1>0, <1>1, <1>3, <1>4, <1>5, <2>1, <2>2, ToolMade
<1>12. /\ \A d \in Callers \ {c} : at'[d] = at[d]
       /\ at'[c].pc = "turn" /\ at'[c].ids = {id}
  BY <1>2, <1>4 DEF Others, Goes
<1>13. NamedInv'
  <2>1. \A d \in Callers : at'[d].pc = "filing" => <<d, at'[d].name>> \in disk.files
    BY <1>0, <1>12 DEF NamedInv
  <2>2. ASSUME NEW r \in db'.artifacts, r.id \notin raced, \A d \in Callers : ~Handles(d, r.id)'
        PROVE  <<r.id, r.name>> \in disk.files
    <3>1. CASE r \in db.artifacts /\ r.id # id
      <4>1. ASSUME NEW d \in Callers PROVE ~Handles(d, r.id)
        BY <1>2, <1>12, <2>2, <3>1, <4>1 DEF Handles
      <4> QED
        BY <1>0, <2>2, <3>1, <4>1 DEF NamedInv
    <3>2. ASSUME NEW q \in rows, r = New(q) PROVE <<r.id, r.name>> \in disk.files
      BY <1>0, <1>1, <1>2, <1>6, <2>2, <3>2 DEF NamedInv
    <3> QED
      BY <1>7, <3>1, <3>2
  <2>3. ASSUME NEW r \in db'.artifacts, r.id \notin raced, NEW d \in Callers,
               at'[d].pc = "refiling", r.id \in at'[d].ids
        PROVE  <<r.id, at'[d].name>> \in disk.files
    <3>1. d # c /\ at'[d] = at[d] /\ Handles(d, r.id)
      BY <1>12, <2>3 DEF Handles, Tooling
    <3>2. r.id # id
      BY <1>2, <2>3, <3>1
    <3>3. r \in db.artifacts
      BY <1>6, <1>7, <3>2
    <3> QED
      BY <1>0, <2>3, <3>1, <3>3 DEF NamedInv
  <2> QED
    BY <1>3, <2>1, <2>2, <2>3 DEF NamedInv, Handles
<1>14. KeptInv'
  <2>1. ASSUME NEW f \in disk.files
        PROVE  \/ f[1] \in raced \cup moved'
               \/ \E r \in db'.artifacts : r.id = f[1]
               \/ at'[f[1]].pc = "filing"
               \/ \E d \in Callers : at'[d].pc \in {"contexts", "dropping"} /\ f[1] \in at'[d].ids
    <3>1. at[f[1]].pc = "filing" => at'[f[1]].pc = "filing"
      BY <1>1, <1>12, RowIds
    <3>2. \A d \in Callers : at[d].pc \in {"contexts", "dropping"} => at'[d] = at[d]
      BY <1>1, <1>12
    <3> QED
      BY <1>0, <1>5, <1>10, <3>1, <3>2 DEF KeptInv
  <2>2. ASSUME NEW d \in Callers, NEW i \in at'[d].ids \ raced
        PROVE  /\ at'[d].pc = "unfiling" => \A f \in disk.files : f[1] # i
               /\ at'[d].pc \in Tooling \ {"filing"} => \E r \in db'.artifacts : r.id = i
    BY <1>0, <1>10, <1>12, <2>2 DEF KeptInv, Tooling
  <2> QED
    BY <1>3, <2>1, <2>2 DEF KeptInv
<1> QED
  BY <1>11, <1>13, <1>14 DEF FilesInv

LEMMA RemoveDirectoryKeeps ==
  ASSUME Typed, CallsOK, FilesInv, NEW c \in Callers, Tables!RemoveDirectory(c)
  PROVE  FilesInv'
<1>0. MadeInv /\ NamedInv /\ KeptInv
  BY DEF FilesInv
<1>1. at[c].pc = "scrapping" /\ at[c].pc \in Tooling
  BY DEF Tables!RemoveDirectory, Tables!Is, Tooling
<1>2. PICK id \in Callers :
        /\ at[c].ids = {id} /\ Made(id) /\ id # c
        /\ id \notin raced => \A d \in Callers \ {c} : ~Handles(d, id)
  BY <1>0, <1>1, ToolHolds
<1>3. /\ db' = db /\ raced' = raced /\ moved' = moved
      /\ disk'.files = {f \in disk.files : f[1] # id}
      /\ Tables!Step(c, "unfiling")
  BY <1>2 DEF Tables!RemoveDirectory, Typed
<1>4. Others(c) /\ Goes(c, "unfiling")
  BY <1>3, StepGoes DEF Steps, Tooling
<1>5. MadeInv'
  <2>1. \A r \in db'.artifacts : NewRow(c, r) \/ \E q \in db.artifacts : Same(r, q)
    BY <1>3 DEF Same
  <2>2. \A r, q \in db'.artifacts : r.id = q.id => r = q
    BY <1>0, <1>3 DEF MadeInv
  <2> QED
    BY <1>0, <1>1, <1>3, <1>4, <2>1, <2>2, ToolMade DEF Tooling
<1>6. /\ \A d \in Callers \ {c} : at'[d] = at[d]
      /\ at'[c].pc = "unfiling" /\ at'[c].ids = {id}
  BY <1>2, <1>4 DEF Others, Goes
<1>7. ASSUME NEW d \in Callers, at[d].pc = "filing" PROVE d # id
  BY <1>2, <1>7 DEF Made, Resting
<1>8. NamedInv'
  <2>1. ASSUME NEW d \in Callers, at'[d].pc = "filing"
        PROVE  <<d, at'[d].name>> \in disk'.files
    BY <1>0, <1>3, <1>6, <1>7, <2>1 DEF NamedInv
  <2>2. ASSUME NEW r \in db.artifacts, r.id \notin raced, \A d \in Callers : ~Handles(d, r.id)'
        PROVE  <<r.id, r.name>> \in disk'.files
    <3>1. r.id # id
      BY <1>6, <2>2 DEF Handles, Tooling
    <3>2. ASSUME NEW d \in Callers PROVE ~Handles(d, r.id)
      BY <1>2, <1>6, <2>2, <3>1, <3>2 DEF Handles
    <3> QED
      BY <1>0, <1>3, <2>2, <3>1, <3>2 DEF NamedInv
  <2>3. ASSUME NEW r \in db.artifacts, r.id \notin raced, NEW d \in Callers,
               at'[d].pc = "refiling", r.id \in at'[d].ids
        PROVE  <<r.id, at'[d].name>> \in disk'.files
    <3>1. d # c /\ at'[d] = at[d] /\ Handles(d, r.id) /\ r.id # id
      BY <1>2, <1>6, <2>3 DEF Handles, Tooling
    <3> QED
      BY <1>0, <1>3, <2>3, <3>1 DEF NamedInv
  <2> QED
    BY <1>3, <2>1, <2>2, <2>3 DEF NamedInv, Handles
<1>9. KeptInv'
  <2>1. ASSUME NEW f \in disk'.files
        PROVE  \/ f[1] \in raced \cup moved
               \/ \E r \in db.artifacts : r.id = f[1]
               \/ at'[f[1]].pc = "filing"
               \/ \E d \in Callers : at'[d].pc \in {"contexts", "dropping"} /\ f[1] \in at'[d].ids
    <3>1. f \in disk.files
      BY <1>3
    <3>2. at[f[1]].pc = "filing" => at'[f[1]].pc = "filing"
      BY <1>1, <1>6, <3>1, RowIds
    <3>3. \A d \in Callers : at[d].pc \in {"contexts", "dropping"} => at'[d] = at[d]
      BY <1>1, <1>6
    <3> QED
      BY <1>0, <3>1, <3>2, <3>3 DEF KeptInv
  <2>2. ASSUME NEW d \in Callers, NEW i \in at'[d].ids \ raced
        PROVE  /\ at'[d].pc = "unfiling" => \A f \in disk'.files : f[1] # i
               /\ at'[d].pc \in Tooling \ {"filing"} => \E r \in db.artifacts : r.id = i
    <3>1. CASE d = c
      BY <1>0, <1>1, <1>2, <1>3, <1>6, <2>2, <3>1 DEF KeptInv, Tooling
    <3>2. CASE d # c
      BY <1>0, <1>3, <1>6, <2>2, <3>2 DEF KeptInv
    <3> QED
      BY <3>1, <3>2
  <2> QED
    BY <1>3, <2>1, <2>2 DEF KeptInv
<1> QED
  BY <1>5, <1>8, <1>9 DEF FilesInv

LEMMA UnfileKeeps ==
  ASSUME Typed, CallsOK, FilesInv, NEW c \in Callers, Tables!Unfile(c)
  PROVE  FilesInv'
<1>0. MadeInv /\ NamedInv /\ KeptInv
  BY DEF FilesInv
<1>1. at[c].pc = "unfiling" /\ at[c].pc \in Tooling
  BY DEF Tables!Unfile, Tables!Is, Tooling
<1>2. PICK id \in Callers :
        /\ at[c].ids = {id} /\ Made(id) /\ id # c
        /\ id \notin raced => \A d \in Callers \ {c} : ~Handles(d, id)
  BY <1>0, <1>1, ToolHolds
<1>3. /\ db'.artifacts = {r \in db.artifacts : r.id # id}
      /\ disk' = disk /\ raced' = raced /\ moved' = moved
      /\ Tables!Step(c, "turn")
  BY <1>2 DEF Tables!Unfile, Typed
<1>4. Others(c) /\ Goes(c, "turn")
  BY <1>3, StepGoes DEF Steps, Resting
<1>5. MadeInv'
  <2>1. \A r \in db'.artifacts : NewRow(c, r) \/ \E q \in db.artifacts : Same(r, q)
    BY <1>3 DEF Same
  <2>2. \A r, q \in db'.artifacts : r.id = q.id => r = q
    BY <1>0, <1>3 DEF MadeInv
  <2> QED
    BY <1>0, <1>1, <1>3, <1>4, <2>1, <2>2, ToolMade
<1>6. /\ \A d \in Callers \ {c} : at'[d] = at[d]
      /\ at'[c].pc = "turn" /\ at'[c].ids = {id}
  BY <1>2, <1>4 DEF Others, Goes
<1>7. NamedInv'
  <2>1. \A d \in Callers : at'[d].pc = "filing" => <<d, at'[d].name>> \in disk.files
    BY <1>0, <1>6 DEF NamedInv
  <2>2. ASSUME NEW r \in db'.artifacts, r.id \notin raced, \A d \in Callers : ~Handles(d, r.id)'
        PROVE  <<r.id, r.name>> \in disk.files
    <3>1. r \in db.artifacts /\ r.id # id
      BY <1>3
    <3>2. ASSUME NEW d \in Callers PROVE ~Handles(d, r.id)
      BY <1>2, <1>6, <2>2, <3>1, <3>2 DEF Handles
    <3> QED
      BY <1>0, <2>2, <3>1, <3>2 DEF NamedInv
  <2>3. ASSUME NEW r \in db'.artifacts, r.id \notin raced, NEW d \in Callers,
               at'[d].pc = "refiling", r.id \in at'[d].ids
        PROVE  <<r.id, at'[d].name>> \in disk.files
    <3>1. r \in db.artifacts /\ d # c /\ at'[d] = at[d]
      BY <1>3, <1>6, <2>3
    <3> QED
      BY <1>0, <2>3, <3>1 DEF NamedInv
  <2> QED
    BY <1>3, <2>1, <2>2, <2>3 DEF NamedInv, Handles
<1>8. KeptInv'
  <2>1. ASSUME NEW f \in disk.files
        PROVE  \/ f[1] \in raced \cup moved
               \/ \E r \in db'.artifacts : r.id = f[1]
               \/ at'[f[1]].pc = "filing"
               \/ \E d \in Callers : at'[d].pc \in {"contexts", "dropping"} /\ f[1] \in at'[d].ids
    <3>1. f[1] # id \/ id \in raced
      BY <1>0, <1>1, <1>2 DEF KeptInv
    <3>2. at[f[1]].pc = "filing" => at'[f[1]].pc = "filing"
      BY <1>1, <1>6, RowIds
    <3>3. \A d \in Callers : at[d].pc \in {"contexts", "dropping"} => at'[d] = at[d]
      BY <1>1, <1>6
    <3> QED
      BY <1>0, <1>3, <3>1, <3>2, <3>3 DEF KeptInv
  <2>2. ASSUME NEW d \in Callers, NEW i \in at'[d].ids \ raced
        PROVE  /\ at'[d].pc = "unfiling" => \A f \in disk.files : f[1] # i
               /\ at'[d].pc \in Tooling \ {"filing"} => \E r \in db'.artifacts : r.id = i
    <3>1. CASE d = c
      BY <1>6, <3>1 DEF Tooling
    <3>2. CASE d # c
      <4>1. at'[d].pc \in Tooling => i # id
        BY <1>2, <1>6, <2>2, <3>2 DEF Handles
      <4> QED
        BY <1>0, <1>3, <1>6, <2>2, <3>2, <4>1 DEF KeptInv
    <3> QED
      BY <3>1, <3>2
  <2> QED
    BY <1>3, <2>1, <2>2 DEF KeptInv
<1> QED
  BY <1>5, <1>7, <1>8 DEF FilesInv

LEMMA DropFilesKeeps ==
  ASSUME Typed, CallsOK, FilesInv, NEW c \in Callers, Tables!DropFiles(c)
  PROVE  FilesInv'
<1>0. MadeInv /\ NamedInv /\ KeptInv
  BY DEF FilesInv
<1>1. /\ at[c].pc = "dropping" /\ at[c].op = "delete"
      /\ db' = db /\ raced' = raced /\ moved' = moved
      /\ disk'.files = {f \in disk.files : f[1] \notin at[c].ids}
      /\ Tables!Step(c, "done")
  BY DEF Tables!DropFiles, Tables!Is, Typed, CallsOK, CallOK
<1>2. Others(c) /\ Goes(c, "done")
  BY <1>1, StepGoes DEF Steps, Resting
<1>3. /\ \A d \in Callers \ {c} : at'[d] = at[d]
      /\ at'[c].pc = "done" /\ at'[c].op = "delete" /\ at'[c].ids = at[c].ids
      /\ at'[c].work = at[c].work
  BY <1>1, <1>2 DEF Others, Goes
<1>4. /\ \A r \in db.artifacts : r.id \in Callers
      /\ \A d \in Callers : at[d].ids \subseteq Callers
  BY RowIds
<1>5. ASSUME NEW i \in Callers, Made(i)
      PROVE  i # c /\ Made(i)' /\ at'[i] = at[i]
  BY <1>1, <1>3, <1>5 DEF Made
<1>6. \A d, i \in Callers : Handles(d, i)' <=> Handles(d, i)
  BY <1>1, <1>3 DEF Handles, Tooling
<1>7. MadeInv'
  <2>1. \A r \in db.artifacts :
          /\ Made(r.id)'
          /\ r.request = at'[r.id].session
          /\ r.session = r.request \/ r.id \in moved
          /\ r.work \in {None, at'[r.id].work} \/ r.id \in moved
    BY <1>0, <1>4, <1>5 DEF MadeInv
  <2>2. ASSUME NEW d \in Callers, NEW i \in at'[d].ids
        PROVE  Made(i)' \/ (i = d /\ at'[d].pc = "filing")
    <3>1. i \in at[d].ids /\ i \in Callers
      BY <1>3, <1>4, <2>2
    <3>2. Made(i) \/ (i = d /\ at[d].pc = "filing")
      BY <1>0, <3>1 DEF MadeInv
    <3> QED
      BY <1>1, <1>3, <1>5, <3>1, <3>2
  <2>3. ASSUME NEW d \in Callers, at'[d].op = "delete", NEW i \in at'[d].ids
        PROVE  /\ \A r \in db.artifacts : r.id # i
               /\ i \in moved \/ at'[i].work = at'[d].work
    <3>1. at[d].op = "delete" /\ i \in at[d].ids /\ i \in Callers /\ at'[d].work = at[d].work
      BY <1>1, <1>3, <1>4, <2>3
    <3>2. at'[i].work = at[i].work
      BY <1>3, <3>1
    <3> QED
      BY <1>0, <3>1, <3>2 DEF MadeInv
  <2>4. \A i \in Callers \ raced : \A d, e \in Callers :
           Handles(d, i)' /\ Handles(e, i)' => d = e
    BY <1>0, <1>6 DEF MadeInv
  <2>5. \A r, q \in db.artifacts : r.id = q.id => r = q
    BY <1>0 DEF MadeInv
  <2> QED
    BY <1>1, <2>1, <2>2, <2>3, <2>4, <2>5 DEF MadeInv, Made, Handles
<1>8. \A r \in db.artifacts : r.id \notin at[c].ids
  BY <1>0, <1>1 DEF MadeInv
<1>9. NamedInv'
  <2>1. ASSUME NEW d \in Callers, at'[d].pc = "filing"
        PROVE  <<d, at'[d].name>> \in disk'.files
    <3>1. d # c /\ at'[d] = at[d]
      BY <1>3, <2>1
    <3>2. d \notin at[c].ids
      BY <1>0, <1>1, <2>1, <3>1 DEF MadeInv, Made, Resting
    <3>3. <<d, at[d].name>> \in disk.files
      BY <1>0, <2>1, <3>1 DEF NamedInv
    <3>4. <<d, at[d].name>> \in {f \in disk.files : f[1] \notin at[c].ids}
      BY <3>2, <3>3
    <3> QED
      BY <1>1, <3>1, <3>4
  <2>2. \A r \in db.artifacts :
           r.id \notin raced /\ (\A d \in Callers : ~Handles(d, r.id)') =>
               <<r.id, r.name>> \in disk'.files
    BY <1>0, <1>1, <1>4, <1>6, <1>8 DEF NamedInv
  <2>3. \A r \in db.artifacts : r.id \notin raced =>
          \A d \in Callers : at'[d].pc = "refiling" /\ r.id \in at'[d].ids =>
              <<r.id, at'[d].name>> \in disk'.files
    BY <1>0, <1>1, <1>3, <1>8 DEF NamedInv
  <2> QED
    BY <1>1, <2>1, <2>2, <2>3 DEF NamedInv, Handles
<1>10. KeptInv'
  <2>1. ASSUME NEW f \in disk'.files
        PROVE  \/ f[1] \in raced \cup moved
               \/ \E r \in db.artifacts : r.id = f[1]
               \/ at'[f[1]].pc = "filing"
               \/ \E d \in Callers : at'[d].pc \in {"contexts", "dropping"} /\ f[1] \in at'[d].ids
    <3>1. f \in disk.files /\ f[1] \notin at[c].ids
      BY <1>1
    <3>2. at[f[1]].pc = "filing" => at'[f[1]].pc = "filing"
      BY <1>1, <1>3, <3>1, RowIds
    <3>3. \A d \in Callers : at[d].pc \in {"contexts", "dropping"} /\ f[1] \in at[d].ids =>
             at'[d] = at[d]
      BY <1>3, <3>1
    <3> QED
      BY <1>0, <3>1, <3>2, <3>3 DEF KeptInv
  <2>2. ASSUME NEW d \in Callers, NEW i \in at'[d].ids \ raced
        PROVE  /\ at'[d].pc = "unfiling" => \A f \in disk'.files : f[1] # i
               /\ at'[d].pc \in Tooling \ {"filing"} => \E r \in db.artifacts : r.id = i
    BY <1>0, <1>1, <1>3, <2>2 DEF KeptInv, Tooling
  <2> QED
    BY <1>1, <2>1, <2>2 DEF KeptInv
<1> QED
  BY <1>7, <1>9, <1>10 DEF FilesInv

\* What a deletion takes over it takes with the row, and it is of its work or was
\* revised elsewhere.
LEMMA ReturnedOwned ==
  ASSUME Typed, CallsOK, MadeInv, OwnedInv, NEW c \in Callers, at[c].pc = "purge",
         NEW q \in Tables!Returned(at[c].work, at[c].listed)
  PROVE  /\ q \in db.artifacts /\ q \in Tables!Purged(at[c].work, at[c].listed)
         /\ Made(q.id)
         /\ q.id \in moved \/ at[q.id].work = at[c].work
<1>1. at[c].op = "delete" /\ at[c].work \in Works /\ at[c].listed \subseteq Sessions
  BY DEF Typed, Place, CallsOK, CallOK
<1>2. /\ q \in db.artifacts
      /\ q.session \in at[c].listed \/ q.work = at[c].work
  BY DEF Tables!Returned
<1>3. q \in Tables!Purged(at[c].work, at[c].listed)
  BY <1>2 DEF Tables!Purged
<1>4. /\ Made(q.id) /\ q.id \in Callers
      /\ q.request = at[q.id].session
      /\ q.session = q.request \/ q.id \in moved
      /\ q.work \in {None, at[q.id].work} \/ q.id \in moved
  BY <1>2, RowIds DEF MadeInv
<1>5. CASE q.work = at[c].work
  BY <1>1, <1>2, <1>3, <1>4, <1>5, TablesAssumed
<1>6. CASE q.session \in at[c].listed /\ q.id \notin moved
  <2>1. at[q.id].session \in at[c].listed
    BY <1>4, <1>6
  <2>2. at[q.id].session \in Sessions /\ owner[at[q.id].session] = at[c].work
    BY <1>1, <2>1 DEF OwnedInv
  <2>3. /\ at[q.id].ids # {} /\ at[q.id].op \in {"message", "chat"}
        /\ at[q.id].pc \in Resting /\ at[q.id].pc # "idle"
    BY <1>4 DEF Made, Resting
  <2>4. at[q.id].op = "message"
    BY <1>4, <2>2, <2>3, TablesAssumed DEF CallsOK, CallOK
  <2>5. Host \notin at[q.id].todo
    BY <1>4, <2>3, <2>4 DEF CallsOK, CallOK
  <2>6. owner[at[q.id].session] = at[q.id].work
    BY <1>4, <2>2, <2>3, <2>4, <2>5 DEF CallsOK, CallOK
  <2> QED
    BY <1>2, <1>3, <1>4, <2>2, <2>6
<1> QED
  BY <1>2, <1>3, <1>4, <1>5, <1>6

LEMMA PurgeKeeps ==
  ASSUME Typed, CallsOK, FilesInv, OwnedInv, NEW c \in Callers, Tables!Purge(c)
  PROVE  FilesInv'
<1>0. MadeInv /\ NamedInv /\ KeptInv
  BY DEF FilesInv
<1> DEFINE w == at[c].work
           S == at[c].listed
           gone == Tables!Purged(w, S)
           back == Tables!Returned(w, S)
<1>1. /\ at[c].pc = "purge" /\ at[c].op = "delete" /\ at[c].ids = {}
      /\ db'.artifacts = db.artifacts \ gone
      /\ disk' = disk /\ moved' = moved
      /\ raced' = raced \cup {r.id : r \in {q \in gone : Tables!Busy(q.id)}}
  BY DEF Tables!Purge, Tables!Is, Typed, CallsOK, CallOK
<1>2. /\ \A d \in Callers \ {c} : at'[d] = at[d]
      /\ at'[c].pc = "contexts" /\ at'[c].op = "delete" /\ at'[c].work = at[c].work
      /\ at'[c].ids = {r.id : r \in back}
  BY <1>1, PurgeMoves DEF Others
<1>3. gone \subseteq db.artifacts
  BY DEF Tables!Purged
<1>4. \A q \in back :
        /\ q \in db.artifacts /\ q \in gone
        /\ Made(q.id) /\ (q.id \in moved \/ at[q.id].work = at[c].work)
  BY <1>0, <1>1, ReturnedOwned
<1>5. \A q \in gone \ back : q.id \in moved
  <2>1. ASSUME NEW q \in gone \ back PROVE q.id \in moved
    <3>1. q \in db.artifacts /\ q.session \notin S /\ q.request \in S
      BY DEF Tables!Purged, Tables!Returned
    <3> QED
      BY <1>0, <3>1 DEF MadeInv
  <2> QED
    BY <2>1
<1> HIDE DEF gone, back
<1>6. /\ \A r \in db.artifacts : r.id \in Callers
      /\ \A d \in Callers : at[d].ids \subseteq Callers
  BY RowIds
<1>7. ASSUME NEW i \in Callers, Made(i)
      PROVE  i # c /\ Made(i)' /\ at'[i] = at[i]
  BY <1>1, <1>2, <1>7 DEF Made
<1>8. \A i \in at'[c].ids : \E q \in back : q.id = i
  BY <1>2
<1>9. \A d \in Callers \ {c} : \A i \in Callers : Handles(d, i)' <=> Handles(d, i)
  BY <1>2 DEF Handles
<1>10. MadeInv'
  <2>1. \A r \in db'.artifacts :
          /\ Made(r.id)'
          /\ r.request = at'[r.id].session
          /\ r.session = r.request \/ r.id \in moved
          /\ r.work \in {None, at'[r.id].work} \/ r.id \in moved
    BY <1>0, <1>1, <1>6, <1>7 DEF MadeInv
  <2>2. ASSUME NEW d \in Callers, NEW i \in at'[d].ids
        PROVE  Made(i)' \/ (i = d /\ at'[d].pc = "filing")
    <3>1. CASE d = c
      BY <1>4, <1>6, <1>7, <1>8, <2>2, <3>1
    <3>2. CASE d # c
      BY <1>0, <1>2, <1>6, <1>7, <2>2, <3>2 DEF MadeInv
    <3> QED
      BY <3>1, <3>2
  <2>3. ASSUME NEW d \in Callers, at'[d].op = "delete", NEW i \in at'[d].ids
        PROVE  /\ \A r \in db'.artifacts : r.id # i
               /\ i \in moved \/ at'[i].work = at'[d].work
    <3>1. CASE d = c
      <4>1. PICK q \in back : q.id = i
        BY <1>8, <2>3, <3>1
      <4>2. \A r \in db'.artifacts : r.id # i
        BY <1>0, <1>1, <1>4, <4>1 DEF MadeInv
      <4>3. at'[i] = at[i]
        BY <1>4, <1>6, <1>7, <4>1
      <4> QED
        BY <1>2, <1>4, <3>1, <4>1, <4>2, <4>3
    <3>2. CASE d # c
      <4>1. at'[d] = at[d] /\ i \in Callers
        BY <1>2, <1>6, <2>3, <3>2
      <4>2. /\ \A r \in db.artifacts : r.id # i
            /\ i \in moved \/ at[i].work = at[d].work
        BY <1>0, <2>3, <4>1 DEF MadeInv
      <4>3. at'[i].work = at[i].work
        BY <1>2, <4>1
      <4> QED
        BY <1>1, <4>1, <4>2, <4>3
    <3> QED
      BY <3>1, <3>2
  <2>4. ASSUME NEW i \in Callers \ raced', NEW d \in Callers, d # c, Handles(c, i)'
        PROVE  ~Handles(d, i)'
    <3>1. i \in at'[c].ids
      BY <2>4 DEF Handles
    <3>2. PICK q \in back : q.id = i
      BY <1>8, <3>1
    <3>3. ~Tables!Busy(i)
      BY <1>1, <1>4, <2>4, <3>2
    <3>4. ~(i \in at[d].ids /\ at[d].pc \in Tooling)
      BY <3>3 DEF Tables!Busy, Tables!ToolSteps, Tooling
    <3>5. ~(i \in at[d].ids /\ at[d].op = "delete")
      BY <1>0, <1>4, <3>2 DEF MadeInv
    <3> QED
      BY <1>9, <2>4, <3>4, <3>5 DEF Handles
  <2>5. ASSUME NEW i \in Callers \ raced', NEW d \in Callers, NEW e \in Callers,
               Handles(d, i)', Handles(e, i)'
        PROVE  d = e
    <3>1. CASE d # c /\ e # c
      BY <1>0, <1>1, <1>9, <2>5, <3>1 DEF MadeInv
    <3>2. CASE d = c \/ e = c
      BY <2>4, <2>5, <3>2
    <3> QED
      BY <3>1, <3>2
  <2>6. \A r, q \in db'.artifacts : r.id = q.id => r = q
    BY <1>0, <1>1 DEF MadeInv
  <2> QED
    BY <1>1, <2>1, <2>2, <2>3, <2>5, <2>6 DEF MadeInv, Made, Handles
<1>11. NamedInv'
  <2>1. \A d \in Callers : at'[d].pc = "filing" => <<d, at'[d].name>> \in disk.files
    BY <1>0, <1>2 DEF NamedInv
  <2>2. ASSUME NEW r \in db'.artifacts, r.id \notin raced', \A d \in Callers : ~Handles(d, r.id)'
        PROVE  <<r.id, r.name>> \in disk.files
    <3>1. r \in db.artifacts /\ r.id \notin raced
      BY <1>1, <2>2
    <3>2. ASSUME NEW d \in Callers PROVE ~Handles(d, r.id)
      BY <1>1, <1>6, <1>9, <2>2, <3>1 DEF Handles
    <3> QED
      BY <1>0, <3>1, <3>2 DEF NamedInv
  <2>3. ASSUME NEW r \in db'.artifacts, r.id \notin raced', NEW d \in Callers,
               at'[d].pc = "refiling", r.id \in at'[d].ids
        PROVE  <<r.id, at'[d].name>> \in disk.files
    BY <1>0, <1>1, <1>2, <2>3 DEF NamedInv
  <2> QED
    BY <1>1, <2>1, <2>2, <2>3 DEF NamedInv, Handles
<1>12. KeptInv'
  <2>1. ASSUME NEW f \in disk.files
        PROVE  \/ f[1] \in raced' \cup moved'
               \/ \E r \in db'.artifacts : r.id = f[1]
               \/ at'[f[1]].pc = "filing"
               \/ \E d \in Callers : at'[d].pc \in {"contexts", "dropping"} /\ f[1] \in at'[d].ids
    <3>1. at[f[1]].pc = "filing" => at'[f[1]].pc = "filing"
      BY <1>1, <1>2, RowIds
    <3>2. \A d \in Callers : at[d].pc \in {"contexts", "dropping"} => at'[d] = at[d]
      BY <1>1, <1>2
    <3>3. ASSUME NEW r \in db.artifacts, r.id = f[1], r \in gone
          PROVE  f[1] \in moved \/ f[1] \in at'[c].ids
      BY <1>2, <1>5, <3>3
    <3> QED
      BY <1>0, <1>1, <1>2, <3>1, <3>2, <3>3 DEF KeptInv
  <2>2. ASSUME NEW d \in Callers, NEW i \in at'[d].ids \ raced'
        PROVE  /\ at'[d].pc = "unfiling" => \A f \in disk.files : f[1] # i
               /\ at'[d].pc \in Tooling \ {"filing"} => \E r \in db'.artifacts : r.id = i
    <3>1. CASE d = c
      BY <1>2, <3>1 DEF Tooling
    <3>2. CASE d # c
      <4>1. at'[d] = at[d] /\ i \in at[d].ids \ raced
        BY <1>1, <1>2, <2>2, <3>2
      <4>2. ASSUME at[d].pc \in Tooling \ {"filing"} PROVE \E r \in db'.artifacts : r.id = i
        <5>1. PICK r \in db.artifacts : r.id = i
          BY <1>0, <4>1, <4>2 DEF KeptInv
        <5>2. Tables!Busy(i)
          BY <4>1, <4>2 DEF Tables!Busy, Tables!ToolSteps, Tooling
        <5>3. r \notin gone
          BY <1>1, <2>2, <5>1, <5>2
        <5> QED
          BY <1>1, <5>1, <5>3
      <4> QED
        BY <1>0, <4>1, <4>2 DEF KeptInv
    <3> QED
      BY <3>1, <3>2
  <2> QED
    BY <1>1, <2>1, <2>2 DEF KeptInv
<1> QED
  BY <1>10, <1>11, <1>12 DEF FilesInv

LEMMA WriteNewKeeps ==
  ASSUME Typed, CallsOK, FilesInv, NEW c \in Callers, NEW n \in Names, Tables!WriteNew(c, n)
  PROVE  FilesInv'
<1>1. Others(c) /\ Uses(c, "filing", c, n)
  BY UseTakes DEF Tables!WriteNew, Steps, Tooling
<1>2. /\ db'.artifacts = db.artifacts /\ moved' = moved
      /\ disk'.files = disk.files \cup {<<c, n>>}
  BY DEF Tables!WriteNew, Typed
<1>3. /\ disk.files \subseteq disk'.files /\ <<c, n>> \in disk'.files
      /\ \A f \in disk'.files : f \in disk.files \/ f[1] = c
  BY <1>2
<1> QED
  BY <1>1, <1>2, <1>3, UseKeeps DEF Tooling

LEMMA ReviseKeeps ==
  ASSUME Typed, CallsOK, FilesInv, NEW c \in Callers, NEW r \in db.artifacts, NEW n \in Names,
         Tables!Revise(c, r, n)
  PROVE  FilesInv'
<1>1. r.id \in Callers /\ r.name \in Names
  BY DEF Typed, Tables!Artifact
<1>2. Others(c) /\ Uses(c, "revising", r.id, n)
  BY <1>1, UseTakes DEF Tables!Revise, Steps, Tooling
<1>3. db'.artifacts = db.artifacts /\ moved' = moved /\ disk'.files = disk.files
  BY DEF Tables!Revise
<1> QED
  BY <1>1, <1>2, <1>3, UseKeeps DEF Tooling

LEMMA ScrapKeeps ==
  ASSUME Typed, CallsOK, FilesInv, NEW c \in Callers, NEW r \in db.artifacts,
         Tables!Scrap(c, r)
  PROVE  FilesInv'
<1>1. r.id \in Callers /\ r.name \in Names
  BY DEF Typed, Tables!Artifact
<1>2. Others(c) /\ Uses(c, "scrapping", r.id, None)
  BY <1>1, UseTakes DEF Tables!Scrap, Steps, Tooling
<1>3. db'.artifacts = db.artifacts /\ moved' = moved /\ disk'.files = disk.files
  BY DEF Tables!Scrap
<1> QED
  BY <1>1, <1>2, <1>3, UseKeeps DEF Tooling

LEMMA EveryCallFiles ==
  ASSUME Typed, CallsOK, FilesInv, OwnedInv, NEW c \in Callers, CallStep(c)
  PROVE  FilesInv'
<1>1. ASSUME Calm(c) PROVE FilesInv'
  BY <1>1, CalmKeeps
<1>2. ASSUME NEW w \in Works,
             Tables!Create(c, w) \/ Tables!Message(c, w) \/ Tables!Delete(c, w)
      PROVE  FilesInv'
  BY <1>1, <1>2, CreateCalm, MessageCalm, DeleteCalm
<1>3. ASSUME NEW a \in Members,
             Tables!Lookup(c, a) \/ Tables!Miss(c, a) \/ Tables!Summon(c, a)
      PROVE  FilesInv'
  BY <1>1, <1>3, LookupCalm, MissCalm, SummonCalm
<1>4. ASSUME NEW s \in Sessions,
             Tables!Insert(c, s) \/ Tables!Clash(c, s) \/ Tables!DropContext(c, s)
      PROVE  FilesInv'
  BY <1>1, <1>4, InsertCalm, ClashCalm, DropContextCalm
<1>5. ASSUME NEW ok \in BOOLEAN, Tables!ClearSandbox(c, ok) \/ Tables!EndTurn(c, ok)
      PROVE  FilesInv'
  BY <1>1, <1>5, ClearSandboxCalm, EndTurnCalm
<1>6. ASSUME Tables!Converse(c) \/ Tables!Ensured(c) \/ Tables!Record(c) \/ Tables!UseSandbox(c)
      PROVE  FilesInv'
  BY <1>1, <1>6, ConverseCalm, EnsuredCalm, RecordCalm, UseSandboxCalm
<1>7. ASSUME NEW r \in db.artifacts,
             Tables!Scrap(c, r) \/ \E n \in Names : Tables!Revise(c, r, n)
      PROVE  FilesInv'
  BY <1>7, ScrapKeeps, ReviseKeeps
<1> QED
  BY <1>2, <1>3, <1>4, <1>5, <1>6, <1>7, WriteNewKeeps, FileNewKeeps, RewriteKeeps,
     RefileKeeps, RemoveDirectoryKeeps, UnfileKeeps, PurgeKeeps, DropFilesKeeps
     DEF CallStep

-----------------------------------------------------------------------------
(* Tables: sessions, and deletions that nothing runs across *)

\* A step of a call in a work that leaves what other works have.
Within(c) ==
    /\ Others(c)
    /\ at[c].pc \notin {"idle", "done"} /\ at[c].op # "delete"
    /\ at'[c].op = at[c].op /\ at'[c].work = at[c].work
    /\ owner' = owner /\ crossed' = crossed
    /\ db'.works = db.works /\ db'.mapping = db.mapping
    /\ \A s \in Sessions : owner[s] # at[c].work =>
          /\ s \in db'.chats \cup db'.records => s \in db.chats \cup db.records
          /\ s \in db'.contexts => s \in db.contexts
          /\ \A r \in db'.artifacts : r.session = s => \E q \in db.artifacts : q.session = s
    /\ \A v \in Works \ {at[c].work} :
          /\ v \in db'.notices => v \in db.notices
          /\ v \in disk'.sandboxes \ disk'.kept => v \in disk.sandboxes \ disk.kept
          /\ \A r \in db'.artifacts : r.work = v => \E q \in db.artifacts : q.work = v

LEMMA WithinKeeps ==
  ASSUME Typed, CallsOK, OwnedInv, DeletionInv, NEW c \in Callers, Within(c)
  PROVE  OwnedInv' /\ DeletionInv'
<1>1. OwnedInv'
  BY DEF OwnedInv, Within, Others
<1>2. \A v \in Works : Owned(v)' = Owned(v)
  BY DEF Owned, Within
<1>3. \A d \in Callers, v \in Works :
        /\ Deletes(d, v)' <=> Deletes(d, v)
        /\ Past(d, v)' <=> Past(d, v)
        /\ Deletes(d, v) => d # c /\ at'[d] = at[d]
  BY DEF Deletes, Past, Within, Others
<1>4. ASSUME NEW v \in Works \ crossed, NEW d \in Callers, Deletes(d, v) PROVE at[c].work # v
  BY <1>4 DEF DeletionInv, Within
<1>5. ASSUME NEW v \in Works \ crossed', \A d \in Callers : ~Past(d, v)', NEW s \in Owned(v)'
      PROVE  \E r \in db'.mapping : r.work = v /\ r.session = s
  BY <1>2, <1>3, <1>5 DEF DeletionInv, Within
<1>6. ASSUME NEW v \in Works \ crossed', NEW d \in Callers, Deletes(d, v)'
      PROVE  /\ \A e \in Callers : at'[e].work = v => at'[e].op = "delete" \/ at'[e].pc = "done"
             /\ at'[d].pc = "purge" => Owned(v)' \subseteq at'[d].listed
             /\ Owned(v)' \cap db'.contexts \subseteq at'[d].listed \/ at'[d].pc = "purge"
             /\ at'[d].pc \in {"dropping", "done"} =>
                   at'[d].listed = {} /\ v \notin disk'.sandboxes \ disk'.kept
  <2>1. v \in Works \ crossed /\ Deletes(d, v) /\ at'[d] = at[d] /\ Owned(v)' = Owned(v)
    BY <1>2, <1>3, <1>6 DEF Within
  <2>2. at[c].work # v
    BY <1>4, <2>1
  <2>3. \A s \in Owned(v) : s \in db'.contexts => s \in db.contexts
    BY <2>2 DEF Owned, Within
  <2>4. v \in disk'.sandboxes \ disk'.kept => v \in disk.sandboxes \ disk.kept
    BY <2>1, <2>2 DEF Within
  <2>5. \A e \in Callers : at'[e].work = v => at'[e] = at[e]
    BY <2>2 DEF Within, Others
  <2> QED
    BY <2>1, <2>3, <2>4, <2>5 DEF DeletionInv
<1>7. ASSUME NEW v \in Works \ crossed', NEW d \in Callers, Past(d, v)'
      PROVE  /\ v \notin db'.works \cup db'.notices
             /\ \A r \in db'.mapping : r.work # v
             /\ Owned(v)' \cap (db'.chats \cup db'.records) = {}
             /\ \A r \in db'.artifacts : r.session \notin Owned(v)' /\ r.work # v
  <2>1. v \in Works \ crossed /\ Past(d, v) /\ Deletes(d, v) /\ Owned(v)' = Owned(v)
    BY <1>2, <1>3, <1>7 DEF Within, Past
  <2>2. at[c].work # v
    BY <1>4, <2>1
  <2>3. /\ v \notin db.works \cup db.notices
        /\ \A r \in db.mapping : r.work # v
        /\ Owned(v) \cap (db.chats \cup db.records) = {}
        /\ \A r \in db.artifacts : r.session \notin Owned(v) /\ r.work # v
    BY <2>1 DEF DeletionInv
  <2>4. \A s \in Owned(v) : s \in Sessions /\ owner[s] # at[c].work
    BY <2>2 DEF Owned
  <2>5. Owned(v) \cap (db'.chats \cup db'.records) = {}
    BY <2>3, <2>4 DEF Within
  <2>6. \A r \in db'.artifacts : r.session \notin Owned(v) /\ r.work # v
    BY <2>1, <2>2, <2>3, <2>4 DEF Within
  <2> QED
    BY <2>1, <2>2, <2>3, <2>5, <2>6 DEF Within
<1>8. DeletionInv'
  BY <1>5, <1>6, <1>7 DEF DeletionInv, Deletes, Past, Owned
<1> QED
  BY <1>1, <1>8

\* A call in a work moves, and writes no rows.
LEMMA QuietWithin ==
  ASSUME NEW c \in Callers, Others(c), at[c].pc \notin {"idle", "done"}, at[c].op # "delete",
         at'[c].op = at[c].op, at'[c].work = at[c].work,
         owner' = owner, crossed' = crossed, db' = db,
         disk'.sandboxes = disk.sandboxes, disk'.kept = disk.kept
  PROVE  Within(c)
BY DEF Within

LEMMA EnsuringWithin ==
  ASSUME Typed, CallsOK, NEW c \in Callers,
         \/ \E a \in Members : Tables!Lookup(c, a) \/ Tables!Miss(c, a) \/ Tables!Summon(c, a)
         \/ \E s \in Sessions : Tables!Clash(c, s)
         \/ Tables!Ensured(c)
  PROVE  Within(c)
<1>1. /\ db' = db /\ disk' = disk /\ owner' = owner /\ crossed' = crossed
      /\ at[c].pc \in {"ensure", "insert", "turn"}
  BY DEF Tables!Lookup, Tables!Miss, Tables!Summon, Tables!Clash, Tables!Ensured, Tables!Is
<1>2. at[c].op # "delete"
  BY <1>1 DEF CallsOK, CallOK
<1>3. ASSUME NEW step \in Steps, Tables!Step(c, step)
      PROVE  Others(c) /\ at'[c].op = at[c].op /\ at'[c].work = at[c].work
  BY <1>3, StepGoes DEF Goes
<1>4. Others(c) /\ at'[c].op = at[c].op /\ at'[c].work = at[c].work
  <2>1. ASSUME NEW s \in Sessions, Tables!Clash(c, s)
        PROVE  Others(c) /\ at'[c].op = at[c].op /\ at'[c].work = at[c].work
    BY <1>3, <2>1 DEF Tables!Clash, Steps, Resting
  <2>2. ASSUME Tables!Ensured(c)
        PROVE  Others(c) /\ at'[c].op = at[c].op /\ at'[c].work = at[c].work
    BY <1>3, <2>2 DEF Tables!Ensured, Steps, Resting
  <2> QED
    BY <2>1, <2>2, LookupMoves, MissMoves, SummonMoves
<1> QED
  BY <1>1, <1>2, <1>4, QuietWithin

LEMMA ToolingWithin ==
  ASSUME Typed, CallsOK, NEW c \in Callers,
         \/ \E n \in Names : Tables!WriteNew(c, n)
         \/ \E r \in db.artifacts : Tables!Scrap(c, r) \/ \E n \in Names : Tables!Revise(c, r, n)
         \/ Tables!Rewrite(c) \/ Tables!RemoveDirectory(c)
  PROVE  Within(c)
<1>1. /\ db' = db /\ owner' = owner /\ crossed' = crossed
      /\ disk'.sandboxes = disk.sandboxes /\ disk'.kept = disk.kept
      /\ at[c].pc \in {"turn", "revising", "scrapping"}
  BY DEF Typed, Tables!WriteNew, Tables!Scrap, Tables!Revise, Tables!Rewrite,
         Tables!RemoveDirectory, Tables!Use, Tables!Is
<1>2. at[c].op # "delete"
  BY <1>1 DEF CallsOK, CallOK
<1>3. Others(c) /\ at'[c].op = at[c].op /\ at'[c].work = at[c].work
  <2>1. ASSUME NEW step \in {"refiling", "unfiling"}, Tables!Step(c, step)
        PROVE  Others(c) /\ at'[c].op = at[c].op /\ at'[c].work = at[c].work
    BY <2>1, StepGoes DEF Goes, Steps, Tooling
  <2>2. ASSUME NEW step \in Tooling, NEW id \in Callers, NEW name \in Names \cup {None},
               NEW old \in Names \cup {None}, Tables!Use(c, step, id, name, old)
        PROVE  Others(c) /\ at'[c].op = at[c].op /\ at'[c].work = at[c].work
    BY <2>2, UseTakes DEF Uses, Steps
  <2>3. \A r \in db.artifacts : r.id \in Callers /\ r.name \in Names
    BY DEF Typed, Tables!Artifact
  <2> QED
    BY <2>1, <2>2, <2>3 DEF Tooling, Tables!WriteNew, Tables!Scrap, Tables!Revise,
       Tables!Rewrite, Tables!RemoveDirectory
<1> QED
  BY <1>1, <1>2, <1>3, QuietWithin

\* What a turn writes it writes for its session: the classic chat's, or one of its work.
LEMMA TurnOwns ==
  ASSUME Typed, CallsOK, NEW c \in Callers, at[c].pc \in Tooling \cup {"turn", "open"},
         NEW s \in Sessions, s = at[c].session
  PROVE  owner[s] = at[c].work
BY TurnHasSession, TablesAssumed

LEMMA TurnWithin ==
  ASSUME Typed, CallsOK, NEW c \in Callers, at[c].pc \in Tooling \cup {"turn", "open"},
         NEW step \in {"turn", "done"}, Tables!Step(c, step),
         owner' = owner, crossed' = crossed, db'.works = db.works, db'.mapping = db.mapping,
         disk' = disk,
         db'.chats \cup db'.records \subseteq db.chats \cup db.records \cup {at[c].session},
         db'.contexts \subseteq db.contexts \cup {at[c].session},
         db'.notices \subseteq db.notices \cup {at[c].work},
         \A r \in db'.artifacts :
            /\ r.session # at[c].session => \E q \in db.artifacts : q.session = r.session
            /\ r.work \notin {None, at[c].work} => \E q \in db.artifacts : q.work = r.work
  PROVE  Within(c)
<1>1. Others(c) /\ at'[c].op = at[c].op /\ at'[c].work = at[c].work
  BY StepGoes DEF Goes, Steps, Resting
<1>2. at[c].pc \notin {"idle", "done"} /\ at[c].op # "delete"
  BY DEF CallsOK, CallOK, Tooling
<1>3. ASSUME NEW s \in Sessions, owner[s] # at[c].work
      PROVE  /\ s \in db'.chats \cup db'.records => s \in db.chats \cup db.records
             /\ s \in db'.contexts => s \in db.contexts
             /\ \A r \in db'.artifacts : r.session = s => \E q \in db.artifacts : q.session = s
  <2>1. s # at[c].session
    BY <1>3, TurnOwns
  <2> QED
    BY <2>1
<1>4. ASSUME NEW v \in Works \ {at[c].work}
      PROVE  /\ v \in db'.notices => v \in db.notices
             /\ v \in disk'.sandboxes \ disk'.kept => v \in disk.sandboxes \ disk.kept
             /\ \A r \in db'.artifacts : r.work = v => \E q \in db.artifacts : q.work = v
  BY TablesAssumed
<1> QED
  BY <1>1, <1>2, <1>3, <1>4 DEF Within

LEMMA TurnStepsWithin ==
  ASSUME Typed, CallsOK, NEW c \in Callers,
         \/ Tables!Record(c)
         \/ \E ok \in BOOLEAN : Tables!EndTurn(c, ok)
         \/ \E k \in Works \cup {None} : Tables!FileNew(c, k)
         \/ \E passed \in SUBSET {"session", "work"} : Tables!Refile(c, passed)
         \/ Tables!Unfile(c)
  PROVE  Within(c)
<1>1. ASSUME Tables!Record(c) PROVE Within(c)
  <2>1. at[c].pc = "open" /\ Tables!Step(c, "turn")
    BY <1>1 DEF Tables!Record, Tables!Is
  <2>2. /\ owner' = owner /\ crossed' = crossed /\ disk' = disk
        /\ db'.works = db.works /\ db'.mapping = db.mapping /\ db'.contexts = db.contexts
        /\ db'.notices = db.notices /\ db'.artifacts = db.artifacts
        /\ db'.chats = db.chats \cup {at[c].session}
        /\ db'.records = db.records \cup {at[c].session}
    BY <1>1 DEF Typed, Tables!Record
  <2> QED
    BY <2>1, <2>2, TurnWithin
<1>2. ASSUME NEW ok \in BOOLEAN, Tables!EndTurn(c, ok) PROVE Within(c)
  <2>1. at[c].pc = "turn" /\ Tables!Step(c, "done")
    BY <1>2 DEF Tables!EndTurn, Tables!Is
  <2>2. /\ owner' = owner /\ crossed' = crossed /\ disk' = disk
        /\ db'.works = db.works /\ db'.mapping = db.mapping
        /\ db'.contexts \subseteq db.contexts \cup {at[c].session}
        /\ db'.notices \subseteq db.notices \cup {at[c].work}
        /\ db'.artifacts = db.artifacts
        /\ db'.chats \cup db'.records \subseteq db.chats \cup db.records \cup {at[c].session}
    <3>1. CASE ok
      <4>1. /\ db'.works = db.works /\ db'.mapping = db.mapping
            /\ db'.contexts = db.contexts \cup {at[c].session}
            /\ db'.notices = db.notices \cup ({at[c].work} \ {None})
            /\ db'.artifacts = db.artifacts
            /\ db'.chats = db.chats \cup {at[c].session}
            /\ db'.records = db.records \cup {at[c].session}
        BY <1>2, <3>1 DEF Typed, Tables!EndTurn
      <4> QED
        BY <1>2, <4>1 DEF Tables!EndTurn
    <3>2. CASE ~ok
      BY <1>2, <3>2 DEF Tables!EndTurn
    <3> QED
      BY <3>1, <3>2
  <2> QED
    BY <2>1, <2>2, TurnWithin
<1>3. ASSUME NEW k \in Works \cup {None}, Tables!FileNew(c, k) PROVE Within(c)
  <2> DEFINE row == [id |-> c, session |-> at[c].session, request |-> at[c].session,
                     work |-> k, name |-> at[c].name]
  <2>1. at[c].pc = "filing" /\ Tables!Step(c, "turn") /\ k \in {None, at[c].work}
    BY <1>3 DEF Tables!FileNew, Tables!Is
  <2>2. /\ owner' = owner /\ crossed' = crossed /\ disk' = disk
        /\ db'.works = db.works /\ db'.mapping = db.mapping /\ db'.contexts = db.contexts
        /\ db'.notices = db.notices /\ db'.chats = db.chats /\ db'.records = db.records
        /\ db'.artifacts = db.artifacts \cup {row}
    BY <1>3 DEF Typed, Tables!FileNew
  <2>3. row.session = at[c].session /\ row.work \in {None, at[c].work}
    BY <2>1
  <2> HIDE DEF row
  <2>4. \A r \in db'.artifacts :
           /\ r.session # at[c].session => \E q \in db.artifacts : q.session = r.session
           /\ r.work \notin {None, at[c].work} => \E q \in db.artifacts : q.work = r.work
    BY <2>2, <2>3
  <2> QED
    BY <2>1, <2>2, <2>4, TurnWithin DEF Tooling
<1>4. ASSUME NEW passed \in SUBSET {"session", "work"}, Tables!Refile(c, passed) PROVE Within(c)
  <2> DEFINE rows == {r \in db.artifacts : r.id \in at[c].ids}
             new == {Tables!Revised(c, passed, r) : r \in rows}
  <2>1. at[c].pc = "refiling" /\ Tables!Step(c, "turn")
    BY <1>4 DEF Tables!Refile, Tables!Is
  <2>2. \A r \in new : \E q \in db.artifacts : /\ r.session \in {at[c].session, q.session}
                                               /\ r.work \in {at[c].work, q.work}
    <3> SUFFICES ASSUME NEW q \in rows
                 PROVE  LET r == Tables!Revised(c, passed, q)
                        IN  /\ r.session \in {at[c].session, q.session}
                            /\ r.work \in {at[c].work, q.work}
      OBVIOUS
    <3>1. q \in Tables!Artifact
      BY DEF Typed
    <3> QED
      BY <3>1 DEF Tables!Artifact, Tables!Revised
  <2>3. /\ owner' = owner /\ crossed' = crossed /\ disk' = disk
        /\ db' = [db EXCEPT !.artifacts = (@ \ rows) \cup new]
    BY <1>4 DEF Tables!Refile
  <2> HIDE DEF rows, new
  <2>4. /\ db'.works = db.works /\ db'.mapping = db.mapping /\ db'.contexts = db.contexts
        /\ db'.notices = db.notices /\ db'.chats = db.chats /\ db'.records = db.records
        /\ db'.artifacts = (db.artifacts \ rows) \cup new
    BY <2>3 DEF Typed
  <2>5. \A r \in db'.artifacts :
           /\ r.session # at[c].session => \E q \in db.artifacts : q.session = r.session
           /\ r.work \notin {None, at[c].work} => \E q \in db.artifacts : q.work = r.work
    BY <2>2, <2>4
  <2> QED
    BY <2>1, <2>3, <2>4, <2>5, TurnWithin DEF Tooling
<1>5. ASSUME Tables!Unfile(c) PROVE Within(c)
  <2>1. at[c].pc = "unfiling" /\ Tables!Step(c, "turn")
    BY <1>5 DEF Tables!Unfile, Tables!Is
  <2>2. /\ owner' = owner /\ crossed' = crossed /\ disk' = disk
        /\ db'.works = db.works /\ db'.mapping = db.mapping /\ db'.contexts = db.contexts
        /\ db'.notices = db.notices /\ db'.chats = db.chats /\ db'.records = db.records
        /\ db'.artifacts \subseteq db.artifacts
    BY <1>5 DEF Typed, Tables!Unfile
  <2> QED
    BY <2>1, <2>2, TurnWithin DEF Tooling
<1> QED
  BY <1>1, <1>2, <1>3, <1>4, <1>5

LEMMA UseSandboxWithin ==
  ASSUME Typed, CallsOK, NEW c \in Callers, Tables!UseSandbox(c)
  PROVE  Within(c)
<1>1. /\ at[c].pc = "turn" /\ at' = at /\ db' = db /\ owner' = owner /\ crossed' = crossed
      /\ disk'.sandboxes = disk.sandboxes \cup {at[c].work} /\ disk'.kept = disk.kept
  BY DEF Typed, Tables!UseSandbox, Tables!Is
<1>2. at[c].op # "delete"
  BY <1>1 DEF CallsOK, CallOK
<1> QED
  BY <1>1, <1>2 DEF Within, Others

\* A new session is its work's, and no deletion of the work is under way or done.
LEMMA InsertKeeps ==
  ASSUME Typed, CallsOK, OwnedInv, DeletionInv, NEW c \in Callers, NEW s \in Sessions,
         Tables!Insert(c, s)
  PROVE  OwnedInv' /\ DeletionInv'
<1> DEFINE row == [work |-> at[c].work, member |-> at[c].name, session |-> s]
           w == at[c].work
<1>1. /\ at[c].pc = "insert" /\ owner[s] = None
      /\ db'.mapping = db.mapping \cup {row} /\ db'.chats = db.chats \cup {s}
      /\ db'.works = db.works /\ db'.records = db.records /\ db'.contexts = db.contexts
      /\ db'.artifacts = db.artifacts /\ db'.notices = db.notices
      /\ owner' = [owner EXCEPT ![s] = w]
      /\ disk' = disk /\ crossed' = crossed
  BY DEF Typed, Tables!Insert, Tables!Row, Tables!Is
<1>2. w \in Works /\ at[c].op # "delete"
  BY <1>1 DEF Typed, Place, CallsOK, CallOK
<1>3. /\ \A d \in Callers \ {c} : at'[d] = at[d]
      /\ at'[c].op = at[c].op /\ at'[c].work = w /\ at'[c].pc = "ensure"
  BY InsertMoves DEF Others
<1>4. owner'[s] = w /\ \A t \in Sessions \ {s} : owner'[t] = owner[t]
  BY <1>1 DEF Typed
<1>5. row.work = w /\ row.session = s
  OBVIOUS
<1> HIDE DEF row
<1>6. \A r \in db.mapping : r.session \in Sessions \ {s} /\ r.work \in Works
  BY <1>1, TablesAssumed DEF OwnedInv, Typed
<1>7. OwnedInv'
  <2>1. \A r \in db'.mapping : owner'[r.session] = r.work
    BY <1>1, <1>4, <1>5, <1>6 DEF OwnedInv
  <2>2. ASSUME NEW d \in Callers, at'[d].op = "delete", NEW t \in at'[d].listed
        PROVE  owner'[t] = at'[d].work
    <3>1. d # c /\ at'[d] = at[d]
      BY <1>2, <1>3, <2>2
    <3>2. t \in Sessions /\ owner[t] = at[d].work /\ at[d].work \in Works
      BY <2>2, <3>1 DEF OwnedInv, Typed, Place, CallsOK, CallOK, Tables!Idle
    <3> QED
      BY <1>1, <1>4, <3>1, <3>2, TablesAssumed
  <2> QED
    BY <2>1, <2>2 DEF OwnedInv
<1>8. \A d \in Callers, v \in Works :
        /\ Deletes(d, v)' <=> Deletes(d, v)
        /\ Past(d, v)' <=> Past(d, v)
        /\ Deletes(d, v) => d # c /\ at'[d] = at[d]
  BY <1>2, <1>3 DEF Deletes, Past
<1>9. ASSUME NEW v \in Works \ crossed, NEW d \in Callers, Deletes(d, v) PROVE v # w
  BY <1>1, <1>2, <1>9 DEF DeletionInv
<1>10. \A v \in Works \ {w} : Owned(v)' = Owned(v) /\ s \notin Owned(v)
  BY <1>1, <1>4, TablesAssumed DEF Owned
<1>11. ASSUME NEW v \in Works \ crossed', \A d \in Callers : ~Past(d, v)', NEW t \in Owned(v)'
      PROVE  \E r \in db'.mapping : r.work = v /\ r.session = t
  <2>1. CASE t = s
    BY <1>1, <1>4, <1>5, <1>11, <2>1 DEF Owned
  <2>2. CASE t # s
    <3>1. t \in Owned(v)
      BY <1>4, <1>11, <2>2 DEF Owned
    <3> QED
      BY <1>1, <1>8, <1>11, <3>1 DEF DeletionInv
  <2> QED
    BY <2>1, <2>2
<1>12. ASSUME NEW v \in Works \ crossed', NEW d \in Callers, Deletes(d, v)'
      PROVE  /\ \A e \in Callers : at'[e].work = v => at'[e].op = "delete" \/ at'[e].pc = "done"
             /\ at'[d].pc = "purge" => Owned(v)' \subseteq at'[d].listed
             /\ Owned(v)' \cap db'.contexts \subseteq at'[d].listed \/ at'[d].pc = "purge"
             /\ at'[d].pc \in {"dropping", "done"} =>
                   at'[d].listed = {} /\ v \notin disk'.sandboxes \ disk'.kept
  <2>1. v \in Works \ crossed /\ Deletes(d, v) /\ at'[d] = at[d] /\ v # w
    BY <1>1, <1>8, <1>9, <1>12
  <2>2. Owned(v)' = Owned(v)
    BY <1>10, <2>1
  <2>3. \A e \in Callers : at'[e].work = v => at'[e] = at[e]
    BY <1>3, <2>1
  <2> QED
    BY <1>1, <2>1, <2>2, <2>3 DEF DeletionInv
<1>13. ASSUME NEW v \in Works \ crossed', NEW d \in Callers, Past(d, v)'
      PROVE  /\ v \notin db'.works \cup db'.notices
             /\ \A r \in db'.mapping : r.work # v
             /\ Owned(v)' \cap (db'.chats \cup db'.records) = {}
             /\ \A r \in db'.artifacts : r.session \notin Owned(v)' /\ r.work # v
  <2>1. v \in Works \ crossed /\ Past(d, v) /\ v # w
    BY <1>1, <1>8, <1>9, <1>13 DEF Past
  <2>2. Owned(v)' = Owned(v) /\ s \notin Owned(v)
    BY <1>10, <2>1
  <2> QED
    BY <1>1, <1>5, <2>1, <2>2 DEF DeletionInv
<1>14. DeletionInv'
  BY <1>11, <1>12, <1>13 DEF DeletionInv, Deletes, Past, Owned
<1> QED
  BY <1>7, <1>14

\* A call other than a deletion begins, in a work with no deletion under way or done.
LEMMA StartKeeps ==
  ASSUME Typed, CallsOK, OwnedInv, DeletionInv, NEW c \in Callers, Others(c),
         at[c].pc = "idle", at'[c].op # "delete",
         disk' = disk, owner' = owner, crossed \subseteq crossed',
         db'.mapping = db.mapping, db'.chats = db.chats, db'.records = db.records,
         db'.contexts = db.contexts, db'.artifacts = db.artifacts, db'.notices = db.notices,
         \A v \in Works \ crossed', d \in Callers : Deletes(d, v) =>
            v # at'[c].work /\ v \notin db'.works \ db.works
  PROVE  OwnedInv' /\ DeletionInv'
<1>1. OwnedInv'
  BY DEF OwnedInv, Others
<1>2. \A v \in Works : Owned(v)' = Owned(v)
  BY DEF Owned
<1>3. \A d \in Callers, v \in Works :
        /\ Deletes(d, v)' <=> Deletes(d, v)
        /\ Past(d, v)' <=> Past(d, v)
        /\ Deletes(d, v) => at'[d] = at[d]
  <2>1. at[c].work = None
    BY DEF CallsOK, CallOK, Tables!Idle
  <2> QED
    BY <2>1, TablesAssumed DEF Deletes, Past, Others
<1>4. ASSUME NEW v \in Works \ crossed', \A d \in Callers : ~Past(d, v)', NEW s \in Owned(v)'
      PROVE  \E r \in db'.mapping : r.work = v /\ r.session = s
  BY <1>2, <1>3, <1>4 DEF DeletionInv
<1>5. ASSUME NEW v \in Works \ crossed', NEW d \in Callers, Deletes(d, v)'
      PROVE  /\ \A e \in Callers : at'[e].work = v => at'[e].op = "delete" \/ at'[e].pc = "done"
             /\ at'[d].pc = "purge" => Owned(v)' \subseteq at'[d].listed
             /\ Owned(v)' \cap db'.contexts \subseteq at'[d].listed \/ at'[d].pc = "purge"
             /\ at'[d].pc \in {"dropping", "done"} =>
                   at'[d].listed = {} /\ v \notin disk'.sandboxes \ disk'.kept
  <2>1. /\ v \in Works \ crossed /\ Deletes(d, v) /\ at'[d] = at[d] /\ Owned(v)' = Owned(v)
        /\ v # at'[c].work
    BY <1>2, <1>3, <1>5
  <2>2. \A e \in Callers : at'[e].work = v => at'[e] = at[e]
    BY <2>1 DEF Others
  <2> QED
    BY <2>1, <2>2 DEF DeletionInv
<1>6. ASSUME NEW v \in Works \ crossed', NEW d \in Callers, Past(d, v)'
      PROVE  /\ v \notin db'.works \cup db'.notices
             /\ \A r \in db'.mapping : r.work # v
             /\ Owned(v)' \cap (db'.chats \cup db'.records) = {}
             /\ \A r \in db'.artifacts : r.session \notin Owned(v)' /\ r.work # v
  <2>1. /\ v \in Works \ crossed /\ Past(d, v) /\ Deletes(d, v) /\ Owned(v)' = Owned(v)
        /\ v \notin db'.works \ db.works
    BY <1>2, <1>3, <1>6 DEF Past
  <2> QED
    BY <2>1 DEF DeletionInv
<1>7. DeletionInv'
  BY <1>4, <1>5, <1>6 DEF DeletionInv, Deletes, Past, Owned
<1> QED
  BY <1>1, <1>7

LEMMA CreateKeeps ==
  ASSUME Typed, CallsOK, OwnedInv, DeletionInv, NEW c \in Callers, NEW w \in Works,
         Tables!Create(c, w)
  PROVE  OwnedInv' /\ DeletionInv'
<1>1. /\ at[c].pc = "idle" /\ \A d \in Callers : at[d].work # w
      /\ disk' = disk /\ owner' = owner /\ crossed' = crossed
      /\ db'.works = db.works \cup {w}
      /\ db'.mapping = db.mapping /\ db'.chats = db.chats /\ db'.records = db.records
      /\ db'.contexts = db.contexts /\ db'.artifacts = db.artifacts /\ db'.notices = db.notices
  BY DEF Typed, Tables!Create, Tables!Is
<1>2. Others(c) /\ at'[c].op = "create" /\ at'[c].work = w
  BY WorkSteps DEF Begins
<1>3. \A v \in Works \ crossed', d \in Callers : Deletes(d, v) =>
         v # at'[c].work /\ v \notin db'.works \ db.works
  BY <1>1, <1>2 DEF Deletes
<1> QED
  BY <1>1, <1>2, <1>3, StartKeeps

LEMMA MessageKeeps ==
  ASSUME Typed, CallsOK, OwnedInv, DeletionInv, NEW c \in Callers, NEW w \in Works,
         Tables!Message(c, w)
  PROVE  OwnedInv' /\ DeletionInv'
<1>1. /\ at[c].pc = "idle" /\ w \in db.works
      /\ disk' = disk /\ owner' = owner /\ db' = db
      /\ crossed' = IF Tables!Deleting(w) = {} THEN crossed ELSE crossed \cup {w}
  BY DEF Tables!Message, Tables!Is
<1>2. Others(c) /\ at'[c].op = "message" /\ at'[c].work = w
  BY WorkSteps DEF Begins
<1>3. ASSUME w \notin crossed', NEW d \in Callers PROVE ~Deletes(d, w)
  <2>1. d \notin Tables!Deleting(w) /\ w \notin crossed
    BY <1>1, <1>3
  <2>2. Deletes(d, w) => Past(d, w)
    BY <2>1 DEF Deletes, Past, Tables!Deleting, Tables!In, Tables!Is
  <2> QED
    BY <1>1, <2>1, <2>2 DEF DeletionInv
<1> QED
  BY <1>1, <1>2, <1>3, StartKeeps

LEMMA ConverseKeeps ==
  ASSUME Typed, CallsOK, OwnedInv, DeletionInv, NEW c \in Callers, Tables!Converse(c)
  PROVE  OwnedInv' /\ DeletionInv'
<1>1. /\ at[c].pc = "idle" /\ disk' = disk /\ owner' = owner /\ db' = db /\ crossed' = crossed
  BY DEF Tables!Converse, Tables!Is
<1>2. Others(c) /\ at'[c].op = "chat" /\ at'[c].work = None
  BY WorkSteps
<1> QED
  BY <1>1, <1>2, StartKeeps, TablesAssumed

LEMMA DeleteKeeps ==
  ASSUME Typed, CallsOK, OwnedInv, DeletionInv, NEW c \in Callers, NEW w \in Works,
         Tables!Delete(c, w)
  PROVE  OwnedInv' /\ DeletionInv'
<1> DEFINE listed == {r.session : r \in {q \in db.mapping : q.work = w}}
<1>1. /\ at[c].pc = "idle" /\ w \in db.works
      /\ disk' = disk /\ owner' = owner /\ db' = db
      /\ crossed' = IF Tables!In(w) = Tables!Deleting(w) THEN crossed ELSE crossed \cup {w}
  BY DEF Tables!Delete, Tables!Is
<1>2. /\ \A d \in Callers \ {c} : at'[d] = at[d]
      /\ at'[c].op = "delete" /\ at'[c].work = w /\ at'[c].pc = "purge"
      /\ at'[c].listed = listed
  BY WorkSteps DEF Begins, Others
<1>3. \A s \in listed : owner[s] = w
  BY DEF OwnedInv
<1>4. \A s : (\E r \in db.mapping : r.work = w /\ r.session = s) => s \in listed
  OBVIOUS
<1> HIDE DEF listed
<1>5. OwnedInv'
  BY <1>1, <1>2, <1>3 DEF OwnedInv
<1>6. \A v \in Works : Owned(v)' = Owned(v)
  BY <1>1 DEF Owned
<1>7. \A d \in Callers, v \in Works :
        /\ Past(d, v)' <=> Past(d, v)
        /\ d # c => (Deletes(d, v)' <=> Deletes(d, v))
        /\ Deletes(c, v)' <=> v = w
  BY <1>1, <1>2 DEF Deletes, Past
<1>8. ASSUME w \notin crossed', NEW d \in Callers
      PROVE  ~Past(d, w) /\ (at[d].work = w => at[d].op = "delete" \/ at[d].pc = "done")
  <2>1. w \notin crossed /\ Tables!In(w) = Tables!Deleting(w)
    BY <1>1, <1>8
  <2> QED
    BY <1>1, <2>1 DEF DeletionInv, Tables!In, Tables!Deleting, Tables!Is
<1>9. crossed \subseteq crossed'
  BY <1>1
<1>10. ASSUME NEW v \in Works \ crossed', \A d \in Callers : ~Past(d, v)', NEW s \in Owned(v)'
      PROVE  \E r \in db'.mapping : r.work = v /\ r.session = s
  BY <1>1, <1>6, <1>7, <1>9, <1>10 DEF DeletionInv
<1>11. ASSUME NEW v \in Works \ crossed', NEW d \in Callers, Deletes(d, v)'
      PROVE  /\ \A e \in Callers : at'[e].work = v => at'[e].op = "delete" \/ at'[e].pc = "done"
             /\ at'[d].pc = "purge" => Owned(v)' \subseteq at'[d].listed
             /\ Owned(v)' \cap db'.contexts \subseteq at'[d].listed \/ at'[d].pc = "purge"
             /\ at'[d].pc \in {"dropping", "done"} =>
                   at'[d].listed = {} /\ v \notin disk'.sandboxes \ disk'.kept
  <2>1. CASE v = w
    <3>1. w \notin crossed' /\ w \in Works \ crossed
      BY <1>9, <1>11, <2>1
    <3>2. Owned(w) \subseteq listed
      BY <1>4, <1>8, <3>1 DEF DeletionInv
    <3>3. \A e \in Callers : at'[e].work = v => at'[e].op = "delete" \/ at'[e].pc = "done"
      BY <1>2, <1>8, <2>1, <3>1
    <3>4. CASE d = c
      BY <1>2, <1>6, <2>1, <3>2, <3>3, <3>4
    <3>5. CASE d # c
      <4>1. Deletes(d, w) /\ at'[d] = at[d] /\ Owned(v)' = Owned(w)
        BY <1>2, <1>6, <1>7, <1>11, <2>1, <3>5
      <4> QED
        BY <1>1, <2>1, <3>1, <3>3, <4>1 DEF DeletionInv
    <3> QED
      BY <3>4, <3>5
  <2>2. CASE v # w
    <3>1. /\ v \in Works \ crossed /\ d # c /\ Deletes(d, v) /\ at'[d] = at[d]
          /\ Owned(v)' = Owned(v)
      BY <1>2, <1>6, <1>7, <1>9, <1>11, <2>2
    <3>2. \A e \in Callers : at'[e].work = v => at'[e] = at[e]
      BY <1>2, <2>2
    <3> QED
      BY <1>1, <3>1, <3>2 DEF DeletionInv
  <2> QED
    BY <2>1, <2>2
<1>12. ASSUME NEW v \in Works \ crossed', NEW d \in Callers, Past(d, v)'
      PROVE  /\ v \notin db'.works \cup db'.notices
             /\ \A r \in db'.mapping : r.work # v
             /\ Owned(v)' \cap (db'.chats \cup db'.records) = {}
             /\ \A r \in db'.artifacts : r.session \notin Owned(v)' /\ r.work # v
  BY <1>1, <1>6, <1>7, <1>9, <1>12 DEF DeletionInv
<1>13. DeletionInv'
  BY <1>10, <1>11, <1>12 DEF DeletionInv, Deletes, Past, Owned
<1> QED
  BY <1>5, <1>13

\* A deletion goes on: it removes rows and contexts, and the works, notices and
\* sandboxes there are grow no more.
Deleter(c) ==
    /\ \A d \in Callers \ {c} : at'[d] = at[d]
    /\ at[c].op = "delete" /\ at'[c].op = "delete" /\ at'[c].work = at[c].work
    /\ owner' = owner /\ crossed' = crossed
    /\ db'.works \subseteq db.works /\ db'.notices \subseteq db.notices
    /\ db'.mapping \subseteq db.mapping /\ db'.artifacts \subseteq db.artifacts
    /\ db'.chats \subseteq db.chats /\ db'.records \subseteq db.records
    /\ db'.contexts \subseteq db.contexts
    /\ disk'.sandboxes \ disk'.kept \subseteq disk.sandboxes \ disk.kept

\* Then what is left to show is the deletion's own progress, in its work.
LEMMA DeleterKeeps ==
  ASSUME Typed, CallsOK, OwnedInv, DeletionInv, NEW c \in Callers, Deleter(c),
         NEW w, w = at[c].work, w \in Works,
         at'[c].listed \subseteq at[c].listed, at'[c].pc \in {"contexts", "dropping", "done"},
         \A r \in db.mapping : r.work # w => r \in db'.mapping,
         w \notin crossed =>
            /\ Owned(w) \cap db'.contexts \subseteq at'[c].listed
            /\ at'[c].pc \in {"dropping", "done"} =>
                  at'[c].listed = {} /\ w \notin disk'.sandboxes \ disk'.kept
            /\ w \notin db'.works \cup db'.notices
            /\ \A r \in db'.mapping : r.work # w
            /\ Owned(w) \cap (db'.chats \cup db'.records) = {}
            /\ \A r \in db'.artifacts : r.session \notin Owned(w) /\ r.work # w
  PROVE  OwnedInv' /\ DeletionInv'
<1>1. OwnedInv'
  BY DEF OwnedInv, Deleter
<1>2. \A v \in Works : Owned(v)' = Owned(v)
  BY DEF Owned, Deleter
<1>3. \A d \in Callers, v \in Works :
        /\ Deletes(d, v)' <=> Deletes(d, v)
        /\ v # w => (Past(d, v)' <=> Past(d, v))
  BY DEF Deletes, Past, Deleter
<1>4. Past(c, w)'
  BY DEF Past, Deletes, Deleter
<1>5. ASSUME NEW v \in Works \ crossed', \A d \in Callers : ~Past(d, v)', NEW s \in Owned(v)'
      PROVE  \E r \in db'.mapping : r.work = v /\ r.session = s
  <2>1. v # w /\ v \notin crossed /\ s \in Owned(v)
    BY <1>2, <1>4, <1>5 DEF Deleter
  <2>2. \A d \in Callers : ~Past(d, v)
    BY <1>3, <1>5, <2>1
  <2> QED
    BY <2>1, <2>2 DEF DeletionInv
<1>6. ASSUME NEW v \in Works \ crossed', NEW d \in Callers, Deletes(d, v)'
      PROVE  /\ \A e \in Callers : at'[e].work = v => at'[e].op = "delete" \/ at'[e].pc = "done"
             /\ at'[d].pc = "purge" => Owned(v)' \subseteq at'[d].listed
             /\ Owned(v)' \cap db'.contexts \subseteq at'[d].listed \/ at'[d].pc = "purge"
             /\ at'[d].pc \in {"dropping", "done"} =>
                   at'[d].listed = {} /\ v \notin disk'.sandboxes \ disk'.kept
  <2>1. v \in Works \ crossed /\ Deletes(d, v) /\ Owned(v)' = Owned(v)
    BY <1>2, <1>3, <1>6 DEF Deleter
  <2>2. \A e \in Callers : at'[e].work = v => at'[e].op = "delete" \/ at'[e].pc = "done"
    BY <2>1 DEF DeletionInv, Deleter
  <2>3. CASE d = c
    <3>1. v = w
      BY <2>1, <2>3 DEF Deletes
    <3> QED
      BY <2>1, <2>2, <2>3, <3>1
  <2>4. CASE d # c
    <3>1. at'[d] = at[d]
      BY <2>4 DEF Deleter
    <3> QED
      BY <2>1, <2>2, <3>1 DEF DeletionInv, Deleter
  <2> QED
    BY <2>3, <2>4
<1>7. ASSUME NEW v \in Works \ crossed', NEW d \in Callers, Past(d, v)'
      PROVE  /\ v \notin db'.works \cup db'.notices
             /\ \A r \in db'.mapping : r.work # v
             /\ Owned(v)' \cap (db'.chats \cup db'.records) = {}
             /\ \A r \in db'.artifacts : r.session \notin Owned(v)' /\ r.work # v
  <2>1. v \in Works \ crossed /\ Owned(v)' = Owned(v)
    BY <1>2, <1>7 DEF Deleter
  <2>2. CASE v = w
    BY <2>1, <2>2
  <2>3. CASE v # w
    <3>1. Past(d, v)
      BY <1>3, <1>7, <2>3
    <3> QED
      BY <2>1, <3>1 DEF DeletionInv, Deleter
  <2> QED
    BY <2>2, <2>3
<1>8. DeletionInv'
  BY <1>5, <1>6, <1>7 DEF DeletionInv, Deletes, Past, Owned
<1> QED
  BY <1>1, <1>8

LEMMA PurgeDeletes ==
  ASSUME Typed, CallsOK, OwnedInv, DeletionInv, NEW c \in Callers, Tables!Purge(c)
  PROVE  OwnedInv' /\ DeletionInv'
<1> DEFINE w == at[c].work
           S == at[c].listed
<1>1. /\ at[c].pc = "purge" /\ at[c].op = "delete" /\ w \in Works
      /\ disk' = disk /\ owner' = owner /\ crossed' = crossed
  BY DEF Tables!Purge, Tables!Is, CallsOK, CallOK
<1>2. /\ db'.works = db.works \ {w} /\ db'.mapping = {r \in db.mapping : r.work # w}
      /\ db'.chats = db.chats \ S /\ db'.records = db.records \ S
      /\ db'.contexts = db.contexts /\ db'.notices = db.notices \ {w}
      /\ db'.artifacts = db.artifacts \ Tables!Purged(w, S)
  BY DEF Tables!Purge
<1>3. /\ \A d \in Callers \ {c} : at'[d] = at[d]
      /\ at'[c].pc = "contexts" /\ at'[c].op = "delete" /\ at'[c].work = w
      /\ at'[c].listed = S
  BY <1>1, PurgeMoves DEF Others
<1>4. Deleter(c)
  BY <1>1, <1>2, <1>3 DEF Deleter
<1>5. w \notin crossed => Owned(w) \subseteq S
  BY <1>1 DEF DeletionInv, Deletes
<1>6. \A r \in db'.artifacts : r.session \notin S /\ r.work # w
  BY <1>2 DEF Tables!Purged
<1> QED
  BY <1>1, <1>2, <1>3, <1>4, <1>5, <1>6, DeleterKeeps

LEMMA PastHolds ==
  ASSUME DeletionInv, CallsOK, NEW c \in Callers, at[c].pc \in {"contexts", "dropping"}
  PROVE  /\ at[c].op = "delete" /\ at[c].work \in Works
         /\ at[c].work \notin crossed =>
              /\ Owned(at[c].work) \cap db.contexts \subseteq at[c].listed
              /\ at[c].pc = "dropping" =>
                    at[c].listed = {} /\ at[c].work \notin disk.sandboxes \ disk.kept
              /\ at[c].work \notin db.works \cup db.notices
              /\ \A r \in db.mapping : r.work # at[c].work
              /\ Owned(at[c].work) \cap (db.chats \cup db.records) = {}
              /\ \A r \in db.artifacts : r.session \notin Owned(at[c].work)
                                         /\ r.work # at[c].work
<1>1. at[c].op = "delete" /\ at[c].work \in Works
  BY DEF CallsOK, CallOK
<1>2. Deletes(c, at[c].work) /\ Past(c, at[c].work)
  BY <1>1 DEF Deletes, Past
<1> QED
  BY <1>1, <1>2 DEF DeletionInv

LEMMA DeletionSteps ==
  ASSUME Typed, CallsOK, OwnedInv, DeletionInv, NEW c \in Callers,
         \/ \E s \in Sessions : Tables!DropContext(c, s)
         \/ \E ok \in BOOLEAN : Tables!ClearSandbox(c, ok)
         \/ Tables!DropFiles(c)
  PROVE  OwnedInv' /\ DeletionInv'
<1>1. ASSUME NEW s \in Sessions, Tables!DropContext(c, s) PROVE OwnedInv' /\ DeletionInv'
  <2>1. /\ at[c].pc = "contexts" /\ disk' = disk /\ owner' = owner /\ crossed' = crossed
        /\ db'.works = db.works /\ db'.mapping = db.mapping /\ db'.chats = db.chats
        /\ db'.records = db.records /\ db'.notices = db.notices
        /\ db'.artifacts = db.artifacts /\ db'.contexts = db.contexts \ {s}
    BY <1>1 DEF Typed, Tables!DropContext, Tables!Is
  <2>2. /\ Others(c) /\ at'[c].pc = "contexts" /\ at'[c].op = at[c].op
        /\ at'[c].work = at[c].work /\ at'[c].listed = at[c].listed \ {s}
    BY <1>1, DropContextMoves
  <2>3. Deleter(c)
    BY <2>1, <2>2, PastHolds DEF Deleter, Others
  <2> QED
    BY <2>1, <2>2, <2>3, DeleterKeeps, PastHolds
<1>2. ASSUME NEW ok \in BOOLEAN, Tables!ClearSandbox(c, ok) PROVE OwnedInv' /\ DeletionInv'
  <2>1. /\ at[c].pc = "contexts" /\ at[c].listed = {} /\ db' = db /\ owner' = owner
        /\ crossed' = crossed /\ Tables!Step(c, "dropping")
    BY <1>2 DEF Tables!ClearSandbox, Tables!Is
  <2>2. disk'.sandboxes \ disk'.kept = (disk.sandboxes \ disk.kept) \ {at[c].work}
    BY <1>2 DEF Typed, Tables!ClearSandbox
  <2>3. Others(c) /\ Goes(c, "dropping")
    BY <2>1, StepGoes DEF Steps
  <2>4. Deleter(c)
    BY <2>1, <2>2, <2>3, PastHolds DEF Deleter, Others, Goes
  <2> QED
    BY <2>1, <2>2, <2>3, <2>4, DeleterKeeps, PastHolds DEF Goes
<1>3. ASSUME Tables!DropFiles(c) PROVE OwnedInv' /\ DeletionInv'
  <2>1. /\ at[c].pc = "dropping" /\ db' = db /\ owner' = owner /\ crossed' = crossed
        /\ disk'.sandboxes = disk.sandboxes /\ disk'.kept = disk.kept
        /\ Tables!Step(c, "done")
    BY <1>3 DEF Typed, Tables!DropFiles, Tables!Is
  <2>2. Others(c) /\ Goes(c, "done")
    BY <2>1, StepGoes DEF Steps, Resting
  <2>3. Deleter(c)
    BY <2>1, <2>2, PastHolds DEF Deleter, Others, Goes
  <2> QED
    BY <2>1, <2>2, <2>3, DeleterKeeps, PastHolds DEF Goes
<1> QED
  BY <1>1, <1>2, <1>3

LEMMA EveryCallDeletes ==
  ASSUME Typed, CallsOK, OwnedInv, DeletionInv, NEW c \in Callers, CallStep(c)
  PROVE  OwnedInv' /\ DeletionInv'
<1>1. CASE Within(c)
  BY <1>1, WithinKeeps
<1>2. ASSUME NEW w \in Works,
             Tables!Create(c, w) \/ Tables!Message(c, w) \/ Tables!Delete(c, w)
      PROVE  OwnedInv' /\ DeletionInv'
  BY <1>2, CreateKeeps, MessageKeeps, DeleteKeeps
<1>3. ASSUME NEW s \in Sessions, Tables!Insert(c, s) PROVE OwnedInv' /\ DeletionInv'
  BY <1>3, InsertKeeps
<1>4. ASSUME \/ \E a \in Members : \/ Tables!Lookup(c, a) \/ Tables!Miss(c, a)
                                   \/ Tables!Summon(c, a)
             \/ \E s \in Sessions : Tables!Clash(c, s)
             \/ Tables!Ensured(c)
      PROVE  Within(c)
  BY <1>4, EnsuringWithin
<1>5. ASSUME \/ \E n \in Names : Tables!WriteNew(c, n)
             \/ \E r \in db.artifacts : \/ Tables!Scrap(c, r)
                                        \/ \E n \in Names : Tables!Revise(c, r, n)
             \/ Tables!Rewrite(c) \/ Tables!RemoveDirectory(c)
      PROVE  Within(c)
  BY <1>5, ToolingWithin
<1>6. ASSUME \/ Tables!Record(c)
             \/ \E ok \in BOOLEAN : Tables!EndTurn(c, ok)
             \/ \E k \in Works \cup {None} : Tables!FileNew(c, k)
             \/ \E passed \in SUBSET {"session", "work"} : Tables!Refile(c, passed)
             \/ Tables!Unfile(c)
      PROVE  Within(c)
  BY <1>6, TurnStepsWithin
<1>7. ASSUME \/ \E s \in Sessions : Tables!DropContext(c, s)
             \/ \E ok \in BOOLEAN : Tables!ClearSandbox(c, ok)
             \/ Tables!DropFiles(c)
      PROVE  OwnedInv' /\ DeletionInv'
  BY <1>7, DeletionSteps
<1> QED
  BY <1>1, <1>2, <1>3, <1>4, <1>5, <1>6, <1>7, ConverseKeeps, UseSandboxWithin, PurgeDeletes
     DEF CallStep

LEMMA TablesStart ==
  ASSUME Init
  PROVE  TablesInv
<1>1. /\ \A c \in Callers : at[c] = Tables!Idle
      /\ at = [c \in Callers |-> Tables!Idle]
      /\ owner = [s \in Sessions |-> None]
      /\ crossed = {} /\ raced = {} /\ moved = {}
      /\ disk = [files |-> {}, sandboxes |-> {}, kept |-> {}]
  BY DEF Init, Tables!Init
<1>2. PICK W \in SUBSET Works :
         db = [works |-> W, mapping |-> {}, chats |-> {}, records |-> {},
               contexts |-> {}, artifacts |-> {}, notices |-> {}]
  BY DEF Init, Tables!Init
<1>3. /\ db.mapping = {} /\ db.chats = {} /\ db.records = {} /\ db.contexts = {}
      /\ db.artifacts = {} /\ db.notices = {} /\ disk.files = {} /\ disk.sandboxes = {}
  BY <1>1, <1>2
<1>4. /\ \A c \in Callers : /\ at[c].pc = "idle" /\ at[c].work = None /\ at[c].ids = {}
                            /\ at[c].listed = {}
  BY <1>1 DEF Tables!Idle
<1>5. Typed
  <2>1. Tables!Idle \in Place
    BY DEF Tables!Idle, Place, Steps
  <2> QED
    BY <1>1, <1>2, <2>1 DEF Typed
<1>6. CallsOK
  BY <1>1, <1>4 DEF CallsOK, CallOK
<1>7. MadeInv /\ NamedInv /\ KeptInv
  BY <1>3, <1>4 DEF MadeInv, NamedInv, KeptInv, Handles, Tooling
<1>8. OwnedInv
  BY <1>3, <1>4 DEF OwnedInv
<1>9. DeletionInv
  <2>1. \A v \in Works : Owned(v) = {}
    BY <1>1, TablesAssumed DEF Owned
  <2>2. \A c \in Callers, v \in Works : ~Deletes(c, v) /\ ~Past(c, v)
    BY <1>4, TablesAssumed DEF Deletes, Past
  <2> QED
    BY <2>1, <2>2 DEF DeletionInv
<1> QED
  BY <1>5, <1>6, <1>7, <1>8, <1>9 DEF TablesInv

LEMMA TablesMove ==
  ASSUME TablesInv, [Next]_<<part, tableVars, lockVars>>
  PROVE  TablesInv'
<1>1. CASE UNCHANGED tableVars
  <2>1. /\ db' = db /\ disk' = disk /\ at' = at /\ owner' = owner /\ crossed' = crossed
        /\ raced' = raced /\ moved' = moved
    BY <1>1 DEF tableVars
  <2>2. Typed' /\ CallsOK'
    BY <2>1 DEF TablesInv, Typed, CallsOK, CallOK
  <2>3. MadeInv' /\ NamedInv' /\ KeptInv'
    <3>1. MadeInv'
      BY <2>1 DEF TablesInv, MadeInv, Made, Handles
    <3>2. NamedInv'
      BY <2>1 DEF TablesInv, NamedInv, Handles
    <3>3. KeptInv'
      BY <2>1 DEF TablesInv, KeptInv
    <3> QED
      BY <3>1, <3>2, <3>3
  <2>4. OwnedInv' /\ DeletionInv'
    BY <2>1 DEF TablesInv, OwnedInv, DeletionInv, Owned, Past, Deletes
  <2> QED
    BY <2>2, <2>3, <2>4 DEF TablesInv
<1>2. ASSUME NEW c \in Callers, CallStep(c) PROVE TablesInv'
  <2>1. Typed /\ CallsOK /\ FilesInv /\ OwnedInv /\ DeletionInv
    BY DEF TablesInv, FilesInv
  <2>2. Typed' /\ CallsOK'
    BY <1>2, <2>1, EveryCallLocal
  <2>3. FilesInv'
    BY <1>2, <2>1, EveryCallFiles
  <2>4. OwnedInv' /\ DeletionInv'
    BY <1>2, <2>1, EveryCallDeletes
  <2> QED
    BY <2>2, <2>3, <2>4 DEF TablesInv, FilesInv
<1>3. Tables!Next => \E c \in Callers : CallStep(c)
  BY DEF Tables!Next, CallStep
<1> QED
  BY <1>1, <1>2, <1>3 DEF Next, lockVars

LEMMA TablesAlways == Spec => []TablesInv
BY TablesStart, TablesMove, PTL DEF Spec

LEMMA RowsThen ==
  ASSUME TablesInv
  PROVE  Tables!RowsHaveFiles
<1> SUFFICES ASSUME NEW r \in db.artifacts, r.id \notin raced, ~Tables!Busy(r.id)
             PROVE  <<r.id, r.name>> \in disk.files
  BY DEF Tables!RowsHaveFiles
<1>1. ASSUME NEW c \in Callers PROVE ~Handles(c, r.id)
  <2>1. ~(r.id \in at[c].ids /\ at[c].pc \in Tooling)
    BY DEF Tables!Busy, Tables!ToolSteps, Tooling
  <2>2. ~(r.id \in at[c].ids /\ at[c].op = "delete")
    BY DEF TablesInv, MadeInv
  <2> QED
    BY <2>1, <2>2 DEF Handles
<1> QED
  BY <1>1 DEF TablesInv, NamedInv

LEMMA NothingThen ==
  ASSUME TablesInv
  PROVE  Tables!NothingLeft
<1> SUFFICES ASSUME NEW w \in Works \ crossed, Tables!Deleted(w)
             PROVE  /\ w \notin db.works \cup db.notices \cup (disk.sandboxes \ disk.kept)
                    /\ \A r \in db.mapping : r.work # w
                    /\ \A s \in Sessions : owner[s] = w =>
                          /\ s \notin db.chats \cup db.records \cup db.contexts
                          /\ \A r \in db.artifacts : r.session # s
                    /\ \A r \in db.artifacts : r.work # w
                    /\ \A f \in disk.files : at[f[1]].work = w => f[1] \in raced \cup moved
  BY DEF Tables!NothingLeft
<1>1. PICK c \in Callers : at[c].work = w /\ at[c].op = "delete"
  BY DEF Tables!Deleted
<1>2. \A d \in Callers : at[d].work = w => at[d].pc = "done"
  BY DEF Tables!Deleted, Tables!In, Tables!Is
<1>3. Deletes(c, w) /\ Past(c, w) /\ at[c].pc = "done"
  BY <1>1, <1>2 DEF Deletes, Past
<1>4. /\ Owned(w) \cap db.contexts = {}
      /\ w \notin disk.sandboxes \ disk.kept
      /\ w \notin db.works \cup db.notices
      /\ \A r \in db.mapping : r.work # w
      /\ Owned(w) \cap (db.chats \cup db.records) = {}
      /\ \A r \in db.artifacts : r.session \notin Owned(w) /\ r.work # w
  BY <1>3 DEF TablesInv, DeletionInv
<1>5. ASSUME NEW f \in disk.files, at[f[1]].work = w, f[1] \notin raced \cup moved
      PROVE  FALSE
  <2>1. f[1] \in Callers /\ at[f[1]].pc # "filing"
    BY <1>2, <1>5, RowIds DEF TablesInv
  <2>2. ASSUME NEW r \in db.artifacts, r.id = f[1] PROVE FALSE
    <3>1. Made(f[1]) /\ r.session = at[f[1]].session
      BY <1>5, <2>2 DEF TablesInv, MadeInv
    <3>2. at[f[1]].op = "message"
      BY <1>5, <2>1, <3>1, TablesAssumed DEF TablesInv, CallsOK, CallOK, Made, Resting
    <3>3. at[f[1]].session \in Sessions /\ owner[at[f[1]].session] = w
      BY <1>5, <2>1, <3>1, <3>2 DEF TablesInv, CallsOK, CallOK, Made, Resting
    <3> QED
      BY <1>4, <2>2, <3>1, <3>3 DEF Owned
  <2>3. ASSUME NEW d \in Callers, at[d].pc \in {"contexts", "dropping"}, f[1] \in at[d].ids
        PROVE  FALSE
    <3>1. at[d].op = "delete"
      BY <2>3 DEF TablesInv, CallsOK, CallOK
    <3>2. at[d].work = w
      BY <1>5, <2>3, <3>1 DEF TablesInv, MadeInv
    <3> QED
      BY <1>2, <2>3, <3>2
  <2> QED
    BY <1>5, <2>1, <2>2, <2>3 DEF TablesInv, KeptInv
<1> QED
  BY <1>4, <1>5 DEF Owned

\* An artifact that no two calls handled at once has the file its row names whenever no
\* call is at it, whatever its tools, revisions and deletions did in between
\* (mcp_artifact_tools_server.py, ArtifactRepository).
THEOREM FilesStand == Spec => []RowsHaveFiles
<1>1. TablesInv => RowsHaveFiles
  BY RowsThen DEF RowsHaveFiles
<1> QED
  BY <1>1, TablesAlways, PTL

\* DELETE /api/works leaves nothing of a work that no other call ran across: however
\* its transactions fall among those of the calls in other works, no session, request,
\* context, notice, artifact or file of it is left (WorkRepository.delete_work, app.py).
THEOREM DeletionIsComplete == Spec => []NothingLeft
<1>1. TablesInv => NothingLeft
  BY NothingThen DEF NothingLeft
<1> QED
  BY <1>1, TablesAlways, PTL

-----------------------------------------------------------------------------
(* The types of all parts                                                  *)

\* The map stays one dictionary.
LEMMA MapMoves ==
  ASSUME Map!TypeOK, Map!Next \/ UNCHANGED lockVars
  PROVE  Map!TypeOK'
<1>1. MapProofs!TypeOK
  BY DEF Map!TypeOK, MapProofs!TypeOK
<1>2. [MapProofs!Next]_MapProofs!vars
  BY SameSteps DEF lockVars, MapProofs!vars
<1>3. MapProofs!TypeOK'
  BY <1>1, <1>2, LocksAssumed, MapProofs!TypesStep
<1> QED
  BY <1>3 DEF Map!TypeOK, MapProofs!TypeOK

\* Every variable of every part keeps its type; a map of locks, however full, has each
\* work that has a lock once and no other (ChatService._work_lock, _prune_work_locks),
\* and the tables and files of works have rows of their columns.
THEOREM PartsTyped == Spec => []TypesOK
<1>1. Init => Map!TypeOK
  <2>1. Init => MapProofs!Init
    BY DEF Init, Map!Init, MapProofs!Init
  <2>2. Init => MapProofs!TypeOK
    BY <2>1, LocksAssumed, MapProofs!TypesInit
  <2> QED
    BY <2>2 DEF Map!TypeOK, MapProofs!TypeOK
<1>2. Map!TypeOK /\ [Next]_<<part, tableVars, lockVars>> => Map!TypeOK'
  BY MapMoves DEF Next, lockVars
<1>3. TablesInv => Tables!TypeOK
  BY DEF TablesInv, Typed, Tables!TypeOK
<1> DEFINE Parts == part \in {"tables", "locks"}
<1>4. (Init => Parts) /\ (Parts /\ [Next]_<<part, tableVars, lockVars>> => Parts')
  BY DEF Init, Next
<1>5. Parts /\ Map!TypeOK /\ Tables!TypeOK => TypesOK
  BY DEF TypesOK
<1> HIDE DEF Parts
<1> QED
  BY <1>1, <1>2, <1>3, <1>4, <1>5, TablesAlways, PTL DEF Spec

=============================================================================
