------------------------------ MODULE WorkTables ------------------------------
(***************************************************************************)
(* The rows and files of works: WorkRepository, WorkAgentSessionRepository,*)
(* ArtifactRepository and AgentSessionContextRepository (core/store.py),   *)
(* the artifact tools (services/mcp_artifact_tools_server.py), creating a  *)
(* work and messaging it (services/mcp_work_tools_server.py, core/app.py)  *)
(* and DELETE /api/works.  SQLite enforces no foreign key here, and nothing*)
(* locks a work while it is deleted, so calls interleave between their     *)
(* transactions.  A turn is one call; what it writes is chosen freely.     *)
(* A session stands for its request, task and message rows (`records`).    *)
(* History: owner says what a session was inserted for, crossed which      *)
(* works were deleted while another call was in them, raced which          *)
(* artifacts had two calls at once, moved which a revision refiled.        *)
(***************************************************************************)
EXTENDS Naturals, FiniteSets

CONSTANTS Callers, Works,
          Members,      \* active agent profiles
          Host,         \* agent_chanakya, one of them
          Sessions,     \* fresh session ids, bounds the sessions inserted
          Chat,         \* the session of a classic chat
          Names,        \* file names of artifacts
          None

VARIABLES db, disk, at, owner, crossed, raced, moved

tableVars == <<db, disk, at, owner, crossed, raced, moved>>

TableAssumption == Host \in Members /\ Chat \notin Sessions /\ None \notin Works

AnySession == Sessions \cup {Chat}
\* An artifact takes the name of the call that made it for its id.
Artifact == [id : Callers, session : AnySession, request : AnySession,
             work : Works \cup {None}, name : Names]

Idle == [pc |-> "idle", op |-> None, work |-> None, session |-> None, todo |-> {},
         listed |-> {}, ids |-> {}, name |-> None, old |-> None]

Init ==
    /\ \E W \in SUBSET Works :
          db = [works |-> W, mapping |-> {}, chats |-> {}, records |-> {},
                contexts |-> {}, artifacts |-> {}, notices |-> {}]
    /\ disk = [files |-> {}, sandboxes |-> {}, kept |-> {}]
    /\ at = [c \in Callers |-> Idle]
    /\ owner = [s \in Sessions |-> None]
    /\ crossed = {} /\ raced = {} /\ moved = {}

Is(c, pc) == at[c].pc = pc
Step(c, pc) == at' = [at EXCEPT ![c].pc = pc]

In(w) == {c \in Callers : at[c].work = w /\ ~Is(c, "done")}
Deleting(w) == {c \in In(w) : at[c].op = "delete"}

ToolSteps == {"filing", "revising", "refiling", "scrapping", "unfiling", "sandbox", "dropping"}
Busy(id) == \E c \in Callers : id \in at[c].ids /\ at[c].pc \in ToolSteps

-----------------------------------------------------------------------------
(* A work and the sessions of its profiles *)

Mapped(w, a) == {r \in db.mapping : r.work = w /\ r.member = a}

Begin(c, op, w, todo, listed) ==
    at' = [at EXCEPT ![c] = [Idle EXCEPT !.pc = IF op = "delete" THEN "purge" ELSE "ensure",
                                         !.op = op, !.work = w, !.todo = todo, !.listed = listed]]

Create(c, w) ==
    /\ Is(c, "idle") /\ w \notin db.works
    /\ \A d \in Callers : at[d].work # w
    /\ db' = [db EXCEPT !.works = @ \cup {w}]
    /\ Begin(c, "create", w, Members, {})
    /\ UNCHANGED <<disk, owner, crossed, raced, moved>>

\* Only the work is looked up first; a deletion may be under way.
Message(c, w) ==
    /\ Is(c, "idle") /\ w \in db.works
    /\ Begin(c, "message", w, {Host}, {})
    /\ crossed' = IF Deleting(w) = {} THEN crossed ELSE crossed \cup {w}
    /\ UNCHANGED <<db, disk, owner, raced, moved>>

Converse(c) ==
    /\ Is(c, "idle")
    /\ at' = [at EXCEPT ![c] = [Idle EXCEPT !.pc = "open", !.op = "chat", !.session = Chat]]
    /\ UNCHANGED <<db, disk, owner, crossed, raced, moved>>

\* The row there is, and its session for the host's turn.
Lookup(c, a) ==
    /\ Is(c, "ensure") /\ a \in at[c].todo
    /\ \E r \in Mapped(at[c].work, a) :
          at' = [at EXCEPT ![c].todo = @ \ {a},
                           ![c].session = IF a = Host THEN r.session ELSE @]
    /\ UNCHANGED <<db, disk, owner, crossed, raced, moved>>

Miss(c, a) ==
    /\ Is(c, "ensure") /\ a \in at[c].todo
    /\ Mapped(at[c].work, a) = {}
    /\ at' = [at EXCEPT ![c].pc = "insert", ![c].name = a]
    /\ UNCHANGED <<db, disk, owner, crossed, raced, moved>>

\* UniqueConstraint uq_work_agent(work_id, agent_id).
Unique(rows) == \A r, q \in rows : r.work = q.work /\ r.member = q.member => r = q

Row(c, s) == [work |-> at[c].work, member |-> at[c].name, session |-> s]

Insert(c, s) ==
    /\ Is(c, "insert") /\ owner[s] = None
    /\ Unique(db.mapping \cup {Row(c, s)})
    /\ db' = [db EXCEPT !.mapping = @ \cup {Row(c, s)}, !.chats = @ \cup {s}]
    /\ owner' = [owner EXCEPT ![s] = at[c].work]
    /\ at' = [at EXCEPT ![c].pc = "ensure", ![c].todo = @ \ {at[c].name},
                        ![c].session = IF at[c].name = Host THEN s ELSE @]
    /\ UNCHANGED <<disk, crossed, raced, moved>>

\* The IntegrityError of the loser ends the call, whatever it has left to do.
Clash(c, s) ==
    /\ Is(c, "insert") /\ owner[s] = None
    /\ ~Unique(db.mapping \cup {Row(c, s)})
    /\ Step(c, "done")
    /\ UNCHANGED <<db, disk, owner, crossed, raced, moved>>

Ensured(c) ==
    /\ Is(c, "ensure") /\ at[c].todo = {}
    /\ Step(c, IF at[c].op = "create" THEN "done" ELSE "open")
    /\ UNCHANGED <<db, disk, owner, crossed, raced, moved>>

-----------------------------------------------------------------------------
(* A turn *)

\* The request and the message it came with.
Record(c) ==
    /\ Is(c, "open")
    /\ db' = [db EXCEPT !.records = @ \cup {at[c].session}, !.chats = @ \cup {at[c].session}]
    /\ Step(c, "turn")
    /\ UNCHANGED <<disk, owner, crossed, raced, moved>>

UseSandbox(c) ==
    /\ Is(c, "turn") /\ at[c].work # None
    /\ disk' = [disk EXCEPT !.sandboxes = @ \cup {at[c].work}]
    /\ UNCHANGED <<db, at, owner, crossed, raced, moved>>

\* A participant of the group chat gets its session in the work.
Summon(c, a) ==
    /\ Is(c, "turn") /\ at[c].op = "message" /\ a # Host
    /\ at' = [at EXCEPT ![c].pc = "ensure", ![c].todo = {a}]
    /\ UNCHANGED <<db, disk, owner, crossed, raced, moved>>

\* The answer, whose message brings its session back, the remote context and
\* the notice of the work; or the turn fails before any of it.
EndTurn(c, answered) ==
    /\ Is(c, "turn")
    /\ db' = IF answered
             THEN [db EXCEPT !.records = @ \cup {at[c].session}, !.chats = @ \cup {at[c].session},
                             !.contexts = @ \cup {at[c].session},
                             !.notices = @ \cup ({at[c].work} \ {None})]
             ELSE db
    /\ Step(c, "done")
    /\ UNCHANGED <<disk, owner, crossed, raced, moved>>

-----------------------------------------------------------------------------
(* Its artifact tools, one per turn *)

Use(c, pc, id, name, old) ==
    /\ Is(c, "turn") /\ at[c].ids = {}
    /\ at' = [at EXCEPT ![c].pc = pc, ![c].ids = {id}, ![c].name = name, ![c].old = old]
    /\ raced' = IF Busy(id) THEN raced \cup {id} ELSE raced

\* The file comes first, in a directory of its id.
WriteNew(c, n) ==
    /\ Use(c, "filing", c, n, None)
    /\ disk' = [disk EXCEPT !.files = @ \cup {<<c, n>>}]
    /\ UNCHANGED <<db, owner, crossed, moved>>

\* The model passes the session and the request, and the work if it likes.
FileNew(c, k) ==
    /\ Is(c, "filing") /\ k \in {None, at[c].work}
    /\ db' = [db EXCEPT !.artifacts = @ \cup
                 {[id |-> c, session |-> at[c].session, request |-> at[c].session,
                   work |-> k, name |-> at[c].name]}]
    /\ Step(c, "turn")
    /\ UNCHANGED <<disk, owner, crossed, raced, moved>>

\* get_artifact; any artifact whose id the model knows, of whatever session.
Revise(c, r, n) ==
    /\ Use(c, "revising", r.id, n, r.name)
    /\ UNCHANGED <<db, disk, owner, crossed, moved>>

\* slip: the old file goes even when it is the new one
Rewritten_Unlinks(files, id, old, n) == (files \cup {<<id, n>>}) \ {<<id, old>>}
Rewritten(files, id, old, n) == (files \ {<<id, old>>}) \cup {<<id, n>>}

Rewrite(c) ==
    /\ Is(c, "revising")
    /\ \E id \in at[c].ids :
          disk' = [disk EXCEPT !.files = Rewritten(@, id, at[c].old, at[c].name)]
    /\ Step(c, "refiling")
    /\ UNCHANGED <<db, owner, crossed, raced, moved>>

\* The row takes the session and the work of the turn if the model passes them; a
\* chat has no work to pass.
Revised(c, passed, r) ==
    [r EXCEPT !.session = IF "session" \in passed THEN at[c].session ELSE @,
              !.work = IF "work" \in passed /\ at[c].work # None THEN at[c].work ELSE @,
              !.name = at[c].name]

\* A missing row is an error of the tool.
Refile(c, passed) ==
    /\ Is(c, "refiling")
    /\ LET rows == {r \in db.artifacts : r.id \in at[c].ids}
       IN  /\ db' = [db EXCEPT !.artifacts = (@ \ rows) \cup {Revised(c, passed, r) : r \in rows}]
           /\ moved' = moved \cup {r.id : r \in {q \in rows :
                            LET new == Revised(c, passed, q)
                            IN  new.session # q.session \/ new.work # q.work}}
    /\ Step(c, "turn")
    /\ UNCHANGED <<disk, owner, crossed, raced>>

Scrap(c, r) ==
    /\ Use(c, "scrapping", r.id, None, r.name)
    /\ UNCHANGED <<db, disk, owner, crossed, moved>>

RemoveDirectory(c) ==
    /\ Is(c, "scrapping")
    /\ disk' = [disk EXCEPT !.files = {f \in @ : f[1] \notin at[c].ids}]
    /\ Step(c, "unfiling")
    /\ UNCHANGED <<db, owner, crossed, raced, moved>>

Unfile(c) ==
    /\ Is(c, "unfiling")
    /\ db' = [db EXCEPT !.artifacts = {r \in @ : r.id \notin at[c].ids}]
    /\ Step(c, "turn")
    /\ UNCHANGED <<disk, owner, crossed, raced, moved>>

-----------------------------------------------------------------------------
(* DELETE /api/works *)

\* get_work, then the sessions to delete, listed in a transaction of their own.
Delete(c, w) ==
    /\ Is(c, "idle") /\ w \in db.works
    /\ Begin(c, "delete", w, {}, {r.session : r \in {q \in db.mapping : q.work = w}})
    /\ crossed' = IF In(w) = Deleting(w) THEN crossed ELSE crossed \cup {w}
    /\ UNCHANGED <<db, disk, owner, raced, moved>>

\* slip: an artifact is a work's only if it says so
Returned_ByWork(w, S) == {r \in db.artifacts : r.work = w}
\* The artifacts whose files the endpoint is to remove: those of the work are listed
\* after what its requests made is gone...
Returned(w, S) == {r \in db.artifacts : \/ r.session \in S
                                        \/ r.work = w /\ r.request \notin S \cap db.records}
\* ... and those whose rows go: also what a request of the work made.
Purged(w, S) == {r \in db.artifacts : \/ r.session \in S \/ r.work = w
                                      \/ r.request \in S \cap db.records}

Purge(c) ==
    /\ Is(c, "purge")
    /\ LET w == at[c].work
           S == at[c].listed
           gone == Purged(w, S)
       IN  /\ db' = [works |-> db.works \ {w},
                     mapping |-> {r \in db.mapping : r.work # w},
                     chats |-> db.chats \ S, records |-> db.records \ S,
                     contexts |-> db.contexts, artifacts |-> db.artifacts \ gone,
                     notices |-> db.notices \ {w}]
           /\ at' = [at EXCEPT ![c].pc = "contexts", ![c].ids = {r.id : r \in Returned(w, S)}]
           /\ raced' = raced \cup {r.id : r \in {q \in gone : Busy(q.id)}}
    /\ UNCHANGED <<disk, owner, crossed, moved>>

DropContext(c, s) ==
    /\ Is(c, "contexts") /\ s \in at[c].listed
    /\ db' = [db EXCEPT !.contexts = @ \ {s}]
    /\ at' = [at EXCEPT ![c].listed = @ \ {s}]
    /\ UNCHANGED <<disk, owner, crossed, raced, moved>>

\* Stopping the container or removing the directory may fail: a warning.
ClearSandbox(c, ok) ==
    /\ Is(c, "contexts") /\ at[c].listed = {}
    /\ disk' = IF ok THEN [disk EXCEPT !.sandboxes = @ \ {at[c].work}]
                     ELSE [disk EXCEPT !.kept = @ \cup {at[c].work}]
    /\ Step(c, "dropping")
    /\ UNCHANGED <<db, owner, crossed, raced, moved>>

DropFiles(c) ==
    /\ Is(c, "dropping")
    /\ disk' = [disk EXCEPT !.files = {f \in @ : f[1] \notin at[c].ids}]
    /\ Step(c, "done")
    /\ UNCHANGED <<db, owner, crossed, raced, moved>>

Next ==
    \E c \in Callers :
       \/ \E w \in Works : Create(c, w) \/ Message(c, w) \/ Delete(c, w)
       \/ \E a \in Members : Lookup(c, a) \/ Miss(c, a) \/ Summon(c, a)
       \/ \E s \in Sessions : Insert(c, s) \/ Clash(c, s) \/ DropContext(c, s)
       \/ \E n \in Names : WriteNew(c, n)
       \/ \E k \in Works \cup {None} : FileNew(c, k)
       \/ \E r \in db.artifacts : Scrap(c, r) \/ \E n \in Names : Revise(c, r, n)
       \/ \E ok \in BOOLEAN : ClearSandbox(c, ok) \/ EndTurn(c, ok)
       \/ Converse(c) \/ Ensured(c) \/ Record(c) \/ UseSandbox(c) \/ Rewrite(c)
       \/ \E passed \in SUBSET {"session", "work"} : Refile(c, passed)
       \/ RemoveDirectory(c) \/ Unfile(c) \/ Purge(c) \/ DropFiles(c)

Spec == Init /\ [][Next]_tableVars

-----------------------------------------------------------------------------
(* Properties *)

\* The tables, the disk and the calls hold what they can hold.
TypeOK ==
    /\ db.works \subseteq Works /\ db.notices \subseteq Works
    /\ db.mapping \subseteq [work : Works, member : Members, session : Sessions]
    /\ db.chats \subseteq AnySession /\ db.records \subseteq AnySession
    /\ db.contexts \subseteq AnySession
    /\ db.artifacts \subseteq Artifact
    /\ disk.files \subseteq Callers \X Names
    /\ disk.sandboxes \subseteq Works /\ disk.kept \subseteq Works
    /\ owner \in [Sessions -> Works \cup {None}]
    /\ crossed \subseteq Works /\ raced \subseteq Callers /\ moved \subseteq Callers

Deleted(w) == /\ \E c \in Callers : at[c].work = w /\ at[c].op = "delete"
              /\ In(w) = {}

\* A deletion no other call of the work ran across leaves nothing of it: no
\* session, request, context, notice or artifact, and no file but of artifacts
\* that had two calls at once or that a revision filed elsewhere.
NothingLeft ==
    \A w \in Works \ crossed : Deleted(w) =>
        /\ w \notin db.works \cup db.notices \cup (disk.sandboxes \ disk.kept)
        /\ \A r \in db.mapping : r.work # w
        /\ \A s \in Sessions : owner[s] = w =>
              /\ s \notin db.chats \cup db.records \cup db.contexts
              /\ \A r \in db.artifacts : r.session # s
        /\ \A r \in db.artifacts : r.work # w
        /\ \A f \in disk.files : at[f[1]].work = w => f[1] \in raced \cup moved

\* An artifact that no two calls handled at once has the file its row names,
\* whenever no call is at it: its link opens.
RowsHaveFiles ==
    \A r \in db.artifacts :
        r.id \notin raced /\ ~Busy(r.id) => <<r.id, r.name>> \in disk.files

\* What delete_work says it returns: the artifacts whose files are to go, so no
\* file outlives its row.
FilesGoWithRows ==
    (\A c \in Callers : at[c].pc \in {"idle", "done"}) =>
        \A f \in disk.files : f[1] \in raced \/ \E r \in db.artifacts : r.id = f[1]

=============================================================================
