------------------------------- MODULE ToolLoader -------------------------------
(***************************************************************************)
(* The cache of MCP tools of the web process (tool_loader): one server      *)
(* process per configured server, a list of the connected ones that agents *)
(* are built with, and a catalog of what became of each.  A reload closes   *)
(* what is loaded, empties both lists and connects the configured servers,  *)
(* one after the other.                                                    *)
(*                                                                         *)
(* Reloads are coroutines of the one background loop.  They take no lock,   *)
(* and each close and each connect is an await: two requests to reload run  *)
(* into each other there and nowhere else.  So a step here is what happens  *)
(* between two awaits.                                                     *)
(***************************************************************************)
EXTENDS Naturals, Sequences, FiniteSets

CONSTANTS
    Loads,     \* runs of _reload_tools_async
    Boot,      \* the one of them at start-up
    Servers,   \* names of servers
    Invalid,   \* those whose entry in the file is not usable
    Files,     \* what mcp_config_file.json may hold: sequences of servers
    MaxEdits,  \* bound: times it is written
    None       \* no process

ToolAssumption ==
    /\ Boot \in Loads
    /\ Invalid \subseteq Servers
    /\ \A f \in Files : /\ f \in Seq(Servers)
                        /\ \A i, k \in DOMAIN f : f[i] = f[k] => i = k
    /\ MaxEdits \in Nat
    /\ None \notin Loads \X Servers

VARIABLES
    file,       \* the configuration file
    edits,      \* times it was written
    cache,      \* _loaded_tools
    catalog,    \* _tools_catalog, and _tools_availability, which is a copy
    alive,      \* server processes that run
    pc,         \* where each reload is
    closing,    \* tools it has still to close
    todo,       \* servers it has still to connect, the current one first
    read,       \* history: the file as the last reload to read it did
    overlapped, \* history: two reloads have run at once
    stuck       \* history: a close has failed and left its process

toolVars == <<file, edits, cache, catalog, alive, pc, closing, todo, read, overlapped, stuck>>

\* A load starts a server at most once: it names the process.
Process == Loads \X Servers
Entry == [server : Servers, process : Process \cup {None}]

Init ==
    /\ file \in Files /\ edits = 0
    /\ cache = <<>> /\ catalog = <<>> /\ alive = {}
    /\ pc = [l \in Loads |-> "idle"]
    /\ closing = [l \in Loads |-> <<>>]
    /\ todo = [l \in Loads |-> <<>>]
    /\ read = <<>> /\ overlapped = FALSE /\ stuck = FALSE

-----------------------------------------------------------------------------
Running(l) == pc[l] \notin {"idle", "returned"}

\* Unusable entries at the head of a list: they are entered without an await.
Unusable(list) ==
    CHOOSE n \in 0..Len(list) : /\ \A i \in 1..n : list[i] \in Invalid
                                /\ n < Len(list) => list[n + 1] \notin Invalid

Unavailable(s) == [server |-> s, process |-> None]

\* The loop over the configuration goes on with list, up to the next connect.
Loop(l, entries, list) ==
    LET n == Unusable(list)
        rest == SubSeq(list, n + 1, Len(list))
    IN  /\ catalog' = entries \o [i \in 1..n |-> Unavailable(list[i])]
        /\ todo' = [todo EXCEPT ![l] = rest]
        /\ pc' = [pc EXCEPT ![l] = IF rest = <<>> THEN "returned" ELSE "connect"]

\* All is closed: the lists are emptied and the file is read.
Restart(l) ==
    /\ cache' = <<>>
    /\ read' = file
    /\ Loop(l, <<>>, file)

\* initialize_all_tools, or a request to reload once the application is up.
Begin(l) ==
    /\ pc[l] = "idle"
    /\ l = Boot \/ pc[Boot] = "returned"
    /\ overlapped' = (overlapped \/ \E k \in Loads : Running(k))
    /\ \/ cache = <<>> /\ Restart(l) /\ UNCHANGED closing
       \/ /\ cache # <<>>
          /\ closing' = [closing EXCEPT ![l] = cache]
          /\ pc' = [pc EXCEPT ![l] = "close"]
          /\ UNCHANGED <<cache, catalog, todo, read>>
    /\ UNCHANGED <<file, edits, alive, stuck>>

\* The close of process p is over.  A failure is logged, and the process may stay.
Closed(p) ==
    \/ alive' = alive \ {p} /\ UNCHANGED stuck
    \/ p \in alive /\ stuck' = TRUE /\ UNCHANGED alive

\* _close_loaded_tools_async
Close(l) ==
    /\ pc[l] = "close"
    /\ Closed(Head(closing[l]))
    /\ closing' = [closing EXCEPT ![l] = Tail(@)]
    /\ \/ Len(closing[l]) = 1 /\ Restart(l)
       \/ Len(closing[l]) > 1 /\ UNCHANGED <<cache, catalog, pc, todo, read>>
    /\ UNCHANGED <<file, edits, overlapped>>

\* The process a load is connecting.
Current(l) == <<l, Head(todo[l])>>

Connect(l) ==
    /\ pc[l] = "connect"
    /\ alive' = alive \cup {Current(l)}
    /\ cache' = Append(cache, Current(l))
    /\ Loop(l, Append(catalog, [server |-> Head(todo[l]), process |-> Current(l)]),
            Tail(todo[l]))
    /\ UNCHANGED <<file, edits, closing, read, overlapped, stuck>>

\* An exception, or the time-out: the process may have started or not.
Fail_Leaves(l) ==   \* slip: the tool that failed is not closed
    /\ pc[l] = "connect"
    /\ \/ UNCHANGED alive
       \/ alive' = alive \cup {Current(l)}
    /\ Loop(l, Append(catalog, Unavailable(Head(todo[l]))), Tail(todo[l]))
    /\ UNCHANGED <<file, edits, cache, closing, read, overlapped, stuck>>
Fail(l) ==
    /\ pc[l] = "connect"
    /\ \/ UNCHANGED alive
       \/ alive' = alive \cup {Current(l)}
    /\ pc' = [pc EXCEPT ![l] = "clean"]
    /\ UNCHANGED <<file, edits, cache, catalog, closing, todo, read, overlapped, stuck>>

\* The failed tool is closed, and entered as unavailable.
Clean(l) ==
    /\ pc[l] = "clean"
    /\ Closed(Current(l))
    /\ Loop(l, Append(catalog, Unavailable(Head(todo[l]))), Tail(todo[l]))
    /\ UNCHANGED <<file, edits, cache, closing, read, overlapped>>

\* PUT /api/tools/config writes the file, at any time; the reload it may ask for
\* is a Begin.
Edit ==
    /\ pc[Boot] = "returned"
    /\ edits < MaxEdits
    /\ file' \in Files
    /\ edits' = edits + 1
    /\ UNCHANGED <<cache, catalog, alive, pc, closing, todo, read, overlapped, stuck>>

Next == \/ \E l \in Loads : Begin(l) \/ Close(l) \/ Connect(l) \/ Fail(l) \/ Clean(l)
        \/ Edit

Spec == Init /\ [][Next]_toolVars

-----------------------------------------------------------------------------
(* Properties *)

Cached == {cache[i] : i \in DOMAIN cache}

\* Every variable keeps its type.
TypeOK ==
    /\ file \in Files /\ read \in Files \cup {<<>>}
    /\ edits \in 0..MaxEdits
    /\ cache \in Seq(Process) /\ catalog \in Seq(Entry)
    /\ alive \subseteq Process
    /\ pc \in [Loads -> {"idle", "close", "connect", "clean", "returned"}]
    /\ closing \in [Loads -> Seq(Process)]
    /\ todo \in [Loads -> Seq(Servers)]
    /\ overlapped \in BOOLEAN /\ stuck \in BOOLEAN

\* When no reload is under way, the tools agents are given are connected, and they
\* are those the catalog calls available, however reloads have run into each other.
\* Unless two did, the catalog has the servers of the file, each once; and unless a
\* close failed as well, no other server process runs.
CacheIsLive ==
    (\A l \in Loads : ~Running(l)) =>
        /\ Cached \subseteq alive
        /\ Cached = {catalog[i].process : i \in DOMAIN catalog} \ {None}
        /\ ~overlapped => /\ read = [i \in DOMAIN catalog |-> catalog[i].server]
                          /\ ~stuck => alive = Cached
=============================================================================
