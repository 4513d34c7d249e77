----------------------------- MODULE ProxyTrace -----------------------------
(***************************************************************************)
(* The trace summaries of the AIR proxy.  Requests that carry one trace id *)
(* are numbered, recorded in the summary of the trace and completed; the   *)
(* summary is reported when no request of it is active.                    *)
(*                                                                         *)
(* The server is one asyncio loop: what runs between two awaits is one     *)
(* action.  The body of a request is in memory when it is numbered, since  *)
(* the provider lookup read it, unless its content type is neither JSON    *)
(* nor multipart (Late): then reading it lies between number and record.   *)
(***************************************************************************)
EXTENDS Integers, Sequences, FiniteSets

CONSTANTS Requests,   \* requests forwarded to a provider
          Traces,     \* trace ids
          Late,       \* requests whose body is read after they are numbered
          NoSummary   \* a trace without summary

TraceAssumption ==
    /\ Late \subseteq Requests
    /\ NoSummary \notin [next: Nat, active: SUBSET Nat,
                         records: Seq([number: Nat, of: Requests, by: SUBSET Requests])]

VARIABLES pc,        \* where each request is
          trace,     \* its trace id
          number,    \* its sequence number
          summary,   \* _trace_summaries
          reports    \* history: the records of the summaries reported, by trace

vars == <<pc, trace, number, summary, reports>>

InFlight == {"numbered", "sent", "streaming"}
Over == {"done", "failed"}

Record == [number: Nat, of: Requests, by: SUBSET Requests]
Summary == [next: Nat, active: SUBSET Nat, records: Seq(Record)]

Init == /\ pc = [r \in Requests |-> "new"]
        /\ trace \in [Requests -> Traces]
        /\ number = [r \in Requests |-> 0]
        /\ summary = [t \in Traces |-> NoSummary]
        /\ reports = [t \in Traces |-> <<>>]

-----------------------------------------------------------------------------
(* The summary *)

\* The number the next request of a trace gets.
NextNumber(t) == IF summary[t] = NoSummary THEN 1 ELSE summary[t].next

\* Taking a number moves the counter of a summary, if there is one.
Numbered(t) == IF summary[t] = NoSummary THEN NoSummary
               ELSE [summary[t] EXCEPT !.next = @ + 1]

\* The summary s of a trace with request r recorded under number n.
Recorded(s, r, n) ==
    LET record == [number |-> n, of |-> r, by |-> {}]
    IN  IF s = NoSummary
        THEN [next |-> n + 1, active |-> {n}, records |-> <<record>>]
        ELSE [next    |-> IF s.next > n + 1 THEN s.next ELSE n + 1,
              active  |-> s.active \cup {n},
              records |-> Append(s.records, record)]

\* The records with the answer of request r under the first of number n.
Answered(records, r, n) ==
    LET first == {i \in DOMAIN records : /\ records[i].number = n
                                         /\ \A j \in 1..(i-1) : records[j].number # n}
    IN  [i \in DOMAIN records |-> IF i \in first THEN [records[i] EXCEPT !.by = {r}]
                                                 ELSE records[i]]

\* slip: an answer does not end the wait for its number
StillActive_Same(s, n) == s.active

\* The numbers a summary still waits for after number n is answered.
StillActive(s, n) == s.active \ {n}

\* Request r is answered: its record is completed and the summary reported if
\* no other request of it is active.
Complete(r) ==
    LET t == trace[r]
        s == summary[t]
    IN  IF s = NoSummary
        THEN UNCHANGED <<summary, reports>>
        ELSE LET records == Answered(s.records, r, number[r])
                 active  == StillActive(s, number[r])
             IN  IF active = {}
                 THEN /\ summary' = [summary EXCEPT ![t] = NoSummary]
                      /\ reports' = [reports EXCEPT ![t] = Append(@, records)]
                 ELSE /\ summary' = [summary EXCEPT ![t] = [next |-> s.next, active |-> active,
                                                            records |-> records]]
                      /\ UNCHANGED reports

-----------------------------------------------------------------------------
(* Requests *)

At(r, here, there) == pc[r] = here /\ pc' = [pc EXCEPT ![r] = there]

\* A request is numbered; its body is still to be read.
Number(r) ==
    /\ r \in Late
    /\ At(r, "new", "numbered")
    /\ number' = [number EXCEPT ![r] = NextNumber(trace[r])]
    /\ summary' = [summary EXCEPT ![trace[r]] = Numbered(trace[r])]
    /\ UNCHANGED <<trace, reports>>

\* The body arrives and the request is recorded and sent.
ReadBody(r) ==
    /\ At(r, "numbered", "sent")
    /\ summary' = [summary EXCEPT ![trace[r]] = Recorded(@, r, number[r])]
    /\ UNCHANGED <<trace, number, reports>>

\* A request whose body is known is numbered, recorded and sent at once.
Send(r) ==
    /\ r \notin Late
    /\ At(r, "new", "sent")
    /\ number' = [number EXCEPT ![r] = NextNumber(trace[r])]
    /\ summary' = [summary EXCEPT ![trace[r]] =
                      Recorded(Numbered(trace[r]), r, NextNumber(trace[r]))]
    /\ UNCHANGED <<trace, reports>>

\* The answer of a request that is not streamed.
Reply(r) ==
    /\ At(r, "sent", "done")
    /\ Complete(r)
    /\ UNCHANGED <<trace, number>>

\* The stream opens: the answer is passed on by a generator.
OpenStream(r) ==
    /\ At(r, "sent", "streaming")
    /\ UNCHANGED <<trace, number, summary, reports>>

\* The generator ends, by the end of the stream, an error in it or a client
\* that left: its finally clause completes the request.
EndStream(r) ==
    /\ At(r, "streaming", "done")
    /\ Complete(r)
    /\ UNCHANGED <<trace, number>>

\* The client left before the generator was started: nothing completes it.
Abandon(r) ==
    /\ At(r, "streaming", "abandoned")
    /\ UNCHANGED <<trace, number, summary, reports>>

\* Reading the body or asking the provider raises: the summary of the whole
\* trace is dropped.
Fail(r) ==
    /\ pc[r] \in {"numbered", "sent"}
    /\ pc' = [pc EXCEPT ![r] = "failed"]
    /\ summary' = [summary EXCEPT ![trace[r]] = NoSummary]
    /\ UNCHANGED <<trace, number, reports>>

RequestStep(r) == \/ Number(r) \/ ReadBody(r) \/ Send(r) \/ Reply(r)
                  \/ OpenStream(r) \/ EndStream(r) \/ Abandon(r) \/ Fail(r)

Next == \E r \in Requests : RequestStep(r)

Spec == Init /\ [][Next]_vars

-----------------------------------------------------------------------------
(* Properties *)

Of(t) == {r \in Requests : trace[r] = t}

\* Every variable keeps its type.
TypeOK == /\ pc \in [Requests -> {"new", "abandoned"} \cup InFlight \cup Over]
          /\ trace \in [Requests -> Traces]
          /\ number \in [Requests -> Nat]
          /\ summary \in [Traces -> Summary \cup {NoSummary}]
          /\ reports \in [Traces -> Seq(Seq(Record))]

\* A summary waits only for requests that are still to end, whatever failed
\* and however numbers were shared: so none is kept for good (apart from those
\* of abandoned streams, which nothing ends).
WaitsForTheLiving ==
    \A t \in Traces : summary[t] # NoSummary =>
        \A n \in summary[t].active :
            \E r \in Of(t) : number[r] = n /\ pc[r] \in {"sent", "streaming", "abandoned"}

\* Nothing failed in the trace and each request was numbered and recorded at
\* once.
Regular(t) == \A r \in Of(t) : pc[r] # "failed" /\ r \notin Late

\* Where the reports of a trace mention a request.
Mentions(t, r) == UNION {{i} \X {j \in DOMAIN reports[t][i] : reports[t][i][j].of = r} :
                            i \in DOMAIN reports[t]}

\* A summary is reported "once all related requests finish": when all requests of
\* a regular trace are over, each was reported exactly once, whether the trace came
\* in one summary or in several.
ReportedOnce ==
    \A t \in Traces :
        Regular(t) /\ (\A r \in Of(t) : pc[r] \in {"new", "done"})
        => \A r \in Of(t) : pc[r] = "done" => Cardinality(Mentions(t, r)) = 1
=============================================================================
