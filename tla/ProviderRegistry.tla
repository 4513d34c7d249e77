--------------------------- MODULE ProviderRegistry ---------------------------
(***************************************************************************)
(* The AIR provider configuration, the discovery of local servers and the  *)
(* registry of models.  A provider is a numbered slot of a type with the   *)
(* URL of a server; its name is its slot ("LLM Provider 2").  A refresh    *)
(* asks the providers for their models and suspends until all answered;    *)
(* meanwhile the configuration may change and other refreshes may run.     *)
(***************************************************************************)
EXTENDS Integers, Sequences, FiniteSets, Functions

CONSTANTS Urls,       \* base URLs of servers
          Models,     \* model ids
          Hosts,      \* the models each server offers
          Kind,       \* what the metadata of a model says it is, or "unknown"
          Types,      \* the types in the order they are loaded, a sequence
          Fallback,   \* TTS_BASE_URL and STT_BASE_URL: the URL of a type's first
                      \* slot while that has none of its own, or None
          MaxSlot,    \* slots of a type that are loaded (50)
          Refreshes,  \* calls of refresh_models
          MaxChanges, \* bound: changes of the configuration
          None

Slots == Range(Types) \X (1..MaxSlot + 1)

\* A provider as a refresh asks it.
Request == [slot : Slots, url : Urls]

RegistryAssumption ==
    /\ Types \in Seq(STRING) /\ "llm" \in Range(Types)
    /\ Hosts \in [Urls -> SUBSET Models]
    /\ Kind \in [Models -> Range(Types) \cup {"unknown"}]
    /\ Fallback \in [Range(Types) -> Urls \cup {None}] /\ Fallback["llm"] = None
    /\ MaxSlot \in Nat \ {0}
    /\ MaxChanges \in Nat
    /\ None \notin Urls /\ None \notin Slots /\ None \notin Seq(Request)

VARIABLES env,     \* the URL in each slot, as in .env
          shown,   \* the types each discovered URL is offered for, as a page shows it
          asked,   \* the providers each refresh asked, in order; None: not under way
          owner,   \* models_cache["all"]: the provider of each model, or None
          changes, \* history: changes of the configuration so far
          young,   \* history: the refreshes under way that began since the last change
          uptodate,\* history: the registry is of a refresh that began since then,
          missed   \*          and these are the providers that failed to answer it

vars == <<env, shown, asked, owner, changes, young, uptodate, missed>>

\* The URL of a slot, the slots that have one, and those of them that are loaded
\* before s: of the types before its own, and of its own with a smaller number.
Url(e, s) == IF e[s] = None /\ s[2] = 1 THEN Fallback[s[1]] ELSE e[s]
Loaded(e) == {s \in Slots : Url(e, s) # None /\ s[2] <= MaxSlot}
Nr(t) == CHOOSE i \in DOMAIN Types : Types[i] = t
Earlier(e, s) ==
    {z \in Loaded(e) : Nr(z[1]) < Nr(s[1]) \/ (z[1] = s[1] /\ z[2] < s[2])}

\* settings.PROVIDERS: the slots with a URL in the order they are loaded.
ProviderSeq(e) == [i \in 1..Cardinality(Loaded(e)) |->
    CHOOSE s \in Loaded(e) : Cardinality(Earlier(e, s)) = i - 1]

AskedSlots(j) == IF asked[j] = None THEN {} ELSE {asked[j][i].slot : i \in DOMAIN asked[j]}

Init == /\ env \in [Slots -> {None}]
        /\ shown = [u \in Urls |-> {}]
        /\ asked = [j \in Refreshes |-> None]
        /\ owner = [m \in Models |-> None]
        /\ changes = 0
        /\ young = {} /\ uptodate = FALSE /\ missed = {}

-----------------------------------------------------------------------------
(* Refreshing the registry *)

\* The type of a model found at a provider or server of type t.
TypeOfModel(m, t) == IF Kind[m] = "unknown" THEN t ELSE Kind[m]

\* The refresh j asks the providers of configuration e.
Ask(j, e) == asked' = [asked EXCEPT ![j] =
    [i \in DOMAIN ProviderSeq(e) |-> [slot |-> ProviderSeq(e)[i], url |-> Url(e, ProviderSeq(e)[i])]]]

\* A refresh of its own: at start-up, or because a client lists the models.
StartRefresh(j) ==
    /\ asked[j] = None
    /\ Ask(j, env)
    /\ young' = young \cup {j}
    /\ UNCHANGED <<env, shown, owner, changes, uptodate, missed>>

\* What the fetch from a provider returns: a failure is an empty list.
Fetched(request, failed) == IF request.slot \in failed THEN {} ELSE Hosts[request.url]

\* The answers that are used: they are paired with the providers of now.
Paired(requests, e) == SubSeq(requests, 1, IF Len(requests) < Len(ProviderSeq(e))
                                           THEN Len(requests) ELSE Len(ProviderSeq(e)))

\* The first provider that has a model is its provider.
Owners(requests, failed) ==
    [m \in Models |->
        LET having == {i \in DOMAIN requests : m \in Fetched(requests[i], failed)}
        IN  IF having = {} THEN None
            ELSE requests[CHOOSE i \in having : \A k \in having : i <= k].slot]

\* All providers answered refresh j, those in failed with an error.
FinishRefresh(j, failed) ==
    /\ asked[j] # None
    /\ failed \subseteq AskedSlots(j)
    /\ owner' = Owners(Paired(asked[j], env), failed)
    /\ asked' = [asked EXCEPT ![j] = None]
    /\ young' = young \ {j}
    /\ uptodate' = (j \in young)
    /\ missed' = failed
    /\ UNCHANGED <<env, shown, changes>>

-----------------------------------------------------------------------------
(* The configuration *)

\* The first free number of a type, beyond the loaded ones if need be.
FirstFree(e, t) == CHOOSE n \in 1..MaxSlot + 1 :
    /\ e[<<t, n>>] = None \/ n = MaxSlot + 1
    /\ \A k \in 1..n-1 : e[<<t, k>>] # None

\* slip: the refresh asks the providers before they are reloaded
Reconfigure_AskFirst(e, j) ==
    /\ asked[j] = None
    /\ changes < MaxChanges
    /\ changes' = changes + 1
    /\ env' = e
    /\ Ask(j, env)
    /\ young' = {j} /\ uptodate' = FALSE

\* The configuration becomes e, is reloaded, and a refresh starts.
Reconfigure(e, j) ==
    /\ asked[j] = None
    /\ changes < MaxChanges
    /\ changes' = changes + 1
    /\ env' = e
    /\ Ask(j, e)
    /\ young' = {j} /\ uptodate' = FALSE

AddProvider(t, u, j) ==
    /\ Reconfigure([env EXCEPT ![<<t, FirstFree(env, t)>>] = u], j)
    /\ UNCHANGED <<shown, owner, missed>>

UpdateProvider(s, u, j) ==
    /\ Reconfigure([env EXCEPT ![s] = u], j)
    /\ UNCHANGED <<shown, owner, missed>>

DeleteProvider(s, j) ==
    /\ Reconfigure([env EXCEPT ![s] = None], j)
    /\ UNCHANGED <<shown, owner, missed>>

-----------------------------------------------------------------------------
(* Discovery *)

\* The types a server is found to serve.
Detected(u) == {TypeOfModel(m, "llm") : m \in Hosts[u]}

\* The types of a server no loaded provider of that type and URL covers.
Uncovered(u) == {t \in Detected(u) : \A n \in 1..MaxSlot : Url(env, <<t, n>>) # u}

\* A scan finds the servers that are up; a page shows what is new.
Discover(up) ==
    /\ shown' = [u \in Urls |-> IF u \in up THEN Uncovered(u) ELSE {}]
    /\ UNCHANGED <<env, asked, owner, changes, young, uptodate, missed>>

\* The slot an accepted server takes: its own if it has one, else a free one.
Target(t, u) ==
    LET own == {n \in 1..MaxSlot + 1 : env[<<t, n>>] = u
                                       /\ \A k \in 1..n-1 : env[<<t, k>>] \notin {None, u}}
    IN  IF own # {} THEN CHOOSE n \in own : TRUE ELSE FirstFree(env, t)

\* A page accepts servers for the types it shows, which may be old news.  The slot of
\* each is found before any is written, so the last of two that find one slot takes it.
Accept(us, j) ==
    LET Takers(s) == {i \in DOMAIN us : s[1] \in shown[us[i]] /\ Target(s[1], us[i]) = s[2]}
    IN  /\ \A i \in DOMAIN us : shown[us[i]] # {}
        /\ Reconfigure([s \in Slots |-> IF Takers(s) = {} THEN env[s] ELSE
                            us[CHOOSE i \in Takers(s) : \A k \in Takers(s) : k <= i]], j)
        /\ UNCHANGED <<shown, owner, missed>>

\* Lists of as many servers as there are.
Lists == UNION {[1..n -> Urls] : n \in 1..Cardinality(Urls)}

-----------------------------------------------------------------------------

Next == \/ \E j \in Refreshes :
              \/ StartRefresh(j)
              \/ \E failed \in SUBSET AskedSlots(j) : FinishRefresh(j, failed)
              \/ \E t \in Range(Types), u \in Urls : AddProvider(t, u, j)
              \/ \E s \in Slots, u \in Urls : UpdateProvider(s, u, j)
              \/ \E s \in Slots : DeleteProvider(s, j)
              \/ \E us \in Lists : Accept(us, j)
        \/ \E up \in SUBSET Urls : Discover(up)

Spec == Init /\ [][Next]_vars

-----------------------------------------------------------------------------
(* Properties *)

\* Every variable keeps its type.
TypeOK == /\ env \in [Slots -> Urls \cup {None}]
          /\ asked \in [Refreshes -> Seq(Request) \cup {None}]
          /\ shown \in [Urls -> SUBSET Range(Types)]
          /\ owner \in [Models -> Slots \cup {None}]
          /\ changes \in 0..MaxChanges
          /\ young \subseteq Refreshes /\ uptodate \in BOOLEAN /\ missed \subseteq Slots

\* The first of a set of slots in the order they are loaded, if there is one.
FirstOf(S) == IF S = {} THEN None
              ELSE CHOOSE s \in S : S \cap Earlier(env, s) = {}

\* The provider that hosts model m, as the registry has it.
HostOf(m) == IF owner[m] \in Loaded(env) THEN owner[m] ELSE None

\* The first provider configured for type t, else the first that has a model of it.
OfType(t) ==
    LET configured == {s \in Loaded(env) : s[1] = t}
        able == {s \in Loaded(env) : \E k \in Models :
                    owner[k] = s /\ TypeOfModel(k, s[1]) = t}
    IN  FirstOf(IF configured # {} THEN configured ELSE able)

\* The provider a request of type t for model m is forwarded to.
Route(m, t) == IF HostOf(m) # None THEN HostOf(m) ELSE OfType(t)

\* Once a refresh that began since the last change of the configuration is over, a
\* request for a model that a provider offers, and offered it too, goes to a
\* provider that offers it, whatever its type, and whatever other refreshes are
\* under way: no change leaves a route to a server that was replaced, and a
\* provider that failed hides no model that another one has.
RoutesToHost ==
    uptodate => \A m \in Models, t \in Range(Types) :
        (\E s \in Loaded(env) \ missed : m \in Hosts[Url(env, s)]) =>
            Route(m, t) # None /\ m \in Hosts[Url(env, Route(m, t))]
=============================================================================
