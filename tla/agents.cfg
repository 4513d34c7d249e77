\* What agents do with a request, their tools, their session and the gateway of
\* their model calls, one part at a time.  A part stops when its request, or its
\* bound, is used up.
SPECIFICATION Spec
CHECK_DEADLOCK FALSE
CONSTANTS
    ChatRounds = 2
    Retries = 1
    Answers = 1
    MaxQuestions = 3
    MaxHelpers = 2
    Passes = 2
    Backends = {"local", "a2a"}
    Requests = {r1, r2, r3}
    Late = {r3}
    Traces = {t1, t2}
    NoSummary = NoSummary
    u1 = u1
    u2 = u2
    Urls = {u1, u2}
    m1 = m1
    m2 = m2
    m3 = m3
    Models = {m1, m2, m3}
    Hosts <- TwoHosts
    Kind <- ThreeKinds
    Types <- TwoTypes
    Fallback <- Unnumbered
    MaxSlot = 2
    Refreshes = {j1, j2}
    MaxChanges = 2
    Loads = {boot, l1, l2}
    Boot = boot
    sa = sa
    sb = sb
    sc = sc
    Servers = {sa, sb, sc}
    Broken = {sc}
    Files <- TwoFiles
    MaxEdits = 2
    Turns = {h1, h2, h3}
    Pollers = {p1}
    MaxParts = 2
    Nothing = Nothing
CONSTRAINT OneAtATime
INVARIANTS
    TypesOK
    DoneMeansDone
    QuestionStands
    TurnsAreFiled
    HandoffFirst
    WaitingIsResumable
    FirstRunSettles
    AllOrNothing
    WaitsForTheLiving
    ReportedOnce
    RoutesToHost
    CacheIsLive
    SessionContinues
