\* Messages, answers and stops for one work in one process; or one page, two
\* writers and a queue of two.
SPECIFICATION WebSpec
CONSTANTS
    Calls = {c1, c2, c3, c4}
    Works = {w1}
    Web = web
    Procs = {web}
    Ops = {"chat", "submit"}
    MaxAsks = 2
    None = None
    Clients = {p1}
    Writers = {t1, t2}
    Capacity = 2
    MaxChanges = 3
SYMMETRY CallSymmetry
INVARIANTS
    TypeOK
    OneRunningPerWork
    StatusesAgree
    QuestionStaysAnswerable
    NoticesTellTheStory
    NoGaps
PROPERTIES
    SettledIsFinal
    ImplementsConversation
    ChangeReachesPage
