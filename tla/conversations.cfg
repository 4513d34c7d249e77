\* Either turns, polls and a pause of one session that overlap at will, or two memory
\* jobs at a time, of two sessions and of none, about two subjects.  It stops when the
\* turns and pauses are used up and nobody polls.
SPECIFICATION Spec
CHECK_DEADLOCK FALSE
CONSTANTS
    Turns = {x1, x2}
    Pollers = {y1, y2}
    Pausers = {u1}
    MaxParts = 3
    Blank = Blank
    Jobs = {x1, x2}
    Sessions = {s1, s2}
    Subjects = {n1, n2}
    Contents = {y1, y2}
    Shared = Shared
    MaxRows = 2
    Parts = {"delivery", "memory"}
SYMMETRY ConversationSymmetry
CONSTRAINT OneException
INVARIANTS
    TypesOK
    ResetForgets
    NoPieceSkipped
    NothingLost
    SupersededHasSuccessor
    OneFactPerSubject
PROPERTIES
    PauseHolds
    OwnSessionOnly
