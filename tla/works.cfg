\* One work's tables and files under three calls, and the locks of three works,
\* one part at a time.  The tables stop when their calls are used up.
SPECIFICATION Spec
CHECK_DEADLOCK FALSE
CONSTANTS
    Callers = {c1, c2, c3}
    Works = {w1}
    Members = {host, dev}
    Host = host
    Sessions = {s1, s2}
    Chat = chat
    Names = {n1, n2}
    LockedWorks = {w1, w2, w3}
    Locks = {k1, k2, k3, k4, k5}
    MaxEntries = 2
    None = None
SYMMETRY WorksSymmetry
INVARIANTS
    TypesOK
    NothingLeft
    RowsHaveFiles
PROPERTIES
    ImplementsMutex
