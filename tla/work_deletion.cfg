\* A work is deleted after an artifact made in it was revised in the classic chat.
SPECIFICATION Spec
CHECK_DEADLOCK FALSE
CONSTANTS
    Callers = {c1, c2, c3}
    Works = {w1}
    Members = {host, dev}
    Host = host
    Sessions = {s1, s2}
    Chat = chat
    Names = {n1}
    None = None
SYMMETRY TableSymmetry
INVARIANT FilesGoWithRows
