\* A stop in one process against an answer in the other.
SPECIFICATION Spec
CONSTANTS
    Calls = {c1, c2, c3}
    Works = {w1}
    Web = web
    Procs = {web, mcp}
    Ops = {"chat"}
    MaxAsks = 1
    None = None
SYMMETRY NameSymmetry
INVARIANTS
    StopIsFinal
