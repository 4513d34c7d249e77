\* Every operation of one process but crashes.  Liveness, so no symmetry.
SPECIFICATION FairSpec
CONSTANTS
    Calls = {c1, c2, c3}
    Works = {w1}
    Web = web
    Procs = {web}
    Ops = {"chat", "submit", "cancel", "retry"}
    MaxAsks = 1
    None = None
PROPERTY EveryCallReturns
