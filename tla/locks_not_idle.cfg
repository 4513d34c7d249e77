\* A lock is evicted between being handed out and being acquired.
SPECIFICATION Spec
CONSTANTS
    Calls = {c1, c2}
    Works = {w1, w2}
    Locks = {k1, k2, k3, k4}
    MaxEntries = 1
    None = None
PROPERTY EvictsOnlyIdle
