\* A retry in a work session may answer an unmarked question.
SPECIFICATION Spec
CONSTANTS
    Calls = {c1, c2, c3}
    Works = {w1}
    Web = web
    Procs = {web}
    Ops = {"chat", "retry"}
    MaxAsks = 1
    None = None
SYMMETRY NameSymmetry
PROPERTY ResumesByMarker
