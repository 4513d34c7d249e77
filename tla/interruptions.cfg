\* Cancel endpoint and crashes cut into messages and answers, in two works.
SPECIFICATION Spec
CONSTANTS
    Calls = {c1, c2, c3}
    Works = {w1, w2}
    Web = web
    Procs = {web}
    Ops = {"chat", "submit", "cancel", "crash"}
    MaxAsks = 1
    None = None
SYMMETRY NameSymmetry
INVARIANTS
    AnswersOwnWork
    OneAnswerPerQuestion
    StopIsFinal
    WaitingSurvivesCrash
