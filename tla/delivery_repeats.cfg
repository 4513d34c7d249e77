\* A message handled while the queue is being delivered.
SPECIFICATION Spec
CONSTANTS
    Turns = {t1, t2}
    Pollers = {p1}
    Pausers = {}
    MaxParts = 3
    Blank = Blank
SYMMETRY DeliverySymmetry
INVARIANT NeverRedelivered
