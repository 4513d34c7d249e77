\* A page whose queue overflowed keeps its open stream and hears nothing more.
SPECIFICATION FairSpec
CONSTANTS
    Clients = {p1}
    Writers = {t1, t2}
    Capacity = 1
    MaxChanges = 4
PROPERTY OpenStreamDelivers
