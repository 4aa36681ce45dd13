SPECIFICATION Spec
CONSTANTS
    Thread = {t1, t2}
    Session = {s1, s2}
    Pieces = 2
    Room = {0, 1, 2}
    MaxSends = 2
SYMMETRY Interchangeable
INVARIANTS
    StreamsWhole
CHECK_DEADLOCK FALSE
