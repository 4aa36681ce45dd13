SPECIFICATION Spec
CONSTANTS
    Thread = {t1, t2}
    MaxId = 3
    MaxCloses = 2
    MaxWrites = 1
SYMMETRY ThreadSymmetry
INVARIANT OwnHandlerSessionLive
CHECK_DEADLOCK FALSE
