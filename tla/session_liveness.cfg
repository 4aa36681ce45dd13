SPECIFICATION FairSpec
CONSTANTS
    Thread = {t1, t2}
    MaxId = 3
    MaxCloses = 2
    MaxWrites = 1
INVARIANTS
    CloseInv
    DestroyedIsUnused
    CloseOnce
PROPERTY CloseCompletes
CHECK_DEADLOCK FALSE
