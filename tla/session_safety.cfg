SPECIFICATION Spec
CONSTANTS
    Thread = {t1, t2}
    MaxId = 4
    MaxCloses = 2
    MaxWrites = 0
SYMMETRY ThreadSymmetry
CONSTRAINT WritesApart
INVARIANTS
    DirectoryLive
    UserKnown
    CountersExact
PROPERTY LifecycleImplemented
CHECK_DEADLOCK FALSE
