SPECIFICATION TableSpec
CONSTANTS
    n1 = n1
    n2 = n2
    n3 = n3
    n4 = n4
    Null = Null
    Node = {n1, n2, n3, n4}
    List = {0, 1, 2}
    Name <- MCName
    htable_size = 2
INVARIANTS
    Mirrored
    FindsNewest
PROPERTIES
    ListsAreSequences
SYMMETRY NodeSymmetry
CHECK_DEADLOCK FALSE
