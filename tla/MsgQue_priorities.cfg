SPECIFICATION Spec
CONSTANTS
    Thread = {r1, r2}
    Node = {n1, n2, n3, n4}
    End = End
    NoMessage = NoMessage
    Garbage = Garbage
    QueSize = 3
    PrioLevel = 3
SYMMETRY QueSymmetry
INVARIANTS TypeOK TokenPerMessage IteratorsInPlace PriorityOrder
PROPERTY IsPrioQueue
