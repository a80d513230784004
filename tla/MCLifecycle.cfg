CONSTANTS
    Node = {n1, n2, n3}
    handler <- WiredRouter
SPECIFICATION FairSpec
INVARIANTS LayersConsistent CallbacksExact StatusExact NotifiedOnce
PROPERTY OperationsEnd
CHECK_DEADLOCK FALSE
