SPECIFICATION WatchedSpec
INVARIANTS
    TypeOK
    OpensLast
PROPERTY EssentialLossEndsNode
CHECK_DEADLOCK FALSE
