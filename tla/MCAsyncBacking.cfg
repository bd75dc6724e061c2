SPECIFICATION Spec
CONSTANTS
    AllowedAncestry = 2
    MaxRelay = 5
    MaxBlocks = 5
INVARIANTS
    SegmentIsExact
    BacklogBounded
    WhatIsBuiltExecutes
    VelocityHolds
