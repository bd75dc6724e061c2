SPECIFICATION Spec
CONSTANTS
    SelfPara = 1000
    Siblings = {2000}
    Users = {alice}
    Amount = 2
    Cost = 1
    ExistentialDeposit = 2
    ChainFunds = {3}
    UserFunds = {0}
    MaxInstructions = 100
    MaxPrefixes = 8
    MaxLength = 4
    MaxMessages = 2
INVARIANTS
    TypeOK
    UnpaidOnlyFromRelay
    ActsOnlyAsItself
    FullyBacked
CHECK_DEADLOCK FALSE
