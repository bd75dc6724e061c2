SPECIFICATION ChainSpec
CONSTANTS
    Accounts = {alice, bob}
    Unsigned = Unsigned
    MaxNumber = 1
    MaxArgument = 0
    MaxEvents = 1
    SudoKey = alice
    MaximumBlockWeight = 20
    BaseBlock = 1
    BaseExtrinsic = 1
    LengthFee = 1
    Rich = 18
    Poor = 3
    Funds <- MCFunds
    MaxNonce = 1
    MaxPool = 1
INVARIANTS
    ChainTypeOK
    AppliedInOrder
    BlockBounded
    AcceptedFitsEmptyBlock
PROPERTIES
    NeverWraps
    OnlyTransferKills
    ActsForItself
