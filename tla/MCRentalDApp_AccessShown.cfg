SPECIFICATION DAppSpec
CONSTANTS
    Users = {alice}
    NftIds = {1}
    RentalDuration = 0
    MaxSlots = 1
    MaxTime = 0
    Tabs = {t1}
    Requests = {r1}
    MaxReads = 2
    NoUser = NoUser
INVARIANT AccessShownWhenGranted
