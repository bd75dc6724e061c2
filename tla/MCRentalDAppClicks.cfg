SPECIFICATION DAppSpec
CONSTANTS
    Users = {alice, bob}
    NftIds = {1}
    RentalDuration = 0
    MaxSlots = 2
    MaxTime = 0
    Tabs = {t1}
    Requests = {r1, r2}
    MaxReads = 4
    NoUser = NoUser
INVARIANTS
    RecordsBackedByRentals
    EachRentalTakesOneCopy
PROPERTY ConfirmedRequestsSettle
