SPECIFICATION DAppSpec
CONSTANTS
    Users = {alice}
    NftIds = {1, 2}
    RentalDuration = 0
    MaxSlots = 2
    MaxTime = 0
    Tabs = {t1}
    Requests = {r1, r2}
    MaxReads = 3
    NoUser = NoUser
PROPERTY UpToDateListStays
