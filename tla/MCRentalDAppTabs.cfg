SPECIFICATION DAppSpec
CONSTANTS
    Users = {alice, bob}
    NftIds = {1}
    RentalDuration = 0
    MaxSlots = 1
    MaxTime = 1
    Tabs = {t1, t2}
    Requests = {r1, r2}
    MaxReads = 2
    NoUser = NoUser
SYMMETRY DAppSymmetry
INVARIANTS
    DAppTypeOK
    RecordsBackedByRentals
    StaleOffersWereTaken
