SPECIFICATION V2Spec
CONSTANTS
    alice = alice
    bob = bob
    t1 = t1
    t2 = t2
    r1 = r1
    r2 = r2
    Users = {alice, bob}
    NftIds = {1}
    RentalDuration = 0
    MaxSlots = 2
    MaxTime = 1
    Tabs = {t1}
    Requests = {r1, r2}
    NoUser = NoUser
SYMMETRY V2Symmetry
INVARIANTS
    RecordsCostTwoRentals
    SecondRentIsAnothers
