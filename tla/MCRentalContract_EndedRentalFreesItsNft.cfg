SPECIFICATION Spec
CONSTANTS
    alice = alice
    bob = bob
    carol = carol
    Users = {alice, bob, carol}
    NftIds = {0, 1}
    RentalDuration = 1
    MaxSlots = 3
    MaxTime = 3
PROPERTY EndedRentalFreesItsNft
