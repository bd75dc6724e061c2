SPECIFICATION Spec
CONSTANTS
    Alice = Alice
    Bob = Bob
    Others = {Charlie, Dave}
    Nobody = Nobody
    Period = 2
    MinEligibleCollators = 2
    MaxCandidates = 2
    MaxInvulnerables = 2
    MaxDesired = 3
    MaxBlock = 6
    MaxCalls = 4
INVARIANTS
    TypeOK
    AuthoritiesNeverEmpty
    NoAuthorityTwice
PROPERTIES
    CreditGoesToSealer
    KickedWereIdle
