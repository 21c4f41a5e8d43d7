SPECIFICATION FairSpec
CONSTANTS
    Users = {r1, r2}
    Given = given
    Closer = closer
    None = none
INVARIANTS
    TypeOK
    ClosedClientIsExpected
    LeaksExplained
PROPERTIES
    OwnerSpec
    Returns
