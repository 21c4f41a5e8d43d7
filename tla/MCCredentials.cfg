\* Every combination of sources, all three database paths, two known locations.
CONSTANTS
    Texts <- AllTexts
    Given <- AllGiven
    Fixed <- Locations
    ConfigDb = configDb
    KiroxDb = kiroxDb
    AssistantDb = assistantDb
    None = none
    Blank = blank
    a = a
    b = b
    c = c
    e = e
    p = p
    q = q
    r = r
    x = x
    f1 = f1
    f2 = f2
SPECIFICATION Spec
INVARIANTS
    TypeOK
    BundleFromItsSource
    FirstTierWins
    ConfiguredDatabaseOnly
