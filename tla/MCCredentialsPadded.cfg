\* The same inputs: KIROX_TOKEN with a trailing space, and a profile in the file.
CONSTANTS
    Texts <- AllTexts
    Given <- AllGiven
    Fixed <- Locations
    ConfigDb = configDb
    KiroxDb = kiroxDb
    AssistantDb = assistantDb
    None = none
    Blank = blank
    a = a
    b = b
    c = c
    e = e
    p = p
    q = q
    r = r
    x = x
    f1 = f1
    f2 = f2
SPECIFICATION Spec
INVARIANT ProfileOfTokenTier
