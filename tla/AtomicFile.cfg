\* Nothing has to happen once every writer has returned or was killed.
SPECIFICATION Spec
CHECK_DEADLOCK FALSE
CONSTANTS
    Writers = {w1, w2, w3}
    Before = before
INVARIANTS
    LeftoversRemoved
    SomeSaveIsNotLost
PROPERTIES
    RegisterSpec
