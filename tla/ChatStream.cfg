\* Every answer of up to three frames of every kind, in every chunking, cut
\* short anywhere, in the middle of a prelude too, for both protocols.
CONSTANTS
    PreludeSize = 2
    Lengths = {3}
    MaxFrames = 3
SPECIFICATION Spec
INVARIANTS
    TypeOK
    WellFormed
    ReleasedBeforeVerdict
PROPERTY RelaySpec
