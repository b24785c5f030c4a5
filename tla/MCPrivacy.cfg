SPECIFICATION Spec
CONSTANTS
    MaxCells = 5
    MaxSpans = 2
INVARIANTS
    TypeOK
    RestoredExactly
    SentWholeOnlyWithParticle
    HardStaysHidden
