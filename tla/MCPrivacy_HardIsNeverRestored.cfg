SPECIFICATION Spec
CONSTANTS
    MaxCells = 2
    MaxSpans = 1
INVARIANT
    HardIsNeverRestored
