SPECIFICATION Spec
CONSTANTS
    Gers = {g1}
    Claims <- OneClaim
    MaxBlocks = 3
    MaxReorgs = 0
    Faults <- UpToTwoFaults
    BlockModulus = 2
INVARIANTS BlockNumberExact UnaskedEndBlock RequestTakenWhole
CHECK_DEADLOCK FALSE
