SPECIFICATION Spec
CONSTANTS
    Gers = {g1}
    Claims <- OneClaim
    MaxBlocks = 2
    MaxReorgs = 0
    Faults <- NoFaults
    BlockModulus = 4
INVARIANTS ClaimRootBindsBlock
CHECK_DEADLOCK FALSE
