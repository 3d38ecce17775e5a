SPECIFICATION Spec
CONSTANTS
    Gers = {g1}
    Claims <- OneClaim
    MaxBlocks = 2
    MaxReorgs = 2
    Faults <- NoFaults
    BlockModulus = 3
INVARIANTS ProofOfOneChain ContextDescribesProof QuietRangeProvable UnaskedEndBlock
CHECK_DEADLOCK FALSE
