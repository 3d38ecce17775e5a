SPECIFICATION Spec
CONSTANTS
    Gers = {g1}
    Indices = {i1}
    LeafHashes = {x, y}
    OtherBlocks <- OneExitBlock
    MaxEvents = 4
SYMMETRY GerLeafSymmetry
INVARIANTS GersLegitimate ClaimsReported CommitmentExact HonestRangeProvable
CHECK_DEADLOCK FALSE
