------------------------- MODULE MCBridgeSettlement -------------------------
(* Instances of BridgeSettlement for TLC. *)
EXTENDS BridgeSettlement, TLC

\* GERs and leaf hashes are interchangeable.
GerLeafSymmetry == Permutations(Gers) \cup Permutations(LeafHashes)

\* A block that is not of the chain unless its first event is an exit: its bridge has
\* an exit root, and no GER or claim.
OneExitBlock == {<<[op |-> "exit", item |-> "any"]>>}
=============================================================================
