-------------------------- MODULE BridgeConstraints --------------------------
(***************************************************************************)
(* BridgeConstraintsInput::verify, the bridge half of the aggchain proof   *)
(* program, as operators.                                                  *)
(*                                                                         *)
(* A block is given by its events, as in L2Bridge.  Hashes and commitments *)
(* are free of collisions, so each stands for what is hashed; an L1 info   *)
(* root stands for the set of GERs below it, and a Merkle proof exists     *)
(* exactly for these.                                                      *)
(***************************************************************************)
EXTENDS HashChains, L2Bridge

\* A sketch of a block holds its header and the part of its state that the static
\* calls of the host touched.
EvmSketch(block, calls) == [block |-> block, calls |-> calls]

\* The calls that fetch_hash_chains makes, on the GER manager and on the bridge.
GerCalls == {"insertedGERHashChain", "removedGERHashChain"}
ClaimCalls == {"claimedGlobalIndexHashChain", "unsetGlobalIndexHashChain"}

\* Mutant: the anchor of the sketch is not compared.
executeAnywhere(state_sketch, block_hash, call) == call \in state_sketch.calls

\* StaticCallWithContext::execute gives a value only when the sketch has the state
\* that the call reads and is anchored at the expected block.
execute(state_sketch, block_hash, call) ==
    /\ call \in state_sketch.calls
    /\ state_sketch.block = block_hash

\* fetch_hash_chains reads a chain's value at both ends of the range, so both
\* static calls have to succeed.
fetch_hash_chains(input, call) ==
    /\ execute(input.bridge_witness.prev_l2_block_sketch, input.prev_l2_block_hash, call)
    /\ execute(input.bridge_witness.new_l2_block_sketch, input.new_l2_block_hash, call)

\* The GER manager of the new block gives the address of the bridge.
fetch_bridge_address(input) ==
    execute(input.bridge_witness.new_l2_block_sketch, input.new_l2_block_hash, "bridgeAddress")

\* The GlobalIndex keys of a list of claims.
GlobalIndices(exits) == [i \in 1..Len(exits) |-> exits[i].global_index]

\* Mutant: the chain of removed GERs is not rebuilt.
verify_inserted_hash_chain_only(input) ==
    LET w == input.bridge_witness
        prev == w.prev_l2_block_sketch.block
        new == w.new_l2_block_sketch.block
    IN  /\ \A call \in GerCalls : fetch_hash_chains(input, call)
        /\ validate_hash_chain(w.raw_inserted_gers, insertedGERHashChain(prev),
                               insertedGERHashChain(new))

verify_ger_hash_chains(input) ==
    LET w == input.bridge_witness
        prev == w.prev_l2_block_sketch.block
        new == w.new_l2_block_sketch.block
    IN  /\ \A call \in GerCalls : fetch_hash_chains(input, call)
        /\ validate_hash_chain(w.raw_inserted_gers, insertedGERHashChain(prev),
                               insertedGERHashChain(new))
        /\ validate_hash_chain(w.removed_gers, removedGERHashChain(prev),
                               removedGERHashChain(new))

\* Mutant: the chain of unset indices is not rebuilt.
verify_claimed_hash_chain_only(input) ==
    LET w == input.bridge_witness
        prev == w.prev_l2_block_sketch.block
        new == w.new_l2_block_sketch.block
    IN  /\ \A call \in ClaimCalls : fetch_hash_chains(input, call)
        /\ validate_hash_chain(w.bridge_exits_claimed, claimedGlobalIndexHashChain(prev),
                               claimedGlobalIndexHashChain(new))

verify_claims_hash_chains(input) ==
    LET w == input.bridge_witness
        prev == w.prev_l2_block_sketch.block
        new == w.new_l2_block_sketch.block
    IN  /\ \A call \in ClaimCalls : fetch_hash_chains(input, call)
        /\ validate_hash_chain(w.bridge_exits_claimed, claimedGlobalIndexHashChain(prev),
                               claimedGlobalIndexHashChain(new))
        /\ validate_hash_chain(w.global_indices_unset, unsetGlobalIndexHashChain(prev),
                               unsetGlobalIndexHashChain(new))

\* Mutant: any local exit root is accepted.
verify_any_ler(input) == TRUE

\* The bridge has the new exit root.
verify_new_ler(input) ==
    LET new == input.bridge_witness.new_l2_block_sketch
    IN  /\ execute(new, input.new_l2_block_hash, "getRoot")
        /\ getRoot(new.block) = input.new_local_exit_root

\* The claims minus the unset indices are the ones committed to.
verify_constrained_global_indices(input) ==
    filter_values(input.bridge_witness.global_indices_unset,
                  input.bridge_witness.bridge_exits_claimed,
                  GlobalIndices(input.bridge_witness.bridge_exits_claimed))
        = input.commit_imported_bridge_exits

\* InsertedGER::verify: a Merkle proof of the GER's leaf for this L1 info root.
inserted_ger_verify(ger, l1_info_root) == ger \in l1_info_root

\* The inserted GERs minus the removed ones are the ones given with an inclusion
\* proof, and all these proofs are valid for the L1 info root.
verify_inserted_gers(input) ==
    LET inserted == input.bridge_witness.inserted_gers IN
    /\ filter_values(input.bridge_witness.removed_gers,
                     input.bridge_witness.raw_inserted_gers,
                     input.bridge_witness.raw_inserted_gers) = inserted
    /\ \A i \in 1..Len(inserted) : inserted_ger_verify(inserted[i], input.l1_info_root)

\* BridgeConstraintsInput::verify.
verify(input) ==
    /\ verify_ger_hash_chains(input)
    /\ fetch_bridge_address(input)
    /\ verify_claims_hash_chains(input)
    /\ verify_new_ler(input)
    /\ verify_constrained_global_indices(input)
    /\ verify_inserted_gers(input)
=============================================================================
