--------------------------- MODULE RequestDecoding ---------------------------
(***************************************************************************)
(* The conversion of a gRPC request into AggchainProofInputs: what of it   *)
(* is checked, in which order, and what the client is told.                *)
(*                                                                         *)
(* A field of the wire format is well formed, "missing" or "invalid".  A   *)
(* request carries the set of its faults, [at |-> field, how |-> status];  *)
(* a fault in a list is in all of its entries, and in none of an empty     *)
(* list.                                                                   *)
(***************************************************************************)
EXTENDS Naturals, Sequences

FaultyFields == {"l1_info_tree_root_hash", "l1_info_tree_leaf", "l1_info_tree_merkle_proof",
                 "proven_inserted_ger", "proof_ger_l1root", "l1_leaf",
                 "global_index", "bridge_exit_hash",
                 "optimistic_mode_signature", "aggchain_proof_request"}

\* The conversions that can fail.  Two fields hold other messages: they can be absent,
\* and whether they are invalid is decided by the fields of those.
FieldFaults ==
    [at : FaultyFields, how : {"missing", "invalid"}]
        \ [at : {"aggchain_proof_request", "proven_inserted_ger"}, how : {"invalid"}]

\* AggchainProofRequestError: the variant, which gives the message, and field_path.
RequestError(error, field_path) == [error |-> error, field_path |-> field_path]

\* `ok_or(missing)?.try_into().map_err(invalid)?` of one field: no error or one.
convert(faults, at, missing, invalid, field_path) ==
    IF [at |-> at, how |-> "missing"] \in faults
    THEN <<RequestError(missing, field_path)>>
    ELSE IF [at |-> at, how |-> "invalid"] \in faults
         THEN <<RequestError(invalid, field_path)>>
         ELSE <<>>

\* map_err: the errors of an inner conversion become one of the outer.
wrap(errors, error, field_path) ==
    IF errors = <<>> THEN <<>> ELSE <<RequestError(error, field_path)>>

\* InsertedGer::try_from.
inserted_ger(faults) ==
    convert(faults, "proof_ger_l1root", "MissingInsertedGer", "InvalidInsertedGer",
            "proof_ger_l1root")
    \o convert(faults, "l1_leaf", "MissingL1InfoTreeLeaf", "InvalidL1InfoTreeLeaf", "l1_leaf")

\* InsertedGerWithBlockNumber::try_from.
inserted_ger_with_block_number(faults) ==
    convert(faults, "proven_inserted_ger", "MissingInsertedGer", "InvalidInsertedGer",
            "proven_inserted_ger")
    \o wrap(inserted_ger(faults), "InvalidInsertedGer", "proven_inserted_ger")

\* ImportedBridgeExitWithBlockNumber::try_from names the global index for both.
imported_bridge_exit(faults) ==
    convert(faults, "global_index", "MissingGlobalIndex", "InvalidDigest", "global_index")
    \o convert(faults, "bridge_exit_hash", "MissingGlobalIndex", "InvalidDigest", "global_index")

\* The entries of the two lists.
ger_leaves_errors(faults, ger_leaves) ==
    IF ger_leaves = {} THEN <<>>
    ELSE wrap(inserted_ger_with_block_number(faults),
              "InvalidInsertedGerWithBlockNumberConversion", "ger_leaves")

\* Mutant: an imported bridge exit that does not convert is skipped.
imported_bridge_exits_lenient(faults, imported_bridge_exits) == <<>>

imported_bridge_exits_errors(faults, imported_bridge_exits) ==
    IF imported_bridge_exits = <<>> THEN <<>>
    ELSE wrap(imported_bridge_exit(faults), "InvalidImportedBridgeExit", "imported_bridge_exits")

\* AggchainProofInputs::try_from: the errors there are, in the order in which the
\* fields are converted.  The first one is returned; a request is taken when there
\* is none, and then with all its entries.
aggchain_proof_inputs(faults, ger_leaves, imported_bridge_exits) ==
    convert(faults, "l1_info_tree_root_hash", "MissingL1InfoTreeRootHash", "InvalidDigest",
            "l1_info_tree_root_hash")
    \o convert(faults, "l1_info_tree_leaf", "MissingL1InfoTreeLeaf", "InvalidL1InfoTreeLeaf",
               "l1_info_tree_leaf")
    \o convert(faults, "l1_info_tree_merkle_proof", "MissingL1InfoTreeMerkleProof",
               "InvalidL1InfoTreeMerkleProof", "l1_info_tree_merkle_proof")
    \o ger_leaves_errors(faults, ger_leaves)
    \o imported_bridge_exits_errors(faults, imported_bridge_exits)

\* OptimisticAggchainProofInputs::try_from.
optimistic_aggchain_proof_inputs(faults, ger_leaves, imported_bridge_exits) ==
    convert(faults, "optimistic_mode_signature", "MissingOptimisticModeSignature",
            "InvalidOptimisticModeSignature", "optimistic_mode_signature")
    \o (IF [at |-> "aggchain_proof_request", how |-> "missing"] \in faults
        THEN <<RequestError("MissingAggchainProofRequest", "aggchain_proof_request")>>
        ELSE wrap(aggchain_proof_inputs(faults, ger_leaves, imported_bridge_exits),
                  "InvalidAggchainProofRequest", "aggchain_proof_request"))

\* The handlers' own check of the range.
requested_end_block_errors(last_proven_block, requested_end_block) ==
    IF requested_end_block <= last_proven_block
    THEN <<RequestError("not greater than last_proven_block", "requested_end_block")>>
    ELSE <<>>
=============================================================================
