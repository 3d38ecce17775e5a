-------------------------- MODULE AggchainProofFlow --------------------------
(***************************************************************************)
(* One aggchain proof request through aggkit-prover:                       *)
(*                                                                         *)
(*   GrpcService -> AggchainProofService -> [ProposerService]              *)
(*     -> AggchainProofBuilder::retrieve_chain_data -> the prover running  *)
(*        the aggchain proof program -> response                           *)
(*                                                                         *)
(* while the L2 chain it reads, block by block over RPC, grows and is      *)
(* reorganised.  Requests share no state but the Buffers and the prover,   *)
(* which ProverExecutor models: one request is followed from the start.    *)
(*                                                                         *)
(* External: the L2 chain (one event a block, as in L2Bridge; an "other"   *)
(* event changes the block hash and leaves the state alone), the           *)
(* aggsender and the sequencer, which describe the chain as they see it    *)
(* when they submit or sign, and the proposer, whose proof may be of any   *)
(* range.  The last proven block is settled: reorganisations stay above.   *)
(***************************************************************************)
EXTENDS BridgeConstraints, RequestDecoding, SequencesExt

CONSTANTS
    Gers, Claims,
    MaxBlocks,     \* bound on the length of the chain
    MaxReorgs,     \* bound on the reorganisations during the request
    Faults,        \* the sets of faults that a submitted request may have
    BlockModulus   \* 2^32, scaled: what `end_block as u32` counts modulo

ASSUME FlowAssumption ==
    /\ MaxBlocks \in Nat /\ MaxReorgs \in Nat /\ BlockModulus \in Nat \ {0}
    /\ Faults \subseteq SUBSET FieldFaults

VARIABLES
    chain,      \* the L2 chain as the RPC nodes now have it
    reorgs,     \* how often it was reorganised since the submission
    pc,         \* where the request is
    wire,       \* the request as it was sent
    req,        \* AggchainProofInputs
    end_block,  \* of AggchainProofBuilderRequest
    fep,        \* public values of the aggregation proof, or the signed values
    fetched,    \* the answers to the RPC reads done
    resp        \* the answer

vars == <<chain, reorgs, pc, wire, req, end_block, fep, fetched, resp>>

None == [status |-> "none"]
Failure(code) == [status |-> code]

Block(n) == SubSeq(chain, 1, n)

\* The state root does not tell apart blocks that leave the state alone.
StateRoot(block) ==
    FlattenSeq([i \in 1..Len(block) |-> IF block[i].op = "other" THEN <<>> ELSE <<block[i]>>])

Init ==
    /\ chain = <<>> /\ reorgs = 0
    /\ pc = "idle"
    /\ wire = None /\ req = None /\ end_block = 0 /\ fep = None
    /\ fetched = <<>> /\ resp = None

-----------------------------------------------------------------------------
(* The L2 chain, external. *)

Mine(event) ==
    /\ pc = "idle"
    /\ Len(chain) < MaxBlocks
    /\ Admissible(chain, event)
    /\ chain' = Append(chain, event)
    /\ UNCHANGED <<reorgs, pc, wire, req, end_block, fep, fetched, resp>>

\* The blocks that a reorganisation may bring.
ReplacementBlocks == BoundedSeq(BridgeEvents(Gers, Claims), MaxBlocks)

\* The blocks above some n are replaced by others, and more follow or some are missing.
Reorg ==
    /\ pc \in {"proposer", "wait", "fetch"}
    /\ reorgs < MaxReorgs
    /\ \E n \in req.last_proven_block..Len(chain), suffix \in ReplacementBlocks :
          /\ n + Len(suffix) <= MaxBlocks
          /\ \A i \in 1..Len(suffix) :
                Admissible(Block(n) \o SubSeq(suffix, 1, i - 1), suffix[i])
          /\ Block(n) \o suffix # chain
          /\ chain' = Block(n) \o suffix
    /\ reorgs' = reorgs + 1
    /\ UNCHANGED <<pc, wire, req, end_block, fep, fetched, resp>>

-----------------------------------------------------------------------------
(* What the contracts client reads of a block, and values derived from it. *)

get_l2_local_exit_root(block) == getRoot(block)

\* The hash of a block stands for the block.
get_l2_output_at_block(block) ==
    [state_root |-> StateRoot(block), latest_block_hash |-> block]

\* The static calls of the host decide what state a sketch has.
get_prev_l2_block_sketch(block) == EvmSketch(block, GerCalls \cup ClaimCalls)

get_new_l2_block_sketch(block) ==
    EvmSketch(block, {"bridgeAddress", "getRoot"} \cup GerCalls \cup ClaimCalls)

\* `as u32`.
claim_block_num(n) == n % BlockModulus

\* compute_output_root(state_root, ..): the state root alone.
compute_output_root(output) == output.state_root

compute_custom_chain_data(output_root, l2_block_number) ==
    [output_root |-> output_root, l2_block_number |-> l2_block_number]

\* Mutant: the root that the range starts from is left out.
public_values_post_only(prev, new, number) ==
    [l2_post_root |-> compute_output_root(new), l2_block_number |-> number]

\* AggregationProofPublicValues of a range: the ones the builder compares have
\* the truncated block number.
public_values(prev, new, number) ==
    [l2_pre_root |-> compute_output_root(prev), l2_post_root |-> compute_output_root(new),
     l2_block_number |-> number]

\* The GERs of a block, by the map of the request.
GersAt(gers, n) == {g.ger : g \in {h \in gers : h.block_number = n}}

\* Mutant: all the GERs of the request, in range or not.
sorted_gers_unfiltered(gers, first, last) ==
    FlattenSeq([n \in 1..MaxBlocks |-> SetToSeq(GersAt(gers, n))])

\* AggchainProofInputs::sorted_inserted_gers: the ones in range, by block number.  A
\* block has one event, so the second part of the sort key, block_index, decides nothing.
sorted_inserted_gers(gers, first, last) ==
    FlattenSeq([n \in 1..last |-> IF n >= first THEN SetToSeq(GersAt(gers, n)) ELSE <<>>])

\* The imported bridge exits of the request that are in range, in their order.
bridge_exits_in_range(exits, first, last) ==
    FlattenSeq([i \in 1..Len(exits) |->
                    IF exits[i].block_number \in first..last THEN <<exits[i].claim>> ELSE <<>>])

-----------------------------------------------------------------------------
(* The aggsender and the gRPC handlers. *)

\* The map of GERs: its key is the GER, so a GER has one entry.
GersSeen(first, last) ==
    {[ger |-> chain[b].item, block_number |-> b] :
        b \in {n \in first..last :
                 /\ chain[n].op = "insert"
                 /\ \A m \in n + 1..last : chain[m] # chain[n]}}

ExitsSeen(first, last) ==
    FlattenSeq([n \in 1..last |->
                    IF n >= first /\ chain[n].op = "claim"
                    THEN <<[claim |-> chain[n].item, block_number |-> n]>> ELSE <<>>])

\* The sequencer signs the values it sees, with the untruncated block number.
Signed(last, requested) ==
    [pv |-> public_values(get_l2_output_at_block(Block(last)),
                          get_l2_output_at_block(Block(requested)), requested),
     new_local_exit_root |-> getRoot(Block(requested)),
     commit |-> bridge_exits_in_range(ExitsSeen(last + 1, requested), last + 1, requested)]

\* GenerateAggchainProofRequest, or the optimistic one around it.
Request(mode, last, requested, l1_info_root, l1_head_included, faults) ==
    [status |-> "sent", mode |-> mode, last_proven_block |-> last,
     requested_end_block |-> requested, l1_info_root |-> l1_info_root,
     l1_head_included |-> l1_head_included, faults |-> faults,
     ger_leaves |-> GersSeen(last + 1, requested),
     imported_bridge_exits |-> ExitsSeen(last + 1, requested)]

\* The decoded request.
AggchainProofInputs(request) ==
    [mode |-> request.mode, last_proven_block |-> request.last_proven_block,
     requested_end_block |-> request.requested_end_block,
     l1_info_root |-> request.l1_info_root, l1_head_included |-> request.l1_head_included,
     ger_leaves |-> request.ger_leaves,
     imported_bridge_exits |-> request.imported_bridge_exits]

\* The client is told the first error.
InvalidRequest(errors) ==
    /\ errors # <<>>
    /\ pc' = "done"
    /\ resp' = [status |-> "InvalidArgument", error |-> Head(errors)]
    /\ UNCHANGED <<req, end_block, fep>>

\* generate_aggchain_proof: the range is checked, then the request is decoded and
\* goes to the proposer first.
GenerateAggchainProof(request) ==
    LET last == request.last_proven_block
        requested == request.requested_end_block
        errors == requested_end_block_errors(last, requested)
                    \o aggchain_proof_inputs(request.faults, request.ger_leaves,
                                             request.imported_bridge_exits)
    IN  /\ wire' = request
        /\ \/ InvalidRequest(errors)
           \/ /\ errors = <<>>
              /\ req' = AggchainProofInputs(request)
              /\ pc' = "proposer"
              /\ UNCHANGED <<end_block, fep, resp>>
        /\ UNCHANGED <<chain, reorgs, fetched>>

\* generate_optimistic_aggchain_proof: the request is decoded, then the range is
\* checked; straight to the builder, with the requested end block and the
\* sequencer's signature.
GenerateOptimisticAggchainProof(request) ==
    LET last == request.last_proven_block
        requested == request.requested_end_block
        errors == optimistic_aggchain_proof_inputs(request.faults, request.ger_leaves,
                                                   request.imported_bridge_exits)
                    \o requested_end_block_errors(last, requested)
    IN  /\ wire' = request
        /\ \/ InvalidRequest(errors)
           \/ /\ errors = <<>>
              /\ req' = AggchainProofInputs(request)
              /\ pc' = "fetch"
              /\ end_block' = requested
              /\ fep' = Signed(last, requested)
              /\ UNCHANGED resp
        /\ UNCHANGED <<chain, reorgs, fetched>>

\* The aggsender sends its request.
Submit ==
    /\ pc = "idle"
    /\ \E last, requested \in 0..Len(chain), l1_info_root \in SUBSET Gers,
          l1_head_included \in BOOLEAN, faults \in Faults :
            \/ GenerateAggchainProof(
                  Request("normal", last, requested, l1_info_root, l1_head_included, faults))
            \/ GenerateOptimisticAggchainProof(
                  Request("optimistic", last, requested, l1_info_root, l1_head_included, faults))

-----------------------------------------------------------------------------
(* ProposerService, then AggchainProofBuilder. *)

\* An error is returned, and all that the request held is dropped.
InternalError ==
    /\ pc' = "done"
    /\ resp' = Failure("Internal")
    /\ wire' = None /\ req' = None /\ end_block' = 0 /\ fep' = None /\ fetched' = <<>>

\* The proposer accepts the request and names the end block, the only part of its
\* answer that reaches the builder.  Nothing compares it with the request.
RequestAggProof(end) ==
    /\ pc = "proposer"
    /\ pc' = "wait"
    /\ end_block' = end
    /\ UNCHANGED <<chain, reorgs, wire, req, fep, fetched, resp>>

\* The proof of that request id arrives and verifies.  It is of some range of the
\* chain as it is now: nothing ties the range to the proposer's answer.
WaitForProof(last, end) ==
    /\ pc = "wait"
    /\ last < end
    /\ pc' = "fetch"
    /\ fep' = public_values(get_l2_output_at_block(Block(last)),
                            get_l2_output_at_block(Block(end)), end)
    /\ UNCHANGED <<chain, reorgs, wire, req, end_block, fetched, resp>>

\* retrieve_chain_data's reads, in order.
Reads == <<"prev_local_exit_root", "new_local_exit_root", "l2_pre_root_output",
           "claim_root_output", "op_succinct_config",
           "prev_l2_block_sketch", "new_l2_block_sketch">>

NextRead == Reads[Len(fetched) + 1]

PrevReads == {"prev_local_exit_root", "l2_pre_root_output", "prev_l2_block_sketch"}

Answer(read, block) ==
    CASE read \in {"prev_local_exit_root", "new_local_exit_root"} -> get_l2_local_exit_root(block)
      [] read \in {"l2_pre_root_output", "claim_root_output"} -> get_l2_output_at_block(block)
      [] read = "prev_l2_block_sketch" -> get_prev_l2_block_sketch(block)
      [] read = "new_l2_block_sketch" -> get_new_l2_block_sketch(block)

\* The next read, answered from the block that has its number at this moment.
Fetch ==
    /\ pc = "fetch"
    /\ Len(fetched) < Len(Reads)
    /\ NextRead # "op_succinct_config"
    /\ LET n == IF NextRead \in PrevReads THEN req.last_proven_block ELSE end_block
       IN  /\ n <= Len(chain)
           /\ fetched' = Append(fetched, Answer(NextRead, Block(n)))
    /\ UNCHANGED <<chain, reorgs, pc, wire, req, end_block, fep, resp>>

\* The keys on L1 have to be the ones of the embedded programs.
validate_op_succinct_config_keys(config) ==
    config.aggregation_vkey_hash = "elf" /\ config.range_vkey_commitment = "elf"

\* The keys that AggchainFEP may have on L1 by now.
OpSuccinctConfigs ==
    [aggregation_vkey_hash : {"elf", "other"}, range_vkey_commitment : {"elf", "other"}]

FetchOpSuccinctConfig(config) ==
    /\ pc = "fetch"
    /\ Len(fetched) < Len(Reads)
    /\ NextRead = "op_succinct_config"
    /\ IF validate_op_succinct_config_keys(config)
       THEN fetched' = Append(fetched, config) /\ UNCHANGED <<pc, wire, req, end_block, fep, resp>>
       ELSE InternalError
    /\ UNCHANGED <<chain, reorgs>>

\* The answer to a read.
Read(name) == fetched[CHOOSE i \in 1..Len(Reads) : Reads[i] = name]

\* The two blocks that the proof is about, by the hashes that were read.
PrevBlock == Read("l2_pre_root_output").latest_block_hash
NewBlock == Read("claim_root_output").latest_block_hash

FepPublicValues ==
    public_values(Read("l2_pre_root_output"), Read("claim_root_output"),
                  claim_block_num(end_block))

\* All data is there: a proof's public values have to be the ones of the contracts.
Compare ==
    /\ pc = "fetch"
    /\ Len(fetched) = Len(Reads)
    /\ IF req.mode = "normal" /\ fep # FepPublicValues
       THEN InternalError
       ELSE pc' = "prove" /\ UNCHANGED <<wire, req, end_block, fep, fetched, resp>>
    /\ UNCHANGED <<chain, reorgs>>

CommittedClaims ==
    bridge_exits_in_range(req.imported_bridge_exits, req.last_proven_block + 1, end_block)

\* The BridgeWitness of retrieve_chain_data, as the program's bridge input.
bridge_constraints_input ==
    LET gers == sorted_inserted_gers(req.ger_leaves, req.last_proven_block + 1, end_block)
    IN  [prev_l2_block_hash |-> PrevBlock,
         new_l2_block_hash |-> NewBlock,
         new_local_exit_root |-> Read("new_local_exit_root"),
         l1_info_root |-> req.l1_info_root,
         commit_imported_bridge_exits |-> CommittedClaims,
         bridge_witness |->
            [inserted_gers |-> gers, raw_inserted_gers |-> gers, removed_gers |-> <<>>,
             bridge_exits_claimed |-> CommittedClaims, global_indices_unset |-> <<>>,
             prev_l2_block_sketch |-> Read("prev_l2_block_sketch"),
             new_l2_block_sketch |-> Read("new_l2_block_sketch")]]

\* Mutant: the sequencer's signature is not checked.
fep_verify_unsigned ==
    req.mode = "normal" => req.l1_head_included /\ fep = FepPublicValues

\* FepInputs::verify: the sequencer's signature, or the L1 head and the proof.
fep_verify ==
    IF req.mode = "optimistic"
    THEN fep = [pv |-> FepPublicValues,
                new_local_exit_root |-> Read("new_local_exit_root"),
                commit |-> CommittedClaims]
    ELSE req.l1_head_included /\ fep = FepPublicValues

verify_aggchain_inputs == fep_verify /\ verify(bridge_constraints_input)

\* Mutant: the end block of the context is the requested one.
context_requested(inputs, end) ==
    [last_proven_block |-> inputs.last_proven_block,
     requested_end_block |-> inputs.requested_end_block,
     ger |-> inputs.ger_leaves, ibe |-> inputs.imported_bridge_exits,
     end_block |-> inputs.requested_end_block]

\* Contextualize::context: all that was requested, with the end block of the answer,
\* which the handler adds.
context(inputs, end) ==
    [last_proven_block |-> inputs.last_proven_block,
     requested_end_block |-> inputs.requested_end_block,
     ger |-> inputs.ger_leaves, ibe |-> inputs.imported_bridge_exits,
     end_block |-> end]

\* AggchainProofServiceResponse, with the public values that the proof commits to
\* and the context that the handler gives the client with it.
AggchainProofServiceResponse ==
    [status |-> "ok",
     context |-> context(req, end_block),
     prev_local_exit_root |-> Read("prev_local_exit_root"),
     new_local_exit_root |-> Read("new_local_exit_root"),
     commit_imported_bridge_exits |-> CommittedClaims,
     aggchain_params |-> FepPublicValues,
     custom_chain_data |->
        compute_custom_chain_data(compute_output_root(Read("claim_root_output")), end_block)]

\* The prover runs the program: it proves the public values, or fails.
Prove ==
    /\ pc = "prove"
    /\ IF verify_aggchain_inputs
       THEN /\ pc' = "done"
            /\ resp' = AggchainProofServiceResponse
            /\ UNCHANGED <<wire, req, end_block, fep, fetched>>
       ELSE InternalError
    /\ UNCHANGED <<chain, reorgs>>

\* An RPC, the proposer, the wait for its proof or the check of it, or the prover
\* fails: all these error paths end in the same answer.
Fail ==
    /\ pc \in {"proposer", "wait", "fetch", "prove"}
    /\ InternalError
    /\ UNCHANGED <<chain, reorgs>>

Next ==
    \/ \E event \in BridgeEvents(Gers, Claims) : Mine(event)
    \/ Submit
    \/ \E end \in 0..Len(chain) : RequestAggProof(end)
    \/ \E last, end \in 0..Len(chain) : WaitForProof(last, end)
    \/ \E config \in OpSuccinctConfigs : FetchOpSuccinctConfig(config)
    \/ Reorg \/ Fetch \/ Compare \/ Prove \/ Fail

Spec == Init /\ [][Next]_vars

-----------------------------------------------------------------------------
(* Properties *)

\* The items of kind op of block new that come after block prev.
Since(prev, new, op) == Items(SubSeq(new, Len(prev) + 1, Len(new)), op)

\* Whatever reorganisations happen between the reads, the submission and the
\* proposer's proof, a proof that is returned is about one chain: the new block
\* has the number end_block and extends the last proven one, the roots, the exit
\* roots and the commitment are all of these two blocks, every GER inserted
\* between them is in the L1 info tree, and nothing was removed or unset.  (When
\* the proposer ends before the last proven block, the new block is below it.)
ProofOfOneChain ==
    resp.status = "ok" =>
        LET prev == PrevBlock
            new == NewBlock
        IN  /\ Len(new) = end_block
            /\ IF end_block < req.last_proven_block THEN IsPrefix(new, prev)
                                                    ELSE IsPrefix(prev, new)
            /\ resp.prev_local_exit_root = getRoot(prev)
            /\ resp.new_local_exit_root = getRoot(new)
            /\ resp.commit_imported_bridge_exits = Since(prev, new, "claim")
            /\ ToSet(Since(prev, new, "insert")) \subseteq req.l1_info_root
            /\ Since(prev, new, "remove") = <<>> /\ Since(prev, new, "unset") = <<>>

\* The context lists what was requested, not what was proven.  Cut to the range that
\* it names itself, it has exactly the claims and the GERs, in order, of the chain
\* that the proof is about, whatever end block was proven and whatever was
\* reorganised after the submission.
ContextDescribesProof ==
    resp.status = "ok" =>
        LET c == resp.context
            first == c.last_proven_block + 1
        IN  /\ bridge_exits_in_range(c.ibe, first, c.end_block) = Since(PrevBlock, NewBlock, "claim")
            /\ sorted_inserted_gers(c.ger, first, c.end_block) = Since(PrevBlock, NewBlock, "insert")

\* The block number that the proof commits to is 32 bits wide in FepInputs, the one
\* that the response names in custom_chain_data is not.  In optimistic mode the two
\* agree, because the signature is for the untruncated number.  In normal mode they
\* may differ, when the aggregation proof is of the block that has the truncated
\* number; but then that block has the very state that the response claims.
BlockNumberExact ==
    resp.status = "ok" =>
        LET number == resp.aggchain_params.l2_block_number
        IN  /\ req.mode = "optimistic" => number = resp.custom_chain_data.l2_block_number
            /\ reorgs = 0 => StateRoot(Block(number)) = resp.custom_chain_data.output_root

\* A range read from a chain that was not reorganised, all of whose GERs are in
\* the L1 info tree, requested over blocks that remove and unset nothing,
\* satisfies the program for whatever end block the proposer chose in the request.
QuietRangeProvable ==
    pc = "prove" =>
        LET prev == Block(req.last_proven_block)
            requested == Block(req.requested_end_block)
        IN  (/\ reorgs = 0
             /\ end_block \in req.last_proven_block + 1..req.requested_end_block
             /\ end_block < BlockModulus
             /\ req.l1_head_included
             /\ ToSet(Since(prev, Block(end_block), "insert")) \subseteq req.l1_info_root
             /\ Since(prev, requested, "remove") = <<>> /\ Since(prev, requested, "unset") = <<>>)
            => verify_aggchain_inputs

\* An end block that was not asked for, which no comparison rejects, gets a proof
\* only where it makes no difference to the bridge: unless a reorganisation moved
\* them there, the blocks that it adds to the requested range insert no GER and claim
\* nothing, and one below the last proven block has the same state.
UnaskedEndBlock ==
    resp.status = "ok" =>
        LET added == SubSeq(NewBlock, req.requested_end_block + 1, end_block)
        IN  /\ reorgs = 0 => Items(added, "insert") = <<>> /\ Items(added, "claim") = <<>>
            /\ end_block < req.last_proven_block => StateRoot(NewBlock) = StateRoot(PrevBlock)

\* The fields of a request as sent that have a fault, in themselves or below.
Broken(request) ==
    LET at == {f.at : f \in request.faults}
        inner == (at \cap {"l1_info_tree_root_hash", "l1_info_tree_leaf",
                           "l1_info_tree_merkle_proof"})
                   \cup {f \in {"ger_leaves"} : request.ger_leaves # {}
                            /\ at \cap {"proven_inserted_ger", "proof_ger_l1root", "l1_leaf"} # {}}
                   \cup {f \in {"imported_bridge_exits"} : request.imported_bridge_exits # <<>>
                            /\ at \cap {"global_index", "bridge_exit_hash"} # {}}
        range == {f \in {"requested_end_block"} :
                     request.requested_end_block <= request.last_proven_block}
        outer == {f \in {"aggchain_proof_request"} : f \in at \/ inner # {}}
                   \cup (at \cap {"optimistic_mode_signature"})
    IN  range \cup IF request.mode = "normal" THEN inner ELSE outer

\* A request is taken whole or refused for a fault it has: no part of one with an
\* entry that does not decode reaches the proposer, the builder or the prover, and
\* the field that the client is told is one that is broken.
RequestTakenWhole ==
    /\ req # None => Broken(wire) = {} /\ req = AggchainProofInputs(wire)
    /\ resp.status = "InvalidArgument" => resp.error.field_path \in Broken(wire)

\* "ClaimRoot is the hash of the concatenation of the OutputRoot version +
\* payload", the payload including the latest block hash: the claim root of a
\* response belongs to no other block of the chain.
ClaimRootBindsBlock ==
    resp.status = "ok" =>
        \A n \in 0..Len(chain) :
            compute_output_root(get_l2_output_at_block(Block(n)))
                = resp.custom_chain_data.output_root => Block(n) = NewBlock
=============================================================================
