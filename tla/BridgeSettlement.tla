-------------------------- MODULE BridgeSettlement --------------------------
(***************************************************************************)
(* The aggchain proof program run again and again: what it establishes     *)
(* over a sequence of proven block ranges.  The L2 contracts and the L1    *)
(* info tree are external; the tree only grows.                            *)
(*                                                                         *)
(* The witness of a proof is arbitrary.  That goes for the two block       *)
(* hashes that the bridge constraints are checked at as well: they are     *)
(* fields of FepInputs, no public value has them, and nothing in the       *)
(* program ties them to the state roots or to the proof before.            *)
(* AggchainProofBuilder fills in the blocks of the range, by               *)
(* get_l2_output_at_block.  That a proof names these blocks is therefore   *)
(* an ASSUMPTION of each property about the chain, kept in the history     *)
(* variables last.named (the last proof does) and bound (all proofs do).   *)
(***************************************************************************)
EXTENDS BridgeConstraints

CONSTANTS
    Gers, Indices, LeafHashes,
    OtherBlocks,    \* blocks that are not of the chain but may be named
    MaxEvents       \* bound on the bridge events of the chain

ASSUME EventsAssumption == MaxEvents \in Nat

VARIABLES
    chain,      \* the L2 chain, one event a block
    l1_info,    \* the GERs below the L1 info root
    last,       \* the last range proven and its public values
    reported,   \* every claim that some proof committed to (history)
    ends,       \* the blocks that proofs ended at (history)
    bound       \* every proof named the blocks of its range (history)

vars == <<chain, l1_info, last, reported, ends, bound>>

Claims == [global_index : Indices, bridge_exit_hash : LeafHashes]

Block(n) == SubSeq(chain, 1, n)
Proven == Block(last.to)

Init ==
    /\ chain = <<>>
    /\ l1_info = {}
    /\ last = [from |-> 0, to |-> 0, commit |-> <<>>, ler |-> <<>>, named |-> TRUE]
    /\ reported = {}
    /\ ends = {0}
    /\ bound = TRUE

-----------------------------------------------------------------------------
(* The chains, external. *)

Emit(event) ==
    /\ Len(chain) < MaxEvents
    /\ Admissible(chain, event)
    /\ chain' = Append(chain, event)
    /\ UNCHANGED <<l1_info, last, reported, ends, bound>>

L1Grow(ger) ==
    /\ ger \notin l1_info
    /\ l1_info' = l1_info \cup {ger}
    /\ UNCHANGED <<chain, last, reported, ends, bound>>

-----------------------------------------------------------------------------
(* The program. *)

\* The state root does not tell apart blocks that leave the state alone.
StateRoot(block) == SelectSeq(block, LAMBDA event : event.op # "other")

\* FepInputs, with a signature in optimistic mode.  There is an inclusion proof for
\* the L1 head when the tree has a leaf.
FepInputs(pre, post, number, prev_hash, new_hash, signed) ==
    [prev_state_root |-> pre, new_state_root |-> post, claim_block_num |-> number,
     prev_block_hash |-> prev_hash, new_block_hash |-> new_hash,
     signature_optimistic_mode |-> signed, l1_head_included |-> l1_info # {}]

\* From<&FepInputs>: the block hashes are not among the public values.
AggregationProofPublicValues(fep) ==
    [l2_pre_root |-> fep.prev_state_root, l2_post_root |-> fep.new_state_root,
     l2_block_number |-> fep.claim_block_num]

\* External: aggregation proofs verify for blocks of the chain only, and for such
\* blocks only does the sequencer sign.  With them it signs any exit root and any
\* commitment.
Vouched(pv) ==
    /\ pv.l2_block_number \in 0..Len(chain)
    /\ pv.l2_post_root = StateRoot(Block(pv.l2_block_number))
    /\ \E k \in 0..pv.l2_block_number : pv.l2_pre_root = StateRoot(Block(k))

\* FepInputs::verify: the signature, or verify_l1_head and the proof.
fep_verify(fep) ==
    /\ fep.signature_optimistic_mode \/ fep.l1_head_included
    /\ Vouched(AggregationProofPublicValues(fep))

Witness(raw, removed, inserted, claimed, unset, prev, new) ==
    [raw_inserted_gers |-> raw, removed_gers |-> removed, inserted_gers |-> inserted,
     bridge_exits_claimed |-> claimed, global_indices_unset |-> unset,
     prev_l2_block_sketch |-> prev, new_l2_block_sketch |-> new]

AggchainProofWitness(fep, ler, commit, bridge_witness) ==
    [fep |-> fep, new_local_exit_root |-> ler, l1_info_root |-> l1_info,
     commit_imported_bridge_exits |-> commit, bridge_witness |-> bridge_witness]

\* AggchainProofWitness::bridge_constraints_input.
bridge_constraints_input(w) ==
    [prev_l2_block_hash |-> w.fep.prev_block_hash, new_l2_block_hash |-> w.fep.new_block_hash,
     new_local_exit_root |-> w.new_local_exit_root, l1_info_root |-> w.l1_info_root,
     commit_imported_bridge_exits |-> w.commit_imported_bridge_exits,
     bridge_witness |-> w.bridge_witness]

\* AggchainProofWitness::verify_aggchain_inputs.
verify_aggchain_inputs(w) ==
    /\ fep_verify(w.fep)
    /\ verify(bridge_constraints_input(w))

-----------------------------------------------------------------------------
(* Proofs. *)

\* What a witness may name as a block, and a sketch of it with the state for every
\* static call: one with less only fails more.
Hashes == {Block(k) : k \in 0..Len(chain)} \cup OtherBlocks
Sketch(block) == EvmSketch(block, GerCalls \cup ClaimCalls \cup {"bridgeAddress", "getRoot"})
Sketches == {Sketch(block) : block \in Hashes}

\* Lists of up to n elements, and how many elements the lists of a range can have: a
\* longer one rebuilds no hash chain.
Lists(S, n) == UNION {[1..k -> S] : k \in 0..n}
Listed(block) ==
    Len(insertedGERHashChain(block)) + Len(removedGERHashChain(block))
        + Len(claimedGlobalIndexHashChain(block)) + Len(unsetGlobalIndexHashChain(block))
Room(p, b) == Monus(Listed(b), Listed(p))

\* L1 settles a proof whose l2_pre_root is the state that it has, by its public values
\* (external).  What properties look back to is kept only for proofs that name the
\* blocks of their range: nothing is said of others.
Settle(w) ==
    LET n == w.fep.claim_block_num
        named == w.fep.prev_block_hash = Proven /\ w.fep.new_block_hash = Block(n)
        commit == IF named THEN w.commit_imported_bridge_exits ELSE <<>>
        ler == IF named THEN w.new_local_exit_root ELSE <<>>
    IN  /\ w.fep.prev_state_root = StateRoot(Proven) /\ n >= last.to
        /\ last' = [from |-> last.to, to |-> n, commit |-> commit, ler |-> ler, named |-> named]
        /\ bound' = (bound /\ named)
        /\ reported' = IF bound' THEN reported \cup {commit[i] : i \in 1..Len(commit)} ELSE {}
        /\ ends' = IF bound' THEN ends \cup {n} ELSE {}
        /\ UNCHANGED <<chain, l1_info>>

\* A proof with whatever witness, here one that names the blocks p and b.  The guards
\* before verify_aggchain_inputs are parts of it and cut the search short; so does the
\* choice of the state roots, the only ones that are vouched for and settle.
Prove(p, b) ==
    LET sofar(ler, commit, bridge_witness) == bridge_constraints_input(
            AggchainProofWitness([prev_block_hash |-> p, new_block_hash |-> b],
                                 ler, commit, bridge_witness))
        R == Room(p, b)
    IN
    \E prev, new \in Sketches :
    /\ execute(prev, p, "insertedGERHashChain") /\ execute(new, b, "getRoot")
    /\ \E ler \in {getRoot(block) : block \in Hashes}, raw, removed \in Lists(Gers, R) :
       LET gers == Witness(raw, removed, <<>>, <<>>, <<>>, prev, new) IN
       /\ verify_new_ler(sofar(ler, <<>>, gers))
       /\ verify_ger_hash_chains(sofar(ler, <<>>, gers))
       /\ \E claimed \in Lists(Claims, R), unset \in Lists(Indices, R) :
          LET claims == Witness(raw, removed, <<>>, claimed, unset, prev, new) IN
          /\ verify_claims_hash_chains(sofar(ler, <<>>, claims))
          /\ \E commit \in Lists(Claims, Len(claimed)) :
             /\ verify_constrained_global_indices(sofar(ler, commit, claims))
             /\ \E inserted \in Lists(Gers, Len(raw)) :
                LET all == Witness(raw, removed, inserted, claimed, unset, prev, new) IN
                /\ verify_inserted_gers(sofar(ler, commit, all))
                /\ \E n \in last.to..Len(chain), signed \in BOOLEAN :
                   LET fep == FepInputs(StateRoot(Proven), StateRoot(Block(n)), n, p, b, signed)
                       w == AggchainProofWitness(fep, ler, commit, all)
                   IN  verify_aggchain_inputs(w) /\ Settle(w)

Next ==
    \/ \E event \in BridgeEvents(Gers, Claims) : event.op # "other" /\ Emit(event)
    \/ \E ger \in Gers : L1Grow(ger)
    \/ \E p, b \in Hashes : Prove(p, b)

Spec == Init /\ [][Next]_vars

-----------------------------------------------------------------------------
(* Properties.  The ones about proofs assume what `named` and `bound` say. *)

\* As long as every proof named the blocks of its range, and whatever else was in the
\* witnesses, every GER that the L2 chain holds at the last proven block is in the L1
\* info tree, however often it was removed and inserted again: a GER that is not can
\* only be proven over once it is removed.
GersLegitimate == bound => GersInForce(Proven) \subseteq l1_info

\* The blocks up to n with a claim that stands at n.
Standing(n) == InForce(Block(n), "claim", UnsetsClaim)

\* As long as every proof named the blocks of its range, every index that is claimed
\* at the last proven block has been committed to.  So has the very claim that stands,
\* with its leaf, if its index was not claimed already where the range of the claim
\* starts, however often it is claimed and unset in that range and later.
ClaimsReported ==
    bound =>
        /\ IndicesInForce(Proven) \subseteq {claim.global_index : claim \in reported}
        /\ \A i \in Standing(last.to), from \in ends :
              from < i /\ (\A n \in ends : n <= from \/ n >= i) =>
                 \/ chain[i].item \in reported
                 \/ chain[i].item.global_index \in IndicesInForce(Block(from))

\* The claims of a range that stand at its end, in order, but for those of an index
\* that was claimed already at its start.
ClaimsOfRange(from, to) ==
    LET block == Block(to)
        fresh == {i \in Standing(to) :
                    block[i].item.global_index \notin IndicesInForce(Block(from))}
        event(i) == IF i \in fresh THEN block[i] ELSE [op |-> "other", item |-> "any"]
    IN  Items([k \in 1..to - from |-> event(from + k)], "claim")

\* A proof that names the blocks of its range commits to exactly the claims that stand
\* at its end, with the leaf of the latest claim of each index and in the order of the
\* chain, but for indices that were claimed before the range: of these it commits to
\* none, not even to a claim with another leaf, made in the range after an unset of the
\* earlier one.  And it commits to the exit root of the end block.
CommitmentExact ==
    last.named =>
        /\ last.commit = ClaimsOfRange(last.from, last.to)
        /\ last.ler = getRoot(Proven)

\* The part of a list that a range appends.
Appended(get(_), n) == SubSeq(get(Block(n)), Len(get(Proven)) + 1, Len(get(Block(n))))

\* The witness of the range up to n with its true blocks, lists and sketches.
TrueWitness(n, signed) ==
    LET raw == Appended(insertedGERHashChain, n)
        removed == Appended(removedGERHashChain, n)
        claimed == Appended(claimedGlobalIndexHashChain, n)
        unset == Appended(unsetGlobalIndexHashChain, n)
    IN  AggchainProofWitness(
            FepInputs(StateRoot(Proven), StateRoot(Block(n)), n, Proven, Block(n), signed),
            getRoot(Block(n)), filter_values(unset, claimed, GlobalIndices(claimed)),
            Witness(raw, removed, filter_values(removed, raw, raw),
                    claimed, unset, Sketch(Proven), Sketch(Block(n))))

\* The program refuses no honest range: a range at whose end only GERs of the L1 info
\* tree are held is provable, with a signature or else once the tree has a leaf for the
\* L1 head, whatever was inserted, removed, claimed and unset on the way.
HonestRangeProvable ==
    \A n \in last.to..Len(chain), signed \in BOOLEAN :
        /\ GersInForce(Block(n)) \subseteq l1_info
        /\ signed \/ l1_info # {}
        => verify_aggchain_inputs(TrueWitness(n, signed))
=============================================================================
