----------------------- MODULE BridgeSettlementProofs -----------------------
(***************************************************************************)
(* Proofs about BridgeSettlement, for any GERs, indices and leaves, chains *)
(* of any length and any number of proven ranges.                          *)
(***************************************************************************)
EXTENDS BridgeSettlement, BridgeConstraintsProofs

Events == BridgeEvents(Gers, Claims)

\* The chain is one that the contracts admit, and the last range lies on it.
ChainInv ==
    /\ chain \in Seq(Events) /\ Admitted(chain)
    /\ last.from \in Nat /\ last.to \in Nat
    /\ last.from <= last.to /\ last.to <= Len(chain)

\* The blocks from the first to the last event of the range up to n.
RangeTo(n) == SubSeq(chain, last.to + 1, n)

LEMMA ListsType == ASSUME NEW S, NEW n \in Nat PROVE Lists(S, n) \subseteq Seq(S)
<1> SUFFICES ASSUME NEW k \in 0..n, NEW f \in [1..k -> S] PROVE f \in Seq(S)
    BY DEF Lists
<1> QED OBVIOUS

LEMMA ClaimIndices == {c.global_index : c \in Claims} \subseteq Indices
BY DEF Claims

\* What the witness of a proof has to be: the lists are those of the range, whatever
\* else is in it, if the block hashes are.
RangeProven(n) ==
    /\ \A i \in 1..Len(InsertedOf(RangeTo(n))) : InsertedOf(RangeTo(n))[i] \in l1_info
    /\ last'.commit = CommitOf(RangeTo(n))
    /\ last'.ler = getRoot(Block(n))

ProveMeans(n) ==
    /\ n \in last.to..Len(chain)
    /\ chain' = chain /\ l1_info' = l1_info
    /\ last'.from = last.to /\ last'.to = n
    /\ last'.named => RangeProven(n)
    /\ bound' => /\ bound /\ last'.named
                 /\ reported' = reported \cup {last'.commit[i] : i \in 1..Len(last'.commit)}
                 /\ ends' = ends \cup {n}

\* The blocks at the ends of a range up to n.
RangeFacts(n) ==
    /\ Proven \in Seq(Events) /\ RangeTo(n) \in Seq(Events) /\ Block(n) \in Seq(Events)
    /\ Joins(Block(n), Proven, RangeTo(n))
    /\ Admitted(Proven) /\ Admitted(Block(n))
    /\ Len(Block(n)) = n /\ Len(Proven) = last.to

LEMMA RangeOfChain ==
    ASSUME ChainInv, NEW n \in last.to..Len(chain) PROVE RangeFacts(n)
<1> DEFINE m == last.to
           E == Events
<1>1. /\ chain \in Seq(E) /\ Admitted(chain) /\ m \in 0..Len(chain) /\ n \in m..Len(chain)
      /\ n \in 0..Len(chain)
    BY DEF ChainInv
<1> HIDE DEF m, E
<1>2. /\ SubSeq(chain, 1, m) \in Seq(E) /\ SubSeq(chain, m + 1, n) \in Seq(E)
      /\ Joins(SubSeq(chain, 1, n), SubSeq(chain, 1, m), SubSeq(chain, m + 1, n))
    BY <1>1, RangeConcat
<1>3. /\ SubSeq(chain, 1, n) \in Seq(E) /\ Len(SubSeq(chain, 1, n)) = n
      /\ Len(SubSeq(chain, 1, m)) = m
    BY <1>1
<1>4. Admitted(SubSeq(chain, 1, m)) /\ Admitted(SubSeq(chain, 1, n))
    BY <1>1, AdmittedPrefix
<1> QED BY <1>2, <1>3, <1>4, Zenon DEF RangeFacts, Proven, Block, RangeTo, m, E

\* What is kept of a proof.
Kept(w, n) ==
    /\ chain' = chain /\ l1_info' = l1_info
    /\ last'.from = last.to /\ last'.to = n
    /\ last'.named => /\ w.fep.prev_block_hash = Proven /\ w.fep.new_block_hash = Block(n)
                      /\ last'.commit = w.commit_imported_bridge_exits
                      /\ last'.ler = w.new_local_exit_root
    /\ bound' => /\ bound /\ last'.named
                 /\ reported' = reported \cup {last'.commit[i] : i \in 1..Len(last'.commit)}
                 /\ ends' = ends \cup {n}

LEMMA SettleMeans == ASSUME NEW w, Settle(w) PROVE Kept(w, w.fep.claim_block_num)
<1> DEFINE n == w.fep.claim_block_num
           named == w.fep.prev_block_hash = Proven /\ w.fep.new_block_hash = Block(n)
           commit == IF named THEN w.commit_imported_bridge_exits ELSE <<>>
           ler == IF named THEN w.new_local_exit_root ELSE <<>>
<1>1. /\ last' = [from |-> last.to, to |-> n, commit |-> commit, ler |-> ler, named |-> named]
      /\ bound' = (bound /\ named)
      /\ reported' = IF bound' THEN reported \cup {commit[i] : i \in 1..Len(commit)} ELSE {}
      /\ ends' = IF bound' THEN ends \cup {n} ELSE {}
      /\ chain' = chain /\ l1_info' = l1_info
    BY Zenon DEF Settle
<1> HIDE DEF n, commit, ler, named
<1>2. /\ last'.from = last.to /\ last'.to = n /\ last'.commit = commit /\ last'.ler = ler
      /\ last'.named = named
    BY <1>1, Zenon
<1>3. named => commit = w.commit_imported_bridge_exits /\ ler = w.new_local_exit_root
    BY Zenon DEF commit, ler
<1>4. bound' => bound /\ named /\ ends' = ends \cup {n}
                /\ reported' = reported \cup {commit[i] : i \in 1..Len(commit)}
    BY <1>1, Zenon
<1>5. named => w.fep.prev_block_hash = Proven /\ w.fep.new_block_hash = Block(n)
    BY Zenon DEF named
<1>6. Kept(w, n)
    BY <1>1, <1>2, <1>3, <1>4, <1>5, Zenon DEF Kept
<1> QED BY <1>6, Zenon DEF n

\* A proof that was found: its blocks, sketches and lists.
Found(p, b, n, signed, ler, raw, removed, inserted, claimed, unset, commit, prev, new) ==
    LET w == AggchainProofWitness(
                FepInputs(StateRoot(Proven), StateRoot(Block(n)), n, p, b, signed),
                ler, commit, Witness(raw, removed, inserted, claimed, unset, prev, new))
    IN  verify_aggchain_inputs(w) /\ Settle(w)

LEMMA ProveFinds ==
    ASSUME NEW p, NEW b, Prove(p, b)
    PROVE  \E raw, removed \in Lists(Gers, Room(p, b)), claimed \in Lists(Claims, Room(p, b)),
              unset \in Lists(Indices, Room(p, b)), n \in last.to..Len(chain) :
              \E signed, ler, inserted, commit, prev, new :
                 Found(p, b, n, signed, ler, raw, removed, inserted, claimed, unset, commit, prev, new)
<1> DEFINE R == Room(p, b)
           sofar(ler, commit, witness) == bridge_constraints_input(
              AggchainProofWitness([prev_block_hash |-> p, new_block_hash |-> b],
                                   ler, commit, witness))
           F1(raw, removed, claimed, unset, ler, inserted, commit, prev, new) ==
              \E n \in last.to..Len(chain), signed \in BOOLEAN :
                 Found(p, b, n, signed, ler, raw, removed, inserted, claimed, unset, commit, prev, new)
           F2(raw, removed, claimed, unset, ler, prev, new) ==
              \E commit \in Lists(Claims, Len(claimed)) :
                 /\ verify_constrained_global_indices(
                        sofar(ler, commit, Witness(raw, removed, <<>>, claimed, unset, prev, new)))
                 /\ \E inserted \in Lists(Gers, Len(raw)) :
                    /\ verify_inserted_gers(sofar(ler, commit,
                            Witness(raw, removed, inserted, claimed, unset, prev, new)))
                    /\ F1(raw, removed, claimed, unset, ler, inserted, commit, prev, new)
           F3(raw, removed, ler, prev, new) ==
              \E claimed \in Lists(Claims, R), unset \in Lists(Indices, R) :
                 /\ verify_claims_hash_chains(
                        sofar(ler, <<>>, Witness(raw, removed, <<>>, claimed, unset, prev, new)))
                 /\ F2(raw, removed, claimed, unset, ler, prev, new)
           F4(prev, new) ==
              \E ler \in {getRoot(block) : block \in Hashes}, raw, removed \in Lists(Gers, R) :
                 /\ verify_new_ler(
                        sofar(ler, <<>>, Witness(raw, removed, <<>>, <<>>, <<>>, prev, new)))
                 /\ verify_ger_hash_chains(
                        sofar(ler, <<>>, Witness(raw, removed, <<>>, <<>>, <<>>, prev, new)))
                 /\ F3(raw, removed, ler, prev, new)
<1>1. \E prev, new \in Sketches :
        /\ execute(prev, p, "insertedGERHashChain") /\ execute(new, b, "getRoot")
        /\ F4(prev, new)
    BY Zenon DEF Prove, Found
<1> HIDE DEF F1, F2, F3, F4, R, sofar
<1>2. PICK prev \in Sketches, new \in Sketches : F4(prev, new)
    BY <1>1, Zenon
<1>3. PICK ler \in {getRoot(block) : block \in Hashes},
           raw \in Lists(Gers, R), removed \in Lists(Gers, R) : F3(raw, removed, ler, prev, new)
    BY <1>2, Zenon DEF F4
<1>4. PICK claimed \in Lists(Claims, R), unset \in Lists(Indices, R) :
           F2(raw, removed, claimed, unset, ler, prev, new)
    BY <1>3, Zenon DEF F3
<1>5. PICK commit \in Lists(Claims, Len(claimed)), inserted \in Lists(Gers, Len(raw)) :
           F1(raw, removed, claimed, unset, ler, inserted, commit, prev, new)
    BY <1>4, Zenon DEF F2
<1>6. PICK n \in last.to..Len(chain), signed \in BOOLEAN :
           Found(p, b, n, signed, ler, raw, removed, inserted, claimed, unset, commit, prev, new)
    BY <1>5, Zenon DEF F1
<1> QED BY <1>6, Zenon DEF R

\* The room for the lists of a range is a number.
LEMMA RoomType == ASSUME NEW p \in Seq(Events), NEW b \in Seq(Events) PROVE Room(p, b) \in Nat
<1>1. \A block \in Seq(Events) : Listed(block) \in Nat
    <2> SUFFICES ASSUME NEW block \in Seq(Events) PROVE Listed(block) \in Nat
        OBVIOUS
    <2>1. /\ Len(Items(block, "insert")) \in Nat /\ Len(Items(block, "remove")) \in Nat
          /\ Len(Items(block, "claim")) \in Nat /\ Len(Items(block, "unset")) \in Nat
        BY ChainTypes DEF Events
    <2> QED BY <2>1 DEF Listed, insertedGERHashChain, removedGERHashChain,
                    claimedGlobalIndexHashChain, unsetGlobalIndexHashChain
<1>2. Listed(p) \in Nat /\ Listed(b) \in Nat
    BY <1>1
<1> QED BY <1>2 DEF Room, Monus

LEMMA ProveStep ==
    ASSUME ChainInv, NEW p, NEW b, Prove(p, b)
    PROVE  \E n : ProveMeans(n)
<1>0. PICK raw \in Lists(Gers, Room(p, b)), removed \in Lists(Gers, Room(p, b)),
           claimed \in Lists(Claims, Room(p, b)), unset \in Lists(Indices, Room(p, b)),
           n \in last.to..Len(chain) :
             \E signed, ler, inserted, commit, prev, new :
                Found(p, b, n, signed, ler, raw, removed, inserted, claimed, unset, commit, prev, new)
    BY ProveFinds, Zenon
<1>1. PICK signed, ler, inserted, commit, prev, new :
        Found(p, b, n, signed, ler, raw, removed, inserted, claimed, unset, commit, prev, new)
    BY <1>0, Zenon
<1> DEFINE fep == FepInputs(StateRoot(Proven), StateRoot(Block(n)), n, p, b, signed)
           witness == Witness(raw, removed, inserted, claimed, unset, prev, new)
           w == AggchainProofWitness(fep, ler, commit, witness)
           input == bridge_constraints_input(w)
<1>2. verify_aggchain_inputs(w) /\ Settle(w)
    BY <1>1, Zenon DEF Found
<1>3. fep.claim_block_num = n /\ fep.prev_block_hash = p /\ fep.new_block_hash = b
    BY Zenon DEF FepInputs
<1> HIDE DEF fep
<1>4. /\ witness.raw_inserted_gers = raw /\ witness.removed_gers = removed
      /\ witness.inserted_gers = inserted /\ witness.bridge_exits_claimed = claimed
      /\ witness.global_indices_unset = unset
    BY DEF Witness
<1> HIDE DEF witness
<1>5. /\ w.fep = fep /\ w.new_local_exit_root = ler /\ w.l1_info_root = l1_info
      /\ w.commit_imported_bridge_exits = commit /\ w.bridge_witness = witness
    BY DEF AggchainProofWitness
<1> HIDE DEF w
<1>6. /\ input.prev_l2_block_hash = w.fep.prev_block_hash
      /\ input.new_l2_block_hash = w.fep.new_block_hash
      /\ input.new_local_exit_root = w.new_local_exit_root /\ input.l1_info_root = w.l1_info_root
      /\ input.commit_imported_bridge_exits = w.commit_imported_bridge_exits
      /\ input.bridge_witness = w.bridge_witness
    BY DEF bridge_constraints_input
<1>7. verify(input)
    BY <1>2, Zenon DEF verify_aggchain_inputs
<1> HIDE DEF input
<1>8. Kept(w, w.fep.claim_block_num)
    BY <1>2, SettleMeans, Zenon
<1>9. Kept(w, n)
    BY <1>3, <1>5, <1>8, Zenon
<1>10. /\ Extends(p, raw, b, "insert") /\ Extends(p, removed, b, "remove")
       /\ Extends(p, claimed, b, "claim") /\ Extends(p, unset, b, "unset")
       /\ filter_values(removed, raw, raw) = inserted
       /\ \A i \in 1..Len(inserted) : inserted[i] \in l1_info
       /\ filter_values(unset, claimed, GlobalIndices(claimed)) = commit
       /\ ler = getRoot(b)
    BY <1>3, <1>4, <1>5, <1>6, <1>7, VerifyMeans, Zenon
<1>11. RangeFacts(n)
    BY RangeOfChain
<1>12. ASSUME p = Proven, b = Block(n), last'.commit = commit, last'.ler = ler
       PROVE  RangeProven(n)
    <2> DEFINE r == RangeTo(n)
               E == Events
    <2>1. \A e \in E : /\ e.op = "insert" => e.item \in Gers
                       /\ e.op = "remove" => e.item \in Gers
                       /\ e.op = "claim" => e.item \in Claims
                       /\ e.op = "unset" => e.item \in Indices
        BY EventKinds, ClaimIndices DEF Events
    <2>2. p \in Seq(E) /\ r \in Seq(E) /\ b \in Seq(E) /\ Joins(b, p, r)
        BY <1>11, <1>12, Zenon DEF RangeFacts
    <2>3. Room(p, b) \in Nat
        BY <2>2, RoomType, Zenon
    <2>4. /\ raw \in Seq(Gers) /\ removed \in Seq(Gers) /\ claimed \in Seq(Claims)
          /\ unset \in Seq(Indices)
        BY <2>3, ListsType
    <2> HIDE DEF r, E
    <2>5. raw = Items(r, "insert") /\ removed = Items(r, "remove")
        BY <1>10, <2>1, <2>2, <2>4, ExtendsRange
    <2>6. claimed = Items(r, "claim") /\ unset = Items(r, "unset")
        BY <1>10, <2>1, <2>2, <2>4, ExtendsRange
    <2>7. inserted = InsertedOf(r) /\ commit = CommitOf(r)
        BY <1>10, <2>5, <2>6, Zenon DEF InsertedOf, CommitOf, ClaimedIndices
    <2> QED BY <1>10, <1>12, <2>7, Zenon DEF RangeProven, r
<1>13. last'.named => RangeProven(n)
    BY <1>3, <1>5, <1>9, <1>12, Zenon DEF Kept
<1>14. ProveMeans(n)
    BY <1>9, <1>13, Zenon DEF ProveMeans, Kept
<1> QED BY <1>14, Zenon

-----------------------------------------------------------------------------
(* The invariant *)

\* The last range ends where the next one starts, and no proof ended later.
EndsInv == bound => last.to \in ends /\ ends \subseteq 0..last.to

IInv == ChainInv /\ EndsInv /\ GersLegitimate /\ ClaimsReported /\ CommitmentExact

\* The part of ClaimsReported that is about the claims themselves, for blocks c, ends
\* e and reports rep.
LeafClaims(c, e, to, rep) ==
    \A i \in InForce(SubSeq(c, 1, to), "claim", UnsetsClaim), from \in e :
        from < i /\ (\A n \in e : n <= from \/ n >= i) =>
            \/ c[i].item \in rep
            \/ c[i].item.global_index \in IndicesInForce(SubSeq(c, 1, from))

LEMMA Reported ==
    /\ ClaimsReported <=>
          (bound => /\ IndicesInForce(Proven) \subseteq {claim.global_index : claim \in reported}
                    /\ LeafClaims(chain, ends, last.to, reported))
    /\ ClaimsReported' <=>
          (bound' => /\ IndicesInForce(Proven') \subseteq {claim.global_index : claim \in reported'}
                     /\ LeafClaims(chain', ends', last'.to, reported'))
<1>1. ClaimsReported <=>
          (bound => /\ IndicesInForce(Proven) \subseteq {claim.global_index : claim \in reported}
                    /\ LeafClaims(chain, ends, last.to, reported))
    BY Zenon DEF ClaimsReported, LeafClaims, Standing, Block
<1>2. ClaimsReported' <=>
          (bound' => /\ IndicesInForce(Proven') \subseteq {claim.global_index : claim \in reported'}
                     /\ LeafClaims(chain', ends', last'.to, reported'))
    BY Zenon DEF ClaimsReported, LeafClaims, Standing, Block
<1> QED BY <1>1, <1>2, Zenon

LEMMA Steps ==
    ASSUME [Next]_vars
    PROVE  \/ \E event \in Events : Emit(event)
           \/ \E ger \in Gers : L1Grow(ger)
           \/ \E p, b : Prove(p, b)
           \/ UNCHANGED vars
BY Zenon DEF Next, Events

LEMMA InitInv == Init => IInv
<1> SUFFICES ASSUME Init PROVE IInv
    OBVIOUS
<1>1. /\ chain = <<>> /\ Len(chain) = 0 /\ last.from = 0 /\ last.to = 0 /\ last.commit = <<>>
      /\ last.ler = <<>> /\ <<>> \in Seq(Events) /\ SubSeq(<<>>, 1, 0) = <<>>
      /\ ends = {0} /\ l1_info = {} /\ reported = {}
    BY DEF Init
<1>2. Proven = <<>> /\ Block(0) = <<>>
    BY <1>1 DEF Proven, Block
<1>3. ChainInv
    BY <1>1 DEF ChainInv, Admitted
<1>4. GersInForce(<<>>) = {} /\ IndicesInForce(<<>>) = {}
    BY <1>1, GersStand, IndicesStand, StandsEmpty
<1>5. GersLegitimate /\ EndsInv
    BY <1>1, <1>2, <1>4 DEF GersLegitimate, EndsInv
<1>6. ClaimsReported
    <2>1. InForce(<<>>, "claim", UnsetsClaim) = {}
        BY DEF InForce
    <2>2. LeafClaims(chain, ends, last.to, reported)
        BY <1>1, <2>1, Zenon DEF LeafClaims
    <2> QED BY <1>2, <1>4, <2>2, Reported
<1>7. Items(<<>>, "claim") = <<>> /\ Items(<<>>, "exit") = <<>>
    BY ItemsEmpty
<1>8. ClaimsOfRange(0, 0) = <<>>
    <2> DEFINE fresh == {i \in Standing(0) :
                           Block(0)[i].item.global_index \notin IndicesInForce(Block(0))}
               ev(i) == IF i \in fresh THEN Block(0)[i] ELSE [op |-> "other", item |-> "any"]
    <2>1. ClaimsOfRange(0, 0) = Items([k \in 1..0 - 0 |-> ev(0 + k)], "claim")
        BY Zenon DEF ClaimsOfRange
    <2> HIDE DEF ev, fresh
    <2>2. [k \in 1..0 - 0 |-> ev(0 + k)] = <<>>
        OBVIOUS
    <2> QED BY <1>7, <2>1, <2>2, Zenon
<1>9. CommitmentExact
    BY <1>1, <1>2, <1>7, <1>8 DEF CommitmentExact, getRoot
<1> QED BY <1>3, <1>5, <1>6, <1>9 DEF IInv

\* A new event changes nothing at the blocks up to the last proven one.
LEMMA BlocksKept ==
    ASSUME ChainInv, NEW event \in Events, Emit(event)
    PROVE  /\ \A m \in 0..Len(chain) : Block(m)' = Block(m)
           /\ \A i \in 1..Len(chain) : chain'[i] = chain[i]
           /\ last' = last /\ l1_info' = l1_info /\ reported' = reported
           /\ ends' = ends /\ bound' = bound
<1>1. /\ chain \in Seq(Events) /\ chain' = Append(chain, event)
      /\ last' = last /\ l1_info' = l1_info /\ reported' = reported
      /\ ends' = ends /\ bound' = bound
    BY DEF Emit, ChainInv
<1>2. \A m \in 0..Len(chain) : SubSeq(Append(chain, event), 1, m) = SubSeq(chain, 1, m)
    BY <1>1, PrefixAppend
<1>3. \A m \in 0..Len(chain) : Block(m)' = Block(m)
    BY <1>1, <1>2, Zenon DEF Block
<1>4. \A i \in 1..Len(chain) : chain'[i] = chain[i]
    BY <1>1
<1> QED BY <1>1, <1>3, <1>4

LEMMA ChainStep == ChainInv /\ [Next]_vars => ChainInv'
<1> SUFFICES ASSUME ChainInv, [Next]_vars PROVE ChainInv'
    OBVIOUS
<1>1. ASSUME NEW event \in Events, Emit(event) PROVE ChainInv'
    <2>1. /\ chain \in Seq(Events) /\ Admitted(chain) /\ Admissible(chain, event)
          /\ chain' = Append(chain, event) /\ last' = last
        BY <1>1 DEF Emit, ChainInv
    <2>2. chain' \in Seq(Events) /\ Len(chain') = Len(chain) + 1 /\ Len(chain) \in Nat
        BY <2>1
    <2>3. Admitted(Append(chain, event))
        BY <2>1, AdmittedAppend
    <2>4. Admitted(chain')
        BY <2>1, <2>3
    <2>5. last'.from \in Nat /\ last'.to \in Nat /\ last'.from <= last'.to /\ last'.to <= Len(chain')
        BY <2>1, <2>2 DEF ChainInv
    <2> QED BY <2>2, <2>4, <2>5 DEF ChainInv
<1>2. ASSUME NEW ger \in Gers, L1Grow(ger) PROVE ChainInv'
    BY <1>2 DEF L1Grow, ChainInv
<1>3. ASSUME NEW p, NEW b, Prove(p, b) PROVE ChainInv'
    <2>1. PICK n : ProveMeans(n)
        BY <1>3, ProveStep
    <2>2. /\ chain' = chain /\ last'.from = last.to /\ last'.to = n
          /\ n \in last.to..Len(chain)
        BY <2>1, Zenon DEF ProveMeans
    <2>3. last.to \in Nat /\ Len(chain) \in Nat
        BY DEF ChainInv
    <2>4. last'.from \in Nat /\ last'.to \in Nat /\ last'.from <= last'.to /\ last'.to <= Len(chain')
        BY <2>2, <2>3
    <2>5. chain' \in Seq(Events) /\ Admitted(chain')
        BY <2>2 DEF ChainInv
    <2> QED BY <2>4, <2>5 DEF ChainInv
<1>4. CASE UNCHANGED vars
    BY <1>4 DEF vars, ChainInv
<1> QED BY <1>1, <1>2, <1>3, <1>4, Steps, Zenon

LEMMA EndsStep == ChainInv /\ EndsInv /\ [Next]_vars => EndsInv'
<1> SUFFICES ASSUME ChainInv, EndsInv, [Next]_vars PROVE EndsInv'
    OBVIOUS
<1>1. ASSUME NEW event \in Events, Emit(event) PROVE EndsInv'
    BY <1>1 DEF Emit, EndsInv
<1>2. ASSUME NEW ger \in Gers, L1Grow(ger) PROVE EndsInv'
    BY <1>2 DEF L1Grow, EndsInv
<1>3. ASSUME NEW p, NEW b, Prove(p, b) PROVE EndsInv'
    <2>1. PICK n : ProveMeans(n)
        BY <1>3, ProveStep
    <2>2. /\ n \in last.to..Len(chain) /\ last'.to = n
          /\ bound' => bound /\ ends' = ends \cup {n}
        BY <2>1, Zenon DEF ProveMeans
    <2>3. last.to \in Nat /\ Len(chain) \in Nat
        BY DEF ChainInv
    <2> QED BY <2>2, <2>3 DEF EndsInv
<1>4. CASE UNCHANGED vars
    BY <1>4 DEF vars, EndsInv
<1> QED BY <1>1, <1>2, <1>3, <1>4, Steps, Zenon

LEMMA GersStep == ChainInv /\ GersLegitimate /\ [Next]_vars => GersLegitimate'
<1> SUFFICES ASSUME ChainInv, GersLegitimate, [Next]_vars PROVE GersLegitimate'
    OBVIOUS
<1>0. last.to \in 0..Len(chain)
    BY DEF ChainInv
<1>1. ASSUME NEW event \in Events, Emit(event) PROVE GersLegitimate'
    <2>1. Proven' = Proven /\ l1_info' = l1_info /\ bound' = bound
        BY <1>0, <1>1, BlocksKept DEF Proven, Block
    <2> QED BY <2>1 DEF GersLegitimate
<1>2. ASSUME NEW ger \in Gers, L1Grow(ger) PROVE GersLegitimate'
    <2>1. Proven' = Proven /\ l1_info \subseteq l1_info' /\ bound' = bound
        BY <1>2 DEF L1Grow, Proven, Block
    <2> QED BY <2>1 DEF GersLegitimate
<1>3. ASSUME NEW p, NEW b, Prove(p, b) PROVE GersLegitimate'
    <2>1. PICK n : ProveMeans(n)
        BY <1>3, ProveStep
    <2>2. /\ n \in last.to..Len(chain) /\ chain' = chain /\ last'.to = n /\ l1_info' = l1_info
          /\ bound' => bound /\ RangeProven(n)
        BY <2>1, Zenon DEF ProveMeans
    <2>3. Proven' = Block(n)
        BY <2>2 DEF Proven, Block
    <2> SUFFICES ASSUME bound' PROVE GersInForce(Block(n)) \subseteq l1_info
        BY <2>2, <2>3 DEF GersLegitimate
    <2>4. RangeFacts(n)
        BY <2>2, RangeOfChain
    <2> DEFINE r == RangeTo(n)
    <2>5. InsertedCovers(Proven, r, Block(n))
        BY <2>4, InsertedInForce, Zenon DEF RangeFacts, Events
    <2>6. \A i \in 1..Len(InsertedOf(r)) : InsertedOf(r)[i] \in l1_info
        BY <2>2, Zenon DEF RangeProven
    <2> HIDE DEF r
    <2> QED BY <2>2, <2>5, <2>6 DEF GersLegitimate, InsertedCovers
<1>4. CASE UNCHANGED vars
    BY <1>4 DEF vars, GersLegitimate, Proven, Block
<1> QED BY <1>1, <1>2, <1>3, <1>4, Steps, Zenon

-----------------------------------------------------------------------------
(* The claims *)

LEMMA BlockOfBlock ==
    ASSUME NEW E, NEW b \in Seq(E), NEW n \in 0..Len(b), NEW m \in 0..n
    PROVE  /\ SubSeq(SubSeq(b, 1, n), 1, m) = SubSeq(b, 1, m)
           /\ SubSeq(SubSeq(b, 1, n), m + 1, n) = SubSeq(b, m + 1, n)
           /\ \A i \in 1..n : SubSeq(b, 1, n)[i] = b[i]
<1> DEFINE c == SubSeq(b, 1, n)
<1>1. Len(b) \in Nat /\ c \in Seq(E) /\ Len(c) = n /\ \A i \in 1..n : c[i] = b[i]
    OBVIOUS
<1> HIDE DEF c
<1> DEFINE cp == SubSeq(c, 1, m)
           bp == SubSeq(b, 1, m)
           cr == SubSeq(c, m + 1, n)
           br == SubSeq(b, m + 1, n)
<1>2. cp \in Seq(E) /\ Len(cp) = m /\ \A i \in 1..m : cp[i] = c[i]
    BY <1>1
<1>3. bp \in Seq(E) /\ Len(bp) = m /\ \A i \in 1..m : bp[i] = b[i]
    BY <1>1
<1>4. cr \in Seq(E) /\ Len(cr) = n - m /\ \A i \in 1..n - m : cr[i] = c[m + i]
    BY <1>1
<1>5. br \in Seq(E) /\ Len(br) = n - m /\ \A i \in 1..n - m : br[i] = b[m + i]
    BY <1>1
<1> HIDE DEF cp, bp, cr, br
<1>6. cp = bp
    <2>1. \A i \in 1..m : cp[i] = bp[i]
        BY <1>1, <1>2, <1>3
    <2> QED BY <1>2, <1>3, <2>1
<1>7. cr = br
    <2>1. \A i \in 1..n - m : m + i \in 1..n
        OBVIOUS
    <2>2. \A i \in 1..n - m : cr[i] = br[i]
        BY <1>1, <1>4, <1>5, <2>1
    <2> QED BY <1>4, <1>5, <2>2
<1> QED BY <1>1, <1>6, <1>7 DEF c, cp, bp, cr, br

\* A claim that stands at a block stood at every block since it was made.
LEMMA StoodBefore ==
    ASSUME NEW E, NEW c \in Seq(E), NEW n \in 0..Len(c), NEW m \in 0..n,
           NEW i \in InForce(SubSeq(c, 1, n), "claim", UnsetsClaim), i <= m
    PROVE  i \in InForce(SubSeq(c, 1, m), "claim", UnsetsClaim)
<1> DEFINE b == SubSeq(c, 1, n)
           p == SubSeq(c, 1, m)
<1>1. /\ Len(c) \in Nat /\ Len(b) = n /\ Len(p) = m
      /\ \A j \in 1..n : b[j] = c[j]
      /\ \A j \in 1..m : p[j] = c[j]
    OBVIOUS
<1> HIDE DEF b, p
<1>2. i \in 1..n /\ b[i].op = "claim" /\ \A j \in i + 1..n : ~UnsetsClaim(b[j], b[i].item)
    BY <1>1 DEF InForce, b
<1>3. i \in 1..m /\ p[i] = b[i] /\ \A j \in i + 1..m : j \in i + 1..n /\ p[j] = b[j]
    BY <1>1, <1>2
<1>4. \A j \in i + 1..m : ~UnsetsClaim(p[j], p[i].item)
    BY <1>2, <1>3, Zenon
<1>5. i \in InForce(p, "claim", UnsetsClaim)
    BY <1>1, <1>2, <1>3, <1>4 DEF InForce
<1> QED BY <1>5 DEF p

\* One range more: the claims before it are reported already, and of its own those of
\* an index that was free at its start.
LEMMA LeavesOfRange ==
    ASSUME ChainInv, NEW n \in last.to..Len(chain), NEW rep,
           last.to \in ends, ends \subseteq 0..last.to,
           LeafClaims(chain, ends, last.to, reported),
           reported \subseteq rep,
           \A k \in 1..Len(CommitOf(RangeTo(n))) : CommitOf(RangeTo(n))[k] \in rep
    PROVE  LeafClaims(chain, ends \cup {n}, n, rep)
<1> DEFINE m == last.to
           b == Block(n)
<1>1. /\ chain \in Seq(Events) /\ Len(chain) \in Nat /\ m \in Nat /\ n \in Nat /\ m <= n
      /\ n \in 0..Len(chain) /\ m \in 0..n
    BY DEF ChainInv
<1>2. b \in Seq(Events) /\ Admitted(b) /\ Len(b) = n
    BY RangeOfChain DEF RangeFacts
<1>3. /\ SubSeq(b, 1, m) = SubSeq(chain, 1, m) /\ SubSeq(b, m + 1, n) = RangeTo(n)
      /\ \A i \in 1..n : b[i] = chain[i]
    BY <1>1, BlockOfBlock, Zenon DEF Block, RangeTo
<1>4. SubSeq(chain, 1, n) = b
    BY DEF Block
<1> HIDE DEF b, m
<1>5. ASSUME NEW i \in InForce(b, "claim", UnsetsClaim), NEW from \in ends \cup {n},
             from < i, \A e \in ends \cup {n} : e <= from \/ e >= i
      PROVE  \/ chain[i].item \in rep
             \/ chain[i].item.global_index \in IndicesInForce(SubSeq(chain, 1, from))
    <2>1. i \in 1..n
        BY <1>2 DEF InForce
    <2>2. from \in ends /\ from \in 0..m
        BY <1>1, <1>5, <2>1 DEF m
    <2>3. CASE i <= m
        <3>1. i \in InForce(SubSeq(chain, 1, m), "claim", UnsetsClaim)
            BY <1>1, <1>4, <2>3, StoodBefore
        <3>2. \A e \in ends : e <= from \/ e >= i
            BY <1>5
        <3>3. \/ chain[i].item \in reported
              \/ chain[i].item.global_index \in IndicesInForce(SubSeq(chain, 1, from))
            BY <1>5, <2>2, <3>1, <3>2, Zenon DEF LeafClaims, m
        <3> QED BY <3>3
    <2>4. CASE i > m
        <3>1. from = m
            BY <1>1, <1>5, <2>1, <2>2, <2>4 DEF m
        <3>2. CASE i \in Fresh(b, m)
            <4>1. \E k \in 1..Len(CommitOf(SubSeq(b, m + 1, n))) :
                    CommitOf(SubSeq(b, m + 1, n))[k] = b[i].item
                BY <1>1, <1>2, <2>4, <3>2, FreshCommitted DEF Events
            <4>2. b[i].item \in rep
                BY <1>3, <4>1, Zenon
            <4> QED BY <1>3, <2>1, <4>2
        <3>3. CASE i \notin Fresh(b, m)
            BY <1>3, <1>5, <2>1, <3>1, <3>3 DEF Fresh
        <3> QED BY <3>2, <3>3
    <2> QED BY <1>1, <2>1, <2>3, <2>4
<1> QED BY <1>4, <1>5, Zenon DEF LeafClaims

LEMMA ClaimsStep == ChainInv /\ EndsInv /\ ClaimsReported /\ [Next]_vars => ClaimsReported'
<1> SUFFICES ASSUME ChainInv, EndsInv, ClaimsReported, [Next]_vars PROVE ClaimsReported'
    OBVIOUS
<1>0. last.to \in 0..Len(chain) /\ last.to \in Nat /\ Len(chain) \in Nat
    BY DEF ChainInv
<1>1. ASSUME NEW event \in Events, Emit(event) PROVE ClaimsReported'
    <2>1. /\ \A m \in 0..Len(chain) : SubSeq(chain', 1, m) = SubSeq(chain, 1, m)
          /\ \A i \in 1..Len(chain) : chain'[i] = chain[i]
          /\ last' = last /\ reported' = reported /\ ends' = ends /\ bound' = bound
        BY <1>1, BlocksKept DEF Block
    <2>2. Proven' = Proven
        BY <1>0, <2>1 DEF Proven, Block
    <2>3. bound => LeafClaims(chain', ends, last.to, reported)
        <3> SUFFICES ASSUME bound, NEW from \in ends,
                            NEW i \in InForce(SubSeq(chain', 1, last.to), "claim", UnsetsClaim),
                            from < i, \A n \in ends : n <= from \/ n >= i
                     PROVE  \/ chain'[i].item \in reported
                            \/ chain'[i].item.global_index \in IndicesInForce(SubSeq(chain', 1, from))
            BY Zenon DEF LeafClaims
        <3>1. from \in 0..Len(chain)
            BY <1>0 DEF EndsInv
        <3>2. i \in InForce(SubSeq(chain, 1, last.to), "claim", UnsetsClaim)
            BY <1>0, <2>1
        <3>3. Len(SubSeq(chain, 1, last.to)) = last.to
            BY <1>0 DEF ChainInv
        <3>4. i \in 1..last.to
            BY <3>2, <3>3 DEF InForce
        <3>5. i \in 1..Len(chain)
            BY <1>0, <3>4
        <3>6. \/ chain[i].item \in reported
              \/ chain[i].item.global_index \in IndicesInForce(SubSeq(chain, 1, from))
            BY <3>2, Reported, Zenon DEF LeafClaims
        <3> QED BY <2>1, <3>1, <3>5, <3>6, Zenon
    <2> QED BY <2>1, <2>2, <2>3, Reported, Zenon
<1>2. ASSUME NEW ger \in Gers, L1Grow(ger) PROVE ClaimsReported'
    BY <1>2, Reported, Zenon DEF L1Grow, Proven, Block
<1>3. ASSUME NEW p, NEW b, Prove(p, b) PROVE ClaimsReported'
    <2>1. PICK n : ProveMeans(n)
        BY <1>3, ProveStep
    <2>2. /\ n \in last.to..Len(chain) /\ chain' = chain /\ last'.to = n
          /\ bound' => /\ bound /\ RangeProven(n) /\ ends' = ends \cup {n}
                       /\ reported' = reported \cup {last'.commit[i] : i \in 1..Len(last'.commit)}
        BY <2>1, Zenon DEF ProveMeans
    <2>3. Proven' = Block(n)
        BY <2>2 DEF Proven, Block
    <2>4. RangeFacts(n)
        BY <2>2, RangeOfChain
    <2> DEFINE r == RangeTo(n)
    <2>5. CommitCovers(Proven, r, Block(n))
        BY <2>4, CommitInForce, Zenon DEF RangeFacts, Events
    <2>6. ASSUME bound'
          PROVE  /\ IndicesInForce(Block(n)) \subseteq {claim.global_index : claim \in reported'}
                 /\ LeafClaims(chain, ends', n, reported')
        <3>1. /\ last'.commit = CommitOf(r) /\ ends' = ends \cup {n}
              /\ reported' = reported \cup {CommitOf(r)[i] : i \in 1..Len(CommitOf(r))}
            BY <2>2, <2>6, Zenon DEF RangeProven
        <3>2. /\ IndicesInForce(Proven) \subseteq {claim.global_index : claim \in reported}
              /\ LeafClaims(chain, ends, last.to, reported)
              /\ last.to \in ends /\ ends \subseteq 0..last.to
            BY <2>2, <2>6, Reported, Zenon DEF EndsInv
        <3>3. IndicesInForce(Block(n)) \subseteq {claim.global_index : claim \in reported'}
            <4> HIDE DEF r
            <4> QED BY <2>5, <3>1, <3>2, Zenon DEF CommitCovers
        <3>4. LeafClaims(chain, ends \cup {n}, n, reported')
            <4>1. /\ reported \subseteq reported'
                  /\ \A k \in 1..Len(CommitOf(r)) : CommitOf(r)[k] \in reported'
                BY <3>1, Zenon
            <4> QED BY <2>2, <3>2, <4>1, LeavesOfRange, Zenon
        <3> QED BY <3>1, <3>3, <3>4, Zenon
    <2> QED BY <2>2, <2>3, <2>6, Reported, Zenon
<1>4. CASE UNCHANGED vars
    BY <1>4, Reported, Zenon DEF vars, Proven, Block
<1> QED BY <1>1, <1>2, <1>3, <1>4, Steps, Zenon

-----------------------------------------------------------------------------
(* The commitment of the last range *)

LEMMA RangeCommit ==
    ASSUME ChainInv, NEW n \in last.to..Len(chain)
    PROVE  CommitOf(RangeTo(n)) = ClaimsOfRange(last.to, n)
<1> DEFINE m == last.to
           b == Block(n)
           fresh == {i \in Standing(n) : b[i].item.global_index \notin IndicesInForce(Block(m))}
<1>1. chain \in Seq(Events) /\ Len(chain) \in Nat /\ m \in Nat /\ n \in Nat /\ m <= n
      /\ n \in 0..Len(chain) /\ m \in 0..n
    BY DEF ChainInv
<1>2. b \in Seq(Events) /\ Admitted(b) /\ Len(b) = n
    BY RangeOfChain DEF RangeFacts
<1>3. SubSeq(b, 1, m) = Block(m) /\ SubSeq(b, m + 1, n) = RangeTo(n)
    BY <1>1, BlockOfBlock, Zenon DEF Block, RangeTo
<1>4. fresh = Fresh(b, m)
    BY <1>3, Zenon DEF Fresh, Standing
<1>5. ClaimsOfRange(m, n) =
        Items([k \in 1..n - m |-> IF m + k \in fresh THEN b[m + k]
                                  ELSE [op |-> "other", item |-> "any"]], "claim")
    BY Zenon DEF ClaimsOfRange
<1> HIDE DEF b, fresh
<1>6. ClaimsOfRange(m, n) = Items(Masked(b, m, n), "claim")
    BY <1>4, <1>5, Zenon DEF Masked
<1>7. CommitOf(SubSeq(b, m + 1, Len(b))) = Items(Masked(b, m, Len(b)), "claim")
    BY <1>1, <1>2, CommitExact DEF Events
<1> QED BY <1>2, <1>3, <1>6, <1>7

LEMMA Exact ==
    /\ CommitmentExact <=>
          (last.named => /\ last.commit = ClaimsOfRange(last.from, last.to)
                         /\ last.ler = getRoot(Proven))
    /\ CommitmentExact' <=>
          (last'.named => /\ last'.commit = ClaimsOfRange(last.from, last.to)'
                          /\ last'.ler = getRoot(Proven'))
<1>1. CommitmentExact <=>
          (last.named => /\ last.commit = ClaimsOfRange(last.from, last.to)
                         /\ last.ler = getRoot(Proven))
    BY Zenon DEF CommitmentExact
<1>2. CommitmentExact' <=>
          (last'.named => /\ last'.commit = ClaimsOfRange(last.from, last.to)'
                          /\ last'.ler = getRoot(Proven'))
    BY Zenon DEF CommitmentExact
<1> QED BY <1>1, <1>2, Zenon

LEMMA CommitStep == ChainInv /\ CommitmentExact /\ [Next]_vars => CommitmentExact'
<1> SUFFICES ASSUME ChainInv, CommitmentExact, [Next]_vars PROVE CommitmentExact'
    OBVIOUS
<1>0. /\ last.from \in 0..Len(chain) /\ last.to \in 0..Len(chain)
    BY DEF ChainInv
<1>1. ASSUME NEW event \in Events, Emit(event) PROVE CommitmentExact'
    <2>1. /\ \A m \in 0..Len(chain) : Block(m)' = Block(m)
          /\ last' = last
        BY <1>1, BlocksKept
    <2>2. Block(last.from)' = Block(last.from) /\ Block(last.to)' = Block(last.to)
        BY <1>0, <2>1 DEF Block
    <2>3. Standing(last.to)' = Standing(last.to)
        BY <2>2, Zenon DEF Standing
    <2>4. ClaimsOfRange(last.from, last.to)' = ClaimsOfRange(last.from, last.to)
        BY <2>1, <2>2, <2>3, Zenon DEF ClaimsOfRange
    <2> QED BY <2>1, <2>2, <2>4, Exact, Zenon DEF Proven
<1>2. ASSUME NEW ger \in Gers, L1Grow(ger) PROVE CommitmentExact'
    BY <1>2, Exact, Zenon DEF L1Grow, ClaimsOfRange, Standing, Proven, Block
<1>3. ASSUME NEW p, NEW b, Prove(p, b) PROVE CommitmentExact'
    <2>1. PICK n : ProveMeans(n)
        BY <1>3, ProveStep
    <2>2. /\ n \in last.to..Len(chain) /\ chain' = chain /\ last'.from = last.to /\ last'.to = n
          /\ last'.named => last'.commit = CommitOf(RangeTo(n)) /\ last'.ler = getRoot(Block(n))
        BY <2>1, Zenon DEF ProveMeans, RangeProven
    <2>3. CommitOf(RangeTo(n)) = ClaimsOfRange(last.to, n)
        BY <2>2, RangeCommit
    <2>4. Proven' = Block(n) /\ ClaimsOfRange(last.from, last.to)' = ClaimsOfRange(last.to, n)
        BY <2>2, Zenon DEF Block, Proven, Standing, ClaimsOfRange
    <2> QED BY <2>2, <2>3, <2>4, Exact, Zenon
<1>4. CASE UNCHANGED vars
    BY <1>4, Exact, Zenon DEF vars, ClaimsOfRange, Standing, Proven, Block
<1> QED BY <1>1, <1>2, <1>3, <1>4, Steps, Zenon

-----------------------------------------------------------------------------
(* Completeness *)

\* The state roots and the block number of the true range are vouched for.
LEMMA HonestVouched ==
    ASSUME ChainInv, NEW n \in last.to..Len(chain), NEW signed \in BOOLEAN,
           signed \/ l1_info # {}
    PROVE  fep_verify(FepInputs(StateRoot(Proven), StateRoot(Block(n)), n, Proven, Block(n), signed))
<1> DEFINE fep == FepInputs(StateRoot(Proven), StateRoot(Block(n)), n, Proven, Block(n), signed)
           pv == AggregationProofPublicValues(fep)
<1>1. /\ fep.prev_state_root = StateRoot(Proven) /\ fep.new_state_root = StateRoot(Block(n))
      /\ fep.claim_block_num = n /\ fep.signature_optimistic_mode = signed
      /\ fep.l1_head_included = (l1_info # {})
    BY Zenon DEF FepInputs
<1> HIDE DEF fep
<1>2. /\ pv.l2_pre_root = StateRoot(Proven) /\ pv.l2_post_root = StateRoot(Block(n))
      /\ pv.l2_block_number = n
    BY <1>1, Zenon DEF AggregationProofPublicValues
<1>3. n \in 0..Len(chain) /\ last.to \in 0..n
    BY DEF ChainInv
<1>4. \E k \in 0..n : StateRoot(Proven) = StateRoot(Block(k))
    BY <1>3, Zenon DEF Proven
<1> HIDE DEF pv
<1>5. Vouched(pv)
    BY <1>2, <1>3, <1>4, Zenon DEF Vouched
<1>6. fep_verify(fep)
    BY <1>1, <1>5, Zenon DEF fep_verify, pv
<1> QED BY <1>6 DEF fep

LEMMA HonestProvable == ChainInv => HonestRangeProvable
<1> SUFFICES ASSUME ChainInv, NEW n \in last.to..Len(chain), NEW signed \in BOOLEAN,
                    GersInForce(Block(n)) \subseteq l1_info, signed \/ l1_info # {}
             PROVE  verify_aggchain_inputs(TrueWitness(n, signed))
    BY Zenon DEF HonestRangeProvable
<1> DEFINE p == Proven
           b == Block(n)
           r == RangeTo(n)
           raw == Items(r, "insert")
           removed == Items(r, "remove")
           claimed == Items(r, "claim")
           unset == Items(r, "unset")
           witness == Witness(raw, removed, InsertedOf(r), claimed, unset, Sketch(p), Sketch(b))
           fep == FepInputs(StateRoot(p), StateRoot(b), n, p, b, signed)
           w == AggchainProofWitness(fep, getRoot(b), CommitOf(r), witness)
           input == bridge_constraints_input(w)
<1>1. /\ p \in Seq(Events) /\ r \in Seq(Events) /\ b \in Seq(Events)
      /\ Joins(b, p, r) /\ Admitted(p) /\ Admitted(b)
    BY RangeOfChain, Zenon DEF RangeFacts
<1>2. /\ SubSeq(Items(b, "insert"), Len(Items(p, "insert")) + 1, Len(Items(b, "insert"))) = raw
      /\ SubSeq(Items(b, "remove"), Len(Items(p, "remove")) + 1, Len(Items(b, "remove"))) = removed
      /\ SubSeq(Items(b, "claim"), Len(Items(p, "claim")) + 1, Len(Items(b, "claim"))) = claimed
      /\ SubSeq(Items(b, "unset"), Len(Items(p, "unset")) + 1, Len(Items(b, "unset"))) = unset
    <2> SUFFICES ASSUME NEW op \in {"insert", "remove", "claim", "unset"}
                 PROVE  SubSeq(Items(b, op), Len(Items(p, op)) + 1, Len(Items(b, op))) = Items(r, op)
        BY Zenon
    <2>1. PICK T : \A e \in Events : e.op = op => e.item \in T
        <3>1. \A e \in Events : e.op = op => e.item \in {f.item : f \in Events}
            OBVIOUS
        <3> QED BY <3>1, Zenon
    <2> HIDE DEF p, b, r
    <2> DEFINE front == Items(p, op)
               back == Items(r, op)
    <2>2. front \in Seq(T) /\ back \in Seq(T)
        BY <1>1, <2>1, ItemsType
    <2>3. ItemsJoin(p, r, op)
        BY <1>1, <2>1, ItemsConcat
    <2>4. Items(b, op) = front \o back
        BY <1>1, <2>3, Zenon DEF ItemsJoin, Joins
    <2> HIDE DEF front, back
    <2>5. SubSeq(front \o back, Len(front) + 1, Len(front \o back)) = back
        BY <2>2, ConcatSuffix, Zenon
    <2> QED BY <2>4, <2>5, Zenon DEF front, back
<1>3. TrueWitness(n, signed) = w
    BY <1>2, Zenon DEF TrueWitness, Appended, InsertedOf, CommitOf, ClaimedIndices,
        insertedGERHashChain, removedGERHashChain, claimedGlobalIndexHashChain,
        unsetGlobalIndexHashChain
<1>4. /\ Extends(p, raw, b, "insert") /\ Extends(p, removed, b, "remove")
      /\ Extends(p, claimed, b, "claim") /\ Extends(p, unset, b, "unset")
    <2>1. \A e \in Events : e.op = "insert" \/ e.op = "remove" \/ e.op = "claim" \/ e.op = "unset"
                => e.item \in {f.item : f \in Events}
        OBVIOUS
    <2> HIDE DEF p, b, r
    <2>2. /\ ItemsJoin(p, r, "insert") /\ ItemsJoin(p, r, "remove")
          /\ ItemsJoin(p, r, "claim") /\ ItemsJoin(p, r, "unset")
        BY <1>1, <2>1, ItemsConcat
    <2> QED BY <1>1, <2>2, Zenon DEF ItemsJoin, Joins, Extends
<1>5. \A i \in 1..Len(InsertedOf(r)) : InsertedOf(r)[i] \in l1_info
    <2>1. InsertedCovers(p, r, b)
        BY <1>1, InsertedInForce, Zenon DEF Events
    <2> QED BY <2>1, Zenon DEF InsertedCovers
<1>6. /\ Sketch(p).block = p /\ Sketch(b).block = b
      /\ \A call \in GerCalls \cup ClaimCalls \cup {"bridgeAddress", "getRoot"} :
            call \in Sketch(p).calls /\ call \in Sketch(b).calls
    BY DEF Sketch, EvmSketch
<1>7. /\ input.prev_l2_block_hash = p /\ input.new_l2_block_hash = b
      /\ input.new_local_exit_root = getRoot(b) /\ input.l1_info_root = l1_info
      /\ input.commit_imported_bridge_exits = CommitOf(r) /\ input.bridge_witness = witness
    <2>1. fep.prev_block_hash = p /\ fep.new_block_hash = b
        BY Zenon DEF FepInputs
    <2> HIDE DEF fep, witness, p, b
    <2>2. /\ w.fep = fep /\ w.new_local_exit_root = getRoot(b) /\ w.l1_info_root = l1_info
          /\ w.commit_imported_bridge_exits = CommitOf(r) /\ w.bridge_witness = witness
        BY DEF AggchainProofWitness
    <2> HIDE DEF w
    <2> QED BY <2>1, <2>2 DEF bridge_constraints_input
<1>8. /\ witness.raw_inserted_gers = raw /\ witness.removed_gers = removed
      /\ witness.inserted_gers = InsertedOf(r) /\ witness.bridge_exits_claimed = claimed
      /\ witness.global_indices_unset = unset
      /\ witness.prev_l2_block_sketch = Sketch(p) /\ witness.new_l2_block_sketch = Sketch(b)
    BY DEF Witness
<1> HIDE DEF input, witness, p, b
<1>9. \A call \in GerCalls \cup ClaimCalls : fetch_hash_chains(input, call)
    BY <1>6, <1>7, <1>8 DEF fetch_hash_chains, execute
<1>10. verify_ger_hash_chains(input)
    BY <1>4, <1>6, <1>7, <1>8, <1>9, Zenon DEF verify_ger_hash_chains, validate_hash_chain,
        Extends, insertedGERHashChain, removedGERHashChain
<1>11. verify_claims_hash_chains(input)
    BY <1>4, <1>6, <1>7, <1>8, <1>9, Zenon DEF verify_claims_hash_chains, validate_hash_chain,
        Extends, claimedGlobalIndexHashChain, unsetGlobalIndexHashChain
<1>12. fetch_bridge_address(input) /\ verify_new_ler(input)
    BY <1>6, <1>7, <1>8 DEF fetch_bridge_address, verify_new_ler, execute
<1>13. verify_constrained_global_indices(input)
    BY <1>7, <1>8, Zenon DEF verify_constrained_global_indices, CommitOf, ClaimedIndices
<1>14. verify_inserted_gers(input)
    BY <1>5, <1>7, <1>8, Zenon DEF verify_inserted_gers, inserted_ger_verify, InsertedOf
<1>15. verify(input)
    BY <1>10, <1>11, <1>12, <1>13, <1>14, Zenon DEF verify
<1>16. w.fep = fep
    BY Zenon DEF AggchainProofWitness
<1>17. fep_verify(fep)
    BY HonestVouched, Zenon DEF p, b
<1> QED BY <1>3, <1>15, <1>16, <1>17, Zenon DEF verify_aggchain_inputs, input

-----------------------------------------------------------------------------
(* The theorems *)

LEMMA Invariance == Spec => []IInv
<1>1. IInv /\ [Next]_vars => IInv'
    BY ChainStep, EndsStep, GersStep, ClaimsStep, CommitStep DEF IInv
<1> QED BY <1>1, InitInv, PTL DEF Spec

\* verify_aggchain_inputs lets no GER through: as long as every proof names the blocks
\* of its range, which the program leaves to the prover, and whatever else is in the
\* witnesses, what the L2 chain holds at the last proven block is in the L1 info tree.
THEOREM ProvenGersLegitimate == Spec => []GersLegitimate
<1>1. IInv => GersLegitimate BY DEF IInv
<1> QED BY <1>1, Invariance, PTL

\* Under the same assumption it hides no claimed index: each one claimed at the last
\* proven block is in the commitment of some proof.  The very claim, with its leaf, is
\* too, unless its index was claimed already where its range starts.
THEOREM ProvenClaimsReported == Spec => []ClaimsReported
<1>1. IInv => ClaimsReported BY DEF IInv
<1> QED BY <1>1, Invariance, PTL

\* A proof that names the blocks of its range commits to the claims that stand at its
\* end, each once and in order, but for indices claimed before the range, and to the
\* exit root of its end block.
THEOREM ProvenCommitmentExact == Spec => []CommitmentExact
<1>1. IInv => CommitmentExact BY DEF IInv
<1> QED BY <1>1, Invariance, PTL

\* verify_aggchain_inputs accepts the true witness of every range at whose end only
\* GERs of the L1 info tree are held.
THEOREM HonestRangesProvable == Spec => []HonestRangeProvable
<1>1. IInv => HonestRangeProvable BY HonestProvable DEF IInv
<1> QED BY <1>1, Invariance, PTL
=============================================================================
