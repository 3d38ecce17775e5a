------------------------------ MODULE L2Bridge ------------------------------
(***************************************************************************)
(* The L2 contracts that the proofs are about, external: the sovereign     *)
(* chain's GER manager and its bridge.                                     *)
(*                                                                         *)
(* An L2 block is represented by the sequence of bridge events executed up *)
(* to it: its hash, as the hash of the history, determines that sequence,  *)
(* and the contracts' storage is a function of it.  An event is            *)
(*                                                                         *)
(*    [op |-> "insert" | "remove", item |-> a GER]                         *)
(*    [op |-> "claim", item |-> [global_index, bridge_exit_hash]]          *)
(*    [op |-> "unset", item |-> a global index]                            *)
(*    [op |-> "exit", item |-> a bridge exit]                              *)
(*    [op |-> "other", item |-> anything]: leaves the bridge alone         *)
(***************************************************************************)
EXTENDS Naturals, Sequences

\* The items of the events of kind op, in order, as the contract folds them.
Items(block, op) ==
    LET items[i \in 0..Len(block)] ==
            IF i = 0 THEN <<>>
            ELSE IF block[i].op = op THEN Append(items[i - 1], block[i].item)
            ELSE items[i - 1]
    IN  items[Len(block)]

\* The L2 contracts' view functions at a block.
insertedGERHashChain(block) == Items(block, "insert")
removedGERHashChain(block) == Items(block, "remove")
claimedGlobalIndexHashChain(block) == Items(block, "claim")
unsetGlobalIndexHashChain(block) == Items(block, "unset")
getRoot(block) == Items(block, "exit")

\* What is in force at a block: set by an event that no later event undoes.
InForce(block, op, undo(_, _)) ==
    {i \in 1..Len(block) :
        /\ block[i].op = op
        /\ \A j \in i + 1..Len(block) : ~undo(block[j], block[i].item)}

RemovesGer(e, ger) == e.op = "remove" /\ e.item = ger
UnsetsClaim(e, claim) == e.op = "unset" /\ e.item = claim.global_index

GersInForce(block) ==
    {block[i].item : i \in InForce(block, "insert", RemovesGer)}
IndicesInForce(block) ==
    {block[i].item.global_index : i \in InForce(block, "claim", UnsetsClaim)}

\* The contracts insert a GER that they do not hold and remove one that they
\* hold, claim an index that is not claimed and unset one that is.
Admissible(block, event) ==
    CASE event.op = "insert" -> event.item \notin GersInForce(block)
      [] event.op = "remove" -> event.item \in GersInForce(block)
      [] event.op = "claim"  -> event.item.global_index \notin IndicesInForce(block)
      [] event.op = "unset"  -> event.item \in IndicesInForce(block)
      [] event.op \in {"exit", "other"} -> TRUE

\* The events there can be, for the given GERs and claims.
BridgeEvents(gers, claims) ==
    [op : {"insert", "remove"}, item : gers] \cup [op : {"claim"}, item : claims]
        \cup [op : {"unset"}, item : {c.global_index : c \in claims}]
        \cup [op : {"exit", "other"}, item : {"any"}]
=============================================================================
