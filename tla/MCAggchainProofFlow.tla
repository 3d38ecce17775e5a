------------------------ MODULE MCAggchainProofFlow ------------------------
(* Instances of AggchainProofFlow for TLC. *)
EXTENDS AggchainProofFlow

\* One global index, claimed with one leaf.
OneClaim == {[global_index |-> "i1", bridge_exit_hash |-> "x"]}

\* Every request is well formed.
NoFaults == {{}}

\* No fault, any one fault, or one in each of two fields.
UpToTwoFaults ==
    NoFaults \cup {{f} : f \in FieldFaults}
        \cup {{[at |-> a, how |-> "missing"], [at |-> b, how |-> "invalid"]} :
                a, b \in {"l1_info_tree_leaf", "l1_leaf", "bridge_exit_hash",
                          "optimistic_mode_signature"}}
=============================================================================
