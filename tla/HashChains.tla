----------------------------- MODULE HashChains -----------------------------
(***************************************************************************)
(* The pure part of the bridge constraints: hash chains and filter_values. *)
(* A hash chain is a keccak fold of the elements appended to it; keccak is *)
(* taken to be free of collisions, so a chain's value is represented by    *)
(* the sequence of elements that went into it.                             *)
(***************************************************************************)
EXTENDS Naturals, Sequences, FiniteSets

\* How often k occurs in the sequence s.
Count(s, k) == Cardinality({i \in 1..Len(s) : s[i] = k})

\* Natural subtraction that stops at zero.
Monus(m, n) == IF m > n THEN m - n ELSE 0

\* Mutant: the fold may stop short of new_hash_chain.
validate_hash_chain_prefix(hashes, prev_hash_chain, new_hash_chain) ==
    \E n \in 0..Len(new_hash_chain) :
        prev_hash_chain \o hashes = SubSeq(new_hash_chain, 1, n)

\* The fold of the hashes from prev_hash_chain has to give new_hash_chain.
validate_hash_chain(hashes, prev_hash_chain, new_hash_chain) ==
    prev_hash_chain \o hashes = new_hash_chain

\* The removal counters that filter_values builds first, for the keys in ks.
RemovalMap(removed, ks) == [k \in ks |-> Count(removed, k)]

\* Mutant: a value is skipped when its counter is zero.
FilterStepInverted(acc, k, v) ==
    IF acc.count[k] = 0
    THEN acc
    ELSE [acc EXCEPT !.out = Append(@, v)]

\* One value v of the filter, with key k: skipped while k's counter is positive.
FilterStep(acc, k, v) ==
    IF acc.count[k] > 0
    THEN [acc EXCEPT !.count[k] = @ - 1]
    ELSE [acc EXCEPT !.out = Append(@, v)]

\* filter_values(removed, values, key_fn), where keys[i] is key_fn(values[i]).
filter_values(removed, values, keys) ==
    LET acc[i \in 0..Len(values)] ==
            IF i = 0
            THEN [count |-> RemovalMap(removed, {keys[n] : n \in 1..Len(values)}), out |-> <<>>]
            ELSE FilterStep(acc[i - 1], keys[i], values[i])
    IN acc[Len(values)].out
=============================================================================
