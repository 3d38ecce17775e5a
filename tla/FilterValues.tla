---------------------------- MODULE FilterValues ----------------------------
(***************************************************************************)
(* filter_values of the bridge constraints, one action per iteration of    *)
(* its two loops: first the removed values are counted in removal_map,     *)
(* then each value is skipped or kept.  The inputs are arbitrary slices:   *)
(* they are the witness lists, which the program has not yet checked when  *)
(* it reads them.  They are kept as the history variables removed and      *)
(* values.                                                                 *)
(***************************************************************************)
EXTENDS HashChains

CONSTANTS Keys, MaxRemoved, MaxValues

ASSUME MaxAssumption == MaxRemoved \in Nat /\ MaxValues \in Nat

VARIABLES
    filtering,    \* the first loop is over
    removal_map,  \* HashMap<K, usize>, absent keys count 0
    removed,      \* the removed values read so far
    values,       \* the values read so far
    result        \* the values kept so far

vars == <<filtering, removal_map, removed, values, result>>

Init ==
    /\ filtering = FALSE
    /\ removal_map = [k \in Keys |-> 0]
    /\ removed = <<>> /\ values = <<>> /\ result = <<>>

\* First loop: count one more removal of k.
CountRemoval(k) ==
    /\ ~filtering
    /\ Len(removed) < MaxRemoved
    /\ removed' = Append(removed, k)
    /\ removal_map' = [removal_map EXCEPT ![k] = @ + 1]
    /\ UNCHANGED <<filtering, values, result>>

StartFilter ==
    /\ ~filtering
    /\ filtering' = TRUE
    /\ UNCHANGED <<removal_map, removed, values, result>>

\* Mutant: every occurrence of a removed value is skipped.
FilterAll(k) ==
    /\ filtering
    /\ Len(values) < MaxValues
    /\ values' = Append(values, k)
    /\ IF removal_map[k] > 0
       THEN UNCHANGED <<removal_map, result>>
       ELSE UNCHANGED removal_map /\ result' = Append(result, k)
    /\ UNCHANGED <<filtering, removed>>

\* Mutant: the values are read from the end of the list.
FilterReversed(k) ==
    /\ filtering
    /\ Len(values) < MaxValues
    /\ values' = <<k>> \o values
    /\ IF removal_map[k] > 0
       THEN removal_map' = [removal_map EXCEPT ![k] = @ - 1] /\ UNCHANGED result
       ELSE UNCHANGED removal_map /\ result' = Append(result, k)
    /\ UNCHANGED <<filtering, removed>>

\* Mutant: the counter is decremented without looking at it.
FilterUnderflow(k) ==
    /\ filtering
    /\ Len(values) < MaxValues
    /\ values' = Append(values, k)
    /\ removal_map' = [removal_map EXCEPT ![k] = @ - 1]
    /\ IF removal_map[k] > 0 THEN UNCHANGED result ELSE result' = Append(result, k)
    /\ UNCHANGED <<filtering, removed>>

\* Second loop: a value whose counter is positive is skipped and uses up one
\* removal; any other value is kept.
FilterValue(k) ==
    /\ filtering
    /\ Len(values) < MaxValues
    /\ values' = Append(values, k)
    /\ IF removal_map[k] > 0
       THEN removal_map' = [removal_map EXCEPT ![k] = @ - 1] /\ UNCHANGED result
       ELSE UNCHANGED removal_map /\ result' = Append(result, k)
    /\ UNCHANGED <<filtering, removed>>

Next == StartFilter \/ \E k \in Keys : CountRemoval(k) \/ FilterValue(k)

Spec == Init /\ [][Next]_vars

-----------------------------------------------------------------------------
(* Properties *)

\* The type of every variable; the counters of removal_map never go below zero.
TypeOK ==
    /\ filtering \in BOOLEAN
    /\ removal_map \in [Keys -> Nat]
    /\ removed \in Seq(Keys) /\ values \in Seq(Keys) /\ result \in Seq(Keys)

\* "minus": however the two lists are ordered, each value survives exactly as
\* often as it was inserted beyond its removals, and a removal that has no
\* matching value takes nothing else away.
BagDifference ==
    \A k \in Keys : Count(result, k) = Monus(Count(values, k), Count(removed, k))

\* The occurrences that survive are the latest ones, in their original order: an
\* element is removed from the front of the list.
KeepsLatest ==
    LET kept == {i \in 1..Len(values) :
                    Count(SubSeq(values, 1, i), values[i]) > Count(removed, values[i])}
    IN  \E f \in [1..Len(result) -> kept] :
            /\ \A m, n \in 1..Len(result) : m < n => f[m] < f[n]
            /\ \A n \in 1..Len(result) : result[n] = values[f[n]]
            /\ Cardinality(kept) = Len(result)

\* The recursive form used by the bridge constraints computes the same list.
RecursiveFormAgrees == result = filter_values(removed, values, values)
=============================================================================
