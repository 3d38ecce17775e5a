------------------------- MODULE FilterValuesProofs -------------------------
(* Proofs about FilterValues, for any keys and lists of any length. *)
EXTENDS FilterValues, BridgeConstraintsProofs

-----------------------------------------------------------------------------
\* The strengthening that makes BagDifference inductive: the counter of a key is
\* what is left of its removals, and nothing is filtered before all removals are
\* counted.
FilterInv ==
    /\ TypeOK
    /\ ~filtering => values = <<>> /\ result = <<>>
    /\ \A k \in Keys :
          /\ removal_map[k] = Monus(Count(removed, k), Count(values, k))
          /\ Count(result, k) = Monus(Count(values, k), Count(removed, k))

LEMMA FilterInit == Init => FilterInv
<1> SUFFICES ASSUME Init PROVE FilterInv
    OBVIOUS
<1>1. filtering \in BOOLEAN
    BY DEF Init
<1>2. removal_map \in [Keys -> Nat]
    BY DEF Init
<1>3. values = <<>> /\ result = <<>> /\ removed = <<>>
    BY DEF Init
<1>4. \A k \in Keys : Count(removed, k) = 0 /\ Count(values, k) = 0 /\ Count(result, k) = 0
    BY <1>3, CountEmpty
<1> QED BY <1>1, <1>2, <1>3, <1>4 DEF Init, FilterInv, TypeOK, Monus

LEMMA FilterInvStep == FilterInv /\ [Next]_vars => FilterInv'
<1> SUFFICES ASSUME FilterInv, [Next]_vars PROVE FilterInv'
    OBVIOUS
<1> USE DEF FilterInv, TypeOK
<1>1. \A k \in Keys :
        /\ Count(removed, k) \in Nat /\ Count(values, k) \in Nat /\ Count(result, k) \in Nat
    BY CountFinite
<1>2. ASSUME NEW x \in Keys, CountRemoval(x) PROVE FilterInv'
    <2>1. TypeOK'
        BY <1>2 DEF CountRemoval
    <2>2. \A k \in Keys :
            Count(removed', k) = IF x = k THEN Count(removed, k) + 1 ELSE Count(removed, k)
        BY <1>2, CountAppend DEF CountRemoval
    <2>3. \A k \in Keys : Count(values, k) = 0
        BY <1>2, CountEmpty DEF CountRemoval
    <2>4. \A k \in Keys :
            removal_map'[k] = IF x = k THEN removal_map[k] + 1 ELSE removal_map[k]
        BY <1>2 DEF CountRemoval
    <2>5. /\ values' = values /\ result' = result
          /\ ~filtering /\ filtering' = filtering
        BY <1>2 DEF CountRemoval
    <2>6. \A k \in Keys :
            /\ removal_map'[k] = Monus(Count(removed', k), Count(values', k))
            /\ Count(result', k) = Monus(Count(values', k), Count(removed', k))
        BY <1>1, <2>2, <2>3, <2>4, <2>5 DEF Monus
    <2> QED BY <2>1, <2>5, <2>6
<1>3. CASE StartFilter
    BY <1>3 DEF StartFilter
<1>4. ASSUME NEW x \in Keys, FilterValue(x) PROVE FilterInv'
    <2>1. filtering /\ filtering' = filtering /\ removed' = removed
        BY <1>4 DEF FilterValue
    <2>2. values' \in Seq(Keys)
        BY <1>4 DEF FilterValue
    <2>3. \A k \in Keys :
            Count(values', k) = IF x = k THEN Count(values, k) + 1 ELSE Count(values, k)
        BY <1>4, CountAppend DEF FilterValue
    <2>4. CASE removal_map[x] > 0
        <3>1. /\ removal_map' = [removal_map EXCEPT ![x] = @ - 1]
              /\ result' = result
            BY <1>4, <2>4 DEF FilterValue
        <3>2. removal_map' \in [Keys -> Nat]
            BY <2>4, <3>1
        <3>3. \A k \in Keys :
                removal_map'[k] = IF x = k THEN removal_map[k] - 1 ELSE removal_map[k]
            BY <3>1
        <3>4. \A k \in Keys :
                /\ removal_map'[k] = Monus(Count(removed', k), Count(values', k))
                /\ Count(result', k) = Monus(Count(values', k), Count(removed', k))
            BY <1>1, <2>1, <2>3, <2>4, <3>1, <3>3 DEF Monus
        <3>5. TypeOK'
            BY <2>1, <2>2, <3>1, <3>2
        <3> QED BY <2>1, <3>4, <3>5
    <2>5. CASE ~(removal_map[x] > 0)
        <3>1. removal_map' = removal_map /\ result' = Append(result, x)
            BY <1>4, <2>5 DEF FilterValue
        <3>2. \A k \in Keys :
                Count(result', k) = IF x = k THEN Count(result, k) + 1 ELSE Count(result, k)
            BY <3>1, CountAppend
        <3>3. result' \in Seq(Keys)
            BY <3>1
        <3>4. \A k \in Keys :
                /\ removal_map'[k] = Monus(Count(removed', k), Count(values', k))
                /\ Count(result', k) = Monus(Count(values', k), Count(removed', k))
            BY <1>1, <2>1, <2>3, <2>5, <3>1, <3>2, SMTT(20) DEF Monus
        <3>5. TypeOK'
            BY <2>1, <2>2, <3>1, <3>3
        <3> QED BY <2>1, <3>4, <3>5
    <2> QED BY <2>4, <2>5
<1>5. CASE UNCHANGED vars
    BY <1>5 DEF vars
<1> QED BY <1>2, <1>3, <1>4, <1>5 DEF Next

LEMMA FilterInvariance == Spec => []FilterInv
<1>1. Init => FilterInv BY FilterInit
<1>2. FilterInv /\ [Next]_vars => FilterInv' BY FilterInvStep
<1> QED BY <1>1, <1>2, PTL DEF Spec

\* The loops of filter_values keep their variables in their types: a counter of
\* removal_map, a usize in the code, is never decremented at zero.
THEOREM FilterTypes == Spec => []TypeOK
<1>1. FilterInv => TypeOK BY DEF FilterInv
<1> QED BY <1>1, FilterInvariance, PTL

\* filter_values computes the difference of its lists as multisets.
THEOREM FilterIsBagDifference == Spec => []BagDifference
<1>1. FilterInv => BagDifference BY DEF FilterInv, BagDifference
<1> QED BY <1>1, FilterInvariance, PTL

-----------------------------------------------------------------------------
(* The recursive form *)

LEMMA AgreesStep ==
    FilterInv /\ RecursiveFormAgrees /\ [Next]_vars => RecursiveFormAgrees'
<1> SUFFICES ASSUME FilterInv, RecursiveFormAgrees, [Next]_vars PROVE RecursiveFormAgrees'
    OBVIOUS
<1>1. /\ removed \in Seq(Keys) /\ values \in Seq(Keys)
      /\ ~filtering => values = <<>> /\ result = <<>>
      /\ result = filter_values(removed, values, values)
    BY DEF FilterInv, TypeOK, RecursiveFormAgrees
<1>2. ASSUME NEW x \in Keys, CountRemoval(x) PROVE RecursiveFormAgrees'
    <2>1. removed' \in Seq(Keys) /\ values' = <<>> /\ result' = <<>>
        BY <1>1, <1>2 DEF CountRemoval
    <2>2. filter_values(removed', <<>>, <<>>) = <<>>
        BY <2>1, FilterEmpty
    <2> QED BY <2>1, <2>2 DEF RecursiveFormAgrees
<1>3. CASE StartFilter
    BY <1>1, <1>3 DEF StartFilter, RecursiveFormAgrees
<1>4. ASSUME NEW x \in Keys, FilterValue(x) PROVE RecursiveFormAgrees'
    <2>1. removed' = removed /\ values' = Append(values, x)
        BY <1>4 DEF FilterValue
    <2>2. result' = IF removal_map[x] > 0 THEN result ELSE Append(result, x)
        BY <1>4 DEF FilterValue
    <2>3. removal_map[x] = Monus(Count(removed, x), Count(values, x))
        BY DEF FilterInv
    <2>4. Count(removed, x) \in Nat /\ Count(values, x) \in Nat
        BY <1>1, CountFinite
    <2>5. removal_map[x] > 0 <=> Count(values, x) < Count(removed, x)
        BY <2>3, <2>4 DEF Monus
    <2>6. filter_values(removed, Append(values, x), Append(values, x)) =
            IF Count(values, x) < Count(removed, x)
            THEN filter_values(removed, values, values)
            ELSE Append(filter_values(removed, values, values), x)
        BY <1>1, FilterAppend
    <2> QED BY <1>1, <2>1, <2>2, <2>5, <2>6 DEF RecursiveFormAgrees
<1>5. CASE UNCHANGED vars
    BY <1>1, <1>5 DEF vars, RecursiveFormAgrees
<1> QED BY <1>2, <1>3, <1>4, <1>5 DEF Next

\* The recursive function that the bridge constraints use for filter_values computes
\* the list that the two loops build, for all lists.
THEOREM LoopsAgree == Spec => []RecursiveFormAgrees
<1>1. Init => RecursiveFormAgrees
    <2> SUFFICES ASSUME Init PROVE RecursiveFormAgrees
        OBVIOUS
    <2>1. removed = <<>> /\ values = <<>> /\ result = <<>> /\ <<>> \in Seq(Keys)
        BY DEF Init
    <2>2. filter_values(<<>>, <<>>, <<>>) = <<>>
        BY <2>1, FilterEmpty
    <2> QED BY <2>1, <2>2 DEF RecursiveFormAgrees
<1> QED BY <1>1, AgreesStep, FilterInvariance, PTL DEF Spec

-----------------------------------------------------------------------------
(* The surviving occurrences *)

LEMMA CountPrefix ==
    ASSUME NEW S, NEW s \in Seq(S), NEW i \in 1..Len(s), NEW k
    PROVE  Count(SubSeq(s, 1, i), k) = CountTo(s, i, k)
<1>1. Len(SubSeq(s, 1, i)) = i /\ \A j \in 1..i : SubSeq(s, 1, i)[j] = s[j]
    OBVIOUS
<1>2. {j \in 1..i : SubSeq(s, 1, i)[j] = k} = {j \in 1..i : s[j] = k}
    BY <1>1, Zenon
<1> QED BY <1>1, <1>2 DEF Count, CountTo

\* The positions of the values that survive.
Kept(vs, rs) == {i \in 1..Len(vs) : CountTo(vs, i, vs[i]) > Count(rs, vs[i])}

\* f lists the positions in the set kept of the values of the list rs, in order.
Lists(f, kept, vs, rs) ==
    /\ f \in [1..Len(rs) -> kept]
    /\ \A m, n \in 1..Len(rs) : m < n => f[m] < f[n]
    /\ \A n \in 1..Len(rs) : rs[n] = vs[f[n]]

\* KeepsLatest, with the occurrences counted from the front.
LatestInv ==
    /\ IsFiniteSet(Kept(values, removed)) /\ Cardinality(Kept(values, removed)) = Len(result)
    /\ \E f : Lists(f, Kept(values, removed), values, result)

LEMMA LatestGives == FilterInv /\ LatestInv => KeepsLatest
<1> SUFFICES ASSUME FilterInv, LatestInv PROVE KeepsLatest
    OBVIOUS
<1>1. values \in Seq(Keys)
    BY DEF FilterInv, TypeOK
<1> DEFINE kept == {i \in 1..Len(values) :
                      Count(SubSeq(values, 1, i), values[i]) > Count(removed, values[i])}
<1>2. kept = Kept(values, removed)
    <2>1. \A i \in 1..Len(values) :
            Count(SubSeq(values, 1, i), values[i]) = CountTo(values, i, values[i])
        BY <1>1, CountPrefix
    <2> QED BY <2>1 DEF Kept
<1>3. PICK f : Lists(f, Kept(values, removed), values, result)
    BY DEF LatestInv
<1> HIDE DEF kept
<1>4. /\ f \in [1..Len(result) -> kept]
      /\ \A m, n \in 1..Len(result) : m < n => f[m] < f[n]
      /\ \A n \in 1..Len(result) : result[n] = values[f[n]]
      /\ Cardinality(kept) = Len(result)
    BY <1>2, <1>3 DEF Lists, LatestInv
<1> QED BY <1>4 DEF KeepsLatest, kept

LEMMA LatestEmpty ==
    ASSUME NEW rs PROVE Kept(<<>>, rs) = {} /\ IsFiniteSet({}) /\ Cardinality({}) = 0
                        /\ \E f : Lists(f, {}, <<>>, <<>>)
<1>1. Kept(<<>>, rs) = {}
    BY DEF Kept
<1>2. [x \in {} |-> 0] \in [1..Len(<<>>) -> {}]
    OBVIOUS
<1>3. Lists([x \in {} |-> 0], {}, <<>>, <<>>)
    BY <1>2 DEF Lists
<1> QED BY <1>1, <1>3, FS_EmptySet

LEMMA LatestStep == FilterInv /\ LatestInv /\ [Next]_vars => LatestInv'
<1> SUFFICES ASSUME FilterInv, LatestInv, [Next]_vars PROVE LatestInv'
    OBVIOUS
<1>1. /\ removed \in Seq(Keys) /\ values \in Seq(Keys) /\ result \in Seq(Keys)
      /\ ~filtering => values = <<>> /\ result = <<>>
    BY DEF FilterInv, TypeOK
<1>2. ASSUME NEW x \in Keys, CountRemoval(x) PROVE LatestInv'
    <2>1. values' = <<>> /\ result' = <<>>
        BY <1>1, <1>2 DEF CountRemoval
    <2> QED BY <2>1, LatestEmpty DEF LatestInv
<1>3. CASE StartFilter
    BY <1>3 DEF StartFilter, LatestInv
<1>4. ASSUME NEW x \in Keys, FilterValue(x) PROVE LatestInv'
    <2> DEFINE L == Len(values)
               R == Len(result)
               old == Kept(values, removed)
               new == Kept(values', removed)
    <2>1. removed' = removed /\ values' = Append(values, x)
        BY <1>4 DEF FilterValue
    <2>2. result' = IF removal_map[x] > 0 THEN result ELSE Append(result, x)
        BY <1>4 DEF FilterValue
    <2>3. /\ Count(removed, x) \in Nat /\ Count(values, x) \in Nat
          /\ removal_map[x] = Monus(Count(removed, x), Count(values, x))
        BY <1>1, CountFinite DEF FilterInv
    <2>4. removal_map[x] > 0 <=> Count(values, x) + 1 <= Count(removed, x)
        BY <2>3 DEF Monus
    <2>5. /\ L \in Nat /\ Len(values') = L + 1 /\ values'[L + 1] = x
          /\ \A i \in 1..L : values'[i] = values[i]
        BY <1>1, <2>1
    <2>6. PICK f : Lists(f, old, values, result)
        BY DEF LatestInv
    <2>7. IsFiniteSet(old) /\ Cardinality(old) = R /\ R \in Nat
        BY <1>1 DEF LatestInv
    <2>8. \A i \in 1..L : \A k : CountTo(values', i, k) = CountTo(values, i, k)
        <3> SUFFICES ASSUME NEW i \in 1..L, NEW k
                     PROVE  CountTo(values', i, k) = CountTo(values, i, k)
            OBVIOUS
        <3>1. \A j \in 1..i : values'[j] = values[j]
            BY <2>5
        <3>2. {j \in 1..i : values'[j] = k} = {j \in 1..i : values[j] = k}
            BY <3>1, Zenon
        <3> QED BY <3>2 DEF CountTo
    <2>9. CountTo(values', L + 1, x) = Count(values, x) + 1
        <3>1. Count(values', x) = Count(values, x) + 1
            BY <1>1, <2>1, CountAppend
        <3> QED BY <2>5, <3>1 DEF Count, CountTo
    <2>10. old \subseteq 1..L /\ L + 1 \notin old
        BY <2>5 DEF Kept
    <2>11. CASE removal_map[x] > 0
        <3>1. new = old
            BY <2>3, <2>4, <2>5, <2>8, <2>9, <2>11 DEF Kept
        <3>2. result' = result
            BY <2>2, <2>11
        <3>3. Lists(f, new, values', result')
            <4> HIDE DEF old, new, L
            <4>1. \A n \in 1..Len(result) : f[n] \in 1..L
                BY <2>6, <2>10 DEF Lists
            <4> QED BY <2>5, <2>6, <3>1, <3>2, <4>1 DEF Lists
        <3> QED BY <2>1, <2>7, <3>1, <3>2, <3>3 DEF LatestInv
    <2>12. CASE ~(removal_map[x] > 0)
        <3>1. new = old \cup {L + 1}
            BY <2>3, <2>4, <2>5, <2>8, <2>9, <2>12 DEF Kept
        <3>2. /\ result' = Append(result, x) /\ Len(result') = R + 1 /\ result'[R + 1] = x
              /\ \A n \in 1..R : result'[n] = result[n]
            BY <1>1, <2>2, <2>12
        <3> HIDE DEF old, new, L, R
        <3>3. IsFiniteSet(new) /\ Cardinality(new) = R + 1
            BY <2>7, <2>10, <3>1, FS_AddElement
        <3> DEFINE g == [n \in 1..R + 1 |-> IF n = R + 1 THEN L + 1 ELSE f[n]]
        <3>4. /\ f \in [1..R -> old]
              /\ \A m, n \in 1..R : m < n => f[m] < f[n]
              /\ \A n \in 1..R : result[n] = values[f[n]] /\ f[n] \in 1..L
            BY <2>6, <2>10 DEF Lists, R
        <3>5. g[R + 1] = L + 1 /\ \A n \in 1..R : g[n] = f[n] /\ n # R + 1
            BY <2>7
        <3>6. g \in [1..R + 1 -> new]
            BY <2>7, <3>1, <3>4
        <3> HIDE DEF g
        <3>7. \A m, n \in 1..R + 1 : m < n => g[m] < g[n]
            <4> SUFFICES ASSUME NEW m \in 1..R + 1, NEW n \in 1..R + 1, m < n PROVE g[m] < g[n]
                OBVIOUS
            <4>1. m \in 1..R /\ g[m] = f[m] /\ f[m] \in 1..L
                BY <2>7, <3>4, <3>5
            <4>2. CASE n = R + 1
                BY <2>5, <3>5, <4>1, <4>2
            <4>3. CASE n \in 1..R
                BY <3>4, <3>5, <4>1, <4>3
            <4> QED BY <2>7, <4>2, <4>3
        <3>8. \A n \in 1..R + 1 : result'[n] = values'[g[n]]
            <4> SUFFICES ASSUME NEW n \in 1..R + 1 PROVE result'[n] = values'[g[n]]
                OBVIOUS
            <4>1. CASE n = R + 1
                BY <2>5, <3>2, <3>5, <4>1
            <4>2. CASE n \in 1..R
                BY <2>5, <3>2, <3>4, <3>5, <4>2
            <4> QED BY <2>7, <4>1, <4>2
        <3>9. Lists(g, new, values', result')
            BY <3>2, <3>6, <3>7, <3>8 DEF Lists
        <3> QED BY <2>1, <3>2, <3>3, <3>9 DEF LatestInv, new
    <2> QED BY <2>11, <2>12
<1>5. CASE UNCHANGED vars
    BY <1>5 DEF vars, LatestInv
<1> QED BY <1>2, <1>3, <1>4, <1>5 DEF Next

\* filter_values removes from the front: what it keeps are the latest occurrences
\* of each value, all of them and in their order, for all lists.
THEOREM FilterKeepsLatest == Spec => []KeepsLatest
<1>1. Init => LatestInv
    <2> SUFFICES ASSUME Init PROVE LatestInv
        OBVIOUS
    <2>1. values = <<>> /\ result = <<>>
        BY DEF Init
    <2> QED BY <2>1, LatestEmpty DEF LatestInv
<1> QED BY <1>1, LatestStep, LatestGives, FilterInvariance, PTL DEF Spec
=============================================================================
