----------------------- MODULE BridgeConstraintsProofs -----------------------
(***************************************************************************)
(* Lemmas about the operators of BridgeConstraints, for lists of any       *)
(* length: counting, filter_values, the hash chains of the L2 contracts    *)
(* and what is in force at a block.                                        *)
(*                                                                         *)
(* What a recursive definition computes is proved by induction on the      *)
(* length of a list, from the well-foundedness of < on Nat.                *)
(***************************************************************************)
EXTENDS BridgeConstraints, FiniteSetTheorems, WellFoundedInduction, TLAPS

-----------------------------------------------------------------------------
(* Induction *)

\* A set of natural numbers that is not empty has a least element.
LEMMA NatLeast ==
    ASSUME NEW T, T \subseteq Nat, T # {}
    PROVE  \E x \in T : \A y \in T : x <= y
<1> DEFINE R == OpToRel(<, Nat)
<1>1. IsWellFoundedOn(R, Nat)
    BY NatLessThanWellFounded
<1>2. \A x, y \in Nat : ~(<<y, x>> \in R) => x <= y
    BY DEF OpToRel
<1> HIDE DEF R
<1>3. PICK x \in T : \A y \in T : ~(<<y, x>> \in R)
    BY <1>1, WFMin
<1> QED BY <1>2, <1>3

\* Induction, for a set instead of a predicate.
LEMMA NatInduct ==
    ASSUME NEW S, 0 \in S, \A n \in Nat : n \in S => n + 1 \in S
    PROVE  Nat \subseteq S
<1> SUFFICES ASSUME Nat \ S # {} PROVE FALSE
    OBVIOUS
<1>1. PICK x \in Nat \ S : \A y \in Nat \ S : x <= y
    BY NatLeast
<1>2. x # 0 /\ x - 1 \in Nat
    BY <1>1
<1>3. x - 1 \in S
    BY <1>1, <1>2
<1> QED BY <1>1, <1>2, <1>3

\* A list that is not empty is its front and its last element.
LEMMA FrontLast ==
    ASSUME NEW S, NEW s \in Seq(S), NEW n \in Nat, Len(s) = n + 1
    PROVE  /\ SubSeq(s, 1, n) \in Seq(S) /\ Len(SubSeq(s, 1, n)) = n
           /\ s[n + 1] \in S
           /\ s = Append(SubSeq(s, 1, n), s[n + 1])
<1>1. /\ SubSeq(s, 1, n) \in Seq(S) /\ Len(SubSeq(s, 1, n)) = n /\ s[n + 1] \in S
      /\ \A i \in 1..n : SubSeq(s, 1, n)[i] = s[i]
    OBVIOUS
<1> QED BY <1>1

\* Induction on the length of a list.
LEMMA SeqInduct ==
    ASSUME NEW S, NEW T, <<>> \in T,
           \A s \in Seq(S), x \in S : s \in T => Append(s, x) \in T
    PROVE  Seq(S) \subseteq T
<1> DEFINE N == {n \in Nat : \A s \in Seq(S) : Len(s) = n => s \in T}
<1>1. 0 \in N
    OBVIOUS
<1>2. ASSUME NEW n \in Nat, n \in N PROVE n + 1 \in N
    <2> SUFFICES ASSUME NEW s \in Seq(S), Len(s) = n + 1 PROVE s \in T
        OBVIOUS
    <2>1. /\ SubSeq(s, 1, n) \in Seq(S) /\ Len(SubSeq(s, 1, n)) = n
          /\ s[n + 1] \in S
          /\ s = Append(SubSeq(s, 1, n), s[n + 1])
        BY FrontLast
    <2>2. SubSeq(s, 1, n) \in T
        BY <1>2, <2>1
    <2> HIDE DEF N
    <2> QED BY <2>1, <2>2
<1> HIDE DEF N
<1>3. Nat \subseteq N
    BY <1>1, <1>2, NatInduct
<1> QED BY <1>3 DEF N

-----------------------------------------------------------------------------
(* Counting *)

LEMMA CountFinite ==
    ASSUME NEW S, NEW s \in Seq(S), NEW k
    PROVE  IsFiniteSet({i \in 1..Len(s) : s[i] = k}) /\ Count(s, k) \in Nat
<1>1. Len(s) \in Nat
    OBVIOUS
<1>2. IsFiniteSet(1..Len(s))
    BY <1>1, FS_Interval
<1>3. {i \in 1..Len(s) : s[i] = k} \in SUBSET (1..Len(s))
    OBVIOUS
<1>4. IsFiniteSet({i \in 1..Len(s) : s[i] = k})
    BY <1>2, <1>3, FS_Subset
<1> QED BY <1>4, FS_CardinalityType DEF Count

LEMMA CountEmpty == ASSUME NEW k PROVE Count(<<>>, k) = 0
<1>1. {i \in 1..Len(<<>>) : <<>>[i] = k} = {}
    OBVIOUS
<1> QED BY <1>1, FS_EmptySet DEF Count

LEMMA CountAppend ==
    ASSUME NEW S, NEW s \in Seq(S), NEW x \in S, NEW k
    PROVE  Count(Append(s, x), k) = IF x = k THEN Count(s, k) + 1 ELSE Count(s, k)
<1> DEFINE old == {i \in 1..Len(s) : s[i] = k}
           new == {i \in 1..Len(Append(s, x)) : Append(s, x)[i] = k}
<1>1. Len(s) \in Nat /\ Len(Append(s, x)) = Len(s) + 1
    OBVIOUS
<1>2. IsFiniteSet(old)
    BY CountFinite
<1>3. Len(s) + 1 \notin old
    BY <1>1
<1>4. CASE x = k
    <2>1. new = old \cup {Len(s) + 1}
        BY <1>1, <1>4
    <2> HIDE DEF old, new
    <2>2. Cardinality(new) = Cardinality(old) + 1
        BY <1>2, <1>3, <2>1, FS_AddElement
    <2> QED BY <1>4, <2>2 DEF Count, old, new
<1>5. CASE x # k
    <2>1. new = old
        BY <1>1, <1>5
    <2> QED BY <1>5, <2>1 DEF Count
<1> QED BY <1>4, <1>5

LEMMA CountConcat ==
    ASSUME NEW S, NEW s \in Seq(S), NEW t \in Seq(S), NEW k
    PROVE  Count(s \o t, k) = Count(s, k) + Count(t, k)
<1> DEFINE T == {u \in Seq(S) : Count(s \o u, k) = Count(s, k) + Count(u, k)}
<1>1. <<>> \in T
    <2>1. s \o <<>> = s /\ <<>> \in Seq(S)
        OBVIOUS
    <2>2. Count(<<>>, k) = 0 /\ Count(s, k) \in Nat
        BY CountEmpty, CountFinite
    <2> QED BY <2>1, <2>2
<1>2. ASSUME NEW u \in Seq(S), NEW x \in S, u \in T PROVE Append(u, x) \in T
    <2>1. s \o Append(u, x) = Append(s \o u, x) /\ (s \o u) \in Seq(S) /\ Append(u, x) \in Seq(S)
        OBVIOUS
    <2>2. Count(Append(s \o u, x), k) =
            IF x = k THEN Count(s \o u, k) + 1 ELSE Count(s \o u, k)
        <3> DEFINE w == s \o u
        <3>1. w \in Seq(S)
            OBVIOUS
        <3> HIDE DEF w
        <3>2. Count(Append(w, x), k) = IF x = k THEN Count(w, k) + 1 ELSE Count(w, k)
            BY <3>1, CountAppend
        <3> QED BY <3>2 DEF w
    <2>3. Count(Append(u, x), k) = IF x = k THEN Count(u, k) + 1 ELSE Count(u, k)
        BY CountAppend
    <2>4. Count(s, k) \in Nat /\ Count(u, k) \in Nat /\ Count(s \o u, k) = Count(s, k) + Count(u, k)
        BY <1>2, CountFinite
    <2>5. Count(s \o Append(u, x), k) = Count(s, k) + Count(Append(u, x), k)
        BY <2>1, <2>2, <2>3, <2>4
    <2> QED BY <2>1, <2>5
<1> HIDE DEF T
<1>3. Seq(S) \subseteq T
    BY <1>1, <1>2, SeqInduct
<1> QED BY <1>3 DEF T

-----------------------------------------------------------------------------
(* filter_values *)

\* The recursion of filter_values, as an equation.
FilterEq(acc, removed, values, keys) ==
    acc = [i \in 0..Len(values) |->
            IF i = 0
            THEN [count |-> RemovalMap(removed, {keys[n] : n \in 1..Len(values)}), out |-> <<>>]
            ELSE FilterStep(acc[i - 1], keys[i], values[i])]

LEMMA FilterUnfold ==
    ASSUME NEW removed, NEW values, NEW keys, Len(values) \in Nat
    PROVE  \E acc :
              /\ FilterEq(acc, removed, values, keys)
              /\ filter_values(removed, values, keys) = acc[Len(values)].out
<1> DEFINE first == [count |-> RemovalMap(removed, {keys[n] : n \in 1..Len(values)}),
                     out |-> <<>>]
           Eq(g, m) == g = [i \in 0..m |-> IF i = 0 THEN first
                                           ELSE FilterStep(g[i - 1], keys[i], values[i])]
           N == {m \in Nat : \E g : Eq(g, m)}
<1> HIDE DEF first
<1>1. 0 \in N
    <2>1. Eq([i \in 0..0 |-> first], 0)
        OBVIOUS
    <2> QED BY <2>1
<1>2. ASSUME NEW n \in Nat, n \in N PROVE n + 1 \in N
    <2>1. PICK g : Eq(g, n)
        BY <1>2
    <2> DEFINE h == [i \in 0..n + 1 |->
                        IF i = n + 1 THEN FilterStep(g[n], keys[i], values[i]) ELSE g[i]]
    <2>2. Eq(h, n + 1)
        BY <2>1
    <2> HIDE DEF h, Eq
    <2> QED BY <2>2
<1>3. \E g : Eq(g, Len(values))
    <2> HIDE DEF N
    <2>1. Nat \subseteq N
        BY <1>1, <1>2, NatInduct
    <2> QED BY <2>1 DEF N
<1>4. filter_values(removed, values, keys) = (CHOOSE g : Eq(g, Len(values)))[Len(values)].out
    BY DEF filter_values, first
<1> HIDE DEF Eq
<1> DEFINE acc == CHOOSE g : Eq(g, Len(values))
<1>5. Eq(acc, Len(values))
    BY <1>3, Zenon
<1> HIDE DEF acc
<1>6. filter_values(removed, values, keys) = acc[Len(values)].out
    BY <1>4 DEF acc
<1> QED BY <1>5, <1>6 DEF Eq, first, FilterEq

\* How often k is among the first i elements of s.
CountTo(s, i, k) == Cardinality({j \in 1..i : s[j] = k})

LEMMA CountToStep ==
    ASSUME NEW s, NEW i \in Nat, NEW k
    PROVE  /\ CountTo(s, 0, k) = 0 /\ CountTo(s, i, k) \in Nat
           /\ s[i + 1] = k => CountTo(s, i + 1, k) = CountTo(s, i, k) + 1
           /\ s[i + 1] # k => CountTo(s, i + 1, k) = CountTo(s, i, k)
<1> DEFINE Up(n) == {j \in 1..n : s[j] = k}
<1>1. \A n \in Nat : IsFiniteSet(Up(n)) /\ Cardinality(Up(n)) \in Nat
    <2> SUFFICES ASSUME NEW n \in Nat PROVE IsFiniteSet(Up(n)) /\ Cardinality(Up(n)) \in Nat
        OBVIOUS
    <2>1. IsFiniteSet(1..n)
        BY FS_Interval
    <2>2. Up(n) \in SUBSET (1..n)
        OBVIOUS
    <2> HIDE DEF Up
    <2>3. IsFiniteSet(Up(n))
        BY <2>1, <2>2, FS_Subset
    <2> QED BY <2>3, FS_CardinalityType
<1>2. Up(0) = {}
    OBVIOUS
<1>3. i + 1 \notin Up(i)
    OBVIOUS
<1>4. CASE s[i + 1] = k
    <2>1. Up(i + 1) = Up(i) \cup {i + 1}
        BY <1>4
    <2> HIDE DEF Up
    <2>2. Cardinality(Up(i + 1)) = Cardinality(Up(i)) + 1
        BY <1>1, <1>3, <2>1, FS_AddElement
    <2> QED BY <1>1, <1>2, <1>4, <2>2, FS_EmptySet DEF CountTo, Up
<1>5. CASE s[i + 1] # k
    <2>1. Up(i + 1) = Up(i)
        BY <1>5
    <2> HIDE DEF Up
    <2> QED BY <1>1, <1>2, <1>5, <2>1, FS_EmptySet DEF CountTo, Up
<1> QED BY <1>4, <1>5

\* The lists that filter_values has built after each iteration.
OutEq(out, removed, values, keys) ==
    /\ out[0] = <<>>
    /\ \A i \in 1..Len(values) :
          out[i] = IF CountTo(keys, i - 1, keys[i]) < Count(removed, keys[i])
                   THEN out[i - 1] ELSE Append(out[i - 1], values[i])
    /\ filter_values(removed, values, keys) = out[Len(values)]

\* The counters of filter_values are what is left of the removals, so the list it
\* builds needs none: a value is skipped as long as there are fewer values with its
\* key before it than removals of that key.
LEMMA FilterOut ==
    ASSUME NEW R, NEW removed \in Seq(R), NEW V, NEW values \in Seq(V),
           NEW K, NEW keys \in Seq(K), Len(keys) = Len(values)
    PROVE  \E out \in [0..Len(values) -> Seq(V)] : OutEq(out, removed, values, keys)
<1> DEFINE L == Len(values)
           ks == {keys[n] : n \in 1..L}
<1>1. L \in Nat /\ \A i \in 1..L : keys[i] \in ks /\ values[i] \in V
    OBVIOUS
<1>2. PICK acc : FilterEq(acc, removed, values, keys)
                 /\ filter_values(removed, values, keys) = acc[L].out
    <2>1. Len(values) \in Nat
        BY <1>1
    <2>2. \E a : /\ FilterEq(a, removed, values, keys)
                 /\ filter_values(removed, values, keys) = a[Len(values)].out
        BY ONLY <2>1, FilterUnfold
    <2> QED BY <2>2, Zenon
<1> DEFINE E == [i \in 0..L |-> IF i = 0 THEN [count |-> RemovalMap(removed, ks), out |-> <<>>]
                                ELSE FilterStep(acc[i - 1], keys[i], values[i])]
<1>2a. acc = E
    BY <1>2, Zenon DEF FilterEq
<1> HIDE DEF L, ks
<1>2b. /\ E[0] = [count |-> RemovalMap(removed, ks), out |-> <<>>]
       /\ \A i \in 1..L : E[i] = FilterStep(acc[i - 1], keys[i], values[i])
    BY <1>1
<1> HIDE DEF E
<1>3. /\ acc[0] = [count |-> RemovalMap(removed, ks), out |-> <<>>]
      /\ \A i \in 1..L : acc[i] = FilterStep(acc[i - 1], keys[i], values[i])
    BY <1>2a, <1>2b
<1> DEFINE Good(i) ==
        /\ acc[i] \in [count : [ks -> Nat], out : Seq(V)]
        /\ \A k \in ks : acc[i].count[k] = Monus(Count(removed, k), CountTo(keys, i, k))
<1>4. \A k : Count(removed, k) \in Nat
    BY CountFinite
<1>5. Good(0)
    <2>1. acc[0].out = <<>> /\ acc[0].count = [k \in ks |-> Count(removed, k)]
        BY <1>3 DEF RemovalMap
    <2>2. acc[0] \in [count : [ks -> Nat], out : Seq(V)]
        BY <1>3, <1>4 DEF RemovalMap
    <2>3. \A k \in ks : CountTo(keys, 0, k) = 0
        BY CountToStep
    <2> QED BY <1>4, <2>1, <2>2, <2>3 DEF Monus
<1>6. ASSUME NEW i \in 1..L, Good(i - 1)
      PROVE  /\ Good(i)
             /\ acc[i].out = IF CountTo(keys, i - 1, keys[i]) < Count(removed, keys[i])
                             THEN acc[i - 1].out
                             ELSE Append(acc[i - 1].out, values[i])
    <2> DEFINE a == acc[i - 1]
               key == keys[i]
    <2>1. i - 1 \in Nat /\ key \in ks /\ values[i] \in V
        BY <1>1
    <2>2. a \in [count : [ks -> Nat], out : Seq(V)]
          /\ \A k \in ks : a.count[k] = Monus(Count(removed, k), CountTo(keys, i - 1, k))
        BY <1>6
    <2>3. acc[i] = FilterStep(a, key, values[i])
        BY <1>3
    <2>4. \A k : /\ CountTo(keys, i - 1, k) \in Nat
                 /\ CountTo(keys, i, k) = CountTo(keys, i - 1, k) + (IF key = k THEN 1 ELSE 0)
        <3> SUFFICES ASSUME NEW k
                     PROVE  /\ CountTo(keys, i - 1, k) \in Nat
                            /\ CountTo(keys, i, k) = CountTo(keys, i - 1, k)
                                    + (IF key = k THEN 1 ELSE 0)
            OBVIOUS
        <3> DEFINE j == i - 1
        <3>1. j \in Nat /\ i = j + 1
            BY <1>1
        <3> HIDE DEF j
        <3>2. /\ CountTo(keys, j, k) \in Nat
              /\ keys[j + 1] = k => CountTo(keys, j + 1, k) = CountTo(keys, j, k) + 1
              /\ keys[j + 1] # k => CountTo(keys, j + 1, k) = CountTo(keys, j, k)
            BY <3>1, CountToStep
        <3> QED BY <3>1, <3>2 DEF j
    <2> HIDE DEF a, key, Good
    <2>5. CASE CountTo(keys, i - 1, key) < Count(removed, key)
        <3>1. a.count[key] > 0
            BY <1>4, <2>1, <2>2, <2>4, <2>5 DEF Monus
        <3>2. acc[i] = [a EXCEPT !.count[key] = a.count[key] - 1]
            BY <2>3, <3>1 DEF FilterStep
        <3>3. a.count[key] - 1 \in Nat
            BY <2>1, <2>2, <3>1
        <3>4. /\ acc[i] \in [count : [ks -> Nat], out : Seq(V)] /\ acc[i].out = a.out
              /\ acc[i].count = [a.count EXCEPT ![key] = a.count[key] - 1]
            BY <2>1, <2>2, <3>2, <3>3
        <3>5. \A k \in ks : acc[i].count[k] = IF k = key THEN a.count[key] - 1 ELSE a.count[k]
            BY <2>1, <2>2, <3>4
        <3>6. \A k \in ks : acc[i].count[k] = Monus(Count(removed, k), CountTo(keys, i, k))
            <4> SUFFICES ASSUME NEW k \in ks
                         PROVE  acc[i].count[k] = Monus(Count(removed, k), CountTo(keys, i, k))
                OBVIOUS
            <4>1. /\ acc[i].count[k] = (IF k = key THEN a.count[key] - 1 ELSE a.count[k])
                  /\ a.count[k] = Monus(Count(removed, k), CountTo(keys, i - 1, k))
                BY <2>2, <3>5
            <4>2. /\ Count(removed, k) \in Nat /\ CountTo(keys, i - 1, k) \in Nat
                  /\ CountTo(keys, i, k) = CountTo(keys, i - 1, k) + (IF key = k THEN 1 ELSE 0)
                BY <1>4, <2>4
            <4> QED BY <2>5, <4>1, <4>2 DEF Monus
        <3> QED BY <2>5, <3>4, <3>6 DEF Good, a, key
    <2>6. CASE ~(CountTo(keys, i - 1, key) < Count(removed, key))
        <3>1. ~(a.count[key] > 0)
            BY <1>4, <2>1, <2>2, <2>4, <2>6 DEF Monus
        <3>2. acc[i] = [a EXCEPT !.out = Append(a.out, values[i])]
            BY <2>3, <3>1 DEF FilterStep
        <3>3. /\ acc[i] \in [count : [ks -> Nat], out : Seq(V)]
              /\ acc[i].out = Append(a.out, values[i]) /\ acc[i].count = a.count
            <4>1. a.out \in Seq(V) /\ a.count \in [ks -> Nat]
                BY <2>2
            <4>2. Append(a.out, values[i]) \in Seq(V)
                BY <2>1, <4>1
            <4> DEFINE o == Append(a.out, values[i])
            <4> HIDE DEF o
            <4>3. acc[i] = [a EXCEPT !.out = o]
                BY <3>2 DEF o
            <4>4. acc[i] \in [count : [ks -> Nat], out : Seq(V)] /\ acc[i].out = o
                  /\ acc[i].count = a.count
                BY <2>2, <4>2, <4>3 DEF o
            <4> QED BY <4>4 DEF o
        <3>4. \A k \in ks : acc[i].count[k] = Monus(Count(removed, k), CountTo(keys, i, k))
            <4> SUFFICES ASSUME NEW k \in ks
                         PROVE  acc[i].count[k] = Monus(Count(removed, k), CountTo(keys, i, k))
                OBVIOUS
            <4>1. acc[i].count[k] = Monus(Count(removed, k), CountTo(keys, i - 1, k))
                BY <2>2, <3>3
            <4>2. /\ Count(removed, k) \in Nat /\ CountTo(keys, i - 1, k) \in Nat
                  /\ CountTo(keys, i, k) = CountTo(keys, i - 1, k) + (IF key = k THEN 1 ELSE 0)
                BY <1>4, <2>4
            <4> QED BY <2>6, <4>1, <4>2 DEF Monus
        <3> QED BY <2>6, <3>3, <3>4 DEF Good, a, key
    <2> QED BY <2>5, <2>6
<1>7. \A i \in 0..L : Good(i)
    <2> DEFINE N == {i \in Nat : i <= L => Good(i)}
    <2>1. 0 \in N
        BY <1>5
    <2>2. ASSUME NEW n \in Nat, n \in N PROVE n + 1 \in N
        <3> SUFFICES ASSUME n + 1 <= L PROVE Good(n + 1)
            OBVIOUS
        <3>1. n + 1 \in 1..L /\ (n + 1) - 1 = n /\ Good(n)
            BY <1>1, <2>2
        <3> HIDE DEF Good
        <3> QED BY <1>6, <3>1
    <2> HIDE DEF N
    <2>3. Nat \subseteq N
        BY <2>1, <2>2, NatInduct
    <2> QED BY <1>1, <2>3 DEF N
<1> DEFINE out == [i \in 0..L |-> acc[i].out]
<1>8. out \in [0..L -> Seq(V)]
    BY <1>7
<1>9. out[0] = <<>>
    BY <1>1, <1>3
<1>10. \A i \in 1..L :
          out[i] = IF CountTo(keys, i - 1, keys[i]) < Count(removed, keys[i])
                   THEN out[i - 1] ELSE Append(out[i - 1], values[i])
    <2> SUFFICES ASSUME NEW i \in 1..L
                 PROVE  out[i] = IF CountTo(keys, i - 1, keys[i]) < Count(removed, keys[i])
                                 THEN out[i - 1] ELSE Append(out[i - 1], values[i])
        OBVIOUS
    <2>1. i \in 0..L /\ i - 1 \in 0..L
        BY <1>1
    <2>2. Good(i - 1)
        BY <1>7, <2>1
    <2> HIDE DEF Good
    <2> QED BY <1>6, <2>1, <2>2
<1>11. filter_values(removed, values, keys) = out[L]
    BY <1>1, <1>2
<1> HIDE DEF out
<1> QED BY <1>8, <1>9, <1>10, <1>11 DEF L, OutEq

LEMMA FilterEmpty ==
    ASSUME NEW R, NEW removed \in Seq(R)
    PROVE  filter_values(removed, <<>>, <<>>) = <<>>
<1>1. <<>> \in Seq(R) /\ Len(<<>>) = 0
    OBVIOUS
<1>2. PICK out \in [0..Len(<<>>) -> Seq(R)] : OutEq(out, removed, <<>>, <<>>)
    BY <1>1, FilterOut
<1> QED BY <1>1, <1>2 DEF OutEq

\* One value more: the last iteration of filter_values.
LEMMA FilterAppend ==
    ASSUME NEW R, NEW removed \in Seq(R), NEW V, NEW values \in Seq(V), NEW v \in V,
           NEW K, NEW keys \in Seq(K), NEW k \in K, Len(keys) = Len(values)
    PROVE  filter_values(removed, Append(values, v), Append(keys, k)) =
               IF Count(keys, k) < Count(removed, k)
               THEN filter_values(removed, values, keys)
               ELSE Append(filter_values(removed, values, keys), v)
<1> DEFINE L == Len(values)
           vs == Append(values, v)
           ks == Append(keys, k)
<1>1. /\ L \in Nat /\ vs \in Seq(V) /\ ks \in Seq(K) /\ Len(vs) = L + 1 /\ Len(ks) = L + 1
      /\ \A i \in 1..L : vs[i] = values[i] /\ ks[i] = keys[i]
      /\ vs[L + 1] = v /\ ks[L + 1] = k
    OBVIOUS
<1> HIDE DEF vs, ks
<1>2a. PICK out \in [0..Len(values) -> Seq(V)] : OutEq(out, removed, values, keys)
    BY FilterOut
<1>2. /\ out \in [0..L -> Seq(V)] /\ out[0] = <<>>
      /\ \A i \in 1..L :
            out[i] = IF CountTo(keys, i - 1, keys[i]) < Count(removed, keys[i])
                     THEN out[i - 1] ELSE Append(out[i - 1], values[i])
      /\ filter_values(removed, values, keys) = out[L]
    BY <1>2a DEF OutEq
<1>3a. PICK new \in [0..Len(vs) -> Seq(V)] : OutEq(new, removed, vs, ks)
    BY <1>1, FilterOut
<1>3. /\ new[0] = <<>>
      /\ \A i \in 1..Len(vs) :
            new[i] = IF CountTo(ks, i - 1, ks[i]) < Count(removed, ks[i])
                     THEN new[i - 1] ELSE Append(new[i - 1], vs[i])
      /\ filter_values(removed, vs, ks) = new[Len(vs)]
    BY <1>3a DEF OutEq
<1>4. \A i \in 0..L : \A x : CountTo(ks, i, x) = CountTo(keys, i, x)
    <2> SUFFICES ASSUME NEW i \in 0..L, NEW x PROVE CountTo(ks, i, x) = CountTo(keys, i, x)
        OBVIOUS
    <2>1. \A j \in 1..i : ks[j] = keys[j]
        BY <1>1
    <2>2. {j \in 1..i : ks[j] = x} = {j \in 1..i : keys[j] = x}
        BY <2>1, Zenon
    <2> QED BY <2>2 DEF CountTo
<1>5. CountTo(keys, L, k) = Count(keys, k)
    BY DEF CountTo, Count
<1> HIDE DEF L
<1>6. \A i \in 0..L : new[i] = out[i]
    <2> DEFINE N == {i \in Nat : i <= L => new[i] = out[i]}
    <2>1. 0 \in N
        BY <1>2, <1>3
    <2>2. ASSUME NEW n \in Nat, n \in N PROVE n + 1 \in N
        <3> SUFFICES ASSUME n + 1 <= L PROVE new[n + 1] = out[n + 1]
            OBVIOUS
        <3>0. n + 1 \in 1..L /\ n + 1 \in 1..Len(vs) /\ n \in 0..L /\ (n + 1) - 1 = n
            BY <1>1
        <3>1. /\ n + 1 \in 1..L /\ n + 1 \in 1..Len(vs) /\ n \in 0..L /\ (n + 1) - 1 = n
              /\ new[n] = out[n] /\ ks[n + 1] = keys[n + 1] /\ vs[n + 1] = values[n + 1]
            BY <1>1, <2>2, <3>0
        <3>2. new[n + 1] = IF CountTo(ks, n, ks[n + 1]) < Count(removed, ks[n + 1])
                           THEN new[n] ELSE Append(new[n], vs[n + 1])
            BY <1>3, <3>1
        <3>3. out[n + 1] = IF CountTo(keys, n, keys[n + 1]) < Count(removed, keys[n + 1])
                           THEN out[n] ELSE Append(out[n], values[n + 1])
            BY <1>2, <3>1
        <3>4. CountTo(ks, n, ks[n + 1]) = CountTo(keys, n, keys[n + 1])
            BY <1>4, <3>1
        <3> QED BY <3>1, <3>2, <3>3, <3>4
    <2> HIDE DEF N
    <2>3. Nat \subseteq N
        BY <2>1, <2>2, NatInduct
    <2> QED BY <1>1, <2>3 DEF N
<1>7. L + 1 \in 1..Len(vs) /\ (L + 1) - 1 = L /\ L \in 0..L
    BY <1>1
<1>8. new[L + 1] = IF CountTo(ks, L, k) < Count(removed, k) THEN new[L] ELSE Append(new[L], v)
    BY <1>1, <1>3, <1>7
<1>9. CountTo(ks, L, k) = Count(keys, k) /\ new[L] = filter_values(removed, values, keys)
    BY <1>2, <1>4, <1>5, <1>6, <1>7
<1>10. filter_values(removed, vs, ks) = new[L + 1]
    BY <1>1, <1>3
<1> QED BY <1>8, <1>9, <1>10 DEF vs, ks

\* What filter_values keeps: values whose key occurs more often than it is removed,
\* and one at least for every such key.
KeepsSurplus(out, removed, values, keys) ==
    /\ \A m \in 1..Len(out) : \E j \in 1..Len(values) :
          out[m] = values[j] /\ Count(keys, keys[j]) > Count(removed, keys[j])
    /\ \A k : Count(keys, k) > Count(removed, k) =>
          \E m \in 1..Len(out), j \in 1..Len(values) : keys[j] = k /\ out[m] = values[j]

LEMMA FilterMembers ==
    ASSUME NEW R, NEW removed \in Seq(R), NEW V, NEW values \in Seq(V),
           NEW K, NEW keys \in Seq(K), Len(keys) = Len(values)
    PROVE  /\ filter_values(removed, values, keys) \in Seq(V)
           /\ KeepsSurplus(filter_values(removed, values, keys), removed, values, keys)
<1> DEFINE L == Len(values)
<1>1. L \in Nat /\ \A i \in 1..L : values[i] \in V
    OBVIOUS
<1>2a. PICK out \in [0..Len(values) -> Seq(V)] : OutEq(out, removed, values, keys)
    BY FilterOut
<1>2. /\ out \in [0..L -> Seq(V)] /\ out[0] = <<>>
      /\ \A i \in 1..L :
            out[i] = IF CountTo(keys, i - 1, keys[i]) < Count(removed, keys[i])
                     THEN out[i - 1] ELSE Append(out[i - 1], values[i])
      /\ filter_values(removed, values, keys) = out[L]
    BY <1>2a DEF OutEq
<1>3. \A k : CountTo(keys, L, k) = Count(keys, k)
    BY DEF CountTo, Count
<1>4. \A k : Count(removed, k) \in Nat
    BY CountFinite
<1>4a. out \in [0..L -> Seq(V)]
    BY <1>2a
<1> HIDE DEF L
<1> DEFINE Only(i) == \A m \in 1..Len(out[i]) : \E j \in 1..i :
                out[i][m] = values[j] /\ CountTo(keys, i, keys[j]) > Count(removed, keys[j])
           Every(i) == \A k : CountTo(keys, i, k) > Count(removed, k) =>
                \E m \in 1..Len(out[i]), j \in 1..i : keys[j] = k /\ out[i][m] = values[j]
           N == {i \in Nat : i <= L => Only(i) /\ Every(i)}
<1>5. 0 \in N
    <2>1. Len(out[0]) = 0
        BY <1>2
    <2>2. \A k : ~(CountTo(keys, 0, k) > Count(removed, k))
        BY <1>4, CountToStep
    <2> QED BY <2>1, <2>2
<1>6. ASSUME NEW n \in Nat, n \in N PROVE n + 1 \in N
    <2> SUFFICES ASSUME n + 1 <= L PROVE Only(n + 1) /\ Every(n + 1)
        OBVIOUS
    <2> DEFINE key == keys[n + 1]
    <2>1. n + 1 \in 1..L /\ n \in 0..L /\ (n + 1) - 1 = n /\ Only(n) /\ Every(n)
        BY <1>1, <1>6
    <2>2. /\ out[n] \in Seq(V) /\ out[n + 1] \in Seq(V) /\ values[n + 1] \in V
          /\ out[n + 1] = IF CountTo(keys, n, key) < Count(removed, key)
                          THEN out[n] ELSE Append(out[n], values[n + 1])
        <3> HIDE DEF Only, Every, N
        <3>0. n + 1 \in 0..L /\ \A i \in 0..L : out[i] \in Seq(V)
            BY <1>1, <1>4a, <2>1
        <3>1. out[n] \in Seq(V) /\ out[n + 1] \in Seq(V) /\ values[n + 1] \in V
            BY <1>1, <2>1, <3>0
        <3>2. out[n + 1] = IF CountTo(keys, n, keys[n + 1]) < Count(removed, keys[n + 1])
                           THEN out[n] ELSE Append(out[n], values[n + 1])
            BY <1>2, <2>1
        <3> QED BY <3>1, <3>2
    <2>3. \A k : /\ CountTo(keys, n, k) \in Nat
                 /\ key = k => CountTo(keys, n + 1, k) = CountTo(keys, n, k) + 1
                 /\ key # k => CountTo(keys, n + 1, k) = CountTo(keys, n, k)
        BY CountToStep
    <2>4. \A k : CountTo(keys, n + 1, k) >= CountTo(keys, n, k)
        <3> SUFFICES ASSUME NEW k PROVE CountTo(keys, n + 1, k) >= CountTo(keys, n, k)
            OBVIOUS
        <3> QED BY <2>3
    <2> HIDE DEF key, N
    <2>5. CASE CountTo(keys, n, key) < Count(removed, key)
        <3>1. out[n + 1] = out[n]
            BY <2>2, <2>5
        <3>2. Only(n + 1)
            <4> SUFFICES ASSUME NEW m \in 1..Len(out[n])
                         PROVE  \E j \in 1..n + 1 : out[n][m] = values[j]
                                  /\ CountTo(keys, n + 1, keys[j]) > Count(removed, keys[j])
                BY <3>1
            <4>1. PICK j \in 1..n : out[n][m] = values[j]
                        /\ CountTo(keys, n, keys[j]) > Count(removed, keys[j])
                BY <2>1
            <4>2. CountTo(keys, n + 1, keys[j]) >= CountTo(keys, n, keys[j])
                  /\ CountTo(keys, n, keys[j]) \in Nat /\ Count(removed, keys[j]) \in Nat
                BY <1>4, <2>3, <2>4
            <4>3. CountTo(keys, n + 1, keys[j]) \in Nat
                BY CountToStep
            <4>4. CountTo(keys, n + 1, keys[j]) > Count(removed, keys[j]) /\ j \in 1..n + 1
                BY <4>1, <4>2, <4>3
            <4> QED BY <4>1, <4>4
        <3>3. ASSUME NEW k, CountTo(keys, n + 1, k) > Count(removed, k)
              PROVE  CountTo(keys, n, k) > Count(removed, k)
            <4>1. Count(removed, k) \in Nat
                BY <1>4
            <4>2. CASE k = key
                <5> DEFINE c == CountTo(keys, n, key)
                           d == CountTo(keys, n + 1, key)
                           r == Count(removed, key)
                <5>1. c \in Nat /\ d = c + 1 /\ c < r /\ r \in Nat /\ d > r
                    BY <2>3, <2>5, <3>3, <4>1, <4>2
                <5> HIDE DEF c, d, r
                <5> QED BY <5>1
            <4>3. CASE k # key
                BY <2>3, <3>3, <4>3
            <4> QED BY <4>2, <4>3
        <3>4. Every(n + 1)
            BY <2>1, <3>1, <3>3
        <3> QED BY <3>2, <3>4
    <2>6. CASE ~(CountTo(keys, n, key) < Count(removed, key))
        <3>1. /\ Len(out[n]) \in Nat /\ Len(out[n + 1]) = Len(out[n]) + 1
              /\ \A m \in 1..Len(out[n]) : out[n + 1][m] = out[n][m]
              /\ out[n + 1][Len(out[n]) + 1] = values[n + 1]
            BY <2>2, <2>6
        <3>2. CountTo(keys, n + 1, key) > Count(removed, key)
            BY <1>4, <2>3, <2>6
        <3>3. Only(n + 1)
            <4> SUFFICES ASSUME NEW m \in 1..Len(out[n + 1])
                         PROVE  \E j \in 1..n + 1 : out[n + 1][m] = values[j]
                                  /\ CountTo(keys, n + 1, keys[j]) > Count(removed, keys[j])
                OBVIOUS
            <4>1. CASE m \in 1..Len(out[n])
                <5>1. PICK j \in 1..n : out[n][m] = values[j]
                        /\ CountTo(keys, n, keys[j]) > Count(removed, keys[j])
                    BY <2>1, <4>1
                <5>2. CountTo(keys, n + 1, keys[j]) > Count(removed, keys[j])
                    <6>1. CountTo(keys, n + 1, keys[j]) >= CountTo(keys, n, keys[j])
                          /\ CountTo(keys, n, keys[j]) \in Nat /\ Count(removed, keys[j]) \in Nat
                        BY <1>4, <2>3, <2>4
                    <6>2. CountTo(keys, n + 1, keys[j]) \in Nat
                        BY CountToStep
                    <6> QED BY <5>1, <6>1, <6>2
                <5> QED BY <3>1, <4>1, <5>1, <5>2
            <4>2. CASE m = Len(out[n]) + 1
                BY <3>1, <3>2, <4>2 DEF key
            <4> QED BY <3>1, <4>1, <4>2
        <3>4. Every(n + 1)
            <4> SUFFICES ASSUME NEW k, CountTo(keys, n + 1, k) > Count(removed, k)
                         PROVE  \E m \in 1..Len(out[n + 1]), j \in 1..n + 1 :
                                    keys[j] = k /\ out[n + 1][m] = values[j]
                OBVIOUS
            <4>1. CASE k = key
                <5>1. Len(out[n]) + 1 \in 1..Len(out[n + 1]) /\ n + 1 \in 1..n + 1
                    BY <3>1
                <5> QED BY <3>1, <4>1, <5>1 DEF key
            <4>2. CASE k # key
                <5>1. CountTo(keys, n, k) > Count(removed, k)
                    BY <2>3, <4>2
                <5>2. PICK m \in 1..Len(out[n]), j \in 1..n : keys[j] = k /\ out[n][m] = values[j]
                    BY <2>1, <5>1
                <5>2a. out[n + 1][m] = out[n][m]
                    BY <3>1, <5>2, Zenon
                <5>2b. m \in 1..Len(out[n + 1]) /\ j \in 1..n + 1
                    <6> DEFINE old == Len(out[n])
                               new == Len(out[n + 1])
                    <6>1. old \in Nat /\ new = old + 1 /\ m \in 1..old
                        BY <3>1
                    <6> HIDE DEF old, new
                    <6>2. m \in 1..new /\ j \in 1..n + 1
                        BY <6>1
                    <6> QED BY <6>2 DEF new
                <5>3. m \in 1..Len(out[n + 1]) /\ j \in 1..n + 1 /\ out[n + 1][m] = values[j]
                    BY <5>2, <5>2a, <5>2b
                <5> QED BY <5>2, <5>3
            <4> QED BY <4>1, <4>2
        <3> QED BY <3>3, <3>4
    <2> QED BY <2>5, <2>6
<1>7. Only(L) /\ Every(L)
    <2> HIDE DEF N
    <2>1. Nat \subseteq N
        BY <1>5, <1>6, NatInduct
    <2> QED BY <1>1, <2>1 DEF N
<1>8. out[L] \in Seq(V)
    BY <1>1, <1>2
<1> QED BY <1>2, <1>3, <1>7, <1>8 DEF L, KeepsSurplus

-----------------------------------------------------------------------------
(* The hash chains of the L2 contracts *)

\* The recursion of Items, as an equation.
ItemsEq(items, block, op) ==
    items = [i \in 0..Len(block) |->
                IF i = 0 THEN <<>>
                ELSE IF block[i].op = op THEN Append(items[i - 1], block[i].item)
                ELSE items[i - 1]]

LEMMA ItemsUnfold ==
    ASSUME NEW block, NEW op, Len(block) \in Nat
    PROVE  \E items : ItemsEq(items, block, op) /\ Items(block, op) = items[Len(block)]
<1> DEFINE Eq(g, m) == g = [i \in 0..m |->
                                IF i = 0 THEN <<>>
                                ELSE IF block[i].op = op THEN Append(g[i - 1], block[i].item)
                                ELSE g[i - 1]]
           N == {m \in Nat : \E g : Eq(g, m)}
<1>1. 0 \in N
    <2>1. Eq([i \in 0..0 |-> <<>>], 0)
        OBVIOUS
    <2> HIDE DEF Eq
    <2> QED BY <2>1
<1>2. ASSUME NEW n \in Nat, n \in N PROVE n + 1 \in N
    <2>1. PICK g : Eq(g, n)
        BY <1>2
    <2> DEFINE next == IF block[n + 1].op = op THEN Append(g[n], block[n + 1].item) ELSE g[n]
               h == [i \in 0..n + 1 |-> IF i = n + 1 THEN next ELSE g[i]]
    <2>2. \A i \in 0..n : g[i] = IF i = 0 THEN <<>>
                                 ELSE IF block[i].op = op THEN Append(g[i - 1], block[i].item)
                                 ELSE g[i - 1]
        BY <2>1
    <2>3. \A i \in 0..n + 1 : h[i] = IF i = 0 THEN <<>>
                                 ELSE IF block[i].op = op THEN Append(h[i - 1], block[i].item)
                                 ELSE h[i - 1]
        <3> SUFFICES ASSUME NEW i \in 0..n + 1
                     PROVE  h[i] = IF i = 0 THEN <<>>
                                 ELSE IF block[i].op = op THEN Append(h[i - 1], block[i].item)
                                 ELSE h[i - 1]
            OBVIOUS
        <3>1. CASE i = n + 1
            <4>1. h[n + 1] = next /\ h[n] = g[n] /\ (n + 1) - 1 = n /\ n + 1 # 0
                OBVIOUS
            <4> HIDE DEF h
            <4> QED BY <3>1, <4>1
        <3>2. CASE i \in 0..n
            <4>1. h[i] = g[i] /\ (i # 0 => h[i - 1] = g[i - 1])
                BY <3>2
            <4> HIDE DEF h
            <4> QED BY <2>2, <3>2, <4>1
        <3> QED BY <3>1, <3>2
    <2>4. h = [i \in 0..n + 1 |-> h[i]]
        OBVIOUS
    <2> HIDE DEF h
    <2>5. Eq(h, n + 1)
        BY <2>3, <2>4
    <2> HIDE DEF Eq
    <2> QED BY <2>5
<1>3. \E g : Eq(g, Len(block))
    <2> HIDE DEF N
    <2>1. Nat \subseteq N
        BY <1>1, <1>2, NatInduct
    <2> QED BY <2>1 DEF N
<1>4. Items(block, op) = (CHOOSE g : Eq(g, Len(block)))[Len(block)]
    BY DEF Items
<1> HIDE DEF Eq
<1> DEFINE items == CHOOSE g : Eq(g, Len(block))
<1>5. Eq(items, Len(block))
    BY <1>3, Zenon
<1> HIDE DEF items
<1>6. Items(block, op) = items[Len(block)]
    BY <1>4 DEF items
<1>7. ItemsEq(items, block, op)
    BY <1>5, Zenon DEF Eq, ItemsEq
<1> QED BY <1>6, <1>7

\* What an equation of Items says, element by element.
LEMMA ItemsSteps ==
    ASSUME NEW items, NEW block, NEW op, Len(block) \in Nat, ItemsEq(items, block, op)
    PROVE  /\ items[0] = <<>>
           /\ \A i \in 1..Len(block) :
                 items[i] = IF block[i].op = op THEN Append(items[i - 1], block[i].item)
                            ELSE items[i - 1]
<1> DEFINE E == [i \in 0..Len(block) |->
                    IF i = 0 THEN <<>>
                    ELSE IF block[i].op = op THEN Append(items[i - 1], block[i].item)
                    ELSE items[i - 1]]
<1>1. items = E
    BY Zenon DEF ItemsEq
<1>2. /\ E[0] = <<>>
      /\ \A i \in 1..Len(block) :
            E[i] = IF block[i].op = op THEN Append(items[i - 1], block[i].item)
                   ELSE items[i - 1]
    OBVIOUS
<1> HIDE DEF E
<1> QED BY <1>1, <1>2

LEMMA ItemsEmpty == ASSUME NEW op PROVE Items(<<>>, op) = <<>>
<1>1. Len(<<>>) = 0
    OBVIOUS
<1>2. PICK items : ItemsEq(items, <<>>, op) /\ Items(<<>>, op) = items[Len(<<>>)]
    BY <1>1, ItemsUnfold
<1>3. items[0] = <<>>
    BY <1>1, <1>2, ItemsSteps
<1> QED BY <1>1, <1>2, <1>3

\* One event more on the chain.
LEMMA ItemsAppend ==
    ASSUME NEW E, NEW block \in Seq(E), NEW e \in E, NEW op
    PROVE  Items(Append(block, e), op) =
               IF e.op = op THEN Append(Items(block, op), e.item) ELSE Items(block, op)
<1> DEFINE L == Len(block)
           b == Append(block, e)
<1>1. /\ L \in Nat /\ Len(b) = L + 1 /\ b[L + 1] = e
      /\ \A i \in 1..L : b[i] = block[i]
    OBVIOUS
<1> HIDE DEF b
<1>2. PICK old : ItemsEq(old, block, op) /\ Items(block, op) = old[L]
    BY <1>1, ItemsUnfold
<1>3. PICK new : ItemsEq(new, b, op) /\ Items(b, op) = new[L + 1]
    BY <1>1, ItemsUnfold
<1>4. /\ old[0] = <<>>
      /\ \A i \in 1..L : old[i] = IF block[i].op = op THEN Append(old[i - 1], block[i].item)
                                  ELSE old[i - 1]
    BY <1>1, <1>2, ItemsSteps
<1>5. /\ new[0] = <<>>
      /\ \A i \in 1..Len(b) : new[i] = IF b[i].op = op THEN Append(new[i - 1], b[i].item)
                                       ELSE new[i - 1]
    BY <1>1, <1>3, ItemsSteps
<1> HIDE DEF L
<1> DEFINE N == {i \in Nat : i <= L => new[i] = old[i]}
<1>6. 0 \in N
    BY <1>4, <1>5
<1>7. ASSUME NEW n \in Nat, n \in N PROVE n + 1 \in N
    <2> SUFFICES ASSUME n + 1 <= L PROVE new[n + 1] = old[n + 1]
        OBVIOUS
    <2>1. n + 1 \in 1..L /\ n + 1 \in 1..Len(b) /\ (n + 1) - 1 = n
        BY <1>1
    <2>2. new[n] = old[n] /\ b[n + 1] = block[n + 1]
        BY <1>1, <1>7, <2>1
    <2>3. new[n + 1] = IF b[n + 1].op = op THEN Append(new[n], b[n + 1].item) ELSE new[n]
        BY <1>5, <2>1
    <2>4. old[n + 1] = IF block[n + 1].op = op THEN Append(old[n], block[n + 1].item) ELSE old[n]
        BY <1>4, <2>1
    <2> QED BY <2>2, <2>3, <2>4
<1>8. new[L] = old[L]
    <2> HIDE DEF N
    <2>1. Nat \subseteq N
        BY <1>6, <1>7, NatInduct
    <2> QED BY <1>1, <2>1 DEF N
<1>9. new[L + 1] = IF e.op = op THEN Append(new[L], e.item) ELSE new[L]
    <2>1. L + 1 \in 1..Len(b) /\ (L + 1) - 1 = L
        BY <1>1
    <2> QED BY <1>1, <1>5, <2>1
<1> QED BY <1>2, <1>3, <1>8, <1>9 DEF b

LEMMA ItemsType ==
    ASSUME NEW E, NEW T, NEW op, \A e \in E : e.op = op => e.item \in T,
           NEW block \in Seq(E)
    PROVE  Items(block, op) \in Seq(T)
<1> DEFINE G == {b \in Seq(E) : Items(b, op) \in Seq(T)}
<1>1. <<>> \in G
    <2>1. <<>> \in Seq(E) /\ <<>> \in Seq(T)
        OBVIOUS
    <2> QED BY <2>1, ItemsEmpty
<1>2. ASSUME NEW b \in Seq(E), NEW e \in E, b \in G PROVE Append(b, e) \in G
    <2>1. Items(Append(b, e), op) =
            IF e.op = op THEN Append(Items(b, op), e.item) ELSE Items(b, op)
        BY ItemsAppend
    <2>2. Append(b, e) \in Seq(E)
        OBVIOUS
    <2>3. Items(b, op) \in Seq(T) /\ (e.op = op => e.item \in T)
        BY <1>2
    <2> DEFINE old == Items(b, op)
               new == Items(Append(b, e), op)
    <2> HIDE DEF old, new
    <2>4. new = (IF e.op = op THEN Append(old, e.item) ELSE old) /\ old \in Seq(T)
        BY <2>1, <2>3 DEF old, new
    <2>5. new \in Seq(T)
        BY <2>3, <2>4
    <2> QED BY <2>2, <2>5 DEF new
<1> HIDE DEF G
<1>3. Seq(E) \subseteq G
    BY <1>1, <1>2, SeqInduct
<1> QED BY <1>3 DEF G

AppendsInside(s, t, x) == Append(s \o t, x) = s \o Append(t, x)

LEMMA ConcatAppend ==
    ASSUME NEW T, NEW s \in Seq(T), NEW t \in Seq(T), NEW x \in T
    PROVE  AppendsInside(s, t, x)
BY DEF AppendsInside

\* The chain of a block is that of an earlier block, extended by what came between.
ItemsJoin(block, range, op) == Items(block \o range, op) = Items(block, op) \o Items(range, op)

LEMMA ItemsConcat ==
    ASSUME NEW E, NEW T, NEW op, \A e \in E : e.op = op => e.item \in T,
           NEW block \in Seq(E), NEW range \in Seq(E)
    PROVE  ItemsJoin(block, range, op)
<1> DEFINE G == {r \in Seq(E) : Items(block \o r, op) = Items(block, op) \o Items(r, op)}
           front == Items(block, op)
<1>0. front \in Seq(T)
    BY ItemsType
<1> HIDE DEF front
<1>1. <<>> \in G
    <2>1. <<>> \in Seq(E) /\ block \o <<>> = block /\ front \o <<>> = front
        BY <1>0
    <2> QED BY <2>1, ItemsEmpty DEF front
<1>2. ASSUME NEW r \in Seq(E), NEW e \in E, r \in G PROVE Append(r, e) \in G
    <2> DEFINE w == block \o r
               back == Items(r, op)
    <2>1. w \in Seq(E) /\ block \o Append(r, e) = Append(w, e) /\ Append(r, e) \in Seq(E)
        OBVIOUS
    <2>2. Items(w, op) = front \o back
        BY <1>2 DEF front
    <2>3. back \in Seq(T)
        BY ItemsType
    <2> HIDE DEF w
    <2>4. Items(Append(w, e), op) =
            IF e.op = op THEN Append(Items(w, op), e.item) ELSE Items(w, op)
        BY <2>1, ItemsAppend
    <2>5. Items(Append(r, e), op) = IF e.op = op THEN Append(back, e.item) ELSE back
        BY ItemsAppend
    <2> DEFINE next == Items(Append(r, e), op)
    <2> HIDE DEF back, next
    <2>6. ASSUME NEW x \in T PROVE Append(front \o back, x) = front \o Append(back, x)
        <3>1. AppendsInside(front, back, x)
            BY <1>0, <2>3, ConcatAppend
        <3> QED BY <3>1, Zenon DEF AppendsInside
    <2>6a. e.op = op => e.item \in T
        OBVIOUS
    <2>7. Items(Append(w, e), op) = front \o next
        BY <2>6a, <2>2, <2>4, <2>5, <2>6 DEF next
    <2> QED BY <2>1, <2>7 DEF next, front
<1> HIDE DEF G
<1>3. Seq(E) \subseteq G
    BY <1>1, <1>2, SeqInduct
<1> QED BY <1>3, Zenon DEF G, ItemsJoin

\* Two ways to take a common front off a list.
LEMMA ConcatCancel ==
    ASSUME NEW T, NEW s \in Seq(T), NEW t \in Seq(T), NEW u \in Seq(T), s \o t = s \o u
    PROVE  t = u
<1>1. Len(s) \in Nat /\ Len(t) \in Nat /\ Len(u) \in Nat
    OBVIOUS
<1>2. Len(s \o t) = Len(s) + Len(t) /\ Len(s \o u) = Len(s) + Len(u)
    OBVIOUS
<1>3. Len(t) = Len(u)
    BY <1>1, <1>2
<1>4. \A i \in 1..Len(t) : (s \o t)[Len(s) + i] = t[i]
    OBVIOUS
<1>5. \A i \in 1..Len(u) : (s \o u)[Len(s) + i] = u[i]
    OBVIOUS
<1>6. \A i \in 1..Len(t) : t[i] = u[i]
    BY <1>3, <1>4, <1>5
<1> QED BY <1>3, <1>6

LEMMA ConcatSuffix ==
    ASSUME NEW T, NEW s \in Seq(T), NEW t \in Seq(T)
    PROVE  SubSeq(s \o t, Len(s) + 1, Len(s \o t)) = t
<1> DEFINE w == s \o t
           u == SubSeq(w, Len(s) + 1, Len(w))
<1>1. /\ Len(s) \in Nat /\ Len(t) \in Nat /\ w \in Seq(T) /\ Len(w) = Len(s) + Len(t)
      /\ \A i \in 1..Len(t) : w[Len(s) + i] = t[i]
    OBVIOUS
<1> HIDE DEF w
<1>2. /\ u \in Seq(T) /\ Len(u) = Len(t)
      /\ \A i \in 1..Len(t) : u[i] = w[Len(s) + i]
    BY <1>1
<1> HIDE DEF u
<1>3. u = t
    BY <1>1, <1>2
<1> QED BY <1>3 DEF u, w

\* A block is an earlier block and the range between them.
Joins(b, p, r) == b = p \o r

LEMMA RangeConcat ==
    ASSUME NEW E, NEW b \in Seq(E), NEW m \in 0..Len(b), NEW n \in m..Len(b)
    PROVE  /\ SubSeq(b, 1, m) \in Seq(E) /\ SubSeq(b, m + 1, n) \in Seq(E)
           /\ Len(SubSeq(b, m + 1, n)) = n - m
           /\ \A i \in 1..n - m : SubSeq(b, m + 1, n)[i] = b[m + i]
           /\ Joins(SubSeq(b, 1, n), SubSeq(b, 1, m), SubSeq(b, m + 1, n))
<1>1. m \in Nat /\ n \in Nat /\ Len(b) \in Nat /\ m <= n /\ n <= Len(b)
    OBVIOUS
<1> DEFINE p == SubSeq(b, 1, m)
           r == SubSeq(b, m + 1, n)
           w == SubSeq(b, 1, n)
<1>2. /\ p \in Seq(E) /\ Len(p) = m /\ \A i \in 1..m : p[i] = b[i]
    BY <1>1
<1>3. /\ w \in Seq(E) /\ Len(w) = n /\ \A i \in 1..n : w[i] = b[i]
    BY <1>1
<1>4. /\ r \in Seq(E) /\ Len(r) = n - m /\ \A i \in 1..n - m : r[i] = b[m + i]
    BY <1>1
<1> HIDE DEF p, r, w
<1>5. /\ (p \o r) \in Seq(E) /\ Len(p \o r) = n
      /\ \A i \in 1..n : (p \o r)[i] = IF i <= m THEN p[i] ELSE r[i - m]
    BY <1>1, <1>2, <1>4
<1>6. \A i \in 1..n : (p \o r)[i] = b[i]
    <2> SUFFICES ASSUME NEW i \in 1..n PROVE (p \o r)[i] = b[i]
        OBVIOUS
    <2>1. CASE i <= m
        BY <1>1, <1>2, <1>5, <2>1
    <2>2. CASE ~(i <= m)
        <3>1. i - m \in 1..n - m /\ m + (i - m) = i
            BY <1>1, <2>2
        <3> QED BY <1>4, <1>5, <2>2, <3>1
    <2> QED BY <2>1, <2>2
<1> DEFINE pr == p \o r
<1>7. pr \in Seq(E) /\ Len(pr) = n /\ \A i \in 1..n : pr[i] = w[i]
    BY <1>3, <1>5, <1>6
<1> HIDE DEF pr
<1>8. pr = w
    BY <1>1, <1>3, <1>7
<1>9. Joins(w, p, r)
    BY <1>8 DEF Joins, pr
<1> QED BY <1>2, <1>4, <1>9 DEF p, r, w

-----------------------------------------------------------------------------
(* What is in force at a block *)

\* Some event of On stands in the block: no event of Off comes after it.
Stands(b, On, Off) ==
    \E i \in 1..Len(b) : b[i] \in On /\ \A j \in i + 1..Len(b) : b[j] \notin Off

LEMMA StandsEmpty == ASSUME NEW On, NEW Off PROVE ~Stands(<<>>, On, Off)
BY DEF Stands

LEMMA StandsAppend ==
    ASSUME NEW E, NEW b \in Seq(E), NEW e \in E, NEW On, NEW Off, On \cap Off = {}
    PROVE  /\ e \in On => Stands(Append(b, e), On, Off)
           /\ e \in Off => ~Stands(Append(b, e), On, Off)
           /\ e \notin On /\ e \notin Off =>
                 (Stands(Append(b, e), On, Off) <=> Stands(b, On, Off))
<1> DEFINE c == Append(b, e)
           L == Len(b)
<1>1. /\ L \in Nat /\ Len(c) = L + 1 /\ c[L + 1] = e
      /\ \A i \in 1..L : c[i] = b[i]
    OBVIOUS
<1> HIDE DEF c, L
<1>2. e \in On => Stands(c, On, Off)
    <2> SUFFICES ASSUME e \in On PROVE Stands(c, On, Off)
        OBVIOUS
    <2>1. L + 1 \in 1..Len(c) /\ \A j \in (L + 1) + 1..Len(c) : FALSE
        BY <1>1
    <2> QED BY <1>1, <2>1 DEF Stands
<1>3. e \in Off => ~Stands(c, On, Off)
    <2> SUFFICES ASSUME e \in Off, NEW i \in 1..Len(c), c[i] \in On,
                        \A j \in i + 1..Len(c) : c[j] \notin Off
                 PROVE  FALSE
        BY DEF Stands
    <2>1. CASE i = L + 1
        BY <1>1, <2>1
    <2>2. CASE i # L + 1
        <3>1. L + 1 \in i + 1..Len(c)
            BY <1>1, <2>2
        <3> QED BY <1>1, <3>1
    <2> QED BY <2>1, <2>2
<1>4. ASSUME e \notin On, Stands(c, On, Off) PROVE Stands(b, On, Off)
    <2>1. PICK i \in 1..Len(c) : c[i] \in On /\ \A j \in i + 1..Len(c) : c[j] \notin Off
        BY <1>4 DEF Stands
    <2>2. i \in 1..L
        BY <1>1, <1>4, <2>1
    <2>3. \A j \in i + 1..L : j \in i + 1..Len(c) /\ j \in 1..L
        BY <1>1, <2>2
    <2>4. b[i] \in On /\ \A j \in i + 1..L : b[j] \notin Off
        BY <1>1, <2>1, <2>2, <2>3
    <2> QED BY <2>2, <2>4 DEF Stands, L
<1>5. ASSUME e \notin Off, Stands(b, On, Off) PROVE Stands(c, On, Off)
    <2>1. PICK i \in 1..L : b[i] \in On /\ \A j \in i + 1..L : b[j] \notin Off
        BY <1>5 DEF Stands, L
    <2>2. i \in 1..Len(c)
        BY <1>1
    <2>3. \A j \in i + 1..Len(c) : j = L + 1 \/ (j \in i + 1..L /\ j \in 1..L)
        BY <1>1
    <2>4. c[i] \in On /\ \A j \in i + 1..Len(c) : c[j] \notin Off
        BY <1>1, <1>5, <2>1, <2>3
    <2> QED BY <2>2, <2>4 DEF Stands
<1> QED BY <1>2, <1>3, <1>4, <1>5 DEF c

\* The events that set and undo a GER, and a claim of an index.
Inserts(E, g) == {e \in E : e.op = "insert" /\ e.item = g}
Removes(E, g) == {e \in E : e.op = "remove" /\ e.item = g}
ClaimsOf(E, x) == {e \in E : e.op = "claim" /\ e.item.global_index = x}
Unsets(E, x) == {e \in E : e.op = "unset" /\ e.item = x}

LEMMA GersStand ==
    ASSUME NEW E, NEW b \in Seq(E), NEW g
    PROVE  g \in GersInForce(b) <=> Stands(b, Inserts(E, g), Removes(E, g))
<1>1. Len(b) \in Nat /\ \A i \in 1..Len(b) : b[i] \in E
    OBVIOUS
<1>2. g \in GersInForce(b) <=>
        \E i \in 1..Len(b) : /\ b[i].op = "insert"
                             /\ \A j \in i + 1..Len(b) : ~RemovesGer(b[j], b[i].item)
                             /\ b[i].item = g
    BY Zenon DEF GersInForce, InForce
<1>3. \A i \in 1..Len(b) : \A j \in i + 1..Len(b) : j \in 1..Len(b)
    BY <1>1
<1> QED BY <1>1, <1>2, <1>3, Zenon DEF Stands, Inserts, Removes, RemovesGer

LEMMA IndicesStand ==
    ASSUME NEW E, NEW b \in Seq(E), NEW x
    PROVE  x \in IndicesInForce(b) <=> Stands(b, ClaimsOf(E, x), Unsets(E, x))
<1>1. Len(b) \in Nat /\ \A i \in 1..Len(b) : b[i] \in E
    OBVIOUS
<1>2. x \in IndicesInForce(b) <=>
        \E i \in 1..Len(b) : /\ b[i].op = "claim"
                             /\ \A j \in i + 1..Len(b) : ~UnsetsClaim(b[j], b[i].item)
                             /\ b[i].item.global_index = x
    BY Zenon DEF IndicesInForce, InForce
<1>3. \A i \in 1..Len(b) : \A j \in i + 1..Len(b) : j \in 1..Len(b)
    BY <1>1
<1> QED BY <1>1, <1>2, <1>3, Zenon DEF Stands, ClaimsOf, Unsets, UnsetsClaim

-----------------------------------------------------------------------------
(* Chains of admissible events *)

\* One event more leaves the earlier blocks as they are.
LEMMA PrefixAppend ==
    ASSUME NEW E, NEW b \in Seq(E), NEW e \in E, NEW m \in 0..Len(b)
    PROVE  SubSeq(Append(b, e), 1, m) = SubSeq(b, 1, m)
<1> DEFINE c == Append(b, e)
           L == Len(b)
<1>1. /\ L \in Nat /\ c \in Seq(E) /\ Len(c) = L + 1 /\ c[L + 1] = e
      /\ \A i \in 1..L : c[i] = b[i]
    OBVIOUS
<1> HIDE DEF c
<1>2. /\ SubSeq(c, 1, m) \in Seq(E) /\ Len(SubSeq(c, 1, m)) = m
      /\ \A i \in 1..m : SubSeq(c, 1, m)[i] = c[i]
    BY <1>1
<1>3. /\ SubSeq(b, 1, m) \in Seq(E) /\ Len(SubSeq(b, 1, m)) = m
      /\ \A i \in 1..m : SubSeq(b, 1, m)[i] = b[i]
    BY <1>1
<1>4. \A i \in 1..m : c[i] = b[i]
    BY <1>1
<1> DEFINE cm == SubSeq(c, 1, m)
           bm == SubSeq(b, 1, m)
<1> HIDE DEF cm, bm
<1>5. /\ cm \in Seq(E) /\ bm \in Seq(E) /\ Len(cm) = m /\ Len(bm) = m
      /\ \A i \in 1..m : cm[i] = bm[i]
    BY <1>2, <1>3, <1>4 DEF cm, bm
<1>6. cm = bm
    BY <1>5
<1> QED BY <1>6 DEF cm, bm, c

\* Every event of the block was admissible when it came.
Admitted(b) == \A n \in 1..Len(b) : Admissible(SubSeq(b, 1, n - 1), b[n])

LEMMA AdmittedAppend ==
    ASSUME NEW E, NEW b \in Seq(E), NEW e \in E
    PROVE  Admitted(Append(b, e)) <=> Admitted(b) /\ Admissible(b, e)
<1> DEFINE c == Append(b, e)
           L == Len(b)
<1>1. /\ L \in Nat /\ c \in Seq(E) /\ Len(c) = L + 1 /\ c[L + 1] = e
      /\ \A i \in 1..L : c[i] = b[i]
    OBVIOUS
<1>2. \A m \in 0..L : SubSeq(c, 1, m) = SubSeq(b, 1, m)
    BY PrefixAppend
<1>3. SubSeq(b, 1, L) = b /\ (L + 1) - 1 = L
    BY <1>1
<1> HIDE DEF c, L
<1>4. ASSUME NEW n \in 1..L
      PROVE  Admissible(SubSeq(c, 1, n - 1), c[n]) <=> Admissible(SubSeq(b, 1, n - 1), b[n])
    <2>1. n - 1 \in 0..L /\ c[n] = b[n]
        BY <1>1
    <2>2. SubSeq(c, 1, n - 1) = SubSeq(b, 1, n - 1)
        BY <1>2, <2>1
    <2> QED BY <2>1, <2>2
<1>5. SubSeq(c, 1, (L + 1) - 1) = b /\ c[L + 1] = e
    <2>1. L \in 0..L
        BY <1>1
    <2>2. SubSeq(c, 1, L) = SubSeq(b, 1, L)
        BY <1>2, <2>1
    <2> QED BY <1>1, <1>3, <2>2
<1>6. \A n \in 1..Len(c) : n \in 1..L \/ n = L + 1
    BY <1>1
<1>7. 1..L \subseteq 1..Len(c) /\ L + 1 \in 1..Len(c)
    BY <1>1
<1>8. ASSUME Admitted(c) PROVE Admitted(b) /\ Admissible(b, e)
    <2>1. \A n \in 1..L : Admissible(SubSeq(b, 1, n - 1), b[n])
        BY <1>4, <1>7, <1>8 DEF Admitted
    <2>2. Admissible(b, e)
        <3>1. Admissible(SubSeq(c, 1, (L + 1) - 1), c[L + 1])
            BY <1>7, <1>8, Zenon DEF Admitted
        <3> QED BY <1>5, <3>1
    <2> QED BY <2>1, <2>2 DEF Admitted, L
<1>9. ASSUME Admitted(b), Admissible(b, e) PROVE Admitted(c)
    <2> SUFFICES ASSUME NEW n \in 1..Len(c) PROVE Admissible(SubSeq(c, 1, n - 1), c[n])
        BY DEF Admitted
    <2>1. CASE n \in 1..L
        BY <1>4, <1>9, <2>1 DEF Admitted, L
    <2>2. CASE n = L + 1
        BY <1>5, <1>9, <2>2
    <2> QED BY <1>6, <2>1, <2>2
<1> QED BY <1>8, <1>9 DEF c

LEMMA AdmittedPrefix ==
    ASSUME NEW E, NEW b \in Seq(E), NEW m \in 0..Len(b), Admitted(b)
    PROVE  Admitted(SubSeq(b, 1, m))
<1> DEFINE p == SubSeq(b, 1, m)
<1>1. Len(b) \in Nat /\ Len(p) = m /\ p \in Seq(E) /\ \A i \in 1..m : p[i] = b[i]
    OBVIOUS
<1>2. \A n \in 1..m : SubSeq(p, 1, n - 1) = SubSeq(b, 1, n - 1)
    <2> SUFFICES ASSUME NEW n \in 1..m PROVE SubSeq(p, 1, n - 1) = SubSeq(b, 1, n - 1)
        OBVIOUS
    <2> HIDE DEF p
    <2> DEFINE pm == SubSeq(p, 1, n - 1)
               bm == SubSeq(b, 1, n - 1)
    <2>1. pm \in Seq(E) /\ Len(pm) = n - 1 /\ \A i \in 1..n - 1 : pm[i] = p[i]
        BY <1>1
    <2>2. bm \in Seq(E) /\ Len(bm) = n - 1 /\ \A i \in 1..n - 1 : bm[i] = b[i]
        BY <1>1
    <2> HIDE DEF pm, bm
    <2>3. \A i \in 1..n - 1 : pm[i] = bm[i]
        BY <1>1, <2>1, <2>2
    <2>4. pm = bm
        BY <2>1, <2>2, <2>3
    <2> QED BY <2>4 DEF pm, bm
<1> HIDE DEF p
<1>3. \A n \in 1..m : n \in 1..Len(b)
    BY <1>1
<1>4. \A n \in 1..m : Admissible(SubSeq(p, 1, n - 1), p[n])
    BY <1>1, <1>2, <1>3, Zenon DEF Admitted
<1> QED BY <1>1, <1>4 DEF Admitted, p

LEMMA EventKinds ==
    ASSUME NEW G, NEW C, NEW e \in BridgeEvents(G, C)
    PROVE  /\ e.op \in {"insert", "remove", "claim", "unset", "exit", "other"}
           /\ e.op = "insert" => e.item \in G
           /\ e.op = "remove" => e.item \in G
           /\ e.op = "claim" => e.item \in C
           /\ e.op = "unset" => e.item \in {c.global_index : c \in C}
           /\ e.op = "exit" => e.item \in {"any"}
BY DEF BridgeEvents

\* The chains of a block are lists of GERs, claims, indices and exits.
LEMMA ChainTypes ==
    ASSUME NEW G, NEW C, NEW b \in Seq(BridgeEvents(G, C))
    PROVE  /\ Items(b, "insert") \in Seq(G) /\ Items(b, "remove") \in Seq(G)
           /\ Items(b, "claim") \in Seq(C)
           /\ Items(b, "unset") \in Seq({c.global_index : c \in C})
           /\ Items(b, "exit") \in Seq({"any"})
<1> DEFINE E == BridgeEvents(G, C)
<1>1. \A e \in E : /\ e.op = "insert" => e.item \in G
                   /\ e.op = "remove" => e.item \in G
                   /\ e.op = "claim" => e.item \in C
                   /\ e.op = "unset" => e.item \in {c.global_index : c \in C}
                   /\ e.op = "exit" => e.item \in {"any"}
    BY EventKinds
<1>2. b \in Seq(E)
    OBVIOUS
<1> HIDE DEF E
<1>3. Items(b, "insert") \in Seq(G) /\ Items(b, "remove") \in Seq(G)
    BY <1>1, <1>2, ItemsType
<1>4. Items(b, "claim") \in Seq(C) /\ Items(b, "unset") \in Seq({c.global_index : c \in C})
    BY <1>1, <1>2, ItemsType
<1>5. Items(b, "exit") \in Seq({"any"})
    BY <1>1, <1>2, ItemsType
<1> QED BY <1>3, <1>4, <1>5

\* g was inserted as often as removed, and once more if it is in force.
GerBalance(b, g) ==
    /\ g \in GersInForce(b) => Count(Items(b, "insert"), g) = Count(Items(b, "remove"), g) + 1
    /\ g \notin GersInForce(b) => Count(Items(b, "insert"), g) = Count(Items(b, "remove"), g)

LEMMA GersBalanced ==
    ASSUME NEW G, NEW C, NEW b \in Seq(BridgeEvents(G, C)), Admitted(b), NEW g
    PROVE  GerBalance(b, g)
<1> DEFINE E == BridgeEvents(G, C)
           T == {s \in Seq(E) : Admitted(s) => GerBalance(s, g)}
           On == Inserts(E, g)
           Off == Removes(E, g)
<1>1. On \cap Off = {}
    BY DEF Inserts, Removes
<1>2. <<>> \in T
    <2>1. <<>> \in Seq(E)
        OBVIOUS
    <2>2. g \notin GersInForce(<<>>)
        BY <2>1, GersStand, StandsEmpty
    <2>3. Items(<<>>, "insert") = <<>> /\ Items(<<>>, "remove") = <<>>
        BY ItemsEmpty
    <2> QED BY <2>1, <2>2, <2>3 DEF GerBalance
<1>3. ASSUME NEW s \in Seq(E), NEW e \in E, s \in T PROVE Append(s, e) \in T
    <2> DEFINE c == Append(s, e)
    <2>0. c \in Seq(E)
        OBVIOUS
    <2> SUFFICES ASSUME Admitted(c) PROVE GerBalance(c, g)
        BY <2>0
    <2>1. GerBalance(s, g) /\ Admissible(s, e)
        <3> HIDE DEF E
        <3>1. Admitted(s) /\ Admissible(s, e)
            BY AdmittedAppend
        <3> QED BY <1>3, <3>1
    <2>2. /\ e.op \in {"insert", "remove", "claim", "unset", "exit", "other"}
          /\ e.op = "insert" => e.item \in G
          /\ e.op = "remove" => e.item \in G
        BY EventKinds
    <2>3. /\ e.op = "insert" => e.item \notin GersInForce(s)
          /\ e.op = "remove" => e.item \in GersInForce(s)
        BY <2>1, <2>2 DEF Admissible
    <2>4. Items(s, "insert") \in Seq(G) /\ Items(s, "remove") \in Seq(G)
        BY ChainTypes
    <2>5. /\ e \in On => Stands(c, On, Off)
          /\ e \in Off => ~Stands(c, On, Off)
          /\ e \notin On /\ e \notin Off => (Stands(c, On, Off) <=> Stands(s, On, Off))
        <3> HIDE DEF E, On, Off
        <3> QED BY <1>1, StandsAppend
    <2>6. /\ Items(c, "insert") = (IF e.op = "insert" THEN Append(Items(s, "insert"), e.item)
                                   ELSE Items(s, "insert"))
          /\ Items(c, "remove") = (IF e.op = "remove" THEN Append(Items(s, "remove"), e.item)
                                   ELSE Items(s, "remove"))
        <3> HIDE DEF E
        <3> QED BY ItemsAppend
    <2>7. (g \in GersInForce(s) <=> Stands(s, On, Off)) /\ (g \in GersInForce(c) <=> Stands(c, On, Off))
        BY <2>0, GersStand
    <2>8. e \in On <=> e.op = "insert" /\ e.item = g
        BY DEF Inserts
    <2>9. e \in Off <=> e.op = "remove" /\ e.item = g
        BY DEF Removes
    <2> DEFINE ins == Items(s, "insert")
               rem == Items(s, "remove")
    <2>10. Count(ins, g) \in Nat /\ Count(rem, g) \in Nat
        BY <2>4, CountFinite
    <2>11. /\ e.op = "insert" => Count(Append(ins, e.item), g) =
                    IF e.item = g THEN Count(ins, g) + 1 ELSE Count(ins, g)
           /\ e.op = "remove" => Count(Append(rem, e.item), g) =
                    IF e.item = g THEN Count(rem, g) + 1 ELSE Count(rem, g)
        <3> HIDE DEF ins, rem
        <3>1. ins \in Seq(G) /\ rem \in Seq(G)
            BY <2>4 DEF ins, rem
        <3> QED BY <2>2, <3>1, CountAppend
    <2> HIDE DEF E, On, Off, c, ins, rem
    <2>12. /\ g \in GersInForce(s) => Count(ins, g) = Count(rem, g) + 1
           /\ g \notin GersInForce(s) => Count(ins, g) = Count(rem, g)
        BY <2>1 DEF GerBalance, ins, rem
    <2>13. CASE e \in On
        <3>1. g \notin GersInForce(s) /\ g \in GersInForce(c)
            BY <2>3, <2>5, <2>7, <2>8, <2>13
        <3>2. Count(Items(c, "insert"), g) = Count(ins, g) + 1 /\ Items(c, "remove") = rem
            BY <2>6, <2>8, <2>11, <2>13 DEF ins, rem
        <3> QED BY <2>10, <2>12, <3>1, <3>2 DEF GerBalance
    <2>14. CASE e \in Off
        <3>1. g \in GersInForce(s) /\ g \notin GersInForce(c)
            BY <2>3, <2>5, <2>7, <2>9, <2>14
        <3>2. Count(Items(c, "remove"), g) = Count(rem, g) + 1 /\ Items(c, "insert") = ins
            BY <2>6, <2>9, <2>11, <2>14 DEF ins, rem
        <3> QED BY <2>10, <2>12, <3>1, <3>2 DEF GerBalance
    <2>15. CASE e \notin On /\ e \notin Off
        <3>1. g \in GersInForce(s) <=> g \in GersInForce(c)
            BY <2>5, <2>7, <2>15
        <3>2. Count(Items(c, "insert"), g) = Count(ins, g)
            BY <2>6, <2>8, <2>11, <2>15 DEF ins
        <3>3. Count(Items(c, "remove"), g) = Count(rem, g)
            BY <2>6, <2>9, <2>11, <2>15 DEF rem
        <3> QED BY <2>10, <2>12, <3>1, <3>2, <3>3 DEF GerBalance
    <2> QED BY <2>13, <2>14, <2>15
<1> HIDE DEF T, E
<1>4. Seq(E) \subseteq T
    BY <1>2, <1>3, SeqInduct
<1> QED BY <1>4 DEF T, E

-----------------------------------------------------------------------------
(* The same for the claims *)

LEMMA IndicesEmpty == GlobalIndices(<<>>) = <<>>
BY DEF GlobalIndices

LEMMA IndicesType ==
    ASSUME NEW C, NEW s \in Seq(C)
    PROVE  GlobalIndices(s) \in Seq({c.global_index : c \in C}) /\ Len(GlobalIndices(s)) = Len(s)
<1>1. Len(s) \in Nat /\ \A i \in 1..Len(s) : s[i].global_index \in {c.global_index : c \in C}
    OBVIOUS
<1> QED BY <1>1 DEF GlobalIndices

IndicesOfAppend(s, c) == GlobalIndices(Append(s, c)) = Append(GlobalIndices(s), c.global_index)

LEMMA IndicesAppend ==
    ASSUME NEW C, NEW s \in Seq(C), NEW c \in C
    PROVE  IndicesOfAppend(s, c)
<1> DEFINE w == Append(s, c)
           X == {d.global_index : d \in C}
           u == GlobalIndices(s)
<1>1. Len(s) \in Nat /\ w \in Seq(C) /\ Len(w) = Len(s) + 1 /\ w[Len(s) + 1] = c
      /\ \A i \in 1..Len(s) : w[i] = s[i]
    OBVIOUS
<1>2. u \in Seq(X) /\ Len(u) = Len(s) /\ \A i \in 1..Len(s) : u[i] = s[i].global_index
    BY IndicesType DEF GlobalIndices
<1>3. c.global_index \in X
    OBVIOUS
<1> HIDE DEF w
<1> DEFINE k == c.global_index
           v == GlobalIndices(w)
           a == Append(u, k)
<1>4. v \in Seq(X) /\ Len(v) = Len(s) + 1 /\ \A i \in 1..Len(s) + 1 : v[i] = w[i].global_index
    BY <1>1, IndicesType DEF GlobalIndices
<1> HIDE DEF u, v, k, X
<1>5. k \in X
    BY <1>3 DEF k
<1>6. a \in Seq(X) /\ Len(a) = Len(s) + 1 /\ a[Len(s) + 1] = k
      /\ \A i \in 1..Len(s) : a[i] = u[i]
    BY <1>2, <1>5
<1> HIDE DEF a
<1>7. \A i \in 1..Len(s) + 1 : v[i] = a[i]
    <2> SUFFICES ASSUME NEW i \in 1..Len(s) + 1 PROVE v[i] = a[i]
        OBVIOUS
    <2>1. CASE i = Len(s) + 1
        BY <1>1, <1>4, <1>6, <2>1 DEF k
    <2>2. CASE i \in 1..Len(s)
        BY <1>1, <1>2, <1>4, <1>6, <2>2
    <2> QED BY <1>1, <2>1, <2>2
<1>8. v = a
    BY <1>4, <1>6, <1>7
<1> QED BY <1>8 DEF v, a, u, w, k, IndicesOfAppend

\* The indices of the claims of a block.
ClaimedIndices(b) == GlobalIndices(Items(b, "claim"))

\* x was claimed as often as unset, and once more if it is in force.
IndexBalance(b, x) ==
    /\ x \in IndicesInForce(b) => Count(ClaimedIndices(b), x) = Count(Items(b, "unset"), x) + 1
    /\ x \notin IndicesInForce(b) => Count(ClaimedIndices(b), x) = Count(Items(b, "unset"), x)

LEMMA IndicesBalanced ==
    ASSUME NEW G, NEW C, NEW b \in Seq(BridgeEvents(G, C)), Admitted(b), NEW x
    PROVE  IndexBalance(b, x)
<1> DEFINE E == BridgeEvents(G, C)
           T == {s \in Seq(E) : Admitted(s) => IndexBalance(s, x)}
           X == {c.global_index : c \in C}
           On == ClaimsOf(E, x)
           Off == Unsets(E, x)
<1>1. On \cap Off = {}
    BY DEF ClaimsOf, Unsets
<1>2. <<>> \in T
    <2>1. <<>> \in Seq(E)
        OBVIOUS
    <2>2. x \notin IndicesInForce(<<>>)
        BY <2>1, IndicesStand, StandsEmpty
    <2>3. ClaimedIndices(<<>>) = <<>> /\ Items(<<>>, "unset") = <<>>
        BY ItemsEmpty, IndicesEmpty DEF ClaimedIndices
    <2> QED BY <2>1, <2>2, <2>3 DEF IndexBalance
<1>3. ASSUME NEW s \in Seq(E), NEW e \in E, s \in T PROVE Append(s, e) \in T
    <2> DEFINE c == Append(s, e)
    <2>0. c \in Seq(E)
        OBVIOUS
    <2> SUFFICES ASSUME Admitted(c) PROVE IndexBalance(c, x)
        BY <2>0
    <2>1. IndexBalance(s, x) /\ Admissible(s, e)
        <3> HIDE DEF E
        <3>1. Admitted(s) /\ Admissible(s, e)
            BY AdmittedAppend
        <3> QED BY <1>3, <3>1
    <2>2. /\ e.op \in {"insert", "remove", "claim", "unset", "exit", "other"}
          /\ e.op = "claim" => e.item \in C /\ e.item.global_index \in X
          /\ e.op = "unset" => e.item \in X
        BY EventKinds
    <2>3. /\ e.op = "claim" => e.item.global_index \notin IndicesInForce(s)
          /\ e.op = "unset" => e.item \in IndicesInForce(s)
        BY <2>1, <2>2 DEF Admissible
    <2>4. /\ Items(s, "claim") \in Seq(C) /\ ClaimedIndices(s) \in Seq(X)
          /\ Items(s, "unset") \in Seq(X)
        BY ChainTypes, IndicesType DEF ClaimedIndices
    <2>5. /\ e \in On => Stands(c, On, Off)
          /\ e \in Off => ~Stands(c, On, Off)
          /\ e \notin On /\ e \notin Off => (Stands(c, On, Off) <=> Stands(s, On, Off))
        <3> HIDE DEF E, On, Off
        <3> QED BY <1>1, StandsAppend
    <2>6. /\ ClaimedIndices(c) = (IF e.op = "claim"
                                   THEN Append(ClaimedIndices(s), e.item.global_index)
                                   ELSE ClaimedIndices(s))
          /\ Items(c, "unset") = (IF e.op = "unset" THEN Append(Items(s, "unset"), e.item)
                                   ELSE Items(s, "unset"))
        <3> HIDE DEF E, X
        <3>1. /\ Items(c, "claim") = (IF e.op = "claim" THEN Append(Items(s, "claim"), e.item)
                                      ELSE Items(s, "claim"))
              /\ Items(c, "unset") = (IF e.op = "unset" THEN Append(Items(s, "unset"), e.item)
                                      ELSE Items(s, "unset"))
            BY ItemsAppend
        <3>2. e.op = "claim" => GlobalIndices(Append(Items(s, "claim"), e.item)) =
                                    Append(GlobalIndices(Items(s, "claim")), e.item.global_index)
            <4> DEFINE cs == Items(s, "claim")
            <4>1. cs \in Seq(C)
                BY <2>4
            <4> HIDE DEF cs
            <4>2. e.op = "claim" => IndicesOfAppend(cs, e.item)
                BY <2>2, <4>1, IndicesAppend
            <4> QED BY <4>2, Zenon DEF IndicesOfAppend, cs
        <3> QED BY <3>1, <3>2, Zenon DEF ClaimedIndices
    <2>7. (x \in IndicesInForce(s) <=> Stands(s, On, Off)) /\ (x \in IndicesInForce(c) <=> Stands(c, On, Off))
        BY <2>0, IndicesStand
    <2>8. e \in On <=> e.op = "claim" /\ e.item.global_index = x
        BY DEF ClaimsOf
    <2>9. e \in Off <=> e.op = "unset" /\ e.item = x
        BY DEF Unsets
    <2> DEFINE ins == ClaimedIndices(s)
               rem == Items(s, "unset")
    <2>10. Count(ins, x) \in Nat /\ Count(rem, x) \in Nat
        BY <2>4, CountFinite
    <2>11. /\ e.op = "claim" => Count(Append(ins, e.item.global_index), x) =
                    IF e.item.global_index = x THEN Count(ins, x) + 1 ELSE Count(ins, x)
           /\ e.op = "unset" => Count(Append(rem, e.item), x) =
                    IF e.item = x THEN Count(rem, x) + 1 ELSE Count(rem, x)
        <3> HIDE DEF ins, rem, X
        <3>1. ins \in Seq(X) /\ rem \in Seq(X)
            BY <2>4 DEF ins, rem
        <3> QED BY <2>2, <3>1, CountAppend
    <2> HIDE DEF E, X, On, Off, c, ins, rem
    <2>12. /\ x \in IndicesInForce(s) => Count(ins, x) = Count(rem, x) + 1
           /\ x \notin IndicesInForce(s) => Count(ins, x) = Count(rem, x)
        BY <2>1 DEF IndexBalance, ins, rem
    <2>13. CASE e \in On
        <3>1. x \notin IndicesInForce(s) /\ x \in IndicesInForce(c)
            BY <2>3, <2>5, <2>7, <2>8, <2>13
        <3>2. Count(ClaimedIndices(c), x) = Count(ins, x) + 1 /\ Items(c, "unset") = rem
            BY <2>6, <2>8, <2>11, <2>13 DEF ins, rem
        <3> QED BY <2>10, <2>12, <3>1, <3>2 DEF IndexBalance
    <2>14. CASE e \in Off
        <3>1. x \in IndicesInForce(s) /\ x \notin IndicesInForce(c)
            BY <2>3, <2>5, <2>7, <2>9, <2>14
        <3>2. Count(Items(c, "unset"), x) = Count(rem, x) + 1 /\ ClaimedIndices(c) = ins
            BY <2>6, <2>9, <2>11, <2>14 DEF ins, rem
        <3> QED BY <2>10, <2>12, <3>1, <3>2 DEF IndexBalance
    <2>15. CASE e \notin On /\ e \notin Off
        <3>1. x \in IndicesInForce(s) <=> x \in IndicesInForce(c)
            BY <2>5, <2>7, <2>15
        <3>2. Count(ClaimedIndices(c), x) = Count(ins, x)
            BY <2>6, <2>8, <2>11, <2>15 DEF ins
        <3>3. Count(Items(c, "unset"), x) = Count(rem, x)
            BY <2>6, <2>9, <2>11, <2>15 DEF rem
        <3> QED BY <2>10, <2>12, <3>1, <3>2, <3>3 DEF IndexBalance
    <2> QED BY <2>13, <2>14, <2>15
<1> HIDE DEF T, E
<1>4. Seq(E) \subseteq T
    BY <1>2, <1>3, SeqInduct
<1> QED BY <1>4 DEF T, E

-----------------------------------------------------------------------------
(* The lists of a range *)

\* What a range does to k: set and undone are how often it is set and undone in the
\* range, before and after what is in force at its ends.
Net(k, set, undone, before, after) ==
    /\ set \in Nat /\ undone \in Nat
    /\ k \in after /\ k \notin before => set = undone + 1
    /\ k \in before /\ k \notin after => undone = set + 1
    /\ (k \in before <=> k \in after) => set = undone

LEMMA NetOf ==
    ASSUME NEW k, NEW before, NEW after,
           NEW setBefore \in Nat, NEW undoneBefore \in Nat, NEW set \in Nat, NEW undone \in Nat,
           k \in before => setBefore = undoneBefore + 1,
           k \notin before => setBefore = undoneBefore,
           k \in after => setBefore + set = (undoneBefore + undone) + 1,
           k \notin after => setBefore + set = undoneBefore + undone
    PROVE  Net(k, set, undone, before, after)
BY DEF Net

LEMMA GersOfRange ==
    ASSUME NEW G, NEW C, NEW p \in Seq(BridgeEvents(G, C)), NEW r \in Seq(BridgeEvents(G, C)),
           NEW b \in Seq(BridgeEvents(G, C)), Joins(b, p, r), Admitted(p), Admitted(b), NEW g
    PROVE  Net(g, Count(Items(r, "insert"), g), Count(Items(r, "remove"), g),
               GersInForce(p), GersInForce(b))
<1> DEFINE E == BridgeEvents(G, C)
<1>1. GerBalance(p, g) /\ GerBalance(b, g)
    BY GersBalanced
<1>2. /\ Items(p, "insert") \in Seq(G) /\ Items(p, "remove") \in Seq(G)
      /\ Items(r, "insert") \in Seq(G) /\ Items(r, "remove") \in Seq(G)
    BY ChainTypes
<1>3. \A e \in E : (e.op = "insert" => e.item \in G) /\ (e.op = "remove" => e.item \in G)
    BY EventKinds
<1>4. /\ Items(b, "insert") = Items(p, "insert") \o Items(r, "insert")
      /\ Items(b, "remove") = Items(p, "remove") \o Items(r, "remove")
    <2> HIDE DEF E
    <2>1. p \in Seq(E) /\ r \in Seq(E)
        BY DEF E
    <2>2. ItemsJoin(p, r, "insert") /\ ItemsJoin(p, r, "remove")
        BY <1>3, <2>1, ItemsConcat
    <2> QED BY <2>2, Zenon DEF ItemsJoin, Joins
<1> DEFINE pi == Items(p, "insert")
           pr == Items(p, "remove")
           ri == Items(r, "insert")
           rr == Items(r, "remove")
<1> HIDE DEF pi, pr, ri, rr
<1>5. pi \in Seq(G) /\ pr \in Seq(G) /\ ri \in Seq(G) /\ rr \in Seq(G)
    BY <1>2 DEF pi, pr, ri, rr
<1>6. Count(pi \o ri, g) = Count(pi, g) + Count(ri, g) /\ Count(pr \o rr, g) = Count(pr, g) + Count(rr, g)
    BY <1>5, CountConcat
<1>7. Count(pi, g) \in Nat /\ Count(pr, g) \in Nat /\ Count(ri, g) \in Nat /\ Count(rr, g) \in Nat
    BY <1>5, CountFinite
<1>8. /\ g \in GersInForce(p) => Count(pi, g) = Count(pr, g) + 1
      /\ g \notin GersInForce(p) => Count(pi, g) = Count(pr, g)
    BY <1>1 DEF GerBalance, pi, pr
<1>9. /\ g \in GersInForce(b) => Count(pi \o ri, g) = Count(pr \o rr, g) + 1
      /\ g \notin GersInForce(b) => Count(pi \o ri, g) = Count(pr \o rr, g)
    BY <1>1, <1>4, Zenon DEF GerBalance, pi, pr, ri, rr
<1>10. /\ g \in GersInForce(b) => Count(pi, g) + Count(ri, g) = (Count(pr, g) + Count(rr, g)) + 1
       /\ g \notin GersInForce(b) => Count(pi, g) + Count(ri, g) = Count(pr, g) + Count(rr, g)
    BY <1>6, <1>9, Zenon
<1>11. Net(g, Count(ri, g), Count(rr, g), GersInForce(p), GersInForce(b))
    BY <1>7, <1>8, <1>10, NetOf, Zenon
<1> QED BY <1>11 DEF ri, rr

IndicesOfConcat(s, t) == GlobalIndices(s \o t) = GlobalIndices(s) \o GlobalIndices(t)

LEMMA IndicesConcat ==
    ASSUME NEW C, NEW s \in Seq(C), NEW t \in Seq(C)
    PROVE  IndicesOfConcat(s, t)
<1> DEFINE w == s \o t
           X == {d.global_index : d \in C}
           u == GlobalIndices(s)
           v == GlobalIndices(t)
<1>1. /\ Len(s) \in Nat /\ Len(t) \in Nat /\ w \in Seq(C) /\ Len(w) = Len(s) + Len(t)
      /\ \A i \in 1..Len(w) : w[i] = IF i <= Len(s) THEN s[i] ELSE t[i - Len(s)]
    OBVIOUS
<1>2. u \in Seq(X) /\ Len(u) = Len(s) /\ \A i \in 1..Len(s) : u[i] = s[i].global_index
    BY IndicesType DEF GlobalIndices
<1>3. v \in Seq(X) /\ Len(v) = Len(t) /\ \A i \in 1..Len(t) : v[i] = t[i].global_index
    BY IndicesType DEF GlobalIndices
<1> HIDE DEF w, u, v
<1> DEFINE y == GlobalIndices(w)
           z == u \o v
<1>4. y \in Seq(X) /\ Len(y) = Len(w) /\ \A i \in 1..Len(w) : y[i] = w[i].global_index
    BY <1>1, IndicesType DEF GlobalIndices
<1> HIDE DEF X, y
<1>5. /\ z \in Seq(X) /\ Len(z) = Len(u) + Len(v)
      /\ \A i \in 1..Len(z) : z[i] = IF i <= Len(u) THEN u[i] ELSE v[i - Len(u)]
    <2>1. u \in Seq(X) /\ v \in Seq(X)
        BY <1>2, <1>3
    <2> QED BY <2>1
<1> HIDE DEF z
<1>6. \A i \in 1..Len(w) : y[i] = z[i]
    <2> SUFFICES ASSUME NEW i \in 1..Len(w) PROVE y[i] = z[i]
        OBVIOUS
    <2>1. CASE i <= Len(s)
        <3>1. i \in 1..Len(s) /\ i \in 1..Len(z)
            BY <1>1, <1>2, <1>3, <1>5, <2>1
        <3>2. w[i] = s[i] /\ y[i] = w[i].global_index /\ u[i] = s[i].global_index
            BY <1>1, <1>2, <1>4, <2>1, <3>1
        <3>3. z[i] = u[i]
            BY <1>2, <1>5, <2>1, <3>1
        <3> QED BY <3>2, <3>3
    <2>2. CASE ~(i <= Len(s))
        <3> DEFINE j == i - Len(s)
        <3>1. j \in 1..Len(t) /\ i \in 1..Len(z)
            BY <1>1, <1>2, <1>3, <1>5, <2>2
        <3>2. w[i] = t[j] /\ y[i] = w[i].global_index
            BY <1>1, <1>4, <2>2, <3>1
        <3>3. v[j] = t[j].global_index
            BY <1>3, <3>1
        <3>4. z[i] = v[j]
            BY <1>2, <1>5, <2>2, <3>1
        <3> QED BY <3>2, <3>3, <3>4
    <2> QED BY <2>1, <2>2
<1>7. y = z
    BY <1>1, <1>2, <1>3, <1>4, <1>5, <1>6
<1> QED BY <1>7 DEF y, z, u, v, w, IndicesOfConcat

LEMMA IndicesOfRange ==
    ASSUME NEW G, NEW C, NEW p \in Seq(BridgeEvents(G, C)), NEW r \in Seq(BridgeEvents(G, C)),
           NEW b \in Seq(BridgeEvents(G, C)), Joins(b, p, r), Admitted(p), Admitted(b), NEW x
    PROVE  Net(x, Count(ClaimedIndices(r), x), Count(Items(r, "unset"), x),
               IndicesInForce(p), IndicesInForce(b))
<1> DEFINE E == BridgeEvents(G, C)
           X == {c.global_index : c \in C}
<1>1. IndexBalance(p, x) /\ IndexBalance(b, x)
    BY IndicesBalanced
<1>2. /\ Items(p, "claim") \in Seq(C) /\ Items(p, "unset") \in Seq(X)
      /\ Items(r, "claim") \in Seq(C) /\ Items(r, "unset") \in Seq(X)
    BY ChainTypes
<1>3. \A e \in E : (e.op = "claim" => e.item \in C) /\ (e.op = "unset" => e.item \in X)
    BY EventKinds
<1>4. /\ Items(b, "claim") = Items(p, "claim") \o Items(r, "claim")
      /\ Items(b, "unset") = Items(p, "unset") \o Items(r, "unset")
    <2> HIDE DEF E, X
    <2>1. p \in Seq(E) /\ r \in Seq(E)
        BY DEF E
    <2>2. ItemsJoin(p, r, "claim") /\ ItemsJoin(p, r, "unset")
        BY <1>3, <2>1, ItemsConcat
    <2> QED BY <2>2, Zenon DEF ItemsJoin, Joins
<1>4a. ClaimedIndices(b) = ClaimedIndices(p) \o ClaimedIndices(r)
    <2> DEFINE cp == Items(p, "claim")
               cr == Items(r, "claim")
    <2>1. cp \in Seq(C) /\ cr \in Seq(C)
        BY <1>2
    <2> HIDE DEF cp, cr
    <2>2. IndicesOfConcat(cp, cr)
        BY <2>1, IndicesConcat
    <2>3. Items(b, "claim") = cp \o cr
        BY <1>4 DEF cp, cr
    <2> QED BY <2>2, <2>3, Zenon DEF IndicesOfConcat, ClaimedIndices, cp, cr
<1>4b. ClaimedIndices(p) \in Seq(X) /\ ClaimedIndices(r) \in Seq(X)
    BY <1>2, IndicesType DEF ClaimedIndices
<1> DEFINE pi == ClaimedIndices(p)
           pr == Items(p, "unset")
           ri == ClaimedIndices(r)
           rr == Items(r, "unset")
<1> HIDE DEF X, pi, pr, ri, rr
<1>5. pi \in Seq(X) /\ pr \in Seq(X) /\ ri \in Seq(X) /\ rr \in Seq(X)
    BY <1>2, <1>4b DEF pi, pr, ri, rr
<1>6. Count(pi \o ri, x) = Count(pi, x) + Count(ri, x) /\ Count(pr \o rr, x) = Count(pr, x) + Count(rr, x)
    BY <1>5, CountConcat
<1>7. Count(pi, x) \in Nat /\ Count(pr, x) \in Nat /\ Count(ri, x) \in Nat /\ Count(rr, x) \in Nat
    BY <1>5, CountFinite
<1>8. /\ x \in IndicesInForce(p) => Count(pi, x) = Count(pr, x) + 1
      /\ x \notin IndicesInForce(p) => Count(pi, x) = Count(pr, x)
    BY <1>1 DEF IndexBalance, pi, pr
<1>9. /\ x \in IndicesInForce(b) => Count(pi \o ri, x) = Count(pr \o rr, x) + 1
      /\ x \notin IndicesInForce(b) => Count(pi \o ri, x) = Count(pr \o rr, x)
    BY <1>1, <1>4, <1>4a, Zenon DEF IndexBalance, pi, pr, ri, rr
<1>10. /\ x \in IndicesInForce(b) => Count(pi, x) + Count(ri, x) = (Count(pr, x) + Count(rr, x)) + 1
       /\ x \notin IndicesInForce(b) => Count(pi, x) + Count(ri, x) = Count(pr, x) + Count(rr, x)
    BY <1>6, <1>9, Zenon
<1>11. Net(x, Count(ri, x), Count(rr, x), IndicesInForce(p), IndicesInForce(b))
    BY <1>7, <1>8, <1>10, NetOf, Zenon
<1> QED BY <1>11 DEF ri, rr

\* A list that extends the chain of the block p to that of the block b.
Extends(p, list, b, op) == Items(p, op) \o list = Items(b, op)

\* The only list that does is what the range between the blocks appends.
LEMMA ExtendsRange ==
    ASSUME NEW E, NEW T, NEW op, \A e \in E : e.op = op => e.item \in T,
           NEW p \in Seq(E), NEW r \in Seq(E), NEW b, Joins(b, p, r), NEW list \in Seq(T)
    PROVE  Extends(p, list, b, op) <=> list = Items(r, op)
<1> DEFINE front == Items(p, op)
           back == Items(r, op)
<1>1. front \in Seq(T) /\ back \in Seq(T)
    BY ItemsType
<1>2. Items(b, op) = front \o back
    <2>1. ItemsJoin(p, r, op)
        BY ItemsConcat
    <2> QED BY <2>1, Zenon DEF ItemsJoin, Joins
<1> HIDE DEF front, back
<1>3. ASSUME front \o list = front \o back PROVE list = back
    BY <1>1, <1>3, ConcatCancel, Zenon
<1>4. Extends(p, list, b, op) <=> front \o list = front \o back
    BY <1>2, Zenon DEF Extends, front
<1>5. Extends(p, list, b, op) <=> list = back
    BY <1>3, <1>4, Zenon
<1> QED BY <1>5 DEF back

\* What filter_values keeps of the lists of the range r.
InsertedOf(r) == filter_values(Items(r, "remove"), Items(r, "insert"), Items(r, "insert"))
CommitOf(r) == filter_values(Items(r, "unset"), Items(r, "claim"), ClaimedIndices(r))

\* What verify accepts, of the chains.
LEMMA VerifyMeans ==
    ASSUME NEW input, verify(input)
    PROVE  LET w == input.bridge_witness
               p == input.prev_l2_block_hash
               b == input.new_l2_block_hash
           IN  /\ Extends(p, w.raw_inserted_gers, b, "insert")
               /\ Extends(p, w.removed_gers, b, "remove")
               /\ Extends(p, w.bridge_exits_claimed, b, "claim")
               /\ Extends(p, w.global_indices_unset, b, "unset")
               /\ filter_values(w.removed_gers, w.raw_inserted_gers, w.raw_inserted_gers)
                    = w.inserted_gers
               /\ \A i \in 1..Len(w.inserted_gers) : w.inserted_gers[i] \in input.l1_info_root
               /\ filter_values(w.global_indices_unset, w.bridge_exits_claimed,
                                GlobalIndices(w.bridge_exits_claimed))
                    = input.commit_imported_bridge_exits
               /\ input.new_local_exit_root = getRoot(b)
<1> DEFINE w == input.bridge_witness
           p == input.prev_l2_block_hash
           b == input.new_l2_block_hash
<1>1. /\ verify_ger_hash_chains(input) /\ verify_claims_hash_chains(input)
      /\ verify_new_ler(input) /\ verify_constrained_global_indices(input)
      /\ verify_inserted_gers(input)
    BY Zenon DEF verify
<1>2. w.prev_l2_block_sketch.block = p /\ w.new_l2_block_sketch.block = b
    <2>1. fetch_hash_chains(input, "insertedGERHashChain")
        BY <1>1, Zenon DEF verify_ger_hash_chains, GerCalls
    <2> QED BY <2>1, Zenon DEF fetch_hash_chains, execute
<1>3. /\ Extends(p, w.raw_inserted_gers, b, "insert")
      /\ Extends(p, w.removed_gers, b, "remove")
    BY <1>1, <1>2, Zenon DEF verify_ger_hash_chains, validate_hash_chain, Extends,
            insertedGERHashChain, removedGERHashChain
<1>4. /\ Extends(p, w.bridge_exits_claimed, b, "claim")
      /\ Extends(p, w.global_indices_unset, b, "unset")
    BY <1>1, <1>2, Zenon DEF verify_claims_hash_chains, validate_hash_chain, Extends,
            claimedGlobalIndexHashChain, unsetGlobalIndexHashChain
<1>5. /\ filter_values(w.removed_gers, w.raw_inserted_gers, w.raw_inserted_gers)
            = w.inserted_gers
      /\ \A i \in 1..Len(w.inserted_gers) : w.inserted_gers[i] \in input.l1_info_root
    BY <1>1, Zenon DEF verify_inserted_gers, inserted_ger_verify
<1>6. filter_values(w.global_indices_unset, w.bridge_exits_claimed,
                    GlobalIndices(w.bridge_exits_claimed))
        = input.commit_imported_bridge_exits
    BY <1>1, Zenon DEF verify_constrained_global_indices
<1>7. input.new_local_exit_root = getRoot(b)
    BY <1>1, <1>2, Zenon DEF verify_new_ler
<1> QED BY <1>3, <1>4, <1>5, <1>6, <1>7, Zenon

\* The GERs kept of a range are in force at its end, and with those in force at its
\* start they are all of them.
InsertedCovers(p, r, b) ==
    /\ \A m \in 1..Len(InsertedOf(r)) : InsertedOf(r)[m] \in GersInForce(b)
    /\ \A g \in GersInForce(b) : g \notin GersInForce(p) =>
          \E m \in 1..Len(InsertedOf(r)) : InsertedOf(r)[m] = g

LEMMA InsertedInForce ==
    ASSUME NEW G, NEW C, NEW p \in Seq(BridgeEvents(G, C)), NEW r \in Seq(BridgeEvents(G, C)),
           NEW b \in Seq(BridgeEvents(G, C)), Joins(b, p, r), Admitted(p), Admitted(b)
    PROVE  InsertedOf(r) \in Seq(G) /\ InsertedCovers(p, r, b)
<1> DEFINE raw == Items(r, "insert")
           removed == Items(r, "remove")
           out == InsertedOf(r)
<1>1. raw \in Seq(G) /\ removed \in Seq(G)
    BY ChainTypes
<1>2. \A g : Net(g, Count(raw, g), Count(removed, g), GersInForce(p), GersInForce(b))
    BY GersOfRange
<1>3. out = filter_values(removed, raw, raw)
    BY DEF InsertedOf
<1> HIDE DEF raw, removed, out
<1> DEFINE kept == filter_values(removed, raw, raw)
<1>4. kept \in Seq(G) /\ KeepsSurplus(kept, removed, raw, raw)
    BY <1>1, FilterMembers
<1>5. kept = out
    BY <1>3
<1> HIDE DEF kept
<1>6. ASSUME NEW g PROVE Count(raw, g) > Count(removed, g) <=>
                            g \in GersInForce(b) /\ g \notin GersInForce(p)
    <2>1. Net(g, Count(raw, g), Count(removed, g), GersInForce(p), GersInForce(b))
        BY <1>2
    <2> QED BY <2>1 DEF Net
<1>7. \A m \in 1..Len(out) : out[m] \in GersInForce(b)
    BY <1>4, <1>5, <1>6 DEF KeepsSurplus
<1>8. \A g \in GersInForce(b) : g \notin GersInForce(p) => \E m \in 1..Len(out) : out[m] = g
    <2> SUFFICES ASSUME NEW g \in GersInForce(b), g \notin GersInForce(p)
                 PROVE  \E m \in 1..Len(out) : out[m] = g
        OBVIOUS
    <2>1. Count(raw, g) > Count(removed, g)
        BY <1>6
    <2>2. \E m \in 1..Len(kept), j \in 1..Len(raw) : raw[j] = g /\ kept[m] = raw[j]
        BY <1>4, <2>1, Zenon DEF KeepsSurplus
    <2> QED BY <1>5, <2>2, Zenon
<1> QED BY <1>4, <1>5, <1>7, <1>8 DEF out, InsertedCovers

\* The indices of the claims kept of a range are in force at its end, and with those
\* in force at its start they are all of them.
CommitCovers(p, r, b) ==
    /\ \A m \in 1..Len(CommitOf(r)) : CommitOf(r)[m].global_index \in IndicesInForce(b)
    /\ \A x \in IndicesInForce(b) : x \notin IndicesInForce(p) =>
          \E m \in 1..Len(CommitOf(r)) : CommitOf(r)[m].global_index = x

LEMMA CommitInForce ==
    ASSUME NEW G, NEW C, NEW p \in Seq(BridgeEvents(G, C)), NEW r \in Seq(BridgeEvents(G, C)),
           NEW b \in Seq(BridgeEvents(G, C)), Joins(b, p, r), Admitted(p), Admitted(b)
    PROVE  CommitOf(r) \in Seq(C) /\ CommitCovers(p, r, b)
<1> DEFINE X == {c.global_index : c \in C}
           claimed == Items(r, "claim")
           unset == Items(r, "unset")
           ks == ClaimedIndices(r)
           out == CommitOf(r)
<1>1. claimed \in Seq(C) /\ unset \in Seq(X)
    BY ChainTypes
<1>2. ks \in Seq(X) /\ Len(ks) = Len(claimed)
      /\ \A j \in 1..Len(claimed) : ks[j] = claimed[j].global_index
    BY <1>1, IndicesType DEF ClaimedIndices, GlobalIndices
<1>3. \A x : Net(x, Count(ks, x), Count(unset, x), IndicesInForce(p), IndicesInForce(b))
    BY IndicesOfRange
<1>4. out = filter_values(unset, claimed, ks)
    BY DEF CommitOf
<1> HIDE DEF X, claimed, unset, ks, out
<1> DEFINE kept == filter_values(unset, claimed, ks)
<1>5. kept \in Seq(C) /\ KeepsSurplus(kept, unset, claimed, ks)
    BY <1>1, <1>2, FilterMembers
<1>6. kept = out
    BY <1>4
<1> HIDE DEF kept
<1>7. ASSUME NEW x PROVE Count(ks, x) > Count(unset, x) <=>
                            x \in IndicesInForce(b) /\ x \notin IndicesInForce(p)
    <2>1. Net(x, Count(ks, x), Count(unset, x), IndicesInForce(p), IndicesInForce(b))
        BY <1>3
    <2> QED BY <2>1 DEF Net
<1>8. ASSUME NEW m \in 1..Len(out) PROVE out[m].global_index \in IndicesInForce(b)
    <2>1. PICK j \in 1..Len(claimed) : out[m] = claimed[j] /\ Count(ks, ks[j]) > Count(unset, ks[j])
        BY <1>5, <1>6 DEF KeepsSurplus
    <2> QED BY <1>2, <1>7, <2>1
<1>9. ASSUME NEW x \in IndicesInForce(b), x \notin IndicesInForce(p)
      PROVE  \E m \in 1..Len(out) : out[m].global_index = x
    <2>1. PICK m \in 1..Len(out), j \in 1..Len(claimed) : ks[j] = x /\ out[m] = claimed[j]
        BY <1>5, <1>6, <1>7, <1>9 DEF KeepsSurplus
    <2> QED BY <1>2, <2>1
<1> QED BY <1>5, <1>6, <1>8, <1>9 DEF out, CommitCovers

-----------------------------------------------------------------------------
(* The order of the claims kept *)

LEMMA RangeStep ==
    ASSUME NEW E, NEW b \in Seq(E), NEW m \in Nat, NEW n \in Nat, m <= n, n < Len(b)
    PROVE  /\ SubSeq(b, m + 1, n) \in Seq(E) /\ b[n + 1] \in E
           /\ SubSeq(b, m + 1, n + 1) = Append(SubSeq(b, m + 1, n), b[n + 1])
<1> DEFINE r == SubSeq(b, m + 1, n)
           w == SubSeq(b, m + 1, n + 1)
<1>1. Len(b) \in Nat /\ n + 1 \in 1..Len(b) /\ b[n + 1] \in E
    OBVIOUS
<1>2. r \in Seq(E) /\ Len(r) = n - m /\ \A i \in 1..n - m : r[i] = b[m + i]
    BY <1>1
<1>3. w \in Seq(E) /\ Len(w) = (n - m) + 1 /\ \A i \in 1..(n - m) + 1 : w[i] = b[m + i]
    BY <1>1
<1> HIDE DEF r, w
<1> DEFINE a == Append(r, b[n + 1])
<1>4. a \in Seq(E) /\ Len(a) = (n - m) + 1 /\ a[(n - m) + 1] = b[n + 1]
      /\ \A i \in 1..n - m : a[i] = r[i]
    BY <1>1, <1>2
<1> HIDE DEF a
<1>5. \A i \in 1..(n - m) + 1 : w[i] = a[i]
    <2> SUFFICES ASSUME NEW i \in 1..(n - m) + 1 PROVE w[i] = a[i]
        OBVIOUS
    <2>1. CASE i = (n - m) + 1
        <3>1. m + i = n + 1
            BY <2>1
        <3> QED BY <1>3, <1>4, <2>1, <3>1
    <2>2. CASE i \in 1..n - m
        BY <1>2, <1>3, <1>4, <2>2
    <2> QED BY <2>1, <2>2
<1>6. w = a
    BY <1>3, <1>4, <1>5
<1> QED BY <1>1, <1>2, <1>6 DEF r, w, a

\* An item is on the chain when some event put it there.
Occurs(block, op, k) == \E j \in 1..Len(block) : block[j].op = op /\ block[j].item = k

LEMMA ItemsOccur ==
    ASSUME NEW E, NEW T, NEW op, \A e \in E : e.op = op => e.item \in T,
           NEW block \in Seq(E), NEW k
    PROVE  /\ Count(Items(block, op), k) \in Nat
           /\ Count(Items(block, op), k) > 0 <=> Occurs(block, op, k)
<1> DEFINE Has(s) == \E j \in 1..Len(s) : s[j].op = op /\ s[j].item = k
           D == {s \in Seq(E) : Count(Items(s, op), k) > 0 <=> Has(s)}
<1>0. ASSUME NEW s \in Seq(E) PROVE Items(s, op) \in Seq(T) /\ Count(Items(s, op), k) \in Nat
    <2>1. Items(s, op) \in Seq(T)
        BY ItemsType
    <2> QED BY <2>1, CountFinite
<1>1. <<>> \in D
    <2>1. <<>> \in Seq(E) /\ ~Has(<<>>)
        OBVIOUS
    <2>2. Count(Items(<<>>, op), k) = 0
        BY ItemsEmpty, CountEmpty
    <2> HIDE DEF Has
    <2> QED BY <2>1, <2>2
<1>2. ASSUME NEW s \in Seq(E), NEW e \in E, s \in D PROVE Append(s, e) \in D
    <2> DEFINE w == Append(s, e)
               old == Items(s, op)
    <2>1. /\ w \in Seq(E) /\ Len(s) \in Nat /\ Len(w) = Len(s) + 1 /\ w[Len(s) + 1] = e
          /\ \A i \in 1..Len(s) : w[i] = s[i]
        OBVIOUS
    <2>2. Has(w) <=> Has(s) \/ (e.op = op /\ e.item = k)
        <3> HIDE DEF w
        <3>1. \A i \in 1..Len(w) : i \in 1..Len(s) \/ i = Len(s) + 1
            BY <2>1
        <3>2. 1..Len(s) \subseteq 1..Len(w) /\ Len(s) + 1 \in 1..Len(w)
            BY <2>1
        <3> QED BY <2>1, <3>1, <3>2
    <2>3. Items(w, op) = IF e.op = op THEN Append(old, e.item) ELSE old
        BY ItemsAppend
    <2>4. old \in Seq(T) /\ Count(old, k) \in Nat /\ (Count(old, k) > 0 <=> Has(s))
        BY <1>0, <1>2
    <2> HIDE DEF w, old, Has
    <2>5. e.op = op => Count(Append(old, e.item), k) =
                            IF e.item = k THEN Count(old, k) + 1 ELSE Count(old, k)
        BY <2>4, CountAppend
    <2>6. Count(Items(w, op), k) > 0 <=> Has(w)
        BY <2>2, <2>3, <2>4, <2>5
    <2> QED BY <2>1, <2>6 DEF w
<1> HIDE DEF D
<1>3. Seq(E) \subseteq D
    BY <1>1, <1>2, SeqInduct
<1> QED BY <1>0, <1>3 DEF D, Occurs

\* The unsets of x in a block are those of an earlier block and of the range between.
Unsplit(p, r, b, x) ==
    /\ Count(Items(p, "unset"), x) \in Nat /\ Count(Items(r, "unset"), x) \in Nat
    /\ Count(Items(b, "unset"), x) = Count(Items(p, "unset"), x) + Count(Items(r, "unset"), x)

LEMMA UnsetsAdd ==
    ASSUME NEW G, NEW C, NEW p \in Seq(BridgeEvents(G, C)), NEW r \in Seq(BridgeEvents(G, C)),
           NEW b, Joins(b, p, r), NEW x
    PROVE  Unsplit(p, r, b, x)
<1> DEFINE E == BridgeEvents(G, C)
           X == {c.global_index : c \in C}
           front == Items(p, "unset")
           back == Items(r, "unset")
<1>1. front \in Seq(X) /\ back \in Seq(X)
    BY ChainTypes
<1>2. \A e \in E : e.op = "unset" => e.item \in X
    BY EventKinds
<1>3. Items(b, "unset") = front \o back
    <2> HIDE DEF E, X
    <2>1. p \in Seq(E) /\ r \in Seq(E)
        BY DEF E
    <2>2. ItemsJoin(p, r, "unset")
        BY <1>2, <2>1, ItemsConcat
    <2> QED BY <2>2, Zenon DEF ItemsJoin, Joins
<1> HIDE DEF X, front, back
<1>4. Count(front \o back, x) = Count(front, x) + Count(back, x)
    BY <1>1, CountConcat
<1>5. Count(front, x) \in Nat /\ Count(back, x) \in Nat
    BY <1>1, CountFinite
<1> QED BY <1>3, <1>4, <1>5, Zenon DEF Unsplit, front, back

\* The blocks of b with a claim that stands, of an index that is not claimed at block m.
Fresh(b, m) ==
    {i \in InForce(b, "claim", UnsetsClaim) :
        b[i].item.global_index \notin IndicesInForce(SubSeq(b, 1, m))}

\* A claim of the range after m has at least as many claims of its index before it
\* in the range as the range has unsets of it exactly when no unset comes after it and
\* its index was not claimed at m: if it was, the first unset of the range is of that
\* claim, and there is always one unset more.
LEMMA StandsByCounting ==
    ASSUME NEW G, NEW C, NEW b \in Seq(BridgeEvents(G, C)), Admitted(b),
           NEW m \in Nat, NEW n \in Nat, m <= n, n < Len(b),
           b[n + 1].op = "claim"
    PROVE  LET x == b[n + 1].item.global_index IN
           /\ Count(ClaimedIndices(SubSeq(b, m + 1, n)), x)
                    < Count(Items(SubSeq(b, m + 1, Len(b)), "unset"), x)
              => n + 1 \notin Fresh(b, m)
           /\ n + 1 \notin Fresh(b, m)
              => Count(ClaimedIndices(SubSeq(b, m + 1, n)), x)
                    < Count(Items(SubSeq(b, m + 1, Len(b)), "unset"), x)
<1> DEFINE E == BridgeEvents(G, C)
           X == {c.global_index : c \in C}
           x == b[n + 1].item.global_index
           p == SubSeq(b, 1, m)
           q == SubSeq(b, 1, n)
           r == SubSeq(b, m + 1, n)
           whole == SubSeq(b, m + 1, Len(b))
           tail == SubSeq(b, n + 1, Len(b))
<1>0. /\ Len(b) \in Nat /\ m \in 0..Len(b) /\ n \in 0..Len(b) /\ n \in m..Len(b)
      /\ Len(b) \in m..Len(b) /\ Len(b) \in n..Len(b) /\ n + 1 \in 1..Len(b)
    OBVIOUS
<1>1. b \in Seq(E) /\ SubSeq(b, 1, Len(b)) = b
    OBVIOUS
<1>2. \A e \in E : e.op = "unset" => e.item \in X
    BY EventKinds
<1>3. p \in Seq(E) /\ q \in Seq(E) /\ r \in Seq(E) /\ Joins(q, p, r)
    <2> HIDE DEF E
    <2> QED BY <1>0, <1>1, RangeConcat
<1>4. /\ whole \in Seq(E) /\ tail \in Seq(E) /\ Joins(b, p, whole) /\ Joins(b, q, tail)
      /\ Len(tail) = Len(b) - n /\ \A i \in 1..Len(b) - n : tail[i] = b[n + i]
    <2> HIDE DEF E
    <2>1. whole \in Seq(E) /\ Joins(SubSeq(b, 1, Len(b)), p, whole)
        BY <1>0, <1>1, RangeConcat
    <2>2. /\ tail \in Seq(E) /\ Joins(SubSeq(b, 1, Len(b)), q, tail)
          /\ Len(tail) = Len(b) - n /\ \A i \in 1..Len(b) - n : tail[i] = b[n + i]
        BY <1>0, <1>1, RangeConcat
    <2> HIDE DEF whole, tail, p, q
    <2> QED BY <1>1, <2>1, <2>2
<1>5. Len(r) = n - m /\ \A i \in 1..n - m : r[i] = b[m + i]
    <2> HIDE DEF E
    <2> QED BY <1>0, <1>1, RangeConcat
<1>6. Admitted(p) /\ Admitted(q)
    <2> HIDE DEF E
    <2> QED BY <1>0, <1>1, AdmittedPrefix
<1>7. x \notin IndicesInForce(q)
    <2>1. Admissible(SubSeq(b, 1, (n + 1) - 1), b[n + 1])
        BY <1>0, Zenon DEF Admitted
    <2>2. (n + 1) - 1 = n
        OBVIOUS
    <2>3. Admissible(q, b[n + 1])
        BY <2>1, <2>2
    <2> QED BY <2>3 DEF Admissible
<1>8. Net(x, Count(ClaimedIndices(r), x), Count(Items(r, "unset"), x),
          IndicesInForce(p), IndicesInForce(q))
    BY <1>3, <1>6, IndicesOfRange
<1>9. Unsplit(p, r, q, x) /\ Unsplit(p, whole, b, x) /\ Unsplit(q, tail, b, x)
    BY <1>1, <1>3, <1>4, UnsetsAdd
<1>10. /\ Count(Items(r, "unset"), x) \in Nat
       /\ Count(Items(r, "unset"), x) > 0 <=> Occurs(r, "unset", x)
    <2> HIDE DEF E, X, x, p, q, r, whole, tail
    <2> QED BY <1>2, <1>3, ItemsOccur
<1>11. /\ Count(Items(tail, "unset"), x) \in Nat
       /\ Count(Items(tail, "unset"), x) > 0 <=> Occurs(tail, "unset", x)
    <2> HIDE DEF E, X, x, p, q, r, whole, tail
    <2> QED BY <1>2, <1>4, ItemsOccur
<1> HIDE DEF E, X, x, p, q, r, whole, tail
<1>13. /\ Count(ClaimedIndices(r), x) \in Nat
       /\ x \notin IndicesInForce(p) => Count(ClaimedIndices(r), x) = Count(Items(r, "unset"), x)
       /\ x \in IndicesInForce(p) => Count(ClaimedIndices(r), x) < Count(Items(r, "unset"), x)
    BY <1>7, <1>8, <1>10 DEF Net
<1>14. Count(Items(whole, "unset"), x) = Count(Items(r, "unset"), x) + Count(Items(tail, "unset"), x)
    <2> DEFINE np == Count(Items(p, "unset"), x)
               nq == Count(Items(q, "unset"), x)
               nr == Count(Items(r, "unset"), x)
               nw == Count(Items(whole, "unset"), x)
               nt == Count(Items(tail, "unset"), x)
               nb == Count(Items(b, "unset"), x)
    <2>1. /\ np \in Nat /\ nr \in Nat /\ nw \in Nat /\ nt \in Nat
          /\ nq = np + nr /\ nb = np + nw /\ nb = nq + nt
        BY <1>9, Zenon DEF Unsplit
    <2> HIDE DEF np, nq, nr, nw, nt, nb
    <2>2. nw = nr + nt
        BY <2>1
    <2> QED BY <2>2 DEF nw, nr, nt
<1>15. Count(Items(tail, "unset"), x) > 0 <=>
            \E j \in n + 1..Len(b) : b[j].op = "unset" /\ b[j].item = x
    <2>1. \A j \in 1..Len(tail) : n + j \in n + 1..Len(b) /\ tail[j] = b[n + j]
        BY <1>0, <1>4
    <2>2. \A j \in n + 1..Len(b) : j - n \in 1..Len(tail) /\ tail[j - n] = b[j]
        <3> SUFFICES ASSUME NEW j \in n + 1..Len(b)
                     PROVE  j - n \in 1..Len(tail) /\ tail[j - n] = b[j]
            OBVIOUS
        <3>1. j - n \in 1..Len(b) - n /\ n + (j - n) = j
            BY <1>0
        <3> QED BY <1>4, <3>1
    <2>3. Occurs(tail, "unset", x) <=>
            \E j \in n + 1..Len(b) : b[j].op = "unset" /\ b[j].item = x
        <3>1. ASSUME Occurs(tail, "unset", x)
              PROVE  \E j \in n + 1..Len(b) : b[j].op = "unset" /\ b[j].item = x
            <4>1. PICK i \in 1..Len(tail) : tail[i].op = "unset" /\ tail[i].item = x
                BY <3>1 DEF Occurs
            <4> QED BY <2>1, <4>1
        <3>2. ASSUME NEW j \in n + 1..Len(b), b[j].op = "unset" /\ b[j].item = x
              PROVE  Occurs(tail, "unset", x)
            BY <2>2, <3>2 DEF Occurs
        <3> QED BY <3>1, <3>2
    <2> QED BY <1>11, <2>3
<1>16. n + 1 \notin InForce(b, "claim", UnsetsClaim) <=>
            \E j \in n + 1..Len(b) : b[j].op = "unset" /\ b[j].item = x
    <2>1. n + 1 \in InForce(b, "claim", UnsetsClaim) <=>
            \A j \in (n + 1) + 1..Len(b) : ~(b[j].op = "unset" /\ b[j].item = x)
        BY <1>0, Zenon DEF InForce, UnsetsClaim, x
    <2>2. \A j \in n + 1..Len(b) : j = n + 1 \/ j \in (n + 1) + 1..Len(b)
        BY <1>0
    <2>3. \A j \in (n + 1) + 1..Len(b) : j \in n + 1..Len(b)
        BY <1>0
    <2>4. b[n + 1].op # "unset"
        OBVIOUS
    <2> QED BY <2>1, <2>2, <2>3, <2>4
<1>17. n + 1 \in Fresh(b, m) <=>
            n + 1 \in InForce(b, "claim", UnsetsClaim) /\ x \notin IndicesInForce(p)
    BY Zenon DEF Fresh, x, p
<1>18. CASE x \notin IndicesInForce(p)
    <2>1. Count(ClaimedIndices(r), x) < Count(Items(whole, "unset"), x) <=>
                Count(Items(tail, "unset"), x) > 0
        BY <1>10, <1>11, <1>13, <1>14, <1>18
    <2>2. Count(ClaimedIndices(r), x) < Count(Items(whole, "unset"), x) <=> n + 1 \notin Fresh(b, m)
        BY <1>15, <1>16, <1>17, <1>18, <2>1, Zenon
    <2> QED BY <2>2, Zenon DEF x, r, whole
<1>19. CASE x \in IndicesInForce(p)
    <2>1. Count(ClaimedIndices(r), x) < Count(Items(whole, "unset"), x)
        BY <1>10, <1>11, <1>13, <1>14, <1>19
    <2> QED BY <1>17, <1>19, <2>1, Zenon DEF x, r, whole
<1> QED BY <1>18, <1>19, Zenon

\* FilterAppend, for a reader that knows which case it is in.
FilterAppends(removed, values, v, keys, k) ==
    /\ Count(keys, k) < Count(removed, k) =>
          filter_values(removed, Append(values, v), Append(keys, k))
            = filter_values(removed, values, keys)
    /\ ~(Count(keys, k) < Count(removed, k)) =>
          filter_values(removed, Append(values, v), Append(keys, k))
            = Append(filter_values(removed, values, keys), v)

LEMMA FilterOneMore ==
    ASSUME NEW R, NEW removed \in Seq(R), NEW V, NEW values \in Seq(V), NEW v \in V,
           NEW K, NEW keys \in Seq(K), NEW k \in K, Len(keys) = Len(values)
    PROVE  FilterAppends(removed, values, v, keys, k)
<1>1. filter_values(removed, Append(values, v), Append(keys, k)) =
               IF Count(keys, k) < Count(removed, k)
               THEN filter_values(removed, values, keys)
               ELSE Append(filter_values(removed, values, keys), v)
    BY FilterAppend
<1> QED BY <1>1, Zenon DEF FilterAppends

\* The events of the range from m to n, with only the claims in Fresh(b, m).
Masked(b, m, n) ==
    [k \in 1..n - m |->
        IF m + k \in Fresh(b, m) THEN b[m + k]
        ELSE [op |-> "other", item |-> "any"]]

LEMMA MaskedStep ==
    ASSUME NEW G, NEW C, NEW b \in Seq(BridgeEvents(G, C)), NEW m \in Nat, NEW n \in Nat,
           m <= n, n < Len(b)
    PROVE  /\ Masked(b, m, m) = <<>>
           /\ Masked(b, m, n) \in Seq(BridgeEvents(G, C))
           /\ n + 1 \in Fresh(b, m) =>
                 Masked(b, m, n + 1) = Append(Masked(b, m, n), b[n + 1])
           /\ n + 1 \notin Fresh(b, m) =>
                 Masked(b, m, n + 1) = Append(Masked(b, m, n), [op |-> "other", item |-> "any"])
<1> DEFINE E == BridgeEvents(G, C)
           St == Fresh(b, m)
           other == [op |-> "other", item |-> "any"]
           ev(i) == IF i \in St THEN b[i] ELSE other
<1>1. other \in E
    BY DEF BridgeEvents
<1>2. Len(b) \in Nat /\ \A i \in 1..Len(b) : ev(i) \in E
    BY <1>1
<1> DEFINE old == Masked(b, m, n)
           new == Masked(b, m, n + 1)
<1>3. old = [k \in 1..n - m |-> ev(m + k)] /\ new = [k \in 1..(n + 1) - m |-> ev(m + k)]
    BY Zenon DEF Masked
<1>4. Masked(b, m, m) = <<>>
    BY DEF Masked
<1> HIDE DEF E, St, other, ev, old, new
<1>5. \A k \in 1..(n + 1) - m : m + k \in 1..Len(b)
    BY <1>2
<1>6. old \in Seq(E) /\ Len(old) = n - m /\ \A k \in 1..n - m : old[k] = ev(m + k)
    <2>1. n - m \in Nat /\ \A k \in 1..n - m : ev(m + k) \in E
        BY <1>2, <1>5
    <2> QED BY <1>3, <2>1
<1>7. new \in Seq(E) /\ Len(new) = (n - m) + 1 /\ \A k \in 1..(n - m) + 1 : new[k] = ev(m + k)
    <2>1. /\ (n + 1) - m = (n - m) + 1 /\ (n - m) + 1 \in Nat
          /\ \A k \in 1..(n - m) + 1 : ev(m + k) \in E
        BY <1>2, <1>5
    <2>2. new = [k \in 1..(n - m) + 1 |-> ev(m + k)]
        BY <1>3, <2>1
    <2> QED BY <2>1, <2>2
<1> DEFINE e == ev(n + 1)
           a == Append(old, e)
<1>8. e \in E /\ m + ((n - m) + 1) = n + 1
    BY <1>2
<1>9. new[(n - m) + 1] = e
    BY <1>7, <1>8
<1> HIDE DEF e
<1>10. a \in Seq(E) /\ Len(a) = (n - m) + 1 /\ a[(n - m) + 1] = e
       /\ \A k \in 1..n - m : a[k] = old[k]
    <2>1. a \in Seq(E) /\ Len(a) = Len(old) + 1 /\ a[Len(old) + 1] = e
          /\ \A k \in 1..Len(old) : a[k] = old[k]
        BY <1>6, <1>8
    <2> HIDE DEF a
    <2> QED BY <1>6, <2>1
<1> HIDE DEF a
<1>11. \A k \in 1..(n - m) + 1 : new[k] = a[k]
    <2> SUFFICES ASSUME NEW k \in 1..(n - m) + 1 PROVE new[k] = a[k]
        OBVIOUS
    <2>1. CASE k = (n - m) + 1
        BY <1>9, <1>10, <2>1
    <2>2. CASE k \in 1..n - m
        BY <1>6, <1>7, <1>10, <2>2
    <2> QED BY <2>1, <2>2
<1>12. new = a
    BY <1>7, <1>10, <1>11
<1>13. (n + 1 \in St => e = b[n + 1]) /\ (n + 1 \notin St => e = other)
    BY DEF e, ev
<1>14. old \in Seq(E)
    BY <1>6
<1>15. /\ n + 1 \in St => new = Append(old, b[n + 1])
       /\ n + 1 \notin St => new = Append(old, other)
    BY <1>12, <1>13, Zenon DEF a
<1> QED BY <1>4, <1>14, <1>15, Zenon DEF new, old, St, other, E

\* filter_values keeps exactly the claims of the range after m that stand at its end and
\* whose index was not claimed at m, in their order.
LEMMA CommitExact ==
    ASSUME NEW G, NEW C, NEW b \in Seq(BridgeEvents(G, C)), Admitted(b),
           NEW m \in Nat, m <= Len(b)
    PROVE  CommitOf(SubSeq(b, m + 1, Len(b))) = Items(Masked(b, m, Len(b)), "claim")
<1> DEFINE E == BridgeEvents(G, C)
           X == {c.global_index : c \in C}
           L == Len(b)
           unset == Items(SubSeq(b, m + 1, L), "unset")
           R(n) == SubSeq(b, m + 1, n)
           F(n) == filter_values(unset, Items(R(n), "claim"), ClaimedIndices(R(n)))
           S(n) == Items(Masked(b, m, n), "claim")
           D == {i \in Nat : m + i <= L => F(m + i) = S(m + i)}
<1>0. L \in Nat
    OBVIOUS
<1>1. unset \in Seq(X)
    <2>1. SubSeq(b, m + 1, L) \in Seq(BridgeEvents(G, C))
        OBVIOUS
    <2> QED BY <2>1, ChainTypes
<1>2. F(m) = S(m)
    <2>1. SubSeq(b, m + 1, m) = <<>> /\ Masked(b, m, m) = <<>>
        BY DEF Masked
    <2>2. Items(<<>>, "claim") = <<>> /\ ClaimedIndices(<<>>) = <<>>
        BY ItemsEmpty, IndicesEmpty DEF ClaimedIndices
    <2> HIDE DEF unset
    <2>3. filter_values(unset, <<>>, <<>>) = <<>>
        BY <1>1, FilterEmpty
    <2> QED BY <2>1, <2>2, <2>3, Zenon
<1>3. ASSUME NEW n \in Nat, m <= n, n < L, F(n) = S(n) PROVE F(n + 1) = S(n + 1)
    <2> DEFINE e == b[n + 1]
               x == e.item.global_index
               r == R(n)
               mask == Masked(b, m, n)
    <2>1. r \in Seq(E) /\ e \in E /\ R(n + 1) = Append(r, e)
        <3> HIDE DEF E
        <3>1. b \in Seq(E)
            BY DEF E
        <3> QED BY <1>3, <3>1, RangeStep
    <2>2. /\ mask \in Seq(E)
          /\ n + 1 \in Fresh(b, m) => Masked(b, m, n + 1) = Append(mask, e)
          /\ n + 1 \notin Fresh(b, m) =>
                Masked(b, m, n + 1) = Append(mask, [op |-> "other", item |-> "any"])
        BY <1>3, MaskedStep
    <2>3. Items(r, "claim") \in Seq(C) /\ (e.op = "claim" => e.item \in C)
        BY <2>1, ChainTypes, EventKinds
    <2>4. /\ Items(Append(r, e), "claim") = (IF e.op = "claim" THEN Append(Items(r, "claim"), e.item)
                                             ELSE Items(r, "claim"))
          /\ Items(Append(mask, e), "claim") = (IF e.op = "claim" THEN Append(S(n), e.item) ELSE S(n))
        <3> HIDE DEF E, r, mask
        <3>1. \A s \in Seq(E) : Items(Append(s, e), "claim") =
                    IF e.op = "claim" THEN Append(Items(s, "claim"), e.item) ELSE Items(s, "claim")
            BY <2>1, ItemsAppend
        <3>2. S(n) = Items(mask, "claim")
            BY DEF mask
        <3> QED BY <2>1, <2>2, <3>1, <3>2, Zenon
    <2>5. Items(Append(mask, [op |-> "other", item |-> "any"]), "claim") = S(n)
        <3> DEFINE o == [op |-> "other", item |-> "any"]
        <3>1. o \in E /\ o.op # "claim"
            BY DEF BridgeEvents
        <3> HIDE DEF E, o, mask
        <3>2. Items(Append(mask, o), "claim") =
                    IF o.op = "claim" THEN Append(Items(mask, "claim"), o.item) ELSE Items(mask, "claim")
            BY <2>2, <3>1, ItemsAppend
        <3> QED BY <3>1, <3>2 DEF mask, o
    <2>6. CASE e.op # "claim"
        <3>1. n + 1 \notin Fresh(b, m)
            BY <2>6, Zenon DEF Fresh, InForce
        <3>2. S(n + 1) = S(n)
            BY <2>2, <2>5, <3>1, Zenon
        <3>3. Items(R(n + 1), "claim") = Items(r, "claim")
            BY <2>1, <2>4, <2>6, Zenon
        <3>4. F(n + 1) = F(n)
            BY <3>3, Zenon DEF ClaimedIndices
        <3> QED BY <1>3, <3>2, <3>4, Zenon
    <2>7. CASE e.op = "claim"
        <3>1. ClaimedIndices(r) \in Seq(X) /\ Len(ClaimedIndices(r)) = Len(Items(r, "claim"))
            BY <2>3, IndicesType DEF ClaimedIndices
        <3>2. e.item \in C /\ x \in X
            BY <2>3, <2>7
        <3>3. Items(R(n + 1), "claim") = Append(Items(r, "claim"), e.item)
            BY <2>1, <2>4, <2>7, Zenon
        <3>4. ClaimedIndices(R(n + 1)) = Append(ClaimedIndices(r), x)
            <4>1. IndicesOfAppend(Items(r, "claim"), e.item)
                BY <2>3, <3>2, IndicesAppend
            <4> QED BY <3>3, <4>1, Zenon DEF IndicesOfAppend, ClaimedIndices
        <3>5. FilterAppends(unset, Items(r, "claim"), e.item, ClaimedIndices(r), x)
            <4> HIDE DEF X, unset, r, e, x
            <4> QED BY <1>1, <2>3, <3>1, <3>2, FilterOneMore
        <3>6. /\ Count(ClaimedIndices(r), x) < Count(unset, x) =>
                    n + 1 \notin Fresh(b, m)
              /\ n + 1 \notin Fresh(b, m) =>
                    Count(ClaimedIndices(r), x) < Count(unset, x)
            BY <1>3, <2>7, StandsByCounting, Zenon
        <3>7. CASE n + 1 \in Fresh(b, m)
            <4>1. S(n + 1) = Append(S(n), e.item)
                BY <2>2, <2>4, <2>7, <3>7, Zenon
            <4>2. F(n + 1) = Append(F(n), e.item)
                BY <3>3, <3>4, <3>5, <3>6, <3>7, Zenon DEF FilterAppends
            <4> QED BY <1>3, <4>1, <4>2, Zenon
        <3>8. CASE n + 1 \notin Fresh(b, m)
            <4>1. S(n + 1) = S(n)
                BY <2>2, <2>5, <3>8, Zenon
            <4>2. F(n + 1) = F(n)
                BY <3>3, <3>4, <3>5, <3>6, <3>8, Zenon DEF FilterAppends
            <4> QED BY <1>3, <4>1, <4>2, Zenon
        <3> QED BY <3>7, <3>8
    <2> QED BY <2>6, <2>7
<1> HIDE DEF F, S, L
<1>4. 0 \in D
    <2>1. m + 0 = m
        OBVIOUS
    <2> QED BY <1>2, <2>1
<1>5. ASSUME NEW i \in Nat, i \in D PROVE i + 1 \in D
    <2> SUFFICES ASSUME m + (i + 1) <= L PROVE F(m + (i + 1)) = S(m + (i + 1))
        OBVIOUS
    <2>1. m + i \in Nat /\ m <= m + i /\ m + i < L /\ m + (i + 1) = (m + i) + 1
        BY <1>0
    <2>2. F(m + i) = S(m + i)
        BY <1>0, <1>5, <2>1
    <2>3. F((m + i) + 1) = S((m + i) + 1)
        BY <1>3, <2>1, <2>2
    <2> QED BY <2>1, <2>3
<1>6. F(L) = S(L)
    <2> HIDE DEF D
    <2>1. Nat \subseteq D
        BY <1>4, <1>5, NatInduct
    <2>2. L - m \in Nat /\ m + (L - m) = L /\ L <= L
        BY <1>0 DEF L
    <2>3. L - m \in D
        BY <2>1, <2>2
    <2> QED BY <2>2, <2>3 DEF D
<1> QED BY <1>6 DEF F, S, L, CommitOf

LEMMA CountOccurs ==
    ASSUME NEW S, NEW s \in Seq(S), NEW k, Count(s, k) > 0
    PROVE  \E i \in 1..Len(s) : s[i] = k
<1> SUFFICES ASSUME \A i \in 1..Len(s) : s[i] # k PROVE FALSE
    OBVIOUS
<1>1. {i \in 1..Len(s) : s[i] = k} = {}
    OBVIOUS
<1>2. Count(s, k) = 0
    BY <1>1, FS_EmptySet, Zenon DEF Count
<1> QED BY <1>2

\* Each of the claims that filter_values is said to keep is in what it keeps.
LEMMA FreshCommitted ==
    ASSUME NEW G, NEW C, NEW b \in Seq(BridgeEvents(G, C)), Admitted(b),
           NEW m \in Nat, m <= Len(b), NEW i \in Fresh(b, m), i > m
    PROVE  \E k \in 1..Len(CommitOf(SubSeq(b, m + 1, Len(b)))) :
              CommitOf(SubSeq(b, m + 1, Len(b)))[k] = b[i].item
<1> DEFINE E == BridgeEvents(G, C)
           L == Len(b)
           mask == Masked(b, m, L)
           out == CommitOf(SubSeq(b, m + 1, L))
           ev(j) == IF j \in Fresh(b, m) THEN b[j] ELSE [op |-> "other", item |-> "any"]
<1>1. out = Items(mask, "claim")
    BY CommitExact
<1>2. L \in Nat /\ i \in 1..L /\ b[i].op = "claim"
    BY DEF Fresh, InForce
<1>3. mask = [k \in 1..L - m |-> ev(m + k)]
    BY Zenon DEF Masked
<1>4. i - m \in 1..L - m /\ m + (i - m) = i
    BY <1>2
<1>5. ev(i) = b[i]
    OBVIOUS
<1>6. [op |-> "other", item |-> "any"] \in E /\ \A j \in 1..L : b[j] \in E
    BY DEF BridgeEvents
<1>7. \A j \in 1..L : ev(j) \in E
    BY <1>6
<1>8. \A e \in E : e.op = "claim" => e.item \in C
    BY EventKinds
<1> HIDE DEF E, L, mask, out, ev
<1>9. mask \in Seq(E) /\ Len(mask) = L - m /\ mask[i - m] = b[i]
    <2>1. L - m \in Nat /\ \A k \in 1..L - m : ev(m + k) \in E
        BY <1>2, <1>4, <1>7
    <2>2. mask \in Seq(E) /\ Len(mask) = L - m
        BY <1>3, <2>1
    <2>3. mask[i - m] = ev(m + (i - m))
        BY <1>3, <1>4
    <2> QED BY <1>4, <1>5, <2>2, <2>3
<1>10. Occurs(mask, "claim", b[i].item)
    BY <1>2, <1>4, <1>9 DEF Occurs
<1>11. Count(Items(mask, "claim"), b[i].item) > 0
    BY <1>8, <1>9, <1>10, ItemsOccur
<1>12. Items(mask, "claim") \in Seq(C)
    BY <1>8, <1>9, ItemsType
<1>13. \E k \in 1..Len(Items(mask, "claim")) : Items(mask, "claim")[k] = b[i].item
    BY <1>11, <1>12, CountOccurs
<1> QED BY <1>1, <1>13, Zenon DEF out, L
=============================================================================
