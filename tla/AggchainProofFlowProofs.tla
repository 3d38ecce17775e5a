----------------------- MODULE AggchainProofFlowProofs -----------------------
(***************************************************************************)
(* Theorems about AggchainProofFlow: whatever reorganisations happen       *)
(* between the steps of a request, the proof that it returns is about one  *)
(* chain, and the request that led to it was taken whole.                  *)
(***************************************************************************)
EXTENDS AggchainProofFlow, BridgeConstraintsProofs

-----------------------------------------------------------------------------
(* Lists made piece by piece *)

\* The recursion of FlattenSeq, as an equation.
FlatEq(flat, n, pieces) ==
    flat = [i \in 1..n |-> IF i = 1 THEN pieces[i] ELSE flat[i - 1] \o pieces[i]]

LEMMA FlatUnfold ==
    ASSUME NEW pieces, Len(pieces) \in Nat, Len(pieces) # 0
    PROVE  \E flat : FlatEq(flat, Len(pieces), pieces) /\ FlattenSeq(pieces) = flat[Len(pieces)]
<1> DEFINE N == {m \in Nat : \E g : FlatEq(g, m, pieces)}
<1>1. 0 \in N
    <2>1. FlatEq(<<>>, 0, pieces)
        BY DEF FlatEq
    <2> QED BY <2>1
<1>2. ASSUME NEW n \in Nat, n \in N PROVE n + 1 \in N
    <2>1. PICK g : FlatEq(g, n, pieces)
        BY <1>2
    <2> DEFINE G == [i \in 1..n |-> IF i = 1 THEN pieces[i] ELSE g[i - 1] \o pieces[i]]
               next == IF n = 0 THEN pieces[1] ELSE g[n] \o pieces[n + 1]
               h == [i \in 1..n + 1 |-> IF i = n + 1 THEN next ELSE g[i]]
    <2>2. \A i \in 1..n : g[i] = IF i = 1 THEN pieces[i] ELSE g[i - 1] \o pieces[i]
        <3>1. g = G
            BY <2>1, Zenon DEF FlatEq
        <3>2. \A i \in 1..n : G[i] = IF i = 1 THEN pieces[i] ELSE g[i - 1] \o pieces[i]
            OBVIOUS
        <3> HIDE DEF G
        <3> QED BY <3>1, <3>2
    <2>3. \A i \in 1..n + 1 : h[i] = IF i = 1 THEN pieces[i] ELSE h[i - 1] \o pieces[i]
        <3> SUFFICES ASSUME NEW i \in 1..n + 1
                     PROVE  h[i] = IF i = 1 THEN pieces[i] ELSE h[i - 1] \o pieces[i]
            OBVIOUS
        <3>1. CASE i = n + 1
            <4>1. h[n + 1] = next /\ (n # 0 => h[n] = g[n]) /\ (n + 1) - 1 = n
                OBVIOUS
            <4> HIDE DEF h
            <4> QED BY <3>1, <4>1
        <3>2. CASE i \in 1..n
            <4>1. h[i] = g[i] /\ (i # 1 => h[i - 1] = g[i - 1])
                BY <3>2
            <4> HIDE DEF h
            <4> QED BY <2>2, <3>2, <4>1
        <3> QED BY <3>1, <3>2
    <2>4. h = [i \in 1..n + 1 |-> h[i]]
        OBVIOUS
    <2> HIDE DEF h
    <2>5. FlatEq(h, n + 1, pieces)
        BY <2>3, <2>4 DEF FlatEq
    <2> QED BY <2>5
<1>3. \E g : FlatEq(g, Len(pieces), pieces)
    <2> HIDE DEF N
    <2>1. Nat \subseteq N
        BY <1>1, <1>2, NatInduct
    <2> QED BY <2>1 DEF N
<1>4. FlattenSeq(pieces) = (CHOOSE g : FlatEq(g, Len(pieces), pieces))[Len(pieces)]
    BY DEF FlattenSeq, FlatEq
<1> DEFINE flat == CHOOSE g : FlatEq(g, Len(pieces), pieces)
<1>5. FlatEq(flat, Len(pieces), pieces)
    BY <1>3, Zenon
<1> HIDE DEF flat
<1>6. FlattenSeq(pieces) = flat[Len(pieces)]
    BY <1>4 DEF flat
<1> QED BY <1>5, <1>6

\* What the equation says, element by element.
LEMMA FlatSteps ==
    ASSUME NEW flat, NEW n \in Nat, NEW pieces, FlatEq(flat, n, pieces)
    PROVE  \A i \in 1..n : /\ i = 1 => flat[i] = pieces[i]
                           /\ i # 1 => flat[i] = flat[i - 1] \o pieces[i]
<1> DEFINE F == [i \in 1..n |-> IF i = 1 THEN pieces[i] ELSE flat[i - 1] \o pieces[i]]
<1>1. flat = F
    BY Zenon DEF FlatEq
<1>2. \A i \in 1..n : /\ i = 1 => F[i] = pieces[i]
                      /\ i # 1 => F[i] = flat[i - 1] \o pieces[i]
    OBVIOUS
<1> HIDE DEF F
<1> QED BY <1>1, <1>2

LEMMA FlatEmpty == FlattenSeq(<<>>) = <<>>
BY DEF FlattenSeq

\* One piece more.
FlatJoin(pieces, p) == FlattenSeq(Append(pieces, p)) = FlattenSeq(pieces) \o p

LEMMA FlatAppend ==
    ASSUME NEW T, NEW pieces \in Seq(Seq(T)), NEW p \in Seq(T)
    PROVE  FlatJoin(pieces, p)
<1> DEFINE L == Len(pieces)
           all == Append(pieces, p)
<1>1. /\ L \in Nat /\ Len(all) = L + 1 /\ all[L + 1] = p
      /\ \A i \in 1..L : all[i] = pieces[i]
    OBVIOUS
<1> HIDE DEF all
<1>2. PICK new : FlatEq(new, L + 1, all) /\ FlattenSeq(all) = new[L + 1]
    <2>1. Len(all) \in Nat /\ Len(all) # 0
        BY <1>1
    <2> QED BY <1>1, <2>1, FlatUnfold
<1>3. \A i \in 1..L + 1 : /\ i = 1 => new[i] = all[i]
                          /\ i # 1 => new[i] = new[i - 1] \o all[i]
    <2>1. L + 1 \in Nat /\ FlatEq(new, L + 1, all)
        BY <1>1, <1>2
    <2> HIDE DEF L
    <2> QED BY ONLY <2>1, FlatSteps
<1>4. CASE L = 0
    <2>1. new[1] = p
        BY <1>1, <1>3, <1>4
    <2>2. FlattenSeq(all) = p
        BY <1>2, <1>4, <2>1
    <2>3. pieces = <<>> /\ <<>> \o p = p
        BY <1>4
    <2>4. FlattenSeq(pieces) = <<>>
        BY <2>3, FlatEmpty, Zenon
    <2> QED BY <2>2, <2>3, <2>4, Zenon DEF FlatJoin, all
<1>5. CASE L # 0
    <2>1. PICK old : FlatEq(old, L, pieces) /\ FlattenSeq(pieces) = old[L]
        BY <1>1, <1>5, FlatUnfold
    <2>2. \A i \in 1..L : /\ i = 1 => old[i] = pieces[i]
                          /\ i # 1 => old[i] = old[i - 1] \o pieces[i]
        <3>1. L \in Nat /\ FlatEq(old, L, pieces)
            BY <1>1, <2>1
        <3> HIDE DEF L
        <3> QED BY ONLY <3>1, FlatSteps
    <2> HIDE DEF L
    <2> DEFINE N == {i \in Nat : i + 1 <= L => new[i + 1] = old[i + 1]}
    <2>3. 0 \in N
        <3>1. 1 <= L => new[1] = old[1]
            <4> SUFFICES ASSUME 1 <= L PROVE new[1] = old[1]
                OBVIOUS
            <4>1. 1 \in 1..L /\ 1 \in 1..L + 1
                BY <1>1
            <4>2. new[1] = all[1] /\ old[1] = pieces[1]
                BY <1>3, <2>2, <4>1, Zenon
            <4>3. all[1] = pieces[1]
                BY <1>1, <4>1
            <4> QED BY <4>2, <4>3
        <3> QED BY <3>1
    <2>4. ASSUME NEW n \in Nat, n \in N PROVE n + 1 \in N
        <3> SUFFICES ASSUME (n + 1) + 1 <= L PROVE new[(n + 1) + 1] = old[(n + 1) + 1]
            OBVIOUS
        <3> DEFINE m == (n + 1) + 1
        <3>1. m \in 1..L /\ m \in 1..L + 1 /\ m - 1 = n + 1 /\ m # 1
            BY <1>1
        <3>2. new[m - 1] = old[m - 1] /\ all[m] = pieces[m]
            BY <1>1, <2>4, <3>1
        <3> HIDE DEF m
        <3>3. new[m] = new[m - 1] \o all[m]
            BY <1>3, <3>1
        <3>4. old[m] = old[m - 1] \o pieces[m]
            BY <2>2, <3>1
        <3>5. new[m] = old[m]
            BY <3>2, <3>3, <3>4, Zenon
        <3> QED BY <3>5 DEF m
    <2>5. new[L] = old[L]
        <3> HIDE DEF N
        <3>1. Nat \subseteq N
            BY <2>3, <2>4, NatInduct
        <3>2. L - 1 \in Nat /\ (L - 1) + 1 = L
            BY <1>1, <1>5
        <3>3. L - 1 \in N
            BY <3>1, <3>2
        <3> QED BY <3>2, <3>3 DEF N
    <2>6. new[L + 1] = new[L] \o p
        <3>1. L + 1 \in 1..L + 1 /\ L + 1 # 1 /\ (L + 1) - 1 = L
            BY <1>1, <1>5
        <3>2. new[L + 1] = new[(L + 1) - 1] \o all[L + 1]
            BY <1>3, <3>1
        <3> QED BY <1>1, <3>1, <3>2
    <2> QED BY <1>2, <2>1, <2>5, <2>6, Zenon DEF FlatJoin, all
<1> QED BY <1>4, <1>5

LEMMA FlatType ==
    ASSUME NEW T, NEW pieces \in Seq(Seq(T))
    PROVE  FlattenSeq(pieces) \in Seq(T)
<1> DEFINE G == {s \in Seq(Seq(T)) : FlattenSeq(s) \in Seq(T)}
<1>1. <<>> \in G
    <2>1. <<>> \in Seq(T) /\ <<>> \in Seq(Seq(T))
        OBVIOUS
    <2> QED BY <2>1, FlatEmpty
<1>2. ASSUME NEW s \in Seq(Seq(T)), NEW p \in Seq(T), s \in G PROVE Append(s, p) \in G
    <2> DEFINE old == FlattenSeq(s)
               new == FlattenSeq(Append(s, p))
    <2>1. new = old \o p
        <3>1. FlatJoin(s, p)
            BY FlatAppend
        <3> QED BY <3>1, Zenon DEF FlatJoin
    <2>2. old \in Seq(T)
        BY <1>2
    <2> HIDE DEF old, new
    <2>3. new \in Seq(T)
        BY <2>1, <2>2
    <2>4. Append(s, p) \in Seq(Seq(T))
        OBVIOUS
    <2> QED BY <2>3, <2>4 DEF new
<1> HIDE DEF G
<1>3. Seq(Seq(T)) \subseteq G
    BY <1>1, <1>2, SeqInduct
<1> QED BY <1>3 DEF G

\* The list made of the first n pieces, and with the next one.
FlatStep(pieces, n) ==
    FlattenSeq(pieces) = FlattenSeq([i \in 1..n |-> pieces[i]]) \o pieces[n + 1]

LEMMA FlatFront ==
    ASSUME NEW T, NEW n \in Nat, NEW pieces \in [1..n + 1 -> Seq(T)]
    PROVE  /\ [i \in 1..n |-> pieces[i]] \in Seq(Seq(T))
           /\ FlatStep(pieces, n)
<1> DEFINE front == [i \in 1..n |-> pieces[i]]
           p == pieces[n + 1]
<1>1. p \in Seq(T) /\ front \in Seq(Seq(T)) /\ Len(front) = n
    OBVIOUS
<1>2. Append(front, p) = pieces
    <2>1. /\ pieces \in Seq(Seq(T)) /\ Len(pieces) = n + 1
          /\ \A i \in 1..n : front[i] = pieces[i]
        OBVIOUS
    <2> HIDE DEF front
    <2>2. /\ Append(front, p) \in Seq(Seq(T)) /\ Len(Append(front, p)) = n + 1
          /\ \A i \in 1..n : Append(front, p)[i] = pieces[i]
          /\ Append(front, p)[n + 1] = pieces[n + 1]
        BY <1>1, <2>1
    <2> DEFINE a == Append(front, p)
    <2> HIDE DEF a, p
    <2> QED BY <2>1, <2>2 DEF a
<1> HIDE DEF front, p
<1>3. FlatJoin(front, p)
    BY <1>1, FlatAppend
<1>4. FlattenSeq(pieces) = FlattenSeq(front) \o p
    BY <1>2, <1>3, Zenon DEF FlatJoin
<1> QED BY <1>1, <1>4, Zenon DEF FlatStep, front, p

-----------------------------------------------------------------------------
(* The state root *)

\* A block more leaves the state alone or makes a new one.
StateGrows(b, e) ==
    \/ StateRoot(Append(b, e)) = StateRoot(b)
    \/ Len(StateRoot(Append(b, e))) = Len(StateRoot(b)) + 1

LEMMA StateAppend ==
    ASSUME NEW E, NEW b \in Seq(E), NEW e \in E
    PROVE  /\ StateRoot(b) \in Seq(E)
           /\ StateGrows(b, e)
<1> DEFINE Piece(x) == IF x.op = "other" THEN <<>> ELSE <<x>>
           L == Len(b)
           c == Append(b, e)
           old == [i \in 1..Len(b) |-> Piece(b[i])]
           new == [i \in 1..Len(c) |-> Piece(c[i])]
<1>1. \A x \in E : Piece(x) \in Seq(E)
    OBVIOUS
<1>2. /\ L \in Nat /\ Len(c) = L + 1 /\ c[L + 1] = e
      /\ \A i \in 1..L : c[i] = b[i] /\ b[i] \in E
    OBVIOUS
<1>3. StateRoot(b) = FlattenSeq(old) /\ StateRoot(c) = FlattenSeq(new)
    BY DEF StateRoot
<1> HIDE DEF c, Piece
<1>4. old \in Seq(Seq(E))
    BY <1>1, <1>2
<1>5. new \in [1..L + 1 -> Seq(E)]
    <2>1. \A i \in 1..L + 1 : c[i] \in E
        BY <1>2
    <2> QED BY <1>1, <1>2, <2>1
<1>6. [i \in 1..L |-> new[i]] = old
    BY <1>2
<1>7. new[L + 1] = Piece(e)
    BY <1>2
<1> HIDE DEF old, new, L
<1>8. FlattenSeq(old) \in Seq(E)
    BY <1>4, FlatType
<1>9. FlattenSeq(new) = FlattenSeq(old) \o Piece(e)
    <2>1. FlatStep(new, L)
        BY <1>2, <1>5, FlatFront
    <2> QED BY <1>6, <1>7, <2>1, Zenon DEF FlatStep
<1> DEFINE s == StateRoot(b)
           t == StateRoot(c)
<1>10. s \in Seq(E) /\ t = s \o Piece(e)
    BY <1>3, <1>8, <1>9, Zenon
<1> HIDE DEF s, t
<1>11. t = s \/ Len(t) = Len(s) + 1
    BY <1>10 DEF Piece
<1> QED BY <1>10, <1>11 DEF s, t, c, StateGrows

\* The states of the blocks of a chain only grow.
LEMMA StateBelow ==
    ASSUME NEW E, NEW b \in Seq(E), NEW m \in 0..Len(b)
    PROVE  /\ Len(StateRoot(b)) \in Nat /\ Len(StateRoot(SubSeq(b, 1, m))) \in Nat
           /\ \/ StateRoot(SubSeq(b, 1, m)) = StateRoot(b)
              \/ Len(StateRoot(SubSeq(b, 1, m))) < Len(StateRoot(b))
<1> DEFINE R(i) == StateRoot(SubSeq(b, 1, i))
           L == Len(b)
<1>1. L \in Nat /\ m \in Nat /\ m <= L
    OBVIOUS
<1>2. ASSUME NEW i \in Nat, i < L
      PROVE  /\ R(i) \in Seq(E)
             /\ R(i + 1) = R(i) \/ Len(R(i + 1)) = Len(R(i)) + 1
    <2> DEFINE p == SubSeq(b, 1, i)
    <2>1. p \in Seq(E) /\ b[i + 1] \in E /\ SubSeq(b, 1, i + 1) = Append(p, b[i + 1])
        <3>1. SubSeq(b, 1, i + 1) \in Seq(E) /\ Len(SubSeq(b, 1, i + 1)) = i + 1
            BY <1>2
        <3>2. /\ SubSeq(b, 0 + 1, i) \in Seq(E) /\ b[i + 1] \in E
              /\ SubSeq(b, 0 + 1, i + 1) = Append(SubSeq(b, 0 + 1, i), b[i + 1])
            BY <1>1, <1>2, RangeStep
        <3>3. 0 + 1 = 1
            OBVIOUS
        <3> QED BY <3>2, <3>3
    <2> HIDE DEF p
    <2>2. StateRoot(p) \in Seq(E) /\ StateGrows(p, b[i + 1])
        BY <2>1, StateAppend
    <2> QED BY <2>1, <2>2 DEF StateGrows, p
<1>3. R(L) = StateRoot(b) /\ R(L) \in Seq(E)
    <2>1. SubSeq(b, 1, L) = b
        OBVIOUS
    <2>2. ASSUME NEW e \in E PROVE StateRoot(b) \in Seq(E)
        BY StateAppend
    <2>3. L = 0 => StateRoot(b) = <<>>
        <3>1. L = 0 => b = <<>>
            OBVIOUS
        <3>2. StateRoot(<<>>) = <<>>
            <4>1. [i \in 1..Len(<<>>) |-> IF <<>>[i].op = "other" THEN <<>> ELSE <<<<>>[i]>>] = <<>>
                OBVIOUS
            <4> QED BY <4>1, FlatEmpty DEF StateRoot
        <3> QED BY <3>1, <3>2
    <2>4. L # 0 => b[1] \in E
        BY <1>1
    <2>5. StateRoot(b) \in Seq(E)
        BY <2>2, <2>3, <2>4
    <2> QED BY <2>1, <2>5
<1> HIDE DEF R, L
<1>4. \A i \in 0..L : Len(R(i)) \in Nat
    <2> SUFFICES ASSUME NEW i \in 0..L PROVE Len(R(i)) \in Nat
        OBVIOUS
    <2>1. R(i) \in Seq(E)
        BY <1>1, <1>2, <1>3
    <2> QED BY <2>1
<1>5. ASSUME NEW k \in Nat, k <= L
      PROVE  \A i \in Nat : k + i <= L => R(k + i) = R(k) \/ Len(R(k + i)) > Len(R(k))
    <2> DEFINE N == {i \in Nat : k + i <= L => R(k + i) = R(k) \/ Len(R(k + i)) > Len(R(k))}
    <2>1. 0 \in N
        <3>1. k + 0 = k
            OBVIOUS
        <3> QED BY <3>1
    <2>2. ASSUME NEW i \in Nat, i \in N PROVE i + 1 \in N
        <3> SUFFICES ASSUME k + (i + 1) <= L
                     PROVE  R(k + (i + 1)) = R(k) \/ Len(R(k + (i + 1))) > Len(R(k))
            OBVIOUS
        <3> DEFINE j == k + i
        <3>1. j \in Nat /\ j < L /\ j <= L /\ k + (i + 1) = j + 1
            BY <1>1
        <3>2. R(j) = R(k) \/ Len(R(j)) > Len(R(k))
            BY <2>2, <3>1
        <3> HIDE DEF j
        <3>3. R(j + 1) = R(j) \/ Len(R(j + 1)) = Len(R(j)) + 1
            BY <1>2, <3>1
        <3>4. Len(R(j)) \in Nat /\ Len(R(k)) \in Nat
            BY <1>1, <1>4, <3>1, <1>5
        <3>5. R(j + 1) = R(k) \/ Len(R(j + 1)) > Len(R(k))
            BY <3>2, <3>3, <3>4
        <3> QED BY <3>1, <3>5
    <2> HIDE DEF N
    <2>3. Nat \subseteq N
        BY <2>1, <2>2, NatInduct
    <2> QED BY <2>3 DEF N
<1>6. R(L) = R(m) \/ Len(R(L)) > Len(R(m))
    <2>1. L - m \in Nat /\ m + (L - m) = L
        BY <1>1
    <2> QED BY <1>1, <1>5, <2>1
<1>7. Len(R(L)) \in Nat /\ Len(R(m)) \in Nat
    BY <1>1, <1>4
<1>8. R(m) = R(L) \/ Len(R(m)) < Len(R(L))
    BY <1>6, <1>7
<1> QED BY <1>3, <1>7, <1>8, Zenon DEF R

-----------------------------------------------------------------------------
(* The lists of a request *)

Events == BridgeEvents(Gers, Claims)

Exits == [claim : Claims, block_number : Nat]

\* One more imported bridge exit.
ExitAppends(exits, x, first, last) ==
    /\ bridge_exits_in_range(exits, first, last) \in Seq(Claims)
    /\ x.block_number \in first..last =>
          bridge_exits_in_range(Append(exits, x), first, last)
            = Append(bridge_exits_in_range(exits, first, last), x.claim)
    /\ x.block_number \notin first..last =>
          bridge_exits_in_range(Append(exits, x), first, last)
            = bridge_exits_in_range(exits, first, last)

LEMMA ExitsEmpty ==
    ASSUME NEW first, NEW last
    PROVE  bridge_exits_in_range(<<>>, first, last) = <<>>
<1>1. [i \in 1..Len(<<>>) |-> IF <<>>[i].block_number \in first..last
                              THEN <<<<>>[i].claim>> ELSE <<>>] = <<>>
    OBVIOUS
<1> QED BY <1>1, FlatEmpty DEF bridge_exits_in_range

LEMMA ExitsAppend ==
    ASSUME NEW exits \in Seq(Exits), NEW x \in Exits, NEW first, NEW last
    PROVE  ExitAppends(exits, x, first, last)
<1> DEFINE Piece(e) == IF e.block_number \in first..last THEN <<e.claim>> ELSE <<>>
           L == Len(exits)
           c == Append(exits, x)
           old == [i \in 1..Len(exits) |-> Piece(exits[i])]
           new == [i \in 1..Len(c) |-> Piece(c[i])]
<1>1. \A e \in Exits : Piece(e) \in Seq(Claims)
    BY DEF Exits
<1>2. /\ L \in Nat /\ Len(c) = L + 1 /\ c[L + 1] = x
      /\ \A i \in 1..L : c[i] = exits[i] /\ exits[i] \in Exits
    OBVIOUS
<1>3. /\ bridge_exits_in_range(exits, first, last) = FlattenSeq(old)
      /\ bridge_exits_in_range(c, first, last) = FlattenSeq(new)
    BY DEF bridge_exits_in_range
<1> HIDE DEF c, Piece
<1>4. old \in Seq(Seq(Claims))
    BY <1>1, <1>2
<1>5. new \in [1..L + 1 -> Seq(Claims)]
    <2>1. \A i \in 1..L + 1 : c[i] \in Exits
        BY <1>2
    <2> QED BY <1>1, <1>2, <2>1
<1>6. [i \in 1..L |-> new[i]] = old
    BY <1>2
<1>7. new[L + 1] = Piece(x)
    BY <1>2
<1> HIDE DEF old, new, L
<1>8. FlattenSeq(old) \in Seq(Claims)
    BY <1>4, FlatType
<1>9. FlattenSeq(new) = FlattenSeq(old) \o Piece(x)
    <2>1. FlatStep(new, L)
        BY <1>2, <1>5, FlatFront
    <2> QED BY <1>6, <1>7, <2>1, Zenon DEF FlatStep
<1> DEFINE s == bridge_exits_in_range(exits, first, last)
           t == bridge_exits_in_range(c, first, last)
<1>10. s \in Seq(Claims) /\ t = s \o Piece(x)
    BY <1>3, <1>8, <1>9, Zenon
<1> HIDE DEF s, t
<1>11. x.block_number \in first..last => t = Append(s, x.claim)
    <2> SUFFICES ASSUME x.block_number \in first..last PROVE t = Append(s, x.claim)
        OBVIOUS
    <2>1. Piece(x) = <<x.claim>> /\ x.claim \in Claims
        BY DEF Piece, Exits
    <2>2. t = s \o <<x.claim>>
        BY <1>10, <2>1, Zenon
    <2> QED BY <1>10, <2>1, <2>2
<1>12. x.block_number \notin first..last => t = s
    <2> SUFFICES ASSUME x.block_number \notin first..last PROVE t = s
        OBVIOUS
    <2>1. t = s \o <<>>
        BY <1>10, Zenon DEF Piece
    <2> QED BY <1>10, <2>1
<1> QED BY <1>10, <1>11, <1>12, Zenon DEF s, t, c, ExitAppends

LEMMA ExitsType ==
    ASSUME NEW exits \in Seq(Exits), NEW first, NEW last
    PROVE  bridge_exits_in_range(exits, first, last) \in Seq(Claims)
<1>1. CASE exits = <<>>
    <2>1. <<>> \in Seq(Claims)
        OBVIOUS
    <2> QED BY <1>1, <2>1, ExitsEmpty
<1>2. CASE exits # <<>>
    <2>1. exits[1] \in Exits
        BY <1>2
    <2>2. ExitAppends(exits, exits[1], first, last)
        BY <2>1, ExitsAppend
    <2> QED BY <2>2, Zenon DEF ExitAppends
<1> QED BY <1>1, <1>2

\* The exits that the aggsender sees in one block more.
SeenExit(n) == [claim |-> chain[n].item, block_number |-> n]

SeesExit(first, n) ==
    /\ ExitsSeen(first, n) \in Seq(Exits)
    /\ n + 1 >= first /\ chain[n + 1].op = "claim" =>
          ExitsSeen(first, n + 1) = Append(ExitsSeen(first, n), SeenExit(n + 1))
    /\ ~(n + 1 >= first /\ chain[n + 1].op = "claim") =>
          ExitsSeen(first, n + 1) = ExitsSeen(first, n)

LEMMA ExitsSeenNone == ASSUME NEW first PROVE ExitsSeen(first, 0) = <<>>
<1>1. [n \in 1..0 |-> IF n >= first /\ chain[n].op = "claim"
                      THEN <<[claim |-> chain[n].item, block_number |-> n]>> ELSE <<>>] = <<>>
    OBVIOUS
<1> QED BY <1>1, FlatEmpty DEF ExitsSeen

LEMMA ExitsSeenStep ==
    ASSUME chain \in Seq(Events), NEW first \in Nat, NEW n \in Nat, n < Len(chain)
    PROVE  SeesExit(first, n)
<1> DEFINE Piece(i) == IF i >= first /\ chain[i].op = "claim" THEN <<SeenExit(i)>> ELSE <<>>
           old == [i \in 1..n |-> Piece(i)]
           new == [i \in 1..n + 1 |-> Piece(i)]
<1>1. \A i \in 1..n + 1 : chain[i] \in Events
    OBVIOUS
<1>2. \A i \in 1..n + 1 : chain[i].op = "claim" => SeenExit(i) \in Exits
    <2> SUFFICES ASSUME NEW i \in 1..n + 1, chain[i].op = "claim" PROVE SeenExit(i) \in Exits
        OBVIOUS
    <2>1. chain[i].item \in Claims
        BY <1>1, EventKinds DEF Events
    <2> QED BY <2>1 DEF SeenExit, Exits
<1>3. \A i \in 1..n + 1 : Piece(i) \in Seq(Exits)
    BY <1>2
<1>4. ExitsSeen(first, n) = FlattenSeq(old) /\ ExitsSeen(first, n + 1) = FlattenSeq(new)
    BY DEF ExitsSeen, SeenExit
<1>4a. n + 1 >= first /\ chain[n + 1].op = "claim" => Piece(n + 1) = <<SeenExit(n + 1)>>
    OBVIOUS
<1>4b. ~(n + 1 >= first /\ chain[n + 1].op = "claim") => Piece(n + 1) = <<>>
    OBVIOUS
<1> HIDE DEF Piece
<1>5. new \in [1..n + 1 -> Seq(Exits)] /\ old \in Seq(Seq(Exits))
    BY <1>3
<1>6. [i \in 1..n |-> new[i]] = old /\ new[n + 1] = Piece(n + 1)
    OBVIOUS
<1> HIDE DEF old, new
<1>7. FlattenSeq(old) \in Seq(Exits)
    BY <1>5, FlatType
<1>8. FlattenSeq(new) = FlattenSeq(old) \o Piece(n + 1)
    <2>1. FlatStep(new, n)
        BY <1>5, FlatFront
    <2> QED BY <1>6, <2>1, Zenon DEF FlatStep
<1> DEFINE s == ExitsSeen(first, n)
           t == ExitsSeen(first, n + 1)
           x == SeenExit(n + 1)
<1>9. s \in Seq(Exits) /\ t = s \o Piece(n + 1)
    BY <1>4, <1>7, <1>8, Zenon
<1>10. chain[n + 1].op = "claim" => x \in Exits
    BY <1>2
<1> HIDE DEF s, t, x
<1>11. n + 1 >= first /\ chain[n + 1].op = "claim" => t = Append(s, x)
    <2> SUFFICES ASSUME n + 1 >= first, chain[n + 1].op = "claim" PROVE t = Append(s, x)
        OBVIOUS
    <2>1. t = s \o <<x>>
        BY <1>4a, <1>9, Zenon DEF x
    <2> QED BY <1>9, <1>10, <2>1
<1>12. ~(n + 1 >= first /\ chain[n + 1].op = "claim") => t = s
    <2> SUFFICES ASSUME ~(n + 1 >= first /\ chain[n + 1].op = "claim") PROVE t = s
        OBVIOUS
    <2>1. t = s \o <<>>
        BY <1>4b, <1>9, Zenon
    <2> QED BY <1>9, <2>1
<1> QED BY <1>9, <1>11, <1>12, Zenon DEF s, t, x, SeesExit

\* The blocks after m, up to the lower of two.
Upto(m, k, n) == SubSeq(chain, m + 1, IF k < n THEN k ELSE n)

LEMMA UptoStep ==
    ASSUME chain \in Seq(Events), NEW m \in Nat, NEW k \in Nat, NEW n \in Nat, n < Len(chain)
    PROVE  /\ n + 1 <= m => Upto(m, k, n + 1) = <<>>
           /\ n <= m => Upto(m, k, n) = <<>>
           /\ k <= n => Upto(m, k, n + 1) = Upto(m, k, n)
           /\ m <= n /\ n + 1 <= k =>
                 /\ Upto(m, k, n) \in Seq(Events) /\ chain[n + 1] \in Events
                 /\ Upto(m, k, n + 1) = Append(Upto(m, k, n), chain[n + 1])
<1>1. n + 1 <= m => Upto(m, k, n + 1) = <<>>
    BY DEF Upto
<1>2. n <= m => Upto(m, k, n) = <<>>
    BY DEF Upto
<1>3. k <= n => Upto(m, k, n + 1) = Upto(m, k, n)
    <2> SUFFICES ASSUME k <= n PROVE Upto(m, k, n + 1) = Upto(m, k, n)
        OBVIOUS
    <2>1. k < n + 1 /\ (~(k < n) => k = n)
        OBVIOUS
    <2> QED BY <2>1 DEF Upto
<1>4. ASSUME m <= n, n + 1 <= k
      PROVE  /\ Upto(m, k, n) \in Seq(Events) /\ chain[n + 1] \in Events
             /\ Upto(m, k, n + 1) = Append(Upto(m, k, n), chain[n + 1])
    <2>1. Upto(m, k, n) = SubSeq(chain, m + 1, n) /\ Upto(m, k, n + 1) = SubSeq(chain, m + 1, n + 1)
        <3>1. ~(k < n) /\ ~(k < n + 1)
            BY <1>4
        <3> QED BY <3>1, Zenon DEF Upto
    <2>2. /\ SubSeq(chain, m + 1, n) \in Seq(Events) /\ chain[n + 1] \in Events
          /\ SubSeq(chain, m + 1, n + 1) = Append(SubSeq(chain, m + 1, n), chain[n + 1])
        BY <1>4, RangeStep
    <2> QED BY <2>1, <2>2
<1> QED BY <1>1, <1>2, <1>3, <1>4

\* The exits of the request that are in range are the claims of the chain between
\* the last proven block and the end block, or the requested one if that is lower.
LEMMA ExitsDescribe ==
    ASSUME chain \in Seq(Events), NEW m \in Nat, NEW requested \in Nat,
           requested <= Len(chain), NEW end \in Nat
    PROVE  bridge_exits_in_range(ExitsSeen(m + 1, requested), m + 1, end)
                = Items(Upto(m, end, requested), "claim")
<1> DEFINE In(n) == bridge_exits_in_range(ExitsSeen(m + 1, n), m + 1, end)
           On(n) == Items(Upto(m, end, n), "claim")
           N == {n \in Nat : n <= Len(chain) => In(n) = On(n)}
<1>1. 0 \in N
    <2>1. In(0) = <<>>
        BY ExitsSeenNone, ExitsEmpty
    <2>2. Upto(m, end, 0) = <<>>
        BY DEF Upto
    <2>3. On(0) = <<>>
        BY <2>2, ItemsEmpty
    <2> QED BY <2>1, <2>3
<1>2. ASSUME NEW n \in Nat, n \in N PROVE n + 1 \in N
    <2> SUFFICES ASSUME n + 1 <= Len(chain) PROVE In(n + 1) = On(n + 1)
        OBVIOUS
    <2>0. n < Len(chain) /\ In(n) = On(n) /\ m + 1 \in Nat
        BY <1>2
    <2> DEFINE seen == ExitsSeen(m + 1, n)
               x == SeenExit(n + 1)
               sees == n + 1 >= m + 1 /\ chain[n + 1].op = "claim"
    <2>1. /\ seen \in Seq(Exits)
          /\ sees => ExitsSeen(m + 1, n + 1) = Append(seen, x)
          /\ ~sees => ExitsSeen(m + 1, n + 1) = seen
        <3>1. SeesExit(m + 1, n)
            BY <2>0, ExitsSeenStep
        <3> QED BY <3>1, Zenon DEF SeesExit
    <2>2. /\ n + 1 <= m => Upto(m, end, n + 1) = <<>>
          /\ n <= m => Upto(m, end, n) = <<>>
          /\ end <= n => Upto(m, end, n + 1) = Upto(m, end, n)
          /\ m <= n /\ n + 1 <= end =>
                 /\ Upto(m, end, n) \in Seq(Events) /\ chain[n + 1] \in Events
                 /\ Upto(m, end, n + 1) = Append(Upto(m, end, n), chain[n + 1])
        BY <2>0, UptoStep
    <2>3. sees => x \in Exits
        <3> SUFFICES ASSUME sees PROVE x \in Exits
            OBVIOUS
        <3>1. chain[n + 1] \in Events
            BY <2>0
        <3>2. chain[n + 1].item \in Claims
            BY <3>1, EventKinds DEF Events
        <3> QED BY <3>2 DEF SeenExit, Exits
    <2>4. sees => ExitAppends(seen, x, m + 1, end)
        <3> HIDE DEF seen, x, sees
        <3> QED BY <2>1, <2>3, ExitsAppend
    <2>5. x.block_number = n + 1 /\ x.claim = chain[n + 1].item
        BY DEF SeenExit
    <2>6. CASE n + 1 <= m
        <3>1. ~sees /\ n <= m
            BY <2>6
        <3>2. In(n + 1) = In(n)
            BY <2>1, <3>1, Zenon
        <3>3. On(n + 1) = On(n)
            BY <2>2, <2>6, <3>1, Zenon
        <3> QED BY <2>0, <3>2, <3>3, Zenon
    <2>7. CASE m <= n /\ end <= n
        <3>1. In(n + 1) = In(n)
            <4>1. CASE sees
                <5>1. x.block_number \notin m + 1..end
                    BY <2>5, <2>7
                <5>2. bridge_exits_in_range(Append(seen, x), m + 1, end)
                        = bridge_exits_in_range(seen, m + 1, end)
                    BY <2>4, <4>1, <5>1, Zenon DEF ExitAppends
                <5> QED BY <2>1, <4>1, <5>2, Zenon
            <4>2. CASE ~sees
                BY <2>1, <4>2, Zenon
            <4> QED BY <4>1, <4>2
        <3>2. On(n + 1) = On(n)
            BY <2>2, <2>7, Zenon
        <3> QED BY <2>0, <3>1, <3>2, Zenon
    <2>8. CASE m <= n /\ n + 1 <= end
        <3> DEFINE u == Upto(m, end, n)
                   e == chain[n + 1]
        <3>1. u \in Seq(Events) /\ e \in Events /\ Upto(m, end, n + 1) = Append(u, e)
            BY <2>2, <2>8, Zenon
        <3> HIDE DEF u, e
        <3>2. Items(Append(u, e), "claim") =
                IF e.op = "claim" THEN Append(Items(u, "claim"), e.item) ELSE Items(u, "claim")
            BY <3>1, ItemsAppend
        <3>3. On(n + 1) = Items(Append(u, e), "claim") /\ On(n) = Items(u, "claim")
            BY <3>1, Zenon DEF u
        <3>4. CASE e.op = "claim"
            <4>1. sees
                BY <2>8, <3>4 DEF e
            <4>2. x.block_number \in m + 1..end
                BY <2>5, <2>8
            <4>3. bridge_exits_in_range(Append(seen, x), m + 1, end)
                        = Append(bridge_exits_in_range(seen, m + 1, end), x.claim)
                BY <2>4, <4>1, <4>2, Zenon DEF ExitAppends
            <4>4. In(n + 1) = Append(In(n), e.item)
                BY <2>1, <2>5, <4>1, <4>3, Zenon DEF e
            <4>5. On(n + 1) = Append(On(n), e.item)
                BY <3>2, <3>3, <3>4, Zenon
            <4> QED BY <2>0, <4>4, <4>5, Zenon
        <3>5. CASE e.op # "claim"
            <4>1. ~sees
                BY <3>5 DEF e
            <4>2. In(n + 1) = In(n)
                BY <2>1, <4>1, Zenon
            <4>3. On(n + 1) = On(n)
                BY <3>2, <3>3, <3>5, Zenon
            <4> QED BY <2>0, <4>2, <4>3, Zenon
        <3> QED BY <3>4, <3>5
    <2> QED BY <2>0, <2>6, <2>7, <2>8
<1> HIDE DEF N
<1>3. Nat \subseteq N
    BY <1>1, <1>2, NatInduct
<1>4. requested \in N
    BY <1>3
<1> QED BY <1>4 DEF N

\* A block with no GER, or with one, as a list.
LEMMA ListOfNone == SetToSeq({}) = <<>>
<1>1. Cardinality({}) = 0
    BY FS_EmptySet
<1>2. \A f \in [1..0 -> {}] : f = <<>>
    OBVIOUS
<1>3. <<>> \in [1..0 -> {}] /\ IsInjective(<<>>)
    BY DEF IsInjective
<1>4. SetToSeq({}) = CHOOSE f \in [1..0 -> {}] : IsInjective(f)
    BY <1>1, Zenon DEF SetToSeq
<1> QED BY <1>2, <1>3, <1>4, Zenon

LEMMA ListOfOne == ASSUME NEW g PROVE SetToSeq({g}) = <<g>>
<1>1. Cardinality({g}) = 1
    BY FS_Singleton
<1>2. \A f \in [1..1 -> {g}] : f = <<g>>
    OBVIOUS
<1>3. <<g>> \in [1..1 -> {g}] /\ IsInjective(<<g>>)
    BY DEF IsInjective
<1>4. SetToSeq({g}) = CHOOSE f \in [1..1 -> {g}] : IsInjective(f)
    BY <1>1, Zenon DEF SetToSeq
<1> QED BY <1>2, <1>3, <1>4, Zenon

\* A block holds one event, so the aggsender sees at most one GER in it.
OneGerPerBlock(gers) ==
    \A n \in Nat : GersAt(gers, n) = {} \/ \E g \in Gers : GersAt(gers, n) = {g}

\* The GERs of a request with one block more in range.
GersStep(gers, first, n) ==
    /\ sorted_inserted_gers(gers, first, n) \in Seq(Gers)
    /\ n + 1 < first \/ GersAt(gers, n + 1) = {} =>
          sorted_inserted_gers(gers, first, n + 1) = sorted_inserted_gers(gers, first, n)
    /\ \A g \in Gers : n + 1 >= first /\ GersAt(gers, n + 1) = {g} =>
          sorted_inserted_gers(gers, first, n + 1)
            = Append(sorted_inserted_gers(gers, first, n), g)

LEMMA SortedNone ==
    ASSUME NEW gers, NEW first PROVE sorted_inserted_gers(gers, first, 0) = <<>>
<1>1. [n \in 1..0 |-> IF n >= first THEN SetToSeq(GersAt(gers, n)) ELSE <<>>] = <<>>
    OBVIOUS
<1> QED BY <1>1, FlatEmpty DEF sorted_inserted_gers

LEMMA SortedStep ==
    ASSUME NEW gers, OneGerPerBlock(gers), NEW first \in Nat, NEW n \in Nat
    PROVE  GersStep(gers, first, n)
<1> DEFINE Piece(i) == IF i >= first THEN SetToSeq(GersAt(gers, i)) ELSE <<>>
           old == [i \in 1..n |-> Piece(i)]
           new == [i \in 1..n + 1 |-> Piece(i)]
<1>1. /\ sorted_inserted_gers(gers, first, n) = FlattenSeq(old)
      /\ sorted_inserted_gers(gers, first, n + 1) = FlattenSeq(new)
    BY DEF sorted_inserted_gers
<1>2. ASSUME NEW i \in Nat PROVE Piece(i) \in Seq(Gers)
    <2>1. <<>> \in Seq(Gers) /\ \A g \in Gers : <<g>> \in Seq(Gers)
        OBVIOUS
    <2>2. GersAt(gers, i) = {} \/ \E g \in Gers : GersAt(gers, i) = {g}
        BY DEF OneGerPerBlock
    <2>3. SetToSeq(GersAt(gers, i)) \in Seq(Gers)
        BY <2>1, <2>2, ListOfNone, ListOfOne, Zenon
    <2> QED BY <2>1, <2>3
<1>3. n + 1 < first \/ GersAt(gers, n + 1) = {} => Piece(n + 1) = <<>>
    <2>1. n + 1 < first => ~(n + 1 >= first)
        OBVIOUS
    <2> QED BY <2>1, ListOfNone, Zenon
<1>4. \A g \in Gers : n + 1 >= first /\ GersAt(gers, n + 1) = {g} => Piece(n + 1) = <<g>>
    BY ListOfOne, Zenon
<1> HIDE DEF Piece
<1>5. new \in [1..n + 1 -> Seq(Gers)] /\ old \in Seq(Seq(Gers))
    BY <1>2
<1>6. [i \in 1..n |-> new[i]] = old /\ new[n + 1] = Piece(n + 1)
    OBVIOUS
<1> HIDE DEF old, new
<1>7. FlattenSeq(old) \in Seq(Gers)
    BY <1>5, FlatType
<1>8. FlattenSeq(new) = FlattenSeq(old) \o Piece(n + 1)
    <2>1. FlatStep(new, n)
        BY <1>5, FlatFront
    <2> QED BY <1>6, <2>1, Zenon DEF FlatStep
<1> DEFINE s == sorted_inserted_gers(gers, first, n)
           t == sorted_inserted_gers(gers, first, n + 1)
           p == Piece(n + 1)
<1>9. s \in Seq(Gers) /\ t = s \o p
    BY <1>1, <1>7, <1>8, Zenon
<1> HIDE DEF s, t, p
<1>10. p = <<>> => t = s
    BY <1>9
<1>11. \A g \in Gers : p = <<g>> => t = Append(s, g)
    BY <1>9
<1> QED BY <1>3, <1>4, <1>9, <1>10, <1>11, Zenon DEF s, t, p, GersStep

LEMMA SortedType ==
    ASSUME NEW gers, OneGerPerBlock(gers), NEW first \in Nat, NEW n \in Nat
    PROVE  sorted_inserted_gers(gers, first, n) \in Seq(Gers)
BY SortedStep, Zenon DEF GersStep

\* The aggsender lists the GER of block n: the last insertion of it that it sees.
Kept(first, last, n) ==
    /\ n \in first..last /\ chain[n].op = "insert"
    /\ \A k \in n + 1..last : chain[k] # chain[n]

LEMMA SeenGers ==
    ASSUME chain \in Seq(Events), NEW first \in Nat \ {0}, NEW last \in Nat, last <= Len(chain),
           NEW n \in Nat
    PROVE  /\ Kept(first, last, n) => /\ GersAt(GersSeen(first, last), n) = {chain[n].item}
                                      /\ chain[n].item \in Gers
           /\ ~Kept(first, last, n) => GersAt(GersSeen(first, last), n) = {}
<1> DEFINE K == {k \in first..last : /\ chain[k].op = "insert"
                                     /\ \A j \in k + 1..last : chain[j] # chain[k]}
           seen == {[ger |-> chain[b].item, block_number |-> b] : b \in K}
           at == {g.ger : g \in {h \in seen : h.block_number = n}}
<1>1. GersAt(GersSeen(first, last), n) = at
    BY Zenon DEF GersAt, GersSeen
<1>2. n \in K <=> Kept(first, last, n)
    BY Zenon DEF Kept
<1>3. Kept(first, last, n) => chain[n].item \in Gers
    <2> SUFFICES ASSUME Kept(first, last, n) PROVE chain[n].item \in Gers
        OBVIOUS
    <2>1. chain[n] \in Events /\ chain[n].op = "insert"
        BY DEF Kept
    <2> QED BY <2>1, EventKinds DEF Events
<1> HIDE DEF K
<1>4. n \in K => at = {chain[n].item}
    <2> SUFFICES ASSUME n \in K PROVE at = {chain[n].item}
        OBVIOUS
    <2> DEFINE x == [ger |-> chain[n].item, block_number |-> n]
    <2>1. \A h \in seen : h.block_number = n => h = x
        OBVIOUS
    <2>2. x \in seen /\ x.block_number = n /\ x.ger = chain[n].item
        OBVIOUS
    <2> HIDE DEF seen, x
    <2>3. {h \in seen : h.block_number = n} = {x}
        BY <2>1, <2>2
    <2> QED BY <2>2, <2>3
<1>5. n \notin K => at = {}
    OBVIOUS
<1> QED BY <1>1, <1>2, <1>3, <1>4, <1>5, Zenon

LEMMA SeenOnePerBlock ==
    ASSUME chain \in Seq(Events), NEW first \in Nat \ {0}, NEW last \in Nat, last <= Len(chain)
    PROVE  OneGerPerBlock(GersSeen(first, last))
<1> SUFFICES ASSUME NEW n \in Nat
             PROVE  \/ GersAt(GersSeen(first, last), n) = {}
                    \/ \E g \in Gers : GersAt(GersSeen(first, last), n) = {g}
    BY DEF OneGerPerBlock
<1>1. /\ Kept(first, last, n) => /\ GersAt(GersSeen(first, last), n) = {chain[n].item}
                                 /\ chain[n].item \in Gers
      /\ ~Kept(first, last, n) => GersAt(GersSeen(first, last), n) = {}
    BY SeenGers
<1> QED BY <1>1, Zenon

\* No block after m, up to n, inserts a GER that an earlier one of them inserted.
InsertedOnce(m, n) ==
    \A i \in m + 1..n : chain[i].op = "insert" => \A j \in i + 1..n : chain[j] # chain[i]

\* The GERs of the request that are in range: not more than the chain inserted
\* between the last proven block and the end block, or the requested one if that is
\* lower, and exactly these if none was inserted twice.
GersDescribed(m, requested, end) ==
    LET listed == sorted_inserted_gers(GersSeen(m + 1, requested), m + 1, end)
        inserted == Items(Upto(m, requested, end), "insert")
    IN  /\ listed \in Seq(Gers) /\ inserted \in Seq(Gers)
        /\ Len(listed) <= Len(inserted)
        /\ InsertedOnce(m, requested) => listed = inserted

LEMMA GersDescribe ==
    ASSUME chain \in Seq(Events), NEW m \in Nat, NEW requested \in Nat,
           requested <= Len(chain), NEW end \in Nat
    PROVE  GersDescribed(m, requested, end)
<1> DEFINE gers == GersSeen(m + 1, requested)
           In(n) == sorted_inserted_gers(gers, m + 1, n)
           On(n) == Items(Upto(m, requested, n), "insert")
           N == {n \in Nat : /\ In(n) \in Seq(Gers) /\ On(n) \in Seq(Gers)
                             /\ Len(In(n)) <= Len(On(n))
                             /\ InsertedOnce(m, requested) => In(n) = On(n)}
<1>0. m + 1 \in Nat \ {0} /\ OneGerPerBlock(gers)
    <2>1. m + 1 \in Nat \ {0}
        OBVIOUS
    <2> QED BY <2>1, SeenOnePerBlock
<1>1. 0 \in N
    <2>1. In(0) = <<>>
        BY SortedNone
    <2>2. Upto(m, requested, 0) = <<>>
        BY DEF Upto
    <2>3. On(0) = <<>>
        BY <2>2, ItemsEmpty
    <2>4. <<>> \in Seq(Gers) /\ Len(<<>>) <= Len(<<>>)
        OBVIOUS
    <2>5. /\ In(0) \in Seq(Gers) /\ On(0) \in Seq(Gers) /\ Len(In(0)) <= Len(On(0))
          /\ In(0) = On(0)
        BY <2>1, <2>3, <2>4, Zenon
    <2> HIDE DEF In, On
    <2> QED BY <2>5
<1>2. ASSUME NEW n \in Nat, n \in N PROVE n + 1 \in N
    <2> DEFINE i == In(n)
               o == On(n)
               j == In(n + 1)
               p == On(n + 1)
               here == GersAt(gers, n + 1)
    <2>0. /\ i \in Seq(Gers) /\ o \in Seq(Gers) /\ Len(i) <= Len(o)
          /\ InsertedOnce(m, requested) => i = o
        BY <1>2
    <2>1. /\ n + 1 < m + 1 \/ here = {} => j = i
          /\ \A g \in Gers : n + 1 >= m + 1 /\ here = {g} => j = Append(i, g)
        <3> HIDE DEF gers
        <3>1. GersStep(gers, m + 1, n)
            BY <1>0, SortedStep
        <3> QED BY <3>1, Zenon DEF GersStep
    <2>2. /\ Kept(m + 1, requested, n + 1) => /\ here = {chain[n + 1].item}
                                              /\ chain[n + 1].item \in Gers
          /\ ~Kept(m + 1, requested, n + 1) => here = {}
        <3>1. n + 1 \in Nat
            OBVIOUS
        <3> QED BY <1>0, <3>1, SeenGers
    <2>3. CASE n + 1 <= m
        <3>1. j = i
            <4>1. n + 1 < m + 1
                BY <2>3
            <4> QED BY <2>1, <4>1, Zenon
        <3>2. Upto(m, requested, n + 1) = Upto(m, requested, n)
            <4>1. Upto(m, requested, n + 1) = <<>> /\ Upto(m, requested, n) = <<>>
                BY <2>3 DEF Upto
            <4> QED BY <4>1
        <3>3. p = o
            BY <3>2, Zenon
        <3> HIDE DEF i, j, o, p
        <3>4. /\ j \in Seq(Gers) /\ p \in Seq(Gers) /\ Len(j) <= Len(p)
              /\ InsertedOnce(m, requested) => j = p
            BY <2>0, <3>1, <3>3, Zenon
        <3> QED BY <3>4 DEF j, p
    <2>4. CASE m <= n /\ requested <= n
        <3>1. ~Kept(m + 1, requested, n + 1)
            BY <2>4 DEF Kept
        <3>2. j = i
            BY <2>1, <2>2, <3>1, Zenon
        <3>3. Upto(m, requested, n + 1) = Upto(m, requested, n)
            <4>1. requested < n + 1 /\ (~(requested < n) => requested = n)
                BY <2>4
            <4> QED BY <4>1 DEF Upto
        <3>4. p = o
            BY <3>3, Zenon
        <3> HIDE DEF i, j, o, p
        <3>5. /\ j \in Seq(Gers) /\ p \in Seq(Gers) /\ Len(j) <= Len(p)
              /\ InsertedOnce(m, requested) => j = p
            BY <2>0, <3>2, <3>4, Zenon
        <3> QED BY <3>5 DEF j, p
    <2>5. CASE m <= n /\ n + 1 <= requested
        <3> DEFINE u == Upto(m, requested, n)
                   e == chain[n + 1]
        <3>1. u \in Seq(Events) /\ e \in Events /\ Upto(m, requested, n + 1) = Append(u, e)
            <4>1. n < Len(chain)
                BY <2>5
            <4> QED BY <2>5, <4>1, UptoStep
        <3>2. p = IF e.op = "insert" THEN Append(o, e.item) ELSE o
            <4> HIDE DEF u, e
            <4>1. Items(Append(u, e), "insert") =
                    IF e.op = "insert" THEN Append(Items(u, "insert"), e.item) ELSE Items(u, "insert")
                BY <3>1, ItemsAppend
            <4> QED BY <3>1, <4>1, Zenon DEF u
        <3>3. e.op = "insert" => e.item \in Gers
            BY <3>1, EventKinds DEF Events
        <3>4. n + 1 >= m + 1 /\ n + 1 \in m + 1..requested
            BY <2>5
        <3>5. e.op # "insert" => ~Kept(m + 1, requested, n + 1)
            BY DEF Kept
        <3>6. InsertedOnce(m, requested) /\ e.op = "insert" => Kept(m + 1, requested, n + 1)
            BY <3>4, Zenon DEF Kept, InsertedOnce
        <3>7. e.op # "insert" => j = i /\ p = o
            BY <2>1, <2>2, <3>2, <3>5, Zenon
        <3>8. e.op = "insert" => /\ p = Append(o, e.item)
                                 /\ j = i \/ j = Append(i, e.item)
                                 /\ InsertedOnce(m, requested) => j = Append(i, e.item)
            BY <2>1, <2>2, <3>2, <3>4, <3>6, Zenon
        <3> HIDE DEF i, j, o, p, e
        <3>9. /\ j \in Seq(Gers) /\ p \in Seq(Gers) /\ Len(j) <= Len(p)
              /\ InsertedOnce(m, requested) => j = p
            <4>1. CASE e.op # "insert"
                BY <2>0, <3>7, <4>1, Zenon
            <4>2. CASE e.op = "insert"
                <5>1. e.item \in Gers
                    BY <3>3, <4>2
                <5>2. p \in Seq(Gers) /\ Len(p) = Len(o) + 1 /\ Len(o) \in Nat /\ Len(i) \in Nat
                    <6>1. p = Append(o, e.item)
                        BY <3>8, <4>2, Zenon
                    <6> QED BY <2>0, <5>1, <6>1
                <5>3. j \in Seq(Gers) /\ (Len(j) = Len(i) \/ Len(j) = Len(i) + 1)
                    <6>1. j = i \/ j = Append(i, e.item)
                        BY <3>8, <4>2, Zenon
                    <6>2. /\ i \in Seq(Gers) /\ Append(i, e.item) \in Seq(Gers)
                          /\ Len(Append(i, e.item)) = Len(i) + 1
                        BY <2>0, <5>1
                    <6> QED BY <6>1, <6>2, Zenon
                <5>4. InsertedOnce(m, requested) => j = p
                    BY <2>0, <3>8, <4>2, Zenon
                <5> QED BY <2>0, <5>2, <5>3, <5>4
            <4> QED BY <4>1, <4>2
        <3> QED BY <3>9 DEF j, p
    <2> QED BY <2>3, <2>4, <2>5
<1> HIDE DEF N
<1>3. Nat \subseteq N
    BY <1>1, <1>2, NatInduct
<1>4. end \in N
    BY <1>3
<1> QED BY <1>4 DEF N, GersDescribed

-----------------------------------------------------------------------------
(* The inductive invariant *)

\* b is a block as the RPC nodes had it at some moment since the submission: below
\* the last proven block it is the chain of now, and without a reorganisation above
\* it, too.
Past(b) ==
    /\ b \in Seq(Events)
    /\ \A i \in 1..Len(b) : i <= req.last_proven_block => b[i] = chain[i]
    /\ reorgs = 0 => Len(b) <= Len(chain) /\ \A i \in 1..Len(b) : b[i] = chain[i]

\* The request describes the chain as it was at the submission.
ReqInv ==
    /\ req.mode \in {"normal", "optimistic"}
    /\ req.last_proven_block \in Nat /\ req.requested_end_block \in Nat
    /\ req.last_proven_block < req.requested_end_block
    /\ req.last_proven_block <= Len(chain)
    /\ req.imported_bridge_exits \in Seq(Exits)
    /\ OneGerPerBlock(req.ger_leaves)
    /\ reorgs = 0 =>
          /\ req.requested_end_block <= Len(chain)
          /\ req.ger_leaves = GersSeen(req.last_proven_block + 1, req.requested_end_block)
          /\ req.imported_bridge_exits
                = ExitsSeen(req.last_proven_block + 1, req.requested_end_block)

\* What the aggregation proof or the signature is about: some range of a chain, or
\* the requested range.
ProofInv ==
    /\ req.mode = "normal" =>
          \E p, b \in Seq(Events) :
              /\ Past(b) /\ Len(p) <= Len(b) /\ p = SubSeq(b, 1, Len(p))
              /\ fep = public_values(get_l2_output_at_block(p), get_l2_output_at_block(b), Len(b))
    /\ req.mode = "optimistic" =>
          /\ end_block = req.requested_end_block
          /\ fep.pv.l2_block_number = req.requested_end_block
          /\ reorgs = 0 => fep = Signed(req.last_proven_block, req.requested_end_block)

\* The number of the block that a read is about.
NumberOf(i) == IF Reads[i] \in PrevReads THEN req.last_proven_block ELSE end_block

\* Each answer is about a block that had the right number at some moment.
ReadInv ==
    \A i \in 1..Len(fetched) : i # 5 =>
        \E b : Past(b) /\ Len(b) = NumberOf(i) /\ fetched[i] = Answer(Reads[i], b)

\* The request is being served, or was answered with a proof.
Open == pc \in {"proposer", "wait", "fetch", "prove"} \/ resp.status = "ok"

\* The builder has the request, or had it.
Building == pc \in {"fetch", "prove"} \/ resp.status = "ok"

IInv ==
    /\ chain \in Seq(Events) /\ reorgs \in Nat
    /\ reorgs = 0 => Admitted(chain)
    /\ end_block \in Nat
    /\ \E S : fetched \in Seq(S)
    /\ Len(fetched) <= Len(Reads)
    /\ pc # "done" => resp = None
    /\ pc = "idle" => reorgs = 0
    /\ pc \in {"idle", "proposer", "wait"} => fetched = <<>>
    /\ pc \in {"proposer", "wait"} => req.mode = "normal"
    /\ Open => ReqInv
    /\ Building => ProofInv /\ ReadInv
    /\ pc = "prove" \/ resp.status = "ok" => Len(fetched) = Len(Reads)
    /\ resp.status = "ok" => verify_aggchain_inputs /\ resp = AggchainProofServiceResponse

-----------------------------------------------------------------------------
(* What was read *)

LEMMA ReadIs ==
    /\ Len(Reads) = 7
    /\ Read("prev_local_exit_root") = fetched[1] /\ Read("new_local_exit_root") = fetched[2]
    /\ Read("l2_pre_root_output") = fetched[3] /\ Read("claim_root_output") = fetched[4]
    /\ Read("prev_l2_block_sketch") = fetched[6] /\ Read("new_l2_block_sketch") = fetched[7]
<1>1. /\ Len(Reads) = 7
      /\ Reads[1] = "prev_local_exit_root" /\ Reads[2] = "new_local_exit_root"
      /\ Reads[3] = "l2_pre_root_output" /\ Reads[4] = "claim_root_output"
      /\ Reads[5] = "op_succinct_config"
      /\ Reads[6] = "prev_l2_block_sketch" /\ Reads[7] = "new_l2_block_sketch"
    BY DEF Reads
<1> DEFINE At(name) == CHOOSE i \in 1..7 : Reads[i] = name
<1>2. \A name : Read(name) = fetched[At(name)]
    BY <1>1 DEF Read
<1>3. \A i \in 1..7 : i = 1 \/ i = 2 \/ i = 3 \/ i = 4 \/ i = 5 \/ i = 6 \/ i = 7
    OBVIOUS
<1>4. At("prev_local_exit_root") = 1 /\ At("new_local_exit_root") = 2
    BY <1>1, <1>3
<1>5. At("l2_pre_root_output") = 3 /\ At("claim_root_output") = 4
    BY <1>1, <1>3
<1>6. At("prev_l2_block_sketch") = 6 /\ At("new_l2_block_sketch") = 7
    BY <1>1, <1>3
<1> HIDE DEF At
<1> QED BY <1>1, <1>2, <1>4, <1>5, <1>6

\* Each read, with the number of its block.
LEMMA ReadAnswers ==
    ASSUME NEW b
    PROVE  /\ NumberOf(1) = req.last_proven_block /\ Answer(Reads[1], b) = getRoot(b)
           /\ NumberOf(2) = end_block /\ Answer(Reads[2], b) = getRoot(b)
           /\ NumberOf(3) = req.last_proven_block
           /\ Answer(Reads[3], b) = get_l2_output_at_block(b)
           /\ NumberOf(4) = end_block /\ Answer(Reads[4], b) = get_l2_output_at_block(b)
           /\ NumberOf(6) = req.last_proven_block
           /\ Answer(Reads[6], b) = get_prev_l2_block_sketch(b)
           /\ NumberOf(7) = end_block /\ Answer(Reads[7], b) = get_new_l2_block_sketch(b)
<1>1. /\ Reads[1] = "prev_local_exit_root" /\ Reads[2] = "new_local_exit_root"
      /\ Reads[3] = "l2_pre_root_output" /\ Reads[4] = "claim_root_output"
      /\ Reads[6] = "prev_l2_block_sketch" /\ Reads[7] = "new_l2_block_sketch"
    BY DEF Reads
<1>2. /\ NumberOf(1) = req.last_proven_block /\ NumberOf(2) = end_block
      /\ NumberOf(3) = req.last_proven_block /\ NumberOf(4) = end_block
      /\ NumberOf(6) = req.last_proven_block /\ NumberOf(7) = end_block
    BY <1>1 DEF NumberOf, PrevReads
<1>3. /\ Answer("prev_local_exit_root", b) = getRoot(b)
      /\ Answer("new_local_exit_root", b) = getRoot(b)
    BY DEF Answer, get_l2_local_exit_root
<1>4. /\ Answer("l2_pre_root_output", b) = get_l2_output_at_block(b)
      /\ Answer("claim_root_output", b) = get_l2_output_at_block(b)
    BY DEF Answer
<1>5. /\ Answer("prev_l2_block_sketch", b) = get_prev_l2_block_sketch(b)
      /\ Answer("new_l2_block_sketch", b) = get_new_l2_block_sketch(b)
    BY DEF Answer
<1> QED BY <1>1, <1>2, <1>3, <1>4, <1>5

\* A block that was read as the last proven one is the one that the chain has.
LEMMA PastIsBlock ==
    ASSUME chain \in Seq(Events), NEW b, Past(b),
           \/ Len(b) = req.last_proven_block /\ req.last_proven_block <= Len(chain)
           \/ reorgs = 0
    PROVE  b = Block(Len(b)) /\ Len(b) \in 0..Len(chain)
<1>1. b \in Seq(Events) /\ Len(b) \in 0..Len(chain) /\ \A i \in 1..Len(b) : b[i] = chain[i]
    BY DEF Past
<1> QED BY <1>1 DEF Block

\* All answers are there.
AllRead ==
    /\ PrevBlock = Block(req.last_proven_block)
    /\ Past(NewBlock) /\ Len(NewBlock) = end_block
    /\ Read("prev_local_exit_root") = getRoot(PrevBlock)
    /\ \E b : Past(b) /\ Len(b) = end_block /\ Read("new_local_exit_root") = getRoot(b)
    /\ Read("l2_pre_root_output") = get_l2_output_at_block(PrevBlock)
    /\ Read("claim_root_output") = get_l2_output_at_block(NewBlock)
    /\ Read("prev_l2_block_sketch") = get_prev_l2_block_sketch(PrevBlock)
    /\ \E b : /\ Past(b) /\ Len(b) = end_block
              /\ Read("new_l2_block_sketch") = get_new_l2_block_sketch(b)

LEMMA AllReadHolds ==
    ASSUME IInv, Building, Len(fetched) = Len(Reads)
    PROVE  AllRead
<1> DEFINE last == req.last_proven_block
<1>1. chain \in Seq(Events) /\ last <= Len(chain) /\ ReadInv
    BY DEF IInv, Open, Building, ReqInv
<1>2. Len(fetched) = 7
    BY ReadIs
<1>3. ASSUME NEW i \in 1..7, i # 5
      PROVE  \E b : Past(b) /\ Len(b) = NumberOf(i) /\ fetched[i] = Answer(Reads[i], b)
    BY <1>1, <1>2, <1>3, Zenon DEF ReadInv
<1>4. ASSUME NEW b, Past(b), Len(b) = last PROVE b = Block(last)
    BY <1>1, <1>4, PastIsBlock
<1>5. fetched[1] = getRoot(Block(last))
    BY <1>3, <1>4, ReadAnswers
<1>6. fetched[3] = get_l2_output_at_block(Block(last))
    BY <1>3, <1>4, ReadAnswers
<1>7. fetched[6] = get_prev_l2_block_sketch(Block(last))
    BY <1>3, <1>4, ReadAnswers
<1>8. \E b : Past(b) /\ Len(b) = end_block /\ fetched[2] = getRoot(b)
    BY <1>3, ReadAnswers
<1>9. PICK b : Past(b) /\ Len(b) = end_block /\ fetched[4] = get_l2_output_at_block(b)
    BY <1>3, ReadAnswers
<1>10. \E c : Past(c) /\ Len(c) = end_block /\ fetched[7] = get_new_l2_block_sketch(c)
    BY <1>3, ReadAnswers
<1>11. \A c : get_l2_output_at_block(c).latest_block_hash = c
    BY DEF get_l2_output_at_block
<1>12. PrevBlock = Block(last) /\ NewBlock = b
    BY <1>6, <1>9, <1>11, ReadIs DEF PrevBlock, NewBlock
<1> QED BY <1>5, <1>6, <1>7, <1>8, <1>9, <1>10, <1>12, ReadIs, Zenon DEF AllRead

-----------------------------------------------------------------------------
(* What a proof is about *)

\* The GERs that are given to the program.
ListedGers == sorted_inserted_gers(req.ger_leaves, req.last_proven_block + 1, end_block)

\* What the program checks of the bridge, in terms of the blocks that were read.
BridgeChecked ==
    /\ Extends(PrevBlock, ListedGers, NewBlock, "insert")
    /\ Extends(PrevBlock, <<>>, NewBlock, "remove")
    /\ Extends(PrevBlock, CommittedClaims, NewBlock, "claim")
    /\ Extends(PrevBlock, <<>>, NewBlock, "unset")
    /\ \A i \in 1..Len(ListedGers) : ListedGers[i] \in req.l1_info_root
    /\ Read("new_local_exit_root") = getRoot(NewBlock)

LEMMA BridgeVerified == ASSUME verify(bridge_constraints_input) PROVE BridgeChecked
<1> DEFINE input == bridge_constraints_input
           w == input.bridge_witness
<1>1. /\ w.raw_inserted_gers = ListedGers /\ w.inserted_gers = ListedGers
      /\ w.removed_gers = <<>> /\ w.global_indices_unset = <<>>
      /\ w.bridge_exits_claimed = CommittedClaims
      /\ input.prev_l2_block_hash = PrevBlock /\ input.new_l2_block_hash = NewBlock
      /\ input.l1_info_root = req.l1_info_root
      /\ input.new_local_exit_root = Read("new_local_exit_root")
    BY DEF bridge_constraints_input, ListedGers
<1> HIDE DEF input
<1>2. /\ Extends(input.prev_l2_block_hash, w.raw_inserted_gers, input.new_l2_block_hash, "insert")
      /\ Extends(input.prev_l2_block_hash, w.removed_gers, input.new_l2_block_hash, "remove")
      /\ Extends(input.prev_l2_block_hash, w.bridge_exits_claimed, input.new_l2_block_hash, "claim")
      /\ Extends(input.prev_l2_block_hash, w.global_indices_unset, input.new_l2_block_hash, "unset")
      /\ \A i \in 1..Len(w.inserted_gers) : w.inserted_gers[i] \in input.l1_info_root
      /\ input.new_local_exit_root = getRoot(input.new_l2_block_hash)
    <2>1. verify(input)
        BY DEF input
    <2> QED BY <2>1, VerifyMeans, Zenon
<1> HIDE DEF w
<1> QED BY <1>1, <1>2, Zenon DEF BridgeChecked

\* What the two blocks have to do with each other.
Ordered ==
    /\ PrevBlock \in Seq(Events) /\ NewBlock \in Seq(Events)
    /\ Len(PrevBlock) = req.last_proven_block /\ Len(NewBlock) = end_block
    /\ req.last_proven_block <= end_block =>
          Joins(NewBlock, PrevBlock, SubSeq(NewBlock, Len(PrevBlock) + 1, Len(NewBlock)))
    /\ end_block < req.last_proven_block =>
          Joins(PrevBlock, NewBlock, SubSeq(PrevBlock, Len(NewBlock) + 1, Len(PrevBlock)))
    /\ req.last_proven_block <= end_block => IsPrefix(PrevBlock, NewBlock)
    /\ end_block < req.last_proven_block => IsPrefix(NewBlock, PrevBlock)

LEMMA JoinOf ==
    ASSUME NEW E, NEW p \in Seq(E), NEW b \in Seq(E), Len(p) <= Len(b),
           \A i \in 1..Len(p) : b[i] = p[i]
    PROVE  /\ Joins(b, p, SubSeq(b, Len(p) + 1, Len(b)))
           /\ IsPrefix(p, b)
<1>1. SubSeq(b, 1, Len(p)) = p /\ SubSeq(b, 1, Len(b)) = b /\ SubSeq(p, 1, Len(p)) = p
    OBVIOUS
<1>2. Joins(SubSeq(b, 1, Len(b)), SubSeq(b, 1, Len(p)), SubSeq(b, Len(p) + 1, Len(b)))
    <2>1. Len(p) \in 0..Len(b) /\ Len(b) \in Len(p)..Len(b)
        OBVIOUS
    <2> QED BY <2>1, RangeConcat
<1>3. IsPrefix(p, b)
    BY <1>1, Zenon DEF IsPrefix
<1> QED BY <1>1, <1>2, <1>3, Zenon

LEMMA OrderedHolds ==
    ASSUME IInv, Building, Len(fetched) = Len(Reads)
    PROVE  Ordered
<1> DEFINE last == req.last_proven_block
           P == PrevBlock
           Q == NewBlock
<1>1. AllRead
    BY AllReadHolds
<1>2. chain \in Seq(Events) /\ last \in Nat /\ last <= Len(chain) /\ end_block \in Nat
    BY DEF IInv, Open, Building, ReqInv
<1>3. P = Block(last) /\ Past(Q) /\ Len(Q) = end_block
    BY <1>1, Zenon DEF AllRead
<1> HIDE DEF P, Q
<1>4. P \in Seq(Events) /\ Len(P) = last /\ \A i \in 1..last : P[i] = chain[i]
    BY <1>2, <1>3 DEF Block
<1>5. Q \in Seq(Events) /\ \A i \in 1..Len(Q) : i <= last => Q[i] = chain[i]
    BY <1>3, Zenon DEF Past
<1> HIDE DEF last
<1>6. last <= end_block =>
        Joins(Q, P, SubSeq(Q, Len(P) + 1, Len(Q))) /\ IsPrefix(P, Q)
    <2> SUFFICES ASSUME last <= end_block
                 PROVE  Joins(Q, P, SubSeq(Q, Len(P) + 1, Len(Q))) /\ IsPrefix(P, Q)
        OBVIOUS
    <2>1. Len(P) <= Len(Q) /\ \A i \in 1..Len(P) : Q[i] = P[i]
        BY <1>2, <1>3, <1>4, <1>5
    <2> QED BY <1>4, <1>5, <2>1, JoinOf
<1>7. end_block < last =>
        Joins(P, Q, SubSeq(P, Len(Q) + 1, Len(P))) /\ IsPrefix(Q, P)
    <2> SUFFICES ASSUME end_block < last
                 PROVE  Joins(P, Q, SubSeq(P, Len(Q) + 1, Len(P))) /\ IsPrefix(Q, P)
        OBVIOUS
    <2>1. Len(Q) <= Len(P) /\ \A i \in 1..Len(Q) : P[i] = Q[i]
        BY <1>2, <1>3, <1>4, <1>5
    <2> QED BY <1>4, <1>5, <2>1, JoinOf
<1> QED BY <1>3, <1>4, <1>5, <1>6, <1>7, Zenon DEF Ordered, P, Q, last

\* A list that extends the chain of a block to the one of a block below it is empty.
LEMMA ExtendsBelow ==
    ASSUME NEW E, NEW T, NEW op, \A e \in E : e.op = op => e.item \in T,
           NEW p \in Seq(E), NEW b \in Seq(E), NEW r \in Seq(E), Joins(p, b, r),
           NEW list \in Seq(T), Extends(p, list, b, op)
    PROVE  list = <<>>
<1> DEFINE ip == Items(p, op)
           ib == Items(b, op)
           ir == Items(r, op)
<1>1. ip \in Seq(T) /\ ib \in Seq(T) /\ ir \in Seq(T)
    BY ItemsType
<1>2. ip = ib \o ir
    <2>1. ItemsJoin(b, r, op)
        BY ItemsConcat
    <2> QED BY <2>1, Zenon DEF ItemsJoin, Joins
<1>3. ip \o list = ib
    BY Zenon DEF Extends
<1> HIDE DEF ip, ib, ir
<1>4. Len(ip) = Len(ib) + Len(ir) /\ Len(ib) = Len(ip) + Len(list)
    <2>1. Len(ib \o ir) = Len(ib) + Len(ir) /\ Len(ip \o list) = Len(ip) + Len(list)
        BY <1>1
    <2> QED BY <1>2, <1>3, <2>1
<1>5. Len(list) = 0
    BY <1>1, <1>4
<1> QED BY <1>5

LEMMA SinceIs ==
    ASSUME Ordered, req.last_proven_block \in Nat, end_block \in Nat,
           NEW T, NEW op, \A e \in Events : e.op = op => e.item \in T,
           NEW list \in Seq(T), Extends(PrevBlock, list, NewBlock, op)
    PROVE  list = Since(PrevBlock, NewBlock, op)
<1> DEFINE P == PrevBlock
           Q == NewBlock
           r == SubSeq(Q, Len(P) + 1, Len(Q))
           s == SubSeq(P, Len(Q) + 1, Len(P))
<1>1. /\ P \in Seq(Events) /\ Q \in Seq(Events)
      /\ Len(P) = req.last_proven_block /\ Len(Q) = end_block
      /\ req.last_proven_block <= end_block => Joins(Q, P, r)
      /\ end_block < req.last_proven_block => Joins(P, Q, s)
    BY Zenon DEF Ordered
<1>2. Extends(P, list, Q, op) /\ Since(P, Q, op) = Items(r, op)
    BY Zenon DEF Since
<1> HIDE DEF P, Q
<1>3. CASE req.last_proven_block <= end_block
    <2>1. r \in Seq(Events)
        BY <1>1, <1>3
    <2> HIDE DEF r
    <2>2. Joins(Q, P, r)
        BY <1>1, <1>3
    <2>3. list = Items(r, op)
        BY <1>1, <1>2, <2>1, <2>2, ExtendsRange
    <2> QED BY <1>2, <2>3 DEF P, Q
<1>4. CASE end_block < req.last_proven_block
    <2>1. s \in Seq(Events) /\ r = <<>>
        BY <1>1, <1>4
    <2> HIDE DEF s, r
    <2>2. Joins(P, Q, s)
        BY <1>1, <1>4
    <2>3. list = <<>>
        BY <1>1, <1>2, <2>1, <2>2, ExtendsBelow
    <2> QED BY <1>2, <2>1, <2>3, ItemsEmpty, Zenon DEF P, Q
<1> QED BY <1>3, <1>4

\* The lists that the program is given are the ones of the range between the blocks.
OfTheRange ==
    /\ ListedGers \in Seq(Gers) /\ CommittedClaims \in Seq(Claims)
    /\ CommittedClaims = Since(PrevBlock, NewBlock, "claim")
    /\ ListedGers = Since(PrevBlock, NewBlock, "insert")
    /\ Since(PrevBlock, NewBlock, "remove") = <<>> /\ Since(PrevBlock, NewBlock, "unset") = <<>>

LEMMA ListsDescribe ==
    ASSUME IInv, Building, Len(fetched) = Len(Reads), BridgeChecked
    PROVE  OfTheRange
<1>1. /\ req.last_proven_block \in Nat /\ end_block \in Nat
      /\ req.imported_bridge_exits \in Seq(Exits) /\ OneGerPerBlock(req.ger_leaves)
    BY DEF IInv, Open, Building, ReqInv
<1>2. Ordered
    BY OrderedHolds
<1>3. /\ Extends(PrevBlock, ListedGers, NewBlock, "insert")
      /\ Extends(PrevBlock, <<>>, NewBlock, "remove")
      /\ Extends(PrevBlock, CommittedClaims, NewBlock, "claim")
      /\ Extends(PrevBlock, <<>>, NewBlock, "unset")
    BY Zenon DEF BridgeChecked
<1>4. ListedGers \in Seq(Gers)
    <2>1. req.last_proven_block + 1 \in Nat
        BY <1>1
    <2> QED BY <1>1, <2>1, SortedType DEF ListedGers
<1>5. CommittedClaims \in Seq(Claims)
    BY <1>1, ExitsType DEF CommittedClaims
<1>6. <<>> \in Seq(Gers) /\ <<>> \in Seq({c.global_index : c \in Claims})
    OBVIOUS
<1>7. /\ \A e \in Events : e.op = "insert" => e.item \in Gers
      /\ \A e \in Events : e.op = "remove" => e.item \in Gers
      /\ \A e \in Events : e.op = "claim" => e.item \in Claims
      /\ \A e \in Events : e.op = "unset" => e.item \in {c.global_index : c \in Claims}
    BY EventKinds DEF Events
<1>8. ListedGers = Since(PrevBlock, NewBlock, "insert")
    BY ONLY <1>1, <1>2, <1>3, <1>4, <1>7, SinceIs
<1>9. <<>> = Since(PrevBlock, NewBlock, "remove")
    BY ONLY <1>1, <1>2, <1>3, <1>6, <1>7, SinceIs
<1>10. CommittedClaims = Since(PrevBlock, NewBlock, "claim")
    BY ONLY <1>1, <1>2, <1>3, <1>5, <1>7, SinceIs
<1>11. <<>> = Since(PrevBlock, NewBlock, "unset")
    BY ONLY <1>1, <1>2, <1>3, <1>6, <1>7, SinceIs
<1> QED BY <1>4, <1>5, <1>8, <1>9, <1>10, <1>11, Zenon DEF OfTheRange

\* What holds once there is a proof.
LEMMA Proven ==
    ASSUME IInv, resp.status = "ok"
    PROVE  /\ Building /\ Len(fetched) = Len(Reads) /\ fep_verify
           /\ BridgeChecked /\ OfTheRange /\ Ordered /\ AllRead
           /\ resp = AggchainProofServiceResponse
<1>1. Building /\ Len(fetched) = Len(Reads)
    BY DEF IInv, Building
<1>2. fep_verify /\ verify(bridge_constraints_input) /\ resp = AggchainProofServiceResponse
    BY Zenon DEF IInv, verify_aggchain_inputs
<1>3. BridgeChecked
    BY <1>2, BridgeVerified
<1> QED BY <1>1, <1>2, <1>3, ListsDescribe, OrderedHolds, AllReadHolds

LEMMA OneChain == IInv => ProofOfOneChain
<1> SUFFICES ASSUME IInv, resp.status = "ok" PROVE ProofOfOneChain
    BY Zenon DEF ProofOfOneChain
<1> DEFINE P == PrevBlock
           Q == NewBlock
<1>1. /\ BridgeChecked /\ OfTheRange /\ Ordered /\ AllRead
      /\ resp = AggchainProofServiceResponse
    BY Proven
<1>2. req.last_proven_block \in Nat /\ end_block \in Nat
    BY DEF IInv, Open, ReqInv
<1>3. /\ resp.prev_local_exit_root = Read("prev_local_exit_root")
      /\ resp.new_local_exit_root = Read("new_local_exit_root")
      /\ resp.commit_imported_bridge_exits = CommittedClaims
    BY <1>1 DEF AggchainProofServiceResponse
<1>4. Len(Q) = end_block
    BY <1>1, Zenon DEF Ordered
<1>5. IF end_block < req.last_proven_block THEN IsPrefix(Q, P) ELSE IsPrefix(P, Q)
    <2>1. ~(end_block < req.last_proven_block) => req.last_proven_block <= end_block
        BY <1>2
    <2> QED BY <1>1, <2>1, Zenon DEF Ordered
<1>6. resp.prev_local_exit_root = getRoot(P) /\ resp.new_local_exit_root = getRoot(Q)
    BY <1>1, <1>3, Zenon DEF AllRead, BridgeChecked
<1>7. ToSet(Since(P, Q, "insert")) \subseteq req.l1_info_root
    <2> DEFINE gers == ListedGers
    <2>1. /\ gers \in Seq(Gers) /\ gers = Since(P, Q, "insert")
          /\ \A i \in 1..Len(gers) : gers[i] \in req.l1_info_root
        BY <1>1, Zenon DEF OfTheRange, BridgeChecked
    <2> HIDE DEF gers
    <2>2. ToSet(gers) \subseteq req.l1_info_root
        BY <2>1 DEF ToSet
    <2> QED BY <2>1, <2>2, Zenon
<1>8. /\ resp.commit_imported_bridge_exits = Since(P, Q, "claim")
      /\ Since(P, Q, "remove") = <<>> /\ Since(P, Q, "unset") = <<>>
    BY <1>1, <1>3, Zenon DEF OfTheRange
<1> QED BY <1>4, <1>5, <1>6, <1>7, <1>8, Zenon DEF ProofOfOneChain

LEMMA ContextDescribes == IInv => ContextDescribesProof
<1> SUFFICES ASSUME IInv, resp.status = "ok" PROVE ContextDescribesProof
    BY Zenon DEF ContextDescribesProof
<1> DEFINE c == resp.context
<1>1. OfTheRange /\ resp = AggchainProofServiceResponse
    BY Proven
<1>2. c = context(req, end_block)
    BY <1>1 DEF AggchainProofServiceResponse
<1>3. /\ c.last_proven_block = req.last_proven_block /\ c.end_block = end_block
      /\ c.ibe = req.imported_bridge_exits /\ c.ger = req.ger_leaves
    BY <1>2 DEF context
<1> HIDE DEF c
<1>4. /\ bridge_exits_in_range(c.ibe, c.last_proven_block + 1, c.end_block) = CommittedClaims
      /\ sorted_inserted_gers(c.ger, c.last_proven_block + 1, c.end_block) = ListedGers
    BY <1>3, Zenon DEF CommittedClaims, ListedGers
<1> QED BY <1>1, <1>4, Zenon DEF OfTheRange, ContextDescribesProof, c

\* The public values that the program computes from the reads.
LEMMA PublicValuesAre ==
    ASSUME AllRead
    PROVE  /\ FepPublicValues.l2_pre_root = StateRoot(PrevBlock)
           /\ FepPublicValues.l2_post_root = StateRoot(NewBlock)
           /\ FepPublicValues.l2_block_number = claim_block_num(end_block)
           /\ compute_output_root(Read("claim_root_output")) = StateRoot(NewBlock)
<1>1. /\ Read("l2_pre_root_output") = get_l2_output_at_block(PrevBlock)
      /\ Read("claim_root_output") = get_l2_output_at_block(NewBlock)
    BY Zenon DEF AllRead
<1>2. \A b : compute_output_root(get_l2_output_at_block(b)) = StateRoot(b)
    BY DEF compute_output_root, get_l2_output_at_block
<1>3. /\ FepPublicValues.l2_pre_root = compute_output_root(Read("l2_pre_root_output"))
      /\ FepPublicValues.l2_post_root = compute_output_root(Read("claim_root_output"))
      /\ FepPublicValues.l2_block_number = claim_block_num(end_block)
    BY DEF FepPublicValues, public_values
<1> QED BY <1>1, <1>2, <1>3, Zenon

\* In normal mode, these are the ones of the aggregation proof.
NormalFep(p, b) ==
    /\ p \in Seq(Events) /\ b \in Seq(Events) /\ Past(b) /\ Len(p) \in 0..Len(b)
    /\ p = SubSeq(b, 1, Len(p))
    /\ StateRoot(PrevBlock) = StateRoot(p) /\ StateRoot(NewBlock) = StateRoot(b)
    /\ claim_block_num(end_block) = Len(b)

LEMMA NormalProven ==
    ASSUME IInv, resp.status = "ok", req.mode = "normal"
    PROVE  \E p, b : NormalFep(p, b)
<1>1. ProofInv /\ fep_verify /\ AllRead
    BY Proven DEF IInv, Building
<1>2. PICK p \in Seq(Events), b \in Seq(Events) :
          /\ Past(b) /\ Len(p) <= Len(b) /\ p = SubSeq(b, 1, Len(p))
          /\ fep = public_values(get_l2_output_at_block(p), get_l2_output_at_block(b), Len(b))
    BY <1>1, Zenon DEF ProofInv
<1>3. fep = FepPublicValues
    <2>1. req.mode # "optimistic"
        OBVIOUS
    <2> QED BY <1>1, <2>1, Zenon DEF fep_verify
<1>4. /\ fep.l2_pre_root = StateRoot(p) /\ fep.l2_post_root = StateRoot(b)
      /\ fep.l2_block_number = Len(b)
    <2>1. \A c : compute_output_root(get_l2_output_at_block(c)) = StateRoot(c)
        BY DEF compute_output_root, get_l2_output_at_block
    <2> QED BY <1>2, <2>1 DEF public_values
<1>5. Len(p) \in 0..Len(b)
    BY <1>2
<1>6. NormalFep(p, b)
    BY <1>1, <1>2, <1>3, <1>4, <1>5, PublicValuesAre, Zenon DEF NormalFep
<1> QED BY <1>6

\* In optimistic mode, the number that was signed is the requested one.
LEMMA OptimisticProven ==
    ASSUME IInv, resp.status = "ok", req.mode = "optimistic"
    PROVE  end_block = req.requested_end_block /\ claim_block_num(end_block) = end_block
<1>1. ProofInv /\ fep_verify /\ AllRead
    BY Proven DEF IInv, Building
<1>2. /\ end_block = req.requested_end_block
      /\ fep.pv.l2_block_number = req.requested_end_block
    BY <1>1, Zenon DEF ProofInv
<1>3. fep.pv = FepPublicValues
    BY <1>1 DEF fep_verify
<1> QED BY <1>1, <1>2, <1>3, PublicValuesAre, Zenon

LEMMA NumberExact == IInv => BlockNumberExact
<1> SUFFICES ASSUME IInv, resp.status = "ok" PROVE BlockNumberExact
    BY Zenon DEF BlockNumberExact
<1> DEFINE number == resp.aggchain_params.l2_block_number
           data == resp.custom_chain_data
<1>1. AllRead /\ resp = AggchainProofServiceResponse
    BY Proven
<1>2. /\ number = claim_block_num(end_block) /\ data.l2_block_number = end_block
      /\ data.output_root = StateRoot(NewBlock)
    <2>1. /\ resp.aggchain_params = FepPublicValues
          /\ data = compute_custom_chain_data(compute_output_root(Read("claim_root_output")),
                                              end_block)
        BY <1>1 DEF AggchainProofServiceResponse
    <2>2. /\ data.l2_block_number = end_block
          /\ data.output_root = compute_output_root(Read("claim_root_output"))
        BY <2>1 DEF compute_custom_chain_data
    <2> QED BY <1>1, <2>1, <2>2, PublicValuesAre, Zenon
<1> HIDE DEF number, data
<1>3. req.mode = "optimistic" => number = data.l2_block_number
    BY <1>2, OptimisticProven
<1>4. chain \in Seq(Events) /\ req.mode \in {"normal", "optimistic"}
    BY DEF IInv, Open, ReqInv
<1>5. ASSUME reorgs = 0 PROVE StateRoot(Block(number)) = data.output_root
    <2>1. CASE req.mode = "normal"
        <3>1. PICK p, b : NormalFep(p, b)
            BY <2>1, NormalProven
        <3>2. Past(b) /\ number = Len(b) /\ data.output_root = StateRoot(b)
            BY <1>2, <3>1, Zenon DEF NormalFep
        <3>3. b = Block(Len(b))
            BY <1>4, <1>5, <3>2, PastIsBlock
        <3> QED BY <3>2, <3>3, Zenon
    <2>2. CASE req.mode = "optimistic"
        <3>1. number = end_block
            BY <1>2, <2>2, OptimisticProven
        <3>2. Past(NewBlock) /\ Len(NewBlock) = end_block
            BY <1>1, Zenon DEF AllRead
        <3>3. NewBlock = Block(Len(NewBlock))
            BY <1>4, <1>5, <3>2, PastIsBlock
        <3>4. NewBlock = Block(number)
            BY <3>1, <3>2, <3>3, Zenon
        <3> QED BY <1>2, <3>4, Zenon
    <2> QED BY <1>4, <2>1, <2>2
<1> QED BY <1>3, <1>5, Zenon DEF BlockNumberExact, number, data

\* A block below the last proven one has its state, for it is also the later block
\* of some range.
LEMMA BelowSame ==
    ASSUME IInv, resp.status = "ok", end_block < req.last_proven_block
    PROVE  StateRoot(NewBlock) = StateRoot(PrevBlock)
<1> DEFINE P == PrevBlock
           Q == NewBlock
<1>1. Ordered
    BY Proven
<1>2. /\ req.last_proven_block \in Nat /\ req.requested_end_block \in Nat /\ end_block \in Nat
      /\ req.last_proven_block < req.requested_end_block /\ req.mode \in {"normal", "optimistic"}
    BY DEF IInv, Open, ReqInv
<1>3. req.mode = "normal"
    <2>1. CASE req.mode = "optimistic"
        <3>1. end_block = req.requested_end_block
            BY <2>1, OptimisticProven
        <3> QED BY <1>2, <3>1
    <2> QED BY <1>2, <2>1
<1>4. PICK p, b : NormalFep(p, b)
    BY <1>3, NormalProven
<1>5. /\ b \in Seq(Events) /\ Len(p) \in 0..Len(b) /\ p = SubSeq(b, 1, Len(p))
      /\ StateRoot(P) = StateRoot(p) /\ StateRoot(Q) = StateRoot(b)
    BY <1>4, Zenon DEF NormalFep
<1>6. /\ P \in Seq(Events) /\ Q \in Seq(Events) /\ Len(P) = req.last_proven_block
      /\ Len(Q) = end_block /\ IsPrefix(Q, P)
    BY <1>1, Zenon DEF Ordered
<1> HIDE DEF P, Q
<1>7. Len(Q) \in 0..Len(P) /\ Q = SubSeq(P, 1, Len(Q))
    <2>1. SubSeq(Q, 1, Len(Q)) = Q
        BY <1>6
    <2> QED BY <1>6, <2>1 DEF IsPrefix
<1> DEFINE sp == StateRoot(P)
           sq == StateRoot(Q)
<1>8. /\ Len(sp) \in Nat /\ Len(sq) \in Nat
      /\ sq = sp \/ Len(sq) < Len(sp)
    <2>1. StateRoot(SubSeq(P, 1, Len(Q))) = sq
        BY <1>7, Zenon
    <2> HIDE DEF sq
    <2> QED BY <1>6, <1>7, <2>1, StateBelow
<1>9. sp = sq \/ Len(sp) < Len(sq)
    <2>1. StateRoot(SubSeq(b, 1, Len(p))) = sp /\ StateRoot(b) = sq
        BY <1>5, Zenon
    <2> HIDE DEF sp, sq
    <2> QED BY <1>5, <2>1, StateBelow
<1> HIDE DEF sp, sq
<1>10. sp = sq
    BY <1>8, <1>9
<1> QED BY <1>10 DEF sp, sq, P, Q

\* A range of a block of the chain is one of the chain.
LEMMA RangeOfBlock ==
    ASSUME NEW E, NEW b \in Seq(E), NEW m \in Nat, NEW k \in Nat, NEW n \in Nat,
           k <= n, n <= Len(b)
    PROVE  SubSeq(SubSeq(b, 1, n), m + 1, k) = SubSeq(b, m + 1, k)
<1> DEFINE c == SubSeq(b, 1, n)
<1>1. c \in Seq(E) /\ Len(c) = n /\ \A i \in 1..n : c[i] = b[i]
    OBVIOUS
<1> HIDE DEF c
<1>2. SubSeq(c, m + 1, k) = SubSeq(b, m + 1, k)
    BY <1>1
<1> QED BY <1>2 DEF c

\* Three blocks m, k and n of a chain: the range between the outer two.
LEMMA RangeSplit ==
    ASSUME NEW E, NEW b \in Seq(E), NEW m \in Nat, NEW k \in Nat, NEW n \in Nat,
           m <= k, k <= n, n <= Len(b)
    PROVE  /\ SubSeq(b, m + 1, k) \in Seq(E) /\ SubSeq(b, k + 1, n) \in Seq(E)
           /\ SubSeq(b, m + 1, n) \in Seq(E)
           /\ Joins(SubSeq(b, m + 1, n), SubSeq(b, m + 1, k), SubSeq(b, k + 1, n))
<1> DEFINE r == SubSeq(b, m + 1, n)
           s == SubSeq(b, m + 1, k)
           t == SubSeq(b, k + 1, n)
<1>1. /\ r \in Seq(E) /\ Len(r) = n - m /\ \A i \in 1..n - m : r[i] = b[m + i]
      /\ s \in Seq(E) /\ Len(s) = k - m /\ \A i \in 1..k - m : s[i] = b[m + i]
      /\ t \in Seq(E) /\ Len(t) = n - k /\ \A i \in 1..n - k : t[i] = b[k + i]
    OBVIOUS
<1> HIDE DEF r, s, t
<1>2. /\ s \o t \in Seq(E) /\ Len(s \o t) = n - m
      /\ \A i \in 1..n - m : (s \o t)[i] = IF i <= k - m THEN s[i] ELSE t[i - (k - m)]
    <2> DEFINE x == Len(s)
               y == Len(t)
    <2>0. s \in Seq(E) /\ t \in Seq(E)
        BY <1>1
    <2>1. s \o t \in Seq(E) /\ Len(s \o t) = x + y
        BY ONLY <2>0
    <2>2. \A i \in 1..x + y : (s \o t)[i] = IF i <= x THEN s[i] ELSE t[i - x]
        BY ONLY <2>0
    <2>3. x + y = n - m /\ x = k - m
        BY <1>1
    <2> HIDE DEF x, y
    <2> QED BY <2>1, <2>2, <2>3
<1>3. \A i \in 1..n - m : (s \o t)[i] = r[i]
    <2> SUFFICES ASSUME NEW i \in 1..n - m PROVE (s \o t)[i] = r[i]
        OBVIOUS
    <2>1. CASE i <= k - m
        <3>1. i \in 1..k - m
            BY <2>1
        <3> QED BY <1>1, <1>2, <2>1, <3>1
    <2>2. CASE ~(i <= k - m)
        <3>1. i - (k - m) \in 1..n - k /\ k + (i - (k - m)) = m + i
            BY <2>2
        <3>2. t[i - (k - m)] = b[m + i]
            BY <1>1, <3>1
        <3> QED BY <1>1, <1>2, <2>2, <3>2
    <2> QED BY <2>1, <2>2
<1> DEFINE c == s \o t
<1>4. c \in Seq(E) /\ Len(c) = Len(r) /\ \A i \in 1..Len(r) : c[i] = r[i]
    BY <1>1, <1>2, <1>3
<1> HIDE DEF c
<1>5. r = c
    BY <1>1, <1>4
<1> QED BY <1>1, <1>5, Zenon DEF Joins, c, r, s, t

\* A range with no more items than its first part has none in the rest.
LEMMA NothingAdded ==
    ASSUME NEW E, NEW T, NEW op, \A e \in E : e.op = op => e.item \in T,
           NEW s \in Seq(E), NEW t \in Seq(E), NEW r, Joins(r, s, t),
           Len(Items(r, op)) <= Len(Items(s, op))
    PROVE  Items(t, op) = <<>>
<1> DEFINE is == Items(s, op)
           it == Items(t, op)
           ir == Items(r, op)
<1>1. is \in Seq(T) /\ it \in Seq(T)
    BY ItemsType
<1>2. ir = is \o it
    <2>1. ItemsJoin(s, t, op)
        BY ItemsConcat
    <2> QED BY <2>1, Zenon DEF ItemsJoin, Joins
<1> HIDE DEF is, it, ir
<1>3. Len(ir) = Len(is) + Len(it)
    <2>1. Len(is \o it) = Len(is) + Len(it)
        BY <1>1
    <2> QED BY <1>2, <2>1, Zenon
<1>4. Len(ir) <= Len(is)
    BY DEF ir, is
<1>5. Len(it) = 0
    BY <1>1, <1>3, <1>4
<1> QED BY <1>1, <1>5 DEF it

LEMMA UnaskedNothing == IInv => UnaskedEndBlock
<1> SUFFICES ASSUME IInv, resp.status = "ok" PROVE UnaskedEndBlock
    BY Zenon DEF UnaskedEndBlock
<1> DEFINE last == req.last_proven_block
           requested == req.requested_end_block
           Q == NewBlock
           added == SubSeq(Q, requested + 1, end_block)
<1>1. OfTheRange /\ Ordered /\ AllRead
    BY Proven
<1>2. /\ chain \in Seq(Events) /\ last \in Nat /\ requested \in Nat /\ end_block \in Nat
      /\ last < requested
    BY DEF IInv, Open, ReqInv
<1>3. ASSUME reorgs = 0 PROVE Items(added, "insert") = <<>> /\ Items(added, "claim") = <<>>
    <2>1. CASE end_block <= requested
        <3>1. added = <<>>
            BY <1>2, <2>1
        <3> QED BY <3>1, ItemsEmpty, Zenon
    <2>2. CASE requested < end_block
        <3>1. /\ requested <= Len(chain) /\ req.ger_leaves = GersSeen(last + 1, requested)
              /\ req.imported_bridge_exits = ExitsSeen(last + 1, requested)
            BY <1>3 DEF IInv, Open, ReqInv
        <3>2. Q = Block(end_block) /\ end_block <= Len(chain)
            <4>1. Past(Q) /\ Len(Q) = end_block
                BY <1>1, Zenon DEF AllRead
            <4>2. Q = Block(Len(Q)) /\ Len(Q) \in 0..Len(chain)
                BY <1>2, <1>3, <4>1, PastIsBlock
            <4> QED BY <4>1, <4>2
        <3> DEFINE r == SubSeq(Q, last + 1, end_block)
                   s == SubSeq(Q, last + 1, requested)
        <3>3. Q \in Seq(Events) /\ Len(Q) = end_block /\ Len(PrevBlock) = last
            BY <1>1, Zenon DEF Ordered
        <3>4. s = SubSeq(chain, last + 1, requested)
            <4>1. requested <= end_block
                BY <1>2, <2>2
            <4> HIDE DEF last, requested, Q
            <4>2. SubSeq(SubSeq(chain, 1, end_block), last + 1, requested)
                    = SubSeq(chain, last + 1, requested)
                BY <1>2, <3>2, <4>1, RangeOfBlock
            <4> QED BY <3>2, <4>2, Zenon DEF Block
        <3>5. /\ Upto(last, end_block, requested) = s /\ Upto(last, requested, end_block) = s
            <4>1. ~(end_block < requested)
                BY <1>2, <2>2
            <4> QED BY <2>2, <3>4, <4>1, Zenon DEF Upto
        <3>6. CommittedClaims = Items(s, "claim")
            <4>1. bridge_exits_in_range(ExitsSeen(last + 1, requested), last + 1, end_block)
                    = Items(Upto(last, end_block, requested), "claim")
                BY <1>2, <3>1, ExitsDescribe
            <4> QED BY <3>1, <3>5, <4>1, Zenon DEF CommittedClaims
        <3>7. Len(ListedGers) <= Len(Items(s, "insert"))
            <4>1. GersDescribed(last, requested, end_block)
                BY <1>2, <3>1, GersDescribe
            <4> QED BY <3>1, <3>5, <4>1, Zenon DEF GersDescribed, ListedGers
        <3>8. CommittedClaims = Items(r, "claim") /\ ListedGers = Items(r, "insert")
            <4>1. Since(PrevBlock, Q, "claim") = Items(r, "claim")
                BY <3>3 DEF Since
            <4>2. Since(PrevBlock, Q, "insert") = Items(r, "insert")
                BY <3>3 DEF Since
            <4> QED BY <1>1, <4>1, <4>2, Zenon DEF OfTheRange
        <3>9. /\ s \in Seq(Events) /\ added \in Seq(Events) /\ Joins(r, s, added)
            <4>1. last <= requested /\ requested <= end_block /\ end_block <= Len(Q)
                BY <1>2, <2>2, <3>3
            <4> HIDE DEF last, requested, Q
            <4> QED BY <1>2, <3>3, <4>1, RangeSplit
        <3>10. /\ \A e \in Events : e.op = "insert" => e.item \in Gers
               /\ \A e \in Events : e.op = "claim" => e.item \in Claims
            BY EventKinds DEF Events
        <3>11. Items(s, "claim") \in Seq(Claims)
            <4> HIDE DEF s
            <4> QED BY <3>9, <3>10, ItemsType
        <3>12. /\ Len(Items(r, "insert")) <= Len(Items(s, "insert"))
               /\ Len(Items(r, "claim")) <= Len(Items(s, "claim"))
            <4>1. Items(r, "claim") = Items(s, "claim")
                BY <3>6, <3>8, Zenon
            <4>2. Len(Items(s, "claim")) <= Len(Items(s, "claim"))
                <5> DEFINE c == Items(s, "claim")
                <5> HIDE DEF c
                <5>1. c \in Seq(Claims)
                    BY <3>11 DEF c
                <5>2. Len(c) <= Len(c)
                    BY <5>1
                <5> QED BY <5>2 DEF c
            <4> QED BY <3>7, <3>8, <4>1, <4>2, Zenon
        <3> HIDE DEF r, s, added
        <3>13. Items(added, "insert") = <<>>
            BY ONLY <3>9, <3>10, <3>12, NothingAdded
        <3>14. Items(added, "claim") = <<>>
            BY ONLY <3>9, <3>10, <3>12, NothingAdded
        <3> QED BY <3>13, <3>14
    <2> QED BY <1>2, <2>1, <2>2
<1>4. end_block < last => StateRoot(Q) = StateRoot(PrevBlock)
    BY BelowSame
<1> QED BY <1>3, <1>4, Zenon DEF UnaskedEndBlock

-----------------------------------------------------------------------------
(* The decoding of a request *)

\* errors is a list of errors, for exactly the given fields.
Names(errors, fields) ==
    /\ \E S : errors \in Seq(S)
    /\ {errors[i].field_path : i \in 1..Len(errors)} = fields

LEMMA NamesConcat ==
    ASSUME NEW s, NEW t, NEW F, NEW G, Names(s, F), Names(t, G)
    PROVE  Names(s \o t, F \cup G)
<1> DEFINE x == Len(s)
           y == Len(t)
           c == s \o t
<1>0. PICK S : s \in Seq(S)
    BY DEF Names
<1>0a. PICK T : t \in Seq(T)
    BY DEF Names
<1> DEFINE U == S \cup T
<1>1. s \in Seq(U) /\ t \in Seq(U) /\ x \in Nat /\ y \in Nat
    BY <1>0, <1>0a
<1> HIDE DEF U
<1>2. /\ \A i \in 1..x : s[i].field_path \in F
      /\ \A i \in 1..y : t[i].field_path \in G
      /\ \A f \in F : \E i \in 1..x : s[i].field_path = f
      /\ \A f \in G : \E i \in 1..y : t[i].field_path = f
    BY Zenon DEF Names
<1>3. /\ c \in Seq(U) /\ Len(c) = x + y
      /\ \A i \in 1..x : c[i] = s[i]
      /\ \A i \in 1..y : c[x + i] = t[i]
    BY ONLY <1>1
<1> HIDE DEF c, x, y
<1>4. \A i \in 1..x + y : c[i].field_path \in F \cup G
    <2> SUFFICES ASSUME NEW i \in 1..x + y PROVE c[i].field_path \in F \cup G
        OBVIOUS
    <2>1. CASE i \in 1..x
        BY <1>2, <1>3, <2>1
    <2>2. CASE i \notin 1..x
        <3>1. i - x \in 1..y /\ x + (i - x) = i
            BY <1>1, <2>2
        <3>2. c[i] = t[i - x] /\ t[i - x].field_path \in G
            BY <1>2, <1>3, <3>1
        <3> QED BY <3>2
    <2> QED BY <2>1, <2>2
<1>5. \A f \in F : \E i \in 1..x + y : c[i].field_path = f
    <2>1. \A i \in 1..x : i \in 1..x + y
        BY <1>1
    <2> QED BY <1>2, <1>3, <2>1, Zenon
<1>6. \A f \in G : \E i \in 1..x + y : c[i].field_path = f
    <2> SUFFICES ASSUME NEW f \in G PROVE \E i \in 1..x + y : c[i].field_path = f
        OBVIOUS
    <2>1. PICK i \in 1..y : t[i].field_path = f
        BY <1>2
    <2>2. x + i \in 1..x + y /\ c[x + i].field_path = f
        BY <1>1, <1>3, <2>1
    <2> QED BY <2>2
<1>7. {c[i].field_path : i \in 1..x + y} = F \cup G
    BY <1>4, <1>5, <1>6, Zenon
<1> QED BY <1>3, <1>7, Zenon DEF Names, c

\* An empty list names nothing, and the first error of another a field that it names.
LEMMA NamesNone ==
    ASSUME NEW errors, NEW F, Names(errors, F)
    PROVE  /\ errors = <<>> <=> F = {}
           /\ errors # <<>> => Head(errors).field_path \in F
<1>1. F = {errors[i].field_path : i \in 1..Len(errors)}
    BY Zenon DEF Names
<1>1a. PICK S : errors \in Seq(S)
    BY DEF Names
<1>2. errors = <<>> => F = {}
    BY <1>1
<1>3. errors # <<>> => 1 \in 1..Len(errors) /\ Head(errors) = errors[1]
    BY <1>1a
<1>4. errors # <<>> => Head(errors).field_path \in F
    BY <1>1, <1>3
<1> QED BY <1>2, <1>4

LEMMA NamesEmpty == Names(<<>>, {})
<1>1. <<>> \in Seq({}) /\ {<<>>[i].field_path : i \in 1..Len(<<>>)} = {}
    OBVIOUS
<1> QED BY <1>1 DEF Names

LEMMA NamesOne == ASSUME NEW e, NEW f PROVE Names(<<RequestError(e, f)>>, {f})
<1> DEFINE s == <<RequestError(e, f)>>
<1>1. s \in Seq({RequestError(e, f)}) /\ Len(s) = 1 /\ s[1].field_path = f
    BY DEF RequestError
<1> HIDE DEF s
<1>2. {s[i].field_path : i \in 1..Len(s)} = {f}
    BY <1>1
<1> QED BY <1>1, <1>2 DEF Names, s

\* The fields that have a fault.
FaultyAt(faults) == {f.at : f \in faults}

LEMMA NamesConvert ==
    ASSUME NEW faults, faults \subseteq FieldFaults, NEW at,
           NEW missing, NEW invalid, NEW field,
           NEW F, at \in FaultyAt(faults) => F = {field}, at \notin FaultyAt(faults) => F = {}
    PROVE  Names(convert(faults, at, missing, invalid, field), F)
<1> DEFINE m == [at |-> at, how |-> "missing"]
           i == [at |-> at, how |-> "invalid"]
<1>1. \A f \in faults : f = [at |-> f.at, how |-> f.how] /\ f.how \in {"missing", "invalid"}
    BY DEF FieldFaults
<1>2. at \in FaultyAt(faults) => m \in faults \/ i \in faults
    <2> SUFFICES ASSUME at \in FaultyAt(faults) PROVE m \in faults \/ i \in faults
        OBVIOUS
    <2>1. PICK f \in faults : f.at = at
        BY DEF FaultyAt
    <2> QED BY <1>1, <2>1
<1>3. m.at = at /\ i.at = at
    OBVIOUS
<1>4. m \in faults \/ i \in faults => at \in FaultyAt(faults)
    BY <1>3, Zenon DEF FaultyAt
<1> HIDE DEF m, i
<1>5. convert(faults, at, missing, invalid, field) =
        IF m \in faults THEN <<RequestError(missing, field)>>
        ELSE IF i \in faults THEN <<RequestError(invalid, field)>> ELSE <<>>
    BY Zenon DEF convert, m, i
<1>6. /\ Names(<<RequestError(missing, field)>>, {field})
      /\ Names(<<RequestError(invalid, field)>>, {field})
    BY NamesOne
<1> QED BY <1>2, <1>4, <1>5, <1>6, NamesEmpty, Zenon

LEMMA NamesWrap ==
    ASSUME NEW errors, NEW F, Names(errors, F), NEW error, NEW field,
           NEW G, F # {} => G = {field}, F = {} => G = {}
    PROVE  Names(wrap(errors, error, field), G)
<1>1. Names(<<RequestError(error, field)>>, {field})
    BY NamesOne
<1>2. errors = <<>> <=> F = {}
    BY NamesNone
<1> QED BY <1>1, <1>2, NamesEmpty, Zenon DEF wrap

\* The fields of a list entry that can have a fault.
GerFields == {"proven_inserted_ger", "proof_ger_l1root", "l1_leaf"}
ExitFields == {"global_index", "bridge_exit_hash"}

LEMMA NamesGers ==
    ASSUME NEW faults, faults \subseteq FieldFaults, NEW ger_leaves, NEW F,
           ger_leaves # {} /\ FaultyAt(faults) \cap GerFields # {} => F = {"ger_leaves"},
           ger_leaves = {} \/ FaultyAt(faults) \cap GerFields = {} => F = {}
    PROVE  Names(ger_leaves_errors(faults, ger_leaves), F)
<1> DEFINE at == FaultyAt(faults)
<1>1. PICK g1 : /\ "proof_ger_l1root" \in at => g1 = {"proof_ger_l1root"}
                /\ "proof_ger_l1root" \notin at => g1 = {}
    OBVIOUS
<1>2. PICK g2 : /\ "l1_leaf" \in at => g2 = {"l1_leaf"}
                /\ "l1_leaf" \notin at => g2 = {}
    OBVIOUS
<1>3. PICK g3 : /\ "proven_inserted_ger" \in at => g3 = {"proven_inserted_ger"}
                /\ "proven_inserted_ger" \notin at => g3 = {}
    OBVIOUS
<1>4. PICK g4 : /\ g1 \cup g2 # {} => g4 = {"proven_inserted_ger"}
                /\ g1 \cup g2 = {} => g4 = {}
    OBVIOUS
<1>5. PICK g5 : /\ g3 \cup g4 # {} => g5 = {"ger_leaves"}
                /\ g3 \cup g4 = {} => g5 = {}
    OBVIOUS
<1>6. at \cap GerFields # {} <=> g3 \cup g4 # {}
    BY <1>1, <1>2, <1>3, <1>4 DEF GerFields
<1> DEFINE d1 == convert(faults, "proof_ger_l1root", "MissingInsertedGer",
                         "InvalidInsertedGer", "proof_ger_l1root")
           d2 == convert(faults, "l1_leaf", "MissingL1InfoTreeLeaf",
                         "InvalidL1InfoTreeLeaf", "l1_leaf")
           d3 == convert(faults, "proven_inserted_ger", "MissingInsertedGer",
                         "InvalidInsertedGer", "proven_inserted_ger")
           d4 == wrap(inserted_ger(faults), "InvalidInsertedGer", "proven_inserted_ger")
           d5 == wrap(inserted_ger_with_block_number(faults),
                      "InvalidInsertedGerWithBlockNumberConversion", "ger_leaves")
<1>7. Names(d1, g1)
    BY <1>1, NamesConvert
<1>8. Names(d2, g2)
    BY <1>2, NamesConvert
<1>9. Names(d3, g3)
    BY <1>3, NamesConvert
<1>10. inserted_ger(faults) = d1 \o d2 /\ inserted_ger_with_block_number(faults) = d3 \o d4
    BY Zenon DEF inserted_ger, inserted_ger_with_block_number
<1>11. Names(inserted_ger(faults), g1 \cup g2)
    <2> HIDE DEF d1, d2, d3, d4
    <2> QED BY <1>7, <1>8, <1>10, NamesConcat
<1>12. Names(d4, g4)
    BY <1>4, <1>11, NamesWrap
<1>13. Names(inserted_ger_with_block_number(faults), g3 \cup g4)
    <2> HIDE DEF d1, d2, d3, d4
    <2> QED BY <1>9, <1>10, <1>12, NamesConcat
<1>14. Names(d5, g5)
    BY <1>5, <1>13, NamesWrap
<1>15. ger_leaves_errors(faults, ger_leaves) = IF ger_leaves = {} THEN <<>> ELSE d5
    BY Zenon DEF ger_leaves_errors
<1> HIDE DEF d5
<1>16. CASE ger_leaves = {}
    BY <1>15, <1>16, NamesEmpty, Zenon
<1>17. CASE ger_leaves # {}
    <2>1. F = g5
        BY <1>5, <1>6, <1>17, Zenon
    <2> QED BY <1>14, <1>15, <1>17, <2>1, Zenon
<1> QED BY <1>16, <1>17

LEMMA NamesExits ==
    ASSUME NEW faults, faults \subseteq FieldFaults, NEW exits, NEW F,
           exits # <<>> /\ FaultyAt(faults) \cap ExitFields # {} => F = {"imported_bridge_exits"},
           exits = <<>> \/ FaultyAt(faults) \cap ExitFields = {} => F = {}
    PROVE  Names(imported_bridge_exits_errors(faults, exits), F)
<1> DEFINE at == FaultyAt(faults)
<1>1. PICK g1 : /\ "global_index" \in at => g1 = {"global_index"}
                /\ "global_index" \notin at => g1 = {}
    OBVIOUS
<1>2. PICK g2 : /\ "bridge_exit_hash" \in at => g2 = {"global_index"}
                /\ "bridge_exit_hash" \notin at => g2 = {}
    OBVIOUS
<1>3. PICK g3 : /\ g1 \cup g2 # {} => g3 = {"imported_bridge_exits"}
                /\ g1 \cup g2 = {} => g3 = {}
    OBVIOUS
<1>4. at \cap ExitFields # {} <=> g1 \cup g2 # {}
    BY <1>1, <1>2 DEF ExitFields
<1> DEFINE d1 == convert(faults, "global_index", "MissingGlobalIndex", "InvalidDigest",
                         "global_index")
           d2 == convert(faults, "bridge_exit_hash", "MissingGlobalIndex", "InvalidDigest",
                         "global_index")
           d3 == wrap(imported_bridge_exit(faults), "InvalidImportedBridgeExit",
                      "imported_bridge_exits")
<1>5. Names(d1, g1)
    BY <1>1, NamesConvert
<1>6. Names(d2, g2)
    BY <1>2, NamesConvert
<1>7. imported_bridge_exit(faults) = d1 \o d2
    BY Zenon DEF imported_bridge_exit
<1>8. Names(imported_bridge_exit(faults), g1 \cup g2)
    <2> HIDE DEF d1, d2
    <2> QED BY <1>5, <1>6, <1>7, NamesConcat
<1>9. Names(d3, g3)
    BY <1>3, <1>8, NamesWrap
<1>10. imported_bridge_exits_errors(faults, exits) = IF exits = <<>> THEN <<>> ELSE d3
    BY Zenon DEF imported_bridge_exits_errors
<1> HIDE DEF d3
<1>11. CASE exits = <<>>
    BY <1>10, <1>11, NamesEmpty, Zenon
<1>12. CASE exits # <<>>
    <2>1. F = g3
        BY <1>3, <1>4, <1>12, Zenon
    <2> QED BY <1>9, <1>10, <1>12, <2>1, Zenon
<1> QED BY <1>11, <1>12

\* The fields that AggchainProofInputs::try_from finds broken.
Inner(faults, ger_leaves, exits) ==
    (FaultyAt(faults) \cap {"l1_info_tree_root_hash", "l1_info_tree_leaf",
                            "l1_info_tree_merkle_proof"})
      \cup {f \in {"ger_leaves"} : ger_leaves # {} /\ FaultyAt(faults) \cap GerFields # {}}
      \cup {f \in {"imported_bridge_exits"} :
                exits # <<>> /\ FaultyAt(faults) \cap ExitFields # {}}

LEMMA NamesInputs ==
    ASSUME NEW faults, faults \subseteq FieldFaults, NEW ger_leaves, NEW exits
    PROVE  Names(aggchain_proof_inputs(faults, ger_leaves, exits), Inner(faults, ger_leaves, exits))
<1> DEFINE at == FaultyAt(faults)
           c1 == convert(faults, "l1_info_tree_root_hash", "MissingL1InfoTreeRootHash",
                         "InvalidDigest", "l1_info_tree_root_hash")
           c2 == convert(faults, "l1_info_tree_leaf", "MissingL1InfoTreeLeaf",
                         "InvalidL1InfoTreeLeaf", "l1_info_tree_leaf")
           c3 == convert(faults, "l1_info_tree_merkle_proof", "MissingL1InfoTreeMerkleProof",
                         "InvalidL1InfoTreeMerkleProof", "l1_info_tree_merkle_proof")
           c4 == ger_leaves_errors(faults, ger_leaves)
           c5 == imported_bridge_exits_errors(faults, exits)
           f1 == at \cap {"l1_info_tree_root_hash"}
           f2 == at \cap {"l1_info_tree_leaf"}
           f3 == at \cap {"l1_info_tree_merkle_proof"}
           f4 == {f \in {"ger_leaves"} : ger_leaves # {} /\ at \cap GerFields # {}}
           f5 == {f \in {"imported_bridge_exits"} : exits # <<>> /\ at \cap ExitFields # {}}
<1>1. Names(c1, f1)
    <2>1. /\ "l1_info_tree_root_hash" \in at => f1 = {"l1_info_tree_root_hash"}
          /\ "l1_info_tree_root_hash" \notin at => f1 = {}
        OBVIOUS
    <2> HIDE DEF f1
    <2> QED BY <2>1, NamesConvert
<1>2. Names(c2, f2)
    <2>1. /\ "l1_info_tree_leaf" \in at => f2 = {"l1_info_tree_leaf"}
          /\ "l1_info_tree_leaf" \notin at => f2 = {}
        OBVIOUS
    <2> HIDE DEF f2
    <2> QED BY <2>1, NamesConvert
<1>3. Names(c3, f3)
    <2>1. /\ "l1_info_tree_merkle_proof" \in at => f3 = {"l1_info_tree_merkle_proof"}
          /\ "l1_info_tree_merkle_proof" \notin at => f3 = {}
        OBVIOUS
    <2> HIDE DEF f3
    <2> QED BY <2>1, NamesConvert
<1>4. Names(c4, f4)
    <2>1. /\ ger_leaves # {} /\ at \cap GerFields # {} => f4 = {"ger_leaves"}
          /\ ger_leaves = {} \/ at \cap GerFields = {} => f4 = {}
        OBVIOUS
    <2> HIDE DEF f4
    <2> QED BY <2>1, NamesGers
<1>5. Names(c5, f5)
    <2>1. /\ exits # <<>> /\ at \cap ExitFields # {} => f5 = {"imported_bridge_exits"}
          /\ exits = <<>> \/ at \cap ExitFields = {} => f5 = {}
        OBVIOUS
    <2> HIDE DEF f5
    <2> QED BY <2>1, NamesExits
<1>6. aggchain_proof_inputs(faults, ger_leaves, exits) = c1 \o c2 \o c3 \o c4 \o c5
    BY Zenon DEF aggchain_proof_inputs
<1>7. Inner(faults, ger_leaves, exits) = f1 \cup f2 \cup f3 \cup f4 \cup f5
    <2>1. at \cap {"l1_info_tree_root_hash", "l1_info_tree_leaf", "l1_info_tree_merkle_proof"}
            = f1 \cup f2 \cup f3
        OBVIOUS
    <2> HIDE DEF f1, f2, f3
    <2> QED BY <2>1, Zenon DEF Inner
<1> HIDE DEF c1, c2, c3, c4, c5, f1, f2, f3, f4, f5
<1> DEFINE s2 == c1 \o c2
           t2 == f1 \cup f2
           s3 == s2 \o c3
           t3 == t2 \cup f3
           s4 == s3 \o c4
           t4 == t3 \cup f4
<1> HIDE DEF s2, t2, s3, t3, s4, t4
<1>8. Names(s2, t2)
    BY <1>1, <1>2, NamesConcat DEF s2, t2
<1>9. Names(s3, t3)
    BY <1>3, <1>8, NamesConcat DEF s3, t3
<1>10. Names(s4, t4)
    BY <1>4, <1>9, NamesConcat DEF s4, t4
<1>11. Names(s4 \o c5, t4 \cup f5)
    BY <1>5, <1>10, NamesConcat
<1> QED BY <1>6, <1>7, <1>11, Zenon DEF s2, s3, s4, t2, t3, t4

\* The fields that OptimisticAggchainProofInputs::try_from finds broken.
Outer(faults, ger_leaves, exits) ==
    {f \in {"aggchain_proof_request"} :
        f \in FaultyAt(faults) \/ Inner(faults, ger_leaves, exits) # {}}
      \cup (FaultyAt(faults) \cap {"optimistic_mode_signature"})

LEMMA NamesOptimistic ==
    ASSUME NEW faults, faults \subseteq FieldFaults, NEW ger_leaves, NEW exits
    PROVE  Names(optimistic_aggchain_proof_inputs(faults, ger_leaves, exits),
                 Outer(faults, ger_leaves, exits))
<1> DEFINE inner == aggchain_proof_inputs(faults, ger_leaves, exits)
           broken == Inner(faults, ger_leaves, exits)
           c == convert(faults, "optimistic_mode_signature", "MissingOptimisticModeSignature",
                        "InvalidOptimisticModeSignature", "optimistic_mode_signature")
           f == FaultyAt(faults) \cap {"optimistic_mode_signature"}
           missing == [at |-> "aggchain_proof_request", how |-> "missing"]
           m == <<RequestError("MissingAggchainProofRequest", "aggchain_proof_request")>>
           w == wrap(inner, "InvalidAggchainProofRequest", "aggchain_proof_request")
           d == IF missing \in faults THEN m ELSE w
           g == {x \in {"aggchain_proof_request"} : x \in FaultyAt(faults) \/ broken # {}}
<1>1. Names(c, f)
    <2>1. /\ "optimistic_mode_signature" \in FaultyAt(faults) => f = {"optimistic_mode_signature"}
          /\ "optimistic_mode_signature" \notin FaultyAt(faults) => f = {}
        OBVIOUS
    <2> HIDE DEF f
    <2> QED BY <2>1, NamesConvert
<1>2. "aggchain_proof_request" \in FaultyAt(faults) <=> missing \in faults
    <2>1. missing.at = "aggchain_proof_request"
        OBVIOUS
    <2>2. missing \in faults => "aggchain_proof_request" \in FaultyAt(faults)
        BY <2>1, Zenon DEF FaultyAt
    <2>3. \A x \in faults : x.at = "aggchain_proof_request" => x = missing
        BY DEF FieldFaults
    <2> QED BY <2>2, <2>3, Zenon DEF FaultyAt
<1>3. /\ missing \in faults \/ broken # {} => g = {"aggchain_proof_request"}
      /\ missing \notin faults /\ broken = {} => g = {}
    BY <1>2, Zenon
<1>4. optimistic_aggchain_proof_inputs(faults, ger_leaves, exits) = c \o d
    BY Zenon DEF optimistic_aggchain_proof_inputs
<1>5. Outer(faults, ger_leaves, exits) = f \cup g
    BY Zenon DEF Outer
<1>6. Names(inner, broken)
    BY NamesInputs
<1> HIDE DEF f, g, c, missing, inner, broken
<1>7. Names(d, g)
    <2>1. CASE missing \in faults
        <3>1. Names(m, {"aggchain_proof_request"})
            BY NamesOne
        <3>2. d = m /\ g = {"aggchain_proof_request"}
            BY <1>3, <2>1, Zenon
        <3> HIDE DEF d, m
        <3> QED BY <3>1, <3>2
    <2>2. CASE missing \notin faults
        <3>1. (broken # {} => g = {"aggchain_proof_request"}) /\ (broken = {} => g = {})
            BY <1>3, <2>2, Zenon
        <3>2. Names(w, g)
            BY <1>6, <3>1, NamesWrap
        <3>3. d = w
            BY <2>2, Zenon
        <3> HIDE DEF d, w
        <3> QED BY <3>2, <3>3
    <2> QED BY <2>1, <2>2
<1> HIDE DEF d
<1>8. Names(c \o d, f \cup g)
    BY <1>1, <1>7, NamesConcat
<1> QED BY <1>4, <1>5, <1>8, Zenon

LEMMA NamesRange ==
    ASSUME NEW last \in Nat, NEW requested \in Nat
    PROVE  Names(requested_end_block_errors(last, requested),
                 {f \in {"requested_end_block"} : requested <= last})
<1> DEFINE F == {f \in {"requested_end_block"} : requested <= last}
           e == <<RequestError("not greater than last_proven_block", "requested_end_block")>>
<1>1. (requested <= last => F = {"requested_end_block"}) /\ (~(requested <= last) => F = {})
    OBVIOUS
<1>2. Names(e, {"requested_end_block"})
    BY NamesOne
<1>3. requested_end_block_errors(last, requested) = IF requested <= last THEN e ELSE <<>>
    BY Zenon DEF requested_end_block_errors
<1> HIDE DEF F, e
<1> QED BY <1>1, <1>2, <1>3, NamesEmpty, Zenon DEF F

\* The request is refused for a broken field, or taken when none is.
Refuses(request) ==
    /\ pc' = "done" /\ resp'.status = "InvalidArgument"
    /\ resp'.error.field_path \in Broken(request)
    /\ req' = req /\ end_block' = end_block

Takes(request) ==
    /\ Broken(request) = {}
    /\ req' = AggchainProofInputs(request)
    /\ resp' = resp
    /\ \/ request.mode = "normal" /\ pc' = "proposer" /\ end_block' = end_block
       \/ /\ request.mode = "optimistic" /\ pc' = "fetch"
          /\ end_block' = request.requested_end_block
          /\ fep' = Signed(request.last_proven_block, request.requested_end_block)

\* What the aggsender sends.
Sends(request) ==
    /\ request.mode \in {"normal", "optimistic"}
    /\ request.last_proven_block \in 0..Len(chain)
    /\ request.requested_end_block \in 0..Len(chain)
    /\ request.faults \subseteq FieldFaults
    /\ request.ger_leaves
          = GersSeen(request.last_proven_block + 1, request.requested_end_block)
    /\ request.imported_bridge_exits
          = ExitsSeen(request.last_proven_block + 1, request.requested_end_block)

LEMMA BrokenIs ==
    ASSUME NEW request
    PROVE  LET range == {f \in {"requested_end_block"} :
                            request.requested_end_block <= request.last_proven_block}
           IN  /\ request.mode = "normal" => Broken(request) = range \cup
                    Inner(request.faults, request.ger_leaves, request.imported_bridge_exits)
               /\ request.mode = "optimistic" => Broken(request) = range \cup
                    Outer(request.faults, request.ger_leaves, request.imported_bridge_exits)
<1>1. "optimistic" # "normal"
    OBVIOUS
<1> QED BY <1>1, Zenon DEF Broken, Inner, Outer, FaultyAt, GerFields, ExitFields

\* A handler, with the errors that it finds.
LEMMA Handled ==
    ASSUME NEW errors, NEW request, Names(errors, Broken(request)),
           \/ InvalidRequest(errors)
           \/ /\ errors = <<>> /\ req' = AggchainProofInputs(request) /\ resp' = resp
              /\ \/ request.mode = "normal" /\ pc' = "proposer" /\ end_block' = end_block
                 \/ /\ request.mode = "optimistic" /\ pc' = "fetch"
                    /\ end_block' = request.requested_end_block
                    /\ fep' = Signed(request.last_proven_block, request.requested_end_block)
    PROVE  Refuses(request) \/ Takes(request)
<1>1. /\ errors = <<>> <=> Broken(request) = {}
      /\ errors # <<>> => Head(errors).field_path \in Broken(request)
    BY NamesNone
<1>2. CASE InvalidRequest(errors)
    <2>1. /\ pc' = "done" /\ resp' = [status |-> "InvalidArgument", error |-> Head(errors)]
          /\ req' = req /\ end_block' = end_block /\ errors # <<>>
        BY <1>2 DEF InvalidRequest
    <2>2. resp'.status = "InvalidArgument" /\ resp'.error = Head(errors)
        BY <2>1
    <2>3. Refuses(request)
        BY <1>1, <2>1, <2>2, Zenon DEF Refuses
    <2> QED BY <2>3
<1>3. CASE ~InvalidRequest(errors)
    BY <1>1, <1>3, Zenon DEF Takes
<1> QED BY <1>2, <1>3

LEMMA SubmitMeans ==
    ASSUME Submit, chain \in Seq(Events)
    PROVE  /\ pc = "idle" /\ chain' = chain /\ reorgs' = reorgs /\ fetched' = fetched
           /\ Sends(wire') /\ (Refuses(wire') \/ Takes(wire'))
<1>1. pc = "idle"
    BY DEF Submit
<1>2. PICK last \in 0..Len(chain), requested \in 0..Len(chain), l1_info_root \in SUBSET Gers,
           l1_head_included \in BOOLEAN, faults \in Faults :
            \/ GenerateAggchainProof(
                  Request("normal", last, requested, l1_info_root, l1_head_included, faults))
            \/ GenerateOptimisticAggchainProof(
                  Request("optimistic", last, requested, l1_info_root, l1_head_included, faults))
    BY Zenon DEF Submit
<1>3. faults \subseteq FieldFaults /\ last \in Nat /\ requested \in Nat
    BY FlowAssumption
<1> DEFINE range == {f \in {"requested_end_block"} : requested <= last}
<1>4. CASE GenerateAggchainProof(
                  Request("normal", last, requested, l1_info_root, l1_head_included, faults))
    <2> DEFINE r == Request("normal", last, requested, l1_info_root, l1_head_included, faults)
    <2>1. /\ r.mode = "normal" /\ r.last_proven_block = last /\ r.requested_end_block = requested
          /\ r.faults = faults /\ r.ger_leaves = GersSeen(last + 1, requested)
          /\ r.imported_bridge_exits = ExitsSeen(last + 1, requested)
        BY DEF Request
    <2> HIDE DEF r
    <2> DEFINE inputs == aggchain_proof_inputs(r.faults, r.ger_leaves, r.imported_bridge_exits)
               errors == requested_end_block_errors(r.last_proven_block, r.requested_end_block)
                            \o inputs
    <2>2. /\ wire' = r /\ chain' = chain /\ reorgs' = reorgs /\ fetched' = fetched
          /\ \/ InvalidRequest(errors)
             \/ /\ errors = <<>> /\ req' = AggchainProofInputs(r) /\ resp' = resp
                /\ pc' = "proposer" /\ end_block' = end_block
        BY <1>4 DEF GenerateAggchainProof, r
    <2>3. Names(errors, Broken(r))
        <3>1. Names(inputs, Inner(r.faults, r.ger_leaves, r.imported_bridge_exits))
            BY <1>3, <2>1, NamesInputs
        <3>2. Names(requested_end_block_errors(r.last_proven_block, r.requested_end_block), range)
            BY <1>3, <2>1, NamesRange
        <3>3. Broken(r) = range \cup Inner(r.faults, r.ger_leaves, r.imported_bridge_exits)
            BY <2>1, BrokenIs, Zenon
        <3> HIDE DEF inputs, range
        <3> QED BY <3>1, <3>2, <3>3, NamesConcat
    <2> HIDE DEF errors
    <2>4. Refuses(r) \/ Takes(r)
        BY <2>1, <2>2, <2>3, Handled
    <2>5. Sends(r)
        BY <1>3, <2>1, Zenon DEF Sends
    <2> QED BY <1>1, <2>2, <2>4, <2>5, Zenon
<1>5. CASE GenerateOptimisticAggchainProof(
                  Request("optimistic", last, requested, l1_info_root, l1_head_included, faults))
    <2> DEFINE r == Request("optimistic", last, requested, l1_info_root, l1_head_included, faults)
    <2>1. /\ r.mode = "optimistic" /\ r.last_proven_block = last
          /\ r.requested_end_block = requested
          /\ r.faults = faults /\ r.ger_leaves = GersSeen(last + 1, requested)
          /\ r.imported_bridge_exits = ExitsSeen(last + 1, requested)
        BY DEF Request
    <2> HIDE DEF r
    <2> DEFINE inputs == optimistic_aggchain_proof_inputs(r.faults, r.ger_leaves,
                                                          r.imported_bridge_exits)
               errors == inputs
                    \o requested_end_block_errors(r.last_proven_block, r.requested_end_block)
    <2>2. /\ wire' = r /\ chain' = chain /\ reorgs' = reorgs /\ fetched' = fetched
          /\ \/ InvalidRequest(errors)
             \/ /\ errors = <<>> /\ req' = AggchainProofInputs(r) /\ resp' = resp
                /\ pc' = "fetch" /\ end_block' = r.requested_end_block
                /\ fep' = Signed(r.last_proven_block, r.requested_end_block)
        BY <1>5 DEF GenerateOptimisticAggchainProof, r
    <2>3. Names(errors, Broken(r))
        <3> DEFINE outer == Outer(r.faults, r.ger_leaves, r.imported_bridge_exits)
        <3>1. Names(inputs, outer)
            BY <1>3, <2>1, NamesOptimistic
        <3>2. Names(requested_end_block_errors(r.last_proven_block, r.requested_end_block), range)
            BY <1>3, <2>1, NamesRange
        <3>3. Broken(r) = range \cup outer
            BY <2>1, BrokenIs, Zenon
        <3> HIDE DEF inputs, range, outer
        <3>4. Names(errors, outer \cup range)
            BY <3>1, <3>2, NamesConcat
        <3>5. outer \cup range = range \cup outer
            OBVIOUS
        <3> HIDE DEF errors
        <3> QED BY <3>3, <3>4, <3>5
    <2> HIDE DEF errors
    <2>4. Refuses(r) \/ Takes(r)
        BY <2>1, <2>2, <2>3, Handled
    <2>5. Sends(r)
        BY <1>3, <2>1, Zenon DEF Sends
    <2> QED BY <1>1, <2>2, <2>4, <2>5, Zenon
<1> QED BY <1>2, <1>4, <1>5

-----------------------------------------------------------------------------
(* The steps *)

LEMMA Steps ==
    ASSUME [Next]_vars
    PROVE  \/ \E event \in Events : Mine(event)
           \/ Submit
           \/ \E end \in 0..Len(chain) : RequestAggProof(end)
           \/ \E last, end \in 0..Len(chain) : WaitForProof(last, end)
           \/ \E config \in OpSuccinctConfigs : FetchOpSuccinctConfig(config)
           \/ Reorg \/ Fetch \/ Compare \/ Prove \/ Fail
           \/ UNCHANGED vars
BY Zenon DEF Next, Events

\* What depends on the chain and the request only.
LEMMA SameRequest ==
    ASSUME chain' = chain, reorgs' = reorgs, req' = req
    PROVE  (ReqInv' <=> ReqInv) /\ \A b : (Past(b)' <=> Past(b))
<1>1. ReqInv' <=> ReqInv
    BY DEF ReqInv, GersSeen, ExitsSeen
<1> QED BY <1>1 DEF Past

LEMMA SameProof ==
    ASSUME chain' = chain, reorgs' = reorgs, req' = req, end_block' = end_block, fep' = fep
    PROVE  ProofInv' <=> ProofInv
BY DEF ProofInv, Past, Signed, Block, ExitsSeen

LEMMA SameReads ==
    ASSUME chain' = chain, reorgs' = reorgs, req' = req, end_block' = end_block,
           fetched' = fetched
    PROVE  ReadInv' <=> ReadInv
BY DEF ReadInv, Past, NumberOf

LEMMA SameAnswer ==
    ASSUME req' = req, end_block' = end_block, fep' = fep, fetched' = fetched
    PROVE  /\ verify_aggchain_inputs' <=> verify_aggchain_inputs
           /\ AggchainProofServiceResponse' = AggchainProofServiceResponse
<1>1. /\ PrevBlock' = PrevBlock /\ NewBlock' = NewBlock /\ CommittedClaims' = CommittedClaims
      /\ FepPublicValues' = FepPublicValues
      /\ \A name : Read(name)' = Read(name)
    BY DEF PrevBlock, NewBlock, CommittedClaims, FepPublicValues, Read
<1>2. bridge_constraints_input' = bridge_constraints_input
    BY <1>1 DEF bridge_constraints_input, Read
<1>3. fep_verify' <=> fep_verify
    BY <1>1 DEF fep_verify, Read
<1>4. verify_aggchain_inputs' <=> verify_aggchain_inputs
    BY <1>2, <1>3 DEF verify_aggchain_inputs
<1>5. AggchainProofServiceResponse' = AggchainProofServiceResponse
    BY <1>1 DEF AggchainProofServiceResponse, Read
<1> QED BY <1>4, <1>5

\* The request ends without a proof.
LEMMA Ends ==
    ASSUME IInv, pc' = "done", resp'.status # "ok", chain' = chain, reorgs' = reorgs,
           end_block' \in Nat, \E S : fetched' \in Seq(S), Len(fetched') <= Len(Reads)
    PROVE  IInv'
<1>1. Reads' = Reads
    BY DEF Reads
<1>2. ~Open' /\ ~Building'
    BY DEF Open, Building
<1>3. (reorgs' = 0 => Admitted(chain')) /\ chain' \in Seq(Events) /\ reorgs' \in Nat
    BY DEF IInv
<1> QED BY <1>1, <1>2, <1>3 DEF IInv

LEMMA EndsInternal ==
    ASSUME IInv, InternalError, chain' = chain, reorgs' = reorgs PROVE IInv'
<1>1. /\ pc' = "done" /\ resp' = Failure("Internal") /\ end_block' = 0 /\ fetched' = <<>>
    BY DEF InternalError
<1>2. resp'.status # "ok"
    BY <1>1 DEF Failure
<1>3. end_block' \in Nat /\ fetched' \in Seq({}) /\ Len(fetched') <= Len(Reads)
    BY <1>1, ReadIs
<1>4. \E S : fetched' \in Seq(S)
    BY <1>3
<1> QED BY <1>1, <1>2, <1>3, <1>4, Ends

LEMMA InitInv == Init => IInv
<1> SUFFICES ASSUME Init PROVE IInv
    OBVIOUS
<1>1. /\ chain = <<>> /\ reorgs = 0 /\ pc = "idle" /\ end_block = 0 /\ fetched = <<>>
      /\ resp = None
    BY DEF Init
<1>2. resp.status # "ok"
    BY <1>1 DEF None
<1>3. ~Open /\ ~Building
    BY <1>1, <1>2 DEF Open, Building
<1>4. Admitted(chain)
    BY <1>1 DEF Admitted
<1>5. chain \in Seq(Events) /\ fetched \in Seq({}) /\ Len(fetched) <= Len(Reads)
    BY <1>1, ReadIs
<1> QED BY <1>1, <1>2, <1>3, <1>4, <1>5 DEF IInv

LEMMA MineStep == ASSUME IInv, NEW event \in Events, Mine(event) PROVE IInv'
<1>1. /\ pc = "idle" /\ Admissible(chain, event) /\ chain' = Append(chain, event)
      /\ reorgs' = reorgs /\ pc' = pc /\ resp' = resp /\ fetched' = fetched
      /\ end_block' = end_block
    BY DEF Mine
<1>2. /\ chain \in Seq(Events) /\ reorgs = 0 /\ Admitted(chain) /\ resp = None
      /\ end_block \in Nat /\ fetched = <<>>
    BY <1>1 DEF IInv
<1>3. chain' \in Seq(Events)
    BY <1>1, <1>2
<1>4. Admitted(chain')
    BY <1>1, <1>2, AdmittedAppend
<1>5. resp'.status # "ok"
    BY <1>1, <1>2 DEF None
<1>6. ~Open' /\ ~Building'
    BY <1>1, <1>5 DEF Open, Building
<1>7. fetched' \in Seq({}) /\ Len(fetched') <= Len(Reads) /\ Reads' = Reads
    BY <1>1, <1>2, ReadIs DEF Reads
<1> QED BY <1>1, <1>2, <1>3, <1>4, <1>5, <1>6, <1>7 DEF IInv

\* A block of the chain of now, as an answer.
LEMMA BlockIsPast ==
    ASSUME chain \in Seq(Events), NEW n \in 0..Len(chain)
    PROVE  Past(Block(n)) /\ Block(n) \in Seq(Events) /\ Len(Block(n)) = n
<1>1. /\ Block(n) \in Seq(Events) /\ Len(Block(n)) = n
      /\ \A i \in 1..n : Block(n)[i] = chain[i]
    BY DEF Block
<1> QED BY <1>1 DEF Past

LEMMA SubmitStep == ASSUME IInv, Submit PROVE IInv'
<1> DEFINE request == wire'
           last == request.last_proven_block
           requested == request.requested_end_block
<1>1. /\ pc = "idle" /\ chain' = chain /\ reorgs' = reorgs /\ fetched' = fetched
      /\ Sends(request) /\ (Refuses(request) \/ Takes(request))
    BY SubmitMeans DEF IInv
<1>2. /\ chain \in Seq(Events) /\ reorgs = 0 /\ Admitted(chain) /\ resp = None
      /\ end_block \in Nat /\ fetched = <<>>
    BY <1>1 DEF IInv
<1>3. fetched' \in Seq({}) /\ Len(fetched') <= Len(Reads) /\ Reads' = Reads /\ Len(fetched') = 0
    BY <1>1, <1>2, ReadIs DEF Reads
<1>4. CASE Refuses(request)
    <2>1. pc' = "done" /\ resp'.status = "InvalidArgument" /\ end_block' = end_block
        BY <1>4, Zenon DEF Refuses
    <2>2. resp'.status # "ok" /\ end_block' \in Nat /\ \E S : fetched' \in Seq(S)
        BY <1>2, <1>3, <2>1
    <2> QED BY <1>1, <1>3, <2>1, <2>2, Ends
<1>5. CASE Takes(request)
    <2> HIDE DEF request
    <2>1. /\ request.mode \in {"normal", "optimistic"}
          /\ last \in 0..Len(chain) /\ requested \in 0..Len(chain)
          /\ request.ger_leaves = GersSeen(last + 1, requested)
          /\ request.imported_bridge_exits = ExitsSeen(last + 1, requested)
        BY <1>1, Zenon DEF Sends
    <2>2. /\ Broken(request) = {} /\ req' = AggchainProofInputs(request) /\ resp' = resp
          /\ \/ request.mode = "normal" /\ pc' = "proposer" /\ end_block' = end_block
             \/ /\ request.mode = "optimistic" /\ pc' = "fetch" /\ end_block' = requested
                /\ fep' = Signed(last, requested)
        BY <1>5, Zenon DEF Takes
    <2>3. /\ req'.mode = request.mode /\ req'.last_proven_block = last
          /\ req'.requested_end_block = requested
          /\ req'.ger_leaves = GersSeen(last + 1, requested)
          /\ req'.imported_bridge_exits = ExitsSeen(last + 1, requested)
        BY <2>1, <2>2 DEF AggchainProofInputs
    <2>4. last < requested
        <3> DEFINE range == {f \in {"requested_end_block"} : requested <= last}
        <3>1. range = {}
            BY <2>1, <2>2, BrokenIs, Zenon
        <3>2. ~(requested <= last)
            BY <3>1
        <3> QED BY <2>1, <3>2
    <2>5. OneGerPerBlock(GersSeen(last + 1, requested))
        <3>1. last + 1 \in Nat \ {0} /\ requested \in Nat /\ requested <= Len(chain)
            BY <2>1
        <3> QED BY <1>2, <3>1, SeenOnePerBlock
    <2>6. ExitsSeen(last + 1, requested) \in Seq(Exits)
        <3>1. requested - 1 \in Nat /\ requested - 1 < Len(chain) /\ (requested - 1) + 1 = requested
            BY <1>2, <2>1, <2>4
        <3>2. last + 1 \in Nat
            BY <2>1
        <3> DEFINE k == requested - 1
                   seen == ExitsSeen(last + 1, k)
                   x == SeenExit(k + 1)
                   sees == k + 1 >= last + 1 /\ chain[k + 1].op = "claim"
        <3>3. /\ seen \in Seq(Exits)
              /\ sees => ExitsSeen(last + 1, k + 1) = Append(seen, x)
              /\ ~sees => ExitsSeen(last + 1, k + 1) = seen
            <4>1. SeesExit(last + 1, k)
                BY <1>2, <3>1, <3>2, ExitsSeenStep
            <4> QED BY <4>1, Zenon DEF SeesExit
        <3>4. sees => x \in Exits
            <4> SUFFICES ASSUME sees PROVE x \in Exits
                OBVIOUS
            <4>1. chain[k + 1] \in Events
                BY <1>2, <3>1
            <4>2. chain[k + 1].item \in Claims
                BY <4>1, EventKinds DEF Events
            <4> QED BY <3>1, <4>2 DEF SeenExit, Exits
        <3> DEFINE all == ExitsSeen(last + 1, k + 1)
        <3> HIDE DEF seen, x, sees, all
        <3>5. /\ sees => all = Append(seen, x)
              /\ ~sees => all = seen
            BY <3>3 DEF all
        <3>6. all \in Seq(Exits)
            BY <3>3, <3>4, <3>5
        <3> QED BY <3>1, <3>6 DEF all
    <2>7. ReqInv'
        <3>1. /\ last \in Nat /\ requested \in Nat /\ requested <= Len(chain) /\ last <= Len(chain)
            BY <2>1
        <3>2. /\ req'.ger_leaves = GersSeen(req.last_proven_block + 1, req.requested_end_block)'
              /\ req'.imported_bridge_exits
                    = ExitsSeen(req.last_proven_block + 1, req.requested_end_block)'
            BY <1>1, <2>3 DEF GersSeen, ExitsSeen
        <3>3. OneGerPerBlock(req'.ger_leaves) /\ req'.imported_bridge_exits \in Seq(Exits)
            BY <2>3, <2>5, <2>6
        <3> QED BY <1>1, <2>1, <2>3, <2>4, <3>1, <3>2, <3>3 DEF ReqInv
    <2>8. resp'.status # "ok" /\ resp' = None
        BY <1>2, <2>2 DEF None
    <2>9. ReadInv'
        BY <1>3 DEF ReadInv
    <2>10. CASE request.mode = "normal" /\ pc' = "proposer" /\ end_block' = end_block
        <3>1. ~Building'
            BY <2>8, <2>10 DEF Building
        <3> QED BY <1>1, <1>2, <1>3, <2>3, <2>7, <2>8, <2>10, <3>1 DEF IInv
    <2>11. CASE /\ request.mode = "optimistic" /\ pc' = "fetch" /\ end_block' = requested
                /\ fep' = Signed(last, requested)
        <3>1. fep'.pv.l2_block_number = requested
            <4>1. fep'.pv = public_values(get_l2_output_at_block(Block(last)),
                                get_l2_output_at_block(Block(requested)), requested)
                BY <2>11 DEF Signed
            <4> QED BY <4>1 DEF public_values
        <3>2. fep' = Signed(req.last_proven_block, req.requested_end_block)'
            <4>1. Signed(last, requested) = Signed(req.last_proven_block, req.requested_end_block)'
                BY <1>1, <2>3 DEF Signed, Block, ExitsSeen
            <4> QED BY <2>11, <4>1
        <3>3. ProofInv'
            <4>1. req'.mode = "optimistic" /\ end_block' = req'.requested_end_block
                BY <2>3, <2>11
            <4>2. req'.mode # "normal"
                BY <4>1
            <4> QED BY <2>3, <3>1, <3>2, <4>1, <4>2, Zenon DEF ProofInv
        <3>4. end_block' \in Nat
            BY <2>1, <2>11
        <3> QED BY <1>1, <1>2, <1>3, <2>3, <2>7, <2>8, <2>9, <2>11, <3>3, <3>4 DEF IInv
    <2> QED BY <2>2, <2>10, <2>11
<1> QED BY <1>1, <1>4, <1>5

\* What is known while the request is served, of a step that leaves the chain alone.
LEMMA Serves ==
    ASSUME IInv, pc \in {"proposer", "wait", "fetch", "prove"},
           chain' = chain, reorgs' = reorgs, req' = req
    PROVE  /\ chain' \in Seq(Events) /\ reorgs' \in Nat /\ (reorgs' = 0 => Admitted(chain'))
           /\ ReqInv /\ ReqInv' /\ resp = None /\ resp.status # "ok"
           /\ Reads' = Reads
<1>1. /\ chain \in Seq(Events) /\ reorgs \in Nat /\ (reorgs = 0 => Admitted(chain))
      /\ ReqInv /\ resp = None
    BY DEF IInv, Open
<1>2. ReqInv'
    BY <1>1, SameRequest
<1>3. resp.status # "ok"
    BY <1>1 DEF None
<1>4. Reads' = Reads
    BY DEF Reads
<1> QED BY <1>1, <1>2, <1>3, <1>4

LEMMA ProposerStep ==
    ASSUME IInv, NEW end \in 0..Len(chain), RequestAggProof(end) PROVE IInv'
<1>1. /\ pc = "proposer" /\ pc' = "wait" /\ end_block' = end /\ chain' = chain
      /\ reorgs' = reorgs /\ req' = req /\ fetched' = fetched /\ resp' = resp
    BY DEF RequestAggProof
<1>2. /\ chain' \in Seq(Events) /\ reorgs' \in Nat /\ (reorgs' = 0 => Admitted(chain'))
      /\ ReqInv' /\ resp = None /\ resp.status # "ok" /\ Reads' = Reads
    BY <1>1, Serves
<1>3. fetched = <<>> /\ req.mode = "normal" /\ Len(fetched) <= Len(Reads)
    BY <1>1 DEF IInv
<1>4. fetched' \in Seq({}) /\ end_block' \in Nat
    BY <1>1, <1>3
<1>5. ~Building'
    BY <1>1, <1>2 DEF Building
<1> QED BY <1>1, <1>2, <1>3, <1>4, <1>5 DEF IInv

LEMMA WaitStep ==
    ASSUME IInv, NEW last \in 0..Len(chain), NEW end \in 0..Len(chain), WaitForProof(last, end)
    PROVE  IInv'
<1>1. /\ pc = "wait" /\ pc' = "fetch" /\ last < end /\ chain' = chain /\ reorgs' = reorgs
      /\ req' = req /\ fetched' = fetched /\ resp' = resp /\ end_block' = end_block
      /\ fep' = public_values(get_l2_output_at_block(Block(last)),
                              get_l2_output_at_block(Block(end)), end)
    BY DEF WaitForProof
<1>2. /\ chain' \in Seq(Events) /\ reorgs' \in Nat /\ (reorgs' = 0 => Admitted(chain'))
      /\ ReqInv' /\ resp = None /\ resp.status # "ok" /\ Reads' = Reads
    BY <1>1, Serves
<1>3. /\ fetched = <<>> /\ req.mode = "normal" /\ Len(fetched) <= Len(Reads)
      /\ end_block \in Nat /\ chain \in Seq(Events)
    BY <1>1 DEF IInv
<1>4. fetched' \in Seq({}) /\ Len(fetched') = 0
    BY <1>1, <1>3
<1>5. ProofInv'
    <2>0. PICK p, b : p = Block(last) /\ b = Block(end)
        OBVIOUS
    <2>1. /\ p \in Seq(Events) /\ Len(p) = last /\ b \in Seq(Events) /\ Len(b) = end /\ Past(b)
        BY <1>3, <2>0, BlockIsPast
    <2>2. p = SubSeq(b, 1, last)
        BY <1>1, <1>3, <2>0 DEF Block
    <2>3. Past(b)'
        BY <1>1, <2>1, SameRequest
    <2>4. /\ Past(b)' /\ Len(p) <= Len(b) /\ p = SubSeq(b, 1, Len(p))
          /\ fep' = public_values(get_l2_output_at_block(p), get_l2_output_at_block(b), Len(b))
        <3>1. last <= end
            BY <1>1
        <3>2. fep' = public_values(get_l2_output_at_block(p), get_l2_output_at_block(b), Len(b))
            BY <1>1, <2>0, <2>1, Zenon
        <3> QED BY <2>1, <2>2, <2>3, <3>1, <3>2
    <2>5. req'.mode # "optimistic"
        BY <1>1, <1>3
    <2> QED BY <2>1, <2>4, <2>5, Zenon DEF ProofInv
<1>6. ReadInv'
    BY <1>4 DEF ReadInv
<1> QED BY <1>1, <1>2, <1>3, <1>4, <1>5, <1>6 DEF IInv

\* One more answer.
LEMMA Answered ==
    ASSUME IInv, pc = "fetch", Len(fetched) < Len(Reads), NEW x, fetched' = Append(fetched, x),
           Len(fetched) + 1 # 5 =>
              \E b : Past(b) /\ Len(b) = NumberOf(Len(fetched) + 1)
                        /\ x = Answer(Reads[Len(fetched) + 1], b),
           chain' = chain, reorgs' = reorgs, pc' = pc, req' = req, end_block' = end_block,
           fep' = fep, resp' = resp
    PROVE  IInv'
<1> DEFINE n == Len(fetched)
<1>1. /\ chain' \in Seq(Events) /\ reorgs' \in Nat /\ (reorgs' = 0 => Admitted(chain'))
      /\ ReqInv' /\ resp = None /\ resp.status # "ok" /\ Reads' = Reads
    BY Serves
<1>2. Building /\ ProofInv /\ ReadInv /\ end_block \in Nat
    BY DEF IInv, Building
<1>3. PICK S : fetched \in Seq(S)
    BY DEF IInv
<1>4. /\ n \in Nat /\ Len(fetched') = n + 1 /\ fetched' \in Seq(S \cup {x})
      /\ \A i \in 1..n : fetched'[i] = fetched[i]
      /\ fetched'[n + 1] = x
    BY <1>3
<1>5. ProofInv'
    BY <1>2, SameProof
<1>6. ReadInv'
    <2> SUFFICES ASSUME NEW i \in 1..Len(fetched'), i # 5
                 PROVE  \E b : /\ Past(b)' /\ Len(b) = NumberOf(i)'
                               /\ fetched'[i] = Answer(Reads[i], b)
        BY <1>1 DEF ReadInv
    <2>1. NumberOf(i)' = NumberOf(i)
        BY <1>1 DEF NumberOf
    <2>2. \E b : Past(b) /\ Len(b) = NumberOf(i) /\ fetched'[i] = Answer(Reads[i], b)
        <3>1. CASE i = n + 1
            BY <1>4, <3>1
        <3>2. CASE i # n + 1
            <4>1. i \in 1..n
                BY <1>4, <3>2
            <4>2. \E b : Past(b) /\ Len(b) = NumberOf(i) /\ fetched[i] = Answer(Reads[i], b)
                BY <1>2, <4>1, Zenon DEF ReadInv
            <4> QED BY <1>4, <4>1, <4>2
        <3> QED BY <3>1, <3>2
    <2> QED BY <2>1, <2>2, SameRequest, Zenon
<1>7. Len(fetched') <= Len(Reads)
    BY <1>4, ReadIs
<1>8. \E T : fetched' \in Seq(T)
    BY <1>4
<1> HIDE DEF n
<1> QED BY <1>1, <1>2, <1>5, <1>6, <1>7, <1>8 DEF IInv

LEMMA FetchStep == ASSUME IInv, Fetch PROVE IInv'
<1> DEFINE k == Len(fetched) + 1
           n == NumberOf(k)
<1>1. /\ pc = "fetch" /\ Len(fetched) < Len(Reads)
      /\ chain' = chain /\ reorgs' = reorgs /\ pc' = pc /\ req' = req
      /\ end_block' = end_block /\ fep' = fep /\ resp' = resp
    BY DEF Fetch
<1>2. n <= Len(chain) /\ fetched' = Append(fetched, Answer(Reads[k], Block(n)))
    BY DEF Fetch, NextRead, NumberOf
<1>3. chain \in Seq(Events) /\ n \in Nat
    BY <1>1 DEF IInv, Open, ReqInv, NumberOf
<1>4. Past(Block(n)) /\ Len(Block(n)) = n
    <2>1. n \in 0..Len(chain)
        BY <1>2, <1>3
    <2> HIDE DEF n
    <2> QED BY <1>3, <2>1, BlockIsPast
<1> DEFINE x == Answer(Reads[k], Block(n))
<1>5. \E b : Past(b) /\ Len(b) = NumberOf(k) /\ x = Answer(Reads[k], b)
    BY <1>4, Zenon
<1>6. fetched' = Append(fetched, x)
    BY <1>2
<1> HIDE DEF x
<1> QED BY <1>1, <1>5, <1>6, Answered

LEMMA ConfigStep ==
    ASSUME IInv, NEW config, FetchOpSuccinctConfig(config) PROVE IInv'
<1>1. /\ pc = "fetch" /\ Len(fetched) < Len(Reads) /\ NextRead = "op_succinct_config"
      /\ chain' = chain /\ reorgs' = reorgs
      /\ \/ /\ fetched' = Append(fetched, config) /\ pc' = pc /\ req' = req
            /\ end_block' = end_block /\ fep' = fep /\ resp' = resp
         \/ InternalError
    BY DEF FetchOpSuccinctConfig
<1>2. CASE InternalError
    BY <1>1, <1>2, EndsInternal
<1>3. CASE ~InternalError
    <2>1. Len(fetched) + 1 = 5
        <3>1. PICK S : fetched \in Seq(S)
            BY DEF IInv
        <3>2. Len(fetched) + 1 \in 1..7
            BY <1>1, <3>1, ReadIs
        <3>3. \A i \in 1..7 : Reads[i] = "op_succinct_config" => i = 5
            BY DEF Reads
        <3> QED BY <1>1, <3>2, <3>3 DEF NextRead
    <2> QED BY <1>1, <1>3, <2>1, Answered
<1> QED BY <1>2, <1>3

LEMMA CompareStep == ASSUME IInv, Compare PROVE IInv'
<1>1. /\ pc = "fetch" /\ Len(fetched) = Len(Reads) /\ chain' = chain /\ reorgs' = reorgs
      /\ \/ /\ pc' = "prove" /\ req' = req /\ end_block' = end_block /\ fep' = fep
            /\ fetched' = fetched /\ resp' = resp
         \/ InternalError
    BY DEF Compare
<1>2. CASE InternalError
    BY <1>1, <1>2, EndsInternal
<1>3. CASE ~InternalError
    <2>1. /\ chain' \in Seq(Events) /\ reorgs' \in Nat /\ (reorgs' = 0 => Admitted(chain'))
          /\ ReqInv' /\ resp = None /\ resp.status # "ok" /\ Reads' = Reads
        BY <1>1, <1>3, Serves
    <2>2. /\ ProofInv /\ ReadInv /\ end_block \in Nat /\ Len(fetched) <= Len(Reads)
          /\ \E S : fetched \in Seq(S)
        BY <1>1 DEF IInv, Building
    <2>3. ProofInv' /\ ReadInv'
        BY <1>1, <1>3, <2>2, SameProof, SameReads
    <2> QED BY <1>1, <1>3, <2>1, <2>2, <2>3 DEF IInv
<1> QED BY <1>2, <1>3

LEMMA ProveStep == ASSUME IInv, Prove PROVE IInv'
<1>1. /\ pc = "prove" /\ chain' = chain /\ reorgs' = reorgs
      /\ \/ /\ verify_aggchain_inputs /\ pc' = "done" /\ resp' = AggchainProofServiceResponse
            /\ req' = req /\ end_block' = end_block /\ fep' = fep /\ fetched' = fetched
         \/ InternalError
    BY DEF Prove
<1>2. CASE InternalError
    BY <1>1, <1>2, EndsInternal
<1>3. CASE ~InternalError
    <2>1. /\ chain' \in Seq(Events) /\ reorgs' \in Nat /\ (reorgs' = 0 => Admitted(chain'))
          /\ ReqInv' /\ Reads' = Reads
        BY <1>1, <1>3, Serves
    <2>2. /\ ProofInv /\ ReadInv /\ end_block \in Nat /\ Len(fetched) = Len(Reads)
          /\ Len(fetched) <= Len(Reads) /\ \E S : fetched \in Seq(S)
        BY <1>1 DEF IInv, Building
    <2>3. ProofInv' /\ ReadInv'
        BY <1>1, <1>3, <2>2, SameProof, SameReads
    <2>4. verify_aggchain_inputs' /\ resp' = AggchainProofServiceResponse'
        BY <1>1, <1>3, SameAnswer
    <2> QED BY <1>1, <1>3, <2>1, <2>2, <2>3, <2>4 DEF IInv
<1> QED BY <1>2, <1>3

LEMMA SameStep == ASSUME IInv, UNCHANGED vars PROVE IInv'
<1>1. /\ chain' = chain /\ reorgs' = reorgs /\ pc' = pc /\ req' = req
      /\ end_block' = end_block /\ fep' = fep /\ fetched' = fetched /\ resp' = resp
    BY DEF vars
<1>2. (ReqInv' <=> ReqInv) /\ (ProofInv' <=> ProofInv) /\ (ReadInv' <=> ReadInv)
    BY <1>1, SameRequest, SameProof, SameReads
<1>3. /\ verify_aggchain_inputs' <=> verify_aggchain_inputs
      /\ AggchainProofServiceResponse' = AggchainProofServiceResponse
    BY <1>1, SameAnswer
<1>4. (Open' <=> Open) /\ (Building' <=> Building) /\ Reads' = Reads
    BY <1>1 DEF Open, Building, Reads
<1> QED BY <1>1, <1>2, <1>3, <1>4 DEF IInv

LEMMA ReorgStep == ASSUME IInv, Reorg PROVE IInv'
<1> DEFINE last == req.last_proven_block
<1>1. /\ pc \in {"proposer", "wait", "fetch"} /\ reorgs' = reorgs + 1 /\ pc' = pc /\ req' = req
      /\ end_block' = end_block /\ fep' = fep /\ fetched' = fetched /\ resp' = resp
    BY DEF Reorg
<1>2. PICK n \in last..Len(chain), suffix \in ReplacementBlocks : chain' = Block(n) \o suffix
    BY Zenon DEF Reorg
<1>3. /\ chain \in Seq(Events) /\ reorgs \in Nat /\ end_block \in Nat /\ resp = None /\ ReqInv
      /\ \E S : fetched \in Seq(S)
      /\ Len(fetched) <= Len(Reads)
    BY <1>1 DEF IInv, Open
<1>4. last \in Nat /\ last <= Len(chain)
    BY <1>3 DEF ReqInv
<1>5. suffix \in Seq(Events)
    <2>1. PICK m \in 0..MaxBlocks : suffix \in [1..m -> Events]
        BY DEF ReplacementBlocks, BoundedSeq, SeqOf, Events
    <2>2. m \in Nat
        BY <2>1, FlowAssumption
    <2> QED BY <2>1, <2>2
<1>6. /\ chain' \in Seq(Events) /\ last <= Len(chain')
      /\ \A i \in 1..last : chain'[i] = chain[i]
    <2> DEFINE c == Block(n)
    <2>1. c \in Seq(Events) /\ Len(c) = n /\ n \in Nat /\ \A i \in 1..n : c[i] = chain[i]
        BY <1>3, <1>4 DEF Block
    <2> HIDE DEF c
    <2>2. /\ c \o suffix \in Seq(Events) /\ Len(c \o suffix) = Len(c) + Len(suffix)
          /\ \A i \in 1..Len(c) : (c \o suffix)[i] = c[i]
        BY <1>5, <2>1
    <2>3. chain' = c \o suffix
        BY <1>2 DEF c
    <2>4. Len(suffix) \in Nat /\ last <= n
        BY <1>2, <1>4, <1>5
    <2> DEFINE d == c \o suffix
    <2> HIDE DEF d
    <2>5. /\ d \in Seq(Events) /\ Len(d) = n + Len(suffix) /\ \A i \in 1..n : d[i] = c[i]
        BY <2>1, <2>2 DEF d
    <2>6. d \in Seq(Events) /\ last <= Len(d) /\ \A i \in 1..last : d[i] = chain[i]
        BY <1>4, <2>1, <2>4, <2>5
    <2> QED BY <2>3, <2>6 DEF d
<1>7. reorgs' \in Nat /\ reorgs' # 0
    BY <1>1, <1>3
<1>8. ASSUME NEW b, Past(b) PROVE Past(b)'
    <2>1. /\ b \in Seq(Events)
          /\ \A i \in 1..Len(b) : i <= last => b[i] = chain[i]
        BY <1>8, Zenon DEF Past
    <2>2. \A i \in 1..Len(b) : i <= last => b[i] = chain'[i]
        BY <1>4, <1>6, <2>1
    <2> QED BY <1>1, <1>7, <2>1, <2>2 DEF Past
<1>9. ReqInv'
    <2>1. /\ req.mode \in {"normal", "optimistic"}
          /\ req.last_proven_block \in Nat /\ req.requested_end_block \in Nat
          /\ req.last_proven_block < req.requested_end_block
          /\ req.imported_bridge_exits \in Seq(Exits)
          /\ OneGerPerBlock(req.ger_leaves)
        BY <1>3 DEF ReqInv
    <2> QED BY <1>1, <1>6, <1>7, <2>1 DEF ReqInv
<1>10. Building' => Building
    BY <1>1 DEF Building
<1>11. Building' => ProofInv'
    <2> SUFFICES ASSUME Building' PROVE ProofInv'
        OBVIOUS
    <2>1. ProofInv
        BY <1>10 DEF IInv
    <2>2. CASE req.mode = "normal"
        <3>1. PICK p \in Seq(Events), b \in Seq(Events) :
                  /\ Past(b) /\ Len(p) <= Len(b) /\ p = SubSeq(b, 1, Len(p))
                  /\ fep = public_values(get_l2_output_at_block(p), get_l2_output_at_block(b),
                                         Len(b))
            BY <2>1, <2>2, Zenon DEF ProofInv
        <3>2. Past(b)'
            BY <1>8, <3>1
        <3>3. fep' = public_values(get_l2_output_at_block(p), get_l2_output_at_block(b), Len(b))
            BY <1>1, <3>1, Zenon
        <3>4. req'.mode # "optimistic"
            BY <1>1, <2>2
        <3> QED BY <3>1, <3>2, <3>3, <3>4, Zenon DEF ProofInv
    <2>3. CASE req.mode # "normal"
        <3>1. req.mode = "optimistic"
            BY <1>3, <2>3 DEF ReqInv
        <3>2. end_block = req.requested_end_block /\ fep.pv.l2_block_number = req.requested_end_block
            BY <2>1, <3>1, Zenon DEF ProofInv
        <3> QED BY <1>1, <1>7, <2>3, <3>2 DEF ProofInv
    <2> QED BY <2>2, <2>3
<1>12. Building' => ReadInv'
    <2> SUFFICES ASSUME Building', NEW i \in 1..Len(fetched'), i # 5
                 PROVE  \E b : /\ Past(b)' /\ Len(b) = NumberOf(i)'
                               /\ fetched'[i] = Answer(Reads[i]', b)
        BY DEF ReadInv
    <2>1. ReadInv
        BY <1>10 DEF IInv
    <2>2. PICK b : Past(b) /\ Len(b) = NumberOf(i) /\ fetched[i] = Answer(Reads[i], b)
        BY <1>1, <2>1, Zenon DEF ReadInv
    <2>3. Past(b)'
        BY <1>8, <2>2
    <2>4. Reads' = Reads /\ NumberOf(i)' = NumberOf(i)
        BY <1>1 DEF NumberOf, Reads
    <2> QED BY <1>1, <2>2, <2>3, <2>4
<1>13. resp'.status # "ok" /\ Reads' = Reads
    BY <1>1, <1>3 DEF None, Reads
<1>14. /\ pc' # "idle" /\ pc' # "prove" /\ resp' = None
       /\ pc' \in {"idle", "proposer", "wait"} => fetched' = <<>>
       /\ pc' \in {"proposer", "wait"} => req'.mode = "normal"
    BY <1>1, <1>3 DEF IInv
<1> QED BY <1>1, <1>3, <1>6, <1>7, <1>9, <1>11, <1>12, <1>13, <1>14 DEF IInv

LEMMA NextInv == IInv /\ [Next]_vars => IInv'
<1> SUFFICES ASSUME IInv, [Next]_vars PROVE IInv'
    OBVIOUS
<1>1. CASE \E event \in Events : Mine(event)
    BY <1>1, MineStep
<1>2. CASE Submit
    BY <1>2, SubmitStep
<1>3. CASE \E end \in 0..Len(chain) : RequestAggProof(end)
    BY <1>3, ProposerStep
<1>4. CASE \E last, end \in 0..Len(chain) : WaitForProof(last, end)
    BY <1>4, WaitStep
<1>5. CASE \E config \in OpSuccinctConfigs : FetchOpSuccinctConfig(config)
    BY <1>5, ConfigStep
<1>6. CASE Reorg
    BY <1>6, ReorgStep
<1>7. CASE Fetch
    BY <1>7, FetchStep
<1>8. CASE Compare
    BY <1>8, CompareStep
<1>9. CASE Prove
    BY <1>9, ProveStep
<1>10. CASE Fail
    <2>1. InternalError /\ chain' = chain /\ reorgs' = reorgs
        BY <1>10 DEF Fail
    <2> QED BY <2>1, EndsInternal
<1>11. CASE UNCHANGED vars
    BY <1>11, SameStep
<1> QED
    BY Steps, <1>1, <1>2, <1>3, <1>4, <1>5, <1>6, <1>7, <1>8, <1>9, <1>10, <1>11, Zenon

LEMMA Invariance == Spec => []IInv
BY InitInv, NextInv, PTL DEF Spec

-----------------------------------------------------------------------------
(* A request is taken whole *)

\* Before the submission there is no request.
WholeInv == RequestTakenWhole /\ (pc = "idle" => req = None)

\* A step that keeps the request and answers nothing, or answers with a proof.
LEMMA KeepsWhole ==
    ASSUME WholeInv, wire' = wire, req' = req, pc' = "idle" => pc = "idle",
           resp' = resp \/ resp'.status # "InvalidArgument"
    PROVE  WholeInv'
<1>1. /\ req # None => Broken(wire) = {} /\ req = AggchainProofInputs(wire)
      /\ resp.status = "InvalidArgument" => resp.error.field_path \in Broken(wire)
      /\ pc = "idle" => req = None
    BY Zenon DEF WholeInv, RequestTakenWhole
<1>2. /\ Broken(wire)' = Broken(wire) /\ AggchainProofInputs(wire)' = AggchainProofInputs(wire)
      /\ None' = None
    BY DEF Broken, AggchainProofInputs, None
<1>3. req' # None' => Broken(wire)' = {} /\ req' = AggchainProofInputs(wire)'
    BY <1>1, <1>2, Zenon
<1>4. resp'.status = "InvalidArgument" => resp'.error.field_path \in Broken(wire)'
    BY <1>1, <1>2, Zenon
<1>5. pc' = "idle" => req' = None'
    BY <1>1, <1>2, Zenon
<1> QED BY <1>3, <1>4, <1>5, Zenon DEF WholeInv, RequestTakenWhole

LEMMA DropsWhole == ASSUME InternalError PROVE WholeInv'
<1>1. pc' = "done" /\ resp' = Failure("Internal") /\ req' = None
    BY DEF InternalError
<1>2. resp'.status # "InvalidArgument" /\ None' = None
    BY <1>1 DEF Failure, None
<1>3. pc' # "idle"
    BY <1>1
<1> QED BY <1>1, <1>2, <1>3, Zenon DEF WholeInv, RequestTakenWhole

LEMMA SubmitWhole == ASSUME IInv, WholeInv, Submit PROVE WholeInv'
<1>1. chain \in Seq(Events)
    BY DEF IInv
<1>2. pc = "idle" /\ (Refuses(wire') \/ Takes(wire'))
    BY <1>1, SubmitMeans
<1>3. req = None /\ resp = None
    BY <1>2 DEF IInv, WholeInv
<1>4. Broken(wire)' = Broken(wire') /\ AggchainProofInputs(wire)' = AggchainProofInputs(wire')
      /\ None' = None
    BY DEF Broken, AggchainProofInputs, None
<1>5. CASE Refuses(wire')
    <2>1. /\ pc' = "done" /\ req' = req /\ resp'.error.field_path \in Broken(wire')
        BY <1>5, Zenon DEF Refuses
    <2>2. pc' # "idle"
        BY <2>1
    <2> QED BY <1>3, <1>4, <2>1, <2>2, Zenon DEF WholeInv, RequestTakenWhole
<1>6. CASE Takes(wire')
    <2>1. /\ Broken(wire') = {} /\ req' = AggchainProofInputs(wire') /\ resp' = resp
          /\ pc' = "proposer" \/ pc' = "fetch"
        BY <1>6, Zenon DEF Takes
    <2>2. pc' # "idle" /\ resp'.status # "InvalidArgument"
        BY <1>3, <2>1 DEF None
    <2> QED BY <1>4, <2>1, <2>2, Zenon DEF WholeInv, RequestTakenWhole
<1> QED BY <1>2, <1>5, <1>6

LEMMA NextWhole == IInv /\ WholeInv /\ [Next]_vars => WholeInv'
<1> SUFFICES ASSUME IInv, WholeInv, [Next]_vars PROVE WholeInv'
    OBVIOUS
<1>1. CASE \E event \in Events : Mine(event)
    BY <1>1, KeepsWhole DEF Mine
<1>2. CASE Submit
    BY <1>2, SubmitWhole
<1>3. CASE \E end \in 0..Len(chain) : RequestAggProof(end)
    BY <1>3, KeepsWhole DEF RequestAggProof
<1>4. CASE \E last, end \in 0..Len(chain) : WaitForProof(last, end)
    BY <1>4, KeepsWhole DEF WaitForProof
<1>5. CASE \E config \in OpSuccinctConfigs : FetchOpSuccinctConfig(config)
    BY <1>5, KeepsWhole, DropsWhole DEF FetchOpSuccinctConfig
<1>6. CASE Reorg
    <2>1. pc' = pc /\ wire' = wire /\ req' = req /\ resp' = resp
        BY <1>6, Zenon DEF Reorg
    <2> QED BY <2>1, KeepsWhole
<1>7. CASE Fetch
    BY <1>7, KeepsWhole DEF Fetch
<1>8. CASE Compare
    BY <1>8, KeepsWhole, DropsWhole DEF Compare
<1>9. CASE Prove
    <2>1. CASE InternalError
        BY <2>1, DropsWhole
    <2>2. CASE ~InternalError
        <3>1. pc' = "done" /\ wire' = wire /\ req' = req /\ resp' = AggchainProofServiceResponse
            BY <1>9, <2>2 DEF Prove
        <3>2. resp'.status # "InvalidArgument"
            BY <3>1 DEF AggchainProofServiceResponse
        <3> QED BY <3>1, <3>2, KeepsWhole
    <2> QED BY <2>1, <2>2
<1>10. CASE Fail
    BY <1>10, DropsWhole DEF Fail
<1>11. CASE UNCHANGED vars
    BY <1>11, KeepsWhole DEF vars
<1> QED
    BY Steps, <1>1, <1>2, <1>3, <1>4, <1>5, <1>6, <1>7, <1>8, <1>9, <1>10, <1>11, Zenon

LEMMA InitWhole == Init => WholeInv
<1> SUFFICES ASSUME Init PROVE WholeInv
    OBVIOUS
<1>1. req = None /\ resp.status # "InvalidArgument"
    BY DEF Init, None
<1> QED BY <1>1, Zenon DEF WholeInv, RequestTakenWhole

\* A request that is served has no field that does not decode, and a refused one is
\* told a field that is broken.
LEMMA WholeRequest == Spec => []WholeInv
BY Invariance, InitWhole, NextWhole, PTL DEF Spec

-----------------------------------------------------------------------------
(* A quiet range is provable *)

\* With nothing to remove, filter_values keeps all values.
LEMMA FilterNothing ==
    ASSUME NEW V, NEW values \in Seq(V), NEW K, NEW keys \in Seq(K), Len(keys) = Len(values)
    PROVE  filter_values(<<>>, values, keys) = values
<1> DEFINE L == Len(values)
<1>1. L \in Nat /\ <<>> \in Seq({})
    OBVIOUS
<1>2. PICK out \in [0..L -> Seq(V)] : OutEq(out, <<>>, values, keys)
    BY <1>1, FilterOut
<1>3. /\ out[0] = <<>>
      /\ \A i \in 1..L : out[i] = IF CountTo(keys, i - 1, keys[i]) < Count(<<>>, keys[i])
                                  THEN out[i - 1] ELSE Append(out[i - 1], values[i])
      /\ filter_values(<<>>, values, keys) = out[L]
    BY <1>2, Zenon DEF OutEq
<1>4. ASSUME NEW i \in 1..L PROVE out[i] = Append(out[i - 1], values[i])
    <2>1. i - 1 \in Nat
        OBVIOUS
    <2>2. CountTo(keys, i - 1, keys[i]) \in Nat /\ Count(<<>>, keys[i]) = 0
        BY <2>1, CountToStep, CountEmpty
    <2>3. ~(CountTo(keys, i - 1, keys[i]) < Count(<<>>, keys[i]))
        BY <2>2
    <2> QED BY <1>3, <2>3, Zenon
<1> DEFINE N == {n \in Nat : n <= L => out[n] = SubSeq(values, 1, n)}
<1>5. 0 \in N
    <2>1. SubSeq(values, 1, 0) = <<>>
        OBVIOUS
    <2> QED BY <1>3, <2>1
<1>6. ASSUME NEW n \in Nat, n \in N PROVE n + 1 \in N
    <2> SUFFICES ASSUME n + 1 <= L PROVE out[n + 1] = SubSeq(values, 1, n + 1)
        OBVIOUS
    <2>1. n < Len(values) /\ n <= L /\ n + 1 \in 1..L /\ (n + 1) - 1 = n
        BY <1>1
    <2>2. out[n + 1] = Append(SubSeq(values, 1, n), values[n + 1])
        BY <1>4, <1>6, <2>1
    <2>3. SubSeq(values, 0 + 1, n + 1) = Append(SubSeq(values, 0 + 1, n), values[n + 1])
        BY <2>1, RangeStep
    <2> QED BY <2>2, <2>3
<1> HIDE DEF N
<1>7. L \in N
    BY <1>1, <1>5, <1>6, NatInduct
<1>8. out[L] = SubSeq(values, 1, L)
    BY <1>1, <1>7 DEF N
<1> QED BY <1>3, <1>8

\* The contracts insert a GER twice only after they removed it.
LEMMA QuietInsertsOnce ==
    ASSUME chain \in Seq(Events), Admitted(chain), NEW m \in Nat, NEW n \in Nat,
           m <= n, n <= Len(chain), Items(SubSeq(chain, m + 1, n), "remove") = <<>>
    PROVE  InsertedOnce(m, n)
<1> SUFFICES ASSUME NEW i \in m + 1..n, chain[i].op = "insert", NEW j \in i + 1..n,
                    chain[j] = chain[i]
             PROVE  FALSE
    BY DEF InsertedOnce
<1> DEFINE g == chain[i].item
           b == SubSeq(chain, 1, j - 1)
           r == SubSeq(chain, m + 1, n)
<1>1. i \in 1..j - 1 /\ j \in 1..Len(chain) /\ i \in Nat /\ j \in Nat
    OBVIOUS
<1>2. b \in Seq(Events) /\ Len(b) = j - 1 /\ \A k \in 1..j - 1 : b[k] = chain[k]
    BY <1>1
<1>3. r \in Seq(Events) /\ Len(r) = n - m /\ \A k \in 1..n - m : r[k] = chain[m + k]
    OBVIOUS
<1>4. g \notin GersInForce(b)
    <2>1. Admissible(b, chain[j])
        BY <1>1 DEF Admitted
    <2>2. chain[j].op = "insert" /\ chain[j].item = g
        OBVIOUS
    <2> QED BY <2>1, <2>2 DEF Admissible
<1> HIDE DEF b, r
<1>5. ~Stands(b, Inserts(Events, g), Removes(Events, g))
    BY <1>2, <1>4, GersStand
<1>6. b[i] \in Inserts(Events, g)
    <2>1. b[i] = chain[i] /\ chain[i] \in Events
        BY <1>1, <1>2
    <2> QED BY <2>1 DEF Inserts
<1>7. PICK k \in i + 1..Len(b) : b[k] \in Removes(Events, g)
    BY <1>1, <1>2, <1>5, <1>6 DEF Stands
<1>8. k \in Nat /\ k - m \in 1..Len(r) /\ r[k - m] = b[k]
    <2>1. k \in Nat /\ k \in 1..j - 1 /\ k - m \in 1..n - m /\ m + (k - m) = k
        BY <1>1, <1>2, <1>7
    <2>2. r[k - m] = chain[m + (k - m)] /\ b[k] = chain[k]
        BY <1>2, <1>3, <2>1
    <2>3. Len(r) = n - m
        BY <1>3
    <2> QED BY <2>1, <2>2, <2>3
<1>9. r[k - m].op = "remove" /\ r[k - m].item = g
    BY <1>7, <1>8 DEF Removes
<1>10. \A e \in Events : e.op = "remove" => e.item \in Gers
    BY EventKinds DEF Events
<1>11. Occurs(r, "remove", g)
    BY <1>8, <1>9, Zenon DEF Occurs
<1>12. Count(Items(r, "remove"), g) > 0
    BY <1>3, <1>10, <1>11, ItemsOccur
<1>13. Count(Items(r, "remove"), g) = 0
    BY CountEmpty, Zenon DEF r
<1> QED BY <1>12, <1>13

\* Without a reorganisation, every answer is about the chain.
LEMMA QuietReads ==
    ASSUME IInv, pc = "prove", reorgs = 0
    PROVE  /\ PrevBlock = Block(req.last_proven_block)
           /\ NewBlock = Block(end_block) /\ end_block \in 0..Len(chain)
           /\ Read("new_local_exit_root") = getRoot(NewBlock)
           /\ Read("l2_pre_root_output") = get_l2_output_at_block(PrevBlock)
           /\ Read("claim_root_output") = get_l2_output_at_block(NewBlock)
           /\ Read("prev_l2_block_sketch") = get_prev_l2_block_sketch(PrevBlock)
           /\ Read("new_l2_block_sketch") = get_new_l2_block_sketch(NewBlock)
<1>1. AllRead
    <2>1. Building /\ Len(fetched) = Len(Reads)
        BY DEF IInv, Building
    <2> QED BY <2>1, AllReadHolds
<1>2. chain \in Seq(Events)
    BY DEF IInv
<1>3. ASSUME NEW b, Past(b), Len(b) = end_block
      PROVE  b = Block(end_block) /\ end_block \in 0..Len(chain)
    BY <1>2, <1>3, PastIsBlock
<1>4. NewBlock = Block(end_block) /\ end_block \in 0..Len(chain)
    <2>1. Past(NewBlock) /\ Len(NewBlock) = end_block
        BY <1>1, Zenon DEF AllRead
    <2> QED BY <1>3, <2>1
<1>5. Read("new_local_exit_root") = getRoot(NewBlock)
    <2>1. PICK b : Past(b) /\ Len(b) = end_block /\ Read("new_local_exit_root") = getRoot(b)
        BY <1>1, Zenon DEF AllRead
    <2> QED BY <1>3, <1>4, <2>1, Zenon
<1>6. Read("new_l2_block_sketch") = get_new_l2_block_sketch(NewBlock)
    <2>1. PICK b : /\ Past(b) /\ Len(b) = end_block
                   /\ Read("new_l2_block_sketch") = get_new_l2_block_sketch(b)
        BY <1>1, Zenon DEF AllRead
    <2> QED BY <1>3, <1>4, <2>1, Zenon
<1> QED BY <1>1, <1>4, <1>5, <1>6, Zenon DEF AllRead

\* What verify accepts: sketches of the two blocks that were read, with the calls of
\* the host, and lists that are the ones of the chain between them.
LEMMA BridgeAccepts ==
    ASSUME Read("prev_l2_block_sketch") = get_prev_l2_block_sketch(PrevBlock),
           Read("new_l2_block_sketch") = get_new_l2_block_sketch(NewBlock),
           BridgeChecked, ListedGers \in Seq(Gers), CommittedClaims \in Seq(Claims)
    PROVE  verify(bridge_constraints_input)
<1> DEFINE input == bridge_constraints_input
           w == input.bridge_witness
           P == PrevBlock
           Q == NewBlock
           claimed == CommittedClaims
           gers == ListedGers
<1>1. /\ w.raw_inserted_gers = gers /\ w.inserted_gers = gers
      /\ w.removed_gers = <<>> /\ w.global_indices_unset = <<>>
      /\ w.bridge_exits_claimed = claimed
      /\ input.prev_l2_block_hash = P /\ input.new_l2_block_hash = Q
      /\ input.l1_info_root = req.l1_info_root
      /\ input.new_local_exit_root = Read("new_local_exit_root")
      /\ input.commit_imported_bridge_exits = claimed
      /\ w.prev_l2_block_sketch = Read("prev_l2_block_sketch")
      /\ w.new_l2_block_sketch = Read("new_l2_block_sketch")
    BY DEF bridge_constraints_input, ListedGers
<1> HIDE DEF input, w
<1>2. /\ w.prev_l2_block_sketch.block = P /\ w.new_l2_block_sketch.block = Q
      /\ \A call \in GerCalls \cup ClaimCalls :
            call \in w.prev_l2_block_sketch.calls /\ call \in w.new_l2_block_sketch.calls
      /\ "bridgeAddress" \in w.new_l2_block_sketch.calls
      /\ "getRoot" \in w.new_l2_block_sketch.calls
    BY <1>1 DEF get_prev_l2_block_sketch, get_new_l2_block_sketch, EvmSketch
<1>3. /\ Extends(P, gers, Q, "insert") /\ Extends(P, <<>>, Q, "remove")
      /\ Extends(P, claimed, Q, "claim") /\ Extends(P, <<>>, Q, "unset")
      /\ \A i \in 1..Len(gers) : gers[i] \in req.l1_info_root
      /\ Read("new_local_exit_root") = getRoot(Q)
    BY Zenon DEF BridgeChecked
<1>4. filter_values(<<>>, gers, gers) = gers
    <2> HIDE DEF gers
    <2>1. gers \in Seq(Gers)
        BY DEF gers
    <2> QED BY <2>1, FilterNothing
<1>5. filter_values(<<>>, claimed, GlobalIndices(claimed)) = claimed
    <2> HIDE DEF claimed
    <2>1. claimed \in Seq(Claims)
        BY DEF claimed
    <2>2. /\ GlobalIndices(claimed) \in Seq({c.global_index : c \in Claims})
          /\ Len(GlobalIndices(claimed)) = Len(claimed)
        BY <2>1, IndicesType
    <2> QED BY <2>1, <2>2, FilterNothing
<1> HIDE DEF P, Q, gers, claimed
<1>6. \A call \in GerCalls \cup ClaimCalls : fetch_hash_chains(input, call)
    BY <1>1, <1>2 DEF fetch_hash_chains, execute, w
<1>7. verify_ger_hash_chains(input)
    BY <1>1, <1>2, <1>3, <1>6, Zenon DEF verify_ger_hash_chains, validate_hash_chain,
        Extends, insertedGERHashChain, removedGERHashChain, w
<1>8. verify_claims_hash_chains(input)
    BY <1>1, <1>2, <1>3, <1>6, Zenon DEF verify_claims_hash_chains, validate_hash_chain,
        Extends, claimedGlobalIndexHashChain, unsetGlobalIndexHashChain, w
<1>9. fetch_bridge_address(input) /\ verify_new_ler(input)
    BY <1>1, <1>2, <1>3 DEF fetch_bridge_address, verify_new_ler, execute, w
<1>10. verify_constrained_global_indices(input)
    BY <1>1, <1>5, Zenon DEF verify_constrained_global_indices, w
<1>11. verify_inserted_gers(input)
    BY <1>1, <1>3, <1>4, Zenon DEF verify_inserted_gers, inserted_ger_verify, w
<1> QED BY <1>7, <1>8, <1>9, <1>10, <1>11, Zenon DEF verify, input

\* The items of the events between two blocks of the chain.
LEMMA SinceOfChain ==
    ASSUME chain \in Seq(Events), NEW m \in Nat, NEW n \in Nat, m <= n, n <= Len(chain), NEW op
    PROVE  Since(Block(m), Block(n), op) = Items(SubSeq(chain, m + 1, n), op)
<1>1. Len(Block(m)) = m /\ Len(Block(n)) = n
    BY DEF Block
<1>2. n <= n
    OBVIOUS
<1>3. SubSeq(SubSeq(chain, 1, n), m + 1, n) = SubSeq(chain, m + 1, n)
    BY <1>2, RangeOfBlock
<1> QED BY <1>1, <1>3, Zenon DEF Since, Block

\* A part of a range without items has none.
LEMMA NoneBefore ==
    ASSUME NEW E, NEW T, NEW op, \A e \in E : e.op = op => e.item \in T,
           NEW s \in Seq(E), NEW t \in Seq(E), NEW r, Joins(r, s, t), Items(r, op) = <<>>
    PROVE  Items(s, op) = <<>>
<1> DEFINE is == Items(s, op)
           it == Items(t, op)
<1>1. is \in Seq(T) /\ it \in Seq(T)
    BY ItemsType
<1>2. <<>> = is \o it
    <2>1. ItemsJoin(s, t, op)
        BY ItemsConcat
    <2> QED BY <2>1, Zenon DEF ItemsJoin, Joins
<1> HIDE DEF is, it
<1>3. Len(is) + Len(it) = 0
    <2>1. Len(is \o it) = Len(is) + Len(it)
        BY <1>1
    <2>2. Len(<<>>) = 0
        OBVIOUS
    <2> QED BY <1>2, <2>1, <2>2, Zenon
<1>4. Len(is) = 0
    BY <1>1, <1>3
<1> QED BY <1>1, <1>4 DEF is

\* The range that QuietRangeProvable is about.
Quiet ==
    /\ pc = "prove" /\ reorgs = 0
    /\ end_block \in req.last_proven_block + 1..req.requested_end_block
    /\ ToSet(Since(Block(req.last_proven_block), Block(end_block), "insert"))
            \subseteq req.l1_info_root
    /\ Since(Block(req.last_proven_block), Block(req.requested_end_block), "remove") = <<>>
    /\ Since(Block(req.last_proven_block), Block(req.requested_end_block), "unset") = <<>>

LEMMA QuietBridge ==
    ASSUME IInv, Quiet
    PROVE  verify(bridge_constraints_input)
<1> DEFINE last == req.last_proven_block
           requested == req.requested_end_block
           r == SubSeq(chain, last + 1, end_block)
           t == SubSeq(chain, end_block + 1, requested)
           all == SubSeq(chain, last + 1, requested)
<1>1. /\ pc = "prove" /\ reorgs = 0 /\ end_block \in last + 1..requested
      /\ ToSet(Since(Block(last), Block(end_block), "insert")) \subseteq req.l1_info_root
      /\ Since(Block(last), Block(requested), "remove") = <<>>
      /\ Since(Block(last), Block(requested), "unset") = <<>>
    BY Zenon DEF Quiet
<1>2. /\ chain \in Seq(Events) /\ Admitted(chain) /\ ReqInv /\ end_block \in Nat
    BY <1>1 DEF IInv, Open
<1>3. /\ last \in Nat /\ requested \in Nat /\ requested <= Len(chain)
      /\ req.ger_leaves = GersSeen(last + 1, requested)
      /\ req.imported_bridge_exits = ExitsSeen(last + 1, requested)
      /\ req.imported_bridge_exits \in Seq(Exits)
    BY <1>1, <1>2 DEF ReqInv
<1>4. last <= end_block /\ end_block <= requested /\ last <= requested /\ end_block <= Len(chain)
    BY <1>1, <1>2, <1>3
<1> HIDE DEF last, requested
<1>5. /\ r \in Seq(Events) /\ t \in Seq(Events) /\ all \in Seq(Events) /\ Joins(all, r, t)
    BY <1>2, <1>3, <1>4, RangeSplit
<1>6. /\ Since(Block(last), Block(end_block), "insert") = Items(r, "insert")
      /\ Since(Block(last), Block(requested), "remove") = Items(all, "remove")
      /\ Since(Block(last), Block(requested), "unset") = Items(all, "unset")
    BY <1>2, <1>3, <1>4, SinceOfChain
<1>7. /\ \A e \in Events : e.op = "insert" => e.item \in Gers
      /\ \A e \in Events : e.op = "remove" => e.item \in Gers
      /\ \A e \in Events : e.op = "claim" => e.item \in Claims
      /\ \A e \in Events : e.op = "unset" => e.item \in {c.global_index : c \in Claims}
    BY EventKinds DEF Events
<1>8. Items(all, "remove") = <<>> /\ Items(all, "unset") = <<>>
    BY <1>1, <1>6, Zenon
<1>9. InsertedOnce(last, requested)
    BY <1>2, <1>3, <1>4, <1>8, QuietInsertsOnce
<1>10. Upto(last, requested, end_block) = r /\ Upto(last, end_block, requested) = r
    <2>1. ~(requested < end_block) /\ (~(end_block < requested) => requested = end_block)
        BY <1>2, <1>3, <1>4
    <2> QED BY <2>1, Zenon DEF Upto
<1>11. ListedGers = Items(r, "insert") /\ ListedGers \in Seq(Gers)
    <2>1. GersDescribed(last, requested, end_block)
        BY <1>2, <1>3, GersDescribe
    <2> HIDE DEF r
    <2> QED BY <1>3, <1>9, <1>10, <2>1, Zenon DEF GersDescribed, ListedGers, last
<1>12. CommittedClaims = Items(r, "claim")
    <2>1. bridge_exits_in_range(ExitsSeen(last + 1, requested), last + 1, end_block)
                = Items(Upto(last, end_block, requested), "claim")
        BY <1>2, <1>3, ExitsDescribe
    <2> HIDE DEF r
    <2> QED BY <1>3, <1>10, <2>1, Zenon DEF CommittedClaims, last
<1> HIDE DEF r, t, all
<1>13. Items(r, "remove") = <<>> /\ Items(r, "unset") = <<>>
    <2>1. Items(r, "remove") = <<>>
        BY ONLY <1>5, <1>7, <1>8, NoneBefore
    <2>2. Items(r, "unset") = <<>>
        BY ONLY <1>5, <1>7, <1>8, NoneBefore
    <2> QED BY <2>1, <2>2
<1>14. CommittedClaims \in Seq(Claims)
    BY <1>5, <1>7, <1>12, ItemsType
<1> DEFINE P == PrevBlock
           Q == NewBlock
<1>15. /\ P = Block(last) /\ Q = Block(end_block)
       /\ Read("new_local_exit_root") = getRoot(Q)
       /\ Read("prev_l2_block_sketch") = get_prev_l2_block_sketch(P)
       /\ Read("new_l2_block_sketch") = get_new_l2_block_sketch(Q)
    BY <1>1, QuietReads DEF last
<1> HIDE DEF P, Q
<1>16. P \in Seq(Events) /\ Joins(Q, P, r)
    <2>1. last \in 0..Len(chain) /\ end_block \in last..Len(chain)
        BY <1>2, <1>3, <1>4
    <2>2. SubSeq(chain, 1, last) \in Seq(Events)
          /\ Joins(SubSeq(chain, 1, end_block), SubSeq(chain, 1, last), r)
        BY <1>2, <2>1, RangeConcat DEF r
    <2> QED BY <1>15, <2>2, Zenon DEF Block
<1>17. <<>> \in Seq(Gers) /\ <<>> \in Seq({c.global_index : c \in Claims})
    OBVIOUS
<1>18. Extends(P, ListedGers, Q, "insert")
    BY ONLY <1>5, <1>7, <1>11, <1>16, ExtendsRange
<1>19. Extends(P, <<>>, Q, "remove")
    BY ONLY <1>5, <1>7, <1>13, <1>16, <1>17, ExtendsRange
<1>20. Extends(P, CommittedClaims, Q, "claim")
    BY ONLY <1>5, <1>7, <1>12, <1>14, <1>16, ExtendsRange
<1>21. Extends(P, <<>>, Q, "unset")
    BY ONLY <1>5, <1>7, <1>13, <1>16, <1>17, ExtendsRange
<1>22. \A i \in 1..Len(ListedGers) : ListedGers[i] \in req.l1_info_root
    BY <1>1, <1>6, <1>11 DEF ToSet
<1>23. BridgeChecked
    BY <1>15, <1>18, <1>19, <1>20, <1>21, <1>22, Zenon DEF BridgeChecked, P, Q
<1> QED BY <1>11, <1>14, <1>15, <1>23, BridgeAccepts DEF P, Q

\* Before the prover runs, the builder compared the aggregation proof's public values.
ComparedInv == pc = "prove" /\ req.mode = "normal" => fep = FepPublicValues

LEMMA InitCompared == Init => ComparedInv
BY DEF Init, ComparedInv

LEMMA NextCompared == IInv /\ ComparedInv /\ [Next]_vars => ComparedInv'
<1> SUFFICES ASSUME IInv, ComparedInv, [Next]_vars PROVE ComparedInv'
    OBVIOUS
<1>0. ASSUME req' = req, end_block' = end_block, fep' = fep, fetched' = fetched
      PROVE  FepPublicValues' = FepPublicValues
    BY <1>0 DEF FepPublicValues, Read
<1>1. CASE \E event \in Events : Mine(event)
    BY <1>1 DEF Mine, ComparedInv
<1>2. CASE Submit
    <2>1. chain \in Seq(Events)
        BY DEF IInv
    <2>2. Refuses(wire') \/ Takes(wire')
        BY <1>2, <2>1, SubmitMeans
    <2>3. pc' = "done" \/ pc' = "proposer" \/ pc' = "fetch"
        BY <2>2, Zenon DEF Refuses, Takes
    <2> QED BY <2>3 DEF ComparedInv
<1>3. CASE \E end \in 0..Len(chain) : RequestAggProof(end)
    BY <1>3 DEF RequestAggProof, ComparedInv
<1>4. CASE \E last, end \in 0..Len(chain) : WaitForProof(last, end)
    BY <1>4 DEF WaitForProof, ComparedInv
<1>5. CASE \E config \in OpSuccinctConfigs : FetchOpSuccinctConfig(config)
    BY <1>5 DEF FetchOpSuccinctConfig, InternalError, ComparedInv
<1>6. CASE Reorg
    <2>1. pc \in {"proposer", "wait", "fetch"} /\ pc' = pc
        BY <1>6, Zenon DEF Reorg
    <2> QED BY <2>1 DEF ComparedInv
<1>7. CASE Fetch
    BY <1>7 DEF Fetch, ComparedInv
<1>8. CASE Compare
    <2>1. CASE InternalError
        BY <2>1 DEF InternalError, ComparedInv
    <2>2. CASE ~InternalError
        <3>1. /\ req' = req /\ end_block' = end_block /\ fep' = fep /\ fetched' = fetched
              /\ req.mode = "normal" => fep = FepPublicValues
            BY <1>8, <2>2 DEF Compare
        <3> QED BY <1>0, <3>1 DEF ComparedInv
    <2> QED BY <2>1, <2>2
<1>9. CASE Prove
    BY <1>9 DEF Prove, InternalError, ComparedInv
<1>10. CASE Fail
    BY <1>10 DEF Fail, InternalError, ComparedInv
<1>11. CASE UNCHANGED vars
    <2>1. pc' = pc /\ req' = req /\ end_block' = end_block /\ fep' = fep /\ fetched' = fetched
        BY <1>11 DEF vars
    <2> QED BY <1>0, <2>1 DEF ComparedInv
<1> QED
    BY Steps, <1>1, <1>2, <1>3, <1>4, <1>5, <1>6, <1>7, <1>8, <1>9, <1>10, <1>11, Zenon

LEMMA QuietProof ==
    ASSUME IInv, ComparedInv, Quiet, end_block < BlockModulus, req.l1_head_included
    PROVE  fep_verify
<1> DEFINE last == req.last_proven_block
           requested == req.requested_end_block
<1>1. /\ pc = "prove" /\ reorgs = 0
    BY Zenon DEF Quiet
<1>2. ReqInv /\ ProofInv /\ end_block \in Nat
    BY <1>1 DEF IInv, Open, Building
<1>3. req.mode = "normal" \/ req.mode = "optimistic"
    BY <1>2 DEF ReqInv
<1>4. CASE req.mode = "normal"
    <2>1. req.mode # "optimistic"
        BY <1>4
    <2>2. fep = FepPublicValues
        BY <1>1, <1>4, Zenon DEF ComparedInv
    <2> QED BY <2>1, <2>2, Zenon DEF fep_verify
<1>5. CASE req.mode = "optimistic"
    <2>1. end_block = requested /\ fep = Signed(last, requested)
        BY <1>1, <1>2, <1>5, Zenon DEF ProofInv
    <2>2. req.imported_bridge_exits = ExitsSeen(last + 1, requested)
        BY <1>1, <1>2 DEF ReqInv
    <2>3. CommittedClaims
            = bridge_exits_in_range(ExitsSeen(last + 1, requested), last + 1, requested)
        BY <2>1, <2>2, Zenon DEF CommittedClaims
    <2>4. claim_block_num(end_block) = requested
        <3>1. end_block % BlockModulus = end_block
            BY <1>2, FlowAssumption
        <3> QED BY <2>1, <3>1 DEF claim_block_num
    <2>5. /\ Read("l2_pre_root_output") = get_l2_output_at_block(Block(last))
          /\ Read("claim_root_output") = get_l2_output_at_block(Block(requested))
          /\ Read("new_local_exit_root") = getRoot(Block(requested))
        BY <1>1, <2>1, QuietReads, Zenon
    <2>6. FepPublicValues = public_values(get_l2_output_at_block(Block(last)),
                                          get_l2_output_at_block(Block(requested)), requested)
        BY <2>4, <2>5, Zenon DEF FepPublicValues
    <2>7. fep = [pv |-> FepPublicValues, new_local_exit_root |-> Read("new_local_exit_root"),
                 commit |-> CommittedClaims]
        BY <2>1, <2>3, <2>5, <2>6, Zenon DEF Signed
    <2> QED BY <1>5, <2>7, Zenon DEF fep_verify
<1> QED BY <1>3, <1>4, <1>5

LEMMA QuietHolds == IInv /\ ComparedInv => QuietRangeProvable
<1> SUFFICES ASSUME IInv, ComparedInv, Quiet, end_block < BlockModulus, req.l1_head_included
             PROVE  verify_aggchain_inputs
    BY Zenon DEF QuietRangeProvable, Quiet
<1> QED BY QuietBridge, QuietProof, Zenon DEF verify_aggchain_inputs

-----------------------------------------------------------------------------
(* The theorems *)

\* Whatever reorganisations happen between the reads of retrieve_chain_data, the
\* submission and the proposer's proof, and however many of them, a proof that
\* AggchainProofService returns is about one chain: the block hashes, the exit roots,
\* the commitment and the GERs are all of one range of it.
THEOREM ProofIsOfOneChain == Spec => []ProofOfOneChain
BY Invariance, OneChain, PTL

\* The context that the gRPC handler gives the client with the proof, cut to the
\* range that it names, lists exactly the claims and the GERs of the proven chain.
THEOREM ContextIsOfProof == Spec => []ContextDescribesProof
BY Invariance, ContextDescribes, PTL

\* The truncation of the end block to 32 bits never makes a proof commit to a state
\* other than the one that the response claims, for any modulus.
THEOREM BlockNumberIsExact == Spec => []BlockNumberExact
BY Invariance, NumberExact, PTL

\* An end block that the client did not ask for, which nothing in the service
\* rejects, adds no bridge event to the requested range.
THEOREM UnaskedEndBlockHarmless == Spec => []UnaskedEndBlock
BY Invariance, UnaskedNothing, PTL

\* What generate_aggchain_proof and generate_optimistic_aggchain_proof do with a
\* request of any size, with faults anywhere: no part of one that does not decode is
\* served, and the field that the client is told is one that is broken.
THEOREM RequestIsTakenWhole == Spec => []RequestTakenWhole
<1>1. WholeInv => RequestTakenWhole
    BY DEF WholeInv
<1> QED BY <1>1, WholeRequest, PTL

\* What retrieve_chain_data builds from a chain that stands still is accepted by the
\* program: its GERs are in the L1 info tree, nothing is removed or unset in the
\* requested range, and any end block inside that range was proven.
THEOREM QuietRangesProvable == Spec => []QuietRangeProvable
BY Invariance, InitCompared, NextCompared, QuietHolds, PTL DEF Spec
=============================================================================
