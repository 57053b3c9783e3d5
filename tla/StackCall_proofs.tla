--------------------------- MODULE StackCall_proofs ---------------------------
(***************************************************************************)
(* One call on several sources, for any number of them, any headers and    *)
(* any request: what is planned, what is dropped, and what the call leaves *)
(* behind.                                                                 *)
(***************************************************************************)
EXTENDS StackCall, WindowPlan_proofs, SequenceTheorems

-----------------------------------------------------------------------------
(* The k-th smallest member of a set.                                      *)

Rank(S, i) == Cardinality(S \cap (1 .. i))

LEMMA RankFacts ==
  ASSUME NEW n \in Nat, NEW S \in SUBSET (1 .. n)
  PROVE  /\ IsFiniteSet(S) /\ Cardinality(S) \in 0 .. n
         /\ \A i \in 0 .. n : Rank(S, i) \in 0 .. Cardinality(S)
         /\ Rank(S, 0) = 0 /\ Rank(S, n) = Cardinality(S)
         /\ \A i \in 1 .. n : Rank(S, i) = IF i \in S THEN Rank(S, i - 1) + 1 ELSE Rank(S, i - 1)
<1>0. \A j \in S : j \in Nat /\ 1 <= j /\ j <= n
  OBVIOUS
<1>1. IsFiniteSet(1 .. n) /\ Cardinality(1 .. n) = n
  BY FS_Interval
<1>2. IsFiniteSet(S) /\ Cardinality(S) <= n
  BY <1>1, FS_Subset
<1>3. Cardinality(S) \in Nat
  BY <1>2, FS_CardinalityType
<1>4. \A i \in 0 .. n : IsFiniteSet(S \cap (1 .. i)) /\ Rank(S, i) \in 0 .. Cardinality(S)
  <2> TAKE i \in 0 .. n
  <2>1. S \cap (1 .. i) \in SUBSET S
    OBVIOUS
  <2>2. IsFiniteSet(S \cap (1 .. i)) /\ Cardinality(S \cap (1 .. i)) <= Cardinality(S)
    BY <1>2, <2>1, FS_Subset
  <2>3. Cardinality(S \cap (1 .. i)) \in Nat
    BY <2>2, FS_CardinalityType
  <2> QED
    BY <1>3, <2>2, <2>3 DEF Rank
<1>5. Rank(S, 0) = 0
  <2>1. S \cap (1 .. 0) = {}
    BY <1>0
  <2> QED
    BY <2>1, FS_EmptySet, Zenon DEF Rank
<1>6. Rank(S, n) = Cardinality(S)
  <2>1. S \cap (1 .. n) = S
    BY <1>0
  <2> QED
    BY <2>1, Zenon DEF Rank
<1>7. ASSUME NEW i \in 1 .. n
      PROVE  Rank(S, i) = IF i \in S THEN Rank(S, i - 1) + 1 ELSE Rank(S, i - 1)
  <2> DEFINE below == S \cap (1 .. i - 1)
             upto == S \cap (1 .. i)
  <2>1. i - 1 \in 0 .. n
    OBVIOUS
  <2>2. IsFiniteSet(below) /\ i \notin below
    BY <1>4, <2>1
  <2>3. CASE i \in S
    <3>1. upto = below \cup {i}
      BY <1>0, <2>3
    <3>2. Cardinality(below \cup {i}) = Cardinality(below) + 1
      <4> HIDE DEF below
      <4> QED
        BY <2>2, FS_AddElement
    <3> QED
      BY <2>3, <3>1, <3>2 DEF Rank
  <2>4. CASE i \notin S
    <3>1. upto = below
      BY <1>0, <2>4
    <3> QED
      BY <2>4, <3>1 DEF Rank
  <2> QED
    BY <2>3, <2>4
<1>8. Cardinality(S) \in 0 .. n
  BY <1>2, <1>3
<1> QED
  BY <1>2, <1>4, <1>5, <1>6, <1>7, <1>8, Zenon

(* There is one for every k up to the size of the set.                     *)
LEMMA NthInSet ==
  ASSUME NEW n \in Nat, NEW S \in SUBSET (1 .. n), NEW k \in 1 .. Cardinality(S)
  PROVE  Nth(S, k) \in S
<1> DEFINE Reached == {i \in 0 .. n : Rank(S, i) >= k}
<1>1. Cardinality(S) \in Nat /\ Rank(S, n) = Cardinality(S) /\ Rank(S, 0) = 0
  BY RankFacts
<1>2. n \in Reached /\ 0 \notin Reached
  BY <1>1
<1>3. PICK i \in Reached : \A j \in Reached : i <= j
  <2>1. Reached \in SUBSET Nat
    OBVIOUS
  <2> HIDE DEF Reached
  <2> QED
    BY <1>2, <2>1, LeastExists
<1>4. i \in 1 .. n /\ i - 1 \in 0 .. n /\ i - 1 \notin Reached
  BY <1>2, <1>3
<1>5. Rank(S, i) \in 0 .. Cardinality(S) /\ Rank(S, i - 1) \in 0 .. Cardinality(S)
  BY <1>4, RankFacts
<1>6. Rank(S, i) >= k /\ Rank(S, i - 1) < k
  BY <1>1, <1>4, <1>5
<1>7. Rank(S, i) = IF i \in S THEN Rank(S, i - 1) + 1 ELSE Rank(S, i - 1)
  BY <1>4, RankFacts
<1>8. i \in S /\ Rank(S, i) = k
  BY <1>1, <1>5, <1>6, <1>7
<1> QED
  BY <1>8, Zenon DEF Nth, Rank

(* It is the only one.                                                     *)
LEMMA NthOfRank ==
  ASSUME NEW n \in Nat, NEW S \in SUBSET (1 .. n), NEW i \in S
  PROVE  Rank(S, i) \in 1 .. Cardinality(S) /\ Nth(S, Rank(S, i)) = i
<1>1. i \in 1 .. n /\ IsFiniteSet(S)
  BY RankFacts
<1>2. Rank(S, i) \in 0 .. Cardinality(S) /\ Rank(S, i) = Rank(S, i - 1) + 1
  BY <1>1, RankFacts
<1>3. Rank(S, i - 1) \in 0 .. Cardinality(S)
  <2>1. i - 1 \in 0 .. n
    BY <1>1
  <2> QED
    BY <2>1, RankFacts
<1>4. Rank(S, i) \in 1 .. Cardinality(S)
  BY <1>2, <1>3
<1>5. ASSUME NEW a \in S, NEW b \in S, a < b, Rank(S, a) = Rank(S, b) PROVE FALSE
  <2> DEFINE A == S \cap (1 .. a)
             B == S \cap (1 .. b)
  <2>1. A \in SUBSET B /\ B \in SUBSET S /\ b \in B /\ b \notin A
    BY <1>5
  <2>2. Cardinality(A) = Cardinality(B)
    BY <1>5 DEF Rank
  <2> HIDE DEF A, B
  <2>3. IsFiniteSet(B)
    BY <1>1, <2>1, FS_Subset
  <2> QED
    BY <2>1, <2>2, <2>3, FS_Subset
<1>6. \E j \in S : Rank(S, j) = Rank(S, i)
  OBVIOUS
<1>7. Nth(S, Rank(S, i)) \in S /\ Rank(S, Nth(S, Rank(S, i))) = Rank(S, i)
  BY <1>6, Zenon DEF Nth, Rank
<1>8. \A a \in S, b \in S : a < b \/ b < a \/ a = b
  OBVIOUS
<1>9. Nth(S, Rank(S, i)) = i
  BY <1>5, <1>7, <1>8, Zenon
<1> QED
  BY <1>4, <1>9

-----------------------------------------------------------------------------
(* FlattenSeq, which is a recursive function: what it gives for one element*)
(* more, and from there, by the least length at which it failed, for all.  *)

(* The recursive function in FlattenSeq, up to some length.                *)
IsFlat(g, s, m) == g = [i \in 1 .. m |-> IF i = 1 THEN s[i] ELSE g[i - 1] \o s[i]]

(* There is one for every length.                                          *)
LEMMA FlatExists ==
  ASSUME NEW s, NEW n \in Nat
  PROVE  \E g : IsFlat(g, s, n)
<1> DEFINE Bad == {m \in Nat : ~\E g : IsFlat(g, s, m)}
<1>1. SUFFICES Bad = {}
  OBVIOUS
<1>2. SUFFICES ASSUME Bad # {} PROVE FALSE
  OBVIOUS
<1>3. PICK m \in Bad : \A j \in Bad : m <= j
  <2>1. Bad \in SUBSET Nat
    OBVIOUS
  <2> HIDE DEF Bad
  <2> QED
    BY <1>2, <2>1, LeastExists
<1>4. m # 0
  <2>1. IsFlat(<<>>, s, 0)
    BY DEF IsFlat
  <2> QED
    BY <2>1, <1>3
<1>5. m - 1 \in Nat /\ m - 1 \notin Bad
  BY <1>3, <1>4
<1>6. PICK g : IsFlat(g, s, m - 1)
  BY <1>5
<1> DEFINE G == [i \in 1 .. m |-> IF i < m THEN g[i] ELSE IF i = 1 THEN s[i] ELSE g[i - 1] \o s[i]]
<1>7. \A i \in 1 .. m : G[i] = IF i = 1 THEN s[i] ELSE G[i - 1] \o s[i]
  <2> TAKE i \in 1 .. m
  <2>1. CASE i < m
    <3>1. i \in 1 .. m - 1 /\ G[i] = g[i]
      BY <1>5, <2>1
    <3>2. g[i] = IF i = 1 THEN s[i] ELSE g[i - 1] \o s[i]
      BY <1>6, <3>1 DEF IsFlat
    <3>3. i # 1 => i - 1 \in 1 .. m /\ G[i - 1] = g[i - 1]
      BY <1>5, <2>1
    <3> HIDE DEF G
    <3> QED
      BY <3>1, <3>2, <3>3
  <2>2. CASE i = m
    <3>1. i # 1 => G[i - 1] = g[i - 1]
      BY <1>5, <2>2
    <3>2. G[i] = IF i = 1 THEN s[i] ELSE g[i - 1] \o s[i]
      BY <2>2
    <3> HIDE DEF G
    <3> QED
      BY <3>1, <3>2
  <2> QED
    BY <2>1, <2>2, <1>3
<1>8. IsFlat(G, s, m)
  <2>1. G = [i \in 1 .. m |-> G[i]]
    OBVIOUS
  <2> HIDE DEF G
  <2> QED
    BY <1>7, <2>1 DEF IsFlat
<1> HIDE DEF G
<1> QED
  BY <1>3, <1>8

(* Those of two beginnings of a sequence agree as far as both go.          *)
Upto(s, m) == [i \in 1 .. m |-> s[i]]

LEMMA FlatAgree ==
  ASSUME NEW s, NEW m \in Nat, NEW g, NEW h,
         IsFlat(g, Upto(s, m), m), IsFlat(h, Upto(s, m + 1), m + 1)
  PROVE  \A i \in 1 .. m : g[i] = h[i]
<1> DEFINE Bad == {i \in 1 .. m : g[i] # h[i]}
<1>1. SUFFICES ASSUME Bad # {} PROVE FALSE
  OBVIOUS
<1>2. PICK i \in Bad : \A j \in Bad : i <= j
  <2>1. Bad \in SUBSET Nat
    OBVIOUS
  <2> HIDE DEF Bad
  <2> QED
    BY <1>1, <2>1, LeastExists
<1>3. i \in 1 .. m /\ i \in 1 .. m + 1
  BY <1>2
<1>4. /\ g[i] = IF i = 1 THEN s[i] ELSE g[i - 1] \o s[i]
      /\ h[i] = IF i = 1 THEN s[i] ELSE h[i - 1] \o s[i]
  BY <1>3 DEF IsFlat, Upto
<1>5. i # 1 => g[i - 1] = h[i - 1]
  BY <1>2, <1>3
<1>6. g[i] # h[i]
  BY <1>2
<1> QED
  BY <1>3, <1>4, <1>5, <1>6

LEMMA FlattenIsFlat ==
  ASSUME NEW s, NEW n \in Nat \ {0}, Len(s) = n
  PROVE  \E g : IsFlat(g, s, n) /\ FlattenSeq(s) = g[n]
<1> DEFINE g == CHOOSE f : f = [i \in 1 .. Len(s) |-> IF i = 1 THEN s[i] ELSE f[i - 1] \o s[i]]
<1>1. \E f : IsFlat(f, s, n)
  BY FlatExists
<1>2. IsFlat(g, s, n)
  BY <1>1 DEF IsFlat
<1>3. FlattenSeq(s) = g[n]
  BY DEF FlattenSeq
<1> QED
  BY <1>2, <1>3

(* What a sequence of sequences flattens to, one element more at a time.   *)
LEMMA FlattenNext ==
  ASSUME NEW V, NEW s \in Seq(Seq(V)), NEW m \in 0 .. Len(s) - 1,
         FlattenSeq(Upto(s, m)) \in Seq(V)
  PROVE  FlattenSeq(Upto(s, m + 1)) = FlattenSeq(Upto(s, m)) \o s[m + 1]
<1>1. Len(s) \in Nat /\ s[m + 1] \in Seq(V)
  OBVIOUS
<1>2. /\ Len(Upto(s, m)) = m /\ Len(Upto(s, m + 1)) = m + 1
      /\ \A i \in 1 .. m : Upto(s, m)[i] = s[i]
      /\ \A i \in 1 .. m + 1 : Upto(s, m + 1)[i] = s[i]
  BY <1>1 DEF Upto
<1>3. PICK h : IsFlat(h, Upto(s, m + 1), m + 1) /\ FlattenSeq(Upto(s, m + 1)) = h[m + 1]
  <2>1. m + 1 \in Nat \ {0}
    BY <1>1
  <2> QED
    BY <1>2, <2>1, FlattenIsFlat, Zenon
<1>4. h[m + 1] = IF m = 0 THEN s[1] ELSE h[m] \o s[m + 1]
  <2>1. \A i \in 1 .. m + 1 : h[i] = IF i = 1 THEN Upto(s, m + 1)[i] ELSE h[i - 1] \o Upto(s, m + 1)[i]
    BY <1>3 DEF IsFlat
  <2> QED
    BY <1>2, <2>1
<1>5. CASE m = 0
  <2>1. FlattenSeq(Upto(s, m)) = <<>>
    <3>1. Upto(s, m) = <<>>
      BY <1>5 DEF Upto
    <3> QED
      BY <3>1 DEF FlattenSeq
  <2>2. <<>> \o s[m + 1] = s[m + 1]
    BY <1>1
  <2> QED
    BY <1>3, <1>4, <1>5, <2>1, <2>2
<1>6. CASE m # 0
  <2>1. PICK g : IsFlat(g, Upto(s, m), m) /\ FlattenSeq(Upto(s, m)) = g[m]
    <3>1. m \in Nat \ {0}
      BY <1>1, <1>6
    <3> QED
      BY <1>2, <3>1, FlattenIsFlat, Zenon
  <2>3. m \in Nat /\ m + 1 \in Nat /\ m <= m + 1 /\ m \in 1 .. m
    BY <1>1, <1>6
  <2>4. \A i \in 1 .. m : g[i] = h[i]
    BY <1>3, <2>1, <2>3, FlatAgree
  <2>5. g[m] = h[m]
    BY <2>3, <2>4, Zenon
  <2> QED
    BY <1>3, <1>4, <1>6, <2>1, <2>5, Zenon
<1> QED
  BY <1>5, <1>6

LEMMA FlattenUpto ==
  ASSUME NEW V, NEW s \in Seq(Seq(V))
  PROVE  /\ FlattenSeq(Upto(s, 0)) = <<>>
         /\ FlattenSeq(Upto(s, Len(s))) = FlattenSeq(s)
         /\ \A m \in 0 .. Len(s) : FlattenSeq(Upto(s, m)) \in Seq(V)
         /\ \A m \in 0 .. Len(s) - 1 :
              FlattenSeq(Upto(s, m + 1)) = FlattenSeq(Upto(s, m)) \o s[m + 1]
<1>1. Len(s) \in Nat
  OBVIOUS
<1>2. FlattenSeq(Upto(s, 0)) = <<>>
  <2>1. Upto(s, 0) = <<>>
    BY DEF Upto
  <2> QED
    BY <2>1 DEF FlattenSeq
<1>3. Upto(s, Len(s)) = s
  BY DEF Upto
<1> DEFINE Bad == {m \in 0 .. Len(s) : FlattenSeq(Upto(s, m)) \notin Seq(V)}
<1>4. Bad = {}
  <2> SUFFICES ASSUME Bad # {} PROVE FALSE
    OBVIOUS
  <2>1. PICK m \in Bad : \A j \in Bad : m <= j
    <3>1. Bad \in SUBSET Nat
      OBVIOUS
    <3> HIDE DEF Bad
    <3> QED
      BY <3>1, LeastExists
  <2>2. m # 0
    <3>1. <<>> \in Seq(V) /\ FlattenSeq(Upto(s, m)) \notin Seq(V)
      BY <2>1
    <3> QED
      BY <1>2, <3>1
  <2>3. m - 1 \in 0 .. Len(s) - 1 /\ m - 1 \notin Bad
    BY <1>1, <2>1, <2>2
  <2>4. FlattenSeq(Upto(s, m - 1)) \in Seq(V)
    BY <1>1, <2>3
  <2>5. FlattenSeq(Upto(s, m - 1 + 1)) = FlattenSeq(Upto(s, m - 1)) \o s[m - 1 + 1]
    BY <2>3, <2>4, FlattenNext
  <2>6. m - 1 + 1 = m /\ s[m] \in Seq(V)
    BY <1>1, <2>1, <2>2
  <2>7. FlattenSeq(Upto(s, m - 1)) \o s[m] \in Seq(V)
    BY <2>4, <2>6
  <2>8. FlattenSeq(Upto(s, m)) \notin Seq(V)
    BY <2>1
  <2> QED
    BY <2>5, <2>6, <2>7, <2>8
<1>5. \A m \in 0 .. Len(s) : FlattenSeq(Upto(s, m)) \in Seq(V)
  BY <1>4
<1>6. \A m \in 0 .. Len(s) - 1 :
        FlattenSeq(Upto(s, m + 1)) = FlattenSeq(Upto(s, m)) \o s[m + 1]
  BY <1>1, <1>5, FlattenNext
<1> QED
  BY <1>2, <1>3, <1>5, <1>6

(* Two sequences have the same length and agree through two functions.     *)
Same(p, q, x, y) == Len(x) = Len(y) /\ \A b \in 1 .. Len(x) : p[x[b]] = q[y[b]]

LEMMA SameConcat ==
  ASSUME NEW V, NEW W, NEW p, NEW q,
         NEW x \in Seq(V), NEW y \in Seq(W), NEW v \in Seq(V), NEW w \in Seq(W),
         Same(p, q, x, y), Same(p, q, v, w)
  PROVE  Same(p, q, x \o v, y \o w)
<1>1. /\ Len(x) \in Nat /\ Len(v) \in Nat /\ Len(x \o v) = Len(x) + Len(v) /\ Len(y \o w) = Len(x) + Len(v)
      /\ Len(x) = Len(y) /\ Len(v) = Len(w)
  <2>1. Len(x) \in Nat /\ Len(v) \in Nat /\ Len(x \o v) = Len(x) + Len(v)
    BY ConcatProperties, LenProperties
  <2>2. Len(y \o w) = Len(y) + Len(w)
    BY ConcatProperties
  <2> QED
    BY <2>1, <2>2 DEF Same
<1>2. ASSUME NEW b \in 1 .. Len(x) + Len(v) PROVE p[(x \o v)[b]] = q[(y \o w)[b]]
  <2>1. CASE b <= Len(x)
    <3>1. (x \o v)[b] = x[b] /\ (y \o w)[b] = y[b] /\ b \in 1 .. Len(x)
      BY <1>1, <2>1
    <3> QED
      BY <3>1 DEF Same
  <2>2. CASE b > Len(x)
    <3>1. (x \o v)[b] = v[b - Len(x)] /\ (y \o w)[b] = w[b - Len(x)] /\ b - Len(x) \in 1 .. Len(v)
      BY <1>1, <2>2
    <3> QED
      BY <3>1 DEF Same
  <2> QED
    BY <1>1, <2>1, <2>2
<1> QED
  BY <1>1, <1>2 DEF Same

(* What a function does to every element it does to the whole.             *)
LEMMA FlattenMap ==
  ASSUME NEW V, NEW W, NEW f \in Seq(Seq(V)), NEW g \in Seq(Seq(W)), Len(f) = Len(g),
         NEW p, NEW q,
         \A k \in 1 .. Len(f) : Same(p, q, f[k], g[k])
  PROVE  /\ FlattenSeq(f) \in Seq(V) /\ FlattenSeq(g) \in Seq(W)
         /\ Same(p, q, FlattenSeq(f), FlattenSeq(g))
<1> DEFINE F(m) == FlattenSeq(Upto(f, m))
           G(m) == FlattenSeq(Upto(g, m))
           Bad == {m \in 0 .. Len(f) : ~Same(p, q, F(m), G(m))}
<1>1. /\ Len(f) \in Nat
      /\ F(0) = <<>> /\ G(0) = <<>> /\ F(Len(f)) = FlattenSeq(f) /\ G(Len(f)) = FlattenSeq(g)
      /\ \A m \in 0 .. Len(f) : F(m) \in Seq(V) /\ G(m) \in Seq(W)
      /\ \A m \in 0 .. Len(f) - 1 : F(m + 1) = F(m) \o f[m + 1] /\ G(m + 1) = G(m) \o g[m + 1]
  <2>1. Len(f) \in Nat
    OBVIOUS
  <2>2. /\ F(0) = <<>> /\ F(Len(f)) = FlattenSeq(f)
        /\ \A m \in 0 .. Len(f) : F(m) \in Seq(V)
        /\ \A m \in 0 .. Len(f) - 1 : F(m + 1) = F(m) \o f[m + 1]
    BY FlattenUpto, Zenon
  <2>3. /\ G(0) = <<>> /\ G(Len(g)) = FlattenSeq(g)
        /\ \A m \in 0 .. Len(g) : G(m) \in Seq(W)
        /\ \A m \in 0 .. Len(g) - 1 : G(m + 1) = G(m) \o g[m + 1]
    BY FlattenUpto, Zenon
  <2> HIDE DEF F, G
  <2> QED
    BY <2>1, <2>2, <2>3
<1> HIDE DEF F, G
<1>4. Bad = {}
  <2> SUFFICES ASSUME Bad # {} PROVE FALSE
    OBVIOUS
  <2>1. PICK m \in Bad : \A j \in Bad : m <= j
    <3>1. Bad \in SUBSET Nat
      OBVIOUS
    <3> HIDE DEF Bad
    <3> QED
      BY <3>1, LeastExists
  <2>2. m # 0
    <3>1. Same(p, q, <<>>, <<>>)
      BY DEF Same
    <3> QED
      BY <1>1, <2>1, <3>1
  <2>3. /\ m - 1 \in 0 .. Len(f) - 1 /\ m - 1 \in 0 .. Len(f)
        /\ m - 1 + 1 = m /\ m \in 1 .. Len(f)
    <3>1. Len(f) \in Nat /\ m \in 0 .. Len(f)
      BY <1>1, <2>1
    <3> HIDE DEF Bad
    <3> QED
      BY <2>2, <3>1
  <2>4. Same(p, q, F(m - 1), G(m - 1))
    <3>1. m - 1 \notin Bad
      <4> HIDE DEF Bad
      <4>1. m - 1 \in Bad => m <= m - 1
        BY <2>1
      <4>2. m \in Int
        BY <2>3
      <4> QED
        BY <4>1, <4>2
    <3> QED
      BY <2>3, <3>1, Zenon
  <2>5. Same(p, q, F(m - 1) \o f[m], G(m - 1) \o g[m])
    <3>1. f[m] \in Seq(V) /\ g[m] \in Seq(W)
      BY <2>3
    <3> QED
      BY <1>1, <2>3, <2>4, <3>1, SameConcat
  <2>6. F(m) = F(m - 1) \o f[m] /\ G(m) = G(m - 1) \o g[m]
    BY <1>1, <2>3
  <2> QED
    BY <2>1, <2>5, <2>6
<1>5. Same(p, q, F(Len(f)), G(Len(f)))
  <2>1. Len(f) \in 0 .. Len(f)
    BY <1>1
  <2> QED
    BY <1>4, <2>1, Zenon
<1> QED
  BY <1>1, <1>5

(* The elements at some positions, and all of them with the others empty.  *)
Taken(f, S) == [k \in 1 .. Cardinality(S) |-> f[Nth(S, k)]]
Blanked(f, S, n) == [i \in 1 .. n |-> IF i \in S THEN f[i] ELSE <<>>]

(* Empty parts do not show in the whole.                                   *)
LEMMA FlattenKept ==
  ASSUME NEW V, NEW n \in Nat, NEW S \in SUBSET (1 .. n), NEW f \in Seq(Seq(V)), Len(f) = n
  PROVE  FlattenSeq(Taken(f, S)) = FlattenSeq(Blanked(f, S, n))
<1> DEFINE C == [k \in 1 .. Cardinality(S) |-> f[Nth(S, k)]]
           E == [i \in 1 .. n |-> IF i \in S THEN f[i] ELSE <<>>]
           Equal(m) == FlattenSeq(Upto(C, Rank(S, m))) = FlattenSeq(Upto(E, m))
           Bad == {m \in 0 .. n : ~Equal(m)}
<1>1. /\ Cardinality(S) \in Nat /\ Rank(S, 0) = 0 /\ Rank(S, n) = Cardinality(S)
      /\ \A i \in 0 .. n : Rank(S, i) \in 0 .. Cardinality(S)
      /\ \A i \in 1 .. n : Rank(S, i) = IF i \in S THEN Rank(S, i - 1) + 1 ELSE Rank(S, i - 1)
  <2>1. Cardinality(S) \in Nat
    <3>1. Cardinality(S) \in 0 .. n
      BY RankFacts, Zenon
    <3> QED
      BY <3>1
  <2> QED
    BY <2>1, RankFacts, Zenon
<1>0. \A i \in 1 .. n : f[i] \in Seq(V)
  OBVIOUS
<1>2. \A k \in 1 .. Cardinality(S) : Nth(S, k) \in S /\ f[Nth(S, k)] \in Seq(V)
  <2>1. \A k \in 1 .. Cardinality(S) : Nth(S, k) \in S
    BY NthInSet, Zenon
  <2> QED
    BY <1>0, <2>1, Zenon
<1>3. C \in Seq(Seq(V)) /\ Len(C) = Cardinality(S)
  BY <1>1, <1>2
<1>4. E \in Seq(Seq(V)) /\ Len(E) = n
  <2>1. \A i \in 1 .. n : (IF i \in S THEN f[i] ELSE <<>>) \in Seq(V)
    <3>1. <<>> \in Seq(V)
      OBVIOUS
    <3> QED
      BY <1>0, <3>1, Zenon
  <2>2. \A i \in 1 .. n : E[i] = IF i \in S THEN f[i] ELSE <<>>
    OBVIOUS
  <2>3. E = [i \in 1 .. n |-> E[i]]
    OBVIOUS
  <2> HIDE DEF E
  <2>4. \A i \in 1 .. n : E[i] \in Seq(V)
    BY <2>1, <2>2, Zenon
  <2> QED
    BY <2>3, <2>4, IsASeq
<1>5. \A i \in S : Rank(S, i) \in 1 .. Cardinality(S) /\ Nth(S, Rank(S, i)) = i
  BY NthOfRank, Zenon
<1>6. \A i \in S : C[Rank(S, i)] = f[i]
  BY <1>5
<1>7. \A i \in 1 .. n : E[i] = IF i \in S THEN f[i] ELSE <<>>
  OBVIOUS
<1> HIDE DEF C, E
<1>8. /\ FlattenSeq(Upto(C, 0)) = <<>> /\ FlattenSeq(Upto(C, Len(C))) = FlattenSeq(C)
      /\ \A m \in 0 .. Len(C) : FlattenSeq(Upto(C, m)) \in Seq(V)
      /\ \A m \in 0 .. Len(C) - 1 : FlattenSeq(Upto(C, m + 1)) = FlattenSeq(Upto(C, m)) \o C[m + 1]
  BY <1>3, FlattenUpto
<1>9. /\ FlattenSeq(Upto(E, 0)) = <<>> /\ FlattenSeq(Upto(E, Len(E))) = FlattenSeq(E)
      /\ \A m \in 0 .. Len(E) - 1 : FlattenSeq(Upto(E, m + 1)) = FlattenSeq(Upto(E, m)) \o E[m + 1]
  BY <1>4, FlattenUpto
<1>10. Bad = {}
  <2> SUFFICES ASSUME Bad # {} PROVE FALSE
    OBVIOUS
  <2>1. PICK m \in Bad : \A j \in Bad : m <= j
    <3>1. Bad \in SUBSET Nat
      OBVIOUS
    <3> HIDE DEF Bad
    <3> QED
      BY <3>1, LeastExists
  <2>2. m \in 0 .. n /\ ~Equal(m)
    BY <2>1
  <2>3. m # 0
    BY <1>1, <1>8, <1>9, <2>2
  <2>4. m \in 1 .. n /\ m - 1 \in 0 .. n /\ m - 1 \in 0 .. Len(E) - 1 /\ m - 1 + 1 = m
    BY <1>4, <2>2, <2>3
  <2>5. Equal(m - 1)
    <3>1. m - 1 \notin Bad
      <4> HIDE DEF Bad
      <4> QED
        BY <2>1, <2>4
    <3> QED
      BY <2>4, <3>1
  <2>6. FlattenSeq(Upto(E, m)) = FlattenSeq(Upto(E, m - 1)) \o E[m]
    BY <1>9, <2>4
  <2>7. CASE m \in S
    <3>1. Rank(S, m) = Rank(S, m - 1) + 1 /\ Rank(S, m - 1) \in 0 .. Len(C) - 1
      BY <1>1, <1>3, <2>4, <2>7
    <3>2. FlattenSeq(Upto(C, Rank(S, m - 1) + 1)) = FlattenSeq(Upto(C, Rank(S, m - 1))) \o C[Rank(S, m - 1) + 1]
      BY <1>8, <3>1
    <3>3. C[Rank(S, m)] = E[m]
      BY <1>6, <1>7, <2>4, <2>7
    <3> QED
      BY <2>2, <2>5, <2>6, <3>1, <3>2, <3>3
  <2>8. CASE m \notin S
    <3>1. Rank(S, m) = Rank(S, m - 1) /\ E[m] = <<>>
      BY <1>1, <1>7, <2>4, <2>8
    <3>2. FlattenSeq(Upto(C, Rank(S, m - 1))) \in Seq(V)
      BY <1>1, <1>3, <1>8, <2>4
    <3>3. FlattenSeq(Upto(C, Rank(S, m - 1))) \o <<>> = FlattenSeq(Upto(C, Rank(S, m - 1)))
      BY <3>2
    <3> QED
      BY <2>2, <2>5, <2>6, <3>1, <3>3
  <2> QED
    BY <2>7, <2>8
<1>11. Equal(n)
  BY <1>10
<1> QED
  BY <1>1, <1>3, <1>4, <1>8, <1>9, <1>11 DEF C, E, Taken, Blanked

-----------------------------------------------------------------------------
(* The plans of the sources that have pixels to give.                      *)

CallOK == metas \in [Srcs -> Metas] /\ request \in Requests /\ op \in Ops /\ r \in [Srcs -> Methods]

LEMMA OwnPlan ==
  ASSUME CallOK, NEW i \in Srcs
  PROVE  /\ GridOK(metas[i].grid) /\ RequestOK(request)
         /\ PlanOf(metas, request, i) = PlanFromMeta(i, metas[i], request)
<1>1. GridOK(metas[i].grid) /\ RequestOK(request) /\ NSrc \in Nat
  BY StackAssumption DEF CallOK
<1> QED
  BY <1>1, PlanShared DEF Srcs

(* Each of them is the plan of one source, and each such source has one.   *)
LEMMA SurvivingFacts ==
  ASSUME CallOK
  PROVE  /\ Surviving \in Seq({PlanOf(metas, request, i) : i \in Kept})
         /\ Len(Surviving) \in 0 .. NSrc
         /\ \A k \in DOMAIN Surviving :
              \E i \in Kept : Surviving[k] = PlanFromMeta(i, metas[i], request)
         /\ \A i \in Kept :
              \E k \in DOMAIN Surviving : Surviving[k] = PlanFromMeta(i, metas[i], request)
         /\ Kept \subseteq Srcs
<1>1. NSrc \in Nat /\ Kept \in SUBSET (1 .. NSrc)
  BY StackAssumption DEF Kept, Srcs
<1>2. Cardinality(Kept) \in 0 .. NSrc
  BY <1>1, RankFacts
<1>3. \A k \in 1 .. Cardinality(Kept) : Nth(Kept, k) \in Kept
  BY <1>1, NthInSet
<1>4. \A i \in Kept : PlanOf(metas, request, i) = PlanFromMeta(i, metas[i], request)
  BY <1>1, OwnPlan DEF Srcs
<1>5. /\ Surviving \in Seq({PlanOf(metas, request, i) : i \in Kept})
      /\ Len(Surviving) = Cardinality(Kept)
      /\ DOMAIN Surviving = 1 .. Cardinality(Kept)
      /\ \A k \in 1 .. Cardinality(Kept) : Surviving[k] = PlanOf(metas, request, Nth(Kept, k))
  BY <1>2, <1>3 DEF Surviving
<1>6. \A i \in Kept : Rank(Kept, i) \in 1 .. Cardinality(Kept) /\ Nth(Kept, Rank(Kept, i)) = i
  BY <1>1, NthOfRank
<1> QED
  BY <1>1, <1>2, <1>3, <1>4, <1>5, <1>6 DEF Srcs

-----------------------------------------------------------------------------
(* The invariant: the types, what is planned, staged and warped in which   *)
(* phase, which files are in whose care, and what options are to be reset. *)

Phases == {"config", "plan", "fetch", "native", "stage", "assemble", "write", "name",
           "read", "exit", "returned", "aborted"}

Planned ==
  /\ plans = <<>> \/ plans = Surviving
  /\ phase \notin {"config", "plan", "exit", "aborted"} => plans = Surviving
  /\ phase = "exit" /\ ~failed => plans = Surviving
  /\ failed => phase \in {"exit", "aborted"}
  /\ phase = "returned" => ~failed
  /\ failed \in BOOLEAN

LEMMA PlannedFacts ==
  ASSUME CallOK, Planned
  PROVE  /\ Len(plans) \in 0 .. NSrc /\ DOMAIN plans = 1 .. Len(plans)
         /\ \A k \in DOMAIN plans :
              \E i \in Srcs : /\ plans[k] = PlanFromMeta(i, metas[i], request)
                              /\ PlanFromMeta(i, metas[i], request) # NoPlan
<1>1. NSrc \in Nat
  BY StackAssumption
<1>2. \A i \in Kept : i \in Srcs /\ PlanFromMeta(i, metas[i], request) # NoPlan
  BY OwnPlan DEF Kept
<1>3. CASE plans = <<>>
  BY <1>1, <1>3
<1>4. CASE plans = Surviving
  BY <1>2, <1>4, SurvivingFacts
<1> QED
  BY <1>3, <1>4 DEF Planned

LEMMA CallStays == [StackNext]_stackVars => call' = call
  BY DEF StackNext, stackVars, Configure, ConfigureFails, Plan, PlanFails, Fetch, FetchFails,
         ReadNative, ReadStaged, ArrayTooLarge, Stage, StageFails, Staged, WarpTile, WarpFails,
         BuildVRT, BuildFails, Write, WriteFails, Name, NameFails, ReadBack, ReadBackFails, Exit

LEMMA PlannedStep == CallOK /\ Planned /\ [StackNext]_stackVars => Planned'
<1> SUFFICES ASSUME CallOK, Planned, [StackNext]_stackVars PROVE Planned'
  OBVIOUS
<1>1. Surviving' = Surviving
  BY CallStays DEF call, Surviving, Kept
<1>2. CASE Plan
  BY <1>1, <1>2 DEF Plan, Planned, Abort
<1>3. CASE UNCHANGED stackVars
  BY <1>1, <1>3 DEF stackVars, Planned
<1>4. CASE Exit
  BY <1>1, <1>4 DEF Exit, Planned
<1>5. CASE Configure
  BY <1>1, <1>5 DEF Configure, Planned
<1>6. CASE ConfigureFails \/ PlanFails
  BY <1>1, <1>6 DEF ConfigureFails, PlanFails, Planned, Abort
<1>7. ASSUME \/ Fetch \/ ReadNative \/ ReadStaged \/ Stage \/ Staged \/ WarpTile \/ BuildVRT
             \/ Write \/ Name \/ ReadBack
      PROVE  Planned'
  <2>1. plans' = plans /\ failed' = failed
    BY <1>7 DEF Fetch, ReadNative, ReadStaged, Stage, Staged, WarpTile, BuildVRT, Write, Name, ReadBack
  <2>2. phase \notin {"config", "plan", "exit", "returned", "aborted"}
    BY <1>7 DEF Fetch, ReadNative, ReadStaged, Stage, Staged, WarpTile, BuildVRT, Write, Name, ReadBack
  <2>3. phase' \notin {"config", "plan", "returned", "aborted"}
    BY <1>7, <2>2 DEF Fetch, ReadNative, ReadStaged, Stage, Staged, AfterStaging, WarpTile, BuildVRT,
       Write, Name, ReadBack
  <2> QED
    BY <1>1, <2>1, <2>2, <2>3 DEF Planned
<1>8. ASSUME \/ FetchFails \/ ArrayTooLarge \/ StageFails \/ WarpFails \/ BuildFails \/ WriteFails
             \/ NameFails \/ ReadBackFails
      PROVE  Planned'
  <2>1. plans' = plans /\ failed' = TRUE /\ phase' = "exit"
    BY <1>8 DEF FetchFails, ArrayTooLarge, StageFails, WarpFails, BuildFails, WriteFails, NameFails,
       ReadBackFails, Abort
  <2> QED
    BY <1>1, <2>1 DEF Planned
<1> QED
  BY <1>2, <1>3, <1>4, <1>5, <1>6, <1>7, <1>8 DEF StackNext

CallInv == CallOK /\ Planned

LEMMA CallInvInit == StackInit => CallInv
<1> SUFFICES ASSUME StackInit PROVE CallInv
  OBVIOUS
<1>1. r \in [Srcs -> Methods]
  BY DEF StackInit, MethodsGiven
<1> QED
  BY <1>1 DEF StackInit, CallInv, CallOK, Planned

LEMMA CallInvStep == CallInv /\ [StackNext]_stackVars => CallInv'
<1> SUFFICES ASSUME CallInv, [StackNext]_stackVars PROVE CallInv'
  OBVIOUS
<1>1. CallOK'
  BY CallStays DEF CallInv, CallOK, call
<1> QED
  BY <1>1, PlannedStep DEF CallInv

LEMMA CallInvariant == StackSpec => []CallInv
  BY CallInvInit, CallInvStep, PTL DEF StackSpec

(* Every planned window lies inside its level and holds every pixel the    *)
(* extent touches, for every grid, level, margin and extent, also when the *)
(* plan was made for another source.                                       *)
THEOREM StackWindowsServable == StackSpec => []WindowsServable
<1>1. ASSUME CallInv PROVE WindowsServable
  <2> SUFFICES ASSUME NEW k \in DOMAIN plans
               PROVE  HoldsExtent(plans[k], metas[plans[k].src].grid, request)
    BY DEF WindowsServable
  <2>1. PICK i \in Srcs : /\ plans[k] = PlanFromMeta(i, metas[i], request)
                          /\ PlanFromMeta(i, metas[i], request) # NoPlan
    BY <1>1, PlannedFacts DEF CallInv
  <2>2. GridOK(metas[i].grid) /\ RequestOK(request) /\ i \in Nat \ {0}
    BY <1>1, OwnPlan DEF CallInv, Srcs
  <2>3. /\ PlanFromMeta(i, metas[i], request).src = i
        /\ HoldsExtent(PlanFromMeta(i, metas[i], request), metas[i].grid, request)
    BY <2>1, <2>2, PlanHoldsExtent
  <2> QED
    BY <2>1, <2>3
<1> QED
  BY <1>1, CallInvariant, PTL

(* A call that returns has a plan for every source with ground in the      *)
(* extent.                                                                 *)
THEOREM StackNoneDropped == StackSpec => []NoneDropped
<1>1. ASSUME CallInv PROVE NoneDropped
  <2> SUFFICES ASSUME phase = "returned", NEW i \in Srcs, Overlaps(metas[i].grid, request)
               PROVE  \E k \in DOMAIN plans : plans[k].src = i
    BY DEF NoneDropped
  <2>1. plans = Surviving
    BY <1>1 DEF CallInv, Planned
  <2>2. /\ GridOK(metas[i].grid) /\ RequestOK(request) /\ i \in Nat \ {0}
        /\ PlanOf(metas, request, i) = PlanFromMeta(i, metas[i], request)
    BY <1>1, OwnPlan DEF CallInv, Srcs
  <2>3. PlanFromMeta(i, metas[i], request) # NoPlan
    BY <2>2, OverlapHasPlan
  <2>4. i \in Kept
    BY <2>2, <2>3 DEF Kept
  <2>5. PICK k \in DOMAIN plans : plans[k] = PlanFromMeta(i, metas[i], request)
    BY <1>1, <2>1, <2>4, SurvivingFacts DEF CallInv
  <2>6. PlanFromMeta(i, metas[i], request).src = i
    BY <2>2, <2>3, PlanHoldsExtent, Zenon
  <2> QED
    BY <2>5, <2>6
<1> QED
  BY <1>1, CallInvariant, PTL

-----------------------------------------------------------------------------
(* The size check is made when a plan is made: a plan that is past it is   *)
(* not too large for the source it was made for.                           *)
Sized ==
  /\ phase \in {"config", "plan"} => plans = <<>>
  /\ phase \notin {"config", "plan", "exit", "aborted"} => ~TooLarge(metas, request)
  /\ phase = "exit" /\ ~failed => ~TooLarge(metas, request)

LEMMA SizedStep == CallInv /\ Sized /\ [StackNext]_stackVars => Sized'
<1> SUFFICES ASSUME CallInv, Sized, [StackNext]_stackVars PROVE Sized'
  OBVIOUS
<1>1. TooLarge(metas, request)' = TooLarge(metas, request)
  BY CallStays DEF call
<1> HIDE DEF TooLarge
<1>2. CASE Plan
  BY <1>1, <1>2 DEF Plan, Sized, Abort
<1>3. CASE UNCHANGED stackVars
  BY <1>1, <1>3 DEF stackVars, Sized
<1>4. CASE Exit
  BY <1>1, <1>4 DEF Exit, Sized
<1>5. CASE Configure
  BY <1>1, <1>5 DEF Configure, Sized
<1>6. CASE \/ ConfigureFails \/ PlanFails \/ FetchFails \/ ArrayTooLarge \/ StageFails \/ WarpFails
           \/ BuildFails \/ WriteFails \/ NameFails \/ ReadBackFails
  <2>1. phase' = "exit" /\ failed' = TRUE
    BY <1>6 DEF ConfigureFails, PlanFails, FetchFails, ArrayTooLarge, StageFails, WarpFails,
       BuildFails, WriteFails, NameFails, ReadBackFails, Abort
  <2> QED
    BY <2>1 DEF Sized
<1>7. CASE \/ Fetch \/ ReadNative \/ ReadStaged \/ Stage \/ Staged \/ WarpTile \/ BuildVRT
           \/ Write \/ Name \/ ReadBack
  <2>1. phase \notin {"config", "plan", "exit", "aborted"}
    BY <1>7 DEF Fetch, ReadNative, ReadStaged, Stage, Staged, WarpTile, BuildVRT, Write, Name, ReadBack
  <2>2. phase' \notin {"config", "plan"}
    BY <1>7, <2>1 DEF Fetch, ReadNative, ReadStaged, Stage, Staged, AfterStaging, WarpTile, BuildVRT,
       Write, Name, ReadBack
  <2> QED
    BY <1>1, <2>1, <2>2 DEF Sized
<1> QED
  BY <1>2, <1>3, <1>4, <1>5, <1>6, <1>7 DEF StackNext

LEMMA SizedInvariant == StackSpec => [](CallInv /\ Sized)
<1>1. StackInit => Sized
  BY DEF StackInit, Sized
<1> QED
  BY <1>1, CallInvInit, CallInvStep, SizedStep, PTL DEF StackSpec

(* A plan handed on has the size of the one it was made from.              *)
LEMMA SizeShared ==
  ASSUME CallOK, NEW i \in Srcs, PlanFromMeta(i, metas[i], request) # NoPlan
  PROVE  LET j == Planner(metas, i)
         IN  /\ j \in Srcs /\ Planner(metas, j) = j
             /\ PlanOf(metas, request, j) # NoPlan
             /\ PlanOf(metas, request, j).xsize = PlanFromMeta(i, metas[i], request).xsize
             /\ PlanOf(metas, request, j).ysize = PlanFromMeta(i, metas[i], request).ysize
<1>1. NSrc \in Nat /\ i \in 1 .. NSrc
  BY StackAssumption DEF Srcs
<1>2. PICK j : j = Planner(metas, i)
  OBVIOUS
<1>3. j \in 1 .. i /\ metas[j].grid = metas[i].grid /\ Planner(metas, j) = j
  BY <1>1, <1>2, PlannerFirst
<1>4. j \in Srcs /\ i \in Nat \ {0} /\ j \in Nat \ {0}
  BY <1>1, <1>3 DEF Srcs
<1>5. PlanOf(metas, request, j) = PlanFromMeta(j, metas[j], request)
  BY <1>4, OwnPlan
<1>6. /\ PlanFromMeta(i, metas[i], request) =
            IF Empty(metas[i].grid, request) THEN NoPlan
            ELSE Window(i, metas[i].grid, metas[i].nodata, request)
      /\ PlanFromMeta(j, metas[j], request) =
            IF Empty(metas[i].grid, request) THEN NoPlan
            ELSE Window(j, metas[i].grid, metas[j].nodata, request)
  BY <1>3, <1>4, PlanIsWindow, Zenon
<1>7. ~Empty(metas[i].grid, request)
  BY <1>6, Zenon
<1>8. \A k, n : /\ Window(k, metas[i].grid, n, request).xsize =
                     End(metas[i].grid, request, Level(metas[i].grid, request)).x
                       - Begin(metas[i].grid, request, Level(metas[i].grid, request)).x
                /\ Window(k, metas[i].grid, n, request).ysize =
                     End(metas[i].grid, request, Level(metas[i].grid, request)).y
                       - Begin(metas[i].grid, request, Level(metas[i].grid, request)).y
  BY Zenon DEF Window
<1>9. PlanOf(metas, request, j) # NoPlan
  BY <1>4, <1>5, <1>6, <1>7, WindowIsAPlan, Zenon
<1>10. /\ PlanOf(metas, request, j).xsize = PlanFromMeta(i, metas[i], request).xsize
       /\ PlanOf(metas, request, j).ysize = PlanFromMeta(i, metas[i], request).ysize
  BY <1>5, <1>6, <1>7, <1>8, Zenon
<1> QED
  BY <1>2, <1>3, <1>4, <1>9, <1>10, Zenon

(* The bytes of one pixel of a source's window, and that no source has     *)
(* more than the one whose plan it is given.                               *)
PixelBytes(i) == NSelected(metas[i], request) * metas[i].bytes
NoneWider == \A i \in Srcs : PixelBytes(i) <= PixelBytes(Planner(metas, i))

LEMMA PixelBytesType ==
  ASSUME CallOK, NEW i \in Srcs
  PROVE  NSelected(metas[i], request) \in Nat /\ metas[i].bytes \in Nat /\ PixelBytes(i) \in Nat
<1>1. metas[i].nbands \in Nat /\ metas[i].bytes \in Nat /\ Len(request.bands) \in Nat
  BY StackAssumption DEF CallOK
<1>2. NSelected(metas[i], request) \in Nat
  BY <1>1 DEF NSelected
<1>3. \A a, b \in Nat : a * b \in Nat
  OBVIOUS
<1> QED
  BY <1>1, <1>2, <1>3, Zenon DEF PixelBytes

LEMMA MoreOfWider ==
  ASSUME NEW x \in Nat, NEW y \in Nat, NEW n \in Nat, NEW b \in Nat, NEW m \in Nat, NEW c \in Nat,
         n * b <= m * c
  PROVE  x * y * n * b <= x * y * m * c /\ x * y * n * b \in Nat /\ x * y * m * c \in Nat
<1>1. \A a, d \in Nat : a * d \in Nat
  OBVIOUS
<1>2. PICK p \in Nat : p = x * y
  BY <1>1
<1>3. PICK s \in Nat : s = n * b
  BY <1>1
<1>4. PICK t \in Nat : t = m * c
  BY <1>1
<1>5. x * y * n * b = p * s /\ x * y * m * c = p * t
  BY <1>2, <1>3, <1>4
<1>6. s <= t
  BY <1>3, <1>4
<1>7. p * s <= p * t
  BY <1>6
<1> QED
  BY <1>1, <1>5, <1>7

(* The documented bound on windows holds for every source that is planned  *)
(* first on its grid, or takes no more bytes per pixel than the one that   *)
(* was: it is a wider source under a shared plan that goes unmeasured.     *)
THEOREM StackSizeGuarded == StackSpec => [](NoneWider => SizeGuarded)
<1>1. ASSUME CallInv, Sized, NoneWider PROVE SizeGuarded
  <2> SUFFICES ASSUME phase \notin {"exit", "aborted"}, NEW k \in DOMAIN plans
               PROVE  WindowBytes(plans[k], metas[plans[k].src], request) <= request.maxbytes
    BY DEF SizeGuarded
  <2>1. PICK i \in Srcs : /\ plans[k] = PlanFromMeta(i, metas[i], request)
                          /\ PlanFromMeta(i, metas[i], request) # NoPlan
    BY <1>1, PlannedFacts DEF CallInv
  <2>2. CallOK /\ plans[k].src = i /\ plans[k].xsize \in Nat /\ plans[k].ysize \in Nat
    <3>1. GridOK(metas[i].grid) /\ RequestOK(request) /\ i \in Nat \ {0}
      BY <1>1, OwnPlan DEF CallInv, Srcs
    <3>2. plans[k].src = i /\ HoldsExtent(plans[k], metas[i].grid, request)
      BY <2>1, <3>1, PlanHoldsExtent
    <3>3. plans[k].xsize \in Nat \ {0} /\ plans[k].ysize \in Nat \ {0}
      BY <3>2, Zenon DEF HoldsExtent
    <3> QED
      BY <1>1, <3>2, <3>3 DEF CallInv
  <2>3. phase \notin {"config", "plan"}
    BY <1>1 DEF Sized
  <2>4. ~TooLarge(metas, request)
    BY <1>1, <2>3 DEF Sized
  <2>5. PICK j \in Srcs : /\ j = Planner(metas, i) /\ Planner(metas, j) = j
                          /\ PlanOf(metas, request, j) # NoPlan
                          /\ PlanOf(metas, request, j).xsize = plans[k].xsize
                          /\ PlanOf(metas, request, j).ysize = plans[k].ysize
    BY <2>1, <2>2, SizeShared
  <2>6. j \in DOMAIN metas
    BY <2>2 DEF CallOK
  <2>7. ~(WindowBytes(PlanOf(metas, request, j), metas[j], request) > request.maxbytes)
    BY <2>4, <2>5, <2>6, Zenon DEF TooLarge
  <2>8. /\ NSelected(metas[i], request) \in Nat /\ metas[i].bytes \in Nat
        /\ NSelected(metas[j], request) \in Nat /\ metas[j].bytes \in Nat
        /\ request.maxbytes \in Nat
    BY <2>2, PixelBytesType, StackAssumption DEF CallOK
  <2>9. NSelected(metas[i], request) * metas[i].bytes <= NSelected(metas[j], request) * metas[j].bytes
    BY <1>1, <2>5 DEF NoneWider, PixelBytes
  <2>10. /\ WindowBytes(plans[k], metas[i], request) =
               plans[k].xsize * plans[k].ysize * NSelected(metas[i], request) * metas[i].bytes
         /\ WindowBytes(PlanOf(metas, request, j), metas[j], request) =
               plans[k].xsize * plans[k].ysize * NSelected(metas[j], request) * metas[j].bytes
    BY <2>5, Zenon DEF WindowBytes
  <2>11. /\ WindowBytes(plans[k], metas[i], request) <= WindowBytes(PlanOf(metas, request, j), metas[j], request)
         /\ WindowBytes(plans[k], metas[i], request) \in Nat
         /\ WindowBytes(PlanOf(metas, request, j), metas[j], request) \in Nat
    <3> DEFINE x == plans[k].xsize
               y == plans[k].ysize
               n == NSelected(metas[i], request)
               b == metas[i].bytes
               m == NSelected(metas[j], request)
               c == metas[j].bytes
    <3>1. /\ x \in Nat /\ y \in Nat /\ n \in Nat /\ b \in Nat /\ m \in Nat /\ c \in Nat
          /\ n * b <= m * c
      BY <2>2, <2>8, <2>9
    <3>2. /\ WindowBytes(plans[k], metas[i], request) = x * y * n * b
          /\ WindowBytes(PlanOf(metas, request, j), metas[j], request) = x * y * m * c
      BY <2>10
    <3> HIDE DEF x, y, n, b, m, c
    <3>3. x * y * n * b <= x * y * m * c /\ x * y * n * b \in Nat /\ x * y * m * c \in Nat
      BY <3>1, MoreOfWider
    <3> QED
      BY <3>2, <3>3
  <2>12. \A a, b, c \in Nat : a <= b /\ ~(b > c) => a <= c
    OBVIOUS
  <2>13. WindowBytes(plans[k], metas[i], request) <= request.maxbytes
    BY <2>7, <2>8, <2>11, <2>12, Zenon
  <2> QED
    BY <2>2, <2>13, Zenon
<1> QED
  BY <1>1, SizedInvariant, PTL

-----------------------------------------------------------------------------
(* How far staging and warping have come, and GDAL's options.              *)

TileBands == {WindowBands(k, m) : k \in DOMAIN plans, m \in Methods \cup {"none"}}

Progress ==
  /\ phase \in Phases
  /\ phase \in {"config", "plan", "fetch", "native"} => staged = 0
  /\ phase \in {"config", "plan", "fetch", "native", "stage"} => tiles = <<>>
  /\ staged \in 0 .. Len(plans)
  /\ tiles \in Seq(TileBands) /\ Len(tiles) <= Len(plans)

(* What is on the list of options to reset is what the user had set, and   *)
(* every option that was changed is on it.                                 *)
OptionsSafe ==
  /\ config \in [Options -> {"user", "call"}]
  /\ undo \in Seq(Options \X {"user", "call"}) /\ Len(undo) <= Len(request.config)
  /\ phase = "config" => undo = <<>> /\ \A k \in Options : config[k] = "user"
  /\ op = "remote" \/ request.refused = 0 =>
       /\ \A n \in DOMAIN undo : undo[n][2] = "user"
       /\ \A k \in Options : config[k] = "user" \/ \E n \in DOMAIN undo : undo[n][1] = k
       /\ phase \in {"returned", "aborted"} => \A k \in Options : config[k] = "user"

LEMMA ProgressStep == CallInv /\ Progress /\ [StackNext]_stackVars => Progress'
<1> SUFFICES ASSUME CallInv, Progress, [StackNext]_stackVars PROVE Progress'
  OBVIOUS
<1>1. /\ Len(plans) \in 0 .. NSrc /\ Len(plans') \in 0 .. NSrc
      /\ call' = call /\ NSrc \in Nat
  <2>1. call' = call /\ NSrc \in Nat /\ Len(plans) \in 0 .. NSrc /\ CallInv'
    BY CallInvStep, PlannedFacts, CallStays, StackAssumption DEF CallInv
  <2>2. Surviving' = Surviving /\ Len(Surviving) \in 0 .. NSrc
    BY <2>1, SurvivingFacts DEF CallInv, call, Surviving, Kept
  <2>3. plans' = <<>> \/ plans' = Surviving
    BY <2>1, <2>2 DEF CallInv, Planned
  <2> QED
    BY <2>1, <2>2, <2>3
<1>2. CASE Plan
  <2>1. staged' = 0 /\ tiles' = <<>>
    BY <1>2 DEF Plan, Progress
  <2>2. phase' \in {"exit", "fetch"}
    BY <1>2 DEF Plan, Abort
  <2> QED
    BY <1>1, <2>1, <2>2 DEF Progress, Phases
<1>3. ASSUME plans' = plans PROVE TileBands' = TileBands
  BY <1>1, <1>3 DEF TileBands, WindowBands, SelectedBands, call
<1>4. CASE Stage
  BY <1>1, <1>3, <1>4 DEF Stage, Progress
<1>5. CASE WarpTile
  <2>1. TileBands' = TileBands /\ staged' = staged /\ plans' = plans /\ phase' = phase
    BY <1>3, <1>5 DEF WarpTile
  <2>2. Len(tiles) + 1 \in 1 .. NSrc /\ Len(tiles) + 1 <= Len(plans) /\ Len(tiles) \in Nat
    BY <1>1, <1>5 DEF WarpTile, Progress
  <2>3. r[Len(tiles) + 1] \in Methods
    BY <2>2 DEF CallInv, CallOK, Srcs
  <2>4. PICK b \in TileBands : tiles' = Append(tiles, b)
    <3>1. Len(tiles) + 1 \in DOMAIN plans
      BY <2>2, PlannedFacts DEF CallInv
    <3> QED
      BY <1>5, <2>3, <3>1 DEF WarpTile, NextMethod, TileBands
  <2>5. tiles' \in Seq(TileBands) /\ Len(tiles') = Len(tiles) + 1
    BY <2>4 DEF Progress
  <2>6. phase = "assemble"
    BY <1>5 DEF WarpTile
  <2> QED
    BY <2>1, <2>2, <2>5, <2>6 DEF Progress
<1>6. CASE UNCHANGED stackVars
  BY <1>3, <1>6 DEF stackVars, Progress
<1>7. ASSUME \/ Configure \/ ConfigureFails \/ PlanFails \/ Fetch \/ FetchFails \/ ReadNative
             \/ ReadStaged \/ ArrayTooLarge \/ StageFails \/ Staged
      PROVE  Progress'
  <2>1. plans' = plans /\ staged' = staged /\ tiles' = tiles
    BY <1>7 DEF Configure, ConfigureFails, PlanFails, Fetch, FetchFails, ReadNative, ReadStaged,
       ArrayTooLarge, StageFails, Staged
  <2>2. /\ phase' \in Phases
        /\ phase' \in {"plan", "fetch", "native"} => phase \in {"config", "plan", "fetch"}
        /\ phase' = "stage" => phase \in {"fetch", "native"}
        /\ phase' # "config"
    BY <1>7 DEF Configure, ConfigureFails, PlanFails, Fetch, FetchFails, ReadNative, ReadStaged,
       ArrayTooLarge, StageFails, Staged, AfterStaging, Abort, Phases
  <2> QED
    BY <1>3, <2>1, <2>2 DEF Progress
<1>8. ASSUME \/ WarpFails \/ BuildVRT \/ BuildFails \/ Write \/ WriteFails \/ Name \/ NameFails
             \/ ReadBack \/ ReadBackFails \/ Exit
      PROVE  Progress'
  <2>1. plans' = plans /\ staged' = staged /\ tiles' = tiles
    BY <1>8 DEF WarpFails, BuildVRT, BuildFails, Write, WriteFails, Name, NameFails, ReadBack,
       ReadBackFails, Exit
  <2>2. phase' \in {"write", "name", "read", "exit", "returned", "aborted"}
    BY <1>8 DEF WarpFails, BuildVRT, BuildFails, Write, WriteFails, Name, NameFails, ReadBack,
       ReadBackFails, Exit, Abort
  <2> QED
    BY <1>3, <2>1, <2>2 DEF Progress, Phases
<1> QED
  BY <1>2, <1>4, <1>5, <1>6, <1>7, <1>8 DEF StackNext

LEMMA KnobsFacts ==
  ASSUME CallOK
  PROVE  /\ Knobs \in Seq(Options) /\ Len(Knobs) <= Len(request.config)
         /\ Knobs = IF op = "remote" THEN <<>> ELSE request.config
<1>1. request.config \in Seq(Options)
  BY StackAssumption DEF CallOK
<1> QED
  BY <1>1 DEF Knobs

LEMMA OptionsStep == CallInv /\ OptionsSafe /\ [StackNext]_stackVars => OptionsSafe'
<1> SUFFICES ASSUME CallInv, OptionsSafe, [StackNext]_stackVars PROVE OptionsSafe'
  OBVIOUS
<1>1. call' = call
  BY CallStays
<1>2. /\ Knobs \in Seq(Options) /\ Len(Knobs) <= Len(request.config)
      /\ DOMAIN Knobs = 1 .. Len(Knobs) /\ Len(Knobs) \in Nat
  BY KnobsFacts DEF CallInv
<1>3. CASE Configure
  <2>1. /\ config' = [k \in Options |-> IF \E m \in 1 .. Len(Knobs) : Knobs[m] = k
                                        THEN "call" ELSE config[k]]
        /\ undo' = [n \in 1 .. Len(Knobs) |-> <<Knobs[n], config[Knobs[n]]>>]
        /\ phase = "config" /\ phase' = "plan"
    BY <1>2, <1>3 DEF Configure, SetUpTo
  <2>2. \A k \in Options : config[k] = "user"
    BY <2>1 DEF OptionsSafe
  <2>3. \A n \in 1 .. Len(Knobs) : Knobs[n] \in Options /\ config[Knobs[n]] = "user"
    BY <1>2, <2>2
  <2>4. undo' \in Seq(Options \X {"user", "call"}) /\ Len(undo') = Len(Knobs)
    BY <1>2, <2>1, <2>3
  <2>5. /\ DOMAIN undo' = 1 .. Len(Knobs)
        /\ \A n \in 1 .. Len(Knobs) : undo'[n][1] = Knobs[n] /\ undo'[n][2] = "user"
    BY <2>1, <2>3
  <2>6. \A k \in Options : config'[k] = "user" \/ \E n \in 1 .. Len(Knobs) : undo'[n][1] = k
    BY <2>1, <2>2, <2>5
  <2>7. config' \in [Options -> {"user", "call"}]
    BY <2>1, <2>2
  <2> QED
    BY <1>1, <1>2, <2>1, <2>4, <2>5, <2>6, <2>7 DEF OptionsSafe, call
<1>4. CASE ConfigureFails
  <2>1. config' \in [Options -> {"user", "call"}]
    BY <1>4 DEF ConfigureFails, SetUpTo, OptionsSafe
  <2>2. undo' = undo /\ phase' = "exit" /\ op # "remote" /\ request.refused # 0
    BY <1>4 DEF ConfigureFails, Abort
  <2> QED
    BY <1>1, <2>1, <2>2 DEF OptionsSafe, call
<1>5. CASE Exit
  <2> DEFINE at(k) == {n \in DOMAIN undo : undo[n][1] = k}
  <2>1. /\ config' = [k \in Options |-> IF at(k) = {} THEN config[k] ELSE undo[Max(at(k))][2]]
        /\ undo' = <<>> /\ phase' \in {"returned", "aborted"}
    BY <1>5 DEF Exit
  <2>2. \A k \in Options : at(k) # {} => Max(at(k)) \in DOMAIN undo
    <3> TAKE k \in Options
    <3>1. at(k) \in SUBSET (0 .. Len(undo)) /\ Len(undo) \in Nat /\ at(k) \subseteq DOMAIN undo
      BY DEF OptionsSafe
    <3> HIDE DEF at
    <3> QED
      BY <3>1, MaxIsGreatest
  <2>3. \A n \in DOMAIN undo : undo[n][2] \in {"user", "call"}
    BY DEF OptionsSafe
  <2>4. config' \in [Options -> {"user", "call"}]
    BY <2>1, <2>2, <2>3 DEF OptionsSafe
  <2>5. ASSUME op = "remote" \/ request.refused = 0, NEW k \in Options PROVE config'[k] = "user"
    <3>1. CASE at(k) = {}
      BY <2>1, <2>5, <3>1 DEF OptionsSafe
    <3>2. CASE at(k) # {}
      BY <2>1, <2>2, <2>5, <3>2 DEF OptionsSafe
    <3> QED
      BY <3>1, <3>2
  <2>6. Len(request.config) \in Nat
    BY StackAssumption DEF CallInv, CallOK
  <2> HIDE DEF at
  <2> QED
    BY <1>1, <2>1, <2>4, <2>5, <2>6 DEF OptionsSafe, call
<1>6. ASSUME UNCHANGED settings, phase' # "config",
             phase' \in {"returned", "aborted"} => phase' = phase
      PROVE  OptionsSafe'
  BY <1>1, <1>6 DEF OptionsSafe, call, settings
<1>7. CASE UNCHANGED stackVars
  BY <1>1, <1>7 DEF OptionsSafe, call, settings, stackVars
<1>8. CASE \/ Plan \/ PlanFails \/ Fetch \/ FetchFails \/ ReadNative
           \/ ReadStaged \/ ArrayTooLarge \/ Stage \/ StageFails \/ Staged
  BY <1>6, <1>8 DEF Plan, PlanFails, Fetch, FetchFails, ReadNative, ReadStaged, ArrayTooLarge,
     Stage, StageFails, Staged, AfterStaging, Abort
<1>9. CASE \/ WarpTile \/ WarpFails \/ BuildVRT \/ BuildFails \/ Write \/ WriteFails
           \/ Name \/ NameFails \/ ReadBack \/ ReadBackFails
  BY <1>6, <1>9 DEF WarpTile, WarpFails, BuildVRT, BuildFails, Write, WriteFails, Name, NameFails,
     ReadBack, ReadBackFails, Abort
<1> QED
  BY <1>3, <1>4, <1>5, <1>7, <1>8, <1>9 DEF StackNext

-----------------------------------------------------------------------------
(* Files in /vsimem: who will remove them.  From the first that is made to *)
(* the handler that lists it, a failure leaves it behind.                  *)

Excused(f) ==
  /\ failed
  /\ \/ f[1] \in {"bin", "vrt"} /\ staged < Len(plans)
     \/ f[1] = "tile" /\ Len(tiles) < Len(plans)

FilesKnown ==
  /\ vsimem \subseteq {"bin", "vrt", "tile", "sep", "out"} \X (0 .. NSrc)
  /\ deferred \subseteq vsimem \cup {Out}

Tracked ==
  /\ phase \in {"config", "plan", "fetch", "native"} => vsimem = {}
  /\ phase = "stage" => \A f \in vsimem : f[1] \in {"bin", "vrt"}
  /\ phase = "assemble" => \A f \in vsimem : f \in deferred \/ f[1] = "tile"
  /\ phase \in {"write", "name", "read"} => vsimem \subseteq deferred
  /\ phase = "write" /\ op = "read" => Out \in deferred
  /\ op = "stack_read" /\ phase \notin {"config", "exit", "returned", "aborted"} => Out \in deferred
  /\ phase \in {"exit", "returned", "aborted"} => \A f \in vsimem \ deferred : Excused(f)
  /\ phase \in {"returned", "aborted"} => deferred = {}
  /\ phase \in {"assemble", "name"} => op \in Stacks

LEMMA FilesStep ==
  CallInv /\ Progress /\ FilesKnown /\ [StackNext]_stackVars => FilesKnown'
<1> SUFFICES ASSUME CallInv, Progress, FilesKnown, [StackNext]_stackVars PROVE FilesKnown'
  OBVIOUS
<1>1. Len(plans) \in 0 .. NSrc /\ NSrc \in Nat
  BY PlannedFacts, StackAssumption DEF CallInv
<1>2. CASE Stage \/ StageFails
  <2>1. staged + 1 \in 0 .. NSrc
    BY <1>1, <1>2 DEF Stage, StageFails, Progress
  <2> QED
    BY <1>2, <2>1 DEF Stage, StageFails, FilesKnown
<1>3. CASE WarpTile
  <2>1. Len(tiles) + 1 \in 0 .. NSrc
    BY <1>1, <1>3 DEF WarpTile, Progress
  <2> QED
    BY <1>3, <2>1 DEF WarpTile, FilesKnown
<1>4. CASE Configure \/ Staged
  BY <1>4 DEF Configure, Staged, FilesKnown
<1>5. CASE BuildVRT \/ BuildFails
  BY <1>1, <1>5 DEF BuildVRT, BuildFails, FilesKnown
<1>6. CASE Write \/ WriteFails
  BY <1>1, <1>6 DEF Write, WriteFails, FilesKnown, Out
<1>7. CASE Exit
  BY <1>7 DEF Exit, FilesKnown
<1>8. ASSUME vsimem' = vsimem, deferred' = deferred PROVE FilesKnown'
  BY <1>8 DEF FilesKnown
<1>9. CASE \/ ConfigureFails \/ Plan \/ PlanFails \/ Fetch \/ FetchFails \/ ReadNative \/ ReadStaged
           \/ ArrayTooLarge \/ WarpFails \/ Name \/ NameFails \/ ReadBack \/ ReadBackFails
  BY <1>8, <1>9 DEF ConfigureFails, Plan, PlanFails, Fetch, FetchFails, ReadNative, ReadStaged,
     ArrayTooLarge, WarpFails, Name, NameFails, ReadBack, ReadBackFails
<1>10. CASE UNCHANGED stackVars
  BY <1>8, <1>10 DEF stackVars
<1> QED
  BY <1>2, <1>3, <1>4, <1>5, <1>6, <1>7, <1>9, <1>10 DEF StackNext

LEMMA TrackedStep ==
  CallInv /\ Progress /\ FilesKnown /\ Tracked /\ [StackNext]_stackVars => Tracked'
<1> SUFFICES ASSUME CallInv, Progress, FilesKnown, Tracked, [StackNext]_stackVars PROVE Tracked'
  OBVIOUS
<1>1. op' = op /\ op \in Ops
  BY CallStays DEF call, CallInv, CallOK
<1>2. CASE Configure
  BY <1>1, <1>2 DEF Configure, Tracked
<1>3. CASE \/ ConfigureFails \/ Plan \/ PlanFails \/ Fetch \/ FetchFails \/ ReadNative
           \/ ReadStaged \/ ArrayTooLarge
  <2>1. vsimem = {} /\ vsimem' = {} /\ deferred' = deferred
    BY <1>3 DEF ConfigureFails, Plan, PlanFails, Fetch, FetchFails, ReadNative, ReadStaged,
       ArrayTooLarge, Tracked
  <2>2. /\ phase' \in {"plan", "fetch", "native", "stage", "exit"}
        /\ phase = "config" => phase' = "exit"
        /\ phase \in {"config", "plan", "fetch", "native"}
    BY <1>3 DEF ConfigureFails, Plan, PlanFails, Fetch, FetchFails, ReadNative, ReadStaged,
       ArrayTooLarge, Abort
  <2> QED
    BY <1>1, <2>1, <2>2 DEF Tracked
<1>4. CASE Stage
  BY <1>1, <1>4 DEF Stage, Tracked
<1>5. CASE StageFails
  <2>1. /\ staged' = staged /\ plans' = plans /\ staged < Len(plans) /\ failed' = TRUE
        /\ phase = "stage" /\ phase' = "exit"
        /\ vsimem' = vsimem \cup {<<"bin", staged + 1>>}
    BY <1>5 DEF StageFails, Abort
  <2>2. \A f \in vsimem' : f[1] \in {"bin", "vrt"}
    BY <2>1 DEF Tracked
  <2> QED
    BY <2>1, <2>2 DEF Tracked, Excused
<1>6. CASE Staged
  <2>1. /\ phase' = IF op \in Stacks THEN "assemble" ELSE IF Native THEN "read" ELSE "write"
        /\ vsimem' = vsimem /\ vsimem \subseteq deferred' /\ deferred \subseteq deferred'
        /\ op = "read" /\ ~Native => Out \in deferred'
        /\ phase = "stage"
    BY <1>6 DEF Staged, AfterStaging
  <2> QED
    BY <1>1, <2>1 DEF Tracked, Stacks
<1>7. CASE WarpTile
  <2>1. /\ phase = "assemble" /\ phase' = phase /\ deferred' = deferred
        /\ \A f \in vsimem' : f \in vsimem \/ f[1] = "tile"
    BY <1>7 DEF WarpTile
  <2> QED
    BY <1>1, <2>1 DEF Tracked
<1>8. CASE WarpFails
  <2>1. /\ phase = "assemble" /\ phase' = "exit" /\ deferred' = deferred /\ vsimem' = vsimem
        /\ failed' = TRUE /\ tiles' = tiles /\ plans' = plans /\ Len(tiles) < Len(plans)
    BY <1>8 DEF WarpFails, Abort
  <2> QED
    BY <2>1 DEF Tracked, Excused
<1>9. CASE BuildVRT
  <2>1. /\ phase = "assemble" /\ phase' = "write"
        /\ vsimem' = vsimem \cup {<<"sep", 0>>}
        /\ deferred' = deferred \cup {f \in vsimem' : f[1] \in {"tile", "sep"}}
    BY <1>9 DEF BuildVRT
  <2>2. vsimem' \subseteq deferred'
    BY <2>1 DEF Tracked
  <2> QED
    BY <1>1, <2>1, <2>2 DEF Tracked, Stacks
<1>10. CASE BuildFails
  <2>1. /\ phase = "assemble" /\ phase' = "exit" /\ vsimem' = vsimem
        /\ deferred' = deferred \cup {f \in vsimem : f[1] = "tile"}
    BY <1>10 DEF BuildFails, Abort
  <2> QED
    BY <2>1 DEF Tracked
<1>11. CASE Write \/ WriteFails
  <2>1. /\ phase = "write" /\ phase' \in {"name", "read", "exit"} /\ deferred' = deferred
        /\ vsimem' = IF op \in Reads THEN vsimem \cup {Out} ELSE vsimem
        /\ phase' = "name" => op \in Stacks
    BY <1>11 DEF Write, WriteFails, Abort
  <2>2. op \in Reads => Out \in deferred
    BY <2>1 DEF Tracked, Reads
  <2>3. vsimem' \subseteq deferred'
    BY <2>1, <2>2 DEF Tracked
  <2> QED
    BY <1>1, <2>1, <2>3 DEF Tracked
<1>12. CASE Name \/ NameFails \/ ReadBack \/ ReadBackFails
  <2>1. /\ phase \in {"name", "read"} /\ phase' \in {"read", "exit"}
        /\ deferred' = deferred /\ vsimem' = vsimem
    BY <1>12 DEF Name, NameFails, ReadBack, ReadBackFails, Abort
  <2> QED
    BY <1>1, <2>1 DEF Tracked
<1>13. CASE Exit
  <2>1. /\ phase = "exit" /\ phase' \in {"returned", "aborted"}
        /\ vsimem' = vsimem \ deferred /\ deferred' = {}
        /\ failed' = failed /\ staged' = staged /\ plans' = plans /\ tiles' = tiles
    BY <1>13 DEF Exit
  <2> QED
    BY <2>1 DEF Tracked, Excused
<1>14. CASE UNCHANGED stackVars
  BY <1>1, <1>14 DEF stackVars, Tracked, Excused
<1> QED
  BY <1>2, <1>3, <1>4, <1>5, <1>6, <1>7, <1>8, <1>9, <1>10, <1>11, <1>12, <1>13, <1>14 DEF StackNext

-----------------------------------------------------------------------------
IInv == CallInv /\ Progress /\ OptionsSafe /\ FilesKnown /\ Tracked

LEMMA IInvInit == StackInit => IInv
<1> SUFFICES ASSUME StackInit PROVE IInv
  OBVIOUS
<1>1. CallInv
  BY CallInvInit
<1>2. Progress
  <2>1. Len(plans) \in 0 .. NSrc
    BY <1>1, PlannedFacts DEF CallInv
  <2> QED
    BY <2>1 DEF StackInit, Progress, Phases
<1>3. OptionsSafe
  <2>1. Len(request.config) \in Nat
    BY StackAssumption DEF StackInit
  <2> QED
    BY <2>1 DEF StackInit, OptionsSafe
<1>4. FilesKnown /\ Tracked
  BY DEF StackInit, FilesKnown, Tracked
<1> QED
  BY <1>1, <1>2, <1>3, <1>4 DEF IInv

LEMMA IInvariant == StackSpec => []IInv
<1>1. IInv /\ [StackNext]_stackVars => IInv'
  BY CallInvStep, ProgressStep, OptionsStep, FilesStep, TrackedStep DEF IInv
<1> QED
  BY IInvInit, <1>1, PTL DEF StackSpec

(* The types of a call.                                                    *)
THEOREM StackTypesCorrect == StackSpec => []StackTypeOK
<1>1. ASSUME IInv PROVE StackTypeOK
  <2>1. /\ Len(plans) \in 0 .. NSrc
        /\ \A k \in DOMAIN plans :
             \E i \in Srcs : /\ plans[k] = PlanFromMeta(i, metas[i], request)
                             /\ PlanFromMeta(i, metas[i], request) # NoPlan
    BY <1>1, PlannedFacts DEF IInv, CallInv
  <2>2. \A i \in Srcs : PlanFromMeta(i, metas[i], request) # NoPlan =>
                          PlanFromMeta(i, metas[i], request).src = i
    <3> TAKE i \in Srcs
    <3>1. GridOK(metas[i].grid) /\ RequestOK(request) /\ i \in Nat \ {0}
      BY <1>1, OwnPlan DEF IInv, CallInv, Srcs
    <3> QED
      BY <3>1, PlanHoldsExtent
  <2>3. \A k \in DOMAIN plans : plans[k].src \in Srcs
    BY <2>1, <2>2
  <2>4. Len(plans) <= NSrc
    BY <2>1, StackAssumption
  <2> QED
    BY <1>1, <2>3, <2>4 DEF IInv, CallInv, CallOK, Planned, Progress, Phases, OptionsSafe,
       FilesKnown, StackTypeOK
<1> QED
  BY <1>1, IInvariant, PTL

(* A call that is over has left nothing in /vsimem, but for the windows or *)
(* tiles made before the one that failed.                                  *)
THEOREM StackNothingLeft == StackSpec => []NothingLeft
<1>1. IInv => NothingLeft
  BY DEF IInv, Tracked, Excused, NothingLeft, Over
<1> QED
  BY <1>1, IInvariant, PTL

(* GDAL's options are the user's own again after every call, whatever      *)
(* options it set, in whatever order and however often.                    *)
THEOREM StackConfigRestored == StackSpec => []ConfigRestored
<1>1. IInv => ConfigRestored
  BY DEF IInv, OptionsSafe, ConfigRestored, Over
<1> QED
  BY <1>1, IInvariant, PTL

-----------------------------------------------------------------------------
(* What is in the tiles, in the output and in the array: the bands of the  *)
(* planned windows, those of a stack resampled with the method of their    *)
(* place or as they were fetched.                                          *)

AnyMethod == Methods \cup {"none"}
Band == [src : Srcs, band : Nat \ {0}, nodata : {m.nodata : m \in Metas}, r : AnyMethod]

Windows(m) == [k \in DOMAIN plans |-> WindowBands(k, m[k])]
MethodsUsed ==
  {m \in [DOMAIN plans -> AnyMethod] :
     op \in Stacks => \A k \in DOMAIN plans : m[k] \in {"none", r[k]}}
Composed(d) == \E m \in MethodsUsed : d = FlattenSeq(Windows(m))

Succeeded == phase = "returned" \/ (phase = "exit" /\ ~failed)

(* The bands have their descriptions, and names given were enough for them.*)
Named ==
  /\ names = Descriptions
  /\ GivenNames => request.labels = Len(Labels)

Contents ==
  /\ phase \notin {"config", "plan", "exit", "aborted"} \/ Succeeded => plans # <<>>
  /\ \E m \in MethodsUsed : \A k \in DOMAIN tiles : tiles[k] = WindowBands(k, m[k])
  /\ phase = "write" /\ op \in Stacks => Len(tiles) = Len(plans)
  /\ phase = "assemble" => op \in Stacks
  /\ phase = "native" => Native
  /\ phase = "name" => op \in Stacks /\ Composed(dst)
  /\ phase = "read" =>
       op \in Reads /\ (Native \/ Composed(dst)) /\ (op = "stack_read" => Named)
  /\ Succeeded =>
       /\ op \in Stacks \/ op \notin Reads => Composed(dst)
       /\ op \in Stacks => Named
       /\ op \in Reads => Composed(array.bands) /\ array.bytes \in 1 .. request.maxbytes

(* A planned window belongs to one source, has pixels and some bands.      *)
LEMMA PlansFacts ==
  ASSUME CallInv
  PROVE  /\ Len(plans) \in Nat /\ DOMAIN plans = 1 .. Len(plans)
         /\ plans # <<>> => Len(plans) > 0
         /\ \A k \in DOMAIN plans :
              /\ plans[k].src \in Srcs
              /\ plans[k].nodata = metas[plans[k].src].nodata
              /\ plans[k].xsize \in Nat \ {0} /\ plans[k].ysize \in Nat \ {0}
<1>1. NSrc \in Nat /\ Len(plans) \in 0 .. NSrc /\ DOMAIN plans = 1 .. Len(plans)
  BY PlannedFacts, StackAssumption DEF CallInv
<1>2. plans # <<>> => Len(plans) > 0
  <2>1. CASE plans = <<>>
    BY <2>1
  <2>2. CASE plans = Surviving
    BY <1>1, <2>2, SurvivingFacts DEF CallInv
  <2> QED
    BY <2>1, <2>2 DEF CallInv, Planned
<1>3. ASSUME NEW k \in DOMAIN plans
      PROVE  /\ plans[k].src \in Srcs
             /\ plans[k].nodata = metas[plans[k].src].nodata
             /\ plans[k].xsize \in Nat \ {0} /\ plans[k].ysize \in Nat \ {0}
  <2>1. PICK i \in Srcs : /\ plans[k] = PlanFromMeta(i, metas[i], request)
                          /\ PlanFromMeta(i, metas[i], request) # NoPlan
    BY PlannedFacts DEF CallInv
  <2>2. GridOK(metas[i].grid) /\ RequestOK(request) /\ i \in Nat \ {0}
    BY OwnPlan DEF CallInv, Srcs
  <2>3. plans[k].src = i /\ plans[k].nodata = metas[i].nodata /\ HoldsExtent(plans[k], metas[i].grid, request)
    BY <2>1, <2>2, PlanHoldsExtent
  <2>4. plans[k].xsize \in Nat \ {0} /\ plans[k].ysize \in Nat \ {0}
    BY <2>3, Zenon DEF HoldsExtent
  <2> QED
    BY <2>3, <2>4
<1> QED
  BY <1>1, <1>2, <1>3

LEMMA SelectedFacts ==
  ASSUME CallOK, NEW i \in Srcs
  PROVE  /\ SelectedBands(i) \in Seq(Nat \ {0}) /\ Len(SelectedBands(i)) \in Nat \ {0}
         /\ DOMAIN SelectedBands(i) = 1 .. Len(SelectedBands(i))
<1>1. metas[i] \in Metas /\ metas[i].nbands \in Nat \ {0} /\ request.bands \in Seq(Nat \ {0})
  BY StackAssumption DEF CallOK
<1>2. CASE request.bands = <<>>
  <2>1. SelectedBands(i) = [b \in 1 .. metas[i].nbands |-> b]
    BY <1>2 DEF SelectedBands
  <2> QED
    BY <1>1, <2>1
<1>3. CASE request.bands # <<>>
  <2>1. SelectedBands(i) = request.bands
    BY <1>3 DEF SelectedBands
  <2> QED
    BY <1>1, <1>3, <2>1
<1> QED
  BY <1>2, <1>3

LEMMA BandsFacts ==
  ASSUME CallInv, NEW k \in DOMAIN plans, NEW method \in AnyMethod
  PROVE  /\ WindowBands(k, method) \in Seq(Band)
         /\ Len(WindowBands(k, method)) = Len(SelectedBands(plans[k].src))
         /\ Len(WindowBands(k, method)) \in Nat \ {0}
         /\ \A b \in 1 .. Len(SelectedBands(plans[k].src)) :
              WindowBands(k, method)[b] =
                [src |-> plans[k].src, band |-> SelectedBands(plans[k].src)[b],
                 nodata |-> plans[k].nodata, r |-> method]
<1> DEFINE i == plans[k].src
           bands == SelectedBands(i)
<1>1. /\ i \in Srcs /\ bands \in Seq(Nat \ {0}) /\ Len(bands) \in Nat \ {0}
      /\ DOMAIN bands = 1 .. Len(bands)
  BY PlansFacts, SelectedFacts DEF CallInv
<1>2. plans[k].nodata \in {m.nodata : m \in Metas}
  BY <1>1, PlansFacts DEF CallInv, CallOK
<1>3. WindowBands(k, method) =
        [b \in 1 .. Len(bands) |-> [src |-> i, band |-> bands[b], nodata |-> plans[k].nodata, r |-> method]]
  BY DEF WindowBands
<1> HIDE DEF i, bands
<1>4. \A b \in 1 .. Len(bands) :
        [src |-> i, band |-> bands[b], nodata |-> plans[k].nodata, r |-> method] \in Band
  BY <1>1, <1>2 DEF Band
<1>5. WindowBands(k, method) \in Seq(Band) /\ Len(WindowBands(k, method)) = Len(bands)
  BY <1>1, <1>3, <1>4
<1> QED
  BY <1>1, <1>3, <1>5 DEF i, bands

(* The plans and the call decide what the windows hold.                    *)
LEMMA WindowsStay ==
  ASSUME call' = call, plans' = plans
  PROVE  /\ \A k, m : WindowBands(k, m)' = WindowBands(k, m)
         /\ Composed(dst)' <=> Composed(dst')
         /\ Composed(array.bands)' <=> Composed(array'.bands)
         /\ dst' = dst => (Composed(dst)' <=> Composed(dst))
         /\ array' = array => (Composed(array.bands)' <=> Composed(array.bands))
         /\ names' = names => (Named' <=> Named)
         /\ Labels' = Labels /\ Native' = Native /\ MethodsUsed' = MethodsUsed
<1>1. \A i : SelectedBands(i)' = SelectedBands(i)
  BY DEF SelectedBands, call
<1>2. \A k, m : WindowBands(k, m)' = WindowBands(k, m)
  BY <1>1 DEF WindowBands
<1>3. \A m : Windows(m)' = Windows(m)
  BY <1>2 DEF Windows
<1>4. Labels' = Labels
  BY <1>1 DEF Labels
<1>5. Native' = Native
  BY DEF Native, CopyPath, call
<1>6. MethodsUsed' = MethodsUsed
  BY DEF MethodsUsed, AnyMethod, call
<1>7. Composed(dst)' <=> Composed(dst')
  BY <1>3, <1>6 DEF Composed
<1>8. Composed(array.bands)' <=> Composed(array'.bands)
  BY <1>3, <1>6 DEF Composed
<1>9. dst' = dst => (Composed(dst)' <=> Composed(dst))
  BY <1>3, <1>6 DEF Composed
<1>10. array' = array => (Composed(array.bands)' <=> Composed(array.bands))
  BY <1>3, <1>6 DEF Composed
<1>11. names' = names => (Named' <=> Named)
  <2>1. GivenNames' = GivenNames /\ request' = request
    BY DEF GivenNames, call
  <2>2. Descriptions' = Descriptions
    BY <1>4, <2>1 DEF Descriptions
  <2> QED
    BY <1>4, <2>1, <2>2 DEF Named
<1> QED
  BY <1>2, <1>4, <1>5, <1>6, <1>7, <1>8, <1>9, <1>10, <1>11

(* A composition is what the warps or the windows as they are give, and    *)
(* has bands if anything was planned.                                      *)
LEMMA OneMethod ==
  ASSUME CallInv, NEW method \in AnyMethod, op \in Stacks => method = "none"
  PROVE  Composed(FlattenSeq([k \in DOMAIN plans |-> WindowBands(k, method)]))
<1> DEFINE m == [k \in DOMAIN plans |-> method]
<1>1. m \in MethodsUsed
  BY DEF MethodsUsed
<1>2. Windows(m) = [k \in DOMAIN plans |-> WindowBands(k, method)]
  BY DEF Windows
<1> QED
  BY <1>1, <1>2 DEF Composed

LEMMA TilesComposed ==
  ASSUME CallInv, Len(tiles) = Len(plans), DOMAIN tiles = 1 .. Len(tiles),
         tiles = [k \in DOMAIN tiles |-> tiles[k]],
         \E m \in MethodsUsed : \A k \in DOMAIN tiles : tiles[k] = WindowBands(k, m[k])
  PROVE  Composed(FlattenSeq(tiles))
<1>1. PICK m \in MethodsUsed : \A k \in DOMAIN tiles : tiles[k] = WindowBands(k, m[k])
  OBVIOUS
<1>2. DOMAIN tiles = DOMAIN plans
  BY PlansFacts
<1>3. tiles = Windows(m)
  BY <1>1, <1>2 DEF Windows
<1> QED
  BY <1>1, <1>3 DEF Composed

LEMMA ComposedBands ==
  ASSUME CallInv, NEW d, Composed(d), plans # <<>>
  PROVE  d \in Seq(Band) /\ Len(d) \in Nat \ {0}
<1>1. PICK m \in [DOMAIN plans -> AnyMethod] : d = FlattenSeq(Windows(m))
  BY DEF Composed, MethodsUsed
<1>2. Len(plans) \in Nat \ {0} /\ DOMAIN plans = 1 .. Len(plans)
  BY PlansFacts
<1>3. \A k \in 1 .. Len(plans) :
        WindowBands(k, m[k]) \in Seq(Band) /\ Len(WindowBands(k, m[k])) \in Nat \ {0}
  BY <1>2, BandsFacts
<1>4. Windows(m) \in Seq(Seq(Band)) /\ Len(Windows(m)) = Len(plans)
  BY <1>2, <1>3, IsASeq DEF Windows
<1>5. Windows(m)[Len(plans)] = WindowBands(Len(plans), m[Len(plans)])
  BY <1>2 DEF Windows
<1> DEFINE W == Windows(m)
           n == Len(plans)
<1> HIDE DEF W, n
<1>6. /\ FlattenSeq(Upto(W, Len(W))) = FlattenSeq(W)
      /\ \A j \in 0 .. Len(W) : FlattenSeq(Upto(W, j)) \in Seq(Band)
      /\ \A j \in 0 .. Len(W) - 1 : FlattenSeq(Upto(W, j + 1)) = FlattenSeq(Upto(W, j)) \o W[j + 1]
  BY <1>4, FlattenUpto DEF W
<1>7. /\ n \in Nat \ {0} /\ n = Len(W) /\ n - 1 \in 0 .. Len(W) - 1 /\ n - 1 + 1 = n
      /\ n \in 0 .. Len(W) /\ n - 1 \in 0 .. Len(W)
  BY <1>2, <1>4 DEF W, n
<1>8. FlattenSeq(W) = FlattenSeq(Upto(W, n - 1)) \o W[n]
  BY <1>6, <1>7
<1>9. FlattenSeq(Upto(W, n - 1)) \in Seq(Band) /\ W[n] \in Seq(Band) /\ Len(W[n]) \in Nat \ {0}
  BY <1>2, <1>3, <1>5, <1>6, <1>7 DEF W, n
<1>10. d = FlattenSeq(W)
  BY <1>1 DEF W
<1>11. /\ FlattenSeq(Upto(W, n - 1)) \o W[n] \in Seq(Band)
       /\ Len(FlattenSeq(Upto(W, n - 1)) \o W[n]) = Len(FlattenSeq(Upto(W, n - 1))) + Len(W[n])
       /\ Len(FlattenSeq(Upto(W, n - 1))) \in Nat
  BY <1>9, ConcatProperties, LenProperties
<1>12. d = FlattenSeq(Upto(W, n - 1)) \o W[n]
  BY <1>8, <1>10
<1>13. Len(d) = Len(FlattenSeq(Upto(W, n - 1))) + Len(W[n]) /\ d \in Seq(Band)
  BY <1>11, <1>12, Zenon
<1>14. \A a, b : a \in Nat /\ b \in Nat \ {0} => a + b \in Nat \ {0}
  OBVIOUS
<1>15. Len(d) \in Nat \ {0}
  BY <1>9, <1>11, <1>13, <1>14, Zenon
<1> QED
  BY <1>13, <1>15

LEMMA BytesPositive ==
  ASSUME NEW pixels \in Nat \ {0}, NEW bands \in Nat \ {0}
  PROVE  ArrayBytes(pixels, bands) \in Nat \ {0}
<1>1. pixels * bands \in Nat \ {0}
  OBVIOUS
<1> QED
  BY <1>1 DEF ArrayBytes

(* A single window is its own composition, and its array has bytes.        *)
LEMMA WindowArrayFacts ==
  ASSUME CallInv, Native
  PROVE  Composed(WindowArray.bands) /\ WindowArray.bytes \in Nat \ {0}
<1> DEFINE bands == WindowBands(1, "none")
           s == [k \in DOMAIN plans |-> WindowBands(k, "none")]
<1>1. Len(plans) = 1 /\ 1 \in DOMAIN plans /\ DOMAIN plans = 1 .. 1
  BY PlansFacts DEF Native, CopyPath
<1>2. "none" \in AnyMethod /\ bands \in Seq(Band) /\ Len(bands) \in Nat \ {0}
  <2>1. "none" \in AnyMethod
    BY DEF AnyMethod
  <2> QED
    BY <1>1, <2>1, BandsFacts
<1>3. /\ WindowArray.bands = bands
      /\ WindowArray.bytes = ArrayBytes(plans[1].xsize * plans[1].ysize, Len(bands))
  BY DEF WindowArray
<1>4. plans[1].xsize * plans[1].ysize \in Nat \ {0}
  <2>1. plans[1].xsize \in Nat \ {0} /\ plans[1].ysize \in Nat \ {0}
    BY <1>1, PlansFacts
  <2>2. \A a, b \in Nat \ {0} : a * b \in Nat \ {0}
    OBVIOUS
  <2> QED
    BY <2>1, <2>2
<1>5. Composed(FlattenSeq(s))
  <2>1. op \notin Stacks
    BY DEF Native, Stacks
  <2> QED
    BY <1>2, <2>1, OneMethod
<1>6. s = [k \in 1 .. 1 |-> bands]
  BY <1>1
<1> HIDE DEF bands, s
<1>7. FlattenSeq(s) = bands
  <2>1. s \in Seq(Seq(Band)) /\ Len(s) = 1 /\ s[1] = bands
    BY <1>2, <1>6
  <2>2. FlattenSeq(Upto(s, 0)) = <<>> /\ FlattenSeq(Upto(s, 1)) = FlattenSeq(s)
    BY <2>1, FlattenUpto
  <2>3. FlattenSeq(Upto(s, 0 + 1)) = FlattenSeq(Upto(s, 0)) \o s[0 + 1]
    <3>1. \A m \in 0 .. Len(s) - 1 : FlattenSeq(Upto(s, m + 1)) = FlattenSeq(Upto(s, m)) \o s[m + 1]
      BY <2>1, FlattenUpto
    <3>2. 0 \in 0 .. Len(s) - 1
      BY <2>1
    <3> QED
      BY <3>1, <3>2, Zenon
  <2>4. FlattenSeq(s) = <<>> \o bands
    <3>1. 0 + 1 = 1
      OBVIOUS
    <3> QED
      BY <2>1, <2>2, <2>3, <3>1
  <2> QED
    BY <1>2, <2>4
<1> QED
  BY <1>2, <1>3, <1>4, <1>5, <1>7, BytesPositive

LEMMA ContentsStep == CallInv /\ Progress /\ Contents /\ [StackNext]_stackVars => Contents'
<1> SUFFICES ASSUME CallInv, Progress, Contents, [StackNext]_stackVars PROVE Contents'
  OBVIOUS
<1>1. /\ call' = call /\ op \in Ops /\ Len(plans) \in Nat /\ DOMAIN plans = 1 .. Len(plans)
      /\ plans # <<>> => Len(plans) > 0
      /\ Len(tiles) \in Nat /\ DOMAIN tiles = 1 .. Len(tiles) /\ Len(tiles) <= Len(plans)
      /\ tiles = [k \in DOMAIN tiles |-> tiles[k]]
  <2>1. tiles \in Seq(TileBands) /\ Len(tiles) <= Len(plans)
    BY DEF Progress
  <2> QED
    BY <2>1, CallStays, PlansFacts DEF CallInv, CallOK
<1>2. /\ op' = op /\ request' = request /\ metas' = metas /\ r' = r
      /\ op \in Stacks \/ op = "read" \/ op \in {"warp", "remote"}
      /\ op \in Reads <=> op \in {"read", "stack_read"}
      /\ op \in Stacks <=> op \in {"stack", "stack_read"}
  BY <1>1 DEF call, Ops, Reads, Stacks
<1> DEFINE Made == \E m \in MethodsUsed : \A k \in DOMAIN tiles : tiles[k] = WindowBands(k, m[k])
<1>3. ASSUME plans' = plans, tiles' = tiles PROVE Made'
  <2>1. PICK m \in MethodsUsed : \A k \in DOMAIN tiles : tiles[k] = WindowBands(k, m[k])
    BY DEF Contents
  <2>2. MethodsUsed' = MethodsUsed /\ \A k : WindowBands(k, m[k])' = WindowBands(k, m[k])
    BY <1>1, <1>3, WindowsStay
  <2> QED
    BY <1>3, <2>1, <2>2
<1>4. CASE Plan
  <2>1. tiles' = <<>>
    BY <1>4 DEF Plan, Progress
  <2>2. Made'
    <3>1. [k \in DOMAIN plans' |-> "none"] \in MethodsUsed'
      BY DEF MethodsUsed, AnyMethod
    <3>2. DOMAIN tiles' = {}
      BY <2>1
    <3> QED
      BY <3>1, <3>2, Zenon
  <2>3. (phase' = "exit" /\ failed' = TRUE) \/ (phase' = "fetch" /\ plans' # <<>>)
    BY <1>4 DEF Plan, Abort
  <2> QED
    BY <2>2, <2>3 DEF Contents, Succeeded
<1>5. CASE \/ ConfigureFails \/ PlanFails \/ FetchFails \/ ArrayTooLarge \/ StageFails \/ WarpFails
           \/ BuildFails \/ WriteFails \/ NameFails \/ ReadBackFails
  <2>1. phase' = "exit" /\ failed' = TRUE /\ plans' = plans /\ tiles' = tiles
    BY <1>5 DEF ConfigureFails, PlanFails, FetchFails, ArrayTooLarge, StageFails, WarpFails,
       BuildFails, WriteFails, NameFails, ReadBackFails, Abort
  <2> QED
    BY <1>3, <2>1 DEF Contents, Succeeded
<1>6. CASE UNCHANGED stackVars
  <2>1. /\ phase' = phase /\ failed' = failed /\ plans' = plans /\ tiles' = tiles
        /\ dst' = dst /\ names' = names /\ array' = array
    BY <1>6 DEF stackVars, result
  <2>2. (Named' <=> Named) /\ Native' = Native /\ (Composed(dst)' <=> Composed(dst))
        /\ (Composed(array.bands)' <=> Composed(array.bands))
    BY <1>1, <2>1, WindowsStay
  <2> QED
    BY <1>2, <1>3, <2>1, <2>2, Zenon DEF Contents, Succeeded
<1>7. CASE Exit
  <2>1. /\ phase = "exit" /\ failed' = failed /\ plans' = plans /\ tiles' = tiles
        /\ phase' = IF failed THEN "aborted" ELSE "returned"
        /\ dst' = dst /\ names' = names /\ array' = array
    BY <1>7 DEF Exit, result
  <2>2. (Named' <=> Named) /\ (Composed(dst)' <=> Composed(dst))
        /\ (Composed(array.bands)' <=> Composed(array.bands))
    BY <1>1, <2>1, WindowsStay
  <2>3. CASE failed
    BY <1>3, <2>1, <2>3 DEF Contents, Succeeded
  <2>4. CASE ~failed
    <3>1. phase' = "returned" /\ Succeeded
      BY <2>1, <2>4 DEF Succeeded
    <3> QED
      BY <1>2, <1>3, <2>1, <2>2, <2>4, <3>1 DEF Contents, Succeeded
  <2> QED
    BY <2>3, <2>4
<1>8. CASE Configure \/ Fetch \/ ReadStaged \/ Stage \/ Staged
  <2>1. plans' = plans /\ tiles' = tiles /\ failed' = failed
    BY <1>8 DEF Configure, Fetch, ReadStaged, Stage, Staged
  <2>2. Native' = Native
    BY <1>1, <2>1, WindowsStay
  <2>3. \/ phase = "config" /\ phase' = "plan"
        \/ phase = "fetch" /\ Native /\ phase' = "native"
        \/ phase \in {"fetch", "native", "stage"} /\ phase' = "stage"
        \/ phase = "stage" /\ phase' = AfterStaging
    BY <1>8 DEF Configure, Fetch, ReadStaged, Stage, Staged
  <2>4. CASE phase = "stage" /\ phase' = AfterStaging
    <3>1. \/ phase' = "assemble" /\ op \in Stacks
          \/ phase' = "read" /\ Native /\ op = "read"
          \/ phase' = "write" /\ op \notin Stacks
      BY <2>4 DEF AfterStaging, Native
    <3> QED
      BY <1>2, <1>3, <2>1, <2>2, <2>4, <3>1 DEF Contents, Succeeded
  <2> QED
    BY <1>2, <1>3, <2>1, <2>2, <2>3, <2>4 DEF Contents, Succeeded
<1>9. CASE BuildVRT
  <2>1. /\ plans' = plans /\ tiles' = tiles /\ phase = "assemble" /\ phase' = "write"
        /\ Len(tiles) = Len(plans)
    BY <1>9 DEF BuildVRT
  <2> QED
    BY <1>3, <2>1 DEF Contents, Succeeded
<1>10. CASE WarpTile
  <2> DEFINE k == Len(tiles) + 1
  <2>1. /\ plans' = plans /\ phase = "assemble" /\ phase' = phase /\ k \in DOMAIN plans
    BY <1>1, <1>10 DEF WarpTile
  <2>2. PICK method \in AnyMethod :
          tiles' = Append(tiles, WindowBands(k, method)) /\ method \in {"none", r[k]}
    <3>1. r[k] \in Methods
      <4>1. k \in Srcs
        BY <1>1, <2>1, PlannedFacts, StackAssumption DEF CallInv, Srcs
      <4> QED
        BY <4>1 DEF CallInv, CallOK
    <3> QED
      BY <1>10, <3>1 DEF WarpTile, NextMethod, AnyMethod
  <2>3. PICK m \in MethodsUsed : \A j \in DOMAIN tiles : tiles[j] = WindowBands(j, m[j])
    BY DEF Contents
  <2>4. PICK M \in MethodsUsed : M[k] = method /\ \A j \in DOMAIN plans : j # k => M[j] = m[j]
    <3>1. m \in [DOMAIN plans -> AnyMethod]
      BY <2>3 DEF MethodsUsed
    <3> HIDE DEF k
    <3>2. [m EXCEPT ![k] = method] \in [DOMAIN plans -> AnyMethod]
      BY <2>1, <2>2, <3>1
    <3>3. /\ [m EXCEPT ![k] = method][k] = method
          /\ \A j \in DOMAIN plans : j # k => [m EXCEPT ![k] = method][j] = m[j]
      BY <2>1, <3>1
    <3>4. op \in Stacks => \A j \in DOMAIN plans : [m EXCEPT ![k] = method][j] \in {"none", r[j]}
      BY <2>2, <2>3, <3>3 DEF MethodsUsed
    <3>5. [m EXCEPT ![k] = method] \in MethodsUsed
      BY <3>2, <3>4 DEF MethodsUsed
    <3> QED
      BY <3>3, <3>5
  <2>5. /\ DOMAIN tiles' = 1 .. k /\ tiles'[k] = WindowBands(k, method)
        /\ \A j \in 1 .. Len(tiles) : tiles'[j] = tiles[j]
    BY <1>1, <2>2 DEF Progress
  <2> HIDE DEF k
  <2>6. \A j \in DOMAIN tiles' : tiles'[j] = WindowBands(j, M[j])
    <3> SUFFICES ASSUME NEW j \in 1 .. k PROVE tiles'[j] = WindowBands(j, M[j])
      BY <2>5
    <3>1. CASE j = k
      BY <2>4, <2>5, <3>1
    <3>2. CASE j # k
      <4>1. j \in 1 .. Len(tiles) /\ j \in DOMAIN plans
        BY <1>1, <2>1, <3>2 DEF k
      <4> QED
        BY <1>1, <2>3, <2>4, <2>5, <3>2, <4>1
    <3> QED
      BY <3>1, <3>2
  <2>7. MethodsUsed' = MethodsUsed /\ \A j : WindowBands(j, M[j])' = WindowBands(j, M[j])
    BY <1>1, <2>1, WindowsStay
  <2>8. Made'
    BY <2>1, <2>4, <2>6, <2>7
  <2>9. op \in Stacks
    BY <2>1 DEF Contents
  <2> QED
    BY <1>2, <2>1, <2>8, <2>9 DEF Contents, Succeeded
<1>11. CASE Write
  <2>1. /\ plans' = plans /\ tiles' = tiles /\ failed' = failed /\ phase = "write" /\ dst' = Output
        /\ names' = names /\ array' = array
        /\ phase' = IF op \in Stacks THEN "name" ELSE IF op = "read" THEN "read" ELSE "exit"
    BY <1>11 DEF Write
  <2>2. Composed(Output)
    <3>1. CASE op \in Stacks
      <4>1. Output = FlattenSeq(tiles) /\ Len(tiles) = Len(plans)
        BY <2>1, <3>1 DEF Output, Contents
      <4> QED
        BY <1>1, <4>1, TilesComposed DEF Contents
    <3>2. CASE op \notin Stacks
      <4>1. PICK method : method = IF CopyPath THEN "none" ELSE r[1]
        OBVIOUS
      <4>2. method \in AnyMethod
        <5>1. 1 \in Srcs
          <6>1. plans # <<>> /\ Len(plans) \in 0 .. NSrc /\ NSrc \in Nat
            BY <2>1, PlannedFacts, StackAssumption DEF CallInv, Contents
          <6> QED
            BY <1>1, <6>1 DEF Srcs
        <5>2. r[1] \in Methods
          BY <5>1 DEF CallInv, CallOK
        <5> QED
          BY <4>1, <5>2 DEF AnyMethod
      <4>3. Output = FlattenSeq([k \in DOMAIN plans |-> WindowBands(k, method)])
        BY <3>2, <4>1 DEF Output
      <4> QED
        BY <3>2, <4>2, <4>3, OneMethod
    <3> QED
      BY <3>1, <3>2
  <2>3. Composed(dst)'
    BY <1>1, <2>1, <2>2, WindowsStay
  <2>4. plans # <<>>
    BY <2>1 DEF Contents
  <2> QED
    BY <1>2, <1>3, <2>1, <2>3, <2>4 DEF Contents, Succeeded
<1>12. CASE Name
  <2>1. /\ plans' = plans /\ tiles' = tiles /\ failed' = failed /\ phase = "name" /\ dst' = dst
        /\ names' = Descriptions /\ phase' = IF op = "stack" THEN "exit" ELSE "read"
        /\ GivenNames => request.labels = Len(Labels)
    BY <1>12 DEF Name
  <2>2. op \in Stacks /\ Composed(dst) /\ plans # <<>>
    BY <2>1 DEF Contents
  <2>3. Composed(dst)' /\ Labels' = Labels
    BY <1>1, <2>1, <2>2, WindowsStay
  <2>4. GivenNames' = GivenNames /\ request' = request
    BY <1>1 DEF GivenNames, call
  <2>5. Named'
    BY <2>1, <2>3, <2>4 DEF Named, Descriptions
  <2> QED
    BY <1>2, <1>3, <2>1, <2>2, <2>3, <2>5 DEF Contents, Succeeded
<1>13. CASE ReadNative
  <2>1. /\ plans' = plans /\ tiles' = tiles /\ phase = "native" /\ phase' = "exit"
        /\ array' = WindowArray /\ WindowArray.bytes <= request.maxbytes
    BY <1>13 DEF ReadNative
  <2>2. Native /\ plans # <<>> /\ request.maxbytes \in Nat
    BY <2>1, StackAssumption DEF Contents, CallInv, CallOK
  <2>4. Composed(array'.bands) /\ array'.bytes \in 1 .. request.maxbytes
    BY <2>1, <2>2, WindowArrayFacts
  <2>5. Composed(array.bands)'
    BY <1>1, <2>1, <2>4, WindowsStay
  <2>6. op = "read"
    BY <2>2 DEF Native
  <2> QED
    BY <1>2, <1>3, <2>1, <2>2, <2>4, <2>5, <2>6 DEF Contents, Succeeded
<1>14. CASE ReadBack
  <2>1. PICK pixels \in OutPixels : Raster(pixels).bytes <= request.maxbytes /\ array' = Raster(pixels)
    BY <1>14 DEF ReadBack
  <2>2. /\ plans' = plans /\ tiles' = tiles /\ phase = "read" /\ phase' = "exit"
        /\ dst' = dst /\ names' = names
    BY <1>14 DEF ReadBack
  <2>3. op \in Reads /\ plans # <<>> /\ request.maxbytes \in Nat /\ pixels \in Nat \ {0}
    BY <2>2, StackAssumption DEF Contents, CallInv, CallOK
  <2>4. Composed(Raster(pixels).bands) /\ Raster(pixels).bytes \in Nat \ {0}
    <3>1. CASE Native
      BY <3>1, WindowArrayFacts DEF Raster
    <3>2. CASE ~Native
      <4>1. Composed(dst)
        BY <2>2, <3>2 DEF Contents
      <4>2. Len(dst) \in Nat \ {0}
        BY <2>3, <4>1, ComposedBands
      <4>3. Len(WindowBands(1, "none")) \in Nat \ {0}
        <5>1. 1 \in DOMAIN plans /\ "none" \in AnyMethod
          BY <1>1, <2>3 DEF AnyMethod
        <5> QED
          BY <5>1, BandsFacts
      <4>4. /\ Raster(pixels).bands = dst
            /\ Raster(pixels).bytes =
                 ArrayBytes(pixels, IF op = "read" THEN Len(WindowBands(1, "none")) ELSE Len(dst))
        BY <3>2 DEF Raster
      <4> QED
        BY <2>3, <4>1, <4>2, <4>3, <4>4, BytesPositive
    <3> QED
      BY <3>1, <3>2
  <2>5. Composed(array'.bands) /\ array'.bytes \in 1 .. request.maxbytes
    BY <2>1, <2>3, <2>4
  <2>6. Composed(array.bands)' /\ (Composed(dst)' <=> Composed(dst)) /\ (Named' <=> Named)
    BY <1>1, <2>2, <2>5, WindowsStay
  <2>7. op = "stack_read" => Composed(dst) /\ Named
    BY <2>2 DEF Contents, Native
  <2> QED
    BY <1>2, <1>3, <2>2, <2>3, <2>5, <2>6, <2>7 DEF Contents, Succeeded
<1> QED
  BY <1>4, <1>5, <1>6, <1>7, <1>8, <1>9, <1>10, <1>11, <1>12, <1>13, <1>14 DEF StackNext

-----------------------------------------------------------------------------
ContentsInv == IInv /\ Contents

LEMMA ContentsInvariant == StackSpec => []ContentsInv
<1>1. StackInit => ContentsInv
  <2> SUFFICES ASSUME StackInit PROVE Contents
    BY IInvInit DEF ContentsInv
  <2>1. plans = <<>> /\ tiles = <<>> /\ phase = "config" /\ DOMAIN tiles = {}
    BY DEF StackInit
  <2>2. [k \in DOMAIN plans |-> "none"] \in MethodsUsed
    BY DEF MethodsUsed, AnyMethod
  <2>3. \E m \in MethodsUsed : \A k \in DOMAIN tiles : tiles[k] = WindowBands(k, m[k])
    BY <2>1, <2>2, Zenon
  <2> QED
    BY <2>1, <2>3 DEF Contents, Succeeded
<1>2. ContentsInv /\ [StackNext]_stackVars => ContentsInv'
  BY CallInvStep, ProgressStep, OptionsStep, FilesStep, TrackedStep, ContentsStep DEF ContentsInv, IInv
<1> QED
  BY <1>1, <1>2, PTL DEF StackSpec

(* No read returns an array larger than the caller allowed, whichever way  *)
(* it was read and whatever raster GDAL made.                              *)
THEOREM StackArrayBounded == StackSpec => []ArrayBounded
<1>1. ContentsInv => ArrayBounded
  BY DEF ContentsInv, Contents, Succeeded, ArrayBounded
<1> QED
  BY <1>1, ContentsInvariant, PTL

(* The source of every band of a composition, of its windows and of its    *)
(* labels.                                                                 *)
LEMMA ComposedLabels ==
  ASSUME CallInv, NEW d, Composed(d)
  PROVE  /\ Labels \in Seq(Srcs \X Nat) /\ Len(Labels) = Len(d)
         /\ \A b \in 1 .. Len(d) : Labels[b][1] = d[b].src
<1>1. PICK m \in [DOMAIN plans -> AnyMethod] : d = FlattenSeq(Windows(m))
  BY DEF Composed, MethodsUsed
<1>2. Len(plans) \in Nat /\ DOMAIN plans = 1 .. Len(plans) /\ \A k \in DOMAIN plans : plans[k].src \in Srcs
  BY PlansFacts
<1> DEFINE n == Len(plans)
           W == Windows(m)
           label(k) == [b \in 1 .. Len(SelectedBands(plans[k].src)) |-> <<plans[k].src, b>>]
           L == [k \in DOMAIN plans |-> label(k)]
           Names == Srcs \X Nat
           p == [v \in Names |-> v[1]]
           q == [v \in Band |-> v.src]
<1>3. \A k \in 1 .. n :
        /\ Len(SelectedBands(plans[k].src)) \in Nat
        /\ label(k) \in Seq(Names) /\ Len(label(k)) = Len(SelectedBands(plans[k].src))
        /\ \A b \in 1 .. Len(SelectedBands(plans[k].src)) : p[label(k)[b]] = plans[k].src
  <2> TAKE k \in 1 .. n
  <2>1. plans[k].src \in Srcs
    BY <1>2
  <2>2. Len(SelectedBands(plans[k].src)) \in Nat
    BY <2>1, SelectedFacts DEF CallInv
  <2>3. \A b \in 1 .. Len(SelectedBands(plans[k].src)) : <<plans[k].src, b>> \in Names
    BY <2>1, <2>2
  <2> QED
    BY <2>2, <2>3
<1>4. \A k \in 1 .. n :
        /\ W[k] \in Seq(Band) /\ Len(W[k]) = Len(SelectedBands(plans[k].src))
        /\ \A b \in 1 .. Len(SelectedBands(plans[k].src)) : q[W[k][b]] = plans[k].src
  <2> TAKE k \in 1 .. n
  <2>1. W[k] = WindowBands(k, m[k]) /\ m[k] \in AnyMethod /\ k \in DOMAIN plans
    BY <1>2 DEF Windows
  <2>2. /\ W[k] \in Seq(Band) /\ Len(W[k]) = Len(SelectedBands(plans[k].src))
        /\ \A b \in 1 .. Len(SelectedBands(plans[k].src)) :
              W[k][b] = [src |-> plans[k].src, band |-> SelectedBands(plans[k].src)[b],
                         nodata |-> plans[k].nodata, r |-> m[k]]
    <3> DEFINE w == m[k]
    <3> HIDE DEF W, label, L, p, q, n, Names, w
    <3>1. w \in AnyMethod /\ k \in DOMAIN plans /\ W[k] = WindowBands(k, w)
      BY <2>1 DEF w
    <3>2. /\ WindowBands(k, w) \in Seq(Band)
          /\ Len(WindowBands(k, w)) = Len(SelectedBands(plans[k].src))
          /\ \A b \in 1 .. Len(SelectedBands(plans[k].src)) :
                WindowBands(k, w)[b] = [src |-> plans[k].src, band |-> SelectedBands(plans[k].src)[b],
                                        nodata |-> plans[k].nodata, r |-> w]
      BY <3>1, BandsFacts
    <3> QED
      BY <3>1, <3>2 DEF w
  <2> HIDE DEF W
  <2>3. \A b \in 1 .. Len(SelectedBands(plans[k].src)) : W[k][b] \in Band /\ W[k][b].src = plans[k].src
    <3> TAKE b \in 1 .. Len(SelectedBands(plans[k].src))
    <3>1. W[k][b] \in Band
      BY <2>2, ElementOfSeq
    <3>2. W[k][b] = [src |-> plans[k].src, band |-> SelectedBands(plans[k].src)[b],
                     nodata |-> plans[k].nodata, r |-> m[k]]
      BY <2>2
    <3> QED
      BY <3>1, <3>2
  <2> QED
    BY <2>2, <2>3
<1>5. /\ L \in Seq(Seq(Names)) /\ Len(L) = n /\ \A k \in 1 .. n : L[k] = label(k)
  <2> HIDE DEF label
  <2> QED
    BY <1>2, <1>3, IsASeq
<1>6. W \in Seq(Seq(Band)) /\ Len(W) = n
  <2>1. W = [k \in 1 .. n |-> W[k]]
    BY <1>2 DEF Windows
  <2> HIDE DEF W
  <2> QED
    BY <1>2, <1>4, <2>1, IsASeq
<1> HIDE DEF label, L, W, p, q, n, Names
<1>7. \A k \in 1 .. n : Same(p, q, L[k], W[k])
  <2> TAKE k \in 1 .. n
  <2>1. L[k] = label(k)
    BY <1>5
  <2>2. Len(L[k]) = Len(SelectedBands(plans[k].src)) /\ Len(W[k]) = Len(SelectedBands(plans[k].src))
    BY <1>3, <1>4, <2>1
  <2>3. \A b \in 1 .. Len(SelectedBands(plans[k].src)) : p[L[k][b]] = q[W[k][b]]
    BY <1>3, <1>4, <2>1
  <2> QED
    BY <2>2, <2>3 DEF Same
<1>8. Len(L) = Len(W) /\ \A k \in 1 .. Len(L) : Same(p, q, L[k], W[k])
  BY <1>5, <1>6, <1>7
<1>9. Same(p, q, FlattenSeq(L), FlattenSeq(W)) /\ FlattenSeq(L) \in Seq(Names) /\ FlattenSeq(W) \in Seq(Band)
  BY <1>5, <1>6, <1>8, FlattenMap
<1>10. Labels = FlattenSeq(L) /\ d = FlattenSeq(W)
  BY <1>1 DEF Labels, L, W, label
<1>11. /\ Len(Labels) = Len(d) /\ \A b \in 1 .. Len(d) : p[Labels[b]] = q[d[b]]
       /\ Labels \in Seq(Names) /\ d \in Seq(Band)
  BY <1>9, <1>10 DEF Same
<1>12. \A b \in 1 .. Len(d) : Labels[b] \in Names /\ d[b] \in Band
  BY <1>11
<1>13. Labels \in Seq(Srcs \X Nat)
  BY <1>11 DEF Names
<1> QED
  BY <1>11, <1>12, <1>13 DEF p, q

(* Every band of a stack is named after the source it was taken from, for  *)
(* any number of sources, dropped or not, with any number of bands; names  *)
(* given by the user are as many as the bands.                             *)
THEOREM StackNamesMatch == StackSpec => []NamesMatch
<1>1. ASSUME ContentsInv PROVE NamesMatch
  <2> SUFFICES ASSUME phase = "returned", op \in Stacks
               PROVE  /\ Len(names) = Len(dst)
                      /\ \A b \in DOMAIN names :
                           IF GivenNames THEN names[b] = <<0, b>> ELSE names[b][1] = dst[b].src
    BY DEF NamesMatch
  <2>1. CallInv /\ Named /\ Composed(dst) /\ plans # <<>>
    BY <1>1 DEF ContentsInv, IInv, Contents, Succeeded
  <2>2. /\ Labels \in Seq(Srcs \X Nat)
        /\ Len(Labels) = Len(dst) /\ \A b \in 1 .. Len(dst) : Labels[b][1] = dst[b].src
    BY <2>1, ComposedLabels
  <2>3. CASE ~GivenNames
    <3>1. names = Labels
      BY <2>1, <2>3 DEF Named, Descriptions
    <3> QED
      BY <2>2, <2>3, <3>1
  <2>4. CASE GivenNames
    <3>1. names = [b \in 1 .. Len(Labels) |-> <<0, b>>]
      BY <2>1, <2>4 DEF Named, Descriptions
    <3>2. Len(Labels) \in Nat
      BY <2>2
    <3>3. Len(names) = Len(Labels) /\ \A b \in DOMAIN names : names[b] = <<0, b>>
      BY <3>1, <3>2
    <3> QED
      BY <2>2, <2>4, <3>3
  <2> QED
    BY <2>3, <2>4
<1> QED
  BY <1>1, ContentsInvariant, PTL

-----------------------------------------------------------------------------
(* The bands of the sources themselves.                                    *)

Own == [src : Srcs, band : Nat \ {0}, nodata : {m.nodata : m \in Metas}]

LEMMA OwnBandsFacts ==
  ASSUME CallOK, NEW i \in Srcs
  PROVE  /\ OwnBands(i) \in Seq(Own) /\ Len(OwnBands(i)) = Len(SelectedBands(i))
         /\ \A b \in 1 .. Len(SelectedBands(i)) :
              OwnBands(i)[b] = [src |-> i, band |-> SelectedBands(i)[b], nodata |-> metas[i].nodata]
<1> DEFINE bands == SelectedBands(i)
<1>1. bands \in Seq(Nat \ {0}) /\ Len(bands) \in Nat \ {0} /\ DOMAIN bands = 1 .. Len(bands)
  BY SelectedFacts
<1>2. metas[i].nodata \in {m.nodata : m \in Metas}
  BY DEF CallOK
<1>3. OwnBands(i) =
        [b \in 1 .. Len(bands) |-> [src |-> i, band |-> bands[b], nodata |-> metas[i].nodata]]
  BY <1>1 DEF OwnBands
<1> HIDE DEF bands
<1>4. \A b \in 1 .. Len(bands) : [src |-> i, band |-> bands[b], nodata |-> metas[i].nodata] \in Own
  BY <1>1, <1>2 DEF Own
<1>5. OwnBands(i) \in Seq(Own) /\ Len(OwnBands(i)) = Len(bands)
  BY <1>1, <1>3, <1>4
<1> QED
  BY <1>1, <1>3, <1>5 DEF bands

Stripped(d) ==
  [b \in DOMAIN d |-> [src |-> d[b].src, band |-> d[b].band, nodata |-> d[b].nodata]]

(* A composition holds the bands of the planned sources, in their order.   *)
LEMMA ComposedOwn ==
  ASSUME CallInv, NEW d, Composed(d)
  PROVE  Stripped(d) = FlattenSeq([k \in DOMAIN plans |-> OwnBands(plans[k].src)])
<1>1. PICK m \in [DOMAIN plans -> AnyMethod] : d = FlattenSeq(Windows(m))
  BY DEF Composed, MethodsUsed
<1>2. /\ Len(plans) \in Nat /\ DOMAIN plans = 1 .. Len(plans)
      /\ \A k \in DOMAIN plans : plans[k].src \in Srcs /\ plans[k].nodata = metas[plans[k].src].nodata
  BY PlansFacts
<1> DEFINE n == Len(plans)
           W == Windows(m)
           O == [k \in DOMAIN plans |-> OwnBands(plans[k].src)]
           bare(v) == [src |-> v.src, band |-> v.band, nodata |-> v.nodata]
           p == [v \in Band |-> bare(v)]
           q == [v \in Own |-> v]
<1>3. ASSUME NEW k \in 1 .. n
      PROVE  /\ W[k] \in Seq(Band) /\ O[k] \in Seq(Own)
             /\ Same(p, q, W[k], O[k])
  <2> DEFINE i == plans[k].src
             c == Len(SelectedBands(i))
  <2>1. W[k] = WindowBands(k, m[k]) /\ O[k] = OwnBands(i) /\ m[k] \in AnyMethod /\ k \in DOMAIN plans
    BY <1>2 DEF Windows
  <2>2. i \in Srcs /\ plans[k].nodata = metas[i].nodata
    BY <1>2, <2>1
  <2> HIDE DEF W, O, p, q, i
  <2>3. /\ W[k] \in Seq(Band) /\ Len(W[k]) = c
        /\ \A b \in 1 .. c :
              W[k][b] = [src |-> i, band |-> SelectedBands(i)[b], nodata |-> plans[k].nodata, r |-> m[k]]
    BY <2>1, BandsFacts DEF i
  <2>4. /\ O[k] \in Seq(Own) /\ Len(O[k]) = c
        /\ \A b \in 1 .. c :
              O[k][b] = [src |-> i, band |-> SelectedBands(i)[b], nodata |-> metas[i].nodata]
    BY <2>1, <2>2, OwnBandsFacts DEF CallInv
  <2> HIDE DEF c
  <2>5. ASSUME NEW b \in 1 .. c PROVE p[W[k][b]] = q[O[k][b]]
    <3>1. W[k][b] \in Band /\ O[k][b] \in Own
      BY <2>3, <2>4, ElementOfSeq
    <3>2. p[W[k][b]] = bare(W[k][b]) /\ q[O[k][b]] = O[k][b]
      BY <3>1 DEF p, q
    <3>3. /\ W[k][b] = [src |-> i, band |-> SelectedBands(i)[b], nodata |-> plans[k].nodata, r |-> m[k]]
          /\ O[k][b] = [src |-> i, band |-> SelectedBands(i)[b], nodata |-> metas[i].nodata]
      BY <2>3, <2>4
    <3>4. /\ W[k][b].src = i /\ W[k][b].band = SelectedBands(i)[b]
          /\ W[k][b].nodata = metas[i].nodata
      BY <2>2, <3>3
    <3>5. bare(W[k][b]) = O[k][b]
      BY <3>3, <3>4, Zenon
    <3> QED
      BY <3>2, <3>5
  <2> QED
    BY <2>3, <2>4, <2>5 DEF Same
<1>4. W \in Seq(Seq(Band)) /\ Len(W) = n /\ O \in Seq(Seq(Own)) /\ Len(O) = n
  <2>1. W = [k \in 1 .. n |-> W[k]] /\ O = [k \in 1 .. n |-> O[k]]
    BY <1>2 DEF Windows
  <2> HIDE DEF W, O, n
  <2>2. n \in Nat /\ DOMAIN plans = 1 .. n
    BY <1>2 DEF n
  <2>3. \A k \in 1 .. n : W[k] \in Seq(Band)
    BY <1>3
  <2>4. \A k \in 1 .. n : O[k] \in Seq(Own)
    BY <1>3
  <2>5. W \in Seq(Seq(Band)) /\ Len(W) = n
    BY <2>1, <2>2, <2>3, IsASeq
  <2>6. O \in Seq(Seq(Own)) /\ Len(O) = n
    BY <2>1, <2>2, <2>4, IsASeq
  <2> QED
    BY <2>5, <2>6
<1> HIDE DEF W, O, p, q, n
<1>5. Same(p, q, FlattenSeq(W), FlattenSeq(O)) /\ FlattenSeq(W) \in Seq(Band) /\ FlattenSeq(O) \in Seq(Own)
  BY <1>3, <1>4, FlattenMap
<1>6. /\ d \in Seq(Band) /\ FlattenSeq(O) \in Seq(Own) /\ Len(d) = Len(FlattenSeq(O))
      /\ \A b \in 1 .. Len(d) : p[d[b]] = q[FlattenSeq(O)[b]]
  BY <1>1, <1>5 DEF Same, W
<1>7. ASSUME NEW b \in 1 .. Len(d) PROVE bare(d[b]) = FlattenSeq(O)[b]
  <2>1. d[b] \in Band /\ FlattenSeq(O)[b] \in Own
    BY <1>6, ElementOfSeq
  <2> QED
    BY <1>6, <2>1 DEF p, q
<1>8. Stripped(d) = [b \in 1 .. Len(d) |-> bare(d[b])]
  BY <1>6 DEF Stripped
<1>9. FlattenSeq(O) = [b \in 1 .. Len(d) |-> FlattenSeq(O)[b]]
  BY <1>6
<1>10. Stripped(d) = FlattenSeq(O)
  BY <1>7, <1>8, <1>9
<1> QED
  BY <1>10 DEF O

(* The k-th plan is that of the k-th source that was kept.                 *)
LEMMA PlanSource ==
  ASSUME CallInv, plans = Surviving
  PROVE  \A k \in 1 .. Cardinality(Kept) : plans[k].src = Nth(Kept, k)
<1>1. NSrc \in Nat /\ Kept \in SUBSET (1 .. NSrc) /\ Srcs = 1 .. NSrc
  BY StackAssumption DEF Kept, Srcs
<1>3. \A k \in 1 .. Cardinality(Kept) : Nth(Kept, k) \in Kept
  BY <1>1, NthInSet
<1>5. ASSUME NEW k \in 1 .. Cardinality(Kept) PROVE plans[k].src = Nth(Kept, k)
  <2> DEFINE i == Nth(Kept, k)
  <2>1. i \in Kept /\ i \in Srcs
    BY <1>1, <1>3
  <2>2. plans[k] = PlanOf(metas, request, i)
    BY DEF Surviving
  <2> HIDE DEF i
  <2>3. /\ GridOK(metas[i].grid) /\ RequestOK(request) /\ i \in Nat \ {0}
        /\ PlanOf(metas, request, i) = PlanFromMeta(i, metas[i], request)
    BY <2>1, OwnPlan DEF CallInv, Srcs
  <2>4. PlanFromMeta(i, metas[i], request) # NoPlan
    BY <2>1, <2>3 DEF Kept
  <2>5. PlanFromMeta(i, metas[i], request).src = i
    BY <2>3, <2>4, PlanHoldsExtent
  <2> QED
    BY <2>2, <2>3, <2>5 DEF i
<1> QED
  BY <1>5

(* And those are the sources with pixels to give.                          *)
LEMMA PlannedOwn ==
  ASSUME CallInv, plans = Surviving
  PROVE  FlattenSeq([k \in DOMAIN plans |-> OwnBands(plans[k].src)])
           = FlattenSeq([i \in Srcs |-> IF Served(i) THEN OwnBands(i) ELSE <<>>])
<1>1. NSrc \in Nat /\ Kept \in SUBSET (1 .. NSrc) /\ Srcs = 1 .. NSrc
  BY StackAssumption DEF Kept, Srcs
<1>2. \A i \in Srcs : i \in Kept <=> Served(i)
  BY OwnPlan DEF Kept, Served, CallInv
<1>3. \A k \in 1 .. Cardinality(Kept) : Nth(Kept, k) \in Kept
  BY <1>1, NthInSet
<1>4. DOMAIN plans = 1 .. Cardinality(Kept)
  BY DEF Surviving
<1>5. \A k \in 1 .. Cardinality(Kept) : plans[k].src = Nth(Kept, k)
  BY PlanSource
<1> DEFINE f == [i \in 1 .. NSrc |-> OwnBands(i)]
<1>6. f \in Seq(Seq(Own)) /\ Len(f) = NSrc
  <2>1. \A i \in 1 .. NSrc : OwnBands(i) \in Seq(Own)
    BY <1>1, OwnBandsFacts DEF CallInv
  <2> QED
    BY <1>1, <2>1, IsASeq
<1>7. FlattenSeq(Taken(f, Kept)) = FlattenSeq(Blanked(f, Kept, NSrc))
  <2> HIDE DEF f
  <2> QED
    BY <1>1, <1>6, FlattenKept
<1>8. [k \in DOMAIN plans |-> OwnBands(plans[k].src)] = Taken(f, Kept)
  <2>1. \A k \in 1 .. Cardinality(Kept) : f[Nth(Kept, k)] = OwnBands(plans[k].src)
    BY <1>1, <1>3, <1>5
  <2> HIDE DEF f
  <2> QED
    BY <1>4, <2>1 DEF Taken
<1>9. Blanked(f, Kept, NSrc) = [i \in Srcs |-> IF Served(i) THEN OwnBands(i) ELSE <<>>]
  BY <1>1, <1>2 DEF Blanked
<1> QED
  BY <1>7, <1>8, <1>9

(* A call that returns delivers exactly the bands of the sources that have *)
(* pixels to give, in order and under their own names and nodata, for any  *)
(* number of sources, whatever grids they share and whichever way it took. *)
THEOREM StackOutputComplete == StackSpec => []OutputComplete
<1>1. ASSUME ContentsInv PROVE OutputComplete
  <2> SUFFICES ASSUME phase = "returned"
               PROVE  Stripped(Delivered)
                        = FlattenSeq([i \in Srcs |-> IF Served(i) THEN OwnBands(i) ELSE <<>>])
    BY Zenon DEF OutputComplete, Stripped
  <2>1. CallInv /\ plans = Surviving /\ Succeeded
    BY <1>1 DEF ContentsInv, IInv, CallInv, Planned, Succeeded
  <2>2. Composed(Delivered)
    BY <1>1, <2>1 DEF ContentsInv, Contents, Delivered
  <2> QED
    BY <2>1, <2>2, ComposedOwn, PlannedOwn
<1> QED
  BY <1>1, ContentsInvariant, PTL

-----------------------------------------------------------------------------
(* If no source was dropped, the k-th plan is the k-th source's.           *)
LEMMA PlansInPlace ==
  ASSUME CallInv, plans = Surviving, Len(plans) = NSrc
  PROVE  \A k \in DOMAIN plans : plans[k].src = k
<1>1. NSrc \in Nat /\ Kept \in SUBSET (1 .. NSrc)
  BY StackAssumption DEF Kept, Srcs
<1>2. Cardinality(Kept) \in Nat
  BY <1>1, RankFacts
<1>3. DOMAIN plans = 1 .. NSrc /\ Cardinality(Kept) = NSrc
  <2>1. DOMAIN plans = 1 .. Cardinality(Kept) /\ DOMAIN plans = 1 .. Len(plans)
    BY PlansFacts DEF Surviving
  <2>2. Len(Surviving) = Cardinality(Kept)
    BY <1>2 DEF Surviving
  <2> QED
    BY <2>1, <2>2
<1>4. Kept = 1 .. NSrc
  <2>1. IsFiniteSet(1 .. NSrc) /\ Cardinality(1 .. NSrc) = NSrc
    BY <1>1, FS_Interval
  <2> QED
    BY <1>1, <1>3, <2>1, FS_Subset
<1>5. ASSUME NEW k \in 1 .. NSrc PROVE Nth(Kept, k) = k
  <2>1. Kept \cap (1 .. k) = 1 .. k
    BY <1>1, <1>4
  <2>2. Cardinality(1 .. k) = k
    BY <1>1, FS_Interval
  <2>3. Rank(Kept, k) = k
    BY <2>1, <2>2 DEF Rank
  <2>4. k \in Kept
    BY <1>4
  <2>5. Nth(Kept, Rank(Kept, k)) = k
    BY <1>1, <2>4, NthOfRank
  <2> QED
    BY <2>3, <2>5
<1> QED
  BY <1>3, <1>5, PlanSource

(* Then a composition holds bands in their own source's method.            *)
LEMMA ComposedMethods ==
  ASSUME CallInv, op \in Stacks, \A k \in DOMAIN plans : plans[k].src = k, NEW d, Composed(d)
  PROVE  \A b \in DOMAIN d : d[b].r \in {"none", r[d[b].src]}
<1>1. PICK m \in MethodsUsed : d = FlattenSeq(Windows(m))
  BY DEF Composed
<1>2. Len(plans) \in Nat /\ DOMAIN plans = 1 .. Len(plans)
  BY PlansFacts
<1>3. m \in [DOMAIN plans -> AnyMethod] /\ \A k \in DOMAIN plans : m[k] \in {"none", r[k]}
  BY DEF MethodsUsed
<1> DEFINE n == Len(plans)
           W == Windows(m)
           p == [v \in Band |-> v.r \in {"none", r[v.src]}]
           q == [v \in Band |-> TRUE]
<1>4. ASSUME NEW k \in 1 .. n PROVE W[k] \in Seq(Band) /\ Same(p, q, W[k], W[k])
  <2>1. k \in DOMAIN plans /\ m[k] \in AnyMethod /\ W[k] = WindowBands(k, m[k]) /\ plans[k].src = k
    BY <1>2, <1>3 DEF Windows
  <2>2. m[k] \in {"none", r[k]}
    BY <1>3, <2>1
  <2> HIDE DEF W, p, q, n
  <2>3. /\ W[k] \in Seq(Band) /\ Len(W[k]) = Len(SelectedBands(k))
        /\ \A b \in 1 .. Len(SelectedBands(k)) :
              W[k][b] = [src |-> k, band |-> SelectedBands(k)[b], nodata |-> plans[k].nodata, r |-> m[k]]
    BY <2>1, BandsFacts
  <2>4. ASSUME NEW b \in 1 .. Len(W[k]) PROVE p[W[k][b]] = q[W[k][b]]
    <3>1. W[k][b] \in Band
      BY <2>3, ElementOfSeq
    <3>2. W[k][b].r = m[k] /\ W[k][b].src = k
      <4>1. b \in 1 .. Len(SelectedBands(k))
        BY <2>3
      <4>2. W[k][b] = [src |-> k, band |-> SelectedBands(k)[b], nodata |-> plans[k].nodata, r |-> m[k]]
        BY <2>3, <4>1, Zenon
      <4> QED
        BY <4>2
    <3>3. W[k][b].r \in {"none", r[W[k][b].src]}
      BY <2>2, <3>2, Zenon
    <3>4. p[W[k][b]] = (W[k][b].r \in {"none", r[W[k][b].src]})
      BY <3>1, Zenon DEF p
    <3>5. q[W[k][b]] = TRUE
      BY <3>1, Zenon DEF q
    <3> QED
      BY <3>3, <3>4, <3>5, Zenon
  <2> QED
    BY <2>3, <2>4 DEF Same
<1>5. W \in Seq(Seq(Band)) /\ Len(W) = n
  <2>1. W = [k \in 1 .. n |-> W[k]]
    BY <1>2 DEF Windows
  <2> HIDE DEF W, p, q, n
  <2>2. n \in Nat /\ \A k \in 1 .. n : W[k] \in Seq(Band)
    BY <1>2, <1>4 DEF n
  <2> QED
    BY <2>1, <2>2, IsASeq
<1> HIDE DEF W, p, q, n
<1>6. FlattenSeq(W) \in Seq(Band) /\ Same(p, q, FlattenSeq(W), FlattenSeq(W))
  BY <1>4, <1>5, FlattenMap
<1>7. d \in Seq(Band) /\ \A b \in 1 .. Len(d) : p[d[b]] = q[d[b]]
  BY <1>1, <1>6 DEF W, Same
<1>8. ASSUME NEW b \in 1 .. Len(d) PROVE d[b].r \in {"none", r[d[b].src]}
  <2>1. d[b] \in Band
    BY <1>7, ElementOfSeq
  <2>2. p[d[b]] = (d[b].r \in {"none", r[d[b].src]}) /\ q[d[b]] = TRUE
    BY <2>1, Zenon DEF p, q
  <2> QED
    BY <1>7, <2>2, Zenon
<1>9. DOMAIN d = 1 .. Len(d)
  BY <1>7
<1> QED
  BY <1>8, <1>9

(* A stack from which no source was dropped warps each with its own        *)
(* method; it is the sources dropped that shift the methods of the rest.   *)
THEOREM StackResamplingKept == StackSpec => [](Len(plans) = NSrc => ResamplingOwn)
<1>1. ASSUME ContentsInv, Len(plans) = NSrc PROVE ResamplingOwn
  <2> SUFFICES ASSUME phase = "returned", op \in Stacks
               PROVE  \A b \in DOMAIN dst : dst[b].r \in {"none", r[dst[b].src]}
    BY DEF ResamplingOwn
  <2>1. CallInv /\ Composed(dst) /\ plans = Surviving
    BY <1>1 DEF ContentsInv, IInv, Contents, Succeeded, CallInv, Planned
  <2> QED
    BY <1>1, <2>1, PlansInPlace, ComposedMethods
<1> QED
  BY <1>1, ContentsInvariant, PTL

=============================================================================
