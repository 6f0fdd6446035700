-------------------------- MODULE MapRender_proofs --------------------------
(***************************************************************************)
(* The operators of MapRender for maps of any size: what is packed comes   *)
(* out again, cell by cell and run by run; every drawn cell is in its      *)
(* place; rooms and their labels, names and colours are what the picture's *)
(* properties in MapView need. The recursive functions are known by their  *)
(* equations, which hold because a function with them exists; what follows *)
(* from the equations for all lengths is shown with a smallest             *)
(* counterexample, or with a set of lengths that has 0 and each next one.  *)
(***************************************************************************)
EXTENDS MapRender, SequenceTheorems, FiniteSetTheorems, WellFoundedInduction, TLAPS

LEMMA MinIs ==
  ASSUME NEW S, S \subseteq Nat, S # {}
  PROVE  Min(S) \in S /\ \A s \in S : Min(S) <= s
<1>1. PICK m \in S : \A s \in S : ~(<<s, m>> \in OpToRel(<, Nat))
  BY NatLessThanWellFounded, WFMin
<1>2. \A s \in S : s \in Nat /\ m \in Nat /\ ~(s < m)
  BY <1>1 DEF OpToRel
<1>3. m \in S /\ \A s \in S : m <= s
  BY <1>2
<1> QED
  BY <1>3 DEF Min

\* A set of numbers that has 0 and, up to n, the next of each.
LEMMA Upwards ==
  ASSUME NEW n \in Nat, NEW T, 0 \in T, \A k \in 1..n : k - 1 \in T => k \in T
  PROVE  0..n \subseteq T
<1> DEFINE Missing == (0..n) \ T
<1> SUFFICES ASSUME Missing # {} PROVE FALSE
  OBVIOUS
<1>1. Min(Missing) \in Missing /\ \A s \in Missing : Min(Missing) <= s
  BY MinIs
<1>2. PICK k \in Missing : \A s \in Missing : k <= s
  BY <1>1
<1>3. k \in 1..n /\ k - 1 \in 0..n /\ k - 1 \notin Missing
  BY <1>2
<1> QED
  BY <1>2, <1>3

\* g goes from a to n by steps, from k - 1 to k with step[k].
Follows(g, V, n, a, step) ==
  /\ g \in [0..n -> V] /\ g[0] = a
  /\ \A k \in 1..n : g[k - 1] \in V /\ g[k] \in V /\ g[k] = step[k][g[k - 1]]

LEMMA Recursion ==
  ASSUME NEW V, NEW n \in Nat, NEW a \in V, NEW step \in [1..n -> [V -> V]]
  PROVE  \E g : Follows(g, V, n, a, step)
<1> DEFINE T == {m \in 0..n : \E g : Follows(g, V, m, a, step)}
<1>1. 0 \in T
  <2>1. Follows([k \in 0..0 |-> a], V, 0, a, step)
    BY DEF Follows
  <2> QED
    BY <2>1
<1>2. ASSUME NEW m \in 1..n, m - 1 \in T
      PROVE  m \in T
  <2>1. PICK g : Follows(g, V, m - 1, a, step)
    BY <1>2
  <2> DEFINE h == [k \in 0..m |-> IF k = m THEN step[m][g[m - 1]] ELSE g[k]]
  <2>2. g[m - 1] \in V /\ step[m][g[m - 1]] \in V
    BY <2>1 DEF Follows
  <2>3. h \in [0..m -> V] /\ h[0] = a /\ h[m] = step[m][g[m - 1]]
    BY <2>1, <2>2 DEF Follows
  <2>4. \A k \in 0..m - 1 : h[k] = g[k]
    OBVIOUS
  <2> HIDE DEF h
  <2>5. ASSUME NEW k \in 1..m
        PROVE  h[k - 1] \in V /\ h[k] \in V /\ h[k] = step[k][h[k - 1]]
    <3>1. h[k - 1] = g[k - 1] /\ h[k - 1] \in V /\ h[k] \in V
      BY <2>3, <2>4
    <3>2. CASE k = m
      BY <2>3, <3>1, <3>2
    <3>3. CASE k # m
      <4>1. k \in 1..m - 1 /\ k \in 0..m - 1
        BY <3>3
      <4>2. h[k] = g[k] /\ g[k] = step[k][g[k - 1]]
        BY <2>1, <2>4, <4>1 DEF Follows
      <4> QED
        BY <3>1, <4>2
    <3> QED
      BY <3>2, <3>3
  <2>6. Follows(h, V, m, a, step)
    BY <2>3, <2>5 DEF Follows
  <2> QED
    BY <2>6
<1>3. 0..n \subseteq T
  <2> HIDE DEF T
  <2> QED
    BY <1>1, <1>2, Upwards
<1>4. n \in T
  BY <1>3
<1> QED
  BY <1>4

\* FlattenSeq, by the places at which its parts begin.
FlatAt(seqs, flat, at) ==
  /\ at \in [0..Len(seqs) -> Nat] /\ at[0] = 0
  /\ \A k \in 1..Len(seqs) : at[k] = at[k - 1] + Len(seqs[k])
  /\ Len(flat) = at[Len(seqs)]
  /\ \A k \in 1..Len(seqs) : \A j \in 1..Len(seqs[k]) :
       at[k - 1] + j \in 1..Len(flat) /\ flat[at[k - 1] + j] = seqs[k][j]

LEMMA Flattened ==
  ASSUME NEW S, NEW seqs \in Seq(Seq(S))
  PROVE  FlattenSeq(seqs) \in Seq(S) /\ \E at : FlatAt(seqs, FlattenSeq(seqs), at)
<1> DEFINE n == Len(seqs)
<1>1. n \in Nat /\ \A k \in 1..n : seqs[k] \in Seq(S)
  BY ElementOfSeq, LenProperties
<1>2. CASE n = 0
  <2>1. FlattenSeq(seqs) = seqs /\ seqs = <<>>
    BY <1>2, EmptySeq DEF FlattenSeq
  <2>2. FlatAt(seqs, FlattenSeq(seqs), [k \in 0..0 |-> 0])
    BY <1>2, <2>1 DEF FlatAt
  <2> QED
    BY <2>1, <2>2, EmptySeq
<1>3. CASE n # 0
  <2> DEFINE V == Seq(S)
             step == [k \in 1..n |-> [v \in V |-> v \o seqs[k]]]
  <2>1. step \in [1..n -> [V -> V]] /\ <<>> \in V
    BY <1>1, ConcatProperties, EmptySeq
  <2>2. \A k \in 1..n : \A v \in V : step[k][v] = v \o seqs[k]
    OBVIOUS
  <2> HIDE DEF step, V
  <2>3. PICK g : Follows(g, V, n, <<>>, step)
    BY <1>1, <2>1, Recursion
  <2>4. \A k \in 1..n : g[k - 1] \in Seq(S) /\ g[k] = g[k - 1] \o seqs[k]
    BY <2>2, <2>3 DEF Follows, V
  <2>5. g[1] = seqs[1]
    <3>1. 1 \in 1..n /\ seqs[1] \in Seq(S)
      BY <1>1, <1>3
    <3>2. g[1] = g[1 - 1] \o seqs[1]
      BY <2>4, <3>1, Zenon
    <3>3. g[0] = <<>> /\ 1 - 1 = 0
      BY <2>3 DEF Follows
    <3> QED
      BY <3>1, <3>2, <3>3, ConcatEmptySeq
  <2>6. g \in [0..n -> Seq(S)] /\ g[0] = <<>>
    BY <2>3 DEF Follows, V
  <2> DEFINE flatten[i \in 1..n] == IF i = 1 THEN seqs[i] ELSE flatten[i - 1] \o seqs[i]
             F(f) == [i \in 1..n |-> IF i = 1 THEN seqs[i] ELSE f[i - 1] \o seqs[i]]
             h == [i \in 1..n |-> g[i]]
  <2>7. h = F(h)
    <3>1. \A i \in 1..n : i # 1 => i - 1 \in 1..n
      OBVIOUS
    <3> QED
      BY <2>4, <2>5, <3>1
  <2>8. flatten = F(flatten)
    <3>1. flatten = CHOOSE f : f = F(f)
      OBVIOUS
    <3> HIDE DEF flatten, F
    <3> QED
      BY <2>7, <3>1
  <2> HIDE DEF h
  <2>9. FlattenSeq(seqs) = flatten[n]
    BY <1>3 DEF FlattenSeq
  <2>10. \A i \in 1..n : flatten[i] = IF i = 1 THEN seqs[i] ELSE flatten[i - 1] \o seqs[i]
    <3> HIDE DEF flatten
    <3> QED
      BY <2>8
  <2> HIDE DEF flatten
  <2>11. flatten[n] = g[n]
    <3> DEFINE T == {k \in 0..n : k # 0 => flatten[k] = g[k]}
    <3>1. ASSUME NEW k \in 1..n, k - 1 \in T
          PROVE  k \in T
      <4>1. CASE k = 1
        BY <2>5, <2>10, <4>1
      <4>2. CASE k # 1
        <5>1. flatten[k - 1] = g[k - 1]
          BY <3>1, <4>2
        <5> HIDE DEF n
        <5>2. flatten[k] = g[k]
          BY <2>4, <2>10, <4>2, <5>1
        <5> QED
          BY <5>2
      <4> QED
        BY <4>1, <4>2
    <3>2. 0 \in T
      BY <1>1
    <3>3. 0..n \subseteq T
      <4> HIDE DEF T
      <4> QED
        BY <1>1, <3>1, <3>2, Upwards
    <3> QED
      BY <1>1, <1>3, <3>3
  <2> DEFINE flat == FlattenSeq(seqs)
             at == [k \in 0..n |-> Len(g[k])]
  <2>12. flat = g[n] /\ flat \in Seq(S)
    BY <1>1, <2>6, <2>9, <2>11
  <2>13. /\ at \in [0..n -> Nat] /\ at[0] = 0 /\ Len(flat) = at[n]
         /\ \A k \in 1..n : at[k] = at[k - 1] + Len(seqs[k])
    <3>1. \A k \in 0..n : Len(g[k]) \in Nat
      BY <2>6, LenProperties
    <3>2. \A k \in 1..n : Len(g[k]) = Len(g[k - 1]) + Len(seqs[k])
      BY <1>1, <2>4, ConcatProperties
    <3>3. Len(g[0]) = 0
      BY <2>6, EmptySeq
    <3>4. \A k \in 1..n : k - 1 \in 0..n /\ k \in 0..n
      OBVIOUS
    <3>5. n \in 0..n /\ 0 \in 0..n
      BY <1>1
    <3> HIDE DEF n, flat
    <3> QED
      BY <2>12, <3>1, <3>2, <3>3, <3>4, <3>5
  <2>14. \A k \in 0..n : at[k] = Len(g[k])
    OBVIOUS
  <2> HIDE DEF at, flat
  <2> DEFINE Placed(m) == \A k \in 1..m : \A j \in 1..Len(seqs[k]) :
                            at[k - 1] + j \in 1..at[m] /\ g[m][at[k - 1] + j] = seqs[k][j]
             T == {m \in 0..n : Placed(m)}
  <2>15. ASSUME NEW m \in 1..n, m - 1 \in T
         PROVE  m \in T
    <3> DEFINE s == g[m - 1]
    <3>1. g[m] = s \o seqs[m] /\ s \in Seq(S) /\ seqs[m] \in Seq(S)
      BY <1>1, <2>4
    <3>2. m - 1 \in 0..n /\ m \in 0..n
      OBVIOUS
    <3>3. Len(s) = at[m - 1] /\ at[m - 1] \in Nat /\ at[m] = at[m - 1] + Len(seqs[m])
      BY <2>13, <2>14, <3>2
    <3> HIDE DEF s
    <3>4. /\ Len(seqs[m]) \in Nat
          /\ \A i \in 1..Len(s) + Len(seqs[m]) :
               g[m][i] = IF i <= Len(s) THEN s[i] ELSE seqs[m][i - Len(s)]
      BY <3>1, ConcatProperties, LenProperties
    <3>5. ASSUME NEW k \in 1..m, NEW j \in 1..Len(seqs[k])
          PROVE  at[k - 1] + j \in 1..at[m] /\ g[m][at[k - 1] + j] = seqs[k][j]
      <4>1. CASE k = m
        <5>1. /\ at[k - 1] + j \in 1..Len(s) + Len(seqs[m])
              /\ ~(at[k - 1] + j <= Len(s)) /\ at[k - 1] + j - Len(s) = j
          BY <3>3, <3>4, <4>1
        <5> QED
          BY <3>3, <3>4, <4>1, <5>1
      <4>2. CASE k # m
        <5>1. k \in 1..m - 1
          BY <4>2
        <5>2. at[k - 1] + j \in 1..at[m - 1] /\ s[at[k - 1] + j] = seqs[k][j]
          BY <2>15, <5>1 DEF s
        <5>3. at[k - 1] + j \in 1..Len(s) + Len(seqs[m]) /\ at[k - 1] + j <= Len(s)
          BY <3>3, <3>4, <5>2
        <5> QED
          BY <3>3, <3>4, <5>2, <5>3
      <4> QED
        BY <4>1, <4>2
    <3> HIDE DEF T
    <3>6. Placed(m)
      BY <3>5
    <3> QED
      BY <3>2, <3>6 DEF T
  <2>16. 0 \in T
    BY <1>1
  <2>17. 0..n \subseteq T
    <3> HIDE DEF T
    <3> QED
      BY <1>1, <2>15, <2>16, Upwards
  <2>18. FlatAt(seqs, flat, at)
    <3>1. n \in T
      <4> HIDE DEF T
      <4> QED
        BY <1>1, <2>17
    <3>2. Placed(n)
      BY <3>1
    <3> QED
      BY <2>12, <2>13, <3>2 DEF FlatAt
  <2> QED
    BY <2>12, <2>18 DEF flat
<1> QED
  BY <1>2, <1>3

\* ByRank, of elements with different ranks.
LEMMA ByRankIs ==
  ASSUME NEW S, IsFiniteSet(S), NEW rank \in [S -> 1..Cardinality(S)],
         \A e, f \in S : rank[e] = rank[f] => e = f
  PROVE  /\ ByRank(rank) \in Seq(S) /\ Len(ByRank(rank)) = Cardinality(S)
         /\ \A k \in 1..Cardinality(S) : ByRank(rank)[k] \in S /\ rank[ByRank(rank)[k]] = k
         /\ \A e \in S : ByRank(rank)[rank[e]] = e
<1> DEFINE n == Cardinality(S)
           s == ByRank(rank)
<1>1. n \in Nat /\ DOMAIN rank = S
  BY FS_CardinalityType
<1>2. \A k \in 1..n : \E e \in S : rank[e] = k
  <2>1. rank \in Injection(S, 1..n)
    BY DEF Injection, IsInjective
  <2>2. IsFiniteSet(1..n) /\ Cardinality(1..n) = n
    BY <1>1, FS_Interval
  <2>3. rank \in Surjection(S, 1..n)
    BY <2>1, <2>2, FS_Injection
  <2> QED
    BY <2>3 DEF Surjection
<1>3. s = [k \in 1..n |-> CHOOSE e \in S : rank[e] = k]
  BY <1>1 DEF ByRank
<1> HIDE DEF n, s
<1>4. \A k \in 1..n : s[k] \in S /\ rank[s[k]] = k
  BY <1>2, <1>3
<1>5. s \in [1..n -> S]
  BY <1>3, <1>4
<1>6. s \in Seq(S) /\ Len(s) = n
  BY <1>1, <1>5
<1>7. \A e \in S : s[rank[e]] = e
  BY <1>4 DEF n
<1> QED
  BY <1>4, <1>6, <1>7 DEF n, s

\* A set of numbers from the smallest on, and no other way.
Rises(a, S) ==
  /\ Len(a) \in Nat /\ DOMAIN a = 1..Len(a) /\ a \in Seq(S)
  /\ \A k \in 1..Len(a) : a[k] \in S
  /\ \A k, l \in 1..Len(a) : k < l => a[k] < a[l]
  /\ \A i \in S : \E k \in 1..Len(a) : a[k] = i

LEMMA AscendingIs ==
  ASSUME NEW S \in SUBSET Nat, IsFiniteSet(S)
  PROVE  Rises(Ascending(S), S) /\ Len(Ascending(S)) = Cardinality(S)
<1> DEFINE n == Cardinality(S)
           UpTo(i) == {j \in S : j <= i}
           rank == [i \in S |-> Cardinality(UpTo(i))]
           a == ByRank(rank)
<1>1. n \in Nat
  BY FS_CardinalityType
<1>2. ASSUME NEW i \in S
      PROVE  IsFiniteSet(UpTo(i)) /\ Cardinality(UpTo(i)) \in 1..n
  <2>1. IsFiniteSet(UpTo(i)) /\ Cardinality(UpTo(i)) <= n
    BY FS_Subset
  <2>2. Cardinality(UpTo(i)) # 0 /\ Cardinality(UpTo(i)) \in Nat
    <3>1. i \in UpTo(i)
      OBVIOUS
    <3> QED
      BY <2>1, <3>1, FS_EmptySet, FS_CardinalityType
  <2> QED
    BY <1>1, <2>1, <2>2
<1>3. ASSUME NEW i \in S, NEW j \in S, i < j
      PROVE  Cardinality(UpTo(i)) < Cardinality(UpTo(j))
  <2>1. UpTo(i) \in SUBSET UpTo(j) /\ UpTo(i) # UpTo(j)
    <3>1. j \in UpTo(j) /\ j \notin UpTo(i)
      BY <1>3
    <3>2. \A k \in S : k <= i => k <= j
      BY <1>3
    <3> QED
      BY <3>1, <3>2
  <2> HIDE DEF UpTo
  <2>2. Cardinality(UpTo(i)) <= Cardinality(UpTo(j)) /\ Cardinality(UpTo(i)) # Cardinality(UpTo(j))
    BY <1>2, <2>1, FS_Subset
  <2> QED
    BY <1>2, <2>2
<1> HIDE DEF UpTo
<1>4. rank \in [S -> 1..n] /\ \A i \in S : rank[i] = Cardinality(UpTo(i))
  BY <1>2
<1> HIDE DEF rank
<1>5. \A i, j \in S : i < j => rank[i] < rank[j]
  BY <1>3, <1>4
<1>6. \A i, j \in S : rank[i] = rank[j] => i = j
  <2> SUFFICES ASSUME NEW i \in S, NEW j \in S, rank[i] = rank[j] PROVE i = j
    OBVIOUS
  <2>1. ~(i < j) /\ ~(j < i)
    BY <1>4, <1>5
  <2> QED
    BY <2>1
<1>7. /\ a \in Seq(S) /\ Len(a) = n
      /\ \A k \in 1..n : a[k] \in S /\ rank[a[k]] = k
      /\ \A e \in S : a[rank[e]] = e
  BY <1>4, <1>6, ByRankIs
<1> HIDE DEF a, n
<1>8. ASSUME NEW k \in 1..n, NEW l \in 1..n, k < l
      PROVE  a[k] < a[l]
  <2>1. PICK i \in S : a[k] = i /\ rank[i] = k
    BY <1>7
  <2>2. PICK j \in S : a[l] = j /\ rank[j] = l
    BY <1>7
  <2>3. ~(j < i) /\ i # j
    BY <1>5, <1>8, <2>1, <2>2
  <2> QED
    BY <2>1, <2>2, <2>3
<1>9. Rises(a, S) /\ Len(a) = n
  BY <1>1, <1>4, <1>7, <1>8, LenProperties DEF Rises
<1> QED
  BY <1>9 DEF a, n, rank, UpTo, Ascending

LEMMA RisesOnce ==
  ASSUME NEW S \in SUBSET Nat, NEW a, NEW b, Rises(a, S), Rises(b, S)
  PROVE  a = b
<1> DEFINE Same(k) == k \in DOMAIN a /\ k \in DOMAIN b /\ a[k] = b[k]
<1>1. ASSUME NEW c, NEW d, Rises(c, S), Rises(d, S), NEW k \in 1..Len(c),
             \A j \in 1..k - 1 : j \in 1..Len(d) /\ c[j] = d[j]
      PROVE  k \in 1..Len(d) /\ d[k] <= c[k]
  <2>1. PICK j \in 1..Len(d) : d[j] = c[k]
    BY <1>1 DEF Rises
  <2>2. ~(j < k)
    <3> SUFFICES ASSUME j < k PROVE FALSE
      OBVIOUS
    <3>1. j \in 1..k - 1 /\ j \in 1..Len(c)
      BY <1>1, <2>1
    <3>2. c[j] = c[k] /\ c[j] < c[k] /\ c[j] \in Nat
      BY <1>1, <2>1, <3>1 DEF Rises
    <3> QED
      BY <3>2
  <2>3. k \in 1..Len(d) /\ d[k] \in Nat /\ d[j] \in Nat
    <3>1. Len(d) \in Nat /\ \A l \in 1..Len(d) : d[l] \in Nat
      BY <1>1 DEF Rises
    <3>2. k \in 1..Len(d)
      BY <2>1, <2>2, <3>1
    <3> QED
      BY <2>1, <3>1, <3>2
  <2>4. k = j \/ d[k] < d[j]
    BY <1>1, <2>1, <2>2, <2>3 DEF Rises
  <2> QED
    BY <2>1, <2>3, <2>4
<1>2. ASSUME NEW c, NEW d, Rises(c, S), Rises(d, S)
      PROVE  \A k \in 1..Len(c) : k \in 1..Len(d) /\ c[k] = d[k]
  <2> DEFINE Bad == {k \in 1..Len(c) : ~(k \in 1..Len(d) /\ c[k] = d[k])}
  <2> SUFFICES ASSUME Bad # {} PROVE FALSE
    OBVIOUS
  <2>1. PICK k \in Bad : \A i \in Bad : k <= i
    <3>1. Bad \subseteq Nat
      OBVIOUS
    <3> HIDE DEF Bad
    <3> QED
      BY <3>1, MinIs
  <2>2. k \in 1..Len(c) /\ \A j \in 1..k - 1 : j \in 1..Len(d) /\ c[j] = d[j]
    BY <1>2, <2>1 DEF Rises
  <2>3. k \in 1..Len(d) /\ d[k] <= c[k]
    BY <1>1, <1>2, <2>2
  <2>4. \A j \in 1..k - 1 : j \in 1..Len(c) /\ d[j] = c[j]
    BY <1>2, <2>2 DEF Rises
  <2>5. c[k] <= d[k]
    BY <1>1, <1>2, <2>3, <2>4
  <2>6. c[k] \in Nat /\ d[k] \in Nat
    BY <1>2, <2>2, <2>3 DEF Rises
  <2> QED
    BY <2>1, <2>3, <2>5, <2>6
<1>3. \A k \in 1..Len(a) : k \in 1..Len(b) /\ a[k] = b[k]
  BY <1>2
<1>4. \A k \in 1..Len(b) : k \in 1..Len(a)
  BY <1>2
<1>5. Len(a) = Len(b)
  <2>1. Len(a) \in Nat /\ Len(b) \in Nat
    BY DEF Rises
  <2>2. Len(a) <= Len(b)
    <3>1. CASE Len(a) = 0
      BY <2>1, <3>1
    <3>2. CASE Len(a) # 0
      <4>1. Len(a) \in 1..Len(a)
        BY <2>1, <3>2
      <4> QED
        BY <1>3, <4>1
    <3> QED
      BY <3>1, <3>2
  <2>3. Len(b) <= Len(a)
    <3>1. CASE Len(b) = 0
      BY <2>1, <3>1
    <3>2. CASE Len(b) # 0
      <4>1. Len(b) \in 1..Len(b)
        BY <2>1, <3>2
      <4> QED
        BY <1>4, <4>1
    <3> QED
      BY <3>1, <3>2
  <2> QED
    BY <2>1, <2>2, <2>3
<1> QED
  BY <1>3, <1>5, SeqEqual DEF Rises

\* The place i of a flattened sequence is the j-th of its part k.
IsPlace(i, seqs, flat, at) ==
  \E k \in 1..Len(seqs) : \E j \in 1..Len(seqs[k]) :
    i = at[k - 1] + j /\ flat[i] = seqs[k][j]

LEMMA Located ==
  ASSUME NEW S, NEW seqs \in Seq(Seq(S)), NEW flat, NEW at, FlatAt(seqs, flat, at),
         NEW i \in 1..Len(flat)
  PROVE  IsPlace(i, seqs, flat, at)
<1> DEFINE n == Len(seqs)
           Far == {k \in 0..n : i <= at[k]}
<1>1. n \in Nat /\ \A k \in 1..n : Len(seqs[k]) \in Nat
  BY ElementOfSeq, LenProperties
<1> HIDE DEF n
<1>2. n \in Far
  BY <1>1 DEF FlatAt, n
<1>3. PICK k \in Far : \A l \in Far : k <= l
  <2>1. Far \subseteq Nat
    OBVIOUS
  <2> HIDE DEF Far
  <2> QED
    BY <1>2, <2>1, MinIs
<1>4. k \in 1..n /\ k - 1 \in 0..n
  <2>1. k # 0
    BY <1>3 DEF FlatAt
  <2> QED
    BY <1>1, <1>3, <2>1
<1>5. ~(i <= at[k - 1])
  <2>1. k - 1 \notin Far
    BY <1>3, <1>4
  <2> QED
    BY <1>4, <2>1
<1>6. at[k - 1] \in Nat /\ at[k] = at[k - 1] + Len(seqs[k]) /\ i <= at[k]
  BY <1>3, <1>4 DEF FlatAt, n
<1>7. i - at[k - 1] \in 1..Len(seqs[k]) /\ i = at[k - 1] + (i - at[k - 1])
  BY <1>1, <1>4, <1>5, <1>6
<1> QED
  BY <1>4, <1>7 DEF FlatAt, n, IsPlace

LEMMA PickIs ==
  ASSUME NEW T, NEW s \in Seq(T), NEW P \in SUBSET (1..Len(s))
  PROVE  LET a == Ascending(P)
         IN  /\ Rises(a, P) /\ Len(a) = Cardinality(P)
             /\ Pick(s, P) \in Seq(T) /\ Len(Pick(s, P)) = Len(a)
             /\ \A k \in 1..Len(a) : a[k] \in P /\ Pick(s, P)[k] = s[a[k]]
<1> DEFINE a == Ascending(P)
<1>1. Rises(a, P) /\ Len(a) = Cardinality(P)
  <2>1. IsFiniteSet(1..Len(s)) /\ Len(s) \in Nat
    BY LenProperties, FS_Interval
  <2> HIDE DEF a
  <2>2. P \in SUBSET Nat
    BY <2>1
  <2>3. IsFiniteSet(P)
    BY <2>1, FS_Subset
  <2> QED
    BY <2>2, <2>3, AscendingIs DEF a
<1>2. Pick(s, P) = [k \in DOMAIN a |-> s[a[k]]]
  BY DEF Pick
<1> HIDE DEF a
<1>3. Pick(s, P) = [k \in 1..Len(a) |-> s[a[k]]] /\ Len(a) \in Nat
  BY <1>1, <1>2 DEF Rises
<1>4. \A k \in 1..Len(a) : a[k] \in P /\ s[a[k]] \in T
  BY <1>1, ElementOfSeq DEF Rises
<1>5. Pick(s, P) \in [1..Len(a) -> T]
  BY <1>3, <1>4
<1> QED
  BY <1>1, <1>3, <1>4, <1>5 DEF a

LEMMA DistinctIs ==
  ASSUME NEW T, NEW s \in Seq(T)
  PROVE  LET d == Distinct(s)
         IN  /\ d \in Seq(T) /\ ToSet(d) = ToSet(s)
             /\ \A k, l \in 1..Len(d) : d[k] = d[l] => k = l
<1> DEFINE P == {i \in DOMAIN s : \A j \in 1..i - 1 : s[j] # s[i]}
           a == Ascending(P)
           d == Distinct(s)
<1>1. DOMAIN s = 1..Len(s) /\ Len(s) \in Nat
  BY LenProperties
<1>2. /\ Rises(a, P) /\ d \in Seq(T) /\ Len(d) = Len(a)
      /\ \A k \in 1..Len(a) : a[k] \in P /\ d[k] = s[a[k]]
  <2>1. P \in SUBSET (1..Len(s))
    BY <1>1
  <2>2. d = Pick(s, P)
    BY DEF Distinct
  <2> HIDE DEF P, d
  <2> QED
    BY <2>1, <2>2, PickIs
<1>3. DOMAIN d = 1..Len(a) /\ Len(a) \in Nat
  BY <1>2, LenProperties
<1> HIDE DEF a, d
<1>4. \A k, l \in 1..Len(a) : d[k] = d[l] => k = l
  <2>1. ASSUME NEW k \in 1..Len(a), NEW l \in 1..Len(a), k < l
        PROVE  d[k] # d[l]
    <3>1. a[k] < a[l] /\ a[k] \in P /\ a[l] \in P /\ d[k] = s[a[k]] /\ d[l] = s[a[l]]
      BY <1>2, <2>1 DEF Rises
    <3>2. a[k] \in 1..a[l] - 1
      BY <1>1, <3>1
    <3> QED
      BY <3>1, <3>2
  <2> SUFFICES ASSUME NEW k \in 1..Len(a), NEW l \in 1..Len(a), d[k] = d[l]
               PROVE  k = l
    OBVIOUS
  <2>2. ~(k < l) /\ ~(l < k)
    BY <2>1
  <2> QED
    BY <2>2
<1>5. ASSUME NEW i \in 1..Len(s)
      PROVE  \E k \in 1..Len(a) : d[k] = s[i]
  <2> DEFINE E == {j \in 1..Len(s) : s[j] = s[i]}
  <2>1. PICK j \in E : \A l \in E : j <= l
    <3>1. E \subseteq Nat /\ i \in E
      BY <1>1
    <3> HIDE DEF E
    <3> QED
      BY <3>1, MinIs
  <2>2. j \in P
    <3>1. \A l \in 1..j - 1 : l \in 1..Len(s) /\ ~(j <= l)
      BY <1>1, <2>1
    <3> QED
      BY <1>1, <2>1, <3>1
  <2>3. PICK k \in 1..Len(a) : a[k] = j
    BY <1>2, <2>2 DEF Rises
  <2> QED
    BY <1>2, <2>1, <2>3
<1>6. ToSet(d) = ToSet(s)
  <2>1. \A k \in 1..Len(a) : \E i \in 1..Len(s) : d[k] = s[i]
    BY <1>1, <1>2
  <2> HIDE DEF P
  <2>2. ToSet(d) = {d[k] : k \in 1..Len(a)} /\ ToSet(s) = {s[i] : i \in 1..Len(s)}
    BY <1>1, <1>3 DEF ToSet
  <2> QED
    BY <1>5, <2>1, <2>2
<1> QED
  BY <1>2, <1>4, <1>6 DEF d

-----------------------------------------------------------------------------
(***************************************************************************)
(* What is packed is unpacked.                                             *)
(***************************************************************************)

\* The runs of a sequence, of its cells as of its codes, are that sequence again
\* (MapParser.js:547, NarwalMapCodec.js packStaticMap and unpackStaticMap).
THEOREM RunsUnrolled ==
  ASSUME NEW T, NEW s \in Seq(T)
  PROVE  Unrolled(Runs(s)) = s
<1> DEFINE P == {i \in DOMAIN s : i = 1 \/ s[i] # s[i - 1]}
           a == Ascending(P)
           m == Len(a)
           n == Len(s)
           Next(k) == IF k = m THEN n + 1 ELSE a[k + 1]
           seqs == [k \in 1..m |-> [j \in 1..Next(k) - a[k] |-> s[a[k]]]]
<1>1. n \in Nat /\ DOMAIN s = 1..n
  BY LenProperties
<1>2. Rises(a, P) /\ m \in Nat
  <2>1. P \in SUBSET (1..n)
    BY <1>1
  <2> HIDE DEF P, a, m, n
  <2>2. Rises(Ascending(P), P)
    BY <2>1, PickIs DEF n
  <2> QED
    BY <2>2 DEF Rises, a, m
<1>3. Unrolled(Runs(s)) = FlattenSeq(seqs)
  <2>1. DOMAIN a = 1..m
    BY <1>2 DEF Rises
  <2>2. RunStarts(s) = a
    BY DEF RunStarts
  <2> HIDE DEF a
  <2>3. Runs(s) = [k \in 1..m |-> <<s[a[k]], Next(k) - a[k]>>]
    BY <2>1, <2>2 DEF Runs, RunsFrom
  <2> HIDE DEF Next, m
  <2>4. [k \in DOMAIN Runs(s) |-> [j \in 1..Runs(s)[k][2] |-> Runs(s)[k][1]]] = seqs
    BY <2>3
  <2> QED
    BY <2>4 DEF Unrolled
<1> HIDE DEF a, m, n, P
<1>4. ASSUME NEW k \in 1..m
      PROVE  /\ a[k] \in 1..n /\ Next(k) \in 1..n + 1 /\ a[k] < Next(k)
             /\ Next(k) - a[k] \in Nat /\ s[a[k]] \in T
  <2>1. a[k] \in 1..n
    BY <1>1, <1>2 DEF Rises, P, m
  <2>2. CASE k = m
    BY <1>1, <2>1, <2>2, ElementOfSeq DEF n
  <2>3. CASE k # m
    <3>1. k + 1 \in 1..m /\ k < k + 1
      BY <1>2, <2>3
    <3>2. a[k + 1] \in 1..n /\ a[k] < a[k + 1]
      BY <1>1, <1>2, <3>1 DEF Rises, P, m
    <3>3. Next(k) = a[k + 1]
      BY <2>3
    <3> HIDE DEF Next
    <3> QED
      BY <1>1, <2>1, <3>2, <3>3, ElementOfSeq DEF n
  <2> QED
    BY <2>2, <2>3
<1>5. n # 0 => m # 0 /\ a[1] = 1
  <2> SUFFICES ASSUME n # 0 PROVE m # 0 /\ a[1] = 1
    OBVIOUS
  <2>1. 1 \in P
    BY <1>1 DEF P
  <2>2. PICK k \in 1..m : a[k] = 1
    BY <1>2, <2>1 DEF Rises, m
  <2>3. 1 \in 1..m /\ m # 0
    BY <1>2, <2>2
  <2>4. a[1] \in 1..n
    BY <1>4, <2>3
  <2>5. 1 = k \/ a[1] < a[k]
    BY <1>2, <2>2, <2>3 DEF Rises, m
  <2> QED
    BY <2>2, <2>3, <2>4, <2>5
<1>6. ASSUME NEW k \in 1..m, NEW i \in a[k]..Next(k) - 1
      PROVE  s[i] = s[a[k]]
  <2> DEFINE Bad == {j \in a[k]..Next(k) - 1 : s[j] # s[a[k]]}
  <2>1. /\ a[k] \in 1..n /\ Next(k) \in 1..n + 1 /\ a[k] < Next(k)
    BY <1>4
  <2> SUFFICES ASSUME Bad # {} PROVE FALSE
    OBVIOUS
  <2>2. PICK j \in Bad : \A l \in Bad : j <= l
    <3>1. Bad \subseteq Nat
      BY <2>1
    <3> HIDE DEF Bad
    <3> QED
      BY <3>1, MinIs
  <2>3. j # a[k]
    BY <2>2
  <2>4. j - 1 \in a[k]..Next(k) - 1 /\ j \in 1..n /\ j < Next(k) /\ a[k] < j
    <3> HIDE DEF Next
    <3> QED
      BY <1>1, <2>1, <2>2, <2>3
  <2>5. s[j] # s[j - 1]
    <3>1. j - 1 \notin Bad
      BY <2>2, <2>4
    <3> QED
      BY <2>2, <2>4, <3>1
  <2>6. j \in P
    BY <1>1, <2>4, <2>5 DEF P
  <2>7. PICK l \in 1..m : a[l] = j
    BY <1>2, <2>6 DEF Rises, m
  <2>8. k < l
    <3>1. l < k => a[l] < a[k]
      BY <1>2, <2>7 DEF Rises, m
    <3> QED
      BY <2>1, <2>4, <2>7, <3>1
  <2>9. k # m /\ k + 1 \in 1..m
    BY <1>2, <2>7, <2>8
  <2>10. k + 1 = l \/ a[k + 1] < a[l]
    <3>1. k + 1 = l \/ k + 1 < l
      BY <1>2, <2>8
    <3>2. \A i1, i2 \in 1..m : i1 < i2 => a[i1] < a[i2]
      BY <1>2 DEF Rises, m
    <3> QED
      BY <2>9, <3>1, <3>2
  <2>11. Next(k) = a[k + 1]
    BY <2>9
  <2> HIDE DEF Next
  <2> QED
    BY <2>1, <2>4, <2>7, <2>10, <2>11
<1>7. /\ seqs \in Seq(Seq(T)) /\ Len(seqs) = m
      /\ \A k \in 1..m : Len(seqs[k]) = Next(k) - a[k]
      /\ \A k \in 1..m : \A j \in 1..Next(k) - a[k] : seqs[k][j] = s[a[k]]
  <2>1. ASSUME NEW k \in 1..m
        PROVE  /\ seqs[k] \in Seq(T) /\ Len(seqs[k]) = Next(k) - a[k]
               /\ \A j \in 1..Next(k) - a[k] : seqs[k][j] = s[a[k]]
    <3>1. Next(k) - a[k] \in Nat /\ s[a[k]] \in T
      BY <1>4
    <3> HIDE DEF Next
    <3>2. seqs[k] = [j \in 1..Next(k) - a[k] |-> s[a[k]]]
      OBVIOUS
    <3> HIDE DEF seqs
    <3>3. seqs[k] \in [1..Next(k) - a[k] -> T]
      BY <3>1, <3>2
    <3> QED
      BY <3>1, <3>2, <3>3
  <2> HIDE DEF Next
  <2>2. seqs \in [1..m -> Seq(T)]
    BY <2>1
  <2> HIDE DEF seqs
  <2> QED
    BY <1>2, <2>1, <2>2
<1> DEFINE flat == FlattenSeq(seqs)
<1> HIDE DEF seqs
<1>8. flat \in Seq(T) /\ \E at : FlatAt(seqs, flat, at)
  BY <1>7, Flattened
<1>9. PICK at : FlatAt(seqs, flat, at)
  BY <1>8
<1> HIDE DEF flat
<1>10. \A k \in 1..m : at[k] = Next(k) - 1 /\ at[k - 1] = a[k] - 1
  <2> DEFINE T1 == {k \in 0..m : IF k = 0 THEN at[k] = 0 ELSE at[k] = Next(k) - 1}
  <2>1. \A k \in 1..m : at[k] = at[k - 1] + (Next(k) - a[k]) /\ at[k - 1] \in Nat
    <3> HIDE DEF Next
    <3>1. \A k \in 1..m : k - 1 \in 0..m
      BY <1>2
    <3> QED
      BY <1>7, <1>9, <3>1 DEF FlatAt
  <2>2. ASSUME NEW k \in 1..m, k - 1 \in T1
        PROVE  at[k - 1] = a[k] - 1
    <3>1. CASE k = 1
      <4>1. n # 0
        BY <1>1, <1>4
      <4> QED
        BY <1>5, <2>2, <3>1, <4>1
    <3>2. CASE k # 1
      <4>1. k - 1 # m /\ k - 1 # 0 /\ (k - 1) + 1 = k
        BY <1>2, <3>2
      <4> QED
        BY <2>2, <4>1
    <3> QED
      BY <3>1, <3>2
  <2>3. ASSUME NEW k \in 1..m, k - 1 \in T1
        PROVE  k \in T1
    <3>1. at[k] = a[k] - 1 + (Next(k) - a[k]) /\ a[k] \in Int /\ Next(k) \in Int
      BY <1>4, <2>1, <2>2, <2>3
    <3> HIDE DEF Next
    <3>2. at[k] = Next(k) - 1 /\ k # 0 /\ k \in 0..m
      BY <3>1
    <3> QED
      BY <3>2
  <2>4. 0 \in T1
    BY <1>2, <1>9 DEF FlatAt
  <2>5. 0..m \subseteq T1
    <3> HIDE DEF T1
    <3> QED
      BY <1>2, <2>3, <2>4, Upwards
  <2>6. ASSUME NEW k \in 1..m
        PROVE  at[k] = Next(k) - 1 /\ at[k - 1] = a[k] - 1
    <3>1. k \in 0..m /\ k - 1 \in 0..m /\ k # 0
      BY <1>2
    <3> HIDE DEF Next
    <3>2. k \in T1 /\ k - 1 \in T1
      BY <2>5, <3>1
    <3>3. at[k] = Next(k) - 1
      BY <3>1, <3>2
    <3> HIDE DEF T1
    <3> QED
      BY <2>2, <3>2, <3>3
  <2> QED
    BY <2>6
<1>11. Len(flat) = n
  <2>1. Len(flat) = at[m]
    BY <1>7, <1>9 DEF FlatAt
  <2>2. CASE m = 0
    <3>1. n = 0
      BY <1>5, <2>2
    <3> QED
      BY <1>9, <2>1, <2>2, <3>1 DEF FlatAt
  <2>3. CASE m # 0
    <3>1. m \in 1..m
      BY <1>2, <2>3
    <3>2. at[m] = Next(m) - 1 /\ Next(m) = n + 1
      BY <1>10, <3>1
    <3> QED
      BY <1>1, <2>1, <3>2
  <2> QED
    BY <2>2, <2>3
<1>12. ASSUME NEW i \in 1..n
       PROVE  flat[i] = s[i]
  <2>1. PICK k \in 1..m : \E j \in 1..Len(seqs[k]) :
          i = at[k - 1] + j /\ flat[i] = seqs[k][j]
    <3>1. IsPlace(i, seqs, flat, at)
      BY <1>7, <1>9, <1>11, Located
    <3> QED
      BY <1>7, <3>1 DEF IsPlace
  <2>0. PICK j \in 1..Len(seqs[k]) : i = at[k - 1] + j /\ flat[i] = seqs[k][j]
    BY <2>1
  <2>2. at[k - 1] = a[k] - 1 /\ Len(seqs[k]) = Next(k) - a[k] /\ seqs[k][j] = s[a[k]]
    BY <1>7, <1>10, <2>0
  <2>3. a[k] \in Int /\ Next(k) \in Int
    BY <1>4
  <2>4. i \in a[k]..Next(k) - 1
    <3> HIDE DEF Next
    <3> QED
      BY <2>0, <2>2, <2>3
  <2> QED
    BY <1>6, <2>0, <2>2, <2>4
<1>13. flat = s
  BY <1>8, <1>11, <1>12, SeqEqual DEF n
<1> QED
  BY <1>3, <1>13 DEF flat

\* Numbers of up to two and up to three times seven bits.
TwoBytes == {v \in Nat : v < 16384}
ThreeBytes == {v \in Nat : v < 2097152}

LEMMA Sevens ==
  /\ \A v \in CellValues : v \in Nat /\ v \div 128 \in ThreeBytes
  /\ \A v \in ThreeBytes : v \in CellValues /\ v \div 128 \in TwoBytes
  /\ \A v \in TwoBytes : v \in ThreeBytes /\ v \div 128 \in 0..127
  /\ \A v \in Nat : v \div 128 \in Nat /\ v % 128 \in 0..127
                    /\ v = 128 * (v \div 128) + (v % 128)
<1>1. \A v \in Nat : v \div 128 \in Nat /\ v % 128 \in 0..127
                     /\ v = 128 * (v \div 128) + (v % 128)
  BY SMT
<1>2. \A v : v \in CellValues <=> v \in Nat /\ v < 16777216
  <2>1. \A v : v \in CellValues <=> v \in Nat /\ v <= MaxCell
    BY SMT DEF CellValues
  <2>2. \A v \in Nat : v <= MaxCell <=> v < 16777216
    BY SMT DEF MaxCell
  <2> QED
    BY <2>1, <2>2, SMT
<1>3. \A v \in CellValues : v \in Nat /\ v \div 128 \in ThreeBytes
  <2>1. \A v \in Nat : v < 16777216 => v \div 128 < 2097152
    BY SMT
  <2> QED
    BY <1>1, <1>2, <2>1, SMT DEF ThreeBytes
<1>4. \A v \in ThreeBytes : v \in CellValues /\ v \div 128 \in TwoBytes
  <2>1. \A v \in Nat : v < 2097152 => v < 16777216 /\ v \div 128 < 16384
    BY SMT
  <2> QED
    BY <1>1, <1>2, <2>1, SMT DEF ThreeBytes, TwoBytes
<1>5. \A v \in TwoBytes : v \in ThreeBytes /\ v \div 128 \in 0..127
  <2>1. \A v \in Nat : v < 16384 => v < 2097152 /\ v \div 128 < 128
    BY SMT
  <2> QED
    BY <1>1, <2>1, SMT DEF ThreeBytes, TwoBytes
<1> QED
  BY <1>1, <1>3, <1>4, <1>5

LEMMA VarintIs ==
  /\ \A v \in CellValues : v < 128 => Varint[v] = <<v>>
  /\ \A v \in CellValues : ~(v < 128) =>
       Varint[v] = <<128 + (v % 128)>> \o Varint[v \div 128]
<1> DEFINE Long(v, bytes) == <<128 + (v % 128)>> \o bytes
           F(f) == [v \in CellValues |-> IF v < 128 THEN <<v>> ELSE Long(v, f[v \div 128])]
           One == [v \in CellValues |-> <<v>>]
           Two == F(One)
           Three == F(Two)
           Four == F(Three)
<1> HIDE DEF Long
<1>1. \A f : \A v \in CellValues : v < 128 => F(f)[v] = <<v>>
  OBVIOUS
<1>2. \A f : \A v \in CellValues : ~(v < 128) => F(f)[v] = Long(v, f[v \div 128])
  OBVIOUS
<1>3. \A v \in CellValues : One[v] = <<v>>
  OBVIOUS
<1> HIDE DEF F, One, Two, Three, Four
<1>4. \A v \in TwoBytes : Three[v] = Two[v]
  <2> TAKE v \in TwoBytes
  <2>1. v \in CellValues /\ v \div 128 \in CellValues /\ v \div 128 \in 0..127
    BY Sevens
  <2>2. CASE v < 128
    BY <1>1, <2>1, <2>2 DEF Two, Three
  <2>3. CASE ~(v < 128)
    <3>1. Three[v] = Long(v, Two[v \div 128]) /\ Two[v] = Long(v, One[v \div 128])
      BY <1>2, <2>1, <2>3 DEF Two, Three
    <3>2. v \div 128 < 128
      BY <2>1
    <3>3. Two[v \div 128] = One[v \div 128]
      BY <1>1, <1>3, <2>1, <3>2 DEF Two
    <3> QED
      BY <3>1, <3>3
  <2> QED
    BY <2>2, <2>3
<1>5. \A v \in ThreeBytes : Four[v] = Three[v]
  <2> TAKE v \in ThreeBytes
  <2>1. v \in CellValues /\ v \div 128 \in TwoBytes
    BY Sevens
  <2>2. CASE v < 128
    BY <1>1, <2>1, <2>2 DEF Three, Four
  <2>3. CASE ~(v < 128)
    <3>1. Four[v] = Long(v, Three[v \div 128]) /\ Three[v] = Long(v, Two[v \div 128])
      BY <1>2, <2>1, <2>3 DEF Three, Four
    <3> QED
      BY <1>4, <2>1, <3>1
  <2> QED
    BY <2>2, <2>3
<1>6. \A v \in CellValues : Four[v] = F(Four)[v]
  <2> TAKE v \in CellValues
  <2>1. v \div 128 \in ThreeBytes
    BY Sevens
  <2>2. CASE v < 128
    BY <1>1, <2>2 DEF Four
  <2>3. CASE ~(v < 128)
    <3>1. Four[v] = Long(v, Three[v \div 128]) /\ F(Four)[v] = Long(v, Four[v \div 128])
      BY <1>2, <2>3 DEF Four
    <3> QED
      BY <1>5, <2>1, <3>1
  <2> QED
    BY <2>2, <2>3
<1>7. Four = F(Four)
  <2> DEFINE G == F(Four)
  <2>1. G = [v \in CellValues |-> G[v]]
    BY DEF F
  <2>2. Four = [v \in CellValues |-> Four[v]]
    BY DEF Four, F
  <2>3. \A v \in CellValues : Four[v] = G[v]
    BY <1>6
  <2> HIDE DEF G
  <2> QED
    BY <2>1, <2>2, <2>3 DEF G
<1>8. Varint = F(Varint)
  <2>1. Varint = CHOOSE f : f = F(f)
    BY DEF Varint, F, Long
  <2> QED
    BY <1>7, <2>1
<1>9. \A v \in CellValues : Long(v, Varint[v \div 128]) =
        <<128 + (v % 128)>> \o Varint[v \div 128]
  BY DEF Long
<1> QED
  BY <1>1, <1>2, <1>8, <1>9

\* What readVarint computes from its last byte back to its first.
Horner(f, bytes, pos, end) ==
  \A i \in pos..end : f[i] = (bytes[i] % 128) + (IF i = end THEN 0 ELSE 128 * f[i + 1])

LEMMA VarintHorner ==
  ASSUME NEW bytes \in Seq(Nat), NEW pos \in 1..Len(bytes), NEW end \in pos..Len(bytes),
         end = VarintEnd(bytes, pos)
  PROVE  \E f : f[pos] = VarintValue(bytes, pos) /\ Horner(f, bytes, pos, end)
<1> DEFINE F(f) == [i \in pos..end |->
                      (bytes[i] % 128) + (IF i = end THEN 0 ELSE 128 * f[i + 1])]
           from[i \in pos..end] ==
             (bytes[i] % 128) + (IF i = end THEN 0 ELSE 128 * from[i + 1])
           n == end - pos
           step == [k \in 1..n |-> [v \in Int |-> (bytes[end - k] % 128) + 128 * v]]
           a == (bytes[end] % 128) + 0
<1>1. /\ n \in Nat /\ Len(bytes) \in Nat /\ pos \in Nat /\ end \in Nat /\ pos <= end
      /\ \A i \in pos..end : bytes[i] \in Nat /\ bytes[i] % 128 \in Int
  <2>1. \A i \in 1..Len(bytes) : bytes[i] \in Nat
    BY ElementOfSeq
  <2>2. Len(bytes) \in Nat
    BY LenProperties
  <2> HIDE DEF from, step
  <2> QED
    BY <2>1, <2>2
<1> HIDE DEF from, a, n
<1>2. \A k \in 1..n : end - k \in pos..end
  BY <1>1 DEF n
<1>3. step \in [1..n -> [Int -> Int]] /\ a \in Int
  <2>1. \A k \in 1..n : bytes[end - k] % 128 \in Int
    BY <1>1, <1>2
  <2>2. \A k \in 1..n : \A v \in Int : (bytes[end - k] % 128) + 128 * v \in Int
    BY <2>1
  <2>3. end \in pos..end
    BY <1>1
  <2>4. a \in Int
    BY <1>1, <2>3 DEF a
  <2> QED
    BY <2>2, <2>4
<1>4. \A k \in 1..n : \A v \in Int : step[k][v] = (bytes[end - k] % 128) + 128 * v
  OBVIOUS
<1> HIDE DEF step
<1>5. PICK g : Follows(g, Int, n, a, step)
  BY <1>1, <1>3, Recursion
<1> DEFINE h == [i \in pos..end |-> g[end - i]]
<1>6. h = F(h)
  <2>1. \A i \in pos..end : i # end =>
          /\ h[i] = (bytes[i] % 128) + 128 * h[i + 1]
    <3> TAKE i \in pos..end
    <3> HAVE i # end
    <3>1. end - i \in 1..n /\ end - (end - i) = i /\ (end - i) - 1 = end - (i + 1)
          /\ i + 1 \in pos..end
      <4>1. i \in Nat /\ end \in Nat /\ pos \in Nat /\ pos <= i /\ i < end
        BY <1>1
      <4>2. \A x, y, z \in Nat : z <= x /\ x < y =>
              /\ y - x \in 1..y - z /\ y - (y - x) = x /\ (y - x) - 1 = y - (x + 1)
              /\ x + 1 \in z..y
        OBVIOUS
      <4> QED
        BY <4>1, <4>2 DEF n
    <3>2. h[i] = g[end - i] /\ h[i + 1] = g[end - (i + 1)]
      BY <3>1
    <3> DEFINE k == end - i
    <3>3. g[k] = step[k][g[k - 1]] /\ g[k - 1] \in Int
      BY <1>5, <3>1 DEF Follows
    <3>4. g[k] = (bytes[end - k] % 128) + 128 * g[k - 1]
      BY <1>4, <3>1, <3>3
    <3> QED
      BY <3>1, <3>2, <3>4
  <2>2. h[end] = (bytes[end] % 128) + 0
    <3>1. end \in pos..end /\ end - end = 0
      BY <1>1
    <3> QED
      BY <1>5, <3>1 DEF Follows, a
  <2> DEFINE G == F(h)
  <2>3. \A i \in pos..end :
          G[i] = (bytes[i] % 128) + (IF i = end THEN 0 ELSE 128 * h[i + 1])
    <3> HIDE DEF h
    <3> QED
      OBVIOUS
  <2>4. h = [i \in pos..end |-> h[i]] /\ G = [i \in pos..end |-> G[i]]
    OBVIOUS
  <2> HIDE DEF h, G
  <2>5. \A i \in pos..end : h[i] = G[i]
    BY <2>1, <2>2, <2>3
  <2> QED
    BY <2>4, <2>5 DEF G
<1> HIDE DEF h
<1>7. from = F(from)
  <2>1. from = CHOOSE f : f = F(f)
    BY DEF from
  <2> HIDE DEF F
  <2> QED
    BY <1>6, <2>1
<1>8. Horner(from, bytes, pos, end)
  BY <1>7 DEF Horner
<1>9. VarintValue(bytes, pos) = from[pos]
  BY DEF VarintValue, from
<1> QED
  BY <1>8, <1>9

\* The bytes b stand for v, wherever they are read.
Reads(b, v) ==
  /\ b \in Seq(Nat) /\ Len(b) \in Nat \ {0}
  /\ b[Len(b)] < 128 /\ \A j \in 1..Len(b) - 1 : ~(b[j] < 128)
  /\ \A f, bytes : \A pos, end \in Nat :
       /\ end = pos + Len(b) - 1 /\ Horner(f, bytes, pos, end)
       /\ \A j \in 1..Len(b) : bytes[pos + j - 1] = b[j]
       => f[pos] = v

LEMMA ReadsShort ==
  ASSUME NEW v \in Nat, v < 128
  PROVE  Reads(<<v>>, v)
<1> DEFINE b == <<v>>
<1>1. b \in Seq(Nat) /\ Len(b) = 1 /\ b[1] = v
  OBVIOUS
<1> HIDE DEF b
<1>2. ASSUME NEW f, NEW bytes, NEW pos \in Nat, NEW end \in Nat,
             end = pos + Len(b) - 1, Horner(f, bytes, pos, end),
             \A j \in 1..Len(b) : bytes[pos + j - 1] = b[j]
      PROVE  f[pos] = v
  <2>1. end = pos /\ bytes[pos] = v
    <3>1. bytes[pos + 1 - 1] = v /\ pos + 1 - 1 = pos
      BY <1>1, <1>2
    <3> QED
      BY <1>1, <1>2, <3>1
  <2>2. f[pos] = (v % 128) + 0
    BY <1>2, <2>1 DEF Horner
  <2> QED
    BY <2>2
<1> QED
  BY <1>1, <1>2 DEF Reads, b

LEMMA ReadsLong ==
  ASSUME NEW v \in Nat, NEW b, Reads(b, v \div 128)
  PROVE  Reads(<<128 + (v % 128)>> \o b, v)
<1> DEFINE w == v \div 128
           d == v % 128
           c == <<128 + d>> \o b
           n == Len(b)
<1>1. w \in Nat /\ d \in 0..127 /\ v = 128 * w + d /\ (128 + d) % 128 = d
  <2>1. \A x \in 0..127 : (128 + x) % 128 = x
    BY SMT
  <2> QED
    BY <2>1, Sevens
<1> HIDE DEF w, d
<1>2. b \in Seq(Nat) /\ n \in Nat \ {0}
  BY DEF Reads
<1>3. /\ c \in Seq(Nat) /\ Len(c) = n + 1 /\ c[1] = 128 + d
      /\ \A j \in 1..n : c[j + 1] = b[j]
  <2>1. <<128 + d>> \in Seq(Nat) /\ Len(<<128 + d>>) = 1 /\ <<128 + d>>[1] = 128 + d
    BY <1>1
  <2>2. /\ c \in Seq(Nat) /\ Len(c) = 1 + n
        /\ \A i \in 1..1 + n : c[i] = IF i <= 1 THEN <<128 + d>>[i] ELSE b[i - 1]
    BY <1>2, <2>1, ConcatProperties
  <2> HIDE DEF c, n
  <2>3. c[1] = 128 + d
    BY <1>2, <2>1, <2>2
  <2>4. \A j \in 1..n : c[j + 1] = b[j]
    <3> TAKE j \in 1..n
    <3>1. j + 1 \in 1..1 + n /\ ~(j + 1 <= 1) /\ (j + 1) - 1 = j
      BY <1>2
    <3> QED
      BY <2>2, <3>1
  <2> QED
    BY <1>2, <2>2, <2>3, <2>4
<1> HIDE DEF c
<1>4. c[Len(c)] < 128
  <2>1. c[n + 1] = b[n] /\ b[n] < 128
    BY <1>2, <1>3 DEF Reads
  <2> QED
    BY <1>3, <2>1
<1>5. ASSUME NEW j \in 1..Len(c) - 1
      PROVE  ~(c[j] < 128)
  <2>1. CASE j = 1
    BY <1>1, <1>3, <2>1
  <2>2. CASE j # 1
    <3>1. j - 1 \in 1..n /\ j - 1 \in 1..n - 1 /\ (j - 1) + 1 = j
      BY <1>2, <1>3, <2>2
    <3>2. c[j] = b[j - 1]
      BY <1>3, <3>1
    <3> QED
      BY <3>1, <3>2 DEF Reads
  <2> QED
    BY <2>1, <2>2
<1>6. ASSUME NEW f, NEW bytes, NEW pos \in Nat, NEW end \in Nat,
             end = pos + Len(c) - 1, Horner(f, bytes, pos, end),
             \A j \in 1..Len(c) : bytes[pos + j - 1] = c[j]
      PROVE  f[pos] = v
  <2>1. end = pos + n /\ end # pos /\ pos \in pos..end /\ pos + 1 \in Nat
    BY <1>2, <1>3, <1>6
  <2>2. f[pos] = (bytes[pos] % 128) + 128 * f[pos + 1]
    BY <1>6, <2>1 DEF Horner
  <2>3. bytes[pos] = 128 + d
    <3>1. 1 \in 1..Len(c) /\ pos + 1 - 1 = pos
      BY <1>2, <1>3
    <3>2. bytes[pos + 1 - 1] = c[1]
      BY <1>6, <3>1
    <3> QED
      BY <1>3, <3>1, <3>2
  <2>4. Horner(f, bytes, pos + 1, end)
    <3>1. \A i \in pos + 1..end : i \in pos..end
      BY <2>1
    <3> QED
      BY <1>6, <3>1 DEF Horner
  <2>5. \A j \in 1..n : bytes[(pos + 1) + j - 1] = b[j]
    <3> TAKE j \in 1..n
    <3>1. j + 1 \in 1..Len(c) /\ pos + (j + 1) - 1 = (pos + 1) + j - 1
      BY <1>2, <1>3
    <3>2. bytes[pos + (j + 1) - 1] = c[j + 1]
      BY <1>6, <3>1
    <3> QED
      BY <1>3, <3>1, <3>2
  <2>6. f[pos + 1] = w
    <3>1. end = (pos + 1) + n - 1
      BY <1>2, <2>1
    <3>2. \A p, e \in Nat :
            /\ e = p + Len(b) - 1 /\ Horner(f, bytes, p, e)
            /\ \A j \in 1..Len(b) : bytes[p + j - 1] = b[j]
            => f[p] = w
      BY Zenon DEF Reads, w
    <3> QED
      BY <2>1, <2>4, <2>5, <3>1, <3>2
  <2> QED
    BY <1>1, <2>2, <2>3, <2>6
<1> HIDE DEF n
<1>7. Len(c) \in Nat \ {0}
  BY <1>2, <1>3
<1>8. Reads(c, v)
  BY <1>3, <1>4, <1>5, <1>6, <1>7 DEF Reads
<1> QED
  BY <1>8 DEF c, d

LEMMA VarintReads ==
  ASSUME NEW v \in CellValues
  PROVE  Reads(Varint[v], v)
<1>1. \A u \in 0..127 : u \in CellValues => Reads(Varint[u], u)
  <2> TAKE u \in 0..127
  <2>1. u \in Nat /\ u < 128
    OBVIOUS
  <2>2. Reads(<<u>>, u)
    BY <2>1, ReadsShort
  <2> QED
    BY <2>1, <2>2, VarintIs
<1>2. ASSUME NEW u \in CellValues, u \in Nat, u \div 128 \in CellValues,
             Reads(Varint[u \div 128], u \div 128)
      PROVE  Reads(Varint[u], u)
  <2>1. CASE u < 128
    BY <1>2, <2>1, VarintIs, ReadsShort
  <2>2. CASE ~(u < 128)
    BY <1>2, <2>2, VarintIs, ReadsLong
  <2> QED
    BY <2>1, <2>2
<1>3. \A u \in TwoBytes : Reads(Varint[u], u)
  BY <1>1, <1>2, Sevens
<1>4. \A u \in ThreeBytes : Reads(Varint[u], u)
  BY <1>2, <1>3, Sevens
<1> QED
  BY <1>2, <1>4, Sevens

\* The parts of a flattened sequence begin one after another.
LEMMA PartsRise ==
  ASSUME NEW S, NEW seqs \in Seq(Seq(S)), NEW flat, NEW at, FlatAt(seqs, flat, at),
         NEW k \in 0..Len(seqs), NEW l \in k..Len(seqs)
  PROVE  at[k] <= at[l]
<1> DEFINE n == Len(seqs)
           T == {m \in 0..n - k : at[k] <= at[k + m]}
<1>1. n \in Nat /\ k \in Nat /\ \A i \in 1..n : Len(seqs[i]) \in Nat
  BY ElementOfSeq, LenProperties
<1>2. \A i \in 0..n : at[i] \in Nat
  BY DEF FlatAt
<1>3. \A i \in 1..n : at[i] = at[i - 1] + Len(seqs[i])
  BY DEF FlatAt
<1> HIDE DEF n
<1>4. 0 \in T
  BY <1>1, <1>2 DEF n
<1>5. ASSUME NEW m \in 1..n - k, m - 1 \in T
      PROVE  m \in T
  <2>1. k + m \in 1..n /\ k + m \in 0..n /\ k + (m - 1) \in 0..n /\ k + (m - 1) = (k + m) - 1
    BY <1>1
  <2>2. at[k + m] = at[(k + m) - 1] + Len(seqs[k + m]) /\ Len(seqs[k + m]) \in Nat
    BY <1>1, <1>3, <2>1
  <2>3. at[k] <= at[(k + m) - 1] /\ at[(k + m) - 1] \in Nat /\ at[k] \in Nat
    BY <1>1, <1>2, <1>5, <2>1 DEF n
  <2>4. at[k] <= at[k + m]
    BY <2>2, <2>3
  <2> QED
    BY <2>4
<1>6. 0..n - k \subseteq T
  <2>1. n - k \in Nat
    BY <1>1 DEF n
  <2> HIDE DEF T
  <2> QED
    BY <1>4, <1>5, <2>1, Upwards
<1>7. l - k \in 0..n - k /\ k + (l - k) = l
  BY <1>1 DEF n
<1>8. l - k \in T
  BY <1>6, <1>7
<1> QED
  BY <1>7, <1>8

\* The cells that are packed in varints are the cells that are unpacked, for any
\* number of cells of 24 bits (NarwalMapCodec.js packedVarints and decodeGrid).
THEOREM WireUnpacked ==
  ASSUME NEW grid \in Seq(CellValues)
  PROVE  /\ Unpacked(Wire(grid)) = grid
         /\ Wire(grid) = <<>> <=> grid = <<>>
<1> DEFINE n == Len(grid)
           seqs == [i \in DOMAIN grid |-> Varint[grid[i]]]
           flat == Wire(grid)
           starts == VarintStarts(flat)
<1>1. n \in Nat /\ DOMAIN grid = 1..n /\ \A k \in 1..n : grid[k] \in CellValues
  BY LenProperties, ElementOfSeq
<1>2. /\ seqs \in Seq(Seq(Nat)) /\ Len(seqs) = n
      /\ \A k \in 1..n : Reads(seqs[k], grid[k]) /\ seqs[k] \in Seq(Nat)
                         /\ Len(seqs[k]) \in Nat \ {0}
  <2>1. seqs = [k \in 1..n |-> Varint[grid[k]]]
    BY <1>1
  <2>2. \A k \in 1..n : seqs[k] = Varint[grid[k]]
    BY <1>1
  <2> HIDE DEF seqs
  <2>3. \A k \in 1..n : Reads(seqs[k], grid[k])
    BY <1>1, <2>2, VarintReads
  <2>4. \A k \in 1..n : seqs[k] \in Seq(Nat) /\ Len(seqs[k]) \in Nat \ {0}
    BY <2>3 DEF Reads
  <2>5. seqs \in [1..n -> Seq(Nat)]
    BY <2>1, <2>2, <2>4
  <2> HIDE DEF n
  <2> QED
    BY <1>1, <2>3, <2>4, <2>5
<1>3. flat = FlattenSeq(seqs)
  BY DEF Wire
<1> HIDE DEF seqs, flat, n
<1>4. flat \in Seq(Nat) /\ \E at : FlatAt(seqs, flat, at)
  BY <1>2, <1>3, Flattened
<1>5. PICK at : FlatAt(seqs, flat, at)
  BY <1>4
<1>6. /\ at \in [0..n -> Nat] /\ at[0] = 0 /\ Len(flat) = at[n]
      /\ Len(flat) \in Nat /\ DOMAIN flat = 1..Len(flat)
      /\ \A i \in 1..Len(flat) : flat[i] \in Nat
  BY <1>2, <1>4, <1>5, LenProperties, ElementOfSeq DEF FlatAt
<1>7. \A k \in 1..n : /\ at[k - 1] \in Nat /\ at[k] \in Nat /\ at[k] = at[k - 1] + Len(seqs[k])
                      /\ at[k] <= Len(flat) /\ Len(seqs[k]) \in Nat \ {0}
  <2> TAKE k \in 1..n
  <2>1. k - 1 \in 0..n /\ k \in 0..n /\ n \in k..n
    BY <1>1
  <2>2. at[k - 1] \in Nat /\ at[k] \in Nat /\ at[k] <= at[n]
    BY <1>2, <1>5, <1>6, <2>1, PartsRise
  <2> QED
    BY <1>2, <1>5, <1>6, <2>2 DEF FlatAt
<1>8. ASSUME NEW k \in 1..n, NEW j \in 1..Len(seqs[k])
      PROVE  /\ at[k - 1] + j \in 1..Len(flat) /\ flat[at[k - 1] + j] = seqs[k][j]
             /\ flat[at[k - 1] + j] < 128 <=> j = Len(seqs[k])
  <2>1. at[k - 1] + j \in 1..Len(flat) /\ flat[at[k - 1] + j] = seqs[k][j]
    BY <1>2, <1>5 DEF FlatAt
  <2>2. seqs[k][j] < 128 <=> j = Len(seqs[k])
    <3>1. Reads(seqs[k], grid[k]) /\ Len(seqs[k]) \in Nat \ {0}
      BY <1>2
    <3>2. CASE j = Len(seqs[k])
      BY <3>1, <3>2 DEF Reads
    <3>3. CASE j # Len(seqs[k])
      <4>1. j \in 1..Len(seqs[k]) - 1
        BY <3>1, <3>3
      <4> QED
        BY <3>1, <3>3, <4>1 DEF Reads
    <3> QED
      BY <3>2, <3>3
  <2> QED
    BY <2>1, <2>2
<1> DEFINE a == [k \in 1..n |-> at[k - 1] + 1]
<1>9. starts \in SUBSET (1..Len(flat)) /\ starts = {i \in 1..Len(flat) : i = 1 \/ flat[i - 1] < 128}
  BY <1>6 DEF VarintStarts
<1> HIDE DEF starts
<1>10. \A k \in 1..n : a[k] \in starts
  <2> TAKE k \in 1..n
  <2>1. 1 \in 1..Len(seqs[k]) /\ a[k] = at[k - 1] + 1 /\ at[k - 1] \in Nat
    BY <1>7
  <2>2. a[k] \in 1..Len(flat)
    BY <1>8, <2>1
  <2>3. CASE k = 1
    <3>1. a[k] = 1
      BY <1>6, <2>1, <2>3
    <3> QED
      BY <1>9, <2>2, <3>1
  <2>4. CASE k # 1
    <3>1. k - 1 \in 1..n
      BY <1>1, <2>4
    <3> DEFINE l == k - 1
    <3>2. Len(seqs[l]) \in 1..Len(seqs[l]) /\ at[l - 1] + Len(seqs[l]) = at[l]
      BY <1>7, <3>1
    <3>3. flat[at[l]] < 128
      BY <1>8, <3>1, <3>2
    <3>4. a[k] - 1 = at[l]
      BY <2>1
    <3> QED
      BY <1>9, <2>2, <3>3, <3>4
  <2> QED
    BY <2>3, <2>4
<1>11. ASSUME NEW i \in starts
       PROVE  \E k \in 1..n : a[k] = i
  <2>1. i \in 1..Len(flat) /\ (i = 1 \/ flat[i - 1] < 128)
    BY <1>9
  <2>2. IsPlace(i, seqs, flat, at)
    BY <1>2, <1>5, <2>1, Located
  <2>3. PICK k \in 1..n : \E j \in 1..Len(seqs[k]) : i = at[k - 1] + j
    BY <1>2, <2>2 DEF IsPlace
  <2>4. PICK j \in 1..Len(seqs[k]) : i = at[k - 1] + j
    BY <2>3
  <2>5. at[k - 1] \in Nat /\ Len(seqs[k]) \in Nat
    BY <1>7
  <2>6. j = 1
    <3> SUFFICES ASSUME j # 1 PROVE FALSE
      OBVIOUS
    <3>1. j - 1 \in 1..Len(seqs[k]) /\ j - 1 # Len(seqs[k]) /\ i - 1 = at[k - 1] + (j - 1) /\ i # 1
      BY <2>4, <2>5
    <3>2. ~(flat[i - 1] < 128)
      BY <1>8, <3>1
    <3> QED
      BY <2>1, <3>1, <3>2
  <2>7. a[k] = i
    BY <2>4, <2>6
  <2> QED
    BY <2>7
<1>12. ASSUME NEW k \in 1..n, NEW l \in 1..n, k < l
       PROVE  a[k] < a[l]
  <2>1. a[k] = at[k - 1] + 1 /\ a[l] = at[l - 1] + 1
    OBVIOUS
  <2> HIDE DEF a
  <2>2. k \in 0..n /\ l - 1 \in k..n
    BY <1>1, <1>12
  <2>3. at[k] <= at[l - 1]
    BY <1>2, <1>5, <2>2, PartsRise
  <2>4. at[k - 1] < at[k] /\ at[k - 1] \in Nat /\ at[k] \in Nat /\ at[l - 1] \in Nat
    BY <1>7
  <2> QED
    BY <2>1, <2>3, <2>4
<1>13. Ascending(starts) = a
  <2>1. a \in [1..n -> starts]
    BY <1>10
  <2>2. \A k \in 1..n : a[k] = at[k - 1] + 1
    OBVIOUS
  <2> HIDE DEF a
  <2>3. a \in Seq(starts) /\ Len(a) = n /\ DOMAIN a = 1..n
    BY <1>1, <2>1
  <2>4. Rises(a, starts)
    BY <1>1, <1>10, <1>11, <1>12, <2>3 DEF Rises
  <2>5. starts \in SUBSET Nat
    BY <1>6, <1>9
  <2>6. IsFiniteSet(starts)
    <3>1. IsFiniteSet(1..Len(flat))
      BY <1>6, FS_Interval
    <3> QED
      BY <1>9, <3>1, FS_Subset
  <2>7. Rises(Ascending(starts), starts)
    BY <2>5, <2>6, AscendingIs
  <2> QED
    BY <2>4, <2>5, <2>7, RisesOnce
<1>14. ASSUME NEW k \in 1..n
       PROVE  VarintValue(flat, at[k - 1] + 1) = grid[k]
  <2> DEFINE pos == at[k - 1] + 1
             end == at[k]
             b == seqs[k]
             E == {i \in pos..Len(flat) : flat[i] < 128}
  <2>1. /\ Len(b) \in Nat \ {0} /\ at[k - 1] \in Nat /\ end = at[k - 1] + Len(b)
        /\ end <= Len(flat) /\ Reads(b, grid[k])
    BY <1>2, <1>7
  <2>2. pos \in 1..Len(flat) /\ end \in pos..Len(flat) /\ end = pos + Len(b) - 1
    BY <1>6, <2>1
  <2>3. \A j \in 1..Len(b) : flat[pos + j - 1] = b[j]
    <3> TAKE j \in 1..Len(b)
    <3>1. pos + j - 1 = at[k - 1] + j
      BY <2>1
    <3> QED
      BY <1>8, <3>1
  <2>4. VarintEnd(flat, pos) = end
    <3>1. end \in E
      <4>1. Len(b) \in 1..Len(b) /\ at[k - 1] + Len(b) = end
        BY <2>1
      <4>2. flat[end] < 128
        BY <1>8, <4>1
      <4> QED
        BY <2>2, <4>2
    <3>2. ASSUME NEW i \in E
          PROVE  end <= i
      <4> SUFFICES ASSUME i < end PROVE FALSE
        BY <2>1
      <4>1. i - at[k - 1] \in 1..Len(b) /\ i - at[k - 1] # Len(b)
            /\ at[k - 1] + (i - at[k - 1]) = i
        BY <2>1
      <4> QED
        BY <1>8, <4>1
    <3>3. E \subseteq Nat
      BY <2>1
    <3> HIDE DEF E, pos, end
    <3>4. Min(E) \in E /\ \A i \in E : Min(E) <= i
      BY <3>1, <3>3, MinIs
    <3>5. Min(E) = end
      <4>1. end <= Min(E) /\ Min(E) <= end /\ Min(E) \in Nat /\ end \in Nat
        BY <3>1, <3>2, <3>3, <3>4
      <4> QED
        BY <4>1
    <3>6. VarintEnd(flat, pos) = Min(E)
      BY DEF VarintEnd, E
    <3> QED
      BY <3>5, <3>6
  <2>5. pos \in Nat /\ end \in Nat
    BY <2>1
  <2> HIDE DEF pos, end, b, E
  <2>6. \E f : f[pos] = VarintValue(flat, pos) /\ Horner(f, flat, pos, end)
    BY <1>4, <2>2, <2>4, VarintHorner
  <2>7. PICK f : f[pos] = VarintValue(flat, pos) /\ Horner(f, flat, pos, end)
    BY <2>6
  <2>8. \A g, bytes : \A p, e \in Nat :
          /\ e = p + Len(b) - 1 /\ Horner(g, bytes, p, e)
          /\ \A j \in 1..Len(b) : bytes[p + j - 1] = b[j]
          => g[p] = grid[k]
    BY <2>1, Zenon DEF Reads
  <2>9. f[pos] = grid[k]
    BY <2>2, <2>3, <2>5, <2>7, <2>8
  <2> QED
    BY <2>7, <2>9 DEF pos
<1>15. Unpacked(flat) = grid
  <2>1. Unpacked(flat) = [k \in 1..n |-> VarintValue(flat, a[k])]
    BY <1>13 DEF Unpacked, starts
  <2>2. \A k \in 1..n : VarintValue(flat, a[k]) = grid[k]
    BY <1>14
  <2> HIDE DEF a
  <2>3. Unpacked(flat) = [k \in 1..n |-> grid[k]]
    BY <2>1, <2>2
  <2>4. grid = [k \in 1..n |-> grid[k]]
    BY LenProperties DEF n
  <2> QED
    BY <2>3, <2>4
<1>16. flat = <<>> <=> grid = <<>>
  <2>1. CASE n = 0
    <3>1. grid = <<>> /\ Len(flat) = 0
      BY <1>6, <2>1, EmptySeq DEF n
    <3> QED
      BY <1>4, <3>1, EmptySeq
  <2>2. CASE n # 0
    <3>1. 1 \in 1..n
      BY <1>1, <2>2
    <3>2. at[1] <= Len(flat) /\ at[1] \in Nat /\ at[1] # 0
      <4>1. /\ at[1 - 1] \in Nat /\ at[1] = at[1 - 1] + Len(seqs[1])
            /\ at[1] <= Len(flat) /\ Len(seqs[1]) \in Nat \ {0}
        BY <1>7, <3>1, Zenon
      <4> QED
        BY <4>1
    <3>3. Len(flat) # 0
      BY <3>2
    <3> QED
      BY <2>2, <3>3, EmptySeq DEF n
  <2> QED
    BY <2>1, <2>2
<1> QED
  BY <1>15, <1>16 DEF flat

\* Column and row of a cell, and back.
LEMMA ColumnRow ==
  ASSUME NEW w \in Nat \ {0}, NEW h \in Nat, NEW x \in 0..w - 1, NEW y \in 0..h - 1
  PROVE  /\ y * w + x + 1 \in 1..w * h
         /\ (y * w + x) % w = x /\ (y * w + x) \div w = y
<1>1. /\ y * w + w = (y + 1) * w /\ y * w \in Nat
      /\ (y + 1) * w <= h * w /\ h * w = w * h
  BY SMTT(20)
<1>2. y * w + x + 1 \in 1..w * h
  BY <1>1
<1>3. (y * w + x) % w = x /\ (y * w + x) \div w = y
  BY SMTT(20)
<1> QED
  BY <1>2, <1>3

\* The largest number of a bounded set is the smallest distance to the bound.
LEMMA MaxIs ==
  ASSUME NEW n \in Nat, NEW S, S \subseteq 0..n, S # {}
  PROVE  Max(S) \in S /\ \A s \in S : s <= Max(S)
<1> DEFINE D == {n - s : s \in S}
<1>1. D \subseteq Nat /\ D # {}
  <2>1. \A s \in S : n - s \in Nat
    OBVIOUS
  <2> QED
    BY <2>1
<1>2. PICK m \in S : Min(D) = n - m
  BY <1>1, MinIs
<1>3. \A s \in S : n - m <= n - s
  BY <1>1, <1>2, MinIs
<1>4. \A s \in S : s \in Int /\ m \in Int /\ m >= s
  BY <1>3
<1>5. Max(S) \in S /\ \A s \in S : Max(S) >= s
  BY <1>4 DEF Max
<1> QED
  BY <1>5

\* A map as decodeGetMapResponse lets it through, with cells.
WithCells(m) ==
  /\ m.width \in Nat \ {0} /\ m.height \in Nat \ {0}
  /\ m.grid # Null /\ m.grid \in Seq(Nat) /\ Len(m.grid) = m.width * m.height

LEMMA CropHolds ==
  ASSUME NEW m, WithCells(m), Drawn(m) # {}
  PROVE  LET c == Crop(m)
         IN  /\ c.x \in 0..m.width - 1 /\ c.y \in 0..m.height - 1
             /\ c.w \in 1..m.width - c.x /\ c.h \in 1..m.height - c.y
             /\ \A p \in Drawn(m) :
                  p[1] - c.x \in 0..c.w - 1 /\ p[2] - c.y \in 0..c.h - 1
<1> DEFINE xs == {p[1] : p \in Drawn(m)}
           ys == {p[2] : p \in Drawn(m)}
           x == Largest(0, Min(xs) - CropPadding)
           y == Largest(0, Min(ys) - CropPadding)
           w == Smallest(m.width - 1, Max(xs) + CropPadding) - x + 1
           h == Smallest(m.height - 1, Max(ys) + CropPadding) - y + 1
<1>1. m.width \in Nat \ {0} /\ m.height \in Nat \ {0}
  BY DEF WithCells
<1>2. \A p \in Drawn(m) : p[1] \in 0..m.width - 1 /\ p[2] \in 0..m.height - 1
  BY DEF Drawn, Places
<1>3. xs \subseteq 0..m.width - 1 /\ xs # {} /\ ys \subseteq 0..m.height - 1 /\ ys # {}
  BY <1>2
<1> HIDE DEF xs, ys
<1>4. /\ Min(xs) \in 0..m.width - 1 /\ Max(xs) \in 0..m.width - 1
      /\ \A s \in xs : Min(xs) <= s /\ s <= Max(xs)
  <2>1. xs \subseteq Nat /\ m.width - 1 \in Nat
    BY <1>1, <1>3
  <2>2. Min(xs) \in xs /\ Max(xs) \in xs /\ \A s \in xs : Min(xs) <= s /\ s <= Max(xs)
    BY <1>3, <2>1, MinIs, MaxIs
  <2> QED
    BY <1>3, <2>2
<1>5. /\ Min(ys) \in 0..m.height - 1 /\ Max(ys) \in 0..m.height - 1
      /\ \A s \in ys : Min(ys) <= s /\ s <= Max(ys)
  <2>1. ys \subseteq Nat /\ m.height - 1 \in Nat
    BY <1>1, <1>3
  <2>2. Min(ys) \in ys /\ Max(ys) \in ys /\ \A s \in ys : Min(ys) <= s /\ s <= Max(ys)
    BY <1>3, <2>1, MinIs, MaxIs
  <2> QED
    BY <1>3, <2>2
<1>6. Crop(m) = [x |-> x, y |-> y, w |-> w, h |-> h]
  BY DEF Crop, xs, ys
<1>7. Min(xs) <= Max(xs) /\ Min(ys) <= Max(ys)
  <2>1. PICK a \in xs, b \in ys : TRUE
    BY <1>3
  <2>2. a \in Int /\ b \in Int /\ Min(xs) <= a /\ a <= Max(xs) /\ Min(ys) <= b /\ b <= Max(ys)
    BY <1>3, <1>4, <1>5
  <2> HIDE DEF WithCells
  <2> QED
    BY <1>4, <1>5, <2>2
<1>8. /\ x \in 0..m.width - 1 /\ w \in 1..m.width - x
      /\ \A s \in xs : s \in Int => s - x \in 0..w - 1
  BY <1>1, <1>3, <1>4, <1>7, PaddingAssumption DEF Largest, Smallest
<1>9. /\ y \in 0..m.height - 1 /\ h \in 1..m.height - y
      /\ \A s \in ys : s \in Int => s - y \in 0..h - 1
  BY <1>1, <1>3, <1>5, <1>7, PaddingAssumption DEF Largest, Smallest
<1>10. \A p \in Drawn(m) : p[1] \in xs /\ p[2] \in ys /\ p[1] \in Int /\ p[2] \in Int
  BY <1>2 DEF xs, ys
<1> HIDE DEF x, y, w, h
<1> QED
  BY <1>6, <1>8, <1>9, <1>10

\* A drawn cell is in the crop, at its column and row.
LEMMA CroppedAt ==
  ASSUME NEW m, WithCells(m), NEW p \in Drawn(m)
  PROVE  LET c == Crop(m)
             x == p[1] - c.x
             y == p[2] - c.y
         IN  /\ x \in 0..c.w - 1 /\ y \in 0..c.h - 1 /\ y * c.w + x + 1 \in 1..c.w * c.h
             /\ Cropped(m, c)[y * c.w + x + 1] = CellAt(m, p[1], p[2])
<1> DEFINE c == Crop(m)
           cells == Cropped(m, c)
           x == p[1] - c.x
           y == p[2] - c.y
           i == y * c.w + x + 1
<1>1. /\ c.x \in Nat /\ c.y \in Nat /\ c.w \in Nat \ {0} /\ c.h \in Nat \ {0}
      /\ p[1] - c.x \in 0..c.w - 1 /\ p[2] - c.y \in 0..c.h - 1
  BY CropHolds DEF WithCells
<1>2. p[1] \in Int /\ p[2] \in Int
  BY DEF Drawn, Places, WithCells
<1> HIDE DEF c
<1>3. /\ DOMAIN cells = 1..c.w * c.h
      /\ \A k \in 1..c.w * c.h :
           cells[k] = CellAt(m, c.x + ((k - 1) % c.w), c.y + ((k - 1) \div c.w))
  BY DEF Cropped
<1> HIDE DEF cells
<1>4. x \in 0..c.w - 1 /\ y \in 0..c.h - 1 /\ c.x + x = p[1] /\ c.y + y = p[2]
  BY <1>1, <1>2
<1> HIDE DEF x, y
<1>5. /\ i \in 1..c.w * c.h
      /\ (y * c.w + x) % c.w = x /\ (y * c.w + x) \div c.w = y
  <2>1. c.w \in Nat \ {0} /\ c.h \in Nat /\ x \in 0..c.w - 1 /\ y \in 0..c.h - 1
    BY <1>1, <1>4
  <2> QED
    BY <2>1, ColumnRow
<1>6. i - 1 = y * c.w + x
  <2>1. y * c.w \in Int
    BY <1>1, <1>4
  <2> QED
    BY <1>4, <2>1
<1> HIDE DEF i
<1>7. cells[i] = CellAt(m, p[1], p[2])
  BY <1>3, <1>4, <1>5, <1>6
<1> QED
  BY <1>4, <1>5, <1>7 DEF x, y, i, c, cells

\* toRenderData: every drawn cell of the map is in the picture, at its column and row
\* of the crop, with its own code, for any map and padding (MapParser.js:438).
THEOREM CellsInPlace ==
  ASSUME NEW m, WithCells(m), Drawn(m) # {}, NEW ids
  PROVE  LET c == Crop(m)
             codes == Codes(Cropped(m, c), ids)
         IN  /\ Len(codes) = c.w * c.h
             /\ \A p \in Drawn(m) :
                  LET x == p[1] - c.x
                      y == p[2] - c.y
                      v == CellAt(m, p[1], p[2])
                  IN  /\ x \in 0..c.w - 1 /\ y \in 0..c.h - 1
                      /\ codes[y * c.w + x + 1] = CellCode(v, Kind(v), ids)
<1> DEFINE c == Crop(m)
           cells == Cropped(m, c)
           codes == Codes(cells, ids)
<1>1. /\ c.x \in Nat /\ c.y \in Nat /\ c.w \in Nat \ {0} /\ c.h \in Nat \ {0}
      /\ \A p \in Drawn(m) :
           p[1] - c.x \in 0..c.w - 1 /\ p[2] - c.y \in 0..c.h - 1
  BY CropHolds DEF WithCells
<1>2. \A p \in Drawn(m) : p[1] \in Int /\ p[2] \in Int
  BY DEF Drawn, Places, WithCells
<1> HIDE DEF c
<1>3. c.w * c.h \in Nat
  BY <1>1
<1>4. /\ DOMAIN cells = 1..c.w * c.h
      /\ \A i \in 1..c.w * c.h :
           cells[i] = CellAt(m, c.x + ((i - 1) % c.w), c.y + ((i - 1) \div c.w))
  BY DEF Cropped
<1> HIDE DEF cells
<1>5. /\ DOMAIN codes = 1..c.w * c.h
      /\ \A i \in 1..c.w * c.h : codes[i] = CellCode(cells[i], Kind(cells[i]), ids)
  BY <1>4 DEF Codes
<1>6. Len(codes) = c.w * c.h
  <2>1. codes = [i \in 1..c.w * c.h |-> CellCode(cells[i], Kind(cells[i]), ids)]
    BY <1>4 DEF Codes
  <2> DEFINE S == {codes[i] : i \in 1..c.w * c.h}
  <2> HIDE DEF codes
  <2>2. codes \in [1..c.w * c.h -> S]
    BY <1>5, <2>1
  <2>3. codes \in Seq(S)
    BY <1>3, <2>2
  <2> QED
    BY <1>3, <1>5, <2>3, LenProperties
<1> HIDE DEF codes
<1>7. ASSUME NEW p \in Drawn(m)
      PROVE  LET x == p[1] - c.x
                 y == p[2] - c.y
                 v == CellAt(m, p[1], p[2])
             IN  /\ x \in 0..c.w - 1 /\ y \in 0..c.h - 1
                 /\ codes[y * c.w + x + 1] = CellCode(v, Kind(v), ids)
  <2> DEFINE i == (p[2] - c.y) * c.w + (p[1] - c.x) + 1
  <2>1. /\ p[1] - c.x \in 0..c.w - 1 /\ p[2] - c.y \in 0..c.h - 1
        /\ i \in 1..c.w * c.h /\ cells[i] = CellAt(m, p[1], p[2])
    BY CroppedAt DEF c, cells
  <2> HIDE DEF i
  <2> QED
    BY <1>5, <2>1 DEF i
<1> QED
  BY <1>6, <1>7 DEF c, cells, codes

\* The code of a room of the list leads back to the room.
LEMMA RoomCodeIs ==
  ASSUME NEW ids \in Seq(Nat), NEW id \in ToSet(ids)
  PROVE  /\ RoomCode(ids, id) \in Nat /\ RoomCode(ids, id) >= ROOM_CODE_BASE
         /\ ids[RoomCode(ids, id) - ROOM_CODE_BASE + 1] = id
<1> DEFINE I == {i \in 1..Len(ids) : ids[i] = id}
           k == SelectInSeq(ids, LAMBDA e : e = id)
<1>1. k \in 1..Len(ids) /\ ids[k] = id
  <2>1. I # {} /\ I \subseteq Nat
    BY LenProperties DEF ToSet
  <2>2. k = Min(I)
    BY <2>1 DEF SelectInSeq
  <2>3. Min(I) \in I
    BY <2>1, MinIs
  <2> QED
    BY <2>2, <2>3
<1>2. RoomCode(ids, id) = ROOM_CODE_BASE + k - 1
  BY DEF RoomCode
<1> HIDE DEF k
<1> QED
  BY <1>1, <1>2, LenProperties DEF ROOM_CODE_BASE

\* roomFor: rooms of the list have codes of their own, and cells of no room have none
\* of these, for any list of rooms (MapParser.js:445).
THEOREM RoomsToldApart ==
  ASSUME NEW ids \in Seq(Nat),
         NEW v \in Nat, Kind(v) = "room" => roomIdOf(v) \in ToSet(ids),
         NEW u \in Nat, Kind(u) = "room" => roomIdOf(u) \in ToSet(ids)
  PROVE  /\ CellCode(v, Kind(v), ids) >= ROOM_CODE_BASE <=> Kind(v) = "room"
         /\ Kind(v) = "room" /\ Kind(u) = "room"
            => (CellCode(v, "room", ids) = CellCode(u, "room", ids)
                  <=> roomIdOf(v) = roomIdOf(u))
<1>2. ASSUME NEW id \in ToSet(ids)
      PROVE  /\ RoomCode(ids, id) \in Nat /\ RoomCode(ids, id) >= ROOM_CODE_BASE
             /\ ids[RoomCode(ids, id) - ROOM_CODE_BASE + 1] = id
  BY RoomCodeIs
<1>3. Kind(v) \in {"outside", "wall", "floor", "room"}
  BY DEF Kind
<1> HIDE DEF Kind
<1>4. CellCode(v, Kind(v), ids) >= ROOM_CODE_BASE <=> Kind(v) = "room"
  <2>1. CASE Kind(v) = "room"
    BY <1>2, <2>1 DEF CellCode
  <2>2. CASE Kind(v) # "room"
    BY <1>3, <2>2 DEF CellCode, ROOM_CODE_BASE
  <2> QED
    BY <2>1, <2>2
<1>5. ASSUME Kind(v) = "room", Kind(u) = "room"
      PROVE  CellCode(v, "room", ids) = CellCode(u, "room", ids)
               <=> roomIdOf(v) = roomIdOf(u)
  BY <1>2, <1>5 DEF CellCode
<1> QED
  BY <1>4, <1>5

\* liveToDisplay: a live point over a drawn cell of the map is shown on that cell of
\* the picture, for any map, border and padding (MapParser.js:589): rows are turned
\* over, moved and cut for points as they are for cells.
THEOREM PointsOnTheirCells ==
  ASSUME NEW m, WithCells(m), NEW ids, NEW border, border # Null,
         border.left \in Int, border.bottom \in Int, NEW point \in Int \X Int,
         point[1] - border.left \in 0..m.width - 1,
         point[2] - border.bottom \in 0..m.height - 1,
         m.grid[(point[2] - border.bottom) * m.width + (point[1] - border.left) + 1] # 0
  PROVE  LET c == Crop(m)
             codes == Codes(Cropped(m, c), ids)
             at == liveToDisplay(point, border, RenderMeta(m, c))
             v == m.grid[(point[2] - border.bottom) * m.width + (point[1] - border.left) + 1]
         IN  /\ at[1] \in 0..c.w - 1 /\ at[2] \in 0..c.h - 1
             /\ codes[at[2] * c.w + at[1] + 1] = CellCode(v, Kind(v), ids)
<1> DEFINE c == Crop(m)
           codes == Codes(Cropped(m, c), ids)
           at == liveToDisplay(point, border, RenderMeta(m, c))
           a == point[1] - border.left
           b == point[2] - border.bottom
           v == m.grid[b * m.width + a + 1]
           p == <<a, m.height - 1 - b>>
<1>1. a \in 0..m.width - 1 /\ b \in 0..m.height - 1 /\ m.height \in Nat /\ v # 0
  BY DEF WithCells
<1>2. at = <<a - c.x, m.height - 1 - b - c.y>>
  BY DEF liveToDisplay, RenderMeta
<1> HIDE DEF a, b, at
<1>3. p[1] = a /\ p[2] = m.height - 1 - b /\ m.height - 1 - p[2] = b
  BY <1>1
<1>4. CellAt(m, p[1], p[2]) = v /\ p \in Places(m)
  BY <1>1, <1>3 DEF CellAt, Places
<1>5. p \in Drawn(m)
  BY <1>1, <1>4 DEF Drawn, WithCells
<1> HIDE DEF p, v
<1>6. /\ p[1] - c.x \in 0..c.w - 1 /\ p[2] - c.y \in 0..c.h - 1
      /\ codes[(p[2] - c.y) * c.w + (p[1] - c.x) + 1] = CellCode(v, Kind(v), ids)
  <2>1. Drawn(m) # {}
    BY <1>5
  <2> QED
    BY <1>4, <1>5, <2>1, CellsInPlace
<1> HIDE DEF c, codes
<1>7. at[1] = p[1] - c.x /\ at[2] = p[2] - c.y
  BY <1>2, <1>3
<1>8. /\ at[1] \in 0..c.w - 1 /\ at[2] \in 0..c.h - 1
      /\ codes[at[2] * c.w + at[1] + 1] = CellCode(v, Kind(v), ids)
  BY <1>6, <1>7
<1> QED
  BY <1>8 DEF a, b, at, c, codes, v

\* The colouring: while its neighbours have fewer than six colours, a room gets one
\* that none of them has (MapParser.js:410 "neighbours always differ").
THEOREM ColourIsFree ==
  ASSUME NEW used, IsFiniteSet(used), Cardinality(used) < ROOM_COLOR_SETS
  PROVE  FreeColor(used) \in 0..ROOM_COLOR_SETS - 1 /\ FreeColor(used) \notin used
<1> DEFINE n == Cardinality(used)
           free == (0..n) \ used
<1>1. n \in Nat /\ n <= 5
  BY FS_CardinalityType DEF ROOM_COLOR_SETS
<1>2. free # {}
  <2>1. ASSUME 0..n \subseteq used PROVE FALSE
    <3>1. Cardinality(0..n) <= n
      BY <2>1, FS_Subset
    <3>2. Cardinality(0..n) = n + 1
      BY <1>1, FS_Interval
    <3> QED
      BY <1>1, <3>1, <3>2
  <2> QED
    BY <2>1
<1>3. Min(free) \in free
  BY <1>1, <1>2, MinIs
<1>4. FreeColor(used) = Min(free) % 6
  BY DEF FreeColor, ROOM_COLOR_SETS
<1> HIDE DEF free
<1>5. Min(free) \in 0..5 /\ Min(free) \notin used
  BY <1>1, <1>3 DEF free
<1>6. Min(free) % 6 = Min(free)
  BY <1>5
<1> QED
  BY <1>4, <1>5, <1>6 DEF ROOM_COLOR_SETS

\* Every row of the crop lies in the map.
LEMMA CroppedIs ==
  ASSUME NEW m, WithCells(m), Drawn(m) # {}
  PROVE  LET c == Crop(m)
         IN  /\ Cropped(m, c) \in Seq(Nat) /\ Len(Cropped(m, c)) = c.w * c.h
             /\ c.w \in Nat \ {0} /\ c.h \in Nat \ {0}
<1> DEFINE c == Crop(m)
           X(i) == c.x + ((i - 1) % c.w)
           Y(i) == c.y + ((i - 1) \div c.w)
<1>1. /\ c.x \in 0..m.width - 1 /\ c.y \in 0..m.height - 1
      /\ c.w \in 1..m.width - c.x /\ c.h \in 1..m.height - c.y
  BY CropHolds
<1>2. m.width \in Nat \ {0} /\ m.height \in Nat \ {0} /\ m.grid \in Seq(Nat)
      /\ Len(m.grid) = m.width * m.height
  BY DEF WithCells
<1> HIDE DEF c
<1>3. c.w \in Nat \ {0} /\ c.h \in Nat \ {0} /\ c.w * c.h \in Nat
  <2>1. c.w \in Nat \ {0} /\ c.h \in Nat \ {0}
    BY <1>1, <1>2
  <2> QED
    BY <2>1
<1>4. ASSUME NEW i \in 1..c.w * c.h
      PROVE  CellAt(m, X(i), Y(i)) \in Nat
  <2>1. (i - 1) % c.w \in 0..c.w - 1 /\ (i - 1) \div c.w \in 0..c.h - 1
    <3>1. \A w, h, k \in Nat : w > 0 /\ k < w * h => k % w \in 0..w - 1 /\ k \div w \in 0..h - 1
      <4> TAKE w, h, k \in Nat
      <4> HAVE w > 0 /\ k < w * h
      <4>1. k % w \in 0..w - 1 /\ k \div w \in Nat /\ k = w * (k \div w) + (k % w)
        BY SMTT(20)
      <4>2. ASSUME k \div w >= h PROVE FALSE
        <5>1. \A q \in Nat : q >= h => w * q >= w * h
          BY SMTT(20)
        <5> QED
          BY <4>1, <4>2, <5>1
      <4> QED
        BY <4>1, <4>2
    <3>2. i - 1 \in Nat /\ i - 1 < c.w * c.h
      BY <1>3
    <3> QED
      BY <1>3, <3>1, <3>2
  <2> DEFINE x == X(i)
             y == m.height - 1 - Y(i)
  <2>2. x \in 0..m.width - 1 /\ y \in 0..m.height - 1
    <3>1. \A b, w, h : b \in Nat \ {0} /\ w \in 0..b - 1 /\ h \in 1..b - w
            => \A k \in 0..h - 1 : w + k \in 0..b - 1
      OBVIOUS
    <3>2. X(i) \in 0..m.width - 1 /\ Y(i) \in 0..m.height - 1
      BY <1>1, <1>2, <2>1, <3>1
    <3> HIDE DEF X, Y
    <3> QED
      BY <1>2, <3>2
  <2>3. CellAt(m, X(i), Y(i)) = m.grid[y * m.width + x + 1]
    BY DEF CellAt
  <2> HIDE DEF x, y
  <2>4. y * m.width + x + 1 \in 1..m.width * m.height
    BY <1>2, <2>2, ColumnRow
  <2> QED
    BY <1>2, <2>3, <2>4, ElementOfSeq
<1>5. Cropped(m, c) = [i \in 1..c.w * c.h |-> CellAt(m, X(i), Y(i))]
  BY DEF Cropped
<1> HIDE DEF X, Y
<1>6. Cropped(m, c) \in [1..c.w * c.h -> Nat]
  BY <1>4, <1>5
<1>7. Cropped(m, c) \in Seq(Nat)
  BY <1>3, <1>6
<1>8. Len(Cropped(m, c)) = c.w * c.h
  BY <1>3, <1>6, <1>7, LenProperties
<1> QED
  BY <1>3, <1>7, <1>8 DEF c

\* roomFor: every room of the cells is in the list, and none is there twice.
LEMMA RoomIdsAre ==
  ASSUME NEW R, \A r \in R : r.id \in Nat, NEW m, m.rooms \in Seq(R), NEW cells \in Seq(Nat)
  PROVE  /\ RoomIds(m, cells) \in Seq(Nat)
         /\ \A i \in 1..Len(cells) :
              Kind(cells[i]) = "room" => roomIdOf(cells[i]) \in ToSet(RoomIds(m, cells))
<1> DEFINE P == {i \in DOMAIN cells : Kind(cells[i]) = "room"}
           inRoom == Pick(cells, P)
           listed == [i \in DOMAIN m.rooms |-> m.rooms[i].id]
           found == [i \in DOMAIN inRoom |-> roomIdOf(inRoom[i])]
           all == listed \o found
           a == Ascending(P)
<1>1. DOMAIN cells = 1..Len(cells) /\ DOMAIN m.rooms = 1..Len(m.rooms)
      /\ Len(m.rooms) \in Nat
  BY LenProperties
<1>2. RoomIds(m, cells) = Distinct(all)
  BY DEF RoomIds
<1>3. \A v \in Nat : roomIdOf(v) \in Nat
  BY DEF roomIdOf
<1>4. listed \in Seq(Nat)
  <2>1. \A i \in 1..Len(m.rooms) : m.rooms[i].id \in Nat
    BY ElementOfSeq
  <2>2. listed \in [1..Len(m.rooms) -> Nat]
    BY <1>1, <2>1
  <2> HIDE DEF listed
  <2> QED
    BY <1>1, <2>2
<1>5. /\ Rises(a, P) /\ inRoom \in Seq(Nat) /\ Len(inRoom) = Len(a)
      /\ \A k \in 1..Len(a) : inRoom[k] = cells[a[k]]
  <2>1. P \in SUBSET (1..Len(cells))
    BY <1>1
  <2> HIDE DEF P
  <2> QED
    BY <2>1, PickIs
<1>6. DOMAIN inRoom = 1..Len(a) /\ Len(a) \in Nat
  BY <1>5, LenProperties
<1> HIDE DEF a, inRoom, listed
<1>7. found \in Seq(Nat)
  <2>1. \A i \in 1..Len(a) : inRoom[i] \in Nat
    BY <1>5, ElementOfSeq
  <2>2. found \in [1..Len(a) -> Nat]
    BY <1>3, <1>6, <2>1
  <2> HIDE DEF found
  <2> QED
    BY <1>6, <2>2
<1>8. Len(found) = Len(a) /\ \A k \in 1..Len(a) : found[k] = roomIdOf(inRoom[k])
  <2>1. DOMAIN found = 1..Len(a) /\ \A k \in 1..Len(a) : found[k] = roomIdOf(inRoom[k])
    BY <1>6
  <2> HIDE DEF found
  <2> QED
    BY <1>6, <1>7, <2>1, LenProperties
<1> HIDE DEF found
<1>9. /\ all \in Seq(Nat) /\ Len(all) = Len(listed) + Len(found)
      /\ \A k \in 1..Len(found) :
           Len(listed) + k \in 1..Len(all) /\ all[Len(listed) + k] = found[k]
  <2>1. Len(listed) \in Nat /\ Len(found) \in Nat
    BY <1>4, <1>7, LenProperties
  <2>2. /\ all \in Seq(Nat) /\ Len(all) = Len(listed) + Len(found)
        /\ \A i \in 1..Len(listed) + Len(found) :
             all[i] = IF i <= Len(listed) THEN listed[i] ELSE found[i - Len(listed)]
    BY <1>4, <1>7, ConcatProperties
  <2> HIDE DEF all
  <2>3. ASSUME NEW k \in 1..Len(found)
        PROVE  Len(listed) + k \in 1..Len(all) /\ all[Len(listed) + k] = found[k]
    <3>1. /\ Len(listed) + k \in 1..Len(listed) + Len(found) /\ ~(Len(listed) + k <= Len(listed))
          /\ Len(listed) + k - Len(listed) = k
      BY <2>1
    <3> QED
      BY <2>2, <3>1
  <2> QED
    BY <2>2, <2>3
<1> HIDE DEF all
<1>10. Distinct(all) \in Seq(Nat) /\ ToSet(Distinct(all)) = ToSet(all)
  BY <1>9, DistinctIs
<1>11. ASSUME NEW i \in 1..Len(cells), Kind(cells[i]) = "room"
       PROVE  roomIdOf(cells[i]) \in ToSet(all)
  <2>1. i \in P
    BY <1>1, <1>11
  <2>2. PICK k \in 1..Len(a) : a[k] = i
    BY <1>5, <2>1 DEF Rises
  <2>3. roomIdOf(cells[i]) = all[Len(listed) + k] /\ Len(listed) + k \in DOMAIN all
    BY <1>5, <1>8, <1>9, <2>2, LenProperties
  <2> QED
    BY <2>3 DEF ToSet
<1> QED
  BY <1>2, <1>10, <1>11

\* Codes are numbers, and each room's code leads to its cells' room.
LEMMA CodesAre ==
  ASSUME NEW cells \in Seq(Nat), NEW ids \in Seq(Nat),
         \A i \in 1..Len(cells) : Kind(cells[i]) = "room" => roomIdOf(cells[i]) \in ToSet(ids)
  PROVE  LET codes == Codes(cells, ids)
         IN  /\ codes \in Seq(Nat) /\ Len(codes) = Len(cells)
             /\ \A c \in Present(codes) :
                  /\ c = RoomCode(ids, ids[c - ROOM_CODE_BASE + 1])
                  /\ ids[c - ROOM_CODE_BASE + 1] \in Nat
<1> DEFINE codes == Codes(cells, ids)
           Code(i) == CellCode(cells[i], Kind(cells[i]), ids)
<1>1. DOMAIN cells = 1..Len(cells) /\ Len(cells) \in Nat
  BY LenProperties
<1>2. ASSUME NEW i \in 1..Len(cells)
      PROVE  /\ Code(i) \in Nat
             /\ Code(i) >= ROOM_CODE_BASE =>
                  /\ Code(i) = RoomCode(ids, ids[Code(i) - ROOM_CODE_BASE + 1])
                  /\ ids[Code(i) - ROOM_CODE_BASE + 1] \in Nat
  <2>1. CASE Kind(cells[i]) = "room"
    <3>1. Code(i) = RoomCode(ids, roomIdOf(cells[i])) /\ roomIdOf(cells[i]) \in ToSet(ids)
      BY <2>1 DEF CellCode
    <3>2. roomIdOf(cells[i]) \in Nat
      BY <3>1, ElementOfSeq DEF ToSet
    <3> QED
      BY <3>1, <3>2, RoomCodeIs
  <2>2. CASE Kind(cells[i]) # "room"
    <3>1. Kind(cells[i]) \in {"outside", "wall", "floor", "room"}
      BY DEF Kind
    <3> HIDE DEF Kind
    <3>2. Code(i) \in 0..2
      BY <2>2, <3>1 DEF CellCode
    <3> QED
      BY <3>2 DEF ROOM_CODE_BASE
  <2> QED
    BY <2>1, <2>2
<1>3. codes = [i \in 1..Len(cells) |-> Code(i)]
  BY <1>1 DEF Codes
<1> HIDE DEF Code, codes
<1>4. codes \in [1..Len(cells) -> Nat]
  BY <1>2, <1>3
<1>5. codes \in Seq(Nat) /\ Len(codes) = Len(cells)
  <2> DEFINE n == Len(cells)
  <2>1. n \in Nat /\ codes \in [1..n -> Nat]
    BY <1>1, <1>4
  <2> HIDE DEF n
  <2>2. codes \in Seq(Nat)
    BY <2>1
  <2>3. Len(codes) = n
    BY <2>1, <2>2, LenProperties
  <2> QED
    BY <2>2, <2>3 DEF n
<1>6. ASSUME NEW c \in Present(codes)
      PROVE  /\ c = RoomCode(ids, ids[c - ROOM_CODE_BASE + 1])
             /\ ids[c - ROOM_CODE_BASE + 1] \in Nat
  <2>1. PICK i \in 1..Len(cells) : c = Code(i) /\ c >= ROOM_CODE_BASE
    BY <1>3 DEF Present, ToSet
  <2> QED
    BY <1>2, <2>1
<1> QED
  BY <1>5, <1>6 DEF codes

LEMMA TotalIs ==
  ASSUME NEW s \in Seq(Int)
  PROVE  Total(s) \in Int
<1> DEFINE n == Len(s)
           sum[k \in 0..n] == IF k = 0 THEN 0 ELSE sum[k - 1] + s[k]
           F(f) == [k \in 0..n |-> IF k = 0 THEN 0 ELSE f[k - 1] + s[k]]
           step == [k \in 1..n |-> [x \in Int |-> x + s[k]]]
<1>1. n \in Nat /\ \A k \in 1..n : s[k] \in Int
  BY ElementOfSeq, LenProperties
<1>2. Total(s) = sum[n]
  BY DEF Total
<1>3. sum = CHOOSE f : f = F(f)
  BY DEF sum
<1> HIDE DEF n, sum
<1>4. \E f : f = F(f)
  <2>1. step \in [1..n -> [Int -> Int]]
    BY <1>1
  <2>2. \E g : Follows(g, Int, n, 0, step)
    <3> DEFINE a == 0
    <3>1. a \in Int
      OBVIOUS
    <3> HIDE DEF step, a
    <3>2. \E g : Follows(g, Int, n, a, step)
      BY <1>1, <2>1, <3>1, Recursion
    <3> QED
      BY <3>2 DEF a
  <2>3. PICK g : Follows(g, Int, n, 0, step)
    BY <2>2
  <2>4. g = [k \in 0..n |-> g[k]] /\ g[0] = 0
    BY <2>3 DEF Follows
  <2>5. \A k \in 1..n : g[k - 1] \in Int /\ g[k] = g[k - 1] + s[k]
    BY <2>3 DEF Follows
  <2>6. \A k \in 0..n : g[k] = IF k = 0 THEN 0 ELSE g[k - 1] + s[k]
    <3>1. \A k \in 0..n : k # 0 => k \in 1..n
      BY <1>1
    <3> QED
      BY <2>4, <2>5, <3>1, Zenon
  <2>7. g = F(g)
    BY <2>4, <2>6
  <2> QED
    BY <2>7
<1>5. sum = F(sum)
  BY <1>3, <1>4
<1>6. sum[0] = 0 /\ \A k \in 1..n : sum[k] = sum[k - 1] + s[k]
  <2>1. \A k \in 0..n : sum[k] = IF k = 0 THEN 0 ELSE sum[k - 1] + s[k]
    BY <1>5
  <2> QED
    BY <1>1, <2>1
<1>7. 0..n \subseteq {k \in 0..n : sum[k] \in Int}
  <2> DEFINE T == {k \in 0..n : sum[k] \in Int}
  <2>1. 0 \in T
    BY <1>1, <1>6
  <2>2. \A k \in 1..n : k - 1 \in T => k \in T
    BY <1>1, <1>6
  <2> HIDE DEF T
  <2> QED
    BY <1>1, <2>1, <2>2, Upwards DEF T
<1> QED
  BY <1>1, <1>2, <1>7

\* labelPoint: the label of a room is one of its cells, whatever its shape
\* (MapParser.js:153).
THEOREM LabelInRoom ==
  ASSUME NEW codes \in Seq(Nat), NEW c \in Present(codes), NEW w \in Nat \ {0}
  PROVE  LabelCell(CellsOf(codes, c), w) \in CellsOf(codes, c)
<1> DEFINE cells == CellsOf(codes, c)
           points == Ascending(cells)
           xs == [k \in DOMAIN points |-> (points[k] - 1) % w]
           ys == [k \in DOMAIN points |-> (points[k] - 1) \div w]
           n == Len(points)
           sumX == Total(xs)
           sumY == Total(ys)
           Square(a) == a * a
           Off(i) == Square(n * ((i - 1) % w) - sumX) + Square(n * ((i - 1) \div w) - sumY)
           middle == <<(2 * sumX + n) \div (2 * n), (2 * sumY + n) \div (2 * n)>>
           inside == {i \in cells : <<(i - 1) % w, (i - 1) \div w>> = middle}
           nearest == {i \in cells : \A j \in cells : Off(i) <= Off(j)}
<1>1. cells \in SUBSET (1..Len(codes)) /\ cells # {} /\ Len(codes) \in Nat
  BY LenProperties DEF CellsOf, Present, ToSet
<1> HIDE DEF cells
<1>2. IsFiniteSet(cells) /\ cells \in SUBSET Nat
  <2>1. IsFiniteSet(1..Len(codes)) /\ 1..Len(codes) \subseteq Nat
    BY <1>1, FS_Interval
  <2> QED
    BY <1>1, <2>1, FS_Subset
<1>3. Rises(points, cells) /\ n \in Nat
  BY <1>2, AscendingIs DEF Rises
<1>4. \A k \in Nat : k > 0 => (k - 1) % w \in Int /\ (k - 1) \div w \in Int
  OBVIOUS
<1>5. DOMAIN points = 1..n /\ \A k \in 1..n : points[k] \in Nat /\ points[k] > 0
  <2>1. DOMAIN points = 1..n /\ \A k \in 1..n : points[k] \in cells
    BY <1>3 DEF Rises
  <2>2. \A i \in cells : i \in Nat /\ i > 0
    BY <1>1
  <2> QED
    BY <2>1, <2>2, Zenon
<1> HIDE DEF points, n
<1>6. sumX \in Int /\ sumY \in Int
  <2>1. xs \in [1..n -> Int] /\ ys \in [1..n -> Int]
    BY <1>4, <1>5
  <2> HIDE DEF xs, ys
  <2>2. xs \in Seq(Int) /\ ys \in Seq(Int)
    BY <1>3, <2>1
  <2> QED
    BY <2>2, TotalIs
<1>7. LabelCell(cells, w) = IF inside # {} THEN Min(inside) ELSE Min(nearest)
  BY DEF LabelCell, Label, points, n
<1> HIDE DEF sumX, sumY
<1>8. \A i \in cells : Off(i) \in Nat
  <2>1. \A a \in Int : Square(a) \in Nat
    <3> TAKE a \in Int
    <3>1. a * a \in Int /\ a * a >= 0
      BY SMTT(20)
    <3> QED
      BY <3>1
  <2>2. \A i \in cells : (i - 1) % w \in Int /\ (i - 1) \div w \in Int
    BY <1>1, <1>4
  <2>3. \A x \in Int, s \in Int : n * x - s \in Int
    BY <1>3
  <2>4. \A i \in cells : n * ((i - 1) % w) - sumX \in Int /\ n * ((i - 1) \div w) - sumY \in Int
    BY <1>6, <2>2, <2>3
  <2> HIDE DEF Square
  <2>5. \A i \in cells : /\ Square(n * ((i - 1) % w) - sumX) \in Nat
                         /\ Square(n * ((i - 1) \div w) - sumY) \in Nat
    BY <2>1, <2>4
  <2>6. \A a, b \in Nat : a + b \in Nat
    OBVIOUS
  <2> QED
    BY <2>5, <2>6
<1> HIDE DEF Off
<1>9. nearest # {}
  <2> DEFINE D == {Off(i) : i \in cells}
  <2>1. D \subseteq Nat /\ D # {}
    BY <1>1, <1>8
  <2>2. Min(D) \in D /\ \A d \in D : Min(D) <= d
    BY <2>1, MinIs
  <2>3. PICK i \in cells : Min(D) = Off(i)
    BY <2>2
  <2>4. \A j \in cells : Off(i) <= Off(j)
    BY <2>2, <2>3
  <2> QED
    BY <2>4
<1>10. \A S : S # {} /\ S \subseteq cells => Min(S) \in cells
  BY <1>2, MinIs
<1> HIDE DEF middle
<1>11. inside \subseteq cells /\ nearest \subseteq cells
  OBVIOUS
<1> HIDE DEF inside, nearest
<1> QED
  BY <1>7, <1>9, <1>10, <1>11 DEF cells

\* The rooms by size are all the rooms that have a cell.
LEMMA BySizeIs ==
  ASSUME NEW codes \in Seq(Nat)
  PROVE  LET order == BySize(codes)
             rooms == Present(codes)
         IN  /\ IsFiniteSet(rooms) /\ rooms \in SUBSET Nat /\ order \in Seq(rooms)
             /\ Len(order) = Cardinality(rooms) /\ rooms \subseteq ToSet(order)
<1> DEFINE rooms == Present(codes)
           Size(a) == Cardinality(CellsOf(codes, a))
           NotAfter(a, b) == Size(a) > Size(b) \/ (Size(a) = Size(b) /\ a <= b)
           UpTo(b) == {a \in rooms : NotAfter(a, b)}
           rank == [b \in rooms |-> Cardinality(UpTo(b))]
           n == Cardinality(rooms)
<1>1. /\ DOMAIN codes = 1..Len(codes) /\ Len(codes) \in Nat
      /\ \A i \in 1..Len(codes) : codes[i] \in Nat
  BY ElementOfSeq, LenProperties
<1>2. IsFiniteSet(1..Len(codes))
  BY <1>1, FS_Interval
<1>3. IsFiniteSet(rooms) /\ rooms \in SUBSET Nat
  <2> DEFINE S == ToSet(codes)
             f == [i \in 1..Len(codes) |-> codes[i]]
  <2>1. f \in Surjection(1..Len(codes), S)
    BY <1>1 DEF Surjection, ToSet
  <2>2. IsFiniteSet(S)
    BY <1>2, <2>1, FS_Surjection
  <2>3. S \subseteq Nat
    BY <1>1 DEF ToSet
  <2>4. rooms \in SUBSET S
    BY DEF Present
  <2> HIDE DEF S, rooms
  <2> QED
    BY <2>2, <2>3, <2>4, FS_Subset
<1>4. \A a : Size(a) \in Nat
  <2> TAKE a
  <2>1. CellsOf(codes, a) \in SUBSET (1..Len(codes))
    BY <1>1 DEF CellsOf
  <2> QED
    BY <1>2, <2>1, FS_Subset, FS_CardinalityType
<1>5. BySize(codes) = ByRank(rank)
  BY DEF BySize
<1> HIDE DEF rooms, Size
<1>6. n \in Nat
  BY <1>3, FS_CardinalityType
<1>7. ASSUME NEW b \in rooms
      PROVE  IsFiniteSet(UpTo(b)) /\ Cardinality(UpTo(b)) \in 1..n
  <2>1. UpTo(b) \in SUBSET rooms /\ b \in UpTo(b)
    BY <1>3, <1>4
  <2> HIDE DEF UpTo
  <2>2. IsFiniteSet(UpTo(b)) /\ Cardinality(UpTo(b)) <= n /\ Cardinality(UpTo(b)) \in Nat
    BY <1>3, <2>1, FS_Subset, FS_CardinalityType
  <2>3. Cardinality(UpTo(b)) # 0
    BY <2>1, <2>2, FS_EmptySet
  <2> QED
    BY <1>6, <2>2, <2>3
<1>8. ASSUME NEW a \in rooms, NEW b \in rooms, a # b, NotAfter(a, b)
      PROVE  rank[a] # rank[b]
  <2>1. a \in Nat /\ b \in Nat /\ Size(a) \in Nat /\ Size(b) \in Nat
    BY <1>3, <1>4
  <2>2. ~NotAfter(b, a)
    BY <1>8, <2>1
  <2>3. \A c \in rooms : NotAfter(c, a) => NotAfter(c, b)
    <3> TAKE c \in rooms
    <3>1. c \in Nat /\ Size(c) \in Nat
      BY <1>3, <1>4
    <3> QED
      BY <1>8, <2>1, <3>1
  <2>4. UpTo(a) \in SUBSET UpTo(b) /\ b \in UpTo(b) /\ b \notin UpTo(a)
    <3>1. NotAfter(b, b)
      BY <2>1
    <3> HIDE DEF NotAfter
    <3> QED
      BY <2>2, <2>3, <3>1
  <2> HIDE DEF UpTo
  <2>5. Cardinality(UpTo(a)) # Cardinality(UpTo(b))
    <3>1. IsFiniteSet(UpTo(b)) /\ UpTo(a) # UpTo(b)
      BY <1>7, <2>4
    <3> QED
      BY <2>4, <3>1, FS_Subset
  <2> QED
    BY <2>5
<1>9. \A a, b \in rooms : rank[a] = rank[b] => a = b
  <2> TAKE a, b \in rooms
  <2>1. NotAfter(a, b) \/ NotAfter(b, a)
    <3>1. a \in Nat /\ b \in Nat /\ Size(a) \in Nat /\ Size(b) \in Nat
      BY <1>3, <1>4
    <3> QED
      BY <3>1
  <2> QED
    BY <1>8, <2>1
<1>10. rank \in [rooms -> 1..n]
  BY <1>7
<1> HIDE DEF rank
<1>11. /\ ByRank(rank) \in Seq(rooms) /\ Len(ByRank(rank)) = n
       /\ \A e \in rooms : ByRank(rank)[rank[e]] = e
  BY <1>3, <1>9, <1>10, ByRankIs
<1>12. rooms \subseteq ToSet(ByRank(rank))
  <2>1. DOMAIN ByRank(rank) = 1..n
    BY <1>11, LenProperties
  <2>2. \A e \in rooms : rank[e] \in 1..n
    BY <1>10
  <2> QED
    BY <1>11, <2>1, <2>2 DEF ToSet
<1> QED
  BY <1>3, <1>5, <1>11, <1>12 DEF rooms, n

\* What is in a part is in the whole.
LEMMA InFlat ==
  ASSUME NEW S, NEW seqs \in Seq(Seq(S)), NEW k \in 1..Len(seqs), NEW j \in 1..Len(seqs[k])
  PROVE  seqs[k][j] \in ToSet(FlattenSeq(seqs))
<1> DEFINE flat == FlattenSeq(seqs)
<1>1. flat \in Seq(S) /\ \E at : FlatAt(seqs, flat, at)
  BY Flattened
<1> HIDE DEF flat
<1>2. PICK at : FlatAt(seqs, flat, at)
  BY <1>1
<1>3. at[k - 1] + j \in 1..Len(flat) /\ flat[at[k - 1] + j] = seqs[k][j]
  BY <1>2, Zenon DEF FlatAt
<1>4. DOMAIN flat = 1..Len(flat)
  BY <1>1, LenProperties
<1> QED
  BY <1>3, <1>4 DEF flat, ToSet

\* What lies d from the cell i.
Ahead(codes, w, i, d) ==
  IF ((i - 1) % w) + d[1] < w /\ i + d[1] + d[2] * w <= Len(codes)
  THEN codes[i + d[1] + d[2] * w] ELSE 0

\* Each entry is in the sequence once.
Once(s) == \A k, l \in 1..Len(s) : s[k] = s[l] => k = l

LEMMA NeighboursAre ==
  ASSUME NEW codes \in Seq(Nat), NEW w \in Nat \ {0}, NEW a
  PROVE  LET near == NeighboursOf(codes, w, a)
         IN  /\ near \in Seq(Present(codes) \ {a}) /\ Once(near)
             /\ \A i \in 1..Len(codes) : \A k \in 1..4 : \A e :
                  Meets(codes[i], Ahead(codes, w, i, Reach[k]), a) = <<e>> => e \in ToSet(near)
<1> DEFINE n == Len(codes)
           T == Present(codes) \ {a}
           Meet(i, k) == Meets(codes[i], Ahead(codes, w, i, Reach[k]), a)
           part == [i \in 1..n |-> [k \in 1..4 |-> Meet(i, k)]]
           rows == [i \in 1..n |-> FlattenSeq(part[i])]
           flat == FlattenSeq(rows)
<1>1. n \in Nat /\ DOMAIN codes = 1..n /\ \A i \in 1..n : codes[i] \in Nat
  BY ElementOfSeq, LenProperties
<1>2. DOMAIN Reach = 1..4 /\ \A k \in 1..4 : Reach[k][1] \in 0..2 /\ Reach[k][2] \in 0..2
  BY DEF Reach
<1>3. NeighboursOf(codes, w, a) = Distinct(flat)
  BY <1>1, <1>2 DEF NeighboursOf, Ahead
<1>4. ASSUME NEW i \in 1..n, NEW k \in 1..4
      PROVE  Meet(i, k) \in Seq(T)
  <2> DEFINE x == codes[i]
             y == Ahead(codes, w, i, Reach[k])
  <2>1. x \in ToSet(codes) /\ x \in Nat
    BY <1>1 DEF ToSet
  <2>2. (y \in ToSet(codes) /\ y \in Nat) \/ y = 0
    <3> DEFINE j == i + Reach[k][1] + Reach[k][2] * w
    <3>1. j \in Nat /\ j >= 1
      <4>1. \A p, q, r \in Nat : q * r \in Nat /\ (i \in Nat /\ i >= 1 => i + p + q * r >= 1)
        BY SMTT(20)
      <4>2. Reach[k][1] \in Nat /\ Reach[k][2] \in Nat /\ i \in Nat /\ i >= 1
        BY <1>1, <1>2
      <4>3. \A p, q, r \in Nat : q * r \in Nat => i + p + q * r \in Nat
        BY <4>2
      <4> QED
        BY <4>1, <4>2, <4>3
    <3>2. y = IF ((i - 1) % w) + Reach[k][1] < w /\ j <= n THEN codes[j] ELSE 0
      BY DEF Ahead
    <3> HIDE DEF j, y
    <3>3. CASE j <= n
      <4>1. j \in 1..n
        BY <1>1, <3>1, <3>3
      <4>2. codes[j] \in ToSet(codes) /\ codes[j] \in Nat
        BY <1>1, <4>1 DEF ToSet
      <4> QED
        BY <3>2, <4>2
    <3>4. CASE ~(j <= n)
      BY <3>2, <3>4
    <3> QED
      BY <3>3, <3>4
  <2> HIDE DEF x, y
  <2>3. Meet(i, k) = IF x = y \/ x < 10 \/ y < 10 THEN <<>>
                     ELSE IF x = a THEN <<y>> ELSE IF y = a THEN <<x>> ELSE <<>>
    BY DEF Meets, x, y, ROOM_CODE_BASE
  <2> HIDE DEF Meet
  <2>4. \A e \in T : <<e>> \in Seq(T)
    OBVIOUS
  <2>5. ASSUME ~(x = y \/ x < 10 \/ y < 10)
        PROVE  x \in Present(codes) /\ y \in Present(codes) /\ x # y
    BY <2>1, <2>2, <2>5 DEF Present, ROOM_CODE_BASE
  <2> HIDE DEF T
  <2>6. <<>> \in Seq(T)
    OBVIOUS
  <2>7. CASE x = y \/ x < 10 \/ y < 10
    BY <2>3, <2>6, <2>7
  <2>8. CASE ~(x = y \/ x < 10 \/ y < 10)
    <3>1. (x = a => y \in T) /\ (y = a => x \in T)
      BY <2>5, <2>8 DEF T
    <3> QED
      BY <2>3, <2>4, <2>6, <2>8, <3>1
  <2> QED
    BY <2>7, <2>8
<1> HIDE DEF T, Meet
<1>5. \A i \in 1..n : /\ part[i] \in Seq(Seq(T)) /\ Len(part[i]) = 4
                      /\ \A k \in 1..4 : part[i][k] = Meet(i, k)
  <2> TAKE i \in 1..n
  <2> DEFINE p == [k \in 1..4 |-> Meet(i, k)]
  <2>1. p \in [1..4 -> Seq(T)]
    BY <1>4
  <2>2. part[i] = p /\ \A k \in 1..4 : p[k] = Meet(i, k)
    OBVIOUS
  <2> HIDE DEF p, part
  <2> DEFINE U == Seq(T)
             m == 4
  <2>3. p \in [1..m -> U] /\ m \in Nat
    BY <2>1
  <2> HIDE DEF U, m
  <2>4. p \in Seq(U)
    BY <2>3
  <2>5. Len(p) = m
    BY <2>3, <2>4, LenProperties
  <2> QED
    BY <2>2, <2>4, <2>5 DEF U, m
<1> HIDE DEF n, part
<1>6. \A i \in 1..n : FlattenSeq(part[i]) \in Seq(T)
  BY <1>5, Flattened
<1>7. rows \in Seq(Seq(T)) /\ Len(rows) = n /\ \A i \in 1..n : rows[i] = FlattenSeq(part[i])
  <2>1. rows \in [1..n -> Seq(T)] /\ \A i \in 1..n : rows[i] = FlattenSeq(part[i])
    BY <1>6
  <2> HIDE DEF rows
  <2> QED
    BY <1>1, <2>1
<1> HIDE DEF rows
<1>8. flat \in Seq(T)
  BY <1>7, Flattened
<1>9. /\ Distinct(flat) \in Seq(T) /\ ToSet(Distinct(flat)) = ToSet(flat)
      /\ Once(Distinct(flat))
  BY <1>8, DistinctIs DEF Once
<1>10. ASSUME NEW i \in 1..n, NEW k \in 1..4, NEW e, Meet(i, k) = <<e>>
       PROVE  e \in ToSet(flat)
  <2>1. part[i][k] = <<e>> /\ part[i] \in Seq(Seq(T)) /\ k \in 1..Len(part[i])
    BY <1>5, <1>10
  <2>2. 1 \in 1..Len(part[i][k]) /\ part[i][k][1] = e
    BY <2>1
  <2>3. e \in ToSet(rows[i])
    BY <1>7, <2>1, <2>2, InFlat
  <2>4. PICK j \in DOMAIN rows[i] : rows[i][j] = e
    BY <2>3 DEF ToSet
  <2>5. j \in 1..Len(rows[i])
    BY <1>6, <1>7, <2>4, LenProperties
  <2> QED
    BY <1>7, <2>4, <2>5, InFlat
<1> QED
  BY <1>3, <1>9, <1>10 DEF T, n, Meet

\* The cell j is at most two to the right of i, or below it (MapView ColoursShown).
IsClose(i, j, w) ==
  \/ (i - 1) \div w = (j - 1) \div w /\ ((j - 1) % w) - ((i - 1) % w) \in 1..2
  \/ (i - 1) % w = (j - 1) % w /\ ((j - 1) \div w) - ((i - 1) \div w) \in 1..2

\* The cell i is the one in the row y and the column x.
IsCell(i, w, y, x) == i \in Nat /\ y \in Nat /\ x \in 0..w - 1 /\ i = w * y + x + 1

\* Two columns of a row, and two rows of a column.
LEMMA RightOf ==
  ASSUME NEW w \in Nat \ {0}, NEW i, NEW j, NEW a, NEW b, NEW p,
         IsCell(i, w, p, a), IsCell(j, w, p, b)
  PROVE  a + (b - a) < w /\ i + (b - a) + 0 * w = j
<1>1. w * p \in Nat /\ 0 * w = 0
  BY DEF IsCell
<1> DEFINE z == w * p
<1>2. z \in Nat /\ i = z + a + 1 /\ j = z + b + 1
  BY <1>1 DEF IsCell
<1> HIDE DEF z
<1>3. a + (b - a) < w /\ i + (b - a) + 0 = j
  BY <1>2 DEF IsCell
<1> QED
  BY <1>1, <1>3

LEMMA Below ==
  ASSUME NEW w \in Nat \ {0}, NEW i, NEW j, NEW a, NEW p, NEW q,
         IsCell(i, w, p, a), IsCell(j, w, q, a)
  PROVE  a + 0 < w /\ i + 0 + (q - p) * w = j
<1>1. w * p \in Nat /\ w * q \in Nat /\ (q - p) * w = w * q - w * p
  BY SMTT(20) DEF IsCell
<1> DEFINE y == w * p
           z == w * q
<1>2. y \in Nat /\ z \in Nat /\ i = y + a + 1 /\ j = z + a + 1 /\ (q - p) * w = z - y
  BY <1>1 DEF IsCell
<1> HIDE DEF y, z
<1>3. i + 0 + (z - y) = j /\ a + 0 < w
  BY <1>2 DEF IsCell
<1> QED
  BY <1>2, <1>3

\* The scan finds the rooms of two close cells next to each other.
LEMMA CloseMeet ==
  ASSUME NEW codes \in Seq(Nat), NEW w \in Nat \ {0}, NEW i \in 1..Len(codes),
         NEW j \in 1..Len(codes), IsClose(i, j, w), codes[i] # codes[j],
         codes[i] >= ROOM_CODE_BASE, codes[j] >= ROOM_CODE_BASE
  PROVE  /\ codes[j] \in ToSet(NeighboursOf(codes, w, codes[i]))
         /\ codes[i] \in ToSet(NeighboursOf(codes, w, codes[j]))
<1> DEFINE n == Len(codes)
           X(k) == (k - 1) % w
           Y(k) == (k - 1) \div w
<1>1. n \in Nat /\ \A k \in 1..n : codes[k] \in Nat
  BY ElementOfSeq, LenProperties
<1>2. \A k \in 1..n : X(k) \in 0..w - 1 /\ Y(k) \in Nat /\ k = w * Y(k) + X(k) + 1
  <2> TAKE k \in 1..n
  <2>1. \A q \in Nat : q % w \in 0..w - 1 /\ q \div w \in Nat /\ q = w * (q \div w) + (q % w)
    BY SMTT(20)
  <2>2. k - 1 \in Nat /\ k = (k - 1) + 1
    BY <1>1
  <2> QED
    BY <2>1, <2>2
<1>3. \E k \in 1..4 : Ahead(codes, w, i, Reach[k]) = codes[j]
  <2>1. IsCell(i, w, Y(i), X(i)) /\ IsCell(j, w, Y(j), X(j))
    BY <1>1, <1>2 DEF IsCell
  <2>2. j <= Len(codes)
    BY <1>1
  <2>3. ASSUME NEW d, X(i) + d[1] < w, i + d[1] + d[2] * w = j
        PROVE  Ahead(codes, w, i, d) = codes[j]
    BY <2>2, <2>3, Zenon DEF Ahead
  <2>4. \/ Y(i) = Y(j) /\ X(j) - X(i) \in 1..2
        \/ X(i) = X(j) /\ Y(j) - Y(i) \in 1..2
    BY DEF IsClose
  <2> HIDE DEF X, Y
  <2>5. CASE Y(i) = Y(j) /\ X(j) - X(i) \in 1..2
    <3> DEFINE x == X(j) - X(i)
    <3>1. x \in 1..2 /\ X(i) + x < w /\ i + x + 0 * w = j
      BY <2>1, <2>5, RightOf
    <3> HIDE DEF x
    <3> DEFINE d == <<x, 0>>
    <3>2. Ahead(codes, w, i, d) = codes[j]
      BY <2>3, <3>1
    <3>3. d = Reach[1] \/ d = Reach[2]
      BY <3>1 DEF Reach
    <3> HIDE DEF d
    <3> QED
      BY <3>2, <3>3
  <2>6. CASE X(i) = X(j) /\ Y(j) - Y(i) \in 1..2
    <3> DEFINE y == Y(j) - Y(i)
    <3>1. y \in 1..2 /\ X(i) + 0 < w /\ i + 0 + y * w = j
      BY <2>1, <2>6, Below
    <3> HIDE DEF y
    <3> DEFINE d == <<0, y>>
    <3>2. Ahead(codes, w, i, d) = codes[j]
      BY <2>3, <3>1
    <3>3. d = Reach[3] \/ d = Reach[4]
      BY <3>1 DEF Reach
    <3> HIDE DEF d
    <3> QED
      BY <3>2, <3>3
  <2> QED
    BY <2>4, <2>5, <2>6
<1>4. PICK k \in 1..4 : Ahead(codes, w, i, Reach[k]) = codes[j]
  BY <1>3
<1>5. /\ Meets(codes[i], codes[j], codes[i]) = <<codes[j]>>
      /\ Meets(codes[i], codes[j], codes[j]) = <<codes[i]>>
  BY <1>1 DEF Meets, ROOM_CODE_BASE
<1> QED
  BY <1>4, <1>5, NeighboursAre

\* What the colouring has to keep: rooms that are each other's neighbours differ,
\* as long as there are colours enough.
Proper(color, near) ==
  Cardinality(DOMAIN color) <= ROOM_COLOR_SETS =>
    \A a, b \in DOMAIN color :
      a \in ToSet(near[b]) /\ b \in ToSet(near[a]) => color[a] # color[b]

\* A queue with more at its end.
Keeps(longer, queue) ==
  /\ Len(longer) >= Len(queue)
  /\ \A k \in 1..Len(queue) : longer[k] = queue[k]

\* A queue that gets what it does not have has each room once.
LEMMA Queued ==
  ASSUME NEW R, NEW queue \in Seq(R), NEW more \in Seq(R), Once(queue), Once(more),
         \A k \in 1..Len(more) : ~Contains(queue, more[k])
  PROVE  queue \o more \in Seq(R) /\ Once(queue \o more) /\ Keeps(queue \o more, queue)
<1> DEFINE q == queue \o more
           n == Len(queue)
<1>1. /\ n \in Nat /\ Len(more) \in Nat /\ q \in Seq(R) /\ Len(q) = n + Len(more)
      /\ \A i \in 1..n + Len(more) : q[i] = IF i <= n THEN queue[i] ELSE more[i - n]
  BY ConcatProperties, LenProperties
<1> HIDE DEF q, n
<1>2. \A i \in 1..n : q[i] = queue[i]
  <2>1. \A i \in 1..n : i \in 1..n + Len(more) /\ i <= n
    BY <1>1
  <2> QED
    BY <1>1, <2>1
<1>3. \A i \in 1..n + Len(more) : i \notin 1..n => i - n \in 1..Len(more) /\ q[i] = more[i - n]
  BY <1>1
<1>4. \A i \in 1..n : \A k \in 1..Len(more) : queue[i] # more[k]
  BY DEF Contains, n
<1>5. ASSUME NEW k \in 1..n + Len(more), NEW l \in 1..n + Len(more), q[k] = q[l]
      PROVE  k = l
  <2>1. CASE k \in 1..n /\ l \in 1..n
    BY <1>2, <1>5, <2>1 DEF Once, n
  <2>2. CASE k \in 1..n /\ l \notin 1..n
    BY <1>2, <1>3, <1>4, <1>5, <2>2
  <2>3. CASE k \notin 1..n /\ l \in 1..n
    BY <1>2, <1>3, <1>4, <1>5, <2>3
  <2>4. CASE k \notin 1..n /\ l \notin 1..n
    <3>1. k - n = l - n
      BY <1>3, <1>5, <2>4 DEF Once
    <3> QED
      BY <1>1, <3>1
  <2> QED
    BY <2>1, <2>2, <2>3, <2>4
<1>6. Once(q)
  BY <1>1, <1>5 DEF Once
<1>7. Keeps(q, queue)
  BY <1>1, <1>2 DEF Keeps, n
<1> QED
  BY <1>1, <1>6, <1>7 DEF q

LEMMA VisitedKeeps ==
  ASSUME NEW R, IsFiniteSet(R), NEW queue \in Seq(R), NEW room \in R, NEW near,
         near[room] \in Seq(R \ {room}), NEW color, DOMAIN color \in SUBSET R,
         Proper(color, near), Once(queue), Once(near[room])
  PROVE  LET v == Visited(queue, color, room, near)
         IN  /\ v.queue \in Seq(R) /\ Keeps(v.queue, queue) /\ Once(v.queue)
             /\ DOMAIN v.color = DOMAIN color \cup {room} /\ Proper(v.color, near)
<1> DEFINE v == Visited(queue, color, room, near)
           met == near[room]
           P == {i \in DOMAIN met : ~Contains(queue, met[i])}
           N == ToSet(met) \cap DOMAIN color
           used == {color[n] : n \in N}
<1>1. v.queue = queue \o Pick(met, P)
  BY DEF Visited
<1>2. v.color = [c \in DOMAIN color \cup {room} |->
                   IF c # room THEN color[c] ELSE FreeColor(used)]
  BY DEF Visited
<1> DEFINE w == v.color
<1> HIDE DEF v, met, w
<1>3. /\ DOMAIN w = DOMAIN color \cup {room} /\ w[room] = FreeColor(used)
      /\ \A c \in DOMAIN color : c # room => w[c] = color[c]
  BY <1>2 DEF w
<1>4. met \in Seq(R \ {room})
  BY DEF met
<1>5. v.queue \in Seq(R) /\ Keeps(v.queue, queue) /\ Once(v.queue)
  <2>1. met \in Seq(R)
    <3>1. R \ {room} \subseteq R
      OBVIOUS
    <3>2. Len(met) \in Nat /\ met \in [1..Len(met) -> R \ {room}]
      BY <1>4, LenProperties
    <3> DEFINE l == Len(met)
    <3>3. l \in Nat /\ met \in [1..l -> R]
      BY <3>2
    <3> HIDE DEF l
    <3> QED
      BY <3>3
  <2>2. P \in SUBSET (1..Len(met))
    BY <2>1, LenProperties
  <2>3. \A i \in P : ~Contains(queue, met[i])
    OBVIOUS
  <2> HIDE DEF P
  <2> DEFINE more == Pick(met, P)
             a == Ascending(P)
  <2>4. /\ more \in Seq(R) /\ Len(more) = Len(a) /\ Rises(a, P)
        /\ \A k \in 1..Len(a) : a[k] \in P /\ more[k] = met[a[k]]
    BY <2>1, <2>2, PickIs
  <2> HIDE DEF more, a
  <2>5. \A k \in 1..Len(more) : ~Contains(queue, more[k])
    BY <2>3, <2>4
  <2>6. Once(more)
    <3> SUFFICES ASSUME NEW k \in 1..Len(a), NEW l \in 1..Len(a), more[k] = more[l]
                 PROVE  k = l
      BY <2>4 DEF Once
    <3>1. a[k] \in 1..Len(met) /\ a[l] \in 1..Len(met) /\ met[a[k]] = met[a[l]]
      BY <2>2, <2>4
    <3>2. a[k] = a[l] /\ a[k] \in Int
      BY <3>1 DEF Once, met
    <3>3. ~(k < l) /\ ~(l < k)
      BY <2>4, <3>2 DEF Rises
    <3>4. Len(a) \in Nat
      BY <2>4, LenProperties
    <3> QED
      BY <3>3, <3>4
  <2> QED
    BY <1>1, <2>4, <2>5, <2>6, Queued DEF more
<1>7. Proper(w, near)
  <2> SUFFICES ASSUME Cardinality(DOMAIN w) <= 6,
                      NEW a \in DOMAIN w, NEW b \in DOMAIN w,
                      a \in ToSet(near[b]), b \in ToSet(near[a])
               PROVE  w[a] # w[b]
    BY DEF Proper, ROOM_COLOR_SETS
  <2> DEFINE D == DOMAIN color \cup {room}
  <2>1. IsFiniteSet(D) /\ Cardinality(D) \in Nat /\ Cardinality(D) <= 6
    <3>1. D \in SUBSET R /\ D = DOMAIN w
      BY <1>3
    <3> HIDE DEF D
    <3> QED
      BY <3>1, FS_Subset, FS_CardinalityType
  <2>2. Cardinality(DOMAIN color) <= 6
    <3>1. DOMAIN color \in SUBSET D
      OBVIOUS
    <3>2. Cardinality(DOMAIN color) <= Cardinality(D) /\ Cardinality(DOMAIN color) \in Nat
      BY <2>1, <3>1, FS_Subset, FS_CardinalityType
    <3> HIDE DEF D
    <3> QED
      BY <2>1, <3>2
  <2>3. room \notin ToSet(met)
    <3>1. \A k \in 1..Len(met) : met[k] \in R \ {room}
      BY <1>4, ElementOfSeq
    <3> QED
      BY <1>4, <3>1, LenProperties DEF ToSet
  <2>4. FreeColor(used) \notin used
    <3>1. IsFiniteSet(D \ {room}) /\ Cardinality(D \ {room}) = Cardinality(D) - 1
      <4>1. room \in D
        OBVIOUS
      <4> HIDE DEF D
      <4> QED
        BY <2>1, <4>1, FS_RemoveElement
    <3>2. N \in SUBSET (D \ {room})
      BY <2>3
    <3>3. IsFiniteSet(N) /\ Cardinality(N) <= Cardinality(D \ {room}) /\ Cardinality(N) \in Nat
      BY <3>1, <3>2, FS_Subset, FS_CardinalityType
    <3> DEFINE f == [n \in N |-> color[n]]
    <3>4. f \in Surjection(N, used)
      BY DEF Surjection
    <3> HIDE DEF N, used, f
    <3>5. IsFiniteSet(used) /\ Cardinality(used) <= Cardinality(N) /\ Cardinality(used) \in Nat
      BY <3>3, <3>4, FS_Surjection, FS_CardinalityType
    <3>6. Cardinality(used) < ROOM_COLOR_SETS
      BY <2>1, <3>1, <3>3, <3>5 DEF ROOM_COLOR_SETS
    <3> QED
      BY <3>5, <3>6, ColourIsFree
  <2>5. \A c \in DOMAIN color : c # room /\ c \in ToSet(met) => color[c] \in used
    OBVIOUS
  <2> HIDE DEF used
  <2>6. a # room \/ b # room
    BY <2>3 DEF met
  <2>7. CASE a # room /\ b # room
    <3>1. color[a] # color[b]
      BY <1>3, <2>2, <2>7 DEF Proper, ROOM_COLOR_SETS
    <3> QED
      BY <1>3, <2>7, <3>1
  <2>8. CASE a = room /\ b # room
    BY <1>3, <2>4, <2>5, <2>8 DEF met
  <2>9. CASE a # room /\ b = room
    BY <1>3, <2>4, <2>5, <2>9 DEF met
  <2> QED
    BY <2>6, <2>7, <2>8, <2>9
<1> QED
  BY <1>3, <1>5, <1>7 DEF v, w

\* A queue that is shorter than there are rooms lacks one of them, and gets it.
LEMMA RefilledIs ==
  ASSUME NEW R, IsFiniteSet(R), NEW order \in Seq(R), Len(order) = Cardinality(R),
         R \subseteq ToSet(order), NEW queue \in Seq(R), NEW k \in 1..Len(order),
         Len(queue) >= k - 1, Once(queue)
  PROVE  LET longer == Refilled(queue, k, order)
         IN  longer \in Seq(R) /\ Len(longer) >= k /\ Once(longer) /\ Keeps(longer, queue)
<1>1. /\ DOMAIN order = 1..Len(order) /\ Len(order) \in Nat /\ Len(queue) \in Nat
      /\ DOMAIN queue = 1..Len(queue)
  BY LenProperties
<1>2. CASE k <= Len(queue)
  <2>1. Refilled(queue, k, order) = queue
    BY <1>2 DEF Refilled
  <2> QED
    BY <1>1, <1>2, <2>1 DEF Keeps
<1>3. CASE ~(k <= Len(queue))
  <2> DEFINE missing == {l \in DOMAIN order : ~Contains(queue, order[l])}
             S == ToSet(queue)
  <2>1. missing # {}
    <3> SUFFICES ASSUME missing = {} PROVE FALSE
      OBVIOUS
    <3>1. R \in SUBSET S
      <4>1. \A l \in DOMAIN order : Contains(queue, order[l])
        OBVIOUS
      <4>2. \A e \in R : Contains(queue, e)
        BY <4>1 DEF ToSet
      <4> QED
        BY <1>1, <4>2 DEF Contains, ToSet
    <3>2. IsFiniteSet(1..Len(queue)) /\ Cardinality(1..Len(queue)) = Len(queue)
      <4> DEFINE l == Len(queue)
      <4>1. l \in Nat /\ 1 \in Int /\ l \in Int
        BY <1>1
      <4> HIDE DEF l
      <4>2. IsFiniteSet(1..l) /\ Cardinality(1..l) = IF 1 > l THEN 0 ELSE l - 1 + 1
        BY <4>1, FS_Interval, Zenon
      <4>3. (IF 1 > l THEN 0 ELSE l - 1 + 1) = l
        BY <4>1
      <4> QED
        BY <4>2, <4>3 DEF l
    <3> DEFINE f == [i \in 1..Len(queue) |-> queue[i]]
    <3>3. f \in Surjection(1..Len(queue), S)
      BY <1>1 DEF Surjection, ToSet
    <3> HIDE DEF S, f
    <3>4. IsFiniteSet(S) /\ Cardinality(S) <= Len(queue)
      BY <3>2, <3>3, FS_Surjection
    <3>5. Cardinality(R) <= Cardinality(S)
      BY <3>1, <3>4, FS_Subset
    <3>6. Cardinality(S) \in Nat /\ Cardinality(R) \in Nat
      BY <3>4, FS_CardinalityType
    <3> QED
      BY <1>1, <1>3, <3>4, <3>5, <3>6
  <2>2. missing \subseteq 1..Len(order)
    BY <1>1
  <2>7. \A l \in missing : ~Contains(queue, order[l])
    OBVIOUS
  <2> HIDE DEF missing
  <2>3. Min(missing) \in 1..Len(order) /\ ~Contains(queue, order[Min(missing)])
    <3>1. missing \subseteq Nat
      BY <1>1, <2>2
    <3>2. Min(missing) \in missing
      BY <2>1, <3>1, MinIs
    <3> QED
      BY <2>2, <2>7, <3>2
  <2>4. Refilled(queue, k, order) = Append(queue, order[Min(missing)])
    BY <1>3 DEF Refilled, missing
  <2>5. order[Min(missing)] \in R
    BY <2>3, ElementOfSeq
  <2> DEFINE e == order[Min(missing)]
  <2>6. /\ Append(queue, e) \in Seq(R) /\ Len(Append(queue, e)) = Len(queue) + 1
        /\ Append(queue, e) = queue \o <<e>>
    BY <2>5, AppendProperties, AppendIsConcat
  <2>8. e \in R /\ ~Contains(queue, e)
    BY <2>3, <2>5
  <2> HIDE DEF e
  <2>9. /\ <<e>> \in Seq(R) /\ Once(<<e>>)
        /\ \A l \in 1..Len(<<e>>) : ~Contains(queue, <<e>>[l])
    BY <2>8 DEF Once
  <2>10. Once(queue \o <<e>>) /\ Keeps(queue \o <<e>>, queue)
    BY <2>9, Queued
  <2> QED
    BY <1>1, <1>3, <2>4, <2>6, <2>10 DEF e
<1> QED
  BY <1>2, <1>3

\* toRenderData's colouring: whatever the order in which the rooms are visited, every
\* room is coloured, and neighbours differently when there are no more rooms than
\* colours (MapParser.js:410 "neighbours always differ").
THEOREM NeighboursDiffer ==
  ASSUME NEW R, IsFiniteSet(R), NEW order \in Seq(R), Len(order) = Cardinality(R),
         R \subseteq ToSet(order), NEW near,
         \A a \in R : near[a] \in Seq(R \ {a}) /\ Once(near[a]),
         NEW start \in Seq(R), Once(start)
  PROVE  LET color == Coloring(order, near, start)
         IN  DOMAIN color = R /\ Proper(color, near)
<1> DEFINE n == Len(order)
           first == [queue |-> start, color |-> [c \in {} |-> 0]]
           Then(i, v) == LET queue == Refilled(v.queue, i, order)
                         IN  Visited(queue, v.color, queue[i], near)
           walk[i \in 0..n] == IF i = 0 THEN first ELSE Then(i, walk[i - 1])
           F(f) == [i \in 0..n |-> IF i = 0 THEN first ELSE Then(i, f[i - 1])]
           Walks(g, m) == /\ g = [i \in 0..m |-> g[i]] /\ g[0] = first
                          /\ \A i \in 1..m : g[i] = Then(i, g[i - 1])
           T == {m \in 0..n : \E g : Walks(g, m)}
<1>1. n \in Nat
  BY LenProperties
<1>2. Coloring(order, near, start) = walk[n].color
  BY DEF Coloring
<1>3. walk = CHOOSE f : f = F(f)
  BY DEF walk
<1> HIDE DEF walk, n, first, Then
<1>4. n \in T
  <2>1. 0 \in T
    <3> DEFINE g == [i \in 0..0 |-> first]
    <3>1. g[0] = first /\ g = [i \in 0..0 |-> g[i]] /\ 1..0 = {}
      OBVIOUS
    <3> HIDE DEF g
    <3>2. Walks(g, 0)
      BY <3>1
    <3> HIDE DEF Walks
    <3> QED
      BY <1>1, <3>2
  <2>2. ASSUME NEW m \in 1..n, m - 1 \in T
        PROVE  m \in T
    <3>1. PICK g : Walks(g, m - 1)
      BY <2>2
    <3> DEFINE h == [i \in 0..m |-> IF i = m THEN Then(m, g[m - 1]) ELSE g[i]]
    <3>2. m \in Nat /\ m # 0 /\ m \in 0..n
      BY <1>1
    <3>3. \A i \in 1..m : i - 1 \in 0..m /\ i - 1 # m /\ i \in 0..m
                          /\ (i # m => i \in 1..m - 1)
      BY <3>2
    <3>4. h[0] = first
      <4>1. 0 \in 0..m
        BY <3>2
      <4> QED
        BY <3>1, <3>2, <4>1
    <3>5. \A i \in 1..m : h[i] = Then(i, h[i - 1])
      <4> TAKE i \in 1..m
      <4>1. h[i - 1] = g[i - 1]
        BY <3>3
      <4>2. CASE i = m
        <5>1. h[i] = Then(m, g[m - 1])
          BY <3>3, <4>2
        <5> QED
          BY <4>1, <4>2, <5>1
      <4>3. CASE i # m
        <5>1. h[i] = g[i] /\ i \in 1..m - 1
          BY <3>3, <4>3
        <5> QED
          BY <3>1, <4>1, <5>1
      <4> QED
        BY <4>2, <4>3
    <3>6. h = [i \in 0..m |-> h[i]]
      OBVIOUS
    <3> HIDE DEF h
    <3>7. Walks(h, m)
      BY <3>4, <3>5, <3>6
    <3> HIDE DEF Walks
    <3> QED
      BY <3>2, <3>7
  <2> HIDE DEF T
  <2>3. 0..n \subseteq T
    BY <1>1, <2>1, <2>2, Upwards
  <2> QED
    BY <1>1, <2>3
<1>5. \E f : f = F(f)
  <2>1. PICK g : Walks(g, n)
    BY <1>4
  <2>2. \A i \in 0..n : g[i] = IF i = 0 THEN first ELSE Then(i, g[i - 1])
    <3>1. \A i \in 0..n : i # 0 => i \in 1..n
      BY <1>1
    <3> QED
      BY <2>1, <3>1, Zenon
  <2>3. g = F(g)
    BY <2>1, <2>2
  <2> QED
    BY <2>3
<1>6. walk = F(walk)
  BY <1>3, <1>5
<1>7. walk[0] = first /\ \A i \in 1..n : walk[i] = Then(i, walk[i - 1])
  <2>1. \A i \in 0..n : walk[i] = IF i = 0 THEN first ELSE Then(i, walk[i - 1])
    BY <1>6
  <2>2. 0 \in 0..n /\ \A i \in 1..n : i \in 0..n /\ i # 0
    BY <1>1
  <2> QED
    BY <2>1, <2>2, Zenon
<1> DEFINE Entries(queue, i) == {queue[k] : k \in 1..i}
           Good(i) == /\ walk[i].queue \in Seq(R) /\ Len(walk[i].queue) >= i
                      /\ Once(walk[i].queue) /\ Proper(walk[i].color, near)
                      /\ DOMAIN walk[i].color = Entries(walk[i].queue, i)
           G == {i \in 0..n : Good(i)}
<1>8. 0 \in G
  <2>1. walk[0].queue = start /\ walk[0].color = [c \in {} |-> 0]
    BY <1>7 DEF first
  <2>2. Len(start) >= 0
    BY LenProperties
  <2>3. DOMAIN walk[0].color = {} /\ Entries(start, 0) = {}
    BY <2>1
  <2>4. Proper(walk[0].color, near)
    BY <2>3 DEF Proper
  <2> QED
    BY <1>1, <2>1, <2>2, <2>3, <2>4
<1>9. ASSUME NEW i \in 1..n, i - 1 \in G
      PROVE  i \in G
  <2> DEFINE v == walk[i - 1]
             queue == Refilled(v.queue, i, order)
  <2>1. /\ v.queue \in Seq(R) /\ Len(v.queue) >= i - 1 /\ Once(v.queue)
        /\ DOMAIN v.color = Entries(v.queue, i - 1) /\ Proper(v.color, near)
    BY <1>9
  <2>2. walk[i] = Visited(queue, v.color, queue[i], near)
    BY <1>7 DEF Then
  <2> HIDE DEF v
  <2>3. queue \in Seq(R) /\ Len(queue) >= i /\ Once(queue) /\ Keeps(queue, v.queue)
    BY <2>1, RefilledIs DEF n
  <2> HIDE DEF queue
  <2>4. queue[i] \in R
    <3>1. i \in 1..Len(queue)
      BY <1>1, <2>3, LenProperties
    <3> QED
      BY <2>3, <3>1, ElementOfSeq
  <2>5. near[queue[i]] \in Seq(R \ {queue[i]}) /\ Once(near[queue[i]])
    BY <2>4
  <2> DEFINE room == queue[i]
             color == v.color
             u == Visited(queue, color, room, near)
  <2>9. /\ Len(v.queue) \in Nat /\ Len(queue) \in Nat /\ i \in Nat
        /\ \A k \in 1..i - 1 : /\ k \in 1..Len(v.queue) /\ k \in 1..Len(queue)
                               /\ v.queue[k] = queue[k] /\ queue[k] \in R
        /\ i \in 1..Len(queue) /\ 1..i = (1..i - 1) \cup {i}
    <3>1. Len(v.queue) \in Nat /\ Len(queue) \in Nat /\ i \in Nat
      BY <1>1, <2>1, <2>3, LenProperties
    <3>2. \A k \in 1..i - 1 : k \in 1..Len(v.queue) /\ k \in 1..Len(queue)
      BY <2>1, <2>3, <3>1
    <3>3. \A k \in 1..i - 1 : v.queue[k] = queue[k] /\ queue[k] \in R
      BY <2>3, <3>2, ElementOfSeq DEF Keeps
    <3>4. i \in 1..Len(queue) /\ 1..i = (1..i - 1) \cup {i}
      BY <1>1, <2>3, <3>1
    <3> QED
      BY <3>1, <3>2, <3>3, <3>4
  <2>10. DOMAIN color = Entries(queue, i - 1) /\ DOMAIN color \in SUBSET R
    BY <2>1, <2>9
  <2>6. /\ u.queue \in Seq(R) /\ Keeps(u.queue, queue) /\ Once(u.queue)
        /\ DOMAIN u.color = DOMAIN color \cup {room} /\ Proper(u.color, near)
    <3>1. room \in R /\ near[room] \in Seq(R \ {room}) /\ Once(near[room])
      BY <2>4, <2>5
    <3>2. DOMAIN color \in SUBSET R /\ Proper(color, near)
      BY <2>1, <2>10
    <3> HIDE DEF room, color
    <3> QED
      BY <2>3, <3>1, <3>2, VisitedKeeps
  <2>8. walk[i] = u
    BY <2>2
  <2> HIDE DEF u
  <2>7. Len(walk[i].queue) >= i /\ i \in 0..n
    <3>1. Len(u.queue) \in Nat /\ Len(queue) \in Nat /\ i \in Nat
      BY <1>1, <2>3, <2>6, LenProperties
    <3> QED
      BY <1>1, <2>3, <2>6, <2>8, <3>1 DEF Keeps
  <2>11. DOMAIN u.color = Entries(u.queue, i)
    <3>1. DOMAIN u.color = Entries(queue, i)
      <4>1. Entries(queue, i) = Entries(queue, i - 1) \cup {queue[i]}
        BY <2>9
      <4> QED
        BY <2>6, <2>10, <4>1
    <3>2. \A k \in 1..i : u.queue[k] = queue[k]
      BY <2>6, <2>9 DEF Keeps
    <3>3. Entries(u.queue, i) = Entries(queue, i)
      BY <3>2
    <3> QED
      BY <3>1, <3>3
  <2> QED
    BY <2>6, <2>7, <2>8, <2>11
<1>10. n \in G
  <2> HIDE DEF G
  <2>1. 0..n \subseteq G
    BY <1>1, <1>8, <1>9, Upwards
  <2> QED
    BY <1>1, <2>1
<1>11. DOMAIN walk[n].color = R
  <2> DEFINE q == walk[n].queue
             at == [k \in 1..n |-> q[k]]
  <2>1. q \in Seq(R) /\ Len(q) >= n /\ Once(q) /\ Len(q) \in Nat
        /\ DOMAIN walk[n].color = Entries(q, n)
    BY <1>10, LenProperties
  <2> HIDE DEF q
  <2>2. \A k \in 1..n : k \in 1..Len(q) /\ q[k] \in R
    <3>1. \A k \in 1..n : k \in 1..Len(q)
      BY <1>1, <2>1
    <3> QED
      BY <2>1, <3>1, ElementOfSeq
  <2>3. at \in Injection(1..n, R)
    BY <2>1, <2>2 DEF Injection, IsInjective, Once
  <2>4. IsFiniteSet(1..n) /\ Cardinality(1..n) = n
    <3>1. IsFiniteSet(1..n) /\ Cardinality(1..n) = IF 1 > n THEN 0 ELSE n - 1 + 1
      <4>1. 1 \in Int /\ n \in Int
        BY <1>1
      <4> QED
        BY <4>1, FS_Interval, Zenon
    <3> QED
      BY <1>1, <3>1
  <2>5. n = Cardinality(R)
    BY DEF n
  <2> HIDE DEF at
  <2>6. at \in Surjection(1..n, R)
    BY <2>3, <2>4, <2>5, FS_Injection
  <2>7. \A e \in R : \E k \in 1..n : q[k] = e
    BY <2>6 DEF Surjection, at
  <2> QED
    BY <2>1, <2>2, <2>7
<1> QED
  BY <1>2, <1>10, <1>11

\* The rooms of a map have numbers for ids.
RoomsKnown(m) ==
  /\ m.rooms \in Seq(ToSet(m.rooms))
  /\ \A r \in ToSet(m.rooms) : r.id \in Nat

\* The codes of a map's picture, and the rooms they stand for.
RoomsOf(m) == RoomIds(m, Cropped(m, Crop(m)))
CodesOf(m) == Codes(Cropped(m, Crop(m)), RoomsOf(m))

\* A drawn cell has its code in the picture, and its room in the list.
LEMMA DrawnCell ==
  ASSUME NEW m, WithCells(m), RoomsKnown(m), NEW p \in Drawn(m)
  PROVE  LET c == Crop(m)
             x == p[1] - c.x
             y == p[2] - c.y
             v == CellAt(m, p[1], p[2])
         IN  /\ x \in 0..c.w - 1 /\ y \in 0..c.h - 1 /\ Len(CodesOf(m)) = c.w * c.h
             /\ y * c.w + x + 1 \in 1..c.w * c.h /\ v \in Nat
             /\ CodesOf(m)[y * c.w + x + 1] = CellCode(v, Kind(v), RoomsOf(m))
             /\ RoomsOf(m) \in Seq(Nat)
             /\ Kind(v) = "room" => roomIdOf(v) \in ToSet(RoomsOf(m))
<1> DEFINE c == Crop(m)
           cells == Cropped(m, c)
           ids == RoomsOf(m)
           codes == CodesOf(m)
           x == p[1] - c.x
           y == p[2] - c.y
           i == y * c.w + x + 1
           v == CellAt(m, p[1], p[2])
           S == ToSet(m.rooms)
<1>1. Drawn(m) # {}
  OBVIOUS
<1>2. /\ cells \in Seq(Nat) /\ Len(cells) = c.w * c.h
  BY <1>1, CroppedIs
<1>3. x \in 0..c.w - 1 /\ y \in 0..c.h - 1 /\ i \in 1..c.w * c.h /\ cells[i] = v
  BY CroppedAt
<1>4. m.rooms \in Seq(S) /\ \A r \in S : r.id \in Nat
  BY DEF RoomsKnown
<1>5. ids = RoomIds(m, cells) /\ codes = Codes(cells, ids)
  BY DEF RoomsOf, CodesOf
<1> HIDE DEF cells, S, ids, codes
<1>6. /\ ids \in Seq(Nat)
      /\ \A k \in 1..Len(cells) : Kind(cells[k]) = "room" => roomIdOf(cells[k]) \in ToSet(ids)
  BY <1>2, <1>4, <1>5, RoomIdsAre
<1>7. codes \in Seq(Nat) /\ Len(codes) = Len(cells)
  BY <1>2, <1>5, <1>6, CodesAre
<1> HIDE DEF x, y, i, c, v
<1>8. v \in Nat
  BY <1>2, <1>3, ElementOfSeq
<1>9. codes[i] = CellCode(v, Kind(v), ids)
  <2>1. i \in DOMAIN cells
    BY <1>2, <1>3, LenProperties
  <2> QED
    BY <1>3, <1>5, <2>1 DEF Codes
<1>10. Kind(v) = "room" => roomIdOf(v) \in ToSet(ids)
  BY <1>2, <1>3, <1>6
<1> QED
  BY <1>2, <1>3, <1>6, <1>7, <1>8, <1>9, <1>10 DEF x, y, i, c, v, ids, codes

\* Where the colouring starts is one of the rooms, or nowhere.
LEMMA StartIs ==
  ASSUME NEW R, NEW order \in Seq(R), NEW codes, NEW crop, NEW dock
  PROVE  Start(order, codes, crop, dock) \in Seq(R) /\ Once(Start(order, codes, crop, dock))
<1> DEFINE inPicture == /\ dock # Null
                        /\ dock[1] \in 0..crop.w - 1 /\ dock[2] \in 0..crop.h - 1
           home == IF inPicture THEN codes[dock[2] * crop.w + dock[1] + 1] ELSE 0
<1>1. Start(order, codes, crop, dock) =
        IF Contains(order, home) THEN <<home>>
        ELSE IF order = <<>> THEN <<>> ELSE <<Head(order)>>
  BY DEF Start
<1> HIDE DEF home
<1>2. Contains(order, home) => home \in R
  BY ElementOfSeq DEF Contains
<1>3. order # <<>> => Head(order) \in R
  BY HeadTailProperties
<1>4. <<>> \in Seq(R) /\ Once(<<>>) /\ \A e \in R : <<e>> \in Seq(R) /\ Once(<<e>>)
  BY DEF Once
<1> QED
  BY <1>1, <1>2, <1>3, <1>4

\* Every room of a picture is coloured, and close ones differently when there are no
\* more rooms than colours.
LEMMA ColoursOfClose ==
  ASSUME NEW codes \in Seq(Nat), NEW w \in Nat \ {0},
         NEW start \in Seq(Present(codes)), Once(start),
         NEW near, near = [c \in Present(codes) |-> NeighboursOf(codes, w, c)],
         NEW color, color = Coloring(BySize(codes), near, start)
  PROVE  /\ DOMAIN color = Present(codes)
         /\ Cardinality(DOMAIN color) <= ROOM_COLOR_SETS =>
              \A i, j \in 1..Len(codes) :
                /\ IsClose(i, j, w) /\ codes[i] # codes[j]
                /\ codes[i] \in Present(codes) /\ codes[j] \in Present(codes)
                => color[codes[i]] # color[codes[j]]
<1> DEFINE R == Present(codes)
           order == BySize(codes)
<1>1. /\ IsFiniteSet(R) /\ R \in SUBSET Nat /\ order \in Seq(R)
      /\ Len(order) = Cardinality(R) /\ R \subseteq ToSet(order)
  BY BySizeIs
<1>2. \A a \in R : /\ near[a] = NeighboursOf(codes, w, a) /\ near[a] \in Seq(R \ {a})
                   /\ Once(near[a])
  BY NeighboursAre
<1>3. \A a \in R : a >= ROOM_CODE_BASE
  BY DEF Present
<1> HIDE DEF R, order
<1>4. DOMAIN color = R /\ Proper(color, near)
  <2>1. start \in Seq(R) /\ color = Coloring(order, near, start)
    BY DEF R, order
  <2>2. \A a \in R : near[a] \in Seq(R \ {a}) /\ Once(near[a])
    BY <1>2
  <2>3. /\ IsFiniteSet(R) /\ order \in Seq(R) /\ Len(order) = Cardinality(R)
        /\ R \subseteq ToSet(order)
    BY <1>1
  <2>4. LET painted == Coloring(order, near, start)
        IN  DOMAIN painted = R /\ Proper(painted, near)
    BY <2>1, <2>2, <2>3, NeighboursDiffer, Zenon
  <2> QED
    BY <2>1, <2>4, Zenon
<1> SUFFICES ASSUME Cardinality(DOMAIN color) <= ROOM_COLOR_SETS,
                    NEW i \in 1..Len(codes), NEW j \in 1..Len(codes), IsClose(i, j, w),
                    codes[i] # codes[j], codes[i] \in R, codes[j] \in R
             PROVE  color[codes[i]] # color[codes[j]]
  BY <1>4 DEF R
<1>6. /\ codes[j] \in ToSet(NeighboursOf(codes, w, codes[i]))
      /\ codes[i] \in ToSet(NeighboursOf(codes, w, codes[j]))
  BY <1>3, CloseMeet
<1>7. codes[j] \in ToSet(near[codes[i]]) /\ codes[i] \in ToSet(near[codes[j]])
  BY <1>2, <1>6
<1> QED
  BY <1>4, <1>7 DEF Proper

\* toRenderData: what the picture of a map is, whatever its size and its rooms
\* (MapParser.js:434): the widget unpacks the codes of the cells, labels are in their
\* rooms, every room has a colour, and close rooms have different ones.
THEOREM PictureIs ==
  ASSUME NEW m, WithCells(m), RoomsKnown(m), Drawn(m) # {}
  PROVE  LET pic == toRenderData(m)
             c == Crop(m)
             codes == CodesOf(m)
         IN  /\ pic.width = c.w /\ pic.height = c.h /\ pic.meta = RenderMeta(m, c)
             /\ pic.dock = ToDisplay(m, c, m.dock)
             /\ codes \in Seq(Nat) /\ Unrolled(pic.cells) = codes
             /\ DOMAIN pic.name = Present(codes)
             /\ \A a \in Present(codes) :
                  /\ a = RoomCode(RoomsOf(m), RoomsOf(m)[a - ROOM_CODE_BASE + 1])
                  /\ RoomsOf(m)[a - ROOM_CODE_BASE + 1] \in Nat
                  /\ pic.name[a] = NameOf(m, RoomsOf(m)[a - ROOM_CODE_BASE + 1])
             /\ \A a \in DOMAIN pic.label : codes[pic.label[a]] = a
             /\ DOMAIN pic.color = Present(codes)
             /\ Cardinality(DOMAIN pic.color) <= ROOM_COLOR_SETS =>
                  \A i, j \in 1..Len(codes) :
                    /\ IsClose(i, j, c.w) /\ codes[i] # codes[j]
                    /\ codes[i] \in Present(codes) /\ codes[j] \in Present(codes)
                    => pic.color[codes[i]] # pic.color[codes[j]]
<1> DEFINE pic == toRenderData(m)
           c == Crop(m)
           ids == RoomsOf(m)
           codes == CodesOf(m)
           rooms == Present(codes)
           near == [a \in rooms |-> NeighboursOf(codes, c.w, a)]
           dock == ToDisplay(m, c, m.dock)
           start == Start(BySize(codes), codes, c, dock)
<1>1. pic = Rendered(m, c, ids, codes)
  BY DEF toRenderData, RoomsOf, CodesOf
<1>2. c.w \in Nat \ {0}
  BY CroppedIs
<1>3. /\ codes \in Seq(Nat)
      /\ \A a \in rooms : /\ a = RoomCode(ids, ids[a - ROOM_CODE_BASE + 1])
                          /\ ids[a - ROOM_CODE_BASE + 1] \in Nat
  <2> DEFINE cells == Cropped(m, c)
             S == ToSet(m.rooms)
  <2>1. cells \in Seq(Nat)
    BY CroppedIs
  <2>2. m.rooms \in Seq(S) /\ \A r \in S : r.id \in Nat
    BY DEF RoomsKnown
  <2>3. ids = RoomIds(m, cells) /\ codes = Codes(cells, ids)
    BY DEF RoomsOf, CodesOf
  <2> HIDE DEF cells, S, ids, codes
  <2>4. /\ ids \in Seq(Nat)
        /\ \A i \in 1..Len(cells) : Kind(cells[i]) = "room" => roomIdOf(cells[i]) \in ToSet(ids)
    BY <2>1, <2>2, <2>3, RoomIdsAre
  <2> QED
    BY <2>1, <2>3, <2>4, CodesAre
<1> HIDE DEF c, ids, codes
<1>4. /\ pic.width = c.w /\ pic.height = c.h /\ pic.meta = RenderMeta(m, c)
      /\ pic.dock = dock /\ pic.cells = Runs(codes)
      /\ pic.color = Coloring(BySize(codes), near, start)
      /\ pic.name = [a \in rooms |-> NameOf(m, ids[a - ROOM_CODE_BASE + 1])]
      /\ pic.label = [a \in rooms |-> LabelCell(CellsOf(codes, a), c.w)]
  BY <1>1 DEF Rendered
<1> HIDE DEF pic
<1>5. Unrolled(pic.cells) = codes
  BY <1>3, <1>4, RunsUnrolled
<1>6. \A a \in DOMAIN pic.label : codes[pic.label[a]] = a
  <2>1. \A a \in rooms : LabelCell(CellsOf(codes, a), c.w) \in CellsOf(codes, a)
    BY <1>2, <1>3, LabelInRoom
  <2>2. \A a \in rooms : codes[LabelCell(CellsOf(codes, a), c.w)] = a
    BY <2>1 DEF CellsOf
  <2> QED
    BY <1>4, <2>2
<1>7. /\ DOMAIN pic.color = rooms
      /\ Cardinality(DOMAIN pic.color) <= ROOM_COLOR_SETS =>
           \A i, j \in 1..Len(codes) :
             /\ IsClose(i, j, c.w) /\ codes[i] # codes[j]
             /\ codes[i] \in rooms /\ codes[j] \in rooms
             => pic.color[codes[i]] # pic.color[codes[j]]
  <2>1. start \in Seq(rooms) /\ Once(start)
    <3>1. BySize(codes) \in Seq(rooms)
      BY <1>3, BySizeIs
    <3> HIDE DEF rooms, dock
    <3> QED
      BY <3>1, StartIs
  <2> DEFINE color == pic.color
  <2>2. color = Coloring(BySize(codes), near, start)
    BY <1>4
  <2>3. near = [a \in Present(codes) |-> NeighboursOf(codes, c.w, a)]
    OBVIOUS
  <2> HIDE DEF color, near, start
  <2>4. rooms = Present(codes)
    OBVIOUS
  <2> HIDE DEF rooms
  <2>5. start \in Seq(Present(codes))
    BY <2>1, <2>4
  <2>6. /\ DOMAIN color = Present(codes)
        /\ Cardinality(DOMAIN color) <= ROOM_COLOR_SETS =>
             \A i, j \in 1..Len(codes) :
               /\ IsClose(i, j, c.w) /\ codes[i] # codes[j]
               /\ codes[i] \in Present(codes) /\ codes[j] \in Present(codes)
               => color[codes[i]] # color[codes[j]]
    <3>1. codes \in Seq(Nat) /\ Once(start)
      BY <1>3, <2>1
    <3> DEFINE w == c.w
    <3>2. w \in Nat \ {0} /\ near = [a \in Present(codes) |-> NeighboursOf(codes, w, a)]
      BY <1>2, <2>3
    <3> HIDE DEF w
    <3>3. DOMAIN color = Present(codes)
      BY <2>2, <2>5, <3>1, <3>2, ColoursOfClose
    <3>4. ASSUME Cardinality(DOMAIN color) <= ROOM_COLOR_SETS,
                 NEW i \in 1..Len(codes), NEW j \in 1..Len(codes), IsClose(i, j, w),
                 codes[i] # codes[j], codes[i] \in Present(codes), codes[j] \in Present(codes)
          PROVE  color[codes[i]] # color[codes[j]]
      BY <2>2, <2>5, <3>1, <3>2, <3>4, ColoursOfClose
    <3> QED
      BY <3>3, <3>4 DEF w
  <2> QED
    BY <2>4, <2>6 DEF color
<1> QED
  BY <1>3, <1>4, <1>5, <1>6, <1>7 DEF pic, c, ids, codes
=============================================================================
