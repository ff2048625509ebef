---------------------------- MODULE ArrayProofs -----------------------------
(***************************************************************************)
(* What Without, a suffix and an append contain, for arrays of any length. *)
(***************************************************************************)
EXTENDS Arrays, SequenceTheorems, FiniteSetTheorems, TLAPS

Injective(s) == \A i, j \in DOMAIN s : s[i] = s[j] => i = j

\* Splicing one position out of an array (queue.splice(index, 1)): its type, its
\* length, and where each remaining item comes from.
LEMMA WithoutProperties ==
    ASSUME NEW S, NEW s \in Seq(S), NEW n \in DOMAIN s
    PROVE  /\ Without(s, n) \in Seq(S)
           /\ Len(Without(s, n)) = Len(s) - 1
           /\ \A k \in 1..(Len(s) - 1) :
                 Without(s, n)[k] = IF k < n THEN s[k] ELSE s[k + 1]
<1> DEFINE f == SubSeq(s, 1, n - 1)
           g == SubSeq(s, n + 1, Len(s))
<1>1. Len(s) \in Nat /\ n \in 1..Len(s) /\ \A i \in 1..Len(s) : s[i] \in S
  BY LenProperties, ElementOfSeq
<1>2. /\ f \in Seq(S)
      /\ Len(f) = n - 1
      /\ \A i \in 1..(n - 1) : f[i] = s[i]
  <2>1. \A i \in 1..(n - 1) : s[i] \in S
    BY <1>1
  <2>2. /\ f \in Seq(S)
        /\ Len(f) = IF 1 <= n - 1 THEN (n - 1) - 1 + 1 ELSE 0
        /\ \A i \in 1..((n - 1) - 1 + 1) : f[i] = s[1 + i - 1]
    BY <1>1, <2>1, SubSeqProperties
  <2>3. QED
    BY <1>1, <2>2
<1>3. /\ g \in Seq(S)
      /\ Len(g) = Len(s) - n
      /\ \A i \in 1..(Len(s) - n) : g[i] = s[n + i]
  <2>1. \A i \in (n + 1)..Len(s) : s[i] \in S
    BY <1>1
  <2>2. /\ g \in Seq(S)
        /\ Len(g) = IF n + 1 <= Len(s) THEN Len(s) - (n + 1) + 1 ELSE 0
        /\ \A i \in 1..(Len(s) - (n + 1) + 1) : g[i] = s[(n + 1) + i - 1]
    BY <1>1, <2>1, SubSeqProperties
  <2>3. QED
    BY <1>1, <2>2
<1>4. /\ f \o g \in Seq(S)
      /\ Len(f \o g) = Len(f) + Len(g)
      /\ \A i \in 1..(Len(f) + Len(g)) :
            (f \o g)[i] = IF i <= Len(f) THEN f[i] ELSE g[i - Len(f)]
  BY <1>2, <1>3, ConcatProperties
<1>5. Without(s, n) = f \o g
  BY DEF Without
<1> HIDE DEF f, g
<1>6. Len(f) + Len(g) = Len(s) - 1
  BY <1>1, <1>2, <1>3
<1>7. ASSUME NEW k \in 1..(Len(s) - 1)
      PROVE  (f \o g)[k] = IF k < n THEN s[k] ELSE s[k + 1]
  <2>1. CASE k < n
    BY <1>1, <1>2, <1>4, <1>6, <2>1
  <2>2. CASE ~(k < n)
    <3>1. (f \o g)[k] = g[k - (n - 1)]
      <4>1. k \in 1..(Len(f) + Len(g)) /\ ~(k <= Len(f))
        BY <1>1, <1>2, <1>6, <2>2
      <4>2. QED
        BY <1>2, <1>4, <4>1
    <3>2. k - (n - 1) \in 1..(Len(s) - n)
      BY <1>1, <2>2
    <3>3. g[k - (n - 1)] = s[k + 1]
      BY <1>1, <1>3, <3>2
    <3>4. QED
      BY <2>2, <3>1, <3>3
  <2>3. QED
    BY <2>1, <2>2
<1>8. QED
  BY <1>4, <1>5, <1>6, <1>7

\* Splicing an item out of an array of distinct items removes it and nothing
\* else, and the rest stay distinct.
LEMMA WithoutElements ==
    ASSUME NEW S, NEW s \in Seq(S), Injective(s), NEW n \in DOMAIN s
    PROVE  /\ Elements(Without(s, n)) = Elements(s) \ {s[n]}
           /\ Injective(Without(s, n))
<1> DEFINE w == Without(s, n)
<1>1. Len(s) \in Nat /\ DOMAIN s = 1..Len(s) /\ n \in 1..Len(s)
  BY LenProperties
<1>2. /\ DOMAIN w = 1..(Len(s) - 1)
      /\ \A k \in 1..(Len(s) - 1) : w[k] = IF k < n THEN s[k] ELSE s[k + 1]
  BY WithoutProperties, LenProperties
<1>3. ASSUME NEW i \in 1..Len(s), i # n
      PROVE  \E k \in 1..(Len(s) - 1) : w[k] = s[i]
  <2>1. CASE i < n
    BY <1>1, <1>2, <2>1
  <2>2. CASE i > n
    <3>1. i - 1 \in 1..(Len(s) - 1) /\ ~(i - 1 < n) /\ (i - 1) + 1 = i
      BY <1>1, <2>2
    <3>2. QED
      BY <1>2, <3>1
  <2>3. QED
    BY <1>1, <1>3, <2>1, <2>2
<1>4. ASSUME NEW k \in 1..(Len(s) - 1)
      PROVE  \E i \in 1..Len(s) : i # n /\ w[k] = s[i]
  <2>1. CASE k < n
    BY <1>1, <1>2, <2>1
  <2>2. CASE ~(k < n)
    <3>1. k + 1 \in 1..Len(s) /\ k + 1 # n /\ w[k] = s[k + 1]
      BY <1>1, <1>2, <2>2
    <3>2. QED
      BY <3>1
  <2>3. QED
    BY <2>1, <2>2
<1> HIDE DEF w
<1>5. Elements(w) = Elements(s) \ {s[n]}
  <2>1. ASSUME NEW x \in Elements(w)
        PROVE  x \in Elements(s) /\ x # s[n]
    <3>1. PICK k \in 1..(Len(s) - 1) : w[k] = x
      BY <1>2, <2>1 DEF Elements
    <3>2. PICK i \in 1..Len(s) : i # n /\ w[k] = s[i]
      BY <1>4
    <3>3. QED
      BY <1>1, <3>1, <3>2 DEF Elements, Injective
  <2>2. ASSUME NEW x \in Elements(s), x # s[n]
        PROVE  x \in Elements(w)
    BY <1>1, <1>2, <1>3, <2>2 DEF Elements
  <2>3. QED
    BY <2>1, <2>2
<1>6. Injective(w)
  <2> SUFFICES ASSUME NEW j \in 1..(Len(s) - 1), NEW k \in 1..(Len(s) - 1), w[j] = w[k]
               PROVE  j = k
    BY <1>2 DEF Injective
  <2>1. (IF j < n THEN j ELSE j + 1) = (IF k < n THEN k ELSE k + 1)
    BY <1>1, <1>2 DEF Injective
  <2>2. QED
    BY <1>1, <2>1
<1>7. QED
  BY <1>5, <1>6 DEF w

\* Dropping the first n items of an array of distinct items.
LEMMA SuffixElements ==
    ASSUME NEW S, NEW s \in Seq(S), Injective(s), NEW n \in DOMAIN s
    PROVE  LET t == SubSeq(s, n + 1, Len(s))
           IN  /\ t \in Seq(S)
               /\ Elements(t) = Elements(s) \ {s[j] : j \in 1..n}
               /\ Injective(t)
<1> DEFINE t == SubSeq(s, n + 1, Len(s))
<1>1. Len(s) \in Nat /\ DOMAIN s = 1..Len(s) /\ n \in 1..Len(s)
  BY LenProperties
<1>2. /\ t \in Seq(S)
      /\ Len(t) = Len(s) - n
      /\ \A k \in 1..(Len(s) - n) : t[k] = s[n + k]
  <2>1. \A i \in (n + 1)..Len(s) : s[i] \in S
    BY <1>1, ElementOfSeq
  <2>2. /\ t \in Seq(S)
        /\ Len(t) = IF n + 1 <= Len(s) THEN Len(s) - (n + 1) + 1 ELSE 0
        /\ \A i \in 1..(Len(s) - (n + 1) + 1) : t[i] = s[(n + 1) + i - 1]
    BY <1>1, <2>1, SubSeqProperties
  <2>3. QED
    BY <1>1, <2>2
<1>3. DOMAIN t = 1..(Len(s) - n)
  BY <1>2, LenProperties
<1> HIDE DEF t
<1>4. ASSUME NEW i \in 1..Len(s), i \notin 1..n
      PROVE  \E k \in 1..(Len(s) - n) : t[k] = s[i]
  <2>1. i - n \in 1..(Len(s) - n) /\ n + (i - n) = i
    BY <1>1, <1>4
  <2>2. QED
    BY <1>2, <2>1
<1>5. ASSUME NEW k \in 1..(Len(s) - n)
      PROVE  n + k \in 1..Len(s) /\ n + k \notin 1..n /\ t[k] = s[n + k]
  BY <1>1, <1>2
<1>6. Elements(t) = Elements(s) \ {s[j] : j \in 1..n}
  <2>1. \A j \in 1..n : j \in 1..Len(s)
    BY <1>1
  <2>2. ASSUME NEW x \in Elements(t)
        PROVE  x \in Elements(s) /\ x \notin {s[j] : j \in 1..n}
    <3>1. PICK k \in 1..(Len(s) - n) : t[k] = x
      BY <1>3, <2>2 DEF Elements
    <3>2. n + k \in 1..Len(s) /\ n + k \notin 1..n /\ x = s[n + k]
      BY <1>5, <3>1
    <3>3. QED
      BY <1>1, <2>1, <3>2 DEF Elements, Injective
  <2>3. ASSUME NEW x \in Elements(s), x \notin {s[j] : j \in 1..n}
        PROVE  x \in Elements(t)
    BY <1>1, <1>3, <1>4, <2>3 DEF Elements
  <2>4. QED
    BY <2>2, <2>3
<1>7. Injective(t)
  <2> SUFFICES ASSUME NEW j \in 1..(Len(s) - n), NEW k \in 1..(Len(s) - n), t[j] = t[k]
               PROVE  j = k
    BY <1>3 DEF Injective
  <2>1. n + j = n + k
    BY <1>1, <1>5 DEF Injective
  <2>2. QED
    BY <1>1, <2>1
<1>8. QED
  BY <1>2, <1>6, <1>7 DEF t

\* Appending a new item to an array of distinct items.
LEMMA AppendElements ==
    ASSUME NEW S, NEW s \in Seq(S), NEW e \in S
    PROVE  /\ Elements(Append(s, e)) = Elements(s) \cup {e}
           /\ Injective(s) /\ e \notin Elements(s) => Injective(Append(s, e))
<1> DEFINE a == Append(s, e)
<1>1. /\ Len(s) \in Nat /\ DOMAIN s = 1..Len(s)
      /\ DOMAIN a = 1..(Len(s) + 1)
      /\ \A i \in 1..Len(s) : a[i] = s[i]
      /\ a[Len(s) + 1] = e
  BY LenProperties, AppendProperties
<1>2. \A i \in 1..(Len(s) + 1) : i \in 1..Len(s) \/ i = Len(s) + 1
  BY <1>1
<1>3. \A i \in 1..Len(s) : i \in 1..(Len(s) + 1)
  BY <1>1
<1>4. Len(s) + 1 \in 1..(Len(s) + 1)
  BY <1>1
<1>5. Elements(a) = Elements(s) \cup {e}
  BY <1>1, <1>2, <1>3, <1>4 DEF Elements
<1>6. Injective(s) /\ e \notin Elements(s) => Injective(a)
  BY <1>1, <1>2 DEF Elements, Injective
<1>7. QED
  BY <1>5, <1>6

\* Shifting an array (queue.shift()).
LEMMA TailElements ==
    ASSUME NEW S, NEW s \in Seq(S), Injective(s), s # <<>>
    PROVE  /\ Head(s) \in Elements(s) /\ Tail(s) \in Seq(S)
           /\ Elements(Tail(s)) = Elements(s) \ {Head(s)}
           /\ Injective(Tail(s))
<1>1. Len(s) \in Nat \ {0} /\ DOMAIN s = 1..Len(s)
  BY EmptySeq, LenProperties
<1>2. Tail(s) = SubSeq(s, 1 + 1, Len(s)) /\ Head(s) = s[1]
  BY TailIsSubSeq
<1>3. {s[j] : j \in 1..1} = {s[1]} /\ 1 \in DOMAIN s
  BY <1>1
<1>4. /\ Tail(s) \in Seq(S)
      /\ Elements(Tail(s)) = Elements(s) \ {s[j] : j \in 1..1}
      /\ Injective(Tail(s))
  BY <1>2, <1>3, SuffixElements
<1>5. s[1] \in Elements(s)
  BY <1>3 DEF Elements
<1>6. QED
  BY <1>2, <1>3, <1>4, <1>5

\* Different positions have different ranks, and the ranks are 1, 2, ...
LEMMA RankProperties ==
    ASSUME NEW K \in SUBSET Nat, IsFiniteSet(K)
    PROVE  /\ Cardinality(K) \in Nat
           /\ \A i \in 1..Cardinality(K) : \E n \in K : Rank(K, n) = i
           /\ \A n \in K : Rank(K, n) \in 1..Cardinality(K)
           /\ \A m, n \in K : Rank(K, m) = Rank(K, n) => m = n
<1> DEFINE k == Cardinality(K)
           upTo(n) == {m \in K : m <= n}
           f == [n \in K |-> Rank(K, n)]
<1>1. k \in Nat
  BY FS_CardinalityType
<1>2. ASSUME NEW n \in K
      PROVE  /\ IsFiniteSet(upTo(n))
             /\ Cardinality(upTo(n)) \in 1..k
  <2>1. upTo(n) \in SUBSET K /\ n \in upTo(n)
    OBVIOUS
  <2>2. IsFiniteSet(upTo(n)) /\ Cardinality(upTo(n)) <= k
    BY <2>1, FS_Subset
  <2>3. Cardinality(upTo(n)) \in Nat /\ Cardinality(upTo(n)) # 0
    BY <2>1, <2>2, FS_CardinalityType, FS_EmptySet
  <2>4. QED
    BY <1>1, <2>2, <2>3
<1>3. ASSUME NEW m \in K, NEW n \in K, m < n
      PROVE  Cardinality(upTo(m)) # Cardinality(upTo(n))
  <2>1. m \in Nat /\ n \in Nat
    OBVIOUS
  <2>2. \A x \in K : x <= m => x <= n
    BY <1>3, <2>1
  <2>3. upTo(m) \subseteq upTo(n)
    BY <2>2
  <2>4. n <= n /\ ~(n <= m)
    BY <1>3, <2>1
  <2>5. n \in upTo(n) /\ n \notin upTo(m)
    BY <2>4
  <2>6. QED
    BY <1>2, <2>3, <2>5, FS_Subset
<1>4. f \in Injection(K, 1..k)
  <2>1. f \in [K -> 1..k]
    BY <1>2 DEF Rank
  <2>2. ASSUME NEW m \in K, NEW n \in K, f[m] = f[n]
        PROVE  m = n
    <3>1. m < n \/ n < m \/ m = n
      OBVIOUS
    <3>2. QED
      BY <1>3, <2>2, <3>1 DEF Rank
  <2>3. QED
    BY <2>1, <2>2 DEF Injection, IsInjective
<1>5. f \in Surjection(K, 1..k)
  BY <1>1, <1>4, FS_Interval, FS_Injection
<1>6. QED
  BY <1>1, <1>4, <1>5 DEF Injection, IsInjective, Surjection

\* Keeping some items of an array.
LEMMA OnlyElements ==
    ASSUME NEW S, NEW s \in Seq(S), NEW T
    PROVE  /\ Only(s, T) \in Seq(S)
           /\ Elements(Only(s, T)) = Elements(s) \cap T
           /\ Injective(s) => Injective(Only(s, T))
<1> DEFINE K == Kept(s, T)
           k == Cardinality(K)
           at(i) == CHOOSE n \in K : Rank(K, n) = i
           o == Only(s, T)
<1>1. Len(s) \in Nat /\ DOMAIN s = 1..Len(s) /\ \A n \in DOMAIN s : s[n] \in S
  BY LenProperties, ElementOfSeq
<1>2. K \in SUBSET (1..Len(s)) /\ K \in SUBSET Nat /\ IsFiniteSet(K)
  <2>1. K \in SUBSET (1..Len(s)) /\ 1..Len(s) \in SUBSET Nat
    BY <1>1 DEF Kept
  <2>2. IsFiniteSet(1..Len(s))
    BY <1>1, FS_Interval
  <2>3. QED
    BY <2>1, <2>2, FS_Subset
<1>3. k \in Nat /\ \A i \in 1..k : at(i) \in K /\ Rank(K, at(i)) = i
  BY <1>2, RankProperties
<1>4. ASSUME NEW n \in K
      PROVE  \E i \in 1..k : at(i) = n
  BY <1>2, <1>3, RankProperties
<1>5. o = [i \in 1..k |-> s[at(i)]]
  BY DEF Only
<1> HIDE DEF at, o, k
<1>6. o \in Seq(S)
  BY <1>1, <1>2, <1>3, <1>5
<1>7. DOMAIN o = 1..k /\ \A i \in 1..k : o[i] = s[at(i)]
  BY <1>5
<1>8. \A n \in K : n \in DOMAIN s /\ s[n] \in T
  BY DEF Kept
<1>9. Elements(o) = Elements(s) \cap T
  <2>1. \A x \in Elements(o) : x \in Elements(s) /\ x \in T
    BY <1>3, <1>7, <1>8 DEF Elements
  <2>2. ASSUME NEW n \in DOMAIN s, s[n] \in T
        PROVE  s[n] \in Elements(o)
    <3>1. n \in K
      BY <2>2 DEF Kept
    <3>2. QED
      BY <1>4, <1>7, <3>1 DEF Elements
  <2>3. QED
    BY <2>1, <2>2 DEF Elements
<1>10. ASSUME Injective(s)
       PROVE  Injective(o)
  BY <1>3, <1>7, <1>8, <1>10 DEF Injective
<1>11. QED
  BY <1>6, <1>9, <1>10 DEF o

-----------------------------------------------------------------------------
\* f picks the positions of s with items in T, in their order, and o is what it finds.
Picks(f, s, T, o) ==
    /\ f \in [DOMAIN o -> Kept(s, T)]
    /\ \A i, j \in DOMAIN o : i < j => f[i] < f[j]
    /\ \A n \in Kept(s, T) : \E i \in DOMAIN o : f[i] = n
    /\ \A i \in DOMAIN o : o[i] = s[f[i]]

LEMMA KeptPositions ==
    ASSUME NEW S, NEW s \in Seq(S), NEW T
    PROVE  /\ Kept(s, T) \in SUBSET (1..Len(s)) /\ Kept(s, T) \in SUBSET Nat
           /\ IsFiniteSet(Kept(s, T))
<1>1. Len(s) \in Nat /\ DOMAIN s = 1..Len(s)
  BY LenProperties
<1>2. Kept(s, T) \in SUBSET (1..Len(s)) /\ 1..Len(s) \in SUBSET Nat
  BY <1>1 DEF Kept
<1>3. IsFiniteSet(1..Len(s))
  BY <1>1, FS_Interval
<1>4. QED
  BY <1>2, <1>3, FS_Subset

\* Only picks what it keeps, ...
LEMMA OnlyPicks ==
    ASSUME NEW S, NEW s \in Seq(S), NEW T
    PROVE  \E f : Picks(f, s, T, Only(s, T))
<1> DEFINE K == Kept(s, T)
           k == Cardinality(K)
           at(i) == CHOOSE n \in K : Rank(K, n) = i
           f == [i \in 1..k |-> at(i)]
           o == Only(s, T)
<1>1. K \in SUBSET Nat /\ IsFiniteSet(K)
  BY KeptPositions
<1>2. k \in Nat /\ \A i \in 1..k : at(i) \in K /\ Rank(K, at(i)) = i
  BY <1>1, RankProperties
<1>3. \A n \in K : \E i \in 1..k : at(i) = n
  BY <1>1, <1>2, RankProperties
<1>4. o = [i \in 1..k |-> s[at(i)]]
  BY DEF Only
<1> HIDE DEF at, o, k, K
<1>5. ASSUME NEW i \in 1..k, NEW j \in 1..k, i < j
      PROVE  at(i) < at(j)
  <2>1. at(i) \in Nat /\ at(j) \in Nat
    BY <1>1, <1>2
  <2>2. CASE at(j) <= at(i)
    <3>1. ASSUME NEW m \in K, m <= at(j)
          PROVE  m <= at(i)
      <4>1. m \in Nat
        BY <1>1
      <4>2. QED
        BY <2>1, <2>2, <3>1, <4>1
    <3>2. IsFiniteSet({m \in K : m <= at(i)})
      BY <1>1, FS_Subset
    <3>3. {m \in K : m <= at(j)} \in SUBSET {m \in K : m <= at(i)}
      BY <3>1
    <3>4. Rank(K, at(j)) <= Rank(K, at(i))
      BY <3>2, <3>3, FS_Subset DEF Rank
    <3>5. QED
      BY <1>2, <1>5, <3>4
  <2>3. QED
    BY <2>1, <2>2
<1>6. DOMAIN o = 1..k /\ \A i \in 1..k : o[i] = s[f[i]]
  BY <1>4
<1>7. Picks(f, s, T, o)
  BY <1>2, <1>3, <1>5, <1>6 DEF Picks, K
<1>8. QED
  BY <1>7 DEF o

\* ... and whatever is picked so is what Only keeps.
LEMMA PicksOnly ==
    ASSUME NEW S, NEW s \in Seq(S), NEW T, NEW R, NEW o \in Seq(R), NEW f, Picks(f, s, T, o)
    PROVE  o = Only(s, T)
<1> DEFINE K == Kept(s, T)
           k == Len(o)
<1>1. K \in SUBSET Nat /\ IsFiniteSet(K)
  BY KeptPositions
<1>2. k \in Nat /\ DOMAIN o = 1..k /\ o = [i \in 1..k |-> o[i]]
  BY LenProperties
<1> HIDE DEF K, k
<1>3. /\ f \in [1..k -> K]
      /\ \A i, j \in 1..k : i < j => f[i] < f[j]
      /\ \A n \in K : \E i \in 1..k : f[i] = n
      /\ \A i \in 1..k : o[i] = s[f[i]] /\ f[i] \in Nat
  BY <1>1, <1>2 DEF Picks, K
<1>4. \A i, j \in 1..k : f[i] <= f[j] <=> i <= j
  <2> SUFFICES ASSUME NEW i \in 1..k, NEW j \in 1..k
               PROVE  f[i] <= f[j] <=> i <= j
    OBVIOUS
  <2>1. i < j \/ i = j \/ j < i
    BY <1>2
  <2>2. f[i] \in Nat /\ f[j] \in Nat
    BY <1>3
  <2>3. QED
    BY <1>2, <1>3, <2>1, <2>2
<1>5. ASSUME NEW n \in 1..k
      PROVE  Rank(K, f[n]) = n
  <2> DEFINE g == [i \in 1..n |-> f[i]]
             U == {m \in K : m <= f[n]}
  <2>1. n \in Nat /\ \A i \in 1..n : i \in 1..k /\ i <= n
    BY <1>2
  <2>2. g \in [1..n -> U]
    BY <1>3, <1>4, <2>1
  <2>3. \A m \in U : \E i \in 1..n : g[i] = m
    <3> SUFFICES ASSUME NEW m \in U
                 PROVE  \E i \in 1..n : g[i] = m
      OBVIOUS
    <3>1. PICK i \in 1..k : f[i] = m
      BY <1>3
    <3>2. i <= n
      BY <1>4, <3>1
    <3>3. QED
      BY <1>2, <2>1, <3>1, <3>2
  <2>4. \A i, j \in 1..n : g[i] = g[j] => i = j
    <3> SUFFICES ASSUME NEW i \in 1..n, NEW j \in 1..n, f[i] = f[j]
                 PROVE  i = j
      OBVIOUS
    <3>1. i \in 1..k /\ j \in 1..k /\ f[i] \in Nat
      BY <1>3, <2>1
    <3>2. i <= j /\ j <= i
      BY <1>4, <3>1
    <3>3. QED
      BY <2>1, <3>1, <3>2
  <2>5. g \in Bijection(1..n, U)
    BY <2>2, <2>3, <2>4 DEF Bijection, Injection, IsInjective, Surjection
  <2>6. Cardinality(U) = Cardinality(1..n)
    BY <2>1, <2>5, FS_Interval, FS_Bijection DEF ExistsBijection
  <2>7. QED
    BY <2>1, <2>6, FS_Interval DEF Rank
<1>6. Cardinality(K) = k
  <2>1. \A i, j \in 1..k : f[i] = f[j] => i = j
    BY <1>5
  <2>2. f \in Bijection(1..k, K)
    BY <1>3, <2>1 DEF Bijection, Injection, IsInjective, Surjection
  <2>3. k \in Nat
    BY <1>2
  <2>4. IsFiniteSet(1..k) /\ Cardinality(1..k) = k
    BY <2>3, FS_Interval
  <2>5. QED
    BY <2>2, <2>4, FS_Bijection DEF ExistsBijection
<1>7. ASSUME NEW i \in 1..k
      PROVE  (CHOOSE n \in K : Rank(K, n) = i) = f[i]
  <2>1. f[i] \in K /\ Rank(K, f[i]) = i
    BY <1>3, <1>5
  <2>2. \A m, n \in K : Rank(K, m) = Rank(K, n) => m = n
    BY <1>1, RankProperties
  <2>3. QED
    BY <2>1, <2>2
<1>8. Only(s, T) = [i \in 1..Cardinality(K) |-> s[CHOOSE n \in K : Rank(K, n) = i]]
  BY DEF Only, K
<1>9. Only(s, T) = [i \in 1..k |-> s[f[i]]]
  BY <1>6, <1>7, <1>8
<1>10. QED
  BY <1>2, <1>3, <1>9

\* What is kept of an array that grows by an item to be kept.
LEMMA OnlyAppend ==
    ASSUME NEW S, NEW s \in Seq(S), NEW T, NEW e \in S, e \in T
    PROVE  Only(Append(s, e), T) = Append(Only(s, T), e)
<1> DEFINE o == Only(s, T)
           a == Append(s, e)
           b == Append(o, e)
<1>1. PICK f : Picks(f, s, T, o)
  BY OnlyPicks
<1>2. o \in Seq(S)
  BY OnlyElements
<1>3. /\ Len(s) \in Nat /\ DOMAIN s = 1..Len(s) /\ Len(o) \in Nat /\ DOMAIN o = 1..Len(o)
      /\ a \in Seq(S) /\ DOMAIN a = 1..(Len(s) + 1)
      /\ (\A i \in 1..Len(s) : a[i] = s[i]) /\ a[Len(s) + 1] = e
      /\ b \in Seq(S) /\ DOMAIN b = 1..(Len(o) + 1)
      /\ (\A i \in 1..Len(o) : b[i] = o[i]) /\ b[Len(o) + 1] = e
  BY <1>2, LenProperties, AppendProperties
<1> DEFINE g == [i \in DOMAIN b |-> IF i = Len(o) + 1 THEN Len(s) + 1 ELSE f[i]]
<1> HIDE DEF o, a, b
<1>4. Kept(a, T) = Kept(s, T) \cup {Len(s) + 1}
  BY <1>3 DEF Kept
<1>5. \A n \in Kept(s, T) : n \in 1..Len(s)
  BY <1>3 DEF Kept
<1>6. /\ \A i \in 1..Len(o) : f[i] \in Kept(s, T) /\ o[i] = s[f[i]]
      /\ \A i, j \in 1..Len(o) : i < j => f[i] < f[j]
      /\ \A n \in Kept(s, T) : \E i \in 1..Len(o) : f[i] = n
  BY <1>1, <1>3 DEF Picks
<1>7. \A i \in DOMAIN b : i = Len(o) + 1 \/ (i \in 1..Len(o) /\ i # Len(o) + 1)
  BY <1>3
<1>8. Len(o) + 1 \in DOMAIN b /\ \A i \in 1..Len(o) : i \in DOMAIN b /\ i # Len(o) + 1
  BY <1>3
<1>9. g \in [DOMAIN b -> Kept(a, T)]
  BY <1>4, <1>6, <1>7
<1>10. ASSUME NEW i \in DOMAIN b, NEW j \in DOMAIN b, i < j
       PROVE  g[i] < g[j]
  <2>1. i \in 1..Len(o) /\ i # Len(o) + 1
    BY <1>3, <1>10
  <2>2. f[i] \in 1..Len(s) /\ g[i] = f[i]
    BY <1>5, <1>6, <2>1
  <2>3. CASE j = Len(o) + 1
    BY <1>3, <2>2, <2>3
  <2>4. CASE j # Len(o) + 1
    BY <1>6, <1>7, <1>10, <2>1, <2>2, <2>4
  <2>5. QED
    BY <2>3, <2>4
<1>11. ASSUME NEW n \in Kept(a, T)
       PROVE  \E i \in DOMAIN b : g[i] = n
  <2>1. CASE n = Len(s) + 1
    BY <1>8, <2>1
  <2>2. CASE n \in Kept(s, T)
    BY <1>6, <1>8, <2>2
  <2>3. QED
    BY <1>4, <2>1, <2>2
<1>12. ASSUME NEW i \in DOMAIN b
       PROVE  b[i] = a[g[i]]
  BY <1>3, <1>5, <1>6, <1>7
<1> HIDE DEF g
<1>13. Picks(g, a, T, b)
  BY <1>9, <1>10, <1>11, <1>12 DEF Picks
<1>14. QED
  BY <1>3, <1>13, PicksOnly DEF a, b, o

\* What is kept of an array that is cut behind the first item to be kept.
LEMMA OnlySuffix ==
    ASSUME NEW S, NEW s \in Seq(S), NEW T, NEW n \in DOMAIN s, s[n] \in T,
           \A j \in 1..(n - 1) : s[j] \notin T
    PROVE  /\ Only(s, T) # <<>> /\ Head(Only(s, T)) = s[n]
           /\ Only(SubSeq(s, n + 1, Len(s)), T) = Tail(Only(s, T))
<1> DEFINE o == Only(s, T)
           t == SubSeq(s, n + 1, Len(s))
<1>1. PICK f : Picks(f, s, T, o)
  BY OnlyPicks
<1>2. /\ o \in Seq(S) /\ Len(o) \in Nat /\ DOMAIN o = 1..Len(o)
      /\ Len(s) \in Nat /\ DOMAIN s = 1..Len(s) /\ n \in 1..Len(s)
  BY OnlyElements, LenProperties
<1>3. /\ t \in Seq(S) /\ Len(t) = Len(s) - n
      /\ \A k \in 1..(Len(s) - n) : t[k] = s[n + k]
  <2>1. \A i \in (n + 1)..Len(s) : s[i] \in S
    BY <1>2, ElementOfSeq
  <2>2. /\ t \in Seq(S)
        /\ Len(t) = IF n + 1 <= Len(s) THEN Len(s) - (n + 1) + 1 ELSE 0
        /\ \A i \in 1..(Len(s) - (n + 1) + 1) : t[i] = s[(n + 1) + i - 1]
    BY <1>2, <2>1, SubSeqProperties
  <2>3. Len(s) \in Nat /\ n \in 1..Len(s)
    BY <1>2
  <2> HIDE DEF t
  <2>4. Len(s) - (n + 1) + 1 = Len(s) - n
    BY <2>3
  <2>5. Len(t) = Len(s) - n
    BY <2>2, <2>3
  <2>6. ASSUME NEW k \in 1..(Len(s) - n)
        PROVE  t[k] = s[n + k]
    <3>1. t[k] = s[(n + 1) + k - 1]
      BY <2>2, <2>4
    <3>2. (n + 1) + k - 1 = n + k
      BY <2>3
    <3>3. QED
      BY <3>1, <3>2
  <2>7. QED
    BY <2>2, <2>5, <2>6
<1>4. DOMAIN t = 1..(Len(s) - n)
  BY <1>3, LenProperties
<1> HIDE DEF o, t
<1>5. /\ \A i \in 1..Len(o) : f[i] \in Kept(s, T) /\ o[i] = s[f[i]]
      /\ \A i, j \in 1..Len(o) : i < j => f[i] < f[j]
      /\ \A m \in Kept(s, T) : \E i \in 1..Len(o) : f[i] = m
  BY <1>1, <1>2 DEF Picks
<1>6. n \in Kept(s, T) /\ \A m \in Kept(s, T) : m \in 1..Len(s) /\ n <= m
  <2>1. ASSUME NEW m \in Kept(s, T)
        PROVE  m \in 1..Len(s) /\ n <= m
    <3>1. m \in 1..Len(s) /\ m \notin 1..(n - 1)
      BY <1>2 DEF Kept
    <3>2. QED
      BY <1>2, <3>1
  <2>2. QED
    BY <2>1 DEF Kept
<1>7. 1 \in 1..Len(o) /\ f[1] = n
  <2>1. PICK i \in 1..Len(o) : f[i] = n
    BY <1>5, <1>6
  <2>2. 1 \in 1..Len(o)
    BY <1>2, <2>1
  <2>3. CASE i # 1
    <3>1. 1 < i
      BY <1>2, <2>1, <2>3
    <3>2. f[1] < n /\ n <= f[1] /\ f[1] \in 1..Len(s)
      BY <1>5, <1>6, <2>1, <2>2, <3>1
    <3>3. QED
      BY <1>2, <3>2
  <2>4. QED
    BY <2>1, <2>2, <2>3
<1>8. o # <<>> /\ Head(o) = s[n]
  <2>1. o[1] = s[n] /\ Len(o) # 0
    BY <1>2, <1>5, <1>7
  <2>2. QED
    BY <1>2, <2>1, EmptySeq, HeadTailProperties
<1>9. /\ Tail(o) \in Seq(S) /\ DOMAIN Tail(o) = 1..(Len(o) - 1)
      /\ \A i \in 1..(Len(o) - 1) : Tail(o)[i] = o[i + 1]
  <2>1. Tail(o) \in Seq(S) /\ Len(Tail(o)) = Len(o) - 1
        /\ \A i \in 1..(Len(o) - 1) : Tail(o)[i] = o[i + 1]
    BY <1>2, <1>8, HeadTailProperties
  <2>2. QED
    BY <2>1, LenProperties
<1> DEFINE g == [i \in 1..(Len(o) - 1) |-> f[i + 1] - n]
<1>10. ASSUME NEW i \in 1..(Len(o) - 1)
       PROVE  /\ i + 1 \in 1..Len(o)
              /\ f[i + 1] \in Kept(s, T) /\ f[i + 1] \in 1..Len(s)
              /\ g[i] \in Kept(t, T) /\ g[i] + n = f[i + 1] /\ t[g[i]] = s[f[i + 1]]
  <2>1. i + 1 \in 1..Len(o) /\ 1 < i + 1
    BY <1>2
  <2>2. f[i + 1] \in Kept(s, T) /\ f[i + 1] \in 1..Len(s) /\ n < f[i + 1]
    BY <1>5, <1>6, <1>7, <2>1
  <2>3. g[i] = f[i + 1] - n
    OBVIOUS
  <2>4. g[i] \in 1..(Len(s) - n) /\ n + g[i] = f[i + 1] /\ g[i] + n = f[i + 1]
    BY <1>2, <2>2, <2>3
  <2>5. t[g[i]] = s[f[i + 1]]
    BY <1>3, <2>4
  <2>6. QED
    BY <1>4, <2>1, <2>2, <2>4, <2>5 DEF Kept
<1>11. ASSUME NEW m \in Kept(t, T)
       PROVE  \E i \in 1..(Len(o) - 1) : g[i] = m
  <2>1. m \in 1..(Len(s) - n) /\ t[m] \in T
    BY <1>4 DEF Kept
  <2>2. n + m \in Kept(s, T) /\ n + m # n
    BY <1>2, <1>3, <2>1 DEF Kept
  <2>3. PICK i \in 1..Len(o) : f[i] = n + m
    BY <1>5, <2>2
  <2>4. i # 1
    BY <1>7, <2>2, <2>3
  <2>5. i - 1 \in 1..(Len(o) - 1) /\ (i - 1) + 1 = i
    BY <1>2, <2>3, <2>4
  <2>6. g[i - 1] = f[i] - n
    BY <2>5
  <2>7. g[i - 1] = m
    BY <1>2, <2>1, <2>3, <2>6
  <2>8. QED
    BY <2>5, <2>7
<1>12. ASSUME NEW i \in 1..(Len(o) - 1), NEW j \in 1..(Len(o) - 1), i < j
       PROVE  g[i] < g[j]
  <2>1. i + 1 < j + 1
    BY <1>2, <1>12
  <2>2. f[i + 1] < f[j + 1]
    BY <1>5, <1>10, <2>1
  <2>3. g[i] = f[i + 1] - n /\ g[j] = f[j + 1] - n
    OBVIOUS
  <2>4. QED
    BY <1>2, <1>10, <2>2, <2>3
<1>13. DOMAIN g = 1..(Len(o) - 1)
  OBVIOUS
<1>14. g \in [1..(Len(o) - 1) -> Kept(t, T)]
  BY <1>10
<1> HIDE DEF g
<1>15. Picks(g, t, T, Tail(o))
  <2>1. \A i \in 1..(Len(o) - 1) : Tail(o)[i] = t[g[i]]
    BY <1>5, <1>9, <1>10
  <2>2. DOMAIN Tail(o) = 1..(Len(o) - 1)
    BY <1>9
  <2>3. QED
    BY <1>11, <1>12, <1>14, <2>1, <2>2 DEF Picks
<1>16. Tail(o) = Only(t, T)
  BY <1>3, <1>9, <1>15, PicksOnly
<1>17. QED
  BY <1>8, <1>16 DEF o, t

\* What is kept where nothing is to be kept.
LEMMA OnlyNone ==
    ASSUME NEW S, NEW s \in Seq(S), NEW T, \A n \in DOMAIN s : s[n] \notin T
    PROVE  Only(s, T) = <<>>
<1>1. Only(s, T) \in Seq(S) /\ Elements(Only(s, T)) = {}
  <2>1. Elements(s) \cap T = {}
    BY DEF Elements
  <2>2. QED
    BY <2>1, OnlyElements
<1>2. DOMAIN Only(s, T) = {}
  BY <1>1 DEF Elements
<1>3. QED
  BY <1>1, <1>2, LenProperties, EmptySeq

LEMMA OnlyEmpty ==
    ASSUME NEW T
    PROVE  Only(<<>>, T) = <<>>
<1>1. <<>> \in Seq({}) /\ \A n \in DOMAIN <<>> : <<>>[n] \notin T
  BY EmptySeq, LenProperties
<1>2. QED
  BY <1>1, OnlyNone

\* An item that is not kept may be spliced out.
LEMMA OnlyWithout ==
    ASSUME NEW S, NEW s \in Seq(S), NEW T, NEW n \in DOMAIN s, s[n] \notin T
    PROVE  Only(Without(s, n), T) = Only(s, T)
<1> DEFINE o == Only(s, T)
           w == Without(s, n)
<1>1. PICK f : Picks(f, s, T, o)
  BY OnlyPicks
<1>2. /\ o \in Seq(S) /\ Len(o) \in Nat /\ DOMAIN o = 1..Len(o)
      /\ Len(s) \in Nat /\ DOMAIN s = 1..Len(s) /\ n \in 1..Len(s)
  BY OnlyElements, LenProperties
<1>3. /\ w \in Seq(S) /\ DOMAIN w = 1..(Len(s) - 1)
      /\ \A k \in 1..(Len(s) - 1) : w[k] = IF k < n THEN s[k] ELSE s[k + 1]
  BY WithoutProperties, LenProperties
<1> HIDE DEF o, w
<1>4. /\ \A i \in DOMAIN o : f[i] \in Kept(s, T) /\ o[i] = s[f[i]]
      /\ \A i, j \in DOMAIN o : i < j => f[i] < f[j]
      /\ \A m \in Kept(s, T) : \E i \in DOMAIN o : f[i] = m
  BY <1>1 DEF Picks
<1>5. \A m \in Kept(s, T) : m \in 1..Len(s) /\ m # n /\ s[m] \in T
  BY <1>2 DEF Kept
<1> DEFINE h == [i \in DOMAIN o |-> IF f[i] < n THEN f[i] ELSE f[i] - 1]
<1>6. ASSUME NEW i \in DOMAIN o
      PROVE  h[i] \in Kept(w, T) /\ w[h[i]] = s[f[i]]
  <2>1. f[i] \in 1..Len(s) /\ f[i] # n /\ s[f[i]] \in T
    BY <1>4, <1>5
  <2>2. CASE f[i] < n
    <3>1. h[i] = f[i] /\ h[i] \in 1..(Len(s) - 1)
      BY <1>2, <2>1, <2>2
    <3>2. QED
      BY <1>3, <2>1, <2>2, <3>1 DEF Kept
  <2>3. CASE ~(f[i] < n)
    <3>1. h[i] = f[i] - 1
      BY <2>3
    <3>2. h[i] \in 1..(Len(s) - 1) /\ ~(h[i] < n) /\ h[i] + 1 = f[i]
      BY <1>2, <2>1, <2>3, <3>1
    <3>3. QED
      BY <1>3, <2>1, <3>2 DEF Kept
  <2>4. QED
    BY <2>2, <2>3
<1>7. ASSUME NEW i \in DOMAIN o, NEW j \in DOMAIN o, i < j
      PROVE  h[i] < h[j]
  <2>1. f[i] \in 1..Len(s) /\ f[j] \in 1..Len(s) /\ f[i] < f[j] /\ f[i] # n /\ f[j] # n
    BY <1>4, <1>5, <1>7
  <2>2. /\ h[i] = IF f[i] < n THEN f[i] ELSE f[i] - 1
        /\ h[j] = IF f[j] < n THEN f[j] ELSE f[j] - 1
    OBVIOUS
  <2>3. QED
    BY <1>2, <2>1, <2>2
<1>8. ASSUME NEW m \in Kept(w, T)
      PROVE  \E i \in DOMAIN o : h[i] = m
  <2>1. m \in 1..(Len(s) - 1) /\ w[m] \in T
    BY <1>3 DEF Kept
  <2>2. CASE m < n
    <3>1. m \in Kept(s, T)
      BY <1>2, <1>3, <2>1, <2>2 DEF Kept
    <3>2. QED
      BY <1>4, <2>2, <3>1
  <2>3. CASE ~(m < n)
    <3>1. m + 1 \in Kept(s, T)
      BY <1>2, <1>3, <2>1, <2>3 DEF Kept
    <3>2. PICK i \in DOMAIN o : f[i] = m + 1
      BY <1>4, <3>1
    <3>3. h[i] = IF m + 1 < n THEN m + 1 ELSE (m + 1) - 1
      BY <3>2
    <3>4. h[i] = m
      BY <1>2, <2>1, <2>3, <3>3
    <3>5. QED
      BY <3>4
  <2>4. QED
    BY <2>2, <2>3
<1>9. h \in [DOMAIN o -> Kept(w, T)]
  BY <1>6
<1>10. \A i \in DOMAIN o : o[i] = w[h[i]]
  BY <1>4, <1>6
<1> HIDE DEF h
<1>11. Picks(h, w, T, o)
  BY <1>7, <1>8, <1>9, <1>10 DEF Picks
<1>12. o = Only(w, T)
  BY <1>2, <1>3, <1>11, PicksOnly
<1>13. QED
  BY <1>12 DEF o, w

\* To keep some of what was kept.
LEMMA OnlyOnly ==
    ASSUME NEW S, NEW s \in Seq(S), NEW T, NEW R
    PROVE  Only(Only(s, T), R) = Only(s, T \cap R)
<1> DEFINE o == Only(s, T)
           p == Only(o, R)
<1>1. o \in Seq(S) /\ DOMAIN o = 1..Len(o) /\ DOMAIN o \subseteq Nat
  BY OnlyElements, LenProperties
<1>2. PICK f : Picks(f, s, T, o)
  BY OnlyPicks
<1>3. PICK g : Picks(g, o, R, p)
  BY <1>1, OnlyPicks
<1>4. p \in Seq(S)
  BY <1>1, OnlyElements
<1> HIDE DEF o, p
<1> DEFINE h == [i \in DOMAIN p |-> f[g[i]]]
<1>5. \A i \in DOMAIN p : g[i] \in DOMAIN o /\ o[g[i]] \in R /\ p[i] = o[g[i]]
  BY <1>3 DEF Picks, Kept
<1>6. \A i \in DOMAIN o : f[i] \in DOMAIN s /\ s[f[i]] \in T /\ o[i] = s[f[i]]
  BY <1>2 DEF Picks, Kept
<1>7. ASSUME NEW i \in DOMAIN p
      PROVE  h[i] \in Kept(s, T \cap R) /\ p[i] = s[h[i]]
  <2>1. h[i] = f[g[i]]
    OBVIOUS
  <2>2. QED
    BY <1>5, <1>6, <2>1 DEF Kept
<1>8. ASSUME NEW i \in DOMAIN p, NEW j \in DOMAIN p, i < j
      PROVE  h[i] < h[j]
  <2>1. g[i] < g[j] /\ g[i] \in DOMAIN o /\ g[j] \in DOMAIN o
    BY <1>3, <1>5, <1>8 DEF Picks
  <2>2. f[g[i]] < f[g[j]]
    BY <1>2, <2>1 DEF Picks
  <2>3. QED
    BY <2>2
<1>9. ASSUME NEW m \in Kept(s, T \cap R)
      PROVE  \E i \in DOMAIN p : h[i] = m
  <2>1. m \in Kept(s, T) /\ s[m] \in R
    BY DEF Kept
  <2>2. PICK i \in DOMAIN o : f[i] = m
    BY <1>2, <2>1 DEF Picks
  <2>3. i \in Kept(o, R)
    BY <1>6, <2>1, <2>2 DEF Kept
  <2>4. PICK j \in DOMAIN p : g[j] = i
    BY <1>3, <2>3 DEF Picks
  <2>5. QED
    BY <2>2, <2>4
<1>10. h \in [DOMAIN p -> Kept(s, T \cap R)]
  BY <1>7
<1>11. \A i \in DOMAIN p : p[i] = s[h[i]]
  BY <1>7
<1> HIDE DEF h
<1>12. Picks(h, s, T \cap R, p)
  BY <1>8, <1>9, <1>10, <1>11 DEF Picks
<1>13. p = Only(s, T \cap R)
  BY <1>4, <1>12, PicksOnly
<1>14. QED
  BY <1>13 DEF o, p

\* What is kept depends on which positions are.
LEMMA OnlySame ==
    ASSUME NEW s, NEW T, NEW R, \A n \in DOMAIN s : s[n] \in T <=> s[n] \in R
    PROVE  Only(s, T) = Only(s, R)
<1>1. Kept(s, T) = Kept(s, R)
  BY DEF Kept
<1>2. QED
  BY <1>1 DEF Only

\* To keep some items is to shorten an array, if anything.
LEMMA OnlyLength ==
    ASSUME NEW S, NEW s \in Seq(S), NEW T
    PROVE  /\ Len(Only(s, T)) <= Len(s)
           /\ (\E n \in DOMAIN s : s[n] \notin T) => Len(Only(s, T)) < Len(s)
<1>1. /\ Len(s) \in Nat /\ DOMAIN s = 1 .. Len(s)
      /\ Kept(s, T) \subseteq 1 .. Len(s) /\ IsFiniteSet(Kept(s, T))
  BY KeptPositions, LenProperties
<1>2. IsFiniteSet(1 .. Len(s)) /\ Cardinality(1 .. Len(s)) = Len(s)
  <2>1. /\ IsFiniteSet(1 .. Len(s))
        /\ Cardinality(1 .. Len(s)) = IF 1 > Len(s) THEN 0 ELSE Len(s) - 1 + 1
    BY <1>1, FS_Interval
  <2>2. QED
    BY <1>1, <2>1
<1>3. /\ Cardinality(Kept(s, T)) \in Nat /\ Cardinality(Kept(s, T)) <= Len(s)
      /\ Cardinality(Kept(s, T)) = Len(s) => Kept(s, T) = 1 .. Len(s)
  BY <1>1, <1>2, FS_Subset, FS_CardinalityType
<1>4. DOMAIN Only(s, T) = 1 .. Cardinality(Kept(s, T))
  BY DEF Only
<1>5. Len(Only(s, T)) = Cardinality(Kept(s, T))
  BY <1>3, <1>4, OnlyElements, LenProperties
<1>6. ASSUME NEW n \in DOMAIN s, s[n] \notin T
      PROVE  Kept(s, T) # 1 .. Len(s)
  BY <1>1, <1>6 DEF Kept
<1>7. QED
  BY <1>1, <1>3, <1>5, <1>6

\* Where two arrays have what is kept at the same positions, what is kept comes from
\* the same positions too.
LEMMA OnlyAlike ==
    ASSUME NEW S, NEW s \in Seq(S), NEW T, NEW t, NEW R, DOMAIN t = DOMAIN s,
           \A n \in DOMAIN s : s[n] \in T <=> t[n] \in R
    PROVE  /\ DOMAIN Only(t, R) = DOMAIN Only(s, T)
           /\ \A i \in DOMAIN Only(s, T) :
                 \E n \in DOMAIN s : Only(s, T)[i] = s[n] /\ Only(t, R)[i] = t[n]
<1> DEFINE K == Kept(s, T)
           at(i) == CHOOSE n \in K : Rank(K, n) = i
<1>1. Kept(t, R) = K
  BY DEF Kept
<1>2. K \in SUBSET Nat /\ IsFiniteSet(K)
  BY KeptPositions
<1>3. \A i \in 1 .. Cardinality(K) : at(i) \in K
  BY <1>2, RankProperties
<1>4. /\ Only(s, T) = [i \in 1 .. Cardinality(K) |-> s[at(i)]]
      /\ Only(t, R) = [i \in 1 .. Cardinality(K) |-> t[at(i)]]
  BY <1>1 DEF Only
<1>5. K \subseteq DOMAIN s
  BY DEF Kept
<1> HIDE DEF K, at
<1>6. QED
  BY <1>3, <1>4, <1>5

\* A suffix is what is kept of an array of distinct items for the items it has.
LEMMA SuffixIsOnly ==
    ASSUME NEW S, NEW s \in Seq(S), Injective(s), NEW n \in 0 .. Len(s), NEW t \in Seq(S),
           Len(t) = Len(s) - n, \A i \in 1 .. (Len(s) - n) : t[i] = s[n + i]
    PROVE  t = Only(s, Elements(t))
<1> DEFINE f == [i \in DOMAIN t |-> n + i]
<1>1. /\ Len(s) \in Nat /\ n \in Nat /\ n <= Len(s)
      /\ DOMAIN s = 1 .. Len(s) /\ DOMAIN t = 1 .. (Len(s) - n)
  <2>1. Len(s) \in Nat /\ DOMAIN s = 1 .. Len(s) /\ DOMAIN t = 1 .. Len(t)
    BY LenProperties
  <2>2. QED
    BY <2>1
<1>2. ASSUME NEW i \in DOMAIN t
      PROVE  f[i] = n + i /\ n + i \in DOMAIN s /\ t[i] = s[n + i] /\ f[i] \in Kept(s, Elements(t))
  <2>1. n + i \in DOMAIN s /\ t[i] = s[n + i]
    BY <1>1
  <2>2. QED
    BY <2>1 DEF Kept, Elements
<1>3. ASSUME NEW m \in Kept(s, Elements(t))
      PROVE  \E i \in DOMAIN t : f[i] = m
  <2>1. PICK i \in DOMAIN t : s[m] = t[i]
    BY DEF Kept, Elements
  <2>2. m = n + i
    BY <1>2, <2>1 DEF Kept, Injective
  <2>3. QED
    BY <2>2
<1>4. \A i, j \in DOMAIN t : i < j => f[i] < f[j]
  BY <1>1
<1>5. Picks(f, s, Elements(t), t)
  <2> HIDE DEF f
  <2>1. f \in [DOMAIN t -> Kept(s, Elements(t))]
    BY <1>2 DEF f
  <2>2. QED
    BY <1>2, <1>3, <1>4, <2>1 DEF Picks
<1>6. QED
  BY <1>5, PicksOnly

\* What two arrays in a row contain.
LEMMA ConcatElements ==
    ASSUME NEW S, NEW s \in Seq(S), NEW t \in Seq(S)
    PROVE  Elements(s \o t) = Elements(s) \cup Elements(t)
<1>1. /\ Len(s) \in Nat /\ DOMAIN s = 1 .. Len(s) /\ Len(t) \in Nat /\ DOMAIN t = 1 .. Len(t)
      /\ s \o t \in Seq(S) /\ Len(s \o t) = Len(s) + Len(t)
      /\ DOMAIN (s \o t) = 1 .. Len(s) + Len(t)
      /\ \A i \in 1 .. Len(s) + Len(t) : (s \o t)[i] = IF i <= Len(s) THEN s[i] ELSE t[i - Len(s)]
  BY ConcatProperties, LenProperties
<1>2. ASSUME NEW i \in DOMAIN (s \o t)
      PROVE  (s \o t)[i] \in Elements(s) \cup Elements(t)
  <2>1. CASE i <= Len(s)
    BY <1>1, <2>1 DEF Elements
  <2>2. CASE ~(i <= Len(s))
    <3>1. i - Len(s) \in DOMAIN t
      BY <1>1, <2>2
    <3>2. QED
      BY <1>1, <2>2, <3>1 DEF Elements
  <2>3. QED
    BY <2>1, <2>2
<1>3. ASSUME NEW i \in DOMAIN s
      PROVE  s[i] \in Elements(s \o t)
  <2>1. i \in DOMAIN (s \o t) /\ i <= Len(s)
    BY <1>1
  <2>2. QED
    BY <1>1, <2>1 DEF Elements
<1>4. ASSUME NEW i \in DOMAIN t
      PROVE  t[i] \in Elements(s \o t)
  <2>1. Len(s) + i \in DOMAIN (s \o t) /\ ~(Len(s) + i <= Len(s)) /\ (Len(s) + i) - Len(s) = i
    BY <1>1
  <2>2. (s \o t)[Len(s) + i] = t[i]
    BY <1>1, <2>1
  <2>3. QED
    BY <2>1, <2>2 DEF Elements
<1>5. QED
  BY <1>2, <1>3, <1>4 DEF Elements

\* What is kept where one position is.
LEMMA OnlyOne ==
    ASSUME NEW S, NEW s \in Seq(S), NEW T, NEW n \in DOMAIN s,
           \A m \in DOMAIN s : s[m] \in T <=> m = n
    PROVE  Only(s, T) = <<s[n]>>
<1> DEFINE f == [i \in 1 .. 1 |-> n]
           o == <<s[n]>>
<1>1. s[n] \in S
  BY LenProperties, ElementOfSeq
<1>2. o \in Seq(S) /\ DOMAIN o = 1 .. 1 /\ o[1] = s[n]
  BY <1>1
<1>3. \A i \in 1 .. 1 : i = 1
  OBVIOUS
<1>4. f[1] = n /\ Kept(s, T) = {n}
  BY DEF Kept
<1>5. Picks(f, s, T, o)
  <2> HIDE DEF o
  <2>1. f \in [DOMAIN o -> Kept(s, T)]
    BY <1>2, <1>4
  <2>2. \A i, j \in DOMAIN o : i < j => f[i] < f[j]
    BY <1>2
  <2>3. \A m \in Kept(s, T) : \E i \in DOMAIN o : f[i] = m
    BY <1>2, <1>4
  <2>4. \A i \in DOMAIN o : o[i] = s[f[i]]
    BY <1>2, <1>3, <1>4
  <2> HIDE DEF f
  <2>5. QED
    BY <2>1, <2>2, <2>3, <2>4 DEF Picks
<1>6. QED
  BY <1>2, <1>5, PicksOnly
=============================================================================
