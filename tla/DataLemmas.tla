-------------------------------- MODULE DataLemmas --------------------------------
(***************************************************************************)
(* Facts about numbers, sets and sequences that the proofs about the other *)
(* modules need, induction among them.  The induction theorems of the      *)
(* library have an operator as a parameter, which the provers cannot       *)
(* instantiate: here induction is over a set, that of all for which the    *)
(* statement holds, and rests on the theorem of the library that the       *)
(* finite sets are well-founded.                                           *)
(***************************************************************************)
EXTENDS Lists, FiniteSetTheorems,
        SequenceTheorems, WellFoundedInduction, TLAPS

-----------------------------------------------------------------------------
(* Numbers *)

\* A set of natural numbers has a least element.
THEOREM LeastNumber ==
  ASSUME NEW T \in SUBSET Nat, T # {}
  PROVE  \E n \in T : \A m \in T : n <= m
<1>. DEFINE Initial == { 0..n : n \in T }
<1>1. Initial \subseteq FiniteSubsetsOf(Nat) /\ Initial # {}
  <2>1. \A n \in T : IsFiniteSet(0..n) /\ 0..n \subseteq Nat
    BY FS_Interval
  <2>. QED  BY <2>1 DEF FiniteSubsetsOf
<1>2. \E x \in Initial : \A y \in Initial : ~(<<y, x>> \in StrictSubsetOrdering(Nat))
  BY <1>1, FS_StrictSubsetOrderingWellFounded, WFMin
<1>3. PICK n \in T : \A m \in T : ~(<<0..m, 0..n>> \in StrictSubsetOrdering(Nat))
  BY <1>2
<1>4. ASSUME NEW m \in T, m < n PROVE FALSE
  <2>1. 0..m \subseteq Nat /\ 0..n \subseteq Nat /\ 0..m # 0..n /\ 0..m \subseteq 0..n
    BY <1>4
  <2>2. <<0..m, 0..n>> \in StrictSubsetOrdering(Nat)
    BY <2>1 DEF StrictSubsetOrdering
  <2>. QED  BY <1>3, <2>2
<1>. QED  BY <1>4

\* Induction: a set that contains 0, and n + 1 with n, contains all numbers.
THEOREM AllNumbers ==
  ASSUME NEW T, 0 \in T, \A n \in Nat : n \in T => n + 1 \in T
  PROVE  \A n \in Nat : n \in T
<1>. DEFINE Missing == { n \in Nat : n \notin T }
<1>1. ASSUME Missing # {} PROVE FALSE
  <2>1. PICK n \in Missing : \A m \in Missing : n <= m
    BY <1>1, LeastNumber
  <2>2. n - 1 \in Nat /\ n - 1 \notin Missing
    BY <2>1
  <2>. QED  BY <2>2
<1>. QED  BY <1>1

\* Of some numbers, one is the least.
THEOREM MinIsLeast ==
  ASSUME NEW T \in SUBSET Nat, T # {}
  PROVE  Min(T) \in T /\ \A n \in T : Min(T) <= n
BY LeastNumber DEF Min

\* Of finitely many numbers, one is the greatest.
THEOREM MaxIsGreatest ==
  ASSUME NEW T \in SUBSET Nat, T # {}, NEW bound \in Nat, \A n \in T : n <= bound
  PROVE  Max(T) \in T /\ \A n \in T : n <= Max(T)
<1>. DEFINE Bounds == { m \in Nat : \A n \in T : n <= m }
<1>1. PICK m \in Bounds : \A k \in Bounds : m <= k
  <2>1. bound \in Bounds
    OBVIOUS
  <2>. QED  BY <2>1, LeastNumber
<1>2. m \in T
  <2>1. SUFFICES ASSUME m \notin T PROVE FALSE
    OBVIOUS
  <2>2. m \in Nat /\ \A n \in T : n \in Nat /\ n <= m - 1
    BY <2>1, <1>1
  <2>3. PICK n \in T : TRUE
    OBVIOUS
  <2>4. m - 1 \in Nat /\ \A k \in T : k <= m - 1
    <3>1. n \in Nat /\ n <= m - 1
      BY <2>2
    <3>. QED  BY <2>2, <3>1
  <2>5. m - 1 \in Bounds
    BY <2>4
  <2>. QED  BY <1>1, <2>5
<1>. QED  BY <1>1, <1>2 DEF Max

\* One more number is the least, or the least stays what it was.
THEOREM MinOfMore ==
  ASSUME NEW T \in SUBSET Nat, T # {}, NEW n \in Nat
  PROVE  Min(T \union {n}) = Min({Min(T), n})
<1>1. PICK more \in SUBSET Nat : more = T \union {n} /\ more # {}
  OBVIOUS
<1>2. PICK least \in Nat : least = Min(T) /\ least \in T /\ \A k \in T : least <= k
  BY MinIsLeast
<1>3. PICK both \in SUBSET Nat : both = {least, n} /\ both # {}
  OBVIOUS
<1>4. PICK p \in Nat : p = Min(more) /\ p \in more /\ \A k \in more : p <= k
  BY <1>1, MinIsLeast
<1>5. PICK q \in Nat : q = Min(both) /\ q \in both /\ \A k \in both : q <= k
  BY <1>3, MinIsLeast
<1>6. p <= q /\ q <= p
  BY <1>1, <1>2, <1>3, <1>4, <1>5
<1>. QED  BY <1>1, <1>2, <1>3, <1>4, <1>5, <1>6

\* One more number is the greatest, or the greatest stays what it was.
THEOREM MaxOfMore ==
  ASSUME NEW T \in SUBSET Nat, T # {}, NEW bound \in Nat, \A k \in T : k <= bound, NEW n \in Nat
  PROVE  Max(T \union {n}) = Max({Max(T), n})
<1>1. PICK more \in SUBSET Nat, b \in Nat : more = T \union {n} /\ more # {} /\ \A k \in more : k <= b
  <2>1. \A k \in T \union {n} : k <= bound + n
    OBVIOUS
  <2>2. bound + n \in Nat /\ T \union {n} \in SUBSET Nat
    OBVIOUS
  <2>. QED  BY <2>1, <2>2
<1>2. PICK most \in Nat : most = Max(T) /\ most \in T /\ \A k \in T : k <= most
  BY MaxIsGreatest
<1>3. PICK both \in SUBSET Nat, c \in Nat : both = {most, n} /\ both # {} /\ \A k \in both : k <= c
  <2>1. \A k \in {most, n} : k <= most + n
    OBVIOUS
  <2>2. most + n \in Nat /\ {most, n} \in SUBSET Nat
    OBVIOUS
  <2>. QED  BY <2>1, <2>2
<1>4. PICK p \in Nat : p = Max(more) /\ p \in more /\ \A k \in more : k <= p
  <2>1. Max(more) \in more /\ \A k \in more : k <= Max(more)
    BY <1>1, MaxIsGreatest
  <2>. QED  BY <2>1
<1>5. PICK q \in Nat : q = Max(both) /\ q \in both /\ \A k \in both : k <= q
  BY <1>3, MaxIsGreatest
<1>6. p <= q /\ q <= p
  BY <1>1, <1>2, <1>3, <1>4, <1>5
<1>. QED  BY <1>1, <1>2, <1>3, <1>4, <1>5, <1>6

\* The least and the greatest of one number.
THEOREM MinMaxOfOne ==
  ASSUME NEW n \in Nat
  PROVE  Min({n}) = n /\ Max({n}) = n
BY DEF Min, Max

\* Induction: a set that contains << >>, and with a sequence all that are one
\* element longer, contains all sequences.
THEOREM AllSequences ==
  ASSUME NEW S, NEW T, << >> \in T, \A s \in Seq(S), e \in S : s \in T => Append(s, e) \in T
  PROVE  \A s \in Seq(S) : s \in T
<1>. DEFINE N == { n \in Nat : \A s \in Seq(S) : Len(s) = n => s \in T }
<1>1. 0 \in N
  <2>1. \A s \in Seq(S) : Len(s) = 0 => s = << >>
    OBVIOUS
  <2>. QED  BY <2>1
<1>2. ASSUME NEW n \in Nat, n \in N PROVE n + 1 \in N
  <2>1. ASSUME NEW s \in Seq(S), Len(s) = n + 1 PROVE s \in T
    <3>1. s # << >>
      BY <2>1, EmptySeq
    <3>2. PICK r \in Seq(S), e \in S : s = Append(r, e)
      BY <3>1, SequenceEmptyOrAppend
    <3>3. Len(r) = n
      BY <2>1, <3>2, AppendProperties
    <3>. QED  BY <1>2, <3>2, <3>3
  <2>. QED  BY <2>1
<1>3. \A n \in Nat : n \in N
  <2>. HIDE DEF N
  <2>. QED  BY <1>1, <1>2, AllNumbers
<1>. QED  BY <1>3

\* Induction: a family that contains {}, and with a subset of a finite set all
\* that have one element more, contains the set.
THEOREM AllSubsets ==
  ASSUME NEW S, IsFiniteSet(S), NEW T, {} \in T,
         \A U \in SUBSET S, x \in S : U \in T /\ x \notin U => U \union {x} \in T
  PROVE  S \in T
<1>. DEFINE N == { n \in Nat : \A U \in SUBSET S : Cardinality(U) = n => U \in T }
<1>1. 0 \in N
  <2>1. \A U \in SUBSET S : Cardinality(U) = 0 => U = {}
    BY FS_Subset, FS_EmptySet
  <2>. QED  BY <2>1
<1>2. ASSUME NEW n \in Nat, n \in N PROVE n + 1 \in N
  <2>1. ASSUME NEW U \in SUBSET S, Cardinality(U) = n + 1 PROVE U \in T
    <3>1. IsFiniteSet(U) /\ U # {}
      BY <2>1, FS_Subset, FS_EmptySet
    <3>2. PICK x \in U : TRUE
      BY <3>1
    <3>3. PICK V : V = U \ {x}
      OBVIOUS
    <3>4. Cardinality(V) = Cardinality(U) - 1
      BY <3>1, <3>3, FS_RemoveElement
    <3>5. V \in SUBSET S /\ U = V \union {x} /\ x \in S /\ x \notin V
      BY <3>2, <3>3
    <3>6. V \in T
      BY <1>2, <2>1, <3>4, <3>5
    <3>. QED  BY <3>5, <3>6
  <2>. QED  BY <2>1
<1>3. \A n \in Nat : n \in N
  <2>. HIDE DEF N
  <2>. QED  BY <1>1, <1>2, AllNumbers
<1>4. Cardinality(S) \in Nat
  BY FS_CardinalityType
<1>. QED  BY <1>3, <1>4

-----------------------------------------------------------------------------
(* Sequences *)

\* A part of a sequence: its elements from the m-th to the n-th.
THEOREM PartOf ==
  ASSUME NEW S, NEW seq \in Seq(S), NEW m \in Nat \ {0}, NEW n \in Nat, n <= Len(seq)
  PROVE  /\ SubSeq(seq, m, n) \in Seq(S)
         /\ Len(SubSeq(seq, m, n)) = IF m <= n THEN n - m + 1 ELSE 0
         /\ \A i \in 1..n - m + 1 : SubSeq(seq, m, n)[i] = seq[m + i - 1]
<1>1. PICK short : short = seq
  OBVIOUS
<1>2. \A i \in m..n : short[i] \in S
  BY <1>1
<1>3. m \in Int /\ n \in Int
  OBVIOUS
<1>4. /\ SubSeq(short, m, n) \in Seq(S)
      /\ Len(SubSeq(short, m, n)) = IF m <= n THEN n - m + 1 ELSE 0
      /\ \A i \in 1..n - m + 1 : SubSeq(short, m, n)[i] = short[m + i - 1]
  BY <1>2, <1>3, SubSeqProperties
<1>. QED  BY <1>1, <1>4

\* The first n elements.
THEOREM FirstOf ==
  ASSUME NEW S, NEW seq \in Seq(S), NEW n \in Nat, n <= Len(seq)
  PROVE  /\ SubSeq(seq, 1, n) \in Seq(S) /\ Len(SubSeq(seq, 1, n)) = n
         /\ \A i \in 1..n : SubSeq(seq, 1, n)[i] = seq[i]
<1>1. PICK m \in Nat \ {0} : m = 1
  OBVIOUS
<1>2. SubSeq(seq, m, n) \in Seq(S) /\ Len(SubSeq(seq, m, n)) = n
  BY <1>1, PartOf
<1>3. \A i \in 1..n : SubSeq(seq, m, n)[i] = seq[i]
  BY <1>1, PartOf
<1>. QED  BY <1>1, <1>2, <1>3

\* The numbers of a finite set in their order: each once, from the least to the
\* greatest.
THEOREM AscendingIs ==
  ASSUME NEW S \in SUBSET Nat, IsFiniteSet(S)
  PROVE  /\ Ascending(S) \in Seq(S) /\ Len(Ascending(S)) = Cardinality(S)
         /\ \A i, j \in 1..Cardinality(S) : i < j => Ascending(S)[i] < Ascending(S)[j]
         /\ \A n \in S : \E i \in 1..Cardinality(S) : Ascending(S)[i] = n
<1>. DEFINE Below(n) == { m \in S : m < n }
            c == Cardinality(S)
            rank == [n \in S |-> Cardinality(Below(n))]
<1>1. c \in Nat
  BY FS_CardinalityType
<1>2. ASSUME NEW n \in S PROVE IsFiniteSet(Below(n)) /\ Cardinality(Below(n)) \in 0..c - 1
  <2>1. Below(n) \in SUBSET (S \ {n}) /\ IsFiniteSet(S \ {n}) /\ Cardinality(S \ {n}) = c - 1
    BY FS_RemoveElement
  <2>2. IsFiniteSet(Below(n)) /\ Cardinality(Below(n)) <= c - 1
    <3>. HIDE DEF Below, c
    <3>. QED  BY <2>1, FS_Subset
  <2>3. Cardinality(Below(n)) \in Nat
    BY <2>2, FS_CardinalityType
  <2>. QED  BY <1>1, <2>2, <2>3
<1>3. ASSUME NEW m \in S, NEW n \in S, m < n PROVE rank[m] < rank[n]
  <2>1. Below(m) \union {m} \in SUBSET Below(n) /\ m \notin Below(m)
    <3>1. \A k \in S : k \in Nat
      OBVIOUS
    <3>2. \A k \in Below(m) : k \in Below(n)
      BY <1>3, <3>1
    <3>3. m \in Below(n) /\ m \notin Below(m)
      BY <1>3, <3>1
    <3>. QED  BY <3>2, <3>3
  <2>2. Cardinality(Below(m) \union {m}) <= Cardinality(Below(n))
    <3>. HIDE DEF Below
    <3>. QED  BY <1>2, <2>1, FS_Subset
  <2>3. Cardinality(Below(m) \union {m}) = Cardinality(Below(m)) + 1
    <3>. HIDE DEF Below
    <3>. QED  BY <1>2, <2>1, FS_AddElement
  <2>4. Cardinality(Below(m)) \in Nat /\ Cardinality(Below(n)) \in Nat
    BY <1>1, <1>2
  <2>. HIDE DEF Below
  <2>. QED  BY <2>2, <2>3, <2>4
<1>4. rank \in Injection(S, 0..c - 1)
  <2>1. rank \in [S -> 0..c - 1]
    BY <1>2
  <2>2. \A m, n \in S : rank[m] \in Int /\ (rank[m] = rank[n] => m = n)
    <3>1. \A m, n \in S : m < n \/ n < m \/ m = n
      OBVIOUS
    <3>2. \A n \in S : rank[n] \in Int
      BY <2>1
    <3>. HIDE DEF rank
    <3>. QED  BY <1>3, <3>1, <3>2
  <2>. HIDE DEF rank
  <2>. QED  BY <2>1, <2>2 DEF Injection, IsInjective
<1>5. rank \in Surjection(S, 0..c - 1)
  <2>1. IsFiniteSet(0..c - 1) /\ Cardinality(0..c - 1) = c
    <3>1. PICK d \in Int : d = c - 1
      BY <1>1
    <3>2. IsFiniteSet(0..d) /\ Cardinality(0..d) = IF 0 > d THEN 0 ELSE d - 0 + 1
      BY FS_Interval
    <3>. HIDE DEF c
    <3>. QED  BY <1>1, <3>1, <3>2
  <2>. HIDE DEF rank
  <2>. QED  BY <1>4, <2>1, FS_Injection
<1>6. \A k \in 1..c : \E n \in S : rank[n] = k - 1
  <2>1. \A k \in 1..c : k - 1 \in 0..c - 1
    BY <1>1
  <2>. HIDE DEF rank
  <2>. QED  BY <1>5, <2>1 DEF Surjection
<1>7. \A k \in 1..c : Ascending(S)[k] \in S /\ rank[Ascending(S)[k]] = k - 1
  BY <1>6 DEF Ascending
<1>8. Ascending(S) \in Seq(S) /\ Len(Ascending(S)) = c
  <2>1. Ascending(S) \in [1..c -> S]
    BY <1>7 DEF Ascending
  <2>. HIDE DEF c
  <2>. QED  BY <1>1, <2>1
<1>9. ASSUME NEW i \in 1..c, NEW j \in 1..c, i < j PROVE Ascending(S)[i] < Ascending(S)[j]
  <2>1. PICK m \in S, n \in S : m = Ascending(S)[i] /\ n = Ascending(S)[j]
    BY <1>7
  <2>2. rank[m] = i - 1 /\ rank[n] = j - 1
    BY <1>7, <2>1
  <2>3. m < n \/ m = n \/ n < m
    OBVIOUS
  <2>4. ~(n < m)
    <3>1. n < m => rank[n] < rank[m]
      <4>. HIDE DEF rank
      <4>. QED  BY <1>3
    <3>2. i \in Int /\ j \in Int /\ ~(j - 1 < i - 1)
      BY <1>1, <1>9
    <3>. HIDE DEF rank
    <3>. QED  BY <2>2, <3>1, <3>2
  <2>. HIDE DEF rank
  <2>. QED  BY <1>1, <1>9, <2>1, <2>2, <2>3, <2>4
<1>10. ASSUME NEW n \in S PROVE \E i \in 1..c : Ascending(S)[i] = n
  <2>1. rank[n] \in 0..c - 1
    BY <1>2
  <2>2. rank[n] + 1 \in 1..c
    BY <1>1, <2>1
  <2>3. Ascending(S)[rank[n] + 1] \in S /\ rank[Ascending(S)[rank[n] + 1]] = rank[n]
    <3>. HIDE DEF rank
    <3>. QED  BY <1>1, <1>7, <2>1, <2>2
  <2>4. Ascending(S)[rank[n] + 1] = n
    <3>. HIDE DEF rank
    <3>. QED  BY <1>4, <2>3 DEF Injection, IsInjective
  <2>. QED  BY <2>2, <2>4
<1>. QED  BY <1>8, <1>9, <1>10

\* Finitely many numbers have a bound.
THEOREM FiniteIsBounded ==
  ASSUME NEW S \in SUBSET Nat, IsFiniteSet(S)
  PROVE  \E bound \in Nat : \A n \in S : n <= bound
<1>. DEFINE T == { U \in SUBSET S : \E bound \in Nat : \A n \in U : n <= bound }
<1>1. {} \in T
  <2>1. 0 \in Nat
    OBVIOUS
  <2>. QED  BY <2>1
<1>2. ASSUME NEW U \in SUBSET S, NEW x \in S, U \in T PROVE U \union {x} \in T
  <2>1. PICK bound \in Nat : \A n \in U : n <= bound
    BY <1>2
  <2>2. \A n \in U \union {x} : n <= bound + x
    BY <2>1
  <2>3. bound + x \in Nat
    OBVIOUS
  <2>. QED  BY <2>2, <2>3
<1>3. S \in T
  <2>1. \A U \in SUBSET S, x \in S : U \in T /\ x \notin U => U \union {x} \in T
    BY <1>2
  <2>. HIDE DEF T
  <2>. QED  BY <1>1, <2>1, AllSubsets
<1>. QED  BY <1>3

\* The values of a function at finitely many places.
THEOREM ImageIs ==
  ASSUME NEW S, IsFiniteSet(S), NEW f
  PROVE  /\ IsFiniteSet({ f[x] : x \in S }) /\ Cardinality({ f[x] : x \in S }) <= Cardinality(S)
         /\ (\A x, y \in S : f[x] = f[y] => x = y) => Cardinality({ f[x] : x \in S }) = Cardinality(S)
<1>. DEFINE T == { f[x] : x \in S }
            g == [x \in S |-> f[x]]
<1>1. g \in Surjection(S, T)
  BY DEF Surjection
<1>2. (\A x, y \in S : f[x] = f[y] => x = y) => g \in Injection(S, T)
  BY DEF Injection, IsInjective
<1>3. /\ IsFiniteSet(T) /\ Cardinality(T) <= Cardinality(S)
      /\ g \in Injection(S, T) => Cardinality(T) = Cardinality(S)
  <2>. HIDE DEF T, g
  <2>. QED  BY <1>1, FS_Surjection
<1>. QED  BY <1>2, <1>3
=============================================================================
