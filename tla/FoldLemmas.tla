-------------------------------- MODULE FoldLemmas --------------------------------
(***************************************************************************)
(* What a fold over a sequence computes.  Its operator is a parameter of   *)
(* the module: a proof about a fold instantiates the module, with the      *)
(* operator that is folded, and cites the facts of that instance.          *)
(***************************************************************************)
EXTENDS DataLemmas

CONSTANT Op(_, _, _) \* of what is given, what is computed so far, and an element

\* The function that the definition of a fold over the first n elements chooses.
IsFold(given, it, base, seq, n) ==
  it = [s \in SUBSET (1..n) |->
          IF s = {} THEN base ELSE Op(given, it[s \ {Max(s)}], seq[Max(s)])]

SameUpTo(n, seq, longer) == \A i \in 1..n : seq[i] = longer[i]

LEMMA WithoutMax ==
  ASSUME NEW n \in Nat, NEW s \in SUBSET (1..n + 1), s # {}
  PROVE  Max(s) \in s /\ Max(s) \in 1..n + 1 /\ s \ {Max(s)} \in SUBSET (1..n)
<1>1. Max(s) \in s /\ \A k \in s : k <= Max(s)
  <2>1. s \in SUBSET Nat /\ \A k \in s : k <= n + 1
    OBVIOUS
  <2>2. n + 1 \in Nat
    OBVIOUS
  <2>. QED  BY <2>1, <2>2, MaxIsGreatest
<1>2. Max(s) \in 1..n + 1
  BY <1>1
<1>3. ASSUME NEW k \in s \ {Max(s)} PROVE k \in 1..n
  <2>1. k \in 1..n + 1 /\ k <= Max(s) /\ k # Max(s)
    BY <1>1
  <2>. QED  BY <2>1, <1>2
<1>. QED  BY <1>1, <1>2, <1>3

LEMMA FoldExists ==
  ASSUME NEW given, NEW base, NEW seq, NEW n \in Nat
  PROVE  \E it : IsFold(given, it, base, seq, n)
<1>. DEFINE T == { k \in Nat : \E it : IsFold(given, it, base, seq, k) }
<1>1. 0 \in T
  <2>1. IsFold(given, [s \in SUBSET (1..0) |-> base], base, seq, 0)
    <3>1. \A s \in SUBSET (1..0) : s = {}
      OBVIOUS
    <3>. QED  BY <3>1 DEF IsFold
  <2>. QED  BY <2>1
<1>2. ASSUME NEW k \in Nat, k \in T PROVE k + 1 \in T
  <2>1. PICK it : IsFold(given, it, base, seq, k)
    BY <1>2
  <2>. DEFINE next == [s \in SUBSET (1..k + 1) |->
                         IF s = {} THEN base ELSE Op(given, it[s \ {Max(s)}], seq[Max(s)])]
  <2>2. \A s \in SUBSET (1..k) : next[s] = it[s]
    <3>1. \A s \in SUBSET (1..k) : s \in SUBSET (1..k + 1)
      OBVIOUS
    <3>. QED  BY <3>1, <2>1 DEF IsFold
  <2>3. \A s \in SUBSET (1..k + 1) : s # {} => next[s \ {Max(s)}] = it[s \ {Max(s)}]
    BY <2>2, WithoutMax
  <2>4. IsFold(given, next, base, seq, k + 1)
    BY <2>3 DEF IsFold
  <2>. QED  BY <2>4
<1>3. \A k \in Nat : k \in T
  <2>. HIDE DEF T
  <2>. QED  BY <1>1, <1>2, AllNumbers
<1>. QED  BY <1>3

\* The fold of a longer sequence goes on where that of the shorter one ends.
LEMMA FoldAgrees ==
  ASSUME NEW given, NEW base, NEW m \in Nat, NEW n \in Nat
  PROVE  \A seq, longer, it, jt :
           m <= n /\ SameUpTo(m, seq, longer)
             /\ IsFold(given, it, base, seq, m) /\ IsFold(given, jt, base, longer, n)
           => it[1..m] = jt[1..m]
<1>. SUFFICES ASSUME NEW seq, NEW longer, NEW it, NEW jt,
                     m <= n, \A i \in 1..m : seq[i] = longer[i],
                     IsFold(given, it, base, seq, m), IsFold(given, jt, base, longer, n)
              PROVE  it[1..m] = jt[1..m]
  BY DEF SameUpTo
<1>. DEFINE T == { k \in Nat : k <= m => \A s \in SUBSET (1..k) : it[s] = jt[s] }
<1>1. 0 \in T
  <2>1. \A s \in SUBSET (1..0) : s = {} /\ s \in SUBSET (1..m) /\ s \in SUBSET (1..n)
    OBVIOUS
  <2>. QED  BY <2>1 DEF IsFold
<1>2. ASSUME NEW k \in Nat, k \in T, k + 1 <= m, NEW s \in SUBSET (1..k + 1)
      PROVE  it[s] = jt[s]
  <2>1. s \in SUBSET (1..m) /\ s \in SUBSET (1..n)
    BY <1>2
  <2>2. CASE s = {}
    BY <2>1, <2>2 DEF IsFold
  <2>3. CASE s # {}
    <3>. DEFINE r == s \ {Max(s)}
    <3>1. Max(s) \in 1..k + 1 /\ r \in SUBSET (1..k)
      BY <2>3, WithoutMax
    <3>2. it[r] = jt[r] /\ seq[Max(s)] = longer[Max(s)]
      <4>1. k <= m /\ Max(s) \in 1..m
        BY <3>1, <1>2
      <4>. QED  BY <3>1, <4>1, <1>2
    <3>3. it[s] = Op(given, it[r], seq[Max(s)]) /\ jt[s] = Op(given, jt[r], longer[Max(s)])
      BY <2>1, <2>3 DEF IsFold
    <3>. QED  BY <3>2, <3>3
  <2>. QED  BY <2>2, <2>3
<1>3. \A k \in Nat : k \in T
  <2>1. \A k \in Nat : k \in T => k + 1 \in T
    BY <1>2
  <2>. HIDE DEF T
  <2>. QED  BY <1>1, <2>1, AllNumbers
<1>4. m \in T /\ m <= m /\ 1..m \in SUBSET (1..m)
  <2>. HIDE DEF T
  <2>. QED  BY <1>3
<1>. QED  BY <1>4

LEMMA FoldGoesOn ==
  ASSUME NEW given, NEW base, NEW n \in Nat
  PROVE  \A seq, more, it, jt :
           SameUpTo(n, seq, more)
             /\ IsFold(given, it, base, seq, n) /\ IsFold(given, jt, base, more, n + 1)
           => jt[1..n + 1] = Op(given, it[1..n], more[n + 1])
<1>. SUFFICES ASSUME NEW seq, NEW more, NEW it, NEW jt, SameUpTo(n, seq, more),
                     IsFold(given, it, base, seq, n), IsFold(given, jt, base, more, n + 1)
              PROVE  jt[1..n + 1] = Op(given, it[1..n], more[n + 1])
  OBVIOUS
<1>1. it[1..n] = jt[1..n]
  <2>1. PICK m \in Nat : m = n + 1 /\ n <= m
    OBVIOUS
  <2>2. IsFold(given, jt, base, more, m)
    BY <2>1
  <2>. QED  BY <2>1, <2>2, FoldAgrees
<1>2. Max(1..n + 1) = n + 1
  <2>1. 1..n + 1 \in SUBSET Nat /\ n + 1 \in 1..n + 1 /\ \A i \in 1..n + 1 : i <= n + 1
    OBVIOUS
  <2>2. Max(1..n + 1) \in 1..n + 1 /\ \A i \in 1..n + 1 : i <= Max(1..n + 1)
    <3>1. 1..n + 1 # {} /\ n + 1 \in Nat
      BY <2>1
    <3>. QED  BY <2>1, <3>1, MaxIsGreatest
  <2>. QED  BY <2>1, <2>2
<1>3. (1..n + 1) \ {n + 1} = 1..n /\ 1..n + 1 \in SUBSET (1..n + 1) /\ 1..n + 1 # {}
  OBVIOUS
<1>4. jt[1..n + 1] = Op(given, jt[(1..n + 1) \ {Max(1..n + 1)}], more[Max(1..n + 1)])
  BY <1>3 DEF IsFold
<1>. QED  BY <1>1, <1>2, <1>3, <1>4

Fold(given, base, seq) == FoldLeft(LAMBDA acc, e : Op(given, acc, e), base, seq)

LEMMA FoldIs ==
  ASSUME NEW given, NEW base, NEW S, NEW seq \in Seq(S)
  PROVE  \E it : IsFold(given, it, base, seq, Len(seq)) /\ Fold(given, base, seq) = it[1..Len(seq)]
<1>1. DOMAIN seq = 1..Len(seq) /\ Len(seq) \in Nat
  OBVIOUS
<1>2. Fold(given, base, seq) = (CHOOSE it : IsFold(given, it, base, seq, Len(seq)))[1..Len(seq)]
  BY <1>1 DEF Fold, FoldLeft, MapThenFoldSet, IsFold
<1>3. \E it : IsFold(given, it, base, seq, Len(seq))
  BY <1>1, FoldExists
<1>. QED  BY <1>2, <1>3

\* The fold over no element is its base.
THEOREM FoldOfNothing ==
  ASSUME NEW given, NEW base
  PROVE  Fold(given, base, << >>) = base
<1>1. << >> \in Seq({}) /\ Len(<< >>) = 0
  OBVIOUS
<1>2. PICK it : IsFold(given, it, base, << >>, 0) /\ Fold(given, base, << >>) = it[1..0]
  BY <1>1, FoldIs
<1>3. 1..0 = {} /\ {} \in SUBSET (1..0)
  OBVIOUS
<1>. QED  BY <1>2, <1>3 DEF IsFold

\* The fold over one more element is a step further.
THEOREM FoldOfMore ==
  ASSUME NEW given, NEW base, NEW S, NEW seq \in Seq(S), NEW e \in S
  PROVE  Fold(given, base, Append(seq, e)) = Op(given, Fold(given, base, seq), e)
<1>. DEFINE n == Len(seq)
            more == Append(seq, e)
<1>1. n \in Nat /\ more \in Seq(S) /\ Len(more) = n + 1 /\ more[n + 1] = e /\ SameUpTo(n, seq, more)
  BY DEF SameUpTo
<1>2. PICK it : IsFold(given, it, base, seq, n) /\ Fold(given, base, seq) = it[1..n]
  BY <1>1, FoldIs
<1>3. PICK jt : IsFold(given, jt, base, more, n + 1) /\ Fold(given, base, more) = jt[1..n + 1]
  BY <1>1, FoldIs
<1>4. jt[1..n + 1] = Op(given, it[1..n], more[n + 1])
  <2>. HIDE DEF n, more
  <2>1. PICK k \in Nat : k = n
    BY <1>1
  <2>2. SameUpTo(k, seq, more) /\ IsFold(given, it, base, seq, k) /\ IsFold(given, jt, base, more, k + 1)
    BY <1>1, <1>2, <1>3, <2>1
  <2>. QED  BY <2>1, <2>2, FoldGoesOn
<1>. QED  BY <1>1, <1>2, <1>3, <1>4

\* What holds of the base, and is kept by each step, holds of the fold.
THEOREM FoldIn ==
  ASSUME NEW given, NEW A, NEW base \in A, NEW S,
         \A a \in A, e \in S : Op(given, a, e) \in A
  PROVE  \A seq \in Seq(S) : Fold(given, base, seq) \in A
<1>. DEFINE T == { s \in Seq(S) : Fold(given, base, s) \in A }
<1>1. << >> \in T
  BY FoldOfNothing
<1>2. ASSUME NEW s \in Seq(S), NEW e \in S, s \in T PROVE Append(s, e) \in T
  <2>1. Fold(given, base, Append(s, e)) = Op(given, Fold(given, base, s), e)
    BY FoldOfMore
  <2>. QED  BY <1>2, <2>1
<1>3. \A s \in Seq(S) : s \in T
  <2>. HIDE DEF T
  <2>. QED  BY <1>1, <1>2, AllSequences
<1>. QED  BY <1>3

\* The fold takes its first step first.
THEOREM FoldOfRest ==
  ASSUME NEW given, NEW base, NEW S
  PROVE  \A seq \in Seq(S) : seq # << >> =>
           Fold(given, base, seq) = Fold(given, Op(given, base, Head(seq)), Tail(seq))
<1>. DEFINE first(s) == Op(given, base, Head(s))
            T == { s \in Seq(S) : s # << >> => Fold(given, base, s) = Fold(given, first(s), Tail(s)) }
<1>1. << >> \in T
  OBVIOUS
<1>2. ASSUME NEW s \in Seq(S), NEW e \in S, s \in T
      PROVE  Fold(given, base, Append(s, e)) = Fold(given, first(Append(s, e)), Tail(Append(s, e)))
  <2>1. Fold(given, base, Append(s, e)) = Op(given, Fold(given, base, s), e)
    BY FoldOfMore
  <2>2. CASE s = << >>
    <3>1. Head(Append(s, e)) = e /\ Tail(Append(s, e)) = << >>
      BY <2>2, HeadTailAppend
    <3>2. Fold(given, base, s) = base
      BY <2>2, FoldOfNothing
    <3>3. Fold(given, first(Append(s, e)), << >>) = first(Append(s, e))
      BY FoldOfNothing
    <3>. QED  BY <2>1, <3>1, <3>2, <3>3
  <2>3. CASE s # << >>
    <3>1. Head(Append(s, e)) = Head(s) /\ Tail(Append(s, e)) = Append(Tail(s), e)
      BY <2>3, HeadTailAppend
    <3>2. PICK r \in Seq(S) : r = Tail(s)
      BY <2>3, HeadTailProperties
    <3>3. \A b : Fold(given, b, Append(r, e)) = Op(given, Fold(given, b, r), e)
      BY FoldOfMore
    <3>. QED  BY <1>2, <2>1, <2>3, <3>1, <3>2, <3>3
  <2>. QED  BY <2>2, <2>3
<1>3. \A s \in Seq(S) : s \in T
  <2>1. \A s \in Seq(S), e \in S : s \in T => Append(s, e) \in T
    BY <1>2, AppendProperties
  <2>. HIDE DEF T
  <2>. QED  BY <1>1, <2>1, AllSequences
<1>. QED  BY <1>3
=============================================================================
