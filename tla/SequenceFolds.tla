--------------------------- MODULE SequenceFolds ---------------------------
(***************************************************************************)
(* What FoldLeft computes, for every operator, base and sequence.  A proof *)
(* module takes an instance of this one per fold of its model: Op(c, a, x) *)
(* is what the fold makes of its result so far, a, and the next element, x,*)
(* given c, whatever else the fold depends on.                             *)
(*                                                                         *)
(* Induction comes from a fact that has no operator for parameter, that    *)
(* the naturals are well founded: it is stated about sets, of numbers or   *)
(* of sequences, that are closed under the next one.                       *)
(***************************************************************************)
EXTENDS Integers, Sequences, SequencesExt, SequenceTheorems, WellFoundedInduction, TLAPS

CONSTANT Op(_, _, _)

FoldOf(c, base, s) == FoldLeft(LAMBDA a, x : Op(c, a, x), base, s)

(* A set of naturals that has 0 and the successor of each has them all. *)
LEMMA NatSetInduction ==
  ASSUME NEW T \in SUBSET Nat, 0 \in T, \A n \in T : n + 1 \in T
  PROVE  T = Nat
<1> DEFINE R == OpToRel(<, Nat)
<1>1. IsWellFoundedOn(R, Nat)
  BY NatLessThanWellFounded
<1>2. ASSUME NEW x \in Nat, NEW y \in Nat, y < x
      PROVE  <<y, x>> \in R
  BY <1>2 DEF OpToRel
<1> HIDE DEF R
<1>3. SUFFICES ASSUME Nat \ T # {}
               PROVE  FALSE
  OBVIOUS
<1>4. PICK x \in Nat \ T : \A y \in Nat \ T : ~(<<y, x>> \in R)
  BY <1>1, <1>3, WFMin
<1>5. x # 0 /\ x - 1 \in Nat /\ x - 1 < x
  BY <1>4
<1>6. x - 1 \notin T
  BY <1>4, <1>5
<1>7. <<x - 1, x>> \in R
  BY <1>2, <1>5
<1> QED
  BY <1>4, <1>5, <1>6, <1>7

(* A set of naturals that is not empty has a least one. *)
LEMMA LeastNatural ==
  ASSUME NEW T \in SUBSET Nat, T # {}
  PROVE  \E n \in T : \A m \in T : n <= m
<1> DEFINE R == OpToRel(<, Nat)
<1>1. IsWellFoundedOn(R, Nat)
  BY NatLessThanWellFounded
<1>2. ASSUME NEW x \in Nat, NEW y \in Nat, y < x
      PROVE  <<y, x>> \in R
  BY <1>2 DEF OpToRel
<1> HIDE DEF R
<1>3. PICK n \in T : \A m \in T : ~(<<m, n>> \in R)
  BY <1>1, WFMin
<1>4. ASSUME NEW m \in T
      PROVE  n <= m
  <2>1. n \in Nat /\ m \in Nat
    OBVIOUS
  <2>2. CASE m < n
    BY <1>2, <1>3, <2>1, <2>2
  <2> QED
    BY <2>1, <2>2
<1> QED
  BY <1>4

(* A set of sequences that has the empty one and every extension of each, by *)
(* one element at its end, has them all.                                     *)
LEMMA SeqSetInduction ==
  ASSUME NEW S, NEW T \in SUBSET Seq(S), <<>> \in T,
         \A s \in T, x \in S : Append(s, x) \in T
  PROVE  T = Seq(S)
<1> DEFINE L == {n \in Nat : \A s \in Seq(S) : Len(s) = n => s \in T}
<1>1. 0 \in L
  OBVIOUS
<1>2. ASSUME NEW n \in L
      PROVE  n + 1 \in L
  <2>1. ASSUME NEW s \in Seq(S), Len(s) = n + 1
        PROVE  s \in T
    <3>1. s # <<>>
      BY <2>1
    <3>2. PICK u \in Seq(S), x \in S : s = Append(u, x)
      BY <3>1, SequenceEmptyOrAppend
    <3>3. Len(u) = n
      BY <2>1, <3>2
    <3>4. u \in T
      BY <3>3
    <3> QED
      BY <3>2, <3>4
  <2> QED
    BY <2>1
<1> HIDE DEF L
<1>3. L = Nat
  <2>1. L \subseteq Nat
    BY DEF L
  <2> QED
    BY <1>1, <1>2, <2>1, NatSetInduction
<1>4. ASSUME NEW s \in Seq(S)
      PROVE  s \in T
  <2>1. Len(s) \in L
    BY <1>3
  <2> QED
    BY <2>1 DEF L
<1> QED
  BY <1>4

(* The function a recursion on the first n elements of s defines is there. *)
IsRecursion(f, n, c, base, s) ==
  f = [i \in 0 .. n |-> IF i = 0 THEN base ELSE Op(c, f[i - 1], s[i])]

\* A function defined by recursion on its argument exists.
LEMMA RecursionExists ==
  ASSUME NEW c, NEW base, NEW s, NEW n \in Nat
  PROVE  \E f : IsRecursion(f, n, c, base, s)
<1> DEFINE Is(f, m) == f = [i \in 0 .. m |-> IF i = 0 THEN base ELSE Op(c, f[i - 1], s[i])]
           T == {m \in Nat : \E f : Is(f, m)}
<1>1. 0 \in T
  <2> DEFINE f == [i \in 0 .. 0 |-> base]
  <2>1. \A i \in 0 .. 0 : i = 0
    OBVIOUS
  <2>2. Is(f, 0)
    BY <2>1
  <2> QED
    BY <2>2
<1>2. ASSUME NEW m \in T
      PROVE  m + 1 \in T
  <2>1. m \in Nat /\ \E f : Is(f, m)
    OBVIOUS
  <2>2. PICK f : Is(f, m)
    BY <2>1
  <2> DEFINE g == [i \in 0 .. m + 1 |-> IF i = m + 1 THEN Op(c, f[m], s[m + 1]) ELSE f[i]]
  <2>3. ASSUME NEW i \in 0 .. m + 1
        PROVE  g[i] = IF i = 0 THEN base ELSE Op(c, g[i - 1], s[i])
    <3>1. CASE i = m + 1
      <4>1. i # 0 /\ i - 1 = m /\ m \in 0 .. m + 1 /\ m # m + 1
        BY <2>1, <3>1
      <4>2. g[m] = f[m] /\ g[i] = Op(c, f[m], s[m + 1])
        BY <3>1, <4>1
      <4> HIDE DEF g
      <4> QED
        BY <3>1, <4>1, <4>2
    <3>2. CASE i # m + 1
      <4>1. i \in 0 .. m /\ g[i] = f[i]
        BY <2>1, <3>2
      <4>2. f[i] = IF i = 0 THEN base ELSE Op(c, f[i - 1], s[i])
        BY <2>2, <4>1
      <4>3. i # 0 => g[i - 1] = f[i - 1]
        BY <2>1, <4>1
      <4> HIDE DEF g
      <4> QED
        BY <4>1, <4>2, <4>3
    <3> QED
      BY <3>1, <3>2
  <2>4. Is(g, m + 1)
    <3>1. g = [i \in 0 .. m + 1 |-> g[i]]
      OBVIOUS
    <3> HIDE DEF g
    <3> QED
      BY <2>3, <3>1
  <2> HIDE DEF Is
  <2> QED
    BY <2>1, <2>4
<1> HIDE DEF T
<1>3. T = Nat
  <2>1. T \subseteq Nat
    BY DEF T
  <2> QED
    BY <1>1, <1>2, <2>1, NatSetInduction
<1> QED
  BY <1>3, Zenon DEF T, Is, IsRecursion

(* A suffix of a sequence grows with it. *)
LEMMA SubSeqOfAppend ==
  ASSUME NEW S, NEW s \in Seq(S), NEW m \in Nat \ {0}, m <= Len(s) + 1, NEW x \in S
  PROVE  SubSeq(Append(s, x), m, Len(s) + 1) = Append(SubSeq(s, m, Len(s)), x)
OBVIOUS

\* What a suffix of a sequence holds.
LEMMA SuffixIs ==
  ASSUME NEW S, NEW t \in Seq(S), NEW m \in 1 .. Len(t) + 1
  PROVE  LET a == SubSeq(t, m, Len(t))
         IN  a \in Seq(S) /\ Len(a) = Len(t) - m + 1 /\ \A i \in 1 .. Len(a) : a[i] = t[m + i - 1]
OBVIOUS

(* A suffix of a suffix is a suffix. *)
LEMMA SuffixOfSuffix ==
  ASSUME NEW S, NEW s \in Seq(S), NEW k \in 0 .. Len(s),
         NEW t, t = SubSeq(s, k + 1, Len(s)), NEW m \in 1 .. Len(t) + 1
  PROVE  SubSeq(t, m, Len(t)) = SubSeq(s, k + m, Len(s))
<1> DEFINE a == SubSeq(t, m, Len(t))
           b == SubSeq(s, k + m, Len(s))
<1>1. /\ Len(s) \in Nat /\ t \in Seq(S) /\ Len(t) = Len(s) - k
      /\ \A i \in 1 .. Len(t) : t[i] = s[k + i]
  OBVIOUS
<1>2. a \in Seq(S) /\ Len(a) = Len(t) - m + 1 /\ \A i \in 1 .. Len(a) : a[i] = t[m + i - 1]
  BY <1>1, SuffixIs
<1>3. b \in Seq(S) /\ Len(b) = Len(t) - m + 1 /\ \A i \in 1 .. Len(b) : b[i] = s[k + m + i - 1]
  BY <1>1
<1> HIDE DEF a, b
<1>4. Len(a) = Len(b)
  BY <1>2, <1>3
<1>5. ASSUME NEW i \in 1 .. Len(a)
      PROVE  a[i] = b[i]
  <2>1. PICK j \in 1 .. Len(t) : j = m + i - 1 /\ k + j = k + m + i - 1
    BY <1>1, <1>2
  <2> QED
    BY <1>1, <1>2, <1>3, <1>4, <2>1
<1>6. a = b
  BY <1>2, <1>3, <1>4, <1>5, SeqEqual
<1> QED
  BY <1>6 DEF a, b

-----------------------------------------------------------------------------
(* The recursion a fold is defined by runs over the sets of indices.         *)

\* Among numbers up to n + 1 that hold n + 1, the greatest is n + 1.
LEMMA MaxIsLast ==
  ASSUME NEW n \in Nat, NEW t \in SUBSET (1 .. n + 1), n + 1 \in t
  PROVE  Max(t) = n + 1
<1>1. \A y \in t : n + 1 >= y
  OBVIOUS
<1>2. Max(t) \in t /\ \A y \in t : Max(t) >= y
  BY <1>1, Zenon DEF Max
<1>3. Max(t) >= n + 1 /\ Max(t) \in 1 .. n + 1
  BY <1>2
<1> QED
  BY <1>3

\* The maximum of a set of numbers is one of them.
LEMMA MaxIsMember ==
  ASSUME NEW n \in Nat, NEW t \in SUBSET (1 .. n), t # {}
  PROVE  Max(t) \in t
<1> DEFINE T == {m \in Nat : \A u \in SUBSET (1 .. m) : u # {} => Max(u) \in u}
<1>1. 0 \in T
  <2>1. \A u \in SUBSET (1 .. 0) : u = {}
    OBVIOUS
  <2> QED
    BY <2>1
<1>2. ASSUME NEW m \in T
      PROVE  m + 1 \in T
  <2>1. ASSUME NEW u \in SUBSET (1 .. m + 1), u # {}
        PROVE  Max(u) \in u
    <3>1. CASE m + 1 \in u
      BY <3>1, MaxIsLast
    <3>2. CASE m + 1 \notin u
      <4>1. u \in SUBSET (1 .. m)
        BY <3>2
      <4> QED
        BY <4>1, <2>1
    <3> QED
      BY <3>1, <3>2
  <2> QED
    BY <2>1
<1> HIDE DEF T
<1>3. T = Nat
  <2>1. T \subseteq Nat
    BY DEF T
  <2> QED
    BY <1>1, <1>2, <2>1, NatSetInduction
<1> QED
  BY <1>3 DEF T

(* it holds what is folded over each set of the first n indices of s. *)
IsIteration(it, n, c, base, s) ==
  it = [t \in SUBSET (1 .. n) |->
          IF t = {} THEN base ELSE Op(c, it[t \ {Max(t)}], s[Max(t)])]

\* The iteration of Op over the indices exists.
LEMMA IterationExists ==
  ASSUME NEW c, NEW base, NEW s, NEW n \in Nat
  PROVE  \E it : IsIteration(it, n, c, base, s)
<1> DEFINE T == {m \in Nat : \E it : IsIteration(it, m, c, base, s)}
<1>1. 0 \in T
  <2> DEFINE it == [t \in SUBSET (1 .. 0) |-> base]
  <2>1. \A t \in SUBSET (1 .. 0) : t = {}
    OBVIOUS
  <2>2. IsIteration(it, 0, c, base, s)
    BY <2>1 DEF IsIteration
  <2> QED
    BY <2>2
<1>2. ASSUME NEW m \in T
      PROVE  m + 1 \in T
  <2>1. m \in Nat
    OBVIOUS
  <2>2. PICK it : IsIteration(it, m, c, base, s)
    OBVIOUS
  <2> DEFINE more == [t \in SUBSET (1 .. m + 1) |->
                        IF m + 1 \in t THEN Op(c, it[t \ {m + 1}], s[m + 1]) ELSE it[t]]
  <2>3. ASSUME NEW t \in SUBSET (1 .. m + 1)
        PROVE  more[t] = IF t = {} THEN base ELSE Op(c, more[t \ {Max(t)}], s[Max(t)])
    <3>1. CASE m + 1 \in t
      <4>1. Max(t) = m + 1 /\ t # {}
        BY <2>1, <3>1, MaxIsLast
      <4>2. t \ {m + 1} \in SUBSET (1 .. m + 1) /\ m + 1 \notin t \ {m + 1}
        OBVIOUS
      <4>3. more[t \ {m + 1}] = it[t \ {m + 1}]
        BY <4>2
      <4>4. more[t] = Op(c, it[t \ {m + 1}], s[m + 1])
        BY <3>1
      <4> QED
        BY <4>1, <4>3, <4>4
    <3>2. CASE m + 1 \notin t
      <4>1. t \in SUBSET (1 .. m)
        BY <2>1, <3>2
      <4>2. more[t] = it[t]
        BY <3>2
      <4>3. it[t] = IF t = {} THEN base ELSE Op(c, it[t \ {Max(t)}], s[Max(t)])
        BY <2>2, <4>1, Zenon DEF IsIteration
      <4>4. t \ {Max(t)} \in SUBSET (1 .. m + 1) /\ m + 1 \notin t \ {Max(t)}
        BY <3>2
      <4>5. more[t \ {Max(t)}] = it[t \ {Max(t)}]
        BY <4>4
      <4> QED
        BY <4>2, <4>3, <4>5
    <3> QED
      BY <3>1, <3>2
  <2>4. IsIteration(more, m + 1, c, base, s)
    <3> HIDE DEF more
    <3>1. more = [t \in SUBSET (1 .. m + 1) |-> more[t]]
      BY DEF more
    <3> QED
      BY <2>3, <3>1, Zenon DEF IsIteration
  <2> QED
    BY <2>1, <2>4
<1> HIDE DEF T
<1>3. T = Nat
  <2>1. T \subseteq Nat
    BY DEF T
  <2> QED
    BY <1>1, <1>2, <2>1, NatSetInduction
<1> QED
  BY <1>3 DEF T

(* Over the first k indices it is Op of what it is over the first k - 1. *)
Steps(it, n, c, base, s) ==
  /\ it[1 .. 0] = base
  /\ \A k \in 1 .. n : it[1 .. k] = Op(c, it[1 .. k - 1], s[k])

\* An iteration over indices takes such steps.
LEMMA IterationStep ==
  ASSUME NEW c, NEW base, NEW s, NEW n \in Nat, NEW it, IsIteration(it, n, c, base, s)
  PROVE  Steps(it, n, c, base, s)
<1>1. it[1 .. 0] = base
  <2>1. 1 .. 0 = {} /\ 1 .. 0 \in SUBSET (1 .. n)
    OBVIOUS
  <2> QED
    BY <2>1, Zenon DEF IsIteration
<1>2. ASSUME NEW k \in 1 .. n
      PROVE  it[1 .. k] = Op(c, it[1 .. k - 1], s[k])
  <2>1. k - 1 \in Nat /\ (k - 1) + 1 = k
    OBVIOUS
  <2>2. Max(1 .. k) = k
    <3>1. 1 .. k \in SUBSET (1 .. (k - 1) + 1) /\ (k - 1) + 1 \in 1 .. k
      BY <2>1
    <3>2. Max(1 .. k) = (k - 1) + 1
      BY <2>1, <3>1, MaxIsLast
    <3> QED
      BY <2>1, <3>2
  <2>3. (1 .. k) \ {k} = 1 .. k - 1 /\ 1 .. k # {} /\ 1 .. k \in SUBSET (1 .. n)
    OBVIOUS
  <2> QED
    BY <2>2, <2>3, Zenon DEF IsIteration
<1> QED
  BY <1>1, <1>2 DEF Steps

\* The fold is what the iteration gives for all indices.
LEMMA FoldIsIteration ==
  ASSUME NEW c, NEW base, NEW S, NEW s \in Seq(S)
  PROVE  \E it : IsIteration(it, Len(s), c, base, s) /\ FoldOf(c, base, s) = it[1 .. Len(s)]
<1>1. DOMAIN s = 1 .. Len(s) /\ Len(s) \in Nat
  OBVIOUS
<1> DEFINE it == CHOOSE it : IsIteration(it, Len(s), c, base, s)
<1>2. IsIteration(it, Len(s), c, base, s)
  BY <1>1, IterationExists
<1>3. FoldOf(c, base, s) = it[1 .. Len(s)]
  BY <1>1, Zenon DEF FoldOf, FoldLeft, MapThenFoldSet, IsIteration
<1> QED
  BY <1>2, <1>3

-----------------------------------------------------------------------------
(* Nothing is folded into the base. *)
THEOREM FoldEmpty ==
  ASSUME NEW c, NEW base
  PROVE  FoldOf(c, base, <<>>) = base
<1>1. ASSUME NEW e \in Seq({}), Len(e) = 0
      PROVE  FoldOf(c, base, e) = base
  <2>1. PICK it : IsIteration(it, Len(e), c, base, e) /\ FoldOf(c, base, e) = it[1 .. Len(e)]
    BY FoldIsIteration
  <2>2. Len(e) \in Nat
    BY <1>1
  <2>3. Steps(it, Len(e), c, base, e)
    BY <2>1, <2>2, IterationStep
  <2> QED
    BY <1>1, <2>1, <2>3 DEF Steps
<1>2. <<>> \in Seq({}) /\ Len(<<>>) = 0
  OBVIOUS
<1> QED
  BY <1>1, <1>2

(* One element more is one Op more, done last. *)
THEOREM FoldAppend ==
  ASSUME NEW c, NEW base, NEW S, NEW s \in Seq(S), NEW x \in S
  PROVE  FoldOf(c, base, Append(s, x)) = Op(c, FoldOf(c, base, s), x)
<1> DEFINE n == Len(s)
           sx == Append(s, x)
<1>1. /\ n \in Nat /\ sx \in Seq(S) /\ Len(sx) = n + 1 /\ sx[n + 1] = x
      /\ \A k \in 1 .. n : sx[k] = s[k]
  OBVIOUS
<1> HIDE DEF n, sx
<1>2. PICK a : IsIteration(a, n, c, base, s) /\ FoldOf(c, base, s) = a[1 .. n]
  BY FoldIsIteration DEF n
<1>3. PICK b : IsIteration(b, n + 1, c, base, sx) /\ FoldOf(c, base, sx) = b[1 .. n + 1]
  BY <1>1, FoldIsIteration
<1>4. a[1 .. 0] = base /\ \A k \in 1 .. n : a[1 .. k] = Op(c, a[1 .. k - 1], s[k])
  <2>1. Steps(a, n, c, base, s)
    BY <1>1, <1>2, IterationStep
  <2> QED
    BY <2>1 DEF Steps
<1>5. b[1 .. 0] = base /\ \A k \in 1 .. n + 1 : b[1 .. k] = Op(c, b[1 .. k - 1], sx[k])
  <2>1. n + 1 \in Nat
    BY <1>1
  <2>2. Steps(b, n + 1, c, base, sx)
    BY <1>3, <2>1, IterationStep
  <2> QED
    BY <2>2 DEF Steps
<1> DEFINE T == {k \in Nat : k <= n => a[1 .. k] = b[1 .. k]}
<1>6. T = Nat
  <2>1. 0 \in T
    BY <1>4, <1>5
  <2>2. ASSUME NEW k \in T, k + 1 <= n
        PROVE  a[1 .. k + 1] = b[1 .. k + 1]
    <3>1. k + 1 \in 1 .. n /\ k + 1 \in 1 .. n + 1 /\ (k + 1) - 1 = k /\ a[1 .. k] = b[1 .. k]
      BY <1>1, <2>2
    <3> QED
      BY <1>1, <1>4, <1>5, <3>1
  <2>3. \A k \in T : k + 1 \in T
    BY <2>2
  <2> HIDE DEF T
  <2>4. T \subseteq Nat
    BY DEF T
  <2> QED
    BY <2>1, <2>3, <2>4, NatSetInduction
<1>7. a[1 .. n] = b[1 .. n]
  BY <1>1, <1>6
<1>8. n + 1 \in 1 .. n + 1 /\ (n + 1) - 1 = n
  BY <1>1
<1>9. b[1 .. n + 1] = Op(c, b[1 .. n], x)
  BY <1>1, <1>5, <1>8
<1> QED
  BY <1>2, <1>3, <1>7, <1>9 DEF sx

(* What holds of the base and is kept by Op holds of every fold. *)
THEOREM FoldType ==
  ASSUME NEW c, NEW S, NEW A, NEW base \in A, \A a \in A, x \in S : Op(c, a, x) \in A
  PROVE  \A s \in Seq(S) : FoldOf(c, base, s) \in A
<1> DEFINE T == {s \in Seq(S) : FoldOf(c, base, s) \in A}
<1>1. <<>> \in T
  BY FoldEmpty
<1>2. \A s \in T, x \in S : Append(s, x) \in T
  BY FoldAppend
<1> HIDE DEF T
<1>3. T = Seq(S)
  <2>1. T \in SUBSET Seq(S)
    BY DEF T
  <2> QED
    BY <1>1, <1>2, <2>1, SeqSetInduction
<1> QED
  BY <1>3 DEF T
=============================================================================
