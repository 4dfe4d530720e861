--------------------------- MODULE OutlineProofs ----------------------------
(***************************************************************************)
(* Every outline the engine makes is legal, for every set of ids, payloads *)
(* and ops, every start that is legal, and every limit.                    *)
(***************************************************************************)
EXTENDS Outlines, FiniteSetTheorems, FunctionTheorems, SequenceTheorems, TLAPS

-----------------------------------------------------------------------------
(***************************************************************************)
(* Places.                                                                 *)
(***************************************************************************)
(* One way after another. *)
LEMMA JoinIs ==
  ASSUME NEW p \in Place, NEW r \in Place
  PROVE  /\ p \o r \in Place
         /\ Len(p) \in Nat /\ Len(r) \in Nat
         /\ Len(p \o r) = Len(p) + Len(r)
         /\ \A k \in 1 .. Len(p) : (p \o r)[k] = p[k]
         /\ \A k \in 1 .. Len(r) : (p \o r)[Len(p) + k] = r[k]
BY ConcatProperties, LenProperties DEF Place

(* A place is over every way down from it, and what is below it is that way. *)
LEMMA OverJoin ==
  ASSUME NEW p \in Place, NEW r \in Place
  PROVE  Over(p, p \o r) /\ Below(p, p \o r) = r
<1>1. Over(p, p \o r)
  BY JoinIs DEF Over
<1> DEFINE q == p \o r
<1>2. /\ q \in Place /\ Len(q) = Len(p) + Len(r) /\ Len(p) \in Nat /\ Len(r) \in Nat
      /\ \A k \in 1 .. Len(r) : q[Len(p) + k] = r[k]
  BY JoinIs
<1>3. \A k \in Len(p) + 1 .. Len(q) : q[k] \in Slots \X (Nat \ {0})
  BY <1>2, LenProperties DEF Place
<1> HIDE DEF q
<1>4. /\ SubSeq(q, Len(p) + 1, Len(q)) \in Place
      /\ Len(SubSeq(q, Len(p) + 1, Len(q))) = Len(r)
      /\ \A i \in 1 .. Len(r) : SubSeq(q, Len(p) + 1, Len(q))[i] = q[Len(p) + i]
  <2>1. Len(p) + 1 \in Int /\ Len(q) \in Int
    BY <1>2
  <2>2. /\ SubSeq(q, Len(p) + 1, Len(q)) \in Seq(Slots \X (Nat \ {0}))
        /\ Len(SubSeq(q, Len(p) + 1, Len(q)))
             = IF Len(p) + 1 <= Len(q) THEN Len(q) - (Len(p) + 1) + 1 ELSE 0
        /\ \A i \in 1 .. Len(q) - (Len(p) + 1) + 1 :
             SubSeq(q, Len(p) + 1, Len(q))[i] = q[Len(p) + 1 + i - 1]
    BY <1>3, <2>1, SubSeqProperties
  <2> QED
    BY <1>2, <2>2 DEF Place
<1>5. SubSeq(q, Len(p) + 1, Len(q)) = r
  BY <1>2, <1>4, SeqEqual DEF Place
<1> QED
  BY <1>1, <1>5 DEF Below, q

(* A place under another is reached from it. *)
LEMMA OverSplits ==
  ASSUME NEW p \in Place, NEW q \in Place, Over(p, q)
  PROVE  Below(p, q) \in Place /\ q = p \o Below(p, q)
<1>1. /\ Len(p) \in Nat /\ Len(q) \in Nat /\ Len(p) <= Len(q)
      /\ \A k \in 1 .. Len(p) : p[k] = q[k]
      /\ \A k \in 1 .. Len(q) : q[k] \in Slots \X (Nat \ {0})
  BY LenProperties DEF Over, Place
<1> DEFINE r == SubSeq(q, Len(p) + 1, Len(q))
<1>2. /\ r \in Place /\ Len(r) = Len(q) - Len(p)
      /\ \A i \in 1 .. Len(r) : r[i] = q[Len(p) + i]
  <2>1. /\ r \in Seq(Slots \X (Nat \ {0}))
        /\ Len(r) = IF Len(p) + 1 <= Len(q) THEN Len(q) - (Len(p) + 1) + 1 ELSE 0
        /\ \A i \in 1 .. Len(q) - (Len(p) + 1) + 1 : r[i] = q[Len(p) + 1 + i - 1]
    <3>1. Len(p) + 1 \in Int /\ Len(q) \in Int
      BY <1>1
    <3>2. \A i \in Len(p) + 1 .. Len(q) : q[i] \in Slots \X (Nat \ {0})
      BY <1>1
    <3> QED
      BY <3>1, <3>2, SubSeqProperties
  <2> QED
    BY <1>1, <2>1 DEF Place
<1> HIDE DEF r
<1>3. /\ p \o r \in Place /\ Len(p \o r) = Len(q)
      /\ \A k \in 1 .. Len(p) : (p \o r)[k] = p[k]
      /\ \A k \in 1 .. Len(r) : (p \o r)[Len(p) + k] = r[k]
  <2>1. Len(p) \in Nat /\ Len(q) \in Nat /\ r \in Place /\ Len(r) = Len(q) - Len(p)
    BY <1>1, <1>2
  <2>2. /\ p \o r \in Place /\ Len(p \o r) = Len(p) + Len(r)
        /\ \A k \in 1 .. Len(p) : (p \o r)[k] = p[k]
        /\ \A k \in 1 .. Len(r) : (p \o r)[Len(p) + k] = r[k]
    BY <2>1, JoinIs, Zenon
  <2>3. Len(p) + Len(r) = Len(q)
    BY <2>1
  <2> QED
    BY <2>2, <2>3, Zenon
<1>4. ASSUME NEW k \in 1 .. Len(q)
      PROVE  q[k] = (p \o r)[k]
  <2>1. CASE k <= Len(p)
    BY <1>1, <1>3, <2>1
  <2>2. CASE k > Len(p)
    <3>1. k - Len(p) \in 1 .. Len(r) /\ Len(p) + (k - Len(p)) = k
      BY <1>1, <1>2, <2>2
    <3> QED
      BY <1>2, <1>3, <3>1
  <2>3. Len(p) \in Nat
    BY <1>1
  <2>4. k <= Len(p) \/ k > Len(p)
    BY <2>3
  <2> QED
    BY <2>1, <2>2, <2>4, Zenon
<1>5. q = p \o r
  BY <1>3, <1>4, SeqEqual DEF Place
<1> QED
  BY <1>2, <1>5 DEF Below, r

(* Over is an order, and the places over one place are a chain. *)
LEMMA OverIsOrder ==
  /\ \A p \in Place : Over(p, p) /\ Over(<<>>, p)
  /\ \A p, q, r \in Place : Over(p, q) /\ Over(q, r) => Over(p, r)
  /\ \A p, q \in Place : Over(p, q) /\ Over(q, p) => p = q
  /\ \A p, q, r \in Place : Over(p, r) /\ Over(q, r) => Over(p, q) \/ Over(q, p)
<1>1. \A p \in Place : Len(p) \in Nat
  BY LenProperties DEF Place
<1>2. \A p \in Place : Over(p, p) /\ Over(<<>>, p)
  BY <1>1 DEF Over
<1>3. ASSUME NEW p \in Place, NEW q \in Place, NEW r \in Place, Over(p, q), Over(q, r)
      PROVE  Over(p, r)
  BY <1>1, <1>3 DEF Over
<1>4. ASSUME NEW p \in Place, NEW q \in Place, Over(p, q), Over(q, p)
      PROVE  p = q
  <2>1. Len(p) = Len(q) /\ \A k \in 1 .. Len(p) : p[k] = q[k]
    BY <1>1, <1>4 DEF Over
  <2> QED
    BY <2>1, SeqEqual DEF Place
<1>5. ASSUME NEW p \in Place, NEW q \in Place, NEW r \in Place, Over(p, r), Over(q, r)
      PROVE  Over(p, q) \/ Over(q, p)
  BY <1>1, <1>5 DEF Over
<1> QED
  BY <1>2, <1>3, <1>4, <1>5

(* Two ways down from one place are one over the other as they are by        *)
(* themselves, and are different if they are.                                *)
LEMMA OverUnder ==
  ASSUME NEW p \in Place, NEW a \in Place, NEW b \in Place
  PROVE  /\ Over(p \o a, p \o b) <=> Over(a, b)
         /\ p \o a = p \o b <=> a = b
<1>1. /\ Len(p) \in Nat /\ Len(a) \in Nat /\ Len(b) \in Nat
      /\ p \o a \in Place /\ p \o b \in Place
      /\ Len(p \o a) = Len(p) + Len(a) /\ Len(p \o b) = Len(p) + Len(b)
      /\ \A k \in 1 .. Len(p) : (p \o a)[k] = p[k] /\ (p \o b)[k] = p[k]
      /\ \A k \in 1 .. Len(a) : (p \o a)[Len(p) + k] = a[k]
      /\ \A k \in 1 .. Len(b) : (p \o b)[Len(p) + k] = b[k]
  BY JoinIs
<1>2. ASSUME Over(a, b)
      PROVE  Over(p \o a, p \o b)
  <2>1. ASSUME NEW k \in 1 .. Len(p) + Len(a)
        PROVE  (p \o a)[k] = (p \o b)[k]
    <3>1. CASE k <= Len(p)
      BY <1>1, <3>1
    <3>2. CASE k > Len(p)
      <4>1. PICK j \in 1 .. Len(a) : k = Len(p) + j
        <5>1. k - Len(p) \in 1 .. Len(a) /\ k = Len(p) + (k - Len(p))
          BY <1>1, <3>2
        <5> QED
          BY <5>1
      <4>2. j \in 1 .. Len(b) /\ a[j] = b[j]
        BY <1>1, <1>2 DEF Over
      <4> QED
        BY <1>1, <4>1, <4>2
    <3>3. Len(p) \in Nat
      BY <1>1
    <3>4. k <= Len(p) \/ k > Len(p)
      BY <3>3
    <3> QED
      BY <3>1, <3>2, <3>4, Zenon
  <2> QED
    BY <1>1, <1>2, <2>1 DEF Over
<1>3. ASSUME Over(p \o a, p \o b)
      PROVE  Over(a, b)
  <2>1. Len(a) <= Len(b)
    BY <1>1, <1>3 DEF Over
  <2>2. ASSUME NEW j \in 1 .. Len(a)
        PROVE  a[j] = b[j]
    <3>1. Len(p) + j \in 1 .. Len(p \o a) /\ j \in 1 .. Len(b)
      BY <1>1, <2>1
    <3>2. (p \o a)[Len(p) + j] = (p \o b)[Len(p) + j]
      BY <1>3, <3>1 DEF Over
    <3> QED
      BY <1>1, <3>1, <3>2
  <2> QED
    BY <2>1, <2>2 DEF Over
<1>4. p \o a = p \o b => a = b
  BY OverJoin
<1> QED
  BY <1>2, <1>3, <1>4

(* A child's place. *)
LEMMA ChildIs ==
  ASSUME NEW p \in Place, NEW s \in Slots, NEW i \in Nat \ {0}
  PROVE  /\ Child(p, s, i) \in Place
         /\ Len(Child(p, s, i)) = Len(p) + 1 /\ Len(p) \in Nat
         /\ Child(p, s, i)[Len(p) + 1] = <<s, i>>
         /\ \A k \in 1 .. Len(p) : Child(p, s, i)[k] = p[k]
         /\ Front(Child(p, s, i)) = p
         /\ Last(Child(p, s, i)) = <<s, i>>
         /\ Child(p, s, i) # <<>>
<1> DEFINE c == Append(p, <<s, i>>)
<1>1. <<s, i>> \in Slots \X (Nat \ {0})
  OBVIOUS
<1>2. /\ c \in Place /\ c # <<>> /\ Len(c) = Len(p) + 1 /\ Len(p) \in Nat
      /\ c[Len(p) + 1] = <<s, i>>
      /\ \A k \in 1 .. Len(p) : c[k] = p[k]
  <2>1. p \in Seq(Slots \X (Nat \ {0})) /\ Len(p) \in Nat
    BY LenProperties DEF Place
  <2>2. /\ c \in Seq(Slots \X (Nat \ {0})) /\ c # <<>> /\ Len(c) = Len(p) + 1
        /\ \A k \in 1 .. Len(p) : c[k] = p[k]
        /\ c[Len(p) + 1] = <<s, i>>
    <3>1. c \in Seq(Slots \X (Nat \ {0}))
      BY <1>1, <2>1
    <3>2. Len(c) = Len(p) + 1 /\ c[Len(p) + 1] = <<s, i>>
      BY <1>1, <2>1
    <3>3. \A k \in 1 .. Len(p) : c[k] = p[k]
      BY <1>1, <2>1
    <3>4. c # <<>>
      <4>1. Len(c) # 0
        BY <3>2, <2>1
      <4> HIDE DEF c
      <4> QED
        BY <4>1
    <3> QED
      BY <3>1, <3>2, <3>3, <3>4, Zenon
  <2> QED
    BY <2>1, <2>2, Zenon DEF Place
<1>3. Front(c) = p
  <2>1. SubSeq(c, 1, Len(c) - 1) = p
    BY <1>1 DEF Place
  <2> QED
    BY <2>1 DEF Front
<1>4. Last(c) = <<s, i>>
  BY <1>2 DEF Last
<1> QED
  BY <1>2, <1>3, <1>4 DEF Child

(* Every place but the root's is a child's. *)
LEMMA PlaceIsChild ==
  ASSUME NEW q \in Place, q # <<>>
  PROVE  /\ Front(q) \in Place /\ Last(q)[1] \in Slots /\ Last(q)[2] \in Nat \ {0}
         /\ q = Child(Front(q), Last(q)[1], Last(q)[2])
<1>1. PICK u \in Place, e \in Slots \X (Nat \ {0}) : q = Append(u, e)
  BY SequenceEmptyOrAppend DEF Place
<1>2. e[1] \in Slots /\ e[2] \in Nat \ {0} /\ e = <<e[1], e[2]>>
  OBVIOUS
<1>3. q = Child(u, e[1], e[2])
  BY <1>1, <1>2 DEF Child
<1>4. Front(q) = u /\ Last(q) = e
  BY <1>2, <1>3, ChildIs
<1> QED
  BY <1>2, <1>3, <1>4

(* The child of a place further down. *)
LEMMA JoinChild ==
  ASSUME NEW p \in Place, NEW r \in Place, NEW s \in Slots, NEW i \in Nat \ {0}
  PROVE  p \o Child(r, s, i) = Child(p \o r, s, i)
<1>1. <<s, i>> \in Slots \X (Nat \ {0})
  OBVIOUS
<1>2. p \o r \in Place
  BY JoinIs
<1>3. <<<<s, i>>>> \in Place
  BY <1>1 DEF Place
<1>4. Child(r, s, i) = r \o <<<<s, i>>>> /\ Child(p \o r, s, i) = (p \o r) \o <<<<s, i>>>>
  BY <1>1, <1>2, AppendIsConcat DEF Place, Child
<1> QED
  BY <1>3, <1>4, ConcatAssociative DEF Place

(* The root is nowhere further down, and a way of no steps leads nowhere.    *)
LEMMA JoinEmpty == \A p \in Place : p \o <<>> = p /\ <<>> \in Place /\ Len(<<>>) = 0
BY ConcatEmptySeq, EmptySeq DEF Place

(* A child is under its parent, not over it; two children are apart; what is *)
(* over a child is the child or over its parent.                             *)
LEMMA ChildrenApart ==
  ASSUME NEW p \in Place, NEW s \in Slots, NEW i \in Nat \ {0}
  PROVE  /\ Over(p, Child(p, s, i)) /\ ~Over(Child(p, s, i), p)
         /\ \A u \in Slots, j \in Nat \ {0} :
              Over(Child(p, s, i), Child(p, u, j)) => s = u /\ i = j
         /\ \A a \in Place : Over(a, Child(p, s, i)) => a = Child(p, s, i) \/ Over(a, p)
<1> DEFINE c == Child(p, s, i)
<1>1. /\ c \in Place /\ Len(c) = Len(p) + 1 /\ Len(p) \in Nat
      /\ c[Len(p) + 1] = <<s, i>>
      /\ \A k \in 1 .. Len(p) : c[k] = p[k]
  BY ChildIs
<1> HIDE DEF c
<1>2. Over(p, c) /\ ~Over(c, p)
  BY <1>1 DEF Over
<1>3. ASSUME NEW u \in Slots, NEW j \in Nat \ {0}, Over(c, Child(p, u, j))
      PROVE  s = u /\ i = j
  <2>1. Child(p, u, j)[Len(p) + 1] = <<u, j>>
    BY ChildIs
  <2>2. Len(p) + 1 \in 1 .. Len(c)
    BY <1>1
  <2>3. c[Len(p) + 1] = Child(p, u, j)[Len(p) + 1]
    BY <1>3, <2>2 DEF Over
  <2> QED
    BY <1>1, <2>1, <2>3
<1>4. ASSUME NEW a \in Place, Over(a, c)
      PROVE  a = c \/ Over(a, p)
  <2>1. Len(a) \in Nat /\ Len(a) <= Len(c) /\ \A k \in 1 .. Len(a) : a[k] = c[k]
    BY <1>4, LenProperties DEF Over, Place
  <2>2. CASE Len(a) = Len(c)
    <3>1. \A k \in 1 .. Len(a) : a[k] = c[k]
      BY <2>1
    <3> QED
      BY <1>1, <2>2, <3>1, SeqEqual DEF Place
  <2>3. CASE Len(a) # Len(c)
    <3>1. Len(a) <= Len(p)
      BY <1>1, <2>1, <2>3
    <3>2. \A k \in 1 .. Len(a) : a[k] = p[k]
      BY <1>1, <2>1, <3>1
    <3> QED
      BY <3>1, <3>2 DEF Over
  <2> QED
    BY <2>2, <2>3
<1> QED
  BY <1>2, <1>3, <1>4 DEF c

(* What is in a slot is under one child in it. *)
LEMMA InSlotIs ==
  ASSUME NEW p \in Place, NEW s \in Slots, NEW q \in Place
  PROVE  /\ InSlot(p, s, q) <=> \E i \in Nat \ {0} : Over(Child(p, s, i), q)
         /\ \A i \in Nat \ {0} :
              Over(Child(p, s, i), q) =>
                q[Len(p) + 1][2] = i /\ Below(Child(p, s, 1), q) = Below(Child(p, s, i), q)
<1>1. Len(p) \in Nat /\ Len(q) \in Nat /\ \A k \in 1 .. Len(q) : q[k] \in Slots \X (Nat \ {0})
  BY LenProperties DEF Place
<1>2. ASSUME NEW i \in Nat \ {0}, Over(Child(p, s, i), q)
      PROVE  /\ InSlot(p, s, q) /\ q[Len(p) + 1][2] = i
             /\ Below(Child(p, s, 1), q) = Below(Child(p, s, i), q)
  <2> DEFINE c == Child(p, s, i)
  <2>1. /\ c \in Place /\ Len(c) = Len(p) + 1 /\ c[Len(p) + 1] = <<s, i>> /\ Over(p, c)
        /\ Len(Child(p, s, 1)) = Len(p) + 1
    <3>1. 1 \in Nat \ {0}
      OBVIOUS
    <3>2. Len(Child(p, s, 1)) = Len(p) + 1
      BY <3>1, ChildIs
    <3>3. c \in Place /\ Len(c) = Len(p) + 1 /\ c[Len(p) + 1] = <<s, i>>
      BY ChildIs
    <3>4. Over(p, c)
      BY ChildrenApart
    <3> QED
      BY <3>2, <3>3, <3>4
  <2>2. Over(c, q)
    BY <1>2
  <2> HIDE DEF c
  <2>3. Over(p, q)
    BY <2>1, <2>2, OverIsOrder
  <2>4. Len(p) < Len(q) /\ q[Len(p) + 1] = <<s, i>>
    <3>1. Len(p) + 1 \in 1 .. Len(c) /\ Len(c) <= Len(q)
      BY <1>1, <2>1, <2>2 DEF Over
    <3>2. c[Len(p) + 1] = q[Len(p) + 1]
      BY <2>2, <3>1 DEF Over
    <3> QED
      BY <1>1, <2>1, <3>1, <3>2
  <2>5. Below(Child(p, s, 1), q) = Below(c, q)
    BY <2>1 DEF Below
  <2> QED
    BY <2>3, <2>4, <2>5 DEF InSlot, c
<1>3. ASSUME InSlot(p, s, q)
      PROVE  \E i \in Nat \ {0} : Over(Child(p, s, i), q)
  <2>1. Len(p) < Len(q) /\ Over(p, q) /\ q[Len(p) + 1][1] = s
    BY <1>3 DEF InSlot
  <2>2. q[Len(p) + 1] \in Slots \X (Nat \ {0})
    BY <1>1, <2>1
  <2>3. PICK i \in Nat \ {0} : q[Len(p) + 1] = <<s, i>>
    BY <2>1, <2>2
  <2> DEFINE c == Child(p, s, i)
  <2>4. /\ Len(c) = Len(p) + 1 /\ c[Len(p) + 1] = <<s, i>>
        /\ \A k \in 1 .. Len(p) : c[k] = p[k]
    BY ChildIs
  <2> HIDE DEF c
  <2>5. \A k \in 1 .. Len(p) : p[k] = q[k]
    BY <2>1 DEF Over
  <2>6. ASSUME NEW k \in 1 .. Len(p) + 1
        PROVE  c[k] = q[k]
    <3>1. k \in 1 .. Len(p) \/ k = Len(p) + 1
      BY <1>1
    <3>2. CASE k \in 1 .. Len(p)
      BY <2>4, <2>5, <3>2, Zenon
    <3>3. CASE k = Len(p) + 1
      BY <2>3, <2>4, <3>3, Zenon
    <3> QED
      BY <3>1, <3>2, <3>3, Zenon
  <2>7. Over(c, q)
    BY <1>1, <2>1, <2>4, <2>6 DEF Over
  <2> QED
    BY <2>7 DEF c
<1> QED
  BY <1>2, <1>3

(* A way further down. *)
Join(p, r) == p \o r

(* The above, in these terms. *)
LEMMA JoinFacts ==
  /\ <<>> \in Place
  /\ \A p \in Place : Join(p, <<>>) = p
  /\ \A p, r \in Place :
       Join(p, r) \in Place /\ Over(p, Join(p, r)) /\ Below(p, Join(p, r)) = r
  /\ \A p, q \in Place : Over(p, q) => Below(p, q) \in Place /\ q = Join(p, Below(p, q))
  /\ \A p, a, b \in Place :
       /\ Over(Join(p, a), Join(p, b)) <=> Over(a, b)
       /\ Join(p, a) = Join(p, b) => a = b
  /\ \A p, r \in Place, s \in Slots, i \in Nat \ {0} :
       Join(p, Child(r, s, i)) = Child(Join(p, r), s, i)
<1>1. <<>> \in Place
  BY JoinEmpty, EmptySeq DEF Place
<1>2. ASSUME NEW p \in Place
      PROVE  Join(p, <<>>) = p
  BY JoinEmpty DEF Join
<1>3. ASSUME NEW p \in Place, NEW r \in Place
      PROVE  Join(p, r) \in Place /\ Over(p, Join(p, r)) /\ Below(p, Join(p, r)) = r
  BY JoinIs, OverJoin DEF Join
<1>4. ASSUME NEW p \in Place, NEW q \in Place, Over(p, q)
      PROVE  Below(p, q) \in Place /\ q = Join(p, Below(p, q))
  BY <1>4, OverSplits DEF Join
<1>5. ASSUME NEW p \in Place, NEW a \in Place, NEW b \in Place
      PROVE  /\ Over(Join(p, a), Join(p, b)) <=> Over(a, b)
             /\ Join(p, a) = Join(p, b) => a = b
  BY OverUnder DEF Join
<1>6. ASSUME NEW p \in Place, NEW r \in Place, NEW s \in Slots, NEW i \in Nat \ {0}
      PROVE  Join(p, Child(r, s, i)) = Child(Join(p, r), s, i)
  BY JoinChild DEF Join
<1> QED
  BY <1>1, <1>2, <1>3, <1>4, <1>5, <1>6

(* What hangs from a child in a slot. *)
LEMMA SlotJoin ==
  ASSUME NEW p \in Place, NEW s \in Slots, NEW i \in Nat \ {0}, NEW r \in Place
  PROVE  /\ Join(Child(p, s, i), r) \in Place /\ InSlot(p, s, Join(Child(p, s, i), r))
         /\ Join(Child(p, s, i), r)[Len(p) + 1][2] = i
         /\ Below(Child(p, s, 1), Join(Child(p, s, i), r)) = r
<1> DEFINE c == Child(p, s, i)
           q == Join(c, r)
<1>1. c \in Place
  BY ChildIs
<1>2. q \in Place /\ Over(c, q) /\ Below(c, q) = r
  BY <1>1, JoinFacts
<1> HIDE DEF q
<1>3. InSlot(p, s, q) /\ q[Len(p) + 1][2] = i /\ Below(Child(p, s, 1), q) = Below(c, q)
  BY <1>2, InSlotIs
<1> QED
  BY <1>2, <1>3 DEF q

(* What is in a slot, and where it is found under its child.                 *)
LEMMA SlotPlaces ==
  ASSUME NEW p \in Place, NEW s \in Slots
  PROVE  /\ \A q \in Place : InSlot(p, s, q) =>
              \E i \in Nat \ {0}, r \in Place : q = Join(Child(p, s, i), r)
         /\ \A a, q \in Place : InSlot(p, s, a) /\ Over(a, q) => InSlot(p, s, q)
         /\ \A a \in Place : Over(a, p) => ~InSlot(p, s, a)
         /\ ~InSlot(p, s, p)
<1>1. ASSUME NEW q \in Place, InSlot(p, s, q)
      PROVE  \E i \in Nat \ {0}, r \in Place : q = Join(Child(p, s, i), r)
  <2>1. PICK i \in Nat \ {0} : Over(Child(p, s, i), q)
    BY <1>1, InSlotIs
  <2>2. Child(p, s, i) \in Place
    BY ChildIs
  <2> QED
    BY <2>1, <2>2, JoinFacts
<1>3. ASSUME NEW a \in Place, NEW q \in Place, InSlot(p, s, a), Over(a, q)
      PROVE  InSlot(p, s, q)
  <2>1. PICK i \in Nat \ {0} : Over(Child(p, s, i), a)
    BY <1>3, InSlotIs
  <2>2. Child(p, s, i) \in Place
    BY ChildIs
  <2>3. Over(Child(p, s, i), q)
    BY <1>3, <2>1, <2>2, OverIsOrder
  <2> QED
    BY <2>3, InSlotIs
<1>4. ASSUME NEW a \in Place, Over(a, p)
      PROVE  ~InSlot(p, s, a)
  <2> SUFFICES ASSUME InSlot(p, s, a)
               PROVE  FALSE
    OBVIOUS
  <2>1. PICK i \in Nat \ {0} : Over(Child(p, s, i), a)
    BY InSlotIs
  <2>2. Child(p, s, i) \in Place /\ ~Over(Child(p, s, i), p)
    BY ChildIs, ChildrenApart
  <2> QED
    BY <1>4, <2>1, <2>2, OverIsOrder
<1>5. ~InSlot(p, s, p)
  BY <1>4, OverIsOrder
<1> QED
  BY <1>1, <1>3, <1>4, <1>5, Zenon

-----------------------------------------------------------------------------
(***************************************************************************)
(* Trees.                                                                  *)
(***************************************************************************)
Trees == {t \in UNION {[D -> Content] : D \in SUBSET Place} : IsTree(t)}

(* Every tree is one of them, and the lack of one is none. *)
LEMMA TreesAre == \A t : t \in Trees <=> IsTree(t)
<1>1. ASSUME NEW t, IsTree(t)
      PROVE  t \in Trees
  <2>1. DOMAIN t \in SUBSET Place /\ t \in [DOMAIN t -> Content]
    BY <1>1 DEF IsTree
  <2>2. t \in UNION {[D -> Content] : D \in SUBSET Place}
    BY <2>1
  <2> QED
    BY <1>1, <2>2 DEF Trees
<1> QED
  BY <1>1 DEF Trees

(* The lack of a tree is none. *)
LEMMA NoTreeIsNone == ~IsTree(NoTree)
<1>1. DOMAIN NoTree = {}
  BY DEF NoTree
<1> QED
  BY <1>1 DEF IsTree

(* What a node has. *)
LEMMA NodeIs ==
  ASSUME NEW t, IsTree(t), NEW q \in DOMAIN t
  PROVE  /\ q \in Place /\ t[q] \in Content
         /\ t[q].id \in Id /\ t[q].kind \in Kinds
         /\ \A s \in Slots : t[q].size[s] \in Nat
<1>1. q \in Place /\ t[q] \in Content
  BY DEF IsTree
<1> QED
  BY <1>1 DEF Content

(* The places of a tree by what is a child of what. *)
HangsTogether(t) ==
  \A q \in Place, s \in Slots, i \in Nat \ {0} :
    Child(q, s, i) \in DOMAIN t <=> q \in DOMAIN t /\ i <= t[q].size[s]

(* A tree has exactly the children its nodes know of. *)
LEMMA TreeByChildren ==
  ASSUME NEW t, IsFiniteSet(DOMAIN t), DOMAIN t \subseteq Place,
         t \in [DOMAIN t -> Content], <<>> \in DOMAIN t
  PROVE  IsTree(t) <=> HangsTogether(t)
<1>1. ASSUME NEW q \in DOMAIN t, NEW s \in Slots
      PROVE  q \in Place /\ t[q].size[s] \in Nat
  BY DEF Content
<1>2. ASSUME IsTree(t), NEW q \in Place, NEW s \in Slots, NEW i \in Nat \ {0}
      PROVE  Child(q, s, i) \in DOMAIN t <=> q \in DOMAIN t /\ i <= t[q].size[s]
  <2>1. ASSUME Child(q, s, i) \in DOMAIN t
        PROVE  q \in DOMAIN t /\ i <= t[q].size[s]
    <3> DEFINE c == Child(q, s, i)
    <3>1. c # <<>> /\ Front(c) = q /\ Last(c) = <<s, i>>
      BY ChildIs
    <3> HIDE DEF c
    <3>2. c \in DOMAIN t \ {<<>>}
      BY <2>1, <3>1 DEF c
    <3>3. Front(c) \in DOMAIN t /\ Last(c)[2] <= t[Front(c)].size[Last(c)[1]]
      BY <1>2, <3>2 DEF IsTree
    <3> QED
      BY <3>1, <3>3
  <2>2. ASSUME q \in DOMAIN t, i <= t[q].size[s]
        PROVE  Child(q, s, i) \in DOMAIN t
    <3>1. i \in 1 .. t[q].size[s]
      BY <1>1, <2>2
    <3> QED
      BY <1>2, <2>2, <3>1 DEF IsTree
  <2> QED
    BY <2>1, <2>2
<1>3. ASSUME HangsTogether(t)
      PROVE  IsTree(t)
  <2>1. ASSUME NEW q \in DOMAIN t, NEW s \in Slots, NEW i \in 1 .. t[q].size[s]
        PROVE  Child(q, s, i) \in DOMAIN t
    <3>1. i \in Nat \ {0} /\ i <= t[q].size[s] /\ q \in Place
      BY <1>1
    <3> QED
      BY <1>3, <3>1 DEF HangsTogether
  <2>2. ASSUME NEW q \in DOMAIN t \ {<<>>}
        PROVE  Front(q) \in DOMAIN t /\ Last(q)[2] <= t[Front(q)].size[Last(q)[1]]
    <3>1. q \in Place /\ q # <<>>
      OBVIOUS
    <3>2. /\ Front(q) \in Place /\ Last(q)[1] \in Slots /\ Last(q)[2] \in Nat \ {0}
          /\ q = Child(Front(q), Last(q)[1], Last(q)[2])
      BY <3>1, PlaceIsChild
    <3> QED
      BY <1>3, <3>2 DEF HangsTogether
  <2> QED
    BY <2>1, <2>2 DEF IsTree
<1> QED
  BY <1>2, <1>3 DEF HangsTogether

(* What a tree is made of. *)
LEMMA TreeIs ==
  ASSUME NEW t, IsTree(t)
  PROVE  /\ IsFiniteSet(DOMAIN t) /\ DOMAIN t \subseteq Place /\ t \in [DOMAIN t -> Content]
         /\ <<>> \in DOMAIN t /\ HangsTogether(t)
<1>1. /\ IsFiniteSet(DOMAIN t) /\ DOMAIN t \subseteq Place /\ t \in [DOMAIN t -> Content]
      /\ <<>> \in DOMAIN t
  BY DEF IsTree
<1> QED
  BY <1>1, TreeByChildren

(* The subtree at a place is the part of the tree under it, and a tree. *)
LEMMA SubtreeIs ==
  ASSUME NEW t, IsTree(t), NEW p \in DOMAIN t
  PROVE  /\ \A r \in Place : r \in DOMAIN Subtree(t, p) <=> Join(p, r) \in DOMAIN t
         /\ \A r \in DOMAIN Subtree(t, p) :
              r \in Place /\ Join(p, r) \in DOMAIN t /\ Subtree(t, p)[r] = t[Join(p, r)]
         /\ IsTree(Subtree(t, p))
<1> DEFINE u == Subtree(t, p)
<1>1. /\ IsFiniteSet(DOMAIN t) /\ DOMAIN t \subseteq Place /\ t \in [DOMAIN t -> Content]
      /\ <<>> \in DOMAIN t /\ HangsTogether(t) /\ p \in Place
  BY TreeIs
<1>2. DOMAIN u = {Below(p, q) : q \in {x \in DOMAIN t : Over(p, x)}}
  BY DEF Subtree
<1>3. ASSUME NEW r \in DOMAIN u
      PROVE  r \in Place /\ Join(p, r) \in DOMAIN t /\ u[r] = t[Join(p, r)]
  <2>1. PICK q \in DOMAIN t : Over(p, q) /\ r = Below(p, q)
    BY <1>2
  <2>2. q \in Place
    BY <1>1
  <2>3. r \in Place /\ q = Join(p, r)
    BY <1>1, <2>1, <2>2, JoinFacts
  <2>4. u[r] = t[Join(p, r)]
    BY <1>2, <1>3 DEF Subtree, Join
  <2> QED
    BY <2>1, <2>3, <2>4
<1>4. ASSUME NEW r \in Place, Join(p, r) \in DOMAIN t
      PROVE  r \in DOMAIN u
  <2>1. Over(p, Join(p, r)) /\ Below(p, Join(p, r)) = r
    BY <1>1, JoinFacts
  <2> QED
    BY <1>2, <1>4, <2>1
<1>5. IsFiniteSet(DOMAIN u)
  <2> DEFINE f == [r \in DOMAIN u |-> Join(p, r)]
  <2>1. f \in [DOMAIN u -> DOMAIN t]
    BY <1>3
  <2>2. ASSUME NEW a \in DOMAIN u, NEW b \in DOMAIN u, f[a] = f[b]
        PROVE  a = b
    <3>1. a \in Place /\ b \in Place /\ Join(p, a) = Join(p, b)
      BY <1>3, <2>2
    <3> QED
      BY <1>1, <3>1, JoinFacts
  <2>3. f \in Injection(DOMAIN u, DOMAIN t)
    BY <2>1, <2>2 DEF Injection, IsInjective
  <2> QED
    BY <1>1, <2>3, FS_Injection
<1>6. u \in [DOMAIN u -> Content]
  <2>1. \A r \in DOMAIN u : u[r] \in Content
    BY <1>1, <1>3
  <2>2. u = [r \in DOMAIN u |-> u[r]]
    BY DEF Subtree
  <2> HIDE DEF u
  <2> QED
    BY <2>1, <2>2
<1>7. <<>> \in DOMAIN u
  BY <1>1, <1>4, JoinFacts
<1>8. HangsTogether(u)
  <2> SUFFICES ASSUME NEW q \in Place, NEW s \in Slots, NEW i \in Nat \ {0}
               PROVE  Child(q, s, i) \in DOMAIN u <=> q \in DOMAIN u /\ i <= u[q].size[s]
    BY DEF HangsTogether
  <2>1. Child(q, s, i) \in Place /\ Join(p, q) \in Place
    BY <1>1, ChildIs, JoinFacts
  <2>2. Join(p, Child(q, s, i)) = Child(Join(p, q), s, i)
    BY <1>1, JoinFacts
  <2>3. Child(q, s, i) \in DOMAIN u <=> Child(Join(p, q), s, i) \in DOMAIN t
    BY <1>3, <1>4, <2>1, <2>2
  <2>4. Child(Join(p, q), s, i) \in DOMAIN t <=> Join(p, q) \in DOMAIN t /\ i <= t[Join(p, q)].size[s]
    BY <1>1, <2>1 DEF HangsTogether
  <2>5. q \in DOMAIN u <=> Join(p, q) \in DOMAIN t
    BY <1>3, <1>4
  <2>6. q \in DOMAIN u => u[q] = t[Join(p, q)]
    BY <1>3
  <2> HIDE DEF u
  <2> QED
    BY <2>3, <2>4, <2>5, <2>6
<1>9. DOMAIN u \subseteq Place
  BY <1>3
<1>10. IsTree(u)
  <2> HIDE DEF u
  <2> QED
    BY <1>5, <1>6, <1>7, <1>8, <1>9, TreeByChildren
<1> QED
  BY <1>3, <1>4, <1>10

(* What hangs from different children is different. *)
LEMMA SlotApart ==
  \A p \in Place, s \in Slots, i, j \in Nat \ {0}, r, b \in Place :
    Join(Child(p, s, i), r) = Join(Child(p, s, j), b) => i = j /\ r = b
<1> SUFFICES ASSUME NEW p \in Place, NEW s \in Slots, NEW i \in Nat \ {0}, NEW j \in Nat \ {0},
                    NEW r \in Place, NEW b \in Place, Join(Child(p, s, i), r) = Join(Child(p, s, j), b)
             PROVE  i = j /\ r = b
  OBVIOUS
<1> DEFINE c == Child(p, s, i)
           e == Child(p, s, j)
           q == Join(c, r)
<1>1. c \in Place /\ e \in Place
  BY ChildIs
<1>2. q \in Place /\ Over(c, q) /\ Below(c, q) = r
  BY <1>1, JoinFacts
<1>3. Over(e, Join(e, b)) /\ Below(e, Join(e, b)) = b
  BY <1>1, JoinFacts
<1>4. q = Join(e, b)
  OBVIOUS
<1> HIDE DEF q
<1>5. \A k \in Nat \ {0} : Over(Child(p, s, k), q) => q[Len(p) + 1][2] = k
  BY <1>2, InSlotIs
<1>6. i = j
  <2>1. Over(Child(p, s, i), q) /\ Over(Child(p, s, j), q)
    BY <1>2, <1>3, <1>4
  <2> QED
    BY <1>5, <2>1
<1> QED
  BY <1>2, <1>3, <1>4, <1>6

(* What the entries of a group are. *)
LEMMA GroupIs ==
  ASSUME NEW group \in Seq(Trees)
  PROVE  /\ Len(group) \in Nat /\ DOMAIN group = 1 .. Len(group)
         /\ \A i \in DOMAIN group :
              /\ i \in Nat \ {0} /\ IsTree(group[i]) /\ DOMAIN group[i] \subseteq Place
              /\ IsFiniteSet(DOMAIN group[i])
<1>1. /\ Len(group) \in Nat /\ DOMAIN group = 1 .. Len(group)
      /\ \A i \in DOMAIN group : i \in Nat \ {0} /\ group[i] \in Trees
  BY LenProperties
<1>2. \A i \in DOMAIN group : IsTree(group[i])
  BY <1>1, TreesAre
<1> QED
  BY <1>1, <1>2, TreeIs

(* R is the group in the slot, and the old tree elsewhere, but for the size of *)
(* the slot.                                                                   *)
IsRegrouped(R, t, p, s, group) ==
  /\ DOMAIN R \subseteq Place
  /\ R = [q \in DOMAIN R |-> R[q]]
  /\ \A q \in Place : ~InSlot(p, s, q) =>
       /\ q \in DOMAIN R <=> q \in DOMAIN t
       /\ q \in DOMAIN t =>
            R[q] = IF q = p THEN [t[p] EXCEPT !.size = [@ EXCEPT ![s] = Len(group)]] ELSE t[q]
  /\ \A i \in Nat \ {0}, r \in Place :
       /\ Join(Child(p, s, i), r) \in DOMAIN R <=> i \in DOMAIN group /\ r \in DOMAIN group[i]
       /\ (i \in DOMAIN group /\ r \in DOMAIN group[i]) =>
            R[Join(Child(p, s, i), r)] = group[i][r]

(* That is what regrouping makes. *)
LEMMA RegroupIs ==
  ASSUME NEW t, IsTree(t), NEW p \in DOMAIN t, NEW s \in Slots, NEW group \in Seq(Trees)
  PROVE  IsRegrouped(Regroup(t, p, s, group), t, p, s, group)
<1> DEFINE R == Regroup(t, p, s, group)
           rest == {q \in DOMAIN t : ~InSlot(p, s, q)}
           Hanging(i) == {Join(Child(p, s, i), r) : r \in DOMAIN group[i]}
           filled == UNION {Hanging(i) : i \in DOMAIN group}
           Sized == [t[p] EXCEPT !.size = [@ EXCEPT ![s] = Len(group)]]
           Hung(q) == group[q[Len(p) + 1][2]][Below(Child(p, s, 1), q)]
<1>1. R = [q \in rest \cup filled |->
             IF q = p THEN Sized ELSE IF InSlot(p, s, q) THEN Hung(q) ELSE t[q]]
  BY DEF Regroup, Join
<1>2. p \in Place /\ DOMAIN t \subseteq Place
  BY TreeIs
<1>3. \A i \in DOMAIN group : i \in Nat \ {0} /\ DOMAIN group[i] \subseteq Place
  BY GroupIs
<1>4. ASSUME NEW q \in filled
      PROVE  q \in Place /\ InSlot(p, s, q)
  <2>0. PICK i \in DOMAIN group : q \in Hanging(i)
    OBVIOUS
  <2>1. PICK r \in DOMAIN group[i] : q = Join(Child(p, s, i), r)
    BY <2>0
  <2>2. i \in Nat \ {0} /\ r \in Place
    BY <1>3
  <2> QED
    BY <1>2, <2>1, <2>2, SlotJoin
<1>5. DOMAIN R = rest \cup filled
  BY <1>1
<1>6. ASSUME NEW q \in rest \cup filled
      PROVE  R[q] = IF q = p THEN Sized ELSE IF InSlot(p, s, q) THEN Hung(q) ELSE t[q]
  BY <1>1
<1> HIDE DEF R, rest, Hanging, filled, Sized, Hung
<1>7. ASSUME NEW q \in Place, ~InSlot(p, s, q)
      PROVE  /\ q \in DOMAIN R <=> q \in DOMAIN t
             /\ q \in DOMAIN t => R[q] = IF q = p THEN Sized ELSE t[q]
  <2>1. q \in rest <=> q \in DOMAIN t
    BY <1>7 DEF rest
  <2>2. q \notin filled
    BY <1>4, <1>7
  <2> QED
    BY <1>5, <1>6, <1>7, <2>1, <2>2
<1>8. ASSUME NEW i \in Nat \ {0}, NEW r \in Place
      PROVE  /\ Join(Child(p, s, i), r) \in DOMAIN R <=> i \in DOMAIN group /\ r \in DOMAIN group[i]
             /\ (i \in DOMAIN group /\ r \in DOMAIN group[i]) =>
                  R[Join(Child(p, s, i), r)] = group[i][r]
  <2> DEFINE q == Join(Child(p, s, i), r)
  <2>1. /\ q \in Place /\ InSlot(p, s, q)
        /\ q[Len(p) + 1][2] = i /\ Below(Child(p, s, 1), q) = r
    BY <1>2, SlotJoin
  <2>2. q \notin rest /\ q # p
    BY <1>2, <2>1, SlotPlaces DEF rest
  <2>3. q \in filled => i \in DOMAIN group /\ r \in DOMAIN group[i]
    <3>1. ASSUME NEW j \in DOMAIN group, NEW b \in DOMAIN group[j], q = Join(Child(p, s, j), b)
          PROVE  i = j /\ r = b
      <4>1. j \in Nat \ {0} /\ b \in Place
        BY <1>3
      <4> QED
        BY <1>2, <3>1, <4>1, SlotApart DEF q
    <3>2. ASSUME NEW j \in DOMAIN group, q \in Hanging(j)
          PROVE  i \in DOMAIN group /\ r \in DOMAIN group[i]
      <4>1. PICK b \in DOMAIN group[j] : q = Join(Child(p, s, j), b)
        BY <3>2 DEF Hanging
      <4> QED
        BY <3>1, <4>1
    <3> QED
      BY <3>2 DEF filled
  <2>4. (i \in DOMAIN group /\ r \in DOMAIN group[i]) => q \in filled
    BY DEF filled, Hanging
  <2>5. Hung(q) = group[i][r]
    BY <2>1 DEF Hung
  <2>6. q \in DOMAIN R <=> q \in filled
    BY <1>5, <2>2
  <2>7. q \in filled => R[q] = Hung(q)
    BY <1>6, <2>1, <2>2
  <2> HIDE DEF q
  <2>8. /\ q \in DOMAIN R <=> i \in DOMAIN group /\ r \in DOMAIN group[i]
        /\ (i \in DOMAIN group /\ r \in DOMAIN group[i]) => R[q] = group[i][r]
    BY <2>3, <2>4, <2>5, <2>6, <2>7
  <2> QED
    BY <2>8 DEF q
<1>9. DOMAIN R \subseteq Place
  BY <1>2, <1>4, <1>5 DEF rest
<1>10. R = [q \in DOMAIN R |-> R[q]]
  BY DEF R, Regroup
<1> QED
  BY <1>7, <1>8, <1>9, <1>10 DEF R, Sized, IsRegrouped

(* A regrouped tree has finitely many places. *)
LEMMA RegroupFinite ==
  ASSUME NEW t, IsTree(t), NEW p \in DOMAIN t, NEW s \in Slots, NEW group \in Seq(Trees)
  PROVE  IsFiniteSet(DOMAIN Regroup(t, p, s, group))
<1> DEFINE rest == {q \in DOMAIN t : ~InSlot(p, s, q)}
           Hanging(i) == {Join(Child(p, s, i), r) : r \in DOMAIN group[i]}
           filled == UNION {Hanging(i) : i \in DOMAIN group}
<1>1. DOMAIN Regroup(t, p, s, group) = rest \cup filled
  BY DEF Regroup, Join
<1>2. IsFiniteSet(rest)
  <2>1. IsFiniteSet(DOMAIN t) /\ rest \in SUBSET DOMAIN t
    BY TreeIs
  <2> QED
    BY <2>1, FS_Subset
<1>3. ASSUME NEW i \in DOMAIN group
      PROVE  IsFiniteSet(Hanging(i))
  <2> DEFINE f == [r \in DOMAIN group[i] |-> Join(Child(p, s, i), r)]
  <2>1. f \in Surjection(DOMAIN group[i], Hanging(i))
    <3>1. f \in [DOMAIN group[i] -> Hanging(i)]
      OBVIOUS
    <3>2. \A q \in Hanging(i) : \E r \in DOMAIN group[i] : f[r] = q
      OBVIOUS
    <3> QED
      BY <3>1, <3>2, Zenon DEF Surjection
  <2>2. IsFiniteSet(DOMAIN group[i])
    BY GroupIs
  <2> QED
    BY <2>1, <2>2, FS_Surjection
<1>4. IsFiniteSet({Hanging(i) : i \in DOMAIN group})
  <2> DEFINE f == [i \in DOMAIN group |-> Hanging(i)]
             T == {Hanging(i) : i \in DOMAIN group}
  <2>1. f \in Surjection(DOMAIN group, T)
    <3> HIDE DEF Hanging
    <3>1. f \in [DOMAIN group -> T]
      OBVIOUS
    <3>2. \A q \in T : \E i \in DOMAIN group : f[i] = q
      OBVIOUS
    <3> QED
      BY <3>1, <3>2, Zenon DEF Surjection
  <2>2. IsFiniteSet(DOMAIN group)
    <3>1. DOMAIN group = 1 .. Len(group) /\ Len(group) \in Int /\ 1 \in Int
      BY GroupIs
    <3> QED
      BY <3>1, FS_Interval
  <2> QED
    BY <2>1, <2>2, FS_Surjection
<1>5. IsFiniteSet(filled)
  <2> HIDE DEF Hanging
  <2>1. \A T \in {Hanging(i) : i \in DOMAIN group} : IsFiniteSet(T)
    BY <1>3
  <2> QED
    BY <1>4, <2>1, FS_UNION
<1> HIDE DEF rest, filled
<1> QED
  BY <1>1, <1>2, <1>5, FS_Union

(* Of a place it is enough to know whether it is in the slot, and where. *)
LEMMA InOrOut ==
  ASSUME NEW p \in Place, NEW s \in Slots, NEW q \in Place
  PROVE  ~InSlot(p, s, q) \/ \E i \in Nat \ {0}, r \in Place : q = Join(Child(p, s, i), r)
BY SlotPlaces

(* What is put in the slot of a tree leaves it one. *)
LEMMA RegroupTree ==
  ASSUME NEW t, IsTree(t), NEW p \in DOMAIN t, NEW s \in Slots, NEW group \in Seq(Trees),
         NEW R, IsRegrouped(R, t, p, s, group), IsFiniteSet(DOMAIN R)
  PROVE  IsTree(R)
<1>1. /\ DOMAIN t \subseteq Place /\ t \in [DOMAIN t -> Content]
      /\ <<>> \in DOMAIN t /\ HangsTogether(t) /\ p \in Place
  BY TreeIs
<1>2. /\ Len(group) \in Nat /\ DOMAIN group = 1 .. Len(group)
      /\ \A i \in DOMAIN group : i \in Nat \ {0} /\ IsTree(group[i])
  BY GroupIs
<1>3. ASSUME NEW i \in DOMAIN group
      PROVE  /\ DOMAIN group[i] \subseteq Place /\ <<>> \in DOMAIN group[i]
             /\ \A r \in DOMAIN group[i] : group[i][r] \in Content
             /\ HangsTogether(group[i])
  <2>1. IsTree(group[i])
    BY <1>2
  <2>2. \A r \in DOMAIN group[i] : group[i][r] \in Content
    BY <2>1, NodeIs
  <2> QED
    BY <2>1, <2>2, TreeIs
<1> DEFINE Sized == [t[p] EXCEPT !.size = [@ EXCEPT ![s] = Len(group)]]
<1>4. /\ Sized \in Content /\ Sized.size[s] = Len(group)
      /\ \A u \in Slots \ {s} : Sized.size[u] = t[p].size[u]
  BY <1>1, <1>2 DEF Content
<1>5. /\ DOMAIN R \subseteq Place /\ R = [q \in DOMAIN R |-> R[q]]
      /\ \A q \in Place : ~InSlot(p, s, q) =>
           /\ q \in DOMAIN R <=> q \in DOMAIN t
           /\ q \in DOMAIN t => R[q] = IF q = p THEN Sized ELSE t[q]
      /\ \A i \in Nat \ {0}, r \in Place :
           /\ Join(Child(p, s, i), r) \in DOMAIN R <=> i \in DOMAIN group /\ r \in DOMAIN group[i]
           /\ (i \in DOMAIN group /\ r \in DOMAIN group[i]) =>
                R[Join(Child(p, s, i), r)] = group[i][r]
  BY DEF IsRegrouped
<1> HIDE DEF Sized
<1>6. ASSUME NEW q \in DOMAIN R
      PROVE  R[q] \in Content
  <2>1. q \in Place
    BY <1>5
  <2>2. CASE ~InSlot(p, s, q)
    BY <1>1, <1>4, <1>5, <2>1, <2>2
  <2>3. ASSUME NEW i \in Nat \ {0}, NEW r \in Place, q = Join(Child(p, s, i), r)
        PROVE  R[q] \in Content
    BY <1>3, <1>5, <2>3
  <2> QED
    BY <1>1, <2>1, <2>2, <2>3, InOrOut
<1>7. R \in [DOMAIN R -> Content]
  BY <1>5, <1>6
<1>8. <<>> \in DOMAIN R
  <2>1. <<>> \in Place /\ ~InSlot(p, s, <<>>)
    BY <1>1, OverIsOrder, SlotPlaces, JoinFacts
  <2> QED
    BY <1>1, <1>5, <2>1
<1>9. HangsTogether(R)
  <2> SUFFICES ASSUME NEW q \in Place, NEW u \in Slots, NEW k \in Nat \ {0}
               PROVE  Child(q, u, k) \in DOMAIN R <=> q \in DOMAIN R /\ k <= R[q].size[u]
    BY DEF HangsTogether
  <2> DEFINE c == Child(q, u, k)
  <2>1. c \in Place /\ Over(q, c) /\ Front(c) = q /\ Last(c) = <<u, k>>
    <3>1. c \in Place /\ Front(c) = q /\ Last(c) = <<u, k>>
      BY ChildIs
    <3>2. Over(q, c)
      BY ChildrenApart
    <3> QED
      BY <3>1, <3>2
  <2>2. ASSUME NEW i \in Nat \ {0}, NEW r \in Place, q = Join(Child(p, s, i), r)
        PROVE  c \in DOMAIN R <=> q \in DOMAIN R /\ k <= R[q].size[u]
    <3>1. Child(p, s, i) \in Place /\ Child(r, u, k) \in Place
      BY <1>1, ChildIs
    <3>2. c = Join(Child(p, s, i), Child(r, u, k))
      BY <2>2, <3>1, JoinFacts
    <3>3. c \in DOMAIN R <=> i \in DOMAIN group /\ Child(r, u, k) \in DOMAIN group[i]
      BY <1>5, <3>1, <3>2
    <3>4. i \in DOMAIN group =>
            (Child(r, u, k) \in DOMAIN group[i] <=> r \in DOMAIN group[i] /\ k <= group[i][r].size[u])
      BY <1>3 DEF HangsTogether
    <3>5. q \in DOMAIN R <=> i \in DOMAIN group /\ r \in DOMAIN group[i]
      BY <1>5, <2>2
    <3>6. q \in DOMAIN R => R[q] = group[i][r]
      BY <1>5, <2>2, <3>5
    <3> HIDE DEF c
    <3> QED
      BY <3>3, <3>4, <3>5, <3>6
  <2>3. ASSUME q = p, u = s
        PROVE  c \in DOMAIN R <=> q \in DOMAIN R /\ k <= R[q].size[u]
    <3>1. Child(p, s, k) \in Place
      BY <1>1, ChildIs
    <3>2. c = Join(Child(p, s, k), <<>>) /\ <<>> \in Place
      BY <2>3, <3>1, JoinFacts
    <3>3. c \in DOMAIN R <=> k \in DOMAIN group
      BY <1>3, <1>5, <3>2
    <3>4. p \in DOMAIN R /\ R[p] = Sized
      BY <1>1, <1>5, SlotPlaces
    <3> HIDE DEF c
    <3> QED
      BY <1>2, <1>4, <2>3, <3>3, <3>4
  <2>4. ASSUME ~InSlot(p, s, q), ~(q = p /\ u = s)
        PROVE  c \in DOMAIN R <=> q \in DOMAIN R /\ k <= R[q].size[u]
    <3>1. ~InSlot(p, s, c)
      <4> SUFFICES ASSUME InSlot(p, s, c)
                   PROVE  FALSE
        OBVIOUS
      <4>1. PICK i \in Nat \ {0} : Over(Child(p, s, i), c)
        BY <1>1, <2>1, InSlotIs
      <4>2. Child(p, s, i) \in Place /\ Front(Child(p, s, i)) = p /\ Last(Child(p, s, i)) = <<s, i>>
        BY <1>1, ChildIs
      <4>3. Child(p, s, i) = c \/ Over(Child(p, s, i), q)
        BY <4>1, <4>2, ChildrenApart
      <4>4. ~Over(Child(p, s, i), q)
        BY <1>1, <2>4, InSlotIs
      <4>5. Child(p, s, i) = c
        BY <4>3, <4>4
      <4> HIDE DEF c
      <4> QED
        BY <2>1, <2>4, <4>2, <4>5
    <3>2. c \in DOMAIN R <=> c \in DOMAIN t
      BY <1>5, <2>1, <3>1
    <3>3. c \in DOMAIN t <=> q \in DOMAIN t /\ k <= t[q].size[u]
      BY <1>1 DEF HangsTogether
    <3>4. q \in DOMAIN R <=> q \in DOMAIN t
      BY <1>5, <2>4
    <3>5. q \in DOMAIN t => R[q].size[u] = t[q].size[u]
      <4>1. q \in DOMAIN t => R[q] = IF q = p THEN Sized ELSE t[q]
        BY <1>5, <2>4
      <4> QED
        BY <1>4, <2>4, <4>1
    <3> HIDE DEF c
    <3> QED
      BY <3>2, <3>3, <3>4, <3>5
  <2>5. ~InSlot(p, s, q) \/ \E i \in Nat \ {0}, r \in Place : q = Join(Child(p, s, i), r)
    BY <1>1, InOrOut
  <2> QED
    BY <2>2, <2>3, <2>4, <2>5
<1> QED
  BY <1>5, <1>7, <1>8, <1>9, TreeByChildren

(* Nothing that hangs from a child is over anything that hangs from another. *)
LEMMA HangApart ==
  ASSUME NEW p \in Place, NEW s \in Slots, NEW i \in Nat \ {0}, NEW j \in Nat \ {0}, i # j,
         NEW a \in Place, NEW b \in Place
  PROVE  /\ ~Over(Join(Child(p, s, i), a), Join(Child(p, s, j), b))
         /\ ~Over(Join(Child(p, s, j), b), Join(Child(p, s, i), a))
<1> DEFINE c == Child(p, s, i)
           d == Child(p, s, j)
<1>1. c \in Place /\ d \in Place
  BY ChildIs
<1>2. /\ Join(c, a) \in Place /\ Over(c, Join(c, a))
      /\ Join(d, b) \in Place /\ Over(d, Join(d, b))
  BY <1>1, JoinFacts
<1>3. ~Over(c, d) /\ ~Over(d, c)
  BY ChildrenApart
<1> HIDE DEF c, d
<1>4. \A q \in Place : ~(Over(c, q) /\ Over(d, q))
  BY <1>1, <1>3, OverIsOrder
<1>5. Over(Join(c, a), Join(d, b)) => Over(c, Join(d, b))
  BY <1>1, <1>2, OverIsOrder
<1>6. Over(Join(d, b), Join(c, a)) => Over(d, Join(c, a))
  BY <1>1, <1>2, OverIsOrder
<1> QED
  BY <1>2, <1>4, <1>5, <1>6 DEF c, d

-----------------------------------------------------------------------------
(***************************************************************************)
(* Whose account an id is repeated on.                                     *)
(***************************************************************************)
(* What Accounted says of two places. *)
Explained(t, installed, p, q) ==
  (p # q /\ t[p].id = t[q].id) => t[p].id \in installed \/ UnderCopies(t, installed, p, q)

(* Across two subtrees ids are repeated only on account of the installed.    *)
Excused(u, v, installed) ==
  \A a \in DOMAIN u, b \in DOMAIN v : u[a].id = v[b].id =>
    \/ u[a].id \in installed
    \/ \E c \in DOMAIN u, d \in DOMAIN v :
         Over(c, a) /\ Over(d, b) /\ u[c].id = v[d].id /\ u[c].id \in installed

(* The same of a subtree and of what is not in the slot it goes to.          *)
ExcusedOutside(t, p, s, u, installed) ==
  \A q \in DOMAIN t, b \in DOMAIN u : (~InSlot(p, s, q) /\ t[q].id = u[b].id) =>
    \/ t[q].id \in installed
    \/ \E c \in DOMAIN t, d \in DOMAIN u :
         /\ Over(c, q) /\ Over(d, b) /\ ~Over(c, p)
         /\ t[c].id = u[d].id /\ t[c].id \in installed
    \/ \E c, e \in DOMAIN t :
         /\ Over(c, q) /\ Over(e, p) /\ ~Over(c, e) /\ ~Over(e, c)
         /\ t[c].id = t[e].id /\ t[c].id \in installed

(* A group that may go to a slot. *)
GroupAccounted(t, p, s, group, installed) ==
  \A i \in DOMAIN group :
    /\ Accounted(group[i], installed)
    /\ ExcusedOutside(t, p, s, group[i], installed)
    /\ \A j \in DOMAIN group : i # j => Excused(group[i], group[j], installed)

(* What explains an order of two places explains the other. *)
LEMMA ExplainedTurned ==
  ASSUME NEW t, NEW installed, NEW p, NEW q, Explained(t, installed, p, q)
  PROVE  Explained(t, installed, q, p)
<1>1. UnderCopies(t, installed, p, q) => UnderCopies(t, installed, q, p)
  BY DEF UnderCopies
<1> QED
  BY <1>1 DEF Explained

(* Putting such a group in the slot explains every repeated id.              *)
LEMMA RegroupAccounted ==
  ASSUME NEW t, IsTree(t), NEW p \in DOMAIN t, NEW s \in Slots, NEW group \in Seq(Trees),
         NEW R, IsRegrouped(R, t, p, s, group), NEW installed, Accounted(t, installed),
         GroupAccounted(t, p, s, group, installed)
  PROVE  Accounted(R, installed)
<1>1. DOMAIN t \subseteq Place /\ p \in Place /\ \A q \in DOMAIN t : q \in Place
  BY TreeIs
<1>2. \A i \in DOMAIN group : i \in Nat \ {0} /\ \A r \in DOMAIN group[i] : r \in Place
  BY GroupIs
<1>3. DOMAIN R \subseteq Place
  BY DEF IsRegrouped
<1>4. ASSUME NEW q \in Place, ~InSlot(p, s, q)
      PROVE  (q \in DOMAIN R <=> q \in DOMAIN t) /\ (q \in DOMAIN t => R[q].id = t[q].id)
  <2>1. /\ q \in DOMAIN R <=> q \in DOMAIN t
        /\ q \in DOMAIN t =>
             R[q] = IF q = p THEN [t[p] EXCEPT !.size = [@ EXCEPT ![s] = Len(group)]] ELSE t[q]
    BY <1>4 DEF IsRegrouped
  <2>2. t[p] \in Content
    BY NodeIs
  <2>3. [t[p] EXCEPT !.size = [@ EXCEPT ![s] = Len(group)]].id = t[p].id
    BY <2>2 DEF Content
  <2> QED
    BY <2>1, <2>3
<1>5. ASSUME NEW i \in Nat \ {0}, NEW r \in Place
      PROVE  /\ Join(Child(p, s, i), r) \in DOMAIN R <=> i \in DOMAIN group /\ r \in DOMAIN group[i]
             /\ (i \in DOMAIN group /\ r \in DOMAIN group[i]) =>
                  R[Join(Child(p, s, i), r)] = group[i][r]
  BY DEF IsRegrouped
<1>6. ASSUME NEW x \in DOMAIN R, NEW y \in DOMAIN R, ~InSlot(p, s, x), ~InSlot(p, s, y)
      PROVE  Explained(R, installed, x, y)
  <2> SUFFICES ASSUME x # y, R[x].id = R[y].id, R[x].id \notin installed
               PROVE  UnderCopies(R, installed, x, y)
    BY DEF Explained
  <2>1. x \in DOMAIN t /\ y \in DOMAIN t /\ x \in Place /\ y \in Place
        /\ R[x].id = t[x].id /\ R[y].id = t[y].id
    BY <1>3, <1>4, <1>6
  <2>2. UnderCopies(t, installed, x, y)
    BY <2>1 DEF Accounted
  <2>3. PICK a \in DOMAIN t, b \in DOMAIN t :
          /\ Over(a, x) /\ Over(b, y) /\ ~Over(a, b) /\ ~Over(b, a)
          /\ t[a].id = t[b].id /\ t[a].id \in installed
    BY <2>2 DEF UnderCopies
  <2>4. a \in Place /\ b \in Place /\ ~InSlot(p, s, a) /\ ~InSlot(p, s, b)
    BY <1>1, <1>6, <2>1, <2>3, SlotPlaces
  <2>5. a \in DOMAIN R /\ b \in DOMAIN R /\ R[a].id = t[a].id /\ R[b].id = t[b].id
    BY <1>4, <2>4
  <2> QED
    BY <2>3, <2>5 DEF UnderCopies
<1>7. ASSUME NEW i \in DOMAIN group, NEW a \in DOMAIN group[i],
             NEW j \in DOMAIN group, NEW b \in DOMAIN group[j]
      PROVE  Explained(R, installed, Join(Child(p, s, i), a), Join(Child(p, s, j), b))
  <2> DEFINE x == Join(Child(p, s, i), a)
             y == Join(Child(p, s, j), b)
             u == group[i]
             v == group[j]
  <2>1. /\ i \in Nat \ {0} /\ j \in Nat \ {0}
        /\ \A r \in DOMAIN u : r \in Place
        /\ \A r \in DOMAIN v : r \in Place
    BY <1>2
  <2>2. Child(p, s, i) \in Place /\ Child(p, s, j) \in Place
    BY <1>1, <2>1, ChildIs
  <2>3. R[x] = u[a] /\ R[y] = v[b]
    BY <1>5, <2>1
  <2> SUFFICES ASSUME x # y, R[x].id = R[y].id, R[x].id \notin installed
               PROVE  UnderCopies(R, installed, x, y)
    BY DEF Explained
  <2>4. ASSUME NEW c \in DOMAIN u, NEW d \in DOMAIN v, Over(c, a), Over(d, b),
               u[c].id = v[d].id, u[c].id \in installed,
               ~Over(Join(Child(p, s, i), c), Join(Child(p, s, j), d)),
               ~Over(Join(Child(p, s, j), d), Join(Child(p, s, i), c))
        PROVE  UnderCopies(R, installed, x, y)
    <3>1. /\ Join(Child(p, s, i), c) \in DOMAIN R /\ R[Join(Child(p, s, i), c)] = u[c]
          /\ Join(Child(p, s, j), d) \in DOMAIN R /\ R[Join(Child(p, s, j), d)] = v[d]
      BY <1>5, <2>1
    <3>2. Over(Join(Child(p, s, i), c), x) /\ Over(Join(Child(p, s, j), d), y)
      BY <2>1, <2>2, <2>4, JoinFacts
    <3> HIDE DEF x, y
    <3> QED
      BY <2>4, <3>1, <3>2 DEF UnderCopies
  <2>5. CASE i = j
    <3>1. a # b
      BY <2>5
    <3>2. Accounted(u, installed)
      BY DEF GroupAccounted
    <3>3. UnderCopies(u, installed, a, b)
      BY <2>3, <2>5, <3>1, <3>2 DEF Accounted
    <3>4. PICK c \in DOMAIN u, d \in DOMAIN u :
            /\ Over(c, a) /\ Over(d, b) /\ ~Over(c, d) /\ ~Over(d, c)
            /\ u[c].id = u[d].id /\ u[c].id \in installed
      BY <3>3 DEF UnderCopies
    <3>5. /\ ~Over(Join(Child(p, s, i), c), Join(Child(p, s, i), d))
          /\ ~Over(Join(Child(p, s, i), d), Join(Child(p, s, i), c))
      BY <2>1, <2>2, <3>4, JoinFacts
    <3> QED
      BY <2>4, <2>5, <3>4, <3>5
  <2>6. CASE i # j
    <3>1. Excused(u, v, installed)
      BY <2>6 DEF GroupAccounted
    <3>2. PICK c \in DOMAIN u, d \in DOMAIN v :
            Over(c, a) /\ Over(d, b) /\ u[c].id = v[d].id /\ u[c].id \in installed
      BY <2>3, <3>1 DEF Excused
    <3>3. /\ ~Over(Join(Child(p, s, i), c), Join(Child(p, s, j), d))
          /\ ~Over(Join(Child(p, s, j), d), Join(Child(p, s, i), c))
      BY <1>1, <2>1, <2>6, HangApart
    <3> QED
      BY <2>4, <3>2, <3>3
  <2> QED
    BY <2>5, <2>6
<1>8. ASSUME NEW x \in DOMAIN R, ~InSlot(p, s, x),
             NEW i \in DOMAIN group, NEW b \in DOMAIN group[i]
      PROVE  Explained(R, installed, x, Join(Child(p, s, i), b))
  <2> DEFINE y == Join(Child(p, s, i), b)
             u == group[i]
  <2>1. i \in Nat \ {0} /\ \A r \in DOMAIN u : r \in Place
    BY <1>2
  <2>2. Child(p, s, i) \in Place /\ y \in Place /\ Over(Child(p, s, i), y) /\ Over(p, Child(p, s, i))
    <3>1. Child(p, s, i) \in Place /\ Over(p, Child(p, s, i))
      BY <1>1, <2>1, ChildIs, ChildrenApart
    <3> QED
      BY <2>1, <3>1, JoinFacts
  <2>3. R[y] = u[b] /\ x \in DOMAIN t /\ x \in Place /\ R[x].id = t[x].id
    BY <1>3, <1>4, <1>5, <1>8, <2>1
  <2> SUFFICES ASSUME x # y, R[x].id = R[y].id, R[x].id \notin installed
               PROVE  UnderCopies(R, installed, x, y)
    BY DEF Explained
  <2>4. ExcusedOutside(t, p, s, u, installed)
    BY DEF GroupAccounted
  <2>5. \/ \E c \in DOMAIN t, d \in DOMAIN u :
             /\ Over(c, x) /\ Over(d, b) /\ ~Over(c, p)
             /\ t[c].id = u[d].id /\ t[c].id \in installed
        \/ \E c, e \in DOMAIN t :
             /\ Over(c, x) /\ Over(e, p) /\ ~Over(c, e) /\ ~Over(e, c)
             /\ t[c].id = t[e].id /\ t[c].id \in installed
    BY <1>8, <2>3, <2>4 DEF ExcusedOutside
  <2> HIDE DEF y
  <2>6. ASSUME NEW c \in DOMAIN t, NEW d \in DOMAIN u,
               Over(c, x), Over(d, b), ~Over(c, p), t[c].id = u[d].id, t[c].id \in installed
        PROVE  UnderCopies(R, installed, x, y)
    <3> DEFINE z == Join(Child(p, s, i), d)
    <3>1. c \in Place /\ ~InSlot(p, s, c)
      BY <1>1, <1>8, <2>3, <2>6, SlotPlaces
    <3>2. c \in DOMAIN R /\ R[c].id = t[c].id /\ z \in DOMAIN R /\ R[z] = u[d]
      BY <1>4, <1>5, <2>1, <3>1
    <3>3. z \in Place /\ Over(Child(p, s, i), z) /\ InSlot(p, s, z)
      BY <1>1, <2>1, <2>2, JoinFacts, SlotJoin
    <3>4. Over(z, y)
      BY <2>1, <2>2, <2>6, JoinFacts DEF y
    <3> HIDE DEF z
    <3>5. ~Over(z, c)
      BY <1>1, <3>1, <3>3, SlotPlaces
    <3>6. ~Over(c, z)
      <4> SUFFICES ASSUME Over(c, z)
                   PROVE  FALSE
        OBVIOUS
      <4>1. Over(c, Child(p, s, i)) \/ Over(Child(p, s, i), c)
        BY <2>2, <3>1, <3>3, OverIsOrder
      <4>2. ~Over(Child(p, s, i), c)
        BY <1>1, <2>1, <3>1, InSlotIs
      <4>3. c = Child(p, s, i) \/ Over(c, p)
        BY <1>1, <2>1, <3>1, <4>1, <4>2, ChildrenApart
      <4>4. c # Child(p, s, i)
        BY <2>2, <4>2, OverIsOrder
      <4> QED
        BY <2>6, <4>3, <4>4
    <3> QED
      BY <2>6, <3>2, <3>4, <3>5, <3>6 DEF UnderCopies
  <2>7. ASSUME NEW c \in DOMAIN t, NEW e \in DOMAIN t,
               Over(c, x), Over(e, p), ~Over(c, e), ~Over(e, c),
               t[c].id = t[e].id, t[c].id \in installed
        PROVE  UnderCopies(R, installed, x, y)
    <3>1. c \in Place /\ e \in Place /\ ~InSlot(p, s, c) /\ ~InSlot(p, s, e)
      BY <1>1, <1>8, <2>3, <2>7, SlotPlaces
    <3>2. c \in DOMAIN R /\ e \in DOMAIN R /\ R[c].id = t[c].id /\ R[e].id = t[e].id
      BY <1>4, <3>1
    <3>3. Over(e, Child(p, s, i))
      BY <1>1, <2>2, <2>7, <3>1, OverIsOrder
    <3>4. Over(e, y)
      BY <2>2, <3>1, <3>3, OverIsOrder
    <3> QED
      BY <2>7, <3>2, <3>4 DEF UnderCopies
  <2> QED
    BY <2>5, <2>6, <2>7 DEF y
<1>9. ASSUME NEW x \in DOMAIN R, NEW y \in DOMAIN R
      PROVE  Explained(R, installed, x, y)
  <2>1. x \in Place /\ y \in Place
    BY <1>3
  <2>2. \/ ~InSlot(p, s, x)
        \/ \E i \in DOMAIN group : \E r \in DOMAIN group[i] : x = Join(Child(p, s, i), r)
    BY <1>1, <1>5, <2>1, InOrOut
  <2>3. \/ ~InSlot(p, s, y)
        \/ \E i \in DOMAIN group : \E r \in DOMAIN group[i] : y = Join(Child(p, s, i), r)
    BY <1>1, <1>5, <2>1, InOrOut
  <2>4. CASE ~InSlot(p, s, x)
    BY <1>6, <1>8, <2>3, <2>4
  <2>5. CASE ~InSlot(p, s, y)
    <3>1. Explained(R, installed, y, x)
      BY <1>6, <1>8, <2>2, <2>5
    <3> QED
      BY <3>1, ExplainedTurned
  <2>6. CASE InSlot(p, s, x) /\ InSlot(p, s, y)
    BY <1>7, <2>2, <2>3, <2>6
  <2> QED
    BY <2>4, <2>5, <2>6
<1> QED
  BY <1>9 DEF Accounted, Explained

(* Two places of an id that was not installed are under copies: each is under *)
(* one of them only, and what both are under, the copies are under.           *)
LEMMA CopiesOver ==
  ASSUME NEW t, IsTree(t), NEW installed, Accounted(t, installed),
         NEW x \in DOMAIN t, NEW y \in DOMAIN t, x # y, t[x].id = t[y].id, t[x].id \notin installed
  PROVE  \E a, b \in DOMAIN t :
           /\ a \in Place /\ b \in Place /\ Over(a, x) /\ Over(b, y)
           /\ ~Over(a, b) /\ ~Over(b, a) /\ ~Over(a, y) /\ ~Over(b, x)
           /\ t[a].id = t[b].id /\ t[a].id \in installed
           /\ \A p \in Place : Over(p, x) /\ Over(p, y) => Over(p, a) /\ Over(p, b)
<1>1. x \in Place /\ y \in Place /\ \A q \in DOMAIN t : q \in Place
  BY TreeIs
<1>2. UnderCopies(t, installed, x, y)
  BY DEF Accounted
<1>3. PICK a \in DOMAIN t, b \in DOMAIN t :
        /\ Over(a, x) /\ Over(b, y) /\ ~Over(a, b) /\ ~Over(b, a)
        /\ t[a].id = t[b].id /\ t[a].id \in installed
  BY <1>2 DEF UnderCopies
<1>4. a \in Place /\ b \in Place
  BY <1>1
<1>5. ~Over(a, y) /\ ~Over(b, x)
  BY <1>1, <1>3, <1>4, OverIsOrder
<1>6. ASSUME NEW p \in Place, Over(p, x), Over(p, y)
      PROVE  Over(p, a) /\ Over(p, b)
  BY <1>1, <1>3, <1>4, <1>5, <1>6, OverIsOrder
<1> QED
  BY <1>3, <1>4, <1>5, <1>6

(* The place of a child is one of the tree's.                                 *)
LEMMA ChildOfTree ==
  ASSUME NEW t, IsTree(t), NEW p \in DOMAIN t, NEW s \in Slots, NEW i \in 1 .. t[p].size[s]
  PROVE  /\ p \in Place /\ t[p].size[s] \in Nat /\ i \in Nat \ {0}
         /\ Child(p, s, i) \in DOMAIN t /\ Child(p, s, i) \in Place
<1>1. p \in Place /\ t[p].size[s] \in Nat
  BY NodeIs
<1>2. i \in Nat \ {0} /\ i <= t[p].size[s]
  BY <1>1
<1>3. Child(p, s, i) \in DOMAIN t
  BY <1>1, <1>2, TreeIs DEF HangsTogether
<1> QED
  BY <1>1, <1>2, <1>3, ChildIs

(* What is explained in a tree is explained in its subtrees.                  *)
LEMMA SubtreeAccounted ==
  ASSUME NEW t, IsTree(t), NEW installed, Accounted(t, installed), NEW p \in DOMAIN t
  PROVE  Accounted(Subtree(t, p), installed)
<1> DEFINE u == Subtree(t, p)
<1>1. p \in Place
  BY TreeIs
<1>2. /\ \A r \in Place : r \in DOMAIN u <=> Join(p, r) \in DOMAIN t
      /\ \A r \in DOMAIN u : r \in Place /\ Join(p, r) \in DOMAIN t /\ u[r] = t[Join(p, r)]
  BY SubtreeIs
<1> HIDE DEF u
<1>3. ASSUME NEW x \in DOMAIN u, NEW y \in DOMAIN u, x # y, u[x].id = u[y].id,
             u[x].id \notin installed
      PROVE  UnderCopies(u, installed, x, y)
  <2>1. /\ x \in Place /\ y \in Place /\ Join(p, x) \in DOMAIN t /\ Join(p, y) \in DOMAIN t
        /\ u[x] = t[Join(p, x)] /\ u[y] = t[Join(p, y)]
    BY <1>2
  <2>2. Join(p, x) # Join(p, y) /\ Over(p, Join(p, x)) /\ Over(p, Join(p, y))
    BY <1>1, <1>3, <2>1, JoinFacts
  <2>3. PICK a \in DOMAIN t, b \in DOMAIN t :
          /\ a \in Place /\ b \in Place /\ Over(a, Join(p, x)) /\ Over(b, Join(p, y))
          /\ ~Over(a, b) /\ ~Over(b, a)
          /\ t[a].id = t[b].id /\ t[a].id \in installed
          /\ Over(p, a) /\ Over(p, b)
    BY <1>1, <1>3, <2>1, <2>2, CopiesOver
  <2>4. PICK c \in Place, d \in Place : a = Join(p, c) /\ b = Join(p, d)
    BY <1>1, <2>3, JoinFacts
  <2>5. c \in DOMAIN u /\ d \in DOMAIN u /\ u[c] = t[a] /\ u[d] = t[b]
    BY <1>2, <2>4
  <2>6. Over(c, x) /\ Over(d, y) /\ ~Over(c, d) /\ ~Over(d, c)
    BY <1>1, <2>1, <2>3, <2>4, JoinFacts
  <2> QED
    BY <2>3, <2>5, <2>6 DEF UnderCopies
<1> QED
  BY <1>3 DEF Accounted, u

(* Two children of a node with one id have an installed one.                  *)
LEMMA SiblingsRepeat ==
  ASSUME NEW t, IsTree(t), NEW installed, Accounted(t, installed), NEW p \in DOMAIN t,
         NEW s \in Slots, NEW i \in 1 .. t[p].size[s], NEW j \in 1 .. t[p].size[s], i # j,
         t[Child(p, s, i)].id = t[Child(p, s, j)].id
  PROVE  t[Child(p, s, i)].id \in installed
<1> DEFINE x == Child(p, s, i)
           y == Child(p, s, j)
<1>1. /\ p \in Place /\ i \in Nat \ {0} /\ j \in Nat \ {0}
      /\ x \in DOMAIN t /\ x \in Place /\ y \in DOMAIN t /\ y \in Place
  BY ChildOfTree
<1>2. Over(p, x) /\ Over(p, y) /\ ~Over(x, y) /\ \A a \in Place : Over(a, x) => a = x \/ Over(a, p)
  BY <1>1, ChildrenApart
<1>3. SUFFICES ASSUME t[x].id \notin installed
               PROVE  FALSE
  OBVIOUS
<1>4. x # y
  BY <1>1, <1>2, OverIsOrder
<1>5. t[x].id = t[y].id
  OBVIOUS
<1> HIDE DEF x, y
<1>6. PICK a \in DOMAIN t, b \in DOMAIN t :
        a \in Place /\ Over(a, x) /\ ~Over(a, y) /\ t[a].id \in installed
  BY <1>1, <1>3, <1>4, <1>5, CopiesOver
<1> QED
  BY <1>1, <1>2, <1>3, <1>6, OverIsOrder

(* What is over a place under a child, but not over the parent, is under the   *)
(* child.                                                                     *)
LEMMA UnderChild ==
  ASSUME NEW p \in Place, NEW s \in Slots, NEW i \in Nat \ {0}, NEW r \in Place,
         NEW a \in Place, Over(a, Join(Child(p, s, i), r)), ~Over(a, p)
  PROVE  \E c \in Place : a = Join(Child(p, s, i), c) /\ Over(c, r)
<1> DEFINE x == Child(p, s, i)
<1>1. x \in Place /\ \A q \in Place : Over(q, x) => q = x \/ Over(q, p)
  BY ChildIs, ChildrenApart
<1> HIDE DEF x
<1>2. Join(x, r) \in Place /\ Over(x, Join(x, r)) /\ Over(a, Join(x, r))
  BY <1>1, JoinFacts DEF x
<1>3. Over(x, a)
  BY <1>1, <1>2, OverIsOrder
<1>4. PICK c \in Place : a = Join(x, c)
  BY <1>1, <1>3, JoinFacts
<1>5. Over(c, r)
  BY <1>1, <1>2, <1>4, JoinFacts
<1> QED
  BY <1>4, <1>5 DEF x

(* Children of a node excuse each other.                                      *)
LEMMA ChildrenExcused ==
  ASSUME NEW t, IsTree(t), NEW installed, Accounted(t, installed), NEW p \in DOMAIN t,
         NEW s \in Slots, NEW i \in 1 .. t[p].size[s], NEW j \in 1 .. t[p].size[s], i # j
  PROVE  Excused(Subtree(t, Child(p, s, i)), Subtree(t, Child(p, s, j)), installed)
<1> DEFINE x == Child(p, s, i)
           y == Child(p, s, j)
           u == Subtree(t, x)
           v == Subtree(t, y)
<1>1. /\ p \in Place /\ i \in Nat \ {0} /\ j \in Nat \ {0}
      /\ x \in DOMAIN t /\ x \in Place /\ y \in DOMAIN t /\ y \in Place
  BY ChildOfTree
<1>2. /\ \A r \in Place : r \in DOMAIN u <=> Join(x, r) \in DOMAIN t
      /\ \A r \in DOMAIN u : r \in Place /\ Join(x, r) \in DOMAIN t /\ u[r] = t[Join(x, r)]
  BY <1>1, SubtreeIs
<1>3. /\ \A r \in Place : r \in DOMAIN v <=> Join(y, r) \in DOMAIN t
      /\ \A r \in DOMAIN v : r \in Place /\ Join(y, r) \in DOMAIN t /\ v[r] = t[Join(y, r)]
  BY <1>1, SubtreeIs
<1> HIDE DEF u, v
<1>4. SUFFICES ASSUME NEW a \in DOMAIN u, NEW b \in DOMAIN v, u[a].id = v[b].id,
                      u[a].id \notin installed
               PROVE  \E c \in DOMAIN u, d \in DOMAIN v :
                        Over(c, a) /\ Over(d, b) /\ u[c].id = v[d].id /\ u[c].id \in installed
  BY DEF Excused, u, v
<1>5. /\ a \in Place /\ Join(x, a) \in DOMAIN t /\ u[a] = t[Join(x, a)]
      /\ b \in Place /\ Join(y, b) \in DOMAIN t /\ v[b] = t[Join(y, b)]
  BY <1>2, <1>3
<1>6. Join(x, a) # Join(y, b)
  <2>1. ~Over(Join(x, a), Join(y, b))
    BY <1>1, <1>5, HangApart
  <2>2. Join(x, a) \in Place
    BY <1>1, <1>5, JoinFacts
  <2> HIDE DEF x, y
  <2> QED
    BY <2>1, <2>2, OverIsOrder
<1>7. Over(p, Join(x, a)) /\ Over(p, Join(y, b)) /\ Join(x, a) \in Place /\ Join(y, b) \in Place
  <2>1. Over(p, x) /\ Over(p, y)
    BY <1>1, ChildrenApart
  <2> HIDE DEF x, y
  <2>2. /\ Join(x, a) \in Place /\ Over(x, Join(x, a))
        /\ Join(y, b) \in Place /\ Over(y, Join(y, b))
    BY <1>1, <1>5, JoinFacts
  <2> QED
    BY <1>1, <2>1, <2>2, OverIsOrder
<1>8. PICK e \in DOMAIN t, f \in DOMAIN t :
        /\ e \in Place /\ f \in Place /\ Over(e, Join(x, a)) /\ Over(f, Join(y, b))
        /\ ~Over(e, Join(y, b)) /\ ~Over(f, Join(x, a))
        /\ t[e].id = t[f].id /\ t[e].id \in installed
  <2> HIDE DEF x, y
  <2> QED
    BY <1>4, <1>5, <1>6, CopiesOver
<1>9. ~Over(e, p) /\ ~Over(f, p)
  <2> HIDE DEF x, y
  <2> QED
    BY <1>1, <1>7, <1>8, OverIsOrder
<1>10. PICK c \in Place : e = Join(x, c) /\ Over(c, a)
  BY <1>1, <1>5, <1>8, <1>9, UnderChild
<1>11. PICK d \in Place : f = Join(y, d) /\ Over(d, b)
  BY <1>1, <1>5, <1>8, <1>9, UnderChild
<1> HIDE DEF x, y
<1>12. c \in DOMAIN u /\ u[c] = t[e] /\ d \in DOMAIN v /\ v[d] = t[f]
  BY <1>2, <1>3, <1>8, <1>10, <1>11
<1> QED
  BY <1>8, <1>10, <1>11, <1>12

(* A child is excused by what is not in its slot.                             *)
LEMMA ChildExcusedOutside ==
  ASSUME NEW t, IsTree(t), NEW installed, Accounted(t, installed), NEW p \in DOMAIN t,
         NEW s \in Slots, NEW i \in 1 .. t[p].size[s]
  PROVE  ExcusedOutside(t, p, s, Subtree(t, Child(p, s, i)), installed)
<1> DEFINE x == Child(p, s, i)
           u == Subtree(t, x)
<1>1. p \in Place /\ i \in Nat \ {0} /\ x \in DOMAIN t /\ x \in Place /\ Over(p, x)
  BY ChildOfTree, ChildrenApart
<1>2. /\ \A r \in Place : r \in DOMAIN u <=> Join(x, r) \in DOMAIN t
      /\ \A r \in DOMAIN u : r \in Place /\ Join(x, r) \in DOMAIN t /\ u[r] = t[Join(x, r)]
  BY <1>1, SubtreeIs
<1> HIDE DEF u
<1>3. SUFFICES ASSUME NEW q \in DOMAIN t, NEW b \in DOMAIN u, ~InSlot(p, s, q),
                      t[q].id = u[b].id, t[q].id \notin installed
               PROVE  \/ \E c \in DOMAIN t, d \in DOMAIN u :
                           /\ Over(c, q) /\ Over(d, b) /\ ~Over(c, p)
                           /\ t[c].id = u[d].id /\ t[c].id \in installed
                      \/ \E c, e \in DOMAIN t :
                           /\ Over(c, q) /\ Over(e, p) /\ ~Over(c, e) /\ ~Over(e, c)
                           /\ t[c].id = t[e].id /\ t[c].id \in installed
  BY DEF ExcusedOutside, u
<1>4. q \in Place /\ b \in Place /\ Join(x, b) \in DOMAIN t /\ u[b] = t[Join(x, b)]
  BY <1>2, TreeIs
<1>5. InSlot(p, s, Join(x, b))
  BY <1>1, <1>4, SlotJoin
<1>6. Over(p, Join(x, b)) /\ Join(x, b) \in Place
  <2> HIDE DEF x
  <2>1. Join(x, b) \in Place /\ Over(x, Join(x, b))
    BY <1>1, <1>4, JoinFacts
  <2> QED
    BY <1>1, <2>1, OverIsOrder
<1>7. PICK c \in DOMAIN t, e \in DOMAIN t :
        /\ c \in Place /\ e \in Place /\ Over(c, q) /\ Over(e, Join(x, b))
        /\ ~Over(c, e) /\ ~Over(e, c) /\ ~Over(c, Join(x, b)) /\ ~Over(e, q)
        /\ t[c].id = t[e].id /\ t[c].id \in installed
  <2>1. q # Join(x, b)
    BY <1>3, <1>5
  <2> HIDE DEF x
  <2> QED
    BY <1>3, <1>4, <2>1, CopiesOver
<1>8. CASE Over(e, p)
  BY <1>7, <1>8
<1>9. CASE ~Over(e, p)
  <2>1. PICK d \in Place : e = Join(x, d) /\ Over(d, b)
    BY <1>1, <1>4, <1>7, <1>9, UnderChild
  <2> HIDE DEF x
  <2>2. d \in DOMAIN u /\ u[d] = t[e]
    BY <1>2, <1>7, <2>1
  <2>3. ~Over(c, p)
    BY <1>1, <1>6, <1>7, OverIsOrder
  <2> QED
    BY <1>7, <2>1, <2>2, <2>3
<1> QED
  BY <1>8, <1>9

-----------------------------------------------------------------------------
(***************************************************************************)
(* The groups the ops put in.                                              *)
(***************************************************************************)
(* A tree whose repeated ids are explained. *)
Sound(t, installed) == IsTree(t) /\ Accounted(t, installed)

(* Regrouping keeps a tree sound. *)
LEMMA RegroupSound ==
  ASSUME NEW installed, NEW t, Sound(t, installed), NEW p \in DOMAIN t, NEW s \in Slots,
         NEW group \in Seq(Trees), GroupAccounted(t, p, s, group, installed)
  PROVE  Sound(Regroup(t, p, s, group), installed)
<1> DEFINE R == Regroup(t, p, s, group)
<1>1. IsTree(t) /\ Accounted(t, installed)
  BY DEF Sound
<1>2. IsRegrouped(R, t, p, s, group) /\ IsFiniteSet(DOMAIN R)
  BY <1>1, RegroupIs, RegroupFinite
<1> HIDE DEF R
<1>3. IsTree(R)
  BY <1>1, <1>2, RegroupTree
<1>4. Accounted(R, installed)
  BY <1>1, <1>2, RegroupAccounted
<1> QED
  BY <1>3, <1>4 DEF Sound, R

(* What is brought in is sound. *)
LEMMA InstalledSound ==
  ASSUME NEW installed, NEW t, IsTree(t), IdsOf(t) \subseteq installed
  PROVE  Sound(t, installed)
BY DEF Sound, Accounted, IdsOf

(* A group of what is brought in may go anywhere. *)
LEMMA InstalledGroup ==
  ASSUME NEW installed, NEW t, IsTree(t), NEW p \in DOMAIN t, NEW s \in Slots,
         NEW group \in Seq(Trees), \A i \in DOMAIN group : IdsOf(group[i]) \subseteq installed
  PROVE  GroupAccounted(t, p, s, group, installed)
<1>1. ASSUME NEW i \in DOMAIN group
      PROVE  /\ Accounted(group[i], installed)
             /\ ExcusedOutside(t, p, s, group[i], installed)
             /\ \A j \in DOMAIN group : i # j => Excused(group[i], group[j], installed)
  <2>1. \A r \in DOMAIN group[i] : group[i][r].id \in installed
    BY DEF IdsOf
  <2>2. Accounted(group[i], installed)
    BY <2>1 DEF Accounted
  <2>3. ExcusedOutside(t, p, s, group[i], installed)
    BY <2>1 DEF ExcusedOutside
  <2>4. \A j \in DOMAIN group : Excused(group[i], group[j], installed)
    BY <2>1 DEF Excused
  <2> QED
    BY <2>2, <2>3, <2>4
<1> QED
  BY <1>1 DEF GroupAccounted

(* The children named by g, in that order. *)
Picked(t, p, s, g) == [i \in DOMAIN g |-> Subtree(t, Child(p, s, g[i]))]

(* A child is picked twice only if its id was installed. *)
MayPick(t, p, s, g, installed) ==
  /\ g \in Seq(1 .. t[p].size[s])
  /\ \A i, j \in DOMAIN g : (i # j /\ g[i] = g[j]) => t[Child(p, s, g[i])].id \in installed

(* What picked children are. *)
LEMMA PickedIs ==
  ASSUME NEW t, IsTree(t), NEW p \in DOMAIN t, NEW s \in Slots, NEW g \in Seq(1 .. t[p].size[s])
  PROVE  /\ Picked(t, p, s, g) \in Seq(Trees)
         /\ Len(g) \in Nat /\ Len(Picked(t, p, s, g)) = Len(g)
         /\ DOMAIN g = 1 .. Len(g) /\ DOMAIN Picked(t, p, s, g) = 1 .. Len(g)
         /\ \A i \in DOMAIN g : /\ g[i] \in 1 .. t[p].size[s]
                                /\ Picked(t, p, s, g)[i] = Subtree(t, Child(p, s, g[i]))
<1>1. Len(g) \in Nat /\ DOMAIN g = 1 .. Len(g) /\ \A i \in DOMAIN g : g[i] \in 1 .. t[p].size[s]
  BY LenProperties
<1>2. ASSUME NEW i \in 1 .. Len(g)
      PROVE  Subtree(t, Child(p, s, g[i])) \in Trees
  <2>1. Child(p, s, g[i]) \in DOMAIN t
    BY <1>1, ChildOfTree
  <2> QED
    BY <2>1, SubtreeIs, TreesAre
<1> DEFINE u == [i \in 1 .. Len(g) |-> Subtree(t, Child(p, s, g[i]))]
<1>3. u = Picked(t, p, s, g)
  BY <1>1 DEF Picked
<1>4. u \in [1 .. Len(g) -> Trees] /\ DOMAIN u = 1 .. Len(g)
      /\ \A i \in 1 .. Len(g) : u[i] = Subtree(t, Child(p, s, g[i]))
  BY <1>2
<1> HIDE DEF u
<1>5. u \in Seq(Trees) /\ Len(u) = Len(g)
  BY <1>1, <1>4, SeqDef, LenProperties
<1> QED
  BY <1>1, <1>3, <1>4, <1>5

(* Picked children may go to the slot they are picked from. *)
LEMMA PickedGroup ==
  ASSUME NEW installed, NEW t, Sound(t, installed), NEW p \in DOMAIN t, NEW s \in Slots,
         NEW g, MayPick(t, p, s, g, installed)
  PROVE  /\ Picked(t, p, s, g) \in Seq(Trees)
         /\ GroupAccounted(t, p, s, Picked(t, p, s, g), installed)
<1> DEFINE group == Picked(t, p, s, g)
<1>1. IsTree(t) /\ Accounted(t, installed) /\ g \in Seq(1 .. t[p].size[s])
  BY DEF Sound, MayPick
<1>2. /\ group \in Seq(Trees) /\ DOMAIN group = DOMAIN g
      /\ \A i \in DOMAIN g : /\ g[i] \in 1 .. t[p].size[s]
                             /\ group[i] = Subtree(t, Child(p, s, g[i]))
  BY <1>1, PickedIs
<1> HIDE DEF group
<1>3. ASSUME NEW i \in DOMAIN group
      PROVE  /\ Accounted(group[i], installed)
             /\ ExcusedOutside(t, p, s, group[i], installed)
             /\ \A j \in DOMAIN group : i # j => Excused(group[i], group[j], installed)
  <2>1. g[i] \in 1 .. t[p].size[s] /\ group[i] = Subtree(t, Child(p, s, g[i]))
    BY <1>2
  <2>2. Accounted(group[i], installed)
    BY <1>1, <2>1, ChildOfTree, SubtreeAccounted
  <2>3. ExcusedOutside(t, p, s, group[i], installed)
    BY <1>1, <2>1, ChildExcusedOutside
  <2>4. ASSUME NEW j \in DOMAIN group, i # j
        PROVE  Excused(group[i], group[j], installed)
    <3>1. g[j] \in 1 .. t[p].size[s] /\ group[j] = Subtree(t, Child(p, s, g[j]))
      BY <1>2
    <3>2. CASE g[i] # g[j]
      BY <1>1, <2>1, <3>1, <3>2, ChildrenExcused
    <3>3. CASE g[i] = g[j]
      <4>1. t[Child(p, s, g[i])].id \in installed
        BY <1>2, <2>4, <3>3 DEF MayPick
      <4>2. /\ <<>> \in DOMAIN group[i] /\ group[i][<<>>] = t[Child(p, s, g[i])]
            /\ \A r \in DOMAIN group[i] : r \in Place
        <5>1. /\ Child(p, s, g[i]) \in DOMAIN t /\ Child(p, s, g[i]) \in Place
          BY <1>1, <2>1, ChildOfTree
        <5>2. IsTree(group[i])
          BY <1>1, <2>1, <5>1, SubtreeIs
        <5>3. <<>> \in DOMAIN group[i] /\ DOMAIN group[i] \subseteq Place
          BY <5>2, TreeIs
        <5>4. group[i][<<>>] = t[Join(Child(p, s, g[i]), <<>>)]
          BY <1>1, <2>1, <5>1, <5>3, SubtreeIs
        <5> QED
          BY <5>1, <5>3, <5>4, JoinFacts
      <4>3. \A r \in DOMAIN group[i] : Over(<<>>, r)
        BY <4>2, OverIsOrder
      <4> QED
        BY <2>1, <3>1, <3>3, <4>1, <4>2, <4>3 DEF Excused
    <3> QED
      BY <3>2, <3>3
  <2> QED
    BY <2>2, <2>3, <2>4
<1>4. GroupAccounted(t, p, s, group, installed)
  BY <1>3 DEF GroupAccounted
<1> QED
  BY <1>2, <1>4 DEF group

(* The group a slot has is all its children, each picked once. *)
LEMMA GroupIsPicked ==
  ASSUME NEW t, IsTree(t), NEW p \in DOMAIN t, NEW s \in Slots,
         NEW g, g = [i \in 1 .. t[p].size[s] |-> i]
  PROVE  /\ g \in Seq(1 .. t[p].size[s]) /\ Group(t, p, s) = Picked(t, p, s, g)
         /\ \A i, j \in DOMAIN g : g[i] = g[j] => i = j
<1> DEFINE n == t[p].size[s]
<1>1. n \in Nat
  BY NodeIs
<1> HIDE DEF n
<1>2. g \in Seq(1 .. n) /\ DOMAIN g = 1 .. n /\ \A i \in 1 .. n : g[i] = i
  <2>1. g = [i \in 1 .. n |-> i]
    BY DEF n
  <2>2. g \in [1 .. n -> 1 .. n] /\ DOMAIN g = 1 .. n /\ \A i \in 1 .. n : g[i] = i
    BY <2>1
  <2>3. \A f \in [1 .. n -> 1 .. n] : f \in Seq(1 .. n)
    BY <1>1, SeqDef
  <2> QED
    BY <2>2, <2>3
<1>3. Group(t, p, s) = Picked(t, p, s, g)
  BY <1>2 DEF Group, Picked, n
<1> QED
  BY <1>2, <1>3 DEF n

(* What the group of a slot is. *)
LEMMA GroupOfSlot ==
  ASSUME NEW t, IsTree(t), NEW p \in DOMAIN t, NEW s \in Slots
  PROVE  /\ Group(t, p, s) \in Seq(Trees) /\ t[p].size[s] \in Nat
         /\ Len(Group(t, p, s)) = t[p].size[s] /\ DOMAIN Group(t, p, s) = 1 .. t[p].size[s]
         /\ \A i \in 1 .. t[p].size[s] :
              /\ Group(t, p, s)[i] = Subtree(t, Child(p, s, i))
              /\ Group(t, p, s)[i][<<>>] = t[Child(p, s, i)]
<1> DEFINE n == t[p].size[s]
           group == Group(t, p, s)
<1>1. n \in Nat
  BY NodeIs
<1>2. ASSUME NEW i \in 1 .. n
      PROVE  /\ Subtree(t, Child(p, s, i)) \in Trees
             /\ Subtree(t, Child(p, s, i))[<<>>] = t[Child(p, s, i)]
  <2> DEFINE c == Child(p, s, i)
             u == Subtree(t, c)
  <2>1. c \in DOMAIN t /\ c \in Place
    BY ChildOfTree
  <2> HIDE DEF c
  <2>2. IsTree(u) /\ \A r \in DOMAIN u : u[r] = t[Join(c, r)]
    BY <2>1, SubtreeIs
  <2>3. <<>> \in DOMAIN u
    BY <2>2, TreeIs
  <2>4. u[<<>>] = t[c]
    BY <2>1, <2>2, <2>3, JoinFacts
  <2> QED
    BY <2>2, <2>4, TreesAre DEF c
<1>3. group = [i \in 1 .. n |-> Subtree(t, Child(p, s, i))]
  BY DEF Group
<1> HIDE DEF n, group
<1>4. group \in [1 .. n -> Trees] /\ DOMAIN group = 1 .. n
      /\ \A i \in 1 .. n : group[i] = Subtree(t, Child(p, s, i))
  BY <1>2, <1>3
<1>5. group \in Seq(Trees) /\ Len(group) = n
  BY <1>1, <1>4, SeqDef, LenProperties
<1> QED
  BY <1>1, <1>2, <1>4, <1>5 DEF n, group

-----------------------------------------------------------------------------
(***************************************************************************)
(* The walks, and what a removal leaves.                                   *)
(***************************************************************************)
Sifted(target, kept, u) == IF u[<<>>].id = target THEN kept ELSE Append(kept, u)
SiftFold == INSTANCE SequenceFolds WITH Op <- Sifted

(* A walk that finds anything finds one of what it looks for.                *)
LEMMA FirstIs ==
  ASSUME NEW t, IsTree(t), NEW wanted \in SUBSET DOMAIN t, wanted # {}
  PROVE  First(t, wanted) \in wanted
<1>1. IsFiniteSet(DOMAIN t)
  BY TreeIs
<1>2. ASSUME NEW p
      PROVE  Ahead(t, p) \in Nat
  <2>1. {q \in DOMAIN t : Before(q, p)} \in SUBSET DOMAIN t
    OBVIOUS
  <2>2. IsFiniteSet({q \in DOMAIN t : Before(q, p)})
    BY <1>1, <2>1, FS_Subset
  <2> QED
    BY <2>2, FS_CardinalityType DEF Ahead
<1> DEFINE T == {Ahead(t, q) : q \in wanted}
<1>3. T \in SUBSET Nat /\ T # {}
  BY <1>2
<1>4. PICK n \in T : \A m \in T : n <= m
  <2> HIDE DEF T
  <2> QED
    BY <1>3, SiftFold!LeastNatural
<1>5. PICK p \in wanted : n = Ahead(t, p)
  OBVIOUS
<1>6. \A q \in wanted : Ahead(t, p) <= Ahead(t, q)
  BY <1>4, <1>5
<1> QED
  BY <1>5, <1>6, Zenon DEF First

(* The node an op addresses is one of the tree's, and has the id.            *)
LEMMA FindIs ==
  ASSUME NEW t, IsTree(t), NEW id, Held(t, id)
  PROVE  Find(t, id) \in DOMAIN t /\ t[Find(t, id)].id = id
<1>1. Holders(t, id) \in SUBSET DOMAIN t /\ Holders(t, id) # {}
  BY DEF Holders, Held
<1>2. Find(t, id) \in Holders(t, id)
  BY <1>1, FirstIs DEF Find
<1> QED
  BY <1>2 DEF Holders

(* So is the container a removal takes from.                                 *)
LEMMA BereftIs ==
  ASSUME NEW t, IsTree(t), NEW target, LayoutParents(t, target) # {}
  PROVE  Bereft(t, target) \in DOMAIN t
<1>1. LayoutParents(t, target) \in SUBSET DOMAIN t
  BY DEF LayoutParents
<1>2. FindLayoutParent(t, target) \in DOMAIN t
  BY <1>1, FirstIs DEF FindLayoutParent
<1>3. Held(t, t[FindLayoutParent(t, target)].id)
  BY <1>2 DEF Held, Holders
<1> QED
  BY <1>3, FindIs DEF Bereft

(* What a removal keeps is the fold of SequenceFolds. *)
LEMMA OthersIsFold == \A target, group : Others(target, group) = SiftFold!FoldOf(target, <<>>, group)
BY Zenon DEF Others, SiftFold!FoldOf, Sifted, FoldLeft, MapThenFoldSet, Max,
             SiftFold!FoldLeft, SiftFold!MapThenFoldSet, SiftFold!Max

(* No child is picked twice. *)
Once(g) == \A i, j \in DOMAIN g : g[i] = g[j] => i = j

(* One more child is picked. *)
LEMMA PickedAppend ==
  ASSUME NEW t, IsTree(t), NEW p \in DOMAIN t, NEW s \in Slots, NEW g \in Seq(1 .. t[p].size[s]),
         NEW x \in 1 .. t[p].size[s]
  PROVE  /\ Append(g, x) \in Seq(1 .. t[p].size[s])
         /\ Subtree(t, Child(p, s, x)) \in Trees
         /\ Picked(t, p, s, Append(g, x)) = Append(Picked(t, p, s, g), Subtree(t, Child(p, s, x)))
<1> DEFINE N == 1 .. t[p].size[s]
           u == Subtree(t, Child(p, s, x))
           h == Append(g, x)
           a == Picked(t, p, s, h)
           k == Picked(t, p, s, g)
           b == Append(k, u)
<1>1. u \in Trees
  <2>1. Child(p, s, x) \in DOMAIN t
    BY ChildOfTree
  <2> QED
    BY <2>1, SubtreeIs, TreesAre
<1>2. /\ h \in Seq(N) /\ Len(h) = Len(g) + 1 /\ Len(g) \in Nat
      /\ \A i \in 1 .. Len(g) : h[i] = g[i]
      /\ h[Len(g) + 1] = x
  <2>1. g \in Seq(N) /\ x \in N
    OBVIOUS
  <2> HIDE DEF N
  <2> QED
    BY <2>1, AppendProperties, LenProperties
<1> HIDE DEF h
<1>3. /\ a \in Seq(Trees) /\ Len(a) = Len(h) /\ DOMAIN h = 1 .. Len(h)
      /\ \A i \in DOMAIN h : a[i] = Subtree(t, Child(p, s, h[i]))
  BY <1>2, PickedIs
<1>4. /\ k \in Seq(Trees) /\ Len(k) = Len(g) /\ DOMAIN g = 1 .. Len(g)
      /\ \A i \in DOMAIN g : k[i] = Subtree(t, Child(p, s, g[i]))
  BY PickedIs
<1> HIDE DEF a, k
<1>5. /\ b \in Seq(Trees) /\ Len(b) = Len(g) + 1
      /\ \A i \in 1 .. Len(g) : b[i] = k[i]
      /\ b[Len(g) + 1] = u
  <2> HIDE DEF u
  <2> QED
    BY <1>1, <1>4, AppendProperties
<1> HIDE DEF b
<1>6. ASSUME NEW i \in 1 .. Len(a)
      PROVE  a[i] = b[i]
  <2>1. i \in DOMAIN h /\ (i \in DOMAIN g \/ i = Len(g) + 1)
    BY <1>2, <1>3, <1>4
  <2>2. a[i] = Subtree(t, Child(p, s, h[i]))
    BY <1>3, <2>1
  <2>3. CASE i \in DOMAIN g
    BY <1>2, <1>4, <1>5, <2>2, <2>3
  <2>4. CASE i = Len(g) + 1
    BY <1>2, <1>5, <2>2, <2>4
  <2> QED
    BY <2>1, <2>3, <2>4
<1>7. a = b
  BY <1>2, <1>3, <1>5, <1>6, SeqEqual
<1> QED
  BY <1>1, <1>2, <1>7 DEF a, b, h, k

(* No child picked. *)
LEMMA PickedNone ==
  ASSUME NEW t, IsTree(t), NEW p \in DOMAIN t, NEW s \in Slots
  PROVE  Picked(t, p, s, <<>>) = <<>> /\ <<>> \in Seq(1 .. t[p].size[s]) /\ Once(<<>>)
<1>1. <<>> \in Seq(1 .. t[p].size[s]) /\ Len(<<>>) = 0 /\ DOMAIN <<>> = {}
  OBVIOUS
<1>2. ASSUME NEW e \in Seq(1 .. t[p].size[s]), Len(e) = 0
      PROVE  Picked(t, p, s, e) = <<>>
  <2>1. Picked(t, p, s, e) \in Seq(Trees) /\ Len(Picked(t, p, s, e)) = 0
    BY <1>2, PickedIs
  <2> QED
    BY <2>1, EmptySeq
<1>3. Picked(t, p, s, <<>>) = <<>>
  BY <1>1, <1>2
<1> QED
  BY <1>1, <1>3 DEF Once

(* A removal keeps children of the node, none twice. *)
LEMMA OthersArePicked ==
  ASSUME NEW t, IsTree(t), NEW p \in DOMAIN t, NEW s \in Slots, NEW target
  PROVE  \E g \in Seq(1 .. t[p].size[s]) :
           Once(g) /\ Others(target, Group(t, p, s)) = Picked(t, p, s, g)
<1> DEFINE N == 1 .. t[p].size[s]
           Kept(h) == SiftFold!FoldOf(target, <<>>, Picked(t, p, s, h))
           Some(h, g) == /\ Once(g) /\ Kept(h) = Picked(t, p, s, g)
                         /\ \A i \in DOMAIN g : \E j \in DOMAIN h : g[i] = h[j]
           T == {h \in Seq(N) : Once(h) => \E g \in Seq(N) : Some(h, g)}
<1>1. <<>> \in T
  <2>1. Kept(<<>>) = <<>>
    BY PickedNone, SiftFold!FoldEmpty
  <2>2. DOMAIN <<>> = {}
    OBVIOUS
  <2>3. Some(<<>>, <<>>)
    BY <2>1, <2>2, PickedNone
  <2> HIDE DEF Some
  <2> QED
    BY <2>3, PickedNone
<1>2. ASSUME NEW h \in T, NEW x \in N
      PROVE  Append(h, x) \in T
  <2> DEFINE hx == Append(h, x)
             u == Subtree(t, Child(p, s, x))
  <2>1. /\ h \in Seq(N) /\ hx \in Seq(N) /\ u \in Trees
        /\ Picked(t, p, s, hx) = Append(Picked(t, p, s, h), u)
    BY PickedAppend
  <2>2. /\ Len(h) \in Nat /\ DOMAIN h = 1 .. Len(h) /\ DOMAIN hx = 1 .. Len(h) + 1
        /\ \A i \in 1 .. Len(h) : hx[i] = h[i]
        /\ hx[Len(h) + 1] = x
    <3> HIDE DEF N, T
    <3> QED
      BY <2>1, AppendProperties, LenProperties
  <2> HIDE DEF hx
  <2>3. Kept(hx) = Sifted(target, Kept(h), u)
    <3>1. Picked(t, p, s, h) \in Seq(Trees)
      BY <2>1, PickedIs
    <3> HIDE DEF u
    <3> QED
      BY <2>1, <3>1, SiftFold!FoldAppend
  <2>4. SUFFICES ASSUME Once(hx)
                 PROVE  \E g \in Seq(N) : Some(hx, g)
    BY <2>1 DEF hx
  <2>5. Once(h) /\ \A j \in DOMAIN h : h[j] # x
    BY <2>2, <2>4 DEF Once
  <2>6. PICK g \in Seq(N) : Some(h, g)
    BY <2>5
  <2>7. CASE u[<<>>].id = target
    <3>1. Kept(hx) = Picked(t, p, s, g)
      BY <2>3, <2>6, <2>7 DEF Sifted
    <3>2. \A i \in DOMAIN g : \E j \in DOMAIN hx : g[i] = hx[j]
      BY <2>2, <2>6
    <3> QED
      BY <2>6, <3>1, <3>2
  <2>8. CASE u[<<>>].id # target
    <3> DEFINE gx == Append(g, x)
    <3>1. gx \in Seq(N) /\ Picked(t, p, s, gx) = Append(Picked(t, p, s, g), u)
      BY PickedAppend
    <3>2. /\ Len(g) \in Nat /\ DOMAIN g = 1 .. Len(g) /\ DOMAIN gx = 1 .. Len(g) + 1
          /\ \A i \in 1 .. Len(g) : gx[i] = g[i]
          /\ gx[Len(g) + 1] = x
      <4> HIDE DEF N, T
      <4> QED
        BY <3>1, AppendProperties, LenProperties
    <3> HIDE DEF gx
    <3>3. Kept(hx) = Picked(t, p, s, gx)
      BY <2>3, <2>6, <2>8, <3>1 DEF Sifted
    <3>4. \A i \in DOMAIN g : g[i] # x
      BY <2>5, <2>6
    <3>5. Once(gx)
      BY <2>6, <3>2, <3>4 DEF Once
    <3>6. \A i \in DOMAIN gx : \E j \in DOMAIN hx : gx[i] = hx[j]
      <4>1. \A i \in DOMAIN g : \E j \in DOMAIN h : g[i] = h[j]
        BY <2>6
      <4> HIDE DEF N, T, Some
      <4>2. Len(h) + 1 \in DOMAIN hx
        BY <2>2
      <4>3. \A i \in DOMAIN h : i \in DOMAIN hx /\ hx[i] = h[i]
        BY <2>2
      <4>4. \A i \in DOMAIN gx : (i \in DOMAIN g /\ gx[i] = g[i]) \/ gx[i] = x
        BY <3>2
      <4> QED
        BY <2>2, <4>1, <4>2, <4>3, <4>4
    <3> QED
      BY <3>1, <3>3, <3>5, <3>6
  <2> QED
    BY <2>7, <2>8
<1>3. T = Seq(N)
  <2>1. T \in SUBSET Seq(N)
    OBVIOUS
  <2> HIDE DEF T, N
  <2> QED
    BY <1>1, <1>2, <2>1, SiftFold!SeqSetInduction
<1> DEFINE all == [i \in N |-> i]
<1>4. all \in Seq(N) /\ Group(t, p, s) = Picked(t, p, s, all)
  BY GroupIsPicked
<1>5. Once(all)
  BY DEF Once
<1>6. PICK g \in Seq(N) : Some(all, g)
  <2>1. all \in T
    BY <1>3, <1>4
  <2> HIDE DEF all, Some, N
  <2> QED
    BY <1>5, <2>1
<1>7. Others(target, Group(t, p, s)) = Kept(all)
  BY <1>4, OthersIsFold
<1> QED
  BY <1>6, <1>7

-----------------------------------------------------------------------------
(***************************************************************************)
(* What the ops make of a sound tree.                                      *)
(***************************************************************************)
(* The node whose children are replaced stays. *)
LEMMA RegroupedStays ==
  ASSUME NEW t, IsTree(t), NEW p \in DOMAIN t, NEW s \in Slots, NEW group \in Seq(Trees)
  PROVE  p \in DOMAIN Regroup(t, p, s, group)
<1>1. p \in Place
  BY TreeIs
<1>2. ~InSlot(p, s, p)
  BY <1>1, SlotPlaces
<1> QED
  BY <1>1, <1>2, RegroupIs DEF IsRegrouped

(* A node of another kind leaves a tree sound. *)
LEMMA RekindedSound ==
  ASSUME NEW installed, NEW t, Sound(t, installed), NEW p \in DOMAIN t, NEW kind \in Kinds
  PROVE  /\ Sound([t EXCEPT ![p] = [@ EXCEPT !.kind = kind]], installed)
         /\ DOMAIN [t EXCEPT ![p] = [@ EXCEPT !.kind = kind]] = DOMAIN t
<1> DEFINE w == [t EXCEPT ![p] = [@ EXCEPT !.kind = kind]]
<1>1. /\ IsFiniteSet(DOMAIN t) /\ DOMAIN t \subseteq Place /\ t \in [DOMAIN t -> Content]
      /\ <<>> \in DOMAIN t /\ HangsTogether(t)
  BY TreeIs DEF Sound
<1> DEFINE x == [t[p] EXCEPT !.kind = kind]
<1>2. x \in Content /\ x.id = t[p].id /\ x.size = t[p].size
  BY <1>1 DEF Content
<1> HIDE DEF x
<1>3. w = [t EXCEPT ![p] = x]
  BY DEF x
<1>4. DOMAIN w = DOMAIN t /\ w \in [DOMAIN t -> Content]
      /\ \A q \in DOMAIN t : w[q].id = t[q].id /\ w[q].size = t[q].size
  BY <1>1, <1>2, <1>3
<1> HIDE DEF w
<1>5. HangsTogether(w)
  BY <1>1, <1>4 DEF HangsTogether
<1>6. IsTree(w)
  <2>1. /\ IsFiniteSet(DOMAIN w) /\ DOMAIN w \subseteq Place /\ w \in [DOMAIN w -> Content]
        /\ <<>> \in DOMAIN w
    BY <1>1, <1>4
  <2> QED
    BY <1>5, <2>1, TreeByChildren
<1>7. Accounted(w, installed)
  <2>1. ASSUME NEW a \in DOMAIN w, NEW b \in DOMAIN w, a # b, w[a].id = w[b].id
        PROVE  w[a].id \in installed \/ UnderCopies(w, installed, a, b)
    <3>1. t[a].id \in installed \/ UnderCopies(t, installed, a, b)
      BY <1>4, <2>1 DEF Sound, Accounted
    <3> QED
      BY <1>4, <3>1 DEF UnderCopies
  <2> QED
    BY <2>1 DEF Accounted
<1> QED
  BY <1>4, <1>6, <1>7 DEF Sound, w

(* An EditNode keeps a tree sound. *)
LEMMA EditedSound ==
  ASSUME NEW installed, NEW t, Sound(t, installed), NEW m, Held(t, m.target),
         m.kids \in Seq(Trees), m.kind \in Kinds,
         \A i \in DOMAIN m.kids : IdsOf(m.kids[i]) \subseteq installed
  PROVE  Sound(Edited(t, m), installed)
<1> DEFINE p == Find(t, m.target)
           R == Regroup(t, p, "kids", m.kids)
<1>1. IsTree(t) /\ p \in DOMAIN t /\ "kids" \in Slots
  BY FindIs DEF Sound, Slots
<1> HIDE DEF p
<1>2. Sound(R, installed) /\ p \in DOMAIN R
  BY <1>1, InstalledGroup, RegroupSound, RegroupedStays
<1> HIDE DEF R
<1>3. Sound([R EXCEPT ![p] = [@ EXCEPT !.kind = m.kind]], installed)
  BY <1>2, RekindedSound
<1> QED
  BY <1>3 DEF Edited, p, R

(* So does an UpdateState. *)
LEMMA RestatedSound ==
  ASSUME NEW installed, NEW t, Sound(t, installed), NEW m, Held(t, m.target),
         m.state \in Seq(Trees), \A i \in DOMAIN m.state : IdsOf(m.state[i]) \subseteq installed
  PROVE  Sound(Restated(t, m), installed)
<1>1. IsTree(t) /\ Find(t, m.target) \in DOMAIN t /\ "state" \in Slots
  BY FindIs DEF Sound, Slots
<1> QED
  BY <1>1, InstalledGroup, RegroupSound DEF Restated

(* An insertion of what the tree holds no id of does. *)
LEMMA InsertedSound ==
  ASSUME NEW installed, NEW t, Sound(t, installed), NEW parent, NEW child,
         Sound(child, installed), MayInsert(t, parent, child)
  PROVE  Sound(Inserted(t, parent, child), installed)
<1> DEFINE p == Find(t, parent)
           had == Group(t, p, "kids")
           group == Append(had, child)
<1>1. IsTree(t) /\ p \in DOMAIN t /\ "kids" \in Slots /\ IsTree(child)
  BY FindIs DEF Sound, Slots, MayInsert, HeldLayout
<1> HIDE DEF p
<1>2. had \in Seq(Trees) /\ GroupAccounted(t, p, "kids", had, installed)
  <2> DEFINE g == [i \in 1 .. t[p].size["kids"] |-> i]
  <2>1. /\ g \in Seq(1 .. t[p].size["kids"]) /\ had = Picked(t, p, "kids", g)
        /\ \A i, j \in DOMAIN g : g[i] = g[j] => i = j
    BY <1>1, GroupIsPicked
  <2> HIDE DEF g
  <2>2. MayPick(t, p, "kids", g, installed)
    BY <2>1 DEF MayPick
  <2> QED
    BY <1>1, <2>1, <2>2, PickedGroup
<1>3. \A i \in DOMAIN had : \A r \in DOMAIN had[i] : had[i][r].id \in IdsOf(t)
  <2>1. DOMAIN had = 1 .. t[p].size["kids"]
        /\ \A i \in 1 .. t[p].size["kids"] : had[i] = Subtree(t, Child(p, "kids", i))
    BY <1>1, GroupOfSlot
  <2>2. ASSUME NEW i \in 1 .. t[p].size["kids"], NEW r \in DOMAIN Subtree(t, Child(p, "kids", i))
        PROVE  Subtree(t, Child(p, "kids", i))[r].id \in IdsOf(t)
    <3> DEFINE c == Child(p, "kids", i)
    <3>1. c \in DOMAIN t
      BY <1>1, ChildOfTree
    <3> HIDE DEF c
    <3>2. Join(c, r) \in DOMAIN t /\ Subtree(t, c)[r] = t[Join(c, r)]
      BY <1>1, <2>2, <3>1, SubtreeIs DEF c
    <3> QED
      BY <3>2 DEF IdsOf, c
  <2> HIDE DEF had
  <2> QED
    BY <2>1, <2>2
<1> HIDE DEF had
<1>4. /\ group \in Seq(Trees) /\ Len(had) \in Nat /\ DOMAIN had = 1 .. Len(had)
      /\ DOMAIN group = 1 .. Len(had) + 1 /\ group[Len(had) + 1] = child
      /\ \A i \in DOMAIN had : group[i] = had[i]
  <2>1. child \in Trees
    BY <1>1, TreesAre
  <2>2. Len(had) \in Nat /\ DOMAIN had = 1 .. Len(had)
    BY <1>2, LenProperties
  <2>3. /\ group \in Seq(Trees) /\ Len(group) = Len(had) + 1
        /\ group[Len(had) + 1] = child /\ \A i \in 1 .. Len(had) : group[i] = had[i]
    BY <1>2, <2>1, AppendProperties
  <2>4. DOMAIN group = 1 .. Len(group)
    BY <2>3, LenProperties
  <2> QED
    BY <2>2, <2>3, <2>4
<1> HIDE DEF group
<1>5. \A r \in DOMAIN child : child[r].id \notin IdsOf(t)
  BY DEF MayInsert, IdsOf
<1>6. \A i \in DOMAIN group : i \in DOMAIN had \/ i = Len(had) + 1
  BY <1>4
<1>7. ASSUME NEW i \in DOMAIN group
      PROVE  Accounted(group[i], installed) /\ ExcusedOutside(t, p, "kids", group[i], installed)
  <2>1. CASE i \in DOMAIN had
    BY <1>2, <1>4, <2>1 DEF GroupAccounted
  <2>2. CASE i = Len(had) + 1
    <3>1. Accounted(child, installed)
      BY DEF Sound
    <3>2. ExcusedOutside(t, p, "kids", child, installed)
      BY <1>5 DEF ExcusedOutside, IdsOf
    <3> QED
      BY <1>4, <2>2, <3>1, <3>2
  <2> QED
    BY <1>6, <2>1, <2>2
<1>8. ASSUME NEW i \in DOMAIN group, NEW j \in DOMAIN group, i # j
      PROVE  Excused(group[i], group[j], installed)
  <2>1. CASE i \in DOMAIN had /\ j \in DOMAIN had
    BY <1>2, <1>4, <1>8, <2>1 DEF GroupAccounted
  <2>2. CASE i \in DOMAIN had /\ j = Len(had) + 1
    BY <1>3, <1>4, <1>5, <2>2 DEF Excused
  <2>3. CASE i = Len(had) + 1 /\ j \in DOMAIN had
    BY <1>3, <1>4, <1>5, <2>3 DEF Excused
  <2> QED
    BY <1>6, <1>8, <2>1, <2>2, <2>3
<1>9. GroupAccounted(t, p, "kids", group, installed)
  BY <1>7, <1>8 DEF GroupAccounted
<1> QED
  BY <1>1, <1>4, <1>9, RegroupSound DEF Inserted, p, group, had

(* A removal is a regrouping by children of the container. *)
LEMMA RemovedIsPicked ==
  ASSUME NEW installed, NEW t, Sound(t, installed), NEW target, MayRemove(t, target)
  PROVE  \E p \in DOMAIN t : \E g :
           /\ MayPick(t, p, "kids", g, installed)
           /\ Removed(t, target) = Regroup(t, p, "kids", Picked(t, p, "kids", g))
<1> DEFINE p == Bereft(t, target)
<1>1. IsTree(t) /\ p \in DOMAIN t /\ "kids" \in Slots
  BY BereftIs DEF MayRemove, Slots, Sound
<1> HIDE DEF p
<1>2. PICK g \in Seq(1 .. t[p].size["kids"]) :
        Once(g) /\ Others(target, Group(t, p, "kids")) = Picked(t, p, "kids", g)
  BY <1>1, OthersArePicked
<1>3. MayPick(t, p, "kids", g, installed)
  BY <1>2 DEF MayPick, Once
<1>4. Removed(t, target) = Regroup(t, p, "kids", Picked(t, p, "kids", g))
  BY <1>2 DEF Removed, p
<1> QED
  BY <1>1, <1>3, <1>4

(* So is a reordering: the first child of an id, picked for each of its       *)
(* mentions, is picked twice only if two children have the id.                *)
LEMMA ReorderedIsPicked ==
  ASSUME NEW installed, NEW t, Sound(t, installed), NEW parent, NEW order \in Seq(Id),
         MayReorder(t, parent, order)
  PROVE  \E p \in DOMAIN t : \E g :
           /\ MayPick(t, p, "kids", g, installed)
           /\ Reordered(t, parent, order) = Regroup(t, p, "kids", Picked(t, p, "kids", g))
<1> DEFINE p == Find(t, parent)
           n == t[p].size["kids"]
           N == 1 .. n
           group == Group(t, p, "kids")
           Named(id) == {i \in DOMAIN group : group[i][<<>>].id = id}
           FirstNamed(id) == CHOOSE i \in Named(id) : \A j \in Named(id) : i <= j
           g == [i \in DOMAIN order |-> FirstNamed(order[i])]
<1>1. IsTree(t) /\ Accounted(t, installed) /\ p \in DOMAIN t /\ "kids" \in Slots
  BY FindIs DEF Sound, Slots, MayReorder, HeldLayout
<1>2. /\ n \in Nat /\ Len(group) = n /\ DOMAIN group = N
      /\ \A i \in N : /\ group[i] = Subtree(t, Child(p, "kids", i))
                      /\ group[i][<<>>] = t[Child(p, "kids", i)]
  BY <1>1, GroupOfSlot
<1>3. /\ Len(order) = Len(group)
      /\ \E turn \in Bijection(DOMAIN group, DOMAIN group) :
           \A i \in DOMAIN order : order[i] = group[turn[i]][<<>>].id
  BY DEF MayReorder
<1> HIDE DEF p, n, group
<1>4. DOMAIN order = N
  BY <1>2, <1>3, LenProperties
<1>5. PICK turn \in Bijection(N, N) : \A i \in N : order[i] = group[turn[i]][<<>>].id
  BY <1>2, <1>3, <1>4
<1>6. /\ \A i \in N : turn[i] \in N
      /\ \A i, j \in N : turn[i] = turn[j] => i = j
  BY <1>5 DEF Bijection, Injection, IsInjective
<1>7. ASSUME NEW i \in N
      PROVE  FirstNamed(order[i]) \in N /\ t[Child(p, "kids", FirstNamed(order[i]))].id = order[i]
  <2> DEFINE T == Named(order[i])
  <2>1. turn[i] \in T /\ T \in SUBSET N
    BY <1>2, <1>5, <1>6
  <2>2. T \in SUBSET Nat /\ T # {}
    BY <1>2, <2>1
  <2>3. \E k \in T : \A j \in T : k <= j
    <3> HIDE DEF T
    <3> QED
      BY <2>2, SiftFold!LeastNatural
  <2>4. FirstNamed(order[i]) \in T
    BY <2>3, Zenon
  <2> QED
    BY <1>2, <2>1, <2>4
<1> HIDE DEF FirstNamed
<1>8. /\ DOMAIN g = N /\ \A i \in N : g[i] = FirstNamed(order[i])
      /\ g \in Seq(N)
  <2>1. g \in [1 .. n -> N] /\ DOMAIN g = N /\ \A i \in N : g[i] = FirstNamed(order[i])
    BY <1>4, <1>7
  <2>2. \A f \in [1 .. n -> N] : f \in Seq(N)
    BY <1>2, SeqDef
  <2> HIDE DEF g
  <2> QED
    BY <2>1, <2>2
<1>9. ASSUME NEW i \in N, NEW j \in N, i # j, g[i] = g[j]
      PROVE  t[Child(p, "kids", g[i])].id \in installed
  <2> DEFINE a == turn[i]
             b == turn[j]
  <2>1. order[i] = order[j] /\ t[Child(p, "kids", g[i])].id = order[i]
    BY <1>7, <1>8, <1>9
  <2>2. a \in 1 .. t[p].size["kids"] /\ b \in 1 .. t[p].size["kids"] /\ a # b
    BY <1>6, <1>9 DEF n
  <2>3. t[Child(p, "kids", a)].id = order[i] /\ t[Child(p, "kids", b)].id = order[j]
    BY <1>2, <1>5, <1>6
  <2> HIDE DEF a, b
  <2>4. t[Child(p, "kids", a)].id \in installed
    BY <1>1, <2>1, <2>2, <2>3, SiblingsRepeat
  <2> QED
    BY <2>1, <2>3, <2>4
<1>10. MayPick(t, p, "kids", g, installed)
  <2> HIDE DEF g
  <2> QED
    BY <1>8, <1>9 DEF MayPick, n
<1>11. Reordered(t, parent, order) = Regroup(t, p, "kids", Picked(t, p, "kids", g))
  <2>1. Reordered(t, parent, order)
          = Regroup(t, p, "kids", [i \in DOMAIN order |-> group[FirstNamed(order[i])]])
    BY DEF Reordered, p, group, FirstNamed
  <2>2. [i \in DOMAIN order |-> group[FirstNamed(order[i])]] = Picked(t, p, "kids", g)
    BY <1>2, <1>4, <1>7, <1>8 DEF Picked
  <2> QED
    BY <2>1, <2>2
<1> QED
  BY <1>1, <1>10, <1>11

(* Picked children leave a tree sound. *)
LEMMA PickedSound ==
  ASSUME NEW installed, NEW t, Sound(t, installed), NEW p \in DOMAIN t, NEW s \in Slots,
         NEW g, MayPick(t, p, s, g, installed)
  PROVE  Sound(Regroup(t, p, s, Picked(t, p, s, g)), installed)
BY PickedGroup, RegroupSound

(* A removal, and a move, keep a tree sound. *)
LEMMA RemovedSound ==
  ASSUME NEW installed, NEW t, Sound(t, installed), NEW target, MayRemove(t, target)
  PROVE  Sound(Removed(t, target), installed)
<1>1. IsTree(t) /\ "kids" \in Slots
  BY DEF Sound, Slots
<1> QED
  BY <1>1, RemovedIsPicked, PickedSound

(* What is moved is sound by itself. *)
LEMMA MovedSound ==
  ASSUME NEW installed, NEW t, Sound(t, installed), NEW target, NEW parent,
         MayMove(t, target, parent)
  PROVE  Sound(Moved(t, target, parent), installed)
<1> DEFINE u == Subtree(t, Find(t, target))
           w == Removed(t, target)
<1>1. Held(t, target) /\ MayRemove(t, target) /\ MayInsert(w, parent, u)
  BY DEF MayMove
<1>2. Sound(w, installed)
  BY <1>1, RemovedSound
<1>3. Sound(u, installed)
  <2>1. IsTree(t) /\ Accounted(t, installed)
    BY DEF Sound
  <2>2. Find(t, target) \in DOMAIN t
    BY <1>1, <2>1, FindIs
  <2> QED
    BY <2>1, <2>2, SubtreeIs, SubtreeAccounted DEF Sound
<1> HIDE DEF u, w
<1>4. Sound(Inserted(w, parent, u), installed)
  BY <1>1, <1>2, <1>3, InsertedSound
<1> QED
  BY <1>4 DEF Moved, u, w

(* A reordering keeps a tree sound. *)
LEMMA ReorderedSound ==
  ASSUME NEW installed, NEW t, Sound(t, installed), NEW parent, NEW order \in Seq(Id),
         MayReorder(t, parent, order)
  PROVE  Sound(Reordered(t, parent, order), installed)
<1>1. "kids" \in Slots
  BY DEF Slots
<1> QED
  BY <1>1, ReorderedIsPicked, PickedSound

(* Groups of payloads are groups of trees. *)
LEMMA PayloadGroups == \A group \in Seq(Payload) : group \in Seq(Trees)
<1>1. Payload \subseteq Trees
  BY PayloadAssumption, TreesAre
<1>2. ASSUME NEW group \in Seq(Payload)
      PROVE  group \in Seq(Trees)
  <2>1. /\ Len(group) \in Nat /\ group \in [1 .. Len(group) -> Payload]
    BY LenProperties
  <2>2. group \in [1 .. Len(group) -> Trees]
    BY <1>1, <2>1
  <2>3. \A n \in Nat : \A f \in [1 .. n -> Trees] : f \in Seq(Trees)
    BY SeqDef
  <2> QED
    BY <2>1, <2>2, <2>3
<1> QED
  BY <1>2

(* What a member carries. *)
LEMMA MemberIs ==
  ASSUME NEW m \in Member
  PROVE  /\ m.op \in {"EditNode", "UpdateState", "UpdateValue", "RemoveNode", "InsertChild",
                      "MoveNode", "ReorderChildren", "ReplaceRoot"}
         /\ m.op = "EditNode" => m.kind \in Kinds /\ m.kids \in Seq(Payload)
         /\ m.op = "UpdateState" => m.state \in Seq(Payload)
         /\ m.op = "InsertChild" => m.child \in Payload
         /\ m.op = "ReorderChildren" => m.order \in Seq(Id)
         /\ m.op = "ReplaceRoot" => m.node \in Payload
<1>1. CASE m \in [op : {"EditNode"}, target : Id, kind : Kinds, kids : Seq(Payload)]
  BY <1>1
<1>2. CASE m \in [op : {"UpdateState"}, target : Id, state : Seq(Payload)]
  BY <1>2
<1>3. CASE m \in [op : {"UpdateValue", "RemoveNode"}, target : Id]
  BY <1>3
<1>4. CASE m \in [op : {"InsertChild"}, parent : Id, child : Payload]
  BY <1>4
<1>5. CASE m \in [op : {"MoveNode"}, target : Id, parent : Id]
  BY <1>5
<1>6. CASE m \in [op : {"ReorderChildren"}, parent : Id, order : Seq(Id)]
  BY <1>6
<1>7. CASE m \in [op : {"ReplaceRoot"}, node : Payload]
  BY <1>7
<1> QED
  BY <1>1, <1>2, <1>3, <1>4, <1>5, <1>6, <1>7 DEF Member

(* The members that bring in installed ids only. *)
MemberOf(installed) == {m \in Member : \A u \in Brought(m) : IdsOf(u) \subseteq installed}

(* Every member keeps a tree sound. *)
LEMMA MadeSound ==
  ASSUME NEW installed, NEW t, Sound(t, installed), NEW m \in MemberOf(installed), May(t, m)
  PROVE  Sound(Made(t, m), installed)
<1>1. m \in Member /\ \A u \in Brought(m) : IdsOf(u) \subseteq installed
  BY DEF MemberOf
<1>2. /\ m.op \in {"EditNode", "UpdateState", "UpdateValue", "RemoveNode", "InsertChild",
                   "MoveNode", "ReorderChildren", "ReplaceRoot"}
      /\ m.op = "EditNode" => m.kind \in Kinds /\ m.kids \in Seq(Payload)
      /\ m.op = "UpdateState" => m.state \in Seq(Payload)
      /\ m.op = "InsertChild" => m.child \in Payload
      /\ m.op = "ReorderChildren" => m.order \in Seq(Id)
      /\ m.op = "ReplaceRoot" => m.node \in Payload
  BY <1>1, MemberIs
<1>3. CASE m.op = "EditNode"
  <2>1. Held(t, m.target) /\ Made(t, m) = Edited(t, m)
    BY <1>3 DEF May, Made
  <2>2. \A i \in DOMAIN m.kids : IdsOf(m.kids[i]) \subseteq installed
    BY <1>1, <1>3 DEF Brought
  <2>3. m.kids \in Seq(Trees) /\ m.kind \in Kinds
    BY <1>2, <1>3, PayloadGroups
  <2> QED
    BY <2>1, <2>2, <2>3, EditedSound
<1>4. CASE m.op = "UpdateState"
  <2>1. Held(t, m.target) /\ Made(t, m) = Restated(t, m)
    BY <1>4 DEF May, Made
  <2>2. \A i \in DOMAIN m.state : IdsOf(m.state[i]) \subseteq installed
    BY <1>1, <1>4 DEF Brought
  <2>3. m.state \in Seq(Trees)
    BY <1>2, <1>4, PayloadGroups
  <2> QED
    BY <2>1, <2>2, <2>3, RestatedSound
<1>5. CASE m.op = "UpdateValue"
  BY <1>5 DEF Made
<1>6. CASE m.op = "InsertChild"
  <2>1. MayInsert(t, m.parent, m.child) /\ Made(t, m) = Inserted(t, m.parent, m.child)
    BY <1>6 DEF May, Made
  <2>2. IdsOf(m.child) \subseteq installed /\ IsTree(m.child)
    BY <1>1, <1>2, <1>6, PayloadAssumption DEF Brought
  <2> QED
    BY <2>1, <2>2, InstalledSound, InsertedSound
<1>7. CASE m.op = "RemoveNode"
  <2>1. MayRemove(t, m.target) /\ Made(t, m) = Removed(t, m.target)
    BY <1>7 DEF May, Made
  <2> QED
    BY <2>1, RemovedSound
<1>8. CASE m.op = "MoveNode"
  <2>1. MayMove(t, m.target, m.parent) /\ Made(t, m) = Moved(t, m.target, m.parent)
    BY <1>8 DEF May, Made
  <2> QED
    BY <2>1, MovedSound
<1>9. CASE m.op = "ReorderChildren"
  <2>1. MayReorder(t, m.parent, m.order) /\ Made(t, m) = Reordered(t, m.parent, m.order)
    BY <1>9 DEF May, Made
  <2> QED
    BY <1>2, <1>9, <2>1, ReorderedSound
<1>10. CASE m.op = "ReplaceRoot"
  <2>1. Made(t, m) = m.node
    BY <1>10 DEF Made
  <2>2. IdsOf(m.node) \subseteq installed /\ IsTree(m.node)
    BY <1>1, <1>2, <1>10, PayloadAssumption DEF Brought
  <2> QED
    BY <2>1, <2>2, InstalledSound
<1> QED
  BY <1>2, <1>3, <1>4, <1>5, <1>6, <1>7, <1>8, <1>9, <1>10

DraftNext(c, d, m) == IF d # NoTree /\ May(d, m) THEN Made(d, m) ELSE NoTree
DraftFold == INSTANCE SequenceFolds WITH Op <- DraftNext

(* A draft is the fold of SequenceFolds. *)
LEMMA DraftIsFold == \A t, op : Draft(t, op) = DraftFold!FoldOf(0, t, op)
BY Zenon DEF Draft, DraftFold!FoldOf, DraftNext, FoldLeft, MapThenFoldSet, Max,
             DraftFold!FoldLeft, DraftFold!MapThenFoldSet, DraftFold!Max

(* An op brings in what its members do. *)
LEMMA OpIs ==
  ASSUME NEW op \in Op
  PROVE  op \in Seq(MemberOf(InsertedIds(op)))
<1> DEFINE M == MemberOf(InsertedIds(op))
<1> DEFINE n == Len(op)
<1>0. op \in Seq(Member)
  BY OpAssumption
<1>1. /\ n \in Nat /\ DOMAIN op = 1 .. n /\ op \in [1 .. n -> Member]
      /\ \A i \in 1 .. n : op[i] \in Member
  BY <1>0, LenProperties
<1> HIDE DEF n
<1>2. ASSUME NEW i \in DOMAIN op, NEW u \in Brought(op[i])
      PROVE  IdsOf(u) \subseteq InsertedIds(op)
  <2>1. u \in InsertedNodes(op)
    BY DEF InsertedNodes
  <2> QED
    BY <2>1 DEF InsertedIds
<1>3. \A i \in 1 .. n : op[i] \in M
  BY <1>1, <1>2 DEF MemberOf
<1> HIDE DEF M
<1>4. op \in [1 .. n -> M]
  BY <1>1, <1>3
<1>5. \A f \in [1 .. n -> M] : f \in Seq(M)
  BY <1>1, SeqDef
<1>6. op \in Seq(M)
  BY <1>4, <1>5, Zenon
<1> QED
  BY <1>6 DEF M

(* Every draft of an op on a legal tree is sound. *)
LEMMA DraftSound ==
  ASSUME NEW t, IsLegal(t), NEW op \in Op, Draft(t, op) # NoTree
  PROVE  Sound(Draft(t, op), InsertedIds(op))
<1> DEFINE I == InsertedIds(op)
           A == {d \in Trees : Sound(d, I)} \cup {NoTree}
<1>1. t \in A
  <2>1. IsTree(t) /\ Accounted(t, I)
    BY DEF IsLegal, IdsAreUnique, Accounted
  <2> QED
    BY <2>1, TreesAre DEF Sound
<1>2. ASSUME NEW d \in A, NEW m \in MemberOf(I)
      PROVE  DraftNext(0, d, m) \in A
  <2>1. CASE d # NoTree /\ May(d, m)
    <3>1. Sound(Made(d, m), I)
      BY <2>1, MadeSound
    <3>2. Made(d, m) \in Trees
      BY <3>1, TreesAre DEF Sound
    <3> QED
      BY <2>1, <3>1, <3>2 DEF DraftNext
  <2>2. CASE ~(d # NoTree /\ May(d, m))
    BY <2>2 DEF DraftNext
  <2> QED
    BY <2>1, <2>2
<1>3. op \in Seq(MemberOf(I))
  BY OpIs
<1>4. DraftFold!FoldOf(0, t, op) \in A
  <2> HIDE DEF A, I
  <2> QED
    BY <1>1, <1>2, <1>3, DraftFold!FoldType
<1>5. Draft(t, op) \in A
  BY <1>4, DraftIsFold
<1> QED
  BY <1>5

-----------------------------------------------------------------------------
(***************************************************************************)
(* Ops that cannot grow a tree.                                            *)
(***************************************************************************)
(* Children picked once leave a tree within the limits: every place of the   *)
(* new one comes from another, as deep, of the old.                          *)
LEMMA PickedFits ==
  ASSUME NEW t, IsTree(t), WithinLimits(t), NEW p \in DOMAIN t, NEW s \in Slots,
         NEW g \in Seq(1 .. t[p].size[s]), Once(g)
  PROVE  WithinLimits(Regroup(t, p, s, Picked(t, p, s, g)))
<1> DEFINE group == Picked(t, p, s, g)
           R == Regroup(t, p, s, group)
           From(q) == IF InSlot(p, s, q)
                      THEN Join(Child(p, s, g[q[Len(p) + 1][2]]), Below(Child(p, s, 1), q))
                      ELSE q
           f == [q \in DOMAIN R |-> From(q)]
<1>1. p \in Place /\ IsFiniteSet(DOMAIN t) /\ \A q \in DOMAIN t : q \in Place
  BY TreeIs
<1>2. /\ group \in Seq(Trees) /\ DOMAIN group = DOMAIN g
      /\ \A i \in DOMAIN g : /\ g[i] \in 1 .. t[p].size[s]
                             /\ group[i] = Subtree(t, Child(p, s, g[i]))
  BY PickedIs
<1> HIDE DEF group
<1>3. IsRegrouped(R, t, p, s, group)
  BY <1>2, RegroupIs
<1> HIDE DEF R
<1>4. /\ \A q \in DOMAIN R : q \in Place
      /\ \A q \in Place : ~InSlot(p, s, q) => (q \in DOMAIN R <=> q \in DOMAIN t)
      /\ \A i \in Nat \ {0}, r \in Place :
           Join(Child(p, s, i), r) \in DOMAIN R <=> i \in DOMAIN group /\ r \in DOMAIN group[i]
  BY <1>3 DEF IsRegrouped
<1>5. ASSUME NEW i \in DOMAIN g
      PROVE  /\ g[i] \in Nat \ {0} /\ Child(p, s, g[i]) \in Place
             /\ Len(Child(p, s, g[i])) = Len(p) + 1
             /\ \A r \in DOMAIN group[i] : r \in Place /\ Join(Child(p, s, g[i]), r) \in DOMAIN t
  <2>1. g[i] \in 1 .. t[p].size[s]
    BY <1>2
  <2>2. g[i] \in Nat \ {0} /\ Child(p, s, g[i]) \in DOMAIN t
    BY <2>1, ChildOfTree
  <2>3. Child(p, s, g[i]) \in Place /\ Len(Child(p, s, g[i])) = Len(p) + 1
    BY <1>1, <2>2, ChildIs
  <2>4. \A r \in DOMAIN group[i] : r \in Place /\ Join(Child(p, s, g[i]), r) \in DOMAIN t
    BY <1>2, <2>2, SubtreeIs
  <2> QED
    BY <2>2, <2>3, <2>4
<1>6. ASSUME NEW q \in DOMAIN R, InSlot(p, s, q)
      PROVE  \E i \in DOMAIN g : \E r \in DOMAIN group[i] :
               /\ i \in Nat \ {0} /\ q = Join(Child(p, s, i), r)
               /\ From(q) = Join(Child(p, s, g[i]), r)
  <2>1. PICK i \in Nat \ {0}, r \in Place : q = Join(Child(p, s, i), r)
    BY <1>1, <1>4, <1>6, InOrOut
  <2>2. i \in DOMAIN g /\ r \in DOMAIN group[i]
    BY <1>2, <1>4, <2>1
  <2>3. q[Len(p) + 1][2] = i /\ Below(Child(p, s, 1), q) = r
    <3>1. /\ Join(Child(p, s, i), r) \in Place /\ InSlot(p, s, Join(Child(p, s, i), r))
          /\ Join(Child(p, s, i), r)[Len(p) + 1][2] = i
          /\ Below(Child(p, s, 1), Join(Child(p, s, i), r)) = r
      BY <1>1, SlotJoin
    <3> QED
      BY <2>1, <3>1
  <2>4. From(q) = Join(Child(p, s, i), r) \/ From(q) = Join(Child(p, s, g[i]), r)
    BY <1>6, <2>3
  <2>5. From(q) = Join(Child(p, s, g[i]), r)
    BY <1>6, <2>3
  <2> QED
    BY <2>1, <2>2, <2>5
<1>7. ASSUME NEW q \in DOMAIN R, ~InSlot(p, s, q)
      PROVE  From(q) = q /\ q \in DOMAIN t
  BY <1>4, <1>7
<1> HIDE DEF From
<1>8. ASSUME NEW q \in DOMAIN R
      PROVE  From(q) \in DOMAIN t /\ Len(From(q)) = Len(q) /\ (InSlot(p, s, q) <=> InSlot(p, s, From(q)))
  <2>1. CASE InSlot(p, s, q)
    <3>1. PICK i \in DOMAIN g : \E r \in DOMAIN group[i] :
            /\ i \in Nat \ {0} /\ q = Join(Child(p, s, i), r)
            /\ From(q) = Join(Child(p, s, g[i]), r)
      BY <1>6, <2>1
    <3>2. PICK r \in DOMAIN group[i] :
            /\ i \in Nat \ {0} /\ q = Join(Child(p, s, i), r)
            /\ From(q) = Join(Child(p, s, g[i]), r)
      BY <3>1
    <3>3. /\ g[i] \in Nat \ {0} /\ r \in Place /\ From(q) \in DOMAIN t
          /\ Child(p, s, g[i]) \in Place /\ Len(Child(p, s, g[i])) = Len(p) + 1
      BY <1>5, <3>2
    <3>4. Child(p, s, i) \in Place /\ Len(Child(p, s, i)) = Len(p) + 1
      BY <1>1, <3>2, ChildIs
    <3>5. Len(Join(Child(p, s, i), r)) = Len(Child(p, s, i)) + Len(r)
      BY <3>3, <3>4, JoinIs DEF Join
    <3>6. Len(Join(Child(p, s, g[i]), r)) = Len(Child(p, s, g[i])) + Len(r)
      BY <3>3, JoinIs DEF Join
    <3>7. InSlot(p, s, Join(Child(p, s, g[i]), r))
      BY <1>1, <3>3, SlotJoin
    <3> QED
      BY <2>1, <3>2, <3>3, <3>4, <3>5, <3>6, <3>7
  <2>2. CASE ~InSlot(p, s, q)
    BY <1>7, <2>2
  <2> QED
    BY <2>1, <2>2
<1>9. ASSUME NEW x \in DOMAIN R, NEW y \in DOMAIN R, From(x) = From(y)
      PROVE  x = y
  <2>1. CASE InSlot(p, s, x) /\ InSlot(p, s, y)
    <3>1. PICK i \in DOMAIN g, a \in Place :
            /\ i \in Nat \ {0} /\ x = Join(Child(p, s, i), a)
            /\ From(x) = Join(Child(p, s, g[i]), a)
      BY <1>5, <1>6, <2>1
    <3>2. PICK j \in DOMAIN g, b \in Place :
            /\ j \in Nat \ {0} /\ y = Join(Child(p, s, j), b)
            /\ From(y) = Join(Child(p, s, g[j]), b)
      BY <1>5, <1>6, <2>1
    <3>3. g[i] = g[j] /\ a = b
      <4>1. Join(Child(p, s, g[i]), a) = Join(Child(p, s, g[j]), b)
        BY <1>9, <3>1, <3>2
      <4>2. g[i] \in Nat \ {0} /\ g[j] \in Nat \ {0}
        BY <1>5
      <4>3. \A k, l \in Nat \ {0}, c, d \in Place :
              Join(Child(p, s, k), c) = Join(Child(p, s, l), d) => k = l /\ c = d
        BY <1>1, SlotApart, Zenon
      <4> HIDE DEF f
      <4> QED
        BY <4>1, <4>2, <4>3
    <3> QED
      BY <3>1, <3>2, <3>3 DEF Once
  <2>2. CASE ~(InSlot(p, s, x) /\ InSlot(p, s, y))
    BY <1>7, <1>8, <1>9, <2>2
  <2> QED
    BY <2>1, <2>2
<1>10. f \in Injection(DOMAIN R, DOMAIN t)
  <2>1. f \in [DOMAIN R -> DOMAIN t]
    BY <1>8
  <2>2. \A x, y \in DOMAIN R : f[x] = f[y] => x = y
    BY <1>9
  <2> HIDE DEF f
  <2> QED
    BY <2>1, <2>2 DEF Injection, IsInjective
<1>11. Cardinality(DOMAIN R) <= Cardinality(DOMAIN t) /\ IsFiniteSet(DOMAIN R)
  BY <1>1, <1>10, FS_Injection
<1>12. Cardinality(DOMAIN R) \in Nat /\ Cardinality(DOMAIN t) \in Nat
  BY <1>1, <1>11, FS_CardinalityType
<1>13. Cardinality(DOMAIN R) <= MaxNodes
  BY <1>11, <1>12, LimitsAssumption DEF WithinLimits
<1>14. \A q \in DOMAIN R : Len(q) < MaxDepth
  BY <1>8 DEF WithinLimits
<1> QED
  BY <1>13, <1>14 DEF WithinLimits, R, group

(* The members that bring nothing in and move nothing. *)
Modest == {m \in Member : Brought(m) = {} /\ m.op # "MoveNode"}

(* An empty group is no child picked. *)
LEMMA EmptyFits ==
  ASSUME NEW t, IsTree(t), WithinLimits(t), NEW p \in DOMAIN t, NEW s \in Slots
  PROVE  WithinLimits(Regroup(t, p, s, <<>>))
BY PickedNone, PickedFits

(* A sequence that holds nothing is empty. *)
LEMMA NothingHeld ==
  ASSUME NEW S, NEW u \in Seq(S), {u[i] : i \in DOMAIN u} = {}
  PROVE  u = <<>>
<1>1. DOMAIN u = {}
  OBVIOUS
<1>2. Len(u) \in Nat /\ DOMAIN u = 1 .. Len(u)
  BY LenProperties
<1>3. Len(u) = 0
  <2>1. Len(u) # 0 => 1 \in 1 .. Len(u)
    BY <1>2
  <2> QED
    BY <1>1, <1>2, <2>1
<1> QED
  BY <1>3, EmptySeq

(* Such members leave a tree within the limits. *)
LEMMA MadeFits ==
  ASSUME NEW t, Sound(t, {}), WithinLimits(t), NEW m \in Modest, May(t, m)
  PROVE  WithinLimits(Made(t, m))
<1>1. m \in Member /\ Brought(m) = {} /\ m.op # "MoveNode" /\ IsTree(t)
  BY DEF Modest, Sound
<1>2. /\ m.op \in {"EditNode", "UpdateState", "UpdateValue", "RemoveNode", "InsertChild",
                   "MoveNode", "ReorderChildren", "ReplaceRoot"}
      /\ m.op = "EditNode" => m.kind \in Kinds /\ m.kids \in Seq(Payload)
      /\ m.op = "UpdateState" => m.state \in Seq(Payload)
      /\ m.op = "ReorderChildren" => m.order \in Seq(Id)
  BY <1>1, MemberIs
<1>3. "kids" \in Slots /\ "state" \in Slots
  BY DEF Slots
<1>4. CASE m.op = "EditNode"
  <2>1. Held(t, m.target) /\ Made(t, m) = Edited(t, m) /\ Brought(m) = {m.kids[i] : i \in DOMAIN m.kids}
    BY <1>4 DEF May, Made, Brought
  <2>2. m.kids = <<>>
    BY <1>1, <1>2, <1>4, <2>1, NothingHeld
  <2> DEFINE p == Find(t, m.target)
             R == Regroup(t, p, "kids", <<>>)
  <2>3. p \in DOMAIN t
    BY <1>1, <2>1, FindIs
  <2>4. WithinLimits(R)
    BY <1>1, <1>3, <2>3, EmptyFits
  <2> HIDE DEF R, p
  <2>5. DOMAIN [R EXCEPT ![p] = [@ EXCEPT !.kind = m.kind]] = DOMAIN R
    OBVIOUS
  <2>6. WithinLimits([R EXCEPT ![p] = [@ EXCEPT !.kind = m.kind]])
    BY <2>4, <2>5 DEF WithinLimits
  <2> QED
    BY <2>1, <2>2, <2>6 DEF Edited, R, p
<1>5. CASE m.op = "UpdateState"
  <2>1. Held(t, m.target) /\ Made(t, m) = Restated(t, m) /\ Brought(m) = {m.state[i] : i \in DOMAIN m.state}
    BY <1>5 DEF May, Made, Brought
  <2>2. m.state = <<>>
    BY <1>1, <1>2, <1>5, <2>1, NothingHeld
  <2>3. Find(t, m.target) \in DOMAIN t
    BY <1>1, <2>1, FindIs
  <2> QED
    BY <1>1, <1>3, <2>1, <2>2, <2>3, EmptyFits DEF Restated
<1>6. CASE m.op = "UpdateValue"
  BY <1>6 DEF Made
<1>7. CASE m.op = "RemoveNode"
  <2>1. MayRemove(t, m.target) /\ Made(t, m) = Removed(t, m.target)
    BY <1>7 DEF May, Made
  <2>0. PICK p \in DOMAIN t : \E g :
          /\ MayPick(t, p, "kids", g, {})
          /\ Removed(t, m.target) = Regroup(t, p, "kids", Picked(t, p, "kids", g))
    BY <2>1, RemovedIsPicked
  <2>2. PICK g :
          /\ MayPick(t, p, "kids", g, {})
          /\ Removed(t, m.target) = Regroup(t, p, "kids", Picked(t, p, "kids", g))
    BY <2>0
  <2>3. g \in Seq(1 .. t[p].size["kids"]) /\ Once(g)
    BY <2>2 DEF MayPick, Once
  <2> QED
    BY <1>1, <1>3, <2>1, <2>2, <2>3, PickedFits
<1>8. CASE m.op = "ReorderChildren"
  <2>1. MayReorder(t, m.parent, m.order) /\ Made(t, m) = Reordered(t, m.parent, m.order)
    BY <1>8 DEF May, Made
  <2>0. PICK p \in DOMAIN t : \E g :
          /\ MayPick(t, p, "kids", g, {})
          /\ Reordered(t, m.parent, m.order) = Regroup(t, p, "kids", Picked(t, p, "kids", g))
    BY <1>1, <1>2, <1>8, <2>1, ReorderedIsPicked
  <2>2. PICK g :
          /\ MayPick(t, p, "kids", g, {})
          /\ Reordered(t, m.parent, m.order) = Regroup(t, p, "kids", Picked(t, p, "kids", g))
    BY <2>0
  <2>3. g \in Seq(1 .. t[p].size["kids"]) /\ Once(g)
    BY <2>2 DEF MayPick, Once
  <2> QED
    BY <1>1, <1>3, <2>1, <2>2, <2>3, PickedFits
<1>9. CASE m.op \in {"InsertChild", "ReplaceRoot"}
  BY <1>1, <1>9 DEF Brought
<1> QED
  BY <1>1, <1>2, <1>4, <1>5, <1>6, <1>7, <1>8, <1>9

(* An op that cannot grow leaves a legal tree within the limits. *)
LEMMA DraftFits ==
  ASSUME NEW t, IsLegal(t), NEW op \in Op, ~OpCanGrow(op), Draft(t, op) # NoTree
  PROVE  WithinLimits(Draft(t, op))
<1> DEFINE A == {d \in Trees : Sound(d, {}) /\ WithinLimits(d)} \cup {NoTree}
<1>1. t \in A
  <2>1. IsTree(t) /\ Accounted(t, {}) /\ WithinLimits(t)
    BY DEF IsLegal, IdsAreUnique, Accounted
  <2> QED
    BY <2>1, TreesAre DEF Sound
<1>2. ASSUME NEW d \in A, NEW m \in Modest
      PROVE  DraftNext(0, d, m) \in A
  <2>1. CASE d # NoTree /\ May(d, m)
    <3>1. m \in MemberOf({})
      BY DEF Modest, MemberOf
    <3>2. Sound(Made(d, m), {})
      BY <2>1, <3>1, MadeSound
    <3>3. Made(d, m) \in Trees
      BY <3>2, TreesAre DEF Sound
    <3>4. WithinLimits(Made(d, m))
      BY <2>1, MadeFits
    <3> QED
      BY <2>1, <3>2, <3>3, <3>4 DEF DraftNext
  <2>2. CASE ~(d # NoTree /\ May(d, m))
    BY <2>2 DEF DraftNext
  <2> QED
    BY <2>1, <2>2
<1>3. op \in Seq(Modest)
  <2> DEFINE n == Len(op)
  <2>0. op \in Seq(Member)
    BY OpAssumption
  <2>1. /\ n \in Nat /\ DOMAIN op = 1 .. n /\ op \in [1 .. n -> Member]
        /\ \A i \in 1 .. n : op[i] \in Member
    BY <2>0, LenProperties
  <2> HIDE DEF n
  <2>2. ASSUME NEW i \in 1 .. n
        PROVE  op[i] \in Modest
    <3>1. Brought(op[i]) = {}
      BY <2>1 DEF OpCanGrow, InsertedNodes
    <3>2. op[i].op # "MoveNode"
      BY <2>1 DEF OpCanGrow
    <3> QED
      BY <2>1, <3>1, <3>2 DEF Modest
  <2>3. op \in [1 .. n -> Modest]
    BY <2>1, <2>2
  <2>4. \A f \in [1 .. n -> Modest] : f \in Seq(Modest)
    BY <2>1, SeqDef
  <2> QED
    BY <2>3, <2>4, Zenon
<1>4. DraftFold!FoldOf(0, t, op) \in A
  <2> HIDE DEF A
  <2> QED
    BY <1>1, <1>2, <1>3, DraftFold!FoldType
<1>5. Draft(t, op) \in A
  BY <1>4, DraftIsFold
<1> QED
  BY <1>5

-----------------------------------------------------------------------------
(***************************************************************************)
(* The theorems.                                                           *)
(***************************************************************************)
(* A sound tree that holds each installed id once repeats none. *)
LEMMA SoundIsUnique ==
  ASSUME NEW installed, NEW t, Sound(t, installed),
         \A id \in installed : \A p, q \in Holders(t, id) : p = q
  PROVE  IdsAreUnique(t)
<1>1. \A q \in DOMAIN t : q \in Place
  BY TreeIs DEF Sound
<1>2. ASSUME NEW p \in DOMAIN t, NEW q \in DOMAIN t, t[p].id = t[q].id, p # q
      PROVE  FALSE
  <2>1. CASE t[p].id \in installed
    BY <1>2, <2>1 DEF Holders
  <2>2. CASE UnderCopies(t, installed, p, q)
    <3>1. PICK a \in DOMAIN t, b \in DOMAIN t :
            ~Over(a, b) /\ t[a].id = t[b].id /\ t[a].id \in installed
      BY <2>2 DEF UnderCopies
    <3>2. a # b
      BY <1>1, <3>1, OverIsOrder
    <3> QED
      BY <3>1, <3>2 DEF Holders
  <2> QED
    BY <1>2, <2>1, <2>2 DEF Sound, Accounted
<1> QED
  BY <1>2 DEF IdsAreUnique

(* What apply makes of a legal tree is legal. *)
LEMMA ApplyIsLegal ==
  ASSUME NEW t, IsLegal(t), NEW op \in Op, Apply(t, op) # NoTree
  PROVE  IsLegal(Apply(t, op))
<1> DEFINE d == Draft(t, op)
<1>1. /\ d # NoTree /\ (OpCanGrow(op) => WithinLimits(d)) /\ InstalledIdsUnique(op, d)
      /\ Apply(t, op) = d
  BY DEF Apply
<1>2. Sound(d, InsertedIds(op))
  BY <1>1, DraftSound
<1>3. WithinLimits(d)
  BY <1>1, DraftFits
<1>4. IdsAreUnique(d)
  BY <1>1, <1>2, SoundIsUnique DEF InstalledIdsUnique
<1> QED
  BY <1>1, <1>2, <1>3, <1>4 DEF IsLegal, Sound

(* Whatever ops a host sends, the tree it holds is a tree, repeats no id and  *)
(* is within the limits (apply).                                              *)
THEOREM OutlineAlwaysLegal == Spec => []OutlineIsLegal
<1>1. Init => OutlineIsLegal
  BY SeedsAssumption DEF Init, OutlineIsLegal
<1>2. OutlineIsLegal /\ [Next]_outline => OutlineIsLegal'
  <2> SUFFICES ASSUME OutlineIsLegal, [Next]_outline
               PROVE  OutlineIsLegal'
    OBVIOUS
  <2>1. ASSUME NEW op \in Op, Edit(op)
        PROVE  OutlineIsLegal'
    BY <2>1, ApplyIsLegal DEF OutlineIsLegal, Edit
  <2>2. CASE UNCHANGED outline
    BY <2>2 DEF OutlineIsLegal
  <2> QED
    BY <2>1, <2>2 DEF Next
<1> QED
  BY <1>1, <1>2, PTL DEF Spec

(* Whatever the members of an op do to that tree, each id its draft repeats is *)
(* accounted for by the ids the op brought in: the only ones looked for        *)
(* (check_installed_ids).                                                      *)
THEOREM DraftsAlwaysAccounted == Spec => []DraftsAreAccounted
<1>1. OutlineIsLegal => DraftsAreAccounted
  BY DraftSound DEF OutlineIsLegal, DraftsAreAccounted, Sound
<1> QED
  BY <1>1, OutlineAlwaysLegal, PTL
=============================================================================
