----------------------------- MODULE PanelProofs ----------------------------
(***************************************************************************)
(* The device side of a panel, for every image, budget and pipe: the       *)
(* window is the longest run of newest frames that fits, a replay carries  *)
(* every frame it promises, and the screen is what the device emitted up   *)
(* to the client's own sequence.                                           *)
(***************************************************************************)
EXTENDS Panel, TLAPS

-----------------------------------------------------------------------------
(***************************************************************************)
(* The folds of the model, one instance each.                              *)
(***************************************************************************)
AddCost(c, sum, f) == sum + Cost(f.op)
BytesFold == INSTANCE SequenceFolds WITH Op <- AddCost

KeepNewer(last, newer, f) == IF f.seq > last THEN Append(newer, f) ELSE newer
NewerFold == INSTANCE SequenceFolds WITH Op <- KeepNewer

KeepTaken(gone, taken, f) == IF f.seq \in gone THEN taken ELSE Append(taken, f)
TakenFold == INSTANCE SequenceFolds WITH Op <- KeepTaken

ShowNext(c, shown, f) == Shows(shown, f.op)
ShownFold == INSTANCE SequenceFolds WITH Op <- ShowNext

Blank == [e \in Entry |-> Unset]

(* The bytes of a window are the fold of SequenceFolds. *)
LEMMA BytesIsFold == \A s : Bytes(s) = BytesFold!FoldOf(0, 0, s)
BY Zenon DEF Bytes, BytesFold!FoldOf, AddCost, FoldLeft, MapThenFoldSet, Max,
             BytesFold!FoldLeft, BytesFold!MapThenFoldSet, BytesFold!Max

(* So are the frames the pipe took. *)
LEMMA TakenIsFold == \A s, gone : Taken(s, gone) = TakenFold!FoldOf(gone, <<>>, s)
BY Zenon DEF Taken, TakenFold!FoldOf, KeepTaken, FoldLeft, MapThenFoldSet, Max,
             TakenFold!FoldLeft, TakenFold!MapThenFoldSet, TakenFold!Max

(* So are the frames newer than a sequence. *)
LEMMA AfterIsFold == \A last : After(last) = NewerFold!FoldOf(last, <<>>, replay)
BY Zenon DEF After, NewerFold!FoldOf, KeepNewer, FoldLeft, MapThenFoldSet, Max,
             NewerFold!FoldLeft, NewerFold!MapThenFoldSet, NewerFold!Max

(* So is what frames show. *)
LEMMA ShownIsFold == \A n : ShownAfter(n) = ShownFold!FoldOf(0, Blank, SubSeq(emitted, 1, n))
BY Zenon DEF ShownAfter, ShownFold!FoldOf, ShowNext, Blank, FoldLeft, MapThenFoldSet, Max,
             ShownFold!FoldLeft, ShownFold!MapThenFoldSet, ShownFold!Max

-----------------------------------------------------------------------------
(***************************************************************************)
(* What the bytes of a run of frames add up to.                            *)
(***************************************************************************)
LEMMA CostIsNat == ASSUME NEW f \in Frame PROVE Cost(f.op) \in Nat
BY CostAssumption DEF Frame

(* An empty window costs nothing. *)
LEMMA BytesEmpty == Bytes(<<>>) = 0
BY BytesIsFold, BytesFold!FoldEmpty

(* One frame more costs its op more. *)
LEMMA BytesAppend ==
  ASSUME NEW s \in Seq(Frame), NEW f \in Frame
  PROVE  Bytes(Append(s, f)) = Bytes(s) + Cost(f.op)
BY BytesIsFold, BytesFold!FoldAppend DEF AddCost

(* Every cost is a natural number. *)
LEMMA BytesIsNat == \A s \in Seq(Frame) : Bytes(s) \in Nat
<1> DEFINE T == {s \in Seq(Frame) : Bytes(s) \in Nat}
<1>1. <<>> \in T
  BY BytesEmpty
<1>2. ASSUME NEW s \in T, NEW f \in Frame
      PROVE  Append(s, f) \in T
  BY BytesAppend, CostIsNat
<1> HIDE DEF T
<1>3. T = Seq(Frame)
  <2>1. T \in SUBSET Seq(Frame)
    BY DEF T
  <2> QED
    BY <1>1, <1>2, <2>1, BytesFold!SeqSetInduction
<1> QED
  BY <1>3 DEF T

(* The first k and the others add up. *)
LEMMA BytesSplit ==
  ASSUME NEW s \in Seq(Frame), NEW k \in 0 .. Len(s)
  PROVE  Bytes(s) = Bytes(SubSeq(s, 1, k)) + Bytes(SubSeq(s, k + 1, Len(s)))
<1> DEFINE Splits(t, n) ==
             Bytes(t) = Bytes(SubSeq(t, 1, n)) + Bytes(SubSeq(t, n + 1, Len(t)))
           T == {t \in Seq(Frame) : \A n \in 0 .. Len(t) : Splits(t, n)}
<1>0. ASSUME NEW t \in Seq(Frame)
      PROVE  Splits(t, Len(t))
  <2>1. SubSeq(t, 1, Len(t)) = t /\ SubSeq(t, Len(t) + 1, Len(t)) = <<>>
    OBVIOUS
  <2>2. Bytes(t) \in Nat
    BY BytesIsNat
  <2>3. Bytes(t) = Bytes(t) + Bytes(<<>>)
    BY <2>2, BytesEmpty
  <2> QED
    BY <2>1, <2>3, Zenon
<1>1. <<>> \in T
  <2>1. <<>> \in Seq(Frame) /\ Len(<<>>) = 0
    OBVIOUS
  <2>2. Splits(<<>>, 0)
    BY <1>0, <2>1
  <2> HIDE DEF Splits
  <2> QED
    BY <2>1, <2>2
<1>2. ASSUME NEW t \in T, NEW f \in Frame
      PROVE  Append(t, f) \in T
  <2> DEFINE u == Append(t, f)
  <2>1. t \in Seq(Frame) /\ Len(t) \in Nat /\ u \in Seq(Frame) /\ Len(u) = Len(t) + 1
    OBVIOUS
  <2>2. ASSUME NEW n \in 0 .. Len(t)
        PROVE  Splits(u, n)
    <3>1. SubSeq(u, 1, n) = SubSeq(t, 1, n)
      BY <2>1
    <3>2. SubSeq(u, n + 1, Len(u)) = Append(SubSeq(t, n + 1, Len(t)), f)
      <4>1. PICK m \in Nat \ {0} : m = n + 1 /\ m <= Len(t) + 1
        BY <2>1
      <4>2. SubSeq(Append(t, f), m, Len(t) + 1) = Append(SubSeq(t, m, Len(t)), f)
        BY <2>1, <4>1, BytesFold!SubSeqOfAppend
      <4>3. SubSeq(u, n + 1, Len(u)) = SubSeq(Append(t, f), m, Len(t) + 1)
        BY <2>1, <4>1, Zenon
      <4> QED
        BY <4>1, <4>2, <4>3, Zenon
    <3>3. SubSeq(t, 1, n) \in Seq(Frame) /\ SubSeq(t, n + 1, Len(t)) \in Seq(Frame)
      BY <2>1
    <3>4. Bytes(t) = Bytes(SubSeq(t, 1, n)) + Bytes(SubSeq(t, n + 1, Len(t)))
      OBVIOUS
    <3>5. Bytes(u) = Bytes(t) + Cost(f.op)
      BY <2>1, BytesAppend
    <3>6. Bytes(SubSeq(u, n + 1, Len(u))) = Bytes(SubSeq(t, n + 1, Len(t))) + Cost(f.op)
      BY <3>2, <3>3, BytesAppend
    <3>7. /\ Bytes(SubSeq(t, 1, n)) \in Nat /\ Bytes(SubSeq(t, n + 1, Len(t))) \in Nat
          /\ Cost(f.op) \in Nat
      BY <3>3, BytesIsNat, CostIsNat
    <3> DEFINE first == Bytes(SubSeq(t, 1, n))
               rest == Bytes(SubSeq(t, n + 1, Len(t)))
    <3>8. Bytes(u) = (first + rest) + Cost(f.op)
      BY <3>4, <3>5
    <3>9. Bytes(SubSeq(u, 1, n)) = first /\ Bytes(SubSeq(u, n + 1, Len(u))) = rest + Cost(f.op)
      BY <3>1, <3>6, Zenon
    <3> HIDE DEF u, first, rest
    <3>10. first \in Nat /\ rest \in Nat
      BY <3>7 DEF first, rest
    <3>11. (first + rest) + Cost(f.op) = first + (rest + Cost(f.op))
      BY <3>7, <3>10
    <3> QED
      BY <3>8, <3>9, <3>11, Zenon
  <2>3. Splits(u, Len(u))
    BY <1>0, <2>1
  <2> HIDE DEF Splits, u
  <2>4. \A n \in 0 .. Len(u) : Splits(u, n)
    BY <2>1, <2>2, <2>3
  <2> QED
    BY <2>1, <2>4 DEF u
<1> HIDE DEF T
<1>3. T = Seq(Frame)
  <2>1. T \in SUBSET Seq(Frame)
    BY DEF T
  <2> QED
    BY <1>1, <1>2, <2>1, BytesFold!SeqSetInduction
<1> QED
  BY <1>3 DEF T

-----------------------------------------------------------------------------
(***************************************************************************)
(* The frames the pipe took.                                               *)
(***************************************************************************)
LEMMA TakenAppend ==
  ASSUME NEW s \in Seq(Frame), NEW f \in Frame, NEW gone
  PROVE  Taken(Append(s, f), gone) =
           IF f.seq \in gone THEN Taken(s, gone) ELSE Append(Taken(s, gone), f)
BY TakenIsFold, TakenFold!FoldAppend DEF KeepTaken

(* Of no frames none was taken. *)
LEMMA TakenEmpty == \A gone : Taken(<<>>, gone) = <<>>
BY TakenIsFold, TakenFold!FoldEmpty

(* What was taken are frames. *)
LEMMA TakenIsFrames == \A gone : \A s \in Seq(Frame) : Taken(s, gone) \in Seq(Frame)
<1> TAKE gone
<1> DEFINE T == {s \in Seq(Frame) : Taken(s, gone) \in Seq(Frame)}
<1>1. <<>> \in T
  <2>1. <<>> \in Seq(Frame)
    OBVIOUS
  <2> QED
    BY <2>1, TakenEmpty
<1>2. ASSUME NEW s \in T, NEW f \in Frame
      PROVE  Append(s, f) \in T
  BY TakenAppend
<1> HIDE DEF T
<1>3. T = Seq(Frame)
  <2>1. T \in SUBSET Seq(Frame)
    BY DEF T
  <2> QED
    BY <1>1, <1>2, <2>1, TakenFold!SeqSetInduction
<1> QED
  BY <1>3 DEF T

(* Only the sequences that occur matter. *)
LEMMA TakenAgrees ==
  ASSUME NEW gone, NEW lost, NEW s \in Seq(Frame),
         \A i \in 1 .. Len(s) : s[i].seq \in gone <=> s[i].seq \in lost
  PROVE  Taken(s, gone) = Taken(s, lost)
<1> DEFINE Agree(t) == \A i \in 1 .. Len(t) : t[i].seq \in gone <=> t[i].seq \in lost
           T == {t \in Seq(Frame) : Agree(t) => Taken(t, gone) = Taken(t, lost)}
<1>1. <<>> \in T
  BY TakenEmpty
<1>2. ASSUME NEW t \in T, NEW f \in Frame
      PROVE  Append(t, f) \in T
  <2> DEFINE u == Append(t, f)
  <2>1. /\ t \in Seq(Frame) /\ u \in Seq(Frame) /\ Len(u) = Len(t) + 1 /\ Len(t) \in Nat
        /\ u[Len(t) + 1] = f /\ \A i \in 1 .. Len(t) : u[i] = t[i]
    OBVIOUS
  <2> HIDE DEF u
  <2>2. ASSUME Agree(u)
        PROVE  Taken(u, gone) = Taken(u, lost)
    <3>1. Agree(t) /\ (f.seq \in gone <=> f.seq \in lost)
      BY <2>1, <2>2
    <3>2. Taken(t, gone) = Taken(t, lost)
      BY <3>1
    <3>3. \A out : Taken(u, out) =
                     IF f.seq \in out THEN Taken(t, out) ELSE Append(Taken(t, out), f)
      BY <2>1, TakenAppend DEF u
    <3> QED
      BY <3>1, <3>2, <3>3
  <2> QED
    BY <2>1, <2>2 DEF u
<1> HIDE DEF T
<1>3. T = Seq(Frame)
  <2>1. T \in SUBSET Seq(Frame)
    BY DEF T
  <2> QED
    BY <1>1, <1>2, <2>1, TakenFold!SeqSetInduction
<1>4. s \in T
  BY <1>3
<1> QED
  BY <1>4 DEF T

-----------------------------------------------------------------------------
(***************************************************************************)
(* The retained frames newer than a sequence.                              *)
(***************************************************************************)
Holds(s, f) == \E i \in 1 .. Len(s) : s[i] = f

(* A frame appended is held with the others. *)
LEMMA HoldsAppend ==
  ASSUME NEW S, NEW s \in Seq(S), NEW x \in S, NEW f
  PROVE  Holds(Append(s, x), f) <=> Holds(s, f) \/ f = x
<1> DEFINE u == Append(s, x)
<1>1. /\ u \in Seq(S) /\ Len(u) = Len(s) + 1 /\ Len(s) \in Nat
      /\ u[Len(s) + 1] = x /\ \A i \in 1 .. Len(s) : u[i] = s[i]
  OBVIOUS
<1> HIDE DEF u
<1>2. Holds(u, f) <=> Holds(s, f) \/ f = x
  BY <1>1 DEF Holds
<1> QED
  BY <1>2 DEF u

(* What a resync sends again is what is newer. *)
LEMMA AfterIsNewer ==
  ASSUME NEW last, replay \in Seq(Frame)
  PROVE  /\ After(last) \in Seq(Frame)
         /\ \A f : Holds(After(last), f) <=> Holds(replay, f) /\ f.seq > last
<1> DEFINE Newer(s) == NewerFold!FoldOf(last, <<>>, s)
           T == {s \in Seq(Frame) :
                   /\ Newer(s) \in Seq(Frame)
                   /\ \A f : Holds(Newer(s), f) <=> Holds(s, f) /\ f.seq > last}
<1>0. \A f : ~ Holds(<<>>, f)
  BY DEF Holds
<1>1. <<>> \in T
  <2>1. <<>> \in Seq(Frame) /\ Newer(<<>>) = <<>>
    BY NewerFold!FoldEmpty
  <2> HIDE DEF Newer
  <2> QED
    BY <1>0, <2>1
<1>2. ASSUME NEW s \in T, NEW x \in Frame
      PROVE  Append(s, x) \in T
  <2>1. s \in Seq(Frame) /\ Append(s, x) \in Seq(Frame)
    OBVIOUS
  <2>2. Newer(Append(s, x)) = IF x.seq > last THEN Append(Newer(s), x) ELSE Newer(s)
    BY <2>1, NewerFold!FoldAppend DEF KeepNewer
  <2> HIDE DEF Newer
  <2>3. /\ Newer(s) \in Seq(Frame)
        /\ \A f : Holds(Newer(s), f) <=> Holds(s, f) /\ f.seq > last
    OBVIOUS
  <2>4. Newer(Append(s, x)) \in Seq(Frame)
    BY <2>2, <2>3
  <2>5. ASSUME NEW f
        PROVE  Holds(Newer(Append(s, x)), f) <=> Holds(Append(s, x), f) /\ f.seq > last
    <3>1. Holds(Append(s, x), f) <=> Holds(s, f) \/ f = x
      BY <2>1, HoldsAppend
    <3>2. Holds(Append(Newer(s), x), f) <=> Holds(Newer(s), f) \/ f = x
      BY <2>3, HoldsAppend
    <3> QED
      BY <2>2, <2>3, <3>1, <3>2
  <2> QED
    BY <2>1, <2>4, <2>5
<1> HIDE DEF T
<1>3. T = Seq(Frame)
  <2>1. T \in SUBSET Seq(Frame)
    BY DEF T
  <2> QED
    BY <1>1, <1>2, <2>1, NewerFold!SeqSetInduction
<1>4. replay \in T
  BY <1>3
<1> QED
  BY <1>4, AfterIsFold DEF T

-----------------------------------------------------------------------------
(***************************************************************************)
(* The inductive invariant.  The window is a run of the frames the pipe    *)
(* took, and those are the emitted ones, in order, without the refused: so *)
(* that a frame still retained, or on the wire, is the one emitted under   *)
(* its sequence.                                                           *)
(***************************************************************************)
Written == Taken(emitted, refused)

Numbered == Len(emitted) = seq /\ \A n \in 1 .. seq : emitted[n].seq = n

(* The frames the emitter made. *)
Made == {f \in Frame : f.seq \in 1 .. seq /\ f = emitted[f.seq]}

Ascending(s) == \A i, j \in 1 .. Len(s) : i < j => s[i].seq < s[j].seq

WrittenIsMade ==
  /\ refused \subseteq 1 .. seq
  /\ Written \in Seq(Made)
  /\ Ascending(Written)
  /\ \A n \in (1 .. seq) \ refused : \E i \in 1 .. Len(Written) : Written[i].seq = n

(* kept is the longest run of the newest frames of w that fits in b. *)
NewestOf(w, kept, b) ==
  \E n \in 0 .. Len(w) :
     /\ kept = SubSeq(w, n + 1, Len(w))
     /\ n > 0 => Bytes(SubSeq(w, n, Len(w))) > b

Window == retained = Bytes(replay) /\ NewestOf(Written, replay, budget)

PanelInv ==
  /\ TypeOK
  /\ Numbered
  /\ WrittenIsMade
  /\ Window
  /\ wire \in Seq(Made)
  /\ ScreenIsHistory

(* The property of the window in terms of its invariant. *)
LEMMA WindowIsNewestIsWindow == TypeOK => (WindowIsNewest <=> Window)
BY Zenon DEF WindowIsNewest, Window, NewestOf, Written

-----------------------------------------------------------------------------
(***************************************************************************)
(* push: what is evicted, and what stays.                                  *)
(***************************************************************************)
(* Evicted is the least number of oldest frames whose going is enough. *)
LEMMA EvictedIsEnough ==
  ASSUME NEW kept \in Seq(Frame), budget \in Nat
  PROVE  LET n == Evicted(kept, Bytes(kept))
         IN  /\ n \in 0 .. Len(kept)
             /\ Bytes(kept) - Bytes(SubSeq(kept, 1, n)) = Bytes(SubSeq(kept, n + 1, Len(kept)))
             /\ Bytes(SubSeq(kept, n + 1, Len(kept))) \in 0 .. budget
             /\ n > 0 => Bytes(SubSeq(kept, n, Len(kept))) > budget
<1> DEFINE left(m) == Bytes(SubSeq(kept, m + 1, Len(kept)))
           gone(m) == Bytes(SubSeq(kept, 1, m))
           enough == {m \in 0 .. Len(kept) : Bytes(kept) - gone(m) <= budget}
           n == Evicted(kept, Bytes(kept))
<1>1. Len(kept) \in Nat
  OBVIOUS
<1>2. ASSUME NEW m \in 0 .. Len(kept)
      PROVE  left(m) \in Nat /\ gone(m) \in Nat /\ Bytes(kept) - gone(m) = left(m)
  <2>1. SubSeq(kept, 1, m) \in Seq(Frame) /\ SubSeq(kept, m + 1, Len(kept)) \in Seq(Frame)
    BY <1>1
  <2>2. left(m) \in Nat /\ gone(m) \in Nat
    BY <2>1, BytesIsNat
  <2>3. Bytes(kept) = gone(m) + left(m)
    BY BytesSplit
  <2> HIDE DEF left, gone
  <2> QED
    BY <2>2, <2>3
<1>3. left(Len(kept)) = 0
  <2>1. SubSeq(kept, Len(kept) + 1, Len(kept)) = <<>>
    OBVIOUS
  <2> QED
    BY <2>1, BytesEmpty, Zenon
<1>4. n = CHOOSE m \in enough : \A k \in enough : m <= k
  BY Zenon DEF Evicted
<1> HIDE DEF left, gone, n
<1>5. Len(kept) \in enough
  BY <1>1, <1>2, <1>3
<1>6. enough \in SUBSET Nat
  BY <1>1
<1> HIDE DEF enough
<1>7. \E m \in enough : \A k \in enough : m <= k
  BY <1>5, <1>6, BytesFold!LeastNatural
<1>8. n \in enough /\ \A k \in enough : n <= k
  BY <1>4, <1>7, Zenon
<1>9. n \in 0 .. Len(kept) /\ left(n) \in 0 .. budget /\ Bytes(kept) - gone(n) = left(n)
  BY <1>1, <1>2, <1>8 DEF enough
<1>10. ASSUME n > 0
       PROVE  Bytes(SubSeq(kept, n, Len(kept))) > budget
  <2>1. PICK m \in 0 .. Len(kept) : m = n - 1 /\ m + 1 = n /\ ~(n <= m)
    BY <1>1, <1>9, <1>10
  <2>2. m \notin enough
    BY <1>8, <2>1
  <2>3. left(m) > budget
    BY <1>2, <2>1, <2>2 DEF enough
  <2> QED
    BY <2>1, <2>3, Zenon DEF left
<1> QED
  BY <1>9, <1>10, Zenon DEF left, gone, n

(* The longest run of newest frames, one frame later. *)
LEMMA RetainKeepsNewest ==
  ASSUME TypeOK, NEW w \in Seq(Frame), NewestOf(w, replay, budget), retained = Bytes(replay),
         NEW f \in Frame, Retain(f)
  PROVE  /\ NewestOf(Append(w, f), replay', budget)
         /\ retained' = Bytes(replay') /\ retained' \in 0 .. budget
         /\ replay' \in Seq(Frame)
<1> DEFINE u == Append(w, f)
<1>1. /\ budget \in Nat /\ replay \in Seq(Frame) /\ Cost(f.op) \in Nat
      /\ Len(w) \in Nat /\ u \in Seq(Frame) /\ Len(u) = Len(w) + 1
  BY PanelAssumption, CostIsNat DEF TypeOK
<1>2. ASSUME NEW m \in Nat \ {0}, m <= Len(w) + 1
      PROVE  SubSeq(u, m, Len(u)) = Append(SubSeq(w, m, Len(w)), f)
  <2>1. SubSeq(Append(w, f), m, Len(w) + 1) = Append(SubSeq(w, m, Len(w)), f)
    BY <1>2, BytesFold!SubSeqOfAppend
  <2> QED
    BY <1>1, <2>1, Zenon
<1>3. CASE Cost(f.op) > budget
  <2>1. replay' = <<>> /\ retained' = 0
    BY <1>3 DEF Retain
  <2>2. SubSeq(u, Len(u) + 1, Len(u)) = <<>> /\ Len(u) \in 0 .. Len(u) /\ <<>> \in Seq(Frame)
    BY <1>1
  <2>3. Bytes(SubSeq(u, Len(u), Len(u))) > budget
    <3>1. Len(u) \in Nat \ {0} /\ Len(u) <= Len(w) + 1
      BY <1>1
    <3>2. SubSeq(u, Len(u), Len(u)) = Append(SubSeq(w, Len(u), Len(w)), f)
      BY <1>2, <3>1
    <3>3. SubSeq(w, Len(u), Len(w)) = <<>> /\ <<>> \in Seq(Frame)
      BY <1>1
    <3>4. Bytes(Append(<<>>, f)) = Bytes(<<>>) + Cost(f.op)
      BY <3>3, BytesAppend
    <3>5. Bytes(SubSeq(u, Len(u), Len(u))) = Cost(f.op)
      <4>1. Bytes(SubSeq(u, Len(u), Len(u))) = 0 + Cost(f.op)
        BY <3>2, <3>3, <3>4, BytesEmpty, Zenon
      <4> QED
        BY <1>1, <4>1
    <3> QED
      BY <1>1, <1>3, <3>5, Zenon
  <2> HIDE DEF u
  <2>4. NewestOf(u, <<>>, budget)
    BY <2>2, <2>3, Zenon DEF NewestOf
  <2> QED
    BY <1>1, <2>1, <2>2, <2>4, BytesEmpty DEF u
<1>4. CASE ~(Cost(f.op) > budget)
  <2> DEFINE kept == Append(replay, f)
             n == Evicted(kept, Bytes(kept))
  <2>1. kept \in Seq(Frame) /\ Bytes(kept) = retained + Cost(f.op)
    BY <1>1, BytesAppend
  <2>2. /\ replay' = SubSeq(kept, n + 1, Len(kept))
        /\ retained' = Bytes(kept) - Bytes(SubSeq(kept, 1, n))
    BY <1>4, <2>1, Zenon DEF Retain, RetainWithin
  <2>3. /\ n \in 0 .. Len(kept)
        /\ Bytes(kept) - Bytes(SubSeq(kept, 1, n)) = Bytes(SubSeq(kept, n + 1, Len(kept)))
        /\ Bytes(SubSeq(kept, n + 1, Len(kept))) \in 0 .. budget
        /\ n > 0 => Bytes(SubSeq(kept, n, Len(kept))) > budget
    BY <1>1, <2>1, EvictedIsEnough
  <2>4. PICK k \in 0 .. Len(w) :
          /\ replay = SubSeq(w, k + 1, Len(w))
          /\ k > 0 => Bytes(SubSeq(w, k, Len(w))) > budget
    BY DEF NewestOf
  <2>5. kept = SubSeq(u, k + 1, Len(u))
    <3>1. k + 1 \in Nat \ {0} /\ k + 1 <= Len(w) + 1
      BY <1>1
    <3>2. SubSeq(u, k + 1, Len(u)) = Append(SubSeq(w, k + 1, Len(w)), f)
      BY <1>2, <3>1
    <3> QED
      BY <2>4, <3>2, Zenon
  <2> HIDE DEF n, kept
  <2>6. Len(kept) = Len(u) - k
    BY <1>1, <2>5
  <2>7. ASSUME NEW m \in 1 .. Len(kept) + 1
        PROVE  SubSeq(kept, m, Len(kept)) = SubSeq(u, k + m, Len(u))
    <3>1. k \in 0 .. Len(u)
      BY <1>1
    <3> QED
      BY <1>1, <2>5, <3>1, BytesFold!SuffixOfSuffix
  <2>8. k + n \in 0 .. Len(u)
    BY <1>1, <2>3, <2>6
  <2>9. replay' = SubSeq(u, (k + n) + 1, Len(u))
    <3>1. PICK m \in 1 .. Len(kept) + 1 : m = n + 1 /\ k + m = (k + n) + 1
      BY <1>1, <2>3
    <3> QED
      BY <2>2, <2>7, <3>1, Zenon
  <2>10. ASSUME k + n > 0
         PROVE  Bytes(SubSeq(u, k + n, Len(u))) > budget
    <3>1. CASE n > 0
      <4>1. n \in 1 .. Len(kept) + 1
        BY <2>3, <3>1
      <4> QED
        BY <2>3, <2>7, <3>1, <4>1, Zenon
    <3>2. CASE ~(n > 0)
      <4>1. k + n = k /\ k > 0 /\ k \in Nat \ {0} /\ k <= Len(w) + 1
        BY <1>1, <2>3, <2>10, <3>2
      <4>2. SubSeq(u, k + n, Len(u)) = Append(SubSeq(w, k, Len(w)), f)
        BY <1>2, <4>1, Zenon
      <4>3. SubSeq(w, k, Len(w)) \in Seq(Frame)
        BY <4>1
      <4>4. Bytes(SubSeq(u, k + n, Len(u))) = Bytes(SubSeq(w, k, Len(w))) + Cost(f.op)
        BY <4>2, <4>3, BytesAppend
      <4>5. Bytes(SubSeq(w, k, Len(w))) > budget /\ Bytes(SubSeq(w, k, Len(w))) \in Nat
        BY <2>4, <4>1, <4>3, BytesIsNat
      <4> QED
        BY <1>1, <4>4, <4>5
    <3> QED
      BY <3>1, <3>2
  <2>11. NewestOf(u, replay', budget)
    BY <2>8, <2>9, <2>10, Zenon DEF NewestOf
  <2>12. replay' \in Seq(Frame)
    <3>1. n + 1 \in 1 .. Len(kept) + 1 /\ Len(kept) \in Nat
      BY <2>1, <2>3
    <3> QED
      BY <2>1, <2>2, <3>1
  <2>13. retained' = Bytes(replay') /\ retained' \in 0 .. budget
    BY <2>2, <2>3, Zenon
  <2> QED
    BY <2>11, <2>12, <2>13 DEF u
<1> QED
  BY <1>3, <1>4

-----------------------------------------------------------------------------
(***************************************************************************)
(* Emitter::frame, and what of it the pipe takes.                          *)
(***************************************************************************)
LEMMA EmitNumbers ==
  ASSUME TypeOK, Numbered, NEW op \in Op, Emit(op)
  PROVE  /\ emitted' \in Seq(Frame) /\ seq' \in Nat
         /\ Numbered'
         /\ Made \subseteq Made'
         /\ NewFrame(op) \in Made' /\ NewFrame(op) \in Frame
<1> DEFINE f == NewFrame(op)
<1>1. f \in Frame /\ f.seq = seq + 1 /\ seq \in Nat /\ emitted \in Seq(Frame)
  BY DEF NewFrame, Frame, TypeOK
<1>2. emitted' = Append(emitted, f) /\ seq' = seq + 1
  BY DEF Emit
<1> HIDE DEF f
<1>3. /\ emitted' \in Seq(Frame) /\ Len(emitted') = seq + 1 /\ emitted'[seq + 1] = f
      /\ \A n \in 1 .. seq : emitted'[n] = emitted[n]
  BY <1>1, <1>2 DEF Numbered
<1>4. Numbered'
  BY <1>1, <1>2, <1>3 DEF Numbered
<1>5. f \in Made'
  BY <1>1, <1>2, <1>3 DEF Made
<1>6. Made \subseteq Made'
  BY <1>1, <1>2, <1>3 DEF Made
<1> QED
  BY <1>1, <1>2, <1>3, <1>4, <1>5, <1>6 DEF f

(* A sequence over a set is one over a larger set. *)
LEMMA SeqOfMore == ASSUME NEW S, NEW T, S \subseteq T, NEW s \in Seq(S) PROVE s \in Seq(T)
OBVIOUS

(* A frame the pipe takes is the last of those it took. *)
LEMMA WrittenGrows ==
  ASSUME TypeOK, Numbered, WrittenIsMade, NEW op \in Op, Emit(op), refused' = refused
  PROVE  Written' = Append(Written, NewFrame(op)) /\ WrittenIsMade'
<1> DEFINE f == NewFrame(op)
<1>1. f \in Frame /\ f.seq = seq + 1 /\ seq \in Nat /\ emitted \in Seq(Frame) /\ seq' = seq + 1
  BY DEF NewFrame, Frame, TypeOK, Emit
<1>2. Made \subseteq Made' /\ f \in Made'
  BY EmitNumbers
<1>3. seq + 1 \notin refused
  BY <1>1 DEF WrittenIsMade
<1>4. Written' = Append(Written, f)
  <2>1. Written' = Taken(Append(emitted, f), refused)
    BY Zenon DEF Written, Emit
  <2>2. Taken(Append(emitted, f), refused) = Append(Taken(emitted, refused), f)
    BY <1>1, <1>3, TakenAppend
  <2> QED
    BY <2>1, <2>2, Zenon DEF Written
<1> HIDE DEF f
<1>5. Written \in Seq(Made') /\ Written' \in Seq(Made')
  BY <1>2, <1>4, SeqOfMore DEF WrittenIsMade
<1>6. /\ Len(Written') = Len(Written) + 1 /\ Len(Written) \in Nat
      /\ Written'[Len(Written) + 1] = f
      /\ \A i \in 1 .. Len(Written) : Written'[i] = Written[i]
  BY <1>2, <1>4, <1>5
<1>7. \A i \in 1 .. Len(Written) : Written[i].seq \in 1 .. seq
  BY DEF WrittenIsMade, Made
<1>8. Ascending(Written')
  <2>1. Ascending(Written)
    BY DEF WrittenIsMade
  <2> SUFFICES ASSUME NEW i \in 1 .. Len(Written'), NEW j \in 1 .. Len(Written'), i < j
               PROVE  Written'[i].seq < Written'[j].seq
    BY DEF Ascending
  <2>2. i \in 1 .. Len(Written)
    BY <1>6
  <2>3. CASE j \in 1 .. Len(Written)
    BY <1>6, <2>1, <2>2, <2>3 DEF Ascending
  <2>4. CASE j = Len(Written) + 1
    BY <1>1, <1>6, <1>7, <2>2, <2>4
  <2> QED
    BY <1>6, <2>3, <2>4
<1>9. refused' \subseteq 1 .. seq'
  BY <1>1 DEF WrittenIsMade
<1>10. ASSUME NEW n \in (1 .. seq') \ refused'
       PROVE  \E i \in 1 .. Len(Written') : Written'[i].seq = n
  <2>1. CASE n = seq + 1
    <3>1. Len(Written) + 1 \in 1 .. Len(Written')
      BY <1>6
    <3> QED
      BY <1>1, <1>6, <2>1, <3>1
  <2>2. CASE n # seq + 1
    <3>1. n \in (1 .. seq) \ refused
      BY <1>1, <2>2
    <3>2. PICK i \in 1 .. Len(Written) : Written[i].seq = n
      BY <3>1 DEF WrittenIsMade
    <3>3. i \in 1 .. Len(Written') /\ Written'[i] = Written[i]
      BY <1>6, <3>2
    <3> QED
      BY <3>2, <3>3
  <2> QED
    BY <2>1, <2>2
<1> QED
  BY <1>4, <1>5, <1>8, <1>9, <1>10 DEF WrittenIsMade, f

(* A frame the pipe refuses leaves those it took as they were. *)
LEMMA WrittenStays ==
  ASSUME TypeOK, Numbered, WrittenIsMade, NEW op \in Op, Emit(op),
         refused' = refused \cup {seq + 1}
  PROVE  Written' = Written /\ WrittenIsMade'
<1> DEFINE f == NewFrame(op)
           gone == refused \cup {seq + 1}
<1>1. f \in Frame /\ f.seq = seq + 1 /\ seq \in Nat /\ emitted \in Seq(Frame) /\ seq' = seq + 1
  BY DEF NewFrame, Frame, TypeOK, Emit
<1>2. Made \subseteq Made'
  BY EmitNumbers
<1>3. Written' = Written
  <2>1. Written' = Taken(Append(emitted, f), gone)
    BY Zenon DEF Written, Emit
  <2>2. f.seq \in gone
    BY <1>1
  <2>3. Taken(Append(emitted, f), gone) = Taken(emitted, gone)
    BY <1>1, <2>2, TakenAppend
  <2>4. \A i \in 1 .. Len(emitted) : emitted[i].seq \in gone <=> emitted[i].seq \in refused
    BY <1>1 DEF Numbered
  <2> HIDE DEF gone
  <2>5. Taken(emitted, gone) = Taken(emitted, refused)
    BY <1>1, <2>4, TakenAgrees
  <2> QED
    BY <2>1, <2>3, <2>5, Zenon DEF Written
<1>4. Written' \in Seq(Made')
  BY <1>2, <1>3, SeqOfMore DEF WrittenIsMade
<1>5. Ascending(Written') /\ refused' \subseteq 1 .. seq'
  BY <1>1, <1>3 DEF WrittenIsMade
<1>6. (1 .. seq') \ refused' = (1 .. seq) \ refused
  BY <1>1
<1> QED
  BY <1>3, <1>4, <1>5, <1>6 DEF WrittenIsMade

-----------------------------------------------------------------------------
(***************************************************************************)
(* What the client shows.                                                  *)
(***************************************************************************)
LEMMA ShownIsFoldNext ==
  \A n : ShownAfter(n)' = ShownFold!FoldOf(0, Blank, SubSeq(emitted', 1, n))
BY Zenon DEF ShownAfter, ShownFold!FoldOf, ShowNext, Blank, FoldLeft, MapThenFoldSet, Max,
             ShownFold!FoldLeft, ShownFold!MapThenFoldSet, ShownFold!Max

(* One frame more shows one op more. *)
LEMMA ShownNext ==
  ASSUME emitted \in Seq(Frame), NEW n \in Nat, n < Len(emitted)
  PROVE  ShownAfter(n + 1) = Shows(ShownAfter(n), emitted[n + 1].op)
<1>1. PICK s \in Seq(Frame), f \in Frame :
        /\ s = SubSeq(emitted, 1, n) /\ f = emitted[n + 1]
        /\ SubSeq(emitted, 1, n + 1) = Append(s, f)
  <2>1. SubSeq(emitted, 1, n) \in Seq(Frame) /\ emitted[n + 1] \in Frame
    OBVIOUS
  <2>2. SubSeq(emitted, 1, n + 1) = Append(SubSeq(emitted, 1, n), emitted[n + 1])
    OBVIOUS
  <2> QED
    BY <2>1, <2>2
<1>2. ShownFold!FoldOf(0, Blank, Append(s, f)) = Shows(ShownFold!FoldOf(0, Blank, s), f.op)
  BY ShownFold!FoldAppend DEF ShowNext
<1> QED
  BY <1>1, <1>2, ShownIsFold, Zenon

(* What is emitted next changes nothing of what was shown. *)
LEMMA ShownStays ==
  ASSUME TypeOK, Numbered, NEW op, Emit(op), NEW n \in 0 .. seq
  PROVE  ShownAfter(n)' = ShownAfter(n)
<1>1. SubSeq(emitted', 1, n) = SubSeq(emitted, 1, n)
  BY DEF TypeOK, Numbered, Emit
<1> QED
  BY <1>1, ShownIsFold, ShownIsFoldNext, Zenon

(* What frames show is a screen. *)
LEMMA ShowsIsScreen ==
  ASSUME NEW shown \in Screen, NEW op \in Op
  PROVE  Shows(shown, op) \in Screen
BY DEF Shows, Screen, Op

-----------------------------------------------------------------------------
(***************************************************************************)
(* The invariant, action by action.                                        *)
(***************************************************************************)
LEMMA InitInv == Init => PanelInv
<1> SUFFICES ASSUME Init
             PROVE  PanelInv
  OBVIOUS
<1>1. <<>> \in Seq(Frame) /\ <<>> \in Seq(Made) /\ Len(<<>>) = 0
  OBVIOUS
<1>2. budget \in Budgets /\ budget \in Nat
  BY PanelAssumption DEF Init
<1>3. TypeOK
  BY <1>1, <1>2 DEF Init, TypeOK, Screen
<1>4. Numbered
  BY <1>1 DEF Init, Numbered
<1>5. Written = <<>>
  BY TakenEmpty, Zenon DEF Written, Init
<1>6. WrittenIsMade
  <2>1. Ascending(<<>>)
    BY DEF Ascending
  <2>2. refused \subseteq 1 .. seq /\ (1 .. seq) \ refused = {}
    BY DEF Init
  <2> QED
    BY <1>1, <1>5, <2>1, <2>2 DEF WrittenIsMade
<1>7. Window
  <2>1. NewestOf(<<>>, <<>>, budget)
    <3>1. SubSeq(<<>>, 0 + 1, Len(<<>>)) = <<>> /\ 0 \in 0 .. Len(<<>>) /\ ~(0 > 0)
      OBVIOUS
    <3> QED
      BY <3>1, Zenon DEF NewestOf
  <2>2. replay = <<>> /\ retained = 0
    BY DEF Init
  <2> QED
    BY <1>5, <2>1, <2>2, BytesEmpty, Zenon DEF Window
<1>8. ScreenIsHistory
  <2>1. ShownAfter(0) = Blank
    <3>1. SubSeq(emitted, 1, 0) = <<>>
      OBVIOUS
    <3> QED
      BY <3>1, ShownIsFold, ShownFold!FoldEmpty, Zenon
  <2>2. applied = 0 /\ seq = 0 /\ screen = Blank
    BY DEF Init, Blank
  <2> QED
    BY <2>1, <2>2 DEF ScreenIsHistory
<1> QED
  BY <1>1, <1>3, <1>4, <1>6, <1>7, <1>8 DEF PanelInv, Init

(* What a push keeps, whether the line is written or refused; the variables  *)
(* its caller sets are left to the caller.                                   *)
Pushed ==
  /\ emitted' \in Seq(Frame) /\ seq' \in Nat /\ refused' \subseteq Nat
  /\ replay' \in Seq(Frame) /\ retained' \in 0 .. budget
  /\ wire' \in Seq(Made') /\ wire' \in Seq(Frame)
  /\ Numbered' /\ WrittenIsMade'
  /\ retained' = Bytes(replay') /\ NewestOf(Written', replay', budget)

(* A frame the pipe takes keeps the invariant. *)
LEMMA PushWrittenKeeps ==
  ASSUME PanelInv, NEW op \in Op, PushWritten(op)
  PROVE  Pushed
<1> USE DEF PanelInv
<1> DEFINE f == NewFrame(op)
<1>1. Emit(op) /\ wire' = Append(wire, f) /\ Retain(f) /\ refused' = refused
  BY DEF PushWritten
<1>2. /\ emitted' \in Seq(Frame) /\ seq' \in Nat /\ Numbered' /\ Made \subseteq Made'
      /\ f \in Made' /\ f \in Frame
  BY <1>1, EmitNumbers
<1>3. Written' = Append(Written, f) /\ WrittenIsMade'
  BY <1>1, WrittenGrows
<1>4. Written \in Seq(Frame)
  BY TakenIsFrames DEF TypeOK, Written
<1> HIDE DEF f
<1>5. /\ NewestOf(Append(Written, f), replay', budget)
      /\ retained' = Bytes(replay') /\ retained' \in 0 .. budget
      /\ replay' \in Seq(Frame)
  <2>1. NewestOf(Written, replay, budget) /\ retained = Bytes(replay)
    BY DEF Window
  <2>2. PICK w \in Seq(Frame) : w = Written
    BY <1>4
  <2> QED
    BY <1>1, <1>2, <2>1, <2>2, RetainKeepsNewest
<1>6. wire' \in Seq(Made')
  BY <1>1, <1>2, SeqOfMore
<1>7. wire' \in Seq(Frame)
  BY <1>1, <1>2 DEF TypeOK
<1>8. refused' \subseteq Nat
  BY <1>1 DEF TypeOK
<1>9. NewestOf(Written', replay', budget)
  BY <1>3, <1>5, Zenon
<1> QED
  BY <1>2, <1>3, <1>5, <1>6, <1>7, <1>8, <1>9 DEF Pushed

(* So does a frame it refuses. *)
LEMMA PushRefusedKeeps ==
  ASSUME PanelInv, NEW op \in Op, PushRefused(op)
  PROVE  Pushed
<1> USE DEF PanelInv
<1>1. /\ Emit(op) /\ refused' = refused \cup {seq + 1}
      /\ wire' = wire /\ replay' = replay /\ retained' = retained
  BY DEF PushRefused
<1>2. /\ emitted' \in Seq(Frame) /\ seq' \in Nat /\ Numbered' /\ Made \subseteq Made'
  BY <1>1, EmitNumbers
<1>3. Written' = Written /\ WrittenIsMade'
  BY <1>1, WrittenStays
<1>4. wire' \in Seq(Made')
  BY <1>1, <1>2, SeqOfMore
<1>5. refused' \subseteq Nat /\ wire' \in Seq(Frame) /\ replay' \in Seq(Frame) /\ retained' \in 0 .. budget
  BY <1>1 DEF TypeOK
<1>6. retained' = Bytes(replay') /\ NewestOf(Written', replay', budget)
  BY <1>1, <1>3, Zenon DEF Window
<1> QED
  BY <1>2, <1>3, <1>4, <1>5, <1>6 DEF Pushed

(* A push that leaves the client and the budget alone keeps the invariant. *)
LEMMA PushKeeps ==
  ASSUME PanelInv, NEW op \in Op, PushWritten(op) \/ PushRefused(op),
         UNCHANGED <<budget, answer, request, client_vars>>,
         device' \in Screen, pending' \subseteq Entry \cup {Root}
  PROVE  PanelInv'
<1> USE DEF PanelInv
<1>1. Pushed
  BY PushWrittenKeeps, PushRefusedKeeps
<1>2. Emit(op)
  BY DEF PushWritten, PushRefused
<1>3. TypeOK'
  BY <1>1 DEF TypeOK, Pushed, client_vars
<1>4. Window'
  <2>1. budget' = budget
    OBVIOUS
  <2>2. retained' = Bytes(replay') /\ NewestOf(Written', replay', budget')
    BY <1>1, <2>1, Zenon DEF Pushed
  <2> QED
    BY <2>2, Zenon DEF Window
<1>5. ScreenIsHistory'
  <2>1. applied \in 0 .. seq /\ seq \in Nat /\ seq' = seq + 1
    BY <1>2 DEF TypeOK, ScreenIsHistory, Emit
  <2>2. ShownAfter(applied)' = ShownAfter(applied)
    <3>1. PICK n \in 0 .. seq : n = applied
      BY <2>1
    <3>2. ShownAfter(n)' = ShownAfter(n)
      BY <1>2, ShownStays
    <3> QED
      BY <3>1, <3>2, Zenon DEF ShownAfter, client_vars
  <2>3. applied' <= seq' /\ screen' = screen /\ screen = ShownAfter(applied)
    BY <2>1 DEF client_vars, ScreenIsHistory
  <2> QED
    BY <2>2, <2>3 DEF ScreenIsHistory
<1> QED
  BY <1>1, <1>3, <1>4, <1>5 DEF Pushed

(* So does a write either way. *)
LEMMA WriteKeeps ==
  ASSUME PanelInv, NEW e \in Entry, NEW v \in Value, Write(e, v)
  PROVE  PanelInv'
<1> DEFINE op == [entry |-> e, value |-> v]
<1>1. op \in Op
  BY DEF Op
<1>2. PushWritten(op) \/ PushRefused(op)
  BY Zenon DEF Write
<1>3. UNCHANGED <<budget, answer, request, client_vars>>
  BY Zenon DEF Write
<1>4. device' \in Screen
  BY DEF Write, PanelInv, TypeOK, Screen
<1>5. pending' \subseteq Entry \cup {Root}
  BY DEF Write, PanelInv, TypeOK
<1> QED
  BY <1>1, <1>2, <1>3, <1>4, <1>5, PushKeeps

(* So does emitting what changed. *)
LEMMA EmitPendingKeeps ==
  ASSUME PanelInv, NEW x \in Entry \cup {Root}, EmitPending(x)
  PROVE  PanelInv'
<1> DEFINE op == IF x = Root THEN Root ELSE [entry |-> x, value |-> device[x]]
<1>1. op \in Op
  BY DEF Op, PanelInv, TypeOK, Screen
<1>2. PushWritten(op) \/ PushRefused(op)
  BY Zenon DEF EmitPending
<1>3. UNCHANGED <<budget, answer, request, client_vars>> /\ device' = device
  BY Zenon DEF EmitPending
<1>4. pending' \subseteq Entry \cup {Root}
  BY DEF EmitPending, PanelInv, TypeOK
<1>5. device' \in Screen
  BY <1>3 DEF PanelInv, TypeOK
<1> QED
  BY <1>1, <1>2, <1>3, <1>4, <1>5, PushKeeps

(* The retained frames are made ones, and so is each that is sent again. *)
LEMMA AfterIsMade ==
  ASSUME PanelInv, NEW last
  PROVE  After(last) \in Seq(Made)
<1>1. /\ After(last) \in Seq(Frame)
      /\ \A f : Holds(After(last), f) <=> Holds(replay, f) /\ f.seq > last
  BY AfterIsNewer DEF PanelInv, TypeOK
<1>2. replay \in Seq(Made)
  <2>1. Written \in Seq(Made)
    BY DEF PanelInv, WrittenIsMade
  <2>2. PICK n \in 0 .. Len(Written) : replay = SubSeq(Written, n + 1, Len(Written))
    BY DEF PanelInv, Window, NewestOf
  <2> QED
    BY <2>1, <2>2
<1>3. ASSUME NEW i \in 1 .. Len(After(last))
      PROVE  After(last)[i] \in Made
  <2>1. Holds(replay, After(last)[i])
    BY <1>1 DEF Holds
  <2>2. PICK j \in 1 .. Len(replay) : replay[j] = After(last)[i]
    BY <2>1 DEF Holds
  <2> QED
    BY <1>2, <2>2
<1> QED
  BY <1>1, <1>3

(* What the client, the pipe and a resync touch: not the device's frames. *)
LEMMA DeviceKeeps ==
  ASSUME PanelInv, TypeOK', wire' \in Seq(Made),
         UNCHANGED <<seq, replay, retained, budget, emitted, refused>>
  PROVE  /\ Numbered' /\ WrittenIsMade' /\ Window' /\ wire' \in Seq(Made')
         /\ \A n : ShownAfter(n)' = ShownAfter(n)
<1>1. Numbered'
  BY DEF PanelInv, Numbered
<1>2. Made' = Made
  BY DEF Made
<1>3. Written' = Written
  BY Zenon DEF Written
<1>4. WrittenIsMade'
  BY <1>2, <1>3, Zenon DEF WrittenIsMade, PanelInv
<1>5. Window'
  <2>1. retained' = Bytes(replay') /\ NewestOf(Written', replay', budget')
    BY <1>3, Zenon DEF PanelInv, Window
  <2> QED
    BY <2>1, Zenon DEF Window
<1>6. \A n : ShownAfter(n)' = ShownAfter(n)
  BY ShownIsFold, ShownIsFoldNext, Zenon
<1> QED
  BY <1>1, <1>2, <1>4, <1>5, <1>6

(* So does a resync. *)
LEMMA ResyncKeeps ==
  ASSUME PanelInv, Resync
  PROVE  PanelInv'
<1> DEFINE last == request.last
<1>1. UNCHANGED <<seq, device, replay, retained, budget, client_vars, emitted, refused>>
  BY Zenon DEF Resync
<1>2. wire \in Seq(Made) /\ After(last) \in Seq(Made)
  BY AfterIsMade, Zenon DEF PanelInv
<1>3. /\ wire' \in Seq(Made) /\ pending' \subseteq Entry \cup {Root}
      /\ answer' \in {"none", "current", "replayed", "gap", "failed"}
  <2>1. pending \subseteq Entry \cup {Root}
    BY DEF PanelInv, TypeOK
  <2>2. CASE ResyncCurrent(last)
    BY <1>2, <2>1, <2>2 DEF ResyncCurrent
  <2>3. CASE ResyncReplayed(last)
    BY <1>2, <2>1, <2>3 DEF ResyncReplayed
  <2>4. CASE ResyncFailed(last)
    <3>1. PICK n \in 0 .. Len(After(last)) - 1 : wire' = wire \o SubSeq(After(last), 1, n)
      BY <2>4 DEF ResyncFailed
    <3>2. SubSeq(After(last), 1, n) \in Seq(Made)
      BY <1>2
    <3>3. wire' \in Seq(Made)
      BY <1>2, <3>1, <3>2
    <3> QED
      BY <2>1, <2>4, <3>3 DEF ResyncFailed
  <2>5. CASE ResyncGap(last)
    BY <1>2, <2>1, <2>5 DEF ResyncGap
  <2> QED
    BY <2>2, <2>3, <2>4, <2>5 DEF Resync
<1>4. wire' \in Seq(Frame)
  <2>1. Made \subseteq Frame
    BY DEF Made
  <2> QED
    BY <1>3, <2>1, SeqOfMore
<1>5. request' = NoRequest
  BY DEF Resync
<1>6. TypeOK'
  BY <1>1, <1>3, <1>4, <1>5 DEF PanelInv, TypeOK, client_vars
<1>7. /\ Numbered' /\ WrittenIsMade' /\ Window' /\ wire' \in Seq(Made')
      /\ \A n : ShownAfter(n)' = ShownAfter(n)
  BY <1>1, <1>3, <1>6, DeviceKeeps
<1>8. ScreenIsHistory'
  <2>1. applied' = applied /\ screen' = screen /\ seq' = seq
    BY <1>1 DEF client_vars
  <2>2. ShownAfter(applied)' = ShownAfter(applied)
    BY <1>1, ShownIsFold, ShownIsFoldNext, Zenon DEF ShownAfter, client_vars
  <2> QED
    BY <2>1, <2>2 DEF ScreenIsHistory, PanelInv
<1> QED
  BY <1>6, <1>7, <1>8 DEF PanelInv

(* So does a line that arrives. *)
LEMMA ReceiveKeeps ==
  ASSUME PanelInv, Receive
  PROVE  PanelInv'
<1> DEFINE f == Head(wire)
<1>1. wire' = Tail(wire) /\ UNCHANGED <<device_vars, request, emitted, refused, bounds>>
  BY Zenon DEF Receive
<1>2. wire \in Seq(Made) /\ wire # <<>> /\ wire \in Seq(Frame)
  BY DEF PanelInv, Receive, TypeOK
<1>3. wire' \in Seq(Made) /\ wire' \in Seq(Frame) /\ f \in Made
  BY <1>1, <1>2
<1>4. f \in Frame /\ f.seq \in 1 .. seq /\ f = emitted[f.seq] /\ f.op \in Op
  BY <1>3 DEF Made, Frame
<1>5. /\ seq \in Nat /\ Len(emitted) = seq /\ emitted \in Seq(Frame)
      /\ applied \in 0 .. seq /\ screen \in Screen /\ screen = ShownAfter(applied)
  BY DEF PanelInv, TypeOK, Numbered, ScreenIsHistory
<1> HIDE DEF f
<1>6. ASSUME f.seq = applied + 1 \/ (f.seq > applied /\ f.op = Root)
      PROVE  applied' \in 0 .. seq /\ screen' \in Screen /\ screen' = ShownAfter(applied')
  <2>1. applied' = f.seq /\ screen' = Shows(screen, f.op)
    BY <1>6, Zenon DEF Receive, f
  <2>2. screen' \in Screen
    BY <1>4, <1>5, <2>1, ShowsIsScreen
  <2>3. screen' = ShownAfter(f.seq)
    <3>1. PICK n \in Nat : n + 1 = f.seq /\ n < Len(emitted)
      <4>1. f.seq \in 1 .. seq /\ seq \in Nat /\ Len(emitted) = seq
        BY <1>4, <1>5
      <4>2. f.seq - 1 \in Nat /\ (f.seq - 1) + 1 = f.seq /\ f.seq - 1 < Len(emitted)
        BY <4>1
      <4> QED
        BY <4>2
    <3>2. ShownAfter(n + 1) = Shows(ShownAfter(n), emitted[n + 1].op)
      BY <1>5, <3>1, ShownNext
    <3>3. ShownAfter(f.seq) = Shows(ShownAfter(n), f.op)
      BY <1>4, <3>1, <3>2, Zenon
    <3>4. CASE f.op = Root
      BY <2>1, <3>3, <3>4, Zenon DEF Shows
    <3>5. CASE f.seq = applied + 1
      <4>1. n = applied
        BY <1>5, <3>1, <3>5
      <4> QED
        BY <1>5, <2>1, <3>3, <4>1, Zenon
    <3> QED
      BY <1>6, <3>4, <3>5
  <2> QED
    BY <1>4, <1>5, <2>1, <2>2, <2>3
<1>7. ASSUME ~(f.seq = applied + 1 \/ (f.seq > applied /\ f.op = Root))
      PROVE  applied' \in 0 .. seq /\ screen' \in Screen /\ screen' = ShownAfter(applied')
  <2>1. applied' = applied /\ screen' = screen
    BY <1>7, Zenon DEF Receive, f, client_vars
  <2> QED
    BY <1>5, <2>1
<1>8. applied' \in 0 .. seq /\ screen' \in Screen /\ screen' = ShownAfter(applied')
  BY <1>6, <1>7
<1>9. TypeOK'
  BY <1>1, <1>3, <1>5, <1>8 DEF PanelInv, TypeOK, device_vars
<1>10. UNCHANGED <<seq, replay, retained, budget, emitted, refused>>
  BY <1>1 DEF device_vars
<1>11. /\ Numbered' /\ WrittenIsMade' /\ Window' /\ wire' \in Seq(Made')
       /\ \A n : ShownAfter(n)' = ShownAfter(n)
  BY <1>3, <1>9, <1>10, DeviceKeeps
<1>12. ScreenIsHistory'
  <2>1. PICK n \in 0 .. seq : n = applied'
    BY <1>8
  <2>2. ShownAfter(n)' = ShownAfter(n)
    BY <1>11
  <2>3. screen' = ShownAfter(applied)'
    BY <1>8, <2>1, <2>2, Zenon DEF ShownAfter
  <2> QED
    BY <1>5, <1>8, <1>10, <2>3 DEF ScreenIsHistory
<1> QED
  BY <1>9, <1>11, <1>12 DEF PanelInv

(* A step of the client or the pipe that applies nothing. *)
LEMMA OutsideKeeps ==
  ASSUME PanelInv, UNCHANGED <<device_vars, client_vars, emitted, refused>>,
         wire' \in Seq(Made), request' = NoRequest \/ request'.last \in Nat
  PROVE  PanelInv'
<1>1. wire' \in Seq(Frame)
  <2>1. Made \subseteq Frame
    BY DEF Made
  <2> QED
    BY <2>1, SeqOfMore
<1>2. TypeOK'
  BY <1>1 DEF PanelInv, TypeOK, device_vars, client_vars
<1>3. UNCHANGED <<seq, replay, retained, budget, emitted, refused>>
  BY DEF device_vars
<1>4. /\ Numbered' /\ WrittenIsMade' /\ Window' /\ wire' \in Seq(Made')
      /\ \A n : ShownAfter(n)' = ShownAfter(n)
  BY <1>2, <1>3, DeviceKeeps
<1>5. ScreenIsHistory'
  <2>1. applied' = applied /\ screen' = screen /\ seq' = seq
    BY DEF client_vars, device_vars
  <2>2. ShownAfter(applied)' = ShownAfter(applied)
    BY <1>3, ShownIsFold, ShownIsFoldNext, Zenon DEF ShownAfter, client_vars
  <2> QED
    BY <2>1, <2>2 DEF ScreenIsHistory, PanelInv
<1> QED
  BY <1>2, <1>4, <1>5 DEF PanelInv

(* So does a client that asks. *)
LEMMA AskKeeps ==
  ASSUME PanelInv, Ask
  PROVE  PanelInv'
<1>1. UNCHANGED <<device_vars, wire, client_vars, emitted, refused>>
  BY Zenon DEF Ask
<1>2. request'.last = applied /\ applied \in Nat
  BY DEF Ask, PanelInv, TypeOK
<1>3. wire' \in Seq(Made)
  BY <1>1 DEF PanelInv
<1> QED
  BY <1>1, <1>2, <1>3, OutsideKeeps

(* So does a line that is lost. *)
LEMMA LoseKeeps ==
  ASSUME PanelInv, Lose
  PROVE  PanelInv'
<1>1. UNCHANGED <<device_vars, client_vars, emitted, refused>>
  BY Zenon DEF Lose
<1>2. wire \in Seq(Made) /\ (request = NoRequest \/ request.last \in Nat)
  BY DEF PanelInv, TypeOK
<1>3. wire' \in Seq(Made) /\ (request' = NoRequest \/ request'.last \in Nat)
  BY <1>2 DEF Lose
<1> QED
  BY <1>1, <1>3, OutsideKeeps

(* Every step keeps the invariant. *)
LEMMA NextKeeps == PanelInv /\ [Next]_vars => PanelInv'
<1> SUFFICES ASSUME PanelInv, [Next]_vars
             PROVE  PanelInv'
  OBVIOUS
<1>1. CASE \E e \in Entry, v \in Value : Write(e, v)
  BY <1>1, WriteKeeps
<1>2. CASE \E x \in Entry \cup {Root} : EmitPending(x)
  BY <1>2, EmitPendingKeeps
<1>3. CASE Resync
  BY <1>3, ResyncKeeps
<1>4. CASE Receive
  BY <1>4, ReceiveKeeps
<1>5. CASE Ask
  BY <1>5, AskKeeps
<1>6. CASE Lose
  BY <1>6, LoseKeeps
<1>7. CASE UNCHANGED vars
  <2>1. UNCHANGED <<device_vars, client_vars, emitted, refused>> /\ wire' = wire /\ request' = request
    BY <1>7 DEF vars
  <2>2. wire' \in Seq(Made) /\ (request' = NoRequest \/ request'.last \in Nat)
    BY <2>1 DEF PanelInv, TypeOK
  <2> QED
    BY <2>1, <2>2, OutsideKeeps
<1> QED
  BY <1>1, <1>2, <1>3, <1>4, <1>5, <1>6, <1>7, Zenon DEF Next

-----------------------------------------------------------------------------
(***************************************************************************)
(* What the device promises.                                               *)
(***************************************************************************)
THEOREM PanelInvariant == Spec => []PanelInv
BY InitInv, NextKeeps, PTL DEF Spec

(* The window push leaves is the longest run of newest frames that fits in   *)
(* the budget, of those the pipe took, and is charged what it costs.         *)
THEOREM WindowAlwaysNewest == Spec => []WindowIsNewest
<1>1. PanelInv => WindowIsNewest
  BY WindowIsNewestIsWindow DEF PanelInv
<1> QED
  BY <1>1, PanelInvariant, PTL

(* However lines are lost, refused or sent again, the client shows what the  *)
(* frames up to its own sequence show.                                       *)
THEOREM ScreenAlwaysHistory == Spec => []ScreenIsHistory
<1>1. PanelInv => ScreenIsHistory
  BY DEF PanelInv
<1> QED
  BY <1>1, PanelInvariant, PTL

(* What has been emitted is never rewritten: one frame more is one screen    *)
(* more, and the earlier ones stay.                                          *)
LEMMA EmitPublishes ==
  ASSUME PanelInv, NEW op, Emit(op), UNCHANGED client_vars
  PROVE  Promised!Publish
<1>1. seq \in Nat /\ seq' = seq + 1 /\ applied' = applied /\ screen' = screen
  BY DEF PanelInv, TypeOK, Emit, client_vars
<1>2. \A n \in 0 .. seq : ShownAfter(n)' = ShownAfter(n)
  BY ShownStays DEF PanelInv
<1> QED
  BY <1>1, <1>2 DEF Promised!Publish

(* A step that emits nothing leaves every screen of the series what it was.  *)
LEMMA SeriesStays ==
  ASSUME UNCHANGED <<seq, emitted>>
  PROVE  [n \in 0 .. seq |-> ShownAfter(n)]' = [n \in 0 .. seq |-> ShownAfter(n)]
<1>1. \A n : ShownAfter(n)' = ShownAfter(n)
  BY ShownIsFold, ShownIsFoldNext, Zenon
<1> QED
  BY <1>1

(* Every step of the panel is a step of the feed, or none.                   *)
LEMMA PanelStep == PanelInv /\ [Next]_vars => [Promised!Next]_Promised!feedVars
<1> SUFFICES ASSUME PanelInv, [Next]_vars
             PROVE  [Promised!Next]_Promised!feedVars
  OBVIOUS
<1>1. ASSUME NEW op, PushWritten(op) \/ PushRefused(op), UNCHANGED client_vars
      PROVE  Promised!Publish
  BY <1>1, EmitPublishes DEF PushWritten, PushRefused
<1>2. ASSUME UNCHANGED <<seq, emitted>>, UNCHANGED client_vars
      PROVE  UNCHANGED Promised!feedVars
  BY <1>2, SeriesStays DEF Promised!feedVars, client_vars
<1>3. ASSUME NEW e \in Entry, NEW v \in Value, Write(e, v)
      PROVE  Promised!Publish
  BY <1>1, <1>3 DEF Write
<1>4. ASSUME NEW x \in Entry \cup {Root}, EmitPending(x)
      PROVE  Promised!Publish
  BY <1>1, <1>4 DEF EmitPending
<1>5. ASSUME Resync
      PROVE  UNCHANGED Promised!feedVars
  BY <1>2, <1>5 DEF Resync
<1>6. ASSUME Receive
      PROVE  Promised!Follow \/ UNCHANGED Promised!feedVars
  <2>1. UNCHANGED <<seq, emitted>>
    BY <1>6 DEF Receive, device_vars
  <2>2. PanelInv' /\ seq \in Nat /\ applied \in Nat
    BY <1>6, ReceiveKeeps DEF PanelInv, TypeOK
  <2>3. applied' \in Nat /\ applied' <= seq
    BY <2>1, <2>2 DEF PanelInv, TypeOK, ScreenIsHistory
  <2>4. CASE UNCHANGED client_vars
    BY <1>2, <2>1, <2>4
  <2>5. CASE ~(UNCHANGED client_vars)
    <3>1. applied' = Head(wire).seq /\ (Head(wire).seq = applied + 1 \/ Head(wire).seq > applied)
      BY <1>6, <2>5, Zenon DEF Receive
    <3>2. applied' \in applied + 1 .. seq
      BY <2>2, <2>3, <3>1
    <3>3. screen' = ShownAfter(applied)'
      BY <2>2 DEF PanelInv, ScreenIsHistory
    <3>4. ShownAfter(applied)' = ShownFold!FoldOf(0, Blank, SubSeq(emitted', 1, applied'))
      BY Zenon DEF ShownAfter, ShownFold!FoldOf, ShowNext, Blank, FoldLeft, MapThenFoldSet, Max,
                   ShownFold!FoldLeft, ShownFold!MapThenFoldSet, ShownFold!Max
    <3>5. ShownAfter(applied') = ShownFold!FoldOf(0, Blank, SubSeq(emitted, 1, applied'))
      BY ShownIsFold
    <3>6. screen' = [n \in 0 .. seq |-> ShownAfter(n)][applied']
      BY <2>1, <2>2, <3>2, <3>3, <3>4, <3>5
    <3>7. UNCHANGED <<seq, [n \in 0 .. seq |-> ShownAfter(n)]>>
      BY <2>1, SeriesStays
    <3> QED
      BY <3>2, <3>6, <3>7 DEF Promised!Follow
  <2> QED
    BY <2>4, <2>5
<1>7. ASSUME Ask \/ Lose \/ UNCHANGED vars
      PROVE  UNCHANGED Promised!feedVars
  BY <1>2, <1>7 DEF Ask, Lose, vars, device_vars
<1> QED
  BY <1>3, <1>4, <1>5, <1>6, <1>7 DEF Next, Promised!Next

(* For every budget, cost of an op, loss, refusal and early request, the     *)
(* panel with its pipe and its client implements the feed.                   *)
THEOREM PanelImplementsFeed == Spec => IsFeed
<1>1. Init => Promised!Init
  <2> SUFFICES ASSUME Init
               PROVE  Promised!Init
    OBVIOUS
  <2>1. seq = 0 /\ applied = 0 /\ screen = ShownAfter(0)
    BY InitInv DEF Init, PanelInv, ScreenIsHistory
  <2>2. [n \in 0 .. seq |-> ShownAfter(n)] = [n \in 0 .. 0 |-> screen]
    BY <2>1
  <2> QED
    BY <2>1, <2>2 DEF Promised!Init
<1> QED
  BY <1>1, PanelStep, PanelInvariant, PTL DEF Spec, IsFeed, Promised!Spec

(* A frame within the window's reach is in it, unless the pipe refused it. *)
LEMMA WindowHoldsNewer ==
  ASSUME PanelInv, NEW last \in Nat, InWindow(last), NEW n \in last + 1 .. seq, n \notin refused
  PROVE  \E i \in 1 .. Len(replay) : replay[i].seq = n
<1>1. /\ Written \in Seq(Frame) /\ Len(Written) \in Nat /\ Ascending(Written) /\ seq \in Nat
      /\ \A i \in 1 .. Len(Written) : Written[i].seq \in Nat
  <2>1. \A i \in 1 .. Len(Written) : Written[i].seq \in 1 .. seq
    BY DEF PanelInv, WrittenIsMade, Made
  <2>2. Written \in Seq(Frame)
    BY TakenIsFrames DEF PanelInv, TypeOK, Written
  <2>3. Ascending(Written) /\ seq \in Nat
    BY DEF PanelInv, WrittenIsMade, TypeOK
  <2> QED
    BY <2>1, <2>2, <2>3
<1>2. PICK i \in 1 .. Len(Written) : Written[i].seq = n
  BY <1>1 DEF PanelInv, WrittenIsMade
<1>3. PICK k \in 0 .. Len(Written) : replay = SubSeq(Written, k + 1, Len(Written))
  BY DEF PanelInv, Window, NewestOf
<1>4. replay # <<>> /\ Head(replay).seq <= last + 1
  BY DEF InWindow
<1>5. Len(replay) = Len(Written) - k /\ \A j \in 1 .. Len(replay) : replay[j] = Written[k + j]
  BY <1>1, <1>3
<1>6. k + 1 \in 1 .. Len(Written) /\ Written[k + 1].seq <= last + 1
  <2>1. Len(replay) > 0
    BY <1>1, <1>3, <1>4
  <2>2. 1 \in 1 .. Len(replay) /\ Head(replay) = replay[1]
    BY <1>1, <1>3, <2>1
  <2> QED
    BY <1>1, <1>4, <1>5, <2>1, <2>2
<1>7. i > k
  <2>1. CASE i < k + 1
    <3>1. Written[i].seq < Written[k + 1].seq
      BY <1>1, <1>2, <1>6, <2>1 DEF Ascending
    <3> QED
      BY <1>1, <1>2, <1>6, <3>1
  <2> QED
    BY <1>1, <1>2, <2>1
<1>8. i - k \in 1 .. Len(replay) /\ k + (i - k) = i
  BY <1>1, <1>2, <1>5, <1>7
<1> QED
  BY <1>2, <1>5, <1>8

LossesCounted == losses \in Nat

\* The losses are a number in every reachable state.
LEMMA LossesAreCounted == Spec => []LossesCounted
<1>1. Init => LossesCounted
  BY DEF Init, LossesCounted
<1>2. LossesCounted /\ [Next]_vars => LossesCounted'
  <2> SUFFICES ASSUME losses \in Nat, [Next]_vars
               PROVE  losses' \in Nat
    BY DEF LossesCounted
  <2>1. losses' = losses \/ losses' = losses + 1
    BY Zenon DEF Next, Write, EmitPending, Resync, Receive, Ask, Lose, vars, bounds
  <2> QED
    BY <2>1
<1> QED
  BY <1>1, <1>2, PTL DEF Spec

(* A resync that answers with a replay sends every frame the client lacks    *)
(* that the pipe once took: nothing the answer covers was evicted.           *)
THEOREM ReplayAlwaysCarriesWritten == Spec => ReplayCarriesWritten
<1>1. ASSUME PanelInv, LossesCounted, [Next]_vars, Replays, NEW n \in request.last + 1 .. seq, n \notin refused
      PROVE  SentAgain(n)
  <2>1. request # NoRequest /\ request' = NoRequest /\ answer' = "replayed" /\ losses' = losses
    BY <1>1 DEF Replays
  <2>2. Resync
    <3>1. ASSUME UNCHANGED request
          PROVE  FALSE
      BY <2>1, <3>1
    <3>2. CASE \E e \in Entry, v \in Value : Write(e, v)
      BY <3>1, <3>2, Zenon DEF Write
    <3>3. CASE \E x \in Entry \cup {Root} : EmitPending(x)
      BY <3>1, <3>3, Zenon DEF EmitPending
    <3>4. CASE Receive
      BY <3>1, <3>4, Zenon DEF Receive
    <3>5. CASE Ask
      BY <2>1, <3>5, Zenon DEF Ask
    <3>6. CASE Lose
      BY <1>1, <2>1, <3>6 DEF Lose, LossesCounted
    <3>7. CASE UNCHANGED vars
      BY <3>1, <3>7 DEF vars
    <3> QED
      BY <1>1, <3>2, <3>3, <3>4, <3>5, <3>6, <3>7, Zenon DEF Next
  <2>3. ResyncReplayed(request.last)
    BY <2>1, <2>2 DEF Resync, ResyncCurrent, ResyncFailed, ResyncGap
  <2>4. request.last \in Nat
    BY <1>1, <2>1 DEF PanelInv, TypeOK
  <2>5. PICK i \in 1 .. Len(replay) : replay[i].seq = n
    BY <1>1, <2>3, <2>4, WindowHoldsNewer DEF ResyncReplayed
  <2>6. n > request.last
    BY <1>1, <2>4
  <2>7. Holds(After(request.last), replay[i])
    <3>1. Holds(replay, replay[i])
      BY <2>5 DEF Holds
    <3> QED
      BY <1>1, <2>5, <2>6, <3>1, AfterIsNewer DEF PanelInv, TypeOK
  <2>8. PICK j \in 1 .. Len(After(request.last)) : After(request.last)[j] = replay[i]
    BY <2>7 DEF Holds
  <2>9. wire \in Seq(Made) /\ After(request.last) \in Seq(Made) /\ wire' = wire \o After(request.last)
    BY <1>1, <2>3, AfterIsMade DEF PanelInv, ResyncReplayed
  <2>10. Len(wire) + j \in 1 .. Len(wire') /\ wire'[Len(wire) + j] = After(request.last)[j]
    BY <2>8, <2>9
  <2> QED
    BY <2>5, <2>8, <2>10 DEF SentAgain
<1>2. PanelInv /\ LossesCounted /\ [Next]_vars
        => [Replays => \A n \in request.last + 1 .. seq : n \in refused \/ SentAgain(n)]_vars
  BY <1>1
<1> QED
  BY <1>2, PanelInvariant, LossesAreCounted, PTL DEF Spec, ReplayCarriesWritten
=============================================================================
