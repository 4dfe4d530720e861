------------------------- MODULE ConnectionProofs --------------------------
(***************************************************************************)
(* FeedInv is inductive for every tree, op and handler and for every       *)
(* buffer capacity: the retained window always replays to the server's     *)
(* tree, and what is in flight always carries the client to the newest     *)
(* frame without a gap.  Nothing is assumed of Apply there: that a frame   *)
(* is what took the server from one tree to the next is all it uses.       *)
(***************************************************************************)
EXTENDS Connection, TLAPS

(* The retained frames, one by one. *)
LEMMA RetainedFrame ==
  ASSUME seq \in Nat, buffer \in Seq(Frame), BufferReplays, NEW i \in 1 .. Len(buffer)
  PROVE  /\ Len(buffer) \in Nat /\ Len(buffer) <= seq
         /\ buffer[i].seq = seq - Len(buffer) + i
         /\ IsFrameOf(buffer[i])
<1>1. Len(buffer) \in Nat /\ Len(buffer) <= seq
  BY ConnectionAssumption DEF BufferReplays
<1>2. buffer[i].seq = seq - Len(buffer) + i /\ IsFrameOf(buffer[i])
  BY DEF BufferReplays
<1> QED BY <1>1, <1>2

(* The frames a replay sends: from the first newer than last to the newest.  *)
LEMMA NewerThanIsSuffix ==
  ASSUME NEW last \in Nat, seq \in Nat, buffer \in Seq(Frame), BufferReplays
  PROVE  \/ NewerThan(last) = <<>> /\ (last >= seq \/ buffer = <<>>)
         \/ \E k \in 1 .. Len(buffer) :
              /\ NewerThan(last) = SubSeq(buffer, k, Len(buffer))
              /\ last < seq
              /\ buffer[k].seq > last
              /\ k = 1 \/ buffer[k].seq = last + 1
<1> DEFINE kept == {i \in 1 .. Len(buffer) : buffer[i].seq > last}
           first == CHOOSE i \in kept : \A j \in kept : i <= j
           oldest == seq - Len(buffer) + 1
           k0 == IF last < oldest THEN 1 ELSE last - oldest + 2
<1>1. /\ Len(buffer) \in Nat /\ oldest \in Int /\ oldest >= 1
      /\ \A i \in 1 .. Len(buffer) : buffer[i].seq = oldest - 1 + i
  <2>1. /\ Len(buffer) \in Nat
        /\ Len(buffer) = (IF seq < BufferCap THEN seq ELSE BufferCap)
        /\ \A i \in 1 .. Len(buffer) : buffer[i].seq = seq - Len(buffer) + i
    BY SMTT(30) DEF BufferReplays
  <2>2. BufferCap \in Nat
    BY ConnectionAssumption
  <2>3. Len(buffer) <= seq
    BY <2>1, <2>2
  <2> QED BY <2>1, <2>3
<1>2. CASE last >= seq \/ Len(buffer) = 0
  <2>1. kept = {}
    BY <1>1, <1>2
  <2>2. Len(buffer) = 0 => buffer = <<>>
    OBVIOUS
  <2> QED BY <1>2, <2>1, <2>2 DEF NewerThan
<1>3. CASE last < seq /\ Len(buffer) # 0
  <2>1. k0 \in 1 .. Len(buffer)
    BY <1>1, <1>3
  <2>2. buffer[k0].seq > last /\ (k0 = 1 \/ buffer[k0].seq = last + 1)
    BY <1>1, <1>3, <2>1
  <2>3. k0 \in kept /\ \A j \in kept : k0 <= j
    BY <1>1, <1>3, <2>1, <2>2
  <2>4. first \in kept /\ \A j \in kept : first <= j
    <3> HIDE DEF kept, k0
    <3> QED BY <2>3
  <2>5. first = k0
    <3> HIDE DEF first, k0
    <3> QED BY <2>1, <2>3, <2>4, <1>1
  <2>6. kept # {}
    BY <2>3
  <2>7. NewerThan(last) = SubSeq(buffer, first, Len(buffer))
    BY <2>6 DEF NewerThan
  <2> HIDE DEF first, k0, kept
  <2> QED BY <1>3, <2>1, <2>2, <2>5, <2>7
<1> QED BY <1>1, <1>2, <1>3

(* The frames of a replay are frames of the history, each preceded by the    *)
(* one before it, the last of them the newest.                               *)
LEMMA ReplayIsHistory ==
  ASSUME NEW last \in Nat, seq \in Nat, buffer \in Seq(Frame), BufferReplays
  PROVE  LET w == NewerThan(last)
         IN  /\ w \in Seq(Frame)
             /\ \A i \in 1 .. Len(w) :
                  /\ IsFrameOf(w[i])
                  /\ i > 1 => w[i].seq = w[i - 1].seq + 1
             /\ w = <<>> => last >= seq \/ buffer = <<>>
             /\ w # <<>> => /\ w[Len(w)].seq = seq
                            /\ w[1].seq > last
                            /\ w[1].seq = buffer[1].seq \/ w[1].seq = last + 1
<1>1. CASE NewerThan(last) = <<>> /\ (last >= seq \/ buffer = <<>>)
  BY <1>1
<1>2. CASE \E k \in 1 .. Len(buffer) :
             /\ NewerThan(last) = SubSeq(buffer, k, Len(buffer))
             /\ last < seq
             /\ buffer[k].seq > last
             /\ k = 1 \/ buffer[k].seq = last + 1
  <2>1. PICK k \in 1 .. Len(buffer) :
             /\ NewerThan(last) = SubSeq(buffer, k, Len(buffer))
             /\ last < seq
             /\ buffer[k].seq > last
             /\ k = 1 \/ buffer[k].seq = last + 1
    BY <1>2
  <2> DEFINE w == SubSeq(buffer, k, Len(buffer))
  <2>2. /\ w \in Seq(Frame) /\ Len(w) = Len(buffer) - k + 1
        /\ \A i \in 1 .. Len(w) : w[i] = buffer[k + i - 1]
    OBVIOUS
  <2>3. Len(buffer) \in Nat /\ Len(buffer) <= seq
    BY ConnectionAssumption DEF BufferReplays
  <2>4. ASSUME NEW i \in 1 .. Len(w)
        PROVE  /\ w[i].seq = seq - Len(buffer) + (k + i - 1)
               /\ IsFrameOf(w[i])
    <3>1. k + i - 1 \in 1 .. Len(buffer)
      BY <2>2, <2>3
    <3>2. w[i] = buffer[k + i - 1]
      BY <2>2
    <3> QED BY <3>1, <3>2, RetainedFrame
  <2>5. w # <<>> /\ 1 \in 1 .. Len(w) /\ Len(w) \in 1 .. Len(w) /\ Len(w) \in Nat
    <3>1. Len(w) \in Nat \ {0}
      BY <2>2, <2>3
    <3> HIDE DEF w
    <3> QED BY <2>2, <3>1
  <2>6. \A i \in 1 .. Len(w) : i > 1 => w[i].seq = w[i - 1].seq + 1
    <3> SUFFICES ASSUME NEW i \in 1 .. Len(w), i > 1
                 PROVE  w[i].seq = w[i - 1].seq + 1
      OBVIOUS
    <3>1. i - 1 \in 1 .. Len(w)
      BY <2>5
    <3> HIDE DEF w
    <3> QED BY <3>1, <2>3, <2>4, <2>5
  <2>7. w[Len(w)].seq = seq
    <3> HIDE DEF w
    <3> QED BY <2>2, <2>3, <2>4, <2>5
  <2>8. w[1] = buffer[k]
    BY <2>2, <2>5
  <2>9. w[1].seq > last /\ (w[1].seq = buffer[1].seq \/ w[1].seq = last + 1)
    BY <2>1, <2>8
  <2> HIDE DEF w
  <2>10. NewerThan(last) = w
    BY <2>1 DEF w
  <2> QED BY <2>2, <2>4, <2>5, <2>6, <2>7, <2>9, <2>10
<1> QED BY <1>1, <1>2, NewerThanIsSuffix

(* The invariant of the feed holds at the start. *)
LEMMA FeedInit == Init => FeedInv
<1> SUFFICES ASSUME Init PROVE FeedInv
  OBVIOUS
<1>1. /\ seq = 0 /\ applied = 0 /\ behind = FALSE /\ buffer = <<>> /\ wire = <<>>
      /\ tree = Seed /\ view = Seed /\ history[0] = Seed
  BY DEF Init
<1>2. Len(buffer) = 0 /\ Len(wire) = 0 /\ buffer \in Seq(Frame) /\ wire \in Seq(Frame)
  BY <1>1
<1>3. BufferReplays
  BY <1>1, <1>2, ConnectionAssumption DEF BufferReplays
<1>4. WireReaches
  BY <1>1, <1>2 DEF WireReaches
<1>5. \A i \in 1 .. Len(wire) : IsFrameOf(wire[i])
  BY <1>2
<1>6. view = history[applied]
  BY <1>1
<1>7. seq \in Nat /\ applied \in Nat /\ applied <= seq
  BY <1>1
<1>8. behind \in BOOLEAN
  BY DEF Init
<1> QED BY <1>2, <1>3, <1>4, <1>5, <1>6, <1>7, <1>8 DEF FeedInv

(* A step that leaves the feed alone. *)
LEMMA FeedKept ==
  ASSUME FeedInv, UNCHANGED <<tree, seq, buffer, link, wire, applied, view, history, behind>>
  PROVE  FeedInv'
BY DEF FeedInv, BufferReplays, IsFrameOf, WireReaches

(* A step of the server keeps it. *)
LEMMA FeedHandle ==
  ASSUME FeedInv, NEW n \in Node, NEW e \in Event, NEW ops \in Answers,
         ops # Denied, HandleFrame(n, e, ops)
  PROVE  FeedInv'
<1> DEFINE frame == [seq |-> seq + 1, ops |-> ops]
           old == IF Len(buffer) >= BufferCap /\ buffer # <<>> THEN Tail(buffer) ELSE buffer
<1>1. /\ seq \in Nat /\ applied \in Nat /\ applied <= seq /\ behind \in BOOLEAN
      /\ buffer \in Seq(Frame) /\ wire \in Seq(Frame)
      /\ Len(buffer) = (IF seq < BufferCap THEN seq ELSE BufferCap)
      /\ BufferCap \in Nat \ {0}
      /\ Len(wire) \in Nat
  BY ConnectionAssumption DEF FeedInv, BufferReplays
<1>2. /\ frame \in Frame /\ frame.seq = seq + 1 /\ frame.ops = ops
  BY <1>1, ConnectionAssumption DEF Frame
<1>3. /\ seq' = seq + 1 /\ tree' = ApplyAll(tree, ops)
      /\ history' = [k \in 0 .. seq + 1 |-> IF k <= seq THEN history[k] ELSE tree']
      /\ buffer' = Append(old, frame)
      /\ wire' = IF link = "up" THEN Append(wire, frame) ELSE wire
      /\ UNCHANGED <<link, applied, view, behind>>
  BY DEF HandleFrame, BufferFrame, PushBounded
<1>4. /\ \A k \in 0 .. seq : history'[k] = history[k]
      /\ history'[seq + 1] = tree' /\ tree = history[seq]
  BY <1>1, <1>3 DEF FeedInv, BufferReplays
<1>5. /\ old \in Seq(Frame) /\ Len(old) \in Nat
      /\ Len(old) + 1 = (IF seq + 1 < BufferCap THEN seq + 1 ELSE BufferCap)
      /\ \A i \in 1 .. Len(old) : /\ Len(buffer) - Len(old) + i \in 1 .. Len(buffer)
                                  /\ old[i] = buffer[Len(buffer) - Len(old) + i]
  <2>1. CASE Len(buffer) >= BufferCap /\ buffer # <<>>
    <3>1. Tail(buffer) \in Seq(Frame) /\ Len(Tail(buffer)) = Len(buffer) - 1
          /\ \A i \in 1 .. Len(Tail(buffer)) : Tail(buffer)[i] = buffer[i + 1]
      BY <1>1, <2>1
    <3>2. old = Tail(buffer) /\ Len(buffer) = BufferCap /\ seq >= BufferCap
      BY <1>1, <2>1
    <3> HIDE DEF old
    <3>3. Len(buffer) - Len(old) = 1
      BY <1>1, <3>1, <3>2
    <3> QED BY <1>1, <3>1, <3>2, <3>3
  <2>2. CASE ~(Len(buffer) >= BufferCap /\ buffer # <<>>)
    <3>1. old = buffer
      BY <2>2
    <3>2. buffer = <<>> => Len(buffer) = 0
      OBVIOUS
    <3>3. Len(buffer) = seq /\ seq < BufferCap
      BY <1>1, <2>2, <3>2
    <3> HIDE DEF old
    <3> QED BY <1>1, <3>1, <3>3
  <2> QED BY <2>1, <2>2
<1> HIDE DEF frame, old
<1>6. /\ buffer' \in Seq(Frame) /\ Len(buffer') = Len(old) + 1
      /\ \A i \in 1 .. Len(old) : buffer'[i] = old[i]
      /\ buffer'[Len(old) + 1] = frame
  BY <1>2, <1>3, <1>5
<1> DEFINE IsStep(f) == /\ f.seq \in 1 .. seq'
                        /\ history'[f.seq] = ApplyAll(history'[f.seq - 1], f.ops)
<1>9. ASSUME NEW f, IsFrameOf(f)
      PROVE  IsStep(f)
  <2>1. f.seq \in 1 .. seq /\ history[f.seq] = ApplyAll(history[f.seq - 1], f.ops)
    BY <1>9 DEF IsFrameOf
  <2>2. history'[f.seq] = history[f.seq] /\ history'[f.seq - 1] = history[f.seq - 1]
    BY <1>1, <1>4, <2>1
  <2> QED BY <1>1, <1>3, <2>1, <2>2
<1>10. IsStep(frame)
  <2>1. frame.seq - 1 = seq /\ history'[seq] = tree
    BY <1>1, <1>2, <1>4
  <2> QED BY <1>1, <1>2, <1>3, <1>4, <2>1
<1>7. BufferReplays'
  <2>1. tree' = history'[seq']
    BY <1>3, <1>4
  <2>2. Len(buffer') = (IF seq' < BufferCap THEN seq' ELSE BufferCap)
    BY <1>3, <1>5, <1>6
  <2>3. ASSUME NEW i \in 1 .. Len(buffer')
        PROVE  /\ buffer'[i].seq = seq' - Len(buffer') + i
               /\ IsStep(buffer'[i])
    <3>1. CASE i = Len(old) + 1
      BY <1>1, <1>2, <1>3, <1>5, <1>6, <1>10, <3>1
    <3>2. CASE i # Len(old) + 1
      <4> DEFINE j == Len(buffer) - Len(old) + i
      <4>1. i \in 1 .. Len(old)
        BY <1>5, <1>6, <3>2
      <4>2. j \in 1 .. Len(buffer) /\ buffer'[i] = buffer[j]
        BY <1>5, <1>6, <4>1
      <4>3. buffer[j].seq = seq - Len(buffer) + j /\ IsStep(buffer[j])
        BY <1>9, <4>2 DEF FeedInv, BufferReplays
      <4> QED BY <1>1, <1>3, <1>5, <1>6, <4>1, <4>2, <4>3
    <3> QED BY <3>1, <3>2
  <2> QED BY <2>1, <2>2, <2>3 DEF BufferReplays, IsFrameOf
<1>8. wire' \in Seq(Frame)
  BY <1>1, <1>2, <1>3
<1>11. (\A i \in 1 .. Len(wire) : IsFrameOf(wire[i]))'
  <2> SUFFICES ASSUME NEW i \in 1 .. Len(wire')
               PROVE  IsStep(wire'[i])
    BY DEF IsFrameOf
  <2>1. wire'[i] = frame \/ (i \in 1 .. Len(wire) /\ wire'[i] = wire[i])
    BY <1>1, <1>3
  <2>2. CASE wire'[i] = frame
    BY <1>10, <2>2
  <2>3. CASE i \in 1 .. Len(wire) /\ wire'[i] = wire[i]
    <3>1. IsFrameOf(wire[i])
      BY <2>3 DEF FeedInv
    <3> QED BY <1>9, <2>3, <3>1
  <2> QED BY <2>1, <2>2, <2>3
<1>12. ~behind' => view' = history'[applied']
  <2>1. applied \in 0 .. seq
    BY <1>1
  <2>2. ~behind => view = history[applied]
    BY DEF FeedInv
  <2> QED BY <1>3, <1>4, <2>1, <2>2
<1>13. ASSUME ~behind', link' = "up"
       PROVE  WireReaches'
  <2>1. WireReaches /\ wire' = Append(wire, frame)
    BY <1>3, <1>13 DEF FeedInv
  <2>2. /\ Len(wire') = Len(wire) + 1 /\ wire'[Len(wire) + 1] = frame
        /\ \A i \in 1 .. Len(wire) : wire'[i] = wire[i]
    BY <1>1, <1>2, <2>1
  <2>3. \A i \in 1 .. Len(wire) :
          \/ wire'[i].seq <= applied' + 1
          \/ \E j \in 1 .. i - 1 : wire'[i].seq <= wire'[j].seq + 1
    <3> SUFFICES ASSUME NEW i \in 1 .. Len(wire)
                 PROVE  \/ wire'[i].seq <= applied' + 1
                        \/ \E j \in 1 .. i - 1 : wire'[i].seq <= wire'[j].seq + 1
      OBVIOUS
    <3>1. \A j \in 1 .. i - 1 : j \in 1 .. Len(wire)
      BY <1>1
    <3> QED BY <1>3, <2>1, <2>2, <3>1 DEF WireReaches
  <2>4. \/ frame.seq <= applied' + 1
        \/ \E j \in 1 .. Len(wire) : frame.seq <= wire'[j].seq + 1
    <3>1. CASE applied = seq
      BY <1>1, <1>2, <1>3, <3>1
    <3>2. CASE \E i \in 1 .. Len(wire) : wire[i].seq = seq
      BY <1>1, <1>2, <2>2, <3>2
    <3> QED BY <2>1, <3>1, <3>2 DEF WireReaches
  <2>5. wire'[Len(wire')].seq = seq' /\ Len(wire') \in 1 .. Len(wire')
    BY <1>1, <1>2, <1>3, <2>2
  <2>6. ASSUME NEW i \in 1 .. Len(wire')
        PROVE  \/ wire'[i].seq <= applied' + 1
               \/ \E j \in 1 .. i - 1 : wire'[i].seq <= wire'[j].seq + 1
    <3>1. CASE i = Len(wire) + 1
      BY <1>1, <2>2, <2>4, <3>1
    <3>2. CASE i # Len(wire) + 1
      BY <1>1, <2>2, <2>3, <3>2
    <3> QED BY <3>1, <3>2
  <2> QED BY <2>5, <2>6 DEF WireReaches
<1> HIDE DEF IsStep
<1>14. behind' \in BOOLEAN
  BY <1>1, <1>3
<1>15. seq' \in Nat /\ applied' \in Nat /\ applied' <= seq'
  BY <1>1, <1>3
<1> QED BY <1>6, <1>7, <1>8, <1>11, <1>12, <1>13, <1>14, <1>15 DEF FeedInv

(* So does a reconnection with its resync. *)
LEMMA FeedReconnect ==
  ASSUME FeedInv, Reconnect
  PROVE  FeedInv'
<1> DEFINE w == NewerThan(applied)
<1>1. /\ seq \in Nat /\ applied \in Nat /\ applied <= seq
      /\ buffer \in Seq(Frame) /\ BufferReplays /\ behind \in BOOLEAN
  BY DEF FeedInv
<1>2. /\ w \in Seq(Frame)
      /\ \A i \in 1 .. Len(w) : IsFrameOf(w[i]) /\ (i > 1 => w[i].seq = w[i - 1].seq + 1)
      /\ w = <<>> => applied >= seq \/ buffer = <<>>
      /\ w # <<>> => /\ w[Len(w)].seq = seq /\ w[1].seq > applied
                     /\ w[1].seq = buffer[1].seq \/ w[1].seq = applied + 1
  BY <1>1, ReplayIsHistory
<1>3. /\ wire' = w /\ behind' = (behind \/ ~InWindow(applied))
      /\ UNCHANGED <<tree, seq, buffer, history, applied, view>>
  BY DEF Reconnect, serverVars, clientVars
<1> HIDE DEF w
<1>4. BufferReplays'
  BY <1>1, <1>3 DEF BufferReplays, IsFrameOf
<1>5. (\A i \in 1 .. Len(wire) : IsFrameOf(wire[i]))'
  BY <1>2, <1>3 DEF IsFrameOf
<1>6. ~behind' => view' = history'[applied']
  BY <1>3 DEF FeedInv
<1>7. ASSUME ~behind'
      PROVE  WireReaches'
  <2>1. InWindow(applied)
    BY <1>3, <1>7
  <2>2. buffer # <<>> => buffer[1].seq <= buffer[Len(buffer)].seq
    BY <1>1, ConnectionAssumption DEF BufferReplays
  <2>3. \A i \in 1 .. Len(buffer) : buffer[1].seq <= buffer[i].seq
    BY <1>1, ConnectionAssumption DEF BufferReplays
  <2>4. CASE w = <<>>
    <3>1. applied >= seq
      BY <1>2, <2>1, <2>4 DEF InWindow
    <3> QED BY <1>1, <1>3, <2>4, <3>1 DEF WireReaches
  <2>5. CASE w # <<>>
    <3>1. Len(w) \in Nat \ {0} /\ w[Len(w)].seq = seq
      BY <1>2, <2>5
    <3>2. \A i \in 1 .. Len(w) : w[i].seq \in Nat /\ w[i].seq <= seq
      BY <1>1, <1>2 DEF IsFrameOf
    <3>3. w[1].seq <= applied + 1
      <4>1. applied < seq
        BY <1>1, <1>2, <2>5, <3>1, <3>2
      <4>2. PICK i \in 1 .. Len(buffer) : buffer[i].seq = applied + 1
        BY <1>1, <2>1, <4>1 DEF InWindow
      <4>3. CASE w[1].seq = buffer[1].seq
        BY <2>3, <4>2, <4>3
      <4>4. CASE w[1].seq = applied + 1
        BY <1>1, <4>4
      <4> QED BY <1>2, <2>5, <4>3, <4>4
    <3>4. ASSUME NEW i \in 1 .. Len(w)
          PROVE  w[i].seq <= applied + 1 \/ \E j \in 1 .. i - 1 : w[i].seq <= w[j].seq + 1
      <4>1. CASE i = 1
        BY <3>3, <4>1
      <4>2. CASE i > 1
        <5>1. i - 1 \in 1 .. i - 1 /\ i - 1 \in 1 .. Len(w) /\ w[i].seq = w[i - 1].seq + 1
          BY <1>2, <3>1, <4>2
        <5> QED BY <3>2, <5>1
      <4> QED BY <3>1, <4>1, <4>2
    <3> QED BY <1>3, <3>1, <3>4 DEF WireReaches
  <2> QED BY <2>4, <2>5
<1>8. behind' \in BOOLEAN
  BY <1>1, <1>3 DEF InWindow
<1> QED BY <1>1, <1>2, <1>3, <1>4, <1>5, <1>6, <1>7, <1>8 DEF FeedInv

(* So does a resync asked again. *)
LEMMA FeedResync ==
  ASSUME FeedInv, NEW last \in 0 .. applied, ResyncAgain(last)
  PROVE  FeedInv'
<1> DEFINE w == NewerThan(last)
<1>1. /\ seq \in Nat /\ applied \in Nat /\ applied <= seq /\ last \in Nat
      /\ buffer \in Seq(Frame) /\ wire \in Seq(Frame) /\ BufferReplays /\ behind \in BOOLEAN
      /\ Len(wire) \in Nat
  BY DEF FeedInv
<1>2. /\ w \in Seq(Frame)
      /\ \A i \in 1 .. Len(w) : IsFrameOf(w[i]) /\ (i > 1 => w[i].seq = w[i - 1].seq + 1)
      /\ w = <<>> => last >= seq \/ buffer = <<>>
      /\ w # <<>> => w[Len(w)].seq = seq
  BY <1>1, ReplayIsHistory
<1>3. /\ wire' = wire \o w /\ link = "up"
      /\ UNCHANGED <<tree, seq, buffer, history, link, applied, view, behind>>
  BY DEF ResyncAgain, serverVars, clientVars
<1> HIDE DEF w
<1>4. /\ wire' \in Seq(Frame) /\ Len(w) \in Nat /\ Len(wire') = Len(wire) + Len(w)
      /\ \A i \in 1 .. Len(wire) : wire'[i] = wire[i]
      /\ \A i \in 1 .. Len(w) : wire'[Len(wire) + i] = w[i]
  BY <1>1, <1>2, <1>3
<1>5. BufferReplays'
  BY <1>1, <1>3 DEF BufferReplays, IsFrameOf
<1>6. \A i \in 1 .. Len(wire') : \/ i \in 1 .. Len(wire)
                                 \/ i - Len(wire) \in 1 .. Len(w) /\ wire'[i] = w[i - Len(wire)]
  <2> SUFFICES ASSUME NEW i \in 1 .. Len(wire'), i \notin 1 .. Len(wire)
               PROVE  i - Len(wire) \in 1 .. Len(w) /\ wire'[i] = w[i - Len(wire)]
    OBVIOUS
  <2>1. i - Len(wire) \in 1 .. Len(w) /\ Len(wire) + (i - Len(wire)) = i
    BY <1>1, <1>4
  <2> QED BY <1>4, <2>1
<1>7. \A i \in 1 .. Len(wire') : IsFrameOf(wire'[i])
  BY <1>2, <1>4, <1>6 DEF FeedInv
<1>8. (\A i \in 1 .. Len(wire) : IsFrameOf(wire[i]))'
  BY <1>3, <1>7 DEF IsFrameOf
<1>9. ~behind' => view' = history'[applied']
  BY <1>3 DEF FeedInv
<1>10. ASSUME ~behind', link' = "up"
       PROVE  WireReaches'
  <2>1. WireReaches
    BY <1>3, <1>10 DEF FeedInv
  <2>2. applied = seq \/ \E i \in 1 .. Len(wire') : wire'[i].seq = seq
    BY <1>1, <1>4, <2>1 DEF WireReaches
  <2>3. ASSUME NEW i \in 1 .. Len(wire')
        PROVE  \/ wire'[i].seq <= applied + 1
               \/ \E j \in 1 .. i - 1 : wire'[i].seq <= wire'[j].seq + 1
    <3>1. CASE i \in 1 .. Len(wire)
      <4>1. \A j \in 1 .. i - 1 : j \in 1 .. Len(wire)
        BY <1>1, <3>1
      <4> QED BY <1>4, <2>1, <3>1, <4>1 DEF WireReaches
    <3>2. CASE i \notin 1 .. Len(wire)
      <4>1. wire'[i].seq \in 1 .. seq
        BY <1>7 DEF IsFrameOf
      <4>2. CASE applied = seq
        BY <1>1, <4>1, <4>2
      <4>3. CASE \E j \in 1 .. Len(wire) : wire[j].seq = seq
        <5>1. PICK j \in 1 .. Len(wire) : wire[j].seq = seq
          BY <4>3
        <5>2. j \in 1 .. i - 1 /\ wire'[j].seq = seq
          BY <1>1, <1>4, <3>2, <5>1
        <5> QED BY <1>1, <4>1, <5>2
      <4> QED BY <2>1, <4>2, <4>3 DEF WireReaches
    <3> QED BY <3>1, <3>2
  <2> QED BY <1>3, <2>2, <2>3 DEF WireReaches
<1> QED BY <1>1, <1>3, <1>4, <1>5, <1>8, <1>9, <1>10 DEF FeedInv

(* So does a frame that arrives. *)
LEMMA FeedDeliver ==
  ASSUME FeedInv, Deliver
  PROVE  FeedInv'
<1> DEFINE f == Head(wire)
<1>1. /\ seq \in Nat /\ applied \in Nat /\ applied <= seq /\ behind \in BOOLEAN
      /\ buffer \in Seq(Frame) /\ wire \in Seq(Frame) /\ BufferReplays
      /\ Len(wire) \in Nat
  BY DEF FeedInv
<1>2. /\ link = "up" /\ wire # <<>> /\ wire' = Tail(wire)
      /\ IF f.seq > applied
         THEN applied' = f.seq /\ view' = ApplyAll(view, f.ops)
         ELSE applied' = applied /\ view' = view
      /\ UNCHANGED <<tree, seq, buffer, history, link, behind>>
  BY DEF Deliver, serverVars, clientVars
<1>3. f = wire[1] /\ 1 \in 1 .. Len(wire) /\ IsFrameOf(f)
  BY <1>1, <1>2 DEF FeedInv
<1>4. f.seq \in 1 .. seq /\ history[f.seq] = ApplyAll(history[f.seq - 1], f.ops)
  BY <1>3 DEF IsFrameOf
<1> HIDE DEF f
<1>5. /\ wire' \in Seq(Frame) /\ Len(wire') = Len(wire) - 1
      /\ \A i \in 1 .. Len(wire') : wire'[i] = wire[i + 1] /\ i + 1 \in 1 .. Len(wire)
  BY <1>1, <1>2
<1>6. applied' \in Nat /\ applied' <= seq /\ applied <= applied' /\ f.seq <= applied'
  BY <1>1, <1>2, <1>4
<1>7. BufferReplays'
  BY <1>1, <1>2 DEF BufferReplays, IsFrameOf
<1>8. \A i \in 1 .. Len(wire') : IsFrameOf(wire'[i])
  BY <1>5 DEF FeedInv
<1>9. (\A i \in 1 .. Len(wire) : IsFrameOf(wire[i]))'
  BY <1>2, <1>8 DEF IsFrameOf
<1>10. ASSUME ~behind'
       PROVE  view' = history'[applied'] /\ WireReaches'
  <2>1. WireReaches /\ view = history[applied]
    BY <1>2, <1>10 DEF FeedInv
  <2>2. f.seq <= applied + 1
    BY <1>3, <2>1 DEF WireReaches
  <2>3. view' = history'[applied']
    <3>1. CASE f.seq > applied
      <4>1. f.seq - 1 = applied
        BY <1>1, <1>4, <2>2, <3>1
      <4> QED BY <1>2, <1>4, <2>1, <3>1, <4>1
    <3>2. CASE ~(f.seq > applied)
      BY <1>2, <2>1, <3>2
    <3> QED BY <3>1, <3>2
  <2>4. ASSUME NEW i \in 1 .. Len(wire')
        PROVE  \/ wire'[i].seq <= applied' + 1
               \/ \E j \in 1 .. i - 1 : wire'[i].seq <= wire'[j].seq + 1
    <3>1. wire'[i].seq \in Nat /\ wire'[i] = wire[i + 1] /\ i + 1 \in 1 .. Len(wire)
      BY <1>5, <1>8 DEF IsFrameOf
    <3>2. CASE wire[i + 1].seq <= applied + 1
      BY <1>1, <1>6, <3>1, <3>2
    <3>3. CASE \E j \in 1 .. i : wire[i + 1].seq <= wire[j].seq + 1
      <4>1. PICK j \in 1 .. i : wire[i + 1].seq <= wire[j].seq + 1
        BY <3>3
      <4>2. CASE j = 1
        BY <1>3, <1>4, <1>6, <3>1, <4>1, <4>2
      <4>3. CASE j # 1
        <5>1. j - 1 \in 1 .. i - 1 /\ j - 1 \in 1 .. Len(wire') /\ (j - 1) + 1 = j
          BY <1>5, <4>1, <4>3
        <5>2. wire'[j - 1] = wire[j]
          BY <1>5, <5>1
        <5> QED BY <3>1, <4>1, <5>1, <5>2
      <4> QED BY <4>2, <4>3
    <3>4. i + 1 - 1 = i
      OBVIOUS
    <3>5. \/ wire[i + 1].seq <= applied + 1
          \/ \E j \in 1 .. i + 1 - 1 : wire[i + 1].seq <= wire[j].seq + 1
      BY <2>1, <3>1 DEF WireReaches
    <3> QED BY <3>2, <3>3, <3>4, <3>5
  <2>5. applied' = seq' \/ \E i \in 1 .. Len(wire') : wire'[i].seq = seq'
    <3>1. CASE applied = seq
      BY <1>1, <1>2, <1>6, <3>1
    <3>2. CASE \E i \in 1 .. Len(wire) : wire[i].seq = seq
      <4>1. PICK i \in 1 .. Len(wire) : wire[i].seq = seq
        BY <3>2
      <4>2. CASE i = 1
        BY <1>1, <1>2, <1>3, <1>6, <4>1, <4>2
      <4>3. CASE i # 1
        <5>1. i - 1 \in 1 .. Len(wire') /\ (i - 1) + 1 = i
          BY <1>5, <4>1, <4>3
        <5>2. wire'[i - 1] = wire[i]
          BY <1>5, <5>1
        <5> QED BY <1>2, <4>1, <5>1, <5>2
      <4> QED BY <4>2, <4>3
    <3> QED BY <2>1, <3>1, <3>2 DEF WireReaches
  <2> QED BY <2>3, <2>4, <2>5 DEF WireReaches
<1> QED BY <1>1, <1>2, <1>5, <1>6, <1>7, <1>9, <1>10 DEF FeedInv

(* So does a drop of the link. *)
LEMMA FeedDrop ==
  ASSUME FeedInv, Drop
  PROVE  FeedInv'
<1>1. /\ wire' = <<>> /\ link' = "down"
      /\ UNCHANGED <<tree, seq, buffer, history, applied, view, behind>>
  BY DEF Drop, serverVars, clientVars
<1>2. BufferReplays'
  BY <1>1 DEF FeedInv, BufferReplays, IsFrameOf
<1>3. wire' \in Seq(Frame) /\ Len(wire') = 0
  BY <1>1
<1> QED BY <1>1, <1>2, <1>3 DEF FeedInv

(* FeedInv holds throughout: the feed between server and client never has a  *)
(* gap the protocol does not know of.                                        *)
THEOREM FeedInvariant == Spec => []FeedInv
<1>1. FeedInv /\ [Next]_vars => FeedInv'
  <2> SUFFICES ASSUME FeedInv, [Next]_vars
               PROVE  FeedInv'
    OBVIOUS
  <2>1. ASSUME NEW n \in Node, NEW e \in Event, NEW answer \in Answers,
               HandleReject(n, e, answer)
        PROVE  FeedInv'
    <3>1. UNCHANGED <<tree, seq, buffer, link, wire, applied, view, history, behind>>
      BY <2>1 DEF HandleReject
    <3> QED BY <3>1, FeedKept
  <2>2. ASSUME NEW n \in Node, NEW e \in Event, NEW answer \in Answers,
               answer # Denied, HandleFrame(n, e, answer)
        PROVE  FeedInv'
    BY <2>2, FeedHandle
  <2>3. CASE Reconnect
    BY <2>3, FeedReconnect
  <2>4. CASE \E last \in 0 .. applied : ResyncAgain(last)
    BY <2>4, FeedResync
  <2>5. CASE Deliver
    BY <2>5, FeedDeliver
  <2>6. CASE Drop
    BY <2>6, FeedDrop
  <2>7. CASE UNCHANGED vars
    <3>1. UNCHANGED <<tree, seq, buffer, link, wire, applied, view, history, behind>>
      BY <2>7 DEF vars
    <3> QED BY <3>1, FeedKept
  <2> QED BY <2>1, <2>2, <2>3, <2>4, <2>5, <2>6, <2>7 DEF Next, Handle
<1> QED BY <1>1, FeedInit, PTL DEF Spec

(* The client never shows a tree the server did not have, as long as no      *)
(* reconnect came from behind the window.                                    *)
THEOREM ClientShowsHistory == Spec => []ClientIsHistory
<1>1. FeedInv => ClientIsHistory
  BY DEF FeedInv, ClientIsHistory
<1> QED BY <1>1, FeedInvariant, PTL

(* Whatever the capacity, the retained window is the newest frames, and it   *)
(* replays to the server's tree.                                             *)
THEOREM WindowAlwaysReplays == Spec => []BufferReplays
<1>1. FeedInv => BufferReplays
  BY DEF FeedInv
<1> QED BY <1>1, FeedInvariant, PTL

(* Every step of the connection is a step of the feed, or none.              *)
LEMMA FeedStep == FeedInv /\ [Next]_vars => [Promised!Next]_Promised!feedVars
<1> SUFFICES ASSUME FeedInv, [Next]_vars
             PROVE  [Promised!Next]_Promised!feedVars
  OBVIOUS
<1> USE DEF Promised!feedVars
<1>1. ASSUME NEW n \in Node, NEW e \in Event, NEW answer \in Answers,
             HandleReject(n, e, answer)
      PROVE  UNCHANGED Promised!feedVars
  BY <1>1 DEF HandleReject
<1>2. ASSUME NEW n \in Node, NEW e \in Event, NEW answer \in Answers,
             HandleFrame(n, e, answer)
      PROVE  Promised!Publish
  <2>1. /\ seq' = seq + 1
        /\ history' = [k \in 0 .. seq + 1 |-> IF k <= seq THEN history[k] ELSE tree']
        /\ UNCHANGED <<applied, view, behind>>
    BY <1>2 DEF HandleFrame
  <2>2. seq \in Nat
    BY DEF FeedInv
  <2>3. DOMAIN history' = 0 .. seq + 1
    BY <2>1
  <2>4. \A k \in 0 .. seq : history'[k] = history[k]
    BY <2>1, <2>2
  <2> QED
    BY <2>1, <2>3, <2>4 DEF Promised!Publish
<1>3. ASSUME Reconnect
      PROVE  Promised!GiveUp \/ UNCHANGED Promised!feedVars
  <2>1. /\ behind' = (behind \/ ~InWindow(applied))
        /\ UNCHANGED <<seq, history, applied, view>>
    BY <1>3 DEF Reconnect, serverVars, clientVars
  <2>2. behind \in BOOLEAN
    BY DEF FeedInv
  <2>3. CASE behind \/ ~InWindow(applied)
    BY <2>1, <2>3 DEF Promised!GiveUp
  <2>4. CASE ~behind /\ InWindow(applied)
    BY <2>1, <2>2, <2>4
  <2> QED
    BY <2>3, <2>4
<1>4. ASSUME NEW last \in 0 .. applied, ResyncAgain(last)
      PROVE  UNCHANGED Promised!feedVars
  BY <1>4 DEF ResyncAgain, serverVars, clientVars
<1>5. ASSUME Deliver
      PROVE  Promised!Follow \/ Promised!Wander \/ UNCHANGED Promised!feedVars
  <2>1. UNCHANGED <<seq, history, behind>>
    BY <1>5 DEF Deliver, serverVars
  <2>2. FeedInv' /\ seq \in Nat /\ applied \in Nat /\ behind \in BOOLEAN
    BY <1>5, FeedDeliver DEF FeedInv
  <2>3. applied' \in Nat /\ applied' <= seq
    BY <2>1, <2>2 DEF FeedInv
  <2>4. CASE Head(wire).seq > applied
    <3>1. applied' = Head(wire).seq
      BY <1>5, <2>4 DEF Deliver
    <3>2. applied' \in applied + 1 .. seq
      BY <2>2, <2>3, <2>4, <3>1
    <3>3. CASE behind
      BY <2>1, <3>2, <3>3 DEF Promised!Wander
    <3>4. CASE ~behind
      <4>1. view' = history[applied']
        BY <2>1, <2>2, <3>4 DEF FeedInv
      <4> QED
        BY <2>1, <3>2, <3>4, <4>1 DEF Promised!Follow
    <3> QED
      BY <3>3, <3>4
  <2>5. CASE ~(Head(wire).seq > applied)
    BY <1>5, <2>1, <2>5 DEF Deliver, clientVars
  <2> QED
    BY <2>4, <2>5
<1>6. ASSUME Drop
      PROVE  UNCHANGED Promised!feedVars
  BY <1>6 DEF Drop, serverVars, clientVars
<1>7. ASSUME UNCHANGED vars
      PROVE  UNCHANGED Promised!feedVars
  BY <1>7 DEF vars
<1> QED
  BY <1>1, <1>2, <1>3, <1>4, <1>5, <1>6, <1>7 DEF Next, Handle, Promised!Next

(* For every tree, op, handler and buffer capacity, the connection with its  *)
(* link and its client implements the feed.                                  *)
THEOREM ImplementsFeed == Spec => IsFeed
<1>1. Init => Promised!Init
  BY DEF Init, Promised!Init
<1> QED
  BY <1>1, FeedStep, FeedInvariant, PTL DEF Spec, IsFeed, Promised!Spec

-----------------------------------------------------------------------------
(***************************************************************************)
(* The reject trail.                                                       *)
(***************************************************************************)
TrailInv ==
  /\ rejects \in Seq(Reason) /\ refusals \in Seq(Reason) /\ rejectsDropped \in Nat
  /\ RejectTrailIsTail

(* A refused step gives one of the reasons. *)
LEMMA VerdictIsReason ==
  ASSUME NEW n, NEW e, NEW answer, Verdict(n, e, answer) # "Accepted"
  PROVE  Verdict(n, e, answer) \in Reason
BY Zenon DEF Verdict, Reason

\* Appending and dropping the first record can be exchanged.
LEMMA TailOfAppend ==
  ASSUME NEW S, NEW s \in Seq(S), s # <<>>, NEW x \in S
  PROVE  Append(Tail(s), x) = Tail(Append(s, x))
OBVIOUS

(* The tail of a suffix is the next suffix. *)
LEMMA TailOfSubSeq ==
  ASSUME NEW S, NEW s \in Seq(S), NEW m \in Nat \ {0}, m <= Len(s)
  PROVE  Tail(SubSeq(s, m, Len(s))) = SubSeq(s, m + 1, Len(s))
OBVIOUS

(* A suffix of an extended sequence is the suffix, extended. *)
LEMMA SubSeqOfAppend ==
  ASSUME NEW S, NEW s \in Seq(S), NEW m \in Nat \ {0}, m <= Len(s) + 1, NEW x \in S
  PROVE  Append(SubSeq(s, m, Len(s)), x) = SubSeq(Append(s, x), m, Len(s) + 1)
OBVIOUS

(* A tail of a sequence that grows by one at its end and, at capacity, loses *)
(* its first, is a tail still.                                               *)
LEMMA TailGrows ==
  ASSUME NEW S, NEW whole \in Seq(S), NEW x \in S, NEW d \in Nat, NEW part \in Seq(S),
         d + Len(part) = Len(whole), part = SubSeq(whole, d + 1, Len(whole))
  PROVE  /\ Append(part, x) = SubSeq(Append(whole, x), d + 1, Len(whole) + 1)
         /\ part # <<>> =>
              Append(Tail(part), x) = SubSeq(Append(whole, x), d + 2, Len(whole) + 1)
<1>1. Len(part) \in Nat /\ Len(whole) \in Nat /\ d + 1 \in Nat \ {0} /\ d + 1 <= Len(whole) + 1
  OBVIOUS
<1>2. Append(part, x) = SubSeq(Append(whole, x), d + 1, Len(whole) + 1)
  BY <1>1, SubSeqOfAppend
<1>3. ASSUME part # <<>>
      PROVE  Append(Tail(part), x) = SubSeq(Append(whole, x), d + 2, Len(whole) + 1)
  <2> DEFINE w == Append(whole, x)
  <2>1. w \in Seq(S) /\ Len(w) = Len(whole) + 1
    OBVIOUS
  <2>2. Append(Tail(part), x) = Tail(Append(part, x))
    BY <1>3, TailOfAppend
  <2>3. Append(part, x) = SubSeq(w, d + 1, Len(w))
    BY <1>2, <2>1
  <2> HIDE DEF w
  <2>4. Tail(SubSeq(w, d + 1, Len(w))) = SubSeq(w, (d + 1) + 1, Len(w))
    BY <1>1, <2>1, TailOfSubSeq
  <2>5. (d + 1) + 1 = d + 2
    OBVIOUS
  <2>6. Append(Tail(part), x) = SubSeq(w, d + 2, Len(whole) + 1)
    BY <2>1, <2>2, <2>3, <2>4, <2>5
  <2> QED
    BY <2>6 DEF w
<1> QED
  BY <1>2, <1>3

(* A refusal keeps the trail the suffix of all refusals. *)
LEMMA TrailReject ==
  ASSUME TrailInv, NEW reason \in Reason, RecordReject(reason), refusals' = Append(refusals, reason)
  PROVE  TrailInv'
<1>1. /\ rejects \in Seq(Reason) /\ refusals \in Seq(Reason) /\ rejectsDropped \in Nat
      /\ Len(rejects) <= RejectCap
      /\ rejectsDropped + Len(rejects) = Len(refusals)
      /\ rejects = SubSeq(refusals, rejectsDropped + 1, Len(refusals))
  BY DEF TrailInv, RejectTrailIsTail
<1>2. /\ rejects' = PushBounded(rejects, reason, RejectCap)
      /\ rejectsDropped' = rejectsDropped + (IF Len(rejects) >= RejectCap THEN 1 ELSE 0)
  BY Zenon DEF RecordReject
<1>3. RejectCap \in Nat \ {0} /\ Len(rejects) \in Nat /\ Len(refusals) \in Nat
  BY <1>1, ConnectionAssumption
<1>4. refusals' \in Seq(Reason) /\ Len(refusals') = Len(refusals) + 1
  BY <1>1
<1>5. CASE Len(rejects) >= RejectCap
  <2>1. rejects # <<>> /\ Len(rejects) = RejectCap
    BY <1>1, <1>3, <1>5
  <2>2. rejectsDropped' = rejectsDropped + 1 /\ rejects' = Append(Tail(rejects), reason)
    BY <1>1, <1>2, <1>5, <2>1 DEF PushBounded
  <2>3. rejects' \in Seq(Reason) /\ Len(rejects') = Len(rejects)
    BY <1>1, <2>1, <2>2
  <2>4. rejects' = SubSeq(refusals', rejectsDropped + 2, Len(refusals) + 1)
    BY <1>1, <2>1, <2>2, TailGrows
  <2>5. rejectsDropped' \in Nat /\ rejectsDropped' + 1 = rejectsDropped + 2
    BY <1>1, <2>2
  <2>6. Len(rejects') <= RejectCap /\ rejectsDropped' + Len(rejects') = Len(refusals')
    <3>1. rejectsDropped \in Nat /\ rejectsDropped + Len(rejects) = Len(refusals)
      BY <1>1
    <3>2. rejectsDropped' = rejectsDropped + 1 /\ Len(rejects') = Len(rejects)
      BY <2>2, <2>3
    <3> QED
      BY <1>3, <1>4, <2>1, <3>1, <3>2
  <2>7. rejects' = SubSeq(refusals', rejectsDropped' + 1, Len(refusals'))
    BY <1>4, <2>4, <2>5
  <2> QED
    BY Zenon, <1>4, <2>3, <2>5, <2>6, <2>7 DEF TrailInv, RejectTrailIsTail
<1>6. CASE ~(Len(rejects) >= RejectCap)
  <2>1. rejectsDropped' = rejectsDropped /\ rejects' = Append(rejects, reason)
    <3>1. rejects' = Append(rejects, reason)
      BY Zenon, <1>2, <1>6 DEF PushBounded
    <3>2. rejectsDropped' = rejectsDropped
      BY <1>1, <1>2, <1>6
    <3> QED
      BY <3>1, <3>2
  <2>2. rejects' \in Seq(Reason) /\ Len(rejects') = Len(rejects) + 1
    BY <1>1, <2>1
  <2>3. rejects' = SubSeq(refusals', rejectsDropped + 1, Len(refusals) + 1)
    BY <1>1, <2>1, TailGrows
  <2>4. Len(rejects') <= RejectCap /\ rejectsDropped' + Len(rejects') = Len(refusals')
    BY <1>1, <1>3, <1>4, <1>6, <2>1, <2>2
  <2>5. rejects' = SubSeq(refusals', rejectsDropped' + 1, Len(refusals'))
    BY <1>4, <2>1, <2>3
  <2> QED
    BY Zenon, <1>1, <1>4, <2>1, <2>2, <2>4, <2>5 DEF TrailInv, RejectTrailIsTail
<1> QED
  BY <1>5, <1>6

(* The trail is that suffix in every reachable state. *)
LEMMA TrailInvariant == Spec => []TrailInv
<1>1. Init => TrailInv
  BY ConnectionAssumption DEF Init, TrailInv, RejectTrailIsTail
<1>2. TrailInv /\ [Next]_vars => TrailInv'
  <2> SUFFICES ASSUME TrailInv, [Next]_vars
               PROVE  TrailInv'
    OBVIOUS
  <2>1. ASSUME NEW n \in Node, NEW e \in Event, NEW answer \in Answers, HandleReject(n, e, answer)
        PROVE  TrailInv'
    <3>1. Verdict(n, e, answer) \in Reason
      BY <2>1, VerdictIsReason DEF HandleReject
    <3> QED
      BY <2>1, <3>1, TrailReject DEF HandleReject
  <2>2. CASE UNCHANGED <<rejects, rejectsDropped, refusals>>
    BY <2>2 DEF TrailInv, RejectTrailIsTail
  <2>3. CASE Handle
    BY <2>1, <2>2, <2>3 DEF Handle, HandleFrame
  <2>4. CASE Reconnect \/ Deliver \/ Drop \/ (\E last \in 0 .. applied : ResyncAgain(last))
    BY <2>2, <2>4 DEF Reconnect, Deliver, Drop, ResyncAgain, serverVars
  <2>5. CASE UNCHANGED vars
    BY <2>2, <2>5 DEF vars
  <2> QED
    BY <2>3, <2>4, <2>5 DEF Next
<1> QED
  BY <1>1, <1>2, PTL DEF Spec

(* The retained trail is the newest refusals and rejects_dropped counts the  *)
(* others, for every capacity and however often the link drops between them  *)
(* (connection.rs:143).                                                      *)
THEOREM TrailAlwaysAddsUp == Spec => []RejectTrailIsTail
<1>1. TrailInv => RejectTrailIsTail
  BY DEF TrailInv
<1> QED
  BY <1>1, TrailInvariant, PTL

-----------------------------------------------------------------------------
(***************************************************************************)
(* The gate.                                                               *)
(***************************************************************************)
ApplyNext(c, acc, o) == IF acc = NoTree THEN NoTree ELSE Apply(acc, o)
StepFold == INSTANCE SequenceFolds WITH Op <- ApplyNext

(* The application of a step's ops is the fold of SequenceFolds. *)
LEMMA ApplyAllIsFold == \A t, ops : ApplyAll(t, ops) = StepFold!FoldOf(0, t, ops)
BY Zenon DEF ApplyAll, StepFold!FoldOf, ApplyNext, FoldLeft, MapThenFoldSet, Max,
             StepFold!FoldLeft, StepFold!MapThenFoldSet, StepFold!Max

(* What the gate lets pass, with what may come in state blocks in S: the ops, *)
(* the frames made of them, and the trees they build from the first.         *)
Passing(S) == {o \in Op : Needs(o) \subseteq Grants /\ StateNeeds(o) \subseteq S}
PassingFrame(S) == {f \in Frame : f.ops \in Seq(Passing(S))}
Held(S) == {t \in Tree : Mounted(t) \subseteq Mounted(Seed) \cup Grants \cup S} \cup {NoTree}

(* What passed still passes when more has come in state blocks. *)
LEMMA PassingGrows ==
  ASSUME NEW S, NEW T, S \subseteq T
  PROVE  /\ Seq(Passing(S)) \subseteq Seq(Passing(T))
         /\ Seq(PassingFrame(S)) \subseteq Seq(PassingFrame(T))
         /\ Held(S) \subseteq Held(T)
<1>1. Passing(S) \subseteq Passing(T)
  BY DEF Passing
<1>2. \A s \in Seq(Passing(S)) : s \in Seq(Passing(T))
  BY <1>1
<1>3. PassingFrame(S) \subseteq PassingFrame(T)
  BY <1>2 DEF PassingFrame
<1>4. \A s \in Seq(PassingFrame(S)) : s \in Seq(PassingFrame(T))
  BY <1>3
<1>5. Held(S) \subseteq Held(T)
  BY DEF Held
<1> QED
  BY <1>2, <1>4, <1>5

(* The ops of a step that passed leave a tree with accounted mounts only,    *)
(* however many of them there are.                                           *)
LEMMA ApplyAllHolds ==
  ASSUME NEW S, NEW t \in Held(S), NEW ops \in Seq(Passing(S))
  PROVE  ApplyAll(t, ops) \in Held(S)
<1>1. \A acc \in Held(S), o \in Passing(S) : ApplyNext(0, acc, o) \in Held(S)
  <2> SUFFICES ASSUME NEW acc \in Held(S), NEW o \in Passing(S), acc # NoTree,
                      Apply(acc, o) # NoTree
               PROVE  Apply(acc, o) \in Held(S)
    BY DEF ApplyNext, Held
  <2>1. acc \in Tree /\ Mounted(acc) \subseteq Mounted(Seed) \cup Grants \cup S
    BY DEF Held
  <2>2. o \in Op /\ Needs(o) \cup StateNeeds(o) \subseteq Grants \cup S
    BY DEF Passing
  <2>3. /\ Apply(acc, o) \in Tree
        /\ Mounted(Apply(acc, o)) \subseteq Mounted(acc) \cup Needs(o) \cup StateNeeds(o)
    BY <2>1, <2>2, ApplyAssumption
  <2> QED
    BY <2>1, <2>2, <2>3 DEF Held
<1>2. \A s \in Seq(Passing(S)) : StepFold!FoldOf(0, t, s) \in Held(S)
  BY <1>1, StepFold!FoldType
<1> QED
  BY <1>2, ApplyAllIsFold

(* What a replay sends has passed, since the buffer has. *)
LEMMA ReplayPasses ==
  ASSUME FeedInv, NEW S, buffer \in Seq(PassingFrame(S)), NEW last \in Nat
  PROVE  NewerThan(last) \in Seq(PassingFrame(S))
<1>1. \/ NewerThan(last) = <<>>
      \/ \E k \in 1 .. Len(buffer) : NewerThan(last) = SubSeq(buffer, k, Len(buffer))
  BY NewerThanIsSuffix DEF FeedInv
<1>2. \A k \in 1 .. Len(buffer) : SubSeq(buffer, k, Len(buffer)) \in Seq(PassingFrame(S))
  OBVIOUS
<1>3. <<>> \in Seq(PassingFrame(S))
  OBVIOUS
<1> QED
  BY Zenon, <1>1, <1>2, <1>3

(* Every frame retained or in flight has passed, and so every tree of the    *)
(* history and of the client is one that frames which passed have built.     *)
GateInv ==
  /\ link \in {"up", "down"} /\ drops \in Nat
  /\ unvetted \subseteq UNION {StateNeeds(o) : o \in Op}
  /\ buffer \in Seq(PassingFrame(unvetted))
  /\ wire \in Seq(PassingFrame(unvetted))
  /\ view \in Held(unvetted)
  /\ history \in [0 .. seq -> Tree]
  /\ \A n \in 0 .. seq : history[n] \in Held(unvetted)

(* At the start there is the first tree and no frame. *)
LEMMA GateInit == Init => GateInv
BY ConnectionAssumption DEF Init, GateInv, Held

(* An accepted step records what its state blocks bring, and with that the   *)
(* frame has passed and the tree is accounted for.                           *)
LEMMA GateHandle ==
  ASSUME FeedInv, GateInv, NEW n \in Node, NEW e \in Event, NEW ops \in Answers,
         ops # Denied, HandleFrame(n, e, ops)
  PROVE  GateInv'
<1> DEFINE frame == [seq |-> seq + 1, ops |-> ops]
           brought == UNION {StateNeeds(ops[i]) : i \in 1 .. Len(ops)}
           old == IF Len(buffer) >= BufferCap /\ buffer # <<>> THEN Tail(buffer) ELSE buffer
<1>1. /\ seq' = seq + 1 /\ tree' = ApplyAll(tree, ops)
      /\ history' = [k \in 0 .. seq + 1 |-> IF k <= seq THEN history[k] ELSE tree']
      /\ buffer' = Append(old, frame)
      /\ wire' = IF link = "up" THEN Append(wire, frame) ELSE wire
      /\ unvetted' = unvetted \cup brought
      /\ UNCHANGED <<link, drops, view>>
  BY Zenon DEF HandleFrame, BufferFrame, PushBounded
<1>2. ops \in Seq(Op) /\ NoTree \notin Tree
  BY ConnectionAssumption
<1>3. OpGateAllows(ops) /\ ApplyAll(tree, ops) # NoTree
  <2>1. Verdict(n, e, ops) = "Accepted"
    BY Zenon DEF HandleFrame
  <2> QED
    BY <2>1 DEF Verdict
<1>4. seq \in Nat /\ tree = history[seq]
  BY DEF FeedInv, BufferReplays
<1>5. unvetted \subseteq unvetted' /\ brought \subseteq unvetted'
  BY <1>1
<1>6. ops \in Seq(Passing(unvetted'))
  <2>1. \A i \in 1 .. Len(ops) : ops[i] \in Op /\ Needs(ops[i]) \subseteq Grants
    BY <1>2, <1>3 DEF OpGateAllows
  <2>2. \A i \in 1 .. Len(ops) : StateNeeds(ops[i]) \subseteq brought
    OBVIOUS
  <2>3. \A i \in 1 .. Len(ops) : ops[i] \in Passing(unvetted')
    BY <1>5, <2>1, <2>2 DEF Passing
  <2> QED
    BY <1>2, <2>3
<1>7. frame \in PassingFrame(unvetted')
  BY <1>2, <1>4, <1>6 DEF PassingFrame, Frame
<1>8. /\ buffer \in Seq(PassingFrame(unvetted')) /\ wire \in Seq(PassingFrame(unvetted'))
      /\ view \in Held(unvetted') /\ \A k \in 0 .. seq : history[k] \in Held(unvetted')
  <2>1. /\ Seq(PassingFrame(unvetted)) \subseteq Seq(PassingFrame(unvetted'))
        /\ Held(unvetted) \subseteq Held(unvetted')
    BY <1>5, PassingGrows
  <2> QED
    BY <2>1 DEF GateInv
<1>9. tree \in Tree /\ tree \in Held(unvetted')
  BY <1>4, <1>8 DEF GateInv
<1>10. tree' \in Tree /\ tree' \in Held(unvetted')
  <2>1. tree' \in Held(unvetted')
    BY <1>1, <1>6, <1>9, ApplyAllHolds
  <2> QED
    BY <1>1, <1>3, <2>1 DEF Held
<1> HIDE DEF frame, brought
<1>11. buffer' \in Seq(PassingFrame(unvetted'))
  <2>1. old \in Seq(PassingFrame(unvetted'))
    BY <1>8
  <2> HIDE DEF old
  <2> QED
    BY <1>1, <1>7, <2>1
<1>12. wire' \in Seq(PassingFrame(unvetted'))
  BY <1>1, <1>7, <1>8
<1>13. history' \in [0 .. seq' -> Tree] /\ \A k \in 0 .. seq' : history'[k] \in Held(unvetted')
  <2>1. history' \in [0 .. seq' -> Tree]
    BY <1>1, <1>4, <1>10 DEF GateInv
  <2>2. \A k \in 0 .. seq : history'[k] = history[k]
    BY <1>1, <1>4
  <2>3. history'[seq + 1] = tree'
    BY <1>1, <1>4
  <2>4. \A k \in 0 .. seq' : k \in 0 .. seq \/ k = seq + 1
    BY <1>1, <1>4
  <2>5. \A k \in 0 .. seq' : history'[k] \in Held(unvetted')
    BY <1>8, <1>10, <2>2, <2>3, <2>4
  <2> QED
    BY <2>1, <2>5
<1>14. unvetted' \subseteq UNION {StateNeeds(o) : o \in Op}
  <2>1. brought \subseteq UNION {StateNeeds(o) : o \in Op}
    BY <1>2 DEF brought
  <2> QED
    BY <1>1, <2>1 DEF GateInv
<1> QED
  BY <1>1, <1>8, <1>11, <1>12, <1>13, <1>14 DEF GateInv

(* A frame that reaches the client has passed, whatever tree it shows. *)
LEMMA GateDeliver ==
  ASSUME FeedInv, GateInv, Deliver
  PROVE  GateInv'
<1>1. UNCHANGED <<seq, history, buffer, unvetted, link, drops>> /\ wire' = Tail(wire)
  BY Zenon DEF Deliver, serverVars
<1>2. wire \in Seq(PassingFrame(unvetted)) /\ wire # <<>>
  BY Zenon DEF Deliver, GateInv
<1>3. Head(wire).ops \in Seq(Passing(unvetted))
  <2>1. Head(wire) \in PassingFrame(unvetted)
    BY <1>2
  <2> QED
    BY <2>1 DEF PassingFrame
<1>4. view' = view \/ view' = ApplyAll(view, Head(wire).ops)
  BY Zenon DEF Deliver, clientVars
<1>5. view' \in Held(unvetted)
  BY <1>3, <1>4, ApplyAllHolds DEF GateInv
<1>6. wire' \in Seq(PassingFrame(unvetted))
  BY <1>1, <1>2
<1> QED
  BY <1>1, <1>5, <1>6 DEF GateInv

(* What leaves the trees and the buffer alone, and puts in flight only what   *)
(* has passed, keeps the gate's invariant.                                    *)
LEMMA GateKept ==
  ASSUME GateInv, UNCHANGED <<seq, history, buffer, unvetted, view>>,
         wire' \in Seq(PassingFrame(unvetted)), link' \in {"up", "down"}, drops' \in Nat
  PROVE  GateInv'
BY DEF GateInv

(* Every step keeps it. *)
LEMMA GateNext == FeedInv /\ GateInv /\ [Next]_vars => GateInv'
<1> SUFFICES ASSUME FeedInv, GateInv, [Next]_vars
             PROVE  GateInv'
  OBVIOUS
<1>0. /\ link \in {"up", "down"} /\ drops \in Nat /\ applied \in Nat
      /\ buffer \in Seq(PassingFrame(unvetted)) /\ wire \in Seq(PassingFrame(unvetted))
  BY DEF GateInv, FeedInv
<1>1. ASSUME NEW n \in Node, NEW e \in Event, NEW answer \in Answers, HandleReject(n, e, answer)
      PROVE  GateInv'
  BY <1>0, <1>1, GateKept DEF HandleReject
<1>2. ASSUME NEW n \in Node, NEW e \in Event, NEW answer \in Answers,
             answer # Denied, HandleFrame(n, e, answer)
      PROVE  GateInv'
  BY <1>2, GateHandle
<1>3. CASE Reconnect
  <2>1. wire' \in Seq(PassingFrame(unvetted))
    BY <1>0, <1>3, ReplayPasses DEF Reconnect
  <2> QED
    BY <1>0, <1>3, <2>1, GateKept DEF Reconnect, serverVars, clientVars
<1>4. ASSUME NEW last \in 0 .. applied, ResyncAgain(last)
      PROVE  GateInv'
  <2>1. NewerThan(last) \in Seq(PassingFrame(unvetted))
    BY <1>0, ReplayPasses
  <2>2. wire' = wire \o NewerThan(last)
    BY <1>4 DEF ResyncAgain
  <2>3. wire' \in Seq(PassingFrame(unvetted))
    BY <1>0, <2>1, <2>2
  <2> QED
    BY <1>0, <1>4, <2>3, GateKept DEF ResyncAgain, serverVars, clientVars
<1>5. CASE Deliver
  BY <1>5, GateDeliver
<1>6. CASE Drop
  <2>1. wire' \in Seq(PassingFrame(unvetted))
    BY <1>6 DEF Drop
  <2> QED
    BY <1>0, <1>6, <2>1, GateKept DEF Drop, serverVars, clientVars
<1>7. CASE UNCHANGED vars
  BY <1>0, <1>7, GateKept DEF vars
<1> QED
  BY <1>1, <1>2, <1>3, <1>4, <1>5, <1>6, <1>7, Zenon DEF Next, Handle

(* A mount the host did not grant is in a tree of the server or of the       *)
(* client only if the session started with its capability or an UpdateState  *)
(* brought it in, for every op, every handler and every set of grants: the   *)
(* gate sees each other op of a step before any is applied (driver.rs:143),  *)
(* and what a client is sent, late, again or from behind the window, has     *)
(* passed it.                                                                *)
THEOREM OnlyVettedEverMounted == Spec => []OnlyVettedMounted
<1>1. FeedInv /\ TrailInv /\ GateInv => OnlyVettedMounted
  <2> SUFFICES ASSUME FeedInv, TrailInv, GateInv
               PROVE  OnlyVettedMounted
    OBVIOUS
  <2>1. seq \in Nat /\ tree = history[seq] /\ Len(buffer) <= BufferCap
    BY ConnectionAssumption DEF FeedInv, BufferReplays
  <2>2. tree \in Tree /\ view \in Tree \cup {NoTree} /\ NoTree \notin Tree
    BY <2>1, ConnectionAssumption DEF GateInv, Held
  <2>3. TypeOK
    BY <2>1, <2>2 DEF TypeOK, FeedInv, TrailInv, RejectTrailIsTail, GateInv
  <2>4. \A n \in 0 .. seq : Mounted(history[n]) \subseteq Accounted
    BY <2>2 DEF GateInv, Held, Accounted
  <2>5. view # NoTree => Mounted(view) \subseteq Accounted
    BY DEF GateInv, Held, Accounted
  <2> QED
    BY <2>3, <2>4, <2>5 DEF OnlyVettedMounted
<1> QED
  BY <1>1, GateInit, GateNext, FeedInvariant, TrailInvariant, PTL DEF Spec
=============================================================================
