--------------------------- MODULE HeadsetProofs ---------------------------
(***************************************************************************)
(* The invariants of the path of a setting, for any settings, values and   *)
(* numbers of verbs, links, reads and alerts: the types; every frame is    *)
(* recovered wherever the reads cut it; the daemon's copy ends up true;    *)
(* the headset's objection on LDAC is provoked by blind commands only; and *)
(* no alert is answered yes that nobody asked for.                         *)
(***************************************************************************)
EXTENDS HeadsetControl, CodecProofs

-----------------------------------------------------------------------------
(* The stream of frames. *)

\* What the headset sends: a payload is no longer than that of the noise report.
MaxPayload == 8
WireFrames == [type : Byte, seq : Byte, payload : {p \in Seq(Byte) : Len(p) <= MaxPayload}]
Pack(fr) == PackFrame(fr.type, fr.seq, fr.payload)

\* A frame the headset sends is framed, is short enough for the framer, and is
\* unpacked to itself.
LEMMA PackWire ==
  ASSUME NEW fr \in WireFrames
  PROVE  /\ Framed(Pack(fr)) /\ Pack(fr) \in Seq(Byte)
         /\ Len(Pack(fr)) \in 9 .. MaxFrame
         /\ UnpackFrame(Pack(fr)) = <<fr>>
<1>1. fr.type \in Byte /\ fr.seq \in Byte /\ fr.payload \in Seq(Byte) /\ Len(fr.payload) <= 8
  BY Zenon DEF WireFrames, MaxPayload
<1>2. fr = [type |-> fr.type, seq |-> fr.seq, payload |-> fr.payload]
  BY DEF WireFrames
<1>3. Len(fr.payload) \in Nat
  BY <1>1, LenProperties
<1>4. Len(fr.payload) < PayloadLimit
  BY <1>1, <1>3, SMT DEF PayloadLimit
<1>5. Framed(Pack(fr)) /\ Len(Pack(fr)) >= 9 /\ Len(Pack(fr)) <= 2 * Len(fr.payload) + 16
  BY <1>1, <1>4, PackFramed, Zenon DEF Pack
<1>6. UnpackFrame(Pack(fr)) = <<fr>>
  BY <1>1, <1>2, <1>4, UnpackedIsPacked, Zenon DEF Pack
<1>7. Pack(fr) \in Seq(Byte)
  BY <1>5, Zenon DEF Framed
<1>8. Len(Pack(fr)) \in 9 .. MaxFrame
  <2>1. Len(Pack(fr)) \in Nat
    BY <1>7, LenProperties
  <2>2. \A x, y \in Nat : y <= 8 /\ x >= 9 /\ x <= 2 * y + 16 => x \in 9 .. MaxFrame
    BY DEF MaxFrame
  <2> QED BY <1>1, <1>3, <1>5, <2>1, <2>2, Zenon
<1> QED BY <1>5, <1>6, <1>7, <1>8, Zenon

\* Bytes, by the packing of this module.
LEMMA BytesOf ==
  ASSUME NEW fs
  PROVE  Bytes(fs) = FlattenSeq([i \in 1 .. Len(fs) |-> Pack(fs[i])])
BY Zenon DEF Bytes, Pack

\* The bytes of one frame more.
LEMMA BytesAppend ==
  ASSUME NEW fs \in Seq(WireFrames), NEW fr \in WireFrames
  PROVE  Bytes(fs) \in Seq(Byte) /\ Bytes(Append(fs, fr)) = Bytes(fs) \o Pack(fr)
<1> DEFINE n == Len(fs)
           t == Append(fs, fr)
           ps == [i \in 1 .. n |-> Pack(fs[i])]
           X == Seq(Byte)
<1>1. /\ n \in Nat /\ Len(t) = n + 1 /\ t[n + 1] = fr
      /\ \A i \in 1 .. n : t[i] = fs[i]
      /\ \A i \in 1 .. n : fs[i] \in WireFrames
  <2>1. /\ n \in Nat /\ Len(t) = n + 1 /\ t[n + 1] = fr
        /\ \A i \in 1 .. n : t[i] = fs[i]
    BY AppendProperties, LenProperties
  <2>2. \A i \in 1 .. n : fs[i] \in WireFrames
    BY ElementOfSeq
  <2> QED BY <2>1, <2>2, Zenon
<1>2. Pack(fr) \in X /\ \A i \in 1 .. n : Pack(fs[i]) \in X
  BY <1>1, PackWire, Zenon
<1> HIDE DEF X, n, t
<1>3. ps \in Seq(X) /\ Len(ps) = n
  <2> DEFINE p(i) == Pack(fs[i])
  <2>1. \A i \in 1 .. n : p(i) \in X
    BY <1>2
  <2> HIDE DEF p
  <2>2. [i \in 1 .. n |-> p(i)] \in Seq(X) /\ Len([i \in 1 .. n |-> p(i)]) = n
    BY <1>1, <2>1
  <2> QED BY <2>2, Zenon DEF p
<1>4. [i \in 1 .. Len(t) |-> Pack(t[i])] = Append(ps, Pack(fr))
  <2>1. Append(ps, Pack(fr)) = [i \in 1 .. n + 1 |-> IF i = n + 1 THEN Pack(fr) ELSE ps[i]]
    <3> HIDE DEF ps
    <3>1. Append(ps, Pack(fr)) = [i \in 1 .. Len(ps) + 1 |-> IF i = Len(ps) + 1 THEN Pack(fr) ELSE ps[i]]
      BY <1>2, <1>3, AppendIs
    <3> QED BY <1>3, <3>1, Zenon
  <2>2. \A i \in 1 .. n + 1 : Pack(t[i]) = IF i = n + 1 THEN Pack(fr) ELSE ps[i]
    <3> SUFFICES ASSUME NEW i \in 1 .. n + 1 PROVE Pack(t[i]) = IF i = n + 1 THEN Pack(fr) ELSE ps[i]
      OBVIOUS
    <3>1. CASE i = n + 1
      BY <1>1, <3>1, Zenon
    <3>2. CASE i # n + 1
      <4>1. i \in 1 .. n
        BY <1>1, <3>2
      <4>2. ps[i] = Pack(fs[i])
        BY <4>1, Zenon
      <4> QED BY <1>1, <3>2, <4>1, <4>2, Zenon
    <3> QED BY <3>1, <3>2
  <2> HIDE DEF ps
  <2> QED BY <1>1, <2>1, <2>2, Zenon
<1>5. Bytes(fs) = FlattenSeq(ps) /\ Bytes(t) = FlattenSeq(Append(ps, Pack(fr)))
  BY <1>4, BytesOf, Zenon DEF n
<1> HIDE DEF ps
<1>6. FlattenSeq(ps) \in X /\ FlattenSeq(Append(ps, Pack(fr))) = FlattenSeq(ps) \o Pack(fr)
  BY <1>2, <1>3, FlattenAppend DEF X
<1> QED BY <1>5, <1>6, Zenon DEF X, t

\* No frames, no bytes.
LEMMA BytesOfNothing == Bytes(<<>>) = <<>>
<1>1. [i \in 1 .. Len(<<>>) |-> Pack(<<>>[i])] = <<>>
  OBVIOUS
<1> QED BY <1>1, BytesOf, FlattenOfNothing, Zenon

\* Frames are sent as bytes.
LEMMA BytesType == ASSUME NEW fs \in Seq(WireFrames) PROVE Bytes(fs) \in Seq(Byte)
<1> DEFINE T == {q \in Seq(WireFrames) : Bytes(q) \in Seq(Byte)}
<1>1. <<>> \in T
  <2>1. <<>> \in Seq(WireFrames) /\ <<>> \in Seq(Byte)
    OBVIOUS
  <2> QED BY <2>1, BytesOfNothing
<1>2. \A q \in Seq(WireFrames) : \A x \in WireFrames : q \in T => Append(q, x) \in T
  <2> SUFFICES ASSUME NEW q \in Seq(WireFrames), NEW x \in WireFrames
               PROVE  Append(q, x) \in Seq(WireFrames) /\ Bytes(Append(q, x)) \in Seq(Byte)
    OBVIOUS
  <2>1. Append(q, x) \in Seq(WireFrames)
    BY AppendProperties
  <2>2. Bytes(q) \in Seq(Byte) /\ Bytes(Append(q, x)) = Bytes(q) \o Pack(x)
    BY BytesAppend
  <2>3. Pack(x) \in Seq(Byte)
    BY PackWire
  <2> QED BY <2>1, <2>2, <2>3, ConcatProperties
<1> HIDE DEF T
<1>3. fs \in T
  BY <1>1, <1>2, SeqInduction
<1> QED BY <1>3 DEF T

\* The bytes of frames and more frames.
LEMMA BytesConcat ==
  ASSUME NEW fs \in Seq(WireFrames), NEW gs \in Seq(WireFrames)
  PROVE  Bytes(fs \o gs) = Bytes(fs) \o Bytes(gs)
<1> DEFINE X == Seq(WireFrames)
           T == {q \in X : Bytes(fs \o q) = Bytes(fs) \o Bytes(q)}
<1>1. <<>> \in T
  <2>1. fs \o <<>> = fs /\ <<>> \in X
    BY ConcatEmptySeq, EmptySeq
  <2>2. Bytes(fs) \o <<>> = Bytes(fs)
    BY BytesType, ConcatEmptySeq
  <2> QED BY <2>1, <2>2, BytesOfNothing
<1>2. \A q \in X : \A x \in WireFrames : q \in T => Append(q, x) \in T
  <2> SUFFICES ASSUME NEW q \in X, NEW x \in WireFrames, Bytes(fs \o q) = Bytes(fs) \o Bytes(q)
               PROVE  Append(q, x) \in X /\ Bytes(fs \o Append(q, x)) = Bytes(fs) \o Bytes(Append(q, x))
    OBVIOUS
  <2>1. fs \o Append(q, x) = Append(fs \o q, x) /\ fs \o q \in Seq(WireFrames) /\ Append(q, x) \in Seq(WireFrames)
    OBVIOUS
  <2>2. Bytes(Append(fs \o q, x)) = Bytes(fs \o q) \o Pack(x)
    BY <2>1, BytesAppend
  <2>3. Bytes(Append(q, x)) = Bytes(q) \o Pack(x)
    BY BytesAppend
  <2>4. (Bytes(fs) \o Bytes(q)) \o Pack(x) = Bytes(fs) \o (Bytes(q) \o Pack(x))
    <3>1. Bytes(fs) \in Seq(Byte) /\ Bytes(q) \in Seq(Byte) /\ Pack(x) \in Seq(Byte)
      BY BytesType, PackWire
    <3> QED BY <3>1, ConcatAssociative
  <2> QED BY <2>1, <2>2, <2>3, <2>4
<1> HIDE DEF T, X
<1>3. X \subseteq T
  BY <1>1, <1>2, SeqInduction DEF X
<1> QED BY <1>3 DEF T, X

\* The bytes of a stream begin with those of its first frame.
LEMMA BytesHead ==
  ASSUME NEW fs \in Seq(WireFrames), fs # <<>>
  PROVE  /\ fs[1] \in WireFrames /\ Tail(fs) \in Seq(WireFrames)
         /\ Bytes(fs) = Pack(fs[1]) \o Bytes(Tail(fs))
<1>1. /\ fs[1] \in WireFrames /\ Tail(fs) \in Seq(WireFrames)
      /\ <<fs[1]>> \in Seq(WireFrames) /\ fs = <<fs[1]>> \o Tail(fs)
  OBVIOUS
<1>2. Bytes(fs) = Bytes(<<fs[1]>>) \o Bytes(Tail(fs))
  BY <1>1, BytesConcat
<1>3. Bytes(<<fs[1]>>) = Pack(fs[1])
  <2>1. <<fs[1]>> = Append(<<>>, fs[1]) /\ <<>> \in Seq(WireFrames)
    OBVIOUS
  <2>2. Bytes(Append(<<>>, fs[1])) = <<>> \o Pack(fs[1])
    BY <1>1, <2>1, BytesAppend, BytesOfNothing
  <2>3. <<>> \o Pack(fs[1]) = Pack(fs[1])
    BY <1>1, PackWire, ConcatEmptySeq
  <2> QED BY <2>1, <2>2, <2>3
<1> QED BY <1>1, <1>2, <1>3

\* Three pieces of the stream join in either order.
LEMMA BytesAssociative ==
  \A x, y, z \in Seq(Byte) : (x \o y) \o z = x \o (y \o z)
BY ConcatAssociative

\* What the framer finds in the bytes that were read of a stream: the frame it
\* begins with, or less than a frame.
LEMMA StreamNext ==
  ASSUME NEW fs \in Seq(WireFrames), NEW b \in Seq(Byte), NEW a \in Seq(Byte), b \o a = Bytes(fs)
  PROVE  \/ NextFrame(b) = [frame |-> <<>>, rest |-> b] /\ Len(b) < MaxFrame
         \/ /\ fs # <<>>
            /\ \E r \in Seq(Byte) : /\ NextFrame(b) = [frame |-> <<Pack(fs[1])>>, rest |-> r]
                                    /\ r \o a = Bytes(Tail(fs))
<1>1. CASE fs = <<>>
  <2>1. b = <<>>
    <3>1. b \o a = <<>>
      BY <1>1, BytesOfNothing
    <3> QED BY <3>1, ConcatSimplifications
  <2>2. NextFrame(b) = [frame |-> <<>>, rest |-> b] /\ Len(b) < MaxFrame
    <3>1. First(b, StartMarker, 1) = {} /\ Len(b) = 0
      BY <2>1 DEF First
    <3>2. NextFrame(b) = [frame |-> <<>>, rest |-> <<>>]
      BY <3>1, Zenon DEF NextFrame
    <3> QED BY <2>1, <3>1, <3>2 DEF MaxFrame
  <2> QED BY <2>2, Zenon
<1>2. CASE fs # <<>>
  <2> DEFINE f == Pack(fs[1])
             z == Bytes(Tail(fs))
             m == Len(b)
             n == Len(f)
  <2>1. /\ Framed(f) /\ f \in Seq(Byte) /\ z \in Seq(Byte) /\ n \in 9 .. MaxFrame
        /\ b \o a = f \o z
        /\ m \in Nat /\ Len(a) \in Nat /\ Len(z) \in Nat
    BY <1>2, BytesHead, PackWire, BytesType, LenProperties
  <2>0. n \in Nat /\ n >= 1 /\ n <= MaxFrame
    <3> HIDE DEF n
    <3> QED BY <2>1 DEF MaxFrame
  <2> HIDE DEF f, z
  <2>2. \A i \in 1 .. m : i <= n => b[i] = f[i]
    <3>1. \A i \in 1 .. Len(b) + Len(a) : (b \o a)[i] = IF i <= Len(b) THEN b[i] ELSE a[i - Len(b)]
      BY <2>1, ConcatProperties
    <3>2. \A i \in 1 .. Len(f) + Len(z) : (f \o z)[i] = IF i <= Len(f) THEN f[i] ELSE z[i - Len(f)]
      BY <2>1, ConcatProperties
    <3> SUFFICES ASSUME NEW i \in 1 .. m, i <= n PROVE b[i] = f[i]
      OBVIOUS
    <3>3. i \in 1 .. Len(b) + Len(a) /\ i \in 1 .. Len(f) + Len(z) /\ i <= Len(b)
      BY <2>1 DEF MaxFrame
    <3>4. (b \o a)[i] = b[i] /\ (f \o z)[i] = f[i]
      BY <3>1, <3>2, <3>3, Zenon
    <3> QED BY <2>1, <3>4, Zenon
  <2>3. CASE m < n
    <3>1. \A i \in 1 .. m : i <= n
      BY <2>1, <2>3 DEF MaxFrame
    <3>2. NextFrame(b) = [frame |-> <<>>, rest |-> b]
      BY <2>1, <2>2, <2>3, <3>1, NextOfPart, Zenon
    <3>3. m < MaxFrame
      <4> HIDE DEF m, n
      <4> QED BY <2>0, <2>1, <2>3 DEF MaxFrame
    <3> QED BY <3>2, <3>3, Zenon
  <2>4. CASE ~(m < n)
    <3> DEFINE r == SubSeq(b, n + 1, m)
    <3>1. n \in 1 .. m /\ n \in Nat
      <4> HIDE DEF m, n
      <4> QED BY <2>0, <2>1, <2>4
    <3>2. SubSeq(b, 1, n) \o r = SubSeq(b, 1, m)
      <4>1. 1 \in 1 .. m + 1 /\ n \in 1 - 1 .. m /\ m \in n .. m
        BY <2>1, <3>1
      <4> QED BY <4>1, ConcatAdjacentSubSeq
    <3>3. SubSeq(b, 1, m) = b
      BY SubSeqFull
    <3>4. r \in Seq(Byte) /\ SubSeq(b, 1, n) \in Seq(Byte) /\ Len(SubSeq(b, 1, n)) = n
          /\ \A i \in 1 .. n : SubSeq(b, 1, n)[i] = b[i]
      <4>1. \A i \in 1 .. m : b[i] \in Byte
        BY ElementOfSeq
      <4>2. r \in Seq(Byte)
        BY <2>1, <3>1, <4>1
      <4>3. SubSeq(b, 1, n) \in Seq(Byte) /\ Len(SubSeq(b, 1, n)) = n
        BY <2>1, <3>1, <4>1
      <4>4. \A i \in 1 .. n : SubSeq(b, 1, n)[i] = b[i]
        BY <2>1, <3>1
      <4> QED BY <4>2, <4>3, <4>4
    <3> HIDE DEF r
    <3>5. SubSeq(b, 1, n) = f
      <4>1. \A i \in 1 .. n : SubSeq(b, 1, n)[i] = f[i]
        <5>1. \A i \in 1 .. n : i \in 1 .. m /\ i <= n
          BY <3>1
        <5> QED BY <2>2, <3>4, <5>1
      <4> QED BY <2>1, <3>4, <4>1, SeqEqual
    <3>6. b = f \o r
      BY <3>2, <3>3, <3>5
    <3>7. NextFrame(b) = [frame |-> <<f>>, rest |-> r]
      BY <2>1, <3>4, <3>6, NextOfFramed, Zenon
    <3>8. r \o a = z
      <4>1. f \o (r \o a) = f \o z
        <5>1. (f \o r) \o a = f \o (r \o a)
          <6>1. f \in Seq(Byte) /\ r \in Seq(Byte) /\ a \in Seq(Byte)
            BY <2>1, <3>4
          <6> QED BY <6>1, BytesAssociative, Zenon
        <5> QED BY <2>1, <3>6, <5>1, Zenon
      <4>2. r \o a \in Seq(Byte)
        BY <3>4, ConcatProperties
      <4> QED BY <2>1, <4>1, <4>2, ConcatSimplifications
    <3> QED BY <1>2, <3>4, <3>7, <3>8 DEF f, z
  <2> QED BY <2>3, <2>4
<1> QED BY <1>1, <1>2

\* Nothing, n times, is nothing.
LEMMA FlattenOfEmpties == ASSUME NEW S, NEW n \in Nat PROVE FlattenSeq([i \in 1 .. n |-> <<>>]) = <<>>
<1> DEFINE T == {q \in Seq({<<>>}) : FlattenSeq(q) = <<>>}
<1>1. <<>> \in T
  <2>1. <<>> \in Seq({<<>>})
    OBVIOUS
  <2> QED BY <2>1, FlattenOfNothing, Zenon
<1>2. \A q \in Seq({<<>>}) : \A x \in {<<>>} : q \in T => Append(q, x) \in T
  <2> SUFFICES ASSUME NEW q \in Seq({<<>>}), FlattenSeq(q) = <<>>
               PROVE  Append(q, <<>>) \in Seq({<<>>}) /\ FlattenSeq(Append(q, <<>>)) = <<>>
    OBVIOUS
  <2>1. Append(q, <<>>) \in Seq({<<>>})
    OBVIOUS
  <2>2. q \in Seq(Seq(Int)) /\ <<>> \in Seq(Int)
    <3>1. {<<>>} \subseteq Seq(Int)
      OBVIOUS
    <3> DEFINE X == Seq(Int)
               Y == {<<>>}
    <3>2. <<>> \in X
      OBVIOUS
    <3> HIDE DEF X, Y
    <3>3. \A i \in 1 .. Len(q) : q[i] \in X
      <4>1. \A i \in 1 .. Len(q) : q[i] \in Y
        BY ElementOfSeq DEF Y
      <4>2. Y \subseteq X
        BY <3>1 DEF X, Y
      <4> QED BY <4>1, <4>2
    <3>4. q \in Seq(X)
      <4>1. q \in Seq(Y)
        BY DEF Y
      <4> QED BY <3>3, <4>1
    <3> QED BY <3>2, <3>4 DEF X
  <2>3. FlattenSeq(Append(q, <<>>)) = <<>> \o <<>>
    BY <2>2, FlattenAppend
  <2> QED BY <2>1, <2>3
<1> HIDE DEF T
<1>3. [i \in 1 .. n |-> <<>>] \in Seq({<<>>})
  OBVIOUS
<1>4. [i \in 1 .. n |-> <<>>] \in T
  BY <1>1, <1>2, <1>3, SeqInduction
<1> QED BY <1>4 DEF T

\* One sequence alone is flattened to itself.
LEMMA FlattenOfOne == ASSUME NEW S, NEW p \in Seq(S) PROVE FlattenSeq(<<p>>) = p
<1> DEFINE X == Seq(S)
<1>1. <<>> \in Seq(X) /\ Append(<<>>, p) = <<p>>
  OBVIOUS
<1>2. FlattenSeq(Append(<<>>, p)) = FlattenSeq(<<>>) \o p
  BY <1>1, FlattenAppend
<1>3. <<>> \o p = p
  BY ConcatEmptySeq
<1> QED BY <1>1, <1>2, <1>3, FlattenOfNothing, Zenon

\* The frames in s are fs, and none is cut off at its end.
Holds(s, fs) ==
  /\ s \in Seq(Byte) /\ fs \in Seq(WireFrames)
  /\ s = <<>> \/ s[Len(s)] = EndMarker
  /\ \A i \in 1 .. Len(s) : PieceStarts(s, i) # {} /\ FrameAt(s, i) \in Seq(WireFrames)
  /\ FramesIn(s) = fs

\* A stream that holds frames, and one frame more.
LEMMA FrameMore ==
  ASSUME NEW s, NEW fs, Holds(s, fs), NEW fr \in WireFrames
  PROVE  Holds(s \o Pack(fr), Append(fs, fr))
<1> DEFINE f == Pack(fr)
           t == s \o f
           m == Len(s)
           n == Len(f)
<1>1. /\ s \in Seq(Byte) /\ fs \in Seq(WireFrames) /\ m \in Nat
      /\ s = <<>> \/ s[m] = EndMarker
      /\ \A i \in 1 .. m : PieceStarts(s, i) # {} /\ FrameAt(s, i) \in Seq(WireFrames)
      /\ FramesIn(s) = fs
  BY LenProperties DEF Holds
<1>2. Framed(f) /\ f \in Seq(Byte) /\ n \in 9 .. MaxFrame /\ UnpackFrame(f) = <<fr>>
  BY PackWire
<1> HIDE DEF f
<1>3. /\ n \in Nat /\ n >= 2
      /\ f[n] = EndMarker /\ \A k \in 1 .. n - 1 : f[k] # EndMarker
  <2>1. n \in Nat
    BY <1>2, LenProperties
  <2>2. f[1] # EndMarker /\ \A k \in 2 .. n - 1 : f[k] # EndMarker
    BY <1>2 DEF Framed, StartMarker, EndMarker
  <2>3. \A k \in 1 .. n - 1 : k = 1 \/ k \in 2 .. n - 1
    BY <2>1
  <2> QED BY <1>2, <2>1, <2>2, <2>3 DEF Framed
<1>4. /\ t \in Seq(Byte) /\ Len(t) = m + n
      /\ \A i \in 1 .. m : t[i] = s[i]
      /\ \A k \in 1 .. n : t[m + k] = f[k]
  <2>1. /\ t \in Seq(Byte) /\ Len(t) = m + n
        /\ \A i \in 1 .. m + n : t[i] = IF i <= m THEN s[i] ELSE f[i - m]
    BY <1>1, <1>2, ConcatProperties, Zenon
  <2>2. \A i \in 1 .. m : i \in 1 .. m + n /\ i <= m
    BY <1>1, <1>3
  <2>3. \A k \in 1 .. n : m + k \in 1 .. m + n /\ ~(m + k <= m) /\ (m + k) - m = k
    BY <1>1, <1>3
  <2> HIDE DEF t, m, n
  <2> QED BY <2>1, <2>2, <2>3
<1>5. \A i, j \in 1 .. n : SubSeq(t, m + i, m + j) = SubSeq(f, i, j)
  <2> SUFFICES ASSUME NEW i \in 1 .. n, NEW j \in 1 .. n PROVE SubSeq(t, m + i, m + j) = SubSeq(f, i, j)
    OBVIOUS
  <2>1. /\ m + i \in m + 1 .. m + n /\ m + j \in m + 1 .. m + n
        /\ (m + i) - m = i /\ (m + j) - m = j
    BY <1>1, <1>3
  <2>2. SubSeq(t, m + i, m + j) = SubSeq(f, (m + i) - m, (m + j) - m)
    BY <1>1, <1>2, <2>1, SubSeqOfConcat2, Zenon
  <2> QED BY <2>1, <2>2, Zenon
<1>6. \A i, j \in 1 .. m : SubSeq(t, i, j) = SubSeq(s, i, j)
  BY <1>1, <1>2, SubSeqOfConcat1, Zenon
<1> HIDE DEF t, m, n
<1>7. ASSUME NEW i \in 1 .. m
      PROVE  PieceStarts(t, i) = PieceStarts(s, i) /\ FrameAt(t, i) = FrameAt(s, i)
  <2>1. \A k \in 1 .. i : /\ k = 1 \/ t[k - 1] = s[k - 1]
                          /\ \A j \in k .. i - 1 : t[j] = s[j]
    <3> SUFFICES ASSUME NEW k \in 1 .. i
                 PROVE  (k = 1 \/ t[k - 1] = s[k - 1]) /\ \A j \in k .. i - 1 : t[j] = s[j]
      OBVIOUS
    <3>1. k = 1 \/ k - 1 \in 1 .. m
      BY <1>1
    <3>2. \A j \in k .. i - 1 : j \in 1 .. m
      BY <1>1
    <3> QED BY <1>4, <3>1, <3>2, Zenon
  <2>2. PieceStarts(t, i) = PieceStarts(s, i)
    BY <2>1, Zenon DEF PieceStarts
  <2>3. PICK k : k = CHOOSE j \in PieceStarts(s, i) : TRUE
    OBVIOUS
  <2>4. k \in 1 .. m
    <3>1. k \in PieceStarts(s, i)
      BY <1>1, <2>3
    <3>2. k \in 1 .. i
      BY <3>1, Zenon DEF PieceStarts
    <3> QED BY <1>1, <3>2
  <2>5. Piece(t, i) = Piece(s, i)
    <3>1. Piece(s, i) = SubSeq(s, k, i) /\ Piece(t, i) = SubSeq(t, k, i)
      BY <2>2, <2>3, Zenon DEF Piece
    <3> QED BY <1>6, <2>4, <3>1, Zenon
  <2>6. t[i] = s[i]
    BY <1>4
  <2> QED BY <2>2, <2>5, <2>6, Zenon DEF FrameAt
<1>8. ASSUME NEW k \in 1 .. n PROVE PieceStarts(t, m + k) = {m + 1}
  <2>0. \A a, z : a \in PieceStarts(t, z)
                     <=> a \in 1 .. z /\ (a = 1 \/ t[a - 1] = EndMarker) /\ \A j \in a .. z - 1 : t[j] # EndMarker
    BY DEF PieceStarts
  <2>1. m + 1 \in 1 .. m + k /\ (m + 1) - 1 = m
    BY <1>1, <1>3
  <2>2. m + 1 = 1 \/ t[m] = EndMarker
    <3>1. CASE s = <<>>
      <4>1. m = 0
        BY <3>1 DEF m
      <4> QED BY <4>1
    <3>2. CASE s # <<>>
      <4>1. m \in 1 .. m
        BY <1>1, <3>2, EmptySeq DEF m
      <4> QED BY <1>1, <1>4, <3>2, <4>1, Zenon
    <3> QED BY <3>1, <3>2
  <2>3. \A j \in m + 1 .. (m + k) - 1 : t[j] # EndMarker
    <3> SUFFICES ASSUME NEW j \in m + 1 .. (m + k) - 1 PROVE t[j] # EndMarker
      OBVIOUS
    <3>1. j - m \in 1 .. n - 1 /\ j - m \in 1 .. n /\ m + (j - m) = j
      BY <1>1, <1>3
    <3> QED BY <1>3, <1>4, <3>1, Zenon
  <2>4. m + 1 \in PieceStarts(t, m + k)
    BY <2>0, <2>1, <2>2, <2>3
  <2>5. ASSUME NEW i \in PieceStarts(t, m + k), i # m + 1 PROVE FALSE
    <3>1. /\ i \in 1 .. m + k /\ (i = 1 \/ t[i - 1] = EndMarker)
          /\ \A j \in i .. (m + k) - 1 : t[j] # EndMarker
      BY <2>0, <2>5, Zenon
    <3>2. CASE i <= m
      <4>1. m \in i .. (m + k) - 1 /\ m + 1 # 1
        BY <1>1, <1>3, <3>1, <3>2
      <4> QED BY <2>2, <3>1, <4>1, Zenon
    <3>3. CASE ~(i <= m)
      <4>1. /\ i # 1 /\ i - 1 \in m + 1 .. (m + k) - 1
        BY <1>1, <1>3, <2>5, <3>1, <3>3
      <4> QED BY <2>3, <3>1, <4>1, Zenon
    <3> QED BY <3>2, <3>3
  <2> QED BY <2>4, <2>5
<1>9. ASSUME NEW k \in 1 .. n PROVE FrameAt(t, m + k) = IF k = n THEN <<fr>> ELSE <<>>
  <2>1. CASE k # n
    <3>1. k \in 1 .. n - 1
      BY <1>3, <2>1
    <3>2. t[m + k] # EndMarker
      BY <1>3, <1>4, <3>1, Zenon
    <3> QED BY <2>1, <3>2, Zenon DEF FrameAt
  <2>2. CASE k = n
    <3>1. Piece(t, m + n) = SubSeq(t, m + 1, m + n)
      <4>1. (CHOOSE j \in PieceStarts(t, m + n) : TRUE) = m + 1
        BY <1>8, <2>2
      <4> QED BY <4>1, Zenon DEF Piece
    <3>2. SubSeq(t, m + 1, m + n) = f
      <4>1. 1 \in 1 .. n /\ n \in 1 .. n
        BY <1>3
      <4>2. SubSeq(f, 1, n) = f
        BY <1>2, SubSeqFull DEF n
      <4> QED BY <1>5, <4>1, <4>2, Zenon
    <3>3. NextFrame(f) = [frame |-> <<f>>, rest |-> <<>>]
      <4>1. f \o <<>> = f /\ <<>> \in Seq(Byte)
        BY <1>2, ConcatEmptySeq
      <4> QED BY <1>2, <4>1, NextOfFramed, Zenon
    <3>4. FlattenSeq(NextFrame(f).frame) = f
      BY <1>2, <3>3, FlattenOfOne
    <3>5. t[m + n] = EndMarker
      BY <1>3, <1>4, <2>2, Zenon
    <3> QED BY <1>2, <2>2, <3>1, <3>2, <3>4, <3>5, Zenon DEF FrameAt
  <2> QED BY <2>1, <2>2
<1> DEFINE X == Seq(WireFrames)
           ps == [i \in 1 .. m |-> FrameAt(s, i)]
           es == [i \in 1 .. n - 1 |-> <<>>]
           qs == Append(es, <<fr>>)
<1>10. ps \in Seq(X) /\ Len(ps) = m
  <2> DEFINE p(i) == FrameAt(s, i)
  <2>1. \A i \in 1 .. m : p(i) \in X
    BY <1>1, Zenon
  <2> HIDE DEF p, X
  <2>2. [i \in 1 .. m |-> p(i)] \in Seq(X) /\ Len([i \in 1 .. m |-> p(i)]) = m
    BY <1>1, <2>1
  <2> QED BY <2>2, Zenon DEF p
<1>11. <<fr>> \in X /\ <<>> \in X
  OBVIOUS
<1>12. es \in Seq(X) /\ Len(es) = n - 1
  <2> DEFINE none == <<>>
  <2>1. none \in X /\ n - 1 \in Nat
    BY <1>3, <1>11
  <2> HIDE DEF none, X
  <2>2. [i \in 1 .. n - 1 |-> none] \in Seq(X) /\ Len([i \in 1 .. n - 1 |-> none]) = n - 1
    BY <2>1
  <2> QED BY <2>2 DEF none
<1>13. /\ qs \in Seq(X) /\ Len(qs) = n
       /\ \A k \in 1 .. n : qs[k] = IF k = n THEN <<fr>> ELSE <<>>
  <2>1. \A i \in 1 .. n - 1 : es[i] = <<>>
    OBVIOUS
  <2> HIDE DEF X, es
  <2>2. /\ qs \in Seq(X) /\ Len(qs) = Len(es) + 1 /\ qs[Len(es) + 1] = <<fr>>
        /\ \A i \in 1 .. Len(es) : qs[i] = es[i]
    BY <1>11, <1>12, AppendProperties
  <2>3. (n - 1) + 1 = n /\ \A k \in 1 .. n : k = n \/ k \in 1 .. n - 1
    BY <1>3
  <2> HIDE DEF qs
  <2>4. n \notin 1 .. n - 1
    BY <1>3
  <2> QED BY <1>12, <2>1, <2>2, <2>3, <2>4, Zenon
<1>14. FlattenSeq(qs) = <<fr>>
  <2>1. n - 1 \in Nat
    BY <1>3
  <2>2. FlattenSeq(es) = <<>>
    BY <2>1, FlattenOfEmpties
  <2> HIDE DEF es
  <2>3. FlattenSeq(qs) = FlattenSeq(es) \o <<fr>>
    BY <1>11, <1>12, FlattenAppend
  <2>4. <<>> \o <<fr>> = <<fr>>
    BY <1>11, ConcatEmptySeq
  <2> QED BY <2>2, <2>3, <2>4, Zenon
<1>15. FramesIn(t) = FlattenSeq(ps \o qs)
  <2> DEFINE g == [i \in 1 .. m + n |-> FrameAt(t, i)]
  <2>1. FramesIn(t) = FlattenSeq(g)
    BY <1>4, Zenon DEF FramesIn
  <2>2. \A i \in 1 .. m + n : FrameAt(t, i) \in X /\ FrameAt(t, i) = IF i <= m THEN ps[i] ELSE qs[i - m]
    <3> SUFFICES ASSUME NEW i \in 1 .. m + n
                 PROVE  FrameAt(t, i) \in X /\ FrameAt(t, i) = IF i <= m THEN ps[i] ELSE qs[i - m]
      OBVIOUS
    <3>1. CASE i <= m
      <4>1. i \in 1 .. m
        BY <1>1, <3>1
      <4>2. ps[i] = FrameAt(s, i)
        BY <4>1, Zenon
      <4> QED BY <1>1, <1>7, <3>1, <4>1, <4>2, Zenon
    <3>2. CASE ~(i <= m)
      <4>1. i - m \in 1 .. n /\ m + (i - m) = i
        BY <1>1, <1>3, <3>2
      <4> HIDE DEF ps, qs, X
      <4> QED BY <1>9, <1>11, <1>13, <3>2, <4>1, Zenon
    <3> QED BY <3>1, <3>2
  <2> HIDE DEF ps, qs, X
  <2>3. /\ ps \o qs \in Seq(X) /\ Len(ps \o qs) = m + n
        /\ \A i \in 1 .. m + n : (ps \o qs)[i] = IF i <= m THEN ps[i] ELSE qs[i - m]
    BY <1>10, <1>13, ConcatProperties
  <2>4. g \in Seq(X) /\ Len(g) = m + n /\ \A i \in 1 .. m + n : g[i] = FrameAt(t, i)
    <3> DEFINE p(i) == FrameAt(t, i)
    <3>1. \A i \in 1 .. m + n : p(i) \in X
      BY <2>2, Zenon
    <3>2. m + n \in Nat
      BY <1>1, <1>3
    <3> HIDE DEF p
    <3>3. /\ [i \in 1 .. m + n |-> p(i)] \in Seq(X) /\ Len([i \in 1 .. m + n |-> p(i)]) = m + n
          /\ \A i \in 1 .. m + n : [j \in 1 .. m + n |-> p(j)][i] = p(i)
      BY <3>1, <3>2
    <3> QED BY <3>3, Zenon DEF p
  <2> HIDE DEF g
  <2>5. g = ps \o qs
    <3>1. \A i \in 1 .. Len(g) : g[i] = (ps \o qs)[i]
      BY <2>2, <2>3, <2>4, Zenon
    <3> QED BY <2>3, <2>4, <3>1, SeqEqual
  <2> QED BY <2>1, <2>5, Zenon
<1>16. FramesIn(t) = Append(fs, fr)
  <2>1. FlattenSeq(ps) = fs
    BY <1>1, Zenon DEF FramesIn, m
  <2> HIDE DEF ps, qs
  <2>2. FlattenSeq(ps \o qs) = FlattenSeq(ps) \o FlattenSeq(qs)
    BY <1>10, <1>13, FlattenConcat
  <2>3. fs \o <<fr>> = Append(fs, fr)
    BY <1>1, AppendIsConcat
  <2> QED BY <1>14, <1>15, <2>1, <2>2, <2>3, Zenon
<1>17. ASSUME NEW i \in 1 .. Len(t) PROVE PieceStarts(t, i) # {} /\ FrameAt(t, i) \in X
  <2>1. CASE i <= m
    <3>1. i \in 1 .. m
      BY <1>1, <1>4, <2>1
    <3> QED BY <1>1, <1>7, <3>1, Zenon
  <2>2. CASE ~(i <= m)
    <3>1. i - m \in 1 .. n /\ m + (i - m) = i
      BY <1>1, <1>3, <1>4, <2>2
    <3>2. PieceStarts(t, i) = {m + 1}
      BY <1>8, <3>1
    <3>3. FrameAt(t, i) = <<fr>> \/ FrameAt(t, i) = <<>>
      BY <1>9, <3>1, Zenon
    <3> QED BY <1>11, <3>2, <3>3
  <2> QED BY <2>1, <2>2
<1>18. t[Len(t)] = EndMarker
  <2>1. n \in 1 .. n
    BY <1>3
  <2> QED BY <1>3, <1>4, <2>1, Zenon
<1>19. Append(fs, fr) \in Seq(WireFrames)
  BY <1>1, AppendProperties
<1>20. Holds(t, Append(fs, fr))
  BY <1>4, <1>16, <1>17, <1>18, <1>19, Zenon DEF Holds
<1> QED BY <1>20, Zenon DEF t, f

\* The frames in a stream of frames are those it was made of.
LEMMA FramesOfStream == ASSUME NEW fs \in Seq(WireFrames) PROVE FramesIn(Bytes(fs)) = fs
<1> DEFINE T == {q \in Seq(WireFrames) : Holds(Bytes(q), q)}
<1>1. <<>> \in T
  <2>1. <<>> \in Seq(WireFrames) /\ <<>> \in Seq(Byte) /\ \A i : i \notin 1 .. Len(<<>>)
    OBVIOUS
  <2>2. FramesIn(<<>>) = <<>>
    <3>1. [i \in 1 .. Len(<<>>) |-> FrameAt(<<>>, i)] = <<>>
      OBVIOUS
    <3> QED BY <3>1, FlattenOfNothing, Zenon DEF FramesIn
  <2>3. Holds(<<>>, <<>>)
    BY <2>1, <2>2, Zenon DEF Holds
  <2> QED BY <2>1, <2>3, BytesOfNothing, Zenon
<1>2. \A q \in Seq(WireFrames) : \A x \in WireFrames : q \in T => Append(q, x) \in T
  <2> SUFFICES ASSUME NEW q \in Seq(WireFrames), NEW x \in WireFrames, Holds(Bytes(q), q)
               PROVE  Append(q, x) \in Seq(WireFrames) /\ Holds(Bytes(Append(q, x)), Append(q, x))
    OBVIOUS
  <2>1. Append(q, x) \in Seq(WireFrames)
    BY AppendProperties
  <2>2. Bytes(Append(q, x)) = Bytes(q) \o Pack(x)
    BY BytesAppend
  <2> QED BY <2>1, <2>2, FrameMore, Zenon
<1> HIDE DEF T
<1>3. fs \in T
  BY <1>1, <1>2, SeqInduction
<1> QED BY <1>3, Zenon DEF T, Holds

-----------------------------------------------------------------------------
(* Payloads. *)

NamesThereAre == DOMAIN Values \cup {"noise", "battery_level"}

\* The settings that are given values.
LEMMA DomainOfValues ==
  DOMAIN Values = {"eq_preset", "surround", "sound_position", "auto_power_off", "connection_mode",
                   "optimizer_state", "volume", "nc_button", "touch_panel", "voice_guidance", "dsee_hx"}
BY DEF Values

\* A value is one byte on the wire.
LEMMA ValuesAreBytes == \A s \in DOMAIN Values : \A v \in Values[s] : v \in Byte
BY DEF Values, EqPresets, Surrounds, SoundPositions, ConnectionModes, Timers, NcButtons, MaxVolume, Byte

\* The payload that sets s, byte for byte.
LEMMA SetPayloads ==
  ASSUME NEW v
  PROVE  /\ SerializeSet("eq_preset", v) = <<88, 1, v, 0>>
         /\ SerializeSet("surround", v) = <<72, 1, v>>
         /\ SerializeSet("sound_position", v) = <<72, 2, v>>
         /\ SerializeSet("connection_mode", v) = <<232, 1, 0, v>>
         /\ SerializeSet("dsee_hx", v) = <<232, 2, 0, v>>
         /\ SerializeSet("optimizer_state", v) = <<132, 1, 0, v>>
         /\ SerializeSet("auto_power_off", v) = <<248, 4, 1, v, IF v = 17 THEN 3 ELSE v>>
         /\ SerializeSet("volume", v) = <<168, 1, 32, v>>
         /\ SerializeSet("voice_guidance", v) = <<72, 1, 1, v>>
         /\ SerializeSet("nc_button", v) = <<216, 209, 2, v>>
         /\ SerializeSet("touch_panel", v) = <<216, 210, 1, v>>
<1>1. SerializeSet("eq_preset", v) = <<88, 1, v, 0>>
  BY DEF SerializeSet, Set, Ask, Inquired, Detail
<1>2. SerializeSet("surround", v) = <<72, 1, v>> /\ SerializeSet("sound_position", v) = <<72, 2, v>>
  BY DEF SerializeSet, Set, Ask, Inquired, Detail
<1>3. SerializeSet("connection_mode", v) = <<232, 1, 0, v>> /\ SerializeSet("dsee_hx", v) = <<232, 2, 0, v>>
  BY DEF SerializeSet, Set, Ask, Inquired, Detail
<1>4. SerializeSet("optimizer_state", v) = <<132, 1, 0, v>>
  BY DEF SerializeSet, Set, Ask, Inquired, Detail
<1>5. SerializeSet("auto_power_off", v) = <<248, 4, 1, v, IF v = 17 THEN 3 ELSE v>>
  BY DEF SerializeSet, Set, Ask, Inquired, Detail
<1>6. SerializeSet("volume", v) = <<168, 1, 32, v>> /\ SerializeSet("voice_guidance", v) = <<72, 1, 1, v>>
  BY DEF SerializeSet, Set, Ask, Inquired, Detail
<1>7. SerializeSet("nc_button", v) = <<216, 209, 2, v>> /\ SerializeSet("touch_panel", v) = <<216, 210, 1, v>>
  BY DEF SerializeSet, Set, Ask, Inquired, Detail
<1> QED BY <1>1, <1>2, <1>3, <1>4, <1>5, <1>6, <1>7, Zenon

\* A payload of a few bytes, with another first byte.
LEMMA ThreeBytes ==
  ASSUME NEW a \in Byte, NEW b \in Byte, NEW c \in Byte, NEW f \in Byte
  PROVE  /\ <<a, b, c>> \in Seq(Byte) /\ Len(<<a, b, c>>) = 3
         /\ [<<a, b, c>> EXCEPT ![1] = f] = <<f, b, c>>
OBVIOUS

\* The same of four bytes.
LEMMA FourBytes ==
  ASSUME NEW a \in Byte, NEW b \in Byte, NEW c \in Byte, NEW d \in Byte, NEW f \in Byte
  PROVE  /\ <<a, b, c, d>> \in Seq(Byte) /\ Len(<<a, b, c, d>>) = 4
         /\ [<<a, b, c, d>> EXCEPT ![1] = f] = <<f, b, c, d>>
OBVIOUS

\* The same of five, for the timer that powers off.
LEMMA FiveBytes ==
  ASSUME NEW a \in Byte, NEW b \in Byte, NEW c \in Byte, NEW d \in Byte, NEW e \in Byte, NEW f \in Byte
  PROVE  /\ <<a, b, c, d, e>> \in Seq(Byte) /\ Len(<<a, b, c, d, e>>) = 5
         /\ [<<a, b, c, d, e>> EXCEPT ![1] = f] = <<f, b, c, d, e>>
OBVIOUS

\* The same of eight, for noise control.
LEMMA EightBytes ==
  ASSUME NEW a \in Byte, NEW b \in Byte, NEW c \in Byte, NEW d \in Byte, NEW e \in Byte, NEW g \in Byte,
         NEW h \in Byte, NEW i \in Byte, NEW f \in Byte
  PROVE  /\ <<a, b, c, d, e, g, h, i>> \in Seq(Byte) /\ Len(<<a, b, c, d, e, g, h, i>>) = 8
         /\ [<<a, b, c, d, e, g, h, i>> EXCEPT ![1] = f] = <<f, b, c, d, e, g, h, i>>
OBVIOUS

SettingReport(s, v, first) == Frame(TypeOf(s), [SerializeSet(s, v) EXCEPT ![1] = first])
Firsts(s) == {Ret(s), Ntfy(s)}

\* A frame of data with these fields, and no question.
Says(fr, fields) ==
  /\ fr \in WireFrames /\ fr.type \in {MDR, MDR2}
  /\ Fields(fr) = fields /\ ~AsksToProceed(fr.payload)

\* The types of frames are bytes, and differ.
LEMMA TypesOfFrames ==
  /\ ACK \in Byte /\ MDR \in Byte /\ MDR2 \in Byte /\ 0 \in Byte
  /\ ACK # MDR /\ ACK # MDR2 /\ MDR # MDR2
BY DEF ACK, MDR, MDR2, Byte

\* What is in a frame of the headset's.
LEMMA FrameIs ==
  ASSUME NEW t \in Byte, NEW p \in Seq(Byte), Len(p) <= MaxPayload
  PROVE  Frame(t, p) \in WireFrames /\ Frame(t, p).type = t /\ Frame(t, p).payload = p
<1>1. p \in {q \in Seq(Byte) : Len(q) <= MaxPayload}
  OBVIOUS
<1>2. Frame(t, p) \in WireFrames
  BY <1>1, TypesOfFrames, Zenon DEF Frame, WireFrames
<1> QED BY <1>2, Zenon DEF Frame

\* A payload that does not ask says in its frame what its parser makes of it.
LEMMA SaidBy ==
  ASSUME NEW p \in Seq(Byte), NEW fields, Len(p) <= MaxPayload, p[1] # 153
  PROVE  /\ ParseInbound(p) = fields => Says(Frame(MDR, p), fields)
         /\ ParseT2(p) = fields => Says(Frame(MDR2, p), fields)
<1>1. \A t \in {MDR, MDR2} : Frame(t, p) \in WireFrames /\ Frame(t, p).type = t /\ Frame(t, p).payload = p
  BY TypesOfFrames, FrameIs, Zenon
<1>2. ~AsksToProceed(p)
  BY DEF AsksToProceed
<1>3. Fields(Frame(MDR, p)) = ParseInbound(p) /\ Fields(Frame(MDR2, p)) = ParseT2(p)
  BY <1>1, TypesOfFrames, Zenon DEF Fields
<1> QED BY <1>1, <1>2, <1>3, Zenon DEF Says

\* A volume that can be set is not cut by the parser.
LEMMA VolumeFits == \A v \in 0 .. MaxVolume : Min({v, MaxVolume}) = v
<1> TAKE v \in 0 .. MaxVolume
<1>1. \A y \in {v, MaxVolume} : v <= y
  BY DEF MaxVolume
<1>2. \A x \in {v, MaxVolume} : (\A y \in {v, MaxVolume} : x <= y) => x = v
  BY DEF MaxVolume
<1> QED BY <1>1, <1>2 DEF Min

\* A report of a setting says its value.
LEMMA SettingSaid ==
  ASSUME NEW s \in DOMAIN Values, NEW v \in Values[s], NEW first \in Firsts(s)
  PROVE  Says(SettingReport(s, v, first), Field(s, v))
<1>1. v \in Byte /\ first \in Byte /\ first # 153 /\ first \in {Ret(s), Ntfy(s)}
  <2>1. v \in Byte
    BY ValuesAreBytes
  <2>2. first \in Byte /\ first # 153
    BY DomainOfValues DEF Firsts, Ret, Ntfy, Ask, Byte
  <2> QED BY <2>1, <2>2 DEF Firsts
<1>2. \A n \in {0, 1, 2, 4, 32, 209, 210, 72, 88, 132, 168, 216, 232, 248} : n \in Byte
  BY DEF Byte
<1>3. CASE s = "eq_preset"
  <2>0. SerializeSet(s, v) = <<88, 1, v, 0>>
    BY <1>3, SetPayloads, Zenon
  <2>1. [SerializeSet(s, v) EXCEPT ![1] = first] = <<first, 1, v, 0>> /\ <<first, 1, v, 0>> \in Seq(Byte) /\ Len(<<first, 1, v, 0>>) = 4
    BY <1>1, <1>2, <2>0, FourBytes
  <2>2. ParseInbound(<<first, 1, v, 0>>) = Field(s, v)
    BY <1>1, <1>3
       DEF ParseInbound, DeviceFields, Reports, Known, Detail, Inquired, Ret, Ntfy, Ask, Bit, Values,
           EqPresets, Surrounds, SoundPositions, ConnectionModes, Timers, NcButtons, MaxVolume, OptimizerStates
  <2>3. TypeOf(s) = MDR
    BY <1>3 DEF TypeOf
  <2>4. Len(<<first, 1, v, 0>>) <= MaxPayload /\ <<first, 1, v, 0>>[1] # 153
    BY <1>1, <2>1, SMT DEF MaxPayload
  <2>5. Says(Frame(MDR, <<first, 1, v, 0>>), Field(s, v))
    BY <2>1, <2>2, <2>4, SaidBy, Zenon
  <2> QED BY <2>1, <2>3, <2>5, Zenon DEF SettingReport
<1>4. CASE s = "connection_mode"
  <2>0. SerializeSet(s, v) = <<232, 1, 0, v>>
    BY <1>4, SetPayloads, Zenon
  <2>1. [SerializeSet(s, v) EXCEPT ![1] = first] = <<first, 1, 0, v>> /\ <<first, 1, 0, v>> \in Seq(Byte) /\ Len(<<first, 1, 0, v>>) = 4
    BY <1>1, <1>2, <2>0, FourBytes
  <2>2. ParseInbound(<<first, 1, 0, v>>) = Field(s, v)
    BY <1>1, <1>4
       DEF ParseInbound, DeviceFields, Reports, Known, Detail, Inquired, Ret, Ntfy, Ask, Bit, Values,
           EqPresets, Surrounds, SoundPositions, ConnectionModes, Timers, NcButtons, MaxVolume, OptimizerStates
  <2>3. TypeOf(s) = MDR
    BY <1>4 DEF TypeOf
  <2>4. Len(<<first, 1, 0, v>>) <= MaxPayload /\ <<first, 1, 0, v>>[1] # 153
    BY <1>1, <2>1, SMT DEF MaxPayload
  <2>5. Says(Frame(MDR, <<first, 1, 0, v>>), Field(s, v))
    BY <2>1, <2>2, <2>4, SaidBy, Zenon
  <2> QED BY <2>1, <2>3, <2>5, Zenon DEF SettingReport
<1>5. CASE s = "dsee_hx"
  <2>0. SerializeSet(s, v) = <<232, 2, 0, v>>
    BY <1>5, SetPayloads, Zenon
  <2>1. [SerializeSet(s, v) EXCEPT ![1] = first] = <<first, 2, 0, v>> /\ <<first, 2, 0, v>> \in Seq(Byte) /\ Len(<<first, 2, 0, v>>) = 4
    BY <1>1, <1>2, <2>0, FourBytes
  <2>2. ParseInbound(<<first, 2, 0, v>>) = Field(s, v)
    BY <1>1, <1>5
       DEF ParseInbound, DeviceFields, Reports, Known, Detail, Inquired, Ret, Ntfy, Ask, Bit, Values,
           EqPresets, Surrounds, SoundPositions, ConnectionModes, Timers, NcButtons, MaxVolume, OptimizerStates
  <2>3. TypeOf(s) = MDR
    BY <1>5 DEF TypeOf
  <2>4. Len(<<first, 2, 0, v>>) <= MaxPayload /\ <<first, 2, 0, v>>[1] # 153
    BY <1>1, <2>1, SMT DEF MaxPayload
  <2>5. Says(Frame(MDR, <<first, 2, 0, v>>), Field(s, v))
    BY <2>1, <2>2, <2>4, SaidBy, Zenon
  <2> QED BY <2>1, <2>3, <2>5, Zenon DEF SettingReport
<1>6. CASE s = "optimizer_state"
  <2>0. SerializeSet(s, v) = <<132, 1, 0, v>>
    BY <1>6, SetPayloads, Zenon
  <2>1. [SerializeSet(s, v) EXCEPT ![1] = first] = <<first, 1, 0, v>> /\ <<first, 1, 0, v>> \in Seq(Byte) /\ Len(<<first, 1, 0, v>>) = 4
    BY <1>1, <1>2, <2>0, FourBytes
  <2>2. ParseInbound(<<first, 1, 0, v>>) = Field(s, v)
    BY <1>1, <1>6
       DEF ParseInbound, DeviceFields, Reports, Known, Detail, Inquired, Ret, Ntfy, Ask, Bit, Values,
           EqPresets, Surrounds, SoundPositions, ConnectionModes, Timers, NcButtons, MaxVolume, OptimizerStates
  <2>3. TypeOf(s) = MDR
    BY <1>6 DEF TypeOf
  <2>4. Len(<<first, 1, 0, v>>) <= MaxPayload /\ <<first, 1, 0, v>>[1] # 153
    BY <1>1, <2>1, SMT DEF MaxPayload
  <2>5. Says(Frame(MDR, <<first, 1, 0, v>>), Field(s, v))
    BY <2>1, <2>2, <2>4, SaidBy, Zenon
  <2> QED BY <2>1, <2>3, <2>5, Zenon DEF SettingReport
<1>7. CASE s = "volume"
  <2>0. SerializeSet(s, v) = <<168, 1, 32, v>>
    BY <1>7, SetPayloads, Zenon
  <2>1. [SerializeSet(s, v) EXCEPT ![1] = first] = <<first, 1, 32, v>> /\ <<first, 1, 32, v>> \in Seq(Byte) /\ Len(<<first, 1, 32, v>>) = 4
    BY <1>1, <1>2, <2>0, FourBytes
  <2>2. ParseInbound(<<first, 1, 32, v>>) = Field(s, v)
    BY <1>1, <1>7, VolumeFits
       DEF ParseInbound, DeviceFields, Reports, Known, Detail, Inquired, Ret, Ntfy, Ask, Bit, Values,
           EqPresets, Surrounds, SoundPositions, ConnectionModes, Timers, NcButtons, OptimizerStates
  <2>3. TypeOf(s) = MDR
    BY <1>7 DEF TypeOf
  <2>4. Len(<<first, 1, 32, v>>) <= MaxPayload /\ <<first, 1, 32, v>>[1] # 153
    BY <1>1, <2>1, SMT DEF MaxPayload
  <2>5. Says(Frame(MDR, <<first, 1, 32, v>>), Field(s, v))
    BY <2>1, <2>2, <2>4, SaidBy, Zenon
  <2> QED BY <2>1, <2>3, <2>5, Zenon DEF SettingReport
<1>8. CASE s = "voice_guidance"
  <2>0. SerializeSet(s, v) = <<72, 1, 1, v>>
    BY <1>8, SetPayloads, Zenon
  <2>1. [SerializeSet(s, v) EXCEPT ![1] = first] = <<first, 1, 1, v>> /\ <<first, 1, 1, v>> \in Seq(Byte) /\ Len(<<first, 1, 1, v>>) = 4
    BY <1>1, <1>2, <2>0, FourBytes
  <2>2. ParseT2(<<first, 1, 1, v>>) = Field(s, v)
    BY <1>1, <1>8
       DEF ParseT2, Ret, Ntfy, Ask, Bit, Values,
           EqPresets, Surrounds, SoundPositions, ConnectionModes, Timers, NcButtons, MaxVolume, OptimizerStates
  <2>3. TypeOf(s) = MDR2
    BY <1>8 DEF TypeOf
  <2>4. Len(<<first, 1, 1, v>>) <= MaxPayload /\ <<first, 1, 1, v>>[1] # 153
    BY <1>1, <2>1, SMT DEF MaxPayload
  <2>5. Says(Frame(MDR2, <<first, 1, 1, v>>), Field(s, v))
    BY <2>1, <2>2, <2>4, SaidBy, Zenon
  <2> QED BY <2>1, <2>3, <2>5, Zenon DEF SettingReport
<1>9. CASE s = "nc_button"
  <2>0. SerializeSet(s, v) = <<216, 209, 2, v>>
    BY <1>9, SetPayloads, Zenon
  <2>1. [SerializeSet(s, v) EXCEPT ![1] = first] = <<first, 209, 2, v>> /\ <<first, 209, 2, v>> \in Seq(Byte) /\ Len(<<first, 209, 2, v>>) = 4
    BY <1>1, <1>2, <2>0, FourBytes
  <2>2. ParseInbound(<<first, 209, 2, v>>) = Field(s, v)
    BY <1>1, <1>9
       DEF ParseInbound, DeviceFields, Reports, Known, Detail, Inquired, Ret, Ntfy, Ask, Bit, Values,
           EqPresets, Surrounds, SoundPositions, ConnectionModes, Timers, NcButtons, MaxVolume, OptimizerStates
  <2>3. TypeOf(s) = MDR
    BY <1>9 DEF TypeOf
  <2>4. Len(<<first, 209, 2, v>>) <= MaxPayload /\ <<first, 209, 2, v>>[1] # 153
    BY <1>1, <2>1, SMT DEF MaxPayload
  <2>5. Says(Frame(MDR, <<first, 209, 2, v>>), Field(s, v))
    BY <2>1, <2>2, <2>4, SaidBy, Zenon
  <2> QED BY <2>1, <2>3, <2>5, Zenon DEF SettingReport
<1>10. CASE s = "touch_panel"
  <2>0. SerializeSet(s, v) = <<216, 210, 1, v>>
    BY <1>10, SetPayloads, Zenon
  <2>1. [SerializeSet(s, v) EXCEPT ![1] = first] = <<first, 210, 1, v>> /\ <<first, 210, 1, v>> \in Seq(Byte) /\ Len(<<first, 210, 1, v>>) = 4
    BY <1>1, <1>2, <2>0, FourBytes
  <2>2. ParseInbound(<<first, 210, 1, v>>) = Field(s, v)
    BY <1>1, <1>10
       DEF ParseInbound, DeviceFields, Reports, Known, Detail, Inquired, Ret, Ntfy, Ask, Bit, Values,
           EqPresets, Surrounds, SoundPositions, ConnectionModes, Timers, NcButtons, MaxVolume, OptimizerStates
  <2>3. TypeOf(s) = MDR
    BY <1>10 DEF TypeOf
  <2>4. Len(<<first, 210, 1, v>>) <= MaxPayload /\ <<first, 210, 1, v>>[1] # 153
    BY <1>1, <2>1, SMT DEF MaxPayload
  <2>5. Says(Frame(MDR, <<first, 210, 1, v>>), Field(s, v))
    BY <2>1, <2>2, <2>4, SaidBy, Zenon
  <2> QED BY <2>1, <2>3, <2>5, Zenon DEF SettingReport
<1>11. CASE s = "surround"
  <2>0. SerializeSet(s, v) = <<72, 1, v>>
    BY <1>11, SetPayloads, Zenon
  <2>1. [SerializeSet(s, v) EXCEPT ![1] = first] = <<first, 1, v>> /\ <<first, 1, v>> \in Seq(Byte) /\ Len(<<first, 1, v>>) = 3
    BY <1>1, <1>2, <2>0, ThreeBytes
  <2>2. ParseInbound(<<first, 1, v>>) = Field(s, v)
    BY <1>1, <1>11
       DEF ParseInbound, DeviceFields, Reports, Known, Detail, Inquired, Ret, Ntfy, Ask, Bit, Values,
           EqPresets, Surrounds, SoundPositions, ConnectionModes, Timers, NcButtons, MaxVolume, OptimizerStates
  <2>3. TypeOf(s) = MDR
    BY <1>11 DEF TypeOf
  <2>4. Len(<<first, 1, v>>) <= MaxPayload /\ <<first, 1, v>>[1] # 153
    BY <1>1, <2>1, SMT DEF MaxPayload
  <2>5. Says(Frame(MDR, <<first, 1, v>>), Field(s, v))
    BY <2>1, <2>2, <2>4, SaidBy, Zenon
  <2> QED BY <2>1, <2>3, <2>5, Zenon DEF SettingReport
<1>12. CASE s = "sound_position"
  <2>0. SerializeSet(s, v) = <<72, 2, v>>
    BY <1>12, SetPayloads, Zenon
  <2>1. [SerializeSet(s, v) EXCEPT ![1] = first] = <<first, 2, v>> /\ <<first, 2, v>> \in Seq(Byte) /\ Len(<<first, 2, v>>) = 3
    BY <1>1, <1>2, <2>0, ThreeBytes
  <2>2. ParseInbound(<<first, 2, v>>) = Field(s, v)
    BY <1>1, <1>12
       DEF ParseInbound, DeviceFields, Reports, Known, Detail, Inquired, Ret, Ntfy, Ask, Bit, Values,
           EqPresets, Surrounds, SoundPositions, ConnectionModes, Timers, NcButtons, MaxVolume, OptimizerStates
  <2>3. TypeOf(s) = MDR
    BY <1>12 DEF TypeOf
  <2>4. Len(<<first, 2, v>>) <= MaxPayload /\ <<first, 2, v>>[1] # 153
    BY <1>1, <2>1, SMT DEF MaxPayload
  <2>5. Says(Frame(MDR, <<first, 2, v>>), Field(s, v))
    BY <2>1, <2>2, <2>4, SaidBy, Zenon
  <2> QED BY <2>1, <2>3, <2>5, Zenon DEF SettingReport
<1>13. CASE s = "auto_power_off"
  <2> DEFINE x == IF v = 17 THEN 3 ELSE v
  <2>0. x \in Byte /\ SerializeSet(s, v) = <<248, 4, 1, v, x>>
    BY <1>1, <1>13, SetPayloads DEF Byte
  <2> HIDE DEF x
  <2>1. [SerializeSet(s, v) EXCEPT ![1] = first] = <<first, 4, 1, v, x>> /\ <<first, 4, 1, v, x>> \in Seq(Byte) /\ Len(<<first, 4, 1, v, x>>) = 5
    BY <1>1, <1>2, <2>0, FiveBytes
  <2>2. ParseInbound(<<first, 4, 1, v, x>>) = Field(s, v)
    BY <1>1, <1>13
       DEF ParseInbound, DeviceFields, Reports, Known, Detail, Inquired, Ret, Ntfy, Ask, Bit, Values,
           EqPresets, Surrounds, SoundPositions, ConnectionModes, Timers, NcButtons, MaxVolume, OptimizerStates
  <2>3. TypeOf(s) = MDR
    BY <1>13 DEF TypeOf
  <2>4. Len(<<first, 4, 1, v, x>>) <= MaxPayload /\ <<first, 4, 1, v, x>>[1] # 153
    BY <1>1, <2>1, SMT DEF MaxPayload
  <2>5. Says(Frame(MDR, <<first, 4, 1, v, x>>), Field(s, v))
    BY <2>1, <2>2, <2>4, SaidBy, Zenon
  <2> QED BY <2>1, <2>3, <2>5, Zenon DEF SettingReport
<1> QED BY <1>3, <1>4, <1>5, <1>6, <1>7, <1>8, <1>9, <1>10, <1>11, <1>12, <1>13, DomainOfValues

-----------------------------------------------------------------------------
(* Reports. *)

\* The headset's settings, each with a value.
IsHeadset(h) ==
  /\ DOMAIN h = Settings \cup HeadsetFields
  /\ \A s \in Settings : h[s] \in Values[s]
  /\ h.battery_level \in 0 .. 100 /\ h.on \in BOOLEAN /\ h.focus \in BOOLEAN
  /\ h.step \in 0 .. MaxAmbientStep

\* Settings are named apart from what else the copy and the headset hold.
LEMMA SettingsAre ==
  /\ Settings \subseteq DOMAIN Values
  /\ \A s \in Settings : s \notin HeadsetFields /\ s \notin StateFields /\ s # "noise" /\ s # "battery_level"
  /\ Names = Settings \cup {"noise", "battery_level"}
BY ControlAssumption, DomainOfValues DEF HeadsetFields, StateFields, Names

\* What a report of s says.
FieldsOf(s, h) ==
  IF s = "noise" THEN NoiseFields(SerializeNcAsm(h.on, h.step, h.focus)) ELSE Field(s, h[s])

\* How the noise control is told: focus only with the ambient steps.
TellsNoise(f, h) ==
  /\ {"noise_mode", "voice_passthrough"} \subseteq DOMAIN f
  /\ DOMAIN f \subseteq {"noise_mode", "voice_passthrough", "ambient_sound_level"}
  /\ f["noise_mode"] = IF h.on THEN StepToNoiseMode(h.step) ELSE "off"
  /\ f["voice_passthrough"] = (h.on /\ h.focus /\ h.step >= MinAmbientStep)
  /\ "ambient_sound_level" \in DOMAIN f <=> h.on
  /\ h.on => f["ambient_sound_level"] = h.step

\* The bytes of the noise control, but for the first two.
NoiseBytes(p, on, step, focus) ==
  /\ p[3] = (IF on THEN 17 ELSE 0)
  /\ p[5] = (IF on /\ step = 0 THEN 2 ELSE IF on /\ step = 1 THEN 1 ELSE 0)
  /\ p[7] = Bit(on /\ focus /\ step >= MinAmbientStep)
  /\ p[8] = (IF on THEN step ELSE LevelDisabled)

\* A payload of the noise control.
NoiseShaped(p, first, on, step, focus) ==
  p \in Seq(Byte) /\ Len(p) = 8 /\ p[1] = first /\ p[2] = 2 /\ NoiseBytes(p, on, step, focus)

\* The noise payload, byte by byte, as a command and with another first byte.
LEMMA NoisePayload ==
  ASSUME NEW on \in BOOLEAN, NEW step \in 0 .. MaxAmbientStep, NEW focus \in BOOLEAN, NEW first \in Byte
  PROVE  /\ NoiseShaped(SerializeNcAsm(on, step, focus), 104, on, step, focus)
         /\ NoiseShaped([SerializeNcAsm(on, step, focus) EXCEPT ![1] = first], first, on, step, focus)
<1> DEFINE a == IF on THEN 17 ELSE 0
           b == IF on /\ step = 0 THEN 2 ELSE IF on /\ step = 1 THEN 1 ELSE 0
           c == Bit(on /\ focus /\ step >= MinAmbientStep)
           d == IF on THEN step ELSE LevelDisabled
<1>1. SerializeNcAsm(on, step, focus) = <<104, 2, a, 1, b, 1, c, d>>
  BY DEF SerializeNcAsm, Set, Ask, Inquired, StepNoiseCancel, StepWind
<1>2. a \in Byte /\ b \in Byte /\ c \in Byte /\ d \in Byte /\ 104 \in Byte /\ 2 \in Byte /\ 1 \in Byte
  BY DEF Byte, Bit, LevelDisabled, MaxAmbientStep
<1>3. \A p : p[3] = a /\ p[5] = b /\ p[7] = c /\ p[8] = d => NoiseBytes(p, on, step, focus)
  BY DEF NoiseBytes
<1> HIDE DEF a, b, c, d
<1>4. /\ [<<104, 2, a, 1, b, 1, c, d>> EXCEPT ![1] = first] = <<first, 2, a, 1, b, 1, c, d>>
      /\ <<104, 2, a, 1, b, 1, c, d>> \in Seq(Byte) /\ Len(<<104, 2, a, 1, b, 1, c, d>>) = 8
      /\ <<first, 2, a, 1, b, 1, c, d>> \in Seq(Byte) /\ Len(<<first, 2, a, 1, b, 1, c, d>>) = 8
  BY <1>2, EightBytes
<1>5. \A x : NoiseBytes(<<x, 2, a, 1, b, 1, c, d>>, on, step, focus)
  BY <1>3
<1>6. \A x : <<x, 2, a, 1, b, 1, c, d>>[1] = x /\ <<x, 2, a, 1, b, 1, c, d>>[2] = 2
  OBVIOUS
<1>7. /\ NoiseShaped(<<104, 2, a, 1, b, 1, c, d>>, 104, on, step, focus)
      /\ NoiseShaped(<<first, 2, a, 1, b, 1, c, d>>, first, on, step, focus)
  BY <1>4, <1>5, <1>6, Zenon DEF NoiseShaped
<1> QED BY <1>1, <1>4, <1>7, SMT

\* The noise payload as a command.
LEMMA NoiseCommand ==
  ASSUME NEW on \in BOOLEAN, NEW step \in 0 .. MaxAmbientStep, NEW focus \in BOOLEAN
  PROVE  NoiseShaped(SerializeNcAsm(on, step, focus), 104, on, step, focus)
<1>1. 104 \in Byte
  BY DEF Byte
<1>2. \A first \in Byte : NoiseShaped(SerializeNcAsm(on, step, focus), 104, on, step, focus)
  BY NoisePayload
<1> QED BY <1>1, <1>2

\* What a payload of the noise control gives depends on four of its bytes.
NoiseGiven(a, b, c, d) ==
  LET mode == CASE a = 0 -> "off" [] a # 0 /\ b = 2 -> "anc"
                [] a # 0 /\ b = 1 -> "wind" [] OTHER -> "ambient"
      level == CASE mode = "anc" -> {StepNoiseCancel} [] mode = "wind" -> {StepWind}
                 [] mode = "ambient" /\ d # LevelDisabled -> {d} [] OTHER -> {}
  IN [f \in {"noise_mode", "voice_passthrough"} \cup (IF level = {} THEN {} ELSE {"ambient_sound_level"}) |->
        CASE f = "noise_mode" -> mode
          [] f = "voice_passthrough" -> c = 1
          [] OTHER -> CHOOSE l \in level : TRUE]

\* The parser reads from the noise payload what it was written from.
LEMMA NoiseTold ==
  ASSUME NEW h, IsHeadset(h), NEW p, NoiseBytes(p, h.on, h.step, h.focus)
  PROVE  NoiseFields(p) = FieldsOf("noise", h) /\ TellsNoise(NoiseFields(p), h)
<1>1. h.on \in BOOLEAN /\ h.step \in 0 .. MaxAmbientStep /\ h.focus \in BOOLEAN
  BY DEF IsHeadset
<1>2. NoiseBytes(SerializeNcAsm(h.on, h.step, h.focus), h.on, h.step, h.focus)
  <2>2. NoiseShaped(SerializeNcAsm(h.on, h.step, h.focus), 104, h.on, h.step, h.focus)
    BY <1>1, NoiseCommand, SMT
  <2> QED BY <2>2, Zenon DEF NoiseShaped
<1>3. \A q : NoiseFields(q) = NoiseGiven(q[3], q[5], q[7], q[8])
  BY DEF NoiseFields, NoiseGiven
<1>4. ASSUME NEW q, NoiseBytes(q, h.on, h.step, h.focus)
      PROVE  /\ q[3] = p[3] /\ q[5] = p[5] /\ q[7] = p[7] /\ q[8] = p[8]
  BY <1>4 DEF NoiseBytes
<1>5. NoiseFields(p) = FieldsOf("noise", h)
  <2> DEFINE q == SerializeNcAsm(h.on, h.step, h.focus)
  <2>1. q[3] = p[3] /\ q[5] = p[5] /\ q[7] = p[7] /\ q[8] = p[8]
    BY <1>2, <1>4
  <2>2. FieldsOf("noise", h) = NoiseFields(q)
    BY DEF FieldsOf
  <2> HIDE DEF q
  <2> QED BY <1>3, <2>1, <2>2, Zenon
<1>6. TellsNoise(NoiseFields(p), h)
  <2> DEFINE mode == CASE p[3] = 0 -> "off" [] p[3] # 0 /\ p[5] = 2 -> "anc"
                       [] p[3] # 0 /\ p[5] = 1 -> "wind" [] OTHER -> "ambient"
             level == CASE mode = "anc" -> {StepNoiseCancel} [] mode = "wind" -> {StepWind}
                        [] mode = "ambient" /\ p[8] # LevelDisabled -> {p[8]} [] OTHER -> {}
             names == {"noise_mode", "voice_passthrough"}
                        \cup (IF level = {} THEN {} ELSE {"ambient_sound_level"})
             fields == [f \in names |-> CASE f = "noise_mode" -> mode
                                          [] f = "voice_passthrough" -> p[7] = 1
                                          [] OTHER -> CHOOSE l \in level : TRUE]
  <2>1. NoiseFields(p) = fields
    BY DEF NoiseFields
  <2>2. mode = IF h.on THEN StepToNoiseMode(h.step) ELSE "off"
    BY <1>1 DEF NoiseBytes, StepToNoiseMode, StepNoiseCancel, StepWind
  <2>3. level = IF h.on THEN {h.step} ELSE {}
    <3>1. CASE ~h.on
      <4>1. mode = "off"
        BY <2>2, <3>1
      <4> HIDE DEF mode
      <4> QED BY <3>1, <4>1
    <3>2. CASE h.on
      <4>1. mode = StepToNoiseMode(h.step) /\ p[8] = h.step /\ p[8] # LevelDisabled
        BY <1>1, <2>2, <3>2 DEF NoiseBytes, LevelDisabled, MaxAmbientStep
      <4> HIDE DEF mode
      <4> QED BY <1>1, <3>2, <4>1 DEF StepToNoiseMode, StepNoiseCancel, StepWind
    <3> QED BY <3>1, <3>2
  <2>4. (p[7] = 1) = (h.on /\ h.focus /\ h.step >= MinAmbientStep)
    BY <1>1 DEF NoiseBytes, Bit
  <2> HIDE DEF mode, level
  <2>5. DOMAIN fields = names /\ fields["noise_mode"] = mode /\ fields["voice_passthrough"] = (p[7] = 1)
    OBVIOUS
  <2>6. names = {"noise_mode", "voice_passthrough"} \cup (IF h.on THEN {"ambient_sound_level"} ELSE {})
    BY <1>1, <2>3
  <2>7. h.on => fields["ambient_sound_level"] = h.step
    <3> SUFFICES ASSUME h.on PROVE fields["ambient_sound_level"] = h.step
      OBVIOUS
    <3>1. level = {h.step}
      BY <2>3
    <3>2. fields["ambient_sound_level"] = CHOOSE l \in level : TRUE
      BY <2>6
    <3> QED BY <3>1, <3>2
  <2> HIDE DEF fields, names
  <2>8. fields["voice_passthrough"] = (h.on /\ h.focus /\ h.step >= MinAmbientStep)
    BY <2>4, <2>5, Zenon
  <2>9. /\ {"noise_mode", "voice_passthrough"} \subseteq DOMAIN fields
        /\ DOMAIN fields \subseteq {"noise_mode", "voice_passthrough", "ambient_sound_level"}
        /\ "ambient_sound_level" \in DOMAIN fields <=> h.on
    BY <1>1, <2>5, <2>6
  <2>10. TellsNoise(fields, h)
    BY <2>2, <2>5, <2>7, <2>8, <2>9, Zenon DEF TellsNoise
  <2> QED BY <2>1, <2>10, Zenon
<1> QED BY <1>5, <1>6, Zenon

\* A report says what the headset holds.
LEMMA ReportSays ==
  ASSUME NEW s \in Names, NEW h, IsHeadset(h), NEW first \in Firsts(s)
  PROVE  Says(Report(s, h, first), FieldsOf(s, h))
<1>1. CASE s \in Settings
  <2>1. s \in DOMAIN Values /\ h[s] \in Values[s] /\ s # "noise" /\ s # "battery_level"
    BY <1>1, SettingsAre, Zenon DEF IsHeadset
  <2>2. Report(s, h, first) = SettingReport(s, h[s], first)
    BY <2>1 DEF Report, SettingReport
  <2>3. FieldsOf(s, h) = Field(s, h[s])
    BY <2>1, Zenon DEF FieldsOf
  <2> QED BY <2>1, <2>2, <2>3, SettingSaid, Zenon
<1>2. CASE s = "noise"
  <2> DEFINE p == SerializeNcAsm(h.on, h.step, h.focus)
             q == [p EXCEPT ![1] = first]
  <2>1. first \in {103, 105} /\ first \in Byte
    BY <1>2 DEF Firsts, Ret, Ntfy, Ask, Byte
  <2>2. h.on \in BOOLEAN /\ h.step \in 0 .. MaxAmbientStep /\ h.focus \in BOOLEAN
    BY DEF IsHeadset
  <2>3. q \in Seq(Byte) /\ Len(q) = 8 /\ q[1] = first /\ q[2] = 2 /\ NoiseBytes(q, h.on, h.step, h.focus)
    <3>1. NoiseShaped(q, first, h.on, h.step, h.focus)
      BY <2>1, <2>2, NoisePayload, SMT
    <3> QED BY <3>1, Zenon DEF NoiseShaped
  <2>4. Report(s, h, first) = Frame(MDR, q)
    BY <1>2 DEF Report, TypeOf
  <2> HIDE DEF p, q
  <2>5. NoiseFields(q) = FieldsOf("noise", h)
    BY <2>3, NoiseTold, Zenon
  <2>6. ParseInbound(q) = NoiseFields(q)
    BY <2>1, <2>3 DEF ParseInbound, Reports, Ret, Ntfy, Ask, Inquired
  <2>7. Len(q) <= MaxPayload /\ q[1] # 153
    BY <2>1, <2>3 DEF MaxPayload
  <2> QED BY <1>2, <2>3, <2>4, <2>5, <2>6, <2>7, SaidBy, Zenon
<1>3. CASE s = "battery_level"
  <2> DEFINE b == h.battery_level
  <2>1. first \in {17, 19} /\ first \in Byte /\ b \in Byte /\ 0 \in Byte /\ 18 \in Byte
    BY <1>3 DEF Firsts, Ret, Ntfy, Ask, Byte, IsHeadset
  <2>2. Report(s, h, first) = Frame(MDR, [<<18, 0, b, 0>> EXCEPT ![1] = first])
    BY <1>3 DEF Report, TypeOf, Inquired
  <2>3. FieldsOf(s, h) = Field("battery_level", b)
    BY <1>3 DEF FieldsOf
  <2> HIDE DEF b
  <2>4. /\ [<<18, 0, b, 0>> EXCEPT ![1] = first] = <<first, 0, b, 0>>
        /\ <<first, 0, b, 0>> \in Seq(Byte) /\ Len(<<first, 0, b, 0>>) = 4
    BY <2>1, FourBytes
  <2>5. ParseInbound(<<first, 0, b, 0>>) = Field("battery_level", b)
    BY <2>1 DEF ParseInbound, Reports, Ret, Ntfy, Ask, Inquired
  <2>6. Len(<<first, 0, b, 0>>) <= MaxPayload /\ <<first, 0, b, 0>>[1] # 153
    BY <2>1, <2>4 DEF MaxPayload
  <2>7. Says(Frame(MDR, <<first, 0, b, 0>>), Field("battery_level", b))
    BY <2>4, <2>5, <2>6, SaidBy, Zenon
  <2> QED BY <2>2, <2>3, <2>4, <2>7, Zenon
<1> QED BY <1>1, <1>2, <1>3, SettingsAre

-----------------------------------------------------------------------------
(* Commands. *)

SetItem(s, v) == Item(s, TypeOf(s), SerializeSet(s, v))
NoiseNames == {"noise off", "noise mode", "ambient level", "focus on voice"}
NoiseItem(w, on, step, focus) == Item(w, MDR, SerializeNcAsm(on, step, focus))
AlertItem(m, yes) == Item("alert reply", MDR, AlertReply(m, yes))

\* What is ever in the queue.
IsQuery(item) == \E s \in Names : item = Query(s)
IsSetting(item) == \E s \in Settings : \E v \in Values[s] : item = SetItem(s, v)
IsNoiseItem(item) ==
  \E w \in NoiseNames : \E on \in BOOLEAN, step \in 0 .. MaxAmbientStep, focus \in BOOLEAN :
    item = NoiseItem(w, on, step, focus)
IsAlertItem(item) ==
  \E m \in {ConnectionModeChange, KeyAssignChange}, yes \in BOOLEAN : item = AlertItem(m, yes)
Whats == NamesThereAre \cup NoiseNames \cup {"query", "alert reply"}
Commands == [what : Whats, type : {MDR, MDR2}, payload : Seq(Byte)]
Items == {item \in Commands : IsQuery(item) \/ IsSetting(item) \/ IsNoiseItem(item) \/ IsAlertItem(item)}

\* The first two bytes and the table they are in tell the settings apart, and
\* the first byte what is done.
LEMMA NamesDiffer ==
  \A r, s \in NamesThereAre : TypeOf(r) = TypeOf(s) /\ Ask[r] = Ask[s] /\ Inquired[r] = Inquired[s] => r = s
BY DomainOfValues DEF NamesThereAre, Ask, Inquired, TypeOf, MDR, MDR2

\* No query begins like a command, and no command like one for noise control.
LEMMA CodesDiffer ==
  /\ \A s \in NamesThereAre : Ask[s] \in {16, 70, 86, 102, 130, 166, 214, 230, 246} /\ Inquired[s] \in Byte
  /\ \A s \in DOMAIN Values : Set(s) \in {72, 88, 132, 168, 216, 232, 248}
  /\ Set("noise") = 104
BY DomainOfValues DEF NamesThereAre, Ask, Inquired, Set, Byte

\* A query begins with its code and what it inquires.
LEMMA QueryPayload ==
  ASSUME NEW s \in NamesThereAre
  PROVE  SerializeQuery(s) \in Seq(Byte) /\ SerializeQuery(s)[1] = Ask[s] /\ SerializeQuery(s)[2] = Inquired[s]
<1>1. Ask[s] \in Byte /\ Inquired[s] \in Byte
  BY CodesDiffer DEF Byte
<1>2. CASE s \in DOMAIN Detail
  <2>1. Detail[s] \in Byte
    BY <1>2 DEF Detail, Byte
  <2>2. SerializeQuery(s) = <<Ask[s], Inquired[s], Detail[s]>>
    BY <1>2 DEF SerializeQuery
  <2> QED BY <1>1, <2>1, <2>2
<1>3. CASE s \notin DOMAIN Detail
  <2>1. SerializeQuery(s) = <<Ask[s], Inquired[s]>>
    BY <1>3 DEF SerializeQuery
  <2> QED BY <1>1, <2>1
<1> QED BY <1>2, <1>3

\* The codes of the commands.
LEMMA SetCodes ==
  /\ Set("eq_preset") = 88 /\ Inquired["eq_preset"] = 1
  /\ Set("connection_mode") = 232 /\ Inquired["connection_mode"] = 1
  /\ Set("dsee_hx") = 232 /\ Inquired["dsee_hx"] = 2
  /\ Set("optimizer_state") = 132 /\ Inquired["optimizer_state"] = 1
  /\ Set("volume") = 168 /\ Inquired["volume"] = 1
  /\ Set("voice_guidance") = 72 /\ Inquired["voice_guidance"] = 1
  /\ Set("nc_button") = 216 /\ Inquired["nc_button"] = 209
  /\ Set("touch_panel") = 216 /\ Inquired["touch_panel"] = 210
  /\ Set("surround") = 72 /\ Inquired["surround"] = 1
  /\ Set("sound_position") = 72 /\ Inquired["sound_position"] = 2
  /\ Set("auto_power_off") = 248 /\ Inquired["auto_power_off"] = 4
BY DEF Set, Ask, Inquired

\* A command begins with its code and what it is about.
LEMMA SetPayload ==
  ASSUME NEW s \in DOMAIN Values, NEW v \in Values[s]
  PROVE  SerializeSet(s, v) \in Seq(Byte) /\ SerializeSet(s, v)[1] = Set(s) /\ SerializeSet(s, v)[2] = Inquired[s]
<1>1. v \in Byte
  BY ValuesAreBytes
<1>2. \A n \in {0, 1, 2, 3, 4, 32, 209, 210, 72, 88, 132, 168, 216, 232, 248} : n \in Byte
  BY DEF Byte
<1>3. CASE s = "eq_preset"
  <2>1. SerializeSet(s, v) = <<88, 1, v, 0>> /\ Set(s) = 88 /\ Inquired[s] = 1
    BY <1>3, SetPayloads, SetCodes, Zenon
  <2> QED BY <1>1, <1>2, <2>1
<1>4. CASE s = "connection_mode"
  <2>1. SerializeSet(s, v) = <<232, 1, 0, v>> /\ Set(s) = 232 /\ Inquired[s] = 1
    BY <1>4, SetPayloads, SetCodes, Zenon
  <2> QED BY <1>1, <1>2, <2>1
<1>5. CASE s = "dsee_hx"
  <2>1. SerializeSet(s, v) = <<232, 2, 0, v>> /\ Set(s) = 232 /\ Inquired[s] = 2
    BY <1>5, SetPayloads, SetCodes, Zenon
  <2> QED BY <1>1, <1>2, <2>1
<1>6. CASE s = "optimizer_state"
  <2>1. SerializeSet(s, v) = <<132, 1, 0, v>> /\ Set(s) = 132 /\ Inquired[s] = 1
    BY <1>6, SetPayloads, SetCodes, Zenon
  <2> QED BY <1>1, <1>2, <2>1
<1>7. CASE s = "volume"
  <2>1. SerializeSet(s, v) = <<168, 1, 32, v>> /\ Set(s) = 168 /\ Inquired[s] = 1
    BY <1>7, SetPayloads, SetCodes, Zenon
  <2> QED BY <1>1, <1>2, <2>1
<1>8. CASE s = "voice_guidance"
  <2>1. SerializeSet(s, v) = <<72, 1, 1, v>> /\ Set(s) = 72 /\ Inquired[s] = 1
    BY <1>8, SetPayloads, SetCodes, Zenon
  <2> QED BY <1>1, <1>2, <2>1
<1>9. CASE s = "nc_button"
  <2>1. SerializeSet(s, v) = <<216, 209, 2, v>> /\ Set(s) = 216 /\ Inquired[s] = 209
    BY <1>9, SetPayloads, SetCodes, Zenon
  <2> QED BY <1>1, <1>2, <2>1
<1>10. CASE s = "touch_panel"
  <2>1. SerializeSet(s, v) = <<216, 210, 1, v>> /\ Set(s) = 216 /\ Inquired[s] = 210
    BY <1>10, SetPayloads, SetCodes, Zenon
  <2> QED BY <1>1, <1>2, <2>1
<1>11. CASE s = "surround"
  <2>1. SerializeSet(s, v) = <<72, 1, v>> /\ Set(s) = 72 /\ Inquired[s] = 1
    BY <1>11, SetPayloads, SetCodes, Zenon
  <2> QED BY <1>1, <1>2, <2>1
<1>12. CASE s = "sound_position"
  <2>1. SerializeSet(s, v) = <<72, 2, v>> /\ Set(s) = 72 /\ Inquired[s] = 2
    BY <1>12, SetPayloads, SetCodes, Zenon
  <2> QED BY <1>1, <1>2, <2>1
<1>13. CASE s = "auto_power_off"
  <2> DEFINE x == IF v = 17 THEN 3 ELSE v
  <2>1. SerializeSet(s, v) = <<248, 4, 1, v, x>> /\ Set(s) = 248 /\ Inquired[s] = 4
    BY <1>13, SetPayloads, SetCodes, Zenon
  <2>2. x \in Byte
    BY <1>1, <1>2
  <2> HIDE DEF x
  <2> QED BY <1>1, <1>2, <2>1, <2>2
<1> QED BY <1>3, <1>4, <1>5, <1>6, <1>7, <1>8, <1>9, <1>10, <1>11, <1>12, <1>13, DomainOfValues

\* A command gives its setting one value.
LEMMA SetOnce ==
  ASSUME NEW s \in DOMAIN Values, NEW v, NEW u, SerializeSet(s, v) = SerializeSet(s, u)
  PROVE  v = u
<1>1. CASE s \in {"surround", "sound_position"}
  BY <1>1, SetPayloads
<1>2. CASE s \in {"connection_mode", "dsee_hx", "optimizer_state"}
  BY <1>2, SetPayloads
<1>3. CASE s \in {"volume", "voice_guidance"}
  BY <1>3, SetPayloads
<1>4. CASE s \in {"eq_preset", "nc_button", "touch_panel"}
  BY <1>4, SetPayloads
<1>5. CASE s = "auto_power_off"
  BY <1>5, SetPayloads
<1> QED BY <1>1, <1>2, <1>3, <1>4, <1>5, DomainOfValues

\* What occurs is among what the wire format knows.
LEMMA NamesIn ==
  /\ Settings \subseteq NamesThereAre /\ Names \subseteq NamesThereAre
  /\ \A s \in Settings : TypeOf(s) \in {MDR, MDR2}
BY SettingsAre DEF NamesThereAre, TypeOf

\* What the headset makes of a command: whom it asks, whom it sets.
Meant(item, queried, set, noise, alert) ==
  /\ Queried(item) = queried /\ SetBy(item) = set
  /\ (IsNoise(item) <=> noise) /\ (item.payload[1] = 152 <=> alert)

\* The headset takes a query for a query, of the setting it was made for.
LEMMA QueryMeant ==
  ASSUME NEW s \in Names
  PROVE  Meant(Query(s), {s}, {}, FALSE, FALSE) /\ Query(s).what = "query"
<1>1. /\ Query(s).type = TypeOf(s) /\ Query(s).payload = SerializeQuery(s) /\ Query(s).what = "query"
  BY DEF Query, Item
<1>2. s \in NamesThereAre
  BY NamesIn
<1>3. SerializeQuery(s)[1] = Ask[s] /\ SerializeQuery(s)[2] = Inquired[s]
  BY <1>2, QueryPayload
<1>4. \A r \in Names : TypeOf(r) = TypeOf(s) /\ SerializeQuery(r) = SerializeQuery(s) => r = s
  BY <1>2, NamesIn, QueryPayload, NamesDiffer
<1>5. \A r \in Settings : \A v \in Values[r] : SerializeSet(r, v) # SerializeQuery(s)
  BY <1>2, <1>3, SettingsAre, SetPayload, CodesDiffer
<1>6. Queried(Query(s)) = {s}
  BY <1>1, <1>4 DEF Queried
<1>7. SetBy(Query(s)) = {}
  BY <1>1, <1>5 DEF SetBy
<1>8. ~IsNoise(Query(s)) /\ Query(s).payload[1] # 152
  BY <1>1, <1>2, <1>3, CodesDiffer DEF IsNoise, Set, Ask
<1> QED BY <1>1, <1>6, <1>7, <1>8 DEF Meant

\* The headset takes a setting's command for one, of that setting and value.
LEMMA SettingMeant ==
  ASSUME NEW s \in Settings, NEW v \in Values[s]
  PROVE  Meant(SetItem(s, v), {}, {s}, FALSE, FALSE) /\ Given(s, SetItem(s, v)) = v /\ SetItem(s, v).what = s
<1>1. /\ SetItem(s, v).type = TypeOf(s) /\ SetItem(s, v).payload = SerializeSet(s, v) /\ SetItem(s, v).what = s
  BY DEF SetItem, Item
<1>2. s \in NamesThereAre /\ s \in DOMAIN Values
  BY NamesIn, SettingsAre
<1>3. SerializeSet(s, v)[1] = Set(s) /\ SerializeSet(s, v)[2] = Inquired[s]
  BY <1>2, SetPayload
<1>4. \A r \in Names : SerializeQuery(r) # SerializeSet(s, v)
  <2> SUFFICES ASSUME NEW r \in Names PROVE SerializeQuery(r)[1] # SerializeSet(s, v)[1]
    OBVIOUS
  <2>1. SerializeQuery(r)[1] \in {16, 70, 86, 102, 130, 166, 214, 230, 246}
    BY NamesIn, QueryPayload, CodesDiffer
  <2>2. SerializeSet(s, v)[1] \in {72, 88, 132, 168, 216, 232, 248}
    BY <1>2, <1>3, CodesDiffer
  <2> QED BY <2>1, <2>2
<1>5. \A r \in Settings : \A u \in Values[r] :
        TypeOf(r) = TypeOf(s) /\ SerializeSet(r, u) = SerializeSet(s, v) => r = s
  <2> SUFFICES ASSUME NEW r \in Settings, NEW u \in Values[r], TypeOf(r) = TypeOf(s),
                      SerializeSet(r, u) = SerializeSet(s, v)
               PROVE  r = s
    OBVIOUS
  <2>1. Set(r) = Set(s) /\ Inquired[r] = Inquired[s]
    BY <1>3, SettingsAre, SetPayload
  <2>2. Ask[r] \in Int /\ Ask[s] \in Int
    BY <1>2, NamesIn, CodesDiffer
  <2>3. Ask[r] = Ask[s]
    BY <2>1, <2>2 DEF Set
  <2> QED BY <1>2, <2>1, <2>3, NamesIn, NamesDiffer
<1>6. \A u \in Values[s] : SerializeSet(s, v) = SerializeSet(s, u) => u = v
  BY <1>2, SetOnce
<1>7. Queried(SetItem(s, v)) = {}
  BY <1>1, <1>4 DEF Queried
<1>8. SetBy(SetItem(s, v)) = {s}
  BY <1>1, <1>5 DEF SetBy
<1>9. Given(s, SetItem(s, v)) = v
  BY <1>1, <1>6 DEF Given
<1>10. ~IsNoise(SetItem(s, v)) /\ SetItem(s, v).payload[1] # 152
  BY <1>1, <1>2, <1>3, CodesDiffer DEF IsNoise, Set, Ask
<1> QED BY <1>1, <1>7, <1>8, <1>9, <1>10 DEF Meant

\* The headset takes a noise command for one, and finds mode, step and focus in
\* it.
LEMMA NoiseMeant ==
  ASSUME NEW w, NEW on \in BOOLEAN, NEW step \in 0 .. MaxAmbientStep, NEW focus \in BOOLEAN
  PROVE  /\ Meant(NoiseItem(w, on, step, focus), {}, {}, TRUE, FALSE)
         /\ NoiseBytes(NoiseItem(w, on, step, focus).payload, on, step, focus)
         /\ NoiseItem(w, on, step, focus).what = w
<1> DEFINE item == NoiseItem(w, on, step, focus)
           p == SerializeNcAsm(on, step, focus)
<1>1. item.type = MDR /\ item.payload = p /\ item.what = w
  BY DEF NoiseItem, Item
<1>2. p[1] = 104 /\ NoiseBytes(p, on, step, focus)
  <2>1. NoiseShaped(p, 104, on, step, focus)
    BY NoiseCommand
  <2> QED BY <2>1, Zenon DEF NoiseShaped
<1> HIDE DEF item, p
<1>3. \A r \in Names : SerializeQuery(r) # p
  BY <1>2, NamesIn, QueryPayload, CodesDiffer
<1>4. \A r \in Settings : \A u \in Values[r] : SerializeSet(r, u) # p
  BY <1>2, SettingsAre, SetPayload, CodesDiffer
<1>5. Queried(item) = {}
  BY <1>1, <1>3 DEF Queried
<1>6. SetBy(item) = {}
  BY <1>1, <1>4 DEF SetBy
<1>7. IsNoise(item) /\ item.payload[1] # 152
  BY <1>1, <1>2 DEF IsNoise, Set, Ask
<1>8. Meant(item, {}, {}, TRUE, FALSE) /\ NoiseBytes(item.payload, on, step, focus) /\ item.what = w
  BY <1>1, <1>2, <1>5, <1>6, <1>7 DEF Meant
<1> QED BY <1>8 DEF item

\* The headset takes an answer to its question for one.
LEMMA AlertMeant ==
  ASSUME NEW m \in {ConnectionModeChange, KeyAssignChange}, NEW yes \in BOOLEAN
  PROVE  Meant(AlertItem(m, yes), {}, {}, FALSE, TRUE) /\ AlertItem(m, yes).what = "alert reply"
<1> DEFINE item == AlertItem(m, yes)
           p == AlertReply(m, yes)
<1>1. item.type = MDR /\ item.payload = p /\ item.what = "alert reply"
  BY DEF AlertItem, Item
<1>2. p[1] = 152
  BY DEF AlertReply
<1> HIDE DEF item, p
<1>3. \A r \in Names : SerializeQuery(r) # p
  BY <1>2, NamesIn, QueryPayload, CodesDiffer
<1>4. \A r \in Settings : \A u \in Values[r] : SerializeSet(r, u) # p
  BY <1>2, SettingsAre, SetPayload, CodesDiffer
<1>5. Queried(item) = {}
  BY <1>1, <1>3 DEF Queried
<1>6. SetBy(item) = {}
  BY <1>1, <1>4 DEF SetBy
<1>7. ~IsNoise(item)
  <2>1. p[1] # Set("noise")
    BY <1>2, CodesDiffer
  <2> QED BY <1>1, <2>1, Zenon DEF IsNoise
<1>8. Meant(item, {}, {}, FALSE, TRUE) /\ item.what = "alert reply"
  BY <1>1, <1>2, <1>5, <1>6, <1>7 DEF Meant
<1> QED BY <1>8 DEF item

-----------------------------------------------------------------------------
(* The copy and the headset. *)

IsCopy(st) ==
  /\ DOMAIN st = Settings \cup StateFields
  /\ \A s \in Settings : st[s] \in Values[s] \cup {-1, Unknown}
  /\ st.ambient_sound_level \in 0 .. MaxAmbientStep /\ st.noise_mode \in NoiseModes
  /\ st.voice_passthrough \in BOOLEAN
  /\ st.noise_mode # "off" => st.noise_mode = StepToNoiseMode(st.ambient_sound_level)

\* A value given to one setting leaves the copy a copy, and the rest of it as it
\* was.
LEMMA CopySet ==
  ASSUME NEW st, IsCopy(st), NEW s \in Settings, NEW v \in Values[s]
  PROVE  /\ IsCopy([st EXCEPT ![s] = v]) /\ [st EXCEPT ![s] = v][s] = v
         /\ \A x \in DOMAIN st : x # s => [st EXCEPT ![s] = v][x] = st[x]
<1> DEFINE c == [st EXCEPT ![s] = v]
<1>1. s \in DOMAIN st /\ s \notin StateFields
  BY SettingsAre DEF IsCopy
<1>2. DOMAIN c = DOMAIN st /\ c[s] = v /\ \A x \in DOMAIN st : x # s => c[x] = st[x]
  BY <1>1
<1> HIDE DEF c
<1>3. \A x \in StateFields : x \in DOMAIN st /\ c[x] = st[x]
  BY <1>1, <1>2 DEF IsCopy
<1>4. /\ c.ambient_sound_level = st.ambient_sound_level /\ c.noise_mode = st.noise_mode
      /\ c.voice_passthrough = st.voice_passthrough
  BY <1>3 DEF StateFields
<1>5. \A x \in Settings : c[x] \in Values[x] \cup {-1, Unknown}
  BY <1>2 DEF IsCopy
<1>6. IsCopy(c)
  BY <1>2, <1>4, <1>5, Zenon DEF IsCopy
<1> QED BY <1>2, <1>6 DEF c

\* An updated record has the new fields it has room for.
LEMMA UpdatedIs ==
  \A r, f : /\ DOMAIN Updated(r, f) = DOMAIN r
            /\ \A x \in DOMAIN r : Updated(r, f)[x] = IF x \in DOMAIN f THEN f[x] ELSE r[x]
BY DEF Updated

\* The copy when the headset has told it of s.
ToldOf(st, s, h) == Updated([st EXCEPT !.connected = TRUE], FieldsOf(s, h))

\* A report tells something.
LEMMA FieldsThere ==
  ASSUME NEW s \in Names, NEW h, IsHeadset(h)
  PROVE  FieldsOf(s, h) # <<>>
<1>1. CASE s # "noise"
  <2>1. FieldsOf(s, h) = Field(s, h[s])
    BY <1>1, Zenon DEF FieldsOf
  <2>2. DOMAIN Field(s, h[s]) = {s}
    BY DEF Field
  <2> QED BY <2>1, <2>2
<1>2. CASE s = "noise"
  <2>1. h.on \in BOOLEAN /\ h.step \in 0 .. MaxAmbientStep /\ h.focus \in BOOLEAN
    BY DEF IsHeadset
  <2>2. NoiseShaped(SerializeNcAsm(h.on, h.step, h.focus), 104, h.on, h.step, h.focus)
    BY <2>1, NoiseCommand, SMT
  <2>3. NoiseBytes(SerializeNcAsm(h.on, h.step, h.focus), h.on, h.step, h.focus)
    BY <2>2, Zenon DEF NoiseShaped
  <2>4. TellsNoise(NoiseFields(SerializeNcAsm(h.on, h.step, h.focus)), h)
    BY <2>3, NoiseTold
  <2>5. "noise_mode" \in DOMAIN FieldsOf(s, h)
    BY <1>2, <2>4 DEF FieldsOf, TellsNoise
  <2> QED BY <2>5
<1> QED BY <1>1, <1>2

\* The copy `new' says of s what h holds, and of the rest what st says.
Told(st, s, h, new) ==
  /\ s # "noise" => /\ new[s] = h[s]
                    /\ \A x \in DOMAIN st \ {s, "connected"} : new[x] = st[x]
  /\ s = "noise" => /\ \A x \in Settings \cup {"battery_level"} : new[x] = st[x]
                    /\ (new.noise_mode = "off") = ~h.on
                    /\ h.on => /\ new.ambient_sound_level = h.step
                               /\ h.step >= MinAmbientStep => new.voice_passthrough = h.focus

\* The headset tells of s: the copy stays one, and agrees with it on s.
LEMMA CopyTold ==
  ASSUME NEW st, IsCopy(st), NEW s \in Names, NEW h, IsHeadset(h)
  PROVE  /\ IsCopy(ToldOf(st, s, h)) /\ ToldOf(st, s, h).connected = TRUE
         /\ Told(st, s, h, ToldOf(st, s, h))
<1> DEFINE b == [st EXCEPT !.connected = TRUE]
           f == FieldsOf(s, h)
           c == Updated(b, f)
<1>1. DOMAIN st = Settings \cup StateFields /\ "connected" \in DOMAIN st
  BY DEF IsCopy, StateFields
<1>2. DOMAIN b = DOMAIN st /\ b.connected = TRUE /\ \A x \in DOMAIN st : x # "connected" => b[x] = st[x]
  BY <1>1
<1>3. ToldOf(st, s, h) = c
  BY DEF ToldOf
<1> HIDE DEF b
<1>4. DOMAIN c = DOMAIN st /\ \A x \in DOMAIN st : c[x] = IF x \in DOMAIN f THEN f[x] ELSE b[x]
  BY <1>2, UpdatedIs
<1> HIDE DEF c
<1>5. CASE s # "noise"
  <2>1. f = Field(s, h[s])
    BY <1>5, Zenon DEF FieldsOf
  <2>2. DOMAIN f = {s} /\ f[s] = h[s]
    BY <2>1 DEF Field
  <2> HIDE DEF f
  <2>4. s \in DOMAIN st /\ s \in DOMAIN h
    BY <1>1, <1>5, SettingsAre DEF StateFields, IsHeadset, HeadsetFields
  <2>5. c[s] = h[s] /\ \A x \in DOMAIN st \ {s, "connected"} : c[x] = st[x]
    BY <1>2, <1>4, <2>2, <2>4
  <2>6. s # "connected" /\ c.connected = TRUE
    BY <1>1, <1>2, <1>4, <1>5, <2>2, SettingsAre DEF StateFields
  <2>7. \A x \in {"ambient_sound_level", "noise_mode", "voice_passthrough"} : c[x] = st[x]
    BY <1>1, <1>5, <2>5, SettingsAre DEF StateFields
  <2>8. \A x \in Settings : c[x] \in Values[x] \cup {-1, Unknown}
    <3> SUFFICES ASSUME NEW x \in Settings PROVE c[x] \in Values[x] \cup {-1, Unknown}
      OBVIOUS
    <3>1. CASE x = s
      BY <2>5, <3>1, Zenon DEF IsHeadset
    <3>2. CASE x # s
      <4>1. c[x] = st[x]
        BY <1>1, <2>5, <3>2, SettingsAre DEF StateFields
      <4> QED BY <4>1, Zenon DEF IsCopy
    <3> QED BY <3>1, <3>2
  <2>9. IsCopy(c)
    <3>1. /\ c.ambient_sound_level = st.ambient_sound_level /\ c.noise_mode = st.noise_mode
          /\ c.voice_passthrough = st.voice_passthrough
      BY <2>7
    <3> QED BY <1>1, <1>4, <2>8, <3>1, Zenon DEF IsCopy
  <2>10. Told(st, s, h, c)
    BY <1>5, <2>5, Zenon DEF Told
  <2> QED BY <1>3, <2>6, <2>9, <2>10, Zenon
<1>6. CASE s = "noise"
  <2>1. TellsNoise(f, h)
    <3>1. NoiseBytes(SerializeNcAsm(h.on, h.step, h.focus), h.on, h.step, h.focus)
      <4>1. h.on \in BOOLEAN /\ h.step \in 0 .. MaxAmbientStep /\ h.focus \in BOOLEAN
        BY DEF IsHeadset
      <4>2. NoiseShaped(SerializeNcAsm(h.on, h.step, h.focus), 104, h.on, h.step, h.focus)
        BY <4>1, NoiseCommand, SMT
      <4> QED BY <4>2, Zenon DEF NoiseShaped
    <3>2. TellsNoise(NoiseFields(SerializeNcAsm(h.on, h.step, h.focus)), h)
      BY <3>1, NoiseTold
    <3> QED BY <1>6, <3>2 DEF FieldsOf
  <2> HIDE DEF f
  <2>2. /\ {"noise_mode", "voice_passthrough"} \subseteq DOMAIN f
        /\ DOMAIN f \subseteq {"noise_mode", "voice_passthrough", "ambient_sound_level"}
        /\ f["noise_mode"] = IF h.on THEN StepToNoiseMode(h.step) ELSE "off"
        /\ f["voice_passthrough"] = (h.on /\ h.focus /\ h.step >= MinAmbientStep)
        /\ "ambient_sound_level" \in DOMAIN f <=> h.on
        /\ h.on => f["ambient_sound_level"] = h.step
    BY <2>1, Zenon DEF TellsNoise
  <2>4. /\ "noise_mode" \in DOMAIN st /\ "voice_passthrough" \in DOMAIN st
        /\ "ambient_sound_level" \in DOMAIN st
    BY <1>1 DEF StateFields
  <2>5. c.noise_mode = IF h.on THEN StepToNoiseMode(h.step) ELSE "off"
    BY <1>4, <2>2, <2>4
  <2>6. c.voice_passthrough = f["voice_passthrough"]
    BY <1>4, <2>2, <2>4
  <2>7. c.ambient_sound_level = IF h.on THEN h.step ELSE st.ambient_sound_level
    BY <1>2, <1>4, <2>2, <2>4
  <2>8. h.on \in BOOLEAN /\ h.step \in 0 .. MaxAmbientStep /\ h.focus \in BOOLEAN
    BY DEF IsHeadset
  <2>9. \A x \in Settings \cup {"battery_level"} : x \in DOMAIN st /\ x \notin DOMAIN f /\ x # "connected"
    BY <1>1, <2>2, SettingsAre DEF StateFields
  <2>10. \A x \in Settings \cup {"battery_level"} : c[x] = st[x]
    BY <1>2, <1>4, <2>9
  <2>11. c.connected = TRUE
    BY <1>1, <1>2, <1>4, <2>2
  <2>12. \A k \in 0 .. MaxAmbientStep : StepToNoiseMode(k) \in NoiseModes /\ StepToNoiseMode(k) # "off"
    BY DEF StepToNoiseMode, NoiseModes
  <2>13. c.voice_passthrough \in BOOLEAN
    BY <2>2, <2>6, <2>8, Zenon
  <2>14. /\ c.ambient_sound_level \in 0 .. MaxAmbientStep /\ c.noise_mode \in NoiseModes
         /\ c.noise_mode # "off" => c.noise_mode = StepToNoiseMode(c.ambient_sound_level)
         /\ c.noise_mode = "off" <=> ~h.on
    <3>1. st.ambient_sound_level \in 0 .. MaxAmbientStep /\ "off" \in NoiseModes
      BY DEF IsCopy, NoiseModes
    <3> QED BY <2>5, <2>7, <2>8, <2>12, <3>1
  <2>15. IsCopy(c)
    <3>1. \A x \in Settings : c[x] \in Values[x] \cup {-1, Unknown}
      BY <2>10, Zenon DEF IsCopy
    <3> QED BY <1>1, <1>4, <2>13, <2>14, <3>1, Zenon DEF IsCopy
  <2>16. (c.noise_mode = "off") = ~h.on
    BY <2>8, <2>14
  <2>17. h.on /\ h.step >= MinAmbientStep => c.voice_passthrough = h.focus
    <3> SUFFICES ASSUME h.on, h.step >= MinAmbientStep PROVE c.voice_passthrough = h.focus
      OBVIOUS
    <3>1. f["voice_passthrough"] = (h.on /\ h.focus /\ h.step >= MinAmbientStep)
      BY <2>2, Zenon
    <3>2. (h.on /\ h.focus /\ h.step >= MinAmbientStep) = h.focus
      BY <2>8, Zenon
    <3> QED BY <2>6, <3>1, <3>2, Zenon
  <2>18. h.on => c.ambient_sound_level = h.step
    BY <2>7
  <2>19. Told(st, s, h, c)
    BY <1>6, <2>10, <2>16, <2>17, <2>18, Zenon DEF Told
  <2> QED BY <1>3, <2>11, <2>15, <2>19, Zenon
<1> QED BY <1>5, <1>6, Zenon

-----------------------------------------------------------------------------
(* The queue. *)

Queries == {Query(s) : s \in Names}

\* What the daemon makes are commands.
LEMMA ItemsAre ==
  /\ \A s \in Names : Query(s) \in Items
  /\ \A s \in Settings : \A v \in Values[s] : SetItem(s, v) \in Items
  /\ \A w \in NoiseNames : \A on \in BOOLEAN, step \in 0 .. MaxAmbientStep, focus \in BOOLEAN :
       NoiseItem(w, on, step, focus) \in Items
  /\ \A m \in {ConnectionModeChange, KeyAssignChange}, yes \in BOOLEAN : AlertItem(m, yes) \in Items
<1>1. \A w \in Whats : \A t \in {MDR, MDR2} : \A p \in Seq(Byte) : Item(w, t, p) \in Commands
  BY DEF Item, Commands
<1>2. ASSUME NEW s \in Names PROVE Query(s) \in Items
  <2>1. SerializeQuery(s) \in Seq(Byte) /\ TypeOf(s) \in {MDR, MDR2} /\ "query" \in Whats
    BY NamesIn, QueryPayload DEF TypeOf, Whats
  <2>2. Query(s) \in Commands
    BY <1>1, <2>1, Zenon DEF Query
  <2>3. IsQuery(Query(s))
    BY Zenon DEF IsQuery
  <2> QED BY <2>2, <2>3, Zenon DEF Items
<1>3. ASSUME NEW s \in Settings, NEW v \in Values[s] PROVE SetItem(s, v) \in Items
  <2>1. s \in DOMAIN Values
    BY SettingsAre
  <2>2. SerializeSet(s, v) \in Seq(Byte)
    BY <2>1, SetPayload
  <2>3. s \in Whats
    BY <2>1 DEF Whats, NamesThereAre
  <2>4. TypeOf(s) \in {MDR, MDR2}
    BY DEF TypeOf
  <2>5. SetItem(s, v) \in Commands
    BY <1>1, <2>2, <2>3, <2>4, Zenon DEF SetItem
  <2>6. IsSetting(SetItem(s, v))
    BY Zenon DEF IsSetting
  <2> QED BY <2>5, <2>6, Zenon DEF Items
<1>4. ASSUME NEW w \in NoiseNames, NEW on \in BOOLEAN, NEW step \in 0 .. MaxAmbientStep, NEW focus \in BOOLEAN
      PROVE  NoiseItem(w, on, step, focus) \in Items
  <2>1. NoiseShaped(SerializeNcAsm(on, step, focus), 104, on, step, focus)
    BY NoiseCommand
  <2>2. SerializeNcAsm(on, step, focus) \in Seq(Byte)
    BY <2>1, Zenon DEF NoiseShaped
  <2>3. w \in Whats /\ MDR \in {MDR, MDR2}
    BY DEF Whats
  <2>4. NoiseItem(w, on, step, focus) \in Commands
    BY <1>1, <2>2, <2>3, Zenon DEF NoiseItem
  <2>5. IsNoiseItem(NoiseItem(w, on, step, focus))
    BY Zenon DEF IsNoiseItem
  <2> QED BY <2>4, <2>5, Zenon DEF Items
<1>5. ASSUME NEW m \in {ConnectionModeChange, KeyAssignChange}, NEW yes \in BOOLEAN
      PROVE  AlertItem(m, yes) \in Items
  <2>1. m \in Byte /\ 152 \in Byte /\ 1 \in Byte /\ Bit(yes) \in Byte
    BY DEF Byte, ConnectionModeChange, KeyAssignChange, Bit
  <2>2. AlertReply(m, yes) \in Seq(Byte)
    BY <2>1, FourBytes DEF AlertReply
  <2>3. "alert reply" \in Whats /\ MDR \in {MDR, MDR2}
    BY DEF Whats
  <2>4. AlertItem(m, yes) \in Commands
    BY <1>1, <2>2, <2>3, Zenon DEF AlertItem
  <2>5. IsAlertItem(AlertItem(m, yes))
    BY Zenon DEF IsAlertItem
  <2> QED BY <2>4, <2>5, Zenon DEF Items
<1> QED BY <1>2, <1>3, <1>4, <1>5, Zenon

Holding(s, x) == \E j \in 1 .. Len(s) : s[j] = x

\* What holds an element holds it when flattened.
LEMMA FlattenHolds ==
  ASSUME NEW S, NEW ps \in Seq(Seq(S)), NEW i \in 1 .. Len(ps), NEW x \in S, ps[i] = <<x>>
  PROVE  Holding(FlattenSeq(ps), x)
<1> DEFINE X == Seq(S)
           a == SubSeq(ps, 1, i - 1)
           b == SubSeq(ps, i + 1, Len(ps))
           fa == FlattenSeq(a)
           fb == FlattenSeq(b)
<1>1. a \in Seq(X) /\ b \in Seq(X) /\ <<x>> \in X
  OBVIOUS
<1>2. ps = Append(a, <<x>>) \o b
  <2>1. ps = SubSeq(ps, 1, i) \o b
    <3> HIDE DEF X
    <3> QED OBVIOUS
  <2>2. SubSeq(ps, 1, i) = Append(a, <<x>>)
    <3> HIDE DEF X
    <3> QED OBVIOUS
  <2> QED BY <2>1, <2>2
<1> HIDE DEF a, b
<1>3. fa \in Seq(S) /\ fb \in Seq(S) /\ FlattenSeq(Append(a, <<x>>)) = fa \o <<x>>
  BY <1>1, FlattenAppend DEF X
<1>4. Append(a, <<x>>) \in Seq(X)
  BY <1>1
<1>5. FlattenSeq(ps) = (fa \o <<x>>) \o fb
  BY <1>1, <1>2, <1>3, <1>4, FlattenConcat DEF X
<1> HIDE DEF fa, fb
<1>6. /\ Len(fa) + 1 \in 1 .. Len((fa \o <<x>>) \o fb)
      /\ ((fa \o <<x>>) \o fb)[Len(fa) + 1] = x
  BY <1>3
<1> QED BY <1>5, <1>6 DEF Holding

\* Queries are appended, and no name wanted is left out.
Asking(q, order, wanted, r) ==
  \E w \in Seq(Queries) :
    /\ r = q \o w
    /\ \A i \in 1 .. Len(order) : order[i] \in wanted => Holding(w, Query(order[i]))

\* A row of queries asks for what is wanted of it, and puts nothing else in the
\* queue.
LEMMA QueriesAre ==
  ASSUME NEW q, NEW order \in Seq(NamesThereAre), NEW wanted, wanted \subseteq Names
  PROVE  Asking(q, order, wanted, QueryEach(q, order, wanted))
<1> DEFINE ps == [i \in 1 .. Len(order) |-> IF order[i] \in wanted THEN <<Query(order[i])>> ELSE <<>>]
           w == FlattenSeq(ps)
<1>1. Len(order) \in Nat
  OBVIOUS
<1>2. \A i \in 1 .. Len(order) : order[i] \in wanted => Query(order[i]) \in Queries
  BY DEF Queries
<1>3. ps \in Seq(Seq(Queries)) /\ Len(ps) = Len(order)
  BY <1>1, <1>2
<1>4. \A i \in 1 .. Len(order) : order[i] \in wanted => ps[i] = <<Query(order[i])>>
  OBVIOUS
<1>5. QueryEach(q, order, wanted) = q \o w
  BY DEF QueryEach
<1> HIDE DEF ps
<1>6. w \in Seq(Queries)
  <2>1. <<>> \in Seq(Queries)
    OBVIOUS
  <2> QED BY <1>3, <2>1, FlattenAppend
<1>7. ASSUME NEW i \in 1 .. Len(order), order[i] \in wanted
      PROVE  Holding(w, Query(order[i]))
  <2>1. i \in 1 .. Len(ps) /\ Query(order[i]) \in Queries /\ ps[i] = <<Query(order[i])>>
    BY <1>2, <1>3, <1>4, <1>7
  <2> QED BY <1>3, <2>1, FlattenHolds, Zenon
<1> HIDE DEF w
<1> QED BY <1>5, <1>6, <1>7, Zenon DEF Asking

\* Queries are commands.
LEMMA QueriesAreItems == \A w \in Seq(Queries) : w \in Seq(Items)
BY ItemsAre DEF Queries

\* The handshake asks for everything the copy holds.
LEMMA HandshakeAsks ==
  /\ Handshake \in Seq(Queries) /\ Handshake \in Seq(Items)
  /\ \A s \in Names : Holding(Handshake, Query(s))
<1>1. HandshakeOrder \in Seq(NamesThereAre) /\ \A s \in Names : \E i \in 1 .. Len(HandshakeOrder) : HandshakeOrder[i] = s
  <2>1. HandshakeOrder \in Seq(NamesThereAre) /\ Len(HandshakeOrder) = 13
    BY DomainOfValues DEF HandshakeOrder, NamesThereAre
  <2>2. \A s \in NamesThereAre : \E i \in 1 .. 13 : HandshakeOrder[i] = s
    BY DomainOfValues DEF NamesThereAre, HandshakeOrder
  <2> QED BY <2>1, <2>2, NamesIn
<1>2. Asking(<<>>, HandshakeOrder, Names, Handshake)
  <2>1. Names \subseteq Names
    OBVIOUS
  <2> QED BY <1>1, <2>1, QueriesAre, Zenon DEF Handshake
<1>3. PICK w \in Seq(Queries) :
        /\ Handshake = <<>> \o w
        /\ \A i \in 1 .. Len(HandshakeOrder) : HandshakeOrder[i] \in Names => Holding(w, Query(HandshakeOrder[i]))
  BY <1>2, Zenon DEF Asking
<1>4. Handshake = w /\ w \in Seq(Items)
  BY <1>3, QueriesAreItems
<1> QED BY <1>1, <1>3, <1>4, Zenon

\* A coalesced command follows the others, or takes the place of one of its name
\* that is not at the headset.
Coalesced(q, item, r) ==
  \/ r = Append(q, item)
  \/ \E k \in 2 .. Len(q) : q[k].what = item.what /\ r = [q EXCEPT ![k] = item]

\* Coalescing replaces one waiting command, or adds one at the end.
LEMMA CoalesceIs ==
  ASSUME NEW q \in Seq(Items), NEW item \in Items
  PROVE  Coalesced(q, item, Coalesce(q, item)) /\ Coalesce(q, item) \in Seq(Items)
<1> DEFINE same == {i \in 2 .. Len(q) : q[i].what = item.what}
           k == CHOOSE i \in same : TRUE
<1>1. CASE same = {}
  <2>1. Coalesce(q, item) = Append(q, item)
    BY <1>1 DEF Coalesce
  <2> QED BY <2>1 DEF Coalesced
<1>2. CASE same # {}
  <2>1. Coalesce(q, item) = [q EXCEPT ![k] = item]
    BY <1>2 DEF Coalesce
  <2>2. k \in same
    BY <1>2
  <2> HIDE DEF k
  <2>3. k \in 2 .. Len(q) /\ q[k].what = item.what
    BY <2>2
  <2>4. Coalesced(q, item, Coalesce(q, item))
    BY <2>1, <2>3, Zenon DEF Coalesced
  <2>5. Coalesce(q, item) \in Seq(Items)
    BY <2>1, <2>3
  <2> QED BY <2>4, <2>5
<1> QED BY <1>1, <1>2

-----------------------------------------------------------------------------
(* The invariant: types, and the stream. *)

\* What the headset sends: an acknowledgement, a question, or a report.
IsQuestion(fr) ==
  /\ fr.type = MDR /\ Fields(fr) = <<>> /\ AsksToProceed(fr.payload)
  /\ fr.payload[3] \in {ConnectionModeChange, KeyAssignChange}
IsReport(fr) ==
  \E s \in Names : \E h : IsHeadset(h) /\ Says(fr, FieldsOf(s, h))
Frames == {fr \in WireFrames : fr.type = ACK \/ IsQuestion(fr) \/ IsReport(fr)}

\* What was read and what is to come are the frames; in the loop what was read
\* begins with one, and outside it holds none.
StreamOf(p, b, a, fs) ==
  /\ fs \in Seq(Frames) /\ b \in Seq(Byte) /\ a \in Seq(Byte)
  /\ b \o a = Bytes(fs)
  /\ p = "idle" => Len(b) < MaxFrame
  /\ p = "frames" => /\ fs # <<>>
                     /\ \E r \in Seq(Byte) : /\ NextFrame(b) = [frame |-> <<Pack(fs[1])>>, rest |-> r]
                                             /\ r \o a = Bytes(Tail(fs))

LinkInv ==
  /\ pc \in {"idle", "frames"} /\ up \in BOOLEAN
  /\ ~up => /\ pc = "idle" /\ queue = <<>> /\ buffer = <<>> /\ air = <<>> /\ inAir = <<>>
            /\ taken = FALSE
CopyInv ==
  /\ IsCopy(state) /\ state.connected = up
  /\ lastAmbientStep \in {-1} \cup MinAmbientStep .. MaxAmbientStep
QueueInv == queue \in Seq(Items) /\ taken \in BOOLEAN /\ (taken => queue # <<>>)
ButtonValues == IF "nc_button" \in Settings THEN Values["nc_button"] ELSE {}
HeadsetInv == IsHeadset(headset) /\ pending \subseteq ButtonValues
StreamInv == StreamOf(pc, buffer, air, inAir)
UnsureInv == unsure \subseteq Names
TypesInv == LinkInv /\ CopyInv /\ QueueInv /\ HeadsetInv /\ StreamInv /\ UnsureInv

\* What the headset puts on the channel are frames that say what it means.
LEMMA FramesAre ==
  /\ Frame(ACK, <<>>) \in Frames /\ Frame(ACK, <<>>).type = ACK
  /\ \A m \in {ConnectionModeChange, KeyAssignChange} : Confirms(m) \in Frames /\ IsQuestion(Confirms(m))
  /\ \A s \in Names : \A h : IsHeadset(h) => \A first \in Firsts(s) :
       /\ Report(s, h, first) \in Frames
       /\ Says(Report(s, h, first), FieldsOf(s, h))
<1>1. Frame(ACK, <<>>) \in Frames /\ Frame(ACK, <<>>).type = ACK
  <2>1. <<>> \in Seq(Byte) /\ Len(<<>>) <= MaxPayload
    BY DEF MaxPayload
  <2> QED BY <2>1, TypesOfFrames, FrameIs, Zenon DEF Frames
<1>2. ASSUME NEW m \in {ConnectionModeChange, KeyAssignChange}
      PROVE  Confirms(m) \in Frames /\ IsQuestion(Confirms(m))
  <2> DEFINE p == <<153, 1, m, 1>>
  <2>1. m \in Byte /\ 153 \in Byte /\ 1 \in Byte
    BY DEF Byte, ConnectionModeChange, KeyAssignChange
  <2>2. p \in Seq(Byte) /\ Len(p) = 4
    BY <2>1, FourBytes
  <2>3. p[1] = 153 /\ p[2] = 1 /\ p[3] = m /\ p[4] = 1
    OBVIOUS
  <2>4. Confirms(m) = Frame(MDR, p)
    BY DEF Confirms
  <2> HIDE DEF p
  <2>5. Len(p) <= MaxPayload
    BY <2>2 DEF MaxPayload
  <2>6. Frame(MDR, p) \in WireFrames /\ Frame(MDR, p).type = MDR /\ Frame(MDR, p).payload = p
    BY <2>2, <2>5, TypesOfFrames, FrameIs, Zenon
  <2>7. AsksToProceed(p)
    BY <2>2, <2>3 DEF AsksToProceed
  <2>8. \A s \in NamesThereAre : Ret(s) # 153 /\ Ntfy(s) # 153
    BY CodesDiffer DEF Ret, Ntfy
  <2>9. \A s \in NamesThereAre : \A k : ~Reports(p, s, k)
    BY <2>3, <2>8 DEF Reports
  <2>10. ParseInbound(p) = <<>>
    BY <2>9, DomainOfValues DEF ParseInbound, DeviceFields, NamesThereAre
  <2>11. Fields(Frame(MDR, p)) = <<>>
    BY <2>6, <2>10, TypesOfFrames, Zenon DEF Fields
  <2>12. IsQuestion(Frame(MDR, p))
    BY <2>3, <2>6, <2>7, <2>11, Zenon DEF IsQuestion
  <2> QED BY <2>4, <2>6, <2>12, Zenon DEF Frames
<1>3. ASSUME NEW s \in Names, NEW h, IsHeadset(h), NEW first \in Firsts(s)
      PROVE  Report(s, h, first) \in Frames /\ Says(Report(s, h, first), FieldsOf(s, h))
  <2>1. Says(Report(s, h, first), FieldsOf(s, h))
    BY <1>3, ReportSays
  <2>2. Report(s, h, first) \in WireFrames
    BY <2>1, Zenon DEF Says
  <2>3. IsReport(Report(s, h, first))
    BY <1>3, <2>1, Zenon DEF IsReport
  <2> QED BY <2>1, <2>2, <2>3, Zenon DEF Frames
<1> QED BY <1>1, <1>2, <1>3, Zenon

\* The headset's frames fit the wire.
LEMMA FramesOnWire == \A fs \in Seq(Frames) : fs \in Seq(WireFrames)
BY DEF Frames

\* The loop over what was read keeps the stream.
LEMMA LoopKeeps ==
  ASSUME NEW fs \in Seq(Frames), NEW b \in Seq(Byte), NEW a \in Seq(Byte), b \o a = Bytes(fs), Loop(b)
  PROVE  StreamOf(pc', buffer', a, fs) /\ pc' \in {"idle", "frames"}
<1>1. fs \in Seq(WireFrames)
  BY FramesOnWire
<1>2. \/ NextFrame(b) = [frame |-> <<>>, rest |-> b] /\ Len(b) < MaxFrame
      \/ /\ fs # <<>>
         /\ \E r \in Seq(Byte) : /\ NextFrame(b) = [frame |-> <<Pack(fs[1])>>, rest |-> r]
                                 /\ r \o a = Bytes(Tail(fs))
  BY <1>1, StreamNext
<1>3. CASE NextFrame(b) = [frame |-> <<>>, rest |-> b] /\ Len(b) < MaxFrame
  <2>1. pc' = "idle" /\ buffer' = b
    BY <1>3 DEF Loop
  <2> QED BY <1>3, <2>1 DEF StreamOf
<1>4. ASSUME fs # <<>>,
             NEW r \in Seq(Byte), NextFrame(b) = [frame |-> <<Pack(fs[1])>>, rest |-> r], r \o a = Bytes(Tail(fs))
      PROVE  StreamOf(pc', buffer', a, fs) /\ pc' \in {"idle", "frames"}
  <2>1. <<Pack(fs[1])>> # <<>>
    OBVIOUS
  <2>2. pc' = "frames" /\ buffer' = b
    BY <1>4, <2>1 DEF Loop
  <2>3. pc' # "idle"
    BY <2>2
  <2> QED BY <1>4, <2>2, <2>3, Zenon DEF StreamOf
<1> QED BY <1>2, <1>3, <1>4, Zenon

\* What the headset sends is added to the stream.
LEMMA PutsKeeps ==
  ASSUME StreamInv, pc = "idle", NEW gs \in Seq(Frames), Puts(gs), UNCHANGED <<pc, buffer>>
  PROVE  StreamInv'
<1>1. /\ inAir \in Seq(Frames) /\ buffer \in Seq(Byte) /\ air \in Seq(Byte)
      /\ buffer \o air = Bytes(inAir) /\ Len(buffer) < MaxFrame
  BY Zenon DEF StreamInv, StreamOf
<1>2. inAir \in Seq(WireFrames) /\ gs \in Seq(WireFrames)
  BY <1>1, FramesOnWire
<1>3. Bytes(gs) \in Seq(Byte) /\ Bytes(inAir \o gs) = Bytes(inAir) \o Bytes(gs)
  BY <1>2, BytesType, BytesConcat
<1>4. air' = air \o Bytes(gs) /\ inAir' = inAir \o gs
  BY DEF Puts
<1>5. air' \in Seq(Byte) /\ inAir' \in Seq(Frames)
  BY <1>1, <1>3, <1>4, ConcatProperties
<1>6. buffer \o (air \o Bytes(gs)) = (buffer \o air) \o Bytes(gs)
  BY <1>1, <1>3, BytesAssociative
<1>7. buffer' \o air' = Bytes(inAir')
  BY <1>1, <1>3, <1>4, <1>6
<1>8. pc' = "idle" /\ buffer' = buffer /\ pc' # "frames"
  OBVIOUS
<1>9. StreamOf(pc', buffer', air', inAir')
  BY <1>1, <1>5, <1>7, <1>8, Zenon DEF StreamOf
<1> QED BY <1>9 DEF StreamInv

\* What the daemon does about a frame.
Acknowledged(fr) ==
  fr.type = ACK /\ queue' = Tail(queue) /\ taken' = FALSE /\ UNCHANGED <<state, lastAmbientStep>>
Asked(fr) ==
  /\ IsQuestion(fr) /\ UNCHANGED <<state, lastAmbientStep, taken>>
  /\ \E yes \in BOOLEAN : queue' = Append(queue, AlertItem(fr.payload[3], yes))
Reported(fr) ==
  /\ fr.type # ACK /\ UNCHANGED <<queue, taken>>
  /\ \E s \in Names : \E h : /\ IsHeadset(h) /\ Says(fr, FieldsOf(s, h)) /\ state' = ToldOf(state, s, h)
  /\ lastAmbientStep' = IF state'.noise_mode = "ambient" THEN state'.ambient_sound_level ELSE lastAmbientStep

\* A round of the loop handles the first frame the headset has sent and the
\* daemon not handled: an acknowledgement, a question or a report.
LEMMA FrameHandled ==
  ASSUME TypesInv, HandleFrame
  PROVE  /\ up = TRUE /\ inAir # <<>> /\ inAir[1] \in Frames /\ inAir' = Tail(inAir)
         /\ StreamInv' /\ pc' \in {"idle", "frames"}
         /\ UNCHANGED <<up, headset, pending, air, unsure, blind, declined, events>>
         /\ doubts' = DoubtsAfter(inAir[1])
         /\ Acknowledged(inAir[1]) \/ Asked(inAir[1]) \/ Reported(inAir[1])
<1> DEFINE next == NextFrame(buffer)
           read == UnpackFrame(next.frame[1])
           fr == inAir[1]
<1>1. /\ pc = "frames" /\ inAir \in Seq(Frames) /\ inAir # <<>> /\ air \in Seq(Byte)
      /\ \E r \in Seq(Byte) : /\ next = [frame |-> <<Pack(fr)>>, rest |-> r]
                              /\ r \o air = Bytes(Tail(inAir))
  <2>1. pc = "frames"
    BY Zenon DEF HandleFrame
  <2>2. StreamOf(pc, buffer, air, inAir)
    BY Zenon DEF TypesInv, StreamInv
  <2> QED BY <2>1, <2>2, Zenon DEF StreamOf
<1>2. PICK r \in Seq(Byte) : next = [frame |-> <<Pack(fr)>>, rest |-> r] /\ r \o air = Bytes(Tail(inAir))
  BY <1>1, Zenon
<1>3. fr \in Frames /\ Tail(inAir) \in Seq(Frames)
  BY <1>1
<1>4. next.rest = r /\ next.frame[1] = Pack(fr)
  BY <1>2
<1>5. read = <<fr>>
  <2>1. fr \in WireFrames
    BY <1>3, Zenon DEF Frames
  <2>2. UnpackFrame(Pack(fr)) = <<fr>>
    BY <2>1, PackWire, Zenon
  <2> HIDE DEF next
  <2> QED BY <1>4, <2>2
<1>6. up = TRUE
  BY <1>1, Zenon DEF TypesInv, LinkInv
<1> DEFINE p == read[1].payload
           fields == Fields(read[1])
           alert == read[1].type = MDR /\ AsksToProceed(p)
           proceed == alert /\ Proceeds(p[3])
           data == /\ state' = IF fields = <<>> THEN state ELSE Updated([state EXCEPT !.connected = TRUE], fields)
                   /\ lastAmbientStep' = IF fields # <<>> /\ state'.noise_mode = "ambient"
                                         THEN state'.ambient_sound_level ELSE lastAmbientStep
                   /\ IF alert THEN /\ keyAssignRequested' = FALSE
                                    /\ Send(Enqueue(queue, Item("alert reply", MDR, AlertReply(p[3], proceed))))
                               ELSE UNCHANGED <<keyAssignRequested, queue>>
<1>7. /\ Loop(next.rest)
      /\ inAir' = IF read = <<>> THEN inAir ELSE Tail(inAir)
      /\ doubts' = IF read = <<>> THEN doubts ELSE DoubtsAfter(read[1])
      /\ UNCHANGED <<up, headset, pending, air, unsure, blind, declined, events>>
      /\ \/ read = <<>> \/ read[1].type \notin {ACK, MDR, MDR2}
         \/ read # <<>> /\ read[1].type = ACK /\ queue' = Tail(queue) /\ taken' = FALSE /\ UNCHANGED <<state, lastAmbientStep>>
         \/ read # <<>> /\ read[1].type \in {MDR, MDR2} /\ data /\ UNCHANGED taken
  BY Zenon DEF HandleFrame
<1>8. read # <<>> /\ read[1] = fr
  <2> HIDE DEF read, fr
  <2> QED BY <1>5
<1>9. inAir' = Tail(inAir) /\ doubts' = DoubtsAfter(fr)
  BY <1>7, <1>8, Zenon
<1>10. StreamInv' /\ pc' \in {"idle", "frames"}
  <2>1. Loop(r)
    BY <1>4, <1>7, Zenon
  <2>2. StreamOf(pc', buffer', air, Tail(inAir)) /\ pc' \in {"idle", "frames"}
    BY <1>1, <1>2, <1>3, <2>1, LoopKeeps, Zenon
  <2>3. air' = air
    BY <1>7
  <2> QED BY <1>9, <2>2, <2>3 DEF StreamInv
<1>11. fr.type = ACK \/ IsQuestion(fr) \/ IsReport(fr)
  BY <1>3, Zenon DEF Frames
<1>12. fields = Fields(fr) /\ p = fr.payload
  BY <1>8, Zenon
<1>13. Acknowledged(fr) \/ Asked(fr) \/ Reported(fr)
  <2>1. CASE fr.type = ACK
    <3>1. fr.type \notin {MDR, MDR2}
      BY <2>1, TypesOfFrames
    <3> QED BY <1>7, <1>8, <2>1, <3>1, Zenon DEF Acknowledged
  <2>2. CASE IsQuestion(fr)
    <3>1. fr.type = MDR /\ fields = <<>> /\ alert
      BY <1>8, <1>12, <2>2, Zenon DEF IsQuestion
    <3>2. fr.type # ACK
      BY <3>1, TypesOfFrames
    <3>3. data /\ UNCHANGED taken
      BY <1>7, <1>8, <3>1, <3>2, Zenon
    <3>4. UNCHANGED <<state, lastAmbientStep, taken>>
      BY <3>1, <3>3, Zenon
    <3>5. Send(Enqueue(queue, Item("alert reply", MDR, AlertReply(p[3], proceed))))
      BY <3>1, <3>3, Zenon
    <3>6. queue' = Append(queue, AlertItem(fr.payload[3], proceed))
      BY <1>6, <1>12, <3>5, Zenon DEF Send, Enqueue, AlertItem
    <3>7. \E yes \in BOOLEAN : queue' = Append(queue, AlertItem(fr.payload[3], yes))
      <4>1. proceed \in BOOLEAN
        OBVIOUS
      <4> HIDE DEF proceed
      <4> QED BY <3>6, <4>1, Zenon
    <3> QED BY <2>2, <3>4, <3>7, Zenon DEF Asked
  <2>3. CASE IsReport(fr)
    <3>1. PICK s \in Names : \E h : IsHeadset(h) /\ Says(fr, FieldsOf(s, h))
      BY <2>3, Zenon DEF IsReport
    <3>2. PICK h : IsHeadset(h) /\ Says(fr, FieldsOf(s, h))
      BY <3>1, Zenon
    <3>3. fr.type \in {MDR, MDR2} /\ fields = FieldsOf(s, h) /\ ~AsksToProceed(fr.payload)
      BY <1>12, <3>2, Zenon DEF Says
    <3>4. ~alert /\ fr.type # ACK
      <4>1. fr.type # ACK
        BY <3>3, TypesOfFrames
      <4> QED BY <1>12, <3>3, <4>1, Zenon
    <3>5. fields # <<>>
      <4>1. FieldsOf(s, h) # <<>>
        BY <3>2, FieldsThere, Zenon
      <4> HIDE DEF fields
      <4> QED BY <3>3, <4>1
    <3>6. data /\ UNCHANGED taken
      BY <1>7, <1>8, <3>3, <3>4, Zenon
    <3>7. UNCHANGED <<queue, taken>>
      BY <3>4, <3>6, Zenon
    <3>8. state' = ToldOf(state, s, h)
      BY <3>3, <3>5, <3>6, Zenon DEF ToldOf
    <3>9. lastAmbientStep' = IF state'.noise_mode = "ambient" THEN state'.ambient_sound_level ELSE lastAmbientStep
      BY <3>5, <3>6, Zenon
    <3> QED BY <3>2, <3>4, <3>7, <3>8, <3>9, Zenon DEF Reported
  <2> QED BY <1>11, <2>1, <2>2, <2>3, Zenon
<1> QED BY <1>1, <1>3, <1>6, <1>7, <1>9, <1>10, <1>13, Zenon

\* A read leaves room for what is not a frame yet.
LEMMA ReadKeeps ==
  ASSUME TypesInv, Read
  PROVE  StreamInv' /\ pc' \in {"idle", "frames"} /\ up = TRUE
<1>1. PICK n \in 1 .. Len(air) :
        /\ n = Min({Len(air), ReadMax}) \/ n \in ReadSizes
        /\ Loop(FramerAppend(buffer, SubSeq(air, 1, n), FramerLimit))
        /\ air' = SubSeq(air, n + 1, Len(air))
  BY Zenon DEF Read
<1>2. pc = "idle" /\ up = TRUE /\ UNCHANGED inAir
  BY Zenon DEF Read, TypesInv, LinkInv
<1>3. /\ inAir \in Seq(Frames) /\ buffer \in Seq(Byte) /\ air \in Seq(Byte)
      /\ buffer \o air = Bytes(inAir) /\ Len(buffer) < MaxFrame
  BY <1>2, Zenon DEF TypesInv, StreamInv, StreamOf
<1>4. ReadMax \in Nat /\ ReadSizes \subseteq 1 .. ReadMax /\ FramerLimit \in Nat /\ ReadMax + MaxFrame <= FramerLimit
  BY ControlAssumption
<1>5. n <= ReadMax
  <2>1. \A a, b \in Nat : Min({a, b}) <= b
    <3> TAKE a, b \in Nat
    <3>1. CASE a <= b
      <4>1. \A x \in {a, b} : (\A y \in {a, b} : x <= y) => x = a
        BY <3>1
      <4>2. \A y \in {a, b} : a <= y
        BY <3>1
      <4> QED BY <3>1, <4>1, <4>2 DEF Min
    <3>2. CASE ~(a <= b)
      <4>1. \A x \in {a, b} : (\A y \in {a, b} : x <= y) => x = b
        BY <3>2
      <4>2. \A y \in {a, b} : b <= y
        BY <3>2
      <4> QED BY <3>2, <4>1, <4>2 DEF Min
    <3> QED BY <3>1, <3>2
  <2>2. Len(air) \in Nat
    BY <1>3, LenProperties
  <2> QED BY <1>1, <1>4, <2>1, <2>2
<1> DEFINE piece == SubSeq(air, 1, n)
           rest == SubSeq(air, n + 1, Len(air))
<1>6. piece \in Seq(Byte) /\ rest \in Seq(Byte) /\ Len(piece) = n /\ air = piece \o rest
  BY <1>3
<1> HIDE DEF piece, rest
<1>7. FramerAppend(buffer, piece, FramerLimit) = buffer \o piece
  <2>1. Len(buffer) \in Nat /\ Len(piece) \in Nat /\ MaxFrame \in Nat
    BY <1>3, <1>6, LenProperties DEF MaxFrame
  <2>2. ~(Len(buffer) + Len(piece) > FramerLimit)
    BY <1>3, <1>4, <1>5, <1>6, <2>1
  <2> QED BY <2>2, Zenon DEF FramerAppend
<1>8. (buffer \o piece) \o rest = Bytes(inAir) /\ buffer \o piece \in Seq(Byte)
  <2>1. (buffer \o piece) \o rest = buffer \o (piece \o rest)
    BY <1>3, <1>6, BytesAssociative
  <2>2. buffer \o (piece \o rest) = Bytes(inAir)
    BY <1>3, <1>6
  <2>3. buffer \o piece \in Seq(Byte)
    BY <1>3, <1>6, ConcatProperties
  <2> QED BY <2>1, <2>2, <2>3, Zenon
<1>9. Loop(buffer \o piece) /\ air' = rest
  <2>1. Loop(FramerAppend(buffer, piece, FramerLimit))
    BY <1>1 DEF piece
  <2>2. air' = rest
    BY <1>1 DEF rest
  <2> QED BY <1>7, <2>1, <2>2
<1>10. StreamOf(pc', buffer', rest, inAir) /\ pc' \in {"idle", "frames"}
  BY <1>3, <1>6, <1>8, <1>9, LoopKeeps, Zenon
<1> QED BY <1>2, <1>9, <1>10 DEF StreamInv

-----------------------------------------------------------------------------
(* The verbs. *)

\* A command for the noise control is what the copy says.
NoiseWish(st, on, step, focus) ==
  /\ (st.noise_mode = "off") = ~on
  /\ on => st.ambient_sound_level = step /\ (step >= MinAmbientStep => st.voice_passthrough = focus)

\* The command is what the copy says of s.
Agreeing(item, s, st) ==
  \/ s \in Settings /\ st[s] \in Values[s] /\ item = SetItem(s, st[s])
  \/ /\ s = "noise"
     /\ \E w \in NoiseNames : \E on \in BOOLEAN, step \in 0 .. MaxAmbientStep, focus \in BOOLEAN :
          item = NoiseItem(w, on, step, focus) /\ NoiseWish(st, on, step, focus)

\* The copy changes in no more than s.
SameBut(s, st, new) ==
  \A r \in Names \ {s} :
    IF r = "noise" THEN /\ new.noise_mode = st.noise_mode
                        /\ new.ambient_sound_level = st.ambient_sound_level
                        /\ new.voice_passthrough = st.voice_passthrough
                   ELSE new[r] = st[r]

Added(q, item, r) ==
  Coalesced(q, item, r) \/ \E w \in Seq(Queries) : r = Append(q, item) \o w

\* A verb about s: the copy changes, and a command that says so is on its way.
Wished(s, item) ==
  /\ s \in Names /\ item \in Items
  /\ pc = "idle" /\ UNCHANGED <<pc, up, buffer, headsetVars, declined, unsure>>
  /\ IF up THEN Added(queue, item, queue') ELSE queue' = queue
  /\ IsCopy(state') /\ state'.connected = state.connected
  /\ lastAmbientStep' \in {-1} \cup MinAmbientStep .. MaxAmbientStep
  /\ SameBut(s, state, state') /\ Agreeing(item, s, state')

\* A setter of one setting changes the copy in it alone, and its command says
\* so.
LEMMA SettingWished ==
  ASSUME IsCopy(state), NEW s \in Settings, NEW v \in Values[s], state' = InState(s, v)
  PROVE  /\ IsCopy(state') /\ state'.connected = state.connected
         /\ SameBut(s, state, state') /\ Agreeing(SetItem(s, v), s, state')
         /\ s \in Names /\ SetItem(s, v) \in Items
<1>1. /\ IsCopy(state') /\ state'[s] = v
      /\ \A x \in DOMAIN state : x # s => state'[x] = state[x]
  <2>1. state' = [state EXCEPT ![s] = v]
    BY DEF InState
  <2>2. /\ IsCopy([state EXCEPT ![s] = v]) /\ [state EXCEPT ![s] = v][s] = v
        /\ \A x \in DOMAIN state : x # s => [state EXCEPT ![s] = v][x] = state[x]
    BY CopySet, Zenon
  <2> QED BY <2>1, <2>2
<1>2. /\ DOMAIN state = Settings \cup StateFields /\ s \notin StateFields
  BY SettingsAre DEF IsCopy
<1>3. state'.connected = state.connected
  BY <1>1, <1>2 DEF StateFields
<1>4. SameBut(s, state, state')
  <2>1. /\ state'.noise_mode = state.noise_mode
        /\ state'.ambient_sound_level = state.ambient_sound_level
        /\ state'.voice_passthrough = state.voice_passthrough
    BY <1>1, <1>2 DEF StateFields
  <2>2. \A r \in Names \ {s} : r # "noise" => state'[r] = state[r]
    BY <1>1, <1>2, SettingsAre DEF StateFields
  <2> QED BY <2>1, <2>2, Zenon DEF SameBut
<1>5. Agreeing(SetItem(s, v), s, state')
  BY <1>1, Zenon DEF Agreeing
<1> QED BY <1>1, <1>3, <1>4, <1>5, SettingsAre, ItemsAre

\* The copy after a verb of the noise control.
NoiseChanged(st, new, mode, level, focus) ==
  /\ DOMAIN new = DOMAIN st
  /\ new.noise_mode = mode /\ new.ambient_sound_level = level /\ new.voice_passthrough = focus
  /\ \A x \in DOMAIN st \ {"noise_mode", "ambient_sound_level", "voice_passthrough"} : new[x] = st[x]

\* The setters of noise control leave the copy a copy, and change it in nothing
\* else.
LEMMA NoiseCopied ==
  ASSUME NEW st, IsCopy(st), NEW mode \in NoiseModes, NEW level \in 0 .. MaxAmbientStep, NEW focus \in BOOLEAN,
         mode # "off" => mode = StepToNoiseMode(level), NEW new, NoiseChanged(st, new, mode, level, focus)
  PROVE  IsCopy(new) /\ new.connected = st.connected /\ SameBut("noise", st, new)
<1>1. DOMAIN st = Settings \cup StateFields
  BY DEF IsCopy
<1>2. /\ DOMAIN new = DOMAIN st
      /\ new.noise_mode = mode /\ new.ambient_sound_level = level /\ new.voice_passthrough = focus
      /\ \A x \in DOMAIN st \ {"noise_mode", "ambient_sound_level", "voice_passthrough"} : new[x] = st[x]
  BY Zenon DEF NoiseChanged
<1>3. \A x \in Settings \cup {"battery_level", "connected"} :
        x \in DOMAIN st \ {"noise_mode", "ambient_sound_level", "voice_passthrough"}
  BY <1>1, SettingsAre DEF StateFields
<1>4. SameBut("noise", st, new)
  BY <1>2, <1>3, SettingsAre DEF SameBut
<1>5. \A x \in Settings : new[x] \in Values[x] \cup {-1, Unknown}
  <2> TAKE x \in Settings
  <2>1. new[x] = st[x]
    BY <1>2, <1>3
  <2> QED BY <2>1, Zenon DEF IsCopy
<1>6. IsCopy(new)
  BY <1>1, <1>2, <1>5, Zenon DEF IsCopy
<1>7. new.connected = st.connected
  BY <1>2, <1>3
<1> QED BY <1>2, <1>4, <1>6, <1>7, Zenon

\* The verb noise is a wish about noise control.
LEMMA NoiseModeWished ==
  ASSUME TypesInv, NEW mode \in Modes, NEW level, SetNoiseMode(mode, level)
  PROVE  \E item : Wished("noise", item)
<1> DEFINE preferred == IF mode = "ambient" /\ level < MinAmbientStep THEN lastAmbientStep ELSE level
           step == NoiseModeToStep(mode, preferred)
           off == NoiseItem("noise off", FALSE, step, FALSE)
           on == NoiseItem("noise mode", TRUE, step, state.voice_passthrough)
           item == IF mode = "off" THEN off ELSE on
<1>1. /\ pc = "idle"
      /\ lastAmbientStep' = IF mode = "ambient" THEN step ELSE lastAmbientStep
      /\ state' = NoiseInState(mode, step)
      /\ Send(IF mode = "off" THEN Coalesce(queue, off) ELSE Coalesce(queue, on))
      /\ UNCHANGED <<pc, up, buffer, headsetVars, declined, unsure>>
  BY Zenon DEF SetNoiseMode, Verb, SetterLeaves, Untouched, NoiseItem
<1>2. IsCopy(state) /\ queue \in Seq(Items) /\ up \in BOOLEAN /\ mode \in NoiseModes
      /\ lastAmbientStep \in {-1} \cup MinAmbientStep .. MaxAmbientStep
  BY ControlAssumption, Zenon DEF TypesInv, CopyInv, QueueInv, LinkInv
<1>3. /\ step \in 0 .. MaxAmbientStep
      /\ mode # "off" => mode = StepToNoiseMode(step)
      /\ mode = "ambient" => step \in MinAmbientStep .. MaxAmbientStep
  BY <1>2 DEF NoiseModeToStep, StepToNoiseMode, NoiseModes, StepNoiseCancel, StepWind, MinAmbientStep, MaxAmbientStep
<1>4. state.voice_passthrough \in BOOLEAN /\ state.ambient_sound_level \in 0 .. MaxAmbientStep
  BY <1>2, Zenon DEF IsCopy
<1> HIDE DEF step
<1> DEFINE l == IF mode = "off" THEN state.ambient_sound_level ELSE step
           focus == state.voice_passthrough
<1>5. l \in 0 .. MaxAmbientStep /\ (mode # "off" => l = step)
  BY <1>3, <1>4
<1>6. NoiseChanged(state, state', mode, l, focus)
  <2>1. DOMAIN state = Settings \cup StateFields
    BY <1>2 DEF IsCopy
  <2> QED BY <1>1, <2>1 DEF NoiseInState, NoiseChanged, StateFields
<1> HIDE DEF l
<1>7. IsCopy(state') /\ state'.connected = state.connected /\ SameBut("noise", state, state')
  <2>1. mode # "off" => mode = StepToNoiseMode(l)
    BY <1>3, <1>5
  <2> QED BY <1>2, <1>4, <1>5, <1>6, <2>1, NoiseCopied, Zenon
<1>8. /\ state'.noise_mode = mode /\ state'.ambient_sound_level = l /\ state'.voice_passthrough = focus
  BY <1>6, Zenon DEF NoiseChanged
<1>9. item \in Items /\ Agreeing(item, "noise", state')
  <2>1. CASE mode = "off"
    <3>1. item = NoiseItem("noise off", FALSE, step, FALSE)
      BY <2>1
    <3>2. NoiseWish(state', FALSE, step, FALSE)
      BY <1>8, <2>1 DEF NoiseWish
    <3>3. "noise off" \in NoiseNames
      BY DEF NoiseNames
    <3> QED BY <1>3, <3>1, <3>2, <3>3, ItemsAre, Zenon DEF Agreeing
  <2>2. CASE mode # "off"
    <3>1. item = NoiseItem("noise mode", TRUE, step, focus)
      BY <2>2
    <3>2. NoiseWish(state', TRUE, step, focus)
      BY <1>5, <1>8, <2>2, Zenon DEF NoiseWish
    <3>3. "noise mode" \in NoiseNames
      BY DEF NoiseNames
    <3> HIDE DEF item, focus
    <3>4. focus \in BOOLEAN
      BY <1>4 DEF focus
    <3> QED BY <1>3, <3>1, <3>2, <3>3, <3>4, ItemsAre, Zenon DEF Agreeing
  <2> QED BY <2>1, <2>2
<1>10. IF up THEN Added(queue, item, queue') ELSE queue' = queue
  <2>1. Send(Coalesce(queue, item))
    BY <1>1
  <2> HIDE DEF item
  <2>2. Coalesced(queue, item, Coalesce(queue, item))
    BY <1>2, <1>9, CoalesceIs, Zenon
  <2> QED BY <2>1, <2>2, Zenon DEF Send, Added
<1>11. lastAmbientStep' \in {-1} \cup MinAmbientStep .. MaxAmbientStep
  BY <1>1, <1>2, <1>3
<1>12. "noise" \in Names
  BY DEF Names
<1> HIDE DEF item
<1>13. Wished("noise", item)
  BY <1>1, <1>7, <1>9, <1>10, <1>11, <1>12, Zenon DEF Wished
<1> QED BY <1>13, Zenon

\* So is ambient-level.
LEMMA AmbientWished ==
  ASSUME TypesInv, NEW level, SetAmbientLevel(level)
  PROVE  \E item : Wished("noise", item)
<1> DEFINE focus == state.voice_passthrough
           item == NoiseItem("ambient level", TRUE, level, focus)
<1>1. /\ pc = "idle" /\ level \in 0 .. MaxAmbientStep
      /\ lastAmbientStep' = IF level >= MinAmbientStep THEN level ELSE lastAmbientStep
      /\ state' = AmbientInState(level)
      /\ Send(Coalesce(queue, item))
      /\ UNCHANGED <<pc, up, buffer, headsetVars, declined, unsure>>
  BY Zenon DEF SetAmbientLevel, AmbientLevels, Verb, SetterLeaves, Untouched, NoiseItem
<1>2. IsCopy(state) /\ queue \in Seq(Items) /\ up \in BOOLEAN
      /\ lastAmbientStep \in {-1} \cup MinAmbientStep .. MaxAmbientStep
  BY Zenon DEF TypesInv, CopyInv, QueueInv, LinkInv
<1>3. focus \in BOOLEAN
  BY <1>2, Zenon DEF IsCopy
<1> DEFINE mode == StepToNoiseMode(level)
<1>4. mode \in NoiseModes /\ mode # "off"
  BY DEF StepToNoiseMode, NoiseModes
<1>5. NoiseChanged(state, state', mode, level, focus)
  <2>1. DOMAIN state = Settings \cup StateFields
    BY <1>2 DEF IsCopy
  <2> HIDE DEF mode
  <2>2. state' = [state EXCEPT !.ambient_sound_level = level, !.noise_mode = mode]
    BY <1>1 DEF AmbientInState, mode
  <2> QED BY <2>1, <2>2 DEF NoiseChanged, StateFields
<1>6. IsCopy(state') /\ state'.connected = state.connected /\ SameBut("noise", state, state')
  <2>1. mode = StepToNoiseMode(level) /\ level \in 0 .. MaxAmbientStep
    BY <1>1
  <2> HIDE DEF mode, focus
  <2> QED BY <1>2, <1>3, <1>4, <1>5, <2>1, NoiseCopied
<1>7. NoiseWish(state', TRUE, level, focus)
  <2>1. /\ state'.noise_mode = mode /\ state'.ambient_sound_level = level /\ state'.voice_passthrough = focus
    BY <1>5, Zenon DEF NoiseChanged
  <2> QED BY <1>4, <2>1, Zenon DEF NoiseWish
<1>8. item \in Items /\ Agreeing(item, "noise", state')
  <2>1. "ambient level" \in NoiseNames
    BY DEF NoiseNames
  <2> HIDE DEF focus
  <2> QED BY <1>1, <1>3, <1>7, <2>1, ItemsAre, Zenon DEF Agreeing
<1> HIDE DEF item
<1>9. IF up THEN Added(queue, item, queue') ELSE queue' = queue
  <2>1. Coalesced(queue, item, Coalesce(queue, item))
    BY <1>2, <1>8, CoalesceIs, Zenon
  <2> QED BY <1>1, <2>1, Zenon DEF Send, Added
<1>10. lastAmbientStep' \in {-1} \cup MinAmbientStep .. MaxAmbientStep
  BY <1>1, <1>2
<1>11. "noise" \in Names
  BY DEF Names
<1>12. Wished("noise", item)
  BY <1>1, <1>6, <1>8, <1>9, <1>10, <1>11, Zenon DEF Wished
<1> QED BY <1>12, Zenon

\* So is voice-focus: it sends the mode and the step of the copy again.
LEMMA FocusWished ==
  ASSUME TypesInv, NEW enabled \in BOOLEAN, SetVoiceFocus(enabled)
  PROVE  \E item : Wished("noise", item)
<1> DEFINE on == state.noise_mode # "off"
           step == state.ambient_sound_level
           mode == state.noise_mode
           item == NoiseItem("focus on voice", on, step, enabled)
<1>1. /\ pc = "idle"
      /\ state' = [state EXCEPT !.voice_passthrough = enabled]
      /\ Send(Coalesce(queue, item))
      /\ UNCHANGED <<pc, up, buffer, headsetVars, declined, unsure, lastAmbientStep>>
  BY Zenon DEF SetVoiceFocus, Verb, SetterLeaves, Untouched, NoiseItem
<1>2. IsCopy(state) /\ queue \in Seq(Items) /\ up \in BOOLEAN
      /\ lastAmbientStep \in {-1} \cup MinAmbientStep .. MaxAmbientStep
  BY Zenon DEF TypesInv, CopyInv, QueueInv, LinkInv
<1>3. on \in BOOLEAN /\ step \in 0 .. MaxAmbientStep /\ mode \in NoiseModes
      /\ (mode # "off" => mode = StepToNoiseMode(step))
  BY <1>2, Zenon DEF IsCopy
<1>4. NoiseChanged(state, state', mode, step, enabled)
  <2>1. DOMAIN state = Settings \cup StateFields
    BY <1>2 DEF IsCopy
  <2> QED BY <1>1, <2>1 DEF NoiseChanged, StateFields
<1>5. IsCopy(state') /\ state'.connected = state.connected /\ SameBut("noise", state, state')
  BY <1>2, <1>3, <1>4, NoiseCopied, Zenon
<1>6. /\ state'.noise_mode = mode /\ state'.ambient_sound_level = step /\ state'.voice_passthrough = enabled
  BY <1>4, Zenon DEF NoiseChanged
<1>7. NoiseWish(state', on, step, enabled)
  BY <1>6, Zenon DEF NoiseWish
<1>8. item \in Items /\ Agreeing(item, "noise", state')
  <2>1. "focus on voice" \in NoiseNames
    BY DEF NoiseNames
  <2> HIDE DEF on, step
  <2> QED BY <1>3, <1>7, <2>1, ItemsAre, Zenon DEF Agreeing
<1> HIDE DEF item
<1>9. IF up THEN Added(queue, item, queue') ELSE queue' = queue
  <2>1. Coalesced(queue, item, Coalesce(queue, item))
    BY <1>2, <1>8, CoalesceIs, Zenon
  <2> QED BY <1>1, <2>1, Zenon DEF Send, Added
<1>10. lastAmbientStep' \in {-1} \cup MinAmbientStep .. MaxAmbientStep
  BY <1>1, <1>2, Zenon
<1>11. "noise" \in Names
  BY DEF Names
<1>12. Wished("noise", item)
  BY <1>1, <1>5, <1>8, <1>9, <1>10, <1>11, Zenon DEF Wished
<1> QED BY <1>12, Zenon

\* A setter that sends its command is a wish about its setting.
LEMMA SetterWished ==
  ASSUME TypesInv, NEW s \in Settings, NEW v \in Values[s], pc = "idle", state' = InState(s, v),
         NEW q, Send(q), Added(queue, SetItem(s, v), q),
         UNCHANGED <<pc, up, buffer, headsetVars, declined, unsure, lastAmbientStep>>
  PROVE  Wished(s, SetItem(s, v))
<1>1. IsCopy(state) /\ lastAmbientStep \in {-1} \cup MinAmbientStep .. MaxAmbientStep
  BY Zenon DEF TypesInv, CopyInv
<1>2. /\ IsCopy(state') /\ state'.connected = state.connected
      /\ SameBut(s, state, state') /\ Agreeing(SetItem(s, v), s, state')
      /\ s \in Names /\ SetItem(s, v) \in Items
  BY <1>1, SettingWished, Zenon
<1>3. IF up THEN Added(queue, SetItem(s, v), queue') ELSE queue' = queue
  BY Zenon DEF Send
<1>4. lastAmbientStep' \in {-1} \cup MinAmbientStep .. MaxAmbientStep
  BY <1>1, Zenon
<1> QED BY <1>2, <1>3, <1>4, Zenon DEF Wished

\* The verbs of the sound effects are wishes about them.
LEMMA DspWished ==
  ASSUME TypesInv, NEW s, NEW v, SetDsp(s, v)
  PROVE  s \in Settings /\ s \in Dsp /\ v \in Values[s] /\ Wished(s, SetItem(s, v))
<1>1. s \in Dsp /\ v \in Values[s] /\ s \in Settings
  BY Zenon DEF SetDsp, Dsp
<1>2. /\ pc = "idle" /\ state' = InState(s, v) /\ Send(Append(queue, SetItem(s, v)))
      /\ UNCHANGED <<pc, up, buffer, headsetVars, declined, unsure, lastAmbientStep>>
  BY Zenon DEF SetDsp, Verb, Untouched, Enqueue, SetItem
<1>3. Added(queue, SetItem(s, v), Append(queue, SetItem(s, v)))
  BY Zenon DEF Added, Coalesced
<1> QED BY <1>1, <1>2, <1>3, SetterWished, Zenon

\* So are those that only send, whether they coalesce or not.
LEMMA PlainWished ==
  ASSUME TypesInv, NEW s, NEW v, SetPlain(s, v)
  PROVE  s \in Settings /\ s \notin Dsp /\ s # "connection_mode" /\ v \in Values[s] /\ Wished(s, SetItem(s, v))
<1>1. s \in Settings /\ s \notin Dsp /\ s # "connection_mode" /\ v \in Values[s]
  BY DEF SetPlain, Plain
<1> DEFINE q == IF s = "volume" THEN Coalesce(queue, SetItem(s, v)) ELSE Append(queue, SetItem(s, v))
<1>2. /\ pc = "idle" /\ state' = InState(s, v) /\ Send(q)
      /\ UNCHANGED <<pc, up, buffer, headsetVars, declined, unsure, lastAmbientStep>>
  BY Zenon DEF SetPlain, Verb, SetterLeaves, Untouched, Enqueue, SetItem
<1>3. Added(queue, SetItem(s, v), q)
  <2>1. queue \in Seq(Items) /\ SetItem(s, v) \in Items
    BY <1>1, ItemsAre, Zenon DEF TypesInv, QueueInv
  <2>2. Coalesced(queue, SetItem(s, v), Coalesce(queue, SetItem(s, v)))
    BY <2>1, CoalesceIs, Zenon
  <2> QED BY <2>2, Zenon DEF Added, Coalesced
<1> HIDE DEF q
<1> QED BY <1>1, <1>2, <1>3, SetterWished, Zenon

\* So is nc-button.
LEMMA ButtonWished ==
  ASSUME TypesInv, NEW v, "nc_button" \in Settings, SetNcButton(v)
  PROVE  v \in Values["nc_button"] /\ Wished("nc_button", SetItem("nc_button", v))
<1>1. v \in Values["nc_button"]
  BY Zenon DEF SetNcButton
<1>2. /\ pc = "idle" /\ state' = InState("nc_button", v) /\ Send(Append(queue, SetItem("nc_button", v)))
      /\ UNCHANGED <<pc, up, buffer, headsetVars, declined, unsure, lastAmbientStep>>
  <2>1. TypeOf("nc_button") = MDR
    BY DEF TypeOf
  <2>2. SetItem("nc_button", v) = Item("nc_button", MDR, SerializeSet("nc_button", v))
    BY <2>1, Zenon DEF SetItem
  <2> QED BY <2>2, Zenon DEF SetNcButton, Verb, Untouched, Enqueue
<1>3. Added(queue, SetItem("nc_button", v), Append(queue, SetItem("nc_button", v)))
  BY Zenon DEF Added, Coalesced
<1> QED BY <1>1, <1>2, <1>3, SetterWished, Zenon

\* So is connection, with the queries it sends along.
LEMMA ModeWished ==
  ASSUME TypesInv, NEW v, "connection_mode" \in Settings, SetConnectionMode(v)
  PROVE  v \in Values["connection_mode"] /\ Wished("connection_mode", SetItem("connection_mode", v))
<1> DEFINE item == SetItem("connection_mode", v)
           order == <<"eq_preset", "surround", "sound_position">>
           q == QueryEach(Append(queue, item), order, Dsp)
<1>1. v \in Values["connection_mode"]
  BY Zenon DEF SetConnectionMode
<1>2. /\ pc = "idle" /\ state' = InState("connection_mode", v) /\ Send(q)
      /\ UNCHANGED <<pc, up, buffer, headsetVars, declined, unsure, lastAmbientStep>>
  <2>1. TypeOf("connection_mode") = MDR
    BY DEF TypeOf
  <2>2. item = Item("connection_mode", MDR, SerializeSet("connection_mode", v))
    BY <2>1, Zenon DEF SetItem
  <2> QED BY <2>2, Zenon DEF SetConnectionMode, Verb, SetterLeaves, Untouched, Enqueue
<1>3. Added(queue, item, q)
  <2>1. order \in Seq(NamesThereAre) /\ Dsp \subseteq Names
    BY DomainOfValues DEF NamesThereAre, Dsp, Names
  <2> HIDE DEF order, item
  <2>2. Asking(Append(queue, item), order, Dsp, q)
    BY <2>1, QueriesAre, Zenon
  <2> QED BY <2>2, Zenon DEF Asking, Added
<1> HIDE DEF q
<1> QED BY <1>1, <1>2, <1>3, SetterWished, Zenon

\* Every verb is one.
LEMMA VerbsWished ==
  ASSUME TypesInv, Verbs
  PROVE  \E s, item : Wished(s, item)
<1>1. CASE \E m \in Modes, l \in Levels \cup {0} : SetNoiseMode(m, l)
  BY <1>1, NoiseModeWished, Zenon
<1>2. CASE \E l \in Levels : SetAmbientLevel(l)
  BY <1>2, AmbientWished, Zenon
<1>3. CASE \E b \in BOOLEAN : SetVoiceFocus(b)
  BY <1>3, FocusWished, Zenon
<1>4. ASSUME NEW s \in Settings, NEW v \in Chosen[s],
             \/ SetDsp(s, v) \/ SetPlain(s, v)
             \/ s = "connection_mode" /\ SetConnectionMode(v)
             \/ s = "nc_button" /\ SetNcButton(v)
      PROVE  \E r, item : Wished(r, item)
  <2>1. CASE SetDsp(s, v)
    BY <2>1, DspWished, Zenon
  <2>2. CASE SetPlain(s, v)
    BY <2>2, PlainWished, Zenon
  <2>3. CASE s = "connection_mode" /\ SetConnectionMode(v)
    BY <2>3, ModeWished, Zenon
  <2>4. CASE s = "nc_button" /\ SetNcButton(v)
    BY <2>4, ButtonWished, Zenon
  <2> QED BY <1>4, <2>1, <2>2, <2>3, <2>4, Zenon
<1> QED BY <1>1, <1>2, <1>3, <1>4, Zenon DEF Verbs

\* A queue that has been added to is one of commands, and not empty.
LEMMA AddedIs ==
  ASSUME NEW q \in Seq(Items), NEW item \in Items, NEW r, Added(q, item, r)
  PROVE  r \in Seq(Items) /\ r # <<>>
<1>1. CASE r = Append(q, item)
  BY <1>1
<1>2. ASSUME NEW k \in 2 .. Len(q), r = [q EXCEPT ![k] = item]
      PROVE  r \in Seq(Items) /\ r # <<>>
  BY <1>2
<1>3. ASSUME NEW w \in Seq(Queries), r = Append(q, item) \o w
      PROVE  r \in Seq(Items) /\ r # <<>>
  <2>1. w \in Seq(Items)
    BY QueriesAreItems
  <2> QED BY <1>3, <2>1
<1> QED BY <1>1, <1>2, <1>3, Zenon DEF Added, Coalesced

\* A verb keeps the types and the stream.
LEMMA WishTypes ==
  ASSUME TypesInv, NEW s, NEW item, Wished(s, item)
  PROVE  TypesInv'
<1>1. /\ item \in Items /\ pc = "idle"
      /\ UNCHANGED <<pc, up, buffer, headset, pending, taken, air, inAir, unsure>>
      /\ IF up THEN Added(queue, item, queue') ELSE queue' = queue
      /\ IsCopy(state') /\ state'.connected = state.connected
      /\ lastAmbientStep' \in {-1} \cup MinAmbientStep .. MaxAmbientStep
  BY Zenon DEF Wished, headsetVars
<1>2. QueueInv'
  <2>1. queue \in Seq(Items) /\ taken \in BOOLEAN /\ (taken => queue # <<>>)
    BY Zenon DEF TypesInv, QueueInv
  <2>2. queue' \in Seq(Items) /\ (queue' # <<>> \/ queue' = queue)
    BY <1>1, <2>1, AddedIs, Zenon
  <2> QED BY <1>1, <2>1, <2>2, Zenon DEF QueueInv
<1>3. CopyInv'
  BY <1>1, Zenon DEF TypesInv, CopyInv
<1>4. LinkInv'
  BY <1>1, Zenon DEF TypesInv, LinkInv
<1>5. HeadsetInv' /\ UnsureInv'
  BY <1>1, Zenon DEF TypesInv, HeadsetInv, UnsureInv
<1>6. StreamInv'
  BY <1>1, Zenon DEF TypesInv, StreamInv
<1> QED BY <1>2, <1>3, <1>4, <1>5, <1>6, Zenon DEF TypesInv

-----------------------------------------------------------------------------
(* The commands taken. *)

\* The headset changes in no more than s.
HeldBut(s, h, new) ==
  \A r \in Names \ {s} :
    IF r = "noise" THEN new.on = h.on /\ new.step = h.step /\ new.focus = h.focus ELSE new[r] = h[r]

\* A value the headset takes changes that setting only.
LEMMA HeadsetSet ==
  ASSUME NEW h, IsHeadset(h), NEW s \in Settings, NEW v \in Values[s]
  PROVE  /\ IsHeadset([h EXCEPT ![s] = v]) /\ HeldBut(s, h, [h EXCEPT ![s] = v])
         /\ [h EXCEPT ![s] = v][s] = v
<1> DEFINE c == [h EXCEPT ![s] = v]
<1>1. DOMAIN h = Settings \cup HeadsetFields /\ s \in DOMAIN h /\ s \notin HeadsetFields
  BY SettingsAre DEF IsHeadset
<1>2. DOMAIN c = DOMAIN h /\ c[s] = v /\ \A x \in DOMAIN h : x # s => c[x] = h[x]
  BY <1>1
<1> HIDE DEF c
<1>3. c.on = h.on /\ c.step = h.step /\ c.focus = h.focus /\ c.battery_level = h.battery_level
  BY <1>1, <1>2 DEF HeadsetFields
<1>4. \A r \in Settings : c[r] \in Values[r]
  <2> TAKE r \in Settings
  <2>1. h[r] \in Values[r] /\ r \in DOMAIN h
    BY Zenon DEF IsHeadset
  <2> QED BY <1>2, <2>1
<1>5. IsHeadset(c)
  BY <1>1, <1>2, <1>3, <1>4, Zenon DEF IsHeadset
<1>6. \A r \in Names \ {s} : r # "noise" => c[r] = h[r]
  BY <1>1, <1>2, SettingsAre DEF HeadsetFields
<1>7. HeldBut(s, h, c)
  BY <1>3, <1>6, Zenon DEF HeldBut
<1> QED BY <1>2, <1>5, <1>7 DEF c

\* The noise control of h is on, step and focus, as far as they matter.
NoiseHeld(h, on, step, focus) ==
  h.on = on /\ (on => h.step = step /\ (step >= MinAmbientStep => h.focus = focus))

\* A noise command the headset takes gives it the mode, the step and the focus
\* asked for.
LEMMA HeadsetNoise ==
  ASSUME IsHeadset(headset), NEW p, NEW on \in BOOLEAN, NEW step \in 0 .. MaxAmbientStep, NEW focus \in BOOLEAN,
         NoiseBytes(p, on, step, focus), NEW h, h = Updated(headset, NoiseSet(p))
  PROVE  IsHeadset(h) /\ HeldBut("noise", headset, h) /\ NoiseHeld(h, on, step, focus)
<1> DEFINE n == NoiseSet(p)
<1>1. DOMAIN headset = Settings \cup HeadsetFields /\ headset.step \in 0 .. MaxAmbientStep
  BY DEF IsHeadset
<1>2. /\ DOMAIN n = {"on", "focus", "step"} /\ n.on = (p[3] # 0) /\ n.focus = (p[7] = 1)
      /\ n.step = IF p[3] = 0 THEN headset.step ELSE p[8]
  BY DEF NoiseSet
<1>3. DOMAIN h = DOMAIN headset /\ \A x \in DOMAIN headset : h[x] = IF x \in DOMAIN n THEN n[x] ELSE headset[x]
  BY UpdatedIs, Zenon
<1> HIDE DEF n
<1>4. h.on = n.on /\ h.focus = n.focus /\ h.step = n.step
  BY <1>1, <1>2, <1>3 DEF HeadsetFields
<1>5. \A x \in Settings \cup {"battery_level"} : h[x] = headset[x]
  BY <1>1, <1>2, <1>3, SettingsAre DEF HeadsetFields
<1>6. h.on = on /\ h.on \in BOOLEAN /\ h.focus \in BOOLEAN
  <2>1. (p[3] # 0) = on
    BY DEF NoiseBytes
  <2> QED BY <1>2, <1>4, <2>1, Zenon
<1>7. h.step \in 0 .. MaxAmbientStep /\ (on => h.step = step)
  BY <1>1, <1>2, <1>4 DEF NoiseBytes
<1>8. on /\ step >= MinAmbientStep => h.focus = focus
  <2> SUFFICES ASSUME on, step >= MinAmbientStep PROVE h.focus = focus
    OBVIOUS
  <2>1. (p[7] = 1) = focus
    BY DEF NoiseBytes, Bit
  <2> QED BY <1>2, <1>4, <2>1, Zenon
<1>9. IsHeadset(h)
  <2>1. \A s \in Settings : h[s] \in Values[s]
    <3> TAKE s \in Settings
    <3>1. h[s] = headset[s]
      BY <1>5
    <3> QED BY <3>1, Zenon DEF IsHeadset
  <2>2. h.battery_level \in 0 .. 100
    <3>1. h.battery_level = headset.battery_level
      BY <1>5
    <3> QED BY <3>1, Zenon DEF IsHeadset
  <2> QED BY <1>1, <1>3, <1>6, <1>7, <2>1, <2>2, Zenon DEF IsHeadset
<1>10. HeldBut("noise", headset, h)
  BY <1>5, SettingsAre DEF HeldBut
<1>11. NoiseHeld(h, on, step, focus)
  BY <1>6, <1>7, <1>8, Zenon DEF NoiseHeld
<1> QED BY <1>9, <1>10, <1>11, Zenon

\* What the headset makes of the command at it.
TakesQuery(item) ==
  \E s \in Names : /\ item = Query(s) /\ Answers(<<Report(s, headset, Ret(s))>>)
                   /\ unsure' = unsure \ {s} /\ UNCHANGED <<headset, declined>>
TakesNoise(item) ==
  \E w \in NoiseNames : \E on \in BOOLEAN, step \in 0 .. MaxAmbientStep, focus \in BOOLEAN : \E h :
    /\ item = NoiseItem(w, on, step, focus)
    /\ IsHeadset(h) /\ HeldBut("noise", headset, h) /\ NoiseHeld(h, on, step, focus)
    /\ Changes("noise", h) /\ UNCHANGED declined
Declines(s) ==
  /\ s \in Dsp /\ "connection_mode" \in Settings /\ headset.connection_mode = Quality
  /\ Answers(<<Confirms(ConnectionModeChange)>>)
  /\ unsure' = unsure \cup {s} /\ declined' = declined \cup {blind} /\ UNCHANGED headset
AsksFirst(s) ==
  /\ s = "nc_button"
  /\ Answers(<<Confirms(KeyAssignChange)>>)
  /\ unsure' = unsure \cup {s} /\ UNCHANGED <<headset, declined>>
CarriesOut(s, v) ==
  \E h : /\ IsHeadset(h) /\ HeldBut(s, headset, h) /\ h[s] = v
         /\ Changes(s, h) /\ UNCHANGED declined
TakesSetting(item) ==
  \E s \in Settings : \E v \in Values[s] :
    item = SetItem(s, v) /\ (Declines(s) \/ AsksFirst(s) \/ CarriesOut(s, v))
TakesAlert(item) ==
  /\ IsAlertItem(item) /\ UNCHANGED declined
  /\ \/ UNCHANGED <<headset, unsure>> /\ Answers(<<>>)
     \/ "nc_button" \in Settings /\ \E v \in Values["nc_button"] : CarriesOut("nc_button", v)

\* The headset takes the first command, which is a query, for noise control, a
\* setting or an answer.
LEMMA TakeIs ==
  ASSUME TypesInv, Take
  PROVE  /\ pc = "idle" /\ up /\ queue # <<>> /\ taken = FALSE /\ taken' = TRUE
         /\ UNCHANGED <<daemonVars, modeGhosts>> /\ Head(queue) \in Items
         /\ pending' \subseteq ButtonValues
         /\ \/ TakesQuery(Head(queue)) \/ TakesNoise(Head(queue))
            \/ TakesSetting(Head(queue)) \/ TakesAlert(Head(queue))
<1> DEFINE item == Head(queue)
           p == item.payload
           query(s) == /\ Answers(<<Report(s, headset, Ret(s))>>)
                       /\ unsure' = unsure \ {s} /\ UNCHANGED <<headset, pending, declined>>
           noise == /\ Changes("noise", Updated(headset, NoiseSet(p)))
                    /\ UNCHANGED <<pending, declined>>
           declines(s) == /\ s \in Dsp /\ "connection_mode" \in Settings /\ headset.connection_mode = Quality
                          /\ Answers(<<Confirms(ConnectionModeChange)>>)
                          /\ unsure' = unsure \cup {s} /\ declined' = declined \cup {blind} /\ UNCHANGED <<headset, pending>>
           asks(s) == /\ s = "nc_button"
                      /\ Answers(<<Confirms(KeyAssignChange)>>)
                      /\ pending' = {Given(s, item)}
                      /\ unsure' = unsure \cup {s} /\ UNCHANGED <<headset, declined>>
           sets(s) == /\ Changes(s, [headset EXCEPT ![s] = Given(s, item)])
                      /\ UNCHANGED <<pending, declined>>
           alert == /\ pending' = IF p[3] = KeyAssignChange THEN {} ELSE pending
                    /\ IF p[3] = KeyAssignChange /\ p[4] = 1 /\ pending # {}
                       THEN Changes("nc_button", [headset EXCEPT !.nc_button = CHOOSE v \in pending : TRUE])
                       ELSE UNCHANGED <<headset, unsure>> /\ Answers(<<>>)
                    /\ UNCHANGED declined
<1>1. /\ pc = "idle" /\ up /\ queue # <<>> /\ ~taken /\ taken' = TRUE
      /\ UNCHANGED <<daemonVars, modeGhosts>>
      /\ \/ \E s \in Queried(item) : query(s)
         \/ IsNoise(item) /\ noise
         \/ \E s \in SetBy(item) : declines(s) \/ asks(s) \/ sets(s)
         \/ p[1] = 152 /\ alert
  BY Zenon DEF Take
<1>2. IsHeadset(headset) /\ pending \subseteq ButtonValues /\ queue \in Seq(Items) /\ taken = FALSE
  BY <1>1, Zenon DEF TypesInv, HeadsetInv, QueueInv
<1>3. item \in Items
  BY <1>1, <1>2
<1> HIDE DEF item
<1>4. ASSUME NEW s \in Names, item = Query(s)
      PROVE  pending' \subseteq ButtonValues /\ TakesQuery(item)
  <2>1. Meant(item, {s}, {}, FALSE, FALSE)
    BY <1>4, QueryMeant, Zenon
  <2>2. query(s)
    BY <1>1, <2>1, Zenon DEF Meant
  <2>3. TakesQuery(item)
    BY <1>4, <2>2, Zenon DEF TakesQuery
  <2> QED BY <1>2, <2>2, <2>3, Zenon
<1>5. ASSUME NEW s \in Settings, NEW v \in Values[s], item = SetItem(s, v)
      PROVE  pending' \subseteq ButtonValues /\ TakesSetting(item)
  <2>1. Meant(item, {}, {s}, FALSE, FALSE) /\ Given(s, item) = v
    BY <1>5, SettingMeant, Zenon
  <2>2. declines(s) \/ asks(s) \/ sets(s)
    BY <1>1, <2>1, Zenon DEF Meant
  <2>3. CASE declines(s)
    <3>1. Declines(s)
      BY <2>3, Zenon DEF Declines
    <3>2. TakesSetting(item)
      BY <1>5, <3>1, Zenon DEF TakesSetting
    <3> QED BY <1>2, <2>3, <3>2, Zenon
  <2>4. CASE asks(s)
    <3>1. AsksFirst(s)
      BY <2>4, Zenon DEF AsksFirst
    <3>2. TakesSetting(item)
      BY <1>5, <3>1, Zenon DEF TakesSetting
    <3>3. pending' = {v} /\ s = "nc_button"
      BY <2>1, <2>4, Zenon
    <3>4. pending' \subseteq ButtonValues
      BY <3>3 DEF ButtonValues
    <3> QED BY <3>2, <3>4, Zenon
  <2>5. CASE sets(s)
    <3>1. Changes(s, [headset EXCEPT ![s] = v]) /\ UNCHANGED <<pending, declined>>
      BY <2>1, <2>5
    <3>2. CarriesOut(s, v)
      BY <1>2, <3>1, HeadsetSet, Zenon DEF CarriesOut
    <3>3. TakesSetting(item)
      BY <1>5, <3>2, Zenon DEF TakesSetting
    <3> QED BY <1>2, <3>1, <3>3, Zenon
  <2> QED BY <2>2, <2>3, <2>4, <2>5, Zenon
<1>6. ASSUME NEW w \in NoiseNames, NEW on \in BOOLEAN, NEW step \in 0 .. MaxAmbientStep, NEW focus \in BOOLEAN,
             item = NoiseItem(w, on, step, focus)
      PROVE  pending' \subseteq ButtonValues /\ TakesNoise(item)
  <2>1. Meant(NoiseItem(w, on, step, focus), {}, {}, TRUE, FALSE)
        /\ NoiseBytes(NoiseItem(w, on, step, focus).payload, on, step, focus)
    BY NoiseMeant
  <2>2. Meant(item, {}, {}, TRUE, FALSE) /\ NoiseBytes(p, on, step, focus)
    BY <1>6, <2>1
  <2>3. noise
    BY <1>1, <2>2, Zenon DEF Meant
  <2> DEFINE h == Updated(headset, NoiseSet(p))
  <2>4. IsHeadset(h) /\ HeldBut("noise", headset, h) /\ NoiseHeld(h, on, step, focus)
    BY <1>2, <2>2, HeadsetNoise
  <2>5. TakesNoise(item)
    BY <1>6, <2>3, <2>4, Zenon DEF TakesNoise
  <2> QED BY <1>2, <2>3, <2>5, Zenon
<1>7. ASSUME NEW m \in {ConnectionModeChange, KeyAssignChange}, NEW yes \in BOOLEAN, item = AlertItem(m, yes)
      PROVE  pending' \subseteq ButtonValues /\ TakesAlert(item)
  <2>1. Meant(item, {}, {}, FALSE, TRUE)
    BY <1>7, AlertMeant
  <2>2. alert
    BY <1>1, <2>1, Zenon DEF Meant
  <2>3. IsAlertItem(item)
    BY <1>7, Zenon DEF IsAlertItem
  <2>4. pending' \subseteq ButtonValues
    BY <1>2, <2>2
  <2>5. CASE UNCHANGED <<headset, unsure>> /\ Answers(<<>>)
    BY <2>2, <2>3, <2>4, <2>5, Zenon DEF TakesAlert
  <2>6. CASE pending # {} /\ Changes("nc_button", [headset EXCEPT !.nc_button = CHOOSE v \in pending : TRUE])
    <3> DEFINE v == CHOOSE u \in pending : TRUE
    <3>1. v \in pending
      BY <2>6
    <3>2. Changes("nc_button", [headset EXCEPT !["nc_button"] = v])
      BY <2>6
    <3> HIDE DEF v
    <3>3. "nc_button" \in Settings /\ v \in Values["nc_button"]
      BY <1>2, <3>1 DEF ButtonValues
    <3>4. CarriesOut("nc_button", v)
      BY <1>2, <2>2, <3>2, <3>3, HeadsetSet, Zenon DEF CarriesOut
    <3> QED BY <2>2, <2>3, <2>4, <3>3, <3>4, Zenon DEF TakesAlert
  <2> QED BY <2>2, <2>5, <2>6, Zenon
<1>8. IsQuery(item) \/ IsSetting(item) \/ IsNoiseItem(item) \/ IsAlertItem(item)
  BY <1>3, Zenon DEF Items
<1>9. /\ pending' \subseteq ButtonValues
      /\ TakesQuery(item) \/ TakesNoise(item) \/ TakesSetting(item) \/ TakesAlert(item)
  <2>1. CASE IsQuery(item)
    BY <1>4, <2>1, Zenon DEF IsQuery
  <2>2. CASE IsSetting(item)
    BY <1>5, <2>2, Zenon DEF IsSetting
  <2>3. CASE IsNoiseItem(item)
    BY <1>6, <2>3, Zenon DEF IsNoiseItem
  <2>4. CASE IsAlertItem(item)
    BY <1>7, <2>4, Zenon DEF IsAlertItem
  <2> QED BY <1>8, <2>1, <2>2, <2>3, <2>4, Zenon
<1> QED BY <1>1, <1>2, <1>3, <1>9, Zenon DEF item

-----------------------------------------------------------------------------
(* Every step keeps the types, and the stream. *)

\* The types hold of the initial state.
LEMMA InitTypes ==
  ASSUME Init
  PROVE  TypesInv
<1>1. /\ pc = "idle" /\ up = FALSE /\ lastAmbientStep = -1 /\ queue = <<>> /\ buffer = <<>>
      /\ pending = {} /\ taken = FALSE /\ air = <<>> /\ inAir = <<>> /\ unsure = {}
  BY Zenon DEF Init
<1>2. LinkInv
  BY <1>1, Zenon DEF LinkInv
<1>3. CopyInv
  <2>1. DOMAIN state = Settings \cup StateFields
    BY Zenon DEF Init
  <2>2. \A f \in Settings \cup StateFields :
          state[f] = CASE f \in Dsp \cup {"dsee_hx", "optimizer_state", "ambient_sound_level"} -> 0
                       [] f \in {"touch_panel", "voice_guidance"} -> 1
                       [] f \in {"volume", "battery_level"} -> -1
                       [] f \in {"connected", "voice_passthrough"} -> FALSE
                       [] f = "noise_mode" -> "anc"
                       [] OTHER -> Unknown
    BY DEF Init
  <2>3. state["connected"] = FALSE /\ state["voice_passthrough"] = FALSE
    BY <2>2 DEF StateFields, Dsp
  <2>4. state["noise_mode"] = "anc" /\ state["ambient_sound_level"] = 0
    BY <2>2 DEF StateFields, Dsp
  <2>5. ASSUME NEW s \in Settings
        PROVE  state[s] \in Values[s] \cup {-1, Unknown}
    <3>1. s \in DOMAIN Values
      BY SettingsAre, Zenon
    <3>2. s \in Settings \cup StateFields
      OBVIOUS
    <3>3. /\ Values["eq_preset"] = EqPresets /\ Values["surround"] = 0 .. 4
          /\ Values["sound_position"] = {0, 1, 2, 3, 17, 18} /\ Values["optimizer_state"] = {0, 1}
          /\ Values["touch_panel"] = {0, 1} /\ Values["voice_guidance"] = {0, 1} /\ Values["dsee_hx"] = {0, 1}
      BY DEF Values, Surrounds, SoundPositions
    <3>4. 0 \in EqPresets /\ 0 \in 0 .. 4
      BY DEF EqPresets
    <3>5. CASE s \in {"eq_preset", "surround", "sound_position", "dsee_hx", "optimizer_state"}
      <4>1. state[s] = 0
        BY <2>2, <3>2, <3>5 DEF Dsp
      <4> QED BY <3>3, <3>4, <3>5, <4>1
    <3>6. CASE s \in {"touch_panel", "voice_guidance"}
      <4>1. state[s] = 1
        BY <2>2, <3>2, <3>6 DEF Dsp
      <4> QED BY <3>3, <3>6, <4>1
    <3>7. CASE s = "volume"
      BY <2>2, <3>2, <3>7 DEF Dsp
    <3>8. CASE s \in {"auto_power_off", "connection_mode", "nc_button"}
      BY <2>2, <3>2, <3>8 DEF Dsp
    <3> QED BY <3>1, <3>5, <3>6, <3>7, <3>8, DomainOfValues
  <2>6. IsCopy(state)
    <3>1. state["ambient_sound_level"] \in 0 .. MaxAmbientStep /\ state["noise_mode"] \in NoiseModes
      BY <2>4 DEF MaxAmbientStep, NoiseModes
    <3>2. StepToNoiseMode(0) = "anc"
      BY DEF StepToNoiseMode, StepNoiseCancel
    <3>3. state["noise_mode"] = StepToNoiseMode(state["ambient_sound_level"])
      BY <2>4, <3>2
    <3>4. state["voice_passthrough"] \in BOOLEAN
      BY <2>3
    <3> QED BY <2>1, <2>5, <3>1, <3>3, <3>4, Zenon DEF IsCopy
  <2>7. lastAmbientStep \in {-1} \cup MinAmbientStep .. MaxAmbientStep
    BY <1>1
  <2> QED BY <1>1, <2>3, <2>6, <2>7, Zenon DEF CopyInv
<1>4. HeadsetInv
  <2>1. DOMAIN headset = Settings \cup HeadsetFields
    BY Zenon DEF Init
  <2>2. \A f \in Settings \cup HeadsetFields :
          headset[f] = CASE f = "battery_level" -> CHOOSE b \in Batteries : TRUE
                         [] f = "on" -> TRUE [] f = "focus" -> FALSE [] OTHER -> 0
    BY DEF Init
  <2>3. headset["on"] = TRUE /\ headset["focus"] = FALSE /\ headset["step"] = 0
    BY <2>2 DEF HeadsetFields
  <2>4. headset["battery_level"] \in Batteries /\ Batteries \subseteq 0 .. 100
    BY <2>2, ControlAssumption DEF HeadsetFields
  <2>5. ASSUME NEW s \in Settings
        PROVE  headset[s] \in Values[s]
    <3>1. headset[s] = 0
      BY <2>2, SettingsAre DEF HeadsetFields
    <3>2. s \in DOMAIN Values
      BY SettingsAre, Zenon
    <3>3. \A x \in DOMAIN Values : 0 \in Values[x]
      BY DomainOfValues DEF Values, EqPresets, Surrounds, SoundPositions, Timers, ConnectionModes, NcButtons, MaxVolume
    <3> QED BY <3>1, <3>2, <3>3
  <2>6. IsHeadset(headset)
    <3>1. headset["on"] \in BOOLEAN /\ headset["focus"] \in BOOLEAN
      BY <2>3
    <3>2. headset["step"] \in 0 .. MaxAmbientStep
      BY <2>3 DEF MaxAmbientStep
    <3>3. headset["battery_level"] \in 0 .. 100
      BY <2>4
    <3> QED BY <2>1, <2>5, <3>1, <3>2, <3>3, Zenon DEF IsHeadset
  <2> QED BY <1>1, <2>6, Zenon DEF HeadsetInv
<1>5. QueueInv /\ UnsureInv
  <2>1. <<>> \in Seq(Items) /\ {} \subseteq Names /\ FALSE \in BOOLEAN
    OBVIOUS
  <2> QED BY <1>1, <2>1, Zenon DEF QueueInv, UnsureInv
<1>6. StreamInv
  <2>1. StreamOf("idle", <<>>, <<>>, <<>>)
    BY BytesOfNothing DEF StreamOf, MaxFrame
  <2> QED BY <1>1, <2>1, Zenon DEF StreamInv
<1> QED BY <1>2, <1>3, <1>4, <1>5, <1>6, Zenon DEF TypesInv

\* onConnected and onDisconnected write no more of the copy than this.
LEMMA CopyOfLink ==
  ASSUME NEW st, IsCopy(st), NEW new, DOMAIN new = DOMAIN st,
         \A x \in DOMAIN st \ {"connected", "battery_level"} : new[x] = st[x]
  PROVE  IsCopy(new)
<1>1. /\ "ambient_sound_level" \in DOMAIN st \ {"connected", "battery_level"}
      /\ "noise_mode" \in DOMAIN st \ {"connected", "battery_level"}
      /\ "voice_passthrough" \in DOMAIN st \ {"connected", "battery_level"}
  BY DEF IsCopy, StateFields
<1>2. \A s \in Settings : s \in DOMAIN st \ {"connected", "battery_level"}
  BY SettingsAre DEF IsCopy, StateFields
<1>3. /\ new.ambient_sound_level = st.ambient_sound_level /\ new.noise_mode = st.noise_mode
      /\ new.voice_passthrough = st.voice_passthrough
      /\ \A s \in Settings : new[s] = st[s]
  BY <1>1, <1>2, Zenon
<1> QED BY <1>3 DEF IsCopy

\* A new link keeps the types, and fills the queue with the handshake.
LEMMA LinkUpTypes ==
  ASSUME TypesInv, LinkUp
  PROVE  TypesInv'
<1>1. /\ up = FALSE /\ up' = TRUE /\ queue' = Handshake /\ unsure' = {}
      /\ UNCHANGED <<pc, lastAmbientStep, buffer, headset, pending, taken, air, inAir>>
  BY Zenon DEF LinkUp, headsetVars, TypesInv, LinkInv
<1>2. PICK b : state' = [state EXCEPT !.connected = TRUE, !.battery_level = b]
  BY Zenon DEF LinkUp
<1>3. IsCopy(state) /\ DOMAIN state = Settings \cup StateFields
  BY Zenon DEF TypesInv, CopyInv, IsCopy
<1>4. /\ DOMAIN state' = DOMAIN state /\ state'["connected"] = TRUE
      /\ \A x \in DOMAIN state \ {"connected", "battery_level"} : state'[x] = state[x]
  BY <1>2, <1>3 DEF StateFields
<1>5. IsCopy(state')
  <2> HIDE <1>2
  <2> QED BY <1>3, <1>4, CopyOfLink
<1>6. CopyInv'
  BY <1>1, <1>4, <1>5, Zenon DEF TypesInv, CopyInv
<1>7. LinkInv'
  BY <1>1, Zenon DEF TypesInv, LinkInv
<1>8. QueueInv'
  <2>1. taken = FALSE
    BY <1>1, Zenon DEF TypesInv, LinkInv
  <2> QED BY <1>1, <2>1, HandshakeAsks, Zenon DEF QueueInv
<1>9. HeadsetInv' /\ StreamInv'
  BY <1>1, Zenon DEF TypesInv, HeadsetInv, StreamInv
<1>10. UnsureInv'
  BY <1>1, Zenon DEF UnsureInv
<1> QED BY <1>6, <1>7, <1>8, <1>9, <1>10, Zenon DEF TypesInv

\* A lost link keeps the types, and leaves nothing in the stream.
LEMMA LinkDownTypes ==
  ASSUME TypesInv, LinkDown
  PROVE  TypesInv'
<1>1. /\ up' = FALSE /\ pc' = "idle" /\ queue' = <<>> /\ buffer' = <<>>
      /\ state' = [state EXCEPT !.connected = FALSE]
      /\ pending' = {} /\ taken' = FALSE /\ air' = <<>> /\ inAir' = <<>>
      /\ UNCHANGED <<lastAmbientStep, headset, unsure>>
  BY Zenon DEF LinkDown, ResetFramer, ghostVars
<1>2. IsCopy(state) /\ DOMAIN state = Settings \cup StateFields
  BY Zenon DEF TypesInv, CopyInv, IsCopy
<1>3. /\ DOMAIN state' = DOMAIN state /\ state'["connected"] = FALSE
      /\ \A x \in DOMAIN state \ {"connected", "battery_level"} : state'[x] = state[x]
  BY <1>1, <1>2 DEF StateFields
<1>4. IsCopy(state')
  <2> DEFINE new == state'
  <2>1. IsCopy(new)
    <3>1. DOMAIN new = DOMAIN state /\ \A x \in DOMAIN state \ {"connected", "battery_level"} : new[x] = state[x]
      BY <1>3, Zenon
    <3> HIDE DEF new
    <3> QED BY <1>2, <3>1, CopyOfLink
  <2> QED BY <2>1, Zenon
<1>5. CopyInv'
  BY <1>1, <1>3, <1>4, Zenon DEF TypesInv, CopyInv
<1>6. LinkInv'
  BY <1>1, Zenon DEF LinkInv
<1>7. QueueInv'
  <2>1. <<>> \in Seq(Items) /\ FALSE \in BOOLEAN
    OBVIOUS
  <2> QED BY <1>1, <2>1, Zenon DEF QueueInv
<1>8. HeadsetInv' /\ UnsureInv'
  BY <1>1, Zenon DEF TypesInv, HeadsetInv, UnsureInv
<1>9. StreamInv'
  <2>1. StreamOf("idle", <<>>, <<>>, <<>>)
    BY BytesOfNothing DEF StreamOf, MaxFrame
  <2> QED BY <1>1, <2>1, Zenon DEF StreamInv
<1> QED BY <1>5, <1>6, <1>7, <1>8, <1>9, Zenon DEF TypesInv

\* A command taken is acknowledged once: the acknowledgement is on its way for as
\* long as the command stays at the head of the queue, and never otherwise.
AckedOnce(t, fs) ==
  IF t THEN \E i \in 1 .. Len(fs) : /\ fs[i].type = ACK
                                    /\ \A j \in 1 .. Len(fs) : fs[j].type = ACK => j = i
       ELSE \A j \in 1 .. Len(fs) : fs[j].type # ACK
AcksInv == AckedOnce(taken, inAir)
News == {fr \in Frames : fr.type # ACK}

\* News leaves the acknowledgement in the stream alone, and an answer puts one
\* there.
LEMMA AcksMore ==
  ASSUME NEW t \in BOOLEAN, NEW fs \in Seq(Frames), NEW gs \in Seq(News)
  PROVE  /\ AckedOnce(t, fs) => AckedOnce(t, fs \o gs)
         /\ AckedOnce(FALSE, fs) => AckedOnce(TRUE, fs \o (<<Frame(ACK, <<>>)>> \o gs))
<1>1. Len(fs) \in Nat /\ Len(gs) \in Nat
  OBVIOUS
<1>2. \A i \in 1 .. Len(gs) : gs[i].type # ACK
  <2>1. \A i \in 1 .. Len(gs) : gs[i] \in News
    OBVIOUS
  <2> QED BY <2>1, Zenon DEF News
<1>3. gs \in Seq(Frames)
  <2>1. News \subseteq Frames
    BY Zenon DEF News
  <2> QED BY <2>1
<1>4. /\ Len(fs \o gs) = Len(fs) + Len(gs)
      /\ \A i \in 1 .. Len(fs) + Len(gs) : (fs \o gs)[i] = IF i <= Len(fs) THEN fs[i] ELSE gs[i - Len(fs)]
  BY <1>3
<1>5. AckedOnce(t, fs) => AckedOnce(t, fs \o gs)
  <2>1. \A j \in 1 .. Len(fs \o gs) : (fs \o gs)[j].type = ACK => j \in 1 .. Len(fs) /\ fs[j].type = ACK
    <3> SUFFICES ASSUME NEW j \in 1 .. Len(fs \o gs), (fs \o gs)[j].type = ACK
                 PROVE  j \in 1 .. Len(fs) /\ fs[j].type = ACK
      OBVIOUS
    <3>1. CASE j <= Len(fs)
      BY <1>1, <1>4, <3>1
    <3>2. CASE ~(j <= Len(fs))
      <4>1. j - Len(fs) \in 1 .. Len(gs) /\ (fs \o gs)[j] = gs[j - Len(fs)]
        BY <1>1, <1>4, <3>2
      <4> QED BY <1>2, <4>1
    <3> QED BY <3>1, <3>2
  <2>2. \A i \in 1 .. Len(fs) : i \in 1 .. Len(fs \o gs) /\ (fs \o gs)[i] = fs[i]
    BY <1>1, <1>4
  <2> QED BY <2>1, <2>2, Zenon DEF AckedOnce
<1>6. ASSUME AckedOnce(FALSE, fs)
      PROVE  AckedOnce(TRUE, fs \o (<<Frame(ACK, <<>>)>> \o gs))
  <2> DEFINE ack == Frame(ACK, <<>>)
             new == fs \o (<<ack>> \o gs)
  <2>1. ack \in Frames /\ ack.type = ACK
    BY FramesAre, Zenon
  <2> HIDE DEF ack
  <2>2. /\ Len(new) = Len(fs) + 1 + Len(gs)
        /\ \A i \in 1 .. Len(fs) : new[i] = fs[i]
        /\ new[Len(fs) + 1] = ack
        /\ \A i \in Len(fs) + 2 .. Len(fs) + 1 + Len(gs) : new[i] = gs[i - Len(fs) - 1]
    BY <1>1, <1>3, <2>1
  <2> HIDE DEF new
  <2>3. Len(fs) + 1 \in 1 .. Len(new) /\ new[Len(fs) + 1].type = ACK
    BY <1>1, <2>1, <2>2
  <2>4. \A j \in 1 .. Len(fs) : fs[j].type # ACK
    BY <1>6, Zenon DEF AckedOnce
  <2>5. ASSUME NEW j \in 1 .. Len(new), new[j].type = ACK
        PROVE  j = Len(fs) + 1
    <3>1. CASE j <= Len(fs)
      BY <1>1, <2>2, <2>4, <2>5, <3>1
    <3>2. CASE j > Len(fs) + 1
      <4>1. j - Len(fs) - 1 \in 1 .. Len(gs) /\ new[j] = gs[j - Len(fs) - 1]
        BY <1>1, <2>2, <3>2
      <4> QED BY <1>2, <2>5, <4>1
    <3> QED BY <1>1, <3>1, <3>2
  <2>6. AckedOnce(TRUE, new)
    BY <2>3, <2>5, Zenon DEF AckedOnce
  <2> QED BY <2>6 DEF new, ack
<1> QED BY <1>5, <1>6

\* What the headset answers keeps the stream, and acknowledges once.
LEMMA AnswersKeep ==
  ASSUME TypesInv, AcksInv, pc = "idle", NEW gs \in Seq(News), Answers(gs), UNCHANGED <<pc, buffer>>,
         taken = FALSE, taken' = TRUE
  PROVE  StreamInv' /\ AcksInv'
<1>1. StreamInv
  BY Zenon DEF TypesInv
<1>2. <<Frame(ACK, <<>>)>> \o gs \in Seq(Frames)
  <2>1. gs \in Seq(Frames)
    <3>1. News \subseteq Frames
      BY Zenon DEF News
    <3> QED BY <3>1
  <2>2. Frame(ACK, <<>>) \in Frames
    BY FramesAre, Zenon
  <2> QED BY <2>1, <2>2
<1>3. Puts(<<Frame(ACK, <<>>)>> \o gs)
  BY Zenon DEF Answers
<1>4. StreamInv'
  BY <1>1, <1>2, <1>3, PutsKeeps
<1>5. inAir \in Seq(Frames) /\ inAir' = inAir \o (<<Frame(ACK, <<>>)>> \o gs)
  BY <1>1, <1>3, Zenon DEF StreamInv, StreamOf, Puts
<1>6. AckedOnce(FALSE, inAir)
  BY Zenon DEF AcksInv
<1>7. AckedOnce(TRUE, inAir \o (<<Frame(ACK, <<>>)>> \o gs))
  BY <1>5, <1>6, AcksMore
<1>8. AcksInv'
  BY <1>5, <1>7, Zenon DEF AcksInv
<1> QED BY <1>4, <1>8

\* What the headset says of its own keeps the stream.
LEMMA NewsKeep ==
  ASSUME TypesInv, AcksInv, pc = "idle", NEW gs \in Seq(News), Puts(gs), UNCHANGED <<pc, buffer, taken>>
  PROVE  StreamInv' /\ AcksInv'
<1>1. StreamInv /\ taken \in BOOLEAN
  BY Zenon DEF TypesInv, QueueInv
<1>2. gs \in Seq(Frames)
  <2>1. News \subseteq Frames
    BY Zenon DEF News
  <2> QED BY <2>1
<1>3. StreamInv'
  BY <1>1, <1>2, PutsKeeps
<1>4. inAir \in Seq(Frames) /\ inAir' = inAir \o gs
  BY <1>1, Zenon DEF StreamInv, StreamOf, Puts
<1>5. AckedOnce(taken, inAir)
  BY Zenon DEF AcksInv
<1>6. AckedOnce(taken, inAir \o gs)
  BY <1>1, <1>4, <1>5, AcksMore
<1>7. AcksInv'
  BY <1>4, <1>6, Zenon DEF AcksInv
<1> QED BY <1>3, <1>7

\* Reports and questions acknowledge nothing.
LEMMA ReportsAreNews ==
  /\ \A m \in {ConnectionModeChange, KeyAssignChange} : Confirms(m) \in News
  /\ \A s \in Names : \A h : IsHeadset(h) => \A first \in Firsts(s) : Report(s, h, first) \in News
<1>1. ASSUME NEW m \in {ConnectionModeChange, KeyAssignChange}
      PROVE  Confirms(m) \in News
  <2>1. Confirms(m) \in Frames /\ IsQuestion(Confirms(m))
    BY FramesAre, Zenon
  <2>2. Confirms(m).type # ACK
    BY <2>1, TypesOfFrames, Zenon DEF IsQuestion
  <2> QED BY <2>1, <2>2, Zenon DEF News
<1>2. ASSUME NEW s \in Names, NEW h, IsHeadset(h), NEW first \in Firsts(s)
      PROVE  Report(s, h, first) \in News
  <2>1. Report(s, h, first) \in Frames /\ Says(Report(s, h, first), FieldsOf(s, h))
    BY <1>2, FramesAre, Zenon
  <2>2. Report(s, h, first).type \in {MDR, MDR2}
    BY <2>1, Zenon DEF Says
  <2>3. Report(s, h, first).type # ACK
    BY <2>2, TypesOfFrames, Zenon
  <2> QED BY <2>1, <2>3, Zenon DEF News
<1> QED BY <1>1, <1>2

\* The headset's answer to a change keeps the stream.
LEMMA ChangesKeep ==
  ASSUME TypesInv, AcksInv, pc = "idle", UNCHANGED <<pc, buffer>>, taken = FALSE, taken' = TRUE,
         NEW s \in Names, NEW h, IsHeadset(h), Changes(s, h)
  PROVE  StreamInv' /\ AcksInv' /\ IsHeadset(headset') /\ unsure' \subseteq Names
<1>1. IsHeadset(headset')
  BY Zenon DEF Changes
<1>2. unsure' \subseteq Names
  BY Zenon DEF Changes, TypesInv, UnsureInv
<1>3. <<>> \in Seq(News) /\ <<Report(s, h, Ntfy(s))>> \in Seq(News)
  <2>1. Report(s, h, Ntfy(s)) \in News
    BY ReportsAreNews, Zenon DEF Firsts
  <2> QED BY <2>1
<1>4. Answers(<<>>) \/ Answers(<<Report(s, h, Ntfy(s))>>)
  BY Zenon DEF Changes
<1>5. StreamInv' /\ AcksInv'
  BY <1>3, <1>4, AnswersKeep
<1> QED BY <1>1, <1>2, <1>5

\* The headset's answer keeps the types, and acknowledges once.
LEMMA TakeTypes ==
  ASSUME TypesInv, AcksInv, Take
  PROVE  TypesInv' /\ AcksInv'
<1> DEFINE item == Head(queue)
<1>1. /\ pc = "idle" /\ up /\ queue # <<>> /\ taken = FALSE /\ taken' = TRUE
      /\ UNCHANGED <<daemonVars, modeGhosts>> /\ item \in Items
      /\ pending' \subseteq ButtonValues
      /\ TakesQuery(item) \/ TakesNoise(item) \/ TakesSetting(item) \/ TakesAlert(item)
  BY TakeIs, Zenon
<1>2. UNCHANGED <<pc, up, state, lastAmbientStep, queue, buffer>>
  BY <1>1, Zenon DEF daemonVars
<1> HIDE DEF item
<1>3. IsHeadset(headset) /\ unsure \subseteq Names
  BY Zenon DEF TypesInv, HeadsetInv, UnsureInv
<1>4. StreamInv' /\ AcksInv' /\ IsHeadset(headset') /\ unsure' \subseteq Names
  <2>1. CASE TakesQuery(item)
    <3>1. PICK s \in Names : /\ Answers(<<Report(s, headset, Ret(s))>>)
                             /\ unsure' = unsure \ {s} /\ UNCHANGED headset
      BY <2>1, Zenon DEF TakesQuery
    <3>2. <<Report(s, headset, Ret(s))>> \in Seq(News)
      <4>1. Report(s, headset, Ret(s)) \in News
        BY <1>3, ReportsAreNews, Zenon DEF Firsts
      <4> QED BY <4>1
    <3>3. StreamInv' /\ AcksInv'
      BY <1>1, <1>2, <3>1, <3>2, AnswersKeep
    <3>4. IsHeadset(headset') /\ unsure' \subseteq Names
      BY <1>3, <3>1, Zenon
    <3> QED BY <3>3, <3>4
  <2>2. CASE TakesNoise(item)
    <3>1. PICK h : IsHeadset(h) /\ Changes("noise", h)
      BY <2>2, Zenon DEF TakesNoise
    <3>2. "noise" \in Names
      BY SettingsAre, Zenon
    <3> QED BY <1>1, <1>2, <3>1, <3>2, ChangesKeep
  <2>3. ASSUME NEW s \in Names, NEW v, CarriesOut(s, v)
        PROVE  StreamInv' /\ AcksInv' /\ IsHeadset(headset') /\ unsure' \subseteq Names
    <3>1. PICK h : IsHeadset(h) /\ Changes(s, h)
      BY <2>3, Zenon DEF CarriesOut
    <3> QED BY <1>1, <1>2, <3>1, ChangesKeep
  <2>4. CASE TakesSetting(item)
    <3>1. PICK s \in Settings : \E v \in Values[s] : Declines(s) \/ AsksFirst(s) \/ CarriesOut(s, v)
      BY <2>4, Zenon DEF TakesSetting
    <3>2. s \in Names
      BY SettingsAre, Zenon
    <3>3. ASSUME NEW m \in {ConnectionModeChange, KeyAssignChange}, Answers(<<Confirms(m)>>),
                 unsure' = unsure \cup {s}, UNCHANGED headset
          PROVE  StreamInv' /\ AcksInv' /\ IsHeadset(headset') /\ unsure' \subseteq Names
      <4>1. <<Confirms(m)>> \in Seq(News)
        <5>1. Confirms(m) \in News
          BY ReportsAreNews, Zenon
        <5> QED BY <5>1
      <4>2. StreamInv' /\ AcksInv'
        BY <1>1, <1>2, <3>3, <4>1, AnswersKeep
      <4>3. IsHeadset(headset') /\ unsure' \subseteq Names
        BY <1>3, <3>2, <3>3, Zenon
      <4> QED BY <4>2, <4>3
    <3>4. CASE Declines(s)
      BY <3>3, <3>4, Zenon DEF Declines
    <3>5. CASE AsksFirst(s)
      BY <3>3, <3>5, Zenon DEF AsksFirst
    <3> QED BY <2>3, <3>1, <3>2, <3>4, <3>5, Zenon
  <2>5. CASE TakesAlert(item)
    <3>1. CASE UNCHANGED <<headset, unsure>> /\ Answers(<<>>)
      <4>1. <<>> \in Seq(News)
        OBVIOUS
      <4>2. StreamInv' /\ AcksInv'
        BY <1>1, <1>2, <3>1, <4>1, AnswersKeep
      <4>3. IsHeadset(headset') /\ unsure' \subseteq Names
        BY <1>3, <3>1, Zenon
      <4> QED BY <4>2, <4>3
    <3>2. CASE "nc_button" \in Settings /\ \E v \in Values["nc_button"] : CarriesOut("nc_button", v)
      <4>1. "nc_button" \in Names
        BY <3>2, SettingsAre, Zenon
      <4> QED BY <2>3, <3>2, <4>1, Zenon
    <3> QED BY <2>5, <3>1, <3>2, Zenon DEF TakesAlert
  <2> QED BY <1>1, <2>1, <2>2, <2>4, <2>5, Zenon
<1>5. LinkInv' /\ CopyInv'
  BY <1>1, <1>2, Zenon DEF TypesInv, LinkInv, CopyInv
<1>6. QueueInv' /\ HeadsetInv' /\ UnsureInv'
  <2>1. taken' \in BOOLEAN
    BY <1>1
  <2> QED BY <1>1, <1>2, <1>4, <2>1, Zenon DEF TypesInv, QueueInv, HeadsetInv, UnsureInv
<1> QED BY <1>4, <1>5, <1>6, Zenon DEF TypesInv

\* A command given up keeps the types.
LEMMA GiveUpTypes ==
  ASSUME TypesInv, AcksInv, GiveUp
  PROVE  TypesInv' /\ AcksInv'
<1>1. /\ up /\ queue # <<>> /\ taken = FALSE /\ queue' = Tail(queue)
      /\ unsure' = unsure \cup About(Head(queue))
      /\ UNCHANGED <<pc, up, state, lastAmbientStep, buffer, headset, pending, taken, air, inAir>>
  BY Zenon DEF GiveUp, headsetVars, TypesInv, QueueInv
<1>2. About(Head(queue)) \subseteq Names
  <2>1. Queried(Head(queue)) \subseteq Names /\ SetBy(Head(queue)) \subseteq Settings
    BY Zenon DEF Queried, SetBy
  <2>2. Settings \subseteq Names /\ "noise" \in Names
    BY SettingsAre
  <2> QED BY <2>1, <2>2 DEF About
<1>3. QueueInv'
  <2>1. queue \in Seq(Items)
    BY Zenon DEF TypesInv, QueueInv
  <2>2. queue' \in Seq(Items)
    BY <1>1, <2>1
  <2> QED BY <1>1, <2>2, Zenon DEF QueueInv
<1>4. UnsureInv'
  BY <1>1, <1>2, Zenon DEF TypesInv, UnsureInv
<1>5. LinkInv' /\ CopyInv' /\ HeadsetInv'
  BY <1>1, Zenon DEF TypesInv, LinkInv, CopyInv, HeadsetInv
<1>6. StreamInv' /\ AcksInv'
  BY <1>1, Zenon DEF TypesInv, StreamInv, AcksInv
<1> QED BY <1>3, <1>4, <1>5, <1>6, Zenon DEF TypesInv

\* Whatever the headset does on its own, it changes in one thing.
LEMMA OwnIs ==
  ASSUME IsHeadset(headset), Own
  PROVE  \/ OwnQuestion
         \/ \E s \in Names : \E h : IsHeadset(h) /\ HeldBut(s, headset, h) /\ OwnChange(s, h)
<1>1. /\ \A s \in Settings : s \notin HeadsetFields
      /\ Names = Settings \cup {"noise", "battery_level"}
      /\ "noise" \notin Settings /\ "battery_level" \notin Settings
  BY SettingsAre
<1>2. ASSUME NEW l \in Levels, OwnChange("noise", [headset EXCEPT !.on = TRUE, !.step = l, !.focus = FALSE])
      PROVE  \E s \in Names : \E h : IsHeadset(h) /\ HeldBut(s, headset, h) /\ OwnChange(s, h)
  <2> DEFINE h == [headset EXCEPT !.on = TRUE, !.step = l, !.focus = FALSE]
  <2>1. l \in 0 .. MaxAmbientStep
    BY ControlAssumption, Zenon
  <2>2. IsHeadset(h)
    BY <1>1, <2>1 DEF IsHeadset, HeadsetFields
  <2>3. HeldBut("noise", headset, h)
    BY <1>1 DEF HeldBut, IsHeadset, HeadsetFields
  <2>4. OwnChange("noise", h) /\ "noise" \in Names
    BY <1>1, <1>2, Zenon
  <2> HIDE DEF h
  <2> QED BY <2>2, <2>3, <2>4, Zenon
<1>3. ASSUME NEW b \in Batteries, OwnChange("battery_level", [headset EXCEPT !.battery_level = b])
      PROVE  \E s \in Names : \E h : IsHeadset(h) /\ HeldBut(s, headset, h) /\ OwnChange(s, h)
  <2> DEFINE h == [headset EXCEPT !.battery_level = b]
  <2>1. b \in 0 .. 100
    BY ControlAssumption, Zenon
  <2>2. IsHeadset(h)
    BY <1>1, <2>1 DEF IsHeadset, HeadsetFields
  <2>3. HeldBut("battery_level", headset, h)
    BY <1>1 DEF HeldBut, IsHeadset, HeadsetFields
  <2>4. OwnChange("battery_level", h) /\ "battery_level" \in Names
    BY <1>1, <1>3, Zenon
  <2> HIDE DEF h
  <2> QED BY <2>2, <2>3, <2>4, Zenon
<1>4. ASSUME NEW s \in Owned, NEW v \in Chosen[s], OwnChange(s, [headset EXCEPT ![s] = v])
      PROVE  \E r \in Names : \E h : IsHeadset(h) /\ HeldBut(r, headset, h) /\ OwnChange(r, h)
  <2>1. s \in Settings
    BY ControlAssumption, Zenon
  <2>2. v \in Values[s]
    BY <2>1, ControlAssumption, Zenon
  <2>3. IsHeadset([headset EXCEPT ![s] = v]) /\ HeldBut(s, headset, [headset EXCEPT ![s] = v])
    BY <2>1, <2>2, HeadsetSet, Zenon
  <2>4. s \in Names
    BY <1>1, <2>1, Zenon
  <2> QED BY <1>4, <2>3, <2>4, Zenon
<1> QED BY <1>2, <1>3, <1>4, Zenon DEF Own

\* So does what the headset does of its own.
LEMMA OwnTypes ==
  ASSUME TypesInv, AcksInv, Own
  PROVE  TypesInv' /\ AcksInv'
<1>1. IsHeadset(headset)
  BY Zenon DEF TypesInv, HeadsetInv
<1>2. CASE OwnQuestion
  <2>1. /\ pc = "idle" /\ Puts(<<Confirms(KeyAssignChange)>>)
        /\ UNCHANGED <<pc, up, state, lastAmbientStep, queue, buffer, headset, pending, taken, unsure>>
    BY <1>2, Zenon DEF OwnQuestion, daemonVars, ghostVars
  <2>2. <<Confirms(KeyAssignChange)>> \in Seq(News)
    <3>1. Confirms(KeyAssignChange) \in News
      BY ReportsAreNews, Zenon
    <3> QED BY <3>1
  <2>3. StreamInv' /\ AcksInv'
    BY <2>1, <2>2, NewsKeep
  <2>4. up
    BY <1>2, Zenon DEF OwnQuestion
  <2>5. LinkInv' /\ CopyInv'
    BY <2>1, <2>4, Zenon DEF TypesInv, LinkInv, CopyInv
  <2>6. QueueInv' /\ HeadsetInv' /\ UnsureInv'
    BY <2>1, Zenon DEF TypesInv, QueueInv, HeadsetInv, UnsureInv
  <2> QED BY <2>3, <2>5, <2>6, Zenon DEF TypesInv
<1>3. ASSUME NEW s \in Names, NEW h, IsHeadset(h), OwnChange(s, h)
      PROVE  TypesInv' /\ AcksInv'
  <2>1. /\ pc = "idle" /\ headset' = h
        /\ UNCHANGED <<pc, up, state, lastAmbientStep, queue, buffer, pending, taken>>
        /\ IF up THEN Puts(<<Report(s, h, Ntfy(s))>>) /\ unsure' = unsure \ {s}
           ELSE UNCHANGED <<air, inAir, unsure>>
    BY <1>3, Zenon DEF OwnChange, daemonVars
  <2>2. <<Report(s, h, Ntfy(s))>> \in Seq(News)
    <3>1. Report(s, h, Ntfy(s)) \in News
      BY <1>3, ReportsAreNews, Zenon DEF Firsts
    <3> QED BY <3>1
  <2>3. HeadsetInv'
    BY <1>3, <2>1, Zenon DEF TypesInv, HeadsetInv
  <2>4. CopyInv' /\ QueueInv'
    BY <2>1, Zenon DEF TypesInv, CopyInv, QueueInv
  <2>5. CASE up
    <3>1. StreamInv' /\ AcksInv'
      BY <2>1, <2>2, <2>5, NewsKeep
    <3>2. LinkInv' /\ UnsureInv'
      BY <2>1, <2>5, Zenon DEF TypesInv, LinkInv, UnsureInv
    <3> QED BY <2>3, <2>4, <3>1, <3>2, Zenon DEF TypesInv
  <2>6. CASE ~up
    <3>1. StreamInv' /\ AcksInv'
      BY <2>1, <2>6, Zenon DEF TypesInv, StreamInv, AcksInv
    <3>2. LinkInv' /\ UnsureInv'
      BY <2>1, <2>6, Zenon DEF TypesInv, LinkInv, UnsureInv
    <3> QED BY <2>3, <2>4, <3>1, <3>2, Zenon DEF TypesInv
  <2> QED BY <2>5, <2>6
<1> QED BY <1>1, <1>2, <1>3, OwnIs, Zenon

\* So does a read, wherever it ends.
LEMMA ReadTypes ==
  ASSUME TypesInv, AcksInv, Read
  PROVE  TypesInv' /\ AcksInv'
<1>1. UNCHANGED <<up, state, lastAmbientStep, queue, headset, pending, taken, inAir, unsure>>
  BY Zenon DEF Read, ghostVars
<1>2. StreamInv' /\ pc' \in {"idle", "frames"} /\ up = TRUE
  BY ReadKeeps
<1>3. LinkInv' /\ CopyInv' /\ AcksInv'
  BY <1>1, <1>2, Zenon DEF TypesInv, LinkInv, CopyInv, AcksInv
<1>4. QueueInv' /\ HeadsetInv' /\ UnsureInv'
  BY <1>1, Zenon DEF TypesInv, QueueInv, HeadsetInv, UnsureInv
<1> QED BY <1>2, <1>3, <1>4, Zenon DEF TypesInv

\* So does a frame that is handled: the acknowledgement is of the command taken.
LEMMA FrameTypes ==
  ASSUME TypesInv, AcksInv, HandleFrame
  PROVE  TypesInv' /\ AcksInv'
<1>1. /\ up = TRUE /\ inAir # <<>> /\ inAir[1] \in Frames /\ inAir' = Tail(inAir)
      /\ StreamInv' /\ pc' \in {"idle", "frames"}
      /\ UNCHANGED <<up, headset, pending, air, unsure, blind, declined, events>>
      /\ Acknowledged(inAir[1]) \/ Asked(inAir[1]) \/ Reported(inAir[1])
  BY FrameHandled
<1>2. /\ queue \in Seq(Items) /\ taken \in BOOLEAN /\ (taken => queue # <<>>)
      /\ inAir \in Seq(Frames) /\ IsCopy(state) /\ state.connected = up
      /\ lastAmbientStep \in {-1} \cup MinAmbientStep .. MaxAmbientStep
  BY Zenon DEF TypesInv, QueueInv, StreamInv, StreamOf, CopyInv
<1>3. /\ 1 \in 1 .. Len(inAir) /\ Len(inAir') = Len(inAir) - 1
      /\ \A j \in 1 .. Len(inAir') : inAir'[j] = inAir[j + 1] /\ j + 1 \in 1 .. Len(inAir) /\ j + 1 # 1
  BY <1>1, <1>2
<1>4. HeadsetInv' /\ UnsureInv'
  BY <1>1, Zenon DEF TypesInv, HeadsetInv, UnsureInv
<1>5. LinkInv'
  BY <1>1, Zenon DEF LinkInv
<1>6. ASSUME inAir[1].type # ACK, UNCHANGED taken
      PROVE  AcksInv'
  <2>1. CASE taken = TRUE
    <3>1. PICK i \in 1 .. Len(inAir) : /\ inAir[i].type = ACK
                                       /\ \A j \in 1 .. Len(inAir) : inAir[j].type = ACK => j = i
      BY <2>1, Zenon DEF AcksInv, AckedOnce
    <3>2. i # 1
      BY <1>6, <3>1
    <3>3. i - 1 \in 1 .. Len(inAir') /\ inAir'[i - 1] = inAir[i]
      BY <1>2, <1>3, <3>2
    <3>4. \A j \in 1 .. Len(inAir') : inAir'[j].type = ACK => j = i - 1
      <4>1. \A j \in 1 .. Len(inAir') : inAir'[j].type = ACK => j + 1 = i
        BY <1>3, <3>1, Zenon
      <4>2. \A j \in 1 .. Len(inAir') : j + 1 = i => j = i - 1
        OBVIOUS
      <4> QED BY <4>1, <4>2, Zenon
    <3> QED BY <1>6, <2>1, <3>1, <3>3, <3>4, Zenon DEF AcksInv, AckedOnce
  <2>2. CASE taken = FALSE
    <3>1. \A j \in 1 .. Len(inAir) : inAir[j].type # ACK
      BY <2>2, Zenon DEF AcksInv, AckedOnce
    <3>2. \A j \in 1 .. Len(inAir') : inAir'[j].type # ACK
      BY <1>3, <3>1
    <3> QED BY <1>6, <2>2, <3>2, Zenon DEF AcksInv, AckedOnce
  <2> QED BY <1>2, <2>1, <2>2
<1>7. CASE Acknowledged(inAir[1])
  <2>1. inAir[1].type = ACK /\ queue' = Tail(queue) /\ taken' = FALSE /\ UNCHANGED <<state, lastAmbientStep>>
    BY <1>7, Zenon DEF Acknowledged
  <2>2. taken = TRUE
    BY <1>2, <1>3, <2>1, Zenon DEF AcksInv, AckedOnce
  <2>3. QueueInv'
    <3>1. queue' \in Seq(Items)
      BY <1>2, <2>1, <2>2
    <3> QED BY <2>1, <3>1, Zenon DEF QueueInv
  <2>4. \A j \in 1 .. Len(inAir) : inAir[j].type = ACK => j = 1
    BY <1>3, <2>1, <2>2, Zenon DEF AcksInv, AckedOnce
  <2>5. \A j \in 1 .. Len(inAir') : inAir'[j].type # ACK
    BY <1>3, <2>4
  <2>6. AcksInv'
    BY <2>1, <2>5, Zenon DEF AcksInv, AckedOnce
  <2>7. CopyInv'
    BY <1>1, <2>1, Zenon DEF TypesInv, CopyInv
  <2> QED BY <1>1, <1>4, <1>5, <2>3, <2>6, <2>7, Zenon DEF TypesInv
<1>8. CASE Asked(inAir[1])
  <2>1. PICK yes \in BOOLEAN : queue' = Append(queue, AlertItem(inAir[1].payload[3], yes))
    BY <1>8, Zenon DEF Asked
  <2>2. /\ inAir[1].type = MDR /\ inAir[1].payload[3] \in {ConnectionModeChange, KeyAssignChange}
        /\ UNCHANGED <<state, lastAmbientStep, taken>>
    BY <1>8, Zenon DEF Asked, IsQuestion
  <2>3. AlertItem(inAir[1].payload[3], yes) \in Items
    BY <2>2, ItemsAre, Zenon
  <2>4. QueueInv'
    <3>1. queue' \in Seq(Items) /\ queue' # <<>>
      BY <1>2, <2>1, <2>3
    <3> QED BY <1>2, <2>2, <3>1, Zenon DEF QueueInv
  <2>5. AcksInv'
    BY <1>6, <2>2, TypesOfFrames, Zenon
  <2>6. CopyInv'
    BY <1>1, <2>2, Zenon DEF TypesInv, CopyInv
  <2> QED BY <1>1, <1>4, <1>5, <2>4, <2>5, <2>6, Zenon DEF TypesInv
<1>9. CASE Reported(inAir[1])
  <2>1. inAir[1].type # ACK /\ UNCHANGED <<queue, taken>>
    BY <1>9, Zenon DEF Reported
  <2>2. PICK s \in Names : \E h : IsHeadset(h) /\ state' = ToldOf(state, s, h)
    BY <1>9, Zenon DEF Reported
  <2>8. PICK h : IsHeadset(h) /\ state' = ToldOf(state, s, h)
    BY <2>2, Zenon
  <2>3. IsCopy(state') /\ state'.connected = TRUE
    <3>1. IsCopy(ToldOf(state, s, h)) /\ ToldOf(state, s, h).connected = TRUE
      BY <1>2, <2>8, CopyTold
    <3> QED BY <2>8, <3>1, Zenon
  <2>4. lastAmbientStep' \in {-1} \cup MinAmbientStep .. MaxAmbientStep
    <3>1. lastAmbientStep' = IF state'.noise_mode = "ambient" THEN state'.ambient_sound_level ELSE lastAmbientStep
      BY <1>9, Zenon DEF Reported
    <3>2. CASE state'.noise_mode = "ambient"
      <4>1. StepToNoiseMode(state'.ambient_sound_level) = "ambient" /\ state'.ambient_sound_level \in 0 .. MaxAmbientStep
        BY <2>3, <3>2 DEF IsCopy
      <4>2. state'.ambient_sound_level \in MinAmbientStep .. MaxAmbientStep
        BY <4>1 DEF StepToNoiseMode, StepNoiseCancel, StepWind, MinAmbientStep, MaxAmbientStep
      <4> QED BY <3>1, <3>2, <4>2, Zenon
    <3> QED BY <1>2, <3>1, <3>2
  <2>5. CopyInv'
    BY <1>1, <2>3, <2>4, Zenon DEF CopyInv
  <2>6. QueueInv'
    BY <2>1, Zenon DEF TypesInv, QueueInv
  <2>7. AcksInv'
    BY <1>6, <2>1, Zenon
  <2> QED BY <1>1, <1>4, <1>5, <2>5, <2>6, <2>7, Zenon DEF TypesInv
<1> QED BY <1>1, <1>7, <1>8, <1>9, Zenon

\* What the two theorems and the sections below stand on.
Kept == TypesInv /\ AcksInv

\* A step of nobody keeps the invariant.
LEMMA IdleKept ==
  ASSUME Kept, UNCHANGED vars
  PROVE  Kept'
<1>1. UNCHANGED <<pc, up, state, lastAmbientStep, queue, buffer, headset, pending, taken, air, inAir, unsure>>
  BY Zenon DEF vars, daemonVars, headsetVars, ghostVars
<1>2. LinkInv' /\ CopyInv' /\ QueueInv'
  BY <1>1, Zenon DEF Kept, TypesInv, LinkInv, CopyInv, QueueInv
<1>3. HeadsetInv' /\ StreamInv' /\ UnsureInv' /\ AcksInv'
  BY <1>1, Zenon DEF Kept, TypesInv, HeadsetInv, StreamInv, UnsureInv, AcksInv
<1> QED BY <1>2, <1>3, Zenon DEF Kept, TypesInv

\* Every step keeps it.
LEMMA StepKept ==
  ASSUME Kept, [Next]_vars
  PROVE  Kept'
<1>1. TypesInv /\ AcksInv
  BY Zenon DEF Kept
<1>2. CASE LinkUp
  <2>1. UNCHANGED <<taken, inAir>>
    BY <1>2, Zenon DEF LinkUp, headsetVars
  <2>2. AcksInv'
    BY <1>1, <2>1, Zenon DEF AcksInv
  <2> QED BY <1>1, <1>2, <2>2, LinkUpTypes, Zenon DEF Kept
<1>3. CASE LinkDown
  <2>1. taken' = FALSE /\ inAir' = <<>>
    BY <1>3, Zenon DEF LinkDown
  <2>2. AckedOnce(FALSE, <<>>)
    BY DEF AckedOnce
  <2>3. AcksInv'
    BY <2>1, <2>2, Zenon DEF AcksInv
  <2> QED BY <1>1, <1>3, <2>3, LinkDownTypes, Zenon DEF Kept
<1>4. CASE Verbs
  <2>1. PICK s, item : Wished(s, item)
    BY <1>1, <1>4, VerbsWished
  <2>2. UNCHANGED <<taken, inAir>>
    BY <2>1, Zenon DEF Wished, headsetVars
  <2>3. AcksInv'
    BY <1>1, <2>2, Zenon DEF AcksInv
  <2>4. TypesInv'
    BY <1>1, <2>1, WishTypes
  <2> QED BY <2>3, <2>4, Zenon DEF Kept
<1>5. CASE Take
  BY <1>1, <1>5, TakeTypes, Zenon DEF Kept
<1>6. CASE GiveUp
  BY <1>1, <1>6, GiveUpTypes, Zenon DEF Kept
<1>7. CASE Own
  BY <1>1, <1>7, OwnTypes, Zenon DEF Kept
<1>8. CASE Read
  BY <1>1, <1>8, ReadTypes, Zenon DEF Kept
<1>9. CASE HandleFrame
  BY <1>1, <1>9, FrameTypes, Zenon DEF Kept
<1>10. CASE UNCHANGED vars
  BY <1>10, IdleKept
<1> QED BY <1>2, <1>3, <1>4, <1>5, <1>6, <1>7, <1>8, <1>9, <1>10, Zenon DEF Next

\* It holds at first.
LEMMA InitKept == ASSUME Init PROVE Kept
<1>1. taken = FALSE /\ inAir = <<>>
  BY Zenon DEF Init
<1>2. AckedOnce(FALSE, <<>>)
  BY DEF AckedOnce
<1>3. AcksInv
  BY <1>1, <1>2, Zenon DEF AcksInv
<1> QED BY <1>3, InitTypes, Zenon DEF Kept

\* It gives the type invariant.
LEMMA KeptTypeOK == ASSUME Kept PROVE TypeOK
<1>1. LinkInv /\ CopyInv /\ QueueInv /\ StreamInv /\ UnsureInv
  BY Zenon DEF Kept, TypesInv
<1>2. \A i \in 1 .. Len(queue) : queue[i].type \in {MDR, MDR2} /\ queue[i].payload \in Seq(Byte)
  <2>1. \A i \in 1 .. Len(queue) : queue[i] \in Items
    BY <1>1 DEF QueueInv
  <2> QED BY <2>1 DEF Items, Commands
<1>3. IsCopy(state) /\ state.connected = up /\ lastAmbientStep \in {-1} \cup MinAmbientStep .. MaxAmbientStep
  BY <1>1, Zenon DEF CopyInv
<1>4. buffer \in Seq(Byte) /\ air \in Seq(Byte)
  BY <1>1, Zenon DEF StreamInv, StreamOf
<1>5. taken => queue # <<>>
  BY <1>1, Zenon DEF QueueInv
<1> QED BY <1>1, <1>2, <1>3, <1>4, <1>5, Zenon DEF TypeOK, LinkInv, IsCopy, UnsureInv

\* The daemon's copy of the headset, its queue, its framer and the channel hold
\* what their types say, whatever the verbs, the headset and the reads do: the copy
\* agrees with itself on the noise mode and its step, and a command taken stays at
\* the head of the queue until its acknowledgement is read.
THEOREM HeadsetTypes == Spec => []TypeOK
<1>1. Init => Kept
  BY InitKept
<1>2. Kept /\ [Next]_vars => Kept'
  BY StepKept
<1>3. Kept => TypeOK
  BY KeptTypeOK
<1> QED BY <1>1, <1>2, <1>3, PTL DEF Spec

\* The framer loses, splits, joins and invents no frame: wherever the reads cut the
\* stream, and with whatever bytes an earlier link left behind, what it keeps
\* and what is still to come are the frames the headset sent and the daemon has not
\* handled.
THEOREM StreamRecovered == Spec => []FramesRecovered
<1>1. Init => Kept
  BY InitKept
<1>2. Kept /\ [Next]_vars => Kept'
  BY StepKept
<1>3. Kept => FramesRecovered
  <2> SUFFICES ASSUME Kept PROVE FramesRecovered
    OBVIOUS
  <2>1. inAir \in Seq(Frames) /\ buffer \o air = Bytes(inAir)
    BY Zenon DEF Kept, TypesInv, StreamInv, StreamOf
  <2>2. inAir \in Seq(WireFrames)
    BY <2>1, FramesOnWire
  <2>3. FramesIn(Bytes(inAir)) = inAir
    BY <2>2, FramesOfStream
  <2> QED BY <2>1, <2>3, Zenon DEF FramesRecovered
<1> QED BY <1>1, <1>2, <1>3, PTL DEF Spec

-----------------------------------------------------------------------------
(* The copy tells the truth. *)

\* A frame reports on s.
Key(s) == IF s = "noise" THEN "noise_mode" ELSE s
Tells(fr, s) == fr.type \in {MDR, MDR2} /\ Key(s) \in DOMAIN Fields(fr)
Untold(fs, s) == \A i \in 1 .. Len(fs) : ~Tells(fs[i], s)

\* The last report on s says what the headset holds.
LastTells(fs, s, h) ==
  \A i \in 1 .. Len(fs) :
    Tells(fs[i], s) /\ (\A j \in i + 1 .. Len(fs) : ~Tells(fs[j], s)) => Fields(fs[i]) = FieldsOf(s, h)

\* The copy agrees with the headset on s.
Agrees(s, st, h) ==
  IF s = "noise" THEN /\ (st.noise_mode = "off") = ~h.on
                      /\ h.on => /\ st.ambient_sound_level = h.step
                                 /\ h.step >= MinAmbientStep => st.voice_passthrough = h.focus
                 ELSE st[s] = h[s]

\* A command would make it: a query, or the setting the copy holds.
Wants(item, s, st) == item = Query(s) \/ Agreeing(item, s, st)
Underway(q, t, s, st) == \E i \in 1 .. Len(q) : ~(i = 1 /\ t) /\ Wants(q[i], s, st)

ToldOn(s) ==
  /\ LastTells(inAir, s, headset)
  /\ up /\ Untold(inAir, s) => \/ s \in unsure \/ Agrees(s, state, headset)
                               \/ Underway(queue, taken, s, state)
ToldInv == \A s \in Names : ToldOn(s)

\* Nothing new of s; or the last there is of it.
Silent(fs, new, s) ==
  /\ Untold(new, s) => Untold(fs, s)
  /\ \A h : LastTells(fs, s, h) => LastTells(new, s, h)
Spoken(new, s, h) == LastTells(new, s, h) /\ ~Untold(new, s)

\* Each setting has a field of its own that a report on it tells.
LEMMA KeyIs ==
  /\ \A r, s \in Names : Key(r) = Key(s) => r = s
  /\ \A s \in Names : Key(s) # "voice_passthrough" /\ Key(s) # "ambient_sound_level"
  /\ \A s \in Names : s # "noise" => Key(s) = s /\ Key(s) # "noise_mode"
  /\ Key("noise") = "noise_mode"
<1>1. /\ Names = Settings \cup {"noise", "battery_level"}
      /\ \A s \in Settings : s \notin StateFields
  BY SettingsAre
<1>2. \A s \in Names \ {"noise"} : s # "voice_passthrough" /\ s # "ambient_sound_level" /\ s # "noise_mode"
  BY <1>1 DEF StateFields
<1>3. \A s \in Names \ {"noise"} : Key(s) = s
  BY DEF Key
<1>4. Key("noise") = "noise_mode"
  BY DEF Key
<1>5. ASSUME NEW r \in Names, NEW s \in Names, Key(r) = Key(s) PROVE r = s
  BY <1>2, <1>3, <1>4, <1>5
<1>6. ASSUME NEW s \in Names PROVE Key(s) # "voice_passthrough" /\ Key(s) # "ambient_sound_level"
  BY <1>2, <1>3, <1>4
<1>7. ASSUME NEW s \in Names, s # "noise" PROVE Key(s) = s /\ Key(s) # "noise_mode"
  BY <1>2, <1>3, <1>7
<1> QED BY <1>4, <1>5, <1>6, <1>7

\* A report tells of one thing.
LEMMA TellsOne ==
  ASSUME NEW r \in Names, NEW h, IsHeadset(h), NEW fr, Says(fr, FieldsOf(r, h)), NEW s \in Names
  PROVE  Tells(fr, s) <=> s = r
<1>1. fr.type \in {MDR, MDR2} /\ Fields(fr) = FieldsOf(r, h)
  BY Zenon DEF Says
<1>2. CASE r = "noise"
  <2>1. TellsNoise(FieldsOf("noise", h), h)
    <3>1. h.on \in BOOLEAN /\ h.focus \in BOOLEAN /\ h.step \in 0 .. MaxAmbientStep
      BY Zenon DEF IsHeadset
    <3>2. NoiseBytes(SerializeNcAsm(h.on, h.step, h.focus), h.on, h.step, h.focus)
      <4>1. NoiseShaped(SerializeNcAsm(h.on, h.step, h.focus), 104, h.on, h.step, h.focus)
        BY <3>1, NoiseCommand
      <4> QED BY <4>1, Zenon DEF NoiseShaped
    <3>3. FieldsOf("noise", h) = NoiseFields(SerializeNcAsm(h.on, h.step, h.focus))
      BY DEF FieldsOf
    <3> QED BY <3>2, <3>3, NoiseTold, Zenon
  <2>2. /\ "noise_mode" \in DOMAIN FieldsOf("noise", h)
        /\ \A x \in DOMAIN FieldsOf("noise", h) : x \in {"noise_mode", "voice_passthrough", "ambient_sound_level"}
    BY <2>1, Zenon DEF TellsNoise
  <2>3. Key(s) \in {"noise_mode", "voice_passthrough", "ambient_sound_level"} <=> s = "noise"
    BY KeyIs
  <2> QED BY <1>1, <1>2, <2>2, <2>3, KeyIs, Zenon DEF Tells
<1>3. CASE r # "noise"
  <2>1. DOMAIN FieldsOf(r, h) = {r}
    BY <1>3 DEF FieldsOf, Field
  <2>2. Key(s) \in {r} <=> s = r
    BY <1>3, KeyIs
  <2> QED BY <1>1, <2>1, <2>2, Zenon DEF Tells
<1> QED BY <1>2, <1>3

\* Acknowledgements and questions tell of no setting.
LEMMA OthersTellNothing ==
  ASSUME NEW fr, fr.type = ACK \/ IsQuestion(fr), NEW s
  PROVE  ~Tells(fr, s)
<1>1. CASE fr.type = ACK
  BY <1>1, TypesOfFrames DEF Tells
<1>2. CASE IsQuestion(fr)
  <2>1. Fields(fr) = <<>>
    BY <1>2, Zenon DEF IsQuestion
  <2>2. DOMAIN Fields(fr) = {}
    BY <2>1
  <2> QED BY <2>2, Zenon DEF Tells
<1> QED BY <1>1, <1>2

\* What one more frame tells.
LEMMA TellAppend ==
  ASSUME NEW fs \in Seq(Frames), NEW fr \in Frames, NEW s
  PROVE  /\ ~Tells(fr, s) => Silent(fs, Append(fs, fr), s)
         /\ \A h : Tells(fr, s) /\ Fields(fr) = FieldsOf(s, h) => Spoken(Append(fs, fr), s, h)
<1> DEFINE new == Append(fs, fr)
           n == Len(fs)
<1>1. /\ n \in Nat /\ Len(new) = n + 1 /\ new[n + 1] = fr
      /\ \A i \in 1 .. n : new[i] = fs[i]
  OBVIOUS
<1> HIDE DEF new, n
<1>2. \A i \in 1 .. n + 1 : i \in 1 .. n \/ i = n + 1
  BY <1>1
<1>3. \A i \in 1 .. n : i \in 1 .. n + 1 /\ n + 1 \in i + 1 .. n + 1
  BY <1>1
<1>4. \A i \in 1 .. n : \A j \in i + 1 .. n : j \in 1 .. n /\ j \in i + 1 .. n + 1
  BY <1>1
<1>5. ASSUME ~Tells(fr, s)
      PROVE  Silent(fs, new, s)
  <2>1. Untold(new, s) => Untold(fs, s)
    BY <1>1, <1>3, Zenon DEF Untold, n
  <2>2. ASSUME NEW h, LastTells(fs, s, h)
        PROVE  LastTells(new, s, h)
    <3> SUFFICES ASSUME NEW i \in 1 .. n + 1, Tells(new[i], s), \A j \in i + 1 .. n + 1 : ~Tells(new[j], s)
                 PROVE  Fields(new[i]) = FieldsOf(s, h)
      BY <1>1, Zenon DEF LastTells
    <3>1. i \in 1 .. n
      BY <1>1, <1>2, <1>5
    <3>2. \A j \in i + 1 .. n : ~Tells(fs[j], s)
      BY <1>1, <1>4, <3>1, Zenon
    <3> QED BY <1>1, <2>2, <3>1, <3>2, Zenon DEF LastTells, n
  <2> QED BY <2>1, <2>2, Zenon DEF Silent
<1>6. ASSUME NEW h, Tells(fr, s), Fields(fr) = FieldsOf(s, h)
      PROVE  Spoken(new, s, h)
  <2>1. n + 1 \in 1 .. n + 1
    BY <1>1
  <2>2. ~Untold(new, s)
    BY <1>1, <1>6, <2>1, Zenon DEF Untold
  <2>3. LastTells(new, s, h)
    <3> SUFFICES ASSUME NEW i \in 1 .. n + 1, Tells(new[i], s), \A j \in i + 1 .. n + 1 : ~Tells(new[j], s)
                 PROVE  Fields(new[i]) = FieldsOf(s, h)
      BY <1>1, Zenon DEF LastTells
    <3>1. i = n + 1
      BY <1>1, <1>2, <1>3, <1>6
    <3> QED BY <1>1, <1>6, <3>1
  <2> QED BY <2>2, <2>3, Zenon DEF Spoken
<1> QED BY <1>5, <1>6, Zenon DEF new

\* The first report is handled; what is about s is the last of it, or not.
LEMMA TellTail ==
  ASSUME NEW fs \in Seq(Frames), fs # <<>>, NEW s, NEW h, LastTells(fs, s, h)
  PROVE  /\ LastTells(Tail(fs), s, h)
         /\ ~Tells(fs[1], s) => (Untold(Tail(fs), s) => Untold(fs, s))
         /\ Tells(fs[1], s) /\ Untold(Tail(fs), s) => Fields(fs[1]) = FieldsOf(s, h)
<1> DEFINE new == Tail(fs)
           n == Len(fs)
<1>1. /\ n \in Nat \ {0} /\ Len(new) = n - 1 /\ \A i \in 1 .. n - 1 : new[i] = fs[i + 1]
  OBVIOUS
<1> HIDE DEF new, n
<1>2. \A i \in 1 .. n - 1 : i + 1 \in 1 .. n
  BY <1>1
<1>3. \A i \in 1 .. n : i = 1 \/ \E j \in 1 .. n - 1 : i = j + 1
  <2> TAKE i \in 1 .. n
  <2>1. i # 1 => i - 1 \in 1 .. n - 1 /\ i = (i - 1) + 1
    BY <1>1
  <2> QED BY <2>1, Zenon
<1>4. LastTells(new, s, h)
  <2> SUFFICES ASSUME NEW i \in 1 .. n - 1, Tells(new[i], s), \A j \in i + 1 .. n - 1 : ~Tells(new[j], s)
               PROVE  Fields(new[i]) = FieldsOf(s, h)
    BY <1>1, Zenon DEF LastTells
  <2>1. \A j \in (i + 1) + 1 .. n : j - 1 \in i + 1 .. n - 1 /\ j - 1 \in 1 .. n - 1 /\ (j - 1) + 1 = j
    BY <1>1
  <2>2. \A j \in (i + 1) + 1 .. n : fs[j] = new[j - 1]
    BY <1>1, <2>1
  <2>3. \A j \in (i + 1) + 1 .. n : ~Tells(fs[j], s)
    BY <2>1, <2>2, Zenon
  <2>4. Tells(fs[i + 1], s) /\ new[i] = fs[i + 1]
    BY <1>1, Zenon
  <2> QED BY <1>2, <2>3, <2>4, Zenon DEF LastTells, n
<1>5. ASSUME ~Tells(fs[1], s), Untold(new, s)
      PROVE  Untold(fs, s)
  <2>1. \A j \in 1 .. n - 1 : ~Tells(fs[j + 1], s)
    BY <1>1, <1>5, Zenon DEF Untold
  <2>2. \A i \in 1 .. n : ~Tells(fs[i], s)
    BY <1>3, <1>5, <2>1, Zenon
  <2> QED BY <2>2, Zenon DEF Untold, n
<1>6. ASSUME Tells(fs[1], s), Untold(new, s)
      PROVE  Fields(fs[1]) = FieldsOf(s, h)
  <2>1. 1 \in 1 .. n /\ \A j \in 1 + 1 .. n : j - 1 \in 1 .. n - 1 /\ (j - 1) + 1 = j
    BY <1>1
  <2>2. \A j \in 1 + 1 .. n : fs[j] = new[j - 1]
    BY <1>1, <2>1
  <2>3. \A j \in 1 + 1 .. n : ~Tells(fs[j], s)
    BY <1>1, <1>6, <2>1, <2>2, Zenon DEF Untold
  <2> QED BY <1>6, <2>1, <2>3, Zenon DEF LastTells, n
<1> QED BY <1>4, <1>5, <1>6, Zenon DEF new

\* The noise command, whichever it is, carries the mode, the step and the focus asked for.
LEMMA NoiseSays ==
  \A w : \A on \in BOOLEAN, step \in 0 .. MaxAmbientStep, focus \in BOOLEAN :
    NoiseBytes(NoiseItem(w, on, step, focus).payload, on, step, focus)
<1> SUFFICES ASSUME NEW w, NEW on \in BOOLEAN, NEW step \in 0 .. MaxAmbientStep, NEW focus \in BOOLEAN
             PROVE  NoiseBytes(NoiseItem(w, on, step, focus).payload, on, step, focus)
  OBVIOUS
<1> DEFINE p == SerializeNcAsm(on, step, focus)
<1>1. NoiseItem(w, on, step, focus).payload = p
  BY DEF NoiseItem, Item
<1>2. NoiseBytes(p, on, step, focus)
  <2>1. NoiseShaped(p, 104, on, step, focus)
    BY NoiseCommand
  <2> QED BY <2>1, Zenon DEF NoiseShaped
<1> QED BY <1>1, <1>2, Zenon

\* The copy the headset has told of s agrees with it on s, and is as it was on the rest.
LEMMA ToldAgrees ==
  ASSUME NEW st, IsCopy(st), NEW s \in Names, NEW h, IsHeadset(h)
  PROVE  Agrees(s, ToldOf(st, s, h), h) /\ SameBut(s, st, ToldOf(st, s, h))
<1> DEFINE new == ToldOf(st, s, h)
<1>1. Told(st, s, h, new)
  BY CopyTold, Zenon
<1> HIDE DEF new
<1>2. Agrees(s, new, h)
  BY <1>1, Zenon DEF Told, Agrees
<1>3. DOMAIN st = Settings \cup StateFields
  BY Zenon DEF IsCopy
<1>4. ASSUME NEW r \in Names \ {s}, r # "noise"
      PROVE  new[r] = st[r]
  <2>1. r \in DOMAIN st \ {s, "connected"} /\ r \in Settings \cup {"battery_level"}
    BY <1>3, <1>4, SettingsAre DEF StateFields
  <2> QED BY <1>1, <2>1, Zenon DEF Told
<1>5. ASSUME s # "noise"
      PROVE  /\ new.noise_mode = st.noise_mode /\ new.ambient_sound_level = st.ambient_sound_level
             /\ new.voice_passthrough = st.voice_passthrough
  <2>1. /\ "noise_mode" \in DOMAIN st \ {s, "connected"}
        /\ "ambient_sound_level" \in DOMAIN st \ {s, "connected"}
        /\ "voice_passthrough" \in DOMAIN st \ {s, "connected"}
    BY <1>3, <1>5, SettingsAre DEF StateFields
  <2> QED BY <1>1, <1>5, <2>1, Zenon DEF Told
<1>6. SameBut(s, st, new)
  BY <1>4, <1>5, Zenon DEF SameBut
<1> QED BY <1>2, <1>6, Zenon DEF new

\* A change of the copy in r leaves what it says of another, and who would make
\* it true.
LEMMA AgreesStill ==
  ASSUME NEW r, NEW s \in Names \ {r}, NEW st, NEW new, SameBut(r, st, new)
  PROVE  /\ \A h : Agrees(s, st, h) => Agrees(s, new, h)
         /\ \A item : Wants(item, s, st) => Wants(item, s, new)
<1>1. CASE s = "noise"
  <2>1. /\ new.noise_mode = st.noise_mode /\ new.ambient_sound_level = st.ambient_sound_level
        /\ new.voice_passthrough = st.voice_passthrough
    BY <1>1, Zenon DEF SameBut
  <2>2. "noise" \notin Settings
    BY SettingsAre, Zenon
  <2>3. \A h : Agrees(s, st, h) => Agrees(s, new, h)
    BY <1>1, <2>1, Zenon DEF Agrees
  <2>4. \A on, step, focus : NoiseWish(st, on, step, focus) => NoiseWish(new, on, step, focus)
    BY <2>1, Zenon DEF NoiseWish
  <2>5. \A item : Agreeing(item, s, st) => Agreeing(item, s, new)
    BY <1>1, <2>2, <2>4, Zenon DEF Agreeing
  <2> QED BY <2>3, <2>5, Zenon DEF Wants
<1>2. CASE s # "noise"
  <2>1. new[s] = st[s]
    BY <1>2, Zenon DEF SameBut
  <2>2. \A h : Agrees(s, st, h) => Agrees(s, new, h)
    BY <1>2, <2>1, Zenon DEF Agrees
  <2>3. \A item : Agreeing(item, s, st) => Agreeing(item, s, new)
    BY <1>2, <2>1, Zenon DEF Agreeing
  <2> QED BY <2>2, <2>3, Zenon DEF Wants
<1> QED BY <1>1, <1>2

\* So does a change of the headset in r.
LEMMA HeldStill ==
  ASSUME NEW r, NEW s \in Names \ {r}, NEW h, NEW new, HeldBut(r, h, new)
  PROVE  /\ \A st : Agrees(s, st, h) => Agrees(s, st, new)
         /\ FieldsOf(s, new) = FieldsOf(s, h)
         /\ \A fs : LastTells(fs, s, h) => LastTells(fs, s, new)
<1>1. FieldsOf(s, new) = FieldsOf(s, h) /\ \A st : Agrees(s, st, h) => Agrees(s, st, new)
  <2>1. CASE s = "noise"
    <3>1. new.on = h.on /\ new.step = h.step /\ new.focus = h.focus
      BY <2>1, Zenon DEF HeldBut
    <3> QED BY <2>1, <3>1, Zenon DEF FieldsOf, Agrees
  <2>2. CASE s # "noise"
    <3>1. new[s] = h[s]
      BY <2>2, Zenon DEF HeldBut
    <3> QED BY <2>2, <3>1, Zenon DEF FieldsOf, Agrees
  <2> QED BY <2>1, <2>2
<1> QED BY <1>1, Zenon DEF LastTells

\* What a command is about.
LEMMA AboutOne ==
  /\ \A s \in Names : About(Query(s)) = {s}
  /\ \A s \in Settings : \A v \in Values[s] : About(SetItem(s, v)) = {s}
  /\ \A w \in NoiseNames : \A on \in BOOLEAN, step \in 0 .. MaxAmbientStep, focus \in BOOLEAN :
       About(NoiseItem(w, on, step, focus)) = {"noise"}
  /\ \A item : IsAlertItem(item) => About(item) = {}
<1>1. \A item, queried, set : Meant(item, queried, set, FALSE, FALSE) => About(item) = queried \cup set
  BY DEF Meant, About
<1>2. \A item, queried, set : Meant(item, queried, set, FALSE, TRUE) => About(item) = queried \cup set
  BY DEF Meant, About
<1>3. \A item : Meant(item, {}, {}, TRUE, FALSE) => About(item) = {"noise"}
  BY DEF Meant, About
<1>4. ASSUME NEW s \in Names PROVE About(Query(s)) = {s}
  <2>1. Meant(Query(s), {s}, {}, FALSE, FALSE)
    BY QueryMeant, Zenon
  <2>2. About(Query(s)) = {s} \cup {}
    BY <1>1, <2>1, Zenon
  <2> QED BY <2>2
<1>5. ASSUME NEW s \in Settings, NEW v \in Values[s] PROVE About(SetItem(s, v)) = {s}
  <2>1. Meant(SetItem(s, v), {}, {s}, FALSE, FALSE)
    BY SettingMeant, Zenon
  <2>2. About(SetItem(s, v)) = {} \cup {s}
    BY <1>1, <2>1, Zenon
  <2> QED BY <2>2
<1>6. ASSUME NEW w \in NoiseNames, NEW on \in BOOLEAN, NEW step \in 0 .. MaxAmbientStep, NEW focus \in BOOLEAN
      PROVE  About(NoiseItem(w, on, step, focus)) = {"noise"}
  BY <1>3, NoiseMeant, Zenon
<1>7. ASSUME NEW item, IsAlertItem(item) PROVE About(item) = {}
  <2>1. PICK m \in {ConnectionModeChange, KeyAssignChange}, yes \in BOOLEAN : item = AlertItem(m, yes)
    BY <1>7, Zenon DEF IsAlertItem
  <2>2. Meant(AlertItem(m, yes), {}, {}, FALSE, TRUE)
    BY AlertMeant, Zenon
  <2>3. About(AlertItem(m, yes)) = {} \cup {}
    BY <1>2, <2>2, Zenon
  <2> QED BY <2>1, <2>3
<1> QED BY <1>4, <1>5, <1>6, <1>7, Zenon

\* What would make the copy of s true is about s.
LEMMA WantsAbout ==
  ASSUME NEW s \in Names, NEW st, NEW item, Wants(item, s, st)
  PROVE  /\ s \in About(item)
         /\ item.what = "query" \/ (s = "noise" /\ item.what \in NoiseNames) \/ (s \in Settings /\ item.what = s)
<1>1. CASE item = Query(s)
  <2>1. About(Query(s)) = {s} /\ Query(s).what = "query"
    BY AboutOne, QueryMeant, Zenon
  <2> QED BY <1>1, <2>1, Zenon
<1>2. CASE s \in Settings /\ st[s] \in Values[s] /\ item = SetItem(s, st[s])
  <2>1. About(SetItem(s, st[s])) = {s} /\ SetItem(s, st[s]).what = s
    BY <1>2, AboutOne, SettingMeant, Zenon
  <2> QED BY <1>2, <2>1, Zenon
<1>3. ASSUME s = "noise", NEW w \in NoiseNames, NEW on \in BOOLEAN, NEW step \in 0 .. MaxAmbientStep,
             NEW focus \in BOOLEAN, item = NoiseItem(w, on, step, focus)
      PROVE  s \in About(item) /\ item.what \in NoiseNames
  <2>1. About(NoiseItem(w, on, step, focus)) = {"noise"} /\ NoiseItem(w, on, step, focus).what = w
    BY AboutOne, NoiseMeant, Zenon
  <2> QED BY <1>3, <2>1, Zenon
<1> QED BY <1>1, <1>2, <1>3, Zenon DEF Wants, Agreeing

\* The names of commands are apart.
LEMMA WhatsDiffer ==
  /\ "query" \notin Settings /\ "query" \notin NoiseNames
  /\ \A w \in NoiseNames : w \notin Settings
  /\ "noise" \notin Settings
<1>1. Settings \subseteq DOMAIN Values
  BY SettingsAre, Zenon
<1> QED BY <1>1, DomainOfValues DEF NoiseNames

\* A noise command is named as one.
LEMMA NoiseWhat ==
  ASSUME NEW item, NEW st, Agreeing(item, "noise", st)
  PROVE  item.what \in NoiseNames
<1>1. "noise" \notin Settings
  BY SettingsAre, Zenon
<1>2. PICK w \in NoiseNames, on \in BOOLEAN, step \in 0 .. MaxAmbientStep, focus \in BOOLEAN :
        item = NoiseItem(w, on, step, focus)
  BY <1>1, Zenon DEF Agreeing
<1>3. NoiseItem(w, on, step, focus).what = w
  BY NoiseMeant, Zenon
<1> QED BY <1>2, <1>3, Zenon

\* A command that says what the copy says is named for what it is about.
LEMMA AgreeingWhat ==
  ASSUME NEW s, NEW st, NEW item, Agreeing(item, s, st)
  PROVE  (s = "noise" /\ item.what \in NoiseNames) \/ (s \in Settings /\ item.what = s)
<1>1. CASE s \in Settings /\ st[s] \in Values[s] /\ item = SetItem(s, st[s])
  <2>1. SetItem(s, st[s]).what = s
    BY <1>1, SettingMeant, Zenon
  <2> QED BY <1>1, <2>1, Zenon
<1>2. CASE s = "noise"
  <2>1. Agreeing(item, "noise", st)
    BY <1>2
  <2> QED BY <1>2, <2>1, NoiseWhat, Zenon
<1> QED BY <1>1, <1>2, Zenon DEF Agreeing

\* A name's report, alone or behind an acknowledgement, tells of it and no other.
LEMMA ReportSpeaks ==
  ASSUME NEW fs \in Seq(Frames), NEW s \in Names, NEW h, IsHeadset(h), NEW first \in Firsts(s), NEW new,
         \/ new = fs \o <<Report(s, h, first)>>
         \/ new = fs \o (<<Frame(ACK, <<>>)>> \o <<Report(s, h, first)>>)
  PROVE  Spoken(new, s, h) /\ \A r \in Names \ {s} : Silent(fs, new, r)
<1> DEFINE fr == Report(s, h, first)
           ack == Frame(ACK, <<>>)
           mid == Append(fs, ack)
<1>1. fr \in Frames /\ Says(fr, FieldsOf(s, h)) /\ ack \in Frames /\ ack.type = ACK
  BY FramesAre, Zenon
<1>2. \A r \in Names : Tells(fr, r) <=> r = s
  BY <1>1, TellsOne
<1>3. Fields(fr) = FieldsOf(s, h)
  BY <1>1, Zenon DEF Says
<1>4. new = Append(fs, fr) \/ new = Append(mid, fr)
  <2> HIDE DEF fr, ack
  <2>1. fs \o <<fr>> = Append(fs, fr) /\ fs \o (<<ack>> \o <<fr>>) = Append(Append(fs, ack), fr)
    BY <1>1
  <2> QED BY <2>1, Zenon DEF fr, ack
<1> HIDE DEF fr, ack
<1>5. mid \in Seq(Frames)
  BY <1>1
<1>6. \A r : Silent(fs, mid, r)
  BY <1>1, OthersTellNothing, TellAppend
<1> HIDE DEF mid
<1>7. ASSUME NEW gs \in Seq(Frames)
      PROVE  Spoken(Append(gs, fr), s, h) /\ \A r \in Names \ {s} : Silent(gs, Append(gs, fr), r)
  <2>1. Spoken(Append(gs, fr), s, h)
    BY <1>1, <1>2, <1>3, <1>7, TellAppend
  <2>2. ASSUME NEW r \in Names \ {s} PROVE Silent(gs, Append(gs, fr), r)
    <3>1. ~Tells(fr, r)
      BY <1>2
    <3> QED BY <1>1, <1>7, <3>1, TellAppend
  <2> QED BY <2>1, <2>2
<1>8. CASE new = Append(fs, fr)
  BY <1>7, <1>8
<1>9. CASE new = Append(mid, fr)
  <2>1. Spoken(new, s, h) /\ \A r \in Names \ {s} : Silent(mid, new, r)
    BY <1>5, <1>7, <1>9
  <2> QED BY <1>6, <2>1, Zenon DEF Silent
<1> QED BY <1>4, <1>8, <1>9

\* An acknowledgement or a question tells of nothing.
LEMMA OthersSilent ==
  ASSUME NEW fs \in Seq(Frames), NEW new, NEW m \in {ConnectionModeChange, KeyAssignChange},
         \/ new = fs \o <<Confirms(m)>>
         \/ new = fs \o (<<Frame(ACK, <<>>)>> \o <<Confirms(m)>>)
         \/ new = fs \o (<<Frame(ACK, <<>>)>> \o <<>>)
  PROVE  \A r : Silent(fs, new, r)
<1> DEFINE fr == Confirms(m)
           ack == Frame(ACK, <<>>)
           mid == Append(fs, ack)
<1>1. fr \in Frames /\ IsQuestion(fr) /\ ack \in Frames /\ ack.type = ACK
  BY FramesAre, Zenon
<1>2. new = Append(fs, fr) \/ new = Append(mid, fr) \/ new = mid
  <2> HIDE DEF fr, ack
  <2>1. /\ fs \o <<fr>> = Append(fs, fr) /\ fs \o (<<ack>> \o <<fr>>) = Append(Append(fs, ack), fr)
        /\ fs \o (<<ack>> \o <<>>) = Append(fs, ack)
    BY <1>1
  <2> QED BY <2>1, Zenon DEF fr, ack
<1> HIDE DEF fr, ack
<1>3. mid \in Seq(Frames)
  BY <1>1
<1>4. \A r : Silent(fs, mid, r)
  BY <1>1, OthersTellNothing, TellAppend
<1> HIDE DEF mid
<1>5. ASSUME NEW gs \in Seq(Frames) PROVE \A r : Silent(gs, Append(gs, fr), r)
  BY <1>1, <1>5, OthersTellNothing, TellAppend
<1>6. CASE new = Append(fs, fr)
  BY <1>5, <1>6
<1>7. CASE new = Append(mid, fr)
  <2>1. \A r : Silent(mid, new, r)
    BY <1>3, <1>5, <1>7
  <2> QED BY <1>4, <2>1, Zenon DEF Silent
<1>8. CASE new = mid
  BY <1>4, <1>8
<1> QED BY <1>2, <1>6, <1>7, <1>8

\* After a step that says nothing new of s, what kept its copy right still does.
LEMMA SilentTold ==
  ASSUME NEW s \in Names, ToldOn(s), up' => up, Silent(inAir, inAir', s),
         LastTells(inAir', s, headset) => LastTells(inAir', s, headset'),
         up => (s \in unsure \/ Agrees(s, state, headset) \/ Underway(queue, taken, s, state)
                => s \in unsure' \/ Agrees(s, state', headset') \/ Underway(queue', taken', s, state'))
  PROVE  ToldOn(s)'
<1>1. LastTells(inAir', s, headset')
  BY Zenon DEF ToldOn, Silent
<1>2. up' /\ Untold(inAir', s) => s \in unsure' \/ Agrees(s, state', headset') \/ Underway(queue', taken', s, state')
  BY Zenon DEF ToldOn, Silent
<1> QED BY <1>1, <1>2, Zenon DEF ToldOn

\* After a report on s what is still to come is how s stands.
LEMMA SpokenTold ==
  ASSUME NEW s, Spoken(inAir', s, headset')
  PROVE  ToldOn(s)'
BY Zenon DEF ToldOn, Spoken

\* The copy owes nothing before there is a link.
LEMMA InitTold == ASSUME Init PROVE ToldInv
<1>1. up = FALSE /\ inAir = <<>>
  BY Zenon DEF Init
<1>2. \A s, h : LastTells(<<>>, s, h)
  BY DEF LastTells
<1> QED BY <1>1, <1>2, Zenon DEF ToldInv, ToldOn

\* With a new link everything is asked for.
LEMMA LinkUpTold ==
  ASSUME Kept, LinkUp
  PROVE  ToldInv'
<1>1. /\ up = FALSE /\ queue' = Handshake /\ UNCHANGED <<inAir, taken>>
  BY Zenon DEF LinkUp, headsetVars, Kept, TypesInv, LinkInv
<1>2. inAir = <<>> /\ taken = FALSE
  BY <1>1, Zenon DEF Kept, TypesInv, LinkInv
<1>3. \A s, h : LastTells(<<>>, s, h)
  BY DEF LastTells
<1>4. ASSUME NEW s \in Names
      PROVE  ToldOn(s)'
  <2>1. Holding(Handshake, Query(s))
    BY HandshakeAsks
  <2>2. PICK j \in 1 .. Len(Handshake) : Handshake[j] = Query(s)
    BY <2>1, Zenon DEF Holding
  <2>3. ~(j = 1 /\ FALSE) /\ Wants(Handshake[j], s, state')
    BY <2>2, Zenon DEF Wants
  <2>4. Underway(Handshake, FALSE, s, state')
    BY <2>3, Zenon DEF Underway
  <2>5. queue' = Handshake /\ taken' = FALSE /\ inAir' = <<>>
    BY <1>1, <1>2
  <2>6. Underway(queue', taken', s, state')
    BY <2>4, <2>5, Zenon
  <2>7. LastTells(inAir', s, headset')
    BY <1>3, <2>5, Zenon
  <2> QED BY <2>6, <2>7, Zenon DEF ToldOn
<1> QED BY <1>4, Zenon DEF ToldInv

\* Without a link nothing is told, and nothing is owed.
LEMMA LinkDownTold ==
  ASSUME LinkDown
  PROVE  ToldInv'
<1>1. up' = FALSE /\ inAir' = <<>>
  BY Zenon DEF LinkDown
<1>2. \A s, h : LastTells(<<>>, s, h)
  BY DEF LastTells
<1>3. \A s : LastTells(inAir', s, headset')
  BY <1>1, <1>2, Zenon
<1> QED BY <1>1, <1>3, Zenon DEF ToldInv, ToldOn

\* What waits still waits behind what a verb adds, unless it goes by its name;
\* and what the verb adds is not at the headset.
LEMMA AddedStays ==
  ASSUME NEW q \in Seq(Items), NEW item \in Items, NEW r, Added(q, item, r)
  PROVE  /\ \A i \in 1 .. Len(q) : q[i].what # item.what => i \in 1 .. Len(r) /\ r[i] = q[i]
         /\ \E p \in 1 .. Len(r) : r[p] = item /\ (p = 1 => q = <<>>)
<1>0. Len(q) \in Nat /\ (Len(q) + 1 = 1 => q = <<>>)
  OBVIOUS
<1>1. ASSUME NEW w \in Seq(Queries), r = Append(q, item) \o w
      PROVE  /\ \A i \in 1 .. Len(q) : i \in 1 .. Len(r) /\ r[i] = q[i]
             /\ Len(q) + 1 \in 1 .. Len(r) /\ r[Len(q) + 1] = item
  <2>1. w \in Seq(Items)
    BY QueriesAreItems
  <2>2. Len(w) \in Nat /\ Len(r) = Len(q) + 1 + Len(w)
    BY <1>1, <2>1
  <2>3. \A i \in 1 .. Len(q) : r[i] = q[i]
    BY <1>1, <2>1
  <2>4. r[Len(q) + 1] = item
    BY <1>1, <2>1
  <2> QED BY <1>0, <2>2, <2>3, <2>4
<1>2. CASE r = Append(q, item)
  <2>1. Len(r) = Len(q) + 1 /\ r[Len(q) + 1] = item /\ \A i \in 1 .. Len(q) : r[i] = q[i]
    BY <1>2
  <2>2. Len(q) + 1 \in 1 .. Len(r) /\ \A i \in 1 .. Len(q) : i \in 1 .. Len(r)
    BY <1>0, <2>1
  <2> QED BY <1>0, <2>1, <2>2, Zenon
<1>3. ASSUME NEW k \in 2 .. Len(q), q[k].what = item.what, r = [q EXCEPT ![k] = item]
      PROVE  /\ \A i \in 1 .. Len(q) : q[i].what # item.what => i \in 1 .. Len(r) /\ r[i] = q[i]
             /\ \E p \in 1 .. Len(r) : r[p] = item /\ (p = 1 => q = <<>>)
  <2>1. Len(r) = Len(q) /\ k \in 1 .. Len(q) /\ k # 1
    BY <1>0, <1>3
  <2>2. \A i \in 1 .. Len(q) : r[i] = IF i = k THEN item ELSE q[i]
    BY <1>3
  <2>3. \A i \in 1 .. Len(q) : q[i].what # item.what => r[i] = q[i]
    BY <1>3, <2>2, Zenon
  <2>4. r[k] = item
    BY <2>1, <2>2, Zenon
  <2> QED BY <2>1, <2>3, <2>4, Zenon
<1>4. ASSUME NEW w \in Seq(Queries), r = Append(q, item) \o w
      PROVE  /\ \A i \in 1 .. Len(q) : q[i].what # item.what => i \in 1 .. Len(r) /\ r[i] = q[i]
             /\ \E p \in 1 .. Len(r) : r[p] = item /\ (p = 1 => q = <<>>)
  BY <1>0, <1>1, <1>4, Zenon
<1> QED BY <1>2, <1>3, <1>4, Zenon DEF Added, Coalesced

\* A verb keeps it: its command joins the queue behind what would undo it, or
\* takes the place of an older one about the same.
LEMMA WishTold ==
  ASSUME Kept, ToldInv, NEW r, NEW item, Wished(r, item)
  PROVE  ToldInv'
<1>1. /\ r \in Names /\ item \in Items /\ UNCHANGED <<up, headset, taken, inAir, unsure>>
      /\ IF up THEN Added(queue, item, queue') ELSE queue' = queue
      /\ SameBut(r, state, state') /\ Agreeing(item, r, state')
  BY Zenon DEF Wished, headsetVars
<1>2. queue \in Seq(Items) /\ (taken => queue # <<>>)
  BY Zenon DEF Kept, TypesInv, QueueInv
<1>3. (r = "noise" /\ item.what \in NoiseNames) \/ (r \in Settings /\ item.what = r)
  BY <1>1, AgreeingWhat
<1>4. ASSUME NEW s \in Names
      PROVE  ToldOn(s)'
  <2>1. ToldOn(s) /\ Silent(inAir, inAir', s) /\ (LastTells(inAir', s, headset) => LastTells(inAir', s, headset'))
    BY <1>1, Zenon DEF ToldInv, Silent
  <2>2. ASSUME up, s = r
        PROVE  Underway(queue', taken', s, state')
    <3>1. PICK p \in 1 .. Len(queue') : queue'[p] = item /\ (p = 1 => queue = <<>>)
      BY <1>1, <1>2, <2>2, AddedStays
    <3>2. ~(p = 1 /\ taken')
      BY <1>1, <1>2, <3>1, Zenon
    <3>3. Wants(queue'[p], s, state')
      BY <1>1, <2>2, <3>1, Zenon DEF Wants
    <3> QED BY <3>2, <3>3, Zenon DEF Underway
  <2>3. ASSUME up, s # r, Underway(queue, taken, s, state)
        PROVE  Underway(queue', taken', s, state')
    <3>1. PICK i \in 1 .. Len(queue) : ~(i = 1 /\ taken) /\ Wants(queue[i], s, state)
      BY <2>3, Zenon DEF Underway
    <3>2. \/ queue[i].what = "query" \/ (s = "noise" /\ queue[i].what \in NoiseNames)
          \/ (s \in Settings /\ queue[i].what = s)
      BY <3>1, WantsAbout
    <3>3. queue[i].what # item.what
      BY <1>3, <2>3, <3>2, WhatsDiffer, Zenon
    <3>4. i \in 1 .. Len(queue') /\ queue'[i] = queue[i]
      BY <1>1, <1>2, <2>3, <3>3, AddedStays
    <3>5. Wants(queue[i], s, state')
      BY <1>1, <2>3, <3>1, AgreesStill, Zenon
    <3>6. ~(i = 1 /\ taken') /\ Wants(queue'[i], s, state')
      BY <1>1, <3>1, <3>4, <3>5, Zenon
    <3> QED BY <3>4, <3>6, Zenon DEF Underway
  <2>4. ASSUME s # r, Agrees(s, state, headset)
        PROVE  Agrees(s, state', headset')
    <3>1. Agrees(s, state', headset)
      BY <1>1, <2>4, AgreesStill, Zenon
    <3> QED BY <1>1, <3>1, Zenon
  <2>5. up => (s \in unsure \/ Agrees(s, state, headset) \/ Underway(queue, taken, s, state)
                => s \in unsure' \/ Agrees(s, state', headset') \/ Underway(queue', taken', s, state'))
    BY <1>1, <2>2, <2>3, <2>4, Zenon
  <2>6. up' => up
    BY <1>1, Zenon
  <2> QED BY <2>1, <2>5, <2>6, SilentTold
<1> QED BY <1>4, Zenon DEF ToldInv

\* The first command is the headset's: what waited for it must have come true.
LEMMA HeadTold ==
  ASSUME Kept, ToldInv, Take, NEW s \in Names, Silent(inAir, inAir', s),
         LastTells(inAir', s, headset) => LastTells(inAir', s, headset'),
         Agrees(s, state, headset) => Agrees(s, state, headset'),
         s \in unsure => s \in unsure',
         Wants(Head(queue), s, state) => s \in unsure' \/ Agrees(s, state, headset')
  PROVE  ToldOn(s)'
<1>1. TypesInv
  BY Zenon DEF Kept
<1>2. /\ queue # <<>> /\ taken = FALSE /\ taken' = TRUE /\ UNCHANGED <<up, state, queue>>
  BY <1>1, TakeIs, Zenon DEF daemonVars
<1>3. Head(queue) = queue[1]
  <2>1. queue \in Seq(Items)
    BY <1>1, Zenon DEF TypesInv, QueueInv
  <2> QED BY <1>2, <2>1
<1>4. ASSUME Underway(queue, taken, s, state)
      PROVE  s \in unsure' \/ Agrees(s, state', headset') \/ Underway(queue', taken', s, state')
  <2>1. PICK i \in 1 .. Len(queue) : Wants(queue[i], s, state)
    BY <1>4, Zenon DEF Underway
  <2>2. CASE i = 1
    <3>1. Wants(Head(queue), s, state)
      BY <1>3, <2>1, <2>2, Zenon
    <3> QED BY <1>2, <3>1, Zenon
  <2>3. CASE i # 1
    <3>1. Underway(queue, taken', s, state)
      BY <2>1, <2>3, Zenon DEF Underway
    <3> QED BY <1>2, <3>1, Zenon
  <2> QED BY <2>2, <2>3
<1>5. Agrees(s, state, headset) => Agrees(s, state', headset')
  BY <1>2, Zenon
<1>6. up => (s \in unsure \/ Agrees(s, state, headset) \/ Underway(queue, taken, s, state)
              => s \in unsure' \/ Agrees(s, state', headset') \/ Underway(queue', taken', s, state'))
  BY <1>4, <1>5, Zenon
<1>7. ToldOn(s) /\ (up' => up)
  BY <1>2, Zenon DEF ToldInv
<1> QED BY <1>6, <1>7, SilentTold

\* A change the headset makes keeps it, by its report or by making no
\* difference.
LEMMA ChangesTold ==
  ASSUME Kept, ToldInv, Take, NEW s \in Names, NEW h, IsHeadset(h), HeldBut(s, headset, h), Changes(s, h),
         About(Head(queue)) \subseteq {s},
         h = headset /\ Wants(Head(queue), s, state) => Agrees(s, state, headset)
  PROVE  ToldInv'
<1>1. inAir \in Seq(Frames)
  BY Zenon DEF Kept, TypesInv, StreamInv, StreamOf
<1>2. \A r \in Names : Wants(Head(queue), r, state) => r = s
  <2>1. \A r \in Names : Wants(Head(queue), r, state) => r \in About(Head(queue))
    BY WantsAbout, Zenon
  <2> QED BY <2>1
<1>3. CASE h = headset
  <2>1. headset' = headset /\ unsure' = unsure /\ Answers(<<>>)
    BY <1>3, Zenon DEF Changes
  <2>2. inAir' = inAir \o (<<Frame(ACK, <<>>)>> \o <<>>)
    BY <2>1, Zenon DEF Answers, Puts
  <2>3. \A r : Silent(inAir, inAir', r)
    BY <1>1, <2>2, OthersSilent
  <2>4. ASSUME NEW r \in Names PROVE ToldOn(r)'
    <3>1. Wants(Head(queue), r, state) => Agrees(r, state, headset)
      BY <1>2, <1>3
    <3>2. /\ LastTells(inAir', r, headset) => LastTells(inAir', r, headset')
          /\ Agrees(r, state, headset) => Agrees(r, state, headset')
          /\ r \in unsure => r \in unsure'
          /\ Wants(Head(queue), r, state) => r \in unsure' \/ Agrees(r, state, headset')
      BY <2>1, <3>1, Zenon
    <3> QED BY <2>3, <3>2, HeadTold
  <2> QED BY <2>4, Zenon DEF ToldInv
<1>4. CASE h # headset
  <2>1. headset' = h /\ unsure' = unsure \ {s} /\ Answers(<<Report(s, h, Ntfy(s))>>)
    BY <1>4, Zenon DEF Changes
  <2>2. inAir' = inAir \o (<<Frame(ACK, <<>>)>> \o <<Report(s, h, Ntfy(s))>>)
    BY <2>1, Zenon DEF Answers, Puts
  <2>3. Spoken(inAir', s, h) /\ \A r \in Names \ {s} : Silent(inAir, inAir', r)
    <3>1. Ntfy(s) \in Firsts(s)
      BY DEF Firsts
    <3> QED BY <1>1, <2>2, <3>1, ReportSpeaks
  <2>4. ToldOn(s)'
    <3>1. Spoken(inAir', s, headset')
      BY <2>1, <2>3, Zenon
    <3> QED BY <3>1, SpokenTold
  <2>5. ASSUME NEW r \in Names \ {s} PROVE ToldOn(r)'
    <3>1. /\ LastTells(inAir', r, headset) => LastTells(inAir', r, headset')
          /\ Agrees(r, state, headset) => Agrees(r, state, headset')
      BY <2>1, HeldStill, Zenon
    <3>2. /\ r \in unsure => r \in unsure'
          /\ Wants(Head(queue), r, state) => r \in unsure' \/ Agrees(r, state, headset')
      BY <1>2, <2>1
    <3> QED BY <2>3, <3>1, <3>2, HeadTold
  <2>6. \A r \in Names : r = s \/ r \in Names \ {s}
    OBVIOUS
  <2> QED BY <2>4, <2>5, <2>6, Zenon DEF ToldInv
<1> QED BY <1>3, <1>4

\* The headset's answer keeps it: the command that is used up has made the copy
\* true, or is reported on, or unsure.
LEMMA TakeTold ==
  ASSUME Kept, ToldInv, Take
  PROVE  ToldInv'
<1> DEFINE item == Head(queue)
<1>1. /\ taken = FALSE /\ taken' = TRUE
      /\ TakesQuery(item) \/ TakesNoise(item) \/ TakesSetting(item) \/ TakesAlert(item)
  BY TakeIs, Zenon DEF Kept
<1>2. inAir \in Seq(Frames) /\ IsHeadset(headset)
  BY Zenon DEF Kept, TypesInv, StreamInv, StreamOf, HeadsetInv
<1>3. Names = Settings \cup {"noise", "battery_level"}
  BY SettingsAre, Zenon
<1> HIDE DEF item
<1>4. \A r \in Names : Wants(item, r, state) => r \in About(item)
  BY WantsAbout, Zenon
<1>5. CASE TakesQuery(item)
  <2>1. PICK s \in Names : /\ item = Query(s) /\ Answers(<<Report(s, headset, Ret(s))>>)
                           /\ unsure' = unsure \ {s} /\ UNCHANGED headset
    BY <1>5, Zenon DEF TakesQuery
  <2>2. About(item) = {s}
    BY <2>1, AboutOne, Zenon
  <2>3. inAir' = inAir \o (<<Frame(ACK, <<>>)>> \o <<Report(s, headset, Ret(s))>>)
    BY <2>1, Zenon DEF Answers, Puts
  <2>4. Spoken(inAir', s, headset) /\ \A r \in Names \ {s} : Silent(inAir, inAir', r)
    <3>1. Ret(s) \in Firsts(s)
      BY DEF Firsts
    <3> QED BY <1>2, <2>3, <3>1, ReportSpeaks
  <2>5. ToldOn(s)'
    <3>1. Spoken(inAir', s, headset')
      BY <2>1, <2>4, Zenon
    <3> QED BY <3>1, SpokenTold
  <2>6. ASSUME NEW r \in Names \ {s} PROVE ToldOn(r)'
    <3>1. ~Wants(item, r, state) /\ (r \in unsure => r \in unsure')
      BY <1>4, <2>1, <2>2
    <3>2. /\ LastTells(inAir', r, headset) => LastTells(inAir', r, headset')
          /\ Agrees(r, state, headset) => Agrees(r, state, headset')
          /\ Wants(item, r, state) => r \in unsure' \/ Agrees(r, state, headset')
      BY <2>1, <3>1, Zenon
    <3> QED BY <2>4, <3>1, <3>2, HeadTold DEF item
  <2>7. \A r \in Names : r = s \/ r \in Names \ {s}
    OBVIOUS
  <2> QED BY <2>5, <2>6, <2>7, Zenon DEF ToldInv
<1>6. CASE TakesNoise(item)
  <2>1. PICK w \in NoiseNames, on \in BOOLEAN, step \in 0 .. MaxAmbientStep, focus \in BOOLEAN : \E h :
          /\ item = NoiseItem(w, on, step, focus)
          /\ IsHeadset(h) /\ HeldBut("noise", headset, h) /\ NoiseHeld(h, on, step, focus)
          /\ Changes("noise", h)
    BY <1>6, Zenon DEF TakesNoise
  <2>2. PICK h : /\ item = NoiseItem(w, on, step, focus)
                 /\ IsHeadset(h) /\ HeldBut("noise", headset, h) /\ NoiseHeld(h, on, step, focus)
                 /\ Changes("noise", h)
    BY <2>1, Zenon
  <2>3. About(item) = {"noise"} /\ item.what = w /\ NoiseBytes(item.payload, on, step, focus)
    <3>1. About(NoiseItem(w, on, step, focus)) = {"noise"}
      BY AboutOne, Zenon
    <3>2. /\ NoiseItem(w, on, step, focus).what = w
          /\ NoiseBytes(NoiseItem(w, on, step, focus).payload, on, step, focus)
      BY NoiseMeant, Zenon
    <3> QED BY <2>2, <3>1, <3>2, Zenon
  <2>4. ASSUME h = headset, Wants(item, "noise", state)
        PROVE  Agrees("noise", state, headset)
    <3>1. item # Query("noise")
      <4>1. Query("noise").what = "query"
        BY <1>3, QueryMeant, Zenon
      <4> QED BY <2>3, <4>1, WhatsDiffer, Zenon
    <3>2. \E x \in NoiseNames : \E on2 \in BOOLEAN, step2 \in 0 .. MaxAmbientStep, focus2 \in BOOLEAN :
            item = NoiseItem(x, on2, step2, focus2) /\ NoiseWish(state, on2, step2, focus2)
      BY <2>4, <3>1, WhatsDiffer, Zenon DEF Wants, Agreeing
    <3>3. PICK x \in NoiseNames, on2 \in BOOLEAN, step2 \in 0 .. MaxAmbientStep, focus2 \in BOOLEAN :
            item = NoiseItem(x, on2, step2, focus2) /\ NoiseWish(state, on2, step2, focus2)
      BY <3>2, Zenon
    <3>4. NoiseBytes(item.payload, on2, step2, focus2)
      <4>1. NoiseBytes(NoiseItem(x, on2, step2, focus2).payload, on2, step2, focus2)
        BY NoiseSays, Zenon
      <4> QED BY <3>3, <4>1, Zenon
    <3>5. /\ on2 = on /\ (on => step2 = step) /\ (on /\ step >= MinAmbientStep => focus2 = focus)
      <4> DEFINE p == item.payload
      <4>1. NoiseBytes(p, on, step, focus) /\ NoiseBytes(p, on2, step2, focus2)
        BY <2>3, <3>4, Zenon
      <4> HIDE DEF p
      <4>2. (IF on THEN 17 ELSE 0) = (IF on2 THEN 17 ELSE 0)
        BY <4>1 DEF NoiseBytes
      <4>3. on2 = on
        BY <4>2
      <4>4. (IF on THEN step ELSE 255) = (IF on2 THEN step2 ELSE 255)
        BY <4>1 DEF NoiseBytes, LevelDisabled
      <4>5. on => step2 = step
        BY <4>3, <4>4
      <4>6. Bit(on /\ focus /\ step >= MinAmbientStep) = Bit(on2 /\ focus2 /\ step2 >= MinAmbientStep)
        BY <4>1 DEF NoiseBytes
      <4>7. on /\ step >= MinAmbientStep => Bit(focus) = Bit(focus2)
        BY <4>3, <4>5, <4>6 DEF Bit
      <4>8. Bit(focus) = Bit(focus2) => focus2 = focus
        BY DEF Bit
      <4> QED BY <4>3, <4>5, <4>7, <4>8, Zenon
    <3>6. NoiseHeld(headset, on, step, focus)
      BY <2>2, <2>4, Zenon
    <3>7. NoiseWish(state, on2, step2, focus2)
      BY <3>3, Zenon
    <3>8. headset.on = on /\ (state.noise_mode = "off") = ~on2
      BY <3>6, <3>7, Zenon DEF NoiseHeld, NoiseWish
    <3>9. (state.noise_mode = "off") = ~headset.on
      BY <3>5, <3>8, Zenon
    <3>10. ASSUME headset.on
           PROVE  /\ state.ambient_sound_level = headset.step
                  /\ headset.step >= MinAmbientStep => state.voice_passthrough = headset.focus
      <4>1. on /\ on2 /\ step2 = step
        BY <3>5, <3>8, <3>10, Zenon
      <4>2. /\ headset.step = step /\ (step >= MinAmbientStep => headset.focus = focus)
        BY <3>6, <4>1, Zenon DEF NoiseHeld
      <4>3. /\ state.ambient_sound_level = step2 /\ (step2 >= MinAmbientStep => state.voice_passthrough = focus2)
        BY <3>7, <4>1, Zenon DEF NoiseWish
      <4> QED BY <3>5, <4>1, <4>2, <4>3, Zenon
    <3> QED BY <3>9, <3>10, Zenon DEF Agrees
  <2>5. About(Head(queue)) \subseteq {"noise"} /\ "noise" \in Names
    BY <1>3, <2>3 DEF item
  <2>6. h = headset /\ Wants(Head(queue), "noise", state) => Agrees("noise", state, headset)
    BY <2>4, Zenon DEF item
  <2> QED BY <2>2, <2>5, <2>6, ChangesTold
<1>7. ASSUME NEW s \in Settings, NEW v \in Values[s], CarriesOut(s, v), item = SetItem(s, v) \/ About(item) = {}
      PROVE  ToldInv'
  <2>1. PICK h : IsHeadset(h) /\ HeldBut(s, headset, h) /\ h[s] = v /\ Changes(s, h)
    BY <1>7, Zenon DEF CarriesOut
  <2>2. About(SetItem(s, v)) = {s}
    BY AboutOne, Zenon
  <2>3. About(item) \subseteq {s}
    BY <1>7, <2>2
  <2>4. ASSUME h = headset, Wants(item, s, state)
        PROVE  Agrees(s, state, headset)
    <3>1. s \in Names /\ s # "noise" /\ s \in DOMAIN Values
      BY SettingsAre
    <3>2. item = SetItem(s, v)
      BY <1>4, <1>7, <2>4, <3>1
    <3>3. item # Query(s)
      <4>1. Query(s).what = "query" /\ SetItem(s, v).what = s
        BY <3>1, QueryMeant, SettingMeant, Zenon
      <4> QED BY <3>2, <4>1, WhatsDiffer, Zenon
    <3>4. state[s] \in Values[s] /\ item = SetItem(s, state[s])
      BY <2>4, <3>1, <3>3, Zenon DEF Wants, Agreeing
    <3>5. SerializeSet(s, v) = SerializeSet(s, state[s])
      BY <3>2, <3>4 DEF SetItem, Item
    <3>6. v = state[s]
      BY <3>1, <3>5, SetOnce
    <3> QED BY <2>1, <2>4, <3>1, <3>6, Zenon DEF Agrees
  <2>5. About(Head(queue)) \subseteq {s} /\ s \in Names
    BY <1>3, <2>3 DEF item
  <2>6. h = headset /\ Wants(Head(queue), s, state) => Agrees(s, state, headset)
    BY <2>4, Zenon DEF item
  <2> QED BY <2>1, <2>5, <2>6, ChangesTold
<1>8. ASSUME UNCHANGED headset, \A r : Silent(inAir, inAir', r), unsure \subseteq unsure', About(item) \subseteq unsure'
      PROVE  ToldInv'
  <2>1. ASSUME NEW r \in Names PROVE ToldOn(r)'
    <3>1. (r \in unsure => r \in unsure') /\ (Wants(item, r, state) => r \in unsure')
      BY <1>4, <1>8
    <3>2. /\ LastTells(inAir', r, headset) => LastTells(inAir', r, headset')
          /\ Agrees(r, state, headset) => Agrees(r, state, headset')
      BY <1>8, Zenon
    <3> QED BY <1>8, <3>1, <3>2, HeadTold DEF item
  <2> QED BY <2>1, Zenon DEF ToldInv
<1>9. CASE TakesSetting(item)
  <2>0. PICK s \in Settings : \E v \in Values[s] :
          item = SetItem(s, v) /\ (Declines(s) \/ AsksFirst(s) \/ CarriesOut(s, v))
    BY <1>9, Zenon DEF TakesSetting
  <2>1. PICK v \in Values[s] : item = SetItem(s, v) /\ (Declines(s) \/ AsksFirst(s) \/ CarriesOut(s, v))
    BY <2>0, Zenon
  <2>2. CASE CarriesOut(s, v)
    BY <1>7, <2>1, <2>2
  <2>3. ASSUME NEW m \in {ConnectionModeChange, KeyAssignChange}, Answers(<<Confirms(m)>>),
               unsure' = unsure \cup {s}, UNCHANGED headset
        PROVE  ToldInv'
    <3>1. inAir' = inAir \o (<<Frame(ACK, <<>>)>> \o <<Confirms(m)>>)
      BY <2>3, Zenon DEF Answers, Puts
    <3>2. \A r : Silent(inAir, inAir', r)
      BY <1>2, <3>1, OthersSilent
    <3>3. About(item) = {s}
      BY <2>1, AboutOne, Zenon
    <3>4. unsure \subseteq unsure' /\ About(item) \subseteq unsure'
      BY <2>3, <3>3
    <3> QED BY <1>8, <2>3, <3>2, <3>4
  <2>4. CASE Declines(s)
    BY <2>3, <2>4, Zenon DEF Declines
  <2>5. CASE AsksFirst(s)
    BY <2>3, <2>5, Zenon DEF AsksFirst
  <2> QED BY <2>1, <2>2, <2>4, <2>5
<1>10. CASE TakesAlert(item)
  <2>1. About(item) = {}
    BY <1>10, AboutOne, Zenon DEF TakesAlert
  <2>2. CASE UNCHANGED <<headset, unsure>> /\ Answers(<<>>)
    <3>1. inAir' = inAir \o (<<Frame(ACK, <<>>)>> \o <<>>)
      BY <2>2, Zenon DEF Answers, Puts
    <3>2. \A r : Silent(inAir, inAir', r)
      BY <1>2, <3>1, OthersSilent
    <3>3. unsure \subseteq unsure' /\ About(item) \subseteq unsure'
      BY <2>1, <2>2
    <3> QED BY <1>8, <2>2, <3>2, <3>3
  <2>3. CASE "nc_button" \in Settings /\ \E v \in Values["nc_button"] : CarriesOut("nc_button", v)
    BY <1>7, <2>1, <2>3, Zenon
  <2> QED BY <1>10, <2>2, <2>3, Zenon DEF TakesAlert
<1> QED BY <1>1, <1>5, <1>6, <1>9, <1>10, Zenon

\* The first command has left the queue; s did not wait for it, or is unsure.
LEMMA TailTold ==
  ASSUME NEW q \in Seq(Items), q # <<>>, NEW t, NEW s, NEW st, Underway(q, t, s, st)
  PROVE  Underway(Tail(q), FALSE, s, st) \/ (~t /\ Wants(Head(q), s, st))
<1>1. /\ Len(q) \in Nat \ {0} /\ Len(Tail(q)) = Len(q) - 1 /\ \A i \in 1 .. Len(q) - 1 : Tail(q)[i] = q[i + 1]
      /\ Head(q) = q[1]
  OBVIOUS
<1>2. PICK i \in 1 .. Len(q) : ~(i = 1 /\ t) /\ Wants(q[i], s, st)
  BY Zenon DEF Underway
<1>3. CASE i = 1
  BY <1>1, <1>2, <1>3, Zenon
<1>4. CASE i # 1
  <2>1. i - 1 \in 1 .. Len(Tail(q)) /\ Tail(q)[i - 1] = q[i]
    BY <1>1, <1>4
  <2>2. Wants(Tail(q)[i - 1], s, st)
    BY <1>2, <2>1, Zenon
  <2> QED BY <2>1, <2>2, Zenon DEF Underway
<1> QED BY <1>3, <1>4

\* A command given up leaves what it was about unsure.
LEMMA GiveUpTold ==
  ASSUME Kept, ToldInv, GiveUp
  PROVE  ToldInv'
<1>1. /\ queue # <<>> /\ taken = FALSE /\ queue' = Tail(queue) /\ UNCHANGED <<up, state, headset, taken, inAir>>
      /\ unsure' = unsure \cup About(Head(queue))
  BY Zenon DEF GiveUp, headsetVars, Kept, TypesInv, QueueInv
<1>2. queue \in Seq(Items)
  BY Zenon DEF Kept, TypesInv, QueueInv
<1>3. ASSUME NEW s \in Names
      PROVE  ToldOn(s)'
  <2>1. ToldOn(s) /\ (up' => up) /\ Silent(inAir, inAir', s)
        /\ (LastTells(inAir', s, headset) => LastTells(inAir', s, headset'))
    BY <1>1, Zenon DEF ToldInv, Silent
  <2>2. ASSUME Underway(queue, taken, s, state)
        PROVE  s \in unsure' \/ Underway(queue', taken', s, state')
    <3>1. Underway(Tail(queue), FALSE, s, state) \/ Wants(Head(queue), s, state)
      BY <1>1, <1>2, <2>2, TailTold, Zenon
    <3>2. CASE Wants(Head(queue), s, state)
      <4>1. s \in About(Head(queue))
        BY <3>2, WantsAbout, Zenon
      <4> QED BY <1>1, <4>1
    <3>3. CASE Underway(Tail(queue), FALSE, s, state)
      <4>1. queue' = Tail(queue) /\ taken' = FALSE /\ state' = state
        BY <1>1
      <4> QED BY <3>3, <4>1, Zenon
    <3> QED BY <3>1, <3>2, <3>3
  <2>3. Agrees(s, state, headset) => Agrees(s, state', headset')
    BY <1>1, Zenon
  <2>4. s \in unsure => s \in unsure'
    BY <1>1
  <2>5. up => (s \in unsure \/ Agrees(s, state, headset) \/ Underway(queue, taken, s, state)
                => s \in unsure' \/ Agrees(s, state', headset') \/ Underway(queue', taken', s, state'))
    BY <2>2, <2>3, <2>4, Zenon
  <2> QED BY <2>1, <2>5, SilentTold
<1> QED BY <1>3, Zenon DEF ToldInv

\* What the headset changes of its own it reports.
LEMMA OwnTold ==
  ASSUME Kept, ToldInv, Own
  PROVE  ToldInv'
<1>1. IsHeadset(headset) /\ inAir \in Seq(Frames)
  BY Zenon DEF Kept, TypesInv, HeadsetInv, StreamInv, StreamOf
<1>2. CASE OwnQuestion
  <2>1. /\ inAir' = inAir \o <<Confirms(KeyAssignChange)>>
        /\ UNCHANGED <<up, state, queue, headset, taken, unsure>>
    BY <1>2, Zenon DEF OwnQuestion, Puts, daemonVars, ghostVars
  <2>2. \A r : Silent(inAir, inAir', r)
    BY <1>1, <2>1, OthersSilent
  <2>3. ASSUME NEW s \in Names PROVE ToldOn(s)'
    <3>1. /\ ToldOn(s) /\ (up' => up)
          /\ (LastTells(inAir', s, headset) => LastTells(inAir', s, headset'))
          /\ up => (s \in unsure \/ Agrees(s, state, headset) \/ Underway(queue, taken, s, state)
                     => s \in unsure' \/ Agrees(s, state', headset') \/ Underway(queue', taken', s, state'))
      BY <2>1, Zenon DEF ToldInv
    <3> QED BY <2>2, <3>1, SilentTold
  <2> QED BY <2>3, Zenon DEF ToldInv
<1>3. ASSUME NEW s \in Names, NEW h, IsHeadset(h), HeldBut(s, headset, h), OwnChange(s, h)
      PROVE  ToldInv'
  <2>1. /\ headset' = h /\ UNCHANGED <<up, state, queue, taken>>
        /\ IF up THEN Puts(<<Report(s, h, Ntfy(s))>>) /\ unsure' = unsure \ {s}
           ELSE UNCHANGED <<air, inAir, unsure>>
    BY <1>3, Zenon DEF OwnChange, daemonVars
  <2>2. CASE up
    <3>1. inAir' = inAir \o <<Report(s, h, Ntfy(s))>> /\ unsure' = unsure \ {s}
      BY <2>1, <2>2, Zenon DEF Puts
    <3>2. Spoken(inAir', s, h) /\ \A r \in Names \ {s} : Silent(inAir, inAir', r)
      <4>1. Ntfy(s) \in Firsts(s)
        BY DEF Firsts
      <4> QED BY <1>1, <1>3, <3>1, <4>1, ReportSpeaks
    <3>3. ToldOn(s)'
      <4>1. Spoken(inAir', s, headset')
        BY <2>1, <3>2, Zenon
      <4> QED BY <4>1, SpokenTold
    <3>4. ASSUME NEW r \in Names \ {s} PROVE ToldOn(r)'
      <4>1. /\ LastTells(inAir', r, headset) => LastTells(inAir', r, headset')
            /\ Agrees(r, state, headset) => Agrees(r, state', headset')
        BY <1>3, <2>1, HeldStill, Zenon
      <4>2. r \in unsure => r \in unsure'
        BY <3>1
      <4>3. Underway(queue, taken, r, state) => Underway(queue', taken', r, state')
        BY <2>1, Zenon
      <4>4. ToldOn(r) /\ (up' => up)
        BY <2>1, Zenon DEF ToldInv
      <4>5. up => (r \in unsure \/ Agrees(r, state, headset) \/ Underway(queue, taken, r, state)
                    => r \in unsure' \/ Agrees(r, state', headset') \/ Underway(queue', taken', r, state'))
        BY <4>1, <4>2, <4>3, Zenon
      <4> QED BY <3>2, <4>1, <4>4, <4>5, SilentTold
    <3>5. \A r \in Names : r = s \/ r \in Names \ {s}
      OBVIOUS
    <3> QED BY <3>3, <3>4, <3>5, Zenon DEF ToldInv
  <2>3. CASE ~up
    <3>1. ~up' /\ inAir' = <<>>
      BY <2>1, <2>3, Zenon DEF Kept, TypesInv, LinkInv
    <3>2. \A r : LastTells(<<>>, r, headset')
      BY DEF LastTells
    <3>3. \A r : LastTells(inAir', r, headset')
      BY <3>1, <3>2, Zenon
    <3> QED BY <3>1, <3>3, Zenon DEF ToldInv, ToldOn
  <2> QED BY <2>2, <2>3
<1> QED BY <1>1, <1>2, <1>3, OwnIs, Zenon

\* A frame keeps it: a report makes the copy true, or a later one will.
LEMMA FrameTold ==
  ASSUME Kept, ToldInv, HandleFrame
  PROVE  ToldInv'
<1> DEFINE fr == inAir[1]
<1>1. TypesInv /\ AcksInv
  BY Zenon DEF Kept
<1>2. /\ inAir # <<>> /\ fr \in Frames /\ inAir' = Tail(inAir)
      /\ UNCHANGED <<up, headset, unsure>>
      /\ Acknowledged(fr) \/ Asked(fr) \/ Reported(fr)
  BY <1>1, FrameHandled, Zenon
<1>3. /\ queue \in Seq(Items) /\ inAir \in Seq(Frames) /\ IsCopy(state) /\ taken \in BOOLEAN
      /\ (taken => queue # <<>>) /\ IsHeadset(headset)
  BY <1>1, Zenon DEF TypesInv, QueueInv, StreamInv, StreamOf, CopyInv, HeadsetInv
<1>4. ASSUME NEW s \in Names
      PROVE  /\ LastTells(inAir', s, headset')
             /\ ~Tells(fr, s) => Silent(<<>>, <<>>, s) /\ (Untold(inAir', s) => Untold(inAir, s))
             /\ Tells(fr, s) /\ Untold(inAir', s) => Fields(fr) = FieldsOf(s, headset)
  <2>1. LastTells(inAir, s, headset)
    BY Zenon DEF ToldInv, ToldOn
  <2>2. Silent(<<>>, <<>>, s)
    BY Zenon DEF Silent
  <2>3. /\ LastTells(inAir', s, headset)
        /\ ~Tells(fr, s) => (Untold(inAir', s) => Untold(inAir, s))
        /\ Tells(fr, s) /\ Untold(inAir', s) => Fields(fr) = FieldsOf(s, headset)
    BY <1>2, <1>3, <2>1, TellTail
  <2> QED BY <1>2, <2>2, <2>3, Zenon
<1>5. ASSUME NEW s \in Names, ~Tells(fr, s),
             up => (s \in unsure \/ Agrees(s, state, headset) \/ Underway(queue, taken, s, state)
                     => s \in unsure \/ Agrees(s, state', headset) \/ Underway(queue', taken', s, state'))
      PROVE  ToldOn(s)'
  <2>1. LastTells(inAir', s, headset') /\ (Untold(inAir', s) => Untold(inAir, s))
    BY <1>4, <1>5, Zenon
  <2>2. ToldOn(s)
    BY Zenon DEF ToldInv
  <2>3. up' /\ Untold(inAir', s) => s \in unsure' \/ Agrees(s, state', headset') \/ Underway(queue', taken', s, state')
    BY <1>2, <1>5, <2>1, <2>2, Zenon DEF ToldOn
  <2> QED BY <2>1, <2>3, Zenon DEF ToldOn
<1>6. CASE Acknowledged(fr)
  <2>1. fr.type = ACK /\ queue' = Tail(queue) /\ taken' = FALSE /\ state' = state
    BY <1>6, Zenon DEF Acknowledged
  <2>2. taken = TRUE
    <3>1. 1 \in 1 .. Len(inAir)
      BY <1>2, <1>3
    <3> QED BY <1>1, <1>3, <2>1, <3>1, Zenon DEF AcksInv, AckedOnce
  <2>3. ASSUME NEW s \in Names PROVE ToldOn(s)'
    <3>1. ~Tells(fr, s)
      BY <2>1, OthersTellNothing
    <3>2. Underway(queue, taken, s, state) => Underway(Tail(queue), FALSE, s, state)
      BY <1>3, <2>2, TailTold, Zenon
    <3>3. Underway(queue, taken, s, state) => Underway(queue', taken', s, state')
      BY <2>1, <3>2, Zenon
    <3>4. Agrees(s, state, headset) => Agrees(s, state', headset)
      BY <2>1, Zenon
    <3> QED BY <1>5, <3>1, <3>3, <3>4, Zenon
  <2> QED BY <2>3, Zenon DEF ToldInv
<1>7. CASE Asked(fr)
  <2>1. PICK yes \in BOOLEAN : queue' = Append(queue, AlertItem(fr.payload[3], yes))
    BY <1>7, Zenon DEF Asked
  <2>2. IsQuestion(fr) /\ UNCHANGED <<state, taken>>
    BY <1>7, Zenon DEF Asked
  <2>3. \A i \in 1 .. Len(queue) : i \in 1 .. Len(queue') /\ queue'[i] = queue[i]
    BY <1>3, <2>1
  <2>4. ASSUME NEW s \in Names PROVE ToldOn(s)'
    <3>1. ~Tells(fr, s)
      BY <2>2, OthersTellNothing
    <3>2. Underway(queue, taken, s, state) => Underway(queue', taken, s, state)
      BY <2>3, Zenon DEF Underway
    <3>3. Underway(queue, taken, s, state) => Underway(queue', taken', s, state')
      BY <2>2, <3>2, Zenon
    <3>4. Agrees(s, state, headset) => Agrees(s, state', headset)
      BY <2>2, Zenon
    <3> QED BY <1>5, <3>1, <3>3, <3>4, Zenon
  <2> QED BY <2>4, Zenon DEF ToldInv
<1>8. CASE Reported(fr)
  <2>1. UNCHANGED <<queue, taken>>
    BY <1>8, Zenon DEF Reported
  <2>2. PICK r \in Names : \E h : IsHeadset(h) /\ Says(fr, FieldsOf(r, h)) /\ state' = ToldOf(state, r, h)
    BY <1>8, Zenon DEF Reported
  <2>3. PICK h : IsHeadset(h) /\ Says(fr, FieldsOf(r, h)) /\ state' = ToldOf(state, r, h)
    BY <2>2, Zenon
  <2>4. \A s \in Names : Tells(fr, s) <=> s = r
    BY <2>3, TellsOne
  <2>5. Fields(fr) = FieldsOf(r, h)
    BY <2>3, Zenon DEF Says
  <2>6. ToldOn(r)'
    <3>1. LastTells(inAir', r, headset')
      BY <1>4, Zenon
    <3>2. ASSUME Untold(inAir', r)
          PROVE  Agrees(r, state', headset')
      <4>1. FieldsOf(r, h) = FieldsOf(r, headset)
        BY <1>4, <2>4, <2>5, <3>2, Zenon
      <4>2. state' = ToldOf(state, r, headset)
        BY <2>3, <4>1, Zenon DEF ToldOf
      <4>3. Agrees(r, ToldOf(state, r, headset), headset)
        BY <1>3, ToldAgrees, Zenon
      <4> QED BY <1>2, <4>2, <4>3, Zenon
    <3> QED BY <3>1, <3>2, Zenon DEF ToldOn
  <2>7. SameBut(r, state, state')
    <3>1. SameBut(r, state, ToldOf(state, r, h))
      BY <1>3, <2>3, ToldAgrees, Zenon
    <3> QED BY <2>3, <3>1, Zenon
  <2>8. ASSUME NEW s \in Names \ {r} PROVE ToldOn(s)'
    <3>1. ~Tells(fr, s)
      BY <2>4
    <3>2. Agrees(s, state, headset) => Agrees(s, state', headset)
      BY <2>7, AgreesStill, Zenon
    <3>3. Underway(queue, taken, s, state) => Underway(queue, taken, s, state')
      <4>1. \A item : Wants(item, s, state) => Wants(item, s, state')
        BY <2>7, AgreesStill, Zenon
      <4> QED BY <4>1, Zenon DEF Underway
    <3>4. Underway(queue, taken, s, state) => Underway(queue', taken', s, state')
      BY <2>1, <3>3, Zenon
    <3> QED BY <1>5, <3>1, <3>2, <3>4, Zenon
  <2>9. \A s \in Names : s = r \/ s \in Names \ {r}
    OBVIOUS
  <2> QED BY <2>6, <2>8, <2>9, Zenon DEF ToldInv
<1> QED BY <1>2, <1>6, <1>7, <1>8, Zenon

\* Every step keeps it.
LEMMA StepTold ==
  ASSUME Kept, ToldInv, [Next]_vars
  PROVE  Kept' /\ ToldInv'
<1>1. Kept'
  BY StepKept
<1>2. CASE LinkUp
  BY <1>1, <1>2, LinkUpTold
<1>3. CASE LinkDown
  BY <1>1, <1>3, LinkDownTold
<1>4. CASE Verbs
  <2>1. PICK s, item : Wished(s, item)
    BY <1>4, VerbsWished DEF Kept
  <2> QED BY <1>1, <2>1, WishTold
<1>5. CASE Take
  BY <1>1, <1>5, TakeTold
<1>6. CASE GiveUp
  BY <1>1, <1>6, GiveUpTold
<1>7. CASE Own
  BY <1>1, <1>7, OwnTold
<1>8. CASE Read \/ UNCHANGED vars
  <2>1. UNCHANGED <<up, state, queue, taken, headset, inAir, unsure>>
    BY <1>8, Zenon DEF Read, vars, daemonVars, headsetVars, ghostVars
  <2>2. ToldInv'
    BY <2>1, Zenon DEF ToldInv, ToldOn
  <2> QED BY <1>1, <2>2
<1>9. CASE HandleFrame
  BY <1>1, <1>9, FrameTold
<1> QED BY <1>2, <1>3, <1>4, <1>5, <1>6, <1>7, <1>8, <1>9, Zenon DEF Next

\* However verbs, reports, buttons and links cross each other, the copy ends as the
\* headset is: of each setting, a report of how it stands is on its way, or the copy
\* agrees, or a command that will make it agree waits, unless one was given up or
\* declined and nothing was reported since.
THEOREM CopyEndsTrue == Spec => []Truthful
<1>1. Init => Kept /\ ToldInv
  BY InitKept, InitTold
<1>2. Kept /\ ToldInv /\ [Next]_vars => Kept' /\ ToldInv'
  BY StepTold
<1>3. Kept /\ ToldInv => Truthful
  <2> SUFFICES ASSUME Kept, ToldInv, Quiet PROVE /\ "noise" \notin unsure => NoiseTrue
                                                 /\ "battery_level" \notin unsure =>
                                                      state.battery_level = headset.battery_level
                                                 /\ \A s \in Settings \ unsure : state[s] = headset[s]
    BY DEF Truthful
  <2>1. up /\ queue = <<>> /\ air = <<>> /\ buffer = <<>>
    BY Zenon DEF Quiet
  <2>2. inAir \in Seq(Frames) /\ buffer \o air = Bytes(inAir)
    BY Zenon DEF Kept, TypesInv, StreamInv, StreamOf
  <2>3. inAir = <<>>
    <3>1. SUFFICES ASSUME inAir # <<>> PROVE FALSE
      OBVIOUS
    <3>2. inAir \in Seq(WireFrames)
      BY <2>2, FramesOnWire
    <3>3. /\ inAir[1] \in WireFrames /\ Tail(inAir) \in Seq(WireFrames)
          /\ Bytes(inAir) = Pack(inAir[1]) \o Bytes(Tail(inAir))
      BY <3>1, <3>2, BytesHead
    <3>4. Pack(inAir[1]) \in Seq(Byte) /\ Len(Pack(inAir[1])) >= 9
      BY <3>3, PackWire
    <3>5. Bytes(Tail(inAir)) \in Seq(Byte)
      BY <3>3, BytesType
    <3>6. Len(Bytes(inAir)) >= 9
      BY <3>3, <3>4, <3>5
    <3>7. Bytes(inAir) = <<>>
      BY <2>1, <2>2
    <3> QED BY <3>6, <3>7
  <2>4. ASSUME NEW s \in Names, s \notin unsure
        PROVE  Agrees(s, state, headset)
    <3>1. Untold(inAir, s)
      BY <2>3 DEF Untold
    <3>2. ~Underway(queue, taken, s, state)
      BY <2>1 DEF Underway
    <3> QED BY <2>1, <2>4, <3>1, <3>2, Zenon DEF ToldInv, ToldOn
  <2>5. "noise" \in Names /\ "battery_level" \in Names /\ "battery_level" # "noise"
        /\ \A s \in Settings : s \in Names /\ s # "noise"
    BY SettingsAre
  <2>6. "noise" \notin unsure => NoiseTrue
    BY <2>4, <2>5, Zenon DEF Agrees, NoiseTrue
  <2>7. "battery_level" \notin unsure => state.battery_level = headset.battery_level
    BY <2>4, <2>5, Zenon DEF Agrees
  <2>8. \A s \in Settings \ unsure : state[s] = headset[s]
    <3> TAKE s \in Settings \ unsure
    <3>1. s \in Names /\ s # "noise" /\ s \notin unsure
      BY <2>5
    <3> QED BY <2>4, <3>1, Zenon DEF Agrees
  <2> QED BY <2>6, <2>7, <2>8
<1> QED BY <1>1, <1>2, <1>3, PTL DEF Spec

-----------------------------------------------------------------------------
(* The headset's objection on LDAC. *)

\* A command waits that sets the connection mode.
ModeAt(q, t, j) == q[j].what = "connection_mode" /\ ~(j = 1 /\ t)

\* What is at i meets the mode v: the last command before it that sets the mode
\* sets v, or none does and hm, the mode now, is v.
Meets(q, t, hm, i, v) ==
  \/ \E k \in 1 .. i - 1 : /\ ModeAt(q, t, k) /\ q[k].payload[4] = v
                           /\ \A j \in k + 1 .. i - 1 : ~ModeAt(q, t, j)
  \/ hm = v /\ \A j \in 1 .. i - 1 : ~ModeAt(q, t, j)

\* Each equalizer command that waits meets a headset that will not object.
Met(q, t, hm, i) == \E v : v # Quality /\ Meets(q, t, hm, i, v)
DspSafe(q, t, hm) == \A i \in 1 .. Len(q) : q[i].what \in Dsp /\ ~(i = 1 /\ t) => Met(q, t, hm, i)

\* The mode is v when all that waits is carried out.
EndMeets(q, t, hm, v) == Meets(q, t, hm, Len(q) + 1, v)

\* What follows, or takes another's place, is no equalizer command, and leaves
\* those for the mode; or also is none for the mode.
Grows(q, r) ==
  /\ Len(r) >= Len(q)
  /\ \A i \in 1 .. Len(q) : r[i].what = q[i].what /\ (q[i].what = "connection_mode" => r[i] = q[i])
  /\ \A i \in Len(q) + 1 .. Len(r) : r[i].what \notin Dsp
GrowsQuietly(q, r) ==
  /\ Grows(q, r)
  /\ \A i \in Len(q) + 1 .. Len(r) : r[i].what # "connection_mode"

\* What a command meets depends on those before it.
LEMMA SameMeets ==
  ASSUME NEW q, NEW r, NEW t, NEW hm, NEW n \in Nat, NEW i \in 1 .. n + 1, NEW v, Meets(q, t, hm, i, v),
         \A j \in 1 .. n : r[j].what = q[j].what /\ (q[j].what = "connection_mode" => r[j] = q[j])
  PROVE  Meets(r, t, hm, i, v)
<1>1. \A j \in 1 .. i - 1 : j \in 1 .. n
  OBVIOUS
<1>2. \A j \in 1 .. i - 1 : ModeAt(r, t, j) <=> ModeAt(q, t, j)
  BY <1>1, Zenon DEF ModeAt
<1>3. \A j \in 1 .. i - 1 : ModeAt(r, t, j) => r[j] = q[j]
  BY <1>1, Zenon DEF ModeAt
<1>4. \A k \in 1 .. i - 1 : \A j \in k + 1 .. i - 1 : j \in 1 .. i - 1
  OBVIOUS
<1> QED BY <1>2, <1>3, <1>4, Zenon DEF Meets

\* A command further on meets the same, if none between sets the mode.
LEMMA MeetsOn ==
  ASSUME NEW q, NEW t, NEW hm, NEW n \in Nat \ {0}, NEW m \in Nat, n <= m, NEW v, Meets(q, t, hm, n, v),
         \A j \in n .. m - 1 : ~ModeAt(q, t, j)
  PROVE  Meets(q, t, hm, m, v)
<1>1. \A j \in 1 .. m - 1 : j \in 1 .. n - 1 \/ j \in n .. m - 1
  OBVIOUS
<1>2. \A k \in 1 .. n - 1 : k \in 1 .. m - 1 /\ \A j \in k + 1 .. m - 1 : j \in k + 1 .. n - 1 \/ j \in n .. m - 1
  OBVIOUS
<1> QED BY <1>1, <1>2, Zenon DEF Meets

\* A queue that grows by nothing of the kind stays safe.
LEMMA GrowSafe ==
  ASSUME NEW q \in Seq(Items), NEW r \in Seq(Items), NEW t, NEW hm, Grows(q, r), DspSafe(q, t, hm)
  PROVE  DspSafe(r, t, hm)
<1> SUFFICES ASSUME NEW i \in 1 .. Len(r), r[i].what \in Dsp, ~(i = 1 /\ t) PROVE Met(r, t, hm, i)
  BY DEF DspSafe
<1>0. Len(q) \in Nat /\ Len(r) \in Nat
  OBVIOUS
<1>1. i \in 1 .. Len(q) /\ i \in 1 .. Len(q) + 1
  BY <1>0 DEF Grows
<1>2. q[i].what \in Dsp
  BY <1>1 DEF Grows
<1>3. PICK v : v # Quality /\ Meets(q, t, hm, i, v)
  BY <1>1, <1>2, Zenon DEF DspSafe, Met
<1>4. Meets(r, t, hm, i, v)
  BY <1>0, <1>1, <1>3, SameMeets, Zenon DEF Grows
<1> QED BY <1>3, <1>4, Zenon DEF Met

\* And ends in the same mode.
LEMMA GrowEnds ==
  ASSUME NEW q \in Seq(Items), NEW r \in Seq(Items), NEW t, NEW hm, GrowsQuietly(q, r), NEW v,
         EndMeets(q, t, hm, v)
  PROVE  EndMeets(r, t, hm, v)
<1>0. Len(q) \in Nat /\ Len(r) \in Nat /\ Len(q) + 1 \in 1 .. Len(q) + 1 /\ Len(q) + 1 \in Nat \ {0} /\ Len(r) + 1 \in Nat
      /\ (Len(r) + 1) - 1 = Len(r)
  OBVIOUS
<1>1. Meets(r, t, hm, Len(q) + 1, v)
  BY <1>0, SameMeets, Zenon DEF GrowsQuietly, Grows, EndMeets
<1>2. Len(q) + 1 <= Len(r) + 1
  BY <1>0 DEF GrowsQuietly, Grows
<1>3. \A j \in Len(q) + 1 .. (Len(r) + 1) - 1 : ~ModeAt(r, t, j)
  BY <1>0, Zenon DEF GrowsQuietly, ModeAt
<1> QED BY <1>0, <1>1, <1>2, <1>3, MeetsOn DEF EndMeets

\* The first command leaves, acknowledged or given up: what follows meets what it
\* did.
LEMMA ShiftMeets ==
  ASSUME NEW q \in Seq(Items), q # <<>>, NEW t \in BOOLEAN, NEW hm,
         t = TRUE \/ q[1].what # "connection_mode",
         NEW i \in 1 .. Len(q), NEW v, Meets(q, t, hm, i + 1, v)
  PROVE  Meets(Tail(q), FALSE, hm, i, v)
<1> DEFINE r == Tail(q)
<1>0. Len(q) \in Nat \ {0} /\ Len(r) = Len(q) - 1 /\ \A j \in 1 .. Len(r) : r[j] = q[j + 1] /\ j + 1 \in 1 .. Len(q)
  OBVIOUS
<1> HIDE DEF r
<1>1. (i + 1) - 1 = i
  OBVIOUS
<1>3. \A j \in 1 .. i - 1 : /\ j + 1 \in 1 .. i /\ j + 1 # 1 /\ r[j] = q[j + 1]
  <2>1. \A j \in 1 .. i - 1 : j \in 1 .. Len(r) /\ j + 1 \in 1 .. i /\ j + 1 # 1
    BY <1>0
  <2> QED BY <1>0, <2>1, Zenon
<1>4. \A j \in 1 .. i - 1 : ModeAt(r, FALSE, j) <=> ModeAt(q, t, j + 1)
  BY <1>3, Zenon DEF ModeAt
<1>5. ~ModeAt(q, t, 1)
  BY Zenon DEF ModeAt
<1>6. CASE hm = v /\ \A j \in 1 .. i : ~ModeAt(q, t, j)
  BY <1>3, <1>4, <1>6, Zenon DEF Meets, r
<1>7. ASSUME NEW k \in 1 .. i, ModeAt(q, t, k), q[k].payload[4] = v,
             \A j \in k + 1 .. i : ~ModeAt(q, t, j)
      PROVE  Meets(r, FALSE, hm, i, v)
  <2>1. k # 1
    BY <1>5, <1>7
  <2>2. k - 1 \in 1 .. i - 1 /\ (k - 1) + 1 = k
    BY <1>0, <2>1
  <2>3. ModeAt(r, FALSE, k - 1)
    BY <1>4, <1>7, <2>2
  <2>4. r[k - 1] = q[k]
    BY <1>3, <2>2
  <2>5. \A j \in (k - 1) + 1 .. i - 1 : j \in 1 .. i - 1 /\ j + 1 \in k + 1 .. i
    BY <1>0, <2>2
  <2>6. \A j \in (k - 1) + 1 .. i - 1 : ~ModeAt(r, FALSE, j)
    BY <1>4, <1>7, <2>5
  <2> QED BY <1>7, <2>2, <2>3, <2>4, <2>6, Zenon DEF Meets
<1>8. \/ hm = v /\ \A j \in 1 .. i : ~ModeAt(q, t, j)
      \/ \E k \in 1 .. i : /\ ModeAt(q, t, k) /\ q[k].payload[4] = v
                           /\ \A j \in k + 1 .. i : ~ModeAt(q, t, j)
  BY <1>1 DEF Meets
<1> QED BY <1>6, <1>7, <1>8, Zenon DEF r

\* So the queue stays safe, and ends in the same mode.
LEMMA ShiftSafe ==
  ASSUME NEW q \in Seq(Items), q # <<>>, NEW t \in BOOLEAN, NEW hm,
         t = TRUE \/ q[1].what # "connection_mode"
  PROVE  /\ DspSafe(q, t, hm) => DspSafe(Tail(q), FALSE, hm)
         /\ \A v : EndMeets(q, t, hm, v) => EndMeets(Tail(q), FALSE, hm, v)
<1> DEFINE r == Tail(q)
<1>0. Len(q) \in Nat \ {0} /\ Len(r) = Len(q) - 1 /\ \A j \in 1 .. Len(r) : r[j] = q[j + 1] /\ j + 1 \in 1 .. Len(q)
  OBVIOUS
<1>1. ASSUME DspSafe(q, t, hm), NEW i \in 1 .. Len(r), r[i].what \in Dsp
      PROVE  Met(r, FALSE, hm, i)
  <2>1. i \in 1 .. Len(q) /\ i + 1 \in 1 .. Len(q) /\ i + 1 # 1 /\ q[i + 1].what \in Dsp
    BY <1>0, <1>1
  <2>2. PICK v : v # Quality /\ Meets(q, t, hm, i + 1, v)
    BY <1>1, <2>1, Zenon DEF DspSafe, Met
  <2>3. Meets(Tail(q), FALSE, hm, i, v)
    BY <2>1, <2>2, ShiftMeets
  <2> QED BY <2>2, <2>3, Zenon DEF Met
<1>2. ASSUME NEW v, EndMeets(q, t, hm, v)
      PROVE  EndMeets(r, FALSE, hm, v)
  <2>1. Len(q) \in 1 .. Len(q) /\ Len(r) + 1 = Len(q)
    BY <1>0
  <2>2. Meets(Tail(q), FALSE, hm, Len(q), v)
    BY <1>2, <2>1, ShiftMeets DEF EndMeets
  <2> QED BY <2>1, <2>2 DEF EndMeets
<1> QED BY <1>1, <1>2, Zenon DEF DspSafe

\* The headset takes the first command, and has the mode it sets.
LEMMA TakenMeets ==
  ASSUME NEW q \in Seq(Items), q # <<>>, NEW hm, NEW new,
         new = IF q[1].what = "connection_mode" THEN q[1].payload[4] ELSE hm,
         NEW i \in 2 .. Len(q) + 1, NEW v, Meets(q, FALSE, hm, i, v)
  PROVE  Meets(q, TRUE, new, i, v)
<1>0. i - 1 \in Nat /\ 1 \in 1 .. i - 1
  OBVIOUS
<1>2. \A j \in 1 .. i - 1 : j # 1 => (ModeAt(q, TRUE, j) <=> ModeAt(q, FALSE, j))
  BY Zenon DEF ModeAt
<1>3. ~ModeAt(q, TRUE, 1) /\ (ModeAt(q, FALSE, 1) <=> q[1].what = "connection_mode")
  BY Zenon DEF ModeAt
<1>4. CASE hm = v /\ \A j \in 1 .. i - 1 : ~ModeAt(q, FALSE, j)
  <2>1. new = hm
    BY <1>0, <1>3, <1>4
  <2> QED BY <1>2, <1>3, <1>4, <2>1, Zenon DEF Meets
<1>5. ASSUME NEW k \in 1 .. i - 1, ModeAt(q, FALSE, k), q[k].payload[4] = v,
             \A j \in k + 1 .. i - 1 : ~ModeAt(q, FALSE, j)
      PROVE  Meets(q, TRUE, new, i, v)
  <2>1. CASE k = 1
    <3>1. new = v
      BY <1>3, <1>5, <2>1
    <3>2. \A j \in 1 .. i - 1 : j # 1 => j \in k + 1 .. i - 1
      BY <2>1
    <3> QED BY <1>2, <1>3, <1>5, <3>1, <3>2, Zenon DEF Meets
  <2>2. CASE k # 1
    <3>1. \A j \in k + 1 .. i - 1 : j \in 1 .. i - 1 /\ j # 1
      OBVIOUS
    <3> QED BY <1>2, <1>5, <2>2, <3>1, Zenon DEF Meets
  <2> QED BY <2>1, <2>2
<1> QED BY <1>4, <1>5, Zenon DEF Meets

\* So again the queue stays safe, and ends in the same mode.
LEMMA TakenSafe ==
  ASSUME NEW q \in Seq(Items), q # <<>>, NEW hm, NEW new,
         new = IF q[1].what = "connection_mode" THEN q[1].payload[4] ELSE hm
  PROVE  /\ DspSafe(q, FALSE, hm) => DspSafe(q, TRUE, new)
         /\ \A v : EndMeets(q, FALSE, hm, v) => EndMeets(q, TRUE, new, v)
<1>0. Len(q) \in Nat \ {0}
  OBVIOUS
<1>1. ASSUME DspSafe(q, FALSE, hm), NEW i \in 1 .. Len(q), q[i].what \in Dsp, i # 1
      PROVE  Met(q, TRUE, new, i)
  <2>1. PICK v : v # Quality /\ Meets(q, FALSE, hm, i, v)
    BY <1>1, Zenon DEF DspSafe, Met
  <2>2. i \in 2 .. Len(q) + 1
    BY <1>0, <1>1
  <2>3. Meets(q, TRUE, new, i, v)
    BY <2>1, <2>2, TakenMeets
  <2> QED BY <2>1, <2>3, Zenon DEF Met
<1>2. ASSUME NEW v, EndMeets(q, FALSE, hm, v)
      PROVE  EndMeets(q, TRUE, new, v)
  <2>1. Len(q) + 1 \in 2 .. Len(q) + 1
    BY <1>0
  <2> QED BY <1>2, <2>1, TakenMeets DEF EndMeets
<1> QED BY <1>1, <1>2, Zenon DEF DspSafe

\* A queue that gets an equalizer command stays safe if it ends in another mode.
LEMMA AppendSafe ==
  ASSUME NEW q \in Seq(Items), NEW x \in Items, NEW t, NEW hm, DspSafe(q, t, hm),
         Met(q, t, hm, Len(q) + 1)
  PROVE  DspSafe(Append(q, x), t, hm)
<1> DEFINE r == Append(q, x)
<1>0. Len(q) \in Nat /\ Len(r) = Len(q) + 1 /\ \A j \in 1 .. Len(q) : r[j] = q[j]
  OBVIOUS
<1> HIDE DEF r
<1> SUFFICES ASSUME NEW i \in 1 .. Len(r), r[i].what \in Dsp, ~(i = 1 /\ t) PROVE Met(r, t, hm, i)
  BY DEF DspSafe, r
<1>1. Met(q, t, hm, i)
  <2>1. CASE i = Len(q) + 1
    BY <2>1
  <2>2. CASE i \in 1 .. Len(q)
    <3>1. q[i].what \in Dsp
      BY <1>0, <2>2
    <3> QED BY <2>2, <3>1, Zenon DEF DspSafe
  <2> QED BY <1>0, <2>1, <2>2
<1>2. PICK v : v # Quality /\ Meets(q, t, hm, i, v)
  BY <1>1, Zenon DEF Met
<1>3. i \in 1 .. Len(q) + 1 /\ \A j \in 1 .. Len(q) : r[j].what = q[j].what /\ (q[j].what = "connection_mode" => r[j] = q[j])
  BY <1>0
<1>4. Meets(r, t, hm, i, v)
  BY <1>0, <1>2, <1>3, SameMeets
<1> QED BY <1>2, <1>4, Zenon DEF Met

\* One command more that is not for the mode.
LEMMA AppendEnds ==
  ASSUME NEW q \in Seq(Items), NEW x \in Items, x.what # "connection_mode", NEW t, NEW hm, NEW v,
         EndMeets(q, t, hm, v)
  PROVE  EndMeets(Append(q, x), t, hm, v)
<1> DEFINE r == Append(q, x)
<1>0. Len(q) \in Nat /\ Len(r) = Len(q) + 1 /\ r[Len(q) + 1] = x /\ \A j \in 1 .. Len(q) : r[j] = q[j]
  OBVIOUS
<1> HIDE DEF r
<1>1. Len(q) + 1 \in 1 .. Len(q) + 1 /\ Len(q) + 1 \in Nat \ {0} /\ Len(r) + 1 \in Nat /\ Len(q) + 1 <= Len(r) + 1
  BY <1>0
<1>2. \A j \in 1 .. Len(q) : r[j].what = q[j].what /\ (q[j].what = "connection_mode" => r[j] = q[j])
  BY <1>0
<1>3. Meets(r, t, hm, Len(q) + 1, v)
  BY <1>0, <1>1, <1>2, SameMeets, Zenon DEF EndMeets
<1>4. \A j \in Len(q) + 1 .. (Len(r) + 1) - 1 : j = Len(q) + 1
  BY <1>0
<1>5. \A j \in Len(q) + 1 .. (Len(r) + 1) - 1 : ~ModeAt(r, t, j)
  BY <1>0, <1>4, Zenon DEF ModeAt
<1> QED BY <1>1, <1>3, <1>5, MeetsOn DEF EndMeets, r

\* The equalizer commands that wait meet no LDAC, and the copy has the mode to be,
\* as long as there is no cause for either not to.
Grounded == "connection_mode" \in Settings /\ blind = {} => DspSafe(queue, taken, headset.connection_mode)
Informed == "connection_mode" \in Settings /\ up /\ doubts = {}
           => EndMeets(queue, taken, headset.connection_mode, state.connection_mode)
DspInv == {} \notin declined /\ Grounded /\ Informed

\* What is not an effect, and what does not set the mode.
LEMMA NotDsp ==
  /\ "connection_mode" \notin Dsp /\ "nc_button" \notin Dsp /\ "query" \notin Dsp /\ "alert reply" \notin Dsp
  /\ \A w \in NoiseNames : w \notin Dsp /\ w # "connection_mode"
  /\ "nc_button" # "connection_mode" /\ "alert reply" # "connection_mode" /\ "query" # "connection_mode"
BY DEF Dsp, NoiseNames

\* A query is no effect's command, nor one for the mode.
LEMMA QueriesNotDsp ==
  ASSUME NEW w \in Seq(Queries), NEW i \in 1 .. Len(w)
  PROVE  w[i].what \notin Dsp /\ w[i].what # "connection_mode"
<1>1. w[i] \in Queries
  OBVIOUS
<1>2. PICK s \in Names : w[i] = Query(s)
  BY <1>1, Zenon DEF Queries
<1>3. w[i].what = "query"
  BY <1>2, QueryMeant, Zenon
<1> QED BY <1>3, NotDsp

\* Only the first that is added may be for the mode.
QuietAfter(q, item, r) ==
  /\ Grows(q, r) /\ Len(r) >= Len(q) + 1 /\ r[Len(q) + 1] = item
  /\ \A i \in Len(q) + 2 .. Len(r) : r[i].what # "connection_mode"

\* Queries sent along add nothing of the kind.
LEMMA QueriesAreQuiet ==
  ASSUME NEW q \in Seq(Items), NEW item \in Items, item.what \notin Dsp, NEW w \in Seq(Queries)
  PROVE  QuietAfter(q, item, Append(q, item) \o w)
<1> DEFINE r == Append(q, item) \o w
<1>0. Len(q) \in Nat
  OBVIOUS
<1>1. w \in Seq(Items)
  BY QueriesAreItems
<1>2. Len(w) \in Nat /\ Len(r) = Len(q) + 1 + Len(w)
  BY <1>1
<1>3. \A i \in 1 .. Len(q) : r[i] = q[i]
  BY <1>1
<1>4. r[Len(q) + 1] = item
  BY <1>1
<1>5. \A i \in Len(q) + 2 .. Len(r) : i - Len(q) - 1 \in 1 .. Len(w) /\ r[i] = w[i - Len(q) - 1]
  BY <1>1, <1>2
<1>6. \A i \in Len(q) + 2 .. Len(r) : r[i].what \notin Dsp /\ r[i].what # "connection_mode"
  BY <1>5, QueriesNotDsp
<1>7. \A i \in Len(q) + 1 .. Len(r) : i = Len(q) + 1 \/ i \in Len(q) + 2 .. Len(r)
  BY <1>0, <1>2
<1>8. \A i \in Len(q) + 1 .. Len(r) : r[i].what \notin Dsp
  BY <1>4, <1>6, <1>7, Zenon
<1>9. Len(r) >= Len(q) /\ Len(r) >= Len(q) + 1
  BY <1>0, <1>2
<1>10. Grows(q, r)
  BY <1>3, <1>8, <1>9, Zenon DEF Grows
<1> QED BY <1>4, <1>6, <1>9, <1>10, Zenon DEF QuietAfter

\* A queue that is added to grows by nothing of the kind.
LEMMA AddedGrows ==
  ASSUME NEW q \in Seq(Items), NEW item \in Items, item.what \notin Dsp, NEW r, Added(q, item, r),
         item.what # "connection_mode"
  PROVE  GrowsQuietly(q, r)
<1>0. Len(q) \in Nat
  OBVIOUS
<1>1. ASSUME NEW w \in Seq(Queries), r = Append(q, item) \o w
      PROVE  GrowsQuietly(q, r)
  <2>1. /\ Grows(q, r) /\ Len(r) >= Len(q) + 1 /\ r[Len(q) + 1] = item
        /\ \A i \in Len(q) + 2 .. Len(r) : r[i].what # "connection_mode"
    <3>1. QuietAfter(q, item, Append(q, item) \o w)
      BY QueriesAreQuiet, Zenon
    <3> QED BY <1>1, <3>1, Zenon DEF QuietAfter
  <2>2. \A i \in Len(q) + 1 .. Len(r) : i = Len(q) + 1 \/ i \in Len(q) + 2 .. Len(r)
    BY <1>0
  <2> QED BY <2>1, <2>2, Zenon DEF GrowsQuietly
<1>2. CASE r = Append(q, item)
  <2>1. Len(r) = Len(q) + 1 /\ r[Len(q) + 1] = item /\ \A i \in 1 .. Len(q) : r[i] = q[i]
    BY <1>2
  <2>2. \A i \in Len(q) + 1 .. Len(r) : i = Len(q) + 1
    BY <1>0, <2>1
  <2>3. Len(r) >= Len(q)
    BY <1>0, <2>1
  <2> QED BY <2>1, <2>2, <2>3, Zenon DEF GrowsQuietly, Grows
<1>3. ASSUME NEW k \in 2 .. Len(q), q[k].what = item.what, r = [q EXCEPT ![k] = item]
      PROVE  GrowsQuietly(q, r)
  <2>1. Len(r) = Len(q) /\ k \in 1 .. Len(q)
    BY <1>0, <1>3
  <2>2. \A i \in 1 .. Len(q) : r[i] = IF i = k THEN item ELSE q[i]
    BY <1>3
  <2>3. \A i \in 1 .. Len(q) : r[i].what = q[i].what /\ (q[i].what = "connection_mode" => r[i] = q[i])
    BY <1>3, <2>2, Zenon
  <2>4. Len(r) >= Len(q) /\ \A i \in Len(q) + 1 .. Len(r) : r[i].what \notin Dsp /\ r[i].what # "connection_mode"
    BY <1>0, <2>1
  <2> QED BY <2>3, <2>4, Zenon DEF GrowsQuietly, Grows
<1> QED BY <1>1, <1>2, <1>3, Zenon DEF Added, Coalesced

\* Without a link nothing is added, and what has to do with neither the mode nor
\* those settings leaves what is known.
LEMMA GrowKeeps ==
  ASSUME TypesInv, TypesInv', DspInv, GrowsQuietly(queue, queue') \/ queue' = queue,
         UNCHANGED <<up, taken, declined, doubts, blind>>,
         "connection_mode" \in Settings => /\ headset'.connection_mode = headset.connection_mode
                                           /\ state'.connection_mode = state.connection_mode
  PROVE  DspInv'
<1>1. queue \in Seq(Items) /\ queue' \in Seq(Items)
  BY Zenon DEF TypesInv, QueueInv
<1>2. Grounded'
  <2> SUFFICES ASSUME "connection_mode" \in Settings, blind' = {}
               PROVE  DspSafe(queue', taken', headset'.connection_mode)
    BY Zenon DEF Grounded
  <2>1. DspSafe(queue, taken, headset.connection_mode)
    BY Zenon DEF DspInv, Grounded
  <2>2. DspSafe(queue', taken, headset.connection_mode)
    BY <1>1, <2>1, GrowSafe, Zenon DEF GrowsQuietly
  <2> QED BY <2>2, Zenon
<1>3. Informed'
  <2> SUFFICES ASSUME "connection_mode" \in Settings, up', doubts' = {}
               PROVE  EndMeets(queue', taken', headset'.connection_mode, state'.connection_mode)
    BY Zenon DEF Informed
  <2>1. EndMeets(queue, taken, headset.connection_mode, state.connection_mode)
    BY Zenon DEF DspInv, Informed
  <2>2. EndMeets(queue', taken, headset.connection_mode, state.connection_mode)
    BY <1>1, <2>1, GrowEnds, Zenon
  <2> QED BY <2>2, Zenon
<1>4. {} \notin declined'
  BY Zenon DEF DspInv
<1> QED BY <1>2, <1>3, <1>4, Zenon DEF DspInv

\* A verb that is not about the mode leaves it in the copy.
LEMMA WishLeavesMode ==
  ASSUME NEW s, NEW item, Wished(s, item), s # "connection_mode", "connection_mode" \in Settings
  PROVE  state'.connection_mode = state.connection_mode
<1>1. "connection_mode" \in Names \ {s} /\ "connection_mode" # "noise"
  BY SettingsAre
<1>2. SameBut(s, state, state')
  BY Zenon DEF Wished
<1> QED BY <1>1, <1>2, Zenon DEF SameBut

\* A verb that is about neither an effect nor the mode keeps it.
LEMMA WishGrows ==
  ASSUME TypesInv, DspInv, NEW s, NEW item, Wished(s, item), s # "connection_mode", item.what \notin Dsp,
         item.what # "connection_mode", UNCHANGED <<doubts, blind>>
  PROVE  DspInv'
<1>1. TypesInv'
  BY WishTypes
<1>2. /\ item \in Items /\ UNCHANGED <<up, headset, taken, declined>>
      /\ Added(queue, item, queue') \/ queue' = queue
  BY Zenon DEF Wished, headsetVars
<1>3. queue \in Seq(Items)
  BY Zenon DEF TypesInv, QueueInv
<1>4. GrowsQuietly(queue, queue') \/ queue' = queue
  BY <1>2, <1>3, AddedGrows, Zenon
<1>5. "connection_mode" \in Settings => state'.connection_mode = state.connection_mode
  BY WishLeavesMode, Zenon
<1>6. "connection_mode" \in Settings => headset'.connection_mode = headset.connection_mode
  BY <1>2
<1> QED BY <1>1, <1>2, <1>4, <1>5, <1>6, GrowKeeps

\* An effect's verb keeps it: it is let through only when the copy names another
\* mode, which is the one to be, or there is a cause to doubt it.
LEMMA DspVerb ==
  ASSUME TypesInv, DspInv, NEW s, NEW v, SetDsp(s, v)
  PROVE  DspInv'
<1>1. /\ s \in Settings /\ s \in Dsp /\ v \in Values[s] /\ Wished(s, SetItem(s, v))
  BY DspWished, Zenon
<1>2. /\ UNCHANGED <<up, headset, taken, declined>> /\ queue \in Seq(Items) /\ SetItem(s, v) \in Items
  BY <1>1, Zenon DEF Wished, headsetVars, TypesInv, QueueInv
<1>3. blind' = doubts \cup (IF DspWaits THEN blind ELSE {}) /\ UNCHANGED doubts
  BY Zenon DEF SetDsp
<1>4. queue' = IF up THEN Append(queue, SetItem(s, v)) ELSE queue
  BY Zenon DEF SetDsp, Send, Enqueue, SetItem
<1>5. ~("connection_mode" \in Settings /\ state.connection_mode = Quality)
  BY Zenon DEF SetDsp, NotBlocked, BlockedByLdac
<1>6. s # "connection_mode" /\ SetItem(s, v).what = s
  BY <1>1, NotDsp, SettingMeant, Zenon
<1>7. Grounded'
  <2> SUFFICES ASSUME "connection_mode" \in Settings, blind' = {}
               PROVE  DspSafe(queue', taken', headset'.connection_mode)
    BY Zenon DEF Grounded
  <2>1. doubts = {} /\ (DspWaits => blind = {})
    BY <1>3
  <2>2. DspSafe(queue, taken, headset.connection_mode)
    <3>1. CASE DspWaits
      BY <2>1, <3>1, Zenon DEF DspInv, Grounded
    <3>2. CASE ~DspWaits
      BY <3>2, Zenon DEF DspWaits, DspSafe
    <3> QED BY <3>1, <3>2
  <2>3. CASE up
    <3>1. EndMeets(queue, taken, headset.connection_mode, state.connection_mode)
      BY <2>1, <2>3, Zenon DEF DspInv, Informed
    <3>2. Met(queue, taken, headset.connection_mode, Len(queue) + 1)
      BY <1>5, <3>1, Zenon DEF EndMeets, Met
    <3>3. DspSafe(Append(queue, SetItem(s, v)), taken, headset.connection_mode)
      BY <1>2, <2>2, <3>2, AppendSafe
    <3> QED BY <1>2, <1>4, <2>3, <3>3, Zenon
  <2>4. CASE ~up
    BY <1>2, <1>4, <2>2, <2>4, Zenon
  <2> QED BY <2>3, <2>4
<1>8. Informed'
  <2> SUFFICES ASSUME "connection_mode" \in Settings, up', doubts' = {}
               PROVE  EndMeets(queue', taken', headset'.connection_mode, state'.connection_mode)
    BY Zenon DEF Informed
  <2>1. EndMeets(queue, taken, headset.connection_mode, state.connection_mode)
    BY <1>2, <1>3, Zenon DEF DspInv, Informed
  <2>2. queue' = Append(queue, SetItem(s, v))
    BY <1>2, <1>4, Zenon
  <2>3. EndMeets(Append(queue, SetItem(s, v)), taken, headset.connection_mode, state.connection_mode)
    BY <1>2, <1>6, <2>1, AppendEnds
  <2>4. state'.connection_mode = state.connection_mode
    BY <1>1, <1>6, WishLeavesMode, Zenon
  <2> QED BY <1>2, <2>2, <2>3, <2>4, Zenon
<1>9. {} \notin declined'
  BY <1>2, Zenon DEF DspInv
<1> QED BY <1>7, <1>8, <1>9, Zenon DEF DspInv

\* The verb for the mode keeps it: what is sent along only queries, and the copy
\* has the mode that the command sets.
LEMMA ModeVerb ==
  ASSUME TypesInv, DspInv, NEW v, "connection_mode" \in Settings, SetConnectionMode(v)
  PROVE  DspInv'
<1> DEFINE item == SetItem("connection_mode", v)
           order == <<"eq_preset", "surround", "sound_position">>
           q == QueryEach(Append(queue, item), order, Dsp)
<1>1. v \in Values["connection_mode"] /\ Wished("connection_mode", item)
  BY ModeWished, Zenon
<1>2. UNCHANGED <<up, headset, taken, declined>> /\ queue \in Seq(Items) /\ item \in Items /\ taken \in BOOLEAN
      /\ (taken => queue # <<>>)
  BY <1>1, Zenon DEF Wished, headsetVars, TypesInv, QueueInv
<1>3. UNCHANGED blind /\ state' = InState("connection_mode", v)
  BY Zenon DEF SetConnectionMode
<1>5. queue' = IF up THEN q ELSE queue
  <2>1. TypeOf("connection_mode") = MDR
    BY DEF TypeOf
  <2>2. item = Item("connection_mode", MDR, SerializeSet("connection_mode", v))
    BY <2>1, Zenon DEF SetItem
  <2> QED BY <2>2, Zenon DEF SetConnectionMode, Send, Enqueue
<1>6. item.what = "connection_mode" /\ item.payload[4] = v
  <2>1. SerializeSet("connection_mode", v) = <<232, 1, 0, v>>
    BY SetPayloads, Zenon
  <2>2. item.payload = SerializeSet("connection_mode", v)
    BY DEF SetItem, Item
  <2>3. item.payload[4] = v
    BY <2>1, <2>2
  <2> QED BY <1>1, <2>3, SettingMeant, Zenon
<1>7. state'.connection_mode = v
  <2>1. "connection_mode" \in DOMAIN state
    BY Zenon DEF TypesInv, CopyInv, IsCopy
  <2> QED BY <1>3, <2>1 DEF InState
<1> HIDE DEF item
<1>8. Asking(Append(queue, item), order, Dsp, q)
  <2>1. order \in Seq(NamesThereAre) /\ Dsp \subseteq Names
    BY DomainOfValues DEF NamesThereAre, Dsp, Names
  <2> HIDE DEF order
  <2> QED BY <2>1, QueriesAre, Zenon
<1> HIDE DEF q
<1>9. PICK w \in Seq(Queries) : q = Append(queue, item) \o w
  BY <1>8, Zenon DEF Asking
<1>10. /\ Grows(queue, q) /\ Len(q) >= Len(queue) + 1 /\ q[Len(queue) + 1] = item
       /\ \A i \in Len(queue) + 2 .. Len(q) : q[i].what # "connection_mode"
  <2>1. item.what \notin Dsp
    BY <1>6, NotDsp, Zenon
  <2>2. QuietAfter(queue, item, Append(queue, item) \o w)
    BY <1>2, <2>1, QueriesAreQuiet, Zenon
  <2> QED BY <1>9, <2>2, Zenon DEF QuietAfter
<1>11. q \in Seq(Items)
  BY <1>2, <1>9, QueriesAreItems
<1>12. Grounded'
  <2> SUFFICES ASSUME blind' = {} PROVE DspSafe(queue', taken', headset'.connection_mode)
    BY Zenon DEF Grounded
  <2>1. DspSafe(queue, taken, headset.connection_mode)
    BY <1>3, Zenon DEF DspInv, Grounded
  <2>2. DspSafe(q, taken, headset.connection_mode)
    BY <1>2, <1>10, <1>11, <2>1, GrowSafe, Zenon
  <2> QED BY <1>2, <1>5, <2>1, <2>2, Zenon
<1>13. Informed'
  <2> SUFFICES ASSUME up' PROVE EndMeets(queue', taken', headset'.connection_mode, state'.connection_mode)
    BY Zenon DEF Informed
  <2>1. queue' = q
    BY <1>2, <1>5, Zenon
  <2>2. EndMeets(q, taken, headset.connection_mode, v)
    <3>1. Len(queue) \in Nat /\ Len(q) \in Nat
      BY <1>2, <1>11
    <3>2. Len(queue) + 1 \in 1 .. (Len(q) + 1) - 1
      BY <1>10, <3>1
    <3>3. ModeAt(q, taken, Len(queue) + 1)
      <4>1. ~(Len(queue) + 1 = 1 /\ taken)
        BY <1>2, <3>1
      <4> QED BY <1>6, <1>10, <4>1, Zenon DEF ModeAt
    <3>4. \A j \in (Len(queue) + 1) + 1 .. (Len(q) + 1) - 1 : j \in Len(queue) + 2 .. Len(q)
      BY <3>1
    <3>5. \A j \in (Len(queue) + 1) + 1 .. (Len(q) + 1) - 1 : ~ModeAt(q, taken, j)
      BY <1>10, <3>4, Zenon DEF ModeAt
    <3>6. q[Len(queue) + 1].payload[4] = v
      BY <1>6, <1>10
    <3> QED BY <3>2, <3>3, <3>5, <3>6, Zenon DEF EndMeets, Meets
  <2> QED BY <1>2, <1>7, <2>1, <2>2, Zenon
<1>14. {} \notin declined'
  BY <1>2, Zenon DEF DspInv
<1> QED BY <1>12, <1>13, <1>14, Zenon DEF DspInv

\* Every verb keeps it.
LEMMA VerbsDsp ==
  ASSUME TypesInv, DspInv, Verbs
  PROVE  DspInv'
<1>1. ASSUME NEW item, Wished("noise", item), UNCHANGED <<doubts, blind>>
      PROVE  DspInv'
  <2>1. item.what \in NoiseNames
    BY <1>1, NoiseWhat, Zenon DEF Wished
  <2>2. item.what \notin Dsp /\ item.what # "connection_mode"
    BY <2>1, NotDsp, Zenon
  <2>3. "noise" # "connection_mode"
    OBVIOUS
  <2> QED BY <1>1, <2>2, <2>3, WishGrows
<1>2. ASSUME NEW m \in Modes, NEW l, SetNoiseMode(m, l)
      PROVE  DspInv'
  <2>1. UNCHANGED <<doubts, blind>>
    BY <1>2, Zenon DEF SetNoiseMode, SetterLeaves, modeGhosts
  <2> QED BY <1>1, <1>2, <2>1, NoiseModeWished, Zenon
<1>3. ASSUME NEW l, SetAmbientLevel(l)
      PROVE  DspInv'
  <2>1. UNCHANGED <<doubts, blind>>
    BY <1>3, Zenon DEF SetAmbientLevel, SetterLeaves, modeGhosts
  <2> QED BY <1>1, <1>3, <2>1, AmbientWished, Zenon
<1>4. ASSUME NEW b \in BOOLEAN, SetVoiceFocus(b)
      PROVE  DspInv'
  <2>1. UNCHANGED <<doubts, blind>>
    BY <1>4, Zenon DEF SetVoiceFocus, SetterLeaves, modeGhosts
  <2> QED BY <1>1, <1>4, <2>1, FocusWished, Zenon
<1>5. ASSUME NEW s, NEW v, SetPlain(s, v)
      PROVE  DspInv'
  <2>1. s \in Settings /\ s \notin Dsp /\ s # "connection_mode" /\ v \in Values[s] /\ Wished(s, SetItem(s, v))
    BY <1>5, PlainWished, Zenon
  <2>2. SetItem(s, v).what = s
    BY <2>1, SettingMeant, Zenon
  <2>3. UNCHANGED <<doubts, blind>>
    BY <1>5, Zenon DEF SetPlain, SetterLeaves, modeGhosts
  <2>4. SetItem(s, v).what \notin Dsp /\ SetItem(s, v).what # "connection_mode"
    BY <2>1, <2>2, Zenon
  <2> QED BY <2>1, <2>3, <2>4, WishGrows
<1>6. ASSUME NEW v, "nc_button" \in Settings, SetNcButton(v)
      PROVE  DspInv'
  <2>1. v \in Values["nc_button"] /\ Wished("nc_button", SetItem("nc_button", v))
    BY <1>6, ButtonWished, Zenon
  <2>2. SetItem("nc_button", v).what = "nc_button"
    BY <1>6, <2>1, SettingMeant, Zenon
  <2>3. UNCHANGED <<doubts, blind>>
    BY <1>6, Zenon DEF SetNcButton, modeGhosts
  <2>4. SetItem("nc_button", v).what \notin Dsp /\ SetItem("nc_button", v).what # "connection_mode"
    BY <2>2, NotDsp, Zenon
  <2>5. "nc_button" # "connection_mode"
    OBVIOUS
  <2> QED BY <2>1, <2>3, <2>4, <2>5, WishGrows
<1>7. ASSUME NEW s \in Settings, NEW v \in Chosen[s],
             \/ SetDsp(s, v) \/ SetPlain(s, v)
             \/ s = "connection_mode" /\ SetConnectionMode(v)
             \/ s = "nc_button" /\ SetNcButton(v)
      PROVE  DspInv'
  BY <1>5, <1>6, <1>7, DspVerb, ModeVerb, Zenon
<1> QED BY <1>2, <1>3, <1>4, <1>7, Zenon DEF Verbs

\* The handshake sends no effect's command, and the copy has yet to be told.
LEMMA LinkUpDsp ==
  ASSUME TypesInv, DspInv, LinkUp
  PROVE  DspInv'
<1>1. queue' = Handshake /\ UNCHANGED declined /\ doubts' = {"not told"}
  BY Zenon DEF LinkUp
<1>2. \A i \in 1 .. Len(Handshake) : Handshake[i].what \notin Dsp
  <2>1. Handshake \in Seq(Queries)
    BY HandshakeAsks
  <2> QED BY <2>1, QueriesNotDsp
<1>3. DspSafe(queue', taken', headset'.connection_mode)
  BY <1>1, <1>2, Zenon DEF DspSafe
<1>4. Grounded'
  BY <1>3, Zenon DEF Grounded
<1>5. Informed'
  <2>1. doubts' # {}
    BY <1>1
  <2> QED BY <2>1, Zenon DEF Informed
<1>6. {} \notin declined'
  BY <1>1, Zenon DEF DspInv
<1> QED BY <1>4, <1>5, <1>6, Zenon DEF DspInv

\* The headset takes the first command: an effect's meets another mode, and so
\* is not declined.
LEMMA TakeDsp ==
  ASSUME TypesInv, DspInv, Take
  PROVE  DspInv'
<1> DEFINE item == Head(queue)
<1>1. /\ queue # <<>> /\ taken = FALSE /\ taken' = TRUE
      /\ UNCHANGED <<daemonVars, modeGhosts>> /\ item \in Items
      /\ TakesQuery(item) \/ TakesNoise(item) \/ TakesSetting(item) \/ TakesAlert(item)
  BY TakeIs, Zenon
<1>2. UNCHANGED <<queue, up, state, doubts, blind>> /\ queue \in Seq(Items)
  BY <1>1, Zenon DEF daemonVars, modeGhosts, TypesInv, QueueInv
<1>3. item = queue[1] /\ 1 \in 1 .. Len(queue)
  BY <1>1, <1>2
<1> HIDE DEF item
<1>0. ASSUME "connection_mode" \in Settings =>
                headset'.connection_mode = IF item.what = "connection_mode" THEN item.payload[4]
                                           ELSE headset.connection_mode
       PROVE  Grounded' /\ Informed'
  <2>1. ASSUME "connection_mode" \in Settings
        PROVE  /\ DspSafe(queue, FALSE, headset.connection_mode) => DspSafe(queue, TRUE, headset'.connection_mode)
               /\ \A v : EndMeets(queue, FALSE, headset.connection_mode, v)
                           => EndMeets(queue, TRUE, headset'.connection_mode, v)
    <3>1. headset'.connection_mode = IF queue[1].what = "connection_mode" THEN queue[1].payload[4]
                                     ELSE headset.connection_mode
      BY <1>3, <1>0, <2>1, Zenon
    <3> QED BY <1>1, <1>2, <3>1, TakenSafe
  <2>2. Grounded'
    <3> SUFFICES ASSUME "connection_mode" \in Settings, blind' = {}
                 PROVE  DspSafe(queue', taken', headset'.connection_mode)
      BY Zenon DEF Grounded
    <3>1. DspSafe(queue, FALSE, headset.connection_mode)
      BY <1>1, <1>2, Zenon DEF DspInv, Grounded
    <3> QED BY <1>1, <1>2, <2>1, <3>1, Zenon
  <2>3. Informed'
    <3> SUFFICES ASSUME "connection_mode" \in Settings, up', doubts' = {}
                 PROVE  EndMeets(queue', taken', headset'.connection_mode, state'.connection_mode)
      BY Zenon DEF Informed
    <3>1. EndMeets(queue, FALSE, headset.connection_mode, state.connection_mode)
      BY <1>1, <1>2, Zenon DEF DspInv, Informed
    <3> QED BY <1>1, <1>2, <2>1, <3>1, Zenon
  <2> QED BY <2>2, <2>3
<1>4. ASSUME UNCHANGED declined,
             "connection_mode" \in Settings =>
               headset'.connection_mode = IF item.what = "connection_mode" THEN item.payload[4]
                                          ELSE headset.connection_mode
      PROVE  DspInv'
  <2>1. {} \notin declined'
    BY <1>4, Zenon DEF DspInv
  <2>2. Grounded' /\ Informed'
    BY <1>4, <1>0
  <2> QED BY <2>1, <2>2, Zenon DEF DspInv
<1>5. ASSUME NEW s, NEW h, s # "connection_mode", HeldBut(s, headset, h), Changes(s, h)
      PROVE  "connection_mode" \in Settings => headset'.connection_mode = headset.connection_mode
  <2> SUFFICES ASSUME "connection_mode" \in Settings PROVE headset'.connection_mode = headset.connection_mode
    OBVIOUS
  <2>1. "connection_mode" \in Names \ {s} /\ "connection_mode" # "noise"
    BY <1>5, SettingsAre
  <2>2. h.connection_mode = headset.connection_mode
    BY <1>5, <2>1, Zenon DEF HeldBut
  <2> QED BY <1>5, <2>2, Zenon DEF Changes
<1>6. CASE TakesQuery(item)
  <2>1. PICK s \in Names : item = Query(s) /\ UNCHANGED <<headset, declined>>
    BY <1>6, Zenon DEF TakesQuery
  <2>2. item.what = "query"
    BY <2>1, QueryMeant, Zenon
  <2>3. item.what # "connection_mode"
    BY <2>2, NotDsp, Zenon
  <2> QED BY <1>4, <2>1, <2>3, Zenon
<1>7. CASE TakesNoise(item)
  <2>1. PICK w \in NoiseNames, on \in BOOLEAN, step \in 0 .. MaxAmbientStep, focus \in BOOLEAN : \E h :
          item = NoiseItem(w, on, step, focus) /\ HeldBut("noise", headset, h) /\ Changes("noise", h) /\ UNCHANGED declined
    BY <1>7, Zenon DEF TakesNoise
  <2>2. item.what = w
    <3>1. item = NoiseItem(w, on, step, focus)
      BY <2>1, Zenon
    <3>2. NoiseItem(w, on, step, focus).what = w
      BY NoiseMeant, Zenon
    <3> QED BY <3>1, <3>2, Zenon
  <2>3. item.what # "connection_mode"
    BY <2>2, NotDsp, Zenon
  <2>4. "noise" # "connection_mode"
    OBVIOUS
  <2> QED BY <1>4, <1>5, <2>1, <2>3, <2>4, Zenon
<1>8. ASSUME NEW s \in Settings, NEW v \in Values[s], CarriesOut(s, v),
             \/ item.what = s /\ item = SetItem(s, v)
             \/ s # "connection_mode" /\ item.what # "connection_mode"
      PROVE  DspInv'
  <2>1. PICK h : HeldBut(s, headset, h) /\ h[s] = v /\ Changes(s, h) /\ UNCHANGED declined
    BY <1>8, Zenon DEF CarriesOut
  <2>2. CASE s = "connection_mode"
    <3>1. SerializeSet("connection_mode", v) = <<232, 1, 0, v>>
      BY SetPayloads, Zenon
    <3>2. item.payload = SerializeSet("connection_mode", v)
      BY <1>8, <2>2 DEF SetItem, Item
    <3>3. item.payload[4] = v
      BY <3>1, <3>2
    <3>4. headset'.connection_mode = v
      BY <2>1, <2>2, Zenon DEF Changes
    <3> QED BY <1>4, <1>8, <2>1, <2>2, <3>3, <3>4, Zenon
  <2>3. CASE s # "connection_mode"
    <3>1. item.what # "connection_mode"
      BY <1>8, <2>3, Zenon
    <3>2. "connection_mode" \in Settings => headset'.connection_mode = headset.connection_mode
      BY <1>5, <2>1, <2>3, Zenon
    <3> QED BY <1>4, <2>1, <3>1, <3>2, Zenon
  <2> QED BY <2>2, <2>3
<1>9. CASE TakesSetting(item)
  <2>0. PICK s \in Settings : \E v \in Values[s] :
          item = SetItem(s, v) /\ (Declines(s) \/ AsksFirst(s) \/ CarriesOut(s, v))
    BY <1>9, Zenon DEF TakesSetting
  <2>1. PICK v \in Values[s] : item = SetItem(s, v) /\ (Declines(s) \/ AsksFirst(s) \/ CarriesOut(s, v))
    BY <2>0, Zenon
  <2>2. item.what = s
    BY <2>1, SettingMeant, Zenon
  <2>3. CASE Declines(s)
    <3>1. s \in Dsp /\ "connection_mode" \in Settings /\ headset.connection_mode = Quality
          /\ UNCHANGED headset /\ declined' = declined \cup {blind}
      BY <2>3, Zenon DEF Declines
    <3>2. blind # {}
      <4>1. SUFFICES ASSUME blind = {} PROVE FALSE
        OBVIOUS
      <4>2. DspSafe(queue, FALSE, headset.connection_mode)
        BY <1>1, <3>1, <4>1, Zenon DEF DspInv, Grounded
      <4>3. PICK w : w # Quality /\ Meets(queue, FALSE, headset.connection_mode, 1, w)
        BY <1>3, <2>2, <3>1, <4>2, Zenon DEF DspSafe, Met
      <4>4. ~(\E k \in 1 .. 1 - 1 : TRUE)
        OBVIOUS
      <4>5. headset.connection_mode = w
        BY <4>3, <4>4, Zenon DEF Meets
      <4> QED BY <3>1, <4>3, <4>5
    <3>3. {} \notin declined'
      <4>1. {} \notin declined
        BY Zenon DEF DspInv
      <4> QED BY <3>1, <3>2, <4>1
    <3>4. item.what # "connection_mode"
      BY <2>2, <3>1, NotDsp, Zenon
    <3>5. headset'.connection_mode = IF item.what = "connection_mode" THEN item.payload[4]
                                     ELSE headset.connection_mode
      BY <3>1, <3>4
    <3>6. Grounded' /\ Informed'
      BY <1>0, <3>5
    <3> QED BY <3>3, <3>6, Zenon DEF DspInv
  <2>4. CASE AsksFirst(s)
    <3>1. s = "nc_button" /\ UNCHANGED <<headset, declined>>
      BY <2>4, Zenon DEF AsksFirst
    <3>2. item.what # "connection_mode"
      BY <2>2, <3>1, NotDsp, Zenon
    <3> QED BY <1>4, <3>1, <3>2, Zenon
  <2>5. CASE CarriesOut(s, v)
    BY <1>8, <2>1, <2>2, <2>5, Zenon
  <2> QED BY <2>1, <2>3, <2>4, <2>5, Zenon
<1>10. CASE TakesAlert(item)
  <2>1. item.what = "alert reply"
    BY <1>10, AlertMeant, Zenon DEF TakesAlert, IsAlertItem
  <2>2. item.what # "connection_mode" /\ "nc_button" # "connection_mode"
    BY <2>1, NotDsp, Zenon
  <2>3. CASE UNCHANGED <<headset, unsure>>
    BY <1>4, <1>10, <2>2, <2>3, Zenon DEF TakesAlert
  <2>4. CASE "nc_button" \in Settings /\ \E v \in Values["nc_button"] : CarriesOut("nc_button", v)
    BY <1>8, <2>2, <2>4, Zenon
  <2> QED BY <1>10, <2>3, <2>4, Zenon DEF TakesAlert
<1> QED BY <1>1, <1>6, <1>7, <1>9, <1>10, Zenon

\* The first command leaves the queue, acknowledged or not about the mode.
LEMMA TailDsp ==
  ASSUME TypesInv, DspInv, queue # <<>>, queue' = Tail(queue), taken' = FALSE,
         UNCHANGED <<up, state, headset, declined>>, blind' = {} => blind = {}, doubts' = {} => doubts = {},
         taken = TRUE \/ queue[1].what # "connection_mode" \/ (blind' # {} /\ doubts' # {})
  PROVE  DspInv'
<1>1. queue \in Seq(Items) /\ taken \in BOOLEAN
  BY Zenon DEF TypesInv, QueueInv
<1>2. {} \notin declined'
  BY Zenon DEF DspInv
<1>3. ASSUME taken = TRUE \/ queue[1].what # "connection_mode"
      PROVE  /\ DspSafe(queue, taken, headset.connection_mode) => DspSafe(Tail(queue), FALSE, headset.connection_mode)
             /\ \A v : EndMeets(queue, taken, headset.connection_mode, v)
                         => EndMeets(Tail(queue), FALSE, headset.connection_mode, v)
  BY <1>1, <1>3, ShiftSafe
<1>4. Grounded'
  <2> SUFFICES ASSUME "connection_mode" \in Settings, blind' = {}
               PROVE  DspSafe(queue', taken', headset'.connection_mode)
    BY Zenon DEF Grounded
  <2>1. DspSafe(queue, taken, headset.connection_mode)
    BY Zenon DEF DspInv, Grounded
  <2> QED BY <1>3, <2>1, Zenon
<1>5. Informed'
  <2> SUFFICES ASSUME "connection_mode" \in Settings, up', doubts' = {}
               PROVE  EndMeets(queue', taken', headset'.connection_mode, state'.connection_mode)
    BY Zenon DEF Informed
  <2>1. EndMeets(queue, taken, headset.connection_mode, state.connection_mode)
    BY Zenon DEF DspInv, Informed
  <2> QED BY <1>3, <2>1, Zenon
<1> QED BY <1>2, <1>4, <1>5, Zenon DEF DspInv

\* A command given up is a cause if it was for the mode, and no matter otherwise.
LEMMA GiveUpDsp ==
  ASSUME TypesInv, DspInv, GiveUp
  PROVE  DspInv'
<1>1. /\ queue # <<>> /\ taken = FALSE /\ queue' = Tail(queue) /\ UNCHANGED <<up, state, headset, taken, declined>>
      /\ Blinds(IF Head(queue).what = "connection_mode" THEN {"given up"} ELSE {})
  BY Zenon DEF GiveUp, headsetVars, TypesInv, QueueInv
<1>2. Head(queue) = queue[1]
  <2>1. queue \in Seq(Items) /\ queue # <<>>
    BY <1>1, Zenon DEF TypesInv, QueueInv
  <2> QED BY <2>1
<1>3. taken' = FALSE
  BY <1>1
<1>4. /\ blind' = {} => blind = {}
      /\ doubts' = {} => doubts = {}
      /\ queue[1].what # "connection_mode" \/ (blind' # {} /\ doubts' # {})
  BY <1>1, <1>2 DEF Blinds
<1> QED BY <1>1, <1>3, <1>4, TailDsp

\* So is the headset's own change of the mode.
LEMMA OwnDsp ==
  ASSUME TypesInv, DspInv, Own
  PROVE  DspInv'
<1>1. IsHeadset(headset)
  BY Zenon DEF TypesInv, HeadsetInv
<1>2. CASE OwnQuestion
  <2>1. UNCHANGED <<up, state, queue, taken, headset, declined, doubts, blind>>
    BY <1>2, Zenon DEF OwnQuestion, daemonVars, ghostVars
  <2> QED BY <2>1, Zenon DEF DspInv, Grounded, Informed
<1>3. ASSUME NEW s \in Names, NEW h, HeldBut(s, headset, h), OwnChange(s, h)
      PROVE  DspInv'
  <2>1. /\ UNCHANGED <<up, state, queue, taken, declined>> /\ headset' = h
        /\ Blinds(IF s = "connection_mode" THEN {"own change"} ELSE {})
    BY <1>3, Zenon DEF OwnChange, daemonVars
  <2>2. CASE s = "connection_mode"
    <3>1. blind' # {} /\ doubts' # {}
      BY <2>1, <2>2 DEF Blinds
    <3>2. {} \notin declined'
      BY <2>1, Zenon DEF DspInv
    <3> QED BY <3>1, <3>2, Zenon DEF DspInv, Grounded, Informed
  <2>3. CASE s # "connection_mode"
    <3>1. blind' = blind /\ doubts' = doubts
      BY <2>1, <2>3 DEF Blinds
    <3>2. ASSUME "connection_mode" \in Settings
          PROVE  headset'.connection_mode = headset.connection_mode
      <4>1. "connection_mode" \in Names \ {s} /\ "connection_mode" # "noise"
        BY <2>3, <3>2, SettingsAre
      <4> QED BY <1>3, <2>1, <4>1, Zenon DEF HeldBut
    <3>3. Grounded'
      <4> SUFFICES ASSUME "connection_mode" \in Settings, blind' = {}
                   PROVE  DspSafe(queue', taken', headset'.connection_mode)
        BY Zenon DEF Grounded
      <4>1. DspSafe(queue, taken, headset.connection_mode)
        BY <3>1, Zenon DEF DspInv, Grounded
      <4> QED BY <2>1, <3>2, <4>1, Zenon
    <3>4. Informed'
      <4> SUFFICES ASSUME "connection_mode" \in Settings, up', doubts' = {}
                   PROVE  EndMeets(queue', taken', headset'.connection_mode, state'.connection_mode)
        BY Zenon DEF Informed
      <4>1. EndMeets(queue, taken, headset.connection_mode, state.connection_mode)
        BY <2>1, <3>1, Zenon DEF DspInv, Informed
      <4> QED BY <2>1, <3>2, <4>1, Zenon
    <3>5. {} \notin declined'
      BY <2>1, Zenon DEF DspInv
    <3> QED BY <3>3, <3>4, <3>5, Zenon DEF DspInv
  <2> QED BY <2>2, <2>3
<1> QED BY <1>1, <1>2, <1>3, OwnIs, Zenon

\* A report of the mode that nothing has overtaken says what the mode is, and what
\* it will be.
LEMMA ReportKnows ==
  ASSUME TypesInv, TypesInv', ToldInv, HandleFrame, Reported(inAir[1]), "connection_mode" \in Settings,
         TellsMode(inAir[1]), ~Overtaken
  PROVE  EndMeets(queue', taken', headset'.connection_mode, state'.connection_mode)
<1> DEFINE fr == inAir[1]
           mode == "connection_mode"
<1>1. /\ inAir # <<>> /\ UNCHANGED <<headset, queue, taken>> /\ inAir \in Seq(Frames) /\ queue \in Seq(Items)
      /\ IsCopy(state) /\ IsHeadset(headset)
  BY FrameHandled, Zenon DEF Reported, TypesInv, StreamInv, StreamOf, QueueInv, CopyInv, HeadsetInv
<1>2. mode \in Names /\ mode # "noise" /\ Key(mode) = mode
  BY SettingsAre DEF Key
<1>3. \A f : TellsMode(f) <=> Tells(f, mode)
  BY <1>2 DEF TellsMode, Tells
<1>4. PICK r \in Names : \E h : IsHeadset(h) /\ Says(fr, FieldsOf(r, h)) /\ state' = ToldOf(state, r, h)
  BY Zenon DEF Reported
<1>5. PICK h : IsHeadset(h) /\ Says(fr, FieldsOf(r, h)) /\ state' = ToldOf(state, r, h)
  BY <1>4, Zenon
<1>6. r = mode
  BY <1>2, <1>3, <1>5, TellsOne, Zenon
<1>7. Untold(Tail(inAir), mode)
  <2>1. Len(inAir) \in Nat /\ \A i \in 1 .. Len(Tail(inAir)) : Tail(inAir)[i] = inAir[i + 1] /\ i + 1 \in 2 .. Len(inAir)
    BY <1>1
  <2>2. \A i \in 2 .. Len(inAir) : ~Tells(inAir[i], mode)
    BY <1>3, Zenon DEF Overtaken
  <2> QED BY <2>1, <2>2, Zenon DEF Untold
<1>8. Fields(fr) = FieldsOf(mode, headset)
  <2>1. LastTells(inAir, mode, headset)
    BY <1>2, Zenon DEF ToldInv, ToldOn
  <2>2. Tells(fr, mode)
    BY <1>3
  <2> QED BY <1>1, <1>7, <2>1, <2>2, TellTail
<1>9. state' = ToldOf(state, mode, headset)
  <2>1. FieldsOf(mode, h) = FieldsOf(mode, headset)
    BY <1>5, <1>6, <1>8, Zenon DEF Says
  <2> QED BY <1>5, <1>6, <2>1, Zenon DEF ToldOf
<1>10. state'.connection_mode = headset.connection_mode
  <2>1. Agrees(mode, ToldOf(state, mode, headset), headset)
    BY <1>1, <1>2, ToldAgrees, Zenon
  <2>2. Agrees(mode, state', headset)
    BY <1>9, <2>1, Zenon
  <2> QED BY <1>2, <2>2, Zenon DEF Agrees
<1>11. \A j \in 1 .. (Len(queue) + 1) - 1 : ~ModeAt(queue, taken, j)
  <2>1. \A j \in 1 .. Len(queue) : ~ModeAt(queue, taken, j)
    BY Zenon DEF Overtaken, ModeAt
  <2>2. (Len(queue) + 1) - 1 = Len(queue)
    BY <1>1
  <2> QED BY <2>1, <2>2
<1> QED BY <1>1, <1>10, <1>11, Zenon DEF EndMeets, Meets

\* A report that does not tell the mode leaves it in the copy.
LEMMA ReportLeavesMode ==
  ASSUME IsCopy(state), NEW fr, Reported(fr), "connection_mode" \in Settings, ~TellsMode(fr)
  PROVE  state'.connection_mode = state.connection_mode
<1> DEFINE mode == "connection_mode"
<1>1. mode \in Names /\ mode # "noise" /\ Key(mode) = mode
  BY SettingsAre DEF Key
<1>2. ~Tells(fr, mode)
  BY <1>1 DEF TellsMode, Tells
<1>3. PICK r \in Names : \E h : IsHeadset(h) /\ Says(fr, FieldsOf(r, h)) /\ state' = ToldOf(state, r, h)
  BY Zenon DEF Reported
<1>4. PICK h : IsHeadset(h) /\ Says(fr, FieldsOf(r, h)) /\ state' = ToldOf(state, r, h)
  BY <1>3, Zenon
<1>5. mode # r
  BY <1>1, <1>2, <1>4, TellsOne, Zenon
<1>6. SameBut(r, state, ToldOf(state, r, h))
  BY <1>4, ToldAgrees, Zenon
<1>7. mode \in Names \ {r}
  BY <1>1, <1>5
<1> QED BY <1>1, <1>4, <1>6, <1>7, Zenon DEF SameBut

\* A frame keeps it: an acknowledgement is of a command taken, an answer is no
\* effect's, and a report tells the mode to be or is doubted.
LEMMA FrameDsp ==
  ASSUME Kept, Kept', ToldInv, DspInv, HandleFrame
  PROVE  DspInv'
<1>1. TypesInv /\ AcksInv /\ TypesInv'
  BY Zenon DEF Kept
<1>2. /\ inAir # <<>> /\ inAir[1] \in Frames
      /\ UNCHANGED <<up, headset, blind, declined>> /\ doubts' = DoubtsAfter(inAir[1])
      /\ Acknowledged(inAir[1]) \/ Asked(inAir[1]) \/ Reported(inAir[1])
  BY <1>1, FrameHandled, Zenon
<1>3. queue \in Seq(Items) /\ inAir \in Seq(Frames) /\ taken \in BOOLEAN /\ (taken => queue # <<>>) /\ IsCopy(state)
  BY <1>1, Zenon DEF TypesInv, QueueInv, StreamInv, StreamOf, CopyInv
<1>4. ASSUME inAir[1].type = ACK \/ IsQuestion(inAir[1])
      PROVE  doubts' = doubts
  <2>1. ~Tells(inAir[1], "connection_mode") /\ Key("connection_mode") = "connection_mode"
    BY <1>4, OthersTellNothing DEF Key
  <2>2. ~TellsMode(inAir[1])
    BY <2>1, Zenon DEF Tells, TellsMode
  <2> QED BY <1>2, <2>2, Zenon DEF DoubtsAfter
<1>5. CASE Acknowledged(inAir[1])
  <2>1. inAir[1].type = ACK /\ queue' = Tail(queue) /\ taken' = FALSE /\ state' = state
    BY <1>5, Zenon DEF Acknowledged
  <2>2. 1 \in 1 .. Len(inAir)
    BY <1>2, <1>3
  <2>3. taken = TRUE
    BY <1>1, <1>3, <2>1, <2>2, Zenon DEF AcksInv, AckedOnce
  <2>4. doubts' = doubts
    BY <1>4, <2>1
  <2> QED BY <1>1, <1>2, <1>3, <2>1, <2>3, <2>4, TailDsp
<1>6. CASE Asked(inAir[1])
  <2>1. PICK yes \in BOOLEAN : queue' = Append(queue, AlertItem(inAir[1].payload[3], yes))
    BY <1>6, Zenon DEF Asked
  <2>2. IsQuestion(inAir[1]) /\ inAir[1].payload[3] \in {ConnectionModeChange, KeyAssignChange}
        /\ UNCHANGED <<taken, state>>
    BY <1>6, Zenon DEF Asked, IsQuestion
  <2> DEFINE item == AlertItem(inAir[1].payload[3], yes)
  <2>3. item \in Items /\ item.what = "alert reply"
    BY <2>2, ItemsAre, AlertMeant, Zenon
  <2>4. Added(queue, item, queue')
    BY <2>1, Zenon DEF Added, Coalesced
  <2>5. item.what \notin Dsp /\ item.what # "connection_mode"
    BY <2>3, NotDsp, Zenon
  <2> HIDE DEF item
  <2>6. GrowsQuietly(queue, queue')
    BY <1>3, <2>3, <2>4, <2>5, AddedGrows
  <2>7. doubts' = doubts
    BY <1>4, <2>2
  <2> QED BY <1>1, <1>2, <2>2, <2>6, <2>7, GrowKeeps
<1>7. CASE Reported(inAir[1])
  <2>1. UNCHANGED <<queue, taken>>
    BY <1>7, Zenon DEF Reported
  <2>2. {} \notin declined'
    BY <1>2, Zenon DEF DspInv
  <2>3. Grounded'
    BY <1>2, <2>1, Zenon DEF DspInv, Grounded
  <2>4. Informed'
    <3> SUFFICES ASSUME "connection_mode" \in Settings, up', doubts' = {}
                 PROVE  EndMeets(queue', taken', headset'.connection_mode, state'.connection_mode)
      BY Zenon DEF Informed
    <3>1. CASE TellsMode(inAir[1])
      <4>1. ~Overtaken
        <5>1. SUFFICES ASSUME Overtaken PROVE FALSE
          OBVIOUS
        <5>2. doubts' = (doubts \ {"not told"}) \cup {"overtaken"}
          BY <1>2, <3>1, <5>1, Zenon DEF DoubtsAfter
        <5> QED BY <5>2
      <4> QED BY <1>1, <1>7, <3>1, <4>1, ReportKnows
    <3>2. CASE ~TellsMode(inAir[1])
      <4>1. doubts = {} /\ up
        BY <1>2, <3>2, Zenon DEF DoubtsAfter
      <4>2. EndMeets(queue, taken, headset.connection_mode, state.connection_mode)
        BY <4>1, Zenon DEF DspInv, Informed
      <4>3. state'.connection_mode = state.connection_mode
        BY <1>3, <1>7, <3>2, ReportLeavesMode, Zenon
      <4> QED BY <1>2, <2>1, <4>2, <4>3, Zenon
    <3> QED BY <3>1, <3>2
  <2> QED BY <2>2, <2>3, <2>4, Zenon DEF DspInv
<1> QED BY <1>2, <1>5, <1>6, <1>7, Zenon

\* The headset is provoked only by a daemon that could not know: on a link that
\* has told it the mode, with every change of it asked for here, none given up and
\* no report read that was overtaken, each equalizer command meets the mode it was
\* let through for, whatever waits in the queue before it.
THEOREM OnlyBlindProvokes == Spec => []NeverProvokes
<1>1. Init => Kept /\ ToldInv /\ DspInv
  <2> SUFFICES ASSUME Init PROVE Kept /\ ToldInv /\ DspInv
    OBVIOUS
  <2>1. declined = {} /\ queue = <<>> /\ up = FALSE
    BY Zenon DEF Init
  <2>2. DspSafe(<<>>, taken, headset.connection_mode)
    BY DEF DspSafe
  <2>3. {} \notin declined
    BY <2>1
  <2>4. Grounded /\ Informed
    BY <2>1, <2>2, Zenon DEF Grounded, Informed
  <2>5. DspInv
    BY <2>3, <2>4, Zenon DEF DspInv
  <2> QED BY <2>5, InitKept, InitTold
<1>2. Kept /\ ToldInv /\ DspInv /\ [Next]_vars => Kept' /\ ToldInv' /\ DspInv'
  <2> SUFFICES ASSUME Kept, ToldInv, DspInv, [Next]_vars PROVE Kept' /\ ToldInv' /\ DspInv'
    OBVIOUS
  <2>1. Kept' /\ ToldInv' /\ TypesInv
    BY StepTold, Zenon DEF Kept
  <2>2. CASE LinkUp
    BY <2>1, <2>2, LinkUpDsp
  <2>3. CASE LinkDown
    <3>1. queue' = <<>> /\ up' = FALSE /\ UNCHANGED declined
      BY <2>3, Zenon DEF LinkDown
    <3>2. DspSafe(<<>>, taken', headset'.connection_mode)
      BY DEF DspSafe
    <3>3. {} \notin declined'
      BY <3>1, Zenon DEF DspInv
    <3>4. Grounded' /\ Informed'
      BY <3>1, <3>2, Zenon DEF Grounded, Informed
    <3>5. DspInv'
      BY <3>3, <3>4, Zenon DEF DspInv
    <3> QED BY <2>1, <3>5
  <2>4. CASE Verbs
    BY <2>1, <2>4, VerbsDsp
  <2>5. CASE Take
    BY <2>1, <2>5, TakeDsp
  <2>6. CASE GiveUp
    BY <2>1, <2>6, GiveUpDsp
  <2>7. CASE Own
    BY <2>1, <2>7, OwnDsp
  <2>8. CASE Read \/ UNCHANGED vars
    <3>1. UNCHANGED <<up, state, queue, taken, headset, declined, doubts, blind>>
      BY <2>8, Zenon DEF Read, vars, daemonVars, headsetVars, ghostVars
    <3>2. DspInv'
      BY <3>1, Zenon DEF DspInv, Grounded, Informed
    <3> QED BY <2>1, <3>2
  <2>9. CASE HandleFrame
    BY <2>1, <2>9, FrameDsp
  <2> QED BY <2>2, <2>3, <2>4, <2>5, <2>6, <2>7, <2>8, <2>9, Zenon DEF Next
<1>3. Kept /\ ToldInv /\ DspInv => NeverProvokes
  BY Zenon DEF DspInv, NeverProvokes
<1> QED BY <1>1, <1>2, <1>3, PTL DEF Spec

-----------------------------------------------------------------------------
(* Alerts. *)

\* The flag stands for one request not yet used, also across links.
FlagIsOneRequest ==
  /\ credit \in Int /\ keyAssignRequested \in BOOLEAN
  /\ credit >= 0 /\ (keyAssignRequested = TRUE => credit >= 1)

\* Only the verb for the button and the handling of a frame touch either.
LEMMA OthersLeave ==
  ASSUME \/ LinkUp \/ LinkDown \/ Take \/ GiveUp \/ Own \/ Read \/ UNCHANGED vars
         \/ \E m, l : SetNoiseMode(m, l) \/ SetAmbientLevel(l) \/ SetVoiceFocus(m)
         \/ \E s, v : SetDsp(s, v) \/ SetPlain(s, v) \/ SetConnectionMode(v)
  PROVE  UNCHANGED <<credit, keyAssignRequested>>
<1>1. LinkUp \/ LinkDown => UNCHANGED <<credit, keyAssignRequested>>
  BY DEF LinkUp, LinkDown, ghostVars
<1>2. Take \/ GiveUp \/ Read => UNCHANGED <<credit, keyAssignRequested>>
  BY DEF Take, GiveUp, Read, daemonVars, ghostVars
<1>3. Own => UNCHANGED <<credit, keyAssignRequested>>
  <2>1. \A s, h : OwnChange(s, h) => UNCHANGED <<credit, keyAssignRequested>>
    BY DEF OwnChange, daemonVars
  <2>2. OwnQuestion => UNCHANGED <<credit, keyAssignRequested>>
    BY DEF OwnQuestion, daemonVars, ghostVars
  <2> QED BY <2>1, <2>2, Zenon DEF Own
<1>4. \A m, l : SetNoiseMode(m, l) \/ SetAmbientLevel(l) \/ SetVoiceFocus(m)
                => UNCHANGED <<credit, keyAssignRequested>>
  <2>1. \A m, l : SetNoiseMode(m, l) => UNCHANGED <<credit, keyAssignRequested>>
    BY Zenon DEF SetNoiseMode, SetterLeaves
  <2>2. \A l : SetAmbientLevel(l) => UNCHANGED <<credit, keyAssignRequested>>
    BY Zenon DEF SetAmbientLevel, SetterLeaves
  <2>3. \A m : SetVoiceFocus(m) => UNCHANGED <<credit, keyAssignRequested>>
    BY Zenon DEF SetVoiceFocus, SetterLeaves
  <2> QED BY <2>1, <2>2, <2>3, Zenon
<1>5. \A s, v : SetDsp(s, v) \/ SetPlain(s, v) \/ SetConnectionMode(v)
                => UNCHANGED <<credit, keyAssignRequested>>
  BY DEF SetDsp, SetPlain, SetConnectionMode, SetterLeaves
<1>6. UNCHANGED vars => UNCHANGED <<credit, keyAssignRequested>>
  BY DEF vars, daemonVars, ghostVars
<1> QED BY <1>1, <1>2, <1>3, <1>4, <1>5, <1>6

\* IpcServer's nc-button verb and its setter in main.cpp.
LEMMA ButtonAsksOnce ==
  ASSUME FlagIsOneRequest, NEW v, SetNcButton(v)
  PROVE  FlagIsOneRequest'
BY DEF FlagIsOneRequest, SetNcButton

\* onDataReceived: a yes uses the flag up, and any alert clears it.
LEMMA FrameAnswersOnce ==
  ASSUME FlagIsOneRequest, HandleFrame
  PROVE  FlagIsOneRequest'
<1>1. \/ UNCHANGED <<credit, keyAssignRequested>>
      \/ \E alert, proceed \in BOOLEAN :
           /\ proceed => alert /\ keyAssignRequested
           /\ IF alert THEN keyAssignRequested' = FALSE ELSE UNCHANGED keyAssignRequested
           /\ credit' = credit - Bit(proceed)
  BY DEF HandleFrame, Proceeds
<1>2. ASSUME NEW alert \in BOOLEAN, NEW proceed \in BOOLEAN,
             proceed => alert /\ keyAssignRequested,
             IF alert THEN keyAssignRequested' = FALSE ELSE UNCHANGED keyAssignRequested,
             credit' = credit - Bit(proceed)
      PROVE  FlagIsOneRequest'
  <2>1. CASE proceed
    <3>1. credit' = credit - 1 /\ keyAssignRequested' = FALSE /\ credit >= 1 /\ credit \in Int
      BY <1>2, <2>1 DEF FlagIsOneRequest, Bit
    <3>2. keyAssignRequested' \in BOOLEAN /\ ~(keyAssignRequested' = TRUE)
      BY <3>1, Zenon
    <3>3. credit' \in Int /\ credit' >= 0
      BY <3>1
    <3> QED BY <3>2, <3>3 DEF FlagIsOneRequest
  <2>2. CASE ~proceed
    <3>1. credit' = credit - 0
      BY <1>2, <2>2 DEF Bit
    <3>2. credit \in Int /\ credit' = credit
      BY <3>1 DEF FlagIsOneRequest
    <3>3. keyAssignRequested' = FALSE \/ keyAssignRequested' = keyAssignRequested
      BY <1>2
    <3>4. credit >= 0 /\ (keyAssignRequested => credit >= 1) /\ keyAssignRequested \in BOOLEAN
      BY DEF FlagIsOneRequest
    <3> QED BY <3>2, <3>3, <3>4 DEF FlagIsOneRequest
  <2> QED BY <2>1, <2>2
<1>3. CASE UNCHANGED <<credit, keyAssignRequested>>
  BY <1>3 DEF FlagIsOneRequest
<1> QED BY <1>1, <1>2, <1>3

\* The headset asks before the button is changed, and the daemon answers yes no
\* more often than the user asked for a change: keyAssignRequested is set by the
\* request and cleared by the first alert, whatever links were lost between.
THEOREM NoUnaskedYes == Spec => []YesOnlyAsked
<1>1. Init => FlagIsOneRequest
  <2> SUFFICES ASSUME Init PROVE FlagIsOneRequest
    OBVIOUS
  <2>1. keyAssignRequested = FALSE /\ credit = 0
    BY Zenon DEF Init
  <2>2. keyAssignRequested \in BOOLEAN /\ ~(keyAssignRequested = TRUE)
    BY <2>1, Zenon
  <2>3. credit \in Int /\ credit >= 0
    BY <2>1
  <2> QED BY <2>2, <2>3 DEF FlagIsOneRequest
<1>2. FlagIsOneRequest /\ [Next]_vars => FlagIsOneRequest'
  <2> SUFFICES ASSUME FlagIsOneRequest, [Next]_vars PROVE FlagIsOneRequest'
    OBVIOUS
  <2>1. CASE HandleFrame
    BY <2>1, FrameAnswersOnce
  <2>2. CASE \E v : SetNcButton(v)
    BY <2>2, ButtonAsksOnce
  <2>3. CASE UNCHANGED <<credit, keyAssignRequested>>
    BY <2>3 DEF FlagIsOneRequest
  <2>4. CASE Verbs
    <3>1. CASE \E m, l : SetNoiseMode(m, l) \/ SetAmbientLevel(l) \/ SetVoiceFocus(m)
      BY <2>3, <3>1, OthersLeave
    <3>2. CASE \E s, v : SetDsp(s, v) \/ SetPlain(s, v) \/ SetConnectionMode(v)
      BY <2>3, <3>2, OthersLeave
    <3> QED BY <2>2, <2>4, <3>1, <3>2, Zenon DEF Verbs
  <2>5. CASE LinkUp \/ LinkDown \/ Take \/ GiveUp \/ Own \/ Read \/ UNCHANGED vars
    BY <2>3, <2>5, OthersLeave
  <2> QED BY <2>1, <2>4, <2>5 DEF Next
<1>3. FlagIsOneRequest => YesOnlyAsked
  BY DEF FlagIsOneRequest, YesOnlyAsked
<1> QED BY <1>1, <1>2, <1>3, PTL DEF Spec

=============================================================================
