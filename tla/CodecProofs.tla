----------------------------- MODULE CodecProofs -----------------------------
(***************************************************************************)
(* The wire format, for frames of any type, sequence bit and payload: what *)
(* is packed is what is unpacked, escapes and checksum included, and the   *)
(* framer finds each frame in a stream of them wherever reads cut it.      *)
(***************************************************************************)
EXTENDS MdrCodec, Recursion, SequenceTheorems

-----------------------------------------------------------------------------
(* Sequences, one element at a time. *)

\* Induction over sequences, for the members of a set.
LEMMA SeqInduction ==
  ASSUME NEW S, NEW T, <<>> \in T,
         \A s \in Seq(S) : \A x \in S : s \in T => Append(s, x) \in T
  PROVE  Seq(S) \subseteq T
<1> SUFFICES ASSUME NEW s \in Seq(S) PROVE s \in T
  OBVIOUS
<1> DEFINE U == {n \in 0 .. Len(s) : SubSeq(s, 1, n) \in T}
<1>1. Len(s) \in Nat
  BY LenProperties
<1>2. 0 \in U
  <2>1. SubSeq(s, 1, 0) = <<>>
    BY SubSeqEmpty
  <2>2. 0 \in 0 .. Len(s)
    BY <1>1
  <2> QED BY <2>1, <2>2, Zenon
<1>3. \A n \in 0 + 1 .. Len(s) : n - 1 \in U => n \in U
  <2> SUFFICES ASSUME NEW n \in 1 .. Len(s), SubSeq(s, 1, n - 1) \in T
               PROVE  SubSeq(s, 1, n) \in T
    BY <1>1
  <2>1. s[n] \in S
    BY ElementOfSeq
  <2>2. SubSeq(s, 1, n - 1) \in Seq(S) /\ SubSeq(s, 1, n) = Append(SubSeq(s, 1, n - 1), s[n])
    OBVIOUS
  <2> QED BY <2>1, <2>2
<1> HIDE DEF U
<1>4. 0 .. Len(s) \subseteq U
  BY <1>1, <1>2, <1>3, InductionTo
<1>5. SubSeq(s, 1, Len(s)) \in T
  BY <1>1, <1>4 DEF U
<1> QED BY <1>5, SubSeqFull

\* A sequence and one element more, as a function.
LEMMA AppendIs ==
  ASSUME NEW S, NEW q \in Seq(S), NEW x \in S
  PROVE  Append(q, x) = [i \in 1 .. Len(q) + 1 |-> IF i = Len(q) + 1 THEN x ELSE q[i]]
<1> DEFINE w == [i \in 1 .. Len(q) + 1 |-> IF i = Len(q) + 1 THEN x ELSE q[i]]
<1>1. Len(q) \in Nat /\ \A i \in 1 .. Len(q) : q[i] \in S
  BY LenProperties, ElementOfSeq
<1>2. \A i \in 1 .. Len(q) + 1 : (IF i = Len(q) + 1 THEN x ELSE q[i]) \in S
  BY <1>1
<1>3. w \in Seq(S)
  BY <1>1, <1>2
<1>4. Len(w) = Len(q) + 1
  BY <1>1, <1>3
<1>5. \A i \in 1 .. Len(q) + 1 : w[i] = IF i = Len(q) + 1 THEN x ELSE q[i]
  OBVIOUS
<1> HIDE DEF w
<1>6. /\ Append(q, x) \in Seq(S) /\ Len(Append(q, x)) = Len(q) + 1
      /\ \A i \in 1 .. Len(q) : Append(q, x)[i] = q[i]
      /\ Append(q, x)[Len(q) + 1] = x
  BY AppendProperties
<1>7. \A i \in 1 .. Len(q) + 1 : Append(q, x)[i] = w[i]
  <2> SUFFICES ASSUME NEW i \in 1 .. Len(q) + 1 PROVE Append(q, x)[i] = w[i]
    OBVIOUS
  <2>1. i = Len(q) + 1 \/ (i # Len(q) + 1 /\ i \in 1 .. Len(q))
    BY <1>1
  <2> QED BY <1>5, <1>6, <2>1
<1>8. Append(q, x) = w
  BY <1>3, <1>4, <1>6, <1>7, SeqEqual
<1> QED BY <1>8 DEF w

\* What FlattenSeq computes.
LEMMA FlattenAre ==
  ASSUME NEW S, NEW ps \in Seq(Seq(S)), ps # <<>>
  PROVE  \E f : /\ FlattenSeq(ps) = f[Len(ps)] /\ f[1] = ps[1]
                /\ \A i \in 2 .. Len(ps) : f[i] = f[i - 1] \o ps[i]
                /\ \A i \in 1 .. Len(ps) : f[i] \in Seq(S)
<1> DEFINE n == Len(ps)
           X == Seq(S)
           g == [p \in (1 + 1 .. n) \X X |-> p[2] \o ps[p[1]]]
           IsFlat(f) == f = [i \in 1 .. n |-> IF i = 1 THEN ps[i] ELSE f[i - 1] \o ps[i]]
           h == CHOOSE f : IsFlat(f)
<1>1. n \in Nat /\ n # 0
  BY LenProperties, EmptySeq
<1>2. \A i \in 1 .. n : ps[i] \in X
  BY ElementOfSeq
<1>3. g \in [(1 + 1 .. n) \X X -> X] /\ \A i \in 1 + 1 .. n : \A x \in X : g[<<i, x>>] = x \o ps[i]
  <2>1. \A i \in 1 + 1 .. n : \A x \in X : x \o ps[i] \in X
    <3> SUFFICES ASSUME NEW i \in 1 + 1 .. n, NEW x \in X PROVE x \o ps[i] \in X
      OBVIOUS
    <3>1. ps[i] \in X
      BY <1>1, <1>2
    <3> QED BY <3>1, ConcatProperties
  <2> HIDE DEF X
  <2> QED BY <2>1
<1>4. FlattenSeq(ps) = h[n]
  <2>1. Len(ps) # 0
    BY <1>1
  <2> QED BY <2>1, Zenon DEF FlattenSeq
<1> HIDE DEF g, n
<1>5. PICK f : Recursive(f, g, ps[1], 1, n)
  BY <1>1, RecursiveExists
<1>6. f = [i \in 1 .. n |-> IF i = 1 THEN ps[1] ELSE g[<<i, f[i - 1]>>]]
  BY <1>5, Zenon DEF Recursive
<1>7. \A i \in 1 .. n : f[i] \in X
  <2>1. ps[1] \in X
    BY <1>1, <1>2
  <2> HIDE DEF X
  <2> QED BY <1>1, <1>3, <1>5, <2>1, RecursiveTypes
<1>8. \A i \in 1 .. n : f[i] = IF i = 1 THEN ps[i] ELSE f[i - 1] \o ps[i]
  <2> SUFFICES ASSUME NEW i \in 1 .. n PROVE f[i] = IF i = 1 THEN ps[i] ELSE f[i - 1] \o ps[i]
    OBVIOUS
  <2>1. i # 1 => i - 1 \in 1 .. n /\ i \in 1 + 1 .. n
    BY <1>1
  <2> HIDE DEF X
  <2>2. i # 1 => g[<<i, f[i - 1]>>] = f[i - 1] \o ps[i]
    BY <1>3, <1>7, <2>1
  <2> QED BY <1>6, <2>2
<1>9. IsFlat(f)
  <2>1. [i \in 1 .. n |-> IF i = 1 THEN ps[1] ELSE g[<<i, f[i - 1]>>]]
          = [i \in 1 .. n |-> IF i = 1 THEN ps[i] ELSE f[i - 1] \o ps[i]]
    BY <1>6, <1>8
  <2> QED BY <1>6, <2>1
<1>10. IsFlat(h)
  BY <1>9, Zenon
<1> HIDE DEF h
<1>11. \A i \in 1 .. n : h[i] = IF i = 1 THEN ps[i] ELSE h[i - 1] \o ps[i]
  <2>1. \A k, D : k = [i \in D |-> IF i = 1 THEN ps[i] ELSE k[i - 1] \o ps[i]]
                    => \A i \in D : k[i] = IF i = 1 THEN ps[i] ELSE k[i - 1] \o ps[i]
    BY Zenon
  <2> QED BY <1>10, <2>1, Zenon
<1>12. h[1] = ps[1] /\ \A i \in 2 .. n : h[i] = h[i - 1] \o ps[i]
  <2>1. 1 \in 1 .. n /\ \A i \in 2 .. n : i \in 1 .. n /\ i # 1
    BY <1>1
  <2> QED BY <1>11, <2>1, Zenon
<1> DEFINE T == {i \in 1 .. n : h[i] \in X}
<1>13. 1 \in T /\ \A i \in 1 + 1 .. n : i - 1 \in T => i \in T
  <2>1. 1 \in T
    BY <1>1, <1>2, <1>12
  <2>2. ASSUME NEW i \in 2 .. n, h[i - 1] \in X PROVE h[i] \in X
    <3>1. i \in 1 .. n
      BY <1>1
    <3>2. ps[i] \in X /\ h[i] = h[i - 1] \o ps[i]
      BY <1>2, <1>12, <3>1, Zenon
    <3> QED BY <2>2, <3>2, ConcatProperties, Zenon
  <2> HIDE DEF X
  <2> QED BY <2>1, <2>2
<1> HIDE DEF T, X
<1>14. 1 .. n \subseteq T
  BY <1>1, <1>13, InductionTo
<1>15. \A i \in 1 .. n : h[i] \in X
  BY <1>14 DEF T
<1> QED BY <1>4, <1>12, <1>15 DEF n, X

\* No sequences flatten to an empty one.
LEMMA FlattenOfNothing == FlattenSeq(<<>>) = <<>>
BY DEF FlattenSeq

\* A piece more.
LEMMA FlattenAppend ==
  ASSUME NEW S, NEW ps \in Seq(Seq(S)), NEW p \in Seq(S)
  PROVE  FlattenSeq(ps) \in Seq(S) /\ FlattenSeq(Append(ps, p)) = FlattenSeq(ps) \o p
<1> DEFINE qs == Append(ps, p)
           n == Len(ps)
<1>1. /\ n \in Nat /\ qs \in Seq(Seq(S)) /\ qs # <<>> /\ Len(qs) = n + 1 /\ qs[n + 1] = p
      /\ \A i \in 1 .. n : qs[i] = ps[i]
  BY AppendProperties, LenProperties
<1> HIDE DEF qs, n
<1>2. PICK g : /\ FlattenSeq(qs) = g[n + 1] /\ g[1] = qs[1]
               /\ \A i \in 2 .. n + 1 : g[i] = g[i - 1] \o qs[i]
  <2>1. PICK g : /\ FlattenSeq(qs) = g[Len(qs)] /\ g[1] = qs[1]
                 /\ \A i \in 2 .. Len(qs) : g[i] = g[i - 1] \o qs[i]
                 /\ \A i \in 1 .. Len(qs) : g[i] \in Seq(S)
    <3>1. qs \in Seq(Seq(S)) /\ qs # <<>>
      BY <1>1
    <3> QED BY <3>1, FlattenAre, Zenon
  <2> QED BY <1>1, <2>1
<1>3. CASE ps = <<>>
  <2>1. n = 0
    BY <1>3, EmptySeq DEF n
  <2>2. FlattenSeq(ps) = <<>>
    BY <1>3, FlattenOfNothing
  <2>3. FlattenSeq(qs) = p
    BY <1>1, <1>2, <2>1
  <2> QED BY <2>2, <2>3, ConcatEmptySeq, EmptySeq DEF qs
<1>4. CASE ps # <<>>
  <2>1. PICK f : /\ FlattenSeq(ps) = f[n] /\ f[1] = ps[1]
                 /\ \A i \in 2 .. n : f[i] = f[i - 1] \o ps[i]
                 /\ \A i \in 1 .. n : f[i] \in Seq(S)
    BY <1>4, FlattenAre DEF n
  <2>2. n \in 1 .. n
    BY <1>1, <1>4, EmptySeq DEF n
  <2> DEFINE T == {i \in 1 .. n : f[i] = g[i]}
  <2>3. 1 \in T
    BY <1>1, <1>2, <2>1, <2>2
  <2>4. \A i \in 1 + 1 .. n : i - 1 \in T => i \in T
    <3> SUFFICES ASSUME NEW i \in 1 + 1 .. n, f[i - 1] = g[i - 1] PROVE i \in 1 .. n /\ f[i] = g[i]
      BY Zenon
    <3>0. i \in 2 .. n
      OBVIOUS
    <3>1. i \in 2 .. n + 1 /\ i \in 1 .. n
      BY <1>1, <3>0
    <3> QED BY <1>1, <1>2, <2>1, <3>0, <3>1
  <2> HIDE DEF T
  <2>5. 1 .. n \subseteq T
    BY <1>1, <2>3, <2>4, InductionTo
  <2>6. f[n] = g[n]
    BY <2>2, <2>5 DEF T
  <2>7. n + 1 \in 2 .. n + 1 /\ (n + 1) - 1 = n
    BY <1>1, <2>2
  <2>8. g[n + 1] = g[n] \o p
    BY <1>1, <1>2, <2>7
  <2> QED BY <1>2, <2>1, <2>2, <2>6, <2>8 DEF qs
<1> QED BY <1>3, <1>4

\* Pieces, and more pieces.
LEMMA FlattenConcat ==
  ASSUME NEW S, NEW ps \in Seq(Seq(S)), NEW qs \in Seq(Seq(S))
  PROVE  FlattenSeq(ps \o qs) = FlattenSeq(ps) \o FlattenSeq(qs)
<1> DEFINE X == Seq(S)
           T == {q \in Seq(X) : FlattenSeq(ps \o q) = FlattenSeq(ps) \o FlattenSeq(q)}
<1>1. \A q \in Seq(X) : FlattenSeq(q) \in X
  <2>1. <<>> \in X
    BY EmptySeq
  <2> QED BY <2>1, FlattenAppend
<1>2. <<>> \in T
  <2>1. ps \o <<>> = ps /\ <<>> \in Seq(X)
    BY ConcatEmptySeq, EmptySeq
  <2>2. FlattenSeq(ps) \o <<>> = FlattenSeq(ps)
    BY <1>1, ConcatEmptySeq
  <2> QED BY <2>1, <2>2, FlattenOfNothing
<1>3. \A q \in Seq(X) : \A x \in X : q \in T => Append(q, x) \in T
  <2> SUFFICES ASSUME NEW q \in Seq(X), NEW x \in X,
                      FlattenSeq(ps \o q) = FlattenSeq(ps) \o FlattenSeq(q)
               PROVE  Append(q, x) \in Seq(X)
                      /\ FlattenSeq(ps \o Append(q, x)) = FlattenSeq(ps) \o FlattenSeq(Append(q, x))
    OBVIOUS
  <2>1. ps \o Append(q, x) = Append(ps \o q, x) /\ ps \o q \in Seq(X) /\ Append(q, x) \in Seq(X)
    <3> HIDE DEF X
    <3>1. ps \in Seq(X)
      BY DEF X
    <3> QED BY <3>1
  <2>2. FlattenSeq(Append(ps \o q, x)) = FlattenSeq(ps \o q) \o x
    BY <2>1, FlattenAppend
  <2>3. FlattenSeq(Append(q, x)) = FlattenSeq(q) \o x
    BY FlattenAppend
  <2>4. (FlattenSeq(ps) \o FlattenSeq(q)) \o x = FlattenSeq(ps) \o (FlattenSeq(q) \o x)
    BY <1>1, ConcatAssociative
  <2> QED BY <2>1, <2>2, <2>3, <2>4
<1> HIDE DEF T, X
<1>4. Seq(X) \subseteq T
  BY <1>2, <1>3, SeqInduction
<1> QED BY <1>4 DEF T, X
-----------------------------------------------------------------------------
(* Checksums and escapes. *)

\* The checksum is a byte.
LEMMA ChecksumType == ASSUME NEW s \in Seq(Byte) PROVE Checksum(s) \in Byte
<1> DEFINE n == Len(s)
           g == [p \in (0 + 1 .. n) \X Byte |-> (p[2] + s[p[1]]) % 256]
           IsSum(f) == f = [i \in 0 .. n |-> IF i = 0 THEN 0 ELSE (f[i - 1] + s[i]) % 256]
           h == CHOOSE f : IsSum(f)
<1>1. n \in Nat /\ \A i \in 1 .. n : s[i] \in Byte
  BY LenProperties, ElementOfSeq
<1>2. Checksum(s) = h[n]
  BY Zenon DEF Checksum
<1> HIDE DEF n
<1>3. /\ g \in [(0 + 1 .. n) \X Byte -> Byte]
      /\ \A i \in 0 + 1 .. n : \A x \in Byte : g[<<i, x>>] = (x + s[i]) % 256
  <2>1. \A i \in 0 + 1 .. n : \A x \in Byte : (x + s[i]) % 256 \in Byte
    <3> SUFFICES ASSUME NEW i \in 0 + 1 .. n, NEW x \in Byte PROVE (x + s[i]) % 256 \in Byte
      OBVIOUS
    <3>1. s[i] \in Byte
      BY <1>1
    <3>2. \A a, b \in Byte : (a + b) % 256 \in Byte
      BY DEF Byte
    <3> QED BY <3>1, <3>2
  <2> QED BY <2>1
<1> HIDE DEF g
<1>4. 0 \in Byte
  BY DEF Byte
<1>5. PICK f : Recursive(f, g, 0, 0, n)
  BY <1>1, RecursiveExists
<1>6. f = [i \in 0 .. n |-> IF i = 0 THEN 0 ELSE g[<<i, f[i - 1]>>]]
  BY <1>5, Zenon DEF Recursive
<1>7. \A i \in 0 .. n : f[i] \in Byte
  BY <1>1, <1>3, <1>4, <1>5, RecursiveTypes
<1>8. \A i \in 0 .. n : i # 0 => g[<<i, f[i - 1]>>] = (f[i - 1] + s[i]) % 256
  <2> SUFFICES ASSUME NEW i \in 0 .. n, i # 0 PROVE g[<<i, f[i - 1]>>] = (f[i - 1] + s[i]) % 256
    OBVIOUS
  <2>1. i - 1 \in 0 .. n /\ i \in 0 + 1 .. n
    BY <1>1
  <2> QED BY <1>3, <1>7, <2>1
<1>9. IsSum(f)
  <2>1. [i \in 0 .. n |-> IF i = 0 THEN 0 ELSE g[<<i, f[i - 1]>>]]
          = [i \in 0 .. n |-> IF i = 0 THEN 0 ELSE (f[i - 1] + s[i]) % 256]
    BY <1>8
  <2> QED BY <1>6, <2>1
<1>10. IsSum(h)
  BY <1>9, Zenon
<1> HIDE DEF h
<1>11. \A i \in 0 .. n : h[i] = IF i = 0 THEN 0 ELSE (h[i - 1] + s[i]) % 256
  <2>1. \A k, D : k = [i \in D |-> IF i = 0 THEN 0 ELSE (k[i - 1] + s[i]) % 256]
                    => \A i \in D : k[i] = IF i = 0 THEN 0 ELSE (k[i - 1] + s[i]) % 256
    BY Zenon
  <2> QED BY <1>10, <2>1, Zenon
<1> DEFINE T == {i \in 0 .. n : h[i] \in Byte}
<1>12. 0 \in T
  BY <1>1, <1>4, <1>11
<1>13. \A i \in 0 + 1 .. n : i - 1 \in T => i \in T
  <2> SUFFICES ASSUME NEW i \in 0 + 1 .. n, h[i - 1] \in Byte PROVE i \in 0 .. n /\ h[i] \in Byte
    BY Zenon
  <2>1. i \in 0 .. n /\ i # 0 /\ s[i] \in Byte
    BY <1>1
  <2>2. h[i] = (h[i - 1] + s[i]) % 256
    BY <1>11, <2>1
  <2>3. \A a, b \in Byte : (a + b) % 256 \in Byte
    BY DEF Byte
  <2> QED BY <2>1, <2>2, <2>3
<1> HIDE DEF T
<1>14. n \in T
  <2>1. 0 .. n \subseteq T
    BY <1>1, <1>12, <1>13, InductionTo
  <2> QED BY <1>1, <2>1
<1> QED BY <1>2, <1>14 DEF T

\* One byte, escaped.
EscapeOf(x) == IF x \in Markers THEN <<EscapeSentry, x - 16>> ELSE <<x>>

\* A byte is escaped to one or two, neither of them a marker of a frame.
LEMMA EscapeOfTypes ==
  ASSUME NEW x \in Byte
  PROVE  /\ EscapeOf(x) \in Seq(Byte) /\ Len(EscapeOf(x)) \in 1 .. 2
         /\ \A i \in 1 .. Len(EscapeOf(x)) : EscapeOf(x)[i] \notin {StartMarker, EndMarker}
<1>1. CASE x \in Markers
  <2>1. EscapeSentry \in Byte /\ x - 16 \in Byte
        /\ EscapeSentry \notin {StartMarker, EndMarker} /\ x - 16 \notin {StartMarker, EndMarker}
    BY <1>1 DEF Markers, StartMarker, EndMarker, EscapeSentry, Byte
  <2>2. EscapeOf(x) = <<EscapeSentry, x - 16>>
    BY <1>1 DEF EscapeOf
  <2> QED BY <2>1, <2>2
<1>2. CASE x \notin Markers
  <2>1. EscapeOf(x) = <<x>> /\ x \notin {StartMarker, EndMarker}
    BY <1>2 DEF EscapeOf, Markers
  <2> QED BY <2>1
<1> QED BY <1>1, <1>2

\* Nothing is escaped to nothing.
LEMMA EscapeOfNothing == Escape(<<>>) = <<>>
<1>1. [i \in 1 .. Len(<<>>) |-> IF <<>>[i] \in Markers THEN <<EscapeSentry, <<>>[i] - 16>> ELSE <<<<>>[i]>>]
        = <<>>
  OBVIOUS
<1> QED BY <1>1, FlattenOfNothing, Zenon DEF Escape

\* One byte more to escape.
LEMMA EscapeAppend ==
  ASSUME NEW s \in Seq(Byte), NEW x \in Byte
  PROVE  Escape(s) \in Seq(Byte) /\ Escape(Append(s, x)) = Escape(s) \o EscapeOf(x)
<1> DEFINE ps == [i \in 1 .. Len(s) |-> EscapeOf(s[i])]
           t == Append(s, x)
<1>1. /\ Len(s) \in Nat /\ t \in Seq(Byte) /\ Len(t) = Len(s) + 1 /\ t[Len(s) + 1] = x
      /\ \A i \in 1 .. Len(s) : t[i] = s[i] /\ s[i] \in Byte
  BY AppendProperties, LenProperties, ElementOfSeq
<1>2. Escape(s) = FlattenSeq(ps) /\ Escape(t) = FlattenSeq([i \in 1 .. Len(t) |-> EscapeOf(t[i])])
  BY Zenon DEF Escape, EscapeOf
<1> DEFINE X == Seq(Byte)
<1>3. \A i \in 1 .. Len(s) : EscapeOf(s[i]) \in X
  BY <1>1, EscapeOfTypes
<1>4. EscapeOf(x) \in X
  BY EscapeOfTypes
<1> HIDE DEF t, X
<1>5. ps \in Seq(X)
  BY <1>1, <1>3
<1>6. [i \in 1 .. Len(t) |-> EscapeOf(t[i])] = Append(ps, EscapeOf(x))
  <2> DEFINE E(y) == EscapeOf(y)
  <2>1. Append(ps, EscapeOf(x)) = [i \in 1 .. Len(s) + 1 |-> IF i = Len(s) + 1 THEN EscapeOf(x) ELSE ps[i]]
    BY <1>1, <1>4, <1>5
  <2>2. \A i \in 1 .. Len(s) + 1 : EscapeOf(t[i]) = IF i = Len(s) + 1 THEN EscapeOf(x) ELSE ps[i]
    <3> SUFFICES ASSUME NEW i \in 1 .. Len(s) + 1
                 PROVE  EscapeOf(t[i]) = IF i = Len(s) + 1 THEN EscapeOf(x) ELSE ps[i]
      OBVIOUS
    <3>1. CASE i = Len(s) + 1
      BY <1>1, <3>1
    <3>2. CASE i # Len(s) + 1
      <4>1. i \in 1 .. Len(s)
        BY <1>1, <3>2
      <4> QED BY <1>1, <3>2, <4>1
    <3> QED BY <3>1, <3>2
  <2> HIDE DEF ps
  <2> QED BY <1>1, <2>1, <2>2
<1> HIDE DEF ps
<1>7. FlattenSeq(Append(ps, EscapeOf(x))) = FlattenSeq(ps) \o EscapeOf(x) /\ FlattenSeq(ps) \in X
  BY <1>4, <1>5, FlattenAppend DEF X
<1> QED BY <1>2, <1>6, <1>7 DEF t, X

\* What is escaped is bytes, none a marker, no less than there was and at most twice that.
LEMMA EscapeTypes ==
  ASSUME NEW s \in Seq(Byte)
  PROVE  /\ Escape(s) \in Seq(Byte) /\ Len(Escape(s)) >= Len(s) /\ Len(Escape(s)) <= 2 * Len(s)
         /\ \A i \in 1 .. Len(Escape(s)) : Escape(s)[i] \notin {StartMarker, EndMarker}
<1> DEFINE Good(t) == /\ Escape(t) \in Seq(Byte) /\ Len(Escape(t)) >= Len(t) /\ Len(Escape(t)) <= 2 * Len(t)
                      /\ \A i \in 1 .. Len(Escape(t)) : Escape(t)[i] \notin {StartMarker, EndMarker}
           T == {t \in Seq(Byte) : Good(t)}
<1>1. <<>> \in T
  <2>1. <<>> \in Seq(Byte) /\ Len(<<>>) = 0 /\ \A i : i \notin 1 .. 0
    OBVIOUS
  <2>2. 0 >= 0 /\ 0 <= 2 * 0
    OBVIOUS
  <2>3. Good(<<>>)
    BY <2>1, <2>2, EscapeOfNothing, Zenon
  <2> QED BY <2>1, <2>3
<1>2. \A t \in Seq(Byte) : \A x \in Byte : t \in T => Append(t, x) \in T
  <2> SUFFICES ASSUME NEW t \in Seq(Byte), NEW x \in Byte, Good(t) PROVE Good(Append(t, x))
    BY AppendProperties
  <2> DEFINE e == Escape(t)
             o == EscapeOf(x)
  <2>1. e \in Seq(Byte) /\ Escape(Append(t, x)) = e \o o
    BY EscapeAppend
  <2>2. /\ o \in Seq(Byte) /\ Len(o) \in 1 .. 2
        /\ \A i \in 1 .. Len(o) : o[i] \notin {StartMarker, EndMarker}
    BY EscapeOfTypes
  <2>3. Len(e) >= Len(t) /\ Len(e) <= 2 * Len(t) /\ \A i \in 1 .. Len(e) : e[i] \notin {StartMarker, EndMarker}
    OBVIOUS
  <2> HIDE DEF e, o
  <2>4. /\ e \o o \in Seq(Byte) /\ Len(e \o o) = Len(e) + Len(o)
        /\ \A i \in 1 .. Len(e) + Len(o) : (e \o o)[i] = IF i <= Len(e) THEN e[i] ELSE o[i - Len(e)]
        /\ Len(e) \in Nat /\ Len(o) \in Nat /\ Len(t) \in Nat /\ Len(Append(t, x)) = Len(t) + 1
    BY <2>1, <2>2, ConcatProperties, LenProperties, AppendProperties
  <2>6. Len(e \o o) >= Len(Append(t, x)) /\ Len(e \o o) <= 2 * Len(Append(t, x))
    <3>1. Len(o) \in 1 .. 2 /\ Len(e \o o) = Len(e) + Len(o) /\ Len(Append(t, x)) = Len(t) + 1
          /\ Len(e) \in Nat /\ Len(t) \in Nat /\ Len(e) >= Len(t) /\ Len(e) <= 2 * Len(t)
      BY <2>2, <2>3, <2>4, Zenon
    <3>2. \A a, b \in Nat : \A c \in 1 .. 2 :
            a >= b /\ a <= 2 * b => a + c >= b + 1 /\ a + c <= 2 * (b + 1)
      OBVIOUS
    <3> QED BY <3>1, <3>2, Zenon
  <2>7. ASSUME NEW i \in 1 .. Len(e \o o) PROVE (e \o o)[i] \notin {StartMarker, EndMarker}
    <3>1. i \in 1 .. Len(e) + Len(o)
      BY <2>4
    <3>2. CASE i <= Len(e)
      <4>1. (e \o o)[i] = e[i] /\ i \in 1 .. Len(e)
        BY <2>4, <3>1, <3>2
      <4> QED BY <2>3, <4>1
    <3>3. CASE ~(i <= Len(e))
      <4>1. (e \o o)[i] = o[i - Len(e)] /\ i - Len(e) \in 1 .. Len(o)
        BY <2>4, <3>1, <3>3
      <4> QED BY <2>2, <4>1
    <3> QED BY <3>2, <3>3
  <2> QED BY <2>1, <2>4, <2>6, <2>7
<1> HIDE DEF T
<1>3. s \in T
  BY <1>1, <1>2, SeqInduction
<1> QED BY <1>3 DEF T

\* The sentries of s that no sentry stands before.
IsSentry(f, s) == f = [i \in 0 .. Len(s) |-> i > 0 /\ s[i] = EscapeSentry /\ ~f[i - 1]]
SentryOf(s) == CHOOSE f : IsSentry(f, s)
Bad(f, s, i) == f[i] /\ (i = Len(s) \/ s[i + 1] + 16 \notin Markers)
Pieces(f, s) == [i \in 1 .. Len(s) |-> IF f[i] THEN <<>> ELSE <<IF f[i - 1] THEN s[i] + 16 ELSE s[i]>>]

\* unescapeBytes(), by the sentries and the pieces.
LEMMA UnescapeIs ==
  ASSUME NEW s
  PROVE  Unescape(s) = IF \E i \in 1 .. Len(s) : Bad(SentryOf(s), s, i) THEN <<>>
                       ELSE FlattenSeq(Pieces(SentryOf(s), s))
BY Zenon DEF Unescape, SentryOf, IsSentry, Bad, Pieces

\* Which bytes are sentries: the recursion has a solution, by which each is one
\* if it looks like one and the byte before is none.
LEMMA SentryAre ==
  ASSUME NEW s \in Seq(Byte)
  PROVE  /\ SentryOf(s)[0] = FALSE
         /\ \A i \in 1 .. Len(s) : /\ SentryOf(s)[i] \in BOOLEAN
                                   /\ SentryOf(s)[i] <=> s[i] = EscapeSentry /\ ~SentryOf(s)[i - 1]
<1> DEFINE n == Len(s)
           g == [p \in (0 + 1 .. n) \X BOOLEAN |-> s[p[1]] = EscapeSentry /\ ~p[2]]
<1>1. n \in Nat
  BY LenProperties
<1>2. \E f : IsSentry(f, s)
  <2> HIDE DEF n
  <2>1. /\ g \in [(0 + 1 .. n) \X BOOLEAN -> BOOLEAN]
        /\ \A i \in 0 + 1 .. n : \A x \in BOOLEAN : g[<<i, x>>] = (s[i] = EscapeSentry /\ ~x)
    BY Zenon
  <2> HIDE DEF g
  <2>2. PICK f : Recursive(f, g, FALSE, 0, n)
    BY <1>1, RecursiveExists
  <2>3. f = [i \in 0 .. n |-> IF i = 0 THEN FALSE ELSE g[<<i, f[i - 1]>>]]
    BY <2>2, Zenon DEF Recursive
  <2>4. \A i \in 0 .. n : f[i] \in BOOLEAN
    <3>1. FALSE \in BOOLEAN
      OBVIOUS
    <3> QED BY <1>1, <2>1, <2>2, <3>1, RecursiveTypes, Zenon
  <2>5. \A i \in 0 .. n : (i > 0 <=> i # 0) /\ (i # 0 => i - 1 \in 0 .. n /\ i \in 0 + 1 .. n)
    BY <1>1
  <2>6. \A i \in 0 .. n : (IF i = 0 THEN FALSE ELSE g[<<i, f[i - 1]>>])
                          = (i > 0 /\ s[i] = EscapeSentry /\ ~f[i - 1])
    BY <2>1, <2>4, <2>5, Zenon
  <2>7. f = [i \in 0 .. n |-> i > 0 /\ s[i] = EscapeSentry /\ ~f[i - 1]]
    BY <2>3, <2>6, Zenon
  <2> QED BY <2>7, Zenon DEF IsSentry, n
<1>3. IsSentry(SentryOf(s), s)
  BY <1>2, Zenon DEF SentryOf
<1> DEFINE h == SentryOf(s)
<1> HIDE DEF h
<1>4. h = [i \in 0 .. n |-> i > 0 /\ s[i] = EscapeSentry /\ ~h[i - 1]]
  BY <1>3, Zenon DEF IsSentry, h
<1>5. \A i \in 0 .. n : h[i] = (i > 0 /\ s[i] = EscapeSentry /\ ~h[i - 1])
  <2>1. \A k, D : k = [i \in D |-> i > 0 /\ s[i] = EscapeSentry /\ ~k[i - 1]]
                    => \A i \in D : k[i] = (i > 0 /\ s[i] = EscapeSentry /\ ~k[i - 1])
    BY Zenon
  <2> QED BY <1>4, <2>1, Zenon
<1>6. 0 \in 0 .. n /\ ~(0 > 0) /\ \A i \in 1 .. n : i \in 0 .. n /\ i > 0
  BY <1>1
<1>7. h[0] = FALSE /\ \A i \in 1 .. n : h[i] \in BOOLEAN /\ (h[i] <=> s[i] = EscapeSentry /\ ~h[i - 1])
  BY <1>5, <1>6, Zenon
<1> QED BY <1>7, Zenon DEF h, n

\* A byte more: what was a sentry is one still.
LEMMA SentryAppend ==
  ASSUME NEW s \in Seq(Byte), NEW y \in Byte
  PROVE  /\ \A i \in 0 .. Len(s) : SentryOf(Append(s, y))[i] <=> SentryOf(s)[i]
         /\ SentryOf(Append(s, y))[Len(s) + 1] <=> y = EscapeSentry /\ ~SentryOf(s)[Len(s)]
<1> DEFINE t == Append(s, y)
           n == Len(s)
           f == SentryOf(s)
           h == SentryOf(t)
<1>1. /\ n \in Nat /\ t \in Seq(Byte) /\ Len(t) = n + 1 /\ t[n + 1] = y
      /\ \A i \in 1 .. n : t[i] = s[i]
  BY AppendProperties, LenProperties
<1>2. /\ f[0] = FALSE
      /\ \A i \in 1 .. n : f[i] <=> s[i] = EscapeSentry /\ ~f[i - 1]
  BY SentryAre, Zenon
<1>3. /\ h[0] = FALSE
      /\ \A i \in 1 .. Len(t) : h[i] <=> t[i] = EscapeSentry /\ ~h[i - 1]
  BY <1>1, SentryAre, Zenon
<1> HIDE DEF t, n, f, h
<1> DEFINE T == {i \in 0 .. n : h[i] <=> f[i]}
<1>4. 0 \in T
  <2>1. 0 \in 0 .. n
    BY <1>1
  <2> QED BY <1>2, <1>3, <2>1, Zenon
<1>5. \A i \in 0 + 1 .. n : i - 1 \in T => i \in T
  <2> SUFFICES ASSUME NEW i \in 0 + 1 .. n, h[i - 1] <=> f[i - 1] PROVE i \in 0 .. n /\ (h[i] <=> f[i])
    BY Zenon
  <2>1. i \in 0 .. n /\ i \in 1 .. n /\ i \in 1 .. Len(t)
    BY <1>1
  <2> QED BY <1>1, <1>2, <1>3, <2>1, Zenon
<1> HIDE DEF T
<1>6. 0 .. n \subseteq T
  BY <1>1, <1>4, <1>5, InductionTo
<1>7. \A i \in 0 .. n : h[i] <=> f[i]
  BY <1>6, Zenon DEF T
<1>8. n \in 0 .. n /\ n + 1 \in 1 .. Len(t) /\ (n + 1) - 1 = n
  BY <1>1
<1>9. h[n + 1] <=> y = EscapeSentry /\ ~f[n]
  <2>1. h[n + 1] <=> y = EscapeSentry /\ ~h[(n + 1) - 1]
    BY <1>1, <1>3, <1>8, Zenon
  <2>2. h[(n + 1) - 1] <=> f[n]
    BY <1>7, <1>8, Zenon
  <2> QED BY <2>1, <2>2, Zenon
<1> QED BY <1>7, <1>9 DEF t, n, f, h

\* One byte more to read back.
LEMMA PiecesAppend ==
  ASSUME NEW s \in Seq(Byte), NEW y \in Byte
  PROVE  /\ Pieces(SentryOf(s), s) \in Seq(Seq(Int))
         /\ Pieces(SentryOf(Append(s, y)), Append(s, y))
              = Append(Pieces(SentryOf(s), s),
                       IF SentryOf(Append(s, y))[Len(s) + 1] THEN <<>>
                       ELSE <<IF SentryOf(s)[Len(s)] THEN y + 16 ELSE y>>)
<1> DEFINE t == Append(s, y)
           n == Len(s)
           f == SentryOf(s)
           h == SentryOf(t)
           piece == IF h[n + 1] THEN <<>> ELSE <<IF f[n] THEN y + 16 ELSE y>>
           X == Seq(Int)
<1>1. /\ n \in Nat /\ t \in Seq(Byte) /\ Len(t) = n + 1 /\ t[n + 1] = y
      /\ \A i \in 1 .. n : t[i] = s[i] /\ s[i] \in Int
  <2>1. \A i \in 1 .. n : s[i] \in Byte
    BY ElementOfSeq
  <2>2. Byte \subseteq Int
    BY DEF Byte
  <2>3. /\ n \in Nat /\ t \in Seq(Byte) /\ Len(t) = n + 1 /\ t[n + 1] = y
        /\ \A i \in 1 .. n : t[i] = s[i]
    BY AppendProperties, LenProperties
  <2> QED BY <2>1, <2>2, <2>3, Zenon
<1>2. \A i \in 0 .. n : h[i] <=> f[i]
  BY SentryAppend, Zenon
<1>3. /\ <<>> \in X /\ \A a \in Int : <<a>> \in X
      /\ y \in Int
  BY DEF Byte
<1> HIDE DEF t, n, f, h, X
<1>4. Pieces(f, s) \in Seq(X)
  <2>1. \A i \in 1 .. n : (IF f[i] THEN <<>> ELSE <<IF f[i - 1] THEN s[i] + 16 ELSE s[i]>>) \in X
    <3> SUFFICES ASSUME NEW i \in 1 .. n
                 PROVE  (IF f[i] THEN <<>> ELSE <<IF f[i - 1] THEN s[i] + 16 ELSE s[i]>>) \in X
      BY Zenon
    <3>1. s[i] \in Int /\ s[i] + 16 \in Int
      BY <1>1
    <3> QED BY <1>3, <3>1, Zenon
  <2> DEFINE p(i) == IF f[i] THEN <<>> ELSE <<IF f[i - 1] THEN s[i] + 16 ELSE s[i]>>
  <2> HIDE DEF p
  <2>2. \A i \in 1 .. n : p(i) \in X
    BY <2>1, Zenon DEF p
  <2>3. [i \in 1 .. n |-> p(i)] \in Seq(X)
    BY <1>1, <2>2
  <2> QED BY <2>3, Zenon DEF Pieces, p, n
<1>5. piece \in X
  <2>1. y + 16 \in Int
    BY <1>3
  <2> QED BY <1>3, <2>1, Zenon
<1>6. Pieces(h, t) = Append(Pieces(f, s), piece)
  <2> DEFINE q == Pieces(f, s)
             r(i) == IF h[i] THEN <<>> ELSE <<IF h[i - 1] THEN t[i] + 16 ELSE t[i]>>
  <2>1. Len(q) = n /\ \A i \in 1 .. n : q[i] = r(i)
    <3>1. \A i \in 1 .. n : i \in 0 .. n /\ i - 1 \in 0 .. n
      BY <1>1
    <3>2. \A i \in 1 .. n : q[i] = IF f[i] THEN <<>> ELSE <<IF f[i - 1] THEN s[i] + 16 ELSE s[i]>>
      BY Zenon DEF Pieces, n
    <3>3. \A i \in 1 .. n : q[i] = r(i)
      BY <1>1, <1>2, <3>1, <3>2, Zenon
    <3>4. DOMAIN q = 1 .. n
      BY Zenon DEF Pieces, n
    <3> HIDE DEF q
    <3>5. Len(q) = n
      BY <1>1, <1>4, <3>4, LenProperties DEF q
    <3> QED BY <3>3, <3>5
  <2>2. r(n + 1) = piece
    <3>1. (n + 1) - 1 = n /\ n \in 0 .. n
      BY <1>1
    <3> QED BY <1>1, <1>2, <3>1, Zenon
  <2>3. Pieces(h, t) = [i \in 1 .. n + 1 |-> r(i)]
    BY <1>1, Zenon DEF Pieces
  <2> HIDE DEF q, r, piece
  <2>4. Append(q, piece) = [i \in 1 .. n + 1 |-> IF i = n + 1 THEN piece ELSE q[i]]
    <3>1. q \in Seq(X) /\ piece \in X
      BY <1>4, <1>5 DEF q, piece
    <3>2. Append(q, piece) = [i \in 1 .. Len(q) + 1 |-> IF i = Len(q) + 1 THEN piece ELSE q[i]]
      BY <3>1, AppendIs
    <3> QED BY <2>1, <3>2, Zenon
  <2>5. \A i \in 1 .. n + 1 : r(i) = IF i = n + 1 THEN piece ELSE q[i]
    <3>1. \A i \in 1 .. n + 1 : i = n + 1 \/ i \in 1 .. n
      BY <1>1
    <3>2. n + 1 \notin 1 .. n
      BY <1>1
    <3> QED BY <2>1, <2>2, <3>1, <3>2, Zenon
  <2>6. Pieces(h, t) = Append(q, piece)
    BY <2>3, <2>4, <2>5, Zenon
  <2> QED BY <2>6 DEF q
<1> QED BY <1>4, <1>6 DEF t, n, f, h, X

\* Read so far: what e stands for, but for a sentry at its end.
ReadSoFar(e, b) ==
  /\ e \in Seq(Byte) /\ b \in Seq(Int)
  /\ \A i \in 1 .. Len(e) : SentryOf(e)[i] /\ i # Len(e) => e[i + 1] + 16 \in Markers
  /\ FlattenSeq(Pieces(SentryOf(e), e)) = b

\* What has been read back when one byte more is read.
LEMMA ReadByte ==
  ASSUME NEW e, NEW b, ReadSoFar(e, b), NEW y \in Byte,
         SentryOf(e)[Len(e)] => y + 16 \in Markers
  PROVE  /\ SentryOf(Append(e, y))[Len(Append(e, y))] <=> y = EscapeSentry /\ ~SentryOf(e)[Len(e)]
         /\ ReadSoFar(Append(e, y),
                      IF y = EscapeSentry /\ ~SentryOf(e)[Len(e)] THEN b
                      ELSE Append(b, IF SentryOf(e)[Len(e)] THEN y + 16 ELSE y))
<1> DEFINE n == Len(e)
           t == Append(e, y)
           f == SentryOf(e)
           h == SentryOf(t)
           sentry == y = EscapeSentry /\ ~f[n]
           read == IF f[n] THEN y + 16 ELSE y
           piece == IF h[n + 1] THEN <<>> ELSE <<read>>
<1>1. /\ e \in Seq(Byte) /\ b \in Seq(Int)
      /\ \A i \in 1 .. n : f[i] /\ i # n => e[i + 1] + 16 \in Markers
      /\ FlattenSeq(Pieces(f, e)) = b
      /\ f[n] => y + 16 \in Markers
  BY Zenon DEF ReadSoFar
<1>2. /\ n \in Nat /\ t \in Seq(Byte) /\ Len(t) = n + 1 /\ t[n + 1] = y
      /\ \A i \in 1 .. n : t[i] = e[i]
  BY <1>1, AppendProperties, LenProperties
<1>3. /\ \A i \in 0 .. n : h[i] <=> f[i]
      /\ h[n + 1] <=> sentry
  BY <1>1, SentryAppend, Zenon
<1>4. Pieces(f, e) \in Seq(Seq(Int)) /\ Pieces(h, t) = Append(Pieces(f, e), piece)
  BY <1>1, PiecesAppend, Zenon
<1>5. read \in Int /\ piece \in Seq(Int) /\ b \o <<read>> = Append(b, read) /\ b \o <<>> = b
      /\ Append(b, read) \in Seq(Int)
  <2>1. read \in Int
    BY DEF Byte
  <2> HIDE DEF read
  <2>2. <<>> \in Seq(Int) /\ <<read>> \in Seq(Int)
    BY <2>1
  <2>3. piece \in Seq(Int)
    BY <2>2, Zenon
  <2>4. b \o <<read>> = Append(b, read)
    BY <1>1, <2>1, AppendIsConcat, Zenon
  <2>5. b \o <<>> = b
    BY <1>1, ConcatEmptySeq, Zenon
  <2>6. Append(b, read) \in Seq(Int)
    BY <1>1, <2>1, AppendProperties, Zenon
  <2> QED BY <2>1, <2>3, <2>4, <2>5, <2>6, Zenon
<1> HIDE DEF n, t, f, h, read
<1>6. FlattenSeq(Pieces(h, t)) = b \o piece
  BY <1>1, <1>4, <1>5, FlattenAppend, Zenon
<1>7. FlattenSeq(Pieces(h, t)) = IF sentry THEN b ELSE Append(b, read)
  BY <1>3, <1>5, <1>6, Zenon
<1>8. ASSUME NEW i \in 1 .. n + 1, h[i], i # n + 1 PROVE t[i + 1] + 16 \in Markers
  <2>1. i \in 1 .. n /\ i \in 0 .. n
    BY <1>2, <1>8
  <2>2. f[i]
    BY <1>3, <1>8, <2>1, Zenon
  <2>3. CASE i = n
    BY <1>1, <1>2, <2>2, <2>3, Zenon
  <2>4. CASE i # n
    <3>1. i + 1 \in 1 .. n
      BY <1>2, <2>1, <2>4
    <3> QED BY <1>1, <1>2, <2>1, <2>2, <2>4, <3>1, Zenon
  <2> QED BY <2>3, <2>4
<1>9. (IF sentry THEN b ELSE Append(b, read)) \in Seq(Int)
  BY <1>1, <1>5, Zenon
<1>10. h[Len(t)] <=> sentry
  BY <1>2, <1>3, Zenon
<1>11. ReadSoFar(t, IF sentry THEN b ELSE Append(b, read))
  <2>1. \A i \in 1 .. Len(t) : h[i] /\ i # Len(t) => t[i + 1] + 16 \in Markers
    BY <1>2, <1>8, Zenon
  <2> HIDE DEF sentry
  <2> QED BY <1>2, <1>7, <1>9, <2>1, Zenon DEF ReadSoFar, h
<1> QED BY <1>10, <1>11, Zenon DEF n, t, f, h, read

\* A byte that was escaped is read back.
LEMMA ReadEscaped ==
  ASSUME NEW e, NEW b, ReadSoFar(e, b), ~SentryOf(e)[Len(e)], NEW x \in Byte
  PROVE  /\ ReadSoFar(e \o EscapeOf(x), Append(b, x))
         /\ ~SentryOf(e \o EscapeOf(x))[Len(e \o EscapeOf(x))]
<1>1. e \in Seq(Byte)
  BY Zenon DEF ReadSoFar
<1>2. CASE x \notin Markers
  <2>1. x # EscapeSentry
    BY <1>2 DEF Markers
  <2>2. /\ ~SentryOf(Append(e, x))[Len(Append(e, x))]
        /\ ReadSoFar(Append(e, x), Append(b, x))
    BY <2>1, ReadByte, Zenon
  <2>3. e \o EscapeOf(x) = Append(e, x)
    BY <1>1, <1>2, AppendIsConcat, Zenon DEF EscapeOf
  <2> QED BY <2>2, <2>3, Zenon
<1>3. CASE x \in Markers
  <2>1. /\ EscapeSentry \in Byte /\ x - 16 \in Byte /\ x - 16 # EscapeSentry
        /\ (x - 16) + 16 = x
    BY <1>3 DEF Markers, StartMarker, EndMarker, EscapeSentry, Byte
  <2> DEFINE d == Append(e, EscapeSentry)
             t == Append(d, x - 16)
  <2>2. SentryOf(d)[Len(d)] /\ ReadSoFar(d, b)
    BY <2>1, ReadByte, Zenon
  <2> HIDE DEF d
  <2>3. ~SentryOf(t)[Len(t)] /\ ReadSoFar(t, Append(b, (x - 16) + 16))
    BY <1>3, <2>1, <2>2, ReadByte, Zenon
  <2>4. t = e \o EscapeOf(x)
    <3>1. EscapeOf(x) = <<EscapeSentry, x - 16>>
      BY <1>3, Zenon DEF EscapeOf
    <3>2. \A u, v \in Byte : Append(Append(e, u), v) = e \o <<u, v>>
      BY <1>1
    <3> QED BY <2>1, <3>1, <3>2, Zenon DEF d
  <2> QED BY <2>1, <2>3, <2>4, Zenon
<1> QED BY <1>2, <1>3

\* Bytes that were escaped are read back.
LEMMA EscapedIsReadBack == ASSUME NEW s \in Seq(Byte) PROVE Unescape(Escape(s)) = s
<1> DEFINE Good(t) == ReadSoFar(Escape(t), t) /\ ~SentryOf(Escape(t))[Len(Escape(t))]
           T == {t \in Seq(Byte) : Good(t)}
<1>1. <<>> \in T
  <2>1. /\ <<>> \in Seq(Byte) /\ <<>> \in Seq(Int) /\ Len(<<>>) = 0 /\ \A i : i \notin 1 .. 0
        /\ Escape(<<>>) = <<>>
    BY EscapeOfNothing
  <2>2. ~SentryOf(<<>>)[0]
    BY <2>1, SentryAre, Zenon
  <2>3. Pieces(SentryOf(<<>>), <<>>) = <<>>
    <3>1. [i \in 1 .. Len(<<>>) |-> IF SentryOf(<<>>)[i] THEN <<>> ELSE
             <<IF SentryOf(<<>>)[i - 1] THEN <<>>[i] + 16 ELSE <<>>[i]>>] = <<>>
      OBVIOUS
    <3> QED BY <3>1, Zenon DEF Pieces
  <2>4. FlattenSeq(Pieces(SentryOf(<<>>), <<>>)) = <<>>
    BY <2>3, FlattenOfNothing, Zenon
  <2>5. ReadSoFar(<<>>, <<>>)
    BY <2>1, <2>4, Zenon DEF ReadSoFar
  <2> QED BY <2>1, <2>2, <2>5, Zenon
<1>2. \A t \in Seq(Byte) : \A x \in Byte : t \in T => Append(t, x) \in T
  <2> SUFFICES ASSUME NEW t \in Seq(Byte), NEW x \in Byte, Good(t) PROVE Good(Append(t, x))
    BY AppendProperties
  <2>1. Escape(Append(t, x)) = Escape(t) \o EscapeOf(x)
    BY EscapeAppend, Zenon
  <2> QED BY <2>1, ReadEscaped, Zenon
<1>3. s \in T
  <2> HIDE DEF T
  <2> QED BY <1>1, <1>2, SeqInduction
<1> DEFINE e == Escape(s)
<1>4. ReadSoFar(e, s) /\ ~SentryOf(e)[Len(e)]
  BY <1>3, Zenon
<1> HIDE DEF e
<1>5. ~ \E i \in 1 .. Len(e) : Bad(SentryOf(e), e, i)
  BY <1>4, Zenon DEF ReadSoFar, Bad
<1>6. FlattenSeq(Pieces(SentryOf(e), e)) = s
  BY <1>4, Zenon DEF ReadSoFar
<1> QED BY <1>5, <1>6, UnescapeIs, Zenon DEF e
-----------------------------------------------------------------------------
(* Frames. *)

\* The bytes under the escapes, but for the checksum at their end.
Body(type, seq, payload) == <<type, seq>> \o BigEndian(Len(payload)) \o payload

\* What fits in the four bytes of the length.
PayloadLimit == 4294967296

\* A length takes four bytes.
LEMMA BigEndianType ==
  ASSUME NEW n \in Nat, n < PayloadLimit
  PROVE  /\ BigEndian(n) \in Seq(Byte) /\ Len(BigEndian(n)) = 4
<1> DEFINE a == n \div 16777216
           b == (n \div 65536) % 256
           c == (n \div 256) % 256
           d == n % 256
<1>1. a \in Byte
  BY SMT DEF Byte, PayloadLimit
<1>2. b \in Byte /\ c \in Byte /\ d \in Byte
  BY SMT DEF Byte
<1>3. BigEndian(n) = <<a, b, c, d>>
  BY SMT DEF BigEndian
<1> HIDE DEF a, b, c, d
<1> QED BY <1>1, <1>2, <1>3

\* The parts of what packFrame() puts between the markers.
LEMMA BodyType ==
  ASSUME NEW type \in Byte, NEW seq \in Byte, NEW payload \in Seq(Byte), Len(payload) < PayloadLimit
  PROVE  LET body == Body(type, seq, payload)
         IN /\ body \in Seq(Byte) /\ Len(body) = Len(payload) + 6
            /\ body[1] = type /\ body[2] = seq
            /\ SubSeq(body, 3, 6) = BigEndian(Len(payload))
            /\ SubSeq(body, 7, Len(body)) = payload
<1> DEFINE head == <<type, seq>>
           be == BigEndian(Len(payload))
           hb == head \o be
           body == hb \o payload
<1>1. /\ head \in Seq(Byte) /\ Len(head) = 2 /\ head[1] = type /\ head[2] = seq
      /\ Len(payload) \in Nat
  BY LenProperties
<1>2. be \in Seq(Byte) /\ Len(be) = 4
  BY <1>1, BigEndianType
<1> HIDE DEF head, be
<1>3. /\ hb \in Seq(Byte) /\ Len(hb) = 6
      /\ \A i \in 1 .. 6 : hb[i] = IF i <= 2 THEN head[i] ELSE be[i - 2]
  <2>1. /\ hb \in Seq(Byte) /\ Len(hb) = Len(head) + Len(be)
        /\ \A i \in 1 .. Len(head) + Len(be) : hb[i] = IF i <= Len(head) THEN head[i] ELSE be[i - Len(head)]
    BY <1>1, <1>2, ConcatProperties, Zenon
  <2> QED BY <1>1, <1>2, <2>1
<1>4. hb[1] = type /\ hb[2] = seq
  BY <1>1, <1>3
<1>5. SubSeq(hb, 3, 6) = be
  <2>1. 3 \in Len(head) + 1 .. Len(head) + Len(be) /\ 6 \in Len(head) + 1 .. Len(head) + Len(be)
        /\ 3 - Len(head) = 1 /\ 6 - Len(head) = Len(be)
    BY <1>1, <1>2
  <2>2. SubSeq(hb, 3, 6) = SubSeq(be, 3 - Len(head), 6 - Len(head))
    BY <1>1, <1>2, <2>1, SubSeqOfConcat2, Zenon
  <2> QED BY <1>2, <2>1, <2>2, SubSeqFull, Zenon
<1> HIDE DEF hb
<1>6. /\ body \in Seq(Byte) /\ Len(body) = Len(payload) + 6
      /\ \A i \in 1 .. 6 : body[i] = hb[i]
  <2>1. /\ body \in Seq(Byte) /\ Len(body) = Len(hb) + Len(payload)
        /\ \A i \in 1 .. Len(hb) + Len(payload) : body[i] = IF i <= Len(hb) THEN hb[i] ELSE payload[i - Len(hb)]
    BY <1>1, <1>3, ConcatProperties, Zenon
  <2> QED BY <1>1, <1>3, <2>1
<1>7. SubSeq(body, 3, 6) = be
  <2>1. 3 \in 1 .. Len(hb) /\ 6 \in 1 .. Len(hb)
    BY <1>3
  <2> QED BY <1>3, <1>5, <2>1, SubSeqOfConcat1, Zenon
<1>8. SubSeq(body, 7, Len(body)) = payload
  <2>1. CASE payload = <<>>
    <3>1. Len(body) = 6
      BY <1>6, <2>1
    <3>2. SubSeq(body, 7, 6) = <<>>
      BY SubSeqEmpty
    <3> QED BY <2>1, <3>1, <3>2, Zenon
  <2>2. CASE payload # <<>>
    <3>1. Len(payload) >= 1
      BY <1>1, <2>2, EmptySeq
    <3>2. /\ 7 \in Len(hb) + 1 .. Len(hb) + Len(payload)
          /\ Len(body) \in Len(hb) + 1 .. Len(hb) + Len(payload)
          /\ 7 - Len(hb) = 1 /\ Len(body) - Len(hb) = Len(payload)
      BY <1>1, <1>3, <1>6, <3>1
    <3>3. SubSeq(body, 7, Len(body)) = SubSeq(payload, 7 - Len(hb), Len(body) - Len(hb))
      BY <1>3, <3>2, SubSeqOfConcat2
    <3> QED BY <3>2, <3>3, SubSeqFull, Zenon
  <2> QED BY <2>1, <2>2
<1>9. body = Body(type, seq, payload)
  BY Zenon DEF Body, head, be, hb
<1>10. body[1] = type /\ body[2] = seq
  BY <1>4, <1>6
<1> HIDE DEF body
<1> QED BY <1>6, <1>7, <1>8, <1>9, <1>10, Zenon DEF be

\* A start marker, an end marker, and no marker between them.
Framed(f) ==
  /\ f \in Seq(Byte) /\ Len(f) >= 2
  /\ f[1] = StartMarker /\ f[Len(f)] = EndMarker
  /\ \A i \in 2 .. Len(f) - 1 : f[i] \notin {StartMarker, EndMarker}

\* Markers around bytes that hold none make a frame.
LEMMA FrameAround ==
  ASSUME NEW e \in Seq(Byte), \A i \in 1 .. Len(e) : e[i] \notin {StartMarker, EndMarker}
  PROVE  LET f == <<StartMarker>> \o e \o <<EndMarker>>
         IN Framed(f) /\ Len(f) = Len(e) + 2 /\ SubSeq(f, 2, Len(f) - 1) = e
<1> DEFINE a == <<StartMarker>>
           z == <<EndMarker>>
           g == a \o e
           f == g \o z
<1>1. /\ a \in Seq(Byte) /\ Len(a) = 1 /\ a[1] = StartMarker
      /\ z \in Seq(Byte) /\ Len(z) = 1 /\ z[1] = EndMarker
      /\ Len(e) \in Nat
  <2>1. StartMarker \in Byte /\ EndMarker \in Byte
    BY DEF Byte, StartMarker, EndMarker
  <2> QED BY <2>1, LenProperties
<1> HIDE DEF a, z
<1>2. /\ g \in Seq(Byte) /\ Len(g) = Len(e) + 1
      /\ g[1] = StartMarker /\ \A i \in 2 .. Len(e) + 1 : g[i] = e[i - 1]
  <2>1. /\ g \in Seq(Byte) /\ Len(g) = Len(a) + Len(e)
        /\ \A i \in 1 .. Len(a) + Len(e) : g[i] = IF i <= Len(a) THEN a[i] ELSE e[i - Len(a)]
    BY <1>1, ConcatProperties
  <2> QED BY <1>1, <2>1
<1>3. SubSeq(g, 2, Len(e) + 1) = e
  <2>1. CASE e = <<>>
    <3>1. Len(e) + 1 = 1
      BY <2>1
    <3> QED BY <2>1, <3>1, SubSeqEmpty
  <2>2. CASE e # <<>>
    <3>1. Len(e) >= 1
      BY <1>1, <2>2, EmptySeq
    <3>2. /\ 2 \in Len(a) + 1 .. Len(a) + Len(e) /\ Len(e) + 1 \in Len(a) + 1 .. Len(a) + Len(e)
          /\ 2 - Len(a) = 1 /\ (Len(e) + 1) - Len(a) = Len(e)
      BY <1>1, <3>1
    <3>3. SubSeq(g, 2, Len(e) + 1) = SubSeq(e, 2 - Len(a), (Len(e) + 1) - Len(a))
      <4>1. a \in Seq(Byte) /\ e \in Seq(Byte)
        BY <1>1
      <4> QED BY <3>2, <4>1, SubSeqOfConcat2, Zenon
    <3> QED BY <3>2, <3>3, SubSeqFull, Zenon
  <2> QED BY <2>1, <2>2
<1> HIDE DEF g
<1>4. /\ f \in Seq(Byte) /\ Len(f) = Len(e) + 2
      /\ \A i \in 1 .. Len(e) + 1 : f[i] = g[i]
      /\ f[Len(e) + 2] = EndMarker
  <2>1. /\ f \in Seq(Byte) /\ Len(f) = Len(g) + Len(z)
        /\ \A i \in 1 .. Len(g) + Len(z) : f[i] = IF i <= Len(g) THEN g[i] ELSE z[i - Len(g)]
    <3>1. g \in Seq(Byte) /\ z \in Seq(Byte)
      BY <1>1, <1>2
    <3> QED BY <3>1, ConcatProperties, Zenon
  <2> QED BY <1>1, <1>2, <2>1
<1>5. SubSeq(f, 2, Len(f) - 1) = e
  <2>0. Len(f) - 1 = Len(e) + 1
    BY <1>1, <1>4
  <2>1. CASE e = <<>>
    <3>1. Len(f) - 1 = 1
      BY <2>0, <2>1
    <3> QED BY <2>1, <3>1, SubSeqEmpty
  <2>2. CASE e # <<>>
    <3>1. Len(e) >= 1
      BY <1>1, <2>2, EmptySeq
    <3>2. 2 \in 1 .. Len(g) /\ Len(e) + 1 \in 1 .. Len(g)
      BY <1>1, <1>2, <3>1
    <3> QED BY <1>1, <1>2, <1>3, <2>0, <3>2, SubSeqOfConcat1
  <2> QED BY <2>1, <2>2
<1> HIDE DEF f
<1>6. \A i \in 2 .. Len(f) - 1 : f[i] \notin {StartMarker, EndMarker}
  <2> SUFFICES ASSUME NEW i \in 2 .. Len(e) + 1 PROVE f[i] \notin {StartMarker, EndMarker}
    BY <1>1, <1>4
  <2>1. i - 1 \in 1 .. Len(e) /\ i \in 1 .. Len(e) + 1
    BY <1>1
  <2>2. f[i] = e[i - 1]
    BY <1>2, <1>4, <2>1
  <2> QED BY <2>1, <2>2, Zenon
<1>7. f[1] = StartMarker /\ f[Len(f)] = EndMarker /\ Len(f) >= 2
  BY <1>1, <1>2, <1>4
<1>8. Framed(f)
  BY <1>4, <1>6, <1>7, Zenon DEF Framed
<1>9. f = <<StartMarker>> \o e \o <<EndMarker>>
  BY Zenon DEF f, g, a, z
<1> QED BY <1>4, <1>5, <1>8, <1>9, Zenon

\* What PackFrame gives is framed, and its length is bounded.
LEMMA PackFramed ==
  ASSUME NEW type \in Byte, NEW seq \in Byte, NEW payload \in Seq(Byte), Len(payload) < PayloadLimit
  PROVE  LET f == PackFrame(type, seq, payload)
             body == Body(type, seq, payload)
         IN /\ Framed(f)
            /\ Len(f) >= 9 /\ Len(f) <= 2 * Len(payload) + 16
            /\ Unescape(SubSeq(f, 2, Len(f) - 1)) = Append(body, Checksum(body))
<1> DEFINE body == Body(type, seq, payload)
           inner == Append(body, Checksum(body))
           e == Escape(inner)
           f == PackFrame(type, seq, payload)
<1>1. body \in Seq(Byte) /\ Len(body) = Len(payload) + 6
  BY BodyType
<1>2. f = <<StartMarker>> \o e \o <<EndMarker>>
  BY Zenon DEF PackFrame, Body
<1> HIDE DEF body, f
<1>3. inner \in Seq(Byte) /\ Len(inner) = Len(payload) + 7
  <2>1. inner \in Seq(Byte) /\ Len(inner) = Len(body) + 1 /\ Len(payload) \in Nat
    BY <1>1, ChecksumType, AppendProperties, LenProperties
  <2> QED BY <1>1, <2>1
<1> HIDE DEF inner
<1>4. /\ e \in Seq(Byte) /\ Len(e) >= Len(inner) /\ Len(e) <= 2 * Len(inner)
      /\ \A i \in 1 .. Len(e) : e[i] \notin {StartMarker, EndMarker}
  BY <1>3, EscapeTypes
<1>5. Unescape(e) = inner
  BY <1>3, EscapedIsReadBack
<1> HIDE DEF e
<1>6. Framed(f) /\ Len(f) = Len(e) + 2 /\ SubSeq(f, 2, Len(f) - 1) = e
  BY <1>2, <1>4, FrameAround, Zenon
<1>7. Len(f) >= 9 /\ Len(f) <= 2 * Len(payload) + 16
  <2>1. Len(payload) \in Nat /\ Len(e) \in Nat
    BY <1>4, LenProperties
  <2> QED BY <1>3, <1>4, <1>6, <2>1
<1> QED BY <1>5, <1>6, <1>7, Zenon DEF body, inner, f

\* A frame is unpacked to what it was packed from.
THEOREM UnpackedIsPacked ==
  ASSUME NEW type \in Byte, NEW seq \in Byte, NEW payload \in Seq(Byte), Len(payload) < PayloadLimit
  PROVE  UnpackFrame(PackFrame(type, seq, payload)) = <<[type |-> type, seq |-> seq, payload |-> payload]>>
<1> DEFINE f == PackFrame(type, seq, payload)
           body == Body(type, seq, payload)
           inner == Unescape(SubSeq(f, 2, Len(f) - 1))
           n == Len(inner)
<1>1. /\ Framed(f) /\ Len(f) >= 9
      /\ inner = Append(body, Checksum(body))
  BY PackFramed, Zenon
<1>2. /\ body \in Seq(Byte) /\ Len(body) = Len(payload) + 6
      /\ body[1] = type /\ body[2] = seq
      /\ SubSeq(body, 3, 6) = BigEndian(Len(payload))
      /\ SubSeq(body, 7, Len(body)) = payload
  BY BodyType, Zenon
<1>3. UnpackFrame(f) = IF /\ Len(f) >= 9 /\ f[1] = StartMarker /\ f[Len(f)] = EndMarker
                          /\ n >= 7
                          /\ Checksum(SubSeq(inner, 1, n - 1)) = inner[n]
                          /\ SubSeq(inner, 3, 6) = BigEndian(n - 7)
                       THEN <<[type |-> inner[1], seq |-> inner[2], payload |-> SubSeq(inner, 7, n - 1)]>>
                       ELSE <<>>
  BY Zenon DEF UnpackFrame
<1> HIDE DEF f, body, inner
<1>4. /\ inner \in Seq(Byte) /\ n = Len(body) + 1 /\ inner[n] = Checksum(body)
      /\ \A i \in 1 .. Len(body) : inner[i] = body[i]
      /\ Len(body) \in Nat /\ Len(payload) \in Nat
  BY <1>1, <1>2, ChecksumType, AppendProperties, LenProperties
<1>5. n >= 7 /\ n - 7 = Len(payload) /\ n - 1 = Len(body) /\ Len(body) >= 6
  BY <1>2, <1>4
<1>6. SubSeq(inner, 1, n - 1) = body /\ SubSeq(inner, 3, 6) = SubSeq(body, 3, 6)
      /\ SubSeq(inner, 7, n - 1) = SubSeq(body, 7, Len(body))
  <2> DEFINE t == <<Checksum(body)>>
  <2>1. t \in Seq(Byte) /\ inner = body \o t
    <3>1. Checksum(body) \in Byte
      BY <1>2, ChecksumType
    <3>2. t \in Seq(Byte)
      BY <3>1
    <3> QED BY <1>1, <1>2, <3>1, <3>2, AppendIsConcat, Zenon
  <2> HIDE DEF t
  <2>2. 1 \in 1 .. Len(body) /\ Len(body) \in 1 .. Len(body) /\ 3 \in 1 .. Len(body) /\ 6 \in 1 .. Len(body)
    BY <1>4, <1>5
  <2>3. SubSeq(inner, 1, Len(body)) = SubSeq(body, 1, Len(body))
        /\ SubSeq(inner, 3, 6) = SubSeq(body, 3, 6)
    BY <1>2, <2>1, <2>2, SubSeqOfConcat1, Zenon
  <2>4. SubSeq(inner, 7, Len(body)) = SubSeq(body, 7, Len(body))
    <3>1. CASE Len(body) < 7
      BY <1>4, <3>1, SubSeqEmpty
    <3>2. CASE ~(Len(body) < 7)
      <4>1. 7 \in 1 .. Len(body)
        BY <1>4, <3>2
      <4> QED BY <1>2, <2>1, <2>2, <4>1, SubSeqOfConcat1, Zenon
    <3> QED BY <3>1, <3>2
  <2> QED BY <1>2, <1>5, <2>3, <2>4, SubSeqFull, Zenon
<1>7. inner[1] = type /\ inner[2] = seq
  <2>1. 1 \in 1 .. Len(body) /\ 2 \in 1 .. Len(body)
    BY <1>4, <1>5
  <2> QED BY <1>2, <1>4, <2>1, Zenon
<1>8. f[1] = StartMarker /\ f[Len(f)] = EndMarker
  BY <1>1, Zenon DEF Framed
<1>9. UnpackFrame(f) = <<[type |-> type, seq |-> seq, payload |-> payload]>>
  BY <1>1, <1>2, <1>3, <1>4, <1>5, <1>6, <1>7, <1>8, Zenon
<1> QED BY <1>9, Zenon DEF f
-----------------------------------------------------------------------------
(* The framer. *)

\* A whole frame, whatever follows.
LEMMA NextOfFramed ==
  ASSUME NEW f, Framed(f), NEW r \in Seq(Byte)
  PROVE  NextFrame(f \o r) = [frame |-> <<f>>, rest |-> r]
<1> DEFINE s == f \o r
           n == Len(f)
           start == First(s, StartMarker, 1)
           end == UNION {First(s, EndMarker, i + 1) : i \in start}
           from == CHOOSE i \in start : TRUE
           to == CHOOSE i \in end : TRUE
<1>1. /\ f \in Seq(Byte) /\ n \in Nat /\ n >= 2 /\ Len(r) \in Nat
      /\ f[1] = StartMarker /\ f[n] = EndMarker
      /\ \A i \in 2 .. n - 1 : f[i] # EndMarker
  BY LenProperties DEF Framed
<1>2. /\ s \in Seq(Byte) /\ Len(s) = n + Len(r)
      /\ \A i \in 1 .. n : s[i] = f[i]
  <2>1. /\ s \in Seq(Byte) /\ Len(s) = n + Len(r)
        /\ \A i \in 1 .. n + Len(r) : s[i] = IF i <= n THEN f[i] ELSE r[i - n]
    BY <1>1, ConcatProperties, Zenon
  <2>2. \A i \in 1 .. n : i \in 1 .. n + Len(r) /\ i <= n
    BY <1>1
  <2> QED BY <2>1, <2>2, Zenon
<1>3. SubSeq(s, 1, n) = f
  <2>1. 1 \in 1 .. n /\ n \in 1 .. n
    BY <1>1
  <2> QED BY <1>1, <2>1, SubSeqOfConcat1, SubSeqFull, Zenon
<1>4. SubSeq(s, n + 1, Len(s)) = r
  <2>1. CASE r = <<>>
    <3>1. Len(s) = n
      BY <1>1, <1>2, <2>1
    <3>2. SubSeq(s, n + 1, n) = <<>>
      BY <1>1, SubSeqEmpty
    <3> QED BY <2>1, <3>1, <3>2, Zenon
  <2>2. CASE r # <<>>
    <3>1. Len(r) >= 1
      BY <1>1, <2>2, EmptySeq
    <3>2. n + 1 \in n + 1 .. n + Len(r) /\ Len(s) \in n + 1 .. n + Len(r)
          /\ (n + 1) - n = 1 /\ Len(s) - n = Len(r)
      BY <1>1, <1>2, <3>1
    <3>3. SubSeq(s, n + 1, Len(s)) = SubSeq(r, (n + 1) - n, Len(s) - n)
      BY <1>1, <3>2, SubSeqOfConcat2, Zenon
    <3> QED BY <3>2, <3>3, SubSeqFull, Zenon
  <2> QED BY <2>1, <2>2
<1>5. NextFrame(s) = IF start = {} THEN [frame |-> <<>>, rest |-> <<>>]
                     ELSE IF end = {} THEN [frame |-> <<>>, rest |-> SubSeq(s, from, Len(s))]
                     ELSE [frame |-> <<SubSeq(s, from, to)>>, rest |-> SubSeq(s, to + 1, Len(s))]
  BY Zenon DEF NextFrame
<1> HIDE DEF s, n
<1>6. start = {1}
  <2>1. \A i : i \in start <=> i \in 1 .. Len(s) /\ s[i] = StartMarker /\ \A j \in 1 .. i - 1 : s[j] # StartMarker
    BY Zenon DEF First
  <2>2. 1 \in 1 .. Len(s) /\ s[1] = StartMarker /\ \A j : j \notin 1 .. 1 - 1
    BY <1>1, <1>2
  <2>3. \A i \in 1 .. Len(s) : i = 1 \/ 1 \in 1 .. i - 1
    BY <1>1, <1>2
  <2> HIDE DEF start
  <2>4. 1 \in start
    BY <2>1, <2>2, Zenon
  <2>5. \A i \in start : i = 1
    BY <2>1, <2>2, <2>3, Zenon
  <2> QED BY <2>4, <2>5
<1> HIDE DEF start
<1>7. end = {n}
  <2> DEFINE e == First(s, EndMarker, 2)
  <2>1. end = e
    <3>1. 1 + 1 = 2
      OBVIOUS
    <3>2. \A i \in start : i + 1 = 2
      BY <1>6
    <3> HIDE DEF e
    <3>3. \A i \in start : First(s, EndMarker, i + 1) = e
      BY <3>2, Zenon DEF e
    <3> QED BY <1>6, <3>3
  <2>2. \A i : i \in e <=> i \in 2 .. Len(s) /\ s[i] = EndMarker /\ \A j \in 2 .. i - 1 : s[j] # EndMarker
    BY Zenon DEF First
  <2> HIDE DEF e
  <2>3. n \in e
    <3>1. n \in 2 .. Len(s) /\ n \in 1 .. n /\ \A j \in 2 .. n - 1 : j \in 1 .. n
      BY <1>1, <1>2
    <3> QED BY <1>1, <1>2, <2>2, <3>1, Zenon
  <2>4. \A i \in e : i = n
    <3> SUFFICES ASSUME NEW i \in e, i # n PROVE FALSE
      OBVIOUS
    <3>1. i \in 2 .. Len(s) /\ s[i] = EndMarker /\ \A j \in 2 .. i - 1 : s[j] # EndMarker
      BY <2>2, Zenon
    <3>2. CASE i < n
      <4>1. i \in 2 .. n - 1 /\ i \in 1 .. n
        BY <1>1, <3>1, <3>2
      <4> QED BY <1>1, <1>2, <3>1, <4>1, Zenon
    <3>3. CASE ~(i < n)
      <4>1. n \in 2 .. i - 1 /\ n \in 1 .. n
        BY <1>1, <3>1, <3>3
      <4> QED BY <1>1, <1>2, <3>1, <4>1, Zenon
    <3> QED BY <3>2, <3>3
  <2> QED BY <2>1, <2>3, <2>4
<1> HIDE DEF end
<1>8. from = 1 /\ to = n /\ start # {} /\ end # {}
  BY <1>6, <1>7
<1> QED BY <1>3, <1>4, <1>5, <1>8, Zenon DEF s

\* Less than a frame.
LEMMA NextOfPart ==
  ASSUME NEW f, Framed(f), NEW b \in Seq(Byte), Len(b) < Len(f),
         \A i \in 1 .. Len(b) : b[i] = f[i]
  PROVE  NextFrame(b) = [frame |-> <<>>, rest |-> b]
<1> DEFINE start == First(b, StartMarker, 1)
           end == UNION {First(b, EndMarker, i + 1) : i \in start}
           from == CHOOSE i \in start : TRUE
           to == CHOOSE i \in end : TRUE
<1>1. /\ Len(b) \in Nat /\ Len(f) \in Nat
      /\ f[1] = StartMarker
      /\ \A i \in 2 .. Len(f) - 1 : f[i] # EndMarker
  BY LenProperties DEF Framed
<1>2. NextFrame(b) = IF start = {} THEN [frame |-> <<>>, rest |-> <<>>]
                     ELSE IF end = {} THEN [frame |-> <<>>, rest |-> SubSeq(b, from, Len(b))]
                     ELSE [frame |-> <<SubSeq(b, from, to)>>, rest |-> SubSeq(b, to + 1, Len(b))]
  BY Zenon DEF NextFrame
<1>3. \A i : i \in start <=> i \in 1 .. Len(b) /\ b[i] = StartMarker /\ \A j \in 1 .. i - 1 : b[j] # StartMarker
  BY Zenon DEF First
<1>4. CASE b = <<>>
  <2>1. \A i : i \notin 1 .. Len(b)
    BY <1>4
  <2>2. start = {}
    <3> HIDE DEF start
    <3> QED BY <1>3, <2>1
  <2> QED BY <1>2, <1>4, <2>2, Zenon
<1>5. CASE b # <<>>
  <2>1. Len(b) >= 1
    BY <1>1, <1>5, EmptySeq
  <2>2. start = {1}
    <3>1. 1 \in 1 .. Len(b) /\ \A j : j \notin 1 .. 1 - 1
      BY <1>1, <2>1
    <3>2. b[1] = StartMarker
      BY <1>1, <3>1, Zenon
    <3>3. \A i \in 1 .. Len(b) : i = 1 \/ 1 \in 1 .. i - 1
      BY <1>1
    <3> HIDE DEF start
    <3>4. 1 \in start
      BY <1>3, <3>1, <3>2, Zenon
    <3>5. \A i \in start : i = 1
      BY <1>3, <3>2, <3>3, Zenon
    <3> QED BY <3>4, <3>5
  <2>3. end = {}
    <3> SUFFICES ASSUME NEW i \in start, NEW k \in First(b, EndMarker, i + 1) PROVE FALSE
      OBVIOUS
    <3>1. i + 1 = 2
      <4> HIDE DEF start
      <4> QED BY <2>2
    <3>2. k \in 2 .. Len(b) /\ b[k] = EndMarker
      BY <3>1, Zenon DEF First
    <3>3. k \in 2 .. Len(f) - 1 /\ k \in 1 .. Len(b)
      BY <1>1, <3>2
    <3> QED BY <1>1, <3>2, <3>3, Zenon
  <2> HIDE DEF start, end
  <2>4. from = 1 /\ start # {}
    BY <2>2
  <2>5. SubSeq(b, 1, Len(b)) = b
    BY SubSeqFull, Zenon
  <2> QED BY <1>2, <2>3, <2>4, <2>5, Zenon
<1> QED BY <1>4, <1>5
=============================================================================
