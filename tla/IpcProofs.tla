----------------------------- MODULE IpcProofs -----------------------------
(***************************************************************************)
(* What the socket server keeps true for any clients, sizes of buffers,    *)
(* limits and bounds: its types, that the bytes a client is given are      *)
(* those it reads, that pushes do not pile up, that subscribers know the   *)
(* status, that no reader is shown an older status after a newer one, and  *)
(* that requests are answered once each and in order.                      *)
(*                                                                         *)
(* Every handler ends in Settle, which queues a line to some clients,      *)
(* sends what there is room for, and closes some; the lemmas below say     *)
(* what it does to one client, and each invariant is then a matter of      *)
(* which clients an action settles, and with what line.                    *)
(***************************************************************************)
EXTENDS IpcServer, Recursion, SequenceTheorems

Texts == Seq(Symbols)
Kinds == {"none", "up", "clientClosed", "serverClosed"}
Lines == [k : {"subscribe", "unsubscribe", "status", "set"}, n : Nat \ {0}]

-----------------------------------------------------------------------------
(* Cutting a sequence in two. *)

\* Take and Drop cut a sequence in two pieces, of the lengths they say, that
\* make up the whole again: what is sent and what is kept of a buffer.
LEMMA TakeDrop ==
  ASSUME NEW S, NEW s \in Seq(S), NEW n \in Nat
  PROVE  /\ Take(s, n) \in Seq(S) /\ Drop(s, n) \in Seq(S)
         /\ Len(Take(s, n)) <= n
         /\ Len(Drop(s, n)) = Len(s) - Len(Take(s, n))
         /\ Take(s, n) \o Drop(s, n) = s
<1>1. Len(s) \in Nat /\ \A i \in 1 .. Len(s) : s[i] \in S
  BY LenProperties, ElementOfSeq
<1>2. CASE n <= Len(s)
  <2>1. Take(s, n) = SubSeq(s, 1, n) /\ Drop(s, n) = SubSeq(s, n + 1, Len(s))
    BY <1>1, <1>2 DEF Take, Drop, Lesser
  <2>2. /\ SubSeq(s, 1, n) \in Seq(S)
        /\ Len(SubSeq(s, 1, n)) = n
    BY <1>1, <1>2, SubSeqProperties
  <2>3. /\ SubSeq(s, n + 1, Len(s)) \in Seq(S)
        /\ Len(SubSeq(s, n + 1, Len(s))) = Len(s) - n
    BY <1>1, <1>2, SubSeqProperties
  <2>4. SubSeq(s, 1, n) \o SubSeq(s, n + 1, Len(s)) = SubSeq(s, 1, Len(s))
    <3>1. 1 \in 1 .. Len(s) + 1 /\ n \in 1 - 1 .. Len(s) /\ Len(s) \in n .. Len(s)
      BY <1>1, <1>2
    <3> QED BY ONLY <3>1, ConcatAdjacentSubSeq, s \in Seq(S), Zenon
  <2>5. SubSeq(s, 1, Len(s)) = s
    BY SubSeqFull
  <2>6. Take(s, n) \o Drop(s, n) = s
    BY <2>1, <2>4, <2>5, Zenon
  <2>7. Len(Take(s, n)) = n /\ Len(Drop(s, n)) = Len(s) - n
    BY <2>1, <2>2, <2>3, Zenon
  <2>8. Take(s, n) \in Seq(S) /\ Drop(s, n) \in Seq(S)
    BY <2>1, <2>2, <2>3, Zenon
  <2> QED BY <2>6, <2>7, <2>8, <1>1
<1>3. CASE n > Len(s)
  <2>1. Take(s, n) = s
    BY <1>1, <1>3, SubSeqFull DEF Take, Lesser
  <2>2. Drop(s, n) = <<>>
    BY <1>1, <1>3, SubSeqEmpty DEF Drop
  <2> QED BY <2>1, <2>2, <1>1, <1>3, ConcatEmptySeq, EmptySeq
<1> QED BY <1>1, <1>2, <1>3

\* Cutting a concatenation where it was joined gives the pieces back.
LEMMA TakeDropOfConcat ==
  ASSUME NEW S, NEW a \in Seq(S), NEW b \in Seq(S)
  PROVE  Take(a \o b, Len(a)) = a /\ Drop(a \o b, Len(a)) = b
<1>1. /\ a \o b \in Seq(S) /\ Len(a \o b) = Len(a) + Len(b)
      /\ \A i \in 1 .. Len(a) + Len(b) : (a \o b)[i] = IF i <= Len(a) THEN a[i] ELSE b[i - Len(a)]
      /\ Len(a) \in Nat /\ Len(b) \in Nat
  BY ConcatProperties, LenProperties
<1>2. \A i \in 1 .. Len(a) + Len(b) : (a \o b)[i] \in S
  BY <1>1, ElementOfSeq
<1>3. Take(a \o b, Len(a)) = SubSeq(a \o b, 1, Len(a))
  BY <1>1 DEF Take, Lesser
<1>4. Drop(a \o b, Len(a)) = SubSeq(a \o b, Len(a) + 1, Len(a) + Len(b))
  BY <1>1 DEF Drop
<1> DEFINE ab == a \o b
           t == SubSeq(ab, 1, Len(a))
           d == SubSeq(ab, Len(a) + 1, Len(a) + Len(b))
<1>5. /\ \A i \in 1 .. Len(a) : ab[i] = a[i] /\ ab[i] \in S
      /\ \A i \in 1 .. Len(b) : ab[Len(a) + i] = b[i]
      /\ \A i \in Len(a) + 1 .. Len(a) + Len(b) : ab[i] \in S
  BY <1>1, <1>2
<1> HIDE DEF ab
<1>6. t \in Seq(S) /\ Len(t) = Len(a) /\ \A i \in 1 .. Len(a) : t[i] = ab[i]
  BY <1>1, <1>5, SubSeqProperties
<1>7. d \in Seq(S) /\ Len(d) = Len(b) /\ \A i \in 1 .. Len(b) : d[i] = ab[Len(a) + i]
  BY <1>1, <1>5, SubSeqProperties
<1> HIDE DEF t, d
<1>8. t = a
  BY <1>5, <1>6, SeqEqual
<1>9. d = b
  BY <1>5, <1>7, SeqEqual
<1> QED BY <1>3, <1>4, <1>8, <1>9 DEF t, d, ab

\* Concatenation is associative.
LEMMA Associative ==
  ASSUME NEW a \in Texts, NEW b \in Texts, NEW d \in Texts
  PROVE  (a \o b) \o d = a \o (b \o d)
<1>1. a \in Seq(Symbols) /\ b \in Seq(Symbols) /\ d \in Seq(Symbols)
  BY DEF Texts
<1>2. \A S : \A x, y, z \in Seq(S) : (x \o y) \o z = x \o (y \o z)
  BY ConcatAssociative
<1> QED BY ONLY <1>1, <1>2

\* A symbol after two pieces is a symbol after the second.
LEMMA ConcatOfAppend ==
  ASSUME NEW a \in Texts, NEW b \in Texts, NEW x \in Symbols
  PROVE  (a \o b) \o <<x>> = a \o Append(b, x)
<1>1. <<x>> \in Texts
  BY DEF Texts
<1>2. \A S : \A q \in Seq(S), y \in S : Append(q, y) = q \o <<y>>
  OBVIOUS
<1>3. b \in Seq(Symbols)
  BY DEF Texts
<1>4. Append(b, x) = b \o <<x>>
  BY <1>2, <1>3, Zenon
<1>5. (a \o b) \o <<x>> = a \o (b \o <<x>>)
  BY <1>1, Associative
<1> QED BY <1>4, <1>5, Zenon

\* The first n numbers, and 0.
LEMMA FromZero == \A k \in Nat : 0 \in 0 .. k /\ \A n \in 1 .. k : n \in 0 .. k /\ n # 0
OBVIOUS

\* A buffer with a newline in it has a first one.
LEMMA LineEndIs ==
  ASSUME NEW s \in Texts, HasLine(s)
  PROVE  /\ LineEnd(s) \in 1 .. Len(s) /\ s[LineEnd(s)] = NewLine
         /\ \A j \in 1 .. LineEnd(s) - 1 : s[j] # NewLine
<1> DEFINE T == {i \in 1 .. Len(s) : s[i] = NewLine}
<1>1. Len(s) \in Nat
  BY LenProperties DEF Texts
<1>2. T \subseteq Nat /\ T # {}
  BY <1>1 DEF HasLine
<1> HIDE DEF T
<1>3. PICK i \in T : \A j \in T : i <= j
  BY <1>2, LeastOf
<1>4. i \in 1 .. Len(s) /\ s[i] = NewLine
  BY DEF T
<1>5. \A j \in 1 .. i - 1 : s[j] # NewLine
  BY <1>1, <1>3, <1>4 DEF T
<1>6. \E k \in 1 .. Len(s) : s[k] = NewLine /\ \A j \in 1 .. k - 1 : s[j] # NewLine
  BY <1>4, <1>5
<1> QED BY <1>6, Zenon DEF LineEnd

\* What stays of a buffer after its first line is the rest of it.
LEMMA RestIs ==
  ASSUME NEW s \in Texts, HasLine(s)
  PROVE  Rest(s) \in Texts /\ Len(Rest(s)) <= Len(s)
<1>1. LineEnd(s) \in Nat /\ Len(s) \in Nat
  BY LineEndIs, LenProperties DEF Texts
<1>2. Drop(s, LineEnd(s)) \in Texts /\ Take(s, LineEnd(s)) \in Texts
      /\ Len(Drop(s, LineEnd(s))) = Len(s) - Len(Take(s, LineEnd(s)))
  BY <1>1, TakeDrop DEF Texts
<1>3. Len(Take(s, LineEnd(s))) \in Nat
  BY <1>2, LenProperties DEF Texts
<1>4. Len(Drop(s, LineEnd(s))) <= Len(s)
  BY <1>1, <1>2, <1>3
<1> QED BY <1>2, <1>4 DEF Rest

\* A line is two symbols.
LEMMA LineTypes ==
  ASSUME NEW k \in {"state", "push", "ok", "err"}, NEW v \in 0 .. MaxVersion
  PROVE  /\ Line(k, v) \in Texts /\ Len(Line(k, v)) = 2
         /\ Line(k, v)[1] = [k |-> k, v |-> v] /\ Line(k, v)[2] = NewLine
         /\ Line(k, v)[1] \in Symbols
BY IpcAssumption DEF Line, NewLine, Symbol, Texts, Symbols

\* So is a request, but for its newline, and with it.
LEMMA BodyTypes ==
  ASSUME NEW w \in Lines
  PROVE  /\ Body(w) \in Texts /\ Len(Body(w)) = w.n
         /\ \A i \in 1 .. w.n : Body(w)[i] = Symbol(w.k)
         /\ NewLine \in Symbols /\ Symbol(w.k) # NewLine
<1>1. 0 \in 0 .. MaxVersion
  BY IpcAssumption
<1>2. Symbol(w.k) \in Symbols /\ NewLine \in Symbols /\ Symbol(w.k) # NewLine
  BY <1>1 DEF Lines, Symbol, Symbols, NewLine
<1>3. w.n \in Nat
  BY DEF Lines
<1> QED BY <1>2, <1>3 DEF Body, Texts

\* The lines a client writes have a kind and a length.
LEMMA WritesLines == ASSUME NEW c \in Client PROVE Writes[c] \subseteq Lines
BY IpcAssumption DEF Lines

-----------------------------------------------------------------------------
(* The invariant, in parts. *)

\* The types of the variables.
Types ==
  /\ pc \in {"poll", "ipc", "read", "down"} /\ listen \in BOOLEAN
  /\ status \in 0 .. MaxVersion /\ published \in -1 .. status
  /\ events \in [Client -> SUBSET {"in", "out", "hup"}]
  /\ open \subseteq Client /\ waiting \subseteq Client /\ reading \subseteq Client
  /\ subscribed \subseteq Client
  /\ conn \in [Client -> Kinds]
  /\ toServer \in [Client -> Texts] /\ inBuf \in [Client -> Texts]
  /\ outBuf \in [Client -> Texts] /\ toClient \in [Client -> Texts] /\ due \in [Client -> Texts]
  /\ told \in [Client -> Symbols \cup {Untold}] /\ seen \in [Client -> -1 .. MaxVersion]

\* Who is read, subscribed or has events has a session, and a session or a
\* place in the queue is a connection.
Loop ==
  /\ (pc = "read" <=> reading # {}) /\ reading \subseteq open
  /\ (pc = "down" => open = {})
  /\ subscribed \subseteq open /\ waiting \cap open = {}
  /\ \A c \in Client : events[c] # {} => c \in open /\ c \notin reading
  /\ \A c \in Client : (c \in open \cup waiting) <=> conn[c] \in {"up", "clientClosed"}

Buffers ==
  \A c \in Client :
    /\ Len(toClient[c]) <= SockRoom
    /\ Len(inBuf[c]) <= MaxLine
    /\ c \notin open => inBuf[c] = <<>> /\ outBuf[c] = <<>>

-----------------------------------------------------------------------------
(* What Settle does to one client. *)

\* What is sent and what is kept is the line and what was kept before it, cut
\* in two, with what is sent of a size that there is room for.
Settled(D, Gone, lines, c) ==
  /\ c \in D => \E s \in Texts, t \in Texts :
                   /\ s \o t = outBuf[c] \o lines[c]
                   /\ toClient'[c] = toClient[c] \o s
                   /\ outBuf'[c] = IF c \in Gone THEN <<>> ELSE t
                   /\ Len(toClient[c]) + Len(s) <= SockRoom
  /\ c \in D => due'[c] = due[c] \o lines[c]
  /\ c \in D => told'[c] = IF StatusSymbol(lines[c]) THEN lines[c][1] ELSE told[c]
  /\ c \notin D => /\ toClient'[c] = toClient[c] /\ due'[c] = due[c]
                   /\ told'[c] = told[c]
                   /\ outBuf'[c] = IF c \in Gone THEN <<>> ELSE outBuf[c]
  /\ conn'[c] = IF c \notin Gone THEN conn[c]
                ELSE IF Fails(c) THEN "none" ELSE "serverClosed"

\* That is what Settle does to a client; one that is not settled is left alone.
LEMMA SettleOne ==
  ASSUME Types, Buffers, NEW D \in SUBSET Client, NEW Gone \in SUBSET Client,
         NEW lines \in [Client -> Texts], Settle(D, lines, Gone), NEW c \in Client
  PROVE  Settled(D, Gone, lines, c)
<1> DEFINE n == SockRoom - Len(toClient[c])
           p == outBuf[c] \o lines[c]
<1>1. /\ toClient[c] \in Texts /\ outBuf[c] \in Texts /\ lines[c] \in Texts
      /\ Len(toClient[c]) <= SockRoom
  BY DEF Types, Buffers
<1>2. n \in Nat
  BY <1>1, LenProperties, IpcAssumption DEF Texts
<1>3. p \in Texts
  BY <1>1, ConcatProperties DEF Texts
<1>4. /\ Take(p, n) \in Texts /\ Drop(p, n) \in Texts
      /\ Len(Take(p, n)) <= n /\ Take(p, n) \o Drop(p, n) = p
  BY <1>2, <1>3, TakeDrop DEF Texts
<1>5. Len(toClient[c]) + Len(Take(p, n)) <= SockRoom
  <2>1. Len(toClient[c]) \in Nat /\ Len(Take(p, n)) \in Nat /\ SockRoom \in Nat
    BY <1>1, <1>4, LenProperties, IpcAssumption DEF Texts
  <2>2. Len(Take(p, n)) <= n /\ n = SockRoom - Len(toClient[c])
    BY <1>4
  <2> HIDE DEF n, p
  <2> DEFINE q == Len(Take(p, n))
             r == Len(toClient[c])
  <2>3. q \in Nat /\ r \in Nat /\ SockRoom \in Nat /\ q <= n /\ n = SockRoom - r
    BY <2>1, <2>2
  <2> HIDE DEF q, r
  <2>4. r + q <= SockRoom
    BY <2>3
  <2> QED BY <2>4 DEF q, r
<1>6. /\ toClient'[c] = IF c \in D THEN toClient[c] \o Take(p, n) ELSE toClient[c]
      /\ outBuf'[c] = IF c \in Gone THEN <<>> ELSE IF c \in D THEN Drop(p, n) ELSE outBuf[c]
      /\ due'[c] = IF c \in D THEN due[c] \o lines[c] ELSE due[c]
      /\ told'[c] = IF c \in D /\ StatusSymbol(lines[c]) THEN lines[c][1] ELSE told[c]
      /\ conn'[c] = IF c \notin Gone THEN conn[c]
                    ELSE IF Fails(c) THEN "none" ELSE "serverClosed"
  BY Zenon DEF Settle, Pending
<1> HIDE DEF n, p
<1>7. p = outBuf[c] \o lines[c]
  BY DEF p
<1> QED BY <1>4, <1>5, <1>6, <1>7, Zenon DEF Settled

\* Settling clients keeps the types of what it changes.
LEMMA SettleTypes ==
  ASSUME Types, Buffers, NEW D \in SUBSET Client, NEW Gone \in SUBSET Client,
         NEW lines \in [Client -> Texts], Settle(D, lines, Gone)
  PROVE  /\ toClient' \in [Client -> Texts] /\ outBuf' \in [Client -> Texts]
         /\ due' \in [Client -> Texts] /\ told' \in [Client -> Symbols \cup {Untold}]
         /\ conn' \in [Client -> Kinds] /\ open' = open \ Gone
         /\ \A c \in Client : Len(toClient'[c]) <= SockRoom
<1>1. ASSUME NEW c \in Client
      PROVE  /\ toClient'[c] \in Texts /\ outBuf'[c] \in Texts /\ due'[c] \in Texts
             /\ told'[c] \in Symbols \cup {Untold} /\ conn'[c] \in Kinds
             /\ Len(toClient'[c]) <= SockRoom
  <2>1. /\ toClient[c] \in Texts /\ outBuf[c] \in Texts /\ lines[c] \in Texts
        /\ due[c] \in Texts /\ told[c] \in Symbols \cup {Untold} /\ conn[c] \in Kinds
        /\ Len(toClient[c]) <= SockRoom /\ <<>> \in Texts
    BY DEF Types, Buffers, Texts
  <2>2. due[c] \o lines[c] \in Texts
    BY <2>1, ConcatProperties DEF Texts
  <2>0. Settled(D, Gone, lines, c)
    BY SettleOne
  <2>9. /\ c \in D => due'[c] = due[c] \o lines[c]
        /\ c \notin D => due'[c] = due[c] /\ told'[c] = told[c]
        /\ c \in D => told'[c] = IF StatusSymbol(lines[c]) THEN lines[c][1] ELSE told[c]
    BY <2>0, Zenon DEF Settled
  <2>3. due'[c] \in Texts
    BY <2>1, <2>2, <2>9, Zenon
  <2>4. StatusSymbol(lines[c]) => lines[c][1] \in Symbols
    BY <2>1, ElementOfSeq, LenProperties, EmptySeq DEF StatusSymbol, Texts
  <2>5. told'[c] \in Symbols \cup {Untold}
    BY <2>1, <2>4, <2>9, Zenon
  <2>6. conn'[c] \in Kinds
    BY <2>0, <2>1, Zenon DEF Kinds, Settled
  <2>7. CASE c \in D
    <3>1. PICK s \in Texts, t \in Texts :
            /\ toClient'[c] = toClient[c] \o s
            /\ outBuf'[c] = IF c \in Gone THEN <<>> ELSE t
            /\ Len(toClient[c]) + Len(s) <= SockRoom
      BY <2>0, <2>7, Zenon DEF Settled
    <3>2. toClient[c] \o s \in Texts /\ Len(toClient[c] \o s) = Len(toClient[c]) + Len(s)
      BY <2>1, ConcatProperties DEF Texts
    <3> QED BY <2>1, <2>3, <2>5, <2>6, <3>1, <3>2, Zenon
  <2>8. CASE c \notin D
    BY <2>0, <2>1, <2>3, <2>5, <2>6, <2>8, Zenon DEF Settled
  <2> QED BY <2>7, <2>8
<1>2. /\ toClient' = [c \in Client |-> toClient'[c]] /\ outBuf' = [c \in Client |-> outBuf'[c]]
      /\ due' = [c \in Client |-> due'[c]] /\ told' = [c \in Client |-> told'[c]]
      /\ conn' = [c \in Client |-> conn'[c]] /\ open' = open \ Gone
  BY Zenon DEF Settle
<1> QED BY <1>1, <1>2, Zenon

TypeInv == Types /\ Loop /\ Buffers

\* Emptied buffers, and the same line for everyone.
LEMMA BufferTypes ==
  /\ Empty \in [Client -> Texts]
  /\ \A f \in [Client -> Texts] : \A D : Clear(f, D) \in [Client -> Texts]
  /\ \A line \in Texts : [d \in Client |-> line] \in [Client -> Texts]
<1>1. <<>> \in Texts
  BY EmptySeq DEF Texts
<1> HIDE DEF Texts
<1> QED BY <1>1, Zenon DEF Empty, Clear

\* A step that settles clients with sessions, closes some, and otherwise keeps
\* to the types: what an action has to show of the rest.
LEMMA SettleStep ==
  ASSUME TypeInv, NEW D \in SUBSET open, NEW Gone \in SUBSET (open \cup waiting),
         NEW lines \in [Client -> Texts], Settle(D, lines, Gone),
         waiting' = waiting \ Gone, subscribed' \subseteq open', reading' \subseteq open',
         pc' \in {"poll", "ipc", "read", "down"}, listen' \in BOOLEAN,
         pc' = "read" <=> reading' # {}, pc' = "down" => open' = {},
         status' \in 0 .. MaxVersion, published' \in -1 .. status',
         events' \in [Client -> SUBSET {"in", "out", "hup"}],
         \A c \in Client : events'[c] # {} => c \in open' /\ c \notin reading',
         toServer' \in [Client -> Texts], inBuf' \in [Client -> Texts],
         \A c \in Client : Len(inBuf'[c]) <= MaxLine,
         \A c \in Client : c \notin open' => inBuf'[c] = <<>>,
         seen' = seen
  PROVE  TypeInv'
<1>1. /\ toClient' \in [Client -> Texts] /\ outBuf' \in [Client -> Texts]
      /\ due' \in [Client -> Texts] /\ told' \in [Client -> Symbols \cup {Untold}]
      /\ conn' \in [Client -> Kinds] /\ open' = open \ Gone
      /\ \A c \in Client : Len(toClient'[c]) <= SockRoom
  <2>1. Types /\ Buffers /\ D \in SUBSET Client /\ Gone \in SUBSET Client
    BY DEF TypeInv, Types
  <2> QED BY <2>1, SettleTypes
<1>2. Types'
  <2>1. open' \subseteq Client /\ waiting' \subseteq Client /\ reading' \subseteq Client
        /\ subscribed' \subseteq Client /\ seen' \in [Client -> -1 .. MaxVersion]
    BY <1>1 DEF TypeInv, Types
  <2> QED BY <1>1, <2>1, Zenon DEF Types
<1>3. ASSUME NEW c \in Client
      PROVE  Settled(D, Gone, lines, c)
  <2>1. Types /\ Buffers /\ D \in SUBSET Client /\ Gone \in SUBSET Client
    BY DEF TypeInv, Types
  <2> QED BY <2>1, SettleOne
<1>4. Loop'
  <2>1. waiting' \cap open' = {}
    BY <1>1 DEF TypeInv, Loop
  <2>2. ASSUME NEW c \in Client
        PROVE  (c \in open' \cup waiting') <=> conn'[c] \in {"up", "clientClosed"}
    <3>1. (c \in open' \cup waiting') <=> (c \in open \cup waiting /\ c \notin Gone)
      BY <1>1
    <3>2. (c \in open \cup waiting) <=> conn[c] \in {"up", "clientClosed"}
      BY DEF TypeInv, Loop
    <3>3. conn'[c] = IF c \notin Gone THEN conn[c] ELSE IF Fails(c) THEN "none" ELSE "serverClosed"
      BY <1>3, Zenon DEF Settled
    <3> QED BY <3>1, <3>2, <3>3
  <2> QED BY <2>1, <2>2, Zenon DEF Loop
<1>5. Buffers'
  <2>1. ASSUME NEW c \in Client, c \notin open'
        PROVE  outBuf'[c] = <<>>
    <3>1. CASE c \in Gone
      BY <1>3, <3>1, Zenon DEF Settled
    <3>2. CASE c \notin Gone
      <4>1. c \notin open /\ c \notin D
        BY <1>1, <2>1, <3>2
      <4>2. outBuf[c] = <<>>
        BY <4>1 DEF TypeInv, Buffers
      <4> QED BY <1>3, <3>2, <4>1, <4>2, Zenon DEF Settled
    <3> QED BY <3>1, <3>2
  <2> QED BY <1>1, <2>1, Zenon DEF Buffers
<1> QED BY <1>2, <1>4, <1>5 DEF TypeInv

-----------------------------------------------------------------------------
(* Types: one lemma for each action of the daemon and of the clients. *)

\* poll() reports sessions only.
LEMMA PollReturnsTypes == ASSUME TypeInv, PollReturns PROVE TypeInv'
<1>1. events' = [c \in Client |-> IF c \in open THEN Reported(c) ELSE {}]
  BY Zenon DEF PollReturns
<1>2. \A c \in Client : Reported(c) \subseteq {"in", "out", "hup"}
  BY DEF Reported
<1>3. events' \in [Client -> SUBSET {"in", "out", "hup"}]
  BY <1>1, <1>2, Zenon
<1>4. pc = "poll" /\ pc' = "ipc" /\ listen' \in BOOLEAN
  BY DEF PollReturns
<1>5. status' \in 0 .. MaxVersion /\ published' \in -1 .. status'
  BY DEF PollReturns, StatusMoves, TypeInv, Types
<1>6. UNCHANGED <<reading, sessionVars, waiting, linkVars, historyVars>>
  BY DEF PollReturns
<1>7. Types'
  BY <1>3, <1>4, <1>5, <1>6 DEF TypeInv, Types, sessionVars, linkVars, historyVars
<1>8. reading = {}
  BY <1>4 DEF TypeInv, Loop
<1>9. \A c \in Client : events'[c] # {} => c \in open
  BY <1>1, Zenon
<1>10. Loop'
  BY <1>4, <1>6, <1>8, <1>9 DEF TypeInv, Loop, sessionVars, linkVars
<1>11. Buffers'
  BY <1>6 DEF TypeInv, Buffers, sessionVars, linkVars
<1> QED BY <1>7, <1>10, <1>11 DEF TypeInv

\* Those who waited have a session now, and nothing in it.
LEMMA AcceptTypes == ASSUME TypeInv, AcceptClients PROVE TypeInv'
<1>1. Types'
  BY DEF AcceptClients, TypeInv, Types, linkVars, historyVars
<1>2. Loop'
  BY DEF AcceptClients, TypeInv, Loop, linkVars
<1>3. Buffers'
  BY DEF AcceptClients, TypeInv, Buffers, linkVars
<1> QED BY <1>1, <1>2, <1>3 DEF TypeInv

\* What a handler that serves c leaves of the types: the event it serves is gone.
LEMMA ServingTypes ==
  ASSUME TypeInv, NEW c \in Client, Serving(c)
  PROVE  /\ pc = "ipc" /\ c \in open /\ c \notin waiting /\ reading = {}
         /\ events' \in [Client -> SUBSET {"in", "out", "hup"}]
         /\ events'[c] = {} /\ \A d \in Client : events'[d] # {} => events[d] # {} /\ d # c
         /\ status' \in 0 .. MaxVersion /\ published' \in -1 .. status'
         /\ listen' \in BOOLEAN /\ waiting' = waiting /\ seen' = seen
BY DEF TypeInv, Types, Loop, Serving

\* A client that is closed takes its buffers with it.
LEMMA ClosingTypes ==
  ASSUME TypeInv, NEW c \in Client, Closing(c)
  PROVE  /\ toServer' \in [Client -> Texts] /\ inBuf' \in [Client -> Texts]
         /\ \A d \in Client : Len(inBuf'[d]) <= MaxLine /\ (d \notin open \ {c} => inBuf'[d] = <<>>)
         /\ subscribed' \subseteq open \ {c}
<1>1. toServer' \in [Client -> Texts] /\ inBuf' \in [Client -> Texts]
  BY BufferTypes, Zenon DEF TypeInv, Types, Closing
<1>2. \A d \in Client : inBuf'[d] = IF d = c THEN <<>> ELSE inBuf[d]
  BY Zenon DEF Closing, Clear
<1>3. \A d \in Client : Len(inBuf'[d]) <= MaxLine /\ (d \notin open \ {c} => inBuf'[d] = <<>>)
  BY <1>2, IpcAssumption DEF TypeInv, Buffers
<1>4. subscribed' \subseteq open \ {c}
  BY DEF TypeInv, Loop, Closing
<1> QED BY <1>1, <1>3, <1>4

\* Settle says which sessions are left.
LEMMA SettleOpen ==
  ASSUME NEW D, NEW Gone, NEW lines, Settle(D, lines, Gone)
  PROVE  open' = open \ Gone
BY Zenon DEF Settle

\* Closing a client that hung up keeps the types.
LEMMA HangUpTypes == ASSUME TypeInv, NEW c \in Client, HangUp(c) PROVE TypeInv'
<1>1. Serving(c) /\ Closing(c) /\ UNCHANGED <<pc, reading>>
  BY DEF HangUp
<1>2. Settle({}, Empty, {c})
  BY <1>1 DEF Closing
<1>3. open' = open \ {c}
  BY <1>2, SettleOpen
<1>4. /\ pc = "ipc" /\ c \in open /\ c \notin waiting /\ reading = {}
      /\ events' \in [Client -> SUBSET {"in", "out", "hup"}]
      /\ \A d \in Client : events'[d] # {} => events[d] # {} /\ d # c
      /\ status' \in 0 .. MaxVersion /\ published' \in -1 .. status'
      /\ listen' \in BOOLEAN /\ waiting' = waiting /\ seen' = seen
  BY <1>1, ServingTypes
<1>5. /\ toServer' \in [Client -> Texts] /\ inBuf' \in [Client -> Texts]
      /\ \A d \in Client : Len(inBuf'[d]) <= MaxLine
      /\ \A d \in Client : d \notin open' => inBuf'[d] = <<>>
      /\ subscribed' \subseteq open'
  BY <1>1, <1>3, ClosingTypes
<1>6. \A d \in Client : events'[d] # {} => d \in open' /\ d \notin reading'
  BY <1>1, <1>3, <1>4 DEF TypeInv, Loop
<1>7. waiting' = waiting \ {c} /\ reading' \subseteq open' /\ pc' = "ipc" /\ reading' = {}
  BY <1>1, <1>4
<1>8. Empty \in [Client -> Texts]
  BY BufferTypes
<1>9. {} \in SUBSET open /\ {c} \in SUBSET (open \cup waiting)
  BY <1>4
<1> QED BY <1>2, <1>4, <1>5, <1>6, <1>7, <1>8, <1>9, SettleStep

\* Serving a client keeps the types: what does not fit in the kernel stays
\* queued.
LEMMA ServeTypes == ASSUME TypeInv, NEW c \in Client, Serve(c) PROVE TypeInv'
<1> DEFINE D == IF "out" \in events[c] THEN {c} ELSE {}
<1>1. /\ Serving(c) /\ Settle(D, Empty, {})
      /\ \/ pc' = "read" /\ reading' = {c}
         \/ UNCHANGED <<pc, reading>>
      /\ UNCHANGED <<subscribed, inBuf, toServer>>
  BY Zenon DEF Serve
<1>2. open' = open
  BY <1>1, SettleOpen
<1>3. /\ pc = "ipc" /\ c \in open /\ c \notin waiting /\ reading = {}
      /\ events' \in [Client -> SUBSET {"in", "out", "hup"}]
      /\ \A d \in Client : events'[d] # {} => events[d] # {} /\ d # c
      /\ status' \in 0 .. MaxVersion /\ published' \in -1 .. status'
      /\ listen' \in BOOLEAN /\ waiting' = waiting /\ seen' = seen
  BY <1>1, ServingTypes
<1>4. \A d \in Client : events'[d] # {} => d \in open' /\ d \notin reading'
  BY <1>1, <1>2, <1>3 DEF TypeInv, Loop
<1>5. /\ toServer' \in [Client -> Texts] /\ inBuf' \in [Client -> Texts]
      /\ \A d \in Client : Len(inBuf'[d]) <= MaxLine
      /\ \A d \in Client : d \notin open' => inBuf'[d] = <<>>
      /\ subscribed' \subseteq open'
  BY <1>1, <1>2 DEF TypeInv, Types, Loop, Buffers
<1>6. /\ waiting' = waiting \ {} /\ reading' \subseteq open' /\ pc' \in {"ipc", "read"}
      /\ pc' = "read" <=> reading' # {}
  BY <1>1, <1>2, <1>3
<1>7. Empty \in [Client -> Texts]
  BY BufferTypes
<1>8. D \in SUBSET open /\ {} \in SUBSET (open \cup waiting)
  BY <1>3
<1> HIDE DEF D
<1> QED BY <1>1, <1>3, <1>4, <1>5, <1>6, <1>7, <1>8, SettleStep

\* recv() keeps the types: what it takes leaves the kernel.
LEMMA RecvTypes == ASSUME TypeInv, NEW c \in Client, Recv(c) PROVE TypeInv'
<1> DEFINE n == Lesser(ReadSize, Len(toServer[c]))
           buf == inBuf[c] \o Take(toServer[c], n)
           end == n = 0 \/ TooLong(buf)
<1>1. /\ pc = "read" /\ reading = {c} /\ c \in open /\ c \notin waiting /\ pc' \in {"read", "ipc"}
      /\ (pc' = "read" <=> reading' # {}) /\ reading' \subseteq {c}
      /\ (end => pc' = "ipc" /\ reading' = {})
      /\ events' = events /\ listen' = listen /\ status' = status /\ published' = published
      /\ waiting' = waiting /\ seen' = seen
  BY DEF Recv, TypeInv, Loop
<1>2. /\ events' \in [Client -> SUBSET {"in", "out", "hup"}] /\ listen' \in BOOLEAN
      /\ status' \in 0 .. MaxVersion /\ published' \in -1 .. status'
      /\ \A d \in Client : events'[d] # {} => d \in open \ {c}
      /\ waiting' = waiting \ {c} /\ waiting' = waiting \ {}
      /\ {} \in SUBSET open /\ {c} \in SUBSET open
      /\ {c} \in SUBSET (open \cup waiting) /\ {} \in SUBSET (open \cup waiting)
  BY <1>1 DEF TypeInv, Types, Loop
<1>3. toServer[c] \in Texts /\ inBuf[c] \in Texts /\ n \in Nat
  BY IpcAssumption, LenProperties DEF TypeInv, Types, Lesser, Texts
<1>4. /\ Take(toServer[c], n) \in Texts /\ Drop(toServer[c], n) \in Texts /\ buf \in Texts
  BY <1>3, TakeDrop, ConcatProperties DEF Texts
<1>5. CASE n = 0 /\ ~Fails(c) /\ UNCHANGED <<sessionVars, conn, toServer, toClient, due, told>>
  <2>1. Types'
    BY <1>1, <1>2, <1>5 DEF TypeInv, Types, sessionVars
  <2>2. Loop'
    BY <1>1, <1>2, <1>5 DEF TypeInv, Loop, sessionVars
  <2>3. Buffers'
    BY <1>5 DEF TypeInv, Buffers, sessionVars
  <2> QED BY <2>1, <2>2, <2>3 DEF TypeInv
<1>6. CASE n = 0 /\ Fails(c) /\ Closing(c)
  <2>1. Settle({}, Empty, {c}) /\ Empty \in [Client -> Texts]
    BY <1>6, BufferTypes DEF Closing
  <2>2. open' = open \ {c}
    BY <2>1, SettleOpen
  <2>3. /\ toServer' \in [Client -> Texts] /\ inBuf' \in [Client -> Texts]
        /\ \A d \in Client : Len(inBuf'[d]) <= MaxLine
        /\ \A d \in Client : d \notin open' => inBuf'[d] = <<>>
        /\ subscribed' \subseteq open'
    BY <1>6, <2>2, ClosingTypes
  <2>4. pc' = "ipc" /\ reading' = {}
    BY <1>1, <1>6
  <2>5. \A d \in Client : events'[d] # {} => d \in open' /\ d \notin reading'
    BY <1>2, <2>2, <2>4
  <2> QED BY <1>1, <1>2, <2>1, <2>3, <2>4, <2>5, SettleStep
<1>7. CASE /\ n > 0 /\ TooLong(buf)
           /\ Settle(IF Fails(c) THEN {} ELSE {c}, [d \in Client |-> Line("err", 0)], {c})
           /\ subscribed' = subscribed \ {c}
           /\ toServer' = Clear(toServer, {c})
           /\ inBuf' = Clear(inBuf, {c})
  <2> DEFINE D == IF Fails(c) THEN {} ELSE {c}
             errs == [d \in Client |-> Line("err", 0)]
  <2>1. Settle(D, errs, {c}) /\ D \in SUBSET open
    BY <1>2, <1>7
  <2>2. Line("err", 0) \in Texts
    <3>1. 0 \in 0 .. MaxVersion
      BY IpcAssumption
    <3> QED BY <3>1, LineTypes
  <2>3. errs \in [Client -> Texts]
    BY <2>2, BufferTypes
  <2>4. open' = open \ {c}
    BY <2>1, SettleOpen
  <2>5. \A d \in Client : inBuf'[d] = IF d = c THEN <<>> ELSE inBuf[d]
    BY <1>7, Zenon DEF Clear
  <2>6. \A d \in Client : Len(inBuf'[d]) <= MaxLine /\ (d \notin open' => inBuf'[d] = <<>>)
    BY <2>4, <2>5, IpcAssumption DEF TypeInv, Buffers
  <2>7. toServer' \in [Client -> Texts] /\ inBuf' \in [Client -> Texts]
    BY <1>7, BufferTypes, Zenon DEF TypeInv, Types
  <2>8. subscribed' \subseteq open' /\ pc' = "ipc" /\ reading' = {}
    BY <1>1, <1>7, <2>4 DEF TypeInv, Loop
  <2>9. \A d \in Client : events'[d] # {} => d \in open' /\ d \notin reading'
    BY <1>2, <2>4, <2>8
  <2> HIDE DEF D, errs
  <2> QED BY <1>1, <1>2, <2>1, <2>3, <2>6, <2>7, <2>8, <2>9, SettleStep
<1>8. CASE /\ n > 0 /\ ~TooLong(buf)
           /\ inBuf' = [inBuf EXCEPT ![c] = buf]
           /\ toServer' = [toServer EXCEPT ![c] = Drop(@, n)]
           /\ UNCHANGED <<open, subscribed, outBuf, conn, toClient, due, told>>
  <2>1. Len(buf) <= MaxLine
    <3>1. buf \in Texts /\ ~TooLong(buf)
      BY <1>4, <1>8
    <3> HIDE DEF buf
    <3>2. Len(buf) \in Nat
      BY <3>1, LenProperties DEF Texts
    <3> QED BY <3>1, <3>2, IpcAssumption DEF TooLong
  <2> HIDE DEF n, buf, end
  <2>2. inBuf' \in [Client -> Texts] /\ toServer' \in [Client -> Texts]
    BY <1>4, <1>8, Zenon DEF TypeInv, Types
  <2>7. /\ open' = open /\ subscribed' = subscribed /\ outBuf' = outBuf /\ conn' = conn
        /\ toClient' = toClient /\ due' = due /\ told' = told /\ waiting' = waiting /\ seen' = seen
        /\ pc' \in {"poll", "ipc", "read", "down"} /\ reading' \subseteq Client
    BY <1>1, <1>8
  <2>3. Types'
    BY <1>2, <2>2, <2>7 DEF TypeInv, Types
  <2>8. reading' \subseteq open /\ pc' # "down" /\ (pc' = "read" <=> reading' # {}) /\ events' = events
    BY <1>1
  <2>9. \A d \in Client : events'[d] # {} => d \in open' /\ d \notin reading'
    BY <1>1, <1>2, <2>7
  <2>4. Loop'
    BY <2>7, <2>8, <2>9 DEF TypeInv, Loop
  <2>5. \A d \in Client : inBuf'[d] = IF d = c THEN buf ELSE inBuf[d]
    BY <1>8 DEF TypeInv, Types
  <2>6. Buffers'
    BY <1>1, <2>7, <2>1, <2>5 DEF TypeInv, Buffers
  <2> QED BY <2>3, <2>4, <2>6 DEF TypeInv
<1> QED BY <1>5, <1>6, <1>7, <1>8, Zenon DEF Recv

\* A request that is answered, or whose answer closes the client.
LEMMA AnswerTypes ==
  ASSUME TypeInv, NEW c \in Client, NEW line \in Texts, NEW S \in SUBSET open,
         pc = "read", reading = {c}, HasLine(inBuf[c]),
         Answer(c, line, S), StatusMoves
  PROVE  TypeInv'
<1> DEFINE D == IF Fails(c) THEN {} ELSE {c}
           Gone == IF Fails(c) THEN {c} ELSE {}
           lines == [d \in Client |-> line]
<1>1. Settle(D, lines, Gone) /\ lines \in [Client -> Texts]
  BY BufferTypes DEF Answer
<1>2. /\ open' = open \ Gone
  BY <1>1, SettleOpen
<1>3. c \in open /\ c \notin waiting /\ \A d \in Client : events[d] # {} => d \in open \ {c}
  BY DEF TypeInv, Loop
<1>4. /\ events' \in [Client -> SUBSET {"in", "out", "hup"}] /\ listen' \in BOOLEAN
      /\ status' \in 0 .. MaxVersion /\ published' \in -1 .. status'
      /\ seen' = seen /\ waiting' = waiting
  BY DEF TypeInv, Types, Answer, StatusMoves
<1>5. waiting' = waiting \ Gone
  BY <1>3, <1>4
<1>6. D \in SUBSET open /\ Gone \in SUBSET (open \cup waiting) /\ Gone \subseteq {c}
  BY <1>3
<1>7. Rest(inBuf[c]) \in Texts /\ Len(Rest(inBuf[c])) <= MaxLine
  <2>1. inBuf[c] \in Texts /\ Len(inBuf[c]) <= MaxLine
    BY DEF TypeInv, Types, Buffers
  <2>2. Rest(inBuf[c]) \in Texts /\ Len(Rest(inBuf[c])) <= Len(inBuf[c])
    BY <2>1, RestIs
  <2>3. Len(Rest(inBuf[c])) \in Nat /\ Len(inBuf[c]) \in Nat
    BY <2>1, <2>2, LenProperties DEF Texts
  <2> QED BY <2>1, <2>2, <2>3, IpcAssumption
<1>8. CASE Fails(c)
  <2>1. /\ subscribed' = S \ {c} /\ inBuf' = Clear(inBuf, {c}) /\ toServer' = Clear(toServer, {c})
        /\ pc' = "ipc" /\ reading' = {} /\ open' = open \ {c} /\ events' = events
    BY <1>2, <1>8 DEF Answer
  <2>2. inBuf' \in [Client -> Texts] /\ toServer' \in [Client -> Texts]
    BY <2>1, BufferTypes, Zenon DEF TypeInv, Types
  <2>3. \A d \in Client : inBuf'[d] = IF d = c THEN <<>> ELSE inBuf[d]
    BY <2>1, Zenon DEF Clear
  <2>4. \A d \in Client : Len(inBuf'[d]) <= MaxLine /\ (d \notin open' => inBuf'[d] = <<>>)
    <3>1. \A d \in Client : Len(inBuf[d]) <= MaxLine /\ (d \notin open => inBuf[d] = <<>>)
      BY DEF TypeInv, Buffers
    <3>2. Len(<<>>) <= MaxLine
      BY IpcAssumption
    <3>3. \A d \in Client : d \notin open' => d \notin open \/ d = c
      BY <2>1
    <3> QED BY <2>3, <3>1, <3>2, <3>3, Zenon
  <2>5. \A d \in Client : events'[d] # {} => d \in open' /\ d \notin reading'
    BY <1>3, <2>1
  <2>6. subscribed' \subseteq open' /\ reading' \subseteq open'
    BY <2>1
  <2> HIDE DEF D, Gone, lines
  <2> QED BY <1>1, <1>4, <1>5, <1>6, <2>1, <2>2, <2>4, <2>5, <2>6, SettleStep
<1>9. CASE ~Fails(c)
  <2>1. /\ subscribed' = S /\ inBuf' = [inBuf EXCEPT ![c] = Rest(@)] /\ toServer' = toServer
        /\ pc' = "read" /\ reading' = {c} /\ open' = open /\ events' = events
    BY <1>2, <1>9 DEF Answer
  <2>2. inBuf' \in [Client -> Texts] /\ toServer' \in [Client -> Texts]
    BY <1>7, <2>1, Zenon DEF TypeInv, Types
  <2>3. \A d \in Client : inBuf'[d] = IF d = c THEN Rest(inBuf[c]) ELSE inBuf[d]
    BY <2>1 DEF TypeInv, Types
  <2>4. \A d \in Client : Len(inBuf'[d]) <= MaxLine /\ (d \notin open' => inBuf'[d] = <<>>)
    <3>1. \A d \in Client : Len(inBuf[d]) <= MaxLine /\ (d \notin open => inBuf[d] = <<>>)
      BY DEF TypeInv, Buffers
    <3>2. c \in open' /\ open' = open
      BY <1>3, <2>1, Zenon
    <3>3. ASSUME NEW d \in Client
          PROVE  Len(inBuf'[d]) <= MaxLine /\ (d \notin open' => inBuf'[d] = <<>>)
      <4>1. CASE d = c
        <5>1. inBuf'[d] = Rest(inBuf[c])
          BY <2>3, <4>1, Zenon
        <5> QED BY <1>7, <3>2, <4>1, <5>1, Zenon
      <4>2. CASE d # c
        <5>1. inBuf'[d] = inBuf[d]
          BY <2>3, <4>2, Zenon
        <5> QED BY <3>1, <3>2, <5>1, Zenon
      <4> QED BY <4>1, <4>2
    <3> QED BY <3>3
  <2>5. \A d \in Client : events'[d] # {} => d \in open' /\ d \notin reading'
    BY <1>3, <2>1
  <2>6. subscribed' \subseteq open' /\ reading' \subseteq open'
    BY <1>3, <2>1
  <2> HIDE DEF D, Gone, lines
  <2> QED BY <1>1, <1>4, <1>5, <1>6, <2>1, <2>2, <2>4, <2>5, <2>6, SettleStep
<1> QED BY <1>8, <1>9

\* The answers are lines.
LEMMA AnswerLines ==
  ASSUME TypeInv
  PROVE  Line("ok", 0) \in Texts /\ StatusLine \in Texts
<1>1. 0 \in 0 .. MaxVersion /\ status \in 0 .. MaxVersion
  BY IpcAssumption DEF TypeInv, Types
<1> QED BY <1>1, LineTypes DEF StatusLine

\* handleLine() and its answer keep the types.
LEMMA RequestTypes ==
  ASSUME TypeInv, NEW c \in Client,
         Subscribe(c) \/ Unsubscribe(c) \/ Status(c) \/ Command(c)
  PROVE  TypeInv'
<1>1. /\ subscribed \cup {c} \in SUBSET open \/ reading # {c}
      /\ subscribed \ {c} \in SUBSET open /\ subscribed \in SUBSET open
  BY DEF TypeInv, Loop
<1>2. UNCHANGED status => StatusMoves
  BY DEF StatusMoves
<1>3. Line("ok", 0) \in Texts /\ StatusLine \in Texts
  BY AnswerLines
<1>4. CASE Subscribe(c)
  <2>1. /\ pc = "read" /\ reading = {c} /\ HasLine(inBuf[c])
        /\ Answer(c, StatusLine, subscribed \cup {c}) /\ UNCHANGED status
    BY <1>4 DEF Subscribe, Request
  <2> QED BY <1>1, <1>2, <1>3, <2>1, AnswerTypes
<1>5. CASE Unsubscribe(c)
  <2>1. /\ pc = "read" /\ reading = {c} /\ HasLine(inBuf[c])
        /\ Answer(c, Line("ok", 0), subscribed \ {c}) /\ UNCHANGED status
    BY <1>5 DEF Unsubscribe, Request
  <2> QED BY <1>1, <1>2, <1>3, <2>1, AnswerTypes
<1>6. CASE Status(c)
  <2>1. /\ pc = "read" /\ reading = {c} /\ HasLine(inBuf[c])
        /\ Answer(c, StatusLine, subscribed) /\ UNCHANGED status
    BY <1>6 DEF Status, Request
  <2> QED BY <1>1, <1>2, <1>3, <2>1, AnswerTypes
<1>7. CASE Command(c)
  <2>1. /\ pc = "read" /\ reading = {c} /\ HasLine(inBuf[c])
        /\ Answer(c, Line("ok", 0), subscribed) /\ StatusMoves
    BY <1>7 DEF Command, Request
  <2> QED BY <1>1, <1>3, <2>1, AnswerTypes
<1> QED BY <1>4, <1>5, <1>6, <1>7

\* A push to all subscribers keeps the types.
LEMMA PublishTypes == ASSUME TypeInv, Publish PROVE TypeInv'
<1>1. /\ pc' = "poll" /\ reading' = {} /\ events' = events /\ listen' = listen
      /\ waiting' = waiting /\ seen' = seen /\ StatusMoves
      /\ \A c \in Client : events'[c] = {}
  BY DEF Publish, TypeInv, Loop
<1>2. /\ events' \in [Client -> SUBSET {"in", "out", "hup"}] /\ listen' \in BOOLEAN
      /\ status' \in 0 .. MaxVersion /\ status' >= status
  BY <1>1 DEF TypeInv, Types, StatusMoves
<1>3. CASE UNCHANGED <<published, sessionVars, conn, toServer, toClient, due, told>>
  <2>1. published' \in -1 .. status'
    BY <1>2, <1>3 DEF TypeInv, Types
  <2>2. /\ open' = open /\ subscribed' = subscribed /\ outBuf' = outBuf /\ inBuf' = inBuf
        /\ conn' = conn /\ toServer' = toServer /\ toClient' = toClient /\ due' = due /\ told' = told
    BY <1>3 DEF sessionVars
  <2>3. Types'
    BY <1>1, <1>2, <2>1, <2>2 DEF TypeInv, Types
  <2>4. Loop'
    BY <1>1, <2>2 DEF TypeInv, Loop
  <2>5. Buffers'
    BY <2>2 DEF TypeInv, Buffers
  <2> QED BY <2>3, <2>4, <2>5 DEF TypeInv
<1>4. CASE /\ published' = status'
           /\ Settle(Listeners, [c \in Client |-> Line("push", status')], Stalled)
           /\ subscribed' = subscribed \ Stalled
           /\ toServer' = Clear(toServer, Stalled)
           /\ inBuf' = Clear(inBuf, Stalled)
  <2> DEFINE pushes == [c \in Client |-> Line("push", status')]
  <2>1. Line("push", status') \in Texts
    BY <1>2, LineTypes
  <2>2. Settle(Listeners, pushes, Stalled) /\ pushes \in [Client -> Texts]
    BY <1>4, <2>1, BufferTypes
  <2>3. /\ Listeners \in SUBSET open /\ Stalled \in SUBSET (open \cup waiting)
        /\ Stalled \subseteq open /\ waiting' = waiting \ Stalled
    BY <1>1 DEF Listeners, Stalled, TypeInv, Loop
  <2>4. open' = open \ Stalled
    BY <2>2, SettleOpen
  <2>5. toServer' \in [Client -> Texts] /\ inBuf' \in [Client -> Texts]
    BY <1>4, BufferTypes, Zenon DEF TypeInv, Types
  <2>6. \A d \in Client : inBuf'[d] = IF d \in Stalled THEN <<>> ELSE inBuf[d]
    BY <1>4, Zenon DEF Clear
  <2>7. \A d \in Client : Len(inBuf'[d]) <= MaxLine /\ (d \notin open' => inBuf'[d] = <<>>)
    BY <2>4, <2>6, IpcAssumption DEF TypeInv, Buffers
  <2>8. subscribed' \subseteq open' /\ published' \in -1 .. status' /\ reading' \subseteq open'
    BY <1>1, <1>2, <1>4, <2>4, IpcAssumption DEF TypeInv, Loop
  <2>9. \A d \in Client : events'[d] # {} => d \in open' /\ d \notin reading'
    BY <1>1
  <2> HIDE DEF pushes
  <2> QED BY <1>1, <1>2, <2>2, <2>3, <2>5, <2>7, <2>8, <2>9, SettleStep
<1> QED BY <1>3, <1>4, Zenon DEF Publish

\* The daemon's end keeps the types: nobody is open any more.
LEMMA EndsTypes == ASSUME TypeInv, Ends PROVE TypeInv'
<1> DEFINE lost == IF Activated THEN open ELSE open \cup waiting
<1>1. /\ Settle({}, Empty, lost) /\ toServer' = Clear(toServer, lost) /\ waiting' = waiting \ lost
      /\ pc' = "down" /\ events' = [c \in Client |-> {}] /\ listen' = FALSE /\ reading' = {}
      /\ subscribed' = {} /\ inBuf' = Empty /\ seen' = seen
      /\ status' = status /\ published' = published
  BY DEF Ends
<1>2. open' = open \ lost
  BY <1>1, SettleOpen
<1>3. open' = {} /\ lost \in SUBSET (open \cup waiting) /\ {} \in SUBSET open
  BY <1>2
<1>4. toServer' \in [Client -> Texts] /\ inBuf' \in [Client -> Texts] /\ Empty \in [Client -> Texts]
  BY <1>1, BufferTypes, Zenon DEF TypeInv, Types
<1>5. \A d \in Client : inBuf'[d] = <<>>
  BY <1>1, Zenon DEF Empty
<1>6. \A d \in Client : Len(inBuf'[d]) <= MaxLine
  BY <1>5, IpcAssumption
<1>7. status' \in 0 .. MaxVersion /\ published' \in -1 .. status'
  BY <1>1 DEF TypeInv, Types
<1>8. events' \in [Client -> SUBSET {"in", "out", "hup"}] /\ \A d \in Client : events'[d] = {}
  BY <1>1
<1>9. /\ subscribed' \subseteq open' /\ reading' \subseteq open' /\ listen' \in BOOLEAN
      /\ \A d \in Client : events'[d] # {} => d \in open' /\ d \notin reading'
  BY <1>1, <1>8
<1> HIDE DEF lost
<1> QED BY <1>1, <1>3, <1>4, <1>5, <1>6, <1>7, <1>8, <1>9, SettleStep

\* A new daemon starts with the right types, and with everyone who connected meanwhile.
LEMMA StartsTypes == ASSUME TypeInv, Starts PROVE TypeInv'
<1>1. /\ pc = "down" /\ pc' = "poll" /\ UNCHANGED <<events, listen, reading, waiting>>
      /\ UNCHANGED <<open, subscribed, inBuf, outBuf>> /\ UNCHANGED <<conn, toServer, toClient>>
      /\ UNCHANGED <<due, told, seen>>
  BY DEF Starts, sessionVars, linkVars, historyVars
<1>2. status' \in 0 .. MaxVersion /\ published' \in -1 .. status'
  BY IpcAssumption DEF Starts, StatusMoves, TypeInv, Types
<1>3. Types'
  BY <1>1, <1>2 DEF TypeInv, Types
<1>4. Loop'
  BY <1>1 DEF TypeInv, Loop
<1>5. Buffers'
  BY <1>1 DEF TypeInv, Buffers
<1> QED BY <1>3, <1>4, <1>5 DEF TypeInv

\* The clients, whose steps leave the daemon alone.
LEMMA ClientTypes ==
  ASSUME TypeInv, NEW c \in Client,
         \/ Connect(c) \/ EndLine(c) \/ Hear(c) \/ Leave(c)
         \/ \E w \in Writes[c] : StartLine(c, w)
  PROVE  TypeInv'
<1>1. /\ UNCHANGED loopVars /\ UNCHANGED sessionVars
      /\ status' = status /\ published' = published
  BY DEF Connect, EndLine, Hear, Leave, StartLine
<1>2. /\ pc' = pc /\ events' = events /\ listen' = listen /\ reading' = reading
      /\ open' = open /\ subscribed' = subscribed /\ inBuf' = inBuf /\ outBuf' = outBuf
  BY <1>1 DEF loopVars, sessionVars
<1>3. <<>> \in Texts /\ Len(<<>>) = 0 /\ toClient[c] \in Texts /\ due[c] \in Texts
      /\ toServer[c] \in Texts
  BY EmptySeq DEF Texts, TypeInv, Types
<1>4. -1 \in -1 .. MaxVersion /\ 0 \in 0 .. MaxVersion /\ SockRoom >= 0
  BY IpcAssumption
<1>5. CASE Connect(c)
  <2>1. /\ conn' = [conn EXCEPT ![c] = "up"] /\ waiting' = waiting \cup {c}
        /\ due' = Clear(due, {c}) /\ toClient' = Clear(toClient, {c})
        /\ told' = [told EXCEPT ![c] = Untold] /\ seen' = [seen EXCEPT ![c] = -1]
        /\ toServer' = toServer /\ conn[c] \in {"none", "serverClosed"}
    BY <1>5 DEF Connect, Forgets
  <2>2. /\ due' \in [Client -> Texts] /\ toClient' \in [Client -> Texts]
    BY <2>1, BufferTypes, Zenon DEF TypeInv, Types
  <2>3. /\ conn' \in [Client -> Kinds] /\ told' \in [Client -> Symbols \cup {Untold}]
        /\ seen' \in [Client -> -1 .. MaxVersion]
    BY <1>4, <2>1, Zenon DEF TypeInv, Types, Kinds
  <2>4. Types'
    BY <1>2, <1>1, <2>1, <2>2, <2>3 DEF TypeInv, Types
  <2>5. c \notin open \cup waiting
    BY <2>1 DEF TypeInv, Loop
  <2>6. \A d \in Client : conn'[d] = IF d = c THEN "up" ELSE conn[d]
    BY <2>1 DEF TypeInv, Types
  <2>7. Loop'
    BY <1>2, <2>1, <2>5, <2>6 DEF TypeInv, Loop
  <2>8. \A d \in Client : toClient'[d] = IF d = c THEN <<>> ELSE toClient[d]
    BY <2>1, Zenon DEF Clear
  <2>9. Buffers'
    BY <1>2, <1>3, <1>4, <2>8 DEF TypeInv, Buffers
  <2> QED BY <2>4, <2>7, <2>9 DEF TypeInv
<1>6. CASE Leave(c)
  <2>1. /\ conn' = [conn EXCEPT ![c] = "clientClosed"] /\ waiting' = waiting
        /\ due' = Clear(due, {c}) /\ toClient' = Clear(toClient, {c})
        /\ told' = [told EXCEPT ![c] = Untold] /\ seen' = [seen EXCEPT ![c] = -1]
        /\ toServer' = toServer /\ conn[c] = "up"
    BY <1>6 DEF Leave, Forgets
  <2>2. /\ due' \in [Client -> Texts] /\ toClient' \in [Client -> Texts]
    BY <2>1, BufferTypes, Zenon DEF TypeInv, Types
  <2>3. /\ conn' \in [Client -> Kinds] /\ told' \in [Client -> Symbols \cup {Untold}]
        /\ seen' \in [Client -> -1 .. MaxVersion]
    BY <1>4, <2>1, Zenon DEF TypeInv, Types, Kinds
  <2>4. Types'
    BY <1>2, <1>1, <2>1, <2>2, <2>3 DEF TypeInv, Types
  <2>6. \A d \in Client : conn'[d] = IF d = c THEN "clientClosed" ELSE conn[d]
    BY <2>1 DEF TypeInv, Types
  <2>7. Loop'
    BY <1>2, <2>1, <2>6 DEF TypeInv, Loop
  <2>8. \A d \in Client : toClient'[d] = IF d = c THEN <<>> ELSE toClient[d]
    BY <2>1, Zenon DEF Clear
  <2>9. Buffers'
    BY <1>2, <1>3, <1>4, <2>8 DEF TypeInv, Buffers
  <2> QED BY <2>4, <2>7, <2>9 DEF TypeInv
<1>7. CASE Hear(c)
  <2>1. /\ due' = [due EXCEPT ![c] = Drop(@, Len(toClient[c]))]
        /\ toClient' = Clear(toClient, {c})
        /\ \/ seen' = seen
           \/ \E i \in 1 .. Len(toClient[c]) : seen' = [seen EXCEPT ![c] = toClient[c][i].v]
        /\ waiting' = waiting /\ conn' = conn /\ toServer' = toServer /\ told' = told
    BY <1>7 DEF Hear
  <2>2. Len(toClient[c]) \in Nat
    BY <1>3, LenProperties DEF Texts
  <2>3. Drop(due[c], Len(toClient[c])) \in Texts
    BY <1>3, <2>2, TakeDrop DEF Texts
  <2>4. /\ due' \in [Client -> Texts] /\ toClient' \in [Client -> Texts]
    BY <2>1, <2>3, BufferTypes, Zenon DEF TypeInv, Types
  <2>5. \A i \in 1 .. Len(toClient[c]) : toClient[c][i].v \in -1 .. MaxVersion
    <3>1. \A i \in 1 .. Len(toClient[c]) : toClient[c][i] \in Symbols
      BY <1>3, ElementOfSeq DEF Texts
    <3>2. \A x \in Symbols : x.v \in -1 .. MaxVersion
      BY IpcAssumption DEF Symbols
    <3> QED BY <3>1, <3>2, Zenon
  <2>6. seen' \in [Client -> -1 .. MaxVersion]
    BY <2>1, <2>5, Zenon DEF TypeInv, Types
  <2>7. Types'
    BY <1>2, <1>1, <2>1, <2>4, <2>6 DEF TypeInv, Types
  <2>8. Loop'
    BY <1>2, <2>1 DEF TypeInv, Loop
  <2>9. \A d \in Client : toClient'[d] = IF d = c THEN <<>> ELSE toClient[d]
    BY <2>1, Zenon DEF Clear
  <2>10. Buffers'
    BY <1>2, <1>3, <1>4, <2>9 DEF TypeInv, Buffers
  <2> QED BY <2>7, <2>8, <2>10 DEF TypeInv
<1>8. CASE EndLine(c) \/ \E w \in Writes[c] : StartLine(c, w)
  <2>1. \E line \in Texts : toServer' = [toServer EXCEPT ![c] = line]
    <3>1. CASE EndLine(c)
      <4>1. NewLine \in Symbols
        BY <1>4 DEF NewLine, Symbol, Symbols
      <4>2. Append(toServer[c], NewLine) \in Texts
        BY <1>3, <4>1, AppendProperties DEF Texts
      <4> QED BY <3>1, <4>2 DEF EndLine
    <3>2. ASSUME NEW w \in Writes[c], StartLine(c, w)
          PROVE  \E line \in Texts : toServer' = [toServer EXCEPT ![c] = line]
      <4>1. Body(w) \in Texts
        BY WritesLines, BodyTypes
      <4>2. toServer[c] \o Body(w) \in Texts
        BY <1>3, <4>1, ConcatProperties DEF Texts
      <4>3. toServer' = [toServer EXCEPT ![c] = toServer[c] \o Body(w)]
        BY <3>2 DEF StartLine
      <4> QED BY <4>2, <4>3
    <3> QED BY <1>8, <3>1, <3>2
  <2>2. /\ waiting' = waiting /\ conn' = conn /\ toClient' = toClient /\ due' = due
        /\ told' = told /\ seen' = seen
    BY <1>8 DEF EndLine, StartLine, historyVars
  <2>3. toServer' \in [Client -> Texts]
    BY <2>1, Zenon DEF TypeInv, Types
  <2>4. Types'
    BY <1>1, <1>2, <2>2, <2>3 DEF TypeInv, Types
  <2>5. Loop'
    BY <1>2, <2>2 DEF TypeInv, Loop
  <2>6. Buffers'
    BY <1>2, <2>2 DEF TypeInv, Buffers
  <2> QED BY <2>4, <2>5, <2>6 DEF TypeInv
<1> QED BY <1>5, <1>6, <1>7, <1>8

\* Initially nothing is open and nothing is queued.
LEMMA InitTypes == ASSUME Init PROVE TypeInv
<1>1. /\ pc = "poll" /\ events = [c \in Client |-> {}] /\ listen = FALSE /\ reading = {}
      /\ status = 0 /\ published = -1 /\ open = {} /\ subscribed = {} /\ waiting = {}
      /\ inBuf = Empty /\ outBuf = Empty /\ toServer = Empty /\ toClient = Empty /\ due = Empty
      /\ conn = [c \in Client |-> "none"] /\ told = [c \in Client |-> Untold]
      /\ seen = [c \in Client |-> -1]
  BY DEF Init
<1>2. Empty \in [Client -> Texts] /\ \A c \in Client : Empty[c] = <<>>
  BY BufferTypes, Zenon DEF Empty
<1>3. -1 \in -1 .. MaxVersion /\ 0 \in 0 .. MaxVersion /\ SockRoom >= 0 /\ MaxLine >= 0
  BY IpcAssumption
<1>4. Types
  <2>1. /\ conn \in [Client -> Kinds] /\ told \in [Client -> Symbols \cup {Untold}]
        /\ events \in [Client -> SUBSET {"in", "out", "hup"}]
        /\ seen \in [Client -> -1 .. MaxVersion]
    BY <1>1, <1>3, Zenon DEF Kinds
  <2>2. published \in -1 .. status /\ status \in 0 .. MaxVersion
    BY <1>1, <1>3
  <2> QED BY <1>1, <1>2, <2>1, <2>2, Zenon DEF Types
<1>5. Loop
  BY <1>1 DEF Loop
<1>6. Buffers
  BY <1>1, <1>2, <1>3 DEF Buffers
<1> QED BY <1>4, <1>5, <1>6 DEF TypeInv

\* The types, the sessions that match connections and the sizes of the buffers
\* are an inductive invariant.
LEMMA TypesInvariant == Spec => []TypeInv
<1>1. TypeInv /\ [Next]_vars => TypeInv'
  <2> SUFFICES ASSUME TypeInv, [Next]_vars PROVE TypeInv'
    OBVIOUS
  <2>1. CASE UNCHANGED vars
    <3>1. Types'
      BY <2>1 DEF vars, loopVars, sessionVars, linkVars, historyVars, TypeInv, Types
    <3>2. Loop'
      BY <2>1 DEF vars, loopVars, sessionVars, linkVars, historyVars, TypeInv, Loop
    <3>3. Buffers'
      BY <2>1 DEF vars, loopVars, sessionVars, linkVars, historyVars, TypeInv, Buffers
    <3> QED BY <3>1, <3>2, <3>3 DEF TypeInv
  <2>2. CASE Daemon
    <3>1. ASSUME NEW c \in Client, Handle(c) PROVE TypeInv'
      BY <3>1, HangUpTypes, ServeTypes, RecvTypes, RequestTypes DEF Handle
    <3> QED BY <2>2, <3>1, PollReturnsTypes, AcceptTypes, PublishTypes, StartsTypes DEF Daemon
  <2>3. CASE Ends
    BY <2>3, EndsTypes
  <2>4. ASSUME NEW c \in Client,
               \/ Connect(c) \/ EndLine(c) \/ Hear(c) \/ Leave(c)
               \/ \E w \in Writes[c] : StartLine(c, w)
        PROVE  TypeInv'
    BY <2>4, ClientTypes
  <2> QED BY <2>1, <2>2, <2>3, <2>4, Zenon DEF Next
<1> QED BY <1>1, InitTypes, PTL DEF Spec

\* Descriptors, sessions and connections match in every order of accepting,
\* reading, closing and restarting, the kernel is given no more than it has
\* room for and an unfinished line stays within its limit.
THEOREM ServerTypes == Spec => []TypeOK
<1>1. ASSUME NEW s \in Texts PROVE Symbolic(s)
  BY ElementOfSeq DEF Symbolic, Texts
<1>2. TypeInv => TypeOK
  <2> SUFFICES ASSUME TypeInv PROVE TypeOK
    OBVIOUS
  <2>1. /\ pc \in {"poll", "ipc", "read", "down"} /\ (pc = "read" <=> reading # {})
        /\ \A c \in Client : events[c] \subseteq {"in", "out", "hup"}
        /\ status \in 0 .. MaxVersion /\ published \in -1 .. status
        /\ subscribed \subseteq open /\ reading \subseteq open
        /\ waiting \cap open = {}
        /\ (pc = "down" => open = {}) /\ listen \in BOOLEAN
    BY DEF TypeInv, Types, Loop
  <2>2. \A c \in Client :
          /\ (c \in open \cup waiting) <=> (conn[c] \in {"up", "clientClosed"})
          /\ conn[c] \in {"none", "up", "clientClosed", "serverClosed"}
    BY DEF TypeInv, Types, Loop, Kinds
  <2>3. \A c \in Client :
          Symbolic(toServer[c]) /\ Symbolic(inBuf[c]) /\ Symbolic(outBuf[c]) /\ Symbolic(toClient[c])
    BY <1>1 DEF TypeInv, Types
  <2> QED BY <2>1, <2>2, <2>3 DEF TypeOK, TypeInv, Buffers
<1> QED BY <1>2, TypesInvariant, PTL

-----------------------------------------------------------------------------
(* What one step does to one client: what its buffers can go through. *)

\* What is read from c is too long, and has no line in it.
Refused(c) ==
  ~HasLine(inBuf[c]) /\ Len(inBuf[c] \o Take(toServer[c], Lesser(ReadSize, Len(toServer[c])))) > MaxLine

\* A line that may be queued for c: the end of a push finds it not full.
GivenLine(c, line) ==
  \/ line = <<>>
  \/ line = Line("ok", 0)
  \/ line = Line("err", 0) /\ Refused(c) /\ owed' = owed /\ conn'[c] = "serverClosed"
  \/ line = Line("state", status')
  \/ line = Line("push", status') /\ ~Full(c)

\* Nothing happens to c; it is queued a line and sent what there is room for,
\* and may be closed thereupon; it is closed; it connects; it leaves; it hears.
Unmoved(c) == /\ toClient'[c] = toClient[c] /\ outBuf'[c] = outBuf[c] /\ due'[c] = due[c]
              /\ conn'[c] = conn[c] /\ seen'[c] = seen[c]
Queued(c) ==
  \E line \in Texts : \E s \in Texts, t \in Texts :
    /\ GivenLine(c, line) /\ s \o t = outBuf[c] \o line
    /\ toClient'[c] = toClient[c] \o s /\ due'[c] = due[c] \o line /\ seen'[c] = seen[c]
    /\ conn[c] = "up"
    /\ \/ outBuf'[c] = t /\ conn'[c] = "up"
       \/ outBuf'[c] = <<>> /\ conn'[c] = "serverClosed"
Closed(c) == /\ toClient'[c] = toClient[c] /\ due'[c] = due[c] /\ seen'[c] = seen[c]
             /\ outBuf'[c] = <<>>
             /\ \/ conn[c] = "up" /\ conn'[c] = "serverClosed"
                \/ conn[c] = "clientClosed" /\ conn'[c] = "none"
Begins(c) == /\ toClient'[c] = <<>> /\ due'[c] = <<>> /\ seen'[c] = -1
             /\ outBuf[c] = <<>> /\ outBuf'[c] = <<>> /\ conn'[c] = "up"
Parts(c) == /\ toClient'[c] = <<>> /\ due'[c] = <<>> /\ seen'[c] = -1
            /\ outBuf'[c] = outBuf[c] /\ conn'[c] = "clientClosed"
Hears(c) ==
  /\ toClient'[c] = <<>> /\ due'[c] = Drop(due[c], Len(toClient[c]))
  /\ outBuf'[c] = outBuf[c] /\ conn'[c] = conn[c] /\ conn[c] \in {"up", "serverClosed"}
  /\ \/ /\ seen'[c] = seen[c]
        /\ \A i \in 1 .. Len(toClient[c]) : toClient[c][i].k \notin {"state", "push"}
     \/ \E i \in 1 .. Len(toClient[c]) :
          /\ toClient[c][i].k \in {"state", "push"} /\ seen'[c] = toClient[c][i].v
          /\ \A j \in 1 .. Len(toClient[c]) : toClient[c][j].k \in {"state", "push"} => j <= i

ClientStep(c) == Unmoved(c) \/ Queued(c) \/ Closed(c) \/ Begins(c) \/ Parts(c) \/ Hears(c)

\* Settling is a step of that kind to each client, if it is right of the clients
\* an action settles and closes.
LEMMA SettledStep ==
  ASSUME TypeInv, NEW D \in SUBSET open, NEW Gone \in SUBSET (open \cup waiting),
         NEW lines \in [Client -> Texts], Settle(D, lines, Gone), seen' = seen,
         NEW c \in Client, c \in D => ~Fails(c) /\ GivenLine(c, lines[c])
  PROVE  ClientStep(c)
<1>1. Settled(D, Gone, lines, c)
  <2>1. Types /\ Buffers /\ D \in SUBSET Client /\ Gone \in SUBSET Client
    BY DEF TypeInv, Types
  <2> QED BY <2>1, SettleOne
<1>2. c \in D \/ c \in Gone => conn[c] \in {"up", "clientClosed"}
  BY DEF TypeInv, Loop
<1>3. conn'[c] = IF c \notin Gone THEN conn[c]
                ELSE IF conn[c] = "clientClosed" THEN "none" ELSE "serverClosed"
  BY <1>1, Zenon DEF Settled, Fails
<1>4. seen'[c] = seen[c]
  OBVIOUS
<1>5. CASE c \in D
  <2>1. conn[c] = "up" /\ GivenLine(c, lines[c]) /\ lines[c] \in Texts
    BY <1>2, <1>5 DEF Fails
  <2>2. PICK s \in Texts, t \in Texts :
          /\ s \o t = outBuf[c] \o lines[c]
          /\ toClient'[c] = toClient[c] \o s
          /\ outBuf'[c] = IF c \in Gone THEN <<>> ELSE t
    BY <1>1, <1>5, Zenon DEF Settled
  <2>3. due'[c] = due[c] \o lines[c]
    BY <1>1, <1>5, Zenon DEF Settled
  <2>4. \/ outBuf'[c] = t /\ conn'[c] = "up"
        \/ outBuf'[c] = <<>> /\ conn'[c] = "serverClosed"
    BY <1>3, <2>1, <2>2
  <2>5. Queued(c)
    BY <1>4, <2>1, <2>2, <2>3, <2>4, Zenon DEF Queued
  <2> QED BY <2>5 DEF ClientStep
<1>6. CASE c \notin D /\ c \in Gone
  <2>1. /\ toClient'[c] = toClient[c] /\ due'[c] = due[c] /\ outBuf'[c] = <<>>
    BY <1>1, <1>6, Zenon DEF Settled
  <2>2. Closed(c)
    BY <1>2, <1>3, <1>4, <1>6, <2>1 DEF Closed
  <2> QED BY <2>2 DEF ClientStep
<1>7. CASE c \notin D /\ c \notin Gone
  <2>1. /\ toClient'[c] = toClient[c] /\ due'[c] = due[c] /\ outBuf'[c] = outBuf[c]
    BY <1>1, <1>7, Zenon DEF Settled
  <2>2. Unmoved(c)
    BY <1>3, <1>4, <1>7, <2>1 DEF Unmoved
  <2> QED BY <2>2 DEF ClientStep
<1> QED BY <1>5, <1>6, <1>7

\* A step that leaves the buffers and connections alone.
LEMMA UnmovedStep ==
  ASSUME outBuf' = outBuf, toClient' = toClient, due' = due, conn' = conn, seen' = seen, NEW c
  PROVE  ClientStep(c)
BY DEF ClientStep, Unmoved

\* recv(), flush() and hang-up, as one client sees them.
LEMMA HandlerStep ==
  ASSUME TypeInv, NEW d \in Client, HangUp(d) \/ Serve(d) \/ Recv(d), NEW c \in Client
  PROVE  ClientStep(c)
<1>1. Empty \in [Client -> Texts] /\ Empty[c] = <<>>
  BY BufferTypes, Zenon DEF Empty
<1>2. GivenLine(c, Empty[c])
  BY <1>1 DEF GivenLine
<1>3. CASE HangUp(d)
  <2>1. Settle({}, Empty, {d}) /\ d \in open /\ seen' = seen
    BY <1>3, ServingTypes DEF HangUp, Closing
  <2>2. {d} \in SUBSET (open \cup waiting) /\ {} \in SUBSET open
    BY <2>1
  <2> QED BY <1>1, <2>1, <2>2, SettledStep
<1>4. CASE Serve(d)
  <2> DEFINE D == IF "out" \in events[d] THEN {d} ELSE {}
  <2>1. /\ Settle(D, Empty, {}) /\ d \in open /\ seen' = seen
        /\ ~("out" \in events[d] /\ Fails(d))
    BY <1>4, ServingTypes DEF Serve
  <2>2. D \in SUBSET open /\ (c \in D => ~Fails(c))
    BY <2>1
  <2> HIDE DEF D
  <2> QED BY <1>1, <1>2, <2>1, <2>2, SettledStep
<1>5. CASE Recv(d)
  <2> DEFINE n == Lesser(ReadSize, Len(toServer[d]))
             buf == inBuf[d] \o Take(toServer[d], n)
  <2>1. d \in open /\ seen' = seen
    BY <1>5 DEF Recv, TypeInv, Loop
  <2>2. CASE UNCHANGED <<sessionVars, conn, toServer, toClient, due, told>>
    BY <2>1, <2>2, UnmovedStep DEF sessionVars
  <2>3. CASE UNCHANGED <<open, subscribed, outBuf, conn, toClient, due, told>>
    BY <2>1, <2>3, UnmovedStep
  <2>4. CASE Closing(d)
    <3>1. Settle({}, Empty, {d})
      BY <2>4 DEF Closing
    <3>2. {d} \in SUBSET (open \cup waiting) /\ {} \in SUBSET open
      BY <2>1
    <3> QED BY <1>1, <2>1, <3>1, <3>2, SettledStep
  <2>5. CASE Refused(d) /\ Settle(IF Fails(d) THEN {} ELSE {d}, [e \in Client |-> Line("err", 0)], {d})
    <3> DEFINE D == IF Fails(d) THEN {} ELSE {d}
               errs == [e \in Client |-> Line("err", 0)]
    <3>1. Settle(D, errs, {d}) /\ D \in SUBSET open /\ (c \in D => ~Fails(c))
      BY <2>1, <2>5
    <3>2. 0 \in 0 .. MaxVersion
      BY IpcAssumption
    <3>3. Line("err", 0) \in Texts
      BY <3>2, LineTypes
    <3>4. errs \in [Client -> Texts]
      BY <3>3, BufferTypes
    <3>5. c \in D => GivenLine(c, errs[c])
      <4>1. SUFFICES ASSUME c \in D PROVE GivenLine(c, errs[c])
        OBVIOUS
      <4>2. c = d /\ ~Fails(c) /\ errs[c] = Line("err", 0)
        BY <4>1
      <4>3. conn'[c] = IF c \notin {d} THEN conn[c] ELSE IF Fails(c) THEN "none" ELSE "serverClosed"
        BY <2>5, Zenon DEF Settle
      <4>4. conn'[c] = "serverClosed"
        BY <4>2, <4>3
      <4>5. owed' = owed
        BY <1>5 DEF Recv
      <4> QED BY <2>5, <4>2, <4>4, <4>5, Zenon DEF GivenLine
    <3> HIDE DEF D, errs
    <3> QED BY <2>1, <3>1, <3>4, <3>5, SettledStep
  <2> QED BY <1>5, <2>2, <2>3, <2>4, <2>5, Zenon DEF Recv, Refused, TooLong
<1> QED BY <1>3, <1>4, <1>5

\* A handled line, as one client sees it.
LEMMA RequestStep ==
  ASSUME TypeInv, NEW d \in Client,
         Subscribe(d) \/ Unsubscribe(d) \/ Status(d) \/ Command(d), NEW c \in Client
  PROVE  ClientStep(c)
<1>1. ASSUME NEW line \in Texts, GivenLine(c, line), reading = {d}, NEW S, Answer(d, line, S)
      PROVE  ClientStep(c)
  <2> DEFINE D == IF Fails(d) THEN {} ELSE {d}
             Gone == IF Fails(d) THEN {d} ELSE {}
             lines == [e \in Client |-> line]
  <2>1. Settle(D, lines, Gone) /\ lines \in [Client -> Texts] /\ seen' = seen /\ lines[c] = line
    BY <1>1, BufferTypes DEF Answer
  <2>2. D \in SUBSET open /\ Gone \in SUBSET (open \cup waiting) /\ (c \in D => ~Fails(c))
    BY <1>1 DEF TypeInv, Loop
  <2> HIDE DEF D, Gone, lines
  <2> QED BY <1>1, <2>1, <2>2, SettledStep
<1>2. Line("ok", 0) \in Texts /\ StatusLine \in Texts
  BY AnswerLines
<1>3. GivenLine(c, Line("ok", 0)) /\ (status' = status => GivenLine(c, StatusLine))
  BY DEF GivenLine, StatusLine
<1> QED BY <1>1, <1>2, <1>3 DEF Subscribe, Unsubscribe, Status, Command, Request

\* A push, as one client sees it.
LEMMA PublishStep == ASSUME TypeInv, Publish, NEW c \in Client PROVE ClientStep(c)
<1>1. seen' = seen /\ status' \in 0 .. MaxVersion
  BY DEF Publish, StatusMoves, TypeInv, Types
<1>2. CASE UNCHANGED <<published, sessionVars, conn, toServer, toClient, due, told>>
  BY <1>1, <1>2, UnmovedStep DEF sessionVars
<1>3. CASE Settle(Listeners, [d \in Client |-> Line("push", status')], Stalled)
  <2> DEFINE pushes == [d \in Client |-> Line("push", status')]
  <2>1. Line("push", status') \in Texts
    BY <1>1, LineTypes
  <2>2. Settle(Listeners, pushes, Stalled) /\ pushes \in [Client -> Texts]
        /\ pushes[c] = Line("push", status')
    BY <1>3, <2>1, BufferTypes
  <2>3. Listeners \in SUBSET open /\ Stalled \in SUBSET (open \cup waiting)
    BY DEF Listeners, Stalled, TypeInv, Loop
  <2>4. c \in Listeners => ~Fails(c) /\ GivenLine(c, pushes[c])
    BY <2>2 DEF Listeners, GivenLine
  <2> HIDE DEF pushes
  <2> QED BY <1>1, <2>2, <2>3, <2>4, SettledStep
<1> QED BY <1>2, <1>3, Zenon DEF Publish

\* The daemon's end, as one client sees it.
LEMMA EndsStep == ASSUME TypeInv, Ends, NEW c \in Client PROVE ClientStep(c)
<1> DEFINE lost == IF Activated THEN open ELSE open \cup waiting
<1>1. Settle({}, Empty, lost) /\ seen' = seen
  BY DEF Ends
<1>2. Empty \in [Client -> Texts]
  BY BufferTypes
<1>3. lost \in SUBSET (open \cup waiting) /\ {} \in SUBSET open
  OBVIOUS
<1> HIDE DEF lost
<1> QED BY <1>1, <1>2, <1>3, SettledStep

\* What a client does itself, as it and the other clients see it.
LEMMA VisitStep ==
  ASSUME TypeInv, NEW d \in Client,
         \/ Connect(d) \/ EndLine(d) \/ Hear(d) \/ Leave(d)
         \/ \E w \in Writes[d] : StartLine(d, w),
         NEW c \in Client
  PROVE  ClientStep(c)
<1>1. outBuf' = outBuf
  BY DEF Connect, EndLine, Hear, Leave, StartLine, sessionVars
<1>2. CASE EndLine(d) \/ \E w \in Writes[d] : StartLine(d, w)
  BY <1>1, <1>2, UnmovedStep DEF EndLine, StartLine, historyVars
<1>3. ASSUME Connect(d) \/ Leave(d) \/ Hear(d), c # d
      PROVE  Unmoved(c)
  <2>1. /\ toClient' = Clear(toClient, {d})
        /\ due' = Clear(due, {d}) \/ due' = [due EXCEPT ![d] = Drop(@, Len(toClient[d]))]
        /\ \/ conn' = conn \/ \E k \in Kinds : conn' = [conn EXCEPT ![d] = k]
        /\ \/ seen' = seen \/ \E v : seen' = [seen EXCEPT ![d] = v]
    BY <1>3 DEF Connect, Leave, Hear, Forgets, Kinds
  <2>2. toClient'[c] = toClient[c] /\ due'[c] = due[c]
    BY <1>3, <2>1, Zenon DEF Clear, TypeInv, Types
  <2>3. conn'[c] = conn[c] /\ seen'[c] = seen[c]
    BY <1>3, <2>1, Zenon DEF TypeInv, Types
  <2> QED BY <1>1, <2>2, <2>3 DEF Unmoved
<1>4. toClient' = Clear(toClient, {d}) => toClient'[d] = <<>>
  BY Zenon DEF Clear
<1>5. due' = Clear(due, {d}) => due'[d] = <<>>
  BY Zenon DEF Clear
<1>6. CASE Connect(d) /\ c = d
  <2>1. outBuf[d] = <<>>
    BY <1>6 DEF Connect, TypeInv, Loop, Buffers
  <2>2. conn'[d] = "up" /\ seen'[d] = -1
    BY <1>6, Zenon DEF Connect, Forgets, TypeInv, Types
  <2>3. toClient'[d] = <<>> /\ due'[d] = <<>>
    BY <1>4, <1>5, <1>6 DEF Connect, Forgets
  <2> QED BY <1>1, <1>6, <2>1, <2>2, <2>3 DEF ClientStep, Begins
<1>7. CASE Leave(d) /\ c = d
  <2>1. conn'[d] = "clientClosed" /\ seen'[d] = -1
    BY <1>7, Zenon DEF Leave, Forgets, TypeInv, Types
  <2>2. toClient'[d] = <<>> /\ due'[d] = <<>>
    BY <1>4, <1>5, <1>7 DEF Leave, Forgets
  <2> QED BY <1>1, <1>7, <2>1, <2>2 DEF ClientStep, Parts
<1>8. CASE Hear(d) /\ c = d
  <2> DEFINE S == {i \in 1 .. Len(toClient[d]) : StatusSymbol(<<toClient[d][i]>>)}
  <2>1. /\ conn[d] \in {"up", "serverClosed"} /\ conn' = conn
        /\ toClient' = Clear(toClient, {d})
        /\ due' = [due EXCEPT ![d] = Drop(@, Len(toClient[d]))]
        /\ \/ S = {} /\ seen' = seen
           \/ \E i \in S : (\A j \in S : j <= i) /\ seen' = [seen EXCEPT ![d] = toClient[d][i].v]
    BY <1>8 DEF Hear
  <2>2. S = {i \in 1 .. Len(toClient[d]) : toClient[d][i].k \in {"state", "push"}}
    BY DEF StatusSymbol
  <2>3. due'[d] = Drop(due[d], Len(toClient[d])) /\ conn'[d] = conn[d] /\ toClient'[d] = <<>>
    BY <1>4, <2>1, Zenon DEF TypeInv, Types
  <2> HIDE DEF S
  <2>4. \/ S = {} /\ seen'[d] = seen[d]
        \/ \E i \in S : (\A j \in S : j <= i) /\ seen'[d] = toClient[d][i].v
    BY <2>1, Zenon DEF TypeInv, Types
  <2>5. \/ /\ seen'[d] = seen[d]
           /\ \A i \in 1 .. Len(toClient[d]) : toClient[d][i].k \notin {"state", "push"}
        \/ \E i \in 1 .. Len(toClient[d]) :
             /\ toClient[d][i].k \in {"state", "push"} /\ seen'[d] = toClient[d][i].v
             /\ \A j \in 1 .. Len(toClient[d]) : toClient[d][j].k \in {"state", "push"} => j <= i
    BY <2>2, <2>4, Zenon
  <2>6. Hears(c)
    BY <1>1, <1>8, <2>1, <2>3, <2>5, Zenon DEF Hears
  <2> QED BY <2>6 DEF ClientStep
<1>9. CASE c # d
  BY <1>2, <1>3, <1>9 DEF ClientStep
<1> QED BY <1>2, <1>6, <1>7, <1>8, <1>9

\* Every step is one of these to each client, and the status moves by one
\* version at most.
LEMMA StepOfClient ==
  ASSUME TypeInv, [Next]_vars, NEW c \in Client
  PROVE  ClientStep(c)
<1>1. CASE UNCHANGED vars
  BY <1>1, UnmovedStep DEF vars, sessionVars, linkVars, historyVars
<1>2. CASE PollReturns \/ AcceptClients \/ Starts
  BY <1>2, UnmovedStep DEF PollReturns, AcceptClients, Starts, sessionVars, linkVars, historyVars
<1>3. ASSUME NEW d \in Client, Handle(d) PROVE ClientStep(c)
  BY <1>3, HandlerStep, RequestStep DEF Handle
<1>4. CASE Publish
  BY <1>4, PublishStep
<1>5. CASE Ends
  BY <1>5, EndsStep
<1>6. ASSUME NEW d \in Client,
             \/ Connect(d) \/ EndLine(d) \/ Hear(d) \/ Leave(d)
             \/ \E w \in Writes[d] : StartLine(d, w)
      PROVE  ClientStep(c)
  BY <1>6, VisitStep
<1> QED BY <1>1, <1>2, <1>3, <1>4, <1>5, <1>6, Zenon DEF Next, Daemon

\* What a step does to the status: it stays, or gets the next version.
LEMMA StepOfStatus == ASSUME TypeInv, [Next]_vars PROVE StatusMoves
BY DEF Next, Daemon, Handle, PollReturns, AcceptClients, Publish, Starts, Ends, HangUp, Serve,
       Serving, Recv, Subscribe, Unsubscribe, Status, Command, Connect, EndLine, Hear, Leave,
       StartLine, StatusMoves, vars

-----------------------------------------------------------------------------
(* Lines are whole. *)

WholeOf(c) ==
  /\ conn[c] = "up" => due[c] = toClient[c] \o outBuf[c]
  /\ conn[c] = "serverClosed" => Take(due[c], Len(toClient[c])) = toClient[c]

\* Every step leaves each client's stream whole.
LEMMA WholeStep ==
  ASSUME TypeInv, NEW c \in Client, ClientStep(c), WholeOf(c)
  PROVE  WholeOf(c)'
<1>1. toClient[c] \in Texts /\ outBuf[c] \in Texts /\ due[c] \in Texts
  BY DEF TypeInv, Types
<1>2. Take(toClient[c] \o outBuf[c], Len(toClient[c])) = toClient[c]
  BY <1>1, TakeDropOfConcat DEF Texts
<1>3. CASE Unmoved(c)
  BY <1>3, Zenon DEF Unmoved, WholeOf
<1>4. CASE Queued(c)
  <2>1. PICK line \in Texts, s \in Texts, t \in Texts :
          /\ s \o t = outBuf[c] \o line
          /\ toClient'[c] = toClient[c] \o s /\ due'[c] = due[c] \o line
          /\ conn[c] = "up"
          /\ \/ outBuf'[c] = t /\ conn'[c] = "up"
             \/ outBuf'[c] = <<>> /\ conn'[c] = "serverClosed"
    BY <1>4, Zenon DEF Queued
  <2>2. due'[c] = (toClient[c] \o outBuf[c]) \o line
    BY <2>1 DEF WholeOf
  <2>3. (toClient[c] \o outBuf[c]) \o line = toClient[c] \o (outBuf[c] \o line)
    BY <1>1, <2>1, Associative
  <2>4. toClient[c] \o (s \o t) = (toClient[c] \o s) \o t
    BY <1>1, <2>1, Associative
  <2>5. due'[c] = toClient'[c] \o t
    BY <2>1, <2>2, <2>3, <2>4, Zenon
  <2>6. toClient[c] \o s \in Texts
    BY <1>1, <2>1, ConcatProperties DEF Texts
  <2>7. Take((toClient[c] \o s) \o t, Len(toClient[c] \o s)) = toClient[c] \o s
    BY <2>1, <2>6, TakeDropOfConcat DEF Texts
  <2>8. Take(due'[c], Len(toClient'[c])) = toClient'[c]
    BY <2>1, <2>5, <2>7, Zenon
  <2> QED BY <2>1, <2>5, <2>8 DEF WholeOf
<1>5. CASE Closed(c)
  BY <1>2, <1>5 DEF Closed, WholeOf
<1>6. CASE Begins(c)
  BY <1>6 DEF Begins, WholeOf
<1>7. CASE Parts(c)
  BY <1>7 DEF Parts, WholeOf
<1>8. CASE Hears(c)
  <2>1. /\ toClient'[c] = <<>> /\ due'[c] = Drop(due[c], Len(toClient[c]))
        /\ outBuf'[c] = outBuf[c] /\ conn'[c] = conn[c] /\ conn[c] \in {"up", "serverClosed"}
    BY <1>8 DEF Hears
  <2>2. CASE conn[c] = "up"
    <3>1. due[c] = toClient[c] \o outBuf[c]
      BY <2>2 DEF WholeOf
    <3>2. Drop(toClient[c] \o outBuf[c], Len(toClient[c])) = outBuf[c]
      BY <1>1, TakeDropOfConcat DEF Texts
    <3>3. <<>> \o outBuf[c] = outBuf[c]
      BY <1>1, ConcatEmptySeq DEF Texts
    <3> QED BY <2>1, <2>2, <3>1, <3>2, <3>3, Zenon DEF WholeOf
  <2>3. CASE conn[c] = "serverClosed"
    <3> DEFINE rest == Drop(due[c], Len(toClient[c]))
    <3>1. rest \in Texts
      BY <1>1, TakeDrop, LenProperties DEF Texts
    <3> HIDE DEF rest
    <3>2. Len(<<>>) = 0 /\ Take(rest, 0) = <<>>
      BY <3>1, LenProperties, SubSeqEmpty DEF Take, Lesser, Texts
    <3> QED BY <2>1, <2>3, <3>2 DEF WholeOf, rest
  <2> QED BY <2>1, <2>2, <2>3
<1> QED BY <1>3, <1>4, <1>5, <1>6, <1>7, <1>8 DEF ClientStep

\* Whatever the sizes of lines, buffers and sockets, and wherever a line is cut
\* by what a socket has room for: of what a client is given, what it has not
\* read is what the kernel holds followed by what is left to send, and after
\* the daemon closed it, what the kernel holds is the beginning of it.
THEOREM ServerKeepsLinesWhole == Spec => []LinesWhole
<1>1. Init => \A c \in Client : WholeOf(c)
  BY DEF Init, WholeOf
<1>2. TypeInv /\ (\A c \in Client : WholeOf(c)) /\ [Next]_vars => (\A c \in Client : WholeOf(c))'
  <2> SUFFICES ASSUME TypeInv, \A c \in Client : WholeOf(c), [Next]_vars, NEW c \in Client
               PROVE  WholeOf(c)'
    OBVIOUS
  <2>1. ClientStep(c)
    BY StepOfClient
  <2> QED BY <2>1, WholeStep
<1>3. (\A c \in Client : WholeOf(c)) => LinesWhole
  BY DEF WholeOf, LinesWhole
<1> QED BY <1>1, <1>2, <1>3, TypesInvariant, PTL DEF Spec

-----------------------------------------------------------------------------
(* Pushes do not pile up. *)

\* A buffer has no long tail of pushes only: what QueuesBounded lacks to be
\* inductive, as what is sent first may be the answer that excuses the rest.
TailsBounded(s) ==
  \A i \in 1 .. Len(s) :
    (\A j \in i .. Len(s) : s[j].k \notin {"state", "ok", "err"}) => Len(s) - i + 1 <= MaxOut

\* So it is for what is kept after something was sent,
LEMMA TailsOfRest ==
  ASSUME NEW s \in Texts, NEW t \in Texts, TailsBounded(s \o t)
  PROVE  TailsBounded(t)
<1> SUFFICES ASSUME NEW i \in 1 .. Len(t),
                    \A j \in i .. Len(t) : t[j].k \notin {"state", "ok", "err"}
             PROVE  Len(t) - i + 1 <= MaxOut
  BY DEF TailsBounded
<1>1. /\ Len(s) \in Nat /\ Len(t) \in Nat /\ Len(s \o t) = Len(s) + Len(t)
      /\ \A k \in 1 .. Len(s) + Len(t) : (s \o t)[k] = IF k <= Len(s) THEN s[k] ELSE t[k - Len(s)]
  BY ConcatProperties, LenProperties DEF Texts
<1> DEFINE st == s \o t
<1>2. \A j \in Len(s) + i .. Len(s) + Len(t) : st[j] = t[j - Len(s)] /\ j - Len(s) \in i .. Len(t)
  BY <1>1
<1>3. Len(st) = Len(s) + Len(t) /\ TailsBounded(st)
  BY <1>1
<1> HIDE DEF st
<1>4. \A j \in Len(s) + i .. Len(st) : st[j].k \notin {"state", "ok", "err"}
  BY <1>2, <1>3, Zenon
<1>5. Len(s) + i \in 1 .. Len(st)
  BY <1>1, <1>3
<1>6. Len(st) - (Len(s) + i) + 1 <= MaxOut
  BY <1>3, <1>4, <1>5, Zenon DEF TailsBounded
<1> QED BY <1>1, <1>3, <1>6, IpcAssumption

\* ... and for what a line is added to, if it is an answer or finds room.
LEMMA TailsOfMore ==
  ASSUME NEW s \in Texts, NEW k \in {"state", "push", "ok", "err"}, NEW v \in 0 .. MaxVersion,
         TailsBounded(s), k = "push" => Len(s) + 2 <= MaxOut
  PROVE  TailsBounded(s \o Line(k, v))
<1> DEFINE t == Line(k, v)
           st == s \o t
<1>1. t \in Texts /\ Len(t) = 2 /\ t[1] = [k |-> k, v |-> v]
  BY LineTypes
<1> HIDE DEF t
<1>2. /\ Len(s) \in Nat /\ Len(st) = Len(s) + 2
      /\ \A i \in 1 .. Len(s) + 2 : st[i] = IF i <= Len(s) THEN s[i] ELSE t[i - Len(s)]
  <2>1. /\ Len(s) \in Nat /\ Len(st) = Len(s) + Len(t)
        /\ \A i \in 1 .. Len(s) + Len(t) : st[i] = IF i <= Len(s) THEN s[i] ELSE t[i - Len(s)]
    BY <1>1, ConcatProperties, LenProperties DEF Texts
  <2> QED BY <1>1, <2>1
<1>3. st[Len(s) + 1].k = k
  BY <1>1, <1>2
<1> HIDE DEF st
<1>4. ASSUME NEW i \in 1 .. Len(st), \A j \in i .. Len(st) : st[j].k \notin {"state", "ok", "err"}
      PROVE  Len(st) - i + 1 <= MaxOut
  <2>1. CASE i = Len(s) + 2
    BY <1>2, <2>1, IpcAssumption
  <2>2. CASE i <= Len(s) + 1
    <3>1. k = "push"
      BY <1>2, <1>3, <1>4, <2>2
    <3> QED BY <1>2, <3>1, IpcAssumption
  <2> QED BY <1>2, <2>1, <2>2
<1> QED BY <1>4 DEF TailsBounded, t, st

\* Every step leaves the unsent rest of each client within its bound.
LEMMA TailsStep ==
  ASSUME TypeInv, status' \in 0 .. MaxVersion, NEW c \in Client, ClientStep(c),
         TailsBounded(outBuf[c])
  PROVE  TailsBounded(outBuf'[c])
<1>1. outBuf[c] \in Texts
  BY DEF TypeInv, Types
<1>2. TailsBounded(<<>>)
  BY DEF TailsBounded
<1>3. CASE Queued(c)
  <2>1. PICK line \in Texts, s \in Texts, t \in Texts :
          /\ GivenLine(c, line) /\ s \o t = outBuf[c] \o line
          /\ outBuf'[c] \in {t, <<>>}
    BY <1>3, Zenon DEF Queued
  <2>2. TailsBounded(outBuf[c] \o line)
    <3>1. CASE line = <<>>
      BY <1>1, <3>1, ConcatEmptySeq DEF Texts
    <3>2. CASE \E k \in {"ok", "err"} : line = Line(k, 0)
      <4>1. PICK k \in {"ok", "err"} : line = Line(k, 0)
        BY <3>2
      <4>2. 0 \in 0 .. MaxVersion /\ k # "push" /\ k \in {"state", "push", "ok", "err"}
        BY <4>1, IpcAssumption
      <4> QED BY <1>1, <4>1, <4>2, TailsOfMore
    <3>3. CASE line = Line("state", status')
      BY <1>1, <3>3, TailsOfMore
    <3>4. CASE line = Line("push", status') /\ ~Full(c)
      <4>1. Len(outBuf[c]) + 2 <= MaxOut
        BY <1>1, <3>4, LenProperties, IpcAssumption DEF Full, Texts
      <4> QED BY <1>1, <3>4, <4>1, TailsOfMore
    <3> QED BY <2>1, <3>1, <3>2, <3>3, <3>4, Zenon DEF GivenLine
  <2>3. TailsBounded(t)
    <3>1. TailsBounded(s \o t)
      BY <2>1, <2>2, Zenon
    <3> QED BY <2>1, <3>1, TailsOfRest
  <2> QED BY <1>2, <2>1, <2>3
<1> QED BY <1>2, <1>3, Zenon DEF ClientStep, Unmoved, Closed, Begins, Parts, Hears

\* Whatever the limit (it is not zero) and however long a subscriber does not
\* read, a buffer that has grown past maxOutBuffer_ has an answer in it: pushes
\* alone do not get that far, because a subscriber that has no room for one
\* is closed instead.
THEOREM ServerBoundsQueues == Spec => []QueuesBounded
<1> DEFINE I == \A c \in Client : TailsBounded(outBuf[c])
<1>1. Init => I
  <2> SUFFICES ASSUME Init, NEW c \in Client PROVE TailsBounded(outBuf[c])
    OBVIOUS
  <2>1. outBuf[c] = <<>>
    BY Zenon DEF Init, Empty
  <2> QED BY <2>1 DEF TailsBounded
<1>2. TypeInv /\ TypeInv' /\ I /\ [Next]_vars => I'
  <2> SUFFICES ASSUME TypeInv, TypeInv', I, [Next]_vars, NEW c \in Client
               PROVE  TailsBounded(outBuf'[c])
    BY DEF TailsBounded
  <2>1. ClientStep(c)
    BY StepOfClient
  <2>2. status' \in 0 .. MaxVersion
    BY DEF TypeInv, Types
  <2> QED BY <2>1, <2>2, TailsStep
<1>3. TypeInv /\ I => QueuesBounded
  <2> SUFFICES ASSUME TypeInv, I, NEW c \in Client, Len(outBuf[c]) > MaxOut,
                      \A i \in 1 .. Len(outBuf[c]) : outBuf[c][i].k \notin {"state", "ok", "err"}
               PROVE  FALSE
    BY DEF QueuesBounded
  <2>1. Len(outBuf[c]) \in Nat
    BY LenProperties DEF TypeInv, Types, Texts
  <2>2. 1 \in 1 .. Len(outBuf[c])
    BY <2>1, IpcAssumption
  <2>3. Len(outBuf[c]) - 1 + 1 <= MaxOut
    BY <2>2, Zenon DEF TailsBounded
  <2> QED BY <2>1, <2>3, IpcAssumption
<1> QED BY <1>1, <1>2, <1>3, TypesInvariant, PTL DEF Spec

-----------------------------------------------------------------------------
(* Subscribers know the status. *)

\* What a subscriber was told last: the last push, or an answer that is no older.
ToldOf(c) ==
  c \in subscribed /\ conn[c] = "up" =>
    /\ told[c].k \in {"push", "state"} /\ told[c].v \in 0 .. status
    /\ told[c].k = "push" => told[c].v = published
    /\ told[c].k = "state" => told[c].v >= published

\* A client that is told nothing knows no less, while nothing is pushed.
LEMMA ToldKept ==
  ASSUME TypeInv, StatusMoves, NEW c \in Client, ToldOf(c), told'[c] = told[c],
         published' = published,
         c \in subscribed' /\ conn'[c] = "up" => c \in subscribed /\ conn[c] = "up"
  PROVE  ToldOf(c)'
<1>1. status \in Nat /\ (status' = status \/ status' = status + 1)
  BY IpcAssumption DEF TypeInv, Types, StatusMoves
<1>2. \A v \in 0 .. status : v \in 0 .. status'
  BY <1>1
<1> QED BY <1>2, Zenon DEF ToldOf

\* One that is told the status by an answer knows it.
LEMMA ToldAnew ==
  ASSUME NEW c \in Client, status' \in 0 .. MaxVersion, published' \in -1 .. status',
         told'[c] = [k |-> "state", v |-> status']
  PROVE  ToldOf(c)'
<1>1. told'[c].k = "state" /\ told'[c].v = status'
  OBVIOUS
<1>2. status' \in 0 .. status' /\ status' >= published'
  BY IpcAssumption
<1> QED BY <1>1, <1>2 DEF ToldOf

\* A client knows no less after Settle, and one that has just subscribed was
\* sent the status.
LEMMA ToldSettled ==
  ASSUME TypeInv, TypeInv', StatusMoves, NEW D \in SUBSET open, NEW Gone \in SUBSET (open \cup waiting),
         NEW lines \in [Client -> Texts], Settle(D, lines, Gone), published' = published,
         NEW c \in Client, ToldOf(c),
         c \in D => \/ lines[c] = <<>>
                   \/ \E k \in {"ok", "err"} : lines[c] = Line(k, 0)
                   \/ lines[c] = Line("state", status'),
         c \in subscribed' /\ c \notin subscribed =>
           (c \in D /\ lines[c] = Line("state", status')) \/ conn'[c] # "up"
  PROVE  ToldOf(c)'
<1>1. Settled(D, Gone, lines, c)
  <2>1. Types /\ Buffers /\ D \in SUBSET Client /\ Gone \in SUBSET Client
    BY DEF TypeInv, Types
  <2> QED BY <2>1, SettleOne
<1>2. conn'[c] = "up" => conn[c] = "up"
  BY <1>1, Zenon DEF Settled
<1>3. CASE c \in D /\ lines[c] = Line("state", status')
  <2>1. StatusSymbol(lines[c]) /\ lines[c][1] = [k |-> "state", v |-> status']
    BY <1>3 DEF StatusSymbol, Line
  <2>2. told'[c] = [k |-> "state", v |-> status']
    BY <1>1, <1>3, <2>1, Zenon DEF Settled
  <2>3. status' \in 0 .. MaxVersion /\ published' \in -1 .. status'
    BY DEF TypeInv, Types
  <2> QED BY <2>2, <2>3, ToldAnew
<1>4. CASE ~(c \in D /\ lines[c] = Line("state", status'))
  <2>1. c \in D => ~StatusSymbol(lines[c])
    BY <1>4 DEF StatusSymbol, Line
  <2>2. told'[c] = told[c]
    BY <1>1, <2>1, Zenon DEF Settled
  <2> QED BY <1>2, <1>4, <2>2, ToldKept
<1> QED BY <1>3, <1>4

\* recv(), flush() and hang-up tell nobody anything.
LEMMA ToldHandler ==
  ASSUME TypeInv, TypeInv', StatusMoves, NEW d \in Client, HangUp(d) \/ Serve(d) \/ Recv(d),
         NEW c \in Client, ToldOf(c)
  PROVE  ToldOf(c)'
<1>1. Empty \in [Client -> Texts] /\ Empty[c] = <<>>
  BY BufferTypes, Zenon DEF Empty
<1>2. CASE HangUp(d)
  <2>1. Settle({}, Empty, {d}) /\ d \in open /\ published' = published /\ subscribed' \subseteq subscribed
    BY <1>2, ServingTypes DEF HangUp, Closing, Serving
  <2>2. {d} \in SUBSET (open \cup waiting) /\ {} \in SUBSET open
    BY <2>1
  <2> QED BY <1>1, <2>1, <2>2, ToldSettled
<1>3. CASE Serve(d)
  <2> DEFINE D == IF "out" \in events[d] THEN {d} ELSE {}
  <2>1. /\ Settle(D, Empty, {}) /\ d \in open /\ published' = published
        /\ subscribed' = subscribed
    BY <1>3, ServingTypes DEF Serve, Serving
  <2>2. D \in SUBSET open /\ {} \in SUBSET (open \cup waiting)
    BY <2>1
  <2> HIDE DEF D
  <2> QED BY <1>1, <2>1, <2>2, ToldSettled
<1>4. CASE Recv(d)
  <2> DEFINE n == Lesser(ReadSize, Len(toServer[d]))
             buf == inBuf[d] \o Take(toServer[d], n)
  <2>1. d \in open /\ published' = published
    BY <1>4 DEF Recv, TypeInv, Loop
  <2>2. CASE UNCHANGED <<sessionVars, conn, toServer, toClient, due, told>>
    BY <2>1, <2>2, ToldKept DEF sessionVars
  <2>3. CASE UNCHANGED <<open, subscribed, outBuf, conn, toClient, due, told>>
    BY <2>1, <2>3, ToldKept
  <2>4. CASE Closing(d)
    <3>1. Settle({}, Empty, {d}) /\ subscribed' \subseteq subscribed
      BY <2>4 DEF Closing
    <3>2. {d} \in SUBSET (open \cup waiting) /\ {} \in SUBSET open
      BY <2>1
    <3> QED BY <1>1, <2>1, <3>1, <3>2, ToldSettled
  <2>5. CASE /\ Settle(IF Fails(d) THEN {} ELSE {d}, [e \in Client |-> Line("err", 0)], {d})
             /\ subscribed' = subscribed \ {d}
    <3> DEFINE D == IF Fails(d) THEN {} ELSE {d}
               errs == [e \in Client |-> Line("err", 0)]
    <3>1. Settle(D, errs, {d}) /\ D \in SUBSET open /\ {d} \in SUBSET (open \cup waiting)
          /\ subscribed' \subseteq subscribed
      BY <2>1, <2>5
    <3>2. 0 \in 0 .. MaxVersion
      BY IpcAssumption
    <3>3. Line("err", 0) \in Texts
      BY <3>2, LineTypes
    <3>4. errs \in [Client -> Texts]
      BY <3>3, BufferTypes
    <3>5. \E k \in {"ok", "err"} : errs[c] = Line(k, 0)
      OBVIOUS
    <3> HIDE DEF D, errs
    <3> QED BY <2>1, <3>1, <3>4, <3>5, ToldSettled
  <2> QED BY <1>4, <2>2, <2>3, <2>4, <2>5, Zenon DEF Recv
<1> QED BY <1>2, <1>3, <1>4

\* A handled line tells only the client it came from.
LEMMA ToldRequest ==
  ASSUME TypeInv, TypeInv', StatusMoves, NEW d \in Client,
         Subscribe(d) \/ Unsubscribe(d) \/ Status(d) \/ Command(d),
         NEW c \in Client, ToldOf(c)
  PROVE  ToldOf(c)'
<1>1. ASSUME NEW line \in Texts, reading = {d}, NEW S, Answer(d, line, S),
             line = Line("ok", 0) \/ line = Line("state", status'),
             S \subseteq subscribed \/ (S = subscribed \cup {d} /\ line = Line("state", status'))
      PROVE  ToldOf(c)'
  <2> DEFINE D == IF Fails(d) THEN {} ELSE {d}
             Gone == IF Fails(d) THEN {d} ELSE {}
             lines == [e \in Client |-> line]
  <2>1. /\ Settle(D, lines, Gone) /\ lines \in [Client -> Texts] /\ lines[c] = line
        /\ published' = published
    BY <1>1, BufferTypes DEF Answer
  <2>2. D \in SUBSET open /\ Gone \in SUBSET (open \cup waiting)
    BY <1>1 DEF TypeInv, Loop
  <2>3. c \in subscribed' /\ c \notin subscribed => c \in D /\ line = Line("state", status')
    BY <1>1 DEF Answer
  <2> HIDE DEF D, Gone, lines
  <2> QED BY <1>1, <2>1, <2>2, <2>3, ToldSettled
<1>2. Line("ok", 0) \in Texts /\ StatusLine \in Texts
  BY AnswerLines
<1>3. status' = status => StatusLine = Line("state", status')
  BY DEF StatusLine
<1>4. CASE Subscribe(d)
  <2>1. reading = {d} /\ Answer(d, StatusLine, subscribed \cup {d}) /\ status' = status
    BY <1>4 DEF Subscribe, Request
  <2> QED BY <1>1, <1>2, <1>3, <2>1
<1>5. CASE Unsubscribe(d)
  <2>1. reading = {d} /\ Answer(d, Line("ok", 0), subscribed \ {d}) /\ subscribed \ {d} \subseteq subscribed
    BY <1>5 DEF Unsubscribe, Request
  <2> QED BY <1>1, <1>2, <2>1
<1>6. CASE Status(d)
  <2>1. reading = {d} /\ Answer(d, StatusLine, subscribed) /\ status' = status
    BY <1>6 DEF Status, Request
  <2> QED BY <1>1, <1>2, <1>3, <2>1
<1>7. CASE Command(d)
  <2>1. reading = {d} /\ Answer(d, Line("ok", 0), subscribed)
    BY <1>7 DEF Command, Request
  <2> QED BY <1>1, <1>2, <2>1
<1> QED BY <1>4, <1>5, <1>6, <1>7

\* A push reaches everyone it does not close.
LEMMA ToldPushed ==
  ASSUME TypeInv, TypeInv', published' = status', subscribed' = subscribed \ Stalled,
         Settle(Listeners, [d \in Client |-> Line("push", status')], Stalled),
         NEW c \in Client, c \in subscribed'
  PROVE  ToldOf(c)' /\ told'[c] = [k |-> "push", v |-> status']
<1> DEFINE pushes == [d \in Client |-> Line("push", status')]
<1>1. status' \in 0 .. MaxVersion
  BY DEF TypeInv, Types
<1>2. Line("push", status') \in Texts
  BY <1>1, LineTypes
<1>3. Settle(Listeners, pushes, Stalled) /\ pushes \in [Client -> Texts]
      /\ pushes[c] = Line("push", status')
  BY <1>2, BufferTypes
<1> HIDE DEF pushes
<1>4. Listeners \in SUBSET Client /\ Stalled \in SUBSET Client
  BY DEF Listeners, Stalled, TypeInv, Types
<1>5. Settled(Listeners, Stalled, pushes, c)
  <2>1. Types /\ Buffers
    BY DEF TypeInv
  <2> QED BY <1>3, <1>4, <2>1, SettleOne
<1>6. c \in Listeners
  BY DEF Listeners, Stalled
<1>7. StatusSymbol(pushes[c]) /\ pushes[c][1] = [k |-> "push", v |-> status']
  BY <1>3 DEF StatusSymbol, Line
<1>8. told'[c] = [k |-> "push", v |-> status']
  BY <1>5, <1>6, <1>7, Zenon DEF Settled
<1>9. told'[c].k = "push" /\ told'[c].v = status' /\ status' \in 0 .. status'
  BY <1>1, <1>8, IpcAssumption
<1> QED BY <1>8, <1>9 DEF ToldOf

\* Every step leaves each subscriber told, as far as it still is one.
LEMMA ToldStep ==
  ASSUME TypeInv, TypeInv', [Next]_vars, NEW c \in Client, ToldOf(c)
  PROVE  ToldOf(c)'
<1>1. StatusMoves
  BY StepOfStatus
<1>2. CASE UNCHANGED vars
  <2>1. /\ told' = told /\ published' = published /\ subscribed' = subscribed /\ conn' = conn
    BY <1>2 DEF vars, sessionVars, linkVars, historyVars
  <2> QED BY <1>1, <2>1, ToldKept
<1>3. CASE PollReturns \/ AcceptClients
  <2>1. /\ told' = told /\ published' = published /\ subscribed' = subscribed /\ conn' = conn
    BY <1>3 DEF PollReturns, AcceptClients, sessionVars, linkVars, historyVars
  <2> QED BY <1>1, <2>1, ToldKept
<1>4. CASE Starts
  <2>1. subscribed' = {}
    BY <1>4 DEF Starts, sessionVars, TypeInv, Loop
  <2> QED BY <2>1 DEF ToldOf
<1>5. CASE Ends
  <2>1. subscribed' = {}
    BY <1>5 DEF Ends
  <2> QED BY <2>1 DEF ToldOf
<1>6. ASSUME NEW d \in Client, Handle(d) PROVE ToldOf(c)'
  BY <1>1, <1>6, ToldHandler, ToldRequest DEF Handle
<1>7. CASE Publish
  <2>1. CASE UNCHANGED <<published, sessionVars, conn, toServer, toClient, due, told>>
    BY <1>1, <2>1, ToldKept DEF sessionVars
  <2>2. CASE /\ published' = status'
             /\ Settle(Listeners, [d \in Client |-> Line("push", status')], Stalled)
             /\ subscribed' = subscribed \ Stalled
    <3>1. CASE c \in subscribed'
      BY <2>2, <3>1, ToldPushed
    <3>2. CASE c \notin subscribed'
      BY <3>2 DEF ToldOf
    <3> QED BY <3>1, <3>2
  <2> QED BY <1>7, <2>1, <2>2, Zenon DEF Publish
<1>8. ASSUME NEW d \in Client,
             \/ Connect(d) \/ EndLine(d) \/ Hear(d) \/ Leave(d)
             \/ \E w \in Writes[d] : StartLine(d, w)
      PROVE  ToldOf(c)'
  <2>1. subscribed' = subscribed /\ published' = published
    BY <1>8 DEF Connect, EndLine, Hear, Leave, StartLine, sessionVars
  <2>2. CASE told' = told /\ conn' = conn
    BY <1>1, <2>1, <2>2, ToldKept
  <2>3. CASE Connect(d)
    <3>1. d \notin subscribed
      BY <2>3 DEF Connect, TypeInv, Loop
    <3>2. CASE c = d
      BY <2>1, <3>1, <3>2 DEF ToldOf
    <3>3. CASE c # d
      <4>1. told'[c] = told[c] /\ conn'[c] = conn[c]
        BY <2>3, <3>3, Zenon DEF Connect, Forgets, TypeInv, Types
      <4> QED BY <1>1, <2>1, <4>1, ToldKept
    <3> QED BY <3>2, <3>3
  <2>4. CASE Leave(d)
    <3>1. CASE c = d
      <4>1. conn'[c] = "clientClosed"
        BY <2>4, <3>1, Zenon DEF Leave, TypeInv, Types
      <4> QED BY <4>1 DEF ToldOf
    <3>2. CASE c # d
      <4>1. told'[c] = told[c] /\ conn'[c] = conn[c]
        BY <2>4, <3>2, Zenon DEF Leave, Forgets, TypeInv, Types
      <4> QED BY <1>1, <2>1, <4>1, ToldKept
    <3> QED BY <3>1, <3>2
  <2>5. CASE EndLine(d) \/ Hear(d) \/ \E w \in Writes[d] : StartLine(d, w)
    BY <2>2, <2>5 DEF EndLine, Hear, StartLine, historyVars
  <2> QED BY <1>8, <2>3, <2>4, <2>5
<1> QED BY <1>2, <1>3, <1>4, <1>5, <1>6, <1>7, <1>8, Zenon DEF Next, Daemon

\* At the end of a turn the push, or its omission, leaves every subscriber with
\* the status as it reads.
LEMMA PublishTells ==
  ASSUME TypeInv, TypeInv', Publish, \A c \in Client : ToldOf(c)', NEW c \in Client,
         c \in subscribed', conn'[c] = "up"
  PROVE  /\ told'[c] # Untold
         /\ \/ StatusOf[told'[c].v] = StatusOf[status']
            \/ /\ told'[c].k = "state"
               /\ published' \in 0 .. told'[c].v - 1 /\ StatusOf[published'] = StatusOf[status']
<1>1. /\ told'[c].k \in {"push", "state"} /\ told'[c].v \in 0 .. status'
      /\ told'[c].k = "push" => told'[c].v = published'
      /\ told'[c].k = "state" => told'[c].v >= published'
  BY DEF ToldOf
<1>2. told'[c] # Untold
  <2>1. Untold.k = "none"
    BY DEF Untold
  <2> QED BY <1>1, <2>1
<1>3. CASE subscribed # {} /\ (published = -1 \/ StatusOf[status'] # StatusOf[published])
  <2>1. /\ published' = status' /\ subscribed' = subscribed \ Stalled
        /\ Settle(Listeners, [d \in Client |-> Line("push", status')], Stalled)
    BY <1>3, Zenon DEF Publish
  <2>2. told'[c] = [k |-> "push", v |-> status']
    BY <2>1, ToldPushed
  <2>3. told'[c].v = status'
    BY <2>2
  <2> QED BY <1>2, <2>3
<1>4. CASE ~(subscribed # {} /\ (published = -1 \/ StatusOf[status'] # StatusOf[published]))
  <2>1. UNCHANGED <<published, sessionVars>>
    BY <1>4, Zenon DEF Publish
  <2>2. published' = published /\ subscribed' = subscribed
    BY <2>1 DEF sessionVars
  <2>3. published' # -1 /\ StatusOf[published'] = StatusOf[status']
    BY <1>4, <2>2
  <2>4. published' \in -1 .. status' /\ status' \in 0 .. MaxVersion
    BY DEF TypeInv, Types
  <2>5. told'[c].v = published' \/ (told'[c].k = "state" /\ published' \in 0 .. told'[c].v - 1)
    BY <1>1, <2>3, <2>4, IpcAssumption
  <2> QED BY <1>2, <2>3, <2>5
<1> QED BY <1>3, <1>4

\* However versions of the status read alike, however pushes, answers and
\* changes of the status follow one another: between two turns of the loop
\* each subscriber has been told the status as it reads, with the one exception
\* UpToDate names.
THEOREM SubscribersUpToDate == Spec => []UpToDate
<1> DEFINE I == (\A c \in Client : ToldOf(c)) /\ UpToDate
<1>1. Init => I
  BY DEF Init, ToldOf, UpToDate
<1>2. TypeInv /\ TypeInv' /\ I /\ [Next]_vars => I'
  <2> SUFFICES ASSUME TypeInv, TypeInv', \A c \in Client : ToldOf(c), UpToDate, [Next]_vars
               PROVE  I'
    OBVIOUS
  <2>1. \A c \in Client : ToldOf(c)'
    BY ToldStep
  <2>2. UpToDate'
    <3> SUFFICES ASSUME pc' = "poll", NEW c \in Client, c \in subscribed', conn'[c] = "up"
                 PROVE  /\ told'[c] # Untold
                        /\ \/ StatusOf[told'[c].v] = StatusOf[status']
                           \/ /\ told'[c].k = "state"
                              /\ published' \in 0 .. told'[c].v - 1
                              /\ StatusOf[published'] = StatusOf[status']
      BY DEF UpToDate, TypeInv, Types
    <3>1. CASE Publish
      BY <2>1, <3>1, PublishTells
    <3>2. CASE Starts
      BY <3>2 DEF Starts, sessionVars, TypeInv, Loop
    <3>3. CASE /\ pc' = pc /\ status' = status /\ published' = published
               /\ c \in subscribed /\ conn[c] = "up" /\ told'[c] = told[c]
      BY <3>3, Zenon DEF UpToDate
    <3>4. CASE UNCHANGED vars
      BY <3>3, <3>4 DEF vars, loopVars, sessionVars, linkVars, historyVars
    <3>5. ASSUME NEW d \in Client,
                 \/ Connect(d) \/ EndLine(d) \/ Hear(d) \/ Leave(d)
                 \/ \E w \in Writes[d] : StartLine(d, w)
          PROVE  pc' = pc /\ status' = status /\ published' = published
                 /\ c \in subscribed /\ conn[c] = "up" /\ told'[c] = told[c]
      <4>1. /\ pc' = pc /\ status' = status /\ published' = published /\ subscribed' = subscribed
        BY <3>5 DEF Connect, EndLine, Hear, Leave, StartLine, loopVars, sessionVars
      <4>2. CASE told' = told /\ conn' = conn
        BY <4>1, <4>2
      <4>3. CASE Connect(d)
        <5>1. d \notin subscribed
          BY <4>3 DEF Connect, TypeInv, Loop
        <5>2. c # d
          BY <4>1, <5>1
        <5>3. told'[c] = told[c] /\ conn'[c] = conn[c]
          BY <4>3, <5>2, Zenon DEF Connect, Forgets, TypeInv, Types
        <5> QED BY <4>1, <5>3
      <4>4. CASE Leave(d)
        <5>1. conn'[d] = "clientClosed"
          BY <4>4, Zenon DEF Leave, TypeInv, Types
        <5>2. c # d
          BY <5>1
        <5>3. told'[c] = told[c] /\ conn'[c] = conn[c]
          BY <4>4, <5>2, Zenon DEF Leave, Forgets, TypeInv, Types
        <5> QED BY <4>1, <5>3
      <4>5. CASE EndLine(d) \/ Hear(d) \/ \E w \in Writes[d] : StartLine(d, w)
        BY <4>2, <4>5 DEF EndLine, Hear, StartLine, historyVars
      <4> QED BY <3>5, <4>3, <4>4, <4>5
    <3>6. ASSUME \/ PollReturns \/ AcceptClients \/ Ends \/ \E d \in Client : Handle(d)
          PROVE  FALSE
      BY <3>6 DEF PollReturns, AcceptClients, Ends, Handle, HangUp, Serve, Serving, Recv, Answer,
                  Subscribe, Unsubscribe, Status, Command, Request
    <3> QED BY <3>1, <3>2, <3>3, <3>4, <3>5, <3>6, Zenon DEF Next, Daemon
  <2> QED BY <2>1, <2>2
<1>3. I => UpToDate
  OBVIOUS
<1> QED BY <1>1, <1>2, <1>3, TypesInvariant, PTL DEF Spec

-----------------------------------------------------------------------------
(* No reader is shown an older status after a newer one. *)

News(x) == x.k \in {"state", "push"}

\* The versions in a buffer do not fall, and are between two bounds.
Rising(s, low, high) ==
  \A i \in 1 .. Len(s) : News(s[i]) =>
    /\ low <= s[i].v /\ s[i].v <= high
    /\ \A j \in 1 .. i : News(s[j]) => s[j].v <= s[i].v

\* What is on its way to a reader starts at what it has seen and ends at what
\* the status is.
RisingTo(c) == /\ seen[c] <= status
               /\ Rising(toClient[c] \o outBuf[c], seen[c], status)

\* Buffers and what clients have heard, by their types.
LEMMA SymbolTypes ==
  ASSUME NEW s \in Texts
  PROVE  Len(s) \in Nat /\ \A i \in 1 .. Len(s) : s[i] \in Symbols /\ s[i].v \in Nat
<1>1. Len(s) \in Nat /\ \A i \in 1 .. Len(s) : s[i] \in Symbols
  BY LenProperties, ElementOfSeq DEF Texts
<1>2. \A x \in Symbols : x.v \in Nat
  BY IpcAssumption DEF Symbols
<1> QED BY <1>1, <1>2, Zenon

\* An element of a concatenation is one of either part.
LEMMA ConcatOf ==
  ASSUME NEW s \in Texts, NEW t \in Texts
  PROVE  /\ s \o t \in Texts /\ Len(s \o t) = Len(s) + Len(t)
         /\ \A i \in 1 .. Len(s) : (s \o t)[i] = s[i]
         /\ \A i \in 1 .. Len(t) : (s \o t)[Len(s) + i] = t[i]
<1>1. /\ s \o t \in Texts /\ Len(s \o t) = Len(s) + Len(t)
      /\ \A i \in 1 .. Len(s) + Len(t) : (s \o t)[i] = IF i <= Len(s) THEN s[i] ELSE t[i - Len(s)]
  BY ConcatProperties DEF Texts
<1>2. Len(s) \in Nat /\ Len(t) \in Nat
  BY SymbolTypes
<1> DEFINE st == s \o t
<1> HIDE DEF st
<1>3. /\ \A i \in 1 .. Len(s) : st[i] = s[i]
      /\ \A i \in 1 .. Len(t) : st[Len(s) + i] = t[i]
  BY <1>1, <1>2 DEF st
<1> QED BY <1>1, <1>3 DEF st

\* Parts of a rising buffer rise, the rest of it above what is read of it last.
LEMMA RisingParts ==
  ASSUME NEW s \in Texts, NEW t \in Texts, NEW low \in Int, NEW high \in Int,
         Rising(s \o t, low, high)
  PROVE  /\ Rising(s, low, high) /\ Rising(t, low, high)
         /\ \A i \in 1 .. Len(s) : News(s[i]) => Rising(t, s[i].v, high)
<1> DEFINE st == s \o t
<1>1. /\ Len(st) = Len(s) + Len(t) /\ Len(s) \in Nat /\ Len(t) \in Nat
      /\ \A i \in 1 .. Len(s) : st[i] = s[i]
      /\ \A i \in 1 .. Len(t) : st[Len(s) + i] = t[i]
  BY ConcatOf, SymbolTypes
<1>2. \A i \in 1 .. Len(st) : News(st[i]) =>
        /\ low <= st[i].v /\ st[i].v <= high
        /\ \A j \in 1 .. i : News(st[j]) => st[j].v <= st[i].v
  BY DEF Rising
<1> HIDE DEF st
<1>3. Rising(s, low, high)
  <2> SUFFICES ASSUME NEW i \in 1 .. Len(s), News(s[i])
               PROVE  /\ low <= s[i].v /\ s[i].v <= high
                      /\ \A j \in 1 .. i : News(s[j]) => s[j].v <= s[i].v
    BY DEF Rising
  <2>1. i \in 1 .. Len(st) /\ st[i] = s[i] /\ \A j \in 1 .. i : st[j] = s[j]
    BY <1>1
  <2> QED BY <1>2, <2>1, Zenon
<1>4. Rising(t, low, high)
  <2> SUFFICES ASSUME NEW i \in 1 .. Len(t), News(t[i])
               PROVE  /\ low <= t[i].v /\ t[i].v <= high
                      /\ \A j \in 1 .. i : News(t[j]) => t[j].v <= t[i].v
    BY DEF Rising
  <2>1. /\ Len(s) + i \in 1 .. Len(st) /\ st[Len(s) + i] = t[i]
        /\ \A j \in 1 .. i : Len(s) + j \in 1 .. Len(s) + i /\ st[Len(s) + j] = t[j]
    BY <1>1
  <2> QED BY <1>2, <2>1, Zenon
<1>5. ASSUME NEW i \in 1 .. Len(s), News(s[i])
      PROVE  Rising(t, s[i].v, high)
  <2>1. /\ st[i] = s[i]
        /\ \A j \in 1 .. Len(t) : i \in 1 .. Len(s) + j /\ Len(s) + j \in 1 .. Len(st)
                                  /\ st[Len(s) + j] = t[j]
    BY <1>1
  <2>2. \A j \in 1 .. Len(t) : News(t[j]) => s[i].v <= t[j].v
    BY <1>2, <1>5, <2>1, Zenon
  <2> QED BY <1>4, <2>2, Zenon DEF Rising
<1> QED BY <1>3, <1>4, <1>5

\* A buffer that rises to an older status rises to a newer one, and still does
\* when the newer one is added.
LEMMA RisingMore ==
  ASSUME NEW s \in Texts, NEW low \in Int, NEW old \in 0 .. MaxVersion,
         NEW new \in 0 .. MaxVersion, old <= new, low <= old, Rising(s, low, old)
  PROVE  /\ Rising(s, low, new)
         /\ \A k \in {"state", "push"} : Rising(s \o Line(k, new), low, new)
         /\ \A k \in {"ok", "err"} : Rising(s \o Line(k, 0), low, new)
<1>1. old \in Nat /\ new \in Nat /\ 0 \in 0 .. MaxVersion
  BY IpcAssumption
<1>2. Len(s) \in Nat /\ \A i \in 1 .. Len(s) : s[i].v \in Nat
  BY SymbolTypes
<1>3. Rising(s, low, new)
  BY <1>1, <1>2 DEF Rising
<1>4. ASSUME NEW k \in {"state", "push", "ok", "err"}, NEW v \in 0 .. MaxVersion,
             k \in {"state", "push"} => v = new
      PROVE  Rising(s \o Line(k, v), low, new)
  <2> DEFINE t == Line(k, v)
             st == s \o t
  <2>1. t \in Texts /\ Len(t) = 2 /\ t[1] = [k |-> k, v |-> v] /\ t[2] = NewLine
    BY LineTypes
  <2> HIDE DEF t
  <2>2. /\ Len(st) = Len(s) + 2 /\ \A i \in 1 .. Len(s) : st[i] = s[i]
        /\ st[Len(s) + 1] = t[1] /\ st[Len(s) + 2] = t[2]
    <3>1. /\ Len(st) = Len(s) + Len(t) /\ \A i \in 1 .. Len(s) : st[i] = s[i]
          /\ \A i \in 1 .. Len(t) : st[Len(s) + i] = t[i]
      BY <2>1, ConcatOf
    <3> HIDE DEF st
    <3> QED BY <1>2, <2>1, <3>1
  <2> HIDE DEF st
  <2>3. ~News(st[Len(s) + 2])
    BY <2>1, <2>2 DEF News, NewLine, Symbol
  <2>4. News(st[Len(s) + 1]) => st[Len(s) + 1].v = new
    BY <1>4, <2>1, <2>2 DEF News
  <2>5. ASSUME NEW i \in 1 .. Len(st), News(st[i])
        PROVE  /\ low <= st[i].v /\ st[i].v <= new
               /\ \A j \in 1 .. i : News(st[j]) => st[j].v <= st[i].v
    <3>1. i \in 1 .. Len(s) \/ i = Len(s) + 1
      BY <1>2, <2>2, <2>3, <2>5
    <3>2. CASE i \in 1 .. Len(s)
      <4>1. st[i] = s[i] /\ \A j \in 1 .. i : st[j] = s[j]
        BY <1>2, <2>2, <3>2
      <4> QED BY <1>3, <2>5, <3>2, <4>1, Zenon DEF Rising
    <3>3. CASE i = Len(s) + 1
      <4>1. st[i].v = new
        BY <2>4, <2>5, <3>3
      <4>2. ASSUME NEW j \in 1 .. i, News(st[j])
            PROVE  st[j].v <= new
        <5>1. CASE j = i
          BY <1>1, <4>1, <5>1
        <5>2. CASE j \in 1 .. Len(s)
          BY <1>3, <2>2, <4>2, <5>2, Zenon DEF Rising
        <5> QED BY <1>2, <3>3, <5>1, <5>2
      <4>3. low <= new
        BY <1>1
      <4> QED BY <1>1, <4>1, <4>2, <4>3
    <3> QED BY <3>1, <3>2, <3>3
  <2> QED BY <2>5 DEF Rising, st, t
<1> QED BY <1>1, <1>3, <1>4

\* Every step leaves the versions on their way to each client rising.
LEMMA RisingStep ==
  ASSUME TypeInv, TypeInv', StatusMoves, NEW c \in Client, ClientStep(c), RisingTo(c)
  PROVE  RisingTo(c)'
<1> DEFINE tc == toClient[c]
           ob == outBuf[c]
<1>1. tc \in Texts /\ ob \in Texts /\ tc \o ob \in Texts /\ <<>> \in Texts
  BY ConcatOf, EmptySeq DEF TypeInv, Types, Texts
<1>2. /\ seen[c] \in Int /\ status \in 0 .. MaxVersion /\ status' \in 0 .. MaxVersion
      /\ status <= status' /\ seen[c] >= -1
  BY IpcAssumption DEF TypeInv, Types, StatusMoves
<1>3. seen[c] <= status /\ Rising(tc \o ob, seen[c], status)
  BY DEF RisingTo
<1> HIDE DEF tc, ob
<1>4. seen[c] <= status' /\ status \in Nat /\ status' \in Nat
  BY <1>2, <1>3, IpcAssumption
<1>5. Rising(tc \o ob, seen[c], status')
  BY <1>1, <1>2, <1>3, RisingMore
<1>6. Rising(tc, seen[c], status') /\ Rising(ob, seen[c], status')
  BY <1>1, <1>2, <1>4, <1>5, RisingParts
<1>7. tc \o <<>> = tc /\ <<>> \o ob = ob /\ <<>> \o <<>> = <<>>
  BY <1>1, ConcatEmptySeq DEF Texts
<1>8. toClient[c] = tc /\ outBuf[c] = ob
  BY DEF tc, ob
<1>9. CASE Unmoved(c)
  BY <1>4, <1>5, <1>8, <1>9, Zenon DEF Unmoved, RisingTo
<1>10. CASE Queued(c)
  <2>1. PICK line \in Texts, s \in Texts, t \in Texts :
          /\ GivenLine(c, line) /\ s \o t = ob \o line
          /\ toClient'[c] = tc \o s /\ seen'[c] = seen[c]
          /\ outBuf'[c] \in {t, <<>>}
    BY <1>8, <1>10, Zenon DEF Queued
  <2>2. Rising((tc \o ob) \o line, seen[c], status')
    <3>1. CASE line = <<>>
      BY <1>1, <1>5, <3>1, ConcatEmptySeq DEF Texts
    <3>2. CASE line # <<>>
      <4>1. /\ \A k \in {"state", "push"} : Rising((tc \o ob) \o Line(k, status'), seen[c], status')
            /\ \A k \in {"ok", "err"} : Rising((tc \o ob) \o Line(k, 0), seen[c], status')
        BY <1>1, <1>2, <1>3, RisingMore
      <4> QED BY <2>1, <3>2, <4>1, Zenon DEF GivenLine
    <3> QED BY <3>1, <3>2
  <2>3. (tc \o ob) \o line = tc \o (ob \o line) /\ (tc \o s) \o t = tc \o (s \o t)
    <3>1. (tc \o ob) \o line = tc \o (ob \o line)
      BY <1>1, <2>1, Associative
    <3>2. (tc \o s) \o t = tc \o (s \o t)
      BY <1>1, <2>1, Associative
    <3> QED BY <3>1, <3>2
  <2>4. Rising((tc \o s) \o t, seen[c], status')
    BY <2>1, <2>2, <2>3, Zenon
  <2>5. tc \o s \in Texts
    BY <1>1, <2>1, ConcatOf
  <2>6. Rising(tc \o s, seen[c], status')
    BY <1>2, <1>4, <2>1, <2>4, <2>5, RisingParts
  <2>7. (tc \o s) \o <<>> = tc \o s
    BY <2>5, ConcatEmptySeq DEF Texts
  <2>8. Rising(toClient'[c] \o outBuf'[c], seen[c], status')
    BY <2>1, <2>4, <2>6, <2>7, Zenon
  <2> QED BY <1>4, <2>1, <2>8, Zenon DEF RisingTo
<1>11. CASE Closed(c)
  BY <1>4, <1>6, <1>7, <1>8, <1>11, Zenon DEF Closed, RisingTo
<1>12. CASE Begins(c)
  <2>1. Rising(<<>>, -1, status') /\ -1 <= status'
    BY <1>4 DEF Rising
  <2> QED BY <1>7, <1>12, <2>1, Zenon DEF Begins, RisingTo
<1>13. CASE Parts(c)
  <2>1. Rising(ob, -1, status') /\ -1 <= status'
    <3>1. \A i \in 1 .. Len(ob) : -1 <= ob[i].v
      BY <1>1, SymbolTypes
    <3> QED BY <1>4, <1>6, <3>1 DEF Rising
  <2> QED BY <1>7, <1>8, <1>13, <2>1, Zenon DEF Parts, RisingTo
<1>14. CASE Hears(c)
  <2>1. toClient'[c] = <<>> /\ outBuf'[c] = ob
    BY <1>8, <1>14, Zenon DEF Hears
  <2>2. CASE seen'[c] = seen[c]
    BY <1>4, <1>6, <1>7, <2>1, <2>2, Zenon DEF RisingTo
  <2>3. ASSUME NEW i \in 1 .. Len(tc), News(tc[i]), seen'[c] = tc[i].v
        PROVE  RisingTo(c)'
    <3>1. Rising(ob, tc[i].v, status')
      BY <1>1, <1>2, <1>4, <1>5, <2>3, RisingParts
    <3>2. tc[i].v <= status'
      BY <1>6, <2>3, Zenon DEF Rising
    <3> QED BY <1>7, <2>1, <2>3, <3>1, <3>2, Zenon DEF RisingTo
  <2> QED BY <1>8, <1>14, <2>2, <2>3, Zenon DEF Hears, News
<1> QED BY <1>9, <1>10, <1>11, <1>12, <1>13, <1>14 DEF ClientStep

\* So they rise in every state.
LEMMA RisingInvariant == Spec => [](\A c \in Client : RisingTo(c))
<1> DEFINE I == \A c \in Client : RisingTo(c)
<1>1. Init => I
  <2> SUFFICES ASSUME Init, NEW c \in Client PROVE RisingTo(c)
    OBVIOUS
  <2>1. toClient[c] = <<>> /\ outBuf[c] = <<>> /\ seen[c] = -1 /\ status = 0
    BY Zenon DEF Init, Empty
  <2> QED BY <2>1 DEF RisingTo, Rising
<1>2. TypeInv /\ TypeInv' /\ I /\ [Next]_vars => I'
  <2> SUFFICES ASSUME TypeInv, TypeInv', I, [Next]_vars, NEW c \in Client
               PROVE  RisingTo(c)'
    OBVIOUS
  <2>1. ClientStep(c) /\ StatusMoves
    BY StepOfClient, StepOfStatus
  <2> QED BY <2>1, RisingStep
<1> QED BY <1>1, <1>2, TypesInvariant, PTL DEF Spec

\* What a client sees changes when it connects, leaves or hears, and then the
\* status does not.
LEMMA StepOfSeen ==
  ASSUME TypeInv, [Next]_vars
  PROVE  \/ seen' = seen /\ StatusMoves
         \/ \E c \in Client : seen' = [seen EXCEPT ![c] = -1] /\ status' = status
         \/ \E c \in Client : Hear(c) /\ status' = status
<1>1. StatusMoves
  BY StepOfStatus
<1>2. ASSUME NEW c \in Client, Connect(c) \/ Leave(c)
      PROVE  seen' = [seen EXCEPT ![c] = -1] /\ status' = status
  BY <1>2 DEF Connect, Leave, Forgets
<1>3. ASSUME NEW c \in Client, Hear(c) PROVE status' = status
  BY <1>3 DEF Hear
<1>4. CASE UNCHANGED vars
  BY <1>1, <1>4 DEF vars, historyVars
<1>5. CASE Daemon
  BY <1>1, <1>5 DEF Daemon, Handle, PollReturns, AcceptClients, Publish, Starts, HangUp, Serve,
       Serving, Recv, Subscribe, Unsubscribe, Status, Command, Answer, historyVars
<1>6. CASE Ends
  BY <1>1, <1>6 DEF Ends
<1>7. ASSUME NEW c \in Client, EndLine(c) \/ \E w \in Writes[c] : StartLine(c, w)
      PROVE  seen' = seen
  BY <1>7 DEF EndLine, StartLine, historyVars
<1> QED BY <1>1, <1>2, <1>3, <1>4, <1>5, <1>6, <1>7 DEF Next

\* Every step of the server is a step of the feed or does not show there: the
\* status advances by a version, a client forgets with its connection, or it is
\* shown a version no older than the one before.
LEMMA StepFeeds ==
  ASSUME TypeInv, [Next]_vars, \A c \in Client : RisingTo(c)
  PROVE  [Feed!Next]_(Feed!fvars)
<1>1. CASE seen' = seen /\ StatusMoves
  BY <1>1 DEF StatusMoves, Feed!Next, Feed!Advance, Feed!fvars
<1>2. ASSUME NEW c \in Client, seen' = [seen EXCEPT ![c] = -1], status' = status
      PROVE  Feed!Next
  <2>1. seen' = [d \in Client |-> IF d \in {c} THEN -1 ELSE seen[d]]
    BY <1>2 DEF TypeInv, Types
  <2>2. Feed!Forget
    BY <1>2, <2>1 DEF Feed!Forget
  <2> QED BY <2>2 DEF Feed!Next
<1>3. ASSUME NEW c \in Client, Hear(c), status' = status
      PROVE  [Feed!Next]_(Feed!fvars)
  <2>1. CASE seen' = seen
    BY <1>3, <2>1 DEF Feed!fvars
  <2>2. ASSUME NEW i \in 1 .. Len(toClient[c]), News(toClient[c][i]),
               seen' = [seen EXCEPT ![c] = toClient[c][i].v]
        PROVE  Feed!Next
    <3>1. toClient[c] \in Texts /\ outBuf[c] \in Texts /\ seen[c] \in Int /\ status \in Int
      BY IpcAssumption DEF TypeInv, Types
    <3>2. Rising(toClient[c], seen[c], status)
      BY <3>1, RisingParts DEF RisingTo
    <3>3. seen[c] <= toClient[c][i].v /\ toClient[c][i].v <= status
      BY <2>2, <3>2, Zenon DEF Rising
    <3>4. toClient[c][i].v \in Nat
      BY <3>1, SymbolTypes
    <3>5. toClient[c][i].v \in 0 .. status /\ toClient[c][i].v >= seen[c]
      BY <3>1, <3>3, <3>4
    <3>6. Feed!Show(c)
      BY <1>3, <2>2, <3>5 DEF Feed!Show
    <3> QED BY <3>6 DEF Feed!Next
  <2>3. \/ seen' = seen
        \/ \E i \in 1 .. Len(toClient[c]) :
             News(toClient[c][i]) /\ seen' = [seen EXCEPT ![c] = toClient[c][i].v]
    BY <1>3 DEF Hear, StatusSymbol, News
  <2> QED BY <2>1, <2>2, <2>3
<1> QED BY <1>1, <1>2, <1>3, StepOfSeen

\* For any clients, buffers and sockets, and however often the daemon restarts:
\* the server implements the feed, so that no reader is shown an older status
\* after a newer one, whichever of answers and pushes it learns it by.
THEOREM ServerImplementsFeed == Spec => ImplementsFeed
<1>1. Init => Feed!Init
  BY DEF Init, Feed!Init
<1>2. TypeInv /\ (\A c \in Client : RisingTo(c)) /\ [Next]_vars => [Feed!Next]_(Feed!fvars)
  BY StepFeeds
<1> QED BY <1>1, <1>2, TypesInvariant, RisingInvariant, PTL DEF Spec, ImplementsFeed, Feed!FeedSpec

-----------------------------------------------------------------------------
(* The lines a client has written. *)

\* The lines of ws one after another, up to each.
IsText(t, ws) ==
  t = [n \in 0 .. Len(ws) |-> IF n = 0 THEN <<>> ELSE t[n - 1] \o Append(Body(ws[n]), NewLine)]

\* A line with its newline.
Whole(w) == Append(Body(w), NewLine)

\* It has one newline, at its end.
LEMMA WholeIs ==
  ASSUME NEW w \in Lines
  PROVE  /\ Whole(w) \in Texts /\ Len(Whole(w)) = w.n + 1 /\ w.n \in Nat
         /\ Whole(w)[w.n + 1] = NewLine /\ \A i \in 1 .. w.n : Whole(w)[i] # NewLine
<1>1. /\ Body(w) \in Seq(Symbols) /\ Len(Body(w)) = w.n /\ NewLine \in Symbols
      /\ \A i \in 1 .. w.n : Body(w)[i] # NewLine
  BY BodyTypes DEF Texts
<1>2. /\ Whole(w) \in Seq(Symbols) /\ Len(Whole(w)) = Len(Body(w)) + 1
      /\ Whole(w)[Len(Body(w)) + 1] = NewLine
      /\ \A i \in 1 .. Len(Body(w)) : Whole(w)[i] = Body(w)[i]
  BY <1>1, AppendProperties DEF Whole
<1>3. w.n \in Nat
  BY DEF Lines
<1> QED BY <1>1, <1>2, <1>3 DEF Texts

\* They are what Text puts together.
LEMMA TextExists ==
  ASSUME NEW ws \in Seq(Lines)
  PROVE  \E t : /\ IsText(t, ws)
                /\ \A n \in 0 .. Len(ws) : t[n] \in Texts
<1> DEFINE N == 0 + 1 .. Len(ws)
           g == [p \in N \X Texts |-> p[2] \o Whole(ws[p[1]])]
<1>1. Len(ws) \in Nat /\ 0 \in Nat /\ <<>> \in Texts
  BY EmptySeq DEF Texts
<1>2. \A n \in N : ws[n] \in Lines
  BY <1>1, ElementOfSeq
<1>3. \A n \in N, x \in Texts : x \o Whole(ws[n]) \in Texts
  BY <1>2, WholeIs, ConcatProperties DEF Texts
<1>4. g \in [N \X Texts -> Texts]
  BY <1>3
<1>5. \A i \in N, x \in Texts : g[<<i, x>>] = x \o Whole(ws[i])
  OBVIOUS
<1> HIDE DEF g
<1>6. PICK t : Recursive(t, g, <<>>, 0, Len(ws))
  BY <1>1, RecursiveExists
<1>7. (\A i \in 0 .. Len(ws) : t[i] \in Texts) /\ \A i \in N : <<i, t[i - 1]>> \in N \X Texts
  BY <1>1, <1>4, <1>6, RecursiveTypes
<1>8. t = [n \in 0 .. Len(ws) |-> IF n = 0 THEN <<>> ELSE g[<<n, t[n - 1]>>]]
  BY <1>6, Zenon DEF Recursive
<1>9. \A n \in 0 .. Len(ws) : n # 0 => g[<<n, t[n - 1]>>] = t[n - 1] \o Whole(ws[n])
  <2> TAKE n \in 0 .. Len(ws)
  <2>1. n # 0 => n \in N /\ t[n - 1] \in Texts
    BY <1>1, <1>7
  <2> QED BY <1>5, <2>1
<1>10. t = [n \in 0 .. Len(ws) |-> IF n = 0 THEN <<>> ELSE t[n - 1] \o Whole(ws[n])]
  BY <1>8, <1>9
<1>11. IsText(t, ws)
  BY <1>10, Zenon DEF IsText, Whole
<1> QED BY <1>7, <1>11

\* What lines read like is what the sequence of its beginnings ends with.
LEMMA TextIs ==
  ASSUME NEW ws \in Seq(Lines)
  PROVE  \E t : /\ Text(ws) = t[Len(ws)] /\ t[0] = <<>>
                /\ \A n \in 1 .. Len(ws) : t[n] = t[n - 1] \o Whole(ws[n])
                /\ \A n \in 0 .. Len(ws) : t[n] \in Texts
<1> DEFINE t == CHOOSE t : IsText(t, ws)
<1>1. IsText(t, ws)
  BY TextExists
<1>2. Text(ws) = t[Len(ws)]
  BY Zenon DEF Text, IsText
<1> HIDE DEF t
<1>3. Len(ws) \in Nat /\ \A n \in 1 .. Len(ws) : ws[n] \in Lines
  BY ElementOfSeq, LenProperties
<1>4. \A n \in 0 .. Len(ws) : t[n] = IF n = 0 THEN <<>> ELSE t[n - 1] \o Whole(ws[n])
  <2>1. \A f, D : f = [n \in D |-> IF n = 0 THEN <<>> ELSE f[n - 1] \o Whole(ws[n])]
                  => \A n \in D : f[n] = IF n = 0 THEN <<>> ELSE f[n - 1] \o Whole(ws[n])
    BY Zenon
  <2>2. t = [n \in 0 .. Len(ws) |-> IF n = 0 THEN <<>> ELSE t[n - 1] \o Whole(ws[n])]
    BY <1>1, Zenon DEF IsText, Whole
  <2> QED BY <2>1, <2>2, Zenon
<1>5. t[0] = <<>> /\ \A n \in 1 .. Len(ws) : t[n] = t[n - 1] \o Whole(ws[n])
  BY <1>3, <1>4, FromZero, Zenon
<1> DEFINE T == {n \in 0 .. Len(ws) : t[n] \in Texts}
<1>6. 0 \in T
  <2>1. t[0] \in Texts
    BY <1>5, EmptySeq, Zenon DEF Texts
  <2> QED BY <1>3, <2>1, FromZero, Zenon
<1>7. \A n \in 0 + 1 .. Len(ws) : n - 1 \in T => n \in T
  <2>1. ASSUME NEW n \in 1 .. Len(ws), t[n - 1] \in Texts PROVE t[n] \in Texts
    <3>1. Whole(ws[n]) \in Texts
      BY <1>3, WholeIs
    <3> QED BY <1>5, <2>1, <3>1, ConcatProperties DEF Texts
  <2> QED BY <1>3, <2>1
<1> HIDE DEF T
<1>8. 0 .. Len(ws) \subseteq T
  BY <1>3, <1>6, <1>7, InductionTo
<1>9. \A n \in 0 .. Len(ws) : t[n] \in Texts
  BY <1>8 DEF T
<1> QED BY <1>2, <1>5, <1>9

\* No lines, no bytes.
LEMMA TextOfNothing == Text(<<>>) = <<>>
<1>1. <<>> \in Seq(Lines) /\ Len(<<>>) = 0
  BY EmptySeq
<1> QED BY <1>1, TextIs

\* A line more is its text more.
LEMMA TextOfMore ==
  ASSUME NEW ws \in Seq(Lines), NEW w \in Lines
  PROVE  /\ Append(ws, w) \in Seq(Lines) /\ Text(ws) \in Texts
         /\ Text(Append(ws, w)) = Text(ws) \o Whole(w)
<1> DEFINE vs == Append(ws, w)
           n == Len(ws)
<1>1. /\ n \in Nat /\ vs \in Seq(Lines) /\ Len(vs) = n + 1 /\ vs[n + 1] = w
      /\ \A i \in 1 .. n : vs[i] = ws[i]
  OBVIOUS
<1> HIDE DEF vs
<1>2. PICK t : /\ Text(ws) = t[n] /\ t[0] = <<>>
               /\ \A i \in 1 .. n : t[i] = t[i - 1] \o Whole(ws[i])
               /\ \A i \in 0 .. n : t[i] \in Texts
  BY TextIs
<1>3. PICK u : /\ Text(vs) = u[Len(vs)] /\ u[0] = <<>>
               /\ \A i \in 1 .. Len(vs) : u[i] = u[i - 1] \o Whole(vs[i])
  BY <1>1, TextIs
<1> DEFINE T == {i \in 0 .. n : u[i] = t[i]}
<1>4. 0 \in T
  BY <1>1, <1>2, <1>3
<1>5. \A i \in 0 + 1 .. n : i - 1 \in T => i \in T
  <2> SUFFICES ASSUME NEW i \in 1 .. n, u[i - 1] = t[i - 1] PROVE u[i] = t[i]
    BY <1>1
  <2>1. i \in 1 .. Len(vs) /\ vs[i] = ws[i]
    BY <1>1
  <2>2. u[i] = u[i - 1] \o Whole(vs[i]) /\ t[i] = t[i - 1] \o Whole(ws[i])
    BY <1>2, <1>3, <2>1
  <2> QED BY <2>1, <2>2, Zenon
<1> HIDE DEF T
<1>6. 0 .. n \subseteq T
  BY <1>1, <1>4, <1>5, InductionTo
<1>7. u[n] = t[n] /\ n + 1 \in 1 .. Len(vs) /\ (n + 1) - 1 = n /\ n \in 0 .. n
  BY <1>1, <1>6 DEF T
<1>8. u[n + 1] = u[(n + 1) - 1] \o Whole(vs[n + 1])
  BY <1>3, <1>7
<1>9. u[n + 1] = t[n] \o Whole(w)
  BY <1>1, <1>7, <1>8, Zenon
<1> QED BY <1>1, <1>2, <1>3, <1>7, <1>9 DEF vs

\* The first line comes first.
LEMMA TextOfFirst ==
  ASSUME NEW ws \in Seq(Lines), ws # <<>>
  PROVE  /\ ws[1] \in Lines /\ Tail(ws) \in Seq(Lines) /\ Text(Tail(ws)) \in Texts
         /\ Text(ws) = Whole(ws[1]) \o Text(Tail(ws))
         /\ Len(ws) = 1 => Text(ws) = Whole(ws[1])
<1> DEFINE vs == Tail(ws)
           n == Len(vs)
           x == Whole(ws[1])
<1>1. /\ n \in Nat /\ vs \in Seq(Lines) /\ Len(ws) = n + 1 /\ ws[1] \in Lines
      /\ \A i \in 1 .. n : vs[i] = ws[i + 1]
  OBVIOUS
<1>2. x \in Texts
  BY <1>1, WholeIs
<1> HIDE DEF vs, x
<1>3. PICK t : /\ Text(ws) = t[Len(ws)] /\ t[0] = <<>>
               /\ \A i \in 1 .. Len(ws) : t[i] = t[i - 1] \o Whole(ws[i])
               /\ \A i \in 0 .. Len(ws) : t[i] \in Texts
  BY TextIs
<1>4. PICK u : /\ Text(vs) = u[n] /\ u[0] = <<>>
               /\ \A i \in 1 .. n : u[i] = u[i - 1] \o Whole(vs[i])
               /\ \A i \in 0 .. n : u[i] \in Texts
  BY <1>1, TextIs
<1>5. t[1] = x
  <2>1. 1 \in 1 .. Len(ws) /\ 1 - 1 = 0
    BY <1>1
  <2>2. t[1] = t[1 - 1] \o Whole(ws[1])
    BY <1>3, <2>1
  <2>3. <<>> \o x = x
    BY <1>2 DEF Texts
  <2> QED BY <1>3, <2>1, <2>2, <2>3 DEF x
<1> DEFINE T == {i \in 0 .. n : t[i + 1] = x \o u[i]}
<1>6. 0 \in T
  <2>1. x \o <<>> = x
    BY <1>2 DEF Texts
  <2>2. t[0 + 1] = x \o u[0]
    <3>1. 0 + 1 = 1
      OBVIOUS
    <3> QED BY <1>4, <1>5, <2>1, <3>1, Zenon
  <2> QED BY <1>1, <2>2, FromZero, Zenon
<1>7. \A i \in 0 + 1 .. n : i - 1 \in T => i \in T
  <2> SUFFICES ASSUME NEW i \in 1 .. n, t[(i - 1) + 1] = x \o u[i - 1] PROVE t[i + 1] = x \o u[i]
    <3>1. 0 + 1 = 1
      OBVIOUS
    <3> QED BY <1>1, <3>1, FromZero, Zenon
  <2>1. i + 1 \in 1 .. Len(ws) /\ vs[i] = ws[i + 1] /\ (i - 1) + 1 = i /\ (i + 1) - 1 = i
        /\ i - 1 \in 0 .. n
    BY <1>1
  <2>2. vs[i] \in Lines
    BY <1>1, ElementOfSeq
  <2>3. u[i - 1] \in Texts /\ Whole(vs[i]) \in Texts
    BY <1>4, <2>1, <2>2, WholeIs
  <2>4. t[i + 1] = t[(i + 1) - 1] \o Whole(ws[i + 1]) /\ u[i] = u[i - 1] \o Whole(vs[i])
    BY <1>3, <1>4, <2>1
  <2>5. (x \o u[i - 1]) \o Whole(vs[i]) = x \o (u[i - 1] \o Whole(vs[i]))
    BY <1>2, <2>3, Associative
  <2>6. t[i + 1] = (x \o u[i - 1]) \o Whole(vs[i])
    BY <2>1, <2>4, Zenon
  <2> QED BY <2>4, <2>5, <2>6, Zenon
<1> HIDE DEF T
<1>8. 0 .. n \subseteq T
  BY <1>1, <1>6, <1>7, InductionTo
<1>9. t[n + 1] = x \o u[n] /\ u[n] \in Texts
  BY <1>1, <1>4, <1>8 DEF T
<1>10. Text(ws) = x \o Text(vs) /\ Text(vs) \in Texts
  BY <1>1, <1>3, <1>4, <1>9
<1>11. Len(ws) = 1 => Text(ws) = x
  BY <1>3, <1>5
<1> QED BY <1>1, <1>10, <1>11 DEF vs, x

-----------------------------------------------------------------------------
(* Requests are answered in order. *)

\* What c has written and the daemon not taken: the lines owed an answer.
Unread(c) == inBuf[c] \o toServer[c]

InputOf(c) ==
  /\ conn[c] \in {"none", "serverClosed"} => inBuf[c] = <<>> /\ toServer[c] = <<>>
  /\ conn[c] = "up" => /\ owed[c] \in Seq(Lines)
                       /\ Unread(c) \o Ending(c) = Text(owed[c])

OwedTypes == owed = [c \in Client |-> owed[c]]

Inputs == OwedTypes /\ \A c \in Client : InputOf(c)

\* What a step can do to what c has written: nothing, or move it; take a line;
\* forget it all; c connects, leaves, starts a line or ends one.
Kept(c) == /\ conn'[c] = conn[c] /\ owed'[c] = owed[c] /\ (c \in midLine' <=> c \in midLine)
           /\ \/ inBuf'[c] = inBuf[c] /\ toServer'[c] = toServer[c]
              \/ conn[c] = "up" /\ Unread(c)' = Unread(c)
Taken(c) == /\ conn'[c] = "up" /\ conn[c] = "up" /\ (c \in midLine' <=> c \in midLine)
            /\ HasLine(inBuf[c]) /\ inBuf'[c] = Rest(inBuf[c]) /\ toServer'[c] = toServer[c]
            /\ owed'[c] = Tail(owed[c])
Forgotten(c) == \/ conn'[c] = "clientClosed"
                \/ conn'[c] \in {"none", "serverClosed"} /\ inBuf'[c] = <<>> /\ toServer'[c] = <<>>
Opens(c) == /\ conn[c] \in {"none", "serverClosed"} /\ conn'[c] = "up"
            /\ inBuf'[c] = inBuf[c] /\ toServer'[c] = toServer[c]
            /\ owed'[c] = <<>> /\ c \notin midLine'
Writing(c) == /\ conn[c] = "up" /\ conn'[c] = "up" /\ inBuf'[c] = inBuf[c]
              /\ \/ /\ c \notin midLine /\ c \in midLine'
                    /\ \E w \in Writes[c] : /\ toServer'[c] = toServer[c] \o Body(w)
                                            /\ owed'[c] = Append(owed[c], w)
                 \/ /\ c \in midLine /\ c \notin midLine'
                    /\ toServer'[c] = Append(toServer[c], NewLine)
                    /\ owed'[c] = owed[c]

InputStep(c) == Kept(c) \/ Taken(c) \/ Forgotten(c) \/ Opens(c) \/ Writing(c)

\* The rest of a buffer, and what follows it.
LEMMA RestOfMore ==
  ASSUME NEW s \in Texts, NEW t \in Texts, HasLine(s)
  PROVE  HasLine(s \o t) /\ Rest(s) \in Texts /\ Rest(s) \o t = Rest(s \o t)
<1> DEFINE e == LineEnd(s)
           st == s \o t
<1>1. /\ Len(s) \in Nat /\ Len(t) \in Nat /\ e \in 1 .. Len(s) /\ s[e] = NewLine
      /\ \A j \in 1 .. e - 1 : s[j] # NewLine
  BY LineEndIs, LenProperties DEF Texts
<1>2. /\ st \in Texts /\ Len(st) = Len(s) + Len(t)
      /\ \A i \in 1 .. Len(s) : st[i] = s[i]
      /\ \A i \in 1 .. Len(t) : st[Len(s) + i] = t[i]
  BY <1>1 DEF Texts
<1> HIDE DEF e, st
<1>3. e \in 1 .. Len(st) /\ st[e] = NewLine /\ \A j \in 1 .. e - 1 : st[j] # NewLine
  BY <1>1, <1>2
<1>4. HasLine(st)
  BY <1>3 DEF HasLine
<1>5. LineEnd(st) = e
  <2>1. /\ LineEnd(st) \in 1 .. Len(st) /\ st[LineEnd(st)] = NewLine
        /\ \A j \in 1 .. LineEnd(st) - 1 : st[j] # NewLine
    BY <1>2, <1>4, LineEndIs
  <2>2. ~(LineEnd(st) < e)
    BY <1>2, <1>3, <2>1
  <2>3. ~(e < LineEnd(st))
    BY <1>2, <1>3, <2>1
  <2> QED BY <1>2, <1>3, <2>1, <2>2, <2>3
<1> DEFINE r == Rest(s)
           q == Rest(st)
<1>6. r = SubSeq(s, e + 1, Len(s)) /\ q = SubSeq(st, e + 1, Len(st))
  BY <1>5 DEF Rest, Drop, e
<1> HIDE DEF r, q
<1>7. r \in Texts /\ Len(r) = Len(s) - e /\ \A i \in 1 .. Len(s) - e : r[i] = s[e + i]
  BY <1>1, <1>6, SubSeqProperties DEF Texts
<1>8. q \in Texts /\ Len(q) = Len(st) - e /\ \A i \in 1 .. Len(st) - e : q[i] = st[e + i]
  <2>1. Len(st) \in Nat /\ e + 1 \in 1 .. Len(st) + 1 /\ Len(st) \in e .. Len(st)
    BY <1>1, <1>2
  <2>2. \A x \in Texts : Len(x) = Len(st) =>
          LET y == SubSeq(x, e + 1, Len(x)) IN
            y \in Texts /\ Len(y) = Len(x) - e /\ \A i \in 1 .. Len(x) - e : y[i] = x[e + i]
    BY <1>1, <2>1, SubSeqProperties DEF Texts
  <2> QED BY <1>2, <1>6, <2>2, Zenon
<1>9. r \o t = q
  <2>1. r \o t \in Texts /\ Len(r \o t) = Len(r) + Len(t)
        /\ \A i \in 1 .. Len(r) + Len(t) : (r \o t)[i] = IF i <= Len(r) THEN r[i] ELSE t[i - Len(r)]
    BY <1>7, ConcatProperties DEF Texts
  <2> DEFINE rt == r \o t
  <2> HIDE DEF rt
  <2>2. Len(rt) = Len(q) /\ \A i \in 1 .. Len(q) : rt[i] = q[i]
    <3>1. Len(rt) = Len(q)
      BY <1>1, <1>2, <1>7, <1>8, <2>1 DEF rt
    <3>2. ASSUME NEW i \in 1 .. Len(q) PROVE rt[i] = q[i]
      <4>1. q[i] = st[e + i] /\ e + i \in 1 .. Len(s) + Len(t)
        BY <1>1, <1>2, <1>8
      <4>2. CASE i <= Len(s) - e
        <5>1. rt[i] = r[i]
          BY <1>1, <1>2, <1>7, <1>8, <2>1, <4>2 DEF rt
        <5>2. r[i] = s[e + i] /\ e + i \in 1 .. Len(s)
          BY <1>1, <1>7, <4>2
        <5> QED BY <1>2, <4>1, <5>1, <5>2
      <4>3. CASE i > Len(s) - e
        <5>1. rt[i] = t[i - (Len(s) - e)] /\ i - (Len(s) - e) \in 1 .. Len(t)
          BY <1>1, <1>2, <1>7, <1>8, <2>1, <4>3 DEF rt
        <5>2. e + i = Len(s) + (i - (Len(s) - e))
          BY <1>1
        <5> QED BY <1>2, <4>1, <5>1, <5>2
      <4> QED BY <1>1, <4>2, <4>3
    <3> QED BY <3>1, <3>2
  <2>3. rt = q
    BY <1>8, <2>1, <2>2, SeqEqual DEF rt, Texts
  <2> QED BY <2>3 DEF rt
<1> QED BY <1>4, <1>7, <1>9 DEF r, q, st

\* What stays of a line and what follows it is what follows it, and what has no
\* newline of these is no longer than the line.
LEMMA RestOfLine ==
  ASSUME NEW w \in Lines, NEW t \in Texts
  PROVE  /\ HasLine(Whole(w) \o t) /\ Rest(Whole(w) \o t) = t
         /\ \A b, d \in Texts : b \o d = Whole(w) \o t /\ ~HasLine(b) => Len(b) <= w.n
<1> DEFINE x == Whole(w)
           s == x \o t
<1>1. /\ x \in Texts /\ Len(x) = w.n + 1 /\ w.n \in Nat
      /\ x[w.n + 1] = NewLine /\ \A i \in 1 .. w.n : x[i] # NewLine
  BY WholeIs
<1> HIDE DEF x
<1>2. /\ s \in Texts /\ Len(s) = Len(x) + Len(t) /\ Len(t) \in Nat
      /\ \A i \in 1 .. Len(x) : s[i] = x[i]
  <2>1. \A S : \A a, b \in Seq(S) : /\ a \o b \in Seq(S) /\ Len(a \o b) = Len(a) + Len(b)
                                    /\ Len(a) \in Nat /\ Len(b) \in Nat
                                    /\ \A i \in 1 .. Len(a) : (a \o b)[i] = a[i]
    BY ConcatProperties, LenProperties
  <2>2. x \in Seq(Symbols) /\ t \in Seq(Symbols)
    BY <1>1 DEF Texts
  <2> QED BY <2>1, <2>2, Zenon DEF Texts
<1>3. Drop(s, Len(x)) = t
  <2>1. x \in Seq(Symbols) /\ t \in Seq(Symbols)
    BY <1>1 DEF Texts
  <2> QED BY <2>1, TakeDropOfConcat
<1> HIDE DEF s
<1>4. w.n + 1 \in 1 .. Len(s) /\ s[w.n + 1] = NewLine /\ \A i \in 1 .. w.n : s[i] # NewLine
  <2>1. \A k, l \in Nat : /\ k + 1 \in 1 .. k + 1 /\ k + 1 \in 1 .. (k + 1) + l
                          /\ \A i \in 1 .. k : i \in 1 .. k + 1
    OBVIOUS
  <2> QED BY <1>1, <1>2, <2>1, Zenon
<1>5. HasLine(s)
  BY <1>4 DEF HasLine
<1>6. LineEnd(s) = Len(x)
  <2>1. /\ LineEnd(s) \in 1 .. Len(s) /\ s[LineEnd(s)] = NewLine
        /\ \A j \in 1 .. LineEnd(s) - 1 : s[j] # NewLine
    BY <1>2, <1>5, LineEndIs
  <2>2. ~(LineEnd(s) < w.n + 1)
    BY <1>1, <1>4, <2>1
  <2>3. ~(w.n + 1 < LineEnd(s))
    BY <1>1, <1>4, <2>1
  <2> QED BY <1>1, <1>2, <2>1, <2>2, <2>3
<1>7. Rest(s) = t
  BY <1>3, <1>6 DEF Rest
<1>8. ASSUME NEW b \in Texts, NEW d \in Texts, b \o d = s, ~HasLine(b) PROVE Len(b) <= w.n
  <2>1. SUFFICES ASSUME ~(Len(b) <= w.n) PROVE FALSE
    OBVIOUS
  <2>2. Len(b) \in Nat /\ w.n + 1 \in 1 .. Len(b)
    BY <1>1, <2>1, LenProperties DEF Texts
  <2>3. \A i \in 1 .. Len(b) : (b \o d)[i] = b[i]
    BY DEF Texts
  <2>4. b[w.n + 1] = NewLine
    BY <1>4, <1>8, <2>2, <2>3
  <2> QED BY <1>8, <2>2, <2>4 DEF HasLine
<1> QED BY <1>5, <1>7, <1>8 DEF s, x

\* A step that closes the clients of Gone, and clears what they had written.
LEMMA ClearedInput ==
  ASSUME TypeInv, NEW D, NEW Gone, NEW lines, Settle(D, lines, Gone), NEW c \in Client,
         c \in Gone => inBuf'[c] = <<>> /\ toServer'[c] = <<>>,
         c \notin Gone => inBuf'[c] = inBuf[c] /\ toServer'[c] = toServer[c],
         owed'[c] = owed[c], midLine' = midLine
  PROVE  Kept(c) \/ Forgotten(c)
<1>1. conn'[c] = IF c \notin Gone THEN conn[c] ELSE IF Fails(c) THEN "none" ELSE "serverClosed"
  BY Zenon DEF Settle
<1>2. CASE c \in Gone
  BY <1>1, <1>2 DEF Forgotten
<1>3. CASE c \notin Gone
  BY <1>1, <1>3 DEF Kept
<1> QED BY <1>2, <1>3

\* A step that moves nothing of what clients wrote.
LEMMA KeptInput ==
  ASSUME conn' = conn, owed' = owed, midLine' = midLine, inBuf' = inBuf, toServer' = toServer, NEW c
  PROVE  Kept(c)
BY DEF Kept

LEMMA ClearIs ==
  ASSUME NEW f, NEW D, NEW c \in Client
  PROVE  Clear(f, D)[c] = IF c \in D THEN <<>> ELSE f[c]
BY Zenon DEF Clear

\* recv(), flush() and hang-up, and what was written.
LEMMA HandlerInput ==
  ASSUME TypeInv, NEW d \in Client, HangUp(d) \/ Serve(d) \/ Recv(d), NEW c \in Client
  PROVE  Kept(c) \/ Forgotten(c)
<1>1. owed' = owed /\ midLine' = midLine
  BY DEF HangUp, Serve, Recv, Serving
<1>2. ASSUME NEW D, NEW lines, Settle(D, lines, {d}),
             toServer' = Clear(toServer, {d}), inBuf' = Clear(inBuf, {d})
      PROVE  Kept(c) \/ Forgotten(c)
  <2>1. inBuf'[c] = (IF c \in {d} THEN <<>> ELSE inBuf[c])
        /\ toServer'[c] = IF c \in {d} THEN <<>> ELSE toServer[c]
    BY <1>2, ClearIs
  <2> QED BY <1>1, <1>2, <2>1, ClearedInput
<1>3. CASE Closing(d)
  BY <1>2, <1>3 DEF Closing
<1>4. CASE HangUp(d)
  BY <1>3, <1>4 DEF HangUp
<1>5. CASE Serve(d)
  <2>1. inBuf' = inBuf /\ toServer' = toServer
        /\ Settle(IF "out" \in events[d] THEN {d} ELSE {}, Empty, {})
    BY <1>5 DEF Serve
  <2> QED BY <1>1, <2>1, ClearedInput
<1>6. CASE Recv(d)
  <2> DEFINE n == Lesser(ReadSize, Len(toServer[d]))
             buf == inBuf[d] \o Take(toServer[d], n)
  <2>1. CASE UNCHANGED <<sessionVars, conn, toServer, toClient, due, told>>
    BY <1>1, <2>1, KeptInput DEF sessionVars
  <2>2. CASE /\ Settle(IF Fails(d) THEN {} ELSE {d}, [e \in Client |-> Line("err", 0)], {d})
             /\ toServer' = Clear(toServer, {d}) /\ inBuf' = Clear(inBuf, {d})
    BY <1>2, <2>2
  <2>3. CASE /\ inBuf' = [inBuf EXCEPT ![d] = buf]
             /\ toServer' = [toServer EXCEPT ![d] = Drop(@, n)]
             /\ conn' = conn
    <3>0. inBuf \in [Client -> Texts] /\ toServer \in [Client -> Texts]
      BY DEF TypeInv, Types
    <3>1. CASE c # d
      <4>1. inBuf'[c] = inBuf[c] /\ toServer'[c] = toServer[c]
        BY <2>3, <3>0, <3>1, Zenon
      <4> QED BY <1>1, <2>3, <4>1 DEF Kept
    <3>2. CASE c = d
      <4>1. inBuf'[c] = buf /\ toServer'[c] = Drop(toServer[c], n)
        BY <2>3, <3>0, <3>2, Zenon
      <4>2. n \in Nat /\ inBuf[c] \in Texts /\ toServer[c] \in Texts
        BY <3>0, <3>2, LenProperties, IpcAssumption DEF Lesser, Texts
      <4>3. /\ Take(toServer[c], n) \in Texts /\ Drop(toServer[c], n) \in Texts
            /\ Take(toServer[c], n) \o Drop(toServer[c], n) = toServer[c]
        BY <4>2, TakeDrop DEF Texts
      <4> HIDE DEF n
      <4>7. (inBuf[c] \o Take(toServer[c], n)) \o Drop(toServer[c], n) = inBuf[c] \o toServer[c]
        <5>1. inBuf[c] \in Texts /\ Take(toServer[c], n) \in Texts /\ Drop(toServer[c], n) \in Texts
          BY <4>2, <4>3
        <5>2. (inBuf[c] \o Take(toServer[c], n)) \o Drop(toServer[c], n)
                = inBuf[c] \o (Take(toServer[c], n) \o Drop(toServer[c], n))
          BY <5>1, Associative
        <5> QED BY <4>3, <5>2, Zenon
      <4>4. buf \o Drop(toServer[c], n) = inBuf[c] \o toServer[c]
        BY <3>2, <4>7, Zenon
      <4>5. Unread(c)' = Unread(c)
        BY <4>1, <4>4 DEF Unread
      <4>6. conn[c] = "up" \/ conn[c] = "clientClosed"
        BY <1>6, <3>2 DEF Recv, TypeInv, Loop
      <4> QED BY <1>1, <2>3, <4>5, <4>6 DEF Kept, Forgotten
    <3> QED BY <3>1, <3>2
  <2> HIDE DEF n, buf
  <2>4. \/ UNCHANGED <<sessionVars, conn, toServer, toClient, due, told>>
        \/ Closing(d)
        \/ /\ Settle(IF Fails(d) THEN {} ELSE {d}, [e \in Client |-> Line("err", 0)], {d})
           /\ toServer' = Clear(toServer, {d}) /\ inBuf' = Clear(inBuf, {d})
        \/ /\ inBuf' = [inBuf EXCEPT ![d] = buf]
           /\ toServer' = [toServer EXCEPT ![d] = Drop(@, n)]
           /\ conn' = conn
    BY <1>6, Zenon DEF Recv, n, buf
  <2> QED BY <1>3, <2>1, <2>2, <2>3, <2>4
<1> QED BY <1>4, <1>5, <1>6

\* A handled line, and what was written.
LEMMA AnswerInput ==
  ASSUME TypeInv, OwedTypes, NEW d \in Client, reading = {d}, HasLine(inBuf[d]),
         NEW line, NEW S, Answer(d, line, S), NEW c \in Client
  PROVE  InputStep(c)
<1>0. /\ inBuf \in [Client -> Texts] /\ toServer \in [Client -> Texts]
      /\ d \in open /\ conn[d] \in {"up", "clientClosed"}
  BY DEF TypeInv, Types, Loop
<1>1. /\ Settle(IF Fails(d) THEN {} ELSE {d}, [e \in Client |-> line], IF Fails(d) THEN {d} ELSE {})
      /\ inBuf' = IF Fails(d) THEN Clear(inBuf, {d}) ELSE [inBuf EXCEPT ![d] = Rest(@)]
      /\ toServer' = IF Fails(d) THEN Clear(toServer, {d}) ELSE toServer
      /\ owed' = [owed EXCEPT ![d] = IF Fails(d) THEN @ ELSE Tail(@)]
      /\ midLine' = midLine
  BY DEF Answer
<1>2. /\ c # d => owed'[c] = owed[c]
      /\ owed'[d] = IF Fails(d) THEN owed[d] ELSE Tail(owed[d])
  BY <1>1, Zenon DEF OwedTypes
<1>3. CASE Fails(d)
  <2>1. inBuf'[c] = (IF c \in {d} THEN <<>> ELSE inBuf[c])
        /\ toServer'[c] = IF c \in {d} THEN <<>> ELSE toServer[c]
    BY <1>1, <1>3, ClearIs
  <2>2. Settle({}, [e \in Client |-> line], {d}) /\ owed'[c] = owed[c]
    BY <1>1, <1>2, <1>3
  <2> QED BY <1>1, <2>1, <2>2, ClearedInput DEF InputStep
<1>4. CASE ~Fails(d)
  <2>1. conn' = [e \in Client |-> conn[e]]
    BY <1>1, <1>4, Zenon DEF Settle
  <2>2. conn'[c] = conn[c] /\ conn[d] = "up" /\ toServer' = toServer
    BY <1>0, <1>1, <1>4, <2>1 DEF Fails
  <2>3. /\ c # d => inBuf'[c] = inBuf[c]
        /\ inBuf'[d] = Rest(inBuf[d])
    BY <1>0, <1>1, <1>4, Zenon
  <2>4. CASE c = d
    BY <1>1, <1>2, <1>4, <2>2, <2>3, <2>4 DEF InputStep, Taken
  <2>5. CASE c # d
    BY <1>1, <1>2, <2>2, <2>3, <2>5 DEF InputStep, Kept
  <2> QED BY <2>4, <2>5
<1> QED BY <1>3, <1>4

LEMMA RequestInput ==
  ASSUME TypeInv, OwedTypes, NEW d \in Client,
         Subscribe(d) \/ Unsubscribe(d) \/ Status(d) \/ Command(d), NEW c \in Client
  PROVE  InputStep(c)
<1>1. reading = {d} /\ HasLine(inBuf[d]) /\ \E line, S : Answer(d, line, S)
  BY DEF Subscribe, Unsubscribe, Status, Command, Request
<1> QED BY <1>1, AnswerInput

\* A push, and what was written.
LEMMA PublishInput == ASSUME TypeInv, Publish, NEW c \in Client PROVE Kept(c) \/ Forgotten(c)
<1>1. owed' = owed /\ midLine' = midLine
  BY DEF Publish
<1>2. CASE UNCHANGED <<published, sessionVars, conn, toServer, toClient, due, told>>
  BY <1>1, <1>2, KeptInput DEF sessionVars
<1>3. CASE /\ Settle(Listeners, [d \in Client |-> Line("push", status')], Stalled)
           /\ toServer' = Clear(toServer, Stalled) /\ inBuf' = Clear(inBuf, Stalled)
  <2>1. inBuf'[c] = (IF c \in Stalled THEN <<>> ELSE inBuf[c])
        /\ toServer'[c] = IF c \in Stalled THEN <<>> ELSE toServer[c]
    BY <1>3, ClearIs
  <2> QED BY <1>1, <1>3, <2>1, ClearedInput
<1> QED BY <1>2, <1>3, Zenon DEF Publish

\* The daemon's end: who has no session has no requests read.
LEMMA EndsInput == ASSUME TypeInv, Ends, NEW c \in Client PROVE Kept(c) \/ Forgotten(c)
<1> DEFINE lost == IF Activated THEN open ELSE open \cup waiting
<1>1. Settle({}, Empty, lost) /\ toServer' = Clear(toServer, lost) /\ inBuf' = Empty
      /\ owed' = owed /\ midLine' = midLine
  BY DEF Ends
<1>2. c \notin lost => inBuf[c] = <<>>
  BY DEF TypeInv, Buffers
<1> HIDE DEF lost
<1>3. inBuf'[c] = <<>> /\ toServer'[c] = IF c \in lost THEN <<>> ELSE toServer[c]
  BY <1>1, ClearIs DEF Empty
<1> QED BY <1>1, <1>2, <1>3, ClearedInput

\* What a client does itself.
LEMMA VisitInput ==
  ASSUME TypeInv, OwedTypes, NEW d \in Client,
         \/ Connect(d) \/ EndLine(d) \/ Hear(d) \/ Leave(d)
         \/ \E w \in Writes[d] : StartLine(d, w),
         NEW c \in Client
  PROVE  InputStep(c)
<1>0. /\ inBuf' = inBuf /\ conn \in [Client -> Kinds] /\ toServer \in [Client -> Texts]
      /\ \A e \in Client : Clear(owed, {d})[e] = IF e \in {d} THEN <<>> ELSE owed[e]
  BY ClearIs DEF Connect, EndLine, Hear, Leave, StartLine, sessionVars, TypeInv, Types
<1>1. CASE Hear(d)
  <2>1. conn' = conn /\ owed' = owed /\ midLine' = midLine /\ toServer' = toServer
    BY <1>1 DEF Hear
  <2> QED BY <1>0, <2>1, KeptInput DEF InputStep
<1>2. CASE Connect(d)
  <2>1. /\ conn[d] \in {"none", "serverClosed"} /\ conn' = [conn EXCEPT ![d] = "up"]
        /\ toServer' = toServer /\ owed' = Clear(owed, {d}) /\ midLine' = midLine \ {d}
    BY <1>2 DEF Connect, Forgets
  <2>2. conn'[d] = "up" /\ (c # d => conn'[c] = conn[c])
    BY <1>0, <2>1, Zenon
  <2>3. CASE c = d
    BY <1>0, <2>1, <2>2, <2>3 DEF InputStep, Opens
  <2>4. CASE c # d
    BY <1>0, <2>1, <2>2, <2>4 DEF InputStep, Kept
  <2> QED BY <2>3, <2>4
<1>3. CASE Leave(d)
  <2>1. /\ conn' = [conn EXCEPT ![d] = "clientClosed"]
        /\ toServer' = toServer /\ owed' = Clear(owed, {d}) /\ midLine' = midLine
    BY <1>3 DEF Leave, Forgets
  <2>2. conn'[d] = "clientClosed" /\ (c # d => conn'[c] = conn[c])
    BY <1>0, <2>1, Zenon
  <2>3. CASE c = d
    BY <2>2, <2>3 DEF InputStep, Forgotten
  <2>4. CASE c # d
    BY <1>0, <2>1, <2>2, <2>4 DEF InputStep, Kept
  <2> QED BY <2>3, <2>4
<1>4. CASE EndLine(d)
  <2>1. /\ conn[d] = "up" /\ conn' = conn /\ d \in midLine /\ midLine' = midLine \ {d}
        /\ toServer' = [toServer EXCEPT ![d] = Append(@, NewLine)] /\ owed' = owed
    BY <1>4 DEF EndLine, historyVars
  <2>2. toServer'[d] = Append(toServer[d], NewLine) /\ (c # d => toServer'[c] = toServer[c])
    BY <1>0, <2>1, Zenon
  <2>3. CASE c = d
    BY <1>0, <2>1, <2>2, <2>3 DEF InputStep, Writing
  <2>4. CASE c # d
    BY <1>0, <2>1, <2>2, <2>4 DEF InputStep, Kept
  <2> QED BY <2>3, <2>4
<1>5. ASSUME NEW w \in Writes[d], StartLine(d, w) PROVE InputStep(c)
  <2>1. /\ conn[d] = "up" /\ conn' = conn /\ d \notin midLine /\ midLine' = midLine \cup {d}
        /\ toServer' = [toServer EXCEPT ![d] = @ \o Body(w)]
        /\ owed' = [owed EXCEPT ![d] = Append(@, w)]
    BY <1>5 DEF StartLine
  <2>2. /\ toServer'[d] = toServer[d] \o Body(w) /\ (c # d => toServer'[c] = toServer[c])
        /\ owed'[d] = Append(owed[d], w) /\ (c # d => owed'[c] = owed[c])
    BY <1>0, <2>1, Zenon DEF OwedTypes
  <2>3. CASE c = d
    <3>1. conn[c] = "up" /\ conn'[c] = "up" /\ inBuf'[c] = inBuf[c] /\ c \notin midLine /\ c \in midLine'
      BY <1>0, <2>1, <2>3
    <3>2. \E j \in Writes[c] : toServer'[c] = toServer[c] \o Body(j)
                               /\ owed'[c] = Append(owed[c], j)
      BY <2>2, <2>3, Zenon
    <3> QED BY <3>1, <3>2, Zenon DEF InputStep, Writing
  <2>4. CASE c # d
    BY <1>0, <2>1, <2>2, <2>4 DEF InputStep, Kept
  <2> QED BY <2>3, <2>4
<1> QED BY <1>1, <1>2, <1>3, <1>4, <1>5

\* Every step is one of these to what each client has written.
LEMMA StepOfInput ==
  ASSUME TypeInv, OwedTypes, [Next]_vars, NEW c \in Client
  PROVE  InputStep(c)
<1>1. CASE UNCHANGED vars
  BY <1>1, KeptInput DEF vars, sessionVars, linkVars, historyVars, InputStep
<1>2. CASE PollReturns \/ AcceptClients \/ Starts
  BY <1>2, KeptInput DEF PollReturns, AcceptClients, Starts, sessionVars, linkVars, historyVars, InputStep
<1>3. ASSUME NEW d \in Client, Handle(d) PROVE InputStep(c)
  BY <1>3, HandlerInput, RequestInput DEF Handle, InputStep
<1>4. CASE Publish \/ Ends
  BY <1>4, PublishInput, EndsInput DEF InputStep
<1>5. ASSUME NEW d \in Client,
             \/ Connect(d) \/ EndLine(d) \/ Hear(d) \/ Leave(d)
             \/ \E w \in Writes[d] : StartLine(d, w)
      PROVE  InputStep(c)
  BY <1>5, VisitInput
<1> QED BY <1>1, <1>2, <1>3, <1>4, <1>5, Zenon DEF Next, Daemon

\* What is owed stays a function of the clients.
LEMMA OwedStep ==
  ASSUME OwedTypes, [Next]_vars
  PROVE  OwedTypes'
<1>1. ASSUME NEW d \in Client, NEW x, owed' = [owed EXCEPT ![d] = x] PROVE OwedTypes'
  BY <1>1 DEF OwedTypes
<1>2. ASSUME NEW d, owed' = Clear(owed, {d}) PROVE OwedTypes'
  BY <1>2 DEF OwedTypes, Clear
<1>3. ASSUME owed' = owed PROVE OwedTypes'
  BY <1>3 DEF OwedTypes
<1>4. ASSUME NEW d \in Client, NEW line, NEW S, Answer(d, line, S) PROVE OwedTypes'
  <2>1. owed' = [owed EXCEPT ![d] = IF Fails(d) THEN owed[d] ELSE Tail(owed[d])]
    BY <1>4 DEF Answer
  <2> QED BY <1>1, <2>1
<1>5. ASSUME NEW d \in Client, Handle(d) PROVE OwedTypes'
  <2>1. CASE HangUp(d) \/ Serve(d) \/ Recv(d)
    BY <1>3, <2>1 DEF HangUp, Serve, Recv, Serving
  <2>2. CASE Subscribe(d) \/ Unsubscribe(d) \/ Status(d) \/ Command(d)
    BY <1>4, <2>2 DEF Subscribe, Unsubscribe, Status, Command
  <2> QED BY <1>5, <2>1, <2>2 DEF Handle
<1>6. CASE UNCHANGED vars \/ PollReturns \/ AcceptClients \/ Publish \/ Starts \/ Ends
  BY <1>3, <1>6 DEF vars, historyVars, PollReturns, AcceptClients, Publish, Starts, Ends
<1>7. ASSUME NEW d \in Client, Connect(d) \/ EndLine(d) \/ Hear(d) \/ Leave(d) PROVE OwedTypes'
  BY <1>2, <1>3, <1>7 DEF Connect, EndLine, Hear, Leave, Forgets, historyVars
<1>8. ASSUME NEW d \in Client, NEW w, StartLine(d, w) PROVE OwedTypes'
  <2>1. owed' = [owed EXCEPT ![d] = Append(owed[d], w)]
    BY <1>8 DEF StartLine
  <2> QED BY <1>1, <2>1
<1> QED BY <1>5, <1>6, <1>7, <1>8, Zenon DEF Next, Daemon

\* ... and in no step of the connection's once the daemon has closed it.
LEMMA OwedFrozen ==
  ASSUME TypeInv, OwedTypes, [Next]_vars, NEW c \in Client,
         conn[c] = "serverClosed", conn'[c] = "serverClosed"
  PROVE  owed'[c] = owed[c]
<1>1. ASSUME NEW d \in Client, NEW x, d # c, owed' = [owed EXCEPT ![d] = x] PROVE owed'[c] = owed[c]
  BY <1>1, Zenon DEF OwedTypes
<1>2. ASSUME NEW d \in Client, d # c, owed' = Clear(owed, {d}) PROVE owed'[c] = owed[c]
  BY <1>2, ClearIs
<1>3. conn \in [Client -> Kinds] /\ c \notin open
  BY DEF TypeInv, Types, Loop
<1>4. ASSUME NEW d \in Client, NEW line, NEW S, reading = {d}, Answer(d, line, S) PROVE owed'[c] = owed[c]
  <2>1. owed' = [owed EXCEPT ![d] = IF Fails(d) THEN owed[d] ELSE Tail(owed[d])]
    BY <1>4 DEF Answer
  <2>2. d # c
    BY <1>3, <1>4 DEF TypeInv, Loop
  <2> QED BY <1>1, <2>1, <2>2
<1>5. ASSUME NEW d \in Client, Handle(d) PROVE owed'[c] = owed[c]
  <2>1. CASE HangUp(d) \/ Serve(d) \/ Recv(d)
    BY <2>1 DEF HangUp, Serve, Recv, Serving
  <2>2. CASE Subscribe(d) \/ Unsubscribe(d) \/ Status(d) \/ Command(d)
    <3>1. reading = {d} /\ \E line, S : Answer(d, line, S)
      BY <2>2 DEF Subscribe, Unsubscribe, Status, Command, Request
    <3> QED BY <1>4, <3>1
  <2> QED BY <1>5, <2>1, <2>2 DEF Handle
<1>6. CASE UNCHANGED vars \/ PollReturns \/ AcceptClients \/ Publish \/ Starts \/ Ends
  BY <1>6 DEF vars, historyVars, PollReturns, AcceptClients, Publish, Starts, Ends
<1>7. ASSUME NEW d \in Client, EndLine(d) \/ Hear(d) PROVE owed'[c] = owed[c]
  BY <1>7 DEF EndLine, Hear, historyVars
<1>8. ASSUME NEW d \in Client, Connect(d) PROVE owed'[c] = owed[c]
  <2>1. conn' = [conn EXCEPT ![d] = "up"] /\ owed' = Clear(owed, {d})
    BY <1>8 DEF Connect, Forgets
  <2>2. conn'[d] = "up"
    BY <1>3, <2>1, Zenon
  <2>3. d # c
    BY <2>2
  <2> QED BY <1>2, <2>1, <2>3
<1>9. ASSUME NEW d \in Client, Leave(d) PROVE owed'[c] = owed[c]
  <2>1. conn[d] = "up" /\ owed' = Clear(owed, {d})
    BY <1>9 DEF Leave, Forgets
  <2>2. d # c
    BY <2>1
  <2> QED BY <1>2, <2>1, <2>2
<1>10. ASSUME NEW d \in Client, NEW w, StartLine(d, w) PROVE owed'[c] = owed[c]
  <2>1. conn[d] = "up" /\ owed' = [owed EXCEPT ![d] = Append(owed[d], w)]
    BY <1>10 DEF StartLine
  <2>2. d # c
    BY <2>1
  <2> QED BY <1>1, <2>1, <2>2
<1> QED BY <1>5, <1>6, <1>7, <1>8, <1>9, <1>10, Zenon DEF Next, Daemon

\* What c has yet to write.
LEMMA EndingIs ==
  ASSUME NEW c
  PROVE  Ending(c) \in Texts /\ Ending(c) = IF c \in midLine THEN <<NewLine>> ELSE <<>>
<1>1. NewLine \in Symbols
  BY IpcAssumption DEF NewLine, Symbol, Symbols
<1>2. <<NewLine>> \in Texts /\ <<>> \in Texts
  BY <1>1 DEF Texts
<1> QED BY <1>2 DEF Ending

\* What c has written, when the daemon takes a line of it, ...
LEMMA InputTaken ==
  ASSUME TypeInv, NEW c \in Client, InputOf(c), Taken(c)
  PROVE  InputOf(c)'
<1> DEFINE u == Unread(c)
           v == inBuf'[c] \o toServer'[c]
           e == Ending(c)
<1>1. inBuf[c] \in Texts /\ toServer[c] \in Texts
  BY DEF TypeInv, Types
<1>2. HasLine(inBuf[c] \o toServer[c]) /\ Rest(inBuf[c]) \o toServer[c] = Rest(inBuf[c] \o toServer[c])
  BY <1>1, RestOfMore DEF Taken
<1>3. u \in Texts /\ HasLine(u) /\ v = Rest(u) /\ e \in Texts
  <2>1. u \in Texts
    BY <1>1, ConcatProperties DEF Unread, Texts
  <2>2. v = Rest(inBuf[c]) \o toServer[c]
    BY DEF Taken
  <2> QED BY <1>2, <2>1, <2>2, EndingIs, Zenon DEF Unread
<1>4. owed[c] \in Seq(Lines) /\ u \o e = Text(owed[c])
  BY DEF InputOf, Taken
<1>5. conn'[c] = "up" /\ owed'[c] = Tail(owed[c]) /\ Ending(c)' = e
  BY DEF Taken, Ending
<1>6. Unread(c)' = v
  BY DEF Unread
<1> HIDE DEF u, v, e
<1>7. HasLine(u \o e) /\ Rest(u) \o e = Rest(u \o e)
  BY <1>3, RestOfMore
<1>8. owed[c] # <<>>
  <2>1. ~HasLine(<<>>)
    BY DEF HasLine
  <2> QED BY <1>4, <1>7, <2>1, TextOfNothing
<1>9. /\ owed[c][1] \in Lines /\ Tail(owed[c]) \in Seq(Lines) /\ Text(Tail(owed[c])) \in Texts
      /\ Text(owed[c]) = Whole(owed[c][1]) \o Text(Tail(owed[c]))
  BY <1>4, <1>8, TextOfFirst
<1>10. Rest(Text(owed[c])) = Text(Tail(owed[c]))
  <2>1. Rest(Whole(owed[c][1]) \o Text(Tail(owed[c]))) = Text(Tail(owed[c]))
    BY <1>9, RestOfLine
  <2> QED BY <1>9, <2>1, Zenon
<1>11. v \o e = Text(owed'[c])
  BY <1>3, <1>4, <1>5, <1>7, <1>10, Zenon
<1> QED BY <1>5, <1>6, <1>9, <1>11 DEF InputOf

\* ... and when c writes to it.
LEMMA InputStarted ==
  ASSUME TypeInv, NEW c \in Client, InputOf(c), conn[c] = "up", conn'[c] = "up",
         inBuf'[c] = inBuf[c], c \notin midLine, c \in midLine', NEW w \in Writes[c],
         toServer'[c] = toServer[c] \o Body(w), owed'[c] = Append(owed[c], w)
  PROVE  InputOf(c)'
<1> DEFINE u == Unread(c)
<1>1. inBuf[c] \in Texts /\ toServer[c] \in Texts
  BY DEF TypeInv, Types
<1>2. w \in Lines /\ Body(w) \in Texts /\ NewLine \in Symbols
  BY WritesLines, BodyTypes
<1>3. u \in Texts
  BY <1>1, ConcatProperties DEF Unread, Texts
<1>4. Unread(c)' = u \o Body(w)
  <2>1. Unread(c)' = inBuf[c] \o (toServer[c] \o Body(w))
    BY DEF Unread
  <2> QED BY <1>1, <1>2, <2>1, Associative DEF Unread
<1>5. owed[c] \in Seq(Lines) /\ u = Text(owed[c])
  <2>1. owed[c] \in Seq(Lines) /\ u \o <<>> = Text(owed[c])
    BY DEF InputOf, Ending
  <2>2. u \o <<>> = u
    BY <1>3 DEF Texts
  <2> QED BY <2>1, <2>2
<1> HIDE DEF u
<1>6. Append(owed[c], w) \in Seq(Lines) /\ Text(Append(owed[c], w)) = Text(owed[c]) \o Whole(w)
  BY <1>2, <1>5, TextOfMore
<1>7. (u \o Body(w)) \o <<NewLine>> = u \o Append(Body(w), NewLine)
  BY <1>2, <1>3, ConcatOfAppend
<1>8. Ending(c)' = <<NewLine>>
  BY DEF Ending
<1>9. (u \o Body(w)) \o <<NewLine>> = Text(owed'[c])
  BY <1>5, <1>6, <1>7, Zenon DEF Whole
<1> QED BY <1>4, <1>6, <1>8, <1>9 DEF InputOf

\* Writing the newline ends the line c is in, the last of those owed.
LEMMA InputEnded ==
  ASSUME TypeInv, NEW c \in Client, InputOf(c), conn[c] = "up", conn'[c] = "up",
         inBuf'[c] = inBuf[c], c \in midLine, c \notin midLine',
         toServer'[c] = Append(toServer[c], NewLine), owed'[c] = owed[c]
  PROVE  InputOf(c)'
<1> DEFINE u == Unread(c)
<1>1. inBuf[c] \in Texts /\ toServer[c] \in Texts
  BY DEF TypeInv, Types
<1>2. NewLine \in Symbols
  BY IpcAssumption DEF NewLine, Symbol, Symbols
<1>3. u \in Texts
  BY <1>1, ConcatProperties DEF Unread, Texts
<1>4. Unread(c)' = u \o <<NewLine>>
  <2>1. Unread(c)' = inBuf[c] \o Append(toServer[c], NewLine)
    BY DEF Unread
  <2>2. (inBuf[c] \o toServer[c]) \o <<NewLine>> = inBuf[c] \o Append(toServer[c], NewLine)
    BY <1>1, <1>2, ConcatOfAppend
  <2> QED BY <2>1, <2>2 DEF Unread
<1>5. owed[c] \in Seq(Lines) /\ u \o <<NewLine>> = Text(owed[c])
  BY DEF InputOf, Ending
<1> HIDE DEF u
<1>6. u \o <<NewLine>> \in Texts
  BY <1>2, <1>3 DEF Texts
<1>7. (u \o <<NewLine>>) \o <<>> = u \o <<NewLine>>
  BY <1>6 DEF Texts
<1>8. Ending(c)' = <<>>
  BY DEF Ending
<1> QED BY <1>4, <1>5, <1>7, <1>8 DEF InputOf

\* So it stays what is owed.
LEMMA InputKept ==
  ASSUME TypeInv, NEW c \in Client, InputOf(c), InputStep(c)
  PROVE  InputOf(c)'
<1>1. CASE Kept(c)
  <2>0. Ending(c)' = Ending(c)
    BY <1>1 DEF Kept, Ending
  <2>1. CASE inBuf'[c] = inBuf[c] /\ toServer'[c] = toServer[c]
    <3>1. Unread(c)' = Unread(c)
      BY <2>1 DEF Unread
    <3> QED BY <1>1, <2>0, <2>1, <3>1 DEF InputOf, Kept
  <2>2. CASE conn[c] = "up" /\ Unread(c)' = Unread(c)
    BY <1>1, <2>0, <2>2 DEF InputOf, Kept
  <2> QED BY <1>1, <2>1, <2>2 DEF Kept
<1>2. CASE Taken(c)
  BY <1>2, InputTaken
<1>3. CASE Forgotten(c)
  BY <1>3 DEF InputOf, Forgotten
<1>4. CASE Opens(c)
  <2>1. inBuf'[c] = <<>> /\ toServer'[c] = <<>> /\ conn'[c] = "up" /\ owed'[c] = <<>> /\ c \notin midLine'
    BY <1>4 DEF Opens, InputOf
  <2>2. Unread(c)' = <<>> /\ Ending(c)' = <<>>
    BY <2>1 DEF Unread, Ending
  <2>3. <<>> \in Seq(Lines) /\ <<>> \o <<>> = <<>>
    OBVIOUS
  <2> QED BY <2>1, <2>2, <2>3, TextOfNothing DEF InputOf
<1>5. CASE Writing(c)
  <2>1. conn[c] = "up" /\ conn'[c] = "up" /\ inBuf'[c] = inBuf[c]
    BY <1>5 DEF Writing
  <2>2. ASSUME NEW w \in Writes[c], c \notin midLine, c \in midLine',
               toServer'[c] = toServer[c] \o Body(w), owed'[c] = Append(owed[c], w)
        PROVE  InputOf(c)'
    BY <2>1, <2>2, InputStarted
  <2>3. CASE /\ c \in midLine /\ c \notin midLine'
             /\ toServer'[c] = Append(toServer[c], NewLine) /\ owed'[c] = owed[c]
    BY <2>1, <2>3, InputEnded
  <2> QED BY <1>5, <2>2, <2>3, Zenon DEF Writing
<1> QED BY <1>1, <1>2, <1>3, <1>4, <1>5 DEF InputStep

\* At every moment the bytes not taken are those of the lines owed an answer.
LEMMA InputsInvariant == Spec => []Inputs
<1>1. Init => Inputs
  <2> SUFFICES ASSUME Init PROVE Inputs
    OBVIOUS
  <2>1. OwedTypes /\ \A c \in Client : inBuf[c] = <<>> /\ toServer[c] = <<>> /\ conn[c] = "none"
    BY DEF Init, Empty, OwedTypes
  <2> QED BY <2>1 DEF Inputs, InputOf
<1>2. TypeInv /\ Inputs /\ [Next]_vars => Inputs'
  <2> SUFFICES ASSUME TypeInv, Inputs, [Next]_vars PROVE Inputs'
    OBVIOUS
  <2>1. ASSUME NEW c \in Client PROVE InputOf(c)'
    BY StepOfInput, InputKept DEF Inputs
  <2> QED BY <2>1, OwedStep DEF Inputs
<1> QED BY <1>1, <1>2, TypesInvariant, PTL DEF Spec

\* What was given c, if it is a refusal, was one of a line that may be refused.
HasErr(s) == \E i \in 1 .. Len(s) : s[i].k = "err"
JustlyOf(c) == HasErr(due[c]) => conn[c] = "serverClosed" /\ Refusable(owed[c])

\* What passes the limit is the first line owed, which alone or with what one
\* recv() took behind it is too long.
LEMMA RefusedIs ==
  ASSUME TypeInv, NEW c \in Client, InputOf(c), conn[c] = "up", Refused(c)
  PROVE  Refusable(owed[c])
<1> DEFINE n == Lesser(ReadSize, Len(toServer[c]))
           b == inBuf[c]
           x == Take(toServer[c], n)
           y == Drop(toServer[c], n)
           e == Ending(c)
           ws == owed[c]
<1>1. b \in Texts /\ toServer[c] \in Texts /\ e \in Texts
  BY EndingIs DEF TypeInv, Types
<1>2. Len(toServer[c]) \in Nat /\ n \in Nat /\ n <= ReadSize /\ ReadSize \in Nat /\ MaxLine \in Nat
  BY <1>1, LenProperties, IpcAssumption DEF Lesser, Texts
<1>3. ws \in Seq(Lines) /\ (b \o toServer[c]) \o e = Text(ws)
  BY DEF InputOf, Unread
<1>4. ~HasLine(b) /\ Len(b \o x) > MaxLine
  BY DEF Refused
<1> HIDE DEF n
<1>5. x \in Texts /\ y \in Texts /\ Len(x) <= n /\ x \o y = toServer[c]
  BY <1>1, <1>2, TakeDrop DEF Texts
<1> HIDE DEF b, x, y, e, ws
<1>6. /\ Len(b) \in Nat /\ Len(x) \in Nat /\ Len(y) \in Nat /\ Len(e) \in Nat
      /\ Len(b \o x) = Len(b) + Len(x)
  BY <1>1, <1>5, LenProperties, ConcatProperties DEF Texts
<1> DEFINE t == toServer[c] \o e
<1>7. /\ t \in Texts /\ b \o t = Text(ws) /\ Len(toServer[c]) = Len(x) + Len(y)
      /\ Len(b \o t) = Len(b) + (Len(toServer[c]) + Len(e))
  <2>1. (b \o toServer[c]) \o e = b \o (toServer[c] \o e)
    BY <1>1, Associative
  <2>2. t \in Texts /\ Len(t) = Len(toServer[c]) + Len(e)
    BY <1>1, ConcatProperties DEF Texts
  <2>3. Len(x \o y) = Len(x) + Len(y)
    BY <1>5, ConcatProperties DEF Texts
  <2> HIDE DEF t
  <2>4. Len(b \o t) = Len(b) + Len(t)
    BY <1>1, <2>2, ConcatProperties DEF Texts
  <2> QED BY <1>3, <1>5, <2>1, <2>2, <2>3, <2>4 DEF t
<1> HIDE DEF t
<1>8. ws # <<>>
  <2>1. Len(Text(ws)) > 0
    BY <1>2, <1>4, <1>6, <1>7
  <2>2. Len(<<>>) = 0
    OBVIOUS
  <2> QED BY <2>1, <2>2, TextOfNothing
<1>9. /\ ws[1] \in Lines /\ Text(Tail(ws)) \in Texts
      /\ Text(ws) = Whole(ws[1]) \o Text(Tail(ws))
      /\ Len(ws) = 1 => Text(ws) = Whole(ws[1])
  BY <1>3, <1>8, TextOfFirst
<1>10. Len(b) <= ws[1].n
  <2>1. \A p, q \in Texts : p \o q = Whole(ws[1]) \o Text(Tail(ws)) /\ ~HasLine(p) => Len(p) <= ws[1].n
    BY <1>9, RestOfLine
  <2> QED BY <1>1, <1>4, <1>7, <1>9, <2>1, Zenon
<1>11. ws[1].n \in Nat /\ Len(Whole(ws[1])) = ws[1].n + 1
  BY <1>9, WholeIs
<1>12. ws[1].n + ReadSize > MaxLine
  BY <1>2, <1>4, <1>5, <1>6, <1>10, <1>11
<1>13. Len(ws) = 1 => ws[1].n + 1 > MaxLine
  <2> SUFFICES ASSUME Len(ws) = 1 PROVE ws[1].n + 1 > MaxLine
    OBVIOUS
  <2>1. Len(Text(ws)) = ws[1].n + 1
    BY <1>9, <1>11
  <2>2. Len(Text(ws)) = Len(b) + ((Len(x) + Len(y)) + Len(e))
    BY <1>7
  <2> QED BY <1>2, <1>4, <1>6, <1>11, <2>1, <2>2
<1>14. Len(ws) \in Nat \ {0}
  BY <1>3, <1>8
<1>15. Len(ws) = 1 \/ Len(ws) > 1
  <2>1. \A k \in Nat \ {0} : k = 1 \/ k > 1
    OBVIOUS
  <2> QED BY <1>14, <2>1, Zenon
<1> QED BY <1>8, <1>12, <1>13, <1>15 DEF Refusable, ws

\* What has a refusal in it, of two pieces, has it in one.
LEMMA ErrOfConcat ==
  ASSUME NEW s \in Texts, NEW t \in Texts, HasErr(s \o t)
  PROVE  HasErr(s) \/ HasErr(t)
<1>1. PICK i \in 1 .. Len(s \o t) : (s \o t)[i].k = "err"
  BY DEF HasErr
<1>2. /\ Len(s) \in Nat /\ Len(t) \in Nat /\ Len(s \o t) = Len(s) + Len(t)
      /\ (s \o t)[i] = IF i <= Len(s) THEN s[i] ELSE t[i - Len(s)]
  BY ConcatProperties, LenProperties DEF Texts
<1>3. CASE i <= Len(s)
  <2>1. i \in 1 .. Len(s) /\ s[i].k = "err"
    BY <1>1, <1>2, <1>3
  <2> QED BY <2>1 DEF HasErr
<1>4. CASE ~(i <= Len(s))
  <2>1. i - Len(s) \in 1 .. Len(t) /\ t[i - Len(s)].k = "err"
    BY <1>1, <1>2, <1>4
  <2> QED BY <2>1 DEF HasErr
<1> QED BY <1>3, <1>4

\* What is left of a piece has no refusal it did not have.
LEMMA ErrOfDrop ==
  ASSUME NEW s \in Texts, NEW n \in Nat, HasErr(Drop(s, n))
  PROVE  HasErr(s)
<1> DEFINE a == Take(s, n)
           b == Drop(s, n)
<1>1. a \in Texts /\ b \in Texts /\ a \o b = s
  BY TakeDrop DEF Texts
<1> HIDE DEF a, b
<1>2. PICK i \in 1 .. Len(b) : b[i].k = "err"
  BY DEF HasErr, b
<1>3. /\ Len(a) \in Nat /\ Len(b) \in Nat /\ Len(a \o b) = Len(a) + Len(b)
      /\ (a \o b)[Len(a) + i] = b[i]
  BY <1>1 DEF Texts
<1>4. Len(a) + i \in 1 .. Len(s) /\ s[Len(a) + i].k = "err"
  BY <1>1, <1>2, <1>3
<1> QED BY <1>4 DEF HasErr

\* No step refuses a line that may not be, and what is refused stays refused.
LEMMA JustlyStep ==
  ASSUME TypeInv, Inputs, [Next]_vars, NEW c \in Client, ClientStep(c), JustlyOf(c)
  PROVE  JustlyOf(c)'
<1> SUFFICES ASSUME HasErr(due'[c])
             PROVE  conn'[c] = "serverClosed" /\ Refusable(owed'[c])
  BY DEF JustlyOf
<1>1. due[c] \in Texts /\ toClient[c] \in Texts
  BY DEF TypeInv, Types
<1>2. ASSUME HasErr(due[c]), conn'[c] = conn[c]
      PROVE  conn'[c] = "serverClosed" /\ Refusable(owed'[c])
  <2>1. conn[c] = "serverClosed" /\ Refusable(owed[c])
    BY <1>2 DEF JustlyOf
  <2>2. owed'[c] = owed[c]
    BY <1>2, <2>1, OwedFrozen DEF Inputs
  <2> QED BY <1>2, <2>1, <2>2
<1>3. CASE Unmoved(c)
  BY <1>2, <1>3 DEF Unmoved
<1>4. CASE Begins(c) \/ Parts(c)
  <2>1. ~HasErr(<<>>)
    BY DEF HasErr
  <2> QED BY <1>4, <2>1 DEF Begins, Parts
<1>5. CASE Closed(c)
  BY <1>5 DEF Closed, JustlyOf
<1>6. CASE Hears(c)
  <2>1. Len(toClient[c]) \in Nat
    BY <1>1, LenProperties DEF Texts
  <2>2. HasErr(due[c])
    BY <1>1, <1>6, <2>1, ErrOfDrop DEF Hears
  <2> QED BY <1>2, <1>6, <2>2 DEF Hears
<1>7. CASE Queued(c)
  <2>1. PICK line \in Texts : conn[c] = "up" /\ due'[c] = due[c] \o line /\ GivenLine(c, line)
    BY <1>7, Zenon DEF Queued
  <2>2. ~HasErr(due[c])
    BY <2>1 DEF JustlyOf
  <2>3. HasErr(line)
    BY <1>1, <2>1, <2>2, ErrOfConcat
  <2>4. ASSUME NEW k \in {"state", "push", "ok"}, NEW v, line = Line(k, v) PROVE FALSE
    <3>1. \A i \in 1 .. Len(line) : line[i].k # "err"
      BY <2>4 DEF Line, NewLine, Symbol
    <3> QED BY <2>3, <3>1 DEF HasErr
  <2>5. line # <<>>
    BY <2>3 DEF HasErr
  <2>6. Refused(c) /\ owed' = owed /\ conn'[c] = "serverClosed"
    BY <2>1, <2>4, <2>5, Zenon DEF GivenLine
  <2> QED BY <2>1, <2>6, RefusedIs DEF Inputs
<1> QED BY <1>3, <1>4, <1>5, <1>6, <1>7 DEF ClientStep

\* Requests written in one go, in pieces, or faster than they are read are
\* answered once each and in order: while the connection stands, the bytes
\* written and not taken are those of the requests not answered.  One is
\* refused as too long only when it is, its newline counted, or when it leaves
\* less room below the limit than one recv() takes and its writer did not wait
\* for the answer (IpcServer.cpp:330-341: 4096 and 2048).
THEOREM ServerAnswersInOrder == Spec => []AnswersInOrder
<1> DEFINE Justly == \A c \in Client : JustlyOf(c)
<1>1. Init => Justly
  BY DEF Init, Empty, JustlyOf, HasErr
<1>2. TypeInv /\ Inputs /\ Justly /\ [Next]_vars => Justly'
  <2> SUFFICES ASSUME TypeInv, Inputs, Justly, [Next]_vars, NEW c \in Client PROVE JustlyOf(c)'
    OBVIOUS
  <2> QED BY StepOfClient, JustlyStep
<1>3. Inputs /\ Justly => AnswersInOrder
  BY DEF Inputs, InputOf, Unread, JustlyOf, HasErr, AnswersInOrder
<1> HIDE DEF Justly
<1> QED BY <1>1, <1>2, <1>3, TypesInvariant, InputsInvariant, PTL DEF Spec

=============================================================================
