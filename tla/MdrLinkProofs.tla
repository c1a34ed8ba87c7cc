---------------------------- MODULE MdrLinkProofs ----------------------------
(***************************************************************************)
(* Theorems about the queue and the queue wired to a headset, for every    *)
(* number of commands and links, every queue size and every retry budget:  *)
(* the queue's invariants hold whatever arrives; the link drives the queue *)
(* through its interface only, so what is proved of the queue holds in it; *)
(* nothing of an old link is ever sent on a new one; and if ACKs are never *)
(* late, one command is outstanding at a time and none is lost silently.   *)
(***************************************************************************)
EXTENDS MdrLink, TLAPS

-----------------------------------------------------------------------------
(* 1. The queue, whatever arrives and whenever sends fail. *)

\* The inductive invariant.  That a closed link has nothing on its wire is
\* needed for wire' in a tick that runs after SIGUSR1.
QInv == /\ QTypeOK
        /\ NoStall
        /\ QueueBounded
        /\ NoBacklog
        /\ ~linked => wire = <<>>

USE QueueAssumption DEF QueueAssumption, Bit, Frame

\* Frames are what the wire carries.
LEMMA FrameType ==
  ASSUME NEW c \in Command, NEW b \in Bit
  PROVE  DataFrame(c, b) \in Frame /\ AckFrame(b) \in Frame
BY DEF DataFrame, AckFrame, Command

\* A sequence of commands in which no coalescing label occurs twice.
NoRepeats(p) == \A i, j \in 1 .. Len(p) :
                  p[i].what = p[j].what /\ p[i].what \in Coalescing => i = j

\* An empty queue satisfies the invariant, on an open link or a closed one.
LEMMA EmptySafe ==
  ASSUME pending' = <<>>, inFlight' = NoCommand, seq' \in Bit, retries' \in 0 .. MaxRetries,
         linked' \in BOOLEAN, wire' \in Seq(Frame), ~linked' => wire' = <<>>
  PROVE  QInv'
<1>1. QTypeOK'
  BY DEF QTypeOK
<1>2. NoStall' /\ QueueBounded' /\ NoBacklog'
  BY DEF NoStall, QueueBounded, NoBacklog
<1>3. QED BY <1>1, <1>2 DEF QInv

\* Losing the link leaves an empty queue (scheduleReconnect, onDisconnected).
LEMMA DropLinkSafe == ASSUME QInv, DropLink PROVE QInv'
<1>1. pending' = <<>> /\ inFlight' = NoCommand /\ seq' \in Bit /\ retries' \in 0 .. MaxRetries
  BY DEF DropLink, Reset
<1>2. linked' \in BOOLEAN
  BY DEF DropLink
<1>3. wire' = <<>> /\ wire' \in Seq(Frame)
  BY DEF DropLink
<1>4. QED BY <1>1, <1>2, <1>3, EmptySafe

\* Sending adds a frame to the wire of an open link and leaves a closed one empty.
LEMMA TransmitSafe ==
  ASSUME linked \in BOOLEAN, NEW c \in Command, NEW s \in Bit, NEW w \in Seq(Frame),
         ~linked => w = <<>>, Transmit(c, s, w)
  PROVE  linked' \in BOOLEAN /\ wire' \in Seq(Frame) /\ (~linked' => wire' = <<>>)
<1>1. DataFrame(c, s) \in Frame
  BY FrameType
<1>2. linked' = linked /\ linked' \in BOOLEAN
  BY DEF Transmit
<1>3. CASE linked
  <2>1. wire' = Append(w, DataFrame(c, s))
    BY <1>3 DEF Transmit
  <2>2. wire' \in Seq(Frame)
    BY <1>1, <2>1
  <2>3. QED BY <1>2, <1>3, <2>2
<1>4. CASE ~linked
  <2>1. wire' = w
    BY <1>4 DEF Transmit
  <2>2. QED BY <1>2, <1>4, <2>1
<1>5. QED BY <1>3, <1>4

\* pump() keeps the invariant whenever the commands it is given would fit.
LEMMA PumpSafe ==
  ASSUME QInv, NEW p \in Seq(Command), NEW s \in Bit, NEW w \in Seq(Frame),
         NoRepeats(p), Len(p) <= MaxPending + 1, ~linked => w = <<>>,
         Pump(p, s, w)
  PROVE  QInv'
<1>1. CASE PumpNothing(p, s, w)
  BY <1>1, EmptySafe DEF PumpNothing, QInv, QTypeOK
<1>2. CASE p # <<>> /\ DropLink
  BY <1>2, DropLinkSafe
<1>3. CASE /\ p # <<>>
           /\ pending' = Tail(p)
           /\ inFlight' = Head(p)
           /\ seq' = s
           /\ retries' = 0
           /\ Transmit(Head(p), s, w)
  <2>1. Head(p) \in Command /\ Tail(p) \in Seq(Command) /\ Len(Tail(p)) = Len(p) - 1
    BY <1>3
  <2>2. DataFrame(Head(p), s) \in Frame
    BY <2>1, FrameType
  <2>3. linked' \in BOOLEAN /\ wire' \in Seq(Frame) /\ (~linked' => wire' = <<>>)
    <3>1. linked \in BOOLEAN
      BY DEF QInv, QTypeOK
    <3>2. QED BY <1>3, <2>1, <3>1, TransmitSafe
  <2>4. QTypeOK'
    BY <1>3, <2>1, <2>3 DEF QTypeOK, Transmit
  <2>5. NoStall' /\ QueueBounded'
    BY <1>3, <2>1 DEF NoStall, QueueBounded, Command
  <2>6. NoBacklog'
    <3>1. \A i \in 1 .. Len(Tail(p)) : Tail(p)[i] = p[i + 1] /\ i + 1 \in 1 .. Len(p)
      BY <1>3
    <3>2. QED BY <1>3, <2>1, <3>1 DEF NoBacklog, NoRepeats
  <2>7. QED BY <2>3, <2>4, <2>5, <2>6 DEF QInv
<1>4. QED BY <1>1, <1>2, <1>3 DEF Pump

\* A command that joins the queue leaves no label repeated.
LEMMA JoinNoRepeats ==
  ASSUME QInv, NEW c \in Command, Joins(c)
  PROVE  /\ Append(pending, c) \in Seq(Command)
         /\ Len(Append(pending, c)) = Len(pending) + 1
         /\ NoRepeats(Append(pending, c))
<1> DEFINE p == Append(pending, c)
<1>1. pending \in Seq(Command)
  BY DEF QInv, QTypeOK
<1>2. p \in Seq(Command) /\ Len(p) = Len(pending) + 1 /\ p[Len(pending) + 1] = c
  BY <1>1
<1>3. \A i \in 1 .. Len(pending) : p[i] = pending[i]
  BY <1>1
<1>4. \A i \in 1 .. Len(pending) : p[i].what = c.what => c.what \notin Coalescing
  BY <1>3 DEF Joins, Waiting
<1>5. ASSUME NEW i \in 1 .. Len(p), NEW j \in 1 .. Len(p),
             p[i].what = p[j].what, p[i].what \in Coalescing
      PROVE  i = j
  <2>1. CASE i \in 1 .. Len(pending) /\ j \in 1 .. Len(pending)
    BY <1>3, <1>5, <2>1 DEF QInv, NoBacklog
  <2>2. CASE i = Len(p) \/ j = Len(p)
    BY <1>1, <1>2, <1>4, <1>5, <2>2
  <2>3. QED BY <1>1, <1>2, <2>1, <2>2
<1>6. QED BY <1>2, <1>5 DEF NoRepeats

\* enqueue() keeps the invariant in each of its three outcomes.
LEMMA EnqueueSafe ==
  ASSUME QInv, linked, NEW c \in Command, NEW w \in Seq(Frame), Enqueue(c, w)
  PROVE  QInv'
<1> USE DEF QInv, QTypeOK
<1>1. CASE EnqueueCoalesced(c, w)
  <2>1. PICK i \in Waiting(c.what) : pending' = [pending EXCEPT ![i] = c]
    BY <1>1 DEF EnqueueCoalesced
  <2>2. i \in 1 .. Len(pending) /\ pending[i].what = c.what
    BY <2>1 DEF Waiting
  <2>3. /\ pending' \in Seq(Command)
        /\ Len(pending') = Len(pending)
        /\ \A j \in 1 .. Len(pending) : pending'[j].what = pending[j].what
    BY <2>1, <2>2
  <2>4. NoStall' /\ QueueBounded' /\ NoBacklog'
    BY <1>1, <2>2, <2>3 DEF EnqueueCoalesced, NoStall, QueueBounded, NoBacklog
  <2>5. QED BY <1>1, <2>3, <2>4 DEF EnqueueCoalesced
<1>2. CASE EnqueueFull(c, w)
  BY <1>2 DEF EnqueueFull, queueVars, NoStall, QueueBounded, NoBacklog
<1>3. CASE EnqueueJoins(c, w)
  <2>1. Joins(c) /\ Len(pending) < MaxPending
    BY <1>3 DEF EnqueueJoins
  <2>2. CASE inFlight # NoCommand /\ pending' = Append(pending, c) /\ wire' = w
             /\ UNCHANGED <<inFlight, seq, retries, linked>>
    <3>1. NoBacklog'
      BY <2>1, <2>2, JoinNoRepeats DEF NoBacklog, NoRepeats
    <3>2. QED BY <2>1, <2>2, <3>1, JoinNoRepeats DEF NoStall, QueueBounded
  <2>3. CASE inFlight = NoCommand /\ Pump(Append(pending, c), seq, w)
    <3>1. Len(Append(pending, c)) <= MaxPending + 1
      BY <2>1, JoinNoRepeats
    <3>2. QED BY <2>1, <2>3, <3>1, JoinNoRepeats, PumpSafe
  <2>4. QED BY <1>3, <2>2, <2>3 DEF EnqueueJoins
<1>4. QED BY <1>1, <1>2, <1>3 DEF Enqueue

\* pump() after a command was settled keeps the invariant.
LEMMA ReleaseSafe ==
  ASSUME QInv, NEW s \in Bit, Pump(pending, s, wire)
  PROVE  QInv'
<1>1. pending \in Seq(Command) /\ wire \in Seq(Frame) /\ Len(pending) <= MaxPending + 1
  BY DEF QInv, QTypeOK, QueueBounded
<1>2. NoRepeats(pending) /\ (~linked => wire = <<>>)
  BY DEF QInv, NoBacklog, NoRepeats
<1>3. QED BY <1>1, <1>2, PumpSafe

LEMMA QStepSafe == QInv /\ [QNext]_qvars => QInv'
<1> SUFFICES ASSUME QInv, [QNext]_qvars PROVE QInv'
  OBVIOUS
<1> USE DEF QInv, QTypeOK
<1>1. ASSUME NEW c \in Command, linked, Enqueue(c, wire) PROVE QInv'
  BY <1>1, EnqueueSafe
<1>2. ASSUME NEW b \in Bit, OnAck(b) PROVE QInv'
  <2>1. CASE Pump(pending, b, wire)
    BY <2>1, ReleaseSafe
  <2>2. CASE inFlight = NoCommand /\ seq' = b /\ UNCHANGED <<pending, inFlight, retries, linkVars>>
    BY <2>2 DEF linkVars, NoStall, QueueBounded, NoBacklog
  <2>3. QED BY <1>2, <2>1, <2>2 DEF OnAck
<1>3. ASSUME NEW b \in Bit, OnData(b) PROVE QInv'
  <2>1. CASE DropLink
    BY <2>1, DropLinkSafe
  <2>2. CASE linked /\ OnFrameNotAck(b) /\ wire' = Append(wire, AckFrame(b)) /\ UNCHANGED linked
    <3>1. AckFrame(b) \in Frame
      BY DEF AckFrame
    <3>2. wire' \in Seq(Frame)
      BY <2>2, <3>1
    <3>3. QED BY <2>2, <3>2 DEF OnFrameNotAck, queueVars, NoStall, QueueBounded, NoBacklog
  <2>3. QED BY <1>3, <2>1, <2>2 DEF OnData
<1>4. ASSUME NEW b \in Bit, NEW c \in Command, OnAlert(b, c) PROVE QInv'
  <2>1. Append(wire, AckFrame(b)) \in Seq(Frame)
    BY DEF AckFrame
  <2>2. QED BY <1>4, <2>1, DropLinkSafe, EnqueueSafe DEF OnAlert
<1>5. CASE TickGivesUp
  BY <1>5, ReleaseSafe DEF TickGivesUp
<1>6. CASE TickResends
  <2>1. CASE DropLink
    BY <2>1, DropLinkSafe
  <2>2. CASE /\ inFlight # NoCommand /\ retries < MaxRetries
             /\ retries' = retries + 1 /\ seq' = 1 - seq
             /\ Transmit(inFlight, 1 - seq, wire)
             /\ UNCHANGED <<pending, inFlight>>
    <3>1. inFlight \in Command /\ 1 - seq \in Bit
      BY <2>2
    <3>2. wire' \in Seq(Frame) /\ linked' \in BOOLEAN /\ (~linked' => wire' = <<>>)
      BY <2>2, <3>1, TransmitSafe
    <3>3. retries' \in 0 .. MaxRetries /\ seq' \in Bit
      BY <2>2
    <3>4. QED BY <2>2, <3>2, <3>3 DEF NoStall, QueueBounded, NoBacklog
  <2>3. QED BY <1>6, <2>1, <2>2 DEF TickResends
<1>7. ASSUME NEW h \in Handshakes, OnConnected(h) PROVE QInv'
  <2>1. /\ h \in Seq(Command) /\ Len(h) \in 1 .. MaxPending + 1 /\ h # <<>>
        /\ Tail(h) \in Seq(Command) /\ Head(h) \in Command /\ Len(Tail(h)) = Len(h) - 1
        /\ \A i \in 1 .. Len(Tail(h)) : Tail(h)[i].what \notin Coalescing
    BY DEF Handshakes
  <2>2. DataFrame(Head(h), 0) \in Frame
    BY <2>1 DEF DataFrame
  <2>3. CASE Reset /\ UNCHANGED linkVars
    BY <2>3, EmptySafe DEF Reset, linkVars
  <2>4. CASE /\ linked' = TRUE /\ pending' = Tail(h) /\ inFlight' = Head(h) /\ seq' = 0
             /\ retries' = 0 /\ wire' = <<DataFrame(Head(h), 0)>>
    <3>1. wire' \in Seq(Frame)
      BY <2>2, <2>4
    <3>2. linked' \in BOOLEAN
      BY <2>4
    <3>3. NoBacklog'
      BY <2>1, <2>4 DEF NoBacklog
    <3>4. QueueBounded' /\ NoStall'
      BY <2>1, <2>4 DEF QueueBounded, NoStall, Command
    <3>5. QTypeOK'
      BY <2>1, <2>4, <3>1, <3>2
    <3>6. QED BY <2>4, <3>3, <3>4, <3>5
  <2>5. QED BY <1>7, <2>3, <2>4 DEF OnConnected
<1>8. CASE DropLink
  BY <1>8, DropLinkSafe
<1>9. CASE OnSigusr1
  <2>1. linked' \in BOOLEAN
    BY <1>9 DEF OnSigusr1
  <2>2. wire' = <<>> /\ wire' \in Seq(Frame)
    BY <1>9 DEF OnSigusr1
  <2>3. QTypeOK'
    BY <1>9, <2>1, <2>2 DEF OnSigusr1, queueVars
  <2>4. QED BY <1>9, <2>2, <2>3 DEF OnSigusr1, queueVars, NoStall, QueueBounded, NoBacklog
<1>10. CASE WireRead
  <2>1. wire' \in Seq(Frame)
    BY <1>10 DEF WireRead
  <2>2. QED BY <1>10, <2>1 DEF WireRead, queueVars, NoStall, QueueBounded, NoBacklog
<1>11. CASE UNCHANGED qvars
  BY <1>11 DEF qvars, queueVars, linkVars, NoStall, QueueBounded, NoBacklog
<1>12. QED
  BY <1>1, <1>2, <1>3, <1>4, <1>5, <1>6, <1>7, <1>8, <1>9, <1>10, <1>11 DEF QNext

\* The queue's type invariant and its three safety invariants, whatever the
\* headset sends and whenever sends fail.
THEOREM QueueInvariant == QSpec => []QInv
<1>1. QInit => QInv
  <2>1. SUFFICES ASSUME QInit PROVE QInv
    OBVIOUS
  <2>2. QTypeOK
    <3>1. linked \in BOOLEAN
      BY <2>1 DEF QInit
    <3>2. pending \in Seq(Command) /\ wire \in Seq(Frame)
      BY <2>1 DEF QInit
    <3>3. QED BY <2>1, <3>1, <3>2 DEF QInit, QTypeOK
  <2>3. NoStall /\ QueueBounded /\ NoBacklog /\ wire = <<>>
    BY <2>1 DEF QInit, NoStall, QueueBounded, NoBacklog
  <2>4. QED BY <2>2, <2>3 DEF QInv
<1>2. QED BY <1>1, QStepSafe, PTL DEF QSpec

HIDE QueueAssumption DEF QueueAssumption, Bit, Frame

-----------------------------------------------------------------------------
(* 2. The composed system drives the queue through its interface only.     *)

CountersOK == /\ issued \in Nat /\ firstOnLink \in Nat \ {0}
              /\ acks \in Seq(Bit) /\ expected \in Bit

LEMMA CountersStep == CountersOK /\ [Next]_vars => CountersOK'
<1> SUFFICES ASSUME CountersOK, [Next]_vars PROVE CountersOK'
  OBVIOUS
<1> USE DEF CountersOK
<1>a. ASSUME AcksSurvive PROVE acks' \in Seq(Bit)
  <2>1. acks' = <<>> \/ acks' = acks
    BY <1>a DEF AcksSurvive
  <2>2. <<>> \in Seq(Bit)
    OBVIOUS
  <2>3. QED BY <2>1, <2>2
<1>1. ASSUME NEW w \in UserWhat, Issue(w) PROVE CountersOK'
  BY <1>1, <1>a DEF Issue
<1>2. CASE ReceiveAck
  <2>1. acks' \in Seq(Bit)
    BY <1>2 DEF ReceiveAck
  <2>2. QED BY <1>2, <2>1 DEF ReceiveAck
<1>3. CASE ReceiveData
  BY <1>3, <1>a DEF ReceiveData
<1>4. CASE ReceiveAlert
  BY <1>4, <1>a DEF ReceiveAlert
<1>5. CASE Resend
  BY <1>5, <1>a DEF Resend
<1>6. CASE GiveUp
  BY <1>6, <1>a DEF GiveUp
<1>7. CASE Connect
  <2>1. Len(Handshake) \in Nat
    BY LinkAssumption DEF LinkAssumption
  <2>2. issued' \in Nat /\ firstOnLink' \in Nat \ {0}
    BY <1>7, <2>1 DEF Connect
  <2>3. acks' \in Seq(Bit)
    BY <1>7 DEF Connect
  <2>4. expected' \in Bit
    BY <1>7 DEF Connect, Bit
  <2>5. QED BY <2>2, <2>3, <2>4
<1>8. CASE Disconnect
  BY <1>8, <1>a DEF Disconnect
<1>9. CASE Sigusr1
  BY <1>9, <1>a DEF Sigusr1
<1>10. CASE HeadsetExecutes
  <2>1. 1 - expected \in Bit
    BY DEF Bit
  <2>2. acks' \in Seq(Bit)
    BY <1>10, <2>1 DEF HeadsetExecutes
  <2>3. expected' \in Bit
    BY <1>10, <2>1 DEF HeadsetExecutes
  <2>4. issued' \in Nat /\ firstOnLink' \in Nat \ {0}
    BY <1>10 DEF HeadsetExecutes
  <2>5. QED BY <2>2, <2>3, <2>4
<1>11. CASE HeadsetIgnores
  BY <1>11 DEF HeadsetIgnores, historyVars, headsetVars
<1>12. CASE UNCHANGED vars
  BY <1>12 DEF vars, historyVars, headsetVars
<1>13. QED
  BY <1>1, <1>2, <1>3, <1>4, <1>5, <1>6, <1>7, <1>8, <1>9, <1>10, <1>11, <1>12 DEF Next

\* The handshake is one the queue takes whole: it fits and nothing in it
\* coalesces.
LEMMA HandshakeOK ==
  ASSUME CountersOK, Connect
  PROVE  \E h \in Handshakes : /\ OnConnected(h)
                               /\ \A i \in 1 .. Len(h) : h[i].id > issued
<1> DEFINE h == [i \in 1 .. Len(Handshake) |-> [what |-> Handshake[i], id |-> issued + i]]
<1>1. /\ Handshake \in Seq(What \ Coalescing)
      /\ Len(Handshake) \in 1 .. MaxPending + 1
      /\ issued \in Nat
  BY LinkAssumption DEF LinkAssumption, CountersOK
<1>2. \A i \in 1 .. Len(Handshake) : h[i] \in Command /\ h[i].what \notin Coalescing /\ h[i].id > issued
  BY <1>1 DEF Command
<1>3. h \in Seq(Command) /\ Len(h) = Len(Handshake)
  BY <1>1, <1>2
<1>4. h \in Handshakes
  BY <1>1, <1>2, <1>3 DEF Handshakes
<1>5. OnConnected(h)
  BY DEF Connect
<1>6. QED BY <1>2, <1>3, <1>4, <1>5

LEMMA StepSimulates == CountersOK /\ [Next]_vars => [QNext]_qvars
<1> SUFFICES ASSUME CountersOK, [Next]_vars PROVE [QNext]_qvars
  OBVIOUS
<1>1. ASSUME NEW w \in UserWhat, Issue(w) PROVE [QNext]_qvars
  <2>1. [what |-> w, id |-> issued + 1] \in Command
    BY LinkAssumption DEF LinkAssumption, CountersOK, Command
  <2>2. CASE linked
    BY <1>1, <2>1, <2>2 DEF Issue, QNext
  <2>3. CASE ~linked
    BY <1>1, <2>3 DEF Issue, qvars
  <2>4. QED BY <2>2, <2>3
<1>2. CASE ReceiveAck
  <2>1. Head(acks) \in Bit
    BY <1>2 DEF ReceiveAck, CountersOK
  <2>2. QED BY <1>2, <2>1 DEF ReceiveAck, QNext
<1>3. CASE ReceiveData
  BY <1>3 DEF ReceiveData, QNext
<1>4. CASE ReceiveAlert
  <2>1. [what |-> AlertWhat, id |-> issued + 1] \in Command
    BY LinkAssumption DEF LinkAssumption, CountersOK, Command
  <2>2. QED BY <1>4, <2>1 DEF ReceiveAlert, QNext
<1>5. CASE Resend
  BY <1>5 DEF Resend, QNext
<1>6. CASE GiveUp
  BY <1>6 DEF GiveUp, QNext
<1>7. CASE Connect
  BY <1>7, HandshakeOK DEF QNext
<1>8. CASE Disconnect
  BY <1>8 DEF Disconnect, QNext
<1>9. CASE Sigusr1
  BY <1>9 DEF Sigusr1, QNext
<1>10. CASE HeadsetExecutes
  BY <1>10 DEF HeadsetExecutes, QNext
<1>11. CASE HeadsetIgnores
  BY <1>11 DEF HeadsetIgnores, QNext
<1>12. CASE UNCHANGED vars
  BY <1>12 DEF vars, qvars
<1>13. QED
  BY <1>1, <1>2, <1>3, <1>4, <1>5, <1>6, <1>7, <1>8, <1>9, <1>10, <1>11, <1>12 DEF Next

LEMMA CountersInvariant == Spec => []CountersOK
<1>1. ASSUME Init PROVE CountersOK
  <2>1. issued \in Nat /\ firstOnLink \in Nat \ {0}
    BY <1>1 DEF Init
  <2>2. acks \in Seq(Bit)
    BY <1>1 DEF Init
  <2>3. expected \in Bit
    BY <1>1 DEF Init, Bit
  <2>4. QED BY <2>1, <2>2, <2>3 DEF CountersOK
<1>2. QED BY <1>1, CountersStep, PTL DEF Spec

\* The queue with its headset is one of the environments QSpec allows.
THEOREM LinkImplementsQueue == Spec => QSpec
<1>1. Init => QInit
  BY DEF Init, QInit
<1>2. QED BY <1>1, StepSimulates, CountersInvariant, PTL DEF Spec, QSpec

LEMMA LinkQueueInvariant == Spec => []QInv
<1>1. QED BY LinkImplementsQueue, QueueInvariant, PTL

\* Commands never wait with nothing in flight: onFrame and tick both pump.
THEOREM LinkNeverStalls == Spec => []NoStall
<1>1. QInv => NoStall
  BY DEF QInv
<1>2. QED BY <1>1, LinkQueueInvariant, PTL

\* Clients, alerts and the handshake together keep the queue to kMaxPending.
THEOREM LinkQueueBounded == Spec => []QueueBounded
<1>1. QInv => QueueBounded
  BY DEF QInv
<1>2. QED BY <1>1, LinkQueueInvariant, PTL

\* At most one command per coalescing label waits.
THEOREM LinkNoBacklog == Spec => []NoBacklog
<1>1. QInv => NoBacklog
  BY DEF QInv
<1>2. QED BY <1>1, LinkQueueInvariant, PTL

USE DEF Bit

-----------------------------------------------------------------------------
(* 3. Only this link's commands. *)

FreshSeq(p, n)  == \A i \in 1 .. Len(p) : p[i].id >= n
FreshWire(w, n) == \A i \in 1 .. Len(w) : w[i].type = "DATA" => w[i].cmd.id >= n
\* Commands p waiting, f in flight and frames w on the wire.
Fresh(p, f, w, n) == /\ FreshSeq(p, n)
                     /\ f # NoCommand => f.id >= n
                     /\ FreshWire(w, n)

\* Everything an open link holds was issued on it.  The stronger statement
\* about the queue makes OnlyThisLinksCommands inductive: what is on the wire
\* comes from there.
LinkFresh == /\ linked => Fresh(pending, inFlight, wire, firstOnLink)
             /\ firstOnLink <= issued + 1

LEMMA FreshWireAppend ==
  ASSUME NEW n \in Nat, NEW w \in Seq(Frame), FreshWire(w, n),
         NEW f \in Frame, f.type = "DATA" => f.cmd.id >= n
  PROVE  FreshWire(Append(w, f), n)
<1> SUFFICES ASSUME NEW i \in 1 .. Len(Append(w, f)), Append(w, f)[i].type = "DATA"
             PROVE  Append(w, f)[i].cmd.id >= n
  BY DEF FreshWire
<1>1. CASE i \in 1 .. Len(w)
  BY <1>1 DEF FreshWire
<1>2. CASE i = Len(w) + 1
  BY <1>2
<1>3. QED BY <1>1, <1>2

LEMMA FreshTail ==
  ASSUME NEW n \in Nat, NEW p \in Seq(Command), p # <<>>, FreshSeq(p, n)
  PROVE  FreshSeq(Tail(p), n) /\ Head(p).id >= n
<1>1. \A i \in 1 .. Len(Tail(p)) : Tail(p)[i] = p[i + 1] /\ i + 1 \in 1 .. Len(p)
  OBVIOUS
<1>2. QED BY <1>1 DEF FreshSeq

\* pump() sends only what it was given.
LEMMA PumpFresh ==
  ASSUME NEW n \in Nat, NEW p \in Seq(Command), NEW s \in Bit, NEW w \in Seq(Frame),
         FreshSeq(p, n), FreshWire(w, n), Pump(p, s, w)
  PROVE  linked' => linked /\ Fresh(pending', inFlight', wire', n)
<1>1. CASE PumpNothing(p, s, w)
  BY <1>1 DEF PumpNothing, Fresh, FreshSeq
<1>2. CASE p # <<>> /\ DropLink
  BY <1>2 DEF DropLink
<1>3. CASE /\ p # <<>>
           /\ pending' = Tail(p)
           /\ inFlight' = Head(p)
           /\ Transmit(Head(p), s, w)
  <2>1. FreshSeq(pending', n) /\ inFlight'.id >= n
    BY <1>3, FreshTail
  <2>2. DataFrame(Head(p), s) \in Frame /\ DataFrame(Head(p), s).cmd = Head(p)
    <3>1. Head(p) \in Command
      BY <1>3
    <3>2. QED BY <3>1, FrameType DEF DataFrame
  <2>3. FreshWire(Append(w, DataFrame(Head(p), s)), n)
    BY <1>3, <2>1, <2>2, FreshWireAppend
  <2>4. FreshWire(wire', n) /\ linked' = linked
    BY <1>3, <2>3 DEF Transmit
  <2>5. QED BY <2>1, <2>4 DEF Fresh
<1>4. QED BY <1>1, <1>2, <1>3 DEF Pump

\* enqueue() adds only the command it is given.
LEMMA EnqueueFresh ==
  ASSUME QTypeOK, linked, NEW n \in Nat, NEW c \in Command, NEW w \in Seq(Frame), c.id >= n,
         Fresh(pending, inFlight, wire, n), FreshWire(w, n), Enqueue(c, w)
  PROVE  linked' => Fresh(pending', inFlight', wire', n)
<1> USE DEF QTypeOK
<1>1. CASE EnqueueCoalesced(c, w)
  <2>1. PICK i \in Waiting(c.what) : pending' = [pending EXCEPT ![i] = c]
    BY <1>1 DEF EnqueueCoalesced
  <2>2. FreshSeq(pending', n)
    BY <2>1 DEF Fresh, FreshSeq
  <2>3. QED BY <1>1, <2>2 DEF EnqueueCoalesced, Fresh
<1>2. CASE EnqueueFull(c, w)
  BY <1>2 DEF EnqueueFull, queueVars, Fresh
<1>3. CASE EnqueueJoins(c, w)
  <2>1. Append(pending, c) \in Seq(Command)
    OBVIOUS
  <2>2. FreshSeq(Append(pending, c), n)
    BY DEF Fresh, FreshSeq
  <2>3. CASE inFlight # NoCommand /\ pending' = Append(pending, c) /\ wire' = w
             /\ UNCHANGED <<inFlight, seq, retries, linked>>
    BY <2>2, <2>3 DEF Fresh
  <2>4. CASE inFlight = NoCommand /\ Pump(Append(pending, c), seq, w)
    BY <2>1, <2>2, <2>4, PumpFresh
  <2>5. QED BY <1>3, <2>3, <2>4 DEF EnqueueJoins
<1>4. QED BY <1>1, <1>2, <1>3 DEF Enqueue

\* A handler that leaves the numbering alone, or only issues more, keeps
\* LinkFresh if what the queue holds stays fresh.
LEMMA FreshKept ==
  ASSUME CountersOK, LinkFresh, firstOnLink' = firstOnLink, issued' \in {issued, issued + 1},
         linked' => Fresh(pending', inFlight', wire', firstOnLink)
  PROVE  LinkFresh'
<1>1. linked' => Fresh(pending', inFlight', wire', firstOnLink')
  OBVIOUS
<1>2. ASSUME NEW a \in Nat, NEW b \in Nat, NEW c \in {b, b + 1}, a <= b + 1 PROVE a <= c + 1
  BY <1>2
<1>3. firstOnLink <= issued + 1 /\ issued \in Nat /\ firstOnLink \in Nat
  BY DEF LinkFresh, CountersOK
<1>4. QED BY <1>1, <1>2, <1>3 DEF LinkFresh

LEMMA FreshStep == QInv /\ CountersOK /\ LinkFresh /\ [Next]_vars => LinkFresh'
<1> SUFFICES ASSUME QInv, CountersOK, LinkFresh, [Next]_vars PROVE LinkFresh'
  OBVIOUS
<1> DEFINE n == firstOnLink
<1>a. n \in Nat /\ issued \in Nat /\ n <= issued + 1 /\ QTypeOK
  BY DEF CountersOK, LinkFresh, QInv
<1>b. ASSUME DropLink PROVE ~linked'
  BY <1>b DEF DropLink
<1>c. ASSUME linked PROVE Fresh(pending, inFlight, wire, n) /\ FreshSeq(pending, n) /\ FreshWire(wire, n)
  BY <1>c DEF LinkFresh, Fresh
<1>d. ASSUME NEW b \in Bit, linked
      PROVE  Append(wire, AckFrame(b)) \in Seq(Frame) /\ FreshWire(Append(wire, AckFrame(b)), n)
  <2>1. AckFrame(b) \in Frame /\ AckFrame(b).type # "DATA"
    BY DEF AckFrame, Frame
  <2>2. wire \in Seq(Frame)
    BY <1>a DEF QTypeOK
  <2>3. QED BY <1>a, <1>c, <1>d, <2>1, <2>2, FreshWireAppend
<1>e. ASSUME NEW s \in Bit, Pump(pending, s, wire), linked
      PROVE  linked' => Fresh(pending', inFlight', wire', n)
  BY <1>a, <1>c, <1>e, PumpFresh DEF QTypeOK
<1>1. ASSUME NEW w \in UserWhat, Issue(w) PROVE LinkFresh'
  <2> DEFINE c == [what |-> w, id |-> issued + 1]
  <2>1. c \in Command /\ c.id >= n
    BY <1>a, LinkAssumption DEF LinkAssumption, Command
  <2>2. CASE linked
    <3>1. Enqueue(c, wire)
      BY <1>1, <2>2 DEF Issue
    <3>2. linked' => Fresh(pending', inFlight', wire', n)
      BY <1>a, <1>c, <2>1, <2>2, <3>1, EnqueueFresh DEF QTypeOK
    <3>3. QED BY <1>1, <3>2, FreshKept DEF Issue
  <2>3. CASE ~linked
    <3>1. ~linked'
      BY <1>1, <2>3 DEF Issue, linkVars
    <3>2. QED BY <1>1, <3>1, FreshKept DEF Issue
  <2>4. QED BY <2>2, <2>3
<1>2. CASE ReceiveAck
  <2>1. PICK b \in Bit : OnAck(b)
    BY <1>2 DEF ReceiveAck, CountersOK
  <2>2. linked' => Fresh(pending', inFlight', wire', n)
    BY <1>c, <1>e, <2>1 DEF OnAck, linkVars, Fresh
  <2>3. QED BY <1>2, <2>2, FreshKept DEF ReceiveAck
<1>3. CASE ReceiveData
  <2>1. PICK b \in Bit : OnData(b)
    BY <1>3 DEF ReceiveData
  <2>2. linked' => Fresh(pending', inFlight', wire', n)
    BY <1>b, <1>c, <1>d, <2>1 DEF OnData, OnFrameNotAck, queueVars, Fresh
  <2>3. QED BY <1>3, <2>2, FreshKept DEF ReceiveData
<1>4. CASE ReceiveAlert
  <2> DEFINE c == [what |-> AlertWhat, id |-> issued + 1]
  <2>1. c \in Command /\ c.id >= n
    BY <1>a, LinkAssumption DEF LinkAssumption, Command
  <2>2. PICK b \in Bit : OnAlert(b, c)
    BY <1>4 DEF ReceiveAlert
  <2>3. linked' => Fresh(pending', inFlight', wire', n)
    <3>1. CASE DropLink
      BY <1>b, <3>1
    <3>2. CASE linked /\ Enqueue(c, Append(wire, AckFrame(b)))
      BY <1>a, <1>c, <1>d, <2>1, <3>2, EnqueueFresh
    <3>3. QED BY <2>2, <3>1, <3>2 DEF OnAlert
  <2>4. QED BY <1>4, <2>3, FreshKept DEF ReceiveAlert
<1>5. CASE Resend
  <2>1. CASE DropLink
    BY <1>5, <1>b, <2>1, FreshKept DEF Resend
  <2>2. CASE /\ inFlight # NoCommand /\ Transmit(inFlight, 1 - seq, wire)
             /\ UNCHANGED <<pending, inFlight>>
    <3>1. inFlight \in Command /\ 1 - seq \in Bit /\ wire \in Seq(Frame)
      BY <1>a, <2>2 DEF QTypeOK
    <3>2. DataFrame(inFlight, 1 - seq) \in Frame /\ DataFrame(inFlight, 1 - seq).cmd = inFlight
      BY <3>1, FrameType DEF DataFrame
    <3>3. linked => FreshWire(Append(wire, DataFrame(inFlight, 1 - seq)), n)
      BY <1>a, <1>c, <2>2, <3>1, <3>2, FreshWireAppend DEF Fresh
    <3>4. linked' => Fresh(pending', inFlight', wire', n)
      BY <1>c, <2>2, <3>3 DEF Transmit, Fresh
    <3>5. QED BY <1>5, <3>4, FreshKept DEF Resend
  <2>3. QED BY <1>5, <2>1, <2>2 DEF Resend, TickResends
<1>6. CASE GiveUp
  <2>1. Pump(pending, seq, wire) /\ seq \in Bit
    BY <1>6, <1>a DEF GiveUp, TickGivesUp, QTypeOK
  <2>2. linked => (linked' => Fresh(pending', inFlight', wire', n))
    BY <1>e, <2>1
  <2>3. linked' => linked
    BY <2>1 DEF Pump, PumpNothing, Transmit, DropLink
  <2>4. QED BY <1>6, <2>2, <2>3, FreshKept DEF GiveUp
<1>7. CASE Connect
  <2>1. PICK h \in Handshakes : OnConnected(h) /\ \A i \in 1 .. Len(h) : h[i].id > issued
    BY <1>7, HandshakeOK
  <2>2. firstOnLink' = issued + 1 /\ issued' >= issued
    <3>1. Len(Handshake) \in Nat
      BY LinkAssumption DEF LinkAssumption
    <3>2. QED BY <1>7, <1>a, <3>1 DEF Connect
  <2>3. CASE Reset /\ UNCHANGED linkVars
    <3>1. ~linked'
      BY <2>1, <2>3 DEF OnConnected, linkVars
    <3>2. QED BY <1>a, <1>7, <2>2, <3>1 DEF LinkFresh, Connect
  <2>4. CASE /\ linked' = TRUE /\ pending' = Tail(h) /\ inFlight' = Head(h)
             /\ wire' = <<DataFrame(Head(h), 0)>>
    <3>1. h \in Seq(Command) /\ h # <<>> /\ FreshSeq(h, issued + 1)
      <4>1. h \in Seq(Command) /\ h # <<>>
        BY <2>1 DEF Handshakes
      <4>2. \A i \in 1 .. Len(h) : h[i].id \in Nat
        <5>1. ASSUME NEW i \in 1 .. Len(h) PROVE h[i] \in Command
          BY <4>1
        <5>2. QED BY <5>1 DEF Command
      <4>3. FreshSeq(h, issued + 1)
        BY <1>a, <2>1, <4>2 DEF FreshSeq
      <4>4. QED BY <4>1, <4>3
    <3>2. FreshSeq(Tail(h), issued + 1) /\ Head(h).id >= issued + 1
      BY <1>a, <3>1, FreshTail
    <3>3. FreshWire(<<DataFrame(Head(h), 0)>>, issued + 1)
      BY <3>2 DEF FreshWire, DataFrame
    <3>4. Fresh(pending', inFlight', wire', firstOnLink')
      BY <2>2, <2>4, <3>2, <3>3 DEF Fresh
    <3>5. QED BY <1>a, <2>2, <3>4, CountersStep DEF LinkFresh, CountersOK
  <2>5. QED BY <2>1, <2>3, <2>4 DEF OnConnected
<1>8. CASE Disconnect
  BY <1>8, <1>b, FreshKept DEF Disconnect
<1>9. CASE Sigusr1
  BY <1>9, FreshKept DEF Sigusr1, OnSigusr1
<1>10. ASSUME WireRead, UNCHANGED <<firstOnLink, issued>> PROVE LinkFresh'
  <2>1. linked => FreshWire(Tail(wire), n)
    <3>1. wire \in Seq(Frame) /\ wire # <<>>
      BY <1>10, <1>a DEF WireRead, QTypeOK
    <3>2. \A i \in 1 .. Len(Tail(wire)) : Tail(wire)[i] = wire[i + 1] /\ i + 1 \in 1 .. Len(wire)
      BY <3>1
    <3>3. QED BY <1>c, <3>2 DEF FreshWire
  <2>2. linked' => Fresh(pending', inFlight', wire', n)
    BY <1>10, <1>c, <2>1 DEF WireRead, queueVars, Fresh
  <2>3. QED BY <1>10, <2>2, FreshKept
<1>11. CASE HeadsetExecutes
  BY <1>10, <1>11 DEF HeadsetExecutes
<1>12. CASE HeadsetIgnores
  BY <1>10, <1>12 DEF HeadsetIgnores, historyVars
<1>13. CASE UNCHANGED vars
  BY <1>13 DEF vars, queueVars, linkVars, historyVars, LinkFresh, Fresh
<1>14. QED
  BY <1>1, <1>2, <1>3, <1>4, <1>5, <1>6, <1>7, <1>8, <1>9, <1>11, <1>12, <1>13 DEF Next

\* What was queued for one link is never sent on the next: the handshake always
\* comes first.
THEOREM LinkSendsOnlyItsOwn == Spec => []OnlyThisLinksCommands
<1>1. Init => LinkFresh
  BY DEF Init, LinkFresh
<1>2. QInv /\ LinkFresh => OnlyThisLinksCommands
  BY DEF QInv, LinkFresh, Fresh, FreshWire, OnlyThisLinksCommands
<1>3. QED BY <1>1, <1>2, FreshStep, LinkQueueInvariant, CountersInvariant, PTL DEF Spec

-----------------------------------------------------------------------------
(* 4. One command at a time, if no ACK is late. *)

NoData(w) == \A i \in 1 .. Len(w) : w[i].type # "DATA"

\* Every command on the wire w is c, and there is at most one.
OneData(w, c) == \A i \in 1 .. Len(w) : w[i].type = "DATA" =>
                   /\ w[i].cmd = c
                   /\ \A j \in 1 .. Len(w) : w[j].type = "DATA" => i = j

\* OneAtATime, said of f in flight, frames w under way and ACKs a under way.
Outstanding(f, w, a, done) ==
  \/ NoData(w) /\ a = <<>>
  \/ NoData(w) /\ Len(a) = 1 /\ f # NoCommand /\ f.id \in done
  \/ OneData(w, f) /\ a = <<>> /\ f # NoCommand

OutstandingNow == Outstanding(inFlight, wire, acks, executed)

LEMMA NoDataAck ==
  ASSUME NEW w \in Seq(Frame), NEW b \in Bit
  PROVE  /\ NoData(w) => NoData(Append(w, AckFrame(b)))
         /\ \A c : OneData(w, c) => OneData(Append(w, AckFrame(b)), c)
<1> DEFINE v == Append(w, AckFrame(b))
<1>1. AckFrame(b).type # "DATA" /\ AckFrame(b) \in Frame
  BY DEF AckFrame, Frame
<1>2. \A i \in 1 .. Len(v) : v[i].type = "DATA" => i \in 1 .. Len(w) /\ v[i] = w[i]
  <2>1. SUFFICES ASSUME NEW i \in 1 .. Len(v), v[i].type = "DATA"
                 PROVE  i \in 1 .. Len(w) /\ v[i] = w[i]
    OBVIOUS
  <2>2. CASE i \in 1 .. Len(w)
    BY <1>1, <2>2
  <2>3. CASE i = Len(w) + 1
    BY <1>1, <2>1, <2>3
  <2>4. QED BY <1>1, <2>2, <2>3
<1> HIDE DEF v
<1>3. QED BY <1>2 DEF NoData, OneData, v

LEMMA NoDataSend ==
  ASSUME NEW w \in Seq(Frame), NEW c \in Command, NEW b \in Bit, NoData(w)
  PROVE  OneData(Append(w, DataFrame(c, b)), c)
<1> DEFINE f == DataFrame(c, b)
           v == Append(w, f)
<1>1. f \in Frame /\ f.cmd = c
  BY FrameType DEF DataFrame
<1>2. \A i \in 1 .. Len(v) : v[i].type = "DATA" => i = Len(w) + 1 /\ v[i] = f
  BY <1>1 DEF NoData
<1>3. QED BY <1>1, <1>2 DEF OneData

LEMMA DataTail ==
  ASSUME NEW w \in Seq(Frame), w # <<>>
  PROVE  /\ NoData(w) => NoData(Tail(w))
         /\ \A c : OneData(w, c) => OneData(Tail(w), c)
         /\ \A c : OneData(w, c) /\ Head(w).type = "DATA" => Head(w).cmd = c /\ NoData(Tail(w))
<1>1. \A i \in 1 .. Len(Tail(w)) : Tail(w)[i] = w[i + 1] /\ i + 1 \in 1 .. Len(w)
  OBVIOUS
<1>2. 1 \in 1 .. Len(w) /\ Head(w) = w[1]
  OBVIOUS
<1>3. \A i \in 1 .. Len(Tail(w)) : i + 1 # 1
  OBVIOUS
<1>4. NoData(w) => NoData(Tail(w))
  BY <1>1 DEF NoData
<1>5. ASSUME NEW c, OneData(w, c) PROVE OneData(Tail(w), c)
  BY <1>1, <1>5 DEF OneData
<1>6. ASSUME NEW c, OneData(w, c), Head(w).type = "DATA" PROVE Head(w).cmd = c /\ NoData(Tail(w))
  BY <1>1, <1>2, <1>3, <1>6 DEF OneData, NoData
<1>7. QED BY <1>4, <1>5, <1>6

\* pump() with nothing under way puts one command on the wire, or none.
LEMMA PumpOutstanding ==
  ASSUME NEW p \in Seq(Command), NEW s \in Bit, NEW w \in Seq(Frame),
         NoData(w), Pump(p, s, w)
  PROVE  \/ NoData(wire')
         \/ OneData(wire', inFlight') /\ inFlight' # NoCommand
<1>1. CASE PumpNothing(p, s, w)
  BY <1>1 DEF PumpNothing
<1>2. CASE p # <<>> /\ DropLink
  BY <1>2 DEF DropLink, NoData
<1>3. CASE p # <<>> /\ inFlight' = Head(p) /\ Transmit(Head(p), s, w)
  <2>1. Head(p) \in Command
    BY <1>3
  <2>2. inFlight' # NoCommand
    BY <1>3, <2>1, QueueAssumption DEF QueueAssumption, Command
  <2>3. wire' = w \/ wire' = Append(w, DataFrame(Head(p), s))
    BY <1>3 DEF Transmit
  <2>4. QED BY <1>3, <2>1, <2>2, <2>3, NoDataSend
<1>4. QED BY <1>1, <1>2, <1>3 DEF Pump

\* enqueue() sends only if nothing is under way.
LEMMA EnqueueOutstanding ==
  ASSUME QTypeOK, CountersOK, OutstandingNow, NEW c \in Command, NEW w \in Seq(Frame),
         NoData(wire) => NoData(w), OneData(wire, inFlight) => OneData(w, inFlight),
         Enqueue(c, w), acks' = acks \/ acks' = <<>>, executed' = executed
  PROVE  OutstandingNow'
<1>1. Outstanding(inFlight, w, acks, executed)
  BY DEF OutstandingNow, Outstanding
<1>2. Len(<<>>) # 1
  OBVIOUS
<1>3. CASE inFlight' = inFlight /\ wire' = w
  BY <1>1, <1>2, <1>3 DEF OutstandingNow, Outstanding
<1>4. CASE inFlight = NoCommand /\ Pump(Append(pending, c), seq, w)
  <2>1. NoData(w) /\ acks = <<>>
    BY <1>1, <1>4 DEF Outstanding
  <2>2. Append(pending, c) \in Seq(Command) /\ seq \in Bit
    BY DEF QTypeOK
  <2>3. acks' = <<>>
    BY <2>1
  <2>4. QED BY <1>4, <2>1, <2>2, <2>3, PumpOutstanding DEF OutstandingNow, Outstanding
<1>5. QED BY <1>3, <1>4 DEF Enqueue, EnqueueCoalesced, EnqueueFull, EnqueueJoins, queueVars

LEMMA TailOfOne ==
  ASSUME NEW S, NEW a \in Seq(S), Len(a) = 1
  PROVE  Tail(a) = <<>>
<1>1. ASSUME NEW t \in Seq(S), Len(t) = 0 PROVE t = <<>>
  BY <1>1
<1>2. Tail(a) \in Seq(S) /\ Len(Tail(a)) = 0
  OBVIOUS
<1>3. QED BY <1>1, <1>2

\* A link that drops leaves nothing under way.
LEMMA DropOutstanding ==
  ASSUME wire' = <<>>, acks' = <<>>
  PROVE  OutstandingNow'
BY DEF OutstandingNow, Outstanding, NoData

LEMMA OutstandingStep ==
  ASSUME ~LateAcks
  PROVE  QInv /\ CountersOK /\ OutstandingNow /\ [Next]_vars => OutstandingNow'
<1> SUFFICES ASSUME QInv, CountersOK, OutstandingNow, [Next]_vars PROVE OutstandingNow'
  OBVIOUS
<1>a. QTypeOK /\ wire \in Seq(Frame) /\ pending \in Seq(Command) /\ seq \in Bit
  BY DEF QInv, QTypeOK
<1>b. ASSUME AcksSurvive PROVE acks' = acks \/ acks' = <<>>
  BY <1>b DEF AcksSurvive
<1>c. ASSUME DropLink, AcksSurvive PROVE OutstandingNow'
  BY <1>c, DropOutstanding DEF DropLink, AcksSurvive
<1>d. ASSUME UNCHANGED <<inFlight, wire, executed>>, AcksSurvive PROVE OutstandingNow'
  <2>1. Len(<<>>) # 1
    OBVIOUS
  <2>2. QED BY <1>b, <1>d, <2>1 DEF OutstandingNow, Outstanding
<1>1. ASSUME NEW w \in UserWhat, Issue(w) PROVE OutstandingNow'
  <2> DEFINE c == [what |-> w, id |-> issued + 1]
  <2>1. c \in Command
    BY LinkAssumption DEF LinkAssumption, CountersOK, Command
  <2>2. AcksSurvive /\ executed' = executed
    BY <1>1 DEF Issue
  <2>3. CASE linked
    <3>1. Enqueue(c, wire)
      BY <1>1, <2>3 DEF Issue
    <3>2. QED BY <1>a, <1>b, <2>1, <2>2, <3>1, EnqueueOutstanding
  <2>4. CASE ~linked
    BY <1>1, <1>d, <2>2, <2>4 DEF Issue, queueVars, linkVars
  <2>5. QED BY <2>3, <2>4
<1>2. CASE ReceiveAck
  <2>1. PICK b \in Bit : OnAck(b)
    BY <1>2 DEF ReceiveAck, CountersOK
  <2>2. /\ acks # <<>> /\ acks' = IF linked' THEN Tail(acks) ELSE <<>>
    BY <1>2 DEF ReceiveAck
  <2>3. NoData(wire) /\ Len(acks) = 1 /\ inFlight # NoCommand
    BY <2>2 DEF OutstandingNow, Outstanding
  <2>4. Tail(acks) = <<>>
    <3>1. acks \in Seq(Bit)
      BY DEF CountersOK
    <3>2. QED BY <2>3, <3>1, TailOfOne
  <2>5. acks' = <<>>
    BY <2>2, <2>4
  <2>6. Pump(pending, b, wire)
    BY <2>1, <2>3 DEF OnAck
  <2>7. QED BY <1>a, <2>3, <2>5, <2>6, PumpOutstanding DEF OutstandingNow, Outstanding
<1>3. CASE ReceiveData
  <2>1. PICK b \in Bit : OnData(b)
    BY <1>3 DEF ReceiveData
  <2>2. AcksSurvive /\ executed' = executed
    BY <1>3 DEF ReceiveData
  <2>3. CASE DropLink
    BY <1>c, <2>2, <2>3
  <2>4. CASE linked /\ OnFrameNotAck(b) /\ wire' = Append(wire, AckFrame(b)) /\ UNCHANGED linked
    <3>1. acks' = acks /\ inFlight' = inFlight
      BY <2>2, <2>4 DEF AcksSurvive, OnFrameNotAck, queueVars
    <3>2. (NoData(wire) => NoData(wire')) /\ (OneData(wire, inFlight) => OneData(wire', inFlight))
      BY <1>a, <2>4, NoDataAck
    <3>3. QED BY <2>2, <3>1, <3>2 DEF OutstandingNow, Outstanding
  <2>5. QED BY <2>1, <2>3, <2>4 DEF OnData
<1>4. CASE ReceiveAlert
  <2> DEFINE c == [what |-> AlertWhat, id |-> issued + 1]
  <2>1. c \in Command
    BY LinkAssumption DEF LinkAssumption, CountersOK, Command
  <2>2. PICK b \in Bit : OnAlert(b, c)
    BY <1>4 DEF ReceiveAlert
  <2>3. AcksSurvive /\ executed' = executed
    BY <1>4 DEF ReceiveAlert
  <2>4. CASE DropLink
    BY <1>c, <2>3, <2>4
  <2>5. CASE Enqueue(c, Append(wire, AckFrame(b)))
    <3> DEFINE w == Append(wire, AckFrame(b))
    <3>1. w \in Seq(Frame)
      BY <1>a, FrameType, AckFrame(b) \in Frame DEF AckFrame, Frame
    <3>2. (NoData(wire) => NoData(w)) /\ (OneData(wire, inFlight) => OneData(w, inFlight))
      BY <1>a, NoDataAck
    <3> HIDE DEF w
    <3>3. Enqueue(c, w)
      BY <2>5 DEF w
    <3>4. QED BY <1>a, <1>b, <2>1, <2>3, <3>1, <3>2, <3>3, EnqueueOutstanding
  <2>6. QED BY <2>2, <2>4, <2>5 DEF OnAlert
<1>5. CASE Resend
  <2>1. NoData(wire) /\ acks = <<>> /\ AcksSurvive
    BY <1>5 DEF Resend, DeadlinePasses, Settled, NoData
  <2>2. CASE DropLink
    BY <1>c, <2>1, <2>2
  <2>3. CASE /\ inFlight # NoCommand /\ Transmit(inFlight, 1 - seq, wire)
             /\ UNCHANGED <<pending, inFlight>>
    <3>1. inFlight \in Command /\ 1 - seq \in Bit
      BY <1>a, <2>3 DEF QTypeOK
    <3>2. wire' = wire \/ wire' = Append(wire, DataFrame(inFlight, 1 - seq))
      BY <2>3 DEF Transmit
    <3>3. NoData(wire') \/ OneData(wire', inFlight)
      BY <1>a, <2>1, <3>1, <3>2, NoDataSend
    <3>4. acks' = <<>> /\ inFlight' = inFlight
      BY <1>b, <2>1, <2>3
    <3>5. QED BY <2>3, <3>3, <3>4 DEF OutstandingNow, Outstanding
  <2>4. QED BY <1>5, <2>2, <2>3 DEF Resend, TickResends
<1>6. CASE GiveUp
  <2>1. NoData(wire) /\ acks = <<>> /\ AcksSurvive
    BY <1>6 DEF GiveUp, DeadlinePasses, Settled, NoData
  <2>2. Pump(pending, seq, wire)
    BY <1>6 DEF GiveUp, TickGivesUp
  <2>3. acks' = <<>>
    BY <1>b, <2>1
  <2>4. QED BY <1>a, <2>1, <2>2, <2>3, PumpOutstanding DEF OutstandingNow, Outstanding
<1>7. CASE Connect
  <2>1. acks' = <<>>
    BY <1>7 DEF Connect
  <2>2. PICK h \in Handshakes : OnConnected(h)
    BY <1>7, HandshakeOK
  <2>3. CASE Reset /\ UNCHANGED linkVars
    <3>1. ~linked /\ wire' = wire
      BY <2>2, <2>3 DEF OnConnected, linkVars
    <3>2. QED BY <2>1, <3>1, DropOutstanding DEF QInv
  <2>4. CASE inFlight' = Head(h) /\ wire' = <<DataFrame(Head(h), 0)>>
    <3>1. h \in Seq(Command) /\ h # <<>>
      BY <2>2 DEF Handshakes
    <3>2. Head(h) \in Command
      BY <3>1
    <3>3. Head(h) # NoCommand
      BY <3>2, QueueAssumption DEF QueueAssumption, Command
    <3>4. OneData(wire', inFlight')
      BY <2>4 DEF OneData, DataFrame
    <3>5. QED BY <2>1, <2>4, <3>3, <3>4 DEF OutstandingNow, Outstanding
  <2>5. QED BY <2>2, <2>3, <2>4 DEF OnConnected
<1>8. CASE Disconnect
  BY <1>8, <1>c DEF Disconnect
<1>9. CASE Sigusr1
  BY <1>9, DropOutstanding DEF Sigusr1, OnSigusr1, AcksSurvive
<1>10. CASE HeadsetExecutes
  <2>1. wire # <<>> /\ Head(wire).type = "DATA" /\ wire' = Tail(wire) /\ inFlight' = inFlight
    BY <1>10 DEF HeadsetExecutes, WireRead, InStepFrame, queueVars
  <2>2. ~NoData(wire)
    <3>1. 1 \in 1 .. Len(wire) /\ Head(wire) = wire[1]
      BY <1>a, <2>1
    <3>2. QED BY <2>1, <3>1 DEF NoData
  <2>3. OneData(wire, inFlight) /\ acks = <<>> /\ inFlight # NoCommand
    BY <2>2 DEF OutstandingNow, Outstanding
  <2>4. Head(wire).cmd = inFlight /\ NoData(wire')
    BY <1>a, <2>1, <2>3, DataTail
  <2>5. inFlight'.id \in executed'
    BY <1>10, <2>1, <2>4 DEF HeadsetExecutes
  <2>6. acks' = <<>> \/ acks' = Append(<<>>, 1 - expected)
    BY <1>10, <2>3 DEF HeadsetExecutes
  <2>7. acks' = <<>> \/ Len(acks') = 1
    BY <2>6
  <2>8. QED BY <2>1, <2>3, <2>4, <2>5, <2>7 DEF OutstandingNow, Outstanding
<1>11. CASE HeadsetIgnores
  <2>1. wire # <<>> /\ wire' = Tail(wire) /\ UNCHANGED <<inFlight, acks, executed>>
    BY <1>11 DEF HeadsetIgnores, WireRead, queueVars, headsetVars, historyVars
  <2>2. (NoData(wire) => NoData(wire')) /\ (OneData(wire, inFlight) => OneData(wire', inFlight))
    BY <1>a, <2>1, DataTail
  <2>3. QED BY <2>1, <2>2 DEF OutstandingNow, Outstanding
<1>12. CASE UNCHANGED vars
  BY <1>12 DEF vars, queueVars, linkVars, headsetVars, historyVars, OutstandingNow, Outstanding
<1>13. QED
  BY <1>1, <1>2, <1>3, <1>4, <1>5, <1>6, <1>7, <1>8, <1>9, <1>10, <1>11, <1>12 DEF Next

LEMMA OutstandingInvariant == ASSUME ~LateAcks PROVE Spec => []OutstandingNow
<1>1. Init => OutstandingNow
  BY DEF Init, OutstandingNow, Outstanding, NoData
<1>2. QED BY <1>1, OutstandingStep, LinkQueueInvariant, CountersInvariant, PTL DEF Spec

\* The daemon never has two commands outstanding, so the headset never has a
\* reason to drop one.
THEOREM LinkOneAtATime == ASSUME ~LateAcks PROVE Spec => []OneAtATime
<1>1. OutstandingNow => OneAtATime
  BY DEF OutstandingNow, Outstanding, NoData, OneData, OneAtATime
<1>2. QED BY <1>1, OutstandingInvariant, PTL

-----------------------------------------------------------------------------
(* 5. No command is lost silently, if no ACK is late. *)

\* Every id given out so far is queued, was carried out or was discarded.
Accounted == \A i \in 1 .. issued : i \in QueuedIds \cup executed \cup discarded

\* The bookkeeping of a handler: what is new or queued is still queued, is
\* recorded as discarded, or was acknowledged.
LEMMA AccountKeeps ==
  ASSUME Accounted, NEW new, NEW acked, Account(new, acked), issued \in Nat,
         acked \subseteq executed, executed' = executed, issued' \in Nat,
         \A i \in 1 .. issued' : i \notin new => i <= issued
  PROVE  Accounted'
<1> SUFFICES ASSUME NEW i \in 1 .. issued' PROVE i \in QueuedIds' \cup executed' \cup discarded'
  BY DEF Accounted
<1>1. discarded' = discarded \cup (((QueuedIds \cup new) \ QueuedIds') \ acked)
  BY DEF Account
<1>2. CASE i \in new
  BY <1>1, <1>2
<1>3. CASE i \notin new
  <2>1. i \in 1 .. issued
    BY <1>3
  <2>2. i \in QueuedIds \cup executed \cup discarded
    BY <2>1 DEF Accounted
  <2>3. QED BY <1>1, <2>2
<1>4. QED BY <1>2, <1>3

LEMMA AccountedStep ==
  ASSUME ~LateAcks
  PROVE  CountersOK /\ OutstandingNow /\ Accounted /\ [Next]_vars => Accounted'
<1> SUFFICES ASSUME CountersOK, OutstandingNow, Accounted, [Next]_vars PROVE Accounted'
  OBVIOUS
<1>a. issued \in Nat
  BY DEF CountersOK
<1>b. ASSUME Account({}, {}), UNCHANGED <<executed, issued>> PROVE Accounted'
  BY <1>a, <1>b, AccountKeeps
<1>c. ASSUME Account({issued + 1}, {}), executed' = executed, issued' = issued + 1 PROVE Accounted'
  <2>1. issued' \in Nat /\ \A i \in 1 .. issued' : i \notin {issued + 1} => i <= issued
    BY <1>a, <1>c
  <2>2. QED BY <1>a, <1>c, <2>1, AccountKeeps
<1>d. ASSUME UNCHANGED <<pending, inFlight, discarded, issued>>, executed \subseteq executed'
      PROVE  Accounted'
  <2>1. QueuedIds' = QueuedIds
    BY <1>d DEF QueuedIds
  <2>2. QED BY <1>d, <2>1 DEF Accounted
<1>1. ASSUME NEW w \in UserWhat, Issue(w) PROVE Accounted'
  BY <1>1, <1>c DEF Issue
<1>2. CASE ReceiveAck
  <2>1. inFlight # NoCommand /\ inFlight.id \in executed
    BY <1>2 DEF ReceiveAck, OutstandingNow, Outstanding
  <2>2. Account({}, {inFlight.id}) /\ executed' = executed /\ issued' = issued
    BY <1>2, <2>1 DEF ReceiveAck
  <2>3. QED BY <1>a, <2>1, <2>2, AccountKeeps
<1>3. CASE ReceiveData
  BY <1>3, <1>b DEF ReceiveData
<1>4. CASE ReceiveAlert
  BY <1>4, <1>c DEF ReceiveAlert
<1>5. CASE Resend
  BY <1>5, <1>b DEF Resend
<1>6. CASE GiveUp
  BY <1>6, <1>b DEF GiveUp
<1>7. CASE Connect
  <2> DEFINE n == Len(Handshake)
  <2>1. n \in Nat
    BY LinkAssumption DEF LinkAssumption
  <2>2. /\ Account(issued + 1 .. issued + n, {})
        /\ executed' = executed /\ issued' = issued + n
    BY <1>7 DEF Connect
  <2> HIDE DEF n
  <2>3. issued' \in Nat /\ \A i \in 1 .. issued' : i \notin issued + 1 .. issued + n => i <= issued
    BY <1>a, <2>1, <2>2
  <2>4. QED BY <1>a, <2>2, <2>3, AccountKeeps
<1>8. CASE Disconnect
  BY <1>8, <1>b DEF Disconnect
<1>9. CASE Sigusr1
  BY <1>9, <1>b DEF Sigusr1
<1>10. CASE HeadsetExecutes
  BY <1>10, <1>d DEF HeadsetExecutes, WireRead, queueVars
<1>11. CASE HeadsetIgnores
  BY <1>11, <1>d DEF HeadsetIgnores, WireRead, queueVars, historyVars
<1>12. CASE UNCHANGED vars
  BY <1>12, <1>d DEF vars, queueVars, historyVars
<1>13. QED
  BY <1>1, <1>2, <1>3, <1>4, <1>5, <1>6, <1>7, <1>8, <1>9, <1>10, <1>11, <1>12 DEF Next

\* Every command issued is accounted for.
LEMMA AccountedInvariant == ASSUME ~LateAcks PROVE Spec => []Accounted
<1>1. Init => Accounted
  BY DEF Init, Accounted
<1> QED BY <1>1, AccountedStep, OutstandingInvariant, CountersInvariant, PTL DEF Spec

\* If no ACK is late, a command issued on an open link is queued, was carried
\* out, or the daemon knows that it dropped it.
THEOREM LinkLosesNothingSilently == ASSUME ~LateAcks PROVE Spec => []NothingSilentlyLost
<1>1. CountersOK /\ Accounted => NothingSilentlyLost
  <2> SUFFICES ASSUME CountersOK, Accounted, NEW i \in firstOnLink .. issued
               PROVE  i \in QueuedIds \cup executed \cup discarded
    BY DEF NothingSilentlyLost
  <2>1. issued \in Nat /\ firstOnLink \in Nat \ {0}
    BY DEF CountersOK
  <2>2. i \in 1 .. issued
    BY <2>1
  <2>3. QED BY <2>2 DEF Accounted
<1> QED BY <1>1, AccountedInvariant, CountersInvariant, PTL

=============================================================================
