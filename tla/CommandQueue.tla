---------------------------- MODULE CommandQueue ----------------------------
(***************************************************************************)
(* The daemon's MDR command queue (daemon/src/CommandQueue.hpp) and the    *)
(* link it sends on, under an arbitrary headset: any frame may arrive at   *)
(* any time and any send may fail.                                         *)
(*                                                                         *)
(* A command is a `what` (the label the queue coalesces by) and an id that *)
(* stands for its payload.  `wire` is what has been handed to              *)
(* BluetoothManager::sendPacket on the present link and not yet read by    *)
(* the headset: the manager's send queue, the socket and the air, in       *)
(* order.  Time is abstract: the ACK deadline may pass at any moment.      *)
(***************************************************************************)
EXTENDS Naturals, Sequences

CONSTANTS
  What,          \* the labels commands are queued under
  Coalescing,    \* those enqueued with coalesce = true
  NoCommand,     \* the empty std::optional<Item>
  MaxPending,    \* kMaxPending
  MaxRetries     \* kMaxRetries

ASSUME QueueAssumption ==
  /\ Coalescing \subseteq What
  /\ MaxPending \in Nat \ {0}
  /\ MaxRetries \in Nat
  /\ NoCommand \notin [what : What, id : Nat]

Bit     == {0, 1}
Command == [what : What, id : Nat]
Frame   == [type : {"DATA", "ACK"}, seq : Bit, cmd : Command \cup {NoCommand}]

VARIABLES
  pending,       \* commands waiting, oldest first
  inFlight,      \* the command awaiting its ACK, or NoCommand
  seq,           \* the sequence bit the next transmission carries
  retries,       \* retransmissions of inFlight so far
  linked,        \* BluetoothManager is in state CONNECTED
  wire           \* frames on their way to the headset

queueVars == <<pending, inFlight, seq, retries>>
linkVars  == <<linked, wire>>

QTypeOK ==
  /\ pending \in Seq(Command)
  /\ inFlight \in Command \cup {NoCommand}
  /\ seq \in Bit
  /\ retries \in 0 .. MaxRetries
  /\ linked \in BOOLEAN
  /\ wire \in Seq(Frame)

DataFrame(c, s) == [type |-> "DATA", seq |-> s, cmd |-> c]

\* serializeACK: the acknowledgement carries the inverted sequence bit.
AckFrame(rxSeq) == [type |-> "ACK", seq |-> 1 - rxSeq, cmd |-> NoCommand]

-----------------------------------------------------------------------------
(* Pieces of the operations.  An operator named after another (Pump...,    *)
(* EnqueueJoins / EnqueueIgnoringCap, OnAck / OnAckNoPump) and used by no   *)
(* action is a faulty variant: put in the other's place, the runs reject it. *)

\* reset()
Reset == /\ pending' = <<>>
         /\ inFlight' = NoCommand
         /\ seq' = 0
         /\ retries' = 0

\* A send error or a dead socket: scheduleReconnect closes the transport,
\* clears the send queue and calls onDisconnected, which resets the queue.
\* When it happens inside transmit() the queue is reset under its own feet.
DropLink == /\ linked
            /\ Reset
            /\ linked' = FALSE
            /\ wire' = <<>>

\* sendPacket, with w already on the wire.  Off the link it returns false and
\* the queue goes on as if the frame had gone.
Transmit(c, s, w) == /\ wire' = IF linked THEN Append(w, DataFrame(c, s)) ELSE w
                     /\ UNCHANGED linked

\* pump() with nothing in flight, commands p waiting, sequence bit s and w on
\* the wire: the oldest command goes out, if its send does not fail.
PumpNothing(p, s, w) == /\ p = <<>>
                        /\ pending' = <<>>
                        /\ inFlight' = NoCommand
                        /\ seq' = s
                        /\ wire' = w
                        /\ UNCHANGED <<retries, linked>>

PumpKeepsRetries(p, s, w) ==
  \/ PumpNothing(p, s, w)
  \/ /\ p # <<>>
     /\ pending' = Tail(p)
     /\ inFlight' = Head(p)
     /\ seq' = s
     /\ UNCHANGED retries
     /\ Transmit(Head(p), s, w)
  \/ p # <<>> /\ DropLink

PumpNewestFirst(p, s, w) ==
  \/ PumpNothing(p, s, w)
  \/ /\ p # <<>>
     /\ pending' = SubSeq(p, 1, Len(p) - 1)
     /\ inFlight' = p[Len(p)]
     /\ seq' = s
     /\ retries' = 0
     /\ Transmit(p[Len(p)], s, w)
  \/ p # <<>> /\ DropLink

Pump(p, s, w) ==
  \/ PumpNothing(p, s, w)
  \/ /\ p # <<>>
     /\ pending' = Tail(p)
     /\ inFlight' = Head(p)
     /\ seq' = s
     /\ retries' = 0
     /\ Transmit(Head(p), s, w)
  \/ p # <<>> /\ DropLink

-----------------------------------------------------------------------------
(* enqueue(): three outcomes.  w is the wire before the command is queued.  *)

Waiting(what) == {i \in 1 .. Len(pending) : pending[i].what = what}

JoinsAlways(c) == TRUE

Joins(c) == c.what \notin Coalescing \/ Waiting(c.what) = {}

\* A command waiting under the same label is replaced where it stands.
EnqueueCoalesced(c, w) ==
  /\ ~Joins(c)
  /\ \E i \in Waiting(c.what) :
       /\ \A j \in Waiting(c.what) : i <= j
       /\ pending' = [pending EXCEPT ![i] = c]
  /\ wire' = w
  /\ UNCHANGED <<inFlight, seq, retries, linked>>

\* The queue is full: the command is dropped, with a line in the journal.
EnqueueFull(c, w) ==
  /\ Joins(c)
  /\ Len(pending) >= MaxPending
  /\ wire' = w
  /\ UNCHANGED <<queueVars, linked>>

EnqueueIgnoringCap(c, w) ==
  /\ Joins(c)
  /\ \/ /\ inFlight # NoCommand
        /\ pending' = Append(pending, c)
        /\ wire' = w
        /\ UNCHANGED <<inFlight, seq, retries, linked>>
     \/ /\ inFlight = NoCommand
        /\ Pump(Append(pending, c), seq, w)

EnqueueSendsAtOnce(c, w) ==
  /\ Joins(c)
  /\ Len(pending) < MaxPending
  /\ Pump(Append(pending, c), seq, w)

EnqueueJoins(c, w) ==
  /\ Joins(c)
  /\ Len(pending) < MaxPending
  /\ \/ /\ inFlight # NoCommand
        /\ pending' = Append(pending, c)
        /\ wire' = w
        /\ UNCHANGED <<inFlight, seq, retries, linked>>
     \/ /\ inFlight = NoCommand
        /\ Pump(Append(pending, c), seq, w)

Enqueue(c, w) == \/ EnqueueCoalesced(c, w)
                 \/ EnqueueFull(c, w)
                 \/ EnqueueJoins(c, w)

-----------------------------------------------------------------------------
(* The calls main.cpp makes. *)

\* onFrame(ACK, rxSeq): whatever the ACK answers, it names the next sequence
\* bit and releases the command in flight.
OnAckNoPump(rxSeq) ==
  /\ linked
  /\ seq' = rxSeq
  /\ inFlight' = NoCommand
  /\ UNCHANGED <<pending, retries, linkVars>>

OnAck(rxSeq) ==
  /\ linked
  /\ \/ inFlight # NoCommand /\ Pump(pending, rxSeq, wire)
     \/ /\ inFlight = NoCommand
        /\ seq' = rxSeq
        /\ UNCHANGED <<pending, inFlight, retries, linkVars>>

\* onFrame(DATA, rxSeq) returns at once.
OnFrameTakesDataSeq(rxSeq) == seq' = rxSeq /\ UNCHANGED <<pending, inFlight, retries>>

OnFrameNotAck(rxSeq) == UNCHANGED queueVars

\* onDataReceived, for a DATA frame: it is acknowledged and parsed.
OnData(rxSeq) ==
  /\ linked
  /\ \/ /\ OnFrameNotAck(rxSeq)
        /\ wire' = Append(wire, AckFrame(rxSeq))
        /\ UNCHANGED linked
     \/ DropLink

\* The same for an alert that asks "proceed?": the answer c is queued as well.
OnAlert(rxSeq, c) ==
  /\ linked
  /\ \/ Enqueue(c, Append(wire, AckFrame(rxSeq)))
     \/ DropLink

\* tick() after the ACK deadline: give up once the retries are spent ...
TickGivesUp ==
  /\ inFlight # NoCommand
  /\ retries >= MaxRetries
  /\ Pump(pending, seq, wire)

\* ... and otherwise flip the sequence bit and resend.
TickForever ==
  /\ inFlight # NoCommand
  /\ seq' = 1 - seq
  /\ \/ /\ Transmit(inFlight, 1 - seq, wire)
        /\ UNCHANGED <<pending, inFlight, retries>>
     \/ DropLink

TickOneTooMany ==
  /\ inFlight # NoCommand
  /\ retries <= MaxRetries
  /\ \/ /\ retries' = retries + 1
        /\ seq' = 1 - seq
        /\ Transmit(inFlight, 1 - seq, wire)
        /\ UNCHANGED <<pending, inFlight>>
     \/ DropLink

TickResends ==
  /\ inFlight # NoCommand
  /\ retries < MaxRetries
  /\ \/ /\ retries' = retries + 1
        /\ seq' = 1 - seq
        /\ Transmit(inFlight, 1 - seq, wire)
        /\ UNCHANGED <<pending, inFlight>>
     \/ DropLink

\* onConnected: reset, then the handshake h is queued; its first command goes
\* out, and if that send fails the link is down again and the rest is refused.
OnConnectedNoReset(h) ==
  /\ ~linked
  /\ linked' = TRUE
  /\ \/ /\ inFlight # NoCommand
        /\ pending' = pending \o h
        /\ wire' = <<>>
        /\ UNCHANGED <<inFlight, seq, retries>>
     \/ /\ inFlight = NoCommand
        /\ pending' = Tail(h)
        /\ inFlight' = Head(h)
        /\ wire' = <<DataFrame(Head(h), seq)>>
        /\ retries' = 0
        /\ UNCHANGED seq

OnConnected(h) ==
  /\ ~linked
  /\ \/ /\ linked' = TRUE
        /\ pending' = Tail(h)
        /\ inFlight' = Head(h)
        /\ seq' = 0
        /\ retries' = 0
        /\ wire' = <<DataFrame(Head(h), 0)>>
     \/ Reset /\ UNCHANGED linkVars

\* SIGUSR1: BluetoothManager::disconnect() closes the link without a callback,
\* so the queue keeps what it holds.
OnSigusr1 ==
  /\ linked
  /\ linked' = FALSE
  /\ wire' = <<>>
  /\ UNCHANGED queueVars

\* The headset takes a frame off the wire.
WireRead ==
  /\ wire # <<>>
  /\ wire' = Tail(wire)
  /\ UNCHANGED <<queueVars, linked>>

-----------------------------------------------------------------------------
(* The queue on its own: any of these calls, in any order. *)

Handshakes == {h \in Seq(Command) : /\ Len(h) \in 1 .. MaxPending + 1
                                    /\ \A i \in 1 .. Len(h) : h[i].what \notin Coalescing}

QInit == /\ pending = <<>> /\ inFlight = NoCommand /\ seq = 0 /\ retries = 0
         /\ linked = FALSE /\ wire = <<>>

QNext == \/ \E c \in Command : linked /\ Enqueue(c, wire)
         \/ \E b \in Bit : OnAck(b) \/ OnData(b)
         \/ \E b \in Bit, c \in Command : OnAlert(b, c)
         \/ TickGivesUp \/ TickResends
         \/ \E h \in Handshakes : OnConnected(h)
         \/ DropLink \/ OnSigusr1 \/ WireRead

qvars == <<queueVars, linkVars>>
QSpec == QInit /\ [][QNext]_qvars

\* Nothing waits in the queue while nothing is in flight: every path that
\* clears inFlight_ pumps, so the next ACK or timeout always comes
\* (CommandQueue.hpp, onFrame, tick and pump).
NoStall == pending # <<>> => inFlight # NoCommand

\* pending_ never exceeds kMaxPending, through commands, alert answers and the
\* handshake alike (CommandQueue.hpp:118-122).
QueueBounded == Len(pending) <= MaxPending

\* A dragged slider never builds a backlog: at most one command per coalescing
\* label waits (CommandQueue.hpp:34-38).
NoBacklog == \A i, j \in 1 .. Len(pending) :
               pending[i].what = pending[j].what /\ pending[i].what \in Coalescing => i = j

=============================================================================
