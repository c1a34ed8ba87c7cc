-------------------------- MODULE BluetoothProofs --------------------------
(***************************************************************************)
(* What the connection manager keeps true in any order of events, for      *)
(* every value of the constants: sockets match states, `connected` is the  *)
(* link, an open link is given up only when its channel is gone or too     *)
(* much waits to be sent to it, types, delays in range; and, with the requests and lookups named there, that   *)
(* it never waits without a bus or sleeps through an arrival.              *)
(***************************************************************************)
EXTENDS BluetoothManager, Recursion

\* A new attempt is only ever under way while there is no link and no other
\* attempt: this is what NoStraySocket lacks to be inductive.
AttemptAlone == pc \in {"discover", "connect"} =>
                  state \in {"DISCONNECTED", "RECONNECT_BACKOFF"}

SocketTypes == /\ state \in {"DISCONNECTED", "CONNECTING", "CONNECTED", "RECONNECT_BACKOFF"}
               /\ sock \in {"closed", "connecting", "accepted", "refused", "open", "stuck", "gone"}
               /\ sendQueue \in 0 .. MaxQueue
               /\ ret \in {"poll", "socket", "ipc", "consume", "timers"}

SocketInv == SocketTypes /\ NoStraySocket /\ AttemptAlone

\* The bound of the send queue is a number.
LEMMA NothingWaiting == MaxQueue \in Nat /\ 0 \in 0 .. MaxQueue
<1>1. MaxQueue \in Nat
  BY Zenon, BluetoothAssumption
<1> QED BY <1>1

\* Giving up a link or an attempt closes its socket.
LEMMA ReconnectSafe ==
  ASSUME Reconnect, pc' \notin {"discover", "connect"},
         ret' \in {"poll", "socket", "ipc", "consume", "timers"}
  PROVE  SocketInv'
BY NothingWaiting DEF Reconnect, SocketInv, SocketTypes, NoStraySocket, AttemptAlone

\* A link that comes up has its socket, also if it is given up at once.
LEMMA LinkUpSafe ==
  ASSUME SocketInv, state # "CONNECTED", LinkUp, pc' \notin {"discover", "connect"},
         ret' \in {"poll", "socket", "ipc", "consume", "timers"}
  PROVE  SocketInv'
<1>1. sendQueue = 0
  BY NothingWaiting DEF SocketInv, SocketTypes, NoStraySocket
<1>2. sendQueue' = 0 /\ sendQueue' \in 0 .. MaxQueue
  BY <1>1, NothingWaiting DEF LinkUp
<1>3. \/ state' = "CONNECTED" /\ sock' = "open"
      \/ state' = "RECONNECT_BACKOFF" /\ sock' = "closed"
  BY Zenon DEF LinkUp
<1>4. ~(sendQueue' > 0)
  BY <1>2
<1> QED BY <1>2, <1>3, <1>4 DEF SocketInv, SocketTypes, NoStraySocket, AttemptAlone

\* Waiting for BlueZ starts where there is no socket to close.
LEMMA WaitSafe ==
  ASSUME SocketInv, state \in {"DISCONNECTED", "RECONNECT_BACKOFF"},
         NEW c, WaitForBluez(c), pc' \notin {"discover", "connect"},
         ret' \in {"poll", "socket", "ipc", "consume", "timers"}
  PROVE  SocketInv'
BY DEF WaitForBluez, SocketInv, SocketTypes, NoStraySocket, AttemptAlone

\* Steps that leave the state and the socket alone.
LEMMA Untouched ==
  ASSUME SocketInv, UNCHANGED <<state, sock, sendQueue>>,
         ret' \in {"poll", "socket", "ipc", "consume", "timers"},
         pc' \in {"discover", "connect"} =>
           pc \in {"discover", "connect"} \/ state \in {"DISCONNECTED", "RECONNECT_BACKOFF"}
  PROVE  SocketInv'
BY DEF SocketInv, SocketTypes, NoStraySocket, AttemptAlone

\* One step, handler by handler.
LEMMA SocketStep == SocketInv /\ [Next]_vars => SocketInv'
<1> SUFFICES ASSUME SocketInv, [Next]_vars PROVE SocketInv'
  OBVIOUS
<1> USE DEF SocketInv, SocketTypes
<1>1. CASE PollReturns \/ PollReturnsForOthers
  BY <1>1, Untouched DEF PollReturns, PollReturnsForOthers, mgrVars
<1>2. CASE Skip
  BY <1>2, Untouched DEF Skip, mgrVars
<1>3. CASE SocketEvent
  <2>1. pc' = "bus" /\ ret' = ret /\ ret \in {"poll", "socket", "ipc", "consume", "timers"}
    BY <1>3 DEF SocketEvent
  <2>2. CASE sock = "accepted"
    <3>1. state # "CONNECTED" /\ LinkUp
      BY <1>3, <2>2 DEF SocketEvent, NoStraySocket
    <3> QED BY <2>1, <3>1, LinkUpSafe
  <2>3. CASE sock = "open"
    <3>1. SendWaiting /\ state = "CONNECTED" /\ sendQueue > 0
      BY <1>3, <2>3 DEF SocketEvent, SocketReady
    <3>2. state' = state /\ sock' \in {"open", "stuck"}
      BY <2>3, <3>1 DEF SendWaiting
    <3>3. sendQueue' \in 0 .. MaxQueue
      BY <3>1, NothingWaiting DEF SendWaiting
    <3> QED BY <2>1, <3>1, <3>2, <3>3 DEF NoStraySocket, AttemptAlone
  <2>4. CASE sock \in {"refused", "gone"}
    BY <1>3, <2>1, <2>4, ReconnectSafe DEF SocketEvent
  <2> QED BY <1>3, <2>2, <2>3, <2>4 DEF SocketEvent, SocketReady
<1>4. CASE BusEvent
  <2>1. CASE conn' = "none" /\ state = "DISCONNECTED"
    BY <1>4, <2>1, WaitSafe DEF BusEvent
  <2>2. CASE ~(conn' = "none" /\ state = "DISCONNECTED")
    BY <1>4, <2>2, Untouched DEF BusEvent
  <2> QED BY <2>1, <2>2
<1>5. CASE EndTurn
  BY <1>5, Untouched DEF EndTurn, mgrVars
<1>6. CASE Timers
  <2>1. CASE state = "CONNECTING" /\ "connect" \in due
    BY <1>6, <2>1, ReconnectSafe DEF Timers
  <2>2. CASE ~(state = "CONNECTING" /\ "connect" \in due)
    BY <1>6, <2>2, Untouched DEF Timers
  <2> QED BY <2>1, <2>2
<1>7. CASE Discover
  <2>1. PICK seen \in {"absent", "away", "here"} :
          IF seen = "here"
          THEN /\ pc' = "connect"
               /\ UNCHANGED <<state, retry, delay, due, sock, sendQueue, connected, ret>>
          ELSE WaitForBluez(conn') /\ Return
    BY <1>7 DEF Discover
  <2>2. pc = "discover" /\ state \in {"DISCONNECTED", "RECONNECT_BACKOFF"}
    BY <1>7 DEF Discover, AttemptAlone
  <2>3. CASE seen = "here"
    BY <2>1, <2>2, <2>3, Untouched
  <2>4. CASE seen # "here"
    BY <2>1, <2>2, <2>4, WaitSafe DEF Return
  <2> QED BY <2>3, <2>4
<1>8. CASE AttemptConnect
  <2>1. pc' \notin {"discover", "connect"} /\ ret' = "ipc"
    BY <1>8 DEF AttemptConnect, Return
  <2>5. state # "CONNECTED" /\ sendQueue = 0
    BY <1>8 DEF AttemptConnect, NoStraySocket, AttemptAlone
  <2>2. CASE state' = "CONNECTING" /\ sock' = "connecting" /\ sendQueue' = sendQueue
    BY <2>1, <2>2, <2>5 DEF NoStraySocket, AttemptAlone
  <2>3. CASE LinkUp
    BY <2>1, <2>3, <2>5, LinkUpSafe
  <2>4. CASE Reconnect
    BY <2>1, <2>4, ReconnectSafe
  <2> QED BY <1>8, <2>2, <2>3, <2>4 DEF AttemptConnect
<1>9. CASE ConsumeLinkResult
  BY <1>9, Untouched DEF ConsumeLinkResult, Return
<1>10. CASE RequestLookedUp
  BY <1>10, Untouched DEF RequestLookedUp, mgrVars
<1>11. CASE AskBlueZ
  BY <1>11, Untouched DEF AskBlueZ, Return
<1>12. CASE Sigusr1
  BY <1>12, NothingWaiting DEF Sigusr1, NoStraySocket, AttemptAlone
<1>13. CASE Sigusr2
  BY <1>13, Untouched DEF Sigusr2
<1>14. CASE Send
  <2>1. /\ state = "CONNECTED" /\ pc' \notin {"discover", "connect"}
        /\ ret' \in {"poll", "socket", "ipc", "consume", "timers"}
    BY <1>14 DEF Send
  <2>2. CASE SendWaits
    <3>1. sendQueue' \in 0 .. MaxQueue
      BY <2>2, NothingWaiting DEF SendWaits
    <3> QED BY <2>1, <2>2, <3>1 DEF SendWaits, NoStraySocket, AttemptAlone
  <2>3. CASE SendFails \/ SendOverflows
    BY <2>1, <2>3, ReconnectSafe DEF SendFails, SendOverflows
  <2> QED BY <1>14, <2>2, <2>3 DEF Send
<1>15. ASSUME NEW connect \in Asks, RequestLink(connect) PROVE SocketInv'
  BY <1>15, Untouched DEF RequestLink, mgrVars
<1>16. CASE ChannelAccepts \/ ChannelFails \/ ChannelStalls \/ ChannelResumes
  BY <1>16 DEF ChannelAccepts, ChannelFails, ChannelStalls, ChannelResumes, NoStraySocket,
     AttemptAlone, loopVars
<1>17. CASE \E d \in {"connect", "retry", "link"} : TimePasses(d)
  BY <1>17, Untouched DEF TimePasses, loopVars
<1>18. CASE DeviceChanges \/ BlueZAnswers \/ BusFails \/ BusReturns
  BY <1>18, Untouched DEF DeviceChanges, BlueZAnswers, BusFails, BusReturns, mgrVars, loopVars
<1>19. CASE UNCHANGED vars
  BY <1>19, Untouched DEF vars, mgrVars, loopVars
<1> QED
  BY <1>1, <1>2, <1>3, <1>4, <1>5, <1>6, <1>7, <1>8, <1>9, <1>10, <1>11, <1>12, <1>13,
     <1>14, <1>15, <1>16, <1>17, <1>18, <1>19 DEF Next, Daemon, Requests, World

\* The state and the socket agree, and attempts never overlap.
LEMMA SocketInvariant == Spec => []SocketInv
<1>1. Init => SocketInv
  <2> SUFFICES ASSUME Init PROVE SocketInv
    OBVIOUS
  <2>1. sendQueue = 0 /\ state = "DISCONNECTED" /\ sock = "closed" /\ ret = "poll"
    BY Zenon DEF Init
  <2>2. sendQueue \in 0 .. MaxQueue /\ ~(sendQueue > 0)
    BY <2>1, NothingWaiting
  <2> QED BY <2>1, <2>2 DEF SocketInv, SocketTypes, NoStraySocket, AttemptAlone
<1> QED BY <1>1, SocketStep, PTL DEF Spec

\* Whatever BlueZ, the bus, the headset, the clients and the signals do: every
\* path out of a link or an attempt closes its socket and forgets what waited to
\* be sent (BluetoothManager.cpp:1119-1122).
THEOREM SocketsMatchStates == Spec => []NoStraySocket
<1>1. SocketInv => NoStraySocket
  BY DEF SocketInv
<1> QED BY <1>1, SocketInvariant, PTL

-----------------------------------------------------------------------------
\* Published state: without the test signals, whatever changes the state also
\* runs the callback that publishes it.
LEMMA ConnectedStep ==
  ASSUME Signals = {}
  PROVE  SocketInv /\ ConnectedIsTrue /\ [Next]_vars => ConnectedIsTrue'
<1> SUFFICES ASSUME SocketInv, ConnectedIsTrue, [Next]_vars PROVE ConnectedIsTrue'
  OBVIOUS
<1>0. ASSUME UNCHANGED <<state, connected>> PROVE ConnectedIsTrue'
  BY <1>0 DEF ConnectedIsTrue
<1>r. ASSUME Reconnect PROVE ConnectedIsTrue'
  BY <1>r DEF Reconnect, ConnectedIsTrue
<1>l. ASSUME LinkUp PROVE ConnectedIsTrue'
  BY <1>l DEF LinkUp, ConnectedIsTrue
<1>w. ASSUME NEW c, WaitForBluez(c), state # "CONNECTED" PROVE ConnectedIsTrue'
  BY <1>w DEF WaitForBluez, ConnectedIsTrue
<1>1. CASE PollReturns \/ PollReturnsForOthers \/ Skip \/ EndTurn
  BY <1>1, <1>0 DEF PollReturns, PollReturnsForOthers, Skip, EndTurn, mgrVars
<1>2. CASE SocketEvent
  BY <1>2, <1>0, <1>l, <1>r DEF SocketEvent, SocketReady, SendWaiting
<1>3. CASE BusEvent
  BY <1>3, <1>0, <1>w DEF BusEvent
<1>4. CASE Timers
  BY <1>4, <1>0, <1>r DEF Timers
<1>5. CASE Discover
  BY <1>5, <1>0, <1>w DEF Discover, SocketInv, AttemptAlone
<1>6. CASE AttemptConnect
  <2>1. state # "CONNECTED"
    BY <1>6 DEF AttemptConnect, SocketInv, AttemptAlone
  <2>2. CASE state' = "CONNECTING" /\ UNCHANGED connected
    BY <2>1, <2>2 DEF ConnectedIsTrue
  <2> QED BY <1>6, <2>2, <1>l, <1>r DEF AttemptConnect
<1>7. CASE ConsumeLinkResult \/ RequestLookedUp \/ AskBlueZ
  BY <1>7, <1>0 DEF ConsumeLinkResult, RequestLookedUp, AskBlueZ, mgrVars
<1>8. CASE Sigusr1 \/ Sigusr2
  BY <1>8 DEF Sigusr1, Sigusr2
<1>9. CASE Send
  BY <1>9, <1>0, <1>r DEF Send, SendFails, SendWaits, SendOverflows
<1>10. ASSUME NEW connect \in Asks, RequestLink(connect) PROVE ConnectedIsTrue'
  BY <1>10, <1>0 DEF RequestLink, mgrVars
<1>11. CASE World
  BY <1>11, <1>0 DEF World, TimePasses, DeviceChanges, BlueZAnswers, BusFails, BusReturns,
     ChannelAccepts, ChannelFails, ChannelStalls, ChannelResumes, mgrVars, loopVars
<1>12. CASE UNCHANGED vars
  BY <1>12, <1>0 DEF vars, mgrVars, loopVars
<1> QED
  BY <1>1, <1>2, <1>3, <1>4, <1>5, <1>6, <1>7, <1>8, <1>9, <1>10, <1>11, <1>12
  DEF Next, Daemon, Requests

\* What clients are told is the link: no path in or out of CONNECTED forgets
\* its callback, the handshake that fails inside onConnected included
\* (BluetoothManager.cpp:854, 1115).
THEOREM PublishedConnectionIsTrue ==
  ASSUME Signals = {}
  PROVE  Spec => []ConnectedIsTrue
<1>1. Init => ConnectedIsTrue
  BY DEF Init, ConnectedIsTrue
<1>2. SocketInv /\ ConnectedIsTrue /\ [Next]_vars => ConnectedIsTrue'
  BY ConnectedStep
<1> QED BY <1>1, <1>2, SocketInvariant, PTL DEF Spec

-----------------------------------------------------------------------------
\* Only a channel that is gone or a full queue costs an open link, or SIGUSR1.
LEMMA LinkKept ==
  ASSUME "SIGUSR1" \notin Signals, SocketInv, [Next]_vars, state = "CONNECTED", state' # "CONNECTED"
  PROVE  sock = "gone" \/ sendQueue = MaxQueue
<1>1. CASE SocketEvent
  <2>1. sock \in {"open", "gone"} /\ ~SendWaiting
    BY <1>1 DEF SocketEvent, SocketReady, SocketInv, NoStraySocket, SendWaiting
  <2> QED BY <1>1, <2>1 DEF SocketEvent
<1>2. CASE Send
  BY <1>2 DEF Send, SendFails, SendWaits, SendOverflows
<1>3. CASE BusEvent
  BY <1>3 DEF BusEvent
<1>4. CASE Timers
  BY <1>4 DEF Timers
<1>5. CASE Discover \/ AttemptConnect
  BY <1>5 DEF Discover, AttemptConnect, SocketInv, AttemptAlone
<1>6. CASE Sigusr1 \/ Sigusr2
  BY <1>6 DEF Sigusr1, Sigusr2
<1>7. CASE PollReturns \/ PollReturnsForOthers \/ Skip \/ EndTurn
  BY <1>7 DEF PollReturns, PollReturnsForOthers, Skip, EndTurn, mgrVars
<1>8. CASE ConsumeLinkResult \/ RequestLookedUp \/ AskBlueZ
  BY <1>8 DEF ConsumeLinkResult, RequestLookedUp, AskBlueZ, mgrVars
<1>9. CASE \E connect \in Asks : RequestLink(connect)
  BY <1>9 DEF RequestLink, mgrVars
<1>10. CASE World
  BY <1>10 DEF World, TimePasses, DeviceChanges, BlueZAnswers, BusFails, BusReturns,
     ChannelAccepts, ChannelFails, ChannelStalls, ChannelResumes, mgrVars
<1>11. CASE UNCHANGED vars
  BY <1>11 DEF vars, mgrVars
<1> QED
  BY <1>1, <1>2, <1>3, <1>4, <1>5, <1>6, <1>7, <1>8, <1>9, <1>10, <1>11
  DEF Next, Daemon, Requests

\* No news from BlueZ, lost bus, deadline, request of a client or stale result
\* of poll() makes the daemon give up an open link; nor does a headset that stops
\* reading, until 64 KiB wait to be sent to it (BluetoothManager.cpp:1100-1103).
THEOREM NewsSparesTheLink ==
  ASSUME "SIGUSR1" \notin Signals
  PROVE  Spec => LinkOutlivesNews
<1>1. SocketInv /\ [Next]_vars
      => [state = "CONNECTED" /\ state' # "CONNECTED" => sock = "gone" \/ sendQueue = MaxQueue]_vars
  BY LinkKept
<1> QED BY <1>1, SocketInvariant, PTL DEF Spec, LinkOutlivesNews

-----------------------------------------------------------------------------
(* The delay before a retry.  A recursive function is a CHOOSE: that the       *)
(* powers exist, and what they are, is by a least counterexample.              *)

\* The powers of b up to the n-th.
IsPowers(p, b, n) == p = [k \in 0 .. n |-> IF k = 0 THEN 1 ELSE b * p[k - 1]]

LEMMA PowersExist ==
  ASSUME NEW b \in Nat, NEW n \in Nat
  PROVE  \E p : IsPowers(p, b, n)
<1> DEFINE T == {m \in Nat : ~ \E p : IsPowers(p, b, m)}
<1>1. SUFFICES ASSUME T # {} PROVE FALSE
  OBVIOUS
<1>2. PICK m \in T : \A y \in T : m <= y
  BY <1>1, LeastOf
<1>3. CASE m = 0
  <2>1. IsPowers([k \in 0 .. 0 |-> 1], b, 0)
    BY DEF IsPowers
  <2> QED BY <1>3, <2>1, <1>2
<1>4. CASE m # 0
  <2>1. m - 1 \in Nat /\ m \in Nat /\ m - 1 \notin T
    BY <1>2, <1>4
  <2>2. PICK p : IsPowers(p, b, m - 1)
    BY <2>1
  <2> DEFINE q == [k \in 0 .. m |-> IF k = m THEN b * p[m - 1] ELSE p[k]]
  <2>3. \A k \in 0 .. m - 1 : p[k] = IF k = 0 THEN 1 ELSE b * p[k - 1]
    BY <2>1, <2>2 DEF IsPowers
  <2>4. \A k \in 0 .. m : q[k] = IF k = 0 THEN 1 ELSE b * q[k - 1]
    <3> TAKE k \in 0 .. m
    <3>1. CASE k = m
      BY <2>1, <3>1, <1>4
    <3>2. CASE k # m /\ k # 0
      <4>1. k \in 0 .. m - 1 /\ k - 1 \in 0 .. m /\ k - 1 # m
        BY <2>1, <3>2
      <4> QED BY <4>1, <3>2, <2>3
    <3>3. CASE k = 0 /\ k # m
      <4>1. k \in 0 .. m - 1
        BY <2>1, <3>3
      <4> QED BY <4>1, <3>3, <2>3
    <3> QED BY <3>1, <3>2, <3>3
  <2>5. IsPowers(q, b, m)
    BY <2>4 DEF IsPowers
  <2> QED BY <2>5, <1>2
<1> QED BY <1>3, <1>4

LEMMA PowerIs ==
  ASSUME NEW b \in Nat, NEW n \in Nat
  PROVE  \E p : IsPowers(p, b, n) /\ Power(b, n) = p[n]
<1> DEFINE p == CHOOSE p : IsPowers(p, b, n)
<1>1. IsPowers(p, b, n)
  BY PowersExist
<1>2. Power(b, n) = p[n]
  BY Zenon DEF Power, IsPowers
<1> QED BY <1>1, <1>2

\* A power of 3 is at least that of 2, and both are numbers above 0.
LEMMA PowersGrow ==
  ASSUME NEW n \in Nat
  PROVE  /\ Power(2, n) \in Nat \ {0} /\ Power(3, n) \in Nat
         /\ Power(2, n) <= Power(3, n)
<1>1. PICK p : IsPowers(p, 2, n) /\ Power(2, n) = p[n]
  BY PowerIs
<1>2. PICK q : IsPowers(q, 3, n) /\ Power(3, n) = q[n]
  BY PowerIs
<1> DEFINE Good(k) == p[k] \in Nat \ {0} /\ q[k] \in Nat /\ p[k] <= q[k]
           T == {k \in 0 .. n : ~ Good(k)}
<1>3. T = {}
  <2>1. SUFFICES ASSUME T # {} PROVE FALSE
    OBVIOUS
  <2>2. T \subseteq Nat
    OBVIOUS
  <2>3. PICK k \in T : \A y \in T : k <= y
    BY <2>1, <2>2, LeastOf
  <2>4. p[k] = (IF k = 0 THEN 1 ELSE 2 * p[k - 1]) /\ q[k] = (IF k = 0 THEN 1 ELSE 3 * q[k - 1])
    BY <1>1, <1>2 DEF IsPowers
  <2>5. CASE k = 0
    BY <2>4, <2>5
  <2>6. CASE k # 0
    <3>1. k - 1 \in 0 .. n /\ k - 1 \notin T
      BY <2>3, <2>6
    <3>2. Good(k - 1)
      BY <3>1
    <3> DEFINE u == p[k - 1]
               v == q[k - 1]
    <3>3. u \in Nat \ {0} /\ v \in Nat /\ u <= v
      BY <3>2
    <3>4. p[k] = 2 * u /\ q[k] = 3 * v
      BY <2>4, <2>6
    <3> HIDE DEF u, v
    <3>5. Good(k)
      BY <3>3, <3>4
    <3> QED BY <3>5
  <2> QED BY <2>5, <2>6
<1>4. Good(n)
  BY <1>3
<1> QED BY <1>1, <1>2, <1>4

\* Scaling up and truncating loses nothing: a (p / q) is at least a.
LEMMA QuotientGrows ==
  ASSUME NEW a \in Nat, NEW p \in Nat, NEW q \in Nat \ {0}, q <= p
  PROVE  (a * p) \div q \in Nat /\ a <= (a * p) \div q
<1> DEFINE c == a * p
           d == c \div q
<1>1. c \in Nat /\ q * a <= c
  OBVIOUS
<1>2. d \in Nat /\ c < q * d + q
  OBVIOUS
<1> HIDE DEF c, d
<1>3. q * a < q * (d + 1)
  BY <1>1, <1>2
<1>4. a < d + 1
  BY <1>2, <1>3
<1> QED BY <1>2, <1>4 DEF c, d

\* Whatever the number of retries, the delay is in the configured range.
LEMMA RetryInRange ==
  ASSUME NEW n \in Nat
  PROVE  RetryDelay(n) \in InitialBackoff .. MaxBackoff
<1> DEFINE d == (InitialBackoff * Power(3, n)) \div Power(2, n)
<1>1. InitialBackoff \in Nat /\ MaxBackoff \in Nat /\ InitialBackoff <= MaxBackoff
  BY BluetoothAssumption
<1>2. d \in Nat /\ InitialBackoff <= d
  BY <1>1, PowersGrow, QuotientGrows
<1>3. RetryDelay(n) = Min2(d, MaxBackoff)
  BY Zenon DEF RetryDelay
<1> HIDE DEF d
<1> QED BY <1>1, <1>2, <1>3 DEF Min2

-----------------------------------------------------------------------------
(* Types, in four parts, and the one fact they need of the control: a link     *)
(* request under way has been counted.                                         *)

\* The connection manager and its socket.
MgrTypes ==
  /\ state \in {"DISCONNECTED", "CONNECTING", "CONNECTED", "RECONNECT_BACKOFF"}
  /\ retry \in 0 .. MaxExponent
  /\ delay \in InitialBackoff .. MaxBackoff
  /\ linkState \in {"", "connecting", "disconnecting"}
  /\ linkError \in BOOLEAN
  /\ due \subseteq {"retry", "connect", "link"}
  /\ sock \in {"closed", "connecting", "accepted", "refused", "open", "stuck", "gone"}

\* What passes over the bus.
BusTypes ==
  /\ conn \in {"none", "live", "broken"}
  /\ changed \in BOOLEAN
  /\ result \in Answer \cup {None}
  /\ dev \in Whereabouts
  /\ news \in BOOLEAN
  /\ replies \in Seq(Answer)
  /\ asks \subseteq [ask : 1 .. MaxInputs, connect : BOOLEAN]

\* The event loop.
LoopTypes ==
  /\ connected \in BOOLEAN
  /\ pc \in {"poll", "socket", "bus", "ipc", "timers",
             "discover", "connect", "request", "ask", "consume"}
  /\ ready \subseteq {"socket", "bus"}
  /\ ret \in {"poll", "socket", "ipc", "consume", "timers"}
  /\ want \in BOOLEAN
  /\ inputs \in 0 .. MaxInputs
  /\ lastAsk \in 0 .. MaxInputs

\* The rest.
WorldTypes ==
  /\ busUp \in BOOLEAN
  /\ faults \in 0 .. MaxFaults

RequestCounted == pc \in {"request", "ask"} => inputs \in 1 .. MaxInputs

Typed == MgrTypes /\ BusTypes /\ LoopTypes /\ WorldTypes /\ RequestCounted

\* The constants, as numbers.
LEMMA Numbers ==
  /\ MaxInputs \in Nat /\ MaxFaults \in Nat
  /\ InitialBackoff \in Nat /\ MaxBackoff \in Nat /\ InitialBackoff <= MaxBackoff
  /\ MaxExponent \in Nat /\ MaxExponent >= 1
<1>1. MaxExponent \in Nat \ {0} /\ InitialBackoff \in Nat \ {0}
  BY BluetoothAssumption
<1>2. MaxExponent \in Nat /\ MaxExponent >= 1 /\ InitialBackoff \in Nat
  BY <1>1
<1>3. /\ MaxInputs \in Nat /\ MaxFaults \in Nat /\ MaxBackoff \in Nat
      /\ InitialBackoff <= MaxBackoff
  BY Zenon, BluetoothAssumption
<1> QED BY <1>2, <1>3, Zenon

\* The clocks that restart are fewer than before.
LEMMA RearmedTypes ==
  ASSUME MgrTypes, due' = Rearmed
  PROVE  due' \subseteq {"retry", "connect", "link"}
BY DEF MgrTypes, Rearmed

\* Giving up a link or an attempt.
LEMMA ReconnectTypes ==
  ASSUME MgrTypes, Reconnect
  PROVE  /\ state' = "RECONNECT_BACKOFF" /\ sock' = "closed"
         /\ retry' \in 0 .. MaxExponent
         /\ delay' \in InitialBackoff .. MaxBackoff
         /\ due' \subseteq {"retry", "connect", "link"}
<1> DEFINE n == Min2(retry + 1, MaxExponent)
<1>1. n \in 0 .. MaxExponent /\ n \in Nat
  <2>1. retry \in 0 .. MaxExponent /\ MaxExponent \in Nat
    BY Numbers, Zenon DEF MgrTypes
  <2> QED BY <2>1 DEF Min2
<1>2. retry' = n /\ delay' = RetryDelay(n) /\ due' = Rearmed
      /\ state' = "RECONNECT_BACKOFF" /\ sock' = "closed"
  BY Zenon DEF Reconnect
<1> HIDE DEF n
<1>3. RetryDelay(n) \in InitialBackoff .. MaxBackoff
  BY <1>1, RetryInRange
<1> QED BY <1>1, <1>2, <1>3, RearmedTypes

\* A link that comes up, or is given up at once.
LEMMA LinkUpTypes ==
  ASSUME MgrTypes, WorldTypes, LinkUp
  PROVE  MgrTypes' /\ connected' \in BOOLEAN /\ faults' \in 0 .. MaxFaults
<1>1. linkState' \in {"", "connecting", "disconnecting"} /\ linkError' \in BOOLEAN
  BY DEF LinkUp, MgrTypes
<1>2. due' \subseteq {"retry", "connect", "link"}
  BY RearmedTypes DEF LinkUp
<1>3. RetryDelay(1) \in InitialBackoff .. MaxBackoff
  BY RetryInRange
<1>4. CASE state' = "CONNECTED" /\ sock' = "open" /\ retry' = 0
           /\ connected' = TRUE /\ UNCHANGED <<delay, faults>>
  <2>1. retry' \in 0 .. MaxExponent
    BY <1>4, Numbers
  <2>2. faults' = faults /\ faults \in 0 .. MaxFaults /\ delay' = delay
        /\ delay \in InitialBackoff .. MaxBackoff
    BY <1>4, Zenon DEF MgrTypes, WorldTypes
  <2> QED BY <1>1, <1>2, <1>4, <2>1, <2>2 DEF MgrTypes
<1>5. CASE /\ state' = "RECONNECT_BACKOFF" /\ sock' = "closed" /\ retry' = 1
           /\ delay' = RetryDelay(1) /\ connected' = FALSE /\ Fault
  <2>1. retry' \in 0 .. MaxExponent
    BY <1>5, Numbers
  <2>2. faults' \in 0 .. MaxFaults
    BY <1>5, Numbers DEF WorldTypes, Fault
  <2>3. delay' \in InitialBackoff .. MaxBackoff
    BY <1>3, <1>5
  <2> QED BY <1>1, <1>2, <1>5, <2>1, <2>2, <2>3 DEF MgrTypes
<1> QED BY <1>4, <1>5 DEF LinkUp

\* Waiting for BlueZ.
LEMMA WaitTypes ==
  ASSUME MgrTypes, NEW c, WaitForBluez(c)
  PROVE  /\ state' \in {"DISCONNECTED", "RECONNECT_BACKOFF"}
         /\ retry' = retry /\ sock' = sock /\ connected' = connected
         /\ delay' \in InitialBackoff .. MaxBackoff
         /\ due' \subseteq {"retry", "connect", "link"}
<1>1. due' \subseteq {"retry", "connect", "link"}
  BY RearmedTypes DEF WaitForBluez
<1>2. delay' = delay \/ delay' = MaxBackoff
  BY DEF WaitForBluez
<1>3. delay' \in InitialBackoff .. MaxBackoff
  <2>1. delay \in InitialBackoff .. MaxBackoff
    BY Zenon DEF MgrTypes
  <2>2. MaxBackoff \in InitialBackoff .. MaxBackoff
    BY Numbers
  <2> QED BY <1>2, <2>1, <2>2, Zenon
<1> QED BY <1>1, <1>3 DEF WaitForBluez

\* A fault is counted up to the bound.
LEMMA FaultTypes ==
  ASSUME WorldTypes, Fault
  PROVE  faults' \in 0 .. MaxFaults
BY Numbers DEF WorldTypes, Fault

\* The last of the replies is a reply.
LEMMA LastReply ==
  ASSUME BusTypes, replies # <<>>
  PROVE  replies[Len(replies)] \in Answer
<1>1. Len(replies) \in Nat /\ Len(replies) # 0 /\ replies \in [1 .. Len(replies) -> Answer]
  BY DEF BusTypes
<1> QED BY <1>1

\* Reading the bus keeps the types.
LEMMA DispatchTypes ==
  ASSUME BusTypes, NEW was \in BOOLEAN, Dispatch(was)
  PROVE  /\ conn' \in {"none", "live", "broken"}
         /\ changed' \in BOOLEAN /\ news' = FALSE
         /\ result' \in Answer \cup {None}
         /\ replies' \in Seq(Answer)
         /\ asks' \subseteq [ask : 1 .. MaxInputs, connect : BOOLEAN]
<1>1. conn' \in {"none", "live", "broken"}
  BY DEF Dispatch, BusTypes
<1>2. changed' \in BOOLEAN
  BY Zenon DEF Dispatch, BusTypes
<1>3. asks' \subseteq [ask : 1 .. MaxInputs, connect : BOOLEAN]
  BY DEF Dispatch, BusTypes
<1>4. replies' = <<>> /\ news' = FALSE
  BY DEF Dispatch
<1>5. result' \in Answer \cup {None}
  <2>1. CASE conn = "broken" /\ asks # {}
    <3>1. PICK a \in asks : result' = [ask |-> a.ask, ok |-> FALSE]
      BY <2>1 DEF Dispatch
    <3>2. a.ask \in 1 .. MaxInputs
      BY DEF BusTypes
    <3> QED BY <3>1, <3>2 DEF Answer
  <2>2. CASE ~(conn = "broken" /\ asks # {})
    BY <2>2, LastReply DEF Dispatch, BusTypes
  <2> QED BY <2>1, <2>2
<1> QED BY <1>1, <1>2, <1>3, <1>4, <1>5

\* So does a lookup, in each of its outcomes.
LEMMA LookupTypes ==
  ASSUME BusTypes, NEW seen, Lookup(seen)
  PROVE  BusTypes'
<1>1. CASE LookupOnBus(seen)
  <2>1. CASE conn = "none"
    <3>1. conn' = "live" /\ UNCHANGED <<changed, result, news, replies, asks>> /\ dev' = dev
      BY <1>1, <2>1 DEF LookupOnBus
    <3> QED BY <3>1 DEF BusTypes
  <2>2. CASE conn # "none"
    <3>1. Dispatch(changed) /\ dev' = dev
      BY <1>1, <2>2 DEF LookupOnBus
    <3>2. changed \in BOOLEAN
      BY DEF BusTypes
    <3> QED BY <3>1, <3>2, DispatchTypes DEF BusTypes
  <2> QED BY <2>1, <2>2
<1>2. CASE LookupReadsAhead(seen)
  <2>1. result' \in Answer \cup {None}
    BY <1>2, LastReply DEF LookupReadsAhead, BusTypes
  <2>2. /\ dev' \in Whereabouts /\ changed' = TRUE /\ news' = FALSE /\ replies' = <<>>
        /\ asks' = asks /\ conn' = conn
    BY <1>2, Zenon DEF LookupReadsAhead
  <2>3. <<>> \in Seq(Answer)
    OBVIOUS
  <2> QED BY <2>1, <2>2, <2>3, Zenon DEF BusTypes
<1>3. CASE LookupWithoutBus(seen)
  BY <1>3 DEF LookupWithoutBus, BusTypes, busVars
<1> QED BY <1>1, <1>2, <1>3 DEF Lookup

\* A step that leaves the connection manager and the socket alone.
LEMMA MgrAlone ==
  ASSUME MgrTypes, UNCHANGED mgrVars
  PROVE  MgrTypes'
BY DEF MgrTypes, mgrVars

\* One step of the connection manager.
LEMMA MgrStep == Typed /\ [Next]_vars => MgrTypes'
<1> SUFFICES ASSUME Typed, [Next]_vars PROVE MgrTypes'
  OBVIOUS
<1>t. MgrTypes /\ WorldTypes
  BY DEF Typed
<1>r. ASSUME Reconnect, UNCHANGED <<linkState, linkError>> PROVE MgrTypes'
  BY <1>t, <1>r, ReconnectTypes DEF MgrTypes
<1>w. ASSUME NEW c, WaitForBluez(c), UNCHANGED <<linkState, linkError>> PROVE MgrTypes'
  BY <1>t, <1>w, WaitTypes DEF MgrTypes
<1>s. ASSUME UNCHANGED <<state, retry, delay, due, sock, linkState, linkError>> PROVE MgrTypes'
  BY <1>t, <1>s DEF MgrTypes
<1>z. ASSUME retry' = 0, delay' \in {delay, InitialBackoff},
             UNCHANGED <<state, due, sock, linkState, linkError>> PROVE MgrTypes'
  <2>1. retry' \in 0 .. MaxExponent
    BY <1>z, Numbers
  <2>2. InitialBackoff \in InitialBackoff .. MaxBackoff
    BY Numbers
  <2> QED BY <1>t, <1>z, <2>1, <2>2 DEF MgrTypes
<1>1. CASE PollReturns \/ PollReturnsForOthers \/ Skip \/ EndTurn
  BY <1>1, <1>t, MgrAlone DEF PollReturns, PollReturnsForOthers, Skip, EndTurn
<1>2. CASE SocketEvent
  <2>1. CASE LinkUp
    BY <1>t, <2>1, LinkUpTypes
  <2>2. CASE SendWaiting
    <3>1. sock' \in {sock, "stuck"}
      BY <2>2 DEF SendWaiting
    <3> QED BY <1>t, <2>2, <3>1 DEF SendWaiting, MgrTypes
  <2>3. CASE Reconnect /\ UNCHANGED <<linkState, linkError>>
    BY <2>3, <1>r
  <2> QED BY <1>2, <2>1, <2>2, <2>3 DEF SocketEvent, SocketReady
<1>3. CASE BusEvent
  <2>1. UNCHANGED <<linkState, linkError>>
    BY <1>3 DEF BusEvent
  <2>2. CASE conn' = "none" /\ state = "DISCONNECTED"
    BY <1>3, <2>1, <2>2, <1>w DEF BusEvent
  <2>3. CASE ~(conn' = "none" /\ state = "DISCONNECTED")
    BY <1>3, <2>1, <2>3, <1>z, <1>s DEF BusEvent
  <2> QED BY <2>2, <2>3
<1>4. CASE Timers
  <2>1. linkState' \in {"", "connecting", "disconnecting"} /\ linkError' \in BOOLEAN
    BY <1>4, <1>t DEF Timers, MgrTypes
  <2>2. CASE Reconnect
    BY <1>t, <2>1, <2>2, ReconnectTypes DEF MgrTypes
  <2>3. CASE UNCHANGED <<state, retry, delay, due, sock, connected>>
    BY <1>t, <2>1, <2>3 DEF MgrTypes
  <2> QED BY <1>4, <2>2, <2>3 DEF Timers
<1>5. CASE Discover
  BY <1>5, <1>w, <1>s DEF Discover
<1>6. CASE AttemptConnect
  <2>1. CASE /\ state' = "CONNECTING" /\ sock' = "connecting" /\ due' = Rearmed
             /\ UNCHANGED <<retry, delay, linkState, linkError, connected, faults>>
    <3>1. due' \subseteq {"retry", "connect", "link"}
      BY <1>t, <2>1, RearmedTypes
    <3> QED BY <1>t, <2>1, <3>1 DEF MgrTypes
  <2>2. CASE LinkUp
    BY <1>t, <2>2, LinkUpTypes
  <2>3. CASE Reconnect /\ UNCHANGED <<linkState, linkError>>
    BY <2>3, <1>r
  <2> QED BY <1>6, <2>1, <2>2, <2>3 DEF AttemptConnect
<1>7. CASE ConsumeLinkResult
  <2>1. linkState' \in {"", "connecting", "disconnecting"}
    BY <1>7, <1>t DEF ConsumeLinkResult, MgrTypes
  <2>2. linkError' \in BOOLEAN
    BY <1>7, <1>t, Zenon DEF ConsumeLinkResult, MgrTypes
  <2> QED BY <1>7, <1>t, <2>1, <2>2 DEF ConsumeLinkResult, MgrTypes
<1>8. CASE RequestLookedUp
  BY <1>8, <1>t, MgrAlone DEF RequestLookedUp
<1>9. CASE AskBlueZ
  <2>1. linkState' \in {"connecting", "disconnecting"} /\ linkError' = FALSE
    BY <1>9 DEF AskBlueZ
  <2>2. due' = due \ {"link"} /\ UNCHANGED <<state, retry, delay, sock>>
    BY <1>9 DEF AskBlueZ
  <2> QED BY <1>t, <2>1, <2>2 DEF MgrTypes
<1>10. CASE Sigusr1
  <2>1. due' \subseteq {"retry", "connect", "link"}
    BY <1>10, <1>t, RearmedTypes DEF Sigusr1
  <2> QED BY <1>10, <1>t, <2>1 DEF Sigusr1, MgrTypes
<1>11. CASE Sigusr2
  BY <1>11, <1>z, <1>s DEF Sigusr2
<1>12. CASE Send
  BY <1>12, <1>r, <1>s DEF Send, SendFails, SendWaits, SendOverflows
<1>13. ASSUME NEW connect \in Asks, RequestLink(connect) PROVE MgrTypes'
  BY <1>13, <1>t, MgrAlone DEF RequestLink
<1>14. ASSUME NEW d \in {"connect", "retry", "link"}, TimePasses(d) PROVE MgrTypes'
  BY <1>14, <1>t DEF TimePasses, MgrTypes
<1>15. CASE DeviceChanges \/ BlueZAnswers \/ BusFails \/ BusReturns
  BY <1>15, <1>t, MgrAlone DEF DeviceChanges, BlueZAnswers, BusFails, BusReturns
<1>16. CASE ChannelAccepts \/ ChannelFails \/ ChannelStalls \/ ChannelResumes
  BY <1>16, <1>t DEF ChannelAccepts, ChannelFails, ChannelStalls, ChannelResumes, MgrTypes
<1>17. CASE UNCHANGED vars
  BY <1>17, <1>t, MgrAlone DEF vars
<1> QED
  BY <1>1, <1>2, <1>3, <1>4, <1>5, <1>6, <1>7, <1>8, <1>9, <1>10, <1>11, <1>12, <1>13,
     <1>14, <1>15, <1>16, <1>17 DEF Next, Daemon, Requests, World

\* A step that leaves the bus alone.
LEMMA BusAlone ==
  ASSUME BusTypes, UNCHANGED <<busVars, dev, news, replies, asks>>
  PROVE  BusTypes'
BY DEF BusTypes, busVars

\* One step of what passes over the bus.
LEMMA BusStep == Typed /\ [Next]_vars => BusTypes'
<1> SUFFICES ASSUME Typed, [Next]_vars PROVE BusTypes'
  OBVIOUS
<1>t. BusTypes /\ RequestCounted /\ LoopTypes
  BY DEF Typed
<1>1. CASE PollReturns \/ PollReturnsForOthers \/ Skip \/ EndTurn \/ Timers \/ Send
  BY <1>1, <1>t, BusAlone DEF PollReturns, PollReturnsForOthers, Skip, EndTurn, Timers,
     Send, envVars
<1>2. CASE SocketEvent \/ AttemptConnect
  BY <1>2, <1>t, BusAlone DEF SocketEvent, AttemptConnect
<1>3. CASE BusEvent
  <2>1. Dispatch(FALSE) /\ dev' = dev
    BY <1>3, Zenon DEF BusEvent
  <2> QED BY <1>t, <2>1, DispatchTypes DEF BusTypes
<1>4. CASE Discover \/ RequestLookedUp
  BY <1>4, <1>t, LookupTypes DEF Discover, RequestLookedUp
<1>5. CASE ConsumeLinkResult
  BY <1>5, <1>t DEF ConsumeLinkResult, envVars, BusTypes
<1>6. CASE AskBlueZ
  <2>1. inputs \in 1 .. MaxInputs /\ want \in BOOLEAN
    BY <1>6, <1>t DEF AskBlueZ, RequestCounted, LoopTypes
  <2>2. conn' \in {"none", "live", "broken"} /\ replies' \in Seq(Answer)
    <3>1. conn' \in {conn, "none"} /\ (replies' = replies \/ replies' = <<>>)
      BY <1>6, Zenon DEF AskBlueZ
    <3>2. <<>> \in Seq(Answer)
      OBVIOUS
    <3> QED BY <1>t, <3>1, <3>2, Zenon DEF BusTypes
  <2>3. news' \in BOOLEAN
    BY <1>6, <1>t, Zenon DEF AskBlueZ, BusTypes
  <2>4. asks' \subseteq [ask : 1 .. MaxInputs, connect : BOOLEAN]
    BY <1>6, <1>t, <2>1 DEF AskBlueZ, BusTypes
  <2>5. result' = None /\ changed' = changed /\ dev' = dev
    BY <1>6 DEF AskBlueZ
  <2> QED BY <1>t, <2>2, <2>3, <2>4, <2>5 DEF BusTypes
<1>7. CASE Sigusr1 \/ Sigusr2 \/ \E connect \in Asks : RequestLink(connect)
  BY <1>7, <1>t, BusAlone DEF Sigusr1, Sigusr2, RequestLink, envVars
<1>8. CASE \E d \in {"connect", "retry", "link"} : TimePasses(d)
  BY <1>8, <1>t, BusAlone DEF TimePasses
<1>9. CASE DeviceChanges
  <2>1. news' \in BOOLEAN
    BY <1>9, <1>t, Zenon DEF DeviceChanges, BusTypes
  <2> QED BY <1>9, <1>t, <2>1 DEF DeviceChanges, BusTypes, busVars
<1>10. CASE BlueZAnswers
  <2>1. PICK a \in asks, ok \in BOOLEAN :
          /\ asks' = asks \ {a}
          /\ replies' = IF conn = "live" THEN Append(replies, [ask |-> a.ask, ok |-> ok])
                        ELSE replies
    BY <1>10 DEF BlueZAnswers
  <2>2. [ask |-> a.ask, ok |-> ok] \in Answer
    BY <1>t DEF BusTypes, Answer
  <2>3. replies' \in Seq(Answer)
    <3>1. replies \in Seq(Answer)
      BY <1>t DEF BusTypes
    <3>2. Append(replies, [ask |-> a.ask, ok |-> ok]) \in Seq(Answer)
      BY <2>2, <3>1
    <3> QED BY <2>1, <3>1, <3>2
  <2>4. UNCHANGED <<busVars, dev, news>>
    BY <1>10 DEF BlueZAnswers
  <2> QED BY <1>t, <2>1, <2>3, <2>4 DEF BusTypes, busVars
<1>11. CASE BusFails
  BY <1>11, <1>t DEF BusFails, BusTypes
<1>12. CASE BusReturns \/ ChannelAccepts \/ ChannelFails \/ ChannelStalls \/ ChannelResumes
  BY <1>12, <1>t, BusAlone DEF BusReturns, ChannelAccepts, ChannelFails, ChannelStalls,
     ChannelResumes, envVars
<1>13. CASE UNCHANGED vars
  BY <1>13, <1>t, BusAlone DEF vars, envVars
<1> QED
  BY <1>1, <1>2, <1>3, <1>4, <1>5, <1>6, <1>7, <1>8, <1>9, <1>10, <1>11, <1>12, <1>13
  DEF Next, Daemon, Requests, World

\* A step that leaves the loop's own variables alone.
LEMMA LoopAlone ==
  ASSUME LoopTypes, RequestCounted, UNCHANGED loopVars
  PROVE  LoopTypes' /\ RequestCounted'
BY DEF LoopTypes, RequestCounted, loopVars

\* A step that leaves all of them alone but where the daemon is.
LEMMA LoopMoves ==
  ASSUME LoopTypes, RequestCounted,
         connected' \in BOOLEAN,
         pc' \in {"poll", "socket", "bus", "ipc", "timers", "discover", "connect", "consume"},
         ready' \subseteq {"socket", "bus"},
         ret' \in {"poll", "socket", "ipc", "consume", "timers"},
         UNCHANGED <<want, lastAsk>>, inputs' = inputs \/ (inputs < MaxInputs /\ inputs' = inputs + 1)
  PROVE  LoopTypes' /\ RequestCounted'
<1>1. inputs' \in 0 .. MaxInputs
  <2>1. inputs \in 0 .. MaxInputs
    BY Zenon DEF LoopTypes
  <2> QED BY <2>1, Numbers
<1>2. want' \in BOOLEAN /\ lastAsk' \in 0 .. MaxInputs
  BY Zenon DEF LoopTypes
<1>3. LoopTypes'
  BY <1>1, <1>2, Zenon DEF LoopTypes
<1> QED BY <1>3 DEF RequestCounted

\* What poll() reports.
LEMMA ReadyTypes == Ready \subseteq {"socket", "bus"}
BY DEF Ready

\* One step of the loop.
LEMMA LoopStep == Typed /\ [Next]_vars => LoopTypes' /\ RequestCounted'
<1> SUFFICES ASSUME Typed, [Next]_vars PROVE LoopTypes' /\ RequestCounted'
  OBVIOUS
<1>t. LoopTypes /\ RequestCounted /\ MgrTypes /\ WorldTypes
  BY DEF Typed
<1>c. connected \in BOOLEAN /\ ready \subseteq {"socket", "bus"}
      /\ ret \in {"poll", "socket", "ipc", "consume", "timers"}
  BY <1>t DEF LoopTypes
<1>r. ASSUME Reconnect PROVE connected' \in BOOLEAN
  BY <1>r, <1>c, Zenon DEF Reconnect
<1>l. ASSUME LinkUp PROVE connected' \in BOOLEAN
  BY <1>l, <1>t, LinkUpTypes
<1>w. ASSUME NEW c, WaitForBluez(c) PROVE connected' \in BOOLEAN
  BY <1>w, <1>c DEF WaitForBluez
<1>1. CASE PollReturns \/ PollReturnsForOthers
  BY <1>1, <1>t, <1>c, ReadyTypes, LoopMoves DEF PollReturns, PollReturnsForOthers
<1>2. CASE Skip
  BY <1>2, <1>t, <1>c, LoopMoves DEF Skip
<1>3. CASE SocketEvent
  <2>1. connected' \in BOOLEAN
    BY <1>3, <1>c, <1>l, <1>r DEF SocketEvent, SocketReady, SendWaiting
  <2> QED BY <1>3, <1>t, <1>c, <2>1, LoopMoves DEF SocketEvent
<1>4. CASE BusEvent
  <2>1. connected' \in BOOLEAN /\ pc' \in {"consume", "discover"} /\ ret' \in {"ipc", "consume"}
    BY <1>4, <1>c, <1>w DEF BusEvent
  <2>2. ready' = {} /\ UNCHANGED <<want, inputs, lastAsk>>
    BY <1>4, Zenon DEF BusEvent
  <2> QED BY <1>t, <2>1, <2>2, LoopMoves
<1>5. CASE EndTurn
  BY <1>5, <1>t, <1>c, LoopMoves DEF EndTurn
<1>6. CASE Timers
  <2>1. connected' \in BOOLEAN
    BY <1>6, <1>c, <1>r DEF Timers
  <2> QED BY <1>6, <1>t, <1>c, <2>1, LoopMoves DEF Timers
<1>7. CASE Discover
  <2>1. connected' \in BOOLEAN /\ pc' \in {"connect"} \cup {ret} /\ ret' \in {ret, "ipc"}
    BY <1>7, <1>c, <1>w DEF Discover, Return
  <2>2. UNCHANGED <<ready, want, inputs, lastAsk>>
    BY <1>7, Zenon DEF Discover
  <2> QED BY <1>t, <1>c, <2>1, <2>2, LoopMoves
<1>8. CASE AttemptConnect
  <2>1. connected' \in BOOLEAN
    BY <1>8, <1>c, <1>l, <1>r DEF AttemptConnect
  <2>2. pc' = ret /\ ret' = "ipc" /\ UNCHANGED <<ready, want, inputs, lastAsk>>
    BY <1>8, Zenon DEF AttemptConnect, Return
  <2> QED BY <1>t, <1>c, <2>1, <2>2, LoopMoves
<1>9. CASE ConsumeLinkResult
  BY <1>9, <1>t, <1>c, LoopMoves DEF ConsumeLinkResult, Return
<1>10. CASE RequestLookedUp
  <2>1. pc = "request" /\ pc' \in {ret, "ask", "discover"}
        /\ UNCHANGED <<connected, ready, ret, want, inputs, lastAsk>>
    BY <1>10 DEF RequestLookedUp
  <2>2. pc' \in {"poll", "socket", "bus", "ipc", "timers",
                 "discover", "connect", "request", "ask", "consume"}
    BY <1>c, <2>1
  <2>3. LoopTypes'
    BY <1>t, <2>1, <2>2, Zenon DEF LoopTypes
  <2> QED BY <1>t, <2>1, <2>3 DEF RequestCounted
<1>11. CASE AskBlueZ
  <2>1. /\ lastAsk' = inputs /\ pc' = ret /\ ret' = "ipc"
        /\ UNCHANGED <<connected, ready, want, inputs>>
    BY <1>11, Zenon DEF AskBlueZ, Return
  <2>2. pc' \in {"poll", "socket", "ipc", "consume", "timers"}
    BY <1>c, <2>1
  <2>3. LoopTypes'
    BY <1>t, <2>1, <2>2 DEF LoopTypes
  <2> QED BY <2>2, <2>3 DEF RequestCounted
<1>12. CASE Sigusr1
  BY <1>12, <1>t, <1>c, ReadyTypes, LoopMoves DEF Sigusr1
<1>13. CASE Sigusr2
  <2>1. connected' = TRUE /\ pc' \in {"socket", "discover"} /\ ret' \in {ret, "socket"}
        /\ ready' = Ready
    BY <1>13 DEF Sigusr2
  <2> QED BY <1>13, <1>t, <1>c, <2>1, ReadyTypes, LoopMoves DEF Sigusr2
<1>14. CASE Send
  <2>1. connected' \in BOOLEAN
    BY <1>14, <1>c, <1>r DEF Send, SendFails, SendWaits, SendOverflows
  <2> QED BY <1>14, <1>t, <1>c, <2>1, LoopMoves DEF Send
<1>15. ASSUME NEW connect \in Asks, RequestLink(connect) PROVE LoopTypes' /\ RequestCounted'
  <2>1. connect \in BOOLEAN
    BY BluetoothAssumption
  <2>2. inputs < MaxInputs /\ inputs' = inputs + 1 /\ inputs \in 0 .. MaxInputs
    BY <1>15, <1>t, Zenon DEF RequestLink, LoopTypes
  <2>3. inputs' \in 0 .. MaxInputs /\ inputs' \in 1 .. MaxInputs
    BY <2>2, Numbers
  <2>4. want' = connect /\ pc' = "request" /\ ret' = "ipc" /\ UNCHANGED <<connected, ready, lastAsk>>
    BY <1>15, Zenon DEF RequestLink
  <2>5. LoopTypes'
    BY <1>t, <2>1, <2>3, <2>4 DEF LoopTypes
  <2> QED BY <2>3, <2>5 DEF RequestCounted
<1>16. CASE World
  BY <1>16, <1>t, LoopAlone DEF World, TimePasses, DeviceChanges, BlueZAnswers, BusFails,
     BusReturns, ChannelAccepts, ChannelFails, ChannelStalls, ChannelResumes
<1>17. CASE UNCHANGED vars
  BY <1>17, <1>t, LoopAlone DEF vars
<1> QED
  BY <1>1, <1>2, <1>3, <1>4, <1>5, <1>6, <1>7, <1>8, <1>9, <1>10, <1>11, <1>12, <1>13,
     <1>14, <1>15, <1>16, <1>17 DEF Next, Daemon, Requests

\* One step of the bus daemon's presence and of the faults.
LEMMA WorldStep == Typed /\ [Next]_vars => WorldTypes'
<1> SUFFICES ASSUME Typed, [Next]_vars PROVE WorldTypes'
  OBVIOUS
<1>t. WorldTypes /\ MgrTypes
  BY DEF Typed
<1>s. ASSUME UNCHANGED <<busUp, faults>> PROVE WorldTypes'
  BY <1>t, <1>s DEF WorldTypes
<1>f. ASSUME busUp' = busUp, Fault PROVE WorldTypes'
  <2>1. faults' \in 0 .. MaxFaults
    BY <1>f, <1>t, FaultTypes
  <2> QED BY <1>t, <1>f, <2>1 DEF WorldTypes
<1>l. ASSUME busUp' = busUp, LinkUp PROVE WorldTypes'
  <2>1. faults' \in 0 .. MaxFaults
    BY <1>l, <1>t, LinkUpTypes
  <2> QED BY <1>t, <1>l, <2>1 DEF WorldTypes
<1>1. CASE PollReturns \/ PollReturnsForOthers \/ Skip \/ EndTurn \/ Timers \/ Send
  BY <1>1, <1>s DEF PollReturns, PollReturnsForOthers, Skip, EndTurn, Timers, Send, envVars
<1>2. CASE SocketEvent
  <2>1. busUp' = busUp
    BY <1>2 DEF SocketEvent
  <2>2. CASE SendWaiting
    BY <2>1, <2>2, <1>s, <1>f DEF SendWaiting
  <2> QED BY <1>2, <2>1, <2>2, <1>s, <1>l DEF SocketEvent, SocketReady
<1>3. CASE AttemptConnect
  BY <1>3, <1>s, <1>l, <1>f DEF AttemptConnect
<1>4. CASE BusEvent \/ Discover \/ RequestLookedUp \/ AskBlueZ \/ ConsumeLinkResult
  BY <1>4, <1>s DEF BusEvent, Discover, RequestLookedUp, AskBlueZ, ConsumeLinkResult, envVars
<1>5. CASE Sigusr1 \/ Sigusr2 \/ \E connect \in Asks : RequestLink(connect)
  BY <1>5, <1>s DEF Sigusr1, Sigusr2, RequestLink, envVars
<1>6. CASE (\E d \in {"connect", "retry", "link"} : TimePasses(d)) \/ ChannelFails \/ ChannelStalls
  BY <1>6, <1>s, <1>f DEF TimePasses, ChannelFails, ChannelStalls
<1>7. CASE DeviceChanges \/ BlueZAnswers \/ ChannelAccepts \/ ChannelResumes
  BY <1>7, <1>s DEF DeviceChanges, BlueZAnswers, ChannelAccepts, ChannelResumes, envVars
<1>8. CASE BusFails \/ BusReturns
  BY <1>8, <1>t DEF BusFails, BusReturns, WorldTypes
<1>9. CASE UNCHANGED vars
  BY <1>9, <1>s DEF vars, envVars
<1> QED
  BY <1>1, <1>2, <1>3, <1>4, <1>5, <1>6, <1>7, <1>8, <1>9 DEF Next, Daemon, Requests, World

\* The daemon starts with the shortest delay and nothing asked.
LEMMA TypedInit == Init => Typed
<1> SUFFICES ASSUME Init PROVE Typed
  OBVIOUS
<1>1. MgrTypes
  <2>1. delay = InitialBackoff /\ retry = 0
    BY DEF Init
  <2>2. delay \in InitialBackoff .. MaxBackoff /\ retry \in 0 .. MaxExponent
    BY <2>1, Numbers
  <2> QED BY <2>2 DEF Init, MgrTypes
<1>2. BusTypes
  <2>1. /\ conn \in {"none", "live", "broken"} /\ changed = FALSE /\ result = None
        /\ dev \in Whereabouts /\ news = FALSE /\ replies = <<>> /\ asks = {}
    BY DEF Init
  <2>2. <<>> \in Seq(Answer) /\ {} \subseteq [ask : 1 .. MaxInputs, connect : BOOLEAN]
    OBVIOUS
  <2> QED BY <2>1, <2>2, Zenon DEF BusTypes
<1>3. LoopTypes /\ RequestCounted
  <2>1. inputs = 0 /\ lastAsk = 0
    BY Zenon DEF Init
  <2>2. 0 \in 0 .. MaxInputs
    BY Numbers
  <2> QED BY <2>1, <2>2 DEF Init, LoopTypes, RequestCounted
<1>4. WorldTypes
  <2>1. faults \in 0 .. MaxFaults
    <3>1. faults = 0
      BY Zenon DEF Init
    <3> QED BY <3>1, Numbers
  <2>2. busUp \in BOOLEAN
    BY DEF Init
  <2> QED BY <2>1, <2>2 DEF WorldTypes
<1> QED BY <1>1, <1>2, <1>3, <1>4 DEF Typed

\* All of it together.
LEMMA TypedInvariant == Spec => []Typed
<1>1. Init => Typed
  BY TypedInit
<1>2. Typed /\ [Next]_vars => Typed'
  BY MgrStep, BusStep, LoopStep, WorldStep DEF Typed
<1> QED BY <1>1, <1>2, PTL DEF Spec

\* Every variable keeps its type, the retry counter, the queued replies and the
\* send queue's bound included.
THEOREM ConnectionTypes == Spec => []TypeOK
<1>1. Typed /\ SocketInv => TypeOK
  <2> SUFFICES ASSUME Typed, SocketInv PROVE TypeOK
    OBVIOUS
  <2>3. sendQueue \in 0 .. MaxQueue
    BY Zenon DEF SocketInv, SocketTypes
  <2>1. delay \in InitialBackoff .. MaxBackoff
    BY Zenon DEF Typed, MgrTypes
  <2>2. delay \in 0 .. MaxBackoff
    BY <2>1, Numbers
  <2> QED BY <2>2, <2>3, Zenon DEF Typed, MgrTypes, BusTypes, LoopTypes, WorldTypes, TypeOK
<1> QED BY <1>1, TypedInvariant, SocketInvariant, PTL

\* The exponential backoff never asks for less than the initial delay nor for
\* more than the maximum, whatever the number of retries
\* (BluetoothManager.cpp:1133-1137).
THEOREM BackoffStaysInRange == Spec => []DelayInRange
<1>1. Typed => DelayInRange
  BY Zenon DEF Typed, MgrTypes, DelayInRange
<1> QED BY <1>1, TypedInvariant, PTL

-----------------------------------------------------------------------------
(* Nobody sleeps through the headset's arrival. *)

\* Waiting for a signal, there is a bus to hear it on: only a lookup, which
\* looks again, may find it gone.
EarsOpen == state = "DISCONNECTED" => conn # "none" \/ pc = "discover"

\* What a lookup leaves behind.
LEMMA LookupOutcome ==
  ASSUME NEW seen, Lookup(seen), Surprises = {}
  PROVE  /\ conn' = "live" => seen = dev /\ dev' = dev
         /\ conn' = "none" => seen = "absent"
BY DEF Lookup, LookupOnBus, LookupReadsAhead, LookupWithoutBus, busVars

\* A lookup that saw the headset has a bus.
LEMMA SeenOnBus ==
  ASSUME NEW seen, Lookup(seen), seen # "absent"
  PROVE  conn' # "none"
BY DEF Lookup, LookupOnBus, LookupReadsAhead, LookupWithoutBus

\* One step without link requests and SIGUSR1.
LEMMA EarsStep ==
  ASSUME Asks = {}, "SIGUSR1" \notin Signals
  PROVE  (pc \notin {"request", "ask"} /\ ret \notin {"request", "ask"} /\ EarsOpen) /\ [Next]_vars
           => (pc \notin {"request", "ask"} /\ ret \notin {"request", "ask"} /\ EarsOpen)'
<1> SUFFICES ASSUME pc \notin {"request", "ask"}, ret \notin {"request", "ask"},
                    EarsOpen, [Next]_vars
             PROVE  (pc \notin {"request", "ask"} /\ ret \notin {"request", "ask"} /\ EarsOpen)'
  OBVIOUS
<1>1. CASE PollReturns \/ PollReturnsForOthers \/ Skip \/ EndTurn
  BY <1>1 DEF PollReturns, PollReturnsForOthers, Skip, EndTurn, EarsOpen, mgrVars, busVars
<1>2. CASE SocketEvent
  BY <1>2 DEF SocketEvent, SocketReady, LinkUp, SendWaiting, Reconnect, EarsOpen, busVars
<1>3. CASE BusEvent
  BY <1>3 DEF BusEvent, WaitForBluez, EarsOpen
<1>4. CASE Timers
  BY <1>4 DEF Timers, Reconnect, EarsOpen, busVars
<1>5. CASE Discover
  <2>1. PICK seen \in {"absent", "away", "here"} :
          /\ Lookup(seen)
          /\ IF seen = "here"
             THEN /\ pc' = "connect"
                  /\ UNCHANGED <<state, retry, delay, due, sock, sendQueue, connected, ret>>
             ELSE WaitForBluez(conn') /\ Return
    BY <1>5 DEF Discover
  <2>2. CASE seen = "here"
    BY <2>1, <2>2, SeenOnBus DEF EarsOpen
  <2>3. CASE seen # "here"
    BY <2>1, <2>3 DEF WaitForBluez, Return, EarsOpen
  <2> QED BY <2>2, <2>3
<1>6. CASE AttemptConnect
  BY <1>6 DEF AttemptConnect, LinkUp, Reconnect, Return, EarsOpen
<1>7. CASE ConsumeLinkResult
  BY <1>7 DEF ConsumeLinkResult, Return, EarsOpen
<1>8. CASE RequestLookedUp \/ AskBlueZ
  BY <1>8 DEF RequestLookedUp, AskBlueZ
<1>9. CASE Sigusr1 \/ Sigusr2
  BY <1>9 DEF Sigusr1, Sigusr2, EarsOpen, busVars
<1>10. CASE Send
  BY <1>10 DEF Send, SendFails, SendWaits, SendOverflows, Reconnect, EarsOpen, busVars
<1>11. CASE \E connect \in Asks : RequestLink(connect)
  BY <1>11
<1>12. CASE World
  BY <1>12 DEF World, TimePasses, DeviceChanges, BlueZAnswers, BusFails, BusReturns,
     ChannelAccepts, ChannelFails, ChannelStalls, ChannelResumes, EarsOpen, mgrVars, busVars, loopVars
<1>13. CASE UNCHANGED vars
  BY <1>13 DEF vars, EarsOpen, mgrVars, busVars, loopVars
<1> QED
  BY <1>1, <1>2, <1>3, <1>4, <1>5, <1>6, <1>7, <1>8, <1>9, <1>10, <1>11, <1>12, <1>13
  DEF Next, Daemon, Requests

\* While no client asks for the link and no test signal disconnects, the daemon
\* never waits for a signal without a bus connection: whoever finds the bus gone
\* goes back to polling (BluetoothManager.cpp:843-851, 914-916).
THEOREM WaitsOnALiveBus ==
  ASSUME Asks = {}, "SIGUSR1" \notin Signals
  PROVE  Spec => []NeverDeaf
<1> DEFINE Inv == pc \notin {"request", "ask"} /\ ret \notin {"request", "ask"} /\ EarsOpen
<1>1. Init => Inv
  BY DEF Init, EarsOpen
<1>2. Inv /\ [Next]_vars => Inv'
  BY EarsStep
<1>3. Inv => NeverDeaf
  BY DEF EarsOpen, NeverDeaf
<1> HIDE DEF Inv
<1> QED BY <1>1, <1>2, <1>3, PTL DEF Spec

\* Waiting with the headset here, there is news to read, or a lookup that will see it.
NewsToRead ==
  state = "DISCONNECTED" /\ conn = "live" /\ dev = "here" /\ pc \notin {"discover", "connect"}
    => news

\* Only connect requests are looked up, and the thread returns to the loop.
Asking == (pc \in {"request", "ask"} => want) /\ ret \notin {"request", "ask"}

\* One step without surprises, disconnect requests and SIGUSR1.
LEMMA NewsStep ==
  ASSUME Surprises = {}, FALSE \notin Asks, "SIGUSR1" \notin Signals
  PROVE  (NewsToRead /\ Asking) /\ [Next]_vars => (NewsToRead /\ Asking)'
<1> SUFFICES ASSUME NewsToRead, Asking, [Next]_vars PROVE (NewsToRead /\ Asking)'
  OBVIOUS
<1>1. CASE PollReturns \/ PollReturnsForOthers \/ Skip \/ EndTurn
  BY <1>1 DEF PollReturns, PollReturnsForOthers, Skip, EndTurn, NewsToRead, Asking, mgrVars,
     busVars, envVars
<1>2. CASE SocketEvent
  BY <1>2 DEF SocketEvent, SocketReady, LinkUp, SendWaiting, Reconnect, NewsToRead, Asking, busVars
<1>3. CASE BusEvent
  BY <1>3 DEF BusEvent, Dispatch, WaitForBluez, NewsToRead, Asking
<1>4. CASE Timers
  BY <1>4 DEF Timers, Reconnect, NewsToRead, Asking, busVars, envVars
<1>5. CASE Discover
  <2>1. PICK seen \in {"absent", "away", "here"} :
          /\ Lookup(seen)
          /\ IF seen = "here"
             THEN /\ pc' = "connect"
                  /\ UNCHANGED <<state, retry, delay, due, sock, sendQueue, connected, ret>>
             ELSE WaitForBluez(conn') /\ Return
    BY <1>5 DEF Discover
  <2>2. CASE seen = "here"
    BY <2>1, <2>2 DEF NewsToRead, Asking
  <2>3. CASE seen # "here"
    BY <2>1, <2>3, LookupOutcome DEF WaitForBluez, Return, NewsToRead, Asking
  <2> QED BY <2>2, <2>3
<1>6. CASE AttemptConnect
  BY <1>6 DEF AttemptConnect, LinkUp, Reconnect, Return, NewsToRead, Asking
<1>7. CASE ConsumeLinkResult
  BY <1>7 DEF ConsumeLinkResult, Return, NewsToRead, Asking, envVars
<1>8. CASE RequestLookedUp
  <2>1. PICK seen \in {"absent", "away", "here"} :
          /\ Lookup(seen)
          /\ pc' = IF seen = "absent" THEN ret
                   ELSE IF want # (seen = "here") THEN "ask"
                   ELSE IF want /\ state \in {"DISCONNECTED", "RECONNECT_BACKOFF"} THEN "discover"
                   ELSE ret
    BY <1>8 DEF RequestLookedUp
  <2>2. want /\ UNCHANGED <<state, ret, want>>
    BY <1>8 DEF RequestLookedUp, Asking, mgrVars
  <2>3. Asking'
    BY <2>1, <2>2 DEF Asking
  <2>4. CASE seen = "here"
    BY <2>1, <2>2, <2>3, <2>4 DEF NewsToRead
  <2>5. CASE seen # "here"
    BY <2>1, <2>2, <2>3, <2>5, LookupOutcome DEF NewsToRead
  <2> QED BY <2>4, <2>5
<1>9. CASE AskBlueZ
  BY <1>9 DEF AskBlueZ, Return, NewsToRead, Asking
<1>10. CASE Sigusr1 \/ Sigusr2
  BY <1>10 DEF Sigusr1, Sigusr2, NewsToRead, Asking, busVars, envVars
<1>11. CASE Send
  BY <1>11 DEF Send, SendFails, SendWaits, SendOverflows, Reconnect, NewsToRead, Asking, busVars,
     envVars
<1>12. ASSUME NEW connect \in Asks, RequestLink(connect) PROVE (NewsToRead /\ Asking)'
  <2>1. connect = TRUE
    BY BluetoothAssumption
  <2> QED BY <1>12, <2>1 DEF RequestLink, NewsToRead, Asking, mgrVars, busVars, envVars
<1>13. CASE World
  BY <1>13 DEF World, TimePasses, DeviceChanges, BlueZAnswers, BusFails, BusReturns,
     ChannelAccepts, ChannelFails, ChannelStalls, ChannelResumes, NewsToRead, Asking, mgrVars, busVars, loopVars, envVars
<1>14. CASE UNCHANGED vars
  BY <1>14 DEF vars, NewsToRead, Asking, mgrVars, busVars, loopVars, envVars
<1> QED
  BY <1>1, <1>2, <1>3, <1>4, <1>5, <1>6, <1>7, <1>8, <1>9, <1>10, <1>11, <1>12, <1>13, <1>14
  DEF Next, Daemon, Requests

\* As long as BlueZ answers every lookup and nothing is read ahead of the
\* answer, the daemon never sleeps through the headset's arrival, clients that
\* ask for the link included (BluetoothManager.cpp:837-839).
THEOREM NoLostWakeup ==
  ASSUME Surprises = {}, FALSE \notin Asks, "SIGUSR1" \notin Signals
  PROVE  Spec => []HearsArrival
<1>1. Init => NewsToRead /\ Asking
  BY DEF Init, NewsToRead, Asking
<1>2. (NewsToRead /\ Asking) /\ [Next]_vars => (NewsToRead /\ Asking)'
  BY NewsStep
<1>3. NewsToRead /\ Asking => HearsArrival
  BY DEF NewsToRead, HearsArrival
<1> QED BY <1>1, <1>2, <1>3, PTL DEF Spec

=============================================================================
