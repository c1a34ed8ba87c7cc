-------------------------- MODULE BluetoothManager --------------------------
(***************************************************************************)
(* The connection state machine of the daemon                              *)
(* (daemon/src/BluetoothManager.cpp) inside the event loop that drives it  *)
(* (main.cpp:622-724), against BlueZ, the system bus and the headset's     *)
(* RFCOMM channel, which are outside the repository.                       *)
(*                                                                         *)
(* The loop is single-threaded: poll, then the signal descriptor, the      *)
(* socket, the bus and the clients, if poll found them ready, then tick(). *)
(* A handler that asks BlueZ blocks in the call, and the world moves on    *)
(* meanwhile; `pc` says where the daemon is.  DISCOVERING and              *)
(* RESOLVING_SDP exist only inside one call and are the pc values          *)
(* "discover" and "connect".  paired_, waitReason_ and lastError_ are only *)
(* reported, and left out, and so are mock mode and autoReconnect = false. *)
(* Time is abstract: a deadline that is set may pass at any moment, and    *)
(* `due` holds those that have.  The operators named for a mistake         *)
(* (UncappedDelay, ReconnectForgetsCallback, BusEventInBackoffOnly,        *)
(* BusEventAnyState, SendOverflowsEarly, Deadline...) are faulty variants  *)
(* of the definition that follows; no specification uses them.             *)
(***************************************************************************)
EXTENDS Naturals, Sequences

CONSTANTS
  Whereabouts,   \* where the headset may be: subset of {"absent", "away", "here"}
  Asks,          \* the link requests the panel may make: a subset of {TRUE, FALSE}
  MaxInputs,     \* bound: link requests and test signals in a behaviour
  Signals,       \* subset of {"SIGUSR1", "SIGUSR2"} the tests may send
  Surprises,     \* subset of {"lookup fails", "reads ahead"}
  BusDrops,      \* whether the system bus may go away and come back
  MaxFaults,     \* bound: channels refused, lost, stalled or too slow, the headset here
  MaxQueue,      \* kMaxSendQueueBytes, 64 KiB, in frames
  InitialBackoff, MaxBackoff,   \* milliseconds
  MaxExponent    \* cap of the backoff's exponent; it is 10 in the code

ASSUME BluetoothAssumption ==
  /\ Whereabouts \subseteq {"absent", "away", "here"}
  /\ Asks \subseteq BOOLEAN /\ MaxInputs \in Nat
  /\ Signals \subseteq {"SIGUSR1", "SIGUSR2"}
  /\ Surprises \subseteq {"lookup fails", "reads ahead"}
  /\ BusDrops \in BOOLEAN /\ MaxFaults \in Nat /\ MaxQueue \in Nat
  /\ InitialBackoff \in Nat \ {0} /\ MaxBackoff \in Nat
  /\ InitialBackoff <= MaxBackoff
  /\ MaxExponent \in Nat \ {0}

None == [ask |-> 0, ok |-> TRUE]     \* no answer: takeLinkResult() gives nullopt

VARIABLES
  (* BluetoothManager *)
  state,         \* "DISCONNECTED", "CONNECTING", "CONNECTED" or "RECONNECT_BACKOFF"
  retry,         \* retryCount_
  delay,         \* the delay the retry timer was last set to
  linkState,     \* "", "connecting" or "disconnecting"
  linkError,     \* linkError_ is not empty
  due,           \* deadlines that passed: "retry", "connect", "link"
  (* the RFCOMM socket, with what the kernel has to report on it *)
  sock,          \* "closed", "connecting", "accepted", "refused", "open", "stuck", "gone"
  sendQueue,     \* sendQueue_: frames the kernel has not taken
  (* DBusDeviceDiscovery *)
  conn,          \* "none", "live", or "broken": the bus is gone, not yet noticed
  changed,       \* changed_
  result,        \* linkResult_
  (* the event loop *)
  connected,     \* the published state's `connected`, set by the callbacks
  pc,            \* where the one thread is
  ready,         \* what poll() reported: a subset of {"socket", "bus"}
  ret,           \* what follows the call it is in
  want,          \* requestLink's argument
  inputs,        \* link requests and test signals so far
  lastAsk,       \* history: the last request that was put to BlueZ
  (* BlueZ, the bus and the headset *)
  dev,           \* "absent", "away" (paired only), "here" (connected to the host)
  news,          \* an unread signal about the headset
  replies,       \* unread answers to link requests
  asks,          \* link requests BlueZ has not answered
  busUp,
  faults

mgrVars  == <<state, retry, delay, linkState, linkError, due, sock, sendQueue>>
busVars  == <<conn, changed, result>>
loopVars == <<connected, pc, ready, ret, want, inputs, lastAsk>>
envVars  == <<dev, news, replies, asks, busUp, faults>>
vars == <<mgrVars, busVars, loopVars, envVars>>

Answer == [ask : 1 .. MaxInputs, ok : BOOLEAN]

TypeOK ==
  /\ state \in {"DISCONNECTED", "CONNECTING", "CONNECTED", "RECONNECT_BACKOFF"}
  /\ retry \in 0 .. MaxExponent
  /\ delay \in 0 .. MaxBackoff
  /\ linkState \in {"", "connecting", "disconnecting"}
  /\ linkError \in BOOLEAN
  /\ due \subseteq {"retry", "connect", "link"}
  /\ sock \in {"closed", "connecting", "accepted", "refused", "open", "stuck", "gone"}
  /\ sendQueue \in 0 .. MaxQueue
  /\ conn \in {"none", "live", "broken"}
  /\ changed \in BOOLEAN
  /\ result \in Answer \cup {None}
  /\ connected \in BOOLEAN
  /\ pc \in {"poll", "socket", "bus", "ipc", "timers",
             "discover", "connect", "request", "ask", "consume"}
  /\ ready \subseteq {"socket", "bus"}
  /\ ret \in {"poll", "socket", "ipc", "consume", "timers"}
  /\ want \in BOOLEAN
  /\ inputs \in 0 .. MaxInputs
  /\ lastAsk \in 0 .. MaxInputs
  /\ dev \in Whereabouts
  /\ news \in BOOLEAN
  /\ replies \in Seq(Answer)
  /\ asks \subseteq [ask : 1 .. MaxInputs, connect : BOOLEAN]
  /\ busUp \in BOOLEAN
  /\ faults \in 0 .. MaxFaults

\* main() calls start() before the loop.
Init ==
  /\ state = "DISCONNECTED" /\ retry = 0 /\ delay = InitialBackoff
  /\ linkState = "" /\ linkError = FALSE /\ due = {}
  /\ sock = "closed" /\ sendQueue = 0
  /\ busUp \in (IF BusDrops THEN BOOLEAN ELSE {TRUE})
  /\ conn = IF busUp THEN "live" ELSE "none"
  /\ changed = FALSE /\ result = None
  /\ connected = FALSE /\ pc = "discover" /\ ret = "poll" /\ ready = {} /\ want = FALSE
  /\ inputs = 0 /\ lastAsk = 0
  /\ dev \in Whereabouts
  /\ news = FALSE /\ replies = <<>> /\ asks = {} /\ faults = 0

-----------------------------------------------------------------------------
(* Pieces of the handlers. *)

Min2(a, b) == IF a <= b THEN a ELSE b

\* b to the power n, by n multiplications.
Power(b, n) == LET p[k \in 0 .. n] == IF k = 0 THEN 1 ELSE b * p[k - 1] IN p[n]

\* initialBackoffMs * 1.5^n, truncated, at most maxBackoffMs.
UncappedDelay(n) == (InitialBackoff * Power(3, n)) \div Power(2, n)
RetryDelay(n)    == Min2((InitialBackoff * Power(3, n)) \div Power(2, n), MaxBackoff)

\* setState() restarts the clocks that depend on the state.
Rearmed == due \ {"retry", "connect"}

\* scheduleReconnect(): the callback runs only if a link was open.
ReconnectForgetsCallback ==
  LET n == Min2(retry + 1, MaxExponent)
  IN /\ sock' = "closed" /\ sendQueue' = 0
     /\ state' = "RECONNECT_BACKOFF"
     /\ retry' = n
     /\ delay' = RetryDelay(n)
     /\ due' = Rearmed
     /\ UNCHANGED connected

Reconnect ==
  LET n == Min2(retry + 1, MaxExponent)
  IN /\ sock' = "closed" /\ sendQueue' = 0
     /\ state' = "RECONNECT_BACKOFF"
     /\ retry' = n
     /\ delay' = RetryDelay(n)
     /\ due' = Rearmed
     /\ connected' = (connected /\ state # "CONNECTED")

\* Something goes wrong although the headset is here; if it is not here,
\* failure is only to be expected and not counted.
Fault ==
  /\ dev = "here" => faults < MaxFaults
  /\ faults' = faults + (IF dev = "here" THEN 1 ELSE 0)

\* linkUp().  onConnected() queues the handshake; if its first send fails the
\* link is given up again before linkUp() returns.
LinkUp ==
  /\ linkState' = IF linkState = "connecting" THEN "" ELSE linkState
  /\ linkError' = FALSE
  /\ due' = Rearmed
  /\ \/ /\ state' = "CONNECTED" /\ sock' = "open" /\ retry' = 0
        /\ connected' = TRUE
        /\ UNCHANGED <<delay, sendQueue, faults>>
     \/ /\ state' = "RECONNECT_BACKOFF" /\ sock' = "closed" /\ retry' = 1
        /\ delay' = RetryDelay(1) /\ sendQueue' = 0
        /\ connected' = FALSE
        /\ Fault

\* waitForBluez(), with the bus connection in state c afterwards.
WaitForBluez(c) ==
  /\ IF c = "live" THEN state' = "DISCONNECTED" /\ UNCHANGED delay
     ELSE state' = "RECONNECT_BACKOFF" /\ delay' = MaxBackoff
  /\ due' = Rearmed
  /\ UNCHANGED <<retry, sock, sendQueue, connected>>

\* Everything read from the bus is dispatched: onSignal, onLinkReply.  A bus
\* found gone fails the calls that were pending.
Dispatch(was) ==
  /\ changed' = (was \/ news)
  /\ news' = FALSE
  /\ replies' = <<>>
  /\ IF conn = "broken" /\ asks # {}
     THEN \E a \in asks : result' = [ask |-> a.ask, ok |-> FALSE]
     ELSE result' = IF replies = <<>> THEN result ELSE replies[Len(replies)]
  /\ asks' = IF conn = "broken" THEN {} ELSE asks
  /\ conn' = IF conn = "broken" THEN "none" ELSE conn

\* findSonyHeadphones(): ensureBus(), GetManagedObjects, dispatchAll().  The
\* daemon subscribes before it asks.  `seen` is what the answer says.
LookupOnBus(seen) ==
  /\ conn # "none" \/ busUp
  /\ IF conn = "none"
     THEN conn' = "live" /\ UNCHANGED <<changed, result, news, replies, asks>>
     ELSE Dispatch(changed)
  /\ \/ conn' = "live" /\ seen = dev
     \/ conn' = "none" /\ seen = "absent"
     \/ "lookup fails" \in Surprises /\ seen = "absent"
  /\ UNCHANGED dev

\* A change that follows the answer may be read, and dispatched, with it.
LookupReadsAhead(seen) ==
  /\ "reads ahead" \in Surprises
  /\ conn = "live"
  /\ seen = dev
  /\ dev' \in Whereabouts \ {dev}
  /\ changed' = TRUE
  /\ news' = FALSE /\ replies' = <<>>
  /\ result' = IF replies = <<>> THEN result ELSE replies[Len(replies)]
  /\ UNCHANGED <<asks, conn>>

LookupWithoutBus(seen) ==
  /\ conn = "none" /\ ~busUp
  /\ seen = "absent"
  /\ UNCHANGED <<busVars, dev, news, replies, asks>>

Lookup(seen) == LookupOnBus(seen) \/ LookupReadsAhead(seen) \/ LookupWithoutBus(seen)

-----------------------------------------------------------------------------
(* Inside a handler. *)

Return == pc' = ret /\ ret' = "ipc"

\* attemptDiscovery(): without the headset here, wait for BlueZ; with it,
\* look up the channel and connect.
Discover ==
  /\ pc = "discover"
  /\ \E seen \in {"absent", "away", "here"} :
       /\ Lookup(seen)
       /\ IF seen = "here"
          THEN /\ pc' = "connect"
               /\ UNCHANGED <<state, retry, delay, due, sock, sendQueue, connected, ret>>
          ELSE WaitForBluez(conn') /\ Return
  /\ UNCHANGED <<linkState, linkError, ready, want, inputs, lastAsk, busUp, faults>>

\* attemptSdp() and attemptConnect(): the lookup has a fallback, so all that can
\* differ is what connect() says at once.
AttemptConnect ==
  /\ pc = "connect"
  /\ \/ /\ state' = "CONNECTING" /\ sock' = "connecting" /\ due' = Rearmed
        /\ UNCHANGED <<retry, delay, linkState, linkError, sendQueue, connected, faults>>
     \/ dev = "here" /\ LinkUp
     \/ Fault /\ Reconnect /\ UNCHANGED <<linkState, linkError>>
  /\ Return
  /\ UNCHANGED <<busVars, ready, want, inputs, lastAsk, dev, news, replies, asks, busUp>>

\* consumeLinkResult()
ConsumeLinkResult ==
  /\ pc = "consume"
  /\ linkState' = IF result = None THEN linkState
                  ELSE IF ~result.ok \/ linkState = "disconnecting" THEN ""
                  ELSE linkState
  /\ linkError' = (linkError \/ (result # None /\ ~result.ok))
  /\ result' = None
  /\ Return
  /\ UNCHANGED <<state, retry, delay, due, sock, sendQueue, conn, changed, connected, ready,
                 want, inputs, lastAsk, envVars>>

\* requestLink(), up to BlueZ's answer to the lookup ...
RequestLink(connect) ==
  /\ pc = "ipc"
  /\ inputs < MaxInputs
  /\ inputs' = inputs + 1
  /\ want' = connect
  /\ pc' = "request" /\ ret' = "ipc"
  /\ UNCHANGED <<mgrVars, busVars, connected, ready, lastAsk, envVars>>

\* ... what it makes of the answer ...
RequestLookedUp ==
  /\ pc = "request"
  /\ \E seen \in {"absent", "away", "here"} :
       /\ Lookup(seen)
       /\ pc' = IF seen = "absent" THEN ret
                ELSE IF want # (seen = "here") THEN "ask"
                ELSE IF want /\ state \in {"DISCONNECTED", "RECONNECT_BACKOFF"} THEN "discover"
                ELSE ret
  /\ UNCHANGED <<mgrVars, connected, ready, ret, want, inputs, lastAsk, busUp, faults>>

\* ... and setDeviceConnected().  Sending may notice that the bus is gone;
\* nothing reads that connection again, and the next use replaces it.
AskBlueZ ==
  /\ pc = "ask"
  /\ \/ /\ asks' = asks \cup {[ask |-> inputs, connect |-> want]}
        /\ UNCHANGED <<conn, news, replies>>
     \/ /\ conn = "broken" /\ conn' = "none"
        /\ asks' = {} /\ news' = FALSE /\ replies' = <<>>
  /\ lastAsk' = inputs
  /\ result' = None
  /\ linkState' = IF want THEN "connecting" ELSE "disconnecting"
  /\ linkError' = FALSE
  /\ due' = due \ {"link"}
  /\ Return
  /\ UNCHANGED <<state, retry, delay, sock, sendQueue, changed, connected, ready, want, inputs,
                 dev, busUp, faults>>

-----------------------------------------------------------------------------
(* One turn of the loop. *)

\* What poll() reports: the connect finished, the link is gone, or there is room
\* for what waits to be sent; signals, replies or the end of the bus connection.
SocketReady == \/ state = "CONNECTING" /\ sock \in {"accepted", "refused"}
               \/ state = "CONNECTED" /\ sock = "gone"
               \/ state = "CONNECTED" /\ sock = "open" /\ sendQueue > 0
BusReady == conn = "broken" \/ (conn = "live" /\ (news \/ replies # <<>>))
Ready == (IF SocketReady THEN {"socket"} ELSE {}) \cup (IF BusReady THEN {"bus"} ELSE {})

\* The deadline the loop computes for poll().
DeadlineOfState ==
  IF state = "CONNECTING" THEN {"connect"}
  ELSE IF state = "RECONNECT_BACKOFF" THEN {"retry"} ELSE {}

DeadlineWithoutLink    == DeadlineOfState
DeadlineWithoutConnect == (DeadlineOfState \ {"connect"}) \cup (IF linkState = "" THEN {} ELSE {"link"})
DeadlineWithoutRetry   == (DeadlineOfState \ {"retry"}) \cup (IF linkState = "" THEN {} ELSE {"link"})

Deadline == DeadlineOfState \cup (IF linkState = "" THEN {} ELSE {"link"})

\* poll() returns with descriptors ready or at a deadline ...
PollReturns ==
  /\ pc = "poll"
  /\ Ready # {} \/ Deadline \cap due # {}
  /\ ready' = Ready
  /\ pc' = "socket"
  /\ UNCHANGED <<mgrVars, busVars, connected, ret, want, inputs, lastAsk, envVars>>

\* ... or because a client or the headset wrote, or the command queue has a deadline.
PollReturnsForOthers ==
  /\ pc = "poll"
  /\ ready' = Ready
  /\ pc' = "socket"
  /\ UNCHANGED <<mgrVars, busVars, connected, ret, want, inputs, lastAsk, envVars>>

\* The signal descriptor is first.  SIGUSR1: disconnect(), which calls nobody
\* back.
Sigusr1 ==
  /\ pc = "poll" /\ "SIGUSR1" \in Signals /\ inputs < MaxInputs
  /\ inputs' = inputs + 1
  /\ ready' = Ready
  /\ connected' = FALSE
  /\ sock' = "closed" /\ sendQueue' = 0 /\ state' = "DISCONNECTED" /\ due' = Rearmed
  /\ pc' = "socket"
  /\ UNCHANGED <<retry, delay, linkState, linkError, busVars, ret, want, lastAsk, envVars>>

\* SIGUSR2: start()
Sigusr2 ==
  /\ pc = "poll" /\ "SIGUSR2" \in Signals /\ inputs < MaxInputs
  /\ inputs' = inputs + 1
  /\ ready' = Ready
  /\ connected' = TRUE
  /\ IF state \in {"CONNECTED", "CONNECTING"}
     THEN pc' = "socket" /\ UNCHANGED <<retry, ret>>
     ELSE pc' = "discover" /\ ret' = "socket" /\ retry' = 0
  /\ UNCHANGED <<state, delay, linkState, linkError, due, sock, sendQueue, busVars,
                 want, lastAsk, envVars>>

\* Nothing for this descriptor, or nothing any more.
Skip ==
  /\ pc \in {"socket", "bus"}
  /\ pc \notin ready \/ (pc = "socket" /\ ~SocketReady)
  /\ pc' = IF pc = "socket" THEN "bus" ELSE "ipc"
  /\ ready' = ready \ {pc}
  /\ UNCHANGED <<mgrVars, busVars, connected, ret, want, inputs, lastAsk, envVars>>

\* handleConnectedWrite(): the kernel takes all that waits, or only a part of it.
SendWaiting ==
  /\ \E left \in 0 .. sendQueue - 1 :
       /\ sendQueue' = left
       /\ IF left = 0 THEN UNCHANGED <<sock, faults>> ELSE sock' = "stuck" /\ Fault
  /\ UNCHANGED <<state, retry, delay, linkState, linkError, due, connected>>

\* handleSocketEvent(); what is read from the headset is answered with Send.
SocketEvent ==
  /\ pc = "socket" /\ "socket" \in ready /\ SocketReady
  /\ CASE sock = "accepted" -> LinkUp
       [] sock = "open" -> SendWaiting
       [] sock \in {"refused", "gone"} ->
            Reconnect /\ UNCHANGED <<linkState, linkError, faults>>
  /\ pc' = "bus"
  /\ ready' = ready \ {"socket"}
  /\ UNCHANGED <<busVars, ret, want, inputs, lastAsk, dev, news, replies, asks, busUp>>

\* sendPacket(), where it changes anything: an ACK for what the headset sent, a
\* command of a client, or commands.tick() at the end of the turn.  It fails on
\* a channel that is gone, waits if the kernel takes nothing or others wait
\* already, and gives the link up if too much would wait.
SendFails ==
  /\ sendQueue = 0 /\ sock = "gone"
  /\ Reconnect

SendWaits ==
  /\ sendQueue > 0 \/ sock = "stuck"
  /\ sendQueue < MaxQueue
  /\ sendQueue' = sendQueue + 1
  /\ UNCHANGED <<state, retry, delay, due, sock, connected>>

\* A link given up as soon as the kernel takes nothing.
SendOverflowsEarly ==
  /\ sendQueue > 0 \/ sock = "stuck"
  /\ Reconnect

SendOverflows ==
  /\ sendQueue > 0 \/ sock = "stuck"
  /\ sendQueue = MaxQueue
  /\ Reconnect

Send ==
  /\ pc \in {"socket", "ipc", "poll"}
  /\ state = "CONNECTED"
  /\ SendFails \/ SendWaits \/ SendOverflows
  /\ UNCHANGED <<linkState, linkError, busVars, pc, ready, ret, want, inputs, lastAsk, envVars>>

\* handleBusEvent(): drainEvents(), and then a new attempt, or a poll if the
\* bus went away, or nothing; consumeLinkResult() comes last.
BusEventInBackoffOnly ==
  /\ pc = "bus" /\ "bus" \in ready
  /\ ready' = {}
  /\ Dispatch(FALSE)
  /\ IF changed' /\ state = "RECONNECT_BACKOFF"
     THEN /\ retry' = 0 /\ delay' = InitialBackoff
          /\ pc' = "discover" /\ ret' = "consume"
          /\ UNCHANGED <<state, due, sock, sendQueue, connected>>
     ELSE /\ UNCHANGED <<state, retry, delay, due, sock, sendQueue, connected>>
          /\ pc' = "consume" /\ ret' = "ipc"
  /\ UNCHANGED <<linkState, linkError, want, inputs, lastAsk, dev, busUp, faults>>

BusEventAnyState ==
  /\ pc = "bus" /\ "bus" \in ready
  /\ ready' = {}
  /\ Dispatch(FALSE)
  /\ IF changed'
     THEN /\ retry' = 0 /\ delay' = InitialBackoff
          /\ pc' = "discover" /\ ret' = "consume"
          /\ UNCHANGED <<state, due, sock, sendQueue, connected>>
     ELSE /\ UNCHANGED <<state, retry, delay, due, sock, sendQueue, connected>>
          /\ pc' = "consume" /\ ret' = "ipc"
  /\ UNCHANGED <<linkState, linkError, want, inputs, lastAsk, dev, busUp, faults>>

BusEvent ==
  /\ pc = "bus" /\ "bus" \in ready
  /\ ready' = {}
  /\ Dispatch(FALSE)
  /\ IF conn' = "none" /\ state = "DISCONNECTED"
     THEN WaitForBluez(conn') /\ pc' = "consume" /\ ret' = "ipc"
     ELSE IF changed' /\ state \in {"DISCONNECTED", "RECONNECT_BACKOFF"}
     THEN /\ retry' = 0 /\ delay' = InitialBackoff
          /\ pc' = "discover" /\ ret' = "consume"
          /\ UNCHANGED <<state, due, sock, sendQueue, connected>>
     ELSE /\ UNCHANGED <<state, retry, delay, due, sock, sendQueue, connected>>
          /\ pc' = "consume" /\ ret' = "ipc"
  /\ UNCHANGED <<linkState, linkError, want, inputs, lastAsk, dev, busUp, faults>>

\* The turn ends in tick(), which collects the link request's result first.
EndTurn ==
  /\ pc = "ipc"
  /\ pc' = "consume" /\ ret' = "timers"
  /\ UNCHANGED <<mgrVars, busVars, connected, ready, want, inputs, lastAsk, envVars>>

\* The rest of tick(): the link request's deadline, then the state's.
Timers ==
  /\ pc = "timers"
  /\ LET late == "link" \in due /\ linkState # ""
     IN /\ linkState' = IF late THEN "" ELSE linkState
        /\ linkError' = (linkError \/ (late /\ linkState = "connecting" /\ state # "CONNECTED"))
  /\ ret' = "poll"
  /\ pc' = IF state = "RECONNECT_BACKOFF" /\ "retry" \in due THEN "discover" ELSE "poll"
  /\ IF state = "CONNECTING" /\ "connect" \in due THEN Reconnect
     ELSE UNCHANGED <<state, retry, delay, due, sock, sendQueue, connected>>
  /\ UNCHANGED <<busVars, ready, want, inputs, lastAsk, envVars>>

-----------------------------------------------------------------------------
(* The world. *)

\* A deadline that is set passes: the one of a connect attempt only if the
\* headset is not here, or is too slow.
TimePasses(d) ==
  /\ d \notin due
  /\ \/ d = "connect" /\ state = "CONNECTING" /\ Fault
     \/ d = "retry" /\ state = "RECONNECT_BACKOFF" /\ UNCHANGED faults
     \/ d = "link" /\ linkState # "" /\ UNCHANGED faults
  /\ due' = due \cup {d}
  /\ UNCHANGED <<state, retry, delay, linkState, linkError, sock, sendQueue, busVars, loopVars,
                 dev, news, replies, asks, busUp>>

\* The headset is switched on or off, paired or removed, or bluetoothd restarts.
DeviceChanges ==
  /\ dev' \in Whereabouts \ {dev}
  /\ news' = (news \/ conn = "live")
  /\ UNCHANGED <<mgrVars, busVars, loopVars, replies, asks, busUp, faults>>

\* BlueZ answers a link request.
BlueZAnswers ==
  /\ \E a \in asks, ok \in BOOLEAN :
       /\ ok => (a.connect <=> dev = "here")
       /\ asks' = asks \ {a}
       /\ replies' = IF conn = "live" THEN Append(replies, [ask |-> a.ask, ok |-> ok]) ELSE replies
  /\ UNCHANGED <<mgrVars, busVars, loopVars, dev, news, busUp, faults>>

BusFails ==
  /\ BusDrops /\ busUp
  /\ busUp' = FALSE
  /\ conn' = IF conn = "live" THEN "broken" ELSE conn
  /\ UNCHANGED <<mgrVars, changed, result, loopVars, dev, news, replies, asks, faults>>

BusReturns ==
  /\ ~busUp
  /\ busUp' = TRUE
  /\ UNCHANGED <<mgrVars, busVars, loopVars, dev, news, replies, asks, faults>>

ChannelAccepts ==
  /\ sock = "connecting" /\ dev = "here"
  /\ sock' = "accepted"
  /\ UNCHANGED <<state, retry, delay, linkState, linkError, due, sendQueue, busVars, loopVars,
                 envVars>>

\* The channel is refused or lost, because the headset is not here or all the same.
ChannelFails ==
  /\ \/ sock = "connecting" /\ sock' = "refused"
     \/ sock \in {"open", "stuck"} /\ sock' = "gone"
  /\ Fault
  /\ UNCHANGED <<state, retry, delay, linkState, linkError, due, sendQueue, busVars, loopVars,
                 dev, news, replies, asks, busUp>>

\* The kernel takes nothing more: the headset withholds its credits, or there is
\* more to send than there is room for.
ChannelStalls ==
  /\ sock = "open" /\ sock' = "stuck"
  /\ Fault
  /\ UNCHANGED <<state, retry, delay, linkState, linkError, due, sendQueue, busVars, loopVars,
                 dev, news, replies, asks, busUp>>

ChannelResumes ==
  /\ sock = "stuck" /\ sock' = "open"
  /\ UNCHANGED <<state, retry, delay, linkState, linkError, due, sendQueue, busVars, loopVars,
                 envVars>>

-----------------------------------------------------------------------------
Daemon == \/ PollReturns \/ Skip \/ SocketEvent \/ BusEvent \/ EndTurn \/ Timers
          \/ Discover \/ AttemptConnect \/ ConsumeLinkResult
          \/ RequestLookedUp \/ AskBlueZ

Requests == \/ PollReturnsForOthers \/ Sigusr1 \/ Sigusr2 \/ Send
            \/ \E connect \in Asks : RequestLink(connect)

World == \/ \E d \in {"connect", "retry", "link"} : TimePasses(d)
         \/ DeviceChanges \/ BlueZAnswers \/ BusFails \/ BusReturns
         \/ ChannelAccepts \/ ChannelFails \/ ChannelStalls \/ ChannelResumes

Next == Daemon \/ Requests \/ World

\* Calls return and the loop goes on, time passes, and a headset that stays
\* here answers in time, but for MaxFaults times.
Fairness ==
  /\ WF_vars(Daemon)
  /\ SF_vars(TimePasses("connect"))
  /\ WF_vars(TimePasses("retry")) /\ WF_vars(TimePasses("link"))
  /\ WF_vars(ChannelAccepts)

Spec == Init /\ [][Next]_vars
FairSpec == Spec /\ Fairness

-----------------------------------------------------------------------------
(* Properties. *)

\* The loop never sleeps on news it has already read: waiting with the headset
\* here, there is a signal still to be read (BluetoothManager.cpp:837-839).
HearsArrival ==
  pc = "poll" /\ state = "DISCONNECTED" /\ conn = "live" /\ dev = "here" => news

\* Nor does it wait for a signal with no bus to hear it on.
NeverDeaf == pc = "poll" /\ state = "DISCONNECTED" => conn # "none"

\* The published `connected` is the link: onConnected and onDisconnected come
\* in pairs, a failed attempt is no disconnect, a failed handshake is one.
ConnectedIsTrue == connected <=> state = "CONNECTED"

\* Every path out of a link or an attempt closes its socket and forgets what
\* waited to be sent, and no second attempt starts over a live one.
NoStraySocket ==
  /\ state = "CONNECTED" <=> sock \in {"open", "stuck", "gone"}
  /\ state = "CONNECTING" <=> sock \in {"connecting", "accepted", "refused"}
  /\ sendQueue > 0 => state = "CONNECTED"

\* An open link is given up only when its channel is gone, or when the most that
\* may wait to be sent waits already ("Headset stopped reading",
\* BluetoothManager.cpp:1100-1103): no news from BlueZ, no lost bus, no deadline,
\* no channel that stalls for a while and no stale result of poll() costs the
\* user the link.
LinkOutlivesNews ==
  [][state = "CONNECTED" /\ state' # "CONNECTED" => sock = "gone" \/ sendQueue = MaxQueue]_vars

\* A retry is never sooner than the initial nor later than the maximum delay.
DelayInRange == delay \in InitialBackoff .. MaxBackoff

\* takeLinkResult() is "the outcome of the last setDeviceConnected()"
\* (BluetoothManager.hpp:106-107).
ResultIsOfLastRequest == result # None => result.ask = lastAsk

\* A link request stops showing as under way, whatever BlueZ does.
LinkRequestEnds == linkState # "" ~> linkState = ""

\* A connect attempt comes to an end.
AttemptEnds == state = "CONNECTING" ~> state # "CONNECTING"

\* With the headset here and the bus up, the link comes up, whatever went wrong
\* before.
Recovers == <>[](dev = "here" /\ busUp) => <>[](state = "CONNECTED")

=============================================================================
