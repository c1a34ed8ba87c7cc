# Verification of omarchy-sony-xm3

TLA+ models, TLC runs and TLAPS proofs about the daemon that controls a Sony
WH-1000XM3 headset over Bluetooth (`src/daemon`), its IPC clients and its
installer. Paths below are relative to the repository root unless they name a
file of this directory.

Check a module with `tlc -config <X>.cfg <Module>` and a proof with
`tlapm <Module>Proofs.tla`. `PROJECT.json` lists the runs, which lines of the
source each definition stands for, the hazards of the code with the properties
aimed at them, the faulty variants that the runs must reject, and the theorems.

## 1. Inventory

The daemon is one thread around `poll()` (`main.cpp:622-724`). Its parts call
one another directly and call back through `std::function`s, so the hard parts
are not data races. They are: callbacks that re-enter their caller, blocking
calls during which the world moves, results of `poll()` and replies of BlueZ
that are stale when used, retransmission against a headset that drops commands
without a word, and reconnection.

| Component | Source | State it keeps | Operations | Talks to |
|---|---|---|---|---|
| MDR command queue | `CommandQueue.hpp` | waiting commands, the one in flight, sequence bit, retry count, ACK deadline | `enqueue`, `onFrame`, `tick`, `reset` | `sendPacket`, the event loop |
| MDR link | `main.cpp:274-420` | link epoch, stream framer, `keyAssignRequested` | `onConnected`, `onDisconnected`, `onDataReceived`, `send` | queue, manager, state engine, headset |
| Bluetooth connection manager | `BluetoothManager.cpp` | connection state, backoff, link request, send queue, D-Bus connection and its flags | `start`, `disconnect`, `requestLink`, `handleSocketEvent`, `handleBusEvent`, `tick`, `sendPacket` | BlueZ over D-Bus, RFCOMM socket, SDP |
| Event loop and state engine | `main.cpp`, `StateEngine.cpp` | headset state, last published status, battery warning | one turn: signals, socket, bus, clients, ticks, publish | everything |
| IPC server | `IpcServer.cpp` | clients with in- and output buffers, subscriptions, socket path | accept, read lines, answer, broadcast, adopt or replace a socket file | panel and command line |
| Panel service client | `Service.qml` | connection, pending optimistic values, three timers | connect, handshake, send, parse a line, time out, retry | IPC server |
| MDR wire format | `MDRProtocolV1.cpp` | stream framer's buffer | escape, frame, resynchronise, parse payloads | MDR link |
| SDP resolver | `BluetoothManager.cpp` | none | one blocking lookup with a fallback channel | headset |
| Panel model | `Model.js` | none | normalise and format a status | panel |
| Panel user interface | `Panel.qml`, `SonyIcon.qml` | widgets | calls of the service client | user |
| Command line client | `cli/src/main.cpp` | none | one request, one reply | IPC server |
| File installer | `installer/deploy.cpp` | files, temporary files | copy, rename, remove | file system |
| Setup script and units | `setup`, `sony-xm3.service`, `.socket` | none | build, install, start | systemd |

What makes each one correct:

- *Command queue and link*: at most one command is unacknowledged; none is lost
  silently; order is kept; retries end; nothing crosses from one link to the
  next; the queue keeps its cap; the newest value of a setting wins.
- *Connection manager*: the published `connected` is the link; sockets match
  the state; no arrival of the headset is slept through; every attempt and
  every link request ends; backoff stays in range; with the headset here the
  link comes back.
- *Event loop and state engine*: subscribers end up with the last state; the
  daemon's copy of the headset's settings ends up true; an alert is answered
  yes only for a request of the user; the headset is not provoked.
- *IPC server*: a client's requests are answered whole and in order, and in the
  end; a push never tears a line; limits hold; nobody is shown an older status
  after a newer one; a daemon that ends loses no client that was waiting.
- *Wire format*: every frame sent is found again, whatever the boundaries of
  the reads and however the last link ended.
- *Installer*: at every moment, also after a power loss, each file is the old
  one or the whole of a new one; the exit status is true; nothing else is
  touched.
- *Service client*: a late line of an old connection changes nothing; an
  unanswering daemon is noticed; an optimistic value ends. (Not checked: see
  section 7.)

## 2. Plan

Built, in this order:

1. `CommandQueue`: the queue against an arbitrary headset.
2. `CommandService`: what the control channel promises.
3. `MdrLink`: the queue composed with the headset; refines `CommandService`.
4. `MdrLinkProofs`: theorems about both.
5. `BluetoothManager`: connection state machine and turn of the loop.
6. `BluetoothProofs`: sockets, published state and open links.

7. `StatusFeed`, `IpcServer`: clients, request lines, status pushes and limits
   inside the loop's publish-on-change; refines `StatusFeed`.
8. `MdrCodec`, `HeadsetControl`: a setting's way from the verb to the bytes and
   back into the daemon's copy, with alerts and the LDAC guard.
9. `Deploy`, `DeployProofs`, `HeadsetProofs`.

10. `IpcProofs`, `MdrLinkServiceProofs`, and the rest of `BluetoothProofs` and
   `DeployProofs`.

11. `CodecProofs`, and the rest of `HeadsetProofs`: from the bytes to the copy.

With that every invariant and action property a run checks is proved, and what
is left to TLC is liveness. Left to model: the panel's client, once the
behaviour of Quickshell's sockets is pinned down.

## 3. Modules

| Module | Stands for |
|---|---|
| `CommandQueue` | `CommandQueue.hpp` and the parts of `sendPacket`, `scheduleReconnect` and the callbacks that act on it, under any headset |
| `CommandService` | abstract: commands are carried out in order, at least once, and leave the list only on record |
| `MdrLink` | `CommandQueue` with the headset and the bookkeeping the properties need |
| `MCMdrLink` | instances of `MdrLink`: which labels exist and which setting each writes |
| `BluetoothManager` | the connection manager and its D-Bus discovery inside the event loop, with BlueZ, the bus and the RFCOMM channel |
| `MCBluetooth` | the module of the Bluetooth runs |
| `StatusFeed` | abstract: what a reader of the status is shown only ever gets newer |
| `IpcServer` | the socket server and publication in the event loop, with clients and socket buffers |
| `MCIpc` | two clients, and a status that reads like the one before the last |
| `MdrCodec` | frames, escapes, framer and payloads, byte for byte; operators only |
| `HeadsetControl` | verbs, setters, the daemon's copy of the state, the queue by its contract, the headset, `onDataReceived` |
| `MCHeadset` | the module of its run: four settings and few values |
| `Deploy` | `sony-xm3-deploy`, system call by system call, several at once |
| `MCDeploy` | two puts that share a file, one of them from the installed copy, and a remove |
| `Recursion` | induction and recursion in a form the provers can use; lemmas only |
| `CodecProofs`, `MdrLinkProofs`, `MdrLinkServiceProofs`, `BluetoothProofs`, `IpcProofs`, `HeadsetProofs`, `DeployProofs` | theorems, section 6 |

Some definitions are followed or preceded by a variant named for a mistake
(`PumpNewestFirst`, `BusEventAnyState`, ...). No specification uses them. Each
stands for a plausible bug, and putting it in place of the real definition
makes some run fail: this is how we know that each property can fail.

### CommandQueue and MdrLink

`pending`, `inFlight`, `seq` and `retries` are the members of the class.
`linked` is "the manager is CONNECTED". `wire` merges the manager's send queue,
the socket buffer and the air, in order: they form one first-in first-out path
that `scheduleReconnect` empties as a whole. A command is its label and an id
that stands for its payload. `Enqueue` has the code's outcomes in its order:
coalesce into the place of a waiting command of the same label, drop at
`kMaxPending`, or join and pump. Anything that sends may fail, and then
`scheduleReconnect` calls `onDisconnected`, which resets the queue while
`pump()` is still on the stack: `DropLink` is a disjunct of every sending step.

A frame is handled at a time, where the code reads a chunk and loops over its
frames. Each behaviour of the code is one of the model, since nothing
happens between the frames of a chunk that the model would have to do. The ACK
clock is abstract: the deadline may pass whenever `DeadlinePasses` allows it.
With `LateAcks = FALSE` it does so only if neither a command nor an ACK is
under way, i.e. the ACK was lost; with `LateAcks = TRUE` at any time. The real
system is the second whenever the headset is slower than 1 s or the loop is
blocked, for up to 2 s in a BlueZ lookup. ACKs get lost because the code drops
undecodable frames and the headset may not send one.

`issued`, `links`, `firstOnLink`, `requested`, `executed`, `discarded`, `tries`
and `inStep` are history: no guard but the bounds reads them.

### BluetoothManager

The state, the retry count, `linkState`, `linkError`, `changed` and `result`
are the class's and the discovery's members. `pc` says where the one thread
is: sleeping in `poll`, at one of the descriptors (`socket`, `bus`, `ipc`), in
`tick` (`consume`, `timers`), or inside a blocking call (`discover`, `connect`,
`request`, `ask`), with `ret` what comes after it. `ready` is what poll() reported
and may be out of date when it is used. `DISCOVERING` and `RESOLVING_SDP` are
the pc values `discover` and `connect`; nothing else can run in those states.

| Action | Code |
|---|---|
| `PollReturns`, `PollReturnsForOthers`, `Skip`, `EndTurn` | one turn of the loop |
| `Sigusr1`, `Sigusr2` | the test signals |
| `SocketEvent`, with `SendWaiting` | `handleSocketEvent`, `handleConnectedWrite` |
| `Send`: `SendFails`, `SendWaits`, `SendOverflows` | `sendPacket` |
| `BusEvent` | `handleBusEvent` |
| `RequestLink`, `RequestLookedUp`, `AskBlueZ` | `requestLink`, in the three parts its blocking call cuts it into |
| `Discover`, `AttemptConnect` | `attemptDiscovery`, `attemptSdp`, `attemptConnect` |
| `ConsumeLinkResult`, `Timers` | `consumeLinkResult`, the rest of `tick` |
| `TimePasses`, `DeviceChanges`, `BlueZAnswers`, `BusFails`, `BusReturns`, `ChannelAccepts`, `ChannelFails`, `ChannelStalls`, `ChannelResumes` | the world |

A lookup is atomic, and asks on a connection that subscribed before, as the code
does. `Surprises` adds two things the code can meet: an answer
that fails or times out, and a signal read together with the answer it
follows. `conn = "broken"` is a bus that went away and that libdbus has not
noticed; noticing it fails the pending calls. The SDP lookup has a fallback
channel and so cannot fail.

`sendQueue` counts the frames the kernel has not taken, which it takes none of
while the channel is `stuck`: the headset withholds its credits, or the socket
is full. `sendPacket` then queues, and gives the link up when more than
`MaxQueue` frames (64 KiB in the code) would wait, the one way to lose a link
whose channel is not gone. `handleConnectedWrite` sends what waits, or a part of
it. A frame the kernel takes at once changes nothing here and is no step. What
is sent from the socket's handler is the ACK of what was read there.

### IpcServer

`clients_` is `open` with `subscribed`, `inBuf` and `outBuf`. `pc` says where
the one thread is in a turn: `poll`, the listener and clients (`ipc`), or
inside `handleClientRead` of the client in `reading`. `events` and `listen` are
what poll() reported, which may be out of date when it is used: clients write,
read and leave between any two steps, also between two recv() of one handler.
`toServer`, `toClient` and `waiting` are the kernel's.

| Action | Code |
|---|---|
| `PollReturns` | poll() and the descriptors served first, which may change the status (`main.cpp:646-690`) |
| `AcceptClients` | `acceptClients` |
| `HangUp`, `Serve` | `handleSocketEvent`: hang-ups first, then writing, then reading |
| `Recv` | one recv() of `handleClientRead`, with the limit on a line |
| `Subscribe`, `Unsubscribe`, `Status`, `Command` | one line answered, flushed at once (`queueResponse`) |
| `Publish` | ticks, then `broadcastStatus` if the status reads differently from the last one pushed |
| `Ends`, `Starts` | the daemon ends in any state; systemd starts one for what waits at the socket it kept |
| `Connect`, `StartLine`, `EndLine`, `Hear`, `Leave` | clients |

A request has a kind and a length (`Writes`): so many symbols, then its
newline, sent separately, and read in whatever pieces the kernel has. So a line
within the limit can be partly in the buffer when the rest of it comes together
with the requests behind it, and the limit is tested on all of that, as in
`IpcServer.cpp:332-341`. A line to a client is one symbol and a newline. A
version of the status is a number and `StatusOf` its text: two versions that
read alike are what the code's comparison of strings cannot tell apart. `owed`,
`due`, `told` and `seen` are history.

### MdrCodec and HeadsetControl

`MdrCodec` keeps the bytes: markers, escapes, checksum, lengths and the
payloads that query, set and report each setting. A value is its code on the
wire; the strings the code has for it stand one to one for the code. In
`HeadsetControl` `state` is the `HeadphoneState`, `buffer` the framer's, and
`queue` the command queue by its contract: coalescing, one command at the
headset, in order, given up if never acknowledged (`CommandQueue` and
`MdrLink` show how that is kept, and where it is not). `LinkUp` sends the
handshake, `LinkDown` is `onDisconnected`, the `Set...` actions are verb and
setter in one, since one turn does both; `Read` is one read of the channel and
`HandleFrame` one round of the loop over its frames, so a link may go down in
between. A read returns all there is or `ReadMax` bytes, if there are more, or
by chance fewer (`ReadSizes`). The framer drops what it holds when a read does
not fit (`FramerLimit`); as no frame of the headset's is longer than `MaxFrame`
and what is held is part of one frame, 1 KB and 64 KB leave ample room
(`ControlAssumption`). `unsure` is history: settings of which a command was
given up or declined, until the headset reports them. `doubts` and `blind` are
history too: the causes for which the copy of the connection mode may be wrong
about the mode to be, and those an equalizer command was sent under or has met
while it waits; `declined` keeps `blind` for each command declined. The headset
is outside (`Take`, `OwnChange`, `OwnQuestion`): it
carries out one command at a time, acknowledges, reports what changed, declines
the equalizer on LDAC, and asks before its button is changed.

### Deploy

One destination, `Depth` directories below the home directory. A directory has
an identity, so that one removed and made again is another; `held` and `parent`
are the descriptors `walkFromHome` keeps, and an entry is looked up only in the
directory that is open (`Here`). An inode is how much has been written, whether
it has its mode, and whether a power loss would spare it. Each system call that
other processes could see or change the outcome of is an action (`Walk`,
`Mkdir`, `Reopen`, `Stat`, `Create`, `Copy`, `Chmod`, `Fsync`, `Rename`;
`ListNames`, `Examine`, `Unlink`, `Finish`), each that can fail may fail
(`Fault`), and between them a process is killed, the power goes, or the user's
other programs change files and directories. `DeployAssumption` takes each
invocation to be given a list of names that is not empty and has no name twice:
a `put` of two files with one base name, which places the second over the
first, and a `remove` of patterns only are left out. `OnlyItsOwn` asks of a
change that some invocation that is running was given the name, since the state
does not tell which of several made it.

## 4. Runs

| Run | Expect | Shows |
|---|---|---|
| `lost_acks` | pass | type invariant, cap, no backlog, one command at a time, nothing lost silently, newest value wins, sequence bits in step; refines `CommandService`; every command leaves the queue |
| `late_acks` | pass | what survives ACKs read too late: no stall, no command of an earlier link, no setting taken back, the full retry budget |
| `late_ack_loss` | violation | an ACK read after the retransmission answers for the next command, and one is lost |
| `noise_order` | violation | coalescing by label reorders two labels that write one headset parameter |
| `bt_recovers` | pass | no arrival slept through, no waiting without a bus, `connected` is the link, sockets match states, delays in range, attempts end, an open link is given up only when its channel is gone or the send queue is full, the link comes back |
| `bt_requests` | pass | with overlapping link requests, test signals and failing lookups: types, sockets match states, no request is under way for ever |
| `bt_lost_wakeup` | violation | a failed lookup counts as "no headset paired", and the daemon sleeps beside a connected one |
| `bt_deaf` | violation | a bus found dead inside a link request leaves the daemon waiting with nothing to wake it |
| `bt_stale_reply` | violation | the reply to an earlier link request is taken for the outcome of the last |
| `ipc` | pass | types and limits, lines whole, answers complete and in order, lines refused only for their length or for what was sent behind them without waiting, queues of pushes bounded, subscribers up to date after each turn, every client that reads is served; refines `StatusFeed` |
| `headset_state` | pass | types, no frame lost or mixed up, the copy true once nothing is under way, alerts answered yes only when asked, no objection provoked but for one of four causes |
| `deploy` | pass | types, targets whole at every moment, exit status true, nothing else touched |

The five violations are disagreements between the code and its own comments;
`PROJECT.json` quotes the lines under "findings". Where a property holds only
without the cause of such a finding, the passing run leaves the cause out
(`LateAcks`, one label per setting, `Asks`, `Surprises`), or the property names
the cause ("overtaken" in `NeverProvokes`), and this table is to
be read that way: `HearsArrival` and `NeverDeaf` are shown for a daemon nobody
sends link requests, and with lookups that succeed (their theorems say which of
the two each needs).

`CHECK_DEADLOCK FALSE` appears in every configuration, because a behaviour may
stop: the bounds are used up, or the daemon sleeps with nothing to wait for.
That it does not stop too early is what the liveness properties say.

### Bounds

- `MaxIssued` 4 to 5, `MaxLinks` 2: a handshake, two waiting commands, one that
  coalesces or meets the cap, and a second link that inherits from the first.
- `MaxPending` 2 and `MaxRetries` 1 to 3 instead of 64 and 3: the cap is met
  and the budget used up. The code's handshake of 23 commands fits its queue;
  the model assumes as much (`LinkAssumption`).
- `MaxWire` 1 bounds only notifications of the headset. The daemon's own
  commands are not held back by it.
- `MaxExponent` 4 in `bt_recovers`: 2000 ms times 1.5^4 is past the maximum of
  10000 ms, so a higher count changes no delay. `bt_requests`, which is not
  about delays, starts at the maximum and needs 1.
- `MaxFaults` 1: one refused, lost, stalled or late channel, or one failed
  handshake, while the headset is here; any number while it is away.
- `MaxQueue` 2 frames for 64 KiB: none waits, some wait, and one more is too
  many; a queue is emptied at once or in part.
- `MaxInputs` 2: two requests or signals, enough for two calls of BlueZ to be
  pending at once and for a signal to cut into a request.

- `ipc`: two clients, one that subscribes and polls and one that sets and
  subscribes; two lines in all, each cut anywhere; a limit of 3 symbols on a
  line, reads of 2 and a socket that takes 1. The lines have 1, 2 and 3 symbols
  and a newline: one that leaves room for a read, one that is within the limit
  and may pass it with what follows, one that is too long by its newline. Each
  line is cut, each answer sent in pieces, and the limit on what waits
  (`MaxOut` 3) met. Status versions 0, 1, 2, of which 0 and 2 read alike. One
  restart.
- `headset_state`: `ReadMax` 64 and `FramerLimit` 96, which is `ReadMax` plus
  the longest frame; a setting of the LDAC group, the connection mode, the button
  and the volume, noise control, and a battery level of 61, whose byte is the
  escape sentry; reads of 10 bytes cut every frame; `MaxEvents` 3 counts verbs,
  own changes, short reads, commands given up and links lost together: a verb,
  a change that crosses it and a lost link is the longest story the properties
  need. Two mode commands and an equalizer command are the shortest
  that ends in an objection for an overtaken report.
- `deploy`: two puts of a shared name and a remove with `--rmdir`, two
  directories deep, files of two write() calls, one act of another program and
  one failing call, kill or power loss in any state.

Headset, BlueZ and bus may change any number of times in every run of
`MdrLink` and `BluetoothManager`.

### Fairness

- `MdrLink`: `ReceiveAck`, the ticks, and the headset's reading are weakly
  fair. The loop reads what the socket has and sleeps no longer than the ACK
  deadline (`main.cpp:648`); a headset that stops reading is dropped at 64 KiB.
- `BluetoothManager`: `Daemon` is weakly fair: the thread is never blocked for
  ever, since the D-Bus call has a timeout of 2 s and the rest does not block.
  A turn that `poll` is not woken for is not assumed: `PollReturnsForOthers` is
  not fair. A deadline that stays set passes; the one of a connect attempt is
  strongly fair, because its guard comes and goes with the headset. A headset
  that stays here accepts the channel in the end, but for `MaxFaults` times.
  BlueZ is not assumed to answer, nor the kernel to report a lost headset.
- `IpcServer`: the loop goes round when poll() has something to report, and
  systemd starts a daemon for a connection that waits (`sony-xm3.socket`):
  `WF_vars(Turns)`. A client that is said to be served reads what has come
  (`Hear`). Nothing is assumed of the other clients, and no turn without a
  descriptor that is ready.
- `HeadsetControl` and `Deploy` have safety properties only.

## 5. What is found

Each item is a run that TLC reproduces as a counterexample.

1. *Late ACKs.* `onFrame` matches an ACK to whatever is in flight. After a
   premature retransmission the headset's two ACKs answer for two commands, and
   the queue runs one ahead of the headset. `CommandQueue.hpp:18-20` says that
   what is sent before an ACK arrives is dropped without a word.
2. *Coalescing across labels.* "noise mode" and "ambient level" write one
   parameter, but coalesce apart: the newest value may be sent first.
3. *Lost wake-up.* See `bt_lost_wakeup`. The same property fails if a signal is
   read with the answer of a lookup (`Surprises = {"reads ahead"}`), and if the
   panel asks to disconnect just as the headset arrives and BlueZ then refuses
   (`Asks = {FALSE}`): the lookup uses up the signal.
4. *Deaf.* `requestLink` does not go back to `waitForBluez` when its lookup
   finds that the bus is gone.
5. *Stale reply.* A pending reply is not cancelled by the next request.

What the new models show without contradicting a property:

- `docs/protocol-v1.md:338-339` says the daemon never provokes the headset's
  objection on LDAC. The code keeps this but for four causes, which
  `NeverProvokes` names: the mode not told yet on this link, the headset's own
  change, a mode command given up, of which the daemon cannot know, and the
  overtaken report, of which it could. Any report overwrites the copy
  (`main.cpp:400-403`), also one the headset sent before a newer command of the
  daemon's. After `connection stable` and `connection quality` in a row the
  report of the first says "stable" while the second is on its way: `eq` passes
  the guard, and the headset, on LDAC by then, objects. The invariant without
  this cause, `\A causes \in declined : causes \ {"overtaken"} # {}`, fails in
  TLC on that story, with three verbs.
- Documents promise a little more than the code keeps elsewhere too.
  `README.md:137` says every state change is pushed: a change and its reversal
  within one turn are not (`UpToDate` names the one case where a subscriber is
  left with the value in between). `Service.qml:70` falls back to the daemon's
  truth if the headset never confirms: the daemon's copy is optimistic itself
  and stays so when a command was given up (`Truthful` excepts it). A later
  command for the same setting that is acknowledged does not end this: two
  noise commands wait under different labels, and a third takes the place of
  the first. If that one is given up, the headset may acknowledge the second,
  which changes nothing and hence is not reported. So only a report makes a
  setting sure.
- Any alert clears `keyAssignRequested`: one that comes before the button's own
  makes the daemon decline what the user asked for. It never errs the other way
  (`YesOnlyAsked`, proved).
- A request within the limit on a line can be refused, and its connection
  closed, for requests sent behind it without waiting: of a line of 2500 bytes
  2100 may be in the buffer when one recv() brings 2048 more, and 4148 is more
  than 4096 (`IpcServer.cpp:330-341`, `IpcServer.hpp:138`). `AnswersInOrder` says
  so (`Refusable`). No document promises otherwise, and no client of the
  repository sends such lines.
- Answers are not subject to `maxOutBuffer_`, only pushes are: a client that asks
  and never reads makes its buffer grow (`QueuesBounded` is about pushes).
- A put whose directory vanishes between mkdirat() and openat() goes on without
  one; every later call fails, and it exits with 1. A failed copy leaves its
  temporary file behind, and also exits with 1 (`StatusTrue`).

## 6. Proofs

The theorems hold for every value of the constants under the named assumptions
of the modules (`QueueAssumption`, `LinkAssumption`, `BluetoothAssumption`,
`IpcAssumption`, `ControlAssumption`, `DeployAssumption`), which say of what
kind the constants are. Some need more, and state it as an ASSUME of their own:

| Hypothesis | Needed by | Why |
|---|---|---|
| `~LateAcks` | `LinkOneAtATime`, `LinkLosesNothingSilently`, `LinkStaysInStep`, `LinkImplementsService`, `LinkNewestValueWins` | with late ACKs the code loses commands (`late_ack_loss`) |
| `OneLabel`: each setting is written under one label | `LinkNeverGoesBack`, `LinkNewestValueWins` | with two the code reorders them (`noise_order`) |
| `OnlyClientsWrite`: handshake and alert replies set nothing | `LinkNewestValueWins` | the handshake only queries (`main.cpp:318-341`), and a reply to an alert is no setting |
| `Asks = {}`, no SIGUSR1 | `WaitsOnALiveBus` | a request that finds the bus dead leaves the daemon deaf (`bt_deaf`) |
| `Surprises = {}`, no request to disconnect, no SIGUSR1 | `NoLostWakeup` | `bt_lost_wakeup` and item 3 of section 5 |
| no SIGUSR1, or no test signal | `NewsSparesTheLink`, `PublishedConnectionIsTrue` | the signal exists to give up a link |

**MdrLinkProofs.** First the queue alone. `QInv` is the conjunction of the type invariant,
`NoStall`, `QueueBounded` and `NoBacklog`. It is inductive: `NoStall` is what
makes `NoBacklog` go through at a pump, and the type invariant gives lengths.
`QueueInvariant` proves it of the queue alone, where any frame may arrive at
any time and any send may fail, so it does not rest on the model of the
headset.

Then the link. `LinkImplementsQueue`: every step of `MdrLink` is a step of
the stand-alone queue or leaves it alone. It needs `CountersOK` (ids are
numbers) to see that issued commands are commands. `LinkNeverStalls`,
`LinkQueueBounded` and `LinkNoBacklog` follow from it. Then three invariants,
each a strengthening:

- `LinkFresh`: while a link is up, everything waiting, in flight or on the wire
  has an id of this link. `OnlyThisLinksCommands` alone is not inductive, since
  what waits is sent later. Off the link old commands may be queued, after
  SIGUSR1, and `onConnected` resets them away. Gives `LinkSendsOnlyItsOwn`.
- `OutstandingNow` (for `~LateAcks`): the command in flight, the wire and the
  ACKs fit one of: nothing is under way, one copy of the command is on the
  wire, or it was carried out and its one ACK is unread. Gives `LinkOneAtATime`.
- `Accounted` (for `~LateAcks`, using the previous): every id issued is queued,
  carried out or discarded. Gives `LinkLosesNothingSilently`.

**MdrLinkServiceProofs.** The queue is changed in six ways only, whoever does
it: a command joins, one takes the place of a waiting one, the next goes into
flight, all are dropped, a handshake opens, nothing. `StepKinds` shows this of
each action once, and `WireKinds` the same of what is sent; what follows is
proved per way, not per action.

- `Numbered`: ids are given out once, and no two held commands share one.
  `Counted`: `tries` is one more than `retries` for a command in flight. Gives
  `GivesUpAfterTheBudget`; with `HistoryTypes`, `LinkKeepsTypes`.
- `InOrder`: of one label, what is in flight is older than what waits, what is
  on the wire is in order and none of it newer than what is in flight, and
  nothing older than what the headset has of a setting is still to come.
  `SettingNeverGoesBack` alone knows nothing of the queue and the wire. Gives
  `LinkNeverGoesBack`, also with late ACKs.
- `AckNames`: the unread ACK names the bit the headset expects next. With
  `OutstandingNow` it gives `LinkStaysInStep`.
- `Newest`: what is held is no newer than the newest command of its setting, and
  if that one was carried out the headset has its value. With `Accounted`, by
  which it is held, carried out or discarded, it gives `LinkNewestValueWins`.
- `LinkImplementsService`: `todo` is the command in flight and what waits. Each
  way of changing the queue is a step of `CommandService` or a stutter;
  `OutstandingNow` says that what the headset carries out is the first of the
  list and what is acknowledged has been carried out.

**BluetoothProofs.** `SocketInv` adds to `NoStraySocket` the range of the state
and the socket and `AttemptAlone`: inside a lookup or an SDP query there is no
link and no other attempt. Without it a lookup could return into a connect over
a live socket. It gives `SocketsMatchStates`, with requests, signals, failing
lookups and bus losses all included, and without the test signals
`PublishedConnectionIsTrue` and the action property `NewsSparesTheLink`: by
`LinkKept`, only `SocketEvent` on a channel that is gone, `SendFails` and
`SendOverflows` leave CONNECTED.

`Typed` is the type invariant in four parts, one for the manager, the bus, the
loop and the world, plus `RequestCounted`: a request that is being carried out
is among those counted. It gives `ConnectionTypes` and `BackoffStaysInRange`.
That one needs that 3^n \div 2^n never falls below 1: `PowersExist` and
`PowersGrow` show it of every n, by way of the least n for which it fails.

`EarsOpen` (waiting, the daemon has a bus connection or is in a lookup) gives
`WaitsOnALiveBus`. `NewsToRead` extends `HearsArrival` from the sleeping loop
to every place of the turn but inside a lookup or an attempt, which are the two
that look for themselves; with it goes that only connect requests are looked
up. It gives `NoLostWakeup`.

**IpcProofs.** `TypeInv` has the types, who may be in which set at which place
of the turn (`Loop`), and the limits (`Buffers`): a client in the listener's
queue has nothing in the daemon's buffers. On it rest, one client at a time:

- `WholeOf`: what a client was given is what it has read, what the kernel holds
  and what is left to send. `ClientStep` lists all that a step can do to a
  client's output; `StepOfClient` shows it of each action, and this and the
  next two follow from it. Gives `ServerKeepsLinesWhole`.
- `TailsBounded`: from any point of an output buffer on, there is an answer or
  no more than the limit. The property is its case "from the start", and is not
  inductive, since sending removes an answer at the front and leaves the pushes
  behind it. Gives `ServerBoundsQueues`.
- `RisingTo`: the statuses in the kernel and the buffer rise, from what the
  client has seen to the status now. With it `ServerImplementsFeed` is a
  refinement, in which only `Hear` is a step of `StatusFeed`, not a stutter.
- `ToldOf`: what a subscriber was told last is the last push, or an answer no
  older than it. Gives `SubscribersUpToDate`.
- `InputOf`: what a client has written and the daemon not taken is, with the
  newline the client has yet to write, the text of the lines owed an answer.
  `InputStep` lists what a step can do to it (move it between the buffers, take
  a line, forget it, add to it). `Text` is a recursive function;
  `TextOfMore` and `TextOfFirst` say what it gives for a line more and for the
  first line, by the induction of `Recursion`. `RefusedIs`: what passes the limit
  is part of the first line owed and what one recv() took, so that line is
  `Refusable`. Gives `ServerAnswersInOrder`.

**Recursion.** The library's induction theorems are about predicates, which the
provers cannot supply. `InductionTo` is induction about a set; `RecursiveExists`
says that a recursive definition over an interval has a solution and
`RecursiveTypes` of what type it is.

**DeployProofs.** `InstallationsWhole` proves `TargetsWhole` for any number of
puts and removes, any lists of names, depth and size. The invariant says more
of a target than that it is whole: `TargetsSafe`, it is also on the disk, or a
power loss could empty it. That a rename keeps it needs `Stage` (what has been
done to the file in hand by the time of each call), `OwnTemps` (under its
temporary name an invocation finds its own file or nothing) and, for the
writes that go on, `NotYet`: the inode an invocation writes is no target yet,
because names are placed once each. `EntriesStep` covers every step that
changes no file, `FileStep` those that write one; the lemmas after them say so
of each action. `DeployTypes`, `ChangesOnlyItsOwn` and `ExitStatusTrue` have
invariants of their own: what a put has placed and what it has still to do make
up its list, its temporaries are there only while it works on them, and it
comes to fail only where a call failed, another program acted or a remove runs.
The lists a remove makes are taken to be finite (`DeployAssumption`), as names
in a directory are.

**CodecProofs.** `UnpackedIsPacked`: unpacking gives back what was packed, for
every type, sequence byte and payload shorter than 2^32. Escaping is a map per
byte, flattened; unescaping is defined by which bytes are sentries, a recursion
over the positions. `SeqInduction` (induction over sequences, about a set) and
`SentryAppend` carry a byte at a time through both. `NextOfFramed` and
`NextOfPart` say what the framer does at the head of a stream: one whole frame
is cut off, part of one is kept.

**HeadsetProofs.** Four invariants, each on top of the one before.

- `Kept` = `TypesInv` and `AcksInv`. `StreamOf`: what the framer holds, followed
  by what is on the channel, is the packing of the frames not handled, and when
  the loop is idle the framer holds less than one frame. `FrameHandled` makes of
  a round over bytes one over frames: an acknowledgement, a question, or a
  report that says what the headset held. `AcksInv`: there is one ACK in the
  stream if the first command was taken, and none if not, so an ACK never ends
  a command the headset has not carried out. This, with what commands there can
  be (`Items`) and what each means to the headset (`Meant`), gives
  `HeadsetTypes` and `StreamRecovered`.
- `ToldInv`, for each setting: the last report in the stream says how the headset
  stands; and if there is none, the copy agrees, or a command that will make it
  agree waits (a query, or the value the copy holds), or the setting is unsure.
  Each verb and each of the headset's changes is one of a few kinds (`Wished`,
  `Changes`), and what is proved is proved per kind. When nothing is under way
  this is `Truthful`. Gives `CopyEndsTrue`.
- `DspInv`: the four causes cover what they must. While no cause stands against
  the copy (`doubts`), it has the mode there will be when all that waits is
  carried out (`Informed`), and while none stands against the equalizer commands
  that wait (`blind`), each meets a mode other than LDAC's (`Grounded`, `Met`: the
  last command for the mode before it, or the mode there is). A report clears
  the doubts unless it is overtaken, and that it then says how the headset
  stands is `ToldInv` (`StepTold`). `NeverProvokes` alone knows nothing of what
  waits. Gives `OnlyBlindProvokes`.
- `FlagIsOneRequest`: a flag that is set stands for a request that has not been
  used, which neither a lost link nor another alert breaks. Gives
  `NoUnaskedYes`.

TLC checked each of these invariants on small instances before it was proved. It
refuted the first form of `Truthful`, in which a taken command ended its
setting's being unsure (section 5).

**Only model-checked.** Liveness (`Drains`, `Recovers`, `AttemptEnds`,
`LinkRequestEnds`, `Served`), which is out of the prover's reach, as is ENABLED.

## 7. Not modelled

- The panel's client (`Service.qml`): what is hard in it is the order in which
  Quickshell's `Socket`, `Loader` and `Timer` objects deliver errors, data and
  their own deferred destruction, and that is not in this repository. A model
  would show what was assumed of them. Its timers against a late answer
  (`Service.qml:227`), a deadline each command restarts (`:234`, bounded by
  `maxOutstanding`) and its optimistic values (`:80`) stay on the list of
  hazards without a property.
- `Model.js`, the panel's layout, the command line client, `setup` and the
  units: pure functions with unit tests, layout, or scripts around other
  programs. The command line client is a client of `IpcServer` that waits for
  one answer.
- Of the wire format: custom equalizer bands, capability replies (so
  `ambient_max_level` and `volume_max` keep their defaults), codec, firmware,
  model and language reports, playback, and the `raw` verb. They are more of
  the same tables, or send bytes the daemon keeps no state about.
- Of the event loop: the battery warning, mock mode, test verbs, and
  `autoReconnect = false`, which only a unit test sets.
- The socket file of a daemon that systemd does not start, and two such daemons
  at once: `Ends` and `Starts` are about a socket that systemd holds.
- The retries of the command queue below `HeadsetControl`, and payloads above
  `MdrLink`: the contract between them is `CommandService`.
- The bytes of the manager's send queue: `BluetoothManager` counts frames and
  knows when the link is given up for them; in `MdrLink` that is `DropLink`.
  The parsing of
  BlueZ's object tree.
- Of the installer: parsing of the command line and refusals that come before
  anything is changed, a pid used again while its temporary lies there, and
  directories that are not the user's own.
