------------------------------- MODULE MdrLink -------------------------------
(***************************************************************************)
(* The command queue wired to a headset, as main.cpp wires it.             *)
(*                                                                         *)
(* The headset is outside the repository.  It is modelled from what the    *)
(* daemon relies on (CommandQueue.hpp, docs/protocol-v1.md "Flow control"): *)
(* it carries out a DATA frame whose sequence bit is the one it expects,   *)
(* then expects the other and says so in an ACK; a frame out of step, or   *)
(* one sent before its last ACK arrived, may be dropped without a word.    *)
(*                                                                         *)
(* LateAcks says whether an ACK can still be on its way when the ACK       *)
(* deadline passes.  If FALSE only lost ACKs and dropped frames time out.  *)
(***************************************************************************)
EXTENDS CommandQueue, FiniteSets

CONSTANTS
  Setting,       \* the parameters of the headset that commands write
  NoSetting,     \* what a query writes
  SettingOf,     \* the parameter a command of each label writes
  UserWhat,      \* labels of commands clients ask for
  AlertWhat,     \* label of the answer to an alert
  Handshake,     \* labels of the commands queued on connect, in order
  LateAcks,
  MaxIssued,     \* bound: commands issued in a behaviour
  MaxLinks,      \* bound: links opened in a behaviour
  MaxWire        \* bound: the wire's length when the headset notifies

ASSUME LinkAssumption ==
  /\ NoSetting \notin Setting
  /\ SettingOf \in [What -> Setting \cup {NoSetting}]
  /\ UserWhat \subseteq What
  /\ AlertWhat \in What \ Coalescing
  /\ Handshake \in Seq(What \ Coalescing)
  /\ Len(Handshake) \in 1 .. MaxPending + 1
  /\ LateAcks \in BOOLEAN
  /\ MaxIssued \in Nat /\ MaxLinks \in Nat /\ MaxWire \in Nat

VARIABLES
  acks,          \* sequence bits of the ACKs on their way to the daemon
  expected,      \* the sequence bit the headset expects
  applied,       \* id of the command that last wrote each setting
  (* History, read by no action's guard but the bounds. *)
  issued,        \* ids given out so far
  links,         \* links opened so far
  firstOnLink,   \* the first id issued on the present link
  requested,     \* the newest command issued for each setting
  executed,      \* ids the headset carried out
  discarded,     \* ids that left the queue unacknowledged, or never entered it
  tries,         \* transmissions of the command in flight
  inStep         \* the last command settled on this link was acknowledged

headsetVars == <<acks, expected, applied>>
historyVars == <<issued, links, firstOnLink, requested, executed, discarded, tries, inStep>>
vars == <<queueVars, linkVars, headsetVars, historyVars>>

Ids == 1 .. MaxIssued

TypeOK ==
  /\ QTypeOK
  /\ acks \in Seq(Bit)
  /\ expected \in Bit
  /\ applied \in [Setting -> Ids \cup {0}]
  /\ issued \in 0 .. MaxIssued
  /\ links \in 0 .. MaxLinks
  /\ firstOnLink \in 1 .. MaxIssued + 1
  /\ requested \in [Setting -> Ids \cup {0}]
  /\ executed \subseteq Ids
  /\ discarded \subseteq Ids
  /\ tries \in 0 .. MaxRetries + 1
  /\ inStep \in BOOLEAN

Init ==
  /\ pending = <<>> /\ inFlight = NoCommand /\ seq = 0 /\ retries = 0
  /\ linked = FALSE /\ wire = <<>>
  /\ acks = <<>> /\ expected = 0
  /\ applied = [s \in Setting |-> 0]
  /\ issued = 0 /\ links = 0 /\ firstOnLink = 1
  /\ requested = [s \in Setting |-> 0]
  /\ executed = {} /\ discarded = {} /\ tries = 0 /\ inStep = TRUE

-----------------------------------------------------------------------------
(* Bookkeeping. *)

QueuedIds == {pending[i].id : i \in 1 .. Len(pending)}
             \cup (IF inFlight = NoCommand THEN {} ELSE {inFlight.id})

OnWireIds == {wire[i].cmd.id : i \in {j \in 1 .. Len(wire) : wire[j].type = "DATA"}}

\* The ids new enter and acked leave because of an ACK; whatever else is no
\* longer queued was discarded.
Account(new, acked) ==
  discarded' = discarded \cup (((QueuedIds \cup new) \ QueuedIds') \ acked)

CountTries == tries' = IF inFlight' = NoCommand THEN 0
                       ELSE IF inFlight' # inFlight THEN 1
                       ELSE IF retries' # retries THEN tries + 1 ELSE tries

\* A link that goes down takes the ACKs under way with it.
AcksSurvive == IF linked /\ ~linked' THEN acks' = <<>> ELSE UNCHANGED acks

-----------------------------------------------------------------------------
(* Steps of the daemon. *)

\* A client asks for something: an ipcCb setter ends in send(), which refuses
\* the command while the link is down.  The daemon's own state already shows
\* the new value either way.
Issue(w) ==
  LET c == [what |-> w, id |-> issued + 1]
  IN /\ issued < MaxIssued
     /\ IF linked THEN Enqueue(c, wire) ELSE UNCHANGED <<queueVars, linkVars>>
     /\ issued' = issued + 1
     /\ requested' = IF SettingOf[w] = NoSetting THEN requested
                     ELSE [requested EXCEPT ![SettingOf[w]] = c.id]
     /\ Account({c.id}, {})
     /\ AcksSurvive /\ CountTries
     /\ UNCHANGED <<expected, applied, links, firstOnLink, executed, inStep>>

\* An ACK is read from the socket.
ReceiveAck ==
  /\ acks # <<>>
  /\ OnAck(Head(acks))
  /\ acks' = IF linked' THEN Tail(acks) ELSE <<>>
  /\ Account({}, IF inFlight = NoCommand THEN {} ELSE {inFlight.id})
  /\ CountTries
  /\ inStep' = TRUE
  /\ UNCHANGED <<expected, applied, issued, links, firstOnLink, requested, executed>>

\* A reply or notification arrives, with any bit: the headset numbers its own.
ReceiveData ==
  /\ Len(wire) < MaxWire
  /\ \E rxSeq \in Bit : OnData(rxSeq)
  /\ Account({}, {})
  /\ AcksSurvive /\ CountTries
  /\ UNCHANGED <<expected, applied, issued, links, firstOnLink, requested, executed, inStep>>

ReceiveAlert ==
  LET c == [what |-> AlertWhat, id |-> issued + 1]
  IN /\ Len(wire) < MaxWire
     /\ issued < MaxIssued
     /\ \E rxSeq \in Bit : OnAlert(rxSeq, c)
     /\ issued' = issued + 1
     /\ Account({c.id}, {})
     /\ AcksSurvive /\ CountTries
     /\ UNCHANGED <<expected, applied, links, firstOnLink, requested, executed, inStep>>

\* No ACK and no command is under way.
Settled == acks = <<>> /\ \A i \in 1 .. Len(wire) : wire[i].type # "DATA"

\* tick() acts only once the ACK deadline has passed.
DeadlineIgnored == TRUE

DeadlinePasses == LateAcks \/ Settled

Resend ==
  /\ DeadlinePasses
  /\ TickResends
  /\ Account({}, {})
  /\ AcksSurvive /\ CountTries
  /\ UNCHANGED <<expected, applied, issued, links, firstOnLink, requested, executed, inStep>>

GiveUp ==
  /\ DeadlinePasses
  /\ TickGivesUp
  /\ Account({}, {})
  /\ AcksSurvive /\ CountTries
  /\ inStep' = FALSE
  /\ UNCHANGED <<expected, applied, issued, links, firstOnLink, requested, executed>>

\* The RFCOMM link opens; both ends start counting from 0.
Connect ==
  LET n == Len(Handshake)
      h == [i \in 1 .. n |-> [what |-> Handshake[i], id |-> issued + i]]
  IN /\ links < MaxLinks
     /\ issued + n <= MaxIssued
     /\ OnConnected(h)
     /\ links' = links + 1
     /\ issued' = issued + n
     /\ firstOnLink' = issued + 1
     /\ Account(issued + 1 .. issued + n, {})
     /\ CountTries
     /\ acks' = <<>> /\ expected' = 0 /\ inStep' = TRUE
     /\ UNCHANGED <<applied, requested, executed>>

\* The socket hangs up or a read fails.
Disconnect ==
  /\ DropLink
  /\ Account({}, {})
  /\ AcksSurvive /\ CountTries
  /\ UNCHANGED <<expected, applied, issued, links, firstOnLink, requested, executed, inStep>>

Sigusr1 ==
  /\ OnSigusr1
  /\ Account({}, {})
  /\ AcksSurvive /\ CountTries
  /\ UNCHANGED <<expected, applied, issued, links, firstOnLink, requested, executed, inStep>>

-----------------------------------------------------------------------------
(* Steps of the headset. *)

InStepFrame(f) == f.type = "DATA" /\ f.seq = expected

\* It carries out a command and acknowledges it; the ACK may be lost.
HeadsetExecutes ==
  /\ WireRead
  /\ InStepFrame(Head(wire))
  /\ LET c == Head(wire).cmd
         s == SettingOf[c.what]
     IN /\ executed' = executed \cup {c.id}
        /\ applied' = IF s = NoSetting THEN applied ELSE [applied EXCEPT ![s] = c.id]
  /\ expected' = 1 - expected
  /\ \/ acks' = Append(acks, 1 - expected)
     \/ UNCHANGED acks
  /\ UNCHANGED <<issued, links, firstOnLink, requested, discarded, tries, inStep>>

\* It takes an ACK of its own frame, or drops a command.
HeadsetIgnores ==
  /\ WireRead
  /\ ~InStepFrame(Head(wire)) \/ acks # <<>>
  /\ UNCHANGED <<headsetVars, historyVars>>

-----------------------------------------------------------------------------
Next ==
  \/ \E w \in UserWhat : Issue(w)
  \/ ReceiveAck \/ ReceiveData \/ ReceiveAlert
  \/ Resend \/ GiveUp
  \/ Connect \/ Disconnect \/ Sigusr1
  \/ HeadsetExecutes \/ HeadsetIgnores

\* The event loop keeps turning: it reads what the socket has and ticks when a
\* deadline is due.  The headset reads its end.
Fairness ==
  /\ WF_vars(ReceiveAck)
  /\ WF_vars(Resend \/ GiveUp)
  /\ WF_vars(HeadsetExecutes \/ HeadsetIgnores)

Spec == Init /\ [][Next]_vars
FairSpec == Spec /\ Fairness

-----------------------------------------------------------------------------
(* Properties. *)

\* No command vanishes from an open link: it is queued, or it was carried out or
\* still may be, or the daemon knows it gave it up.  So the queue never takes
\* one command's ACK for another's (CommandQueue.hpp:15-22).
NothingSilentlyLost ==
  linked => \A i \in firstOnLink .. issued :
              i \in QueuedIds \cup OnWireIds \cup executed \cup discarded

\* Flow control: the headset is never sent a command while one is on the wire or
\* its ACK has not been read, so it never has a reason to drop one
\* (CommandQueue.hpp:18-20, "released one by one").
OneAtATime ==
  /\ \A i \in 1 .. Len(wire) : wire[i].type = "DATA" =>
       /\ inFlight # NoCommand /\ wire[i].cmd = inFlight
       /\ acks = <<>>
       /\ \A j \in 1 .. Len(wire) : wire[j].type = "DATA" => i = j
  /\ acks # <<>> => Len(acks) = 1 /\ inFlight # NoCommand /\ inFlight.id \in executed

\* With nothing in flight, and unless it was discarded, the newest command
\* for a setting is the one the headset ended up with: "the newest value wins".
NewestValueWins ==
  inFlight = NoCommand =>
    \A s \in Setting : requested[s] \in discarded \/ applied[s] = requested[s]

\* A retry, a superseded or a late command never takes a setting back to an
\* older value (holds where each setting is written under one label).
SettingNeverGoesBack == [][\A s \in Setting : applied'[s] >= applied[s]]_vars

\* Giving up takes the whole retry budget: the count does not leak from one
\* command to the next.
GivesUpLate == [][GiveUp => tries = MaxRetries + 1]_vars

\* What was queued for one link is never sent on the next, so the handshake
\* is always what a new link carries first (main.cpp:305-343).
OnlyThisLinksCommands ==
  \A i \in 1 .. Len(wire) : wire[i].type = "DATA" => wire[i].cmd.id >= firstOnLink

\* After an acknowledged command the next one goes out with the bit the
\* headset expects, whatever it notified meanwhile (CommandQueue.hpp:62-65).
StaysInStep ==
  linked /\ inStep /\ inFlight = NoCommand /\ acks = <<>> => seq = expected

\* Every command leaves the queue: acknowledged, superseded or given up.
Drains == \A i \in Ids : i \in QueuedIds ~> i \notin QueuedIds

Service == INSTANCE CommandService WITH
  Command <- [what : What, id : Ids],
  todo <- (IF inFlight = NoCommand THEN <<>> ELSE <<inFlight>>) \o pending,
  abandoned <- discarded

\* The queue and a headset whose ACKs are lost but never late implement the
\* abstract command service.
ImplementsService == Service!ServiceSpec

=============================================================================
