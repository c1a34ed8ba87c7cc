--------------------------- MODULE HeadsetControl ---------------------------
(***************************************************************************)
(* The path of a setting: a verb on the control socket                     *)
(* (IpcServer::handleBuiltinCommand), the daemon's setter and its own copy *)
(* of the headset's state (main.cpp, StateEngine.cpp), the command queue,  *)
(* the headset, the bytes it answers with, the framer that cuts them into  *)
(* frames wherever the reads fall, and what they change in that copy.      *)
(*                                                                         *)
(* The copy is optimistic: a setter writes it at once, and only a report   *)
(* of the headset corrects it.  The queue is taken by its contract (one    *)
(* command at the headset at a time, in order, given up if not answered;   *)
(* CommandQueue and MdrLink show how it is kept), so sequence bits and     *)
(* retries do not appear.  The headset is outside: it carries out and      *)
(* acknowledges, reports what has changed, is operated by its own buttons, *)
(* declines the equalizer on LDAC, and may ask to confirm.  Verbs that     *)
(* send without touching the copy, or touch it for tests, are left out.    *)
(* The operators named for a mistake are faulty variants of the definition *)
(* that follows; no specification uses them.                               *)
(***************************************************************************)
EXTENDS MdrCodec

CONSTANTS
  Settings,     \* the settings that occur, among the domain of Values
  Chosen,       \* the values each is given
  Modes,        \* the noise modes asked for
  Levels,       \* the steps noise control is given
  Batteries,    \* the levels the battery goes to
  Owned,        \* the settings the headset changes on its own
  ReadMax,      \* BluetoothManager::handleConnectedRead: the size of its buffer
  ReadSizes,    \* what a read that returns neither all there is nor that much may return
  FramerLimit,  \* StreamFramer::append: kMaxBufferSize
  MaxEvents     \* bound: verbs, changes and questions of the headset's own, reads of ReadSizes,
                \* commands never acknowledged, links lost

\* No frame of the headset's has more bytes: a read and what the one before has
\* left fit the framer, as 1 KB and 64 KB do.
MaxFrame == 32

ASSUME ControlAssumption ==
  /\ Settings \subseteq DOMAIN Values /\ \A s \in Settings : Chosen[s] \subseteq Values[s]
  /\ Owned \subseteq Settings
  /\ Modes \subseteq NoiseModes
  /\ Levels \subseteq 0 .. MaxAmbientStep /\ Batteries \subseteq 0 .. 100 /\ Batteries # {}
  /\ ReadMax \in Nat \ {0} /\ ReadSizes \subseteq 1 .. ReadMax
  /\ FramerLimit \in Nat /\ ReadMax + MaxFrame <= FramerLimit
  /\ MaxEvents \in Nat

VARIABLES
  (* the daemon *)
  pc,                  \* "idle", or "frames": in the loop over what was received
  up,                  \* BluetoothManager is CONNECTED
  state,               \* StateEngine: the fields of HeadphoneState
  lastAmbientStep,
  keyAssignRequested,
  queue,               \* CommandQueue: what, type and payload; the first is at the headset
  buffer,              \* StreamFramer
  (* the headset and the channel *)
  headset,             \* its settings
  pending,             \* the button assignment it has asked about, in a set
  taken,               \* it has carried out the command at it
  air,                 \* bytes sent to the daemon and not read yet
  (* history *)
  inAir,               \* the frames in buffer and air
  unsure,              \* settings with a command or query given up or declined, not reported since
  doubts,              \* why the copy may be wrong about the connection mode to be
  blind,               \* why the equalizer commands that wait may meet another mode than it says
  declined,            \* for each the headset declined, what blind then was
  credit,              \* button assignments asked for, less the alerts answered yes
  events               \* counts what MaxEvents bounds

daemonVars  == <<pc, up, state, lastAmbientStep, keyAssignRequested, queue, buffer>>
headsetVars == <<headset, pending, taken, air, inAir>>
modeGhosts  == <<doubts, blind>>
ghostVars   == <<unsure, doubts, blind, declined, credit>>
vars == <<daemonVars, headsetVars, ghostVars, events>>

\* A record, but for some of its fields.
Updated(r, fields) == [f \in DOMAIN r |-> IF f \in DOMAIN fields THEN fields[f] ELSE r[f]]

Names == Settings \cup {"noise", "battery_level"}
Dsp == {"eq_preset", "surround", "sound_position"} \cap Settings

\* What the copy and the headset hold besides the settings.
StateFields == {"connected", "battery_level", "noise_mode", "ambient_sound_level", "voice_passthrough"}
HeadsetFields == {"battery_level", "on", "step", "focus"}

Init ==
  /\ pc = "idle" /\ up = FALSE
  /\ state = [f \in Settings \cup StateFields |->
               CASE f \in Dsp \cup {"dsee_hx", "optimizer_state", "ambient_sound_level"} -> 0
                 [] f \in {"touch_panel", "voice_guidance"} -> 1
                 [] f \in {"volume", "battery_level"} -> -1
                 [] f \in {"connected", "voice_passthrough"} -> FALSE
                 [] f = "noise_mode" -> "anc"
                 [] OTHER -> Unknown]
  /\ lastAmbientStep = -1 /\ keyAssignRequested = FALSE
  /\ queue = <<>> /\ buffer = <<>>
  /\ headset = [f \in Settings \cup HeadsetFields |->
                 CASE f = "battery_level" -> CHOOSE b \in Batteries : TRUE
                   [] f = "on" -> TRUE [] f = "focus" -> FALSE [] OTHER -> 0]
  /\ pending = {} /\ taken = FALSE /\ air = <<>> /\ inAir = <<>>
  /\ unsure = {} /\ doubts = {} /\ blind = {} /\ declined = {} /\ credit = 0
  /\ events = 0

Event == events < MaxEvents /\ events' = events + 1

-----------------------------------------------------------------------------
(* Commands. *)

Item(what, type, payload) == [what |-> what, type |-> type, payload |-> payload]

\* CommandQueue::enqueue() of items in a row: one that is coalesced takes the
\* place of the one that waits under the same name.
Enqueue(q, item) == Append(q, item)
Coalesce(q, item) ==
  LET same == {i \in 2 .. Len(q) : q[i].what = item.what}
  IN IF same = {} THEN Append(q, item) ELSE [q EXCEPT ![CHOOSE i \in same : TRUE] = item]

\* send() in main.cpp: without a link the command is dropped.
Send(q) == queue' = IF up THEN q ELSE queue

Query(s) == Item("query", TypeOf(s), SerializeQuery(s))
QueryEach(q, order, wanted) ==
  q \o FlattenSeq([i \in 1 .. Len(order) |-> IF order[i] \in wanted THEN <<Query(order[i])>> ELSE <<>>])

\* onConnected: the queries of the handshake that fetch what is modelled.
HandshakeOrder == <<"battery_level", "noise", "eq_preset", "dsee_hx", "surround", "sound_position",
                    "auto_power_off", "connection_mode", "optimizer_state", "volume", "nc_button",
                    "touch_panel", "voice_guidance">>
HandshakeWithoutMode == QueryEach(<<>>, HandshakeOrder, Names \ {"connection_mode"})
Handshake == QueryEach(<<>>, HandshakeOrder, Names)

\* BlueZ may know the battery level.
LinkUp ==
  /\ ~up
  /\ up' = TRUE
  /\ queue' = Handshake
  /\ \E b \in {state.battery_level, headset.battery_level} :
       state' = [state EXCEPT !.connected = TRUE, !.battery_level = b]
  /\ unsure' = {} /\ doubts' = {"not told"}
  /\ UNCHANGED <<pc, lastAmbientStep, keyAssignRequested, buffer, headsetVars, blind, declined,
                 credit, events>>

\* onDisconnected; also when an answer cannot be sent, which ends the loop
\* over the frames.  What the channel still held is gone with it.
KeepsBuffer(b) == b
ResetFramer(b) == <<>>
LinkDown ==
  /\ Event /\ up
  /\ up' = FALSE /\ pc' = "idle"
  /\ queue' = <<>> /\ buffer' = ResetFramer(buffer)
  /\ state' = [state EXCEPT !.connected = FALSE]
  /\ pending' = {} /\ taken' = FALSE /\ air' = <<>> /\ inAir' = <<>>
  /\ doubts' = {} /\ blind' = {}
  /\ UNCHANGED <<lastAmbientStep, keyAssignRequested, headset, unsure, declined, credit>>

-----------------------------------------------------------------------------
(* The verbs, in the loop's turn for its clients. *)

Verb == pc = "idle" /\ Event
Untouched == UNCHANGED <<pc, up, buffer, headsetVars, declined>>
SetterLeaves == UNCHANGED <<keyAssignRequested, unsure, modeGhosts, credit>> /\ Untouched

\* StateEngine: the copy with a setting, and with the noise mode of a verb.
InState(s, v) == [state EXCEPT ![s] = v]
NoiseInState(mode, step) ==
  [state EXCEPT !.noise_mode = mode, !.ambient_sound_level = IF mode = "off" THEN @ ELSE step]
AmbientInState(level) ==
  [state EXCEPT !.ambient_sound_level = level, !.noise_mode = StepToNoiseMode(level)]

\* noise <anc|wind|ambient|off> [level]; no level is 0.
NoiseArgs == {<<m, 0>> : m \in NoiseModes} \cup {<<"ambient", l>> : l \in MinAmbientStep .. MaxAmbientStep}
SetNoiseMode(mode, level) ==
  /\ Verb /\ <<mode, level>> \in NoiseArgs
  /\ LET preferred == IF mode = "ambient" /\ level < MinAmbientStep THEN lastAmbientStep ELSE level
         step == NoiseModeToStep(mode, preferred)
     IN /\ lastAmbientStep' = IF mode = "ambient" THEN step ELSE lastAmbientStep
        /\ state' = NoiseInState(mode, step)
        /\ Send(IF mode = "off"
                THEN Coalesce(queue, Item("noise off", MDR, SerializeNcAsm(FALSE, step, FALSE)))
                ELSE Coalesce(queue, Item("noise mode", MDR,
                                          SerializeNcAsm(TRUE, step, state.voice_passthrough))))
  /\ SetterLeaves

\* ambient-level <0..19>: the level is the mode.
AmbientLevels == 0 .. MaxAmbientStep
SetAmbientLevel(level) ==
  /\ Verb /\ level \in AmbientLevels
  /\ lastAmbientStep' = IF level >= MinAmbientStep THEN level ELSE lastAmbientStep
  /\ state' = AmbientInState(level)
  /\ Send(Coalesce(queue, Item("ambient level", MDR,
            SerializeNcAsm(TRUE, level, state.voice_passthrough))))
  /\ SetterLeaves

\* voice-focus <on|off>: the current step is sent again with it.
SetVoiceFocus(enabled) ==
  /\ Verb
  /\ state' = [state EXCEPT !.voice_passthrough = enabled]
  /\ Send(Coalesce(queue, Item("focus on voice", MDR,
            SerializeNcAsm(state.noise_mode # "off", state.ambient_sound_level, enabled))))
  /\ UNCHANGED lastAmbientStep /\ SetterLeaves

\* A command waits that the headset, on LDAC, will decline.
DspWaits == \E i \in 1 .. Len(queue) : queue[i].what \in Dsp /\ ~(i = 1 /\ taken)

\* eq, surround, sound-position: refused on LDAC, as far as the daemon knows.
Passes == TRUE
BlockedByLdac == "connection_mode" \in Settings /\ state.connection_mode = Quality
NotBlocked == ~BlockedByLdac
SetDsp(s, v) ==
  /\ Verb /\ s \in Dsp /\ v \in Values[s]
  /\ NotBlocked
  /\ state' = InState(s, v)
  /\ Send(Enqueue(queue, Item(s, TypeOf(s), SerializeSet(s, v))))
  /\ blind' = doubts \cup (IF DspWaits THEN blind ELSE {})
  /\ UNCHANGED <<lastAmbientStep, keyAssignRequested, unsure, doubts, credit>> /\ Untouched

\* connection <quality|stable>: what depends on it is asked for again.
SetConnectionMode(v) ==
  /\ Verb /\ v \in Values["connection_mode"]
  /\ state' = InState("connection_mode", v)
  /\ Send(QueryEach(Enqueue(queue, Item("connection_mode", MDR, SerializeSet("connection_mode", v))),
                    <<"eq_preset", "surround", "sound_position">>, Dsp))
  /\ doubts' = {}
  /\ UNCHANGED <<lastAmbientStep, keyAssignRequested, unsure, blind, credit>> /\ Untouched

\* nc-button <ambient|google-assistant|alexa>: a question that follows is
\* answered yes.
SetNcButton(v) ==
  /\ Verb /\ v \in Values["nc_button"]
  /\ keyAssignRequested' = TRUE
  /\ credit' = credit + 1
  /\ state' = InState("nc_button", v)
  /\ Send(Enqueue(queue, Item("nc_button", MDR, SerializeSet("nc_button", v))))
  /\ UNCHANGED <<lastAmbientStep, unsure, modeGhosts>> /\ Untouched

\* dsee, auto-power-off, optimizer, volume, touch-panel, voice-guidance.
Plain == Settings \ (Dsp \cup {"connection_mode", "nc_button"})
SetPlain(s, v) ==
  /\ Verb /\ s \in Plain /\ v \in Values[s]
  /\ state' = InState(s, v)
  /\ LET item == Item(s, TypeOf(s), SerializeSet(s, v))
     IN Send(IF s = "volume" THEN Coalesce(queue, item) ELSE Enqueue(queue, item))
  /\ UNCHANGED lastAmbientStep /\ SetterLeaves

-----------------------------------------------------------------------------
(* The headset.  What it does while the daemon loops over what it has read  *)
(* it may as well do after: the loop looks at no byte it has not read.      *)

Bytes(frames) ==
  FlattenSeq([i \in 1 .. Len(frames) |-> PackFrame(frames[i].type, frames[i].seq, frames[i].payload)])
Puts(frames) ==
  /\ air' = air \o Bytes(frames)
  /\ inAir' = inAir \o frames

Frame(type, payload) == [type |-> type, seq |-> 0, payload |-> payload]
Confirms(message) == Frame(MDR, <<153, 1, message, 1>>)

\* A report is shaped like the payload that sets; its first byte says whether it
\* was asked for.
Report(s, h, first) ==
  LET p == CASE s = "noise" -> SerializeNcAsm(h.on, h.step, h.focus)
             [] s = "battery_level" -> <<18, Inquired.battery_level, h.battery_level, 0>>
             [] OTHER -> SerializeSet(s, h[s])
  IN Frame(TypeOf(s), [p EXCEPT ![1] = first])

Queried(item) == {s \in Names : item.type = TypeOf(s) /\ item.payload = SerializeQuery(s)}
SetBy(item) == {s \in Settings : /\ item.type = TypeOf(s)
                                 /\ \E v \in Values[s] : item.payload = SerializeSet(s, v)}
IsNoise(item) == item.type = MDR /\ item.payload[1] = Set("noise")
About(item) == Queried(item) \cup SetBy(item) \cup (IF IsNoise(item) THEN {"noise"} ELSE {})

\* The value a payload sets s to.
Given(s, item) == CHOOSE v \in Values[s] : item.payload = SerializeSet(s, v)
NoiseSet(p) == [on |-> p[3] # 0, focus |-> p[7] = 1,
                step |-> IF p[3] = 0 THEN headset.step ELSE p[8]]

\* The headset carries out the command at it, acknowledges it and reports.
Answers(reports) == Puts(<<Frame(ACK, <<>>)>> \o reports)
Changes(s, h) ==
  /\ headset' = h
  /\ IF h = headset THEN Answers(<<>>) /\ UNCHANGED unsure
     ELSE Answers(<<Report(s, h, Ntfy(s))>>) /\ unsure' = unsure \ {s}
Take ==
  /\ pc = "idle" /\ up /\ queue # <<>> /\ ~taken
  /\ taken' = TRUE
  /\ LET item == Head(queue)
         p == item.payload
     IN \/ \E s \in Queried(item) :
           /\ Answers(<<Report(s, headset, Ret(s))>>)
           /\ unsure' = unsure \ {s} /\ UNCHANGED <<headset, pending, declined>>
        \/ /\ IsNoise(item)
           /\ Changes("noise", Updated(headset, NoiseSet(p)))
           /\ UNCHANGED <<pending, declined>>
        \/ \E s \in SetBy(item) :
             \/ /\ s \in Dsp /\ "connection_mode" \in Settings /\ headset.connection_mode = Quality
                /\ Answers(<<Confirms(ConnectionModeChange)>>)
                /\ unsure' = unsure \cup {s} /\ declined' = declined \cup {blind} /\ UNCHANGED <<headset, pending>>
             \/ /\ s = "nc_button" /\ Given(s, item) # headset.nc_button
                /\ Answers(<<Confirms(KeyAssignChange)>>)
                /\ pending' = {Given(s, item)}
                /\ unsure' = unsure \cup {s} /\ UNCHANGED <<headset, declined>>
             \/ /\ ~(s \in Dsp /\ "connection_mode" \in Settings /\ headset.connection_mode = Quality)
                /\ Changes(s, [headset EXCEPT ![s] = Given(s, item)])
                /\ UNCHANGED <<pending, declined>>
        \/ /\ p[1] = 152      \* the answer to a question
           /\ pending' = IF p[3] = KeyAssignChange THEN {} ELSE pending
           /\ IF p[3] = KeyAssignChange /\ p[4] = 1 /\ pending # {}
              THEN Changes("nc_button", [headset EXCEPT !.nc_button = CHOOSE v \in pending : TRUE])
              ELSE UNCHANGED <<headset, unsure>> /\ Answers(<<>>)
           /\ UNCHANGED declined
  /\ UNCHANGED <<daemonVars, modeGhosts, credit, events>>

\* What becomes of the connection mode is not what the daemon was told or asked
\* for: of the copy, and of what waits.
Blinds(causes) == doubts' = doubts \cup causes /\ blind' = blind \cup causes

\* A command it does not acknowledge is given up.
GiveUp ==
  /\ Event /\ pc = "idle" /\ up /\ queue # <<>> /\ ~taken
  /\ queue' = Tail(queue)
  /\ unsure' = unsure \cup About(Head(queue))
  /\ Blinds(IF Head(queue).what = "connection_mode" THEN {"given up"} ELSE {})
  /\ UNCHANGED <<pc, up, state, lastAmbientStep, keyAssignRequested, buffer, headsetVars, declined,
                 credit>>

\* Its own buttons, its battery, another device it is connected to.
OwnChange(s, h) ==
  /\ Event /\ pc = "idle" /\ h # headset
  /\ headset' = h
  /\ IF up THEN Puts(<<Report(s, h, Ntfy(s))>>) /\ unsure' = unsure \ {s}
     ELSE UNCHANGED <<air, inAir, unsure>>
  /\ Blinds(IF s = "connection_mode" THEN {"own change"} ELSE {})
  /\ UNCHANGED <<daemonVars, pending, taken, declined, credit>>
OwnQuestion ==
  /\ Event /\ pc = "idle" /\ up
  /\ Puts(<<Confirms(KeyAssignChange)>>)
  /\ UNCHANGED <<daemonVars, headset, pending, taken, ghostVars>>

-----------------------------------------------------------------------------
(* onDataReceived. *)

\* The loop goes on while the buffer holds a frame, and leaves what follows.
Loop(b) == LET next == NextFrame(b)
           IN IF next.frame = <<>> THEN pc' = "idle" /\ buffer' = next.rest
              ELSE pc' = "frames" /\ buffer' = b

Read ==
  /\ pc = "idle" /\ up /\ air # <<>>
  /\ \E n \in 1 .. Len(air) :
       /\ \/ n = Min({Len(air), ReadMax}) /\ UNCHANGED events
          \/ n \in ReadSizes /\ Event
       /\ Loop(FramerAppend(buffer, SubSeq(air, 1, n), FramerLimit))
       /\ air' = SubSeq(air, n + 1, Len(air))
  /\ UNCHANGED <<up, state, lastAmbientStep, keyAssignRequested, queue, headset, pending, taken, inAir,
                 ghostVars>>

\* The one alert answered yes: the change of the button, when asked for.
ProceedsAlways(message) == message = KeyAssignChange
Proceeds(message) == message = KeyAssignChange /\ keyAssignRequested

\* A frame that tells the daemon a connection mode tells what is no longer so, or
\* will not be: a later one follows it, or the daemon's own command for another.
Fields(fr) == IF fr.type = MDR2 THEN ParseT2(fr.payload) ELSE ParseInbound(fr.payload)
TellsMode(fr) == fr.type \in {MDR, MDR2} /\ "connection_mode" \in DOMAIN Fields(fr)
Overtaken ==
  \/ \E i \in 2 .. Len(inAir) : TellsMode(inAir[i])
  \/ \E i \in 1 .. Len(queue) : queue[i].what = "connection_mode" /\ ~(i = 1 /\ taken)
DoubtsAfter(fr) ==
  IF ~TellsMode(fr) THEN doubts
  ELSE IF Overtaken THEN (doubts \ {"not told"}) \cup {"overtaken"} ELSE {}

HandleFrame ==
  /\ pc = "frames"
  /\ LET next == NextFrame(buffer)
         read == UnpackFrame(next.frame[1])
     IN /\ Loop(next.rest)
        /\ inAir' = IF read = <<>> THEN inAir ELSE Tail(inAir)
        /\ doubts' = IF read = <<>> THEN doubts ELSE DoubtsAfter(read[1])
        /\ \/ /\ (read = <<>> \/ read[1].type \notin {ACK, MDR, MDR2})
              /\ UNCHANGED <<state, lastAmbientStep, keyAssignRequested, queue, taken, credit>>
           \/ /\ read # <<>> /\ read[1].type = ACK
              /\ queue' = Tail(queue) /\ taken' = FALSE
              /\ UNCHANGED <<state, lastAmbientStep, keyAssignRequested, credit>>
           \/ /\ read # <<>> /\ read[1].type \in {MDR, MDR2}
              /\ LET p == read[1].payload
                     fields == Fields(read[1])
                     alert == read[1].type = MDR /\ AsksToProceed(p)
                     proceed == alert /\ Proceeds(p[3])
                 IN /\ state' = IF fields = <<>> THEN state ELSE Updated([state EXCEPT !.connected = TRUE], fields)
                    /\ lastAmbientStep' = IF fields # <<>> /\ state'.noise_mode = "ambient"
                                          THEN state'.ambient_sound_level ELSE lastAmbientStep
                    /\ IF alert
                       THEN /\ keyAssignRequested' = FALSE
                            /\ Send(Enqueue(queue, Item("alert reply", MDR, AlertReply(p[3], proceed))))
                       ELSE UNCHANGED <<keyAssignRequested, queue>>
                    /\ credit' = credit - Bit(proceed)
              /\ UNCHANGED taken
  /\ UNCHANGED <<up, headset, pending, air, unsure, blind, declined, events>>

-----------------------------------------------------------------------------

Verbs ==
  \/ \E m \in Modes, l \in Levels \cup {0} : SetNoiseMode(m, l)
  \/ \E l \in Levels : SetAmbientLevel(l)
  \/ \E b \in BOOLEAN : SetVoiceFocus(b)
  \/ \E s \in Settings : \E v \in Chosen[s] :
       \/ SetDsp(s, v) \/ SetPlain(s, v)
       \/ s = "connection_mode" /\ SetConnectionMode(v)
       \/ s = "nc_button" /\ SetNcButton(v)

Own ==
  \/ \E l \in Levels : OwnChange("noise", [headset EXCEPT !.on = TRUE, !.step = l, !.focus = FALSE])
  \/ \E b \in Batteries : OwnChange("battery_level", [headset EXCEPT !.battery_level = b])
  \/ \E s \in Owned : \E v \in Chosen[s] : OwnChange(s, [headset EXCEPT ![s] = v])
  \/ OwnQuestion

Next == LinkUp \/ LinkDown \/ Verbs \/ Take \/ GiveUp \/ Own \/ Read \/ HandleFrame

Spec == Init /\ [][Next]_vars

-----------------------------------------------------------------------------
(* Properties. *)

\* Types, with: the noise mode and the ambient level of the copy agree.
TypeOK ==
  /\ pc \in {"idle", "frames"} /\ up \in BOOLEAN /\ state.connected = up
  /\ \A s \in Settings : state[s] \in Values[s] \cup {-1, Unknown}
  /\ state.ambient_sound_level \in 0 .. MaxAmbientStep
  /\ state.noise_mode # "off" => state.noise_mode = StepToNoiseMode(state.ambient_sound_level)
  /\ lastAmbientStep \in {-1} \cup MinAmbientStep .. MaxAmbientStep
  /\ \A i \in 1 .. Len(queue) : queue[i].type \in {MDR, MDR2} /\ queue[i].payload \in Seq(Byte)
  /\ buffer \in Seq(Byte) /\ air \in Seq(Byte)
  /\ (taken => queue # <<>>) /\ (~up => queue = <<>> /\ air = <<>> /\ buffer = <<>> /\ pc = "idle")
  /\ unsure \subseteq Names

\* The frames that lie in s, one after the other: one ends at each end marker,
\* and what belongs to it begins behind the marker before.
PieceStarts(s, i) ==
  {k \in 1 .. i : (k = 1 \/ s[k - 1] = EndMarker) /\ \A j \in k .. i - 1 : s[j] # EndMarker}
Piece(s, i) == SubSeq(s, CHOOSE k \in PieceStarts(s, i) : TRUE, i)
FrameAt(s, i) == IF s[i] = EndMarker THEN UnpackFrame(FlattenSeq(NextFrame(Piece(s, i)).frame)) ELSE <<>>
FramesIn(s) == FlattenSeq([i \in 1 .. Len(s) |-> FrameAt(s, i)])

\* Whatever the reads cut the stream into, and however the last link ended, the
\* bytes kept and the bytes to come hold each frame the headset has sent on
\* this link and the daemon not handled, with the bytes it was sent with.
FramesRecovered == FramesIn(buffer \o air) = inAir

Quiet == up /\ pc = "idle" /\ queue = <<>> /\ air = <<>> /\ buffer = <<>>

NoiseTrue ==
  /\ (state.noise_mode = "off") = ~headset.on
  /\ headset.on => /\ state.ambient_sound_level = headset.step
                   /\ headset.step >= MinAmbientStep => state.voice_passthrough = headset.focus

\* Once nothing is under way the copy tells the truth, whatever verbs, buttons
\* and links crossed each other: what was asked for without a link does not
\* outlive the next one, and an answer from before a verb does not stick.  The
\* exception is a setting of which a command or query was given up or declined
\* and that the headset has not reported since: the daemon does not take its
\* copy back.  (Focus on Voice outside the ambient
\* steps is a wish for when they come.)
Truthful ==
  Quiet =>
    /\ "noise" \notin unsure => NoiseTrue
    /\ "battery_level" \notin unsure => state.battery_level = headset.battery_level
    /\ \A s \in Settings \ unsure : state[s] = headset[s]

\* No more alerts are answered yes than the user asked for changes of the
\* button, also when the flag that remembers it outlives the link.
YesOnlyAsked == credit >= 0

\* The daemon provokes the headset's objection on LDAC only by an equalizer
\* command sent, or left waiting, for one of four causes, where
\* docs/protocol-v1.md:338-339 says "never": the headset has not told it the mode
\* on this link yet; the headset changed the mode of its own; the command that
\* was to change it was given up; or "overtaken", the one the daemon could know
\* of: a report has put into the copy (main.cpp:400-403) a mode that a later
\* report, or the daemon's own command behind it in the queue, was to replace.
NeverProvokes == {} \notin declined

=============================================================================
