------------------------------ MODULE MdrCodec ------------------------------
(***************************************************************************)
(* The wire format of the headset's control channel, byte for byte         *)
(* (daemon/src/MDRProtocolV1.cpp): frames with escapes and a checksum, the *)
(* stream framer, the payloads that set and query each setting, and what a *)
(* payload from the headset changes in the daemon's state.  A setting is   *)
(* known by its field of HeadphoneState, and its values by their codes on  *)
(* the wire, which the strings of the code stand for one to one.  The      *)
(* operators named for a mistake are faulty variants of the definition     *)
(* that follows; no specification uses them.                               *)
(***************************************************************************)
EXTENDS Integers, Sequences, SequencesExt

StartMarker  == 62      \* 0x3E
EndMarker    == 60      \* 0x3C
EscapeSentry == 61      \* 0x3D
Markers == {StartMarker, EndMarker, EscapeSentry}
Byte == 0 .. 255

ACK == 1
MDR == 12
MDR2 == 14              \* DATA_MDR_NO2: the second table of commands

-----------------------------------------------------------------------------
(* Frames. *)

Checksum(s) ==
  LET sum[i \in 0 .. Len(s)] == IF i = 0 THEN 0 ELSE (sum[i - 1] + s[i]) % 256
  IN sum[Len(s)]

\* An escaped byte follows the sentry, less 16.
Escape(s) ==
  FlattenSeq([i \in 1 .. Len(s) |-> IF s[i] \in Markers THEN <<EscapeSentry, s[i] - 16>> ELSE <<s[i]>>])

\* <<>> for a sentry that is followed by nothing, or by what no byte is escaped to.
Unescape(s) ==
  LET sentry[i \in 0 .. Len(s)] == i > 0 /\ s[i] = EscapeSentry /\ ~sentry[i - 1]
      bad(i) == sentry[i] /\ (i = Len(s) \/ s[i + 1] + 16 \notin Markers)
  IN IF \E i \in 1 .. Len(s) : bad(i) THEN <<>>
     ELSE FlattenSeq([i \in 1 .. Len(s) |-> IF sentry[i] THEN <<>>
                                            ELSE <<IF sentry[i - 1] THEN s[i] + 16 ELSE s[i]>>])

BigEndian(n) == <<n \div 16777216, (n \div 65536) % 256, (n \div 256) % 256, n % 256>>

PackFrame(type, seq, payload) ==
  LET body == <<type, seq>> \o BigEndian(Len(payload)) \o payload
  IN <<StartMarker>> \o Escape(Append(body, Checksum(body))) \o <<EndMarker>>

\* The frame read, in a sequence, or <<>>.
UnpackFrame(f) ==
  LET inner == Unescape(SubSeq(f, 2, Len(f) - 1))
      n == Len(inner)
  IN IF /\ Len(f) >= 9 /\ f[1] = StartMarker /\ f[Len(f)] = EndMarker
        /\ n >= 7
        /\ Checksum(SubSeq(inner, 1, n - 1)) = inner[n]
        /\ SubSeq(inner, 3, 6) = BigEndian(n - 7)
     THEN <<[type |-> inner[1], seq |-> inner[2], payload |-> SubSeq(inner, 7, n - 1)]>>
     ELSE <<>>

\* StreamFramer: what is in the buffer once more has come, and its next frame.
FramerAppend(buffer, incoming, limit) ==
  IF Len(buffer) + Len(incoming) > limit THEN incoming ELSE buffer \o incoming

First(s, b, from) == {i \in from .. Len(s) : s[i] = b /\ \A j \in from .. i - 1 : s[j] # b}

\* A frame in a sequence, or <<>>, and what stays in the buffer.
NextFrame(s) ==
  LET start == First(s, StartMarker, 1)
      end == UNION {First(s, EndMarker, i + 1) : i \in start}
      from == CHOOSE i \in start : TRUE
      to == CHOOSE i \in end : TRUE
  IN IF start = {} THEN [frame |-> <<>>, rest |-> <<>>]
     ELSE IF end = {} THEN [frame |-> <<>>, rest |-> SubSeq(s, from, Len(s))]
     ELSE [frame |-> <<SubSeq(s, from, to)>>, rest |-> SubSeq(s, to + 1, Len(s))]

-----------------------------------------------------------------------------
(* The settings: one axis of steps for noise control, and the values of the  *)
(* others.                                                                   *)

StepNoiseCancel == 0
StepWind        == 1
MinAmbientStep  == 2
MaxAmbientStep  == 19
LevelDisabled   == 255

NoiseModes == {"anc", "wind", "ambient", "off"}

StepToNoiseMode(step) == IF step = StepNoiseCancel THEN "anc"
                         ELSE IF step = StepWind THEN "wind" ELSE "ambient"

NoiseModeToStepAsTold(mode, preferred) ==
  CASE mode = "wind" -> StepWind [] mode = "ambient" -> preferred [] OTHER -> StepNoiseCancel
NoiseModeToStep(mode, preferred) ==
  CASE mode = "wind" -> StepWind
    [] mode = "ambient" -> IF preferred \in MinAmbientStep .. MaxAmbientStep THEN preferred
                           ELSE (MinAmbientStep + MaxAmbientStep) \div 2
    [] OTHER -> StepNoiseCancel

EqPresets       == {0} \cup 16 .. 23 \cup 160 .. 162
Surrounds       == 0 .. 4
SoundPositions  == {0, 1, 2, 3, 17, 18}
ConnectionModes == {0, 1}
Quality         == 0    \* LDAC
Timers          == {0, 1, 2, 3, 17}
NcButtons       == 0 .. 2
OptimizerStates == {0, 1, 2, 16, 17}
MaxVolume       == 30
Unknown         == 255

\* The values the verbs of the control socket give them.
Values ==
  [eq_preset |-> EqPresets, surround |-> Surrounds, sound_position |-> SoundPositions,
   auto_power_off |-> Timers, connection_mode |-> ConnectionModes, optimizer_state |-> {0, 1},
   volume |-> 0 .. MaxVolume, nc_button |-> NcButtons, touch_panel |-> {0, 1},
   voice_guidance |-> {0, 1}, dsee_hx |-> {0, 1}]

-----------------------------------------------------------------------------
(* Payloads.  The first byte of those that ask for a setting, answer, set it *)
(* and notify of it follow each other.                                       *)

Ask == [battery_level |-> 16, surround |-> 70, sound_position |-> 70, eq_preset |-> 86,
        noise |-> 102, optimizer_state |-> 130, volume |-> 166, nc_button |-> 214, touch_panel |-> 214,
        connection_mode |-> 230, dsee_hx |-> 230, auto_power_off |-> 246, voice_guidance |-> 70]
Ret(s)  == Ask[s] + 1
Set(s)  == Ask[s] + 2
Ntfy(s) == Ask[s] + 3
TypeOf(s) == IF s = "voice_guidance" THEN MDR2 ELSE MDR

\* What follows it: the inquired type.
Inquired == [battery_level |-> 0, surround |-> 1, sound_position |-> 2, eq_preset |-> 1, noise |-> 2,
             optimizer_state |-> 1, volume |-> 1, nc_button |-> 209, touch_panel |-> 210,
             connection_mode |-> 1, dsee_hx |-> 2, auto_power_off |-> 4, voice_guidance |-> 1]
Detail == [volume |-> 32, voice_guidance |-> 1]

SerializeQuery(s) ==
  IF s \in DOMAIN Detail THEN <<Ask[s], Inquired[s], Detail[s]>> ELSE <<Ask[s], Inquired[s]>>

\* The payload that sets s to v.
SerializeSet(s, v) ==
  LET set == Set(s)
      inquired == Inquired[s]
  IN CASE s = "eq_preset"                          -> <<set, inquired, v, 0>>
       [] s \in {"surround", "sound_position"}     -> <<set, inquired, v>>
       [] s \in {"connection_mode", "dsee_hx", "optimizer_state"} -> <<set, inquired, 0, v>>
       [] s = "auto_power_off"                     -> <<set, inquired, 1, v, IF v = 17 THEN 3 ELSE v>>
       [] s \in {"volume", "voice_guidance"}       -> <<set, inquired, Detail[s], v>>
       [] s = "nc_button"                          -> <<set, inquired, 2, v>>
       [] s = "touch_panel"                        -> <<set, inquired, 1, v>>

Bit(b) == IF b THEN 1 ELSE 0

\* serializeNcAsm().  Focus on Voice exists among the ambient steps only.
SerializeNcAsm(enabled, step, voiceFocus) ==
  LET nc == CASE enabled /\ step = StepNoiseCancel -> 2 [] enabled /\ step = StepWind -> 1 [] OTHER -> 0
  IN <<Set("noise"), Inquired.noise, IF enabled THEN 17 ELSE 0, 1, nc, 1,
       Bit(enabled /\ voiceFocus /\ step >= MinAmbientStep), IF enabled THEN step ELSE LevelDisabled>>

ConnectionModeChange == 1
KeyAssignChange      == 2
AlertReply(message, proceed) == <<152, 1, message, Bit(proceed)>>
AsksToProceed(p) == Len(p) >= 4 /\ p[1] = 153 /\ p[2] = 1 /\ p[4] = 1

\* parseInboundPayload(), parseInboundPayloadT2(): the fields a payload gives,
\* as a function from field to value.
NoiseFields(p) ==
  LET mode == CASE p[3] = 0 -> "off" [] p[3] # 0 /\ p[5] = 2 -> "anc"
                [] p[3] # 0 /\ p[5] = 1 -> "wind" [] OTHER -> "ambient"
      level == CASE mode = "anc" -> {StepNoiseCancel} [] mode = "wind" -> {StepWind}
                 [] mode = "ambient" /\ p[8] # LevelDisabled -> {p[8]} [] OTHER -> {}
  IN [f \in {"noise_mode", "voice_passthrough"} \cup (IF level = {} THEN {} ELSE {"ambient_sound_level"}) |->
        CASE f = "noise_mode" -> mode
          [] f = "voice_passthrough" -> p[7] = 1
          [] OTHER -> CHOOSE l \in level : TRUE]

Known(v, S, default) == IF v \in S THEN v ELSE default
Field(name, value) == [f \in {name} |-> value]
ParseT2(p) ==
  IF Len(p) >= 4 /\ p[1] \in {Ret("voice_guidance"), Ntfy("voice_guidance")} /\ p[2] = 1 /\ p[3] = 1
  THEN Field("voice_guidance", Bit(p[4] = 1)) ELSE <<>>

Reports(p, s, size) == Len(p) >= size /\ p[1] \in {Ret(s), Ntfy(s)} /\ p[2] = Inquired[s]
DeviceFields(p) ==
  CASE Reports(p, "optimizer_state", 4)          -> Field("optimizer_state", Known(p[4], OptimizerStates, 0))
    [] Reports(p, "volume", 4) /\ p[3] = Detail.volume
                                                 -> Field("volume", Min({p[4], MaxVolume}))
    [] Reports(p, "nc_button", 4) /\ p[3] = 2    -> Field("nc_button", Known(p[4], NcButtons, Unknown))
    [] Reports(p, "touch_panel", 4) /\ p[3] = 1  -> Field("touch_panel", Bit(p[4] = 1))
    [] OTHER -> <<>>
ParseInbound(p) ==
  CASE Reports(p, "battery_level", 4)   -> Field("battery_level", p[3])
    [] Reports(p, "noise", 8)           -> NoiseFields(p)
    [] Reports(p, "eq_preset", 3)       -> Field("eq_preset", Known(p[3], EqPresets, 0))
    [] Reports(p, "surround", 3)        -> Field("surround", Known(p[3], Surrounds, 0))
    [] Reports(p, "sound_position", 3)  -> Field("sound_position", Known(p[3], SoundPositions, 0))
    [] Reports(p, "dsee_hx", 4)         -> Field("dsee_hx", Bit(p[4] = 1))
    [] Reports(p, "connection_mode", 4) -> Field("connection_mode", Known(p[4], ConnectionModes, Unknown))
    [] Reports(p, "auto_power_off", 4)  -> Field("auto_power_off", Known(p[4], Timers \cup {16}, Unknown))
    [] OTHER -> DeviceFields(p)

=============================================================================
