------------------------------ MODULE MCMdrLink ------------------------------
(* Instances of MdrLink for TLC. *)
EXTENDS MdrLink

\* One label per setting, as for the volume: one slider and one query.
OneWhat       == {"handshake", "volume", "dsee hx", "alert reply"}
OneSettingOf  == [w \in OneWhat |-> CASE w = "volume" -> "volume"
                                      [] w = "dsee hx" -> "dsee"
                                      [] OTHER -> NoSetting]
OneHandshake  == <<"handshake">>
TwoHandshake  == <<"handshake", "handshake">>

\* Two labels, one setting: noise mode and ambient level both write NC/ASM.
NoiseWhat      == {"handshake", "noise mode", "ambient level", "alert reply"}
NoiseSettingOf == [w \in NoiseWhat |-> CASE w \in {"noise mode", "ambient level"} -> "nc/asm"
                                         [] OTHER -> NoSetting]
=============================================================================
