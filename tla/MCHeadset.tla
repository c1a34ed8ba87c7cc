------------------------------ MODULE MCHeadset ------------------------------
(* HeadsetControl with few settings and values, reads that cut frames, and a *)
(* battery level whose byte is escaped.                                      *)
EXTENDS HeadsetControl

MCChosen == [eq_preset |-> {16}, connection_mode |-> {0, 1}, nc_button |-> {1}, volume |-> {7}]

=============================================================================
