------------------------------- MODULE MCIpc -------------------------------
(* IpcServer on two clients, with a status that reads like the one before *)
(* the last.                                                              *)
EXTENDS IpcServer

CONSTANTS calm, noisy

MCClient == {calm, noisy}
MCWrite(k, n) == [k |-> k, n |-> n]
MCWrites == [c \in MCClient |->
               IF c = calm THEN {MCWrite("subscribe", 1), MCWrite("unsubscribe", 1), MCWrite("status", 1)}
               ELSE {MCWrite("set", 2), MCWrite("subscribe", 1), MCWrite("set", MaxLine)}]
MCStatusOf == [v \in 0 .. MaxVersion |-> v % 2]

=============================================================================
