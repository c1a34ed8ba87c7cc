------------------------------ MODULE MCDeploy ------------------------------
(* Two puts that share a file, one of them run from the installed copy and   *)
(* only where there is no git checkout, and a remove that clears the         *)
(* directory away.                                                           *)
EXTENDS Deploy

MCList == [new |-> <<"bin", "qml">>, again |-> <<"bin">>, clear |-> <<"bin">>]
MCPrefixed == [clear |-> {"qml"}]

=============================================================================
