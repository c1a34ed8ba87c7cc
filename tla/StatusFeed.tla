----------------------------- MODULE StatusFeed -----------------------------
(***************************************************************************)
(* What the daemon promises those who read its status, with nothing of     *)
(* sockets and buffers: on one connection a reader is shown versions of    *)
(* the status that exist, never an older one after a newer one, and it     *)
(* may miss some in between.                                               *)
(***************************************************************************)
EXTENDS Integers

CONSTANT Client

VARIABLES
  latest,      \* the version the status has now; versions count from 0
  shown        \* the version each client saw last on its connection, or -1

fvars == <<latest, shown>>

Init == latest = 0 /\ shown = [c \in Client |-> -1]

Advance == latest' = latest + 1 /\ UNCHANGED shown

Show(c) == /\ \E v \in 0 .. latest : v >= shown[c] /\ shown' = [shown EXCEPT ![c] = v]
           /\ UNCHANGED latest

\* Connections end, one or, with the daemon, several at once.  A daemon that
\* starts again has a new status to show.
Forget == /\ \E D \in SUBSET Client :
               shown' = [c \in Client |-> IF c \in D THEN -1 ELSE shown[c]]
          /\ latest' \in {latest, latest + 1}

Next == Advance \/ Forget \/ \E c \in Client : Show(c)

FeedSpec == Init /\ [][Next]_fvars

=============================================================================
