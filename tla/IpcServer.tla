------------------------------ MODULE IpcServer ------------------------------
(***************************************************************************)
(* The daemon's UNIX socket server (daemon/src/IpcServer.cpp) inside the   *)
(* event loop that drives it and publishes the status (main.cpp:622-724),  *)
(* with its clients and the kernel's socket buffers, which are outside.    *)
(*                                                                         *)
(* A turn of the loop: poll, the Bluetooth side (which may change the      *)
(* status), the listener, the clients poll found ready, the timers (which  *)
(* may change the status), and the push to subscribers.  Clients run in    *)
(* between, also between two recv() calls of one handler.  A client is     *)
(* known by its name and has one connection at a time; its descriptor is   *)
(* not used again within a turn, because the listener is served first.     *)
(* A request has a kind and a length: that many symbols of its kind, and a *)
(* newline, so that it can be cut anywhere and be too long; a line to a    *)
(* client is one symbol and a newline.  The status is known by a version,  *)
(* and StatusOf says what a version reads like, as two may read alike.     *)
(* The operators named for a mistake (NewestFirst, DropsRest, and so on)   *)
(* are faulty variants of the definition that follows; no specification    *)
(* uses them.                                                              *)
(***************************************************************************)
EXTENDS Integers, Sequences

CONSTANTS
  Client,
  Activated,     \* socketActivated_: systemd holds the listening socket
  Writes,        \* the lines each client writes, by kind and length, a function
  StatusOf,      \* the text of each version of the status, a function
  MaxLine,       \* maxLineLength_, in symbols
  ReadSize,      \* what one recv() takes
  MaxOut,        \* maxOutBuffer_, in symbols
  SockRoom,      \* what the kernel holds for a client that does not read
  MaxWrites,     \* bound: lines clients start
  MaxVersion,    \* bound: changes of the status
  MaxConnects,   \* bound: connections a client makes
  MaxRestarts    \* bound: times the daemon ends and starts again

ASSUME IpcAssumption ==
  /\ Activated \in BOOLEAN
  /\ MaxVersion \in Nat /\ DOMAIN StatusOf = 0 .. MaxVersion
  /\ Writes \in [Client -> SUBSET [k : {"subscribe", "unsubscribe", "status", "set"},
                                   n : Nat \ {0}]]
  /\ MaxLine \in Nat /\ {ReadSize, MaxOut} \subseteq Nat \ {0} /\ SockRoom \in Nat
  /\ MaxWrites \in Nat /\ MaxConnects \in Nat /\ MaxRestarts \in Nat

VARIABLES
  (* the event loop *)
  pc,          \* "poll", "ipc", "read", or "down": no daemon runs
  events,      \* what poll() reported of each client: a subset of {"in", "out", "hup"}
  listen,      \* poll() reported the listener
  reading,     \* the client whose requests are being read, in a set
  status,      \* version of the status
  published,   \* lastPublishedStatus: a version, or -1
  (* IpcServer::clients_ *)
  open,        \* clients with a session
  subscribed,  \* those with session.subscribed
  inBuf, outBuf,
  (* the kernel and the clients *)
  waiting,     \* connections nobody has accepted
  conn,        \* "none", "up", "clientClosed" or "serverClosed"
  toServer, toClient,
  midLine,     \* the client has written a line but for its newline
  (* history, of each connection: the requests not answered, what was given it
     to send and the client has not read, the last status line given it, and
     the version the client read last *)
  owed, due, told, seen,
  (* counters the bounds need *)
  writes, connects, restarts

loopVars == <<pc, events, listen, reading>>
sessionVars == <<open, subscribed, inBuf, outBuf>>
linkVars == <<conn, toServer, toClient, midLine>>
historyVars == <<owed, due, told, seen>>
countVars == <<writes, connects, restarts>>
vars == <<loopVars, status, published, sessionVars, waiting, linkVars,
          historyVars, countVars>>

Symbol(k) == [k |-> k, v |-> 0]
NewLine == Symbol("nl")
Untold == [k |-> "none", v |-> -1]
Line(k, v) == <<[k |-> k, v |-> v], NewLine>>

HasLine(s) == \E i \in 1 .. Len(s) : s[i] = NewLine
LineEnd(s) == CHOOSE i \in 1 .. Len(s) : s[i] = NewLine /\ \A j \in 1 .. i - 1 : s[j] # NewLine
Lesser(a, b) == IF a < b THEN a ELSE b
Take(s, n) == SubSeq(s, 1, Lesser(n, Len(s)))
Drop(s, n) == SubSeq(s, n + 1, Len(s))
Clear(f, D) == [c \in Client |-> IF c \in D THEN <<>> ELSE f[c]]
Empty == [c \in Client |-> <<>>]

Init ==
  /\ pc = "poll" /\ events = [c \in Client |-> {}] /\ listen = FALSE /\ reading = {}
  /\ status = 0 /\ published = -1
  /\ open = {} /\ subscribed = {} /\ inBuf = Empty /\ outBuf = Empty
  /\ waiting = {} /\ conn = [c \in Client |-> "none"] /\ toServer = Empty /\ toClient = Empty
  /\ midLine = {}
  /\ owed = Empty /\ due = Empty /\ told = [c \in Client |-> Untold]
  /\ seen = [c \in Client |-> -1]
  /\ writes = 0 /\ connects = [c \in Client |-> 0] /\ restarts = 0

StatusSymbol(s) == s # <<>> /\ s[1].k \in {"state", "push"}

-----------------------------------------------------------------------------
(* Pieces of the handlers. *)

\* The status may have become another one.
StatusMoves == status' \in {status} \cup {v \in 0 .. MaxVersion : v = status + 1}

\* send() fails: the client is gone.
Fails(c) == conn[c] = "clientClosed"

\* What is to be sent once a line has been queued.
NewestFirst(c, line) == line \o outBuf[c]
Pending(c, line) == outBuf[c] \o line

\* queueResponse() of lines[c] to each c of D, and flushClientOutBuffer(): as
\* much is sent as there is room for.  The clients of Gone are closed, by
\* closeClient(): what the kernel holds for one that is still there remains.
Settle(D, lines, Gone) ==
  LET sent(c) == Take(Pending(c, lines[c]), SockRoom - Len(toClient[c]))
      kept(c) == Drop(Pending(c, lines[c]), SockRoom - Len(toClient[c]))
  IN /\ toClient' = [c \in Client |-> IF c \in D THEN toClient[c] \o sent(c) ELSE toClient[c]]
     /\ outBuf' = [c \in Client |-> IF c \in Gone THEN <<>>
                                    ELSE IF c \in D THEN kept(c) ELSE outBuf[c]]
     /\ due' = [c \in Client |-> IF c \in D THEN due[c] \o lines[c] ELSE due[c]]
     /\ told' = [c \in Client |-> IF c \in D /\ StatusSymbol(lines[c]) THEN lines[c][1] ELSE told[c]]
     /\ open' = open \ Gone
     /\ conn' = [c \in Client |-> IF c \notin Gone THEN conn[c]
                                  ELSE IF Fails(c) THEN "none" ELSE "serverClosed"]

-----------------------------------------------------------------------------
(* One turn of the loop. *)

\* A socket with bytes to send is polled for room too (appendPollFds).
ReadsOnly(c) == {e \in {"in", "hup"} :
                   \/ e = "in" /\ (toServer[c] # <<>> \/ Fails(c))
                   \/ e = "hup" /\ Fails(c)}
Reported(c) == {e \in {"in", "out", "hup"} :
                  \/ e = "in" /\ (toServer[c] # <<>> \/ Fails(c))
                  \/ e = "out" /\ outBuf[c] # <<>> /\ Len(toClient[c]) < SockRoom
                  \/ e = "hup" /\ Fails(c)}

SomethingReady == waiting # {} \/ \E c \in open : Reported(c) # {}

\* poll() returns, and the Bluetooth side has its say first.
PollReturns ==
  /\ pc = "poll"
  /\ events' = [c \in Client |-> IF c \in open THEN Reported(c) ELSE {}]
  /\ listen' = (waiting # {})
  /\ StatusMoves
  /\ SomethingReady \/ status' # status
  /\ pc' = "ipc"
  /\ UNCHANGED <<reading, published, sessionVars, waiting, linkVars, historyVars,
                 countVars>>

AcceptClients ==
  /\ pc = "ipc" /\ listen
  /\ open' = open \cup waiting
  /\ waiting' = {}
  /\ listen' = FALSE
  /\ UNCHANGED <<pc, events, reading, status, published, subscribed, inBuf, outBuf,
                 linkVars, historyVars, countVars>>

Serving(c) == /\ pc = "ipc" /\ ~listen /\ events[c] # {}
              /\ events' = [events EXCEPT ![c] = {}]
              /\ UNCHANGED <<listen, status, published, waiting, midLine,
                             owed, seen, countVars>>

Closing(c) == /\ Settle({}, Empty, {c})
              /\ subscribed' = subscribed \ {c}
              /\ toServer' = Clear(toServer, {c})
              /\ inBuf' = Clear(inBuf, {c})

\* handleSocketEvent(): a client that hung up is closed, whatever it had asked;
\* so is one that left before what waits for it could be sent.
HangUp(c) ==
  /\ Serving(c)
  /\ "hup" \in events[c] \/ ("out" \in events[c] /\ Fails(c))
  /\ Closing(c)
  /\ UNCHANGED <<pc, reading>>

\* ... and otherwise what waits is sent, and the requests are read.
Serve(c) ==
  /\ Serving(c)
  /\ "hup" \notin events[c] /\ ~("out" \in events[c] /\ Fails(c))
  /\ Settle(IF "out" \in events[c] THEN {c} ELSE {}, Empty, {})
  /\ IF "in" \in events[c] THEN pc' = "read" /\ reading' = {c} ELSE UNCHANGED <<pc, reading>>
  /\ UNCHANGED <<subscribed, inBuf, toServer>>

\* The limit on a line is put on all that one recv() leaves in the buffer.
NoLimit(buf)      == FALSE
AtTheLimit(buf)   == Len(buf) >= MaxLine
TooLong(buf)      == Len(buf) > MaxLine

\* handleClientRead(): one recv().
Recv(c) ==
  /\ pc = "read" /\ reading = {c} /\ ~HasLine(inBuf[c])
  /\ LET n   == Lesser(ReadSize, Len(toServer[c]))
         buf == inBuf[c] \o Take(toServer[c], n)
         end == n = 0 \/ TooLong(buf)
     IN /\ IF end THEN pc' = "ipc" /\ reading' = {} ELSE UNCHANGED <<pc, reading>>
        /\ \/ /\ n = 0 /\ ~Fails(c)      \* EAGAIN
              /\ UNCHANGED <<sessionVars, conn, toServer, toClient, due, told>>
           \/ n = 0 /\ Fails(c) /\ Closing(c)
           \/ /\ n > 0 /\ TooLong(buf)   \* the rest is drained
              /\ Settle(IF Fails(c) THEN {} ELSE {c}, [d \in Client |-> Line("err", 0)], {c})
              /\ subscribed' = subscribed \ {c}
              /\ toServer' = Clear(toServer, {c})
              /\ inBuf' = Clear(inBuf, {c})
           \/ /\ n > 0 /\ ~TooLong(buf)
              /\ inBuf' = [inBuf EXCEPT ![c] = buf]
              /\ toServer' = [toServer EXCEPT ![c] = Drop(@, n)]
              /\ UNCHANGED <<open, subscribed, outBuf, conn, toClient, due, told>>
  /\ UNCHANGED <<events, listen, status, published, waiting, midLine, owed,
                 seen, countVars>>

\* What stays in the buffer once its first line has been taken.
DropsRest(s) == <<>>
Rest(s) == Drop(s, LineEnd(s))

\* The answer to `status` and `subscribe`: the status as it is now.
StatusLine == Line("state", status)

\* A line is answered.  An answer that cannot be sent closes the client, with
\* what the request did left done.
Answer(c, line, D) ==
  /\ Settle(IF Fails(c) THEN {} ELSE {c}, [d \in Client |-> line], IF Fails(c) THEN {c} ELSE {})
  /\ subscribed' = IF Fails(c) THEN D \ {c} ELSE D
  /\ inBuf' = IF Fails(c) THEN Clear(inBuf, {c}) ELSE [inBuf EXCEPT ![c] = Rest(@)]
  /\ toServer' = IF Fails(c) THEN Clear(toServer, {c}) ELSE toServer
  /\ IF Fails(c) THEN pc' = "ipc" /\ reading' = {} ELSE UNCHANGED <<pc, reading>>
  /\ owed' = [owed EXCEPT ![c] = IF Fails(c) THEN @ ELSE Tail(@)]
  /\ UNCHANGED <<events, listen, published, waiting, midLine, seen, countVars>>

Request(c, k) == pc = "read" /\ reading = {c} /\ HasLine(inBuf[c]) /\ inBuf[c][1].k = k

Subscribe(c)   == /\ Request(c, "subscribe") /\ Answer(c, StatusLine, subscribed \cup {c})
                  /\ UNCHANGED status
Unsubscribe(c) == /\ Request(c, "unsubscribe") /\ Answer(c, Line("ok", 0), subscribed \ {c})
                  /\ UNCHANGED status
Status(c)      == Request(c, "status") /\ Answer(c, StatusLine, subscribed) /\ UNCHANGED status
\* Any command: it may change the status.
Command(c)     == Request(c, "set") /\ Answer(c, Line("ok", 0), subscribed) /\ StatusMoves

\* broadcastStatus(): who is sent the new status, and who is dropped as unable
\* to keep up or as gone.
FullWhenPassed(c) == Len(outBuf[c]) > MaxOut
Full(c) == Len(outBuf[c]) + 2 > MaxOut
SkipsTheBusy == {c \in subscribed : ~Full(c) /\ ~Fails(c) /\ outBuf[c] = <<>>}
Listeners == {c \in subscribed : ~Full(c) /\ ~Fails(c)}
Stalled == {c \in subscribed : Full(c) \/ Fails(c)}

\* The timers (BluetoothManager::tick, CommandQueue::tick) have their say, then
\* the status is pushed if it reads differently from the last one pushed.
Publish ==
  /\ pc = "ipc" /\ ~listen /\ \A c \in Client : events[c] = {}
  /\ pc' = "poll"
  /\ StatusMoves
  /\ IF subscribed # {} /\ (published = -1 \/ StatusOf[status'] # StatusOf[published])
     THEN /\ published' = status'
          /\ Settle(Listeners, [c \in Client |-> Line("push", status')], Stalled)
          /\ subscribed' = subscribed \ Stalled
          /\ toServer' = Clear(toServer, Stalled)
          /\ inBuf' = Clear(inBuf, Stalled)
     ELSE UNCHANGED <<published, sessionVars, conn, toServer, toClient, due, told>>
  /\ UNCHANGED <<events, listen, reading, waiting, midLine, owed, seen, countVars>>

\* The daemon stops (IpcServer::stop) or dies: every connection it had ends.
\* So do those nobody accepted, unless systemd holds the socket they wait at.
Ends ==
  /\ pc # "down" /\ restarts < MaxRestarts
  /\ restarts' = restarts + 1
  /\ LET lost == IF Activated THEN open ELSE open \cup waiting
     IN /\ Settle({}, Empty, lost)
        /\ toServer' = Clear(toServer, lost)
        /\ waiting' = waiting \ lost
  /\ pc' = "down" /\ events' = [c \in Client |-> {}] /\ listen' = FALSE /\ reading' = {}
  /\ subscribed' = {} /\ inBuf' = Empty
  /\ UNCHANGED <<status, published, midLine, owed, seen, writes, connects>>

\* A new daemon, with a status of its own: by systemd when something waits at
\* the socket it holds, by hand otherwise (start() removes the dead one's
\* socket file and binds the name again).
Starts ==
  /\ pc = "down"
  /\ pc' = "poll" /\ published' = -1 /\ StatusMoves
  /\ UNCHANGED <<events, listen, reading, sessionVars, waiting, linkVars,
                 historyVars, countVars>>

-----------------------------------------------------------------------------
(* The clients. *)

Forgets(c) == /\ owed' = Clear(owed, {c}) /\ due' = Clear(due, {c})
              /\ told' = [told EXCEPT ![c] = Untold] /\ seen' = [seen EXCEPT ![c] = -1]

Connect(c) ==
  /\ conn[c] \in {"none", "serverClosed"} /\ connects[c] < MaxConnects
  /\ Activated \/ pc # "down"
  /\ connects' = [connects EXCEPT ![c] = @ + 1]
  /\ conn' = [conn EXCEPT ![c] = "up"]
  /\ waiting' = waiting \cup {c}
  /\ Forgets(c) /\ toClient' = Clear(toClient, {c})
  /\ midLine' = midLine \ {c}
  /\ UNCHANGED <<loopVars, status, published, sessionVars, toServer,
                 writes, restarts>>

\* A line, but for its end, and its end.
Body(w) == [i \in 1 .. w.n |-> Symbol(w.k)]
StartLine(c, w) ==
  /\ conn[c] = "up" /\ writes < MaxWrites
  /\ c \notin midLine
  /\ writes' = writes + 1
  /\ midLine' = midLine \cup {c}
  /\ toServer' = [toServer EXCEPT ![c] = @ \o Body(w)]
  /\ owed' = [owed EXCEPT ![c] = Append(@, w)]
  /\ UNCHANGED <<loopVars, status, published, sessionVars, waiting, conn, toClient,
                 due, told, seen, connects, restarts>>
EndLine(c) ==
  /\ conn[c] = "up" /\ c \in midLine
  /\ midLine' = midLine \ {c}
  /\ toServer' = [toServer EXCEPT ![c] = Append(@, NewLine)]
  /\ UNCHANGED <<loopVars, status, published, sessionVars, waiting, conn, toClient,
                 historyVars, countVars>>

Hear(c) ==
  /\ conn[c] \in {"up", "serverClosed"} /\ toClient[c] # <<>>
  /\ due' = [due EXCEPT ![c] = Drop(@, Len(toClient[c]))]
  /\ LET S == {i \in 1 .. Len(toClient[c]) : StatusSymbol(<<toClient[c][i]>>)}
     IN \/ S = {} /\ UNCHANGED seen
        \/ \E i \in S : /\ \A j \in S : j <= i
                        /\ seen' = [seen EXCEPT ![c] = toClient[c][i].v]
  /\ toClient' = Clear(toClient, {c})
  /\ UNCHANGED <<loopVars, status, published, sessionVars, waiting, conn, toServer,
                 midLine, owed, told, countVars>>

Leave(c) ==
  /\ conn[c] = "up"
  /\ conn' = [conn EXCEPT ![c] = "clientClosed"]
  /\ toClient' = Clear(toClient, {c})
  /\ Forgets(c)
  /\ UNCHANGED <<loopVars, status, published, sessionVars, waiting, toServer,
                 midLine, countVars>>

-----------------------------------------------------------------------------

Handle(c) == \/ HangUp(c) \/ Serve(c) \/ Recv(c)
             \/ Subscribe(c) \/ Unsubscribe(c) \/ Status(c) \/ Command(c)

Daemon == PollReturns \/ AcceptClients \/ (\E c \in Client : Handle(c)) \/ Publish \/ Starts

Next ==
  \/ Daemon \/ Ends
  \/ \E c \in Client : \/ Connect(c) \/ EndLine(c) \/ Hear(c) \/ Leave(c)
                       \/ \E w \in Writes[c] : StartLine(c, w)

\* The loop goes round when there is something to do, a daemon that ended is
\* started again, and a client reads what has come.
Turns == Daemon /\ (pc = "poll" => SomethingReady)

Spec == /\ Init /\ [][Next]_vars
        /\ WF_vars(Turns)
        /\ \A c \in Client : WF_vars(Hear(c))

-----------------------------------------------------------------------------
(* Properties. *)

Symbols == [k : {"subscribe", "unsubscribe", "status", "set", "nl", "state", "push", "ok", "err"},
            v : 0 .. MaxVersion]
Symbolic(s) == \A i \in 1 .. Len(s) : s[i] \in Symbols

\* Types, with: the kernel holds no more than it has room for, an unfinished
\* line no more than its limit, and buffers belong to sessions.
TypeOK ==
  /\ pc \in {"poll", "ipc", "read", "down"} /\ (pc = "read" <=> reading # {})
  /\ \A c \in Client : events[c] \subseteq {"in", "out", "hup"}
  /\ status \in 0 .. MaxVersion /\ published \in -1 .. status
  /\ subscribed \subseteq open /\ reading \subseteq open
  /\ waiting \cap open = {}
  /\ (pc = "down" => open = {}) /\ listen \in BOOLEAN
  /\ \A c \in Client :
       /\ (c \in open \cup waiting) <=> (conn[c] \in {"up", "clientClosed"})
       /\ conn[c] \in {"none", "up", "clientClosed", "serverClosed"}
       /\ Symbolic(toServer[c]) /\ Symbolic(inBuf[c]) /\ Symbolic(outBuf[c]) /\ Symbolic(toClient[c])
       /\ Len(toClient[c]) <= SockRoom
       /\ Len(inBuf[c]) <= MaxLine
       /\ c \notin open => inBuf[c] = <<>> /\ outBuf[c] = <<>>

\* Answers and pushes share a buffer that is sent in pieces: of the lines a
\* client was given, what it has not read is what the kernel holds and then
\* what is left to send, none torn, lost or overtaken.
LinesWhole ==
  \A c \in Client :
    /\ c \in open /\ conn[c] = "up" => due[c] = toClient[c] \o outBuf[c]
    /\ conn[c] = "serverClosed" => Take(due[c], Len(toClient[c])) = toClient[c]

\* The lines ws as they are written.
Text(ws) ==
  LET text[n \in 0 .. Len(ws)] ==
        IF n = 0 THEN <<>> ELSE text[n - 1] \o Append(Body(ws[n]), NewLine)
  IN text[Len(ws)]

\* What c has yet to write of the line it is in.
Ending(c) == IF c \in midLine THEN <<NewLine>> ELSE <<>>

\* A line is refused for being too long only if it is, its newline counted, or
\* if its writer did not wait for the answer: the limit is put on the line with
\* what one recv() took behind it, so one that leaves less room than that below
\* the limit may be refused for the requests that follow it.
Refusable(ws) ==
  /\ ws # <<>>
  /\ \/ ws[1].n + 1 > MaxLine
     \/ Len(ws) > 1 /\ ws[1].n + ReadSize > MaxLine

\* A client that writes its requests in one go, in pieces or faster than they
\* are read gets the answer of each, once and in order: while the connection
\* stands, what is still to be taken of what it wrote is the requests not
\* answered, to the byte.  It is refused one, and its connection closed, only
\* for the first of these and only if that is Refusable.
AnswersInOrder ==
  \A c \in Client :
    /\ conn[c] = "up" => (inBuf[c] \o toServer[c]) \o Ending(c) = Text(owed[c])
    /\ (\E i \in 1 .. Len(due[c]) : due[c][i].k = "err")
         => conn[c] = "serverClosed" /\ Refusable(owed[c])

\* A reader that never drains does not make the daemon hold pushes without
\* bound: a queue of pushes alone never passes maxOutBuffer_.
QueuesBounded ==
  \A c \in Client : Len(outBuf[c]) > MaxOut =>
                      \E i \in 1 .. Len(outBuf[c]) : outBuf[c][i].k \in {"state", "ok", "err"}

\* Between two turns of the loop, each subscriber has been sent the status as it
\* reads now.  The one exception: the last it was told is an answer, and the
\* status has since gone back to what was pushed before that answer, so that
\* the loop, which compares with the last push only, sees nothing new.
UpToDate ==
  pc = "poll" =>
    \A c \in subscribed :
      conn[c] = "up" =>
        /\ told[c] # Untold
        /\ \/ StatusOf[told[c].v] = StatusOf[status]
           \/ /\ told[c].k = "state"
              /\ published \in 0 .. told[c].v - 1 /\ StatusOf[published] = StatusOf[status]

Feed == INSTANCE StatusFeed WITH latest <- status, shown <- seen

\* No reader is shown an older status after a newer one, whichever of answers
\* and pushes it learns it by.
ImplementsFeed == Feed!FeedSpec

Unanswered(c) == HasLine(inBuf[c] \o toServer[c]) \/ outBuf[c] # <<>>

\* A client that reads is served: its requests do not stay unanswered and its
\* answers do not stay in the daemon's buffer, however long its peers keep
\* silent or do not read, and also when the daemon ends before it accepted it.
Served == \A c \in Client : conn[c] = "up" /\ Unanswered(c) ~> conn[c] # "up" \/ ~Unanswered(c)

=============================================================================
