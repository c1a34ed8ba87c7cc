------------------------- MODULE MdrLinkServiceProofs -------------------------
(***************************************************************************)
(* What the control channel as a whole promises, for all constants: types, *)
(* when commands are given up, the order settings are written in, the      *)
(* sequence bit, and that the queue with its headset implements the        *)
(* abstract CommandService if no ACK is late.                              *)
(***************************************************************************)
EXTENDS MdrLinkProofs

USE DEF Bit

-----------------------------------------------------------------------------
(* 1. The ids held by commands p waiting and f in flight. *)

QIds(p, f) == {p[i].id : i \in 1 .. Len(p)} \cup (IF f = NoCommand THEN {} ELSE {f.id})

\* QueuedIds now and after a step.
LEMMA QueuedIdsAre == QueuedIds = QIds(pending, inFlight) /\ QueuedIds' = QIds(pending', inFlight')
BY DEF QueuedIds, QIds

\* No id is held twice.
Distinct(p, f) ==
  /\ \A i, j \in 1 .. Len(p) : p[i].id = p[j].id => i = j
  /\ f # NoCommand => \A i \in 1 .. Len(p) : p[i].id # f.id

\* A command is not the absence of one.
LEMMA CommandIsOne == ASSUME NEW c \in Command PROVE c # NoCommand
BY QueueAssumption DEF QueueAssumption, Command

\* A command that joins adds its id.
LEMMA IdsJoin ==
  ASSUME NEW p \in Seq(Command), NEW f, NEW c \in Command
  PROVE  QIds(Append(p, c), f) = QIds(p, f) \cup {c.id}
<1>1. Len(Append(p, c)) = Len(p) + 1 /\ Append(p, c)[Len(p) + 1] = c
      /\ \A i \in 1 .. Len(p) : Append(p, c)[i] = p[i]
  OBVIOUS
<1>2. 1 .. Len(p) + 1 = (1 .. Len(p)) \cup {Len(p) + 1}
  OBVIOUS
<1> DEFINE a == Append(p, c)
           n == Len(p)
<1>3. Len(a) = n + 1 /\ a[n + 1] = c /\ \A i \in 1 .. n : a[i] = p[i]
  BY <1>1
<1>4. 1 .. n + 1 = (1 .. n) \cup {n + 1}
  BY <1>2
<1> HIDE DEF a, n
<1>5. {a[i].id : i \in 1 .. Len(a)} = {p[i].id : i \in 1 .. n} \cup {c.id}
  BY <1>3, <1>4
<1> QED BY <1>5, Zenon DEF QIds, a, n

\* One that takes the place of another drops that one's id.
LEMMA IdsReplace ==
  ASSUME NEW p \in Seq(Command), NEW f, NEW c \in Command, NEW k \in 1 .. Len(p),
         Distinct(p, f), c.id \notin QIds(p, f)
  PROVE  /\ QIds([p EXCEPT ![k] = c], f) = (QIds(p, f) \ {p[k].id}) \cup {c.id}
         /\ p[k].id \in QIds(p, f)
<1> DEFINE q == [p EXCEPT ![k] = c]
<1>1. Len(q) = Len(p) /\ q[k] = c /\ \A i \in 1 .. Len(p) : i # k => q[i] = p[i]
  OBVIOUS
<1> HIDE DEF q
<1>2. \A i \in 1 .. Len(p) : i # k => p[i].id # p[k].id
  BY DEF Distinct
<1>3. f # NoCommand => f.id # p[k].id
  BY DEF Distinct
<1>4. {q[i].id : i \in 1 .. Len(q)} = ({p[i].id : i \in 1 .. Len(p)} \ {p[k].id}) \cup {c.id}
  BY <1>1, <1>2
<1>5. QIds(q, f) = (QIds(p, f) \ {p[k].id}) \cup {c.id}
  BY <1>3, <1>4 DEF QIds
<1>6. p[k].id \in QIds(p, f)
  BY DEF QIds
<1> QED BY <1>5, <1>6 DEF q

\* The head of the queue takes its id along.
LEMMA IdsTurn ==
  ASSUME NEW p \in Seq(Command), p # <<>>
  PROVE  /\ QIds(Tail(p), Head(p)) = QIds(p, NoCommand)
         /\ Head(p) \in Command /\ Tail(p) \in Seq(Command)
<1>1. Head(p) = p[1] /\ 1 \in 1 .. Len(p) /\ Head(p) \in Command /\ Tail(p) \in Seq(Command)
  OBVIOUS
<1>2. Head(p) # NoCommand
  BY <1>1, CommandIsOne
<1>3. \A i \in 1 .. Len(Tail(p)) : Tail(p)[i] = p[i + 1] /\ i + 1 \in 1 .. Len(p)
  OBVIOUS
<1>4. \A i \in 1 .. Len(p) : i # 1 => i - 1 \in 1 .. Len(Tail(p)) /\ Tail(p)[i - 1] = p[i]
  <2> TAKE i \in 1 .. Len(p)
  <2> HAVE i # 1
  <2>1. Len(Tail(p)) = Len(p) - 1 /\ Len(p) \in Nat
    OBVIOUS
  <2>2. i - 1 \in 1 .. Len(Tail(p))
    BY <2>1
  <2>3. Tail(p)[i - 1] = p[(i - 1) + 1]
    BY <2>2
  <2> QED BY <2>2, <2>3
<1> DEFINE t == Tail(p)
<1> HIDE DEF t
<1>5. {t[i].id : i \in 1 .. Len(t)} \cup {p[1].id} = {p[i].id : i \in 1 .. Len(p)}
  <2>1. \A i \in 1 .. Len(t) : t[i] = p[i + 1] /\ i + 1 \in 1 .. Len(p)
    BY <1>3 DEF t
  <2>2. \A i \in 1 .. Len(p) : i # 1 => i - 1 \in 1 .. Len(t) /\ t[i - 1] = p[i]
    BY <1>4 DEF t
  <2>3. ASSUME NEW i \in 1 .. Len(t) PROVE t[i].id \in {p[k].id : k \in 1 .. Len(p)}
    BY <2>1
  <2>4. ASSUME NEW i \in 1 .. Len(p), i # 1 PROVE p[i].id \in {t[k].id : k \in 1 .. Len(t)}
    BY <2>2, <2>4
  <2>5. p[1].id \in {p[k].id : k \in 1 .. Len(p)}
    BY <1>1
  <2> HIDE <2>1, <2>2
  <2> QED BY <2>3, <2>4, <2>5
<1>6. QIds(t, p[1]) = QIds(p, NoCommand)
  BY <1>1, <1>2, <1>5 DEF QIds
<1> QED BY <1>1, <1>6 DEF t

\* Nothing waiting and nothing in flight is nobody's id.
LEMMA IdsEmpty ==
  /\ QIds(<<>>, NoCommand) = {}
  /\ \A c : c # NoCommand => QIds(<<>>, c) = {c.id}
<1>1. Len(<<>>) = 0 /\ 1 .. 0 = {}
  OBVIOUS
<1>2. {<<>>[i].id : i \in 1 .. Len(<<>>)} = {}
  BY <1>1
<1> QED BY <1>2, Zenon DEF QIds

\* The command in flight has an id of its own.
LEMMA IdsInFlight ==
  ASSUME NEW p, NEW f, f # NoCommand, Distinct(p, f)
  PROVE  QIds(p, f) = QIds(p, NoCommand) \cup {f.id} /\ f.id \notin QIds(p, NoCommand)
BY DEF QIds, Distinct

-----------------------------------------------------------------------------
(* 2. What a step does to the queue and to the books, whoever takes it. *)

\* Every id held or under way was given out, and none is held twice.
Numbered == /\ QIds(pending, inFlight) \subseteq 1 .. issued
            /\ \A i \in 1 .. Len(wire) :
                 wire[i].type = "DATA" => wire[i].cmd \in Command /\ wire[i].cmd.id \in 1 .. issued
            /\ Distinct(pending, inFlight)

\* Command c is the next to get an id, and may be a client's.
Given(c) == /\ c.what \in What /\ c.id = issued + 1 /\ issued < MaxIssued
            /\ c = [what |-> c.what, id |-> c.id]
            /\ issued' = issued + 1
            /\ \/ c.what = AlertWhat /\ requested' = requested
               \/ requested' = IF SettingOf[c.what] = NoSetting THEN requested
                               ELSE [requested EXCEPT ![SettingOf[c.what]] = c.id]

\* Nobody asks for anything.
Unasked == UNCHANGED <<issued, requested>>

\* The queue stays, retransmissions included.
Stays == /\ Unasked /\ UNCHANGED <<pending, inFlight, discarded>>
         /\ retries' \in {retries, retries + 1}

\* A command is refused, or its send fails on an idle link.
Refused(c) == /\ Given(c) /\ UNCHANGED <<pending, inFlight>>
              /\ retries' = retries \/ inFlight' = NoCommand
              /\ discarded' = discarded \cup {c.id}

\* It joins the queue behind the command in flight ...
Joined(c) == /\ Given(c) /\ inFlight # NoCommand /\ Joins(c)
             /\ pending' = Append(pending, c)
             /\ UNCHANGED <<inFlight, retries, discarded>>

\* ... takes the place of an older one ...
Replaced(c) == /\ Given(c) /\ inFlight # NoCommand
               /\ \E i \in Waiting(c.what) :
                    /\ c.what \in Coalescing
                    /\ pending' = [pending EXCEPT ![i] = c]
                    /\ discarded' = discarded \cup {pending[i].id}
               /\ UNCHANGED <<inFlight, retries>>

\* ... or goes out at once.
Started(c) == /\ Given(c) /\ inFlight = NoCommand /\ pending = <<>>
              /\ pending' = <<>> /\ inFlight' = c /\ retries' = 0
              /\ UNCHANGED discarded

\* The command in flight is done with and the next one, if any, follows it.
Advanced(gone) == /\ Unasked /\ inFlight # NoCommand
                  /\ \/ pending = <<>> /\ pending' = <<>> /\ inFlight' = NoCommand
                     \/ /\ pending # <<>> /\ retries' = 0
                        /\ pending' = Tail(pending) /\ inFlight' = Head(pending)
                  /\ discarded' = discarded \cup gone

\* The link is lost, with all the queue holds.
Cleared(gone) == /\ pending' = <<>> /\ inFlight' = NoCommand
                 /\ discarded' = discarded \cup gone

\* A link opens, and all the queue still held is gone.
Opened(h) == /\ h \in Seq([what : What, id : issued + 1 .. issued']) /\ h # <<>>
             /\ issued' \in Nat /\ issued <= issued' /\ issued' <= MaxIssued
             /\ \A i, j \in 1 .. Len(h) : i < j => h[i].id < h[j].id
             /\ \A i \in 1 .. Len(h) : \E j \in 1 .. Len(Handshake) : h[i].what = Handshake[j]
             /\ requested' = requested
             /\ pending' = Tail(h) /\ inFlight' = Head(h) /\ retries' = 0
             /\ discarded' = discarded \cup QIds(pending, inFlight)

\* The bookkeeping, once it is known what is queued afterwards.
LEMMA Books ==
  ASSUME NEW new, NEW acked, Account(new, acked)
  PROVE  discarded' = discarded \cup (((QIds(pending, inFlight) \cup new)
                                         \ QIds(pending', inFlight')) \ acked)
BY QueuedIdsAre DEF Account

\* The counters in numbers.
LEMMA Bounds ==
  /\ MaxIssued \in Nat /\ MaxLinks \in Nat /\ MaxRetries \in Nat
  /\ MaxPending \in Nat /\ MaxPending >= 1
<1>1. MaxIssued \in Nat /\ MaxLinks \in Nat
  BY LinkAssumption, Zenon DEF LinkAssumption
<1>2. MaxPending \in Nat \ {0} /\ MaxRetries \in Nat
  BY QueueAssumption, Zenon DEF QueueAssumption
<1>3. MaxPending \in Nat /\ MaxPending >= 1
  BY <1>2
<1> QED BY <1>1, <1>2, <1>3

\* A new id is nobody's.
LEMMA NewId ==
  ASSUME CountersOK, Numbered
  PROVE  issued + 1 \notin QIds(pending, inFlight)
BY DEF CountersOK, Numbered

\* What enqueue() does with a new command, on whatever wire.
LEMMA EnqueueKinds ==
  ASSUME QInv, CountersOK, Numbered, NEW c \in Command, NEW w,
         Given(c), Enqueue(c, w), Account({c.id}, {})
  PROVE  Refused(c) \/ Joined(c) \/ Replaced(c) \/ Started(c)
<1>1. pending \in Seq(Command) /\ c # NoCommand
  BY CommandIsOne DEF QInv, QTypeOK
<1>2. c.id \notin QIds(pending, inFlight)
  BY NewId DEF Given
<1>3. discarded' = discarded \cup ((QIds(pending, inFlight) \cup {c.id}) \ QIds(pending', inFlight'))
  BY Books
<1>4. CASE UNCHANGED <<pending, inFlight>> /\ (retries' = retries \/ inFlight' = NoCommand)
  <2>1. discarded' = discarded \cup {c.id}
    BY <1>2, <1>3, <1>4
  <2> QED BY <1>4, <2>1 DEF Refused
<1>5. CASE Joins(c) /\ inFlight # NoCommand /\ pending' = Append(pending, c)
           /\ UNCHANGED <<inFlight, retries>>
  <2>1. QIds(pending', inFlight') = QIds(pending, inFlight) \cup {c.id}
    BY <1>1, <1>5, IdsJoin
  <2>2. discarded' = discarded
    BY <1>3, <2>1
  <2> QED BY <1>5, <2>2 DEF Joined
<1>6. CASE EnqueueCoalesced(c, w)
  <2>1. PICK i \in Waiting(c.what) : pending' = [pending EXCEPT ![i] = c]
    BY <1>6 DEF EnqueueCoalesced
  <2>2. c.what \in Coalescing /\ UNCHANGED <<inFlight, retries>>
    BY <1>6 DEF EnqueueCoalesced, Joins
  <2>3. i \in 1 .. Len(pending)
    BY <2>1 DEF Waiting
  <2>4. inFlight # NoCommand
    BY <1>1, <2>3 DEF QInv, NoStall
  <2>5. /\ QIds(pending', inFlight') = (QIds(pending, inFlight) \ {pending[i].id}) \cup {c.id}
        /\ pending[i].id \in QIds(pending, inFlight)
    BY <1>1, <1>2, <2>1, <2>2, <2>3, IdsReplace DEF Numbered
  <2>6. discarded' = discarded \cup {pending[i].id}
    BY <1>2, <1>3, <2>5
  <2> QED BY <2>1, <2>2, <2>4, <2>6 DEF Replaced
<1>7. CASE inFlight = NoCommand /\ Pump(Append(pending, c), seq, w)
  <2>1. pending = <<>>
    BY <1>7 DEF QInv, NoStall
  <2>2. Append(pending, c) = <<c>> /\ Head(<<c>>) = c /\ Tail(<<c>>) = <<>> /\ <<c>> # <<>>
    BY <2>1
  <2>3. Pump(<<c>>, seq, w)
    BY <1>7, <2>2
  <2>4. CASE DropLink
    BY <1>4, <1>7, <2>1, <2>4 DEF DropLink, Reset
  <2>5. CASE pending' = <<>> /\ inFlight' = c /\ retries' = 0
    <3>1. QIds(pending', inFlight') = {c.id} /\ QIds(pending, inFlight) = {}
      BY <1>1, <1>7, <2>1, <2>5, IdsEmpty
    <3>2. discarded' = discarded
      BY <1>3, <3>1
    <3> QED BY <1>7, <2>1, <2>5, <3>2 DEF Started
  <2> QED BY <2>2, <2>3, <2>4, <2>5 DEF Pump, PumpNothing
<1>8. CASE EnqueueFull(c, w)
  BY <1>4, <1>8 DEF EnqueueFull, queueVars
<1>9. CASE EnqueueJoins(c, w)
  BY <1>5, <1>7, <1>9 DEF EnqueueJoins
<1> QED BY <1>6, <1>8, <1>9 DEF Enqueue

\* What pump() does once the command in flight is settled.
LEMMA PumpKinds ==
  ASSUME QInv, CountersOK, Numbered, NEW s, inFlight # NoCommand,
         Pump(pending, s, wire), Unasked, NEW acked \in {{}, {inFlight.id}}, Account({}, acked)
  PROVE  \/ Advanced({inFlight.id} \ acked)
         \/ DropLink /\ Cleared(QIds(pending, inFlight) \ acked)
<1>1. pending \in Seq(Command)
  BY DEF QInv, QTypeOK
<1>2. discarded' = discarded \cup ((QIds(pending, inFlight) \ QIds(pending', inFlight')) \ acked)
  BY Books
<1>3. QIds(pending, inFlight) = QIds(pending, NoCommand) \cup {inFlight.id}
      /\ inFlight.id \notin QIds(pending, NoCommand)
  BY IdsInFlight DEF Numbered
<1>4. CASE PumpNothing(pending, s, wire)
  <2>1. pending = <<>> /\ pending' = <<>> /\ inFlight' = NoCommand
    BY <1>4 DEF PumpNothing
  <2>2. QIds(pending', inFlight') = {} /\ QIds(pending, NoCommand) = {}
    BY <2>1, IdsEmpty
  <2>3. discarded' = discarded \cup ({inFlight.id} \ acked)
    BY <1>2, <1>3, <2>2
  <2> QED BY <2>1, <2>3 DEF Advanced
<1>5. CASE pending # <<>> /\ DropLink
  <2>1. pending' = <<>> /\ inFlight' = NoCommand
    BY <1>5 DEF DropLink, Reset
  <2>2. QIds(pending', inFlight') = {}
    BY <2>1, IdsEmpty
  <2>3. discarded' = discarded \cup (QIds(pending, inFlight) \ acked)
    BY <1>2, <2>2
  <2> QED BY <1>5, <2>1, <2>3 DEF Cleared
<1>6. CASE pending # <<>> /\ pending' = Tail(pending) /\ inFlight' = Head(pending) /\ retries' = 0
  <2>1. QIds(pending', inFlight') = QIds(pending, NoCommand)
    BY <1>1, <1>6, IdsTurn
  <2>2. discarded' = discarded \cup ({inFlight.id} \ acked)
    BY <1>2, <1>3, <2>1
  <2> QED BY <1>6, <2>2 DEF Advanced
<1> QED BY <1>4, <1>5, <1>6 DEF Pump

\* A link that drops takes the queue with it.
LEMMA DropKinds ==
  ASSUME DropLink, NEW new, Account(new, {})
  PROVE  Cleared((QIds(pending, inFlight) \cup new))
<1>1. pending' = <<>> /\ inFlight' = NoCommand
  BY DEF DropLink, Reset
<1>2. QIds(pending', inFlight') = {}
  BY <1>1, IdsEmpty
<1> QED BY <1>1, <1>2, Books DEF Cleared

\* A queue that stays discards nothing.
LEMMA StayKinds ==
  ASSUME UNCHANGED <<pending, inFlight>>, Account({}, {})
  PROVE  UNCHANGED discarded
<1>1. QIds(pending', inFlight') = QIds(pending, inFlight)
  OBVIOUS
<1> QED BY <1>1, Books

\* A client's command.
LEMMA IssueKinds ==
  ASSUME QInv, CountersOK, Numbered, NEW w \in UserWhat, Issue(w)
  PROVE  \E c \in Command :
           /\ c.what = w /\ Given(c)
           /\ requested' = IF SettingOf[w] = NoSetting THEN requested
                           ELSE [requested EXCEPT ![SettingOf[w]] = c.id]
           /\ Refused(c) \/ Joined(c) \/ Replaced(c) \/ Started(c)
<1> DEFINE c == [what |-> w, id |-> issued + 1]
<1>1. w \in What /\ issued \in Nat
  BY LinkAssumption DEF LinkAssumption, CountersOK
<1>2. c \in Command /\ c.what = w /\ c.id = issued + 1 /\ c = [what |-> c.what, id |-> c.id]
  BY <1>1 DEF Command
<1>3. /\ issued < MaxIssued /\ issued' = issued + 1 /\ Account({c.id}, {})
      /\ requested' = IF SettingOf[w] = NoSetting THEN requested
                      ELSE [requested EXCEPT ![SettingOf[w]] = c.id]
      /\ IF linked THEN Enqueue(c, wire) ELSE UNCHANGED <<queueVars, linkVars>>
  BY Zenon DEF Issue
<1> HIDE DEF c
<1>4. Given(c)
  BY <1>1, <1>2, <1>3 DEF Given
<1>5. CASE linked
  BY <1>2, <1>3, <1>4, <1>5, EnqueueKinds
<1>6. CASE ~linked
  <2>1. UNCHANGED <<pending, inFlight, retries>>
    BY <1>3, <1>6 DEF queueVars
  <2>2. discarded' = discarded \cup ((QIds(pending, inFlight) \cup {c.id}) \ QIds(pending', inFlight'))
    BY <1>3, Books
  <2>3. c.id \notin QIds(pending, inFlight)
    BY <1>2, NewId
  <2>4. discarded' = discarded \cup {c.id}
    BY <2>1, <2>2, <2>3
  <2>5. Refused(c)
    BY <1>4, <2>1, <2>4 DEF Refused
  <2> QED BY <1>2, <1>3, <1>4, <2>5
<1> QED BY <1>5, <1>6

\* The answer to an alert, or the end of the link in the middle of it.
LEMMA AlertKinds ==
  ASSUME QInv, CountersOK, Numbered, ReceiveAlert
  PROVE  \E c \in Command :
           /\ c.what = AlertWhat /\ Given(c) /\ requested' = requested
           /\ \/ Refused(c) \/ Joined(c) \/ Replaced(c) \/ Started(c)
              \/ DropLink /\ Cleared(QIds(pending, inFlight) \cup {c.id})
<1> DEFINE c == [what |-> AlertWhat, id |-> issued + 1]
<1>1. AlertWhat \in What /\ issued \in Nat
  BY LinkAssumption DEF LinkAssumption, CountersOK
<1>2. c \in Command /\ c.what = AlertWhat /\ c.id = issued + 1 /\ c = [what |-> c.what, id |-> c.id]
  BY <1>1 DEF Command
<1>3. /\ issued < MaxIssued /\ issued' = issued + 1 /\ Account({c.id}, {})
      /\ requested' = requested /\ \E rxSeq \in Bit : OnAlert(rxSeq, c)
  BY Zenon DEF ReceiveAlert
<1> HIDE DEF c
<1>4. Given(c)
  BY <1>1, <1>2, <1>3 DEF Given
<1>5. CASE DropLink
  BY <1>2, <1>3, <1>4, <1>5, DropKinds
<1>6. ASSUME NEW w, Enqueue(c, w)
      PROVE  Refused(c) \/ Joined(c) \/ Replaced(c) \/ Started(c)
  BY <1>2, <1>3, <1>4, <1>6, EnqueueKinds
<1> QED BY <1>2, <1>3, <1>4, <1>5, <1>6 DEF OnAlert

\* An ACK settles the command in flight, if there is one.
LEMMA AckKinds ==
  ASSUME QInv, CountersOK, Numbered, ReceiveAck
  PROVE  /\ Unasked
         /\ \/ inFlight = NoCommand /\ Stays
            \/ inFlight # NoCommand /\ Advanced({})
            \/ inFlight # NoCommand /\ DropLink /\ Cleared(QIds(pending, inFlight) \ {inFlight.id})
<1>1. Unasked /\ OnAck(Head(acks))
  BY Zenon DEF ReceiveAck, Unasked
<1>2. CASE inFlight = NoCommand
  <2>1. UNCHANGED <<pending, inFlight, retries>> /\ Account({}, {})
    BY <1>1, <1>2 DEF OnAck, ReceiveAck
  <2> QED BY <1>1, <1>2, <2>1, StayKinds DEF Stays
<1>3. CASE inFlight # NoCommand
  <2>1. Pump(pending, Head(acks), wire) /\ Account({}, {inFlight.id})
    BY <1>1, <1>3 DEF OnAck, ReceiveAck
  <2>2. {inFlight.id} \ {inFlight.id} = {}
    OBVIOUS
  <2> QED BY <1>1, <1>3, <2>1, <2>2, PumpKinds
<1> QED BY <1>2, <1>3

\* Giving up does so on record.
LEMMA GiveUpKinds ==
  ASSUME QInv, CountersOK, Numbered, GiveUp
  PROVE  /\ Unasked /\ inFlight # NoCommand
         /\ \/ Advanced({inFlight.id})
            \/ DropLink /\ Cleared(QIds(pending, inFlight))
<1>1. Unasked /\ inFlight # NoCommand /\ Pump(pending, seq, wire) /\ Account({}, {})
  BY Zenon DEF GiveUp, TickGivesUp, Unasked
<1>2. {inFlight.id} \ {} = {inFlight.id} /\ QIds(pending, inFlight) \ {} = QIds(pending, inFlight)
  OBVIOUS
<1> QED BY <1>1, <1>2, PumpKinds

\* The steps that leave the queue alone or lose the link.
LEMMA QuietKinds ==
  ASSUME QInv, CountersOK, Numbered,
         ReceiveData \/ Resend \/ Disconnect \/ Sigusr1 \/ HeadsetExecutes \/ HeadsetIgnores
           \/ UNCHANGED vars
  PROVE  Unasked /\ (Stays \/ (DropLink /\ Cleared(QIds(pending, inFlight))))
<1>1. Unasked
  BY Zenon DEF ReceiveData, Resend, Disconnect, Sigusr1, HeadsetExecutes, HeadsetIgnores, vars,
     historyVars, Unasked
<1>2. CASE DropLink /\ Account({}, {})
  <2>1. QIds(pending, inFlight) \cup {} = QIds(pending, inFlight)
    OBVIOUS
  <2> QED BY <1>1, <1>2, <2>1, DropKinds
<1>3. ASSUME UNCHANGED <<pending, inFlight>>, retries' \in {retries, retries + 1}, Account({}, {})
      PROVE  Stays
  BY <1>1, <1>3, StayKinds DEF Stays
<1>4. ASSUME UNCHANGED <<pending, inFlight, retries, discarded>> PROVE Stays
  BY <1>1, <1>4 DEF Stays
<1>5. CASE ReceiveData
  BY <1>1, <1>2, <1>3, <1>5 DEF ReceiveData, OnData, OnFrameNotAck, queueVars
<1>6. CASE Resend
  BY <1>1, <1>2, <1>3, <1>6 DEF Resend, TickResends
<1>7. CASE Disconnect
  BY <1>2, <1>7 DEF Disconnect
<1>8. CASE Sigusr1
  BY <1>1, <1>3, <1>8 DEF Sigusr1, OnSigusr1, queueVars
<1>9. CASE HeadsetExecutes \/ HeadsetIgnores \/ UNCHANGED vars
  BY <1>1, <1>4, <1>9 DEF HeadsetExecutes, HeadsetIgnores, WireRead, vars, queueVars, historyVars
<1> QED BY <1>5, <1>6, <1>7, <1>8, <1>9

\* The handshake takes the place of all the queue held, or, if its first send
\* fails, nothing does.
LEMMA ConnectKinds ==
  ASSUME QInv, CountersOK, Numbered, Connect
  PROVE  /\ requested' = requested
         /\ issued' \in Nat /\ issued <= issued' /\ issued' <= MaxIssued
         /\ \/ \E h \in Seq(Command) :
                 /\ Opened(h) /\ Len(h) = Len(Handshake)
                 /\ \A i \in 1 .. Len(h) : h[i].what = Handshake[i]
            \/ Cleared(QIds(pending, inFlight) \cup (issued + 1 .. issued'))
<1> DEFINE n == Len(Handshake)
           h == [i \in 1 .. n |-> [what |-> Handshake[i], id |-> issued + i]]
<1>1. n \in Nat /\ n >= 1 /\ issued \in Nat /\ \A i \in 1 .. n : Handshake[i] \in What
  <2>1. Handshake \in Seq(What \ Coalescing) /\ Len(Handshake) \in 1 .. MaxPending + 1
    BY LinkAssumption, Zenon DEF LinkAssumption
  <2>2. MaxPending \in Nat
    BY Bounds
  <2>3. Len(Handshake) \in Nat /\ Len(Handshake) >= 1
    BY <2>1, <2>2
  <2>4. \A i \in 1 .. Len(Handshake) : Handshake[i] \in What
    BY <2>1
  <2> QED BY <2>3, <2>4 DEF CountersOK
<1>2. /\ issued + n <= MaxIssued /\ issued' = issued + n /\ requested' = requested
      /\ OnConnected(h) /\ Account(issued + 1 .. issued + n, {})
  BY Zenon DEF Connect
<1>3. issued' \in Nat /\ issued <= issued' /\ issued' <= MaxIssued
  BY <1>1, <1>2
<1>4. \A i \in 1 .. n : /\ h[i] \in [what : What, id : issued + 1 .. issued']
                        /\ h[i].id = issued + i /\ h[i].what = Handshake[i]
  BY <1>1, <1>2
<1>5. h \in Seq([what : What, id : issued + 1 .. issued']) /\ Len(h) = n
  <2> DEFINE S == [what : What, id : issued + 1 .. issued']
             g(i) == [what |-> Handshake[i], id |-> issued + i]
  <2>1. h = [i \in 1 .. n |-> g(i)] /\ \A i \in 1 .. n : h[i] = g(i) /\ h[i] \in S
    BY <1>4
  <2> HIDE DEF S, h, n, g
  <2>2. \A i \in 1 .. n : g(i) \in S
    BY <2>1
  <2>3. h \in Seq(S) /\ Len(h) = n
    BY <1>1, <2>1, <2>2
  <2> QED BY <2>3 DEF S
<1>6. h \in Seq(Command)
  <2>1. \A i \in 1 .. n : h[i] \in Command
    BY <1>1, <1>4 DEF Command
  <2> QED BY <1>1, <1>5, <2>1
<1>7. Head(h) = h[1] /\ Head(h) \in Command /\ h # <<>> /\ Tail(h) \in Seq(Command)
  BY <1>1, <1>5, <1>6
<1>8. \A i \in 1 .. n : h[i].id \notin QIds(pending, inFlight)
  BY <1>1, <1>4 DEF Numbered
<1>9. discarded' = discarded \cup ((QIds(pending, inFlight) \cup (issued + 1 .. issued'))
                                      \ QIds(pending', inFlight'))
  <2>1. discarded' = discarded \cup (((QIds(pending, inFlight) \cup (issued + 1 .. issued'))
                                        \ QIds(pending', inFlight')) \ {})
    BY <1>2, Books
  <2> QED BY <2>1
<1> HIDE DEF h, n
<1>10. CASE pending' = Tail(h) /\ inFlight' = Head(h) /\ retries' = 0
  <2>1. QIds(pending', inFlight') = QIds(h, NoCommand)
    BY <1>6, <1>7, <1>10, IdsTurn
  <2>2. QIds(h, NoCommand) = {h[i].id : i \in 1 .. n}
    BY <1>5 DEF QIds
  <2>3. {h[i].id : i \in 1 .. n} = issued + 1 .. issued'
    <3>1. \A i \in 1 .. n : h[i].id \in issued + 1 .. issued'
      BY <1>1, <1>2, <1>4
    <3>2. ASSUME NEW k \in issued + 1 .. issued' PROVE k \in {h[i].id : i \in 1 .. n}
      <4>1. k - issued \in 1 .. n /\ k = issued + (k - issued)
        BY <1>1, <1>2
      <4>2. h[k - issued].id = k
        BY <1>4, <4>1
      <4> QED BY <4>1, <4>2
    <3> QED BY <3>1, <3>2
  <2>4. QIds(pending, inFlight) \cap (issued + 1 .. issued') = {}
    BY <1>1, <1>3 DEF Numbered
  <2>5. discarded' = discarded \cup QIds(pending, inFlight)
    BY <1>9, <2>1, <2>2, <2>3, <2>4
  <2>6. \A i, j \in 1 .. Len(h) : i < j => h[i].id < h[j].id
    <3> TAKE i, j \in 1 .. Len(h)
    <3>1. h[i].id = issued + i /\ h[j].id = issued + j /\ i \in Nat /\ j \in Nat
      BY <1>1, <1>4, <1>5
    <3> QED BY <1>1, <3>1
  <2>7. \A i \in 1 .. Len(h) : h[i].what = Handshake[i]
    BY <1>4, <1>5
  <2>8. \A i \in 1 .. Len(h) : \E j \in 1 .. Len(Handshake) : h[i].what = Handshake[j]
    BY <1>5, <2>7 DEF n
  <2>9. Opened(h)
    BY <1>2, <1>3, <1>5, <1>7, <1>10, <2>5, <2>6, <2>8 DEF Opened
  <2> QED BY <1>2, <1>3, <1>5, <1>6, <2>7, <2>9 DEF n
<1>11. CASE Reset
  <2>1. pending' = <<>> /\ inFlight' = NoCommand
    BY <1>11 DEF Reset
  <2>2. QIds(pending', inFlight') = {}
    BY <2>1, IdsEmpty
  <2>3. Cleared(QIds(pending, inFlight) \cup (issued + 1 .. issued'))
    BY <1>9, <2>1, <2>2 DEF Cleared
  <2> QED BY <1>2, <1>3, <2>3
<1> QED BY <1>2, <1>10, <1>11 DEF OnConnected

\* All of them: what any step does to the queue.
StepKind ==
  \/ Stays
  \/ \E c \in Command : Given(c) /\ (Refused(c) \/ Joined(c) \/ Replaced(c) \/ Started(c))
  \/ Advanced({}) \/ Advanced({inFlight.id})
  \/ /\ requested' = requested
     /\ issued' \in Nat /\ issued <= issued' /\ issued' <= MaxIssued
     /\ \E gone \in SUBSET (QIds(pending, inFlight) \cup (issued + 1 .. issued')) : Cleared(gone)
  \/ \E h \in Seq(Command) : Opened(h)

\* The sum of the above.
LEMMA StepKinds ==
  ASSUME QInv, CountersOK, Numbered, issued <= MaxIssued, [Next]_vars
  PROVE  StepKind
<1>1. issued \in Nat /\ MaxIssued \in Nat
  BY Bounds DEF CountersOK
<1>2. ASSUME Unasked, NEW gone, Cleared(gone), gone \subseteq QIds(pending, inFlight) PROVE StepKind
  <2>1. requested' = requested /\ issued' = issued
    BY <1>2 DEF Unasked
  <2>2. issued' \in Nat /\ issued <= issued' /\ issued' <= MaxIssued
    BY <1>1, <2>1
  <2>3. gone \in SUBSET (QIds(pending, inFlight) \cup (issued + 1 .. issued'))
    BY <1>2
  <2> QED BY <1>2, <2>1, <2>2, <2>3, Zenon DEF StepKind
<1>3. ASSUME NEW w \in UserWhat, Issue(w) PROVE StepKind
  BY <1>3, IssueKinds, Zenon DEF StepKind
<1>4. CASE ReceiveAlert
  <2>1. PICK c \in Command :
           /\ c.what = AlertWhat /\ Given(c) /\ requested' = requested
           /\ \/ Refused(c) \/ Joined(c) \/ Replaced(c) \/ Started(c)
              \/ DropLink /\ Cleared(QIds(pending, inFlight) \cup {c.id})
    BY <1>4, AlertKinds
  <2>2. CASE Refused(c) \/ Joined(c) \/ Replaced(c) \/ Started(c)
    BY <2>1, <2>2, Zenon DEF StepKind
  <2>3. CASE Cleared(QIds(pending, inFlight) \cup {c.id})
    <3>1. issued' = issued + 1 /\ c.id = issued + 1 /\ issued < MaxIssued
      BY <2>1, Zenon DEF Given
    <3>2. issued' \in Nat /\ issued <= issued' /\ issued' <= MaxIssued /\ c.id \in issued + 1 .. issued'
      BY <1>1, <3>1
    <3>3. QIds(pending, inFlight) \cup {c.id}
             \in SUBSET (QIds(pending, inFlight) \cup (issued + 1 .. issued'))
      BY <3>2
    <3> QED BY <2>1, <2>3, <3>2, <3>3, Zenon DEF StepKind
  <2> QED BY <2>1, <2>2, <2>3
<1>5. CASE ReceiveAck
  <2>1. CASE DropLink /\ Cleared(QIds(pending, inFlight) \ {inFlight.id}) /\ Unasked
    BY <1>2, <2>1
  <2> QED BY <1>5, <2>1, AckKinds DEF StepKind
<1>6. CASE GiveUp
  BY <1>2, <1>6, GiveUpKinds DEF StepKind
<1>7. CASE Connect
  <2>1. CASE \E h \in Seq(Command) : Opened(h)
    BY <2>1, Zenon DEF StepKind
  <2>2. CASE /\ requested' = requested
             /\ issued' \in Nat /\ issued <= issued' /\ issued' <= MaxIssued
             /\ Cleared(QIds(pending, inFlight) \cup (issued + 1 .. issued'))
    BY <2>2, Zenon DEF StepKind
  <2> QED BY <1>7, <2>1, <2>2, ConnectKinds
<1>8. CASE ReceiveData \/ Resend \/ Disconnect \/ Sigusr1 \/ HeadsetExecutes \/ HeadsetIgnores
             \/ UNCHANGED vars
  BY <1>2, <1>8, QuietKinds DEF StepKind
<1> QED BY <1>3, <1>4, <1>5, <1>6, <1>7, <1>8 DEF Next

-----------------------------------------------------------------------------
(* 3. What a step does to the wire. *)

\* After w, the command that is now in flight may have been sent.
AfterSend(w) == \/ wire' = w
                \/ /\ inFlight' # NoCommand
                   /\ \E b \in Bit : wire' = Append(w, DataFrame(inFlight', b))

\* The wire as it was, with an ACK of the daemon's, after the headset read
\* from it, or of a new link.
WireBefore(w) == \/ w = wire
                 \/ \E b \in Bit : w = Append(wire, AckFrame(b))
                 \/ wire # <<>> /\ w = Tail(wire)
                 \/ w = <<>>

WireKind == \E w \in Seq(Frame) : WireBefore(w) /\ AfterSend(w)

\* pump() sends what it puts in flight.
LEMMA PumpWire ==
  ASSUME NEW p \in Seq(Command), NEW s \in Bit, NEW w \in Seq(Frame), Pump(p, s, w)
  PROVE  wire' = <<>> \/ AfterSend(w)
<1>1. CASE PumpNothing(p, s, w)
  BY <1>1 DEF PumpNothing, AfterSend
<1>2. CASE p # <<>> /\ DropLink
  BY <1>2 DEF DropLink
<1>3. CASE p # <<>> /\ inFlight' = Head(p) /\ Transmit(Head(p), s, w)
  <2>1. Head(p) \in Command
    BY <1>3
  <2>2. inFlight' # NoCommand
    BY <1>3, <2>1, CommandIsOne
  <2>3. wire' = w \/ wire' = Append(w, DataFrame(inFlight', s))
    BY <1>3 DEF Transmit
  <2> QED BY <2>2, <2>3 DEF AfterSend
<1> QED BY <1>1, <1>2, <1>3 DEF Pump

\* So does enqueue().
LEMMA EnqueueWire ==
  ASSUME QTypeOK, NEW c \in Command, NEW w \in Seq(Frame), Enqueue(c, w)
  PROVE  wire' = <<>> \/ AfterSend(w)
<1>1. CASE wire' = w
  BY <1>1 DEF AfterSend
<1>2. CASE Pump(Append(pending, c), seq, w)
  <2>1. Append(pending, c) \in Seq(Command) /\ seq \in Bit
    BY DEF QTypeOK
  <2> QED BY <1>2, <2>1, PumpWire
<1> QED BY <1>1, <1>2 DEF Enqueue, EnqueueCoalesced, EnqueueFull, EnqueueJoins

\* Every step sends at most the command it leaves in flight.
LEMMA WireKinds ==
  ASSUME QInv, CountersOK, [Next]_vars
  PROVE  WireKind
<1>a. QTypeOK /\ wire \in Seq(Frame) /\ pending \in Seq(Command) /\ seq \in Bit
  BY DEF QInv, QTypeOK
<1>b. \A b \in Bit : Append(wire, AckFrame(b)) \in Seq(Frame)
  <2> TAKE b \in Bit
  <2>1. AckFrame(b) \in Frame
    BY DEF AckFrame, Frame
  <2> QED BY <1>a, <2>1
<1>c. ASSUME wire' = wire PROVE WireKind
  BY <1>a, <1>c DEF WireKind, WireBefore, AfterSend
<1>d. ASSUME wire' = <<>> PROVE WireKind
  <2>1. <<>> \in Seq(Frame)
    OBVIOUS
  <2> QED BY <1>d, <2>1 DEF WireKind, WireBefore, AfterSend
<1>e. ASSUME AfterSend(wire) PROVE WireKind
  BY <1>a, <1>e DEF WireKind, WireBefore
<1>f. ASSUME NEW b \in Bit, AfterSend(Append(wire, AckFrame(b))) PROVE WireKind
  BY <1>b, <1>f DEF WireKind, WireBefore
<1>g. ASSUME WireRead PROVE WireKind
  <2>1. wire # <<>> /\ wire' = Tail(wire) /\ Tail(wire) \in Seq(Frame)
    BY <1>a, <1>g DEF WireRead
  <2> QED BY <2>1 DEF WireKind, WireBefore, AfterSend
<1>1. ASSUME NEW w \in UserWhat, Issue(w) PROVE WireKind
  <2>1. [what |-> w, id |-> issued + 1] \in Command
    BY LinkAssumption DEF LinkAssumption, CountersOK, Command
  <2>2. CASE linked
    BY <1>1, <1>a, <1>d, <1>e, <2>1, <2>2, EnqueueWire DEF Issue
  <2>3. CASE ~linked
    BY <1>1, <1>c, <2>3 DEF Issue, linkVars
  <2> QED BY <2>2, <2>3
<1>2. CASE ReceiveAck
  <2>1. PICK b \in Bit : OnAck(b)
    BY <1>2 DEF ReceiveAck, CountersOK
  <2>2. CASE Pump(pending, b, wire)
    BY <1>a, <1>d, <1>e, <2>2, PumpWire
  <2>3. CASE wire' = wire
    BY <1>c, <2>3
  <2> QED BY <2>1, <2>2, <2>3 DEF OnAck, linkVars
<1>3. CASE ReceiveData
  <2>1. PICK b \in Bit : DropLink \/ wire' = Append(wire, AckFrame(b))
    BY <1>3 DEF ReceiveData, OnData
  <2>2. CASE wire' = Append(wire, AckFrame(b))
    BY <1>f, <2>2 DEF AfterSend
  <2> QED BY <1>d, <2>1, <2>2 DEF DropLink
<1>4. CASE ReceiveAlert
  <2> DEFINE c == [what |-> AlertWhat, id |-> issued + 1]
  <2>1. c \in Command
    BY LinkAssumption DEF LinkAssumption, CountersOK, Command
  <2>2. PICK b \in Bit : OnAlert(b, c)
    BY <1>4 DEF ReceiveAlert
  <2>3. CASE DropLink
    BY <1>d, <2>3 DEF DropLink
  <2>4. CASE Enqueue(c, Append(wire, AckFrame(b)))
    BY <1>a, <1>b, <1>d, <1>f, <2>1, <2>4, EnqueueWire
  <2> QED BY <2>2, <2>3, <2>4 DEF OnAlert
<1>5. CASE Resend
  <2>1. CASE DropLink
    BY <1>d, <2>1 DEF DropLink
  <2>2. CASE inFlight # NoCommand /\ Transmit(inFlight, 1 - seq, wire) /\ inFlight' = inFlight
    <3>1. 1 - seq \in Bit
      BY <1>a
    <3>2. AfterSend(wire)
      BY <2>2, <3>1 DEF Transmit, AfterSend
    <3> QED BY <1>e, <3>2
  <2> QED BY <1>5, <2>1, <2>2 DEF Resend, TickResends
<1>6. CASE GiveUp
  BY <1>6, <1>a, <1>d, <1>e, PumpWire DEF GiveUp, TickGivesUp
<1>7. CASE Connect
  <2>1. PICK h \in Handshakes : OnConnected(h)
    BY <1>7, HandshakeOK
  <2>2. CASE wire' = wire
    BY <1>c, <2>2
  <2>3. CASE inFlight' = Head(h) /\ wire' = <<DataFrame(Head(h), 0)>>
    <3>1. h \in Seq(Command) /\ h # <<>>
      BY <2>1 DEF Handshakes
    <3>2. Head(h) \in Command
      BY <3>1
    <3>3. inFlight' # NoCommand
      BY <2>3, <3>2, CommandIsOne
    <3>4. wire' = Append(<<>>, DataFrame(inFlight', 0))
      BY <2>3
    <3>5. <<>> \in Seq(Frame)
      OBVIOUS
    <3>6. AfterSend(<<>>)
      BY <3>3, <3>4 DEF AfterSend
    <3> QED BY <3>5, <3>6 DEF WireKind, WireBefore
  <2> QED BY <2>1, <2>2, <2>3 DEF OnConnected, linkVars
<1>8. CASE Disconnect
  BY <1>8, <1>d DEF Disconnect, DropLink
<1>9. CASE Sigusr1
  BY <1>9, <1>d DEF Sigusr1, OnSigusr1
<1>10. CASE HeadsetExecutes \/ HeadsetIgnores
  BY <1>10, <1>g DEF HeadsetExecutes, HeadsetIgnores
<1>11. CASE UNCHANGED vars
  BY <1>11, <1>c DEF vars, linkVars
<1> QED
  BY <1>1, <1>2, <1>3, <1>4, <1>5, <1>6, <1>7, <1>8, <1>9, <1>10, <1>11 DEF Next

\* The frames before the send are frames of the old wire, or ACKs.
LEMMA BeforeCommands ==
  ASSUME NEW w, wire \in Seq(Frame), WireBefore(w)
  PROVE  /\ w \in Seq(Frame)
         /\ \A i \in 1 .. Len(w) : w[i].type = "DATA" =>
              \E j \in 1 .. Len(wire) : wire[j] = w[i]
<1>1. CASE w = wire
  BY <1>1
<1>2. ASSUME NEW b \in Bit, w = Append(wire, AckFrame(b))
      PROVE  /\ w \in Seq(Frame)
             /\ \A i \in 1 .. Len(w) : w[i].type = "DATA" => i \in 1 .. Len(wire) /\ wire[i] = w[i]
  <2>1. AckFrame(b) \in Frame /\ AckFrame(b).type # "DATA"
    BY DEF AckFrame, Frame
  <2> DEFINE a == AckFrame(b)
  <2> HIDE DEF a
  <2>2. w = Append(wire, a) /\ a \in Frame /\ a.type # "DATA"
    BY <1>2, <2>1 DEF a
  <2> QED BY <2>2
<1>3. CASE wire # <<>> /\ w = Tail(wire)
  <2>1. w \in Seq(Frame) /\ \A i \in 1 .. Len(w) : w[i] = wire[i + 1] /\ i + 1 \in 1 .. Len(wire)
    BY <1>3
  <2> QED BY <2>1
<1>4. CASE w = <<>>
  BY <1>4
<1> QED BY <1>1, <1>2, <1>3, <1>4 DEF WireBefore

\* What a send appends.
LEMMA SendFrame ==
  ASSUME NEW w \in Seq(Frame), NEW c \in Command, NEW b \in Bit
  PROVE  LET v == Append(w, DataFrame(c, b))
         IN  /\ v \in Seq(Frame) /\ Len(v) = Len(w) + 1
             /\ v[Len(w) + 1].type = "DATA" /\ v[Len(w) + 1].cmd = c
             /\ \A i \in 1 .. Len(w) : v[i] = w[i]
<1> DEFINE f == DataFrame(c, b)
<1>1. f \in Frame /\ f.type = "DATA" /\ f.cmd = c
  BY FrameType DEF DataFrame
<1> HIDE DEF f
<1>2. /\ Append(w, f) \in Seq(Frame) /\ Len(Append(w, f)) = Len(w) + 1
      /\ Append(w, f)[Len(w) + 1] = f
      /\ \A i \in 1 .. Len(w) : Append(w, f)[i] = w[i]
  BY <1>1
<1> QED BY <1>1, <1>2 DEF f

\* Every command on the wire after a step was there before or is in flight.
LEMMA WireCommands ==
  ASSUME QTypeOK, WireKind, NEW C,
         \A i \in 1 .. Len(wire) : wire[i].type = "DATA" => wire[i].cmd \in C,
         inFlight' # NoCommand => inFlight' \in C /\ inFlight' \in Command
  PROVE  \A i \in 1 .. Len(wire') : wire'[i].type = "DATA" => wire'[i].cmd \in C
<1>1. PICK w \in Seq(Frame) : WireBefore(w) /\ AfterSend(w)
  BY DEF WireKind
<1>2. \A i \in 1 .. Len(w) : w[i].type = "DATA" => w[i].cmd \in C
  <2>1. wire \in Seq(Frame)
    BY DEF QTypeOK
  <2>2. \A i \in 1 .. Len(w) : w[i].type = "DATA" => \E j \in 1 .. Len(wire) : wire[j] = w[i]
    BY <1>1, <2>1, BeforeCommands
  <2> QED BY <2>2
<1>3. CASE wire' = w
  BY <1>2, <1>3
<1>4. ASSUME NEW b \in Bit, inFlight' # NoCommand, wire' = Append(w, DataFrame(inFlight', b))
      PROVE  \A i \in 1 .. Len(wire') : wire'[i].type = "DATA" => wire'[i].cmd \in C
  <2> DEFINE v == Append(w, DataFrame(inFlight', b))
             c == inFlight'
  <2>1. c \in C /\ c \in Command
    BY <1>4
  <2>2. /\ Len(v) = Len(w) + 1 /\ v[Len(w) + 1].cmd = c
        /\ \A i \in 1 .. Len(w) : v[i] = w[i]
    BY <2>1, SendFrame
  <2> HIDE DEF v, c
  <2>3. Len(w) \in Nat
    OBVIOUS
  <2>4. \A i \in 1 .. Len(v) : i \in 1 .. Len(w) \/ i = Len(w) + 1
    BY <2>2, <2>3
  <2>5. \A i \in 1 .. Len(v) : v[i].type = "DATA" => v[i].cmd \in C
    BY <1>2, <2>1, <2>2, <2>4
  <2> QED BY <1>4, <2>5 DEF v
<1> QED BY <1>1, <1>3, <1>4 DEF AfterSend

-----------------------------------------------------------------------------
(* 4. Ids are given out once. *)

\* A command that joins keeps the ids distinct.
LEMMA DistinctJoin ==
  ASSUME NEW p \in Seq(Command), NEW f, Distinct(p, f), NEW c \in Command, c.id \notin QIds(p, f)
  PROVE  Distinct(Append(p, c), f)
<1> DEFINE q == Append(p, c)
           n == Len(p)
<1>1. n \in Nat /\ Len(q) = n + 1 /\ q[n + 1] = c /\ \A i \in 1 .. n : q[i] = p[i]
  OBVIOUS
<1> HIDE DEF q, n
<1>2. \A i \in 1 .. Len(q) : i \in 1 .. n \/ i = n + 1
  BY <1>1
<1>3. (\A i \in 1 .. n : p[i].id # c.id) /\ (f # NoCommand => f.id # c.id)
  BY DEF QIds, n
<1>4. \A i, j \in 1 .. n : p[i].id = p[j].id => i = j
  BY DEF Distinct, n
<1>5. f # NoCommand => \A i \in 1 .. n : p[i].id # f.id
  BY DEF Distinct, n
<1>6. \A i, j \in 1 .. Len(q) : q[i].id = q[j].id => i = j
  BY <1>1, <1>2, <1>3, <1>4
<1>7. f # NoCommand => \A i \in 1 .. Len(q) : q[i].id # f.id
  BY <1>1, <1>2, <1>3, <1>5
<1> QED BY <1>6, <1>7 DEF Distinct, q

\* So does one that replaces another.
LEMMA DistinctReplace ==
  ASSUME NEW p \in Seq(Command), NEW f, Distinct(p, f), NEW c \in Command, c.id \notin QIds(p, f),
         NEW k \in 1 .. Len(p)
  PROVE  Distinct([p EXCEPT ![k] = c], f)
<1> DEFINE q == [p EXCEPT ![k] = c]
<1>1. Len(q) = Len(p) /\ q[k] = c /\ \A i \in 1 .. Len(p) : i # k => q[i] = p[i]
  OBVIOUS
<1> HIDE DEF q
<1>2. (\A i \in 1 .. Len(p) : p[i].id # c.id) /\ (f # NoCommand => f.id # c.id)
  BY DEF QIds
<1> QED BY <1>1, <1>2 DEF Distinct, q

\* So does taking the head out.
LEMMA DistinctTurn ==
  ASSUME NEW p \in Seq(Command), p # <<>>, Distinct(p, NoCommand)
  PROVE  Distinct(Tail(p), Head(p))
<1>1. \A i \in 1 .. Len(Tail(p)) : Tail(p)[i] = p[i + 1] /\ i + 1 \in 1 .. Len(p)
  OBVIOUS
<1>2. Head(p) = p[1] /\ 1 \in 1 .. Len(p)
  OBVIOUS
<1>3. \A i \in 1 .. Len(Tail(p)) : i \in Nat /\ i + 1 # 1
  OBVIOUS
<1>4. \A i, j \in 1 .. Len(Tail(p)) : Tail(p)[i].id = Tail(p)[j].id => i = j
  <2> TAKE i, j \in 1 .. Len(Tail(p))
  <2> HAVE Tail(p)[i].id = Tail(p)[j].id
  <2>1. i + 1 = j + 1
    BY <1>1 DEF Distinct
  <2> QED BY <1>3, <2>1
<1>5. \A i \in 1 .. Len(Tail(p)) : Tail(p)[i].id # Head(p).id
  BY <1>1, <1>2, <1>3 DEF Distinct
<1> QED BY <1>4, <1>5 DEF Distinct

\* What is distinct is so with nothing in flight.
LEMMA DistinctWaiting == ASSUME NEW p, NEW f, Distinct(p, f) PROVE Distinct(p, NoCommand)
BY DEF Distinct

\* An empty queue holds nothing twice.
LEMMA DistinctEmpty == \A c : Distinct(<<>>, c)
BY DEF Distinct

\* The ids of a handshake are new.
LEMMA OpenedNew ==
  ASSUME NEW h \in Seq(Command), Opened(h)
  PROVE  \A i \in 1 .. Len(h) : h[i].id \in issued + 1 .. issued'
<1> DEFINE N == issued + 1 .. issued'
<1>1. h \in Seq([what : What, id : N])
  BY DEF Opened
<1> HIDE DEF N
<1>2. ASSUME NEW S, h \in Seq(S) PROVE \A i \in 1 .. Len(h) : h[i] \in S
  BY <1>2
<1>3. \A i \in 1 .. Len(h) : h[i] \in [what : What, id : N]
  BY <1>1, <1>2
<1>4. \A i \in 1 .. Len(h) : h[i].id \in N
  BY <1>3
<1> QED BY <1>4 DEF N

\* And distinct.
LEMMA OpenedIds ==
  ASSUME NEW h \in Seq(Command), Opened(h), issued \in Nat
  PROVE  QIds(h, NoCommand) \subseteq 1 .. issued' /\ Distinct(h, NoCommand)
<1>1. issued' \in Nat /\ \A i, j \in 1 .. Len(h) : i < j => h[i].id < h[j].id
  BY DEF Opened
<1>2. \A i \in 1 .. Len(h) : h[i].id \in issued + 1 .. issued'
  BY OpenedNew
<1>3. \A i \in 1 .. Len(h) : h[i].id \in 1 .. issued'
  BY <1>1, <1>2
<1>4. \A i, j \in 1 .. Len(h) : h[i].id = h[j].id => i = j
  <2> TAKE i, j \in 1 .. Len(h)
  <2> HAVE h[i].id = h[j].id
  <2>1. h[i].id \in Nat /\ i \in Nat /\ j \in Nat
    BY <1>1, <1>2
  <2>2. ~(i < j) /\ ~(j < i)
    BY <1>1, <2>1
  <2> QED BY <2>1, <2>2
<1> QED BY <1>3, <1>4 DEF QIds, Distinct

\* The queue's part of a step.
LEMMA NumberedQueue ==
  ASSUME QInv, CountersOK, Numbered, StepKind
  PROVE  QIds(pending', inFlight') \subseteq 1 .. issued' /\ Distinct(pending', inFlight')
<1>a. pending \in Seq(Command) /\ issued \in Nat /\ Distinct(pending, inFlight)
      /\ QIds(pending, inFlight) \subseteq 1 .. issued
  BY DEF QInv, QTypeOK, CountersOK, Numbered
<1>b. ASSUME pending' = <<>>, inFlight' = NoCommand
      PROVE  QIds(pending', inFlight') \subseteq 1 .. issued' /\ Distinct(pending', inFlight')
  BY <1>b, IdsEmpty, DistinctEmpty
<1>1. CASE Stays
  BY <1>1, <1>a DEF Stays, Unasked
<1>2. ASSUME NEW c \in Command, Given(c), Refused(c) \/ Joined(c) \/ Replaced(c) \/ Started(c)
      PROVE  QIds(pending', inFlight') \subseteq 1 .. issued' /\ Distinct(pending', inFlight')
  <2>1. c.id = issued + 1 /\ issued' = issued + 1
    BY <1>2 DEF Given
  <2>2. 1 .. issued' = (1 .. issued) \cup {c.id}
    BY <1>a, <2>1
  <2>3. c.id \notin QIds(pending, inFlight)
    BY <2>1, NewId
  <2>4. CASE Refused(c)
    BY <1>a, <2>2, <2>4 DEF Refused
  <2>5. CASE Joined(c)
    BY <1>a, <2>2, <2>3, <2>5, IdsJoin, DistinctJoin DEF Joined
  <2>6. CASE Replaced(c)
    <3>1. PICK i \in Waiting(c.what) : pending' = [pending EXCEPT ![i] = c]
      BY <2>6 DEF Replaced
    <3>2. i \in 1 .. Len(pending) /\ inFlight' = inFlight
      BY <2>6, <3>1 DEF Replaced, Waiting
    <3>3. QIds(pending', inFlight') = (QIds(pending, inFlight) \ {pending[i].id}) \cup {c.id}
      BY <1>a, <2>3, <3>1, <3>2, IdsReplace
    <3>4. Distinct(pending', inFlight')
      BY <1>a, <2>3, <3>1, <3>2, DistinctReplace
    <3> QED BY <1>a, <2>2, <3>3, <3>4
  <2>7. CASE Started(c)
    <3>1. pending' = <<>> /\ inFlight' = c /\ c # NoCommand
      BY <2>7, CommandIsOne DEF Started
    <3> QED BY <2>2, <3>1, IdsEmpty, DistinctEmpty
  <2> QED BY <1>2, <2>4, <2>5, <2>6, <2>7
<1>3. ASSUME NEW gone, Advanced(gone)
      PROVE  QIds(pending', inFlight') \subseteq 1 .. issued' /\ Distinct(pending', inFlight')
  <2>1. issued' = issued /\ inFlight # NoCommand
    BY <1>3 DEF Advanced, Unasked
  <2>2. CASE pending # <<>> /\ pending' = Tail(pending) /\ inFlight' = Head(pending)
    <3>1. QIds(pending', inFlight') = QIds(pending, NoCommand)
      BY <1>a, <2>2, IdsTurn
    <3>2. QIds(pending, NoCommand) \subseteq QIds(pending, inFlight)
      BY <1>a, <2>1, IdsInFlight
    <3>3. Distinct(pending', inFlight')
      BY <1>a, <2>2, DistinctTurn, DistinctWaiting
    <3> QED BY <1>a, <2>1, <3>1, <3>2, <3>3
  <2> QED BY <1>3, <1>b, <2>2 DEF Advanced
<1>4. ASSUME NEW gone, Cleared(gone)
      PROVE  QIds(pending', inFlight') \subseteq 1 .. issued' /\ Distinct(pending', inFlight')
  BY <1>4, <1>b DEF Cleared
<1>5. ASSUME NEW h \in Seq(Command), Opened(h)
      PROVE  QIds(pending', inFlight') \subseteq 1 .. issued' /\ Distinct(pending', inFlight')
  <2>1. h # <<>> /\ pending' = Tail(h) /\ inFlight' = Head(h)
    BY <1>5 DEF Opened
  <2> QED BY <1>5, <1>a, <2>1, IdsTurn, DistinctTurn, OpenedIds
<1> QED BY <1>1, <1>2, <1>3, <1>4, <1>5, Zenon DEF StepKind

\* Ids only grow, and stay within the bound.
LEMMA IssuedGrows ==
  ASSUME issued \in 0 .. MaxIssued, StepKind
  PROVE  issued' \in 0 .. MaxIssued /\ issued <= issued'
<1>1. MaxIssued \in Nat
  BY Bounds
<1>2. CASE issued' = issued
  BY <1>1, <1>2
<1>3. CASE issued' = issued + 1 /\ issued < MaxIssued
  BY <1>1, <1>3
<1>4. CASE issued' \in Nat /\ issued <= issued' /\ issued' <= MaxIssued
  BY <1>1, <1>4
<1> QED BY <1>2, <1>3, <1>4 DEF StepKind, Stays, Unasked, Given, Advanced, Opened

\* One step.
LEMMA NumberedStep ==
  QInv /\ QInv' /\ CountersOK /\ Numbered /\ issued \in 0 .. MaxIssued /\ [Next]_vars
    => Numbered' /\ issued' \in 0 .. MaxIssued
<1> SUFFICES ASSUME QInv, QInv', CountersOK, Numbered, issued \in 0 .. MaxIssued, [Next]_vars
             PROVE  Numbered' /\ issued' \in 0 .. MaxIssued
  OBVIOUS
<1>1. MaxIssued \in Nat /\ issued <= MaxIssued
  BY Bounds
<1>2. StepKind
  BY <1>1, StepKinds
<1>3. issued' \in 0 .. MaxIssued /\ issued <= issued'
  BY <1>2, IssuedGrows
<1>4. QIds(pending', inFlight') \subseteq 1 .. issued' /\ Distinct(pending', inFlight')
  BY <1>2, NumberedQueue
<1> DEFINE C == {c \in Command : c.id \in 1 .. issued'}
<1>5. \A i \in 1 .. Len(wire) : wire[i].type = "DATA" => wire[i].cmd \in C
  <2> TAKE i \in 1 .. Len(wire)
  <2> HAVE wire[i].type = "DATA"
  <2>1. wire[i].cmd \in Command /\ wire[i].cmd.id \in 1 .. issued
    BY DEF Numbered
  <2>2. wire[i].cmd.id \in 1 .. issued'
    BY <1>1, <1>3, <2>1
  <2> QED BY <2>1, <2>2
<1>6. inFlight' # NoCommand => inFlight' \in C /\ inFlight' \in Command
  <2>1. inFlight' \in Command \cup {NoCommand}
    BY DEF QInv, QTypeOK
  <2>2. inFlight' # NoCommand => inFlight'.id \in 1 .. issued'
    BY <1>4 DEF QIds
  <2> QED BY <2>1, <2>2
<1> HIDE DEF C
<1>7. \A i \in 1 .. Len(wire') : wire'[i].type = "DATA" => wire'[i].cmd \in C
  BY <1>5, <1>6, WireKinds, WireCommands DEF QInv
<1>8. \A i \in 1 .. Len(wire') :
        wire'[i].type = "DATA" => wire'[i].cmd \in Command /\ wire'[i].cmd.id \in 1 .. issued'
  BY <1>7 DEF C
<1> QED BY <1>3, <1>4, <1>8 DEF Numbered

\* No id is given out, or held, twice.
LEMMA NumberedInvariant == Spec => [](Numbered /\ issued \in 0 .. MaxIssued)
<1>1. Init => Numbered /\ issued \in 0 .. MaxIssued
  <2> SUFFICES ASSUME Init PROVE Numbered /\ issued \in 0 .. MaxIssued
    OBVIOUS
  <2>1. pending = <<>> /\ inFlight = NoCommand /\ wire = <<>> /\ issued = 0
    BY DEF Init
  <2>2. issued \in 0 .. MaxIssued
    BY <2>1, Bounds
  <2>3. QIds(pending, inFlight) = {} /\ Distinct(pending, inFlight)
    BY <2>1, IdsEmpty, DistinctEmpty
  <2>4. Len(wire) = 0
    BY <2>1
  <2> QED BY <2>2, <2>3, <2>4 DEF Numbered
<1> DEFINE N == Numbered /\ issued \in 0 .. MaxIssued
<1>2. QInv /\ QInv' /\ CountersOK /\ N /\ [Next]_vars => N'
  BY NumberedStep
<1>3. Init => N
  BY <1>1
<1>4. N => Numbered /\ issued \in 0 .. MaxIssued
  OBVIOUS
<1> HIDE DEF N
<1>5. Spec => []N
  BY <1>2, <1>3, LinkQueueInvariant, CountersInvariant, PTL DEF Spec
<1> QED BY <1>4, <1>5, PTL

-----------------------------------------------------------------------------
(* 5. Counting transmissions. *)

\* tries counts what the retry counter counts, and the first transmission.
Counted == tries = IF inFlight = NoCommand THEN 0 ELSE retries + 1

\* Where the count is kept, it stays right: a command put in flight is a new
\* one, and starts from no retries.
LEMMA CountedKept ==
  ASSUME QInv, QInv', CountersOK, Numbered, Counted, StepKind, CountTries
  PROVE  Counted'
<1>a. retries \in Nat /\ pending \in Seq(Command) /\ issued \in Nat
  <2>1. MaxRetries \in Nat
    BY Bounds
  <2> QED BY <2>1 DEF QInv, QTypeOK, CountersOK
<1>b. tries' = IF inFlight' = NoCommand THEN 0
               ELSE IF inFlight' # inFlight THEN 1
               ELSE IF retries' # retries THEN tries + 1 ELSE tries
  BY DEF CountTries
<1>c. ASSUME inFlight' = inFlight, retries' \in {retries, retries + 1} PROVE Counted'
  <2>1. CASE inFlight' = NoCommand
    BY <1>b, <2>1 DEF Counted
  <2>2. CASE inFlight' # NoCommand
    <3>1. tries = retries + 1
      BY <1>c, <2>2 DEF Counted
    <3>2. tries' = retries' + 1
      BY <1>a, <1>b, <1>c, <2>2, <3>1
    <3> QED BY <2>2, <3>2 DEF Counted
  <2> QED BY <2>1, <2>2
<1>d. ASSUME inFlight' = NoCommand PROVE Counted'
  BY <1>b, <1>d DEF Counted
<1>e. ASSUME inFlight' # inFlight, retries' = 0 PROVE Counted'
  BY <1>b, <1>e DEF Counted
<1>1. CASE Stays
  BY <1>c, <1>1 DEF Stays
<1>2. ASSUME NEW c \in Command, Refused(c) \/ Joined(c) \/ Replaced(c) \/ Started(c) PROVE Counted'
  <2>1. CASE Refused(c)
    BY <1>c, <1>d, <2>1 DEF Refused
  <2>2. CASE Joined(c) \/ Replaced(c)
    BY <1>c, <2>2 DEF Joined, Replaced
  <2>3. CASE Started(c)
    BY <1>e, <2>3, CommandIsOne DEF Started
  <2> QED BY <1>2, <2>1, <2>2, <2>3
<1>3. ASSUME NEW gone, Advanced(gone) PROVE Counted'
  <2>1. CASE pending # <<>> /\ inFlight' = Head(pending) /\ retries' = 0
    <3>1. Head(pending) = pending[1] /\ 1 \in 1 .. Len(pending)
      BY <1>a, <2>1
    <3>2. inFlight # NoCommand => inFlight # pending[1]
      BY <3>1, Zenon DEF Numbered, Distinct
    <3> QED BY <1>3, <1>e, <2>1, <3>1, <3>2 DEF Advanced
  <2> QED BY <1>3, <1>d, <2>1 DEF Advanced
<1>4. ASSUME NEW h \in Seq(Command), Opened(h) PROVE Counted'
  <2>1. h # <<>> /\ inFlight' = Head(h) /\ retries' = 0
    BY <1>4 DEF Opened
  <2>2. Head(h) = h[1] /\ 1 \in 1 .. Len(h)
    BY <2>1
  <2>3. h[1].id \in issued + 1 .. issued'
    BY <1>4, <2>2, OpenedNew
  <2>4. inFlight # NoCommand => inFlight.id \in 1 .. issued
    BY DEF Numbered, QIds
  <2>5. Head(h) \in Command
    BY <2>1
  <2>6. inFlight' # inFlight
    BY <1>a, <2>1, <2>2, <2>3, <2>4, <2>5, CommandIsOne
  <2> QED BY <1>e, <2>1, <2>6
<1> QED BY <1>1, <1>2, <1>3, <1>4, <1>d DEF StepKind, Cleared

\* Every step keeps the count, or touches nothing it depends on.
LEMMA CountedStep ==
  QInv /\ QInv' /\ CountersOK /\ Numbered /\ issued \in 0 .. MaxIssued /\ Counted /\ [Next]_vars
    => Counted'
<1> SUFFICES ASSUME QInv, QInv', CountersOK, Numbered, issued \in 0 .. MaxIssued, Counted, [Next]_vars
             PROVE  Counted'
  OBVIOUS
<1>1. issued <= MaxIssued
  BY Bounds
<1>2. StepKind
  BY <1>1, StepKinds
<1>3. CASE CountTries
  BY <1>2, <1>3, CountedKept
<1>4. CASE UNCHANGED <<tries, inFlight, retries>>
  BY <1>4 DEF Counted
<1>5. ASSUME NEW w \in UserWhat, Issue(w) PROVE CountTries
  BY <1>5, Zenon DEF Issue
<1>6. ASSUME ReceiveAck \/ ReceiveData \/ ReceiveAlert \/ Resend \/ GiveUp \/ Connect
               \/ Disconnect \/ Sigusr1
      PROVE  CountTries
  BY <1>6, Zenon DEF ReceiveAck, ReceiveData, ReceiveAlert, Resend, GiveUp, Connect, Disconnect, Sigusr1
<1>7. ASSUME HeadsetExecutes \/ HeadsetIgnores \/ UNCHANGED vars
      PROVE  UNCHANGED <<tries, inFlight, retries>>
  BY <1>7 DEF HeadsetExecutes, HeadsetIgnores, WireRead, vars, queueVars, historyVars
<1> QED BY <1>3, <1>4, <1>5, <1>6, <1>7 DEF Next

LEMMA CountedInvariant == Spec => []Counted
<1>1. Init => Counted
  BY DEF Init, Counted
<1> DEFINE N == Numbered /\ issued \in 0 .. MaxIssued
<1>2. QInv /\ QInv' /\ CountersOK /\ N /\ Counted /\ [Next]_vars => Counted'
  BY CountedStep
<1>3. Spec => []N
  BY NumberedInvariant
<1> HIDE DEF N
<1> QED BY <1>1, <1>2, <1>3, LinkQueueInvariant, CountersInvariant, PTL DEF Spec

\* A command is given up only after its first transmission and every retry the
\* budget has: the count does not leak from one command to the next.
THEOREM GivesUpAfterTheBudget == Spec => GivesUpLate
<1>1. ASSUME QInv, Counted, GiveUp PROVE tries = MaxRetries + 1
  <2>1. inFlight # NoCommand /\ retries >= MaxRetries
    BY <1>1, Zenon DEF GiveUp, TickGivesUp
  <2>2. retries \in 0 .. MaxRetries /\ MaxRetries \in Nat
    BY <1>1, Bounds DEF QInv, QTypeOK
  <2>3. retries = MaxRetries
    BY <2>1, <2>2
  <2> QED BY <1>1, <2>1, <2>3 DEF Counted
<1>2. QInv /\ Counted => [GiveUp => tries = MaxRetries + 1]_vars
  BY <1>1
<1> QED BY <1>2, CountedInvariant, LinkQueueInvariant, PTL DEF GivesUpLate

-----------------------------------------------------------------------------
(* 6. Types. *)

\* What a command of the handshake or a client writes, carried out.
Writes(c) == /\ executed' = executed \cup {c.id}
             /\ applied' = IF SettingOf[c.what] = NoSetting THEN applied
                           ELSE [applied EXCEPT ![SettingOf[c.what]] = c.id]

\* The headset carries out the frame it reads, or nothing.
HeadsetKind ==
  \/ UNCHANGED <<executed, applied>>
  \/ /\ WireRead /\ Head(wire).type = "DATA"
     /\ Writes(Head(wire).cmd)

\* Nothing else touches what the headset has.
LEMMA QuietHeadset ==
  ASSUME [Next]_vars, ~HeadsetExecutes
  PROVE  UNCHANGED executed /\ UNCHANGED applied
<1>1. ASSUME NEW w \in UserWhat, Issue(w) PROVE UNCHANGED executed /\ UNCHANGED applied
  BY <1>1, Zenon DEF Issue
<1>2. CASE \/ ReceiveAck \/ ReceiveData \/ ReceiveAlert \/ Resend \/ GiveUp \/ Connect
           \/ Disconnect \/ Sigusr1
  BY <1>2, Zenon DEF ReceiveAck, ReceiveData, ReceiveAlert, Resend, GiveUp, Connect, Disconnect, Sigusr1
<1>3. CASE HeadsetIgnores \/ UNCHANGED vars
  BY <1>3 DEF HeadsetIgnores, vars, headsetVars, historyVars
<1> QED BY <1>1, <1>2, <1>3 DEF Next

\* So every step is one of the two.
LEMMA HeadsetKinds == [Next]_vars => HeadsetKind
<1> SUFFICES ASSUME [Next]_vars PROVE HeadsetKind
  OBVIOUS
<1>1. CASE HeadsetExecutes
  BY <1>1, Zenon DEF HeadsetExecutes, InStepFrame, HeadsetKind, Writes
<1>2. CASE ~HeadsetExecutes
  BY <1>2, QuietHeadset DEF HeadsetKind
<1> QED BY <1>1, <1>2

\* The command at the front of the wire.
LEMMA FrontCommand ==
  ASSUME QTypeOK, Numbered, wire # <<>>, Head(wire).type = "DATA"
  PROVE  /\ Head(wire).cmd \in Command /\ Head(wire).cmd.id \in 1 .. issued
         /\ SettingOf[Head(wire).cmd.what] \in Setting \cup {NoSetting}
<1>1. Head(wire) = wire[1] /\ 1 \in 1 .. Len(wire)
  BY DEF QTypeOK
<1>2. Head(wire).cmd \in Command /\ Head(wire).cmd.id \in 1 .. issued
  BY <1>1 DEF Numbered
<1>3. SettingOf \in [What -> Setting \cup {NoSetting}]
  BY LinkAssumption, Zenon DEF LinkAssumption
<1> QED BY <1>2, <1>3 DEF Command

\* The types of the counters and of the histories.
HistoryTypes ==
  /\ applied \in [Setting -> Ids \cup {0}]
  /\ links \in 0 .. MaxLinks
  /\ firstOnLink \in 1 .. MaxIssued + 1
  /\ requested \in [Setting -> Ids \cup {0}]
  /\ executed \subseteq Ids
  /\ discarded \subseteq Ids
  /\ inStep \in BOOLEAN

\* The counters of links.
LEMMA LinkTypes ==
  ASSUME CountersOK, issued \in 0 .. MaxIssued, HistoryTypes, [Next]_vars
  PROVE  links' \in 0 .. MaxLinks /\ firstOnLink' \in 1 .. MaxIssued + 1 /\ inStep' \in BOOLEAN
<1>a. inStep \in BOOLEAN /\ TRUE \in BOOLEAN /\ FALSE \in BOOLEAN
  BY Zenon DEF HistoryTypes
<1>b. /\ links \in 0 .. MaxLinks /\ firstOnLink \in 1 .. MaxIssued + 1
      /\ MaxLinks \in Nat /\ MaxIssued \in Nat
  BY Bounds DEF HistoryTypes
<1>c. ASSUME UNCHANGED <<links, firstOnLink>>, inStep' \in BOOLEAN
      PROVE  links' \in 0 .. MaxLinks /\ firstOnLink' \in 1 .. MaxIssued + 1 /\ inStep' \in BOOLEAN
  BY <1>b, <1>c
<1>1. ASSUME NEW w \in UserWhat, Issue(w) PROVE UNCHANGED <<links, firstOnLink>> /\ inStep' \in BOOLEAN
  BY <1>1, <1>a, Zenon DEF Issue
<1>2. CASE ReceiveAck \/ ReceiveData \/ ReceiveAlert \/ Resend \/ GiveUp \/ Disconnect \/ Sigusr1
  <2>1. UNCHANGED <<links, firstOnLink>> /\ inStep' \in BOOLEAN
    BY <1>2, <1>a, Zenon DEF ReceiveAck, ReceiveData, ReceiveAlert, Resend, GiveUp, Disconnect, Sigusr1
  <2> QED BY <1>c, <2>1
<1>3. CASE HeadsetExecutes \/ HeadsetIgnores \/ UNCHANGED vars
  <2>1. UNCHANGED <<links, firstOnLink, inStep>>
    BY <1>3 DEF HeadsetExecutes, HeadsetIgnores, vars, historyVars
  <2> QED BY <1>a, <1>c, <2>1, Zenon
<1>4. CASE Connect
  <2>1. links < MaxLinks /\ links' = links + 1 /\ firstOnLink' = issued + 1 /\ inStep' = TRUE
    BY <1>4, Zenon DEF Connect
  <2>2. links' \in 0 .. MaxLinks /\ firstOnLink' \in 1 .. MaxIssued + 1
    BY <1>b, <2>1
  <2> QED BY <1>a, <2>1, <2>2, Zenon
<1> QED BY <1>1, <1>2, <1>3, <1>4, <1>c DEF Next

\* The sets of ids, and the ids kept for each setting.
LEMMA IdTypes ==
  ASSUME QInv, CountersOK, Numbered, issued \in 0 .. MaxIssued, HistoryTypes, [Next]_vars
  PROVE  /\ applied' \in [Setting -> Ids \cup {0}]
         /\ requested' \in [Setting -> Ids \cup {0}]
         /\ executed' \subseteq Ids /\ discarded' \subseteq Ids
<1>a. MaxIssued \in Nat /\ issued <= MaxIssued /\ issued \in Nat
  BY Bounds
<1>b. 1 .. issued \subseteq Ids
  BY <1>a DEF Ids
<1>c. StepKind /\ HeadsetKind
  BY <1>a, StepKinds, HeadsetKinds
<1>d. QIds(pending, inFlight) \subseteq Ids
  BY <1>b DEF Numbered
<1>e. SettingOf \in [What -> Setting \cup {NoSetting}]
  BY LinkAssumption, Zenon DEF LinkAssumption
<1>1. applied' \in [Setting -> Ids \cup {0}] /\ executed' \subseteq Ids
  <2>1. CASE UNCHANGED <<executed, applied>>
    BY <2>1 DEF HistoryTypes
  <2>2. CASE WireRead /\ Head(wire).type = "DATA" /\ Writes(Head(wire).cmd)
    <3> DEFINE c == Head(wire).cmd
               s == SettingOf[c.what]
    <3>1. c \in Command /\ c.id \in 1 .. issued /\ s \in Setting \cup {NoSetting}
      BY <2>2, FrontCommand DEF QInv, WireRead
    <3>2. executed' = executed \cup {c.id}
          /\ applied' = IF s = NoSetting THEN applied ELSE [applied EXCEPT ![s] = c.id]
      BY <2>2 DEF Writes
    <3> HIDE DEF c, s
    <3> QED BY <1>b, <3>1, <3>2 DEF HistoryTypes
  <2> QED BY <1>c, <2>1, <2>2 DEF HeadsetKind
<1>2. ASSUME NEW c \in Command, Given(c)
      PROVE  c.id \in Ids /\ requested' \in [Setting -> Ids \cup {0}]
  <2>1. c.id \in Ids
    BY <1>a, <1>2 DEF Given, Ids
  <2> DEFINE s == SettingOf[c.what]
  <2>2. s \in Setting \cup {NoSetting}
    BY <1>e DEF Command
  <2>3. requested' = requested
        \/ requested' = IF s = NoSetting THEN requested ELSE [requested EXCEPT ![s] = c.id]
    BY <1>2 DEF Given
  <2> HIDE DEF s
  <2> QED BY <2>1, <2>2, <2>3 DEF HistoryTypes
<1>3. requested' \in [Setting -> Ids \cup {0}] \/ requested' = requested
  BY <1>c, <1>2 DEF StepKind, Stays, Unasked, Advanced, Opened
<1>4. discarded' \subseteq Ids
  <2>a. discarded \subseteq Ids
    BY DEF HistoryTypes
  <2>1. ASSUME NEW c \in Command, Given(c), Refused(c) \/ Joined(c) \/ Replaced(c) \/ Started(c)
        PROVE  discarded' \subseteq Ids
    <3>1. CASE Refused(c) \/ Joined(c) \/ Started(c)
      BY <1>2, <2>a, <2>1, <3>1 DEF Refused, Joined, Started
    <3>2. CASE Replaced(c)
      <4>1. PICK i \in Waiting(c.what) : discarded' = discarded \cup {pending[i].id}
        BY <3>2 DEF Replaced
      <4>2. pending[i].id \in QIds(pending, inFlight)
        BY <4>1 DEF QIds, Waiting
      <4> QED BY <1>d, <2>a, <4>1, <4>2
    <3> QED BY <2>1, <3>1, <3>2
  <2>2. ASSUME Advanced({inFlight.id}) PROVE discarded' \subseteq Ids
    <3>1. inFlight # NoCommand /\ discarded' = discarded \cup {inFlight.id}
      BY <2>2 DEF Advanced
    <3>2. inFlight.id \in QIds(pending, inFlight)
      BY <3>1 DEF QIds
    <3> QED BY <1>d, <2>a, <3>1, <3>2
  <2>3. ASSUME NEW gone \in SUBSET (QIds(pending, inFlight) \cup (issued + 1 .. issued')), Cleared(gone),
               issued' \in Nat, issued' <= MaxIssued
        PROVE  discarded' \subseteq Ids
    <3>1. issued + 1 .. issued' \subseteq Ids
      BY <1>a, <2>3 DEF Ids
    <3> QED BY <1>d, <2>a, <2>3, <3>1 DEF Cleared
  <2>4. ASSUME Stays \/ Advanced({}) \/ \E h \in Seq(Command) : Opened(h)
        PROVE  discarded' \subseteq Ids
    BY <1>d, <2>a, <2>4 DEF Stays, Advanced, Opened
  <2> QED BY <1>c, <2>1, <2>2, <2>3, <2>4 DEF StepKind
<1> QED BY <1>1, <1>3, <1>4 DEF HistoryTypes

\* One step.
LEMMA TypesStep ==
  QInv /\ CountersOK /\ Numbered /\ issued \in 0 .. MaxIssued /\ HistoryTypes /\ [Next]_vars
    => HistoryTypes'
<1> SUFFICES ASSUME QInv, CountersOK, Numbered, issued \in 0 .. MaxIssued, HistoryTypes, [Next]_vars
             PROVE  HistoryTypes'
  OBVIOUS
<1>1. links' \in 0 .. MaxLinks /\ firstOnLink' \in 1 .. MaxIssued + 1 /\ inStep' \in BOOLEAN
  BY LinkTypes
<1>2. /\ applied' \in [Setting -> Ids \cup {0}]
      /\ requested' \in [Setting -> Ids \cup {0}]
      /\ executed' \subseteq Ids /\ discarded' \subseteq Ids
  BY IdTypes
<1> QED BY <1>1, <1>2, Zenon DEF HistoryTypes, Ids

LEMMA TypesInvariant == Spec => []HistoryTypes
<1>1. Init => HistoryTypes
  <2> SUFFICES ASSUME Init PROVE HistoryTypes
    OBVIOUS
  <2>1. inStep = TRUE
    BY Zenon DEF Init
  <2>2. inStep \in BOOLEAN
    BY <2>1, Zenon
  <2>3. /\ applied = [s \in Setting |-> 0] /\ requested = [s \in Setting |-> 0]
        /\ links = 0 /\ firstOnLink = 1 /\ executed = {} /\ discarded = {}
    BY Zenon DEF Init
  <2>4. links \in 0 .. MaxLinks /\ firstOnLink \in 1 .. MaxIssued + 1
    BY <2>3, Bounds
  <2>5. applied \in [Setting -> Ids \cup {0}] /\ requested \in [Setting -> Ids \cup {0}]
        /\ executed \subseteq Ids /\ discarded \subseteq Ids
    BY <2>3
  <2> QED BY <2>2, <2>4, <2>5, Zenon DEF HistoryTypes
<1> DEFINE N == Numbered /\ issued \in 0 .. MaxIssued
<1>2. QInv /\ CountersOK /\ N /\ HistoryTypes /\ [Next]_vars => HistoryTypes'
  BY TypesStep
<1>3. Spec => []N
  BY NumberedInvariant
<1> HIDE DEF N
<1> QED BY <1>1, <1>2, <1>3, LinkQueueInvariant, CountersInvariant, PTL DEF Spec

\* Every variable keeps its type; in particular no id runs past those given
\* out, and no command is transmitted more often than the budget allows.
THEOREM LinkKeepsTypes == Spec => []TypeOK
<1>1. ASSUME QInv, CountersOK, Numbered, issued \in 0 .. MaxIssued, Counted, HistoryTypes
      PROVE  TypeOK
  <2>1. retries \in 0 .. MaxRetries /\ MaxRetries \in Nat
    BY <1>1, Bounds DEF QInv, QTypeOK
  <2>2. tries \in 0 .. MaxRetries + 1
    BY <1>1, <2>1 DEF Counted
  <2> QED BY <1>1, <2>2, Zenon DEF TypeOK, QInv, CountersOK, HistoryTypes
<1> DEFINE N == Numbered /\ issued \in 0 .. MaxIssued
<1>2. QInv /\ CountersOK /\ N /\ Counted /\ HistoryTypes => TypeOK
  BY <1>1
<1>3. Spec => []N
  BY NumberedInvariant
<1> HIDE DEF N
<1> QED BY <1>2, <1>3, LinkQueueInvariant, CountersInvariant, CountedInvariant, TypesInvariant, PTL

-----------------------------------------------------------------------------
(* 7. Commands of one label keep their order from the queue to the headset. *)

\* Command c is older than d, or no younger, if they have the same label.
Earlier(c, d)  == c.what = d.what => c.id < d.id
NotLater(c, d) == c.what = d.what => c.id <= d.id

\* Commands p waiting and f in flight are in order.
QueueOrdered(p, f) ==
  /\ \A i, j \in 1 .. Len(p) : i < j => Earlier(p[i], p[j])
  /\ f # NoCommand => \A i \in 1 .. Len(p) : Earlier(f, p[i])

\* A command sent before comes before all of them.
Before(c, p, f) == /\ f # NoCommand => NotLater(c, f)
                   /\ \A i \in 1 .. Len(p) : Earlier(c, p[i])

\* So do the commands on the wire, in order.
WireOrdered(w) == \A i, j \in 1 .. Len(w) :
                    i < j /\ w[i].type = "DATA" /\ w[j].type = "DATA" => NotLater(w[i].cmd, w[j].cmd)
WireFirst(w, p, f) == \A i \in 1 .. Len(w) : w[i].type = "DATA" => Before(w[i].cmd, p, f)

\* All the queue holds is in C.
HoldsOnly(p, f, C) == /\ \A i \in 1 .. Len(p) : p[i] \in C
                      /\ f # NoCommand => f \in C

\* The ids the queue holds, one by one.
LEMMA HeldIds ==
  ASSUME Numbered, CountersOK, NEW n \in Nat, issued < n
  PROVE  /\ \A i \in 1 .. Len(pending) : pending[i].id \in Nat /\ pending[i].id < n
         /\ inFlight # NoCommand => inFlight.id \in Nat /\ inFlight.id < n
<1>1. issued \in Nat /\ QIds(pending, inFlight) \subseteq 1 .. issued
  BY DEF Numbered, CountersOK
<1>2. \A k \in 1 .. issued : k \in Nat /\ k < n
  BY <1>1
<1>3. \A i \in 1 .. Len(pending) : pending[i].id \in QIds(pending, inFlight)
  BY DEF QIds
<1>4. inFlight # NoCommand => inFlight.id \in QIds(pending, inFlight)
  BY DEF QIds
<1> QED BY <1>1, <1>2, <1>3, <1>4

\* A command that this step issues: a client's, the answer to an alert, or one
\* of the handshake.
Issued(c) == \/ Given(c)
             \/ /\ c.id \in issued + 1 .. issued' /\ requested' = requested
                /\ \E j \in 1 .. Len(Handshake) : c.what = Handshake[j]

\* After a step the queue holds what it held, and new commands.
LEMMA QueueCommands ==
  ASSUME QInv, CountersOK, StepKind, NEW C, HoldsOnly(pending, inFlight, C),
         \A c \in Command : Issued(c) => c \in C
  PROVE  HoldsOnly(pending', inFlight', C)
<1>a. pending \in Seq(Command) /\ issued \in Nat
  BY DEF QInv, QTypeOK, CountersOK
<1>1. CASE UNCHANGED <<pending, inFlight>>
  BY <1>1
<1>2. ASSUME NEW c \in Command, Given(c), Joined(c) \/ Replaced(c) \/ Started(c)
      PROVE  HoldsOnly(pending', inFlight', C)
  <2>2. c \in C
    BY <1>2 DEF Issued
  <2>3. CASE Joined(c)
    <3>1. pending' = Append(pending, c) /\ inFlight' = inFlight
      BY <2>3 DEF Joined
    <3>2. \A i \in 1 .. Len(Append(pending, c)) :
             Append(pending, c)[i] = c \/ (i \in 1 .. Len(pending) /\ Append(pending, c)[i] = pending[i])
      BY <1>a
    <3> QED BY <2>2, <3>1, <3>2 DEF HoldsOnly
  <2>4. CASE Replaced(c)
    <3>1. PICK k \in Waiting(c.what) : pending' = [pending EXCEPT ![k] = c]
      BY <2>4 DEF Replaced
    <3>2. inFlight' = inFlight
      BY <2>4 DEF Replaced
    <3>3. Len(pending') = Len(pending)
          /\ \A i \in 1 .. Len(pending) : pending'[i] = c \/ pending'[i] = pending[i]
      BY <1>a, <3>1
    <3> QED BY <2>2, <3>2, <3>3 DEF HoldsOnly
  <2>5. CASE Started(c)
    BY <2>2, <2>5 DEF Started, HoldsOnly
  <2> QED BY <1>2, <2>3, <2>4, <2>5
<1>3. ASSUME NEW p \in Seq(Command), p # <<>>, HoldsOnly(p, NoCommand, C),
             pending' = Tail(p), inFlight' = Head(p)
      PROVE  HoldsOnly(pending', inFlight', C)
  <2>1. \A i \in 1 .. Len(Tail(p)) : Tail(p)[i] = p[i + 1] /\ i + 1 \in 1 .. Len(p)
    BY <1>3
  <2>2. Head(p) = p[1] /\ 1 \in 1 .. Len(p)
    BY <1>3
  <2> QED BY <1>3, <2>1, <2>2 DEF HoldsOnly
<1>4. ASSUME NEW gone, Advanced(gone) PROVE HoldsOnly(pending', inFlight', C)
  <2>1. CASE pending' = <<>> /\ inFlight' = NoCommand
    BY <2>1 DEF HoldsOnly
  <2>2. CASE pending # <<>> /\ pending' = Tail(pending) /\ inFlight' = Head(pending)
    BY <1>a, <1>3, <2>2 DEF HoldsOnly
  <2> QED BY <1>4, <2>1, <2>2 DEF Advanced
<1>5. ASSUME NEW gone, Cleared(gone) PROVE HoldsOnly(pending', inFlight', C)
  BY <1>5 DEF Cleared, HoldsOnly
<1>6. ASSUME NEW h \in Seq(Command), Opened(h) PROVE HoldsOnly(pending', inFlight', C)
  <2>1. \A i \in 1 .. Len(h) : h[i].id \in issued + 1 .. issued'
    BY <1>6, OpenedNew
  <2>2. /\ requested' = requested /\ h # <<>> /\ pending' = Tail(h) /\ inFlight' = Head(h)
        /\ \A i \in 1 .. Len(h) : \E j \in 1 .. Len(Handshake) : h[i].what = Handshake[j]
    BY <1>6 DEF Opened
  <2>3. HoldsOnly(h, NoCommand, C)
    BY <2>1, <2>2 DEF HoldsOnly, Issued
  <2> QED BY <1>3, <2>2, <2>3
<1> QED BY <1>1, <1>2, <1>4, <1>5, <1>6 DEF StepKind, Stays, Refused

\* The queue stays in order.
LEMMA QueueStaysOrdered ==
  ASSUME QInv, CountersOK, Numbered, StepKind, QueueOrdered(pending, inFlight)
  PROVE  QueueOrdered(pending', inFlight')
<1>a. pending \in Seq(Command) /\ issued \in Nat
  BY DEF QInv, QTypeOK, CountersOK
<1>1. CASE UNCHANGED <<pending, inFlight>>
  BY <1>1
<1>2. ASSUME NEW c \in Command, Given(c), Joined(c) \/ Replaced(c) \/ Started(c)
      PROVE  QueueOrdered(pending', inFlight')
  <2>1. c.id = issued + 1 /\ issued < c.id /\ c.id \in Nat
    BY <1>a, <1>2 DEF Given
  <2>2. /\ \A i \in 1 .. Len(pending) : Earlier(pending[i], c)
        /\ inFlight # NoCommand => Earlier(inFlight, c)
    BY <2>1, HeldIds DEF Earlier
  <2>3. CASE Joined(c)
    <3> DEFINE q == Append(pending, c)
               n == Len(pending)
    <3>1. pending' = q /\ inFlight' = inFlight
      BY <2>3 DEF Joined
    <3>2. n \in Nat /\ Len(q) = n + 1 /\ q[n + 1] = c /\ \A i \in 1 .. n : q[i] = pending[i]
      BY <1>a
    <3> HIDE DEF q
    <3>3. \A i, j \in 1 .. Len(q) : i < j => Earlier(q[i], q[j])
      <4> TAKE i, j \in 1 .. Len(q)
      <4> HAVE i < j
      <4>1. i \in 1 .. n /\ (j \in 1 .. n \/ j = n + 1)
        BY <3>2
      <4> QED BY <2>2, <3>2, <4>1 DEF QueueOrdered
    <3>4. inFlight # NoCommand => \A i \in 1 .. Len(q) : Earlier(inFlight, q[i])
      <4> HAVE inFlight # NoCommand
      <4> TAKE i \in 1 .. Len(q)
      <4>1. i \in 1 .. n \/ i = n + 1
        BY <3>2
      <4> QED BY <2>2, <3>2, <4>1 DEF QueueOrdered
    <3> QED BY <3>1, <3>3, <3>4 DEF QueueOrdered
  <2>4. CASE Replaced(c)
    <3>1. PICK k \in Waiting(c.what) : pending' = [pending EXCEPT ![k] = c]
      BY <2>4 DEF Replaced
    <3>2. inFlight' = inFlight /\ c.what \in Coalescing
      BY <2>4 DEF Replaced
    <3>3. k \in 1 .. Len(pending) /\ pending[k].what = c.what
      BY <3>1 DEF Waiting
    <3>4. /\ Len(pending') = Len(pending) /\ pending'[k] = c
          /\ \A i \in 1 .. Len(pending) : i # k => pending'[i] = pending[i]
      BY <1>a, <3>1, <3>3
    <3>5. \A j \in 1 .. Len(pending) : j # k => pending[j].what # c.what
      BY <3>2, <3>3 DEF QInv, NoBacklog
    <3>6. \A i, j \in 1 .. Len(pending) : i < j => Earlier(pending'[i], pending'[j])
      <4> TAKE i, j \in 1 .. Len(pending)
      <4> HAVE i < j
      <4>1. i # j
        OBVIOUS
      <4>2. CASE i = k
        BY <3>4, <3>5, <4>1, <4>2 DEF Earlier
      <4>3. CASE i # k /\ j = k
        BY <2>2, <3>4, <4>3
      <4>4. CASE i # k /\ j # k
        BY <3>4, <4>4 DEF QueueOrdered
      <4> QED BY <4>2, <4>3, <4>4
    <3>7. inFlight # NoCommand => \A i \in 1 .. Len(pending) : Earlier(inFlight, pending'[i])
      BY <2>2, <3>4 DEF QueueOrdered
    <3> QED BY <3>2, <3>4, <3>6, <3>7 DEF QueueOrdered
  <2>5. CASE Started(c)
    BY <2>5 DEF Started, QueueOrdered
  <2> QED BY <1>2, <2>3, <2>4, <2>5
<1>3. ASSUME NEW p \in Seq(Command), p # <<>>, QueueOrdered(p, NoCommand),
             pending' = Tail(p), inFlight' = Head(p)
      PROVE  QueueOrdered(pending', inFlight')
  <2>1. \A i \in 1 .. Len(Tail(p)) : Tail(p)[i] = p[i + 1] /\ i + 1 \in 1 .. Len(p) /\ 1 < i + 1
    BY <1>3
  <2>2. Head(p) = p[1] /\ 1 \in 1 .. Len(p)
    BY <1>3
  <2>3. \A i, j \in 1 .. Len(Tail(p)) : i < j => i + 1 < j + 1
    OBVIOUS
  <2>4. \A i, j \in 1 .. Len(Tail(p)) : i < j => Earlier(Tail(p)[i], Tail(p)[j])
    BY <1>3, <2>1, <2>3 DEF QueueOrdered
  <2>5. \A i \in 1 .. Len(Tail(p)) : Earlier(Head(p), Tail(p)[i])
    BY <1>3, <2>1, <2>2 DEF QueueOrdered
  <2> QED BY <1>3, <2>4, <2>5 DEF QueueOrdered
<1>4. ASSUME NEW gone, Advanced(gone) PROVE QueueOrdered(pending', inFlight')
  <2>1. CASE pending' = <<>> /\ inFlight' = NoCommand
    BY <2>1 DEF QueueOrdered
  <2>2. CASE pending # <<>> /\ pending' = Tail(pending) /\ inFlight' = Head(pending)
    BY <1>a, <1>3, <2>2 DEF QueueOrdered
  <2> QED BY <1>4, <2>1, <2>2 DEF Advanced
<1>5. ASSUME NEW gone, Cleared(gone) PROVE QueueOrdered(pending', inFlight')
  BY <1>5 DEF Cleared, QueueOrdered
<1>6. ASSUME NEW h \in Seq(Command), Opened(h) PROVE QueueOrdered(pending', inFlight')
  <2>1. QueueOrdered(h, NoCommand)
    BY <1>6 DEF Opened, QueueOrdered, Earlier
  <2> QED BY <1>3, <1>6, <2>1 DEF Opened
<1> QED BY <1>1, <1>2, <1>4, <1>5, <1>6 DEF StepKind, Stays, Refused

\* What was sent before the step still comes first.
LEMMA BeforeStays ==
  ASSUME QInv, CountersOK, StepKind, NEW c, c.id \in 1 .. issued, Before(c, pending, inFlight)
  PROVE  Before(c, pending', inFlight')
<1>a. issued \in Nat /\ pending \in Seq(Command)
  BY DEF CountersOK, QInv, QTypeOK
<1>b. ASSUME NEW d \in Command, d.id \in issued + 1 .. issued' PROVE Earlier(c, d) /\ NotLater(c, d)
  BY <1>a, <1>b DEF Earlier, NotLater
<1>c. ASSUME NEW d \in Command, Earlier(c, d) PROVE NotLater(c, d)
  BY <1>a, <1>c DEF Earlier, NotLater, Command
<1>1. CASE UNCHANGED <<pending, inFlight>>
  BY <1>1
<1>2. ASSUME NEW d \in Command, Given(d), Joined(d) \/ Replaced(d) \/ Started(d)
      PROVE  Before(c, pending', inFlight')
  <2>1. d.id \in issued + 1 .. issued'
    BY <1>a, <1>2 DEF Given
  <2>2. Earlier(c, d) /\ NotLater(c, d)
    BY <1>b, <2>1
  <2>3. CASE Joined(d)
    <3>1. pending' = Append(pending, d) /\ inFlight' = inFlight
      BY <2>3 DEF Joined
    <3>2. \A i \in 1 .. Len(Append(pending, d)) :
             Append(pending, d)[i] = d \/ (i \in 1 .. Len(pending) /\ Append(pending, d)[i] = pending[i])
      BY <1>a
    <3> QED BY <2>2, <3>1, <3>2 DEF Before
  <2>4. CASE Replaced(d)
    <3>1. PICK k \in Waiting(d.what) : pending' = [pending EXCEPT ![k] = d]
      BY <2>4 DEF Replaced
    <3>2. inFlight' = inFlight
      BY <2>4 DEF Replaced
    <3>3. Len(pending') = Len(pending)
          /\ \A i \in 1 .. Len(pending) : pending'[i] = d \/ pending'[i] = pending[i]
      BY <1>a, <3>1
    <3> QED BY <2>2, <3>2, <3>3 DEF Before
  <2>5. CASE Started(d)
    BY <2>2, <2>5 DEF Started, Before
  <2> QED BY <1>2, <2>3, <2>4, <2>5
<1>3. ASSUME NEW p \in Seq(Command), p # <<>>, Before(c, p, NoCommand),
             pending' = Tail(p), inFlight' = Head(p)
      PROVE  Before(c, pending', inFlight')
  <2>1. \A i \in 1 .. Len(Tail(p)) : Tail(p)[i] = p[i + 1] /\ i + 1 \in 1 .. Len(p)
    BY <1>3
  <2>2. Head(p) = p[1] /\ 1 \in 1 .. Len(p) /\ Head(p) \in Command
    BY <1>3
  <2> QED BY <1>3, <1>c, <2>1, <2>2 DEF Before
<1>4. ASSUME NEW gone, Advanced(gone) PROVE Before(c, pending', inFlight')
  <2>1. CASE pending' = <<>> /\ inFlight' = NoCommand
    BY <2>1 DEF Before
  <2>2. CASE pending # <<>> /\ pending' = Tail(pending) /\ inFlight' = Head(pending)
    BY <1>a, <1>3, <2>2 DEF Before
  <2> QED BY <1>4, <2>1, <2>2 DEF Advanced
<1>5. ASSUME NEW gone, Cleared(gone) PROVE Before(c, pending', inFlight')
  BY <1>5 DEF Cleared, Before
<1>6. ASSUME NEW h \in Seq(Command), Opened(h) PROVE Before(c, pending', inFlight')
  <2>1. \A i \in 1 .. Len(h) : h[i].id \in issued + 1 .. issued' /\ h[i] \in Command
    BY <1>6, OpenedNew
  <2>2. Before(c, h, NoCommand)
    BY <1>b, <2>1 DEF Before
  <2> QED BY <1>3, <1>6, <2>2 DEF Opened
<1> QED BY <1>1, <1>2, <1>4, <1>5, <1>6 DEF StepKind, Stays, Refused

\* The wire before the send keeps its order.
LEMMA BeforeOrdered ==
  ASSUME NEW w, wire \in Seq(Frame), WireBefore(w), WireOrdered(wire)
  PROVE  WireOrdered(w)
<1>1. CASE w = wire
  BY <1>1
<1>2. ASSUME NEW b \in Bit, w = Append(wire, AckFrame(b)) PROVE WireOrdered(w)
  <2>1. AckFrame(b) \in Frame /\ AckFrame(b).type # "DATA"
    BY DEF AckFrame, Frame
  <2> DEFINE a == AckFrame(b)
  <2> HIDE DEF a
  <2>2. \A i \in 1 .. Len(w) : w[i].type = "DATA" => i \in 1 .. Len(wire) /\ w[i] = wire[i]
    BY <1>2, <2>1 DEF a
  <2> QED BY <2>2 DEF WireOrdered
<1>3. CASE wire # <<>> /\ w = Tail(wire)
  <2>1. \A i \in 1 .. Len(w) : w[i] = wire[i + 1] /\ i + 1 \in 1 .. Len(wire)
    BY <1>3
  <2>2. \A i, j \in 1 .. Len(w) : i < j => i + 1 < j + 1
    BY <1>3
  <2> QED BY <2>1, <2>2 DEF WireOrdered
<1>4. CASE w = <<>>
  BY <1>4 DEF WireOrdered
<1> QED BY <1>1, <1>2, <1>3, <1>4 DEF WireBefore

\* The wire stays in order, and ahead of the queue.
LEMMA WireStaysOrdered ==
  ASSUME QInv, QInv', CountersOK, Numbered, StepKind, WireKind,
         QueueOrdered(pending', inFlight'), WireOrdered(wire), WireFirst(wire, pending, inFlight)
  PROVE  WireOrdered(wire') /\ WireFirst(wire', pending', inFlight')
<1>1. PICK w \in Seq(Frame) : WireBefore(w) /\ AfterSend(w)
  BY DEF WireKind
<1>2. WireOrdered(w)
  BY <1>1, BeforeOrdered DEF QInv, QTypeOK
<1>3. WireFirst(w, pending', inFlight')
  <2>1. ASSUME NEW j \in 1 .. Len(wire), wire[j].type = "DATA"
        PROVE  Before(wire[j].cmd, pending', inFlight')
    BY <2>1, BeforeStays DEF Numbered, WireFirst
  <2>2. \A i \in 1 .. Len(w) : w[i].type = "DATA" => \E j \in 1 .. Len(wire) : wire[j] = w[i]
    BY <1>1, BeforeCommands DEF QInv, QTypeOK
  <2> QED BY <2>1, <2>2 DEF WireFirst
<1>4. CASE wire' = w
  BY <1>2, <1>3, <1>4
<1>5. ASSUME NEW b \in Bit, inFlight' # NoCommand, wire' = Append(w, DataFrame(inFlight', b))
      PROVE  WireOrdered(wire') /\ WireFirst(wire', pending', inFlight')
  <2> DEFINE v == Append(w, DataFrame(inFlight', b))
             c == inFlight'
             n == Len(w)
  <2>1. c \in Command /\ c # NoCommand
    BY <1>5 DEF QInv, QTypeOK
  <2>2. Before(c, pending', c)
    BY <1>5, <2>1 DEF Before, NotLater, QueueOrdered, Command
  <2>3. Len(v) = n + 1 /\ v[n + 1].cmd = c /\ \A i \in 1 .. n : v[i] = w[i]
    BY <2>1, SendFrame
  <2>4. WireFirst(w, pending', c)
    BY <1>3
  <2>5. wire' = v /\ n \in Nat
    BY <1>5
  <2> HIDE DEF v, c
  <2>6. WireFirst(v, pending', c)
    <3>1. \A i \in 1 .. Len(v) : i \in 1 .. n \/ i = n + 1
      BY <2>3, <2>5
    <3> QED BY <2>2, <2>3, <2>4, <3>1 DEF WireFirst
  <2>7. WireOrdered(v)
    <3> SUFFICES ASSUME NEW i \in 1 .. Len(v), NEW j \in 1 .. Len(v), i < j,
                        v[i].type = "DATA", v[j].type = "DATA"
                 PROVE  NotLater(v[i].cmd, v[j].cmd)
      BY DEF WireOrdered
    <3>1. i \in 1 .. n /\ v[i] = w[i]
      BY <2>3, <2>5
    <3>2. CASE j \in 1 .. n
      BY <1>2, <2>3, <3>1, <3>2 DEF WireOrdered
    <3>3. CASE j = n + 1
      BY <2>1, <2>3, <2>4, <3>1, <3>3 DEF WireFirst, Before
    <3>4. j \in 1 .. n \/ j = n + 1
      BY <2>3, <2>5
    <3> QED BY <3>2, <3>3, <3>4
  <2> QED BY <2>5, <2>6, <2>7 DEF c
<1> QED BY <1>1, <1>4, <1>5 DEF AfterSend

-----------------------------------------------------------------------------
(* 8. No setting goes back. *)

\* Each setting is written under one label.
OneLabel == \A v, w \in What : SettingOf[v] = SettingOf[w] /\ SettingOf[v] # NoSetting => v = w

\* Where a holds the ids last applied, command c comes after what it writes over.
After(c, a) == SettingOf[c.what] # NoSetting => a[SettingOf[c.what]] <= c.id

Afters(a) == {c \in Command : After(c, a)}

\* Everything that may still reach the headset is newer than what it has.
InOrder ==
  /\ QueueOrdered(pending, inFlight)
  /\ WireOrdered(wire) /\ WireFirst(wire, pending, inFlight)
  /\ HoldsOnly(pending, inFlight, Afters(applied))
  /\ \A i \in 1 .. Len(wire) : wire[i].type = "DATA" => wire[i].cmd \in Afters(applied)
  /\ \A s \in Setting : applied[s] <= issued

\* A command carried out leaves those behind it new.
LEMMA AfterWrite ==
  ASSUME OneLabel, NEW a \in [Setting -> Nat], NEW c \in Command, NEW d \in Command,
         NotLater(c, d), After(d, a)
  PROVE  After(d, IF SettingOf[c.what] = NoSetting THEN a ELSE [a EXCEPT ![SettingOf[c.what]] = c.id])
<1>1. c.what \in What /\ d.what \in What /\ c.id \in Nat /\ d.id \in Nat
  BY DEF Command
<1>2. SettingOf[c.what] \in Setting \cup {NoSetting} /\ SettingOf[d.what] \in Setting \cup {NoSetting}
  BY <1>1, LinkAssumption DEF LinkAssumption
<1>3. SettingOf[c.what] = SettingOf[d.what] /\ SettingOf[c.what] # NoSetting => c.what = d.what
  BY <1>1 DEF OneLabel
<1> QED BY <1>1, <1>2, <1>3 DEF After, NotLater

\* The values applied are numbers.
LEMMA AppliedIds == HistoryTypes => applied \in [Setting -> Nat]
<1>1. Ids \cup {0} \subseteq Nat
  BY Bounds DEF Ids
<1> QED BY <1>1 DEF HistoryTypes

\* Where the headset carries out nothing.
LEMMA AfterQuiet ==
  ASSUME QInv, QInv', CountersOK, HistoryTypes, issued \in 0 .. MaxIssued, StepKind, WireKind, InOrder, UNCHANGED applied
  PROVE  /\ HoldsOnly(pending', inFlight', Afters(applied'))
         /\ \A i \in 1 .. Len(wire') : wire'[i].type = "DATA" => wire'[i].cmd \in Afters(applied')
         /\ \A s \in Setting : applied'[s] <= issued'
<1> DEFINE C == Afters(applied)
<1>1. \A s \in Setting : applied[s] \in Nat /\ applied[s] <= issued
  BY AppliedIds DEF InOrder
<1>2. issued \in Nat /\ issued' \in Nat /\ issued <= issued'
  <2>1. MaxIssued \in Nat
    BY Bounds
  <2> QED BY <2>1, IssuedGrows
<1>3. \A c \in Command : Issued(c) => c \in C
  <2> TAKE c \in Command
  <2> HAVE Issued(c)
  <2>2. c.id \in issued + 1 .. issued'
    BY <1>2 DEF Issued, Given
  <2>1. SettingOf[c.what] \in Setting \cup {NoSetting}
    BY LinkAssumption DEF LinkAssumption, Command
  <2> QED BY <1>1, <1>2, <2>1, <2>2 DEF Afters, After
<1>4. /\ HoldsOnly(pending, inFlight, C)
      /\ \A i \in 1 .. Len(wire) : wire[i].type = "DATA" => wire[i].cmd \in C
  BY DEF InOrder
<1> HIDE DEF C
<1>5. HoldsOnly(pending', inFlight', C)
  BY <1>3, <1>4, QueueCommands
<1>6. inFlight' # NoCommand => inFlight' \in C /\ inFlight' \in Command
  BY <1>5 DEF HoldsOnly, QInv, QTypeOK
<1>7. \A i \in 1 .. Len(wire') : wire'[i].type = "DATA" => wire'[i].cmd \in C
  BY <1>4, <1>6, WireCommands DEF QInv
<1>8. C = Afters(applied')
  BY DEF C
<1>9. \A s \in Setting : applied'[s] <= issued'
  BY <1>1, <1>2
<1> QED BY <1>5, <1>7, <1>8, <1>9

\* Where it carries out the command at the front of the wire.
LEMMA AfterExecuting ==
  ASSUME OneLabel, QInv, CountersOK, Numbered, HistoryTypes, InOrder,
         WireRead, Head(wire).type = "DATA", Writes(Head(wire).cmd), issued' = issued
  PROVE  /\ HoldsOnly(pending', inFlight', Afters(applied'))
         /\ \A i \in 1 .. Len(wire') : wire'[i].type = "DATA" => wire'[i].cmd \in Afters(applied')
         /\ \A s \in Setting : applied'[s] <= issued'
<1> DEFINE c == Head(wire).cmd
           s == SettingOf[c.what]
           a == IF s = NoSetting THEN applied ELSE [applied EXCEPT ![s] = c.id]
<1>1. wire # <<>> /\ wire' = Tail(wire) /\ UNCHANGED <<pending, inFlight>> /\ wire \in Seq(Frame)
      /\ pending \in Seq(Command) /\ inFlight \in Command \cup {NoCommand}
  BY DEF WireRead, queueVars, QInv, QTypeOK
<1>2. Head(wire) = wire[1] /\ 1 \in 1 .. Len(wire)
  BY <1>1
<1>3. c \in Command /\ c.id \in 1 .. issued /\ s \in Setting \cup {NoSetting}
  BY <1>1, FrontCommand DEF QInv
<1>4. applied' = a /\ applied \in [Setting -> Nat]
  BY AppliedIds DEF Writes
<1>5. Before(c, pending, inFlight)
  BY <1>2 DEF InOrder, WireFirst
<1> HIDE DEF c
<1>6. ASSUME NEW d \in Command, NotLater(c, d), d \in Afters(applied) PROVE d \in Afters(a)
  BY <1>3, <1>4, <1>6, AfterWrite DEF Afters
<1>7. ASSUME NEW d \in Command, Earlier(c, d) PROVE NotLater(c, d)
  BY <1>3, <1>7 DEF Earlier, NotLater, Command
<1> HIDE DEF a, s
<1>8. HoldsOnly(pending, inFlight, Afters(a))
  <2>1. \A i \in 1 .. Len(pending) : pending[i] \in Command
    BY <1>1
  <2> QED BY <1>1, <1>5, <1>6, <1>7, <2>1 DEF InOrder, HoldsOnly, Before
<1>9. \A i \in 1 .. Len(Tail(wire)) : Tail(wire)[i].type = "DATA" => Tail(wire)[i].cmd \in Afters(a)
  <2> TAKE i \in 1 .. Len(Tail(wire))
  <2> HAVE Tail(wire)[i].type = "DATA"
  <2>1. Tail(wire)[i] = wire[i + 1] /\ i + 1 \in 1 .. Len(wire) /\ 1 < i + 1
    BY <1>1
  <2>2. wire[1].type = "DATA" /\ wire[1].cmd = c /\ wire[i + 1].type = "DATA"
    BY <1>2, <2>1 DEF c
  <2>3. NotLater(c, wire[i + 1].cmd)
    BY <1>2, <2>1, <2>2 DEF InOrder, WireOrdered
  <2>4. wire[i + 1].cmd \in Command /\ wire[i + 1].cmd \in Afters(applied)
    BY <2>1, <2>2 DEF Numbered, InOrder
  <2> QED BY <1>6, <2>1, <2>3, <2>4
<1>10. \A t \in Setting : a[t] <= issued
  BY <1>3, <1>4 DEF a, InOrder, CountersOK
<1> QED BY <1>1, <1>4, <1>8, <1>9, <1>10

\* One step.
LEMMA OrderStep ==
  ASSUME OneLabel
  PROVE  QInv /\ QInv' /\ CountersOK /\ Numbered /\ issued \in 0 .. MaxIssued /\ HistoryTypes
           /\ InOrder /\ [Next]_vars => InOrder'
<1> SUFFICES ASSUME QInv, QInv', CountersOK, Numbered, issued \in 0 .. MaxIssued, HistoryTypes,
                    InOrder, [Next]_vars
             PROVE  InOrder'
  OBVIOUS
<1>1. issued <= MaxIssued
  BY Bounds
<1>2. StepKind /\ WireKind /\ HeadsetKind
  BY <1>1, StepKinds, WireKinds, HeadsetKinds
<1>3. QueueOrdered(pending', inFlight')
  BY <1>2, QueueStaysOrdered DEF InOrder
<1>4. WireOrdered(wire') /\ WireFirst(wire', pending', inFlight')
  BY <1>2, <1>3, WireStaysOrdered DEF InOrder
<1>5. CASE UNCHANGED applied
  BY <1>2, <1>3, <1>4, <1>5, AfterQuiet DEF InOrder
<1>6. CASE WireRead /\ Head(wire).type = "DATA" /\ Writes(Head(wire).cmd) /\ issued' = issued
  BY <1>3, <1>4, <1>6, AfterExecuting DEF InOrder
<1>7. CASE HeadsetExecutes
  BY <1>2, <1>5, <1>6, <1>7 DEF HeadsetExecutes, HeadsetKind
<1>8. ASSUME ~HeadsetExecutes PROVE UNCHANGED applied
  BY <1>8, QuietHeadset
<1> QED BY <1>5, <1>7, <1>8

LEMMA OrderInvariant == ASSUME OneLabel PROVE Spec => []InOrder
<1>1. Init => InOrder
  <2> SUFFICES ASSUME Init PROVE InOrder
    OBVIOUS
  <2>1. /\ pending = <<>> /\ inFlight = NoCommand /\ wire = <<>> /\ issued = 0
        /\ applied = [s \in Setting |-> 0]
    BY Zenon DEF Init
  <2>2. Len(pending) = 0 /\ Len(wire) = 0
    BY <2>1
  <2>3. \A s \in Setting : applied[s] <= issued
    BY <2>1
  <2> QED BY <2>1, <2>2, <2>3 DEF InOrder, QueueOrdered, WireOrdered, WireFirst, HoldsOnly
<1> DEFINE N == Numbered /\ issued \in 0 .. MaxIssued
<1>2. QInv /\ QInv' /\ CountersOK /\ N /\ HistoryTypes /\ InOrder /\ [Next]_vars => InOrder'
  BY OrderStep
<1>3. Spec => []N
  BY NumberedInvariant
<1> HIDE DEF N
<1> QED BY <1>1, <1>2, <1>3, LinkQueueInvariant, CountersInvariant, TypesInvariant, PTL DEF Spec

\* Where each setting is written under one label, no retry, late or superseded
\* command takes it back to an older value, however late the ACKs are.
THEOREM LinkNeverGoesBack == ASSUME OneLabel PROVE Spec => SettingNeverGoesBack
<1>1. ASSUME QInv, Numbered, HistoryTypes, InOrder, [Next]_vars, NEW s \in Setting
      PROVE  applied'[s] >= applied[s]
  <2>1. applied \in [Setting -> Nat]
    BY <1>1, AppliedIds
  <2>2. CASE applied' = applied
    BY <2>1, <2>2
  <2>3. CASE WireRead /\ Head(wire).type = "DATA" /\ Writes(Head(wire).cmd)
    <3> DEFINE c == Head(wire).cmd
    <3>1. Head(wire) = wire[1] /\ 1 \in 1 .. Len(wire) /\ wire # <<>>
      BY <1>1, <2>3 DEF WireRead, QInv, QTypeOK
    <3>2. c \in Command /\ SettingOf[c.what] \in Setting \cup {NoSetting}
      BY <1>1, <2>3, <3>1, FrontCommand DEF QInv
    <3>3. After(c, applied)
      BY <1>1, <2>3, <3>1 DEF InOrder, Afters
    <3>4. applied' = IF SettingOf[c.what] = NoSetting THEN applied
                     ELSE [applied EXCEPT ![SettingOf[c.what]] = c.id]
      BY <2>3 DEF Writes
    <3> HIDE DEF c
    <3>5. c.id \in Nat
      BY <3>2 DEF Command
    <3> QED BY <2>1, <3>2, <3>3, <3>4, <3>5 DEF After
  <2> QED BY <1>1, <2>2, <2>3, HeadsetKinds DEF HeadsetKind
<1>2. QInv /\ Numbered /\ HistoryTypes /\ InOrder /\ [Next]_vars
        => [\A s \in Setting : applied'[s] >= applied[s]]_vars
  BY <1>1
<1>3. Spec => []Numbered
  <2> DEFINE N == Numbered /\ issued \in 0 .. MaxIssued
  <2>2. N => Numbered
    OBVIOUS
  <2>3. Spec => []N
    BY NumberedInvariant
  <2> HIDE DEF N
  <2> QED BY <2>2, <2>3, PTL
<1> QED BY <1>2, <1>3, LinkQueueInvariant, TypesInvariant, OrderInvariant, PTL
        DEF Spec, SettingNeverGoesBack

-----------------------------------------------------------------------------
(* 9. The sequence bit, if no ACK is late. *)

\* The ACK under way names the bit the headset expects.
AckNames == acks # <<>> => Head(acks) = expected

\* If no ACK is late, the command the headset reads is the one in flight, and
\* no ACK is under way.
LEMMA ReadsTheCommand ==
  ASSUME QInv, OutstandingNow, HeadsetExecutes
  PROVE  /\ acks = <<>> /\ inFlight # NoCommand /\ Head(wire).cmd = inFlight
         /\ UNCHANGED <<pending, inFlight, discarded>>
<1>1. wire # <<>> /\ Head(wire).type = "DATA" /\ UNCHANGED queueVars /\ UNCHANGED discarded
  BY Zenon DEF HeadsetExecutes, WireRead, InStepFrame
<1>2. Head(wire) = wire[1] /\ 1 \in 1 .. Len(wire)
  BY <1>1 DEF QTypeOK, QInv
<1>3. ~NoData(wire)
  BY <1>1, <1>2 DEF NoData
<1>4. OneData(wire, inFlight) /\ acks = <<>> /\ inFlight # NoCommand
  BY <1>3 DEF OutstandingNow, Outstanding
<1>5. Head(wire).cmd = inFlight
  BY <1>1, <1>2, <1>4 DEF OneData
<1> QED BY <1>1, <1>4, <1>5 DEF queueVars

LEMMA AckNamesStep ==
  ASSUME ~LateAcks
  PROVE  QInv /\ CountersOK /\ OutstandingNow /\ AckNames /\ [Next]_vars => AckNames'
<1> SUFFICES ASSUME QInv, CountersOK, OutstandingNow, AckNames, [Next]_vars PROVE AckNames'
  OBVIOUS
<1>1. ASSUME acks' = <<>> \/ acks' = acks, UNCHANGED expected PROVE AckNames'
  BY <1>1 DEF AckNames
<1>2. ASSUME NEW w \in UserWhat, Issue(w) PROVE AckNames'
  BY <1>1, <1>2, Zenon DEF Issue, AcksSurvive
<1>3. CASE ReceiveData \/ ReceiveAlert \/ Resend \/ GiveUp \/ Disconnect \/ Sigusr1
  BY <1>1, <1>3, Zenon DEF ReceiveData, ReceiveAlert, Resend, GiveUp, Disconnect, Sigusr1, AcksSurvive
<1>4. CASE HeadsetIgnores \/ UNCHANGED vars
  BY <1>1, <1>4 DEF HeadsetIgnores, vars, headsetVars
<1>5. CASE Connect
  BY <1>5 DEF Connect, AckNames
<1>6. CASE ReceiveAck
  <2>1. acks # <<>> /\ UNCHANGED expected /\ (acks' = Tail(acks) \/ acks' = <<>>)
    BY <1>6, Zenon DEF ReceiveAck
  <2>2. Len(acks) = 1 /\ acks \in Seq(Bit)
    BY <2>1 DEF OutstandingNow, Outstanding, CountersOK
  <2>3. Tail(acks) = <<>>
    BY <2>2, TailOfOne
  <2> QED BY <1>1, <2>1, <2>3
<1>7. CASE HeadsetExecutes
  <2>1. wire # <<>> /\ Head(wire).type = "DATA" /\ expected' = 1 - expected
        /\ (acks' = Append(acks, 1 - expected) \/ acks' = acks)
    BY <1>7, Zenon DEF HeadsetExecutes, WireRead, InStepFrame
  <2>2. acks = <<>>
    BY <1>7, ReadsTheCommand
  <2>3. Append(acks, 1 - expected) = <<1 - expected>>
    BY <2>2
  <2> QED BY <2>1, <2>2, <2>3 DEF AckNames
<1> QED BY <1>2, <1>3, <1>4, <1>5, <1>6, <1>7 DEF Next

LEMMA AckNamesInvariant == ASSUME ~LateAcks PROVE Spec => []AckNames
<1>1. Init => AckNames
  BY DEF Init, AckNames
<1> QED BY <1>1, AckNamesStep, LinkQueueInvariant, CountersInvariant, OutstandingInvariant, PTL DEF Spec

\* enqueue() leaves nothing in flight only where nothing was, and then it
\* leaves the sequence bit too.
LEMMA EnqueueSeq ==
  ASSUME QInv, NEW c \in Command, NEW w, Enqueue(c, w), linked', inFlight' = NoCommand
  PROVE  inFlight = NoCommand /\ seq' = seq
<1>1. CASE inFlight' = inFlight /\ seq' = seq
  BY <1>1
<1>2. CASE Pump(Append(pending, c), seq, w)
  <2>1. Append(pending, c) # <<>> /\ Head(Append(pending, c)) \in Command
    <3>1. Append(pending, c) \in Seq(Command) /\ Append(pending, c) # <<>>
      BY DEF QInv, QTypeOK
    <3> QED BY <3>1
  <2>2. Head(Append(pending, c)) # NoCommand
    BY <2>1, CommandIsOne
  <2> QED BY <1>2, <2>1, <2>2 DEF Pump, PumpNothing, DropLink
<1> QED BY <1>1, <1>2 DEF Enqueue, EnqueueCoalesced, EnqueueFull, EnqueueJoins, queueVars

\* A step after which nothing is in flight on an open link, and the last
\* command was acknowledged, agrees on the bit if the step before did.
LEMMA InStepStep ==
  ASSUME ~LateAcks
  PROVE  QInv /\ QInv' /\ CountersOK /\ OutstandingNow /\ AckNames /\ StaysInStep /\ [Next]_vars
           => StaysInStep'
<1> SUFFICES ASSUME QInv, QInv', CountersOK, OutstandingNow, AckNames, StaysInStep, [Next]_vars,
                    linked', inStep', inFlight' = NoCommand, acks' = <<>>
             PROVE  seq' = expected'
  BY DEF StaysInStep
<1>a. ASSUME UNCHANGED <<expected, inStep, acks, seq>>, linked, inFlight = NoCommand
      PROVE  seq' = expected'
  BY <1>a, Zenon DEF StaysInStep
<1>b. ASSUME AcksSurvive PROVE UNCHANGED acks
  BY <1>b, Zenon DEF AcksSurvive
<1>c. ~DropLink
  BY DEF DropLink
<1>1. ASSUME NEW w \in UserWhat, Issue(w) PROVE seq' = expected'
  <2> DEFINE c == [what |-> w, id |-> issued + 1]
  <2>1. c \in Command
    BY LinkAssumption DEF LinkAssumption, CountersOK, Command
  <2>2. AcksSurvive /\ UNCHANGED <<expected, inStep>>
        /\ IF linked THEN Enqueue(c, wire) ELSE UNCHANGED <<queueVars, linkVars>>
    BY <1>1, Zenon DEF Issue
  <2> HIDE DEF c
  <2>3. linked
    BY <2>2 DEF linkVars
  <2>4. inFlight = NoCommand /\ seq' = seq
    BY <2>1, <2>2, <2>3, EnqueueSeq
  <2> QED BY <1>a, <1>b, <2>2, <2>3, <2>4
<1>2. CASE ReceiveAlert
  <2> DEFINE c == [what |-> AlertWhat, id |-> issued + 1]
  <2>1. c \in Command
    BY LinkAssumption DEF LinkAssumption, CountersOK, Command
  <2>2. AcksSurvive /\ UNCHANGED <<expected, inStep>> /\ \E rxSeq \in Bit : OnAlert(rxSeq, c)
    BY <1>2, Zenon DEF ReceiveAlert
  <2> HIDE DEF c
  <2>3. PICK b \in Bit : linked /\ Enqueue(c, Append(wire, AckFrame(b)))
    BY <1>c, <2>2, Zenon DEF OnAlert
  <2>4. inFlight = NoCommand /\ seq' = seq
    BY <2>1, <2>3, EnqueueSeq
  <2> QED BY <1>a, <1>b, <2>2, <2>3, <2>4
<1>3. CASE ReceiveData
  <2>1. AcksSurvive /\ UNCHANGED <<expected, inStep>> /\ linked /\ UNCHANGED queueVars
    BY <1>3, <1>c, Zenon DEF ReceiveData, OnData, OnFrameNotAck
  <2>2. inFlight = NoCommand /\ seq' = seq
    BY <2>1 DEF queueVars
  <2> QED BY <1>a, <1>b, <2>1, <2>2
<1>4. CASE ReceiveAck
  <2>1. UNCHANGED expected /\ acks # <<>> /\ OnAck(Head(acks))
    BY <1>4, Zenon DEF ReceiveAck
  <2>2. CASE Pump(pending, Head(acks), wire)
    <3>1. pending # <<>> => Head(pending) \in Command
      BY DEF QInv, QTypeOK
    <3>2. pending # <<>> => Head(pending) # NoCommand
      BY <3>1, CommandIsOne
    <3>3. seq' = Head(acks)
      BY <1>c, <2>2, <3>2 DEF Pump, PumpNothing
    <3> QED BY <2>1, <3>3 DEF AckNames
  <2>3. CASE seq' = Head(acks)
    BY <2>1, <2>3 DEF AckNames
  <2> QED BY <2>1, <2>2, <2>3 DEF OnAck
<1>5. CASE Resend
  BY <1>5, <1>c DEF Resend, TickResends
<1>6. CASE GiveUp
  BY <1>6, Zenon DEF GiveUp
<1>7. CASE Connect
  <2>1. PICK h \in Handshakes : OnConnected(h)
    BY <1>7, HandshakeOK
  <2>2. ~linked
    BY <2>1, Zenon DEF OnConnected
  <2>3. inFlight' = Head(h)
    BY <2>1, <2>2 DEF OnConnected, linkVars
  <2>4. h \in Seq(Command) /\ h # <<>>
    BY <2>1 DEF Handshakes
  <2>5. Head(h) \in Command
    BY <2>4
  <2> QED BY <2>3, <2>5, CommandIsOne
<1>8. CASE Disconnect \/ Sigusr1
  BY <1>8, <1>c, Zenon DEF Disconnect, Sigusr1, OnSigusr1
<1>9. CASE HeadsetExecutes
  <2>1. inFlight # NoCommand /\ UNCHANGED inFlight
    BY <1>9, ReadsTheCommand
  <2> QED BY <2>1
<1>10. CASE HeadsetIgnores \/ UNCHANGED vars
  <2>1. UNCHANGED <<expected, inStep, acks, seq, linked, inFlight>>
    BY <1>10 DEF HeadsetIgnores, WireRead, queueVars, vars, linkVars, headsetVars, historyVars
  <2>2. linked
    BY <2>1, Zenon
  <2>3. inFlight = NoCommand
    BY <2>1
  <2> QED BY <1>a, <2>1, <2>2, <2>3
<1> QED BY <1>1, <1>2, <1>3, <1>4, <1>5, <1>6, <1>7, <1>8, <1>9, <1>10 DEF Next

\* After an acknowledged command the next goes out with the bit the headset
\* expects, whatever the headset notified in between.
THEOREM LinkStaysInStep == ASSUME ~LateAcks PROVE Spec => []StaysInStep
<1>1. Init => StaysInStep
  BY DEF Init, StaysInStep
<1> QED BY <1>1, InStepStep, LinkQueueInvariant, CountersInvariant, OutstandingInvariant,
           AckNamesInvariant, PTL DEF Spec

-----------------------------------------------------------------------------
(* 10. The queue with its headset implements CommandService. *)

\* The service's list: the command in flight, then those waiting.
Todo(p, f) == (IF f = NoCommand THEN <<>> ELSE <<f>>) \o p

\* Sequences with the same elements are the same.
LEMMA SameSequence ==
  ASSUME NEW S, NEW s \in Seq(S), NEW t \in Seq(S), Len(s) = Len(t),
         \A i \in 1 .. Len(s) : s[i] = t[i]
  PROVE  s = t
OBVIOUS

\* Its elements.
LEMMA TodoIs ==
  ASSUME NEW p \in Seq(Command), NEW f \in Command
  PROVE  /\ Todo(p, NoCommand) = p
         /\ Todo(p, f) \in Seq(Command) /\ Todo(p, f) # <<>>
         /\ Len(Todo(p, f)) = Len(p) + 1 /\ Todo(p, f)[1] = f
         /\ \A i \in 1 .. Len(p) : Todo(p, f)[i + 1] = p[i]
         /\ Head(Todo(p, f)) = f /\ Tail(Todo(p, f)) = p
<1>1. Todo(p, NoCommand) = p
  <2>1. <<>> \o p = p
    OBVIOUS
  <2> QED BY <2>1 DEF Todo
<1> DEFINE t == <<f>> \o p
           n == Len(p)
<1>2. Todo(p, f) = t
  BY CommandIsOne DEF Todo
<1>3. t \in Seq(Command) /\ n \in Nat /\ Len(t) = n + 1 /\ t[1] = f
  OBVIOUS
<1>4. \A i \in 1 .. n : t[i + 1] = p[i]
  OBVIOUS
<1> HIDE DEF t
<1>5. t # <<>> /\ Head(t) = f /\ Tail(t) \in Seq(Command) /\ Len(Tail(t)) = n
      /\ \A i \in 1 .. n : Tail(t)[i] = t[i + 1]
  BY <1>3
<1>6. Tail(t) = p
  BY <1>4, <1>5, SameSequence
<1> QED BY <1>1, <1>2, <1>3, <1>4, <1>5, <1>6

\* What the queue does, seen as the list.
LEMMA TodoJoins ==
  ASSUME NEW p \in Seq(Command), NEW f \in Command, NEW c \in Command
  PROVE  Todo(Append(p, c), f) = Append(Todo(p, f), c)
<1> DEFINE q == Append(p, c)
           s == Todo(q, f)
           r == Todo(p, f)
           t == Append(r, c)
           n == Len(p)
<1>1. q \in Seq(Command) /\ n \in Nat /\ Len(q) = n + 1 /\ q[n + 1] = c /\ \A i \in 1 .. n : q[i] = p[i]
  OBVIOUS
<1>2. /\ s \in Seq(Command) /\ Len(s) = Len(q) + 1 /\ s[1] = f
      /\ \A i \in 1 .. Len(q) : s[i + 1] = q[i]
  BY <1>1, TodoIs
<1>3. /\ r \in Seq(Command) /\ Len(r) = n + 1 /\ r[1] = f
      /\ \A i \in 1 .. n : r[i + 1] = p[i]
  BY TodoIs
<1> HIDE DEF r
<1>4. t \in Seq(Command) /\ Len(t) = Len(r) + 1 /\ t[Len(r) + 1] = c
      /\ \A i \in 1 .. Len(r) : t[i] = r[i]
  BY <1>3
<1> HIDE DEF q, s, t, n
<1>5. \A i \in 1 .. Len(s) : s[i] = t[i]
  <2> TAKE i \in 1 .. Len(s)
  <2>1. CASE i = 1
    BY <1>1, <1>2, <1>3, <1>4, <2>1
  <2>2. CASE i = n + 2
    <3>1. s[(n + 1) + 1] = q[n + 1]
      BY <1>1, <1>2
    <3>2. s[i] = c /\ t[i] = c
      BY <1>1, <1>3, <1>4, <2>2, <3>1
    <3> QED BY <3>2
  <2>3. CASE i # 1 /\ i # n + 2
    <3>1. i - 1 \in 1 .. n /\ i = (i - 1) + 1 /\ i \in 1 .. Len(r)
      BY <1>1, <1>2, <1>3, <2>3
    <3>2. s[(i - 1) + 1] = p[i - 1] /\ r[(i - 1) + 1] = p[i - 1]
      BY <1>1, <1>2, <1>3, <3>1
    <3> QED BY <1>4, <3>1, <3>2
  <2> QED BY <2>1, <2>2, <2>3
<1>6. s = t
  BY <1>1, <1>2, <1>3, <1>4, <1>5, SameSequence
<1> QED BY <1>6 DEF s, t, r, q

LEMMA TodoReplaces ==
  ASSUME NEW p \in Seq(Command), NEW f \in Command, NEW c \in Command, NEW k \in 1 .. Len(p)
  PROVE  /\ k + 1 \in 2 .. Len(Todo(p, f)) /\ Todo(p, f)[k + 1] = p[k]
         /\ Todo([p EXCEPT ![k] = c], f) = [Todo(p, f) EXCEPT ![k + 1] = c]
<1> DEFINE q == [p EXCEPT ![k] = c]
           s == Todo(q, f)
           r == Todo(p, f)
           t == [r EXCEPT ![k + 1] = c]
           n == Len(p)
<1>1. q \in Seq(Command) /\ n \in Nat /\ Len(q) = n /\ q[k] = c
      /\ \A i \in 1 .. n : i # k => q[i] = p[i]
  OBVIOUS
<1>2. /\ s \in Seq(Command) /\ Len(s) = Len(q) + 1 /\ s[1] = f
      /\ \A i \in 1 .. Len(q) : s[i + 1] = q[i]
  BY <1>1, TodoIs
<1>3. /\ r \in Seq(Command) /\ Len(r) = n + 1 /\ r[1] = f
      /\ \A i \in 1 .. n : r[i + 1] = p[i]
  BY TodoIs
<1> HIDE DEF r
<1>4. k + 1 \in 2 .. Len(r) /\ k + 1 \in 1 .. Len(r)
  BY <1>1, <1>3
<1>5. t \in Seq(Command) /\ Len(t) = Len(r) /\ t[k + 1] = c
      /\ \A i \in 1 .. Len(r) : i # k + 1 => t[i] = r[i]
  BY <1>3, <1>4
<1> HIDE DEF q, s, t, n
<1>6. \A i \in 1 .. Len(s) : s[i] = t[i]
  <2> TAKE i \in 1 .. Len(s)
  <2>1. CASE i = 1
    BY <1>1, <1>2, <1>3, <1>4, <1>5, <2>1
  <2>2. CASE i # 1
    <3>1. i - 1 \in 1 .. n /\ i = (i - 1) + 1 /\ i \in 1 .. Len(r)
      BY <1>1, <1>2, <1>3, <2>2
    <3>2. s[(i - 1) + 1] = q[i - 1] /\ r[(i - 1) + 1] = p[i - 1]
      BY <1>1, <1>2, <1>3, <3>1
    <3>3. CASE i - 1 = k
      BY <1>1, <1>5, <3>1, <3>2, <3>3
    <3>4. CASE i - 1 # k
      BY <1>1, <1>5, <3>1, <3>2, <3>4
    <3> QED BY <3>3, <3>4
  <2> QED BY <2>1, <2>2
<1>7. s = t
  BY <1>1, <1>2, <1>3, <1>5, <1>6, SameSequence
<1>8. r[k + 1] = p[k]
  BY <1>3 DEF n
<1> QED BY <1>4, <1>7, <1>8 DEF s, t, r, q

\* The head that goes in flight leaves the list as it was.
LEMMA TodoTurns ==
  ASSUME NEW p \in Seq(Command), p # <<>>
  PROVE  Todo(Tail(p), Head(p)) = p
<1> DEFINE t == Tail(p)
           s == Todo(t, Head(p))
<1>1. Head(p) \in Command /\ t \in Seq(Command) /\ Len(p) = Len(t) + 1 /\ Head(p) = p[1]
      /\ \A i \in 1 .. Len(t) : t[i] = p[i + 1]
  OBVIOUS
<1>2. /\ s \in Seq(Command) /\ Len(s) = Len(t) + 1 /\ s[1] = Head(p)
      /\ \A i \in 1 .. Len(t) : s[i + 1] = t[i]
  BY <1>1, TodoIs
<1> HIDE DEF s, t
<1>3. \A i \in 1 .. Len(s) : s[i] = p[i]
  <2> TAKE i \in 1 .. Len(s)
  <2>1. CASE i = 1
    BY <1>1, <1>2, <2>1
  <2>2. CASE i # 1
    <3>1. i - 1 \in 1 .. Len(t) /\ i = (i - 1) + 1
      BY <1>1, <1>2, <2>2
    <3>2. s[(i - 1) + 1] = p[(i - 1) + 1]
      BY <1>1, <1>2, <3>1
    <3> QED BY <3>1, <3>2
  <2> QED BY <2>1, <2>2
<1>4. s = p
  BY <1>1, <1>2, <1>3, SameSequence
<1> QED BY <1>4 DEF s, t

\* Ids of a sequence, as the service counts them.
IdSet(s) == {s[i].id : i \in 1 .. Len(s)}

LEMMA TodoIds ==
  ASSUME NEW p \in Seq(Command), NEW f \in Command \cup {NoCommand}
  PROVE  IdSet(Todo(p, f)) = QIds(p, f)
<1>1. CASE f = NoCommand
  <2> DEFINE t == Todo(p, f)
  <2>1. t = p
    <3>1. <<>> \o p = p
      OBVIOUS
    <3> QED BY <1>1, <3>1 DEF Todo
  <2> HIDE DEF t
  <2> QED BY <1>1, <2>1 DEF IdSet, QIds, t
<1>2. CASE f # NoCommand
  <2> DEFINE t == Todo(p, f)
  <2>1. f \in Command
    BY <1>2
  <2>2. Len(t) = Len(p) + 1 /\ t[1] = f /\ \A i \in 1 .. Len(p) : t[i + 1] = p[i]
    BY <2>1, TodoIs
  <2>3. QIds(p, f) = {p[i].id : i \in 1 .. Len(p)} \cup {f.id}
    BY <1>2 DEF QIds
  <2> HIDE DEF t
  <2>4. Len(p) \in Nat
    OBVIOUS
  <2>5. ASSUME NEW i \in 1 .. Len(t) PROVE t[i].id \in {p[j].id : j \in 1 .. Len(p)} \cup {f.id}
    <3>1. CASE i = 1
      BY <2>2, <3>1
    <3>2. CASE i # 1
      <4>1. i - 1 \in 1 .. Len(p) /\ i = (i - 1) + 1
        BY <2>2, <2>4, <3>2
      <4>2. t[(i - 1) + 1] = p[i - 1]
        BY <2>2, <4>1
      <4>3. t[i].id = p[i - 1].id
        BY <4>1, <4>2
      <4> HIDE <2>2, <4>2
      <4> QED BY <4>1, <4>3
    <3> QED BY <3>1, <3>2
  <2>6. ASSUME NEW i \in 1 .. Len(p) PROVE p[i].id \in IdSet(t)
    <3>1. i + 1 \in 1 .. Len(t) /\ t[i + 1] = p[i]
      BY <2>2, <2>4
    <3>2. t[i + 1].id \in IdSet(t)
      BY <3>1 DEF IdSet
    <3> QED BY <3>1, <3>2
  <2>7. f.id \in IdSet(t)
    <3>1. 1 \in 1 .. Len(t)
      BY <2>2, <2>4
    <3> QED BY <2>2, <3>1 DEF IdSet
  <2>8. IdSet(t) \subseteq QIds(p, f)
    BY <2>3, <2>5 DEF IdSet
  <2>9. QIds(p, f) \subseteq IdSet(t)
    BY <2>3, <2>6, <2>7
  <2> QED BY <2>8, <2>9 DEF t
<1> QED BY <1>1, <1>2

\* A command that was just given its id, as the service sees it.
LEMMA GivenCommand ==
  ASSUME CountersOK, NEW c \in Command, Given(c)
  PROVE  c \in [what : What, id : Ids]
<1>1. c.id \in Ids
  <2>1. MaxIssued \in Nat /\ issued \in Nat
    BY Bounds DEF CountersOK
  <2> QED BY <2>1 DEF Given, Ids
<1>2. c.what \in What /\ c = [what |-> c.what, id |-> c.id]
  BY DEF Given
<1> QED BY <1>1, <1>2

\* A command issued is accepted, refused or takes another's place.
LEMMA GivenServes ==
  ASSUME QInv, CountersOK, NEW c \in Command, Given(c),
         Refused(c) \/ Joined(c) \/ Replaced(c) \/ Started(c), UNCHANGED executed
  PROVE  Service!Next
<1>a. c \in [what : What, id : Ids]
  BY GivenCommand
<1>b. pending \in Seq(Command) /\ inFlight \in Command \cup {NoCommand}
  BY DEF QInv, QTypeOK
<1>1. CASE Refused(c)
  <2>1. Service!Refuse
    BY <1>a, <1>1, Zenon DEF Refused, Service!Refuse
  <2> QED BY <2>1 DEF Service!Next
<1>2. CASE Joined(c)
  <2>1. Todo(pending', inFlight') = Append(Todo(pending, inFlight), c) /\ discarded' = discarded
    BY <1>b, <1>2, TodoJoins DEF Joined
  <2>2. Service!Accept
    BY <1>a, <2>1 DEF Service!Accept, Todo
  <2> QED BY <2>2 DEF Service!Next
<1>3. CASE Replaced(c)
  <2>1. PICK k \in Waiting(c.what) : /\ pending' = [pending EXCEPT ![k] = c]
                                     /\ discarded' = discarded \cup {pending[k].id}
    BY <1>3 DEF Replaced
  <2>2. k \in 1 .. Len(pending) /\ inFlight \in Command /\ inFlight' = inFlight
    BY <1>b, <1>3, <2>1 DEF Replaced, Waiting
  <2>3. /\ k + 1 \in 2 .. Len(Todo(pending, inFlight))
        /\ Todo(pending, inFlight)[k + 1] = pending[k]
        /\ Todo(pending', inFlight') = [Todo(pending, inFlight) EXCEPT ![k + 1] = c]
    <3>1. /\ k + 1 \in 2 .. Len(Todo(pending, inFlight))
          /\ Todo(pending, inFlight)[k + 1] = pending[k]
          /\ Todo([pending EXCEPT ![k] = c], inFlight) = [Todo(pending, inFlight) EXCEPT ![k + 1] = c]
      BY <1>b, <2>2, TodoReplaces
    <3> QED BY <2>1, <2>2, <3>1, Zenon
  <2>4. discarded' = discarded \cup {Todo(pending, inFlight)[k + 1].id}
    BY <2>1, <2>3
  <2>5. \E i \in 2 .. Len(Todo(pending, inFlight)), d \in [what : What, id : Ids] :
               /\ Todo(pending', inFlight') = [Todo(pending, inFlight) EXCEPT ![i] = d]
               /\ discarded' = discarded \cup {Todo(pending, inFlight)[i].id}
    BY <1>a, <2>3, <2>4, Zenon
  <2>6. Service!Supersede
    BY <2>5, Zenon DEF Service!Supersede, Todo
  <2> QED BY <2>6 DEF Service!Next
<1>4. CASE Started(c)
  <2>1. pending = <<>> /\ pending' = <<>> /\ inFlight = NoCommand /\ inFlight' = c /\ discarded' = discarded
    BY <1>4 DEF Started
  <2>2. Todo(<<>>, NoCommand) = <<>> /\ Todo(<<>>, c) = <<c>> /\ <<c>> = Append(<<>>, c)
    <3>1. <<>> \o <<>> = <<>> /\ <<c>> \o <<>> = <<c>> /\ <<c>> = Append(<<>>, c)
      OBVIOUS
    <3> QED BY <3>1, CommandIsOne DEF Todo
  <2>3. Todo(pending', inFlight') = Append(Todo(pending, inFlight), c)
    BY <2>1, <2>2
  <2>4. Service!Accept
    BY <1>a, <2>1, <2>3 DEF Service!Accept, Todo
  <2> QED BY <2>4 DEF Service!Next
<1> QED BY <1>1, <1>2, <1>3, <1>4

\* The head leaves the list.
LEMMA AdvancedTodo ==
  ASSUME QInv, NEW gone, Advanced(gone)
  PROVE  /\ Todo(pending, inFlight) # <<>> /\ Head(Todo(pending, inFlight)) = inFlight
         /\ Todo(pending', inFlight') = Tail(Todo(pending, inFlight))
<1>1. pending \in Seq(Command) /\ inFlight \in Command
  BY DEF QInv, QTypeOK, Advanced
<1>2. /\ Todo(pending, inFlight) # <<>> /\ Head(Todo(pending, inFlight)) = inFlight
      /\ Tail(Todo(pending, inFlight)) = pending
  BY <1>1, TodoIs
<1>3. CASE pending = <<>> /\ pending' = <<>> /\ inFlight' = NoCommand
  <2>1. Todo(<<>>, NoCommand) = <<>>
    <3>1. <<>> \o <<>> = <<>>
      OBVIOUS
    <3> QED BY <3>1 DEF Todo
  <2> QED BY <1>2, <1>3, <2>1
<1>4. CASE pending # <<>> /\ pending' = Tail(pending) /\ inFlight' = Head(pending)
  <2>1. Todo(pending', inFlight') = pending
    BY <1>1, <1>4, TodoTurns
  <2> QED BY <1>2, <2>1
<1> QED BY <1>3, <1>4 DEF Advanced

\* An ACK retires the head only after it was carried out.
LEMMA RetireServes ==
  ASSUME QInv, inFlight.id \in executed, Advanced({}), UNCHANGED executed
  PROVE  Service!Next
<1>1. /\ Todo(pending, inFlight) # <<>> /\ Head(Todo(pending, inFlight)) = inFlight
      /\ Todo(pending', inFlight') = Tail(Todo(pending, inFlight))
  BY AdvancedTodo
<1>2. discarded' = discarded /\ Head(Todo(pending, inFlight)).id \in executed
  BY <1>1 DEF Advanced
<1>3. Service!Retire
  BY <1>1, <1>2, Zenon DEF Service!Retire, Todo
<1> QED BY <1>3 DEF Service!Next

\* A timeout gives it up.
LEMMA GiveUpServes ==
  ASSUME QInv, Advanced({inFlight.id}), UNCHANGED executed
  PROVE  Service!Next
<1>1. /\ Todo(pending, inFlight) # <<>> /\ Head(Todo(pending, inFlight)) = inFlight
      /\ Todo(pending', inFlight') = Tail(Todo(pending, inFlight))
  BY AdvancedTodo
<1>2. discarded' = discarded \cup {Head(Todo(pending, inFlight)).id}
  BY <1>1 DEF Advanced
<1>3. Service!GiveUp
  BY <1>1, <1>2, Zenon DEF Service!GiveUp, Todo
<1> QED BY <1>3 DEF Service!Next

\* Whatever ends or starts a link starts the list again, and puts all it
\* held on record, but for a head the headset carried out.
LEMMA RestartServes ==
  ASSUME QInv, UNCHANGED executed, discarded \subseteq discarded',
         Todo(pending', inFlight') \in Seq([what : What, id : Ids]),
         IdSet(Todo(pending', inFlight')) \cap QIds(pending, inFlight) = {},
         \/ QIds(pending, inFlight) \subseteq discarded'
         \/ /\ inFlight # NoCommand /\ inFlight.id \in executed
            /\ QIds(pending, NoCommand) \subseteq discarded'
  PROVE  Service!Next
<1>1. pending \in Seq(Command) /\ inFlight \in Command \cup {NoCommand}
  BY DEF QInv, QTypeOK
<1>2. IdSet(Todo(pending, inFlight)) = QIds(pending, inFlight)
  BY <1>1, TodoIds
<1>3. ASSUME inFlight # NoCommand
      PROVE  /\ Todo(pending, inFlight) # <<>> /\ Head(Todo(pending, inFlight)) = inFlight
             /\ IdSet(Tail(Todo(pending, inFlight))) = QIds(pending, NoCommand)
  <2>1. /\ Todo(pending, inFlight) # <<>> /\ Head(Todo(pending, inFlight)) = inFlight
        /\ Tail(Todo(pending, inFlight)) = pending
    BY <1>1, <1>3, TodoIs
  <2>2. IdSet(pending) = QIds(pending, NoCommand)
    BY DEF IdSet, QIds
  <2> QED BY <2>1, <2>2
<1>4. \/ IdSet(Todo(pending, inFlight)) \subseteq discarded'
      \/ /\ Todo(pending, inFlight) # <<>>
         /\ Head(Todo(pending, inFlight)).id \in executed
         /\ IdSet(Tail(Todo(pending, inFlight))) \subseteq discarded'
  BY <1>2, <1>3
<1>5. IdSet(Todo(pending', inFlight')) \cap IdSet(Todo(pending, inFlight)) = {}
  BY <1>2
<1>6. Service!Restart
  BY <1>4, <1>5, Zenon DEF Service!Restart, Service!IdsOf, IdSet, Todo
<1> QED BY <1>6 DEF Service!Next

\* A link that ends leaves an empty list.
LEMMA ClearedServes ==
  ASSUME QInv, UNCHANGED executed, NEW gone, Cleared(gone),
         \/ QIds(pending, inFlight) \subseteq gone
         \/ /\ inFlight # NoCommand /\ inFlight.id \in executed
            /\ QIds(pending, NoCommand) \subseteq gone
  PROVE  Service!Next
<1>1. pending' = <<>> /\ inFlight' = NoCommand /\ discarded' = discarded \cup gone
  BY DEF Cleared
<1>2. Todo(<<>>, NoCommand) = <<>> /\ IdSet(<<>>) = {} /\ <<>> \in Seq([what : What, id : Ids])
  <2>1. <<>> \o <<>> = <<>> /\ Len(<<>>) = 0 /\ 1 .. 0 = {}
    OBVIOUS
  <2>2. IdSet(<<>>) = {}
    BY <2>1 DEF IdSet
  <2>3. ASSUME NEW S PROVE <<>> \in Seq(S)
    OBVIOUS
  <2> QED BY <2>1, <2>2, <2>3 DEF Todo
<1>3. /\ Todo(pending', inFlight') \in Seq([what : What, id : Ids])
      /\ IdSet(Todo(pending', inFlight')) \cap QIds(pending, inFlight) = {}
  BY <1>1, <1>2
<1> QED BY <1>1, <1>3, RestartServes

\* A link that opens leaves the handshake, whose ids are new.
LEMMA OpenedServes ==
  ASSUME QInv, CountersOK, Numbered, UNCHANGED executed, NEW h \in Seq(Command), Opened(h)
  PROVE  Service!Next
<1>1. /\ h # <<>> /\ pending' = Tail(h) /\ inFlight' = Head(h) /\ issued' \in Nat /\ issued' <= MaxIssued
      /\ discarded' = discarded \cup QIds(pending, inFlight)
  BY DEF Opened
<1>2. Todo(pending', inFlight') = h
  BY <1>1, TodoTurns
<1>3. issued \in Nat /\ MaxIssued \in Nat
  BY Bounds DEF CountersOK
<1>4. \A i \in 1 .. Len(h) : h[i].id \in issued + 1 .. issued'
  BY OpenedNew
<1>5. h \in Seq([what : What, id : Ids])
  <2>1. \A i \in 1 .. Len(h) : h[i] \in [what : What, id : Ids]
    <3> TAKE i \in 1 .. Len(h)
    <3>1. h[i] \in Command /\ h[i].id \in Ids
      BY <1>1, <1>3, <1>4 DEF Ids
    <3> QED BY <3>1 DEF Command
  <2>2. ASSUME NEW S, NEW T, NEW s \in Seq(T), \A i \in 1 .. Len(s) : s[i] \in S PROVE s \in Seq(S)
    BY <2>2
  <2> QED BY <2>1, <2>2
<1>6. IdSet(h) \cap QIds(pending, inFlight) = {}
  BY <1>3, <1>4 DEF IdSet, Numbered
<1> QED BY <1>1, <1>2, <1>5, <1>6, RestartServes

\* The headset carries out the head.
LEMMA ExecuteServes ==
  ASSUME QInv, OutstandingNow, HeadsetExecutes
  PROVE  Service!Next
<1>1. /\ inFlight # NoCommand /\ Head(wire).cmd = inFlight
      /\ UNCHANGED <<pending, inFlight, discarded>>
  BY ReadsTheCommand
<1>2. executed' = executed \cup {inFlight.id}
  <2>1. executed' = executed \cup {Head(wire).cmd.id}
    BY Zenon DEF HeadsetExecutes
  <2> QED BY <1>1, <2>1
<1>3. pending \in Seq(Command) /\ inFlight \in Command
  BY <1>1 DEF QInv, QTypeOK
<1>4. Todo(pending, inFlight) # <<>> /\ Head(Todo(pending, inFlight)) = inFlight
  BY <1>3, TodoIs
<1>5. executed' = executed \cup {Head(Todo(pending, inFlight)).id}
      /\ Todo(pending', inFlight') = Todo(pending, inFlight)
  BY <1>1, <1>2, <1>4
<1>6. Service!Execute
  BY <1>1, <1>4, <1>5, Zenon DEF Service!Execute, Todo
<1> QED BY <1>6 DEF Service!Next

\* Every step of the link is a step of the service, or none.
LEMMA ServiceStep ==
  ASSUME ~LateAcks
  PROVE  QInv /\ CountersOK /\ Numbered /\ issued \in 0 .. MaxIssued /\ OutstandingNow /\ [Next]_vars
           => [Service!Next]_(Service!svars)
<1> SUFFICES ASSUME QInv, CountersOK, Numbered, issued \in 0 .. MaxIssued, OutstandingNow, [Next]_vars
             PROVE  [Service!Next]_(Service!svars)
  OBVIOUS
<1>a. ASSUME Stays, UNCHANGED executed PROVE [Service!Next]_(Service!svars)
  BY <1>a DEF Stays, Service!svars
<1>b. QIds(pending, NoCommand) \subseteq QIds(pending, inFlight)
  BY DEF QIds
<1>1. ASSUME NEW w \in UserWhat, Issue(w) PROVE Service!Next
  <2>1. UNCHANGED executed
    BY <1>1, Zenon DEF Issue
  <2>2. PICK c \in Command : Given(c) /\ (Refused(c) \/ Joined(c) \/ Replaced(c) \/ Started(c))
    BY <1>1, IssueKinds, Zenon
  <2> QED BY <2>1, <2>2, GivenServes
<1>2. CASE ReceiveAlert
  <2>1. UNCHANGED executed
    BY <1>2, Zenon DEF ReceiveAlert
  <2>2. PICK c \in Command :
           /\ Given(c)
           /\ \/ Refused(c) \/ Joined(c) \/ Replaced(c) \/ Started(c)
              \/ Cleared(QIds(pending, inFlight) \cup {c.id})
    BY <1>2, AlertKinds, Zenon
  <2>3. CASE Cleared(QIds(pending, inFlight) \cup {c.id})
    BY <2>1, <2>3, ClearedServes
  <2> QED BY <2>1, <2>2, <2>3, GivenServes
<1>3. CASE ReceiveAck
  <2>1. UNCHANGED executed /\ acks # <<>>
    BY <1>3, Zenon DEF ReceiveAck
  <2>2. inFlight # NoCommand /\ inFlight.id \in executed
    BY <2>1 DEF OutstandingNow, Outstanding
  <2>3. CASE Advanced({})
    BY <2>1, <2>2, <2>3, RetireServes
  <2>4. CASE Cleared(QIds(pending, inFlight) \ {inFlight.id})
    <3>1. inFlight.id \notin QIds(pending, NoCommand)
      BY <2>2, IdsInFlight DEF Numbered
    <3>2. QIds(pending, NoCommand) \subseteq QIds(pending, inFlight) \ {inFlight.id}
      BY <1>b, <3>1
    <3> QED BY <2>1, <2>2, <2>4, <3>2, ClearedServes
  <2> QED BY <1>3, <2>2, <2>3, <2>4, AckKinds
<1>4. CASE GiveUp
  <2>1. UNCHANGED executed
    BY <1>4, Zenon DEF GiveUp
  <2>2. CASE Advanced({inFlight.id})
    BY <2>1, <2>2, GiveUpServes
  <2>3. CASE Cleared(QIds(pending, inFlight))
    BY <2>1, <2>3, ClearedServes
  <2> QED BY <1>4, <2>2, <2>3, GiveUpKinds
<1>5. CASE Connect
  <2>1. UNCHANGED executed
    BY <1>5, Zenon DEF Connect
  <2>2. ASSUME NEW h \in Seq(Command), Opened(h) PROVE Service!Next
    BY <2>1, <2>2, OpenedServes
  <2>3. CASE Cleared(QIds(pending, inFlight) \cup (issued + 1 .. issued'))
    BY <2>1, <2>3, ClearedServes
  <2> QED BY <1>5, <2>2, <2>3, ConnectKinds
<1>6. CASE HeadsetExecutes
  BY <1>6, ExecuteServes
<1>7. CASE ReceiveData \/ Resend \/ Disconnect \/ Sigusr1 \/ HeadsetIgnores \/ UNCHANGED vars
  <2>1. UNCHANGED executed
    BY <1>7 DEF ReceiveData, Resend, Disconnect, Sigusr1, HeadsetIgnores, vars, historyVars
  <2>2. Stays \/ Cleared(QIds(pending, inFlight))
    BY <1>7, QuietKinds
  <2>3. CASE Cleared(QIds(pending, inFlight))
    BY <2>1, <2>3, ClearedServes
  <2> QED BY <1>a, <2>1, <2>2, <2>3
<1> QED BY <1>1, <1>2, <1>3, <1>4, <1>5, <1>6, <1>7 DEF Next

\* Ids are numbered in every state.
LEMMA IdsNumbered == Spec => []Numbered
<1> DEFINE N == Numbered /\ issued \in 0 .. MaxIssued
<1>1. N => Numbered
  OBVIOUS
<1>2. Spec => []N
  BY NumberedInvariant
<1> HIDE DEF N
<1> QED BY <1>1, <1>2, PTL

\* The queue with a headset whose ACKs are lost but never late implements the
\* abstract service: commands are carried out one at a time and in order, and
\* leave only carried out or on record.
THEOREM LinkImplementsService == ASSUME ~LateAcks PROVE Spec => ImplementsService
<1>1. Init => Service!Init
  <2> SUFFICES ASSUME Init PROVE Service!Init
    OBVIOUS
  <2>1. pending = <<>> /\ inFlight = NoCommand /\ executed = {} /\ discarded = {}
    BY Zenon DEF Init
  <2>2. <<>> \o <<>> = <<>>
    OBVIOUS
  <2> QED BY <2>1, <2>2 DEF Service!Init
<1> DEFINE N == Numbered /\ issued \in 0 .. MaxIssued
<1>2. QInv /\ CountersOK /\ N /\ OutstandingNow /\ [Next]_vars => [Service!Next]_(Service!svars)
  BY ServiceStep
<1>3. Spec => []N
  BY NumberedInvariant
<1> HIDE DEF N
<1> QED BY <1>1, <1>2, <1>3, LinkQueueInvariant, CountersInvariant, OutstandingInvariant, PTL
        DEF Spec, ImplementsService, Service!ServiceSpec

-----------------------------------------------------------------------------
(* 11. The newest value wins, if no ACK is late. *)

\* Only clients write settings: the handshake queries them (main.cpp:318-341),
\* and the answer to an alert is no setting.
OnlyClientsWrite == /\ SettingOf[AlertWhat] = NoSetting
                    /\ \A i \in 1 .. Len(Handshake) : SettingOf[Handshake[i]] = NoSetting

\* Where r holds the newest command issued for each setting, c is it or older,
\* and is it only for the setting it writes.
Asked(c, r) == /\ SettingOf[c.what] # NoSetting => c.id <= r[SettingOf[c.what]]
               /\ \A s \in Setting : r[s] = c.id => SettingOf[c.what] = s

AskedFor(r) == {c \in Command : Asked(c, r)}

\* A setting whose newest command was carried out has its value.
Newest ==
  /\ executed \subseteq 1 .. issued
  /\ \A s \in Setting : requested[s] \in 0 .. issued
  /\ HoldsOnly(pending, inFlight, AskedFor(requested))
  /\ \A s \in Setting : requested[s] \in executed \cup {0} => applied[s] = requested[s]

\* What requested becomes.
LEMMA RequestedMoves ==
  ASSUME StepKind, HistoryTypes, NEW s \in Setting
  PROVE  \/ requested'[s] = requested[s]
         \/ /\ requested'[s] = issued + 1 /\ issued' = issued + 1
<1>1. requested \in [Setting -> Ids \cup {0}]
  BY DEF HistoryTypes
<1>2. ASSUME NEW c \in Command, Given(c)
      PROVE  \/ requested'[s] = requested[s]
             \/ /\ requested'[s] = issued + 1 /\ issued' = issued + 1
  <2>1. c.id = issued + 1 /\ issued' = issued + 1
    BY <1>2 DEF Given
  <2>2. requested' = requested
        \/ requested' = [requested EXCEPT ![SettingOf[c.what]] = c.id]
    BY <1>2 DEF Given
  <2> QED BY <1>1, <2>1, <2>2
<1> QED BY <1>2 DEF StepKind, Stays, Unasked, Advanced, Opened

\* A command issued in this step is the newest for what it writes.
LEMMA IssuedAsked ==
  ASSUME OnlyClientsWrite, CountersOK, HistoryTypes, issued' \in Nat,
         \A s \in Setting : requested[s] \in 0 .. issued,
         NEW c \in Command, Issued(c)
  PROVE  Asked(c, requested')
<1> DEFINE t == SettingOf[c.what]
<1>1. t \in Setting \cup {NoSetting} /\ issued \in Nat /\ c.id \in Nat /\ NoSetting \notin Setting
  BY LinkAssumption DEF LinkAssumption, Command, CountersOK
<1>2. c.id > issued /\ \A s \in Setting : requested[s] # c.id
  BY <1>1 DEF Issued, Given
<1>3. requested \in [Setting -> Ids \cup {0}]
  BY DEF HistoryTypes
<1>4. \/ t = NoSetting /\ requested' = requested
      \/ t # NoSetting /\ requested' = [requested EXCEPT ![t] = c.id]
  <2>1. CASE requested' = requested /\ c.what = AlertWhat
    BY <2>1 DEF OnlyClientsWrite
  <2>2. CASE requested' = requested /\ \E j \in 1 .. Len(Handshake) : c.what = Handshake[j]
    BY <2>2 DEF OnlyClientsWrite
  <2>3. CASE requested' = IF t = NoSetting THEN requested ELSE [requested EXCEPT ![t] = c.id]
    BY <2>3
  <2> QED BY <2>1, <2>2, <2>3 DEF Issued, Given
<1> HIDE DEF t
<1>5. CASE t = NoSetting /\ requested' = requested
  BY <1>1, <1>2, <1>5 DEF Asked, t
<1>6. CASE t # NoSetting /\ requested' = [requested EXCEPT ![t] = c.id]
  <2>1. t \in Setting /\ requested'[t] = c.id /\ \A s \in Setting : s # t => requested'[s] = requested[s]
    BY <1>1, <1>3, <1>6
  <2>2. \A s \in Setting : requested'[s] = c.id => t = s
    BY <1>2, <2>1
  <2>3. c.id <= requested'[t]
    BY <1>1, <2>1
  <2> QED BY <2>2, <2>3 DEF Asked, t
<1> QED BY <1>4, <1>5, <1>6

\* One that was asked for before stays so.
LEMMA AskedStays ==
  ASSUME StepKind, CountersOK, HistoryTypes, \A s \in Setting : requested[s] \in 0 .. issued,
         NEW c \in Command, c.id <= issued, Asked(c, requested)
  PROVE  Asked(c, requested')
<1>1. c.id \in Nat /\ issued \in Nat /\ SettingOf[c.what] \in Setting \cup {NoSetting}
  BY LinkAssumption DEF LinkAssumption, Command, CountersOK
<1>2. \A s \in Setting : requested'[s] = requested[s] \/ requested'[s] = issued + 1
  BY RequestedMoves
<1>3. SettingOf[c.what] # NoSetting => c.id <= requested'[SettingOf[c.what]]
  BY <1>1, <1>2 DEF Asked
<1>4. \A s \in Setting : requested'[s] = c.id => SettingOf[c.what] = s
  BY <1>1, <1>2 DEF Asked
<1> QED BY <1>3, <1>4 DEF Asked

\* The part of the queue.
LEMMA NewestQueue ==
  ASSUME OnlyClientsWrite, QInv, CountersOK, Numbered, HistoryTypes, Newest, StepKind,
         issued \in 0 .. MaxIssued
  PROVE  /\ \A s \in Setting : requested'[s] \in 0 .. issued'
         /\ HoldsOnly(pending', inFlight', AskedFor(requested'))
<1>1. issued \in Nat /\ issued' \in Nat /\ issued <= issued'
  <2>1. MaxIssued \in Nat
    BY Bounds
  <2> QED BY <2>1, IssuedGrows
<1>2. \A s \in Setting : requested[s] \in 0 .. issued
  BY DEF Newest
<1>3. \A s \in Setting : requested'[s] \in 0 .. issued'
  <2> TAKE s \in Setting
  <2>1. CASE requested'[s] = requested[s]
    BY <1>1, <1>2, <2>1
  <2>2. CASE requested'[s] = issued + 1 /\ issued' = issued + 1
    BY <1>1, <2>2
  <2> QED BY <2>1, <2>2, RequestedMoves
<1> DEFINE C == AskedFor(requested')
<1>4. \A c \in Command : Issued(c) => c \in C
  BY <1>1, <1>2, IssuedAsked DEF AskedFor
<1>5. HoldsOnly(pending, inFlight, C)
  <2>1. ASSUME NEW c \in Command, c.id \in 1 .. issued, c \in AskedFor(requested) PROVE c \in C
    BY <1>1, <1>2, <2>1, AskedStays DEF AskedFor
  <2>2. \A i \in 1 .. Len(pending) : /\ pending[i] \in Command /\ pending[i].id \in 1 .. issued
                                     /\ pending[i] \in AskedFor(requested)
    BY DEF QInv, QTypeOK, Numbered, QIds, Newest, HoldsOnly
  <2>3. inFlight # NoCommand => /\ inFlight \in Command /\ inFlight.id \in 1 .. issued
                                /\ inFlight \in AskedFor(requested)
    BY DEF QInv, QTypeOK, Numbered, QIds, Newest, HoldsOnly
  <2> HIDE DEF C
  <2> QED BY <2>1, <2>2, <2>3 DEF HoldsOnly
<1> HIDE DEF C
<1>6. HoldsOnly(pending', inFlight', C)
  BY <1>4, <1>5, QueueCommands
<1> QED BY <1>3, <1>6 DEF C

\* Where the headset carries out nothing: a newer request was not carried out yet.
LEMMA NewestQuiet ==
  ASSUME CountersOK, HistoryTypes, Newest, StepKind, issued \in 0 .. MaxIssued,
         UNCHANGED <<executed, applied>>
  PROVE  /\ executed' \subseteq 1 .. issued'
         /\ \A s \in Setting : requested'[s] \in executed' \cup {0} => applied'[s] = requested'[s]
<1>1. issued \in Nat /\ issued' \in Nat /\ issued <= issued'
  <2>1. MaxIssued \in Nat
    BY Bounds
  <2> QED BY <2>1, IssuedGrows
<1>2. executed \subseteq 1 .. issued
  BY DEF Newest
<1>3. executed' \subseteq 1 .. issued'
  BY <1>1, <1>2
<1>4. issued + 1 \notin executed \cup {0}
  BY <1>1, <1>2
<1>5. \A s \in Setting : requested'[s] \in executed' \cup {0} => applied'[s] = requested'[s]
  <2> TAKE s \in Setting
  <2> HAVE requested'[s] \in executed' \cup {0}
  <2>1. requested'[s] = requested[s]
    BY <1>4, RequestedMoves
  <2> QED BY <2>1 DEF Newest
<1> QED BY <1>3, <1>5

\* Where it carries out the command in flight: either that is the newest for
\* its setting, or the newest was not carried out yet.
LEMMA NewestExecuting ==
  ASSUME QInv, CountersOK, Numbered, HistoryTypes, Newest, InOrder, OutstandingNow, HeadsetExecutes
  PROVE  Newest'
<1>1. /\ inFlight # NoCommand /\ Head(wire).cmd = inFlight
      /\ UNCHANGED <<pending, inFlight, discarded>>
  BY ReadsTheCommand
<1>2. UNCHANGED <<issued, requested>>
  BY Zenon DEF HeadsetExecutes
<1> DEFINE c == inFlight
           t == SettingOf[c.what]
<1>3. /\ executed' = executed \cup {c.id}
      /\ applied' = IF t = NoSetting THEN applied ELSE [applied EXCEPT ![t] = c.id]
  <2>1. Writes(Head(wire).cmd)
    BY Zenon DEF HeadsetExecutes, Writes
  <2>2. Writes(c)
    BY <1>1, <2>1
  <2> QED BY <2>2 DEF Writes
<1>4. c \in Command /\ c.id \in 1 .. issued /\ issued \in Nat
  BY <1>1 DEF QInv, QTypeOK, Numbered, QIds, CountersOK
<1>5. t \in Setting \cup {NoSetting} /\ NoSetting \notin Setting /\ c.id \in Nat /\ c.id # 0
  BY <1>4, LinkAssumption DEF LinkAssumption, Command
<1>6. Asked(c, requested) /\ After(c, applied)
  BY <1>1 DEF Newest, InOrder, HoldsOnly, AskedFor, Afters
<1>7. applied \in [Setting -> Nat]
  BY AppliedIds
<1> HIDE DEF c, t
<1>8. executed' \subseteq 1 .. issued'
  BY <1>2, <1>3, <1>4 DEF Newest
<1>9. \A s \in Setting : requested[s] \in executed' \cup {0} => applied'[s] = requested[s]
  <2> TAKE s \in Setting
  <2> HAVE requested[s] \in executed' \cup {0}
  <2>1. CASE requested[s] = c.id
    <3>1. t = s
      BY <1>6, <2>1 DEF Asked, t
    <3> QED BY <1>3, <1>5, <1>7, <2>1, <3>1
  <2>2. CASE requested[s] # c.id
    <3>1. applied[s] = requested[s]
      BY <1>3, <2>2 DEF Newest
    <3>2. CASE t = s
      <4>1. c.id <= requested[s] /\ applied[s] <= c.id
        BY <1>5, <1>6, <3>2 DEF Asked, After, t
      <4>2. applied[s] \in Nat
        BY <1>7
      <4> QED BY <1>5, <2>2, <3>1, <4>1, <4>2
    <3>3. CASE t # s
      BY <1>3, <1>5, <1>7, <3>1, <3>3
    <3> QED BY <3>2, <3>3
  <2> QED BY <2>1, <2>2
<1> QED BY <1>1, <1>2, <1>8, <1>9 DEF Newest

\* One step.
LEMMA NewestStep ==
  ASSUME OnlyClientsWrite
  PROVE  QInv /\ CountersOK /\ Numbered /\ issued \in 0 .. MaxIssued /\ HistoryTypes /\ InOrder
           /\ OutstandingNow /\ Newest /\ [Next]_vars => Newest'
<1> SUFFICES ASSUME QInv, CountersOK, Numbered, issued \in 0 .. MaxIssued, HistoryTypes, InOrder,
                    OutstandingNow, Newest, [Next]_vars
             PROVE  Newest'
  OBVIOUS
<1>1. issued <= MaxIssued
  BY Bounds
<1>2. StepKind
  BY <1>1, StepKinds
<1>3. CASE UNCHANGED <<executed, applied>>
  BY <1>2, <1>3, NewestQueue, NewestQuiet DEF Newest
<1>4. CASE HeadsetExecutes
  BY <1>4, NewestExecuting
<1>5. ASSUME ~HeadsetExecutes PROVE UNCHANGED <<executed, applied>>
  BY <1>5, QuietHeadset
<1> QED BY <1>3, <1>4, <1>5

LEMMA NewestInvariant == ASSUME ~LateAcks, OneLabel, OnlyClientsWrite PROVE Spec => []Newest
<1>1. Init => Newest
  <2> SUFFICES ASSUME Init PROVE Newest
    OBVIOUS
  <2>1. /\ pending = <<>> /\ inFlight = NoCommand /\ issued = 0 /\ executed = {}
        /\ applied = [s \in Setting |-> 0] /\ requested = [s \in Setting |-> 0]
    BY Zenon DEF Init
  <2>2. Len(pending) = 0
    BY <2>1
  <2> QED BY <2>1, <2>2 DEF Newest, HoldsOnly
<1> DEFINE N == Numbered /\ issued \in 0 .. MaxIssued
<1>2. QInv /\ CountersOK /\ N /\ HistoryTypes /\ InOrder /\ OutstandingNow /\ Newest /\ [Next]_vars
        => Newest'
  BY NewestStep
<1>3. Spec => []N
  BY NumberedInvariant
<1>4. Spec => []InOrder
  BY OrderInvariant
<1>5. Spec => []OutstandingNow
  BY OutstandingInvariant
<1> HIDE DEF N
<1> QED BY <1>1, <1>2, <1>3, <1>4, <1>5, LinkQueueInvariant, CountersInvariant, TypesInvariant, PTL
        DEF Spec

\* Once the queue is empty, each setting has the newest value asked for, unless
\* that command was discarded on record: the newest value wins.
THEOREM LinkNewestValueWins ==
  ASSUME ~LateAcks, OneLabel, OnlyClientsWrite
  PROVE  Spec => []NewestValueWins
<1>1. ASSUME QInv, Newest, Accounted, CountersOK PROVE NewestValueWins
  <2> SUFFICES ASSUME inFlight = NoCommand, NEW s \in Setting
               PROVE  requested[s] \in discarded \/ applied[s] = requested[s]
    BY DEF NewestValueWins
  <2>1. pending = <<>>
    BY <1>1 DEF QInv, NoStall
  <2>2. QueuedIds = {}
    BY <2>1, QueuedIdsAre, IdsEmpty
  <2>3. requested[s] \in 0 .. issued /\ issued \in Nat
    BY <1>1 DEF Newest, CountersOK
  <2>4. CASE requested[s] \in executed \cup {0}
    BY <1>1, <2>4 DEF Newest
  <2>5. CASE requested[s] # 0 /\ requested[s] \notin executed
    <3>1. requested[s] \in 1 .. issued
      BY <2>3, <2>5
    <3> QED BY <1>1, <2>2, <2>5, <3>1 DEF Accounted
  <2> QED BY <2>4, <2>5
<1>2. QInv /\ Newest /\ Accounted /\ CountersOK => NewestValueWins
  BY <1>1
<1> QED BY <1>2, NewestInvariant, AccountedInvariant, LinkQueueInvariant, CountersInvariant, PTL
==============================================================================
