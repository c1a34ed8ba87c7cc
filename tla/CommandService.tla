--------------------------- MODULE CommandService ---------------------------
(***************************************************************************)
(* What the control channel promises the daemon: commands are carried out  *)
(* by the headset one at a time, in the order they wait, each at least     *)
(* once, and a command leaves the list only after it was carried out or by *)
(* being given up on record.  How the link achieves it (sequence bits,     *)
(* ACKs, timeouts) is not visible here.                                    *)
(***************************************************************************)
EXTENDS Naturals, Sequences

CONSTANT Command     \* records with a field id

VARIABLES
  todo,        \* commands accepted and not yet settled, oldest first
  executed,    \* ids the headset has carried out at least once
  abandoned    \* ids refused, superseded, timed out or lost with the link

svars == <<todo, executed, abandoned>>

IdsOf(s) == {s[i].id : i \in 1 .. Len(s)}

Init == todo = <<>> /\ executed = {} /\ abandoned = {}

Accept == /\ \E c \in Command : todo' = Append(todo, c)
          /\ UNCHANGED <<executed, abandoned>>

\* The list is full, or there is no link.
Refuse == /\ \E c \in Command : abandoned' = abandoned \cup {c.id}
          /\ UNCHANGED <<todo, executed>>

\* A waiting command, never the head, is superseded where it stands.
Supersede == \E i \in 2 .. Len(todo), c \in Command :
               /\ todo' = [todo EXCEPT ![i] = c]
               /\ abandoned' = abandoned \cup {todo[i].id}
               /\ UNCHANGED executed

\* The headset carries out the head, possibly not for the first time.
Execute == /\ todo # <<>>
           /\ executed' = executed \cup {Head(todo).id}
           /\ UNCHANGED <<todo, abandoned>>

\* The head is finished with because it was carried out ...
Retire == /\ todo # <<>>
          /\ Head(todo).id \in executed
          /\ todo' = Tail(todo)
          /\ UNCHANGED <<executed, abandoned>>

\* ... or is given up.
GiveUp == /\ todo # <<>>
          /\ todo' = Tail(todo)
          /\ abandoned' = abandoned \cup {Head(todo).id}
          /\ UNCHANGED executed

\* The link comes or goes: the list starts again without any of its commands,
\* which are all abandoned but for a head that was carried out.
Restart == /\ todo' \in Seq(Command)
           /\ IdsOf(todo') \cap IdsOf(todo) = {}
           /\ abandoned \subseteq abandoned'
           /\ \/ IdsOf(todo) \subseteq abandoned'
              \/ /\ todo # <<>>
                 /\ Head(todo).id \in executed
                 /\ IdsOf(Tail(todo)) \subseteq abandoned'
           /\ UNCHANGED executed

Next == \/ Accept \/ Refuse \/ Supersede \/ Execute
        \/ Retire \/ GiveUp \/ Restart

ServiceSpec == Init /\ [][Next]_svars

=============================================================================
