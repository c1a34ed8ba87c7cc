---------------------------- MODULE DeployProofs ----------------------------
(***************************************************************************)
(* What puts and removes keep true, for any number of them at once, any    *)
(* lists of names, depth and size, whatever other programs do and whatever *)
(* fails: that installed files are whole at every moment; types; that an   *)
(* invocation changes only what it was given; and that a put's exit status *)
(* tells the truth.                                                        *)
(***************************************************************************)
EXTENDS Deploy, FiniteSetTheorems, TLAPS

Places == {"idle", "ended", "walk", "mkdir", "reopen", "look", "list", "stat", "create", "copy",
           "chmod", "fsync", "rename", "unlink"}
Entries == {None, Other("dir"), Other("link")} \cup {File(i) : i \in Ids}
Inodes  == [chunks : Nat, mode : BOOLEAN, synced : BOOLEAN]

Types ==
  /\ pc \in [Procs -> Places]
  /\ entries \in [Keys -> Entries]
  /\ inodes \in [Ids -> Inodes]
  /\ todo = [p \in Procs |-> todo[p]]
  /\ \A p \in Putters : todo[p] \in Seq(Names) /\ IsInjective(todo[p])
                        /\ (pc[p] # "ended" => todo[p] # <<>>)

\* The inode an invocation writes next, and those it will, are no target's yet.
NotYet ==
  \A p \in Putters, m \in Names : \A n \in ToSet(todo[p]) : entries[Plain(m)] # File(<<p, n>>)

\* Under its temporary name an invocation finds its own file or nothing.
OwnTemps ==
  \A p \in Putters, n \in Names : entries[Temp(n, p)] \in {None, File(<<p, n>>)}

\* How far the file in hand is: what chmod(), fsync() and rename() build on.
Stage ==
  \A p \in Putters :
    LET file == inodes[<<p, Head(todo[p])>>]
    IN /\ pc[p] \in {"chmod", "fsync", "rename"} => file.chunks = Chunks
       /\ pc[p] \in {"fsync", "rename"} => file.mode
       /\ pc[p] = "rename" => file.synced

\* What is not an invocation's to write is whole and on the disk, and so is
\* every target: without the latter a power loss could empty one.
OthersWhole == \A i \in Ids : i[1] \notin Putters => inodes[i] = Whole
TargetsSafe ==
  \A n \in Names, i \in Ids : entries[Plain(n)] = File(i) => inodes[i] = Whole

Inv == Types /\ NotYet /\ OwnTemps /\ Stage /\ OthersWhole /\ TargetsSafe

-----------------------------------------------------------------------------
(* The rest of what is kept true, for the types and the exit status. *)

Statuses == {-2, -1, 0, 1, 3}
Early   == {"idle", "walk", "mkdir", "reopen", "look"}
Writing == {"copy", "chmod", "fsync", "rename"}

\* What an invocation has open was a directory; a walk is not done before it is.
Walks ==
  /\ status \in [Procs -> Statuses] /\ \A p \in Procs : status[p] # -1 <=> pc[p] = "ended"
  /\ made \in Nat /\ Home + Depth <= made
  /\ level \in [Procs -> 0 .. Depth]
  /\ held \in [Procs -> Home .. made]
  /\ parent \in [Procs -> {Absent} \cup (Home .. made)]
  /\ dirs \in [0 .. Depth -> {Absent, Link} \cup (Home .. made)]
  /\ dirs[Depth] \in {Absent, Link} => entries = Empty
  /\ \A p \in Procs : pc[p] \in {"idle", "walk", "mkdir", "reopen"} => level[p] < Depth
  /\ \A i \in Ids : inodes[i].chunks <= Chunks

Counts == acts \in Nat /\ faults \in Nat

\* What is placed and what is still to be are the names given; a remove has
\* names it was given and names its patterns match.
Lists ==
  /\ placed = [p \in Putters |-> placed[p]]
  /\ \A p \in Putters : placed[p] \cup ToSet(todo[p]) = ToSet(List[p])
  /\ \A r \in Removers : /\ todo[r] \in Seq(ToSet(List[r]) \cup Prefixed[r])
                         /\ pc[r] \in {"idle", "ended", "walk", "list", "stat", "unlink"}
                         /\ pc[r] = "unlink" => todo[r] # <<>>

\* A put has its temporary while it writes, and leaves none when it succeeds or
\* does nothing; only installed files are ever their own sources.
Tidy(p) ==
  /\ pc[p] \in Early \cup {"stat", "create"} \/ status[p] \in {0, 3} =>
       \A n \in Names : entries[Temp(n, p)] = None
  /\ pc[p] \in Writing => \A n \in Names \ {Head(todo[p])} : entries[Temp(n, p)] = None
  /\ pc[p] \in Early => placed[p] = {}
  /\ p \notin InPlace => \A n \in ToSet(List[p]) : src[p][n] = Elsewhere(n)
  /\ status[p] = 0 => placed[p] = ToSet(List[p]) \/ (placed[p] = {} /\ p \in InPlace)
  /\ status[p] = 3 => placed[p] = {} /\ p \in UnlessGit
NoSources == \A m, n \in Names : entries[Plain(m)] # File(Elsewhere(n))

\* As long as nothing fails and nobody else meddles, each directory that was
\* opened stays, no target is a directory and each temporary stays in place.
Unhindered ==
  Calm =>
    /\ \A l \in 0 .. Depth : dirs[l] # Link
    /\ \A m \in Names : entries[Plain(m)].kind # "dir"
    /\ \A p \in Putters :
         /\ held[p] = dirs[level[p]]
         /\ pc[p] = "reopen" => dirs[level[p] + 1] # Absent
         /\ pc[p] \in {"look", "stat", "create"} \cup Writing => level[p] = Depth
         /\ pc[p] \in Writing => entries[Temp(Head(todo[p]), p)] # None
         /\ status[p] # 1

-----------------------------------------------------------------------------
(* Facts about data. *)

\* Taking the first of a sequence without repeats.
LEMMA TailFacts ==
  ASSUME NEW S, NEW s \in Seq(S), s # <<>>, IsInjective(s)
  PROVE  /\ Tail(s) \in Seq(S) /\ IsInjective(Tail(s))
         /\ Head(s) \in S /\ Head(s) \in ToSet(s)
         /\ \A n \in ToSet(Tail(s)) : n \in ToSet(s) /\ n # Head(s)
<1>1. Len(s) \in Nat \ {0} /\ DOMAIN s = 1 .. Len(s) /\ Head(s) = s[1]
  OBVIOUS
<1>2. Tail(s) \in Seq(S) /\ Head(s) \in S
  OBVIOUS
<1>3. DOMAIN Tail(s) = 1 .. Len(s) - 1 /\ \A i \in 1 .. Len(s) - 1 : Tail(s)[i] = s[i + 1]
  OBVIOUS
<1>4. IsInjective(Tail(s))
  BY <1>1, <1>3 DEF IsInjective
<1>5. Head(s) \in ToSet(s)
  BY <1>1 DEF ToSet
<1>6. ASSUME NEW n \in ToSet(Tail(s)) PROVE n \in ToSet(s) /\ n # Head(s)
  <2>1. PICK i \in 1 .. Len(s) - 1 : n = s[i + 1]
    BY <1>3 DEF ToSet
  <2>2. i + 1 \in DOMAIN s /\ 1 \in DOMAIN s /\ i + 1 # 1
    BY <1>1
  <2> QED BY <1>1, <2>1, <2>2 DEF ToSet, IsInjective
<1> QED BY <1>2, <1>4, <1>5, <1>6

\* An entry is a file exactly when it is File of some inode, and of one only.
LEMMA EntryFacts ==
  /\ \A i \in Ids : File(i).kind = "file" /\ File(i).ino = i /\ File(i) \in Entries
  /\ \A e \in Entries : e.kind = "file" => e.ino \in Ids /\ e = File(e.ino)
  /\ \A i, j : File(i) = File(j) <=> i = j
  /\ \A i : File(i) # None /\ File(i) # Other("dir") /\ File(i) # Other("link")
<1>1. \A i : File(i).kind = "file" /\ File(i).ino = i
  BY DEF File
<1>2. None.kind = "none" /\ Other("dir").kind = "dir" /\ Other("link").kind = "link"
  BY DEF None, Other
<1>3. \A i \in Ids : File(i) \in Entries
  BY DEF Entries
<1>4. ASSUME NEW e \in Entries, e.kind = "file" PROVE e.ino \in Ids /\ e = File(e.ino)
  <2>1. e # None /\ e # Other("dir") /\ e # Other("link")
    BY <1>2, <1>4
  <2>2. PICK i \in Ids : e = File(i)
    BY <2>1 DEF Entries
  <2> QED BY <1>1, <2>2
<1>5. \A i, j : File(i) = File(j) <=> i = j
  <2> SUFFICES ASSUME NEW i, NEW j, File(i) = File(j) PROVE i = j
    OBVIOUS
  <2> QED BY <1>1
<1>6. \A i : File(i) # None /\ File(i) # Other("dir") /\ File(i) # Other("link")
  <2> SUFFICES ASSUME NEW i PROVE File(i) # None /\ File(i) # Other("dir") /\ File(i) # Other("link")
    OBVIOUS
  <2> QED BY <1>1, <1>2
<1> QED BY <1>1, <1>3, <1>4, <1>5, <1>6

\* The names of targets and temporaries, of all invocations, are different, and
\* the inodes of the user's and the older files are no invocation's.
LEMMA NameFacts ==
  /\ \A n \in Names, p \in Putters : /\ Temp(n, p) \in Keys /\ <<p, n>> \in Ids
                                     /\ \A m : Temp(n, p) # Plain(m)
  /\ \A n \in Names : Plain(n) \in Keys /\ Theirs(n) \in Ids /\ Installed(n) \in Ids
  /\ \A n : Theirs(n)[1] \notin Putters /\ Installed(n)[1] \notin Putters
  /\ \A m, n : Plain(m) = Plain(n) <=> m = n
  /\ \A n, m, p, q : Temp(n, p) = Temp(m, q) <=> n = m /\ p = q
  /\ Git \in Keys
<1>1. "" \notin Putters /\ "user" \notin Putters /\ "old" \notin Putters
  BY DeployAssumption
<1>2. \A n, m, p, q : Temp(n, p) = Temp(m, q) <=> n = m /\ p = q
  BY DEF Temp
<1>3. \A m, n : Plain(m) = Plain(n) <=> m = n
  BY DEF Plain
<1>4. \A n \in Names, p \in Putters : Temp(n, p) \in Keys /\ <<p, n>> \in Ids
  BY DEF Temp, Keys, Ids
<1>5. \A n \in Names, p \in Putters : \A m : Temp(n, p) # Plain(m)
  BY <1>1 DEF Temp, Plain
<1>6. \A n \in Names : Plain(n) \in Keys
  BY DEF Keys
<1>7. \A n \in Names : Theirs(n) \in Ids /\ Installed(n) \in Ids
  BY DEF Ids, Theirs, Installed
<1>8. \A n : Theirs(n)[1] \notin Putters /\ Installed(n)[1] \notin Putters
  BY <1>1 DEF Theirs, Installed
<1> QED BY <1>2, <1>3, <1>4, <1>5, <1>6, <1>7, <1>8 DEF Keys

-----------------------------------------------------------------------------

\* What is installed before the first invocation (deploy.cpp, main) is whole.
LEMMA Starts == Init => Inv
<1> SUFFICES ASSUME Init PROVE Inv
  OBVIOUS
<1>1. \A k \in Keys : \/ entries[k] = None
                      \/ \E n \in Given : k = Plain(n) /\ entries[k] = File(Installed(n))
  <2> SUFFICES ASSUME NEW k \in Keys, entries[k] # None
               PROVE  \E n \in Given : k = Plain(n) /\ entries[k] = File(Installed(n))
    OBVIOUS
  <2>1. k \in {Plain(n) : n \in Given} /\ entries[k] = File(Installed(k[1]))
    BY DEF Init
  <2>2. PICK n \in Given : k = Plain(n)
    BY <2>1
  <2>3. k[1] = n
    BY <2>2 DEF Plain
  <2> QED BY <2>1, <2>2, <2>3
<1>2. Given \subseteq Names
  BY DEF Names
<1>3. Types
  <2>1. pc \in [Procs -> Places]
    BY DEF Init, Places
  <2>2. entries \in [Keys -> Entries]
    <3>1. \A k \in Keys : entries[k] \in Entries
      BY <1>1, <1>2, NameFacts, EntryFacts DEF Entries
    <3>2. DOMAIN entries = Keys /\ entries = [k \in Keys |-> entries[k]]
      BY DEF Init
    <3> QED BY <3>1, <3>2
  <2>3. inodes \in [Ids -> Inodes]
    BY DeployAssumption DEF Init, Inodes, Whole
  <2>4. todo = [p \in Procs |-> todo[p]]
    BY DeployAssumption DEF Init
  <2>5. \A p \in Putters : todo[p] \in Seq(Names) /\ IsInjective(todo[p]) /\ todo[p] # <<>>
    <3> SUFFICES ASSUME NEW p \in Putters
                 PROVE  todo[p] \in Seq(Names) /\ IsInjective(todo[p]) /\ todo[p] # <<>>
      OBVIOUS
    <3>1. p \in Procs
      BY DEF Procs
    <3>2. List[p] \in Seq(Given) /\ IsInjective(List[p]) /\ List[p] # <<>>
      BY <3>1, DeployAssumption
    <3>3. List[p] \in Seq(Names)
      BY <3>2, <1>2
    <3> QED BY <3>2, <3>3 DEF Init
  <2> QED BY <2>1, <2>2, <2>3, <2>4, <2>5 DEF Types
<1>4. NotYet
  <2> SUFFICES ASSUME NEW p \in Putters, NEW m \in Names, NEW n, entries[Plain(m)] = File(<<p, n>>)
               PROVE  FALSE
    BY DEF NotYet
  <2>1. PICK k \in Given : entries[Plain(m)] = File(Installed(k))
    BY <1>1, NameFacts, EntryFacts
  <2>2. <<p, n>> = Installed(k)
    BY <2>1, EntryFacts
  <2>3. <<p, n>>[1] = p
    OBVIOUS
  <2> QED BY <2>2, <2>3, NameFacts
<1>5. OwnTemps
  <2> SUFFICES ASSUME NEW p \in Putters, NEW n \in Names
               PROVE  entries[Temp(n, p)] \in {None, File(<<p, n>>)}
    BY DEF OwnTemps
  <2>1. Temp(n, p) \in Keys /\ \A m : Temp(n, p) # Plain(m)
    BY NameFacts
  <2> QED BY <1>1, <2>1
<1>6. Stage
  BY DEF Stage, Init, Procs
<1>7. OthersWhole
  BY DEF OthersWhole, Init
<1>8. TargetsSafe
  <2> SUFFICES ASSUME NEW n \in Names, NEW i \in Ids, entries[Plain(n)] = File(i)
               PROVE  inodes[i] = Whole
    BY DEF TargetsSafe
  <2>1. PICK k \in Given : i = Installed(k)
    BY <1>1, NameFacts, EntryFacts
  <2> QED BY <2>1, <1>7, NameFacts DEF OthersWhole
<1> QED BY <1>3, <1>4, <1>5, <1>6, <1>7, <1>8 DEF Inv

-----------------------------------------------------------------------------
(* Steps. *)

\* Invocations that move do so to where nothing is known of the file in hand.
Late == {"chmod", "fsync", "rename"}
Moves ==
  /\ pc' \in [Procs -> Places]
  /\ \A q \in Putters : pc'[q] = pc[q] \/ (pc[q] # "ended" /\ pc'[q] \notin Late)
SameTodo ==
  /\ todo' = [q \in Procs |-> todo'[q]]
  /\ \A q \in Putters : todo'[q] = todo[q]

\* Going on, and ending, are such moves.
LEMMA MoveFacts ==
  ASSUME Types, NEW p \in Procs, pc[p] # "ended",
         \/ \E w \in Places \ Late : Goes(p, w)
         \/ \E s : Exits(p, s)
  PROVE  Moves
<1>1. PICK w \in Places \ Late : pc' = [pc EXCEPT ![p] = w]
  <2>1. "ended" \in Places \ Late
    BY DEF Places, Late
  <2> QED BY <2>1 DEF Goes, Exits
<1>2. pc \in [Procs -> Places]
  BY DEF Types
<1>3. pc' \in [Procs -> Places]
  BY <1>1, <1>2
<1>4. ASSUME NEW q \in Putters PROVE pc'[q] = pc[q] \/ (pc[q] # "ended" /\ pc'[q] \notin Late)
  <2>1. q \in Procs
    BY DEF Procs
  <2>2. CASE q = p
    BY <1>1, <1>2, <2>2
  <2>3. CASE q # p
    BY <1>1, <1>2, <2>1, <2>3
  <2> QED BY <2>2, <2>3
<1> QED BY <1>3, <1>4 DEF Moves

\* A step that changes no file keeps the invariant when each entry it changes
\* under a plain name becomes no invocation's file, and under a temporary name
\* is taken away or becomes that invocation's.
LEMMA EntriesStep ==
  ASSUME Inv, Moves, SameTodo, inodes' = inodes, entries' \in [Keys -> Entries],
         \A m \in Names : \/ entries'[Plain(m)] = entries[Plain(m)]
                          \/ \A i : entries'[Plain(m)] # File(i)
                          \/ \E i \in Ids : i[1] \notin Putters /\ entries'[Plain(m)] = File(i),
         \A q \in Putters, n \in Names :
            entries'[Temp(n, q)] \in {entries[Temp(n, q)], None, File(<<q, n>>)}
  PROVE  Inv'
<1>1. Types'
  BY DEF Inv, Types, Moves, SameTodo
<1>2. NotYet'
  <2> SUFFICES ASSUME NEW p \in Putters, NEW m \in Names, NEW n \in ToSet(todo[p]),
                      entries'[Plain(m)] = File(<<p, n>>)
               PROVE  FALSE
    BY DEF NotYet, SameTodo
  <2>1. entries[Plain(m)] # File(<<p, n>>)
    BY DEF Inv, NotYet
  <2>2. PICK i \in Ids : i[1] \notin Putters /\ entries'[Plain(m)] = File(i)
    BY <2>1
  <2>3. i = <<p, n>> /\ <<p, n>>[1] = p
    BY <2>2, EntryFacts
  <2> QED BY <2>2, <2>3
<1>3. OwnTemps'
  BY DEF Inv, OwnTemps
<1>4. Stage'
  <2> SUFFICES ASSUME NEW p \in Putters, pc'[p] \in Late
               PROVE  LET file == inodes[<<p, Head(todo[p])>>]
                      IN /\ pc'[p] \in {"chmod", "fsync", "rename"} => file.chunks = Chunks
                         /\ pc'[p] \in {"fsync", "rename"} => file.mode
                         /\ pc'[p] = "rename" => file.synced
    BY DEF Stage, Late, SameTodo
  <2>1. pc'[p] = pc[p]
    BY DEF Moves
  <2> QED BY <2>1 DEF Inv, Stage
<1>5. OthersWhole'
  BY DEF Inv, OthersWhole
<1>6. TargetsSafe'
  <2> SUFFICES ASSUME NEW n \in Names, NEW i \in Ids, entries'[Plain(n)] = File(i)
               PROVE  inodes[i] = Whole
    BY DEF TargetsSafe, Whole
  <2>1. CASE entries'[Plain(n)] = entries[Plain(n)]
    BY <2>1 DEF Inv, TargetsSafe
  <2>2. CASE \E j \in Ids : j[1] \notin Putters /\ entries'[Plain(n)] = File(j)
    <3>1. PICK j \in Ids : j[1] \notin Putters /\ entries'[Plain(n)] = File(j)
      BY <2>2
    <3>2. i = j
      BY <3>1, EntryFacts
    <3> QED BY <3>1, <3>2 DEF Inv, OthersWhole
  <2> QED BY <2>1, <2>2
<1> QED BY <1>1, <1>2, <1>3, <1>4, <1>5, <1>6 DEF Inv

\* In particular an invocation that changes neither files nor entries.
LEMMA QuietStep ==
  ASSUME Inv, Moves, SameTodo, inodes' = inodes, entries' = entries
  PROVE  Inv'
<1>1. entries' \in [Keys -> Entries]
  BY DEF Inv, Types
<1> QED BY <1>1, EntriesStep

\* A step that writes the file in hand keeps the invariant when the next call
\* is made only of a file that is as far.
LEMMA FileStep ==
  ASSUME Inv, NEW p \in Putters, pc[p] # "ended", UNCHANGED <<entries, todo>>,
         NEW f \in Inodes, inodes' = [inodes EXCEPT ![<<p, Name(p)>>] = f],
         NEW w \in Places, pc' = [pc EXCEPT ![p] = w],
         w \in Late => f.chunks = Chunks,
         w \in {"fsync", "rename"} => f.mode,
         w = "rename" => f.synced
  PROVE  Inv'
<1>1. p \in Procs /\ Types /\ Name(p) \in Names /\ Name(p) \in ToSet(todo[p])
  BY TailFacts DEF Procs, Inv, Types, Name
<1>2. <<p, Name(p)>> \in Ids /\ <<p, Name(p)>>[1] = p
  BY <1>1, NameFacts
<1>3. pc' \in [Procs -> Places] /\ \A q \in Procs : q # p => pc'[q] = pc[q]
  BY <1>1 DEF Types
<1>4. \A i \in Ids : i # <<p, Name(p)>> => inodes'[i] = inodes[i]
  BY <1>1 DEF Types
<1>5. pc'[p] = w /\ inodes'[<<p, Name(p)>>] = f
  BY <1>1, <1>2 DEF Types
<1>6. Types'
  <2>1. inodes' \in [Ids -> Inodes]
    BY <1>1 DEF Types
  <2>2. \A q \in Putters : pc'[q] # "ended" => todo[q] # <<>>
    BY <1>1, <1>3 DEF Types, Procs
  <2> QED BY <1>1, <1>3, <2>1, <2>2 DEF Types
<1>7. NotYet' /\ OwnTemps'
  BY DEF Inv, NotYet, OwnTemps
<1>8. Stage'
  <2> SUFFICES ASSUME NEW q \in Putters
               PROVE  LET file == inodes'[<<q, Head(todo[q])>>]
                      IN /\ pc'[q] \in {"chmod", "fsync", "rename"} => file.chunks = Chunks
                         /\ pc'[q] \in {"fsync", "rename"} => file.mode
                         /\ pc'[q] = "rename" => file.synced
    BY DEF Stage
  <2>1. CASE q = p
    BY <1>5, <2>1 DEF Name, Late
  <2>2. CASE q # p /\ pc[q] \in Late
    <3>1. q \in Procs /\ Head(todo[q]) \in Names
      BY <2>2, <1>1, TailFacts DEF Procs, Types, Late
    <3>2. <<q, Head(todo[q])>> \in Ids /\ <<q, Head(todo[q])>> # <<p, Name(p)>>
      BY <3>1, <2>2, NameFacts
    <3> QED BY <3>1, <3>2, <2>2, <1>3, <1>4 DEF Inv, Stage
  <2>3. CASE q # p /\ pc[q] \notin Late
    BY <2>3, <1>3 DEF Procs, Late
  <2> QED BY <2>1, <2>2, <2>3
<1>9. OthersWhole'
  BY <1>2, <1>4 DEF Inv, OthersWhole, Whole
<1>10. TargetsSafe'
  <2> SUFFICES ASSUME NEW n \in Names, NEW i \in Ids, entries[Plain(n)] = File(i)
               PROVE  inodes'[i] = Whole
    BY DEF TargetsSafe, Whole
  <2>1. i # <<p, Name(p)>>
    BY <1>1 DEF Inv, NotYet
  <2> QED BY <2>1, <1>4 DEF Inv, TargetsSafe
<1> QED BY <1>6, <1>7, <1>8, <1>9, <1>10 DEF Inv

\* A rename puts a whole file in the place of its target.
LEMMA RenameStep ==
  ASSUME Inv, NEW p \in Putters, pc[p] = "rename", inodes' = inodes,
         entries[Temp(Name(p), p)] # None,
         entries' = [entries EXCEPT ![Plain(Name(p))] = entries[Temp(Name(p), p)],
                                    ![Temp(Name(p), p)] = None],
         todo' = [todo EXCEPT ![p] = Tail(@)],
         pc' = [pc EXCEPT ![p] = IF todo'[p] = <<>> THEN "ended" ELSE "stat"]
  PROVE  Inv'
<1> DEFINE name == Name(p)
           mine == <<p, name>>
<1>1. p \in Procs /\ Types /\ todo[p] \in Seq(Names) /\ todo[p] # <<>> /\ IsInjective(todo[p])
  BY DEF Procs, Inv, Types
<1>2. /\ name \in Names /\ name \in ToSet(todo[p])
      /\ Tail(todo[p]) \in Seq(Names) /\ IsInjective(Tail(todo[p]))
      /\ \A n \in ToSet(Tail(todo[p])) : n \in ToSet(todo[p]) /\ n # name
  BY <1>1, TailFacts DEF Name
<1>3. /\ Temp(name, p) \in Keys /\ Plain(name) \in Keys /\ mine \in Ids
      /\ \A m : Temp(name, p) # Plain(m)
  BY <1>2, NameFacts
<1>4. entries[Temp(name, p)] = File(mine)
  BY <1>2 DEF Inv, OwnTemps
<1>5. inodes[mine] = Whole
  <2>1. inodes[mine] \in Inodes
    BY <1>1, <1>3 DEF Types
  <2>2. inodes[mine].chunks = Chunks /\ inodes[mine].mode /\ inodes[mine].synced
    BY DEF Inv, Stage, Name
  <2> QED BY <2>1, <2>2 DEF Inodes, Whole
<1>6. /\ entries'[Plain(name)] = File(mine) /\ entries'[Temp(name, p)] = None
      /\ \A k \in Keys : k \notin {Plain(name), Temp(name, p)} => entries'[k] = entries[k]
  BY <1>1, <1>3, <1>4 DEF Types
<1>7. /\ todo' = [q \in Procs |-> todo'[q]] /\ todo'[p] = Tail(todo[p])
      /\ \A q \in Procs : q # p => todo'[q] = todo[q]
  BY <1>1 DEF Types
<1>8. /\ pc'[p] = (IF todo'[p] = <<>> THEN "ended" ELSE "stat")
      /\ \A q \in Procs : q # p => pc'[q] = pc[q]
  BY <1>1 DEF Types
<1>9. Types'
  <2>1. pc' \in [Procs -> Places]
    BY <1>1 DEF Types, Places
  <2>2. entries' \in [Keys -> Entries]
    <3>1. None \in Entries /\ File(mine) \in Entries
      BY <1>3, EntryFacts DEF Entries
    <3> QED BY <3>1, <1>1, <1>4 DEF Types
  <2>3. ASSUME NEW q \in Putters
        PROVE  todo'[q] \in Seq(Names) /\ IsInjective(todo'[q])
               /\ (pc'[q] # "ended" => todo'[q] # <<>>)
    <3>1. CASE q = p
      BY <3>1, <1>2, <1>7, <1>8
    <3>2. CASE q # p
      BY <3>2, <1>1, <1>7, <1>8 DEF Types, Procs
    <3> QED BY <3>1, <3>2
  <2> QED BY <2>1, <2>2, <2>3, <1>1, <1>7 DEF Types
<1>10. NotYet'
  <2> SUFFICES ASSUME NEW q \in Putters, NEW m \in Names, NEW n \in ToSet(todo'[q]),
                      entries'[Plain(m)] = File(<<q, n>>)
               PROVE  FALSE
    BY DEF NotYet
  <2>1. q \in Procs /\ n \in ToSet(todo[q])
    BY <1>2, <1>7 DEF Procs
  <2>2. CASE m = name
    <3>0. File(<<q, n>>) = File(mine)
      BY <2>2, <1>6
    <3>1. <<q, n>> = mine
      BY <3>0, EntryFacts
    <3>2. q = p /\ n = name
      BY <3>1
    <3> QED BY <3>2, <1>2, <1>7
  <2>3. CASE m # name
    <3>1. Plain(m) \in Keys /\ Plain(m) \notin {Plain(name), Temp(name, p)}
      BY <2>3, <1>3, NameFacts
    <3>2. entries[Plain(m)] = File(<<q, n>>)
      BY <3>1, <1>6
    <3> QED BY <3>2, <2>1 DEF Inv, NotYet
  <2> QED BY <2>2, <2>3
<1>11. OwnTemps'
  <2> SUFFICES ASSUME NEW q \in Putters, NEW n \in Names
               PROVE  entries'[Temp(n, q)] \in {None, File(<<q, n>>)}
    BY DEF OwnTemps
  <2>1. CASE Temp(n, q) = Temp(name, p)
    BY <2>1, <1>6
  <2>2. CASE Temp(n, q) # Temp(name, p)
    <3>0. Temp(n, q) \in Keys
      BY NameFacts
    <3>1. Temp(n, q) # Plain(name)
      BY DeployAssumption DEF Temp, Plain
    <3>2. entries'[Temp(n, q)] = entries[Temp(n, q)]
      BY <2>2, <3>0, <3>1, <1>6
    <3> QED BY <3>2 DEF Inv, OwnTemps
  <2> QED BY <2>1, <2>2
<1>12. Stage'
  <2> SUFFICES ASSUME NEW q \in Putters, pc'[q] \in Late
               PROVE  LET file == inodes[<<q, Head(todo'[q])>>]
                      IN /\ pc'[q] \in {"chmod", "fsync", "rename"} => file.chunks = Chunks
                         /\ pc'[q] \in {"fsync", "rename"} => file.mode
                         /\ pc'[q] = "rename" => file.synced
    BY DEF Stage, Late
  <2>1. q # p
    BY <1>8 DEF Late
  <2>2. pc'[q] = pc[q] /\ todo'[q] = todo[q]
    BY <2>1, <1>7, <1>8 DEF Procs
  <2> QED BY <2>2 DEF Inv, Stage
<1>13. OthersWhole'
  BY DEF Inv, OthersWhole, Whole
<1>14. TargetsSafe'
  <2> SUFFICES ASSUME NEW m \in Names, NEW i \in Ids, entries'[Plain(m)] = File(i)
               PROVE  inodes[i] = Whole
    BY DEF TargetsSafe, Whole
  <2>1. CASE m = name
    <3>1. File(i) = File(mine)
      BY <2>1, <1>6
    <3>2. i = mine
      BY <3>1, EntryFacts
    <3> QED BY <3>2, <1>5
  <2>2. CASE m # name
    <3>1. Plain(m) \in Keys /\ Plain(m) \notin {Plain(name), Temp(name, p)}
      BY <2>2, <1>3, NameFacts
    <3> QED BY <3>1, <1>6 DEF Inv, TargetsSafe
  <2> QED BY <2>1, <2>2
<1> QED BY <1>9, <1>10, <1>11, <1>12, <1>13, <1>14 DEF Inv

\* The invocation p goes on or ends without changing files, entries, or what a
\* put has still to do.
LEMMA Looks ==
  ASSUME Inv, NEW p \in Procs, pc[p] # "ended",
         (\E w \in Places \ Late : Goes(p, w)) \/ (\E s : Exits(p, s)),
         UNCHANGED <<entries, inodes, todo>>
  PROVE  Inv'
<1>1. SameTodo
  BY DEF Inv, Types, SameTodo
<1> QED BY <1>1, MoveFacts, QuietStep DEF Inv

\* A call fails: the temporary goes, if it is still there.
LEMMA CleansUpStep ==
  ASSUME Inv, NEW p \in Putters, pc[p] # "ended", CleansUp(p), UNCHANGED <<inodes, todo>>
  PROVE  Inv'
<1>1. p \in Procs /\ Types /\ Name(p) \in Names
  BY TailFacts DEF Procs, Inv, Types, Name
<1>2. Moves
  BY <1>1, MoveFacts DEF CleansUp, Dies
<1>3. SameTodo
  BY <1>1 DEF Types, SameTodo
<1>4. \A k \in Keys : entries'[k] = entries[k] \/ (k = Temp(Name(p), p) /\ entries'[k] = None)
  BY <1>1 DEF CleansUp, Types
<1>5. entries' \in [Keys -> Entries]
  BY <1>1 DEF CleansUp, Types, Entries
<1>6. \A m \in Names : entries'[Plain(m)] = entries[Plain(m)]
  <2>1. \A m \in Names : Plain(m) \in Keys
    BY NameFacts
  <2>2. \A m : Plain(m) # Temp(Name(p), p)
    BY <1>1, NameFacts
  <2> QED BY <1>4, <2>1, <2>2
<1>7. \A q \in Putters, n \in Names : entries'[Temp(n, q)] \in {entries[Temp(n, q)], None}
  BY <1>4, NameFacts
<1> QED BY <1>2, <1>3, <1>5, <1>6, <1>7, EntriesStep DEF CleansUp

\* Something happens to plain entries alone, and no invocation's file results.
LEMMA PlainStep ==
  ASSUME Inv, Moves, SameTodo, inodes' = inodes,
         NEW n \in Names \cup {".git"},
         NEW e, e \in {None, Other("dir"), Other("link")} \/ \E m \in Names : e = File(Theirs(m)),
         entries' = [entries EXCEPT ![Plain(n)] = e]
  PROVE  Inv'
<1>1. entries \in [Keys -> Entries]
  BY DEF Inv, Types
<1>2. e \in Entries
  BY NameFacts, EntryFacts DEF Entries
<1>3. entries' \in [Keys -> Entries]
  BY <1>1, <1>2
<1>4. \A k \in Keys : entries'[k] = IF k = Plain(n) THEN e ELSE entries[k]
  BY <1>1
<1>5. ASSUME NEW m \in Names
      PROVE  \/ entries'[Plain(m)] = entries[Plain(m)]
             \/ \A i : entries'[Plain(m)] # File(i)
             \/ \E i \in Ids : i[1] \notin Putters /\ entries'[Plain(m)] = File(i)
  <2>1. Plain(m) \in Keys
    BY NameFacts
  <2>2. CASE \E k \in Names : e = File(Theirs(k))
    BY <2>1, <2>2, <1>4, NameFacts
  <2>3. CASE e \in {None, Other("dir"), Other("link")}
    BY <2>1, <2>3, <1>4, EntryFacts
  <2> QED BY <2>2, <2>3
<1>6. \A q \in Putters, m \in Names : entries'[Temp(m, q)] = entries[Temp(m, q)]
  <2> SUFFICES ASSUME NEW q \in Putters, NEW m \in Names
               PROVE  entries'[Temp(m, q)] = entries[Temp(m, q)]
    OBVIOUS
  <2>1. Temp(m, q) \in Keys /\ \A k : Temp(m, q) # Plain(k)
    BY NameFacts
  <2> QED BY <2>1, <1>4
<1> QED BY <1>3, <1>5, <1>6, EntriesStep

-----------------------------------------------------------------------------
(* One lemma for each kind of action. *)

\* walkFromHome, and what a put looks at before it writes.
LEMMA WalkSteps ==
  ASSUME Inv, NEW p \in Procs,
         \/ Start(p) \/ Walk(p) \/ Mkdir(p) \/ Reopen(p) \/ Look(p)
         \/ Kill(p) \/ (p \in Putters /\ Stat(p)) \/ Finish(p)
  PROVE  Inv'
<1>1. UNCHANGED <<entries, inodes, todo>>
  BY DEF Start, Walk, Mkdir, Reopen, Look, Kill, Stat, Finish
<1>2. pc[p] # "ended"
  BY DEF Start, Walk, Mkdir, Reopen, Look, Kill, Stat, Finish, Running
<1>3. {"walk", "mkdir", "reopen", "look", "list", "stat", "create"} \subseteq Places \ Late
  BY DEF Places, Late
<1> DEFINE Moved == (\E w \in Places \ Late : Goes(p, w)) \/ (\E s : Exits(p, s))
<1>4. ASSUME NEW dir, Descends(p, dir) PROVE Moved
  BY <1>3, <1>4 DEF Descends
<1>5. Moved
  <2>1. CASE Start(p)
    BY <1>3, <2>1 DEF Start
  <2>2. CASE Walk(p)
    BY <1>3, <1>4, <2>2 DEF Walk, Dies
  <2>3. CASE Mkdir(p)
    BY <1>3, <2>3 DEF Mkdir, Dies
  <2>4. CASE Reopen(p)
    BY <1>3, <1>4, <2>4 DEF Reopen, Dies
  <2>5. CASE Look(p)
    BY <1>3, <2>5 DEF Look
  <2>6. CASE Kill(p)
    BY <2>6 DEF Kill
  <2>7. CASE Stat(p)
    BY <1>3, <2>7 DEF Stat, Dies
  <2>8. CASE Finish(p)
    BY <2>8 DEF Finish, Dies
  <2> QED BY <2>1, <2>2, <2>3, <2>4, <2>5, <2>6, <2>7, <2>8
<1> QED BY <1>1, <1>2, <1>5, Looks

\* placeFile: open with O_EXCL.
LEMMA CreateStep ==
  ASSUME Inv, NEW p \in Putters, Create(p)
  PROVE  Inv'
<1>1. p \in Procs /\ Types /\ Name(p) \in Names /\ pc[p] # "ended"
  BY TailFacts DEF Procs, Inv, Types, Name, Create
<1>2. UNCHANGED <<inodes, todo>>
  BY DEF Create
<1>3. CASE Dies(p) /\ UNCHANGED entries
  BY <1>1, <1>2, <1>3, Looks DEF Dies
<1>4. CASE /\ Goes(p, "copy")
           /\ entries' = [entries EXCEPT ![Temp(Name(p), p)] = File(<<p, Name(p)>>)]
  <2>1. Moves
    <3>1. "copy" \in Places \ Late
      BY DEF Places, Late
    <3> QED BY <3>1, <1>1, <1>4, MoveFacts
  <2>2. SameTodo
    BY <1>1, <1>2 DEF Types, SameTodo
  <2>3. entries' \in [Keys -> Entries]
    <3>1. File(<<p, Name(p)>>) \in Entries
      BY <1>1, NameFacts, EntryFacts
    <3> QED BY <3>1, <1>1, <1>4 DEF Types
  <2>4. \A k \in Keys :
          entries'[k] = IF k = Temp(Name(p), p) THEN File(<<p, Name(p)>>) ELSE entries[k]
    BY <1>1, <1>4 DEF Types
  <2>5. \A m \in Names : entries'[Plain(m)] = entries[Plain(m)]
    <3>1. \A m \in Names : Plain(m) \in Keys
      BY NameFacts
    <3>2. \A m : Plain(m) # Temp(Name(p), p)
      BY <1>1, NameFacts
    <3> QED BY <2>4, <3>1, <3>2
  <2>6. ASSUME NEW q \in Putters, NEW n \in Names
        PROVE  entries'[Temp(n, q)] \in {entries[Temp(n, q)], None, File(<<q, n>>)}
    <3>1. Temp(n, q) \in Keys
      BY NameFacts
    <3>2. Temp(n, q) = Temp(Name(p), p) => <<q, n>> = <<p, Name(p)>>
      BY DEF Temp
    <3> QED BY <2>4, <3>1, <3>2
  <2> QED BY <1>2, <2>1, <2>2, <2>3, <2>5, <2>6, EntriesStep
<1> QED BY <1>3, <1>4 DEF Create

\* placeFile: copyAll(), fchmod(), fsync() and renameat().
LEMMA WriteSteps ==
  ASSUME Inv, NEW p \in Putters, Copy(p) \/ Chmod(p) \/ Fsync(p) \/ Rename(p)
  PROVE  Inv'
<1> DEFINE mine == <<p, Name(p)>>
<1>1. pc[p] \in {"copy", "chmod", "fsync", "rename"}
  BY DEF Copy, Chmod, Fsync, Rename
<1>2. p \in Procs /\ Types /\ Name(p) \in Names /\ pc[p] # "ended"
  BY <1>1, TailFacts DEF Procs, Inv, Types, Name
<1>3. mine \in Ids /\ inodes[mine] \in Inodes /\ inodes \in [Ids -> Inodes]
  BY <1>2, NameFacts DEF Types
<1>4. CASE CleansUp(p) /\ UNCHANGED <<inodes, todo>>
  BY <1>2, <1>4, CleansUpStep
<1>5. CASE Copy(p)
  <2>1. UNCHANGED <<entries, todo>>
    BY <1>5 DEF Copy
  <2>2. CASE Dies(p) /\ UNCHANGED inodes
    BY <1>2, <2>1, <2>2, Looks DEF Dies
  <2>3. CASE inodes' = [inodes EXCEPT ![mine].chunks = @ + 1] /\ UNCHANGED pc
    <3> DEFINE f == [inodes[mine] EXCEPT !.chunks = @ + 1]
    <3>1. f \in Inodes
      BY <1>3 DEF Inodes
    <3>2. inodes' = [inodes EXCEPT ![mine] = f]
      BY <2>3
    <3>3. pc' = [pc EXCEPT ![p] = "copy"] /\ "copy" \in Places \ Late
      BY <1>2, <1>5, <2>3 DEF Types, Places, Late, Copy
    <3> HIDE DEF f
    <3> QED BY <1>2, <2>1, <3>1, <3>2, <3>3, FileStep DEF Late
  <2>4. CASE EndOfCopy(inodes[mine].chunks) /\ Goes(p, "chmod") /\ UNCHANGED inodes
    <3>1. inodes' = [inodes EXCEPT ![mine] = inodes[mine]]
      BY <1>3, <2>4
    <3>2. pc' = [pc EXCEPT ![p] = "chmod"] /\ "chmod" \in Places
      BY <2>4 DEF Goes, Places
    <3>3. inodes[mine].chunks = Chunks
      BY <2>4 DEF EndOfCopy
    <3> QED BY <1>2, <1>3, <2>1, <3>1, <3>2, <3>3, FileStep
  <2> QED BY <1>5, <2>2, <2>3, <2>4 DEF Copy
<1>6. CASE Chmod(p)
  <2>1. CASE /\ inodes' = [inodes EXCEPT ![mine].mode = TRUE]
             /\ Goes(p, "fsync") /\ UNCHANGED <<entries, todo>>
    <3> DEFINE f == [inodes[mine] EXCEPT !.mode = TRUE]
    <3>1. f \in Inodes /\ f.mode /\ f.chunks = inodes[mine].chunks
      BY <1>3 DEF Inodes
    <3>2. inodes' = [inodes EXCEPT ![mine] = f]
      BY <2>1
    <3>3. pc' = [pc EXCEPT ![p] = "fsync"] /\ "fsync" \in Places
      BY <2>1 DEF Goes, Places
    <3>4. inodes[mine].chunks = Chunks
      BY <1>6 DEF Inv, Stage, Chmod, Name
    <3> HIDE DEF f
    <3> QED BY <1>2, <2>1, <3>1, <3>2, <3>3, <3>4, FileStep
  <2> QED BY <1>4, <1>6, <2>1 DEF Chmod
<1>7. CASE Fsync(p)
  <2>1. CASE /\ inodes' = [inodes EXCEPT ![mine] = Synced(@)]
             /\ Goes(p, "rename") /\ UNCHANGED <<entries, todo>>
    <3> DEFINE f == Synced(inodes[mine])
    <3>1. f \in Inodes /\ f.synced /\ f.mode = inodes[mine].mode /\ f.chunks = inodes[mine].chunks
      BY <1>3 DEF Inodes, Synced
    <3>2. inodes' = [inodes EXCEPT ![mine] = f]
      BY <2>1
    <3>3. pc' = [pc EXCEPT ![p] = "rename"] /\ "rename" \in Places
      BY <2>1 DEF Goes, Places
    <3>4. inodes[mine].chunks = Chunks /\ inodes[mine].mode
      BY <1>7 DEF Inv, Stage, Fsync, Name
    <3> HIDE DEF f
    <3> QED BY <1>2, <2>1, <3>1, <3>2, <3>3, <3>4, FileStep
  <2> QED BY <1>4, <1>7, <2>1 DEF Fsync
<1>8. CASE Rename(p)
  <2>1. CASE CleansUp(p) /\ UNCHANGED <<inodes, todo>>
    BY <1>4, <2>1
  <2>2. CASE ~(CleansUp(p) /\ UNCHANGED <<inodes, todo>>)
    <3>1. /\ entries[Temp(Name(p), p)] # None
          /\ entries' = [entries EXCEPT ![Plain(Name(p))] = entries[Temp(Name(p), p)],
                                        ![Temp(Name(p), p)] = None]
          /\ todo' = [todo EXCEPT ![p] = Tail(@)]
          /\ IF todo'[p] = <<>> THEN Exits(p, 0) ELSE Goes(p, "stat")
      BY <1>8, <2>2 DEF Rename
    <3>2. pc' = [pc EXCEPT ![p] = IF todo'[p] = <<>> THEN "ended" ELSE "stat"]
      BY <3>1 DEF Exits, Goes
    <3>3. pc[p] = "rename" /\ inodes' = inodes
      BY <1>8 DEF Rename
    <3> QED BY <3>1, <3>2, <3>3, RenameStep
  <2> QED BY <2>1, <2>2
<1> QED BY <1>5, <1>6, <1>7, <1>8

\* commandRemove.
LEMMA RemoveSteps ==
  ASSUME Inv, NEW p \in Removers, ListNames(p) \/ Examine(p) \/ Unlink(p)
  PROVE  Inv'
<1>1. p \in Procs /\ p \notin Putters /\ Types
  BY DeployAssumption DEF Procs, Inv
<1>2. pc[p] # "ended" /\ {"stat", "unlink"} \subseteq Places \ Late
  BY DEF ListNames, Examine, Unlink, Places, Late
<1>3. Moves
  <2>1. (\E w \in Places \ Late : Goes(p, w)) \/ (\E s : Exits(p, s))
    BY <1>2 DEF ListNames, Examine, Unlink, NextName, Dies
  <2> QED BY <1>1, <1>2, <2>1, MoveFacts
<1>4. SameTodo
  <2>1. todo' = todo \/ \E s : todo' = [todo EXCEPT ![p] = s]
    BY DEF ListNames, Examine, Unlink, NextName
  <2>2. CASE todo' = todo
    BY <1>1, <2>2 DEF Types, SameTodo
  <2>3. ASSUME NEW s, todo' = [todo EXCEPT ![p] = s] PROVE SameTodo
    <3>1. todo' = [q \in Procs |-> IF q = p THEN s ELSE todo[q]]
      BY <1>1, <2>3 DEF Types
    <3>2. \A q \in Putters : q \in Procs /\ q # p
      BY <1>1 DEF Procs
    <3> QED BY <3>1, <3>2 DEF SameTodo
  <2> QED BY <2>1, <2>2, <2>3
<1>5. inodes' = inodes
  BY DEF ListNames, Examine, Unlink
<1>6. CASE entries' = entries
  BY <1>3, <1>4, <1>5, <1>6, QuietStep
<1>7. CASE Unlink(p) /\ entries' # entries
  <2>1. entries' = [entries EXCEPT ![Plain(Name(p))] = None]
    BY <1>7 DEF Unlink
  <2>2. CASE Name(p) \in Names
    BY <1>3, <1>4, <1>5, <2>1, <2>2, PlainStep
  <2>3. CASE Plain(Name(p)) \notin Keys
    BY <1>1, <1>7, <2>1, <2>3 DEF Types
  <2>4. CASE Plain(Name(p)) \in Keys
    <3>1. Name(p) \in Names \cup {".git"}
      <4>1. "" \notin Putters \cup {"deploy"}
        BY DeployAssumption
      <4>2. CASE \E n \in Names : Plain(Name(p)) = Plain(n)
        BY <4>2, NameFacts
      <4>3. CASE Plain(Name(p)) = Git
        BY <4>3, NameFacts DEF Git
      <4>4. CASE \E n \in Names, q \in Putters \cup {"deploy"} : Plain(Name(p)) = <<n, q>>
        BY <4>1, <4>4 DEF Plain
      <4> QED BY <2>4, <4>2, <4>3, <4>4 DEF Keys
    <3> QED BY <1>3, <1>4, <1>5, <2>1, <3>1, PlainStep
  <2> QED BY <2>3, <2>4
<1> QED BY <1>6, <1>7 DEF ListNames, Examine

\* A power loss empties no target: each has been flushed.
LEMMA PowerLossStep ==
  ASSUME Inv, PowerLoss
  PROVE  Inv'
<1>1. Types
  BY DEF Inv
<1>2. pc' \in [Procs -> Places] /\ \A p \in Procs : pc'[p] \in {"idle", "ended"} /\ (pc'[p] = "idle" => pc[p] = "idle")
  BY <1>1 DEF PowerLoss, Types, Places, Running
<1>3. /\ inodes' \in [Ids -> Inodes]
      /\ \A i \in Ids : inodes[i].synced => inodes'[i] = inodes[i]
  BY <1>1 DEF PowerLoss, Types, Inodes
<1>4. entries' = entries /\ todo' = todo
  BY DEF PowerLoss
<1>5. Types'
  BY <1>1, <1>2, <1>3, <1>4 DEF Types, Procs
<1>6. NotYet' /\ OwnTemps'
  BY <1>4 DEF Inv, NotYet, OwnTemps
<1>7. Stage'
  BY <1>2 DEF Stage, Procs
<1>8. OthersWhole'
  BY <1>3 DEF Inv, OthersWhole, Whole
<1>9. TargetsSafe'
  BY <1>3, <1>4 DEF Inv, TargetsSafe, Whole
<1> QED BY <1>5, <1>6, <1>7, <1>8, <1>9 DEF Inv

\* The user's other programs.
LEMMA UserSteps ==
  ASSUME Inv, UserEntry \/ UserFile \/ UserClones \/ UserDirectory
  PROVE  Inv'
<1>1. UNCHANGED <<pc, todo, inodes>>
  BY DEF UserEntry, UserFile, UserClones, UserDirectory
<1>2. Moves /\ SameTodo
  BY <1>1 DEF Inv, Types, Moves, SameTodo
<1>3. CASE UserEntry
  <2>1. PICK n \in Names, e \in {None, Other("dir"), Other("link")} :
          entries' = [entries EXCEPT ![Plain(n)] = e]
    BY <1>3 DEF UserEntry
  <2> QED BY <1>1, <1>2, <2>1, PlainStep
<1>4. CASE UserFile
  <2>1. PICK n \in Names : entries' = [entries EXCEPT ![Plain(n)] = File(Theirs(n))]
    BY <1>4 DEF UserFile
  <2> QED BY <1>1, <1>2, <2>1, PlainStep
<1>5. CASE UserClones
  <2>1. entries' = [entries EXCEPT ![Plain(".git")] = Other("dir")]
    BY <1>5 DEF UserClones, Git
  <2> QED BY <1>1, <1>2, <2>1, PlainStep
<1>6. CASE UserDirectory
  <2>1. entries' = [k \in Keys |-> None]
    BY <1>6 DEF UserDirectory, Empty
  <2>2. entries' \in [Keys -> Entries]
    BY <2>1 DEF Entries
  <2>3. \A m \in Names : entries'[Plain(m)] = None
    BY <2>1, NameFacts
  <2>4. \A q \in Putters, n \in Names : entries'[Temp(n, q)] = None
    BY <2>1, NameFacts
  <2>5. \A m \in Names : \A i : entries'[Plain(m)] # File(i)
    BY <2>3, EntryFacts
  <2> QED BY <1>1, <1>2, <2>2, <2>4, <2>5, EntriesStep
<1> QED BY <1>3, <1>4, <1>5, <1>6

-----------------------------------------------------------------------------

\* Inv is inductive.
LEMMA Steps == Inv /\ [Next]_vars => Inv'
<1> SUFFICES ASSUME Inv, [Next]_vars PROVE Inv'
  OBVIOUS
<1>1. ASSUME NEW p \in Procs, Start(p) \/ Walk(p) \/ Kill(p) PROVE Inv'
  BY <1>1, WalkSteps
<1>2. ASSUME NEW p \in Putters, Mkdir(p) \/ Reopen(p) \/ Look(p) \/ Stat(p) PROVE Inv'
  BY <1>2, WalkSteps DEF Procs
<1>3. ASSUME NEW p \in Putters, Create(p) PROVE Inv'
  BY <1>3, CreateStep
<1>4. ASSUME NEW p \in Putters, Copy(p) \/ Chmod(p) \/ Fsync(p) \/ Rename(p) PROVE Inv'
  BY <1>4, WriteSteps
<1>5. ASSUME NEW p \in Removers, ListNames(p) \/ Examine(p) \/ Unlink(p) PROVE Inv'
  BY <1>5, RemoveSteps
<1>6. ASSUME NEW p \in Removers, Finish(p) PROVE Inv'
  BY <1>6, WalkSteps DEF Procs
<1>7. CASE PowerLoss
  BY <1>7, PowerLossStep
<1>8. CASE UserEntry \/ UserFile \/ UserClones \/ UserDirectory
  BY <1>8, UserSteps
<1>9. CASE UNCHANGED vars
  <2>1. UNCHANGED <<pc, entries, inodes, todo>>
    BY <1>9 DEF vars
  <2>2. Moves /\ SameTodo
    BY <2>1 DEF Inv, Types, Moves, SameTodo
  <2> QED BY <2>1, <2>2, QuietStep
<1> QED BY <1>1, <1>2, <1>3, <1>4, <1>5, <1>6, <1>7, <1>8, <1>9 DEF Next

\* At every moment, also after a kill or a power loss, every name under the
\* destination of any number of puts and removes at once holds the old file or
\* a whole new one with its mode: placeFile() writes beside the target, flushes,
\* and renames.
THEOREM InstallationsWhole == Spec => []TargetsWhole
<1>1. Inv => TargetsWhole
  <2> SUFFICES ASSUME Inv, NEW n \in Names, entries[Plain(n)].kind = "file"
               PROVE  inodes[entries[Plain(n)].ino].chunks = Chunks /\ inodes[entries[Plain(n)].ino].mode
    BY DEF TargetsWhole
  <2>1. entries[Plain(n)] \in Entries
    BY NameFacts DEF Inv, Types
  <2>2. PICK i \in Ids : entries[Plain(n)] = File(i) /\ entries[Plain(n)].ino = i
    BY <2>1, EntryFacts
  <2>3. inodes[i] = Whole
    BY <2>2 DEF Inv, TargetsSafe
  <2> QED BY <2>2, <2>3 DEF Whole
<1> QED BY <1>1, Starts, Steps, PTL DEF Spec

-----------------------------------------------------------------------------
(* Walks and the types. *)

\* One invocation goes on or ends; it starts no search below the last level.
Advances(p) ==
  /\ pc[p] # "ended"
  /\ \/ \E w \in Places \ {"idle", "ended"} :
          Goes(p, w) /\ (w \in {"walk", "mkdir", "reopen"} => level'[p] < Depth)
     \/ \E s \in Statuses \ {-1} : Exits(p, s)

\* An invocation has an exit status exactly when it has ended.
LEMMA Progress ==
  ASSUME Types, Walks, NEW p \in Procs, Advances(p),
         \A q \in Procs : q # p => level'[q] = level[q]
  PROVE  /\ status' \in [Procs -> Statuses] /\ \A q \in Procs : status'[q] # -1 <=> pc'[q] = "ended"
         /\ \A q \in Procs : pc'[q] \in {"idle", "walk", "mkdir", "reopen"} => level'[q] < Depth
<1>1. pc \in [Procs -> Places] /\ status \in [Procs -> Statuses]
  BY DEF Types, Walks
<1>2. \A q \in Procs : /\ status[q] # -1 <=> pc[q] = "ended"
                       /\ pc[q] \in {"idle", "walk", "mkdir", "reopen"} => level[q] < Depth
  BY DEF Walks
<1>3. CASE \E w \in Places \ {"idle", "ended"} :
             Goes(p, w) /\ (w \in {"walk", "mkdir", "reopen"} => level'[p] < Depth)
  <2>1. PICK w \in Places \ {"idle", "ended"} :
          Goes(p, w) /\ (w \in {"walk", "mkdir", "reopen"} => level'[p] < Depth)
    BY <1>3
  <2>2. status' = status /\ status[p] = -1
    BY <1>2, <2>1 DEF Goes, Advances
  <2>3. \A q \in Procs : pc'[q] = IF q = p THEN w ELSE pc[q]
    BY <1>1, <2>1 DEF Goes
  <2> QED BY <1>1, <1>2, <2>1, <2>2, <2>3
<1>4. CASE \E s \in Statuses \ {-1} : Exits(p, s)
  <2>1. PICK s \in Statuses \ {-1} : Exits(p, s)
    BY <1>4
  <2>2. \A q \in Procs : /\ pc'[q] = IF q = p THEN "ended" ELSE pc[q]
                         /\ status'[q] = IF q = p THEN s ELSE status[q]
    BY <1>1, <2>1 DEF Exits
  <2>3. status' \in [Procs -> Statuses]
    BY <1>1, <2>1 DEF Exits
  <2> QED BY <1>2, <2>1, <2>2, <2>3
<1> QED BY <1>3, <1>4 DEF Advances

\* What an action that is no walk has to show.
LEMMA WalksKept ==
  ASSUME Types, Walks, NEW p \in Procs, Advances(p), UNCHANGED <<dirs, made, walkVars>>,
         entries' = entries \/ dirs[Depth] \notin {Absent, Link},
         \A i \in Ids : inodes'[i].chunks <= Chunks
  PROVE  Walks'
<1>1. level' = level /\ held' = held /\ parent' = parent /\ dirs' = dirs /\ made' = made
  BY DEF walkVars
<1>2. /\ status' \in [Procs -> Statuses] /\ \A q \in Procs : status'[q] # -1 <=> pc'[q] = "ended"
      /\ \A q \in Procs : pc'[q] \in {"idle", "walk", "mkdir", "reopen"} => level'[q] < Depth
  BY <1>1, Progress
<1>3. dirs'[Depth] \in {Absent, Link} => entries' = Empty
  BY <1>1 DEF Walks
<1> QED BY <1>1, <1>2, <1>3 DEF Walks

\* walkFromHome() goes down into a directory that is there.
LEMMA WalksDown ==
  ASSUME Types, Walks, NEW p \in Procs, pc[p] \in {"walk", "reopen"},
         NEW dir \in Opened(p, level[p] + 1) \ {Absent}, Descends(p, dir),
         UNCHANGED <<dirs, made, entries, inodes>>
  PROVE  Walks'
<1>1. /\ level \in [Procs -> 0 .. Depth] /\ held \in [Procs -> Home .. made]
      /\ parent \in [Procs -> {Absent} \cup (Home .. made)] /\ Depth \in Nat /\ level[p] < Depth
  BY DeployAssumption DEF Walks
<1>2. dir \in Home .. made
  <2>1. dir = dirs[level[p] + 1] /\ dir # Link /\ dir # Absent
    BY DEF Opened
  <2>2. level[p] + 1 \in 0 .. Depth
    BY <1>1
  <2> QED BY <2>1, <2>2 DEF Walks
<1>3. /\ level' \in [Procs -> 0 .. Depth] /\ \A q \in Procs : q # p => level'[q] = level[q]
      /\ level'[p] = level[p] + 1
  BY <1>1 DEF Descends
<1>4. held' \in [Procs -> Home .. made]
  BY <1>1, <1>2 DEF Descends
<1>5. parent' \in [Procs -> {Absent} \cup (Home .. made)]
  BY <1>1 DEF Descends
<1>6. Advances(p)
  BY DEF Advances, Descends, Places
<1>7. /\ status' \in [Procs -> Statuses] /\ \A q \in Procs : status'[q] # -1 <=> pc'[q] = "ended"
      /\ \A q \in Procs : pc'[q] \in {"idle", "walk", "mkdir", "reopen"} => level'[q] < Depth
  BY <1>3, <1>6, Progress
<1> QED BY <1>3, <1>4, <1>5, <1>7 DEF Walks

\* mkdirat() makes a directory nobody had before.
LEMMA WalksMade ==
  ASSUME Types, Walks, NEW p \in Procs, Mkdir(p)
  PROVE  Walks'
<1>1. pc[p] = "mkdir" /\ level[p] < Depth /\ level[p] \in 0 .. Depth /\ Depth \in Nat
  BY DeployAssumption DEF Mkdir, Walks
<1>2. UNCHANGED <<entries, inodes>> /\ level' = level /\ held' = held /\ parent' = parent
  BY DEF Mkdir, walkVars
<1>3. Advances(p)
  BY <1>1, <1>2 DEF Mkdir, Advances, Dies, Places, Statuses
<1>4. /\ status' \in [Procs -> Statuses] /\ \A q \in Procs : status'[q] # -1 <=> pc'[q] = "ended"
      /\ \A q \in Procs : pc'[q] \in {"idle", "walk", "mkdir", "reopen"} => level'[q] < Depth
  BY <1>2, <1>3, Progress
<1>5. \/ dirs' = dirs /\ made' = made
      \/ dirs' = [dirs EXCEPT ![level[p] + 1] = made + 1] /\ made' = made + 1
  BY DEF Mkdir
<1>6. made' \in Nat /\ made <= made'
  BY <1>5 DEF Walks
<1>7. Home .. made \subseteq Home .. made' /\ Home + Depth <= made'
  BY <1>1, <1>6 DEF Walks, Home
<1>8. dirs' \in [0 .. Depth -> {Absent, Link} \cup (Home .. made')]
  <2>1. dirs \in [0 .. Depth -> {Absent, Link} \cup (Home .. made)] /\ made \in Nat
    BY DEF Walks
  <2>2. made + 1 \in Home .. made + 1
    BY <2>1 DEF Home
  <2> QED BY <1>5, <1>7, <2>1, <2>2
<1>9. dirs'[Depth] \in {Absent, Link} => entries' = Empty
  <2>1. dirs'[Depth] = dirs[Depth] \/ dirs'[Depth] = made + 1
    <3>1. dirs = [l \in 0 .. Depth |-> dirs[l]] /\ Depth \in 0 .. Depth
      BY <1>1 DEF Walks
    <3> QED BY <1>5, <3>1
  <2>2. made + 1 \notin {Absent, Link}
    BY DEF Walks, Absent, Link
  <2> QED BY <1>2, <2>1, <2>2 DEF Walks
<1>10. held' \in [Procs -> Home .. made'] /\ parent' \in [Procs -> {Absent} \cup (Home .. made')]
  BY <1>2, <1>7 DEF Walks
<1> QED BY <1>2, <1>4, <1>6, <1>7, <1>8, <1>9, <1>10 DEF Walks

\* Writing and removing files, which no directory depends on, and ends.
LEMMA WalksOfOthers ==
  ASSUME Inv, Walks, NEW p \in Procs,
         \/ Start(p) \/ Kill(p)
         \/ p \in Putters /\ (Look(p) \/ Stat(p) \/ Create(p) \/ Copy(p) \/ Chmod(p) \/ Fsync(p) \/ Rename(p))
         \/ p \in Removers /\ (ListNames(p) \/ Examine(p) \/ Unlink(p))
  PROVE  Walks'
<1>1. Types
  BY DEF Inv
<1>2. UNCHANGED <<dirs, made, walkVars>>
  BY DEF Start, Kill, Look, Stat, Create, Copy, Chmod, Fsync, Rename, ListNames, Examine, Unlink
<1>3. Advances(p)
  <2>1. level' = level /\ (pc[p] = "idle" => level[p] < Depth)
    BY <1>2 DEF walkVars, Walks
  <2>2. pc[p] # "ended"
    BY DEF Start, Kill, Running, Look, Stat, Create, Copy, Chmod, Fsync, Rename, ListNames, Examine, Unlink
  <2>3. CASE Start(p)
    BY <2>1, <2>2, <2>3 DEF Start, Advances, Places
  <2>4. CASE Kill(p) \/ Look(p) \/ Stat(p) \/ ListNames(p) \/ Examine(p)
    BY <2>2, <2>4 DEF Kill, Look, Stat, Create, ListNames, Examine, NextName, Dies, Advances, Places, Statuses
  <2>5. CASE Create(p) \/ Unlink(p)
    BY <2>2, <2>5 DEF Create, Unlink, NextName, Dies, Advances, Places, Statuses
  <2>6. CASE Copy(p)
    <3>1. CASE UNCHANGED <<pc, status>>
      <4>1. pc' = [pc EXCEPT ![p] = "copy"]
        BY <1>1, <2>6, <3>1 DEF Copy, Types
      <4>2. Goes(p, "copy")
        BY <3>1, <4>1 DEF Goes
      <4> QED BY <2>2, <4>2 DEF Advances, Places
    <3>2. CASE Goes(p, "chmod") \/ Dies(p)
      BY <2>2, <3>2 DEF Dies, Advances, Places, Statuses
    <3> QED BY <2>6, <3>1, <3>2 DEF Copy
  <2>7. CASE Chmod(p) \/ Fsync(p) \/ Rename(p)
    <3>1. Exits(p, 1) \/ Exits(p, 0) \/ Goes(p, "fsync") \/ Goes(p, "rename") \/ Goes(p, "stat")
      BY <2>7, Zenon DEF Chmod, Fsync, Rename, CleansUp, Dies
    <3>2. 0 \in Statuses \ {-1} /\ 1 \in Statuses \ {-1}
      BY DEF Statuses
    <3>3. CASE Exits(p, 1) \/ Exits(p, 0)
      BY <2>2, <3>2, <3>3, Zenon DEF Advances
    <3>4. CASE Goes(p, "fsync") \/ Goes(p, "rename") \/ Goes(p, "stat")
      BY <2>2, <3>4 DEF Advances, Places
    <3> QED BY <3>1, <3>3, <3>4
  <2> QED BY <2>3, <2>4, <2>5, <2>6, <2>7
<1>4. entries' = entries \/ dirs[Depth] \notin {Absent, Link}
  <2>1. Here(p) => dirs[Depth] \notin {Absent, Link}
    <3> SUFFICES ASSUME Here(p) PROVE dirs[Depth] \notin {Absent, Link}
      OBVIOUS
    <3>1. held[p] = dirs[Depth]
      BY DEF Here, Alive
    <3>2. held[p] \in Home .. made /\ made \in Nat
      BY DEF Walks
    <3> QED BY <3>1, <3>2 DEF Home, Absent, Link
  <2>2. entries' = entries \/ Here(p)
    <3>1. CASE Start(p) \/ Kill(p) \/ Look(p) \/ Stat(p) \/ Copy(p) \/ ListNames(p) \/ Examine(p)
      BY <3>1 DEF Start, Kill, Look, Stat, Copy, ListNames, Examine
    <3>2. CASE Create(p)
      BY <3>2 DEF Create
    <3>3. CASE Chmod(p) \/ Fsync(p)
      BY <3>3 DEF Chmod, Fsync, CleansUp
    <3>4. CASE Rename(p)
      BY <3>4 DEF Rename, CleansUp
    <3>5. CASE Unlink(p)
      BY <3>5 DEF Unlink, Entry, None
    <3> QED BY <3>1, <3>2, <3>3, <3>4, <3>5
  <2> QED BY <2>1, <2>2
<1>5. ASSUME NEW i \in Ids PROVE inodes'[i].chunks <= Chunks
  <2>1. inodes[i].chunks <= Chunks /\ inodes[i] \in Inodes /\ inodes \in [Ids -> Inodes]
    BY <1>1 DEF Walks, Types
  <2>2. CASE inodes' = inodes
    BY <2>1, <2>2
  <2>3. ASSUME inodes' # inodes PROVE inodes'[i].chunks <= Chunks
    <3>1. p \in Putters /\ (Copy(p) \/ Chmod(p) \/ Fsync(p))
      BY <2>3 DEF Start, Kill, Look, Stat, Create, Rename, ListNames, Examine, Unlink
    <3> DEFINE mine == <<p, Name(p)>>
    <3>2. CASE Copy(p)
      <4>1. inodes[mine].chunks # Chunks /\ inodes' = [inodes EXCEPT ![mine].chunks = @ + 1]
        BY <2>3, <3>2 DEF Copy, EndOfCopy
      <4>2. inodes'[i].chunks = IF i = mine THEN inodes[i].chunks + 1 ELSE inodes[i].chunks
        BY <2>1, <4>1 DEF Inodes
      <4>3. inodes[i].chunks \in Nat /\ Chunks \in Nat
        BY <2>1, DeployAssumption DEF Inodes
      <4>4. CASE i = mine
        BY <2>1, <4>1, <4>2, <4>3, <4>4
      <4> QED BY <2>1, <4>2, <4>4
    <3>3. CASE Chmod(p)
      <4>1. inodes' = [inodes EXCEPT ![mine].mode = TRUE]
        BY <2>3, <3>3 DEF Chmod
      <4>2. inodes'[i].chunks = inodes[i].chunks
        BY <2>1, <4>1 DEF Inodes
      <4> QED BY <2>1, <4>2
    <3>4. CASE Fsync(p)
      <4>1. inodes' = [inodes EXCEPT ![mine] = Synced(@)]
        BY <2>3, <3>4 DEF Fsync
      <4>2. inodes'[i].chunks = inodes[i].chunks
        BY <2>1, <4>1 DEF Inodes, Synced
      <4> QED BY <2>1, <4>2
    <3> QED BY <3>1, <3>2, <3>3, <3>4
  <2> QED BY <2>2, <2>3
<1> QED BY <1>1, <1>2, <1>3, <1>4, <1>5, WalksKept

\* A walk that ends, or goes on where it is.
LEMMA WalksOfWalk ==
  ASSUME Types, Walks, NEW p \in Procs, Walk(p) \/ Reopen(p)
  PROVE  Walks'
<1>1. pc[p] \in {"walk", "reopen"} /\ UNCHANGED <<dirs, made, entries, inodes>>
  BY DEF Walk, Reopen
<1>2. CASE \E dir \in Opened(p, level[p] + 1) \ {Absent} : Descends(p, dir)
  BY <1>1, <1>2, WalksDown
<1>3. CASE /\ UNCHANGED walkVars
           /\ Dies(p) \/ Goes(p, "mkdir") \/ Exits(p, 0) \/ Goes(p, "look")
  <2>1. level'[p] < Depth
    BY <1>1, <1>3 DEF Walks, walkVars
  <2>2. Advances(p)
    BY <1>1, <1>3, <2>1 DEF Advances, Dies, Places, Statuses
  <2>3. \A i \in Ids : inodes'[i].chunks <= Chunks
    BY <1>1 DEF Walks
  <2> QED BY <1>1, <1>3, <2>2, <2>3, WalksKept
<1> QED BY <1>2, <1>3 DEF Walk, Reopen

\* The last directory is removed only when nothing is in it.
LEMMA WalksOfFinish ==
  ASSUME Types, Walks, NEW p \in Removers, Finish(p)
  PROVE  Walks'
<1>1. /\ p \in Procs /\ pc[p] = "stat" /\ UNCHANGED <<made, entries, inodes>>
      /\ level' = level /\ held' = held /\ parent' = parent
  BY DEF Procs, Finish, walkVars
<1>2. Advances(p)
  BY <1>1 DEF Finish, Advances, Dies, Statuses
<1>3. /\ status' \in [Procs -> Statuses] /\ \A q \in Procs : status'[q] # -1 <=> pc'[q] = "ended"
      /\ \A q \in Procs : pc'[q] \in {"idle", "walk", "mkdir", "reopen"} => level'[q] < Depth
  BY <1>1, <1>2, Progress
<1>4. dirs' = dirs \/ (dirs' = [dirs EXCEPT ![Depth] = Absent] /\ entries = Empty)
  BY DEF Finish
<1>5. dirs' \in [0 .. Depth -> {Absent, Link} \cup (Home .. made)]
  BY <1>4 DEF Walks
<1>6. dirs'[Depth] \in {Absent, Link} => entries' = Empty
  BY <1>1, <1>4 DEF Walks
<1> QED BY <1>1, <1>3, <1>5, <1>6 DEF Walks

\* A power loss ends what runs, and empties files at most.
LEMMA WalksOfPowerLoss ==
  ASSUME Types, Walks, PowerLoss
  PROVE  Walks'
<1>1. UNCHANGED <<dirs, made, entries>> /\ level' = level /\ held' = held /\ parent' = parent
  BY DEF PowerLoss, walkVars
<1>2. \A q \in Procs : /\ pc'[q] = IF Running(q) THEN "ended" ELSE pc[q]
                       /\ status'[q] = IF Running(q) THEN -2 ELSE status[q]
  BY DEF PowerLoss
<1>3. status' \in [Procs -> Statuses]
  BY DEF PowerLoss, Walks, Statuses
<1>4. \A q \in Procs : /\ status'[q] # -1 <=> pc'[q] = "ended"
                       /\ pc'[q] \in {"idle", "walk", "mkdir", "reopen"} => level'[q] < Depth
  BY <1>1, <1>2 DEF Walks, Running
<1>5. \A i \in Ids : inodes'[i].chunks <= Chunks
  <2> SUFFICES ASSUME NEW i \in Ids PROVE inodes'[i].chunks <= Chunks
    OBVIOUS
  <2>1. inodes[i] \in Inodes /\ inodes[i].chunks <= Chunks /\ Chunks \in Nat
    BY DeployAssumption DEF Types, Walks
  <2>2. inodes'[i] = IF inodes[i].synced THEN inodes[i] ELSE [inodes[i] EXCEPT !.chunks = 0]
    BY DEF PowerLoss
  <2> QED BY <2>1, <2>2 DEF Inodes
<1> QED BY <1>1, <1>3, <1>4, <1>5 DEF Walks

\* Another program takes a directory away with all that is below it.
LEMMA WalksOfUser ==
  ASSUME Types, Walks, UserEntry \/ UserFile \/ UserClones \/ UserDirectory
  PROVE  Walks'
<1>1. /\ UNCHANGED <<pc, status, made, inodes>>
      /\ level' = level /\ held' = held /\ parent' = parent
  BY DEF UserEntry, UserFile, UserClones, UserDirectory, walkVars
<1>2. CASE dirs[Depth] > 0 /\ dirs' = dirs
  <2>1. dirs'[Depth] \notin {Absent, Link}
    BY <1>2 DEF Absent, Link
  <2> QED BY <1>1, <1>2, <2>1 DEF Walks
<1>3. CASE UserDirectory
  <2>1. PICK l \in 1 .. Depth, new \in {Absent, Link} :
          dirs' = [k \in 0 .. Depth |-> IF k < l THEN dirs[k] ELSE IF k = l THEN new ELSE Absent]
    BY <1>3 DEF UserDirectory
  <2>2. dirs' \in [0 .. Depth -> {Absent, Link} \cup (Home .. made)]
    BY <2>1 DEF Walks
  <2>3. entries' = Empty /\ Empty' = Empty
    BY <1>3 DEF UserDirectory, Empty
  <2> QED BY <1>1, <2>2, <2>3 DEF Walks
<1> QED BY <1>2, <1>3 DEF UserEntry, UserFile, UserClones

\* The walks are right initially.
LEMMA WalksStart == Init => Walks
<1> SUFFICES ASSUME Init PROVE Walks
  OBVIOUS
<1>1. Depth \in Nat /\ Depth > 0 /\ Chunks \in Nat
  <2>1. Depth \in Nat \ {0} /\ Chunks \in Nat \ {0}
    BY Zenon, DeployAssumption
  <2> QED BY <2>1
<1>2. made = Home + Depth /\ \A p \in Procs : pc[p] = "idle" /\ status[p] = -1 /\ level[p] = 0
  BY DEF Init
<1>3. made \in Nat /\ Home + Depth <= made /\ Home \in Home .. made
  BY <1>1, <1>2 DEF Home
<1>4. level \in [Procs -> 0 .. Depth]
  BY <1>1 DEF Init
<1>5. held \in [Procs -> Home .. made]
  BY <1>3 DEF Init
<1>6. parent \in [Procs -> {Absent} \cup (Home .. made)]
  BY DEF Init
<1>7. status \in [Procs -> Statuses]
  BY DEF Init, Statuses
<1>8. PICK d \in {0, Depth} : dirs = [l \in 0 .. Depth |-> IF l <= d THEN Home + l ELSE Absent]
  BY DEF Init
<1>9. dirs \in [0 .. Depth -> {Absent, Link} \cup (Home .. made)]
  <2>1. \A l \in 0 .. Depth : Home + l \in Home .. made
    BY <1>1, <1>2 DEF Home
  <2> QED BY <1>8, <2>1
<1>10. dirs[Depth] \in {Absent, Link} => entries = Empty
  <2> SUFFICES ASSUME dirs[Depth] \in {Absent, Link} PROVE entries = Empty
    OBVIOUS
  <2>1. dirs[Depth] = Absent
    <3>1. dirs[Depth] = Absent \/ dirs[Depth] = Home + Depth
      BY <1>1, <1>8
    <3>2. Home + Depth # Link
      BY <1>1 DEF Home, Link
    <3> QED BY <3>1, <3>2
  <2> QED BY <2>1, Zenon DEF Init, Empty
<1>11. \A i \in Ids : inodes[i].chunks <= Chunks
  BY <1>1 DEF Init, Whole
<1> QED BY <1>1, <1>2, <1>3, <1>4, <1>5, <1>6, <1>7, <1>9, <1>10, <1>11 DEF Walks

\* They stay right.
LEMMA WalksStep == Inv /\ Walks /\ [Next]_vars => Walks'
<1> SUFFICES ASSUME Inv, Walks, [Next]_vars PROVE Walks'
  OBVIOUS
<1>0. Types /\ Putters \subseteq Procs /\ Removers \subseteq Procs
  BY DEF Inv, Procs
<1>1. ASSUME NEW p \in Procs, Start(p) \/ Kill(p) PROVE Walks'
  BY <1>1, WalksOfOthers
<1>2. ASSUME NEW p \in Procs, Walk(p) \/ (p \in Putters /\ Reopen(p)) PROVE Walks'
  BY <1>0, <1>2, WalksOfWalk
<1>3. ASSUME NEW p \in Putters, Mkdir(p) PROVE Walks'
  BY <1>0, <1>3, WalksMade
<1>4. ASSUME NEW p \in Putters, Look(p) \/ Stat(p) \/ Create(p) \/ Copy(p) \/ Chmod(p) \/ Fsync(p) \/ Rename(p)
      PROVE  Walks'
  BY <1>0, <1>4, WalksOfOthers
<1>5. ASSUME NEW p \in Removers, ListNames(p) \/ Examine(p) \/ Unlink(p) PROVE Walks'
  BY <1>0, <1>5, WalksOfOthers
<1>6. ASSUME NEW p \in Removers, Finish(p) PROVE Walks'
  BY <1>0, <1>6, WalksOfFinish
<1>7. CASE PowerLoss
  BY <1>0, <1>7, WalksOfPowerLoss
<1>8. CASE UserEntry \/ UserFile \/ UserClones \/ UserDirectory
  BY <1>0, <1>8, WalksOfUser
<1>9. CASE UNCHANGED vars
  BY <1>9 DEF Walks, vars, walkVars, Empty
<1> QED BY <1>0, <1>1, <1>2, <1>3, <1>4, <1>5, <1>6, <1>7, <1>8, <1>9 DEF Next

-----------------------------------------------------------------------------
(* Lists of names. *)

\* A finite set has a sequence of its elements, and SetToSeq is one.
LEMMA SetToSeqType ==
  ASSUME NEW S, IsFiniteSet(S)
  PROVE  SetToSeq(S) \in Seq(S)
<1>1. Cardinality(S) \in Nat /\ ExistsBijection(1 .. Cardinality(S), S)
  BY FS_CardinalityType
<1>2. PICK f \in [1 .. Cardinality(S) -> S] : IsInjective(f)
  BY <1>1 DEF ExistsBijection, Bijection, Injection
<1>3. SetToSeq(S) \in [1 .. Cardinality(S) -> S]
  BY <1>2 DEF SetToSeq
<1> QED BY <1>1, <1>3

\* A sequence with no repeats and its tail.
LEMMA ToSetOfTail ==
  ASSUME NEW S, NEW s \in Seq(S), s # <<>>
  PROVE  ToSet(s) = {Head(s)} \cup ToSet(Tail(s)) /\ ToSet(s) \subseteq S
<1>1. Len(s) \in Nat \ {0} /\ DOMAIN s = 1 .. Len(s) /\ Head(s) = s[1] /\ \A i \in 1 .. Len(s) : s[i] \in S
  OBVIOUS
<1>2. DOMAIN Tail(s) = 1 .. Len(s) - 1 /\ \A i \in 1 .. Len(s) - 1 : Tail(s)[i] = s[i + 1]
  OBVIOUS
<1>3. ASSUME NEW n \in ToSet(s) PROVE n \in {Head(s)} \cup ToSet(Tail(s))
  <2>1. PICK i \in 1 .. Len(s) : n = s[i]
    BY <1>1 DEF ToSet
  <2>2. CASE i = 1
    BY <1>1, <2>1, <2>2
  <2>3. CASE i # 1
    <3>1. i - 1 \in 1 .. Len(s) - 1 /\ Tail(s)[i - 1] = s[i]
      BY <1>1, <1>2, <2>3
    <3> QED BY <1>2, <2>1, <3>1 DEF ToSet
  <2> QED BY <2>2, <2>3
<1>4. ASSUME NEW n \in ToSet(Tail(s)) PROVE n \in ToSet(s)
  <2>1. PICK i \in 1 .. Len(s) - 1 : n = s[i + 1]
    BY <1>2 DEF ToSet
  <2>2. i + 1 \in 1 .. Len(s)
    BY <1>1
  <2> QED BY <1>1, <2>1, <2>2 DEF ToSet
<1>5. Head(s) \in ToSet(s) /\ ToSet(s) \subseteq S
  BY <1>1 DEF ToSet
<1> QED BY <1>3, <1>4, <1>5

\* Names are what Lists says initially.
LEMMA ListsStart == Init => Lists
<1> SUFFICES ASSUME Init PROVE Lists
  OBVIOUS
<1>1. todo = List /\ placed = [p \in Putters |-> {}]
  BY DEF Init
<1>2. \A p \in Procs : pc[p] = "idle"
  BY DEF Init
<1>3. ASSUME NEW r \in Removers PROVE List[r] \in Seq(ToSet(List[r]) \cup Prefixed[r])
  <2>1. List[r] \in Seq(Given)
    BY DeployAssumption DEF Procs
  <2>2. Len(List[r]) \in Nat /\ List[r] = [i \in 1 .. Len(List[r]) |-> List[r][i]]
    BY <2>1
  <2>3. \A i \in 1 .. Len(List[r]) : List[r][i] \in ToSet(List[r])
    BY <2>1 DEF ToSet
  <2> QED BY <2>2, <2>3
<1> QED BY <1>1, <1>2, <1>3 DEF Lists, Procs

\* A step that takes nothing off a list, and leaves every remove where it has
\* a name or needs none.
LEMMA ListsKept ==
  ASSUME Lists, UNCHANGED <<todo, placed>>,
         \A r \in Removers : /\ pc'[r] \in {pc[r], "ended", "walk", "list", "stat", "unlink"}
                             /\ pc'[r] = "unlink" => todo[r] # <<>>
  PROVE  Lists'
BY DEF Lists

\* So do a put's steps but rename().
LEMMA ListsOfPut ==
  ASSUME Types, Lists, NEW p \in Putters,
         Mkdir(p) \/ Reopen(p) \/ Look(p) \/ Stat(p) \/ Create(p) \/ Copy(p) \/ Chmod(p) \/ Fsync(p)
  PROVE  Lists'
<1>1. UNCHANGED <<todo, placed>>
  BY DEF Mkdir, Reopen, Look, Stat, Create, Copy, Chmod, Fsync
<1>2. pc' = pc \/ \E w : pc' = [pc EXCEPT ![p] = w]
  BY DEF Mkdir, Reopen, Look, Stat, Create, Copy, Chmod, Fsync, Dies, Exits, Goes, CleansUp, Descends
<1>3. \A r \in Removers : r # p /\ r \in Procs
  BY DeployAssumption DEF Procs
<1>4. \A r \in Removers : pc'[r] = pc[r]
  BY <1>2, <1>3 DEF Types
<1> QED BY <1>1, <1>4, ListsKept DEF Lists

\* rename() moves a name from those to place to those placed.
LEMMA ListsOfRename ==
  ASSUME Inv, Lists, NEW p \in Putters, Rename(p)
  PROVE  Lists'
<1>1. Types /\ p \in Procs /\ pc[p] = "rename" /\ \A r \in Removers : r # p /\ r \in Procs
  BY DeployAssumption DEF Inv, Rename, Procs
<1>2. \E w : pc' = [pc EXCEPT ![p] = w]
  BY DEF Rename, CleansUp, Dies, Exits, Goes
<1>3. \A r \in Removers : pc'[r] = pc[r]
  BY <1>1, <1>2 DEF Types
<1>4. CASE UNCHANGED <<todo, placed>>
  BY <1>3, <1>4, ListsKept DEF Lists
<1>5. CASE /\ placed' = [placed EXCEPT ![p] = @ \cup {Name(p)}]
           /\ todo' = [todo EXCEPT ![p] = Tail(@)]
  <2>1. /\ todo[p] \in Seq(Names) /\ todo[p] # <<>> /\ todo = [q \in Procs |-> todo[q]]
    BY <1>1 DEF Types
  <2>2. \A q \in Procs : todo'[q] = IF q = p THEN Tail(todo[p]) ELSE todo[q]
    BY <1>5, <2>1
  <2>3. ToSet(todo[p]) = {Name(p)} \cup ToSet(Tail(todo[p]))
    BY <2>1, ToSetOfTail DEF Name
  <2>4. ASSUME NEW q \in Putters PROVE placed'[q] \cup ToSet(todo'[q]) = ToSet(List[q])
    <3>1. q \in Procs /\ placed[q] \cup ToSet(todo[q]) = ToSet(List[q])
      BY DEF Procs, Lists
    <3>2. CASE q # p
      BY <1>5, <2>2, <3>1, <3>2
    <3>3. CASE q = p
      <4>1. placed'[p] = placed[p] \cup {Name(p)}
        BY <1>5, Zenon DEF Lists
      <4> QED BY <2>2, <2>3, <3>1, <3>3, <4>1
    <3> QED BY <3>2, <3>3
  <2>5. \A r \in Removers : todo'[r] = todo[r]
    BY <1>1, <2>2
  <2>6. placed' = [q \in Putters |-> placed'[q]]
    BY <1>5 DEF Lists
  <2> QED BY <1>3, <2>4, <2>5, <2>6 DEF Lists
<1> QED BY <1>4, <1>5 DEF Rename

\* A remove's list is of names it was given and names its patterns match; it
\* unlinks only when there is one.
LEMMA ListsOfRemove ==
  ASSUME Types, Lists, NEW p \in Removers, ListNames(p) \/ Examine(p) \/ Unlink(p) \/ Finish(p)
  PROVE  Lists'
<1> DEFINE Mine == ToSet(List[p]) \cup Prefixed[p]
<1>1. p \in Procs /\ todo[p] \in Seq(Mine) /\ \A q \in Putters : q # p /\ q \in Procs
  BY DeployAssumption DEF Lists, Procs
<1>2. pc \in [Procs -> Places] /\ todo = [q \in Procs |-> todo[q]] /\ placed' = placed
  BY DEF Types, ListNames, Examine, Unlink, Finish
<1>3. ASSUME NEW w \in {"ended", "stat", "unlink"}, pc' = [pc EXCEPT ![p] = w],
             NEW s \in Seq(Mine), todo' = [todo EXCEPT ![p] = s], w = "unlink" => s # <<>>
      PROVE  Lists'
  <2>1. \A q \in Procs : /\ todo'[q] = IF q = p THEN s ELSE todo[q]
                         /\ pc'[q] = IF q = p THEN w ELSE pc[q]
    BY <1>2, <1>3
  <2>2. \A q \in Putters : placed'[q] \cup ToSet(todo'[q]) = ToSet(List[q])
    BY <1>1, <1>2, <2>1 DEF Lists
  <2>3. ASSUME NEW r \in Removers
        PROVE  /\ todo'[r] \in Seq(ToSet(List[r]) \cup Prefixed[r])
               /\ pc'[r] \in {"idle", "ended", "walk", "list", "stat", "unlink"}
               /\ pc'[r] = "unlink" => todo'[r] # <<>>
    <3>1. r \in Procs
      BY DEF Procs
    <3>2. CASE r = p
      BY <1>3, <2>1, <3>1, <3>2
    <3>3. CASE r # p
      BY <2>1, <3>1, <3>3 DEF Lists
    <3> QED BY <3>2, <3>3
  <2> QED BY <1>2, <2>2, <2>3 DEF Lists
<1>4. todo = [todo EXCEPT ![p] = todo[p]]
  BY <1>2
<1>5. CASE ListNames(p)
  <2> DEFINE found == {n \in Prefixed[p] : Entry(p, Plain(n)) # None}
  <2>1. IsFiniteSet(found)
    <3>1. IsFiniteSet(Prefixed[p]) /\ found \subseteq Prefixed[p]
      BY DeployAssumption
    <3> QED BY <3>1, FS_Subset
  <2>2. SetToSeq(found) \in Seq(found)
    BY <2>1, SetToSeqType
  <2>3. List[p] \in Seq(Mine)
    <3>1. List[p] \in Seq(Given)
      BY <1>1, DeployAssumption
    <3>2. Len(List[p]) \in Nat /\ List[p] = [i \in 1 .. Len(List[p]) |-> List[p][i]]
      BY <3>1
    <3>3. \A i \in 1 .. Len(List[p]) : List[p][i] \in ToSet(List[p])
      BY <3>1 DEF ToSet
    <3> QED BY <3>2, <3>3
  <2>4. SetToSeq(found) \in Seq(Mine)
    <3>1. found \subseteq Mine
      OBVIOUS
    <3> HIDE DEF found, Mine
    <3> QED BY <2>2, <3>1
  <2>5. ExpandNames(p) \in Seq(Mine)
    <3>1. ExpandNames(p) = List[p] \o SetToSeq(found)
      BY Zenon DEF ExpandNames
    <3> HIDE DEF found, Mine
    <3> QED BY <2>3, <2>4, <3>1
  <2>6. todo' = [todo EXCEPT ![p] = ExpandNames(p)] /\ pc' = [pc EXCEPT ![p] = "stat"]
    BY <1>5 DEF ListNames, Goes
  <2> HIDE DEF Mine
  <2> QED BY <1>3, <2>5, <2>6
<1>6. ASSUME todo[p] # <<>>, NextName(p) PROVE Lists'
  <2>1. todo' = [todo EXCEPT ![p] = Tail(todo[p])] /\ pc' = [pc EXCEPT ![p] = "stat"]
    BY <1>6 DEF NextName, Goes
  <2>2. Tail(todo[p]) \in Seq(Mine)
    BY <1>1, <1>6
  <2> HIDE DEF Mine
  <2> QED BY <1>3, <2>1, <2>2
<1>7. CASE Examine(p)
  <2>1. CASE Goes(p, "unlink") /\ UNCHANGED todo
    <3>1. todo' = [todo EXCEPT ![p] = todo[p]] /\ pc' = [pc EXCEPT ![p] = "unlink"] /\ todo[p] # <<>>
      BY <1>4, <1>7, <2>1 DEF Goes, Examine
    <3> HIDE DEF Mine
    <3> QED BY <1>1, <1>3, <3>1
  <2> QED BY <1>6, <1>7, <2>1 DEF Examine
<1>8. ASSUME \E s : Exits(p, s), UNCHANGED todo PROVE Lists'
  <2>1. todo' = [todo EXCEPT ![p] = todo[p]] /\ pc' = [pc EXCEPT ![p] = "ended"]
    BY <1>4, <1>8 DEF Exits
  <2> HIDE DEF Mine
  <2> QED BY <1>1, <1>3, <2>1
<1>9. CASE Unlink(p)
  <2>1. todo[p] # <<>>
    BY <1>9 DEF Unlink, Lists
  <2> QED BY <1>6, <1>8, <1>9, <2>1 DEF Unlink, Dies
<1>10. CASE Finish(p)
  BY <1>8, <1>10 DEF Finish, Dies
<1> QED BY <1>5, <1>7, <1>9, <1>10

\* Names stay what Lists says.
LEMMA ListsStep == Inv /\ Lists /\ [Next]_vars => Lists'
<1> SUFFICES ASSUME Inv, Lists, [Next]_vars PROVE Lists'
  OBVIOUS
<1>0. Types /\ pc \in [Procs -> Places] /\ \A r \in Removers : r \in Procs
  BY DEF Inv, Types, Procs
<1>1. ASSUME NEW p \in Procs, Start(p) \/ Walk(p) \/ Kill(p) PROVE Lists'
  <2>1. UNCHANGED <<todo, placed>>
    BY <1>1 DEF Start, Walk, Kill
  <2>2. PICK w : pc' = [pc EXCEPT ![p] = w] /\ (p \in Removers => w \in {"walk", "ended", "list"})
    <3>1. \A r \in Removers : r \notin Putters
      BY DeployAssumption
    <3>2. CASE Start(p)
      BY <3>2 DEF Start, Goes
    <3>3. CASE Kill(p)
      BY <3>3 DEF Kill, Exits
    <3>4. CASE Walk(p)
      BY <3>1, <3>4 DEF Walk, Goes, Exits, Dies, Descends
    <3> QED BY <1>1, <3>2, <3>3, <3>4
  <2>3. \A r \in Removers : pc'[r] = IF r = p THEN w ELSE pc[r]
    BY <1>0, <2>2
  <2>4. \A r \in Removers : /\ pc'[r] \in {pc[r], "ended", "walk", "list", "stat", "unlink"}
                            /\ pc'[r] = "unlink" => todo[r] # <<>>
    BY <2>2, <2>3 DEF Lists
  <2> QED BY <2>1, <2>4, ListsKept
<1>2. ASSUME NEW p \in Putters,
             Mkdir(p) \/ Reopen(p) \/ Look(p) \/ Stat(p) \/ Create(p) \/ Copy(p) \/ Chmod(p) \/ Fsync(p)
      PROVE  Lists'
  BY <1>0, <1>2, ListsOfPut
<1>3. ASSUME NEW p \in Putters, Rename(p) PROVE Lists'
  BY <1>3, ListsOfRename
<1>4. ASSUME NEW p \in Removers, ListNames(p) \/ Examine(p) \/ Unlink(p) \/ Finish(p) PROVE Lists'
  BY <1>0, <1>4, ListsOfRemove
<1>5. CASE PowerLoss
  <2>1. UNCHANGED <<todo, placed>> /\ \A r \in Removers : pc'[r] \in {pc[r], "ended"}
    BY <1>0, <1>5 DEF PowerLoss
  <2>2. \A r \in Removers : /\ pc'[r] \in {pc[r], "ended", "walk", "list", "stat", "unlink"}
                            /\ pc'[r] = "unlink" => todo[r] # <<>>
    BY <2>1 DEF Lists
  <2> QED BY <2>1, <2>2, ListsKept
<1>6. CASE UserEntry \/ UserFile \/ UserClones \/ UserDirectory \/ UNCHANGED vars
  <2>1. UNCHANGED <<pc, todo, placed>>
    BY <1>6 DEF UserEntry, UserFile, UserClones, UserDirectory, vars
  <2> QED BY <2>1 DEF Lists
<1> QED BY <1>1, <1>2, <1>3, <1>4, <1>5, <1>6 DEF Next

\* What the types are of, at every moment, for any invocations, depth and sizes:
\* in particular every directory an invocation has open is one that was below
\* the home directory when walkFromHome() opened it, and a directory that is
\* gone takes its entries with it.
THEOREM DeployTypes == Spec => []TypeOK
<1>1. Inv /\ Walks /\ Lists => TypeOK
  <2> SUFFICES ASSUME Inv, Walks, Lists PROVE TypeOK
    OBVIOUS
  <2>1. ASSUME NEW p \in Procs
        PROVE  /\ status[p] \in {-2, -1, 0, 1, 3} /\ (status[p] # -1) = (pc[p] = "ended")
               /\ level[p] \in 0 .. Depth
               /\ held[p] \in Home .. made /\ parent[p] \in {Absent} \cup Home .. made
    <3>1. status[p] \in {-2, -1, 0, 1, 3} /\ (status[p] # -1 <=> pc[p] = "ended")
      BY DEF Walks, Statuses
    <3>2. (status[p] # -1) = (pc[p] = "ended")
      BY <3>1
    <3> QED BY <3>1, <3>2 DEF Walks
  <2>2. ASSUME NEW p \in Procs PROVE ToSet(todo[p]) \subseteq Names
    <3>1. \A q \in Procs : ToSet(List[q]) \subseteq Names
      BY DEF Names, Given
    <3>2. CASE p \in Putters
      BY <3>1, <3>2 DEF Lists
    <3>3. CASE p \in Removers
      <4>1. Prefixed[p] \subseteq Names
        BY <3>3, DeployAssumption DEF Names
      <4>2. todo[p] \in Seq(ToSet(List[p]) \cup Prefixed[p])
        BY <3>3 DEF Lists
      <4>3. ToSet(todo[p]) \subseteq ToSet(List[p]) \cup Prefixed[p]
        BY <4>2 DEF ToSet
      <4> QED BY <3>1, <4>1, <4>3
    <3> QED BY <3>2, <3>3 DEF Procs
  <2>3. \A l \in 0 .. Depth : dirs[l] \in {Absent, Link} \cup Home .. made
    BY DEF Walks
  <2>4. \A k \in Keys : entries[k] \in {None, Other("dir"), Other("link")} \cup {File(i) : i \in Ids}
    BY DEF Inv, Types, Entries
  <2>5. dirs[Depth] \in {Absent, Link} => entries = Empty
    BY DEF Walks
  <2>6. ASSUME NEW i \in Ids PROVE inodes[i].chunks \in 0 .. Chunks
    <3>1. inodes[i].chunks \in Nat /\ inodes[i].chunks <= Chunks /\ Chunks \in Nat
      BY DeployAssumption DEF Inv, Types, Inodes, Walks
    <3> QED BY <3>1
  <2>7. \A p \in Putters : placed[p] \subseteq ToSet(List[p])
    BY DEF Lists
  <2> QED BY <2>1, <2>2, <2>3, <2>4, <2>5, <2>6, <2>7 DEF TypeOK
<1> QED BY <1>1, Starts, Steps, WalksStart, WalksStep, ListsStart, ListsStep, PTL DEF Spec

\* What is counted, at every step.
LEMMA CountsInvariant == Spec => []Counts
<1>1. Init => Counts
  BY DEF Init, Counts
<1>2. Counts /\ [Next]_vars => Counts'
  <2> SUFFICES ASSUME Counts, [Next]_vars PROVE Counts'
    OBVIOUS
  <2>1. (acts' = acts \/ acts' = acts + 1) /\ (faults' = faults \/ faults' = faults + 1)
    BY Zenon DEF Next, vars, Start, Walk, Kill, Mkdir, Reopen, Look, Stat, Create, Copy, Chmod, Fsync, Rename,
                 ListNames, Examine, Unlink, Finish, PowerLoss, UserEntry, UserFile, UserClones, UserDirectory,
                 Act, Fault
  <2> QED BY <2>1 DEF Counts
<1> QED BY <1>1, <1>2, PTL DEF Spec

\* What a step of an invocation changes, it may.
LEMMA OwnStep == Inv /\ Lists /\ Counts /\ [Next]_vars => ChangesOwn
<1> SUFFICES ASSUME Inv, Lists, Counts, [Next]_vars, acts' = acts,
                    NEW k \in Keys, entries'[k] # entries[k]
             PROVE  /\ entries[k].kind # "dir"
                    /\ \E p \in Procs : Running(p) /\ k \in Own(p)
  BY DEF ChangesOwn
<1>1. Types /\ entries = [key \in Keys |-> entries[key]]
  BY DEF Inv, Types
<1>2. None.kind = "none" /\ \A i : File(i).kind = "file"
  BY DEF None, File
<1>3. ASSUME NEW p \in Putters, pc[p] \notin {"idle", "ended"}
      PROVE  Name(p) \in ToSet(List[p]) /\ Name(p) \in Names
  <2>1. todo[p] \in Seq(Names) /\ todo[p] # <<>>
    BY <1>1, <1>3 DEF Types
  <2> QED BY <2>1, ToSetOfTail DEF Name, Lists
<1>4. ASSUME NEW p \in Putters, pc[p] \notin {"idle", "ended"}, k = Temp(Name(p), p)
      PROVE  entries[k].kind # "dir" /\ k \in Own(p)
  <2>1. entries[k] \in {None, File(<<p, Name(p)>>)}
    BY <1>3, <1>4 DEF Inv, OwnTemps
  <2>2. k \in Own(p)
    BY <1>3, <1>4 DEF Own
  <2> QED BY <1>2, <2>1, <2>2
<1>5. ASSUME NEW p \in Putters, Create(p) \/ Chmod(p) \/ Fsync(p) \/ Rename(p)
      PROVE  /\ entries[k].kind # "dir"
             /\ \E q \in Procs : Running(q) /\ k \in Own(q)
  <2>1. p \in Procs /\ Running(p) /\ pc[p] \notin {"idle", "ended"}
    BY <1>5 DEF Procs, Running, Create, Chmod, Fsync, Rename
  <2>2. CASE k = Temp(Name(p), p)
    BY <1>4, <2>1, <2>2
  <2>3. CASE k # Temp(Name(p), p)
    <3>1. \A e : entries' # [entries EXCEPT ![Temp(Name(p), p)] = e]
      BY <1>1, <2>3
    <3>2. /\ Rename(p) /\ entries[Plain(Name(p))].kind # "dir"
          /\ entries' = [entries EXCEPT ![Plain(Name(p))] = entries[Temp(Name(p), p)],
                                        ![Temp(Name(p), p)] = None]
      BY <1>5, <3>1 DEF Create, Chmod, Fsync, Rename, CleansUp
    <3>3. k = Plain(Name(p))
      BY <1>1, <2>3, <3>2
    <3>4. k \in Own(p)
      BY <1>3, <2>1, <3>3 DEF Own
    <3> QED BY <2>1, <3>2, <3>3, <3>4
  <2> QED BY <2>2, <2>3
<1>6. ASSUME NEW p \in Removers, Unlink(p)
      PROVE  /\ entries[k].kind # "dir"
             /\ \E q \in Procs : Running(q) /\ k \in Own(q)
  <2>1. p \in Procs /\ p \notin Putters /\ Running(p) /\ todo[p] # <<>>
    BY <1>6, DeployAssumption DEF Procs, Running, Unlink, Lists
  <2>2. /\ Entry(p, Plain(Name(p))).kind \in {"file", "link"}
        /\ entries' = [entries EXCEPT ![Plain(Name(p))] = None]
    BY <1>6 DEF Unlink
  <2>3. k = Plain(Name(p))
    BY <1>1, <2>2
  <2>4. entries[k].kind # "dir"
    BY <1>2, <2>2, <2>3 DEF Entry
  <2>5. Name(p) \in ToSet(List[p]) \cup Prefixed[p]
    <3>1. todo[p] \in Seq(ToSet(List[p]) \cup Prefixed[p])
      BY DEF Lists
    <3> QED BY <2>1, <3>1 DEF Name
  <2>6. k \in Own(p)
    BY <2>1, <2>3, <2>5 DEF Own
  <2> QED BY <2>1, <2>4, <2>6
<1>7. entries' # entries
  OBVIOUS
<1>8. ~(UserEntry \/ UserFile \/ UserClones \/ UserDirectory)
  <2>1. UserEntry \/ UserFile \/ UserClones \/ UserDirectory => acts' = acts + 1
    BY DEF UserEntry, UserFile, UserClones, UserDirectory, Act
  <2>2. acts + 1 # acts
    BY DEF Counts
  <2> QED BY <2>1, <2>2
<1> QED BY <1>5, <1>6, <1>7, <1>8
        DEF Next, vars, Start, Walk, Kill, Mkdir, Reopen, Look, Stat, Copy, ListNames, Examine, Finish, PowerLoss

\* No put and no remove changes an entry it was not given, or one that has come
\* to be a directory since it looked: for any lists, patterns and invocations
\* at once, whatever other programs put in the way.
THEOREM ChangesOnlyItsOwn == Spec => OnlyItsOwn
BY Starts, Steps, ListsStart, ListsStep, CountsInvariant, OwnStep, PTL DEF Spec, OnlyItsOwn

-----------------------------------------------------------------------------
(* The exit status. *)

\* The steps of one put, and what no other step changes of it.
PutStep(p) ==
  \/ Start(p) \/ Walk(p) \/ Kill(p) \/ Mkdir(p) \/ Reopen(p) \/ Look(p) \/ Stat(p) \/ Create(p)
  \/ Copy(p) \/ Chmod(p) \/ Fsync(p) \/ Rename(p)
RemoveStep(r) ==
  Start(r) \/ Walk(r) \/ Kill(r) \/ ListNames(r) \/ Examine(r) \/ Unlink(r) \/ Finish(r)
UserStep == UserEntry \/ UserFile \/ UserClones \/ UserDirectory
Same(p) ==
  /\ pc'[p] = pc[p] /\ status'[p] = status[p] /\ level'[p] = level[p] /\ held'[p] = held[p]
  /\ src'[p] = src[p] /\ todo'[p] = todo[p] /\ placed'[p] = placed[p]
HasSources == src = [p \in Putters |-> src[p]]

\* Each put keeps its sources.
LEMMA SourcesInvariant == Spec => []HasSources
<1>1. Init => HasSources
  BY DEF Init, HasSources
<1>2. HasSources /\ [Next]_vars => HasSources'
  <2> SUFFICES ASSUME HasSources, [Next]_vars PROVE HasSources'
    OBVIOUS
  <2>1. src' = src \/ \E p \in Procs : \E f : src' = [src EXCEPT ![p] = f]
    BY Zenon DEF Next, vars, Start, Walk, Kill, Mkdir, Reopen, Look, Stat, Create, Copy, Chmod, Fsync, Rename,
                 ListNames, Examine, Unlink, Finish, PowerLoss, UserEntry, UserFile, UserClones, UserDirectory
  <2> QED BY <2>1 DEF HasSources
<1> QED BY <1>1, <1>2, PTL DEF Spec

\* Who moves.
LEMMA WhoMoves ==
  ASSUME [Next]_vars
  PROVE  \/ \E p \in Putters : PutStep(p)
         \/ \E r \in Removers : RemoveStep(r)
         \/ PowerLoss \/ UserStep \/ UNCHANGED vars
<1>1. ASSUME NEW p \in Procs, Start(p) \/ Walk(p) \/ Kill(p)
      PROVE  (\E q \in Putters : PutStep(q)) \/ \E r \in Removers : RemoveStep(r)
  BY <1>1 DEF Procs, PutStep, RemoveStep
<1> QED BY <1>1 DEF Next, PutStep, RemoveStep, UserStep

\* An invocation's steps are about itself.
LEMMA OthersSame ==
  ASSUME Inv, Walks, Lists, HasSources, NEW q \in Putters,
         \/ \E p \in Putters \ {q} : PutStep(p)
         \/ \E r \in Removers : RemoveStep(r)
         \/ UserStep \/ UNCHANGED vars
  PROVE  Same(q)
<1>1. /\ q \in Procs
      /\ pc \in [Procs -> Places] /\ status \in [Procs -> Statuses]
      /\ level \in [Procs -> 0 .. Depth] /\ held \in [Procs -> Home .. made]
      /\ todo = [p \in Procs |-> todo[p]]
      /\ src = [p \in Putters |-> src[p]] /\ placed = [p \in Putters |-> placed[p]]
  BY DEF Procs, Inv, Types, Walks, Lists, HasSources
<1>2. ASSUME NEW p, p # q, PutStep(p) \/ RemoveStep(p) PROVE Same(q)
  <2>1. pc' = pc \/ \E w : pc' = [pc EXCEPT ![p] = w]
    BY <1>2, Zenon DEF PutStep, RemoveStep, Start, Walk, Kill, Mkdir, Reopen, Look, Stat, Create, Copy, Chmod, Fsync,
              Rename, ListNames, Examine, Unlink, Finish, NextName, CleansUp, Dies, Exits, Goes, Descends
  <2>2. status' = status \/ \E s : status' = [status EXCEPT ![p] = s]
    BY <1>2, Zenon DEF PutStep, RemoveStep, Start, Walk, Kill, Mkdir, Reopen, Look, Stat, Create, Copy, Chmod, Fsync,
              Rename, ListNames, Examine, Unlink, Finish, NextName, CleansUp, Dies, Exits, Goes, Descends
  <2>3. /\ level' = level \/ level' = [level EXCEPT ![p] = @ + 1]
        /\ held' = held \/ \E d : held' = [held EXCEPT ![p] = d]
    BY <1>2, Zenon DEF PutStep, RemoveStep, Start, Walk, Kill, Mkdir, Reopen, Look, Stat, Create, Copy, Chmod, Fsync,
              Rename, ListNames, Examine, Unlink, Finish, Descends, walkVars
  <2>4. src' = src \/ \E f : src' = [src EXCEPT ![p] = f]
    BY <1>2, Zenon DEF PutStep, RemoveStep, Start, Walk, Kill, Mkdir, Reopen, Look, Stat, Create, Copy, Chmod, Fsync,
              Rename, ListNames, Examine, Unlink, Finish
  <2>5. todo' = todo \/ \E t : todo' = [todo EXCEPT ![p] = t]
    BY <1>2, Zenon DEF PutStep, RemoveStep, Start, Walk, Kill, Mkdir, Reopen, Look, Stat, Create, Copy, Chmod, Fsync,
              Rename, ListNames, Examine, Unlink, Finish, NextName
  <2>6. placed' = placed \/ \E s : placed' = [placed EXCEPT ![p] = s]
    BY <1>2, Zenon DEF PutStep, RemoveStep, Start, Walk, Kill, Mkdir, Reopen, Look, Stat, Create, Copy, Chmod, Fsync,
              Rename, ListNames, Examine, Unlink, Finish
  <2>7. pc'[q] = pc[q] /\ status'[q] = status[q]
    BY <1>1, <1>2, <2>1, <2>2
  <2>8. level'[q] = level[q] /\ held'[q] = held[q]
    BY <1>1, <1>2, <2>3
  <2>9. src'[q] = src[q] /\ todo'[q] = todo[q] /\ placed'[q] = placed[q]
    BY <1>1, <1>2, <2>4, <2>5, <2>6
  <2> QED BY <2>7, <2>8, <2>9 DEF Same
<1>3. CASE UserStep \/ UNCHANGED vars
  BY <1>3 DEF UserStep, UserEntry, UserFile, UserClones, UserDirectory, vars, walkVars, Same
<1>4. \A r \in Removers : r # q
  BY DeployAssumption
<1> QED BY <1>2, <1>3, <1>4

\* What becomes of an entry: of a target, nothing, or what is put there; of a
\* temporary, what its put does with it.
LEMMA StepOfEntries ==
  ASSUME Inv, [Next]_vars
  PROVE  /\ \A m \in Names : \/ entries'[Plain(m)] \in {entries[Plain(m)], None}
                             \/ \E p \in Putters, n \in Names : entries'[Plain(m)] = File(<<p, n>>)
                             \/ /\ UserStep
                                /\ \/ entries'[Plain(m)] \in {Other("dir"), Other("link")}
                                   \/ \E n \in Names : entries'[Plain(m)] = File(Theirs(n))
         /\ \A q \in Putters, n \in Names :
              \/ entries'[Temp(n, q)] = entries[Temp(n, q)]
              \/ entries'[Temp(n, q)] = None /\ UserStep
              \/ entries'[Temp(n, q)] = None /\ n = Name(q) /\ (Chmod(q) \/ Fsync(q) \/ Rename(q))
              \/ n = Name(q) /\ Create(q)
<1>1. /\ entries = [k \in Keys |-> entries[k]] /\ Types
      /\ \A m \in Names : Plain(m) \in Keys
      /\ \A q \in Putters, n \in Names : Temp(n, q) \in Keys /\ \A m : Temp(n, q) # Plain(m)
  <2>1. entries = [k \in Keys |-> entries[k]] /\ Types
    BY DEF Inv, Types
  <2>2. \A m \in Names : Plain(m) \in Keys
    BY NameFacts
  <2>3. \A q \in Putters, n \in Names : Temp(n, q) \in Keys /\ \A m : Temp(n, q) # Plain(m)
    BY NameFacts
  <2> QED BY <2>1, <2>2, <2>3
<1>2. CASE entries' = entries
  BY <1>2
<1>3. ASSUME NEW n, NEW e, entries' = [entries EXCEPT ![Plain(n)] = e],
             \/ e = None
             \/ UserStep /\ (e \in {Other("dir"), Other("link")} \/ \E m \in Names : e = File(Theirs(m)))
      PROVE  /\ \A m \in Names : \/ entries'[Plain(m)] \in {entries[Plain(m)], None}
                                 \/ /\ UserStep
                                    /\ \/ entries'[Plain(m)] \in {Other("dir"), Other("link")}
                                       \/ \E k \in Names : entries'[Plain(m)] = File(Theirs(k))
             /\ \A q \in Putters, m \in Names : entries'[Temp(m, q)] = entries[Temp(m, q)]
  <2>1. \A k \in Keys : entries'[k] = IF k = Plain(n) THEN e ELSE entries[k]
    BY <1>1, <1>3
  <2>2. \A m \in Names : entries'[Plain(m)] \in {entries[Plain(m)], e}
    BY <1>1, <2>1
  <2>3. \A q \in Putters, m \in Names : entries'[Temp(m, q)] = entries[Temp(m, q)]
    BY <1>1, <2>1
  <2> QED BY <1>3, <2>2, <2>3
<1>4. ASSUME NEW p \in Putters, NEW e, entries' = [entries EXCEPT ![Temp(Name(p), p)] = e],
             (e = None /\ (Chmod(p) \/ Fsync(p) \/ Rename(p))) \/ Create(p)
      PROVE  /\ \A m \in Names : entries'[Plain(m)] = entries[Plain(m)]
             /\ \A q \in Putters, n \in Names :
                  \/ entries'[Temp(n, q)] = entries[Temp(n, q)]
                  \/ entries'[Temp(n, q)] = None /\ n = Name(q) /\ (Chmod(q) \/ Fsync(q) \/ Rename(q))
                  \/ n = Name(q) /\ Create(q)
  <2>1. \A k \in Keys : entries'[k] = IF k = Temp(Name(p), p) THEN e ELSE entries[k]
    BY <1>1, <1>4
  <2>2. \A m : Plain(m) # Temp(Name(p), p)
    <3>1. "" \notin Putters
      BY DeployAssumption
    <3> QED BY <3>1 DEF Plain, Temp
  <2>3. \A m \in Names : entries'[Plain(m)] = entries[Plain(m)]
    BY <1>1, <2>1, <2>2
  <2>4. ASSUME NEW q \in Putters, NEW n \in Names
        PROVE  \/ entries'[Temp(n, q)] = entries[Temp(n, q)]
               \/ entries'[Temp(n, q)] = None /\ n = Name(q) /\ (Chmod(q) \/ Fsync(q) \/ Rename(q))
               \/ n = Name(q) /\ Create(q)
    <3>1. CASE Temp(n, q) # Temp(Name(p), p)
      BY <1>1, <2>1, <3>1
    <3>2. CASE Temp(n, q) = Temp(Name(p), p)
      <4>1. n = Name(p) /\ q = p
        BY <3>2 DEF Temp
      <4>2. entries'[Temp(n, q)] = e
        BY <1>1, <2>1, <3>2
      <4> QED BY <1>4, <4>1, <4>2
    <3> QED BY <3>1, <3>2
  <2> QED BY <2>3, <2>4
<1>5. CASE \E p \in Putters : PutStep(p)
  <2>1. PICK p \in Putters : PutStep(p)
    BY <1>5
  <2>2. CASE Create(p)
    BY <1>2, <1>4, <2>2 DEF Create
  <2>3. CASE Chmod(p) \/ Fsync(p)
    BY <1>2, <1>4, <2>3 DEF Chmod, Fsync, CleansUp
  <2>4. CASE Rename(p)
    <3>1. CASE CleansUp(p)
      BY <1>2, <1>4, <2>4, <3>1 DEF CleansUp
    <3>2. CASE entries' = [entries EXCEPT ![Plain(Name(p))] = entries[Temp(Name(p), p)],
                                          ![Temp(Name(p), p)] = None]
      <4>1. Name(p) \in Names
        BY <1>1, <2>4, TailFacts DEF Types, Name, Rename
      <4>2. \A k \in Keys : entries'[k] = IF k = Temp(Name(p), p) THEN None
                                          ELSE IF k = Plain(Name(p)) THEN entries[Temp(Name(p), p)]
                                          ELSE entries[k]
        BY <1>1, <3>2
      <4>3. entries[Temp(Name(p), p)] \in {None, File(<<p, Name(p)>>)}
        BY <4>1 DEF Inv, OwnTemps
      <4>4. \A m \in Names : entries'[Plain(m)] \in {entries[Plain(m)], None, File(<<p, Name(p)>>)}
        BY <1>1, <4>1, <4>2, <4>3
      <4>5. ASSUME NEW q \in Putters, NEW n \in Names
            PROVE  \/ entries'[Temp(n, q)] = entries[Temp(n, q)]
                   \/ entries'[Temp(n, q)] = None /\ n = Name(q) /\ Rename(q)
        <5>1. CASE Temp(n, q) # Temp(Name(p), p)
          BY <1>1, <4>2, <5>1
        <5>2. CASE Temp(n, q) = Temp(Name(p), p)
          <6>1. n = Name(p) /\ q = p
            BY <5>2 DEF Temp
          <6> QED BY <1>1, <2>4, <4>2, <5>2, <6>1
        <5> QED BY <5>1, <5>2
      <4> QED BY <4>1, <4>4, <4>5
    <3> QED BY <2>4, <3>1, <3>2 DEF Rename
  <2>5. CASE ~(Create(p) \/ Chmod(p) \/ Fsync(p) \/ Rename(p))
    BY <1>2, <2>1, <2>5 DEF PutStep, Start, Walk, Kill, Mkdir, Reopen, Look, Stat, Copy
  <2> QED BY <2>2, <2>3, <2>4, <2>5
<1>6. CASE \E r \in Removers : RemoveStep(r)
  <2>1. PICK r \in Removers : RemoveStep(r)
    BY <1>6
  <2>2. entries' = entries \/ \E n : entries' = [entries EXCEPT ![Plain(n)] = None]
    BY <2>1, Zenon DEF RemoveStep, Start, Walk, Kill, ListNames, Examine, Unlink, Finish
  <2> QED BY <1>2, <1>3, <2>2
<1>7. CASE UserEntry \/ UserFile \/ UserClones
  <2>1. PICK n, e : /\ entries' = [entries EXCEPT ![Plain(n)] = e]
                    /\ \/ e \in {None, Other("dir"), Other("link")}
                       \/ \E m \in Names : e = File(Theirs(m))
    BY <1>7, Zenon DEF UserEntry, UserFile, UserClones, Git
  <2>2. UserStep
    BY <1>7 DEF UserStep
  <2> QED BY <1>3, <2>1, <2>2
<1>8. CASE UserDirectory
  <2>1. \A k \in Keys : entries'[k] = None
    BY <1>8 DEF UserDirectory, Empty
  <2> QED BY <1>1, <1>8, <2>1 DEF UserStep
<1>9. CASE PowerLoss \/ UNCHANGED vars
  BY <1>2, <1>9 DEF PowerLoss, vars
<1> QED BY <1>5, <1>6, <1>7, <1>8, <1>9, WhoMoves DEF UserStep

\* An entry of a source is none: sources lie elsewhere, or are the installed
\* files, which are theirs or an invocation's.
LEMMA NoSourcesStep == Inv /\ NoSources /\ [Next]_vars => NoSources'
<1> SUFFICES ASSUME Inv, NoSources, [Next]_vars, NEW m \in Names, NEW n \in Names,
                    entries'[Plain(m)] = File(Elsewhere(n))
             PROVE  FALSE
  BY DEF NoSources
<1>1. entries[Plain(m)] # File(Elsewhere(n)) /\ File(Elsewhere(n)) # None
  BY EntryFacts DEF NoSources
<1>2. \A p \in Putters : \A k : File(<<p, k>>) # File(Elsewhere(n))
  <2>1. "source" \notin Putters
    BY DeployAssumption
  <2>2. \A p \in Putters : \A k : <<p, k>> # Elsewhere(n)
    BY <2>1 DEF Elsewhere
  <2> QED BY <2>2, EntryFacts
<1>3. \A k : File(Theirs(k)) # File(Elsewhere(n))
  <2>1. \A k : Theirs(k) # Elsewhere(n)
    BY DEF Theirs, Elsewhere
  <2> QED BY <2>1, EntryFacts
<1>4. File(Elsewhere(n)) \notin {Other("dir"), Other("link")}
  BY EntryFacts
<1> QED BY <1>1, <1>2, <1>3, <1>4, StepOfEntries

\* Whatever else happens leaves a put tidy.
LEMMA TidyKept ==
  ASSUME NEW q \in Putters, Tidy(q), Same(q),
         \A n \in Names : entries'[Temp(n, q)] \in {entries[Temp(n, q)], None}
  PROVE  Tidy(q)'
<1>1. \A n \in Names : entries[Temp(n, q)] = None => entries'[Temp(n, q)] = None
  OBVIOUS
<1>2. /\ pc'[q] = pc[q] /\ status'[q] = status[q]
      /\ src'[q] = src[q] /\ todo'[q] = todo[q] /\ placed'[q] = placed[q]
  BY DEF Same
<1> QED BY <1>1, <1>2, Zenon DEF Tidy

\* A put that is cut short, or fails, promises nothing.
LEMMA TidyEnds ==
  ASSUME NEW q \in Putters, Tidy(q), pc'[q] = "ended", status'[q] \in {1, -2}, src'[q] = src[q]
  PROVE  Tidy(q)'
BY DEF Tidy, Early, Writing

\* A put that goes on keeps what it has placed, and its temporary.
LEMMA TidyGoesOn ==
  ASSUME Inv, Walks, Lists, HasSources, [Next]_vars, NEW q \in Putters, Tidy(q),
         \/ Start(q) \/ Walk(q) \/ Mkdir(q) \/ Reopen(q) \/ Look(q) \/ Stat(q)
         \/ Copy(q) \/ Chmod(q) \/ Fsync(q),
         pc'[q] # "ended"
  PROVE  Tidy(q)'
<1>1. /\ q \in Procs /\ pc \in [Procs -> Places] /\ status \in [Procs -> Statuses]
      /\ src = [p \in Putters |-> src[p]]
  BY DEF Procs, Inv, Types, Walks, HasSources
<1>2. status[q] = -1
  BY <1>1 DEF Walks, Start, Walk, Mkdir, Reopen, Look, Stat, Copy, Chmod, Fsync
<1>3. \/ UNCHANGED <<pc, status>>
      \/ \E w : Goes(q, w)
      \/ \E s : Exits(q, s)
  BY Zenon DEF Start, Walk, Mkdir, Reopen, Look, Stat, Copy, Chmod, Fsync, CleansUp, Dies, Descends
<1>4. \A s : ~Exits(q, s)
  BY <1>1 DEF Exits
<1>5. status'[q] = -1
  BY <1>2, <1>3, <1>4 DEF Goes
<1>6. UNCHANGED <<entries, todo, placed>>
  BY <1>4, Zenon DEF Start, Walk, Mkdir, Reopen, Look, Stat, Copy, Chmod, Fsync, CleansUp, Dies
<1>7. src'[q] = src[q] \/ q \in InPlace
  BY DEF Start, Walk, Mkdir, Reopen, Look, Stat, Copy, Chmod, Fsync
<1>8. /\ pc'[q] \in Early => pc[q] \in Early
      /\ pc'[q] \in Early \cup {"stat", "create"} => pc[q] \in Early \cup {"stat", "create"}
      /\ pc'[q] \in Writing => pc[q] \in Writing
  <2>1. CASE Start(q)
    <3>1. pc[q] = "idle" /\ pc' = [pc EXCEPT ![q] = "walk"]
      BY <2>1 DEF Start, Goes
    <3> QED BY <1>1, <3>1 DEF Early, Writing
  <2>2. CASE Walk(q) \/ Reopen(q)
    <3>1. PICK w \in {"walk", "look", "list", "mkdir"} : pc' = [pc EXCEPT ![q] = w]
      BY <1>4, <2>2 DEF Walk, Reopen, Descends, Goes, Dies
    <3>2. w # "list"
      BY <1>1, <1>4, <2>2, <3>1 DEF Walk, Reopen, Descends, Goes, Dies
    <3>3. pc[q] \in Early
      BY <2>2 DEF Walk, Reopen, Early
    <3> QED BY <1>1, <3>1, <3>2, <3>3 DEF Early, Writing
  <2>3. CASE Mkdir(q)
    <3>1. pc[q] = "mkdir" /\ pc' = [pc EXCEPT ![q] = "reopen"]
      BY <1>4, <2>3 DEF Mkdir, Goes, Dies
    <3> QED BY <1>1, <3>1 DEF Early, Writing
  <2>4. CASE Look(q)
    <3>1. pc[q] = "look" /\ pc' = [pc EXCEPT ![q] = "stat"]
      BY <1>4, <2>4 DEF Look, Goes
    <3> QED BY <1>1, <3>1 DEF Early, Writing
  <2>5. CASE Stat(q)
    <3>1. pc[q] = "stat" /\ pc' = [pc EXCEPT ![q] = "create"]
      BY <1>4, <2>5 DEF Stat, Goes, Dies
    <3> QED BY <1>1, <3>1 DEF Early, Writing
  <2>6. CASE Copy(q) \/ Chmod(q) \/ Fsync(q)
    <3>1. pc[q] \in Writing
      BY <2>6 DEF Copy, Chmod, Fsync, Writing
    <3>2. pc' = pc \/ \E w \in Writing : pc' = [pc EXCEPT ![q] = w]
      BY <1>4, <2>6 DEF Copy, Chmod, Fsync, CleansUp, Goes, Dies, Writing
    <3>3. pc'[q] \in Writing
      BY <1>1, <3>1, <3>2
    <3> QED BY <3>1, <3>3 DEF Early, Writing
  <2> QED BY <2>1, <2>2, <2>3, <2>4, <2>5, <2>6
<1>9. /\ pc'[q] \in Early \cup {"stat", "create"} => \A n \in Names : entries[Temp(n, q)] = None
      /\ pc'[q] \in Writing => \A n \in Names \ {Head(todo[q])} : entries[Temp(n, q)] = None
      /\ pc'[q] \in Early => placed[q] = {}
      /\ q \notin InPlace => \A n \in ToSet(List[q]) : src[q][n] = Elsewhere(n)
  BY <1>8, Zenon DEF Tidy
<1> QED BY <1>5, <1>6, <1>7, <1>9 DEF Tidy

\* A put ends with 0 at once when the installed files are its sources, and with
\* 3 for a checkout.
LEMMA TidyLooks ==
  ASSUME Inv, Walks, NoSources, NEW q \in Putters, Tidy(q), Look(q), pc'[q] = "ended"
  PROVE  Tidy(q)'
<1>1. q \in Procs /\ pc \in [Procs -> Places] /\ status \in [Procs -> Statuses]
  BY DEF Procs, Inv, Types, Walks
<1>2. /\ pc[q] = "look" /\ UNCHANGED <<entries, src, todo, placed>>
      /\ placed[q] = {} /\ \A n \in Names : entries[Temp(n, q)] = None
  BY DEF Look, Tidy, Early
<1>3. ~Goes(q, "stat")
  BY <1>1 DEF Goes
<1>4. CASE /\ \A n \in ToSet(List[q]) : Entry(q, Plain(n)) = File(src[q][n])
           /\ Exits(q, 0)
  <2>1. status'[q] = 0
    BY <1>1, <1>4 DEF Exits
  <2>2. q \in InPlace
    <3> SUFFICES ASSUME q \notin InPlace PROVE FALSE
      OBVIOUS
    <3>1. List[q] \in Seq(Given) /\ List[q] # <<>>
      BY <1>1, DeployAssumption
    <3> DEFINE n == Head(List[q])
    <3>2. n \in ToSet(List[q]) /\ n \in Names
      BY <3>1, ToSetOfTail DEF Names
    <3>3. Entry(q, Plain(n)) = File(Elsewhere(n))
      BY <1>4, <3>2 DEF Tidy
    <3>4. entries[Plain(n)] # File(Elsewhere(n)) /\ None # File(Elsewhere(n))
      BY <3>2, EntryFacts DEF NoSources
    <3> QED BY <3>3, <3>4 DEF Entry
  <2> QED BY <1>2, <2>1, <2>2 DEF Tidy, Early, Writing
<1>5. CASE q \in UnlessGit /\ Exits(q, 3)
  <2>1. status'[q] = 3
    BY <1>1, <1>5 DEF Exits
  <2> QED BY <1>2, <1>5, <2>1 DEF Tidy, Early, Writing
<1> QED BY <1>3, <1>4, <1>5 DEF Look

\* A put makes the temporary of the file in hand, and no other.
LEMMA TidyCreates ==
  ASSUME Inv, Walks, [Next]_vars, NEW q \in Putters, Tidy(q), Create(q), pc'[q] # "ended"
  PROVE  Tidy(q)'
<1>1. q \in Procs /\ pc \in [Procs -> Places] /\ status \in [Procs -> Statuses]
  BY DEF Procs, Inv, Types, Walks
<1>2. pc[q] = "create" /\ status[q] = -1 /\ UNCHANGED <<src, todo, placed>>
  BY <1>1 DEF Create, Walks
<1>3. Goes(q, "copy")
  BY <1>1 DEF Create, Dies, Exits
<1>4. pc'[q] = "copy" /\ status'[q] = -1
  BY <1>1, <1>2, <1>3 DEF Goes
<1>5. \A n \in Names : entries[Temp(n, q)] = None
  BY <1>2, Zenon DEF Tidy
<1>6. \A n \in Names \ {Name(q)} : entries'[Temp(n, q)] = None
  BY <1>5, StepOfEntries
<1>7. q \notin InPlace => \A n \in ToSet(List[q]) : src'[q][n] = Elsewhere(n)
  BY <1>2 DEF Tidy
<1> QED BY <1>2, <1>4, <1>6, <1>7 DEF Tidy, Early, Writing, Name

\* A put that has renamed a file has no temporary, and one that has renamed its
\* last has placed all.
LEMMA TidyRenames ==
  ASSUME Inv, Walks, Lists, [Next]_vars, NEW q \in Putters, Tidy(q), Rename(q), ~CleansUp(q)
  PROVE  Tidy(q)'
<1>1. /\ q \in Procs /\ pc \in [Procs -> Places] /\ status \in [Procs -> Statuses]
      /\ pc[q] = "rename" /\ status[q] = -1 /\ src' = src
  BY DEF Procs, Inv, Types, Walks, Rename
<1>2. /\ entries' = [entries EXCEPT ![Plain(Name(q))] = entries[Temp(Name(q), q)],
                                    ![Temp(Name(q), q)] = None]
      /\ todo' = [todo EXCEPT ![q] = Tail(@)]
      /\ IF todo'[q] = <<>> THEN Exits(q, 0) ELSE Goes(q, "stat")
  BY DEF Rename
<1>3. \A n \in Names : entries'[Temp(n, q)] = None
  <2>1. \A n \in Names \ {Name(q)} : entries[Temp(n, q)] = None
    BY <1>1 DEF Tidy, Writing, Name
  <2>2. /\ Name(q) \in Names /\ Temp(Name(q), q) \in Keys
        /\ entries = [k \in Keys |-> entries[k]]
    <3>1. Name(q) \in Names
      BY <1>1, TailFacts DEF Inv, Types, Name
    <3> QED BY <3>1, NameFacts DEF Inv, Types
  <2>3. entries'[Temp(Name(q), q)] = None
    BY <1>2, <2>2
  <2>4. \A n \in Names \ {Name(q)} : entries'[Temp(n, q)] \in {entries[Temp(n, q)], None}
    BY <1>1, StepOfEntries DEF Create
  <2> QED BY <2>1, <2>3, <2>4
<1>4. q \notin InPlace => \A n \in ToSet(List[q]) : src'[q][n] = Elsewhere(n)
  BY <1>1 DEF Tidy
<1>5. CASE todo'[q] = <<>> /\ Exits(q, 0)
  <2>1. pc'[q] = "ended" /\ status'[q] = 0
    BY <1>1, <1>5 DEF Exits
  <2>2. placed'[q] \cup ToSet(todo'[q]) = ToSet(List[q])
    BY ListsStep DEF Lists
  <2>3. ToSet(<<>>) = {}
    BY DEF ToSet
  <2>4. placed'[q] = ToSet(List[q])
    BY <1>5, <2>2, <2>3
  <2> QED BY <1>3, <1>4, <2>1, <2>4 DEF Tidy, Early, Writing
<1>6. CASE Goes(q, "stat")
  <2>1. pc'[q] = "stat" /\ status'[q] = -1
    BY <1>1, <1>6 DEF Goes
  <2> QED BY <1>3, <1>4, <2>1 DEF Tidy, Early, Writing
<1> QED BY <1>2, <1>5, <1>6

\* Every step leaves every put tidy.
LEMMA TidyStep ==
  Inv /\ Walks /\ Lists /\ HasSources /\ NoSources /\ (\A p \in Putters : Tidy(p)) /\ [Next]_vars
    => \A p \in Putters : Tidy(p)'
<1> SUFFICES ASSUME Inv, Walks, Lists, HasSources, NoSources, \A p \in Putters : Tidy(p), [Next]_vars,
                    NEW q \in Putters
             PROVE  Tidy(q)'
  OBVIOUS
<1>1. q \in Procs /\ pc \in [Procs -> Places] /\ status \in [Procs -> Statuses]
  BY DEF Procs, Inv, Types, Walks
<1>2. CASE Kill(q) \/ (PutStep(q) /\ Dies(q))
  <2>1. Exits(q, -2) \/ Exits(q, 1)
    BY <1>2 DEF Kill, Dies
  <2>2. pc'[q] = "ended" /\ status'[q] \in {1, -2}
    BY <1>1, <2>1 DEF Exits
  <2>3. src' = src \/ Start(q)
    BY <1>2 DEF PutStep, Walk, Kill, Mkdir, Reopen, Look, Stat, Create, Copy, Chmod, Fsync, Rename
  <2>4. ~Start(q)
    <3>1. Start(q) => pc'[q] = "walk"
      BY <1>1 DEF Start, Goes
    <3> QED BY <2>2, <3>1
  <2> QED BY <2>2, <2>3, <2>4, TidyEnds
<1>3. CASE PutStep(q) /\ ~Kill(q) /\ ~Dies(q)
  <2>1. CASE Create(q)
    <3>1. pc'[q] # "ended"
      BY <1>1, <1>3, <2>1 DEF Create, Goes
    <3> QED BY <2>1, <3>1, TidyCreates
  <2>2. CASE Rename(q)
    BY <1>3, <2>2, TidyRenames DEF CleansUp
  <2>3. CASE Look(q)
    <3>1. CASE pc'[q] = "ended"
      BY <2>3, <3>1, TidyLooks
    <3>2. CASE pc'[q] # "ended"
      <4>1. \/ Start(q) \/ Walk(q) \/ Mkdir(q) \/ Reopen(q) \/ Look(q) \/ Stat(q)
            \/ Copy(q) \/ Chmod(q) \/ Fsync(q)
        BY <2>3
      <4> QED BY <3>2, <4>1, TidyGoesOn
    <3> QED BY <3>1, <3>2
  <2>4. CASE Start(q) \/ Walk(q) \/ Mkdir(q) \/ Reopen(q) \/ Stat(q) \/ Copy(q) \/ Chmod(q) \/ Fsync(q)
    <3>1. \/ pc' = pc /\ pc[q] # "ended"
          \/ \E w \in Places \ {"ended"} : Goes(q, w)
      <4>1. CASE Start(q) \/ Mkdir(q) \/ Stat(q)
        BY <1>3, <4>1 DEF Start, Mkdir, Stat, Places
      <4>2. CASE Walk(q) \/ Reopen(q)
        BY <1>3, <4>2 DEF Walk, Reopen, Descends, Places
      <4>3. CASE Copy(q) \/ Chmod(q) \/ Fsync(q)
        BY <1>3, <4>3 DEF Copy, Chmod, Fsync, CleansUp, Places
      <4> QED BY <2>4, <4>1, <4>2, <4>3
    <3>2. pc'[q] # "ended"
      BY <1>1, <3>1 DEF Goes
    <3> QED BY <2>4, <3>2, TidyGoesOn
  <2> QED BY <1>3, <2>1, <2>2, <2>3, <2>4 DEF PutStep
<1>4. CASE \/ \E p \in Putters \ {q} : PutStep(p)
           \/ \E r \in Removers : RemoveStep(r)
           \/ UserStep \/ UNCHANGED vars
  <2>1. Same(q)
    BY <1>4, OthersSame
  <2>2. \A n \in Names : entries'[Temp(n, q)] \in {entries[Temp(n, q)], None}
    <3>1. Create(q) => pc'[q] # pc[q]
      BY <1>1 DEF Create, Goes, Dies, Exits
    <3> QED BY <2>1, <3>1, StepOfEntries DEF Same
  <2> QED BY <2>1, <2>2, TidyKept
<1>5. CASE PowerLoss
  <2>1. UNCHANGED <<entries, src, todo, placed>>
    BY <1>5 DEF PowerLoss
  <2>2. IF Running(q) THEN pc'[q] = "ended" /\ status'[q] = -2
        ELSE pc'[q] = pc[q] /\ status'[q] = status[q]
    BY <1>1, <1>5 DEF PowerLoss
  <2>3. CASE Running(q)
    BY <2>1, <2>2, <2>3, TidyEnds
  <2>4. CASE ~Running(q)
    BY <2>1, <2>2, <2>4, Zenon DEF Tidy
  <2> QED BY <2>3, <2>4
<1>6. CASE PutStep(q)
  BY <1>2, <1>3, <1>6, Zenon
<1>7. CASE ~PutStep(q)
  <2>1. (\E p \in Putters : PutStep(p)) => \E p \in Putters \ {q} : PutStep(p)
    BY <1>7
  <2> QED BY <1>4, <1>5, <2>1, WhoMoves
<1> QED BY <1>6, <1>7

\* While nothing fails and nobody meddles, only puts move, and none is killed.
LEMMA CalmStep ==
  ASSUME Inv, Walks, Counts, [Next]_vars, Calm'
  PROVE  /\ Calm /\ faults' = faults /\ acts' = acts /\ ~UserStep /\ ~PowerLoss
         /\ (\E p \in Putters : PutStep(p) /\ ~Kill(p)) \/ UNCHANGED vars
<1>1. (acts' = acts \/ acts' = acts + 1) /\ (faults' = faults \/ faults' = faults + 1)
  BY Zenon DEF Next, vars, Start, Walk, Kill, Mkdir, Reopen, Look, Stat, Create, Copy, Chmod, Fsync, Rename,
               ListNames, Examine, Unlink, Finish, PowerLoss, UserEntry, UserFile, UserClones, UserDirectory,
               Act, Fault
<1>2. acts = 0 /\ faults = 0 /\ acts' = acts /\ faults' = faults
  BY <1>1 DEF Calm, Counts
<1>3. ~PowerLoss /\ ~UserStep /\ \A p : ~Kill(p)
  BY <1>2 DEF PowerLoss, UserStep, UserEntry, UserFile, UserClones, UserDirectory, Kill, Fault, Act
<1>4. pc \in [Procs -> Places] /\ \A r \in Removers : r \in Procs /\ pc'[r] = "idle"
  BY DEF Inv, Types, Procs, Calm
<1>5. ASSUME NEW r \in Removers, RemoveStep(r) PROVE FALSE
  <2>1. pc[r] # "ended" /\ \E w \in Places \ {"idle"} : pc' = [pc EXCEPT ![r] = w]
    BY <1>3, <1>5 DEF RemoveStep, Start, Walk, ListNames, Examine, Unlink, Finish, NextName,
                      Dies, Exits, Goes, Descends, Places
  <2> QED BY <1>4, <2>1
<1>6. (\E p \in Putters : PutStep(p) /\ ~Kill(p)) \/ UNCHANGED vars
  BY <1>3, <1>5, WhoMoves
<1>7. ASSUME NEW r \in Removers PROVE pc[r] = "idle"
  <2>1. CASE UNCHANGED vars
    BY <1>4, <2>1 DEF vars
  <2>2. ASSUME NEW p \in Putters, PutStep(p) PROVE pc[r] = "idle"
    <3>1. r # p
      BY DeployAssumption
    <3>2. pc' = pc \/ \E w : pc' = [pc EXCEPT ![p] = w]
      BY <2>2, Zenon DEF PutStep, Start, Walk, Kill, Mkdir, Reopen, Look, Stat, Create, Copy, Chmod, Fsync,
                Rename, CleansUp, Dies, Exits, Goes, Descends
    <3> QED BY <1>4, <3>1, <3>2
  <2> QED BY <1>6, <2>1, <2>2
<1> QED BY <1>2, <1>3, <1>6, <1>7 DEF Calm

\* What one put finds while nothing is in its way.
OnItsWay(p) ==
  /\ held[p] = dirs[level[p]]
  /\ pc[p] = "reopen" => dirs[level[p] + 1] # Absent
  /\ pc[p] \in {"look", "stat", "create"} \cup Writing => level[p] = Depth
  /\ pc[p] \in Writing => entries[Temp(Head(todo[p]), p)] # None
  /\ status[p] # 1

\* A put does not disturb another: the directories it makes were not there.
LEMMA OthersOnTheirWay ==
  ASSUME Inv, Walks, [Next]_vars, NEW p \in Putters, NEW q \in Putters, OnItsWay(q), Same(q),
         PutStep(p), p # q, acts' = acts, Counts
  PROVE  OnItsWay(q)'
<1>1. /\ q \in Procs /\ p \in Procs /\ level[q] \in 0 .. Depth /\ held[q] \in Home .. made /\ made \in Nat
      /\ Depth \in Nat
      /\ dirs \in [0 .. Depth -> {Absent, Link} \cup (Home .. made)]
  BY DeployAssumption DEF Procs, Walks
<1>2. ASSUME NEW l \in 0 .. Depth, dirs[l] # Absent PROVE dirs'[l] = dirs[l]
  <2>1. CASE dirs' = dirs
    BY <2>1
  <2>2. CASE Mkdir(p)
    BY <1>1, <1>2, <2>2 DEF Mkdir
  <2> QED BY <2>1, <2>2 DEF PutStep, Start, Walk, Kill, Reopen, Look, Stat, Create, Copy, Chmod, Fsync, Rename
<1>3. dirs[level[q]] # Absent
  BY <1>1 DEF OnItsWay, Home, Absent
<1>4. held'[q] = dirs'[level'[q]]
  BY <1>1, <1>2, <1>3 DEF OnItsWay, Same
<1>5. pc'[q] = "reopen" => dirs'[level'[q] + 1] # Absent
  <2> SUFFICES ASSUME pc[q] = "reopen" PROVE dirs'[level[q] + 1] # Absent
    BY DEF Same
  <2>1. level[q] + 1 \in 0 .. Depth
    BY <1>1 DEF Walks
  <2> QED BY <1>2, <2>1 DEF OnItsWay
<1>6. pc'[q] \in Writing => entries'[Temp(Head(todo'[q]), q)] # None
  <2> SUFFICES ASSUME pc[q] \in Writing PROVE entries'[Temp(Head(todo[q]), q)] # None
    BY DEF Same
  <2>1. Head(todo[q]) \in Names
    BY <1>1, TailFacts DEF Inv, Types, Writing
  <2>2. ~UserStep
    <3>1. UserStep => acts' = acts + 1
      BY DEF UserStep, UserEntry, UserFile, UserClones, UserDirectory, Act
    <3> QED BY <3>1 DEF Counts
  <2>3. ~(Chmod(q) \/ Fsync(q) \/ Rename(q) \/ Create(q))
    <3>1. \A w : w # pc[q] => pc' # [pc EXCEPT ![q] = w]
      BY <1>1 DEF Inv, Types, Same
    <3>2. Chmod(q) => \E w : w # pc[q] /\ pc' = [pc EXCEPT ![q] = w]
      BY DEF Chmod, CleansUp, Dies, Exits, Goes
    <3>3. Fsync(q) => \E w : w # pc[q] /\ pc' = [pc EXCEPT ![q] = w]
      BY DEF Fsync, CleansUp, Dies, Exits, Goes
    <3>4. Rename(q) => \E w : w # pc[q] /\ pc' = [pc EXCEPT ![q] = w]
      BY DEF Rename, CleansUp, Dies, Exits, Goes
    <3>5. Create(q) => \E w : w # pc[q] /\ pc' = [pc EXCEPT ![q] = w]
      BY DEF Create, Dies, Exits, Goes
    <3> QED BY <3>1, <3>2, <3>3, <3>4, <3>5
  <2>4. entries'[Temp(Head(todo[q]), q)] = entries[Temp(Head(todo[q]), q)]
    BY <2>1, <2>2, <2>3, StepOfEntries
  <2> QED BY <2>4 DEF OnItsWay
<1>7. /\ pc'[q] \in {"look", "stat", "create"} \cup Writing => level'[q] = Depth
      /\ status'[q] # 1
  BY DEF OnItsWay, Same
<1> QED BY <1>4, <1>5, <1>6, <1>7 DEF OnItsWay

\* Going on, a put is where it was or one further.
LEMMA GoesOnItsWay ==
  ASSUME Types, Walks, NEW p \in Putters, level' = level, held' = held,
         dirs'[level[p]] = dirs[level[p]], OnItsWay(p),
         NEW w \in Places \ {"reopen", "ended"}, Goes(p, w) \/ (pc' = pc /\ UNCHANGED status /\ pc[p] = w),
         w \in {"look", "stat", "create"} \cup Writing => level[p] = Depth,
         w \in Writing => entries'[Temp(Head(todo'[p]), p)] # None
  PROVE  OnItsWay(p)'
<1>1. p \in Procs /\ pc \in [Procs -> Places]
  BY DEF Procs, Types
<1>2. pc'[p] = w /\ status' = status
  BY <1>1 DEF Goes
<1> QED BY <1>2 DEF OnItsWay

\* What openat() and mkdirat() do in a directory that is still there.
LEMMA OpenedAt ==
  ASSUME NEW p, NEW l, Alive(p, l - 1), dirs[l] # Link
  PROVE  Opened(p, l) = {dirs[l]}
BY DEF Opened
LEMMA MadeAt ==
  ASSUME NEW p, Mkdir(p), NEW l, l = level[p] + 1, Alive(p, l - 1)
  PROVE  /\ Goes(p, "reopen")
         /\ IF dirs[l] = Absent THEN dirs' = [dirs EXCEPT ![l] = made + 1] ELSE dirs' = dirs
BY DEF Mkdir

\* A put finds its way as long as nothing fails and nobody meddles: it dies of
\* neither a missing directory nor a link, a temporary that is in the way or
\* gone, or a directory for a target.
LEMMA OwnWay ==
  ASSUME Inv, Walks, Counts, NEW p \in Putters, Tidy(p), PutStep(p), ~Kill(p),
         faults' = faults, OnItsWay(p),
         \A l \in 0 .. Depth : dirs[l] # Link,
         \A m \in Names : entries[Plain(m)].kind # "dir"
  PROVE  OnItsWay(p)'
<1>1. /\ p \in Procs /\ Types /\ pc \in [Procs -> Places] /\ status \in [Procs -> Statuses]
      /\ level \in [Procs -> 0 .. Depth] /\ held \in [Procs -> Home .. made]
      /\ dirs \in [0 .. Depth -> {Absent, Link} \cup (Home .. made)]
      /\ made \in Nat /\ Depth \in Nat /\ level[p] \in 0 .. Depth
  BY DeployAssumption DEF Procs, Inv, Types, Walks
<1>2. ~Fault
  BY DEF Fault, Counts
<1>3. /\ pc[p] \in {"idle", "walk", "mkdir", "reopen"} => level[p] < Depth
      /\ pc[p] # "ended" => status[p] = -1
  BY <1>1 DEF Walks
<1>4. held[p] = dirs[level[p]] /\ Alive(p, level[p])
  BY DEF OnItsWay, Alive
<1>5. level[p] = Depth => Here(p)
  BY <1>4 DEF Here
<1>6. pc[p] # "ended"
  BY DEF PutStep, Start, Walk, Mkdir, Reopen, Look, Stat, Create, Copy, Chmod, Fsync, Rename
<1>7. Name(p) \in Names /\ Temp(Name(p), p) \in Keys /\ entries = [k \in Keys |-> entries[k]]
  <2>1. Name(p) \in Names
    BY <1>1, <1>6, TailFacts DEF Types, Name
  <2> QED BY <1>1, <2>1, NameFacts DEF Types
<1>8. CASE Start(p)
  <2>1. Goes(p, "walk") /\ level' = level /\ held' = held /\ dirs' = dirs
    BY <1>8 DEF Start, walkVars
  <2>2. "walk" \in Places \ {"reopen", "ended"} /\ "walk" \notin {"look", "stat", "create"} \cup Writing
    BY DEF Places, Writing
  <2> QED BY <1>1, <2>1, <2>2, GoesOnItsWay
<1>9. CASE Walk(p) \/ Reopen(p)
  <2>1. /\ pc[p] \in {"walk", "reopen"} /\ level[p] < Depth /\ level[p] + 1 \in 0 .. Depth
        /\ UNCHANGED <<dirs, entries>>
    BY <1>1, <1>3, <1>9 DEF Walk, Reopen
  <2> DEFINE l == level[p] + 1
  <2>2. Opened(p, l) = {dirs[l]}
    <3>1. l - 1 = level[p] /\ l \in 0 .. Depth
      BY <1>1, <2>1
    <3>2. Alive(p, l - 1) /\ dirs[l] # Link
      BY <1>4, <3>1
    <3> HIDE DEF l
    <3> QED BY <3>2, OpenedAt
  <2>3. CASE \E dir \in Opened(p, level[p] + 1) \ {Absent} : Descends(p, dir)
    <3>1. Descends(p, dirs[level[p] + 1])
      BY <2>2, <2>3
    <3>2. level'[p] = level[p] + 1 /\ held'[p] = dirs[level[p] + 1]
      BY <1>1, <3>1 DEF Descends
    <3>3. /\ status' = status
          /\ pc'[p] = IF level'[p] < Depth THEN "walk" ELSE "look"
      BY <1>1, <3>1 DEF Descends, Goes
    <3>4. pc'[p] = "look" => level'[p] = Depth
      BY <1>1, <2>1, <3>2, <3>3
    <3> QED BY <2>1, <3>2, <3>3, <3>4 DEF OnItsWay, Writing
  <2>4. CASE Walk(p) /\ Goes(p, "mkdir") /\ UNCHANGED walkVars
    <3>1. level' = level /\ held' = held
      BY <2>4 DEF walkVars
    <3>2. "mkdir" \in Places \ {"reopen", "ended"} /\ "mkdir" \notin {"look", "stat", "create"} \cup Writing
      BY DEF Places, Writing
    <3> QED BY <1>1, <2>1, <2>4, <3>1, <3>2, GoesOnItsWay
  <2>5. pc[p] = "reopen" => Absent \notin Opened(p, level[p] + 1)
    BY <2>2 DEF OnItsWay
  <2> QED BY <1>9, <2>2, <2>3, <2>4, <2>5 DEF Walk, Reopen
<1>10. CASE Mkdir(p)
  <2> DEFINE l == level[p] + 1
  <2>1. /\ Goes(p, "reopen") /\ l \in 0 .. Depth
        /\ IF dirs[l] = Absent THEN dirs' = [dirs EXCEPT ![l] = made + 1] ELSE dirs' = dirs
    <3>1. l = level[p] + 1 /\ l - 1 = level[p] /\ l \in 0 .. Depth
      BY <1>1, <1>3, <1>10 DEF Mkdir
    <3>2. Alive(p, l - 1)
      BY <1>4, <3>1
    <3> HIDE DEF l
    <3> QED BY <1>10, <3>1, <3>2, MadeAt
  <2>2. dirs'[level[p] + 1] # Absent /\ dirs'[level[p]] = dirs[level[p]]
    BY <1>1, <2>1 DEF Absent
  <2>3. pc'[p] = "reopen" /\ status' = status /\ level' = level /\ held' = held
    BY <1>1, <1>10, <2>1 DEF Goes, Mkdir, walkVars
  <2> QED BY <2>2, <2>3 DEF OnItsWay, Writing
<1>11. CASE Look(p)
  <2>1. /\ level[p] = Depth /\ level' = level /\ held' = held /\ dirs' = dirs
    BY <1>11 DEF Look, OnItsWay, walkVars
  <2>2. CASE Goes(p, "stat")
    <3>1. "stat" \in Places \ {"reopen", "ended"} /\ "stat" \notin Writing
      BY DEF Places, Writing
    <3> QED BY <1>1, <2>1, <2>2, <3>1, GoesOnItsWay
  <2>3. CASE Exits(p, 0) \/ Exits(p, 3)
    <3>1. pc'[p] = "ended" /\ status'[p] # 1
      BY <1>1, <2>3 DEF Exits
    <3> QED BY <1>4, <2>1, <3>1 DEF OnItsWay, Writing
  <2> QED BY <1>11, <2>2, <2>3 DEF Look
<1>12. CASE Stat(p)
  <2>1. level[p] = Depth /\ level' = level /\ held' = held /\ dirs' = dirs
    BY <1>12 DEF Stat, OnItsWay, walkVars
  <2>2. Entry(p, Plain(Name(p))).kind # "dir"
    BY <1>7, <1>5, <2>1 DEF Entry
  <2>3. Goes(p, "create")
    BY <1>12, <2>2 DEF Stat
  <2>4. "create" \in Places \ {"reopen", "ended"} /\ "create" \notin Writing
    BY DEF Places, Writing
  <2> QED BY <1>1, <2>1, <2>3, <2>4, GoesOnItsWay
<1>13. CASE Create(p)
  <2>1. level[p] = Depth /\ level' = level /\ held' = held /\ dirs' = dirs /\ todo' = todo
    BY <1>13 DEF Create, OnItsWay, walkVars
  <2>2. entries[Temp(Name(p), p)] = None
    BY <1>7, <1>13 DEF Create, Tidy
  <2>3. entries' = [entries EXCEPT ![Temp(Name(p), p)] = File(<<p, Name(p)>>)] /\ Goes(p, "copy")
    BY <1>2, <1>5, <1>13, <2>1, <2>2 DEF Create
  <2>4. entries'[Temp(Name(p), p)] = File(<<p, Name(p)>>)
    BY <1>7, <2>3
  <2>5. entries'[Temp(Head(todo'[p]), p)] # None
    BY <2>1, <2>4, EntryFacts DEF Name
  <2>6. "copy" \in Places \ {"reopen", "ended"}
    BY DEF Places
  <2> QED BY <1>1, <2>1, <2>3, <2>5, <2>6, GoesOnItsWay
<1>14. CASE Copy(p) \/ Chmod(p) \/ Fsync(p)
  <2>1. /\ level[p] = Depth /\ level' = level /\ held' = held /\ dirs' = dirs /\ todo' = todo
        /\ entries[Temp(Head(todo[p]), p)] # None
    BY <1>14 DEF Copy, Chmod, Fsync, OnItsWay, walkVars, Writing
  <2>2. /\ entries' = entries
        /\ \/ Goes(p, "chmod") \/ Goes(p, "fsync") \/ Goes(p, "rename")
           \/ (pc' = pc /\ UNCHANGED status /\ pc[p] = "copy")
    BY <1>2, <1>14 DEF Copy, Chmod, Fsync
  <2>3. {"copy", "chmod", "fsync", "rename"} \subseteq Places \ {"reopen", "ended"}
    BY DEF Places
  <2>4. PICK w \in Places \ {"reopen", "ended"} :
          Goes(p, w) \/ (pc' = pc /\ UNCHANGED status /\ pc[p] = w)
    BY <2>2, <2>3
  <2> QED BY <1>1, <2>1, <2>2, <2>4, GoesOnItsWay
<1>15. CASE Rename(p)
  <2>1. /\ pc[p] = "rename" /\ level[p] = Depth /\ level' = level /\ held' = held /\ dirs' = dirs
        /\ entries[Temp(Name(p), p)] # None
    BY <1>15 DEF Rename, OnItsWay, walkVars, Writing, Name
  <2>2. entries[Plain(Name(p))].kind # "dir"
    BY <1>7
  <2>3. Exits(p, 0) \/ Goes(p, "stat")
    BY <1>2, <1>5, <1>15, <2>1, <2>2 DEF Rename
  <2>4. pc'[p] \in {"ended", "stat"} /\ status'[p] # 1
    BY <1>1, <1>3, <2>1, <2>3 DEF Exits, Goes
  <2> QED BY <1>4, <2>1, <2>4 DEF OnItsWay, Writing
<1> QED BY <1>8, <1>9, <1>10, <1>11, <1>12, <1>13, <1>14, <1>15 DEF PutStep

\* While nothing fails and nobody meddles every put finds its way.
LEMMA UnhinderedStep ==
  Inv /\ Walks /\ Lists /\ Counts /\ HasSources /\ (\A p \in Putters : Tidy(p)) /\ Unhindered /\ [Next]_vars
    => Unhindered'
<1> SUFFICES ASSUME Inv, Walks, Lists, Counts, HasSources, \A p \in Putters : Tidy(p), Unhindered,
                    [Next]_vars, Calm'
             PROVE  /\ \A l \in 0 .. Depth : dirs'[l] # Link
                    /\ \A m \in Names : entries'[Plain(m)].kind # "dir"
                    /\ \A p \in Putters : OnItsWay(p)'
  BY DEF Unhindered, OnItsWay
<1>1. /\ Calm /\ faults' = faults /\ acts' = acts /\ ~UserStep /\ ~PowerLoss
      /\ (\E p \in Putters : PutStep(p) /\ ~Kill(p)) \/ UNCHANGED vars
  BY CalmStep
<1>2. /\ \A l \in 0 .. Depth : dirs[l] # Link
      /\ \A m \in Names : entries[Plain(m)].kind # "dir"
      /\ \A p \in Putters : OnItsWay(p)
  BY <1>1 DEF Unhindered, OnItsWay
<1>3. CASE UNCHANGED vars
  BY <1>2, <1>3 DEF OnItsWay, vars, walkVars
<1>4. ASSUME NEW p \in Putters, PutStep(p), ~Kill(p)
      PROVE  /\ \A l \in 0 .. Depth : dirs'[l] # Link
             /\ \A q \in Putters : OnItsWay(q)'
  <2>1. \A l \in 0 .. Depth : dirs'[l] # Link
    <3>1. /\ dirs \in [0 .. Depth -> {Absent, Link} \cup (Home .. made)]
          /\ made + 1 # Link
      BY DEF Walks, Link
    <3>2. dirs' = dirs \/ \E l : dirs' = [dirs EXCEPT ![l] = made + 1]
      BY <1>4 DEF PutStep, Start, Walk, Mkdir, Reopen, Look, Stat, Create, Copy, Chmod, Fsync, Rename
    <3> QED BY <1>2, <3>1, <3>2
  <2>2. OnItsWay(p)'
    BY <1>1, <1>2, <1>4, OwnWay
  <2>3. ASSUME NEW q \in Putters, q # p PROVE OnItsWay(q)'
    <3>1. Same(q)
      BY <1>4, <2>3, OthersSame
    <3> QED BY <1>1, <1>2, <1>4, <2>3, <3>1, OthersOnTheirWay
  <2> QED BY <2>1, <2>2, <2>3
<1>5. ASSUME NEW m \in Names PROVE entries'[Plain(m)].kind # "dir"
  <2>1. None.kind = "none" /\ \A i : File(i).kind = "file"
    BY DEF None, File
  <2>2. \/ entries'[Plain(m)] \in {entries[Plain(m)], None}
        \/ \E p \in Putters, n \in Names : entries'[Plain(m)] = File(<<p, n>>)
    BY <1>1, StepOfEntries
  <2> QED BY <1>2, <2>1, <2>2
<1> QED BY <1>1, <1>3, <1>4, <1>5

\* What the exit status rests on, initially.
LEMMA StatusStart == Init => HasSources /\ NoSources /\ (\A p \in Putters : Tidy(p)) /\ Unhindered
<1> SUFFICES ASSUME Init PROVE HasSources /\ NoSources /\ (\A p \in Putters : Tidy(p)) /\ Unhindered
  OBVIOUS
<1>1. \A k \in Keys : \/ entries[k] = None
                      \/ k \in {Plain(n) : n \in Given} /\ entries[k] = File(Installed(k[1]))
  BY DEF Init
<1>2. HasSources
  BY DEF Init, HasSources
<1>3. NoSources
  <2> SUFFICES ASSUME NEW m \in Names, NEW n \in Names, entries[Plain(m)] = File(Elsewhere(n))
               PROVE  FALSE
    BY DEF NoSources
  <2>1. Plain(m) \in Keys /\ File(Elsewhere(n)) # None
    BY NameFacts, EntryFacts
  <2>2. File(Elsewhere(n)) = File(Installed(Plain(m)[1]))
    BY <1>1, <2>1
  <2>3. Elsewhere(n) # Installed(Plain(m)[1])
    BY DEF Elsewhere, Installed
  <2> QED BY <2>2, <2>3, EntryFacts
<1>4. ASSUME NEW p \in Putters PROVE Tidy(p)
  <2>1. \A n \in Names : entries[Temp(n, p)] = None
    <3>1. \A n \in Names : Temp(n, p) \in Keys /\ \A m : Temp(n, p) # Plain(m)
      BY NameFacts
    <3> QED BY <1>1, <3>1
  <2>2. pc[p] = "idle" /\ status[p] = -1 /\ placed[p] = {}
    BY DEF Init, Procs
  <2>3. \A n \in ToSet(List[p]) : src[p][n] = Elsewhere(n)
    BY DEF Init
  <2> QED BY <2>1, <2>2, <2>3 DEF Tidy, Early, Writing
<1>5. Unhindered
  <2>1. PICK d \in {0, Depth} : dirs = [l \in 0 .. Depth |-> IF l <= d THEN Home + l ELSE Absent]
    BY DEF Init
  <2>2. /\ Depth \in Nat
        /\ \A p \in Putters : pc[p] = "idle" /\ status[p] = -1 /\ level[p] = 0 /\ held[p] = Home
    BY DeployAssumption DEF Init, Procs
  <2>3. \A l \in 0 .. Depth : dirs[l] # Link
    BY <2>1, <2>2 DEF Home, Link, Absent
  <2>4. dirs[0] = Home
    BY <2>1, <2>2 DEF Home
  <2>5. ASSUME NEW m \in Names PROVE entries[Plain(m)].kind # "dir"
    <3>1. None.kind = "none" /\ \A i : File(i).kind = "file"
      BY DEF None, File
    <3> QED BY <1>1, <3>1, NameFacts
  <2> QED BY <2>2, <2>3, <2>4, <2>5 DEF Unhindered, Writing
<1> QED BY <1>2, <1>3, <1>4, <1>5

\* The exit status of a put tells the truth, for any lists, depth and sizes, and
\* any other puts, removes and programs: 0 is said by one that placed every file
\* it was given (or was run from the installed files), 3 by one that touched
\* nothing, neither leaves a temporary, and no put fails unless a call failed or
\* a remove or another program was at it.
THEOREM ExitStatusTrue == Spec => []StatusTrue
<1> DEFINE I == (\A p \in Putters : Tidy(p)) /\ NoSources /\ Unhindered
<1>1. Walks /\ I => StatusTrue
  <2> SUFFICES ASSUME Walks, I, NEW p \in Putters
               PROVE  /\ status[p] = 0 => placed[p] = ToSet(List[p]) \/ (placed[p] = {} /\ p \in InPlace)
                      /\ status[p] = 3 => placed[p] = {} /\ p \in UnlessGit
                      /\ status[p] \in {0, 3} => \A n \in Names : entries[Temp(n, p)] = None
                      /\ status[p] = 1 => ~Calm
    BY DEF StatusTrue
  <2>1. Tidy(p)
    OBVIOUS
  <2>2. status[p] = 1 => ~Calm
    BY DEF Unhindered
  <2> QED BY <2>1, <2>2, Zenon DEF Tidy
<1>2. Init => I
  BY StatusStart
<1>3. Inv /\ Walks /\ Lists /\ Counts /\ HasSources /\ I /\ [Next]_vars => I'
  BY NoSourcesStep, TidyStep, UnhinderedStep
<1> QED BY <1>1, <1>2, <1>3, Starts, Steps, WalksStart, WalksStep, ListsStart, ListsStep, CountsInvariant,
           SourcesInvariant, PTL DEF Spec

=============================================================================
