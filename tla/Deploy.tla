------------------------------- MODULE Deploy -------------------------------
(***************************************************************************)
(* sony-xm3-deploy (installer/deploy.cpp), with which setup puts files     *)
(* into a directory below the home directory and removes them again:       *)
(* several invocations run at once, system call by system call, while the  *)
(* user's other programs change the same directory, calls fail, a process  *)
(* is killed and the power goes.                                           *)
(*                                                                         *)
(* One destination is modelled, Depth directories below the home           *)
(* directory.  A directory is a number, new for each mkdir; a file is an   *)
(* inode, of which matters how much of its source has been written, its    *)
(* mode, and what of it a power loss would spare.  The command line is     *)
(* taken to be well formed and the directories to be the user's own: what  *)
(* is refused there is refused before anything is changed.  Sources lie    *)
(* elsewhere, or are the installed files themselves.  Looking at all       *)
(* targets before the first is replaced changes nothing and is one step;   *)
(* so are a failing call and the unlink() of the temporary that follows.   *)
(* The operators named for a mistake are faulty variants of the definition *)
(* that follows; no specification uses them.                               *)
(***************************************************************************)
EXTENDS Integers, Sequences, SequencesExt

CONSTANTS
  Putters, Removers,    \* the invocations of each command
  List,           \* the names each is given, in order
  Unlisted,       \* names nobody is given
  Prefixed,       \* of a remove: the names its patterns match
  InPlace,        \* puts whose sources are the installed files
  UnlessGit,      \* puts with --unless-git-checkout
  Rmdir,          \* removes with --rmdir
  Depth,          \* directories below the home directory
  Chunks,         \* write() calls a file takes
  MaxActs,        \* bound: what other programs do
  MaxFaults       \* bound: failing calls, kills, power losses

Procs == Putters \cup Removers
Given == UNION {ToSet(List[p]) : p \in Procs}
Names == Given \cup Unlisted

ASSUME DeployAssumption ==
  /\ Putters \cap (Removers \cup {"", "deploy", "source", "old", "user"}) = {}
  /\ InPlace \cup UnlessGit \subseteq Putters /\ Rmdir \subseteq Removers
  /\ List \in [Procs -> Seq(Given)]
  /\ \A p \in Procs : List[p] # <<>> /\ IsInjective(List[p])
  /\ Unlisted \cap Given = {}
  /\ \A r \in Removers : Prefixed[r] \subseteq Given /\ IsFiniteSet(Prefixed[r])
  /\ Depth \in Nat \ {0} /\ Chunks \in Nat \ {0} /\ MaxActs \in Nat /\ MaxFaults \in Nat

VARIABLES
  pc,        \* of each invocation: where it is, "idle" or "ended"
  status,    \* its exit status: -1 while it has none, -2 when it was killed
  dirs,      \* the directory at each level, or Absent, or Link; the home directory is level 0
  made,      \* directories made so far
  entries,   \* what the destination directory holds under each name
  inodes,    \* the files
  level, held, parent,   \* Walk: how far it came, the directory open, the one before
  src,       \* Source: the inode of each file to put
  todo,      \* the names still to be placed or removed
  placed,    \* history: the names a put has replaced
  acts, faults
walkVars == <<level, held, parent>>
vars == <<pc, status, dirs, made, entries, inodes, walkVars, src, todo, placed, acts, faults>>

Absent == 0
Link   == -1      \* a symbolic link, or a file: not a directory
Home   == 1

\* Directory entries: a name, with the invocation whose temporary it is.
Plain(n)    == <<n, "">>
SharedTemp(n, p) == <<n, "deploy">>
Temp(n, p)  == <<n, p>>
Git         == Plain(".git")
Keys == {Plain(n) : n \in Names} \cup {Git}
        \cup {<<n, p>> : n \in Names, p \in Putters \cup {"deploy"}}

None       == [kind |-> "none", ino |-> <<"", "">>]
File(i)    == [kind |-> "file", ino |-> i]
Other(k)   == [kind |-> k, ino |-> <<"", "">>]     \* "dir" or "link"
Elsewhere(n) == <<"source", n>>
Installed(n) == <<"old", n>>
Theirs(n)    == <<"user", n>>
Ids == {<<w, n>> : w \in Putters \cup {"source", "old", "user"}, n \in Names}

Empty == [k \in Keys |-> None]
Whole == [chunks |-> Chunks, mode |-> TRUE, synced |-> TRUE]

\* A first installation, one over an older one, and one below a new directory.
Init ==
  /\ pc = [p \in Procs |-> "idle"] /\ status = [p \in Procs |-> -1]
  /\ \E d \in {0, Depth} : dirs = [l \in 0 .. Depth |-> IF l <= d THEN Home + l ELSE Absent]
  /\ made = Home + Depth
  /\ entries = [k \in Keys |-> IF dirs[Depth] # Absent /\ k \in {Plain(n) : n \in Given}
                               THEN File(Installed(k[1])) ELSE None]
  /\ inodes = [i \in Ids |-> IF i[1] \in Putters
                             THEN [chunks |-> 0, mode |-> FALSE, synced |-> FALSE] ELSE Whole]
  /\ level = [p \in Procs |-> 0] /\ held = [p \in Procs |-> Home] /\ parent = [p \in Procs |-> Absent]
  /\ src = [p \in Putters |-> [n \in ToSet(List[p]) |-> Elsewhere(n)]]
  /\ todo = List /\ placed = [p \in Putters |-> {}]
  /\ acts = 0 /\ faults = 0

Running(p) == pc[p] \notin {"idle", "ended"}

\* The directory p has open is still the one at level l.
Alive(p, l) == held[p] = dirs[l]
Here(p)     == level[p] = Depth /\ Alive(p, Depth)
Entry(p, k) == IF Here(p) THEN entries[k] ELSE None

Goes(p, where) == pc' = [pc EXCEPT ![p] = where] /\ UNCHANGED status
Exits(p, s) == pc' = [pc EXCEPT ![p] = "ended"] /\ status' = [status EXCEPT ![p] = s]
Dies(p) == Exits(p, 1)
Fault == faults < MaxFaults /\ faults' = faults + 1

-----------------------------------------------------------------------------
(* walkFromHome. *)

Start(p) ==
  /\ pc[p] = "idle"
  /\ \/ /\ p \in InPlace
        /\ \A n \in ToSet(List[p]) : dirs[Depth] > 0 /\ entries[Plain(n)].kind = "file"
        /\ src' = [src EXCEPT ![p] = [n \in DOMAIN src[p] |-> entries[Plain(n)].ino]]
     \/ p \notin InPlace /\ UNCHANGED src
  /\ Goes(p, "walk")
  /\ UNCHANGED <<dirs, made, entries, inodes, walkVars, todo, placed, acts, faults>>

\* What openat() finds at level l: O_NOFOLLOW refuses a link.
OpensLinksToo(p, l) == IF Alive(p, l - 1) THEN {dirs[l]} ELSE {Absent}
Opened(p, l) ==
  IF ~Alive(p, l - 1) THEN {Absent} ELSE IF dirs[l] = Link THEN {} ELSE {dirs[l]}

Descends(p, dir) ==
  /\ level' = [level EXCEPT ![p] = @ + 1]
  /\ held' = [held EXCEPT ![p] = dir]
  /\ parent' = [parent EXCEPT ![p] = held[p]]
  /\ Goes(p, IF level'[p] < Depth THEN "walk" ELSE IF p \in Putters THEN "look" ELSE "list")

Walk(p) ==
  /\ pc[p] = "walk"
  /\ LET found == Opened(p, level[p] + 1)
     IN \/ found = {} /\ Dies(p) /\ UNCHANGED walkVars
        \/ \E dir \in found \ {Absent} : Descends(p, dir)
        \/ /\ Absent \in found
           /\ IF p \in Putters THEN Goes(p, "mkdir") ELSE Exits(p, 0)
           /\ UNCHANGED walkVars
  /\ UNCHANGED <<dirs, made, entries, inodes, src, todo, placed, acts, faults>>

\* Somebody else's mkdir() is as good.
Mkdir(p) ==
  /\ pc[p] = "mkdir"
  /\ LET l == level[p] + 1
     IN \/ ~Alive(p, l - 1) /\ Dies(p) /\ UNCHANGED <<dirs, made>>
        \/ /\ Alive(p, l - 1)
           /\ Goes(p, "reopen")
           /\ IF dirs[l] = Absent
              THEN dirs' = [dirs EXCEPT ![l] = made + 1] /\ made' = made + 1
              ELSE UNCHANGED <<dirs, made>>
  /\ UNCHANGED <<entries, inodes, walkVars, src, todo, placed, acts, faults>>

\* A directory that is gone again leaves a walk without one, on which every
\* later call fails.
Reopen(p) ==
  /\ pc[p] = "reopen"
  /\ LET found == Opened(p, level[p] + 1)
     IN \/ found = {} /\ Dies(p) /\ UNCHANGED walkVars
        \/ \E dir \in found \ {Absent} : Descends(p, dir)
        \/ Absent \in found /\ Goes(p, "look") /\ UNCHANGED walkVars
  /\ UNCHANGED <<dirs, made, entries, inodes, src, todo, placed, acts, faults>>

-----------------------------------------------------------------------------
(* commandPut, placeFile. *)

Name(p) == Head(todo[p])

Look(p) ==
  /\ pc[p] = "look"
  /\ IF \A n \in ToSet(List[p]) : Entry(p, Plain(n)) = File(src[p][n]) THEN Exits(p, 0)
     ELSE IF p \in UnlessGit /\ Entry(p, Git) # None THEN Exits(p, 3)
     ELSE Goes(p, "stat")
  /\ UNCHANGED <<dirs, made, entries, inodes, walkVars, src, todo, placed, acts, faults>>

Stat(p) ==
  /\ p \in Putters /\ pc[p] = "stat"
  /\ IF Entry(p, Plain(Name(p))).kind = "dir" THEN Dies(p) ELSE Goes(p, "create")
  /\ UNCHANGED <<dirs, made, entries, inodes, walkVars, src, todo, placed, acts, faults>>

Create(p) ==
  /\ pc[p] = "create"
  /\ LET temp == Temp(Name(p), p)
     IN \/ /\ Here(p) /\ entries[temp] = None
           /\ entries' = [entries EXCEPT ![temp] = File(<<p, Name(p)>>)]
           /\ Goes(p, "copy") /\ UNCHANGED faults
        \/ (~Here(p) \/ entries[temp] # None) /\ Dies(p) /\ UNCHANGED <<entries, faults>>
        \/ Fault /\ Dies(p) /\ UNCHANGED entries
  /\ UNCHANGED <<dirs, made, inodes, walkVars, src, todo, placed, acts>>

\* copyAll(): a read or write that fails leaves the temporary behind.
EndOfCopy(chunks) == chunks = Chunks
Copy(p) ==
  /\ pc[p] = "copy"
  /\ LET file == inodes[<<p, Name(p)>>]
     IN \/ /\ ~EndOfCopy(file.chunks)
           /\ inodes' = [inodes EXCEPT ![<<p, Name(p)>>].chunks = @ + 1]
           /\ UNCHANGED <<pc, status, faults>>
        \/ EndOfCopy(file.chunks) /\ Goes(p, "chmod") /\ UNCHANGED <<inodes, faults>>
        \/ Fault /\ Dies(p) /\ UNCHANGED inodes
  /\ UNCHANGED <<dirs, made, entries, walkVars, src, todo, placed, acts>>

\* fail(): the temporary is taken away, unless it is gone with its directory.
CleansUp(p) ==
  /\ Dies(p)
  /\ entries' = IF Here(p) THEN [entries EXCEPT ![Temp(Name(p), p)] = None] ELSE entries

Chmod(p) ==
  /\ pc[p] = "chmod"
  /\ \/ /\ inodes' = [inodes EXCEPT ![<<p, Name(p)>>].mode = TRUE]
        /\ Goes(p, "fsync") /\ UNCHANGED <<entries, faults>>
     \/ Fault /\ CleansUp(p) /\ UNCHANGED inodes
  /\ UNCHANGED <<dirs, made, walkVars, src, todo, placed, acts>>

NotSynced(file) == file
Synced(file) == [file EXCEPT !.synced = TRUE]
Fsync(p) ==
  /\ pc[p] = "fsync"
  /\ \/ /\ inodes' = [inodes EXCEPT ![<<p, Name(p)>>] = Synced(@)]
        /\ Goes(p, "rename") /\ UNCHANGED <<entries, faults>>
     \/ Fault /\ CleansUp(p) /\ UNCHANGED inodes
  /\ UNCHANGED <<dirs, made, walkVars, src, todo, placed, acts>>

\* The kernel refuses to put a file in the place of a directory.
Rename(p) ==
  /\ pc[p] = "rename"
  /\ LET temp == Temp(Name(p), p)
         target == Plain(Name(p))
         possible == Here(p) /\ entries[temp] # None /\ entries[target].kind # "dir"
     IN \/ /\ possible
           /\ entries' = [entries EXCEPT ![target] = entries[temp], ![temp] = None]
           /\ placed' = [placed EXCEPT ![p] = @ \cup {Name(p)}]
           /\ todo' = [todo EXCEPT ![p] = Tail(@)]
           /\ IF todo'[p] = <<>> THEN Exits(p, 0) ELSE Goes(p, "stat")
           /\ UNCHANGED faults
        \/ ~possible /\ CleansUp(p) /\ UNCHANGED <<todo, placed, faults>>
        \/ Fault /\ CleansUp(p) /\ UNCHANGED <<todo, placed>>
  /\ UNCHANGED <<dirs, made, inodes, walkVars, src, acts>>

-----------------------------------------------------------------------------
(* commandRemove. *)

\* expandNames(): patterns are matched against what the directory holds now.
MatchesAll(p) == List[p] \o SetToSeq({n \in Names : Entry(p, Plain(n)) # None})
ExpandNames(p) == List[p] \o SetToSeq({n \in Prefixed[p] : Entry(p, Plain(n)) # None})
ListNames(p) ==
  /\ pc[p] = "list"
  /\ todo' = [todo EXCEPT ![p] = ExpandNames(p)]
  /\ Goes(p, "stat")
  /\ UNCHANGED <<dirs, made, entries, inodes, walkVars, src, placed, acts, faults>>

NextName(p) == todo' = [todo EXCEPT ![p] = Tail(@)] /\ Goes(p, "stat")

Removable(kind) == kind \in {"file", "link"}
Examine(p) ==
  /\ p \in Removers /\ pc[p] = "stat" /\ todo[p] # <<>>
  /\ IF Removable(Entry(p, Plain(Name(p))).kind) THEN Goes(p, "unlink") /\ UNCHANGED todo ELSE NextName(p)
  /\ UNCHANGED <<dirs, made, entries, inodes, walkVars, src, placed, acts, faults>>

Unlink(p) ==
  /\ pc[p] = "unlink"
  /\ LET target == Plain(Name(p))
         possible == Entry(p, target).kind \in {"file", "link"}
     IN \/ possible /\ entries' = [entries EXCEPT ![target] = None] /\ NextName(p) /\ UNCHANGED faults
        \/ ~possible /\ Dies(p) /\ UNCHANGED <<entries, todo, faults>>
        \/ Fault /\ Dies(p) /\ UNCHANGED <<entries, todo>>
  /\ UNCHANGED <<dirs, made, inodes, walkVars, src, placed, acts>>

\* The last directory is removed from its parent, by name, if it is empty.
Finish(p) ==
  /\ p \in Removers /\ pc[p] = "stat" /\ todo[p] = <<>>
  /\ LET there == parent[p] = dirs[Depth - 1] /\ dirs[Depth] > 0
     IN IF p \notin Rmdir \/ (there /\ entries # Empty) THEN Exits(p, 0) /\ UNCHANGED dirs
        ELSE IF there THEN Exits(p, 0) /\ dirs' = [dirs EXCEPT ![Depth] = Absent]
        ELSE Dies(p) /\ UNCHANGED dirs
  /\ UNCHANGED <<made, entries, inodes, walkVars, src, todo, placed, acts, faults>>

-----------------------------------------------------------------------------
(* What else happens. *)

Kill(p) ==
  /\ Running(p) /\ Fault /\ Exits(p, -2)
  /\ UNCHANGED <<dirs, made, entries, inodes, walkVars, src, todo, placed, acts>>

\* A file that was not flushed may be empty afterwards.  (A rename not yet on
\* the disk would only bring back the old file, whole.)
PowerLoss ==
  /\ Fault
  /\ pc' = [p \in Procs |-> IF Running(p) THEN "ended" ELSE pc[p]]
  /\ status' = [p \in Procs |-> IF Running(p) THEN -2 ELSE status[p]]
  /\ inodes' = [i \in Ids |-> IF inodes[i].synced THEN inodes[i] ELSE [inodes[i] EXCEPT !.chunks = 0]]
  /\ UNCHANGED <<dirs, made, entries, walkVars, src, todo, placed, acts>>

Act == acts < MaxActs /\ acts' = acts + 1

\* The user's other programs make, replace and remove entries,
UserEntry ==
  /\ Act /\ dirs[Depth] > 0
  /\ \E n \in Names, e \in {None, Other("dir"), Other("link")} :
       entries' = [entries EXCEPT ![Plain(n)] = e]
  /\ UNCHANGED <<pc, status, dirs, made, inodes, walkVars, src, todo, placed, faults>>
UserFile ==
  /\ Act /\ dirs[Depth] > 0
  /\ \E n \in Names : entries' = [entries EXCEPT ![Plain(n)] = File(Theirs(n))]
  /\ UNCHANGED <<pc, status, dirs, made, inodes, walkVars, src, todo, placed, faults>>
UserClones ==
  /\ Act /\ dirs[Depth] > 0
  /\ entries' = [entries EXCEPT ![Git] = Other("dir")]
  /\ UNCHANGED <<pc, status, dirs, made, inodes, walkVars, src, todo, placed, faults>>

\* or a directory with all it holds, also for a link to a place of theirs.
UserDirectory ==
  /\ Act
  /\ \E l \in 1 .. Depth, new \in {Absent, Link} :
       /\ dirs[l - 1] > 0
       /\ dirs' = [k \in 0 .. Depth |-> IF k < l THEN dirs[k] ELSE IF k = l THEN new ELSE Absent]
  /\ entries' = Empty
  /\ UNCHANGED <<pc, status, made, inodes, walkVars, src, todo, placed, faults>>

Next ==
  \/ \E p \in Procs : Start(p) \/ Walk(p) \/ Kill(p)
  \/ \E p \in Putters : \/ Mkdir(p) \/ Reopen(p) \/ Look(p) \/ Stat(p) \/ Create(p) \/ Copy(p)
                    \/ Chmod(p) \/ Fsync(p) \/ Rename(p)
  \/ \E p \in Removers : ListNames(p) \/ Examine(p) \/ Unlink(p) \/ Finish(p)
  \/ PowerLoss \/ UserEntry \/ UserFile \/ UserClones \/ UserDirectory

Spec == Init /\ [][Next]_vars

-----------------------------------------------------------------------------
(* Properties. *)

\* Types, with: what is open is a directory that was below the home directory
\* when it was opened, never where a link led.
TypeOK ==
  /\ \A p \in Procs : /\ status[p] \in {-2, -1, 0, 1, 3} /\ (status[p] # -1) = (pc[p] = "ended")
                      /\ level[p] \in 0 .. Depth
                      /\ held[p] \in Home .. made /\ parent[p] \in {Absent} \cup Home .. made
                      /\ ToSet(todo[p]) \subseteq Names
  /\ \A l \in 0 .. Depth : dirs[l] \in {Absent, Link} \cup Home .. made
  /\ \A k \in Keys : entries[k] \in {None, Other("dir"), Other("link")} \cup {File(i) : i \in Ids}
  /\ dirs[Depth] \in {Absent, Link} => entries = Empty
  /\ \A i \in Ids : inodes[i].chunks \in 0 .. Chunks
  /\ \A p \in Putters : placed[p] \subseteq ToSet(List[p])

\* At every moment, and also after a kill or a power loss, each name holds the
\* old file or the whole of a new one with its mode, never a part of one.
TargetsWhole ==
  \A n \in Names : LET e == entries[Plain(n)]
                   IN e.kind = "file" => inodes[e.ino].chunks = Chunks /\ inodes[e.ino].mode

\* The exit status tells the truth: 0 is said when every name has been replaced
\* (or was its own source) and no temporary is left, 3 when nothing was touched,
\* and a put fails only for a failing call, another program's doing or a
\* remove: puts that run at once do not make each other fail.
Calm == faults = 0 /\ acts = 0 /\ \A r \in Removers : pc[r] = "idle"
StatusTrue ==
  \A p \in Putters :
    /\ status[p] = 0 => placed[p] = ToSet(List[p]) \/ (placed[p] = {} /\ p \in InPlace)
    /\ status[p] = 3 => placed[p] = {} /\ p \in UnlessGit
    /\ status[p] \in {0, 3} => \A n \in Names : entries[Temp(n, p)] = None
    /\ status[p] = 1 => ~Calm

\* But for other programs, an entry is changed only if a running invocation was
\* given it, or it is that one's temporary; no directory is replaced or removed,
\* whatever has come to be one since it was looked at.  (Which of several running
\* invocations changed an entry the state does not tell.)
Own(p) ==
  IF p \in Putters THEN UNION {{Plain(n), Temp(n, p)} : n \in ToSet(List[p])}
  ELSE {Plain(n) : n \in ToSet(List[p]) \cup Prefixed[p]}
ChangesOwn ==
  acts' = acts =>
    \A k \in Keys : entries'[k] # entries[k] =>
      /\ entries[k].kind # "dir"
      /\ \E p \in Procs : Running(p) /\ k \in Own(p)
OnlyItsOwn == [][ChangesOwn]_vars

=============================================================================
