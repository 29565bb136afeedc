------------------------------ MODULE Fsstress ------------------------------
(***************************************************************************)
(* fsstress (src/src/fsstress.rs): threads that work at random on one base *)
(* directory.  Each keeps lists of what it has made and takes its names    *)
(* from a sequence of its own that starts at 0, so that names of different *)
(* threads collide in the base directory; a path is computed from the      *)
(* lists, parent by parent, whenever it is needed.                         *)
(*                                                                         *)
(* A path is the sequence of its names below the base directory, a name is *)
(* a type and a number.  Contents, attributes and offsets are left out;    *)
(* sizes count pages, because a write through a mapping that another       *)
(* thread has cut short is a SIGBUS.                                       *)
(***************************************************************************)
EXTENDS Naturals, Sequences, FiniteSetsExt

CONSTANTS
  Threads,    \* the threads (-p)
  Nops,       \* operations of each thread (-n times --loops)
  NodeTypes,  \* of sym, chr and blk
  Leftovers,  \* what the base directory may hold at the start: sets of names
  MaxSize,    \* largest file, in pages
  MaxNodes    \* files and nodes that can exist at the same time

ASSUME FsstressAssumption ==
  /\ IsFiniteSet(Threads) /\ Threads # {}
  /\ Nops \in Nat /\ MaxSize \in Nat \ {0} /\ MaxNodes \in Nat \ {0}
  /\ NodeTypes \subseteq {"sym", "chr", "blk"}
  /\ Leftovers \subseteq SUBSET (({"dir", "reg"} \cup NodeTypes) \X Nat)

Inodes == 1..MaxNodes
Directory == 0
Nobody == "nobody"
NoMap == [node |-> 0, page |-> 0]
Base == <<>>

VARIABLES
  lists,      \* lists of each thread: entries [type, id, parent]
  nameseq,    \* next name of each thread
  done,       \* operations each thread has done: opsDone
  map,        \* the file and page a thread is about to write through a mapping
  tree,       \* the file system: paths to inodes, directories are 0
  size,       \* sizes of the files
  created,    \* the shared set of paths for the cleanup
  todo,       \* cleanup: paths not yet removed
  rounds,     \* cleanup: rounds of rmdir
  main,       \* control state of run
  old,        \* history: what was there before the run
  cutter      \* history: the thread that cut each file short last

local == <<lists, nameseq, done, map>>
disk == <<tree, size>>
cleanup == <<todo, rounds>>
ghosts == <<old, cutter>>
vars == <<local, disk, created, cleanup, main, ghosts>>

Types == {"dir", "reg"} \cup NodeTypes
Name(ft, id) == <<ft, id>>

Init ==
  /\ lists = [t \in Threads |-> {}]
  /\ nameseq = [t \in Threads |-> 0]
  /\ done = [t \in Threads |-> 0]
  /\ map = [t \in Threads |-> NoMap]
  /\ old \in Leftovers
  /\ tree = [p \in {<<n>> : n \in old} |-> IF p[1][1] = "dir" THEN Directory ELSE 1]
  /\ size = [i \in Inodes |-> 0]
  /\ created = {}
  /\ todo = {} /\ rounds = 0
  /\ main = "run"
  /\ cutter = [i \in Inodes |-> Nobody]

-----------------------------------------------------------------------------
(* The file system under test (external). *)

Exists(p) == p \in DOMAIN tree
Parent(p) == SubSeq(p, 1, Len(p) - 1)
Holds(p) == p = Base \/ (Exists(p) /\ tree[p] = Directory)
Children(p) == {q \in DOMAIN tree : q # Base /\ Parent(q) = p}

Put(p, node) == [q \in DOMAIN tree \cup {p} |-> IF q = p THEN node ELSE tree[q]]
Without(ps) == [q \in DOMAIN tree \ ps |-> tree[q]]

\* inodes that are named or mapped; a fresh one is empty
Used == {tree[p] : p \in DOMAIN tree} \cup {map[t].node : t \in Threads}
Free == Inodes \ Used
Fresh == CHOOSE i \in Free : \A j \in Free : i <= j

-----------------------------------------------------------------------------
(* The lists of a thread. *)

Dirs(t) == {e \in lists[t] : e.type = "dir"}
OfType(t, types) == {e \in lists[t] : e.type \in types}

\* the path of the directory with a number; the base directory if there is none
DirName(t, id) ==
  LET up[k \in 0..id] ==
        IF \E d \in Dirs(t) : d.id = k
        THEN LET d == CHOOSE d \in Dirs(t) : d.id = k
             IN Append(IF d.parent < k THEN up[d.parent] ELSE Base, Name("dir", k))
        ELSE Base
  IN up[id]

\* fent_to_name; an entry of the base directory has itself as parent (-1)
FentToName(t, e) ==
  Append(IF e.parent = e.id THEN Base ELSE DirName(t, e.parent),
         Name(e.type, e.id))

\* generate_name: in a directory of the thread, in the base if it has none
NewEntries(t, ft) ==
  LET id == nameseq[t]
      parents == IF Dirs(t) = {} THEN {id} ELSE {d.id : d \in Dirs(t)}
  IN {[type |-> ft, id |-> id, parent |-> p] : p \in parents}

-----------------------------------------------------------------------------
(* Operations of a thread. *)

Works(t) == main = "run" /\ done[t] < Nops /\ map[t] = NoMap

Done(t) == done' = [done EXCEPT ![t] = @ + 1]
Named(t) == nameseq' = [nameseq EXCEPT ![t] = @ + 1]

\* report_err: the error is counted and the thread goes on; every operation may
\* fail, for want of space, of privilege (mknod) or of a target (symlink)
Failed == UNCHANGED <<lists, disk, created, cutter>>

\* add_fent and note_created
Add(t, e, p) ==
  /\ lists' = [lists EXCEPT ![t] = @ \cup {e}]
  /\ created' = created \cup {p}

\* creat opens without O_EXCL: a file of that name becomes shared
Creat(t) ==
  /\ Works(t)
  /\ \E e \in NewEntries(t, "reg") :
       LET p == FentToName(t, e)
       IN \/ /\ Holds(Parent(p))
             /\ Exists(p) \/ Free # {}
             /\ Add(t, e, p)
             /\ tree' = IF Exists(p) THEN tree ELSE Put(p, Fresh)
             /\ size' = IF Exists(p) THEN size ELSE [size EXCEPT ![Fresh] = 0]
             /\ cutter' = IF Exists(p) THEN cutter
                          ELSE [cutter EXCEPT ![Fresh] = Nobody]
          \/ Failed
  /\ Named(t) /\ Done(t)
  /\ UNCHANGED <<map, cleanup, main, old>>

\* mkdir, symlink, mknod: the name must be new
Make(t, ft) ==
  /\ Works(t)
  /\ \E e \in NewEntries(t, ft) :
       LET p == FentToName(t, e)
       IN \/ /\ Holds(Parent(p)) /\ ~Exists(p)
             /\ ft = "dir" \/ Free # {}
             /\ Add(t, e, p)
             /\ tree' = Put(p, IF ft = "dir" THEN Directory ELSE Fresh)
             /\ UNCHANGED <<size, cutter>>
          \/ Failed
  /\ Named(t) /\ Done(t)
  /\ UNCHANGED <<map, cleanup, main, old>>

\* link: of a file or node to a new name of its type
Link(t) ==
  /\ Works(t)
  /\ \E s \in lists[t] \ Dirs(t) : \E e \in NewEntries(t, s.type) :
       LET p == FentToName(t, e)
           q == FentToName(t, s)
       IN \/ /\ Exists(q) /\ Holds(Parent(p)) /\ ~Exists(p)
             /\ Add(t, e, p)
             /\ tree' = Put(p, tree[q])
             /\ UNCHANGED <<size, cutter>>
          \/ Failed
  /\ Named(t) /\ Done(t)
  /\ UNCHANGED <<map, cleanup, main, old>>

\* mutant: the new name is not noted for the cleanup
RenameUnnoted(t) ==
  /\ Works(t)
  /\ \E s \in lists[t] \ Dirs(t) : \E e \in NewEntries(t, s.type) :
       LET p == FentToName(t, e)
           q == FentToName(t, s)
       IN \/ /\ Exists(q) /\ Holds(Parent(p))
             /\ lists' = [lists EXCEPT ![t] = (@ \ {s}) \cup {e}]
             /\ tree' = IF Exists(p) /\ tree[p] = tree[q] THEN tree
                        ELSE [r \in (DOMAIN tree \ {q}) \cup {p} |->
                                IF r = p THEN tree[q] ELSE tree[r]]
             /\ UNCHANGED <<created, size, cutter>>
          \/ Failed
  /\ Named(t) /\ Done(t)
  /\ UNCHANGED <<map, cleanup, main, old>>

\* rename: replaces what has the new name, and does nothing if the two names
\* are links to one file
Rename(t) ==
  /\ Works(t)
  /\ \E s \in lists[t] \ Dirs(t) : \E e \in NewEntries(t, s.type) :
       LET p == FentToName(t, e)
           q == FentToName(t, s)
       IN \/ /\ Exists(q) /\ Holds(Parent(p))
             /\ lists' = [lists EXCEPT ![t] = (@ \ {s}) \cup {e}]
             /\ created' = created \cup {p}
             /\ tree' = IF Exists(p) /\ tree[p] = tree[q] THEN tree
                        ELSE [r \in (DOMAIN tree \ {q}) \cup {p} |->
                                IF r = p THEN tree[q] ELSE tree[r]]
             /\ UNCHANGED <<size, cutter>>
          \/ Failed
  /\ Named(t) /\ Done(t)
  /\ UNCHANGED <<map, cleanup, main, old>>

\* mutant: the entry goes whether the call succeeds or not
RemoveForgets(t) ==
  /\ Works(t)
  /\ \E e \in lists[t] :
       LET p == FentToName(t, e)
       IN /\ tree' = IF Exists(p) /\ Children(p) = {} THEN Without({p}) ELSE tree
          /\ lists' = [lists EXCEPT ![t] = @ \ {e}]
  /\ Done(t)
  /\ UNCHANGED <<size, created, cutter, nameseq, map, cleanup, main, old>>

\* unlink of a file or node, rmdir of an empty directory
Remove(t) ==
  /\ Works(t)
  /\ \E e \in lists[t] :
       LET p == FentToName(t, e)
       IN \/ /\ Exists(p) /\ Children(p) = {}
             /\ tree' = Without({p})
             /\ lists' = [lists EXCEPT ![t] = @ \ {e}]
             /\ UNCHANGED <<size, created, cutter>>
          \/ Failed
  /\ Done(t)
  /\ UNCHANGED <<nameseq, map, cleanup, main, old>>

\* a file of the thread that can be opened
Openable(t) == {p \in {FentToName(t, e) : e \in OfType(t, {"reg"})} : Exists(p)}

SetSize(t, i, n) ==
  /\ size' = [size EXCEPT ![i] = n]
  /\ cutter' = IF n < size[i] THEN [cutter EXCEPT ![i] = t] ELSE cutter
  /\ Done(t)
  /\ UNCHANGED <<lists, nameseq, map, tree, created, cleanup, main, old>>

\* write, writev: at an offset inside the file or behind its end
Rw(t) ==
  /\ Works(t)
  /\ \E p \in Openable(t) : \E n \in size[tree[p]]..MaxSize : SetSize(t, tree[p], n)

\* truncate: to any size
Truncate(t) ==
  /\ Works(t)
  /\ \E p \in Openable(t) : \E n \in 0..MaxSize : SetSize(t, tree[p], n)

\* fallocate, zero and insert grow a file, punch keeps its size, collapse leaves
\* at least a page
FallocRange(t) ==
  /\ Works(t)
  /\ \E p \in Openable(t) : \E n \in Min({1, size[tree[p]]})..MaxSize :
       SetSize(t, tree[p], n)

\* the other operations change neither names nor sizes; so does one that fails
\* to open its file or has nothing to work on
Look(t) ==
  /\ Works(t)
  /\ Done(t)
  /\ UNCHANGED <<lists, nameseq, map, disk, created, cleanup, main, ghosts>>

\* mutant: an offset of size itself
MapOpenPastEnd(t) ==
  /\ Works(t)
  /\ \E e \in OfType(t, {"reg"}) :
       LET p == FentToName(t, e)
       IN /\ Exists(p) /\ size[tree[p]] > 0
          /\ \E k \in 0..size[tree[p]] :
               map' = [map EXCEPT ![t] = [node |-> tree[p], page |-> k]]
  /\ UNCHANGED <<lists, nameseq, done, disk, created, cleanup, main, ghosts>>

\* mwrite: open, fstat and mmap a range inside the file
MapOpen(t) ==
  /\ Works(t)
  /\ \E e \in OfType(t, {"reg"}) :
       LET p == FentToName(t, e)
       IN /\ Exists(p) /\ size[tree[p]] > 0
          /\ \E k \in 0..size[tree[p]] - 1 :
               map' = [map EXCEPT ![t] = [node |-> tree[p], page |-> k]]
  /\ UNCHANGED <<lists, nameseq, done, disk, created, cleanup, main, ghosts>>

\* ... and write to it.  Behind the end of the file that is a SIGBUS; so is a page
\* that the file system cannot give (no space, an error).  The handler writes a
\* failed report, always with the first cause, and leaves
MapWrite(t) ==
  /\ main = "run"
  /\ map[t] # NoMap
  /\ \/ /\ map[t].page < size[map[t].node]
        /\ map' = [map EXCEPT ![t] = NoMap]
        /\ Done(t)
        /\ UNCHANGED main
     \/ /\ main' = "sigbus"
        /\ UNCHANGED <<map, done>>
  /\ UNCHANGED <<lists, nameseq, disk, created, cleanup, ghosts>>

\* --duration: the time is over
Expire(t) ==
  /\ Works(t)
  /\ done' = [done EXCEPT ![t] = Nops]
  /\ UNCHANGED <<lists, nameseq, map, disk, created, cleanup, main, ghosts>>

Thread(t) ==
  \/ Creat(t) \/ Link(t) \/ Rename(t) \/ Remove(t) \/ Look(t)
  \/ Rw(t) \/ Truncate(t) \/ FallocRange(t)
  \/ MapOpen(t) \/ MapWrite(t) \/ Expire(t)
  \/ \E ft \in NodeTypes \cup {"dir"} : Make(t, ft)

-----------------------------------------------------------------------------
(* run: join the threads, clean up, report. *)

Join ==
  /\ main = "run"
  /\ \A t \in Threads : done[t] = Nops /\ map[t] = NoMap
  /\ \/ main' = "sweep" /\ todo' = created       \* -c
     \/ main' = "done" /\ UNCHANGED todo
  /\ UNCHANGED <<local, disk, created, rounds, ghosts>>

\* the longest paths first: what is below a directory before the directory
Sweep ==
  /\ main = "sweep"
  /\ \/ /\ todo # {}
        /\ LET p == CHOOSE q \in todo : \A r \in todo : Len(r) <= Len(q)
           IN /\ todo' = todo \ {p}
              /\ tree' = IF Exists(p) /\ Children(p) = {} THEN Without({p}) ELSE tree
        /\ UNCHANGED main
     \/ /\ todo = {}
        /\ main' = "rounds"
        /\ UNCHANGED <<tree, todo>>
  /\ UNCHANGED <<local, size, created, rounds, ghosts>>

\* up to four rounds over the directories that are still there
Rounds ==
  /\ main = "rounds"
  /\ LET empty == {p \in created : Exists(p) /\ tree[p] = Directory /\ Children(p) = {}}
     IN /\ tree' = Without(empty)
        /\ main' = IF empty = {} \/ rounds = 3 THEN "clean" ELSE main
  /\ rounds' = rounds + 1
  /\ UNCHANGED <<local, size, created, todo, ghosts>>

Report ==
  /\ main = "clean"
  /\ main' = "done"
  /\ UNCHANGED <<local, disk, created, cleanup, ghosts>>

Finished == main \in {"done", "sigbus"} /\ UNCHANGED vars

Next == (\E t \in Threads : Thread(t)) \/ Join \/ Sweep \/ Rounds \/ Report \/ Finished

Spec == Init /\ [][Next]_vars

-----------------------------------------------------------------------------
(* Properties. *)

\* The lists are right about what is below the directories of a thread: the
\* directory of an entry is in the list of the thread (so a path never falls
\* back to the base directory), the path exists, and no two threads list one
\* directory.  Only names in the base directory can vanish under a thread.
ListsAreExact ==
  main = "run" => \A t \in Threads : \A e \in lists[t] :
    /\ e.parent # e.id => \E d \in Dirs(t) : d.id = e.parent
    /\ e.parent # e.id \/ e.type = "dir" => Exists(FentToName(t, e))
    /\ e.type = "dir" =>
         \A u \in Threads \ {t} : \A d \in Dirs(u) :
           FentToName(u, d) # FentToName(t, e)

\* The cleanup of -c leaves what was there before and was never opened, renamed
\* onto or linked by the run, and nothing else: every path a thread has made is
\* in the shared set, however it was made, and directories are emptied in time.
CleanupIsExact ==
  main = "clean" => DOMAIN tree = {<<n>> : n \in old} \ created

\* The race that the handler of SIGBUS reports is the only way to a mapping behind
\* the end of its file: another thread has cut the file short after this one had
\* looked at its size.  On a file system that gives every page of a file, a SIGBUS
\* is never the fault of the thread it hits, whatever the others do.
BehindEndIsRace ==
  \A t \in Threads :
    map[t] # NoMap /\ map[t].page >= size[map[t].node] =>
      cutter[map[t].node] \in Threads \ {t}
=============================================================================
