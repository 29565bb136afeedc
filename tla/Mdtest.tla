------------------------------ MODULE Mdtest --------------------------------
(***************************************************************************)
(* The mdtest suite (src/src/mdtest.rs): ranks (threads) go through the    *)
(* same phases - build a directory tree, then create, stat, read, rename   *)
(* and remove items in it, first directories and then files - each on the  *)
(* items of a rank that is shifted by the phase.                           *)
(*                                                                         *)
(* A directory is <<iteration, loop, path>>, where a path is a sequence of *)
(* labels: <<n>> stands for mdtest_tree.n and <<t, n>> for mdtest_tree.t.n. *)
(* An item is a directory and a name.  Data, times and rates are left out. *)
(***************************************************************************)
EXTENDS Naturals, Sequences, FiniteSets, SequencesExt

CONSTANTS
  N,        \* threads
  Options   \* the invocations considered: see OptionType

Ranks == 0..N-1

\* branch to verify: the command line; faults: how many item operations may
\* fail; left: whether an earlier create-only run has left its tree and items
OptionType ==
  [branch : Nat, depth : Nat, ipd : Nat, items : Nat, iterations : Nat,
   unique : BOOLEAN, dirs : BOOLEAN, files : BOOLEAN, create : BOOLEAN,
   stat : BOOLEAN, read : BOOLEAN, remove : BOOLEAN, rename : BOOLEAN,
   leaf : BOOLEAN, writeBytes : Nat, readBytes : Nat, nstride : Nat,
   random : BOOLEAN, stonewall : BOOLEAN, barriers : BOOLEAN, verify : BOOLEAN,
   faults : Nat, left : BOOLEAN]

ASSUME MdtestAssumption == N \in Nat \ {0} /\ Options \subseteq OptionType

VARIABLES
  p,          \* Params: the options and what run derives from them
  iter,       \* iteration of each rank
  at,         \* position of each rank in Plan
  loop, node, i,   \* a rank's dir_iter, directory and item inside its phase
  start, done,     \* Progress: items_start, items_done
  late,       \* the stonewall timer of the rank has passed
  arrived,    \* ranks waiting at the barrier
  died,       \* ranks whose run_rank returned an error
  dirs, items,     \* the file system
  faults,     \* item operations that may still fail
  warned,     \* some item operation has failed
  mismatch,   \* some data read was not what was written
  main        \* the main thread, and at the end the status it reports

work == <<loop, node, i, start, done, late>>
vars == <<p, iter, at, loop, node, i, start, done, late, arrived, died, dirs,
          items, faults, warned, mismatch, main>>

-----------------------------------------------------------------------------
(* What run makes of the command line. *)

\* no phase given means all phases; neither directories nor files means both
Defaulted(a) ==
  LET anyPhase == a.create \/ a.stat \/ a.read \/ a.remove \/ a.rename
      anyKind == a.dirs \/ a.files
  IN [a EXCEPT !.create = @ \/ ~anyPhase, !.stat = @ \/ ~anyPhase,
               !.read = @ \/ ~anyPhase, !.remove = @ \/ ~anyPhase,
               !.rename = @ \/ ~anyPhase,
               !.dirs = @ \/ ~anyKind, !.files = @ \/ ~anyKind]

NumDirs(a) ==
  IF a.depth = 0 \/ a.branch < 1 THEN 1
  ELSE IF a.branch = 1 THEN a.depth + 1
  ELSE (a.branch ^ (a.depth + 1) - 1) \div (a.branch - 1)
\* pow(0) of 0 is 1
LeafDirs(a) == IF a.depth = 0 THEN 1 ELSE a.branch ^ a.depth

ItemsPerDir(a) ==
  IF a.ipd > 0 THEN a.ipd
  ELSE IF a.leaf THEN IF a.branch <= 1 THEN a.items ELSE a.items \div LeafDirs(a)
  ELSE a.items \div NumDirs(a)
Items(a) ==
  IF a.ipd > 0 /\ a.items > 0 THEN a.items
  ELSE ItemsPerDir(a) * (IF a.leaf THEN LeafDirs(a) ELSE NumDirs(a))
DirectoryLoops(a) ==
  IF a.items > 0 /\ a.ipd > 0 /\ ~a.unique THEN a.items \div a.ipd ELSE 1

\* the combinations run refuses
Valid(a) ==
  /\ ~(a.stonewall /\ (a.branch > 1 \/ ~a.barriers))
  /\ ~(~a.barriers /\ a.nstride # 0)
  /\ ~(a.branch < 1 /\ a.depth > 0)
  /\ ~(a.items > 0 /\ a.ipd > 0 /\ (a.unique \/ a.items % a.ipd # 0))
  /\ a.verify => a.read /\ a.readBytes > 0
  /\ ~(a.create /\ a.read /\ a.readBytes > a.writeBytes)
  /\ ItemsPerDir(a) > 0

\* the directories below a tree root in the order of create_remove_items: the
\* children of directory d are d * branch + 1 .. (d + 1) * branch
Below(a) ==
  LET below[k \in 1..a.depth + 1, n \in 1..NumDirs(a) * (a.branch + 1) + 1] ==
        IF k > a.depth THEN <<>>
        ELSE FlattenSeq([j \in 1..a.branch |->
               LET c == n + j - 1
                   inner == below[k + 1, c * a.branch + 1]
               IN <<[path |-> <<<<c>>>>, num |-> c, depth |-> k]>>
                    \o [m \in DOMAIN inner |->
                          [inner[m] EXCEPT !.path = <<<<c>>>> \o @]]])
  IN below[1, 1]
Tree(a) == <<[path |-> <<>>, num |-> 0, depth |-> 0]>> \o Below(a)

\* the directories that hold items
Holding(a) ==
  LET Bears(x) == ~a.leaf \/ x.depth = a.depth IN SelectSeq(Tree(a), Bears)

Derived(a) ==
  [arg |-> a, ipd |-> ItemsPerDir(a), items |-> Items(a),
   loops |-> DirectoryLoops(a), tree |-> Tree(a), nodes |-> Holding(a),
   leafOffset |-> IF a.leaf THEN ItemsPerDir(a) * (NumDirs(a) - LeafDirs(a)) ELSE 0]

-----------------------------------------------------------------------------
(* Names. *)

Loops == 0..p.loops-1
StopItems == IF p.loops # 1 THEN p.ipd ELSE p.items

Shifted(r, phase) == (r + phase * p.arg.nstride) % N

\* where the tree of rank t is built, and where its items are looked for
BuiltRoot(t) == IF p.arg.unique THEN <<<<t>>, <<0>>>> ELSE <<<<0>>>>
TreeRoot(t) == IF p.arg.unique THEN <<<<t, 0>>>> ELSE <<<<0>>>>

\* mutant: the walk up goes one directory too far
ItemDirFurther(t, num) ==
  LET Label(n) == IF p.arg.unique THEN <<t, n>> ELSE <<n>>
      up[n \in 0..num] ==
        IF n >= p.arg.branch
          THEN Append(up[(n - 1) \div p.arg.branch], Label(n))
          ELSE <<Label(n)>>
      parent == num \div p.ipd
  IN IF parent > 0 THEN up[parent] ELSE <<>>

\* item_path: the directory of an item, from its number alone
ItemDir(t, num) ==
  LET Label(n) == IF p.arg.unique THEN <<t, n>> ELSE <<n>>
      up[n \in 0..num] ==
        IF n > p.arg.branch
          THEN Append(up[(n - 1) \div p.arg.branch], Label(n))
          ELSE <<Label(n)>>
      parent == num \div p.ipd
  IN IF parent > 0 THEN up[parent] ELSE <<>>

Item(r, l, path, kind, t, num, renamed) ==
  [dir |-> <<iter[r], l, path>>, kind |-> kind, owner |-> t, num |-> num,
   renamed |-> renamed]

\* the item rank r looks for in a phase, by its number
Looked(r, phase, kind, num) ==
  LET t == Shifted(r, phase)
  IN Item(r, loop[r], TreeRoot(t) \o ItemDir(t, num), kind, t, num, FALSE)

\* the item rank r is at while it walks through the tree
Walked(r, phase, kind) ==
  LET t == Shifted(r, phase)
      here == p.nodes[node[r]]
  IN Item(r, loop[r], TreeRoot(t) \o here.path, kind, t, here.num * p.ipd + i[r], FALSE)

TreeDirs(l, it, root) == {<<it, l, root \o p.tree[j].path>> : j \in DOMAIN p.tree}

-----------------------------------------------------------------------------
(* run_rank: the phases of one iteration. *)

Plan ==
  LET a == p.arg
      Sync == IF a.barriers THEN <<"barrier">> ELSE <<>>
      Phase(on, op) == IF on THEN Sync \o <<op>> \o Sync ELSE <<>>
  IN (IF a.create THEN <<"testdirs", "barrier", "mktree", "barrier">> ELSE <<>>)
     \o Phase(a.dirs /\ a.create, "dircreate")
     \o Phase(a.dirs /\ a.stat, "dirstat")
     \o (IF a.dirs /\ a.read THEN Sync \o Sync ELSE <<>>)
     \o Phase(a.dirs /\ a.rename /\ p.items > 1, "rename")
     \o Phase(a.dirs /\ a.remove, "dirremove")
     \o Phase(a.files /\ a.create, "filecreate")
     \o Phase(a.files /\ a.stat, "filestat")
     \o Phase(a.files /\ a.read, "fileread")
     \o Phase(a.files /\ a.remove, "fileremove")
     \o <<"barrier">>
     \o (IF a.remove THEN <<"rmtree", "barrier">> ELSE <<>>)

\* what an earlier create-only run of the same command line leaves
LeftDirs ==
  {<<0, l, <<>>>> : l \in Loops}
    \cup UNION {TreeDirs(l, 0, BuiltRoot(t)) : l \in Loops, t \in Ranks}
LeftItems ==
  UNION {{[dir |-> <<0, l, TreeRoot(t) \o p.nodes[j].path>>, kind |-> kind,
           owner |-> t, num |-> p.nodes[j].num * p.ipd + n, renamed |-> FALSE] :
            l \in Loops, j \in DOMAIN p.nodes, n \in 0..p.ipd-1, t \in Ranks} :
         kind \in {k \in {"dir", "file"} : IF k = "dir" THEN p.arg.dirs ELSE p.arg.files}}

Init ==
  /\ \E a \in Options :
       IF Valid(Defaulted(a))
         THEN p = Derived(Defaulted(a)) /\ main = "join"
         ELSE p = Derived([Defaulted(a) EXCEPT !.depth = 0, !.ipd = 1]) /\ main = "error"
  /\ iter = [r \in Ranks |-> 0]
  /\ at = [r \in Ranks |-> 1]
  /\ loop = [r \in Ranks |-> 0]
  /\ node = [r \in Ranks |-> 1]
  /\ i = [r \in Ranks |-> 0]
  /\ start = [r \in Ranks |-> 0]
  /\ done = [r \in Ranks |-> 0]
  /\ late = [r \in Ranks |-> FALSE]
  /\ arrived = {}
  /\ died = {}
  /\ dirs = IF p.arg.left THEN LeftDirs ELSE {}
  /\ items = IF p.arg.left THEN LeftItems ELSE {}
  /\ faults = p.arg.faults
  /\ warned = FALSE
  /\ mismatch = FALSE
  /\ main \in {"join", "error"}

Alive(r) == main = "join" /\ r \notin died /\ iter[r] < p.arg.iterations
Doing(r, op) == Alive(r) /\ Plan[at[r]] = op

\* ranks R go on to their next step, with fresh loop variables
StepOn(R) ==
  LET AtEnd(r) == at[r] = Len(Plan) IN
  /\ at' = [r \in Ranks |-> IF r \notin R THEN at[r] ELSE IF AtEnd(r) THEN 1 ELSE at[r] + 1]
  /\ iter' = [r \in Ranks |-> IF r \in R /\ AtEnd(r) THEN iter[r] + 1 ELSE iter[r]]
  /\ loop' = [r \in Ranks |-> IF r \in R THEN 0 ELSE loop[r]]
  /\ node' = [r \in Ranks |-> IF r \in R THEN 1 ELSE node[r]]
  /\ i' = [r \in Ranks |-> IF r \in R THEN 0 ELSE i[r]]
  /\ start' = [r \in Ranks |-> IF r \in R THEN 0 ELSE start[r]]
  /\ done' = [r \in Ranks |-> IF r \in R THEN 0 ELSE done[r]]
  /\ late' = [r \in Ranks |-> IF r \in R THEN FALSE ELSE late[r]]

Stay == UNCHANGED <<iter, at>>

BarrierWait(r) ==
  /\ Doing(r, "barrier")
  /\ r \notin arrived
  /\ IF arrived \cup {r} = Ranks
       THEN arrived' = {} /\ StepOn(Ranks)
       ELSE arrived' = arrived \cup {r} /\ Stay /\ UNCHANGED work
  /\ UNCHANGED <<p, died, dirs, items, faults, warned, mismatch, main>>

-----------------------------------------------------------------------------
(* The directory tree. *)

\* every rank makes the test directories; that they exist is no error
MakeTestDirs(r) ==
  /\ Doing(r, "testdirs")
  /\ dirs' = dirs \cup {<<iter[r], l, <<>>>> : l \in Loops}
  /\ StepOn({r})
  /\ UNCHANGED <<p, arrived, died, items, faults, warned, mismatch, main>>

BuildsTree(r) == p.arg.unique \/ r = 0

\* the base directory of a rank's own tree, and the tree
OwnTree(r, l) ==
  TreeDirs(l, iter[r], BuiltRoot(r))
    \cup (IF p.arg.unique THEN {<<iter[r], l, <<<<r>>>>>>} ELSE {})

\* create_remove_tree: a directory that exists is an error, and ends the rank
MakeTree(r) ==
  LET Clash(l) == <<iter[r], l, BuiltRoot(r)>> \in dirs
      built == {l \in Loops : \A k \in 0..l : ~Clash(k)}
  IN
  /\ Doing(r, "mktree")
  /\ dirs' = IF BuildsTree(r) THEN dirs \cup UNION {OwnTree(r, l) : l \in built} ELSE dirs
  /\ IF BuildsTree(r) /\ built # Loops
       THEN died' = died \cup {r} /\ Stay /\ UNCHANGED work
       ELSE StepOn({r}) /\ UNCHANGED died
  /\ UNCHANGED <<p, arrived, items, faults, warned, mismatch, main>>

\* directories of D with an item below them
Occupied(D) == {x \in D : \E y \in items :
                  /\ y.dir[1] = x[1] /\ y.dir[2] = x[2]
                  /\ IsPrefix(x[3], y.dir[3])}

\* children first; what is not empty stays; rank 0 also removes the test directory
RemoveTree(r) ==
  LET own == IF BuildsTree(r) THEN OwnTree(r, loop[r]) ELSE {}
      rest == dirs \ (own \ Occupied(own))
      top == <<iter[r], loop[r], <<>>>>
      empty == \A x \in rest \ {top} : x[1] # iter[r] \/ x[2] # loop[r]
  IN
  /\ Doing(r, "rmtree")
  /\ dirs' = IF r = 0 /\ empty THEN rest \ {top} ELSE rest
  /\ IF loop[r] + 1 < p.loops
       THEN loop' = [loop EXCEPT ![r] = @ + 1] /\ Stay
            /\ UNCHANGED <<node, i, start, done, late>>
       ELSE StepOn({r})
  /\ UNCHANGED <<p, arrived, died, items, faults, warned, mismatch, main>>

-----------------------------------------------------------------------------
(* create_remove_items and item_range *)

\* the rank leaves its directory with n items done in it, late or not.  The loops
\* over test directories of the file creation start where the last one ended.
LeaveDirectory(r, n, op, l) ==
  LET first == IF op = "filecreate" THEN n ELSE 0 IN
  IF node[r] < Len(p.nodes)
    THEN /\ node' = [node EXCEPT ![r] = @ + 1]
         /\ i' = [i EXCEPT ![r] = start[r]]
         /\ done' = [done EXCEPT ![r] = n]
         /\ late' = [late EXCEPT ![r] = l]
         /\ UNCHANGED <<loop, start>> /\ Stay
  ELSE IF loop[r] + 1 < p.loops /\ first < p.ipd
    THEN /\ loop' = [loop EXCEPT ![r] = @ + 1]
         /\ node' = [node EXCEPT ![r] = 1]
         /\ i' = [i EXCEPT ![r] = first]
         /\ start' = [start EXCEPT ![r] = first]
         /\ done' = [done EXCEPT ![r] = n]
         /\ late' = [late EXCEPT ![r] = l]
         /\ Stay
  ELSE StepOn({r})

\* after an item; the timer may pass at any time while files are created, and
\* from then on every directory is left after one item
NextItem(r, op) ==
  LET n == i[r] + 1 IN
  \E l \in IF op = "filecreate" /\ p.arg.stonewall THEN {late[r], TRUE} ELSE {FALSE} :
    IF l \/ n = p.ipd
      THEN LeaveDirectory(r, n, op, l)
      ELSE /\ i' = [i EXCEPT ![r] = n]
           /\ done' = [done EXCEPT ![r] = n]
           /\ UNCHANGED <<loop, node, start, late>> /\ Stay

\* mutant: a failing operation is tried again
AttemptAgain(possible, result) ==
  possible /\ items' = result /\ UNCHANGED <<faults, warned>>

\* one operation on an item; a failing one is logged and the phase goes on
Attempt(possible, result) ==
  \/ possible /\ items' = result /\ UNCHANGED <<faults, warned>>
  \/ ~possible /\ warned' = TRUE /\ UNCHANGED <<items, faults>>
  \/ faults > 0 /\ faults' = faults - 1 /\ warned' = TRUE /\ UNCHANGED items

PhaseFrame == UNCHANGED <<p, arrived, died, dirs, main>>

CreateItem(r, op, kind) ==
  LET x == Walked(r, 0, kind) IN
  /\ Doing(r, op)
  /\ Attempt(x.dir \in dirs /\ (kind = "dir" => x \notin items), items \cup {x})
  /\ NextItem(r, op)
  /\ PhaseFrame /\ UNCHANGED mismatch

RemoveItem(r, op, kind) ==
  LET x == Walked(r, 3, kind) IN
  /\ Doing(r, op)
  /\ Attempt(x \in items, items \ {x})
  /\ NextItem(r, op)
  /\ PhaseFrame /\ UNCHANGED mismatch

-----------------------------------------------------------------------------
(* stat_phase, read_phase and rename_phase: items by their numbers *)

NextNumber(r) ==
  IF i[r] + 1 < StopItems
    THEN i' = [i EXCEPT ![r] = @ + 1]
         /\ Stay /\ UNCHANGED <<loop, node, start, done, late>>
  ELSE IF loop[r] + 1 < p.loops
    THEN i' = [i EXCEPT ![r] = 0] /\ loop' = [loop EXCEPT ![r] = @ + 1]
         /\ Stay /\ UNCHANGED <<node, start, done, late>>
  ELSE StepOn({r})

\* in order, or with -R in the order of a permutation
StatItem(r, op, kind) ==
  /\ Doing(r, op)
  /\ \E n \in IF p.arg.random THEN 0..p.items-1 ELSE {i[r]} :
       Attempt(Looked(r, 1, kind, n + p.leafOffset) \in items, items)
  /\ NextNumber(r)
  /\ PhaseFrame /\ UNCHANGED mismatch

\* with -X the data is compared; only this makes the run fail
ReadItem(r) ==
  LET x == Looked(r, 2, "file", i[r] + p.leafOffset) IN
  /\ Doing(r, "fileread")
  /\ \/ Attempt(x \in items, items) /\ UNCHANGED mismatch
     \/ /\ x \in items /\ p.arg.verify /\ faults > 0 /\ faults' = faults - 1
        /\ mismatch' = TRUE /\ UNCHANGED <<items, warned>>
  /\ NextNumber(r)
  /\ PhaseFrame

\* mutant: the last rename is left out
RenameChainOpen(r) ==
  LET Name(n) == Looked(r, 1, "dir", n + p.leafOffset)
      spare == [Name(0) EXCEPT !.renamed = TRUE]
      from == Name(i[r])
      to == IF i[r] = 0 THEN spare ELSE Name(i[r] - 1)
  IN
  /\ Doing(r, "rename")
  /\ IF i[r] = StopItems - 1
       THEN UNCHANGED <<items, faults, warned>>
       ELSE Attempt(from \in items /\ to.dir \in dirs, (items \ {from}) \cup {to})
  /\ NextNumber(r)
  /\ PhaseFrame /\ UNCHANGED mismatch

\* item 0 makes room, each item takes its predecessor's name, and the last step
\* moves item 0 to the name that is free
RenameItem(r) ==
  LET Name(n) == Looked(r, 1, "dir", n + p.leafOffset)
      spare == [Name(0) EXCEPT !.renamed = TRUE]
      from == IF i[r] > 0 /\ i[r] = StopItems - 1 THEN spare ELSE Name(i[r])
      to == IF i[r] = 0 THEN spare ELSE Name(i[r] - 1)
  IN
  /\ Doing(r, "rename")
  /\ IF StopItems = 1
       THEN UNCHANGED <<items, faults, warned>>
       ELSE Attempt(from \in items /\ to.dir \in dirs, (items \ {from}) \cup {to})
  /\ NextNumber(r)
  /\ PhaseFrame /\ UNCHANGED mismatch

\* the ranks are joined; only a verification error makes the run fail
Report ==
  /\ main = "join"
  /\ \A r \in Ranks : ~Alive(r)
  /\ main' = IF mismatch THEN "failed" ELSE "ok"
  /\ UNCHANGED <<p, iter, at, work, arrived, died, dirs, items, faults, warned, mismatch>>

-----------------------------------------------------------------------------
Rank(r) ==
  \/ BarrierWait(r)
  \/ MakeTestDirs(r) \/ MakeTree(r) \/ RemoveTree(r)
  \/ CreateItem(r, "dircreate", "dir") \/ CreateItem(r, "filecreate", "file")
  \/ StatItem(r, "dirstat", "dir") \/ StatItem(r, "filestat", "file")
  \/ ReadItem(r)
  \/ RenameItem(r)
  \/ RemoveItem(r, "dirremove", "dir") \/ RemoveItem(r, "fileremove", "file")

Over == main \in {"ok", "failed", "error"}
Finished == Over /\ UNCHANGED vars

Next == (\E r \in Ranks : Rank(r)) \/ Report \/ Finished

Spec == Init /\ [][Next]_vars

\* the operating system schedules every thread
FairSpec == Spec /\ WF_vars(Report) /\ \A r \in Ranks : WF_vars(Rank(r))

-----------------------------------------------------------------------------
(* Properties. *)

TypeOK ==
  /\ p.arg \in OptionType /\ p.ipd \in Nat \ {0} /\ p.loops \in Nat
  /\ iter \in [Ranks -> 0..p.arg.iterations]
  /\ at \in [Ranks -> 1..Len(Plan)]
  /\ \A r \in Ranks :
       /\ loop[r] = 0 \/ loop[r] \in Loops
       /\ node[r] \in DOMAIN p.nodes
       /\ i[r] < (IF p.items > p.ipd THEN p.items ELSE p.ipd)
  /\ start \in [Ranks -> 0..p.ipd-1] /\ done \in [Ranks -> 0..p.ipd]
  /\ late \in [Ranks -> BOOLEAN]
  /\ arrived \subseteq Ranks /\ died \subseteq Ranks
  /\ \A x \in dirs : x[1] \in 0..p.arg.iterations /\ x[2] \in Loops
  /\ \A x \in items : x.owner \in Ranks /\ x.num \in Nat
  /\ faults \in 0..p.arg.faults
  /\ warned \in BOOLEAN /\ mismatch \in BOOLEAN
  /\ main \in {"join", "ok", "failed", "error"}

\* an ordinary run: a shared tree, one test directory per iteration, no stonewall,
\* no fault, and the items there that it does not create itself
Regular ==
  /\ ~p.arg.unique /\ p.loops = 1 /\ ~p.arg.stonewall /\ p.arg.faults = 0
  /\ p.arg.create # p.arg.left
  /\ p.arg.left => p.arg.iterations = 1

\* In an ordinary run every rank finds every item it looks for, whatever the shape
\* of the tree, the stride and the pace of the others: the path that item_path
\* computes from a number is the one create_remove_items used, and no two ranks
\* work on the items of the same rank in one phase.  After the remove phases
\* nothing is left.
ItemsFound ==
  /\ Regular => ~warned
  /\ Regular /\ p.arg.remove /\ (p.arg.left => p.arg.dirs /\ p.arg.files) /\ Over /\ main # "error" =>
       items = {} /\ dirs = {}

\* what create_remove_items made for rank t and rank r, which removes it, has not
\* come to yet
StillToRemove(r, t) ==
  LET ahead == {c \in (DOMAIN p.nodes) \X (0..p.ipd-1) :
                  c[1] > node[r] \/ (c[1] = node[r] /\ c[2] >= i[r])}
  IN {Item(r, 0, TreeRoot(t) \o p.nodes[c[1]].path, "dir", t,
           p.nodes[c[1]].num * p.ipd + c[2], FALSE) : c \in ahead}

\* rename_phase: behind its barrier "every original name exists again" and no -XX
\* name is left.  The directories there are of a rank, until they are removed, are
\* those that were made for it: no link of the chain is missing and none has taken
\* a name that another one has.
NamesRestored ==
  Regular /\ p.arg.dirs /\ p.arg.barriers =>
    \A r \in Ranks :
      LET t == Shifted(r, 3) IN
      Doing(r, "dirremove") =>
        {x \in items : x.kind = "dir" /\ x.owner = t} = StillToRemove(r, t)

\* Items that cannot be processed do not stop the ranks: the run comes to its
\* report unless a rank has died in create_remove_tree.
RunEnds == <>(Over \/ died # {})

=============================================================================
