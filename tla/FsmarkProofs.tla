---------------------------- MODULE FsmarkProofs ----------------------------
(***************************************************************************)
(* Proofs about fsmark, for any number of threads, files and iterations,   *)
(* every sync method and every interleaving.  The invariant comes in       *)
(* layers, each of which uses those before it: the types and the control   *)
(* of the threads; which paths lead to which files; what is durable; what  *)
(* is left and counted; and what a failure is due to.                      *)
(***************************************************************************)
EXTENDS Fsmark, Sums

Path == Nat \X Nat \X Nat
Loops == {"inorder", "reverse", "unlink"}
Behind == {"sync", "inorder", "reverse", "first", "unlink", "return"}
Working == {"create", "write", "fsync"}

-----------------------------------------------------------------------------
(* The stages behind the loop over the files. *)

LEMMA StageAfterFacts ==
  ASSUME NEW k \in 0..5
  PROVE  \E j \in k+1..6 :
           /\ StageAfter(k) = Stages[j] /\ Applies(Stages[j])
           /\ \A i \in k+1..j-1 : ~Applies(Stages[i])
<1>1. Len(Stages) = 6 /\ Stages[6] = "return"
  BY DEF Stages
<1> DEFINE S == {j \in k + 1..Len(Stages) : Applies(Stages[j])}
<1>2. S \in SUBSET Nat /\ S # {}
  <2>1. Applies(Stages[6])
    BY <1>1 DEF Applies
  <2>2. 6 \in S
    BY <1>1, <2>1
  <2>3. S \in SUBSET Nat
    BY <1>1
  <2> QED
    BY <2>2, <2>3
<1>3. \E m \in S : \A i \in S : m <= i
  BY <1>2, LeastNumber
<1>4. Min(S) \in S /\ \A i \in S : Min(S) <= i
  <2> HIDE DEF S
  <2> QED
    BY <1>3 DEF Min
<1>5. StageAfter(k) = Stages[Min(S)]
  BY DEF StageAfter
<1>6. \A i \in k+1..Min(S)-1 : ~Applies(Stages[i])
  <2>1. Min(S) \in k + 1..6
    BY <1>1, <1>4
  <2> DEFINE m == Min(S)
  <2> HIDE DEF m
  <2>2. ASSUME NEW i \in k+1..m-1, Applies(Stages[i]) PROVE FALSE
    <3>1. i \in S
      BY <1>1, <2>1, <2>2 DEF m
    <3>2. m <= i
      BY <1>4, <3>1 DEF m
    <3> QED
      BY <2>1, <2>2, <3>2 DEF m
  <2> QED
    BY <2>2 DEF m
<1> QED
  BY <1>1, <1>4, <1>5, <1>6

LEMMA StageIndex ==
  /\ Stages[1] = "sync" /\ Stages[2] = "inorder" /\ Stages[3] = "reverse"
  /\ Stages[4] = "first" /\ Stages[5] = "unlink" /\ Stages[6] = "return"
  /\ DOMAIN Stages = 1..6
BY DEF Stages

LEMMA AfterFacts ==
  ASSUME NEW i \in 1..5
  PROVE  After(Stages[i]) = StageAfter(i)
<1> DEFINE c == CHOOSE k \in DOMAIN Stages : Stages[k] = Stages[i]
<1>1. c \in 1..6 /\ Stages[c] = Stages[i]
  BY StageIndex
<1>2. \A k \in 1..6 : Stages[k] = Stages[i] => k = i
  BY StageIndex
<1>3. c = i
  BY <1>1, <1>2
<1> QED
  BY <1>3 DEF After

\* the next stage is one that the method and -k ask for, and none is left out
LEMMA NextStage ==
  ASSUME NEW k \in 0..5
  PROVE  /\ StageAfter(k) \in Behind /\ Applies(StageAfter(k))
         /\ ~par.keep /\ k # 5 => StageAfter(k) # "return"
         /\ k = 0 /\ "sync" \in SyncBits(par.sync) => StageAfter(k) = "sync"
         /\ k = 0 /\ "inorder" \in SyncBits(par.sync) =>
              StageAfter(k) \in {"sync", "inorder"}
         /\ k = 0 /\ "reverse" \in SyncBits(par.sync) =>
              StageAfter(k) \in {"sync", "inorder", "reverse"}
<1>1. PICK j \in k+1..6 :
        /\ StageAfter(k) = Stages[j] /\ Applies(Stages[j])
        /\ \A i \in k+1..j-1 : ~Applies(Stages[i])
  BY StageAfterFacts
<1>2. j \in {1, 2, 3, 4, 5, 6}
  OBVIOUS
<1>3. StageAfter(k) \in Behind
  BY <1>1, <1>2, StageIndex DEF Behind
<1>4. ASSUME ~par.keep, k # 5, StageAfter(k) = "return" PROVE FALSE
  <2>1. j = 6
    BY <1>1, <1>2, <1>4, StageIndex
  <2>2. 5 \in k+1..j-1
    BY <1>4, <2>1
  <2>3. Applies(Stages[5])
    BY <1>4, StageIndex DEF Applies
  <2> QED
    BY <1>1, <2>2, <2>3
<1>5. ASSUME k = 0, NEW i \in {1, 2, 3}, Stages[i] \in SyncBits(par.sync)
      PROVE  j <= i
  <2>1. Applies(Stages[i])
    BY <1>5 DEF Applies
  <2>2. ~(j <= i) => i \in k+1..j-1
    BY <1>5
  <2> QED
    BY <1>1, <2>1, <2>2
<1>6. k = 0 /\ "sync" \in SyncBits(par.sync) => StageAfter(k) = "sync"
  <2>1. k = 0 /\ "sync" \in SyncBits(par.sync) => j = 1
    BY <1>2, <1>5, StageIndex
  <2> QED
    BY <1>1, <2>1, StageIndex
<1>7. k = 0 /\ "inorder" \in SyncBits(par.sync) => StageAfter(k) \in {"sync", "inorder"}
  <2>1. k = 0 /\ "inorder" \in SyncBits(par.sync) => j \in {1, 2}
    BY <1>2, <1>5, StageIndex
  <2> QED
    BY <1>1, <2>1, StageIndex
<1>8. k = 0 /\ "reverse" \in SyncBits(par.sync) =>
        StageAfter(k) \in {"sync", "inorder", "reverse"}
  <2>1. k = 0 /\ "reverse" \in SyncBits(par.sync) => j \in {1, 2, 3}
    BY <1>2, <1>5, StageIndex
  <2> QED
    BY <1>1, <2>1, StageIndex
<1> QED
  BY <1>1, <1>3, <1>4, <1>6, <1>7, <1>8

\* the same for the stage after a stage
LEMMA NextStageAfter ==
  ASSUME NEW stage \in {"sync", "inorder", "reverse", "first", "unlink"}
  PROVE  /\ After(stage) \in Behind /\ Applies(After(stage))
         /\ ~par.keep /\ stage # "unlink" => After(stage) # "return"
<1>1. PICK i \in 1..5 : stage = Stages[i]
  <2>1. 1 \in 1..5 /\ 2 \in 1..5 /\ 3 \in 1..5 /\ 4 \in 1..5 /\ 5 \in 1..5
    OBVIOUS
  <2> QED
    BY <2>1, StageIndex
<1>2. i \in 0..5 /\ (stage # "unlink" => i # 5)
  BY <1>1, StageIndex
<1> QED
  BY <1>1, <1>2, AfterFacts, NextStage

-----------------------------------------------------------------------------
(* Types and control. *)

Types ==
  /\ par \in CommandLineType
  /\ ~par.keep => par.loops = 0 /\ ~par.fill
  /\ main \in {"iterate", "done", "rejected"}
  /\ main # "rejected" => par.files > 0 /\ (par.subdirs = None \/ par.subdirs >= 2)
  /\ pc \in [Threads -> {"check", "ended"} \cup Working \cup Behind]
  /\ names \in [Threads -> Seq(Path)]
  /\ pos \in [Threads -> Nat \ {0}]
  /\ subdir \in [Threads -> [current : Nat, files : Nat]]
  /\ fd \in [Threads -> Inodes \cup {NoFile}]
  /\ result \in [Threads -> {"none", "ok", "io", "full"}]
  /\ tree \in [DOMAIN tree -> Inodes] /\ IsFiniteSet(DOMAIN tree)
  /\ data \in SUBSET Inodes /\ dirty \in SUBSET Inodes
  /\ loops \in Nat /\ written \in Nat
  /\ status \in {"ok", "failed"} /\ full \in BOOLEAN
  /\ cause \in SUBSET {"names", "space", "fault"}

\* where a thread is, and what it has made by then
Control(t) ==
  /\ pc[t] = "check" => names[t] = <<>>
  /\ pc[t] = "create" => Len(names[t]) < par.files
  /\ pc[t] \in {"write", "fsync"} =>
       names[t] # <<>> /\ Len(names[t]) <= par.files /\ fd[t] # NoFile
  /\ pc[t] = "fsync" => "close" \in SyncBits(par.sync)
  /\ pc[t] \notin {"write", "fsync"} => fd[t] = NoFile
  /\ pc[t] \in Behind => Len(names[t]) = par.files /\ Applies(pc[t])
  /\ pc[t] \in Loops => pos[t] <= Len(names[t])
  /\ pc[t] \notin Loops \cup {"ended"} => pos[t] = 1
  /\ pc[t] # "ended" => result[t] = "none"
  /\ pc[t] = "ended" => result[t] # "none"
  /\ result[t] = "ok" => Len(names[t]) = par.files
  /\ result[t] = "full" => names[t] = <<>>

\* before a thread has ended its iteration, nothing is reported
Reporting ==
  /\ main = "iterate" => status = "ok"
  /\ main = "done" => \A t \in Threads : pc[t] = "ended"
  /\ main = "done" /\ status = "ok" => \A t \in Threads : result[t] # "io"

Inv1 == Types /\ (main # "rejected" => \A t \in Threads : Control(t)) /\ Reporting

LEMMA ThreadsFinite ==
  ASSUME par \in CommandLineType
  PROVE  IsFiniteSet(Threads) /\ Threads \subseteq Nat
<1>1. par.threads \in Nat
  BY DEF CommandLineType
<1> QED
  BY <1>1, FS_Interval DEF Threads

LEMMA BehindFacts ==
  /\ {"sync", "inorder", "reverse", "first", "unlink", "return"} = Behind
  /\ "check" \notin Behind /\ "create" \notin Behind /\ "write" \notin Behind
  /\ "fsync" \notin Behind /\ "ended" \notin Behind
BY DEF Behind

LEMMA ResolveType ==
  ASSUME NEW c \in CommandLineType
  PROVE  /\ Resolve(c) \in CommandLineType
         /\ ~Resolve(c).keep => Resolve(c).loops = 0 /\ ~Resolve(c).fill
         /\ Resolve(c).files = c.files /\ Resolve(c).subdirs = c.subdirs
<1> DEFINE n == IF c.dirs > c.threads THEN c.dirs ELSE c.threads
           k == c.keep \/ c.loops > 0 \/ c.fill
           d == [c EXCEPT !.threads = n]
<1>1. n \in Nat /\ c.loops \in Nat
  BY DEF CommandLineType
<1>2. k \in BOOLEAN /\ (~k => c.loops = 0 /\ ~c.fill)
  BY <1>1 DEF CommandLineType
<1>3. Resolve(c) = [d EXCEPT !.keep = k]
  BY DEF Resolve
<1> HIDE DEF n, k
<1>4. d \in CommandLineType /\ d.files = c.files /\ d.subdirs = c.subdirs
      /\ d.loops = c.loops /\ d.fill = c.fill
  BY <1>1 DEF CommandLineType
<1> HIDE DEF d
<1> DEFINE e == [d EXCEPT !.keep = k]
<1>5. e \in CommandLineType /\ e.files = d.files /\ e.subdirs = d.subdirs
      /\ e.loops = d.loops /\ e.fill = d.fill /\ e.keep = k
  BY <1>2, <1>4 DEF CommandLineType
<1> HIDE DEF e
<1> QED
  BY <1>2, <1>3, <1>4, <1>5 DEF e

LEMMA InitInv1 == Init => Inv1
<1> SUFFICES ASSUME Init PROVE Inv1
  OBVIOUS
<1>1. PICK c \in CommandLines :
        /\ par = Resolve(c)
        /\ main = IF Valid(c) THEN "iterate" ELSE "rejected"
  BY DEF Init
<1>2. c \in CommandLineType
  BY FsmarkAssumption
<1>3. /\ par \in CommandLineType
      /\ ~par.keep => par.loops = 0 /\ ~par.fill
      /\ par.files = c.files /\ par.subdirs = c.subdirs
  BY <1>1, <1>2, ResolveType
<1>4. main # "rejected" => par.files > 0 /\ (par.subdirs = None \/ par.subdirs >= 2)
  BY <1>1, <1>3 DEF Valid
<1>5. main \in {"iterate", "done", "rejected"} /\ main # "done"
  BY <1>1
<1>6. /\ pc = [t \in Threads |-> "check"] /\ names = [t \in Threads |-> <<>>]
      /\ pos = [t \in Threads |-> 1] /\ fd = [t \in Threads |-> NoFile]
      /\ result = [t \in Threads |-> "none"]
  BY DEF Init, Started
<1>7. tree \in [DOMAIN tree -> Inodes] /\ IsFiniteSet(DOMAIN tree)
  <2>1. tree = <<>> /\ DOMAIN tree = {}
    BY DEF Init
  <2> QED
    BY <2>1, FS_EmptySet
<1>8. subdir \in [Threads -> [current : Nat, files : Nat]]
  BY DEF Init
<1>9. /\ names \in [Threads -> Seq(Path)] /\ pos \in [Threads -> Nat \ {0}]
      /\ fd \in [Threads -> Inodes \cup {NoFile}]
      /\ pc \in [Threads -> {"check", "ended"} \cup Working \cup Behind]
      /\ result \in [Threads -> {"none", "ok", "io", "full"}]
  BY <1>6
<1>10. /\ data \in SUBSET Inodes /\ dirty \in SUBSET Inodes
       /\ loops \in Nat /\ written \in Nat
       /\ status = "ok" /\ full \in BOOLEAN
       /\ cause \in SUBSET {"names", "space", "fault"}
  BY DEF Init
<1>11. Types
  BY <1>3, <1>4, <1>5, <1>7, <1>8, <1>9, <1>10 DEF Types
<1>12. \A t \in Threads : Control(t)
  BY <1>6, BehindFacts DEF Control, Loops
<1> QED
  BY <1>5, <1>10, <1>11, <1>12 DEF Inv1, Reporting

\* a step of thread t leaves the state of the others alone
Local(t) ==
  /\ par' = par /\ main' = main /\ report' = report
  /\ \A u \in Threads \ {t} :
       /\ pc'[u] = pc[u] /\ names'[u] = names[u] /\ pos'[u] = pos[u]
       /\ fd'[u] = fd[u] /\ result'[u] = result[u]

LEMMA LocalInv1 ==
  ASSUME Inv1, main = "iterate", NEW t \in Threads, Local(t), Types', Control(t)'
  PROVE  Inv1'
<1>1. Threads' = Threads /\ par' = par /\ main' = "iterate" /\ status' = status
  BY DEF Local, Threads, report
<1>2. \A u \in Threads \ {t} : Control(u)'
  BY <1>1 DEF Inv1, Local, Control, Applies
<1>3. Reporting'
  BY <1>1 DEF Inv1, Reporting
<1> QED
  BY <1>1, <1>2, <1>3 DEF Inv1

\* every action of a thread is local to it
LEMMA ThreadLocal ==
  ASSUME Types, NEW t \in Threads, RunThread(t) \/ Fault(t)
  PROVE  Local(t) /\ main = "iterate" /\ main' = main /\ par' = par
<1>1. /\ pc \in [Threads -> {"check", "ended"} \cup Working \cup Behind]
      /\ names \in [Threads -> Seq(Path)] /\ pos \in [Threads -> Nat \ {0}]
      /\ fd \in [Threads -> Inodes \cup {NoFile}]
      /\ result \in [Threads -> {"none", "ok", "io", "full"}]
  BY DEF Types
<1>2. CASE Check(t)
  BY <1>1, <1>2 DEF Check, Local, Return, Goto, Runs
<1>3. CASE Create(t)
  BY <1>1, <1>3 DEF Create, Local, Goto, Runs
<1>4. CASE Write(t)
  BY <1>1, <1>4 DEF Write, NextFile, Local, Return, Goto, Runs
<1>5. CASE Fsync(t)
  BY <1>1, <1>5 DEF Fsync, NextFile, Local, Goto, Runs
<1>6. CASE Sync(t)
  BY <1>1, <1>6 DEF Sync, Local, Goto, Runs
<1>7. ASSUME NEW stage, PostFsync(t, stage) PROVE Local(t) /\ main = "iterate"
  BY <1>1, <1>7 DEF PostFsync, Advance, Local, Return, Goto, Runs
<1>8. CASE FirstFile(t)
  BY <1>1, <1>8 DEF FirstFile, Local, Return, Goto, Runs
<1>9. CASE Unlink(t)
  BY <1>1, <1>9 DEF Unlink, Advance, Local, Return, Goto, Runs
<1>10. CASE Row(t)
  BY <1>1, <1>10 DEF Row, Local, Return, Goto, Runs
<1>11. CASE Fault(t)
  BY <1>1, <1>11 DEF Fault, Local, Return, Goto
<1> QED
  BY <1>2, <1>3, <1>4, <1>5, <1>6, <1>7, <1>8, <1>9, <1>10, <1>11 DEF RunThread, Local

\* a thread that returns
LEMMA ReturnFacts ==
  ASSUME Types, NEW t \in Threads, NEW r \in {"ok", "io", "full"}, Return(t, r)
  PROVE  /\ pc' \in [Threads -> {"check", "ended"} \cup Working \cup Behind]
         /\ fd' \in [Threads -> Inodes \cup {NoFile}]
         /\ result' \in [Threads -> {"none", "ok", "io", "full"}]
         /\ pc'[t] = "ended" /\ result'[t] = r /\ fd'[t] = NoFile
BY DEF Types, Return, Goto

LEMMA GotoFacts ==
  ASSUME Types, NEW t \in Threads, NEW s \in Working \cup Behind, Goto(t, s)
  PROVE  /\ pc' \in [Threads -> {"check", "ended"} \cup Working \cup Behind]
         /\ pc'[t] = s
BY DEF Types, Goto

LEMMA NextFileFacts ==
  ASSUME Types, NEW t \in Threads, NextFile(t)
  PROVE  /\ pc' \in [Threads -> {"check", "ended"} \cup Working \cup Behind]
         /\ fd' \in [Threads -> Inodes \cup {NoFile}]
         /\ fd'[t] = NoFile /\ result' = result
         /\ pc'[t] = IF Len(names[t]) < par.files THEN "create" ELSE StageAfter(0)
<1>1. StageAfter(0) \in Behind
  BY NextStage
<1>2. (IF Len(names[t]) < par.files THEN "create" ELSE StageAfter(0)) \in Working \cup Behind
  BY <1>1 DEF Working
<1> QED
  BY <1>2, GotoFacts DEF NextFile, Types

LEMMA AdvanceFacts ==
  ASSUME Types, NEW t \in Threads, NEW stage \in Loops, Advance(t, stage), pc[t] = stage,
         pos[t] <= Len(names[t])
  PROVE  /\ pc' \in [Threads -> {"check", "ended"} \cup Working \cup Behind]
         /\ pos' \in [Threads -> Nat \ {0}]
         /\ fd' = fd /\ result' = result
         /\ \/ pos[t] < Len(names[t]) /\ pos'[t] = pos[t] + 1 /\ pc'[t] = stage
            \/ pos[t] = Len(names[t]) /\ pos'[t] = 1 /\ pc'[t] = After(stage)
<1>1. /\ pos \in [Threads -> Nat \ {0}] /\ names[t] \in Seq(Path)
      /\ pc \in [Threads -> {"check", "ended"} \cup Working \cup Behind]
  BY DEF Types
<1>2. pos[t] \in Nat \ {0} /\ Len(names[t]) \in Nat
  BY <1>1
<1>3. After(stage) \in Behind
  BY NextStageAfter DEF Loops
<1>4. fd' = fd /\ result' = result
  BY DEF Advance
<1>5. CASE pos[t] < Len(names[t])
  <2>1. pos' = [pos EXCEPT ![t] = pos[t] + 1] /\ pc' = pc
    BY <1>5 DEF Advance
  <2>2. pos[t] + 1 \in Nat \ {0}
    BY <1>2
  <2> QED
    BY <1>1, <1>4, <1>5, <2>1, <2>2
<1>6. CASE ~(pos[t] < Len(names[t]))
  <2>1. pos' = [pos EXCEPT ![t] = 1] /\ Goto(t, After(stage))
    BY <1>6 DEF Advance
  <2>2. pos' \in [Threads -> Nat \ {0}] /\ pos'[t] = 1
    BY <1>1, <2>1
  <2>3. pos[t] = Len(names[t])
    BY <1>2, <1>6
  <2> QED
    BY <1>3, <1>4, <2>1, <2>2, <2>3, GotoFacts
<1> QED
  BY <1>5, <1>6

\* thread t opens path p, which is then file i
Created(t, p, i) ==
  /\ p \in Path /\ i \in Inodes
  /\ IF p \in DOMAIN tree THEN i = tree[p] ELSE i \in Unused
  /\ names' = [names EXCEPT ![t] = Append(@, p)]
  /\ tree' = [q \in DOMAIN tree \cup {p} |-> IF q = p THEN i ELSE tree[q]]
  /\ fd' = [fd EXCEPT ![t] = i]
  /\ data' = data \ {i}
  /\ dirty' = dirty \cup {i}
  /\ cause' = IF p \in DOMAIN tree THEN cause \cup {"names"} ELSE cause

LEMMA FreshFacts ==
  ASSUME Unused # {}
  PROVE  Fresh \in Unused
<1>1. Unused \in SUBSET Nat
  BY FsmarkAssumption DEF Unused, Inodes
<1>2. \E m \in Unused : \A k \in Unused : m <= k
  BY <1>1, LeastNumber
<1> QED
  BY <1>2 DEF Fresh, Min

LEMMA CreateFacts ==
  ASSUME Types, NEW t \in Threads, Create(t)
  PROVE  /\ subdir' \in [Threads -> [current : Nat, files : Nat]]
         /\ \E p, i : Created(t, p, i)
<1>0. PICK s \in NextSubdirs(t) : \E k \in StampsFor(t, s) :
        LET p == <<t % par.dirs, s.current, k>>
            i == IF Exists(p) THEN tree[p] ELSE Fresh
        IN /\ Exists(p) \/ Unused # {}
           /\ subdir' = [subdir EXCEPT ![t] = s]
           /\ names' = [names EXCEPT ![t] = Append(@, p)]
           /\ tree' = [q \in DOMAIN tree \cup {p} |-> IF q = p THEN i ELSE tree[q]]
           /\ fd' = [fd EXCEPT ![t] = i]
           /\ data' = data \ {i}
           /\ dirty' = dirty \cup {i}
           /\ cause' = IF Exists(p) THEN cause \cup {"names"} ELSE cause
  BY DEF Create
<1>1. PICK k \in StampsFor(t, s) :
        LET p == <<t % par.dirs, s.current, k>>
            i == IF Exists(p) THEN tree[p] ELSE Fresh
        IN /\ Exists(p) \/ Unused # {}
           /\ subdir' = [subdir EXCEPT ![t] = s]
           /\ names' = [names EXCEPT ![t] = Append(@, p)]
           /\ tree' = [q \in DOMAIN tree \cup {p} |-> IF q = p THEN i ELSE tree[q]]
           /\ fd' = [fd EXCEPT ![t] = i]
           /\ data' = data \ {i}
           /\ dirty' = dirty \cup {i}
           /\ cause' = IF Exists(p) THEN cause \cup {"names"} ELSE cause
  BY <1>0
<1> DEFINE p == <<t % par.dirs, s.current, k>>
           i == IF Exists(p) THEN tree[p] ELSE Fresh
<1>2. /\ par.dirs \in Nat \ {0} /\ t \in Nat
      /\ main = "iterate" => par.subdirs = None \/ par.subdirs >= 2
      /\ par.subdirs \in Nat \cup {None}
      /\ subdir \in [Threads -> [current : Nat, files : Nat]]
  BY ThreadsFinite DEF Types, CommandLineType
<1>3. main = "iterate"
  BY DEF Create, Runs
<1>4. s \in [current : Nat, files : Nat]
  <2>1. subdir[t] \in [current : Nat, files : Nat]
    BY <1>2
  <2>2. subdir[t].current \in Nat /\ subdir[t].files \in Nat
    BY <2>1
  <2> DEFINE next == (subdir[t].current + 1) % par.subdirs
  <2>3. CASE DirPolicy(par) = "NoSubdirs"
    BY <2>1, <2>3 DEF NextSubdirs
  <2>4. CASE DirPolicy(par) # "NoSubdirs"
    <3>1. par.subdirs \in Nat /\ par.subdirs > 0
      BY <1>2, <1>3, <2>4 DEF DirPolicy, None
    <3>2. next \in Nat
      BY <2>2, <3>1
    <3> HIDE DEF next
    <3>3. CASE DirPolicy(par) = "RoundRobin"
      <4>1. s = [current |-> IF subdir[t].files >= par.per THEN next ELSE subdir[t].current,
                 files |-> IF subdir[t].files >= par.per THEN 1 ELSE subdir[t].files + 1]
        BY <3>3 DEF NextSubdirs, next
      <4>2. subdir[t].files + 1 \in Nat
        BY <2>2
      <4> QED
        BY <2>2, <3>2, <4>1, <4>2
    <3>4. CASE DirPolicy(par) = "TimeHash"
      <4>1. s \in {subdir[t], [subdir[t] EXCEPT !.current = next]}
        BY <3>4 DEF NextSubdirs, next
      <4> QED
        BY <2>1, <3>2, <4>1
    <3> QED
      BY <2>4, <3>3, <3>4 DEF DirPolicy
  <2> QED
    BY <2>3, <2>4
<1>5. k \in Nat
  BY FsmarkAssumption DEF StampsFor, Inodes
<1>6. p \in Path
  <2>1. t % par.dirs \in Nat
    BY <1>2
  <2>2. s.current \in Nat
    BY <1>4
  <2> QED
    BY <1>5, <2>1, <2>2 DEF Path
<1>7. subdir' \in [Threads -> [current : Nat, files : Nat]]
  BY <1>1, <1>2, <1>4
<1> HIDE DEF p
<1>8. i \in Inodes /\ IF p \in DOMAIN tree THEN i = tree[p] ELSE i \in Unused
  <2>1. CASE p \in DOMAIN tree
    BY <2>1 DEF Types, Exists
  <2>2. CASE p \notin DOMAIN tree
    <3>1. Unused # {}
      BY <1>1, <2>2 DEF Exists, p
    <3>2. Fresh \in Unused
      BY <3>1, FreshFacts
    <3> QED
      BY <2>2, <3>2 DEF Exists, Unused
  <2> QED
    BY <2>1, <2>2
<1>9. /\ names' = [names EXCEPT ![t] = Append(@, p)]
      /\ tree' = [q \in DOMAIN tree \cup {p} |-> IF q = p THEN i ELSE tree[q]]
      /\ fd' = [fd EXCEPT ![t] = i]
      /\ data' = data \ {i}
      /\ dirty' = dirty \cup {i}
      /\ cause' = IF p \in DOMAIN tree THEN cause \cup {"names"} ELSE cause
  BY <1>1 DEF p, Exists
<1> HIDE DEF i
<1>10. Created(t, p, i)
  BY <1>6, <1>8, <1>9 DEF Created
<1> QED
  BY <1>7, <1>10

\* what the proofs need to know of it
Creation(t, p, i) ==
  /\ names' \in [Threads -> Seq(Path)]
  /\ names'[t] = Append(names[t], p)
  /\ Len(names'[t]) = Len(names[t]) + 1 /\ names'[t][Len(names'[t])] = p
  /\ \A j \in 1..Len(names[t]) : names'[t][j] = names[t][j]
  /\ fd' \in [Threads -> Inodes \cup {NoFile}] /\ fd'[t] = i
  /\ DOMAIN tree' = DOMAIN tree \cup {p} /\ tree'[p] = i
  /\ \A q \in DOMAIN tree : q # p => tree'[q] = tree[q]
  /\ tree' \in [DOMAIN tree' -> Inodes] /\ IsFiniteSet(DOMAIN tree')

LEMMA CreatedFacts ==
  ASSUME Types, NEW t \in Threads, NEW p, NEW i, Created(t, p, i)
  PROVE  Creation(t, p, i)
<1>1. /\ p \in Path /\ i \in Inodes
      /\ names' = [names EXCEPT ![t] = Append(names[t], p)]
      /\ tree' = [q \in DOMAIN tree \cup {p} |-> IF q = p THEN i ELSE tree[q]]
      /\ fd' = [fd EXCEPT ![t] = i]
  BY DEF Created
<1>2. /\ names \in [Threads -> Seq(Path)] /\ names[t] \in Seq(Path)
      /\ fd \in [Threads -> Inodes \cup {NoFile}]
      /\ tree \in [DOMAIN tree -> Inodes] /\ IsFiniteSet(DOMAIN tree)
  BY DEF Types
<1>3. /\ Append(names[t], p) \in Seq(Path)
      /\ Len(Append(names[t], p)) = Len(names[t]) + 1
      /\ Append(names[t], p)[Len(names[t]) + 1] = p
      /\ \A j \in 1..Len(names[t]) : Append(names[t], p)[j] = names[t][j]
  BY <1>1, <1>2
<1>4. names' \in [Threads -> Seq(Path)] /\ names'[t] = Append(names[t], p)
  BY <1>1, <1>2, <1>3
<1>5. fd' \in [Threads -> Inodes \cup {NoFile}] /\ fd'[t] = i
  BY <1>1, <1>2
<1>6. /\ DOMAIN tree' = DOMAIN tree \cup {p} /\ tree'[p] = i
      /\ \A q \in DOMAIN tree : q # p => tree'[q] = tree[q]
      /\ tree' \in [DOMAIN tree' -> Inodes]
  BY <1>1, <1>2
<1>7. IsFiniteSet(DOMAIN tree')
  BY <1>2, <1>6, FS_AddElement, SMTT(40)
<1> QED
  BY <1>3, <1>4, <1>5, <1>6, <1>7 DEF Creation

LEMMA TypeFacts ==
  ASSUME Inv1, NEW t \in Threads, main = "iterate"
  PROVE  /\ Types /\ Control(t)
         /\ names[t] \in Seq(Path) /\ Len(names[t]) \in Nat /\ pos[t] \in Nat \ {0}
         /\ par.files \in Nat \ {0}
<1>1. Types /\ Control(t)
  BY DEF Inv1
<1>2. par.files \in Nat /\ par.files > 0
  BY <1>1 DEF Types, CommandLineType
<1>3. names[t] \in Seq(Path) /\ pos[t] \in Nat \ {0}
  BY <1>1 DEF Types
<1> QED
  BY <1>1, <1>2, <1>3

LEMMA ThreadInv1 ==
  ASSUME Inv1, NEW t \in Threads, RunThread(t) \/ Fault(t)
  PROVE  Inv1'
<1>0. Types
  BY DEF Inv1
<1>1. Local(t) /\ main = "iterate" /\ main' = main /\ par' = par /\ Threads' = Threads
      /\ report' = report
  BY <1>0, ThreadLocal DEF Threads, Local
<1>2. /\ Control(t)
      /\ names[t] \in Seq(Path) /\ Len(names[t]) \in Nat /\ pos[t] \in Nat \ {0}
      /\ par.files \in Nat \ {0}
  BY <1>1, TypeFacts
<1>3. SUFFICES Types' /\ Control(t)'
  BY <1>1, LocalInv1
<1>4. \A s : Applies(s)' = Applies(s)
  BY <1>1 DEF Applies
<1>a. ASSUME Return(t, "io"), UNCHANGED <<names, pos, subdir, tree, data, dirty>>,
             cause' \in {cause, cause \cup {"fault"}}
      PROVE  Types' /\ Control(t)'
  <2>1. /\ pc' \in [Threads -> {"check", "ended"} \cup Working \cup Behind]
        /\ fd' \in [Threads -> Inodes \cup {NoFile}]
        /\ result' \in [Threads -> {"none", "ok", "io", "full"}]
        /\ pc'[t] = "ended" /\ result'[t] = "io" /\ fd'[t] = NoFile
    BY <1>0, <1>a, ReturnFacts
  <2>2. Types'
    BY <1>0, <1>1, <1>a, <2>1 DEF Types, report
  <2>3. Control(t)'
    BY <2>1, BehindFacts DEF Control, Loops
  <2> QED
    BY <2>2, <2>3
<1>5. CASE Check(t)
  <2>1. UNCHANGED <<names, pos, tree, data, dirty>> /\ pc[t] = "check"
    BY <1>5 DEF Check, Runs, disk
  <2>2. CASE Return(t, "full") /\ UNCHANGED <<subdir, cause>>
    <3>1. /\ pc' \in [Threads -> {"check", "ended"} \cup Working \cup Behind]
          /\ fd' \in [Threads -> Inodes \cup {NoFile}]
          /\ result' \in [Threads -> {"none", "ok", "io", "full"}]
          /\ pc'[t] = "ended" /\ result'[t] = "full" /\ fd'[t] = NoFile
      BY <1>0, <2>2, ReturnFacts
    <3>2. Types'
      BY <1>0, <1>1, <2>1, <2>2, <3>1 DEF Types, report
    <3>3. Control(t)'
      BY <1>2, <2>1, <3>1, BehindFacts DEF Control, Loops
    <3> QED
      BY <3>2, <3>3
  <2>3. CASE ~(Return(t, "full") /\ UNCHANGED <<subdir, cause>>)
    <3>1. /\ Goto(t, "create") /\ result' = result /\ fd' = fd
          /\ cause' \in {cause, cause \cup {"space"}}
          /\ \E s \in 0..(IF par.subdirs = None THEN 0 ELSE par.subdirs - 1) :
               subdir' = [subdir EXCEPT ![t] = [current |-> s, files |-> 0]]
      BY <1>5, <2>3 DEF Check
    <3>2. PICK s \in 0..(IF par.subdirs = None THEN 0 ELSE par.subdirs - 1) :
               subdir' = [subdir EXCEPT ![t] = [current |-> s, files |-> 0]]
      BY <3>1
    <3>3. s \in Nat
      BY <1>0 DEF Types, CommandLineType
    <3>4. subdir' \in [Threads -> [current : Nat, files : Nat]]
      BY <1>0, <3>2, <3>3 DEF Types
    <3>5. /\ pc' \in [Threads -> {"check", "ended"} \cup Working \cup Behind]
          /\ pc'[t] = "create"
      BY <1>0, <3>1, GotoFacts DEF Working
    <3>6. Types'
      BY <1>0, <1>1, <2>1, <3>1, <3>4, <3>5 DEF Types, report
    <3>7. Len(names[t]) < par.files
      BY <1>2, <2>1 DEF Control
    <3>8. Control(t)'
      BY <1>1, <1>2, <2>1, <3>1, <3>5, <3>7, BehindFacts DEF Control, Loops
    <3> QED
      BY <3>6, <3>8
  <2> QED
    BY <1>5, <2>2, <2>3 DEF Check
<1>6. CASE Create(t)
  <2>1. PICK p, i : Created(t, p, i)
    BY <1>0, <1>6, CreateFacts
  <2>2. subdir' \in [Threads -> [current : Nat, files : Nat]]
    BY <1>0, <1>6, CreateFacts
  <2>a. Creation(t, p, i)
    BY <1>0, <2>1, CreatedFacts
  <2>3. /\ names' \in [Threads -> Seq(Path)]
        /\ Len(names'[t]) = Len(names[t]) + 1
        /\ fd' \in [Threads -> Inodes \cup {NoFile}] /\ fd'[t] = i
        /\ tree' \in [DOMAIN tree' -> Inodes] /\ IsFiniteSet(DOMAIN tree')
    BY <2>a DEF Creation
  <2>4. /\ pc[t] = "create" /\ pos' = pos /\ result' = result
        /\ pc' \in [Threads -> {"check", "ended"} \cup Working \cup Behind]
        /\ pc'[t] = "write"
    BY <1>0, <1>6, GotoFacts DEF Create, Runs, Working
  <2>5. /\ data' \in SUBSET Inodes /\ dirty' \in SUBSET Inodes
        /\ cause' \in SUBSET {"names", "space", "fault"} /\ i \in Inodes
    BY <1>0, <2>1 DEF Created, Types
  <2>6. Types'
    BY <1>0, <1>1, <2>2, <2>3, <2>4, <2>5 DEF Types, report
  <2>7. Len(names'[t]) <= par.files /\ names'[t] # <<>>
    BY <1>2, <2>3, <2>4 DEF Control
  <2>8. i # NoFile
    BY <2>5, FsmarkAssumption DEF Inodes, NoFile
  <2>9. Control(t)'
    BY <1>1, <1>2, <2>3, <2>4, <2>7, <2>8, BehindFacts DEF Control, Loops
  <2> QED
    BY <2>6, <2>9
<1>b. ASSUME NextFile(t), pc[t] \in {"write", "fsync"},
             UNCHANGED <<names, pos, subdir, tree, cause>>,
             data' \in SUBSET Inodes, dirty' \in SUBSET Inodes
      PROVE  Types' /\ Control(t)'
  <2>1. /\ pc' \in [Threads -> {"check", "ended"} \cup Working \cup Behind]
        /\ fd' \in [Threads -> Inodes \cup {NoFile}]
        /\ fd'[t] = NoFile /\ result' = result
        /\ pc'[t] = IF Len(names[t]) < par.files THEN "create" ELSE StageAfter(0)
    BY <1>0, <1>b, NextFileFacts
  <2>2. StageAfter(0) \in Behind /\ Applies(StageAfter(0))
    BY NextStage
  <2>3. Types'
    BY <1>0, <1>1, <1>b, <2>1 DEF Types, report
  <2>4. Len(names[t]) <= par.files /\ pos[t] = 1 /\ result[t] = "none" /\ names[t] # <<>>
    BY <1>2, <1>b, BehindFacts DEF Control, Loops
  <2>5. 1 <= Len(names[t])
    BY <1>2, <2>4
  <2>6. CASE Len(names[t]) < par.files
    BY <1>1, <1>2, <1>b, <2>1, <2>3, <2>4, <2>6, BehindFacts DEF Control, Loops
  <2>7. CASE ~(Len(names[t]) < par.files)
    <3>1. Len(names[t]) = par.files /\ pc'[t] = StageAfter(0)
      BY <1>2, <2>1, <2>4, <2>7
    <3> QED
      BY <1>1, <1>2, <1>4, <1>b, <2>1, <2>2, <2>3, <2>4, <2>5, <3>1, BehindFacts
         DEF Control, Loops
  <2> QED
    BY <2>6, <2>7
<1>7. CASE Write(t)
  <2>1. pc[t] = "write" /\ UNCHANGED <<names, pos, subdir, tree, cause>>
    BY <1>7 DEF Write, Runs
  <2>2. fd[t] \in Inodes
    BY <1>0, <1>2, <2>1 DEF Control, Types
  <2>3. CASE Return(t, "io") /\ UNCHANGED <<data, dirty>>
    BY <1>a, <2>1, <2>3
  <2>4. CASE Goto(t, "fsync") /\ UNCHANGED <<fd, result>>
             /\ data' = data \cup {fd[t]} /\ dirty' = dirty \cup {fd[t]}
             /\ "close" \in SyncBits(par.sync)
    <3>1. /\ pc' \in [Threads -> {"check", "ended"} \cup Working \cup Behind]
          /\ pc'[t] = "fsync"
      BY <1>0, <2>4, GotoFacts DEF Working
    <3>2. Types'
      BY <1>0, <1>1, <2>1, <2>2, <2>4, <3>1 DEF Types, report
    <3>3. Control(t)'
      BY <1>1, <1>2, <2>1, <2>4, <3>1, BehindFacts DEF Control, Loops
    <3> QED
      BY <3>2, <3>3
  <2>5. CASE NextFile(t) /\ data' = data \cup {fd[t]} /\ dirty' = dirty \cup {fd[t]}
    <3>1. data' \in SUBSET Inodes /\ dirty' \in SUBSET Inodes
      BY <1>0, <2>2, <2>5 DEF Types
    <3> QED
      BY <1>b, <2>1, <2>5, <3>1
  <2> QED
    BY <1>7, <2>3, <2>4, <2>5 DEF Write
<1>8. CASE Fsync(t)
  <2>1. dirty' \in SUBSET Inodes /\ data' \in SUBSET Inodes
    BY <1>0, <1>8 DEF Fsync, Types
  <2> QED
    BY <1>8, <1>b, <2>1 DEF Fsync, Runs
<1>c. ASSUME NEW s \in {"sync", "first"}, pc[t] = s, Goto(t, After(s)),
             UNCHANGED <<names, pos, subdir, fd, result, tree, data, cause>>,
             dirty' \in SUBSET Inodes
      PROVE  Types' /\ Control(t)'
  <2>1. After(s) \in Behind /\ Applies(After(s))
    BY NextStageAfter
  <2>2. /\ pc' \in [Threads -> {"check", "ended"} \cup Working \cup Behind]
        /\ pc'[t] = After(s)
    BY <1>0, <1>c, <2>1, GotoFacts
  <2>3. Types'
    BY <1>0, <1>1, <1>c, <2>2 DEF Types, report
  <2>4. /\ Len(names[t]) = par.files /\ pos[t] = 1 /\ result[t] = "none"
        /\ fd[t] = NoFile
    BY <1>2, <1>c, BehindFacts DEF Control, Loops
  <2>5. pos[t] <= Len(names[t])
    BY <1>2, <2>4
  <2> QED
    BY <1>1, <1>4, <1>c, <2>1, <2>2, <2>3, <2>4, <2>5, BehindFacts DEF Control, Loops
<1>9. CASE Sync(t)
  <2>1. dirty' \in SUBSET Inodes
    BY <1>9 DEF Sync
  <2> QED
    BY <1>9, <1>c, <2>1 DEF Sync, Runs
<1>d. ASSUME NEW s \in Loops, pc[t] = s, Advance(t, s),
             UNCHANGED <<names, subdir, data, cause>>, dirty' \in SUBSET Inodes,
             tree' \in [DOMAIN tree' -> Inodes], IsFiniteSet(DOMAIN tree')
      PROVE  Types' /\ Control(t)'
  <2>1. /\ Len(names[t]) = par.files /\ pos[t] <= Len(names[t]) /\ result[t] = "none"
        /\ fd[t] = NoFile /\ Applies(s) /\ s \in Behind
    BY <1>2, <1>d, BehindFacts DEF Control, Loops
  <2>2. /\ pc' \in [Threads -> {"check", "ended"} \cup Working \cup Behind]
        /\ pos' \in [Threads -> Nat \ {0}]
        /\ fd' = fd /\ result' = result
        /\ \/ pos[t] < Len(names[t]) /\ pos'[t] = pos[t] + 1 /\ pc'[t] = s
           \/ pos[t] = Len(names[t]) /\ pos'[t] = 1 /\ pc'[t] = After(s)
    BY <1>0, <1>d, <2>1, AdvanceFacts
  <2>3. After(s) \in Behind /\ Applies(After(s))
    BY <1>d, NextStageAfter DEF Loops
  <2>4. Types'
    BY <1>0, <1>1, <1>d, <2>2 DEF Types, report
  <2>5. pos'[t] <= Len(names[t])
    BY <1>2, <2>1, <2>2
  <2>6. pc'[t] \in Behind /\ Applies(pc'[t]) /\ (pc'[t] \notin Loops => pos'[t] = 1)
    BY <1>d, <2>1, <2>2, <2>3
  <2> QED
    BY <1>1, <1>4, <1>d, <2>1, <2>2, <2>4, <2>5, <2>6, BehindFacts DEF Control
<1>10. ASSUME NEW s \in {"inorder", "reverse"}, PostFsync(t, s)
       PROVE  Types' /\ Control(t)'
  <2>1. pc[t] = s /\ UNCHANGED <<names, subdir, tree, data, cause>>
    BY <1>10 DEF PostFsync, Runs
  <2>2. CASE Return(t, "io") /\ UNCHANGED <<dirty, pos>>
    BY <1>a, <2>1, <2>2
  <2>3. CASE Advance(t, s) /\ dirty' = dirty \ {tree[PostPath(t, s)]}
    <3>1. dirty' \in SUBSET Inodes
      BY <1>0, <2>3 DEF Types
    <3>2. tree' \in [DOMAIN tree' -> Inodes] /\ IsFiniteSet(DOMAIN tree')
      BY <1>0, <2>1 DEF Types
    <3> QED
      BY <1>d, <2>1, <2>3, <3>1, <3>2 DEF Loops
  <2> QED
    BY <1>10, <2>2, <2>3 DEF PostFsync
<1>11. CASE FirstFile(t)
  <2>1. pc[t] = "first" /\ UNCHANGED <<names, pos, subdir, tree, data, cause>>
    BY <1>11 DEF FirstFile, Runs
  <2>2. CASE Return(t, "io") /\ UNCHANGED dirty
    BY <1>a, <2>1, <2>2
  <2>3. CASE /\ dirty' = dirty \ {tree[names[t][1]]}
             /\ Goto(t, After("first")) /\ UNCHANGED <<fd, result>>
    <3>1. dirty' \in SUBSET Inodes
      BY <1>0, <2>3 DEF Types
    <3> QED
      BY <1>c, <2>1, <2>3, <3>1
  <2> QED
    BY <1>11, <2>2, <2>3 DEF FirstFile
<1>12. CASE Unlink(t)
  <2> DEFINE p == names[t][pos[t]]
  <2>1. pc[t] = "unlink" /\ UNCHANGED <<names, subdir, data, dirty, cause>>
    BY <1>12 DEF Unlink, Runs
  <2>2. CASE Return(t, "io") /\ UNCHANGED <<tree, pos>>
    BY <1>a, <2>1, <2>2
  <2>3. CASE tree' = [q \in DOMAIN tree \ {p} |-> tree[q]] /\ Advance(t, "unlink")
    <3>1. tree' \in [DOMAIN tree' -> Inodes] /\ DOMAIN tree' = DOMAIN tree \ {p}
      BY <1>0, <2>3 DEF Types
    <3>a. IsFiniteSet(DOMAIN tree)
      BY <1>0 DEF Types
    <3>b. IsFiniteSet(DOMAIN tree \ {p})
      <4> HIDE DEF p
      <4> QED
        BY <3>a, FS_RemoveElement
    <3>2. IsFiniteSet(DOMAIN tree')
      BY <3>1, <3>b
    <3>3. dirty' \in SUBSET Inodes
      BY <1>0, <2>1 DEF Types
    <3> QED
      BY <1>d, <2>1, <2>3, <3>1, <3>2, <3>3 DEF Loops
  <2> QED
    BY <1>12, <2>2, <2>3 DEF Unlink
<1>13. CASE Row(t)
  <2>1. pc[t] = "return" /\ UNCHANGED <<names, pos, subdir, tree, data, dirty, cause>>
    BY <1>13 DEF Row, Runs, disk
  <2>2. /\ pc' \in [Threads -> {"check", "ended"} \cup Working \cup Behind]
        /\ fd' \in [Threads -> Inodes \cup {NoFile}]
        /\ result' \in [Threads -> {"none", "ok", "io", "full"}]
        /\ pc'[t] = "ended" /\ result'[t] = "ok" /\ fd'[t] = NoFile
    BY <1>0, <1>13, ReturnFacts DEF Row
  <2>3. Types'
    BY <1>0, <1>1, <2>1, <2>2 DEF Types, report
  <2>4. Control(t)'
    BY <1>1, <1>2, <2>1, <2>2, BehindFacts DEF Control, Loops
  <2> QED
    BY <2>3, <2>4
<1>14. CASE Fault(t)
  BY <1>14, <1>a DEF Fault, disk
<1> QED
  BY <1>5, <1>6, <1>7, <1>8, <1>9, <1>10, <1>11, <1>12, <1>13, <1>14 DEF RunThread

LEMMA RowsFacts ==
  ASSUME Types
  PROVE  Rows \in SUBSET Threads /\ IsFiniteSet(Rows) /\ Cardinality(Rows) \in Nat
<1>1. IsFiniteSet(Threads) /\ Rows \in SUBSET Threads
  BY ThreadsFinite DEF Types, Rows
<1> QED
  BY <1>1, FS_Subset, FS_CardinalityType

\* the two outcomes of Join
LEMMA JoinFacts ==
  ASSUME Inv1, Join
  PROVE  /\ main = "iterate" /\ \A t \in Threads : pc[t] = "ended"
         /\ UNCHANGED <<par, subdir, fd, tree, data, dirty, faults, cause>>
         /\ status' = Status /\ loops' \in Nat /\ written' \in Nat
         /\ \/ main' = "done" /\ UNCHANGED <<pc, names, result, pos>>
            \/ /\ main' = "iterate" /\ Status = "ok" /\ Rows # {}
               /\ pc' = [t \in Threads |-> "check"] /\ names' = [t \in Threads |-> <<>>]
               /\ result' = [t \in Threads |-> "none"] /\ pos' = [t \in Threads |-> 1]
         /\ written' = written + Cardinality(Rows) * par.files
<1>0. Types /\ status \in {"ok", "failed"}
  BY DEF Inv1, Types
<1>1. /\ loops \in Nat /\ written \in Nat /\ par.files \in Nat
  BY <1>0 DEF Types, CommandLineType
<1>2. Cardinality(Rows) \in Nat /\ (Rows = {} => Cardinality(Rows) = 0)
  BY <1>0, RowsFacts, FS_EmptySet
<1>3. /\ main = "iterate" /\ (\A t \in Threads : pc[t] = "ended")
      /\ UNCHANGED <<par, subdir, fd, tree, data, dirty, faults, cause>>
      /\ status' = Status
  BY DEF Join, disk
<1>4. /\ written' = written + Cardinality(Rows) * par.files
      /\ loops' \in Nat
  <2>1. CASE Rows = {}
    <3>1. written' = written /\ loops' = loops
      BY <2>1 DEF Join
    <3>2. Cardinality(Rows) * par.files = 0
      BY <1>1, <1>2, <2>1
    <3> QED
      BY <1>1, <3>1, <3>2
  <2>2. CASE Rows # {}
    BY <1>1, <2>2 DEF Join
  <2> QED
    BY <2>1, <2>2
<1>5. Cardinality(Rows) * par.files \in Nat
  BY <1>1, <1>2
<1>6. written' \in Nat
  BY <1>1, <1>4, <1>5
<1>7. main' \in {"done", "iterate"} /\ (main' # "done" => Status # "failed" /\ Rows # {})
  BY <1>3 DEF Join
<1>8. Status \in {"ok", "failed"}
  BY <1>0 DEF Status
<1>9. \/ main' = "done" /\ UNCHANGED <<pc, names, result, pos>>
      \/ /\ main' # "done"
         /\ pc' = [t \in Threads |-> "check"] /\ names' = [t \in Threads |-> <<>>]
         /\ result' = [t \in Threads |-> "none"] /\ pos' = [t \in Threads |-> 1]
  BY DEF Join, Started
<1> QED
  BY <1>3, <1>4, <1>6, <1>7, <1>8, <1>9

LEMMA JoinInv1 ==
  ASSUME Inv1, Join
  PROVE  Inv1'
<1>0. Types
  BY DEF Inv1
<1>1. /\ main = "iterate" /\ (\A t \in Threads : pc[t] = "ended")
      /\ UNCHANGED <<par, subdir, fd, tree, data, dirty, faults, cause>>
      /\ status' = Status /\ loops' \in Nat /\ written' \in Nat
      /\ \/ main' = "done" /\ UNCHANGED <<pc, names, result, pos>>
         \/ /\ main' = "iterate" /\ Status = "ok"
            /\ pc' = [t \in Threads |-> "check"] /\ names' = [t \in Threads |-> <<>>]
            /\ result' = [t \in Threads |-> "none"] /\ pos' = [t \in Threads |-> 1]
  BY JoinFacts
<1>2. full' \in BOOLEAN /\ status' \in {"ok", "failed"}
  BY <1>0, <1>1 DEF Join, IsFull, Status, Types
<1>3. Threads' = Threads
  BY <1>1 DEF Threads
<1>4. \A s : Applies(s)' = Applies(s)
  BY <1>1 DEF Applies
<1>5. CASE main' = "done" /\ UNCHANGED <<pc, names, result, pos>>
  <2>1. Types'
    BY <1>0, <1>1, <1>2, <1>3, <1>5 DEF Types
  <2>2. \A t \in Threads : Control(t)'
    BY <1>1, <1>4, <1>5 DEF Inv1, Control
  <2>3. Reporting'
    BY <1>1, <1>3, <1>5 DEF Reporting, Status
  <2> QED
    BY <1>3, <2>1, <2>2, <2>3 DEF Inv1
<1>6. CASE /\ main' = "iterate" /\ Status = "ok"
           /\ pc' = [t \in Threads |-> "check"] /\ names' = [t \in Threads |-> <<>>]
           /\ result' = [t \in Threads |-> "none"] /\ pos' = [t \in Threads |-> 1]
  <2>1. /\ pc' \in [Threads -> {"check", "ended"} \cup Working \cup Behind]
        /\ names' \in [Threads -> Seq(Path)] /\ pos' \in [Threads -> Nat \ {0}]
        /\ result' \in [Threads -> {"none", "ok", "io", "full"}]
    BY <1>6
  <2>2. Types'
    BY <1>0, <1>1, <1>2, <1>3, <1>6, <2>1 DEF Types
  <2>3. ASSUME NEW t \in Threads PROVE Control(t)'
    <3>1. fd'[t] = NoFile
      BY <1>1 DEF Inv1, Control
    <3>2. pc'[t] = "check" /\ names'[t] = <<>> /\ result'[t] = "none" /\ pos'[t] = 1
      BY <1>6
    <3> QED
      BY <3>1, <3>2, BehindFacts DEF Control, Loops
  <2>4. Reporting'
    BY <1>1, <1>6 DEF Reporting
  <2> QED
    BY <1>3, <2>2, <2>3, <2>4 DEF Inv1
<1> QED
  BY <1>1, <1>5, <1>6

LEMMA StutterInv1 ==
  ASSUME Inv1, UNCHANGED vars
  PROVE  Inv1'
<1>1. /\ UNCHANGED <<par, pc, names, pos, subdir, fd, result, tree, data, dirty>>
      /\ UNCHANGED <<main, loops, written, status, full, cause>> /\ Threads' = Threads
  BY DEF vars, thread, disk, report, Threads
<1>2. Types'
  BY <1>1 DEF Inv1, Types
<1>3. (main' # "rejected" => \A t \in Threads : Control(t)')
  BY <1>1 DEF Inv1, Control, Applies
<1>4. Reporting'
  BY <1>1 DEF Inv1, Reporting
<1> QED
  BY <1>1, <1>2, <1>3, <1>4 DEF Inv1

\* the cases of a step
LEMMA StepCases ==
  ASSUME [Next]_vars
  PROVE  \/ \E t \in Threads : RunThread(t) \/ Fault(t)
         \/ Join \/ UNCHANGED vars
BY DEF Next, Finished

LEMMA NextInv1 == Inv1 /\ [Next]_vars => Inv1'
BY ThreadInv1, JoinInv1, StutterInv1, StepCases

-----------------------------------------------------------------------------
(* Which paths lead to which files. *)

Injective == \A p, q \in DOMAIN tree : tree[p] = tree[q] => p = q

\* a file that is being written has the name under which it was opened, or none
Linked == \A u \in Threads : \A p \in DOMAIN tree : fd[u] = tree[p] => p = Last(names[u])

Inv2 == Injective /\ Linked

\* a step that opens no file: paths may go, files may be closed
Shrinks(t) ==
  /\ names' = names
  /\ DOMAIN tree' \subseteq DOMAIN tree /\ \A q \in DOMAIN tree' : tree'[q] = tree[q]
  /\ \A u \in Threads : fd'[u] \in {fd[u], NoFile}
  /\ cause \subseteq cause'

LEMMA ShrinkFacts ==
  ASSUME Types, NEW t \in Threads, RunThread(t) \/ Fault(t)
  PROVE  Create(t) \/ Shrinks(t)
<1>1. fd \in [Threads -> Inodes \cup {NoFile}]
  BY DEF Types
<1>a. ASSUME NEW r, Return(t, r) PROVE \A u \in Threads : fd'[u] \in {fd[u], NoFile}
  BY <1>1, <1>a DEF Return
<1>2. CASE Check(t)
  BY <1>2, <1>a DEF Check, Shrinks, disk
<1>3. CASE Write(t)
  <2>1. \A u \in Threads : fd'[u] \in {fd[u], NoFile}
    BY <1>1, <1>3, <1>a DEF Write, NextFile
  <2> QED
    BY <1>3, <2>1 DEF Write, Shrinks
<1>4. CASE Fsync(t)
  BY <1>1, <1>4 DEF Fsync, NextFile, Shrinks
<1>5. CASE Sync(t)
  BY <1>5 DEF Sync, Shrinks
<1>6. ASSUME NEW s, PostFsync(t, s) PROVE Shrinks(t)
  BY <1>6, <1>a DEF PostFsync, Advance, Shrinks
<1>7. CASE FirstFile(t)
  BY <1>7, <1>a DEF FirstFile, Shrinks
<1>8. CASE Unlink(t)
  <2>1. \A u \in Threads : fd'[u] \in {fd[u], NoFile}
    BY <1>8, <1>a DEF Unlink, Advance
  <2>2. names' = names /\ cause' = cause
    BY <1>8 DEF Unlink
  <2> DEFINE p == names[t][pos[t]]
  <2>3. tree' = tree \/ tree' = [q \in DOMAIN tree \ {p} |-> tree[q]]
    BY <1>8 DEF Unlink
  <2> HIDE DEF p
  <2>4. DOMAIN tree' \subseteq DOMAIN tree /\ \A q \in DOMAIN tree' : tree'[q] = tree[q]
    BY <2>3
  <2> QED
    BY <2>1, <2>2, <2>4 DEF Shrinks
<1>9. CASE Row(t)
  BY <1>9, <1>a DEF Row, Shrinks, disk
<1>10. CASE Fault(t)
  BY <1>10, <1>a DEF Fault, Shrinks, disk
<1> QED
  BY <1>2, <1>3, <1>4, <1>5, <1>6, <1>7, <1>8, <1>9, <1>10 DEF RunThread

LEMMA InitInv2 == Init => Inv2
<1> SUFFICES ASSUME Init PROVE Inv2
  OBVIOUS
<1>1. DOMAIN tree = {}
  BY DEF Init
<1> QED
  BY <1>1 DEF Inv2, Injective, Linked

\* a path that is opened for the first time gets a file that has no other name and
\* that no thread writes
LEMMA CreateInv2 ==
  ASSUME Inv1, Inv2, NEW t \in Threads, Create(t)
  PROVE  Inv2'
<1>0. Types
  BY DEF Inv1
<1>1. PICK p, i : Created(t, p, i)
  BY <1>0, CreateFacts
<1>2. Creation(t, p, i)
  BY <1>0, <1>1, CreatedFacts
<1>3. Local(t) /\ Threads' = Threads
  BY <1>0, ThreadLocal DEF RunThread, Threads
<1>4. /\ DOMAIN tree' = DOMAIN tree \cup {p} /\ tree'[p] = i
      /\ (\A q \in DOMAIN tree : q # p => tree'[q] = tree[q])
      /\ fd'[t] = i /\ Last(names'[t]) = p
  BY <1>2 DEF Creation, Last
<1>5. \A q \in DOMAIN tree : q # p => tree[q] # i
  <2>1. CASE p \in DOMAIN tree
    BY <1>1, <2>1 DEF Created, Inv2, Injective
  <2>2. CASE p \notin DOMAIN tree
    BY <1>1, <2>2 DEF Created, Unused, Named
  <2> QED
    BY <2>1, <2>2
<1>6. Injective'
  BY <1>4, <1>5 DEF Inv2, Injective
<1>7. ASSUME NEW u \in Threads, NEW q \in DOMAIN tree', fd'[u] = tree'[q]
      PROVE  q = Last(names'[u])
  <2>1. CASE u = t
    BY <1>4, <1>5, <1>7, <2>1
  <2>2. CASE u # t
    <3>1. fd'[u] = fd[u] /\ names'[u] = names[u]
      BY <1>3, <2>2 DEF Local
    <3>2. CASE q \in DOMAIN tree /\ q # p
      BY <1>4, <1>7, <3>1, <3>2 DEF Inv2, Linked
    <3>3. CASE q = p /\ p \in DOMAIN tree
      BY <1>1, <1>4, <1>7, <3>1, <3>3 DEF Created, Inv2, Linked
    <3>4. CASE q = p /\ p \notin DOMAIN tree
      <4>1. i \in Unused /\ i \in Inodes
        BY <1>1, <3>4 DEF Created
      <4>2. fd[u] = i
        BY <1>4, <1>7, <3>1, <3>4
      <4>3. i # NoFile
        BY <4>1, FsmarkAssumption DEF Inodes, NoFile
      <4>4. i \in Opened
        BY <4>2, <4>3 DEF Opened
      <4> QED
        BY <4>1, <4>4 DEF Unused
    <3> QED
      BY <1>4, <3>2, <3>3, <3>4
  <2> QED
    BY <2>1, <2>2
<1> QED
  BY <1>3, <1>6, <1>7 DEF Inv2, Linked

LEMMA NextInv2 == Inv1 /\ Inv2 /\ [Next]_vars => Inv2'
<1> SUFFICES ASSUME Inv1, Inv2, [Next]_vars PROVE Inv2'
  OBVIOUS
<1>0. Types
  BY DEF Inv1
<1>a. ASSUME NEW q \in DOMAIN tree PROVE tree[q] # NoFile
  BY <1>0, FsmarkAssumption DEF Types, Inodes, NoFile
<1>1. ASSUME NEW t \in Threads, RunThread(t) \/ Fault(t) PROVE Inv2'
  <2>1. CASE Create(t)
    BY <2>1, CreateInv2
  <2>2. CASE Shrinks(t)
    <3>1. Threads' = Threads
      BY <1>0, <1>1, ThreadLocal DEF Threads
    <3>2. Injective'
      BY <2>2 DEF Inv2, Injective, Shrinks
    <3>3. Linked'
      BY <1>a, <2>2, <3>1 DEF Inv2, Linked, Shrinks
    <3> QED
      BY <3>2, <3>3 DEF Inv2
  <2> QED
    BY <1>0, <1>1, <2>1, <2>2, ShrinkFacts
<1>2. CASE Join
  <2>1. /\ main = "iterate" /\ \A t \in Threads : pc[t] = "ended"
        /\ UNCHANGED <<par, subdir, fd, tree, data, dirty, faults, cause>>
    BY <1>2, JoinFacts
  <2>2. \A t \in Threads : fd[t] = NoFile
    BY <2>1 DEF Inv1, Control
  <2> QED
    BY <1>a, <2>1, <2>2 DEF Inv2, Injective, Linked, Threads
<1>3. CASE UNCHANGED vars
  BY <1>3 DEF vars, thread, disk, Inv2, Injective, Linked, Threads
<1> QED
  BY <1>1, <1>2, <1>3, StepCases

-----------------------------------------------------------------------------
(* What is durable. *)

Alone(t, p) == \A u \in Threads \ {t} : p \notin ToSet(names[u])

\* nobody else can have removed the file that a thread is writing
Own ==
  \A t \in Threads :
    pc[t] \in {"write", "fsync"} =>
      \A p \in {Last(names[t])} : Alone(t, p) => p \in DOMAIN tree /\ tree[p] = fd[t]

\* the path that post_fsync opens at position j
PathAt(t, stage, j) == names[t][IF stage = "inorder" THEN j ELSE Len(names[t]) + 1 - j]

\* the paths that the sync method has dealt with so far
Synced(t, p) ==
  /\ p \in ToSet(names[t])
  /\ \/ pc[t] \in {"first", "unlink", "return"} \/ result[t] = "ok"
     \/ pc[t] \in {"inorder", "reverse"} /\ \E j \in 1..pos[t]-1 : p = PathAt(t, pc[t], j)
     \/ /\ "close" \in SyncBits(par.sync)
        /\ pc[t] = "create" \/ (pc[t] \in {"write", "fsync"} /\ p # Last(names[t]))

DurableOf(t) ==
  par.sync # 0 =>
    \A p \in DOMAIN tree : Synced(t, p) /\ Alone(t, p) => tree[p] \notin dirty

Durable == \A t \in Threads : DurableOf(t)

Inv3 == Own /\ Durable

LEMMA ToSetFacts ==
  ASSUME NEW s \in Seq(Path)
  PROVE  /\ \A p : p \in ToSet(s) <=> \E j \in 1..Len(s) : p = s[j]
         /\ s # <<>> => Last(s) \in ToSet(s)
         /\ \A p \in Path : ToSet(Append(s, p)) = ToSet(s) \cup {p}
<1>1. \A p : p \in ToSet(s) <=> \E j \in 1..Len(s) : p = s[j]
  BY DEF ToSet
<1>2. s # <<>> => Last(s) \in ToSet(s)
  <2>1. s # <<>> => Len(s) \in 1..Len(s)
    OBVIOUS
  <2> QED
    BY <1>1, <2>1 DEF Last
<1>3. ASSUME NEW p \in Path PROVE ToSet(Append(s, p)) = ToSet(s) \cup {p}
  <2> DEFINE r == Append(s, p)
  <2>1. /\ r \in Seq(Path) /\ Len(r) = Len(s) + 1 /\ r[Len(s) + 1] = p
        /\ \A j \in 1..Len(s) : r[j] = s[j]
    OBVIOUS
  <2>2. Len(s) \in Nat
    OBVIOUS
  <2> HIDE DEF r
  <2>3. ToSet(r) = {r[j] : j \in 1..Len(s)+1}
    BY <2>1 DEF ToSet
  <2>4. \A j \in 1..Len(s)+1 : j \in 1..Len(s) \/ j = Len(s) + 1
    BY <2>2
  <2>5. \A j \in 1..Len(s) : j \in 1..Len(s)+1
    BY <2>2
  <2>6. Len(s) + 1 \in 1..Len(s)+1
    BY <2>2
  <2>7. ToSet(s) = {s[j] : j \in 1..Len(s)}
    BY DEF ToSet
  <2> QED
    BY <2>1, <2>3, <2>4, <2>5, <2>6, <2>7 DEF r
<1> QED
  BY <1>1, <1>2, <1>3

\* what a step that opens no file does to paths and to dirty data
Effect(t) ==
  /\ \A q \in DOMAIN tree : q \in DOMAIN tree' \/ (pc[t] = "unlink" /\ q = names[t][pos[t]])
  /\ \A i \in dirty' : i \in dirty \/ (pc[t] = "write" /\ i = fd[t])
  /\ pc'[t] \in {"write", "fsync"} => pc[t] = "write" /\ pc'[t] = "fsync" /\ fd' = fd

LEMMA EffectFacts ==
  ASSUME Inv1, NEW t \in Threads, RunThread(t) \/ Fault(t), ~Create(t)
  PROVE  Effect(t)
<1>0. Types /\ pc \in [Threads -> {"check", "ended"} \cup Working \cup Behind]
  BY DEF Inv1, Types
<1>a. ASSUME NEW r, Return(t, r) PROVE pc'[t] = "ended"
  BY <1>0, <1>a DEF Return, Goto
<1>b. ASSUME NEW s, Goto(t, s) PROVE pc'[t] = s
  BY <1>0, <1>b DEF Goto
<1>2. CASE Check(t)
  BY <1>2, <1>a, <1>b DEF Check, Effect, disk
<1>3. CASE Write(t)
  <2>1. StageAfter(0) \in Behind
    BY NextStage
  <2>2. NextFile(t) => pc'[t] \in Behind \cup {"create"}
    BY <1>0, <2>1, NextFileFacts
  <2>3. pc'[t] \in {"write", "fsync"} => pc'[t] = "fsync" /\ fd' = fd
    BY <1>3, <1>a, <1>b, <2>2, BehindFacts DEF Write
  <2> QED
    BY <1>3, <2>3 DEF Write, Effect, Runs
<1>4. CASE Fsync(t)
  <2>1. StageAfter(0) \in Behind
    BY NextStage
  <2>2. pc'[t] \in Behind \cup {"create"}
    BY <1>0, <1>4, <2>1, NextFileFacts DEF Fsync
  <2> QED
    BY <1>4, <2>2, BehindFacts DEF Fsync, Effect
<1>c. \A s \in {"sync", "inorder", "reverse", "first", "unlink"} : After(s) \in Behind
  BY NextStageAfter
<1>5. CASE Sync(t)
  BY <1>5, <1>b, <1>c, BehindFacts DEF Sync, Effect
<1>d. ASSUME NEW s \in Loops, Runs(t, s), Advance(t, s) PROVE pc'[t] \in Behind
  BY <1>0, <1>b, <1>c, <1>d, BehindFacts DEF Advance, Loops, Runs
<1>6. ASSUME NEW s \in {"inorder", "reverse"}, PostFsync(t, s) PROVE Effect(t)
  BY <1>6, <1>a, <1>d, BehindFacts DEF PostFsync, Effect, Loops
<1>7. CASE FirstFile(t)
  BY <1>7, <1>a, <1>b, <1>c, BehindFacts DEF FirstFile, Effect
<1>8. CASE Unlink(t)
  <2>1. pc'[t] \in Behind \cup {"ended"} /\ dirty' = dirty /\ pc[t] = "unlink"
    BY <1>8, <1>a, <1>d DEF Unlink, Loops, Runs
  <2> DEFINE p == names[t][pos[t]]
  <2>2. tree' = tree \/ tree' = [q \in DOMAIN tree \ {p} |-> tree[q]]
    BY <1>8 DEF Unlink
  <2>3. \A q \in DOMAIN tree : q \in DOMAIN tree' \/ q = p
    <3> HIDE DEF p
    <3> QED
      BY <2>2
  <2> QED
    BY <2>1, <2>3, BehindFacts DEF Effect
<1>9. CASE Row(t)
  BY <1>9, <1>a DEF Row, Effect, disk
<1>10. CASE Fault(t)
  BY <1>10, <1>a DEF Fault, Effect, disk
<1> QED
  BY <1>2, <1>3, <1>4, <1>5, <1>6, <1>7, <1>8, <1>9, <1>10 DEF RunThread

LEMMA InitInv3 == Init => Inv3
<1> SUFFICES ASSUME Init PROVE Inv3
  OBVIOUS
<1>1. DOMAIN tree = {} /\ pc = [t \in Threads |-> "check"]
  BY DEF Init, Started
<1> QED
  BY <1>1 DEF Inv3, Own, Durable, DurableOf

\* a thread opens a path: nothing else becomes dirty
LEMMA CreateInv3 ==
  ASSUME Inv1, Inv2, Inv3, NEW t \in Threads, Create(t)
  PROVE  Inv3'
<1>0. Types /\ main = "iterate" /\ pc[t] = "create"
  BY DEF Inv1, Create, Runs
<1>a. \A u \in Threads : names[u] \in Seq(Path) /\ names'[u] \in Seq(Path)
  <2>1. Inv1' /\ Threads' = Threads
    BY <1>0, ThreadInv1, ThreadLocal DEF RunThread, Threads
  <2> QED
    BY <1>0, <2>1 DEF Inv1, Types
<1>1. PICK p, i : Created(t, p, i)
  BY <1>0, CreateFacts
<1>2. Creation(t, p, i)
  BY <1>0, <1>1, CreatedFacts
<1>3. /\ Local(t) /\ Threads' = Threads /\ par' = par
      /\ \A u \in Threads \ {t} : /\ pc'[u] = pc[u] /\ names'[u] = names[u]
                                  /\ pos'[u] = pos[u] /\ fd'[u] = fd[u]
                                  /\ result'[u] = result[u]
  BY <1>0, ThreadLocal DEF RunThread, Threads, Local
<1>4. /\ DOMAIN tree' = DOMAIN tree \cup {p} /\ tree'[p] = i
      /\ (\A q \in DOMAIN tree : q # p => tree'[q] = tree[q])
      /\ fd'[t] = i /\ Last(names'[t]) = p /\ names'[t] = Append(names[t], p)
  BY <1>2 DEF Creation, Last
<1>5. p \in Path /\ dirty' = dirty \cup {i}
  BY <1>1 DEF Created
<1>6. ToSet(names'[t]) = ToSet(names[t]) \cup {p}
  BY <1>4, <1>5, <1>a, ToSetFacts
<1>7. pc'[t] = "write" /\ pos' = pos /\ result' = result
  BY <1>0, GotoFacts DEF Create, Working
<1>8. \A q \in DOMAIN tree : q # p => tree[q] # i
  <2>1. CASE p \in DOMAIN tree
    BY <1>1, <2>1 DEF Created, Inv2, Injective
  <2>2. CASE p \notin DOMAIN tree
    BY <1>1, <2>2 DEF Created, Unused, Named
  <2> QED
    BY <2>1, <2>2
<1>9. ASSUME NEW u \in Threads, NEW q, Alone(u, q)' PROVE Alone(u, q)
  BY <1>3, <1>6, <1>9 DEF Alone
<1>10. ASSUME NEW u \in Threads \ {t}, NEW q, Alone(u, q)' PROVE q # p
  BY <1>3, <1>6, <1>10 DEF Alone
<1>11. Own'
  <2>1. SUFFICES ASSUME NEW u \in Threads, pc'[u] \in {"write", "fsync"},
                        NEW q, q = Last(names'[u]), Alone(u, q)'
                 PROVE  q \in DOMAIN tree' /\ tree'[q] = fd'[u]
    BY <1>3 DEF Own
  <2>2. CASE u = t
    BY <1>4, <2>1, <2>2
  <2>3. CASE u # t
    <3>1. Alone(u, q) /\ q # p
      BY <1>9, <1>10, <2>1, <2>3
    <3> QED
      BY <1>3, <1>4, <2>1, <2>3, <3>1 DEF Inv3, Own
  <2> QED
    BY <2>2, <2>3
<1>12. Durable'
  <2>1. SUFFICES ASSUME par.sync # 0, NEW u \in Threads, NEW q \in DOMAIN tree',
                        Synced(u, q)', Alone(u, q)'
                 PROVE  tree'[q] \notin dirty'
    BY <1>3 DEF Durable, DurableOf
  <2>2. Alone(u, q)
    BY <1>9, <2>1
  <2>3. CASE u # t
    <3>1. q # p /\ q \in DOMAIN tree /\ tree'[q] = tree[q]
      BY <1>4, <1>10, <2>1, <2>3
    <3>2. Synced(u, q)
      BY <1>3, <2>1, <2>3 DEF Synced, PathAt
    <3>3. tree[q] \notin dirty
      BY <2>1, <2>2, <3>1, <3>2 DEF Inv3, Durable, DurableOf
    <3> QED
      BY <1>5, <1>8, <3>1, <3>3
  <2>4. CASE u = t
    <3>1. result[t] = "none"
      BY <1>0 DEF Inv1, Control
    <3>2. q # p /\ q \in ToSet(names[t]) /\ "close" \in SyncBits(par.sync)
      BY <1>3, <1>4, <1>6, <1>7, <2>1, <2>4, <3>1 DEF Synced
    <3>3. Synced(t, q)
      BY <1>0, <3>2 DEF Synced
    <3>4. q \in DOMAIN tree /\ tree'[q] = tree[q]
      BY <1>4, <2>1, <3>2
    <3>5. tree[q] \notin dirty
      BY <2>1, <2>2, <2>4, <3>3, <3>4 DEF Inv3, Durable, DurableOf
    <3> QED
      BY <1>5, <1>8, <3>2, <3>4, <3>5
  <2> QED
    BY <2>3, <2>4
<1> QED
  BY <1>11, <1>12 DEF Inv3

\* with a method that does not sync at close, nothing is dealt with before the
\* stages behind the loop
LEMMA SyncStage ==
  ASSUME par \in CommandLineType, par.sync # 0, "close" \notin SyncBits(par.sync)
  PROVE  StageAfter(0) \in {"sync", "inorder", "reverse"}
<1>1. par.sync \in {1, 2, 3, 4, 5, 6}
  BY DEF CommandLineType
<1>2. \/ "sync" \in SyncBits(par.sync) \/ "inorder" \in SyncBits(par.sync)
      \/ "reverse" \in SyncBits(par.sync)
  BY <1>1 DEF SyncBits
<1> QED
  BY <1>2, NextStage

\* a step of thread t that opens no file, as the other threads see it
LEMMA OthersInv3 ==
  ASSUME Inv1, Inv2, Inv3, NEW t \in Threads, RunThread(t) \/ Fault(t), ~Create(t),
         DurableOf(t)'
  PROVE  Inv3'
<1>0. Types /\ Shrinks(t) /\ Effect(t) /\ Local(t)
  BY ShrinkFacts, EffectFacts, ThreadLocal DEF Inv1
<1>1. main = "iterate" /\ Threads' = Threads /\ par' = par /\ names' = names
  BY <1>0, ThreadLocal DEF Shrinks, Threads
<1>a. \A u \in Threads : names[u] \in Seq(Path)
  BY <1>0 DEF Types
<1>2. \A u \in Threads : \A q : Alone(u, q)' <=> Alone(u, q)
  BY <1>1 DEF Alone
<1>3. /\ DOMAIN tree' \subseteq DOMAIN tree /\ (\A q \in DOMAIN tree' : tree'[q] = tree[q])
      /\ \A q \in DOMAIN tree :
           q \in DOMAIN tree' \/ (pc[t] = "unlink" /\ q = names[t][pos[t]])
      /\ \A i \in dirty' : i \in dirty \/ (pc[t] = "write" /\ i = fd[t])
      /\ pc'[t] \in {"write", "fsync"} => pc[t] = "write" /\ pc'[t] = "fsync" /\ fd' = fd
  BY <1>0 DEF Shrinks, Effect
<1>4. ASSUME NEW u \in Threads \ {t}
      PROVE  /\ pc'[u] = pc[u] /\ pos'[u] = pos[u]
             /\ fd'[u] = fd[u] /\ result'[u] = result[u]
  BY <1>0 DEF Local
<1>5. pc[t] = "write" => Last(names[t]) \in ToSet(names[t])
  BY <1>1, <1>a, ToSetFacts DEF Inv1, Control
<1>6. pc[t] = "unlink" => names[t][pos[t]] \in ToSet(names[t])
  <2>1. pc[t] = "unlink" => pos[t] \in 1..Len(names[t])
    BY <1>0, <1>1 DEF Inv1, Control, Loops, Types
  <2> QED
    BY <1>a, <2>1, ToSetFacts
<1>7. Own'
  <2>1. SUFFICES ASSUME NEW u \in Threads, pc'[u] \in {"write", "fsync"},
                        NEW q, q = Last(names[u]), Alone(u, q)
                 PROVE  q \in DOMAIN tree' /\ tree'[q] = fd'[u]
    BY <1>1, <1>2 DEF Own
  <2>2. CASE u = t
    <3>1. pc[t] = "write" /\ fd' = fd
      BY <1>3, <2>1, <2>2
    <3>2. q \in DOMAIN tree /\ tree[q] = fd[t]
      BY <2>1, <2>2, <3>1 DEF Inv3, Own
    <3> QED
      BY <1>3, <2>2, <3>1, <3>2
  <2>3. CASE u # t
    <3>1. q \in DOMAIN tree /\ tree[q] = fd[u] /\ fd'[u] = fd[u]
      BY <1>4, <2>1, <2>3 DEF Inv3, Own
    <3>2. q \notin ToSet(names[t])
      BY <2>1, <2>3 DEF Alone
    <3> QED
      BY <1>3, <1>6, <3>1, <3>2
  <2> QED
    BY <2>2, <2>3
<1>8. ASSUME NEW u \in Threads, u # t, par.sync # 0, NEW q \in DOMAIN tree',
             Synced(u, q)', Alone(u, q)'
      PROVE  tree'[q] \notin dirty'
  <2>1. Synced(u, q)
    BY <1>1, <1>4, <1>8 DEF Synced, PathAt
  <2>2. q \in DOMAIN tree /\ tree'[q] = tree[q] /\ Alone(u, q)
    BY <1>2, <1>3, <1>8
  <2>3. tree[q] \notin dirty
    BY <1>8, <2>1, <2>2 DEF Inv3, Durable, DurableOf
  <2>4. q \notin ToSet(names[t])
    BY <1>8, <2>2 DEF Alone
  <2>5. pc[t] = "write" => fd[t] # tree[q]
    BY <1>5, <2>2, <2>4 DEF Inv2, Linked
  <2> QED
    BY <1>3, <2>2, <2>3, <2>5
<1>9. ASSUME NEW u \in Threads PROVE DurableOf(u)'
  <2>1. CASE u = t
    BY <2>1
  <2>2. CASE u # t
    BY <1>1, <1>8, <2>2 DEF DurableOf
  <2> QED
    BY <2>1, <2>2
<1> QED
  BY <1>1, <1>7, <1>9 DEF Inv3, Durable

\* a thread that does not return a row has nothing more to answer for
LEMMA ReturnDurable ==
  ASSUME Types, NEW t \in Threads, NEW r \in {"io", "full"}, Return(t, r)
  PROVE  DurableOf(t)'
<1>1. pc'[t] = "ended" /\ result'[t] = r
  BY ReturnFacts
<1> QED
  BY <1>1 DEF DurableOf, Synced

\* thread t syncs, or leaves as it is, every file for which it has to answer next
LEMMA StepDurable ==
  ASSUME NEW t \in Threads, names' = names, par' = par, Inv3, Shrinks(t), dirty' \subseteq dirty,
         \A q \in DOMAIN tree' : Synced(t, q)' /\ Alone(t, q) =>
           Synced(t, q) \/ tree[q] \notin dirty'
  PROVE  DurableOf(t)'
<1>1. Threads' = Threads
  BY DEF Threads
<1>2. SUFFICES ASSUME par.sync # 0, NEW q \in DOMAIN tree', Synced(t, q)', Alone(t, q)'
               PROVE  tree'[q] \notin dirty'
  BY DEF DurableOf
<1>3. Alone(t, q)
  BY <1>1, <1>2 DEF Alone
<1>4. q \in DOMAIN tree /\ tree'[q] = tree[q]
  BY <1>2 DEF Shrinks
<1>5. Synced(t, q) \/ tree[q] \notin dirty'
  BY <1>2, <1>3
<1>6. Synced(t, q) => tree[q] \notin dirty
  BY <1>2, <1>3, <1>4 DEF Inv3, Durable, DurableOf
<1> QED
  BY <1>4, <1>5, <1>6

LEMMA WriteDurable ==
  ASSUME Inv1, Inv2, Inv3, NEW t \in Threads, Write(t)
  PROVE  DurableOf(t)'
<1>0. Types /\ main = "iterate" /\ pc[t] = "write" /\ par \in CommandLineType
  BY DEF Inv1, Write, Runs, Types
<1>1. names' = names /\ par' = par /\ pos' = pos /\ tree' = tree /\ Threads' = Threads
  BY DEF Write, Threads
<1>2. pos[t] = 1 /\ result[t] = "none"
  BY <1>0 DEF Inv1, Control, Loops
<1>3. CASE Return(t, "io")
  BY <1>0, <1>3, ReturnDurable
<1>4. CASE /\ dirty' = dirty \cup {fd[t]} /\ "close" \in SyncBits(par.sync)
           /\ Goto(t, "fsync") /\ UNCHANGED <<fd, result>>
  <2>1. pc'[t] = "fsync" /\ result' = result
    BY <1>0, <1>4, GotoFacts DEF Working
  <2>2. SUFFICES ASSUME par.sync # 0, NEW q \in DOMAIN tree, Synced(t, q)', Alone(t, q)'
                 PROVE  tree[q] \notin dirty'
    BY <1>1 DEF DurableOf
  <2>3. Alone(t, q)
    BY <1>1, <2>2 DEF Alone
  <2>4. q \in ToSet(names[t]) /\ q # Last(names[t])
    BY <1>1, <1>2, <2>1, <2>2 DEF Synced
  <2>5. Synced(t, q)
    BY <1>0, <1>4, <2>4 DEF Synced
  <2>6. tree[q] \notin dirty
    BY <2>2, <2>3, <2>5 DEF Inv3, Durable, DurableOf
  <2>7. fd[t] # tree[q]
    BY <2>4 DEF Inv2, Linked
  <2> QED
    BY <1>4, <2>6, <2>7
<1>5. CASE "close" \notin SyncBits(par.sync) /\ NextFile(t)
  <2>1. /\ result' = result
        /\ pc'[t] = IF Len(names[t]) < par.files THEN "create" ELSE StageAfter(0)
    BY <1>0, <1>5, NextFileFacts
  <2>2. par.sync # 0 => pc'[t] \in {"create", "sync", "inorder", "reverse"}
    BY <1>0, <1>5, <2>1, SyncStage
  <2>3. ASSUME par.sync # 0, NEW q, Synced(t, q)' PROVE FALSE
    <3>1. ~\E j \in 1..pos[t]-1 : TRUE
      BY <1>2
    <3> QED
      BY <1>1, <1>2, <1>5, <2>1, <2>2, <2>3, <3>1 DEF Synced
  <2> QED
    BY <1>1, <2>3 DEF DurableOf
<1> QED
  BY <1>3, <1>4, <1>5 DEF Write

LEMMA FsyncDurable ==
  ASSUME Inv1, Inv2, Inv3, NEW t \in Threads, Fsync(t)
  PROVE  DurableOf(t)'
<1>0. Types /\ main = "iterate" /\ pc[t] = "fsync"
  BY DEF Inv1, Fsync, Runs
<1>1. names' = names /\ par' = par /\ dirty' = dirty \ {fd[t]} /\ tree' = tree
  BY DEF Fsync
<1>2. Shrinks(t)
  BY <1>0, ShrinkFacts DEF RunThread, Fsync, Create, Runs
<1>3. "close" \in SyncBits(par.sync)
  BY <1>0 DEF Inv1, Control
<1>4. ASSUME NEW q \in DOMAIN tree', Synced(t, q)', Alone(t, q)
      PROVE  Synced(t, q) \/ tree[q] \notin dirty'
  <2>1. q \in ToSet(names[t])
    BY <1>1, <1>4 DEF Synced
  <2>2. q # Last(names[t]) => Synced(t, q)
    BY <1>0, <1>3, <2>1 DEF Synced
  <2>3. q = Last(names[t]) => tree[q] = fd[t]
    BY <1>0, <1>4 DEF Inv3, Own
  <2> QED
    BY <1>1, <2>2, <2>3
<1> QED
  BY <1>1, <1>2, <1>4, StepDurable

\* the loop of post_fsync has synced what lies before its position, and all files
\* at its end
LEMMA PostFsyncDurable ==
  ASSUME Inv1, Inv2, Inv3, NEW t \in Threads, NEW stage \in {"inorder", "reverse"},
         PostFsync(t, stage)
  PROVE  DurableOf(t)'
<1>0. Types /\ main = "iterate" /\ pc[t] = stage /\ stage \in Loops
  BY DEF Inv1, PostFsync, Runs, Loops
<1>1. names' = names /\ par' = par /\ tree' = tree
  BY DEF PostFsync
<1>2. Shrinks(t)
  BY <1>0, ShrinkFacts DEF RunThread, Create, Runs
<1>3. names[t] \in Seq(Path) /\ pos[t] \in Nat \ {0} /\ pos[t] <= Len(names[t])
  BY <1>0 DEF Inv1, Control, Types
<1>a. result[t] = "none"
  BY <1>0 DEF Inv1, Control, Loops
<1>4. CASE Return(t, "io")
  BY <1>0, <1>4, ReturnDurable
<1>5. CASE dirty' = dirty \ {tree[PostPath(t, stage)]} /\ Advance(t, stage)
  <2>1. /\ result' = result
        /\ \/ pos[t] < Len(names[t]) /\ pos'[t] = pos[t] + 1 /\ pc'[t] = stage
           \/ pos[t] = Len(names[t])
    BY <1>0, <1>3, <1>5, AdvanceFacts
  <2>2. ASSUME NEW q \in ToSet(names[t]), pos[t] = Len(names[t])
        PROVE  \E j \in 1..pos[t] : q = PathAt(t, stage, j)
    <3>1. PICK k \in 1..Len(names[t]) : q = names[t][k]
      BY <1>3, ToSetFacts
    <3> DEFINE n == Len(names[t])
    <3>2. n \in Nat
      BY <1>3
    <3>3. k \in 1..n
      BY <3>1
    <3> HIDE DEF n
    <3>4. n + 1 - k \in 1..n /\ n + 1 - (n + 1 - k) = k
      BY <3>2, <3>3
    <3>5. CASE stage = "inorder"
      BY <2>2, <3>1, <3>5 DEF PathAt
    <3>6. CASE stage = "reverse"
      <4>1. PathAt(t, stage, n + 1 - k) = names[t][k]
        BY <3>4, <3>6 DEF PathAt, n
      <4> QED
        BY <2>2, <3>1, <3>4, <4>1 DEF n
    <3> QED
      BY <3>5, <3>6
  <2>3. ASSUME NEW q \in DOMAIN tree', Synced(t, q)', Alone(t, q)
        PROVE  Synced(t, q) \/ tree[q] \notin dirty'
    <3>1. q \in ToSet(names[t])
      BY <1>1, <2>3 DEF Synced
    <3>2. \E j \in 1..pos[t] : q = PathAt(t, stage, j)
      <4>1. CASE pos[t] = Len(names[t])
        BY <2>2, <3>1, <4>1
      <4>2. CASE pos'[t] = pos[t] + 1 /\ pc'[t] = stage
        <5>1. \E j \in 1..pos'[t]-1 : q = PathAt(t, stage, j)
          BY <1>1, <1>a, <2>1, <2>3, <4>2 DEF Synced, PathAt
        <5>2. pos'[t] - 1 = pos[t]
          BY <1>3, <4>2
        <5> QED
          BY <5>1, <5>2
      <4> QED
        BY <2>1, <4>1, <4>2
    <3>3. PICK j \in 1..pos[t] : q = PathAt(t, stage, j)
      BY <3>2
    <3>4. CASE j = pos[t]
      <4>1. q = PostPath(t, stage)
        BY <3>3, <3>4 DEF PathAt, PostPath
      <4> QED
        BY <1>5, <4>1
    <3>5. CASE j # pos[t]
      <4>1. j \in 1..pos[t]-1
        BY <1>3, <3>5
      <4> QED
        BY <1>0, <3>1, <3>3, <4>1 DEF Synced
    <3> QED
      BY <3>4, <3>5
  <2> QED
    BY <1>1, <1>2, <1>5, <2>3, StepDurable
<1> QED
  BY <1>4, <1>5 DEF PostFsync

LEMMA ThreadInv3 ==
  ASSUME Inv1, Inv2, Inv3, NEW t \in Threads, RunThread(t) \/ Fault(t)
  PROVE  Inv3'
<1>0. Types /\ Local(t) /\ main = "iterate" /\ par' = par
  BY ThreadLocal DEF Inv1
<1>1. CASE Create(t)
  BY <1>1, CreateInv3
<1>2. ASSUME ~Create(t) PROVE DurableOf(t)'
  <2>0. Shrinks(t) /\ names' = names
    BY <1>0, <1>2, ShrinkFacts DEF Shrinks
  <2>a. ASSUME pc[t] \in {"first", "unlink", "return"}, dirty' \subseteq dirty
        PROVE  DurableOf(t)'
    <3>1. \A q : Synced(t, q)' => Synced(t, q)
      BY <2>0, <2>a DEF Synced
    <3> QED
      BY <1>0, <2>0, <2>a, <3>1, StepDurable
  <2>1. CASE Check(t)
    <3>1. names[t] = <<>>
      BY <1>0, <2>1 DEF Check, Runs, Inv1, Control
    <3>2. ToSet(names[t]) = {}
      BY <3>1 DEF ToSet
    <3> QED
      BY <2>0, <3>2 DEF DurableOf, Synced
  <2>2. CASE Write(t)
    BY <2>2, WriteDurable
  <2>3. CASE Fsync(t)
    BY <2>3, FsyncDurable
  <2>4. CASE Sync(t)
    BY <2>4 DEF Sync, DurableOf
  <2>5. CASE PostFsync(t, "inorder") \/ PostFsync(t, "reverse")
    BY <2>5, PostFsyncDurable
  <2>6. CASE FirstFile(t)
    BY <2>6, <2>a DEF FirstFile, Runs
  <2>7. CASE Unlink(t)
    BY <2>7, <2>a DEF Unlink, Runs
  <2>8. CASE Row(t)
    BY <2>8, <2>a DEF Row, Runs, disk
  <2>9. CASE Fault(t)
    BY <1>0, <2>9, ReturnDurable DEF Fault
  <2> QED
    BY <1>2, <2>1, <2>2, <2>3, <2>4, <2>5, <2>6, <2>7, <2>8, <2>9 DEF RunThread
<1> QED
  BY <1>1, <1>2, OthersInv3

LEMMA NextInv3 == Inv1 /\ Inv2 /\ Inv3 /\ [Next]_vars => Inv3'
<1> SUFFICES ASSUME Inv1, Inv2, Inv3, [Next]_vars PROVE Inv3'
  OBVIOUS
<1>1. CASE Join
  <2>0. Types
    BY DEF Inv1
  <2>1. /\ main = "iterate" /\ (\A t \in Threads : pc[t] = "ended")
        /\ UNCHANGED <<par, subdir, fd, tree, data, dirty, faults, cause>>
        /\ \/ main' = "done" /\ UNCHANGED <<pc, names, result, pos>>
           \/ /\ pc' = [t \in Threads |-> "check"] /\ names' = [t \in Threads |-> <<>>]
              /\ result' = [t \in Threads |-> "none"] /\ pos' = [t \in Threads |-> 1]
    BY <1>1, <2>0, JoinFacts
  <2>2. Threads' = Threads
    BY <2>1 DEF Threads
  <2>3. CASE UNCHANGED <<pc, names, result, pos>>
    BY <2>1, <2>2, <2>3 DEF Inv3, Own, Durable, DurableOf, Synced, PathAt, Alone
  <2>4. CASE pc' = [t \in Threads |-> "check"] /\ names' = [t \in Threads |-> <<>>]
    <3>1. \A t \in Threads : ToSet(names'[t]) = {} /\ pc'[t] = "check"
      BY <2>4 DEF ToSet
    <3> QED
      BY <2>2, <3>1 DEF Inv3, Own, Durable, DurableOf, Synced
  <2> QED
    BY <2>1, <2>3, <2>4
<1>2. CASE UNCHANGED vars
  <2>1. UNCHANGED <<par, pc, names, pos, fd, result, tree, dirty>> /\ Threads' = Threads
    BY <1>2 DEF vars, thread, disk, Threads
  <2> QED
    BY <2>1 DEF Inv3, Own, Durable, DurableOf, Synced, PathAt, Alone
<1> QED
  BY <1>1, <1>2, ThreadInv3, StepCases

-----------------------------------------------------------------------------
(* What is left, and what is counted. *)

\* thread u has made p and has still to remove it, or will not because it failed
Owed(u, p) ==
  /\ p \in ToSet(names[u])
  /\ \/ result[u] = "io" \/ pc[u] \notin {"unlink", "return", "ended"}
     \/ pc[u] = "unlink" /\ \E j \in pos[u]..Len(names[u]) : names[u][j] = p

Cleared == ~par.keep => \A p \in DOMAIN tree : \E u \in Threads : Owed(u, p)

Made == [t \in Threads |-> Len(names[t])]
Agrees(n) ==
  /\ Cardinality(DOMAIN tree) <= n
  /\ "names" \notin cause => Cardinality(DOMAIN tree) = n

Counted ==
  par.keep => /\ main = "iterate" => Agrees(written + SumOver(Made, Threads))
              /\ main = "done" /\ status = "ok" => Agrees(written)

Inv4 == Cleared /\ Counted

\* a file that thread t still has to remove stays so as long as t does not return
LEMMA StaysOwed ==
  ASSUME NEW t \in Threads, NEW q, q \in ToSet(names'[t]), names'[t] \in Seq(Path),
         pc'[t] \notin {"return", "ended"}, pc'[t] = "unlink" => pos'[t] = 1
  PROVE  Owed(t, q)'
<1>1. CASE pc'[t] = "unlink"
  <2>1. PICK j \in 1..Len(names'[t]) : q = names'[t][j]
    BY ToSetFacts
  <2> QED
    BY <1>1, <2>1 DEF Owed
<1>2. CASE pc'[t] # "unlink"
  BY <1>2 DEF Owed
<1> QED
  BY <1>1, <1>2

\* no step of thread t but its own unlink settles what it owes
LEMMA OwedStays ==
  ASSUME Inv1, ~par.keep, NEW t \in Threads, RunThread(t) \/ Fault(t), ~Create(t),
         NEW q \in DOMAIN tree', Owed(t, q)
  PROVE  Owed(t, q)'
<1>0. Types /\ Shrinks(t) /\ main = "iterate" /\ names' = names /\ q \in ToSet(names[t])
  BY ShrinkFacts, ThreadLocal DEF Inv1, Shrinks, Owed
<1>1. /\ Control(t) /\ names[t] \in Seq(Path) /\ Len(names[t]) \in Nat
      /\ pos[t] \in Nat \ {0}
  BY <1>0, TypeFacts
<1>2. ASSUME pc'[t] \notin {"return", "ended"}, pc'[t] = "unlink" => pos'[t] = 1
      PROVE  Owed(t, q)'
  BY <1>0, <1>1, <1>2, StaysOwed
<1>3. ASSUME Return(t, "io") PROVE Owed(t, q)'
  <2>1. result'[t] = "io"
    BY <1>0, <1>3, ReturnFacts
  <2> QED
    BY <1>0, <2>1 DEF Owed
<1>4. ASSUME NextFile(t), pos' = pos, pos[t] = 1 PROVE Owed(t, q)'
  <2>1. pc'[t] = IF Len(names[t]) < par.files THEN "create" ELSE StageAfter(0)
    BY <1>0, <1>4, NextFileFacts
  <2>2. StageAfter(0) \in Behind /\ StageAfter(0) # "return"
    BY NextStage
  <2> QED
    BY <1>2, <1>4, <2>1, <2>2, BehindFacts
<1>5. ASSUME NEW stage \in {"sync", "inorder", "reverse", "first"}, pc'[t] = After(stage), pos'[t] = 1
      PROVE  Owed(t, q)'
  <2>1. After(stage) \in Behind /\ After(stage) # "return"
    BY NextStageAfter
  <2> QED
    BY <1>2, <1>5, <2>1, BehindFacts
<1>6. CASE Check(t)
  <2>1. names[t] = <<>>
    BY <1>1, <1>6 DEF Check, Runs, Control
  <2> QED
    BY <1>0, <2>1 DEF ToSet
<1>7. CASE Write(t)
  <2>1. pos' = pos /\ pos[t] = 1
    BY <1>1, <1>7 DEF Write, Runs, Control, Loops
  <2>2. Goto(t, "fsync") => pc'[t] = "fsync"
    BY <1>0, GotoFacts DEF Working
  <2> QED
    BY <1>2, <1>3, <1>4, <1>7, <2>1, <2>2 DEF Write
<1>8. CASE Fsync(t)
  <2>1. pos' = pos /\ pos[t] = 1
    BY <1>1, <1>8 DEF Fsync, Runs, Control, Loops
  <2> QED
    BY <1>4, <1>8, <2>1 DEF Fsync
<1>a. ASSUME NEW stage \in {"sync", "inorder", "reverse", "first"}, Goto(t, After(stage))
      PROVE  pc'[t] = After(stage)
  BY <1>0, <1>a, GotoFacts, NextStageAfter
<1>9. CASE Sync(t)
  <2>1. pos'[t] = 1
    BY <1>1, <1>9 DEF Sync, Runs, Control, Loops
  <2> QED
    BY <1>5, <1>9, <1>a, <2>1 DEF Sync
<1>10. ASSUME NEW stage \in {"inorder", "reverse"}, PostFsync(t, stage)
       PROVE  Owed(t, q)'
  <2>1. pc[t] = stage /\ pos[t] <= Len(names[t]) /\ stage \in Loops
    BY <1>1, <1>10 DEF PostFsync, Runs, Control, Loops
  <2>2. CASE Return(t, "io")
    BY <1>3, <2>2
  <2>3. CASE Advance(t, stage)
    <3>1. \/ pc'[t] = stage
          \/ pos'[t] = 1 /\ pc'[t] = After(stage)
      BY <1>0, <2>1, <2>3, AdvanceFacts
    <3> QED
      BY <1>2, <1>5, <3>1
  <2> QED
    BY <1>10, <2>2, <2>3 DEF PostFsync
<1>11. CASE FirstFile(t)
  <2>1. pos'[t] = 1
    BY <1>1, <1>11 DEF FirstFile, Runs, Control, Loops
  <2> QED
    BY <1>3, <1>5, <1>11, <1>a, <2>1 DEF FirstFile
<1>12. CASE Unlink(t)
  <2>1. pc[t] = "unlink" /\ pos[t] <= Len(names[t]) /\ result[t] = "none"
    BY <1>1, <1>12 DEF Unlink, Runs, Control, Loops
  <2>2. CASE Return(t, "io")
    BY <1>3, <2>2
  <2>3. CASE /\ tree' = [r \in DOMAIN tree \ {names[t][pos[t]]} |-> tree[r]]
             /\ Advance(t, "unlink")
    <3>1. q # names[t][pos[t]]
      BY <2>3
    <3>2. PICK j \in pos[t]..Len(names[t]) : names[t][j] = q
      BY <2>1 DEF Owed
    <3>3. j \in pos[t]+1..Len(names[t]) /\ pos[t] # Len(names[t])
      BY <1>1, <3>1, <3>2
    <3>4. pos'[t] = pos[t] + 1 /\ pc'[t] = "unlink"
      BY <1>0, <2>1, <2>3, <3>3, AdvanceFacts DEF Loops
    <3> QED
      BY <1>0, <3>2, <3>3, <3>4 DEF Owed
  <2> QED
    BY <1>12, <2>2, <2>3 DEF Unlink
<1>13. CASE Row(t)
  BY <1>1, <1>13 DEF Row, Runs, Owed, Control
<1>14. CASE Fault(t)
  BY <1>3, <1>14 DEF Fault
<1> QED
  BY <1>6, <1>7, <1>8, <1>9, <1>10, <1>11, <1>12, <1>13, <1>14 DEF RunThread

LEMMA ThreadCleared ==
  ASSUME Inv1, Cleared, NEW t \in Threads, RunThread(t) \/ Fault(t)
  PROVE  Cleared'
<1>0. Types /\ Local(t) /\ main = "iterate" /\ par' = par /\ Threads' = Threads
  BY ThreadLocal DEF Inv1, Threads
<1>a. \A u \in Threads \ {t} : \A q : Owed(u, q) => Owed(u, q)'
  BY <1>0 DEF Local, Owed
<1>1. SUFFICES ASSUME ~par.keep, NEW q \in DOMAIN tree' PROVE \E u \in Threads : Owed(u, q)'
  BY <1>0 DEF Cleared
<1>2. CASE Create(t)
  <2>1. PICK p, i : Created(t, p, i)
    BY <1>0, <1>2, CreateFacts
  <2>2. Creation(t, p, i) /\ p \in Path
    BY <1>0, <2>1, CreatedFacts DEF Created
  <2>3. names'[t] = Append(names[t], p) /\ DOMAIN tree' = DOMAIN tree \cup {p}
        /\ names'[t] \in Seq(Path) /\ names[t] \in Seq(Path)
    BY <1>0, <2>2 DEF Creation, Types
  <2>4. ToSet(names'[t]) = ToSet(names[t]) \cup {p}
    BY <2>2, <2>3, ToSetFacts
  <2>5. pc'[t] = "write"
    BY <1>0, <1>2, GotoFacts DEF Create, Working
  <2>6. ASSUME q \in ToSet(names'[t]) PROVE Owed(t, q)'
    BY <2>3, <2>5, <2>6, StaysOwed
  <2>7. CASE q = p
    BY <2>4, <2>6, <2>7
  <2>8. CASE q \in DOMAIN tree
    <3>1. PICK u \in Threads : Owed(u, q)
      BY <1>1, <2>8 DEF Cleared
    <3>2. CASE u = t
      BY <2>4, <2>6, <3>1, <3>2 DEF Owed
    <3>3. CASE u # t
      BY <1>a, <3>1, <3>3
    <3> QED
      BY <3>2, <3>3
  <2> QED
    BY <2>3, <2>7, <2>8
<1>3. CASE ~Create(t)
  <2>1. q \in DOMAIN tree
    BY <1>0, <1>3, ShrinkFacts DEF Shrinks
  <2>2. PICK u \in Threads : Owed(u, q)
    BY <1>1, <2>1 DEF Cleared
  <2>3. CASE u = t
    BY <1>1, <1>3, <2>2, <2>3, OwedStays
  <2>4. CASE u # t
    BY <1>a, <2>2, <2>4
  <2> QED
    BY <2>3, <2>4
<1> QED
  BY <1>2, <1>3

\* one file more is made; one name more, unless it is taken
LEMMA CreateCounted ==
  ASSUME Inv1, Counted, NEW t \in Threads, Create(t)
  PROVE  Counted'
<1>0. Types /\ Local(t) /\ main = "iterate" /\ par' = par /\ Threads' = Threads
      /\ main' = main /\ written' = written /\ written \in Nat
  BY ThreadLocal DEF RunThread, Inv1, Threads, Local, report, Types
<1>1. PICK p, i : Created(t, p, i)
  BY <1>0, CreateFacts
<1>2. Creation(t, p, i)
  BY <1>0, <1>1, CreatedFacts
<1>3. /\ names \in [Threads -> Seq(Path)] /\ IsFiniteSet(DOMAIN tree)
      /\ IsFiniteSet(Threads)
  BY <1>0, ThreadsFinite DEF Types
<1>4. Made \in [Threads -> Nat]
  BY <1>3 DEF Made
<1>5. \A u \in Threads : Len(names'[u]) = IF u = t THEN Len(names[t]) + 1 ELSE Len(names[u])
  BY <1>0, <1>2 DEF Creation, Local
<1> DEFINE n == Made[t] + 1
           sum == SumOver(Made, Threads)
           sumP == SumOver(Made', Threads')
<1>6. n \in Int /\ Made \in [Threads -> Int]
  BY <1>4
<1>7. Made' = [Made EXCEPT ![t] = n]
  BY <1>0, <1>5 DEF Made
<1>8. sum \in Nat
  BY <1>3, <1>4, SumOfNaturals
<1>9. SumOver([Made EXCEPT ![t] = n], Threads) = sum + n - Made[t]
  <2> HIDE DEF n, sum
  <2> QED
    BY <1>3, <1>6, SumAfterUpdate DEF sum
<1>10. sumP = sum + 1
  <2>1. sumP = sum + n - Made[t]
    BY <1>0, <1>7, <1>9
  <2>2. Made[t] \in Nat
    BY <1>4
  <2> HIDE DEF sum, sumP
  <2> QED
    BY <1>8, <2>1, <2>2
<1> DEFINE c == Cardinality(DOMAIN tree)
           cP == Cardinality(DOMAIN tree')
<1>11. /\ c \in Nat /\ cP = IF p \in DOMAIN tree THEN c ELSE c + 1
  BY <1>2, <1>3, FS_CardinalityType, FS_AddElement DEF Creation
<1>12. /\ cause \subseteq cause'
       /\ p \in DOMAIN tree => "names" \in cause'
  BY <1>1 DEF Created
<1>13. par.keep => c <= written + sum /\ ("names" \notin cause => c = written + sum)
  BY <1>0 DEF Counted, Agrees
<1> HIDE DEF c, cP, sum, sumP, n
<1>14. ASSUME par.keep
       PROVE  cP <= written + sumP /\ ("names" \notin cause' => cP = written + sumP)
  BY <1>0, <1>8, <1>10, <1>11, <1>12, <1>13, <1>14
<1> QED
  BY <1>0, <1>14 DEF Counted, Agrees, cP, sumP

LEMMA ThreadCounted ==
  ASSUME Inv1, Counted, NEW t \in Threads, RunThread(t) \/ Fault(t)
  PROVE  Counted'
<1>0. Types /\ Local(t) /\ main = "iterate" /\ par' = par /\ Threads' = Threads
      /\ main' = main /\ written' = written
  BY ThreadLocal DEF Inv1, Threads, Local, report
<1>1. CASE Create(t)
  BY <1>1, CreateCounted
<1>2. CASE ~Create(t)
  <2>1. Shrinks(t) /\ Effect(t)
    BY <1>0, <1>2, ShrinkFacts, EffectFacts
  <2>2. par.keep => pc[t] # "unlink"
    <3>1. pc[t] = "unlink" => Applies("unlink")
      BY <1>0, BehindFacts DEF Inv1, Control
    <3>2. par.sync \in {0, 1, 2, 3, 4, 5, 6}
      BY <1>0 DEF Types, CommandLineType
    <3>3. "unlink" \notin SyncBits(par.sync)
      BY <3>2 DEF SyncBits
    <3> QED
      BY <3>1, <3>3 DEF Applies
  <2>3. par.keep => DOMAIN tree' = DOMAIN tree
    BY <2>1, <2>2 DEF Shrinks, Effect
  <2>4. Made' = Made /\ cause \subseteq cause'
    BY <1>0, <2>1 DEF Made, Shrinks
  <2> QED
    BY <1>0, <2>3, <2>4 DEF Counted, Agrees
<1> QED
  BY <1>1, <1>2

\* the rows account for all files that were made, if no thread has failed
LEMMA RowsCount ==
  ASSUME Inv1, main = "iterate", \A t \in Threads : pc[t] = "ended" /\ result[t] # "io"
  PROVE  SumOver(Made, Threads) = Cardinality(Rows) * par.files
<1>0. Types /\ IsFiniteSet(Threads) /\ par.files \in Nat
  BY ThreadsFinite DEF Inv1, Types, CommandLineType
<1>1. ASSUME NEW t \in Threads PROVE Len(names[t]) = IF t \in Rows THEN par.files ELSE 0
  <2>1. Control(t) /\ result[t] \in {"ok", "full"}
    BY <1>0 DEF Inv1, Control, Types
  <2> QED
    BY <2>1 DEF Control, Rows
<1>2. Made = Part(Threads, Rows, par.files)
  BY <1>1 DEF Made, Part
<1> QED
  BY <1>0, <1>2, RowsFacts, SumOverPart

LEMMA JoinInv4 ==
  ASSUME Inv1, Inv4, Join
  PROVE  Inv4'
<1>0. Types /\ IsFiniteSet(Threads)
  BY ThreadsFinite DEF Inv1, Types
<1>1. /\ main = "iterate" /\ (\A t \in Threads : pc[t] = "ended")
      /\ UNCHANGED <<par, subdir, fd, tree, data, dirty, faults, cause>>
      /\ status' = Status
      /\ \/ main' = "done" /\ UNCHANGED <<pc, names, result, pos>>
         \/ /\ main' = "iterate" /\ Status = "ok"
            /\ pc' = [t \in Threads |-> "check"] /\ names' = [t \in Threads |-> <<>>]
            /\ result' = [t \in Threads |-> "none"] /\ pos' = [t \in Threads |-> 1]
      /\ written' = written + Cardinality(Rows) * par.files
  BY JoinFacts
<1>2. Threads' = Threads
  BY <1>1 DEF Threads
<1>3. Cleared'
  <2>1. ASSUME ~par.keep PROVE main' = "done"
    <3>1. par.loops = 0 /\ ~par.fill /\ loops \in Nat
      BY <1>0, <2>1 DEF Types
    <3>2. CASE Rows = {}
      BY <3>2 DEF Join
    <3>3. CASE Rows # {}
      <4>1. loops' = loops + 1
        BY <3>3 DEF Join
      <4>2. ~(par.loops > loops')
        BY <3>1, <4>1
      <4> QED
        BY <3>1, <3>3, <4>2 DEF Join
    <3> QED
      BY <3>2, <3>3
  <2>2. ~par.keep => UNCHANGED <<pc, names, result, pos>>
    BY <1>1, <2>1
  <2> QED
    BY <1>1, <1>2, <2>2 DEF Inv4, Cleared, Owed
<1>4. ASSUME par.keep, Status = "ok" PROVE Agrees(written)'
  <2>1. \A t \in Threads : pc[t] = "ended" /\ result[t] # "io"
    BY <1>1, <1>4 DEF Status
  <2>2. SumOver(Made, Threads) = Cardinality(Rows) * par.files
    BY <1>1, <2>1, RowsCount
  <2>3. Agrees(written')
    BY <1>1, <1>4, <2>2 DEF Inv4, Counted
  <2> QED
    BY <1>1, <2>3 DEF Agrees
<1>5. CASE main' = "done"
  BY <1>1, <1>3, <1>4, <1>5 DEF Inv4, Counted
<1>6. CASE main' = "iterate" /\ Status = "ok" /\ names' = [t \in Threads |-> <<>>]
  <2>1. Made' \in [Threads -> Nat] /\ \A t \in Threads : Made'[t] = 0
    BY <1>2, <1>6 DEF Made
  <2>2. SumOver(Made', Threads) = 0
    BY <1>0, <2>1, SumOfNaturals
  <2>3. written' \in Nat
    BY JoinFacts
  <2>4. written' + SumOver(Made', Threads') = written'
    <3> DEFINE sum == SumOver(Made', Threads')
    <3>1. sum = 0
      BY <1>2, <2>2
    <3> HIDE DEF sum
    <3>2. \A n \in Nat : n + 0 = n
      OBVIOUS
    <3> QED
      BY <2>3, <3>1, <3>2, Zenon DEF sum
  <2>5. par.keep => Agrees(written + SumOver(Made, Threads))'
    BY <1>4, <1>6, <2>4 DEF Agrees
  <2> QED
    BY <1>1, <1>3, <1>6, <2>5 DEF Inv4, Counted
<1> QED
  BY <1>1, <1>5, <1>6

LEMMA InitInv4 == Init => Inv4
<1> SUFFICES ASSUME Init PROVE Inv4
  OBVIOUS
<1>1. Inv1 /\ DOMAIN tree = {} /\ written = 0 /\ names = [t \in Threads |-> <<>>]
      /\ main # "done"
  <2>1. main # "done"
    BY DEF Init
  <2> QED
    BY <2>1, InitInv1 DEF Init, Started
<1>2. IsFiniteSet(Threads)
  BY <1>1, ThreadsFinite DEF Inv1, Types
<1>3. Made \in [Threads -> Nat] /\ \A t \in Threads : Made[t] = 0
  BY <1>1 DEF Made
<1>4. SumOver(Made, Threads) = 0 /\ Cardinality(DOMAIN tree) = 0
  BY <1>1, <1>2, <1>3, SumOfNaturals, FS_EmptySet
<1> QED
  BY <1>1, <1>4 DEF Inv4, Cleared, Counted, Agrees

LEMMA NextInv4 == Inv1 /\ Inv4 /\ [Next]_vars => Inv4'
<1> SUFFICES ASSUME Inv1, Inv4, [Next]_vars PROVE Inv4'
  OBVIOUS
<1>1. CASE Join
  BY <1>1, JoinInv4
<1>2. CASE UNCHANGED vars
  <2>1. UNCHANGED <<par, pc, names, pos, result, tree, main, written, status, cause>>
        /\ Threads' = Threads
    BY <1>2 DEF vars, thread, disk, report, Threads
  <2>2. Made' = Made
    BY <2>1 DEF Made
  <2> QED
    BY <2>1, <2>2 DEF Inv4, Cleared, Owed, Counted, Agrees
<1>3. ASSUME NEW t \in Threads, RunThread(t) \/ Fault(t) PROVE Inv4'
  BY <1>3, ThreadCleared, ThreadCounted DEF Inv4
<1> QED
  BY <1>1, <1>2, <1>3, StepCases

-----------------------------------------------------------------------------
(* What a failure is due to. *)

\* the positions in names of the files that a thread has not yet removed
Live(t) ==
  IF pc[t] = "unlink" THEN pos[t]..Len(names[t])
  ELSE IF pc[t] \in {"return", "ended"} THEN {} ELSE 1..Len(names[t])

\* as long as no names have collided
Distinct ==
  "names" \notin cause =>
    \A t, u \in Threads : \A j \in Live(t), k \in Live(u) :
      /\ names[t][j] \in DOMAIN tree
      /\ names[t][j] = names[u][k] => t = u /\ j = k

\* as long as no space has been promised twice
Single ==
  "space" \notin cause =>
    \A t, u \in Threads : pc[t] \in Working /\ pc[u] \in Working => t = u

Room ==
  cause = {} =>
    \A t \in Threads : pc[t] \in Working =>
      Free >= par.files - Len(names[t]) + (IF pc[t] = "write" THEN 1 ELSE 0)

Blamed == (\E t \in Threads : result[t] = "io") \/ status = "failed" => cause # {}

Inv5 == Distinct /\ Single /\ Room /\ Blamed

\* the space that is taken
Used == data \cap (Named \cup Opened)

LEMMA UsedFinite ==
  ASSUME NEW U \in SUBSET Inodes
  PROVE  IsFiniteSet(U) /\ Cardinality(U) \in Nat
<1>1. IsFiniteSet(Inodes)
  BY FsmarkAssumption, FS_Interval DEF Inodes
<1> QED
  BY <1>1, FS_Subset, FS_CardinalityType

LEMMA FreeGrows ==
  ASSUME Types, Types', par' = par, Used' \subseteq Used
  PROVE  Free \in Int /\ Free' \in Int /\ Free' >= Free
<1> DEFINE a == Cardinality(Used)
           b == Cardinality(Used')
<1>0. Used \in SUBSET Inodes /\ Used' \in SUBSET Inodes /\ par.space \in Nat
  BY DEF Used, Types, CommandLineType
<1>1. IsFiniteSet(Used) /\ a \in Nat /\ Free = par.space - a
  BY <1>0, UsedFinite DEF Free, Used
<1>2. b \in Nat /\ Free' = par.space - b
  BY <1>0, UsedFinite DEF Free, Used
<1>3. b <= a
  BY <1>1, FS_Subset
<1> HIDE DEF a, b
<1> QED
  BY <1>0, <1>1, <1>2, <1>3

LEMMA FreeLess ==
  ASSUME Types, Types', par' = par, NEW i, Used' \subseteq Used \cup {i}
  PROVE  Free \in Int /\ Free' \in Int /\ Free' >= Free - 1
<1> DEFINE a == Cardinality(Used)
           b == Cardinality(Used')
           c == Cardinality(Used \cup {i})
<1>0. Used \in SUBSET Inodes /\ Used' \in SUBSET Inodes /\ par.space \in Nat
  BY DEF Used, Types, CommandLineType
<1>1. IsFiniteSet(Used) /\ a \in Nat /\ Free = par.space - a
  BY <1>0, UsedFinite DEF Free, Used
<1>2. b \in Nat /\ Free' = par.space - b
  BY <1>0, UsedFinite DEF Free, Used
<1>3. IsFiniteSet(Used \cup {i}) /\ (c = a \/ c = a + 1)
  BY <1>1, FS_AddElement
<1>4. b <= c
  BY <1>3, FS_Subset
<1> HIDE DEF a, b, c
<1> QED
  BY <1>0, <1>1, <1>2, <1>3, <1>4

\* a thread removes its files in turn, and answers for no file that it has removed
Settles(t) ==
  /\ Live(t)' \subseteq Live(t)
  /\ \A q \in DOMAIN tree : q \in DOMAIN tree' \/
       (q = names[t][pos[t]] /\ pos[t] \in Live(t) /\ pos[t] \notin Live(t)')

LEMMA AfterUnlink == After("unlink") = "return"
<1>1. After("unlink") = StageAfter(5)
  BY StageIndex, AfterFacts
<1>2. PICK j \in 5+1..6 : StageAfter(5) = Stages[j]
  BY StageAfterFacts
<1>3. j = 6
  OBVIOUS
<1> QED
  BY <1>1, <1>2, <1>3, StageIndex

LEMMA SettlesFacts ==
  ASSUME Inv1, NEW t \in Threads, RunThread(t) \/ Fault(t), ~Create(t)
  PROVE  Settles(t)
<1>0. Types /\ Shrinks(t) /\ Effect(t) /\ main = "iterate" /\ names' = names
  BY ShrinkFacts, EffectFacts, ThreadLocal DEF Inv1, Shrinks
<1>1. /\ Control(t) /\ Len(names[t]) \in Nat /\ pos[t] \in Nat \ {0}
      /\ pc[t] \in {"check", "ended"} \cup Working \cup Behind
  BY <1>0, TypeFacts DEF Types
<1>2. pos'[t] \in Nat \ {0}
  <2>1. Inv1' /\ Threads' = Threads
    BY <1>0, ThreadInv1, ThreadLocal DEF Threads
  <2> QED
    BY <2>1 DEF Inv1, Types
<1>3. pc[t] # "ended"
  BY DEF RunThread, Fault, Check, Write, Fsync, Sync, PostFsync, FirstFile, Unlink, Row, Create, Runs
<1>4. ASSUME pc'[t] = "ended", DOMAIN tree' = DOMAIN tree PROVE Settles(t)
  BY <1>4 DEF Settles, Live
<1>a. ASSUME NEW r \in {"ok", "io", "full"}, Return(t, r) PROVE pc'[t] = "ended"
  BY <1>0, <1>a, ReturnFacts
<1>5. CASE pc[t] \notin {"unlink", "return"}
  <2>1. DOMAIN tree \subseteq DOMAIN tree'
    BY <1>0, <1>5 DEF Effect
  <2>2. Live(t) = 1..Len(names[t])
    BY <1>3, <1>5 DEF Live
  <2>3. Live(t)' \subseteq 1..Len(names[t])
    BY <1>0, <1>1, <1>2 DEF Live
  <2> QED
    BY <2>1, <2>2, <2>3 DEF Settles
<1>6. CASE pc[t] = "return"
  <2>1. Row(t)
    BY <1>6 DEF RunThread, Fault, Check, Write, Fsync, Sync, PostFsync, FirstFile, Unlink, Create, Runs
  <2> QED
    BY <1>4, <1>a, <2>1 DEF Row, disk
<1>7. CASE pc[t] = "unlink"
  <2>1. Unlink(t) \/ Fault(t)
    BY <1>7 DEF RunThread, Check, Write, Fsync, Sync, PostFsync, FirstFile, Row, Create, Runs
  <2>2. CASE Fault(t)
    BY <1>4, <1>a, <2>2 DEF Fault, disk
  <2>3. CASE Return(t, "io") /\ tree' = tree
    BY <1>4, <1>a, <2>3
  <2>4. CASE /\ tree' = [q \in DOMAIN tree \ {names[t][pos[t]]} |-> tree[q]]
             /\ Advance(t, "unlink")
    <3>1. pos[t] <= Len(names[t])
      BY <1>1, <1>7 DEF Control, Loops
    <3>2. \/ pos'[t] = pos[t] + 1 /\ pc'[t] = "unlink"
          \/ pc'[t] = "return"
      BY <1>0, <1>7, <2>4, <3>1, AdvanceFacts, AfterUnlink DEF Loops
    <3>3. Live(t) = pos[t]..Len(names[t])
      BY <1>7 DEF Live
    <3>4. Live(t)' \subseteq pos[t]+1..Len(names[t])
      BY <1>0, <3>2 DEF Live
    <3>5. /\ pos[t] \in pos[t]..Len(names[t]) /\ pos[t] \notin pos[t]+1..Len(names[t])
          /\ pos[t]+1..Len(names[t]) \subseteq pos[t]..Len(names[t])
      BY <1>1, <3>1
    <3> QED
      BY <2>4, <3>3, <3>4, <3>5 DEF Settles
  <2> QED
    BY <2>1, <2>2, <2>3, <2>4 DEF Unlink
<1> QED
  BY <1>5, <1>6, <1>7

LEMMA CreateDistinct ==
  ASSUME Inv1, Distinct, NEW t \in Threads, Create(t)
  PROVE  Distinct'
<1>0. Types /\ Local(t) /\ main = "iterate" /\ Threads' = Threads /\ pc[t] = "create"
  BY ThreadLocal DEF RunThread, Inv1, Threads, Create, Runs
<1>1. PICK p, i : Created(t, p, i)
  BY <1>0, CreateFacts
<1>2. Creation(t, p, i) /\ Len(names[t]) \in Nat
  BY <1>0, <1>1, CreatedFacts, TypeFacts
<1>3. SUFFICES ASSUME "names" \notin cause', NEW a \in Threads, NEW b \in Threads,
                      NEW j \in Live(a)', NEW k \in Live(b)'
               PROVE  /\ names'[a][j] \in DOMAIN tree'
                      /\ names'[a][j] = names'[b][k] => a = b /\ j = k
  BY <1>0 DEF Distinct
<1>4. "names" \notin cause /\ p \notin DOMAIN tree /\ DOMAIN tree' = DOMAIN tree \cup {p}
  BY <1>1, <1>2, <1>3 DEF Created, Creation
<1> DEFINE New(c, l) == c = t /\ l = Len(names[t]) + 1 /\ names'[c][l] = p
           Old(c, l) == l \in Live(c) /\ names'[c][l] = names[c][l] /\ names[c][l] \in DOMAIN tree
<1>5. ASSUME NEW c \in Threads, NEW l \in Live(c)' PROVE New(c, l) \/ Old(c, l)
  <2>1. CASE c = t
    <3>1. pc'[t] = "write"
      BY <1>0, GotoFacts DEF Create, Working
    <3>2. l \in 1..Len(names[t])+1
      BY <1>2, <1>5, <2>1, <3>1 DEF Live, Creation
    <3>3. CASE l = Len(names[t]) + 1
      BY <1>2, <2>1, <3>3 DEF Creation
    <3>4. CASE l \in 1..Len(names[t])
      <4>1. l \in Live(t)
        BY <1>0, <3>4 DEF Live
      <4>2. names'[t][l] = names[t][l]
        BY <1>2, <3>4 DEF Creation
      <4>3. names[t][l] \in DOMAIN tree
        BY <1>4, <4>1 DEF Distinct
      <4> QED
        BY <2>1, <4>1, <4>2, <4>3
    <3> QED
      BY <1>2, <3>2, <3>3, <3>4
  <2>2. CASE c # t
    <3>1. names'[c] = names[c] /\ l \in Live(c)
      BY <1>0, <1>5, <2>2 DEF Local, Live
    <3>2. names[c][l] \in DOMAIN tree
      BY <1>4, <3>1 DEF Distinct
    <3> QED
      BY <3>1, <3>2
  <2> QED
    BY <2>1, <2>2
<1>6. (New(a, j) \/ Old(a, j)) /\ (New(b, k) \/ Old(b, k))
  BY <1>5
<1>7. Old(a, j) /\ Old(b, k) /\ names[a][j] = names[b][k] => a = b /\ j = k
  BY <1>4 DEF Distinct
<1> QED
  BY <1>4, <1>6, <1>7

LEMMA ThreadDistinct ==
  ASSUME Inv1, Distinct, NEW t \in Threads, RunThread(t) \/ Fault(t)
  PROVE  Distinct'
<1>1. CASE Create(t)
  BY <1>1, CreateDistinct
<1>2. CASE ~Create(t)
  <2>0. Types /\ Shrinks(t) /\ Settles(t) /\ Local(t) /\ Threads' = Threads
    BY <1>2, ShrinkFacts, SettlesFacts, ThreadLocal DEF Inv1, Threads
  <2>1. names' = names /\ cause \subseteq cause'
    BY <2>0 DEF Shrinks
  <2>2. ASSUME NEW c \in Threads PROVE Live(c)' \subseteq Live(c)
    <3>1. CASE c = t
      BY <2>0, <3>1 DEF Settles
    <3>2. CASE c # t
      BY <2>0, <3>2 DEF Local, Live
    <3> QED
      BY <3>1, <3>2
  <2>3. SUFFICES ASSUME "names" \notin cause', NEW a \in Threads, NEW b \in Threads,
                        NEW j \in Live(a)', NEW k \in Live(b)'
                 PROVE  /\ names[a][j] \in DOMAIN tree'
                        /\ names[a][j] = names[b][k] => a = b /\ j = k
    BY <2>0, <2>1 DEF Distinct
  <2>4. "names" \notin cause /\ j \in Live(a) /\ k \in Live(b)
    BY <2>1, <2>2, <2>3
  <2>5. /\ names[a][j] \in DOMAIN tree
        /\ names[a][j] = names[b][k] => a = b /\ j = k
    BY <2>4 DEF Distinct
  <2>6. ASSUME names[a][j] \notin DOMAIN tree' PROVE FALSE
    <3>1. /\ names[a][j] = names[t][pos[t]] /\ pos[t] \in Live(t)
          /\ pos[t] \notin Live(t)'
      BY <2>0, <2>5, <2>6 DEF Settles
    <3>2. a = t /\ j = pos[t]
      BY <2>4, <3>1 DEF Distinct
    <3> QED
      BY <2>3, <3>1, <3>2
  <2> QED
    BY <2>5, <2>6
<1> QED
  BY <1>1, <1>2

\* a thread works after a step if it did before, or has just checked the space
Proceeds(t) ==
  \/ pc'[t] \notin Working
  \/ pc[t] \in Working /\ (pc'[t] = "write" => Create(t))
  \/ pc'[t] = "create" /\ Check(t) /\ Free >= par.files

LEMMA ProceedsFacts ==
  ASSUME Inv1, NEW t \in Threads, RunThread(t) \/ Fault(t)
  PROVE  Proceeds(t)
<1>0. Types /\ main = "iterate"
  BY ThreadLocal DEF Inv1
<1>a. \A x \in Behind : x \notin Working
  BY DEF Behind, Working
<1>1. CASE Create(t)
  BY <1>1 DEF Proceeds, Create, Runs, Working
<1>2. CASE ~Create(t)
  <2>1. Effect(t)
    BY <1>2, EffectFacts
  <2>2. CASE pc[t] \in Working
    BY <2>1, <2>2 DEF Effect, Proceeds
  <2>3. CASE pc[t] \notin Working
    <3>1. ASSUME NEW r \in {"ok", "io", "full"}, Return(t, r) PROVE pc'[t] \notin Working
      BY <1>0, <3>1, ReturnFacts DEF Working
    <3>2. ASSUME NEW s \in Behind, Goto(t, s) PROVE pc'[t] \notin Working
      BY <1>0, <1>a, <3>2, GotoFacts
    <3>3. \A s \in {"sync", "inorder", "reverse", "first", "unlink"} : After(s) \in Behind
      BY NextStageAfter
    <3>4. ASSUME NEW s \in Loops, Advance(t, s) PROVE pc'[t] \notin Working
      BY <2>3, <3>2, <3>3, <3>4 DEF Advance, Loops
    <3>5. CASE Check(t)
      <4>1. Goto(t, "create") => pc'[t] = "create"
        BY <1>0, GotoFacts DEF Working
      <4> QED
        BY <3>1, <3>5, <4>1 DEF Check, Proceeds
    <3>6. CASE Sync(t)
      BY <3>2, <3>3, <3>6 DEF Sync, Proceeds
    <3>7. CASE PostFsync(t, "inorder") \/ PostFsync(t, "reverse")
      BY <3>1, <3>4, <3>7 DEF PostFsync, Proceeds, Loops
    <3>8. CASE FirstFile(t)
      BY <3>1, <3>2, <3>3, <3>8 DEF FirstFile, Proceeds
    <3>9. CASE Unlink(t)
      BY <3>1, <3>4, <3>9 DEF Unlink, Proceeds, Loops
    <3>10. CASE Row(t)
      BY <3>1, <3>10 DEF Row, Proceeds
    <3>11. CASE Fault(t)
      BY <3>1, <3>11 DEF Fault, Proceeds
    <3>12. ~Write(t) /\ ~Fsync(t)
      BY <2>3 DEF Write, Fsync, Runs, Working
    <3> QED
      BY <1>2, <3>5, <3>6, <3>7, <3>8, <3>9, <3>10, <3>11, <3>12 DEF RunThread
  <2> QED
    BY <2>2, <2>3
<1> QED
  BY <1>1, <1>2

\* causes are never forgotten
LEMMA CauseGrows ==
  ASSUME Types, NEW t \in Threads, RunThread(t) \/ Fault(t)
  PROVE  cause \subseteq cause'
<1>1. CASE Create(t)
  <2>1. PICK p, i : Created(t, p, i)
    BY <1>1, CreateFacts
  <2> QED
    BY <2>1 DEF Created
<1> QED
  BY <1>1, ShrinkFacts DEF Shrinks

LEMMA ThreadSingle ==
  ASSUME Inv1, Single, NEW t \in Threads, RunThread(t) \/ Fault(t)
  PROVE  Single'
<1>0. Types /\ Local(t) /\ Threads' = Threads /\ cause \subseteq cause' /\ Proceeds(t)
  BY ThreadLocal, CauseGrows, ProceedsFacts DEF Inv1, Threads
<1>1. SUFFICES ASSUME "space" \notin cause', NEW a \in Threads, NEW b \in Threads,
                      pc'[a] \in Working, pc'[b] \in Working
               PROVE  a = b
  BY <1>0 DEF Single
<1>2. \A c \in Threads \ {t} : pc'[c] = pc[c]
  BY <1>0 DEF Local
<1>3. CASE pc[t] \in Working \/ pc'[t] \notin Working
  <2>1. pc[a] \in Working /\ pc[b] \in Working
    BY <1>1, <1>2, <1>3
  <2> QED
    BY <1>0, <1>1, <2>1 DEF Single
<1>4. CASE pc'[t] = "create" /\ Check(t)
  <2>0. pc'[t] # "ended"
    BY <1>4
  <2>1. ~Return(t, "full")
    BY <1>0, <2>0, ReturnFacts
  <2>2. ~\E u \in Threads \ {t} : pc[u] \in {"create", "write", "fsync"}
    BY <1>1, <1>4, <2>1 DEF Check
  <2> QED
    BY <1>1, <1>2, <2>2 DEF Working
<1> QED
  BY <1>0, <1>3, <1>4 DEF Proceeds

\* a step takes a unit of space only by writing the file that is open, and
\* opening a file under a new name takes none
LEMMA ThreadUses ==
  ASSUME Inv1, NEW t \in Threads, RunThread(t) \/ Fault(t), cause' = {}
  PROVE  Used' \subseteq Used \/ (pc[t] = "write" /\ Used' \subseteq Used \cup {fd[t]})
<1>0. Types /\ Local(t) /\ Threads' = Threads /\ main = "iterate"
  BY ThreadLocal DEF Inv1, Threads
<1>1. CASE Create(t)
  <2>1. PICK p, i : Created(t, p, i)
    BY <1>0, <1>1, CreateFacts
  <2>2. Creation(t, p, i)
    BY <1>0, <2>1, CreatedFacts
  <2>3. p \notin DOMAIN tree
    BY <2>1 DEF Created
  <2>4. i \notin Named /\ i \notin Opened /\ data' = data \ {i}
    BY <2>1, <2>3 DEF Created, Unused
  <2>5. Named' \subseteq Named \cup {i}
    BY <2>2, <2>3 DEF Named, Creation
  <2>6. Opened' \subseteq Opened \cup {i}
    <3>1. \A u \in Threads : fd'[u] = i \/ fd'[u] = fd[u]
      BY <1>0, <2>2 DEF Creation, Local
    <3> QED
      BY <1>0, <3>1 DEF Opened
  <2> QED
    BY <2>4, <2>5, <2>6 DEF Used
<1>2. CASE ~Create(t)
  <2>1. Shrinks(t)
    BY <1>0, <1>2, ShrinkFacts
  <2>2. Named' \subseteq Named
    BY <2>1 DEF Shrinks, Named
  <2>3. Opened' \subseteq Opened
    BY <1>0, <2>1 DEF Shrinks, Opened
  <2>4. data' = data \/ (pc[t] = "write" /\ data' = data \cup {fd[t]})
    BY <1>2 DEF RunThread, Fault, Check, Write, Fsync, Sync, PostFsync, FirstFile, Unlink,
                Row, Runs, disk
  <2> QED
    BY <2>2, <2>3, <2>4 DEF Used
<1> QED
  BY <1>1, <1>2

LEMMA ThreadRoom ==
  ASSUME Inv1, Single, Room, NEW t \in Threads, RunThread(t) \/ Fault(t)
  PROVE  Room'
<1>0. Types /\ Local(t) /\ Threads' = Threads /\ cause \subseteq cause' /\ Proceeds(t)
      /\ main = "iterate" /\ par' = par /\ Types'
  BY ThreadLocal, ThreadInv1, CauseGrows, ProceedsFacts DEF Inv1, Threads
<1>1. SUFFICES ASSUME cause' = {}, NEW a \in Threads, pc'[a] \in Working
               PROVE  Free' >= par.files - Len(names'[a]) + (IF pc'[a] = "write" THEN 1 ELSE 0)
  BY <1>0 DEF Room
<1>2. cause = {}
  BY <1>0, <1>1
<1>3. par.files \in Nat /\ \A c \in Threads : Len(names[c]) \in Nat
  BY <1>0, TypeFacts
<1>4. \A c \in Threads : pc[c] \in Working =>
        Free >= par.files - Len(names[c]) + (IF pc[c] = "write" THEN 1 ELSE 0)
  BY <1>2 DEF Room
<1>5. CASE pc[t] = "write"
  <2>1. Free' >= Free - 1 /\ Free \in Int /\ Free' \in Int
    <3>1. Used' \subseteq Used \cup {fd[t]}
      BY <1>1, ThreadUses
    <3> QED
      BY <1>0, <3>1, FreeLess
  <2>2. a = t
    <3>1. \A c \in Threads \ {t} : pc'[c] = pc[c]
      BY <1>0 DEF Local
    <3>2. pc[t] \in Working
      BY <1>5 DEF Working
    <3> QED
      BY <1>1, <1>2, <3>1, <3>2 DEF Single
  <2>3. ~Create(t)
    BY <1>5 DEF Create, Runs
  <2>4. pc'[t] # "write" /\ names' = names
    BY <1>0, <1>1, <1>5, <2>2, <2>3, ShrinkFacts DEF Proceeds, Shrinks, Check, Runs, Working
  <2>5. Free >= par.files - Len(names[t]) + 1
    BY <1>4, <1>5 DEF Working
  <2> QED
    BY <1>3, <2>1, <2>2, <2>4, <2>5
<1>6. CASE pc[t] # "write"
  <2>1. Free' >= Free /\ Free \in Int /\ Free' \in Int
    <3>1. Used' \subseteq Used
      BY <1>1, <1>6, ThreadUses
    <3> QED
      BY <1>0, <3>1, FreeGrows
  <2>2. CASE a # t
    <3>1. pc'[a] = pc[a] /\ names'[a] = names[a]
      BY <1>0, <2>2 DEF Local
    <3>2. Free >= par.files - Len(names[a]) + (IF pc[a] = "write" THEN 1 ELSE 0)
      BY <1>1, <1>4, <3>1
    <3> QED
      BY <1>3, <2>1, <3>1, <3>2
  <2>3. CASE a = t /\ Create(t)
    <3>1. PICK p, i : Created(t, p, i)
      BY <1>0, <2>3, CreateFacts
    <3>2. Len(names'[t]) = Len(names[t]) + 1
      BY <1>0, <3>1, CreatedFacts DEF Creation
    <3>3. pc[t] = "create"
      BY <2>3 DEF Create, Runs
    <3>4. Free >= par.files - Len(names[t])
      <4>1. Free >= par.files - Len(names[t]) + 0
        BY <1>4, <3>3 DEF Working
      <4> QED
        BY <1>3, <2>1, <4>1
    <3> QED
      BY <1>3, <2>1, <2>3, <3>2, <3>4
  <2>4. CASE a = t /\ ~Create(t)
    <3>1. names' = names
      BY <1>0, <2>4, ShrinkFacts DEF Shrinks
    <3>2. CASE pc[t] \in Working
      <4>1. pc'[t] # "write"
        BY <1>0, <1>1, <2>4, <3>2 DEF Proceeds, Check, Runs, Working
      <4>2. Free >= par.files - Len(names[t]) + 0
        BY <1>4, <1>6, <3>2
      <4> QED
        BY <1>3, <2>1, <2>4, <3>1, <4>1, <4>2
    <3>3. CASE pc[t] \notin Working
      <4>1. pc'[t] = "create" /\ Free >= par.files
        BY <1>0, <1>1, <2>4, <3>3 DEF Proceeds
      <4> QED
        BY <1>3, <2>1, <2>4, <3>1, <4>1
    <3> QED
      BY <3>2, <3>3
  <2> QED
    BY <2>2, <2>3, <2>4
<1> QED
  BY <1>5, <1>6

\* a call fails by itself only when names have collided or space has run out
LEMMA ThreadBlamed ==
  ASSUME Inv1, Inv5, NEW t \in Threads, RunThread(t) \/ Fault(t)
  PROVE  Blamed'
<1>0. Types /\ Local(t) /\ Threads' = Threads /\ cause \subseteq cause'
      /\ main = "iterate" /\ status' = status
  BY ThreadLocal, CauseGrows DEF Inv1, Threads, Local, report
<1>1. /\ Control(t) /\ names[t] \in Seq(Path) /\ Len(names[t]) \in Nat
      /\ pos[t] \in Nat \ {0} /\ par.files \in Nat \ {0}
  BY <1>0, TypeFacts
<1>2. SUFFICES ASSUME cause' = {} PROVE result'[t] # "io"
  <2>1. \A u \in Threads \ {t} : result'[u] = result[u]
    BY <1>0 DEF Local
  <2> QED
    BY <1>0, <1>2, <2>1 DEF Inv5, Blamed
<1>3. cause = {}
  BY <1>0, <1>2
<1>4. ASSUME NEW j \in Live(t) PROVE Exists(names[t][j])
  BY <1>3 DEF Inv5, Distinct, Exists
<1>5. result[t] # "io"
  BY <1>3 DEF Inv5, Blamed
<1>6. ASSUME NEW r \in {"ok", "full"}, Return(t, r) PROVE result'[t] # "io"
  BY <1>0, <1>6, ReturnFacts
<1>7. ASSUME result' = result PROVE result'[t] # "io"
  BY <1>5, <1>7
<1>8. CASE Check(t)
  BY <1>6, <1>7, <1>8 DEF Check
<1>9. CASE Create(t)
  BY <1>7, <1>9 DEF Create
<1>10. CASE Write(t)
  <2>1. pc[t] = "write"
    BY <1>10 DEF Write, Runs
  <2>2. Free >= par.files - Len(names[t]) + 1 /\ Len(names[t]) <= par.files
    BY <1>1, <1>3, <2>1 DEF Inv5, Room, Working, Control
  <2>3. Free # 0
    <3> DEFINE F == Free
               L == Len(names[t])
    <3>1. F >= par.files - L + 1 /\ L <= par.files /\ L \in Nat
      BY <1>1, <2>2
    <3> HIDE DEF F, L
    <3>2. F # 0
      BY <1>1, <3>1
    <3> QED
      BY <3>2 DEF F
  <2> QED
    BY <1>7, <1>10, <2>3 DEF Write, NextFile
<1>11. CASE Fsync(t)
  BY <1>7, <1>11 DEF Fsync, NextFile
<1>12. CASE Sync(t)
  BY <1>7, <1>12 DEF Sync
<1>13. ASSUME NEW stage \in {"inorder", "reverse"}, PostFsync(t, stage)
       PROVE  result'[t] # "io"
  <2>1. pc[t] = stage /\ pos[t] <= Len(names[t])
    BY <1>1, <1>13 DEF PostFsync, Runs, Control, Loops
  <2>2. Live(t) = 1..Len(names[t])
    BY <2>1 DEF Live
  <2>3. (IF stage = "inorder" THEN pos[t] ELSE Len(names[t]) + 1 - pos[t]) \in Live(t)
    BY <1>1, <2>1, <2>2
  <2>4. Exists(PostPath(t, stage))
    BY <1>4, <2>3 DEF PostPath
  <2> QED
    BY <1>7, <1>13, <2>4 DEF PostFsync, Advance
<1>14. CASE FirstFile(t)
  <2>1. pc[t] = "first" /\ Len(names[t]) = par.files
    BY <1>1, <1>14, BehindFacts DEF FirstFile, Runs, Control
  <2>2. 1 \in Live(t)
    BY <1>1, <2>1 DEF Live
  <2> QED
    BY <1>4, <1>7, <1>14, <2>2 DEF FirstFile
<1>15. CASE Unlink(t)
  <2>1. pc[t] = "unlink" /\ pos[t] <= Len(names[t])
    BY <1>1, <1>15 DEF Unlink, Runs, Control, Loops
  <2>2. pos[t] \in Live(t)
    BY <1>1, <2>1 DEF Live
  <2> QED
    BY <1>4, <1>7, <1>15, <2>2 DEF Unlink, Advance
<1>16. CASE Row(t)
  BY <1>6, <1>16 DEF Row
<1>17. CASE Fault(t)
  BY <1>2, <1>17 DEF Fault
<1> QED
  BY <1>8, <1>9, <1>10, <1>11, <1>12, <1>13, <1>14, <1>15, <1>16, <1>17 DEF RunThread

LEMMA InitInv5 == Init => Inv5
<1> SUFFICES ASSUME Init PROVE Inv5
  OBVIOUS
<1>1. /\ pc = [t \in Threads |-> "check"] /\ names = [t \in Threads |-> <<>>]
      /\ result = [t \in Threads |-> "none"] /\ status = "ok"
  BY DEF Init, Started
<1>2. \A t \in Threads : Live(t) = {} /\ pc[t] \notin Working
  BY <1>1 DEF Live, Working
<1> QED
  BY <1>1, <1>2 DEF Inv5, Distinct, Single, Room, Blamed

LEMMA NextInv5 == Inv1 /\ Inv5 /\ [Next]_vars => Inv5'
<1> SUFFICES ASSUME Inv1, Inv5, [Next]_vars PROVE Inv5'
  OBVIOUS
<1>1. CASE Join
  <2>1. /\ main = "iterate" /\ (\A t \in Threads : pc[t] = "ended")
        /\ UNCHANGED <<par, subdir, fd, tree, data, dirty, faults, cause>>
        /\ status' = Status
        /\ \/ main' = "done" /\ UNCHANGED <<pc, names, result, pos>>
           \/ /\ main' = "iterate" /\ Status = "ok"
              /\ pc' = [t \in Threads |-> "check"] /\ names' = [t \in Threads |-> <<>>]
              /\ result' = [t \in Threads |-> "none"] /\ pos' = [t \in Threads |-> 1]
    BY <1>1, JoinFacts
  <2>2. Threads' = Threads
    BY <2>1 DEF Threads
  <2>3. \A t \in Threads : Live(t)' = {} /\ pc'[t] \notin Working
    <3>1. CASE pc' = pc
      BY <2>1, <3>1 DEF Live, Working
    <3>2. CASE pc' = [t \in Threads |-> "check"] /\ names' = [t \in Threads |-> <<>>]
      BY <3>2 DEF Live, Working
    <3> QED
      BY <2>1, <3>1, <3>2
  <2>4. Blamed'
    BY <2>1, <2>2 DEF Inv5, Blamed, Status
  <2> QED
    BY <2>2, <2>3, <2>4 DEF Inv5, Distinct, Single, Room
<1>2. CASE UNCHANGED vars
  <2>1. /\ UNCHANGED <<par, pc, names, pos, fd, result, tree, data, status, cause>>
        /\ Threads' = Threads
    BY <1>2 DEF vars, thread, disk, report, Threads
  <2>2. Free' = Free /\ \A t \in Threads : Live(t)' = Live(t)
    BY <2>1 DEF Free, Named, Opened, Live
  <2> QED
    BY <2>1, <2>2 DEF Inv5, Distinct, Single, Room, Blamed
<1>3. ASSUME NEW t \in Threads, RunThread(t) \/ Fault(t) PROVE Inv5'
  BY <1>3, ThreadDistinct, ThreadSingle, ThreadRoom, ThreadBlamed DEF Inv5
<1> QED
  BY <1>1, <1>2, <1>3, StepCases

-----------------------------------------------------------------------------
(* The theorems. *)

Inv == Inv1 /\ Inv2 /\ Inv3 /\ Inv4 /\ Inv5

\* All layers of the invariant hold in every reachable state of every run.
THEOREM FsmarkInvariance == Spec => []Inv
<1>1. Init => Inv
  BY InitInv1, InitInv2, InitInv3, InitInv4, InitInv5 DEF Inv
<1>2. Inv /\ [Next]_vars => Inv'
  BY NextInv1, NextInv2, NextInv3, NextInv4, NextInv5 DEF Inv
<1> QED
  BY <1>1, <1>2, PTL DEF Spec

\* A row is worth its sync method, for any number of threads and files: what a
\* thread that has returned one alone has written is durable, by whichever of the
\* methods 1 to 6 the files were synced (run_thread, post_fsync).
THEOREM RowsAreDurable == Spec => []RowIsDurable
<1>1. Inv => RowIsDurable
  <2>1. SUFFICES ASSUME Inv, NEW t \in Threads, result[t] = "ok", par.sync # 0,
                        NEW p \in ToSet(names[t]) \cap DOMAIN tree,
                        \A u \in Threads \ {t} : p \notin ToSet(names[u])
                 PROVE  tree[p] \notin dirty
    BY DEF RowIsDurable
  <2>2. Synced(t, p) /\ Alone(t, p)
    BY <2>1 DEF Synced, Alone
  <2> QED
    BY <2>1, <2>2 DEF Inv, Inv3, Durable, DurableOf
<1> QED
  BY <1>1, FsmarkInvariance, PTL

\* A run reported ok has removed every file it made, or kept exactly as many as it
\* counts, for any number of iterations (run: files_written, and the unlinks of
\* run_thread).
THEOREM OkMeansExact == Spec => []OkIsExact
<1>1. Inv => OkIsExact
  <2>1. SUFFICES ASSUME Inv, main = "done", status = "ok"
                 PROVE  IF par.keep THEN Agrees(written) ELSE DOMAIN tree = {}
    BY DEF OkIsExact, Agrees
  <2>2. CASE par.keep
    BY <2>1, <2>2 DEF Inv, Inv4, Counted
  <2>3. CASE ~par.keep
    <3>1. \A u \in Threads : pc[u] = "ended" /\ result[u] # "io"
      BY <2>1 DEF Inv, Inv1, Reporting
    <3>2. \A u \in Threads : \A p : ~Owed(u, p)
      BY <3>1 DEF Owed
    <3> QED
      BY <2>3, <3>2, <2>1 DEF Inv, Inv4, Cleared
  <2> QED
    BY <2>2, <2>3
<1> QED
  BY <1>1, FsmarkInvariance, PTL

\* A run fails only for a cause outside the thread that fails: a thread that has
\* passed the space check has room for all its files, and finds under their names
\* what it wrote, for any number of threads (run_thread: free_bytes).
THEOREM FailuresAreCaused == Spec => []FailureHasCause
<1>1. Inv => FailureHasCause
  BY DEF Inv, Inv5, Blamed, FailureHasCause
<1> QED
  BY <1>1, FsmarkInvariance, PTL
=============================================================================
