------------------------------- MODULE Fsmark -------------------------------
(***************************************************************************)
(* fsmark (src/src/fsmark.rs): iterations in which every thread checks the *)
(* free space, creates its files one by one, syncs them by the method      *)
(* chosen, removes them unless they are kept, and returns a row.           *)
(*                                                                         *)
(* Times, rates and the text report are left out.  A path is a directory,  *)
(* a subdirectory and a stamp: the stamp stands for the seconds and the    *)
(* random letters of a name, so any two names may be equal.  A file takes  *)
(* one unit of space, and its data is dirty until it is synced.            *)
(***************************************************************************)
EXTENDS Integers, Sequences, FiniteSets, FiniteSetsExt, SequencesExt

CONSTANTS
  CommandLines,  \* the invocations considered: see CommandLineType
  Stamps,        \* stamps of file names, a set of positive numbers
  MaxThreads,    \* MAX_THREADS, of threads and of directories
  MaxFiles,      \* files that can exist at the same time
  MaxFaults      \* system calls that fail though nothing is in their way

Inodes == 1..MaxFiles
None == -1
NoFile == 0

\* space: the room on the file system, in files
CommandLineType ==
  [files : Nat, threads : Nat, dirs : Nat \ {0}, subdirs : Nat \cup {None},
   per : Nat \cup {None}, sync : 0..6, keep : BOOLEAN, fill : BOOLEAN,
   loops : Nat, space : Nat]

ASSUME FsmarkAssumption ==
  /\ CommandLines \subseteq CommandLineType
  /\ Stamps \subseteq Nat \ {0} /\ Stamps # {}
  /\ MaxThreads \in Nat /\ MaxFiles \in Nat /\ MaxFaults \in Nat

-----------------------------------------------------------------------------
(* resolve: the parameters of a command line. *)

Valid(c) ==
  /\ c.dirs <= MaxThreads
  /\ c.files > 0 /\ c.threads \in 1..MaxThreads
  /\ c.subdirs = None \/ c.subdirs >= 2
  /\ c.per = None \/ c.subdirs # None
  /\ c.dirs > c.threads \/ c.threads % c.dirs = 0

DirPolicy(c) ==
  IF c.subdirs = None THEN "NoSubdirs"
  ELSE IF c.per = None THEN "TimeHash" ELSE "RoundRobin"

Resolve(c) ==
  [c EXCEPT !.threads = IF c.dirs > c.threads THEN c.dirs ELSE c.threads,
            !.keep = c.keep \/ c.loops > 0 \/ c.fill]

\* sync_method_bits
SyncBits(method) ==
  CASE method = 0 -> {}
    [] method = 1 -> {"close"}
    [] method = 2 -> {"sync", "first"}
    [] method = 3 -> {"reverse"}
    [] method = 4 -> {"reverse", "sync"}
    [] method = 5 -> {"inorder"}
    [] method = 6 -> {"inorder", "sync"}

VARIABLES
  par,      \* Params
  pc,       \* control state of each thread
  names,    \* paths each thread has made in this iteration
  pos,      \* position in a loop over names
  subdir,   \* current_subdir and files_in_subdir
  fd,       \* the file a thread is writing
  result,   \* what a thread has returned
  tree,     \* paths to inodes
  data,     \* inodes that hold data
  dirty,    \* inodes whose data or size is not yet durable
  main,     \* control state of run
  loops,    \* loops_done
  written,  \* files_written
  status, full,
  faults,   \* calls that have failed
  cause     \* history: what a failure may be due to

thread == <<pc, names, pos, subdir, fd, result>>
disk == <<tree, data, dirty>>
report == <<loops, written, status, full>>
vars == <<par, thread, disk, main, report, faults, cause>>

Threads == 0..par.threads - 1

Started ==
  [pc |-> [t \in Threads |-> "check"],
   names |-> [t \in Threads |-> <<>>],
   result |-> [t \in Threads |-> "none"]]

Init ==
  /\ \E c \in CommandLines :
       /\ par = Resolve(c)
       /\ main = IF Valid(c) THEN "iterate" ELSE "rejected"
  /\ pc = Started.pc /\ names = Started.names /\ result = Started.result
  /\ pos = [t \in Threads |-> 1]
  /\ subdir = [t \in Threads |-> [current |-> 0, files |-> 0]]
  /\ fd = [t \in Threads |-> NoFile]
  /\ tree = <<>> /\ data = {} /\ dirty = {}
  /\ loops = 0 /\ written = 0 /\ status = "ok" /\ full = FALSE
  /\ faults = 0 /\ cause = {}

-----------------------------------------------------------------------------
(* The file system under test (external). *)

Exists(p) == p \in DOMAIN tree
Named == {tree[p] : p \in DOMAIN tree}
Opened == {fd[t] : t \in Threads} \ {NoFile}
Free == par.space - Cardinality(data \cap (Named \cup Opened))
Unused == Inodes \ (Named \cup Opened)
Fresh == Min(Unused)

-----------------------------------------------------------------------------
(* run_thread. *)

Runs(t, stage) == main = "iterate" /\ pc[t] = stage
Goto(t, stage) == pc' = [pc EXCEPT ![t] = stage]

\* the thread returns and closes what it has open
Return(t, r) ==
  /\ Goto(t, "ended")
  /\ result' = [result EXCEPT ![t] = r]
  /\ fd' = [fd EXCEPT ![t] = NoFile]

\* what is done once all files are written, in the order of the code
Stages == <<"sync", "inorder", "reverse", "first", "unlink", "return">>

Applies(stage) ==
  \/ stage \in SyncBits(par.sync)
  \/ stage = "unlink" /\ ~par.keep
  \/ stage = "return"

StageAfter(k) == Stages[Min({j \in k + 1..Len(Stages) : Applies(Stages[j])})]
After(stage) == StageAfter(CHOOSE k \in DOMAIN Stages : Stages[k] = stage)

\* mutant: there is room for one file
CheckOne(t) ==
  /\ Runs(t, "check")
  /\ \/ Free < 1 /\ Return(t, "full") /\ UNCHANGED <<subdir, cause>>
     \/ /\ Free >= 1
        /\ \E s \in 0..(IF par.subdirs = None THEN 0 ELSE par.subdirs - 1) :
             subdir' = [subdir EXCEPT ![t] = [current |-> s, files |-> 0]]
        /\ Goto(t, "create")
        /\ UNCHANGED <<result, fd, cause>>
  /\ UNCHANGED <<par, names, pos, disk, main, report, faults>>

\* the free space is compared with what this thread alone will write; that
\* others have been promised the same space is noted as the cause of what may come
Check(t) ==
  /\ Runs(t, "check")
  /\ \/ Free < par.files /\ Return(t, "full") /\ UNCHANGED <<subdir, cause>>
     \/ /\ Free >= par.files
        /\ \E s \in 0..(IF par.subdirs = None THEN 0 ELSE par.subdirs - 1) :
             subdir' = [subdir EXCEPT ![t] = [current |-> s, files |-> 0]]
        /\ Goto(t, "create")
        /\ cause' = IF \E u \in Threads \ {t} : pc[u] \in {"create", "write", "fsync"}
                    THEN cause \cup {"space"} ELSE cause
        /\ UNCHANGED <<result, fd>>
  /\ UNCHANGED <<par, names, pos, disk, main, report, faults>>

\* the subdirectory of the next file; by the clock it may change at any file,
\* also when the clock is set back, because the difference wraps
NextSubdirs(t) ==
  LET s == subdir[t]
      turn == s.files >= par.per
      next == (s.current + 1) % par.subdirs
  IN CASE DirPolicy(par) = "NoSubdirs" -> {s}
       [] DirPolicy(par) = "RoundRobin" ->
            {[current |-> IF turn THEN next ELSE s.current,
              files |-> IF turn THEN 1 ELSE s.files + 1]}
       [] DirPolicy(par) = "TimeHash" -> {s, [s EXCEPT !.current = next]}

\* names of a run that fills the disk are taken to be new ones; others may collide
StampsFor(t, s) ==
  LET taken(k) == Exists(<<t % par.dirs, s.current, k>>)
  IN IF par.fill THEN {k \in Inodes : ~taken(k) /\ \A j \in 1..k-1 : taken(j)} ELSE Stamps

\* setup_file_name and open, which truncates a file of that name
Create(t) ==
  /\ Runs(t, "create")
  /\ \E s \in NextSubdirs(t) : \E k \in StampsFor(t, s) :
       LET p == <<t % par.dirs, s.current, k>>
           i == IF Exists(p) THEN tree[p] ELSE Fresh
       IN /\ Exists(p) \/ Unused # {}   \* the bound MaxFiles
          /\ subdir' = [subdir EXCEPT ![t] = s]
          /\ names' = [names EXCEPT ![t] = Append(@, p)]
          /\ tree' = [q \in DOMAIN tree \cup {p} |-> IF q = p THEN i ELSE tree[q]]
          /\ fd' = [fd EXCEPT ![t] = i]
          /\ data' = data \ {i}
          /\ dirty' = dirty \cup {i}
          /\ cause' = IF Exists(p) THEN cause \cup {"names"} ELSE cause
  /\ Goto(t, "write")
  /\ UNCHANGED <<par, pos, result, main, report, faults>>

\* close, and the next file or the first stage behind the loop
NextFile(t) ==
  /\ fd' = [fd EXCEPT ![t] = NoFile]
  /\ Goto(t, IF Len(names[t]) < par.files THEN "create" ELSE StageAfter(0))
  /\ UNCHANGED result

\* write_file; with no space left it fails
Write(t) ==
  /\ Runs(t, "write")
  /\ \/ /\ fd[t] \in data \/ Free > 0
        /\ data' = data \cup {fd[t]}
        /\ dirty' = dirty \cup {fd[t]}
        /\ \/ "close" \in SyncBits(par.sync) /\ Goto(t, "fsync") /\ UNCHANGED <<fd, result>>
           \/ "close" \notin SyncBits(par.sync) /\ NextFile(t)
     \/ /\ fd[t] \notin data /\ Free = 0
        /\ Return(t, "io")
        /\ UNCHANGED <<data, dirty>>
  /\ UNCHANGED <<par, names, pos, subdir, tree, main, report, faults, cause>>

Fsync(t) ==
  /\ Runs(t, "fsync")
  /\ dirty' = dirty \ {fd[t]}
  /\ NextFile(t)
  /\ UNCHANGED <<par, names, pos, subdir, tree, data, main, report, faults, cause>>

\* sync(2): everything
Sync(t) ==
  /\ Runs(t, "sync")
  /\ dirty' = {}
  /\ Goto(t, After("sync"))
  /\ UNCHANGED <<par, names, pos, subdir, fd, result, tree, data, main, report, faults, cause>>

\* the position after this one, or the next stage
Advance(t, stage) ==
  /\ IF pos[t] < Len(names[t])
     THEN pos' = [pos EXCEPT ![t] = @ + 1] /\ UNCHANGED pc
     ELSE pos' = [pos EXCEPT ![t] = 1] /\ Goto(t, After(stage))
  /\ UNCHANGED <<fd, result>>

\* mutant: the reverse loop stops before the first file
PostPathShort(t, stage) ==
  names[t][IF stage = "inorder" THEN pos[t] ELSE Max({2, Len(names[t]) + 1 - pos[t]})]

PostPath(t, stage) ==
  names[t][IF stage = "inorder" THEN pos[t] ELSE Len(names[t]) + 1 - pos[t]]

\* post_fsync: open by name and fsync, in order or in reverse
PostFsync(t, stage) ==
  /\ Runs(t, stage)
  /\ \/ /\ Exists(PostPath(t, stage))
        /\ dirty' = dirty \ {tree[PostPath(t, stage)]}
        /\ Advance(t, stage)
     \/ /\ ~Exists(PostPath(t, stage))
        /\ Return(t, "io")
        /\ UNCHANGED <<dirty, pos>>
  /\ UNCHANGED <<par, names, subdir, tree, data, main, report, faults, cause>>

FirstFile(t) ==
  /\ Runs(t, "first")
  /\ \/ /\ Exists(names[t][1])
        /\ dirty' = dirty \ {tree[names[t][1]]}
        /\ Goto(t, After("first"))
        /\ UNCHANGED <<fd, result>>
     \/ ~Exists(names[t][1]) /\ Return(t, "io") /\ UNCHANGED dirty
  /\ UNCHANGED <<par, names, pos, subdir, tree, data, main, report, faults, cause>>

\* mutant: a file that is gone is as good as removed, one failure ends the loop
UnlinkLenient(t) ==
  /\ Runs(t, "unlink")
  /\ LET p == names[t][pos[t]]
     IN \/ /\ Exists(p)
           /\ tree' = [q \in DOMAIN tree \ {p} |-> tree[q]]
           /\ Advance(t, "unlink")
        \/ ~Exists(p) /\ Return(t, "ok") /\ UNCHANGED <<tree, pos>>
  /\ UNCHANGED <<par, names, subdir, data, dirty, main, report, faults, cause>>

\* remove_file in the order of creation; the first that is missing ends the thread
Unlink(t) ==
  /\ Runs(t, "unlink")
  /\ LET p == names[t][pos[t]]
     IN \/ /\ Exists(p)
           /\ tree' = [q \in DOMAIN tree \ {p} |-> tree[q]]
           /\ Advance(t, "unlink")
        \/ ~Exists(p) /\ Return(t, "io") /\ UNCHANGED <<tree, pos>>
  /\ UNCHANGED <<par, names, subdir, data, dirty, main, report, faults, cause>>

\* the row
Row(t) ==
  /\ Runs(t, "return")
  /\ Return(t, "ok")
  /\ UNCHANGED <<par, names, pos, subdir, disk, main, report, faults, cause>>

\* any call may fail (external)
Fault(t) ==
  /\ main = "iterate"
  /\ pc[t] \notin {"return", "ended"}
  /\ faults < MaxFaults
  /\ faults' = faults + 1
  /\ Return(t, "io")
  /\ cause' = cause \cup {"fault"}
  /\ UNCHANGED <<par, names, pos, subdir, disk, main, report>>

RunThread(t) ==
  \/ Check(t) \/ Create(t) \/ Write(t) \/ Fsync(t) \/ Sync(t)
  \/ PostFsync(t, "inorder") \/ PostFsync(t, "reverse")
  \/ FirstFile(t) \/ Unlink(t) \/ Row(t)

-----------------------------------------------------------------------------
(* run. *)

Rows == {t \in Threads : result[t] = "ok"}
IsFull == full \/ \E t \in Threads : result[t] = "full"
Status == IF \E t \in Threads : result[t] = "io" THEN "failed" ELSE status

\* mutant: an iteration without a row is tried again
JoinAgain ==
  /\ main = "iterate"
  /\ \A t \in Threads : pc[t] = "ended"
  /\ full' = IsFull /\ status' = Status
  /\ IF Rows = {}
     THEN UNCHANGED <<loops, written, main>>
     ELSE /\ written' = written + Cardinality(Rows) * par.files
          /\ loops' = loops + 1
          /\ main' = IF IsFull \/ Status = "failed" \/ ~(par.fill \/ par.loops > loops')
                     THEN "done" ELSE main
  /\ pc' = IF main' = "done" THEN pc ELSE Started.pc
  /\ names' = Started.names /\ result' = Started.result
  /\ pos' = [t \in Threads |-> 1]
  /\ UNCHANGED <<par, subdir, fd, disk, faults, cause>>

\* join the threads, add up their rows, and iterate until something ends the loop
Join ==
  /\ main = "iterate"
  /\ \A t \in Threads : pc[t] = "ended"
  /\ full' = IsFull /\ status' = Status
  /\ IF Rows = {}
     THEN main' = "done" /\ UNCHANGED <<loops, written>>
     ELSE /\ written' = written + Cardinality(Rows) * par.files
          /\ loops' = loops + 1
          /\ main' = IF IsFull \/ Status = "failed" \/ ~(par.fill \/ par.loops > loops')
                     THEN "done" ELSE main
  /\ \/ main' = "done" /\ UNCHANGED <<pc, names, result, pos>>
     \/ /\ main' # "done"
        /\ pc' = Started.pc /\ names' = Started.names /\ result' = Started.result
        /\ pos' = [t \in Threads |-> 1]
  /\ UNCHANGED <<par, subdir, fd, disk, faults, cause>>

Finished == main \in {"done", "rejected"} /\ UNCHANGED vars

Next == (\E t \in Threads : RunThread(t) \/ Fault(t)) \/ Join \/ Finished

\* every thread runs until it returns, and run joins them
Fairness ==
  /\ \A t \in 0..MaxThreads - 1 : WF_vars(t \in Threads /\ RunThread(t))
  /\ WF_vars(Join)

Spec == Init /\ [][Next]_vars /\ Fairness

-----------------------------------------------------------------------------
(* Properties. *)

\* A row is worth its sync method: when a thread has returned one (and -S is not
\* 0), no file that it alone has written is dirty, whatever the order in which
\* the method opens, syncs and closes the files and the other threads theirs.
RowIsDurable ==
  \A t \in Threads : result[t] = "ok" /\ par.sync # 0 =>
    \A p \in ToSet(names[t]) \cap DOMAIN tree :
      (\A u \in Threads \ {t} : p \notin ToSet(names[u])) => tree[p] \notin dirty

\* A run reported ok has left what it says: nothing unless files are kept, else
\* as many files as it has counted, or fewer when names have collided.
OkIsExact ==
  main = "done" /\ status = "ok" =>
    IF par.keep
    THEN /\ Cardinality(DOMAIN tree) <= written
         /\ "names" \notin cause => Cardinality(DOMAIN tree) = written
    ELSE DOMAIN tree = {}

\* A run fails only because a call failed, because names collided, or because
\* threads were promised the same space: by itself a thread that has passed the
\* space check has room for all its files.
FailureHasCause ==
  main = "done" /\ status = "failed" => cause # {}

\* Every run ends: -F by filling the disk, others after their iterations, and
\* all of them when no thread returns a row.
RunEnds == <>(main \in {"done", "rejected"})
=============================================================================
