----------------------------- MODULE Smallfile ------------------------------
(***************************************************************************)
(* The smallfile suite (src/src/smallfile.rs): a run is a sequence of      *)
(* phases, one operation each; in a phase every thread prepares its        *)
(* directories, meets the others at a barrier, and applies the operation   *)
(* to its files one by one, until it has done all of them or the stonewall *)
(* flag tells it that another thread has.                                  *)
(*                                                                         *)
(* The file system is a set of directories and a set of names; file data   *)
(* is not represented.  A name is <<tree, thread, file number, suffix>>    *)
(* and lives in the directory of its file number.  A call that fails by a  *)
(* fault of the file system may have taken effect.                         *)
(*                                                                         *)
(* Names that Fsstress has too carry the name of the suite or are others,  *)
(* so that one module can extend both.                                     *)
(***************************************************************************)
EXTENDS Naturals, Sequences, FiniteSets

CONSTANTS
  T,            \* number of threads
  Iterations,   \* files per thread
  FilesPerDir,
  CheckEvery,   \* files_between_checks, 10 to 100 in the code
  MinFiles,     \* fewer files switch the stonewall off; 10 in the code
  Options,      \* the invocations considered: see OptionType
  Remains       \* the directories and names a run may find, from earlier ones

Tids == 0..T-1
FileNums == 1..Iterations
Trees == {"src", "dst"}
\* the two trees always differ, so nothing is renamed to .rnm
Suffixes(tree) == IF tree = "src" THEN {"", ".d"} ELSE {"", ".s"}
Ops == {"create", "read", "append", "overwrite", "truncate-overwrite", "rename",
        "delete", "delete-renamed", "cleanup", "stat", "chmod", "mkdir", "rmdir",
        "symlink", "readdir", "ls-l", "setxattr", "getxattr", "swift-put",
        "swift-get", "await-create"}

\* the phases when no --operation is given
DefaultPhases ==
  <<"cleanup", "create", "read", "append", "rename", "delete-renamed", "cleanup">>

\* plan: the operations; suite: no --operation was given; faults: which calls
\* can fail; the other fields are command line options and the platform
OptionType ==
  [plan : Seq(Ops), suite : BOOLEAN, shared : BOOLEAN, stonewall : BOOLEAN,
   finish : BOOLEAN, ctime : BOOLEAN, linux : BOOLEAN,
   faults : {"none", "files", "subdirs"}]

DirNum(n) == n \div FilesPerDir
\* subdir_file_nums, as directory numbers
SubdirNums == {DirNum(j) : j \in {m \in 0..Iterations + FilesPerDir - 1 :
                                    m % FilesPerDir = 0}}
Shared == T       \* owner of the directories that all threads use
Directories == Trees \X (0..T) \X SubdirNums
Names == UNION {{tree} \X Tids \X FileNums \X Suffixes(tree) : tree \in Trees}

ASSUME SmallfileAssumption ==
  /\ T \in Nat \ {0} /\ Iterations \in Nat \ {0} /\ FilesPerDir \in Nat \ {0}
  /\ CheckEvery \in Nat \ {0} /\ MinFiles \in Nat
  /\ Options \subseteq OptionType
  /\ \A o \in Options : o.suite => o.plan = DefaultPhases
  /\ Remains \subseteq (SUBSET Directories) \X (SUBSET Names)

VARIABLES
  opt,        \* the invocation
  ph,         \* the phase, or Len(opt.plan) + 1
  pc,         \* control state of each thread
  filenum, ended, files, status,   \* of each thread's Workload
  left,       \* directories a thread's clean_all_subdirs has still to visit
  fd, opened, \* swift-put: descriptor number, and whether it is open
  arrived,    \* threads that have reached the barrier
  flag,       \* stonewall_flag
  dirs, names, attrs,   \* the file system
  allOk,      \* all_ok of run
  processed   \* history: files each thread has processed in this phase

workload == <<filenum, ended, files, status>>
system == <<dirs, names, attrs>>
smallfileVars ==
  <<opt, ph, pc, filenum, ended, files, status, left, fd, opened, arrived, flag,
    dirs, names, attrs, allOk, processed>>

TypeOK ==
  /\ opt \in Options
  /\ ph \in 1..Len(opt.plan) + 1
  /\ pc \in [Tids -> {"pre", "wait", "next", "op", "close", "advise", "tidy",
                         "over", "done"}]
  /\ filenum \in [Tids -> 0..Iterations]
  /\ ended \in [Tids -> BOOLEAN]
  /\ files \in [Tids -> 0..Iterations]
  /\ status \in [Tids -> {"ok", "error"}]
  /\ left \in [Tids -> SUBSET Directories]
  /\ fd \in [Tids -> 0..T] /\ opened \in [Tids -> BOOLEAN]
  /\ arrived \subseteq Tids
  /\ flag \in BOOLEAN
  /\ dirs \subseteq Directories /\ names \subseteq Names
  /\ attrs \subseteq names \X {"user", "ctime"}
  /\ allOk \in BOOLEAN
  /\ processed \in [Tids -> 0..Iterations]

Op == opt.plan[ph]

\* run: the stonewall is off for few files and for the multi-phase suite;
\* cleanup overrides both options
Stonewall ==
  /\ opt.stonewall /\ Iterations >= MinFiles /\ ~opt.suite
  /\ Op # "cleanup"
FinishAll == opt.finish \/ Op = "cleanup"

\* Workload::new and the locals of run_phase
FreshThreads ==
  /\ pc' = [t \in Tids |-> "pre"]
  /\ filenum' = [t \in Tids |-> 0]
  /\ ended' = [t \in Tids |-> FALSE]
  /\ files' = [t \in Tids |-> 0]
  /\ status' = [t \in Tids |-> "ok"]
  /\ left' = [t \in Tids |-> {}]
  /\ fd' = [t \in Tids |-> 0]
  /\ opened' = [t \in Tids |-> FALSE]
  /\ arrived' = {}
  /\ flag' = FALSE
  /\ processed' = [t \in Tids |-> 0]

SmallfileInit ==
  /\ opt \in Options
  /\ ph = 1
  /\ pc = [t \in Tids |-> "pre"]
  /\ filenum = [t \in Tids |-> 0]
  /\ ended = [t \in Tids |-> FALSE]
  /\ files = [t \in Tids |-> 0]
  /\ status = [t \in Tids |-> "ok"]
  /\ left = [t \in Tids |-> {}]
  /\ fd = [t \in Tids |-> 0]
  /\ opened = [t \in Tids |-> FALSE]
  /\ arrived = {}
  /\ flag = FALSE
  /\ \E l \in Remains : dirs = l[1] /\ names = l[2]
  /\ attrs = {}
  /\ allOk = TRUE
  /\ processed = [t \in Tids |-> 0]

-----------------------------------------------------------------------------
(* Names and directories. *)

DirOf(name) ==
  <<name[1], IF opt.shared THEN Shared ELSE name[2], DirNum(name[3])>>
Subdirs(t) ==
  Trees \X {IF opt.shared THEN Shared ELSE t} \X SubdirNums
Src(t) == <<"src", t, filenum[t], "">>
Dst(t) == <<"dst", t, filenum[t], "">>
Suffixed(name, suffix) == <<name[1], name[2], name[3], suffix>>
CanAdd(name) == DirOf(name) \in dirs /\ name \notin names
\* thread 00 looks after the shared tree for everyone
LeavesDirsTo0(t) == opt.shared /\ t # 0

-----------------------------------------------------------------------------
(* A phase: setup, barrier, and the loop over the files. *)

Goto(t, step) == pc' = [pc EXCEPT ![t] = step]

Arrive(t) ==
  /\ arrived' = arrived \cup {t}
  /\ Goto(t, "wait")

\* mutant: a thread with no directories of its own returns early
SetupReturning(t) ==
  /\ pc[t] = "pre"
  /\ IF LeavesDirsTo0(t)
       THEN Goto(t, "done") /\ UNCHANGED <<dirs, arrived>>
       ELSE Arrive(t) /\ dirs' = dirs \cup Subdirs(t)
  /\ UNCHANGED <<opt, ph, workload, left, fd, opened, flag, names, attrs, allOk,
                 processed>>

\* make_all_subdirs for the operations that need directories; a failure ends
\* the thread before it has reached the barrier
Setup(t) ==
  /\ pc[t] = "pre"
  /\ \/ /\ Op \notin {"create", "mkdir", "swift-put"} \/ LeavesDirsTo0(t)
        /\ Arrive(t)
        /\ UNCHANGED <<dirs, status>>
     \/ /\ Op \in {"create", "mkdir", "swift-put"} /\ ~LeavesDirsTo0(t)
        /\ Arrive(t)
        /\ dirs' = dirs \cup Subdirs(t)
        /\ UNCHANGED status
     \/ /\ Op \in {"create", "mkdir", "swift-put"} /\ ~LeavesDirsTo0(t)
        /\ opt.faults = "subdirs"
        /\ \E made \in SUBSET Subdirs(t) : dirs' = dirs \cup made
        /\ status' = [status EXCEPT ![t] = "error"]
        /\ Goto(t, "done")
        /\ UNCHANGED arrived
  /\ UNCHANGED <<opt, ph, filenum, ended, files, left, fd, opened, flag, names,
                 attrs, allOk, processed>>

\* mutant: no barrier
StartAtOnce(t) ==
  /\ pc[t] = "wait"
  /\ Goto(t, "next")
  /\ UNCHANGED <<opt, ph, workload, left, fd, opened, arrived, flag, system,
                 allOk, processed>>

PassBarrier(t) ==
  /\ pc[t] = "wait"
  /\ arrived = Tids
  /\ Goto(t, "next")
  /\ UNCHANGED <<opt, ph, workload, left, fd, opened, arrived, flag, system,
                 allOk, processed>>

\* mutant: any thread that ends, ends the measurement of all
EndTestAlways(t) ==
  IF ended[t]
    THEN UNCHANGED <<ended, files, flag>>
    ELSE /\ files' = [files EXCEPT ![t] = filenum[t]]
         /\ flag' = TRUE
         /\ ended' = [ended EXCEPT ![t] = TRUE]

\* end_test: the figures are frozen the first time; a thread that has gone
\* through all its files raises the flag
EndTest(t) ==
  IF ended[t]
    THEN UNCHANGED <<ended, files, flag>>
    ELSE /\ files' = [files EXCEPT ![t] = filenum[t]]
         /\ flag' = (flag \/ filenum[t] >= Iterations)
         /\ ended' = [ended EXCEPT ![t] = TRUE]

SeesStonewall(t) == Stonewall /\ (filenum[t] + 1) % CheckEvery = 0 /\ flag

\* the loop ends; cleanup goes on to clean_all_subdirs
LeaveLoop(t) ==
  IF Op = "cleanup"
    THEN /\ left' = [left EXCEPT ![t] = IF LeavesDirsTo0(t) THEN {}
                                                            ELSE Subdirs(t)]
         /\ Goto(t, "tidy")
    ELSE /\ Goto(t, "over")
         /\ UNCHANGED left

\* do_another_file; its test of self.status is never true, because a failed
\* operation does not come back to the loop
DoAnotherFile(t) ==
  /\ pc[t] = "next"
  /\ IF SeesStonewall(t) \/ filenum[t] >= Iterations
       THEN EndTest(t)
       ELSE UNCHANGED <<ended, files, flag>>
  /\ IF (~FinishAll /\ ended'[t]) \/ filenum[t] >= Iterations
       THEN LeaveLoop(t) /\ UNCHANGED filenum
       ELSE /\ filenum' = [filenum EXCEPT ![t] = @ + 1]
            /\ Goto(t, "op")
            /\ UNCHANGED left
  /\ UNCHANGED <<opt, ph, status, fd, opened, arrived, system, allOk, processed>>

\* one directory of clean_all_subdirs: removed if it is empty, else left; an
\* unexpected error ends the thread
CleanSubdir(t) ==
  /\ pc[t] = "tidy"
  /\ \E d \in left[t] :
       \/ /\ left' = [left EXCEPT ![t] = @ \ {d}]
          /\ dirs' = IF \E x \in names : DirOf(x) = d THEN dirs ELSE dirs \ {d}
          /\ UNCHANGED <<pc, status>>
       \/ /\ opt.faults # "none"
          /\ status' = [status EXCEPT ![t] = "error"]
          /\ Goto(t, "over")
          /\ UNCHANGED <<left, dirs>>
  /\ UNCHANGED <<opt, ph, filenum, ended, files, fd, opened, arrived, flag, names,
                 attrs, allOk, processed>>

CleanedSubdirs(t) ==
  /\ pc[t] = "tidy"
  /\ left[t] = {}
  /\ Goto(t, "over")
  /\ UNCHANGED <<opt, ph, workload, left, fd, opened, arrived, flag, system,
                 allOk, processed>>

\* the rest of the thread, after run_op
FinishThread(t) ==
  /\ pc[t] = "over"
  /\ EndTest(t)
  /\ Goto(t, "done")
  /\ UNCHANGED <<opt, ph, filenum, status, left, fd, opened, arrived, system,
                 allOk, processed>>

-----------------------------------------------------------------------------
(* The operations, on one file. *)

Succeed(t) ==
  /\ processed' = [processed EXCEPT ![t] = @ + 1]
  /\ Goto(t, "next")
  /\ UNCHANGED status

Fail(t) ==
  /\ status' = [status EXCEPT ![t] = "error"]
  /\ Goto(t, "over")
  /\ UNCHANGED processed

\* the operation succeeds if it can, and fails if it cannot or by a fault
Apply(t, can, newNames, newAttrs) ==
  /\ \/ /\ can
        /\ names' = newNames
        /\ attrs' = {a \in newAttrs : a[1] \in newNames}
        /\ Succeed(t)
     \/ /\ ~can \/ opt.faults # "none"
        /\ names' \in IF can THEN {names, newNames} ELSE {names}
        /\ attrs' = {a \in attrs : a[1] \in names'}
        /\ Fail(t)
  /\ UNCHANGED <<opt, ph, filenum, ended, files, left, fd, opened, arrived, flag,
                 dirs, allOk>>

At(t, ops) == pc[t] = "op" /\ Op \in ops

Stamp(name) == IF opt.ctime THEN {<<name, "ctime">>} ELSE {}

\* O_CREAT|O_EXCL
DoCreate(t) ==
  /\ At(t, {"create"})
  /\ Apply(t, CanAdd(Src(t)), names \cup {Src(t)}, attrs \cup Stamp(Src(t)))

DoWrite(t) ==
  /\ At(t, {"append", "overwrite", "truncate-overwrite"})
  /\ Apply(t, Src(t) \in names, names, attrs \cup Stamp(Src(t)))

DoRead(t) ==
  /\ At(t, {"read"})
  /\ Apply(t, Src(t) \in names, names, attrs)

\* no later operation looks at the attributes of a renamed file
DoRename(t) ==
  /\ At(t, {"rename"})
  /\ Apply(t, Src(t) \in names /\ DirOf(Dst(t)) \in dirs,
           (names \ {Src(t)}) \cup {Dst(t)}, attrs)

DoSimple(t) ==
  /\ At(t, {"delete", "stat", "chmod", "mkdir", "rmdir"})
  /\ LET dotD == Suffixed(Src(t), ".d") IN
     \/ Op = "delete" /\ Apply(t, Src(t) \in names, names \ {Src(t)}, attrs)
     \/ Op \in {"stat", "chmod"} /\ Apply(t, Src(t) \in names, names, attrs)
     \/ Op = "mkdir" /\ Apply(t, CanAdd(dotD), names \cup {dotD}, attrs)
     \/ Op = "rmdir" /\ Apply(t, dotD \in names, names \ {dotD}, attrs)

DoDeleteRenamed(t) ==
  /\ At(t, {"delete-renamed"})
  /\ Apply(t, Dst(t) \in names, names \ {Dst(t)}, attrs)

DoSymlink(t) ==
  /\ At(t, {"symlink"})
  /\ LET link == Suffixed(Dst(t), ".s")
     IN  Apply(t, CanAdd(link), names \cup {link}, attrs)

\* the directory is listed when the thread comes to its first file; when it
\* comes to the next directory, it must have met every name of the last one
DoReaddir(t) ==
  /\ At(t, {"readdir", "ls-l"})
  /\ LET n == filenum[t]
         Listing(m) ==
           {x \in names : DirOf(x) = DirOf(<<"src", t, m, "">>)}
         MetIn(m) == {j \in 1..m : DirNum(j) = DirNum(m)}
         metAll == n > 1 /\ DirNum(n - 1) # DirNum(n) =>
                     Cardinality(Listing(n - 1)) = Cardinality(MetIn(n - 1))
     IN  Apply(t, metAll /\ Src(t) \in names, names, attrs)

DoCleanup(t) ==
  /\ At(t, {"cleanup"})
  /\ Apply(t, TRUE,
           names \ {Suffixed(Dst(t), ".s"), Src(t), Dst(t), Suffixed(Src(t), ".d")},
           attrs)

DoSetxattr(t) ==
  /\ At(t, {"setxattr"})
  /\ Apply(t, Src(t) \in names, names, attrs \cup {<<Src(t), "user">>})

DoGetxattr(t) ==
  /\ At(t, {"getxattr"})
  /\ Apply(t, <<Src(t), "user">> \in attrs, names, attrs)

DoSwiftGet(t) ==
  /\ At(t, {"swift-get"})
  /\ Apply(t, Src(t) \in names, names, attrs)

\* waits as long as it takes for the file and its xattr
DoAwaitCreate(t) ==
  /\ At(t, {"await-create"})
  /\ IF <<Src(t), "ctime">> \in attrs
       THEN Apply(t, TRUE, names, attrs)
       ELSE UNCHANGED smallfileVars

\* swift-put opens the temporary file on the lowest free descriptor
SwiftPutOpen(t) ==
  /\ At(t, {"swift-put"})
  /\ DirOf(Src(t)) \in dirs
  /\ LET free == {n \in 1..T : \A u \in Tids : opened[u] => fd[u] # n}
     IN  fd' = [fd EXCEPT ![t] = CHOOSE n \in free : \A m \in free : n <= m]
  /\ opened' = [opened EXCEPT ![t] = TRUE]
  /\ Goto(t, "close")
  /\ UNCHANGED <<opt, ph, workload, left, arrived, flag, system, allOk,
                 processed>>

\* the file is written and dropped, which closes the descriptor; after a fault
\* the temporary file is deleted
SwiftPutClose(t) ==
  /\ pc[t] = "close"
  /\ opened' = [opened EXCEPT ![t] = FALSE]
  /\ \/ Goto(t, "advise") /\ UNCHANGED <<status, processed>>
     \/ opt.faults # "none" /\ Fail(t)
  /\ UNCHANGED <<opt, ph, filenum, ended, files, left, fd, arrived, flag, system,
                 allOk>>

\* posix_fadvise on the closed number finds it in use by another thread, or
\* fails and leaves errno as it was, so that the status is any earlier errno;
\* then the rename
SwiftPutAdvise(t) ==
  /\ pc[t] = "advise"
  /\ IF ~opt.linux \/ \E u \in Tids : opened[u] /\ fd[u] = fd[t]
       THEN \/ /\ names' = names \cup {Src(t)}
               /\ attrs' = {a \in attrs : a[1] # Src(t)}
               /\ Succeed(t)
            \/ opt.faults # "none" /\ Fail(t) /\ UNCHANGED <<names, attrs>>
       ELSE /\ \E errno \in {"ok", "error"} :
                 status' = [status EXCEPT ![t] = errno]
            /\ Goto(t, "over")
            /\ UNCHANGED <<names, attrs, processed>>
  /\ UNCHANGED <<opt, ph, filenum, ended, files, left, fd, opened, arrived, flag,
                 dirs, allOk>>

Operation(t) ==
  \/ DoCreate(t) \/ DoWrite(t) \/ DoRead(t) \/ DoRename(t) \/ DoSimple(t)
  \/ DoDeleteRenamed(t) \/ DoSymlink(t) \/ DoReaddir(t) \/ DoCleanup(t)
  \/ DoSetxattr(t) \/ DoGetxattr(t) \/ DoSwiftGet(t) \/ DoAwaitCreate(t)
  \/ SwiftPutOpen(t) \/ SwiftPutClose(t) \/ SwiftPutAdvise(t)

-----------------------------------------------------------------------------
(* The phases of a run. *)

PhaseOver == \A t \in Tids : pc[t] = "done"
RunOver == ph > Len(opt.plan)

\* join the threads and go on, whatever the status of the phase
EndPhase ==
  /\ ~RunOver
  /\ PhaseOver
  /\ ph' = ph + 1
  /\ allOk' = (allOk /\ \A t \in Tids : status[t] = "ok")
  /\ FreshThreads
  /\ UNCHANGED <<opt, system>>

\* run_phase cannot make the base directories: run returns its error
AbortRun ==
  /\ ~RunOver
  /\ opt.faults = "subdirs"
  /\ \A t \in Tids : pc[t] = "pre"
  /\ ph' = Len(opt.plan) + 1
  /\ allOk' = FALSE
  /\ FreshThreads
  /\ UNCHANGED <<opt, system>>

LeftEarly(t) == pc[t] = "done" /\ t \notin arrived

\* the threads at the barrier wait for one that will not come
Hung ==
  /\ \E t \in Tids : LeftEarly(t)
  /\ ~PhaseOver
  /\ \A t \in Tids : pc[t] \in {"wait", "done"}
  /\ UNCHANGED smallfileVars

SmallfileFinished == RunOver /\ UNCHANGED smallfileVars

ThreadStep(t) ==
  /\ ~RunOver
  /\ \/ Setup(t) \/ PassBarrier(t) \/ DoAnotherFile(t) \/ Operation(t)
     \/ CleanSubdir(t) \/ CleanedSubdirs(t) \/ FinishThread(t)

SmallfileNext ==
  \/ \E t \in Tids : ThreadStep(t)
  \/ EndPhase
  \/ AbortRun
  \/ Hung
  \/ SmallfileFinished

SmallfileSpec == SmallfileInit /\ [][SmallfileNext]_smallfileVars

\* the operating system schedules every thread
SmallfileFairness ==
  /\ WF_smallfileVars(EndPhase)
  /\ \A t \in Tids : WF_smallfileVars(ThreadStep(t))

SmallfileFairSpec == SmallfileSpec /\ SmallfileFairness

-----------------------------------------------------------------------------
(* Properties. *)

\* on a file system without faults every phase of the default suite succeeds
\* in every interleaving, with private or shared directories and whatever an
\* earlier run has left behind, and the last phase leaves no name; with private
\* directories it leaves no directory either.
SuitePasses ==
  opt.suite /\ opt.faults = "none" =>
    /\ \A t \in Tids : status[t] = "ok"
    /\ RunOver =>
         names = {} /\ (~opt.shared => \A t \in Tids : dirs \cap Subdirs(t) = {})

\* operations that find what they need in what the ones before have left; each
\* is then applied to every file
AllOps ==
  <<"cleanup", "create", "overwrite", "stat", "chmod", "setxattr", "getxattr",
    "readdir", "ls-l", "symlink", "mkdir", "rmdir", "await-create", "swift-get",
    "delete", "swift-put">>
Alone ==
  /\ opt.plan = AllOps /\ opt.faults = "none" /\ ~opt.suite
  /\ ~opt.shared /\ opt.ctime /\ (opt.finish \/ ~opt.stonewall)

\* The default suite passes, and each operation succeeds on a file system without
\* faults when it is run after the ones it depends on (swift-put does not: it
\* uses a descriptor that it has closed).
OperationsPass ==
  /\ SuitePasses
  /\ ~RunOver /\ Alone /\ Op # "swift-put" =>
       \A t \in Tids : status[t] = "ok"

\* a thread that ended well reports the files it processed, and all of them
\* unless a stonewall stopped it
FilesReported ==
  \A t \in Tids :
    ~RunOver /\ pc[t] = "done" /\ status[t] = "ok" /\ Op # "swift-put" =>
      /\ FinishAll \/ files[t] = processed[t]
      /\ files[t] <= processed[t]
      /\ FinishAll \/ ~Stonewall => processed[t] = Iterations

\* The figures of a thread are those of its files, and a measurement is cut short
\* only because another thread has gone through all of its files: a thread that
\* fails earlier does not end the others.
CutByFinisher ==
  /\ FilesReported
  /\ \A t \in Tids :
       ~RunOver /\ pc[t] = "done" /\ status[t] = "ok" /\ files[t] < Iterations
         /\ Op # "swift-put" =>
           \E u \in Tids : u # t /\ ended[u] /\ filenum[u] = Iterations

\* A run comes to its end, unless it waits for files that somebody else should
\* create, or a thread could not make its directories: it returns before the
\* barrier, where the others then wait for ever.
RunEnds ==
  <>(RunOver \/ (\E t \in Tids : LeftEarly(t) /\ status[t] = "error")
             \/ (\E n \in DOMAIN opt.plan : opt.plan[n] = "await-create"))
=============================================================================
