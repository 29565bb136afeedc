------------------------------- MODULE Stdfs --------------------------------
(***************************************************************************)
(* The stdfs suite (src/src/stdfs.rs): the selected languages are run one  *)
(* after another and their statuses make the status of the run.            *)
(*                                                                         *)
(* The packages, modules and files of go, python and node are run by       *)
(* run_parallel and exec_with_timeout, which is Runner: here each gives    *)
(* one outcome.  The tests of rust are run by a program that run_rust      *)
(* generates and compiles: one thread for each test, waited for on a       *)
(* channel of its own for a limited time, detached when the time is over.  *)
(* That program is modelled step by step, inside the process that          *)
(* exec_with_timeout waits for.                                            *)
(*                                                                         *)
(* Names that Runner has too carry the name of the suite here, so that one *)
(* module can extend both.                                                 *)
(***************************************************************************)
EXTENDS Naturals, Sequences

CONSTANTS
  Orders,     \* values of --lang: sequences of languages
  Packages,   \* packages, modules or files of each of go, python and node
  Tests       \* number of rust tests that are not excluded or skipped

ASSUME StdfsAssumption ==
  /\ Tests \in Nat \ {0}
  /\ Orders \subseteq Seq({"go", "python", "node", "rust"}) \ {<<>>}

Languages == {"go", "python", "node", "rust"}
NoStatus == "missing"

\* what exec_with_timeout gives for an item: exit code 0, killed at the
\* deadline, and whether the parser of the language finds a failure
Outcomes ==
  {o \in [here : BOOLEAN, built : BOOLEAN, zero : BOOLEAN, late : BOOLEAN,
          fails : BOOLEAN] : o.late => ~o.zero}

Unavailable == [available |-> FALSE, status |-> NoStatus]
Available(s) == [available |-> TRUE, status |-> s]

VARIABLES
  order,      \* --lang
  pos,        \* the current language, as a position in order
  stage,      \* control state of run
  held,       \* run waits for a call on the mount, or for pipes held open
  languages,  \* the results so far, by language
  current,    \* rust: the test whose result the program waits for
  thread,     \* rust: the thread of each test
  due,        \* rust: the time of the current test is over
  lines,      \* rust: the RES line printed for each test
  proc,       \* rust: the process of the generated program
  code,       \* rust: its exit code is 0
  timedOut,   \* rust: exec_with_timeout has killed it: timed_out
  verdict,    \* status of the report
  trouble     \* history: languages whose last run met a failing test

program == <<current, thread, due, lines, proc, code, timedOut>>
stdfsVars == <<order, pos, stage, held, languages, program, verdict, trouble>>

StdfsTypeOK ==
  /\ order \in Orders /\ pos \in 1..Len(order) + 1
  /\ stage \in {"language", "rust", "look", "cleanup", "emit", "done"}
  /\ held \in BOOLEAN
  /\ languages \in [Languages -> [available : BOOLEAN,
                                  status : {NoStatus, "ok", "failed", "fail",
                                            "timedout"}]]
  /\ current \in 1..Tests + 1
  /\ thread \in [1..Tests -> {"none", "running", "wedged", "stuck", "passed",
                              "panicked"}]
  /\ lines \in [1..Tests -> {"none", "ok", "fail", "timedout", "skipped"}]
  /\ proc \in {"none", "alive", "ending", "dead"}
  /\ due \in BOOLEAN /\ code \in BOOLEAN /\ timedOut \in BOOLEAN
  /\ verdict \in {NoStatus, "ok", "failed"}
  /\ trouble \subseteq Languages

StdfsInit ==
  /\ order \in Orders
  /\ pos = 1
  /\ stage = "language"
  /\ held = FALSE
  /\ languages = [l \in Languages |-> Unavailable]
  /\ current = 1
  /\ thread = [t \in 1..Tests |-> "none"]
  /\ due = FALSE
  /\ lines = [t \in 1..Tests |-> "none"]
  /\ proc = "none" /\ code = FALSE /\ timedOut = FALSE
  /\ verdict = NoStatus
  /\ trouble = {}

-----------------------------------------------------------------------------
(* What run waits for without a bound: its own calls on the mount, and in  *)
(* exec_with_timeout a killed child that is stuck in the file system and   *)
(* the threads that read the pipes, which something that left the group of *)
(* the child may keep open.                                                *)

Waits ==
  \/ stage \in {"language", "look"}
  \/ stage = "rust" /\ proc = "dead"

Hold ==
  /\ Waits
  /\ ~held
  /\ held' = TRUE
  /\ UNCHANGED <<order, pos, stage, languages, program, verdict, trouble>>

LetGo ==
  /\ held
  /\ held' = FALSE
  /\ UNCHANGED <<order, pos, stage, languages, program, verdict, trouble>>

-----------------------------------------------------------------------------
(* go, python and node. *)

Clean(o) == o.zero /\ ~o.late /\ ~o.fails

GoStatus(o) ==
  IF ~o.built THEN "compile_error"
  ELSE IF o.late THEN "timedout"
  ELSE IF Clean(o) THEN "ok" ELSE "fail"

PythonStatus(o) ==
  IF ~o.here THEN "missing"
  ELSE IF o.late THEN "timedout"
  ELSE IF Clean(o) THEN "ok" ELSE "fail"

\* mutant: a file that printed no failure is ok, whatever its exit code
NodeStatusLenient(o) ==
  IF o.late THEN "timedout"
  ELSE IF ~o.fails THEN "ok" ELSE "fail"

NodeStatus(o) ==
  IF o.late THEN "timedout"
  ELSE IF Clean(o) THEN "ok" ELSE "fail"

ItemStatus(l, o) ==
  CASE l = "go" -> GoStatus(o)
    [] l = "python" -> PythonStatus(o)
    [] l = "node" -> NodeStatus(o)

\* python tolerates modules that this version does not have
LanguageStatus(l, outcome) ==
  IF \A i \in Packages : \/ ItemStatus(l, outcome[i]) = "ok"
                         \/ l = "python" /\ ItemStatus(l, outcome[i]) = "missing"
  THEN "ok" ELSE "failed"

\* an item of the language really failed
Failed(l, o) ==
  /\ l = "python" => o.here
  /\ (l = "go" /\ ~o.built) \/ ~Clean(o)

\* languages.insert, and on to the next one
Insert(v, bad) ==
  LET l == order[pos]
  IN /\ ~held
     /\ languages' = [languages EXCEPT ![l] = v]
     /\ trouble' = IF bad THEN trouble \cup {l} ELSE trouble \ {l}
     /\ pos' = pos + 1
     /\ stage' = IF pos < Len(order) THEN "language" ELSE "look"

\* the toolchain or its tests are not to be found
NotFound ==
  /\ stage = "language"
  /\ Insert(Unavailable, FALSE)
  /\ UNCHANGED <<order, held, program, verdict>>

\* run_go, run_python, run_node
RunItems ==
  /\ stage = "language"
  /\ order[pos] # "rust"
  /\ \E outcome \in [Packages -> Outcomes] :
       Insert(Available(LanguageStatus(order[pos], outcome)),
              \E i \in Packages : Failed(order[pos], outcome[i]))
  /\ UNCHANGED <<order, held, program, verdict>>

-----------------------------------------------------------------------------
(* rust: the generated program, and the process it runs in. *)

NotCompiled ==
  /\ stage = "language"
  /\ order[pos] = "rust"
  /\ Insert(Available("failed"), TRUE)
  /\ UNCHANGED <<order, held, program, verdict>>

StartProgram ==
  /\ stage = "language"
  /\ order[pos] = "rust"
  /\ ~held
  /\ stage' = "rust"
  /\ current' = 1
  /\ thread' = [t \in 1..Tests |-> "none"]
  /\ due' = FALSE
  /\ lines' = [t \in 1..Tests |-> "none"]
  /\ proc' = "alive" /\ code' = FALSE /\ timedOut' = FALSE
  /\ UNCHANGED <<order, pos, held, languages, verdict, trouble>>

Ended(t) == thread[t] \in {"passed", "panicked"}
InProgram == stage = "rust" /\ proc = "alive"

SkipTest ==
  /\ InProgram
  /\ current <= Tests /\ thread[current] = "none"
  /\ lines' = [lines EXCEPT ![current] = "skipped"]
  /\ current' = current + 1
  /\ UNCHANGED <<order, pos, stage, held, languages, thread, due, proc, code,
                 timedOut, verdict, trouble>>

LaunchTest ==
  /\ InProgram
  /\ current <= Tests /\ thread[current] = "none"
  /\ thread' = [thread EXCEPT ![current] = "running"]
  /\ due' = FALSE
  /\ UNCHANGED <<order, pos, stage, held, languages, current, lines, proc, code,
                 timedOut, verdict, trouble>>

\* the environment: a test ends, blocks in a way SIGKILL ends, or blocks in the
\* file system, and may go on later, also after it was detached
TestMoves(t) ==
  /\ stage = "rust"
  /\ \/ /\ thread[t] = "running" /\ proc = "alive"
        /\ \E s \in {"passed", "panicked", "wedged", "stuck"} :
             thread' = [thread EXCEPT ![t] = s]
     \/ /\ thread[t] \in {"wedged", "stuck"}
        /\ thread' = [thread EXCEPT ![t] = "running"]
  /\ UNCHANGED <<order, pos, stage, held, languages, current, due, lines, proc, code,
                 timedOut, verdict, trouble>>

TimeIsUp ==
  /\ InProgram
  /\ current <= Tests /\ thread[current] # "none" /\ ~due
  /\ due' = TRUE
  /\ UNCHANGED <<order, pos, stage, held, languages, current, thread, lines, proc,
                 code, timedOut, verdict, trouble>>

\* mutants: one channel for all tests; recv() without a limit
ReceiveShared ==
  /\ InProgram
  /\ current <= Tests /\ thread[current] # "none"
  /\ \E t \in 1..current :
       /\ Ended(t) \/ due
       /\ lines' = [lines EXCEPT ![current] =
                    IF thread[t] = "passed" THEN "ok"
                    ELSE IF thread[t] = "panicked" THEN "fail"
                    ELSE "timedout"]
  /\ current' = current + 1
  /\ UNCHANGED <<order, pos, stage, held, languages, thread, due, proc, code,
                 timedOut, verdict, trouble>>

ReceiveForever ==
  /\ InProgram
  /\ current <= Tests /\ Ended(current)
  /\ lines' = [lines EXCEPT ![current] =
               IF thread[current] = "passed" THEN "ok" ELSE "fail"]
  /\ current' = current + 1
  /\ UNCHANGED <<order, pos, stage, held, languages, thread, due, proc, code,
                 timedOut, verdict, trouble>>

\* recv_timeout on the channel of the current test; the thread is detached
Receive ==
  /\ InProgram
  /\ current <= Tests /\ thread[current] # "none"
  /\ Ended(current) \/ due
  /\ lines' = [lines EXCEPT ![current] =
               IF thread[current] = "passed" THEN "ok"
               ELSE IF thread[current] = "panicked" THEN "fail"
               ELSE "timedout"]
  /\ current' = current + 1
  /\ UNCHANGED <<order, pos, stage, held, languages, thread, due, proc, code,
                 timedOut, verdict, trouble>>

\* exit(0) without waiting for the detached threads
ExitProgram ==
  /\ InProgram
  /\ current > Tests
  /\ proc' = "ending" /\ code' = TRUE
  /\ UNCHANGED <<order, pos, stage, held, languages, current, thread, due, lines,
                 timedOut, verdict, trouble>>

\* a test takes the whole program down
Abort ==
  /\ InProgram
  /\ \E t \in 1..Tests : thread[t] = "running"
  /\ proc' = "ending"
  /\ UNCHANGED <<order, pos, stage, held, languages, current, thread, due, lines,
                 code, timedOut, verdict, trouble>>

\* exec_with_timeout: the deadline has passed before the program has ended
KillProgram ==
  /\ stage = "rust"
  /\ proc \in {"alive", "ending"} /\ ~timedOut
  /\ proc' = "ending" /\ timedOut' = TRUE /\ code' = FALSE
  /\ UNCHANGED <<order, pos, stage, held, languages, current, thread, due, lines,
                 verdict, trouble>>

\* a process is gone when no thread of it is stuck in the file system
ProgramGone ==
  /\ stage = "rust"
  /\ proc = "ending"
  /\ \A t \in 1..Tests : thread[t] # "stuck"
  /\ proc' = "dead"
  /\ UNCHANGED <<order, pos, stage, held, languages, current, thread, due, lines,
                 code, timedOut, verdict, trouble>>

RustFailed == \E t \in 1..Tests : lines[t] \in {"fail", "timedout"}

\* only a program that did not compile is "failed"
RustStatus ==
  IF timedOut THEN "timedout"
  ELSE IF code /\ ~RustFailed THEN "ok" ELSE "fail"

ReadProgram ==
  /\ stage = "rust"
  /\ proc = "dead"
  /\ Insert(Available(RustStatus), RustStatus # "ok")
  /\ UNCHANGED <<order, held, program, verdict>>

-----------------------------------------------------------------------------
(* The end of run. *)

\* path.exists(): there is a work directory to remove, or the call fails
LookForWorkTree ==
  /\ stage = "look"
  /\ ~held
  /\ stage' \in {"cleanup", "emit"}
  /\ UNCHANGED <<order, pos, held, languages, program, verdict, trouble>>

\* recv_timeout: the thread that removes it has finished, or 20 s have passed
RemoveWorkDir ==
  /\ stage = "cleanup"
  /\ stage' = "emit"
  /\ UNCHANGED <<order, pos, held, languages, program, verdict, trouble>>

AnyFailed ==
  \E l \in Languages : languages[l].available /\ languages[l].status = "failed"

EmitReport ==
  /\ stage = "emit"
  /\ verdict' = IF AnyFailed THEN "failed" ELSE "ok"
  /\ stage' = "done"
  /\ UNCHANGED <<order, pos, held, languages, program, trouble>>

-----------------------------------------------------------------------------
SuiteStep ==
  \/ NotFound \/ RunItems \/ NotCompiled \/ StartProgram \/ ReadProgram
  \/ LookForWorkTree \/ RemoveWorkDir \/ EmitReport

Main == SkipTest \/ LaunchTest \/ Receive \/ ExitProgram

StdfsFinished == stage = "done" /\ UNCHANGED stdfsVars

StdfsNext ==
  \/ SuiteStep \/ Main \/ TimeIsUp \/ ProgramGone \/ Abort \/ KillProgram
  \/ \E t \in 1..Tests : TestMoves(t)
  \/ Hold \/ LetGo
  \/ StdfsFinished

StdfsSpec == StdfsInit /\ [][StdfsNext]_stdfsVars

\* run and the main thread of the program are scheduled, and the time of a test
\* passes; nothing is assumed of the tests, nor of the deadline of the program, nor
\* that what holds run ever lets it go
StdfsFairness ==
  /\ WF_stdfsVars(SuiteStep) /\ WF_stdfsVars(Main)
  /\ WF_stdfsVars(TimeIsUp) /\ WF_stdfsVars(ProgramGone)

StdfsFairSpec == StdfsSpec /\ StdfsFairness

-----------------------------------------------------------------------------
(* Properties. *)

\* A RES line is about its own test: what a detached thread sends after its
\* time was over is never taken for the result of a later test.
Attributed ==
  \A t \in 1..Tests :
    /\ lines[t] = "ok" => thread[t] = "passed"
    /\ lines[t] = "fail" => thread[t] = "panicked"

\* a rust status of ok stands for a program that got to its end: every test
\* has its line, and none failed, wedged or took the program down
RustOkIsComplete ==
  stage # "rust" /\ languages["rust"].status = "ok" =>
    \A t \in 1..Tests : lines[t] \in {"ok", "skipped"}

\* The run fails exactly when a test of go, python or node failed, a package
\* did not compile, or the rust program did not: an unavailable language and a
\* missing python module never fail it.  (A language named twice in --lang has
\* the result of its last run.)  And rust is ok only if all its tests are.
ReportAgrees ==
  /\ RustOkIsComplete
  /\ stage = "done" =>
       (verdict = "failed" <=>
          \/ trouble \cap {"go", "python", "node"} # {}
          \/ languages["rust"].status = "failed")

\* Tests that wedge cost their own time and no more: the report comes out, even
\* if the deadline of the whole program and the removal of the work directory
\* never end, unless a thread stays stuck in the file system and the process
\* cannot end, or run is held for ever: in a call of its own on the mount, of
\* which path.exists() before the bounded removal is one, by a child of go,
\* python or node that is stuck, or by a process that left the group of a child
\* and keeps its pipes open.
SuiteReports ==
  /\ \A t \in 1..Tests : []<>(thread[t] # "stuck")
  /\ <>[](~held)
  => <>(stage = "done")

\* Languages that are not available "don't fail the run; only real test
\* failures do": a run that met a failing test is reported as failed.
RealFailuresFail == stage = "done" /\ trouble # {} => verdict = "failed"
=============================================================================
