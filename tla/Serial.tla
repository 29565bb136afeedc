------------------------------- MODULE Serial -------------------------------
(***************************************************************************)
(* The two suites that run their tests one after another: pjdfstest        *)
(* (src/src/pjdfstest.rs: run, run_one) pipes shell scripts through sh and *)
(* counts TAP lines, ltp (src/src/ltp.rs: run_direct) runs binaries and    *)
(* maps exit codes.                                                        *)
(*                                                                         *)
(* They look alike and differ where it matters.  pjdfstest reads the pipes *)
(* in two threads while the script runs, and at the deadline kills only    *)
(* the shell.  ltp reads the pipes after the test has ended, so a test     *)
(* that writes more than a pipe holds is blocked, and at the deadline      *)
(* kills the whole process group.  Neither bounds the final read.          *)
(*                                                                         *)
(* Scripts, the processes they leave behind, the clock and the file system *)
(* under test are the environment, as in Runner.                           *)
(***************************************************************************)
EXTENDS Naturals, FiniteSetsExt

CONSTANTS
  N,          \* number of selected tests
  Plans,      \* the n of the 1..n plans that scripts declare
  MaxLines,   \* lines a script prints at most
  Exits,      \* exit statuses of a test
  KinKinds,   \* kinds of processes that a test leaves behind
  CanStick,   \* whether the file system can block a child
  WaitFails,  \* whether waitpid can fail
  Word        \* 2^64 in the code: the summary is counted in u64

ASSUME SerialAssumption ==
  /\ N \in Nat
  /\ Plans \subseteq Nat \ {0} /\ MaxLines \in Nat
  /\ Exits \subseteq {"pass", "fail", "broken", "conf", "other", "signal"}
  /\ KinKinds \subseteq {"group", "escaped"}
  /\ CanStick \in BOOLEAN /\ WaitFails \in BOOLEAN
  /\ Word \in Nat \ {0}

Items == 0..N-1
Suites == {"pjdfstest", "ltp"}
Verdicts == {"pass", "warn", "skip", "fail", "broken", "timedout", "cut"}
Failing == {"fail", "broken", "timedout"}
Missing == "missing"
Attempts == 3

\* what a script has printed: TAP lines, bytes that are not UTF-8, and output
\* whose last 2000 bytes start inside a character
Silent == [lines |-> 0, plan |-> 0, ok |-> 0, bad |-> 0, todo |-> 0,
           bail |-> FALSE, garbled |-> FALSE, wide |-> FALSE]
NoResult == [verdict |-> Missing, tests |-> 0, passed |-> 0, failed |-> 0,
             bail |-> FALSE, listed |-> FALSE]
NotRun == [out |-> Silent, exit |-> "none", ended |-> FALSE]

VARIABLES
  suite,      \* the suite
  cur,        \* index of the current test
  pc,         \* control state of the runner
  attempts,   \* ltp: spawns tried for the current test
  child,      \* the process of the current test
  kin,        \* the process it has left behind
  late,       \* its deadline has passed
  killed,     \* it was sent SIGKILL: timed_out
  out,        \* what it has printed
  exit,       \* its exit status
  result,     \* results
  report,     \* the report: status, summary.passed
  ran         \* history: what each test printed and how it ended

process == <<child, kin, late, killed, out, exit>>
driver == <<cur, pc, attempts>>
answers == <<result, report, ran>>
vars == <<suite, cur, pc, attempts, child, kin, late, killed, out, exit,
          result, report, ran>>

OutputType ==
  [lines : 0..MaxLines, plan : Plans \cup {0}, ok : 0..MaxLines,
   bad : 0..MaxLines, todo : 0..MaxLines, bail : BOOLEAN, garbled : BOOLEAN,
   wide : BOOLEAN]

ResultType ==
  [verdict : Verdicts \cup {Missing}, tests : Nat, passed : Nat, failed : Nat,
   bail : BOOLEAN, listed : BOOLEAN]

Statuses == Exits \cup {"pass", "none"}

TypeOK ==
  /\ suite \in Suites
  /\ cur \in 0..N
  /\ pc \in {"prepare", "spawn", "poll", "kill", "reap", "read", "emit", "done",
             "panic"}
  /\ attempts \in 0..Attempts-1
  /\ child \in {"none", "alive", "blocked", "stuck", "zombie", "reaped"}
  /\ kin \in KinKinds \cup {"none"}
  /\ late \in BOOLEAN /\ killed \in BOOLEAN
  /\ out \in OutputType
  /\ exit \in Statuses
  /\ result \in [Items -> ResultType]
  /\ ran \in [Items -> [out : OutputType, exit : Statuses, ended : BOOLEAN]]
  /\ report \in [status : {Missing, "ok", "failed"}, passed : 0..Word-1]

\* a process that is not there
Fresh ==
  /\ child' = "none" /\ kin' = "none" /\ late' = FALSE /\ killed' = FALSE
  /\ out' = Silent /\ exit' = "none"

\* ltp refuses an empty selection, pjdfstest does not
Init ==
  /\ suite \in Suites
  /\ suite = "ltp" => N > 0
  /\ cur = 0
  /\ pc = IF N = 0 THEN "emit" ELSE "prepare"
  /\ attempts = 0
  /\ child = "none" /\ kin = "none" /\ late = FALSE /\ killed = FALSE
  /\ out = Silent /\ exit = "none"
  /\ result = [i \in Items |-> NoResult]
  /\ report = [status |-> Missing, passed |-> 0]
  /\ ran = [i \in Items |-> NotRun]

-----------------------------------------------------------------------------
(* The environment. *)

Running == child = "alive"

PrintsTap(o) ==
  \/ \E n \in Plans : o = [out EXCEPT !.plan = n, !.lines = @ + 1]
  \/ o = [out EXCEPT !.ok = @ + 1, !.lines = @ + 1]
  \/ o = [out EXCEPT !.bad = @ + 1, !.lines = @ + 1]
  \/ o = [out EXCEPT !.todo = @ + 1, !.lines = @ + 1]
  \/ o = [out EXCEPT !.bail = TRUE, !.lines = @ + 1]
  \/ o = [out EXCEPT !.garbled = TRUE, !.lines = @ + 1]

\* TAP matters to pjdfstest only
ScriptPrints ==
  /\ Running
  /\ out.lines < MaxLines
  /\ \/ suite = "pjdfstest" /\ PrintsTap(out')
     \/ out' = [out EXCEPT !.wide = TRUE, !.lines = @ + 1]
  /\ UNCHANGED <<suite, driver, child, kin, late, killed, exit, answers>>

\* more than the pipe holds: the write blocks until somebody reads
ScriptBlocks ==
  /\ Running
  /\ child' = "blocked"
  /\ UNCHANGED <<suite, driver, kin, late, killed, out, exit, answers>>

ScriptForks ==
  /\ Running
  /\ kin = "none"
  /\ kin' \in KinKinds
  /\ UNCHANGED <<suite, driver, child, late, killed, out, exit, answers>>

\* the exit status matters to ltp only
ScriptExits ==
  /\ Running
  /\ child' = "zombie"
  /\ exit' \in IF suite = "ltp" THEN Exits ELSE {"pass"}
  /\ UNCHANGED <<suite, driver, kin, late, killed, out, answers>>

KinExits ==
  /\ kin # "none"
  /\ kin' = "none"
  /\ UNCHANGED <<suite, driver, child, late, killed, out, exit, answers>>

ScriptSticks ==
  /\ CanStick
  /\ Running
  /\ child' = "stuck"
  /\ UNCHANGED <<suite, driver, kin, late, killed, out, exit, answers>>

\* the blocked call returns; a pending SIGKILL takes effect
ScriptResumes ==
  /\ child = "stuck"
  /\ child' = IF killed THEN "zombie" ELSE "alive"
  /\ UNCHANGED <<suite, driver, kin, late, killed, out, exit, answers>>

DeadlinePasses ==
  /\ child # "none" /\ ~late
  /\ late' = TRUE
  /\ UNCHANGED <<suite, driver, child, kin, killed, out, exit, answers>>

Environment ==
  \/ ScriptPrints \/ ScriptBlocks \/ ScriptForks \/ ScriptExits \/ KinExits
  \/ ScriptSticks \/ ScriptResumes

-----------------------------------------------------------------------------
(* From what a test did to its result. *)

\* read_to_string gives nothing at all when one byte is not UTF-8
Heard(o) == IF o.garbled THEN Silent ELSE o

\* mutant: a script that stops in the middle of its plan is not noticed
PjdResultNoPlan(o, timedOut) ==
  LET h == Heard(o)
  IN [verdict |-> IF h.bad > 0 \/ h.bail THEN "fail"
                  ELSE IF timedOut THEN "cut" ELSE "pass",
      tests |-> h.ok + h.bad + h.todo, passed |-> h.ok + h.todo,
      failed |-> h.bad, bail |-> h.bail,
      listed |-> h.bad > 0 \/ h.bail \/ timedOut]

\* run_one, after the readers: what is missing of the plan counts as failed
\* unless an assertion failed already or the script was cut off
PjdResult(o, timedOut) ==
  LET h == Heard(o)
      tests == h.ok + h.bad + h.todo
      early == h.plan > tests /\ h.bad = 0 /\ ~timedOut
      failed == h.bad + IF early THEN h.plan - tests ELSE 0
  IN [verdict |-> IF failed > 0 \/ h.bail THEN "fail"
                  ELSE IF timedOut THEN "cut" ELSE "pass",
      tests |-> tests, passed |-> h.ok + h.todo, failed |-> failed,
      bail |-> h.bail, listed |-> failed > 0 \/ h.bail \/ timedOut]

\* the scratch directory or the shell is not to be had
PjdBroken == [verdict |-> "fail", tests |-> 1, passed |-> 0, failed |-> 1,
              bail |-> FALSE, listed |-> TRUE]

\* result_of: TPASS, TFAIL, TBROK, TCONF; a test without an exit code is broken
ResultOf(code, timedOut) ==
  IF timedOut THEN "timedout"
  ELSE IF code \in {"pass", "fail"} THEN code
  ELSE IF code \in {"broken", "signal", "none"} THEN "broken"
  ELSE IF code = "conf" THEN "skip"
  ELSE "warn"

\* try_wait gave the status
Code == IF child = "reaped" /\ ~killed THEN exit ELSE "none"

Result ==
  IF suite = "pjdfstest" THEN PjdResult(out, killed)
  ELSE [NoResult EXCEPT !.verdict = ResultOf(Code, killed)]

-----------------------------------------------------------------------------
(* The runner. *)

Goto(step) == pc' = step

\* the result is pushed, and the loop goes on with the next test
Push(r) ==
  /\ result' = [result EXCEPT ![cur] = r]
  /\ ran' = [ran EXCEPT ![cur] =
               [out |-> out, exit |-> Code,
                ended |-> child \in {"zombie", "reaped"} /\ ~killed]]
  /\ cur' = cur + 1
  /\ attempts' = 0
  /\ Goto(IF cur + 1 < N THEN "prepare" ELSE "emit")
  /\ Fresh
  /\ UNCHANGED <<suite, report>>

\* pjdfstest: remove and make the scratch directory
Prepare ==
  /\ pc = "prepare"
  /\ Goto("spawn")
  /\ UNCHANGED <<suite, cur, attempts, process, answers>>

PrepareFails ==
  /\ pc = "prepare"
  /\ suite = "pjdfstest"
  /\ Push(PjdBroken)

\* pipes; pjdfstest starts its reader threads, ltp makes a session of its own
Spawn ==
  /\ pc = "spawn"
  /\ child' = "alive"
  /\ Goto("poll")
  /\ UNCHANGED <<suite, cur, attempts, kin, late, killed, out, exit, answers>>

\* ltp tries three times and counts the test as broken
SpawnFails ==
  /\ pc = "spawn"
  /\ \/ suite = "pjdfstest" /\ Push(PjdBroken)
     \/ /\ suite = "ltp" /\ attempts + 1 < Attempts
        /\ attempts' = attempts + 1
        /\ UNCHANGED <<suite, cur, pc, process, answers>>
     \/ /\ suite = "ltp" /\ attempts + 1 = Attempts
        /\ Push([NoResult EXCEPT !.verdict = "broken"])

\* mutant: wait() instead of try_wait() with a deadline
PollForever ==
  /\ pc = "poll"
  /\ child = "zombie" /\ child' = "reaped" /\ Goto("read")
  /\ UNCHANGED <<suite, cur, attempts, kin, late, killed, out, exit, answers>>

\* try_wait every 10 or 20 ms
Poll ==
  /\ pc = "poll"
  /\ \/ child = "zombie" /\ child' = "reaped" /\ Goto("read")
     \/ child # "zombie" /\ late /\ Goto("kill") /\ UNCHANGED child
     \/ WaitFails /\ Goto("read") /\ UNCHANGED child
  /\ UNCHANGED <<suite, cur, attempts, kin, late, killed, out, exit, answers>>

\* mutant: ltp kills the test and not its group
KillChildOnly ==
  /\ pc = "kill"
  /\ killed' = TRUE
  /\ child' = IF child = "stuck" THEN "stuck" ELSE "zombie"
  /\ Goto("reap")
  /\ UNCHANGED <<suite, cur, attempts, kin, late, out, exit, answers>>

\* pjdfstest: SIGKILL to the shell; ltp: to its process group
Kill ==
  /\ pc = "kill"
  /\ killed' = TRUE
  /\ child' = IF child = "stuck" THEN "stuck" ELSE "zombie"
  /\ kin' = IF suite = "ltp" /\ kin = "group" THEN "none" ELSE kin
  /\ Goto("reap")
  /\ UNCHANGED <<suite, cur, attempts, late, out, exit, answers>>

Reap ==
  /\ pc = "reap"
  /\ child = "zombie"
  /\ child' = "reaped"
  /\ Goto("read")
  /\ UNCHANGED <<suite, cur, attempts, kin, late, killed, out, exit, answers>>

\* the reader threads of pjdfstest, wait_with_output of ltp
Drain ==
  /\ child = "blocked"
  /\ suite = "pjdfstest" \/ pc = "read"
  /\ child' = "alive"
  /\ UNCHANGED <<suite, driver, kin, late, killed, out, exit, answers>>

\* the pipes are read to the end, which comes when nobody holds them; the tail
\* of the output is cut at a byte: inside a character that is a panic
Read ==
  /\ pc = "read"
  /\ child \in {"zombie", "reaped"}
  /\ kin = "none"
  /\ \/ ~out.wide /\ Push(Result)
     \/ /\ out.wide /\ Goto("panic")
        /\ UNCHANGED <<suite, cur, attempts, process, answers>>

Total(f) == MapThenSumSet(LAMBDA i : f[i], Items)
TotalTests == Total([i \in Items |-> result[i].tests])
TotalFailed == Total([i \in Items |-> result[i].failed])

\* mutant: a script that bails out is not looked at
StatusNoBail ==
  IF suite = "pjdfstest"
  THEN IF TotalFailed = 0 THEN "ok" ELSE "failed"
  ELSE IF \A i \in Items : result[i].verdict \notin Failing THEN "ok" ELSE "failed"

Status ==
  IF suite = "pjdfstest"
  THEN IF TotalFailed = 0 /\ (\A i \in Items : ~result[i].bail) THEN "ok"
       ELSE "failed"
  ELSE IF \A i \in Items : result[i].verdict \notin Failing THEN "ok" ELSE "failed"

\* more failed than ran: total_tests - total_failed leaves the range of u64,
\* which wraps in a release build and panics in a debug build
Underflow == TotalTests < TotalFailed

Emit ==
  /\ pc = "emit"
  /\ \/ /\ Goto("done")
        /\ report' = [status |-> Status,
                      passed |-> (Word + TotalTests - TotalFailed) % Word]
     \/ /\ Underflow
        /\ Goto("panic")
        /\ UNCHANGED report
  /\ UNCHANGED <<suite, cur, attempts, process, result, ran>>

Runner ==
  \/ Prepare \/ PrepareFails \/ Spawn \/ SpawnFails \/ Poll \/ Kill \/ Reap
  \/ Read \/ Emit

-----------------------------------------------------------------------------
Finished == pc \in {"done", "panic"} /\ UNCHANGED vars

Next == Environment \/ DeadlinePasses \/ Runner \/ Drain \/ Finished

Spec == Init /\ [][Next]_vars

\* the runner and its reader threads are scheduled, time passes, and the
\* runner's own calls on the mount return; nothing is assumed of the tests
Fairness == WF_vars(Runner) /\ WF_vars(Drain) /\ WF_vars(DeadlinePasses)

FairSpec == Spec /\ Fairness

-----------------------------------------------------------------------------
(* Properties. *)

\* A pjdfstest script did what it declared: no assertion failed, it did not
\* bail out, and it reached the end of its plan or was cut off by the timeout.
PjdPassed(r) ==
  /\ r.out.bad = 0 /\ ~r.out.bail
  /\ r.ended => r.out.plan <= r.out.ok + r.out.todo

\* A run that reports ok has seen every test pass: each ltp test ended by
\* itself with a status that is not a failure; each pjdfstest script passed, or
\* printed a byte that is not UTF-8 and was not heard.  Such a report lists
\* failures for scripts that timed out only.
OkIsEarned ==
  report.status = "ok" =>
    \A i \in Items :
      /\ suite = "ltp" => ran[i].ended /\ ran[i].exit \in {"pass", "conf", "other"}
      /\ suite = "pjdfstest" => ran[i].out.garbled \/ PjdPassed(ran[i])
      /\ result[i].listed => ~ran[i].ended

\* Both suites keep the promise of Batch: one final result for each test, then
\* one report that agrees with them.  A pjdfstest script that timed out without
\* a failed assertion ("cut") does not fail the run.
Promise == INSTANCE Batch WITH
  Items <- Items, Statuses <- Verdicts, Failing <- Failing,
  slot <- [i \in Items |-> result[i].verdict], report <- report.status
KeepsPromise == Promise!BatchSpec

\* A test that has filled its pipe does not stay blocked: a reader thread
\* empties the pipe (pjdfstest) or the deadline ends the test (ltp).
BlockedEnds == child = "blocked" ~> child # "blocked"

\* what neither suite can end: a child stuck in the file system; a process that
\* holds the pipes and is not killed with the child; a child that cannot be
\* waited for
HoldsPipes ==
  \/ child = "stuck"
  \/ kin = "escaped"
  \/ kin = "group" /\ ~(suite = "ltp" /\ killed)
  \/ pc = "read" /\ child \in {"alive", "blocked"}

\* The report comes out, whatever the tests do, unless something the suite does
\* not kill holds the pipes for ever, the tail of an output is cut inside a
\* character, or the passed count of a debug build underflows.
Reports ==
  []<>(~HoldsPipes) =>
    <>(pc = "done" \/ out.wide \/ (pc = "panic" /\ Underflow))
=============================================================================
