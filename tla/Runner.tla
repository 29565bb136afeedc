------------------------------- MODULE Runner -------------------------------
(***************************************************************************)
(* The script runner of the sqlite suite (src/src/sqlite.rs), which the    *)
(* git and stdfs suites repeat: run_parallel hands the selected items to   *)
(* worker threads, exec_with_timeout runs each one as a child process in a *)
(* session of its own, drains its pipes and kills its process group at the *)
(* deadline, and run tallies the results, cleans up and reports.           *)
(*                                                                         *)
(* The scripts, the processes they leave behind and the file system under  *)
(* test are the environment.  A script may leave one other process that    *)
(* holds its pipes: in the group of the child, or outside it.  A child may *)
(* be stuck in the file system, where SIGKILL has no effect until the call *)
(* returns.  The runner's own threads make calls on the mount as well,     *)
(* which may block them in the same way.                                   *)
(***************************************************************************)
EXTENDS Naturals

CONSTANTS
  N,          \* number of selected items
  Workers,    \* the worker threads: jobs.max(1) of them
  Dirs,       \* work directories
  Stem,       \* Stem[i]: the work directory of item i, named by its stem
  Outputs,    \* what a script can leave in its pipes, and its exit status
  KinKinds,   \* kinds of processes that scripts leave behind
  CanStick,   \* whether a call on the mount can block
  WaitFails   \* whether waitpid can fail

ASSUME RunnerAssumption ==
  /\ N \in Nat
  /\ Workers # {} /\ "driver" \notin Workers
  /\ Stem \in [0..N-1 -> Dirs]
  /\ Outputs \subseteq [complete : BOOLEAN, bad : BOOLEAN, empty : BOOLEAN,
                        fixed : BOOLEAN, zero : BOOLEAN]
  /\ KinKinds \subseteq {"group", "escaped"}
  /\ CanStick \in BOOLEAN /\ WaitFails \in BOOLEAN

Items == 0..N-1
Statuses == {"ok", "fail", "broken", "timedout", "skip"}
Failing == {"fail", "broken", "timedout"}
Suites == {"sqlite", "git"}

\* the threads of the runner
Threads == Workers \cup {"driver"}

\* a report or result that is not there yet, an output nobody has written, an
\* item nobody holds, a directory nobody made
Missing == "missing"
NoOutput == [complete |-> FALSE, bad |-> FALSE, empty |-> FALSE,
             fixed |-> FALSE, zero |-> FALSE]
Nobody == N

VARIABLES
  suite,      \* the suite, which decides how output becomes a status
  next,       \* run_parallel: the shared counter
  pc, item, res,   \* each worker's control state, item and result
  child,      \* the child process of each item
  kin,        \* the process its script has left behind
  late,       \* its deadline has passed
  killed,     \* its group was sent SIGKILL: timed_out
  output,     \* what the script left in the pipes
  owner,      \* the item that made each work directory last
  blocked,    \* threads of the runner inside a call on the mount that blocks
  slot,       \* run_parallel: out
  main, remover,   \* control state of run and of the cleanup thread
  runOk,      \* run_ok
  report,     \* status of the report
  spawns      \* history: times each item was spawned

workers == <<next, pc, item, res, slot>>
process == <<child, kin, late, killed, output>>
mount == <<owner, blocked>>
driver == <<main, remover, runOk, report>>
vars == <<suite, next, pc, item, res, slot, child, kin, late, killed, output,
          owner, blocked, main, remover, runOk, report, spawns>>

Steps == {"take", "prepare", "spawn", "poll", "kill", "reap", "drain", "store",
          "done"}

TypeOK ==
  /\ suite \in Suites
  /\ next \in Nat
  /\ pc \in [Workers -> Steps]
  /\ item \in [Workers -> Items \cup {Nobody}]
  /\ res \in [Workers -> Statuses \cup {Missing}]
  /\ child \in [Items -> {"none", "alive", "stuck", "zombie", "reaped"}]
  /\ kin \in [Items -> KinKinds \cup {"none"}]
  /\ late \in [Items -> BOOLEAN]
  /\ killed \in [Items -> BOOLEAN]
  /\ output \in [Items -> Outputs \cup {NoOutput}]
  /\ owner \in [Dirs -> Items \cup {Nobody}]
  /\ blocked \subseteq Threads
  /\ slot \in [Items -> Statuses \cup {Missing}]
  /\ main \in {"join", "look", "cleanup", "emit", "done", "panic"}
  /\ remover \in {"none", "running", "finished"}
  /\ runOk \in BOOLEAN
  /\ report \in {Missing, "ok", "failed"}
  /\ spawns \in [Items -> Nat]

Init ==
  /\ suite \in Suites
  /\ next = 0
  /\ pc = [w \in Workers |-> "take"]
  /\ item = [w \in Workers |-> Nobody]
  /\ res = [w \in Workers |-> Missing]
  /\ child = [i \in Items |-> "none"]
  /\ kin = [i \in Items |-> "none"]
  /\ late = [i \in Items |-> FALSE]
  /\ killed = [i \in Items |-> FALSE]
  /\ output = [i \in Items |-> NoOutput]
  /\ owner = [d \in Dirs |-> Nobody]
  /\ blocked = {}
  /\ slot = [i \in Items |-> Missing]
  /\ main = "join"
  /\ remover = "none"
  /\ runOk = FALSE
  /\ report = Missing
  /\ spawns = [i \in Items |-> 0]

-----------------------------------------------------------------------------
(* The environment: scripts, what they leave behind, the clock. *)

\* a script starts a background process that inherits its pipes
ScriptForks(i) ==
  /\ child[i] = "alive"
  /\ kin[i] = "none"
  /\ \E kind \in KinKinds : kin' = [kin EXCEPT ![i] = kind]
  /\ UNCHANGED <<suite, workers, child, late, killed, output, mount, driver,
                 spawns>>

ScriptExits(i) ==
  /\ child[i] = "alive"
  /\ child' = [child EXCEPT ![i] = "zombie"]
  /\ \E o \in Outputs : output' = [output EXCEPT ![i] = o]
  /\ UNCHANGED <<suite, workers, kin, late, killed, mount, driver, spawns>>

KinExits(i) ==
  /\ kin[i] # "none"
  /\ kin' = [kin EXCEPT ![i] = "none"]
  /\ UNCHANGED <<suite, workers, child, late, killed, output, mount, driver,
                 spawns>>

ScriptSticks(i) ==
  /\ CanStick
  /\ child[i] = "alive"
  /\ child' = [child EXCEPT ![i] = "stuck"]
  /\ UNCHANGED <<suite, workers, kin, late, killed, output, mount, driver,
                 spawns>>

\* the blocked call returns; a pending SIGKILL takes effect
ScriptResumes(i) ==
  /\ child[i] = "stuck"
  /\ child' = [child EXCEPT ![i] = IF killed[i] THEN "zombie" ELSE "alive"]
  /\ UNCHANGED <<suite, workers, kin, late, killed, output, mount, driver,
                 spawns>>

DeadlinePasses(i) ==
  /\ child[i] # "none"
  /\ ~late[i]
  /\ late' = [late EXCEPT ![i] = TRUE]
  /\ UNCHANGED <<suite, workers, child, kin, killed, output, mount, driver,
                 spawns>>

\* sqlite removes and makes the work directory in the worker and starts the child
\* in it; before the bounded removal the driver itself asks whether the path exists
InCall(t) ==
  \/ t \in Workers /\ suite = "sqlite" /\ pc[t] \in {"prepare", "spawn"}
  \/ t = "driver" /\ main = "look"

CallBlocks(t) ==
  /\ CanStick
  /\ InCall(t)
  /\ t \notin blocked
  /\ blocked' = blocked \cup {t}
  /\ UNCHANGED <<suite, workers, process, owner, driver, spawns>>

CallReturns(t) ==
  /\ t \in blocked
  /\ blocked' = blocked \ {t}
  /\ UNCHANGED <<suite, workers, process, owner, driver, spawns>>

Environment(i) ==
  \/ ScriptForks(i) \/ ScriptExits(i) \/ KinExits(i)
  \/ ScriptSticks(i) \/ ScriptResumes(i)

-----------------------------------------------------------------------------
(* From output to status. *)

\* exec_with_timeout has an exit code: the child was reaped by try_wait
ExitZero(i) == child[i] = "reaped" /\ output[i].zero

SqliteStatus(i) ==
  IF killed[i] THEN "timedout"
  ELSE IF ~output[i].complete THEN "broken"
  ELSE IF output[i].bad THEN "fail"
  ELSE "ok"

GitStatus(i) ==
  IF killed[i] THEN "timedout"
  ELSE IF ~output[i].complete THEN "broken"
  ELSE IF output[i].empty THEN "skip"
  ELSE IF output[i].bad THEN "fail"
  ELSE IF ~ExitZero(i) /\ ~output[i].fixed THEN "broken"
  ELSE "ok"

Status(i) == IF suite = "sqlite" THEN SqliteStatus(i) ELSE GitStatus(i)

-----------------------------------------------------------------------------
(* A worker: run_parallel around the closure of run and exec_with_timeout. *)

Goto(w, step) == pc' = [pc EXCEPT ![w] = step]

\* mutants: the counter is read and not incremented; the last index is left out
TakeShared(w) ==
  /\ pc[w] = "take"
  /\ item' = [item EXCEPT ![w] = IF next < N THEN next ELSE Nobody]
  /\ Goto(w, IF next < N THEN "prepare" ELSE "done")
  /\ \E n \in {next, next + 1} : next' = n
  /\ UNCHANGED <<suite, res, slot, process, mount, driver, spawns>>

TakeShort(w) ==
  /\ pc[w] = "take"
  /\ next' = next + 1
  /\ item' = [item EXCEPT ![w] = IF next + 1 < N THEN next ELSE Nobody]
  /\ Goto(w, IF next + 1 < N THEN "prepare" ELSE "done")
  /\ UNCHANGED <<suite, res, slot, process, mount, driver, spawns>>

\* next.fetch_add(1)
Take(w) ==
  /\ pc[w] = "take"
  /\ next' = next + 1
  /\ item' = [item EXCEPT ![w] = IF next < N THEN next ELSE Nobody]
  /\ Goto(w, IF next < N THEN "prepare" ELSE "done")
  /\ UNCHANGED <<suite, res, slot, process, mount, driver, spawns>>

\* sqlite: a fresh work directory, or a broken item
Prepare(w) ==
  /\ pc[w] = "prepare"
  /\ w \notin blocked
  /\ \/ /\ suite = "git"
        /\ Goto(w, "spawn")
        /\ UNCHANGED <<owner, res>>
     \/ /\ suite = "sqlite"
        /\ owner' = [owner EXCEPT ![Stem[item[w]]] = item[w]]
        /\ Goto(w, "spawn")
        /\ UNCHANGED res
     \/ /\ suite = "sqlite"
        /\ owner' = [owner EXCEPT ![Stem[item[w]]] = Nobody]
        /\ Goto(w, "store")
        /\ res' = [res EXCEPT ![w] = "broken"]
  /\ UNCHANGED <<suite, next, item, slot, process, blocked, driver, spawns>>

\* setsid and chdir in the child, pipes, and two threads that read them to the
\* end; the parent waits for the chdir
Spawn(w) ==
  /\ pc[w] = "spawn"
  /\ w \notin blocked
  /\ \/ /\ child' = [child EXCEPT ![item[w]] = "alive"]
        /\ spawns' = [spawns EXCEPT ![item[w]] = @ + 1]
        /\ Goto(w, "poll")
        /\ UNCHANGED res
     \/ /\ Goto(w, "store")
        /\ res' = [res EXCEPT ![w] = "broken"]
        /\ UNCHANGED <<child, spawns>>
  /\ UNCHANGED <<suite, next, item, slot, kin, late, killed, output, mount,
                 driver>>

\* mutant: the deadline is looked at first, and the child is reaped regardless
PollDeadlineFirst(w) ==
  /\ pc[w] = "poll"
  /\ \/ child[item[w]] = "zombie"
     \/ child[item[w]] # "zombie" /\ late[item[w]]
  /\ child' = [child EXCEPT ![item[w]] = IF @ = "zombie" THEN "reaped" ELSE @]
  /\ Goto(w, IF late[item[w]] THEN "kill" ELSE "drain")
  /\ UNCHANGED <<suite, next, item, res, slot, kin, late, killed, output, mount,
                 driver, spawns>>

\* try_wait: the child has ended and is reaped, or it has not and is late, or
\* the call fails; otherwise sleep 20 ms and poll again
Poll(w) ==
  /\ pc[w] = "poll"
  /\ \/ /\ child[item[w]] = "zombie"
        /\ child' = [child EXCEPT ![item[w]] = "reaped"]
        /\ Goto(w, "drain")
     \/ /\ child[item[w]] # "zombie"
        /\ late[item[w]]
        /\ Goto(w, "kill")
        /\ UNCHANGED child
     \/ /\ WaitFails
        /\ Goto(w, "drain")
        /\ UNCHANGED child
  /\ UNCHANGED <<suite, next, item, res, slot, kin, late, killed, output, mount,
                 driver, spawns>>

\* mutant: kill(pid) instead of kill(-pid)
KillChildOnly(w) ==
  /\ pc[w] = "kill"
  /\ killed' = [killed EXCEPT ![item[w]] = TRUE]
  /\ child' = [child EXCEPT ![item[w]] = IF @ = "alive" THEN "zombie" ELSE @]
  /\ Goto(w, "reap")
  /\ UNCHANGED <<suite, next, item, res, slot, kin, late, output, mount, driver,
                 spawns>>

\* SIGKILL to the group of the child, then to the child
Kill(w) ==
  /\ pc[w] = "kill"
  /\ killed' = [killed EXCEPT ![item[w]] = TRUE]
  /\ child' = [child EXCEPT ![item[w]] = IF @ = "alive" THEN "zombie" ELSE @]
  /\ kin' = [kin EXCEPT ![item[w]] = IF @ = "group" THEN "none" ELSE @]
  /\ Goto(w, "reap")
  /\ UNCHANGED <<suite, next, item, res, slot, late, output, mount, driver,
                 spawns>>

\* child.wait()
Reap(w) ==
  /\ pc[w] = "reap"
  /\ child[item[w]] = "zombie"
  /\ child' = [child EXCEPT ![item[w]] = "reaped"]
  /\ Goto(w, "drain")
  /\ UNCHANGED <<suite, next, item, res, slot, kin, late, killed, output, mount,
                 driver, spawns>>

\* the reader threads are joined: they end when nobody holds the pipes
Drain(w) ==
  /\ pc[w] = "drain"
  /\ child[item[w]] \in {"zombie", "reaped"}
  /\ kin[item[w]] = "none"
  /\ res' = [res EXCEPT ![w] = Status(item[w])]
  /\ Goto(w, "store")
  /\ UNCHANGED <<suite, next, item, slot, process, mount, driver, spawns>>

\* out.lock()[i] = Some(r)
Store(w) ==
  /\ pc[w] = "store"
  /\ slot' = [slot EXCEPT ![item[w]] = res[w]]
  /\ item' = [item EXCEPT ![w] = Nobody]
  /\ res' = [res EXCEPT ![w] = Missing]
  /\ Goto(w, "take")
  /\ UNCHANGED <<suite, next, process, mount, driver, spawns>>

Worker(w) ==
  \/ Take(w) \/ Prepare(w) \/ Spawn(w) \/ Poll(w) \/ Kill(w) \/ Reap(w)
  \/ Drain(w) \/ Store(w)

-----------------------------------------------------------------------------
(* run: join the workers, tally, clean up under a time bound, report. *)

\* mutant: items that timed out are not counted
TallyLenient ==
  \A i \in Items : slot[i] \notin {"fail", "broken"}

Tally == \A i \in Items : slot[i] \notin Failing

\* the scope ends when every worker has; an empty slot is a panic
Join ==
  /\ main = "join"
  /\ \A w \in Workers : pc[w] = "done"
  /\ runOk' = Tally
  /\ \/ /\ \E i \in Items : slot[i] = Missing
        /\ main' = "panic"
     \/ /\ \A i \in Items : slot[i] # Missing
        /\ main' \in {"look", "emit"}    \* or --keep
  /\ UNCHANGED <<suite, workers, process, mount, remover, report, spawns>>

\* path.exists(): there is something to remove, or there is not or the call fails
LookForWorkRoot ==
  /\ main = "look"
  /\ "driver" \notin blocked
  /\ \/ main' = "cleanup" /\ remover' = "running"
     \/ main' = "emit" /\ UNCHANGED remover
  /\ UNCHANGED <<suite, workers, process, mount, runOk, report, spawns>>

\* the cleanup thread may block for ever on a wedged mount
RemoverFinishes ==
  /\ remover = "running"
  /\ remover' = "finished"
  /\ UNCHANGED <<suite, workers, process, mount, main, runOk, report, spawns>>

\* recv_timeout: the thread has finished, or the bound has passed
Cleanup ==
  /\ main = "cleanup"
  /\ main' = "emit"
  /\ UNCHANGED <<suite, workers, process, mount, remover, runOk, report, spawns>>

Emit ==
  /\ main = "emit"
  /\ main' = "done"
  /\ report' = IF runOk THEN "ok" ELSE "failed"
  /\ UNCHANGED <<suite, workers, process, mount, remover, runOk, spawns>>

Driver == Join \/ LookForWorkRoot \/ Cleanup \/ Emit

-----------------------------------------------------------------------------
Finished == main \in {"done", "panic"} /\ UNCHANGED vars

Next ==
  \/ \E i \in Items : Environment(i) \/ DeadlinePasses(i)
  \/ \E t \in Threads : CallBlocks(t) \/ CallReturns(t)
  \/ \E w \in Workers : Worker(w)
  \/ RemoverFinishes
  \/ Driver
  \/ Finished

Spec == Init /\ [][Next]_vars

\* threads that can run are scheduled and time passes; nothing is assumed of the
\* scripts, of what they leave behind or of the file system: a blocked call need
\* not return, and the removal of the work directory need not end
Fairness ==
  /\ \A w \in Workers : WF_vars(Worker(w))
  /\ WF_vars(Driver)
  /\ \A i \in Items : WF_vars(DeadlinePasses(i))

FairSpec == Spec /\ Fairness

-----------------------------------------------------------------------------
(* Properties. *)

\* An item is spawned at most once and is never in the hands of two workers:
\* the shared counter gives each index away once.
RunOnce ==
  /\ \A i \in Items : spawns[i] <= 1
  /\ \A v, w \in Workers : v # w /\ item[v] # Nobody => item[v] # item[w]

\* SIGKILL goes to the group of a child that has not been reaped, so the
\* process id cannot have been given to another process.
KillsOwnChild ==
  \A w \in Workers :
    pc[w] = "kill" => child[item[w]] \in {"alive", "stuck", "zombie"}

\* expect("worker result") never fires: when the workers have ended, the slot
\* of every item is filled.
NoPanic == main # "panic"

\* A run that reports ok has seen every script end by itself, with complete
\* output in which nothing failed.
OkIsEarned ==
  report = "ok" =>
    \A i \in Items : /\ child[i] \in {"zombie", "reaped"} /\ ~killed[i]
                     /\ output[i].complete
                     /\ ~output[i].bad \/ output[i].empty

\* The runner implements the promise of Batch: one final result for each item,
\* then one report that agrees with them.
Promise == INSTANCE Batch
KeepsPromise == Promise!BatchSpec

\* what exec_with_timeout cannot end: a child blocked in the file system, a
\* process outside the group, a process in the group of a child that ended
\* before its deadline, a child it cannot wait for
HoldsPipes(i) ==
  \/ child[i] = "stuck"
  \/ kin[i] = "escaped"
  \/ kin[i] = "group" /\ ~killed[i]
  \/ child[i] = "alive" /\ \E w \in Workers : item[w] = i /\ pc[w] = "drain"

\* The report comes out, whatever the scripts do and also if the removal of the
\* work directory never ends, unless something the runner cannot kill holds the
\* pipes of an item for ever, or a call that a thread of the runner itself makes
\* on the mount (work directory, spawn in it, path.exists()) never returns.
Reports ==
  /\ \A i \in Items : []<>(~HoldsPipes(i))
  /\ <>[](blocked = {})
  => <>(main = "done")

=============================================================================
