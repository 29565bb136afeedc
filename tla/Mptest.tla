------------------------------- MODULE Mptest -------------------------------
(***************************************************************************)
(* The mptest coordinator of the sqlite suite (src/src/sqlite.rs): one     *)
(* master process interprets a script, spawns client processes and hands   *)
(* them tasks; every process talks to the others only through the tables   *)
(* task, client and counters of one shared SQLite database.                *)
(*                                                                         *)
(* A task is named by the position of its --task command in Script, so the *)
(* task table is three sets of positions.  A write outside a transaction   *)
(* is one autocommit step; a transaction works on a private copy of the    *)
(* tables (view) that COMMIT publishes, and holds the write lock (SQLite's *)
(* RESERVED lock) from BEGIN to COMMIT.  A process that dies inside one    *)
(* leaves db untouched: the hot journal is rolled back.                    *)
(***************************************************************************)
EXTENDS Integers, Sequences, FiniteSetsExt

CONSTANTS
  Script,       \* the master's commands, a sequence of [op, client, body]
  Clients,      \* client numbers used by the script
  MaxIdle,      \* bound standing for 30000 ms: idle polls before giving up
  MaxTimeouts   \* bound on the writes that fail with SQLITE_BUSY for 10 s

AllClients == 0   \* --wait all: atoi("all") = 0

MasterOps == {"task", "start", "wait", "pass", "fail", "unknown", "exit"}
BodyOps == {"pass", "fail", "unknown", "finish", "begin", "commit", "exit"}

ASSUME MptestAssumption ==
  /\ Clients \subseteq Nat \ {0}
  /\ MaxIdle \in Nat /\ MaxTimeouts \in Nat
  /\ Script \in Seq([op : MasterOps, client : Clients \cup {AllClients},
                     body : Seq(BodyOps)])
  /\ \A n \in DOMAIN Script :
        Script[n].op \in {"task", "start"} => Script[n].client \in Clients

\* a client process is named by the position of the command that spawned it
Procs == {n \in DOMAIN Script : Script[n].op \in {"task", "start"}}
Master == 0       \* index of the master in nError and nTest
NoLock == 0       \* the master never keeps the write lock between two steps
Agents == Procs \cup {Master}
TaskId == {n \in DOMAIN Script : Script[n].op = "task"}

VARIABLES
  at,        \* position of the master in Script
  mpc,       \* where the master is in mptest_main
  db,        \* the committed tables
  view,      \* view[p]: the tables as p's open transaction has them
  lock,      \* the process holding the write lock, or NoLock
  pc, id,    \* control state and client number of each process
  cur, k,    \* the task a process runs and its position in the task's body
  after,     \* what follows the COMMIT of start_script
  polls,     \* idle rounds of start_script (total_time)
  nError, nTest,   \* G.n_error and G.n_test of each process
  timeouts,  \* busy timeouts so far
  summary,   \* the figures of the Summary line
  runs,      \* history: the processes that claimed each task
  executed   \* history: errors raised and tests run, by any process

master == <<at, mpc, summary>>
local == <<pc, id, cur, k, after, polls>>
vars == <<at, mpc, summary, db, view, lock, pc, id, cur, k, after, polls,
          nError, nTest, timeouts, runs, executed>>

Tables == [inserted : SUBSET TaskId, started : SUBSET TaskId,
           ended : SUBSET TaskId, client : SUBSET Clients,
           halt : SUBSET Clients, nError : Nat, nTest : Nat]

\* the tables as mptest_main creates them
NewTables == [inserted |-> {}, started |-> {}, ended |-> {}, client |-> {},
              halt |-> {}, nError |-> 0, nTest |-> 0]

Terminated == {"halted", "gaveup", "exited", "fatal"}
ClientStates == {"unborn", "poll", "txn", "commit", "run", "drop", "dying"}
                  \cup Terminated
MasterStates == {"script", "insert", "halt", "drain", "sum", "done", "dying",
                 "fatal", "exited"}

TypeOK ==
  /\ at \in 1..Len(Script) + 1
  /\ mpc \in MasterStates
  /\ db \in Tables
  /\ view \in [Procs -> Tables]
  /\ lock \in Procs \cup {NoLock}
  /\ pc \in [Procs -> ClientStates]
  /\ id \in [Procs -> Clients \cup {0}]
  /\ cur \in [Procs -> TaskId \cup {0}]
  /\ k \in [Procs -> Nat]
  /\ after \in [Procs -> {"poll", "run", "halted", "gaveup"}]
  /\ polls \in [Procs -> 0..MaxIdle]
  /\ nError \in [Agents -> Nat]
  /\ nTest \in [Agents -> Nat]
  /\ timeouts \in 0..MaxTimeouts
  /\ summary \in [nError : Nat, nTest : Nat]
  /\ runs \in [TaskId -> SUBSET Procs]
  /\ executed \in [nError : Nat, nTest : Nat]

Init ==
  /\ at = 1
  /\ mpc = "script"
  /\ db = NewTables
  /\ view = [p \in Procs |-> NewTables]
  /\ lock = NoLock
  /\ pc = [p \in Procs |-> "unborn"]
  /\ id = [p \in Procs |-> 0]
  /\ cur = [p \in Procs |-> 0]
  /\ k = [p \in Procs |-> 0]
  /\ after = [p \in Procs |-> "poll"]
  /\ polls = [p \in Procs |-> 0]
  /\ nError = [a \in Agents |-> 0]
  /\ nTest = [a \in Agents |-> 0]
  /\ timeouts = 0
  /\ summary = [nError |-> 0, nTest |-> 0]
  /\ runs = [t \in TaskId |-> {}]
  /\ executed = [nError |-> 0, nTest |-> 0]

-----------------------------------------------------------------------------
(* The database engine, as the suite uses it. *)

\* p may execute a write statement now; otherwise it gets SQLITE_BUSY
CanWrite(p) == lock \in {NoLock, p}

Seen(p) == IF lock = p THEN view[p] ELSE db

\* one write statement of p: autocommit, or inside p's open transaction
Write(p, tables) ==
  IF lock = p
    THEN view' = [view EXCEPT ![p] = tables] /\ UNCHANGED db
    ELSE db' = tables /\ UNCHANGED view

\* BEGIN IMMEDIATE
BeginImmediate(p) ==
  /\ lock = NoLock
  /\ lock' = p

EndTransaction(p) ==
  /\ lock' = NoLock
  /\ view' = [view EXCEPT ![p] = NewTables]

Commit(p) ==
  /\ db' = view[p]
  /\ EndTransaction(p)

-----------------------------------------------------------------------------
(* Counters. *)

\* n checks with e errors among them are made by agent a
Count(a, e, n) ==
  /\ nError' = [nError EXCEPT ![a] = @ + e]
  /\ nTest' = [nTest EXCEPT ![a] = @ + n]
  /\ executed' = [nError |-> executed.nError + e, nTest |-> executed.nTest + n]

\* --match and --glob that succeed or fail, and an unknown command
Check(a, op) ==
  /\ op \in {"pass", "fail", "unknown"}
  /\ Count(a, IF op = "pass" THEN 0 ELSE 1, IF op = "unknown" THEN 0 ELSE 1)

-----------------------------------------------------------------------------
(* A client process: the loop of mptest_main around start_script. *)

DropClient(tables, c) ==
  [tables EXCEPT !.client = @ \ {c}, !.halt = @ \ {c}]

\* tasks of client c that nobody has started, in the tables a process sees
Waiting(tables, c) ==
  {t \in tables.inserted \ tables.started : Script[t].client = c}

\* the first half of start_script: BEGIN IMMEDIATE, then flush the counters
FlushedTables(p) ==
  [db EXCEPT !.nError = @ + nError[p], !.nTest = @ + nTest[p]]

\* mutant: the counters are read, not swapped for 0
StartScriptCopying(p) ==
  /\ pc[p] = "poll"
  /\ BeginImmediate(p)
  /\ view' = [view EXCEPT ![p] = FlushedTables(p)]
  /\ pc' = [pc EXCEPT ![p] = "txn"]
  /\ UNCHANGED <<master, db, id, cur, k, after, polls, nError, nTest, timeouts,
                 runs, executed>>

\* mutant: a plain BEGIN, which does not wait for the write lock
StartScriptDeferred(p) ==
  /\ pc[p] = "poll"
  /\ lock' = p
  /\ view' = [view EXCEPT ![p] = FlushedTables(p)]
  /\ nError' = [nError EXCEPT ![p] = 0]
  /\ nTest' = [nTest EXCEPT ![p] = 0]
  /\ pc' = [pc EXCEPT ![p] = "txn"]
  /\ UNCHANGED <<master, db, id, cur, k, after, polls, timeouts, runs, executed>>

StartScript(p) ==
  /\ pc[p] = "poll"
  /\ BeginImmediate(p)
  /\ view' = [view EXCEPT ![p] = FlushedTables(p)]
  /\ nError' = [nError EXCEPT ![p] = 0]
  /\ nTest' = [nTest EXCEPT ![p] = 0]
  /\ pc' = [pc EXCEPT ![p] = "txn"]
  /\ UNCHANGED <<master, db, id, cur, k, after, polls, timeouts, runs, executed>>

\* BEGIN IMMEDIATE is busy: sleep 10 ms and retry
StartScriptBusy(p) ==
  /\ pc[p] = "poll"
  /\ ~CanWrite(p)
  /\ polls[p] < MaxIdle
  /\ polls' = [polls EXCEPT ![p] = @ + 1]
  /\ UNCHANGED <<master, db, view, lock, pc, id, cur, k, after, nError, nTest,
                 timeouts, runs, executed>>

\* BEGIN IMMEDIATE fails because the task left its transaction open: fatal
StartScriptNested(p) ==
  /\ pc[p] = "poll"
  /\ lock = p
  /\ Count(p, 1, 0)
  /\ pc' = [pc EXCEPT ![p] = "dying"]
  /\ UNCHANGED <<master, db, view, lock, id, cur, k, after, polls, timeouts,
                 runs>>

\* the decision start_script takes in the transaction, then its COMMIT
Decide(p, tables, then) ==
  /\ pc[p] = "txn"
  /\ view' = [view EXCEPT ![p] = tables]
  /\ pc' = [pc EXCEPT ![p] = "commit"]
  /\ after' = [after EXCEPT ![p] = then]
  /\ UNCHANGED <<master, db, lock, id, nTest, timeouts, runs>>

Halted(p) == id[p] \in view[p].halt

HaltSeen(p) ==
  /\ Halted(p)
  /\ Decide(p, DropClient(view[p], id[p]), "halted")
  /\ UNCHANGED <<cur, k, polls, nError, executed>>

\* mutant: the UPDATE of starttime is missing
ClaimUnmarked(p) ==
  /\ ~Halted(p)
  /\ \E t \in Waiting(view[p], id[p]) :
       /\ \A u \in Waiting(view[p], id[p]) : t <= u
       /\ Decide(p, view[p], "run")
       /\ cur' = [cur EXCEPT ![p] = t]
  /\ k' = [k EXCEPT ![p] = 1]
  /\ polls' = [polls EXCEPT ![p] = 0]
  /\ UNCHANGED <<nError, executed>>

ClaimTask(p) ==
  /\ ~Halted(p)
  /\ \E t \in Waiting(view[p], id[p]) :
       /\ \A u \in Waiting(view[p], id[p]) : t <= u
       /\ Decide(p, [view[p] EXCEPT !.started = @ \cup {t}], "run")
       /\ cur' = [cur EXCEPT ![p] = t]
  /\ k' = [k EXCEPT ![p] = 1]
  /\ polls' = [polls EXCEPT ![p] = 0]
  /\ UNCHANGED <<nError, executed>>

NoWork(p) == ~Halted(p) /\ Waiting(view[p], id[p]) = {}

\* the error is raised after the flush, and the process exits
GiveUp(p) ==
  /\ NoWork(p)
  /\ polls[p] = MaxIdle
  /\ Decide(p, DropClient(view[p], id[p]), "gaveup")
  /\ nError' = [nError EXCEPT ![p] = @ + 1]
  /\ executed' = [executed EXCEPT !.nError = @ + 1]
  /\ UNCHANGED <<cur, k, polls>>

\* mutant: the time waited is not added up
KeepPollingTimeless(p) ==
  /\ NoWork(p)
  /\ Decide(p, view[p], "poll")
  /\ UNCHANGED <<cur, k, polls, nError, executed>>

KeepPolling(p) ==
  /\ NoWork(p)
  /\ polls[p] < MaxIdle
  /\ Decide(p, view[p], "poll")
  /\ polls' = [polls EXCEPT ![p] = @ + 1]
  /\ UNCHANGED <<cur, k, nError, executed>>

CommitStart(p) ==
  /\ pc[p] = "commit"
  /\ Commit(p)
  /\ pc' = [pc EXCEPT ![p] = after[p]]
  /\ runs' = IF after[p] = "run" THEN [runs EXCEPT ![cur[p]] = @ \cup {p}]
                                 ELSE runs
  /\ UNCHANGED <<master, id, cur, k, after, polls, nError, nTest, timeouts,
                 executed>>

-----------------------------------------------------------------------------
(* A client process: run_script on the claimed task. *)

Body(p) == Script[cur[p]].body
Command(p) == IF k[p] \in DOMAIN Body(p) THEN Body(p)[k[p]] ELSE "end"

RunCheck(p) ==
  /\ pc[p] = "run"
  /\ Check(p, Command(p))
  /\ k' = [k EXCEPT ![p] = @ + 1]
  /\ UNCHANGED <<master, db, view, lock, pc, id, cur, after, polls, timeouts,
                 runs>>

\* the SQL of the script opens a transaction and writes in it
RunBegin(p) ==
  /\ pc[p] = "run"
  /\ Command(p) = "begin"
  /\ BeginImmediate(p)
  /\ view' = [view EXCEPT ![p] = db]
  /\ k' = [k EXCEPT ![p] = @ + 1]
  /\ UNCHANGED <<master, db, pc, id, cur, after, polls, nError, nTest, timeouts,
                 runs, executed>>

RunCommit(p) ==
  /\ pc[p] = "run"
  /\ Command(p) = "commit"
  /\ lock = p
  /\ Commit(p)
  /\ k' = [k EXCEPT ![p] = @ + 1]
  /\ UNCHANGED <<master, pc, id, cur, after, polls, nError, nTest, timeouts,
                 runs, executed>>

\* an SQL error, counted by sql_error_cb or busy_handler: eval_sql goes on
\* after it, but the SQL at the end of the script is a run_sql, which is fatal
SqlFails(p) ==
  /\ Count(p, 1, 0)
  /\ pc' = [pc EXCEPT ![p] = IF k[p] = Len(Body(p)) THEN "dying" ELSE "run"]
  /\ k' = [k EXCEPT ![p] = @ + 1]

\* BEGIN inside a transaction or COMMIT outside one
RunMisuse(p) ==
  /\ pc[p] = "run"
  /\ Command(p) = (IF lock = p THEN "begin" ELSE "commit")
  /\ SqlFails(p)
  /\ UNCHANGED <<master, db, view, lock, id, cur, after, polls, timeouts, runs>>

\* BEGIN that stays busy for DEFAULT_TIMEOUT
RunBusyTimeout(p) ==
  /\ pc[p] = "run"
  /\ Command(p) = "begin"
  /\ ~CanWrite(p)
  /\ timeouts < MaxTimeouts
  /\ timeouts' = timeouts + 1
  /\ SqlFails(p)
  /\ UNCHANGED <<master, db, view, lock, id, cur, after, polls, runs>>

\* finish_script is two statements: UPDATE task, then DELETE FROM client
Finishing(p) == pc[p] = "run" /\ Command(p) \in {"finish", "exit", "end"}

FinishMark(p) ==
  /\ Finishing(p)
  /\ CanWrite(p)
  /\ Write(p, [Seen(p) EXCEPT !.ended = @ \cup {cur[p]}])
  /\ pc' = [pc EXCEPT ![p] = IF Command(p) = "end" THEN "poll" ELSE "drop"]
  /\ UNCHANGED <<master, lock, id, cur, k, after, polls, nError, nTest,
                 timeouts, runs, executed>>

FinishDrop(p) ==
  /\ pc[p] = "drop"
  /\ Command(p) = "finish"
  /\ CanWrite(p)
  /\ Write(p, DropClient(Seen(p), id[p]))
  /\ pc' = [pc EXCEPT ![p] = "run"]
  /\ k' = [k EXCEPT ![p] = @ + 1]
  /\ UNCHANGED <<master, lock, id, cur, after, polls, nError, nTest, timeouts,
                 runs, executed>>

\* --exit N: drop the client row and exit without closing the database
ExitDrop(p) ==
  /\ pc[p] = "drop"
  /\ Command(p) = "exit"
  /\ CanWrite(p)
  /\ IF lock = p
       THEN EndTransaction(p) /\ UNCHANGED db
       ELSE Write(p, DropClient(db, id[p])) /\ UNCHANGED lock
  /\ pc' = [pc EXCEPT ![p] = "exited"]
  /\ UNCHANGED <<master, id, cur, k, after, polls, nError, nTest, timeouts,
                 runs, executed>>

-----------------------------------------------------------------------------
(* run_sql that stays busy for DEFAULT_TIMEOUT ends in fatal_error. *)

HaltAll(tables) == [tables EXCEPT !.halt = tables.client]

\* busy_handler reports the timeout (an error, unless start_script's zero
\* timeout is in force) and run_sql is fatal; a COMMIT stays busy because of
\* readers, any other write because of the lock
BusyTimeout(p) ==
  /\ timeouts < MaxTimeouts
  /\ \/ pc[p] = "commit" /\ after[p] # "poll"
     \/ (Finishing(p) \/ pc[p] = "drop") /\ ~CanWrite(p)
  /\ Count(p, IF pc[p] = "commit" /\ after[p] = "gaveup" THEN 0 ELSE 1, 0)
  /\ timeouts' = timeouts + 1
  /\ pc' = [pc EXCEPT ![p] = "dying"]
  /\ UNCHANGED <<master, db, view, lock, id, cur, k, after, polls, runs>>

\* fatal_error asks every client to halt.  Inside the process's own open
\* transaction that UPDATE is rolled back by the exit that follows; while
\* another process holds the lock it is given up after 100 attempts.
Die(p) ==
  /\ pc[p] = "dying"
  /\ \/ lock = NoLock /\ db' = HaltAll(db) /\ UNCHANGED <<view, lock>>
     \/ lock = p /\ EndTransaction(p) /\ UNCHANGED db
     \/ lock \notin {NoLock, p} /\ UNCHANGED <<db, view, lock>>
  /\ pc' = [pc EXCEPT ![p] = "fatal"]
  /\ UNCHANGED <<master, id, cur, k, after, polls, nError, nTest, timeouts,
                 runs, executed>>

-----------------------------------------------------------------------------
(* The master: run_script on Script. *)

MasterAt(op) == mpc = "script" /\ at <= Len(Script) /\ Script[at].op = op

\* INSERT OR IGNORE INTO client; a new row spawns the process, which may fail
\* and then leaves the row without a process
StartClient(c) ==
  /\ lock = NoLock
  /\ db' = [db EXCEPT !.client = @ \cup {c}]
  /\ \/ /\ c \in db.client
        /\ UNCHANGED <<pc, id, nError, nTest, executed>>
     \/ /\ c \notin db.client
        /\ pc' = [pc EXCEPT ![at] = "poll"]
        /\ id' = [id EXCEPT ![at] = c]
        /\ UNCHANGED <<nError, nTest, executed>>
     \/ /\ c \notin db.client
        /\ Count(Master, 1, 0)
        /\ UNCHANGED <<pc, id>>

MasterStart ==
  /\ MasterAt("start") \/ MasterAt("task")
  /\ StartClient(Script[at].client)
  /\ IF Script[at].op = "task"
       THEN mpc' = "insert" /\ at' = at
       ELSE mpc' = mpc /\ at' = at + 1
  /\ UNCHANGED <<summary, view, lock, cur, k, after, polls, timeouts, runs>>

\* the second statement of --task
InsertTask ==
  /\ mpc = "insert"
  /\ lock = NoLock
  /\ db' = [db EXCEPT !.inserted = @ \cup {at}]
  /\ mpc' = "script"
  /\ at' = at + 1
  /\ UNCHANGED <<summary, view, lock, local, nError, nTest, timeouts, runs,
                 executed>>

\* the rows wait_for_client selects for client c, or for all of them
Unfinished(c) ==
  {t \in db.inserted \ db.ended :
     /\ Script[t].client \in db.client
     /\ c \in {AllClients, Script[t].client}}

\* mutant: the wait has no timeout
WaitForever(c) ==
  /\ Unfinished(c) = {}
  /\ UNCHANGED <<db, view, lock, local, nError, nTest, timeouts, runs, executed>>

\* wait_for_client ends when the query has no row, or with an error
WaitForClient(c) ==
  /\ Count(Master, IF Unfinished(c) = {} THEN 0 ELSE 1, 0)
  /\ UNCHANGED <<db, view, lock, local, timeouts, runs>>

MasterWait ==
  /\ MasterAt("wait")
  /\ WaitForClient(Script[at].client)
  /\ at' = at + 1
  /\ UNCHANGED <<mpc, summary>>

MasterCheck ==
  /\ mpc = "script" /\ at <= Len(Script)
  /\ Check(Master, Script[at].op)
  /\ at' = at + 1
  /\ UNCHANGED <<mpc, summary, db, view, lock, local, timeouts, runs>>

\* --exit in the master's own script: finish_script writes no row of its own,
\* and there is no Summary
MasterExit ==
  /\ MasterAt("exit")
  /\ lock = NoLock
  /\ mpc' = "exited"
  /\ UNCHANGED <<at, summary, db, view, lock, local, nError, nTest, timeouts,
                 runs, executed>>

MasterBusyTimeout ==
  /\ \/ MasterAt("start") \/ MasterAt("task") \/ MasterAt("exit")
     \/ mpc = "insert"
  /\ lock # NoLock
  /\ timeouts < MaxTimeouts
  /\ timeouts' = timeouts + 1
  /\ Count(Master, 1, 0)
  /\ mpc' = "dying"
  /\ UNCHANGED <<at, summary, db, view, lock, local, runs>>

MasterDie ==
  /\ mpc = "dying"
  /\ mpc' = "fatal"
  /\ IF lock = NoLock THEN db' = HaltAll(db) ELSE UNCHANGED db
  /\ UNCHANGED <<at, summary, view, lock, local, nError, nTest, timeouts, runs,
                 executed>>

-----------------------------------------------------------------------------
(* The master: the shutdown sequence of mptest_main. *)

ShutdownWait ==
  /\ mpc = "script"
  /\ at > Len(Script)
  /\ WaitForClient(AllClients)
  /\ mpc' = "halt"
  /\ UNCHANGED <<at, summary>>

\* the result of this try_sql is ignored: a busy database loses the request
\* and leaves the error message of busy_handler
RequestHalt ==
  /\ mpc = "halt"
  /\ \/ lock = NoLock /\ db' = HaltAll(db)
        /\ UNCHANGED <<nError, nTest, timeouts, executed>>
     \/ lock # NoLock /\ timeouts < MaxTimeouts
        /\ timeouts' = timeouts + 1
        /\ Count(Master, 1, 0)
        /\ UNCHANGED db
  /\ mpc' = "drain"
  /\ UNCHANGED <<at, summary, view, lock, local, runs>>

\* SELECT 1 FROM client through sqlite3_exec: it returns SQLITE_OK whether or
\* not rows are left, so the loop never waits for a client to leave
DrainClients ==
  /\ mpc = "drain"
  /\ mpc' = "sum"
  /\ UNCHANGED <<at, summary, db, view, lock, local, nError, nTest, timeouts,
                 runs, executed>>

\* the counters are left out of the Summary when a writer blocks the SELECT
\* for a whole second
ReadCounters ==
  /\ mpc = "sum"
  /\ mpc' = "done"
  /\ \/ /\ summary' = [nError |-> nError[Master] + db.nError,
                       nTest |-> nTest[Master] + db.nTest]
        /\ UNCHANGED timeouts
     \/ /\ lock # NoLock /\ timeouts < MaxTimeouts
        /\ timeouts' = timeouts + 1
        /\ summary' = [nError |-> nError[Master], nTest |-> nTest[Master]]
  /\ UNCHANGED <<at, db, view, lock, local, nError, nTest, runs, executed>>

-----------------------------------------------------------------------------
ClientStep(p) ==
  \/ StartScript(p) \/ StartScriptBusy(p) \/ StartScriptNested(p)
  \/ HaltSeen(p) \/ ClaimTask(p) \/ GiveUp(p) \/ KeepPolling(p)
  \/ CommitStart(p)
  \/ RunCheck(p) \/ RunBegin(p) \/ RunCommit(p) \/ RunMisuse(p)
  \/ FinishMark(p) \/ FinishDrop(p) \/ ExitDrop(p)
  \/ Die(p)

MasterStep ==
  \/ MasterStart \/ InsertTask \/ MasterWait \/ MasterCheck \/ MasterExit
  \/ MasterDie
  \/ ShutdownWait \/ RequestHalt \/ DrainClients \/ ReadCounters

MasterEnded == mpc \in {"done", "fatal", "exited"}

\* everything has ended: the run of the suite is over
Finished ==
  /\ MasterEnded
  /\ \A p \in Procs : pc[p] \in Terminated \cup {"unborn"}
  /\ UNCHANGED vars

Next ==
  \/ \E p \in Procs : ClientStep(p) \/ BusyTimeout(p) \/ RunBusyTimeout(p)
  \/ MasterStep
  \/ MasterBusyTimeout
  \/ Finished

Spec == Init /\ [][Next]_vars

\* every process keeps being scheduled, and one that retries a busy database
\* eventually finds it free (sqlite_sleep(10) between attempts)
Fairness ==
  /\ SF_vars(MasterStep)
  /\ \A p \in Procs : SF_vars(ClientStep(p))

FairSpec == Spec /\ Fairness

-----------------------------------------------------------------------------
(* Properties. *)

\* A task is claimed by at most one process, even while two processes serve
\* the same client number (--finish deletes the client row of a process that
\* lives on, and the next --task spawns another one): the SELECT and UPDATE of
\* start_script happen under one BEGIN IMMEDIATE.
ClaimedOnce == \A t \in TaskId : \A p, q \in runs[t] : p = q

\* The columns of a task row are filled in order: a row gets an endtime only
\* after a starttime that some process's committed claim gave it.
EndedAfterClaim ==
  /\ db.ended \subseteq db.started
  /\ db.started \subseteq db.inserted
  /\ \A t \in db.started : runs[t] # {}

\* No committed write is undone by a later COMMIT that worked on older tables,
\* whatever crashes, exits and rollbacks happen in between.
NoLostUpdate ==
  [][/\ db.inserted \subseteq db'.inserted
     /\ db.started \subseteq db'.started
     /\ db.ended \subseteq db'.ended
     /\ db.nTest <= db'.nTest /\ db.nError <= db'.nError]_vars

\* a client that leaves because it saw wantHalt has no error or test count left
\* to report: start_script flushes before it looks at wantHalt
HaltLosesNothing ==
  \A p \in Procs : pc[p] = "halted" => nError[p] = 0 /\ nTest[p] = 0

\* the counts of all processes, and those of an open transaction
Total(counts) == MapThenSumSet(LAMBDA a : counts[a], DOMAIN counts)
OpenErrors == IF lock = NoLock THEN 0 ELSE view[lock].nError - db.nError
OpenTests == IF lock = NoLock THEN 0 ELSE view[lock].nTest - db.nTest

\* Every error and every test counted so far is in the counters table, in the
\* local counters of a process (dead ones included) or in an open transaction
\* of start_script, exactly once, unless a transaction was rolled back; and the
\* Summary line never reports more of either than were counted.  A client that
\* leaves because of wantHalt has flushed its counters.
CountsConserved ==
  /\ HaltLosesNothing
  /\ (\A p \in Procs : pc[p] # "fatal") =>
       /\ executed.nTest = db.nTest + Total(nTest) + OpenTests
       /\ executed.nError = db.nError + Total(nError) + OpenErrors
  /\ mpc = "done" => /\ summary.nError <= executed.nError
                     /\ summary.nTest <= executed.nTest

\* The master always comes to an end: every wait is bounded.
MasterEnds == <>MasterEnded

\* Every client process that is spawned exits in the end, whether it is told
\* to halt, loses its row, or is left over by a master that died.  The suite
\* relies on it: it reads the pipes the clients inherit until they close.
EveryClientExits ==
  \A p \in Procs : pc[p] = "poll" ~> pc[p] \in Terminated
=============================================================================
