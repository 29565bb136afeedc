---------------------------- MODULE MptestProofs ----------------------------
(***************************************************************************)
(* Proofs about the mptest coordinator, for every script, every set of     *)
(* clients and every bound.  Inv is the inductive invariant: a process in  *)
(* a transaction holds the lock, its view differs from the committed       *)
(* tables by its own writes only, and a task has been claimed exactly when *)
(* it has a starttime.                                                     *)
(***************************************************************************)
EXTENDS Mptest, Sums

\* start_script is between BEGIN IMMEDIATE and COMMIT only under the lock
TxnHoldsLock == \A p \in Procs : pc[p] \in {"txn", "commit"} => lock = p

\* the tables of an open transaction are the committed ones and p's own writes,
\* unless p is about to exit and roll them back
Claiming(p) == pc[p] = "commit" /\ after[p] = "run"

ViewIsCurrent ==
  \A p \in Procs : lock = p /\ pc[p] # "dying" =>
    /\ view[p].inserted = db.inserted
    /\ db.ended \subseteq view[p].ended
    /\ view[p].ended \subseteq view[p].started
    /\ db.nError <= view[p].nError /\ db.nTest <= view[p].nTest
    /\ Claiming(p) =>
         /\ cur[p] \in db.inserted \ db.started
         /\ view[p].started = db.started \cup {cur[p]}
    /\ ~Claiming(p) => view[p].started = db.started

\* a process that runs a task has committed its claim
RunsClaimedTask ==
  \A p \in Procs : pc[p] \in {"run", "drop"} => cur[p] \in db.started

ClaimedIffStarted ==
  \A t \in TaskId : t \notin db.started => runs[t] = {}

\* between the two statements of --task the master is at a --task
InsertsTask == mpc = "insert" => at \in TaskId

Inv ==
  /\ TypeOK
  /\ InsertsTask
  /\ TxnHoldsLock
  /\ ViewIsCurrent
  /\ RunsClaimedTask
  /\ ClaimedIffStarted
  /\ ClaimedOnce
  /\ EndedAfterClaim

-----------------------------------------------------------------------------
LEMMA ConstantTypes ==
  /\ Procs \subseteq Nat \ {0}
  /\ TaskId \subseteq Procs
  /\ 0 \notin Procs
  /\ Master = 0 /\ NoLock = 0
  /\ Agents = Procs \cup {0}
  /\ MaxIdle \in Nat /\ MaxTimeouts \in Nat
  /\ Len(Script) \in Nat
  /\ DOMAIN Script = 1..Len(Script)
  /\ \A n \in Procs : Script[n].client \in Clients
BY MptestAssumption DEF Procs, TaskId, Master, NoLock, Agents

\* what the statements of the suite do to well-typed tables
LEMMA FlushType ==
  \A d \in Tables, e, n \in Nat :
    [d EXCEPT !.nError = @ + e, !.nTest = @ + n] \in Tables
<1> SUFFICES ASSUME NEW d \in Tables, NEW e \in Nat, NEW n \in Nat
             PROVE  [d EXCEPT !.nError = @ + e, !.nTest = @ + n] \in Tables
  OBVIOUS
<1>1. d.nError + e \in Nat /\ d.nTest + n \in Nat
  BY DEF Tables
<1> QED
  BY <1>1 DEF Tables

LEMMA TaskType ==
  \A d \in Tables, t \in TaskId :
    /\ [d EXCEPT !.inserted = @ \cup {t}] \in Tables
    /\ [d EXCEPT !.started = @ \cup {t}] \in Tables
    /\ [d EXCEPT !.ended = @ \cup {t}] \in Tables
<1> SUFFICES ASSUME NEW d \in Tables, NEW t \in TaskId
             PROVE  /\ [d EXCEPT !.inserted = @ \cup {t}] \in Tables
                    /\ [d EXCEPT !.started = @ \cup {t}] \in Tables
                    /\ [d EXCEPT !.ended = @ \cup {t}] \in Tables
  OBVIOUS
<1>1. /\ d.inserted \cup {t} \in SUBSET TaskId
      /\ d.started \cup {t} \in SUBSET TaskId
      /\ d.ended \cup {t} \in SUBSET TaskId
  BY DEF Tables
<1> QED
  BY <1>1 DEF Tables

LEMMA ClientType ==
  \A d \in Tables, c \in Clients : [d EXCEPT !.client = @ \cup {c}] \in Tables
<1> SUFFICES ASSUME NEW d \in Tables, NEW c \in Clients
             PROVE  [d EXCEPT !.client = @ \cup {c}] \in Tables
  OBVIOUS
<1>1. d.client \cup {c} \in SUBSET Clients
  BY DEF Tables
<1> QED
  BY <1>1 DEF Tables

LEMMA DropType == \A d \in Tables : \A c : DropClient(d, c) \in Tables
<1> SUFFICES ASSUME NEW d \in Tables, NEW c PROVE DropClient(d, c) \in Tables
  OBVIOUS
<1>1. d.client \ {c} \in SUBSET Clients /\ d.halt \ {c} \in SUBSET Clients
  BY DEF Tables
<1> QED
  BY <1>1 DEF Tables, DropClient

LEMMA DropFields ==
  \A d \in Tables : \A c :
    /\ DropClient(d, c).inserted = d.inserted
    /\ DropClient(d, c).started = d.started
    /\ DropClient(d, c).ended = d.ended
    /\ DropClient(d, c).nError = d.nError
    /\ DropClient(d, c).nTest = d.nTest
BY DEF Tables, DropClient

LEMMA HaltFields ==
  \A d \in Tables :
    /\ HaltAll(d).inserted = d.inserted
    /\ HaltAll(d).started = d.started
    /\ HaltAll(d).ended = d.ended
    /\ HaltAll(d).nError = d.nError
    /\ HaltAll(d).nTest = d.nTest
BY DEF Tables, HaltAll

LEMMA HaltType == \A d \in Tables : HaltAll(d) \in Tables
BY DEF Tables, HaltAll

LEMMA NewType == NewTables \in Tables
BY DEF Tables, NewTables

-----------------------------------------------------------------------------
(* Type correctness. *)

Counters == nError \in [Agents -> Nat] /\ nTest \in [Agents -> Nat]
              /\ executed \in [nError : Nat, nTest : Nat]

LEMMA CountType ==
  ASSUME TypeOK, NEW a \in Agents, NEW e \in Nat, NEW n \in Nat, Count(a, e, n)
  PROVE  Counters'
<1>1. executed.nError + e \in Nat /\ executed.nTest + n \in Nat
  BY SMTT(40) DEF TypeOK
<1>2. executed' \in [nError : Nat, nTest : Nat]
  BY <1>1 DEF Count
<1>3. nError' \in [Agents -> Nat]
  BY SMTT(40) DEF TypeOK, Count
<1>4. nTest' \in [Agents -> Nat]
  BY SMTT(40) DEF TypeOK, Count
<1> QED
  BY <1>2, <1>3, <1>4 DEF Counters

\* start_script and its outcomes
LEMMA TypeStart ==
  ASSUME TypeOK, NEW p \in Procs,
         \/ StartScript(p) \/ StartScriptBusy(p) \/ StartScriptNested(p)
         \/ HaltSeen(p) \/ ClaimTask(p) \/ GiveUp(p) \/ KeepPolling(p)
         \/ CommitStart(p)
  PROVE  TypeOK'
<1>1. CASE StartScript(p)
  <2>1. view' \in [Procs -> Tables]
    BY <1>1, FlushType DEF TypeOK, StartScript, FlushedTables, Agents
  <2>2. lock' \in Procs \cup {NoLock} /\ pc' \in [Procs -> ClientStates]
    BY <1>1 DEF TypeOK, StartScript, BeginImmediate, ClientStates
  <2>3. nError' \in [Agents -> Nat] /\ nTest' \in [Agents -> Nat]
    BY <1>1 DEF TypeOK, StartScript
  <2> QED
    BY <1>1, <2>1, <2>2, <2>3 DEF TypeOK, StartScript, master
<1>2. CASE StartScriptBusy(p)
  <2>1. polls' \in [Procs -> 0..MaxIdle]
    BY <1>2, MptestAssumption DEF TypeOK, StartScriptBusy
  <2> QED
    BY <1>2, <2>1 DEF TypeOK, StartScriptBusy, master
<1>3. CASE StartScriptNested(p)
  <2>1. Counters'
    BY <1>3, CountType DEF StartScriptNested, Agents
  <2>2. pc' \in [Procs -> ClientStates]
    BY <1>3 DEF TypeOK, StartScriptNested, ClientStates
  <2> QED
    BY <1>3, <2>1, <2>2 DEF TypeOK, StartScriptNested, Counters, master
<1>4. CASE HaltSeen(p)
  <2>1. view' \in [Procs -> Tables]
    BY <1>4, DropType DEF TypeOK, HaltSeen, Decide
  <2>2. /\ pc' \in [Procs -> ClientStates]
        /\ after' \in [Procs -> {"poll", "run", "halted", "gaveup"}]
    BY <1>4 DEF TypeOK, HaltSeen, Decide, ClientStates
  <2> QED
    BY <1>4, <2>1, <2>2 DEF TypeOK, HaltSeen, Decide, master
<1>5. CASE ClaimTask(p)
  <2>1. PICK t \in Waiting(view[p], id[p]) :
          /\ Decide(p, [view[p] EXCEPT !.started = @ \cup {t}], "run")
          /\ cur' = [cur EXCEPT ![p] = t]
    BY <1>5 DEF ClaimTask
  <2>2. t \in TaskId
    BY DEF TypeOK, Waiting, Tables
  <2>3. view' \in [Procs -> Tables]
    BY <2>1, <2>2, TaskType DEF TypeOK, Decide
  <2>4. /\ pc' \in [Procs -> ClientStates]
        /\ after' \in [Procs -> {"poll", "run", "halted", "gaveup"}]
    BY <2>1 DEF TypeOK, Decide, ClientStates
  <2>5. /\ cur' \in [Procs -> TaskId \cup {0}]
        /\ k' \in [Procs -> Nat]
        /\ polls' \in [Procs -> 0..MaxIdle]
    BY <1>5, <2>1, <2>2, MptestAssumption DEF TypeOK, ClaimTask
  <2> QED
    BY <1>5, <2>1, <2>3, <2>4, <2>5 DEF TypeOK, ClaimTask, Decide, master
<1>6. CASE GiveUp(p)
  <2>1. view' \in [Procs -> Tables]
    BY <1>6, DropType DEF TypeOK, GiveUp, Decide
  <2>2. /\ pc' \in [Procs -> ClientStates]
        /\ after' \in [Procs -> {"poll", "run", "halted", "gaveup"}]
    BY <1>6 DEF TypeOK, GiveUp, Decide, ClientStates
  <2>3. nError' \in [Agents -> Nat]
    BY <1>6, SMTT(40) DEF TypeOK, GiveUp, Agents
  <2>4. executed.nError + 1 \in Nat
    BY DEF TypeOK
  <2>5. executed' \in [nError : Nat, nTest : Nat]
    BY <1>6, <2>4 DEF TypeOK, GiveUp
  <2> QED
    BY <1>6, <2>1, <2>2, <2>3, <2>5 DEF TypeOK, GiveUp, Decide, master
<1>7. CASE KeepPolling(p)
  <2>1. view' \in [Procs -> Tables]
    BY <1>7 DEF TypeOK, KeepPolling, Decide
  <2>2. /\ pc' \in [Procs -> ClientStates]
        /\ after' \in [Procs -> {"poll", "run", "halted", "gaveup"}]
    BY <1>7 DEF TypeOK, KeepPolling, Decide, ClientStates
  <2>3. polls' \in [Procs -> 0..MaxIdle]
    BY <1>7, MptestAssumption DEF TypeOK, KeepPolling
  <2> QED
    BY <1>7, <2>1, <2>2, <2>3 DEF TypeOK, KeepPolling, Decide, master
<1>8. CASE CommitStart(p)
  <2>1. /\ db' \in Tables
        /\ view' \in [Procs -> Tables]
        /\ lock' \in Procs \cup {NoLock}
    BY <1>8, NewType DEF TypeOK, CommitStart, Commit, EndTransaction
  <2>2. pc' \in [Procs -> ClientStates]
    BY <1>8 DEF TypeOK, CommitStart, ClientStates, Terminated
  <2>3. runs' \in [TaskId -> SUBSET Procs]
    BY <1>8 DEF TypeOK, CommitStart
  <2> QED
    BY <1>8, <2>1, <2>2, <2>3 DEF TypeOK, CommitStart, master
<1> QED
  BY <1>1, <1>2, <1>3, <1>4, <1>5, <1>6, <1>7, <1>8

\* run_script on a task, and the ends of a process
LEMMA TypeRun ==
  ASSUME TypeOK, RunsClaimedTask, NEW p \in Procs,
         \/ RunCheck(p) \/ RunBegin(p) \/ RunCommit(p) \/ RunMisuse(p)
         \/ RunBusyTimeout(p) \/ FinishMark(p) \/ FinishDrop(p) \/ ExitDrop(p)
         \/ BusyTimeout(p) \/ Die(p)
  PROVE  TypeOK'
<1>1. CASE RunCheck(p)
  <2>1. Counters'
    BY <1>1, CountType DEF RunCheck, Check, Agents
  <2>2. k' \in [Procs -> Nat]
    BY <1>1 DEF TypeOK, RunCheck
  <2> QED
    BY <1>1, <2>1, <2>2 DEF TypeOK, RunCheck, Counters, master
<1>2. CASE RunBegin(p)
  <2>1. k' \in [Procs -> Nat] /\ lock' \in Procs \cup {NoLock}
    BY <1>2 DEF TypeOK, RunBegin, BeginImmediate
  <2>2. view' \in [Procs -> Tables]
    BY <1>2 DEF TypeOK, RunBegin
  <2> QED
    BY <1>2, <2>1, <2>2 DEF TypeOK, RunBegin, master
<1>3. CASE RunCommit(p)
  <2>1. /\ db' \in Tables
        /\ view' \in [Procs -> Tables]
        /\ lock' \in Procs \cup {NoLock}
    BY <1>3, NewType DEF TypeOK, RunCommit, Commit, EndTransaction
  <2>2. k' \in [Procs -> Nat]
    BY <1>3 DEF TypeOK, RunCommit
  <2> QED
    BY <1>3, <2>1, <2>2 DEF TypeOK, RunCommit, master
<1>4. ASSUME SqlFails(p)
      PROVE  Counters' /\ pc' \in [Procs -> ClientStates] /\ k' \in [Procs -> Nat]
  <2>1. Counters'
    BY <1>4, CountType DEF SqlFails, Agents
  <2> QED
    BY <1>4, <2>1 DEF TypeOK, SqlFails, ClientStates
<1>5. CASE RunMisuse(p)
  BY <1>4, <1>5 DEF TypeOK, RunMisuse, Counters, master
<1>6. CASE RunBusyTimeout(p)
  <2>1. timeouts' \in 0..MaxTimeouts
    BY <1>6, MptestAssumption, SMTT(40) DEF TypeOK, RunBusyTimeout
  <2> QED
    BY <1>4, <1>6, <2>1 DEF TypeOK, RunBusyTimeout, Counters, master
<1>7. CASE FinishMark(p)
  <2>1. cur[p] \in TaskId
    BY <1>7 DEF TypeOK, Tables, RunsClaimedTask, FinishMark, Finishing
  <2>2. [Seen(p) EXCEPT !.ended = @ \cup {cur[p]}] \in Tables
    BY <2>1, TaskType DEF TypeOK, Seen
  <2>3. db' \in Tables /\ view' \in [Procs -> Tables]
    BY <1>7, <2>2 DEF TypeOK, FinishMark, Write
  <2>4. pc' \in [Procs -> ClientStates]
    BY <1>7 DEF TypeOK, FinishMark, ClientStates
  <2> QED
    BY <1>7, <2>3, <2>4 DEF TypeOK, FinishMark, master
<1>8. CASE FinishDrop(p)
  <2>1. DropClient(Seen(p), id[p]) \in Tables
    BY DropType DEF TypeOK, Seen
  <2>2. db' \in Tables /\ view' \in [Procs -> Tables]
    BY <1>8, <2>1, ZenonT(60) DEF TypeOK, FinishDrop, Write
  <2>3. pc' \in [Procs -> ClientStates] /\ k' \in [Procs -> Nat]
    BY <1>8 DEF TypeOK, FinishDrop, ClientStates
  <2> QED
    BY <1>8, <2>2, <2>3 DEF TypeOK, FinishDrop, master
<1>9. CASE ExitDrop(p)
  <2>1. /\ db' \in Tables
        /\ view' \in [Procs -> Tables]
        /\ lock' \in Procs \cup {NoLock}
    <3>1. CASE lock = p
      BY <1>9, <3>1, NewType, ZenonT(60) DEF TypeOK, ExitDrop, EndTransaction
    <3>2. CASE lock # p
      BY <1>9, <3>2, DropType DEF TypeOK, ExitDrop, Write
    <3> QED
      BY <3>1, <3>2
  <2>2. pc' \in [Procs -> ClientStates]
    BY <1>9 DEF TypeOK, ExitDrop, ClientStates, Terminated
  <2> QED
    BY <1>9, <2>1, <2>2 DEF TypeOK, ExitDrop, master
<1>10. CASE BusyTimeout(p)
  <2>1. Counters'
    BY <1>10, CountType DEF BusyTimeout, Agents
  <2>2. timeouts' \in 0..MaxTimeouts
    BY <1>10, MptestAssumption DEF TypeOK, BusyTimeout
  <2>3. pc' \in [Procs -> ClientStates]
    BY <1>10 DEF TypeOK, BusyTimeout, ClientStates
  <2> QED
    BY <1>10, <2>1, <2>2, <2>3 DEF TypeOK, BusyTimeout, Counters, master
<1>11. CASE Die(p)
  <2>1. /\ db' \in Tables
        /\ view' \in [Procs -> Tables]
        /\ lock' \in Procs \cup {NoLock}
    BY <1>11, HaltType, NewType DEF TypeOK, Die, EndTransaction
  <2>2. pc' \in [Procs -> ClientStates]
    BY <1>11 DEF TypeOK, Die, ClientStates, Terminated
  <2> QED
    BY <1>11, <2>1, <2>2 DEF TypeOK, Die, master
<1> QED
  BY <1>1, <1>2, <1>3, <1>5, <1>6, <1>7, <1>8, <1>9, <1>10, <1>11

\* the master
LEMMA TypeMaster ==
  ASSUME TypeOK, InsertsTask, MasterStep \/ MasterBusyTimeout
  PROVE  TypeOK'
<1>0. Master \in Agents
  BY DEF Agents
<1>a. Len(Script) \in Nat /\ DOMAIN Script = 1..Len(Script)
  BY ConstantTypes
<1>1. CASE MasterStart
  <2>1. at \in Procs /\ Script[at].client \in Clients
    <3>1. at \in DOMAIN Script /\ Script[at].op \in {"task", "start"}
      BY <1>1, <1>a DEF TypeOK, MasterStart, MasterAt
    <3> QED
      BY <3>1, MptestAssumption DEF Procs
  <2>2. db' \in Tables
    BY <1>1, <2>1, ClientType DEF TypeOK, MasterStart, StartClient
  <2>3. pc' \in [Procs -> ClientStates] /\ id' \in [Procs -> Clients \cup {0}]
    BY <1>1, <2>1 DEF TypeOK, MasterStart, StartClient, ClientStates
  <2>4. Counters'
    BY <1>1, CountType, <1>0
       DEF TypeOK, MasterStart, StartClient, Counters, Agents
  <2>5. mpc' \in MasterStates /\ at' \in 1..Len(Script) + 1
    BY <1>1, <1>a DEF TypeOK, MasterStart, MasterAt, MasterStates
  <2> QED
    BY <1>1, <2>2, <2>3, <2>4, <2>5 DEF TypeOK, MasterStart, Counters
<1>2. CASE InsertTask
  <2>1. at \in TaskId /\ at \in 1..Len(Script)
    BY <1>2, <1>a DEF InsertTask, InsertsTask, TaskId
  <2>2. db' \in Tables
    BY <1>2, <2>1, TaskType DEF TypeOK, InsertTask
  <2>3. mpc' \in MasterStates /\ at' \in 1..Len(Script) + 1
    BY <1>2, <2>1, <1>a DEF InsertTask, MasterStates
  <2> QED
    BY <1>2, <2>2, <2>3 DEF TypeOK, InsertTask, local
<1>3. CASE MasterWait
  <2>1. Counters'
    BY <1>3, CountType, <1>0 DEF MasterWait, WaitForClient
  <2>2. at' \in 1..Len(Script) + 1
    BY <1>3, <1>a DEF TypeOK, MasterWait, MasterAt
  <2> QED
    BY <1>3, <2>1, <2>2
       DEF TypeOK, MasterWait, WaitForClient, Counters, local
<1>4. CASE MasterCheck
  <2>1. Counters'
    BY <1>4, CountType, <1>0 DEF MasterCheck, Check
  <2>2. at' \in 1..Len(Script) + 1
    BY <1>4, <1>a DEF TypeOK, MasterCheck
  <2> QED
    BY <1>4, <2>1, <2>2 DEF TypeOK, MasterCheck, Counters, local
<1>5. CASE MasterExit
  BY <1>5 DEF TypeOK, MasterExit, MasterStates, local
<1>6. CASE MasterDie
  <2>1. db' \in Tables
    BY <1>6, HaltType DEF TypeOK, MasterDie
  <2> QED
    BY <1>6, <2>1 DEF TypeOK, MasterDie, MasterStates, local
<1>7. CASE ShutdownWait
  <2>1. Counters'
    BY <1>7, CountType, <1>0 DEF ShutdownWait, WaitForClient
  <2> QED
    BY <1>7, <2>1
       DEF TypeOK, ShutdownWait, WaitForClient, Counters, MasterStates, local
<1>8. CASE RequestHalt
  <2>1. Counters'
    BY <1>8, CountType, <1>0 DEF TypeOK, RequestHalt, Counters
  <2>2. db' \in Tables
    BY <1>8, HaltType DEF TypeOK, RequestHalt
  <2>3. timeouts' \in 0..MaxTimeouts
    BY <1>8, MptestAssumption DEF TypeOK, RequestHalt
  <2> QED
    BY <1>8, <2>1, <2>2, <2>3
       DEF TypeOK, RequestHalt, Counters, MasterStates, local
<1>9. CASE DrainClients
  BY <1>9 DEF TypeOK, DrainClients, MasterStates, local
<1>10. CASE ReadCounters
  <2>1. nError[Master] + db.nError \in Nat /\ nTest[Master] + db.nTest \in Nat
    <3>1. db.nError \in Nat /\ db.nTest \in Nat
      BY DEF TypeOK, Tables
    <3>2. nError[Master] \in Nat /\ nTest[Master] \in Nat
      BY <1>0 DEF TypeOK
    <3> QED
      BY <3>1, <3>2
  <2>2. summary' \in [nError : Nat, nTest : Nat]
    BY <1>0, <1>10, <2>1, SMTT(40) DEF ReadCounters, TypeOK
  <2>3. timeouts' \in 0..MaxTimeouts
    BY <1>10, MptestAssumption, SMTT(40) DEF TypeOK, ReadCounters
  <2> QED
    BY <1>10, <2>2, <2>3 DEF TypeOK, ReadCounters, MasterStates, local
<1>11. CASE MasterBusyTimeout
  <2>1. Counters'
    BY <1>11, CountType, <1>0 DEF MasterBusyTimeout
  <2>2. timeouts' \in 0..MaxTimeouts
    BY <1>11, MptestAssumption DEF TypeOK, MasterBusyTimeout
  <2> QED
    BY <1>11, <2>1, <2>2
       DEF TypeOK, MasterBusyTimeout, Counters, MasterStates, local
<1> QED
  BY <1>1, <1>2, <1>3, <1>4, <1>5, <1>6, <1>7, <1>8, <1>9, <1>10, <1>11
     DEF MasterStep

-----------------------------------------------------------------------------
(* The safety part of the invariant. *)

Safe ==
  /\ TxnHoldsLock
  /\ ViewIsCurrent
  /\ RunsClaimedTask
  /\ ClaimedIffStarted
  /\ ClaimedOnce
  /\ EndedAfterClaim

\* a step that writes nothing, releases nothing and starts nothing
LEMMA QuietStep ==
  ASSUME Inv, UNCHANGED <<db, view, lock, cur, after, runs>>,
         \A q \in Procs : \/ pc'[q] = pc[q]
                          \/ pc'[q] = "dying"
                          \/ pc[q] = "unborn" /\ pc'[q] = "poll"
  PROVE  Safe'
<1>1. TxnHoldsLock' /\ RunsClaimedTask'
  BY DEF Inv, TxnHoldsLock, RunsClaimedTask
<1>2. ViewIsCurrent'
  BY DEF Inv, TypeOK, ViewIsCurrent, Claiming
<1> QED
  BY <1>1, <1>2
     DEF Inv, Safe, ClaimedIffStarted, ClaimedOnce, EndedAfterClaim

\* a statement outside any transaction that touches no starttime or endtime
LEMMA UnlockedStep ==
  ASSUME Inv, lock = NoLock, lock' = NoLock, UNCHANGED <<cur, runs>>,
         db'.started = db.started, db'.ended = db.ended,
         db.inserted \subseteq db'.inserted,
         \A q \in Procs :
           /\ pc'[q] \in {"txn", "commit"} => pc'[q] = pc[q]
           /\ pc'[q] \in {"run", "drop"} => pc[q] \in {"run", "drop"}
  PROVE  Safe'
<1>1. TxnHoldsLock' /\ RunsClaimedTask'
  BY DEF Inv, TxnHoldsLock, RunsClaimedTask
<1>2. ViewIsCurrent'
  BY ConstantTypes DEF ViewIsCurrent
<1>3. ClaimedIffStarted' /\ ClaimedOnce' /\ EndedAfterClaim'
  BY DEF Inv, ClaimedIffStarted, ClaimedOnce, EndedAfterClaim
<1> QED
  BY <1>1, <1>2, <1>3 DEF Safe

\* the exit of a process that holds the lock rolls its transaction back
LEMMA RollbackStep ==
  ASSUME Inv, NEW p \in Procs, lock = p, lock' = NoLock,
         UNCHANGED <<db, cur, runs>>,
         NEW x \in Terminated, pc' = [pc EXCEPT ![p] = x]
  PROVE  Safe'
<1>1. \A q \in Procs : q # p => pc'[q] = pc[q] /\ pc[q] \notin {"txn", "commit"}
  BY DEF Inv, TypeOK, TxnHoldsLock
<1>2. pc'[p] = x /\ x \notin {"txn", "commit", "run", "drop"}
  BY DEF Inv, TypeOK, Terminated
<1>3. TxnHoldsLock' /\ RunsClaimedTask'
  BY <1>1, <1>2 DEF Inv, TxnHoldsLock, RunsClaimedTask
<1>4. ViewIsCurrent'
  BY ConstantTypes DEF ViewIsCurrent
<1> QED
  BY <1>3, <1>4 DEF Inv, Safe, ClaimedIffStarted, ClaimedOnce, EndedAfterClaim

\* start_script: the transaction begins with a copy of the committed tables
LEMMA SafeBegin ==
  ASSUME Inv, NEW p \in Procs, lock = NoLock, lock' = p,
         UNCHANGED <<db, cur, runs>>,
         NEW x \in {"txn", "run"}, pc' = [pc EXCEPT ![p] = x],
         x = "run" => pc[p] = "run",
         view'[p].inserted = db.inserted, view'[p].started = db.started,
         view'[p].ended = db.ended,
         db.nError <= view'[p].nError, db.nTest <= view'[p].nTest
  PROVE  Safe'
<1>1. \A q \in Procs : q # p => pc'[q] = pc[q] /\ pc[q] \notin {"txn", "commit"}
  BY ConstantTypes DEF Inv, TypeOK, TxnHoldsLock
<1>2. pc'[p] = x
  BY DEF Inv, TypeOK
<1>3. TxnHoldsLock' /\ RunsClaimedTask'
  BY <1>1, <1>2 DEF Inv, TxnHoldsLock, RunsClaimedTask
<1>4. ViewIsCurrent'
  BY <1>2 DEF Inv, ViewIsCurrent, Claiming, EndedAfterClaim
<1> QED
  BY <1>3, <1>4 DEF Inv, Safe, ClaimedIffStarted, ClaimedOnce, EndedAfterClaim

\* a decision of start_script other than a claim leaves the task table alone
LEMMA SafeDecide ==
  ASSUME Inv, NEW p \in Procs, NEW d, NEW x \in {"poll", "halted", "gaveup"},
         Decide(p, d, x), cur' = cur,
         d.inserted = view[p].inserted, d.started = view[p].started,
         d.ended = view[p].ended, d.nError = view[p].nError,
         d.nTest = view[p].nTest
  PROVE  Safe'
<1>1. /\ pc[p] = "txn" /\ lock = p /\ UNCHANGED <<db, lock, runs>>
      /\ pc'[p] = "commit" /\ after'[p] = x /\ view'[p] = d
      /\ \A q \in Procs : q # p => pc'[q] = pc[q]
  BY DEF Inv, TypeOK, TxnHoldsLock, Decide
<1>2. TxnHoldsLock' /\ RunsClaimedTask'
  BY <1>1 DEF Inv, TxnHoldsLock, RunsClaimedTask
<1>3. ViewIsCurrent'
  BY <1>1 DEF Inv, ViewIsCurrent, Claiming
<1> QED
  BY <1>1, <1>2, <1>3
     DEF Inv, Safe, ClaimedIffStarted, ClaimedOnce, EndedAfterClaim

LEMMA SafeClaim ==
  ASSUME Inv, NEW p \in Procs, ClaimTask(p)
  PROVE  Safe'
<1>1. PICK t \in Waiting(view[p], id[p]) :
        /\ Decide(p, [view[p] EXCEPT !.started = @ \cup {t}], "run")
        /\ cur' = [cur EXCEPT ![p] = t]
  BY DEF ClaimTask
<1>2. /\ pc[p] = "txn" /\ lock = p /\ UNCHANGED <<db, lock, runs>>
      /\ pc'[p] = "commit" /\ after'[p] = "run" /\ cur'[p] = t
      /\ \A q \in Procs : q # p => pc'[q] = pc[q] /\ cur'[q] = cur[q]
  BY <1>1 DEF Inv, TypeOK, TxnHoldsLock, Decide
<1>3. /\ view'[p].inserted = view[p].inserted
      /\ view'[p].started = view[p].started \cup {t}
      /\ view'[p].ended = view[p].ended
      /\ view'[p].nError = view[p].nError /\ view'[p].nTest = view[p].nTest
  BY <1>1 DEF Inv, TypeOK, Tables, Decide
<1>4. TxnHoldsLock' /\ RunsClaimedTask'
  BY <1>2 DEF Inv, TxnHoldsLock, RunsClaimedTask
<1>5. t \in db.inserted \ db.started
  BY <1>2 DEF Inv, ViewIsCurrent, Claiming, Waiting
<1>6. ViewIsCurrent'
  BY <1>2, <1>3, <1>5 DEF Inv, ViewIsCurrent, Claiming
<1> QED
  BY <1>2, <1>4, <1>6
     DEF Inv, Safe, ClaimedIffStarted, ClaimedOnce, EndedAfterClaim

LEMMA SafeCommitStart ==
  ASSUME Inv, NEW p \in Procs, CommitStart(p)
  PROVE  Safe'
<1>1. /\ pc[p] = "commit" /\ lock = p /\ lock' = NoLock /\ db' = view[p]
      /\ pc'[p] = after[p] /\ cur' = cur /\ UNCHANGED after
      /\ \A q \in Procs : q # p => pc'[q] = pc[q] /\ pc[q] \notin {"txn", "commit"}
  BY DEF Inv, TypeOK, TxnHoldsLock, CommitStart, Commit, EndTransaction
<1>2. after[p] \in {"poll", "run", "halted", "gaveup"}
  BY DEF Inv, TypeOK
<1>3. /\ db'.inserted = db.inserted /\ db'.ended \subseteq db'.started
      /\ db.started \subseteq db'.started
      /\ after[p] = "run" => /\ cur[p] \in db.inserted \ db.started
                             /\ db'.started = db.started \cup {cur[p]}
      /\ after[p] # "run" => db'.started = db.started
  BY <1>1 DEF Inv, ViewIsCurrent, Claiming
<1>4. TxnHoldsLock' /\ RunsClaimedTask'
  BY <1>1, <1>2, <1>3 DEF Inv, TxnHoldsLock, RunsClaimedTask
<1>5. ViewIsCurrent'
  BY <1>1, ConstantTypes DEF ViewIsCurrent
<1>6. CASE after[p] = "run"
  <2>1. cur[p] \in TaskId /\ runs[cur[p]] = {}
    BY <1>3, <1>6 DEF Inv, TypeOK, Tables, ClaimedIffStarted
  <2>2. /\ runs'[cur[p]] = {p}
        /\ \A t \in TaskId : t # cur[p] => runs'[t] = runs[t]
    BY <1>6, <2>1 DEF Inv, TypeOK, CommitStart
  <2>3. ClaimedIffStarted' /\ ClaimedOnce'
    BY <1>3, <1>6, <2>1, <2>2 DEF Inv, ClaimedIffStarted, ClaimedOnce
  <2>4. db.started \subseteq TaskId
    BY DEF Inv, TypeOK, Tables
  <2>5. EndedAfterClaim'
    BY <1>3, <1>6, <2>1, <2>2, <2>4 DEF Inv, EndedAfterClaim
  <2> QED
    BY <1>4, <1>5, <2>3, <2>5 DEF Safe
<1>7. CASE after[p] # "run"
  <2>1. UNCHANGED runs
    BY <1>7 DEF CommitStart
  <2>2. ClaimedIffStarted' /\ ClaimedOnce' /\ EndedAfterClaim'
    BY <1>3, <1>7, <2>1 DEF Inv, ClaimedIffStarted, ClaimedOnce, EndedAfterClaim
  <2> QED
    BY <1>4, <1>5, <2>2 DEF Safe
<1> QED
  BY <1>6, <1>7

LEMMA SafeRunCommit ==
  ASSUME Inv, NEW p \in Procs, RunCommit(p)
  PROVE  Safe'
<1>1. /\ pc[p] = "run" /\ lock = p /\ lock' = NoLock /\ db' = view[p]
      /\ UNCHANGED <<pc, cur, after, runs>>
      /\ \A q \in Procs : pc[q] \notin {"txn", "commit"}
  BY DEF Inv, TypeOK, TxnHoldsLock, RunCommit, Commit, EndTransaction
<1>2. /\ db'.inserted = db.inserted /\ db'.ended \subseteq db'.started
      /\ db'.started = db.started
  BY <1>1 DEF Inv, ViewIsCurrent, Claiming
<1>3. TxnHoldsLock' /\ RunsClaimedTask'
  BY <1>1, <1>2 DEF Inv, TxnHoldsLock, RunsClaimedTask
<1>4. ViewIsCurrent'
  BY <1>1, ConstantTypes DEF ViewIsCurrent
<1>5. ClaimedIffStarted' /\ ClaimedOnce' /\ EndedAfterClaim'
  BY <1>1, <1>2 DEF Inv, ClaimedIffStarted, ClaimedOnce, EndedAfterClaim
<1> QED
  BY <1>3, <1>4, <1>5 DEF Safe

\* the UPDATE of finish_script, autocommitted or in the script's transaction
LEMMA SafeFinishMark ==
  ASSUME Inv, NEW p \in Procs, FinishMark(p)
  PROVE  Safe'
<1>1. /\ pc[p] = "run" /\ pc'[p] \in {"poll", "drop"}
      /\ lock \in {NoLock, p} /\ UNCHANGED <<lock, cur, after, runs>>
      /\ \A q \in Procs : q # p => pc'[q] = pc[q]
  BY DEF Inv, TypeOK, FinishMark, Finishing, CanWrite
<1>2. cur[p] \in db.started
  BY <1>1 DEF Inv, RunsClaimedTask
<1>3. CASE lock = p
  <2>1. /\ UNCHANGED db
        /\ view'[p].inserted = view[p].inserted
        /\ view'[p].started = view[p].started
        /\ view'[p].ended = view[p].ended \cup {cur[p]}
        /\ view'[p].nError = view[p].nError /\ view'[p].nTest = view[p].nTest
    BY <1>3 DEF Inv, TypeOK, Tables, FinishMark, Write, Seen
  <2>2. TxnHoldsLock' /\ RunsClaimedTask'
    BY <1>1, <1>2, <2>1 DEF Inv, TxnHoldsLock, RunsClaimedTask
  <2>3. ViewIsCurrent'
    BY <1>1, <1>2, <1>3, <2>1 DEF Inv, ViewIsCurrent, Claiming
  <2> QED
    BY <1>1, <2>1, <2>2, <2>3
       DEF Inv, Safe, ClaimedIffStarted, ClaimedOnce, EndedAfterClaim
<1>4. CASE lock # p
  <2>1. /\ db'.inserted = db.inserted /\ db'.started = db.started
        /\ db'.ended = db.ended \cup {cur[p]}
    BY <1>4 DEF Inv, TypeOK, Tables, FinishMark, Write, Seen
  <2>2. TxnHoldsLock' /\ RunsClaimedTask'
    BY <1>1, <1>2, <2>1 DEF Inv, TxnHoldsLock, RunsClaimedTask
  <2>3. ViewIsCurrent'
    BY <1>1, <1>4, ConstantTypes DEF ViewIsCurrent
  <2> QED
    BY <1>1, <1>2, <2>1, <2>2, <2>3
       DEF Inv, Safe, ClaimedIffStarted, ClaimedOnce, EndedAfterClaim
<1> QED
  BY <1>3, <1>4

LEMMA SafeFinishDrop ==
  ASSUME Inv, NEW p \in Procs, FinishDrop(p)
  PROVE  Safe'
<1>1. /\ pc[p] = "drop" /\ pc'[p] = "run"
      /\ lock \in {NoLock, p} /\ UNCHANGED <<lock, cur, after, runs>>
      /\ \A q \in Procs : q # p => pc'[q] = pc[q]
  BY DEF Inv, TypeOK, FinishDrop, CanWrite
<1>2. CASE lock = p
  <2>1. /\ UNCHANGED db
        /\ view'[p].inserted = view[p].inserted
        /\ view'[p].started = view[p].started
        /\ view'[p].ended = view[p].ended
        /\ view'[p].nError = view[p].nError /\ view'[p].nTest = view[p].nTest
    <3>1. /\ UNCHANGED db /\ view[p] \in Tables
          /\ view'[p] = DropClient(view[p], id[p])
      BY <1>2 DEF Inv, TypeOK, FinishDrop, Write, Seen
    <3> QED
      BY <3>1, DropFields
  <2>2. TxnHoldsLock' /\ RunsClaimedTask'
    BY <1>1, <2>1 DEF Inv, TxnHoldsLock, RunsClaimedTask
  <2>3. ViewIsCurrent'
    BY <1>1, <1>2, <2>1 DEF Inv, ViewIsCurrent, Claiming
  <2> QED
    BY <1>1, <2>1, <2>2, <2>3
       DEF Inv, Safe, ClaimedIffStarted, ClaimedOnce, EndedAfterClaim
<1>3. CASE lock # p
  <2>1. /\ db'.inserted = db.inserted /\ db'.started = db.started
        /\ db'.ended = db.ended
    BY <1>3 DEF Inv, TypeOK, Tables, FinishDrop, Write, Seen, DropClient
  <2> QED
    BY <1>1, <1>3, <2>1, UnlockedStep
<1> QED
  BY <1>2, <1>3

-----------------------------------------------------------------------------
(* The theorems. *)

LEMMA InitInv == Init => Inv
<1> SUFFICES ASSUME Init PROVE Inv
  OBVIOUS
<1>1. TypeOK
  <2>1. /\ db \in Tables /\ view \in [Procs -> Tables]
    BY NewType DEF Init
  <2>2. /\ at \in 1..Len(Script) + 1
    BY ConstantTypes DEF Init
  <2>3. /\ polls \in [Procs -> 0..MaxIdle] /\ timeouts \in 0..MaxTimeouts
    BY MptestAssumption DEF Init
  <2> QED
    BY <2>1, <2>2, <2>3 DEF Init, TypeOK, ClientStates, MasterStates
<1>2. Safe
  BY ConstantTypes
     DEF Init, Safe, NewTables, TxnHoldsLock, ViewIsCurrent, RunsClaimedTask,
         ClaimedIffStarted, ClaimedOnce, EndedAfterClaim
<1>3. InsertsTask
  BY DEF Init, InsertsTask
<1> QED
  BY <1>1, <1>2, <1>3 DEF Inv, Safe

LEMMA SafeClient ==
  ASSUME Inv, NEW p \in Procs, ClientStep(p) \/ BusyTimeout(p) \/ RunBusyTimeout(p)
  PROVE  Safe'
<1>1. CASE StartScript(p)
  <2>1. view'[p] = FlushedTables(p)
    BY <1>1 DEF Inv, TypeOK, StartScript
  <2>2. db \in Tables /\ nError[p] \in Nat /\ nTest[p] \in Nat
    BY DEF Inv, TypeOK, Agents
  <2>3. /\ view'[p].inserted = db.inserted /\ view'[p].started = db.started
        /\ view'[p].ended = db.ended
        /\ db.nError <= view'[p].nError /\ db.nTest <= view'[p].nTest
    BY <2>1, <2>2 DEF FlushedTables, Tables
  <2> QED
    BY <1>1, <2>3, SafeBegin DEF StartScript, BeginImmediate
<1>2. CASE RunBegin(p)
  <2>1. view'[p] = db /\ db.nError \in Nat /\ db.nTest \in Nat
    BY <1>2 DEF Inv, TypeOK, Tables, RunBegin
  <2>2. pc' = [pc EXCEPT ![p] = "run"] /\ pc[p] = "run"
    BY <1>2 DEF Inv, TypeOK, RunBegin
  <2>3. /\ view'[p].inserted = db.inserted /\ view'[p].started = db.started
        /\ view'[p].ended = db.ended
        /\ db.nError <= view'[p].nError /\ db.nTest <= view'[p].nTest
    BY <2>1
  <2> QED
    BY <1>2, <2>2, <2>3, SafeBegin DEF RunBegin, BeginImmediate
<1>3. CASE HaltSeen(p) \/ GiveUp(p)
  <2>1. view[p] \in Tables
    BY DEF Inv, TypeOK
  <2> QED
    BY <1>3, <2>1, DropFields, SafeDecide DEF HaltSeen, GiveUp
<1>4. CASE KeepPolling(p)
  BY <1>4, SafeDecide DEF KeepPolling
<1>5. CASE \/ StartScriptBusy(p) \/ StartScriptNested(p) \/ RunCheck(p)
           \/ RunMisuse(p) \/ RunBusyTimeout(p) \/ BusyTimeout(p)
  <2>1. UNCHANGED <<db, view, lock, cur, after, runs>>
    BY <1>5 DEF StartScriptBusy, StartScriptNested, RunCheck, RunMisuse,
                RunBusyTimeout, BusyTimeout
  <2>2. \A q \in Procs : pc'[q] = pc[q] \/ pc'[q] = "dying"
    BY <1>5 DEF Inv, TypeOK, StartScriptBusy, StartScriptNested, RunCheck,
                RunMisuse, RunBusyTimeout, SqlFails, BusyTimeout
  <2> QED
    BY <2>1, <2>2, QuietStep
<1>6. CASE ExitDrop(p)
  <2>1. CASE lock = p
    BY <1>6, <2>1, RollbackStep DEF ExitDrop, EndTransaction, Terminated
  <2>2. CASE lock # p
    <3>1. db' = DropClient(db, id[p]) /\ db \in Tables
      BY <1>6, <2>2 DEF Inv, TypeOK, ExitDrop, Write
    <3>2. lock = NoLock /\ lock' = NoLock /\ UNCHANGED <<cur, runs>>
      BY <1>6, <2>2 DEF ExitDrop, CanWrite
    <3>3. \A q \in Procs : pc'[q] = pc[q] \/ pc'[q] = "exited"
      BY <1>6 DEF Inv, TypeOK, ExitDrop
    <3> QED
      BY <3>1, <3>2, <3>3, DropFields, UnlockedStep
  <2> QED
    BY <2>1, <2>2
<1>7. CASE Die(p)
  <2>1. \A q \in Procs : pc'[q] = pc[q] \/ pc'[q] = "fatal"
    BY <1>7 DEF Inv, TypeOK, Die
  <2>2. CASE lock = NoLock
    <3>1. db' = HaltAll(db) /\ db \in Tables /\ lock' = NoLock
      BY <1>7, <2>2, ConstantTypes DEF Inv, TypeOK, Die
    <3> QED
      BY <1>7, <2>1, <2>2, <3>1, HaltFields, UnlockedStep DEF Die
  <2>3. CASE lock = p
    BY <1>7, <2>3, ConstantTypes, RollbackStep
       DEF Die, EndTransaction, Terminated
  <2>4. CASE lock \notin {NoLock, p}
    <3>1. UNCHANGED <<db, view, lock, cur, after, runs>>
      BY <1>7, <2>4 DEF Die
    <3>2. TxnHoldsLock' /\ RunsClaimedTask'
      BY <2>1, <3>1 DEF Inv, TxnHoldsLock, RunsClaimedTask
    <3>3. \A q \in Procs : q = lock => pc'[q] = pc[q]
      BY <1>7, <2>4 DEF Inv, TypeOK, Die
    <3>4. ViewIsCurrent'
      BY <3>1, <3>3 DEF Inv, ViewIsCurrent, Claiming
    <3> QED
      BY <3>1, <3>2, <3>4
         DEF Inv, Safe, ClaimedIffStarted, ClaimedOnce, EndedAfterClaim
  <2> QED
    BY <2>2, <2>3, <2>4
<1> QED
  BY <1>1, <1>2, <1>3, <1>4, <1>5, <1>6, <1>7, SafeClaim, SafeCommitStart,
     SafeRunCommit, SafeFinishMark, SafeFinishDrop DEF ClientStep

LEMMA SafeMaster ==
  ASSUME Inv, MasterStep \/ MasterBusyTimeout
  PROVE  Safe'
<1> USE DEF local
<1>1. CASE MasterStart
  <2>1. /\ lock = NoLock /\ lock' = NoLock /\ UNCHANGED <<cur, runs>>
        /\ db' = [db EXCEPT !.client = @ \cup {Script[at].client}]
    BY <1>1 DEF MasterStart, StartClient
  <2>2. /\ db'.started = db.started /\ db'.ended = db.ended
        /\ db'.inserted = db.inserted
    BY <2>1 DEF Inv, TypeOK, Tables
  <2>3. \A q \in Procs : pc'[q] = pc[q] \/ pc'[q] = "poll"
    BY <1>1 DEF Inv, TypeOK, MasterStart, StartClient
  <2> QED
    BY <2>1, <2>2, <2>3, UnlockedStep
<1>2. CASE InsertTask
  <2>1. /\ db'.started = db.started /\ db'.ended = db.ended
        /\ db.inserted \subseteq db'.inserted
    BY <1>2 DEF Inv, TypeOK, Tables, InsertTask
  <2> QED
    BY <1>2, <2>1, UnlockedStep DEF InsertTask
<1>3. CASE MasterDie \/ RequestHalt
  <2>1. CASE lock = NoLock
    <3>1. db' = HaltAll(db) /\ db \in Tables
      BY <1>3, <2>1 DEF Inv, TypeOK, MasterDie, RequestHalt
    <3>2. lock' = lock /\ UNCHANGED <<pc, cur, runs>>
      BY <1>3 DEF MasterDie, RequestHalt
    <3> QED
      BY <2>1, <3>1, <3>2, HaltFields, UnlockedStep
  <2>2. CASE lock # NoLock
    <3>1. UNCHANGED <<db, view, lock, pc, cur, after, runs>>
      BY <1>3, <2>2 DEF MasterDie, RequestHalt
    <3> QED
      BY <3>1, QuietStep
  <2> QED
    BY <2>1, <2>2
<1>4. CASE \/ MasterWait \/ MasterCheck \/ MasterExit \/ MasterBusyTimeout
           \/ ShutdownWait \/ DrainClients \/ ReadCounters
  <2>1. UNCHANGED <<db, view, lock, pc, cur, after, runs>>
    BY <1>4 DEF MasterWait, MasterCheck, MasterExit, MasterBusyTimeout,
                ShutdownWait, WaitForClient, DrainClients, ReadCounters
  <2> QED
    BY <2>1, QuietStep
<1> QED
  BY <1>1, <1>2, <1>3, <1>4 DEF MasterStep

LEMMA InsertsStep == InsertsTask /\ TypeOK /\ [Next]_vars => InsertsTask'
<1> SUFFICES ASSUME InsertsTask, TypeOK, [Next]_vars PROVE InsertsTask'
  OBVIOUS
<1>1. CASE MasterStart
  <2>1. at \in DOMAIN Script
    BY <1>1, ConstantTypes DEF TypeOK, MasterStart, MasterAt
  <2> QED
    BY <1>1, <2>1 DEF InsertsTask, MasterStart, MasterAt, TaskId
<1>2. CASE MasterStep /\ ~MasterStart
  BY <1>2 DEF InsertsTask, MasterStep, InsertTask, MasterWait, MasterCheck,
     MasterExit, MasterDie, ShutdownWait, RequestHalt, DrainClients,
     ReadCounters, MasterAt
<1>3. CASE MasterBusyTimeout
  BY <1>3 DEF InsertsTask, MasterBusyTimeout
<1>4. ASSUME NEW p \in Procs, ClientStep(p) \/ BusyTimeout(p) \/ RunBusyTimeout(p)
      PROVE  InsertsTask'
  <2>1. UNCHANGED master
    BY <1>4 DEF ClientStep, StartScript, StartScriptBusy, StartScriptNested,
       HaltSeen, ClaimTask, GiveUp, KeepPolling, Decide, CommitStart, RunCheck,
       RunBegin, RunCommit, RunMisuse, RunBusyTimeout, FinishMark, FinishDrop,
       ExitDrop, Die, BusyTimeout
  <2> QED
    BY <2>1 DEF InsertsTask, master
<1>5. CASE UNCHANGED vars
  BY <1>5 DEF InsertsTask, vars
<1> QED
  BY <1>1, <1>2, <1>3, <1>4, <1>5 DEF Next, Finished

LEMMA NextInv == Inv /\ [Next]_vars => Inv'
<1> SUFFICES ASSUME Inv, [Next]_vars PROVE Inv'
  OBVIOUS
<1>1. InsertsTask'
  BY InsertsStep DEF Inv
<1>2. ASSUME NEW p \in Procs, ClientStep(p) \/ BusyTimeout(p) \/ RunBusyTimeout(p)
      PROVE  TypeOK' /\ Safe'
  <2>1. TypeOK'
    BY <1>2, TypeStart, TypeRun DEF Inv, ClientStep
  <2> QED
    BY <1>2, <2>1, SafeClient
<1>3. ASSUME MasterStep \/ MasterBusyTimeout PROVE TypeOK' /\ Safe'
  BY <1>3, TypeMaster, SafeMaster DEF Inv
<1>4. ASSUME UNCHANGED vars PROVE TypeOK' /\ Safe'
  <2>1. TypeOK'
    BY <1>4 DEF Inv, TypeOK, vars
  <2>2. Safe'
    BY <1>4, QuietStep DEF vars
  <2> QED
    BY <2>1, <2>2
<1>5. TypeOK' /\ Safe'
  BY <1>2, <1>3, <1>4 DEF Next, Finished
<1> QED
  BY <1>1, <1>5 DEF Inv, Safe

\* The invariant holds in every reachable state, whatever the script and the
\* number of clients, busy timeouts, crashes and exits.
THEOREM Invariance == Spec => []Inv
BY InitInv, NextInv, PTL DEF Spec

\* The variables of the coordinator keep their types.
THEOREM TypeCorrect == Spec => []TypeOK
BY Invariance, PTL DEF Inv

\* No task is ever claimed by two processes (start_script's SELECT and UPDATE
\* happen under one BEGIN IMMEDIATE).
THEOREM TaskClaimedOnce == Spec => []ClaimedOnce
BY Invariance, PTL DEF Inv

\* A task row gets its endtime only after a committed claim.
THEOREM EndsOnlyClaimed == Spec => []EndedAfterClaim
BY Invariance, PTL DEF Inv

\* The tables only grow: a COMMIT publishes a view that extends the committed
\* tables, and every other write is a single statement.
LEMMA GrowsStep ==
  ASSUME Inv, [Next]_vars
  PROVE  /\ db.inserted \subseteq db'.inserted
         /\ db.started \subseteq db'.started
         /\ db.ended \subseteq db'.ended
         /\ db.nTest <= db'.nTest /\ db.nError <= db'.nError
<1> DEFINE Grows == /\ db.inserted \subseteq db'.inserted
                    /\ db.started \subseteq db'.started
                    /\ db.ended \subseteq db'.ended
                    /\ db.nTest <= db'.nTest /\ db.nError <= db'.nError
<1>0. db \in Tables /\ db.nTest \in Nat /\ db.nError \in Nat
  BY DEF Inv, TypeOK, Tables
<1>1. db' = db => Grows
  BY <1>0
<1>2. ASSUME NEW p \in Procs, ClientStep(p) \/ BusyTimeout(p) \/ RunBusyTimeout(p)
      PROVE  Grows
  <2>1. CASE CommitStart(p) \/ RunCommit(p)
    <3>1. db' = view[p] /\ lock = p /\ pc[p] # "dying"
      BY <2>1 DEF Inv, TxnHoldsLock, CommitStart, RunCommit, Commit
    <3> QED
      BY <3>1 DEF Inv, ViewIsCurrent
  <2>2. CASE FinishMark(p)
    <3>1. db' = db \/ db' = [db EXCEPT !.ended = @ \cup {cur[p]}]
      BY <2>2 DEF FinishMark, Write, Seen
    <3> QED
      BY <1>0, <3>1 DEF Tables
  <2>3. CASE FinishDrop(p) \/ ExitDrop(p)
    <3>1. db' = db \/ db' = DropClient(db, id[p])
      BY <2>3 DEF FinishDrop, ExitDrop, Write, Seen
    <3> QED
      BY <1>0, <3>1, DropFields
  <2>4. CASE Die(p)
    <3>1. db' = db \/ db' = HaltAll(db)
      BY <2>4 DEF Die
    <3> QED
      BY <1>0, <3>1, HaltFields
  <2>5. CASE \/ StartScript(p) \/ StartScriptBusy(p) \/ StartScriptNested(p)
             \/ HaltSeen(p) \/ ClaimTask(p) \/ GiveUp(p) \/ KeepPolling(p)
             \/ RunCheck(p) \/ RunBegin(p) \/ RunMisuse(p) \/ BusyTimeout(p)
             \/ RunBusyTimeout(p)
    <3>1. db' = db
      BY <2>5 DEF StartScript, StartScriptBusy, StartScriptNested, HaltSeen,
         ClaimTask, GiveUp, KeepPolling, Decide, RunCheck, RunBegin, RunMisuse,
         BusyTimeout, RunBusyTimeout
    <3> QED
      BY <1>1, <3>1
  <2> QED
    BY <1>2, <2>1, <2>2, <2>3, <2>4, <2>5 DEF ClientStep
<1>3. ASSUME MasterStep \/ MasterBusyTimeout PROVE Grows
  <2>1. CASE MasterStart
    <3>1. db' = [db EXCEPT !.client = @ \cup {Script[at].client}]
      BY <2>1 DEF MasterStart, StartClient
    <3> QED
      BY <1>0, <3>1 DEF Tables
  <2>2. CASE InsertTask
    BY <1>0, <2>2 DEF InsertTask, Tables
  <2>3. CASE MasterDie \/ RequestHalt
    <3>1. db' = db \/ db' = HaltAll(db)
      BY <2>3 DEF MasterDie, RequestHalt
    <3> QED
      BY <1>0, <3>1, HaltFields
  <2>4. CASE \/ MasterWait \/ MasterCheck \/ MasterExit \/ MasterBusyTimeout
             \/ ShutdownWait \/ DrainClients \/ ReadCounters
    <3>1. db' = db
      BY <2>4 DEF MasterWait, MasterCheck, MasterExit, MasterBusyTimeout,
         ShutdownWait, WaitForClient, DrainClients, ReadCounters
    <3> QED
      BY <1>1, <3>1
  <2> QED
    BY <1>3, <2>1, <2>2, <2>3, <2>4 DEF MasterStep
<1>4. ASSUME UNCHANGED vars PROVE Grows
  BY <1>1, <1>4 DEF vars
<1> QED
  BY <1>2, <1>3, <1>4 DEF Next, Finished

\* No committed claim, end or count is ever lost to a later commit.
THEOREM NothingLost == Spec => NoLostUpdate
BY Invariance, GrowsStep, PTL DEF Spec, NoLostUpdate

-----------------------------------------------------------------------------
(* Conservation of the counts.  What the run checks is not inductive: the   *)
(* Summary is bounded by the counts even after a rollback lost some, so the *)
(* balance is kept as an inequality that is strict only after one.          *)

NoneFatal == \A p \in Procs : pc[p] # "fatal"

HeldErrors == db.nError + Total(nError) + OpenErrors
HeldTests == db.nTest + Total(nTest) + OpenTests

Balanced ==
  /\ HeldErrors <= executed.nError /\ HeldTests <= executed.nTest
  /\ NoneFatal => HeldErrors = executed.nError /\ HeldTests = executed.nTest

\* an open transaction never takes counts away, and outside start_script it
\* adds none
InStartScript(p) == pc[p] \in {"txn", "commit", "dying"}

OpenCounters ==
  \A p \in Procs : lock = p =>
    /\ db.nError <= view[p].nError /\ db.nTest <= view[p].nTest
    /\ ~InStartScript(p) =>
         view[p].nError = db.nError /\ view[p].nTest = db.nTest

\* from the flush of start_script on, a process that will halt counts nothing
Flushed ==
  \A p \in Procs :
    \/ pc[p] \in {"txn", "halted"}
    \/ pc[p] = "commit" /\ after[p] = "halted"
    => nError[p] = 0 /\ nTest[p] = 0

\* the commands the master has not reached have spawned no process
Unspawned ==
  \A p \in Procs :
    \/ mpc = "script" /\ p >= at
    \/ mpc = "insert" /\ p > at
    => pc[p] = "unborn"

Reported == mpc = "done" => /\ summary.nError <= executed.nError
                            /\ summary.nTest <= executed.nTest

CountInv == /\ Inv /\ Balanced /\ OpenCounters /\ Flushed /\ Unspawned
            /\ Reported

LEMMA AgentsFinite == IsFiniteSet(Agents)
<1>1. IsFiniteSet(1..Len(Script)) /\ Procs \subseteq 1..Len(Script)
  BY FS_Interval, ConstantTypes DEF Procs
<1>2. IsFiniteSet(Procs)
  BY <1>1, FS_Subset
<1> QED
  BY <1>2, FS_AddElement DEF Agents

LEMMA TotalType ==
  ASSUME NEW f \in [Agents -> Nat]
  PROVE  /\ Total(f) \in Nat
         /\ \A a \in Agents : f[a] <= Total(f)
         /\ (\A a \in Agents : f[a] = 0) => Total(f) = 0
<1>1. Total(f) = SumOver(f, Agents)
  BY DEF Total, SumOver
<1> QED
  BY <1>1, AgentsFinite, SumOfNaturals

LEMMA TotalUpdate ==
  ASSUME NEW f \in [Agents -> Nat], NEW a \in Agents, NEW v \in Nat
  PROVE  Total([f EXCEPT ![a] = v]) = Total(f) + v - f[a]
<1> DEFINE g == [f EXCEPT ![a] = v]
<1>1. DOMAIN f = Agents /\ DOMAIN g = Agents /\ f \in [Agents -> Int] /\ v \in Int
  OBVIOUS
<1>2. Total(f) = SumOver(f, Agents)
  BY <1>1 DEF Total, SumOver
<1>3. Total(g) = SumOver(g, Agents)
  BY <1>1 DEF Total, SumOver
<1>4. SumOver(g, Agents) = SumOver(f, Agents) + v - f[a]
  BY <1>1, AgentsFinite, SumAfterUpdate
<1> QED
  BY <1>2, <1>3, <1>4

LEMMA TotalCount ==
  ASSUME TypeOK, NEW a \in Agents, NEW e \in Nat, NEW n \in Nat, Count(a, e, n)
  PROVE  /\ Total(nError') = Total(nError) + e
         /\ Total(nTest') = Total(nTest) + n
<1>1. /\ nError' = [nError EXCEPT ![a] = nError[a] + e]
      /\ nTest' = [nTest EXCEPT ![a] = nTest[a] + n]
  BY DEF Count
<1>2. /\ nError[a] \in Nat /\ nTest[a] \in Nat
      /\ nError \in [Agents -> Nat] /\ nTest \in [Agents -> Nat]
  BY DEF TypeOK
<1>3. nError[a] + e \in Nat /\ nTest[a] + n \in Nat
  BY <1>2
<1>4. /\ Total(nError') = Total(nError) + (nError[a] + e) - nError[a]
      /\ Total(nTest') = Total(nTest) + (nTest[a] + n) - nTest[a]
  BY <1>1, <1>2, <1>3, TotalUpdate
<1>5. Total(nError) \in Nat /\ Total(nTest) \in Nat
  BY <1>2, TotalType
<1> QED
  BY <1>2, <1>4, <1>5

\* the numbers of the balance are numbers
LEMMA BalanceTypes ==
  ASSUME TypeOK
  PROVE  /\ db.nError \in Nat /\ db.nTest \in Nat
         /\ \A p \in Procs : view[p].nError \in Nat /\ view[p].nTest \in Nat
         /\ \A a \in Agents : nError[a] \in Nat /\ nTest[a] \in Nat
         /\ Total(nError) \in Nat /\ Total(nTest) \in Nat
         /\ OpenErrors \in Int /\ OpenTests \in Int
         /\ executed.nError \in Nat /\ executed.nTest \in Nat
         /\ HeldErrors \in Int /\ HeldTests \in Int
<1>1. /\ db.nError \in Nat /\ db.nTest \in Nat
      /\ \A p \in Procs : view[p].nError \in Nat /\ view[p].nTest \in Nat
  BY DEF TypeOK, Tables
<1>2. \A a \in Agents : nError[a] \in Nat /\ nTest[a] \in Nat
  BY DEF TypeOK
<1>3. Total(nError) \in Nat /\ Total(nTest) \in Nat
  BY TotalType DEF TypeOK
<1>4. lock # NoLock => lock \in Procs
  BY DEF TypeOK
<1>5. OpenErrors \in Int /\ OpenTests \in Int
  BY <1>1, <1>4 DEF OpenErrors, OpenTests
<1>6. executed.nError \in Nat /\ executed.nTest \in Nat
  BY DEF TypeOK
<1> QED
  BY <1>1, <1>2, <1>3, <1>5, <1>6 DEF HeldErrors, HeldTests

\* a step that leaves the counters of the database and of an open transaction
StoreKept ==
  /\ lock' = lock
  /\ db'.nError = db.nError /\ db'.nTest = db.nTest
  /\ lock # NoLock => /\ view'[lock].nError = view[lock].nError
                      /\ view'[lock].nTest = view[lock].nTest

LEMMA QuietBalance ==
  ASSUME CountInv, TypeOK', StoreKept, NoneFatal' => NoneFatal,
         UNCHANGED <<nError, nTest, executed>>
  PROVE  Balanced'
<1>1. OpenErrors' = OpenErrors /\ OpenTests' = OpenTests
  BY DEF StoreKept, OpenErrors, OpenTests
<1>2. HeldErrors' = HeldErrors /\ HeldTests' = HeldTests
  BY <1>1 DEF StoreKept, HeldErrors, HeldTests
<1> QED
  BY <1>2 DEF CountInv, Balanced

LEMMA CountBalance ==
  ASSUME CountInv, TypeOK', StoreKept, NoneFatal' => NoneFatal,
         NEW a \in Agents, NEW e \in Nat, NEW n \in Nat, Count(a, e, n)
  PROVE  Balanced'
<1>0. TypeOK
  BY DEF CountInv, Inv
<1>1. OpenErrors' = OpenErrors /\ OpenTests' = OpenTests
  BY DEF StoreKept, OpenErrors, OpenTests
<1>2. /\ Total(nError') = Total(nError) + e
      /\ Total(nTest') = Total(nTest) + n
  BY <1>0, TotalCount
<1>3. HeldErrors' = HeldErrors + e /\ HeldTests' = HeldTests + n
  BY <1>0, <1>1, <1>2, BalanceTypes DEF StoreKept, HeldErrors, HeldTests
<1>4. executed'.nError = executed.nError + e /\ executed'.nTest = executed.nTest + n
  BY DEF Count
<1> QED
  BY <1>0, <1>3, <1>4, BalanceTypes DEF CountInv, Balanced

\* the process that holds the lock stays in or out of start_script
LEMMA KeptOpen ==
  ASSUME CountInv, StoreKept,
         \A q \in Procs : q = lock /\ InStartScript(q) => InStartScript(q)'
  PROVE  OpenCounters'
<1> SUFFICES ASSUME NEW q \in Procs, lock' = q
             PROVE  /\ db'.nError <= view'[q].nError
                    /\ db'.nTest <= view'[q].nTest
                    /\ ~InStartScript(q)' =>
                         /\ view'[q].nError = db'.nError
                         /\ view'[q].nTest = db'.nTest
  BY DEF OpenCounters
<1>1. lock = q /\ lock # NoLock
  BY ConstantTypes DEF StoreKept
<1> QED
  BY <1>1 DEF CountInv, OpenCounters, StoreKept

LEMMA CountStart ==
  ASSUME CountInv, TypeOK', NEW p \in Procs,
         StartScript(p) \/ RunBegin(p)
  PROVE  Balanced' /\ OpenCounters' /\ Flushed'
<1>0. TypeOK /\ lock = NoLock /\ lock' = p /\ p # NoLock /\ UNCHANGED <<db, executed>>
  BY ConstantTypes DEF CountInv, Inv, StartScript, RunBegin, BeginImmediate
<1>t. /\ db.nError \in Nat /\ db.nTest \in Nat
      /\ nError[p] \in Nat /\ nTest[p] \in Nat
      /\ Total(nError) \in Nat /\ Total(nTest) \in Nat
      /\ p \in Agents
  BY <1>0, BalanceTypes DEF Agents
<1>1. NoneFatal' => NoneFatal
  BY <1>0 DEF NoneFatal, StartScript, RunBegin, TypeOK
<1>2. OpenErrors = 0 /\ OpenTests = 0
  BY <1>0 DEF OpenErrors, OpenTests
<1>3. /\ OpenErrors' = view'[p].nError - db.nError
      /\ OpenTests' = view'[p].nTest - db.nTest
  BY <1>0 DEF OpenErrors, OpenTests
<1>4. CASE StartScript(p)
  <2>1. view'[p] = FlushedTables(p) /\ db \in Tables
    BY <1>0, <1>4 DEF TypeOK, StartScript
  <2>2. /\ view'[p].nError = db.nError + nError[p]
        /\ view'[p].nTest = db.nTest + nTest[p]
    BY <2>1 DEF FlushedTables, Tables
  <2>3. /\ nError' = [nError EXCEPT ![p] = 0]
        /\ nTest' = [nTest EXCEPT ![p] = 0]
    BY <1>4 DEF StartScript
  <2>4. /\ Total(nError') = Total(nError) + 0 - nError[p]
        /\ Total(nTest') = Total(nTest) + 0 - nTest[p]
    BY <1>0, <1>t, <2>3, TotalUpdate DEF TypeOK
  <2>5. HeldErrors' = HeldErrors /\ HeldTests' = HeldTests
    BY <1>0, <1>t, <1>2, <1>3, <2>2, <2>4 DEF HeldErrors, HeldTests
  <2>6. Balanced'
    BY <1>0, <1>1, <2>5 DEF CountInv, Balanced
  <2>7. pc'[p] = "txn" /\ \A q \in Procs : q # p => pc'[q] = pc[q]
    BY <1>0, <1>4 DEF TypeOK, StartScript
  <2>8. OpenCounters'
    BY <1>0, <1>t, <2>2, <2>7 DEF OpenCounters, InStartScript
  <2>9. /\ nError'[p] = 0 /\ nTest'[p] = 0
        /\ \A q \in Procs : q # p => nError'[q] = nError[q] /\ nTest'[q] = nTest[q]
    BY <1>0, <1>t, <2>3 DEF TypeOK, Agents
  <2>10. Flushed'
    BY <1>4, <2>7, <2>9 DEF CountInv, Flushed, StartScript
  <2> QED
    BY <2>6, <2>8, <2>10
<1>5. CASE RunBegin(p)
  <2>1. view'[p] = db /\ UNCHANGED <<pc, after, nError, nTest>>
    BY <1>0, <1>5 DEF TypeOK, RunBegin
  <2>2. OpenErrors' = 0 /\ OpenTests' = 0
    BY <1>3, <1>t, <2>1
  <2>3. HeldErrors' = HeldErrors /\ HeldTests' = HeldTests
    BY <1>0, <1>2, <2>1, <2>2 DEF HeldErrors, HeldTests
  <2>4. Balanced'
    BY <1>0, <1>1, <2>3 DEF CountInv, Balanced
  <2>5. OpenCounters'
    BY <1>0, <1>t, <2>1 DEF OpenCounters
  <2>6. Flushed'
    BY <2>1 DEF CountInv, Flushed
  <2> QED
    BY <2>4, <2>5, <2>6
<1> QED
  BY <1>4, <1>5

\* the decisions of start_script leave the counters of its transaction alone
LEMMA CountDecide ==
  ASSUME CountInv, TypeOK', NEW p \in Procs,
         HaltSeen(p) \/ ClaimTask(p) \/ GiveUp(p) \/ KeepPolling(p)
  PROVE  Balanced' /\ OpenCounters' /\ Flushed'
<1>0. TypeOK /\ p # NoLock /\ view[p] \in Tables
  BY ConstantTypes DEF CountInv, Inv, TypeOK
<1>1. PICK d, x :
        /\ Decide(p, d, x)
        /\ d.nError = view[p].nError /\ d.nTest = view[p].nTest
        /\ GiveUp(p) => x = "gaveup"
  <2>1. CASE HaltSeen(p) \/ GiveUp(p)
    BY <1>0, <2>1, DropFields DEF HaltSeen, GiveUp
  <2>2. CASE KeepPolling(p)
    <3>1. ~GiveUp(p)
      BY <1>0, <2>2, ConstantTypes DEF TypeOK, KeepPolling, GiveUp
    <3>2. Decide(p, view[p], "poll")
      BY <2>2 DEF KeepPolling
    <3> QED
      BY <3>1, <3>2
  <2>3. CASE ClaimTask(p)
    <3>1. PICK t : Decide(p, [view[p] EXCEPT !.started = @ \cup {t}], "run")
      BY <2>3 DEF ClaimTask
    <3>2. /\ [view[p] EXCEPT !.started = @ \cup {t}].nError = view[p].nError
          /\ [view[p] EXCEPT !.started = @ \cup {t}].nTest = view[p].nTest
      BY <1>0 DEF Tables
    <3>3. ~GiveUp(p)
      BY <2>3 DEF ClaimTask, GiveUp, NoWork
    <3> QED
      BY <3>1, <3>2, <3>3
  <2> QED
    BY <2>1, <2>2, <2>3
<1>2. /\ pc[p] = "txn" /\ lock = p /\ view'[p] = d
      /\ pc'[p] = "commit" /\ after'[p] = x
      /\ UNCHANGED <<db, lock, nTest>>
  BY <1>0, <1>1 DEF Decide, CountInv, Inv, TxnHoldsLock, TypeOK
<1>3. \A q \in Procs : q # p => pc'[q] = pc[q] /\ after'[q] = after[q]
  BY <1>0, <1>1 DEF Decide, TypeOK
<1>4. StoreKept
  BY <1>1, <1>2 DEF StoreKept
<1>5. NoneFatal' => NoneFatal
  BY <1>2, <1>3 DEF NoneFatal
<1>6. OpenCounters'
  BY <1>2, <1>3, <1>4, KeptOpen DEF InStartScript
<1>7. nError[p] = 0 /\ nTest[p] = 0
  BY <1>2 DEF CountInv, Flushed
<1>8. CASE GiveUp(p)
  <2>1. /\ nError' = [nError EXCEPT ![p] = @ + 1]
        /\ executed' = [executed EXCEPT !.nError = @ + 1]
    BY <1>8 DEF GiveUp
  <2>2. executed'.nError = executed.nError + 1 /\ executed'.nTest = executed.nTest
    BY <1>0, <2>1 DEF TypeOK
  <2>a. p \in Agents /\ nError \in [Agents -> Nat]
    BY <1>0 DEF TypeOK, Agents
  <2>3. p \in Agents /\ nError \in [Agents -> Nat] /\ nError[p] + 1 \in Nat
        /\ nError[p] \in Nat
    BY <2>a
  <2>4. Total(nError') = Total(nError) + (nError[p] + 1) - nError[p]
    BY <2>1, <2>3, TotalUpdate
  <2>5. OpenErrors' = OpenErrors /\ OpenTests' = OpenTests
    BY <1>4 DEF StoreKept, OpenErrors, OpenTests
  <2>6. HeldErrors' = HeldErrors + 1
    BY <1>0, <1>4, <2>3, <2>4, <2>5, BalanceTypes DEF StoreKept, HeldErrors
  <2>7. HeldTests' = HeldTests
    BY <1>2, <2>5 DEF HeldTests
  <2>8. Balanced'
    BY <1>0, <1>5, <2>2, <2>6, <2>7, BalanceTypes DEF CountInv, Balanced
  <2>9. \A q \in Procs : q # p => nError'[q] = nError[q]
    BY <2>1, <2>3 DEF Agents
  <2>10. Flushed'
    BY <1>1, <1>2, <1>3, <1>8, <2>9 DEF CountInv, Flushed
  <2> QED
    BY <1>6, <2>8, <2>10
<1>9. CASE ~GiveUp(p)
  <2>1. UNCHANGED <<nError, nTest, executed>>
    BY <1>2, <1>9 DEF HaltSeen, ClaimTask, KeepPolling
  <2>2. Balanced'
    BY <1>4, <1>5, <2>1, QuietBalance
  <2>3. Flushed'
    BY <1>2, <1>3, <1>7, <2>1 DEF CountInv, Flushed
  <2> QED
    BY <1>6, <2>2, <2>3
<1> QED
  BY <1>8, <1>9

\* COMMIT moves the counts of the transaction to the committed tables
LEMMA CountCommit ==
  ASSUME CountInv, TypeOK', NEW p \in Procs, CommitStart(p) \/ RunCommit(p)
  PROVE  Balanced' /\ OpenCounters' /\ Flushed'
<1>0. /\ TypeOK /\ p # NoLock /\ lock = p /\ lock' = NoLock /\ db' = view[p]
      /\ UNCHANGED <<nError, nTest, executed, after>>
  BY ConstantTypes DEF CountInv, Inv, TxnHoldsLock, CommitStart, RunCommit,
                       Commit, EndTransaction
<1>1. pc[p] \in {"commit", "run"} /\ (pc[p] = "run" => pc'[p] = pc[p])
      /\ (pc[p] = "commit" => pc'[p] = after[p])
      /\ \A q \in Procs : q # p => pc'[q] = pc[q]
  BY <1>0 DEF TypeOK, CommitStart, RunCommit
<1>2. NoneFatal' => NoneFatal
  BY <1>1 DEF NoneFatal
<1>3. /\ OpenErrors = view[p].nError - db.nError /\ OpenErrors' = 0
      /\ OpenTests = view[p].nTest - db.nTest /\ OpenTests' = 0
  BY <1>0 DEF OpenErrors, OpenTests
<1>4. /\ db.nError \in Nat /\ db.nTest \in Nat
      /\ view[p].nError \in Nat /\ view[p].nTest \in Nat
      /\ Total(nError) \in Nat /\ Total(nTest) \in Nat
  BY <1>0, BalanceTypes
<1>5. HeldErrors' = HeldErrors /\ HeldTests' = HeldTests
  BY <1>0, <1>3, <1>4 DEF HeldErrors, HeldTests
<1>6. Balanced'
  BY <1>0, <1>2, <1>5 DEF CountInv, Balanced
<1>7. OpenCounters'
  BY <1>0, ConstantTypes DEF OpenCounters
<1>8. after[p] \in {"poll", "run", "halted", "gaveup"}
  BY <1>0 DEF TypeOK
<1>9. Flushed'
  BY <1>0, <1>1, <1>8 DEF CountInv, Flushed
<1> QED
  BY <1>6, <1>7, <1>9

\* an error or a test counted by a process that is not in start_script's flush
LEMMA CountCounting ==
  ASSUME CountInv, TypeOK', NEW p \in Procs,
         \/ StartScriptNested(p) \/ RunCheck(p) \/ RunMisuse(p)
         \/ RunBusyTimeout(p) \/ BusyTimeout(p)
  PROVE  Balanced' /\ OpenCounters' /\ Flushed'
<1>0. TypeOK /\ p \in Agents
  BY DEF CountInv, Inv, Agents
<1>1. PICK e \in Nat, n \in Nat : Count(p, e, n)
  BY DEF StartScriptNested, RunCheck, Check, RunMisuse, RunBusyTimeout,
         SqlFails, BusyTimeout
<1>2. UNCHANGED <<db, view, lock, after>>
  BY DEF StartScriptNested, RunCheck, RunMisuse, RunBusyTimeout, BusyTimeout
<1>3. /\ pc[p] # "fatal" /\ pc'[p] \in {pc[p], "dying"}
      /\ pc'[p] = "dying" \/ pc[p] = "run"
      /\ \A q \in Procs : q # p => pc'[q] = pc[q]
  BY <1>0 DEF TypeOK, StartScriptNested, RunCheck, RunMisuse, RunBusyTimeout,
              SqlFails, BusyTimeout, Finishing
<1>4. StoreKept
  BY <1>2 DEF StoreKept
<1>5. NoneFatal' => NoneFatal
  BY <1>3 DEF NoneFatal
<1>6. Balanced'
  BY <1>0, <1>1, <1>4, <1>5, CountBalance
<1>7. OpenCounters'
  BY <1>3, <1>4, KeptOpen DEF InStartScript
<1>8. \A q \in Procs : q # p => nError'[q] = nError[q] /\ nTest'[q] = nTest[q]
  BY <1>0, <1>1 DEF TypeOK, Count, Agents
<1>9. Flushed'
  BY <1>2, <1>3, <1>8 DEF CountInv, Flushed
<1> QED
  BY <1>6, <1>7, <1>9

LEMMA CountQuiet ==
  ASSUME CountInv, TypeOK', NEW p \in Procs,
         \/ StartScriptBusy(p) \/ FinishMark(p) \/ FinishDrop(p)
         \/ ExitDrop(p) /\ lock # p
         \/ Die(p) /\ lock # p
  PROVE  Balanced' /\ OpenCounters' /\ Flushed'
<1>0. TypeOK /\ p # NoLock /\ db \in Tables /\ view[p] \in Tables
  BY ConstantTypes DEF CountInv, Inv, TypeOK
<1>1. UNCHANGED <<nError, nTest, executed, after>>
  BY DEF StartScriptBusy, FinishMark, FinishDrop, ExitDrop, Die
<1>2. /\ pc'[p] \in {pc[p], "poll", "drop", "run", "exited", "fatal"}
      /\ pc[p] # "fatal"
      /\ \A q \in Procs : q # p => pc'[q] = pc[q]
  BY <1>0 DEF TypeOK, StartScriptBusy, FinishMark, Finishing, FinishDrop,
              ExitDrop, Die
<1>3. lock = p => ~InStartScript(p)
  BY DEF InStartScript, StartScriptBusy, CanWrite, FinishMark, Finishing,
         FinishDrop
<1>4. StoreKept
  <2>1. CASE StartScriptBusy(p)
    BY <2>1 DEF StoreKept, StartScriptBusy
  <2>2. CASE FinishMark(p)
    <3>1. lock' = lock /\ Write(p, [Seen(p) EXCEPT !.ended = @ \cup {cur[p]}])
          /\ lock \in {NoLock, p}
      BY <2>2 DEF FinishMark, CanWrite
    <3>2. \A d \in Tables :
            /\ [d EXCEPT !.ended = @ \cup {cur[p]}].nError = d.nError
            /\ [d EXCEPT !.ended = @ \cup {cur[p]}].nTest = d.nTest
      BY DEF Tables
    <3>3. CASE lock = p
      BY <1>0, <3>1, <3>2, <3>3 DEF StoreKept, Write, Seen, TypeOK
    <3>4. CASE lock # p
      BY <1>0, <3>1, <3>2, <3>4 DEF StoreKept, Write, Seen
    <3> QED
      BY <3>3, <3>4
  <2>3. CASE FinishDrop(p)
    <3>1. lock' = lock /\ Write(p, DropClient(Seen(p), id[p])) /\ lock \in {NoLock, p}
      BY <2>3 DEF FinishDrop, CanWrite
    <3>3. CASE lock = p
      BY <1>0, <3>1, <3>3, DropFields DEF StoreKept, Write, Seen, TypeOK
    <3>4. CASE lock # p
      BY <1>0, <3>1, <3>4, DropFields DEF StoreKept, Write, Seen
    <3> QED
      BY <3>3, <3>4
  <2>4. CASE ExitDrop(p) /\ lock # p
    <3>1. lock' = lock /\ Write(p, DropClient(db, id[p])) /\ lock = NoLock
      BY <2>4 DEF ExitDrop, CanWrite
    <3> QED
      BY <1>0, <2>4, <3>1, DropFields DEF StoreKept, Write
  <2>5. CASE Die(p) /\ lock # p
    <3>1. \/ lock = NoLock /\ db' = HaltAll(db) /\ UNCHANGED <<view, lock>>
          \/ UNCHANGED <<db, view, lock>>
      BY <2>5 DEF Die
    <3> QED
      BY <1>0, <3>1, HaltFields DEF StoreKept
  <2> QED
    BY <2>1, <2>2, <2>3, <2>4, <2>5
<1>5. NoneFatal' => NoneFatal
  BY <1>2 DEF NoneFatal
<1>6. Balanced'
  BY <1>1, <1>4, <1>5, QuietBalance
<1>7. OpenCounters'
  BY <1>2, <1>3, <1>4, KeptOpen DEF InStartScript
<1>8. pc'[p] # "txn" /\ pc'[p] # "halted" /\ pc'[p] # "commit"
  BY <1>0 DEF TypeOK, StartScriptBusy, FinishMark, Finishing, FinishDrop,
              ExitDrop, Die
<1>9. Flushed'
  BY <1>1, <1>2, <1>8 DEF CountInv, Flushed
<1> QED
  BY <1>6, <1>7, <1>9

\* --exit inside a transaction rolls back no counts; a fatal exit may
LEMMA CountRollback ==
  ASSUME CountInv, TypeOK', NEW p \in Procs, lock = p, ExitDrop(p) \/ Die(p)
  PROVE  Balanced' /\ OpenCounters' /\ Flushed'
<1>0. /\ TypeOK /\ p # NoLock /\ lock' = NoLock
      /\ UNCHANGED <<db, nError, nTest, executed, after>>
  BY ConstantTypes DEF CountInv, Inv, ExitDrop, Die, EndTransaction
<1>1. /\ pc[p] \in {"drop", "dying"} /\ pc'[p] \in {"exited", "fatal"}
      /\ pc[p] = "drop" => pc'[p] = "exited"
      /\ pc[p] = "dying" => pc'[p] = "fatal"
      /\ \A q \in Procs : q # p => pc'[q] = pc[q]
  BY <1>0 DEF TypeOK, ExitDrop, Die
<1>2. /\ OpenErrors = view[p].nError - db.nError /\ OpenErrors' = 0
      /\ OpenTests = view[p].nTest - db.nTest /\ OpenTests' = 0
  BY <1>0 DEF OpenErrors, OpenTests
<1>3. db.nError <= view[p].nError /\ db.nTest <= view[p].nTest
  BY DEF CountInv, OpenCounters
<1>4. /\ db.nError \in Nat /\ db.nTest \in Nat
      /\ view[p].nError \in Nat /\ view[p].nTest \in Nat
      /\ Total(nError) \in Nat /\ Total(nTest) \in Nat
      /\ executed.nError \in Nat /\ executed.nTest \in Nat
  BY <1>0, BalanceTypes
<1>5. HeldErrors' <= HeldErrors /\ HeldTests' <= HeldTests
      /\ HeldErrors' \in Int /\ HeldTests' \in Int
      /\ HeldErrors \in Int /\ HeldTests \in Int
  BY <1>0, <1>2, <1>3, <1>4 DEF HeldErrors, HeldTests
<1>6. HeldErrors' <= executed'.nError /\ HeldTests' <= executed'.nTest
  BY <1>0, <1>4, <1>5 DEF CountInv, Balanced
<1>7. NoneFatal' => HeldErrors' = executed'.nError /\ HeldTests' = executed'.nTest
  <2> SUFFICES ASSUME NoneFatal'
               PROVE  HeldErrors' = executed'.nError /\ HeldTests' = executed'.nTest
    OBVIOUS
  <2>1. pc[p] = "drop" /\ NoneFatal
    BY <1>1 DEF NoneFatal
  <2>2. view[p].nError = db.nError /\ view[p].nTest = db.nTest
    BY <2>1 DEF CountInv, OpenCounters, InStartScript
  <2>3. OpenErrors = 0 /\ OpenTests = 0
    BY <1>2, <1>4, <2>2
  <2>4. HeldErrors' = HeldErrors /\ HeldTests' = HeldTests
    BY <1>0, <1>2, <2>3 DEF HeldErrors, HeldTests
  <2> QED
    BY <1>0, <2>1, <2>4 DEF CountInv, Balanced
<1>8. OpenCounters'
  BY <1>0, ConstantTypes DEF OpenCounters
<1>9. Flushed'
  BY <1>0, <1>1 DEF CountInv, Flushed
<1> QED
  BY <1>6, <1>7, <1>8, <1>9 DEF Balanced

LEMMA CountMaster ==
  ASSUME CountInv, TypeOK', MasterStep \/ MasterBusyTimeout
  PROVE  Balanced' /\ OpenCounters' /\ Flushed'
<1>0. TypeOK /\ db \in Tables /\ Master \in Agents
  BY DEF CountInv, Inv, TypeOK, Agents
<1> USE DEF local
<1>1. \/ UNCHANGED <<nError, nTest, executed>>
      \/ \E e \in Nat, n \in Nat : Count(Master, e, n)
  BY DEF MasterStep, MasterStart, StartClient, InsertTask, MasterWait,
         MasterCheck, Check, MasterExit, MasterDie, ShutdownWait,
         WaitForClient, RequestHalt, DrainClients, ReadCounters,
         MasterBusyTimeout
<1>2. UNCHANGED <<view, lock, after>>
  BY DEF MasterStep, MasterStart, InsertTask, MasterWait,
         MasterCheck, MasterExit, MasterDie, ShutdownWait, WaitForClient,
         RequestHalt, DrainClients, ReadCounters, MasterBusyTimeout
<1>3. db'.nError = db.nError /\ db'.nTest = db.nTest
  <2>1. CASE MasterStart
    <3>1. db' = [db EXCEPT !.client = @ \cup {Script[at].client}]
      BY <2>1 DEF MasterStart, StartClient
    <3> QED
      BY <1>0, <3>1 DEF Tables
  <2>2. CASE InsertTask
    BY <1>0, <2>2 DEF InsertTask, Tables
  <2>3. CASE ~MasterStart /\ ~InsertTask
    <3>1. db' = db \/ db' = HaltAll(db)
      BY <2>3 DEF MasterStep, MasterWait, MasterCheck, MasterExit, MasterDie,
         ShutdownWait, WaitForClient, RequestHalt, DrainClients, ReadCounters,
         MasterBusyTimeout
    <3> QED
      BY <1>0, <3>1, HaltFields
  <2> QED
    BY <2>1, <2>2, <2>3
<1>4. StoreKept
  BY <1>2, <1>3 DEF StoreKept
<1>5. /\ \A q \in Procs : pc'[q] = pc[q] \/ (pc[q] = "unborn" /\ pc'[q] = "poll")
      /\ lock # NoLock => pc' = pc
  <2>1. CASE MasterStart
    <3>1. mpc = "script" /\ at \in Nat /\ lock = NoLock
      BY <1>0, <2>1, ConstantTypes DEF TypeOK, MasterStart, MasterAt, StartClient
    <3>2. at \in Procs => pc[at] = "unborn"
      BY <3>1, ConstantTypes DEF CountInv, Unspawned
    <3>3. pc' = pc \/ pc' = [pc EXCEPT ![at] = "poll"]
      BY <2>1 DEF MasterStart, StartClient
    <3> QED
      BY <1>0, <3>1, <3>2, <3>3 DEF TypeOK
  <2>2. CASE ~MasterStart
    BY <2>2 DEF MasterStep, InsertTask, MasterWait, MasterCheck, MasterExit,
       MasterDie, ShutdownWait, WaitForClient, RequestHalt, DrainClients,
       ReadCounters, MasterBusyTimeout
  <2> QED
    BY <2>1, <2>2
<1>6. NoneFatal' => NoneFatal
  BY <1>5 DEF NoneFatal
<1>7. Balanced'
  BY <1>0, <1>1, <1>4, <1>6, CountBalance, QuietBalance
<1>8. OpenCounters'
  BY <1>4, <1>5, ConstantTypes, KeptOpen DEF InStartScript
<1>9. \A q \in Procs : nError'[q] = nError[q] /\ nTest'[q] = nTest[q]
  <2>1. \A q \in Procs : q # Master /\ q \in Agents
    BY ConstantTypes
  <2> QED
    BY <1>0, <1>1, <2>1 DEF TypeOK, Count
<1>10. Flushed'
  BY <1>2, <1>5, <1>9 DEF CountInv, Flushed
<1> QED
  BY <1>7, <1>8, <1>10

\* a client leaves the master alone, and acts only once it was spawned
LEMMA ClientFrame ==
  ASSUME TypeOK, NEW p \in Procs,
         ClientStep(p) \/ BusyTimeout(p) \/ RunBusyTimeout(p)
  PROVE  /\ UNCHANGED master
         /\ pc[p] # "unborn"
         /\ \A q \in Procs : q # p => pc'[q] = pc[q]
<1>1. CASE \/ StartScript(p) \/ StartScriptBusy(p) \/ StartScriptNested(p)
           \/ CommitStart(p) \/ RunCheck(p) \/ RunBegin(p) \/ RunCommit(p)
           \/ RunMisuse(p) \/ RunBusyTimeout(p)
  BY <1>1 DEF TypeOK, StartScript, StartScriptBusy, StartScriptNested,
     CommitStart, RunCheck, RunBegin, RunCommit, RunMisuse, RunBusyTimeout,
     SqlFails
<1>2. CASE \/ FinishMark(p) \/ FinishDrop(p) \/ ExitDrop(p) \/ BusyTimeout(p)
           \/ Die(p)
  BY <1>2 DEF TypeOK, FinishMark, Finishing, FinishDrop, ExitDrop, BusyTimeout,
     Die
<1>3. CASE HaltSeen(p) \/ ClaimTask(p) \/ GiveUp(p) \/ KeepPolling(p)
  BY <1>3 DEF TypeOK, HaltSeen, ClaimTask, GiveUp, KeepPolling, Decide
<1> QED
  BY <1>1, <1>2, <1>3 DEF ClientStep

LEMMA UnspawnedStep ==
  ASSUME CountInv, [Next]_vars
  PROVE  Unspawned'
<1>a. TypeOK
  BY DEF CountInv, Inv
<1>b. at \in Nat
  BY <1>a, ConstantTypes DEF TypeOK
<1>0. TypeOK /\ at \in Nat /\ Procs \subseteq Nat
  BY <1>a, <1>b, ConstantTypes
<1>1. ASSUME NEW p \in Procs, ClientStep(p) \/ BusyTimeout(p) \/ RunBusyTimeout(p)
      PROVE  Unspawned'
  BY <1>0, <1>1, ClientFrame DEF CountInv, Unspawned, master
<1>2. CASE MasterStart
  <2>1. /\ mpc = "script"
        /\ pc' = pc \/ pc' = [pc EXCEPT ![at] = "poll"]
        /\ \/ mpc' = "insert" /\ at' = at
           \/ mpc' = mpc /\ at' = at + 1
    BY <1>2 DEF MasterStart, MasterAt, StartClient
  <2>2. \A q \in Procs : q > at => pc'[q] = "unborn"
    BY <1>0, <2>1 DEF CountInv, Unspawned, TypeOK
  <2> QED
    BY <1>0, <2>1, <2>2 DEF Unspawned
<1>3. CASE InsertTask
  BY <1>0, <1>3 DEF CountInv, Unspawned, InsertTask, local
<1>4. CASE MasterWait \/ MasterCheck
  <2>1. mpc = "script" /\ mpc' = mpc /\ at' = at + 1 /\ pc' = pc
    BY <1>4 DEF MasterWait, MasterAt, WaitForClient, MasterCheck, local
  <2> QED
    BY <1>0, <2>1 DEF CountInv, Unspawned
<1>5. CASE \/ MasterExit \/ MasterDie \/ ShutdownWait \/ RequestHalt
           \/ DrainClients \/ ReadCounters \/ MasterBusyTimeout
  BY <1>5 DEF Unspawned, MasterExit, MasterDie, ShutdownWait, RequestHalt,
              DrainClients, ReadCounters, MasterBusyTimeout
<1>6. CASE UNCHANGED vars
  BY <1>6 DEF CountInv, Unspawned, vars
<1> QED
  BY <1>1, <1>2, <1>3, <1>4, <1>5, <1>6 DEF Next, MasterStep, Finished

\* what was counted stays counted
LEMMA ExecutedGrows ==
  ASSUME TypeOK, [Next]_vars
  PROVE  /\ executed.nError <= executed'.nError
         /\ executed.nTest <= executed'.nTest
<1>0. executed.nError \in Nat /\ executed.nTest \in Nat
      /\ executed \in [nError : Nat, nTest : Nat]
  BY DEF TypeOK
<1>1. ASSUME NEW a, NEW e \in Nat, NEW n \in Nat, Count(a, e, n)
      PROVE  executed.nError <= executed'.nError /\ executed.nTest <= executed'.nTest
  BY <1>0, <1>1 DEF Count
<1>2. CASE UNCHANGED executed
  BY <1>0, <1>2
<1>3. CASE executed' = [executed EXCEPT !.nError = @ + 1]
  BY <1>0, <1>3
<1> DEFINE Counting ==
             \/ UNCHANGED executed
             \/ executed' = [executed EXCEPT !.nError = @ + 1]
             \/ \E a : \E e \in Nat, n \in Nat : Count(a, e, n)
<1>4. Counting
  <2>1. ASSUME NEW p \in Procs, ClientStep(p) \/ BusyTimeout(p) \/ RunBusyTimeout(p)
        PROVE  Counting
    <3>1. CASE \/ StartScriptNested(p) \/ RunCheck(p) \/ RunMisuse(p)
               \/ RunBusyTimeout(p) \/ BusyTimeout(p)
      BY <3>1 DEF StartScriptNested, RunCheck, Check, RunMisuse, RunBusyTimeout,
                  SqlFails, BusyTimeout
    <3>2. CASE \/ StartScript(p) \/ StartScriptBusy(p) \/ HaltSeen(p)
               \/ ClaimTask(p) \/ GiveUp(p) \/ KeepPolling(p) \/ CommitStart(p)
               \/ RunBegin(p) \/ RunCommit(p) \/ FinishMark(p) \/ FinishDrop(p)
               \/ ExitDrop(p) \/ Die(p)
      BY <3>2 DEF StartScript, StartScriptBusy, HaltSeen, ClaimTask, GiveUp,
         KeepPolling, CommitStart, RunBegin, RunCommit, FinishMark, FinishDrop,
         ExitDrop, Die
    <3> QED
      BY <2>1, <3>1, <3>2 DEF ClientStep
  <2>2. ASSUME MasterStep \/ MasterBusyTimeout
        PROVE  Counting
    BY <2>2 DEF MasterStep, MasterStart, StartClient, InsertTask, MasterWait,
       MasterCheck, Check, MasterExit, MasterDie, ShutdownWait, WaitForClient,
       RequestHalt, DrainClients, ReadCounters, MasterBusyTimeout
  <2> QED
    BY <2>1, <2>2 DEF Next, Finished, vars
<1> QED
  BY <1>1, <1>2, <1>3, <1>4

LEMMA ReportedStep ==
  ASSUME CountInv, [Next]_vars
  PROVE  Reported'
<1>0. TypeOK /\ Master \in Agents
  BY DEF CountInv, Inv, Agents
<1>1. /\ executed.nError <= executed'.nError /\ executed.nTest <= executed'.nTest
  BY <1>0, ExecutedGrows
<1>2. /\ executed.nError \in Nat /\ executed.nTest \in Nat
  BY <1>0, BalanceTypes
<1>3. CASE ReadCounters
  <2>1. /\ nError[Master] <= Total(nError) /\ nTest[Master] <= Total(nTest)
        /\ Total(nError) \in Nat /\ Total(nTest) \in Nat
        /\ nError[Master] \in Nat /\ nTest[Master] \in Nat
    BY <1>0, TotalType DEF TypeOK
  <2>2. OpenErrors \in Nat /\ OpenTests \in Nat
    <3>1. CASE lock = NoLock
      BY <3>1 DEF OpenErrors, OpenTests
    <3>2. CASE lock # NoLock
      <4>1. lock \in Procs
        BY <1>0, <3>2 DEF TypeOK
      <4>2. /\ db.nError <= view[lock].nError /\ db.nTest <= view[lock].nTest
        BY <4>1 DEF CountInv, OpenCounters
      <4> QED
        BY <1>0, <3>2, <4>1, <4>2, BalanceTypes DEF OpenErrors, OpenTests
    <3> QED
      BY <3>1, <3>2
  <2>3. db.nError \in Nat /\ db.nTest \in Nat
    BY <1>0, BalanceTypes
  <2>4. /\ nError[Master] + db.nError <= executed.nError
        /\ nTest[Master] + db.nTest <= executed.nTest
    BY <1>2, <2>1, <2>2, <2>3 DEF CountInv, Balanced, HeldErrors, HeldTests
  <2>5. /\ nError[Master] <= executed.nError
        /\ nTest[Master] <= executed.nTest
    BY <1>2, <2>1, <2>3, <2>4
  <2>6. /\ summary'.nError \in {nError[Master], nError[Master] + db.nError}
        /\ summary'.nTest \in {nTest[Master], nTest[Master] + db.nTest}
        /\ executed' = executed
    BY <1>3 DEF ReadCounters
  <2> QED
    BY <2>4, <2>5, <2>6 DEF Reported
<1>4. CASE ~ReadCounters
  <2> DEFINE Kept == summary' = summary /\ (mpc' = "done" => mpc = "done")
  <2>1. Kept
    <3>1. ASSUME NEW p \in Procs, ClientStep(p) \/ BusyTimeout(p) \/ RunBusyTimeout(p)
          PROVE  Kept
      BY <1>0, <3>1, ClientFrame DEF master
    <3>2. ASSUME MasterStep \/ MasterBusyTimeout
          PROVE  Kept
      BY <1>4, <3>2 DEF MasterStep, MasterStart, MasterAt, InsertTask,
         MasterWait, MasterCheck, MasterExit, MasterDie, ShutdownWait,
         RequestHalt, DrainClients, MasterBusyTimeout
    <3> QED
      BY <3>1, <3>2 DEF Next, Finished, vars
  <2>2. summary.nError \in Nat /\ summary.nTest \in Nat
    BY <1>0 DEF TypeOK
  <2>3. executed'.nError \in Nat /\ executed'.nTest \in Nat
    <3>1. TypeOK'
      BY NextInv DEF CountInv, Inv
    <3> QED
      BY <3>1 DEF TypeOK
  <2> QED
    BY <1>1, <1>2, <2>1, <2>2, <2>3 DEF CountInv, Reported
<1> QED
  BY <1>3, <1>4

LEMMA CountInit == Init => CountInv
<1> SUFFICES ASSUME Init PROVE CountInv
  OBVIOUS
<1>1. Inv /\ TypeOK
  BY InitInv DEF Inv
<1>2. Total(nError) = 0 /\ Total(nTest) = 0
  BY <1>1, TotalType DEF Init, TypeOK
<1>3. OpenErrors = 0 /\ OpenTests = 0
  BY DEF Init, OpenErrors, OpenTests
<1>4. Balanced
  BY <1>2, <1>3 DEF Init, NewTables, Balanced, HeldErrors, HeldTests
<1>5. OpenCounters
  BY ConstantTypes DEF Init, OpenCounters
<1>6. Flushed /\ Unspawned /\ Reported
  BY DEF Init, Flushed, Unspawned, Reported
<1> QED
  BY <1>1, <1>4, <1>5, <1>6 DEF CountInv

LEMMA CountNext == CountInv /\ [Next]_vars => CountInv'
<1> SUFFICES ASSUME CountInv, [Next]_vars PROVE CountInv'
  OBVIOUS
<1>1. Inv' /\ TypeOK'
  BY NextInv DEF CountInv, Inv
<1>2. ASSUME NEW p \in Procs, ClientStep(p) \/ BusyTimeout(p) \/ RunBusyTimeout(p)
      PROVE  Balanced' /\ OpenCounters' /\ Flushed'
  BY <1>1, <1>2, CountStart, CountDecide, CountCommit, CountCounting, CountQuiet,
     CountRollback DEF ClientStep
<1>3. ASSUME MasterStep \/ MasterBusyTimeout
      PROVE  Balanced' /\ OpenCounters' /\ Flushed'
  BY <1>1, <1>3, CountMaster
<1>4. ASSUME UNCHANGED vars PROVE Balanced' /\ OpenCounters' /\ Flushed'
  <2>1. StoreKept /\ UNCHANGED <<nError, nTest, executed, pc, after>>
    BY <1>4 DEF StoreKept, vars
  <2>2. Balanced'
    BY <1>1, <2>1, QuietBalance DEF NoneFatal
  <2>3. OpenCounters'
    BY <2>1, KeptOpen DEF InStartScript
  <2>4. Flushed'
    BY <2>1 DEF CountInv, Flushed
  <2> QED
    BY <2>2, <2>3, <2>4
<1> QED
  BY <1>1, <1>2, <1>3, <1>4, UnspawnedStep, ReportedStep
     DEF Next, Finished, CountInv

\* Every error and test is counted exactly once on its way from the process
\* that met it to the Summary line, unless fatal_error rolled a transaction
\* back, and the Summary never reports more than there were; the flush of
\* start_script comes before it looks at wantHalt, so a halting client has
\* nothing left to report.
THEOREM CountsAreConserved == Spec => []CountsConserved
<1>1. CountInv => CountsConserved
  BY DEF CountInv, CountsConserved, HaltLosesNothing, Flushed, Balanced,
         NoneFatal, HeldErrors, HeldTests, Reported
<1> QED
  BY <1>1, CountInit, CountNext, PTL DEF Spec
=============================================================================
