---------------------------- MODULE RunnerProofs ----------------------------
(***************************************************************************)
(* Proofs about the script runner, for every number of items and workers   *)
(* and every environment.  Inv is the inductive invariant: an index below  *)
(* the counter is held by one worker or has its result, an index at or     *)
(* above it has been touched by nobody, and a good result is backed by a   *)
(* script that ended by itself.                                            *)
(*                                                                         *)
(* The second half is about stdfs, whose go, python and node items are run *)
(* by the same runner: for every --lang, every set of packages, modules    *)
(* and files, and every number of rust tests.  StdfsInv is the inductive   *)
(* invariant: the program goes through its tests in order and exits with 0 *)
(* only behind the last of them, and what a language says agrees with what *)
(* its items did.                                                          *)
(***************************************************************************)
EXTENDS Runner, Stdfs, TLAPS

Idle == {"take", "done"}

\* a worker has an item exactly while it works on it; no two have the same
Holding ==
  /\ \A w \in Workers : pc[w] \in Idle <=> item[w] = Nobody
  /\ \A v, w \in Workers : v # w /\ item[v] # Nobody => item[v] # item[w]

\* the counter separates the items that were given away from the others
Counting ==
  /\ \A w \in Workers : item[w] # Nobody => item[w] < next
  /\ \A w \in Workers : pc[w] = "done" => N <= next
  /\ \A i \in Items : i < next =>
       slot[i] # Missing \/ \E w \in Workers : item[w] = i
  /\ \A i \in Items : next <= i => slot[i] = Missing /\ spawns[i] = 0

\* what an item has been through, by the state of the worker that holds it
Stages ==
  /\ \A i \in Items : spawns[i] <= 1
  /\ \A w \in Workers :
       /\ item[w] # Nobody => slot[item[w]] = Missing
       /\ pc[w] \in {"prepare", "spawn"} => spawns[item[w]] = 0
       /\ pc[w] \in {"poll", "kill"} =>
            child[item[w]] \in {"alive", "stuck", "zombie"}
       /\ pc[w] = "store" => res[w] \in Statuses

\* the script of i ended by itself, with nothing failed
Earned(i) ==
  /\ child[i] \in {"zombie", "reaped"} /\ ~killed[i]
  /\ output[i].complete
  /\ ~output[i].bad \/ output[i].empty

Backed ==
  /\ \A i \in Items : slot[i] \in {"ok", "skip"} => Earned(i)
  /\ \A w \in Workers :
       pc[w] = "store" /\ res[w] \in {"ok", "skip"} => Earned(item[w])

\* the driver is past the join only when every worker has ended
Joined ==
  /\ main # "join" => /\ \A w \in Workers : pc[w] = "done"
                      /\ \A i \in Items : slot[i] # Missing
                      /\ runOk = Tally
  /\ main # "panic"
  /\ main \in {"join", "look", "cleanup", "emit"} => report = Missing
  /\ main = "done" => report = IF runOk THEN "ok" ELSE "failed"

Inv == TypeOK /\ Holding /\ Counting /\ Stages /\ Backed /\ Joined

-----------------------------------------------------------------------------
LEMMA Constants ==
  /\ N \in Nat
  /\ Items \subseteq Nat
  /\ Nobody \in Nat /\ Nobody \notin Items
  /\ \A i \in Items : i < N
  /\ \A n \in Nat : n < N => n \in Items
  /\ Missing \notin Statuses
  /\ Failing \subseteq Statuses
BY RunnerAssumption DEF Items, Nobody, Missing, Statuses, Failing

\* the initial states
LEMMA InitInv == Init => Inv
<1> SUFFICES ASSUME Init PROVE Inv
  OBVIOUS
<1>1. TypeOK
  BY DEF Init, TypeOK, Steps
<1>2. Holding
  BY DEF Init, Holding, Idle
<1>3. Counting
  BY Constants DEF Init, Counting
<1>4. Stages
  BY DEF Init, Stages
<1>5. Backed
  BY DEF Init, Backed, Missing
<1>6. Joined
  BY DEF Init, Joined
<1> QED
  BY <1>1, <1>2, <1>3, <1>4, <1>5, <1>6 DEF Inv

-----------------------------------------------------------------------------
(* Types. *)

LEMMA StatusType ==
  ASSUME TypeOK, NEW i \in Items
  PROVE  Status(i) \in Statuses
BY DEF Status, SqliteStatus, GitStatus, Statuses

LEMMA TypeEnvironment ==
  ASSUME TypeOK, NEW i \in Items, Environment(i) \/ DeadlinePasses(i)
  PROVE  TypeOK'
<1>1. CASE ScriptForks(i)
  BY <1>1 DEF TypeOK, ScriptForks, workers, mount, driver
<1>2. CASE ScriptExits(i)
  BY <1>2 DEF TypeOK, ScriptExits, workers, mount, driver
<1>3. CASE KinExits(i)
  BY <1>3 DEF TypeOK, KinExits, workers, mount, driver
<1>4. CASE ScriptSticks(i)
  BY <1>4 DEF TypeOK, ScriptSticks, workers, mount, driver
<1>5. CASE ScriptResumes(i)
  BY <1>5 DEF TypeOK, ScriptResumes, workers, mount, driver
<1>6. CASE DeadlinePasses(i)
  BY <1>6 DEF TypeOK, DeadlinePasses, workers, mount, driver
<1> QED
  BY <1>1, <1>2, <1>3, <1>4, <1>5, <1>6 DEF Environment

LEMMA TypeWorker ==
  ASSUME TypeOK, Holding, Stages, NEW w \in Workers, Worker(w)
  PROVE  TypeOK'
<1>0. pc[w] \notin Idle => item[w] \in Items
  BY DEF TypeOK, Holding
<1>1. CASE Take(w)
  <2>1. item' \in [Workers -> Items \cup {Nobody}]
    BY <1>1, Constants DEF TypeOK, Take
  <2>2. pc' \in [Workers -> Steps]
    BY <1>1 DEF TypeOK, Take, Goto, Steps
  <2>3. next' \in Nat
    BY <1>1 DEF TypeOK, Take
  <2> QED
    BY <1>1, <2>1, <2>2, <2>3 DEF TypeOK, Take, process, mount, driver
<1>2. CASE Prepare(w)
  <2>1. item[w] \in Items
    BY <1>0, <1>2 DEF Prepare, Idle
  <2>2. pc' \in [Workers -> Steps]
    BY <1>2 DEF TypeOK, Prepare, Goto, Steps
  <2>3. res' \in [Workers -> Statuses \cup {Missing}]
    BY <1>2 DEF TypeOK, Prepare, Statuses
  <2>4. owner' \in [Dirs -> Items \cup {Nobody}]
    BY <1>2, <2>1 DEF TypeOK, Prepare
  <2> QED
    BY <1>2, <2>2, <2>3, <2>4 DEF TypeOK, Prepare, process, driver
<1>3. CASE Spawn(w)
  <2>1. item[w] \in Items
    BY <1>0, <1>3 DEF Spawn, Idle
  <2>2. pc' \in [Workers -> Steps]
    BY <1>3 DEF TypeOK, Spawn, Goto, Steps
  <2>3. res' \in [Workers -> Statuses \cup {Missing}]
    BY <1>3 DEF TypeOK, Spawn, Statuses
  <2>4. spawns' \in [Items -> Nat]
    BY <1>3, <2>1 DEF TypeOK, Spawn
  <2>5. child' \in [Items -> {"none", "alive", "stuck", "zombie", "reaped"}]
    BY <1>3 DEF TypeOK, Spawn
  <2> QED
    BY <1>3, <2>2, <2>3, <2>4, <2>5 DEF TypeOK, Spawn, mount, driver
<1>4. CASE Poll(w)
  <2>1. pc' \in [Workers -> Steps]
    BY <1>4 DEF TypeOK, Poll, Goto, Steps
  <2>2. child' \in [Items -> {"none", "alive", "stuck", "zombie", "reaped"}]
    BY <1>4 DEF TypeOK, Poll
  <2> QED
    BY <1>4, <2>1, <2>2 DEF TypeOK, Poll, mount, driver
<1>5. CASE Kill(w)
  <2>1. pc' \in [Workers -> Steps]
    BY <1>5 DEF TypeOK, Kill, Goto, Steps
  <2>2. child' \in [Items -> {"none", "alive", "stuck", "zombie", "reaped"}]
    BY <1>5 DEF TypeOK, Kill
  <2>3. kin' \in [Items -> KinKinds \cup {"none"}]
    BY <1>5 DEF TypeOK, Kill
  <2>4. killed' \in [Items -> BOOLEAN]
    BY <1>5 DEF TypeOK, Kill
  <2> QED
    BY <1>5, <2>1, <2>2, <2>3, <2>4 DEF TypeOK, Kill, mount, driver
<1>6. CASE Reap(w)
  <2>1. pc' \in [Workers -> Steps]
    BY <1>6 DEF TypeOK, Reap, Goto, Steps
  <2>2. child' \in [Items -> {"none", "alive", "stuck", "zombie", "reaped"}]
    BY <1>6 DEF TypeOK, Reap
  <2> QED
    BY <1>6, <2>1, <2>2 DEF TypeOK, Reap, mount, driver
<1>7. CASE Drain(w)
  <2>1. item[w] \in Items
    BY <1>0, <1>7 DEF Drain, Idle
  <2>2. pc' \in [Workers -> Steps]
    BY <1>7 DEF TypeOK, Drain, Goto, Steps
  <2>3. res' \in [Workers -> Statuses \cup {Missing}]
    BY <1>7, <2>1, StatusType DEF TypeOK, Drain
  <2> QED
    BY <1>7, <2>2, <2>3 DEF TypeOK, Drain, process, mount, driver
<1>8. CASE Store(w)
  <2>1. pc' \in [Workers -> Steps]
    BY <1>8 DEF TypeOK, Store, Goto, Steps
  <2>2. slot' \in [Items -> Statuses \cup {Missing}]
    BY <1>8 DEF TypeOK, Store
  <2> QED
    BY <1>8, <2>1, <2>2 DEF TypeOK, Store, process, mount, driver
<1> QED
  BY <1>1, <1>2, <1>3, <1>4, <1>5, <1>6, <1>7, <1>8 DEF Worker

LEMMA TypeDriver ==
  ASSUME TypeOK, Driver \/ RemoverFinishes
  PROVE  TypeOK'
<1>1. CASE Join
  BY <1>1 DEF TypeOK, Join, Tally, workers, process, mount
<1>2. CASE Cleanup
  BY <1>2 DEF TypeOK, Cleanup, workers, process, mount
<1>3. CASE Emit
  BY <1>3 DEF TypeOK, Emit, workers, process, mount
<1>4. CASE RemoverFinishes
  BY <1>4 DEF TypeOK, RemoverFinishes, workers, process, mount
<1>5. CASE LookForWorkRoot
  BY <1>5 DEF TypeOK, LookForWorkRoot, workers, process, mount
<1> QED
  BY <1>1, <1>2, <1>3, <1>4, <1>5 DEF Driver

-----------------------------------------------------------------------------
(* The environment: it touches no result and revives no ended script. *)

LEMMA EnvironmentStep ==
  ASSUME Inv, NEW i \in Items, Environment(i) \/ DeadlinePasses(i)
  PROVE  Inv'
<1>1. UNCHANGED <<workers, driver, spawns, killed>>
  BY DEF Environment, DeadlinePasses, ScriptForks, ScriptExits, KinExits,
         ScriptSticks, ScriptResumes
<1>2. TypeOK'
  BY TypeEnvironment DEF Inv
<1>3. \A j \in Items :
        /\ child[j] \in {"alive", "stuck", "zombie"} =>
             child'[j] \in {"alive", "stuck", "zombie"}
        /\ child[j] \in {"zombie", "reaped"} =>
             child'[j] = child[j] /\ output'[j] = output[j]
  BY DEF Inv, TypeOK, Environment, DeadlinePasses, ScriptForks, ScriptExits,
         KinExits, ScriptSticks, ScriptResumes
<1>4. Holding' /\ Counting' /\ Joined'
  BY <1>1 DEF Inv, Holding, Counting, Joined, Tally, workers, driver
<1>5. \A w \in Workers : pc[w] \in {"poll", "kill", "store"} => item[w] \in Items
  BY DEF Inv, TypeOK, Holding, Idle
<1>6. Stages'
  BY <1>1, <1>3, <1>5 DEF Inv, Stages, workers
<1>7. \A j \in Items : Earned(j) => Earned(j)'
  BY <1>1, <1>3 DEF Earned
<1>8. Backed'
  BY <1>1, <1>5, <1>7 DEF Inv, Backed, workers
<1> QED
  BY <1>2, <1>4, <1>6, <1>8 DEF Inv

\* a call on the mount blocks a thread, and nothing else changes
LEMMA MountStep ==
  ASSUME Inv, NEW t \in Threads, CallBlocks(t) \/ CallReturns(t)
  PROVE  Inv'
<1>1. blocked' \subseteq Threads
  BY DEF Inv, TypeOK, CallBlocks, CallReturns
<1>2. UNCHANGED <<suite, workers, process, owner, driver, spawns>>
  BY DEF CallBlocks, CallReturns
<1>3. TypeOK'
  BY <1>1, <1>2 DEF Inv, TypeOK, workers, process, driver
<1>4. Holding' /\ Counting' /\ Stages'
  BY <1>2 DEF Inv, Holding, Counting, Stages, workers, process
<1>5. Backed' /\ Joined'
  BY <1>2 DEF Inv, Backed, Earned, Joined, Tally, workers, process, driver
<1> QED
  BY <1>3, <1>4, <1>5 DEF Inv

-----------------------------------------------------------------------------
(* The workers. *)

\* no worker is active once the driver has joined them
LEMMA StillJoining ==
  ASSUME Inv, NEW w \in Workers, Worker(w)
  PROVE  main = "join" /\ UNCHANGED driver
<1>1. pc[w] # "done"
  BY DEF Worker, Take, Prepare, Spawn, Poll, Kill, Reap, Drain, Store
<1>2. UNCHANGED driver
  BY DEF Worker, Take, Prepare, Spawn, Poll, Kill, Reap, Drain, Store
<1> QED
  BY <1>1, <1>2 DEF Inv, Joined

\* a step that works on the child of w's own item
LEMMA OwnItem ==
  ASSUME Inv, NEW w \in Workers, item[w] \in Items, pc[w] # "store",
         \A j \in Items : j # item[w] =>
           child'[j] = child[j] /\ killed'[j] = killed[j] /\ output'[j] = output[j],
         UNCHANGED slot, \A v \in Workers : v # w => pc'[v] = pc[v],
         UNCHANGED item, \A v \in Workers : v # w => res'[v] = res[v],
         pc'[w] = "store" => res'[w] = "broken"
  PROVE  Backed'
<1>1. \A j \in Items : j # item[w] => (Earned(j) => Earned(j)')
  BY DEF Earned
<1>2. slot[item[w]] = Missing
  BY Constants DEF Inv, Stages
<1>3. \A j \in Items : slot'[j] \in {"ok", "skip"} => Earned(j)'
  BY <1>1, <1>2 DEF Inv, Backed, Missing
<1>4. ASSUME NEW v \in Workers, pc'[v] = "store", res'[v] \in {"ok", "skip"}
      PROVE  Earned(item[v])'
  <2>1. v # w
    BY <1>4
  <2>2. item[v] \in Items /\ item[v] # item[w]
    BY <1>4, <2>1, Constants DEF Inv, TypeOK, Holding, Idle
  <2>3. Earned(item[v])
    BY <1>4, <2>1 DEF Inv, Backed
  <2> QED
    BY <1>1, <2>2, <2>3
<1> QED
  BY <1>3, <1>4 DEF Backed

LEMMA TakeStep ==
  ASSUME Inv, NEW w \in Workers, Take(w)
  PROVE  Inv'
<1>1. TypeOK'
  BY TypeWorker DEF Inv, Worker
<1>2. /\ main = "join" /\ UNCHANGED driver
      /\ UNCHANGED <<res, slot, child, killed, output, spawns>>
  BY StillJoining DEF Worker, Take, process
<1>3. /\ pc[w] = "take" /\ item[w] = Nobody
      /\ next \in Nat /\ next' = next + 1
      /\ item'[w] = IF next < N THEN next ELSE Nobody
      /\ pc'[w] = IF next < N THEN "prepare" ELSE "done"
      /\ \A v \in Workers : v # w => pc'[v] = pc[v] /\ item'[v] = item[v]
  BY DEF Inv, TypeOK, Holding, Idle, Take, Goto
<1>4. Holding'
  BY <1>3, Constants DEF Inv, Holding, Counting, Idle, TypeOK
<1>5. Counting'
  <2>1. ASSUME NEW v \in Workers, item'[v] # Nobody PROVE item'[v] < next'
    <3>1. CASE v = w
      BY <1>3, <2>1, <3>1
    <3>2. CASE v # w
      <4>1. item'[v] = item[v]
        BY <1>3, <3>2
      <4>2. item[v] \in Nat
        BY Constants DEF Inv, TypeOK
      <4>3. item[v] < next
        BY <2>1, <4>1 DEF Inv, Counting
      <4> QED
        BY <1>3, <4>1, <4>2, <4>3
    <3> QED
      BY <3>1, <3>2
  <2>2. \A v \in Workers : pc'[v] = "done" => N <= next'
    BY <1>3, Constants DEF Inv, Counting, TypeOK
  <2>3. \A i \in Items : i < next' =>
          slot'[i] # Missing \/ \E v \in Workers : item'[v] = i
    <3> SUFFICES ASSUME NEW i \in Items, i < next', slot[i] = Missing
                 PROVE  \E v \in Workers : item'[v] = i
      BY <1>2
    <3>1. CASE i = next
      BY <1>3, <3>1, Constants
    <3>2. CASE i # next
      <4>1. i < next
        BY <1>3, <3>2, Constants
      <4>2. PICK v \in Workers : item[v] = i
        BY <4>1 DEF Inv, Counting
      <4>3. v # w
        BY <1>3, <4>2, Constants
      <4> QED
        BY <1>3, <4>2, <4>3
    <3> QED
      BY <3>1, <3>2
  <2>4. \A i \in Items : next' <= i => slot'[i] = Missing /\ spawns'[i] = 0
    BY <1>2, <1>3, Constants DEF Inv, Counting
  <2> QED
    BY <2>1, <2>2, <2>3, <2>4 DEF Counting
<1>6. Stages'
  <2>1. next < N => slot[next] = Missing /\ spawns[next] = 0
    BY <1>3, Constants DEF Inv, Counting
  <2> QED
    BY <1>2, <1>3, <2>1 DEF Inv, Stages
<1>7. Backed'
  BY <1>2, <1>3 DEF Inv, Backed, Earned
<1>8. Joined'
  BY <1>2 DEF Inv, Joined, driver
<1> QED
  BY <1>1, <1>4, <1>5, <1>6, <1>7, <1>8 DEF Inv

\* Prepare, Spawn, Poll, Kill, Reap and Drain keep the item
LEMMA WorkStep ==
  ASSUME Inv, NEW w \in Workers,
         Prepare(w) \/ Spawn(w) \/ Poll(w) \/ Kill(w) \/ Reap(w) \/ Drain(w)
  PROVE  Inv'
<1>1. TypeOK'
  BY TypeWorker DEF Inv, Worker
<1>2. main = "join" /\ UNCHANGED driver
  BY StillJoining DEF Worker
<1>3. /\ pc[w] \in {"prepare", "spawn", "poll", "kill", "reap", "drain"}
      /\ pc'[w] \in {"spawn", "poll", "kill", "reap", "drain", "store"}
      /\ UNCHANGED <<next, item, slot>>
      /\ \A v \in Workers : v # w => pc'[v] = pc[v] /\ res'[v] = res[v]
  BY DEF Inv, TypeOK, Prepare, Spawn, Poll, Kill, Reap, Drain, Goto
<1>4. item[w] \in Items /\ slot[item[w]] = Missing /\ item[w] < next
  BY <1>3, Constants DEF Inv, TypeOK, Holding, Idle, Stages, Counting
<1>5. Holding'
  BY <1>3 DEF Inv, Holding, Idle
<1>6. /\ \A i \in Items : i # item[w] => spawns'[i] = spawns[i]
      /\ \A i \in Items : i # item[w] => child'[i] = child[i]
      /\ \A i \in Items : i # item[w] => killed'[i] = killed[i]
      /\ UNCHANGED output
  BY <1>4 DEF Inv, TypeOK, Prepare, Spawn, Poll, Kill, Reap, Drain, process
<1>7. Counting'
  <2>1. \A i \in Items : next <= i => i # item[w]
    BY <1>4, Constants DEF Inv, TypeOK
  <2>2. \A v \in Workers : pc'[v] = "done" => pc[v] = "done"
    BY <1>3
  <2> QED
    BY <1>3, <1>6, <2>1, <2>2 DEF Inv, Counting
<1>8. Stages'
  <2>1. \A i \in Items : spawns'[i] <= 1
    <3>1. spawns'[item[w]] <= 1
      BY <1>4 DEF Inv, TypeOK, Stages, Prepare, Spawn, Poll, Kill, Reap, Drain
    <3> QED
      BY <1>6, <3>1 DEF Inv, Stages
  <2>2. \A v \in Workers : item[v] # Nobody => slot'[item[v]] = Missing
    BY <1>3 DEF Inv, Stages
  <2>3. /\ pc'[w] \in {"prepare", "spawn"} => spawns'[item[w]] = 0
        /\ pc'[w] \in {"poll", "kill"} =>
             child'[item[w]] \in {"alive", "stuck", "zombie"}
        /\ pc'[w] = "store" => res'[w] \in Statuses
    <3>1. CASE Prepare(w)
      BY <3>1 DEF Inv, TypeOK, Stages, Prepare, Goto, Statuses
    <3>2. CASE Spawn(w)
      BY <1>4, <3>2 DEF Inv, TypeOK, Stages, Spawn, Goto, Statuses
    <3>3. CASE Poll(w)
      BY <1>4, <3>3 DEF Inv, TypeOK, Stages, Poll, Goto
    <3>4. CASE Kill(w)
      BY <1>4, <3>4 DEF Inv, TypeOK, Stages, Kill, Goto
    <3>5. CASE Reap(w)
      BY <1>4, <3>5 DEF Inv, TypeOK, Stages, Reap, Goto
    <3>6. CASE Drain(w)
      BY <1>4, <3>6, StatusType DEF Inv, TypeOK, Drain, Goto
    <3> QED
      BY <3>1, <3>2, <3>3, <3>4, <3>5, <3>6
  <2>4. ASSUME NEW v \in Workers, v # w
        PROVE  /\ pc'[v] \in {"prepare", "spawn"} => spawns'[item[v]] = 0
               /\ pc'[v] \in {"poll", "kill"} =>
                    child'[item[v]] \in {"alive", "stuck", "zombie"}
               /\ pc'[v] = "store" => res'[v] \in Statuses
    <3>1. pc[v] \notin Idle => item[v] \in Items /\ item[v] # item[w]
      BY <2>4, Constants DEF Inv, TypeOK, Holding
    <3> QED
      BY <1>3, <1>6, <2>4, <3>1 DEF Inv, Stages, Idle
  <2> QED
    BY <1>3, <2>1, <2>2, <2>3, <2>4 DEF Stages
<1>9. Backed'
  <2>1. CASE Drain(w)
    <3>1. UNCHANGED <<child, killed, output>>
      BY <2>1 DEF Drain, process
    <3>2. res'[w] \in {"ok", "skip"} => Earned(item[w])
      <4>1. res'[w] = Status(item[w]) /\ child[item[w]] \in {"zombie", "reaped"}
        BY <2>1 DEF Inv, TypeOK, Drain
      <4> QED
        BY <4>1 DEF Status, SqliteStatus, GitStatus, Earned
    <3>3. \A i : Earned(i)' <=> Earned(i)
      BY <3>1 DEF Earned
    <3> QED
      BY <1>3, <3>2, <3>3 DEF Inv, Backed
  <2>2. CASE ~Drain(w)
    <3>1. pc'[w] = "store" => res'[w] = "broken"
      BY <2>2 DEF Inv, TypeOK, Prepare, Spawn, Poll, Kill, Reap, Goto
    <3> QED
      BY <1>3, <1>4, <1>6, <3>1, OwnItem
  <2> QED
    BY <2>1, <2>2
<1>10. Joined'
  BY <1>2 DEF Inv, Joined, driver
<1> QED
  BY <1>1, <1>5, <1>7, <1>8, <1>9, <1>10 DEF Inv

LEMMA StoreStep ==
  ASSUME Inv, NEW w \in Workers, Store(w)
  PROVE  Inv'
<1>1. TypeOK'
  BY TypeWorker DEF Inv, Worker
<1>2. /\ main = "join" /\ UNCHANGED driver
      /\ UNCHANGED <<next, child, killed, output, spawns>>
  BY StillJoining DEF Worker, Store, process
<1>3. /\ pc[w] = "store" /\ pc'[w] = "take" /\ item'[w] = Nobody
      /\ \A v \in Workers : v # w => /\ pc'[v] = pc[v] /\ item'[v] = item[v]
                                    /\ res'[v] = res[v]
  BY DEF Inv, TypeOK, Store, Goto
<1>4. /\ item[w] \in Items /\ item[w] < next
      /\ res[w] \in Statuses
  BY <1>3, Constants DEF Inv, TypeOK, Holding, Idle, Stages, Counting
<1>5. /\ slot'[item[w]] = res[w] /\ res[w] # Missing
      /\ \A i \in Items : i # item[w] => slot'[i] = slot[i]
  BY <1>4, Constants DEF Inv, TypeOK, Store
<1>6. \A v \in Workers : v # w /\ item[v] # Nobody => item[v] \in Items \ {item[w]}
  BY Constants DEF Inv, TypeOK, Holding
<1>7. Holding'
  BY <1>3 DEF Inv, Holding, Idle
<1>8. Counting'
  <2>1. \A v \in Workers : item'[v] # Nobody => item'[v] < next'
    BY <1>2, <1>3 DEF Inv, Counting
  <2>2. \A v \in Workers : pc'[v] = "done" => N <= next'
    BY <1>2, <1>3 DEF Inv, Counting
  <2>3. \A i \in Items : i < next' =>
          slot'[i] # Missing \/ \E v \in Workers : item'[v] = i
    BY <1>2, <1>3, <1>5 DEF Inv, Counting
  <2>4. \A i \in Items : next' <= i => slot'[i] = Missing /\ spawns'[i] = 0
    <3>1. \A i \in Items : next <= i => i # item[w]
      BY <1>4, Constants DEF Inv, TypeOK
    <3> QED
      BY <1>2, <1>5, <3>1 DEF Inv, Counting
  <2> QED
    BY <2>1, <2>2, <2>3, <2>4 DEF Counting
<1>9. Stages'
  <2>1. \A v \in Workers : item'[v] # Nobody => slot'[item'[v]] = Missing
    BY <1>3, <1>5, <1>6 DEF Inv, Stages
  <2> QED
    BY <1>2, <1>3, <2>1 DEF Inv, Stages
<1>10. Backed'
  <2>1. \A i : Earned(i)' <=> Earned(i)
    BY <1>2 DEF Earned
  <2> QED
    BY <1>3, <1>5, <2>1 DEF Inv, Backed
<1>11. Joined'
  BY <1>2 DEF Inv, Joined, driver
<1> QED
  BY <1>1, <1>7, <1>8, <1>9, <1>10, <1>11 DEF Inv

-----------------------------------------------------------------------------
(* The driver. *)

LEMMA DriverStep ==
  ASSUME Inv, Driver \/ RemoverFinishes
  PROVE  Inv'
<1>1. TypeOK'
  BY TypeDriver DEF Inv
<1>2. UNCHANGED <<next, pc, item, res, slot, child, killed, output, spawns>>
  BY DEF Driver, Join, LookForWorkRoot, Cleanup, Emit, RemoverFinishes, workers, process
<1>3. Holding' /\ Counting' /\ Stages'
  BY <1>2 DEF Inv, Holding, Counting, Stages
<1>4. Backed'
  BY <1>2 DEF Inv, Backed, Earned
<1>5. Joined'
  <2>1. CASE Join
    <3>1. \A w \in Workers : pc[w] = "done" /\ item[w] = Nobody
      BY <2>1 DEF Inv, Holding, Join, Idle
    <3>2. N <= next
      BY <3>1, RunnerAssumption DEF Inv, Counting
    <3>3. \A i \in Items : slot[i] # Missing
      <4>1. \A i \in Items : i < next
        BY <3>2, Constants DEF Inv, TypeOK
      <4> QED
        BY <3>1, <4>1, Constants DEF Inv, Counting
    <3> QED
      BY <1>2, <2>1, <3>1, <3>3 DEF Inv, Joined, Join, Tally
  <2>2. CASE Cleanup
    BY <2>2 DEF Inv, Joined, Cleanup, Tally, workers
  <2>3. CASE Emit
    BY <2>3 DEF Inv, Joined, Emit, Tally, workers
  <2>4. CASE RemoverFinishes
    BY <2>4 DEF Inv, Joined, RemoverFinishes, Tally, workers
  <2>5. CASE LookForWorkRoot
    BY <2>5 DEF Inv, Joined, LookForWorkRoot, Tally, workers
  <2> QED
    BY <2>1, <2>2, <2>3, <2>4, <2>5 DEF Driver
<1> QED
  BY <1>1, <1>3, <1>4, <1>5 DEF Inv

-----------------------------------------------------------------------------
(* Theorems. *)

\* Inv holds in every reachable state of the runner, for any number of items
\* and workers (run_parallel, exec_with_timeout and run of src/src/sqlite.rs).
THEOREM RunnerInvariance == Spec => []Inv
<1>1. Inv /\ [Next]_vars => Inv'
  <2> SUFFICES ASSUME Inv, [Next]_vars PROVE Inv'
    OBVIOUS
  <2>1. ASSUME NEW i \in Items, Environment(i) \/ DeadlinePasses(i) PROVE Inv'
    BY <2>1, EnvironmentStep
  <2>2. ASSUME NEW w \in Workers, Worker(w) PROVE Inv'
    BY <2>2, TakeStep, WorkStep, StoreStep DEF Worker
  <2>3. CASE Driver \/ RemoverFinishes
    BY <2>3, DriverStep
  <2>4. ASSUME NEW t \in Threads, CallBlocks(t) \/ CallReturns(t) PROVE Inv'
    BY <2>4, MountStep
  <2>5. CASE UNCHANGED vars
    <3>1. TypeOK'
      BY <2>5 DEF vars, Inv, TypeOK
    <3>2. Holding' /\ Counting' /\ Stages'
      BY <2>5 DEF vars, Inv, Holding, Counting, Stages
    <3>3. Backed' /\ Joined'
      BY <2>5 DEF vars, Inv, Backed, Earned, Joined, Tally
    <3> QED
      BY <3>1, <3>2, <3>3 DEF Inv
  <2> QED
    BY <2>1, <2>2, <2>3, <2>4, <2>5 DEF Next, Finished
<1> QED
  BY InitInv, <1>1, PTL DEF Spec

\* The variables keep their types.
THEOREM RunnerTypes == Spec => []TypeOK
BY RunnerInvariance, PTL DEF Inv

\* The shared counter of run_parallel gives every item to one worker, which
\* spawns it at most once.
THEOREM ItemsRunOnce == Spec => []RunOnce
<1>1. Inv => RunOnce
  BY DEF Inv, Holding, Stages, RunOnce
<1> QED
  BY RunnerInvariance, <1>1, PTL

\* SIGKILL is only ever sent to a child that has not been reaped.
THEOREM KillIsSafe == Spec => []KillsOwnChild
<1>1. Inv => KillsOwnChild
  BY DEF Inv, Stages, KillsOwnChild
<1> QED
  BY RunnerInvariance, <1>1, PTL

\* expect("worker result") cannot fail, whatever the number of workers.
THEOREM JoinNeverPanics == Spec => []NoPanic
<1>1. Inv => NoPanic
  BY DEF Inv, Joined, NoPanic
<1> QED
  BY RunnerInvariance, <1>1, PTL

\* A run that reports ok has seen every script end well by itself.
THEOREM OkMeansPassed == Spec => []OkIsEarned
<1>1. Inv => OkIsEarned
  <2> SUFFICES ASSUME Inv, report = "ok", NEW i \in Items PROVE Earned(i)
    BY DEF OkIsEarned, Earned
  <2>1. main = "done" /\ runOk
    BY DEF Inv, TypeOK, Joined, Missing
  <2>2. slot[i] \in Statuses \ Failing
    BY <2>1 DEF Inv, TypeOK, Joined, Tally
  <2> QED
    BY <2>2 DEF Inv, Backed, Statuses, Failing
<1> QED
  BY RunnerInvariance, <1>1, PTL

\* The runner implements the abstract specification Batch: every step is a
\* result that becomes final, the publication of the verdict, or a stutter.
THEOREM RunnerKeepsPromise == Spec => KeepsPromise
<1>1. Init => Promise!BatchInit
  BY DEF Init, Promise!BatchInit, Missing, Promise!Missing
<1>2. Inv /\ [Next]_vars => [Promise!BatchNext]_<<slot, report>>
  <2> SUFFICES ASSUME Inv, [Next]_vars,
                      ~UNCHANGED <<slot, report>>
               PROVE  Promise!BatchNext
    OBVIOUS
  <2>1. CASE \E w \in Workers : Store(w)
    <3>1. PICK w \in Workers : Store(w)
      BY <2>1
    <3>2. item[w] \in Items /\ slot[item[w]] = Missing /\ res[w] \in Statuses
      BY <3>1, Constants DEF Inv, TypeOK, Holding, Idle, Stages, Store
    <3>3. slot' = [slot EXCEPT ![item[w]] = res[w]] /\ UNCHANGED report
      BY <3>1 DEF Store, driver
    <3>4. Promise!Finish(item[w])
      BY <3>2, <3>3 DEF Promise!Finish, Promise!Missing, Missing
    <3> QED
      BY <3>2, <3>4 DEF Promise!BatchNext
  <2>2. CASE Emit
    <3>1. report = Missing /\ (\A i \in Items : slot[i] # Missing)
          /\ runOk = Tally
      BY <2>2 DEF Inv, Joined, Emit
    <3>2. report' = IF Tally THEN "ok" ELSE "failed"
      BY <2>2, <3>1 DEF Emit
    <3>3. report' = Promise!Verdict
      BY <3>2 DEF Promise!Verdict, Tally
    <3>4. UNCHANGED slot
      BY <2>2 DEF Emit, workers
    <3>5. Promise!Publish
      BY <3>1, <3>3, <3>4 DEF Promise!Publish, Promise!Missing, Missing
    <3> QED
      BY <3>5 DEF Promise!BatchNext
  <2>3. \/ Emit \/ \E w \in Workers : Store(w)
    BY DEF Next, Finished, vars, Environment, DeadlinePasses, ScriptForks,
           ScriptExits, KinExits, ScriptSticks, ScriptResumes, Worker, Take,
           Prepare, Spawn, Poll, Kill, Reap, Drain, CallBlocks, CallReturns,
           RemoverFinishes, Driver, Join, LookForWorkRoot, Cleanup, workers, driver
  <2> QED
    BY <2>1, <2>2, <2>3
<1> QED
  BY RunnerInvariance, <1>1, <1>2, PTL DEF Spec, KeepsPromise, Promise!BatchSpec

-----------------------------------------------------------------------------
(* The stdfs suite. *)

Scripted == {"go", "python", "node"}

\* the position in --lang: within the list until the last language is done
AtLanguage ==
  /\ stage \in {"language", "rust"} => pos \in 1..Len(order)
  /\ stage = "rust" => order[pos] = "rust"

\* the generated program: one line for each test before the current one, none
\* for the others; exit code 0 only at its end
InTurn ==
  /\ \A t \in 1..Tests : t < current <=> lines[t] # "none"
  /\ \A t \in 1..Tests : current < t => thread[t] = "none"
  /\ code => current > Tests /\ proc # "alive"

\* the status of a language is what its items say
Truthful ==
  /\ \A l \in Scripted : l \in trouble <=> languages[l].status = "failed"
  /\ \A l \in Languages : languages[l].status # NoStatus => languages[l].available

Reported == stage = "done" => verdict = IF AnyFailed THEN "failed" ELSE "ok"

StdfsInv ==
  StdfsTypeOK /\ AtLanguage /\ InTurn /\ Attributed /\ Truthful /\ RustOkIsComplete /\ Reported

ProgramType ==
  /\ current \in 1..Tests + 1
  /\ thread \in [1..Tests -> {"none", "running", "wedged", "stuck", "passed",
                              "panicked"}]
  /\ lines \in [1..Tests -> {"none", "ok", "fail", "timedout", "skipped"}]
  /\ proc \in {"none", "alive", "ending", "dead"}
  /\ due \in BOOLEAN /\ code \in BOOLEAN /\ timedOut \in BOOLEAN

ProgramInv == ProgramType /\ InTurn /\ Attributed

LEMMA InitStdfsInv == StdfsInit => StdfsInv
<1> SUFFICES ASSUME StdfsInit PROVE StdfsInv
  OBVIOUS
<1>1. order \in Seq(Languages) /\ Len(order) \in Nat /\ Len(order) # 0
  BY StdfsAssumption DEF StdfsInit, Languages
<1>2. Tests \in Nat
  BY StdfsAssumption
<1>3. pos \in 1..Len(order) + 1 /\ pos \in 1..Len(order) /\ current \in 1..Tests + 1
  BY <1>1, <1>2 DEF StdfsInit
<1>4. languages \in [Languages -> [available : BOOLEAN,
                     status : {NoStatus, "ok", "failed", "fail", "timedout"}]]
  BY DEF StdfsInit, Unavailable
<1>5. StdfsTypeOK
  BY <1>3, <1>4 DEF StdfsInit, StdfsTypeOK
<1>6. AtLanguage /\ Attributed /\ Reported
  BY <1>3 DEF StdfsInit, AtLanguage, Attributed, Reported
<1>7. InTurn
  BY <1>2 DEF StdfsInit, InTurn
<1>8. Truthful /\ RustOkIsComplete
  BY DEF StdfsInit, Truthful, RustOkIsComplete, Unavailable, NoStatus, Languages, Scripted
<1> QED
  BY <1>5, <1>6, <1>7, <1>8 DEF StdfsInv

-----------------------------------------------------------------------------
(* The generated program and its process. *)

\* a step of the program leaves the suite alone
LEMMA ProgramStep ==
  ASSUME StdfsInv, stage = "rust",
         UNCHANGED <<order, pos, stage, held, languages, verdict, trouble>>,
         ProgramInv'
  PROVE  StdfsInv'
<1>1. StdfsTypeOK' /\ InTurn' /\ Attributed'
  BY DEF StdfsInv, StdfsTypeOK, ProgramInv, ProgramType
<1>2. AtLanguage' /\ Truthful' /\ Reported' /\ RustOkIsComplete'
  BY DEF StdfsInv, AtLanguage, Truthful, Reported, RustOkIsComplete
<1> QED
  BY <1>1, <1>2 DEF StdfsInv

LEMMA Bounds ==
  ASSUME StdfsInv
  PROVE  /\ Tests \in Nat /\ current \in Nat /\ current >= 1
         /\ current <= Tests => current \in 1..Tests
         /\ \A t \in 1..Tests : t \in Nat
BY StdfsAssumption DEF StdfsInv, StdfsTypeOK

\* one line is added, for the current test
LEMMA LineStep ==
  ASSUME StdfsInv, current <= Tests, proc = "alive",
         NEW v \in {"ok", "fail", "timedout", "skipped"},
         v = "ok" => thread[current] = "passed",
         v = "fail" => thread[current] = "panicked",
         lines' = [lines EXCEPT ![current] = v],
         current' = current + 1,
         UNCHANGED <<thread, due, proc, code, timedOut>>
  PROVE  ProgramInv'
<1>1. current \in 1..Tests /\ Tests \in Nat
  BY Bounds
<1>2. lines' \in [1..Tests -> {"none", "ok", "fail", "timedout", "skipped"}]
  BY <1>1 DEF StdfsInv, StdfsTypeOK
<1>3. current' \in 1..Tests + 1
  BY <1>1
<1>4. ProgramType'
  BY <1>2, <1>3 DEF StdfsInv, StdfsTypeOK, ProgramType
<1>5. \A t \in 1..Tests : t # current => lines'[t] = lines[t]
  BY <1>1 DEF StdfsInv, StdfsTypeOK
<1>6. lines'[current] = v
  BY <1>1 DEF StdfsInv, StdfsTypeOK
<1>7. \A t \in 1..Tests : t < current' <=> lines'[t] # "none"
  <2> TAKE t \in 1..Tests
  <2>1. CASE t = current
    BY <2>1, <1>1, <1>6
  <2>2. CASE t # current
    BY <2>2, <1>1, <1>5 DEF StdfsInv, InTurn
  <2> QED
    BY <2>1, <2>2
<1>8. \A t \in 1..Tests : current' < t => thread'[t] = "none"
  BY <1>1 DEF StdfsInv, InTurn
<1>9. ~code'
  BY DEF StdfsInv, InTurn
<1>10. InTurn'
  BY <1>7, <1>8, <1>9 DEF InTurn
<1>11. Attributed'
  <2> SUFFICES ASSUME NEW t \in 1..Tests
               PROVE  /\ lines'[t] = "ok" => thread'[t] = "passed"
                      /\ lines'[t] = "fail" => thread'[t] = "panicked"
    BY DEF Attributed
  <2>1. CASE t = current
    BY <2>1, <1>6
  <2>2. CASE t # current
    BY <2>2, <1>5 DEF StdfsInv, Attributed
  <2> QED
    BY <2>1, <2>2
<1> QED
  BY <1>4, <1>10, <1>11 DEF ProgramInv

\* a thread starts or moves, and has not reported yet or keeps what it reported
LEMMA ThreadStep ==
  ASSUME StdfsInv, NEW u \in 1..Tests, u <= current,
         thread[u] \notin {"passed", "panicked"},
         NEW w \in {"running", "wedged", "stuck", "passed", "panicked"},
         thread' = [thread EXCEPT ![u] = w],
         due' \in BOOLEAN,
         UNCHANGED <<current, lines, proc, code, timedOut>>
  PROVE  ProgramInv'
<1>1. thread' \in [1..Tests -> {"none", "running", "wedged", "stuck", "passed", "panicked"}]
  BY DEF StdfsInv, StdfsTypeOK
<1>2. ProgramType'
  BY <1>1 DEF StdfsInv, StdfsTypeOK, ProgramType
<1>3. \A t \in 1..Tests : t # u => thread'[t] = thread[t]
  BY DEF StdfsInv, StdfsTypeOK
<1>4. \A t \in 1..Tests : current < t => thread'[t] = "none"
  BY <1>3, Bounds DEF StdfsInv, InTurn
<1>5. InTurn'
  BY <1>4 DEF StdfsInv, InTurn
<1>6. Attributed'
  BY <1>3 DEF StdfsInv, Attributed
<1> QED
  BY <1>2, <1>5, <1>6 DEF ProgramInv

\* steps that only end the process or the time of a test
LEMMA ProcessStep ==
  ASSUME StdfsInv, due' \in BOOLEAN, timedOut' \in BOOLEAN, code' \in BOOLEAN,
         proc' \in {"alive", "ending", "dead"},
         code' => current > Tests /\ proc' # "alive",
         UNCHANGED <<current, thread, lines>>
  PROVE  ProgramInv'
<1>1. ProgramType'
  BY DEF StdfsInv, StdfsTypeOK, ProgramType
<1>2. InTurn' /\ Attributed'
  BY DEF StdfsInv, InTurn, Attributed
<1> QED
  BY <1>1, <1>2 DEF ProgramInv

-----------------------------------------------------------------------------
(* Languages. *)

\* the statuses of run_go, run_python and run_node are those of their items
LEMMA ItemFails ==
  ASSUME NEW l \in Scripted, NEW o \in Outcomes
  PROVE  Failed(l, o) <=> ~(\/ ItemStatus(l, o) = "ok"
                            \/ l = "python" /\ ItemStatus(l, o) = "missing")
<1>1. CASE l = "go"
  BY <1>1 DEF Failed, ItemStatus, GoStatus, Clean, Outcomes
<1>2. CASE l = "python"
  BY <1>2 DEF Failed, ItemStatus, PythonStatus, Clean, Outcomes
<1>3. CASE l = "node"
  BY <1>3 DEF Failed, ItemStatus, NodeStatus, Clean, Outcomes
<1> QED
  BY <1>1, <1>2, <1>3 DEF Scripted

LEMMA LanguageFails ==
  ASSUME NEW l \in Scripted, NEW outcome \in [Packages -> Outcomes]
  PROVE  LanguageStatus(l, outcome) =
           IF \E i \in Packages : Failed(l, outcome[i]) THEN "failed" ELSE "ok"
BY ItemFails DEF LanguageStatus

\* a language gets its result and the next one is taken up
LEMMA InsertStep ==
  ASSUME StdfsInv, stage \in {"language", "rust"}, NEW bad \in BOOLEAN,
         NEW v \in [available : BOOLEAN,
                    status : {NoStatus, "ok", "failed", "fail", "timedout"}],
         v.status # NoStatus => v.available,
         order[pos] \in Scripted => (bad <=> v.status = "failed"),
         order[pos] = "rust" /\ v.status = "ok" =>
           \A t \in 1..Tests : lines[t] \in {"ok", "skipped"},
         Insert(v, bad),
         UNCHANGED <<order, held, program, verdict>>
  PROVE  StdfsInv'
<1> DEFINE l == order[pos]
<1>1. pos \in 1..Len(order) /\ Len(order) \in Nat /\ l \in Languages
  BY StdfsAssumption DEF StdfsInv, AtLanguage, StdfsTypeOK, Languages
<1>2. /\ languages' = [languages EXCEPT ![l] = v]
      /\ trouble' = IF bad THEN trouble \cup {l} ELSE trouble \ {l}
      /\ pos' = pos + 1 /\ stage' = IF pos < Len(order) THEN "language" ELSE "look"
      /\ UNCHANGED <<order, held, current, thread, due, lines, proc, code, timedOut, verdict>>
  BY DEF Insert, program
<1>3. pos' \in 1..Len(order') + 1 /\ (stage' = "language" => pos' \in 1..Len(order'))
  BY <1>1, <1>2
<1> HIDE DEF l
<1>4. /\ languages' \in [Languages -> [available : BOOLEAN,
                         status : {NoStatus, "ok", "failed", "fail", "timedout"}]]
      /\ trouble' \subseteq Languages
  BY <1>1, <1>2 DEF StdfsInv, StdfsTypeOK
<1>5. StdfsTypeOK'
  BY <1>2, <1>3, <1>4 DEF StdfsInv, StdfsTypeOK
<1>6. AtLanguage' /\ Reported'
  BY <1>2, <1>3 DEF AtLanguage, Reported
<1>7. InTurn' /\ Attributed'
  BY <1>2 DEF StdfsInv, InTurn, Attributed
<1>8. \A m \in Languages : languages'[m] = IF m = l THEN v ELSE languages[m]
  BY <1>1, <1>2 DEF StdfsInv, StdfsTypeOK
<1>9. Truthful'
  <2>1. ASSUME NEW m \in Scripted
        PROVE  m \in trouble' <=> languages'[m].status = "failed"
    <3>1. m \in Languages
      BY DEF Scripted, Languages
    <3>2. CASE m = l
      BY <3>1, <3>2, <1>2, <1>8 DEF l
    <3>3. CASE m # l
      BY <3>1, <3>3, <1>2, <1>8 DEF StdfsInv, Truthful
    <3> QED
      BY <3>2, <3>3
  <2>2. \A m \in Languages : languages'[m].status # NoStatus => languages'[m].available
    BY <1>8 DEF StdfsInv, Truthful
  <2> QED
    BY <2>1, <2>2 DEF Truthful
<1>10. RustOkIsComplete'
  <2> SUFFICES ASSUME languages'["rust"].status = "ok"
               PROVE  \A t \in 1..Tests : lines[t] \in {"ok", "skipped"}
    BY <1>2 DEF RustOkIsComplete
  <2>1. "rust" \in Languages
    BY DEF Languages
  <2>2. CASE l = "rust"
    BY <2>1, <2>2, <1>8 DEF l
  <2>3. CASE l # "rust"
    <3>1. stage # "rust" /\ languages["rust"].status = "ok"
      BY <2>1, <2>3, <1>8 DEF l, StdfsInv, AtLanguage
    <3> QED
      BY <3>1 DEF StdfsInv, RustOkIsComplete
  <2> QED
    BY <2>2, <2>3
<1> QED
  BY <1>5, <1>6, <1>7, <1>9, <1>10 DEF StdfsInv

-----------------------------------------------------------------------------
(* Steps. *)

LEMMA SuiteStepKeeps ==
  ASSUME StdfsInv, SuiteStep
  PROVE  StdfsInv'
<1>1. CASE NotFound
  <2>1. FALSE \in BOOLEAN /\ Unavailable.status = NoStatus
        /\ Unavailable \in [available : BOOLEAN,
             status : {NoStatus, "ok", "failed", "fail", "timedout"}]
    BY DEF Unavailable
  <2>2. NoStatus # "failed" /\ NoStatus # "ok"
    BY DEF NoStatus
  <2> QED
    BY <1>1, <2>1, <2>2, InsertStep DEF NotFound
<1>2. CASE RunItems
  <2>1. PICK outcome \in [Packages -> Outcomes] :
          Insert(Available(LanguageStatus(order[pos], outcome)),
                 \E i \in Packages : Failed(order[pos], outcome[i]))
    BY <1>2 DEF RunItems
  <2>2. order[pos] \in Scripted
    BY <1>2, StdfsAssumption DEF RunItems, StdfsInv, AtLanguage, StdfsTypeOK, Scripted
  <2>3. LanguageStatus(order[pos], outcome) =
          IF \E i \in Packages : Failed(order[pos], outcome[i]) THEN "failed" ELSE "ok"
    BY <2>2, LanguageFails
  <2> DEFINE v == Available(LanguageStatus(order[pos], outcome))
             bad == \E i \in Packages : Failed(order[pos], outcome[i])
  <2>4. /\ v \in [available : BOOLEAN,
                  status : {NoStatus, "ok", "failed", "fail", "timedout"}]
        /\ v.available /\ (bad <=> v.status = "failed") /\ bad \in BOOLEAN
    BY <2>3 DEF Available
  <2>5. order[pos] # "rust" /\ stage = "language" /\ UNCHANGED <<order, held, program, verdict>>
    BY <1>2 DEF RunItems
  <2> HIDE DEF v, bad
  <2>6. Insert(v, bad)
    BY <2>1 DEF v, bad
  <2> QED
    BY <2>4, <2>5, <2>6, InsertStep
<1>3. CASE NotCompiled
  <2> DEFINE v == Available("failed")
  <2>1. /\ v \in [available : BOOLEAN,
                  status : {NoStatus, "ok", "failed", "fail", "timedout"}]
        /\ v.available /\ v.status = "failed" /\ TRUE \in BOOLEAN
    BY DEF Available
  <2>2. /\ order[pos] = "rust" /\ stage = "language"
        /\ Insert(v, TRUE) /\ UNCHANGED <<order, held, program, verdict>>
    BY <1>3 DEF NotCompiled
  <2> HIDE DEF v
  <2> QED
    BY <2>1, <2>2, InsertStep DEF Scripted
<1>4. CASE ReadProgram
  <2> DEFINE v == Available(RustStatus)
             bad == RustStatus # "ok"
  <2>1. /\ v \in [available : BOOLEAN,
                  status : {NoStatus, "ok", "failed", "fail", "timedout"}]
        /\ v.available /\ v.status = RustStatus /\ bad \in BOOLEAN
    BY DEF Available, RustStatus
  <2>2. /\ order[pos] = "rust" /\ stage = "rust"
        /\ Insert(v, bad) /\ UNCHANGED <<order, held, program, verdict>>
    BY <1>4 DEF ReadProgram, StdfsInv, AtLanguage
  <2>3. ASSUME RustStatus = "ok", NEW t \in 1..Tests
        PROVE  lines[t] \in {"ok", "skipped"}
    <3>1. code /\ ~RustFailed
      BY <2>3 DEF RustStatus
    <3>2. t < current
      BY <3>1, Bounds DEF StdfsInv, InTurn
    <3>3. lines[t] # "none" /\ lines[t] \in {"none", "ok", "fail", "timedout", "skipped"}
      BY <3>2 DEF StdfsInv, InTurn, StdfsTypeOK
    <3> QED
      BY <3>1, <3>3 DEF RustFailed
  <2> HIDE DEF v, bad
  <2> QED
    BY <2>1, <2>2, <2>3, InsertStep DEF Scripted
<1>5. CASE StartProgram
  <2>1. ProgramInv'
    <3>1. Tests \in Nat
      BY StdfsAssumption
    <3>2. /\ current' = 1 /\ thread' = [t \in 1..Tests |-> "none"] /\ due' = FALSE
          /\ lines' = [t \in 1..Tests |-> "none"] /\ proc' = "alive" /\ code' = FALSE
          /\ timedOut' = FALSE
      BY <1>5 DEF StartProgram
    <3>3. 1 \in 1..Tests + 1
      BY <3>1
    <3>4. ProgramType'
      BY <3>2, <3>3 DEF ProgramType
    <3>5. InTurn' /\ Attributed'
      BY <3>1, <3>2 DEF InTurn, Attributed
    <3> QED
      BY <3>4, <3>5 DEF ProgramInv
  <2>2. /\ stage = "language" /\ stage' = "rust" /\ order[pos] = "rust"
        /\ UNCHANGED <<order, pos, held, languages, verdict, trouble>>
    BY <1>5 DEF StartProgram
  <2>3. StdfsTypeOK' /\ InTurn' /\ Attributed'
    BY <2>1, <2>2 DEF StdfsInv, StdfsTypeOK, ProgramInv, ProgramType
  <2>4. AtLanguage' /\ Truthful' /\ Reported' /\ RustOkIsComplete'
    BY <2>2 DEF StdfsInv, AtLanguage, Truthful, Reported, RustOkIsComplete
  <2> QED
    BY <2>3, <2>4 DEF StdfsInv
<1>6. CASE LookForWorkTree \/ RemoveWorkDir \/ EmitReport
  <2>1. /\ stage' \in {"cleanup", "emit", "done"} /\ stage \in {"look", "cleanup", "emit"}
        /\ UNCHANGED <<order, pos, held, languages, trouble, current, thread, due, lines, proc,
                       code, timedOut>>
        /\ \/ stage' \in {"cleanup", "emit"} /\ UNCHANGED verdict
           \/ stage' = "done" /\ verdict' = IF AnyFailed THEN "failed" ELSE "ok"
    BY <1>6 DEF LookForWorkTree, RemoveWorkDir, EmitReport, program
  <2>2. StdfsTypeOK'
    BY <2>1 DEF StdfsInv, StdfsTypeOK
  <2>3. InTurn' /\ Attributed' /\ Truthful' /\ RustOkIsComplete'
    BY <2>1 DEF StdfsInv, InTurn, Attributed, Truthful, RustOkIsComplete
  <2>4. AtLanguage' /\ Reported'
    BY <2>1 DEF AtLanguage, Reported, AnyFailed
  <2> QED
    BY <2>2, <2>3, <2>4 DEF StdfsInv
<1> QED
  BY <1>1, <1>2, <1>3, <1>4, <1>5, <1>6 DEF SuiteStep

LEMMA ProgramMoves ==
  ASSUME StdfsInv,
         Main \/ TimeIsUp \/ ProgramGone \/ Abort \/ KillProgram
           \/ \E t \in 1..Tests : TestMoves(t)
  PROVE  StdfsInv'
<1>1. stage = "rust" /\ UNCHANGED <<order, pos, stage, held, languages, verdict, trouble>>
  BY DEF Main, SkipTest, LaunchTest, Receive, ExitProgram, TimeIsUp, ProgramGone, Abort,
         KillProgram, TestMoves, InProgram
<1>3. CASE SkipTest
  <2>1. ProgramInv'
    BY <1>3, LineStep DEF SkipTest, InProgram
  <2> QED
    BY <1>1, <2>1, ProgramStep
<1>4. CASE LaunchTest
  <2>1. current \in 1..Tests /\ current <= current
    BY <1>4, Bounds DEF LaunchTest
  <2>2. ProgramInv'
    BY <1>4, <2>1, ThreadStep DEF LaunchTest
  <2> QED
    BY <1>1, <2>2, ProgramStep
<1>5. CASE Receive
  <2> DEFINE v == IF thread[current] = "passed" THEN "ok"
                  ELSE IF thread[current] = "panicked" THEN "fail"
                  ELSE "timedout"
  <2>1. v \in {"ok", "fail", "timedout", "skipped"}
    OBVIOUS
  <2>2. ProgramInv'
    BY <1>5, <2>1, LineStep DEF Receive, InProgram
  <2> QED
    BY <1>1, <2>2, ProgramStep
<1>6. CASE ExitProgram
  <2>1. ProgramInv'
    BY <1>6, ProcessStep DEF ExitProgram, StdfsInv, StdfsTypeOK
  <2> QED
    BY <1>1, <2>1, ProgramStep
<1>7. CASE TimeIsUp
  <2>1. ProgramInv'
    BY <1>7, ProcessStep DEF TimeIsUp, InProgram, StdfsInv, StdfsTypeOK, InTurn
  <2> QED
    BY <1>1, <2>1, ProgramStep
<1>8. CASE ProgramGone
  <2>1. ProgramInv'
    BY <1>8, ProcessStep DEF ProgramGone, StdfsInv, StdfsTypeOK, InTurn
  <2> QED
    BY <1>1, <2>1, ProgramStep
<1>9. CASE Abort
  <2>1. ProgramInv'
    BY <1>9, ProcessStep DEF Abort, StdfsInv, StdfsTypeOK, InTurn
  <2> QED
    BY <1>1, <2>1, ProgramStep
<1>10. CASE KillProgram
  <2>1. ProgramInv'
    BY <1>10, ProcessStep DEF KillProgram, StdfsInv, StdfsTypeOK
  <2> QED
    BY <1>1, <2>1, ProgramStep
<1>11. CASE \E t \in 1..Tests : TestMoves(t)
  <2>1. PICK t \in 1..Tests : TestMoves(t)
    BY <1>11
  <2>2. thread[t] \in {"running", "wedged", "stuck"}
    BY <2>1 DEF TestMoves
  <2>3. t <= current
    BY <2>2, Bounds DEF StdfsInv, InTurn
  <2>4. PICK w \in {"running", "wedged", "stuck", "passed", "panicked"} :
          thread' = [thread EXCEPT ![t] = w]
    BY <2>1 DEF TestMoves
  <2>5. due' \in BOOLEAN /\ UNCHANGED <<current, lines, proc, code, timedOut>>
    BY <2>1 DEF TestMoves, StdfsInv, StdfsTypeOK
  <2>6. ProgramInv'
    BY <2>2, <2>3, <2>4, <2>5, ThreadStep
  <2> QED
    BY <1>1, <2>6, ProgramStep
<1> QED
  BY <1>3, <1>4, <1>5, <1>6, <1>7, <1>8, <1>9, <1>10, <1>11 DEF Main

-----------------------------------------------------------------------------
(* Theorems. *)

\* The inductive invariant of the suite and of the program it generates.
THEOREM StdfsInvariance == StdfsSpec => []StdfsInv
<1>1. ASSUME StdfsInv, [StdfsNext]_stdfsVars
      PROVE  StdfsInv'
  <2>1. CASE Hold \/ LetGo \/ UNCHANGED stdfsVars
    <3>1. /\ UNCHANGED <<order, pos, stage, languages, current, thread, due, lines, proc, code,
                         timedOut, verdict, trouble>>
          /\ held' \in BOOLEAN
      BY <1>1, <2>1 DEF Hold, LetGo, stdfsVars, program, StdfsInv, StdfsTypeOK
    <3>2. StdfsTypeOK' /\ AtLanguage' /\ InTurn' /\ Attributed'
      BY <1>1, <3>1 DEF StdfsInv, StdfsTypeOK, AtLanguage, InTurn, Attributed
    <3>3. Truthful' /\ RustOkIsComplete' /\ Reported'
      BY <1>1, <3>1 DEF StdfsInv, Truthful, RustOkIsComplete, Reported, AnyFailed
    <3> QED
      BY <3>2, <3>3 DEF StdfsInv
  <2> QED
    BY <1>1, <2>1, SuiteStepKeeps, ProgramMoves DEF StdfsNext, StdfsFinished
<1> QED
  BY <1>1, InitStdfsInv, PTL DEF StdfsSpec

\* Types of the suite, the statuses of stdfs.rs among them.
THEOREM StdfsTypes == StdfsSpec => []StdfsTypeOK
<1>1. StdfsInv => StdfsTypeOK
  BY DEF StdfsInv
<1> QED
  BY <1>1, StdfsInvariance, PTL

\* A RES line of the generated program is about its own test, however late a
\* detached thread answers.
THEOREM LinesAreAttributed == StdfsSpec => []Attributed
<1>1. StdfsInv => Attributed
  BY DEF StdfsInv
<1> QED
  BY <1>1, StdfsInvariance, PTL

\* The report fails exactly for what the items of go, python and node did and
\* for a rust program that does not compile, and rust is ok only if complete.
THEOREM ReportIsTruthful == StdfsSpec => []ReportAgrees
<1>1. StdfsInv => ReportAgrees
  <2> SUFFICES ASSUME StdfsInv, stage = "done"
               PROVE  verdict = "failed" <=> \/ trouble \cap {"go", "python", "node"} # {}
                                            \/ languages["rust"].status = "failed"
    BY DEF ReportAgrees, StdfsInv
  <2>1. verdict = "failed" <=> AnyFailed
    BY DEF StdfsInv, Reported
  <2>2. \A l \in Languages : languages[l].status = "failed" => languages[l].available
    BY DEF StdfsInv, Truthful, NoStatus
  <2>3. AnyFailed <=> \E l \in Languages : languages[l].status = "failed"
    BY <2>2 DEF AnyFailed
  <2>4. Languages = Scripted \cup {"rust"} /\ Scripted = {"go", "python", "node"}
    BY DEF Languages, Scripted
  <2> QED
    BY <2>1, <2>3, <2>4 DEF StdfsInv, Truthful
<1> QED
  BY <1>1, StdfsInvariance, PTL
=============================================================================
