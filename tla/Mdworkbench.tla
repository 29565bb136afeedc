---------------------------- MODULE Mdworkbench -----------------------------
(***************************************************************************)
(* The mdworkbench suite (src/src/mdworkbench.rs): ranks (threads) work on *)
(* a FIFO of objects.  In a benchmark phase a rank takes, in every data    *)
(* set, the oldest object of the rank `offset' below it and makes a new    *)
(* one for the rank `offset' above it.  Barriers separate the phases.      *)
(*                                                                         *)
(* An object is <<rank, data set, index>>.  Its data is either what this   *)
(* run expects of its name and seed (content_pattern) or not; sizes,       *)
(* latencies and waiting times are not represented.  The counters of the   *)
(* report are kept as sums over the ranks.                                 *)
(***************************************************************************)
EXTENDS Integers, Sequences, FiniteSets

CONSTANTS
  N,        \* threads
  Options,  \* the invocations considered: see OptionType
  MaxFaults \* calls of the file system that may fail in a run

Ranks == 0..N-1

\* pre, bench, clean: the phases that run; start: --start-item; timer, wear:
\* --stonewall-timer and --stonewall-wear-out; faults: calls may fail; otherSeed:
\* -X without -G on the objects of an earlier run, made with another clock's seed
OptionType ==
  [num : Nat, precreate : Nat, dsets : Nat, iterations : Nat, offset : Nat,
   start : Nat, pre : BOOLEAN, bench : BOOLEAN, clean : BOOLEAN,
   readOnly : BOOLEAN, timer : BOOLEAN, wear : BOOLEAN, faults : BOOLEAN,
   otherSeed : BOOLEAN]

ASSUME MdworkbenchAssumption ==
  /\ N \in Nat \ {0}
  /\ Options \subseteq OptionType
  /\ MaxFaults \in Nat

VARIABLES
  opt,        \* the invocation
  ph,         \* the phase of all ranks, or Len(Plan) + 1
  pc,         \* control state of each rank
  index,      \* current_index
  f, d,       \* loop counters: object and data set
  total,      \* total_num
  contributed,
  wo,         \* the WearOut of the phase
  arrived,    \* ranks waiting at the barrier
  prefix, dirs, objs, bad,   \* the file system; bad: objects with other data than expected
  tally,      \* sums of the PhaseStats
  faults,     \* calls that may still fail
  aborted,    \* ranks that left a benchmark phase by an error
  main        \* the main thread, and at the end the status it reports

fs == <<prefix, dirs, objs, bad>>
vars == <<opt, ph, pc, index, f, d, total, contributed, wo, arrived, prefix, dirs,
          objs, bad, tally, faults, aborted, main>>

\* phase_names
Plan ==
  (IF opt.pre THEN <<"precreate">> ELSE <<>>)
    \o (IF opt.bench THEN [i \in 1..opt.iterations |-> "benchmark"] ELSE <<>>)
    \o (IF opt.clean THEN <<"cleanup">> ELSE <<>>)

Sets == 0..opt.dsets-1
Objects == Ranks \X Sets \X Nat

TypeOK ==
  /\ opt \in Options
  /\ ph \in 1..Len(Plan) + 1
  /\ pc \in [Ranks -> {"gate", "mkdir", "fill", "stat", "read", "unlink", "open",
                       "write", "lap", "count", "spin", "leave", "sweep", "rmdir",
                       "exit", "rmprefix", "done"}]
  /\ index \in [Ranks -> Nat]
  /\ f \in [Ranks -> Nat]
  /\ d \in [Ranks -> 0..opt.dsets]
  /\ total \in [Ranks -> 0..opt.num + 1]
  /\ contributed \in [Ranks -> BOOLEAN]
  /\ wo \in [total : 0..opt.num + 1, contributors : 0..N, finished : 0..N]
  /\ arrived \subseteq Ranks
  /\ prefix \in BOOLEAN
  /\ dirs \subseteq Ranks \X Sets
  /\ objs \subseteq Objects /\ bad \subseteq Objects
  /\ tally \in [create : Nat, read : Nat, stat : Nat, delete : Nat, errors : Nat]
  /\ faults \in 0..MaxFaults
  /\ aborted \subseteq Ranks
  /\ main \in {"setup", "join", "ok", "failed", "error"}

\* the FIFO at position i: `precreate' objects in every data set
WorkingSet(i) == Ranks \X Sets \X (i..i + opt.precreate - 1)

NewWearOut == [total |-> 0, contributors |-> 0, finished |-> 0]

\* with the precreate phase the run starts on nothing, without it on what
\* earlier runs left at --start-item
Init ==
  /\ opt \in Options
  /\ ph = 1
  /\ pc = [r \in Ranks |-> IF Plan = <<>> THEN "done" ELSE "gate"]
  /\ index = [r \in Ranks |-> opt.start]
  /\ f = [r \in Ranks |-> 0]
  /\ d = [r \in Ranks |-> 0]
  /\ total = [r \in Ranks |-> 0]
  /\ contributed = [r \in Ranks |-> FALSE]
  /\ wo = NewWearOut
  /\ arrived = {}
  /\ prefix = ~opt.pre
  /\ dirs = IF opt.pre THEN {} ELSE Ranks \X Sets
  /\ objs = IF opt.pre THEN {} ELSE WorkingSet(opt.start)
  /\ bad = IF opt.otherSeed THEN objs ELSE {}
  /\ tally = [create |-> 0, read |-> 0, stat |-> 0, delete |-> 0, errors |-> 0]
  /\ faults = IF opt.faults THEN MaxFaults ELSE 0
  /\ aborted = {}
  /\ main = "setup"

-----------------------------------------------------------------------------
(* Helpers. *)

MaxOf(a, b) == IF a < b THEN b ELSE a
Goto(r, label) == pc' = [pc EXCEPT ![r] = label]
Counted(kind) == tally' = [tally EXCEPT ![kind] = @ + 1]
Fault == faults > 0 /\ faults' = faults - 1

\* the rank whose object rank r takes from data set s, and the one it makes it for
ReadRank(r, s) == (r + N - opt.offset * (s + 1)) % N
WriteRank(r, s) == (r + opt.offset * (s + 1)) % N

Oldest(r) == <<ReadRank(r, d[r]), d[r], f[r] + index[r]>>
\* mutant: the new index leaves a gap
NewestGap(r) == <<WriteRank(r, d[r]), d[r], opt.precreate + f[r] + index[r] + 1>>

Newest(r) == <<WriteRank(r, d[r]), d[r], opt.precreate + f[r] + index[r]>>

\* the head of a for loop over the data sets: `body', or `after' when all are done
NextSet(r, s, body, after) ==
  /\ d' = [d EXCEPT ![r] = s]
  /\ Goto(r, IF s < opt.dsets THEN body ELSE after)

-----------------------------------------------------------------------------
(* Barriers and phases. *)

\* run up to the threads: create_dir_all
Setup ==
  /\ main = "setup"
  /\ \/ /\ main' = "join"
        /\ prefix' = TRUE
        /\ UNCHANGED faults
     \/ opt.pre /\ Fault /\ main' = "error" /\ UNCHANGED prefix
  /\ UNCHANGED <<opt, ph, pc, index, f, d, total, contributed, wo, arrived, dirs,
                 objs, bad, tally, aborted>>

\* where the ranks go when the barrier opens
Opened(r) ==
  IF pc[r] = "gate"
    THEN CASE Plan[ph] = "precreate" -> IF opt.dsets > 0 THEN "mkdir" ELSE "exit"
           [] Plan[ph] = "benchmark" -> IF opt.num > 0
                                          THEN IF opt.dsets > 0 THEN "stat" ELSE "lap"
                                          ELSE "leave"
           [] Plan[ph] = "cleanup" -> IF opt.dsets = 0 THEN "exit"
                                      ELSE IF opt.precreate > 0 THEN "sweep" ELSE "rmdir"
    ELSE IF ph < Len(Plan) THEN "gate"
         ELSE IF Plan[ph] = "cleanup" /\ r = 0 THEN "rmprefix" ELSE "done"

\* the locals of a phase as its function sets them
EnterPhase ==
  /\ f' = [r \in Ranks |-> 0]
  /\ d' = [r \in Ranks |-> 0]
  /\ total' = [r \in Ranks |-> opt.num]
  /\ contributed' = [r \in Ranks |-> FALSE]
  /\ wo' = NewWearOut
  /\ UNCHANGED ph

\* barrier.wait(): the last rank to arrive lets all of them go
BarrierWait(r) ==
  /\ main = "join"
  /\ pc[r] \in {"gate", "exit"}
  /\ r \notin arrived
  /\ IF arrived \cup {r} # Ranks
       THEN /\ arrived' = arrived \cup {r}
            /\ UNCHANGED <<ph, pc, f, d, total, contributed, wo>>
       ELSE /\ arrived' = {}
            /\ pc' = [q \in Ranks |-> Opened(q)]
            /\ IF pc[r] = "gate"
                 THEN EnterPhase
                 ELSE /\ ph' = ph + 1
                      /\ UNCHANGED <<f, d, total, contributed, wo>>
  /\ UNCHANGED <<opt, index, fs, tally, faults, aborted, main>>

-----------------------------------------------------------------------------
(* run_precreate_rank *)

\* what a rank's step in a phase leaves alone
OutsidePhase == UNCHANGED <<opt, ph, arrived, prefix, main>>

\* the first object to make, after all directories are there
StartFill(r) ==
  /\ f' = [f EXCEPT ![r] = index[r]]
  /\ d' = [d EXCEPT ![r] = 0]
  /\ Goto(r, IF index[r] < opt.precreate THEN "fill" ELSE "exit")

Mkdir(r) ==
  /\ pc[r] = "mkdir"
  /\ \/ /\ dirs' = dirs \cup {<<r, d[r]>>}
        /\ IF d[r] + 1 < opt.dsets
             THEN d' = [d EXCEPT ![r] = @ + 1] /\ UNCHANGED <<f, pc>>
             ELSE StartFill(r)
        /\ UNCHANGED <<tally, faults>>
     \/ Fault /\ Counted("errors") /\ Goto(r, "exit") /\ UNCHANGED <<dirs, f, d>>
  /\ OutsidePhase
  /\ UNCHANGED <<index, total, contributed, wo, objs, bad, aborted>>

NextFill(r) ==
  IF d[r] + 1 < opt.dsets
    THEN d' = [d EXCEPT ![r] = @ + 1] /\ UNCHANGED <<f, pc>>
    ELSE /\ d' = [d EXCEPT ![r] = 0]
         /\ f' = [f EXCEPT ![r] = @ + 1]
         /\ Goto(r, IF f[r] + 1 < opt.precreate THEN "fill" ELSE "exit")

\* open and write: nobody else looks at the object before the next barrier.
\* The errors that `?' returns are not counted, a short write is.
Fill(r) ==
  LET o == <<r, d[r], f[r]>> IN
  /\ pc[r] = "fill"
  /\ \/ /\ objs' = objs \cup {o} /\ bad' = bad \ {o}
        /\ Counted("create")
        /\ NextFill(r)
        /\ UNCHANGED faults
     \/ /\ Fault
        /\ objs' = objs \cup {o} /\ bad' = bad \cup {o}
        /\ \/ Counted("errors") /\ NextFill(r)
           \/ Goto(r, "exit") /\ UNCHANGED <<tally, f, d>>
     \/ Fault /\ Goto(r, "exit") /\ UNCHANGED <<objs, bad, tally, f, d>>
  /\ OutsidePhase
  /\ UNCHANGED <<index, total, contributed, wo, dirs, aborted>>

-----------------------------------------------------------------------------
(* run_benchmark_rank *)

InSet == UNCHANGED <<f, index, total, contributed, wo, dirs>> /\ OutsidePhase

\* mutant: a missing object is skipped without an error
StatQuiet(r) ==
  /\ pc[r] = "stat"
  /\ \/ /\ Oldest(r) \in objs
        /\ Counted("stat") /\ Goto(r, "read") /\ UNCHANGED <<d, faults>>
     \/ /\ (Oldest(r) \notin objs /\ UNCHANGED faults) \/ Fault
        /\ NextSet(r, d[r] + 1, "stat", "lap") /\ UNCHANGED tally
  /\ InSet /\ UNCHANGED <<objs, bad, aborted>>

\* mutant: a rank waits for an object that is not there
StatWaiting(r) ==
  /\ pc[r] = "stat"
  /\ \/ /\ Oldest(r) \in objs
        /\ Counted("stat") /\ Goto(r, "read") /\ UNCHANGED <<d, faults>>
        /\ InSet /\ UNCHANGED <<objs, bad, aborted>>
     \/ Oldest(r) \notin objs /\ UNCHANGED vars

\* an object that is not there is an error, and the data set is skipped
Stat(r) ==
  /\ pc[r] = "stat"
  /\ \/ /\ Oldest(r) \in objs
        /\ Counted("stat") /\ Goto(r, "read") /\ UNCHANGED <<d, faults>>
     \/ /\ (Oldest(r) \notin objs /\ UNCHANGED faults) \/ Fault
        /\ Counted("errors") /\ NextSet(r, d[r] + 1, "stat", "lap")
  /\ InSet /\ UNCHANGED <<objs, bad, aborted>>

Read(r) ==
  /\ pc[r] = "read"
  /\ \/ Oldest(r) \in objs \ bad /\ Counted("read") /\ UNCHANGED faults
     \/ /\ (Oldest(r) \notin objs \ bad /\ UNCHANGED faults) \/ Fault
        /\ Counted("errors")
  /\ IF opt.readOnly THEN NextSet(r, d[r] + 1, "stat", "lap")
                     ELSE Goto(r, "unlink") /\ UNCHANGED d
  /\ InSet /\ UNCHANGED <<objs, bad, aborted>>

\* an unlink that fails may have taken effect
Unlink(r) ==
  /\ pc[r] = "unlink"
  /\ \/ /\ Oldest(r) \in objs
        /\ objs' = objs \ {Oldest(r)} /\ bad' = bad \ {Oldest(r)}
        /\ Counted("delete") /\ UNCHANGED faults
     \/ /\ Oldest(r) \notin objs /\ UNCHANGED <<objs, bad, faults>>
        /\ Counted("errors")
     \/ /\ Fault /\ Counted("errors")
        /\ \/ objs' = objs \ {Oldest(r)} /\ bad' = bad \ {Oldest(r)}
           \/ UNCHANGED <<objs, bad>>
  /\ Goto(r, "open")
  /\ InSet /\ UNCHANGED <<d, aborted>>

\* the new object is there, but empty, until it has been written
Open(r) ==
  LET new == Newest(r)
      Created == /\ objs' = objs \cup {new}
                 /\ bad' = IF new \in objs THEN bad ELSE bad \cup {new}
  IN
  /\ pc[r] = "open"
  /\ \/ /\ <<new[1], new[2]>> \in dirs
        /\ Created /\ Goto(r, "write") /\ UNCHANGED <<d, tally, faults>>
     \/ /\ \/ <<new[1], new[2]>> \notin dirs /\ UNCHANGED <<objs, bad, faults>>
           \/ Fault /\ UNCHANGED <<objs, bad>>
        /\ Counted("errors") /\ NextSet(r, d[r] + 1, "stat", "lap")
  /\ InSet /\ UNCHANGED aborted

\* complete, short, or failing: then `?' leaves the function at once
Write(r) ==
  /\ pc[r] = "write"
  /\ \/ /\ bad' = bad \ {Newest(r)}
        /\ Counted("create") /\ NextSet(r, d[r] + 1, "stat", "lap")
        /\ UNCHANGED <<faults, aborted>>
     \/ /\ Fault /\ Counted("errors") /\ NextSet(r, d[r] + 1, "stat", "lap")
        /\ UNCHANGED <<bad, aborted>>
     \/ /\ Fault /\ Goto(r, "exit") /\ aborted' = aborted \cup {r}
        /\ UNCHANGED <<d, bad, tally>>
  /\ InSet /\ UNCHANGED objs

\* the head of the while loop, with n objects done and a limit
LoopHead(r, n, limit) ==
  IF n < limit THEN NextSet(r, 0, "stat", "lap")
               ELSE Goto(r, "leave") /\ UNCHANGED d

LoopFrame ==
  /\ UNCHANGED <<index, dirs, objs, bad, tally, faults, aborted>>
  /\ OutsidePhase

\* the end of the loop body; the timer may pass at any time, and a rank that has
\* contributed has seen it pass
Lap(r) ==
  LET n == f[r] + 1 IN
  /\ pc[r] = "lap"
  /\ f' = [f EXCEPT ![r] = n]
  /\ \/ /\ ~(opt.timer /\ contributed[r])
        /\ LoopHead(r, n, total[r])
        /\ UNCHANGED <<total, wo>>
     \/ /\ opt.timer /\ ~opt.wear
        /\ Goto(r, "leave") /\ UNCHANGED <<d, total, wo>>
     \/ /\ opt.timer /\ opt.wear /\ ~contributed[r]
        /\ wo' = [wo EXCEPT !.total = MaxOf(@, n + 1)]
        /\ Goto(r, "count") /\ UNCHANGED <<d, total>>
     \/ /\ opt.timer /\ opt.wear /\ contributed[r]
        /\ total' = [total EXCEPT ![r] = wo.total]
        /\ LoopHead(r, n, wo.total)
        /\ UNCHANGED wo
  /\ UNCHANGED contributed
  /\ LoopFrame

Contribute(r) ==
  /\ pc[r] = "count"
  /\ wo' = [wo EXCEPT !.contributors = @ + 1]
  /\ Goto(r, "spin")
  /\ UNCHANGED <<f, d, total, contributed>>
  /\ LoopFrame

\* mutant: the rank does not wait for the others' positions
SpinNot(r) ==
  /\ pc[r] = "spin"
  /\ contributed' = [contributed EXCEPT ![r] = TRUE]
  /\ total' = [total EXCEPT ![r] = wo.total]
  /\ LoopHead(r, f[r], wo.total)
  /\ UNCHANGED <<f, wo>>
  /\ LoopFrame

\* the spin loop ends when every rank has contributed or finished
Spin(r) ==
  /\ pc[r] = "spin"
  /\ wo.contributors + wo.finished >= N
  /\ contributed' = [contributed EXCEPT ![r] = TRUE]
  /\ total' = [total EXCEPT ![r] = wo.total]
  /\ LoopHead(r, f[r], wo.total)
  /\ UNCHANGED <<f, wo>>
  /\ LoopFrame

\* after the loop: the position advances by what the rank has done
Leave(r) ==
  /\ pc[r] = "leave"
  /\ wo' = [wo EXCEPT !.finished = @ + 1]
  /\ index' = [index EXCEPT ![r] = IF opt.readOnly THEN @ ELSE @ + f[r]]
  /\ Goto(r, "exit")
  /\ UNCHANGED <<f, d, total, contributed, dirs, objs, bad, tally, faults, aborted>>
  /\ OutsidePhase

-----------------------------------------------------------------------------
(* run_cleanup_rank, and the end of run *)

CleanupFrame ==
  /\ UNCHANGED <<opt, ph, index, total, contributed, wo, arrived, aborted, main>>

\* mutant: the last object is left
SweepShort(r) ==
  LET o == <<r, d[r], f[r] + index[r]>> IN
  /\ pc[r] = "sweep"
  /\ objs' = objs \ {o} /\ bad' = bad \ {o}
  /\ IF o \in objs THEN Counted("delete") ELSE UNCHANGED tally
  /\ IF f[r] + 2 < opt.precreate
       THEN f' = [f EXCEPT ![r] = @ + 1] /\ UNCHANGED pc
       ELSE f' = [f EXCEPT ![r] = 0] /\ Goto(r, "rmdir")
  /\ CleanupFrame /\ UNCHANGED <<d, prefix, dirs, faults>>

\* an object that is not there is no error
Sweep(r) ==
  LET o == <<r, d[r], f[r] + index[r]>> IN
  /\ pc[r] = "sweep"
  /\ \/ /\ objs' = objs \ {o} /\ bad' = bad \ {o}
        /\ IF o \in objs THEN Counted("delete") ELSE UNCHANGED tally
        /\ UNCHANGED faults
     \/ Fault /\ Counted("errors") /\ UNCHANGED <<objs, bad>>
  /\ IF f[r] + 1 < opt.precreate
       THEN f' = [f EXCEPT ![r] = @ + 1] /\ UNCHANGED pc
       ELSE f' = [f EXCEPT ![r] = 0] /\ Goto(r, "rmdir")
  /\ CleanupFrame /\ UNCHANGED <<d, prefix, dirs>>

\* remove_dir, whose failure is not reported
Rmdir(r) ==
  /\ pc[r] = "rmdir"
  /\ \/ /\ dirs' = IF \E o \in objs : o[1] = r /\ o[2] = d[r]
                    THEN dirs ELSE dirs \ {<<r, d[r]>>}
        /\ UNCHANGED faults
     \/ Fault /\ UNCHANGED dirs
  /\ NextSet(r, d[r] + 1, IF opt.precreate > 0 THEN "sweep" ELSE "rmdir", "exit")
  /\ CleanupFrame /\ UNCHANGED <<f, prefix, objs, bad, tally>>

RmPrefix(r) ==
  /\ pc[r] = "rmprefix"
  /\ prefix' = (dirs # {})
  /\ Goto(r, "done")
  /\ CleanupFrame /\ UNCHANGED <<f, d, dirs, objs, bad, tally, faults>>

\* the threads are joined, and the errors of all phases decide
Report ==
  /\ main = "join"
  /\ \A r \in Ranks : pc[r] = "done"
  /\ main' = IF tally.errors > 0 THEN "failed" ELSE "ok"
  /\ UNCHANGED <<opt, ph, pc, index, f, d, total, contributed, wo, arrived, fs,
                 tally, faults, aborted>>

-----------------------------------------------------------------------------
Rank(r) ==
  \/ BarrierWait(r) \/ Mkdir(r) \/ Fill(r)
  \/ Stat(r) \/ Read(r) \/ Unlink(r) \/ Open(r) \/ Write(r)
  \/ Lap(r) \/ Contribute(r) \/ Spin(r) \/ Leave(r)
  \/ Sweep(r) \/ Rmdir(r) \/ RmPrefix(r)

Over == main \in {"ok", "failed", "error"}
Finished == Over /\ UNCHANGED vars

Next == Setup \/ (\E r \in Ranks : Rank(r)) \/ Report \/ Finished

Spec == Init /\ [][Next]_vars

\* the operating system schedules every thread, and the spin loop yields
FairSpec ==
  /\ Spec
  /\ WF_vars(Setup) /\ WF_vars(Report)
  /\ \A r \in Ranks : WF_vars(Rank(r))

-----------------------------------------------------------------------------
(* Properties. *)

\* the conditions under which README.md promises an exact FIFO: at most
\* `precreate' objects per iteration, no stonewall, no fault, and a working set
\* that starts where the run does
Exact ==
  /\ opt.num <= opt.precreate
  /\ ~opt.timer /\ ~opt.faults /\ ~opt.otherSeed
  /\ opt.pre => opt.start = 0

\* every object that the report counts as created and not as deleted is there,
\* and no other
ObjectsConserved ==
  ~opt.faults =>
    Cardinality(objs) + tally.delete =
      (IF opt.pre THEN 0 ELSE N * opt.dsets * opt.precreate) + tally.create
        + Cardinality({r \in Ranks : pc[r] = "write"})

\* Whatever the offset and the pace of the ranks, nobody looks for an object that
\* its writer has not made yet or that another rank has taken; between phases the
\* ranks are at one position and the objects are exactly the FIFO at that
\* position, all of them complete.  Also when ranks overtake each other (more
\* objects than precreated, or a stonewall) no two delete or make the same object.
FifoExact ==
  LET populated == ph > (IF opt.pre THEN 1 ELSE 0) IN
  /\ ObjectsConserved
  /\ Exact => tally.errors = 0
  /\ Exact /\ populated /\ (\A r \in Ranks : pc[r] = "gate") =>
       /\ \A r \in Ranks : index[r] = index[0]
       /\ objs = WorkingSet(index[0]) /\ bad = {}

\* run_cleanup_rank, started from the rank's own position, leaves nothing behind
\* of an exact FIFO, and the out directory can be removed.
CleanupLeavesNothing ==
  Exact /\ opt.clean /\ Over => objs = {} /\ dirs = {} /\ ~prefix

\* A run that reports ok, and in which no rank left a benchmark phase by an error
\* (which the code only warns of), has read every object that it was to read, also
\* when calls failed or objects had to be waited for.
OkIsComplete ==
  main = "ok" /\ opt.bench /\ ~opt.timer /\ aborted = {} =>
    /\ tally.read = N * opt.dsets * opt.num * opt.iterations
    /\ tally.stat = tally.read

\* With wear-out the ranks that contributed a position stop at the same count,
\* whenever their timers passed.
WearOutAgrees ==
  LET stopped == {r \in Ranks \ aborted : contributed[r] /\ pc[r] \in {"leave", "exit"}}
  IN  \A q, r \in stopped : f[q] = f[r]

\* The run comes to its report, unless with wear-out a rank left the benchmark by
\* an error: it counts neither as contributor nor as finished, and the others spin.
RunEnds == <>(Over \/ (opt.wear /\ aborted # {}))
=============================================================================
