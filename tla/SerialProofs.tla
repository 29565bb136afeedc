---------------------------- MODULE SerialProofs ----------------------------
(***************************************************************************)
(* Proofs about pjdfstest and ltp, for every number of tests, whatever     *)
(* they print, however they end and whatever they leave behind.  IInv is   *)
(* the inductive invariant: tests before cur have their final result, and  *)
(* that result follows from what the test printed and how it ended.        *)
(*                                                                         *)
(* The verdict of pjdfstest is that of a sum over all scripts; module Sums *)
(* says when such a sum is zero.                                           *)
(***************************************************************************)
EXTENDS Serial, Sums

\* a line is one of each kind at most
Counted == out.ok <= out.lines /\ out.bad <= out.lines /\ out.todo <= out.lines

\* the loop over the tests: results so far, and the report at its end
InOrder ==
  /\ pc \in {"prepare", "spawn", "poll", "kill", "reap", "read"} => cur < N
  /\ pc \in {"emit", "done"} => cur = N
  /\ \A i \in Items : i < cur <=> result[i].verdict # Missing
  /\ report.status # Missing <=> pc = "done"

\* what result r says of a test with history h
Follows(r, h) ==
  /\ suite = "ltp" =>
       /\ ~r.listed
       /\ r.verdict \notin Failing =>
            h.ended /\ h.exit \in {"pass", "conf", "other"}
  /\ suite = "pjdfstest" =>
       /\ r.verdict \in Failing <=> r.failed > 0 \/ r.bail
       /\ r.verdict \notin Failing => h.out.garbled \/ PjdPassed(h)
       /\ r.verdict \notin Failing /\ r.listed => ~h.ended

SomeFailed == \E i \in Items : result[i].verdict \in Failing

Published ==
  pc = "done" => report.status = IF SomeFailed THEN "failed" ELSE "ok"

IInv ==
  /\ TypeOK /\ Counted /\ InOrder /\ Published
  /\ \A i \in Items : i < cur => Follows(result[i], ran[i])

-----------------------------------------------------------------------------
(* Results. *)

LEMMA Constants ==
  /\ N \in Nat
  /\ Items \subseteq Nat /\ IsFiniteSet(Items)
  /\ \A n \in Nat : n \in Items <=> n < N
  /\ Missing \notin Verdicts /\ Failing \subseteq Verdicts
<1>1. N \in Nat
  BY SerialAssumption
<1>2. IsFiniteSet(Items)
  BY <1>1, FS_Interval DEF Items
<1> QED
  BY <1>1, <1>2 DEF Items, Missing, Verdicts, Failing

LEMMA TotalOfNaturals ==
  ASSUME NEW f \in [Items -> Nat]
  PROVE  /\ Total(f) \in Nat
         /\ Total(f) = 0 <=> \A i \in Items : f[i] = 0
<1>1. Total(f) = SumOver(f, Items)
  BY DEF Total, SumOver
<1> QED
  BY <1>1, Constants, SumOfNaturals

\* what the current test leaves in ran
History ==
  [out |-> out, exit |-> Code, ended |-> child \in {"zombie", "reaped"} /\ ~killed]

LEMMA OutputFields ==
  ASSUME TypeOK
  PROVE  /\ MaxLines \in Nat
         /\ out.lines \in 0..MaxLines /\ out.plan \in Plans \cup {0} /\ out.plan \in Nat
         /\ out.ok \in 0..MaxLines /\ out.bad \in 0..MaxLines /\ out.todo \in 0..MaxLines
         /\ out.bail \in BOOLEAN /\ out.garbled \in BOOLEAN /\ out.wide \in BOOLEAN
<1>1. out \in OutputType
  BY DEF TypeOK
<1>2. MaxLines \in Nat /\ Plans \subseteq Nat
  BY SerialAssumption
<1>3. out.lines \in 0..MaxLines /\ out.plan \in Plans \cup {0}
  BY <1>1 DEF OutputType
<1>4. out.ok \in 0..MaxLines /\ out.bad \in 0..MaxLines /\ out.todo \in 0..MaxLines
  BY <1>1 DEF OutputType
<1>5. out.bail \in BOOLEAN /\ out.garbled \in BOOLEAN /\ out.wide \in BOOLEAN
  BY <1>1 DEF OutputType
<1>6. \A p \in Plans \cup {0} : p \in Nat
  BY <1>2
<1>7. out.plan \in Nat
  BY <1>3, <1>6, Zenon
<1> QED
  BY <1>2, <1>3, <1>4, <1>5, <1>7, Zenon

LEMMA HistoryType ==
  ASSUME TypeOK
  PROVE  History \in [out : OutputType, exit : Statuses, ended : BOOLEAN]
BY DEF TypeOK, History, Code, Statuses

LEMMA BrokenFollows ==
  /\ PjdBroken \in ResultType /\ PjdBroken.verdict \in Verdicts
  /\ suite = "pjdfstest" => Follows(PjdBroken, History)
BY DEF PjdBroken, ResultType, Verdicts, Follows, Failing

LEMMA LtpBrokenFollows ==
  LET r == [NoResult EXCEPT !.verdict = "broken"]
  IN  /\ r \in ResultType /\ r.verdict \in Verdicts
      /\ suite = "ltp" => Follows(r, History)
BY DEF NoResult, ResultType, Verdicts, Follows, Failing

\* run_one: the counts of a script that was read to its end
LEMMA PjdFollows ==
  ASSUME TypeOK, child \in {"zombie", "reaped"}
  PROVE  LET r == PjdResult(out, killed)
         IN  /\ r \in ResultType /\ r.verdict \in Verdicts
             /\ suite = "pjdfstest" => Follows(r, History)
<1> DEFINE h == Heard(out)
           tests == h.ok + h.bad + h.todo
           early == h.plan > tests /\ h.bad = 0 /\ ~killed
           failed == h.bad + IF early THEN h.plan - tests ELSE 0
           r == PjdResult(out, killed)
<1>1. h.ok \in Nat /\ h.bad \in Nat /\ h.todo \in Nat /\ h.plan \in Nat /\ h.bail \in BOOLEAN
  <2>1. out.ok \in Nat /\ out.bad \in Nat /\ out.todo \in Nat /\ out.plan \in Nat
        /\ out.bail \in BOOLEAN
    BY OutputFields
  <2>2. CASE out.garbled
    BY <2>2 DEF Heard, Silent
  <2>3. CASE ~out.garbled
    BY <2>1, <2>3 DEF Heard
  <2> QED
    BY <2>2, <2>3
<1>2. tests \in Nat /\ failed \in Nat /\ early \in BOOLEAN
  BY <1>1
<1>3. /\ r.verdict = IF failed > 0 \/ h.bail THEN "fail" ELSE IF killed THEN "cut" ELSE "pass"
      /\ r.tests = tests /\ r.passed = h.ok + h.todo /\ r.failed = failed
      /\ r.bail = h.bail /\ r.listed = (failed > 0 \/ h.bail \/ killed)
  BY DEF PjdResult
<1>4. r \in ResultType /\ r.verdict \in Verdicts
  BY <1>1, <1>2 DEF PjdResult, ResultType, Verdicts, TypeOK
<1>5. r.verdict \in Failing <=> r.failed > 0 \/ r.bail
  BY <1>3 DEF Failing
<1>6. ASSUME r.verdict \notin Failing
      PROVE  out.garbled \/ PjdPassed(History)
  <2>1. failed = 0 /\ ~h.bail
    BY <1>2, <1>3, <1>6 DEF Failing
  <2>2. h.bad = 0 /\ (killed \/ h.plan <= h.ok + h.todo)
    BY <1>1, <2>1
  <2>3. CASE ~out.garbled
    <3>1. h = out
      BY <2>3 DEF Heard
    <3> HIDE DEF h
    <3> QED
      BY <2>1, <2>2, <3>1 DEF PjdPassed, History
  <2> QED
    BY <2>3 DEF TypeOK, OutputType
<1>7. ASSUME r.verdict \notin Failing, r.listed
      PROVE  ~History.ended
  BY <1>3, <1>7 DEF Failing, History
<1>8. History.out = out
  BY DEF History
<1> HIDE DEF r
<1>9. suite = "pjdfstest" => Follows(r, History)
  BY <1>5, <1>6, <1>7, <1>8 DEF Follows
<1> QED
  BY <1>4, <1>9 DEF r

\* result_of: exit codes
LEMMA LtpFollows ==
  ASSUME TypeOK, child \in {"zombie", "reaped"}
  PROVE  LET r == [NoResult EXCEPT !.verdict = ResultOf(Code, killed)]
         IN  /\ r \in ResultType /\ r.verdict \in Verdicts
             /\ suite = "ltp" => Follows(r, History)
<1>1. Code \in {"pass", "fail", "broken", "conf", "other", "signal", "none"}
  BY SerialAssumption DEF TypeOK, Code, Statuses
<1>2. ResultOf(Code, killed) \in Verdicts
  BY <1>1 DEF ResultOf, Verdicts
<1>3. ResultOf(Code, killed) \notin Failing => ~killed /\ Code \in {"pass", "conf", "other"}
  BY <1>1 DEF ResultOf, Failing
<1> QED
  BY <1>2, <1>3 DEF NoResult, ResultType, Follows, History

LEMMA ReadFollows ==
  ASSUME TypeOK, child \in {"zombie", "reaped"}
  PROVE  Result \in ResultType /\ Result.verdict \in Verdicts /\ Follows(Result, History)
BY PjdFollows, LtpFollows DEF Result, TypeOK, Suites, Follows

-----------------------------------------------------------------------------
(* Steps. *)

LEMMA InitInv == Init => IInv
<1> SUFFICES ASSUME Init PROVE IInv
  OBVIOUS
<1>1. TypeOK
  <2>1. Silent \in OutputType
    BY SerialAssumption DEF Silent, OutputType
  <2>2. NoResult \in ResultType
    BY DEF NoResult, ResultType
  <2>3. NotRun \in [out : OutputType, exit : Statuses, ended : BOOLEAN]
    BY <2>1 DEF NotRun, Statuses
  <2> QED
    <3>1. cur \in 0..N /\ attempts \in 0..Attempts-1 /\ N \in Nat
      BY SerialAssumption DEF Init, Attempts
    <3>2. report \in [status : {Missing, "ok", "failed"}, passed : 0..Word-1]
      BY SerialAssumption DEF Init
    <3>3. out \in OutputType /\ result \in [Items -> ResultType]
      BY <2>1, <2>2 DEF Init
    <3>4. ran \in [Items -> [out : OutputType, exit : Statuses, ended : BOOLEAN]]
      BY <2>3 DEF Init
    <3> QED
      BY <3>1, <3>2, <3>3, <3>4 DEF Init, TypeOK, Statuses
<1>2. Counted
  BY DEF Init, Counted, Silent
<1>3. InOrder
  BY Constants DEF Init, InOrder, NoResult
<1>4. Published
  BY DEF Init, Published
<1> QED
  BY <1>1, <1>2, <1>3, <1>4, Constants DEF Init, IInv

\* the environment changes neither the loop nor its results
LEMMA EnvironmentStep ==
  ASSUME IInv, Environment \/ DeadlinePasses \/ Drain
  PROVE  IInv'
<1> USE DEF IInv
<1>1. UNCHANGED <<suite, driver, answers>>
  BY DEF Environment, DeadlinePasses, Drain, ScriptPrints, ScriptBlocks, ScriptForks,
         ScriptExits, KinExits, ScriptSticks, ScriptResumes
<1>2. UNCHANGED <<suite, cur, pc, attempts, result, report, ran>>
  BY <1>1 DEF driver, answers
<1>3. InOrder' /\ Published' /\ (\A i \in Items : i < cur => Follows(result[i], ran[i]))'
  BY <1>2 DEF InOrder, Published, SomeFailed, Follows
<1>4. CASE ScriptPrints
  <2>1. out' \in OutputType /\ Counted'
    <3>0. out.lines < MaxLines
      BY <1>4 DEF ScriptPrints
    <3>1. /\ out.lines + 1 \in 0..MaxLines /\ out.ok + 1 \in 0..MaxLines
          /\ out.bad + 1 \in 0..MaxLines /\ out.todo + 1 \in 0..MaxLines
          /\ out.lines <= out.lines + 1
      BY <3>0, OutputFields DEF Counted
    <3>2. out \in OutputType
      BY DEF TypeOK
    <3>3. CASE \E n \in Plans : out' = [out EXCEPT !.plan = n, !.lines = @ + 1]
      <4>1. out' \in OutputType
        BY <3>1, <3>2, <3>3 DEF OutputType
      <4>2. out'.lines = out.lines + 1 /\ out'.ok = out.ok /\ out'.bad = out.bad /\ out'.todo = out.todo
        BY <3>2, <3>3 DEF OutputType
      <4> QED
        BY <4>1, <4>2, OutputFields DEF Counted
    <3>4. CASE out' = [out EXCEPT !.ok = @ + 1, !.lines = @ + 1]
      <4>1. out' \in OutputType
        BY <3>1, <3>2, <3>4 DEF OutputType
      <4>2. out'.lines = out.lines + 1 /\ out'.ok = out.ok + 1 /\ out'.bad = out.bad /\ out'.todo = out.todo
        BY <3>2, <3>4 DEF OutputType
      <4> QED
        BY <4>1, <4>2, OutputFields DEF Counted
    <3>5. CASE out' = [out EXCEPT !.bad = @ + 1, !.lines = @ + 1]
      <4>1. out' \in OutputType
        BY <3>1, <3>2, <3>5 DEF OutputType
      <4>2. out'.lines = out.lines + 1 /\ out'.ok = out.ok /\ out'.bad = out.bad + 1 /\ out'.todo = out.todo
        BY <3>2, <3>5 DEF OutputType
      <4> QED
        BY <4>1, <4>2, OutputFields DEF Counted
    <3>6. CASE out' = [out EXCEPT !.todo = @ + 1, !.lines = @ + 1]
      <4>1. out' \in OutputType
        BY <3>1, <3>2, <3>6 DEF OutputType
      <4>2. out'.lines = out.lines + 1 /\ out'.ok = out.ok /\ out'.bad = out.bad /\ out'.todo = out.todo + 1
        BY <3>2, <3>6 DEF OutputType
      <4> QED
        BY <4>1, <4>2, OutputFields DEF Counted
    <3>7. CASE out' = [out EXCEPT !.bail = TRUE, !.lines = @ + 1]
      <4>1. out' \in OutputType
        BY <3>1, <3>2, <3>7 DEF OutputType
      <4>2. out'.lines = out.lines + 1 /\ out'.ok = out.ok /\ out'.bad = out.bad /\ out'.todo = out.todo
        BY <3>2, <3>7 DEF OutputType
      <4> QED
        BY <4>1, <4>2, OutputFields DEF Counted
    <3>8. CASE out' = [out EXCEPT !.garbled = TRUE, !.lines = @ + 1]
      <4>1. out' \in OutputType
        BY <3>1, <3>2, <3>8 DEF OutputType
      <4>2. out'.lines = out.lines + 1 /\ out'.ok = out.ok /\ out'.bad = out.bad /\ out'.todo = out.todo
        BY <3>2, <3>8 DEF OutputType
      <4> QED
        BY <4>1, <4>2, OutputFields DEF Counted
    <3>9. CASE out' = [out EXCEPT !.wide = TRUE, !.lines = @ + 1]
      <4>1. out' \in OutputType
        BY <3>1, <3>2, <3>9 DEF OutputType
      <4>2. out'.lines = out.lines + 1 /\ out'.ok = out.ok /\ out'.bad = out.bad /\ out'.todo = out.todo
        BY <3>2, <3>9 DEF OutputType
      <4> QED
        BY <4>1, <4>2, OutputFields DEF Counted
    <3> QED
      BY <1>4, <3>3, <3>4, <3>5, <3>6, <3>7, <3>8, <3>9 DEF ScriptPrints, PrintsTap
  <2>2. TypeOK'
    BY <1>2, <1>4, <2>1 DEF ScriptPrints, TypeOK
  <2> QED
    BY <1>3, <2>1, <2>2
<1>5. CASE ~ScriptPrints
  <2>1. out' = out
    BY <1>5 DEF Environment, DeadlinePasses, Drain, ScriptBlocks, ScriptForks,
            ScriptExits, KinExits, ScriptSticks, ScriptResumes
  <2>2. /\ child' \in {"none", "alive", "blocked", "stuck", "zombie", "reaped"}
        /\ kin' \in KinKinds \cup {"none"}
        /\ late' \in BOOLEAN /\ killed' = killed /\ exit' \in Statuses
    BY <1>5 DEF Environment, DeadlinePasses, Drain, ScriptBlocks,
       ScriptForks, ScriptExits, KinExits, ScriptSticks, ScriptResumes, TypeOK, Statuses
  <2>3. TypeOK'
    BY <1>2, <2>1, <2>2 DEF TypeOK
  <2> QED
    BY <1>3, <2>1, <2>3 DEF Counted
<1> QED
  BY <1>4, <1>5

\* a result is added and the loop goes on
LEMMA PushStep ==
  ASSUME IInv, cur < N, pc # "done", NEW r \in ResultType,
         r.verdict \in Verdicts, Follows(r, History), Push(r)
  PROVE  /\ IInv'
         /\ result[cur].verdict = Missing
         /\ report' = report
<1> USE DEF IInv
<1>1. cur \in Items /\ cur \in Nat /\ N \in Nat
  BY Constants DEF TypeOK
<1>2. /\ result' = [result EXCEPT ![cur] = r] /\ ran' = [ran EXCEPT ![cur] = History]
      /\ cur' = cur + 1 /\ attempts' = 0 /\ suite' = suite /\ report' = report
      /\ pc' = IF cur + 1 < N THEN "prepare" ELSE "emit"
      /\ out' = Silent /\ child' = "none" /\ kin' = "none" /\ late' = FALSE
      /\ killed' = FALSE /\ exit' = "none"
  BY DEF Push, History, Fresh, Goto
<1>3. TypeOK'
  <2>1. Silent \in OutputType
    BY SerialAssumption DEF Silent, OutputType
  <2>2. result' \in [Items -> ResultType]
    BY <1>1, <1>2 DEF TypeOK
  <2>3. ran' \in [Items -> [out : OutputType, exit : Statuses, ended : BOOLEAN]]
    BY <1>1, <1>2, HistoryType DEF TypeOK
  <2>4. cur' \in 0..N /\ attempts' \in 0..Attempts-1
    BY <1>1, <1>2 DEF Attempts
  <2> QED
    BY <1>2, <2>1, <2>2, <2>3, <2>4 DEF TypeOK, Statuses
<1>4. Counted'
  BY <1>2 DEF Counted, Silent
<1>5. result[cur].verdict = Missing
  BY <1>1 DEF InOrder
<1>6. InOrder'
  <2>1. \A i \in Items : (i < cur <=> result[i].verdict # Missing)'
    <3> TAKE i \in Items
    <3>1. CASE i = cur
      BY <3>1, <1>1, <1>2, Constants DEF TypeOK
    <3>2. CASE i # cur
      <4>1. result'[i] = result[i] /\ (i < cur' <=> i < cur)
        BY <3>2, <1>1, <1>2, Constants DEF TypeOK
      <4> QED
        BY <4>1 DEF InOrder
    <3> QED
      BY <3>1, <3>2
  <2>2. pc' = "prepare" => cur' < N
    BY <1>1, <1>2
  <2>3. pc' = "emit" => cur' = N
    BY <1>1, <1>2
  <2>4. pc' \in {"prepare", "emit"} /\ report'.status = Missing
    BY <1>2 DEF InOrder
  <2> QED
    BY <2>1, <2>2, <2>3, <2>4 DEF InOrder
<1>7. Published'
  BY <1>2 DEF Published
<1>8. ASSUME NEW i \in Items, i < cur'
      PROVE  Follows(result[i], ran[i])'
  <2>1. CASE i = cur
    <3>1. result'[i] = r /\ ran'[i] = History
      BY <2>1, <1>1, <1>2 DEF TypeOK
    <3> QED
      BY <3>1, <1>2 DEF Follows
  <2>2. CASE i # cur
    <3>1. i < cur /\ result'[i] = result[i] /\ ran'[i] = ran[i]
      BY <2>2, <1>1, <1>2, <1>8, Constants DEF TypeOK
    <3> QED
      BY <3>1, <1>2 DEF Follows
  <2> QED
    BY <2>1, <2>2
<1> QED
  BY <1>2, <1>3, <1>4, <1>5, <1>6, <1>7, <1>8

\* steps of the runner between two results
LEMMA ControlStep ==
  ASSUME IInv,
         pc \in {"prepare", "spawn", "poll", "kill", "reap", "read"},
         pc' \in {"prepare", "spawn", "poll", "kill", "reap", "read", "panic"},
         child' \in {"none", "alive", "blocked", "stuck", "zombie", "reaped"},
         kin' \in KinKinds \cup {"none"}, killed' \in BOOLEAN,
         attempts' \in 0..Attempts-1,
         UNCHANGED <<suite, cur, late, out, exit, answers>>
  PROVE  IInv'
<1> USE DEF IInv
<1>1. UNCHANGED <<suite, cur, late, out, exit, result, report, ran>>
  BY DEF answers
<1>2. TypeOK'
  BY <1>1 DEF TypeOK
<1>3. InOrder' /\ Published' /\ Counted'
  BY <1>1 DEF InOrder, Published, Counted
<1>4. \A i \in Items : (i < cur => Follows(result[i], ran[i]))'
  BY <1>1 DEF Follows
<1> QED
  BY <1>2, <1>3, <1>4

\* the status is that of the verdicts
LEMMA StatusAgrees ==
  ASSUME IInv, cur = N
  PROVE  Status = IF SomeFailed THEN "failed" ELSE "ok"
<1> USE DEF IInv
<1>1. \A i \in Items : Follows(result[i], ran[i])
  BY Constants
<1>2. CASE suite = "ltp"
  BY <1>2 DEF Status, SomeFailed
<1>3. CASE suite = "pjdfstest"
  <2> DEFINE f == [i \in Items |-> result[i].failed]
  <2>1. f \in [Items -> Nat]
    BY DEF TypeOK, ResultType
  <2>2. TotalFailed = 0 <=> \A i \in Items : f[i] = 0
    BY <2>1, TotalOfNaturals, Constants DEF TotalFailed
  <2>3. \A i \in Items : result[i].verdict \in Failing <=> f[i] # 0 \/ result[i].bail
    <3> TAKE i \in Items
    <3>1. result[i].failed \in Nat
      BY DEF TypeOK, ResultType
    <3>2. result[i].failed > 0 <=> f[i] # 0
      BY <3>1
    <3> QED
      BY <3>2, <1>1, <1>3 DEF Follows
  <2> HIDE DEF f
  <2> QED
    BY <1>3, <2>2, <2>3 DEF Status, SomeFailed
<1> QED
  BY <1>2, <1>3 DEF TypeOK, Suites

LEMMA EmitStep ==
  ASSUME IInv, Emit
  PROVE  /\ IInv'
         /\ cur = N
         /\ UNCHANGED result
         /\ \/ UNCHANGED report
            \/ report.status = Missing /\ report'.status = IF SomeFailed THEN "failed" ELSE "ok"
<1> USE DEF IInv
<1>1. cur = N /\ report.status = Missing
  BY DEF Emit, InOrder
<1>2. UNCHANGED <<suite, cur, attempts, child, kin, late, killed, out, exit, result, ran>>
  BY DEF Emit, process
<1>3. CASE UNCHANGED report
  <2>1. pc' = "panic"
    BY <1>1, <1>3 DEF Emit, Goto, Status, Missing
  <2> QED
    BY <1>1, <1>2, <1>3, <2>1 DEF TypeOK, Counted, InOrder, Published, Follows
<1>4. CASE report' = [status |-> Status, passed |-> (Word + TotalTests - TotalFailed) % Word] /\ pc' = "done"
  <2>1. report'.status = IF SomeFailed THEN "failed" ELSE "ok"
    BY <1>1, <1>4, StatusAgrees
  <2>2. report' \in [status : {Missing, "ok", "failed"}, passed : 0..Word-1]
    <3> DEFINE t == [i \in Items |-> result[i].tests]
               f == [i \in Items |-> result[i].failed]
    <3>1. t \in [Items -> Nat] /\ f \in [Items -> Nat]
      BY DEF TypeOK, ResultType
    <3>2. TotalTests \in Nat /\ TotalFailed \in Nat
      BY <3>1, TotalOfNaturals, Constants DEF TotalTests, TotalFailed
    <3>3. (Word + TotalTests - TotalFailed) % Word \in 0..Word-1
      BY <3>2, SerialAssumption
    <3>4. Status \in {"ok", "failed"}
      BY DEF Status
    <3> QED
      BY <1>4, <3>3, <3>4
  <2>3. TypeOK'
    BY <1>2, <1>4, <2>2 DEF TypeOK
  <2>4. InOrder'
    BY <1>1, <1>2, <1>4, <2>1 DEF InOrder, Missing
  <2>5. Published' /\ Counted' /\ SomeFailed' = SomeFailed
    BY <1>2, <2>1 DEF Published, Counted, SomeFailed
  <2>6. \A i \in Items : (i < cur => Follows(result[i], ran[i]))'
    BY <1>2 DEF Follows
  <2> QED
    BY <1>1, <1>2, <2>1, <2>3, <2>4, <2>5, <2>6
<1> QED
  BY <1>3, <1>4 DEF Emit, Goto

\* what a step may do to the results: nothing, add the one of the current test,
\* or, when all are there, publish what they say
Progress ==
  \/ UNCHANGED <<result, report>>
  \/ /\ cur \in Items /\ result[cur].verdict = Missing
     /\ \E r \in ResultType :
          r.verdict \in Verdicts /\ result' = [result EXCEPT ![cur] = r]
     /\ UNCHANGED report
  \/ /\ \A i \in Items : result[i].verdict # Missing
     /\ report.status = Missing
     /\ report'.status = IF SomeFailed THEN "failed" ELSE "ok"
     /\ UNCHANGED result

LEMMA Step ==
  ASSUME IInv, [Next]_vars
  PROVE  IInv' /\ Progress
<1> USE DEF Progress
<1>0. TypeOK /\ InOrder /\ Counted
  BY DEF IInv
<1>1. CASE Environment \/ DeadlinePasses \/ Drain
  <2>1. UNCHANGED <<result, report>>
    BY <1>1 DEF Environment, DeadlinePasses, Drain, ScriptPrints, ScriptBlocks, ScriptForks,
           ScriptExits, KinExits, ScriptSticks, ScriptResumes, answers
  <2> QED
    BY <1>1, <2>1, EnvironmentStep
<1>2. ASSUME NEW r \in ResultType, r.verdict \in Verdicts, Follows(r, History),
             Push(r), cur < N, pc # "done"
      PROVE  IInv' /\ Progress
  <2>1. IInv' /\ result[cur].verdict = Missing /\ report' = report
    BY <1>2, PushStep
  <2>2. cur \in Items /\ result' = [result EXCEPT ![cur] = r]
    BY <1>0, <1>2, Constants DEF TypeOK, Push
  <2> QED
    BY <1>2, <2>1, <2>2
<1>3. CASE Prepare
  BY <1>0, <1>3, ControlStep DEF Prepare, Goto, process, answers, TypeOK
<1>4. CASE PrepareFails
  <2>1. cur < N /\ pc # "done" /\ suite = "pjdfstest" /\ Push(PjdBroken)
    BY <1>0, <1>4 DEF PrepareFails, InOrder
  <2> QED
    BY <2>1, <1>2, BrokenFollows
<1>5. CASE Spawn
  BY <1>0, <1>5, ControlStep DEF Spawn, Goto, answers, TypeOK
<1>6. CASE SpawnFails
  <2>1. cur < N /\ pc # "done"
    BY <1>0, <1>6 DEF SpawnFails, InOrder
  <2>2. CASE suite = "pjdfstest" /\ Push(PjdBroken)
    BY <2>1, <2>2, <1>2, BrokenFollows
  <2>3. CASE suite = "ltp" /\ Push([NoResult EXCEPT !.verdict = "broken"])
    BY <2>1, <2>3, <1>2, LtpBrokenFollows
  <2>4. CASE attempts + 1 < Attempts /\ attempts' = attempts + 1
             /\ UNCHANGED <<suite, cur, pc, process, answers>>
    <3>1. attempts' \in 0..Attempts-1
      BY <1>0, <2>4 DEF TypeOK, Attempts
    <3> QED
      BY <1>0, <1>6, <2>4, <3>1, ControlStep DEF SpawnFails, process, answers, TypeOK
  <2> QED
    BY <1>6, <2>2, <2>3, <2>4 DEF SpawnFails
<1>7. CASE Poll
  BY <1>0, <1>7, ControlStep DEF Poll, Goto, answers, TypeOK
<1>8. CASE Kill
  BY <1>0, <1>8, ControlStep DEF Kill, Goto, answers, TypeOK
<1>9. CASE Reap
  BY <1>0, <1>9, ControlStep DEF Reap, Goto, answers, TypeOK
<1>10. CASE Read
  <2>1. cur < N /\ pc # "done" /\ child \in {"zombie", "reaped"}
    BY <1>0, <1>10 DEF Read, InOrder
  <2>2. CASE Push(Result)
    BY <1>0, <2>1, <2>2, <1>2, ReadFollows
  <2>3. CASE Goto("panic") /\ UNCHANGED <<suite, cur, attempts, process, answers>>
    BY <1>0, <1>10, <2>3, ControlStep DEF Read, Goto, process, answers, TypeOK
  <2> QED
    BY <1>10, <2>2, <2>3 DEF Read
<1>11. CASE Emit
  <2>1. \A i \in Items : result[i].verdict # Missing
    BY <1>0, <1>11, Constants DEF Emit, InOrder
  <2> QED
    BY <1>11, <2>1, EmitStep
<1>12. CASE UNCHANGED vars
  <2>1. UNCHANGED <<suite, cur, pc, attempts, child, kin, late, killed, out, exit, result, report, ran>>
    BY <1>12 DEF vars
  <2> QED
    BY <2>1 DEF IInv, TypeOK, Counted, InOrder, Published, SomeFailed, Follows
<1> QED
  BY <1>1, <1>3, <1>4, <1>5, <1>6, <1>7, <1>8, <1>9, <1>10, <1>11, <1>12
     DEF Next, Runner, Finished

-----------------------------------------------------------------------------
(* Theorems. *)

\* The inductive invariant of the loop over the tests, for pjdfstest and ltp.
THEOREM SerialInvariance == Spec => []IInv
<1>1. IInv /\ [Next]_vars => IInv'
  BY Step
<1> QED
  BY <1>1, InitInv, PTL DEF Spec

\* Types: no counter of a test leaves its range, the passed count of the
\* summary stays a u64.
THEOREM SerialTypes == Spec => []TypeOK
<1>1. IInv => TypeOK
  BY DEF IInv
<1> QED
  BY <1>1, SerialInvariance, PTL

\* A run of pjdfstest or ltp that reports ok has seen every test pass.
THEOREM OkMeansPassed == Spec => []OkIsEarned
<1>1. IInv => OkIsEarned
  <2> SUFFICES ASSUME IInv, report.status = "ok", NEW i \in Items
               PROVE  /\ suite = "ltp" => ran[i].ended /\ ran[i].exit \in {"pass", "conf", "other"}
                      /\ suite = "pjdfstest" => ran[i].out.garbled \/ PjdPassed(ran[i])
                      /\ result[i].listed => ~ran[i].ended
    BY DEF OkIsEarned
  <2>1. pc = "done" /\ cur = N
    BY DEF IInv, InOrder, Missing
  <2>2. result[i].verdict \notin Failing
    BY <2>1 DEF IInv, Published, SomeFailed
  <2>3. Follows(result[i], ran[i])
    BY <2>1, Constants DEF IInv
  <2>4. suite \in {"pjdfstest", "ltp"}
    BY DEF IInv, TypeOK, Suites
  <2> QED
    BY <2>2, <2>3, <2>4 DEF Follows
<1> QED
  BY <1>1, SerialInvariance, PTL

\* pjdfstest and ltp implement Batch: a result is final, and one report comes
\* after all of them and agrees with them.
THEOREM SerialKeepsPromise == Spec => KeepsPromise
<1> DEFINE slot == [i \in Items |-> result[i].verdict]
<1>1. Init => Promise!BatchInit
  BY DEF Init, Promise!BatchInit, NoResult, Missing, Promise!Missing
<1>2. IInv /\ [Next]_vars => [Promise!BatchNext]_<<slot, report.status>>
  <2> SUFFICES ASSUME IInv, [Next]_vars
               PROVE  Promise!BatchNext \/ UNCHANGED <<slot, report.status>>
    OBVIOUS
  <2>1. Progress /\ TypeOK
    BY Step DEF IInv
  <2>2. CASE UNCHANGED <<result, report>>
    BY <2>2
  <2>3. CASE /\ cur \in Items /\ result[cur].verdict = Missing
             /\ \E r \in ResultType :
                  r.verdict \in Verdicts /\ result' = [result EXCEPT ![cur] = r]
             /\ UNCHANGED report
    <3>1. PICK r \in ResultType :
            r.verdict \in Verdicts /\ result' = [result EXCEPT ![cur] = r]
      BY <2>3
    <3>2. PICK j \in Items : j = cur
      BY <2>3
    <3>3. slot' = [slot EXCEPT ![j] = r.verdict]
      BY <2>1, <3>1, <3>2 DEF TypeOK
    <3>4. slot[j] = Promise!Missing
      BY <2>3, <3>2 DEF Missing, Promise!Missing
    <3>5. Promise!Finish(j)
      BY <2>3, <3>1, <3>3, <3>4 DEF Promise!Finish
    <3> QED
      BY <3>5 DEF Promise!BatchNext
  <2>4. CASE /\ \A i \in Items : result[i].verdict # Missing
             /\ report.status = Missing
             /\ report'.status = IF SomeFailed THEN "failed" ELSE "ok"
             /\ UNCHANGED result
    <3>1. Promise!Publish
      BY <2>4 DEF Promise!Publish, Promise!Verdict, SomeFailed, Missing, Promise!Missing
    <3> QED
      BY <3>1 DEF Promise!BatchNext
  <2> QED
    BY <2>1, <2>2, <2>3, <2>4 DEF Progress
<1> QED
  BY <1>1, <1>2, SerialInvariance, PTL DEF Spec, KeepsPromise, Promise!BatchSpec
=============================================================================
