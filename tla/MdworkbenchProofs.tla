------------------------- MODULE MdworkbenchProofs --------------------------
(***************************************************************************)
(* Proofs about Mdworkbench, for any number of ranks and any invocations.  *)
(* The barriers keep the ranks in one phase (InStep).  From there:         *)
(*   - the ranks that take part in a wear-out stop at one count (Wear);    *)
(*   - without a timer every rank does its number of objects (Pace), so a  *)
(*     run that reports ok has read all of them (Complete);                *)
(*   - an object is made once, whatever the pace of the ranks (Fresh), so  *)
(*     the objects are the ones counted;                                   *)
(*   - an exact run finds, in every phase and data set, the FIFO between   *)
(*     the positions of its two ranks (Fifo), and cleans all of it up.     *)
(***************************************************************************)
EXTENDS Mdworkbench, Sums, SequenceTheorems

-----------------------------------------------------------------------------
(* The plan of the phases. *)

Phases == {"precreate", "benchmark", "cleanup"}

\* phases before the benchmark, and with it
Before == IF opt.pre THEN 1 ELSE 0
Until == Before + (IF opt.bench THEN opt.iterations ELSE 0)

LEMMA PlanFacts ==
  ASSUME opt \in OptionType
  PROVE  /\ Before \in Nat /\ Until \in Nat /\ Len(Plan) \in Nat
         /\ Len(Plan) = Until + (IF opt.clean THEN 1 ELSE 0)
         /\ \A i \in 1..Len(Plan) :
              Plan[i] = IF i <= Before THEN "precreate"
                        ELSE IF i <= Until THEN "benchmark" ELSE "cleanup"
         /\ Plan = <<>> <=> Len(Plan) = 0
<1> DEFINE x == IF opt.pre THEN <<"precreate">> ELSE <<>>
           y == IF opt.bench THEN [i \in 1..opt.iterations |-> "benchmark"] ELSE <<>>
           z == IF opt.clean THEN <<"cleanup">> ELSE <<>>
           b == IF opt.bench THEN opt.iterations ELSE 0
           c == IF opt.clean THEN 1 ELSE 0
<1>1. opt.iterations \in Nat /\ opt.pre \in BOOLEAN /\ opt.bench \in BOOLEAN
      /\ opt.clean \in BOOLEAN
  BY DEF OptionType
<1>2. x \in Seq(Phases) /\ Len(x) = Before /\ Before \in Nat
      /\ \A i \in 1..Before : x[i] = "precreate"
  <2>1. CASE opt.pre
    <3>1. x = <<"precreate">> /\ Before = 1
      BY <2>1 DEF Before
    <3> HIDE DEF x
    <3> QED
      BY <3>1 DEF Phases
  <2>2. CASE ~opt.pre
    <3>1. x = <<>> /\ Before = 0
      BY <2>2 DEF Before
    <3> HIDE DEF x
    <3> QED
      BY <3>1
  <2> QED
    BY <2>1, <2>2
<1>3. y \in Seq(Phases) /\ Len(y) = b /\ b \in Nat
      /\ \A i \in 1..b : y[i] = "benchmark"
  <2>1. CASE opt.bench
    <3> DEFINE w == [i \in 1..opt.iterations |-> "benchmark"]
    <3>1. w \in Seq(Phases) /\ Len(w) = opt.iterations
      BY <1>1 DEF Phases
    <3> QED
      BY <1>1, <2>1, <3>1
  <2>2. CASE ~opt.bench
    BY <1>1, <2>2
  <2> QED
    BY <2>1, <2>2
<1>4. z \in Seq(Phases) /\ Len(z) = c /\ c \in Nat /\ \A i \in 1..c : z[i] = "cleanup"
  <2>1. CASE opt.clean
    <3>1. z = <<"cleanup">> /\ c = 1
      BY <2>1
    <3> HIDE DEF z, c
    <3> QED
      BY <3>1 DEF Phases
  <2>2. CASE ~opt.clean
    <3>1. z = <<>> /\ c = 0
      BY <2>2
    <3> HIDE DEF z, c
    <3> QED
      BY <3>1
  <2> QED
    BY <2>1, <2>2
<1>5. Plan = (x \o y) \o z
  BY DEF Plan
<1>6. Until = Before + b
  BY DEF Until
<1> HIDE DEF x, y, z, b
<1>7. /\ x \o y \in Seq(Phases) /\ Len(x \o y) = Until /\ Until \in Nat
      /\ \A i \in 1..Until : (x \o y)[i] = IF i <= Before THEN "precreate" ELSE "benchmark"
  BY <1>2, <1>3, <1>6
<1> DEFINE w == x \o y
<1>a. w \in Seq(Phases) /\ Len(w) = Until
  BY <1>7
<1> HIDE DEF w, c
<1>8. /\ w \o z \in Seq(Phases) /\ Len(w \o z) = Until + c
      /\ \A i \in 1..Until + c :
           (w \o z)[i] = IF i <= Until THEN w[i] ELSE z[i - Until]
  <2>1. /\ w \o z \in Seq(Phases) /\ Len(w \o z) = Len(w) + Len(z)
        /\ \A i \in 1..Len(w) + Len(z) :
             (w \o z)[i] = IF i <= Len(w) THEN w[i] ELSE z[i - Len(w)]
    <3>1. w \in Seq(Phases) /\ z \in Seq(Phases)
      BY <1>4, <1>a
    <3> QED
      BY ONLY <3>1, ConcatProperties
  <2>2. Len(w) = Until /\ Len(z) = c
    BY <1>4, <1>a
  <2> QED
    BY <2>1, <2>2, Zenon
<1>9. \A i \in 1..Until + c : i > Until => i - Until \in 1..c
  BY <1>4, <1>7
<1>10. \A i \in 1..Until + c :
         (w \o z)[i] = IF i <= Before THEN "precreate"
                       ELSE IF i <= Until THEN "benchmark" ELSE "cleanup"
  <2>1. Before <= Until
    BY <1>2, <1>3, <1>6
  <2>2. \A i \in 1..Until + c : i <= Until => i \in 1..Until
    BY <1>4, <1>7
  <2>3. \A i \in 1..Until + c : i > Until => z[i - Until] = "cleanup"
    BY <1>4, <1>9
  <2>4. \A i \in 1..Until : w[i] = IF i <= Before THEN "precreate" ELSE "benchmark"
    BY <1>7 DEF w
  <2>5. ASSUME NEW i \in 1..Until + c
        PROVE  (w \o z)[i] = IF i <= Before THEN "precreate"
                             ELSE IF i <= Until THEN "benchmark" ELSE "cleanup"
    <3>1. CASE i <= Until
      BY <1>8, <2>2, <2>4, <3>1
    <3>2. CASE ~(i <= Until)
      <4>1. i > Until /\ ~(i <= Before)
        BY <1>2, <1>4, <1>7, <2>1, <3>2
      <4> QED
        BY <1>8, <2>3, <3>2, <4>1
    <3> QED
      BY <3>1, <3>2
  <2> QED
    BY <2>5
<1>11. w \o z = <<>> <=> Len(w \o z) = 0
  BY <1>8
<1> QED
  BY <1>2, <1>4, <1>5, <1>7, <1>8, <1>10, <1>11 DEF w, c

-----------------------------------------------------------------------------
(* Types, and the ranks in step. *)

InSets == {"stat", "read", "unlink", "open", "write"}
Filling == {"mkdir", "fill", "exit"}
Working == InSets \cup {"lap", "count", "spin", "leave", "exit"}
Cleaning == {"sweep", "rmdir", "exit"}
Ending == {"rmprefix", "done"}
Labels == Filling \cup Working \cup Cleaning \cup Ending \cup {"gate"}

WearOutType == [total : Nat, contributors : Nat, finished : Nat]
TallyType == [create : Nat, read : Nat, stat : Nat, delete : Nat, errors : Nat]

Typed ==
  /\ opt \in OptionType
  /\ ph \in Nat
  /\ arrived \subseteq Ranks
  /\ pc \in [Ranks -> Labels]
  /\ index \in [Ranks -> Nat] /\ f \in [Ranks -> Nat] /\ d \in [Ranks -> Nat]
  /\ total \in [Ranks -> Nat] /\ contributed \in [Ranks -> BOOLEAN]
  /\ wo \in WearOutType
  /\ tally \in TallyType
  /\ faults \in Nat

\* a data set that a rank works on is one of them
Ranged ==
  \A r \in Ranks :
    /\ d[r] <= opt.dsets
    /\ pc[r] \in InSets \cup {"mkdir", "fill", "sweep", "rmdir"} => d[r] < opt.dsets

LabelsOf(p) ==
  IF p = "precreate" THEN Filling ELSE IF p = "benchmark" THEN Working ELSE Cleaning

AllGate == \A r \in Ranks : pc[r] = "gate"
AllIn == \A r \in Ranks : pc[r] \in LabelsOf(Plan[ph])
AllOut == \A r \in Ranks : pc[r] \in Ending

\* barriers keep the ranks in one phase
Lockstep ==
  /\ ph \in 1..Len(Plan) + 1
  /\ \/ ph <= Len(Plan) /\ (AllGate \/ AllIn)
     \/ ph = Len(Plan) + 1 /\ AllOut

Waiting == \A r \in arrived : pc[r] \in {"gate", "exit"}

InStep == Typed /\ Ranged /\ Lockstep /\ Waiting

Same(q) ==
  /\ pc'[q] = pc[q] /\ index'[q] = index[q] /\ f'[q] = f[q] /\ d'[q] = d[q]
  /\ total'[q] = total[q] /\ contributed'[q] = contributed[q]

\* a step of rank r alone
Alone(r) ==
  /\ opt' = opt /\ ph' = ph /\ arrived' = arrived
  /\ pc' \in [Ranks -> Labels]
  /\ index' \in [Ranks -> Nat] /\ f' \in [Ranks -> Nat] /\ d' \in [Ranks -> Nat]
  /\ total' \in [Ranks -> Nat] /\ contributed' \in [Ranks -> BOOLEAN]
  /\ wo' \in WearOutType
  /\ tally' \in TallyType
  /\ faults' \in Nat
  /\ \A q \in Ranks : q # r => Same(q)

\* from a label of a phase to another of the same one
Proceeds(r) ==
  \/ pc[r] \in Filling \ {"exit"} /\ pc'[r] \in Filling
  \/ pc[r] \in Working \ {"exit"} /\ pc'[r] \in Working
  \/ pc[r] \in Cleaning \ {"exit"} /\ pc'[r] \in Cleaning
  \/ pc[r] = "rmprefix" /\ pc'[r] = "done"

RangedIn(r) ==
  /\ d[r] <= opt.dsets
  /\ pc[r] \in InSets \cup {"mkdir", "fill", "sweep", "rmdir"} => d[r] < opt.dsets

Single(r) == Alone(r) /\ Proceeds(r) /\ RangedIn(r)'

LEMMA TallyFacts ==
  ASSUME Typed, NEW k \in {"create", "read", "stat", "delete", "errors"}, Counted(k)
  PROVE  tally' \in TallyType
BY SMTT(30) DEF Typed, TallyType, Counted

LEMMA FaultFacts ==
  ASSUME Typed
  PROVE  Fault \/ UNCHANGED faults => faults' \in Nat
BY DEF Typed, Fault

LEMMA OptFacts ==
  ASSUME Typed
  PROVE  /\ opt.num \in Nat /\ opt.precreate \in Nat /\ opt.dsets \in Nat
         /\ opt.iterations \in Nat /\ opt.offset \in Nat /\ opt.start \in Nat
         /\ opt.pre \in BOOLEAN /\ opt.bench \in BOOLEAN /\ opt.clean \in BOOLEAN
         /\ opt.readOnly \in BOOLEAN /\ opt.timer \in BOOLEAN /\ opt.wear \in BOOLEAN
         /\ opt.faults \in BOOLEAN /\ opt.otherSeed \in BOOLEAN
BY DEF Typed, OptionType

LEMMA MkdirStep ==
  ASSUME Typed, Ranged, NEW r \in Ranks, Mkdir(r)
  PROVE  Single(r)
<1>0. RangedIn(r)
  BY DEF Ranged, RangedIn
<1>1. pc[r] = "mkdir" /\ UNCHANGED <<opt, ph, arrived>>
  BY DEF Mkdir, StartFill, Goto, OutsidePhase
<1>2. pc' \in [Ranks -> Labels] /\ Proceeds(r) /\ \A q \in Ranks : q # r => pc'[q] = pc[q]
  BY <1>1 DEF Typed, Mkdir, StartFill, Goto, OutsidePhase, Proceeds, Labels, Filling, Working, Cleaning, Ending, InSets
<1>3. f' \in [Ranks -> Nat] /\ index' \in [Ranks -> Nat]
      /\ \A q \in Ranks : q # r => f'[q] = f[q] /\ index'[q] = index[q]
  BY DEF Typed, Mkdir, StartFill, Goto, OutsidePhase
<1>4. total' \in [Ranks -> Nat] /\ \A q \in Ranks : q # r => total'[q] = total[q]
  BY DEF Typed, Mkdir, StartFill, Goto, OutsidePhase, WearOutType
<1>5. contributed' \in [Ranks -> BOOLEAN]
      /\ \A q \in Ranks : q # r => contributed'[q] = contributed[q]
  BY DEF Typed, Mkdir, StartFill, Goto, OutsidePhase
<1>6. d' \in [Ranks -> Nat] /\ (\A q \in Ranks : q # r => d'[q] = d[q]) /\ RangedIn(r)'
  BY <1>0, <1>1, OptFacts DEF Typed, Mkdir, StartFill, Goto, OutsidePhase, RangedIn, InSets
<1>7. wo' \in WearOutType
  BY DEF Typed, Mkdir, StartFill, Goto, OutsidePhase, WearOutType, MaxOf
<1>8. tally' \in TallyType
  BY TallyFacts DEF Typed, Mkdir, StartFill, Goto, OutsidePhase
<1>9. faults' \in Nat
  BY FaultFacts DEF Typed, Mkdir, StartFill, Goto, OutsidePhase
<1> QED
  BY <1>1, <1>2, <1>3, <1>4, <1>5, <1>6, <1>7, <1>8, <1>9 DEF Single, Alone, Same

LEMMA FillStep ==
  ASSUME Typed, Ranged, NEW r \in Ranks, Fill(r)
  PROVE  Single(r)
<1>0. RangedIn(r)
  BY DEF Ranged, RangedIn
<1>1. pc[r] = "fill" /\ UNCHANGED <<opt, ph, arrived>>
  BY DEF Fill, NextFill, Goto, OutsidePhase
<1>2. pc' \in [Ranks -> Labels] /\ Proceeds(r) /\ \A q \in Ranks : q # r => pc'[q] = pc[q]
  BY <1>1 DEF Typed, Fill, NextFill, Goto, OutsidePhase, Proceeds, Labels, Filling, Working, Cleaning, Ending, InSets
<1>3. f' \in [Ranks -> Nat] /\ index' \in [Ranks -> Nat]
      /\ \A q \in Ranks : q # r => f'[q] = f[q] /\ index'[q] = index[q]
  BY DEF Typed, Fill, NextFill, Goto, OutsidePhase
<1>4. total' \in [Ranks -> Nat] /\ \A q \in Ranks : q # r => total'[q] = total[q]
  BY DEF Typed, Fill, NextFill, Goto, OutsidePhase, WearOutType
<1>5. contributed' \in [Ranks -> BOOLEAN]
      /\ \A q \in Ranks : q # r => contributed'[q] = contributed[q]
  BY DEF Typed, Fill, NextFill, Goto, OutsidePhase
<1>6. d' \in [Ranks -> Nat] /\ (\A q \in Ranks : q # r => d'[q] = d[q]) /\ RangedIn(r)'
  BY <1>0, <1>1, OptFacts DEF Typed, Fill, NextFill, Goto, OutsidePhase, RangedIn, InSets
<1>7. wo' \in WearOutType
  BY DEF Typed, Fill, NextFill, Goto, OutsidePhase, WearOutType, MaxOf
<1>8. tally' \in TallyType
  BY TallyFacts DEF Typed, Fill, NextFill, Goto, OutsidePhase
<1>9. faults' \in Nat
  BY FaultFacts DEF Typed, Fill, NextFill, Goto, OutsidePhase
<1> QED
  BY <1>1, <1>2, <1>3, <1>4, <1>5, <1>6, <1>7, <1>8, <1>9 DEF Single, Alone, Same

LEMMA StatStep ==
  ASSUME Typed, Ranged, NEW r \in Ranks, Stat(r)
  PROVE  Single(r)
<1>0. RangedIn(r)
  BY DEF Ranged, RangedIn
<1>1. pc[r] = "stat" /\ UNCHANGED <<opt, ph, arrived>>
  BY DEF Stat, NextSet, Goto, InSet, OutsidePhase
<1>2. pc' \in [Ranks -> Labels] /\ Proceeds(r) /\ \A q \in Ranks : q # r => pc'[q] = pc[q]
  BY <1>1 DEF Typed, Stat, NextSet, Goto, InSet, OutsidePhase, Proceeds, Labels, Filling, Working, Cleaning, Ending, InSets
<1>3. f' \in [Ranks -> Nat] /\ index' \in [Ranks -> Nat]
      /\ \A q \in Ranks : q # r => f'[q] = f[q] /\ index'[q] = index[q]
  BY DEF Typed, Stat, NextSet, Goto, InSet, OutsidePhase
<1>4. total' \in [Ranks -> Nat] /\ \A q \in Ranks : q # r => total'[q] = total[q]
  BY DEF Typed, Stat, NextSet, Goto, InSet, OutsidePhase, WearOutType
<1>5. contributed' \in [Ranks -> BOOLEAN]
      /\ \A q \in Ranks : q # r => contributed'[q] = contributed[q]
  BY DEF Typed, Stat, NextSet, Goto, InSet, OutsidePhase
<1>6. d' \in [Ranks -> Nat] /\ (\A q \in Ranks : q # r => d'[q] = d[q]) /\ RangedIn(r)'
  BY <1>0, <1>1, OptFacts DEF Typed, Stat, NextSet, Goto, InSet, OutsidePhase, RangedIn, InSets
<1>7. wo' \in WearOutType
  BY DEF Typed, Stat, NextSet, Goto, InSet, OutsidePhase, WearOutType, MaxOf
<1>8. tally' \in TallyType
  BY TallyFacts DEF Typed, Stat, NextSet, Goto, InSet, OutsidePhase
<1>9. faults' \in Nat
  BY FaultFacts DEF Typed, Stat, NextSet, Goto, InSet, OutsidePhase
<1> QED
  BY <1>1, <1>2, <1>3, <1>4, <1>5, <1>6, <1>7, <1>8, <1>9 DEF Single, Alone, Same

LEMMA ReadStep ==
  ASSUME Typed, Ranged, NEW r \in Ranks, Read(r)
  PROVE  Single(r)
<1>0. RangedIn(r)
  BY DEF Ranged, RangedIn
<1>1. pc[r] = "read" /\ UNCHANGED <<opt, ph, arrived>>
  BY DEF Read, NextSet, Goto, InSet, OutsidePhase
<1>2. pc' \in [Ranks -> Labels] /\ Proceeds(r) /\ \A q \in Ranks : q # r => pc'[q] = pc[q]
  BY <1>1 DEF Typed, Read, NextSet, Goto, InSet, OutsidePhase, Proceeds, Labels, Filling, Working, Cleaning, Ending, InSets
<1>3. f' \in [Ranks -> Nat] /\ index' \in [Ranks -> Nat]
      /\ \A q \in Ranks : q # r => f'[q] = f[q] /\ index'[q] = index[q]
  BY DEF Typed, Read, NextSet, Goto, InSet, OutsidePhase
<1>4. total' \in [Ranks -> Nat] /\ \A q \in Ranks : q # r => total'[q] = total[q]
  BY DEF Typed, Read, NextSet, Goto, InSet, OutsidePhase, WearOutType
<1>5. contributed' \in [Ranks -> BOOLEAN]
      /\ \A q \in Ranks : q # r => contributed'[q] = contributed[q]
  BY DEF Typed, Read, NextSet, Goto, InSet, OutsidePhase
<1>6. d' \in [Ranks -> Nat] /\ (\A q \in Ranks : q # r => d'[q] = d[q]) /\ RangedIn(r)'
  BY <1>0, <1>1, OptFacts DEF Typed, Read, NextSet, Goto, InSet, OutsidePhase, RangedIn, InSets
<1>7. wo' \in WearOutType
  BY DEF Typed, Read, NextSet, Goto, InSet, OutsidePhase, WearOutType, MaxOf
<1>8. tally' \in TallyType
  BY TallyFacts DEF Typed, Read, NextSet, Goto, InSet, OutsidePhase
<1>9. faults' \in Nat
  BY FaultFacts DEF Typed, Read, NextSet, Goto, InSet, OutsidePhase
<1> QED
  BY <1>1, <1>2, <1>3, <1>4, <1>5, <1>6, <1>7, <1>8, <1>9 DEF Single, Alone, Same

LEMMA UnlinkStep ==
  ASSUME Typed, Ranged, NEW r \in Ranks, Unlink(r)
  PROVE  Single(r)
<1>0. RangedIn(r)
  BY DEF Ranged, RangedIn
<1>1. pc[r] = "unlink" /\ UNCHANGED <<opt, ph, arrived>>
  BY DEF Unlink, Goto, InSet, OutsidePhase
<1>2. pc' \in [Ranks -> Labels] /\ Proceeds(r) /\ \A q \in Ranks : q # r => pc'[q] = pc[q]
  BY <1>1 DEF Typed, Unlink, Goto, InSet, OutsidePhase, Proceeds, Labels, Filling, Working, Cleaning, Ending, InSets
<1>3. f' \in [Ranks -> Nat] /\ index' \in [Ranks -> Nat]
      /\ \A q \in Ranks : q # r => f'[q] = f[q] /\ index'[q] = index[q]
  BY DEF Typed, Unlink, Goto, InSet, OutsidePhase
<1>4. total' \in [Ranks -> Nat] /\ \A q \in Ranks : q # r => total'[q] = total[q]
  BY DEF Typed, Unlink, Goto, InSet, OutsidePhase, WearOutType
<1>5. contributed' \in [Ranks -> BOOLEAN]
      /\ \A q \in Ranks : q # r => contributed'[q] = contributed[q]
  BY DEF Typed, Unlink, Goto, InSet, OutsidePhase
<1>6. d' \in [Ranks -> Nat] /\ (\A q \in Ranks : q # r => d'[q] = d[q]) /\ RangedIn(r)'
  BY <1>0, <1>1, OptFacts DEF Typed, Unlink, Goto, InSet, OutsidePhase, RangedIn, InSets
<1>7. wo' \in WearOutType
  BY DEF Typed, Unlink, Goto, InSet, OutsidePhase, WearOutType, MaxOf
<1>8. tally' \in TallyType
  BY TallyFacts DEF Typed, Unlink, Goto, InSet, OutsidePhase
<1>9. faults' \in Nat
  BY FaultFacts DEF Typed, Unlink, Goto, InSet, OutsidePhase
<1> QED
  BY <1>1, <1>2, <1>3, <1>4, <1>5, <1>6, <1>7, <1>8, <1>9 DEF Single, Alone, Same

LEMMA OpenStep ==
  ASSUME Typed, Ranged, NEW r \in Ranks, Open(r)
  PROVE  Single(r)
<1>0. RangedIn(r)
  BY DEF Ranged, RangedIn
<1>1. pc[r] = "open" /\ UNCHANGED <<opt, ph, arrived>>
  BY DEF Open, NextSet, Goto, InSet, OutsidePhase
<1>2. pc' \in [Ranks -> Labels] /\ Proceeds(r) /\ \A q \in Ranks : q # r => pc'[q] = pc[q]
  BY <1>1 DEF Typed, Open, NextSet, Goto, InSet, OutsidePhase, Proceeds, Labels, Filling, Working, Cleaning, Ending, InSets
<1>3. f' \in [Ranks -> Nat] /\ index' \in [Ranks -> Nat]
      /\ \A q \in Ranks : q # r => f'[q] = f[q] /\ index'[q] = index[q]
  BY DEF Typed, Open, NextSet, Goto, InSet, OutsidePhase
<1>4. total' \in [Ranks -> Nat] /\ \A q \in Ranks : q # r => total'[q] = total[q]
  BY DEF Typed, Open, NextSet, Goto, InSet, OutsidePhase, WearOutType
<1>5. contributed' \in [Ranks -> BOOLEAN]
      /\ \A q \in Ranks : q # r => contributed'[q] = contributed[q]
  BY DEF Typed, Open, NextSet, Goto, InSet, OutsidePhase
<1>6. d' \in [Ranks -> Nat] /\ (\A q \in Ranks : q # r => d'[q] = d[q]) /\ RangedIn(r)'
  BY <1>0, <1>1, OptFacts DEF Typed, Open, NextSet, Goto, InSet, OutsidePhase, RangedIn, InSets
<1>7. wo' \in WearOutType
  BY DEF Typed, Open, NextSet, Goto, InSet, OutsidePhase, WearOutType, MaxOf
<1>8. tally' \in TallyType
  BY TallyFacts DEF Typed, Open, NextSet, Goto, InSet, OutsidePhase
<1>9. faults' \in Nat
  BY FaultFacts DEF Typed, Open, NextSet, Goto, InSet, OutsidePhase
<1> QED
  BY <1>1, <1>2, <1>3, <1>4, <1>5, <1>6, <1>7, <1>8, <1>9 DEF Single, Alone, Same

LEMMA WriteStep ==
  ASSUME Typed, Ranged, NEW r \in Ranks, Write(r)
  PROVE  Single(r)
<1>0. RangedIn(r)
  BY DEF Ranged, RangedIn
<1>1. pc[r] = "write" /\ UNCHANGED <<opt, ph, arrived>>
  BY DEF Write, NextSet, Goto, InSet, OutsidePhase
<1>2. pc' \in [Ranks -> Labels] /\ Proceeds(r) /\ \A q \in Ranks : q # r => pc'[q] = pc[q]
  BY <1>1 DEF Typed, Write, NextSet, Goto, InSet, OutsidePhase, Proceeds, Labels, Filling, Working, Cleaning, Ending, InSets
<1>3. f' \in [Ranks -> Nat] /\ index' \in [Ranks -> Nat]
      /\ \A q \in Ranks : q # r => f'[q] = f[q] /\ index'[q] = index[q]
  BY DEF Typed, Write, NextSet, Goto, InSet, OutsidePhase
<1>4. total' \in [Ranks -> Nat] /\ \A q \in Ranks : q # r => total'[q] = total[q]
  BY DEF Typed, Write, NextSet, Goto, InSet, OutsidePhase, WearOutType
<1>5. contributed' \in [Ranks -> BOOLEAN]
      /\ \A q \in Ranks : q # r => contributed'[q] = contributed[q]
  BY DEF Typed, Write, NextSet, Goto, InSet, OutsidePhase
<1>6. d' \in [Ranks -> Nat] /\ (\A q \in Ranks : q # r => d'[q] = d[q]) /\ RangedIn(r)'
  BY <1>0, <1>1, OptFacts DEF Typed, Write, NextSet, Goto, InSet, OutsidePhase, RangedIn, InSets
<1>7. wo' \in WearOutType
  BY DEF Typed, Write, NextSet, Goto, InSet, OutsidePhase, WearOutType, MaxOf
<1>8. tally' \in TallyType
  BY TallyFacts DEF Typed, Write, NextSet, Goto, InSet, OutsidePhase
<1>9. faults' \in Nat
  BY FaultFacts DEF Typed, Write, NextSet, Goto, InSet, OutsidePhase
<1> QED
  BY <1>1, <1>2, <1>3, <1>4, <1>5, <1>6, <1>7, <1>8, <1>9 DEF Single, Alone, Same

LEMMA LapStep ==
  ASSUME Typed, Ranged, NEW r \in Ranks, Lap(r)
  PROVE  Single(r)
<1>0. RangedIn(r)
  BY DEF Ranged, RangedIn
<1>1. pc[r] = "lap" /\ UNCHANGED <<opt, ph, arrived>>
  BY DEF Lap, LoopHead, NextSet, Goto, LoopFrame, OutsidePhase
<1>2. pc' \in [Ranks -> Labels] /\ Proceeds(r) /\ \A q \in Ranks : q # r => pc'[q] = pc[q]
  BY <1>1 DEF Typed, Lap, LoopHead, NextSet, Goto, LoopFrame, OutsidePhase, Proceeds, Labels, Filling, Working, Cleaning, Ending, InSets
<1>3. f' \in [Ranks -> Nat] /\ index' \in [Ranks -> Nat]
      /\ \A q \in Ranks : q # r => f'[q] = f[q] /\ index'[q] = index[q]
  BY DEF Typed, Lap, LoopHead, NextSet, Goto, LoopFrame, OutsidePhase
<1>4. total' \in [Ranks -> Nat] /\ \A q \in Ranks : q # r => total'[q] = total[q]
  BY DEF Typed, Lap, LoopHead, NextSet, Goto, LoopFrame, OutsidePhase, WearOutType
<1>5. contributed' \in [Ranks -> BOOLEAN]
      /\ \A q \in Ranks : q # r => contributed'[q] = contributed[q]
  BY DEF Typed, Lap, LoopHead, NextSet, Goto, LoopFrame, OutsidePhase
<1>6. d' \in [Ranks -> Nat] /\ (\A q \in Ranks : q # r => d'[q] = d[q]) /\ RangedIn(r)'
  BY <1>0, <1>1, OptFacts DEF Typed, Lap, LoopHead, NextSet, Goto, LoopFrame, OutsidePhase, RangedIn, InSets
<1>7. wo' \in WearOutType
  BY DEF Typed, Lap, LoopHead, NextSet, Goto, LoopFrame, OutsidePhase, WearOutType, MaxOf
<1>8. tally' \in TallyType
  BY TallyFacts DEF Typed, Lap, LoopHead, NextSet, Goto, LoopFrame, OutsidePhase
<1>9. faults' \in Nat
  BY FaultFacts DEF Typed, Lap, LoopHead, NextSet, Goto, LoopFrame, OutsidePhase
<1> QED
  BY <1>1, <1>2, <1>3, <1>4, <1>5, <1>6, <1>7, <1>8, <1>9 DEF Single, Alone, Same

LEMMA ContributeStep ==
  ASSUME Typed, Ranged, NEW r \in Ranks, Contribute(r)
  PROVE  Single(r)
<1>0. RangedIn(r)
  BY DEF Ranged, RangedIn
<1>1. pc[r] = "count" /\ UNCHANGED <<opt, ph, arrived>>
  BY DEF Contribute, Goto, LoopFrame, OutsidePhase
<1>2. pc' \in [Ranks -> Labels] /\ Proceeds(r) /\ \A q \in Ranks : q # r => pc'[q] = pc[q]
  BY <1>1 DEF Typed, Contribute, Goto, LoopFrame, OutsidePhase, Proceeds, Labels, Filling, Working, Cleaning, Ending, InSets
<1>3. f' \in [Ranks -> Nat] /\ index' \in [Ranks -> Nat]
      /\ \A q \in Ranks : q # r => f'[q] = f[q] /\ index'[q] = index[q]
  BY DEF Typed, Contribute, Goto, LoopFrame, OutsidePhase
<1>4. total' \in [Ranks -> Nat] /\ \A q \in Ranks : q # r => total'[q] = total[q]
  BY DEF Typed, Contribute, Goto, LoopFrame, OutsidePhase, WearOutType
<1>5. contributed' \in [Ranks -> BOOLEAN]
      /\ \A q \in Ranks : q # r => contributed'[q] = contributed[q]
  BY DEF Typed, Contribute, Goto, LoopFrame, OutsidePhase
<1>6. d' \in [Ranks -> Nat] /\ (\A q \in Ranks : q # r => d'[q] = d[q]) /\ RangedIn(r)'
  BY <1>0, <1>1, OptFacts DEF Typed, Contribute, Goto, LoopFrame, OutsidePhase, RangedIn, InSets
<1>7. wo' \in WearOutType
  BY DEF Typed, Contribute, Goto, LoopFrame, OutsidePhase, WearOutType, MaxOf
<1>8. tally' \in TallyType
  BY TallyFacts DEF Typed, Contribute, Goto, LoopFrame, OutsidePhase
<1>9. faults' \in Nat
  BY FaultFacts DEF Typed, Contribute, Goto, LoopFrame, OutsidePhase
<1> QED
  BY <1>1, <1>2, <1>3, <1>4, <1>5, <1>6, <1>7, <1>8, <1>9 DEF Single, Alone, Same

LEMMA SpinStep ==
  ASSUME Typed, Ranged, NEW r \in Ranks, Spin(r)
  PROVE  Single(r)
<1>0. RangedIn(r)
  BY DEF Ranged, RangedIn
<1>1. pc[r] = "spin" /\ UNCHANGED <<opt, ph, arrived>>
  BY DEF Spin, LoopHead, NextSet, Goto, LoopFrame, OutsidePhase
<1>2. pc' \in [Ranks -> Labels] /\ Proceeds(r) /\ \A q \in Ranks : q # r => pc'[q] = pc[q]
  BY <1>1 DEF Typed, Spin, LoopHead, NextSet, Goto, LoopFrame, OutsidePhase, Proceeds, Labels, Filling, Working, Cleaning, Ending, InSets
<1>3. f' \in [Ranks -> Nat] /\ index' \in [Ranks -> Nat]
      /\ \A q \in Ranks : q # r => f'[q] = f[q] /\ index'[q] = index[q]
  BY DEF Typed, Spin, LoopHead, NextSet, Goto, LoopFrame, OutsidePhase
<1>4. total' \in [Ranks -> Nat] /\ \A q \in Ranks : q # r => total'[q] = total[q]
  BY DEF Typed, Spin, LoopHead, NextSet, Goto, LoopFrame, OutsidePhase, WearOutType
<1>5. contributed' \in [Ranks -> BOOLEAN]
      /\ \A q \in Ranks : q # r => contributed'[q] = contributed[q]
  BY DEF Typed, Spin, LoopHead, NextSet, Goto, LoopFrame, OutsidePhase
<1>6. d' \in [Ranks -> Nat] /\ (\A q \in Ranks : q # r => d'[q] = d[q]) /\ RangedIn(r)'
  BY <1>0, <1>1, OptFacts DEF Typed, Spin, LoopHead, NextSet, Goto, LoopFrame, OutsidePhase, RangedIn, InSets
<1>7. wo' \in WearOutType
  BY DEF Typed, Spin, LoopHead, NextSet, Goto, LoopFrame, OutsidePhase, WearOutType, MaxOf
<1>8. tally' \in TallyType
  BY TallyFacts DEF Typed, Spin, LoopHead, NextSet, Goto, LoopFrame, OutsidePhase
<1>9. faults' \in Nat
  BY FaultFacts DEF Typed, Spin, LoopHead, NextSet, Goto, LoopFrame, OutsidePhase
<1> QED
  BY <1>1, <1>2, <1>3, <1>4, <1>5, <1>6, <1>7, <1>8, <1>9 DEF Single, Alone, Same

LEMMA LeaveStep ==
  ASSUME Typed, Ranged, NEW r \in Ranks, Leave(r)
  PROVE  Single(r)
<1>0. RangedIn(r)
  BY DEF Ranged, RangedIn
<1>1. pc[r] = "leave" /\ UNCHANGED <<opt, ph, arrived>>
  BY DEF Leave, Goto, OutsidePhase
<1>2. pc' \in [Ranks -> Labels] /\ Proceeds(r) /\ \A q \in Ranks : q # r => pc'[q] = pc[q]
  BY <1>1 DEF Typed, Leave, Goto, OutsidePhase, Proceeds, Labels, Filling, Working, Cleaning, Ending, InSets
<1>3. f' \in [Ranks -> Nat] /\ index' \in [Ranks -> Nat]
      /\ \A q \in Ranks : q # r => f'[q] = f[q] /\ index'[q] = index[q]
  BY DEF Typed, Leave, Goto, OutsidePhase
<1>4. total' \in [Ranks -> Nat] /\ \A q \in Ranks : q # r => total'[q] = total[q]
  BY DEF Typed, Leave, Goto, OutsidePhase, WearOutType
<1>5. contributed' \in [Ranks -> BOOLEAN]
      /\ \A q \in Ranks : q # r => contributed'[q] = contributed[q]
  BY DEF Typed, Leave, Goto, OutsidePhase
<1>6. d' \in [Ranks -> Nat] /\ (\A q \in Ranks : q # r => d'[q] = d[q]) /\ RangedIn(r)'
  BY <1>0, <1>1, OptFacts DEF Typed, Leave, Goto, OutsidePhase, RangedIn, InSets
<1>7. wo' \in WearOutType
  BY DEF Typed, Leave, Goto, OutsidePhase, WearOutType, MaxOf
<1>8. tally' \in TallyType
  BY TallyFacts DEF Typed, Leave, Goto, OutsidePhase
<1>9. faults' \in Nat
  BY FaultFacts DEF Typed, Leave, Goto, OutsidePhase
<1> QED
  BY <1>1, <1>2, <1>3, <1>4, <1>5, <1>6, <1>7, <1>8, <1>9 DEF Single, Alone, Same

LEMMA SweepStep ==
  ASSUME Typed, Ranged, NEW r \in Ranks, Sweep(r)
  PROVE  Single(r)
<1>0. RangedIn(r)
  BY DEF Ranged, RangedIn
<1>1. pc[r] = "sweep" /\ UNCHANGED <<opt, ph, arrived>>
  BY DEF Sweep, Goto, CleanupFrame, OutsidePhase
<1>2. pc' \in [Ranks -> Labels] /\ Proceeds(r) /\ \A q \in Ranks : q # r => pc'[q] = pc[q]
  BY <1>1 DEF Typed, Sweep, Goto, CleanupFrame, OutsidePhase, Proceeds, Labels, Filling, Working, Cleaning, Ending, InSets
<1>3. f' \in [Ranks -> Nat] /\ index' \in [Ranks -> Nat]
      /\ \A q \in Ranks : q # r => f'[q] = f[q] /\ index'[q] = index[q]
  BY DEF Typed, Sweep, Goto, CleanupFrame, OutsidePhase
<1>4. total' \in [Ranks -> Nat] /\ \A q \in Ranks : q # r => total'[q] = total[q]
  BY DEF Typed, Sweep, Goto, CleanupFrame, OutsidePhase, WearOutType
<1>5. contributed' \in [Ranks -> BOOLEAN]
      /\ \A q \in Ranks : q # r => contributed'[q] = contributed[q]
  BY DEF Typed, Sweep, Goto, CleanupFrame, OutsidePhase
<1>6. d' \in [Ranks -> Nat] /\ (\A q \in Ranks : q # r => d'[q] = d[q]) /\ RangedIn(r)'
  BY <1>0, <1>1, OptFacts DEF Typed, Sweep, Goto, CleanupFrame, OutsidePhase, RangedIn, InSets
<1>7. wo' \in WearOutType
  BY DEF Typed, Sweep, Goto, CleanupFrame, OutsidePhase, WearOutType, MaxOf
<1>8. tally' \in TallyType
  BY TallyFacts DEF Typed, Sweep, Goto, CleanupFrame, OutsidePhase
<1>9. faults' \in Nat
  BY FaultFacts DEF Typed, Sweep, Goto, CleanupFrame, OutsidePhase
<1> QED
  BY <1>1, <1>2, <1>3, <1>4, <1>5, <1>6, <1>7, <1>8, <1>9 DEF Single, Alone, Same

LEMMA RmdirStep ==
  ASSUME Typed, Ranged, NEW r \in Ranks, Rmdir(r)
  PROVE  Single(r)
<1>0. RangedIn(r)
  BY DEF Ranged, RangedIn
<1>1. pc[r] = "rmdir" /\ UNCHANGED <<opt, ph, arrived>>
  BY DEF Rmdir, NextSet, Goto, CleanupFrame, OutsidePhase
<1>2. pc' \in [Ranks -> Labels] /\ Proceeds(r) /\ \A q \in Ranks : q # r => pc'[q] = pc[q]
  BY <1>1 DEF Typed, Rmdir, NextSet, Goto, CleanupFrame, OutsidePhase, Proceeds, Labels, Filling, Working, Cleaning, Ending, InSets
<1>3. f' \in [Ranks -> Nat] /\ index' \in [Ranks -> Nat]
      /\ \A q \in Ranks : q # r => f'[q] = f[q] /\ index'[q] = index[q]
  BY DEF Typed, Rmdir, NextSet, Goto, CleanupFrame, OutsidePhase
<1>4. total' \in [Ranks -> Nat] /\ \A q \in Ranks : q # r => total'[q] = total[q]
  BY DEF Typed, Rmdir, NextSet, Goto, CleanupFrame, OutsidePhase, WearOutType
<1>5. contributed' \in [Ranks -> BOOLEAN]
      /\ \A q \in Ranks : q # r => contributed'[q] = contributed[q]
  BY DEF Typed, Rmdir, NextSet, Goto, CleanupFrame, OutsidePhase
<1>6. d' \in [Ranks -> Nat] /\ (\A q \in Ranks : q # r => d'[q] = d[q]) /\ RangedIn(r)'
  BY <1>0, <1>1, OptFacts DEF Typed, Rmdir, NextSet, Goto, CleanupFrame, OutsidePhase, RangedIn, InSets
<1>7. wo' \in WearOutType
  BY DEF Typed, Rmdir, NextSet, Goto, CleanupFrame, OutsidePhase, WearOutType, MaxOf
<1>8. tally' \in TallyType
  BY TallyFacts DEF Typed, Rmdir, NextSet, Goto, CleanupFrame, OutsidePhase
<1>9. faults' \in Nat
  BY FaultFacts DEF Typed, Rmdir, NextSet, Goto, CleanupFrame, OutsidePhase
<1> QED
  BY <1>1, <1>2, <1>3, <1>4, <1>5, <1>6, <1>7, <1>8, <1>9 DEF Single, Alone, Same

LEMMA RmPrefixStep ==
  ASSUME Typed, Ranged, NEW r \in Ranks, RmPrefix(r)
  PROVE  Single(r)
<1>0. RangedIn(r)
  BY DEF Ranged, RangedIn
<1>1. pc[r] = "rmprefix" /\ UNCHANGED <<opt, ph, arrived>>
  BY DEF RmPrefix, Goto, CleanupFrame, OutsidePhase
<1>2. pc' \in [Ranks -> Labels] /\ Proceeds(r) /\ \A q \in Ranks : q # r => pc'[q] = pc[q]
  BY <1>1 DEF Typed, RmPrefix, Goto, CleanupFrame, OutsidePhase, Proceeds, Labels, Filling, Working, Cleaning, Ending, InSets
<1>3. f' \in [Ranks -> Nat] /\ index' \in [Ranks -> Nat]
      /\ \A q \in Ranks : q # r => f'[q] = f[q] /\ index'[q] = index[q]
  BY DEF Typed, RmPrefix, Goto, CleanupFrame, OutsidePhase
<1>4. total' \in [Ranks -> Nat] /\ \A q \in Ranks : q # r => total'[q] = total[q]
  BY DEF Typed, RmPrefix, Goto, CleanupFrame, OutsidePhase, WearOutType
<1>5. contributed' \in [Ranks -> BOOLEAN]
      /\ \A q \in Ranks : q # r => contributed'[q] = contributed[q]
  BY DEF Typed, RmPrefix, Goto, CleanupFrame, OutsidePhase
<1>6. d' \in [Ranks -> Nat] /\ (\A q \in Ranks : q # r => d'[q] = d[q]) /\ RangedIn(r)'
  BY <1>0, <1>1, OptFacts DEF Typed, RmPrefix, Goto, CleanupFrame, OutsidePhase, RangedIn, InSets
<1>7. wo' \in WearOutType
  BY DEF Typed, RmPrefix, Goto, CleanupFrame, OutsidePhase, WearOutType, MaxOf
<1>8. tally' \in TallyType
  BY TallyFacts DEF Typed, RmPrefix, Goto, CleanupFrame, OutsidePhase
<1>9. faults' \in Nat
  BY FaultFacts DEF Typed, RmPrefix, Goto, CleanupFrame, OutsidePhase
<1> QED
  BY <1>1, <1>2, <1>3, <1>4, <1>5, <1>6, <1>7, <1>8, <1>9 DEF Single, Alone, Same

\* a rank arrives and waits
Arrive(r) ==
  /\ pc[r] \in {"gate", "exit"}
  /\ arrived' = arrived \cup {r}
  /\ UNCHANGED <<ph, pc, f, d, total, contributed, wo>>

\* where a phase starts
First ==
  IF Plan[ph] = "precreate" THEN IF opt.dsets > 0 THEN "mkdir" ELSE "exit"
  ELSE IF Plan[ph] = "benchmark"
         THEN IF opt.num > 0 THEN IF opt.dsets > 0 THEN "stat" ELSE "lap" ELSE "leave"
         ELSE IF opt.dsets = 0 THEN "exit"
              ELSE IF opt.precreate > 0 THEN "sweep" ELSE "rmdir"

OpenIn ==
  /\ AllGate /\ ph <= Len(Plan)
  /\ arrived' = {}
  /\ pc' = [q \in Ranks |-> First]
  /\ EnterPhase

OpenOut ==
  /\ (\A q \in Ranks : pc[q] = "exit") /\ ph <= Len(Plan)
  /\ arrived' = {}
  /\ pc' = [q \in Ranks |-> IF ph < Len(Plan) THEN "gate"
                            ELSE IF Plan[ph] = "cleanup" /\ q = 0 THEN "rmprefix" ELSE "done"]
  /\ ph' = ph + 1
  /\ UNCHANGED <<f, d, total, contributed, wo>>

LEMMA PhaseFacts ==
  ASSUME InStep
  PROVE  /\ ph <= Len(Plan) => Plan[ph] \in Phases
         /\ Len(Plan) \in Nat /\ ph \in Nat /\ ph >= 1
<1>1. opt \in OptionType /\ ph \in 1..Len(Plan) + 1
  BY DEF InStep, Typed, Lockstep
<1>2. /\ Len(Plan) \in Nat
      /\ \A i \in 1..Len(Plan) :
              Plan[i] = IF i <= Before THEN "precreate"
                        ELSE IF i <= Until THEN "benchmark" ELSE "cleanup"
  BY <1>1, PlanFacts
<1>3. ph <= Len(Plan) => ph \in 1..Len(Plan)
  BY <1>1, <1>2
<1> QED
  BY <1>1, <1>2, <1>3 DEF Phases

LEMMA BarrierStep ==
  ASSUME InStep, NEW r \in Ranks, BarrierWait(r)
  PROVE  /\ UNCHANGED <<opt, index, fs, tally, faults, aborted, main>>
         /\ main = "join"
         /\ Arrive(r) \/ OpenIn \/ OpenOut
<1>1. UNCHANGED <<opt, index, fs, tally, faults, aborted, main>> /\ main = "join"
  BY DEF BarrierWait
<1>2. CASE arrived \cup {r} # Ranks
  BY <1>2 DEF BarrierWait, Arrive
<1>3. CASE arrived \cup {r} = Ranks
  <2>1. /\ arrived' = {}
        /\ pc' = [q \in Ranks |-> Opened(q)]
        /\ IF pc[r] = "gate"
             THEN EnterPhase
             ELSE /\ ph' = ph + 1
                  /\ UNCHANGED <<f, d, total, contributed, wo>>
    BY <1>3 DEF BarrierWait
  <2>2. \A q \in Ranks : pc[q] \in {"gate", "exit"}
    BY <1>3 DEF InStep, Waiting, BarrierWait
  <2>3. ph <= Len(Plan) /\ (AllGate \/ \A q \in Ranks : pc[q] = "exit")
    <3>1. (ph <= Len(Plan) /\ (AllGate \/ AllIn)) \/ AllOut
      BY DEF InStep, Lockstep
    <3>2. ~AllOut
      BY <2>2 DEF AllOut, Ending
    <3>3. AllIn => \A q \in Ranks : pc[q] # "gate"
      BY DEF AllIn, LabelsOf, Filling, Working, Cleaning, InSets
    <3> QED
      BY <2>2, <3>1, <3>2, <3>3
  <2>4. Plan[ph] \in Phases
    BY <2>3, PhaseFacts
  <2>5. CASE AllGate
    <3>1. pc[r] = "gate" /\ \A q \in Ranks : pc[q] = "gate"
      BY <2>5 DEF AllGate
    <3>2. \A q \in Ranks : Opened(q) = First
      BY <2>4, <3>1 DEF Opened, First, Phases
    <3> QED
      BY <1>1, <2>1, <2>3, <2>5, <3>1, <3>2 DEF OpenIn
  <2>6. CASE \A q \in Ranks : pc[q] = "exit"
    <3>1. pc[r] # "gate"
      BY <2>6
    <3>2. \A q \in Ranks : Opened(q) = IF ph < Len(Plan) THEN "gate"
             ELSE IF Plan[ph] = "cleanup" /\ q = 0 THEN "rmprefix" ELSE "done"
      BY <2>6 DEF Opened
    <3> QED
      BY <1>1, <2>1, <2>3, <2>6, <3>1, <3>2 DEF OpenOut
  <2> QED
    BY <2>3, <2>5, <2>6
<1> QED
  BY <1>1, <1>2, <1>3

\* a step of Next, by what it does to the ranks
MainStep ==
  /\ UNCHANGED <<opt, ph, pc, index, f, d, total, contributed, wo, arrived, tally, aborted>>
  /\ faults' \in Nat

Work(r) ==
  \/ Mkdir(r) \/ Fill(r)
  \/ Stat(r) \/ Read(r) \/ Unlink(r) \/ Open(r) \/ Write(r)
  \/ Lap(r) \/ Contribute(r) \/ Spin(r) \/ Leave(r)
  \/ Sweep(r) \/ Rmdir(r) \/ RmPrefix(r)

LEMMA WorkStep ==
  ASSUME Typed, Ranged, NEW r \in Ranks, Work(r)
  PROVE  Single(r)
BY MkdirStep, FillStep, StatStep, ReadStep, UnlinkStep, OpenStep, WriteStep,
   LapStep, ContributeStep, SpinStep, LeaveStep, SweepStep, RmdirStep, RmPrefixStep
   DEF Work

LEMMA NextCases ==
  ASSUME Typed, [Next]_vars
  PROVE  \/ MainStep
         \/ \E r \in Ranks : BarrierWait(r) \/ Work(r)
<1>1. CASE Setup
  BY <1>1, FaultFacts DEF Setup, MainStep
<1>2. CASE Report
  BY <1>2, FaultFacts DEF Report, MainStep
<1>3. CASE UNCHANGED vars
  BY <1>3, FaultFacts DEF vars, MainStep
<1>4. CASE Finished
  BY <1>4, <1>3 DEF Finished
<1>5. CASE \E r \in Ranks : Rank(r)
  BY <1>5 DEF Rank, Work
<1> QED
  BY <1>1, <1>2, <1>3, <1>4, <1>5 DEF Next

LEMMA SamePlan ==
  ASSUME opt' = opt
  PROVE  Plan' = Plan
BY DEF Plan

LEMMA InStepInit == Init => InStep
<1> SUFFICES ASSUME Init PROVE InStep
  OBVIOUS
<1>1. opt \in OptionType /\ opt.dsets \in Nat /\ opt.start \in Nat
  BY MdworkbenchAssumption DEF Init, OptionType
<1>2. /\ Len(Plan) \in Nat /\ (Plan = <<>> <=> Len(Plan) = 0)
  BY <1>1, PlanFacts
<1>3. Typed
  <2>1. faults \in Nat
    BY MdworkbenchAssumption DEF Init
  <2>2. pc \in [Ranks -> Labels]
    BY DEF Init, Labels, Ending
  <2>3. wo \in WearOutType /\ tally \in TallyType
    BY DEF Init, WearOutType, TallyType, NewWearOut
  <2> QED
    BY <1>1, <2>1, <2>2, <2>3 DEF Typed, Init
<1>4. Ranged /\ Waiting
  BY <1>1 DEF Init, Ranged, Waiting, InSets
<1>5. Lockstep
  BY <1>2 DEF Init, Lockstep, AllGate, AllOut, Ending
<1> QED
  BY <1>3, <1>4, <1>5 DEF InStep

LEMMA InStepNext == InStep /\ [Next]_vars => InStep'
<1> SUFFICES ASSUME InStep, [Next]_vars PROVE InStep'
  OBVIOUS
<1>1. Typed /\ Ranged /\ Lockstep /\ Waiting
  BY DEF InStep
<1>2. CASE MainStep
  BY <1>1, <1>2 DEF MainStep, InStep, Typed, Ranged, Lockstep, Waiting, AllGate, AllIn,
     AllOut, Plan
<1>3. ASSUME NEW r \in Ranks, Work(r) PROVE InStep'
  <2>1. Single(r) /\ Alone(r) /\ Proceeds(r) /\ RangedIn(r)'
    BY <1>1, <1>3, WorkStep DEF Single
  <2>2. Typed'
    BY <1>1, <2>1 DEF Typed, Alone
  <2>3. Ranged'
    <3>1. \A q \in Ranks : q # r => RangedIn(q)'
      BY <1>1, <2>1 DEF Alone, Same, Ranged, RangedIn
    <3> QED
      BY <2>1, <3>1 DEF Ranged, RangedIn
  <2>4. Plan' = Plan /\ ph' = ph /\ arrived' = arrived
    BY <2>1, SamePlan DEF Alone
  <2>5. \A q \in Ranks : q # r => pc'[q] = pc[q]
    BY <2>1 DEF Alone, Same
  <2>6. Waiting'
    <3>1. pc[r] \notin {"gate", "exit"}
      BY <2>1 DEF Proceeds, Filling, Working, Cleaning, InSets
    <3> QED
      BY <1>1, <2>4, <2>5, <3>1 DEF Waiting, Typed
  <2>7. Lockstep'
    <3>1. CASE ph <= Len(Plan) /\ AllGate
      BY <2>1, <3>1 DEF AllGate, Proceeds, Filling, Working, Cleaning, InSets
    <3>2. CASE ph <= Len(Plan) /\ AllIn
      <4>1. pc[r] \in LabelsOf(Plan[ph])
        BY <3>2 DEF AllIn
      <4>2. pc'[r] \in LabelsOf(Plan[ph])
        BY <2>1, <4>1 DEF Proceeds, LabelsOf, Filling, Working, Cleaning, InSets
      <4> QED
        BY <1>1, <2>4, <2>5, <3>2, <4>2 DEF Lockstep, AllIn
    <3>3. CASE ph = Len(Plan) + 1 /\ AllOut
      <4>1. pc'[r] \in Ending
        BY <2>1, <3>3 DEF AllOut, Ending, Proceeds, Filling, Working, Cleaning, InSets
      <4> QED
        BY <1>1, <2>4, <2>5, <3>3, <4>1 DEF Lockstep, AllOut
    <3> QED
      BY <1>1, <3>1, <3>2, <3>3 DEF Lockstep
  <2> QED
    BY <2>2, <2>3, <2>6, <2>7 DEF InStep
<1>4. ASSUME NEW r \in Ranks, BarrierWait(r) PROVE InStep'
  <2>1. /\ UNCHANGED <<opt, index, fs, tally, faults, aborted, main>>
        /\ Arrive(r) \/ OpenIn \/ OpenOut
    BY <1>4, BarrierStep
  <2>2. Plan' = Plan /\ Len(Plan) \in Nat /\ ph \in Nat /\ ph >= 1
        /\ (ph <= Len(Plan) => Plan[ph] \in Phases)
    BY <2>1, SamePlan, PhaseFacts
  <2>3. CASE Arrive(r)
    <3>1. Typed' /\ Ranged' /\ Waiting'
      BY <1>1, <2>1, <2>3 DEF Arrive, Typed, Ranged, Waiting
    <3>2. Lockstep'
      BY <1>1, <2>2, <2>3 DEF Arrive, Lockstep, AllGate, AllIn, AllOut
    <3> QED
      BY <3>1, <3>2 DEF InStep
  <2>4. CASE OpenIn
    <3>1. ph <= Len(Plan) /\ Plan[ph] \in Phases /\ ph' = ph
      BY <2>2, <2>4 DEF OpenIn, EnterPhase
    <3>2. First \in LabelsOf(Plan[ph]) /\ First \in Labels \ {"fill"}
          /\ (First \in InSets \cup {"mkdir", "sweep", "rmdir"} => opt.dsets > 0)
      BY <3>1, OptFacts, <1>1 DEF First, LabelsOf, Phases, Filling, Working, Cleaning,
         InSets, Labels
    <3>3. pc' = [q \in Ranks |-> First] /\ arrived' = {} /\ EnterPhase
      BY <2>4 DEF OpenIn
    <3> HIDE DEF First
    <3>4. Typed'
      BY <1>1, <2>1, <3>1, <3>2, <3>3, OptFacts
         DEF Typed, EnterPhase, NewWearOut, WearOutType
    <3>5. Ranged' /\ Waiting'
      BY <1>1, <2>1, <3>2, <3>3, OptFacts DEF Ranged, Waiting, EnterPhase
    <3>6. Lockstep'
      BY <2>2, <3>1, <3>2, <3>3 DEF Lockstep, AllIn
    <3> QED
      BY <3>4, <3>5, <3>6 DEF InStep
  <2>5. CASE OpenOut
    <3>1. ph <= Len(Plan) /\ ph' = ph + 1 /\ ph' \in Nat
      BY <2>2, <2>5 DEF OpenOut
    <3>2. pc' = [q \in Ranks |-> IF ph < Len(Plan) THEN "gate"
             ELSE IF Plan[ph] = "cleanup" /\ q = 0 THEN "rmprefix" ELSE "done"]
          /\ arrived' = {} /\ UNCHANGED <<f, d, total, contributed, wo>>
      BY <2>5 DEF OpenOut
    <3>3. pc' \in [Ranks -> {"gate", "rmprefix", "done"}]
      BY <3>2
    <3>4. Typed'
      <4>1. pc' \in [Ranks -> Labels]
        BY <3>3 DEF Labels, Ending
      <4> QED
        BY <1>1, <2>1, <3>1, <3>2, <4>1 DEF Typed
    <3>5. Ranged' /\ Waiting'
      BY <1>1, <2>1, <3>2, <3>3 DEF Ranged, Waiting, InSets
    <3>6. Lockstep'
      <4>1. CASE ph < Len(Plan)
        BY <2>2, <3>1, <3>2, <4>1 DEF Lockstep, AllGate
      <4>2. CASE ph = Len(Plan)
        BY <2>2, <3>1, <3>2, <4>2 DEF Lockstep, AllOut, Ending
      <4> QED
        BY <2>2, <3>1, <4>1, <4>2
    <3> QED
      BY <3>4, <3>5, <3>6 DEF InStep
  <2> QED
    BY <2>1, <2>3, <2>4, <2>5
<1> QED
  BY <1>1, <1>2, <1>3, <1>4, NextCases

LEMMA InStepInvariance == Spec => []InStep
BY InStepInit, InStepNext, PTL DEF Spec

-----------------------------------------------------------------------------
(* The wear-out: the limit is fixed when the first rank leaves the spin    *)
(* loop, because every rank has then contributed a position or is gone.    *)

Contributors == {r \in Ranks : pc[r] = "spin" \/ contributed[r]}
Gone == {r \in Ranks : pc[r] = "exit"}

\* a rank that has contributed counts up to the limit, one that is about to is below
WearIn(r) ==
  /\ contributed[r] =>
       /\ opt.timer /\ opt.wear /\ total[r] = wo.total
       /\ pc[r] \notin {"mkdir", "fill", "sweep", "rmdir", "count", "spin"}
       /\ pc[r] \in InSets \cup {"lap"} => f[r] < wo.total
       /\ pc[r] = "leave" \/ (pc[r] = "exit" /\ r \notin aborted) => f[r] = wo.total
  /\ pc[r] \in {"count", "spin"} => f[r] < wo.total /\ opt.timer /\ opt.wear

Inside == \A r \in Ranks : pc[r] \notin Ending \cup {"gate"}

\* no rank is counted twice before the first one leaves the spin loop
WearCounts ==
  /\ wo.contributors = Cardinality(Contributors)
  /\ Inside =>
       /\ wo.finished <= Cardinality(Gone)
       /\ (\E r \in Ranks : contributed[r]) => Contributors \cup Gone = Ranks

Wear == (\A r \in Ranks : WearIn(r)) /\ WearCounts

LEMMA RanksFinite ==
  /\ IsFiniteSet(Ranks) /\ Cardinality(Ranks) = N
  /\ \A S \in SUBSET Ranks : IsFiniteSet(S) /\ Cardinality(S) \in Nat /\ Cardinality(S) <= N
<1>1. IsFiniteSet(Ranks) /\ Cardinality(Ranks) = N
  <2>1. N \in Nat /\ N > 0 /\ 0 \in Int /\ N - 1 \in Int
    BY MdworkbenchAssumption
  <2>2. IsFiniteSet(0..N-1) /\ Cardinality(0..N-1) = IF 0 > N - 1 THEN 0 ELSE (N - 1) - 0 + 1
    BY <2>1, FS_Interval
  <2> QED
    BY <2>1, <2>2 DEF Ranks
<1> QED
  BY <1>1, FS_Subset, FS_CardinalityType

LEMMA WearInit == Init => Wear
<1> SUFFICES ASSUME Init PROVE Wear
  OBVIOUS
<1>1. \A r \in Ranks : ~contributed[r] /\ pc[r] \in {"done", "gate"}
  BY DEF Init
<1>2. Contributors = {}
  BY <1>1 DEF Contributors
<1>3. wo.contributors = 0
  BY DEF Init, NewWearOut
<1>4. ~Inside
  <2>1. 0 \in Ranks
    BY MdworkbenchAssumption DEF Ranks
  <2> QED
    BY <1>1, <2>1 DEF Inside, Ending
<1> QED
  BY <1>1, <1>2, <1>3, <1>4, FS_EmptySet DEF Wear, WearIn, WearCounts

\* what the other ranks have is kept when the limit is
LEMMA WearInOthers ==
  ASSUME NEW r \in Ranks, Wear, Alone(r), aborted \subseteq aborted',
         wo'.total = wo.total \/ (wo'.total >= wo.total /\ \A q \in Ranks : ~contributed[q]),
         Typed
  PROVE  \A q \in Ranks : q # r => WearIn(q)'
<1> SUFFICES ASSUME NEW q \in Ranks, q # r PROVE WearIn(q)'
  OBVIOUS
<1>1. Same(q) /\ opt' = opt /\ WearIn(q)
  BY DEF Alone, Wear
<1>2. wo.total \in Nat /\ wo'.total \in Nat /\ f[q] \in Nat
  BY DEF Alone, Typed, WearOutType
<1>3. CASE wo'.total = wo.total
  BY <1>1, <1>3 DEF Same, WearIn
<1>4. CASE wo'.total >= wo.total /\ \A p \in Ranks : ~contributed[p]
  BY <1>1, <1>2, <1>4 DEF Same, WearIn
<1> QED
  BY <1>3, <1>4

\* the steps that do not touch the wear-out
Quiet(r) ==
  /\ UNCHANGED <<contributed, wo, total>> /\ aborted \subseteq aborted'
  /\ pc'[r] \notin {"spin", "count", "leave"}
  /\ \/ /\ pc[r] \in InSets /\ f'[r] = f[r]
        /\ pc'[r] \in InSets \cup {"lap"} \/ (pc'[r] = "exit" /\ r \in aborted')
     \/ pc[r] \in {"mkdir", "fill", "sweep", "rmdir"}
     \/ pc[r] = "rmprefix" /\ pc'[r] = "done"

LEMMA QuietWear ==
  ASSUME NEW r \in Ranks, Wear, Typed, Alone(r), Quiet(r)
  PROVE  Wear'
<1>1. \A q \in Ranks : q # r => WearIn(q)'
  BY WearInOthers DEF Quiet
<1>2. WearIn(r)'
  <2>1. WearIn(r) /\ opt' = opt
    BY DEF Wear, Alone
  <2> QED
    BY <2>1 DEF WearIn, Quiet, InSets
<1>3. pc[r] \notin {"spin", "exit"} /\ pc'[r] # "spin" /\ contributed' = contributed
      /\ wo' = wo /\ \A q \in Ranks : q # r => pc'[q] = pc[q]
  BY DEF Quiet, InSets, Alone, Same
<1>4. Contributors' = Contributors /\ Gone \subseteq Gone'
  BY <1>3 DEF Contributors, Gone
<1>5. Inside' => Inside
  BY <1>3 DEF Inside, Ending, Quiet, InSets
<1>6. Cardinality(Gone) <= Cardinality(Gone') /\ Cardinality(Gone) \in Nat
      /\ Cardinality(Gone') \in Nat /\ Gone' \subseteq Ranks
  BY <1>4, RanksFinite, FS_Subset DEF Gone
<1>7. wo.finished \in Nat
  BY DEF Typed, WearOutType
<1>8. WearCounts'
  BY <1>3, <1>4, <1>5, <1>6, <1>7 DEF Wear, WearCounts
<1> QED
  BY <1>1, <1>2, <1>8 DEF Wear

\* ... and the three that do
LEMMA LapWear ==
  ASSUME InStep, NEW r \in Ranks, Wear, Alone(r), Lap(r)
  PROVE  Wear'
<1>0. /\ WearIn(r) /\ Typed /\ opt' = opt
      /\ opt.timer \in BOOLEAN /\ opt.wear \in BOOLEAN
      /\ wo.total \in Nat /\ f[r] \in Nat /\ total[r] \in Nat
  BY OptFacts DEF Wear, Alone, InStep, Typed, WearOutType
<1>1. pc[r] = "lap" /\ UNCHANGED <<contributed, aborted>> /\ f'[r] = f[r] + 1
  BY <1>0 DEF Lap, LoopFrame, Typed
<1>2. /\ wo'.contributors = wo.contributors /\ wo'.finished = wo.finished
      /\ wo.finished \in Nat
      /\ pc'[r] \in InSets \cup {"lap", "leave", "count"}
  BY <1>0 DEF Lap, LoopHead, NextSet, Goto, Typed, WearOutType, InSets
<1>3. \A q \in Ranks : q # r => pc'[q] = pc[q]
  BY DEF Alone, Same
<1>4. Contributors' = Contributors /\ Gone' = Gone /\ Inside' = Inside
  <2>1. Inside' <=> Inside
    BY <1>1, <1>2, <1>3 DEF Inside, Ending, InSets
  <2> QED
    BY <1>1, <1>2, <1>3, <2>1 DEF Contributors, Gone, InSets, Inside
<1>5. WearCounts'
  BY <1>1, <1>2, <1>4 DEF Wear, WearCounts
<1>6. Inside
  <2>1. Plan[ph] \in Phases /\ AllIn
    BY <1>1, PhaseFacts DEF InStep, Lockstep, AllGate, AllOut, Ending
  <2> QED
    BY <2>1 DEF AllIn, Inside, LabelsOf, Filling, Working, Cleaning, InSets, Ending
<1>7. ~contributed[r] => \A q \in Ranks : ~contributed[q]
  <2>1. ~contributed[r] => r \notin Contributors \cup Gone
    BY <1>1 DEF Contributors, Gone
  <2> QED
    BY <1>6, <2>1 DEF Wear, WearCounts
<1>8. wo'.total = wo.total \/ (wo'.total >= wo.total /\ \A q \in Ranks : ~contributed[q])
  BY <1>0, <1>7 DEF Lap, MaxOf, Typed, WearOutType
<1>9. \A q \in Ranks : q # r => WearIn(q)'
  BY <1>0, <1>1, <1>8, WearInOthers
<1>10. WearIn(r)'
  <2>1. CASE contributed[r]
    <3>1. opt.timer /\ opt.wear /\ f[r] < wo.total /\ contributed'[r]
      BY <1>0, <1>1, <2>1 DEF WearIn
    <3>2. total' = [total EXCEPT ![r] = wo.total] /\ wo' = wo
          /\ LoopHead(r, f[r] + 1, wo.total)
      BY <2>1, <3>1 DEF Lap
    <3>3. total'[r] = wo.total
      BY <1>0, <3>2 DEF Typed
    <3>4. \/ f[r] + 1 < wo.total /\ pc'[r] \in {"stat", "lap"}
          \/ f[r] + 1 = wo.total /\ pc'[r] = "leave"
      BY <1>0, <3>1, <3>2 DEF LoopHead, NextSet, Goto, Typed
    <3> QED
      BY <1>0, <1>1, <3>1, <3>2, <3>3, <3>4 DEF WearIn, InSets
  <2>2. CASE ~contributed[r]
    <3>1. CASE pc'[r] = "count"
      <4>1. opt.timer /\ opt.wear /\ wo' = [wo EXCEPT !.total = MaxOf(@, f[r] + 2)]
        BY <1>0, <1>1, <2>2, <3>1 DEF Lap, LoopHead, NextSet, Goto, Typed
      <4>2. wo'.total = MaxOf(wo.total, f[r] + 2)
        BY <1>0, <4>1 DEF Typed, WearOutType
      <4>3. f'[r] < wo'.total
        BY <1>0, <1>1, <4>2 DEF MaxOf
      <4> QED
        BY <1>0, <1>1, <2>2, <4>1, <4>3 DEF WearIn
    <3>2. CASE pc'[r] # "count"
      BY <1>1, <1>2, <2>2, <3>2 DEF WearIn, InSets
    <3> QED
      BY <3>1, <3>2
  <2> QED
    BY <2>1, <2>2
<1> QED
  BY <1>5, <1>9, <1>10 DEF Wear

LEMMA ContributeWear ==
  ASSUME InStep, NEW r \in Ranks, Wear, Alone(r), Contribute(r)
  PROVE  Wear'
<1>0. WearIn(r) /\ Typed /\ opt' = opt
  BY DEF Wear, Alone, InStep
<1>1. /\ pc[r] = "count" /\ pc'[r] = "spin" /\ UNCHANGED <<contributed, aborted, f, total>>
      /\ wo' = [wo EXCEPT !.contributors = @ + 1]
  BY <1>0 DEF Contribute, LoopFrame, Goto, Typed
<1>2. /\ wo'.contributors = wo.contributors + 1 /\ wo'.finished = wo.finished
      /\ wo'.total = wo.total
  BY <1>0, <1>1 DEF Typed, WearOutType
<1>3. \A q \in Ranks : q # r => pc'[q] = pc[q]
  BY DEF Alone, Same
<1>4. Contributors' = Contributors \cup {r} /\ r \notin Contributors
  BY <1>0, <1>1, <1>3 DEF Contributors, WearIn
<1>5. Gone' = Gone /\ (Inside' <=> Inside)
  BY <1>1, <1>3 DEF Gone, Inside, Ending
<1>6. Cardinality(Contributors') = Cardinality(Contributors) + 1
  <2>1. IsFiniteSet(Contributors)
    BY RanksFinite DEF Contributors
  <2> QED
    BY <1>4, <2>1, FS_AddElement
<1>7. WearCounts'
  BY <1>1, <1>2, <1>4, <1>5, <1>6 DEF Wear, WearCounts
<1>8. \A q \in Ranks : q # r => WearIn(q)'
  BY <1>0, <1>1, <1>2, WearInOthers
<1>9. WearIn(r)'
  BY <1>0, <1>1, <1>2 DEF WearIn, InSets
<1> QED
  BY <1>7, <1>8, <1>9 DEF Wear

\* a rank in a phase sees every other in that phase
LEMMA InsidePhase ==
  ASSUME InStep, NEW r \in Ranks, pc[r] \notin Ending \cup {"gate"}
  PROVE  Inside /\ AllIn /\ ph <= Len(Plan) /\ Plan[ph] \in Phases
<1>1. ph <= Len(Plan) /\ Plan[ph] \in Phases /\ AllIn
  BY PhaseFacts DEF InStep, Lockstep, AllGate, AllOut, Ending
<1> QED
  BY <1>1 DEF AllIn, Inside, LabelsOf, Filling, Working, Cleaning, InSets, Ending

LEMMA SpinWear ==
  ASSUME InStep, NEW r \in Ranks, Wear, Alone(r), Spin(r)
  PROVE  Wear'
<1>0. /\ WearIn(r) /\ Typed /\ opt' = opt
      /\ wo.total \in Nat /\ f[r] \in Nat
      /\ wo.contributors \in Nat /\ wo.finished \in Nat
  BY DEF Wear, Alone, InStep, Typed, WearOutType
<1>1. /\ pc[r] = "spin" /\ UNCHANGED <<f, wo, aborted>>
      /\ wo.contributors + wo.finished >= N
      /\ contributed'[r] = TRUE /\ total'[r] = wo.total
      /\ \A q \in Ranks : q # r => contributed'[q] = contributed[q]
      /\ LoopHead(r, f[r], wo.total)
  BY <1>0 DEF Spin, LoopFrame, Typed
<1>2. f[r] < wo.total /\ opt.timer /\ opt.wear /\ ~contributed[r]
  BY <1>0, <1>1 DEF WearIn
<1>3. pc'[r] \in {"stat", "lap"}
  BY <1>0, <1>1, <1>2 DEF LoopHead, NextSet, Goto, Typed
<1>4. \A q \in Ranks : q # r => pc'[q] = pc[q]
  BY DEF Alone, Same
<1>5. Contributors' = Contributors /\ Gone' = Gone /\ (Inside' <=> Inside)
  BY <1>1, <1>3, <1>4 DEF Contributors, Gone, Inside, Ending
<1>6. Inside
  BY <1>1, InsidePhase DEF Ending
<1>7. Contributors \cup Gone = Ranks
  <2>1. CASE \E q \in Ranks : contributed[q]
    BY <1>6, <2>1 DEF Wear, WearCounts
  <2>2. CASE \A q \in Ranks : ~contributed[q]
    <3>1. Contributors \cap Gone = {}
      BY <2>2 DEF Contributors, Gone
    <3>2. /\ Contributors \subseteq Ranks /\ Gone \subseteq Ranks
          /\ Contributors \cup Gone \subseteq Ranks
      BY DEF Contributors, Gone
    <3>3. /\ IsFiniteSet(Contributors) /\ IsFiniteSet(Gone)
          /\ Cardinality(Contributors) \in Nat /\ Cardinality(Gone) \in Nat
      BY <3>2, RanksFinite
    <3>4. Cardinality(Contributors \cup Gone) = Cardinality(Contributors) + Cardinality(Gone)
      <4>1. Cardinality(Contributors \cup Gone)
              = Cardinality(Contributors) + Cardinality(Gone) - Cardinality(Contributors \cap Gone)
        BY <3>3, FS_Union
      <4>2. Cardinality(Contributors \cap Gone) = 0
        BY <3>1, FS_EmptySet
      <4> QED
        BY <3>3, <4>1, <4>2
    <3>5. Cardinality(Contributors) = wo.contributors /\ wo.finished <= Cardinality(Gone)
      BY <1>6 DEF Wear, WearCounts
    <3>6. Cardinality(Contributors \cup Gone) >= N /\ N \in Nat
      BY <1>0, <1>1, <3>3, <3>4, <3>5, MdworkbenchAssumption
    <3>7. Cardinality(Contributors \cup Gone) = Cardinality(Ranks)
      BY <3>2, <3>3, <3>4, <3>6, RanksFinite
    <3> QED
      BY <3>2, <3>7, RanksFinite, FS_Subset
  <2> QED
    BY <2>1, <2>2
<1>8. WearCounts'
  BY <1>1, <1>5, <1>6, <1>7 DEF Wear, WearCounts
<1>9. \A q \in Ranks : q # r => WearIn(q)'
  BY <1>0, <1>1, WearInOthers
<1>10. WearIn(r)'
  BY <1>0, <1>1, <1>2, <1>3 DEF WearIn, InSets
<1> QED
  BY <1>8, <1>9, <1>10 DEF Wear

LEMMA LeaveWear ==
  ASSUME InStep, NEW r \in Ranks, Wear, Alone(r), Leave(r)
  PROVE  Wear'
<1>0. /\ WearIn(r) /\ Typed /\ opt' = opt
      /\ wo.total \in Nat /\ f[r] \in Nat
      /\ wo.contributors \in Nat /\ wo.finished \in Nat
  BY DEF Wear, Alone, InStep, Typed, WearOutType
<1>1. /\ pc[r] = "leave" /\ pc'[r] = "exit"
      /\ UNCHANGED <<f, total, contributed, aborted>>
      /\ wo' = [wo EXCEPT !.finished = @ + 1]
  BY <1>0 DEF Leave, Goto, Typed
<1>2. /\ wo'.contributors = wo.contributors /\ wo'.finished = wo.finished + 1
      /\ wo'.total = wo.total
  BY <1>0, <1>1 DEF Typed, WearOutType
<1>3. \A q \in Ranks : q # r => pc'[q] = pc[q]
  BY DEF Alone, Same
<1>4. Contributors' = Contributors /\ (Inside' <=> Inside)
      /\ Gone' = Gone \cup {r} /\ r \notin Gone
  BY <1>1, <1>3 DEF Contributors, Gone, Inside, Ending
<1>5. Cardinality(Gone') = Cardinality(Gone) + 1 /\ Cardinality(Gone) \in Nat
  <2>1. IsFiniteSet(Gone) /\ Cardinality(Gone) \in Nat
    BY RanksFinite DEF Gone
  <2> QED
    BY <1>4, <2>1, FS_AddElement
<1>6. WearCounts'
  BY <1>0, <1>1, <1>2, <1>4, <1>5 DEF Wear, WearCounts
<1>7. \A q \in Ranks : q # r => WearIn(q)'
  BY <1>0, <1>1, <1>2, WearInOthers
<1>8. WearIn(r)'
  BY <1>0, <1>1, <1>2 DEF WearIn, InSets
<1> QED
  BY <1>6, <1>7, <1>8 DEF Wear

LEMMA QuietSteps ==
  ASSUME Typed, NEW r \in Ranks, Work(r),
         ~Lap(r), ~Contribute(r), ~Spin(r), ~Leave(r)
  PROVE  Quiet(r)
<1>1. CASE Mkdir(r)
  BY <1>1 DEF Typed, Quiet, InSets, Mkdir, StartFill, Goto, OutsidePhase
<1>2. CASE Fill(r)
  BY <1>2 DEF Typed, Quiet, InSets, Fill, NextFill, Goto, OutsidePhase
<1>3. CASE Stat(r)
  BY <1>3 DEF Typed, Quiet, InSets, Stat, NextSet, Goto, InSet, OutsidePhase
<1>4. CASE Read(r)
  BY <1>4 DEF Typed, Quiet, InSets, Read, NextSet, Goto, InSet, OutsidePhase
<1>5. CASE Unlink(r)
  BY <1>5 DEF Typed, Quiet, InSets, Unlink, Goto, InSet, OutsidePhase
<1>6. CASE Open(r)
  BY <1>6 DEF Typed, Quiet, InSets, Open, NextSet, Goto, InSet, OutsidePhase
<1>7. CASE Write(r)
  BY <1>7 DEF Typed, Quiet, InSets, Write, NextSet, Goto, InSet, OutsidePhase
<1>8. CASE Sweep(r)
  BY <1>8 DEF Typed, Quiet, InSets, Sweep, Goto, CleanupFrame
<1>9. CASE Rmdir(r)
  BY <1>9 DEF Typed, Quiet, InSets, Rmdir, NextSet, Goto, CleanupFrame
<1>10. CASE RmPrefix(r)
  BY <1>10 DEF Typed, Quiet, InSets, RmPrefix, Goto, CleanupFrame
<1> QED
  BY <1>1, <1>2, <1>3, <1>4, <1>5, <1>6, <1>7, <1>8, <1>9, <1>10 DEF Work

LEMMA WearNext == InStep /\ InStep' /\ Wear /\ [Next]_vars => Wear'
<1> SUFFICES ASSUME InStep, InStep', Wear, [Next]_vars PROVE Wear'
  OBVIOUS
<1>1. Typed /\ Ranged
  BY DEF InStep
<1>2. CASE MainStep
  BY <1>2 DEF MainStep, Wear, WearIn, WearCounts, Contributors, Gone, Inside
<1>3. ASSUME NEW r \in Ranks, Work(r) PROVE Wear'
  <2>1. Alone(r)
    BY <1>1, <1>3, WorkStep DEF Single
  <2> QED
    BY <1>1, <1>3, <2>1, LapWear, ContributeWear, SpinWear, LeaveWear, QuietSteps, QuietWear
<1>4. ASSUME NEW r \in Ranks, BarrierWait(r) PROVE Wear'
  <2>1. /\ opt' = opt /\ aborted' = aborted
        /\ Arrive(r) \/ OpenIn \/ OpenOut
    BY <1>4, BarrierStep
  <2>2. CASE Arrive(r)
    BY <2>1, <2>2 DEF Arrive, Wear, WearIn, WearCounts, Contributors, Gone, Inside
  <2>3. CASE OpenIn
    <3>1. /\ contributed' = [q \in Ranks |-> FALSE] /\ wo' = NewWearOut
          /\ pc' = [q \in Ranks |-> First] /\ First \notin {"count", "spin"}
      BY <2>3 DEF OpenIn, EnterPhase, First
    <3>2. \A q \in Ranks : ~contributed'[q] /\ pc'[q] \notin {"count", "spin"}
      BY <3>1
    <3>3. Contributors' = {}
      BY <3>2 DEF Contributors
    <3>4. wo'.contributors = 0 /\ wo'.finished = 0
      BY <3>1 DEF NewWearOut
    <3>5. Cardinality(Gone') \in Nat
      BY RanksFinite DEF Gone
    <3> QED
      BY <3>2, <3>3, <3>4, <3>5, FS_EmptySet DEF Wear, WearIn, WearCounts
  <2>4. CASE OpenOut
    <3>1. /\ \A q \in Ranks : pc[q] = "exit"
          /\ UNCHANGED <<f, d, total, contributed, wo>>
          /\ \A q \in Ranks : pc'[q] \in {"gate", "rmprefix", "done"}
      BY <2>4 DEF OpenOut
    <3>2. Contributors' = Contributors /\ ~Inside'
      BY <1>4, <3>1 DEF Contributors, Inside, Ending
    <3> QED
      BY <2>1, <3>1, <3>2 DEF Wear, WearIn, WearCounts, InSets
  <2> QED
    BY <2>1, <2>2, <2>3, <2>4
<1> QED
  BY <1>1, <1>2, <1>3, <1>4, NextCases

\* With wear-out the ranks that contributed a position stop at one count: the
\* limit that run_benchmark_rank reads after its spin loop no longer grows.
THEOREM WearOutIsAgreed == Spec => []WearOutAgrees
<1>1. Init => InStep /\ Wear
  BY InStepInit, WearInit
<1>2. (InStep /\ Wear) /\ [Next]_vars => (InStep /\ Wear)'
  BY InStepNext, WearNext
<1>3. InStep /\ Wear => WearOutAgrees
  BY DEF Wear, WearIn, WearOutAgrees
<1> QED
  BY <1>1, <1>2, <1>3, PTL DEF Spec

-----------------------------------------------------------------------------
(* The pace of the ranks: without a stonewall each goes through `num'      *)
(* objects in every benchmark phase.                                       *)

InBody == InSets \cup {"lap"}

Paced(r) ==
  /\ pc[r] = "lap" => d[r] = opt.dsets
  /\ ~opt.timer =>
       /\ pc[r] \notin {"count", "spin"}
       /\ pc[r] \in InBody => total[r] = opt.num /\ f[r] < opt.num
       /\ pc[r] = "leave" => f[r] = opt.num

\* the main thread starts the ranks and waits for all of them
Joined ==
  /\ main \in {"setup", "join", "ok", "failed", "error"}
  /\ main \in {"setup", "error"} => \A r \in Ranks : pc[r] \in {"gate", "done"}
  /\ main \in {"setup", "error"} /\ opt.clean => \A r \in Ranks : pc[r] = "gate"
  /\ main \in {"ok", "failed"} => \A r \in Ranks : pc[r] = "done"
  /\ main = "ok" => tally.errors = 0
  /\ ~opt.faults => faults = 0 /\ main # "error"

Pace == (\A r \in Ranks : Paced(r)) /\ Joined

LEMMA PaceInit == Init => Pace
<1> SUFFICES ASSUME Init PROVE Pace
  OBVIOUS
<1>1. opt \in OptionType
  BY MdworkbenchAssumption DEF Init
<1>2. /\ Until \in Nat /\ Len(Plan) = Until + (IF opt.clean THEN 1 ELSE 0)
      /\ Plan = <<>> <=> Len(Plan) = 0
  BY <1>1, PlanFacts
<1>3. opt.clean => Plan # <<>>
  BY <1>2
<1>4. \A r \in Ranks : Paced(r)
  BY DEF Init, Paced, InBody, InSets
<1>5. Joined
  BY <1>3 DEF Init, Joined
<1> QED
  BY <1>4, <1>5 DEF Pace

LEMMA PacedStep ==
  ASSUME InStep, Wear, NEW r \in Ranks, Paced(r), Work(r)
  PROVE  Paced(r)'
<1>0. /\ Typed /\ RangedIn(r) /\ opt' = opt
      /\ opt.dsets \in Nat /\ opt.num \in Nat /\ opt.timer \in BOOLEAN
      /\ f[r] \in Nat /\ d[r] \in Nat /\ total[r] \in Nat
  <2>1. Typed /\ Ranged
    BY DEF InStep
  <2>2. opt' = opt
    BY <2>1, WorkStep DEF Single, Alone
  <2> QED
    BY <2>1, <2>2, OptFacts DEF Typed, Ranged, RangedIn
<1>a. ~opt.timer => ~contributed[r]
  BY DEF Wear, WearIn
<1>1. CASE Mkdir(r)
  BY <1>0, <1>1 DEF Typed, Paced, RangedIn, InBody, InSets, Mkdir, StartFill, Goto, OutsidePhase
<1>2. CASE Fill(r)
  BY <1>0, <1>2 DEF Typed, Paced, RangedIn, InBody, InSets, Fill, NextFill, Goto, OutsidePhase
<1>3. CASE Stat(r)
  BY <1>0, <1>3 DEF Typed, Paced, RangedIn, InBody, InSets, Stat, NextSet, Goto, InSet, OutsidePhase
<1>4. CASE Read(r)
  BY <1>0, <1>4 DEF Typed, Paced, RangedIn, InBody, InSets, Read, NextSet, Goto, InSet, OutsidePhase
<1>5. CASE Unlink(r)
  BY <1>0, <1>5 DEF Typed, Paced, RangedIn, InBody, InSets, Unlink, Goto, InSet, OutsidePhase
<1>6. CASE Open(r)
  BY <1>0, <1>6 DEF Typed, Paced, RangedIn, InBody, InSets, Open, NextSet, Goto, InSet, OutsidePhase
<1>7. CASE Write(r)
  BY <1>0, <1>7 DEF Typed, Paced, RangedIn, InBody, InSets, Write, NextSet, Goto, InSet, OutsidePhase
<1>8. CASE Lap(r)
  BY <1>0, <1>a, <1>8 DEF Typed, Paced, RangedIn, InBody, InSets, Lap, LoopHead, NextSet, Goto, LoopFrame, OutsidePhase
<1>9. CASE Contribute(r)
  BY <1>0, <1>9 DEF Typed, Paced, RangedIn, InBody, InSets, Contribute, Goto, LoopFrame, OutsidePhase
<1>10. CASE Spin(r)
  BY <1>0, <1>a, <1>10 DEF Typed, Paced, RangedIn, InBody, InSets, Spin, LoopHead, NextSet, Goto, LoopFrame, OutsidePhase
<1>11. CASE Leave(r)
  BY <1>0, <1>11 DEF Typed, Paced, RangedIn, InBody, InSets, Leave, Goto, OutsidePhase
<1>12. CASE Sweep(r)
  BY <1>0, <1>12 DEF Typed, Paced, RangedIn, InBody, InSets, Sweep, Goto, CleanupFrame
<1>13. CASE Rmdir(r)
  BY <1>0, <1>13 DEF Typed, Paced, RangedIn, InBody, InSets, Rmdir, NextSet, Goto, CleanupFrame
<1>14. CASE RmPrefix(r)
  BY <1>0, <1>14 DEF Typed, Paced, RangedIn, InBody, InSets, RmPrefix, Goto, CleanupFrame
<1> QED
  BY <1>1, <1>2, <1>3, <1>4, <1>5, <1>6, <1>7, <1>8, <1>9, <1>10, <1>11, <1>12, <1>13, <1>14 DEF Work

\* a rank that works has been started, and is not done
LEMMA JoinedStep ==
  ASSUME InStep, NEW r \in Ranks, Joined, Work(r)
  PROVE  main = "join" /\ Joined' /\ (~opt.faults => faults = 0 /\ faults' = 0 /\ ~Fault)
<1>0. Typed /\ Ranged
  BY DEF InStep
<1>1. Alone(r) /\ Proceeds(r)
  BY <1>0, WorkStep DEF Single
<1>2. pc[r] \notin {"gate", "done"}
  BY <1>1 DEF Proceeds, Filling, Working, Cleaning, InSets
<1>3. main = "join"
  BY <1>2 DEF Joined
<1>4. main' = main /\ (faults' = faults \/ Fault)
  <2>1. CASE Mkdir(r)
    BY <2>1 DEF Mkdir, StartFill, Goto, OutsidePhase, Fault
  <2>2. CASE Fill(r)
    BY <2>2 DEF Fill, NextFill, Goto, OutsidePhase, Fault
  <2>3. CASE Stat(r)
    BY <2>3 DEF Stat, NextSet, Goto, InSet, OutsidePhase, Fault
  <2>4. CASE Read(r)
    BY <2>4 DEF Read, NextSet, Goto, InSet, OutsidePhase, Fault
  <2>5. CASE Unlink(r)
    BY <2>5 DEF Unlink, Goto, InSet, OutsidePhase, Fault
  <2>6. CASE Open(r)
    BY <2>6 DEF Open, NextSet, Goto, InSet, OutsidePhase, Fault
  <2>7. CASE Write(r)
    BY <2>7 DEF Write, NextSet, Goto, InSet, OutsidePhase, Fault
  <2>8. CASE Lap(r)
    BY <2>8 DEF Lap, LoopHead, NextSet, Goto, LoopFrame, OutsidePhase, Fault
  <2>9. CASE Contribute(r)
    BY <2>9 DEF Contribute, Goto, LoopFrame, OutsidePhase, Fault
  <2>10. CASE Spin(r)
    BY <2>10 DEF Spin, LoopHead, NextSet, Goto, LoopFrame, OutsidePhase, Fault
  <2>11. CASE Leave(r)
    BY <2>11 DEF Leave, Goto, OutsidePhase, Fault
  <2>12. CASE Sweep(r)
    BY <2>12 DEF Sweep, Goto, CleanupFrame, Fault
  <2>13. CASE Rmdir(r)
    BY <2>13 DEF Rmdir, NextSet, Goto, CleanupFrame, Fault
  <2>14. CASE RmPrefix(r)
    BY <2>14 DEF RmPrefix, Goto, CleanupFrame, Fault
  <2> QED
    BY <2>1, <2>2, <2>3, <2>4, <2>5, <2>6, <2>7, <2>8, <2>9, <2>10, <2>11, <2>12, <2>13, <2>14 DEF Work
<1>5. opt' = opt
  BY <1>1 DEF Alone
<1>6. ~opt.faults => faults = 0 /\ ~Fault
  BY DEF Joined, Fault
<1> QED
  BY <1>3, <1>4, <1>5, <1>6 DEF Joined

LEMMA PaceNext == InStep /\ Wear /\ Pace /\ [Next]_vars => Pace'
<1> SUFFICES ASSUME InStep, Wear, Pace, [Next]_vars PROVE Pace'
  OBVIOUS
<1>0. Typed /\ Ranged /\ Joined /\ (\A r \in Ranks : Paced(r)) /\ tally.errors \in Nat
  BY DEF InStep, Pace, Typed, TallyType
<1>1. CASE Setup
  BY <1>0, <1>1 DEF Setup, Pace, Paced, Joined, Fault
<1>2. CASE Report
  <2>1. (\A r \in Ranks : pc[r] = "done") /\ main' = IF tally.errors > 0 THEN "failed" ELSE "ok"
    BY <1>2 DEF Report
  <2> QED
    BY <1>0, <1>2, <2>1 DEF Report, Pace, Paced, Joined
<1>3. CASE UNCHANGED vars
  BY <1>0, <1>3 DEF vars, Pace, Paced, Joined
<1>4. CASE Finished
  BY <1>3, <1>4 DEF Finished
<1>5. ASSUME NEW r \in Ranks, Work(r) PROVE Pace'
  <2>1. Alone(r)
    BY <1>0, <1>5, WorkStep DEF Single
  <2>2. Paced(r)'
    BY <1>0, <1>5, PacedStep
  <2>3. \A q \in Ranks : q # r => Paced(q)'
    BY <1>0, <2>1 DEF Alone, Same, Paced
  <2>4. Joined'
    BY <1>0, <1>5, JoinedStep
  <2> QED
    BY <2>2, <2>3, <2>4 DEF Pace
<1>6. ASSUME NEW r \in Ranks, BarrierWait(r) PROVE Pace'
  <2>1. /\ UNCHANGED <<opt, index, fs, tally, faults, aborted, main>>
        /\ main = "join"
        /\ Arrive(r) \/ OpenIn \/ OpenOut
    BY <1>6, BarrierStep
  <2>2. Joined'
    BY <1>0, <2>1 DEF Joined
  <2>3. CASE Arrive(r)
    BY <1>0, <2>1, <2>2, <2>3 DEF Arrive, Pace, Paced
  <2>4. CASE OpenIn
    <3>1. \A q \in Ranks : /\ pc'[q] = First /\ f'[q] = 0 /\ d'[q] = 0 /\ total'[q] = opt.num
      BY <2>4 DEF OpenIn, EnterPhase
    <3>2. /\ First \notin {"count", "spin"}
          /\ First \in InBody => opt.num > 0
          /\ First = "lap" => opt.dsets = 0
          /\ First = "leave" => opt.num = 0
      BY <1>0, OptFacts DEF First, InBody, InSets
    <3> HIDE DEF First
    <3> QED
      BY <1>0, <2>1, <2>2, <3>1, <3>2, OptFacts DEF Pace, Paced
  <2>5. CASE OpenOut
    <3>1. \A q \in Ranks : pc'[q] \in {"gate", "rmprefix", "done"}
      BY <2>5 DEF OpenOut
    <3> QED
      BY <2>1, <2>2, <3>1 DEF Pace, Paced, InBody, InSets
  <2> QED
    BY <2>1, <2>3, <2>4, <2>5
<1> QED
  BY <1>1, <1>2, <1>3, <1>4, <1>5, <1>6 DEF Next, Rank, Work

-----------------------------------------------------------------------------
(* What is read: in a run without errors every object counts.              *)

\* benchmark phases that are over
Past ==
  IF ph <= Before THEN 0
  ELSE IF ph <= Until THEN ph - 1 - Before ELSE Until - Before

LEMMA PhaseOf ==
  ASSUME InStep
  PROVE  /\ Past \in Nat /\ Before \in Nat /\ Until \in Nat /\ Before <= Until
         /\ ph <= Len(Plan) =>
              Plan[ph] = IF ph <= Before THEN "precreate"
                         ELSE IF ph <= Until THEN "benchmark" ELSE "cleanup"
         /\ Until <= Len(Plan)
         /\ (opt.clean => Len(Plan) = Until + 1) /\ (~opt.clean => Len(Plan) = Until)
<1>1. opt \in OptionType /\ ph \in 1..Len(Plan) + 1
  BY DEF InStep, Typed, Lockstep
<1>2. /\ Before \in Nat /\ Until \in Nat /\ Len(Plan) \in Nat
      /\ Len(Plan) = Until + (IF opt.clean THEN 1 ELSE 0)
      /\ \A i \in 1..Len(Plan) :
              Plan[i] = IF i <= Before THEN "precreate"
                        ELSE IF i <= Until THEN "benchmark" ELSE "cleanup"
  BY <1>1, PlanFacts
<1>3. opt.iterations \in Nat
  BY <1>1 DEF OptionType
<1>4. Before <= Until
  BY <1>2, <1>3 DEF Until
<1>5. ph <= Len(Plan) => ph \in 1..Len(Plan)
  BY <1>1, <1>2
<1>6. Past \in Nat
  BY <1>1, <1>2, <1>4 DEF Past
<1> QED
  BY <1>2, <1>4, <1>5, <1>6

\* objects that rank r has done in the present phase
Items(r) ==
  IF pc[r] \in InBody THEN f[r] * opt.dsets + d[r]
  ELSE IF pc[r] \in {"leave", "exit"} /\ Plan[ph] = "benchmark"
       THEN opt.num * opt.dsets ELSE 0

StatOf(r) == Items(r) + (IF pc[r] \in {"read", "unlink", "open", "write"} THEN 1 ELSE 0)
ReadOf(r) == Items(r) + (IF pc[r] \in {"unlink", "open", "write"} THEN 1 ELSE 0)
Statted == [r \in Ranks |-> StatOf(r)]
HasRead == [r \in Ranks |-> ReadOf(r)]

PhaseItems == N * (opt.num * opt.dsets)

\* no error so far, and none that is not counted
Tidy == ~opt.timer /\ aborted = {} /\ tally.errors = 0

Complete ==
  Tidy => /\ tally.stat = Past * PhaseItems + SumOver(Statted, Ranks)
          /\ tally.read = Past * PhaseItems + SumOver(HasRead, Ranks)

LEMMA Products ==
  /\ \A a, b \in Nat : a * b \in Nat /\ (a + 1) * b = a * b + b /\ 0 * b = 0
  /\ \A a, b, c, e \in Nat : e * (a * (c * b)) = ((a * b) * c) * e
OBVIOUS

LEMMA ItemsType ==
  ASSUME Typed, NEW r \in Ranks
  PROVE  Items(r) \in Nat /\ StatOf(r) \in Nat /\ ReadOf(r) \in Nat
<1>1. f[r] * opt.dsets \in Nat /\ opt.num * opt.dsets \in Nat /\ d[r] \in Nat
  BY Products, OptFacts DEF Typed
<1>2. Items(r) \in Nat
  BY <1>1 DEF Items
<1> QED
  BY <1>2 DEF StatOf, ReadOf

LEMMA SumChange ==
  ASSUME NEW g \in [Ranks -> Nat], NEW h \in [Ranks -> Nat], NEW r \in Ranks,
         \A q \in Ranks : q # r => h[q] = g[q]
  PROVE  /\ SumOver(g, Ranks) \in Nat /\ SumOver(h, Ranks) \in Nat
         /\ SumOver(h, Ranks) = SumOver(g, Ranks) + h[r] - g[r]
<1>1. h = [g EXCEPT ![r] = h[r]]
  OBVIOUS
<1>2. g \in [Ranks -> Int] /\ h[r] \in Int
  OBVIOUS
<1>3. SumOver([g EXCEPT ![r] = h[r]], Ranks) = SumOver(g, Ranks) + h[r] - g[r]
  BY <1>2, RanksFinite, SumAfterUpdate
<1>4. SumOver(g, Ranks) \in Nat /\ SumOver(h, Ranks) \in Nat
  BY RanksFinite, SumOfNaturals
<1> QED
  BY <1>1, <1>3, <1>4

LEMMA SumConstant ==
  ASSUME NEW g, NEW c \in Nat, g = [q \in Ranks |-> c]
  PROVE  SumOver(g, Ranks) = N * c
<1>1. g = Part(Ranks, Ranks, c)
  BY DEF Part
<1>2. SumOver(Part(Ranks, Ranks, c), Ranks) = Cardinality(Ranks) * c
  BY RanksFinite, SumOverPart
<1> QED
  BY <1>1, <1>2, RanksFinite

\* what a step adds to the tally it adds to the progress of the rank
Adds(r) ==
  /\ StatOf(r)' + tally.stat = StatOf(r) + tally'.stat
  /\ ReadOf(r)' + tally.read = ReadOf(r) + tally'.read

\* a step that leaves the number of done objects alone
LEMMA SameItems ==
  ASSUME Typed, NEW r \in Ranks, tally' \in TallyType, opt' = opt, ph' = ph,
         Items(r)' = Items(r),
         \/ pc[r] = "stat" /\ pc'[r] = "read"
              /\ tally'.stat = tally.stat + 1 /\ tally'.read = tally.read
         \/ pc[r] = "read" /\ pc'[r] = "unlink"
              /\ tally'.stat = tally.stat /\ tally'.read = tally.read + 1
         \/ pc[r] \in {"unlink", "open"} /\ pc'[r] \in {"open", "write"}
              /\ tally'.stat = tally.stat /\ tally'.read = tally.read
         \/ pc[r] \notin InSets /\ pc'[r] \notin InSets \ {"stat"}
              /\ tally'.stat = tally.stat /\ tally'.read = tally.read
  PROVE  Adds(r)
<1>1. Items(r) \in Nat
  BY ItemsType
<1>2. tally.stat \in Nat /\ tally.read \in Nat
  BY DEF Typed, TallyType
<1> QED
  BY <1>1, <1>2 DEF Adds, StatOf, ReadOf, InSets

\* ... and one that does the next
LEMMA OneItem ==
  ASSUME Typed, NEW r \in Ranks, tally' \in TallyType,
         Items(r)' = Items(r) + 1, pc'[r] \in {"stat", "lap"},
         tally'.stat = tally.stat,
         \/ pc[r] = "read" /\ tally'.read = tally.read + 1
         \/ pc[r] = "write" /\ tally'.read = tally.read
  PROVE  Adds(r)
<1>1. Items(r) \in Nat
  BY ItemsType
<1>2. tally.stat \in Nat /\ tally.read \in Nat
  BY DEF Typed, TallyType
<1> QED
  BY <1>1, <1>2 DEF Adds, StatOf, ReadOf

LEMMA SetDone ==
  ASSUME Typed, NEW r \in Ranks, opt' = opt, f' = f, pc[r] \in InSets,
         NextSet(r, d[r] + 1, "stat", "lap")
  PROVE  Items(r)' = Items(r) + 1 /\ pc'[r] \in {"stat", "lap"}
<1>1. f[r] * opt.dsets \in Nat /\ d[r] \in Nat
  BY Products, OptFacts DEF Typed
<1>2. d'[r] = d[r] + 1 /\ pc'[r] \in {"stat", "lap"}
  BY DEF NextSet, Goto, Typed
<1>3. Items(r) = f[r] * opt.dsets + d[r]
  BY DEF Items, InBody
<1>4. Items(r)' = f[r] * opt.dsets + (d[r] + 1)
  BY <1>2 DEF Items, InBody, InSets
<1> QED
  BY <1>1, <1>2, <1>3, <1>4

LEMMA Untidy ==
  ASSUME Typed, Counted("errors")
  PROVE  tally'.errors # 0
BY DEF Typed, TallyType, Counted

\* labels that belong to one phase
LEMMA LabelPhase ==
  ASSUME InStep, NEW r \in Ranks
  PROVE  /\ pc[r] \in Working \ {"exit"} => ph <= Len(Plan) /\ Plan[ph] = "benchmark"
         /\ pc[r] \in Filling \ {"exit"} => ph <= Len(Plan) /\ Plan[ph] = "precreate"
         /\ pc[r] \in Cleaning \ {"exit"} => ph <= Len(Plan) /\ Plan[ph] = "cleanup"
         /\ pc[r] \in Ending => ph = Len(Plan) + 1
<1>1. CASE pc[r] \in Ending
  <2>1. ph = Len(Plan) + 1
    BY <1>1, PhaseFacts
       DEF InStep, Lockstep, AllGate, AllIn, Ending, LabelsOf, Filling, Working, Cleaning, InSets
  <2> QED
    BY <1>1, <2>1 DEF Ending, Filling, Working, Cleaning, InSets
<1>2. CASE pc[r] = "gate"
  BY <1>2 DEF Ending, Filling, Working, Cleaning, InSets
<1>3. CASE pc[r] \notin Ending \cup {"gate"}
  <2>1. ph <= Len(Plan) /\ Plan[ph] \in Phases /\ pc[r] \in LabelsOf(Plan[ph])
    BY <1>3, InsidePhase DEF AllIn
  <2> QED
    BY <1>3, <2>1 DEF Ending, Filling, Working, Cleaning, InSets, LabelsOf, Phases
<1> QED
  BY <1>1, <1>2, <1>3

LEMMA TidyStep ==
  ASSUME Typed, Ranged, NEW r \in Ranks, Work(r), Tidy'
  PROVE  Tidy
<1>1. Alone(r)
  BY WorkStep DEF Single
<1>2. tally.errors <= tally'.errors /\ aborted \subseteq aborted'
  <2>0. tally.errors \in Nat
    BY DEF Typed, TallyType
  <2>a. \A k \in {"create", "read", "stat", "delete", "errors"} :
          Counted(k) => tally'.errors >= tally.errors
    BY SMTT(30) DEF Typed, TallyType, Counted
  <2>1. CASE Mkdir(r)
    BY <2>0, <2>a, <2>1 DEF Mkdir, StartFill, Goto, OutsidePhase
  <2>2. CASE Fill(r)
    BY <2>0, <2>a, <2>2 DEF Fill, NextFill, Goto, OutsidePhase
  <2>3. CASE Stat(r)
    BY <2>0, <2>a, <2>3 DEF Stat, NextSet, Goto, InSet, OutsidePhase
  <2>4. CASE Read(r)
    BY <2>0, <2>a, <2>4 DEF Read, NextSet, Goto, InSet, OutsidePhase
  <2>5. CASE Unlink(r)
    BY <2>0, <2>a, <2>5 DEF Unlink, Goto, InSet, OutsidePhase
  <2>6. CASE Open(r)
    BY <2>0, <2>a, <2>6 DEF Open, NextSet, Goto, InSet, OutsidePhase
  <2>7. CASE Write(r)
    BY <2>0, <2>a, <2>7 DEF Write, NextSet, Goto, InSet, OutsidePhase
  <2>8. CASE Lap(r)
    BY <2>0, <2>a, <2>8 DEF Lap, LoopHead, NextSet, Goto, LoopFrame, OutsidePhase
  <2>9. CASE Contribute(r)
    BY <2>0, <2>a, <2>9 DEF Contribute, Goto, LoopFrame, OutsidePhase
  <2>10. CASE Spin(r)
    BY <2>0, <2>a, <2>10 DEF Spin, LoopHead, NextSet, Goto, LoopFrame, OutsidePhase
  <2>11. CASE Leave(r)
    BY <2>0, <2>a, <2>11 DEF Leave, Goto, OutsidePhase
  <2>12. CASE Sweep(r)
    BY <2>0, <2>a, <2>12 DEF Sweep, Goto, CleanupFrame
  <2>13. CASE Rmdir(r)
    BY <2>0, <2>a, <2>13 DEF Rmdir, NextSet, Goto, CleanupFrame
  <2>14. CASE RmPrefix(r)
    BY <2>0, <2>a, <2>14 DEF RmPrefix, Goto, CleanupFrame
  <2> QED
    BY <2>1, <2>2, <2>3, <2>4, <2>5, <2>6, <2>7, <2>8, <2>9, <2>10, <2>11, <2>12, <2>13, <2>14 DEF Work
<1>3. tally.errors \in Nat /\ opt' = opt
  BY <1>1 DEF Typed, TallyType, Alone
<1> QED
  BY <1>2, <1>3 DEF Tidy

LEMMA AddsStep ==
  ASSUME InStep, Wear, Pace, NEW r \in Ranks, Work(r), Tidy'
  PROVE  Adds(r)
<1>0. Typed /\ Ranged /\ Paced(r) /\ RangedIn(r)
  BY DEF InStep, Pace, Ranged, RangedIn
<1>1. Alone(r) /\ opt' = opt /\ ph' = ph /\ Plan' = Plan /\ tally' \in TallyType
  BY <1>0, WorkStep, SamePlan DEF Single, Alone
<1>2. tally'.errors = 0 /\ ~Counted("errors") /\ aborted' = {} /\ ~opt.timer
  BY <1>0, <1>1, Untidy DEF Tidy
<1>3. ASSUME UNCHANGED tally PROVE tally'.stat = tally.stat /\ tally'.read = tally.read
  BY <1>3
<1>4. /\ Counted("stat") => tally'.stat = tally.stat + 1 /\ tally'.read = tally.read
      /\ Counted("read") => tally'.stat = tally.stat /\ tally'.read = tally.read + 1
      /\ Counted("create") \/ Counted("delete") =>
           tally'.stat = tally.stat /\ tally'.read = tally.read
  BY <1>0 DEF Typed, TallyType, Counted
<1>5. CASE Mkdir(r) \/ Fill(r) \/ Sweep(r) \/ Rmdir(r) \/ RmPrefix(r)
  <2>1. pc[r] \in {"mkdir", "fill", "sweep", "rmdir", "rmprefix"}
    BY <1>5 DEF Mkdir, Fill, Sweep, Rmdir, RmPrefix
  <2>2. pc'[r] \in {"mkdir", "fill", "sweep", "rmdir", "exit", "done"}
    <3>1. Proceeds(r)
      BY <1>0, WorkStep DEF Single
    <3> QED
      BY <2>1, <3>1 DEF Proceeds, Filling, Working, Cleaning, InSets
  <2>3. pc'[r] = "exit" => Plan[ph] # "benchmark"
    <3>1. pc'[r] = "exit" => pc[r] # "rmprefix"
      <4>1. Proceeds(r)
        BY <1>0, WorkStep DEF Single
      <4> QED
        BY <4>1 DEF Proceeds, Filling, Working, Cleaning, InSets
    <3> QED
      BY <2>1, <3>1, LabelPhase DEF Filling, Cleaning
  <2>4. Items(r) = 0 /\ Items(r)' = 0
    BY <1>1, <2>1, <2>2, <2>3 DEF Items, InBody, InSets
  <2>5. UNCHANGED tally \/ Counted("create") \/ Counted("delete")
    BY <1>2, <1>5 DEF Mkdir, Fill, Sweep, Rmdir, RmPrefix
  <2> QED
    BY <1>0, <1>1, <1>3, <1>4, <2>1, <2>2, <2>4, <2>5, SameItems DEF InSets
<1>6. CASE Stat(r)
  <2>1. pc[r] = "stat" /\ Counted("stat") /\ pc'[r] = "read" /\ UNCHANGED <<f, d>>
    BY <1>0, <1>2, <1>6 DEF Stat, Goto, InSet, Typed
  <2>2. Items(r)' = Items(r)
    BY <1>1, <2>1 DEF Items, InBody, InSets
  <2> QED
    BY <1>0, <1>1, <1>4, <2>1, <2>2, SameItems
<1>7. CASE Read(r)
  <2>1. pc[r] = "read" /\ Counted("read") /\ f' = f
    BY <1>2, <1>7 DEF Read, InSet
  <2>2. CASE opt.readOnly
    <3>1. NextSet(r, d[r] + 1, "stat", "lap")
      BY <1>7, <2>2 DEF Read
    <3>2. Items(r)' = Items(r) + 1 /\ pc'[r] \in {"stat", "lap"}
      BY <1>0, <1>1, <2>1, <3>1, SetDone DEF InSets
    <3> QED
      BY <1>0, <1>1, <1>4, <2>1, <3>2, OneItem
  <2>3. CASE ~opt.readOnly
    <3>1. pc'[r] = "unlink" /\ d' = d
      BY <1>0, <1>7, <2>3 DEF Read, Goto, Typed
    <3>2. Items(r)' = Items(r)
      BY <1>1, <2>1, <3>1 DEF Items, InBody, InSets
    <3> QED
      BY <1>0, <1>1, <1>4, <2>1, <3>1, <3>2, SameItems
  <2> QED
    BY <2>2, <2>3
<1>8. CASE Unlink(r)
  <2>1. pc[r] = "unlink" /\ Counted("delete") /\ pc'[r] = "open" /\ UNCHANGED <<f, d>>
    BY <1>0, <1>2, <1>8 DEF Unlink, Goto, InSet, Typed
  <2>2. Items(r)' = Items(r)
    BY <1>1, <2>1 DEF Items, InBody, InSets
  <2> QED
    BY <1>0, <1>1, <1>4, <2>1, <2>2, SameItems
<1>9. CASE Open(r)
  <2>1. pc[r] = "open" /\ UNCHANGED tally /\ pc'[r] = "write" /\ UNCHANGED <<f, d>>
    BY <1>0, <1>2, <1>9 DEF Open, Goto, InSet, Typed
  <2>2. Items(r)' = Items(r)
    BY <1>1, <2>1 DEF Items, InBody, InSets
  <2> QED
    BY <1>0, <1>1, <1>3, <2>1, <2>2, SameItems
<1>10. CASE Write(r)
  <2>1. pc[r] = "write" /\ Counted("create") /\ NextSet(r, d[r] + 1, "stat", "lap") /\ f' = f
    BY <1>2, <1>10 DEF Write, InSet
  <2>2. Items(r)' = Items(r) + 1 /\ pc'[r] \in {"stat", "lap"}
    BY <1>0, <1>1, <2>1, SetDone DEF InSets
  <2> QED
    BY <1>0, <1>1, <1>4, <2>1, <2>2, OneItem
<1>11. CASE Lap(r)
  <2>0. /\ f[r] \in Nat /\ opt.dsets \in Nat /\ opt.num \in Nat
        /\ d[r] = opt.dsets /\ total[r] = opt.num /\ f[r] < opt.num /\ pc[r] = "lap"
    BY <1>0, <1>2, <1>11, OptFacts DEF Lap, Paced, InBody, Typed
  <2>1. UNCHANGED tally /\ f'[r] = f[r] + 1 /\ LoopHead(r, f[r] + 1, opt.num)
    BY <1>0, <1>2, <1>11, <2>0, OptFacts DEF Lap, LoopFrame, Typed
  <2>2. (f[r] + 1) * opt.dsets = f[r] * opt.dsets + opt.dsets /\ f[r] * opt.dsets \in Nat
    BY <2>0, Products
  <2>3. Items(r) = f[r] * opt.dsets + opt.dsets
    BY <2>0 DEF Items, InBody
  <2>4. CASE f[r] + 1 < opt.num
    <3>1. pc'[r] \in {"stat", "lap"} /\ d'[r] = 0
      BY <1>0, <2>1, <2>4 DEF LoopHead, NextSet, Goto, Typed
    <3>2. Items(r)' = (f[r] + 1) * opt.dsets + 0
      BY <1>1, <2>1, <3>1 DEF Items, InBody, InSets
    <3>3. Items(r)' = Items(r)
      BY <2>0, <2>2, <2>3, <3>2
    <3> QED
      BY <1>0, <1>1, <1>3, <2>0, <2>1, <3>1, <3>3, SameItems DEF InSets
  <2>5. CASE ~(f[r] + 1 < opt.num)
    <3>1. pc'[r] = "leave" /\ f[r] + 1 = opt.num
      BY <1>0, <2>0, <2>1, <2>5 DEF LoopHead, Goto, Typed
    <3>2. Plan[ph] = "benchmark"
      BY <2>0, LabelPhase DEF Working
    <3>3. Items(r)' = opt.num * opt.dsets
      BY <1>1, <3>1, <3>2 DEF Items, InBody, InSets
    <3>4. Items(r)' = Items(r)
      BY <2>2, <2>3, <3>1, <3>3
    <3> QED
      BY <1>0, <1>1, <1>3, <2>0, <2>1, <3>1, <3>4, SameItems DEF InSets
  <2> QED
    BY <2>4, <2>5
<1>12. CASE Contribute(r) \/ Spin(r)
  BY <1>0, <1>2, <1>12 DEF Contribute, Spin, Paced
<1>13. CASE Leave(r)
  <2>1. pc[r] = "leave" /\ UNCHANGED tally /\ pc'[r] = "exit"
    BY <1>0, <1>13 DEF Leave, Goto, Typed
  <2>2. Items(r)' = Items(r)
    BY <1>1, <2>1 DEF Items, InBody, InSets
  <2> QED
    BY <1>0, <1>1, <1>3, <2>1, <2>2, SameItems DEF InSets
<1> QED
  BY <1>5, <1>6, <1>7, <1>8, <1>9, <1>10, <1>11, <1>12, <1>13 DEF Work

LEMMA CompleteInit == Init => Complete
<1> SUFFICES ASSUME Init PROVE Complete
  OBVIOUS
<1>1. InStep /\ ph = 1 /\ tally.stat = 0 /\ tally.read = 0
  BY InStepInit DEF Init
<1>2. \A r \in Ranks : pc[r] \in {"gate", "done"}
  BY DEF Init
<1>3. Past = 0
  BY <1>1, PhaseOf DEF Past
<1>4. /\ Statted = [r \in Ranks |-> 0] /\ HasRead = [r \in Ranks |-> 0]
  BY <1>2 DEF Statted, HasRead, StatOf, ReadOf, Items, InBody, InSets
<1>5. SumOver(Statted, Ranks) = N * 0 /\ SumOver(HasRead, Ranks) = N * 0
  BY <1>4, SumConstant
<1>6. PhaseItems \in Nat /\ N \in Nat
  <2>1. opt.num * opt.dsets \in Nat /\ N \in Nat
    BY <1>1, OptFacts, Products, MdworkbenchAssumption DEF InStep
  <2> QED
    BY <2>1, Products DEF PhaseItems
<1>7. N * 0 = 0 /\ Past * PhaseItems = 0
  BY <1>3, <1>6, Products
<1> QED
  BY <1>1, <1>5, <1>7 DEF Complete

LEMMA CompleteWork ==
  ASSUME InStep, InStep', Wear, Pace, Complete, NEW r \in Ranks, Work(r)
  PROVE  Complete'
<1> SUFFICES ASSUME Tidy'
             PROVE  /\ tally'.stat = (Past * PhaseItems)' + SumOver(Statted', Ranks)
                    /\ tally'.read = (Past * PhaseItems)' + SumOver(HasRead', Ranks)
  BY DEF Complete
<1>0. Typed /\ Ranged /\ Typed'
  BY DEF InStep
<1>1. Alone(r) /\ opt' = opt /\ ph' = ph /\ Plan' = Plan
  BY <1>0, WorkStep, SamePlan DEF Single, Alone
<1>2. /\ tally.stat = Past * PhaseItems + SumOver(Statted, Ranks)
      /\ tally.read = Past * PhaseItems + SumOver(HasRead, Ranks)
  BY <1>0, TidyStep DEF Complete
<1>3. Past' = Past /\ PhaseItems' = PhaseItems
  BY <1>1 DEF Past, PhaseItems, Before, Until
<1>4. \A q \in Ranks : q # r => StatOf(q)' = StatOf(q) /\ ReadOf(q)' = ReadOf(q)
  BY <1>1 DEF Alone, Same, StatOf, ReadOf, Items
<1>5. /\ Statted \in [Ranks -> Nat] /\ HasRead \in [Ranks -> Nat]
      /\ \A q \in Ranks : Statted[q] = StatOf(q) /\ HasRead[q] = ReadOf(q)
  BY <1>0, ItemsType DEF Statted, HasRead
<1>6. \A q \in Ranks : StatOf(q)' \in Nat /\ ReadOf(q)' \in Nat
  <2>1. ASSUME NEW q \in Ranks PROVE StatOf(q)' \in Nat /\ ReadOf(q)' \in Nat
    <3>1. CASE q # r
      BY <1>0, <1>4, <3>1, ItemsType
    <3>2. CASE q = r
      <4>1. /\ f'[r] \in Nat /\ d'[r] \in Nat /\ opt'.dsets \in Nat /\ opt'.num \in Nat
        BY <1>0, <1>1, OptFacts DEF Typed
      <4>2. f'[r] * opt'.dsets \in Nat /\ opt'.num * opt'.dsets \in Nat
        BY <4>1, Products
      <4>3. Items(r)' \in Nat
        BY <4>1, <4>2 DEF Items
      <4> QED
        BY <3>2, <4>3 DEF StatOf, ReadOf
    <3> QED
      BY <3>1, <3>2
  <2> QED
    BY <2>1
<1>7. /\ Statted' \in [Ranks -> Nat] /\ HasRead' \in [Ranks -> Nat]
      /\ \A q \in Ranks : Statted'[q] = StatOf(q)' /\ HasRead'[q] = ReadOf(q)'
  BY <1>6 DEF Statted, HasRead
<1>8. /\ SumOver(Statted, Ranks) \in Nat /\ SumOver(Statted', Ranks) \in Nat
      /\ SumOver(Statted', Ranks) = SumOver(Statted, Ranks) + Statted'[r] - Statted[r]
  BY <1>4, <1>5, <1>7, SumChange
<1>9. /\ SumOver(HasRead, Ranks) \in Nat /\ SumOver(HasRead', Ranks) \in Nat
      /\ SumOver(HasRead', Ranks) = SumOver(HasRead, Ranks) + HasRead'[r] - HasRead[r]
  BY <1>4, <1>5, <1>7, SumChange
<1>10. Adds(r)
  BY AddsStep
<1>11. /\ tally.stat \in Nat /\ tally.read \in Nat /\ tally'.stat \in Nat /\ tally'.read \in Nat
  BY <1>0 DEF Typed, TallyType
<1> DEFINE base == Past * PhaseItems
<1>12. /\ tally.stat = base + SumOver(Statted, Ranks)
       /\ tally.read = base + SumOver(HasRead, Ranks)
       /\ base' = base
  BY <1>2, <1>3
<1>13. base \in Nat
  <2>1. Past \in Nat /\ PhaseItems \in Nat
    <3>1. opt.num * opt.dsets \in Nat /\ N \in Nat
      BY <1>0, OptFacts, Products, MdworkbenchAssumption
    <3> QED
      BY <3>1, Products, PhaseOf DEF PhaseItems
  <2> QED
    BY <2>1, Products
<1> HIDE DEF base
<1>14. tally'.stat = base + SumOver(Statted', Ranks)
  BY <1>5, <1>6, <1>7, <1>8, <1>10, <1>11, <1>12, <1>13 DEF Adds
<1>15. tally'.read = base + SumOver(HasRead', Ranks)
  BY <1>5, <1>6, <1>7, <1>9, <1>10, <1>11, <1>12, <1>13 DEF Adds
<1> QED
  BY <1>12, <1>14, <1>15 DEF base

LEMMA PastStep ==
  ASSUME InStep, opt' = opt
  PROVE  /\ ph' = ph => Past' = Past
         /\ ph' = ph + 1 /\ ph <= Len(Plan) =>
              Past' = Past + (IF Plan[ph] = "benchmark" THEN 1 ELSE 0)
<1>1. /\ Before \in Nat /\ Until \in Nat /\ Before <= Until /\ ph \in Nat /\ ph >= 1
      /\ ph <= Len(Plan) =>
              Plan[ph] = IF ph <= Before THEN "precreate"
                         ELSE IF ph <= Until THEN "benchmark" ELSE "cleanup"
  BY PhaseOf, PhaseFacts
<1>2. Before' = Before /\ Until' = Until
  BY DEF Before, Until
<1>3. Before <= 1
  BY DEF Before
<1> QED
  BY <1>1, <1>2, <1>3 DEF Past

LEMMA CompleteBarrier ==
  ASSUME InStep, InStep', Complete, NEW r \in Ranks, BarrierWait(r)
  PROVE  Complete'
<1> SUFFICES ASSUME Tidy'
             PROVE  /\ tally'.stat = (Past * PhaseItems)' + SumOver(Statted', Ranks)
                    /\ tally'.read = (Past * PhaseItems)' + SumOver(HasRead', Ranks)
  BY DEF Complete
<1>0. Typed /\ opt.num * opt.dsets \in Nat /\ N \in Nat /\ opt.num \in Nat /\ opt.dsets \in Nat
  BY OptFacts, Products, MdworkbenchAssumption DEF InStep
<1>1. /\ opt' = opt /\ tally' = tally /\ aborted' = aborted
      /\ Arrive(r) \/ OpenIn \/ OpenOut
  BY BarrierStep
<1>2. /\ tally.stat = Past * PhaseItems + SumOver(Statted, Ranks)
      /\ tally.read = Past * PhaseItems + SumOver(HasRead, Ranks)
  BY <1>1 DEF Complete, Tidy
<1>3. PhaseItems' = PhaseItems /\ PhaseItems \in Nat /\ Plan' = Plan /\ Past \in Nat
  BY <1>0, <1>1, SamePlan, PhaseOf, Products DEF PhaseItems
<1>4. CASE Arrive(r)
  <2>1. ph' = ph /\ pc' = pc /\ f' = f /\ d' = d
    BY <1>4 DEF Arrive
  <2>2. Statted' = Statted /\ HasRead' = HasRead
    BY <1>1, <1>3, <2>1 DEF Statted, HasRead, StatOf, ReadOf, Items
  <2> QED
    BY <1>1, <1>2, <1>3, <2>1, <2>2, PastStep
<1>5. CASE OpenIn
  <2>1. /\ ph' = ph /\ ph <= Len(Plan) /\ AllGate
        /\ \A q \in Ranks : pc'[q] = First /\ f'[q] = 0 /\ d'[q] = 0
    BY <1>5 DEF OpenIn, EnterPhase
  <2>2. /\ First = "exit" => Plan[ph] # "benchmark"
        /\ First = "leave" => opt.num = 0
        /\ First \notin {"read", "unlink", "open", "write"}
    BY <1>0 DEF First
  <2> HIDE DEF First
  <2>3. 0 * opt.dsets = 0
    BY <1>0
  <2>4. \A q \in Ranks : Items(q)' = 0
    BY <1>1, <1>3, <2>1, <2>2, <2>3 DEF Items
  <2>5. Statted' = [q \in Ranks |-> 0] /\ HasRead' = [q \in Ranks |-> 0]
    BY <2>1, <2>2, <2>4 DEF Statted, HasRead, StatOf, ReadOf
  <2>6. Statted = [q \in Ranks |-> 0] /\ HasRead = [q \in Ranks |-> 0]
    BY <2>1 DEF AllGate, Statted, HasRead, StatOf, ReadOf, Items, InBody, InSets
  <2> QED
    BY <1>1, <1>2, <1>3, <2>1, <2>5, <2>6, PastStep
<1>6. CASE OpenOut
  <2>1. /\ ph' = ph + 1 /\ ph <= Len(Plan)
        /\ \A q \in Ranks : pc[q] = "exit" /\ pc'[q] \in {"gate", "rmprefix", "done"}
    BY <1>6 DEF OpenOut
  <2> DEFINE c == IF Plan[ph] = "benchmark" THEN opt.num * opt.dsets ELSE 0
  <2>2. Statted = [q \in Ranks |-> c] /\ HasRead = [q \in Ranks |-> c] /\ c \in Nat
    <3>1. \A q \in Ranks : Items(q) = c
      BY <2>1 DEF Items, InBody, InSets
    <3>2. c \in Nat
      BY <1>0
    <3> HIDE DEF c
    <3>3. \A q \in Ranks : StatOf(q) = c /\ ReadOf(q) = c
      BY <2>1, <3>1, <3>2 DEF StatOf, ReadOf
    <3> QED
      BY <3>2, <3>3 DEF Statted, HasRead
  <2>3. SumOver(Statted, Ranks) = N * c /\ SumOver(HasRead, Ranks) = N * c
    <3> HIDE DEF c
    <3> QED
      BY <2>2, SumConstant
  <2>4. Statted' = [q \in Ranks |-> 0] /\ HasRead' = [q \in Ranks |-> 0]
    BY <2>1 DEF Statted, HasRead, StatOf, ReadOf, Items, InBody, InSets
  <2>5. SumOver(Statted', Ranks) = 0 /\ SumOver(HasRead', Ranks) = 0
    <3>1. SumOver(Statted', Ranks) = N * 0 /\ SumOver(HasRead', Ranks) = N * 0 /\ N * 0 = 0
      BY <1>0, <2>4, SumConstant
    <3> QED
      BY <3>1
  <2>6. Past' = Past + (IF Plan[ph] = "benchmark" THEN 1 ELSE 0)
    BY <1>1, <2>1, PastStep
  <2>7. (Past * PhaseItems)' = Past * PhaseItems + N * c
    <3>1. CASE Plan[ph] = "benchmark"
      <4>1. N * c = PhaseItems /\ Past' = Past + 1
        BY <2>6, <3>1 DEF PhaseItems
      <4>2. (Past + 1) * PhaseItems = Past * PhaseItems + PhaseItems
        BY <1>3, Products
      <4> QED
        BY <1>3, <4>1, <4>2
    <3>2. CASE Plan[ph] # "benchmark"
      <4>1. c = 0 /\ Past' = Past + 0
        BY <2>6, <3>2
      <4>2. N * c = 0 /\ Past' = Past
        BY <1>0, <1>3, <4>1
      <4>3. Past * PhaseItems \in Nat
        BY <1>3, Products
      <4> QED
        BY <1>3, <4>2, <4>3
    <3> QED
      BY <3>1, <3>2
  <2>8. N * c \in Nat /\ Past * PhaseItems \in Nat
    BY <1>0, <1>3, <2>2, Products
  <2> HIDE DEF c
  <2> QED
    BY <1>1, <1>2, <2>3, <2>5, <2>7, <2>8
<1> QED
  BY <1>1, <1>4, <1>5, <1>6

LEMMA CompleteNext ==
  InStep /\ InStep' /\ Wear /\ Pace /\ Complete /\ [Next]_vars => Complete'
<1> SUFFICES ASSUME InStep, InStep', Wear, Pace, Complete, [Next]_vars PROVE Complete'
  OBVIOUS
<1>1. CASE MainStep
  <2>1. UNCHANGED <<opt, ph, pc, f, d, tally, aborted>> /\ Plan' = Plan
    BY <1>1, SamePlan DEF MainStep
  <2>2. Statted' = Statted /\ HasRead' = HasRead /\ PhaseItems' = PhaseItems
    BY <2>1 DEF Statted, HasRead, StatOf, ReadOf, Items, PhaseItems
  <2> QED
    BY <2>1, <2>2, PastStep DEF Complete, Tidy
<1> QED
  BY <1>1, CompleteWork, CompleteBarrier, NextCases DEF InStep

LEMMA CompleteEnd ==
  ASSUME InStep, Pace, Complete
  PROVE  OkIsComplete
<1> SUFFICES ASSUME main = "ok", opt.bench, ~opt.timer, aborted = {}
             PROVE  /\ tally.read = N * opt.dsets * opt.num * opt.iterations
                    /\ tally.stat = tally.read
  BY DEF OkIsComplete
<1>1. Tidy /\ \A r \in Ranks : pc[r] = "done"
  BY DEF Pace, Joined, Tidy
<1>2. /\ tally.stat = Past * PhaseItems + SumOver(Statted, Ranks)
      /\ tally.read = Past * PhaseItems + SumOver(HasRead, Ranks)
  BY <1>1 DEF Complete
<1>3. Typed /\ opt.num \in Nat /\ opt.dsets \in Nat /\ N \in Nat /\ opt.iterations \in Nat
  BY OptFacts, MdworkbenchAssumption DEF InStep
<1>4. Statted = [q \in Ranks |-> 0] /\ HasRead = [q \in Ranks |-> 0]
  BY <1>1 DEF Statted, HasRead, StatOf, ReadOf, Items, InBody, InSets
<1>5. SumOver(Statted, Ranks) = 0 /\ SumOver(HasRead, Ranks) = 0
  <2>1. SumOver(Statted, Ranks) = N * 0 /\ SumOver(HasRead, Ranks) = N * 0 /\ N * 0 = 0
    BY <1>3, <1>4, SumConstant
  <2> QED
    BY <2>1
<1>6. Past = opt.iterations
  <2>1. 0 \in Ranks
    BY MdworkbenchAssumption DEF Ranks
  <2>2. ph = Len(Plan) + 1
    BY <1>1, <2>1, LabelPhase DEF Ending
  <2>3. /\ Before \in Nat /\ Until \in Nat /\ Before <= Until /\ Until <= Len(Plan)
        /\ Len(Plan) \in Nat
    BY PhaseOf, PhaseFacts
  <2>4. Past = Until - Before
    BY <2>2, <2>3 DEF Past
  <2> QED
    BY <1>3, <2>3, <2>4 DEF Until
<1>7. Past * PhaseItems = N * opt.dsets * opt.num * opt.iterations
  BY <1>3, <1>6, Products DEF PhaseItems
<1>8. Past * PhaseItems \in Nat
  <2>1. opt.num * opt.dsets \in Nat
    BY <1>3, Products
  <2>2. PhaseItems \in Nat
    BY <1>3, <2>1, Products DEF PhaseItems
  <2> QED
    BY <1>3, <1>6, <2>2, Products
<1> QED
  BY <1>2, <1>5, <1>7, <1>8

\* A run that reports ok, without a stonewall and without a rank that left a
\* benchmark phase by an error, has statted and read every object it was to.
THEOREM OkMeansComplete == Spec => []OkIsComplete
<1> DEFINE Ind == InStep /\ Wear /\ Pace /\ Complete
<1>1. Init => Ind
  BY InStepInit, WearInit, PaceInit, CompleteInit
<1>2. Ind /\ [Next]_vars => Ind'
  BY InStepNext, WearNext, PaceNext, CompleteNext
<1>3. Ind => OkIsComplete
  BY CompleteEnd
<1> QED
  BY <1>1, <1>2, <1>3, PTL DEF Spec

-----------------------------------------------------------------------------
(* Readers and writers: the rank that takes an object of rank w is         *)
(* WriteRank(w, s), and the rank that makes one for w is ReadRank(w, s).   *)

LEMMA Modulo ==
  ASSUME NEW x \in Int
  PROVE  x % N \in Ranks /\ \E q \in Int : x = q * N + (x % N)
<1>1. N \in Nat /\ N > 0
  BY MdworkbenchAssumption
<1>2. x % N \in 0..N-1 /\ x = (x \div N) * N + (x % N) /\ x \div N \in Int
  BY <1>1
<1> QED
  BY <1>2 DEF Ranks

LEMMA ModuloUnique ==
  ASSUME NEW a \in Ranks, NEW b \in Ranks, NEW q \in Int, a = q * N + b
  PROVE  a = b
<1>1. N \in Nat /\ N > 0 /\ a \in 0..N-1 /\ b \in 0..N-1
  BY MdworkbenchAssumption DEF Ranks
<1>2. CASE q >= 1
  <2>1. q * N >= N
    BY <1>1, <1>2
  <2> QED
    BY <1>1, <2>1
<1>3. CASE q <= -1
  <2>1. q * N <= -N
    BY <1>1, <1>3
  <2> QED
    BY <1>1, <2>1
<1>4. CASE q = 0
  BY <1>1, <1>4
<1> QED
  BY <1>2, <1>3, <1>4

LEMMA RankShift ==
  ASSUME NEW r \in Ranks, NEW k \in Nat
  PROVE  /\ (r + N - k) % N \in Ranks /\ (r + k) % N \in Ranks
         /\ (((r + N - k) % N) + k) % N = r
         /\ (((r + k) % N) + N - k) % N = r
<1>1. N \in Nat /\ r \in Nat
  BY MdworkbenchAssumption DEF Ranks
<1> DEFINE a == (r + N - k) % N
           b == (a + k) % N
           c == (r + k) % N
           e == (c + N - k) % N
<1>2. a \in Ranks /\ \E q \in Int : r + N - k = q * N + a
  <2>1. r + N - k \in Int
    BY <1>1
  <2> QED
    BY <2>1, Modulo
<1>3. c \in Ranks /\ \E q \in Int : r + k = q * N + c
  <2>1. r + k \in Int
    BY <1>1
  <2> QED
    BY <2>1, Modulo
<1> HIDE DEF a, c
<1>4. a \in Nat /\ c \in Nat
  BY <1>2, <1>3, MdworkbenchAssumption DEF Ranks
<1>5. b \in Ranks /\ \E q \in Int : a + k = q * N + b
  <2>1. a + k \in Int
    BY <1>4
  <2> QED
    BY <2>1, Modulo
<1>6. e \in Ranks /\ \E q \in Int : c + N - k = q * N + e
  <2>1. c + N - k \in Int
    BY <1>1, <1>4
  <2> QED
    BY <2>1, Modulo
<1> HIDE DEF b, e
<1>7. b \in Nat /\ e \in Nat
  BY <1>5, <1>6, MdworkbenchAssumption DEF Ranks
<1>8. r = b
  <2>1. PICK p \in Int : r + N - k = p * N + a
    BY <1>2
  <2>2. PICK q \in Int : a + k = q * N + b
    BY <1>5
  <2>3. p + q - 1 \in Int /\ (p + q - 1) * N = p * N + q * N - N
    BY <1>1
  <2>4. p * N \in Int /\ q * N \in Int
    BY <1>1
  <2>5. r = (p * N + q * N - N) + b
    BY <1>1, <1>4, <1>7, <2>1, <2>2, <2>4
  <2> QED
    BY <1>5, <2>3, <2>5, ModuloUnique
<1>9. r = e
  <2>1. PICK p \in Int : r + k = p * N + c
    BY <1>3
  <2>2. PICK q \in Int : c + N - k = q * N + e
    BY <1>6
  <2>3. p + q - 1 \in Int /\ (p + q - 1) * N = p * N + q * N - N
    BY <1>1
  <2>4. p * N \in Int /\ q * N \in Int
    BY <1>1
  <2>5. r = (p * N + q * N - N) + e
    BY <1>1, <1>4, <1>7, <2>1, <2>2, <2>4
  <2> QED
    BY <1>6, <2>3, <2>5, ModuloUnique
<1> QED
  BY <1>2, <1>3, <1>8, <1>9 DEF a, b, c, e

\* Taking from below and making for above are inverse to each other, so every
\* rank has one reader and one writer in every data set.
LEMMA Partners ==
  ASSUME Typed, NEW r \in Ranks, NEW s \in Nat
  PROVE  /\ ReadRank(r, s) \in Ranks /\ WriteRank(r, s) \in Ranks
         /\ WriteRank(ReadRank(r, s), s) = r
         /\ ReadRank(WriteRank(r, s), s) = r
<1> DEFINE k == opt.offset * (s + 1)
<1>1. k \in Nat
  BY OptFacts, Products
<1> HIDE DEF k
<1>2. /\ (r + N - k) % N \in Ranks /\ (r + k) % N \in Ranks
      /\ (((r + N - k) % N) + k) % N = r
      /\ (((r + k) % N) + N - k) % N = r
  BY <1>1, RankShift
<1> QED
  BY <1>2 DEF ReadRank, WriteRank, k

-----------------------------------------------------------------------------
(* Objects are made once: every object is below the position of the rank   *)
(* that makes the objects of its queue.                                    *)

\* 1 if rank r has passed the labels in its loop over the data sets at s
Ahead(r, s, labels) ==
  IF pc[r] \in InBody /\ (s < d[r] \/ (s = d[r] /\ pc[r] \in labels)) THEN 1 ELSE 0

\* how far rank r has come in data set s
Position(r, s, labels) ==
  index[r] + (IF opt.readOnly \/ pc[r] \notin Working \ {"exit"} THEN 0
              ELSE f[r] + Ahead(r, s, labels))
Taken(r, s) == Position(r, s, {"open", "write"})
Made(r, s) == Position(r, s, {"write"})

Below(w, s, i) ==
  IF ph <= Before
    THEN /\ pc[w] \in {"fill", "exit"} /\ i < opt.precreate
         /\ pc[w] = "fill" => i < f[w] \/ (i = f[w] /\ s < d[w])
    ELSE ph <= Until => i < opt.precreate + Made(ReadRank(w, s), s)

Filled(r) ==
  /\ pc[r] = "fill" => f[r] < opt.precreate
  /\ opt.readOnly => pc[r] \notin {"unlink", "open", "write"}

Fresh ==
  ~opt.faults =>
    /\ objs \subseteq Objects /\ IsFiniteSet(objs)
    /\ \A w \in Ranks, s \in Sets, i \in Nat : <<w, s, i>> \in objs => Below(w, s, i)
    /\ \A r \in Ranks : Filled(r)

LEMMA PositionType ==
  ASSUME Typed, NEW r \in Ranks, NEW s, NEW labels
  PROVE  /\ Position(r, s, labels) \in Nat /\ Position(r, s, labels) >= index[r]
         /\ Ahead(r, s, labels) \in {0, 1}
BY DEF Typed, Position, Ahead

LEMMA PositionSame ==
  ASSUME NEW r \in Ranks, Alone(r), NEW q \in Ranks, q # r, NEW s, NEW labels
  PROVE  Position(q, s, labels)' = Position(q, s, labels)
BY DEF Alone, Same, Position, Ahead

LEMMA SetFacts ==
  ASSUME Typed
  PROVE  /\ Sets \subseteq Nat /\ \A s \in Sets : s < opt.dsets /\ s \in Nat
         /\ \A s \in Nat : s < opt.dsets => s \in Sets
BY OptFacts DEF Sets

\* the steps of a benchmark phase do not take a position back
LEMMA MadeGrows ==
  ASSUME InStep, Pace, ~opt.faults, NEW r \in Ranks, Work(r), Filled(r),
         pc[r] \in Working, NEW s \in Sets
  PROVE  Made(r, s)' >= Made(r, s)
<1>0. Typed /\ Ranged /\ RangedIn(r) /\ Joined /\ Paced(r)
  BY DEF InStep, Pace, Ranged, RangedIn
<1>1. Alone(r) /\ opt' = opt
  BY <1>0, WorkStep DEF Single, Alone
<1>2. ~Fault
  BY <1>0, JoinedStep
<1>3. /\ f[r] \in Nat /\ d[r] \in Nat /\ index[r] \in Nat /\ s \in Nat /\ s < opt.dsets
      /\ f'[r] \in Nat /\ d'[r] \in Nat /\ index'[r] \in Nat /\ opt.dsets \in Nat
  BY <1>0, <1>1, SetFacts, OptFacts DEF Typed, Alone
<1>4. CASE Stat(r) \/ Read(r) \/ Unlink(r) \/ Open(r) \/ Write(r)
  <2>1. f' = f /\ index' = index /\ pc[r] \in InSets
    BY <1>4 DEF Stat, Read, Unlink, Open, Write, InSet, InSets
  <2>2. \/ d' = d /\ pc'[r] \in InSets /\ pc[r] # "write"
        \/ d'[r] = d[r] + 1 /\ pc'[r] \in InBody
    BY <1>0, <1>2, <1>4 DEF Stat, Read, Unlink, Open, Write, NextSet, Goto, InSets, InBody, Typed
  <2>3. pc[r] \in Working \ {"exit"} /\ pc'[r] \in Working \ {"exit"}
        /\ pc[r] \in InBody /\ pc'[r] \in InBody
    BY <2>1, <2>2 DEF Working, InSets, InBody
  <2>4. Ahead(r, s, {"write"})' >= Ahead(r, s, {"write"})
    BY <1>3, <2>2, <2>3 DEF Ahead
  <2>5. Ahead(r, s, {"write"})' \in {0, 1} /\ Ahead(r, s, {"write"}) \in {0, 1}
    BY DEF Ahead
  <2> QED
    BY <1>1, <1>3, <2>1, <2>3, <2>4, <2>5 DEF Made, Position
<1>5. CASE Lap(r)
  <2>1. pc[r] = "lap" /\ d[r] = opt.dsets /\ f'[r] = f[r] + 1 /\ index' = index
        /\ pc'[r] \in Working \ {"exit"}
    BY <1>0, <1>5 DEF Lap, LoopFrame, LoopHead, NextSet, Goto, Typed, Paced, Working, InSets
  <2>2. Ahead(r, s, {"write"}) = 1 /\ Ahead(r, s, {"write"})' \in {0, 1}
    BY <1>3, <2>1 DEF Ahead, InBody
  <2> QED
    BY <1>1, <1>3, <2>1, <2>2 DEF Made, Position, Working
<1>6. CASE Contribute(r) \/ Spin(r)
  <2>1. pc[r] \in {"count", "spin"} /\ f' = f /\ index' = index
        /\ pc'[r] \in Working \ {"exit"}
    BY <1>0, <1>6 DEF Contribute, Spin, LoopFrame, LoopHead, NextSet, Goto, Typed, Working, InSets
  <2>2. Ahead(r, s, {"write"}) = 0 /\ Ahead(r, s, {"write"})' \in {0, 1}
    BY <2>1 DEF Ahead, InBody, InSets
  <2> QED
    BY <1>1, <1>3, <2>1, <2>2 DEF Made, Position, Working
<1>7. CASE Leave(r)
  <2>1. pc[r] = "leave" /\ pc'[r] = "exit" /\ f' = f
        /\ index'[r] = IF opt.readOnly THEN index[r] ELSE index[r] + f[r]
    BY <1>0, <1>7 DEF Leave, Goto, Typed
  <2>2. Ahead(r, s, {"write"}) = 0
    BY <2>1 DEF Ahead, InBody, InSets
  <2> QED
    BY <1>1, <1>3, <2>1, <2>2 DEF Made, Position, Working
<1>8. CASE Mkdir(r) \/ Fill(r) \/ Sweep(r) \/ Rmdir(r) \/ RmPrefix(r)
  BY <1>8 DEF Mkdir, Fill, Sweep, Rmdir, RmPrefix, Working, InSets
<1> QED
  BY <1>4, <1>5, <1>6, <1>7, <1>8 DEF Work

LEMMA PhaseNumber ==
  ASSUME InStep, NEW r \in Ranks
  PROVE  /\ pc[r] \in Filling \ {"exit"} => ph <= Before
         /\ pc[r] \in Working \ {"exit"} => ph > Before /\ ph <= Until
         /\ pc[r] \in (Cleaning \ {"exit"}) \cup Ending => ph > Until
<1>1. /\ Before \in Nat /\ Until \in Nat /\ Before <= Until /\ ph \in Nat /\ ph >= 1
      /\ Until <= Len(Plan) /\ Len(Plan) \in Nat
      /\ ph <= Len(Plan) =>
              Plan[ph] = IF ph <= Before THEN "precreate"
                         ELSE IF ph <= Until THEN "benchmark" ELSE "cleanup"
  BY PhaseOf, PhaseFacts
<1>2. pc[r] \in Filling \ {"exit"} => ph <= Before
  BY <1>1, LabelPhase
<1>3. pc[r] \in Working \ {"exit"} => ph > Before /\ ph <= Until
  BY <1>1, LabelPhase
<1>4. pc[r] \in Cleaning \ {"exit"} => ph > Until
  BY <1>1, LabelPhase
<1>5. pc[r] \in Ending => ph > Until
  BY <1>1, LabelPhase
<1> QED
  BY <1>2, <1>3, <1>4, <1>5

\* what a step does to the objects and to what is counted of them, if no call fails
Uncounted == tally'.create = tally.create /\ tally'.delete = tally.delete
CountsCreate == tally'.create = tally.create + 1 /\ tally'.delete = tally.delete
CountsDelete == tally'.create = tally.create /\ tally'.delete = tally.delete + 1

Puts(o) == o \in Objects /\ o \notin objs /\ objs' = objs \cup {o}
Drops(o) == o \in objs /\ objs' = objs \ {o}

Effect(r) ==
  \/ /\ objs' = objs /\ Uncounted /\ pc[r] # "write" /\ pc'[r] # "write"
  \/ /\ pc[r] = "fill" /\ pc'[r] # "write"
     /\ Puts(<<r, d[r], f[r]>>) /\ CountsCreate
  \/ /\ pc[r] = "open" /\ pc'[r] = "write"
     /\ Puts(Newest(r)) /\ Uncounted /\ f' = f /\ d' = d /\ index' = index
  \/ /\ pc[r] = "write" /\ pc'[r] # "write"
     /\ objs' = objs /\ CountsCreate
  \/ /\ pc[r] = "unlink" /\ pc'[r] # "write"
     /\ Drops(Oldest(r)) /\ CountsDelete
  \/ /\ pc[r] = "sweep" /\ pc'[r] # "write"
     /\ Drops(<<r, d[r], f[r] + index[r]>>) /\ CountsDelete

LEMMA EffectStep ==
  ASSUME InStep, Pace, Fresh, ~opt.faults, NEW r \in Ranks, Work(r)
  PROVE  Effect(r)
<1>0. Typed /\ Ranged /\ RangedIn(r) /\ Joined /\ Paced(r)
  BY DEF InStep, Pace, Ranged, RangedIn
<1>1. ~Fault
  BY <1>0, JoinedStep
<1>2. /\ UNCHANGED tally => Uncounted
      /\ Counted("create") => CountsCreate
      /\ Counted("delete") => CountsDelete
      /\ Counted("stat") \/ Counted("read") \/ Counted("errors") => Uncounted
  BY <1>0 DEF Typed, TallyType, Counted, Uncounted, CountsCreate, CountsDelete
<1>3. /\ f[r] \in Nat /\ d[r] \in Nat /\ index[r] \in Nat /\ opt.precreate \in Nat
      /\ opt.dsets \in Nat
  BY <1>0, OptFacts DEF Typed
<1>4. CASE Mkdir(r)
  BY <1>0, <1>1, <1>2, <1>4 DEF Mkdir, StartFill, Goto, Typed, Effect
<1>5. CASE Fill(r)
  <2>1. /\ pc[r] = "fill" /\ pc'[r] # "write" /\ objs' = objs \cup {<<r, d[r], f[r]>>}
        /\ Counted("create")
    BY <1>0, <1>1, <1>5 DEF Fill, NextFill, Goto, Typed
  <2>2. d[r] \in Sets /\ <<r, d[r], f[r]>> \in Objects
    BY <1>0, <1>3, <2>1, SetFacts DEF RangedIn, Objects
  <2>3. <<r, d[r], f[r]>> \notin objs
    <3>1. ph <= Before
      BY <2>1, PhaseNumber DEF Filling
    <3>2. ~Below(r, d[r], f[r])
      BY <1>3, <2>1, <3>1 DEF Below
    <3> QED
      BY <1>3, <2>2, <3>2 DEF Fresh
  <2> QED
    BY <1>2, <2>1, <2>2, <2>3 DEF Effect, Puts
<1>6. CASE Stat(r)
  BY <1>0, <1>1, <1>2, <1>6 DEF Stat, NextSet, Goto, Typed, Effect
<1>7. CASE Read(r)
  BY <1>0, <1>1, <1>2, <1>7 DEF Read, NextSet, Goto, Typed, Effect
<1>8. CASE Unlink(r)
  <2>1. pc[r] = "unlink" /\ pc'[r] = "open"
    BY <1>0, <1>8 DEF Unlink, Goto, Typed
  <2>2. \/ Drops(Oldest(r)) /\ Counted("delete")
        \/ objs' = objs /\ Counted("errors")
    BY <1>1, <1>8 DEF Unlink, Drops
  <2> QED
    BY <1>2, <2>1, <2>2 DEF Effect
<1>9. CASE Open(r)
  <2> DEFINE w == WriteRank(r, d[r])
             i == opt.precreate + f[r] + index[r]
  <2>1. pc[r] = "open"
    BY <1>9 DEF Open
  <2>2. \/ /\ objs' = objs \cup {Newest(r)} /\ pc'[r] = "write" /\ UNCHANGED tally
           /\ f' = f /\ d' = d /\ index' = index
        \/ objs' = objs /\ Counted("errors") /\ pc'[r] # "write"
    BY <1>0, <1>1, <1>9 DEF Open, NextSet, Goto, InSet, Typed
  <2>3. /\ d[r] \in Sets /\ d[r] \in Nat /\ w \in Ranks /\ ReadRank(w, d[r]) = r
        /\ i \in Nat
    <3>1. d[r] \in Sets /\ d[r] \in Nat
      BY <1>0, <1>3, <2>1, SetFacts DEF RangedIn, InSets
    <3>2. w \in Ranks /\ ReadRank(w, d[r]) = r
      BY <1>0, <3>1, Partners
    <3>3. i \in Nat
      BY <1>3
    <3> QED
      BY <3>1, <3>2, <3>3
  <2>4. Newest(r) = <<w, d[r], i>> /\ Newest(r) \in Objects
    BY <2>3 DEF Newest, Objects
  <2>5. Newest(r) \notin objs
    <3>1. ph > Before /\ ph <= Until
      BY <2>1, PhaseNumber DEF Working, InSets
    <3>2. ~opt.readOnly
      BY <2>1 DEF Fresh, Filled
    <3>3. Made(r, d[r]) = index[r] + f[r]
      BY <1>3, <2>1, <3>2 DEF Made, Position, Ahead, Working, InSets
    <3>4. ph \in Nat /\ Before \in Nat
      BY PhaseFacts, PhaseOf
    <3>5. ~(i < opt.precreate + Made(ReadRank(w, d[r]), d[r]))
      BY <1>3, <2>3, <3>3
    <3>6. ~Below(w, d[r], i)
      BY <3>1, <3>4, <3>5 DEF Below
    <3> HIDE DEF w, i
    <3> QED
      BY <2>3, <2>4, <3>6 DEF Fresh
  <2> QED
    BY <1>2, <2>1, <2>2, <2>4, <2>5 DEF Effect, Puts
<1>10. CASE Write(r)
  BY <1>0, <1>1, <1>2, <1>10 DEF Write, NextSet, Goto, Typed, Effect
<1>11. CASE Lap(r)
  BY <1>0, <1>2, <1>11 DEF Lap, LoopHead, NextSet, Goto, LoopFrame, Typed, Effect
<1>12. CASE Contribute(r) \/ Spin(r)
  BY <1>0, <1>2, <1>12 DEF Contribute, Spin, LoopHead, NextSet, Goto, LoopFrame, Typed, Effect
<1>13. CASE Leave(r)
  BY <1>0, <1>2, <1>13 DEF Leave, Goto, Typed, Effect
<1>14. CASE Sweep(r)
  <2> DEFINE o == <<r, d[r], f[r] + index[r]>>
  <2>1. pc[r] = "sweep" /\ pc'[r] # "write"
    BY <1>0, <1>14 DEF Sweep, Goto, Typed
  <2>2. objs' = objs \ {o} /\ IF o \in objs THEN Counted("delete") ELSE UNCHANGED tally
    BY <1>1, <1>14 DEF Sweep
  <2>3. CASE o \in objs
    BY <1>2, <2>1, <2>2, <2>3 DEF Effect, Drops
  <2>4. CASE o \notin objs
    <3>1. objs' = objs /\ UNCHANGED tally
      BY <2>2, <2>4
    <3> QED
      BY <1>2, <2>1, <3>1 DEF Effect
  <2> QED
    BY <2>3, <2>4
<1>15. CASE Rmdir(r)
  BY <1>0, <1>2, <1>15 DEF Rmdir, NextSet, Goto, Typed, Effect
<1>16. CASE RmPrefix(r)
  BY <1>0, <1>2, <1>16 DEF RmPrefix, Goto, Typed, Effect
<1> QED
  BY <1>4, <1>5, <1>6, <1>7, <1>8, <1>9, <1>10, <1>11, <1>12, <1>13, <1>14, <1>15, <1>16
     DEF Work

LEMMA FilledStep ==
  ASSUME Typed, NEW r \in Ranks, Work(r), Filled(r), opt' = opt
  PROVE  Filled(r)'
<1>0. f[r] \in Nat /\ opt.precreate \in Nat /\ index[r] \in Nat
  BY OptFacts DEF Typed
<1>1. CASE Mkdir(r)
  BY <1>0, <1>1 DEF Typed, Filled, Mkdir, StartFill, Goto, OutsidePhase
<1>2. CASE Fill(r)
  BY <1>0, <1>2 DEF Typed, Filled, Fill, NextFill, Goto, OutsidePhase
<1>3. CASE Stat(r)
  BY <1>0, <1>3 DEF Typed, Filled, Stat, NextSet, Goto, InSet, OutsidePhase
<1>4. CASE Read(r)
  BY <1>0, <1>4 DEF Typed, Filled, Read, NextSet, Goto, InSet, OutsidePhase
<1>5. CASE Unlink(r)
  BY <1>0, <1>5 DEF Typed, Filled, Unlink, Goto, InSet, OutsidePhase
<1>6. CASE Open(r)
  BY <1>0, <1>6 DEF Typed, Filled, Open, NextSet, Goto, InSet, OutsidePhase
<1>7. CASE Write(r)
  BY <1>0, <1>7 DEF Typed, Filled, Write, NextSet, Goto, InSet, OutsidePhase
<1>8. CASE Lap(r)
  BY <1>0, <1>8 DEF Typed, Filled, Lap, LoopHead, NextSet, Goto, LoopFrame, OutsidePhase
<1>9. CASE Contribute(r)
  BY <1>0, <1>9 DEF Typed, Filled, Contribute, Goto, LoopFrame, OutsidePhase
<1>10. CASE Spin(r)
  BY <1>0, <1>10 DEF Typed, Filled, Spin, LoopHead, NextSet, Goto, LoopFrame, OutsidePhase
<1>11. CASE Leave(r)
  BY <1>0, <1>11 DEF Typed, Filled, Leave, Goto, OutsidePhase
<1>12. CASE Sweep(r)
  BY <1>0, <1>12 DEF Typed, Filled, Sweep, Goto, CleanupFrame
<1>13. CASE Rmdir(r)
  BY <1>0, <1>13 DEF Typed, Filled, Rmdir, NextSet, Goto, CleanupFrame
<1>14. CASE RmPrefix(r)
  BY <1>0, <1>14 DEF Typed, Filled, RmPrefix, Goto, CleanupFrame
<1> QED
  BY <1>1, <1>2, <1>3, <1>4, <1>5, <1>6, <1>7, <1>8, <1>9, <1>10, <1>11, <1>12, <1>13, <1>14 DEF Work

LEMMA FreshWork ==
  ASSUME InStep, Pace, Fresh, NEW r \in Ranks, Work(r)
  PROVE  Fresh'
<1>0. Typed /\ Ranged /\ RangedIn(r) /\ Joined /\ Paced(r)
  BY DEF InStep, Pace, Ranged, RangedIn
<1>1. Alone(r) /\ opt' = opt /\ ph' = ph /\ Sets' = Sets /\ Objects' = Objects
      /\ Before' = Before /\ Until' = Until
  BY <1>0, WorkStep DEF Single, Alone, Sets, Objects, Before, Until
<1> SUFFICES ASSUME ~opt.faults
             PROVE  /\ objs' \subseteq Objects /\ IsFiniteSet(objs')
                    /\ \A w \in Ranks, s \in Sets, i \in Nat :
                         <<w, s, i>> \in objs' => Below(w, s, i)'
                    /\ \A q \in Ranks : Filled(q)'
  BY <1>1 DEF Fresh
<1>2. /\ objs \subseteq Objects /\ IsFiniteSet(objs)
      /\ \A w \in Ranks, s \in Sets, i \in Nat : <<w, s, i>> \in objs => Below(w, s, i)
      /\ \A q \in Ranks : Filled(q)
  BY DEF Fresh
<1>3. Effect(r)
  BY EffectStep
<1>4. \A q \in Ranks : Filled(q)'
  <2>1. Filled(r)'
    BY <1>0, <1>1, <1>2, FilledStep
  <2>2. \A q \in Ranks : q # r => Filled(q)'
    BY <1>1, <1>2 DEF Alone, Same, Filled
  <2> QED
    BY <2>1, <2>2
<1>5. objs' \subseteq Objects /\ IsFiniteSet(objs')
  <2>1. \/ objs' = objs
        \/ \E o : o \in Objects /\ objs' = objs \cup {o}
        \/ \E o : objs' = objs \ {o}
    BY <1>3 DEF Effect, Puts, Drops
  <2> QED
    BY <1>2, <2>1, FS_AddElement, FS_RemoveElement
<1>6. ASSUME NEW w \in Ranks, NEW s \in Sets, NEW i \in Nat, <<w, s, i>> \in objs'
      PROVE  Below(w, s, i)'
  <2>0. /\ f[r] \in Nat /\ d[r] \in Nat /\ index[r] \in Nat /\ opt.precreate \in Nat
        /\ ph \in Nat /\ Before \in Nat /\ Until \in Nat /\ Before <= Until /\ s \in Nat
        /\ s < opt.dsets
    BY <1>0, OptFacts, PhaseFacts, PhaseOf, SetFacts DEF Typed
  <2>1. CASE pc[r] \in Filling
    <3>1. ph <= Before
      <4>1. pc[r] # "exit"
        BY <1>0, WorkStep DEF Single, Proceeds, Filling, Working, Cleaning, InSets
      <4> QED
        BY <2>1, <4>1, PhaseNumber
    <3>2. CASE w # r
      <4>1. <<w, s, i>> \in objs
        BY <1>3, <1>6, <2>1, <3>2 DEF Effect, Puts, Drops, Filling
      <4>2. Below(w, s, i)
        BY <1>2, <4>1
      <4> QED
        BY <1>1, <3>1, <3>2, <4>2 DEF Below, Alone, Same
    <3>3. CASE w = r
      <4>1. <<w, s, i>> \in objs \/ (pc[r] = "fill" /\ s = d[r] /\ i = f[r])
        BY <1>3, <1>6, <2>1 DEF Effect, Puts, Drops, Filling
      <4>2. /\ pc[r] = "fill" /\ i < opt.precreate
            /\ i < f[r] \/ (i = f[r] /\ s <= d[r])
            /\ i = f[r] /\ s = d[r] => pc[r] = "fill"
        <5>1. CASE <<w, s, i>> \in objs
          <6>1. Below(r, s, i)
            BY <1>2, <3>3, <5>1
          <6>2. pc[r] # "exit"
            BY <1>0, WorkStep DEF Single, Proceeds, Filling, Working, Cleaning, InSets
          <6> QED
            BY <2>0, <3>1, <6>1, <6>2 DEF Below
        <5>2. CASE pc[r] = "fill" /\ s = d[r] /\ i = f[r]
          BY <1>2, <2>0, <5>2 DEF Filled
        <5> QED
          BY <4>1, <5>1, <5>2
      <4>3. Fill(r) /\ ~Fault
        <5>1. ~Fault
          BY <1>0, JoinedStep
        <5> QED
          BY <4>2, <5>1 DEF Work, Mkdir, Fill, Stat, Read, Unlink, Open, Write, Lap,
             Contribute, Spin, Leave, Sweep, Rmdir, RmPrefix
      <4>4. NextFill(r)
        BY <4>3 DEF Fill
      <4>5. CASE d[r] + 1 < opt.dsets
        <5>1. d'[r] = d[r] + 1 /\ f' = f /\ pc' = pc
          BY <1>0, <4>4, <4>5 DEF NextFill, Typed
        <5> QED
          BY <1>1, <2>0, <3>1, <3>3, <4>2, <5>1 DEF Below
      <4>6. CASE ~(d[r] + 1 < opt.dsets)
        <5>1. f'[r] = f[r] + 1 /\ pc'[r] \in {"fill", "exit"}
          BY <1>0, <4>4, <4>6 DEF NextFill, Goto, Typed
        <5> QED
          BY <1>1, <2>0, <3>1, <3>3, <4>2, <5>1 DEF Below
      <4> QED
        BY <4>5, <4>6
    <3> QED
      BY <3>2, <3>3
  <2>2. CASE pc[r] \in Working \ {"exit"}
    <3>1. ph > Before /\ ph <= Until
      BY <2>2, PhaseNumber
    <3>2. PICK q \in Ranks : q = ReadRank(w, s)
      BY <1>0, <2>0, Partners
    <3>3. Made(q, s)' >= Made(q, s)
      <4>1. CASE q = r
        BY <1>2, <2>2, <4>1, MadeGrows
      <4>2. CASE q # r
        <5>1. Made(q, s)' = Made(q, s)
          BY <1>1, <3>2, <4>2, PositionSame DEF Made
        <5> QED
          BY <1>0, <3>2, <5>1, PositionType DEF Made
      <4> QED
        BY <4>1, <4>2
    <3>4. Made(q, s) \in Nat /\ Made(q, s)' \in Nat
      <4>1. Made(q, s) \in Nat
        BY <1>0, <3>2, PositionType DEF Made
      <4>2. f'[q] \in Nat /\ index'[q] \in Nat
        BY <1>1, <3>2 DEF Alone
      <4>3. Made(q, s)' \in Nat
        BY <4>2 DEF Made, Position, Ahead
      <4> QED
        BY <4>1, <4>3
    <3>5. i < opt.precreate + Made(q, s)'
      <4>1. CASE <<w, s, i>> \in objs
        <5>1. Below(w, s, i)
          BY <1>2, <4>1
        <5>2. i < opt.precreate + Made(q, s)
          BY <2>0, <3>1, <3>2, <5>1 DEF Below
        <5> QED
          BY <2>0, <3>3, <3>4, <5>2
      <4>2. CASE <<w, s, i>> \notin objs
        <5>1. /\ <<w, s, i>> = Newest(r) /\ pc[r] = "open" /\ pc'[r] = "write"
              /\ f' = f /\ d' = d /\ index' = index
          BY <1>3, <1>6, <2>2, <4>2 DEF Effect, Puts, Drops, Working, InSets
        <5>2. w = WriteRank(r, d[r]) /\ s = d[r] /\ i = opt.precreate + f[r] + index[r]
          BY <5>1 DEF Newest
        <5>3. q = r
          BY <1>0, <2>0, <3>2, <5>2, Partners
        <5>4. ~opt.readOnly
          BY <1>2, <5>1 DEF Filled
        <5>5. Made(r, s)' = index[r] + (f[r] + 1)
          BY <1>1, <2>0, <5>1, <5>2, <5>4 DEF Made, Position, Ahead, Working, InSets, InBody
        <5> QED
          BY <2>0, <5>2, <5>3, <5>5
      <4> QED
        BY <4>1, <4>2
    <3>6. ReadRank(w, s)' = q
      BY <1>1, <3>2 DEF ReadRank
    <3>7. Made(ReadRank(w, s), s)' = Made(q, s)'
      BY <3>6 DEF Made, Position, Ahead
    <3> QED
      BY <1>1, <2>0, <3>1, <3>5, <3>7 DEF Below
  <2>3. CASE pc[r] \in (Cleaning \ {"exit"}) \cup Ending
    <3>1. ph > Until
      BY <2>3, PhaseNumber
    <3> QED
      BY <1>1, <2>0, <3>1 DEF Below
  <2>4. pc[r] \in Filling \cup (Working \ {"exit"}) \cup (Cleaning \ {"exit"}) \cup Ending
    BY <1>0, WorkStep DEF Single, Proceeds, Ending
  <2> QED
    BY <2>1, <2>2, <2>3, <2>4
<1> QED
  BY <1>4, <1>5, <1>6

LEMMA FreshBarrier ==
  ASSUME InStep, Fresh, NEW r \in Ranks, BarrierWait(r)
  PROVE  Fresh'
<1>0. Typed /\ Ranged
  BY DEF InStep
<1>1. /\ opt' = opt /\ objs' = objs /\ index' = index
      /\ Arrive(r) \/ OpenIn \/ OpenOut
  BY BarrierStep DEF fs
<1>2. Sets' = Sets /\ Objects' = Objects /\ Before' = Before /\ Until' = Until
      /\ \A w, s : ReadRank(w, s)' = ReadRank(w, s)
  BY <1>1 DEF Sets, Objects, Before, Until, ReadRank
<1> SUFFICES ASSUME ~opt.faults
             PROVE  /\ \A w \in Ranks, s \in Sets, i \in Nat :
                         <<w, s, i>> \in objs => Below(w, s, i)'
                    /\ \A q \in Ranks : Filled(q)'
  BY <1>1, <1>2 DEF Fresh
<1>3. /\ \A w \in Ranks, s \in Sets, i \in Nat : <<w, s, i>> \in objs => Below(w, s, i)
      /\ \A q \in Ranks : Filled(q)
  BY DEF Fresh
<1>4. /\ ph \in Nat /\ Before \in Nat /\ Until \in Nat /\ Before <= Until /\ Before <= 1
      /\ ph >= 1 /\ opt.precreate \in Nat
  BY <1>0, PhaseFacts, PhaseOf, OptFacts DEF Before
<1>5. CASE Arrive(r)
  <2>1. ph' = ph /\ pc' = pc /\ f' = f /\ d' = d
    BY <1>5 DEF Arrive
  <2> QED
    BY <1>1, <1>2, <1>3, <2>1 DEF Below, Filled, Made, Position, Ahead
<1>6. CASE OpenIn
  <2>1. /\ ph' = ph /\ \A q \in Ranks : pc[q] = "gate" /\ pc'[q] = First /\ f'[q] = 0 /\ d'[q] = 0
    BY <1>6 DEF OpenIn, EnterPhase, AllGate
  <2>2. First \notin {"fill", "read", "unlink", "open", "write"}
    BY DEF First
  <2> HIDE DEF First
  <2>3. \A q \in Ranks : Filled(q)'
    BY <2>1, <2>2 DEF Filled
  <2>4. ASSUME NEW w \in Ranks, NEW s \in Sets, NEW i \in Nat, <<w, s, i>> \in objs
        PROVE  Below(w, s, i)'
    <3>1. Below(w, s, i)
      BY <1>3, <2>4
    <3>2. ~(ph <= Before)
      BY <2>1, <3>1 DEF Below
    <3>3. PICK q \in Ranks : q = ReadRank(w, s)
      BY <1>0, SetFacts, Partners
    <3>4. index[q] \in Nat /\ Made(q, s) = index[q]
      BY <1>0, <2>1 DEF Typed, Made, Position, Working, InSets
    <3>5. Made(q, s)' >= index[q] /\ Made(q, s)' \in Nat
      <4>1. Ahead(q, s, {"write"})' \in {0, 1}
        BY DEF Ahead
      <4> QED
        BY <1>1, <2>1, <3>4, <4>1 DEF Made, Position
    <3>6. Made(ReadRank(w, s), s)' = Made(q, s)'
      BY <1>2, <3>3 DEF Made, Position, Ahead
    <3>7. ph <= Until => i < opt.precreate + Made(q, s)
      BY <3>1, <3>2, <3>3 DEF Below
    <3> QED
      BY <1>1, <1>2, <1>4, <2>1, <3>2, <3>4, <3>5, <3>6, <3>7 DEF Below
  <2> QED
    BY <2>3, <2>4
<1>7. CASE OpenOut
  <2>1. /\ ph' = ph + 1 /\ f' = f /\ d' = d
        /\ \A q \in Ranks : pc[q] = "exit" /\ pc'[q] \in {"gate", "rmprefix", "done"}
    BY <1>7 DEF OpenOut
  <2>2. \A q \in Ranks : Filled(q)'
    BY <2>1 DEF Filled
  <2>3. ASSUME NEW w \in Ranks, NEW s \in Sets, NEW i \in Nat, <<w, s, i>> \in objs
        PROVE  Below(w, s, i)'
    <3>1. Below(w, s, i)
      BY <1>3, <2>3
    <3>2. ~(ph' <= Before)
      BY <1>4, <2>1
    <3>3. PICK q \in Ranks : q = ReadRank(w, s)
      BY <1>0, SetFacts, Partners
    <3>4. index[q] \in Nat /\ Made(q, s) = index[q] /\ Made(q, s)' = index[q]
      BY <1>0, <1>1, <2>1 DEF Typed, Made, Position, Working, InSets
    <3>5. Made(ReadRank(w, s), s)' = Made(q, s)'
      BY <1>2, <3>3 DEF Made, Position, Ahead
    <3>6. ph + 1 <= Until => i < opt.precreate + index[q]
      <4>1. CASE ph <= Before
        <5>1. i < opt.precreate
          BY <3>1, <4>1 DEF Below
        <5> QED
          BY <1>4, <3>4, <5>1
      <4>2. CASE ~(ph <= Before)
        <5>1. ph <= Until => i < opt.precreate + Made(q, s)
          BY <3>1, <3>3, <4>2 DEF Below
        <5> QED
          BY <1>4, <3>4, <5>1
      <4> QED
        BY <4>1, <4>2
    <3> QED
      BY <1>1, <1>2, <2>1, <3>2, <3>4, <3>5, <3>6 DEF Below
  <2> QED
    BY <2>2, <2>3
<1> QED
  BY <1>1, <1>5, <1>6, <1>7

\* the number of objects of a working set
LEMMA WorkingSetSize ==
  ASSUME Typed, NEW b \in Nat
  PROVE  /\ IsFiniteSet(WorkingSet(b)) /\ WorkingSet(b) \subseteq Objects
         /\ Cardinality(WorkingSet(b)) = N * opt.dsets * opt.precreate
<1> DEFINE I == b..b + opt.precreate - 1
           P == Ranks \X Sets
           Q == P \X I
           g == [x \in Q |-> <<x[1][1], x[1][2], x[2]>>]
<1>0. opt.dsets \in Nat /\ opt.precreate \in Nat /\ N \in Nat
  BY OptFacts, MdworkbenchAssumption
<1>1. IsFiniteSet(I) /\ Cardinality(I) = opt.precreate /\ I \subseteq Nat
  <2>1. \A x, y \in Int : /\ IsFiniteSet(x..y)
                           /\ Cardinality(x..y) = IF x > y THEN 0 ELSE y - x + 1
    BY FS_Interval
  <2>2. b \in Int /\ b + opt.precreate - 1 \in Int
    BY <1>0
  <2>3. IsFiniteSet(I) /\ Cardinality(I) =
          IF b > b + opt.precreate - 1 THEN 0 ELSE (b + opt.precreate - 1) - b + 1
    BY <2>1, <2>2, Zenon
  <2> QED
    BY <1>0, <2>3
<1>2. IsFiniteSet(Sets) /\ Cardinality(Sets) = opt.dsets
  <2>1. \A x, y \in Int : /\ IsFiniteSet(x..y)
                           /\ Cardinality(x..y) = IF x > y THEN 0 ELSE y - x + 1
    BY FS_Interval
  <2>2. 0 \in Int /\ opt.dsets - 1 \in Int
    BY <1>0
  <2>3. IsFiniteSet(Sets) /\ Cardinality(Sets) =
          IF 0 > opt.dsets - 1 THEN 0 ELSE (opt.dsets - 1) - 0 + 1
    BY <2>1, <2>2, Zenon DEF Sets
  <2> QED
    BY <1>0, <2>3
<1> HIDE DEF I
<1>3. IsFiniteSet(P) /\ Cardinality(P) = N * opt.dsets
  BY <1>2, RanksFinite, FS_Product
<1>4. IsFiniteSet(Q) /\ Cardinality(Q) = (N * opt.dsets) * opt.precreate
  BY <1>1, <1>3, FS_Product
<1>5. g \in Bijection(Q, WorkingSet(b))
  <2>1. \A x \in Q : g[x] \in WorkingSet(b)
    BY DEF WorkingSet, I
  <2>2. \A x, y \in Q : g[x] = g[y] => x = y
    OBVIOUS
  <2>3. \A o \in WorkingSet(b) : \E x \in Q : g[x] = o
    <3>1. ASSUME NEW o \in WorkingSet(b) PROVE \E x \in Q : g[x] = o
      <4>1. /\ o = <<o[1], o[2], o[3]>> /\ o[1] \in Ranks /\ o[2] \in Sets /\ o[3] \in I
        BY DEF WorkingSet, I
      <4>2. <<<<o[1], o[2]>>, o[3]>> \in Q /\ g[<<<<o[1], o[2]>>, o[3]>>] = o
        BY <4>1
      <4> QED
        BY <4>2
    <3> QED
      BY <3>1
  <2>4. g \in [Q -> WorkingSet(b)]
    BY <2>1
  <2> HIDE DEF g, Q
  <2> QED
    BY <2>2, <2>3, <2>4 DEF Bijection, Injection, Surjection, IsInjective
<1>6. ExistsBijection(Q, WorkingSet(b))
  BY <1>5 DEF ExistsBijection
<1>7. IsFiniteSet(WorkingSet(b)) /\ Cardinality(WorkingSet(b)) = Cardinality(Q)
  BY <1>4, <1>6, FS_Bijection
<1>8. WorkingSet(b) \subseteq Objects
  BY <1>1 DEF WorkingSet, Objects, I
<1> QED
  BY <1>4, <1>7, <1>8

LEMMA FreshInit == Init => Fresh
<1> SUFFICES ASSUME Init PROVE Fresh
  OBVIOUS
<1>0. InStep /\ Typed
  BY InStepInit DEF InStep
<1>1. /\ ph = 1 /\ \A r \in Ranks : pc[r] \in {"gate", "done"} /\ index[r] = opt.start
      /\ objs = IF opt.pre THEN {} ELSE WorkingSet(opt.start)
  BY DEF Init
<1>2. \A r \in Ranks : Filled(r)
  BY <1>1 DEF Filled
<1>3. opt.start \in Nat /\ opt.precreate \in Nat
  BY <1>0, OptFacts
<1>4. objs \subseteq Objects /\ IsFiniteSet(objs)
  BY <1>0, <1>1, <1>3, WorkingSetSize, FS_EmptySet
<1>5. ASSUME NEW w \in Ranks, NEW s \in Sets, NEW i \in Nat, <<w, s, i>> \in objs
      PROVE  Below(w, s, i)
  <2>1. ~opt.pre /\ i \in opt.start..opt.start + opt.precreate - 1
    BY <1>1, <1>5 DEF WorkingSet
  <2>2. ~(ph <= Before)
    BY <1>1, <2>1 DEF Before
  <2>3. ReadRank(w, s) \in Ranks
    BY <1>0, SetFacts, Partners
  <2>4. Made(ReadRank(w, s), s) = opt.start
    BY <1>1, <1>3, <2>3 DEF Made, Position, Working, InSets
  <2> QED
    BY <1>3, <2>1, <2>2, <2>4 DEF Below
<1> QED
  BY <1>2, <1>4, <1>5 DEF Fresh

LEMMA MainObjects ==
  ASSUME Typed, [Next]_vars
  PROVE  \/ MainStep /\ UNCHANGED <<objs, dirs, bad>>
         \/ \E r \in Ranks : BarrierWait(r) \/ Work(r)
<1>1. CASE Setup
  BY <1>1, FaultFacts DEF Setup, MainStep
<1>2. CASE Report
  BY <1>2, FaultFacts DEF Report, MainStep, fs
<1>3. CASE UNCHANGED vars
  BY <1>3, FaultFacts DEF vars, MainStep
<1>4. CASE Finished
  BY <1>4, <1>3 DEF Finished
<1>5. CASE \E r \in Ranks : Rank(r)
  BY <1>5 DEF Rank, Work
<1> QED
  BY <1>1, <1>2, <1>3, <1>4, <1>5 DEF Next

LEMMA FreshNext == InStep /\ Pace /\ Fresh /\ [Next]_vars => Fresh'
<1> SUFFICES ASSUME InStep, Pace, Fresh, [Next]_vars PROVE Fresh'
  OBVIOUS
<1>1. CASE MainStep /\ UNCHANGED <<objs, dirs, bad>>
  <2>1. UNCHANGED <<opt, ph, pc, index, f, d, objs>>
    BY <1>1 DEF MainStep
  <2> QED
    BY <2>1 DEF Fresh, Below, Filled, Made, Position, Ahead, ReadRank, Sets, Objects,
       Before, Until
<1> QED
  BY <1>1, FreshWork, FreshBarrier, MainObjects DEF InStep

-----------------------------------------------------------------------------
(* The objects that are counted are the ones that are there. *)

Writers == {r \in Ranks : pc[r] = "write"}
Initially == IF opt.pre THEN 0 ELSE N * opt.dsets * opt.precreate

LEMMA ConservedMeans ==
  ObjectsConserved <=>
    (~opt.faults => Cardinality(objs) + tally.delete
                      = Initially + tally.create + Cardinality(Writers))
BY DEF ObjectsConserved, Initially, Writers

LEMMA ConservedInit == Init => ObjectsConserved
<1> SUFFICES ASSUME Init PROVE ObjectsConserved
  OBVIOUS
<1>0. Typed /\ opt.start \in Nat
  BY InStepInit, OptFacts DEF InStep
<1>1. /\ tally.delete = 0 /\ tally.create = 0
      /\ objs = IF opt.pre THEN {} ELSE WorkingSet(opt.start)
  BY DEF Init
<1>2. Writers = {}
  BY DEF Init, Writers
<1>3. Cardinality(Writers) = 0
  BY <1>2, FS_EmptySet
<1>4. Cardinality(objs) = Initially
  BY <1>0, <1>1, WorkingSetSize, FS_EmptySet DEF Initially
<1>5. Initially \in Nat
  <2>1. N * opt.dsets \in Nat /\ opt.precreate \in Nat
    BY <1>0, OptFacts, Products, MdworkbenchAssumption
  <2> QED
    BY <2>1, Products DEF Initially
<1> QED
  BY <1>1, <1>3, <1>4, <1>5, ConservedMeans

LEMMA ConservedWork ==
  ASSUME InStep, Pace, Fresh, ObjectsConserved, NEW r \in Ranks, Work(r)
  PROVE  ObjectsConserved'
<1>0. Typed /\ Ranged
  BY DEF InStep
<1>1. Alone(r) /\ opt' = opt
  BY <1>0, WorkStep DEF Single, Alone
<1> SUFFICES ASSUME ~opt.faults
             PROVE  Cardinality(objs') + tally'.delete
                      = Initially' + tally'.create + Cardinality(Writers')
  BY <1>1 DEF ObjectsConserved, Initially, Writers
<1>2. Cardinality(objs) + tally.delete = Initially + tally.create + Cardinality(Writers)
  BY ConservedMeans
<1>3. Effect(r)
  BY EffectStep
<1>4. IsFiniteSet(objs) /\ Cardinality(objs) \in Nat
  BY FS_CardinalityType DEF Fresh
<1>5. /\ Writers \subseteq Ranks /\ IsFiniteSet(Writers) /\ Cardinality(Writers) \in Nat
  BY RanksFinite DEF Writers
<1>6. Initially' = Initially /\ Initially \in Nat
  <2>1. N * opt.dsets \in Nat /\ opt.precreate \in Nat
    BY <1>0, OptFacts, Products, MdworkbenchAssumption
  <2>2. Initially \in Nat
    BY <2>1, Products DEF Initially
  <2> QED
    BY <1>1, <2>2 DEF Initially
<1>7. tally.create \in Nat /\ tally.delete \in Nat
  BY <1>0 DEF Typed, TallyType
<1>8. \A q \in Ranks : q # r => pc'[q] = pc[q]
  BY <1>1 DEF Alone, Same
<1>9. /\ pc[r] # "write" /\ pc'[r] # "write" => Writers' = Writers
      /\ pc[r] # "write" /\ pc'[r] = "write" =>
           Cardinality(Writers') = Cardinality(Writers) + 1
      /\ pc[r] = "write" /\ pc'[r] # "write" =>
           Cardinality(Writers') = Cardinality(Writers) - 1
  <2>1. CASE pc[r] # "write" /\ pc'[r] # "write"
    BY <1>8, <2>1 DEF Writers
  <2>2. CASE pc[r] # "write" /\ pc'[r] = "write"
    <3>1. Writers' = Writers \cup {r} /\ r \notin Writers
      BY <1>8, <2>2 DEF Writers
    <3> QED
      BY <1>5, <2>2, <3>1, FS_AddElement
  <2>3. CASE pc[r] = "write" /\ pc'[r] # "write"
    <3>1. Writers' = Writers \ {r} /\ r \in Writers
      BY <1>8, <2>3 DEF Writers
    <3> QED
      BY <1>5, <2>3, <3>1, FS_RemoveElement
  <2> QED
    BY <2>1, <2>2, <2>3
<1>10. /\ \A o : Puts(o) => Cardinality(objs') = Cardinality(objs) + 1
       /\ \A o : Drops(o) => Cardinality(objs') = Cardinality(objs) - 1
  BY <1>4, FS_AddElement, FS_RemoveElement DEF Puts, Drops
<1>11. \/ objs' = objs /\ Uncounted /\ Writers' = Writers
       \/ /\ Cardinality(objs') = Cardinality(objs) + 1 /\ CountsCreate /\ Writers' = Writers
       \/ /\ Cardinality(objs') = Cardinality(objs) + 1 /\ Uncounted
          /\ Cardinality(Writers') = Cardinality(Writers) + 1
       \/ /\ objs' = objs /\ CountsCreate /\ Cardinality(Writers') = Cardinality(Writers) - 1
       \/ /\ Cardinality(objs') = Cardinality(objs) - 1 /\ CountsDelete /\ Writers' = Writers
  BY <1>3, <1>9, <1>10 DEF Effect
<1> QED
  BY <1>2, <1>4, <1>5, <1>6, <1>7, <1>11 DEF Uncounted, CountsCreate, CountsDelete

LEMMA ConservedNext ==
  InStep /\ Pace /\ Fresh /\ ObjectsConserved /\ [Next]_vars => ObjectsConserved'
<1> SUFFICES ASSUME InStep, Pace, Fresh, ObjectsConserved, [Next]_vars
             PROVE  ObjectsConserved'
  OBVIOUS
<1>1. CASE MainStep /\ UNCHANGED <<objs, dirs, bad>>
  BY <1>1 DEF MainStep, ObjectsConserved
<1>2. ASSUME NEW r \in Ranks, BarrierWait(r) PROVE ObjectsConserved'
  <2>1. /\ opt' = opt /\ objs' = objs /\ tally' = tally
        /\ Arrive(r) \/ OpenIn \/ OpenOut
    BY <1>2, BarrierStep DEF fs
  <2>2. Writers' = Writers
    <3>1. CASE Arrive(r)
      BY <3>1 DEF Arrive, Writers
    <3>2. CASE OpenIn
      <4>1. \A q \in Ranks : pc[q] = "gate" /\ pc'[q] = First
        BY <3>2 DEF OpenIn, AllGate
      <4>2. First # "write"
        BY DEF First
      <4> QED
        BY <4>1, <4>2 DEF Writers
    <3>3. CASE OpenOut
      <4>1. \A q \in Ranks : pc[q] = "exit" /\ pc'[q] \in {"gate", "rmprefix", "done"}
        BY <3>3 DEF OpenOut
      <4> QED
        BY <4>1 DEF Writers
    <3> QED
      BY <2>1, <3>1, <3>2, <3>3
  <2> QED
    BY <2>1, <2>2 DEF ObjectsConserved, Writers
<1> QED
  BY <1>1, <1>2, ConservedWork, MainObjects DEF InStep

-----------------------------------------------------------------------------
(* The exact FIFO: the objects of rank w in data set s, phase by phase.    *)

\* where the working set starts in the present phase
Start == opt.start + (IF opt.readOnly THEN 0 ELSE Past * opt.num)

Located(r) ==
  index[r] = Start + (IF pc[r] = "exit" /\ Plan[ph] = "benchmark" /\ ~opt.readOnly
                      THEN opt.num ELSE 0)

Precreated(w, s, i) ==
  IF pc[w] = "fill" THEN i < f[w] \/ (i = f[w] /\ s < d[w])
  ELSE pc[w] = "exit" /\ i < opt.precreate
Queued(w, s, i) ==
  Taken(WriteRank(w, s), s) <= i /\ i < opt.precreate + Made(ReadRank(w, s), s)
Left(w, s, i) ==
  /\ Start <= i /\ i < Start + opt.precreate
  /\ \/ pc[w] = "gate"
     \/ pc[w] \in {"sweep", "rmdir"} /\ s > d[w]
     \/ pc[w] = "sweep" /\ s = d[w] /\ i >= Start + f[w]

There(w, s, i) ==
  IF ph <= Before THEN Precreated(w, s, i)
  ELSE IF ph <= Until THEN Queued(w, s, i) ELSE Left(w, s, i)

DirThere(w, s) ==
  IF ph <= Before THEN pc[w] \in {"fill", "exit"} \/ (pc[w] = "mkdir" /\ s < d[w])
  ELSE IF ph <= Until THEN TRUE
  ELSE pc[w] = "gate" \/ (pc[w] \in {"sweep", "rmdir"} /\ s >= d[w])

\* the phases of which something is said: all but the end of a run without cleanup
Live == ph <= Until \/ opt.clean

Placed == \A r \in Ranks : Located(r)
Stored ==
  Live => \A w \in Ranks, s \in Sets, i \in Nat : <<w, s, i>> \in objs <=> There(w, s, i)
Housed ==
  /\ dirs \subseteq Ranks \X Sets
  /\ Live => \A w \in Ranks, s \in Sets : <<w, s>> \in dirs <=> DirThere(w, s)
\* only objects that are being written are incomplete
Unwritten == \A o \in bad : \E r \in Ranks : pc[r] = "write" /\ o = Newest(r)
Rested == \A r \in Ranks : pc[r] = "rmdir" => f[r] = 0
Removed == opt.clean /\ pc[0] = "done" => ~prefix

FifoIn ==
  Placed /\ Stored /\ Housed /\ Unwritten /\ tally.errors = 0 /\ Rested /\ Removed
Fifo == Exact => FifoIn

LEMMA StartFacts ==
  ASSUME InStep
  PROVE  Start \in Nat /\ (ph <= Before /\ Exact => Start = 0)
<1>1. opt.start \in Nat /\ opt.num \in Nat /\ Past \in Nat /\ Past * opt.num \in Nat
  BY OptFacts, PhaseOf, Products DEF InStep
<1>2. Start \in Nat
  BY <1>1 DEF Start
<1>3. ASSUME ph <= Before, Exact PROVE Start = 0
  <2>1. Past = 0 /\ opt.pre
    BY <1>3, PhaseFacts DEF Past, Before
  <2>2. opt.start = 0 /\ Past * opt.num = 0
    BY <1>1, <1>3, <2>1 DEF Exact
  <2> QED
    BY <2>2 DEF Start
<1> QED
  BY <1>2, <1>3

LEMMA ExactFacts ==
  ASSUME InStep, Pace, Wear, Exact
  PROVE  /\ ~opt.timer /\ ~opt.faults /\ opt.num <= opt.precreate
         /\ opt.num \in Nat /\ opt.precreate \in Nat /\ opt.dsets \in Nat
         /\ Start \in Nat
BY OptFacts, StartFacts DEF Exact, InStep

\* a step of one rank keeps the phase and what depends on it
Framed ==
  /\ opt' = opt /\ ph' = ph /\ Before' = Before /\ Until' = Until /\ Plan' = Plan
  /\ Sets' = Sets /\ Start' = Start /\ (Live' <=> Live) /\ (Exact' <=> Exact)
  /\ \A w, s : ReadRank(w, s)' = ReadRank(w, s) /\ WriteRank(w, s)' = WriteRank(w, s)

LEMMA FrameWork ==
  ASSUME InStep, opt' = opt, ph' = ph
  PROVE  Framed
<1>1. Past' = Past /\ Plan' = Plan
  BY PastStep, SamePlan
<1> QED
  BY <1>1 DEF Framed, Before, Until, Sets, Start, Live, Exact, ReadRank, WriteRank

\* nobody looks for an object that is not there or not complete
LEMMA OldestThere ==
  ASSUME InStep, Wear, Pace, Fresh, Exact, FifoIn, NEW r \in Ranks,
         pc[r] \in {"stat", "read", "unlink"}
  PROVE  /\ Oldest(r) \in objs /\ Oldest(r) \notin bad
         /\ Taken(r, d[r]) = IF opt.readOnly THEN index[r] ELSE index[r] + f[r]
<1>0. Typed /\ Ranged /\ RangedIn(r) /\ Paced(r)
  BY DEF InStep, Pace, Ranged, RangedIn
<1>1. /\ ~opt.timer /\ ~opt.faults /\ opt.num <= opt.precreate
      /\ opt.num \in Nat /\ opt.precreate \in Nat /\ opt.dsets \in Nat /\ Start \in Nat
  BY ExactFacts
<1>2. ph > Before /\ ph <= Until /\ ph \in Nat /\ Before \in Nat /\ Until \in Nat
  BY PhaseNumber, PhaseFacts, PhaseOf DEF Working, InSets
<1> DEFINE s == d[r]
           w == ReadRank(r, s)
           i == f[r] + index[r]
<1>3. /\ f[r] \in Nat /\ index[r] \in Nat /\ s \in Nat /\ s \in Sets /\ i \in Nat
      /\ f[r] < opt.num
  BY <1>0, <1>1, SetFacts DEF Typed, RangedIn, InSets, Paced, InBody
<1>4. w \in Ranks /\ WriteRank(w, s) = r /\ ReadRank(w, s) \in Ranks
  BY <1>0, <1>3, Partners
<1>5. index[r] = Start
  BY <1>1, <1>3 DEF FifoIn, Placed, Located
<1>6. \A q \in Ranks : index[q] \in Nat /\ index[q] >= Start
  BY <1>0, <1>1 DEF FifoIn, Placed, Located, Typed
<1>7. Taken(r, s) = IF opt.readOnly THEN index[r] ELSE index[r] + f[r]
  BY <1>3 DEF Taken, Position, Ahead, Working, InSets, InBody
<1>8. Made(ReadRank(w, s), s) \in Nat /\ Made(ReadRank(w, s), s) >= Start
  <2>1. /\ Made(ReadRank(w, s), s) \in Nat
        /\ Made(ReadRank(w, s), s) >= index[ReadRank(w, s)]
    BY <1>0, <1>4, PositionType DEF Made
  <2> QED
    BY <1>1, <1>4, <1>6, <2>1
<1>9. Queued(w, s, i)
  BY <1>1, <1>3, <1>4, <1>5, <1>7, <1>8 DEF Queued
<1>10. There(w, s, i) /\ Live
  BY <1>2, <1>9 DEF There, Live
<1>11. Oldest(r) = <<w, s, i>>
  BY DEF Oldest
<1>12. Oldest(r) \in objs
  <2> HIDE DEF w, s, i
  <2> QED
    BY <1>3, <1>4, <1>10, <1>11 DEF FifoIn, Stored
<1>13. Oldest(r) \notin bad
  <2> SUFFICES ASSUME Oldest(r) \in bad PROVE FALSE
    OBVIOUS
  <2>1. PICK q \in Ranks : pc[q] = "write" /\ Oldest(r) = Newest(q)
    BY DEF FifoIn, Unwritten
  <2>2. i = opt.precreate + f[q] + index[q]
    BY <2>1 DEF Oldest, Newest
  <2>3. f[q] \in Nat /\ index[q] \in Nat /\ index[q] >= Start
    BY <1>0, <1>6 DEF Typed
  <2> QED
    BY <1>1, <1>3, <1>5, <2>2, <2>3
<1> QED
  BY <1>7, <1>12, <1>13

LEMMA NoErrorCounted ==
  ASSUME Typed
  PROVE  /\ \A k \in {"create", "read", "stat", "delete"} :
              Counted(k) => tally'.errors = tally.errors
         /\ UNCHANGED tally => tally'.errors = tally.errors
BY SMTT(30) DEF Typed, TallyType, Counted

\* a step of a benchmark phase in an exact run: it leaves the objects and the rank's
\* positions alone, takes the oldest object, or makes the newest
Steady(r) == \A s \in Sets : Taken(r, s)' = Taken(r, s) /\ Made(r, s)' = Made(r, s)

Passes(r) ==
  /\ objs' = objs /\ Steady(r) /\ pc'[r] # "write"
  /\ \/ pc[r] # "write" /\ bad' = bad
     \/ pc[r] = "write" /\ bad' = bad \ {Newest(r)}
  /\ \/ index' = index /\ pc'[r] # "exit"
     \/ /\ pc'[r] = "exit"
        /\ index'[r] = IF opt.readOnly THEN index[r] ELSE index[r] + opt.num
Takes(r) ==
  /\ pc[r] = "unlink" /\ pc'[r] = "open" /\ Drops(Oldest(r)) /\ bad' \subseteq bad
  /\ UNCHANGED <<index, f, d>>
Makes(r) ==
  /\ pc[r] = "open" /\ pc'[r] = "write" /\ Puts(Newest(r)) /\ bad' = bad \cup {Newest(r)}
  /\ UNCHANGED <<index, f, d>>

Moves(r) ==
  /\ UNCHANGED <<dirs, prefix>> /\ tally'.errors = tally.errors
  /\ pc'[r] \notin {"rmdir", "done"}
  /\ Passes(r) \/ Takes(r) \/ Makes(r)

\* the rank's positions do not change where it only goes on
LEMMA SteadyStep ==
  ASSUME InStep, Pace, ~opt.faults, ~opt.timer, NEW r \in Ranks, Filled(r),
         Stat(r) \/ Read(r) \/ Write(r) \/ Lap(r) \/ Leave(r),
         Stat(r) => pc'[r] = "read" /\ d' = d
  PROVE  Steady(r)
<1>0. Typed /\ Ranged /\ RangedIn(r) /\ Joined /\ Paced(r) /\ Work(r)
  BY DEF InStep, Pace, Ranged, RangedIn, Work
<1>1. opt' = opt
  BY <1>0, WorkStep DEF Single, Alone
<1>2. ~Fault
  BY <1>0, JoinedStep
<1> SUFFICES ASSUME NEW s \in Sets
             PROVE  Taken(r, s)' = Taken(r, s) /\ Made(r, s)' = Made(r, s)
  BY DEF Steady
<1>3. /\ f[r] \in Nat /\ d[r] \in Nat /\ index[r] \in Nat /\ s \in Nat /\ s < opt.dsets
      /\ opt.dsets \in Nat
  BY <1>0, SetFacts, OptFacts DEF Typed
<1>4. CASE Stat(r)
  <2>1. UNCHANGED <<f, index, d>> /\ pc[r] = "stat" /\ pc'[r] = "read"
    BY <1>4 DEF Stat, InSet
  <2> QED
    BY <1>1, <2>1 DEF Taken, Made, Position, Ahead, Working, InSets, InBody
<1>5. CASE Read(r) \/ Write(r)
  <2>1. UNCHANGED <<f, index>> /\ pc[r] \in {"read", "write"}
    BY <1>5 DEF Read, Write, InSet
  <2>2. \/ d'[r] = d[r] + 1 /\ pc'[r] \in {"stat", "lap"} /\ (pc[r] = "write" \/ opt.readOnly)
        \/ d' = d /\ pc[r] = "read" /\ pc'[r] = "unlink"
    BY <1>0, <1>2, <1>5 DEF Read, Write, NextSet, Goto, Typed
  <2>3. pc[r] \in Working \ {"exit"} /\ pc'[r] \in Working \ {"exit"}
        /\ pc[r] \in InBody /\ pc'[r] \in InBody
    BY <2>1, <2>2 DEF Working, InSets, InBody
  <2>4. CASE d'[r] = d[r] + 1 /\ pc'[r] \in {"stat", "lap"} /\ pc[r] = "write"
    <3>1. /\ Ahead(r, s, {"write"})' = Ahead(r, s, {"write"})
          /\ Ahead(r, s, {"open", "write"})' = Ahead(r, s, {"open", "write"})
      BY <1>3, <2>3, <2>4 DEF Ahead
    <3> QED
      BY <1>1, <2>1, <2>3, <3>1 DEF Taken, Made, Position
  <2>5. CASE opt.readOnly
    BY <1>1, <2>1, <2>5 DEF Taken, Made, Position
  <2>6. CASE d' = d /\ pc[r] = "read" /\ pc'[r] = "unlink"
    BY <1>1, <2>1, <2>3, <2>6 DEF Taken, Made, Position, Ahead
  <2> QED
    BY <2>2, <2>4, <2>5, <2>6
<1>6. CASE Lap(r)
  <2>1. pc[r] = "lap" /\ d[r] = opt.dsets /\ f'[r] = f[r] + 1 /\ index' = index
        /\ (pc'[r] = "leave" \/ (pc'[r] \in {"stat", "lap"} /\ d'[r] = 0))
    BY <1>0, <1>6 DEF Lap, LoopFrame, LoopHead, NextSet, Goto, Typed, Paced
  <2>2. \A labels \in {{"write"}, {"open", "write"}} :
          Ahead(r, s, labels) = 1 /\ Ahead(r, s, labels)' = 0
    BY <1>3, <2>1 DEF Ahead, InBody, InSets
  <2>3. pc[r] \in Working \ {"exit"} /\ pc'[r] \in Working \ {"exit"}
    BY <2>1 DEF Working, InSets
  <2> QED
    BY <1>1, <1>3, <2>1, <2>2, <2>3 DEF Made, Taken, Position
<1>7. CASE Leave(r)
  <2>1. pc[r] = "leave" /\ pc'[r] = "exit" /\ f' = f
        /\ index'[r] = IF opt.readOnly THEN index[r] ELSE index[r] + f[r]
    BY <1>0, <1>7 DEF Leave, Goto, Typed
  <2>2. \A labels \in {{"write"}, {"open", "write"}} : Ahead(r, s, labels) = 0
    BY <2>1 DEF Ahead, InBody, InSets
  <2> QED
    BY <1>1, <1>3, <2>1, <2>2 DEF Made, Taken, Position, Working
<1> QED
  BY <1>4, <1>5, <1>6, <1>7

LEMMA MovesStep ==
  ASSUME InStep, Wear, Pace, Fresh, Exact, FifoIn, NEW r \in Ranks, Work(r),
         pc[r] \in Working
  PROVE  Moves(r)
<1>0. Typed /\ Ranged /\ RangedIn(r) /\ Joined /\ Paced(r)
  BY DEF InStep, Pace, Ranged, RangedIn
<1>1. /\ ~opt.timer /\ ~opt.faults /\ opt.num <= opt.precreate
      /\ opt.num \in Nat /\ opt.precreate \in Nat /\ opt.dsets \in Nat /\ Start \in Nat
  BY ExactFacts
<1>2. ~Fault
  BY <1>0, <1>1, JoinedStep
<1>3. /\ f[r] \in Nat /\ d[r] \in Nat /\ index[r] \in Nat
  BY <1>0 DEF Typed
<1>4. Filled(r)
  BY <1>1 DEF Fresh
<1>5. /\ \A k \in {"create", "read", "stat", "delete"} : Counted(k) => tally'.errors = tally.errors
      /\ UNCHANGED tally => tally'.errors = tally.errors
  BY <1>0, NoErrorCounted
<1>6. pc[r] \in {"stat", "read", "unlink"} => Oldest(r) \in objs /\ Oldest(r) \notin bad
  BY OldestThere
<1>7. CASE Stat(r)
  <2>1. /\ pc[r] = "stat" /\ pc'[r] = "read" /\ Counted("stat")
        /\ UNCHANGED <<d, objs, bad, dirs, prefix, index>>
    BY <1>0, <1>2, <1>6, <1>7 DEF Stat, Goto, Typed, InSet, OutsidePhase
  <2>2. Steady(r)
    BY <1>1, <1>4, <1>7, <2>1, SteadyStep
  <2> QED
    BY <1>5, <2>1, <2>2 DEF Moves, Passes
<1>8. CASE Read(r)
  <2>1. /\ pc[r] = "read" /\ pc'[r] \in {"stat", "lap", "unlink"} /\ Counted("read")
        /\ UNCHANGED <<objs, bad, dirs, prefix, index>>
    BY <1>0, <1>2, <1>6, <1>8 DEF Read, NextSet, Goto, Typed, InSet, OutsidePhase
  <2>2. Steady(r)
    BY <1>1, <1>4, <1>8, <2>1, SteadyStep DEF Stat
  <2> QED
    BY <1>5, <2>1, <2>2 DEF Moves, Passes
<1>9. CASE Unlink(r)
  <2>1. /\ pc[r] = "unlink" /\ pc'[r] = "open" /\ Counted("delete")
        /\ Drops(Oldest(r)) /\ bad' \subseteq bad
        /\ UNCHANGED <<f, d, dirs, prefix, index>>
    BY <1>0, <1>2, <1>6, <1>9 DEF Unlink, Goto, Typed, InSet, OutsidePhase, Drops
  <2> QED
    BY <1>5, <2>1 DEF Moves, Takes
<1>10. CASE Open(r)
  <2>1. pc[r] = "open"
    BY <1>10 DEF Open
  <2>2. Effect(r)
    BY <1>1, EffectStep
  <2>3. d[r] \in Sets /\ WriteRank(r, d[r]) \in Ranks
    BY <1>0, <1>3, <2>1, SetFacts, Partners DEF RangedIn, InSets
  <2>4. ph > Before /\ ph <= Until /\ ph \in Nat /\ Before \in Nat
    BY <2>1, PhaseNumber, PhaseFacts, PhaseOf DEF Working, InSets
  <2>5. <<WriteRank(r, d[r]), d[r]>> \in dirs
    BY <2>3, <2>4 DEF FifoIn, Housed, DirThere, Live
  <2>6. <<Newest(r)[1], Newest(r)[2]>> \in dirs
    BY <2>5 DEF Newest
  <2>7. /\ pc'[r] = "write" /\ UNCHANGED <<tally, f, d, index, dirs, prefix>>
        /\ bad' = IF Newest(r) \in objs THEN bad ELSE bad \cup {Newest(r)}
    BY <1>0, <1>2, <1>10, <2>6 DEF Open, Goto, Typed, InSet, OutsidePhase
  <2>8. Puts(Newest(r))
    BY <2>1, <2>2, <2>7 DEF Effect
  <2>9. bad' = bad \cup {Newest(r)}
    BY <2>7, <2>8 DEF Puts
  <2> QED
    BY <1>5, <2>1, <2>7, <2>8, <2>9 DEF Moves, Makes
<1>11. CASE Write(r)
  <2>1. /\ pc[r] = "write" /\ pc'[r] \in {"stat", "lap"} /\ Counted("create")
        /\ bad' = bad \ {Newest(r)} /\ UNCHANGED <<objs, dirs, prefix, index>>
    BY <1>0, <1>2, <1>11 DEF Write, NextSet, Goto, Typed, InSet, OutsidePhase
  <2>2. Steady(r)
    BY <1>1, <1>4, <1>11, <2>1, SteadyStep DEF Stat
  <2> QED
    BY <1>5, <2>1, <2>2 DEF Moves, Passes
<1>12. CASE Lap(r)
  <2>1. /\ pc[r] = "lap" /\ pc'[r] \in {"stat", "lap", "leave"}
        /\ UNCHANGED <<tally, objs, bad, dirs, prefix, index>>
    BY <1>0, <1>1, <1>12 DEF Lap, LoopHead, NextSet, Goto, Typed, LoopFrame, OutsidePhase
  <2>2. Steady(r)
    BY <1>1, <1>4, <1>12, <2>1, SteadyStep DEF Stat
  <2> QED
    BY <1>5, <2>1, <2>2 DEF Moves, Passes
<1>13. CASE Leave(r)
  <2>1. /\ pc[r] = "leave" /\ pc'[r] = "exit" /\ UNCHANGED <<tally, objs, bad, dirs, prefix>>
        /\ index'[r] = IF opt.readOnly THEN index[r] ELSE index[r] + f[r]
    BY <1>0, <1>13 DEF Leave, Goto, Typed, OutsidePhase
  <2>2. Steady(r)
    BY <1>1, <1>4, <1>13, <2>1, SteadyStep DEF Stat
  <2>3. f[r] = opt.num
    BY <1>0, <1>1, <2>1 DEF Paced
  <2> QED
    BY <1>5, <2>1, <2>2, <2>3 DEF Moves, Passes
<1>14. ~Contribute(r) /\ ~Spin(r)
  BY <1>0, <1>1 DEF Contribute, Spin, Paced
<1>15. ~(Mkdir(r) \/ Fill(r) \/ Sweep(r) \/ Rmdir(r) \/ RmPrefix(r))
  BY DEF Mkdir, Fill, Sweep, Rmdir, RmPrefix, Working, InSets
<1> QED
  BY <1>7, <1>8, <1>9, <1>10, <1>11, <1>12, <1>13, <1>14, <1>15 DEF Work

\* no rank is further than the phase goes
LEMMA TakenBound ==
  ASSUME InStep, Wear, Pace, Exact, Placed, NEW q \in Ranks, NEW s
  PROVE  Taken(q, s) \in Nat /\ Taken(q, s) <= Start + opt.num
<1>0. Typed /\ Paced(q) /\ Located(q)
  BY DEF InStep, Pace, Placed
<1>1. /\ ~opt.timer /\ opt.num \in Nat /\ Start \in Nat
      /\ f[q] \in Nat /\ index[q] \in Nat
  BY <1>0, ExactFacts DEF Typed
<1>2. index[q] = Start \/ (index[q] = Start + opt.num /\ pc[q] = "exit")
  BY <1>0, <1>1 DEF Located
<1>3. /\ Ahead(q, s, {"open", "write"}) \in {0, 1}
      /\ pc[q] \notin InBody => Ahead(q, s, {"open", "write"}) = 0
  BY DEF Ahead
<1>4. pc[q] \in Working \ {"exit"} =>
        f[q] + Ahead(q, s, {"open", "write"}) <= opt.num /\ index[q] = Start
  <2>1. CASE pc[q] \in InBody
    BY <1>0, <1>1, <1>2, <1>3, <2>1 DEF Paced, InBody, InSets
  <2>2. CASE pc[q] \in Working \ {"exit"} /\ pc[q] \notin InBody
    <3>1. pc[q] = "leave"
      BY <1>0, <1>1, <2>2 DEF Paced, InBody, Working
    <3> QED
      BY <1>0, <1>1, <1>2, <1>3, <2>2, <3>1 DEF Paced
  <2> QED
    BY <2>1, <2>2
<1>5. Taken(q, s) \in Nat
  BY <1>0, PositionType DEF Taken
<1> QED
  BY <1>1, <1>2, <1>3, <1>4, <1>5 DEF Taken, Position

\* taking and making move the rank's position in one data set, and the queue with it
LEMMA TakesPosition ==
  ASSUME Typed, opt' = opt, NEW r \in Ranks, Takes(r) \/ Makes(r), ~opt.readOnly
  PROVE  /\ Takes(r) => Taken(r, d[r]) = index[r] + f[r]
         /\ Makes(r) => Made(r, d[r]) = index[r] + f[r]
         /\ \A s \in Nat :
              /\ Taken(r, s)' = Taken(r, s) + (IF Takes(r) /\ s = d[r] THEN 1 ELSE 0)
              /\ Made(r, s)' = Made(r, s) + (IF Makes(r) /\ s = d[r] THEN 1 ELSE 0)
<1>0. f[r] \in Nat /\ d[r] \in Nat /\ index[r] \in Nat
  BY DEF Typed
<1>1. CASE Takes(r)
  <2>1. /\ pc[r] = "unlink" /\ pc'[r] = "open" /\ UNCHANGED <<index, f, d>> /\ ~Makes(r)
    BY <1>1 DEF Takes, Makes
  <2>2. Taken(r, d[r]) = index[r] + f[r]
    BY <1>0, <2>1 DEF Taken, Position, Ahead, Working, InSets
  <2>3. ASSUME NEW s \in Nat
        PROVE  /\ Taken(r, s)' = Taken(r, s) + (IF s = d[r] THEN 1 ELSE 0)
               /\ Made(r, s)' = Made(r, s)
    BY <1>0, <2>1 DEF Taken, Made, Position, Ahead, Working, InSets, InBody
  <2>4. \A s \in Nat : Made(r, s) \in Nat
    BY PositionType DEF Made
  <2> QED
    BY <1>1, <2>1, <2>2, <2>3, <2>4
<1>2. CASE Makes(r)
  <2>1. /\ pc[r] = "open" /\ pc'[r] = "write" /\ UNCHANGED <<index, f, d>> /\ ~Takes(r)
    BY <1>2 DEF Takes, Makes
  <2>2. Made(r, d[r]) = index[r] + f[r]
    BY <1>0, <2>1 DEF Made, Position, Ahead, Working, InSets
  <2>3. ASSUME NEW s \in Nat
        PROVE  /\ Made(r, s)' = Made(r, s) + (IF s = d[r] THEN 1 ELSE 0)
               /\ Taken(r, s)' = Taken(r, s)
    BY <1>0, <2>1 DEF Taken, Made, Position, Ahead, Working, InSets, InBody
  <2>4. \A s \in Nat : Taken(r, s) \in Nat
    BY PositionType DEF Taken
  <2> QED
    BY <1>2, <2>1, <2>2, <2>3, <2>4
<1> QED
  BY <1>1, <1>2

LEMMA QueueMoves ==
  ASSUME InStep, Wear, Pace, Fresh, Exact, FifoIn, NEW r \in Ranks, Alone(r), Moves(r),
         pc[r] \in Working \ {"exit"}, Framed,
         NEW w \in Ranks, NEW s \in Sets, NEW i \in Nat
  PROVE  <<w, s, i>> \in objs' <=> Queued(w, s, i)'
<1>0. Typed /\ Ranged /\ RangedIn(r)
  BY DEF InStep, Ranged, RangedIn
<1>1. /\ ~opt.timer /\ ~opt.faults /\ opt.precreate \in Nat /\ opt.dsets \in Nat
  BY ExactFacts
<1>2. /\ f[r] \in Nat /\ d[r] \in Nat /\ index[r] \in Nat /\ s \in Nat
  BY <1>0, SetFacts DEF Typed
<1>3. PICK u \in Ranks : u = WriteRank(w, s)
  BY <1>0, <1>2, Partners
<1>4. PICK v \in Ranks : v = ReadRank(w, s)
  BY <1>0, <1>2, Partners
<1>5. ReadRank(u, s) = w /\ WriteRank(v, s) = w
  BY <1>0, <1>2, <1>3, <1>4, Partners
<1>6. Taken(u, s) \in Nat /\ Made(v, s) \in Nat
  BY <1>0, PositionType DEF Taken, Made
<1>7. /\ u # r => Taken(u, s)' = Taken(u, s)
      /\ v # r => Made(v, s)' = Made(v, s)
  BY PositionSame DEF Taken, Made
<1>8. Queued(w, s, i)' <=> Taken(u, s)' <= i /\ i < opt.precreate + Made(v, s)'
  <2>1. opt' = opt /\ WriteRank(w, s)' = u /\ ReadRank(w, s)' = v
    BY <1>3, <1>4 DEF Framed
  <2> QED
    BY <2>1 DEF Queued, Taken, Made, Position, Ahead
<1>9. <<w, s, i>> \in objs <=> Taken(u, s) <= i /\ i < opt.precreate + Made(v, s)
  <2>1. ph > Before /\ ph <= Until /\ ph \in Nat /\ Before \in Nat /\ Until \in Nat
    BY PhaseNumber, PhaseFacts, PhaseOf
  <2>2. <<w, s, i>> \in objs <=> There(w, s, i)
    BY <2>1 DEF FifoIn, Stored, Live
  <2> QED
    BY <1>3, <1>4, <2>1, <2>2 DEF There, Queued
<1>10. CASE Passes(r)
  <2>1. Taken(u, s)' = Taken(u, s) /\ Made(v, s)' = Made(v, s)
    BY <1>7, <1>10 DEF Passes, Steady
  <2> QED
    BY <1>8, <1>9, <1>10, <2>1 DEF Passes
<1>11. CASE Takes(r) \/ Makes(r)
  <2>1. ~opt.readOnly
    BY <1>1, <1>11 DEF Fresh, Filled, Takes, Makes
  <2>2. opt' = opt
    BY DEF Framed
  <2>3. /\ Takes(r) => Taken(r, d[r]) = index[r] + f[r]
        /\ Makes(r) => Made(r, d[r]) = index[r] + f[r]
        /\ Taken(r, s)' = Taken(r, s) + (IF Takes(r) /\ s = d[r] THEN 1 ELSE 0)
        /\ Made(r, s)' = Made(r, s) + (IF Makes(r) /\ s = d[r] THEN 1 ELSE 0)
    BY <1>0, <1>2, <1>11, <2>1, <2>2, TakesPosition
  <2>4. ~(Takes(r) /\ Makes(r))
    BY DEF Takes, Makes
  <2>5. CASE Takes(r)
    <3>1. objs' = objs \ {Oldest(r)}
      BY <2>5 DEF Takes, Drops
    <3>2. Made(v, s)' = Made(v, s)
      BY <1>6, <1>7, <2>3, <2>4, <2>5
    <3>3. CASE u = r /\ s = d[r]
      <4>1. <<w, s, i>> = Oldest(r) <=> i = f[r] + index[r]
        BY <1>5, <3>3 DEF Oldest
      <4>2. Taken(u, s) = index[r] + f[r] /\ Taken(u, s)' = index[r] + f[r] + 1
        BY <1>2, <2>3, <2>5, <3>3
      <4> QED
        BY <1>2, <1>8, <1>9, <3>1, <3>2, <4>1, <4>2
    <3>4. CASE ~(u = r /\ s = d[r])
      <4>1. <<w, s, i>> # Oldest(r)
        <5>1. s = d[r] => w # ReadRank(r, s)
          <6>1. WriteRank(ReadRank(r, s), s) = r
            BY <1>0, <1>2, Partners
          <6> QED
            BY <1>3, <3>4, <6>1
        <5> QED
          BY <5>1 DEF Oldest
      <4>2. Taken(u, s)' = Taken(u, s)
        BY <1>6, <1>7, <2>3, <3>4
      <4> QED
        BY <1>8, <1>9, <3>1, <3>2, <4>1, <4>2
    <3> QED
      BY <3>3, <3>4
  <2>6. CASE Makes(r)
    <3>1. objs' = objs \cup {Newest(r)}
      BY <2>6 DEF Makes, Puts
    <3>2. Taken(u, s)' = Taken(u, s)
      BY <1>6, <1>7, <2>3, <2>4, <2>6
    <3>3. CASE v = r /\ s = d[r]
      <4>1. <<w, s, i>> = Newest(r) <=> i = opt.precreate + f[r] + index[r]
        BY <1>5, <3>3 DEF Newest
      <4>2. Made(v, s) = index[r] + f[r] /\ Made(v, s)' = index[r] + f[r] + 1
        BY <1>2, <2>3, <2>6, <3>3
      <4>3. Taken(u, s) <= opt.precreate + f[r] + index[r]
        <5>1. Taken(u, s) <= Start + opt.num
          BY TakenBound DEF FifoIn
        <5>2. index[r] = Start
          <6>1. pc[r] # "exit"
            BY <2>6 DEF Makes
          <6> QED
            BY <6>1, ExactFacts DEF FifoIn, Placed, Located
        <5> QED
          BY <1>1, <1>2, <1>6, <5>1, <5>2, ExactFacts
      <4> QED
        BY <1>1, <1>2, <1>8, <1>9, <3>1, <3>2, <4>1, <4>2, <4>3
    <3>4. CASE ~(v = r /\ s = d[r])
      <4>1. <<w, s, i>> # Newest(r)
        <5>1. s = d[r] => w # WriteRank(r, s)
          <6>1. ReadRank(WriteRank(r, s), s) = r
            BY <1>0, <1>2, Partners
          <6> QED
            BY <1>4, <3>4, <6>1
        <5> QED
          BY <5>1 DEF Newest
      <4>2. Made(v, s)' = Made(v, s)
        BY <1>6, <1>7, <2>3, <3>4
      <4> QED
        BY <1>8, <1>9, <3>1, <3>2, <4>1, <4>2
    <3> QED
      BY <3>3, <3>4
  <2> QED
    BY <1>11, <2>5, <2>6
<1> QED
  BY <1>10, <1>11 DEF Moves

\* what a step of rank r leaves to show about itself
LEMMA OthersStay ==
  ASSUME InStep, NEW r \in Ranks, Alone(r), Framed, NEW q \in Ranks, q # r
  PROVE  /\ Located(q) => Located(q)'
         /\ pc'[q] = pc[q] /\ f'[q] = f[q] /\ d'[q] = d[q]
         /\ Newest(q)' = Newest(q)
BY DEF Alone, Same, Framed, Located, Newest

LEMMA ExactWork ==
  ASSUME InStep, Wear, Pace, Exact, FifoIn, NEW r \in Ranks, Work(r)
  PROVE  /\ Alone(r) /\ Proceeds(r) /\ Framed /\ ~Fault /\ faults' = faults
         /\ pc[r] \notin {"exit", "gate", "done"}
<1>0. Typed /\ Ranged /\ Joined
  BY DEF InStep, Pace
<1>1. Alone(r) /\ Proceeds(r)
  BY <1>0, WorkStep DEF Single
<1>2. Framed
  BY <1>1, FrameWork DEF Alone
<1>3. ~Fault /\ faults' = faults
  BY <1>0, JoinedStep, ExactFacts
<1>4. pc[r] \notin {"exit", "gate", "done"}
  BY <1>1 DEF Proceeds, Filling, Working, Cleaning, InSets
<1> QED
  BY <1>1, <1>2, <1>3, <1>4

LEMMA FifoBench ==
  ASSUME InStep, Wear, Pace, Fresh, Exact, FifoIn, NEW r \in Ranks, Work(r),
         pc[r] \in Working
  PROVE  FifoIn'
<1>0. Typed /\ Ranged /\ ph <= Until /\ ~(ph <= Before) /\ Plan[ph] = "benchmark"
  BY PhaseNumber, LabelPhase, PhaseFacts, PhaseOf, ExactWork DEF InStep
<1>1. Alone(r) /\ Framed /\ pc[r] # "exit"
  BY ExactWork
<1>2. Moves(r)
  BY MovesStep
<1>3. Placed'
  <2>1. \A q \in Ranks : q # r => Located(q)'
    BY <1>1, OthersStay DEF FifoIn, Placed
  <2>2. index[r] = Start
    BY <1>1, ExactFacts DEF FifoIn, Placed, Located
  <2>3. \/ index' = index /\ pc'[r] # "exit"
        \/ /\ pc'[r] = "exit"
           /\ index'[r] = IF opt.readOnly THEN index[r] ELSE index[r] + opt.num
    BY <1>2 DEF Moves, Passes, Takes, Makes
  <2>4. opt' = opt /\ ph' = ph /\ Plan' = Plan /\ Start' = Start /\ Start \in Nat
    BY <1>1, StartFacts DEF Framed
  <2>5. Located(r)'
    BY <1>0, <2>2, <2>3, <2>4 DEF Located
  <2> QED
    BY <2>1, <2>5 DEF Placed
<1>4. Stored'
  <2>1. ASSUME NEW w \in Ranks, NEW s \in Sets, NEW i \in Nat
        PROVE  <<w, s, i>> \in objs' <=> There(w, s, i)'
    <3>1. <<w, s, i>> \in objs' <=> Queued(w, s, i)'
      BY <1>1, <1>2, QueueMoves
    <3>2. ph' = ph /\ Before' = Before /\ Until' = Until
      BY <1>1 DEF Framed
    <3> QED
      BY <1>0, <3>1, <3>2 DEF There
  <2> QED
    BY <1>1, <2>1 DEF Stored, Framed
<1>5. Housed'
  <2>1. dirs' = dirs /\ ph' = ph /\ Before' = Before /\ Until' = Until /\ Sets' = Sets
    BY <1>1, <1>2 DEF Framed, Moves
  <2>2. Live
    BY <1>0 DEF Live
  <2>3. dirs \subseteq Ranks \X Sets /\ \A w \in Ranks, s \in Sets : <<w, s>> \in dirs
    BY <1>0, <2>2 DEF FifoIn, Housed, DirThere
  <2> QED
    BY <1>0, <2>1, <2>3 DEF Housed, DirThere
<1>6. Unwritten'
  <2>1. ASSUME NEW o \in bad', o \in bad, ~(pc[r] = "write" /\ o = Newest(r))
        PROVE  \E q \in Ranks : pc'[q] = "write" /\ o = Newest(q)'
    <3>1. PICK q \in Ranks : pc[q] = "write" /\ o = Newest(q)
      BY <2>1 DEF FifoIn, Unwritten
    <3>2. q # r
      BY <2>1, <3>1
    <3> QED
      BY <1>1, <3>1, <3>2, OthersStay
  <2>2. CASE Passes(r) \/ Takes(r)
    <3>1. bad' \subseteq bad /\ \A o \in bad' : ~(pc[r] = "write" /\ o = Newest(r))
      BY <2>2 DEF Passes, Takes
    <3> QED
      BY <2>1, <3>1 DEF Unwritten
  <2>3. CASE Makes(r)
    <3>1. pc[r] = "open" /\ pc'[r] = "write" /\ bad' = bad \cup {Newest(r)}
      BY <2>3 DEF Makes
    <3>2. Newest(r)' = Newest(r)
      BY <1>1, <2>3 DEF Makes, Newest, Framed
    <3>3. \A o \in bad' : \E q \in Ranks : pc'[q] = "write" /\ o = Newest(q)'
      BY <2>1, <3>1, <3>2
    <3> QED
      BY <3>3 DEF Unwritten
  <2> QED
    BY <1>2, <2>2, <2>3 DEF Moves
<1>7. tally'.errors = 0
  BY <1>2 DEF Moves, FifoIn
<1>8. Rested'
  <2>1. pc'[r] # "rmdir"
    BY <1>2 DEF Moves
  <2> QED
    BY <1>1, <2>1, OthersStay DEF FifoIn, Rested
<1>9. Removed'
  <2>1. prefix' = prefix /\ pc'[r] # "done" /\ opt' = opt /\ \A q \in Ranks : q # r => pc'[q] = pc[q]
    BY <1>1, <1>2 DEF Moves, Framed, Alone, Same
  <2>2. 0 \in Ranks
    BY MdworkbenchAssumption DEF Ranks
  <2> QED
    BY <2>1, <2>2 DEF FifoIn, Removed
<1> QED
  BY <1>3, <1>4, <1>5, <1>6, <1>7, <1>8, <1>9 DEF FifoIn

\* outside the benchmark nothing is being written
LEMMA FifoKeeps ==
  ASSUME InStep, FifoIn, NEW r \in Ranks, Alone(r), Framed,
         pc[r] # "write", bad' \subseteq bad, tally'.errors = tally.errors,
         Located(r)', Stored', Housed', Removed',
         pc'[r] = "rmdir" => f'[r] = 0
  PROVE  FifoIn'
<1>1. Placed'
  BY OthersStay DEF FifoIn, Placed
<1>2. Unwritten'
  <2>1. ASSUME NEW o \in bad'
        PROVE  \E q \in Ranks : pc'[q] = "write" /\ o = Newest(q)'
    <3>1. PICK q \in Ranks : pc[q] = "write" /\ o = Newest(q)
      BY <2>1 DEF FifoIn, Unwritten
    <3>2. q # r
      BY <3>1
    <3> QED
      BY <3>1, <3>2, OthersStay
  <2> QED
    BY <2>1 DEF Unwritten
<1>3. Rested'
  BY OthersStay DEF FifoIn, Rested
<1> QED
  BY <1>1, <1>2, <1>3 DEF FifoIn

LEMMA RemovedStays ==
  ASSUME Removed, NEW r \in Ranks, Alone(r), prefix' = prefix, pc'[r] # "done"
  PROVE  Removed'
<1>1. 0 \in Ranks
  BY MdworkbenchAssumption DEF Ranks
<1> QED
  BY <1>1 DEF Removed, Alone, Same

LEMMA FifoFill ==
  ASSUME InStep, Wear, Pace, Fresh, Exact, FifoIn, NEW r \in Ranks, Mkdir(r) \/ Fill(r)
  PROVE  FifoIn'
<1>0. Typed /\ Ranged /\ RangedIn(r) /\ Filled(r) /\ Work(r)
  BY ExactFacts DEF InStep, Ranged, RangedIn, Fresh, Work
<1>1. Alone(r) /\ Framed /\ ~Fault /\ pc[r] \in {"mkdir", "fill"}
  BY <1>0, ExactWork DEF Mkdir, Fill
<1>2. /\ ph <= Before /\ Plan[ph] = "precreate" /\ Before <= Until /\ ph \in Nat
      /\ Before \in Nat /\ Until \in Nat
  BY <1>1, PhaseNumber, LabelPhase, PhaseFacts, PhaseOf DEF Filling
<1>3. /\ opt' = opt /\ ph' = ph /\ Before' = Before /\ Until' = Until /\ Plan' = Plan
      /\ Sets' = Sets /\ Start' = Start /\ Start = 0 /\ Live
  BY <1>1, <1>2, StartFacts DEF Framed, Live
<1>4. /\ f[r] \in Nat /\ d[r] \in Nat /\ index[r] = 0 /\ opt.dsets \in Nat /\ d[r] < opt.dsets
      /\ opt.precreate \in Nat /\ d[r] \in Sets
  BY <1>0, <1>1, <1>2, <1>3, OptFacts, SetFacts
     DEF Typed, RangedIn, FifoIn, Placed, Located
<1>5. index' = index /\ prefix' = prefix /\ pc'[r] \in {"mkdir", "fill", "exit"}
  BY <1>0, <1>1 DEF Mkdir, Fill, StartFill, NextFill, Goto, OutsidePhase, Typed
<1>6. Located(r)' /\ Removed' /\ pc'[r] # "rmdir" /\ pc[r] # "write"
  <2>1. Located(r)'
    BY <1>2, <1>3, <1>4, <1>5 DEF Located
  <2>2. Removed'
    BY <1>1, <1>5, RemovedStays DEF FifoIn
  <2> QED
    BY <1>1, <1>5, <2>1, <2>2
<1>7. /\ \A w \in Ranks, s \in Sets, i \in Nat : <<w, s, i>> \in objs <=> Precreated(w, s, i)
      /\ dirs \subseteq Ranks \X Sets
      /\ \A w \in Ranks, s \in Sets :
           <<w, s>> \in dirs <=> pc[w] \in {"fill", "exit"} \/ (pc[w] = "mkdir" /\ s < d[w])
  BY <1>2, <1>3 DEF FifoIn, Stored, Housed, There, DirThere
<1>8. \A w \in Ranks : w # r => \A s \in Sets, i \in Nat :
        Precreated(w, s, i)' <=> Precreated(w, s, i)
  <2>1. \A w \in Ranks : w # r => pc'[w] = pc[w] /\ f'[w] = f[w] /\ d'[w] = d[w]
    BY <1>1, OthersStay
  <2> QED
    BY <1>3, <2>1 DEF Precreated
<1>9. \A s \in Sets : s \in Nat /\ s < opt.dsets
  BY <1>0, SetFacts
<1>10. ASSUME Mkdir(r)
       PROVE  /\ dirs' = dirs \cup {<<r, d[r]>>} /\ objs' = objs /\ bad' = bad
              /\ UNCHANGED tally /\ pc[r] = "mkdir"
              /\ \/ d[r] + 1 < opt.dsets /\ d'[r] = d[r] + 1 /\ pc'[r] = "mkdir"
                 \/ /\ d[r] + 1 = opt.dsets /\ f'[r] = 0 /\ d'[r] = 0
                    /\ pc'[r] = IF 0 < opt.precreate THEN "fill" ELSE "exit"
  BY <1>0, <1>1, <1>4, <1>10 DEF Mkdir, StartFill, Goto, Typed
<1>11. ASSUME Fill(r)
       PROVE  /\ dirs' = dirs /\ objs' = objs \cup {<<r, d[r], f[r]>>} /\ bad' \subseteq bad
              /\ Counted("create") /\ pc[r] = "fill"
              /\ \/ d[r] + 1 < opt.dsets /\ d'[r] = d[r] + 1 /\ pc'[r] = "fill" /\ f'[r] = f[r]
                 \/ /\ d[r] + 1 = opt.dsets /\ f'[r] = f[r] + 1 /\ d'[r] = 0
                    /\ pc'[r] = IF f[r] + 1 < opt.precreate THEN "fill" ELSE "exit"
  <2>1. /\ dirs' = dirs /\ objs' = objs \cup {<<r, d[r], f[r]>>} /\ bad' \subseteq bad
        /\ Counted("create") /\ pc[r] = "fill" /\ NextFill(r)
    BY <1>1, <1>11 DEF Fill
  <2> QED
    BY <1>0, <1>4, <2>1 DEF NextFill, Goto, Typed
<1>12. \A s \in Sets, i \in Nat : <<r, s, i>> \in objs' <=> Precreated(r, s, i)'
  <2>1. CASE Mkdir(r)
    BY <1>3, <1>4, <1>7, <1>9, <1>10, <2>1 DEF Precreated
  <2>2. CASE Fill(r)
    <3>1. f[r] < opt.precreate
      BY <1>0, <1>11, <2>2 DEF Filled
    <3>2. \A s \in Sets, i \in Nat :
            <<r, s, i>> \in objs' <=> i < f[r] \/ (i = f[r] /\ s <= d[r])
      BY <1>4, <1>7, <1>9, <1>11, <2>2 DEF Precreated
    <3>3. \A s \in Sets, i \in Nat :
            Precreated(r, s, i)' <=> i < f[r] \/ (i = f[r] /\ s <= d[r])
      BY <1>3, <1>4, <1>9, <1>11, <2>2, <3>1 DEF Precreated
    <3> QED
      BY <3>2, <3>3
  <2> QED
    BY <2>1, <2>2
<1>13. \A w \in Ranks : w # r => \A s \in Sets, i \in Nat :
         <<w, s, i>> \in objs' <=> Precreated(w, s, i)'
  <2>1. \A w \in Ranks : w # r => \A s, i : <<w, s, i>> \in objs' <=> <<w, s, i>> \in objs
    BY <1>10, <1>11
  <2> QED
    BY <1>7, <1>8, <2>1
<1>14. Stored'
  <2>1. \A w \in Ranks, s \in Sets, i \in Nat : <<w, s, i>> \in objs' <=> Precreated(w, s, i)'
    BY <1>12, <1>13
  <2> QED
    BY <1>2, <1>3, <2>1 DEF Stored, There
<1>15. Housed'
  <2>1. dirs' \subseteq Ranks \X Sets
    BY <1>4, <1>7, <1>10, <1>11
  <2>2. \A w \in Ranks : w # r => \A s \in Sets : <<w, s>> \in dirs' <=> DirThere(w, s)'
    <3>1. \A w \in Ranks : w # r => pc'[w] = pc[w] /\ d'[w] = d[w]
      BY <1>1, OthersStay
    <3>2. \A w \in Ranks : w # r => \A s : <<w, s>> \in dirs' <=> <<w, s>> \in dirs
      BY <1>10, <1>11
    <3> QED
      BY <1>2, <1>3, <1>7, <3>1, <3>2 DEF DirThere
  <2>3. \A s \in Sets : <<r, s>> \in dirs' <=> DirThere(r, s)'
    <3>1. CASE Mkdir(r)
      <4>1. \A s \in Sets : <<r, s>> \in dirs' <=> s <= d[r]
        BY <1>4, <1>7, <1>9, <1>10, <3>1
      <4>2. \A s \in Sets : DirThere(r, s)' <=> s <= d[r]
        BY <1>2, <1>3, <1>4, <1>9, <1>10, <3>1 DEF DirThere
      <4> QED
        BY <4>1, <4>2
    <3>2. CASE Fill(r)
      BY <1>2, <1>3, <1>7, <1>11, <3>2 DEF DirThere
    <3> QED
      BY <3>1, <3>2
  <2> QED
    BY <1>3, <2>1, <2>2, <2>3 DEF Housed
<1>16. bad' \subseteq bad /\ tally'.errors = tally.errors
  BY <1>0, <1>10, <1>11, NoErrorCounted
<1> QED
  BY <1>1, <1>6, <1>14, <1>15, <1>16, FifoKeeps

LEMMA CleanFacts ==
  ASSUME InStep, Wear, Pace, Fresh, Exact, FifoIn, NEW r \in Ranks,
         pc[r] \in {"sweep", "rmdir"}
  PROVE  /\ ~(ph <= Before) /\ ~(ph <= Until) /\ Plan[ph] = "cleanup" /\ Live
         /\ f[r] \in Nat /\ d[r] \in Nat /\ index[r] = Start /\ Start \in Nat
         /\ opt.dsets \in Nat /\ d[r] < opt.dsets /\ opt.precreate \in Nat /\ d[r] \in Sets
         /\ \A w \in Ranks, s \in Sets, i \in Nat : <<w, s, i>> \in objs <=> Left(w, s, i)
         /\ \A w \in Ranks, s \in Sets :
              <<w, s>> \in dirs <=> pc[w] = "gate" \/ (pc[w] \in {"sweep", "rmdir"} /\ s >= d[w])
<1>0. Typed /\ Ranged
  BY DEF InStep
<1>1. /\ ph > Until /\ ph <= Len(Plan) /\ Plan[ph] = "cleanup" /\ Before <= Until /\ ph \in Nat
      /\ Before \in Nat /\ Until \in Nat /\ Len(Plan) \in Nat
  BY PhaseNumber, LabelPhase, PhaseFacts, PhaseOf DEF Cleaning
<1>2. ~(ph <= Before) /\ ~(ph <= Until)
  BY <1>1
<1>3. opt.clean
  BY <1>1, PhaseOf
<1>4. Live
  BY <1>3 DEF Live
<1>5. /\ f[r] \in Nat /\ d[r] \in Nat /\ opt.dsets \in Nat /\ opt.precreate \in Nat
      /\ d[r] < opt.dsets /\ Start \in Nat
  BY <1>0, OptFacts, StartFacts DEF Typed, Ranged
<1>6. index[r] = Start
  BY <1>1, <1>5 DEF FifoIn, Placed, Located
<1> QED
  BY <1>0, <1>1, <1>2, <1>4, <1>5, <1>6, SetFacts DEF FifoIn, Stored, Housed, There, DirThere

LEMMA FifoSweep ==
  ASSUME InStep, Wear, Pace, Fresh, Exact, FifoIn, NEW r \in Ranks, Sweep(r)
  PROVE  FifoIn'
<1>0. Typed /\ Work(r) /\ pc[r] = "sweep"
  BY DEF InStep, Work, Sweep
<1>1. Alone(r) /\ Framed /\ ~Fault
  BY <1>0, ExactWork
<1>2. /\ opt' = opt /\ ph' = ph /\ Before' = Before /\ Until' = Until /\ Plan' = Plan
      /\ Sets' = Sets /\ Start' = Start
  BY <1>1 DEF Framed
<1>3. /\ ~(ph <= Before) /\ ~(ph <= Until) /\ Plan[ph] = "cleanup" /\ Live
      /\ f[r] \in Nat /\ d[r] \in Nat /\ index[r] = Start /\ Start \in Nat
      /\ opt.dsets \in Nat /\ d[r] < opt.dsets /\ opt.precreate \in Nat /\ d[r] \in Sets
      /\ \A w \in Ranks, s \in Sets, i \in Nat : <<w, s, i>> \in objs <=> Left(w, s, i)
      /\ \A w \in Ranks, s \in Sets :
           <<w, s>> \in dirs <=> pc[w] = "gate" \/ (pc[w] \in {"sweep", "rmdir"} /\ s >= d[w])
  BY <1>0, CleanFacts
<1>4. /\ objs' = objs \ {<<r, d[r], f[r] + index[r]>>} /\ bad' \subseteq bad
      /\ Counted("delete") \/ UNCHANGED tally
      /\ UNCHANGED <<index, d, prefix, dirs>>
      /\ \/ f[r] + 1 < opt.precreate /\ f'[r] = f[r] + 1 /\ pc'[r] = "sweep"
         \/ ~(f[r] + 1 < opt.precreate) /\ f'[r] = 0 /\ pc'[r] = "rmdir"
  <2>1. /\ objs' = objs \ {<<r, d[r], f[r] + index[r]>>} /\ bad' \subseteq bad
        /\ Counted("delete") \/ UNCHANGED tally
    BY <1>1 DEF Sweep
  <2> QED
    BY <1>0, <2>1 DEF Sweep, Goto, CleanupFrame, Typed
<1>5. Located(r)' /\ Removed' /\ bad' \subseteq bad /\ tally'.errors = tally.errors
  <2>1. Located(r)'
    BY <1>2, <1>3, <1>4 DEF Located
  <2>2. Removed'
    BY <1>1, <1>4, RemovedStays DEF FifoIn
  <2> QED
    BY <1>0, <1>4, <2>1, <2>2, NoErrorCounted
<1>6. \A w \in Ranks : w # r => pc'[w] = pc[w] /\ f'[w] = f[w] /\ d'[w] = d[w]
  BY <1>1, OthersStay
<1>7. \A s \in Sets, i \in Nat : <<r, s, i>> \in objs' <=> Left(r, s, i)'
  <2>1. \A s \in Sets : s \in Nat
    BY <1>0, SetFacts
  <2>2. \A s \in Sets, i \in Nat : <<r, s, i>> \in objs' <=>
          /\ Start <= i /\ i < Start + opt.precreate
          /\ s > d[r] \/ (s = d[r] /\ i >= Start + (f[r] + 1))
    BY <1>0, <1>3, <1>4, <2>1 DEF Left
  <2>3. \A s \in Sets, i \in Nat : Left(r, s, i)' <=>
          /\ Start <= i /\ i < Start + opt.precreate
          /\ s > d[r] \/ (s = d[r] /\ i >= Start + (f[r] + 1))
    BY <1>2, <1>3, <1>4, <2>1 DEF Left
  <2> QED
    BY <2>2, <2>3
<1>8. \A w \in Ranks : w # r => \A s \in Sets, i \in Nat : <<w, s, i>> \in objs' <=> Left(w, s, i)'
  <2>1. \A w \in Ranks : w # r => \A s, i : <<w, s, i>> \in objs' <=> <<w, s, i>> \in objs
    BY <1>4
  <2>2. \A w \in Ranks : w # r => \A s, i : Left(w, s, i)' <=> Left(w, s, i)
    BY <1>2, <1>6 DEF Left
  <2> QED
    BY <1>3, <2>1, <2>2
<1>9. Stored'
  <2>1. \A w \in Ranks, s \in Sets, i \in Nat : <<w, s, i>> \in objs' <=> Left(w, s, i)'
    BY <1>7, <1>8
  <2> QED
    BY <1>2, <1>3, <2>1 DEF Stored, There
<1>10. Housed'
  <2>1. \A w \in Ranks : pc'[w] = pc[w] \/ (pc[w] = "sweep" /\ pc'[w] \in {"sweep", "rmdir"})
    BY <1>0, <1>4, <1>6
  <2>2. \A w \in Ranks, s \in Sets : DirThere(w, s)' <=>
          pc[w] = "gate" \/ (pc[w] \in {"sweep", "rmdir"} /\ s >= d[w])
    BY <1>2, <1>3, <1>4, <2>1 DEF DirThere
  <2>3. dirs' = dirs /\ dirs \subseteq Ranks \X Sets
    BY <1>4 DEF FifoIn, Housed
  <2> QED
    BY <1>2, <1>3, <2>2, <2>3 DEF Housed
<1> QED
  BY <1>0, <1>1, <1>4, <1>5, <1>9, <1>10, FifoKeeps

LEMMA FifoRmdir ==
  ASSUME InStep, Wear, Pace, Fresh, Exact, FifoIn, NEW r \in Ranks, Rmdir(r)
  PROVE  FifoIn'
<1>0. Typed /\ Work(r) /\ pc[r] = "rmdir"
  BY DEF InStep, Work, Rmdir
<1>1. Alone(r) /\ Framed /\ ~Fault
  BY <1>0, ExactWork
<1>2. /\ opt' = opt /\ ph' = ph /\ Before' = Before /\ Until' = Until /\ Plan' = Plan
      /\ Sets' = Sets /\ Start' = Start
  BY <1>1 DEF Framed
<1>3. /\ ~(ph <= Before) /\ ~(ph <= Until) /\ Plan[ph] = "cleanup" /\ Live
      /\ f[r] \in Nat /\ d[r] \in Nat /\ index[r] = Start /\ Start \in Nat
      /\ opt.dsets \in Nat /\ d[r] < opt.dsets /\ opt.precreate \in Nat /\ d[r] \in Sets
      /\ \A w \in Ranks, s \in Sets, i \in Nat : <<w, s, i>> \in objs <=> Left(w, s, i)
      /\ \A w \in Ranks, s \in Sets :
           <<w, s>> \in dirs <=> pc[w] = "gate" \/ (pc[w] \in {"sweep", "rmdir"} /\ s >= d[w])
  BY <1>0, CleanFacts
<1>4. f[r] = 0
  BY <1>0 DEF FifoIn, Rested
<1>5. \A o \in objs : ~(o[1] = r /\ o[2] = d[r])
  <2> SUFFICES ASSUME NEW o \in objs, o[1] = r, o[2] = d[r] PROVE FALSE
    OBVIOUS
  <2>1. o \in Objects
    BY ExactFacts DEF Fresh
  <2>2. PICK i \in Nat : o = <<r, d[r], i>>
    BY <2>1 DEF Objects
  <2>3. Left(r, d[r], i)
    BY <1>3, <2>2
  <2> QED
    BY <1>0, <1>3, <2>3 DEF Left
<1>6. /\ dirs' = dirs \ {<<r, d[r]>>} /\ d'[r] = d[r] + 1
      /\ UNCHANGED <<f, index, prefix, objs, bad, tally>>
      /\ pc'[r] = IF d[r] + 1 < opt.dsets
                    THEN IF opt.precreate > 0 THEN "sweep" ELSE "rmdir" ELSE "exit"
  <2>1. dirs' = dirs \ {<<r, d[r]>>}
    BY <1>1, <1>5 DEF Rmdir
  <2> QED
    BY <1>0, <2>1 DEF Rmdir, NextSet, Goto, CleanupFrame, Typed
<1>7. Located(r)' /\ Removed'
  <2>1. Located(r)'
    BY <1>2, <1>3, <1>6 DEF Located
  <2>2. Removed'
    BY <1>1, <1>6, RemovedStays DEF FifoIn
  <2> QED
    BY <2>1, <2>2
<1>8. \A w \in Ranks : w # r => pc'[w] = pc[w] /\ f'[w] = f[w] /\ d'[w] = d[w]
  BY <1>1, OthersStay
<1>9. \A s \in Sets : s \in Nat /\ s < opt.dsets
  BY <1>0, SetFacts
<1>10. \A s \in Sets, i \in Nat : <<r, s, i>> \in objs' <=> Left(r, s, i)'
  <2>1. \A s \in Sets, i \in Nat : <<r, s, i>> \in objs' <=>
          Start <= i /\ i < Start + opt.precreate /\ s > d[r]
    BY <1>0, <1>3, <1>6, <1>9 DEF Left
  <2>2. \A s \in Sets, i \in Nat : Left(r, s, i)' <=>
          Start <= i /\ i < Start + opt.precreate /\ s > d[r]
    <3>1. CASE d[r] + 1 < opt.dsets /\ opt.precreate > 0
      <4>1. pc'[r] = "sweep" /\ f'[r] = 0
        BY <1>4, <1>6, <3>1
      <4> QED
        BY <1>2, <1>3, <1>6, <1>9, <4>1 DEF Left
    <3>2. CASE d[r] + 1 < opt.dsets /\ ~(opt.precreate > 0)
      BY <1>2, <1>3, <1>6, <1>9, <3>2 DEF Left
    <3>3. CASE ~(d[r] + 1 < opt.dsets)
      BY <1>2, <1>3, <1>6, <1>9, <3>3 DEF Left
    <3> QED
      BY <3>1, <3>2, <3>3
  <2> QED
    BY <2>1, <2>2
<1>11. Stored'
  <2>1. \A w \in Ranks : w # r => \A s, i : Left(w, s, i)' <=> Left(w, s, i)
    BY <1>2, <1>8 DEF Left
  <2>2. \A w \in Ranks, s \in Sets, i \in Nat : <<w, s, i>> \in objs' <=> Left(w, s, i)'
    BY <1>3, <1>6, <1>10, <2>1
  <2> QED
    BY <1>2, <1>3, <2>2 DEF Stored, There
<1>12. Housed'
  <2>1. \A w \in Ranks : w # r => \A s \in Sets : <<w, s>> \in dirs' <=> DirThere(w, s)'
    BY <1>2, <1>3, <1>6, <1>8 DEF DirThere
  <2>2. \A s \in Sets : <<r, s>> \in dirs' <=> s > d[r]
    BY <1>0, <1>3, <1>6, <1>9
  <2>3. \A s \in Sets : DirThere(r, s)' <=> s > d[r]
    BY <1>2, <1>3, <1>6, <1>9 DEF DirThere
  <2>4. dirs' \subseteq Ranks \X Sets
    BY <1>6 DEF FifoIn, Housed
  <2> QED
    BY <1>2, <2>1, <2>2, <2>3, <2>4 DEF Housed
<1> QED
  BY <1>0, <1>1, <1>4, <1>6, <1>7, <1>11, <1>12, FifoKeeps

\* when the last rank has left the cleanup nothing is left to remove
LEMMA NothingLeft ==
  ASSUME InStep, Fresh, Exact, FifoIn, opt.clean, ~opt.faults,
         \A q \in Ranks : pc[q] \in Ending
  PROVE  objs = {} /\ dirs = {}
<1>1. ~(ph <= Before) /\ ~(ph <= Until)
  <2>1. 0 \in Ranks
    BY MdworkbenchAssumption DEF Ranks
  <2> QED
    BY <2>1, PhaseNumber, PhaseFacts, PhaseOf
<1>2. Live
  BY DEF Live
<1>3. \A w \in Ranks, s \in Sets, i \in Nat : <<w, s, i>> \notin objs
  BY <1>1, <1>2 DEF FifoIn, Stored, There, Left, Ending
<1>4. \A w \in Ranks, s \in Sets : <<w, s>> \notin dirs
  BY <1>1, <1>2 DEF FifoIn, Housed, DirThere, Ending
<1>5. objs \subseteq Objects /\ dirs \subseteq Ranks \X Sets
  BY DEF Fresh, FifoIn, Housed
<1> QED
  BY <1>3, <1>4, <1>5 DEF Objects

LEMMA FifoRmPrefix ==
  ASSUME InStep, Wear, Pace, Fresh, Exact, FifoIn, NEW r \in Ranks, RmPrefix(r)
  PROVE  FifoIn'
<1>0. Typed /\ Work(r) /\ pc[r] = "rmprefix"
  BY DEF InStep, Work, RmPrefix
<1>1. Alone(r) /\ Framed
  BY <1>0, ExactWork
<1>2. /\ opt' = opt /\ ph' = ph /\ Before' = Before /\ Until' = Until /\ Plan' = Plan
      /\ Sets' = Sets /\ Start' = Start /\ (Live' <=> Live)
  BY <1>1 DEF Framed
<1>3. /\ prefix' = (dirs # {}) /\ pc'[r] = "done"
      /\ UNCHANGED <<f, d, index, dirs, objs, bad, tally>>
  BY <1>0 DEF RmPrefix, Goto, CleanupFrame, Typed
<1>4. ~(ph <= Before) /\ ~(ph <= Until)
  BY <1>0, PhaseNumber, PhaseFacts, PhaseOf DEF Ending
<1>5. Located(r)'
  BY <1>0, <1>2, <1>3 DEF FifoIn, Placed, Located
<1>6. \A w \in Ranks : w # r => pc'[w] = pc[w]
  BY <1>1, OthersStay
<1>7. Stored'
  <2>1. \A w \in Ranks : \A s, i : Left(w, s, i)' <=> Left(w, s, i)
    BY <1>0, <1>2, <1>3, <1>6 DEF Left
  <2> QED
    BY <1>2, <1>3, <1>4, <2>1 DEF FifoIn, Stored, There
<1>8. Housed'
  <2>1. \A w \in Ranks : \A s : DirThere(w, s)' <=> DirThere(w, s)
    BY <1>0, <1>2, <1>3, <1>4, <1>6 DEF DirThere
  <2> QED
    BY <1>2, <1>3, <2>1 DEF FifoIn, Housed
<1>9. Removed'
  <2>1. ASSUME opt.clean PROVE dirs = {}
    <3>1. \A q \in Ranks : pc[q] \in Ending
      <4>1. ph = Len(Plan) + 1 /\ Len(Plan) \in Nat
        BY <1>0, LabelPhase, PhaseFacts DEF Ending
      <4>2. ~(ph <= Len(Plan))
        BY <4>1
      <4> QED
        BY <4>2 DEF InStep, Lockstep, AllOut
    <3> QED
      BY <2>1, <3>1, NothingLeft, ExactFacts
  <2> QED
    BY <1>2, <1>3, <2>1 DEF Removed
<1> QED
  BY <1>0, <1>1, <1>3, <1>5, <1>7, <1>8, <1>9, FifoKeeps

LEMMA FifoWork ==
  ASSUME InStep, Wear, Pace, Fresh, Exact, FifoIn, NEW r \in Ranks, Work(r)
  PROVE  FifoIn'
<1>1. CASE Stat(r) \/ Read(r) \/ Unlink(r) \/ Open(r) \/ Write(r)
           \/ Lap(r) \/ Contribute(r) \/ Spin(r) \/ Leave(r)
  <2>1. pc[r] \in Working
    BY <1>1 DEF Stat, Read, Unlink, Open, Write, Lap, Contribute, Spin, Leave, Working, InSets
  <2> QED
    BY <2>1, FifoBench
<1> QED
  BY <1>1, FifoFill, FifoSweep, FifoRmdir, FifoRmPrefix DEF Work

\* a rank that is not in the loop is where its index is
LEMMA AtIndex ==
  ASSUME Typed, NEW q \in Ranks, NEW s,
         pc[q] \notin Working \ {"exit"}
  PROVE  Taken(q, s) = index[q] /\ Made(q, s) = index[q]
BY DEF Typed, Taken, Made, Position

LEMMA FifoOpenIn ==
  ASSUME InStep, Wear, Pace, Exact, FifoIn, OpenIn,
         UNCHANGED <<opt, index, prefix, dirs, objs, bad, tally>>
  PROVE  FifoIn'
<1>0. Typed
  BY DEF InStep
<1>1. /\ ph' = ph /\ ph <= Len(Plan)
      /\ \A q \in Ranks : pc[q] = "gate" /\ pc'[q] = First /\ f'[q] = 0 /\ d'[q] = 0
  BY DEF OpenIn, EnterPhase, AllGate
<1>2. Framed
  BY <1>1, FrameWork
<1>3. /\ Before' = Before /\ Until' = Until /\ Plan' = Plan /\ Sets' = Sets
      /\ Start' = Start /\ (Live' <=> Live)
      /\ \A w, s : ReadRank(w, s)' = ReadRank(w, s) /\ WriteRank(w, s)' = WriteRank(w, s)
  BY <1>2 DEF Framed
<1>4. /\ ph \in Nat /\ Before \in Nat /\ Until \in Nat /\ Before <= Until
      /\ Plan[ph] = IF ph <= Before THEN "precreate"
                    ELSE IF ph <= Until THEN "benchmark" ELSE "cleanup"
  BY <1>1, PhaseFacts, PhaseOf
<1>5. /\ opt.num \in Nat /\ opt.precreate \in Nat /\ opt.dsets \in Nat /\ Start \in Nat
  BY ExactFacts
<1>6. \A q \in Ranks : index[q] = Start /\ index'[q] = Start
  BY <1>1, <1>5 DEF FifoIn, Placed, Located
<1>7. /\ First \notin {"write", "done", "unlink", "open"}
      /\ First = "exit" => Plan[ph] # "benchmark"
      /\ ph <= Before => First = "mkdir" \/ opt.dsets = 0
      /\ ph > Until =>
           (First = "sweep" /\ opt.precreate > 0)
              \/ (First = "rmdir" /\ opt.precreate = 0) \/ opt.dsets = 0
  BY <1>4, <1>5 DEF First
<1> HIDE DEF First
<1>8. \A s \in Sets : s \in Nat /\ s < opt.dsets
  BY <1>0, SetFacts
<1>9. Placed'
  BY <1>1, <1>3, <1>5, <1>6, <1>7 DEF Placed, Located
<1>10. Unwritten' /\ Rested' /\ tally'.errors = 0
  BY <1>1 DEF FifoIn, Unwritten, Rested
<1>11. Removed'
  <2>1. 0 \in Ranks
    BY MdworkbenchAssumption DEF Ranks
  <2> QED
    BY <1>1, <1>7, <2>1 DEF Removed
<1>12. ASSUME NEW w \in Ranks, NEW s \in Sets, NEW i \in Nat
       PROVE  There(w, s, i)' <=> There(w, s, i)
  <2>0. s \in Nat /\ s < opt.dsets /\ opt.dsets # 0
    BY <1>5, <1>8
  <2>1. CASE ph <= Before
    BY <1>1, <1>3, <1>7, <2>0, <2>1 DEF There, Precreated
  <2>2. CASE ~(ph <= Before) /\ ph <= Until
    <3>1. PICK u \in Ranks : u = WriteRank(w, s)
      BY <1>0, <2>0, Partners
    <3>2. PICK v \in Ranks : v = ReadRank(w, s)
      BY <1>0, <2>0, Partners
    <3>3. Taken(u, s) = Start /\ Made(v, s) = Start
      BY <1>0, <1>1, <1>6, AtIndex DEF Working, InSets
    <3>4. Taken(u, s)' = Start /\ Made(v, s)' = Start
      <4>1. \A q \in Ranks : \A labels \in {{"write"}, {"open", "write"}} : Ahead(q, s, labels)' = 0
        BY <1>1, <1>7, <2>0 DEF Ahead
      <4> QED
        BY <1>1, <1>5, <1>6, <4>1 DEF Taken, Made, Position
    <3>5. WriteRank(w, s)' = u /\ ReadRank(w, s)' = v
      BY <1>3, <3>1, <3>2
    <3>6. Queued(w, s, i)' <=> Taken(u, s)' <= i /\ i < opt.precreate + Made(v, s)'
      BY <3>5 DEF Queued, Taken, Made, Position, Ahead
    <3>7. Queued(w, s, i) <=> Taken(u, s) <= i /\ i < opt.precreate + Made(v, s)
      BY <3>1, <3>2 DEF Queued
    <3> QED
      BY <1>1, <1>3, <2>2, <3>3, <3>4, <3>6, <3>7 DEF There
  <2>3. CASE ~(ph <= Before) /\ ~(ph <= Until)
    <3>1. Left(w, s, i) <=> Start <= i /\ i < Start + opt.precreate
      BY <1>1 DEF Left
    <3>2. Left(w, s, i)' <=> Start <= i /\ i < Start + opt.precreate
      BY <1>1, <1>3, <1>4, <1>5, <1>7, <2>0, <2>3 DEF Left
    <3> QED
      BY <1>1, <1>3, <2>3, <3>1, <3>2 DEF There
  <2> QED
    BY <2>1, <2>2, <2>3
<1>13. Stored'
  BY <1>3, <1>12 DEF FifoIn, Stored
<1>14. Housed'
  <2>1. ASSUME NEW w \in Ranks, NEW s \in Sets PROVE DirThere(w, s)' <=> DirThere(w, s)
    <3>0. s \in Nat /\ s < opt.dsets /\ opt.dsets # 0
      BY <1>5, <1>8
    <3> QED
      BY <1>1, <1>3, <1>4, <1>7, <3>0 DEF DirThere
  <2> QED
    BY <1>3, <2>1 DEF FifoIn, Housed
<1> QED
  BY <1>9, <1>10, <1>11, <1>13, <1>14 DEF FifoIn

LEMMA FifoOpenOut ==
  ASSUME InStep, Wear, Pace, Exact, FifoIn, OpenOut,
         UNCHANGED <<opt, index, prefix, dirs, objs, bad, tally>>
  PROVE  FifoIn'
<1>0. Typed
  BY DEF InStep
<1>1. /\ ph' = ph + 1 /\ ph <= Len(Plan) /\ f' = f /\ d' = d
      /\ \A q \in Ranks : pc[q] = "exit" /\ pc'[q] \in {"gate", "rmprefix", "done"}
      /\ ph < Len(Plan) => \A q \in Ranks : pc'[q] = "gate"
      /\ ph = Len(Plan) => \A q \in Ranks : pc'[q] # "gate"
      /\ Plan[ph] = "cleanup" => pc'[0] # "done"
  <2>1. 0 \in Ranks /\ Len(Plan) \in Nat /\ ph \in Nat
    BY PhaseFacts, MdworkbenchAssumption DEF Ranks
  <2> QED
    BY <2>1 DEF OpenOut
<1>2. Before' = Before /\ Until' = Until /\ Plan' = Plan /\ Sets' = Sets
      /\ \A w, s : ReadRank(w, s)' = ReadRank(w, s) /\ WriteRank(w, s)' = WriteRank(w, s)
  BY SamePlan DEF Before, Until, Sets, ReadRank, WriteRank
<1>3. /\ ph \in Nat /\ ph >= 1 /\ Before \in Nat /\ Until \in Nat /\ Before <= Until /\ Before <= 1
      /\ Plan[ph] = IF ph <= Before THEN "precreate"
                    ELSE IF ph <= Until THEN "benchmark" ELSE "cleanup"
      /\ Len(Plan) \in Nat /\ Until <= Len(Plan)
      /\ (opt.clean => Len(Plan) = Until + 1) /\ (~opt.clean => Len(Plan) = Until)
  BY <1>1, PhaseFacts, PhaseOf DEF Before
<1>4. /\ opt.num \in Nat /\ opt.precreate \in Nat /\ opt.dsets \in Nat /\ Start \in Nat
      /\ opt.start \in Nat
  BY <1>0, ExactFacts, OptFacts
<1>5. PICK b \in Nat : b = Start'
      /\ b = Start + (IF Plan[ph] = "benchmark" /\ ~opt.readOnly THEN opt.num ELSE 0)
  <2>1. Past' = Past + (IF Plan[ph] = "benchmark" THEN 1 ELSE 0) /\ Past \in Nat
    BY <1>1, PastStep, PhaseOf
  <2>2. Past * opt.num \in Nat /\ (Past + 1) * opt.num = Past * opt.num + opt.num
    BY <1>4, <2>1, Products
  <2>3. Past' * opt.num =
          Past * opt.num + (IF Plan[ph] = "benchmark" THEN opt.num ELSE 0)
    <3>1. CASE Plan[ph] = "benchmark"
      BY <2>1, <2>2, <3>1
    <3>2. CASE Plan[ph] # "benchmark"
      <4>1. Past' = Past
        BY <2>1, <3>2
      <4> QED
        BY <2>2, <3>2, <4>1
    <3> QED
      BY <3>1, <3>2
  <2>4. Start' = opt.start + (IF opt.readOnly THEN 0 ELSE Past' * opt.num)
    BY DEF Start
  <2>5. Start' = Start + (IF Plan[ph] = "benchmark" /\ ~opt.readOnly THEN opt.num ELSE 0)
    BY <1>4, <2>2, <2>3, <2>4 DEF Start
  <2> QED
    BY <1>4, <2>5
<1>6. \A q \in Ranks : index[q] = b /\ index'[q] = b
  BY <1>1, <1>4, <1>5 DEF FifoIn, Placed, Located
<1>7. Placed'
  BY <1>1, <1>5, <1>6 DEF Placed, Located
<1>8. Unwritten' /\ Rested' /\ tally'.errors = 0
  BY <1>1 DEF FifoIn, Unwritten, Rested
<1>9. Removed'
  <2>1. ASSUME opt.clean, pc'[0] = "done" PROVE FALSE
    <3>1. 0 \in Ranks
      BY MdworkbenchAssumption DEF Ranks
    <3>2. ph = Len(Plan)
      BY <1>1, <1>3, <2>1, <3>1
    <3>3. Plan[ph] = "cleanup"
      BY <1>3, <2>1, <3>2
    <3> QED
      BY <1>1, <2>1, <3>3
  <2> QED
    BY <2>1 DEF Removed
<1>10. ASSUME Live' PROVE Live /\ (ph > Until => ph = Len(Plan)) /\ (ph <= Until /\ ph + 1 > Until => ph < Len(Plan))
  BY <1>1, <1>2, <1>3, <1>10 DEF Live
<1>11. ASSUME NEW w \in Ranks, NEW s \in Sets, NEW i \in Nat, Live'
       PROVE  There(w, s, i)' <=> There(w, s, i)
  <2>0. s \in Nat
    BY <1>0, SetFacts
  <2>1. There(w, s, i) <=> ph <= Until /\ b <= i /\ i < b + opt.precreate
    <3>1. CASE ph <= Before
      <4>1. b = 0
        BY <1>3, <1>5, <3>1, StartFacts
      <4> QED
        BY <1>1, <1>3, <1>4, <3>1, <4>1 DEF There, Precreated
    <3>2. CASE ~(ph <= Before) /\ ph <= Until
      <4>1. WriteRank(w, s) \in Ranks /\ ReadRank(w, s) \in Ranks
        BY <1>0, <2>0, Partners
      <4>2. Taken(WriteRank(w, s), s) = b /\ Made(ReadRank(w, s), s) = b
        BY <1>0, <1>1, <1>6, <4>1, AtIndex
      <4> QED
        BY <1>4, <3>2, <4>2 DEF There, Queued
    <3>3. CASE ~(ph <= Until)
      BY <1>1, <1>3, <3>3 DEF There, Left
    <3> QED
      BY <3>1, <3>2, <3>3
  <2>2. There(w, s, i)' <=> ph <= Until /\ b <= i /\ i < b + opt.precreate
    <3>1. ~(ph + 1 <= Before)
      BY <1>3
    <3>2. CASE ph + 1 <= Until
      <4>1. PICK u \in Ranks : u = WriteRank(w, s)
        BY <1>0, <2>0, Partners
      <4>2. PICK v \in Ranks : v = ReadRank(w, s)
        BY <1>0, <2>0, Partners
      <4>3. Taken(u, s)' = b /\ Made(v, s)' = b
        BY <1>1, <1>6 DEF Taken, Made, Position, Working, InSets
      <4>4. WriteRank(w, s)' = u /\ ReadRank(w, s)' = v
        BY <1>2, <4>1, <4>2
      <4>5. Queued(w, s, i)' <=> Taken(u, s)' <= i /\ i < opt.precreate + Made(v, s)'
        BY <4>4 DEF Queued, Taken, Made, Position, Ahead
      <4>6. There(w, s, i)' <=> Queued(w, s, i)'
        BY <1>1, <1>2, <3>1, <3>2 DEF There
      <4> QED
        BY <1>3, <1>4, <3>2, <4>3, <4>5, <4>6
    <3>3. CASE ~(ph + 1 <= Until)
      <4>1. There(w, s, i)' <=> b <= i /\ i < b + opt.precreate /\ pc'[w] = "gate"
        <5>1. There(w, s, i)' <=> Left(w, s, i)'
          BY <1>1, <1>2, <3>1, <3>3 DEF There
        <5> QED
          BY <1>1, <1>5, <5>1 DEF Left
      <4>2. pc'[w] = "gate" <=> ph <= Until
        BY <1>1, <1>3, <1>10, <1>11, <3>3
      <4> QED
        BY <4>1, <4>2
    <3> QED
      BY <3>2, <3>3
  <2> QED
    BY <2>1, <2>2
<1>12. Stored'
  BY <1>2, <1>10, <1>11 DEF FifoIn, Stored
<1>13. Housed'
  <2>1. ASSUME NEW w \in Ranks, NEW s \in Sets, Live' PROVE DirThere(w, s)' <=> DirThere(w, s)
    <3>1. DirThere(w, s) <=> ph <= Until
      BY <1>1, <1>3 DEF DirThere
    <3>2. CASE ph + 1 <= Until
      BY <1>1, <1>2, <1>3, <3>1, <3>2 DEF DirThere
    <3>3. CASE ~(ph + 1 <= Until)
      <4>1. DirThere(w, s)' <=> pc'[w] = "gate"
        BY <1>1, <1>2, <1>3, <3>3 DEF DirThere
      <4>2. pc'[w] = "gate" <=> ph <= Until
        BY <1>1, <1>3, <1>10, <2>1, <3>3
      <4> QED
        BY <3>1, <4>1, <4>2
    <3> QED
      BY <3>2, <3>3
  <2> QED
    BY <1>2, <1>10, <2>1 DEF FifoIn, Housed
<1> QED
  BY <1>7, <1>8, <1>9, <1>12, <1>13 DEF FifoIn

LEMMA FifoInit == Init => Fifo
<1> SUFFICES ASSUME Init, Exact PROVE FifoIn
  BY DEF Fifo
<1>0. InStep /\ Typed
  BY InStepInit DEF InStep
<1>1. /\ ph = 1 /\ index = [r \in Ranks |-> opt.start] /\ tally.errors = 0
      /\ dirs = (IF opt.pre THEN {} ELSE Ranks \X Sets)
      /\ objs = (IF opt.pre THEN {} ELSE WorkingSet(opt.start))
      /\ \A r \in Ranks : pc[r] = IF Plan = <<>> THEN "done" ELSE "gate"
  BY DEF Init
<1>2. bad = {}
  BY DEF Init, Exact
<1>3. /\ Before \in Nat /\ Until \in Nat /\ Before <= Until
      /\ Len(Plan) = Until + (IF opt.clean THEN 1 ELSE 0) /\ (Plan = <<>> <=> Len(Plan) = 0)
      /\ Before = IF opt.pre THEN 1 ELSE 0
  BY <1>0, PlanFacts, PhaseOf DEF Typed, Before
<1>4. opt.precreate \in Nat /\ opt.num \in Nat /\ opt.start \in Nat
  BY <1>0, OptFacts
<1>5. Start = opt.start
  <2>1. Past = 0
    <3>1. Before = 0 \/ Before = 1
      BY <1>3
    <3>2. CASE ph <= Before
      BY <3>2 DEF Past
    <3>3. CASE ~(ph <= Before) /\ ph <= Until
      <4>1. Before = 0 /\ ph - 1 - Before = 0
        BY <1>1, <3>1, <3>3
      <4> QED
        BY <3>3, <4>1 DEF Past
    <3>4. CASE ~(ph <= Before) /\ ~(ph <= Until)
      <4>1. Until - Before = 0
        BY <1>1, <1>3, <3>1, <3>4
      <4> QED
        BY <3>4, <4>1 DEF Past
    <3> QED
      BY <3>2, <3>3, <3>4
  <2>2. Past * opt.num = 0
    BY <1>4, <2>1, Products
  <2> QED
    BY <1>4, <2>2 DEF Start
<1>6. Live => \A r \in Ranks : pc[r] = "gate"
  BY <1>1, <1>3 DEF Live
<1>7. \A r \in Ranks : pc[r] \in {"gate", "done"}
  BY <1>1
<1>8. Placed
  BY <1>1, <1>4, <1>5, <1>7 DEF Placed, Located
<1>9. Stored
  <2> SUFFICES ASSUME Live, NEW w \in Ranks, NEW s \in Sets, NEW i \in Nat
               PROVE  <<w, s, i>> \in objs <=> There(w, s, i)
    BY DEF Stored
  <2>0. s \in Nat
    BY <1>0, SetFacts
  <2>1. CASE opt.pre
    BY <1>1, <1>3, <1>6, <2>1 DEF There, Precreated
  <2>2. CASE ~opt.pre
    <3>1. <<w, s, i>> \in objs <=> opt.start <= i /\ i < opt.start + opt.precreate
      <4>1. i \in opt.start..opt.start + opt.precreate - 1
              <=> opt.start <= i /\ i < opt.start + opt.precreate
        BY <1>4
      <4> QED
        BY <1>1, <2>2, <4>1 DEF WorkingSet
    <3>2. ~(ph <= Before)
      BY <1>1, <1>3, <2>2
    <3>3. CASE ph <= Until
      <4>1. WriteRank(w, s) \in Ranks /\ ReadRank(w, s) \in Ranks
        BY <1>0, <2>0, Partners
      <4>2. Taken(WriteRank(w, s), s) = opt.start /\ Made(ReadRank(w, s), s) = opt.start
        BY <1>0, <1>1, <1>7, <4>1, AtIndex DEF Working, InSets
      <4> QED
        BY <1>4, <3>1, <3>2, <3>3, <4>2 DEF There, Queued
    <3>4. CASE ~(ph <= Until)
      BY <1>5, <1>6, <3>1, <3>2, <3>4 DEF There, Left
    <3> QED
      BY <3>3, <3>4
  <2> QED
    BY <2>1, <2>2
<1>10. Housed
  <2>1. dirs \subseteq Ranks \X Sets
    BY <1>1
  <2>2. CASE opt.pre
    BY <1>1, <1>3, <1>6, <2>1, <2>2 DEF Housed, DirThere
  <2>3. CASE ~opt.pre
    BY <1>1, <1>3, <1>6, <2>1, <2>3 DEF Housed, DirThere
  <2> QED
    BY <2>2, <2>3
<1>11. Removed
  <2>1. 0 \in Ranks
    BY MdworkbenchAssumption DEF Ranks
  <2> QED
    BY <1>6, <2>1 DEF Removed, Live
<1>12. Unwritten /\ Rested
  BY <1>2, <1>7 DEF Unwritten, Rested
<1> QED
  BY <1>1, <1>8, <1>9, <1>10, <1>11, <1>12 DEF FifoIn

\* steps that leave the ranks and the objects alone
LEMMA FifoSame ==
  ASSUME InStep, FifoIn, UNCHANGED <<opt, ph, pc, index, f, d, dirs, objs, bad, tally>>,
         Removed'
  PROVE  FifoIn'
<1>1. Framed
  BY FrameWork
<1>2. Placed'
  BY <1>1 DEF Framed, FifoIn, Placed, Located
<1>3. Stored'
  <2>1. \A w, s, i : There(w, s, i)' <=> There(w, s, i)
    BY <1>1 DEF Framed, There, Precreated, Queued, Left, Taken, Made, Position, Ahead
  <2> QED
    BY <1>1, <2>1 DEF Framed, FifoIn, Stored
<1>4. Housed'
  <2>1. \A w, s : DirThere(w, s)' <=> DirThere(w, s)
    BY <1>1 DEF Framed, DirThere
  <2> QED
    BY <1>1, <2>1 DEF Framed, FifoIn, Housed
<1>5. Unwritten'
  <2>1. \A q : Newest(q)' = Newest(q)
    BY DEF Newest, WriteRank
  <2> QED
    BY <2>1 DEF FifoIn, Unwritten
<1>6. Rested' /\ tally'.errors = 0
  BY DEF FifoIn, Rested
<1> QED
  BY <1>2, <1>3, <1>4, <1>5, <1>6 DEF FifoIn

LEMMA FifoNext == InStep /\ Wear /\ Pace /\ Fresh /\ Fifo /\ [Next]_vars => Fifo'
<1> SUFFICES ASSUME InStep, Wear, Pace, Fresh, Fifo, [Next]_vars, Exact'
             PROVE  FifoIn'
  BY DEF Fifo
<1>0. Typed /\ Joined /\ Ranged
  BY DEF InStep, Pace
<1>1. CASE Setup
  <2>1. opt' = opt /\ main = "setup" /\ UNCHANGED <<ph, pc, index, f, d, dirs, objs, bad, tally>>
    BY <1>1 DEF Setup
  <2>2. Exact /\ FifoIn
    BY <2>1 DEF Exact, Fifo
  <2>3. Removed'
    <3>1. 0 \in Ranks
      BY MdworkbenchAssumption DEF Ranks
    <3> QED
      BY <1>0, <2>1, <3>1 DEF Joined, Removed
  <2> QED
    BY <2>1, <2>2, <2>3, FifoSame
<1>2. CASE Report \/ UNCHANGED vars \/ Finished
  <2>1. UNCHANGED <<opt, ph, pc, index, f, d, prefix, dirs, objs, bad, tally>>
    BY <1>2 DEF Report, Finished, vars, fs
  <2>2. Exact /\ FifoIn
    BY <2>1 DEF Exact, Fifo
  <2>3. Removed'
    BY <2>1, <2>2 DEF FifoIn, Removed
  <2> QED
    BY <2>1, <2>2, <2>3, FifoSame
<1>3. ASSUME NEW r \in Ranks, Work(r) PROVE FifoIn'
  <2>1. opt' = opt
    BY <1>0, <1>3, WorkStep DEF Single, Alone
  <2>2. Exact /\ FifoIn
    BY <2>1 DEF Exact, Fifo
  <2> QED
    BY <1>3, <2>2, FifoWork
<1>4. ASSUME NEW r \in Ranks, BarrierWait(r) PROVE FifoIn'
  <2>1. /\ UNCHANGED <<opt, index, prefix, dirs, objs, bad, tally>>
        /\ Arrive(r) \/ OpenIn \/ OpenOut
    BY <1>4, BarrierStep DEF fs
  <2>2. Exact /\ FifoIn
    BY <2>1 DEF Exact, Fifo
  <2>3. CASE Arrive(r)
    <3>1. UNCHANGED <<ph, pc, f, d>>
      BY <2>3 DEF Arrive
    <3>2. Removed'
      BY <2>1, <2>2, <3>1 DEF FifoIn, Removed
    <3> QED
      BY <2>1, <2>2, <3>1, <3>2, FifoSame
  <2> QED
    BY <2>1, <2>2, <2>3, FifoOpenIn, FifoOpenOut
<1> QED
  BY <1>1, <1>2, <1>3, <1>4 DEF Next, Rank, Work

\* everything that the last two theorems rest on
FifoInv == InStep /\ Wear /\ Pace /\ Fresh /\ ObjectsConserved /\ Fifo

LEMMA FifoInvariance == Spec => []FifoInv
<1>1. Init => FifoInv
  BY InStepInit, WearInit, PaceInit, FreshInit, ConservedInit, FifoInit DEF FifoInv
<1>2. FifoInv /\ [Next]_vars => FifoInv'
  BY InStepNext, WearNext, PaceNext, FreshNext, ConservedNext, FifoNext DEF FifoInv
<1> QED
  BY <1>1, <1>2, PTL DEF Spec

\* between the phases the objects are the working set
LEMMA GateIsExact ==
  ASSUME FifoInv, Exact, ph > Before, \A r \in Ranks : pc[r] = "gate"
  PROVE  /\ \A r \in Ranks : index[r] = index[0]
         /\ objs = WorkingSet(index[0]) /\ bad = {}
<1>0. InStep /\ Typed /\ Wear /\ Pace /\ Fresh /\ FifoIn
  BY DEF FifoInv, Fifo, InStep
<1>1. 0 \in Ranks
  BY MdworkbenchAssumption DEF Ranks
<1>2. /\ opt.precreate \in Nat /\ Start \in Nat /\ ~opt.faults
  BY <1>0, ExactFacts
<1>3. \A r \in Ranks : index[r] = Start
  BY <1>0, <1>2 DEF FifoIn, Placed, Located
<1>4. /\ ph \in Nat /\ Before \in Nat /\ Until \in Nat /\ Before <= Until /\ Len(Plan) \in Nat
      /\ ph <= Len(Plan) /\ (~opt.clean => Len(Plan) = Until)
  <2>1. ph <= Len(Plan)
    BY <1>0, <1>1 DEF InStep, Lockstep, AllOut, Ending
  <2> QED
    BY <1>0, <2>1, PhaseFacts, PhaseOf
<1>5. Live
  BY <1>4 DEF Live
<1>6. ASSUME NEW w \in Ranks, NEW s \in Sets, NEW i \in Nat
      PROVE  <<w, s, i>> \in objs <=> Start <= i /\ i < Start + opt.precreate
  <2>0. s \in Nat /\ ~(ph <= Before)
    BY <1>0, <1>4, SetFacts
  <2>1. <<w, s, i>> \in objs <=> There(w, s, i)
    BY <1>0, <1>5 DEF FifoIn, Stored
  <2>2. CASE ph <= Until
    <3>1. WriteRank(w, s) \in Ranks /\ ReadRank(w, s) \in Ranks
      BY <1>0, <2>0, Partners
    <3>2. Taken(WriteRank(w, s), s) = Start /\ Made(ReadRank(w, s), s) = Start
      BY <1>0, <1>3, <3>1, AtIndex DEF Working, InSets
    <3> QED
      BY <1>2, <2>0, <2>1, <2>2, <3>2 DEF There, Queued
  <2>3. CASE ~(ph <= Until)
    BY <2>0, <2>1, <2>3 DEF There, Left
  <2> QED
    BY <2>2, <2>3
<1>7. objs = WorkingSet(Start)
  <2>1. objs \subseteq Ranks \X Sets \X Nat
    BY <1>0, <1>2 DEF Fresh, Objects
  <2>2. \A i : i \in Start..Start + opt.precreate - 1
               <=> i \in Nat /\ Start <= i /\ i < Start + opt.precreate
    BY <1>2
  <2>3. WorkingSet(Start) \subseteq Ranks \X Sets \X Nat
    BY <2>2 DEF WorkingSet
  <2>4. \A w \in Ranks, s \in Sets, i \in Nat :
          <<w, s, i>> \in objs <=> <<w, s, i>> \in WorkingSet(Start)
    BY <1>6, <2>2 DEF WorkingSet
  <2> HIDE DEF WorkingSet
  <2> QED
    BY <2>1, <2>3, <2>4
<1>8. bad = {}
  BY <1>0 DEF FifoIn, Unwritten
<1> QED
  BY <1>1, <1>3, <1>7, <1>8

\* For any number of ranks, any offset and any pace of theirs: the objects are the
\* ones counted, an exact run meets no error, and between its phases all ranks are at
\* one position and the objects are the whole and complete working set there
\* (run_benchmark_rank with its rank arithmetic and the barriers).
THEOREM FifoIsExact == Spec => []FifoExact
<1>1. FifoInv => FifoExact
  <2> SUFFICES ASSUME FifoInv PROVE FifoExact
    OBVIOUS
  <2>1. ObjectsConserved /\ (Exact => tally.errors = 0)
    BY DEF FifoInv, Fifo, FifoIn
  <2>2. ASSUME Exact, ph > Before, \A r \in Ranks : pc[r] = "gate"
        PROVE  /\ \A r \in Ranks : index[r] = index[0]
               /\ objs = WorkingSet(index[0]) /\ bad = {}
    BY <2>2, GateIsExact
  <2> QED
    BY <2>1, <2>2 DEF FifoExact, Before
<1> QED
  BY <1>1, FifoInvariance, PTL

\* When the run is over, the cleanup phase of every rank, started from the rank's own
\* position, has together removed every object and directory, and the out directory
\* is gone (run_cleanup_rank and the end of run).
THEOREM CleanupIsComplete == Spec => []CleanupLeavesNothing
<1>1. FifoInv => CleanupLeavesNothing
  <2> SUFFICES ASSUME FifoInv, Exact, opt.clean, Over
               PROVE  objs = {} /\ dirs = {} /\ ~prefix
    BY DEF CleanupLeavesNothing
  <2>0. InStep /\ Wear /\ Pace /\ Fresh /\ FifoIn /\ Joined /\ ~opt.faults
    BY ExactFacts DEF FifoInv, Fifo, Pace
  <2>1. \A r \in Ranks : pc[r] = "done"
    BY <2>0 DEF Over, Joined
  <2>2. 0 \in Ranks
    BY MdworkbenchAssumption DEF Ranks
  <2>3. ~prefix
    BY <2>0, <2>1, <2>2 DEF FifoIn, Removed
  <2> QED
    BY <2>0, <2>1, <2>3, NothingLeft DEF Ending
<1> QED
  BY <1>1, FifoInvariance, PTL
=============================================================================
