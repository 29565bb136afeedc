--------------------------- MODULE MCMdworkbench ----------------------------
(* Instances of Mdworkbench for TLC. *)
EXTENDS Mdworkbench

Base ==
  [num |-> 1, precreate |-> 2, dsets |-> 1, iterations |-> 2, offset |-> 1,
   start |-> 0, pre |-> TRUE, bench |-> TRUE, clean |-> TRUE,
   readOnly |-> FALSE, timer |-> FALSE, wear |-> FALSE, faults |-> FALSE,
   otherSeed |-> FALSE]

\* the documented use, with every shift between readers and writers
Documented ==
  {[Base EXCEPT !.offset = o] : o \in 0..3}
  \cup {[Base EXCEPT !.dsets = 2, !.iterations = 1],
        [Base EXCEPT !.num = 2], [Base EXCEPT !.readOnly = TRUE]}
\* phases that continue an earlier run
Continued ==
  {[Base EXCEPT !.start = 3, !.pre = FALSE, !.clean = s, !.otherSeed = s] : s \in BOOLEAN}
  \cup {[Base EXCEPT !.start = 3, !.pre = FALSE]}
\* ranks that overtake each other
Overtaking ==
  {[Base EXCEPT !.num = 2, !.precreate = 1], [Base EXCEPT !.start = 1],
   [Base EXCEPT !.timer = TRUE], [Base EXCEPT !.timer = TRUE, !.wear = TRUE],
   [Base EXCEPT !.timer = TRUE, !.wear = TRUE, !.num = 2, !.iterations = 1]}
Degenerate ==
  {[Base EXCEPT !.num = 0], [Base EXCEPT !.dsets = 0],
   [Base EXCEPT !.precreate = 0],
   [Base EXCEPT !.pre = FALSE, !.clean = FALSE, !.iterations = 0]}
Failing ==
  {[Base EXCEPT !.faults = TRUE, !.iterations = 1, !.timer = w, !.wear = w] :
     w \in BOOLEAN}

AllOptions == Documented \cup Continued \cup Overtaking \cup Degenerate \cup Failing
=============================================================================
