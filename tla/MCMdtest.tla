------------------------------ MODULE MCMdtest ------------------------------
(* Instances of Mdtest for TLC. *)
EXTENDS Mdtest

Base ==
  [branch |-> 1, depth |-> 0, ipd |-> 0, items |-> 2, iterations |-> 1,
   unique |-> FALSE, dirs |-> FALSE, files |-> FALSE, create |-> FALSE,
   stat |-> FALSE, read |-> FALSE, remove |-> FALSE, rename |-> FALSE,
   leaf |-> FALSE, writeBytes |-> 1, readBytes |-> 1, nstride |-> 0,
   random |-> FALSE, stonewall |-> FALSE, barriers |-> TRUE, verify |-> FALSE,
   faults |-> 0, left |-> FALSE]

\* the whole suite on trees of several shapes
Shapes ==
  {[Base EXCEPT !.branch = s[1], !.depth = s[2], !.items = 0, !.ipd = s[3],
                !.leaf = le, !.nstride = 1] :
     s \in {<<1, 0, 3>>, <<2, 1, 1>>, <<1, 2, 1>>, <<2, 2, 1>>}, le \in BOOLEAN}
Others ==
  {[Base EXCEPT !.nstride = 2, !.iterations = 2],
   [Base EXCEPT !.random = TRUE, !.items = 3, !.stat = TRUE, !.create = TRUE],
   [Base EXCEPT !.barriers = FALSE],
   [Base EXCEPT !.left = TRUE, !.read = TRUE, !.verify = TRUE],
   [Base EXCEPT !.left = TRUE, !.remove = TRUE, !.nstride = 1],
   [Base EXCEPT !.items = 1]}
\* what the ordinary properties leave out: a stonewall, faults, own trees, several
\* test directories, a tree that is there already, and an invalid command line
Special ==
  {[Base EXCEPT !.stonewall = TRUE, !.depth = 1, !.items = 4, !.files = TRUE],
   [Base EXCEPT !.faults = 1, !.verify = TRUE],
   [Base EXCEPT !.unique = TRUE, !.nstride = 1],
   [Base EXCEPT !.ipd = 1, !.items = 2],
   [Base EXCEPT !.ipd = 2, !.items = 4, !.stonewall = TRUE, !.files = TRUE],
   [Base EXCEPT !.left = TRUE, !.create = TRUE],
   [Base EXCEPT !.barriers = FALSE, !.nstride = 1]}

AllOptions == Shapes \cup Others \cup Special
=============================================================================
