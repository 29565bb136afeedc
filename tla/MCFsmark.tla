------------------------------ MODULE MCFsmark ------------------------------
(* Instances of Fsmark for TLC. *)
EXTENDS Fsmark

\* two files, two threads that share one directory, files removed
Default ==
  [files |-> 2, threads |-> 2, dirs |-> 1, subdirs |-> None, per |-> None,
   sync |-> 1, keep |-> FALSE, fill |-> FALSE, loops |-> 0, space |-> 5]

\* every sync method
Methods == {[Default EXCEPT !.sync = m, !.keep = k] : m \in 0..6, k \in BOOLEAN}

\* one, two and three files of room for two threads of two files
Fills == {[Default EXCEPT !.sync = m, !.fill = TRUE, !.space = n, !.threads = k] :
            m \in {0, 1, 4}, n \in 1..5, k \in 1..2}

Iterations == {[Default EXCEPT !.sync = 3, !.loops = 2, !.threads = k, !.dirs = d] :
                 k \in 0..3, d \in 1..3}

\* subdirectories, three files of one thread
Spreads == {[Default EXCEPT !.files = 3, !.threads = 1, !.subdirs = s, !.per = n] :
              s \in {None, 1, 2, 3}, n \in {None, 0, 1, 2}}

SomeCommandLines == Methods \cup Fills \cup Iterations \cup Spreads
=============================================================================
