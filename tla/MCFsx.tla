------------------------------- MODULE MCFsx --------------------------------
(* Instances of Fsx for TLC. *)
EXTENDS Fsx

\* two pages, the options of the command line as they are by default
Default ==
  [flen |-> 4, oplen |-> 3, numops |-> 3, readbdy |-> 1, writebdy |-> 1,
   truncbdy |-> 1, style |-> 0, lite |-> FALSE, existing |-> 0, fixed |-> FALSE,
   noMapRead |-> FALSE, noMapWrite |-> FALSE, flags |-> {}, unsupported |-> {},
   noKeep |-> FALSE, noSize |-> FALSE, contents |-> FALSE, pollute |-> FALSE,
   begin |-> 0, timed |-> FALSE, unshare |-> TRUE, fs |-> "healthy"]
\* -K -I
Sane == [Default EXCEPT !.noKeep = TRUE, !.flags = {"insert_range"}]

Healthy ==
  {[Sane EXCEPT !.flen = 6, !.oplen = 4, !.numops = 4, !.pollute = TRUE],
   [Sane EXCEPT !.readbdy = 2, !.writebdy = 2, !.truncbdy = 2, !.fixed = TRUE,
                !.noMapRead = TRUE, !.noMapWrite = TRUE, !.numops = 4],
   [Default EXCEPT !.flags = {"fallocate", "insert_range"}, !.unshare = FALSE,
                   !.style = 1, !.unsupported = {"clone_range", "copy_range"}],
   [Default EXCEPT !.lite = TRUE, !.existing = 5, !.numops = 4],
   [Default EXCEPT !.lite = TRUE, !.existing = 2, !.numops = 2]}
Faulty ==
  {[Sane EXCEPT !.fs = f, !.contents = TRUE, !.pollute = TRUE, !.numops = 4, !.timed = TRUE] :
     f \in {"leaky", "rotten", "erring"}}
\* everything switched on: the shadow may be wrong, the process may die
Wild ==
  {[Default EXCEPT !.oplen = 4, !.numops = 3, !.begin = b, !.pollute = n, !.noSize = n] :
     b \in {0, 1}, n \in BOOLEAN}

AllOptions == Healthy \cup Faulty \cup Wild
=============================================================================
