------------------------------ MODULE MCRunner ------------------------------
(* Instances of Runner for TLC. *)
EXTENDS Runner, TLC

Output(complete, bad, empty, fixed, zero) ==
  [complete |-> complete, bad |-> bad, empty |-> empty, fixed |-> fixed,
   zero |-> zero]

\* all is well; a failure; died half way; all is well but for the exit status;
\* every known breakage is fixed; everything is skipped
Clean == Output(TRUE, FALSE, FALSE, FALSE, TRUE)
Failed == Output(TRUE, TRUE, FALSE, FALSE, FALSE)
Died == Output(FALSE, FALSE, FALSE, FALSE, FALSE)
Unclean == Output(TRUE, FALSE, FALSE, FALSE, FALSE)
Fixed == Output(TRUE, FALSE, FALSE, TRUE, FALSE)
Skipped == Output(TRUE, FALSE, TRUE, FALSE, TRUE)

AllOutputs == {Clean, Failed, Died, Unclean, Fixed, Skipped}
Apart == [i \in Items |-> i]
ItemDirs == Items
=============================================================================
