------------------------------- MODULE Batch --------------------------------
(***************************************************************************)
(* What a suite run promises its user (the sqlite, git and stdfs suites):  *)
(* every selected item gets one result, a result is final, and the report  *)
(* is written once, when all results are in, with the verdict they give.   *)
(***************************************************************************)
CONSTANTS
  Items,      \* the selected items
  Statuses,   \* the results an item can have
  Failing     \* the results that fail the run

VARIABLES slot, report

Missing == "missing"   \* not a status

BatchInit ==
  /\ slot = [i \in Items |-> Missing]
  /\ report = Missing

Finish(i) ==
  /\ slot[i] = Missing
  /\ \E s \in Statuses : slot' = [slot EXCEPT ![i] = s]
  /\ UNCHANGED report

Verdict == IF \E i \in Items : slot[i] \in Failing THEN "failed" ELSE "ok"

Publish ==
  /\ report = Missing
  /\ \A i \in Items : slot[i] # Missing
  /\ report' = Verdict
  /\ UNCHANGED slot

BatchNext == Publish \/ \E i \in Items : Finish(i)

BatchSpec == BatchInit /\ [][BatchNext]_<<slot, report>>
=============================================================================
