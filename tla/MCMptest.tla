------------------------------ MODULE MCMptest ------------------------------
(* Scripts for model checking Mptest, after the ones under                *)
(* src/vendor/sqlite/mptest.                                              *)
EXTENDS Mptest

Task(c, body) == [op |-> "task", client |-> c, body |-> body]
Start(c) == [op |-> "start", client |-> c, body |-> <<>>]
Wait(c) == [op |-> "wait", client |-> c, body |-> <<>>]
Verify(op) == [op |-> op, client |-> AllClients, body |-> <<>>]

\* crash02.subtest: client 1 finishes early, leaves a hot journal and crashes
\* while client 2 works (and commits outside a transaction); then client 1 is
\* used again
CrashScript ==
  << Task(1, <<"finish", "begin", "exit">>), Task(2, <<"commit", "pass">>),
     Wait(AllClients), Task(1, <<"fail">>), Wait(1) >>

\* multiwrite01: two clients write concurrently; one leaves a transaction open,
\* the other exits outside one; the master fails checks and exits by itself
WriteScript ==
  << Start(1), Task(1, <<"begin", "begin", "commit", "begin">>),
     Task(2, <<"fail", "exit">>), Wait(2), Verify("unknown"),
     Verify("pass"), Verify("exit") >>
=============================================================================
