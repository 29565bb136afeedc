------------------------------ MODULE MCStdfs -------------------------------
(* Instances of Stdfs for TLC. *)
EXTENDS Stdfs

\* the default, a selection, and a language named twice
SomeOrders ==
  {<<"go", "python", "node", "rust">>, <<"rust", "go">>, <<"rust", "rust">>,
   <<"node">>}
=============================================================================
