----------------------------- MODULE MCFsstress -----------------------------
(* Instances of Fsstress for TLC. *)
EXTENDS Fsstress

\* an empty base directory, or a file and a directory of an earlier run
SomeLeftovers == {{}, {<<"reg", 0>>, <<"dir", 1>>}}
=============================================================================
