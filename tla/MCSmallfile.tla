---------------------------- MODULE MCSmallfile -----------------------------
(* Instances of Smallfile for TLC. *)
EXTENDS Smallfile

Invocation(plan, suite, shared, stonewall, finish, faults) ==
  [plan |-> plan, suite |-> suite, shared |-> shared, stonewall |-> stonewall,
   finish |-> finish, ctime |-> TRUE, linux |-> TRUE, faults |-> faults]
NotLinux(invocation) == [invocation EXCEPT !.linux = FALSE]
NoStamp(invocation) == [invocation EXCEPT !.ctime = FALSE]

\* the suite, with every option; each operation on its own; single phases with
\* the stonewall; cleanup and swift-put with faults, the latter on Linux and
\* elsewhere; a wait for an xattr that nobody sets
AllOptions ==
  {Invocation(DefaultPhases, TRUE, sh, sw, fi, "none") :
     sh \in BOOLEAN, sw \in BOOLEAN, fi \in BOOLEAN}
  \cup {Invocation(AllOps, FALSE, FALSE, FALSE, FALSE, "none")}
  \cup {Invocation(<<"create", "rename">>, FALSE, sh, TRUE, fi, fa) :
          sh \in BOOLEAN, fi \in BOOLEAN, fa \in {"files", "subdirs"}}
  \cup {Invocation(<<"cleanup">>, FALSE, TRUE, FALSE, FALSE, "files"),
        Invocation(<<"swift-put">>, FALSE, FALSE, TRUE, FALSE, "files"),
        NotLinux(Invocation(<<"swift-put">>, FALSE, FALSE, TRUE, FALSE, "files")),
        NoStamp(Invocation(<<"create", "await-create">>, FALSE, FALSE, FALSE,
                           FALSE, "none"))}

\* nothing, or everything that the run may touch
NoneOrAll == {<<{}, {}>>, <<Directories, Names>>}
=============================================================================
