---------------------------- MODULE MCPathLocks ----------------------------
(***************************************************************************)
(* A small tree for ArrivalOrder: directory a with child a/b, sibling b,   *)
(* and a second source, with the request shapes the file service uses.     *)
(***************************************************************************)
EXTENDS ArrivalOrder

Path(p) == [isPath |-> TRUE, source |-> "s1", path |-> p]
OtherSource == [isPath |-> TRUE, source |-> "s2", path |-> <<"a">>]

MCKeys == {Path(<<"a">>), Path(<<"a", "b">>), Path(<<"b">>), OtherSource}

Read(K) == [keys |-> K, write |-> FALSE]
Write(K) == [keys |-> K, write |-> TRUE]

\* List a, upload a/b, move a/b to another source, an archive of a/b and b.
MCRequests ==
  { Read({Path(<<"a">>)}), Write({Path(<<"a", "b">>)}),
    Write({Path(<<"a", "b">>), OtherSource}),
    Read({Path(<<"a", "b">>), Path(<<"b">>)}) }

=============================================================================
