------------------------------ MODULE MCFiles ------------------------------
(***************************************************************************)
(* FileParts with small sets for TLC.                                      *)
(***************************************************************************)
EXTENDS FileParts, TLC

\* A database, a file below a directory and a file of its own.
Sources == <<"db", "tree", "file">>

\* Archives an operator may bring from elsewhere: one that is intact, and one
\* whose contents are not what its manifest says.
Contents == {<<"v", "v", "v">>, <<"v", "u", Absent>>}
Foreign == [sums : Contents, data : Contents, kept : {TRUE}]

Swap == Permutations(Procs)
=============================================================================
