-------------------------------- MODULE MCVfs --------------------------------
(* A small volume: files in the root and in one directory, a name with no   *)
(* 8.3 form, and a path that goes through "..".                            *)
EXTENDS Vfs

Abs(parts) == [abs |-> TRUE, parts |-> parts]
Rel(parts) == [abs |-> FALSE, parts |-> parts]

Short == {"a", "d"}
Files == {Abs(<<"d", "a">>), Rel(<<"a">>), Rel(<<"longname">>), Abs(<<"d">>)}
Copied == {<<Rel(<<"a">>), Abs(<<"d", "a">>)>>, <<Abs(<<"d", "a">>), Abs(<<"d">>)>>,
           <<Rel(<<"a">>), Rel(<<"a">>)>>}
Dirs == {Rel(<<"..", "d">>)}
Entered == {Abs(<< >>), Rel(<<"d">>)}

\* call is overwritten by every step and read by none.
Observed == <<disk, cwd_cluster, cwd_path, cwd_gone, astray, status>>

FewContents == {<< >>, <<"y", "z">>}
=============================================================================
