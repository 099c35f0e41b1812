------------------------------- MODULE MCCopy -------------------------------
(* Model-checking instance of Copy: a tree with a sub-directory, an empty directory,
   a file of two pieces two levels down and an empty file.                          *)
EXTENDS Copy

MCRoot == <<"new", "tree">>
MCSub == Append(MCRoot, "sub")
MCDirs == {MCRoot, MCSub, Append(MCRoot, "empty")}
MCFile == Append(MCSub, "file")
MCFiles == {MCFile, Append(MCRoot, "nothing")}
MCSize == [f \in MCFiles |-> IF f = MCFile THEN 2 ELSE 0]
MCRoots == {MCRoot, MCFile}
=============================================================================
