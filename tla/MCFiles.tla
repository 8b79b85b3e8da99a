------------------------------ MODULE MCFiles ------------------------------
(* Two callers, files below two directories that do not exist yet, modes   *)
(* that lock their owner out, and flags a directory cannot be opened with. *)
EXTENDS Files

CONSTANTS c1, c2

Create(mode) == Settings({"read", "write"}, {}, mode)
Truncate == Settings({"write"}, {"TRUNCATE"}, DoNotCreate)

MCFileOpens ==
    {<<<<"d", "e", "f">>, Create(PrivateReadOnly)>>, <<<<"d", "f">>, Create(Private)>>,
     <<<<"f">>, DirSettings({})>>}
MCRelOpens == {<<<<"e", "f">>, Create(Private)>>, <<<<"e">>, DirSettings({})>>}
MCDirOpens == {<<<<"d">>, {}>>, <<<<"d", "e">>, {"TRUNCATE"}>>}
MCDirMakes == {<<<<"d">>, Private>>}
MCNewPaths == {<<"f">>}

Symmetry == Permutations(Callers)
=============================================================================
