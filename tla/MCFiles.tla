------------------------------- MODULE MCFiles -------------------------------
(* A disk with one file and one subdirectory.  The paths are the bare root,   *)
(* each kind of name, and a file inside the subdirectory.                     *)
EXTENDS Files

CONSTANTS file, dir, missing

MCFileNames  == {file}
MCDirNames   == {dir}
MCOtherNames == {missing}
MCPaths      == {<<>>, <<file>>, <<dir>>, <<missing>>, <<dir, file>>}
=============================================================================
