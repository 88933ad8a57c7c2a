------------------------------ MODULE MCLookup ------------------------------
(* Small directories and the paths to search them with, for TLC.             *)
EXTENDS Lookup

(* Names of two bytes, extensions of one: A, A.C, a directory A, AB, AB.C, a      *)
(* read-only A.C, a B behind a space, an erased entry, and the end mark.        *)
A == 65
B == 66
C == 67
Archive == 32
ReadOnly == 1
Folder == 16

MCEntryKinds == {
  <<A, Space, Space, Archive, Nul>>, <<A, Space, C, Archive, Nul>>, <<A, Space, Space, Folder, Nul>>,
  <<A, B, Space, Archive, Nul>>, <<A, B, C, Archive, Nul>>,
  <<A, Space, C, ReadOnly, Nul>>, <<Space, B, Space, Archive, Nul>>,
  <<229, Space, Space, Archive, Nul>>,
  <<Nul, Nul, Nul, Nul, Nul>>}

(* Entries whose names the code reads as they are: one of them is erased, and  *)
(* one is the end mark.                                                      *)
MCErasedKinds == {e \in MCEntryKinds : e[1] = Nul \/ Readable(e)}

MCTails == LET used == <<A, Space, Space, Archive, Nul>>
               end  == <<Nul, Nul, Nul, Nul, Nul>>
           IN  {<<end>>, <<used, end>>, <<used>>}

(* A path on drive d with the characters s.                                  *)
On(d, s) == <<48 + d, Colon, Slash>> \o s

MCPaths == {On(0, s) : s \in {<<>>, <<A>>, <<A + 32, Dot, C + 32>>, <<A, B>>, <<A, B, Dot, C>>,
                              <<A, Slash, B>>, <<A, Slash, Slash, B>>, <<A, B, Slash>>,
                              <<Slash, A>>, <<A, B, A, B, A, B>>,
                              <<Space, B>>, <<229>>}}
           \cup {On(1, <<A>>), <<48, Colon, A>>, <<A>>}
=============================================================================
