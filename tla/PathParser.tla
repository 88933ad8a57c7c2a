----------------------------- MODULE PathParser -----------------------------
(***************************************************************************)
(* The text of a path (src/fs/pparser.c): a drive digit, ":/" and components  *)
(* with slashes between them.  A path is the sequence of its characters'      *)
(* codes, without the terminating zero.                                      *)
(* A definition marked wrong is a deliberate mistake in the next one.        *)
(***************************************************************************)
EXTENDS Naturals, Sequences, SequencesExt

CONSTANT MaxPath        \* DEXTER_MAX_PATH (108)

Digits == 48 .. 57
Colon  == 58
Slash  == 47

ValidFormat(p) == Len(p) >= 3 /\ p[1] \in Digits /\ p[2] = Colon /\ p[3] = Slash

(* pathparser_parse goes on after these checks.                              *)
Accepted(p) == Len(p) <= MaxPath /\ ValidFormat(p)

Drive(p) == p[1] - 48

IsSlash(b) == b = Slash

(* pathparser_get_path_part: the characters up to a slash or the end ...       *)
Component(s) == LET k == SelectInSeq(s, IsSlash) IN IF k = 0 THEN s ELSE SubSeq(s, 1, k - 1)

(* ... and what it leaves of the path, behind that slash.                     *)
RemainderSlash(s) ==    \* wrong: the slash is not skipped
  LET k == SelectInSeq(s, IsSlash) IN IF k = 0 THEN <<>> ELSE SubSeq(s, k, Len(s))

Remainder(s) == LET k == SelectInSeq(s, IsSlash) IN IF k = 0 THEN <<>> ELSE SubSeq(s, k + 1, Len(s))

(* For comparison: the text between the slashes of an accepted path.  It is    *)
(* cut at the slashes and at its end; cut j is the one with j - 1 before it.   *)
Cuts(p) == {i \in 3 .. Len(p) : p[i] = Slash} \cup {Len(p) + 1}

Rank(p, c) == Cardinality({d \in Cuts(p) : d < c})

Cut(p, j) == CHOOSE c \in Cuts(p) : Rank(p, c) = j - 1

Between(p) ==
  [j \in 1 .. Cardinality(Cuts(p)) - 1 |-> SubSeq(p, Cut(p, j) + 1, Cut(p, j + 1) - 1)]
=============================================================================
