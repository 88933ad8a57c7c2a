------------------------------ MODULE FatNames ------------------------------
(***************************************************************************)
(* Names in a FAT16 directory (src/fs/fat16.c) and their comparison           *)
(* (src/libc/string.c).  A directory entry is the sequence of its bytes: the  *)
(* name and the extension, padded with spaces, the attribute byte and the     *)
(* reserved byte behind it, which is 0; the rest of the 32 bytes is left out. *)
(* A definition marked wrong is a deliberate mistake in the next one.        *)
(***************************************************************************)
EXTENDS Naturals, Sequences, SequencesExt

CONSTANTS
  NameLen,        \* bytes of a name (8)
  ExtLen          \* bytes of an extension (3)

Nul   == 0
Space == 32
Dot   == 46

IsStop(b)  == b \in {Nul, Space}
NotSpace(b) == b # Space

(* fat16_to_proper_string, reading from byte k of an entry: nothing stops it   *)
(* at the end of the field.                                                  *)
ToProperAll(e, k) ==        \* wrong: a space does not end the name
  SubSeq(e, k, SelectInSubSeq(e, k, Len(e), LAMBDA b : b = Nul) - 1)

ToProper(e, k) == SubSeq(e, k, SelectInSubSeq(e, k, Len(e), IsStop) - 1)

(* fat16_get_full_relative_filename                                         *)
FullName(e) ==
  LET ext == NameLen + 1
  IN  IF IsStop(e[ext]) THEN ToProper(e, 1) ELSE ToProper(e, 1) \o <<Dot>> \o ToProper(e, ext)

Upper(s) == [i \in DOMAIN s |-> IF s[i] \in 97 .. 122 THEN s[i] - 32 ELSE s[i]]

(* istrncmp of two strings in buffers that are zeroed behind them.            *)
SameName(s, t) == Upper(s) = Upper(t)

-----------------------------------------------------------------------------
(* For comparison: the name as the format defines it, each field without the  *)
(* spaces that fill it up.                                                   *)
Trimmed(f) == SubSeq(f, 1, SelectLastInSeq(f, NotSpace))

ShortName(e) ==
  LET name == Trimmed(SubSeq(e, 1, NameLen))
      ext  == Trimmed(SubSeq(e, NameLen + 1, NameLen + ExtLen))
  IN  IF ext = <<>> THEN name ELSE name \o <<Dot>> \o ext

(* Each field is followed by a byte that ends it.                             *)
Terminated(e) ==
  /\ IsStop(e[NameLen]) \/ IsStop(e[NameLen + 1])
  /\ IsStop(e[NameLen + 1]) \/ IsStop(e[NameLen + ExtLen]) \/ IsStop(e[NameLen + ExtLen + 1])

(* A field as the format wants it: from the first stop on nothing but spaces.  *)
Padded(f) == \A j \in 1 .. Len(f) : IsStop(f[j]) => \A k \in j .. Len(f) : f[k] = Space

(* Entries whose name the code reads as the format defines it.                 *)
Readable(e) ==
  /\ Terminated(e)
  /\ Padded(SubSeq(e, 1, NameLen)) /\ Padded(SubSeq(e, NameLen + 1, NameLen + ExtLen))
=============================================================================
