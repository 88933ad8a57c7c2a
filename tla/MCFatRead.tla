------------------------------ MODULE MCFatRead ------------------------------
(* Sectors of four bytes, clusters of two sectors, a file of two clusters and *)
(* a bit on a disk of twelve sectors.  The words of the disk are an empty      *)
(* entry, an end mark of FAT12, and clusters: 3 lies on the disk, 5 half       *)
(* behind its end; the position of 34 wraps around onto the disk again, that   *)
(* of 65535, the end mark of FAT16, to one before it.                         *)
EXTENDS FatRead

MCWords   == {0, 3, 5, 34, 4088, 65535}
MCSizes   == {0, 1, 3, 4, 6, 8, 12}
MCCounts  == {0, 1, 2}
MCOffsets == {0, 1, 3, 4, 8, 18}
=============================================================================
