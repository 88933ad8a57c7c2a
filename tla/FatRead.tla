------------------------------- MODULE FatRead -------------------------------
(***************************************************************************)
(* fread and fseek on an open file (src/fs/file.c, src/fs/fat16.c), down to  *)
(* the sectors that diskstreamer_read (src/fs/streamer.c) fetches.  The code *)
(* nests three loops: over the members of the fread, over the clusters a     *)
(* member lies in, and over the sectors of a cluster; inside the second, a   *)
(* walk through the file allocation table finds the cluster.                 *)
(*                                                                         *)
(* What is on the disk is left open: a byte is named by its position, so     *)
(* that a buffer tells where every one of its bytes was read.  How long the  *)
(* disk is and how wide an int matter, for the code multiplies what it reads  *)
(* from the disk into positions, and polls for sectors that are not there.    *)
(* A definition marked wrong is a deliberate mistake in the next one.        *)
(***************************************************************************)
EXTENDS Integers, Sequences

CONSTANTS
  Sector,             \* disk->sector_size, DEXTER_SECTOR_SIZE (512)
  SectorsPerCluster,  \* of the header (128)
  Reserved,           \* reserved_sectors (200)
  FatSectors,         \* fat_copies * sectors_per_fat
  RootSectors,        \* sectors of the root directory
  FirstCluster,       \* the file's first cluster
  FileSize,           \* its ritem->filesize
  DiskSectors,        \* how many sectors the disk has
  Half,               \* an int holds - Half .. Half - 1 (2^31)
  Words,              \* what a 16-bit word of the disk may hold
  Sizes, Counts,      \* the arguments of fread
  Offsets,            \* those of fseek
  MaxPos              \* bound: positions that fseek moves to

ASSUME FatAssumption ==
  /\ Sector \in Nat \ {0} /\ SectorsPerCluster \in Nat \ {0} /\ Reserved \in Nat \ {0}
  /\ FatSectors \in Nat \ {0} /\ RootSectors \in Nat \ {0}
  /\ FirstCluster \in Nat \ {0, 1} /\ FileSize \in Nat
  /\ \A w \in Words : w \in Nat /\ w < 65536
  /\ Sizes \subseteq Nat /\ Counts \subseteq Nat /\ Offsets \subseteq Nat
  /\ MaxPos \in Nat /\ DiskSectors \in Nat /\ Half \in Nat \ {0}
  /\ (2 * Half) % Sector = 0
  /\ \A s \in Sizes, n \in Counts : MaxPos + n * s < Half    \* offset stays an int

VARIABLES
  pos,          \* fat_file_descriptor.pos
  pc,           \* where the code is
  size, nmemb,  \* the arguments of the fread
  i,            \* members read
  offset, total, \* arguments of fat16_read_internal_from_stream
  cluster, ahead, \* cluster_to_use, and how often the walk must still follow it
  spos,         \* the position of the cluster stream
  rest,         \* what diskstreamer_read has still to read
  out,          \* the bytes stored so far
  ret,          \* fread's result
  looked        \* history: the positions where this fread read table entries

locals == <<size, nmemb, i, offset, total, cluster, ahead, spos, rest, out, looked>>
vars == <<pos, pc, ret, locals>>

Junk == -1            \* a byte from outside of `buf', on the kernel's stack
EIO  == 1

ClusterBytes == SectorsPerCluster * Sector

(* fat16_get_root_directory's ending_sector_pos: where the clusters begin.    *)
DataSector == Reserved + FatSectors + RootSectors

(* Conversion to int, and int arithmetic as the build does it, with -O0.      *)
ToInt(x) == ((x + Half) % (2 * Half)) - Half

ClusterToSector(c) == DataSector + (c - 2) * SectorsPerCluster

(* The position that fat16_get_fat_entry seeks: the table's multiplied by the *)
(* entry's, as an int.                                                       *)
FatPosition(c) == ToInt((Reserved * Sector) * (c * 2))

(* The sector a stream reads at a position, by C's division, and the place in *)
(* it, which is negative for a negative position.                            *)
SectorOf(p) == IF p >= 0 THEN p \div Sector ELSE -((-p) \div Sector)
PlaceIn(p)  == p - SectorOf(p) * Sector

(* disk_read_sector gets an answer for the sectors of the disk.  A negative    *)
(* number selects the second drive, which is not there.                      *)
Answered(p) == SectorOf(p) \in 0 .. DiskSectors - 1

(* Where the entries of the table are.                                       *)
TableBytes == (Reserved * Sector) .. ((Reserved + FatSectors) * Sector - 1)

(* The entries fat16_get_cluster_for_offset stops at, with -EIO.  Any other   *)
(* word is the number of the next cluster.                                   *)
StopWords == {0, 4080, 4086, 4087, 4088, 4095}

Lesser(a, b) == IF a < b THEN a ELSE b

-----------------------------------------------------------------------------
Init ==
  /\ pos = 0 /\ pc = "idle" /\ ret = 0
  /\ size = 0 /\ nmemb = 0 /\ i = 0
  /\ offset = 0 /\ total = 0 /\ cluster = 0 /\ ahead = 0
  /\ spos = 0 /\ rest = 0 /\ out = <<>> /\ looked = {}

(* fread's result; its locals are gone.                                      *)
Return(r) ==
  /\ pc' = "idle" /\ ret' = r
  /\ size' = 0 /\ nmemb' = 0 /\ i' = 0
  /\ offset' = 0 /\ total' = 0 /\ cluster' = 0 /\ ahead' = 0
  /\ spos' = 0 /\ rest' = 0 /\ out' = <<>> /\ looked' = {}
  /\ UNCHANGED pos

(* fat16_seek with SEEK_SET and with SEEK_CUR; the offset is compared with    *)
(* the size of the file, the sum is not.  SEEK_END is not implemented.        *)
FseekSet(o) ==
  /\ pc = "idle"
  /\ o < FileSize /\ o <= MaxPos
  /\ pos' = o
  /\ UNCHANGED <<pc, ret, locals>>

FseekCur(o) ==
  /\ pc = "idle"
  /\ o < FileSize /\ pos + o <= MaxPos
  /\ pos' = pos + o
  /\ UNCHANGED <<pc, ret, locals>>

FseekRefused(o) ==
  /\ pc = "idle"
  /\ o >= FileSize
  /\ UNCHANGED vars

(* fread: no bytes or no members are refused, whatever the file's size lets   *)
(* the rest through.                                                         *)
FreadRefused(s, n) ==
  /\ pc = "idle"
  /\ s = 0 \/ n = 0
  /\ UNCHANGED vars

Fread(s, n) ==
  /\ pc = "idle"
  /\ s # 0 /\ n # 0
  /\ pc' = "member"
  /\ size' = s /\ nmemb' = n /\ i' = 0
  /\ offset' = pos
  /\ out' = <<>> /\ looked' = {}
  /\ UNCHANGED <<pos, total, cluster, ahead, spos, rest, ret>>

-----------------------------------------------------------------------------
(* fat16_read: the next member.                                              *)
MemberAhead ==              \* wrong: rounds up to the next cluster
  /\ pc = "member" /\ i < nmemb
  /\ pc' = "walk"
  /\ total' = size
  /\ cluster' = FirstCluster
  /\ ahead' = (offset + ClusterBytes - 1) \div ClusterBytes
  /\ UNCHANGED <<pos, size, nmemb, i, offset, spos, rest, out, ret, looked>>

Member ==
  /\ pc = "member" /\ i < nmemb
  /\ pc' = "walk"
  /\ total' = size
  /\ cluster' = FirstCluster
  /\ ahead' = offset \div ClusterBytes
  /\ UNCHANGED <<pos, size, nmemb, i, offset, spos, rest, out, ret, looked>>

LastMember ==
  /\ pc = "member" /\ i = nmemb
  /\ Return(nmemb)

(* fat16_get_cluster_for_offset: one entry of the table.  The word read is    *)
(* whatever the disk holds where the stream was moved to.                    *)
WalkOn(word) ==
  /\ pc = "walk" /\ ahead > 0 /\ Answered(FatPosition(cluster))
  /\ word \notin StopWords
  /\ cluster' = word
  /\ ahead' = ahead - 1
  /\ looked' = looked \cup {FatPosition(cluster)}
  /\ UNCHANGED <<pos, pc, size, nmemb, i, offset, total, spos, rest, out, ret>>

WalkFails(word) ==
  /\ pc = "walk" /\ ahead > 0 /\ Answered(FatPosition(cluster))
  /\ word \in StopWords
  /\ Return(-EIO)

(* The cluster is found: the stream is moved into it, to read what is asked   *)
(* for or as much as a whole cluster holds.                                  *)
SeekDiv ==                  \* wrong: / for %
  /\ pc = "walk" /\ ahead = 0
  /\ pc' = "sectors"
  /\ spos' = ToInt(ClusterToSector(cluster) * Sector + (offset \div ClusterBytes))
  /\ rest' = Lesser(total, ClusterBytes)
  /\ UNCHANGED <<pos, size, nmemb, i, offset, total, cluster, ahead, out, ret, looked>>

Seek ==
  /\ pc = "walk" /\ ahead = 0
  /\ pc' = "sectors"
  /\ spos' = ToInt(ClusterToSector(cluster) * Sector + (offset % ClusterBytes))
  /\ rest' = Lesser(total, ClusterBytes)
  /\ UNCHANGED <<pos, size, nmemb, i, offset, total, cluster, ahead, out, ret, looked>>

(* One call of diskstreamer_read fetches one sector into `buf' and copies     *)
(* from the stream's place in it, up to a sector's worth of bytes, even if    *)
(* the sector ends before that.                                              *)
Copied(n) ==
  [k \in 1 .. n |->
     IF PlaceIn(spos) + k - 1 \in 0 .. Sector - 1 THEN spos + k - 1 ELSE Junk]

ReadSectorStuck ==          \* wrong: more than a sector is never reduced
  /\ pc = "sectors" /\ rest \in 1 .. Sector /\ Answered(spos)
  /\ out' = out \o Copied(rest)
  /\ spos' = ToInt(spos + rest)
  /\ rest' = 0
  /\ UNCHANGED <<pos, pc, size, nmemb, i, offset, total, cluster, ahead, ret, looked>>

ReadSectorWhole ==          \* wrong: always a whole sector
  /\ pc = "sectors" /\ rest > 0 /\ Answered(spos)
  /\ out' = out \o Copied(Sector)
  /\ spos' = ToInt(spos + Sector)
  /\ rest' = IF rest > Sector THEN rest - Sector ELSE 0
  /\ UNCHANGED <<pos, pc, size, nmemb, i, offset, total, cluster, ahead, ret, looked>>

ReadSector ==
  /\ pc = "sectors" /\ rest > 0 /\ Answered(spos)
  /\ LET n == Lesser(rest, Sector)
     IN  /\ out' = out \o Copied(n)
         /\ spos' = ToInt(spos + n)
         /\ rest' = rest - n
  /\ UNCHANGED <<pos, pc, size, nmemb, i, offset, total, cluster, ahead, ret, looked>>

(* The walk or a cluster leads to a sector the disk does not have:             *)
(* disk_read_sector polls for it without limit.                              *)
DiskWaits ==
  /\ \/ pc = "walk" /\ ahead > 0 /\ ~ Answered(FatPosition(cluster))
     \/ pc = "sectors" /\ rest > 0 /\ ~ Answered(spos)
  /\ pc' = "waits"
  /\ UNCHANGED <<pos, ret, locals>>

Polls == pc = "waits" /\ UNCHANGED vars

(* fat16_read_internal_from_stream goes on with what the cluster did not      *)
(* hold, from the first cluster again; or the member is complete.            *)
NextCluster ==
  /\ pc = "sectors" /\ rest = 0 /\ total > ClusterBytes
  /\ pc' = "walk"
  /\ total' = total - ClusterBytes
  /\ offset' = offset + ClusterBytes
  /\ cluster' = FirstCluster
  /\ ahead' = (offset + ClusterBytes) \div ClusterBytes
  /\ UNCHANGED <<pos, size, nmemb, i, spos, rest, out, ret, looked>>

MemberReadStays ==          \* wrong: the next member starts where this one did
  /\ pc = "sectors" /\ rest = 0 /\ total <= ClusterBytes
  /\ pc' = "member"
  /\ i' = i + 1
  /\ offset' = pos
  /\ UNCHANGED <<pos, size, nmemb, total, cluster, ahead, spos, rest, out, ret, looked>>

MemberRead ==
  /\ pc = "sectors" /\ rest = 0 /\ total <= ClusterBytes
  /\ pc' = "member"
  /\ i' = i + 1
  /\ offset' = pos + (i + 1) * size
  /\ UNCHANGED <<pos, size, nmemb, total, cluster, ahead, spos, rest, out, ret, looked>>

Steps ==
  \/ Member \/ LastMember
  \/ \E word \in Words : WalkOn(word) \/ WalkFails(word)
  \/ Seek \/ ReadSector \/ NextCluster \/ MemberRead
  \/ DiskWaits

Next ==
  \/ \E o \in Offsets : FseekSet(o) \/ FseekCur(o) \/ FseekRefused(o)
  \/ \E s \in Sizes, n \in Counts : Fread(s, n) \/ FreadRefused(s, n)
  \/ Steps \/ Polls

(* The kernel runs the call to its end: nothing else has the processor.  The  *)
(* disk is assumed to answer for every sector it has.                        *)
Spec == Init /\ [][Next]_vars /\ WF_vars(Steps)

-----------------------------------------------------------------------------
(* Properties.                                                              *)

(* The locals stay in range, and no more is stored than was asked for.        *)
FatTypeOK ==
  /\ pc \in {"idle", "member", "walk", "sectors", "waits"}
  /\ {pos, size, nmemb, i, offset, total, ahead, rest} \subseteq Nat
  /\ spos \in -Half .. Half - 1
  /\ i <= nmemb
  /\ rest <= total /\ total <= size
  /\ Len(out) <= size * nmemb
  /\ \A k \in DOMAIN out : out[k] = Junk \/ out[k] \in Nat

(* Where member m of the last fread starts in the file.                      *)
MemberStart(m) == pos + m * size
FilePosition(o) == ClusterToSector(FirstCluster) * Sector + o
InFirstCluster(m) == MemberStart(m) + size <= ClusterBytes
Whole(m) == \/ MemberStart(m) % Sector = 0
            \/ (MemberStart(m) % Sector) + size <= Sector
Stored(m, k) == out[m * size + k + 1]

(* The first cluster is on the disk, and an int can name its bytes.           *)
FirstOnDisk ==
  /\ ClusterToSector(FirstCluster) + SectorsPerCluster <= DiskSectors
  /\ FilePosition(ClusterBytes) <= Half

(* A member inside the first cluster that starts with a sector, or lies in    *)
(* one, is stored byte for byte, and the next one behind it: what             *)
(* process_load_binary needs of fread(ptr, filesize, 1, fd) and open_file of  *)
(* its 11 bytes at 2.                                                        *)
MembersExact ==
  pc = "member" /\ FirstOnDisk =>
    \A m \in 0 .. (i - 1) :
      (InFirstCluster(m) /\ Whole(m)) =>
        \A k \in 0 .. (size - 1) : Stored(m, k) = FilePosition(MemberStart(m) + k)

(* A read from a sector's start stores nothing from behind diskstreamer_read's *)
(* buffer, however many sectors and clusters it takes and whatever the table  *)
(* says; other reads do as soon as they cross into the next sector.           *)
AlignedNoJunk ==
  pc = "member" =>
    \A m \in 0 .. (i - 1) :
      MemberStart(m) % Sector = 0 => \A k \in 0 .. (size - 1) : Stored(m, k) # Junk

(* A read inside the first cluster depends on no table entry and succeeds; if *)
(* the cluster is on the disk, it waits for no sector that is not.            *)
InFirst == \A m \in 0 .. (nmemb - 1) : InFirstCluster(m)

FirstClusterServed ==
  [][(pc # "idle" /\ InFirst) =>
       /\ pc' = "idle" => looked = {} /\ ret' = nmemb
       /\ FirstOnDisk => pc' # "waits"]_vars

(* Every fread returns or comes to wait for a sector the disk does not have,  *)
(* where the words it takes for table entries or the product of               *)
(* src/fs/fat16.c:384 led it (src/fs/disk.c:25).  A read inside a first       *)
(* cluster that is on the disk returns.                                      *)
FreadReturns ==
  pc # "idle" ~> pc = "idle" \/ (pc = "waits" /\ ~ (InFirst /\ FirstOnDisk))

(* fat_read_stream is "Used to stream the file allocation table"              *)
(* (src/fs/fat16.c:118): the entries are read in it.  The code violates it:   *)
(* see the README.                                                           *)
EntriesReadInTable == looked \subseteq TableBytes
=============================================================================
