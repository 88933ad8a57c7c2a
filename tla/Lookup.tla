------------------------------- MODULE Lookup -------------------------------
(***************************************************************************)
(* From the disk to a directory entry: fat16_resolve when the kernel boots    *)
(* (src/fs/fat16.c:256), then the part of fopen that finds the entry a path   *)
(* names: pathparser_parse and fat16_get_directory_entry, one iteration of    *)
(* their loops per step.  There is memory enough; module Files has what       *)
(* happens without.                                                         *)
(* A definition marked wrong is a deliberate mistake in the next one.        *)
(***************************************************************************)
EXTENDS PathParser, FatNames, Integers, FiniteSets

CONSTANTS
  RootEntries,    \* root_dir_entries of the boot sector (64)
  EntryKinds,     \* the directory entries a disk may have
  Tails,          \* what may follow the root directory on the disk
  Paths           \* the paths programs open

ASSUME LookupAssumption ==
  /\ RootEntries \in Nat \ {0} /\ NameLen \in Nat \ {0} /\ ExtLen \in Nat \ {0}
  /\ EntryKinds \subseteq Seq(Nat)
  /\ \A e \in EntryKinds : Len(e) = NameLen + ExtLen + 2 /\ e[Len(e)] = Nul
  /\ Tails \subseteq Seq(EntryKinds)
  /\ Paths \subseteq Seq(Nat)

VARIABLES
  disk,           \* the signature, the items from the root directory on, and
                  \* how its subdirectories lie (Subs)
  mounted,        \* disk.filesystem is set
  root,           \* the buffer fat16_get_root_directory reads, <<>> before
  total,          \* root_directory.total
  pc,             \* where the call is
  i,              \* the loops' variable
  path,           \* the path of the last fopen
  rest,           \* what pathparser_parse has not read yet
  parts,          \* the components found
  found           \* the index of the entry that matched, None before

vars == <<disk, mounted, root, total, pc, i, path, rest, parts, found>>
dir  == <<disk, mounted, root, total>>

None == -1
EndMark(e) == e[1] = Nul
ErasedMark == 229
Erased(e)  == e[1] = ErasedMark
Subdirectory(e) == (e[NameLen + ExtLen + 1] \div 16) % 2 = 1

(* Subdirectories fit into a cluster, or are longer, or have no end mark.      *)
Subs == {"short", "long", "endless"}

Init ==
  /\ \E signed \in BOOLEAN, subs \in Subs,
        items \in [1 .. RootEntries -> EntryKinds], tail \in Tails :
       disk = [signed |-> signed, items |-> items \o tail, subs |-> subs]
  /\ mounted = FALSE /\ root = <<>> /\ total = 0
  /\ pc = "boot" /\ i = 0
  /\ path = <<>> /\ rest = <<>> /\ parts = <<>> /\ found = None

-----------------------------------------------------------------------------
(* disk_search_and_init: fs_resolve tries the one file system there is.        *)

(* The signature of the boot sector is not FAT16's: fat16_resolve takes back   *)
(* fs_private, and fs_resolve returns 0 for disk.filesystem.                 *)
ResolveForeign ==
  /\ pc = "boot" /\ ~ disk.signed
  /\ mounted' = FALSE
  /\ pc' = "idle"
  /\ UNCHANGED <<disk, root, total, i, path, rest, parts, found>>

Resolve ==
  /\ pc = "boot" /\ disk.signed
  /\ pc' = "count"
  /\ i' = 0
  /\ UNCHANGED <<dir, path, rest, parts, found>>

(* The loop of fat16_get_total_items_for_directory reads entry by entry, past  *)
(* the end of the directory if need be; i is the entry read next.             *)
Counting(e) == pc = "count" /\ i < Len(disk.items) /\ e = disk.items[i + 1]

CountUsed ==
  /\ \E e \in EntryKinds : Counting(e) /\ ~ EndMark(e) /\ ~ Erased(e)
  /\ total' = total + 1
  /\ i' = i + 1
  /\ UNCHANGED <<disk, mounted, root, pc, path, rest, parts, found>>

CountErasedToo ==       \* wrong: an erased entry counts
  /\ \E e \in EntryKinds : Counting(e) /\ ~ EndMark(e) /\ Erased(e)
  /\ total' = total + 1
  /\ i' = i + 1
  /\ UNCHANGED <<disk, mounted, root, pc, path, rest, parts, found>>

CountErasedStays ==     \* wrong: the entry is read again and again
  /\ \E e \in EntryKinds : Counting(e) /\ ~ EndMark(e) /\ Erased(e)
  /\ UNCHANGED vars

CountErased ==
  /\ \E e \in EntryKinds : Counting(e) /\ ~ EndMark(e) /\ Erased(e)
  /\ i' = i + 1
  /\ UNCHANGED <<dir, pc, path, rest, parts, found>>

(* The end mark.  The directory is read as a whole, and the kernel goes on.    *)
CountEnd ==
  /\ \E e \in EntryKinds : Counting(e) /\ EndMark(e)
  /\ root' = SubSeq(disk.items, 1, RootEntries)
  /\ mounted' = TRUE
  /\ pc' = "idle"
  /\ UNCHANGED <<disk, total, i, path, rest, parts, found>>

(* No end mark on the whole disk: disk_read_sector polls for good behind it.   *)
DiskWaits ==
  /\ pc = "count" /\ i = Len(disk.items)
  /\ pc' = "waits"
  /\ UNCHANGED <<dir, i, path, rest, parts, found>>

-----------------------------------------------------------------------------
(* fopen for reading.                                                       *)

OpenBadPath(p) ==
  /\ pc = "idle" /\ ~ Accepted(p)
  /\ path' = p /\ rest' = <<>> /\ parts' = <<>> /\ found' = None
  /\ UNCHANGED <<dir, pc, i>>

Open(p) ==
  /\ pc = "idle" /\ Accepted(p)
  /\ pc' = "parse"
  /\ path' = p /\ rest' = SubSeq(p, 4, Len(p)) /\ parts' = <<>> /\ found' = None
  /\ UNCHANGED <<dir, i>>

(* pathparser_parse_path_part finds a component.                              *)
ParsePart ==
  /\ pc = "parse" /\ Component(rest) # <<>>
  /\ parts' = Append(parts, Component(rest))
  /\ rest' = Remainder(rest)
  /\ UNCHANGED <<dir, pc, i, path, found>>

(* It finds none, be it at the end of the path or between two slashes.  fopen   *)
(* gives up if there was no component at all, the drive is not disk 0, or the  *)
(* disk has no file system.                                                  *)
ParseEnd ==
  /\ pc = "parse" /\ Component(rest) = <<>>
  /\ pc' = IF parts = <<>> \/ Drive(path) # 0 \/ ~ mounted THEN "idle" ELSE "scan"
  /\ i' = 0
  /\ UNCHANGED <<dir, path, rest, parts, found>>

(* fat16_find_item_in_directory looks at the next of total entries; behind the  *)
(* buffer it finds whatever the heap has there.                              *)
Matches == i < Len(root) => SameName(FullName(root[i + 1]), parts[1])
Misses  == i < Len(root) => ~ SameName(FullName(root[i + 1]), parts[1])

ScanMissPast ==         \* wrong: i <= total
  /\ pc = "scan" /\ i <= total /\ Misses
  /\ i' = i + 1
  /\ UNCHANGED <<dir, pc, path, rest, parts, found>>

ScanMiss ==
  /\ pc = "scan" /\ i < total /\ Misses
  /\ i' = i + 1
  /\ UNCHANGED <<dir, pc, path, rest, parts, found>>

(* A match makes a new item, and the scan goes on, whether the item could be     *)
(* loaded or not.  For a subdirectory its entries are counted first, on the    *)
(* disk, which ends at an end mark; then they are read, and from the second    *)
(* cluster on that takes the allocation table, which may lead behind the disk *)
(* (module FatRead).                                                        *)
ScanMatchNext ==        \* wrong: takes the entry behind the match
  /\ pc = "scan" /\ i < total /\ Matches
  /\ (i < Len(root) /\ Subdirectory(root[i + 1])) => disk.subs # "endless"
  /\ found' = i + 1
  /\ i' = i + 1
  /\ UNCHANGED <<dir, pc, path, rest, parts>>

ScanMatch ==
  /\ pc = "scan" /\ i < total /\ Matches
  /\ (i < Len(root) /\ Subdirectory(root[i + 1])) => disk.subs # "endless"
  /\ found' = i
  /\ i' = i + 1
  /\ UNCHANGED <<dir, pc, path, rest, parts>>

LoadWaits ==
  /\ pc = "scan" /\ i < total /\ Matches
  /\ i < Len(root) => Subdirectory(root[i + 1]) /\ disk.subs # "short"
  /\ pc' = "waits"
  /\ UNCHANGED <<dir, i, path, rest, parts, found>>

(* fat16_get_directory_entry: an item is always of type FILE, so a second       *)
(* component ends the search with nothing.                                   *)
ScanEnd ==
  /\ pc = "scan" /\ i = total
  /\ found' = IF Len(parts) > 1 THEN None ELSE found
  /\ pc' = "idle"
  /\ UNCHANGED <<dir, i, path, rest, parts>>

Steps ==
  \/ ResolveForeign \/ Resolve \/ CountUsed \/ CountErased \/ CountEnd \/ DiskWaits
  \/ ParsePart \/ ParseEnd
  \/ ScanMiss \/ ScanMatch \/ LoadWaits \/ ScanEnd

Next == Steps \/ \E p \in Paths : OpenBadPath(p) \/ Open(p)

(* A call runs to its end; which path is opened next is the program's choice.  *)
Spec == Init /\ [][Next]_vars /\ WF_vars(Steps)

-----------------------------------------------------------------------------
(* Properties.                                                              *)

LookupTypeOK ==
  /\ pc \in {"boot", "count", "parse", "scan", "idle", "waits"}
  /\ mounted \in BOOLEAN
  /\ root \in {<<>>, SubSeq(disk.items, 1, RootEntries)}
  /\ i \in 0 .. Len(disk.items) /\ total \in 0 .. Len(disk.items)
  /\ pc = "scan" => i <= total
  /\ path \in Paths \cup {<<>>}
  /\ found \in -1 .. total - 1

(* Where the directory's end mark is; 0 if there is none on the disk.          *)
EndAt == SelectInSeq(disk.items, EndMark)

(* The entries in use, as the format defines them: those of the root directory *)
(* that are not erased, up to its end mark or, if it has none, all of it.     *)
Live == {k \in 0 .. RootEntries - 1 :
           /\ \A j \in 0 .. k : ~ EndMark(disk.items[j + 1])
           /\ ~ Erased(disk.items[k + 1])}

(* A mounted directory with an end mark: the count stays inside of it.         *)
InRoot == mounted /\ EndAt \in 1 .. RootEntries

(* A disk is mounted exactly if its boot sector is FAT16's, and then with the  *)
(* root directory in memory and, if that has an end mark, its entries in use   *)
(* counted, however the erased ones lie between them (src/fs/fat16.c:181,      *)
(* :254, :293).  In a directory without one, the code counts on behind it.    *)
MountedRight ==
  pc \in {"idle", "parse", "scan"} =>
    /\ mounted = disk.signed
    /\ mounted => root = SubSeq(disk.items, 1, RootEntries)
    /\ InRoot => total = Cardinality(Live)

(* The components searched for are those between the slashes, up to the first   *)
(* empty one: no character is lost or taken twice where the loops of            *)
(* src/fs/pparser.c:45 and :140 meet at a slash.                             *)
ParsedIsPath ==
  pc = "scan" =>
    LET all   == Between(path)
        empty == SelectInSeq(all, LAMBDA c : c = <<>>)
    IN  parts = IF empty = 0 THEN all ELSE SubSeq(all, 1, empty - 1)

(* What a path opens in a directory with an end mark is an entry before that    *)
(* mark, and called as the path says unless a field of its name runs on into   *)
(* the next or is not padded as the format wants.  It is not an erased one,    *)
(* for the code skips these nowhere but in the count, unless the path itself   *)
(* begins with the byte that marks them.                                     *)
FoundIsNamed ==
  (pc = "idle" /\ InRoot /\ found # None) =>
    /\ found < EndAt - 1
    /\ Len(parts) = 1
    /\ found \in Live \/ parts[1][1] = ErasedMark
    /\ Readable(disk.items[found + 1]) =>
         SameName(ShortName(disk.items[found + 1]), parts[1])

(* An entry is found under its name, in either case of letters, if no erased    *)
(* entry comes before it, its fields are terminated and padded, and no other    *)
(* entry is read as the same name.                                           *)
UniqueFound ==
  (pc = "idle" /\ InRoot /\ Len(parts) = 1 /\ Drive(path) = 0) =>
    \A k \in Live :
      /\ 0 .. k \subseteq Live
      /\ Readable(disk.items[k + 1])
      /\ SameName(ShortName(disk.items[k + 1]), parts[1])
      /\ \A j \in Live \ {k} : ~ SameName(FullName(disk.items[j + 1]), parts[1])
      => found = k

(* Booting and every fopen come to an end if the root directory has an end mark *)
(* and the subdirectories in it have one in their first cluster: counting       *)
(* entries is the only loop that nothing else bounds (src/fs/fat16.c:181).     *)
DirectoriesEnd == disk.signed => EndAt \in 1 .. RootEntries /\ disk.subs = "short"

LookupReturns == (pc # "idle" /\ DirectoriesEnd) ~> pc = "idle"

(* Every file of the root directory can be opened under its name (README.md:5, *)
(* "read-only FAT16 filesystem support").  The code violates it: see README.  *)
FilesFound ==
  (pc = "idle" /\ InRoot /\ Len(parts) = 1 /\ Drive(path) = 0) =>
    \A k \in Live :
      /\ ~ Subdirectory(disk.items[k + 1])
      /\ SameName(ShortName(disk.items[k + 1]), parts[1])
      => found # None
=============================================================================
