----------------------------- MODULE PageTables -----------------------------
(***************************************************************************)
(* Page directories (src/mem/paging.c): a directory of tables of entries,    *)
(* an entry for every page of the address space.  An entry is the number of   *)
(* a frame and whether the program may write it; all entries are present and  *)
(* open to user mode.  Everything here is a pure operator of a directory.     *)
(* A definition marked wrong is a deliberate mistake in the next one.        *)
(***************************************************************************)
EXTENDS Integers

CONSTANTS
  PageSize,       \* PAGING_PAGE_SIZE (4096)
  TableSize       \* PAGING_TOTAL_ENTRIES_PER_TABLE (1024), also of directories

ASSUME PagingAssumption == PageSize \in Nat \ {0} /\ TableSize \in Nat \ {0}

Entry(frame, write) == [frame |-> frame, write |-> write]

TableBytes == TableSize * PageSize
Indexes    == 0 .. (TableSize - 1)
Pages      == 0 .. (TableSize * TableSize - 1)

Aligned(v) == v % PageSize = 0

AlignAddressDown(a) == a - (a % PageSize)   \* wrong: loses what is behind the last boundary

AlignAddress(a) == IF Aligned(a) THEN a ELSE a + PageSize - (a % PageSize)

(* paging_new_4gb: every page stands for the frame of its own number.         *)
New4gb(write) == [d \in Indexes |-> [t \in Indexes |-> Entry(d * TableSize + t, write)]]

(* paging_get_indexes, of an aligned address.                                *)
DirectoryIndex(v) == v \div TableBytes
TableIndex(v)     == (v % TableBytes) \div PageSize

Get(dir, v) == dir[DirectoryIndex(v)][TableIndex(v)]

Set(dir, v, entry) ==
  IF Aligned(v) THEN [dir EXCEPT ![DirectoryIndex(v)][TableIndex(v)] = entry] ELSE dir

PagingMap(dir, virt, phys, write) ==
  IF Aligned(virt) /\ Aligned(phys) THEN Set(dir, virt, Entry(phys \div PageSize, write)) ELSE dir

(* paging_map_range; its loop is the recursion.                              *)
MapRange(dir, virt, phys, count, write) ==
  LET mapped[n \in 0 .. count] ==
        IF n = 0 THEN dir
        ELSE PagingMap(mapped[n - 1], virt + (n - 1) * PageSize, phys + (n - 1) * PageSize, write)
  IN  mapped[count]

(* paging_map_to leaves the directory alone if it refuses its arguments.      *)
MapTo(dir, virt, phys, physEnd, write) ==
  IF Aligned(virt) /\ Aligned(phys) /\ Aligned(physEnd) /\ physEnd >= phys
  THEN MapRange(dir, virt, phys, (physEnd - phys) \div PageSize, write)
  ELSE dir

(* The processor's translation of an address: where the byte is, and whether   *)
(* a program may write it.                                                   *)
Translate(dir, a) ==
  LET entry == Get(dir, a - (a % PageSize))
  IN  [at |-> entry.frame * PageSize + (a % PageSize), write |-> entry.write]
=============================================================================
