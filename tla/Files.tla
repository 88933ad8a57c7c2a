-------------------------------- MODULE Files --------------------------------
(***************************************************************************)
(* fopen and fclose (src/fs/file.c) over FAT16 (src/fs/fat16.c) and the      *)
(* path parser (src/fs/pparser.c): which heap blocks they take, which of     *)
(* them a handle leads to, and what is left behind when a step in the middle *)
(* fails.                                                                    *)
(*                                                                         *)
(* Every structure involved takes one heap block, and a one-block request    *)
(* gets the lowest free block and fails only when there is none (see         *)
(* HeapTable), so the heap is `mem', a function from the blocks left after   *)
(* booting to what they hold.  Where the code does not test kzalloc's        *)
(* result it writes to the mapped page 0 and goes on with a null pointer:    *)
(* that is what the model does.                                             *)
(* A definition marked wrong is a deliberate mistake in the next one.        *)
(***************************************************************************)
EXTENDS Integers, FiniteSets, Sequences

CONSTANTS
  Pool,         \* how many blocks are left for files
  MaxFd,        \* DEXTER_MAX_FILE_DESCRIPTORS
  FileNames,    \* the files of the root directory
  DirNames,     \* its subdirectories
  OtherNames,   \* names that are not on the disk
  Paths,        \* the paths fopen is given, as sequences of names
  NoName        \* what a clone that was not made holds

ASSUME FilesAssumption ==
  /\ Pool \in Nat \ {0}
  /\ MaxFd \in Nat \ {0}
  /\ Paths \subseteq Seq(FileNames \cup DirNames \cup OtherNames)
  /\ NoName \notin FileNames \cup DirNames
  /\ 0 \notin FileNames \cup DirNames \cup {NoName}

VARIABLES
  mem,      \* what every block holds
  fds,      \* file_descriptors, by descriptor number: a block or NULL
  handles,  \* history: what fopen returned and fclose has not closed
  tidy      \* history: no fopen yet that failed late or opened a directory

vars == <<mem, fds, handles, tidy>>

NULL  == 0
Ptrs  == 1 .. Pool
Ptr0  == {NULL} \cup Ptrs
Fds   == 1 .. MaxFd

Free       == [kind |-> "free"]
Path       == [kind |-> "path"]       \* a path_root, a path_part or its string
Directory  == [kind |-> "directory"]  \* a fat_directory or its items
Dirent(n)  == [kind |-> "dirent", name |-> n]
Item(d)    == [kind |-> "item", dirent |-> d]
Private(i) == [kind |-> "private", item |-> i]
Desc(i, p) == [kind |-> "desc", index |-> i, private |-> p]

-----------------------------------------------------------------------------
(* The heap.                                                                *)

FreeBlocks(m) == {p \in Ptrs : m[p] = Free}

(* kzalloc of one block, NULL when there is none.                            *)
NewPastEnd(m) == IF FreeBlocks(m) = {} THEN Pool + 1    \* wrong: never fails
                 ELSE CHOOSE p \in FreeBlocks(m) : \A q \in FreeBlocks(m) : p <= q

New(m) == IF FreeBlocks(m) = {} THEN NULL
          ELSE CHOOSE p \in FreeBlocks(m) : \A q \in FreeBlocks(m) : p <= q

Put(m, p, x) == [q \in Ptrs |-> IF q = p THEN x ELSE m[q]]

(* A store through NULL goes to page 0, kfree(NULL) clears a byte outside the *)
(* block table: neither changes a block.                                     *)
Kfree(m, S) == [q \in Ptrs |-> IF q \in S THEN Free ELSE m[q]]

(* The n lowest free blocks, or all if there are fewer, become x.             *)
Take(m, n, x) ==
  [q \in Ptrs |-> IF /\ m[q] = Free
                     /\ Cardinality({p \in FreeBlocks(m) : p < q}) < n
                  THEN x ELSE m[q]]

-----------------------------------------------------------------------------
(* pathparser_parse of a well-formed path: a root, then a string and a part   *)
(* for each component.  Without a block for one of them the path ends there,  *)
(* as if the component had not been written.  Nothing frees any of it:        *)
(* pathparser_free has no caller.                                            *)

Parsed(m, path) == Take(m, 1 + 2 * Len(path), Path)

PartsParsed(m, path) ==
  LET n == (Cardinality(FreeBlocks(m)) - 1) \div 2
  IN  IF FreeBlocks(m) = {} THEN 0 ELSE IF n < Len(path) THEN n ELSE Len(path)

-----------------------------------------------------------------------------
(* fat16_open.  `readable' is the result of fat16_read_internal on the        *)
(* clusters of a subdirectory.                                               *)

(* fat16_load_fat_directory: on an error both blocks are freed (and the freed *)
(* directory is returned); on success nobody keeps them, because the item is  *)
(* then made a file item and its union overwritten with the clone.           *)
LoadDirectory(m, readable) ==
  LET withDir == Put(m, New(m), Directory)
  IN  IF readable /\ New(m) # NULL /\ New(withDir) # NULL
      THEN Put(withDir, New(withDir), Directory)
      ELSE m

(* fat16_new_fat_item_for_directory_item at block i: the item's memory after, *)
(* whose dirent is NULL if the clone got no block.                           *)
NewItemShared(m, i, n, readable) ==     \* wrong: shares a clone made before
  LET others == {q \in Ptrs : m[q] = Dirent(n)}
      d == IF others = {} THEN New(Put(m, i, Item(NULL)))
           ELSE CHOOSE q \in others : TRUE
  IN  Put(Put(m, d, Dirent(n)), i, Item(d))

NewItem(m, i, n, readable) ==
  LET loaded == IF n \in DirNames THEN LoadDirectory(Put(m, i, Item(NULL)), readable)
                ELSE Put(m, i, Item(NULL))
      d == New(loaded)
  IN  Put(Put(loaded, d, Dirent(n)), i, Item(d))

(* What fat16_open leaves in memory: `ptr' is its result, NULL for an error.  *)
(* Every error after the first kzalloc leaves the descriptor allocated.  An   *)
(* item is never a directory, so a path of several components finds its first *)
(* one and gives up, leaving that item allocated too.                        *)
FatOpen(m, parts, readable) ==
  LET p     == New(m)
      m1    == Put(m, p, Private(NULL))
      i     == New(m1)
      found == parts[1] \in FileNames \cup DirNames /\ i # NULL
      m2    == NewItem(m1, i, parts[1], readable)
  IN  CASE p = NULL                     -> [mem |-> m,  ptr |-> NULL]
        [] p # NULL /\ ~ found          -> [mem |-> m1, ptr |-> NULL]
        [] found /\ Len(parts) > 1      -> [mem |-> m2, ptr |-> NULL]
        [] found /\ Len(parts) = 1      -> [mem |-> Put(m2, p, Private(i)), ptr |-> p]

-----------------------------------------------------------------------------
(* fs_init leaves the table empty.                                           *)
Init == /\ mem = [p \in Ptrs |-> Free]
        /\ fds = [i \in Fds |-> NULL]
        /\ handles = {}
        /\ tidy = TRUE

(* A path that is not of the form digit:/ is refused before any allocation.   *)
FopenBadPath == UNCHANGED vars

(* No root could be allocated, the path has no component, its disk does not   *)
(* exist or has no file system, or the mode is not "r": fopen gives up before *)
(* fat16_open allocates.                                                     *)
FopenRefused(path) ==
  /\ mem' = Parsed(mem, path)
  /\ UNCHANGED <<fds, handles, tidy>>

(* file_new_descriptor takes the first empty slot.                           *)
EmptySlots == {i \in Fds : fds[i] = NULL}
Slot == CHOOSE i \in EmptySlots : \A j \in EmptySlots : i <= j

Opened(path, readable) ==
  FatOpen(Parsed(mem, path), SubSeq(path, 1, PartsParsed(mem, path)), readable)

(* fat16_open fails, or every slot is taken: fopen returns 0 and keeps what   *)
(* was allocated so far.                                                     *)
FopenFails(path, readable) ==
  /\ PartsParsed(mem, path) > 0
  /\ LET o == Opened(path, readable)
     IN  /\ o.ptr = NULL \/ EmptySlots = {}
         /\ mem' = o.mem
  /\ tidy' = FALSE
  /\ UNCHANGED <<fds, handles>>

(* No block for the file_descriptor: its fields are written at address 0, the *)
(* slot stays NULL, and fopen returns the slot's number all the same.        *)
FopenNoBlock(path, readable) ==
  /\ PartsParsed(mem, path) > 0
  /\ LET o == Opened(path, readable)
     IN  /\ o.ptr # NULL /\ EmptySlots # {} /\ New(o.mem) = NULL
         /\ mem' = o.mem
  /\ handles' = handles \cup {Slot}
  /\ tidy' = FALSE
  /\ UNCHANGED fds

FopenSucceeds(path, readable) ==
  /\ PartsParsed(mem, path) > 0
  /\ LET o == Opened(path, readable)
         d == New(o.mem)
     IN  /\ o.ptr # NULL /\ EmptySlots # {} /\ d # NULL
         /\ mem' = Put(o.mem, d, Desc(Slot, o.ptr))
         /\ fds' = [fds EXCEPT ![Slot] = d]
  /\ handles' = handles \cup {Slot}
  /\ tidy' = (tidy /\ path[1] \notin DirNames)

(* file_get_descriptor: the bound is one short of the table.                  *)
GetDescriptor(fd) == IF fd <= 0 \/ fd >= MaxFd THEN NULL ELSE fds[fd]

FcloseBad(fd) == GetDescriptor(fd) = NULL /\ UNCHANGED vars

(* fclose: fat16_close frees the clone, the item and the private data, then   *)
(* file_free_descriptor clears the slot the descriptor names and frees it.    *)
FcloseKeepsSlot(fd) ==                  \* wrong: the slot is not cleared
  LET d == GetDescriptor(fd)
      p == mem[d].private
      i == mem[p].item
  IN  /\ d # NULL
      /\ mem' = Kfree(mem, {mem[i].dirent, i, p, d})
      /\ handles' = handles \ {fd}
      /\ UNCHANGED <<fds, tidy>>

FcloseKeepsItem(fd) ==                  \* wrong: the item is not freed
  LET d == GetDescriptor(fd)
      p == mem[d].private
  IN  /\ d # NULL
      /\ mem' = Kfree(mem, {p, d})
      /\ fds' = [fds EXCEPT ![mem[d].index] = NULL]
      /\ handles' = handles \ {fd}
      /\ UNCHANGED tidy

FcloseFreesPaths(fd) ==                 \* wrong: frees what is not the handle's
  LET d == GetDescriptor(fd)
  IN  /\ d # NULL
      /\ mem' = Kfree(mem, {d} \cup {q \in Ptrs : mem[q] = Path})
      /\ fds' = [fds EXCEPT ![mem[d].index] = NULL]
      /\ handles' = handles \ {fd}
      /\ UNCHANGED tidy

Fclose(fd) ==
  LET d == GetDescriptor(fd)
      p == mem[d].private
      i == mem[p].item
  IN  /\ d # NULL
      /\ mem' = Kfree(mem, {mem[i].dirent, i, p, d})
      /\ fds' = [fds EXCEPT ![mem[d].index] = NULL]
      /\ handles' = handles \ {fd}
      /\ UNCHANGED tidy

Next ==
  \/ FopenBadPath
  \/ \E path \in Paths :
       \/ FopenRefused(path)
       \/ \E readable \in BOOLEAN :
            \/ FopenFails(path, readable)
            \/ FopenNoBlock(path, readable)
            \/ FopenSucceeds(path, readable)
  \/ \E fd \in 0 .. (MaxFd + 1) : FcloseBad(fd) \/ Fclose(fd)

Spec == Init /\ [][Next]_vars

-----------------------------------------------------------------------------
(* Properties.                                                              *)

Objects == {Free, Path, Directory}
             \cup {Dirent(n) : n \in FileNames \cup DirNames}
             \cup {Item(d) : d \in Ptr0}
             \cup {Private(i) : i \in Ptr0}
             \cup {Desc(i, p) : i \in Fds, p \in Ptrs}

(* Blocks hold one of the structures, slots hold blocks.                      *)
TypeOK == /\ mem \in [Ptrs -> Objects]
          /\ fds \in [Fds -> Ptr0]
          /\ handles \subseteq Fds
          /\ tidy \in BOOLEAN

OpenFds == {i \in Fds : fds[i] # NULL}

(* The blocks a slot leads to: descriptor, private data, item, clone.         *)
Chain(i) ==
  LET p == mem[fds[i]].private
  IN  {fds[i], p, mem[p].item, mem[mem[p].item].dirent} \ {NULL}

(* Whatever was opened, failed or closed before, a slot in use leads to its   *)
(* own descriptor, private data and item, none of them freed or reused.       *)
ChainsSound ==
  \A i \in OpenFds :
    LET d == mem[fds[i]]
    IN  /\ d.kind = "desc" /\ d.index = i
        /\ mem[d.private].kind = "private"
        /\ mem[d.private].item # NULL
        /\ mem[mem[d.private].item].kind = "item"
        /\ \/ mem[mem[d.private].item].dirent = NULL
           \/ mem[mem[mem[d.private].item].dirent].kind = "dirent"

(* No block belongs to two handles, so that closing one frees nothing another *)
(* one uses.                                                                 *)
ChainsDisjoint ==
  \A i, j \in OpenFds : i # j => Chain(i) \cap Chain(j) = {}

(* A failing fopen, wherever it fails, leaves no slot in use: a slot is in    *)
(* use only if its number was returned and not closed since.                 *)
NoSlotLeaked == OpenFds \subseteq handles

(* Blocks in use that no slot leads to.                                       *)
Garbage == {p \in Ptrs : mem[p].kind # "free"} \ UNION {Chain(i) : i \in OpenFds}

(* As long as every fopen that got as far as fat16_open succeeded, on files,  *)
(* nothing but paths is lost: fclose gives back all the rest.                 *)
OnlyPathsLost == tidy => \A p \in Garbage : mem[p] = Path

(* What is lost is lost for good: no fclose of any handle frees it.           *)
GarbageGrows == [][Garbage \subseteq Garbage']_vars

(* A number that fopen returned can be used until it is closed: open_file     *)
(* (src/sys/kernel.c:51-82) reads, stats and closes every one it gets, and    *)
(* numbers run from 1 (src/fs/file.c:69).  The code violates it: README.      *)
HandleUsable == \A fd \in handles : GetDescriptor(fd) # NULL

(* The file an open slot leads to, through all its pointers, is a handle's    *)
(* binding in the sense of FileTable.                                        *)
Target(i) == LET d == mem[mem[mem[fds[i]].private].item].dirent
             IN  IF d = NULL \/ mem[d].kind # "dirent" THEN NoName ELSE mem[d].name

Table == INSTANCE FileTable WITH
  Handles <- Fds,
  Targets <- FileNames \cup DirNames \cup {NoName},
  Closed  <- NULL,
  binding <- [i \in Fds |-> IF fds[i] = NULL THEN NULL ELSE Target(i)]

ImplementsFileTable == Table!Spec
=============================================================================
