# Dexter in TLA+

Dexter is a small 32-bit x86 kernel: a block heap, a read-only FAT16 file
system with a table of file descriptors, a loader that turns an executable
into a process with one task and a page directory of its own, and a system
call gate with two commands. This directory holds TLA+ modules of the parts
that carry state, the TLC configurations that check them on small instances,
and theorems that TLAPS proves for all values of the constants. Source paths
below are relative to `src/src/`.

    tlc -config heap.cfg MCHeap.tla        # likewise for the other runs
    tlapm HeapProofs.tla                   # likewise for the other modules of proofs

`PROJECT.json` lists the runs with their modules and configurations, the lines
of code each definition stands for, a mutant of the code for every property,
the hazards, and the theorems.

## 1. The system

### Components, their state and operations

| component | state | operations |
|---|---|---|
| heap (`mem/heap.c`, `mem/kheap.c`, `libc/stdlib.c`) | one byte for each of 25600 blocks of 4096 bytes | `kmalloc`, `kzalloc`, `kfree`, `malloc`, `calloc`, `free` |
| file handles (`fs/file.c`) | `file_descriptors[512]`, pointers to heap structures | `fopen`, `fread`, `fseek`, `fstat`, `fclose` |
| FAT16 (`fs/fat16.c`) | private data of a handle: the item and the position; the root directory and three disk streams | `open`, `read`, `seek`, `stat`, `close`, `resolve` |
| disk streams (`fs/streamer.c`) | a position | `diskstreamer_seek`, `diskstreamer_read` |
| path parser (`fs/pparser.c`) | none; allocates a list of parts | `pathparser_parse`, `pathparser_free` |
| processes (`proc/process.c`) | `processes[]`, the current process | `process_load` |
| tasks (`proc/task.c`) | a doubly linked list, `current_task`, saved registers | `task_new`, `task_free`, `task_switch`, `task_page`, `task_get_stack_item`, `copy_string_from_task` |
| paging (`mem/paging.c`) | two-level tables, one set per task and one for the kernel | `paging_new_4gb`, `paging_map_to`, `paging_set`, `paging_switch` |
| interrupts and system calls (`sys/idt.c`, `x86/idt.asm`, `proc/commands.c`) | command and callback tables | `isr80h_handler`, `interrupt_handler`, commands 0 (sum) and 1 (print) |
| keyboard (`dev/`) | a list of drivers, a ring of characters in each process | `keyboard_push`, `keyboard_pop`, `keyboard_backspace` |
| terminal (`libc/stdio.c`) | the cursor and the video memory | `print`, `cprint` |
| boot (`x86/`, `sys/kernel.c`, `sys/gdt.c`), disk driver (`fs/disk.c`) | descriptor tables; none | straight-line initialisation; `disk_read_sector` |

### How they interact

Everything is a direct call on one processor. All dynamic structures come from
the heap, one block or more each: `fopen` takes a root, two blocks for every
component of the path, private data, an item, a clone of the directory item
and a descriptor; `process_load` takes a `struct process`, opens and reads the
executable through the file layer, takes the image and the stack, and has
`task_new` take the task and `paging_new_4gb` 1026 blocks of tables. User
programs enter through gate 0x80 or a hardware interrupt and see the kernel
only through the page directory and the segments that the handler leaves.

### What is hard

* **No concurrency inside the kernel.** Gates clear the interrupt flag and
  the kernel never sets it, so a call is not interrupted. The interleaving that
  matters is of whole calls, by different clients, in any order.
* **Allocation failure in the middle.** Many results of `kzalloc` are not
  tested. The store goes to page 0, which is mapped, and the code goes on with
  a null pointer. What is consistent after that is not obvious anywhere.
* **Leaks as state.** Paths, failed opens, failed loads and blocks of larger
  allocations are never freed, so the kernel drifts through a long sequence of
  legal calls to an exhausted heap.
* **Bytes.** A table entry of eight bits holds flags of nine; sizes are
  rounded up modulo 2^32; requests of zero bytes return pointers.
* **Nested loops over a file** (member, cluster, walk through the table,
  sector) whose positions must stay in step, on a disk whose content is not to
  be trusted.
* **Names and counts on a disk.** The root directory is bounded by an end mark
  and not by its size, names run into each other where a field is full, and a
  count made one way bounds an index that counts another way.
* **Changing address spaces inside a handler.** `print` maps a kernel block
  into the caller's directory, switches there, copies, switches back and
  unmaps it.

`PROJECT.json` lists the hazards one by one with the line and the properties
that cover them, or the reason why none does.

### What makes each component correct

* heap: outstanding allocations are disjoint and stay marked; a request gets
  as many bytes as it asked for; what is freed can be used again.
* files: a handle refers to its own file until it is closed; a failing open
  leaves no handle; a handle that was returned can be used; a read stores the
  bytes of the file and returns, unless the disk leads it behind its end.
* lookup: a disk whose root directory has an end mark is mounted with its entries
  counted right; what a path opens is called so; an entry is found under its name; booting and opening return.
* paging: a program finds its image and its stack, byte by byte, and nothing
  else that it could write.
* processes: no program can write another's memory or the kernel's structures;
  the task list is a list; a failing load leaves nothing behind.
* system calls: the program gets its context back, arguments are its own of
  this call, nothing that was lent to it stays; in all, a call is one answer.

## 2. Modules

| module | models | how |
|---|---|---|
| `HeapTable` | encoding of entries, the search for a run, marking and freeing | pure operators of a table |
| `Heap` | the six allocation calls | one action per call; `entries` is the table, `live` the history of pointers given out |
| `HeapLoops` | the loops of `heap.c` | one iteration per step, from every table, with the C locals |
| `Allocator` | what an allocator promises | abstract: grant disjoint extents, release |
| `Files` | `fopen`, `fclose`, the parser and FAT16 open and close beneath them | one action per outcome; `mem` says what structure each block holds |
| `FileTable` | what a table of handles promises | abstract: a handle is bound to one file from open to close |
| `FatRead` | `fread`, `fseek`, `fat16_read*`, `diskstreamer_read` | one loop iteration per step; a byte is named by its position on the disk |
| `PathParser` | the text of a path: its format, its components | pure operators of a sequence of character codes |
| `FatNames` | `fat16_get_full_relative_filename`, `istrncmp` | pure operators of the bytes of a directory entry |
| `Lookup` | `fat16_resolve`, then `fopen` from the path to the entry | composes the two; one loop iteration per step |
| `TaskList` | the linked list of tasks | `task_new` and `task_switch` on structures with links |
| `PageTables` | `paging.c`: building, reading and changing two-level tables | pure operators of a directory |
| `Process` | `process_load` over heap table, task list and paging | composes `HeapTable`, `TaskList` and `PageTables`; one action per outcome |
| `Interrupts` | `isr80h_handler`, `interrupt_handler`, both commands | one C call per step |
| `SystemCalls` | what a program may rely on when it enters the kernel | abstract: call, serve with the answer, return with the program's view |
| `HeapTableProofs` | lemmas about the operators of `HeapTable` | used by the three modules below that rest on the heap |
| `HeapProofs`, `HeapLoopsProofs`, `ProcessProofs`, `FilesProofs`, `FatReadProofs`, `LookupProofs`, `InterruptsProofs` | theorems | see section 5 |
| `MC*` | instances for TLC | values of the constants |

`Heap` uses `GetStartBlock`, `MarkTaken` and `MarkFree` as if each were one
step. `HeapLoops` justifies that: started on any table, with any count, each C
loop ends with the value of its operator, which `HeapLoopsProofs` proves.
`Process` uses the same `GetStartBlock`, on the set of free blocks. `Files` has
one-block requests only, for which that operator gives the lowest free block
(`FitsAt(e, 1)` is the set of free blocks), and writes just that.

`Lookup` decides which entry a path names and has memory enough; `Files` has
every failing allocation and takes the outcomes of the search as given. A
directory entry in `Lookup` is the sequence of its first bytes (name, extension,
attribute, reserved byte), so that a name that runs on into the next field does
so in the model; the path is a sequence of character codes. A match of a
subdirectory loads it, and the code throws the result away: that is one step,
which ends or waits for good. It ends if the count of the subdirectory meets an
end mark and what is then read lies in its first cluster; a longer one is read by
way of the allocation table, as `FatRead` has it, and may or may not end (`Subs`).

`FatRead` computes positions in an `int` of `2 * Half` values, wrapping as the
build does (`-O0`), and divides them as C does. A position on a sector that
the disk does not have, a negative one included (its sector number selects the
second drive, which is not there), leads to `DiskWaits`, and from there `Polls`
is all that happens. Positions in the file are the exception: `FatAssumption` keeps
them below `Half`, so that they do not wrap.

`ImplementsSystemCalls` maps a state of `Interrupts` to the interface: the mode
comes from the C call that is next (`task_page`, the last one, is the moment in
which the answer is there), the answer from `eax` and the buffer that was
printed, the view from the page directory, the segments and the write
permissions, as far as the program runs and can see them.

Two representations leave the layout of the code. In `Files` a pointer is the
number of a block and a structure a record with the pointers it contains. In
`FatRead` the output buffer holds positions, so it tells where each of its bytes
came from, whatever the disk contains; the words of the allocation table are
chosen freely from `Words` at every lookup.

Where the program has undefined behaviour the model chooses or stops: stores
through NULL go to page 0 and change no structure of the model; a byte read
from behind a buffer is `Junk`; a failed `task_new`, after which
`process_load_for_slot` uses an error pointer as a task, sets `wild`, and
`Process` claims nothing beyond it. `Process` therefore stops in such a state,
and its configurations turn the deadlock check off; `HeapLoops` stops when its
loop has ended, and `Lookup` when `disk_read_sector` polls for a sector behind
the end of the disk (in `FatRead`, the polling is a step). All other runs check for deadlock.

A definition whose comment says *wrong* is not used by the specification. It is
the mistaken form of the definition after it, and the mutants of
`PROJECT.json` put it in the other's place to show that a property notices.

## 3. Runs

| run | instance | distinct states | shows |
|---|---|---|---|
| `heap` | 4 blocks of 4 bytes, 8-block `size_t`, requests 0, 1, 5, 29 | 33792 | `LiveDisjoint`, `LiveMarked`, `RequestCovered`, `LostForever`, refinement of `Allocator` |
| `heap_loops` | every table of 4 entries, counts 0 to 6 | 15142 | the loops compute `HeapTable`'s operators |
| `files` | 20 blocks, 2 descriptors, one file, one directory, 5 paths | 30901 | `ChainsSound`, `ChainsDisjoint`, `NoSlotLeaked`, `OnlyPathsLost`, `GarbageGrows`, refinement of `FileTable` |
| `process` | 32 blocks, 3 slots, images of 0, 1 and 2 blocks, 64 pages in 8 tables | 6937 | `Isolation`, `MapsExact`, `LinksMatch`, `ListFollowsSlots` |
| `lookup` | 3 root entries of 9 kinds, names of 2 bytes and 1, 15 paths | 803254 | `MountedRight`, `ParsedIsPath`, `FoundIsNamed`, `UniqueFound`, `LookupReturns` |
| `fat_read` | 12 sectors of 4 bytes, clusters of 2 sectors, an `int` of 8 bits, reads up to 24 bytes | 129424 | `MembersExact`, `AlignedNoJunk`, `FirstClusterServed`, `FreadReturns` |
| `interrupts` | 2 tasks, up to 2 free blocks, 2 stack pointers | 1228 | `UserContext`, `NothingLent`, `SumOfCaller`, `PrintsCallers`, `CallReturns`, refinement of `SystemCalls` |
| `heap_leak`, `fd_limit`, `process_leak`, `fat_chain`, `lookup_lost` | as above, or smaller | | one disagreement each, section 6 |

### Bounds

* **heap.** Four blocks admit a hole between two allocations, a trailing run
  that is too short, and an exhausted heap. The request 5 takes two blocks, so
  it leaks one when freed; 29 lies above the last block boundary of the 32-byte
  `size_t` and rounds up to nothing; 0 owns no block; the products of `calloc`
  cover a wrapped product that the test catches. Freed and leaked blocks
  recur until the heap is full of leaks: the depth of 19 steps is the whole
  state space.
* **heap_loops** is exhaustive in the table: an entry is free, taken, or taken
  and first, since nothing else is ever stored. Counts beyond the table's size
  make the marking loop run past it.
* **files.** An `fopen` of one component takes 7 blocks, so 20 blocks admit two
  open handles with a third attempt that fails at different points, and opens
  after earlier leaks fail at every one of their allocations. Two descriptors
  are the smallest table with a descriptor that works and one at the bound.
* **process.** The structures take 1 to 2 blocks instead of up to 1026, in the
  order of the code. 32 blocks hold three programs, or fewer with every
  pattern of leaks from failed loads. Pages have 4 bytes and tables 8 entries:
  an image of two blocks crosses the boundary of two tables, which the kernel's
  images of more than 4 MB do, and one of 6 bytes does not fill its last page.
  Between stack and image one page is left out, as at 0x3FF000.
* **lookup.** Each of the three entries is any of: the end mark, an erased
  entry, a name, a name with an extension, a subdirectory, a name that fills its
  field, with and without an extension, a full extension on a read-only entry, a
  name with a blank before its letter, which the code reads as no name at all.
  Behind the directory the disk ends at once, has the end mark, or one more
  entry and then either. Subdirectories fit into a cluster, are longer, or have no
  end mark. So the count ends inside, at, or behind the directory, or never;
  the scan ends too early, in time, or in memory behind the buffer. The paths
  have zero to two components, a doubled, a leading and a trailing slash, both
  cases of letters, another drive, a wrong format, too many characters, blanks,
  and the byte 0xE5, which marks an erased entry.
* **fat_read.** Reads start at, inside and behind the first cluster (`MaxPos` 12
  is one and a half clusters), within a sector, across sectors and over
  several clusters, with one and two members. `MaxPos` bounds the position of the
  file, which the code lets grow without limit through `SEEK_CUR`. The disk has
  12 sectors, so that the first cluster lies on it, and `Half` is 128. `Words`
  has an empty entry, an end mark that the code tests (4088), and clusters: 3 lies
  on the disk, 5 half behind its end, the position of 34 wraps around onto the
  disk again, and that of 65535, the end mark the code does not test, to one
  before the disk. So a read waits in the walk and in a cluster, at its first
  sector and later, and goes on where the code goes on by wrapping.
* **interrupts.** `current_task` remains the head, as nothing in the kernel
  switches tasks; the second task shows that the others' directories are not
  touched. With no, one or two free blocks both outcomes of `kzalloc` occur.

### Fairness

`FatRead` and `Lookup` have `WF_vars(Steps)`, `Interrupts` `WF_vars(InKernel)`: once a
program or `process_load` has called into the kernel, nothing else has the
processor until the call returns, so an enabled step of the call is taken. User
programs, and the choice of the next call, have no fairness. `FreadReturns`
and `LookupReturns` assume beyond this that the disk answers for a sector it
has: `disk_read_sector` polls the status port without limit. For a sector that it
does not have, both modules wait for ever, and the properties say when that can
happen. No other module states a liveness property: their calls are single
steps.

## 4. What the checks say about the code

* Sharing does not occur. Despite incomplete frees, requests of no bytes and
  runs that stick out of the heap, two live allocations never overlap. The
  trailing run that is too short is harmless to others for one reason: whoever
  gets it covers the last block, and no later request can then end there.
* A descriptor in use always leads to a whole chain of structures of its own,
  even when the heap was exhausted in the middle of an earlier `fopen`. What
  fails is lost, and never given out half-built.
* In a system where only files are opened, and opened successfully, nothing but
  the parsed paths is lost (`OnlyPathsLost`).
* Programs are isolated from each other and from the kernel's structures, after
  any pattern of failed loads, except that a failing `task_new` leads out of
  the model.
* `fread` is exact in the cases in which the kernel uses it: from the start of
  a sector or inside one, within the first cluster. A read that starts inside a
  sector and crosses its end gets bytes of the kernel's stack, which
  `MembersExact` therefore excludes.
* A read inside a first cluster that is on the disk always returns, and looks at
  no table entry. Any other read returns or comes to wait for a sector that the
  disk does not have: the product of `fs/fat16.c:384` leads there from ordinary
  clusters, as do words that are no entries. No table makes it go round for ever.
* A program's page tables show it its image and its stack exactly, and all the
  rest as it is and not to be written, also when the image ends inside a page or
  crosses tables, and when it lies behind the heap's end.
* A path never opens an entry that lies behind the end mark of a directory that
  has one, and an erased entry only if the path begins with the byte 0xE5: the
  scan does not skip erased entries, their names just begin with a byte that no
  other path has. It opens the entry of its name if none is erased before it, no
  field of the name is full and none has a blank inside (`Readable`); otherwise
  see `lookup_lost`. Opening returns whenever the root directory has
  its end mark and the subdirectories have theirs in their first clusters.
* A system call returns to its caller's context and leaves no mapping behind,
  also when its allocation fails; a program cannot tell it from one step with one
  answer. Without memory `print` shows uninitialized stack memory.

## 5. Theorems

TLAPS checks the eight modules of proofs without gaps. Every invariant, every
action property and all three refinements that the passing runs check are
theorems for all values of the constants. Of liveness, the part that is safety is
proved: the loops and calls go down in an order without infinite descent. The
assumptions are those the modules name:

* `HeapAssumption`, `RequestsAssumption`: sizes and counts are positive naturals,
  requests fit `size_t`.
* `TaskAssumption`, `ProcessAssumption`: a task is the number of a heap block,
  and -1 is none; pages have the size of blocks, and the program, its stack and
  the heap begin at page boundaries, the stack before the program
  (`config.h`).
* `AddressAssumption`: tables of tables cover the address space, and an image
  ends inside it wherever the heap puts it; all of `process_load`'s addresses
  are then computed without wrapping. A program's file is far smaller than the
  nearly 4 GB that this leaves.
* `FilesAssumption`: the names of files and directories are not the null pointer.
* `FatAssumption`: positive sizes of the areas of the disk, table entries of 16
  bits, an `int` whose range is a multiple of the sector's, and that the positions in
  the file that a read passes stay below `Half`: the sizes programs read, and the
  positions `MaxPos` lets them seek to, are far smaller. How long the disk is,
  and whether the file's clusters lie on it, is left open.
* `LookupAssumption`: a directory entry has its fields and the reserved byte that
  is 0, and paths are texts.
* `InterruptsAssumption`: the blocks that may be free are not among those mapped
  into programs, which `ProcessIsolation` proves of the loader; `Head` is a
  task; the numbers of unknown calls are neither 0, 1 nor the mark of an
  interrupt.

**Heap.** `LiveDisjoint` is not inductive: that a new allocation overlaps no
outstanding one is known only from the table. The invariant is `Inv == TypeOK
/\ LiveMarked /\ LiveDisjoint`. `StepCases` reduces every call to a stutter, a
request that is served, or a free. For the first, `StartBlockIsFree` says that
the run found is free as far as it lies in the table, so by `LiveMarked` it
meets no outstanding block there; past the end of the heap, two overlapping
runs would both cover the last block, where one needs it taken and the other
free (`ServedStep`). For the second, `MarkFreeFreesOne` says that a free clears
exactly the first entry, because no byte has bit 8, and by `LiveDisjoint` no
other allocation covers it. From `Inv` follow `HeapLiveDisjoint`, `HeapTypeOK`,
`HeapLiveMarked`; `HeapImplementsAllocator`, with the extents of the
outstanding pointers as the granted ones; and `HeapLostForever`, that a block
left behind is in no later run. What the run `heap_leak` shows by an example,
`HeapLossIsTail` states exactly: the blocks that look taken and are nobody's
change in one way only, when an allocation of several blocks is freed, and then
by all its blocks but the first. Hence `HeapOneBlockGivenBack`: as long as every
outstanding allocation fits one block, `AllFreeWhenIdle` does hold.
`HeapRequestCovered` needs in addition that
counts are those `heap_malloc` computed (`CountOK`), and `BlocksOfCovers`, the
arithmetic of rounding up below the last block boundary.

**Heap loops.** Each C loop has its invariant in `HeapLoopsProofs`. `ScanInv`:
`bs` and `bc` describe the free run that ends at `i`, the longest one, and no
run of the length asked for ended before; where the scan stops, that makes `bs`
the least start that `GetStartBlock` defines, the case of the run at the end of
the heap included. `TakenInv`: the entries behind `i` are marked and `entry`
holds the next one, whatever part of the run lies in the table. `FreeInv`: the
walk of `kfree` is at its first entry until it is done, because no entry has
the flag that would let it go on. `LoopsScanCorrect`, `LoopsTakenCorrect` and
`LoopsFreeCorrect` say that where a loop has ended, it has the values of the
operators `Heap` and `Process` use, so that the theorems about these hold of the
loops. `LoopsEnd` makes this total correctness: `IterationsLeft` is a natural,
0 exactly at the end, and less after every iteration, also for a run that sticks
out of the heap, where the walk of `heap_mark_blocks_taken` passes the last entry.

**Interrupts.** The handlers are straight lines of calls, so the invariant says
for each call what those before it have done: `LentInv`, what is mapped into
the program and taken from the heap; `DirectoryInv`, where the page directory
stands; `ReadInv`, which values were read with which stack pointer. The
theorems `InterruptsUserContext`, `InterruptsNothingLent`,
`InterruptsSumOfCaller`, `InterruptsPrintsCallers` and `InterruptsTypeOK`
follow from it directly. `InterruptsImplementsSystemCalls` needs its last part
as well, that a call is never taken for an interrupt: `EdgesImplement` matches
the entries and the return with steps of the interface, `EndsImplement` the end
of each command with its answer (`AnswerIs`), and `InnerStutters` shows that the
program can tell none of the C calls in between. `InterruptsCallsBounded` counts
them: `CallsLeft`, at most ten, is 0 exactly while the program runs or the kernel
boots, and decreases with every call on every path, those of a failing allocation and
of missing stack items included.

**Process loading.** `LinksMatch` is not inductive: hanging a task behind the
tail keeps the links only if the tail is a task of the list. `ListInv` adds that
a list with a task has both its ends in it. `TaskNewInv` then looks at the new
task, the old tail and all others. That the new one is not in the list, which
`task_new` does not test, is a fact about the heap: `kzalloc` gives what is free
(`TaskWasFree`), and no task that is linked lies in a free block (`FreshInv`).
`ListFollowsSlots` needs more: which process the tail belongs to, and that the
slots are taken from the first on, so that the slot a load fills is the one
behind the last process (`LoadEffect`). That is `SlotInv`; from it follow
`ProcessLinksMatch`, `ProcessListFollowsSlots` and `ProcessTypeOK`.

**Memory of programs.** `MapRange` maps page after page. `Mapped` writes the
result down without the recursion: the pages of the range have the entry of
their frame, all others the one they had; that the two agree for every count is
shown by the least count for which they would not (`NatLessThanWellFounded`, the
form of induction that needs no operator for an argument). From it comes
`PageOf`, what the tables of a loaded program say of every page, and with it
`ProcessMapsExact`. `ProcessIsolation` needs in addition that the blocks a
process owns are held by nobody else and are not free, which is no part of
the property: `OwnInv`, kept over all the outcomes of a load and over what
failed loads leave behind. Runs that stick out of the heap's end are the delicate
case: two of them would meet behind the end, if each did not need the heap's last
block (`Apart`).

**Files.** `Inv`, the conjunction of the run's invariants, is inductive as it
stands. The operations are compositions of stores in memory, so the proof goes
in two steps. First, what each composition does: all the calls of `fopen` change
free blocks only (`Grown`), with any of their allocations failing, and
`FatOpenMade` describes the three structures a successful `fat16_open` leaves.
Then, what such a change does to the invariant, for any memory: a call that opens
nothing (`Stays`), that opens a slot on blocks that were free (`Opens`), that
frees one slot's chain and clears the slot (`Closes`). Each also says what
becomes of the garbage and of the bindings, so that `FilesGarbageGrows` and
`FilesImplementsFileTable` come from the same steps.

**Reading.** `CountersInv` says that position, remaining length and bytes stored
agree wherever the loops of members, clusters and sectors stand, `StreamInv`
where in a sector the stream stands before each call of `diskstreamer_read`, and
`StoredInv` says of every byte stored so far, those of the current member
included, what the properties say of complete members. `ServedInv` is the reason
for `ReadFirstClusterServed`: as long as the read stays in the first cluster the
walk does not start, and its sectors are on the disk if the cluster is
(`FirstIsAnswered`). That cluster is also where positions do not wrap
(`FirstPositions`), which is why `MembersExact` asks for `FirstOnDisk`. From
these follow `ReadMembersExact`, `ReadAlignedNoJunk` and `ReadTypeOK`. That a
read returns or waits, whatever the disk holds, is the question of the nested
loops: a new member begins a new walk, and a cluster finished begins one again.
`ReadLeft` is the triple of members left, bytes left of the member, and what is
left of the walk and of the sector; `ReadsEnd` shows that every step goes down
in its lexicographic order (`WFLexPairOrdering`), because bytes were stored
before a walk is begun again and the walk has a number of words to look up
before it starts.

**Lookup.** `CountInv` says that no end mark was passed and that `total` is the
number of entries in use among those read. Where the count ends, the entries
before the first end mark have been counted (`CountedRight`), which are those in
use if that mark is in the directory (`CountedLive`): `LookupMountedRight`.
`ScanInv` says that `found` is the last entry before `i` that is read as the
component searched for. That the entry a path names is reached, although the
bound of the scan is a number of entries and its index a position, is a matter
of counting (`NoGap`); that no erased entry behind it takes its place, and what
an entry is called, rests on what `fat16_to_proper_string` reads (`FirstLetter`,
`FieldRead`, `ReadAsNamed`). This is why `FoundIsNamed` and `UniqueFound` speak
of padded fields and of the byte 0xE5: without these conditions they do not
follow from the code. `LookupParsedIsPath` relates the parser, which works on
what is left of the path, to the positions of all the slashes in it: `Parsed`
says that the rest begins behind a cut with as many cuts before it as components
were found, and `NextCut` that the next component ends at the next cut.
`LookupEnds` shows that booting and opening go down in the order of the stage of
the call and what its loop has still to look at; for the parser this rests on
`RemainderShorter`, that what is left of a path after a component is shorter. A
count without an end mark goes down too, until the disk has no more to read and
the kernel waits; `LookupNeverWaits` says that this does not happen where the
root directory has its end mark and the subdirectories have theirs in their
first clusters (`DirectoriesEnd`).

**Model-checked only.** The liveness properties themselves (`FreadReturns`,
`LookupReturns`, `CallReturns`): the prover has no reasoning about fairness and
ENABLED. By `ReadsEnd`, `LookupEnds`, `LookupNeverWaits` and
`InterruptsCallsBounded` what is left to TLC is that a call that has not
returned, and does not wait for the disk, always has an enabled step, and that
fairness takes it. That `AllFreeWhenIdle` fails, like the other disagreements of
section 6, is a counterexample of a run.

## 6. Disagreements found

Each has a run that ends in a counterexample.

1. `heap_leak`: `kfree` frees the first block of an allocation and no other.
   `HEAP_BLOCK_HAS_NEXT` is 0x100 (`mem/heap.h:10`) and an entry is an
   `unsigned char` (`mem/heap.h:13`), so the test at `mem/heap.c:153` always
   breaks the loop. The "Test code for memory allocation" of
   `sys/kernel.c:34-46` allocates and frees 5000 bytes and loses a block.
2. `fd_limit`: the descriptor of the last slot, 512, is returned by `fopen` and
   refused by `file_get_descriptor` (`fs/file.c:84`): "Descriptors start at 1".
3. `process_leak`: a failing `process_load_for_slot` reaches "Free the process
   data" (`proc/process.c:210`), where nothing is freed.
4. `fat_chain`: `fat16_get_fat_entry` multiplies the position of the allocation
   table by that of the entry (`fs/fat16.c:384`) and reads its entries outside
   of the table. Reads within the first cluster (64 KB on the disk image that
   the build makes) are not affected, which is why the test files load.
5. `lookup_lost`: erased entries are left out when the entries of a directory
   are counted (`fs/fat16.c:195`) and take part in the index that the count
   bounds (`fs/fat16.c:606`): with one erased entry the last file of the
   directory cannot be opened, with more of them more. Files whose name has eight
   letters and an extension cannot be opened either, nor files with an extension
   of three letters whose attribute is not exactly 0x20 or 0, because
   `fat16_to_proper_string` (`fs/fat16.c:309`) does not stop at the end of a field.

## 7. Not modelled

* The keyboard (`dev/`): `keyboard_push` appends to the ring of
  `current_process`, which nothing sets, so it returns at once; `keyboard_pop`
  and `keyboard_backspace` have no caller, and the driver registers no interrupt. The
  ring never changes in this kernel. What goes wrong once it does is listed as a
  hazard.
* `task_free` and `paging_free_4gb`: called on the error path of
  `process_load_for_slot`, which is never taken with a task, and by a `task_new`
  that fails, for a task that is in no list (`LoadNoTask`). `pathparser_free`
  has no caller.
* The terminal and the string and number functions that no modelled part
  depends on; what `print` is given is part of `Interrupts`, where the
  characters go is not.
* Boot, the descriptor tables of the processor and port input and output:
  straight-line code whose results are the initial states. `x64/` is a stub.
* The return from a division by zero (`sys/idt.c:77`), which leaves a damaged
  stack: the program's further behaviour is no operation of the system.
* The size of the kernel's own stack, the place it has in the address space of a
  very large program, and the memory around the heap: these are hazards that
  the models name and do not follow.
* Memory running out in `fat16_resolve`: it runs on an empty heap of 100 MB.
* The width of positions in a file: `FatRead` has them below the `int`'s limit,
  which repeated `SEEK_CUR` can take them past.
* The clusters of a subdirectory: whether reading them ends is left open
  (`Lookup`), and what is read is freed or forgotten by the code.

## 8. Plan

Done, in this order, the most depended-upon part first: `HeapTable`, `Heap`,
`Allocator`, `HeapLoops`, `HeapProofs`; `Files`, `FileTable`; `TaskList`,
`PageTables`, `Process`, `ProcessProofs`; `FatRead`; `PathParser`, `FatNames`, `Lookup`;
`Interrupts`, `SystemCalls`, `InterruptsProofs`; then `HeapLoopsProofs`, `FilesProofs`,
`FatReadProofs`, `LookupProofs`.

Model next, should the code grow into it: the keyboard's ring with push, pop and
backspace against a queue of bounded length, once a process is current; a
second task that runs, with its interrupts in `Interrupts`.

Prove next, should the provers learn ENABLED: that a call that has not returned has
an enabled step, which turns the measures of section 5 into the liveness
properties.
