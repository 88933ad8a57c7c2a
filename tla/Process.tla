------------------------------- MODULE Process -------------------------------
(***************************************************************************)
(* Loading programs (src/proc/process.c) with the tasks they get              *)
(* (src/proc/task.c) and the page directories of those tasks                 *)
(* (module PageTables), on the block table of the kernel heap.               *)
(*                                                                         *)
(* process_load runs to its end without being interrupted, so one call is    *)
(* one step; the actions are its outcomes.  A structure is named by the      *)
(* number of its first heap block.                                          *)
(* A definition marked wrong is a deliberate mistake in the next one.        *)
(***************************************************************************)
EXTENDS HeapTable, TaskList, PageTables, FiniteSets

CONSTANTS
  MaxProcesses,   \* DEXTER_MAX_PROCESSES
  ImageSizes,     \* the sizes of the files that are loaded
  ProcBlocks,     \* blocks of a struct process (2)
  StackBlocks,    \* blocks of DEXTER_USER_PROGRAM_STACK_SIZE (4)
  ProgAddress,    \* DEXTER_PROGRAM_VIRTUAL_ADDRESS (0x400000)
  StackAddress,   \* DEXTER_PROGRAM_VIRTUAL_STACK_ADDRESS_END (0x3FB000)
  DirBlocks,      \* one-block requests of paging_new_4gb (1026)
  PathBlocks,     \* blocks fopen takes and never gives back (3)
  OpenBlocks      \* blocks an open file takes until fclose (4)

ASSUME ProcessAssumption ==
  /\ MaxProcesses \in Nat \ {0}
  /\ ImageSizes \subseteq 0 .. (Word - 1)
  /\ ProcBlocks \in Nat \ {0} /\ StackBlocks \in Nat \ {0} /\ DirBlocks \in Nat \ {0}
  /\ PathBlocks \in Nat /\ OpenBlocks \in Nat
  /\ TaskAddrs = Blocks
  /\ PageSize = BlockSize /\ Aligned(Saddr)
  /\ Aligned(ProgAddress) /\ Aligned(StackAddress)
  /\ StackAddress + StackBlocks * PageSize <= ProgAddress

(* The tables cover the 32-bit address space, and neither the program's          *)
(* addresses nor those of the memory it is read into run past its end.         *)
ASSUME AddressAssumption ==
  /\ ProgAddress \in 0 .. Word /\ StackAddress \in Nat
  /\ WordBlocks = TableSize * TableSize
  /\ \A size \in ImageSizes : /\ ProgAddress + size <= Word
                             /\ Saddr + Total * BlockSize + size <= Word

Slots == 0 .. (MaxProcesses - 1)
Empty == [id |-> -1]            \* a null entry of processes[]

VARIABLES
  free,           \* the heap blocks whose table entry is FREE
  processes,      \* processes[]
  wild            \* a null or error pointer was used as a task: anything goes

vars == <<free, processes, wild, nodes, task_head, task_tail, current_task, linked>>

-----------------------------------------------------------------------------
(* Allocation, on the set of free blocks.                                    *)

Table(F)    == [i \in Blocks |-> IF i \in F THEN FREE ELSE TAKEN]
Start(F, n) == GetStartBlock(Table(F), n)
Found(F, n) == Start(F, n) >= 0
Run(F, n)   == Start(F, n) .. (Start(F, n) + n - 1)

(* What is free after a request that finds a start block.                     *)
After(F, n) == F \ Run(F, n)

(* What k one-block requests in a row get, each the lowest free block left.   *)
Lowest(F, k) == {i \in F : Cardinality({j \in F : j < i}) < k}

-----------------------------------------------------------------------------
(* What is free at each point of process_load_for_slot, for a program of      *)
(* `size' bytes.                                                             *)

WithProcess     == After(free, ProcBlocks)
WithPath        == WithProcess \ Lowest(WithProcess, PathBlocks)
FileBlocks      == Lowest(WithPath, OpenBlocks)
WithFile        == WithPath \ FileBlocks
WithImage(size) == After(WithFile, BlocksOf(size))

(* process_load_binary closes the file on its way out.                        *)
LoadedFreed(size) ==                    \* wrong: gives back the image, past the heap's end
  WithImage(size) \cup FileBlocks \cup Run(WithFile, BlocksOf(size))

LoadedUndone(size) == free              \* wrong: gives back the process and the image too

Loaded(size) == WithImage(size) \cup FileBlocks

WithStack(size) == After(Loaded(size), StackBlocks)
WithTask(size)  == After(WithStack(size), 1)
Directory(size) == Lowest(WithTask(size), DirBlocks)

FreeSlots == {s \in Slots : processes[s] = Empty}

Opens == /\ FreeSlots # {}
         /\ Found(free, ProcBlocks)
         /\ Cardinality(WithProcess) >= PathBlocks + OpenBlocks

ImageRead(size) == Opens /\ Found(WithFile, BlocksOf(size)) /\ size # 0

StackFits(size) == Found(Loaded(size), StackBlocks)

TaskFits(size) == /\ Found(WithStack(size), 1)
                  /\ Cardinality(WithTask(size)) >= DirBlocks

-----------------------------------------------------------------------------
(* process_load.                                                            *)

Init == /\ free = Blocks
        /\ processes = [s \in Slots |-> Empty]
        /\ wild = FALSE
        /\ ListInit

(* Every slot is taken (-EISTKN), or there is no memory for the process.      *)
LoadRefused ==
  /\ FreeSlots = {} \/ ~ Found(free, ProcBlocks)
  /\ UNCHANGED vars

(* fopen or fstat fails.  What the file system leaves behind is the business  *)
(* of module Files: here, any number of blocks up to all it takes.            *)
LoadNoFile(k) ==
  /\ FreeSlots # {} /\ Found(free, ProcBlocks)
  /\ free' = WithProcess \ Lowest(WithProcess, k)
  /\ UNCHANGED <<processes, wild, listVars>>

(* No memory for the program.                                                *)
LoadNoImage(size) ==
  /\ Opens /\ ~ Found(WithFile, BlocksOf(size))
  /\ free' = WithPath
  /\ UNCHANGED <<processes, wild, listVars>>

(* fread fails: it always does for a file of no bytes, and can for others.    *)
LoadUnreadable(size) ==
  /\ Opens /\ Found(WithFile, BlocksOf(size))
  /\ free' = Loaded(size)
  /\ UNCHANGED <<processes, wild, listVars>>

(* No memory for the stack.                                                  *)
LoadNoStack(size) ==
  /\ ImageRead(size) /\ ~ StackFits(size)
  /\ free' = Loaded(size)
  /\ UNCHANGED <<processes, wild, listVars>>

(* No memory for the task or its directory.  task_new frees a task that is    *)
(* NULL or has no directory, and returns an error pointer that                *)
(* process_load_for_slot takes for a task.                                   *)
LoadNoTask(size) ==
  /\ ImageRead(size) /\ StackFits(size) /\ ~ TaskFits(size)
  /\ wild' = TRUE
  /\ UNCHANGED <<free, processes, listVars>>

(* process_map_memory, on the directory that task_init made: the image at the   *)
(* program's address and the stack below, both to be written by the program.  *)
StackMapped(dir, stack) ==
  LET base == BlockToAddress(stack)
  IN  MapTo(dir, StackAddress, base, AlignAddress(base + StackBlocks * BlockSize), TRUE)

ImageMapped(dir, image, size) ==
  LET base == BlockToAddress(image)
  IN  MapTo(dir, ProgAddress, base, AlignAddress(base + size), TRUE)

(* The process gets the first free slot, and its task the end of the list.    *)
LoadSucceeds(size) ==
  LET slot  == CHOOSE s \in FreeSlots : \A r \in FreeSlots : s <= r
      image == Start(WithFile, BlocksOf(size))
      stack == Start(Loaded(size), StackBlocks)
      task  == Start(WithStack(size), 1)
  IN  /\ ImageRead(size) /\ StackFits(size) /\ TaskFits(size)
      /\ free' = WithTask(size) \ Directory(size)
      /\ processes' = [processes EXCEPT ![slot] =
           [id     |-> slot,
            task   |-> task,
            ptr    |-> BlockToAddress(image),
            size   |-> size,
            stack  |-> BlockToAddress(stack),
            tables |-> StackMapped(ImageMapped(New4gb(FALSE), image, size), stack),
            kernel |-> Run(free, ProcBlocks) \cup {task} \cup Directory(size)]]
      /\ TaskNew(task)
      /\ UNCHANGED wild

(* task_run_first_ever_task panics without a current task.                    *)
RunFirstEverTask == /\ current_task # NoTask
                    /\ TaskSwitch(task_head)
                    /\ UNCHANGED <<free, processes, wild>>

Next ==
  /\ ~ wild
  /\ \/ LoadRefused
     \/ \E k \in 0 .. (PathBlocks + OpenBlocks) : LoadNoFile(k)
     \/ \E size \in ImageSizes :
          \/ LoadNoImage(size) \/ LoadUnreadable(size) \/ LoadNoStack(size)
          \/ LoadNoTask(size) \/ LoadSucceeds(size)
     \/ RunFirstEverTask

Spec == Init /\ [][Next]_vars

-----------------------------------------------------------------------------
(* Properties.                                                              *)

Running == {s \in Slots : processes[s] # Empty}

(* The table, the slots and the list hold what they are declared to hold; a   *)
(* process sits in the slot of its id.                                       *)
TypeOK ==
  /\ free \subseteq Blocks
  /\ wild \in BOOLEAN
  /\ nodes \in [TaskAddrs -> [next : TaskAddrs \cup {NoTask}, prev : TaskAddrs \cup {NoTask}]]
  /\ {task_head, task_tail, current_task} \subseteq TaskAddrs \cup {NoTask}
  /\ \A s \in Running : processes[s].id = s /\ processes[s].task \in linked

(* The heap blocks, and the frames outside the heap counted on from them, that  *)
(* the tables of a process let the program write.                            *)
Writable(p) ==
  {AddressToBlock(Get(processes[p].tables, v * PageSize).frame * PageSize) :
     v \in {w \in Pages : Get(processes[p].tables, w * PageSize).write}}

(* Through its page tables no program can write another one's image or stack,  *)
(* nor the process, task and page directory of any process, its own included,  *)
(* nor anything that the heap gives to somebody else later, whichever loads     *)
(* failed in between and whatever they left behind.                          *)
Isolation ==
  \A p, q \in Running :
    /\ Writable(p) \cap processes[q].kernel = {}
    /\ (Writable(p) \cup processes[p].kernel) \cap free = {}
    /\ p # q => /\ Writable(p) \cap Writable(q) = {}
                /\ processes[p].kernel \cap processes[q].kernel = {}

(* Every program finds its image, byte by byte, at the address it is linked    *)
(* for and its stack below; a page that holds neither stands for itself and    *)
(* cannot be written (src/proc/process.c:82-105, src/mem/paging.c:112-146).    *)
MapsExact ==
  \A p \in Running :
    LET P == processes[p]
        stackBytes == StackBlocks * BlockSize
        at(v, from, bytes) == v \in from .. from + bytes - 1
    IN  /\ \A k \in 0 .. P.size - 1 :
             Translate(P.tables, ProgAddress + k) = [at |-> P.ptr + k, write |-> TRUE]
        /\ \A k \in 0 .. stackBytes - 1 :
             Translate(P.tables, StackAddress + k) = [at |-> P.stack + k, write |-> TRUE]
        /\ \A v \in Pages :
             at(v * PageSize, ProgAddress, P.size) \/ at(v * PageSize, StackAddress, stackBytes)
             \/ Get(P.tables, v * PageSize) = Entry(v, FALSE)

(* The list runs through the tasks of the processes in the order of their     *)
(* slots, and the first program loaded is the one that runs.                  *)
ListFollowsSlots ==
  /\ linked = {processes[s].task : s \in Running}
  /\ \A s \in Running :
       nodes[processes[s].task].next =
         IF s + 1 \in Running THEN processes[s + 1].task ELSE NoTask
  /\ Running # {} => task_head = processes[0].task /\ current_task = task_head

(* A load that fails gives back what it allocated (src/proc/process.c:210,    *)
(* "Free the process data").  The code violates it: see the README.           *)
FailureFreesAll == [][~ wild' /\ processes' = processes => free' = free]_vars
=============================================================================
