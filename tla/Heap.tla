-------------------------------- MODULE Heap --------------------------------
(***************************************************************************)
(* The kernel heap as its clients use it: kmalloc, kzalloc and kfree        *)
(* (src/mem/kheap.c) over heap_malloc and heap_free (src/mem/heap.c), and   *)
(* the malloc, calloc and free of src/libc/stdlib.c over the same table.    *)
(*                                                                         *)
(* The kernel runs with interrupts disabled on one processor, so one call   *)
(* is one step.  `live' is a history variable: the C code does not keep it. *)
(* It is the calls that returned a pointer not yet passed to kfree or free. *)
(***************************************************************************)
EXTENDS HeapTable

CONSTANT Requests       \* the sizes clients ask for

ASSUME RequestsAssumption == Requests \subseteq 0 .. (Word - 1)

VARIABLES
  entries,              \* kernel_heap_table.entries
  live                  \* outstanding allocations

vars == <<entries, live>>

Allocation == [addr : {BlockToAddress(b) : b \in Blocks},
               count : 0 .. (WordBlocks - 1),
               size : 0 .. (Word - 1)]

First(a)  == AddressToBlock(a.addr)
Extent(a) == First(a) .. (First(a) + a.count - 1)

(* kheap_init, heap_create: every entry is cleared.                          *)
Init == /\ entries = [i \in Blocks |-> FREE]
        /\ live = {}

(* heap_malloc of `size' bytes.  It returns NULL, and changes nothing, when   *)
(* heap_get_start_block reports -ENOMEM.                                     *)
HeapMalloc(size) ==
  LET n == BlocksOf(size)
      s == GetStartBlock(entries, n)
  IN  IF s < 0 THEN UNCHANGED vars
      ELSE /\ entries' = MarkTaken(entries, s, n)
           /\ live' = live \cup {[addr |-> BlockToAddress(s), count |-> n, size |-> size]}

(* heap_free of an outstanding pointer.                                      *)
HeapFree(a) == /\ entries' = MarkFree(entries, AddressToBlock(a.addr))
               /\ live' = live \ {a}

-----------------------------------------------------------------------------
(* The calls.  kzalloc clears the `size' bytes it got, which is inside what   *)
(* kmalloc granted whenever RequestCovered holds.                            *)

Kmalloc(size) == HeapMalloc(size)
Kzalloc(size) == HeapMalloc(size)

(* stdlib malloc refuses a request of no bytes.                              *)
Malloc(size) == IF size = 0 THEN UNCHANGED vars ELSE HeapMalloc(size)

(* calloc refuses a product that does not fit size_t.                        *)
Calloc(num, size) ==
  LET total == (num * size) % Word
  IN  IF size # 0 /\ total \div size # num
      THEN UNCHANGED vars
      ELSE HeapMalloc(total)

(* A pointer is given back at most once, and only if it stands for at least   *)
(* one block: the zero-byte requests of the kernel are the image of an empty *)
(* executable (never freed, src/proc/process.c:54) and the items of an empty  *)
(* directory (freed only with a directory clone, which is never made).       *)
Kfree(a) == a.count > 0 /\ HeapFree(a)

(* free(NULL) does nothing; otherwise it is heap_free.  kfree(NULL) clears    *)
(* one byte far below the table, and nothing of the heap.                    *)
FreeNull == UNCHANGED vars
Free(a) == a.count > 0 /\ HeapFree(a)

Next ==
  \/ \E size \in Requests : Kmalloc(size) \/ Kzalloc(size) \/ Malloc(size)
  \/ \E num, size \in Requests : Calloc(num, size)
  \/ \E a \in live : Kfree(a) \/ Free(a)
  \/ FreeNull

Spec == Init /\ [][Next]_vars

-----------------------------------------------------------------------------
(* Properties.                                                              *)

(* Every table entry fits its byte, and every outstanding pointer is a block  *)
(* address of the heap with the size that heap_malloc computed for it.       *)
TypeOK == /\ entries \in [Blocks -> 0 .. 255]
          /\ live \in SUBSET Allocation

(* No sequence of kmalloc and kfree calls makes two outstanding allocations   *)
(* share a block, not even when heap_get_start_block hands out a trailing run *)
(* that is too short and the allocation sticks out of the heap.              *)
LiveDisjoint == \A a, b \in live : a # b => Extent(a) \cap Extent(b) = {}

(* As long as a pointer is outstanding, heap_get_start_block sees every table *)
(* entry of its blocks as taken, whatever was freed around it.               *)
LiveMarked == \A a \in live : \A i \in Extent(a) \cap Blocks : ~ IsFree(entries, i)

(* The blocks granted hold the bytes asked for (kzalloc and calloc clear that *)
(* many), for every size up to the last block boundary below 2^32; above it  *)
(* heap_align_value_to_upper wraps to 0.                                     *)
RequestCovered ==
  \A a \in live : a.size <= Word - BlockSize => a.count * BlockSize >= a.size

(* The blocks that look taken and belong to nobody.                          *)
Lost == {i \in Blocks : /\ ~ IsFree(entries, i)
                        /\ \A a \in live : i \notin Extent(a)}

(* A block heap_mark_blocks_free leaves behind is out of use for good: no     *)
(* later kfree, of any pointer, brings it back.                              *)
LostForever == [][Lost \subseteq Lost']_vars

(* kfree undoes kmalloc: with nothing outstanding the whole heap is free, as  *)
(* memory_allocation_test (src/sys/kernel.c:34-46) expects of its two         *)
(* allocations.  The code violates it: see the README.                       *)
AllFreeWhenIdle == live = {} => \A i \in Blocks : IsFree(entries, i)

(* The heap implements the allocator, with the extents of the outstanding     *)
(* pointers as the granted ones: heap_malloc decides from one byte per block, *)
(* and never grants what somebody holds.                                     *)
Runs == {s .. (s + n - 1) : s \in Blocks, n \in 0 .. (WordBlocks - 1)}

Granted == INSTANCE Allocator WITH
  Extents <- Runs,
  granted <- {Extent(a) : a \in live}

ImplementsAllocator == Granted!Spec
=============================================================================
