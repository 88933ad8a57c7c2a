------------------------------ MODULE HeapTable ------------------------------
(***************************************************************************)
(* The block table of the kernel heap (src/mem/heap.c): how an entry is     *)
(* encoded, which run of blocks a request gets, and what marking a run      *)
(* taken or free does to the table.  One byte per block, nothing else: the  *)
(* heap keeps no size and no owner for a block.                             *)
(*                                                                         *)
(* Everything here is a pure operator of a table `e'.  The machine that     *)
(* calls them is module Heap; module HeapLoops shows that the loops of the  *)
(* C code compute them.  A definition marked wrong is a deliberate mistake    *)
(* in the definition that follows it, which some property must rule out.     *)
(***************************************************************************)
EXTENDS Integers

CONSTANTS
  Total,        \* table->total, the number of blocks (25600)
  BlockSize,    \* DEXTER_HEAP_BLOCK_SIZE (4096)
  WordBlocks,   \* how many blocks the 32-bit size_t spans (2^20)
  Saddr         \* heap->saddr, the address of block 0 (0x01000000)

ASSUME HeapAssumption ==
  /\ Total \in Nat \ {0}
  /\ BlockSize \in Nat \ {0}
  /\ WordBlocks \in Nat \ {0}
  /\ Saddr \in Nat \ {0}

Word   == WordBlocks * BlockSize          \* size_t arithmetic is modulo this
Blocks == 0 .. (Total - 1)
NULL   == 0
ENOMEM == 3

-----------------------------------------------------------------------------
(* Entries.  HEAP_BLOCK_TABLE_ENTRY is an unsigned char, so a value is cut   *)
(* to eight bits when it is stored, and bit 8 (HAS_NEXT) never survives.     *)

FREE     == 0
TAKEN    == 1
IS_FIRST == 128
HAS_NEXT == 256

AsByteWide(x) == x % 512       \* wrong: room for HAS_NEXT
AsByte(x)    == x % 256
EntryType(x) == x % 16                    \* entry & 0x0f
HasNextTaken(x) == x % 2 = 1   \* wrong: tests TAKEN
HasNext(x)   == (x \div HAS_NEXT) % 2 = 1 \* entry & HEAP_BLOCK_HAS_NEXT
IsFree(e, i) == EntryType(e[i]) = FREE

-----------------------------------------------------------------------------
(* Sizes and addresses.                                                     *)

AlignDown(v) == v - (v % BlockSize)       \* wrong: the last block is dropped

AlignUp(v) ==
  IF v % BlockSize = 0 THEN v ELSE (v - (v % BlockSize) + BlockSize) % Word

BlocksOf(size) == AlignUp(size) \div BlockSize

BlockToAddress(b) == Saddr + b * BlockSize
AddressToBlock(a) == (a - Saddr) \div BlockSize

-----------------------------------------------------------------------------
(* heap_get_start_block: the first free run long enough; failing that, the   *)
(* free run the scan ended in, however short; failing that, -ENOMEM.         *)
(* `bc == total_blocks' is never true of a request of no blocks, which       *)
(* therefore always gets the run the scan ended in.                          *)

FitsShort(e, n) ==         \* wrong: one free block less than needed will do
  {s \in Blocks : /\ n > 0
                  /\ s + n <= Total
                  /\ \A i \in s .. (s + n - 2) : IsFree(e, i)}

FitsAt(e, n) ==
  {s \in Blocks : /\ n > 0
                  /\ s + n <= Total
                  /\ \A i \in s .. (s + n - 1) : IsFree(e, i)}

TrailingAt(e) == {s \in Blocks : \A i \in s .. (Total - 1) : IsFree(e, i)}

Least(S) == CHOOSE s \in S : \A t \in S : s <= t

GetStartBlock(e, n) ==
  IF FitsAt(e, n) # {} THEN Least(FitsAt(e, n))
  ELSE IF TrailingAt(e) # {} THEN Least(TrailingAt(e))
  ELSE -ENOMEM

(* heap_mark_blocks_taken.  A run that does not fit writes past the table;    *)
(* the heap never reads those bytes back, and they are not part of `e'.       *)
TakenEntry(i, s, n) ==
  AsByte(IF i = s THEN TAKEN + IS_FIRST + (IF n > 1 THEN HAS_NEXT ELSE 0)
         ELSE TAKEN + (IF i # s + n - 1 THEN HAS_NEXT ELSE 0))

MarkTakenShort(e, s, n) ==  \* wrong: stops before the end block
  [i \in Blocks |-> IF i \in s .. (s + n - 2) THEN TakenEntry(i, s, n) ELSE e[i]]

MarkTaken(e, s, n) ==
  [i \in Blocks |-> IF i \in s .. (s + n - 1) THEN TakenEntry(i, s, n) ELSE e[i]]

(* heap_mark_blocks_free: frees entries from s on while the entry just freed  *)
(* said that another one follows.                                            *)
FreedFrom(e, s) ==
  {i \in Blocks : i >= s /\ \A j \in s .. (i - 1) : HasNext(e[j])}

MarkFreeTwo(e, s) ==        \* wrong: frees one entry too many
  [i \in Blocks |-> IF i \in {s, s + 1} THEN FREE ELSE e[i]]

MarkFree(e, s) ==
  [i \in Blocks |-> IF i \in FreedFrom(e, s) THEN FREE ELSE e[i]]
=============================================================================
