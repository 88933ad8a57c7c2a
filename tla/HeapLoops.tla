------------------------------ MODULE HeapLoops ------------------------------
(***************************************************************************)
(* The three loops of src/mem/heap.c, one iteration per step: the scan of   *)
(* heap_get_start_block, and the walks of heap_mark_blocks_taken and         *)
(* heap_mark_blocks_free.  They are what module HeapTable takes for single   *)
(* operators; here they run from every table, with the locals of the C code. *)
(* A definition marked wrong is a deliberate mistake in the next one.        *)
(***************************************************************************)
EXTENDS HeapTable

CONSTANT MaxCount       \* the largest number of blocks in a call

ASSUME MaxCountAssumption == MaxCount \in Nat

VARIABLES
  call,         \* the function that runs, and its arguments
  before,       \* the table it was called on
  table,        \* table->entries
  i,            \* the loop index
  bc, bs,       \* locals of heap_get_start_block
  entry,        \* local of the mark functions, an unsigned char
  done          \* the loop has ended

vars == <<call, before, table, i, bc, bs, entry, done>>

(* What an entry can be: free, or taken with or without IS_FIRST.            *)
Stored == {FREE, TAKEN, TAKEN + IS_FIRST}
Counts == 0 .. MaxCount

Calls == [name : {"start"}, s : {0}, n : Counts]
           \cup [name : {"taken"}, s : Blocks, n : Counts]
           \cup [name : {"free"}, s : Blocks, n : {0}]

Init ==
  /\ call \in Calls
  /\ before \in [Blocks -> Stored]
  /\ table = before
  /\ i = call.s
  /\ bc = 0 /\ bs = -1
  /\ entry = AsByte(TAKEN + IS_FIRST + (IF call.n > 1 THEN HAS_NEXT ELSE 0))
  /\ done = FALSE

-----------------------------------------------------------------------------
(* heap_get_start_block.                                                     *)

(* `continue' at an entry that is not free: the run starts over.             *)
ScanTakenKeeps ==           \* wrong: the run goes on behind a taken block
  /\ call.name = "start" /\ i < Total /\ ~ IsFree(table, i)
  /\ i' = i + 1
  /\ bs' = -1
  /\ UNCHANGED <<call, before, table, bc, entry, done>>

ScanTaken ==
  /\ call.name = "start" /\ i < Total /\ ~ IsFree(table, i)
  /\ i' = i + 1
  /\ bc' = 0 /\ bs' = -1
  /\ UNCHANGED <<call, before, table, entry, done>>

(* A free entry starts a run or makes it longer; `break' when it is as long   *)
(* as the request.                                                           *)
ScanFree ==
  /\ call.name = "start" /\ i < Total /\ IsFree(table, i)
  /\ bs' = IF bs = -1 THEN i ELSE bs
  /\ bc' = bc + 1
  /\ done' = (bc + 1 = call.n)
  /\ i' = IF bc + 1 = call.n THEN i ELSE i + 1
  /\ UNCHANGED <<call, before, table, entry>>

ScanEnd ==
  /\ call.name = "start" /\ i >= Total
  /\ done' = TRUE
  /\ UNCHANGED <<call, before, table, i, bc, bs, entry>>

-----------------------------------------------------------------------------
(* heap_mark_blocks_taken.                                                   *)

EndBlockLong == call.s + call.n         \* wrong: one block too many
EndBlock     == call.s + call.n - 1

(* One store, and the entry of the next block: it has a successor unless it   *)
(* is the end block.  A store past the table is not to the table.            *)
StoreTaken ==
  /\ call.name = "taken" /\ i <= EndBlock
  /\ table' = IF i \in Blocks THEN [table EXCEPT ![i] = entry] ELSE table
  /\ entry' = AsByte(TAKEN + (IF i # EndBlock - 1 THEN HAS_NEXT ELSE 0))
  /\ i' = i + 1
  /\ UNCHANGED <<call, before, bc, bs, done>>

TakenEnd ==
  /\ call.name = "taken" /\ i > EndBlock
  /\ done' = TRUE
  /\ UNCHANGED <<call, before, table, i, bc, bs, entry>>

-----------------------------------------------------------------------------
(* heap_mark_blocks_free.  The loop ends at the entry without HAS_NEXT or at   *)
(* the end of the table.                                                     *)

StoreFreeAll ==             \* wrong: no break
  /\ call.name = "free" /\ i < Total
  /\ table' = [table EXCEPT ![i] = FREE]
  /\ i' = i + 1
  /\ done' = (i + 1 >= Total)
  /\ UNCHANGED <<call, before, bc, bs, entry>>

StoreFree ==
  /\ call.name = "free" /\ i < Total
  /\ table' = [table EXCEPT ![i] = FREE]
  /\ i' = i + 1
  /\ done' = (~ HasNext(table[i]) \/ i + 1 >= Total)
  /\ UNCHANGED <<call, before, bc, bs, entry>>

Next == /\ ~ done
        /\ \/ ScanTaken \/ ScanFree \/ ScanEnd
           \/ StoreTaken \/ TakenEnd
           \/ StoreFree

Spec == Init /\ [][Next]_vars

-----------------------------------------------------------------------------
(* Properties.                                                              *)

(* The locals stay within the ranges the loops rely on.                      *)
LoopsTypeOK ==
  /\ call \in Calls
  /\ before \in [Blocks -> Stored]
  /\ table \in [Blocks -> 0 .. 255]
  /\ i \in Nat
  /\ bc \in 0 .. Total
  /\ bs \in -1 .. (Total - 1)
  /\ entry \in 0 .. 255
  /\ done \in BOOLEAN

(* The scan returns the first run that fits; if none does, the free run at    *)
(* the end of the heap, and -ENOMEM when the last block is taken.            *)
ScanCorrect ==
  (done /\ call.name = "start") =>
     (IF bs = -1 THEN -ENOMEM ELSE bs) = GetStartBlock(before, call.n)

(* Marking a run taken changes the entries of the run, and no others, to      *)
(* bytes that read as taken.                                                 *)
TakenCorrect ==
  (done /\ call.name = "taken") => table = MarkTaken(before, call.s, call.n)

(* Marking free stops after the first entry without HAS_NEXT.                 *)
FreeCorrect ==
  (done /\ call.name = "free") => table = MarkFree(before, call.s)
=============================================================================
