--------------------------- MODULE HeapLoopsProofs ---------------------------
(***************************************************************************)
(* The loops of src/mem/heap.c compute the operators of HeapTable, for every  *)
(* table, number of blocks and request.                                     *)
(*                                                                         *)
(* The argument is a loop invariant for each.  The scan knows the longest     *)
(* free run that ends before the entry it looks at, and that no run long      *)
(* enough ended earlier (ScanInv).  The walk of heap_mark_blocks_taken has    *)
(* marked what lies behind it and holds the next entry (TakenInv); that of    *)
(* heap_mark_blocks_free ends after one entry (FreeInv).  IterationsLeft       *)
(* decreases with every iteration, so each loop ends with those results.      *)
(***************************************************************************)
EXTENDS HeapLoops, HeapTableProofs

FreeUpTo(s) == \A k \in s .. (i - 1) : IsFree(table, k)

ScanInv ==
  call.name = "start" =>
    /\ table = before /\ i \in 0 .. Total
    /\ bs = -1 => bc = 0
    /\ ~ done =>
         /\ bs # -1 => bs \in 0 .. (i - 1) /\ bs + bc = i /\ FreeUpTo(bs)
         /\ \A s \in Blocks : s < i /\ FreeUpTo(s) => bs # -1 /\ bs <= s
         /\ call.n > 0 => bc < call.n
         /\ \A s \in FitsAt(before, call.n) : s + call.n > i

TakenInv ==
  call.name = "taken" =>
    /\ i \in call.s .. (call.s + call.n)
    /\ i <= EndBlock => entry = TakenEntry(i, call.s, call.n)
    /\ table = [k \in Blocks |-> IF k \in call.s .. (i - 1)
                                 THEN TakenEntry(k, call.s, call.n) ELSE before[k]]
    /\ done => i > EndBlock

FreeInv ==
  call.name = "free" /\ ~ done => i = call.s /\ table = before

Inv ==
  /\ LoopsTypeOK
  /\ ScanInv /\ TakenInv /\ FreeInv
  /\ ScanCorrect /\ TakenCorrect /\ FreeCorrect

-----------------------------------------------------------------------------
(* The least member of a set of blocks is unique.                            *)
LEMMA LeastUnique ==
  ASSUME NEW S, S \subseteq Int, NEW s \in S, \A t \in S : s <= t
  PROVE  Least(S) = s
<1>1. \A t \in S : (\A u \in S : t <= u) => t = s  OBVIOUS
<1> QED  BY <1>1 DEF Least

(* An entry that the loops store is one of two bytes.                         *)
LEMMA TakenEntryByte ==
  ASSUME NEW k, NEW s, NEW n
  PROVE  TakenEntry(k, s, n) \in 0 .. 255
BY DEF TakenEntry, AsByte, TAKEN, IS_FIRST, HAS_NEXT

LEMMA CallFacts ==
  ASSUME call \in Calls
  PROVE  /\ call.n \in Nat
         /\ call.name \in {"start", "taken", "free"}
         /\ call.name = "start" => call.s = 0
         /\ call.name # "start" => call.s \in Blocks
         /\ call.s \in 0 .. (Total - 1)
BY MaxCountAssumption, HeapAssumption DEF Calls, Counts, Blocks

LEMMA LoopsInit == Init => Inv
<1> SUFFICES ASSUME Init PROVE Inv
  OBVIOUS
<1>1. /\ call.n \in Nat /\ call.s \in 0 .. (Total - 1)
      /\ call.name = "start" => call.s = 0
      /\ Total \in Nat \ {0}
  BY CallFacts, HeapAssumption DEF Init
<1>2. LoopsTypeOK
  <2>1. entry \in 0 .. 255  BY DEF Init, AsByte, TAKEN, IS_FIRST, HAS_NEXT
  <2>2. table \in [Blocks -> 0 .. 255]  BY DEF Init, Stored, FREE, TAKEN, IS_FIRST
  <2>3. i \in Nat /\ bc \in 0 .. Total /\ bs \in -1 .. (Total - 1)
    BY <1>1 DEF Init
  <2>4. done \in BOOLEAN /\ call \in Calls /\ before \in [Blocks -> Stored]  BY DEF Init
  <2> QED  BY <2>1, <2>2, <2>3, <2>4 DEF LoopsTypeOK
<1>3. ScanInv
  <2>1. \A s \in FitsAt(before, call.n) : s \in Nat /\ call.n > 0  BY HeapAssumption DEF FitsAt, Blocks
  <2> QED  BY <1>1, <2>1 DEF Init, ScanInv, Blocks
<1>4. TakenInv
  <2>1. before = [k \in Blocks |-> before[k]]  BY DEF Init
  <2>2. \A k \in Blocks : k \notin call.s .. (call.s - 1)  BY <1>1
  <2>3. table = [k \in Blocks |-> IF k \in call.s .. (i - 1)
                                 THEN TakenEntry(k, call.s, call.n) ELSE before[k]]
    BY <2>1, <2>2 DEF Init
  <2>4. entry = TakenEntry(i, call.s, call.n)  BY DEF Init, TakenEntry
  <2> QED  BY <1>1, <2>3, <2>4 DEF Init, TakenInv
<1> QED  BY <1>2, <1>3, <1>4 DEF Init, Inv, FreeInv, ScanCorrect, TakenCorrect, FreeCorrect

-----------------------------------------------------------------------------
(* heap_get_start_block.                                                     *)

(* At an entry that is taken no run goes on.                                 *)
LEMMA ScanTakenInv ==
  ASSUME Inv, ~ done, ScanTaken
  PROVE  Inv'
<1>1. /\ i \in 0 .. (Total - 1) /\ Total \in Nat \ {0} /\ call.n \in Nat
      /\ call.name = "start" /\ table = before
      /\ i' = i + 1 /\ bc' = 0 /\ bs' = -1
      /\ UNCHANGED <<call, before, table, entry, done>>
  BY CallFacts, HeapAssumption DEF ScanTaken, Inv, LoopsTypeOK, ScanInv
<1>2. ~ IsFree(table', i)  BY <1>1 DEF ScanTaken
<1>3. LoopsTypeOK'  BY <1>1 DEF Inv, LoopsTypeOK
<1>4. ScanInv'
  <2>1. \A s \in Blocks : s < i' => ~ FreeUpTo(s)'
    BY <1>1, <1>2 DEF FreeUpTo, Blocks
  <2>2. ASSUME NEW s \in FitsAt(before, call.n) PROVE s + call.n > i'
    <3>1. s + call.n > i /\ s \in Nat /\ call.n > 0 /\ \A k \in s .. (s + call.n - 1) : IsFree(before, k)
      BY <1>1 DEF Inv, ScanInv, FitsAt, Blocks
    <3>2. s + call.n # i + 1
      BY <1>1, <1>2, <3>1
    <3> QED  BY <1>1, <3>1, <3>2
  <2> QED  BY <1>1, <2>1, <2>2 DEF ScanInv
<1> QED  BY <1>1, <1>3, <1>4 DEF Inv, TakenInv, FreeInv, ScanCorrect, TakenCorrect, FreeCorrect

(* A free entry makes the run longer, and the first run that is long enough    *)
(* ends the scan.                                                            *)
LEMMA ScanFreeInv ==
  ASSUME Inv, ~ done, ScanFree
  PROVE  Inv'
<1> DEFINE n == call.n
<1>1. /\ i \in 0 .. (Total - 1) /\ Total \in Nat \ {0} /\ n \in Nat
      /\ call.name = "start" /\ table = before
      /\ bs' = (IF bs = -1 THEN i ELSE bs) /\ bc' = bc + 1
      /\ done' = (bc + 1 = n)
      /\ i' = (IF bc + 1 = n THEN i ELSE i + 1)
      /\ UNCHANGED <<call, before, table, entry>>
      /\ bc \in Nat /\ bs \in Int
  BY CallFacts, HeapAssumption DEF ScanFree, Inv, LoopsTypeOK, ScanInv
<1>2. IsFree(before, i)  BY <1>1 DEF ScanFree
<1>3. /\ bs = -1 => bc = 0
      /\ bs # -1 => bs \in 0 .. (i - 1) /\ bs + bc = i /\ FreeUpTo(bs)
      /\ \A s \in Blocks : s < i /\ FreeUpTo(s) => bs # -1 /\ bs <= s
      /\ n > 0 => bc < n
      /\ \A s \in FitsAt(before, n) : s + n > i
  BY <1>1 DEF Inv, ScanInv
<1>4. /\ bs' \in 0 .. i /\ bs' + bc' = i + 1
      /\ \A k \in bs' .. i : IsFree(before, k)
  <2>1. CASE bs = -1  BY <1>1, <1>2, <1>3, <2>1
  <2>2. CASE bs # -1
    <3>1. \A k \in bs .. (i - 1) : IsFree(before, k)  BY <1>1, <1>3, <2>2 DEF FreeUpTo
    <3> QED  BY <1>1, <1>2, <1>3, <2>2, <3>1
  <2> QED  BY <2>1, <2>2
<1>5. LoopsTypeOK'  BY <1>1, <1>4 DEF Inv, LoopsTypeOK
<1>6. ScanInv' /\ ScanCorrect'
  <2>1. CASE bc + 1 = n
    <3>1. bs' \in FitsAt(before, n)  BY <1>1, <1>4, <2>1 DEF FitsAt, Blocks
    <3>2. \A s \in FitsAt(before, n) : bs' <= s
      <4>1. FitsAt(before, n) \subseteq Int  BY <1>1 DEF FitsAt, Blocks
      <4> QED  BY <1>1, <1>3, <1>4, <2>1, <4>1
    <3>3. FitsAt(before, n) \subseteq Int  BY <1>1 DEF FitsAt, Blocks
    <3>4. GetStartBlock(before, n) = bs'  BY <3>1, <3>2, <3>3, LeastUnique DEF GetStartBlock
    <3>5. bs' # -1 /\ done' /\ i' = i
      <4>1. bs' # -1  BY <1>1, <1>4
      <4>2. done' /\ i' = i  BY <1>1, <2>1, Zenon
      <4> QED  BY <4>1, <4>2
    <3>6. ScanInv'  BY <1>1, <3>5 DEF ScanInv
    <3>7. ScanCorrect'  BY <1>1, <3>4, <3>5 DEF ScanCorrect
    <3> QED  BY <3>6, <3>7
  <2>2. CASE bc + 1 # n
    <3>1. \A s : FreeUpTo(s)' <=> \A k \in s .. i : IsFree(before, k)
      BY <1>1, <2>2 DEF FreeUpTo
    <3>2. ASSUME NEW s \in Blocks, s < i', FreeUpTo(s)'
          PROVE  bs' <= s
      <4>1. CASE s = i  BY <1>1, <1>4, <4>1
      <4>2. CASE s < i
        <5>1. FreeUpTo(s)  BY <1>1, <3>1, <3>2 DEF FreeUpTo, Blocks
        <5> QED  BY <1>1, <1>3, <4>2, <5>1
      <4> QED  BY <1>1, <2>2, <3>2, <4>1, <4>2 DEF Blocks
    <3>3. ASSUME NEW s \in FitsAt(before, n) PROVE s + n > i'
      <4>1. s \in Blocks /\ s \in Nat /\ n > 0 /\ s + n > i
        BY <1>1, <1>3 DEF FitsAt, Blocks
      <4>2. \A k \in s .. (s + n - 1) : IsFree(before, k)  BY DEF FitsAt
      <4>3. CASE s + n = i + 1
        <5>1. FreeUpTo(s)'  BY <1>1, <3>1, <4>1, <4>2, <4>3
        <5>2. bs' <= s  BY <1>1, <2>2, <3>2, <4>1, <4>3, <5>1
        <5> QED  BY <1>1, <1>3, <1>4, <2>2, <4>1, <4>3, <5>2
      <4> QED  BY <1>1, <2>2, <4>1, <4>3
    <3>4. /\ bs' # -1 /\ bs' \in 0 .. (i' - 1) /\ bs' + bc' = i'
          /\ i' \in 0 .. Total /\ table' = before'
          /\ \A k \in bs' .. (i' - 1) : IsFree(table', k)
      BY <1>1, <1>4, <2>2
    <3>5. n > 0 => bc' < n  BY <1>1, <1>3, <2>2
    <3>6. ScanInv'  BY <1>1, <3>2, <3>3, <3>4, <3>5 DEF ScanInv, FreeUpTo
    <3>7. ScanCorrect'  BY <1>1, <2>2 DEF ScanCorrect
    <3> QED  BY <3>6, <3>7
  <2> QED  BY <2>1, <2>2
<1> QED  BY <1>1, <1>5, <1>6 DEF Inv, TakenInv, FreeInv, TakenCorrect, FreeCorrect

(* The end of the table: the run that reached it, or none.                    *)
LEMMA ScanEndInv ==
  ASSUME Inv, ~ done, ScanEnd
  PROVE  Inv'
<1> DEFINE n == call.n
<1>1. /\ i = Total /\ Total \in Nat \ {0} /\ n \in Nat
      /\ call.name = "start" /\ table = before /\ done' = TRUE
      /\ UNCHANGED <<call, before, table, i, bc, bs, entry>>
      /\ bc \in Nat /\ bs \in Int
  BY CallFacts, HeapAssumption DEF ScanEnd, Inv, LoopsTypeOK, ScanInv
<1>2. /\ bs = -1 => bc = 0
      /\ bs # -1 => bs \in 0 .. (i - 1) /\ FreeUpTo(bs)
      /\ \A s \in Blocks : s < i /\ FreeUpTo(s) => bs # -1 /\ bs <= s
      /\ \A s \in FitsAt(before, n) : s + n > i
  BY <1>1 DEF Inv, ScanInv
<1>3. FitsAt(before, n) = {}  BY <1>1, <1>2 DEF FitsAt, Blocks
<1>4. \A s \in Blocks : s \in TrailingAt(before) <=> FreeUpTo(s)
  BY <1>1 DEF TrailingAt, FreeUpTo
<1>5. TrailingAt(before) \subseteq Int /\ TrailingAt(before) \subseteq Blocks
  BY <1>1 DEF TrailingAt, Blocks
<1>6. (IF bs = -1 THEN -ENOMEM ELSE bs) = GetStartBlock(before, n)
  <2>1. CASE bs = -1
    <3>1. TrailingAt(before) = {}  BY <1>1, <1>2, <1>4, <1>5, <2>1 DEF Blocks
    <3> QED  BY <1>3, <2>1, <3>1 DEF GetStartBlock
  <2>2. CASE bs # -1
    <3>1. bs \in TrailingAt(before)  BY <1>1, <1>2, <1>4, <2>2 DEF Blocks
    <3>2. \A s \in TrailingAt(before) : bs <= s  BY <1>1, <1>2, <1>4, <1>5 DEF Blocks
    <3> QED  BY <1>3, <1>5, <2>2, <3>1, <3>2, LeastUnique DEF GetStartBlock
  <2> QED  BY <2>1, <2>2
<1>7. LoopsTypeOK'  BY <1>1 DEF Inv, LoopsTypeOK
<1>8. ScanInv' /\ ScanCorrect'  BY <1>1, <1>2, <1>6 DEF ScanInv, ScanCorrect
<1> QED  BY <1>1, <1>7, <1>8 DEF Inv, TakenInv, FreeInv, TakenCorrect, FreeCorrect

-----------------------------------------------------------------------------
(* heap_mark_blocks_taken.                                                   *)

(* One store, and the entry of the next block.                               *)
LEMMA StoreTakenInv ==
  ASSUME Inv, ~ done, StoreTaken
  PROVE  Inv'
<1> DEFINE s == call.s
           n == call.n
<1>1. /\ s \in Blocks /\ s \in Nat /\ n \in Nat /\ call.name = "taken" /\ Total \in Nat \ {0}
      /\ i \in s .. (s + n - 1)
      /\ i' = i + 1
      /\ UNCHANGED <<call, before, bc, bs, done>>
  BY CallFacts, HeapAssumption DEF StoreTaken, Inv, TakenInv, LoopsTypeOK, EndBlock
<1>2. entry = TakenEntry(i, s, n)  BY <1>1 DEF Inv, TakenInv, EndBlock
<1>3. entry' = TakenEntry(i + 1, s, n)
  BY <1>1 DEF StoreTaken, EndBlock, TakenEntry
<1>4. table = [k \in Blocks |-> IF k \in s .. (i - 1) THEN TakenEntry(k, s, n) ELSE before[k]]
  BY <1>1 DEF Inv, TakenInv
<1>5. table' = [k \in Blocks |-> IF k \in s .. i THEN TakenEntry(k, s, n) ELSE before[k]]
  <2>1. table' = [k \in Blocks |-> IF k = i THEN entry ELSE table[k]]
    <3>1. table' = IF i \in Blocks THEN [table EXCEPT ![i] = entry] ELSE table  BY DEF StoreTaken
    <3>2. DOMAIN table = Blocks /\ table = [k \in Blocks |-> table[k]]  BY <1>4
    <3> QED  BY <3>1, <3>2
  <2>2. \A k \in Blocks : k \in s .. i <=> (k = i \/ k \in s .. (i - 1))  BY <1>1 DEF Blocks
  <2> QED  BY <1>2, <1>4, <2>1, <2>2
<1>6. LoopsTypeOK'
  <2>1. \A k \in Blocks : before[k] \in 0 .. 255
    BY DEF Inv, LoopsTypeOK, Stored, FREE, TAKEN, IS_FIRST
  <2>2. table' \in [Blocks -> 0 .. 255]  BY <1>5, <2>1, TakenEntryByte
  <2> QED  BY <1>1, <1>3, <2>2, TakenEntryByte DEF Inv, LoopsTypeOK
<1>7. TakenInv'  BY <1>1, <1>3, <1>5 DEF TakenInv, EndBlock
<1> QED  BY <1>1, <1>6, <1>7 DEF Inv, ScanInv, FreeInv, ScanCorrect, TakenCorrect, FreeCorrect

LEMMA TakenEndInv ==
  ASSUME Inv, ~ done, TakenEnd
  PROVE  Inv'
<1>1. /\ call.s \in Nat /\ call.n \in Nat /\ call.name = "taken"
      /\ i = call.s + call.n
      /\ done' = TRUE
      /\ UNCHANGED <<call, before, table, i, bc, bs, entry>>
  BY CallFacts, HeapAssumption DEF TakenEnd, Inv, TakenInv, LoopsTypeOK, EndBlock
<1>2. table = MarkTaken(before, call.s, call.n)
  BY <1>1 DEF Inv, TakenInv, MarkTaken
<1>3. LoopsTypeOK'  BY <1>1 DEF Inv, LoopsTypeOK
<1>4. TakenInv' /\ TakenCorrect'  BY <1>1, <1>2 DEF Inv, TakenInv, TakenCorrect, EndBlock
<1> QED  BY <1>1, <1>3, <1>4 DEF Inv, ScanInv, FreeInv, ScanCorrect, FreeCorrect

-----------------------------------------------------------------------------
(* heap_mark_blocks_free: no stored byte has HAS_NEXT.                        *)
LEMMA StoreFreeInv ==
  ASSUME Inv, ~ done, StoreFree
  PROVE  Inv'
<1>1. /\ call.s \in Blocks /\ call.name = "free" /\ i = call.s /\ table = before
      /\ i' = i + 1 /\ i \in Nat
      /\ UNCHANGED <<call, before, bc, bs, entry>>
  BY CallFacts DEF StoreFree, Inv, FreeInv, LoopsTypeOK
<1>2. before \in [Blocks -> 0 .. 255]
  BY DEF Inv, LoopsTypeOK, Stored, FREE, TAKEN, IS_FIRST
<1>3. ~ HasNext(table[i])  
  <2>1. table[i] \in 0 .. 255  BY <1>1, <1>2
  <2> QED  BY <2>1 DEF HasNext, HAS_NEXT
<1>4. done' = TRUE  BY <1>3 DEF StoreFree
<1>5. table' = [before EXCEPT ![call.s] = FREE]  BY <1>1 DEF StoreFree
<1>6. table' = MarkFree(before, call.s)  BY <1>1, <1>2, <1>5, MarkFreeFreesOne
<1>7. LoopsTypeOK'
  <2>1. FREE \in 0 .. 255  BY DEF FREE
  <2>2. [before EXCEPT ![call.s] = FREE] \in [Blocks -> 0 .. 255]  BY <1>2, <2>1
  <2>3. table' \in [Blocks -> 0 .. 255]  BY <1>5, <2>2
  <2> QED  BY <1>1, <1>4, <2>3 DEF Inv, LoopsTypeOK
<1> QED  BY <1>1, <1>4, <1>6, <1>7 DEF Inv, ScanInv, TakenInv, FreeInv, ScanCorrect, TakenCorrect, FreeCorrect

LEMMA LoopsStep == Inv /\ [Next]_vars => Inv'
<1> SUFFICES ASSUME Inv, [Next]_vars PROVE Inv'
  OBVIOUS
<1>1. CASE UNCHANGED vars
  BY <1>1 DEF vars, Inv, LoopsTypeOK, ScanInv, FreeUpTo, TakenInv, FreeInv,
              ScanCorrect, TakenCorrect, FreeCorrect, EndBlock
<1>2. CASE Next
  BY <1>2, ScanTakenInv, ScanFreeInv, ScanEndInv, StoreTakenInv, TakenEndInv, StoreFreeInv DEF Next
<1> QED  BY <1>1, <1>2

-----------------------------------------------------------------------------
(* The theorems.                                                            *)

(* The locals of the loops stay in range (src/mem/heap.c:57-92).              *)
THEOREM LoopsLocals == Spec => []LoopsTypeOK
<1>1. Inv => LoopsTypeOK  BY DEF Inv
<1> QED  BY LoopsInit, LoopsStep, <1>1, PTL DEF Spec

(* heap_get_start_block's scan returns what HeapTable says, for every table.  *)
THEOREM LoopsScanCorrect == Spec => []ScanCorrect
<1>1. Inv => ScanCorrect  BY DEF Inv
<1> QED  BY LoopsInit, LoopsStep, <1>1, PTL DEF Spec

(* heap_mark_blocks_taken marks exactly the run, and past the table's end      *)
(* stores nothing in it.                                                     *)
THEOREM LoopsTakenCorrect == Spec => []TakenCorrect
<1>1. Inv => TakenCorrect  BY DEF Inv
<1> QED  BY LoopsInit, LoopsStep, <1>1, PTL DEF Spec

(* heap_mark_blocks_free frees what HeapTable's MarkFree says: one entry.     *)
THEOREM LoopsFreeCorrect == Spec => []FreeCorrect
<1>1. Inv => FreeCorrect  BY DEF Inv
<1> QED  BY LoopsInit, LoopsStep, <1>1, PTL DEF Spec

-----------------------------------------------------------------------------
(* The loops come to an end.                                                *)

(* How often the condition of the loop is still evaluated, at most.         *)
IterationsLeft ==
  IF done THEN 0
  ELSE IF call.name = "taken" THEN EndBlock - i + 2 ELSE Total - i + 1

(* The index stays where the loop lets it.                                  *)
LEMMA IterationsAreNat == Inv => IterationsLeft \in Nat /\ (IterationsLeft = 0 <=> done)
<1> SUFFICES ASSUME Inv PROVE IterationsLeft \in Nat /\ (IterationsLeft = 0 <=> done)
  OBVIOUS
<1>1. /\ call.n \in Nat /\ call.s \in 0 .. (Total - 1) /\ Total \in Nat
      /\ call.name \in {"start", "taken", "free"}
  BY CallFacts, HeapAssumption DEF Inv, LoopsTypeOK
<1>2. CASE done
  <2>1. IterationsLeft = 0  BY <1>2, Zenon DEF IterationsLeft
  <2>2. 0 \in Nat  OBVIOUS
  <2> QED  BY <1>2, <2>1, <2>2, Zenon
<1>3. CASE ~ done /\ call.name = "start"
  <2>1. i \in 0 .. Total  BY <1>3 DEF Inv, ScanInv
  <2>2. IterationsLeft = Total - i + 1  BY <1>3 DEF IterationsLeft
  <2> QED  BY <1>1, <1>3, <2>1, <2>2
<1>4. CASE ~ done /\ call.name = "taken"
  <2>1. i \in call.s .. (call.s + call.n)  BY <1>4 DEF Inv, TakenInv
  <2>2. IterationsLeft = EndBlock - i + 2  BY <1>4, Zenon DEF IterationsLeft
  <2> QED  BY <1>1, <1>4, <2>1, <2>2 DEF EndBlock
<1>5. CASE ~ done /\ call.name = "free"
  <2>1. i = call.s  BY <1>5 DEF Inv, FreeInv
  <2>2. IterationsLeft = Total - i + 1  BY <1>5 DEF IterationsLeft
  <2> QED  BY <1>1, <1>5, <2>1, <2>2
<1> QED  BY <1>1, <1>2, <1>3, <1>4, <1>5

(* An iteration moves the index on or ends the loop.                        *)
LEMMA IterationsDecrease == Inv /\ [Next]_vars => [IterationsLeft' < IterationsLeft]_vars
<1> SUFFICES ASSUME Inv, Next PROVE IterationsLeft' < IterationsLeft
  OBVIOUS
<1>1. ~ done /\ call' = call  BY DEF Next, ScanTaken, ScanFree, ScanEnd, StoreTaken, TakenEnd, StoreFree
<1>2. IterationsLeft \in Nat \ {0}
  <2>1. IterationsLeft \in Nat /\ IterationsLeft # 0  BY <1>1, IterationsAreNat, Zenon
  <2> QED  BY <2>1
<1>3. CASE done'
  <2>1. IterationsLeft' = 0  BY <1>3 DEF IterationsLeft
  <2> QED  BY <1>2, <2>1
<1>4. CASE ~ done'
  <2>1. i' = i + 1
    <3>1. CASE ScanTaken \/ StoreTaken \/ StoreFree  BY <3>1 DEF ScanTaken, StoreTaken, StoreFree
    <3>2. CASE ScanFree
      <4>1. bc + 1 # call.n  BY <1>4, <3>2, Zenon DEF ScanFree
      <4> QED  BY <3>2, <4>1 DEF ScanFree
    <3>3. ~ (ScanEnd \/ TakenEnd)  BY <1>4, Zenon DEF ScanEnd, TakenEnd
    <3> QED  BY <3>1, <3>2, <3>3 DEF Next
  <2>2. i \in Nat /\ Total \in Nat /\ call.s \in Nat /\ call.n \in Nat
    BY CallFacts, HeapAssumption DEF Inv, LoopsTypeOK
  <2>3. CASE call.name = "taken"
    <3>1. IterationsLeft = EndBlock - i + 2 /\ IterationsLeft' = EndBlock' - i' + 2
      BY <1>1, <1>4, <2>3, Zenon DEF IterationsLeft
    <3>2. EndBlock' = EndBlock  BY <1>1 DEF EndBlock
    <3>3. EndBlock \in Int  BY <2>2 DEF EndBlock
    <3> QED  BY <2>1, <2>2, <3>1, <3>2, <3>3
  <2>4. CASE call.name # "taken"
    <3>1. IterationsLeft = Total - i + 1 /\ IterationsLeft' = Total - i' + 1
      BY <1>1, <1>4, <2>4 DEF IterationsLeft
    <3> QED  BY <2>1, <2>2, <3>1
  <2> QED  BY <2>3, <2>4
<1> QED  BY <1>3, <1>4

(* So the three loops of src/mem/heap.c:57, :100 and :146 end, on every table: *)
(* what the theorems above say of their results is said of results they have. *)
THEOREM LoopsEnd ==
  Spec => /\ [](IterationsLeft \in Nat /\ (IterationsLeft = 0 <=> done))
          /\ [][IterationsLeft' < IterationsLeft]_vars
<1> QED  BY LoopsInit, LoopsStep, IterationsAreNat, IterationsDecrease, PTL DEF Spec
=============================================================================
