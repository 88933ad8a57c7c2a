----------------------------- MODULE HeapProofs -----------------------------
(***************************************************************************)
(* Theorems about the kernel heap, for every number of blocks, block size,  *)
(* width of size_t and set of requested sizes.                              *)
(*                                                                         *)
(* The argument: whatever a client calls is one of two table updates         *)
(* (StepCases).  heap_get_start_block returns a block whose run, as far as   *)
(* it lies inside the table, is free (StartBlockIsFree); LiveMarked says no  *)
(* outstanding block is free; and an outstanding run that sticks out of the  *)
(* heap covers the last block, which the new run then would have to cover    *)
(* as well (ServedStep).                                                     *)
(*                                                                         *)
(* What is lost follows from the same steps: heap_malloc takes only what it   *)
(* hands out (ServedLost), and heap_free gives back only the first block     *)
(* (FreeLost).                                                              *)
(***************************************************************************)
EXTENDS Heap, HeapTableProofs

(* The start block of an outstanding pointer is a block of the heap.         *)
LEMMA AllocationFacts ==
  ASSUME NEW a \in Allocation
  PROVE  /\ First(a) \in Blocks
         /\ a.addr = BlockToAddress(First(a))
         /\ a.count \in Nat
<1>1. PICK b \in Blocks : a.addr = BlockToAddress(b)  BY DEF Allocation
<1>2. First(a) = b  BY <1>1, RoundTrip DEF First
<1>3. a.count \in Nat  BY HeapAssumption DEF Allocation
<1> QED  BY <1>1, <1>2, <1>3

-----------------------------------------------------------------------------
(* The steps.  Whatever the call, it leaves the heap alone, or is heap_malloc *)
(* of a size below 2^32 that found a start block, or is heap_free of a block. *)

Served(size) == /\ GetStartBlock(entries, BlocksOf(size)) >= 0
                /\ HeapMalloc(size)

(* Every call is one of the three.                                           *)
LEMMA StepCases ==
  ASSUME [Next]_vars
  PROVE  \/ UNCHANGED vars
         \/ \E size \in 0 .. (Word - 1) : Served(size)
         \/ \E a \in live : a.count > 0 /\ HeapFree(a)
<1>1. \A size : HeapMalloc(size) => UNCHANGED vars \/ Served(size)
  <2> SUFFICES ASSUME NEW size, HeapMalloc(size)
               PROVE  UNCHANGED vars \/ Served(size)
    OBVIOUS
  <2>1. GetStartBlock(entries, BlocksOf(size)) < 0
          \/ GetStartBlock(entries, BlocksOf(size)) >= 0
    BY GetStartBlockIsInt
  <2> QED  BY <2>1 DEF HeapMalloc, Served
<1>2. Requests \subseteq 0 .. (Word - 1)  BY RequestsAssumption
<1>3. \A num, size \in Requests : (num * size) % Word \in 0 .. (Word - 1)
  <2>1. Word \in Nat \ {0}  BY HeapAssumption DEF Word
  <2>2. \A x \in Nat : x % Word \in 0 .. (Word - 1)  BY <2>1
  <2>3. \A num, size \in Requests : num * size \in Nat  BY <1>2, <2>1
  <2> QED  BY <2>2, <2>3
<1>4. ASSUME NEW size \in Requests, Kmalloc(size) \/ Kzalloc(size) \/ Malloc(size)
      PROVE  UNCHANGED vars \/ Served(size)
  BY <1>1, <1>4 DEF Kmalloc, Kzalloc, Malloc
<1>5. ASSUME NEW num \in Requests, NEW size \in Requests, Calloc(num, size)
      PROVE  UNCHANGED vars \/ Served((num * size) % Word)
  BY <1>1, <1>5 DEF Calloc
<1>6. ASSUME NEW a \in live, Kfree(a) \/ Free(a)
      PROVE  a.count > 0 /\ HeapFree(a)
  BY <1>6 DEF Kfree, Free
<1> QED  BY <1>2, <1>3, <1>4, <1>5, <1>6 DEF Next, FreeNull

-----------------------------------------------------------------------------
(* The invariant.  LiveDisjoint alone is not inductive: that a new allocation *)
(* overlaps no outstanding one is known only from the table, so the table has *)
(* to agree with what is outstanding (LiveMarked).                            *)

Inv == TypeOK /\ LiveMarked /\ LiveDisjoint

(* An empty heap satisfies it.                                               *)
LEMMA InitInv == Init => Inv
BY DEF Init, Inv, TypeOK, LiveMarked, LiveDisjoint, FREE

(* A served request gets blocks that nobody holds, inside the heap and past    *)
(* its end.                                                                  *)
LEMMA ServedStep ==
  ASSUME Inv, NEW size \in 0 .. (Word - 1), Served(size)
  PROVE  \E x \in Allocation :
           /\ x = [addr |-> BlockToAddress(GetStartBlock(entries, BlocksOf(size))),
                   count |-> BlocksOf(size), size |-> size]
           /\ live' = live \cup {x}
           /\ entries' = MarkTaken(entries, First(x), x.count)
           /\ \A a \in live : Extent(a) \cap Extent(x) = {}
<1> DEFINE n == BlocksOf(size)
           s == GetStartBlock(entries, n)
           x == [addr |-> BlockToAddress(s), count |-> n, size |-> size]
<1>1. n \in 0 .. (WordBlocks - 1) /\ n \in Nat
  BY BlocksOfRange, HeapAssumption
<1>2. s >= 0  BY DEF Served
<1>3. s \in Blocks /\ \A i \in Blocks \cap (s .. (s + n - 1)) : IsFree(entries, i)
  BY <1>1, <1>2, StartBlockIsFree
<1>4. x \in Allocation  BY <1>1, <1>3 DEF Allocation
<1>5. First(x) = s  BY <1>3, RoundTrip DEF First
<1>6. Extent(x) = s .. (s + n - 1)  BY <1>5 DEF Extent
<1>7. entries' = MarkTaken(entries, s, n) /\ live' = live \cup {x}
  BY <1>2, <1>3 DEF Served, HeapMalloc, Blocks
<1>8. ASSUME NEW a \in live, NEW j \in Extent(a) \cap Extent(x)
      PROVE  FALSE
  <2>1. First(a) \in Blocks /\ a.count \in Nat
    BY AllocationFacts DEF Inv, TypeOK
  <2>2. \A i \in Extent(a) \cap Blocks : ~ IsFree(entries, i)  BY DEF Inv, LiveMarked
  <2>3. CASE j \in Blocks
    BY <1>3, <1>6, <1>8, <2>2, <2>3
  <2>4. CASE j \notin Blocks
    <3>1. Total \in Nat \ {0} /\ Total - 1 \in Blocks  BY HeapAssumption DEF Blocks
    <3>2. j \in Int /\ j >= Total
      BY <1>3, <1>6, <1>8, <2>1, <2>4, <3>1 DEF Blocks
    <3>3. Total - 1 \in Extent(a)
      BY <1>8, <2>1, <3>1, <3>2 DEF Extent, Blocks
    <3>4. Total - 1 \in s .. (s + n - 1)
      BY <1>1, <1>3, <1>6, <1>8, <3>1, <3>2 DEF Blocks
    <3> QED  BY <1>3, <2>2, <3>1, <3>3, <3>4
  <2> QED  BY <2>3, <2>4
<1> QED  BY <1>4, <1>5, <1>7, <1>8

(* heap_mark_blocks_taken writes the bytes of an allocation and no others.   *)
LEMMA ExtentMarked ==
  ASSUME NEW e \in EntryTables, NEW x, First(x) \in Blocks, x.count \in Nat
  PROVE  Marked(MarkTaken(e, First(x), x.count), e, Extent(x))
<1> DEFINE s == First(x)
           n == x.count
<1>1. s \in Blocks /\ n \in Nat /\ Extent(x) = s .. (s + n - 1)  BY DEF Extent
<1> HIDE DEF s, n
<1>2. Marked(MarkTaken(e, s, n), e, s .. (s + n - 1))  BY <1>1, MarkTakenMarks, Zenon
<1> QED  BY <1>1, <1>2 DEF s, n

(* heap_malloc preserves the invariant.                                      *)
LEMMA ServedInv ==
  ASSUME Inv, NEW size \in 0 .. (Word - 1), Served(size)
  PROVE  Inv'
<1>1. PICK x \in Allocation :
         /\ live' = live \cup {x}
         /\ entries' = MarkTaken(entries, First(x), x.count)
         /\ \A a \in live : Extent(a) \cap Extent(x) = {}
  BY ServedStep
<1>2. First(x) \in Blocks /\ x.count \in Nat  BY AllocationFacts
<1>3. entries \in EntryTables  BY DEF Inv, TypeOK, EntryTables
<1>4. /\ entries' \in EntryTables
      /\ \A i \in Blocks \cap Extent(x) : ~ IsFree(entries', i)
      /\ \A i \in Blocks \ Extent(x) : entries'[i] = entries[i]
  <2>1. Marked(MarkTaken(entries, First(x), x.count), entries, Extent(x))
    BY <1>2, <1>3, ExtentMarked, Zenon
  <2>2. Marked(entries', entries, Extent(x))  BY <1>1, <2>1, Zenon
  <2> QED  BY <2>2, Zenon DEF Marked
<1>5. TypeOK'  BY <1>1, <1>4 DEF Inv, TypeOK, EntryTables
<1>6. LiveMarked'
  <2>1. \A a \in live : \A i \in Extent(a) \cap Blocks : ~ IsFree(entries', i)
    BY <1>1, <1>4 DEF Inv, LiveMarked, IsFree
  <2> QED  BY <1>1, <1>4, <2>1 DEF LiveMarked
<1>7. LiveDisjoint'  BY <1>1 DEF Inv, LiveDisjoint
<1> QED  BY <1>5, <1>6, <1>7 DEF Inv

(* heap_free preserves the invariant.                                        *)
LEMMA FreeInv ==
  ASSUME Inv, NEW a \in live, a.count > 0, HeapFree(a)
  PROVE  Inv'
<1>1. a \in Allocation /\ entries \in [Blocks -> 0 .. 255]  BY DEF Inv, TypeOK
<1>2. First(a) \in Blocks /\ a.count \in Nat  BY <1>1, AllocationFacts
<1>3. First(a) \in Extent(a)  BY <1>2 DEF Extent, Blocks
<1>4. entries' = [entries EXCEPT ![First(a)] = FREE] /\ live' = live \ {a}
  BY <1>1, <1>2, MarkFreeFreesOne DEF HeapFree, First
<1>5. TypeOK'
  <2>1. FREE \in 0 .. 255  BY DEF FREE
  <2>2. [entries EXCEPT ![First(a)] = FREE] \in [Blocks -> 0 .. 255]  BY <1>1, <2>1
  <2>3. entries' \in [Blocks -> 0 .. 255]  BY <1>4, <2>2
  <2>4. live' \in SUBSET Allocation  BY <1>4 DEF Inv, TypeOK
  <2> QED  BY <2>3, <2>4 DEF TypeOK
<1>6. LiveMarked'
  BY <1>1, <1>2, <1>3, <1>4 DEF Inv, LiveMarked, LiveDisjoint, IsFree
<1>7. LiveDisjoint'  BY <1>4 DEF Inv, LiveDisjoint
<1> QED  BY <1>5, <1>6, <1>7 DEF Inv

(* Every step preserves the invariant.                                       *)
LEMMA NextInv == Inv /\ [Next]_vars => Inv'
<1> SUFFICES ASSUME Inv, [Next]_vars PROVE Inv'
  OBVIOUS
<1>1. CASE UNCHANGED vars
  BY <1>1 DEF vars, Inv, TypeOK, LiveMarked, LiveDisjoint, IsFree
<1>2. CASE \E size \in 0 .. (Word - 1) : Served(size)
  BY <1>2, ServedInv
<1>3. CASE \E a \in live : a.count > 0 /\ HeapFree(a)
  BY <1>3, FreeInv
<1> QED  BY <1>1, <1>2, <1>3, StepCases

-----------------------------------------------------------------------------
(* The theorems.                                                            *)

(* No sequence of allocations and frees makes two outstanding allocations     *)
(* share a block (kmalloc, kzalloc, kfree, and the stdlib calls), for every   *)
(* heap size, block size and set of requests.                                *)
THEOREM HeapLiveDisjoint == Spec => []LiveDisjoint
<1>1. Inv => LiveDisjoint  BY DEF Inv
<1> QED  BY InitInv, NextInv, <1>1, PTL DEF Spec

(* Table entries fit their byte and pointers stay block addresses.            *)
THEOREM HeapTypeOK == Spec => []TypeOK
<1>1. Inv => TypeOK  BY DEF Inv
<1> QED  BY InitInv, NextInv, <1>1, PTL DEF Spec

(* Every block of an outstanding allocation reads as taken in the table that   *)
(* heap_get_start_block scans.                                               *)
THEOREM HeapLiveMarked == Spec => []LiveMarked
<1>1. Inv => LiveMarked  BY DEF Inv
<1> QED  BY InitInv, NextInv, <1>1, PTL DEF Spec

(* kmalloc and kfree implement the abstract allocator: what a client holds is  *)
(* granted to nobody else until that client returns it.                      *)
THEOREM HeapImplementsAllocator == Spec => ImplementsAllocator
<1>1. Init => Granted!Init  BY DEF Init, Granted!Init
<1>2. Inv /\ [Next]_vars => [Granted!Next]_{Extent(a) : a \in live}
  <2> SUFFICES ASSUME Inv, [Next]_vars
               PROVE  [Granted!Next]_{Extent(a) : a \in live}
    OBVIOUS
  <2>1. CASE UNCHANGED vars
    BY <2>1 DEF vars, Extent, First
  <2>2. ASSUME NEW size \in 0 .. (Word - 1), Served(size)
        PROVE  Granted!Next
    <3>1. PICK x \in Allocation :
            /\ x.count = BlocksOf(size)
            /\ live' = live \cup {x}
            /\ \A a \in live : Extent(a) \cap Extent(x) = {}
      BY <2>2, ServedStep
    <3>2. Granted!Grant(Extent(x))
      BY <3>1 DEF Granted!Grant
    <3>3. First(x) \in Blocks /\ x.count \in 0 .. (WordBlocks - 1)
      BY <3>1, AllocationFacts, BlocksOfRange
    <3>4. Extent(x) \in Runs  BY <3>3 DEF Extent, Runs
    <3>5. \E y \in Runs : Granted!Grant(y)  BY <3>2, <3>4 DEF Granted!Grant
    <3> QED  BY <3>5 DEF Granted!Next
  <2>3. ASSUME NEW a \in live, a.count > 0, HeapFree(a)
        PROVE  Granted!Next
    <3>1. live' = live \ {a}  BY <2>3 DEF HeapFree
    <3>2. First(a) \in Extent(a)
      <4>1. a \in Allocation  BY DEF Inv, TypeOK
      <4> QED  BY <2>3, <4>1, AllocationFacts DEF Extent, Blocks
    <3>3. \A b \in live : b # a => Extent(b) # Extent(a)
      BY <3>2 DEF Inv, LiveDisjoint
    <3>4. {Extent(b) : b \in live'} = {Extent(b) : b \in live} \ {Extent(a)}
      BY <3>1, <3>3
    <3> QED  BY <3>4 DEF Granted!Next, Granted!Release
  <2> QED  BY <2>1, <2>2, <2>3, StepCases
<1> QED  BY InitInv, NextInv, <1>1, <1>2, PTL DEF Spec, ImplementsAllocator, Granted!Spec

-----------------------------------------------------------------------------
(* What is lost.                                                            *)

(* The blocks heap_free leaves marked: all of the allocation but its first.   *)
AllButFirst(a) == (Extent(a) \ {First(a)}) \cap Blocks

(* heap_malloc takes from the free blocks what it hands out, and nothing else. *)
LEMMA ServedLost ==
  ASSUME Inv, NEW size \in 0 .. (Word - 1), Served(size)
  PROVE  Lost' = Lost
<1>1. PICK x \in Allocation :
        /\ live' = live \cup {x}
        /\ entries' = MarkTaken(entries, First(x), x.count)
        /\ First(x) = GetStartBlock(entries, x.count)
  <2>1. BlocksOf(size) \in Nat  BY BlocksOfRange, HeapAssumption
  <2>2. GetStartBlock(entries, BlocksOf(size)) \in Blocks
    BY <2>1, StartBlockIsFree DEF Served
  <2> QED  BY <2>2, ServedStep, RoundTrip DEF First
<1>2. First(x) \in Blocks /\ x.count \in Nat  BY AllocationFacts
<1>3. \A j \in Blocks \cap Extent(x) : IsFree(entries, j)
  BY <1>1, <1>2, StartBlockIsFree DEF Extent, Blocks
<1>4. \A j \in Blocks \ Extent(x) : entries'[j] = entries[j]
  <2>1. entries \in EntryTables  BY DEF Inv, TypeOK, EntryTables
  <2>2. Marked(MarkTaken(entries, First(x), x.count), entries, Extent(x))
    BY <1>2, <2>1, ExtentMarked, Zenon
  <2>3. Marked(entries', entries, Extent(x))  BY <1>1, <2>2, Zenon
  <2> QED  BY <2>3, Zenon DEF Marked
<1>5. Lost \subseteq Lost'
  <2>1. \A j \in Lost : j \in Blocks \ Extent(x)  BY <1>3 DEF Lost
  <2> QED  BY <1>1, <1>4, <2>1 DEF Lost, IsFree
<1>6. Lost' \subseteq Lost
  <2>1. \A j \in Lost' : j \in Blocks \ Extent(x)  BY <1>1 DEF Lost
  <2> QED  BY <1>1, <1>4, <2>1 DEF Lost, IsFree
<1> QED  BY <1>5, <1>6

(* heap_free loses the tail of what it frees, no more and no less.            *)
LEMMA FreeLost ==
  ASSUME Inv, NEW a \in live, a.count > 0, HeapFree(a)
  PROVE  Lost' = Lost \cup AllButFirst(a)
<1>1. a \in Allocation /\ entries \in [Blocks -> 0 .. 255]  BY DEF Inv, TypeOK
<1>2. First(a) \in Blocks /\ a.count \in Nat  BY <1>1, AllocationFacts
<1>3. First(a) \in Extent(a)  BY <1>2 DEF Extent, Blocks
<1>4. entries' = [entries EXCEPT ![First(a)] = FREE] /\ live' = live \ {a}
  BY <1>1, <1>2, MarkFreeFreesOne DEF HeapFree, First
<1>5. Lost \subseteq Lost'
  BY <1>1, <1>3, <1>4 DEF Lost, IsFree
<1>6. AllButFirst(a) \subseteq Lost'
  <2>1. \A j \in AllButFirst(a) : entries'[j] = entries[j] /\ ~ IsFree(entries, j)
    BY <1>1, <1>4 DEF Inv, LiveMarked, AllButFirst
  <2>2. \A j \in AllButFirst(a) : \A b \in live' : j \notin Extent(b)
    BY <1>4 DEF Inv, LiveDisjoint, AllButFirst
  <2> QED  BY <2>1, <2>2 DEF Lost, IsFree, AllButFirst
<1>7. Lost' \subseteq Lost \cup AllButFirst(a)
  <2> SUFFICES ASSUME NEW j \in Lost', j \notin AllButFirst(a)
               PROVE  j \in Lost
    OBVIOUS
  <2>1. j \in Blocks /\ ~ IsFree(entries', j)  BY DEF Lost
  <2>2. j # First(a)
    <3>1. IsFree(entries', First(a))  BY <1>1, <1>2, <1>4 DEF IsFree, EntryType, FREE
    <3> QED  BY <2>1, <3>1
  <2>3. entries'[j] = entries[j]  BY <1>1, <1>4, <2>1, <2>2
  <2>4. j \notin Extent(a)  BY <2>1, <2>2 DEF AllButFirst
  <2>5. \A b \in live : j \notin Extent(b)  BY <1>4, <2>4 DEF Lost
  <2> QED  BY <2>1, <2>3, <2>5 DEF Lost, IsFree
<1> QED  BY <1>5, <1>6, <1>7

(* An allocation of one block has no tail.                                   *)
LEMMA OneBlockAlone ==
  ASSUME NEW a \in Allocation, ~ (a.count > 1)
  PROVE  AllButFirst(a) = {}
<1>1. First(a) \in Int /\ a.count \in Nat
  BY AllocationFacts, HeapAssumption DEF Blocks
<1>2. \A j \in Extent(a) : j = First(a)  BY <1>1 DEF Extent
<1> QED  BY <1>2 DEF AllButFirst

(* Blocks that kfree leaves marked are never granted again, nor freed.         *)
THEOREM HeapLostForever == Spec => LostForever
<1>1. Inv /\ [Next]_vars => [Lost \subseteq Lost']_vars
  <2> SUFFICES ASSUME Inv, [Next]_vars
               PROVE  Lost \subseteq Lost'
    OBVIOUS
  <2>1. CASE UNCHANGED vars
    BY <2>1 DEF vars, Lost, IsFree
  <2> QED  BY <2>1, ServedLost, FreeLost, StepCases
<1> QED  BY InitInv, NextInv, <1>1, PTL DEF Spec, LostForever

(* The only way to lose a block is to free an allocation of several blocks,    *)
(* and then all but the first of them are lost: heap_mark_blocks_free never   *)
(* sees HAS_NEXT in a stored byte (src/mem/heap.c).                           *)
LossIsTail == [][\/ Lost' = Lost
                 \/ \E a \in live : /\ a.count > 1
                                    /\ live' = live \ {a}
                                    /\ Lost' = Lost \cup AllButFirst(a)]_vars

THEOREM HeapLossIsTail == Spec => LossIsTail
<1>1. Inv /\ [Next]_vars =>
        [\/ Lost' = Lost
         \/ \E a \in live : /\ a.count > 1
                            /\ live' = live \ {a}
                            /\ Lost' = Lost \cup AllButFirst(a)]_vars
  <2> SUFFICES ASSUME Inv, [Next]_vars
               PROVE  \/ Lost' = Lost
                      \/ \E a \in live : /\ a.count > 1
                                         /\ live' = live \ {a}
                                         /\ Lost' = Lost \cup AllButFirst(a)
    OBVIOUS
  <2>1. CASE UNCHANGED vars
    BY <2>1 DEF vars, Lost, IsFree
  <2>2. CASE \E size \in 0 .. (Word - 1) : Served(size)
    BY <2>2, ServedLost
  <2>3. CASE \E a \in live : a.count > 0 /\ HeapFree(a)
    <3>1. PICK a \in live : a.count > 0 /\ HeapFree(a)  BY <2>3
    <3>2. Lost' = Lost \cup AllButFirst(a) /\ live' = live \ {a}
      BY <3>1, FreeLost DEF HeapFree
    <3>3. CASE a.count > 1  BY <3>2, <3>3
    <3>4. CASE ~ (a.count > 1)
      <4>1. AllButFirst(a) = {}  BY <3>1, <3>4, OneBlockAlone DEF Inv, TypeOK
      <4> QED  BY <3>2, <4>1
    <3> QED  BY <3>3, <3>4
  <2> QED  BY <2>1, <2>2, <2>3, StepCases
<1> QED  BY InitInv, NextInv, <1>1, PTL DEF Spec, LossIsTail

(* Where AllFreeWhenIdle holds although the code violates it in general: a     *)
(* kernel whose allocations all fit one block gets the whole heap back.       *)
OneBlockEach == \A a \in live : a.count <= 1

THEOREM HeapOneBlockGivenBack == Spec /\ []OneBlockEach => []AllFreeWhenIdle
<1> DEFINE NoneLost == Lost = {}
<1>1. Init => NoneLost  BY DEF Init, Lost, IsFree, EntryType, FREE
<1>2. Inv /\ OneBlockEach /\ NoneLost /\ [Next]_vars => NoneLost'
  <2> SUFFICES ASSUME Inv, OneBlockEach, NoneLost, [Next]_vars
               PROVE  Lost' = {}
    OBVIOUS
  <2>1. CASE UNCHANGED vars
    BY <2>1 DEF vars, Lost, IsFree
  <2>2. CASE \E size \in 0 .. (Word - 1) : Served(size)
    BY <2>2, ServedLost
  <2>3. CASE \E a \in live : a.count > 0 /\ HeapFree(a)
    <3>1. PICK a \in live : a.count > 0 /\ HeapFree(a)  BY <2>3
    <3>2. Lost' = Lost \cup AllButFirst(a)  BY <3>1, FreeLost
    <3>3. AllButFirst(a) = {}
      <4>1. a \in Allocation /\ a.count <= 1  BY DEF Inv, TypeOK, OneBlockEach
      <4>2. ~ (a.count > 1)  BY <4>1, AllocationFacts
      <4> QED  BY <4>1, <4>2, OneBlockAlone
    <3> QED  BY <3>2, <3>3
  <2> QED  BY <2>1, <2>2, <2>3, StepCases
<1>3. NoneLost => AllFreeWhenIdle  BY DEF Lost, AllFreeWhenIdle
<1> HIDE DEF NoneLost
<1> QED  BY InitInv, NextInv, <1>1, <1>2, <1>3, PTL DEF Spec

-----------------------------------------------------------------------------
(* Sizes.                                                                   *)

CountOK == \A a \in live : a.count = BlocksOf(a.size)

(* The blocks granted hold the bytes asked for, unless the size is within one  *)
(* block of 2^32.                                                            *)
THEOREM HeapRequestCovered == Spec => []RequestCovered
<1>1. Init => CountOK  BY DEF Init, CountOK
<1>2. Inv /\ CountOK /\ [Next]_vars => CountOK'
  <2> SUFFICES ASSUME Inv, CountOK, [Next]_vars PROVE CountOK'
    OBVIOUS
  <2>1. CASE UNCHANGED vars  BY <2>1 DEF vars, CountOK
  <2>2. ASSUME NEW size \in 0 .. (Word - 1), Served(size) PROVE CountOK'
    BY <2>2, ServedStep DEF CountOK
  <2>3. ASSUME NEW a \in live, HeapFree(a) PROVE CountOK'
    BY <2>3 DEF HeapFree, CountOK
  <2> QED  BY <2>1, <2>2, <2>3, StepCases
<1>3. Inv /\ CountOK => RequestCovered
  BY BlocksOfCovers DEF Inv, TypeOK, Allocation, CountOK, RequestCovered
<1> QED  BY InitInv, NextInv, <1>1, <1>2, <1>3, PTL DEF Spec
=============================================================================
