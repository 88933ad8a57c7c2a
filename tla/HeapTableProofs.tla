--------------------------- MODULE HeapTableProofs ---------------------------
(***************************************************************************)
(* Lemmas about the block table, for every number and size of blocks: what    *)
(* heap_get_start_block returns, what marking a run changes, and how sizes    *)
(* and addresses turn into blocks.                                          *)
(***************************************************************************)
EXTENDS HeapTable, TLAPS, WellFoundedInduction

-----------------------------------------------------------------------------
(* Arithmetic.                                                              *)

(* A set of naturals that is not empty has a least member.                   *)
LEMMA LeastIsLeast ==
  ASSUME NEW S, S \subseteq Nat, S # {}
  PROVE  Least(S) \in S /\ \A t \in S : Least(S) <= t
<1>1. \E s \in S : \A t \in S : ~ (<<t, s>> \in OpToRel(<, Nat))
  BY NatLessThanWellFounded, WFMin
<1>2. \E s \in S : \A t \in S : s <= t
  <2>1. PICK s \in S : \A t \in S : ~ (<<t, s>> \in OpToRel(<, Nat))
    BY <1>1
  <2>2. \A t \in S : ~ (t < s)
    BY <2>1 DEF OpToRel
  <2> QED  BY <2>2
<1> QED  BY <1>2 DEF Least

(* heap_address_to_block undoes heap_block_to_address.                       *)
LEMMA RoundTrip ==
  ASSUME NEW b \in Blocks
  PROVE  AddressToBlock(BlockToAddress(b)) = b
<1>1. BlockSize \in Nat \ {0} /\ Saddr \in Nat /\ b \in Nat  BY HeapAssumption DEF Blocks
<1>2. (Saddr + b * BlockSize) - Saddr = b * BlockSize  BY <1>1
<1>3. (b * BlockSize) \div BlockSize = b  BY <1>1
<1> QED  BY <1>1, <1>2, <1>3 DEF AddressToBlock, BlockToAddress

(* A size below 2^32 takes fewer blocks than 2^32 bytes hold.                *)
LEMMA BlocksOfRange ==
  ASSUME NEW size \in 0 .. (Word - 1)
  PROVE  BlocksOf(size) \in 0 .. (WordBlocks - 1)
<1>1. BlockSize \in Nat \ {0} /\ WordBlocks \in Nat \ {0} /\ Word \in Nat \ {0}  BY HeapAssumption DEF Word
<1>2. AlignUp(size) \in 0 .. (Word - 1)
  <2>1. size % BlockSize \in 0 .. (BlockSize - 1) BY <1>1
  <2>2. (size - (size % BlockSize) + BlockSize) % Word \in 0 .. (Word - 1) BY <1>1, <2>1
  <2> QED BY <1>1, <2>2 DEF AlignUp
<1>3. \A v \in 0 .. (Word - 1) : v \div BlockSize \in 0 .. (WordBlocks - 1)
  BY <1>1 DEF Word
<1> QED  BY <1>2, <1>3 DEF BlocksOf

-----------------------------------------------------------------------------
(* The table operators.                                                     *)

(* What heap_get_start_block returns is free as far as it lies in the heap.  *)
LEMMA StartBlockIsFree ==
  ASSUME NEW e, NEW n \in Nat, GetStartBlock(e, n) >= 0
  PROVE  /\ GetStartBlock(e, n) \in Blocks
         /\ \A i \in Blocks \cap (GetStartBlock(e, n) .. (GetStartBlock(e, n) + n - 1)) :
              IsFree(e, i)
<1> DEFINE s == GetStartBlock(e, n)
<1>1. Total \in Nat \ {0} /\ Blocks \subseteq Nat  BY HeapAssumption DEF Blocks
<1>2. CASE FitsAt(e, n) # {}
  <2>1. s = Least(FitsAt(e, n))  BY <1>2 DEF GetStartBlock
  <2>2. s \in FitsAt(e, n)  BY <1>1, <1>2, <2>1, LeastIsLeast DEF FitsAt
  <2> QED  BY <2>2 DEF FitsAt
<1>3. CASE FitsAt(e, n) = {} /\ TrailingAt(e) # {}
  <2>1. s = Least(TrailingAt(e))  BY <1>3 DEF GetStartBlock
  <2>2. s \in TrailingAt(e)  BY <1>1, <1>3, <2>1, LeastIsLeast DEF TrailingAt
  <2>3. s \in Blocks /\ \A i \in s .. (Total - 1) : IsFree(e, i)  BY <2>2 DEF TrailingAt
  <2> QED  BY <1>1, <2>3 DEF Blocks
<1>4. CASE FitsAt(e, n) = {} /\ TrailingAt(e) = {}
  BY <1>4 DEF GetStartBlock, ENOMEM
<1> QED  BY <1>2, <1>3, <1>4

(* heap_get_start_block returns an int, a block or -ENOMEM.                  *)
LEMMA GetStartBlockIsInt ==
  ASSUME NEW e, NEW n
  PROVE  GetStartBlock(e, n) \in Int
<1>1. FitsAt(e, n) \subseteq Nat /\ TrailingAt(e) \subseteq Nat
  BY HeapAssumption DEF FitsAt, TrailingAt, Blocks
<1> QED  BY <1>1, LeastIsLeast DEF GetStartBlock, ENOMEM

(* Table t is table e with the blocks in run taken.                          *)
EntryTables == [Blocks -> 0 .. 255]
Marked(t, e, run) ==
  /\ t \in EntryTables
  /\ \A i \in Blocks \cap run : ~ IsFree(t, i)
  /\ \A i \in Blocks \ run : t[i] = e[i]

(* heap_mark_blocks_taken marks the run, and nothing else.                   *)
LEMMA MarkTakenMarks ==
  ASSUME NEW e \in EntryTables, NEW s \in Blocks, NEW n \in Nat
  PROVE  Marked(MarkTaken(e, s, n), e, s .. (s + n - 1))
<1> DEFINE t == MarkTaken(e, s, n)
           run == s .. (s + n - 1)
<1>1. \A i \in Blocks : TakenEntry(i, s, n) \in {1, 129}
  BY DEF TakenEntry, AsByte, TAKEN, IS_FIRST, HAS_NEXT
<1>2. \A i \in Blocks : TakenEntry(i, s, n) \in 0 .. 255 /\ TakenEntry(i, s, n) % 16 # 0
  BY <1>1
<1>3. t \in EntryTables  BY <1>2 DEF MarkTaken, EntryTables
<1>4. \A i \in Blocks \cap run : t[i] = TakenEntry(i, s, n)  BY DEF MarkTaken
<1>5. \A i \in Blocks \ run : t[i] = e[i]  BY DEF MarkTaken
<1> HIDE DEF t, run
<1>6. \A i \in Blocks \cap run : ~ IsFree(t, i)  BY <1>2, <1>4 DEF IsFree, EntryType, FREE
<1>7. Marked(t, e, run)  BY <1>3, <1>5, <1>6 DEF Marked
<1> QED  BY <1>7 DEF t, run

(* heap_mark_blocks_free frees one block: bit 8 is never in a stored byte.    *)
LEMMA MarkFreeFreesOne ==
  ASSUME NEW e \in [Blocks -> 0 .. 255], NEW s \in Blocks
  PROVE  MarkFree(e, s) = [e EXCEPT ![s] = FREE]
<1>1. s \in Nat /\ Blocks \subseteq Int  BY HeapAssumption DEF Blocks
<1>2. ~ HasNext(e[s])
  <2>1. e[s] \in 0 .. 255  OBVIOUS
  <2> QED  BY <2>1 DEF HasNext, HAS_NEXT
<1>3. FreedFrom(e, s) = {s}
  <2>1. \A i \in Blocks : i > s => s \in s .. (i - 1)  BY <1>1
  <2>2. \A i \in FreedFrom(e, s) : i = s  BY <1>1, <1>2, <2>1 DEF FreedFrom
  <2>3. s \in FreedFrom(e, s)  BY <1>1 DEF FreedFrom
  <2> QED  BY <2>2, <2>3
<1> QED  BY <1>3 DEF MarkFree

(* heap_align_value_to_upper rounds up as long as the result fits 32 bits.      *)
LEMMA BlocksOfCovers ==
  ASSUME NEW size \in 0 .. (Word - 1), size <= Word - BlockSize
  PROVE  BlocksOf(size) * BlockSize >= size
<1>1. BlockSize \in Nat \ {0} /\ WordBlocks \in Nat \ {0} /\ Word \in Nat
  BY HeapAssumption DEF Word
<1> DEFINE q == size \div BlockSize
           r == size % BlockSize
<1>2. q \in Nat /\ r \in 0 .. (BlockSize - 1) /\ size = q * BlockSize + r  BY <1>1
<1>3. CASE r = 0
  <2>1. AlignUp(size) = size  BY <1>3 DEF AlignUp
  <2> QED  BY <1>1, <1>2, <1>3, <2>1 DEF BlocksOf
<1>4. CASE r # 0
  <2>1. size - r + BlockSize = (q + 1) * BlockSize  BY <1>1, <1>2
  <2>2. q + 1 <= WordBlocks - 1 \/ (q + 1) * BlockSize >= Word
    BY <1>1, <1>2 DEF Word
  <2>3. (q + 1) * BlockSize <= Word - 1
    <3>1. size < Word - BlockSize
      <4>1. Word - BlockSize = (WordBlocks - 1) * BlockSize  BY <1>1 DEF Word
      <4>2. size # (WordBlocks - 1) * BlockSize
        <5>1. ((WordBlocks - 1) * BlockSize) % BlockSize = 0  BY <1>1
        <5> QED  BY <1>4, <5>1
      <4> QED  BY <1>1, <4>1, <4>2
    <3> QED  BY <1>1, <1>2, <1>4, <2>1, <3>1
  <2>4. AlignUp(size) = (q + 1) * BlockSize
    <3>1. \A v \in 0 .. (Word - 1) : v % Word = v  BY <1>1
    <3>2. (q + 1) * BlockSize \in 0 .. (Word - 1)  BY <1>1, <1>2, <2>3
    <3> QED  BY <1>4, <2>1, <3>1, <3>2 DEF AlignUp
  <2>5. BlocksOf(size) = q + 1  BY <1>1, <1>2, <2>4 DEF BlocksOf
  <2> QED  BY <1>1, <1>2, <2>1, <2>5
<1> QED  BY <1>3, <1>4
=============================================================================
