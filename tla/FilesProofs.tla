----------------------------- MODULE FilesProofs -----------------------------
(***************************************************************************)
(* Theorems about module Files, for every number of blocks and slots and    *)
(* every set of names and paths.                                            *)
(*                                                                          *)
(* The invariant of the runs, Inv, is inductive as it stands.  Each of the  *)
(* operations is a composition of stores, so the argument goes in two steps. *)
(* First, what an operation does to memory, without its stores: all of      *)
(* fopen's calls change free blocks only (Grown), and fat16_open, if it     *)
(* succeeds, leaves a private data, an item and a clone in blocks that were *)
(* free (FatOpenMade).  Then, what that does to Inv, for any memory m,      *)
(* slots f, handles h and history t (InvOf): a call that opens nothing      *)
(* (Stays), one that opens a slot on blocks that were free (Opens), one that *)
(* frees the chain of a slot and clears it (Closes).  Each of them says what *)
(* happens to the garbage and to the bindings of FileTable as well, so that *)
(* the action property and the refinement come with the invariant (Step).   *)
(***************************************************************************)
EXTENDS Files, FiniteSetTheorems, WellFoundedInduction, TLAPS

Names == FileNames \cup DirNames
Mem   == [Ptrs -> Objects]

-----------------------------------------------------------------------------
(* Blocks.                                                                  *)

(* The fields of the structures.                                            *)
LEMMA Fields ==
  /\ Free.kind = "free" /\ Path.kind = "path" /\ Directory.kind = "directory"
  /\ \A n : Dirent(n).kind = "dirent" /\ Dirent(n).name = n
  /\ \A d : Item(d).kind = "item" /\ Item(d).dirent = d
  /\ \A i : Private(i).kind = "private" /\ Private(i).item = i
  /\ \A i, p : Desc(i, p).kind = "desc" /\ Desc(i, p).index = i /\ Desc(i, p).private = p
BY DEF Free, Path, Directory, Dirent, Item, Private, Desc

(* What a block holds is one of the structures.                             *)
LEMMA Structures ==
  /\ Free \in Objects /\ Path \in Objects /\ Directory \in Objects
  /\ \A n \in Names : Dirent(n) \in Objects
  /\ \A d \in Ptr0 : Item(d) \in Objects
  /\ \A i \in Ptr0 : Private(i) \in Objects
  /\ \A i \in Fds, p \in Ptrs : Desc(i, p) \in Objects
BY DEF Objects, Names

(* The kind of a structure tells its fields.                                *)
LEMMA Kinds ==
  ASSUME NEW x \in Objects
  PROVE  /\ x.kind = "free" => x = Free
         /\ x.kind = "desc" => x.index \in Fds /\ x.private \in Ptrs
         /\ x.kind = "private" => x.item \in Ptr0
         /\ x.kind = "item" => x.dirent \in Ptr0
         /\ x.kind = "dirent" => x.name \in Names
<1>1. \/ x \in {Free, Path, Directory}
      \/ \E n \in Names : x = Dirent(n)
      \/ \E d \in Ptr0 : x = Item(d)
      \/ \E i \in Ptr0 : x = Private(i)
      \/ \E i \in Fds, p \in Ptrs : x = Desc(i, p)
  BY DEF Objects, Names
<1>2. CASE x \in {Free, Path, Directory}  BY <1>2, Fields
<1>3. ASSUME NEW n \in Names, x = Dirent(n)
      PROVE  x.kind = "dirent" /\ x.name \in Names
  BY <1>3, Fields
<1>4. ASSUME NEW d \in Ptr0, x = Item(d)
      PROVE  x.kind = "item" /\ x.dirent \in Ptr0
  BY <1>4, Fields
<1>5. ASSUME NEW i \in Ptr0, x = Private(i)
      PROVE  x.kind = "private" /\ x.item \in Ptr0
  BY <1>5, Fields
<1>6. ASSUME NEW i \in Fds, NEW p \in Ptrs, x = Desc(i, p)
      PROVE  x.kind = "desc" /\ x.index \in Fds /\ x.private \in Ptrs
  BY <1>6, Fields
<1> QED  BY <1>1, <1>2, <1>3, <1>4, <1>5, <1>6

(* kzalloc returns a free block, or NULL if there is none.                  *)
LEMMA NewIsFree ==
  ASSUME NEW m
  PROVE  /\ New(m) \in Ptr0
         /\ New(m) # NULL => New(m) \in Ptrs /\ m[New(m)] = Free
         /\ New(m) = NULL => FreeBlocks(m) = {}
<1>1. FreeBlocks(m) \subseteq Nat /\ NULL \notin FreeBlocks(m)
  BY FilesAssumption DEF FreeBlocks, Ptrs, NULL
<1>2. ASSUME FreeBlocks(m) # {} PROVE New(m) \in FreeBlocks(m)
  <2>1. \E s \in FreeBlocks(m) : \A t \in FreeBlocks(m) : ~ (<<t, s>> \in OpToRel(<, Nat))
    BY <1>1, <1>2, NatLessThanWellFounded, WFMin
  <2>2. PICK s \in FreeBlocks(m) : \A t \in FreeBlocks(m) : ~ (<<t, s>> \in OpToRel(<, Nat))
    BY <2>1
  <2>3. \A t \in FreeBlocks(m) : ~ (t < s)  BY <1>1, <2>2 DEF OpToRel
  <2>4. \A t \in FreeBlocks(m) : s <= t  BY <1>1, <2>3
  <2> QED  BY <1>2, <2>4 DEF New
<1>3. FreeBlocks(m) = {} => New(m) = NULL  BY DEF New
<1> QED  BY <1>1, <1>2, <1>3 DEF FreeBlocks, Ptr0

(* Memory in which only free blocks have changed.                           *)
Grown(m, after) ==
  /\ after \in Mem
  /\ \A q \in Ptrs : m[q] # Free => after[q] = m[q]

(* Calls that change free blocks only can be put one after the other.       *)
LEMMA GrownTwice ==
  ASSUME NEW m, NEW m1, NEW m2, Grown(m, m1), Grown(m1, m2)
  PROVE  Grown(m, m2)
BY DEF Grown

(* Storing into a block that was just allocated, or through NULL.           *)
LEMMA PutGrows ==
  ASSUME NEW m \in Mem, NEW x \in Objects
  PROVE  Grown(m, Put(m, New(m), x))
<1>1. Put(m, New(m), x) \in Mem  BY DEF Put, Mem
<1>2. ASSUME NEW q \in Ptrs, m[q] # Free PROVE Put(m, New(m), x)[q] = m[q]
  <2>1. q # New(m)  BY <1>2, NewIsFree, FilesAssumption DEF Ptrs, NULL
  <2> QED  BY <2>1 DEF Put
<1> QED  BY <1>1, <1>2 DEF Grown

(* Taking the lowest free blocks changes free blocks only.                  *)
LEMMA TakeGrows ==
  ASSUME NEW m \in Mem, NEW n, NEW x \in Objects
  PROVE  /\ Grown(m, Take(m, n, x))
         /\ \A q \in Ptrs : Take(m, n, x)[q] \in {m[q], x}
<1>1. Take(m, n, x) \in [Ptrs -> Objects]
  <2>1. \A q \in Ptrs : m[q] \in Objects  BY DEF Mem
  <2> QED  BY <2>1 DEF Take
<1> QED  BY <1>1 DEF Take, Grown, Mem

(* The components of a path that are found room for are its first ones.     *)
LEMMA PartsOfPath ==
  ASSUME NEW m, NEW path \in Paths
  PROVE  /\ PartsParsed(m, path) \in 0 .. Len(path)
         /\ Len(SubSeq(path, 1, PartsParsed(m, path))) = PartsParsed(m, path)
         /\ PartsParsed(m, path) > 0 => SubSeq(path, 1, PartsParsed(m, path))[1] = path[1]
<1>1. path \in Seq(FileNames \cup DirNames \cup OtherNames)  BY FilesAssumption
<1>2. IsFiniteSet(FreeBlocks(m))
  <2>1. IsFiniteSet(Ptrs)  BY FS_Interval, FilesAssumption DEF Ptrs
  <2> QED  BY <2>1, FS_Subset DEF FreeBlocks
<1>3. FreeBlocks(m) # {} => Cardinality(FreeBlocks(m)) \in Nat \ {0}
  BY <1>2, FS_CardinalityType, FS_EmptySet
<1>4. PartsParsed(m, path) \in 0 .. Len(path)
  BY <1>1, <1>3 DEF PartsParsed
<1> HIDE DEF PartsParsed
<1> QED  BY <1>1, <1>4

-----------------------------------------------------------------------------
(* fat16_open.                                                              *)

(* A subdirectory that could not be read leaves nothing, one that could     *)
(* blocks that nobody knows of.                                             *)
LEMMA LoadGrows ==
  ASSUME NEW m \in Mem, NEW readable
  PROVE  Grown(m, LoadDirectory(m, readable))
<1> DEFINE w == Put(m, New(m), Directory)
<1>1. Grown(m, w)  BY PutGrows, Structures
<1>2. Grown(w, Put(w, New(w), Directory))  BY <1>1, PutGrows, Structures DEF Grown
<1>3. Grown(m, m)  BY DEF Grown
<1> QED  BY <1>1, <1>2, <1>3, GrownTwice DEF LoadDirectory

(* The item goes to block i and the clone, if there is room, to a free one. *)
LEMMA NewItemMade ==
  ASSUME NEW m \in Mem, NEW i \in Ptrs, m[i] = Free, NEW n \in Names, NEW readable
  PROVE  LET m2 == NewItem(m, i, n, readable) IN
         /\ Grown(m, m2)
         /\ \E d \in Ptr0 :
              /\ d # i /\ m2[i] = Item(d)
              /\ d # NULL => m[d] = Free /\ m2[d] = Dirent(n)
              /\ n \notin DirNames => \A q \in Ptrs \ {i, d} : m2[q] = m[q]
<1> DEFINE a == Put(m, i, Item(NULL))
           b == IF n \in DirNames THEN LoadDirectory(a, readable) ELSE a
           d == New(b)
           c == Put(b, d, Dirent(n))
           m2 == NewItem(m, i, n, readable)
<1>1. m2 = Put(c, i, Item(d))  BY DEF NewItem
<1>2. Grown(m, a) /\ a[i] = Item(NULL)
  BY Structures DEF Put, Grown, Mem, Ptr0
<1>3. Grown(a, b) /\ (n \notin DirNames => b = a)
  BY <1>2, LoadGrows DEF Grown
<1>4. Item(NULL) # Free  BY Fields
<1>5. b[i] = Item(NULL) /\ b \in Mem  BY <1>2, <1>3, <1>4 DEF Grown
<1>6. d \in Ptr0 /\ (d # NULL => d \in Ptrs /\ b[d] = Free)  BY NewIsFree
<1>7. d # i
  BY <1>4, <1>5, <1>6, FilesAssumption DEF Ptrs, NULL
<1>8. Grown(b, c)  BY <1>5, PutGrows, Structures
<1> HIDE DEF a, b
<1>9. d # NULL => c[d] = Dirent(n)  BY <1>6 DEF Put
<1>10. \A q \in Ptrs \ {d} : c[q] = b[q]  BY DEF Put
<1> HIDE DEF d, c, m2
<1>11. m2 \in Mem  BY <1>1, <1>6, <1>8, Structures DEF Put, Grown, Mem
<1>12. m2[i] = Item(d) /\ \A q \in Ptrs \ {i} : m2[q] = c[q]  BY <1>1 DEF Put
<1>13. ASSUME NEW q \in Ptrs, m[q] # Free PROVE m2[q] = m[q]
  <2>1. q # i  BY <1>13
  <2>2. a[q] = m[q] /\ b[q] = m[q] /\ c[q] = m[q]  BY <1>2, <1>3, <1>8, <1>13 DEF Grown
  <2> QED  BY <1>12, <2>1, <2>2
<1>14. d # NULL => m[d] = Free
  BY <1>2, <1>3, <1>6 DEF Grown
<1>15. d # NULL => m2[d] = Dirent(n)  BY <1>6, <1>7, <1>9, <1>12
<1>16. n \notin DirNames => \A q \in Ptrs \ {i, d} : m2[q] = m[q]
  <2>1. \A q \in Ptrs \ {i} : a[q] = m[q]  BY DEF a, Put
  <2> QED  BY <1>3, <1>10, <1>12, <2>1
<1> QED  BY <1>6, <1>7, <1>11, <1>12, <1>13, <1>14, <1>15, <1>16 DEF Grown, m2

(* A file or directory that is opened has its private data, item and clone  *)
(* in blocks that were free.                                                *)
LEMMA FatOpenMade ==
  ASSUME NEW m \in Mem, NEW parts, NEW k \in Nat \ {0}, Len(parts) = k, NEW readable
  PROVE  LET o == FatOpen(m, parts, readable) IN
         /\ Grown(m, o.mem)
         /\ o.ptr \in Ptr0
         /\ o.ptr # NULL =>
              \E i \in Ptrs, d \in Ptr0 :
                /\ parts[1] \in Names
                /\ i # o.ptr /\ d # o.ptr /\ d # i
                /\ m[o.ptr] = Free /\ o.mem[o.ptr] = Private(i)
                /\ m[i] = Free /\ o.mem[i] = Item(d)
                /\ d # NULL => m[d] = Free /\ o.mem[d] = Dirent(parts[1])
                /\ parts[1] \notin DirNames => \A q \in Ptrs \ {o.ptr, i, d} : o.mem[q] = m[q]
<1> DEFINE p  == New(m)
           m1 == Put(m, p, Private(NULL))
           i  == New(m1)
           found == parts[1] \in FileNames \cup DirNames /\ i # NULL
           m2 == NewItem(m1, i, parts[1], readable)
           o  == FatOpen(m, parts, readable)
<1>1. p \in Ptr0 /\ (p # NULL => p \in Ptrs /\ m[p] = Free)  BY NewIsFree
<1>2. Grown(m, m1) /\ Grown(m, m)  BY PutGrows, Structures DEF Ptr0, Grown
<1>3. i \in Ptr0 /\ (i # NULL => i \in Ptrs /\ m1[i] = Free)  BY NewIsFree
<1>4. p # NULL => m1[p] = Private(NULL)  BY <1>1 DEF Put
<1>5. Private(NULL) # Free  BY Fields
<1>6. \A q \in Ptrs \ {p} : m1[q] = m[q]  BY DEF Put
<1>7. CASE p = NULL
  <2>0. i = NULL
    <3>1. FreeBlocks(m) = {}  BY <1>7, NewIsFree
    <3>2. NULL \notin Ptrs  BY FilesAssumption DEF Ptrs, NULL
    <3>3. FreeBlocks(m1) = {}  BY <1>7, <3>1, <3>2, <1>6 DEF FreeBlocks
    <3> QED  BY <3>3 DEF New
  <2> HIDE DEF p, m1, i, m2
  <2>1. o = [mem |-> m, ptr |-> NULL]  BY <1>7, <2>0 DEF FatOpen, p, m1, i
  <2> QED  BY <1>2, <2>1 DEF Ptr0
<1>8. CASE p # NULL /\ ~ found
  <2>1. o = [mem |-> m1, ptr |-> NULL]  BY <1>8 DEF FatOpen
  <2> QED  BY <1>2, <2>1 DEF Ptr0
<1>9. CASE p # NULL /\ found
  <2>1. p # i /\ m[i] = Free /\ i \in Ptrs /\ parts[1] \in Names
    BY <1>3, <1>4, <1>5, <1>6, <1>9 DEF Names
  <2>2. m1 \in Mem /\ m1[i] = Free /\ m1[p] = Private(NULL) /\ p \in Ptrs
    BY <1>1, <1>2, <1>3, <1>4, <1>9 DEF Grown
  <2> HIDE DEF m1, i, p
  <2>3. /\ Grown(m1, m2)
        /\ \E d \in Ptr0 :
             /\ d # i /\ m2[i] = Item(d)
             /\ d # NULL => m1[d] = Free /\ m2[d] = Dirent(parts[1])
             /\ parts[1] \notin DirNames => \A q \in Ptrs \ {i, d} : m2[q] = m1[q]
    BY <2>1, <2>2, NewItemMade
  <2>4. PICK d \in Ptr0 :
          /\ d # i /\ m2[i] = Item(d)
          /\ d # NULL => m1[d] = Free /\ m2[d] = Dirent(parts[1])
          /\ parts[1] \notin DirNames => \A q \in Ptrs \ {i, d} : m2[q] = m1[q]
    BY <2>3
  <2>5. d # p
    BY <1>5, <2>2, <2>4, FilesAssumption DEF Ptrs, NULL
  <2>6. Grown(m, m2)  BY <1>2, <2>3, GrownTwice
  <2>7. CASE k > 1
    <3>0. k # 1  BY <2>7
    <3>1. o = [mem |-> m2, ptr |-> NULL]  BY <1>9, <2>7, <3>0 DEF FatOpen, m1, i, p
    <3> QED  BY <2>6, <3>1 DEF Ptr0
  <2>8. CASE k = 1
    <3> DEFINE m3 == Put(m2, p, Private(i))
    <3>1. o = [mem |-> m3, ptr |-> p]  BY <1>9, <2>8 DEF FatOpen, m1, i, p
    <3>2. m3 \in Mem
      <4>1. Private(i) \in Objects  BY <2>1, Structures DEF Ptr0
      <4> QED  BY <2>3, <4>1 DEF Put, Mem, Grown
    <3>3. m3[p] = Private(i) /\ \A q \in Ptrs \ {p} : m3[q] = m2[q]  BY <2>2 DEF Put
    <3> HIDE DEF m2, m3
    <3>4. Grown(m, m3)
      <4>1. m[p] = Free  BY <1>1, <1>9
      <4> QED  BY <2>6, <3>2, <3>3, <4>1 DEF Grown
    <3>5. m[p] = Free  BY <1>1, <1>9
    <3>6. m3[i] = Item(d)  BY <2>1, <2>4, <3>3
    <3>7. d # NULL => m[d] = Free /\ m3[d] = Dirent(parts[1])
      <4>1. d # NULL => d \in Ptrs \ {p}  BY <2>5 DEF Ptr0
      <4> QED  BY <1>6, <2>4, <3>3, <4>1
    <3>8. parts[1] \notin DirNames => \A q \in Ptrs \ {p, i, d} : m3[q] = m[q]
      BY <1>6, <2>4, <3>3
    <3>9. o.mem = m3 /\ o.ptr = p  BY <3>1
    <3> HIDE DEF o
    <3>10. \E ii \in Ptrs, dd \in Ptr0 :
             /\ parts[1] \in Names
             /\ ii # p /\ dd # p /\ dd # ii
             /\ m[p] = Free /\ m3[p] = Private(ii)
             /\ m[ii] = Free /\ m3[ii] = Item(dd)
             /\ dd # NULL => m[dd] = Free /\ m3[dd] = Dirent(parts[1])
             /\ parts[1] \notin DirNames => \A q \in Ptrs \ {p, ii, dd} : m3[q] = m[q]
      BY <2>1, <2>4, <2>5, <3>3, <3>5, <3>6, <3>7, <3>8
    <3> QED  BY <1>1, <3>4, <3>9, <3>10 DEF o
  <2>9. k > 1 \/ k = 1  OBVIOUS
  <2> QED  BY <2>7, <2>8, <2>9
<1> QED  BY <1>7, <1>8, <1>9

-----------------------------------------------------------------------------
(* Chains, of a memory and a descriptor's block.                            *)

ChainOf(m, d) ==
  LET p == m[d].private
  IN  {d, p, m[p].item, m[m[p].item].dirent} \ {NULL}

TargetOf(m, d) ==
  LET c == m[m[m[d].private].item].dirent
  IN  IF c = NULL \/ m[c].kind # "dirent" THEN NoName ELSE m[c].name

(* The block d is the descriptor of slot s and leads to p, i and c.         *)
LinkedTo(m, s, d, p, i, c) ==
  /\ d \in Ptrs /\ p \in Ptrs /\ i \in Ptrs /\ c \in Ptr0
  /\ m[d].kind = "desc" /\ m[d].index = s /\ m[d].private = p
  /\ m[p].kind = "private" /\ m[p].item = i
  /\ m[i].kind = "item" /\ m[i].dirent = c
  /\ c # NULL => m[c].kind = "dirent"

Sound(m, s, d) == \E p, i \in Ptrs, c \in Ptr0 : LinkedTo(m, s, d, p, i, c)

(* NULL is not the address of a block.                                      *)
LEMMA NullIsNoBlock == NULL \notin Ptrs /\ Ptr0 \ {NULL} = Ptrs
BY FilesAssumption DEF Ptrs, Ptr0, NULL

(* What a chain consists of, and what it leads to.                          *)
LEMMA ChainBlocks ==
  ASSUME NEW m, NEW s, NEW d, NEW p, NEW i, NEW c, LinkedTo(m, s, d, p, i, c)
  PROVE  /\ ChainOf(m, d) = {d, p, i, c} \ {NULL}
         /\ ChainOf(m, d) = {d, p, i} \cup ({c} \ {NULL})
         /\ ChainOf(m, d) \subseteq Ptrs
         /\ \A q \in ChainOf(m, d) : m[q].kind # "free"
         /\ TargetOf(m, d) = IF c = NULL THEN NoName ELSE m[c].name
<1>1. ChainOf(m, d) = {d, p, i, c} \ {NULL}  BY DEF ChainOf, LinkedTo
<1>2. {d, p, i} \subseteq Ptrs /\ c \in Ptr0  BY DEF LinkedTo
<1>3. ChainOf(m, d) = {d, p, i} \cup ({c} \ {NULL})  BY <1>1, <1>2, NullIsNoBlock
<1>4. \A q \in ChainOf(m, d) : m[q].kind # "free"  BY <1>3 DEF LinkedTo
<1> QED  BY <1>1, <1>2, <1>3, <1>4, NullIsNoBlock DEF TargetOf, LinkedTo

(* A chain none of whose blocks has changed is the chain it was.            *)
LEMMA ChainKept ==
  ASSUME NEW m, NEW m2, NEW s, NEW d, Sound(m, s, d),
         \A q \in ChainOf(m, d) : m2[q] = m[q]
  PROVE  /\ Sound(m2, s, d)
         /\ ChainOf(m2, d) = ChainOf(m, d)
         /\ TargetOf(m2, d) = TargetOf(m, d)
<1>1. PICK p \in Ptrs, i \in Ptrs, c \in Ptr0 : LinkedTo(m, s, d, p, i, c)  BY DEF Sound
<1>2. ChainOf(m, d) = {d, p, i} \cup ({c} \ {NULL})  BY <1>1, ChainBlocks
<1>3. m2[d] = m[d] /\ m2[p] = m[p] /\ m2[i] = m[i] /\ (c # NULL => m2[c] = m[c])  BY <1>2
<1>4. LinkedTo(m2, s, d, p, i, c)  BY <1>1, <1>3 DEF LinkedTo
<1> QED  BY <1>1, <1>3, <1>4, ChainBlocks DEF Sound

(* The blocks of a sound chain are blocks in use.                           *)
LEMMA SoundBlocks ==
  ASSUME NEW m, NEW s, NEW d, Sound(m, s, d)
  PROVE  ChainOf(m, d) \subseteq Ptrs /\ d \in ChainOf(m, d)
         /\ \A q \in ChainOf(m, d) : m[q].kind # "free"
<1>1. PICK p \in Ptrs, i \in Ptrs, c \in Ptr0 : LinkedTo(m, s, d, p, i, c)  BY DEF Sound
<1>2. ChainOf(m, d) = {d, p, i} \cup ({c} \ {NULL})  BY <1>1, ChainBlocks
<1> QED  BY <1>1, <1>2, ChainBlocks

(* What ChainsSound says of a slot.                                         *)
Shaped(m, s, d) ==
  /\ m[d].kind = "desc" /\ m[d].index = s
  /\ m[m[d].private].kind = "private"
  /\ m[m[d].private].item # NULL
  /\ m[m[m[d].private].item].kind = "item"
  /\ \/ m[m[m[d].private].item].dirent = NULL
     \/ m[m[m[m[d].private].item].dirent].kind = "dirent"

(* For well-typed memory that is to say that the slot is sound.             *)
LEMMA SoundForm ==
  ASSUME NEW m \in Mem, NEW s, NEW d \in Ptrs
  PROVE  Sound(m, s, d) <=> Shaped(m, s, d)
<1>1. ASSUME Sound(m, s, d) PROVE Shaped(m, s, d)
  <2>1. PICK p \in Ptrs, i \in Ptrs, c \in Ptr0 : LinkedTo(m, s, d, p, i, c)
    BY <1>1, Zenon DEF Sound
  <2>2. /\ m[d].private = p /\ m[p].item = i /\ m[i].dirent = c
        /\ m[d].kind = "desc" /\ m[d].index = s /\ m[p].kind = "private"
        /\ m[i].kind = "item" /\ (c # NULL => m[c].kind = "dirent")
    BY <2>1 DEF LinkedTo
  <2>3. i # NULL  BY <2>1, NullIsNoBlock
  <2> QED  BY <2>2, <2>3 DEF Shaped
<1>2. ASSUME Shaped(m, s, d) PROVE Sound(m, s, d)
  <2> DEFINE p == m[d].private
             i == m[p].item
             c == m[i].dirent
  <2>1. /\ m[d].kind = "desc" /\ m[d].index = s /\ m[d].private = p
        /\ m[p].kind = "private" /\ m[p].item = i /\ i # NULL
        /\ m[i].kind = "item" /\ m[i].dirent = c /\ (c # NULL => m[c].kind = "dirent")
    BY <1>2 DEF Shaped
  <2> HIDE DEF p, i, c
  <2>2. \A q \in Ptrs : m[q] \in Objects  BY Zenon DEF Mem
  <2>3. p \in Ptrs  BY <2>1, <2>2, Kinds
  <2>4. i \in Ptrs
    <3>1. i \in Ptr0  BY <2>1, <2>2, <2>3, Kinds
    <3> QED  BY <2>1, <3>1 DEF Ptr0
  <2>5. c \in Ptr0  BY <2>1, <2>2, <2>4, Kinds
  <2>6. LinkedTo(m, s, d, p, i, c)  BY <2>1, <2>3, <2>4, <2>5 DEF LinkedTo
  <2> QED  BY <2>3, <2>4, <2>5, <2>6, Zenon DEF Sound
<1> QED  BY <1>1, <1>2

-----------------------------------------------------------------------------
(* The invariant, by its parts.                                             *)

Inv == TypeOK /\ ChainsSound /\ ChainsDisjoint /\ NoSlotLeaked /\ OnlyPathsLost

(* The same, in terms of the operators above.                               *)
InvOf(m, f, h, t) ==
  LET open == {i \in Fds : f[i] # NULL}
  IN  /\ m \in Mem /\ f \in [Fds -> Ptr0] /\ h \subseteq Fds /\ t \in BOOLEAN
      /\ \A s \in open : Sound(m, s, f[s])
      /\ \A i, j \in open : i # j => ChainOf(m, f[i]) \cap ChainOf(m, f[j]) = {}
      /\ open \subseteq h
      /\ t => \A q \in Ptrs : \/ m[q].kind = "free" \/ m[q] = Path
                              \/ \E s \in open : q \in ChainOf(m, f[s])

(* The invariant as one of memory, slots, handles and history.              *)
LEMMA InvForm == Inv <=> InvOf(mem, fds, handles, tidy)
<1>1. TypeOK <=> /\ mem \in Mem /\ fds \in [Fds -> Ptr0]
                 /\ handles \subseteq Fds /\ tidy \in BOOLEAN
  BY DEF TypeOK, Mem
<1>2. \A s \in OpenFds : Chain(s) = ChainOf(mem, fds[s])  BY DEF Chain, ChainOf
<1>3. ChainsDisjoint <=>
        \A i, j \in OpenFds : i # j => ChainOf(mem, fds[i]) \cap ChainOf(mem, fds[j]) = {}
  BY <1>2 DEF ChainsDisjoint
<1>4. ASSUME TypeOK
      PROVE  ChainsSound <=> \A s \in OpenFds : Sound(mem, s, fds[s])
  <2>1. \A s \in OpenFds : fds[s] \in Ptrs /\ mem \in Mem
    BY <1>1, <1>4, NullIsNoBlock DEF OpenFds
  <2>2. ChainsSound <=> \A s \in OpenFds : Shaped(mem, s, fds[s])
    BY Zenon DEF ChainsSound, Shaped
  <2>3. ASSUME NEW s \in OpenFds PROVE Sound(mem, s, fds[s]) <=> Shaped(mem, s, fds[s])
    BY <2>1, SoundForm, Zenon
  <2> QED  BY <2>2, <2>3, Zenon
<1>5. OnlyPathsLost <=>
        (tidy => \A q \in Ptrs : \/ mem[q].kind = "free" \/ mem[q] = Path
                                 \/ \E s \in OpenFds : q \in ChainOf(mem, fds[s]))
  BY <1>2 DEF OnlyPathsLost, Garbage
<1> QED
  BY <1>1, <1>3, <1>4, <1>5 DEF Inv, InvOf, NoSlotLeaked, OpenFds

(* The same in the next state.                                              *)
LEMMA InvFormNext == Inv' <=> InvOf(mem', fds', handles', tidy')
<1>1. Inv' <=> InvOf(mem, fds, handles, tidy)'  BY InvForm, PTL
<1> QED  BY <1>1

-----------------------------------------------------------------------------
(* What the three kinds of steps do to the invariant.                       *)

GarbageOf(m, f) ==
  {q \in Ptrs : m[q].kind # "free" /\ ~ \E s \in Fds : f[s] # NULL /\ q \in ChainOf(m, f[s])}

BindingOf(m, f) == [s \in Fds |-> IF f[s] = NULL THEN NULL ELSE TargetOf(m, f[s])]

(* Growing leaves every chain as it was.                                    *)
LEMMA GrownChain ==
  ASSUME NEW m, NEW f, NEW h, NEW t, InvOf(m, f, h, t), NEW m2, Grown(m, m2),
         NEW s \in Fds, f[s] # NULL
  PROVE  /\ Sound(m2, s, f[s])
         /\ ChainOf(m2, f[s]) = ChainOf(m, f[s])
         /\ TargetOf(m2, f[s]) = TargetOf(m, f[s])
         /\ \A q \in ChainOf(m, f[s]) : q \in Ptrs /\ m[q].kind # "free" /\ m[q] # Free
<1>1. Sound(m, s, f[s])  BY DEF InvOf
<1>2. \A q \in ChainOf(m, f[s]) : q \in Ptrs /\ m[q].kind # "free" /\ m[q] # Free
  BY <1>1, SoundBlocks, Fields
<1>3. \A q \in ChainOf(m, f[s]) : m2[q] = m[q]  BY <1>2 DEF Grown
<1> QED  BY <1>1, <1>2, <1>3, ChainKept

(* A call that takes blocks and opens nothing.                              *)
LEMMA Stays ==
  ASSUME NEW m, NEW f, NEW h, NEW t, InvOf(m, f, h, t), NEW m2, Grown(m, m2),
         NEW h2, h \subseteq h2, h2 \subseteq Fds, NEW t2 \in BOOLEAN,
         t2 => t /\ \A q \in Ptrs : m2[q] \in {m[q], Path}
  PROVE  /\ InvOf(m2, f, h2, t2)
         /\ GarbageOf(m, f) \subseteq GarbageOf(m2, f)
         /\ BindingOf(m2, f) = BindingOf(m, f)
<1> DEFINE open == {i \in Fds : f[i] # NULL}
<1>1. \A s \in open : /\ Sound(m2, s, f[s])
                      /\ ChainOf(m2, f[s]) = ChainOf(m, f[s])
                      /\ TargetOf(m2, f[s]) = TargetOf(m, f[s])
  BY GrownChain
<1>2. m2 \in Mem /\ f \in [Fds -> Ptr0]  BY DEF Grown, InvOf
<1>3. \A i, j \in open : i # j => ChainOf(m2, f[i]) \cap ChainOf(m2, f[j]) = {}
  BY <1>1 DEF InvOf
<1>4. open \subseteq h2  BY DEF InvOf
<1>5. ASSUME t2, NEW q \in Ptrs
      PROVE  \/ m2[q].kind = "free" \/ m2[q] = Path
             \/ \E s \in open : q \in ChainOf(m2, f[s])
  <2>1. t /\ m2[q] \in {m[q], Path}  BY <1>5
  <2>2. \/ m[q].kind = "free" \/ m[q] = Path
        \/ \E s \in open : q \in ChainOf(m, f[s])
    BY <2>1 DEF InvOf
  <2> QED  BY <1>1, <2>1, <2>2
<1>6. InvOf(m2, f, h2, t2)  BY <1>1, <1>2, <1>3, <1>4, <1>5 DEF InvOf
<1>7. GarbageOf(m, f) \subseteq GarbageOf(m2, f)
  <2>1. ASSUME NEW q \in GarbageOf(m, f) PROVE q \in GarbageOf(m2, f)
    <3>1. q \in Ptrs /\ m[q].kind # "free"  BY DEF GarbageOf
    <3>2. m2[q] = m[q]  BY <3>1, Fields DEF Grown
    <3>3. \A s \in Fds : f[s] # NULL => q \notin ChainOf(m2, f[s])  BY <1>1 DEF GarbageOf
    <3> QED  BY <3>1, <3>2, <3>3 DEF GarbageOf
  <2> QED  BY <2>1
<1>8. BindingOf(m2, f) = BindingOf(m, f)  BY <1>1 DEF BindingOf
<1> QED  BY <1>6, <1>7, <1>8

(* A slot or a binding is changed.                                          *)
Assign(f, s, x) == [f EXCEPT ![s] = x]

(* A call that opens slot s on blocks that were free.                       *)
LEMMA Opens ==
  ASSUME NEW m, NEW f, NEW h, NEW t, InvOf(m, f, h, t), NEW m2, Grown(m, m2),
         NEW s \in Fds, f[s] = NULL,
         NEW d, NEW p, NEW i, NEW c, LinkedTo(m2, s, d, p, i, c),
         \A q \in ChainOf(m2, d) : m[q] = Free,
         NEW f2, f2 = Assign(f, s, d), NEW h2, h2 = h \cup {s}, NEW t2 \in BOOLEAN,
         t2 => t /\ \A q \in Ptrs \ ChainOf(m2, d) : m2[q] \in {m[q], Path}
  PROVE  /\ InvOf(m2, f2, h2, t2)
         /\ GarbageOf(m, f) \subseteq GarbageOf(m2, f2)
         /\ TargetOf(m2, d) \in Names \cup {NoName}
         /\ BindingOf(m2, f2) = Assign(BindingOf(m, f), s, TargetOf(m2, d))
<1> DEFINE open  == {j \in Fds : f[j] # NULL}
           open2 == {j \in Fds : f2[j] # NULL}
<1>1. \A j \in open : /\ Sound(m2, j, f[j])
                      /\ ChainOf(m2, f[j]) = ChainOf(m, f[j])
                      /\ TargetOf(m2, f[j]) = TargetOf(m, f[j])
                      /\ \A q \in ChainOf(m, f[j]) : m[q] # Free
  BY GrownChain
<1>2. m2 \in Mem /\ f \in [Fds -> Ptr0]  BY DEF Grown, InvOf
<1>3. d \in Ptrs /\ p \in Ptrs /\ i \in Ptrs /\ c \in Ptr0  BY DEF LinkedTo
<1>4. d # NULL /\ f2 \in [Fds -> Ptr0] /\ f2[s] = d /\ \A j \in Fds \ {s} : f2[j] = f[j]
  BY <1>2, <1>3, NullIsNoBlock DEF Assign
<1>5. open2 = open \cup {s} /\ s \notin open  BY <1>4
<1>6. Sound(m2, s, d)  BY <1>3 DEF Sound
<1>7. \A j \in open2 : Sound(m2, j, f2[j])  BY <1>1, <1>4, <1>5, <1>6
<1>8. ASSUME NEW j \in open2, NEW k \in open2, j # k
      PROVE  ChainOf(m2, f2[j]) \cap ChainOf(m2, f2[k]) = {}
  <2>1. ASSUME NEW l \in open PROVE ChainOf(m2, f2[l]) \cap ChainOf(m2, d) = {}
    <3>1. f2[l] = f[l]  BY <1>4, <1>5
    <3> QED  BY <1>1, <3>1
  <2>2. CASE j = s  BY <1>4, <1>5, <1>8, <2>1, <2>2
  <2>3. CASE k = s  BY <1>4, <1>5, <1>8, <2>1, <2>3
  <2>4. CASE j \in open /\ k \in open
    <3>1. f2[j] = f[j] /\ f2[k] = f[k]  BY <1>4, <1>5, <2>4
    <3>2. ChainOf(m, f[j]) \cap ChainOf(m, f[k]) = {}  BY <1>8, <2>4 DEF InvOf
    <3> QED  BY <1>1, <2>4, <3>1, <3>2
  <2> QED  BY <1>5, <2>2, <2>3, <2>4
<1>9. open2 \subseteq h2 /\ h2 \subseteq Fds  BY <1>5 DEF InvOf
<1>10. ASSUME t2, NEW q \in Ptrs
       PROVE  \/ m2[q].kind = "free" \/ m2[q] = Path
              \/ \E j \in open2 : q \in ChainOf(m2, f2[j])
  <2>1. CASE q \in ChainOf(m2, d)  BY <1>4, <1>5, <2>1
  <2>2. CASE q \notin ChainOf(m2, d)
    <3>1. t /\ m2[q] \in {m[q], Path}  BY <1>10, <2>2
    <3>2. \/ m[q].kind = "free" \/ m[q] = Path
          \/ \E j \in open : q \in ChainOf(m, f[j])
      BY <3>1 DEF InvOf
    <3>3. \A j \in open : j \in open2 /\ ChainOf(m2, f2[j]) = ChainOf(m, f[j])
      BY <1>1, <1>4, <1>5
    <3> QED  BY <3>1, <3>2, <3>3
  <2> QED  BY <2>1, <2>2
<1>11. InvOf(m2, f2, h2, t2)
  BY <1>2, <1>4, <1>7, <1>8, <1>9, <1>10 DEF InvOf
<1>12. GarbageOf(m, f) \subseteq GarbageOf(m2, f2)
  <2>1. ASSUME NEW q \in GarbageOf(m, f) PROVE q \in GarbageOf(m2, f2)
    <3>1. q \in Ptrs /\ m[q].kind # "free"  BY DEF GarbageOf
    <3>2. m[q] # Free  BY <3>1, Fields
    <3>3. m2[q] = m[q]  BY <3>1, <3>2 DEF Grown
    <3>4. q \notin ChainOf(m2, d)  BY <3>2
    <3>5. \A j \in open : q \notin ChainOf(m2, f[j])  BY <1>1 DEF GarbageOf
    <3>6. \A j \in Fds : f2[j] # NULL => q \notin ChainOf(m2, f2[j])
      BY <1>4, <1>5, <3>4, <3>5
    <3> QED  BY <3>1, <3>3, <3>6 DEF GarbageOf
  <2> QED  BY <2>1
<1>13. TargetOf(m2, d) \in Names \cup {NoName}
  <2>1. TargetOf(m2, d) = IF c = NULL THEN NoName ELSE m2[c].name  BY ChainBlocks
  <2>2. ASSUME c # NULL PROVE m2[c].name \in Names
    <3>1. m2[c].kind = "dirent" /\ m2[c] \in Objects
      BY <1>2, <1>3, <2>2, NullIsNoBlock DEF LinkedTo, Mem
    <3> QED  BY <3>1, Kinds
  <2> QED  BY <2>1, <2>2
<1>14. BindingOf(m2, f2) = Assign(BindingOf(m, f), s, TargetOf(m2, d))
  <2>1. \A j \in Fds \ {s} : (IF f2[j] = NULL THEN NULL ELSE TargetOf(m2, f2[j]))
                             = (IF f[j] = NULL THEN NULL ELSE TargetOf(m, f[j]))
    BY <1>1, <1>4
  <2> QED  BY <1>4, <2>1 DEF BindingOf, Assign
<1> QED  BY <1>11, <1>12, <1>13, <1>14

(* A call that frees the blocks of slot s and clears it.                    *)
LEMMA Closes ==
  ASSUME NEW m, NEW f, NEW h, NEW t, InvOf(m, f, h, t), NEW s \in Fds, f[s] # NULL,
         NEW m2, m2 = Kfree(m, ChainOf(m, f[s])), NEW f2, f2 = Assign(f, s, NULL),
         NEW h2, h2 = h \ {s}
  PROVE  /\ InvOf(m2, f2, h2, t)
         /\ GarbageOf(m, f) \subseteq GarbageOf(m2, f2)
         /\ BindingOf(m, f)[s] # NULL
         /\ BindingOf(m2, f2) = Assign(BindingOf(m, f), s, NULL)
<1> DEFINE open  == {j \in Fds : f[j] # NULL}
           open2 == {j \in Fds : f2[j] # NULL}
           gone  == ChainOf(m, f[s])
<1>1. m \in Mem /\ f \in [Fds -> Ptr0] /\ s \in open  BY DEF InvOf
<1>2. m2 \in Mem /\ \A q \in Ptrs : m2[q] = IF q \in gone THEN Free ELSE m[q]
  BY <1>1, Structures DEF Kfree, Mem
<1>3. f2 \in [Fds -> Ptr0] /\ f2[s] = NULL /\ \A j \in Fds \ {s} : f2[j] = f[j]
  BY <1>1 DEF Ptr0, Assign
<1>4. open2 = open \ {s}  BY <1>3
<1>5. \A j \in open : Sound(m, j, f[j])  BY DEF InvOf
<1>6. \A j, k \in open : j # k => ChainOf(m, f[j]) \cap ChainOf(m, f[k]) = {}  BY DEF InvOf
<1>7. ASSUME NEW j \in open2
      PROVE  /\ Sound(m2, j, f2[j])
             /\ ChainOf(m2, f2[j]) = ChainOf(m, f[j])
             /\ TargetOf(m2, f2[j]) = TargetOf(m, f[j])
  <2>1. j \in open /\ j # s /\ f2[j] = f[j]  BY <1>3, <1>4
  <2>2. ChainOf(m, f[j]) \cap gone = {}  BY <1>1, <1>6, <2>1
  <2>3. ChainOf(m, f[j]) \subseteq Ptrs  BY <1>5, <2>1, SoundBlocks
  <2>4. \A q \in ChainOf(m, f[j]) : m2[q] = m[q]  BY <1>2, <2>2, <2>3
  <2>5. Sound(m, j, f[j])  BY <1>5, <2>1
  <2> HIDE DEF gone
  <2> QED  BY <2>1, <2>4, <2>5, ChainKept
<1>8. \A j, k \in open2 : j # k => ChainOf(m2, f2[j]) \cap ChainOf(m2, f2[k]) = {}
  BY <1>4, <1>6, <1>7
<1>9. open2 \subseteq h2 /\ h2 \subseteq Fds  BY <1>4 DEF InvOf
<1>10. ASSUME t, NEW q \in Ptrs
       PROVE  \/ m2[q].kind = "free" \/ m2[q] = Path
              \/ \E j \in open2 : q \in ChainOf(m2, f2[j])
  <2>1. CASE q \in gone  BY <1>2, <2>1, Fields
  <2>2. CASE q \notin gone
    <3>1. m2[q] = m[q]  BY <1>2, <2>2
    <3>2. \/ m[q].kind = "free" \/ m[q] = Path
          \/ \E j \in open : q \in ChainOf(m, f[j])
      BY <1>10 DEF InvOf
    <3>3. \A j \in open : q \in ChainOf(m, f[j]) => j \in open2 /\ q \in ChainOf(m2, f2[j])
      BY <1>4, <1>7, <2>2
    <3> QED  BY <3>1, <3>2, <3>3
  <2> QED  BY <2>1, <2>2
<1>11. t \in BOOLEAN  BY DEF InvOf
<1>12. InvOf(m2, f2, h2, t)
  <2> HIDE DEF gone
  <2> QED  BY <1>2, <1>3, <1>7, <1>8, <1>9, <1>10, <1>11 DEF InvOf
<1>13. GarbageOf(m, f) \subseteq GarbageOf(m2, f2)
  <2>1. ASSUME NEW q \in GarbageOf(m, f) PROVE q \in GarbageOf(m2, f2)
    <3>1. q \in Ptrs /\ m[q].kind # "free" /\ \A j \in open : q \notin ChainOf(m, f[j])
      BY DEF GarbageOf
    <3>2. m2[q] = m[q]  BY <1>1, <1>2, <3>1
    <3>3. \A j \in Fds : f2[j] # NULL => q \notin ChainOf(m2, f2[j])
      BY <1>4, <1>7, <3>1
    <3> QED  BY <3>1, <3>2, <3>3 DEF GarbageOf
  <2> QED  BY <2>1
<1>14. BindingOf(m, f)[s] # NULL
  <2>1. PICK p \in Ptrs, i \in Ptrs, c \in Ptr0 : LinkedTo(m, s, f[s], p, i, c)
    BY <1>1, <1>5 DEF Sound
  <2>2. TargetOf(m, f[s]) = IF c = NULL THEN NoName ELSE m[c].name  BY <2>1, ChainBlocks
  <2>3. ASSUME c # NULL PROVE m[c].name \in Names
    <3>1. m[c].kind = "dirent" /\ m[c] \in Objects
      BY <1>1, <2>1, <2>3, NullIsNoBlock DEF LinkedTo, Mem
    <3> QED  BY <3>1, Kinds
  <2>4. NULL \notin Names \cup {NoName}  BY FilesAssumption DEF Names, NULL
  <2> QED  BY <1>1, <2>2, <2>3, <2>4 DEF BindingOf
<1>15. BindingOf(m2, f2) = Assign(BindingOf(m, f), s, NULL)
  <2>1. \A j \in Fds \ {s} : (IF f2[j] = NULL THEN NULL ELSE TargetOf(m2, f2[j]))
                             = (IF f[j] = NULL THEN NULL ELSE TargetOf(m, f[j]))
    BY <1>3, <1>4, <1>7
  <2> QED  BY <1>3, <2>1 DEF BindingOf, Assign
<1> QED  BY <1>12, <1>13, <1>14, <1>15

-----------------------------------------------------------------------------
(* The steps.                                                               *)

(* file_new_descriptor returns an empty slot, if there is one.              *)
LEMMA SlotIsEmpty ==
  ASSUME EmptySlots # {}
  PROVE  Slot \in Fds /\ fds[Slot] = NULL
<1>1. EmptySlots \subseteq Nat  BY FilesAssumption DEF EmptySlots, Fds
<1>2. \E s \in EmptySlots : \A r \in EmptySlots : ~ (<<r, s>> \in OpToRel(<, Nat))
  BY <1>1, NatLessThanWellFounded, WFMin
<1>3. PICK s \in EmptySlots : \A r \in EmptySlots : ~ (<<r, s>> \in OpToRel(<, Nat))
  BY <1>2
<1>4. \A r \in EmptySlots : ~ (r < s)  BY <1>1, <1>3 DEF OpToRel
<1>5. \A r \in EmptySlots : s <= r  BY <1>1, <1>4
<1>6. Slot \in EmptySlots  BY <1>5 DEF Slot
<1> QED  BY <1>6 DEF EmptySlots

(* The path of an fopen takes free blocks only,                             *)
LEMMA ParsedGrows ==
  ASSUME mem \in Mem, NEW path
  PROVE  /\ Grown(mem, Parsed(mem, path))
         /\ \A q \in Ptrs : Parsed(mem, path)[q] \in {mem[q], Path}
BY TakeGrows, Structures DEF Parsed

(* and so does what it opens.                                               *)
LEMMA OpenedGrows ==
  ASSUME mem \in Mem, NEW path \in Paths, PartsParsed(mem, path) > 0, NEW readable
  PROVE  LET o == Opened(path, readable) IN
         /\ Grown(mem, o.mem)
         /\ o.ptr \in Ptr0
         /\ o.ptr # NULL =>
              \E i \in Ptrs, d \in Ptr0 :
                /\ i # o.ptr /\ d # o.ptr /\ d # i
                /\ mem[o.ptr] = Free /\ o.mem[o.ptr] = Private(i)
                /\ mem[i] = Free /\ o.mem[i] = Item(d)
                /\ d # NULL => mem[d] = Free /\ o.mem[d].kind = "dirent"
                /\ path[1] \notin DirNames =>
                     \A q \in Ptrs \ {o.ptr, i, d} : o.mem[q] \in {mem[q], Path}
<1> DEFINE m == Parsed(mem, path)
           parts == SubSeq(path, 1, PartsParsed(mem, path))
           o == FatOpen(m, parts, readable)
<1>1. Grown(mem, m) /\ \A q \in Ptrs : m[q] \in {mem[q], Path}  BY ParsedGrows
<1>2. parts[1] = path[1] /\ PartsParsed(mem, path) \in Nat \ {0}
      /\ Len(parts) = PartsParsed(mem, path)
  <2>1. Len(path) \in Nat
    <3>1. path \in Seq(FileNames \cup DirNames \cup OtherNames)  BY FilesAssumption
    <3> QED  BY <3>1
  <2> QED  BY <2>1, PartsOfPath
<1>3. m \in Mem  BY <1>1 DEF Grown
<1> HIDE DEF m, parts
<1>4. /\ Grown(m, o.mem)
      /\ o.ptr \in Ptr0
      /\ o.ptr # NULL =>
           \E i \in Ptrs, d \in Ptr0 :
             /\ parts[1] \in Names
             /\ i # o.ptr /\ d # o.ptr /\ d # i
             /\ m[o.ptr] = Free /\ o.mem[o.ptr] = Private(i)
             /\ m[i] = Free /\ o.mem[i] = Item(d)
             /\ d # NULL => m[d] = Free /\ o.mem[d] = Dirent(parts[1])
             /\ parts[1] \notin DirNames => \A q \in Ptrs \ {o.ptr, i, d} : o.mem[q] = m[q]
  BY <1>2, <1>3, FatOpenMade
<1>5. o = Opened(path, readable)  BY DEF Opened, m, parts
<1> HIDE DEF o
<1>6. \A q \in Ptrs : m[q] = Free => mem[q] = Free  BY <1>1 DEF Grown
<1>7. Grown(mem, o.mem)  BY <1>1, <1>4, GrownTwice
<1>8. ASSUME o.ptr # NULL
      PROVE  \E i \in Ptrs, d \in Ptr0 :
               /\ i # o.ptr /\ d # o.ptr /\ d # i
               /\ mem[o.ptr] = Free /\ o.mem[o.ptr] = Private(i)
               /\ mem[i] = Free /\ o.mem[i] = Item(d)
               /\ d # NULL => mem[d] = Free /\ o.mem[d].kind = "dirent"
               /\ path[1] \notin DirNames =>
                    \A q \in Ptrs \ {o.ptr, i, d} : o.mem[q] \in {mem[q], Path}
  <2>1. PICK i \in Ptrs, d \in Ptr0 :
          /\ i # o.ptr /\ d # o.ptr /\ d # i
          /\ m[o.ptr] = Free /\ o.mem[o.ptr] = Private(i)
          /\ m[i] = Free /\ o.mem[i] = Item(d)
          /\ d # NULL => m[d] = Free /\ o.mem[d] = Dirent(parts[1])
          /\ parts[1] \notin DirNames => \A q \in Ptrs \ {o.ptr, i, d} : o.mem[q] = m[q]
    BY <1>4, <1>8
  <2>2. o.ptr \in Ptrs  BY <1>4, <1>8, NullIsNoBlock
  <2>3. mem[o.ptr] = Free /\ mem[i] = Free  BY <1>6, <2>1, <2>2
  <2>4. d # NULL => mem[d] = Free /\ o.mem[d].kind = "dirent"
    BY <1>6, <2>1, Fields, NullIsNoBlock
  <2>5. path[1] \notin DirNames => \A q \in Ptrs \ {o.ptr, i, d} : o.mem[q] \in {mem[q], Path}
    BY <1>1, <1>2, <2>1
  <2> QED  BY <2>1, <2>3, <2>4, <2>5
<1> QED  BY <1>4, <1>5, <1>7, <1>8

(* The state of the handles, before and after.                              *)
Binding == BindingOf(mem, fds)

(* One slot at most is bound or unbound.                                    *)
Rebinds(b, c) ==
  \/ c = b
  \/ \E s \in Fds, x \in Names \cup {NoName} : b[s] = NULL /\ c = Assign(b, s, x)
  \/ \E s \in Fds : b[s] # NULL /\ c = Assign(b, s, NULL)

Step == Inv' /\ Garbage \subseteq Garbage' /\ Rebinds(Binding, Binding')

(* What is lost, in terms of memory and slots.                              *)
LEMMA GarbageForm == Garbage = GarbageOf(mem, fds)
<1>1. \A s \in Fds : Chain(s) = ChainOf(mem, fds[s])  BY Zenon DEF Chain, ChainOf
<1> QED  BY <1>1 DEF Garbage, GarbageOf, OpenFds

(* A step from what it does to memory, slots and history.                   *)
LEMMA StepForm ==
  ASSUME InvOf(mem', fds', handles', tidy'),
         GarbageOf(mem, fds) \subseteq GarbageOf(mem', fds'),
         Rebinds(BindingOf(mem, fds), BindingOf(mem', fds'))
  PROVE  Step
<1>1. Inv'  BY InvFormNext, Zenon
<1>2. Garbage = GarbageOf(mem, fds) /\ Garbage' = GarbageOf(mem', fds')
  <2>1. (Garbage = GarbageOf(mem, fds))'  BY GarbageForm, PTL
  <2> QED  BY <2>1, GarbageForm
<1>3. Binding = BindingOf(mem, fds) /\ Binding' = BindingOf(mem', fds')  BY DEF Binding
<1> QED  BY <1>1, <1>2, <1>3 DEF Step

(* A call that takes blocks and opens nothing, as a step.                   *)
LEMMA StayStep ==
  ASSUME Inv, Grown(mem, mem'), fds' = fds,
         handles \subseteq handles', handles' \subseteq Fds, tidy' \in BOOLEAN,
         tidy' => tidy /\ \A q \in Ptrs : mem'[q] \in {mem[q], Path}
  PROVE  Step
<1>1. InvOf(mem, fds, handles, tidy)  BY InvForm
<1>2. /\ InvOf(mem', fds, handles', tidy')
      /\ GarbageOf(mem, fds) \subseteq GarbageOf(mem', fds)
      /\ BindingOf(mem', fds) = BindingOf(mem, fds)
  BY <1>1, Stays
<1>3. fds' = fds  OBVIOUS
<1>4. Rebinds(BindingOf(mem, fds), BindingOf(mem', fds'))  BY <1>2, <1>3 DEF Rebinds
<1> QED  BY <1>2, <1>3, <1>4, StepForm

(* fopen that opens nothing.                                                *)
LEMMA RefusedStep ==
  ASSUME Inv, NEW path \in Paths, FopenRefused(path)
  PROVE  Step
<1>1. mem \in Mem /\ handles \subseteq Fds /\ tidy \in BOOLEAN  BY DEF Inv, TypeOK, Mem
<1>2. Grown(mem, mem') /\ \A q \in Ptrs : mem'[q] \in {mem[q], Path}
  BY <1>1, ParsedGrows DEF FopenRefused
<1> QED  BY <1>1, <1>2, StayStep DEF FopenRefused

(* fopen whose fat16_open fails, or that finds every slot taken.            *)
LEMMA FailsStep ==
  ASSUME Inv, NEW path \in Paths, NEW readable, FopenFails(path, readable)
  PROVE  Step
<1>1. mem \in Mem /\ handles \subseteq Fds  BY DEF Inv, TypeOK, Mem
<1>2. Grown(mem, mem')  BY <1>1, OpenedGrows DEF FopenFails
<1>3. fds' = fds /\ handles' = handles /\ ~ tidy' /\ tidy' \in BOOLEAN  BY DEF FopenFails
<1> QED  BY <1>1, <1>2, <1>3, StayStep

(* fopen without a block for the descriptor: the slot stays empty.          *)
LEMMA NoBlockStep ==
  ASSUME Inv, NEW path \in Paths, NEW readable, FopenNoBlock(path, readable)
  PROVE  Step
<1>1. mem \in Mem /\ handles \subseteq Fds  BY DEF Inv, TypeOK, Mem
<1>2. Grown(mem, mem')  BY <1>1, OpenedGrows DEF FopenNoBlock
<1>3. Slot \in Fds  BY SlotIsEmpty DEF FopenNoBlock
<1>4. fds' = fds /\ handles' = handles \cup {Slot} /\ ~ tidy' /\ tidy' \in BOOLEAN
  BY DEF FopenNoBlock
<1> QED  BY <1>1, <1>2, <1>3, <1>4, StayStep

(* fopen that opens a slot: its chain consists of four blocks that were     *)
(* free, or of three if there was none for the clone.                       *)
LEMMA SucceedsStep ==
  ASSUME Inv, NEW path \in Paths, NEW readable, FopenSucceeds(path, readable)
  PROVE  Step
<1> DEFINE o == Opened(path, readable)
           d == New(o.mem)
           s == Slot
<1>1. mem \in Mem /\ handles \subseteq Fds /\ tidy \in BOOLEAN  BY DEF Inv, TypeOK, Mem
<1>2. /\ PartsParsed(mem, path) > 0
      /\ o.ptr # NULL /\ EmptySlots # {} /\ d # NULL
      /\ mem' = Put(o.mem, d, Desc(s, o.ptr))
      /\ fds' = [fds EXCEPT ![s] = d]
      /\ handles' = handles \cup {s}
      /\ tidy' = (tidy /\ path[1] \notin DirNames)
  BY DEF FopenSucceeds
<1>3. s \in Fds /\ fds[s] = NULL  BY <1>2, SlotIsEmpty
<1>4. /\ Grown(mem, o.mem)
      /\ o.ptr \in Ptr0
      /\ o.ptr # NULL =>
           \E i \in Ptrs, c \in Ptr0 :
             /\ i # o.ptr /\ c # o.ptr /\ c # i
             /\ mem[o.ptr] = Free /\ o.mem[o.ptr] = Private(i)
             /\ mem[i] = Free /\ o.mem[i] = Item(c)
             /\ c # NULL => mem[c] = Free /\ o.mem[c].kind = "dirent"
             /\ path[1] \notin DirNames =>
                  \A q \in Ptrs \ {o.ptr, i, c} : o.mem[q] \in {mem[q], Path}
  BY <1>1, <1>2, OpenedGrows
<1>5. d \in Ptrs /\ o.mem[d] = Free  BY <1>2, NewIsFree
<1> DEFINE p == o.ptr
           m1 == o.mem
<1>6. PICK i \in Ptrs, c \in Ptr0 :
        /\ i # p /\ c # p /\ c # i
        /\ mem[p] = Free /\ m1[p] = Private(i)
        /\ mem[i] = Free /\ m1[i] = Item(c)
        /\ c # NULL => mem[c] = Free /\ m1[c].kind = "dirent"
        /\ path[1] \notin DirNames => \A q \in Ptrs \ {p, i, c} : m1[q] \in {mem[q], Path}
  BY <1>2, <1>4
<1>7. p \in Ptrs  BY <1>2, <1>4, NullIsNoBlock
<1>8. Grown(mem, m1) /\ m1 \in Mem  BY <1>4 DEF Grown
<1>9. m1[d] = Free /\ mem[d] = Free /\ d \notin {p, i, c}
  <2>1. m1[d] = Free  BY <1>5
  <2>2. mem[d] = Free  BY <1>5, <1>8, <2>1 DEF Grown
  <2>3. Private(i) # Free /\ Item(c) # Free /\ Free.kind # "dirent"  BY Fields
  <2> QED  BY <1>2, <1>6, <2>1, <2>2, <2>3
<1> HIDE DEF o, p, m1, d, s
<1>10. mem' = Put(m1, d, Desc(s, p))  BY <1>2 DEF p, m1
<1>11. mem'[d] = Desc(s, p) /\ \A q \in Ptrs \ {d} : mem'[q] = m1[q]
  BY <1>5, <1>10 DEF Put
<1>12. mem' \in Mem
  <2>1. Desc(s, p) \in Objects  BY <1>3, <1>7, Structures
  <2> QED  BY <1>8, <1>10, <2>1 DEF Put, Mem
<1>13. Grown(mem, mem')  BY <1>8, <1>9, <1>11, <1>12 DEF Grown
<1>14. LinkedTo(mem', s, d, p, i, c)
  <2>1. mem'[p] = Private(i) /\ mem'[i] = Item(c)  BY <1>6, <1>7, <1>9, <1>11
  <2>2. c # NULL => mem'[c].kind = "dirent"  BY <1>6, <1>9, <1>11, NullIsNoBlock
  <2> QED  BY <1>5, <1>6, <1>7, <1>11, <2>1, <2>2, Fields DEF LinkedTo
<1>15. ChainOf(mem', d) = {d, p, i} \cup ({c} \ {NULL})  BY <1>14, ChainBlocks
<1>16. \A q \in ChainOf(mem', d) : mem[q] = Free  BY <1>6, <1>9, <1>15
<1>17. tidy' \in BOOLEAN /\ (tidy' => tidy) /\ (tidy' => path[1] \notin DirNames)
  BY <1>2, Zenon
<1>18. ASSUME tidy', NEW q \in Ptrs \ ChainOf(mem', d)
       PROVE  mem'[q] \in {mem[q], Path}
  <2>1. q \notin {d, p, i, c}  BY <1>15, <1>18, NullIsNoBlock
  <2> QED  BY <1>6, <1>11, <1>17, <1>18, <2>1
<1>19. InvOf(mem, fds, handles, tidy)  BY InvForm
<1>20. fds' = [fds EXCEPT ![s] = d] /\ handles' = handles \cup {s}  BY <1>2
<1>21. tidy' => tidy /\ \A q \in Ptrs \ ChainOf(mem', d) : mem'[q] \in {mem[q], Path}
  BY <1>17, <1>18
<1>22. /\ InvOf(mem', fds', handles', tidy')
       /\ GarbageOf(mem, fds) \subseteq GarbageOf(mem', fds')
       /\ TargetOf(mem', d) \in Names \cup {NoName}
       /\ BindingOf(mem', fds') = Assign(BindingOf(mem, fds), s, TargetOf(mem', d))
  <2>1. tidy' \in BOOLEAN  BY <1>17
  <2>2. fds' = Assign(fds, s, d) /\ handles' = handles \cup {s}  BY <1>20 DEF Assign
  <2> QED  BY <1>3, <1>13, <1>14, <1>16, <1>19, <1>21, <2>1, <2>2, Opens
<1>23. BindingOf(mem, fds)[s] = NULL  BY <1>3 DEF BindingOf
<1>24. Rebinds(BindingOf(mem, fds), BindingOf(mem', fds'))
  BY <1>3, <1>22, <1>23, Zenon DEF Rebinds
<1> QED  BY <1>22, <1>24, StepForm

(* fclose frees the chain of the slot, whose descriptor names the slot.     *)
LEMMA CloseStep ==
  ASSUME Inv, NEW fd \in 0 .. (MaxFd + 1), Fclose(fd)
  PROVE  Step
<1> DEFINE d == fds[fd]
<1>1. fd \in Fds /\ GetDescriptor(fd) = d /\ d # NULL
  <2>1. GetDescriptor(fd) # NULL  BY Zenon DEF Fclose
  <2>2. ~ (fd <= 0 \/ fd >= MaxFd) /\ GetDescriptor(fd) = fds[fd]
    BY <2>1, Zenon DEF GetDescriptor
  <2>3. fd \in Fds  BY <2>2, FilesAssumption DEF Fds
  <2> QED  BY <2>1, <2>2, <2>3
<1>2. InvOf(mem, fds, handles, tidy)  BY InvForm
<1>3. PICK p \in Ptrs, i \in Ptrs, c \in Ptr0 : LinkedTo(mem, fd, d, p, i, c)
  BY <1>1, <1>2 DEF InvOf, Sound
<1>4. ChainOf(mem, d) = {d, p, i, c} \ {NULL}  BY <1>3, ChainBlocks
<1>5. /\ mem' = Kfree(mem, {c, i, p, d})
      /\ fds' = [fds EXCEPT ![fd] = NULL]
      /\ handles' = handles \ {fd}
      /\ tidy' = tidy
  BY <1>1, <1>3 DEF Fclose, LinkedTo
<1>6. mem' = Kfree(mem, ChainOf(mem, d))
  <2>1. \A q \in Ptrs : q \in {c, i, p, d} <=> q \in ChainOf(mem, d)  BY <1>4, NullIsNoBlock
  <2> QED  BY <1>5, <2>1 DEF Kfree
<1> HIDE DEF d
<1>7. /\ InvOf(mem', fds', handles', tidy)
      /\ GarbageOf(mem, fds) \subseteq GarbageOf(mem', fds')
      /\ BindingOf(mem, fds)[fd] # NULL
      /\ BindingOf(mem', fds') = Assign(BindingOf(mem, fds), fd, NULL)
  <2>1. mem' = Kfree(mem, ChainOf(mem, fds[fd])) /\ fds[fd] # NULL  BY <1>1, <1>6 DEF d
  <2>2. fds' = Assign(fds, fd, NULL) /\ handles' = handles \ {fd} /\ fd \in Fds  BY <1>1, <1>5 DEF Assign
  <2> QED  BY <1>2, <2>1, <2>2, Closes
<1>8. Rebinds(BindingOf(mem, fds), BindingOf(mem', fds'))  BY <1>1, <1>7, Zenon DEF Rebinds
<1>9. InvOf(mem', fds', handles', tidy')  BY <1>5, <1>7
<1> QED  BY <1>7, <1>8, <1>9, StepForm

(* A call that does nothing: a bad path, a bad descriptor number.           *)
LEMMA SameStep ==
  ASSUME Inv, UNCHANGED vars
  PROVE  Step
<1>1. mem \in Mem /\ handles \subseteq Fds /\ tidy \in BOOLEAN  BY DEF Inv, TypeOK, Mem
<1>2. mem' = mem /\ fds' = fds /\ handles' = handles /\ tidy' = tidy  BY DEF vars
<1>3. Grown(mem, mem')  BY <1>1, <1>2 DEF Grown
<1> QED  BY <1>1, <1>2, <1>3, StayStep

(* Every step of the specification is one of those.                         *)
LEMMA NextStep == Inv /\ [Next]_vars => Step
<1> SUFFICES ASSUME Inv, [Next]_vars PROVE Step
  OBVIOUS
<1>1. CASE UNCHANGED vars  BY <1>1, SameStep
<1>2. CASE FopenBadPath  BY <1>2, SameStep DEF FopenBadPath
<1>3. ASSUME NEW path \in Paths, FopenRefused(path) PROVE Step  BY <1>3, RefusedStep
<1>4. ASSUME NEW path \in Paths, NEW readable \in BOOLEAN, FopenFails(path, readable)
      PROVE  Step
  BY <1>4, FailsStep
<1>5. ASSUME NEW path \in Paths, NEW readable \in BOOLEAN, FopenNoBlock(path, readable)
      PROVE  Step
  BY <1>5, NoBlockStep
<1>6. ASSUME NEW path \in Paths, NEW readable \in BOOLEAN, FopenSucceeds(path, readable)
      PROVE  Step
  BY <1>6, SucceedsStep
<1>7. ASSUME NEW fd \in 0 .. (MaxFd + 1), FcloseBad(fd) PROVE Step
  BY <1>7, SameStep DEF FcloseBad
<1>8. ASSUME NEW fd \in 0 .. (MaxFd + 1), Fclose(fd) PROVE Step  BY <1>8, CloseStep
<1> QED  BY <1>1, <1>2, <1>3, <1>4, <1>5, <1>6, <1>7, <1>8 DEF Next

(* The empty table of fs_init.                                              *)
LEMMA InitInv == Init => Inv
<1> SUFFICES ASSUME Init PROVE Inv
  OBVIOUS
<1>1. OpenFds = {}  BY DEF Init, OpenFds
<1>2. TypeOK  BY Structures DEF Init, TypeOK, Ptr0
<1>3. Garbage = {}  BY Fields DEF Init, Garbage
<1> QED  BY <1>1, <1>2, <1>3 DEF Inv, ChainsSound, ChainsDisjoint, NoSlotLeaked, OnlyPathsLost

-----------------------------------------------------------------------------
(* The theorems.                                                            *)

(* The invariant holds in every state.                                      *)
LEMMA Invariance == Spec => []Inv
<1>1. Inv /\ [Next]_vars => Inv'  BY NextStep DEF Step
<1> QED  BY InitInv, <1>1, PTL DEF Spec

(* Memory holds structures and slots hold blocks (src/fs/file.c:61-93).     *)
THEOREM FilesTypeOK == Spec => []TypeOK
<1>1. Inv => TypeOK  BY DEF Inv
<1> QED  BY Invariance, <1>1, PTL

(* Whatever was opened, failed or closed before, a slot in use leads to its *)
(* own descriptor, private data and item.                                   *)
THEOREM FilesChainsSound == Spec => []ChainsSound
<1>1. Inv => ChainsSound  BY DEF Inv
<1> QED  BY Invariance, <1>1, PTL

(* No block belongs to two handles, whatever fopen (src/fs/file.c) found    *)
(* room for and in whatever order handles are closed: closing one frees     *)
(* nothing another one uses (src/fs/fat16.c, fat16_close).                  *)
THEOREM FilesChainsDisjoint == Spec => []ChainsDisjoint
<1>1. Inv => ChainsDisjoint  BY DEF Inv
<1> QED  BY Invariance, <1>1, PTL

(* A slot is in use only if fopen returned its number and fclose has not    *)
(* closed it: no way in which fopen fails takes a slot                      *)
(* (src/fs/file.c:61-82).                                                   *)
THEOREM FilesNoSlotLeaked == Spec => []NoSlotLeaked
<1>1. Inv => NoSlotLeaked  BY DEF Inv
<1> QED  BY Invariance, <1>1, PTL

(* As long as every fopen that reached fat16_open succeeded, on a file, the *)
(* blocks in use that no handle leads to are those of paths, which nothing  *)
(* frees (src/fs/pparser.c): fclose gives back all the rest.                *)
THEOREM FilesOnlyPathsLost == Spec => []OnlyPathsLost
<1>1. Inv => OnlyPathsLost  BY DEF Inv
<1> QED  BY Invariance, <1>1, PTL

(* No call gives back a block that was lost: fclose frees the chain of its  *)
(* own handle and nothing else (src/fs/file.c, fclose).                     *)
THEOREM FilesGarbageGrows == Spec => GarbageGrows
<1>1. Inv /\ [Next]_vars => [Garbage \subseteq Garbage']_vars  BY NextStep DEF Step
<1> QED  BY Invariance, <1>1, PTL DEF Spec, GarbageGrows

(* Followed through its descriptor, private data, item and clone, a handle  *)
(* is bound by fopen and unbound by fclose, and no other call changes what  *)
(* it is bound to (FileTable): no handle is ever closed, or turned to       *)
(* another file, by an operation on another one.                            *)
THEOREM FilesImplementsFileTable == Spec => ImplementsFileTable
<1>1. Binding = [i \in Fds |-> IF fds[i] = NULL THEN NULL ELSE Target(i)]
  BY DEF Binding, BindingOf, Target, TargetOf
<1>2. Init => Table!Init
  <2>1. Init => \A i \in Fds : fds[i] = NULL  BY DEF Init
  <2> QED  BY <2>1 DEF Table!Init
<1>3. Inv /\ [Next]_vars =>
        [Table!Next]_([i \in Fds |-> IF fds[i] = NULL THEN NULL ELSE Target(i)])
  <2> SUFFICES ASSUME Inv, [Next]_vars
               PROVE  [Table!Next]_([i \in Fds |-> IF fds[i] = NULL THEN NULL ELSE Target(i)])
    OBVIOUS
  <2>1. Step  BY NextStep
  <2>2. Binding' = [i \in Fds |-> IF fds[i] = NULL THEN NULL ELSE Target(i)]'
    BY DEF Binding, BindingOf, Target, TargetOf
  <2>3. CASE Binding' = Binding  BY <1>1, <2>2, <2>3
  <2>4. ASSUME NEW s \in Fds, NEW x \in Names \cup {NoName},
               Binding[s] = NULL, Binding' = Assign(Binding, s, x)
        PROVE  Table!Next
    <3>1. Table!Open(s, x)  BY <1>1, <2>2, <2>4 DEF Table!Open, Assign
    <3> QED  BY <3>1 DEF Table!Next, Names
  <2>5. ASSUME NEW s \in Fds, Binding[s] # NULL, Binding' = Assign(Binding, s, NULL)
        PROVE  Table!Next
    <3>1. Table!Close(s)  BY <1>1, <2>2, <2>5 DEF Table!Close, Assign
    <3> QED  BY <3>1 DEF Table!Next
  <2> QED  BY <2>1, <2>3, <2>4, <2>5 DEF Step, Rebinds
<1> QED  BY InitInv, Invariance, <1>2, <1>3, PTL DEF Spec, ImplementsFileTable, Table!Spec
=============================================================================
