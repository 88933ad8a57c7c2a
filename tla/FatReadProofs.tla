---------------------------- MODULE FatReadProofs ----------------------------
(***************************************************************************)
(* Theorems about module FatRead, for every geometry of the disk, every     *)
(* first cluster, every contents of the allocation table and every fread.   *)
(*                                                                          *)
(* The invariant follows the three nested loops. CountersInv says that      *)
(* position, remaining length and bytes stored agree at every point of      *)
(* them, whichever cluster the table sent the loop to. StreamInv says where *)
(* the stream stands inside a sector before each call of diskstreamer_read, *)
(* which is what tells whether the call copies from behind its buffer;      *)
(* StoredInv says of every byte stored so far, those of the current member  *)
(* included, what the properties say of complete members (Right). ServedInv *)
(* is the reason why a member of the first cluster depends on no entry of   *)
(* the table, and FirstIsAnswered why it waits for no sector that the disk  *)
(* lacks.  ReadLeft says what of an fread is still to be done; it goes down *)
(* lexicographically: members, bytes of the member, walk and sector.        *)
(***************************************************************************)
EXTENDS FatRead, SequenceTheorems, WellFoundedInduction, TLAPS

-----------------------------------------------------------------------------
(* Arithmetic.                                                              *)

(* Adding a multiple does not change a remainder.                           *)
LEMMA RemainderOfSum ==
  ASSUME NEW n \in Nat \ {0}, NEW a \in Int, NEW x \in Int
  PROVE  (a * n + x) % n = x % n
<1> DEFINE q == x \div n
           r == x % n
<1>1. q \in Int /\ r \in 0 .. (n - 1) /\ x = q * n + r  OBVIOUS
<1>2. (a + q) * n = a * n + q * n  BY <1>1
<1>3. a * n \in Int /\ q * n \in Int /\ (a + q) * n \in Int  BY <1>1
<1> HIDE DEF q, r
<1>4. a * n + x = (a + q) * n + r  BY <1>1, <1>2, <1>3
<1>5. ((a + q) * n + r) % n = r  BY <1>1
<1> QED  BY <1>4, <1>5 DEF r

(* The remainder by a multiple of n has the same remainder by n.            *)
LEMMA RemainderTwice ==
  ASSUME NEW n \in Nat \ {0}, NEW b \in Nat \ {0}, NEW x \in Nat
  PROVE  (x % (b * n)) % n = x % n
<1> DEFINE c == b * n
           q == x \div c
           r == x % c
<1>1. c \in Nat \ {0}  OBVIOUS
<1> HIDE DEF c
<1>2. q \in Nat /\ r \in Nat /\ x = q * c + r  BY <1>1
<1> HIDE DEF q, r
<1>3. q * c = (q * b) * n  BY <1>2 DEF c
<1>4. q * b \in Nat  BY <1>2
<1>5. ((q * b) * n + r) % n = r % n
  <2> DEFINE a == q * b
  <2>1. a \in Int /\ r \in Int  BY <1>2, <1>4
  <2> HIDE DEF a
  <2>2. (a * n + r) % n = r % n  BY <2>1, RemainderOfSum
  <2> QED  BY <2>2 DEF a
<1> QED  BY <1>2, <1>3, <1>5 DEF r, c

(* What lies behind the members before a member.                            *)
LEMMA Members ==
  ASSUME NEW s \in Nat, NEW m \in Nat, NEW n \in Nat
  PROVE  /\ m * s \in Nat
         /\ (m + 1) * s = m * s + s
         /\ m < n => m * s + s <= n * s
         /\ m <= n => m * s <= n * s
<1>1. m * s \in Nat /\ n * s \in Nat /\ (m + 1) * s = m * s + s  OBVIOUS
<1>2. ASSUME m <= n PROVE m * s <= n * s
  <2>1. (n - m) * s \in Nat /\ n * s = m * s + (n - m) * s  BY <1>2
  <2> QED  BY <1>1, <2>1
<1>3. ASSUME m < n PROVE m * s + s <= n * s
  <2>1. (n - m - 1) * s \in Nat /\ n * s = (m + 1) * s + (n - m - 1) * s  BY <1>3
  <2> QED  BY <1>1, <2>1
<1> QED  BY <1>1, <1>2, <1>3

-----------------------------------------------------------------------------
(* Where bytes are.                                                         *)

Bytes == Nat \cup {Junk}

(* A cluster is a number of sectors.                                        *)
LEMMA ClusterSize ==
  /\ ClusterBytes \in Nat \ {0} /\ ClusterBytes = SectorsPerCluster * Sector
  /\ Sector \in Nat \ {0} /\ SectorsPerCluster \in Nat \ {0}
<1>1. Sector \in Nat \ {0} /\ SectorsPerCluster \in Nat \ {0}  BY FatAssumption
<1> QED  BY <1>1 DEF ClusterBytes

(* A place in a sector.                                                     *)
LEMMA Remainder ==
  ASSUME NEW x \in Int
  PROVE  x % Sector \in 0 .. (Sector - 1)
<1>1. Sector \in Nat \ {0}  BY ClusterSize
<1> QED  BY <1>1

(* Where clusters begin; that of a file begins behind the disk's beginning.  *)
LEMMA ClusterStart ==
  ASSUME NEW c \in Nat
  PROVE  /\ ClusterToSector(c) \in Int /\ ClusterToSector(c) * Sector \in Int
         /\ c >= 2 => ClusterToSector(c) \in Nat /\ ClusterToSector(c) * Sector \in Nat
<1>1. Sector \in Nat /\ SectorsPerCluster \in Nat /\ DataSector \in Nat
  BY FatAssumption DEF DataSector
<1> DEFINE d == (c - 2) * SectorsPerCluster
           k == ClusterToSector(c)
<1>2. d \in Int /\ (c >= 2 => d \in Nat)
  <2>1. d \in Int  BY <1>1
  <2>2. ASSUME c >= 2 PROVE d \in Nat
    <3>1. c - 2 \in Nat  BY <2>2
    <3> QED  BY <1>1, <3>1
  <2> QED  BY <2>1, <2>2
<1>3. k = DataSector + d  BY DEF ClusterToSector
<1> HIDE DEF d
<1>4. k \in Int /\ (c >= 2 => k \in Nat)  BY <1>1, <1>2, <1>3
<1> HIDE DEF k
<1>5. k * Sector \in Int /\ (c >= 2 => k * Sector \in Nat)  BY <1>1, <1>4
<1> QED  BY <1>4, <1>5 DEF k

(* What an int holds; a number that fits is kept, and the place in the sector *)
(* always is.                                                               *)
LEMMA ToIntIs ==
  ASSUME NEW x \in Int
  PROVE  /\ ToInt(x) \in -Half .. Half - 1
         /\ ToInt(x) % Sector = x % Sector
         /\ x \in -Half .. Half - 1 => ToInt(x) = x
<1> DEFINE w == 2 * Half
           b == w \div Sector
           q == (x + Half) \div w
<1>1. Half \in Nat \ {0} /\ Sector \in Nat \ {0} /\ w % Sector = 0  BY FatAssumption
<1>2. w \in Nat \ {0} /\ b \in Nat /\ w = b * Sector  BY <1>1
<1>3. (x + Half) % w \in 0 .. w - 1  BY <1>1, <1>2
<1>4. ToInt(x) \in -Half .. Half - 1
  <2>1. ToInt(x) = ((x + Half) % w) - Half  BY DEF ToInt
  <2> QED  BY <1>1, <1>3, <2>1
<1>5. ASSUME x \in -Half .. Half - 1 PROVE ToInt(x) = x
  <2>1. (x + Half) % w = x + Half  BY <1>1, <1>5
  <2> QED  BY <1>1, <2>1 DEF ToInt
<1>6. ToInt(x) % Sector = x % Sector
  <2>1. q \in Int /\ x + Half = q * w + ((x + Half) % w)
    <3> DEFINE y == x + Half
    <3>1. y \in Int  BY <1>1
    <3> HIDE DEF y, w
    <3>2. y = (y \div w) * w + (y % w) /\ y \div w \in Int  BY <1>2, <3>1
    <3> QED  BY <3>2 DEF y, q
  <2>2. ToInt(x) = ((x + Half) % w) - Half  BY DEF ToInt
  <2> HIDE DEF w, b, q
  <2>3. (-q) * b \in Int /\ q * w \in Int /\ ((-q) * b) * Sector = - (q * w)
    <3>1. q * w \in Int /\ (-q) * b \in Int  BY <1>2, <2>1
    <3>2. (-q) * b = - (q * b) /\ q * b \in Int  BY <1>2, <2>1
    <3>3. (q * b) * Sector = q * w  BY <1>1, <1>2, <2>1
    <3>4. (- (q * b)) * Sector = - ((q * b) * Sector)  BY <1>1, <3>2
    <3> QED  BY <3>1, <3>2, <3>3, <3>4
  <2>4. ToInt(x) = ((-q) * b) * Sector + x
    <3> DEFINE y == (x + Half) % w
               u == ((-q) * b) * Sector
               v == q * w
    <3>1. y \in Int /\ v \in Int /\ u = -v /\ x + Half = v + y /\ ToInt(x) = y - Half
      BY <1>3, <2>1, <2>2, <2>3
    <3> HIDE DEF y, u, v
    <3>2. ToInt(x) = u + x  BY <1>1, <3>1
    <3> QED  BY <3>2 DEF u
  <2> DEFINE a == (-q) * b
  <2>5. (a * Sector + x) % Sector = x % Sector
    <3>1. a \in Int  BY <2>3
    <3> HIDE DEF a
    <3> QED  BY <1>1, <3>1, RemainderOfSum
  <2> QED  BY <2>4, <2>5
<1> QED  BY <1>4, <1>5, <1>6

(* The positions in a first cluster that is on the disk.                    *)
LEMMA FirstPositions ==
  /\ \A o \in Nat : FilePosition(o) \in Nat
  /\ \A o, n \in Nat : FilePosition(o + n) = FilePosition(o) + n
  /\ FirstOnDisk =>
       \A o \in Nat : o < ClusterBytes => FilePosition(o) < Half /\ Answered(FilePosition(o))
<1> DEFINE k == ClusterToSector(FirstCluster)
           b == k * Sector
<1>1. k \in Nat /\ b \in Nat
  <2>1. FirstCluster \in Nat /\ FirstCluster >= 2  BY FatAssumption
  <2> QED  BY <2>1, ClusterStart
<1>2. \A o : FilePosition(o) = b + o  BY DEF FilePosition
<1>3. Half \in Nat /\ DiskSectors \in Nat  BY FatAssumption
<1>4. ASSUME FirstOnDisk, NEW o \in Nat, o < ClusterBytes
      PROVE  FilePosition(o) < Half /\ Answered(FilePosition(o))
  <2>1. k + SectorsPerCluster <= DiskSectors /\ b + ClusterBytes <= Half
    BY <1>2, <1>4 DEF FirstOnDisk
  <2> DEFINE p == b + o
  <2>2. p \in Nat /\ p < Half  BY <1>1, <1>3, <1>4, <2>1, ClusterSize
  <2>3. p < DiskSectors * Sector
    <3> DEFINE e == k + SectorsPerCluster
    <3>1. e * Sector = b + ClusterBytes  BY <1>1, ClusterSize
    <3>2. e \in Nat /\ e <= DiskSectors  BY <1>1, <2>1, ClusterSize
    <3> HIDE DEF e
    <3>3. e * Sector <= DiskSectors * Sector /\ DiskSectors * Sector \in Nat
      BY <1>3, <3>2, ClusterSize, Members
    <3> QED  BY <1>1, <1>4, <3>1, <3>3, ClusterSize
  <2>4. FilePosition(o) = p  BY <1>2
  <2> HIDE DEF p
  <2>5. p \div Sector \in 0 .. DiskSectors - 1
    <3> DEFINE d == p \div Sector
    <3>1. d \in Nat /\ d * Sector <= p  BY <2>2, ClusterSize
    <3> HIDE DEF d
    <3>2. d < DiskSectors
      <4>1. SUFFICES ASSUME DiskSectors <= d PROVE FALSE  BY <1>3, <3>1
      <4>2. DiskSectors * Sector <= d * Sector /\ d * Sector \in Nat
            /\ DiskSectors * Sector \in Nat
        BY <1>3, <3>1, <4>1, ClusterSize, Members
      <4> QED  BY <2>2, <2>3, <3>1, <4>2
    <3> QED  BY <1>3, <3>1, <3>2 DEF d
  <2>6. Answered(p)  BY <2>2, <2>5 DEF Answered, SectorOf
  <2> QED  BY <2>2, <2>4, <2>6
<1> HIDE DEF b
<1>5. /\ \A o \in Nat : FilePosition(o) \in Nat
      /\ \A o, n \in Nat : FilePosition(o + n) = FilePosition(o) + n
  BY <1>1, <1>2
<1> QED  BY <1>4, <1>5

(* Where fat16_read_internal_from_stream moves the stream.                  *)
LEMMA SeekPosition ==
  ASSUME NEW c \in Nat, NEW o \in Nat,
         NEW p, p = ToInt(ClusterToSector(c) * Sector + (o % ClusterBytes))
  PROVE  /\ p \in -Half .. Half - 1 /\ p % Sector = o % Sector
         /\ FirstOnDisk /\ c = FirstCluster /\ o < ClusterBytes => p = FilePosition(o)
<1> DEFINE k == ClusterToSector(c)
           r == o % ClusterBytes
           x == k * Sector + r
<1>1. r \in Nat  BY ClusterSize
<1>2. k \in Int /\ k * Sector \in Int  BY ClusterStart
<1>3. x \in Int /\ p = ToInt(x)  BY <1>1, <1>2
<1>4. x % Sector = r % Sector
  <2> HIDE DEF k, r
  <2>1. Sector \in Nat \ {0} /\ r \in Int  BY <1>1, ClusterSize
  <2> QED  BY <1>2, <2>1, RemainderOfSum
<1>5. r % Sector = o % Sector
  <2>1. (o % (SectorsPerCluster * Sector)) % Sector = o % Sector
    BY ClusterSize, RemainderTwice
  <2> QED  BY <2>1 DEF ClusterBytes
<1>6. ASSUME FirstOnDisk, c = FirstCluster, o < ClusterBytes PROVE p = FilePosition(o)
  <2>1. r = o  BY <1>6, ClusterSize
  <2>2. x = FilePosition(o)  BY <1>6, <2>1 DEF FilePosition
  <2>3. FilePosition(o) \in Nat /\ FilePosition(o) < Half  BY <1>6, FirstPositions
  <2>4. Half \in Nat  BY FatAssumption
  <2> HIDE DEF x
  <2>5. ToInt(x) = x  BY <1>3, <2>2, <2>3, <2>4, ToIntIs
  <2> QED  BY <1>3, <2>2, <2>5
<1> HIDE DEF x, r
<1>7. p \in -Half .. Half - 1 /\ p % Sector = x % Sector  BY <1>3, ToIntIs
<1> QED  BY <1>4, <1>5, <1>6, <1>7

(* What one call of diskstreamer_read copies.                               *)
LEMMA CopiedBytes ==
  ASSUME spos \in Int, Answered(spos), NEW n \in Nat
  PROVE  /\ Copied(n) \in Seq(Bytes) /\ Len(Copied(n)) = n
         /\ spos % Sector = 0 => spos \in Nat
         /\ spos \in Nat =>
              \A k \in 1 .. n : (spos % Sector) + k <= Sector => Copied(n)[k] = spos + k - 1
<1> DEFINE t == SectorOf(spos)
           p == PlaceIn(spos)
<1>1. Sector \in Nat \ {0} /\ DiskSectors \in Nat  BY FatAssumption
<1>2. t \in Nat  BY <1>1 DEF Answered
<1>3. t * Sector \in Nat  BY <1>1, <1>2
<1>4. p = spos - t * Sector  BY DEF PlaceIn
<1>5. spos \in Nat => p = spos % Sector
  <2>1. ASSUME spos \in Nat PROVE spos - (spos \div Sector) * Sector = spos % Sector
    BY <1>1, <2>1
  <2>2. spos \in Nat => t = spos \div Sector  BY DEF SectorOf
  <2> QED  BY <1>4, <2>1, <2>2
<1>6. ASSUME spos % Sector = 0, spos \notin Nat PROVE FALSE
  <2> DEFINE m == -spos
             d == m \div Sector
  <2>1. m \in Nat \ {0} /\ t = -d /\ d \in Int  BY <1>1, <1>6 DEF SectorOf
  <2>2. d > 0
    <3>1. m >= Sector
      <4>1. spos = (spos \div Sector) * Sector + (spos % Sector) /\ spos \div Sector \in Int
        BY <1>1
      <4>2. (spos \div Sector) < 0  BY <1>1, <1>6, <2>1, <4>1
      <4>3. PICK a \in Nat : spos \div Sector = - (a + 1)
        <5>1. - (spos \div Sector) - 1 \in Nat  BY <4>1, <4>2
        <5> QED  BY <4>1, <5>1
      <4>4. m = (a + 1) * Sector  BY <1>1, <1>6, <4>1, <4>3
      <4>5. (a + 1) * Sector = a * Sector + Sector /\ a * Sector \in Nat  BY <1>1, <4>3
      <4> QED  BY <1>1, <4>4, <4>5
    <3> HIDE DEF m
    <3> QED  BY <1>1, <2>1, <3>1
  <2> HIDE DEF d, t
  <2> QED  BY <1>2, <2>1, <2>2
<1> HIDE DEF t
<1>7. p \in Int  BY <1>3, <1>4
<1> HIDE DEF p
<1>8. \A k \in 1 .. n : p + k - 1 \in 0 .. Sector - 1 => spos + k - 1 \in Nat
  BY <1>1, <1>3, <1>4, <1>7
<1>9. Copied(n) \in [1 .. n -> Bytes]  BY <1>8 DEF Copied, Bytes, p
<1>10. ASSUME spos \in Nat, NEW k \in 1 .. n, (spos % Sector) + k <= Sector
       PROVE  Copied(n)[k] = spos + k - 1
  <2>1. p = spos % Sector /\ p \in Nat  BY <1>1, <1>5, <1>10
  <2>2. p + k - 1 \in 0 .. Sector - 1  BY <1>1, <1>10, <2>1
  <2> QED  BY <2>2 DEF Copied, p
<1>11. Copied(n) \in Seq(Bytes) /\ Len(Copied(n)) = n
  BY <1>9, IsASeq DEF Copied
<1> QED  BY <1>6, <1>10, <1>11
-----------------------------------------------------------------------------
(* The invariant.                                                           *)

(* How many bytes of the current member are stored.                         *)
Here == Len(out) - i * size

LocalsInv ==
  /\ pc \in {"idle", "member", "walk", "sectors", "waits"}
  /\ {pos, size, nmemb, i, offset, total, cluster, ahead, rest} \subseteq Nat
  /\ spos \in -Half .. Half - 1
  /\ out \in Seq(Bytes)

(* The counters of the three loops agree with what has been stored.         *)
CountersInv ==
  /\ pc = "idle" => size = 0 /\ nmemb = 0 /\ i = 0 /\ total = 0 /\ rest = 0 /\ out = <<>>
  /\ pc # "idle" => size > 0 /\ i <= nmemb
  /\ pc = "member" => Here = 0 /\ offset = MemberStart(i) /\ rest = 0 /\ total <= size
  /\ pc \in {"walk", "sectors", "waits"} =>
       /\ i < nmemb /\ total \in 1 .. size /\ rest <= total /\ Here \in 0 .. size
  /\ pc \in {"walk", "sectors"} =>
       cluster > 0 /\ offset = MemberStart(i) + (size - total)
  /\ pc = "walk" => rest = 0 /\ Here = size - total
  /\ pc = "sectors" =>
       /\ rest <= Lesser(total, ClusterBytes)
       /\ Here = (size - total) + (Lesser(total, ClusterBytes) - rest)

(* Inside the first cluster nothing is looked up.                           *)
ServedInv ==
  /\ pc = "walk" /\ InFirstCluster(i) =>
       ahead = 0 /\ cluster = FirstCluster /\ total = size
  /\ pc # "idle" /\ (\A m \in 0 .. (nmemb - 1) : InFirstCluster(m)) => looked = {}

(* The stream stands where the member says, and one call of                 *)
(* diskstreamer_read needs no more than the sector it fetches.              *)
StreamInv ==
  pc \in {"walk", "sectors"} =>
    /\ MemberStart(i) % Sector = 0 => offset % Sector = 0
    /\ pc = "sectors" /\ rest > 0 =>
         /\ MemberStart(i) % Sector = 0 => spos % Sector = 0
         /\ InFirstCluster(i) =>
              /\ FirstOnDisk => spos = FilePosition(MemberStart(i) + Here)
              /\ Whole(i) => spos % Sector = 0 \/ (spos % Sector) + rest <= Sector

(* Byte k of member m is what MembersExact and AlignedNoJunk say.           *)
Right(m, k) ==
  /\ FirstOnDisk /\ InFirstCluster(m) /\ Whole(m) =>
       Stored(m, k) = FilePosition(MemberStart(m) + k)
  /\ MemberStart(m) % Sector = 0 => Stored(m, k) # Junk

StoredInv ==
  /\ \A m \in 0 .. (i - 1), k \in 0 .. (size - 1) : Right(m, k)
  /\ pc \in {"walk", "sectors"} => \A k \in 0 .. (Here - 1) : Right(i, k)

Inv == LocalsInv /\ CountersInv /\ ServedInv /\ StreamInv /\ StoredInv

-----------------------------------------------------------------------------
(* The steps.                                                               *)

(* Where members start.                                                     *)
LEMMA Starts ==
  ASSUME LocalsInv, NEW m \in Nat
  PROVE  MemberStart(m) \in Nat /\ m * size \in Nat
<1>1. size \in Nat /\ pos \in Nat  BY DEF LocalsInv
<1>2. m * size \in Nat  BY <1>1, Members
<1> QED  BY <1>1, <1>2 DEF MemberStart

(* A state with no call under way.                                          *)
LEMMA IdleInv ==
  ASSUME LocalsInv', pc' = "idle", size' = 0, nmemb' = 0, i' = 0, total' = 0,
         rest' = 0, out' = <<>>
  PROVE  Inv'
<1>1. CountersInv' /\ ServedInv' /\ StreamInv'
  BY DEF CountersInv, ServedInv, StreamInv
<1>2. StoredInv'  BY DEF StoredInv
<1> QED  BY <1>1, <1>2 DEF Inv

(* fseek, where the code lets it through.                                   *)
LEMMA SeekingInv ==
  ASSUME Inv, NEW o \in Offsets, FseekSet(o) \/ FseekCur(o)
  PROVE  Inv'
<1>1. o \in Nat  BY FatAssumption
<1>2. LocalsInv'
  <2>1. pos \in Nat  BY Zenon DEF Inv, LocalsInv
  <2>2. pos' = o \/ pos' = pos + o  BY Zenon DEF FseekSet, FseekCur
  <2>3. pos' \in Nat  BY <1>1, <2>1, <2>2
  <2> QED  BY <2>3 DEF Inv, LocalsInv, FseekSet, FseekCur, locals
<1> QED  BY <1>2, IdleInv DEF Inv, CountersInv, FseekSet, FseekCur, locals

(* The end of an fread.                                                     *)
LEMMA ReturnInv ==
  ASSUME Inv, NEW r, Return(r)
  PROVE  Inv'
<1>1. LocalsInv'
  <2>1. <<>> \in Seq(Bytes)  BY EmptySeq
  <2>2. pos' \in Nat  BY DEF Inv, LocalsInv, Return
  <2>3. 0 \in -Half .. Half - 1  BY FatAssumption
  <2> QED  BY <2>1, <2>2, <2>3 DEF LocalsInv, Return
<1> QED  BY <1>1, IdleInv DEF Return

(* The members to come, before the first.                                   *)
LEMMA FreadInv ==
  ASSUME Inv, NEW s \in Sizes, NEW n \in Counts, Fread(s, n)
  PROVE  Inv'
<1>1. s \in Nat \ {0} /\ n \in Nat \ {0}  BY FatAssumption DEF Fread
<1>2. /\ pc' = "member" /\ size' = s /\ nmemb' = n /\ i' = 0 /\ offset' = pos
      /\ out' = <<>> /\ looked' = {} /\ pos' = pos /\ total' = total /\ cluster' = cluster
      /\ ahead' = ahead /\ spos' = spos /\ rest' = rest
  BY DEF Fread
<1>3. pos \in Nat /\ total = 0 /\ rest = 0  BY DEF Inv, LocalsInv, CountersInv, Fread
<1>4. LocalsInv'
  <2>1. <<>> \in Seq(Bytes)  BY EmptySeq
  <2> QED  BY <1>1, <1>2, <2>1 DEF Inv, LocalsInv
<1>5. 0 * s = 0  BY <1>1
<1>6. Here' = 0 /\ MemberStart(0)' = pos  BY <1>2, <1>3, <1>5 DEF Here, MemberStart
<1>7. CountersInv'  BY <1>1, <1>2, <1>3, <1>6 DEF CountersInv
<1>8. ServedInv' /\ StreamInv'  BY <1>2 DEF ServedInv, StreamInv
<1>9. StoredInv'  BY <1>2 DEF StoredInv
<1> QED  BY <1>4, <1>7, <1>8, <1>9 DEF Inv

(* A step that stores nothing keeps what is stored.                         *)
LEMMA SameStored ==
  ASSUME StoredInv, pos' = pos, size' = size, i' = i, out' = out,
         pc' \in {"walk", "sectors"} => pc \in {"walk", "sectors"} \/ Here = 0
  PROVE  StoredInv'
<1>1. \A m, k : Right(m, k)' <=> Right(m, k)
  BY DEF Right, InFirstCluster, Whole, Stored, MemberStart
<1>2. Here' = Here  BY DEF Here
<1> QED  BY <1>1, <1>2 DEF StoredInv

(* The walk to a member begins with the first cluster.                      *)
LEMMA MemberInv ==
  ASSUME Inv, Member
  PROVE  Inv'
<1>1. /\ pc = "member" /\ i < nmemb /\ pc' = "walk" /\ total' = size
      /\ cluster' = FirstCluster /\ ahead' = offset \div ClusterBytes
      /\ pos' = pos /\ size' = size /\ nmemb' = nmemb /\ i' = i /\ offset' = offset
      /\ spos' = spos /\ rest' = rest /\ out' = out /\ looked' = looked
  BY DEF Member
<1>2. LocalsInv  BY DEF Inv
<1>3. size \in Nat \ {0} /\ i \in Nat /\ nmemb \in Nat /\ offset \in Nat
      /\ offset = MemberStart(i) /\ Here = 0 /\ rest = 0 /\ spos \in -Half .. Half - 1
  BY <1>1 DEF Inv, LocalsInv, CountersInv
<1>4. ahead' \in Nat  BY <1>1, <1>3, ClusterSize
<1>5. FirstCluster \in Nat /\ FirstCluster > 0  BY FatAssumption
<1>6. LocalsInv'  BY <1>1, <1>2, <1>3, <1>4, <1>5 DEF LocalsInv
<1>7. /\ Here' = Here /\ MemberStart(i)' = MemberStart(i)
      /\ InFirstCluster(i)' = InFirstCluster(i)
      /\ \A m : InFirstCluster(m)' <=> InFirstCluster(m)
  BY <1>1 DEF Here, MemberStart, InFirstCluster
<1>8. CountersInv'
  BY <1>1, <1>3, <1>5, <1>7 DEF CountersInv
<1>9. ServedInv'
  <2>1. InFirstCluster(i) => offset \div ClusterBytes = 0
    BY <1>3, ClusterSize DEF InFirstCluster
  <2>2. (\A m \in 0 .. (nmemb - 1) : InFirstCluster(m)) => looked = {}
    BY <1>1 DEF Inv, ServedInv
  <2> QED  BY <1>1, <1>7, <2>1, <2>2 DEF ServedInv
<1>10. StreamInv'  BY <1>1, <1>3, <1>7 DEF StreamInv
<1>11. StoredInv'  BY <1>1, <1>3, SameStored DEF Inv
<1> QED  BY <1>6, <1>8, <1>9, <1>10, <1>11 DEF Inv

(* An entry of the table is looked up for no member of the first cluster.   *)
LEMMA WalkOnInv ==
  ASSUME Inv, NEW word \in Words, WalkOn(word)
  PROVE  Inv'
<1>1. /\ pc = "walk" /\ ahead > 0 /\ pc' = pc /\ total' = total
      /\ cluster' = word /\ ahead' = ahead - 1
      /\ pos' = pos /\ size' = size /\ nmemb' = nmemb /\ i' = i /\ offset' = offset
      /\ spos' = spos /\ rest' = rest /\ out' = out
  BY DEF WalkOn
<1>2. word \in Nat \ {0}  BY FatAssumption DEF WalkOn, StopWords
<1>3. LocalsInv /\ ahead \in Nat /\ i \in Nat /\ nmemb \in Nat  BY DEF Inv, LocalsInv
<1>4. LocalsInv'  BY <1>1, <1>2, <1>3 DEF LocalsInv
<1>5. /\ Here' = Here /\ MemberStart(i)' = MemberStart(i)
      /\ \A m : InFirstCluster(m)' <=> InFirstCluster(m)
      /\ InFirstCluster(i)' <=> InFirstCluster(i)
  BY <1>1 DEF Here, MemberStart, InFirstCluster
<1>6. CountersInv'  BY <1>1, <1>2, <1>5 DEF Inv, CountersInv
<1>7. ~ InFirstCluster(i)  BY <1>1 DEF Inv, ServedInv
<1>8. i \in 0 .. (nmemb - 1)  BY <1>1, <1>3 DEF Inv, CountersInv
<1>9. ServedInv'  BY <1>1, <1>5, <1>7, <1>8 DEF ServedInv
<1>10. StreamInv'  BY <1>1, <1>5 DEF Inv, StreamInv
<1>11. StoredInv'  BY <1>1, SameStored DEF Inv
<1> QED  BY <1>4, <1>6, <1>9, <1>10, <1>11 DEF Inv

(* The stream is moved to the member's place in the cluster.                *)
LEMMA SeekInv ==
  ASSUME Inv, Seek
  PROVE  Inv'
<1>1. /\ pc = "walk" /\ ahead = 0 /\ pc' = "sectors" /\ total' = total
      /\ spos' = ToInt(ClusterToSector(cluster) * Sector + (offset % ClusterBytes))
      /\ rest' = Lesser(total, ClusterBytes)
      /\ cluster' = cluster /\ ahead' = ahead
      /\ pos' = pos /\ size' = size /\ nmemb' = nmemb /\ i' = i /\ offset' = offset
      /\ out' = out /\ looked' = looked
  BY DEF Seek
<1>2. LocalsInv /\ i \in Nat /\ size \in Nat /\ total \in Nat /\ offset \in Nat
      /\ nmemb \in Nat /\ cluster \in Nat
  BY DEF Inv, LocalsInv
<1>3. /\ i < nmemb /\ total \in 1 .. size /\ cluster > 0 /\ Here = size - total
      /\ Here \in 0 .. size /\ offset = MemberStart(i) + (size - total)
  BY <1>1 DEF Inv, CountersInv
<1>4. /\ spos' \in -Half .. Half - 1 /\ spos' % Sector = offset % Sector
      /\ FirstOnDisk /\ cluster = FirstCluster /\ offset < ClusterBytes =>
           spos' = FilePosition(offset)
  BY <1>1, <1>2, <1>3, SeekPosition
<1>5. rest' \in Nat /\ rest' <= total /\ rest' > 0
  BY <1>1, <1>2, <1>3, ClusterSize DEF Lesser
<1>6. LocalsInv'  BY <1>1, <1>2, <1>4, <1>5 DEF LocalsInv
<1>7. /\ Here' = Here /\ MemberStart(i)' = MemberStart(i)
      /\ \A m : InFirstCluster(m)' <=> InFirstCluster(m)
      /\ InFirstCluster(i)' <=> InFirstCluster(i)
      /\ Whole(i)' <=> Whole(i)
  BY <1>1 DEF Here, MemberStart, InFirstCluster, Whole
<1>8. CountersInv'
  <2>1. Here' = (size - total) + (Lesser(total, ClusterBytes) - rest')
    BY <1>1, <1>2, <1>3, <1>5, <1>7
  <2> QED  BY <1>1, <1>2, <1>3, <1>5, <1>7, <2>1, ClusterSize DEF CountersInv, Lesser
<1>9. ServedInv'  BY <1>1, <1>7 DEF Inv, ServedInv
<1>10. StreamInv'
  <2>1. MemberStart(i) % Sector = 0 => offset % Sector = 0
    BY <1>1 DEF Inv, StreamInv
  <2>2. ASSUME InFirstCluster(i)
        PROVE  /\ FirstOnDisk => spos' = FilePosition(MemberStart(i) + Here)
               /\ Whole(i) => (spos' % Sector = 0 \/ (spos' % Sector) + rest' <= Sector)
    <3>1. cluster = FirstCluster /\ total = size  BY <1>1, <2>2 DEF Inv, ServedInv
    <3>2. MemberStart(i) \in Nat  BY <1>2, Starts
    <3>3. offset = MemberStart(i) /\ Here = 0  BY <1>2, <1>3, <3>1, <3>2
    <3>4. offset < ClusterBytes
      BY <1>2, <1>3, <2>2, <3>2, <3>3, ClusterSize DEF InFirstCluster
    <3>5. FirstOnDisk => spos' = FilePosition(MemberStart(i) + Here)
      BY <1>4, <3>1, <3>2, <3>3, <3>4
    <3>6. spos' % Sector \in Nat
      <4>1. spos' \in Int  BY <1>4, FatAssumption
      <4> QED  BY <4>1, Remainder
    <3>7. Whole(i) => (spos' % Sector = 0 \/ (spos' % Sector) + rest' <= Sector)
      <4>1. offset % Sector = spos' % Sector  BY <1>4
      <4>2. Sector \in Nat  BY ClusterSize
      <4>3. rest' <= size  BY <1>5, <3>1
      <4> QED  BY <1>2, <1>5, <3>3, <3>6, <4>1, <4>2, <4>3 DEF Whole
    <3> QED  BY <3>5, <3>7
  <2>3. FilePosition(MemberStart(i) + Here)' = FilePosition(MemberStart(i) + Here)
    BY <1>7 DEF FilePosition
  <2> QED  BY <1>1, <1>4, <1>7, <2>1, <2>2, <2>3 DEF StreamInv, FirstOnDisk
<1>11. StoredInv'  BY <1>1, SameStored DEF Inv
<1> QED  BY <1>6, <1>8, <1>9, <1>10, <1>11 DEF Inv

(* The rest of a member that a cluster did not hold.                        *)
LEMMA NextClusterInv ==
  ASSUME Inv, NextCluster
  PROVE  Inv'
<1>1. /\ pc = "sectors" /\ rest = 0 /\ total > ClusterBytes /\ pc' = "walk"
      /\ total' = total - ClusterBytes /\ offset' = offset + ClusterBytes
      /\ cluster' = FirstCluster /\ ahead' = (offset + ClusterBytes) \div ClusterBytes
      /\ pos' = pos /\ size' = size /\ nmemb' = nmemb /\ i' = i /\ spos' = spos
      /\ rest' = rest /\ out' = out /\ looked' = looked
  BY DEF NextCluster
<1>2. LocalsInv /\ i \in Nat /\ size \in Nat /\ total \in Nat /\ offset \in Nat
      /\ nmemb \in Nat
  BY DEF Inv, LocalsInv
<1>3. /\ i < nmemb /\ total \in 1 .. size
      /\ offset = MemberStart(i) + (size - total)
      /\ Here = (size - total) + (Lesser(total, ClusterBytes) - rest)
  BY <1>1 DEF Inv, CountersInv
<1>4. FirstCluster \in Nat \ {0}  BY FatAssumption
<1>5. MemberStart(i) \in Nat  BY <1>2, Starts
<1>6. ahead' \in Nat  BY <1>1, <1>2, ClusterSize
<1>7. total' \in Nat /\ offset' \in Nat  BY <1>1, <1>2, ClusterSize
<1>8. LocalsInv'  BY <1>1, <1>2, <1>4, <1>6, <1>7 DEF LocalsInv
<1>9. /\ Here' = Here /\ MemberStart(i)' = MemberStart(i)
      /\ \A m : InFirstCluster(m)' <=> InFirstCluster(m)
      /\ InFirstCluster(i)' <=> InFirstCluster(i)
  BY <1>1 DEF Here, MemberStart, InFirstCluster
<1>10. CountersInv'
  <2>1. total' \in 1 .. size /\ offset' = MemberStart(i) + (size - total')
    BY <1>1, <1>2, <1>3, <1>5, ClusterSize
  <2>2. Here' = size - total'
    BY <1>1, <1>2, <1>3, <1>9, ClusterSize DEF Lesser
  <2>3. Here' \in 0 .. size /\ rest' <= total'  BY <1>1, <1>2, <1>7, <2>1, <2>2
  <2> QED  BY <1>1, <1>2, <1>3, <1>4, <1>9, <2>1, <2>2, <2>3 DEF CountersInv
<1>11. ~ InFirstCluster(i)
  BY <1>1, <1>2, <1>3, <1>5, ClusterSize DEF InFirstCluster
<1>12. ServedInv'  BY <1>1, <1>9, <1>11 DEF Inv, ServedInv
<1>13. StreamInv'
  <2>1. MemberStart(i) % Sector = 0 => offset % Sector = 0
    BY <1>1 DEF Inv, StreamInv
  <2>2. offset' = SectorsPerCluster * Sector + offset
    <3>1. ClusterBytes \in Nat  BY ClusterSize
    <3>2. offset' = ClusterBytes + offset  BY <1>1, <1>2, <3>1
    <3> QED  BY <3>2 DEF ClusterBytes
  <2>3. (SectorsPerCluster * Sector + offset) % Sector = offset % Sector
    <3>1. SectorsPerCluster \in Int /\ offset \in Int /\ Sector \in Nat \ {0}
      BY <1>2, ClusterSize
    <3> QED  BY <3>1, RemainderOfSum
  <2> QED  BY <1>1, <1>9, <2>1, <2>2, <2>3 DEF StreamInv
<1>14. StoredInv'  BY <1>1, SameStored DEF Inv
<1> QED  BY <1>8, <1>10, <1>12, <1>13, <1>14 DEF Inv

(* The member is complete.                                                  *)
LEMMA MemberReadInv ==
  ASSUME Inv, MemberRead
  PROVE  Inv'
<1>1. /\ pc = "sectors" /\ rest = 0 /\ total <= ClusterBytes /\ pc' = "member"
      /\ i' = i + 1 /\ offset' = pos + (i + 1) * size
      /\ pos' = pos /\ size' = size /\ nmemb' = nmemb /\ total' = total
      /\ cluster' = cluster /\ ahead' = ahead /\ spos' = spos /\ rest' = rest
      /\ out' = out /\ looked' = looked
  BY DEF MemberRead
<1>2. LocalsInv /\ i \in Nat /\ size \in Nat /\ total \in Nat /\ nmemb \in Nat /\ pos \in Nat
      /\ out \in Seq(Bytes)
  BY DEF Inv, LocalsInv
<1>3. /\ i < nmemb /\ total \in 1 .. size
      /\ Here = (size - total) + (Lesser(total, ClusterBytes) - rest)
  BY <1>1 DEF Inv, CountersInv
<1>4. Here = size  BY <1>1, <1>2, <1>3, ClusterSize DEF Lesser
<1>5. i * size \in Nat /\ (i + 1) * size = i * size + size /\ (i + 1) * size \in Nat
  BY <1>2, Members
<1>6. Len(out) \in Nat  BY <1>2
<1>7. Here' = 0
  <2>1. Len(out) - i * size = size  BY <1>4 DEF Here
  <2> QED  BY <1>1, <1>2, <1>5, <1>6, <2>1 DEF Here
<1>8. LocalsInv'
  <2>1. offset' \in Nat  BY <1>1, <1>2, <1>5
  <2> QED  BY <1>1, <1>2, <2>1 DEF LocalsInv
<1>9. \A m : InFirstCluster(m)' <=> InFirstCluster(m)
  BY <1>1 DEF MemberStart, InFirstCluster
<1>10. CountersInv'
  <2>1. offset' = MemberStart(i)'
    BY <1>1 DEF MemberStart
  <2> QED  BY <1>1, <1>2, <1>3, <1>7, <2>1 DEF CountersInv
<1>11. ServedInv'  BY <1>1, <1>9 DEF Inv, ServedInv
<1>12. StreamInv'  BY <1>1 DEF StreamInv
<1>13. StoredInv'
  <2>1. \A m, k : Right(m, k)' <=> Right(m, k)
    BY <1>1 DEF Right, InFirstCluster, Whole, Stored, MemberStart
  <2>2. \A m \in 0 .. (i - 1), k \in 0 .. (size - 1) : Right(m, k)
    BY DEF Inv, StoredInv
  <2>3. \A k \in 0 .. (size - 1) : Right(i, k)
    BY <1>1, <1>4 DEF Inv, StoredInv
  <2>4. \A m \in 0 .. i : m \in 0 .. (i - 1) \/ m = i  BY <1>2
  <2> QED  BY <1>1, <1>2, <2>1, <2>2, <2>3, <2>4 DEF StoredInv
<1> QED  BY <1>8, <1>10, <1>11, <1>12, <1>13 DEF Inv

(* One sector: the bytes stored before stay, the new ones are right.        *)
LEMMA ReadSectorInv ==
  ASSUME Inv, ReadSector
  PROVE  Inv'
<1> DEFINE n == Lesser(rest, Sector)
           c == Copied(n)
<1>1. /\ pc = "sectors" /\ rest > 0 /\ pc' = pc /\ Answered(spos)
      /\ out' = out \o c /\ spos' = ToInt(spos + n) /\ rest' = rest - n
      /\ pos' = pos /\ size' = size /\ nmemb' = nmemb /\ i' = i /\ offset' = offset
      /\ total' = total /\ cluster' = cluster /\ ahead' = ahead /\ looked' = looked
  BY DEF ReadSector
<1>2. LocalsInv /\ i \in Nat /\ size \in Nat /\ total \in Nat /\ offset \in Nat
      /\ nmemb \in Nat /\ rest \in Nat /\ spos \in Int /\ out \in Seq(Bytes)
      /\ Len(out) \in Nat
  BY FatAssumption DEF Inv, LocalsInv
<1>3. /\ i < nmemb /\ cluster > 0 /\ total \in 1 .. size
      /\ offset = MemberStart(i) + (size - total)
      /\ rest <= Lesser(total, ClusterBytes)
      /\ Here = (size - total) + (Lesser(total, ClusterBytes) - rest)
  BY <1>1 DEF Inv, CountersInv
<1>4. Sector \in Nat \ {0} /\ Lesser(total, ClusterBytes) \in 0 .. total
  BY <1>2, ClusterSize DEF Lesser
<1>5. n \in 1 .. rest /\ n <= Sector
      /\ (rest > Sector => n = Sector) /\ (rest <= Sector => n = rest)
  BY <1>1, <1>2, <1>4 DEF Lesser
<1> HIDE DEF n
<1>6. /\ c \in Seq(Bytes) /\ Len(c) = n
      /\ spos % Sector = 0 => spos \in Nat
      /\ spos \in Nat =>
           \A j \in 1 .. n : (spos % Sector) + j <= Sector => c[j] = spos + j - 1
  BY <1>1, <1>2, <1>5, CopiedBytes
<1> HIDE DEF c
<1>7. /\ out' \in Seq(Bytes) /\ Len(out') = Len(out) + n
      /\ \A j \in 1 .. Len(out) : out'[j] = out[j]
      /\ \A j \in 1 .. n : out'[Len(out) + j] = c[j]
  <2>1. /\ out \o c \in Seq(Bytes) /\ Len(out \o c) = Len(out) + Len(c)
        /\ \A j \in 1 .. Len(out) + Len(c) :
             (out \o c)[j] = IF j <= Len(out) THEN out[j] ELSE c[j - Len(out)]
    BY <1>2, <1>6, ConcatProperties
  <2>2. \A j \in 1 .. Len(out) + n :
          out'[j] = IF j <= Len(out) THEN out[j] ELSE c[j - Len(out)]
    BY <1>1, <1>6, <2>1
  <2>3. \A j \in 1 .. Len(out) : out'[j] = out[j]
    BY <1>2, <1>5, <2>2
  <2>4. ASSUME NEW j \in 1 .. n PROVE out'[Len(out) + j] = c[j]
    <3>1. /\ Len(out) + j \in 1 .. Len(out) + n /\ ~ (Len(out) + j <= Len(out))
          /\ (Len(out) + j) - Len(out) = j
      BY <1>2, <1>5
    <3> QED  BY <2>2, <3>1
  <2> QED  BY <1>1, <1>6, <2>1, <2>3, <2>4
<1>8. i * size \in Nat /\ MemberStart(i) \in Nat  BY <1>2, Starts
<1>9. Here \in Nat /\ Len(out) = i * size + Here /\ Here' = Here + n
  <2>1. Here \in Nat  BY <1>2, <1>3, <1>4
  <2>2. Here = Len(out) - i * size /\ Here' = Len(out') - i' * size'  BY DEF Here
  <2>3. i' * size' = i * size  BY <1>1
  <2> QED  BY <1>2, <1>5, <1>7, <1>8, <2>1, <2>2, <2>3
<1>10. LocalsInv'
  <2>1. spos + n \in Int /\ rest' \in Nat  BY <1>1, <1>2, <1>5
  <2>2. spos' \in -Half .. Half - 1  BY <1>1, <2>1, ToIntIs
  <2> QED  BY <1>1, <1>2, <1>7, <2>1, <2>2 DEF LocalsInv
<1>11. /\ MemberStart(i)' = MemberStart(i)
       /\ \A m : /\ InFirstCluster(m)' <=> InFirstCluster(m)
                 /\ Whole(m)' <=> Whole(m)
                 /\ MemberStart(m)' = MemberStart(m)
       /\ InFirstCluster(i)' <=> InFirstCluster(i)
       /\ Whole(i)' <=> Whole(i)
  BY <1>1 DEF MemberStart, InFirstCluster, Whole
<1>12. CountersInv'
  <2> DEFINE l == Lesser(total, ClusterBytes)
  <2>1. Lesser(total, ClusterBytes)' = l  BY <1>1 DEF Lesser, ClusterBytes
  <2>2. l \in Nat /\ rest <= l /\ Here = (size - total) + (l - rest)  BY <1>3, <1>4
  <2> HIDE DEF l
  <2>3. rest' <= l /\ Here' = (size - total) + (l - rest')
    BY <1>1, <1>2, <1>5, <1>9, <2>2
  <2>4. size > 0  BY <1>2, <1>3
  <2>5. rest' <= total /\ Here' \in 0 .. size
    <3>1. l <= total  BY <1>2, <1>4 DEF l
    <3>2. rest' \in Nat /\ total \in Nat /\ size \in Nat /\ total <= size
      BY <1>1, <1>2, <1>3, <1>5
    <3>3. Here' \in Nat  BY <1>5, <1>9
    <3>4. l \in Nat /\ rest' <= l /\ Here' = (size - total) + (l - rest')  BY <2>2, <2>3
    <3>5. rest' <= total  BY <3>1, <3>2, <3>4
    <3>6. Here' <= size
      <4>1. \A s, t, m, r \in Nat : t <= s /\ m <= t => (s - t) + (m - r) <= s
        OBVIOUS
      <4> QED  BY <3>1, <3>2, <3>4, <4>1
    <3> QED  BY <3>3, <3>5, <3>6, <3>2
  <2>6. /\ i' < nmemb' /\ total' \in 1 .. size' /\ rest' <= total' /\ Here' \in 0 .. size'
        /\ cluster' > 0 /\ offset' = MemberStart(i)' + (size' - total')
        /\ size' > 0 /\ i' <= nmemb'
    BY <1>1, <1>2, <1>3, <1>11, <2>4, <2>5
  <2>7. /\ rest' <= Lesser(total, ClusterBytes)'
        /\ Here' = (size' - total') + (Lesser(total, ClusterBytes)' - rest')
    BY <1>1, <2>1, <2>3
  <2> QED  BY <1>1, <2>6, <2>7 DEF CountersInv
<1>13. ServedInv'  BY <1>1, <1>11 DEF Inv, ServedInv
<1>14. spos % Sector \in 0 .. (Sector - 1)  BY <1>2, Remainder
<1>15. /\ MemberStart(i) % Sector = 0 => offset % Sector = 0 /\ spos % Sector = 0
       /\ InFirstCluster(i) =>
            /\ FirstOnDisk => spos = FilePosition(MemberStart(i) + Here)
            /\ Whole(i) => (spos % Sector = 0 \/ (spos % Sector) + rest <= Sector)
  BY <1>1 DEF Inv, StreamInv
<1>16. \A o, d \in Nat : FilePosition(o + d) = FilePosition(o) + d /\ FilePosition(o) \in Nat
  BY FirstPositions
<1>17. StreamInv'
  <2>1. ASSUME rest' > 0
        PROVE  /\ spos' % Sector = spos % Sector
               /\ (spos % Sector) + rest <= Sector => spos % Sector = 0
    <3>1. rest > Sector  BY <1>1, <1>2, <1>4, <1>5, <2>1
    <3>2. spos + n \in Int /\ spos + n = 1 * Sector + spos
      BY <1>2, <1>4, <1>5, <3>1
    <3>3. spos' % Sector = (spos + n) % Sector  BY <1>1, <3>2, ToIntIs
    <3>4. \A a \in Int : (a * Sector + spos) % Sector = spos % Sector
      BY <1>2, <1>4, RemainderOfSum
    <3>5. spos' % Sector = spos % Sector  BY <3>2, <3>3, <3>4
    <3> QED  BY <1>2, <1>4, <1>14, <3>1, <3>5
  <2>2. ASSUME rest' > 0, FirstOnDisk, InFirstCluster(i)
        PROVE  spos' = FilePosition(MemberStart(i) + Here')
    <3> DEFINE o == MemberStart(i) + Here
    <3>1. MemberStart(i) + Here' = o + n /\ o \in Nat /\ n \in Nat
      BY <1>5, <1>8, <1>9
    <3>2. spos + n = FilePosition(o + n) /\ FilePosition(o + n) \in Nat
      <4>1. spos = FilePosition(o)  BY <1>15, <2>2
      <4> HIDE DEF o
      <4>2. o + n \in Nat  BY <3>1
      <4> QED  BY <1>16, <3>1, <4>1, <4>2
    <3>3. o + n < ClusterBytes
      <4>1. Here' < size
        <5> DEFINE l == Lesser(total, ClusterBytes)
        <5>1. l \in 0 .. total /\ rest <= l /\ Here = (size - total) + (l - rest)
          BY <1>3, <1>4
        <5> HIDE DEF l
        <5>2. n < rest /\ Here' = Here + n  BY <1>1, <1>2, <1>5, <1>9, <2>2
        <5>3. l \in Nat /\ l <= total /\ total \in Nat /\ size \in Nat /\ total <= size
              /\ rest \in Nat /\ n \in Nat
          BY <1>2, <1>3, <1>5, <5>1
        <5> QED  BY <5>1, <5>2, <5>3
      <4>2. MemberStart(i) + size <= ClusterBytes  BY <2>2 DEF InFirstCluster
      <4>3. \A a, h, s, b \in Nat : h < s /\ a + s <= b => a + h < b  OBVIOUS
      <4>4. MemberStart(i) \in Nat /\ Here' \in Nat /\ size \in Nat /\ ClusterBytes \in Nat
        BY <1>2, <1>5, <1>8, <1>9, ClusterSize
      <4>5. MemberStart(i) + Here' < ClusterBytes  BY <4>1, <4>2, <4>3, <4>4
      <4> QED  BY <3>1, <4>5
    <3> HIDE DEF o
    <3>4. FilePosition(o + n) < Half  BY <2>2, <3>1, <3>3, FirstPositions
    <3>5. Half \in Nat /\ spos + n \in -Half .. Half - 1
      BY <3>2, <3>4, FatAssumption
    <3>6. ToInt(spos + n) = spos + n  BY <3>2, <3>5, ToIntIs
    <3> QED  BY <1>1, <3>1, <3>2, <3>6
  <2>3. FilePosition(MemberStart(i) + Here)' = FilePosition(MemberStart(i) + Here')
    BY <1>11 DEF FilePosition
  <2>4. FirstOnDisk' <=> FirstOnDisk  BY DEF FirstOnDisk, FilePosition
  <2> QED  BY <1>1, <1>11, <1>15, <2>1, <2>2, <2>3, <2>4 DEF StreamInv
<1>18. StoredInv'
  <2>1. \A m, k : FilePosition(MemberStart(m) + k)' = FilePosition(MemberStart(m) + k)
    BY <1>11 DEF FilePosition
  <2>2. ASSUME NEW m \in Nat, NEW k \in Nat, m * size + k + 1 \in 1 .. Len(out), Right(m, k)
        PROVE  Right(m, k)'
    <3>1. Stored(m, k)' = Stored(m, k)  BY <1>1, <1>7, <2>2 DEF Stored
    <3> QED  BY <1>11, <2>1, <2>2, <3>1 DEF Right
  <2>3. ASSUME NEW m \in 0 .. (i - 1), NEW k \in 0 .. (size - 1) PROVE Right(m, k)'
    <3>1. m \in Nat /\ k \in Nat /\ m < i  BY <1>2
    <3>2. m * size \in Nat /\ m * size + size <= i * size  BY <1>2, <3>1, Members
    <3>3. m * size + k + 1 \in 1 .. Len(out)  BY <1>2, <1>8, <1>9, <3>1, <3>2
    <3>4. Right(m, k)  BY DEF Inv, StoredInv
    <3> QED  BY <2>2, <3>1, <3>3, <3>4
  <2>4. ASSUME NEW k \in 0 .. (Here - 1) PROVE Right(i, k)'
    <3>1. Right(i, k)  BY <1>1 DEF Inv, StoredInv
    <3>2. k \in Nat /\ i * size + k + 1 \in 1 .. Len(out)  BY <1>8, <1>9
    <3>3. Stored(i, k)' = Stored(i, k)  BY <1>1, <1>7, <3>2 DEF Stored
    <3>4. FilePosition(MemberStart(i) + k)' = FilePosition(MemberStart(i) + k)
      BY <1>11 DEF FilePosition
    <3> QED  BY <1>11, <3>1, <3>3, <3>4 DEF Right
  <2>5. ASSUME NEW j \in 1 .. n, NEW k, k = Here + j - 1 PROVE Right(i, k)'
    <3>1. k \in Nat /\ j \in Nat /\ i * size + k + 1 = Len(out) + j
      BY <1>5, <1>8, <1>9, <2>5
    <3>2. out'[i * size + k + 1] = c[j]  BY <1>7, <3>1
    <3>3. ASSUME spos \in Nat, (spos % Sector) + j <= Sector
          PROVE  c[j] = spos + j - 1 /\ c[j] # Junk
      <4>1. c[j] = spos + j - 1  BY <1>6, <3>3
      <4> QED  BY <3>1, <3>3, <4>1 DEF Junk
    <3>4. ASSUME MemberStart(i) % Sector = 0 PROVE c[j] # Junk
      <4>1. (spos % Sector) + j <= Sector  BY <1>4, <1>5, <1>15, <3>4
      <4>2. spos \in Nat  BY <1>6, <1>15, <3>4
      <4> QED  BY <3>3, <4>1, <4>2
    <3>5. ASSUME FirstOnDisk, InFirstCluster(i), Whole(i)
          PROVE  c[j] = FilePosition(MemberStart(i) + k)
      <4>1. (spos % Sector) + j <= Sector
        BY <1>2, <1>4, <1>5, <1>14, <1>15, <3>5
      <4>2. spos = FilePosition(MemberStart(i) + Here)  BY <1>15, <3>5
      <4>3. spos \in Nat
        <5>1. MemberStart(i) + Here \in Nat  BY <1>8, <1>9
        <5> QED  BY <4>2, <5>1, FirstPositions
      <4>4. c[j] = spos + j - 1  BY <3>3, <4>1, <4>3
      <4>5. FilePosition(MemberStart(i) + k) = spos + j - 1
        <5> DEFINE b == ClusterToSector(FirstCluster) * Sector
        <5>1. b \in Nat
          <6>1. FirstCluster \in Nat /\ FirstCluster >= 2  BY FatAssumption
          <6> QED  BY <6>1, ClusterStart
        <5>2. \A o : FilePosition(o) = b + o  BY DEF FilePosition
        <5> HIDE DEF b
        <5>3. /\ FilePosition(MemberStart(i) + k) = b + (MemberStart(i) + k)
              /\ spos = b + (MemberStart(i) + Here)
          BY <4>2, <5>2, Zenon
        <5>4. MemberStart(i) \in Nat /\ Here \in Nat  BY <1>8, <1>9
        <5> QED  BY <2>5, <3>1, <5>1, <5>3, <5>4
      <4> QED  BY <4>4, <4>5
    <3>6. Stored(i, k)' = c[j]  BY <1>1, <3>2 DEF Stored
    <3>7. FilePosition(MemberStart(i) + k)' = FilePosition(MemberStart(i) + k)
      BY <1>11 DEF FilePosition
    <3>8. FirstOnDisk' <=> FirstOnDisk  BY DEF FirstOnDisk, FilePosition
    <3> QED  BY <1>11, <3>4, <3>5, <3>6, <3>7, <3>8 DEF Right
  <2>6. ASSUME NEW k \in 0 .. (Here' - 1) PROVE Right(i, k)'
    <3>1. CASE k < Here
      <4>1. k \in 0 .. (Here - 1)  BY <1>9, <3>1
      <4> QED  BY <2>4, <4>1
    <3>2. CASE k >= Here
      <4>1. (k - Here) + 1 \in 1 .. n /\ Here + ((k - Here) + 1) - 1 = k
        BY <1>5, <1>9, <3>2
      <4> QED  BY <2>5, <4>1
    <3> QED  BY <1>9, <3>1, <3>2
  <2> QED  BY <1>1, <2>3, <2>6 DEF StoredInv
<1> QED  BY <1>10, <1>12, <1>13, <1>17, <1>18 DEF Inv

(* The driver polls for a sector that is not there.                         *)
LEMMA DiskWaitsInv ==
  ASSUME Inv, DiskWaits
  PROVE  Inv'
<1>1. /\ pc \in {"walk", "sectors"} /\ pc' = "waits"
      /\ pos' = pos /\ size' = size /\ nmemb' = nmemb /\ i' = i
      /\ offset' = offset /\ total' = total /\ cluster' = cluster /\ ahead' = ahead
      /\ spos' = spos /\ rest' = rest /\ out' = out /\ looked' = looked
  BY DEF DiskWaits, locals
<1>2. Here' = Here /\ \A m : InFirstCluster(m)' <=> InFirstCluster(m)
  BY <1>1 DEF Here, MemberStart, InFirstCluster
<1>3. LocalsInv'  BY <1>1 DEF Inv, LocalsInv
<1>4. CountersInv'  BY <1>1, <1>2 DEF Inv, CountersInv
<1>5. ServedInv'  BY <1>1, <1>2 DEF Inv, ServedInv
<1>6. StreamInv'  BY <1>1 DEF StreamInv
<1>7. StoredInv'  BY <1>1, SameStored DEF Inv
<1> QED  BY <1>3, <1>4, <1>5, <1>6, <1>7 DEF Inv

(* A step that changes nothing.                                             *)
LEMMA SameInv ==
  ASSUME Inv, UNCHANGED vars
  PROVE  Inv'
<1>1. /\ pos' = pos /\ pc' = pc /\ size' = size /\ nmemb' = nmemb /\ i' = i
      /\ offset' = offset /\ total' = total /\ cluster' = cluster /\ ahead' = ahead
      /\ spos' = spos /\ rest' = rest /\ out' = out /\ looked' = looked
  BY DEF vars, locals
<1>2. /\ Here' = Here
      /\ \A m : /\ MemberStart(m)' = MemberStart(m)
                /\ InFirstCluster(m)' <=> InFirstCluster(m)
      /\ MemberStart(i)' = MemberStart(i)
      /\ InFirstCluster(i)' <=> InFirstCluster(i)
      /\ Whole(i)' <=> Whole(i)
      /\ FilePosition(MemberStart(i) + Here)' = FilePosition(MemberStart(i) + Here)
      /\ FirstOnDisk' <=> FirstOnDisk
  BY <1>1 DEF FirstOnDisk, Here, MemberStart, InFirstCluster, Whole, FilePosition
<1>3. LocalsInv'  BY <1>1 DEF Inv, LocalsInv
<1>4. CountersInv'  BY <1>1, <1>2 DEF Inv, CountersInv
<1>5. ServedInv'  BY <1>1, <1>2 DEF Inv, ServedInv
<1>6. StreamInv'  BY <1>1, <1>2 DEF Inv, StreamInv
<1>7. StoredInv'  BY <1>1, SameStored DEF Inv
<1> QED  BY <1>3, <1>4, <1>5, <1>6, <1>7 DEF Inv

(* A file that was just opened.                                             *)
LEMMA InitInv == Init => Inv
<1> SUFFICES ASSUME Init PROVE Inv
  OBVIOUS
<1>1. LocalsInv
  <2>1. <<>> \in Seq(Bytes)  BY EmptySeq
  <2>2. 0 \in -Half .. Half - 1  BY FatAssumption
  <2> QED  BY <2>1, <2>2 DEF Init, LocalsInv
<1>2. CountersInv /\ ServedInv /\ StreamInv
  BY DEF Init, CountersInv, ServedInv, StreamInv
<1>3. StoredInv  BY DEF Init, StoredInv
<1> QED  BY <1>1, <1>2, <1>3 DEF Inv

(* Every step keeps the invariant.                                          *)
LEMMA NextInv == Inv /\ [Next]_vars => Inv'
<1> SUFFICES ASSUME Inv, [Next]_vars PROVE Inv'
  OBVIOUS
<1>1. CASE UNCHANGED vars  BY <1>1, SameInv
<1>2. ASSUME NEW o \in Offsets, FseekSet(o) \/ FseekCur(o) PROVE Inv'
  BY <1>2, SeekingInv
<1>3. ASSUME NEW o \in Offsets, FseekRefused(o) PROVE Inv'
  BY <1>3, SameInv DEF FseekRefused
<1>4. ASSUME NEW s \in Sizes, NEW n \in Counts, Fread(s, n) PROVE Inv'
  BY <1>4, FreadInv
<1>5. ASSUME NEW s \in Sizes, NEW n \in Counts, FreadRefused(s, n) PROVE Inv'
  BY <1>5, SameInv DEF FreadRefused
<1>6. CASE Member  BY <1>6, MemberInv
<1>7. CASE LastMember  BY <1>7, ReturnInv DEF LastMember
<1>8. ASSUME NEW word \in Words, WalkOn(word) PROVE Inv'  BY <1>8, WalkOnInv
<1>9. ASSUME NEW word \in Words, WalkFails(word) PROVE Inv'
  BY <1>9, ReturnInv DEF WalkFails
<1>10. CASE Seek  BY <1>10, SeekInv
<1>11. CASE ReadSector  BY <1>11, ReadSectorInv
<1>12. CASE NextCluster  BY <1>12, NextClusterInv
<1>13. CASE MemberRead  BY <1>13, MemberReadInv
<1>14. CASE DiskWaits  BY <1>14, DiskWaitsInv
<1>15. CASE Polls  BY <1>15, SameInv DEF Polls
<1> QED
  BY <1>1, <1>2, <1>3, <1>4, <1>5, <1>6, <1>7, <1>8, <1>9, <1>10, <1>11, <1>12, <1>13,
     <1>14, <1>15 DEF Next, Steps

-----------------------------------------------------------------------------
(* The theorems.                                                            *)

(* Whatever the words of the disk are, the loops of fat16_read,             *)
(* fat16_read_internal_from_stream and diskstreamer_read (src/fs/fat16.c,   *)
(* src/fs/streamer.c) store no more than was asked for, their counters do   *)
(* not run past their bounds, and the stream's position is an int.          *)
THEOREM ReadTypeOK == Spec => []FatTypeOK
<1>1. Inv => FatTypeOK
  <2> SUFFICES ASSUME Inv PROVE FatTypeOK
    OBVIOUS
  <2>1. /\ pc \in {"idle", "member", "walk", "sectors", "waits"}
        /\ {pos, size, nmemb, i, offset, total, cluster, ahead, rest} \subseteq Nat
        /\ spos \in -Half .. Half - 1
        /\ out \in Seq(Bytes)
    BY DEF Inv, LocalsInv
  <2>2. i \in Nat /\ size \in Nat /\ nmemb \in Nat /\ total \in Nat /\ rest \in Nat
        /\ Len(out) \in Nat
    BY <2>1
  <2>3. i * size \in Nat /\ nmemb * size \in Nat /\ size * nmemb = nmemb * size
        /\ (i < nmemb => i * size + size <= nmemb * size)
        /\ (i <= nmemb => i * size <= nmemb * size)
    BY <2>2, Members
  <2>4. Here = Len(out) - i * size  BY DEF Here
  <2>5. CountersInv  BY DEF Inv
  <2>6. CASE pc = "idle"
    <3>1. i <= nmemb /\ rest <= total /\ total <= size /\ out = <<>>
      BY <2>5, <2>6 DEF CountersInv
    <3>2. Len(out) <= size * nmemb  BY <2>2, <2>3, <3>1
    <3> QED  BY <2>1, <3>1, <3>2 DEF FatTypeOK
  <2>7. CASE pc # "idle"
    <3>1. i <= nmemb  BY <2>5, <2>7 DEF CountersInv
    <3>2. rest <= total /\ total <= size
      BY <2>1, <2>2, <2>5, <2>7 DEF CountersInv
    <3>3. Len(out) <= size * nmemb
      <4>1. CASE pc = "member"
        <5>1. Here = 0 /\ i <= nmemb  BY <2>5, <4>1 DEF CountersInv
        <5> QED  BY <2>2, <2>3, <2>4, <5>1
      <4>2. CASE pc \in {"walk", "sectors", "waits"}
        <5>1. i < nmemb /\ Here <= size  BY <2>2, <2>5, <4>2 DEF CountersInv
        <5> QED  BY <2>2, <2>3, <2>4, <5>1
      <4> QED  BY <2>1, <2>7, <4>1, <4>2
    <3>4. \A k \in DOMAIN out : out[k] = Junk \/ out[k] \in Nat
      BY <2>1 DEF Bytes
    <3> QED  BY <2>1, <3>1, <3>2, <3>3, <3>4 DEF FatTypeOK
  <2> QED  BY <2>6, <2>7
<1> QED  BY InitInv, NextInv, <1>1, PTL DEF Spec

(* A member that lies in the first cluster, and starts with a sector or     *)
(* stays in one, is stored byte for byte: what process_load_binary          *)
(* (src/proc/process.c) and open_file (src/sys/kernel.c) need of fread.     *)
THEOREM ReadMembersExact == Spec => []MembersExact
<1>1. Inv => MembersExact
  BY DEF Inv, StoredInv, MembersExact, Right
<1> QED  BY InitInv, NextInv, <1>1, PTL DEF Spec

(* A member that starts with a sector gets nothing from behind the buffer of*)
(* diskstreamer_read (src/fs/streamer.c), however many sectors and clusters *)
(* it takes and wherever the table leads.                                   *)
THEOREM ReadAlignedNoJunk == Spec => []AlignedNoJunk
<1>1. Inv => AlignedNoJunk
  BY DEF Inv, StoredInv, AlignedNoJunk, Right
<1> QED  BY InitInv, NextInv, <1>1, PTL DEF Spec

(* Inside a first cluster that is on the disk, the stream stands on the disk *)
(* whenever diskstreamer_read (src/fs/streamer.c) fetches a sector.         *)
LEMMA FirstIsAnswered ==
  ASSUME Inv, pc # "idle", InFirst, FirstOnDisk
  PROVE  ~ DiskWaits
<1> SUFFICES ASSUME DiskWaits PROVE FALSE
  OBVIOUS
<1>1. pc \in {"walk", "sectors"}  BY DEF DiskWaits
<1>2. i \in Nat /\ nmemb \in Nat /\ i < nmemb /\ size \in Nat /\ total \in 1 .. size
      /\ rest \in Nat /\ Here \in 0 .. size
  BY <1>1 DEF Inv, LocalsInv, CountersInv
<1>3. InFirstCluster(i)  BY <1>2 DEF InFirst
<1>4. CASE pc = "walk"
  <2>1. ahead = 0  BY <1>3, <1>4 DEF Inv, ServedInv
  <2> QED  BY <1>4, <2>1 DEF DiskWaits
<1>5. CASE pc = "sectors"
  <2>1. rest > 0 /\ ~ Answered(spos)  BY <1>5 DEF DiskWaits
  <2>2. spos = FilePosition(MemberStart(i) + Here)
    BY <1>3, <1>5, <2>1 DEF Inv, StreamInv
  <2>3. MemberStart(i) \in Nat  BY <1>2, Starts DEF Inv
  <2>4. Here < size
    <3> DEFINE l == Lesser(total, ClusterBytes)
    <3>1. Here = (size - total) + (l - rest) /\ rest <= l
      BY <1>5 DEF Inv, CountersInv
    <3>2. l \in Nat /\ l <= total  BY <1>2, ClusterSize DEF Lesser
    <3> HIDE DEF l
    <3>3. \A s, t, m, r \in Nat : t <= s /\ m <= t /\ r > 0 => (s - t) + (m - r) < s
      OBVIOUS
    <3>4. total \in Nat /\ total <= size  BY <1>2
    <3> QED  BY <1>2, <2>1, <3>1, <3>2, <3>3, <3>4
  <2>5. MemberStart(i) + Here \in Nat /\ MemberStart(i) + Here < ClusterBytes
    BY <1>2, <1>3, <2>3, <2>4, ClusterSize DEF InFirstCluster
  <2> QED  BY <2>1, <2>2, <2>5, FirstPositions
<1> QED  BY <1>1, <1>4, <1>5

(* An fread whose members lie in the first cluster looks up no entry of the *)
(* file allocation table, returns the number of its members if it returns,  *)
(* and never waits for a sector if the cluster is on the disk               *)
(* (src/fs/fat16.c, fat16_get_cluster_for_offset; src/fs/disk.c:25).        *)
THEOREM ReadFirstClusterServed == Spec => FirstClusterServed
<1> DEFINE Served == (pc # "idle" /\ InFirst) =>
                       /\ pc' = "idle" => looked = {} /\ ret' = nmemb
                       /\ FirstOnDisk => pc' # "waits"
<1>1. ASSUME Inv, Next, pc # "idle", pc' = "idle", InFirst
      PROVE  looked = {} /\ ret' = nmemb
  <2>1. looked = {}  BY <1>1 DEF Inv, ServedInv, InFirst
  <2>2. ASSUME NEW word \in Words, WalkFails(word) PROVE FALSE
    <3>1. i \in Nat /\ nmemb \in Nat /\ i < nmemb /\ pc = "walk" /\ ahead > 0
      BY <1>1, <2>2 DEF Inv, LocalsInv, CountersInv, WalkFails
    <3>2. InFirstCluster(i)  BY <1>1, <3>1 DEF InFirst
    <3>3. ahead = 0  BY <1>1, <3>1, <3>2 DEF Inv, ServedInv
    <3> QED  BY <3>1, <3>3
  <2>3. LastMember
    BY <1>1, <2>2 DEF Next, Steps, FseekSet, FseekCur, FseekRefused, Fread, FreadRefused,
       Member, WalkOn, Seek, ReadSector, NextCluster, MemberRead, DiskWaits, Polls, vars
  <2> QED  BY <2>1, <2>3 DEF LastMember, Return
<1>2. ASSUME Inv, Next, pc # "idle", InFirst, FirstOnDisk, pc' = "waits"
      PROVE  UNCHANGED vars
  <2>1. ~ DiskWaits  BY <1>2, FirstIsAnswered
  <2>2. Polls
    BY <1>2, <2>1 DEF Next, Steps, FseekSet, FseekCur, FseekRefused, Fread, FreadRefused,
       Member, LastMember, WalkOn, WalkFails, Return, Seek, ReadSector, NextCluster,
       MemberRead, vars
  <2> QED  BY <2>2 DEF Polls
<1>3. Inv /\ [Next]_vars => [Served]_vars  BY <1>1, <1>2
<1> QED  BY InitInv, NextInv, <1>3, PTL DEF Spec, FirstClusterServed

-----------------------------------------------------------------------------
(* Every fread comes to an end, or to a sector that is not there.           *)

(* What is left to do, the outermost loop first: members, bytes of the      *)
(* member, and links of the walk or bytes of the cluster.                   *)
MembersLeft ==
  IF pc = "waits" THEN 0 ELSE 2 * (nmemb - i) + (IF pc = "member" THEN 1 ELSE 0)
BytesLeft   == 2 * total + (IF pc = "walk" THEN 1 ELSE 0)
InnerLeft   == IF pc = "walk" THEN ahead ELSE rest
ReadLeft    == <<MembersLeft, <<BytesLeft, InnerLeft>>>>

Below     == OpToRel(<, Nat)
ReadOrder == LexPairOrdering(Below, LexPairOrdering(Below, Below, Nat, Nat), Nat, Nat \X Nat)

LEMMA ReadOrderWellFounded == IsWellFoundedOn(ReadOrder, Nat \X (Nat \X Nat))
<1>1. IsWellFoundedOn(Below, Nat)  BY NatLessThanWellFounded, Zenon DEF Below
<1>2. IsWellFoundedOn(LexPairOrdering(Below, Below, Nat, Nat), Nat \X Nat)
  BY <1>1, WFLexPairOrdering, Zenon
<1> QED  BY <1>1, <1>2, WFLexPairOrdering, Zenon DEF ReadOrder

(* One triple is below another at the first place where they differ.        *)
LEMMA ReadOrderIs ==
  ASSUME NEW a \in Nat, NEW b \in Nat, NEW c \in Nat, NEW x \in Nat, NEW y \in Nat, NEW z \in Nat,
         a < x \/ (a = x /\ (b < y \/ (b = y /\ c < z)))
  PROVE  <<<<a, <<b, c>>>>, <<x, <<y, z>>>>>> \in ReadOrder
<1>1. \A m, n \in Nat : m < n => <<m, n>> \in Below  BY DEF Below, OpToRel
<1> DEFINE inner == LexPairOrdering(Below, Below, Nat, Nat)
<1>2. a = x => <<<<b, c>>, <<y, z>>>> \in inner
  BY <1>1 DEF LexPairOrdering
<1> HIDE DEF inner
<1>3. <<a, x>> \in Below \/ (a = x /\ <<<<b, c>>, <<y, z>>>> \in inner)  BY <1>1, <1>2
<1>4. <<<<a, <<b, c>>>>, <<x, <<y, z>>>>>> \in LexPairOrdering(Below, inner, Nat, Nat \X Nat)
  BY <1>3 DEF LexPairOrdering
<1> QED  BY <1>4 DEF ReadOrder, inner

LEMMA ReadLeftIsNat == Inv => MembersLeft \in Nat /\ BytesLeft \in Nat /\ InnerLeft \in Nat
<1> SUFFICES ASSUME Inv PROVE MembersLeft \in Nat /\ BytesLeft \in Nat /\ InnerLeft \in Nat
  OBVIOUS
<1>1. {nmemb, i, total, ahead, rest} \subseteq Nat /\ i <= nmemb  BY DEF Inv, LocalsInv, CountersInv
<1> QED  BY <1>1 DEF MembersLeft, BytesLeft, InnerLeft

(* Each step of an fread brings it nearer to its end.                       *)
LEMMA ReadDecreases ==
  ASSUME Inv, Inv', Next, pc \notin {"idle", "waits"}
  PROVE  <<ReadLeft', ReadLeft>> \in ReadOrder
<1>1. /\ {nmemb, i, total, ahead, rest} \subseteq Nat /\ i <= nmemb
      /\ pc \in {"walk", "sectors"} => i < nmemb
  BY DEF Inv, LocalsInv, CountersInv
<1>2. ClusterBytes \in Nat \ {0} /\ Sector \in Nat \ {0}  BY ClusterSize, FatAssumption
<1>3. \/ MembersLeft' < MembersLeft
      \/ /\ MembersLeft' = MembersLeft
         /\ BytesLeft' < BytesLeft \/ (BytesLeft' = BytesLeft /\ InnerLeft' < InnerLeft)
  <2>1. CASE Member
    <3>1. MembersLeft = 2 * (nmemb - i) + 1 /\ MembersLeft' = 2 * (nmemb - i) + 0
      BY <2>1 DEF Member, MembersLeft
    <3> QED  BY <1>1, <3>1
  <2>2. CASE LastMember \/ \E word \in Words : WalkFails(word)
    <3>1. nmemb' = 0 /\ i' = 0 /\ pc' = "idle" /\ (pc = "member" \/ pc = "walk")
      BY <2>2 DEF LastMember, WalkFails, Return
    <3>2. MembersLeft' = 0  BY <3>1 DEF MembersLeft
    <3>3. MembersLeft > 0  BY <1>1, <3>1 DEF MembersLeft
    <3> QED  BY <3>2, <3>3
  <2>3. ASSUME NEW word \in Words, WalkOn(word)
        PROVE  /\ MembersLeft' = MembersLeft /\ BytesLeft' = BytesLeft
               /\ InnerLeft' < InnerLeft
    BY <1>1, <2>3 DEF WalkOn, MembersLeft, BytesLeft, InnerLeft
  <2>4. CASE Seek
    <3>1. MembersLeft' = MembersLeft  BY <2>4 DEF Seek, MembersLeft
    <3>2. BytesLeft = 2 * total + 1 /\ BytesLeft' = 2 * total + 0  BY <2>4 DEF Seek, BytesLeft
    <3> QED  BY <1>1, <3>1, <3>2
  <2>5. CASE ReadSector
    <3>1. MembersLeft' = MembersLeft /\ BytesLeft' = BytesLeft
      BY <2>5 DEF ReadSector, MembersLeft, BytesLeft
    <3>2. InnerLeft = rest /\ InnerLeft' = rest - Lesser(rest, Sector) /\ rest > 0
      BY <2>5 DEF ReadSector, InnerLeft
    <3>3. Lesser(rest, Sector) \in Nat \ {0}  BY <1>1, <1>2, <3>2 DEF Lesser
    <3> QED  BY <1>1, <3>1, <3>2, <3>3
  <2>6. CASE NextCluster
    <3>1. MembersLeft' = MembersLeft  BY <2>6 DEF NextCluster, MembersLeft
    <3>2. BytesLeft = 2 * total + 0 /\ BytesLeft' = 2 * (total - ClusterBytes) + 1
      BY <2>6 DEF NextCluster, BytesLeft
    <3> QED  BY <1>1, <1>2, <3>1, <3>2
  <2>7. CASE MemberRead
    <3>1. /\ MembersLeft = 2 * (nmemb - i) + 0
          /\ MembersLeft' = 2 * (nmemb - (i + 1)) + 1
      BY <2>7 DEF MemberRead, MembersLeft
    <3> QED  BY <1>1, <3>1
  <2>8. CASE DiskWaits
    <3>1. MembersLeft' = 0 /\ MembersLeft = 2 * (nmemb - i) + 0 /\ i < nmemb
      BY <1>1, <2>8 DEF DiskWaits, MembersLeft
    <3> QED  BY <1>1, <3>1
  <2>9. Steps
    BY DEF Next, FseekSet, FseekCur, FseekRefused, Fread, FreadRefused, Polls
  <2> QED  BY <2>1, <2>2, <2>3, <2>4, <2>5, <2>6, <2>7, <2>8, <2>9 DEF Steps
<1>4. MembersLeft \in Nat /\ BytesLeft \in Nat /\ InnerLeft \in Nat  BY ReadLeftIsNat
<1>5. MembersLeft' \in Nat /\ BytesLeft' \in Nat /\ InnerLeft' \in Nat
  <2>1. Inv' => (MembersLeft \in Nat /\ BytesLeft \in Nat /\ InnerLeft \in Nat)'
    BY ReadLeftIsNat, PTL
  <2> QED  BY <2>1
<1> HIDE DEF MembersLeft, BytesLeft, InnerLeft
<1> QED  BY <1>3, <1>4, <1>5, ReadOrderIs DEF ReadLeft

(* However many members and clusters an fread asks for, and wherever the    *)
(* words it takes for table entries lead, fat16_read and                    *)
(* fat16_read_internal_from_stream (src/fs/fat16.c) do not go round for     *)
(* ever: each step goes down in an order that has no infinite descent, until *)
(* the read returns or waits for a sector the disk does not have. What      *)
(* FreadReturns adds is that the steps are taken.                           *)
THEOREM ReadsEnd ==
  /\ IsWellFoundedOn(ReadOrder, Nat \X (Nat \X Nat))
  /\ Spec => [][pc \notin {"idle", "waits"} => <<ReadLeft', ReadLeft>> \in ReadOrder]_vars
<1> DEFINE Down == pc \notin {"idle", "waits"} => <<ReadLeft', ReadLeft>> \in ReadOrder
<1>1. Inv /\ [Next]_vars => [Down]_vars
  <2> SUFFICES ASSUME Inv, Next, pc \notin {"idle", "waits"} PROVE <<ReadLeft', ReadLeft>> \in ReadOrder
    OBVIOUS
  <2>1. Inv'  BY NextInv
  <2> QED  BY <2>1, ReadDecreases
<1>2. Spec => [][Down]_vars
  BY InitInv, NextInv, <1>1, PTL DEF Spec
<1> QED  BY <1>2, ReadOrderWellFounded
=============================================================================
