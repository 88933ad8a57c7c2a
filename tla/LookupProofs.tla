---------------------------- MODULE LookupProofs -----------------------------
(***************************************************************************)
(* Theorems about module Lookup, for every size of the root directory,      *)
(* every kind of entries a disk may have and every path.                    *)
(*                                                                          *)
(* The invariant follows a call through its loops. While the directory is   *)
(* counted, CountInv says that no end mark was passed and that total is the *)
(* number of entries in use among those read; where the count ends the      *)
(* directory ends, and CountedRight follows. While it is scanned, ScanInv   *)
(* says that found is the last entry before i that is read as the component *)
(* searched for, which is what the properties need to know of the search    *)
(* when it is over (IdleInv).                                               *)
(*                                                                          *)
(* The scan is bounded by a number of entries and not by their positions.   *)
(* That the entry a path names is reached nevertheless is a matter of       *)
(* counting (NoGap), and that it is not replaced by an erased entry behind  *)
(* it rests on how names are read: FirstLetter shows that the byte that     *)
(* marks an erased entry stays at the front of its name, and FieldRead that *)
(* a field padded as the format wants it is read as the format defines it.  *)
(*                                                                          *)
(* The parser takes its components from what is left of the path; the       *)
(* reference, Between, from the positions of all the slashes. Parsed says   *)
(* that the rest begins behind a cut with as many cuts before it as there   *)
(* are components found, and NextCut that the next component ends at the    *)
(* next cut. What Parts makes of a path, the components up to the first     *)
(* empty one, is then what the scan is given.                               *)
(*                                                                          *)
(* Each of the loops counts one thing down, entries of the disk, characters *)
(* of the path or entries of the directory (LookupOrder).                   *)
(***************************************************************************)
EXTENDS Lookup, SequenceTheorems, FiniteSetTheorems, WellFoundedInduction, TLAPS

(* The least element of a set of numbers.                                   *)
LEMMA LeastElement ==
  ASSUME NEW S, S \subseteq Nat, S # {}
  PROVE  Min(S) \in S /\ \A x \in S : Min(S) <= x
<1>1. \E s \in S : \A t \in S : ~ (<<t, s>> \in OpToRel(<, Nat))
  BY NatLessThanWellFounded, WFMin
<1>2. PICK s \in S : \A t \in S : ~ (<<t, s>> \in OpToRel(<, Nat))
  BY <1>1
<1>3. \A t \in S : ~ (t < s)  BY <1>2 DEF OpToRel
<1>4. \A t \in S : s <= t  BY <1>3
<1> QED  BY <1>4 DEF Min

(* A set with a least element in sight.                                     *)
LEMMA LeastIs ==
  ASSUME NEW S, S \subseteq Nat, NEW x \in S, \A y \in S : x <= y
  PROVE  Min(S) = x
<1> DEFINE m == Min(S)
<1>1. m \in S /\ m <= x  BY LeastElement
<1> HIDE DEF m
<1>2. x \in Nat /\ m \in Nat /\ x <= m  BY <1>1
<1>3. x = m  BY <1>1, <1>2
<1> QED  BY <1>3 DEF m

(* A piece of a sequence of bytes, from one position up to another.         *)
LEMMA Piece ==
  ASSUME NEW s \in Seq(Nat), NEW a \in Nat \ {0}, NEW b \in Nat, b <= Len(s), a <= b + 1
  PROVE  /\ SubSeq(s, a, b) \in Seq(Nat) /\ Len(SubSeq(s, a, b)) = b - a + 1
         /\ \A j \in 1 .. b - a + 1 : SubSeq(s, a, b)[j] = s[a + j - 1]
<1> DEFINE t == SubSeq(s, a, b)
<1>1. Len(s) \in Nat /\ \A j \in 1 .. Len(s) : s[j] \in Nat  BY ElementOfSeq
<1>2. a \in Int /\ b \in Int /\ \A j \in a .. b : s[j] \in Nat  BY <1>1
<1>3. /\ t \in Seq(Nat) /\ Len(t) = IF a <= b THEN b - a + 1 ELSE 0
      /\ \A j \in 1 .. b - a + 1 : t[j] = s[a + j - 1]
  BY <1>2, SubSeqProperties
<1> HIDE DEF t
<1>4. (IF a <= b THEN b - a + 1 ELSE 0) = b - a + 1  OBVIOUS
<1>5. Len(t) = b - a + 1  BY <1>3, <1>4
<1> QED  BY <1>3, <1>5 DEF t

(* Two sequences of bytes, one behind the other.                            *)
LEMMA Joined ==
  ASSUME NEW s \in Seq(Nat), NEW t \in Seq(Nat)
  PROVE  /\ s \o t \in Seq(Nat) /\ Len(s \o t) = Len(s) + Len(t)
         /\ \A j \in 1 .. Len(s) + Len(t) :
              (s \o t)[j] = IF j <= Len(s) THEN s[j] ELSE t[j - Len(s)]
BY ConcatProperties

-----------------------------------------------------------------------------
(* Names.                                                                   *)

(* What the entries of a disk are.                                          *)
LEMMA Entries ==
  ASSUME NEW e \in EntryKinds
  PROVE  /\ e \in Seq(Nat) /\ Len(e) = NameLen + ExtLen + 2 /\ e[Len(e)] = Nul
         /\ NameLen \in Nat \ {0} /\ ExtLen \in Nat \ {0}
         /\ \A j \in 1 .. NameLen + ExtLen + 2 : e[j] \in Nat
<1>1. e \in Seq(Nat) /\ Len(e) = NameLen + ExtLen + 2 /\ e[Len(e)] = Nul  BY LookupAssumption
<1>2. NameLen \in Nat \ {0} /\ ExtLen \in Nat \ {0}  BY LookupAssumption
<1> QED  BY <1>1, <1>2, ElementOfSeq

(* fat16_to_proper_string reads up to the first byte that ends a name.      *)
LEMMA ProperUpTo ==
  ASSUME NEW e \in EntryKinds, NEW k \in Nat \ {0}, NEW n \in Nat, n >= k,
         n <= Len(e), IsStop(e[n]), \A j \in k .. (n - 1) : ~ IsStop(e[j])
  PROVE  ToProper(e, k) = SubSeq(e, k, n - 1)
<1> DEFINE I == {j \in k .. Len(e) : IsStop(e[j])}
<1>1. Len(e) \in Nat  BY Entries
<1>2. I \subseteq Nat /\ n \in I  BY <1>1
<1>3. \A j \in I : n <= j
  <2>1. ASSUME NEW j \in I, j < n PROVE FALSE
    <3>1. j \in k .. (n - 1) /\ IsStop(e[j])  BY <1>1, <2>1
    <3> QED  BY <3>1
  <2> QED  BY <1>2, <2>1
<1>4. Min(I) = n /\ I # {}
  <2> HIDE DEF I
  <2> QED  BY <1>2, <1>3, LeastIs
<1>5. SelectInSubSeq(e, k, Len(e), IsStop) = n  BY <1>4 DEF SelectInSubSeq
<1> QED  BY <1>5 DEF ToProper

(* There is such a byte, the reserved one at the latest.                    *)
LEMMA ProperEnds ==
  ASSUME NEW e \in EntryKinds, NEW k \in 1 .. Len(e)
  PROVE  \E n \in k .. Len(e) : /\ IsStop(e[n]) /\ \A j \in k .. (n - 1) : ~ IsStop(e[j])
                                /\ ToProper(e, k) = SubSeq(e, k, n - 1)
<1> DEFINE I == {j \in k .. Len(e) : IsStop(e[j])}
           n == Min(I)
<1>1. Len(e) \in Nat /\ e[Len(e)] = Nul  BY Entries
<1>2. I \subseteq Nat /\ Len(e) \in I  BY <1>1 DEF IsStop
<1>3. n \in I /\ \A j \in I : n <= j
  <2> HIDE DEF I
  <2> QED  BY <1>2, LeastElement
<1>4. n \in k .. Len(e) /\ IsStop(e[n])  BY <1>3
<1>5. \A j \in k .. (n - 1) : ~ IsStop(e[j])
  <2> HIDE DEF n
  <2>1. ASSUME NEW j \in k .. (n - 1), IsStop(e[j]) PROVE FALSE
    <3>1. j \in I  BY <1>1, <1>4, <2>1
    <3> QED  BY <1>1, <1>3, <1>4, <2>1, <3>1
  <2> QED  BY <2>1
<1> HIDE DEF n
<1>6. ToProper(e, k) = SubSeq(e, k, n - 1)  BY <1>1, <1>4, <1>5, ProperUpTo
<1> QED  BY <1>4, <1>5, <1>6

(* The first character of what an entry is read as: that of the entry, or a *)
(* dot.                                                                     *)
LEMMA FirstLetter ==
  ASSUME NEW e \in EntryKinds
  PROVE  /\ e[1] = ErasedMark => 1 \in DOMAIN FullName(e) /\ FullName(e)[1] = ErasedMark
         /\ 1 \in DOMAIN FullName(e) /\ FullName(e)[1] = ErasedMark => e[1] = ErasedMark
<1> DEFINE name == ToProper(e, 1)
           ext  == ToProper(e, NameLen + 1)
<1>1. /\ e \in Seq(Nat) /\ Len(e) = NameLen + ExtLen + 2 /\ NameLen \in Nat \ {0}
      /\ ExtLen \in Nat \ {0} /\ \A j \in 1 .. Len(e) : e[j] \in Nat
  BY Entries
<1>2. \A k \in 1 .. Len(e) :
        /\ ToProper(e, k) \in Seq(Nat)
        /\ Len(ToProper(e, k)) > 0 <=> ~ IsStop(e[k])
        /\ Len(ToProper(e, k)) > 0 => ToProper(e, k)[1] = e[k]
  <2> SUFFICES ASSUME NEW k \in 1 .. Len(e)
               PROVE  /\ ToProper(e, k) \in Seq(Nat)
                      /\ Len(ToProper(e, k)) > 0 <=> ~ IsStop(e[k])
                      /\ Len(ToProper(e, k)) > 0 => ToProper(e, k)[1] = e[k]
    OBVIOUS
  <2>1. PICK n \in k .. Len(e) :
          /\ IsStop(e[n]) /\ \A j \in k .. (n - 1) : ~ IsStop(e[j])
          /\ ToProper(e, k) = SubSeq(e, k, n - 1)
    BY ProperEnds
  <2>2. k \in Int /\ n - 1 \in Int /\ \A j \in k .. (n - 1) : e[j] \in Nat  BY <1>1
  <2> DEFINE t == SubSeq(e, k, n - 1)
  <2>3. /\ t \in Seq(Nat) /\ Len(t) = IF k <= n - 1 THEN (n - 1) - k + 1 ELSE 0
        /\ \A j \in 1 .. (n - 1) - k + 1 : t[j] = e[k + j - 1]
    BY <2>2, SubSeqProperties
  <2> HIDE DEF t
  <2>4. Len(t) > 0 <=> k <= n - 1  BY <1>1, <2>3
  <2>5. k <= n - 1 <=> ~ IsStop(e[k])  BY <1>1, <2>1
  <2>6. Len(t) > 0 => t[1] = e[k]
    <3>1. k <= n - 1 => 1 \in 1 .. (n - 1) - k + 1 /\ k + 1 - 1 = k  BY <1>1
    <3> QED  BY <2>3, <2>4, <3>1
  <2> QED  BY <2>1, <2>3, <2>4, <2>5, <2>6 DEF t
<1>3. 1 \in 1 .. Len(e) /\ NameLen + 1 \in 1 .. Len(e)  BY <1>1
<1>4. /\ name \in Seq(Nat) /\ (Len(name) > 0 <=> ~ IsStop(e[1]))
      /\ Len(name) > 0 => name[1] = e[1]
  BY <1>2, <1>3
<1>5. ext \in Seq(Nat)  BY <1>2, <1>3
<1> HIDE DEF name, ext
<1>6. CASE IsStop(e[NameLen + 1])
  <2>1. FullName(e) = name  BY <1>6 DEF FullName, name
  <2>2. 1 \in DOMAIN name <=> Len(name) > 0  BY <1>4
  <2>3. ~ IsStop(ErasedMark)  BY DEF IsStop, ErasedMark, Nul, Space
  <2> QED  BY <1>4, <2>1, <2>2, <2>3
<1>7. CASE ~ IsStop(e[NameLen + 1])
  <2>1. FullName(e) = name \o <<Dot>> \o ext  BY <1>7 DEF FullName, name, ext
  <2> DEFINE d == <<Dot>>
             u == name \o d
             full == u \o ext
  <2>2. d \in Seq(Nat) /\ Len(d) = 1 /\ d[1] = Dot  BY DEF Dot
  <2> HIDE DEF d
  <2>3. /\ u \in Seq(Nat) /\ Len(u) = Len(name) + 1
        /\ \A j \in 1 .. Len(name) + 1 :
             u[j] = IF j <= Len(name) THEN name[j] ELSE d[j - Len(name)]
    <3>1. /\ u \in Seq(Nat) /\ Len(u) = Len(name) + Len(d)
          /\ \A j \in 1 .. Len(name) + Len(d) :
               u[j] = IF j <= Len(name) THEN name[j] ELSE d[j - Len(name)]
      BY <1>4, <2>2, Joined
    <3> HIDE DEF u
    <3> QED  BY <2>2, <3>1
  <2> HIDE DEF u
  <2>4. /\ full \in Seq(Nat) /\ Len(full) = Len(u) + Len(ext)
        /\ \A j \in 1 .. Len(u) + Len(ext) :
             full[j] = IF j <= Len(u) THEN u[j] ELSE ext[j - Len(u)]
    BY <1>5, <2>3, Joined
  <2> HIDE DEF full
  <2>5. Len(name) \in Nat /\ Len(ext) \in Nat  BY <1>4, <1>5
  <2>6. 1 \in DOMAIN full /\ full[1] = u[1]  BY <2>3, <2>4, <2>5
  <2>7. u[1] = IF Len(name) > 0 THEN e[1] ELSE Dot
    <3>1. CASE Len(name) > 0  BY <1>4, <2>3, <2>5, <3>1
    <3>2. CASE Len(name) = 0
      <4>1. u[1] = d[1 - 0]  BY <2>3, <2>5, <3>2
      <4> QED  BY <2>2, <3>2, <4>1
    <3> QED  BY <2>5, <3>1, <3>2
  <2>8. ~ IsStop(ErasedMark) /\ Dot # ErasedMark
    BY DEF IsStop, ErasedMark, Nul, Space, Dot
  <2>9. FullName(e) = full  BY <2>1 DEF full, u, d
  <2> QED  BY <1>4, <2>6, <2>7, <2>8, <2>9
<1> QED  BY <1>6, <1>7

(* A set with a greatest element in sight.                                  *)
LEMMA GreatestIs ==
  ASSUME NEW S, S \subseteq Nat, NEW x \in S, \A y \in S : y <= x
  PROVE  Max(S) = x
<1> DEFINE m == Max(S)
<1>1. \A y \in S : x >= y  OBVIOUS
<1>2. m \in S /\ \A y \in S : m >= y  BY <1>1 DEF Max
<1> HIDE DEF m
<1>3. x \in Nat /\ m \in Nat /\ m >= x /\ m <= x  BY <1>2
<1>4. m = x  BY <1>3
<1> QED  BY <1>4 DEF m

(* A field that is padded, and followed by a byte that ends it, is read as  *)
(* the format defines it.                                                   *)
LEMMA FieldRead ==
  ASSUME NEW e \in EntryKinds, NEW k \in Nat \ {0}, NEW l \in Nat \ {0}, k + l <= Len(e),
         Padded(SubSeq(e, k, k + l - 1)), IsStop(e[k + l - 1]) \/ IsStop(e[k + l])
  PROVE  /\ ToProper(e, k) = Trimmed(SubSeq(e, k, k + l - 1))
         /\ IsStop(e[k]) => ToProper(e, k) = <<>>
         /\ ~ IsStop(e[k]) => ToProper(e, k) # <<>>
<1> DEFINE f == SubSeq(e, k, k + l - 1)
<1>1. e \in Seq(Nat) /\ Len(e) \in Nat /\ \A j \in 1 .. Len(e) : e[j] \in Nat
  <2>1. e \in Seq(Nat)  BY Entries
  <2>2. Len(e) \in Nat  BY <2>1
  <2>3. \A j \in 1 .. Len(e) : e[j] \in Nat  BY <2>1, ElementOfSeq, Zenon
  <2> QED  BY <2>1, <2>2, <2>3
<1>2. /\ f \in Seq(Nat) /\ Len(f) = l /\ \A j \in 1 .. l : f[j] = e[k + j - 1]
  <2> DEFINE m == k + l - 1
  <2>1. m \in Nat /\ m <= Len(e) /\ k <= m + 1 /\ m - k + 1 = l  BY <1>1
  <2> HIDE DEF m
  <2>2. SubSeq(e, k, m) \in Seq(Nat) /\ Len(SubSeq(e, k, m)) = m - k + 1
        /\ \A j \in 1 .. m - k + 1 : SubSeq(e, k, m)[j] = e[k + j - 1]
    BY <1>1, <2>1, Piece, Zenon
  <2>3. f = SubSeq(e, k, m)  BY DEF m
  <2> HIDE DEF f
  <2> QED  BY <2>1, <2>2, <2>3
<1>3. PICK n \in k .. Len(e) : /\ IsStop(e[n]) /\ \A j \in k .. (n - 1) : ~ IsStop(e[j])
                               /\ ToProper(e, k) = SubSeq(e, k, n - 1)
  <2>1. k \in 1 .. Len(e)  BY <1>1
  <2> QED  BY <2>1, ProperEnds
<1>4. n <= k + l
  <2>1. ASSUME n > k + l PROVE FALSE
    <3>1. k + l - 1 \in k .. (n - 1) /\ k + l \in k .. (n - 1)  BY <1>1, <2>1
    <3> QED  BY <1>3, <3>1
  <2> QED  BY <1>1, <2>1
<1> DEFINE c == n - k
<1>5. c \in 0 .. l /\ n = k + c  BY <1>1, <1>4
<1> HIDE DEF c, f
<1>6. \A j \in 1 .. c : f[j] # Space
  <2>1. ASSUME NEW j \in 1 .. c PROVE f[j] # Space
    <3>1. f[j] = e[k + j - 1]
      <4>1. j \in 1 .. l  BY <1>5
      <4> QED  BY <1>2, <4>1
    <3>2. k + j - 1 \in k .. (n - 1)  BY <1>1, <1>5
    <3> QED  BY <1>3, <3>1, <3>2 DEF IsStop
  <2> QED  BY <2>1
<1>7. \A j \in (c + 1) .. l : f[j] = Space
  <2>1. ASSUME NEW j \in (c + 1) .. l PROVE f[j] = Space
    <3>1. c + 1 \in 1 .. l /\ k + (c + 1) - 1 = n /\ j \in (c + 1) .. l  BY <1>5
    <3>2. IsStop(f[c + 1])  BY <1>2, <1>3, <3>1
    <3>3. Padded(f)  BY DEF f
    <3> QED  BY <1>2, <3>1, <3>2, <3>3 DEF Padded
  <2> QED  BY <2>1
<1>8. SelectLastInSeq(f, NotSpace) = c
  <2> DEFINE I == {j \in 1 .. Len(f) : NotSpace(f[j])}
  <2>1. ASSUME NEW j \in 1 .. l PROVE j \in I <=> j \in 1 .. c
    <3>1. j \in 1 .. c \/ j \in (c + 1) .. l  BY <1>5
    <3>2. j \in I <=> f[j] # Space  BY <1>2 DEF NotSpace
    <3>3. j \in (c + 1) .. l => j \notin 1 .. c  BY <1>5
    <3> QED  BY <1>6, <1>7, <3>1, <3>2, <3>3
  <2>2. I = 1 .. c
    <3>1. \A j \in I : j \in 1 .. l  BY <1>2
    <3>2. \A j \in 1 .. c : j \in 1 .. l  BY <1>5
    <3> HIDE DEF I
    <3> QED  BY <2>1, <3>1, <3>2
  <2>3. CASE c = 0
    <3>1. I = {}  BY <2>2, <2>3
    <3> QED  BY <2>3, <3>1 DEF SelectLastInSeq
  <2>4. CASE c > 0
    <3>1. Max(1 .. c) = c
      <4>1. 1 .. c \subseteq Nat /\ c \in 1 .. c /\ \A y \in 1 .. c : y <= c  BY <1>5, <2>4
      <4> QED  BY <4>1, GreatestIs
    <3>2. c \in 1 .. c  BY <1>5, <2>4
    <3>3. Max(I) = c /\ I # {}
      <4> HIDE DEF I
      <4> QED  BY <2>2, <3>1, <3>2
    <3> QED  BY <3>3 DEF SelectLastInSeq
  <2> QED  BY <1>5, <2>3, <2>4
<1>9. Trimmed(f) = SubSeq(f, 1, c)  BY <1>8 DEF Trimmed
<1> DEFINE t == SubSeq(e, k, n - 1)
           u == SubSeq(f, 1, c)
<1>10. t \in Seq(Nat) /\ Len(t) = c /\ \A j \in 1 .. c : t[j] = e[k + j - 1]
  <2> DEFINE m == n - 1
  <2>1. m \in Nat /\ m <= Len(e) /\ k <= m + 1 /\ m - k + 1 = c  BY <1>1, <1>5
  <2> HIDE DEF m
  <2>2. SubSeq(e, k, m) \in Seq(Nat) /\ Len(SubSeq(e, k, m)) = m - k + 1
        /\ \A j \in 1 .. m - k + 1 : SubSeq(e, k, m)[j] = e[k + j - 1]
    BY <1>1, <2>1, Piece, Zenon
  <2>3. t = SubSeq(e, k, m)  BY DEF m
  <2> HIDE DEF t
  <2> QED  BY <2>1, <2>2, <2>3
<1>11. u \in Seq(Nat) /\ Len(u) = c /\ \A j \in 1 .. c : u[j] = f[j]
  <2>1. c \in Nat /\ c <= Len(f) /\ 1 <= c + 1 /\ 1 \in Nat \ {0}  BY <1>2, <1>5
  <2>2. /\ u \in Seq(Nat) /\ Len(u) = c - 1 + 1
        /\ \A j \in 1 .. c - 1 + 1 : u[j] = f[1 + j - 1]
    <3>1. f \in Seq(Nat)  BY <1>2
    <3> QED  BY <2>1, <3>1, Piece, Zenon
  <2> HIDE DEF u
  <2>3. c - 1 + 1 = c /\ \A j \in 1 .. c : 1 + j - 1 = j  BY <1>5
  <2> QED  BY <1>5, <2>2, <2>3
<1> HIDE DEF t, u
<1>12. t = u
  <2>1. ASSUME NEW j \in 1 .. c PROVE t[j] = u[j]
    <3>1. j \in 1 .. l  BY <1>5
    <3>2. t[j] = e[k + j - 1] /\ u[j] = f[j]  BY <1>10, <1>11
    <3>3. f[j] = e[k + j - 1]  BY <1>2, <3>1
    <3> QED  BY <3>2, <3>3
  <2> QED  BY <1>10, <1>11, <2>1, SeqEqual
<1>13. c = 0 <=> IsStop(e[k])
  <2>1. c = 0 => n = k  BY <1>1, <1>5
  <2>2. c > 0 => k \in k .. (n - 1)  BY <1>1, <1>5
  <2> QED  BY <1>3, <1>5, <2>1, <2>2
<1>14. t = <<>> <=> c = 0  BY <1>10, EmptySeq
<1>15. ToProper(e, k) = t /\ Trimmed(f) = u  BY <1>3, <1>9 DEF t, u
<1> QED  BY <1>12, <1>13, <1>14, <1>15 DEF f

(* So a readable entry is read under its name.                              *)
LEMMA ReadAsNamed ==
  ASSUME NEW e \in EntryKinds, Readable(e)
  PROVE  FullName(e) = ShortName(e)
<1> DEFINE name == SubSeq(e, 1, NameLen)
           ext  == SubSeq(e, NameLen + 1, NameLen + ExtLen)
<1>1. NameLen \in Nat \ {0} /\ ExtLen \in Nat \ {0} /\ Len(e) = NameLen + ExtLen + 2
      /\ e \in Seq(Nat) /\ \A j \in 1 .. NameLen + ExtLen + 2 : e[j] \in Nat
  BY Entries
<1>2. ToProper(e, 1) = Trimmed(name)
  <2>1. 1 + NameLen <= Len(e) /\ 1 + NameLen - 1 = NameLen /\ 1 + NameLen = NameLen + 1
    BY <1>1
  <2>2. Padded(SubSeq(e, 1, 1 + NameLen - 1))
        /\ (IsStop(e[1 + NameLen - 1]) \/ IsStop(e[1 + NameLen]))
    BY <2>1 DEF Readable, Terminated
  <2>3. 1 \in Nat \ {0}  OBVIOUS
  <2>4. ToProper(e, 1) = Trimmed(SubSeq(e, 1, 1 + NameLen - 1))
    BY <1>1, <2>1, <2>2, <2>3, FieldRead, Zenon
  <2> QED  BY <2>1, <2>4
<1>3. /\ ToProper(e, NameLen + 1) = Trimmed(ext)
      /\ Trimmed(ext) = <<>> <=> IsStop(e[NameLen + 1])
  <2> DEFINE k == NameLen + 1
  <2>1. k \in Nat \ {0} /\ k + ExtLen <= Len(e) /\ k + ExtLen - 1 = NameLen + ExtLen
        /\ k + ExtLen = NameLen + ExtLen + 1
    BY <1>1
  <2>2. Padded(ext)  BY DEF Readable
  <2>3. IsStop(e[NameLen + ExtLen]) \/ IsStop(e[NameLen + ExtLen + 1])
    <3>1. CASE IsStop(e[NameLen + 1])
      <4>1. /\ Len(ext) = ExtLen /\ \A j \in 1 .. ExtLen : ext[j] = e[NameLen + 1 + j - 1]
        <5>1. NameLen + 1 \in Int /\ NameLen + ExtLen \in Int
              /\ \A j \in (NameLen + 1) .. (NameLen + ExtLen) : e[j] \in Nat
          BY <1>1
        <5>2. /\ Len(ext) = IF NameLen + 1 <= NameLen + ExtLen
                            THEN (NameLen + ExtLen) - (NameLen + 1) + 1 ELSE 0
              /\ \A j \in 1 .. (NameLen + ExtLen) - (NameLen + 1) + 1 :
                   ext[j] = e[(NameLen + 1) + j - 1]
          BY <5>1, SubSeqProperties
        <5> HIDE DEF ext
        <5>3. (NameLen + ExtLen) - (NameLen + 1) + 1 = ExtLen
              /\ NameLen + 1 <= NameLen + ExtLen
          BY <1>1
        <5> QED  BY <5>2, <5>3
      <4> HIDE DEF ext
      <4>2. 1 \in 1 .. ExtLen /\ ExtLen \in 1 .. ExtLen /\ NameLen + 1 + 1 - 1 = NameLen + 1
            /\ NameLen + 1 + ExtLen - 1 = NameLen + ExtLen
        BY <1>1
      <4>3. ext[1] = e[NameLen + 1] /\ ext[ExtLen] = e[NameLen + ExtLen]  BY <4>1, <4>2
      <4>4. ext[ExtLen] = Space  BY <2>2, <3>1, <4>1, <4>2, <4>3 DEF Padded
      <4> QED  BY <4>3, <4>4 DEF IsStop
    <3> QED  BY <3>1 DEF Readable, Terminated
  <2>4. /\ ToProper(e, k) = Trimmed(SubSeq(e, k, k + ExtLen - 1))
        /\ IsStop(e[k]) => ToProper(e, k) = <<>>
        /\ ~ IsStop(e[k]) => ToProper(e, k) # <<>>
    <3>1. Padded(SubSeq(e, k, k + ExtLen - 1))  BY <2>1, <2>2
    <3>2. IsStop(e[k + ExtLen - 1]) \/ IsStop(e[k + ExtLen])  BY <2>1, <2>3
    <3> HIDE DEF k
    <3> QED  BY <1>1, <2>1, <3>1, <3>2, FieldRead
  <2> QED  BY <2>1, <2>4
<1> HIDE DEF name, ext
<1>4. FullName(e) = IF IsStop(e[NameLen + 1]) THEN ToProper(e, 1)
                    ELSE ToProper(e, 1) \o <<Dot>> \o ToProper(e, NameLen + 1)
  BY DEF FullName
<1>5. ShortName(e) = IF Trimmed(ext) = <<>> THEN Trimmed(name)
                     ELSE Trimmed(name) \o <<Dot>> \o Trimmed(ext)
  BY DEF ShortName, name, ext
<1> QED  BY <1>2, <1>3, <1>4, <1>5

-----------------------------------------------------------------------------
(* Comparison ignores the case of letters only: a name that begins with the *)
(* mark of an erased entry is the same only as one that does so, too.       *)
LEMMA SameFirst ==
  ASSUME NEW s, NEW t, SameName(s, t), 1 \in DOMAIN s, s[1] = ErasedMark
  PROVE  1 \in DOMAIN t /\ t[1] = ErasedMark
<1>1. Upper(s) = Upper(t)  BY DEF SameName
<1>2. DOMAIN s = DOMAIN t
  <2>1. DOMAIN Upper(s) = DOMAIN s /\ DOMAIN Upper(t) = DOMAIN t  BY DEF Upper
  <2> QED  BY <1>1, <2>1
<1>3. Upper(s)[1] = 229  BY DEF Upper, ErasedMark
<1>4. Upper(t)[1] = IF t[1] \in 97 .. 122 THEN t[1] - 32 ELSE t[1]  BY <1>2 DEF Upper
<1>5. t[1] \in 97 .. 122 => t[1] - 32 # 229  OBVIOUS
<1> QED  BY <1>1, <1>2, <1>3, <1>4, <1>5 DEF ErasedMark

(* Where the first slash of a text is.                                      *)
LEMMA FirstSlash ==
  ASSUME NEW s \in Seq(Nat)
  PROVE  SelectInSeq(s, IsSlash) \in 0 .. Len(s)
<1> DEFINE I == {j \in 1 .. Len(s) : IsSlash(s[j])}
           k == SelectInSeq(s, IsSlash)
<1>1. Len(s) \in Nat  BY ElementOfSeq
<1>2. k = IF I # {} THEN Min(I) ELSE 0  BY DEF SelectInSeq
<1>3. I \subseteq Nat /\ \A j \in I : j \in 0 .. Len(s)  BY <1>1
<1> HIDE DEF I, k
<1>4. CASE I # {}
  <2>1. Min(I) \in I  BY <1>3, <1>4, LeastElement
  <2> QED  BY <1>2, <1>3, <1>4, <2>1 DEF k
<1>5. CASE I = {}  BY <1>1, <1>2, <1>5 DEF k
<1> QED  BY <1>4, <1>5

(* The components of a path are texts, and so is what is left of it.        *)
LEMMA PathTexts ==
  ASSUME NEW s \in Seq(Nat)
  PROVE  /\ Component(s) \in Seq(Nat) /\ Remainder(s) \in Seq(Nat)
         /\ SubSeq(s, 4, Len(s)) \in Seq(Nat)
<1> DEFINE k == SelectInSeq(s, IsSlash)
<1>1. Len(s) \in Nat /\ \A j \in 1 .. Len(s) : s[j] \in Nat  BY ElementOfSeq
<1>2. k \in 0 .. Len(s)  BY FirstSlash
<1>3. \A a \in 1 .. Len(s) + 1, b \in 0 .. Len(s) : SubSeq(s, a, b) \in Seq(Nat)
  <2> SUFFICES ASSUME NEW a \in 1 .. Len(s) + 1, NEW b \in 0 .. Len(s)
               PROVE  SubSeq(s, a, b) \in Seq(Nat)
    OBVIOUS
  <2>1. a \in Int /\ b \in Int /\ \A j \in a .. b : s[j] \in Nat  BY <1>1
  <2> QED  BY <2>1, SubSeqProperties
<1>4. SubSeq(s, 4, Len(s)) \in Seq(Nat)
  <2>1. 4 \in Int /\ Len(s) \in Int /\ \A j \in 4 .. Len(s) : s[j] \in Nat  BY <1>1
  <2> QED  BY <2>1, SubSeqProperties
<1>5. Component(s) = (IF k = 0 THEN s ELSE SubSeq(s, 1, k - 1))
      /\ Remainder(s) = (IF k = 0 THEN <<>> ELSE SubSeq(s, k + 1, Len(s)))
  BY DEF Component, Remainder
<1> HIDE DEF k
<1>6. k # 0 => SubSeq(s, 1, k - 1) \in Seq(Nat) /\ SubSeq(s, k + 1, Len(s)) \in Seq(Nat)
  <2>1. k # 0 => /\ 1 \in 1 .. Len(s) + 1 /\ k - 1 \in 0 .. Len(s)
                 /\ k + 1 \in 1 .. Len(s) + 1 /\ Len(s) \in 0 .. Len(s)
    BY <1>1, <1>2
  <2> QED  BY <1>3, <2>1
<1>7. <<>> \in Seq(Nat)  OBVIOUS
<1> QED  BY <1>4, <1>5, <1>6, <1>7

-----------------------------------------------------------------------------
(* Where a path is cut.                                                     *)

(* Cuts are positions behind the drive.                                     *)
LEMMA CutsFinite ==
  ASSUME NEW p \in Seq(Nat)
  PROVE  /\ Len(p) \in Nat /\ IsFiniteSet(Cuts(p)) /\ Cardinality(Cuts(p)) \in Nat
         /\ \A c \in Cuts(p) :
              c \in Nat /\ c <= Len(p) + 1 /\ (c = Len(p) + 1 \/ c \in 3 .. Len(p))
         /\ \A c \in Cuts(p) : /\ IsFiniteSet({d \in Cuts(p) : d < c}) /\ Rank(p, c) \in Nat
<1>1. Len(p) \in Nat  OBVIOUS
<1> DEFINE I == {j \in 3 .. Len(p) : p[j] = Slash}
<1>2. IsFiniteSet(I)
  <2>1. 3 \in Int /\ Len(p) \in Int  BY <1>1
  <2>2. IsFiniteSet(3 .. Len(p))  BY <2>1, FS_Interval
  <2>3. I \subseteq 3 .. Len(p)  OBVIOUS
  <2> QED  BY <2>2, <2>3, FS_Subset
<1>3. Cuts(p) = I \cup {Len(p) + 1}  BY DEF Cuts
<1>4. \A c \in Cuts(p) : c \in Nat /\ c <= Len(p) + 1 /\ (c = Len(p) + 1 \/ c \in 3 .. Len(p))
  BY <1>1, <1>3
<1> HIDE DEF I
<1>5. IsFiniteSet(Cuts(p))  BY <1>2, <1>3, FS_AddElement
<1>6. Cardinality(Cuts(p)) \in Nat  BY <1>5, FS_CardinalityType
<1>7. ASSUME NEW c \in Cuts(p)
      PROVE  IsFiniteSet({d \in Cuts(p) : d < c}) /\ Rank(p, c) \in Nat
  <2>1. {d \in Cuts(p) : d < c} \subseteq Cuts(p)  OBVIOUS
  <2>2. IsFiniteSet({d \in Cuts(p) : d < c})  BY <1>5, <2>1, FS_Subset
  <2> QED  BY <2>2, FS_CardinalityType DEF Rank
<1> QED  BY <1>1, <1>4, <1>5, <1>6, <1>7

(* The ranks of two cuts with none between them.                            *)
LEMMA RankNext ==
  ASSUME NEW p \in Seq(Nat), NEW c \in Cuts(p), NEW d \in Cuts(p), c < d
  PROVE  /\ Rank(p, c) < Rank(p, d)
         /\ (\A b \in Cuts(p) : ~ (c < b /\ b < d)) => Rank(p, d) = Rank(p, c) + 1
<1> DEFINE C == {b \in Cuts(p) : b < c}
           D == {b \in Cuts(p) : b < d}
<1>1. /\ IsFiniteSet(C) /\ IsFiniteSet(D) /\ \A b \in Cuts(p) : b \in Nat
      /\ Rank(p, c) = Cardinality(C) /\ Rank(p, d) = Cardinality(D)
      /\ Rank(p, c) \in Nat /\ Rank(p, d) \in Nat
  BY CutsFinite DEF Rank
<1>2. c \notin C /\ C \cup {c} \subseteq D  BY <1>1
<1>3. (\A b \in Cuts(p) : ~ (c < b /\ b < d)) => D = C \cup {c}
  <2>1. ASSUME \A b \in Cuts(p) : ~ (c < b /\ b < d), NEW b \in D PROVE b \in C \cup {c}
    <3>1. b \in Nat /\ c \in Nat /\ ~ (c < b)  BY <1>1, <2>1
    <3> QED  BY <3>1
  <2> QED  BY <1>2, <2>1
<1> HIDE DEF C, D
<1>4. IsFiniteSet(C \cup {c}) /\ Cardinality(C \cup {c}) = Cardinality(C) + 1
  BY <1>1, <1>2, FS_AddElement
<1>5. Cardinality(C \cup {c}) <= Cardinality(D)  BY <1>1, <1>2, FS_Subset
<1>6. Rank(p, c) < Rank(p, d)  BY <1>1, <1>4, <1>5
<1>7. ASSUME \A b \in Cuts(p) : ~ (c < b /\ b < d) PROVE Rank(p, d) = Rank(p, c) + 1
  <2>1. D = C \cup {c}  BY <1>3, <1>7
  <2> QED  BY <1>1, <1>4, <2>1
<1> QED  BY <1>6, <1>7

(* A cut is told by its rank.                                               *)
LEMMA CutIs ==
  ASSUME NEW p \in Seq(Nat), NEW c \in Cuts(p), NEW j \in Nat, Rank(p, c) = j - 1
  PROVE  Cut(p, j) = c
<1> DEFINE x == Cut(p, j)
<1>1. x \in Cuts(p) /\ Rank(p, x) = j - 1  BY DEF Cut
<1> HIDE DEF x
<1>2. c \in Nat /\ x \in Nat /\ Rank(p, c) \in Nat  BY <1>1, CutsFinite
<1>3. ~ (x < c)
  <2>1. x < c => Rank(p, x) < Rank(p, c)  BY <1>1, RankNext
  <2> QED  BY <1>1, <1>2, <2>1
<1>4. ~ (c < x)
  <2>1. c < x => Rank(p, c) < Rank(p, x)  BY <1>1, RankNext
  <2> QED  BY <1>1, <1>2, <2>1
<1>5. x = c  BY <1>2, <1>3, <1>4
<1> QED  BY <1>5 DEF x

(* The end of the path is the last cut, the slash behind the drive the      *)
(* first.                                                                   *)
LEMMA EndCuts ==
  ASSUME NEW p \in Seq(Nat)
  PROVE  /\ Len(p) + 1 \in Cuts(p) /\ Rank(p, Len(p) + 1) = Cardinality(Cuts(p)) - 1
         /\ Len(p) >= 3 /\ p[3] = Slash => 3 \in Cuts(p) /\ Rank(p, 3) = 0
<1> DEFINE e == Len(p) + 1
           E == {d \in Cuts(p) : d < e}
<1>1. /\ IsFiniteSet(Cuts(p))
      /\ \A c \in Cuts(p) : c \in Nat /\ c <= e /\ (c = e \/ c \in 3 .. Len(p))
      /\ Len(p) \in Nat /\ Cardinality(Cuts(p)) \in Nat
  BY CutsFinite
<1>2. e \in Cuts(p)  BY DEF Cuts
<1>3. IsFiniteSet(E) /\ Rank(p, e) = Cardinality(E) /\ Rank(p, e) \in Nat
  BY <1>2, CutsFinite DEF Rank
<1>4. Cuts(p) = E \cup {e} /\ e \notin E  BY <1>1, <1>2
<1> HIDE DEF E
<1>5. Cardinality(E \cup {e}) = Cardinality(E) + 1  BY <1>3, <1>4, FS_AddElement
<1>6. Rank(p, e) = Cardinality(Cuts(p)) - 1
  <2> HIDE DEF e
  <2> QED  BY <1>3, <1>4, <1>5
<1>7. ASSUME Len(p) >= 3, p[3] = Slash PROVE 3 \in Cuts(p) /\ Rank(p, 3) = 0
  <2>1. 3 \in Cuts(p)  BY <1>1, <1>7 DEF Cuts
  <2>2. {d \in Cuts(p) : d < 3} = {}
    <3>1. ASSUME NEW d \in Cuts(p), d < 3 PROVE FALSE
      <4>1. d \in Nat /\ (d = e \/ d \in 3 .. Len(p))  BY <1>1
      <4> QED  BY <1>1, <1>7, <3>1, <4>1
    <3> QED  BY <3>1
  <2> QED  BY <2>1, <2>2, FS_EmptySet DEF Rank
<1> QED  BY <1>2, <1>6, <1>7

(* What is left of a path behind position c.                                *)
LEMMA Behind ==
  ASSUME NEW p \in Seq(Nat), NEW c \in Nat, c <= Len(p)
  PROVE  LET r == SubSeq(p, c + 1, Len(p))
         IN  /\ r \in Seq(Nat) /\ Len(r) = Len(p) - c
             /\ \A j \in 1 .. Len(p) - c : r[j] = p[c + j]
<1> DEFINE n == Len(p)
           a == c + 1
           r == SubSeq(p, a, n)
<1>1. n \in Nat  BY ElementOfSeq
<1>2. a \in Nat \ {0} /\ a <= n + 1 /\ n - a + 1 = n - c /\ n <= Len(p)  BY <1>1
<1>3. \A j \in 1 .. n - c : a + j - 1 = c + j  BY <1>1
<1> HIDE DEF n, a
<1>4. /\ r \in Seq(Nat) /\ Len(r) = n - a + 1
      /\ \A j \in 1 .. n - a + 1 : r[j] = p[a + j - 1]
  BY <1>1, <1>2, Piece, Zenon
<1> HIDE DEF r
<1>5. r \in Seq(Nat) /\ Len(r) = n - c /\ \A j \in 1 .. n - c : r[j] = p[c + j]
  BY <1>2, <1>3, <1>4
<1> QED  BY <1>5, Zenon DEF r, a, n

(* Part of a part of a path.                                                *)
LEMMA SubOfSub ==
  ASSUME NEW p \in Seq(Nat), NEW c \in Nat, c <= Len(p), NEW a \in Nat \ {0}, NEW b \in Nat,
         a <= b + 1, c + b <= Len(p)
  PROVE  SubSeq(SubSeq(p, c + 1, Len(p)), a, b) = SubSeq(p, c + a, c + b)
<1> DEFINE r == SubSeq(p, c + 1, Len(p))
           s == SubSeq(r, a, b)
           x == c + a
           y == c + b
           t == SubSeq(p, x, y)
           n == b - a + 1
<1>1. Len(p) \in Nat  BY ElementOfSeq
<1>2. r \in Seq(Nat) /\ Len(r) = Len(p) - c /\ \A j \in 1 .. Len(p) - c : r[j] = p[c + j]
  BY Behind
<1>3. t \in Seq(Nat) /\ Len(t) = n /\ \A j \in 1 .. n : t[j] = p[c + a + j - 1]
  <2>1. /\ x \in Nat \ {0} /\ y \in Nat /\ y <= Len(p) /\ x <= y + 1 /\ y - x + 1 = n
        /\ \A j \in 1 .. n : x + j - 1 = c + a + j - 1
    OBVIOUS
  <2> HIDE DEF x, y, n
  <2>2. t \in Seq(Nat) /\ Len(t) = y - x + 1 /\ \A j \in 1 .. y - x + 1 : t[j] = p[x + j - 1]
    BY <2>1, Piece, Zenon
  <2> HIDE DEF t
  <2> QED  BY <2>1, <2>2
<1> HIDE DEF r
<1>4. s \in Seq(Nat) /\ Len(s) = n /\ \A j \in 1 .. n : s[j] = r[a + j - 1]
  <2>1. b <= Len(r)  BY <1>1, <1>2
  <2>2. r \in Seq(Nat)  BY <1>2
  <2> QED  BY <2>1, <2>2, Piece, Zenon
<1> HIDE DEF s, t
<1>5. ASSUME NEW j \in 1 .. n PROVE s[j] = t[j]
  <2>1. a + j - 1 \in 1 .. Len(p) - c /\ c + (a + j - 1) = c + a + j - 1  BY <1>1
  <2>2. r[a + j - 1] = p[c + (a + j - 1)]  BY <1>2, <2>1, Zenon
  <2>3. s[j] = r[a + j - 1] /\ t[j] = p[c + a + j - 1]  BY <1>3, <1>4, Zenon
  <2> QED  BY <2>1, <2>2, <2>3
<1>6. s = t
  <2> HIDE DEF n
  <2> QED  BY <1>3, <1>4, <1>5, SeqEqual
<1> QED  BY <1>6 DEF s, t, r, x, y

(* What pathparser_get_path_part takes from behind a cut is the text up to  *)
(* the next one, and it leaves what is behind that.                         *)
LEMMA NextCut ==
  ASSUME NEW p \in Seq(Nat), NEW c \in Cuts(p), c <= Len(p)
  PROVE  \E d \in Cuts(p) :
           /\ Rank(p, d) = Rank(p, c) + 1
           /\ Component(SubSeq(p, c + 1, Len(p))) = SubSeq(p, c + 1, d - 1)
           /\ Remainder(SubSeq(p, c + 1, Len(p))) = SubSeq(p, d + 1, Len(p))
<1> DEFINE r == SubSeq(p, c + 1, Len(p))
           I == {j \in 1 .. Len(r) : IsSlash(r[j])}
           k == SelectInSeq(r, IsSlash)
<1>1. Len(p) \in Nat /\ c \in 3 .. Len(p) /\ \A j \in 1 .. Len(p) : p[j] \in Nat
  <2>1. Len(p) \in Nat /\ (c = Len(p) + 1 \/ c \in 3 .. Len(p))  BY CutsFinite
  <2> QED  BY <2>1, ElementOfSeq
<1>2. r \in Seq(Nat) /\ Len(r) = Len(p) - c /\ \A j \in 1 .. Len(p) - c : r[j] = p[c + j]
  BY <1>1, Behind
<1>3. k = IF I # {} THEN Min(I) ELSE 0  BY DEF SelectInSeq
<1>4. /\ Component(r) = (IF k = 0 THEN r ELSE SubSeq(r, 1, k - 1))
      /\ Remainder(r) = (IF k = 0 THEN <<>> ELSE SubSeq(r, k + 1, Len(r)))
  BY DEF Component, Remainder
<1>5. \A b \in Cuts(p) : c < b => b = Len(p) + 1 \/ b - c \in I
  <2>1. ASSUME NEW b \in Cuts(p), c < b, b # Len(p) + 1 PROVE b - c \in I
    <3>1. b \in 3 .. Len(p) /\ p[b] = Slash  BY <1>1, <2>1 DEF Cuts
    <3>2. b - c \in 1 .. Len(p) - c /\ c + (b - c) = b  BY <1>1, <2>1, <3>1
    <3>3. r[b - c] = p[c + (b - c)]
      <4> HIDE DEF r
      <4> QED  BY <1>2, <3>2, Zenon
    <3> HIDE DEF r
    <3> QED  BY <1>2, <3>1, <3>2, <3>3 DEF IsSlash
  <2> QED  BY <2>1
<1>6. \A j \in I : j \in 1 .. Len(p) - c /\ p[c + j] = Slash
  <2> HIDE DEF r
  <2> QED  BY <1>2 DEF IsSlash
<1>7. CASE I = {}
  <2> DEFINE d == Len(p) + 1
  <2>1. d \in Cuts(p) /\ c < d  BY <1>1, EndCuts
  <2>2. \A b \in Cuts(p) : ~ (c < b /\ b < d)
    <3> HIDE DEF I
    <3> QED  BY <1>1, <1>5, <1>7
  <2>3. Rank(p, d) = Rank(p, c) + 1
    <3> HIDE DEF d
    <3> QED  BY <2>1, <2>2, RankNext
  <2>4. k = 0
    <3> HIDE DEF I, k
    <3> QED  BY <1>3, <1>7
  <2>5. Component(r) = r /\ Remainder(r) = <<>>
    <3> HIDE DEF k
    <3> QED  BY <1>4, <2>4
  <2>6. d - 1 = Len(p)  BY <1>1
  <2>7. SubSeq(p, d + 1, Len(p)) = <<>>
    <3>1. d + 1 \in Int /\ Len(p) \in Int /\ ~ (d + 1 <= Len(p))
          /\ \A j \in (d + 1) .. Len(p) : p[j] \in Nat
      BY <1>1
    <3> QED  BY <3>1, SubSeqProperties, EmptySeq
  <2> QED  BY <2>1, <2>3, <2>5, <2>6, <2>7
<1>8. CASE I # {}
  <2> DEFINE d == c + k
  <2>1. k \in I /\ \A j \in I : k <= j
    <3>1. I \subseteq Nat  OBVIOUS
    <3>2. k = Min(I)
      <4> HIDE DEF I, k
      <4> QED  BY <1>3, <1>8
    <3> HIDE DEF I, k
    <3> QED  BY <1>8, <3>1, <3>2, LeastElement
  <2> HIDE DEF k, I
  <2>2. k \in 1 .. Len(p) - c /\ p[c + k] = Slash  BY <1>6, <2>1
  <2>3. d \in Cuts(p) /\ c < d  BY <1>1, <2>2 DEF Cuts
  <2>4. \A b \in Cuts(p) : ~ (c < b /\ b < d)
    <3>1. ASSUME NEW b \in Cuts(p), c < b, b < d PROVE FALSE
      <4>1. b \in Nat  BY CutsFinite
      <4>2. b - c \in I  BY <1>1, <1>5, <2>2, <3>1, <4>1
      <4>3. k <= b - c  BY <2>1, <4>2
      <4> QED  BY <1>1, <2>2, <3>1, <4>1, <4>3
    <3> QED  BY <3>1
  <2>5. Rank(p, d) = Rank(p, c) + 1
    <3> HIDE DEF d
    <3> QED  BY <2>3, <2>4, RankNext
  <2>6. k # 0 /\ k - 1 \in Nat /\ k + 1 \in Nat \ {0} /\ c \in Nat  BY <1>1, <2>2
  <2>7. Component(r) = SubSeq(p, c + 1, d - 1)
    <3>1. Component(r) = SubSeq(r, 1, k - 1)  BY <1>4, <2>6
    <3> DEFINE b == k - 1
    <3>2. /\ c + b = d - 1 /\ b \in Nat /\ c + b <= Len(p)
          /\ 1 <= b + 1 /\ 1 \in Nat \ {0} /\ c \in Nat /\ c <= Len(p)
      BY <1>1, <2>2
    <3> HIDE DEF b
    <3>3. SubSeq(r, 1, b) = SubSeq(p, c + 1, c + b)
      BY <3>2, SubOfSub, Zenon
    <3> QED  BY <3>1, <3>2, <3>3 DEF b
  <2>8. Remainder(r) = SubSeq(p, d + 1, Len(p))
    <3>1. Remainder(r) = SubSeq(r, k + 1, Len(p) - c)
      <4> HIDE DEF r
      <4> QED  BY <1>2, <1>4, <2>6
    <3> DEFINE a == k + 1
               b == Len(p) - c
    <3>2. /\ c + a = d + 1 /\ c + b = Len(p) /\ b \in Nat /\ a \in Nat \ {0} /\ a <= b + 1
          /\ c + b <= Len(p) /\ c \in Nat /\ c <= Len(p)
      BY <1>1, <2>2
    <3> HIDE DEF a, b
    <3>3. SubSeq(r, a, b) = SubSeq(p, c + a, c + b)
      BY <3>2, SubOfSub, Zenon
    <3> QED  BY <3>1, <3>2, <3>3 DEF a, b
  <2> QED  BY <2>3, <2>5, <2>7, <2>8
<1> QED  BY <1>7, <1>8

(* Of nothing, nothing is found and nothing left.                           *)
LEMMA NothingLeft == Component(<<>>) = <<>>
<1>1. {j \in 1 .. Len(<<>>) : IsSlash(<<>>[j])} = {}  OBVIOUS
<1>2. SelectInSeq(<<>>, IsSlash) = 0  BY <1>1 DEF SelectInSeq
<1> QED  BY <1>2 DEF Component

(* Where something is found, less is left.                                  *)
LEMMA RemainderShorter ==
  ASSUME NEW s \in Seq(Nat), Component(s) # <<>>
  PROVE  Len(Remainder(s)) \in Nat /\ Len(Remainder(s)) < Len(s)
<1> DEFINE k == SelectInSeq(s, IsSlash)
<1>1. Len(s) \in Nat /\ k \in 0 .. Len(s)  BY FirstSlash, ElementOfSeq
<1>2. Len(s) > 0
  <2>1. s # <<>>  BY NothingLeft
  <2> QED  BY <1>1, <2>1, EmptySeq
<1>3. Remainder(s) = IF k = 0 THEN <<>> ELSE SubSeq(s, k + 1, Len(s))  BY DEF Remainder
<1> HIDE DEF k
<1>4. CASE k = 0
  <2>1. Len(Remainder(s)) = 0  BY <1>3, <1>4
  <2> QED  BY <1>2, <2>1
<1>5. CASE k # 0
  <2>1. Remainder(s) = SubSeq(s, k + 1, Len(s))  BY <1>3, <1>5
  <2>2. /\ k + 1 \in Nat \ {0} /\ Len(s) \in Nat /\ Len(s) <= Len(s)
        /\ k + 1 <= Len(s) + 1
    BY <1>1
  <2>3. Len(SubSeq(s, k + 1, Len(s))) = Len(s) - (k + 1) + 1  BY <2>2, Piece, Zenon
  <2> QED  BY <1>1, <1>5, <2>1, <2>3
<1> QED  BY <1>4, <1>5

(* The parts q are the first components of path p, and r is what is left.   *)
Parsed(p, q, r) ==
  /\ \E c \in Cuts(p) : Rank(p, c) = Len(q) /\ r = SubSeq(p, c + 1, Len(p))
  /\ \A j \in 1 .. Len(q) : q[j] = Between(p)[j] /\ q[j] # <<>>

(* The components of a path up to the first empty one.                      *)
Parts(p) ==
  LET empty == SelectInSeq(Between(p), LAMBDA c : c = <<>>)
  IN  IF empty = 0 THEN Between(p) ELSE SubSeq(Between(p), 1, empty - 1)

(* A component lies between two cuts.                                       *)
LEMMA BetweenCuts ==
  ASSUME NEW p \in Seq(Nat), NEW n \in Nat, NEW c \in Cuts(p), NEW d \in Cuts(p),
         Rank(p, c) = n, Rank(p, d) = n + 1
  PROVE  /\ n + 1 \in 1 .. Cardinality(Cuts(p)) - 1
         /\ Between(p)[n + 1] = SubSeq(p, c + 1, d - 1)
<1>1. n + 1 \in 1 .. Cardinality(Cuts(p)) - 1
  <2> DEFINE e == Len(p) + 1
             N == Cardinality(Cuts(p))
  <2>1. e \in Cuts(p) /\ Rank(p, e) = N - 1  BY EndCuts
  <2>2. d \in Nat /\ e \in Nat /\ d <= e /\ N \in Nat  BY CutsFinite
  <2> HIDE DEF e, N
  <2>3. d < e => Rank(p, d) < Rank(p, e)  BY <2>1, RankNext
  <2>4. CASE d < e
    <3>1. n + 1 \in 1 .. N - 1  BY <2>1, <2>2, <2>3, <2>4
    <3> QED  BY <3>1 DEF N
  <2>5. CASE d = e
    <3>1. n + 1 \in 1 .. N - 1  BY <2>1, <2>2, <2>5
    <3> QED  BY <3>1 DEF N
  <2> QED  BY <2>2, <2>4, <2>5
<1>2. Cut(p, n + 1) = c
  <2>1. n + 1 \in Nat /\ Rank(p, c) = (n + 1) - 1  OBVIOUS
  <2> QED  BY <2>1, CutIs
<1>3. Cut(p, n + 1 + 1) = d
  <2>1. n + 1 + 1 \in Nat /\ Rank(p, d) = (n + 1 + 1) - 1  OBVIOUS
  <2> QED  BY <2>1, CutIs
<1>4. Between(p)[n + 1] = SubSeq(p, Cut(p, n + 1) + 1, Cut(p, n + 1 + 1) - 1)
  BY <1>1 DEF Between
<1> QED  BY <1>1, <1>2, <1>3, <1>4

(* The components are a sequence, of texts or not.                          *)
LEMMA BetweenSeq ==
  ASSUME NEW p \in Seq(Nat)
  PROVE  /\ Cardinality(Cuts(p)) - 1 \in Nat
         /\ \E S : Seq(Nat) \subseteq S /\ Between(p) \in Seq(S)
         /\ Len(Between(p)) = Cardinality(Cuts(p)) - 1
<1> DEFINE all == Between(p)
           N == Cardinality(Cuts(p)) - 1
           S == {all[j] : j \in 1 .. N} \cup Seq(Nat)
<1>1. N \in Nat
  <2>1. Rank(p, Len(p) + 1) = N /\ Rank(p, Len(p) + 1) \in Nat  BY EndCuts, CutsFinite
  <2> QED  BY <2>1
<1>2. all = [j \in 1 .. N |-> SubSeq(p, Cut(p, j) + 1, Cut(p, j + 1) - 1)]  BY DEF Between
<1>3. DOMAIN all = 1 .. N /\ all = [j \in 1 .. N |-> all[j]]
  <2> HIDE DEF N
  <2> QED  BY <1>2
<1> HIDE DEF all, N
<1>4. all \in [1 .. N -> S]  BY <1>3
<1> HIDE DEF S
<1>5. all \in Seq(S)  BY <1>1, <1>4, SeqDef
<1>6. Len(all) = N  BY <1>1, <1>3, <1>5, LenProperties
<1>7. Seq(Nat) \subseteq S  BY DEF S
<1> QED  BY <1>1, <1>5, <1>6, <1>7 DEF all, N

(* A component more.                                                        *)
LEMMA PartFound ==
  ASSUME NEW p \in Seq(Nat), NEW q \in Seq(Seq(Nat)), NEW r \in Seq(Nat),
         Parsed(p, q, r), Component(r) # <<>>
  PROVE  Parsed(p, Append(q, Component(r)), Remainder(r))
<1> DEFINE n == Len(q)
           x == Component(r)
           a == Append(q, x)
<1>1. PICK c \in Cuts(p) : Rank(p, c) = n /\ r = SubSeq(p, c + 1, Len(p))  BY DEF Parsed
<1>2. n \in Nat /\ x \in Seq(Nat) /\ \A j \in 1 .. n : q[j] = Between(p)[j] /\ q[j] # <<>>
  <2>1. n \in Nat  OBVIOUS
  <2>2. x \in Seq(Nat)  BY PathTexts
  <2>3. \A j \in 1 .. n : q[j] = Between(p)[j] /\ q[j] # <<>>  BY DEF Parsed
  <2> QED  BY <2>1, <2>2, <2>3
<1>3. c <= Len(p)
  <2>1. ASSUME c = Len(p) + 1 PROVE FALSE
    <3>1. r = <<>>
      <4>1. Len(p) \in Nat  OBVIOUS
      <4>2. c + 1 \in Int /\ Len(p) \in Int /\ ~ (c + 1 <= Len(p))
            /\ \A j \in (c + 1) .. Len(p) : p[j] \in Nat
        BY <2>1, <4>1
      <4>3. SubSeq(p, c + 1, Len(p)) \in Seq(Nat) /\ Len(SubSeq(p, c + 1, Len(p))) = 0
        BY <4>2, SubSeqProperties
      <4>4. Len(r) = 0  BY <1>1, <4>3
      <4> QED  BY <4>4, EmptySeq
    <3> QED  BY <3>1, NothingLeft
  <2>2. Len(p) \in Nat /\ c \in Nat /\ c <= Len(p) + 1  BY CutsFinite
  <2> QED  BY <2>1, <2>2
<1>4. PICK d \in Cuts(p) :
        /\ Rank(p, d) = n + 1 /\ x = SubSeq(p, c + 1, d - 1)
        /\ Remainder(r) = SubSeq(p, d + 1, Len(p))
  <2> DEFINE z == SubSeq(p, c + 1, Len(p))
  <2>1. \E d \in Cuts(p) :
          /\ Rank(p, d) = Rank(p, c) + 1 /\ Component(z) = SubSeq(p, c + 1, d - 1)
          /\ Remainder(z) = SubSeq(p, d + 1, Len(p))
    BY <1>3, NextCut
  <2>2. r = z /\ Rank(p, c) = n  BY <1>1
  <2> HIDE DEF z, n
  <2> QED  BY <2>1, <2>2
<1>5. Between(p)[n + 1] = x
  <2> HIDE DEF n, x
  <2> QED  BY <1>1, <1>2, <1>4, BetweenCuts
<1>6. Len(a) = n + 1 /\ (\A j \in 1 .. n : a[j] = q[j]) /\ a[n + 1] = x
  BY <1>2, AppendProperties
<1> HIDE DEF n, a, x
<1>7. \A j \in 1 .. n + 1 : a[j] = Between(p)[j] /\ a[j] # <<>>
  <2>1. x # <<>>  BY DEF x
  <2>2. \A j \in 1 .. n + 1 : j \in 1 .. n \/ j = n + 1  BY <1>2
  <2> QED  BY <1>2, <1>5, <1>6, <2>1, <2>2
<1>8. Parsed(p, a, Remainder(r))  BY <1>4, <1>6, <1>7 DEF Parsed
<1> QED  BY <1>8 DEF a, x

(* None is left, or the next one is empty.                                  *)
LEMMA PathEnds ==
  ASSUME NEW p \in Seq(Nat), NEW q \in Seq(Seq(Nat)), NEW r \in Seq(Nat),
         Parsed(p, q, r), Component(r) = <<>>
  PROVE  q = Parts(p)
<1> DEFINE n == Len(q)
           all == Between(p)
           N == Cardinality(Cuts(p)) - 1
           I == {j \in 1 .. Len(all) : all[j] = <<>>}
           empty == SelectInSeq(all, LAMBDA x : x = <<>>)
<1>1. PICK c \in Cuts(p) : Rank(p, c) = n /\ r = SubSeq(p, c + 1, Len(p))  BY DEF Parsed
<1>2. n \in Nat /\ \A j \in 1 .. n : q[j] = all[j] /\ q[j] # <<>>  BY DEF Parsed
<1>3. N \in Nat /\ Len(all) = N /\ \E S : Seq(Seq(Nat)) \subseteq Seq(S) /\ all \in Seq(S)
  BY BetweenSeq, SeqMonotonic
<1>4. empty = IF I # {} THEN Min(I) ELSE 0  BY DEF SelectInSeq
<1>5. Parts(p) = IF empty = 0 THEN all ELSE SubSeq(all, 1, empty - 1)  BY DEF Parts
<1>6. PICK S : q \in Seq(S) /\ all \in Seq(S)  BY <1>3
<1>7. CASE c = Len(p) + 1
  <2>1. n = N  BY <1>1, <1>7, EndCuts
  <2>2. I = {}  BY <1>2, <1>3, <2>1
  <2>3. empty = 0  BY <1>4, <2>2
  <2>4. q = all
    <3>1. Len(q) = n  OBVIOUS
    <3> HIDE DEF n, N, all
    <3> QED  BY <1>2, <1>3, <1>6, <2>1, <3>1, SeqEqual
  <2> QED  BY <1>5, <2>3, <2>4
<1>8. CASE c # Len(p) + 1
  <2>1. c <= Len(p)
    <3>1. Len(p) \in Nat /\ c \in Nat /\ c <= Len(p) + 1  BY CutsFinite
    <3> QED  BY <1>8, <3>1
  <2>2. PICK d \in Cuts(p) : Rank(p, d) = n + 1 /\ <<>> = SubSeq(p, c + 1, d - 1)
    <3> DEFINE z == SubSeq(p, c + 1, Len(p))
    <3>1. \E d \in Cuts(p) :
            Rank(p, d) = Rank(p, c) + 1 /\ Component(z) = SubSeq(p, c + 1, d - 1)
      BY <2>1, NextCut
    <3>2. r = z /\ Rank(p, c) = n  BY <1>1
    <3> HIDE DEF z, n
    <3> QED  BY <3>1, <3>2
  <2>3. n + 1 \in 1 .. N /\ all[n + 1] = <<>>
    <3> HIDE DEF n
    <3> QED  BY <1>1, <1>2, <2>2, BetweenCuts
  <2> HIDE DEF n, N, all
  <2>4. n + 1 \in I /\ I \subseteq Nat /\ \A j \in I : n + 1 <= j
    <3>1. ASSUME NEW j \in I, ~ (n + 1 <= j) PROVE FALSE
      <4>1. j \in 1 .. n  BY <1>2, <1>3, <3>1
      <4> QED  BY <1>2, <3>1, <4>1
    <3> QED  BY <1>3, <2>3, <3>1
  <2> HIDE DEF I, empty
  <2>5. Min(I) = n + 1  BY <2>4, LeastIs
  <2>6. empty = n + 1 /\ empty # 0 /\ empty - 1 = n  BY <1>2, <1>4, <2>4, <2>5
  <2>7. Parts(p) = SubSeq(all, 1, n)  BY <1>5, <2>6
  <2>8. SubSeq(all, 1, n) = q
    <3>1. 1 \in Int /\ n \in Int /\ \A j \in 1 .. n : all[j] \in S
      <4>1. n \in Nat /\ N \in Nat /\ Len(all) = N /\ n + 1 \in 1 .. N  BY <1>2, <1>3, <2>3
      <4>2. \A j \in 1 .. n : j \in 1 .. Len(all)  BY <4>1
      <4> QED  BY <1>2, <1>6, <4>2, ElementOfSeq
    <3> DEFINE t == SubSeq(all, 1, n)
    <3>2. /\ t \in Seq(S) /\ Len(t) = IF 1 <= n THEN n - 1 + 1 ELSE 0
          /\ \A j \in 1 .. n - 1 + 1 : t[j] = all[1 + j - 1]
      BY <3>1, SubSeqProperties
    <3> HIDE DEF t
    <3>3. Len(t) = n /\ \A j \in 1 .. n : t[j] = all[j]
      <4>1. n - 1 + 1 = n /\ (IF 1 <= n THEN n - 1 + 1 ELSE 0) = n
            /\ \A j \in 1 .. n : 1 + j - 1 = j
        BY <1>2
      <4> QED  BY <3>2, <4>1
    <3>4. Len(q) = n  BY DEF n
    <3>5. \A j \in 1 .. n : t[j] = q[j]  BY <1>2, <3>3
    <3>6. t = q  BY <1>6, <3>2, <3>3, <3>4, <3>5, SeqEqual
    <3> QED  BY <3>6 DEF t
  <2> QED  BY <2>7, <2>8
<1> QED  BY <1>7, <1>8

(* What ParsedIsPath says.                                                  *)
LEMMA ScannedParts == ParsedIsPath <=> (pc = "scan" => parts = Parts(path))
BY DEF ParsedIsPath, Parts

(* The same of the next state.                                              *)
LEMMA ScannedPartsNext == ParsedIsPath' <=> (pc' = "scan" => parts' = Parts(path'))
<1>1. (ParsedIsPath <=> (pc = "scan" => parts = Parts(path)))'  BY ScannedParts, PTL
<1> QED  BY <1>1

-----------------------------------------------------------------------------
(* The entries in use among the first n of the disk: how many they are is   *)
(* what fat16_get_total_items_for_directory counts.                         *)
Used(n) == {k \in 0 .. n - 1 : ~ Erased(disk.items[k + 1])}

(* There are at most as many as there are entries.                          *)
LEMMA UsedFinite ==
  ASSUME NEW n \in Nat
  PROVE  IsFiniteSet(Used(n)) /\ Cardinality(Used(n)) \in 0 .. n
<1>1. IsFiniteSet(0 .. n - 1) /\ Cardinality(0 .. n - 1) = n
  <2>1. 0 \in Int /\ n - 1 \in Int  OBVIOUS
  <2>2. IsFiniteSet(0 .. n - 1)
        /\ Cardinality(0 .. n - 1) = IF 0 > n - 1 THEN 0 ELSE (n - 1) - 0 + 1
    BY <2>1, FS_Interval
  <2> QED  BY <2>2
<1>2. Used(n) \subseteq 0 .. n - 1  BY DEF Used
<1>3. IsFiniteSet(Used(n)) /\ Cardinality(Used(n)) <= Cardinality(0 .. n - 1)
  BY <1>1, <1>2, FS_Subset
<1>4. Cardinality(Used(n)) \in Nat  BY <1>3, FS_CardinalityType
<1> QED  BY <1>1, <1>3, <1>4

(* One entry more.                                                          *)
LEMMA UsedNext ==
  ASSUME NEW n \in Nat
  PROVE  Cardinality(Used(n + 1)) =
           IF Erased(disk.items[n + 1]) THEN Cardinality(Used(n)) ELSE Cardinality(Used(n)) + 1
<1>1. IsFiniteSet(Used(n)) /\ n \notin Used(n)  BY UsedFinite DEF Used
<1>2. CASE Erased(disk.items[n + 1])
  <2>1. Used(n + 1) = Used(n)
    <3>1. ASSUME NEW k \in 0 .. (n + 1) - 1, ~ Erased(disk.items[k + 1])
          PROVE  k \in 0 .. n - 1
      BY <1>2, <3>1
    <3>2. 0 .. n - 1 \subseteq 0 .. (n + 1) - 1  OBVIOUS
    <3> QED  BY <3>1, <3>2 DEF Used
  <2> QED  BY <1>2, <2>1
<1>3. CASE ~ Erased(disk.items[n + 1])
  <2>1. Used(n + 1) = Used(n) \cup {n}
    <3>1. \A k : k \in 0 .. (n + 1) - 1 <=> k \in 0 .. n - 1 \/ k = n  OBVIOUS
    <3> QED  BY <1>3, <3>1 DEF Used
  <2>2. Cardinality(Used(n) \cup {n}) = Cardinality(Used(n)) + 1
    BY <1>1, FS_AddElement
  <2> QED  BY <1>3, <2>1, <2>2
<1> QED  BY <1>2, <1>3

(* Entries without a gap are no more than there are in use.                 *)
LEMMA NoGap ==
  ASSUME NEW n \in Nat, NEW k \in Nat, 0 .. k \subseteq Used(n)
  PROVE  k < Cardinality(Used(n))
<1>1. IsFiniteSet(Used(n)) /\ Cardinality(Used(n)) \in 0 .. n  BY UsedFinite
<1>2. Cardinality(0 .. k) = k + 1
  <2>1. 0 \in Int /\ k \in Int  OBVIOUS
  <2>2. Cardinality(0 .. k) = IF 0 > k THEN 0 ELSE k - 0 + 1  BY <2>1, FS_Interval
  <2> QED  BY <2>2
<1>3. Cardinality(0 .. k) <= Cardinality(Used(n))  BY <1>1, FS_Subset
<1> QED  BY <1>1, <1>2, <1>3

(* The entries that the count takes: those before the first end mark.       *)
Counted == {k \in 0 .. EndAt - 2 : ~ Erased(disk.items[k + 1])}

(* Where the count meets the end mark is where the directory ends.          *)
LEMMA EndFound ==
  ASSUME NEW n \in Nat, disk.items \in Seq(EntryKinds), n < Len(disk.items),
         EndMark(disk.items[n + 1]), \A j \in 1 .. n : ~ EndMark(disk.items[j])
  PROVE  EndAt = n + 1 /\ Counted = Used(n)
<1> DEFINE I == {j \in 1 .. Len(disk.items) : EndMark(disk.items[j])}
<1>1. Len(disk.items) \in Nat  OBVIOUS
<1>2. I \subseteq Nat /\ n + 1 \in I  BY <1>1
<1>3. \A j \in I : n + 1 <= j
  <2>1. ASSUME NEW j \in I, j < n + 1 PROVE FALSE
    <3>1. j \in 1 .. n /\ EndMark(disk.items[j])  BY <1>1, <2>1
    <3> QED  BY <3>1
  <2> QED  BY <1>2, <2>1
<1>4. Min(I) = n + 1 /\ I # {}
  <2> HIDE DEF I
  <2> QED  BY <1>2, <1>3, LeastIs
<1>5. EndAt = n + 1  BY <1>4 DEF EndAt, SelectInSeq
<1>6. EndAt - 2 = n - 1  BY <1>5
<1> QED  BY <1>5, <1>6 DEF Counted, Used

(* In a directory that ends, they are the entries in use.                   *)
LEMMA CountedLive ==
  ASSUME InRoot, disk.items \in Seq(EntryKinds), RootEntries <= Len(disk.items)
  PROVE  Live = Counted
<1> DEFINE I == {j \in 1 .. Len(disk.items) : EndMark(disk.items[j])}
<1>1. EndAt \in 1 .. RootEntries /\ RootEntries \in Nat /\ Len(disk.items) \in Nat
  BY LookupAssumption DEF InRoot
<1>2. EndAt = IF I # {} THEN Min(I) ELSE 0  BY Zenon DEF EndAt, SelectInSeq
<1>3. EndAt \in I /\ \A j \in I : EndAt <= j
  <2>1. I \subseteq Nat  OBVIOUS
  <2> HIDE DEF I
  <2>2. I # {} /\ EndAt = Min(I)  BY <1>1, <1>2
  <2>3. Min(I) \in I /\ \A j \in I : Min(I) <= j  BY <2>1, <2>2, LeastElement
  <2> QED  BY <2>2, <2>3
<1>4. EndMark(disk.items[EndAt])  BY <1>3
<1>5. ASSUME NEW j \in 1 .. EndAt - 1 PROVE ~ EndMark(disk.items[j])
  <2>1. j \in 1 .. Len(disk.items) /\ ~ (EndAt <= j)
    <3> HIDE DEF I
    <3> QED  BY <1>1
  <2>2. j \notin I
    <3> HIDE DEF I
    <3> QED  BY <1>3, <2>1
  <2> QED  BY <2>1, <2>2
<1> HIDE DEF I
<1>6. ASSUME NEW k \in 0 .. RootEntries - 1, \A j \in 0 .. k : ~ EndMark(disk.items[j + 1])
      PROVE  k \in 0 .. EndAt - 2
  <2> SUFFICES ASSUME k > EndAt - 2 PROVE FALSE
    BY <1>1
  <2>1. EndAt - 1 \in 0 .. k /\ (EndAt - 1) + 1 = EndAt  BY <1>1
  <2>2. ~ EndMark(disk.items[(EndAt - 1) + 1])  BY <1>6, <2>1
  <2> QED  BY <1>4, <2>1, <2>2
<1>7. ASSUME NEW k \in 0 .. EndAt - 2
      PROVE  k \in 0 .. RootEntries - 1 /\ \A j \in 0 .. k : ~ EndMark(disk.items[j + 1])
  <2>1. k \in 0 .. RootEntries - 1 /\ \A j \in 0 .. k : j + 1 \in 1 .. EndAt - 1
    BY <1>1
  <2> QED  BY <1>5, <2>1
<1> QED  BY <1>6, <1>7 DEF Live, Counted

-----------------------------------------------------------------------------
(* The inductive invariant.                                                 *)

(* A disk goes on behind its root directory and does not change.            *)
DiskInv ==
  /\ disk.signed \in BOOLEAN
  /\ disk.items \in Seq(EntryKinds) /\ RootEntries <= Len(disk.items)

(* Components are texts.                                                    *)
TextsInv == parts \in Seq(Seq(Nat)) /\ rest \in Seq(Nat)

(* Nothing was opened before the kernel has booted.                         *)
BootInv ==
  /\ pc \in {"boot", "count"} => found = None /\ parts = <<>>
  /\ pc = "boot" => total = 0

(* What has been read holds no end mark, and its entries in use are counted.*)
CountInv ==
  pc = "count" =>
    /\ disk.signed
    /\ \A j \in 1 .. i : ~ EndMark(disk.items[j])
    /\ total = Cardinality(Used(i))

(* Entry k is read as the component searched for.                           *)
Match(k) == SameName(FullName(disk.items[k + 1]), parts[1])

(* What has been mounted, and the entries counted before the end mark.      *)
CountedRight ==
  pc \in {"idle", "parse", "scan"} =>
    /\ mounted = disk.signed
    /\ mounted => root = SubSeq(disk.items, 1, RootEntries) /\ total = Cardinality(Counted)

(* found is the last match among the first n entries.                       *)
LastMatch(n) ==
  InRoot => /\ found # None => Match(found)
            /\ \A k \in 0 .. n - 1 : Match(k) => k <= found

(* While a path is parsed, the components found are its first ones.         *)
PathInv == pc = "parse" => path \in Seq(Nat) /\ Parsed(path, parts, rest)

(* Before the scan nothing was found; ...                                   *)
ParseInv == pc = "parse" => found = None

(* ... during it, found is the last match before i; ...                     *)
ScanInv ==
  pc = "scan" =>
    /\ mounted /\ parts # <<>> /\ Drive(path) = 0
    /\ found < i /\ LastMatch(i)

(* ... and after it, the last match of all the entries counted.             *)
IdleInv ==
  pc = "idle" =>
    /\ found # None => mounted /\ Len(parts) = 1 /\ (InRoot => Match(found))
    /\ mounted /\ Len(parts) = 1 /\ Drive(path) = 0 => LastMatch(total)

Inv ==
  /\ LookupTypeOK /\ DiskInv /\ TextsInv /\ BootInv /\ CountInv
  /\ CountedRight /\ PathInv /\ ParsedIsPath /\ ParseInv /\ ScanInv /\ IdleInv

(* What depends on the disk alone stays.                                    *)
LEMMA DiskStays ==
  ASSUME disk' = disk
  PROVE  /\ DiskInv => DiskInv'
         /\ EndAt' = EndAt /\ Counted' = Counted
         /\ \A n : Used(n)' = Used(n)
<1>1. EndAt' = EndAt  BY DEF EndAt, SelectInSeq
<1>2. Counted' = Counted  BY <1>1 DEF Counted
<1> QED  BY <1>1, <1>2 DEF DiskInv, Used

(* In a directory that ends, the entries counted are in the buffer.         *)
LEMMA Buffered ==
  ASSUME DiskInv, CountedRight, InRoot, pc \in {"idle", "parse", "scan"}
  PROVE  /\ EndAt \in 1 .. RootEntries /\ RootEntries \in Nat
         /\ Counted = Used(EndAt - 1) /\ total = Cardinality(Counted) /\ total \in 0 .. EndAt - 1
         /\ Len(root) = RootEntries
         /\ \A k \in 0 .. RootEntries - 1 : root[k + 1] = disk.items[k + 1]
<1>1. EndAt \in 1 .. RootEntries /\ RootEntries \in Nat /\ mounted
  BY LookupAssumption DEF InRoot
<1>2. (EndAt - 1) - 1 = EndAt - 2 /\ EndAt - 1 \in Nat  BY <1>1
<1>3. Counted = Used(EndAt - 1)  BY <1>2 DEF Counted, Used
<1>4. root = SubSeq(disk.items, 1, RootEntries) /\ total = Cardinality(Counted)
  BY <1>1 DEF CountedRight
<1>5. total \in 0 .. EndAt - 1  BY <1>2, <1>3, <1>4, UsedFinite
<1> DEFINE b == SubSeq(disk.items, 1, RootEntries)
<1>6. /\ Len(b) = RootEntries
      /\ \A k \in 0 .. RootEntries - 1 : b[k + 1] = disk.items[k + 1]
  <2>1. 1 \in Int /\ RootEntries \in Int
        /\ \A j \in 1 .. RootEntries : disk.items[j] \in EntryKinds
    <3>1. \A j \in 1 .. Len(disk.items) : disk.items[j] \in EntryKinds
      BY ElementOfSeq DEF DiskInv
    <3> QED  BY <1>1, <3>1 DEF DiskInv
  <2>2. /\ Len(b) = IF 1 <= RootEntries THEN RootEntries - 1 + 1 ELSE 0
        /\ \A j \in 1 .. RootEntries - 1 + 1 : b[j] = disk.items[1 + j - 1]
    BY <2>1, SubSeqProperties
  <2> HIDE DEF b
  <2>3. RootEntries >= 1 /\ RootEntries - 1 + 1 = RootEntries  BY <1>1
  <2>4. ASSUME NEW k \in 0 .. RootEntries - 1 PROVE b[k + 1] = disk.items[k + 1]
    <3>1. k + 1 \in 1 .. RootEntries - 1 + 1 /\ 1 + (k + 1) - 1 = k + 1  BY <1>1
    <3> QED  BY <2>2, <3>1
  <2> QED  BY <1>1, <2>2, <2>3, <2>4
<1> QED  BY <1>1, <1>3, <1>4, <1>5, <1>6

(* A disk before the kernel boots.                                          *)
LEMMA InvInit == Init => Inv
<1> SUFFICES ASSUME Init PROVE Inv
  OBVIOUS
<1> USE DEF Init
<1>1. PICK signed \in BOOLEAN, subs \in Subs,
           items \in [1 .. RootEntries -> EntryKinds], tail \in Tails :
        disk = [signed |-> signed, items |-> items \o tail, subs |-> subs]
  OBVIOUS
<1>2. RootEntries \in Nat /\ tail \in Seq(EntryKinds)  BY LookupAssumption
<1>3. items \in Seq(EntryKinds) /\ Len(items) = RootEntries
  <2>1. items \in Seq(EntryKinds)  BY <1>2, SeqDef
  <2>2. DOMAIN items = 1 .. RootEntries  OBVIOUS
  <2> QED  BY <1>2, <2>1, <2>2, LenProperties
<1>4. items \o tail \in Seq(EntryKinds) /\ Len(items \o tail) = RootEntries + Len(tail)
  BY <1>2, <1>3, ConcatProperties
<1>5. Len(tail) \in Nat  BY <1>2
<1>6. DiskInv
  <2>1. disk.signed = signed /\ disk.items = items \o tail  BY <1>1
  <2>2. RootEntries <= Len(items \o tail)  BY <1>2, <1>4, <1>5
  <2>3. disk.signed \in BOOLEAN  BY <2>1, Zenon
  <2>4. disk.items \in Seq(EntryKinds) /\ RootEntries <= Len(disk.items)
    BY <1>4, <2>1, <2>2
  <2> QED  BY <2>3, <2>4 DEF DiskInv
<1>7. 0 \in 0 .. Len(disk.items)
  <2>1. disk.items \in Seq(EntryKinds)  BY <1>6 DEF DiskInv
  <2>2. Len(disk.items) \in Nat  BY <2>1
  <2> QED  BY <2>2
<1>8. LookupTypeOK
  <2>1. None \in -1 .. 0 - 1  BY DEF None
  <2> QED  BY <1>7, <2>1 DEF LookupTypeOK
<1>9. TextsInv  BY DEF TextsInv
<1>10. BootInv /\ CountInv /\ CountedRight /\ ParseInv /\ ScanInv /\ IdleInv
  BY DEF BootInv, CountInv, CountedRight, ParseInv, ScanInv, IdleInv
<1>11. PathInv /\ ParsedIsPath  BY ScannedParts DEF PathInv
<1> QED  BY <1>6, <1>8, <1>9, <1>10, <1>11 DEF Inv

(* Booting.                                                                 *)
LEMMA InvBoot ==
  ASSUME Inv, \/ ResolveForeign \/ Resolve \/ CountUsed \/ CountErased \/ CountEnd \/ DiskWaits
  PROVE  Inv'
<1> USE DEF Inv
<1>. pc' \notin {"parse", "scan"}
  BY DEF ResolveForeign, Resolve, CountUsed, CountErased, CountEnd, DiskWaits, Counting
<1>. PathInv' /\ ParsedIsPath'
  <2>1. pc' # "parse" /\ pc' # "scan"  OBVIOUS
  <2> QED  BY <2>1 DEF PathInv, ParsedIsPath
<1>0. disk.items \in Seq(EntryKinds) /\ Len(disk.items) \in Nat
  <2>1. disk.items \in Seq(EntryKinds)  BY DEF DiskInv
  <2> QED  BY <2>1
<1>1. CASE ResolveForeign
  <2>1. disk' = disk /\ pc = "boot" /\ ~ disk.signed /\ mounted' = FALSE /\ pc' = "idle"
        /\ UNCHANGED <<root, total, i, path, rest, parts, found>>
    BY <1>1 DEF ResolveForeign
  <2>2. found = None /\ parts = <<>>  BY <2>1 DEF BootInv
  <2>3. DiskInv' /\ EndAt' = EndAt /\ Counted' = Counted  BY <2>1, DiskStays
  <2>4. LookupTypeOK'  BY <2>1 DEF LookupTypeOK
  <2>5. CountedRight'  BY <2>1 DEF CountedRight, DiskInv
  <2>6. TextsInv'  BY <2>1 DEF TextsInv
  <2>7. IdleInv'  BY <2>1, <2>2 DEF IdleInv
  <2>8. BootInv' /\ CountInv' /\ ParseInv' /\ ScanInv'
    BY <2>1 DEF BootInv, CountInv, ParseInv, ScanInv
  <2> QED  BY <2>3, <2>4, <2>5, <2>6, <2>7, <2>8
<1>2. CASE Resolve
  <2>1. pc = "boot" /\ disk.signed /\ pc' = "count" /\ i' = 0
        /\ disk' = disk /\ UNCHANGED <<mounted, root, total, path, rest, parts, found>>
    BY <1>2 DEF Resolve, dir
  <2>2. found = None /\ parts = <<>> /\ total = 0  BY <2>1 DEF BootInv
  <2>3. DiskInv' /\ Used(0)' = Used(0)  BY <2>1, DiskStays
  <2>4. LookupTypeOK'  BY <1>0, <2>1 DEF LookupTypeOK
  <2>5. TextsInv'  BY <2>1 DEF TextsInv
  <2>6. BootInv'  BY <2>1, <2>2 DEF BootInv
  <2>7. CountInv'
    <3>1. Cardinality(Used(0)) = 0  BY UsedFinite
    <3>2. total' = Cardinality(Used(0)')  BY <2>1, <2>2, <2>3, <3>1
    <3>3. \A j \in 1 .. i' : ~ EndMark(disk.items[j])  BY <2>1
    <3>4. Used(i)' = Used(0)'  BY <2>1 DEF Used
    <3> QED  BY <2>1, <3>2, <3>3, <3>4 DEF CountInv
  <2>8. CountedRight' /\ ParseInv' /\ ScanInv' /\ IdleInv'
    BY <2>1 DEF CountedRight, ParseInv, ScanInv, IdleInv
  <2> QED  BY <2>3, <2>4, <2>5, <2>6, <2>7, <2>8
<1>3. CASE CountUsed \/ CountErased
  <2>1. PICK e \in EntryKinds :
          /\ Counting(e) /\ ~ EndMark(e)
          /\ disk' = disk /\ i' = i + 1
          /\ UNCHANGED <<mounted, root, pc, path, rest, parts, found>>
          /\ total' = IF Erased(e) THEN total ELSE total + 1
    <3>1. CASE CountUsed  BY <3>1 DEF CountUsed
    <3>2. CASE CountErased  BY <3>2 DEF CountErased, dir
    <3> QED  BY <1>3, <3>1, <3>2
  <2>2. pc = "count" /\ i < Len(disk.items) /\ e = disk.items[i + 1]
    BY <2>1 DEF Counting
  <2>3. i \in Nat /\ total \in Nat /\ i + 1 \in 0 .. Len(disk.items)
    BY <1>0, <2>2 DEF LookupTypeOK
  <2>4. /\ disk.signed /\ total = Cardinality(Used(i))
        /\ \A j \in 1 .. i : ~ EndMark(disk.items[j])
    BY <2>2 DEF CountInv
  <2>5. total' = Cardinality(Used(i + 1))  BY <2>1, <2>2, <2>3, <2>4, UsedNext
  <2>6. DiskInv' /\ Used(i)' = Used(i + 1)  BY <2>1, DiskStays DEF Used
  <2>7. found = None /\ parts = <<>>  BY <2>2 DEF BootInv
  <2>8. LookupTypeOK'
    <3>1. total' \in 0 .. i + 1  BY <2>3, <2>5, UsedFinite
    <3>2. total' \in 0 .. Len(disk.items) /\ found' \in -1 .. total' - 1
      BY <1>0, <2>1, <2>3, <2>7, <3>1 DEF None
    <3> QED  BY <1>0, <2>1, <2>2, <2>3, <3>2 DEF LookupTypeOK
  <2>9. CountInv'
    <3>1. \A j \in 1 .. i + 1 : ~ EndMark(disk.items[j])
      <4>1. \A j \in 1 .. i + 1 : j \in 1 .. i \/ j = i + 1  BY <2>3
      <4> QED  BY <2>1, <2>2, <2>4, <4>1
    <3> QED  BY <2>1, <2>4, <2>5, <2>6, <3>1 DEF CountInv
  <2>10. TextsInv' /\ BootInv'  BY <2>1, <2>2, <2>7 DEF TextsInv, BootInv
  <2>11. CountedRight' /\ ParseInv' /\ ScanInv' /\ IdleInv'
    BY <2>1, <2>2 DEF CountedRight, ParseInv, ScanInv, IdleInv
  <2> QED  BY <2>6, <2>8, <2>9, <2>10, <2>11
<1>4. CASE CountEnd
  <2>1. PICK e \in EntryKinds : Counting(e) /\ EndMark(e)
    BY <1>4 DEF CountEnd
  <2>2. /\ root' = SubSeq(disk.items, 1, RootEntries) /\ mounted' = TRUE /\ pc' = "idle"
        /\ UNCHANGED <<disk, total, i, path, rest, parts, found>>
    BY <1>4 DEF CountEnd
  <2>3. pc = "count" /\ i < Len(disk.items) /\ e = disk.items[i + 1]
    BY <2>1 DEF Counting
  <2>4. i \in Nat  BY <1>0, <2>3 DEF LookupTypeOK
  <2>5. /\ disk.signed /\ total = Cardinality(Used(i))
        /\ \A j \in 1 .. i : ~ EndMark(disk.items[j])
    BY <2>3 DEF CountInv
  <2>6. Counted = Used(i)  BY <1>0, <2>1, <2>3, <2>4, <2>5, EndFound
  <2>7. DiskInv' /\ Counted' = Counted  BY <2>2, DiskStays
  <2>8. LookupTypeOK'  BY <2>2 DEF LookupTypeOK
  <2>9. CountedRight'  BY <2>2, <2>5, <2>6, <2>7 DEF CountedRight
  <2>10. found = None /\ parts = <<>>  BY <2>3 DEF BootInv
  <2>11. IdleInv'  BY <2>2, <2>10 DEF IdleInv
  <2>12. TextsInv' /\ BootInv' /\ CountInv' /\ ParseInv' /\ ScanInv'
    BY <2>2 DEF TextsInv, BootInv, CountInv, ParseInv, ScanInv
  <2> QED  BY <2>7, <2>8, <2>9, <2>11, <2>12
<1>5. CASE DiskWaits
  <2>1. /\ pc' = "waits" /\ disk' = disk
        /\ UNCHANGED <<mounted, root, total, i, path, rest, parts, found>>
    BY <1>5 DEF DiskWaits, dir
  <2>2. DiskInv'  BY <2>1, DiskStays
  <2>3. LookupTypeOK' /\ TextsInv'  BY <2>1 DEF LookupTypeOK, TextsInv
  <2>4. BootInv' /\ CountInv' /\ CountedRight' /\ ParseInv' /\ ScanInv' /\ IdleInv'
    BY <2>1 DEF BootInv, CountInv, CountedRight, ParseInv, ScanInv, IdleInv
  <2> QED  BY <2>2, <2>3, <2>4
<1> QED  BY <1>1, <1>2, <1>3, <1>4, <1>5

(* Opening a path and parsing it.                                           *)
LEMMA InvParse ==
  ASSUME Inv, \/ ParsePart \/ ParseEnd \/ \E p \in Paths : OpenBadPath(p) \/ Open(p)
  PROVE  Inv'
<1> USE DEF Inv
<1>1. /\ disk' = disk /\ UNCHANGED <<mounted, root, total>>
  BY DEF ParsePart, ParseEnd, OpenBadPath, Open, dir
<1>2. /\ DiskInv' /\ EndAt' = EndAt /\ Counted' = Counted  BY <1>1, DiskStays
<1>3. CountedRight'
  <2>1. pc \in {"idle", "parse", "scan"}  BY DEF ParsePart, ParseEnd, OpenBadPath, Open
  <2> QED  BY <1>1, <1>2, <2>1 DEF CountedRight
<1>4. None \in -1 .. total - 1 /\ Len(disk.items) \in Nat /\ total \in Nat
  <2>1. disk.items \in Seq(EntryKinds)  BY DEF DiskInv
  <2>2. Len(disk.items) \in Nat  BY <2>1
  <2> QED  BY <2>2 DEF LookupTypeOK, None
<1>5. CASE \E p \in Paths : OpenBadPath(p) \/ Open(p)
  <2>1. PICK p \in Paths : OpenBadPath(p) \/ Open(p)  BY <1>5
  <2>2. /\ pc' \in {"idle", "parse"} /\ path' = p /\ parts' = <<>> /\ found' = None
        /\ i' = i /\ rest' \in {<<>>, SubSeq(p, 4, Len(p))}
    BY <2>1 DEF OpenBadPath, Open
  <2>3. rest' \in Seq(Nat)
    <3>1. p \in Seq(Nat)  BY LookupAssumption
    <3>2. <<>> \in Seq(Nat) /\ SubSeq(p, 4, Len(p)) \in Seq(Nat)  BY <3>1, PathTexts
    <3> QED  BY <2>2, <3>2
  <2>4. LookupTypeOK'  BY <1>1, <1>4, <2>2 DEF LookupTypeOK
  <2>5. TextsInv'  BY <2>2, <2>3 DEF TextsInv
  <2>6. BootInv' /\ CountInv' /\ ParseInv' /\ ScanInv'
    BY <2>2 DEF BootInv, CountInv, ParseInv, ScanInv
  <2>7. IdleInv'
    <3>1. Len(parts') = 0  BY <2>2
    <3> QED  BY <2>2, <3>1 DEF IdleInv
  <2>8. ParsedIsPath'  BY <2>2 DEF ParsedIsPath
  <2>9. PathInv'
    <3>1. CASE pc' = "parse"
      <4>1. p \in Seq(Nat)  BY LookupAssumption
      <4>2. Open(p)
        <5>1. OpenBadPath(p) => pc' = "idle"  BY DEF OpenBadPath
        <5> QED  BY <2>1, <3>1, <5>1
      <4>3. Len(p) >= 3 /\ p[3] = Slash /\ rest' = SubSeq(p, 4, Len(p))
        BY <4>2 DEF Open, Accepted, ValidFormat
      <4>4. Parsed(p, <<>>, SubSeq(p, 4, Len(p)))
        <5>1. 3 \in Cuts(p) /\ Rank(p, 3) = 0  BY <4>1, <4>3, EndCuts
        <5>2. 3 + 1 = 4 /\ Len(<<>>) = 0 /\ 1 .. 0 = {}  OBVIOUS
        <5> QED  BY <5>1, <5>2 DEF Parsed
      <4> QED  BY <2>2, <4>1, <4>3, <4>4 DEF PathInv
    <3> QED  BY <3>1 DEF PathInv
  <2> QED  BY <1>2, <1>3, <2>4, <2>5, <2>6, <2>7, <2>8, <2>9
<1>6. CASE ParsePart
  <2>1. /\ pc = "parse" /\ pc' = "parse" /\ parts' = Append(parts, Component(rest))
        /\ rest' = Remainder(rest) /\ UNCHANGED <<i, path, found>>
    BY <1>6 DEF ParsePart
  <2>2. LookupTypeOK'  BY <1>1, <2>1 DEF LookupTypeOK
  <2>3. TextsInv'
    <3>1. Component(rest) \in Seq(Nat) /\ Remainder(rest) \in Seq(Nat)
      BY PathTexts DEF TextsInv
    <3>2. Append(parts, Component(rest)) \in Seq(Seq(Nat))
      BY <3>1, AppendProperties DEF TextsInv
    <3> QED  BY <2>1, <3>1, <3>2 DEF TextsInv
  <2>4. ParseInv'  BY <2>1 DEF ParseInv
  <2>5. BootInv' /\ CountInv' /\ ScanInv' /\ IdleInv'
    BY <2>1 DEF BootInv, CountInv, ScanInv, IdleInv
  <2>6. ParsedIsPath'  BY <2>1 DEF ParsedIsPath
  <2>7. PathInv'
    <3>1. path \in Seq(Nat) /\ Parsed(path, parts, rest)  BY <2>1 DEF PathInv
    <3>2. Component(rest) # <<>>  BY <1>6 DEF ParsePart
    <3>3. Parsed(path, Append(parts, Component(rest)), Remainder(rest))
      BY <3>1, <3>2, PartFound DEF TextsInv
    <3> QED  BY <2>1, <3>1, <3>3 DEF PathInv
  <2> QED  BY <1>2, <1>3, <2>2, <2>3, <2>4, <2>5, <2>6, <2>7
<1>7. CASE ParseEnd
  <2>1. /\ pc = "parse" /\ i' = 0 /\ UNCHANGED <<path, rest, parts, found>>
        /\ pc' = IF parts = <<>> \/ Drive(path) # 0 \/ ~ mounted THEN "idle" ELSE "scan"
    BY <1>7 DEF ParseEnd
  <2>2. found = None  BY <2>1 DEF ParseInv
  <2>3. LookupTypeOK'  BY <1>1, <1>4, <2>1 DEF LookupTypeOK
  <2>4. TextsInv'  BY <2>1 DEF TextsInv
  <2>5. BootInv' /\ CountInv' /\ ParseInv'
    BY <2>1 DEF BootInv, CountInv, ParseInv
  <2>6. ScanInv'
    <3>1. found' < i'  BY <2>1, <2>2 DEF None
    <3>2. LastMatch(i)'
      <4>1. 0 .. i' - 1 = {}  BY <2>1
      <4> QED  BY <2>1, <2>2, <4>1 DEF LastMatch
    <3> QED  BY <1>1, <2>1, <3>1, <3>2 DEF ScanInv
  <2>7. IdleInv'
    <3>1. parts = <<>> => Len(parts) = 0  OBVIOUS
    <3> QED  BY <1>1, <2>1, <2>2, <3>1 DEF IdleInv
  <2>8. PathInv'  BY <2>1 DEF PathInv
  <2>9. ParsedIsPath'
    <3>1. path \in Seq(Nat) /\ Parsed(path, parts, rest)  BY <2>1 DEF PathInv
    <3>2. Component(rest) = <<>>  BY <1>7 DEF ParseEnd
    <3>3. parts = Parts(path)  BY <3>1, <3>2, PathEnds DEF TextsInv
    <3>4. parts' = Parts(path')  BY <2>1, <3>3
    <3> QED  BY <3>4, ScannedPartsNext
  <2> QED  BY <1>2, <1>3, <2>3, <2>4, <2>5, <2>6, <2>7, <2>8, <2>9
<1> QED  BY <1>5, <1>6, <1>7

(* Scanning the directory.                                                  *)
LEMMA InvScan ==
  ASSUME Inv, ScanMiss \/ ScanMatch \/ LoadWaits \/ ScanEnd
  PROVE  Inv'
<1> USE DEF Inv
<1>1. /\ pc = "scan" /\ disk' = disk
      /\ UNCHANGED <<mounted, root, total, path, rest, parts>>
  BY DEF ScanMiss, ScanMatch, LoadWaits, ScanEnd, dir
<1>2. DiskInv' /\ EndAt' = EndAt /\ Counted' = Counted  BY <1>1, DiskStays
<1>3. TextsInv'  BY <1>1 DEF TextsInv
<1>4. CountedRight'  BY <1>1, <1>2 DEF CountedRight
<1>. PathInv' /\ ParsedIsPath'
  <2>1. pc' # "parse"  BY <1>1 DEF ScanMiss, ScanMatch, LoadWaits, ScanEnd
  <2>2. parts = Parts(path)  BY <1>1, ScannedParts
  <2>3. parts' = Parts(path')  BY <1>1, <2>2
  <2>4. ParsedIsPath'  BY <2>3, ScannedPartsNext
  <2> QED  BY <2>1, <2>4 DEF PathInv
<1>5. InRoot' = InRoot /\ \A k : Match(k)' = Match(k)
  BY <1>1, <1>2 DEF InRoot, Match
<1>6. /\ mounted /\ parts # <<>> /\ Drive(path) = 0 /\ found < i /\ LastMatch(i)
  BY <1>1 DEF ScanInv
<1>7. /\ i \in Nat /\ total \in Nat /\ total <= Len(disk.items) /\ Len(disk.items) \in Nat
      /\ found \in -1 .. total - 1
  <2>1. disk.items \in Seq(EntryKinds)  BY DEF DiskInv
  <2>2. Len(disk.items) \in Nat  BY <2>1
  <2> QED  BY <2>2 DEF LookupTypeOK
<1>8. InRoot /\ i < total => i < Len(root) /\ root[i + 1] = disk.items[i + 1]
  <2>1. CASE InRoot /\ i < total
    <3>1. /\ EndAt \in 1 .. RootEntries /\ RootEntries \in Nat /\ total \in 0 .. EndAt - 1
          /\ Len(root) = RootEntries
          /\ \A k \in 0 .. RootEntries - 1 : root[k + 1] = disk.items[k + 1]
      BY <1>1, <2>1, Buffered
    <3>2. i \in 0 .. RootEntries - 1  BY <1>7, <2>1, <3>1
    <3> QED  BY <3>1, <3>2
  <2> QED  BY <2>1
<1>9. CASE ScanMiss
  <2>1. pc' = "scan" /\ i < total /\ Misses /\ i' = i + 1 /\ found' = found
    BY <1>1, <1>9 DEF ScanMiss
  <2>2. InRoot => ~ Match(i)  BY <1>8, <2>1 DEF Misses, Match
  <2>3. LookupTypeOK'  BY <1>1, <1>7, <2>1 DEF LookupTypeOK
  <2>4. LastMatch(i)'
    <3>1. ASSUME InRoot
          PROVE  /\ found # None => Match(found)
                 /\ \A k \in 0 .. (i + 1) - 1 : Match(k) => k <= found
      <4>1. \A k \in 0 .. (i + 1) - 1 : k \in 0 .. i - 1 \/ k = i  BY <1>7
      <4> QED  BY <1>6, <2>2, <3>1, <4>1 DEF LastMatch
    <3> QED  BY <1>5, <2>1, <3>1 DEF LastMatch
  <2>5. ScanInv'
    <3>1. found' < i'  BY <1>6, <1>7, <2>1
    <3> QED  BY <1>1, <1>6, <2>4, <3>1 DEF ScanInv
  <2>6. BootInv' /\ CountInv' /\ ParseInv' /\ IdleInv'
    BY <2>1 DEF BootInv, CountInv, ParseInv, IdleInv
  <2> QED  BY <1>2, <1>3, <1>4, <2>3, <2>5, <2>6
<1>10. CASE ScanMatch
  <2>1. pc' = "scan" /\ i < total /\ Matches /\ i' = i + 1 /\ found' = i
    BY <1>1, <1>10 DEF ScanMatch
  <2>2. InRoot => Match(i)  BY <1>8, <2>1 DEF Matches, Match
  <2>3. LookupTypeOK'  BY <1>1, <1>7, <2>1 DEF LookupTypeOK
  <2>4. LastMatch(i)'
    <3>1. \A k \in 0 .. (i + 1) - 1 : k <= i  BY <1>7
    <3>2. Match(found)' = Match(i)  BY <1>1, <2>1 DEF Match
    <3> QED  BY <1>5, <2>1, <2>2, <3>1, <3>2 DEF LastMatch
  <2>5. ScanInv'
    <3>1. found' < i'  BY <1>7, <2>1
    <3> QED  BY <1>1, <1>6, <2>4, <3>1 DEF ScanInv
  <2>6. BootInv' /\ CountInv' /\ ParseInv' /\ IdleInv'
    BY <2>1 DEF BootInv, CountInv, ParseInv, IdleInv
  <2> QED  BY <1>2, <1>3, <1>4, <2>3, <2>5, <2>6
<1>11. CASE LoadWaits
  <2>1. pc' = "waits" /\ i' = i /\ found' = found  BY <1>11 DEF LoadWaits
  <2>2. LookupTypeOK'  BY <1>1, <2>1 DEF LookupTypeOK
  <2>3. BootInv' /\ CountInv' /\ ParseInv' /\ ScanInv' /\ IdleInv'
    BY <2>1 DEF BootInv, CountInv, ParseInv, ScanInv, IdleInv
  <2> QED  BY <1>2, <1>3, <1>4, <2>2, <2>3
<1>12. CASE ScanEnd
  <2>1. pc' = "idle" /\ i = total /\ i' = i /\ found' = IF Len(parts) > 1 THEN None ELSE found
    BY <1>12 DEF ScanEnd
  <2>2. Len(parts) \in Nat /\ Len(parts) > 0  BY <1>6 DEF TextsInv
  <2>3. LookupTypeOK'  BY <1>1, <1>7, <2>1 DEF LookupTypeOK, None
  <2>4. BootInv' /\ CountInv' /\ ParseInv' /\ ScanInv'
    BY <2>1 DEF BootInv, CountInv, ParseInv, ScanInv
  <2>5. IdleInv'
    <3> DEFINE n == Len(parts)
    <3>1. n \in Nat /\ n > 0 /\ n' = n /\ found' = IF n > 1 THEN None ELSE found
      BY <1>1, <2>1, <2>2
    <3> HIDE DEF n
    <3>2. CASE n > 1
      <4>1. found' = None /\ n' # 1  BY <3>1, <3>2
      <4>2. Len(parts)' # 1  BY <4>1 DEF n
      <4> QED  BY <2>1, <4>1, <4>2 DEF IdleInv
    <3>3. CASE n = 1
      <4>1. found' = found /\ n' = 1  BY <3>1, <3>3
      <4>2. Match(found)' = Match(found)  BY <1>1, <4>1 DEF Match
      <4>3. found' # None => mounted' /\ Len(parts)' = 1 /\ (InRoot => Match(found))'
        <5>1. found # None => (InRoot => Match(found))  BY <1>6 DEF LastMatch
        <5> QED  BY <1>1, <1>5, <1>6, <4>1, <4>2, <5>1 DEF n
      <4>4. LastMatch(total)'
        <5>1. total' = i  BY <1>1, <2>1
        <5> QED  BY <1>5, <1>6, <4>1, <4>2, <5>1 DEF LastMatch
      <4> QED  BY <4>3, <4>4 DEF IdleInv
    <3> QED  BY <3>1, <3>2, <3>3
  <2> QED  BY <1>2, <1>3, <1>4, <2>3, <2>4, <2>5
<1> QED  BY <1>9, <1>10, <1>11, <1>12

(* Steps that change nothing, and all the others.                           *)
LEMMA InvNext == Inv /\ [Next]_vars => Inv'
<1> SUFFICES ASSUME Inv, [Next]_vars PROVE Inv'
  OBVIOUS
<1>1. CASE Next
  <2>1. \/ ResolveForeign \/ Resolve \/ CountUsed \/ CountErased \/ CountEnd \/ DiskWaits
        \/ ParsePart \/ ParseEnd \/ \E p \in Paths : OpenBadPath(p) \/ Open(p)
        \/ ScanMiss \/ ScanMatch \/ LoadWaits \/ ScanEnd
    BY <1>1 DEF Next, Steps
  <2> QED  BY <2>1, InvBoot, InvParse, InvScan
<1>2. CASE UNCHANGED vars
  <2> USE <1>2 DEF Inv, vars
  <2>1. DiskInv' /\ EndAt' = EndAt /\ Counted' = Counted /\ \A n : Used(n)' = Used(n)
    BY DiskStays
  <2>2. LookupTypeOK' /\ TextsInv' /\ BootInv' /\ CountedRight' /\ ParseInv'
    BY <2>1 DEF LookupTypeOK, TextsInv, BootInv, CountedRight, ParseInv
  <2>3. CountInv'
    <3>1. Used(i)' = Used(i)  BY DEF Used
    <3> QED  BY <3>1 DEF CountInv
  <2>4. /\ Match(found)' = Match(found) /\ InRoot' = InRoot
        /\ LastMatch(i)' = LastMatch(i) /\ LastMatch(total)' = LastMatch(total)
    BY <2>1 DEF Match, InRoot, LastMatch
  <2>5. ScanInv' /\ IdleInv'  BY <2>4 DEF ScanInv, IdleInv
  <2>6. ParsedIsPath'
    <3>1. pc = "scan" => parts = Parts(path)  BY ScannedParts
    <3>2. pc' = "scan" => parts' = Parts(path')  BY <3>1
    <3> QED  BY <3>2, ScannedPartsNext
  <2>7. PathInv'  BY DEF PathInv
  <2> QED  BY <2>1, <2>2, <2>3, <2>5, <2>6, <2>7
<1> QED  BY <1>1, <1>2

(* The invariant holds throughout.                                          *)
LEMMA InvAlways == Spec => []Inv
BY InvInit, InvNext, PTL DEF Spec

-----------------------------------------------------------------------------
(* Theorems.                                                                *)

(* The variables keep to their types: the scan does not pass the entries    *)
(* counted, and no entry beyond them is found (src/fs/fat16.c:604).         *)
THEOREM LookupTyped == Spec => []LookupTypeOK
<1>1. Inv => LookupTypeOK  BY DEF Inv
<1> QED  BY <1>1, InvAlways, PTL

(* The disk is mounted exactly if its boot sector is FAT16's, with the root *)
(* directory in memory and, if that has an end mark, its entries in use     *)
(* counted (src/fs/fat16.c:181, :254, :293).                                *)
THEOREM LookupMountedRight == Spec => []MountedRight
<1>1. ASSUME Inv PROVE MountedRight
  <2>1. CountedRight  BY <1>1 DEF Inv
  <2>2. InRoot => Live = Counted  BY <1>1, CountedLive DEF Inv, DiskInv
  <2>3. InRoot => mounted  BY DEF InRoot
  <2> QED  BY <2>1, <2>2, <2>3 DEF CountedRight, MountedRight
<1> QED  BY <1>1, InvAlways, PTL

(* The components searched for are those between the slashes of the path,   *)
(* none lost or taken twice (src/fs/pparser.c:40, :106).                    *)
THEOREM LookupParsedIsPath == Spec => []ParsedIsPath
<1>1. Inv => ParsedIsPath  BY DEF Inv
<1> QED  BY <1>1, InvAlways, PTL

(* What the search settled on in a directory that ends.                     *)
LEMMA Settled ==
  ASSUME Inv, pc = "idle", InRoot, found # None
  PROVE  /\ Len(parts) = 1 /\ Match(found) /\ found \in 0 .. EndAt - 2
         /\ disk.items[found + 1] \in EntryKinds
<1> USE DEF Inv
<1>1. Len(parts) = 1 /\ Match(found)  BY DEF IdleInv
<1>2. EndAt \in 1 .. RootEntries /\ RootEntries \in Nat /\ total \in 0 .. EndAt - 1
  BY Buffered
<1>3. found \in 0 .. EndAt - 2
  <2>1. found \in -1 .. total - 1 /\ found # -1  BY DEF LookupTypeOK, None
  <2> QED  BY <1>2, <2>1
<1>4. disk.items[found + 1] \in EntryKinds
  <2>1. disk.items \in Seq(EntryKinds) /\ RootEntries <= Len(disk.items)  BY DEF DiskInv
  <2>2. found + 1 \in 1 .. Len(disk.items)  BY <1>2, <1>3, <2>1
  <2> QED  BY <2>1, <2>2, ElementOfSeq
<1> QED  BY <1>1, <1>3, <1>4

(* An erased entry is found only by a path that begins with its mark.       *)
LEMMA ErasedFound ==
  ASSUME Inv, pc = "idle", InRoot, found # None, found \notin Counted
  PROVE  1 \in DOMAIN parts[1] /\ parts[1][1] = ErasedMark
<1> DEFINE e == disk.items[found + 1]
<1>1. e \in EntryKinds /\ Match(found) /\ found \in 0 .. EndAt - 2  BY Settled
<1>2. e[1] = ErasedMark  BY <1>1 DEF Counted, Erased
<1>3. SameName(FullName(e), parts[1])  BY <1>1 DEF Match
<1> HIDE DEF e
<1>4. 1 \in DOMAIN FullName(e) /\ FullName(e)[1] = ErasedMark  BY <1>1, <1>2, FirstLetter
<1> QED  BY <1>3, <1>4, SameFirst

(* What fopen finds in a directory that ends lies before the end mark, is   *)
(* read as the path says, and is erased only if the path begins with the    *)
(* mark of erased entries (src/fs/fat16.c:609).                             *)
THEOREM LookupFoundIsNamed == Spec => []FoundIsNamed
<1>1. ASSUME Inv PROVE FoundIsNamed
  <2> SUFFICES ASSUME pc = "idle", InRoot, found # None
               PROVE  /\ found < EndAt - 1
                      /\ Len(parts) = 1
                      /\ found \in Live \/ parts[1][1] = ErasedMark
                      /\ Readable(disk.items[found + 1]) =>
                           SameName(ShortName(disk.items[found + 1]), parts[1])
    BY DEF FoundIsNamed
  <2>1. /\ Len(parts) = 1 /\ Match(found) /\ found \in 0 .. EndAt - 2
        /\ disk.items[found + 1] \in EntryKinds
    BY <1>1, Settled
  <2>2. found < EndAt - 1
    <3>1. EndAt \in 1 .. RootEntries /\ RootEntries \in Nat
      BY LookupAssumption DEF InRoot
    <3> QED  BY <2>1, <3>1
  <2>3. found \notin Live => parts[1][1] = ErasedMark
    <3>1. Live = Counted  BY <1>1, CountedLive DEF Inv, DiskInv
    <3> QED  BY <1>1, <3>1, ErasedFound
  <2>4. Readable(disk.items[found + 1]) =>
          SameName(ShortName(disk.items[found + 1]), parts[1])
    BY <2>1, ReadAsNamed DEF Match
  <2> QED  BY <2>1, <2>2, <2>3, <2>4
<1> QED  BY <1>1, InvAlways, PTL

(* An entry is found under its name if nothing erased comes before it, its  *)
(* fields are padded and no other entry is read as the same name: the count *)
(* of entries, which is less than their positions if some are erased,       *)
(* reaches it, and a later match cannot take its place (src/fs/fat16.c:604).*)
THEOREM LookupUniqueFound == Spec => []UniqueFound
<1>1. ASSUME Inv PROVE UniqueFound
  <2> SUFFICES ASSUME pc = "idle", InRoot, Len(parts) = 1, Drive(path) = 0,
                      NEW k \in Live, 0 .. k \subseteq Live,
                      Readable(disk.items[k + 1]),
                      SameName(ShortName(disk.items[k + 1]), parts[1]),
                      \A j \in Live \ {k} :
                        ~ SameName(FullName(disk.items[j + 1]), parts[1])
               PROVE  found = k
    BY DEF UniqueFound
  <2> USE <1>1 DEF Inv
  <2>1. /\ EndAt \in 1 .. RootEntries /\ RootEntries \in Nat
        /\ Counted = Used(EndAt - 1) /\ total = Cardinality(Counted) /\ total \in 0 .. EndAt - 1
        /\ Live = Counted
    BY Buffered, CountedLive DEF DiskInv
  <2>2. k \in 0 .. EndAt - 2 /\ ~ Erased(disk.items[k + 1])
    BY <2>1 DEF Counted
  <2>3. k \in 0 .. total - 1
    <3>1. EndAt - 1 \in Nat /\ k \in Nat  BY <2>1, <2>2
    <3>2. k < total  BY <2>1, <3>1, NoGap
    <3> QED  BY <2>1, <3>1, <3>2
  <2> DEFINE e == disk.items[k + 1]
  <2>4. e \in EntryKinds
    <3>1. disk.items \in Seq(EntryKinds) /\ RootEntries <= Len(disk.items)  BY DEF DiskInv
    <3>2. k + 1 \in 1 .. Len(disk.items)  BY <2>1, <2>2, <3>1
    <3> QED  BY <3>1, <3>2, ElementOfSeq
  <2>5. SameName(FullName(e), parts[1])
    <3>1. FullName(e) = ShortName(e)  BY <2>4, ReadAsNamed
    <3> QED  BY <3>1
  <2>6. LastMatch(total)  BY DEF IdleInv, InRoot
  <2>7. k <= found  BY <2>3, <2>5, <2>6 DEF LastMatch, Match
  <2>8. found # None  BY <2>2, <2>7 DEF None
  <2>9. SameName(FullName(disk.items[found + 1]), parts[1])  BY <2>8, Settled DEF Match
  <2>10. CASE found \in Counted  BY <2>1, <2>9, <2>10
  <2>11. CASE found \notin Counted
    <3>1. 1 \in DOMAIN parts[1] /\ parts[1][1] = ErasedMark  BY <2>8, <2>11, ErasedFound
    <3>2. SameName(parts[1], FullName(e))  BY <2>5 DEF SameName
    <3>3. 1 \in DOMAIN FullName(e) /\ FullName(e)[1] = ErasedMark
      <4> HIDE DEF e
      <4> QED  BY <3>1, <3>2, SameFirst
    <3>4. e[1] = ErasedMark
      <4> HIDE DEF e
      <4> QED  BY <2>4, <3>3, FirstLetter
    <3> QED  BY <2>2, <3>4 DEF Erased
  <2> QED  BY <2>10, <2>11
<1> QED  BY <1>1, InvAlways, PTL

-----------------------------------------------------------------------------
(* Booting and opening come to an end.                                      *)

(* Where a call is, and what its loop has still to look at: entries of the  *)
(* disk, characters of the path, entries of the directory.                  *)
Stage == CASE pc = "boot" -> 3
           [] pc \in {"count", "parse"} -> 2
           [] pc = "scan" -> 1
           [] OTHER -> 0

ItemsLeft == CASE pc = "count" -> Len(disk.items) - i
               [] pc = "parse" -> Len(rest)
               [] pc = "scan" -> total - i
               [] OTHER -> 0

Below       == OpToRel(<, Nat)
LookupOrder == LexPairOrdering(Below, Below, Nat, Nat)

LEMMA LookupOrderWellFounded == IsWellFoundedOn(LookupOrder, Nat \X Nat)
<1>1. IsWellFoundedOn(Below, Nat)  BY NatLessThanWellFounded, Zenon DEF Below
<1> QED  BY <1>1, WFLexPairOrdering, Zenon DEF LookupOrder

LEMMA LookupOrderIs ==
  ASSUME NEW a \in Nat, NEW b \in Nat, NEW x \in Nat, NEW y \in Nat,
         a < x \/ (a = x /\ b < y)
  PROVE  <<<<a, b>>, <<x, y>>>> \in LookupOrder
BY DEF LookupOrder, LexPairOrdering, Below, OpToRel

LEMMA StagesAreNat == Inv => Stage \in Nat /\ ItemsLeft \in Nat
<1> SUFFICES ASSUME Inv PROVE Stage \in Nat /\ ItemsLeft \in Nat
  OBVIOUS
<1>1. Stage \in Nat  BY DEF Stage
<1>2. Len(disk.items) \in Nat /\ Len(rest) \in Nat
  <2>1. disk.items \in Seq(EntryKinds) /\ rest \in Seq(Nat)  BY DEF Inv, DiskInv, TextsInv
  <2> QED  BY <2>1
<1>3. /\ i \in 0 .. Len(disk.items) /\ total \in 0 .. Len(disk.items)
      /\ pc = "scan" => i <= total
  BY DEF Inv, LookupTypeOK
<1>4. ItemsLeft \in Nat
  <2>1. CASE pc = "count"  BY <1>2, <1>3, <2>1 DEF ItemsLeft
  <2>2. CASE pc = "parse"  BY <1>2, <2>2 DEF ItemsLeft
  <2>3. CASE pc = "scan"  BY <1>2, <1>3, <2>3 DEF ItemsLeft
  <2>4. CASE pc \notin {"count", "parse", "scan"}  BY <2>4 DEF ItemsLeft
  <2> QED  BY <2>1, <2>2, <2>3, <2>4
<1> QED  BY <1>1, <1>4

(* Each step of a boot or an fopen brings it nearer to its end.             *)
LEMMA StagesDecrease ==
  ASSUME Inv, Inv', Next, pc # "idle"
  PROVE  <<<<Stage', ItemsLeft'>>, <<Stage, ItemsLeft>>>> \in LookupOrder
<1>1. Len(disk.items) \in Nat /\ i \in Nat /\ total \in Nat
  <2>1. disk.items \in Seq(EntryKinds)  BY DEF Inv, DiskInv
  <2>2. Len(disk.items) \in Nat  BY <2>1
  <2> QED  BY <2>2 DEF Inv, LookupTypeOK
<1>2. Stage' < Stage \/ (Stage' = Stage /\ ItemsLeft' < ItemsLeft)
  <2>1. CASE ResolveForeign  BY <2>1 DEF ResolveForeign, Stage
  <2>2. CASE Resolve  BY <2>2 DEF Resolve, Stage
  <2>3. CASE CountUsed \/ CountErased
    <3>1. /\ pc = "count" /\ pc' = "count" /\ i < Len(disk.items) /\ i' = i + 1
          /\ disk' = disk
      BY <2>3 DEF CountUsed, CountErased, Counting, dir
    <3>2. Stage' = Stage  BY <3>1 DEF Stage
    <3>3. ItemsLeft = Len(disk.items) - i /\ ItemsLeft' = Len(disk.items) - (i + 1)
      BY <3>1 DEF ItemsLeft
    <3> QED  BY <1>1, <3>2, <3>3
  <2>4. CASE CountEnd \/ DiskWaits
    <3>1. pc = "count" /\ pc' \in {"idle", "waits"}
      BY <2>4 DEF CountEnd, DiskWaits, Counting
    <3> QED  BY <3>1 DEF Stage
  <2>5. CASE ParsePart
    <3>1. /\ pc = "parse" /\ pc' = "parse" /\ Component(rest) # <<>>
          /\ rest' = Remainder(rest)
      BY <2>5 DEF ParsePart
    <3>2. Stage' = Stage  BY <3>1 DEF Stage
    <3>3. ItemsLeft = Len(rest) /\ ItemsLeft' = Len(Remainder(rest))
      BY <3>1 DEF ItemsLeft
    <3>4. rest \in Seq(Nat)  BY DEF Inv, TextsInv
    <3> QED  BY <3>1, <3>2, <3>3, <3>4, RemainderShorter
  <2>6. CASE ParseEnd
    <3>1. pc = "parse" /\ pc' \in {"idle", "scan"}  BY <2>6 DEF ParseEnd
    <3> QED  BY <3>1 DEF Stage
  <2>7. CASE ScanMiss \/ ScanMatch
    <3>1. /\ pc = "scan" /\ pc' = "scan" /\ i < total /\ i' = i + 1 /\ total' = total
      BY <2>7 DEF ScanMiss, ScanMatch, dir
    <3>2. Stage' = Stage  BY <3>1 DEF Stage
    <3>3. ItemsLeft = total - i /\ ItemsLeft' = total - (i + 1)
      BY <3>1 DEF ItemsLeft
    <3> QED  BY <1>1, <3>2, <3>3
  <2>8. CASE LoadWaits \/ ScanEnd
    <3>1. pc = "scan" /\ pc' \in {"idle", "waits"}  BY <2>8 DEF LoadWaits, ScanEnd
    <3> QED  BY <3>1 DEF Stage
  <2>9. Steps  BY DEF Next, OpenBadPath, Open
  <2> QED  BY <2>1, <2>2, <2>3, <2>4, <2>5, <2>6, <2>7, <2>8, <2>9 DEF Steps
<1>3. Stage \in Nat /\ ItemsLeft \in Nat  BY StagesAreNat
<1>4. Stage' \in Nat /\ ItemsLeft' \in Nat
  <2>1. Inv' => (Stage \in Nat /\ ItemsLeft \in Nat)'  BY StagesAreNat, PTL
  <2> QED  BY <2>1
<1> HIDE DEF Stage, ItemsLeft
<1> QED  BY <1>2, <1>3, <1>4, LookupOrderIs

(* Counting the entries of a directory, parsing a path and searching the    *)
(* root directory (src/fs/fat16.c:181, src/fs/pparser.c, src/fs/fat16.c:604)*)
(* are loops that end: each step goes down in an order that has no infinite *)
(* descent, to the call's return or to a disk that has no more to read.     *)
THEOREM LookupEnds ==
  /\ IsWellFoundedOn(LookupOrder, Nat \X Nat)
  /\ Spec => [][pc # "idle" =>
                 <<<<Stage', ItemsLeft'>>, <<Stage, ItemsLeft>>>> \in LookupOrder]_vars
<1>1. Inv /\ [Next]_vars =>
        [pc # "idle" => <<<<Stage', ItemsLeft'>>, <<Stage, ItemsLeft>>>> \in LookupOrder]_vars
  <2> SUFFICES ASSUME Inv, Next, pc # "idle"
               PROVE  <<<<Stage', ItemsLeft'>>, <<Stage, ItemsLeft>>>> \in LookupOrder
    OBVIOUS
  <2>1. Inv'  BY InvNext
  <2> QED  BY <2>1, StagesDecrease
<1>2. Spec => [][pc # "idle" =>
                 <<<<Stage', ItemsLeft'>>, <<Stage, ItemsLeft>>>> \in LookupOrder]_vars
  BY InvInit, InvNext, <1>1, PTL DEF Spec
<1> QED  BY <1>2, LookupOrderWellFounded

(* On a disk whose directories have their end marks, nothing reads past the *)
(* last sector.                                                             *)
LEMMA NoWait ==
  ASSUME Inv, Next, DirectoriesEnd, pc # "waits"
  PROVE  pc' # "waits"
<1> USE DEF Inv
<1>1. CASE DiskWaits
  <2>1. pc = "count" /\ i = Len(disk.items) /\ disk.signed
        /\ \A j \in 1 .. i : ~ EndMark(disk.items[j])
    BY <1>1 DEF DiskWaits, CountInv
  <2>2. EndAt # 0  BY <2>1, LookupAssumption DEF DirectoriesEnd
  <2> DEFINE I == {j \in 1 .. Len(disk.items) : EndMark(disk.items[j])}
  <2>3. EndAt = IF I # {} THEN Min(I) ELSE 0  BY DEF EndAt, SelectInSeq
  <2>4. I = {}  BY <2>1
  <2> HIDE DEF I
  <2> QED  BY <2>2, <2>3, <2>4
<1>2. CASE LoadWaits
  <2>1. pc = "scan" /\ i < total /\ (i < Len(root) => disk.subs # "short")
    BY <1>2 DEF LoadWaits
  <2>2. mounted /\ disk.signed  BY <2>1 DEF ScanInv, CountedRight
  <2>3. InRoot /\ disk.subs = "short"  BY <2>2 DEF DirectoriesEnd, InRoot
  <2>4. /\ EndAt \in 1 .. RootEntries /\ RootEntries \in Nat
        /\ total \in 0 .. EndAt - 1 /\ Len(root) = RootEntries
    BY <2>1, <2>3, Buffered
  <2>5. i \in Nat
    <3>1. i \in 0 .. Len(disk.items)  BY DEF LookupTypeOK
    <3> QED  BY <3>1
  <2>6. i < Len(root)  BY <2>1, <2>4, <2>5
  <2> QED  BY <2>1, <2>3, <2>6
<1>3. CASE ~ (DiskWaits \/ LoadWaits)
  BY <1>3 DEF Next, Steps, ResolveForeign, Resolve, CountUsed, CountErased, CountEnd,
     ParsePart, ParseEnd, ScanMiss, ScanMatch, ScanEnd, OpenBadPath, Open
<1> QED  BY <1>1, <1>2, <1>3

(* And on such a disk it is the return: the kernel never waits for a sector *)
(* behind the last one, as it does where an end mark is missing or the      *)
(* table leads there (src/fs/fat16.c:181, :564). What LookupReturns adds to both is that the steps  *)
(* are taken.                                                               *)
THEOREM LookupNeverWaits == Spec => [](DirectoriesEnd => pc # "waits")
<1> DEFINE Runs == DirectoriesEnd => pc # "waits"
<1>1. Init => Runs  BY DEF Init
<1>2. Inv /\ Runs /\ [Next]_vars => Runs'
  <2> SUFFICES ASSUME Inv, Runs, [Next]_vars, DirectoriesEnd'
               PROVE  pc' # "waits"
    OBVIOUS
  <2>1. disk' = disk
    BY DEF Next, Steps, ResolveForeign, Resolve, CountUsed, CountErased, CountEnd, DiskWaits,
       ParsePart, ParseEnd, ScanMiss, ScanMatch, LoadWaits, ScanEnd, OpenBadPath, Open, dir, vars
  <2>2. DirectoriesEnd
    <3>1. EndAt' = EndAt  BY <2>1, DiskStays
    <3> QED  BY <2>1, <3>1 DEF DirectoriesEnd
  <2>3. CASE Next  BY <2>2, <2>3, NoWait
  <2>4. CASE UNCHANGED vars  BY <2>2, <2>4 DEF vars
  <2> QED  BY <2>3, <2>4
<1> QED  BY <1>1, <1>2, InvInit, InvNext, PTL DEF Spec
=============================================================================
