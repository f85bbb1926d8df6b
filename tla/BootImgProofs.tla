---------------------------- MODULE BootImgProofs ----------------------------
(***************************************************************************)
(* Lemmas about the image format that the proofs about bootimg-extract and *)
(* bootimg-repack rest on.                                                 *)
(***************************************************************************)
EXTENDS BootImg, WellFoundedInduction, TLAPS

(***************************************************************************)
(* A number of pages is a number, none for nothing and enough for n bytes. *)
(***************************************************************************)
LEMMA PagesBounds ==
    ASSUME NEW ps \in PageSizes, NEW n \in Nat
    PROVE  /\ Pages(n, ps) \in Nat
           /\ n <= Pages(n, ps) * ps
           /\ n = 0 => Pages(n, ps) = 0
           /\ n > 0 => Pages(n, ps) > 0
<1>1. CASE ps = 2048
  BY <1>1 DEF Pages
<1>2. CASE ps = 4096
  BY <1>2 DEF Pages
<1>3. CASE ps = 16384
  BY <1>3 DEF Pages
<1>4. QED
  BY <1>1, <1>2, <1>3 DEF PageSizes

(***************************************************************************)
(* The position the tools advance over n bytes, from a page boundary, is   *)
(* the one the layout computes from the number of pages: the sum is only   *)
(* rounded once, and a mask stands for the multiplication.                 *)
(***************************************************************************)
LEMMA NextPageIsPages ==
    ASSUME NEW ps \in PageSizes, NEW k \in Nat, NEW n \in Nat
    PROVE  NextPage(k * ps, n, ps) = (k + Pages(n, ps)) * ps
<1>1. CASE ps = 2048
  BY <1>1 DEF Pages, NextPage
<1>2. CASE ps = 4096
  BY <1>2 DEF Pages, NextPage
<1>3. CASE ps = 16384
  BY <1>3 DEF Pages, NextPage
<1>4. QED
  BY <1>1, <1>2, <1>3 DEF PageSizes

(***************************************************************************)
(* The layout of a header: each part starts where rounding up after the    *)
(* one before it leads, an absent part moves nothing, and every part lies  *)
(* before the end.                                                         *)
(***************************************************************************)
LEMMA Layout ==
    ASSUME NEW h \in Header, h.page_size \in PageSizes
    PROVE  LET ps == h.page_size IN
           /\ KernelPos(h) = ps
           /\ KernelPos(h) \in Nat /\ RamdiskPos(h) \in Nat /\ SecondPos(h) \in Nat
           /\ DtPos(h) \in Nat /\ EndPos(h) \in Nat
           /\ RamdiskPos(h) = NextPage(KernelPos(h), h.kernel_size, ps)
           /\ SecondPos(h) = NextPage(RamdiskPos(h), h.ramdisk_size, ps)
           /\ DtPos(h) = NextPage(SecondPos(h), h.second_size, ps)
           /\ EndPos(h) = NextPage(DtPos(h), h.unused0, ps)
           /\ KernelPos(h) + h.kernel_size <= RamdiskPos(h)
           /\ RamdiskPos(h) + h.ramdisk_size <= SecondPos(h)
           /\ SecondPos(h) + h.second_size <= DtPos(h)
           /\ DtPos(h) + h.unused0 <= EndPos(h)
           /\ h.kernel_size = 0 => RamdiskPos(h) = KernelPos(h)
           /\ h.ramdisk_size = 0 => SecondPos(h) = RamdiskPos(h)
           /\ h.second_size = 0 => DtPos(h) = SecondPos(h)
           /\ h.unused0 = 0 => EndPos(h) = DtPos(h)
<1> DEFINE ps == h.page_size
           k == Pages(h.kernel_size, ps)
           r == Pages(h.ramdisk_size, ps)
           s == Pages(h.second_size, ps)
           d == Pages(h.unused0, ps)
<1>1. /\ h.kernel_size \in Nat /\ h.ramdisk_size \in Nat
      /\ h.second_size \in Nat /\ h.unused0 \in Nat /\ ps \in PageSizes
  BY DEF Header
<1>2. /\ k \in Nat /\ h.kernel_size <= k * ps /\ (h.kernel_size = 0 => k = 0)
      /\ r \in Nat /\ h.ramdisk_size <= r * ps /\ (h.ramdisk_size = 0 => r = 0)
      /\ s \in Nat /\ h.second_size <= s * ps /\ (h.second_size = 0 => s = 0)
      /\ d \in Nat /\ h.unused0 <= d * ps /\ (h.unused0 = 0 => d = 0)
  BY <1>1, PagesBounds
<1>3. /\ KernelPos(h) = 1 * ps
      /\ RamdiskPos(h) = (1 + k) * ps
      /\ SecondPos(h) = (1 + k + r) * ps
      /\ DtPos(h) = (1 + k + r + s) * ps
      /\ EndPos(h) = (1 + k + r + s + d) * ps
  BY DEF KernelPos, RamdiskPos, SecondPos, DtPos, EndPos,
         KernelPage, RamdiskPage, SecondPage, DtPage, EndPage
<1> HIDE DEF k, r, s, d, ps
<1>4. /\ RamdiskPos(h) = NextPage(KernelPos(h), h.kernel_size, ps)
      /\ SecondPos(h) = NextPage(RamdiskPos(h), h.ramdisk_size, ps)
      /\ DtPos(h) = NextPage(SecondPos(h), h.second_size, ps)
      /\ EndPos(h) = NextPage(DtPos(h), h.unused0, ps)
  <2>1. /\ 1 \in Nat /\ 1 + k \in Nat /\ 1 + k + r \in Nat /\ 1 + k + r + s \in Nat
    BY <1>2
  <2>2. NextPage(1 * ps, h.kernel_size, ps) = (1 + k) * ps
    BY <1>1, <2>1, NextPageIsPages DEF k, ps
  <2>3. NextPage((1 + k) * ps, h.ramdisk_size, ps) = ((1 + k) + r) * ps
    BY <1>1, <2>1, NextPageIsPages DEF r, ps
  <2>4. NextPage((1 + k + r) * ps, h.second_size, ps) = ((1 + k + r) + s) * ps
    BY <1>1, <2>1, NextPageIsPages DEF s, ps
  <2>5. NextPage((1 + k + r + s) * ps, h.unused0, ps) = ((1 + k + r + s) + d) * ps
    BY <1>1, <2>1, NextPageIsPages DEF d, ps
  <2>6. QED
    BY <1>3, <2>2, <2>3, <2>4, <2>5
<1>5. /\ KernelPos(h) = ps
      /\ KernelPos(h) \in Nat /\ RamdiskPos(h) \in Nat /\ SecondPos(h) \in Nat
      /\ DtPos(h) \in Nat /\ EndPos(h) \in Nat
      /\ KernelPos(h) + h.kernel_size <= RamdiskPos(h)
      /\ RamdiskPos(h) + h.ramdisk_size <= SecondPos(h)
      /\ SecondPos(h) + h.second_size <= DtPos(h)
      /\ DtPos(h) + h.unused0 <= EndPos(h)
      /\ h.kernel_size = 0 => RamdiskPos(h) = KernelPos(h)
      /\ h.ramdisk_size = 0 => SecondPos(h) = RamdiskPos(h)
      /\ h.second_size = 0 => DtPos(h) = SecondPos(h)
      /\ h.unused0 = 0 => EndPos(h) = DtPos(h)
  <2>1. CASE ps = 2048
    BY <1>1, <1>2, <1>3, <2>1
  <2>2. CASE ps = 4096
    BY <1>1, <1>2, <1>3, <2>2
  <2>3. CASE ps = 16384
    BY <1>1, <1>2, <1>3, <2>3
  <2>4. QED
    BY <1>1, <2>1, <2>2, <2>3 DEF PageSizes
<1>6. QED
  BY <1>4, <1>5 DEF ps

(***************************************************************************)
(* Rounding up after a part does not lead back, nor does it after a file   *)
(* that is missing (n = -1).                                               *)
(***************************************************************************)
LEMMA NextPageAfter ==
    ASSUME NEW ps \in PageSizes, NEW p \in Nat, NEW n \in Nat \cup {-1}
    PROVE  NextPage(p, n, ps) \in Nat /\ p + n <= NextPage(p, n, ps)
<1>1. CASE ps = 2048
  BY <1>1 DEF NextPage
<1>2. CASE ps = 4096
  BY <1>2 DEF NextPage
<1>3. CASE ps = 16384
  BY <1>3 DEF NextPage
<1>4. QED
  BY <1>1, <1>2, <1>3 DEF PageSizes

(***************************************************************************)
(* An image that has a header has it at the first place where the search   *)
(* of both tools finds one.                                                *)
(***************************************************************************)
LEMMA HeaderFound ==
    ASSUME NEW i, IsImage(i), HasHeader(i)
    PROVE  HeaderAt(i) \in Nat /\ HeaderAt(i) \in HeaderOffsets(i)
<1>1. HeaderOffsets(i) \subseteq Nat /\ HeaderOffsets(i) # {}
  BY DEF IsImage, HasHeader, HeaderOffsets
<1>2. PICK m \in HeaderOffsets(i) :
        \A y \in HeaderOffsets(i) : ~(<<y, m>> \in OpToRel(<, Nat))
  BY <1>1, NatLessThanWellFounded, WFMin
<1>3. \A y \in HeaderOffsets(i) : ~(y < m)
  BY <1>1, <1>2 DEF OpToRel
<1>4. \A y \in HeaderOffsets(i) : m <= y
  BY <1>1, <1>3
<1>5. HeaderAt(i) \in HeaderOffsets(i)
  BY <1>4 DEF HeaderAt
<1>6. QED
  BY <1>1, <1>5

(***************************************************************************)
(* Whatever is looked for in an image, a blob is found.                    *)
(***************************************************************************)
LEMMA BlobAtType ==
    ASSUME NEW i, IsImage(i), NEW p
    PROVE  BlobAt(i.at, p) \in Blob
<1>1. Junk \in Blob
  BY IdsAssumption DEF Junk, Blob, Formats
<1>2. QED
  BY <1>1 DEF IsImage, BlobAt

(***************************************************************************)
(* Placing a blob adds it where it is put, and moves no other.             *)
(***************************************************************************)
IsAt(at) == DOMAIN at \subseteq Nat /\ at \in [DOMAIN at -> Blob]

LEMMA PlaceType ==
    ASSUME NEW at, IsAt(at), NEW p \in Nat, NEW b \in Blob, NEW n \in Int
    PROVE  IsAt(Place(at, p, b, n))
<1>1. CASE n <= 0
  BY <1>1 DEF Place
<1>2. CASE ~(n <= 0)
  <2>1. Place(at, p, b, n) = [q \in DOMAIN at \cup {p} |-> IF q = p THEN b ELSE at[q]]
    BY <1>2 DEF Place
  <2>2. QED
    BY <2>1 DEF IsAt
<1>3. QED
  BY <1>1, <1>2

LEMMA PlaceFinds ==
    ASSUME NEW at, NEW p \in Nat, NEW b, NEW n \in Int, NEW q \in Nat
    PROVE  BlobAt(Place(at, p, b, n), q) = IF n > 0 /\ q = p THEN b ELSE BlobAt(at, q)
<1>1. CASE n <= 0
  BY <1>1 DEF Place
<1>2. CASE ~(n <= 0)
  <2>1. Place(at, p, b, n) = [r \in DOMAIN at \cup {p} |-> IF r = p THEN b ELSE at[r]]
    BY <1>2 DEF Place
  <2>2. QED
    BY <1>2, <2>1 DEF BlobAt
<1>3. QED
  BY <1>1, <1>2
=============================================================================
