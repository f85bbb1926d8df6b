---------------------------- MODULE RepackProofs ----------------------------
(***************************************************************************)
(* Proofs about bootimg-repack, for every original, every directory and    *)
(* whether or not writes may be short.                                     *)
(***************************************************************************)
EXTENDS Repack, BootImgProofs

Fields == {"kernel_size", "ramdisk_size", "second_size", "unused0"}

\* Once the header is found, the image has its page size.
Created ==
    rpc \in {"kernel", "ramdisk", "second", "dt", "post", "done"} =>
        img.hdr.page_size \in PageSizes /\ out.hdr.page_size = img.hdr.page_size

RepackTyped == RepackTypeOK /\ Small /\ Created

(***************************************************************************)
(* The initial states satisfy the type invariant.                          *)
(***************************************************************************)
LEMMA NoImageType == IsImage(NoImage)
  BY DEF IsImage, NoImage, Header

LEMMA RepackTypedInit == RepackInit => RepackTyped
  BY NoImageType, JobsAssumption
  DEF RepackInit, RepackStart, RepackTyped, RepackTypeOK, DirType, RStages, Small, Created

(***************************************************************************)
(* The length of a file that is there is a number below U32, that of a     *)
(* file that is not is -1.                                                 *)
(***************************************************************************)
LEMMA FileLenType ==
    ASSUME DirType, Small, NEW name \in Names
    PROVE  /\ FileLen(name) \in Nat \cup {-1}
           /\ FileLen(name) % U32 \in Nat /\ (FileLen(name) + MtkHdrLen) % U32 \in Nat
           /\ dir[name].what \in Blob
           /\ Exists(name) => /\ FileLen(name) = dir[name].len /\ FileLen(name) \in Nat
                              /\ FileLen(name) % U32 = FileLen(name)
                              /\ (FileLen(name) + MtkHdrLen) % U32 = FileLen(name) + MtkHdrLen
<1>1. Junk \in Blob
  BY IdsAssumption DEF Junk, Blob, Formats
<1>2. U32 \in Nat /\ U32 > 65536 /\ MtkHdrLen = 512
  BY U32Assumption DEF MtkHdrLen
<1>3. CASE Exists(name)
  <2>1. dir[name] \in File
    BY <1>3 DEF Exists, DirType
  <2>2. dir[name].len \in Nat /\ dir[name].what \in Blob
    BY <2>1 DEF File
  <2>3. FileLen(name) = dir[name].len
    BY <1>3 DEF FileLen
  <2>4. dir[name].len + 512 < U32
    BY <1>2 DEF Small
  <2>5. QED
    BY <1>2, <2>2, <2>3, <2>4
<1>4. CASE ~Exists(name)
  <2>1. FileLen(name) = -1 /\ dir[name].what = Junk
    BY <1>4 DEF Exists, FileLen, NoFile
  <2>2. QED
    BY <1>1, <1>2, <1>4, <2>1
<1>5. QED
  BY <1>3, <1>4

With(i, at, fld, v) == [i EXCEPT !.at = at, !.hdr[fld] = v]

(***************************************************************************)
(* The image with other blobs and another size in its header.              *)
(***************************************************************************)
LEMMA Resized ==
    ASSUME NEW i, IsImage(i), NEW at, IsAt(at), NEW fld \in Fields, NEW v \in Nat, NEW j,
           j = With(i, at, fld, v)
    PROVE  /\ IsImage(j) /\ j.at = at /\ j.size = i.size /\ j.hdr.page_size = i.hdr.page_size
           /\ j.hdr.kernel_size  = IF fld = "kernel_size"  THEN v ELSE i.hdr.kernel_size
           /\ j.hdr.ramdisk_size = IF fld = "ramdisk_size" THEN v ELSE i.hdr.ramdisk_size
           /\ j.hdr.second_size  = IF fld = "second_size"  THEN v ELSE i.hdr.second_size
           /\ j.hdr.unused0      = IF fld = "unused0"      THEN v ELSE i.hdr.unused0
<1>1. /\ j.at = at /\ j.size = i.size /\ j.magicAt = i.magicAt /\ j.chromeos = i.chromeos
      /\ j.sign = i.sign /\ j.hdr = [i.hdr EXCEPT ![fld] = v]
      /\ j = [size |-> j.size, magicAt |-> j.magicAt, chromeos |-> j.chromeos,
              sign |-> j.sign, hdr |-> j.hdr, at |-> j.at]
  BY DEF IsImage, With
<1>2. i.hdr \in Header
  BY DEF IsImage
<1>3. j.hdr \in Header
  BY <1>1, <1>2 DEF Header, Fields
<1>4. /\ j.hdr.page_size = i.hdr.page_size
      /\ j.hdr.kernel_size  = IF fld = "kernel_size"  THEN v ELSE i.hdr.kernel_size
      /\ j.hdr.ramdisk_size = IF fld = "ramdisk_size" THEN v ELSE i.hdr.ramdisk_size
      /\ j.hdr.second_size  = IF fld = "second_size"  THEN v ELSE i.hdr.second_size
      /\ j.hdr.unused0      = IF fld = "unused0"      THEN v ELSE i.hdr.unused0
  BY <1>1, <1>2 DEF Header, Fields
<1>5. IsImage(j)
  BY <1>1, <1>3 DEF IsImage, IsAt
<1>6. QED
  BY <1>1, <1>4, <1>5

(***************************************************************************)
(* What appending a file may leave: nothing before it moves, and its own   *)
(* blob is in place unless the write was short.                            *)
(***************************************************************************)
LEMMA AppendedIs ==
    ASSUME DirType, Small, NEW at, IsAt(at), NEW name \in Names, NEW p \in Nat,
           NEW new \in Appended(at, name, p)
    PROVE  /\ IsAt(new)
           /\ \A q \in Nat : q # p => BlobAt(new, q) = BlobAt(at, q)
           /\ FileLen(name) > 0 => BlobAt(new, p) \in Written(name)
<1>1. /\ FileLen(name) \in Int /\ dir[name].what \in Blob /\ Junk \in Blob
  BY FileLenType, IdsAssumption DEF Junk, Blob, Formats
<1>2. PICK b \in Written(name) : new = Place(at, p, b, FileLen(name))
  BY DEF Appended
<1>3. b \in Blob
  BY <1>1 DEF Written, OrCut
<1>4. QED
  BY <1>1, <1>2, <1>3, PlaceType, PlaceFinds

(***************************************************************************)
(* A stage that appends a file: the header gets its length and no other    *)
(* size, the position moves past it, and nothing before it changes.        *)
(***************************************************************************)
Kept == \A q \in Nat : q < rpos => BlobAt(out'.at, q) = BlobAt(out.at, q)

Sizes(k, r, s, d) ==
    /\ out'.hdr.kernel_size = k /\ out'.hdr.ramdisk_size = r
    /\ out'.hdr.second_size = s /\ out'.hdr.unused0 = d

LEMMA AppendFileIs ==
    ASSUME RepackTyped, rpc \in {"kernel", "ramdisk", "second", "dt"},
           NEW name \in Names, NEW fld \in Fields, NEW next, AppendFile(name, fld, next)
    PROVE  /\ IsImage(out') /\ rpos' \in Nat /\ rpc' = next
           /\ out'.hdr.page_size = out.hdr.page_size
           /\ rpos' = NextPage(rpos, FileLen(name), out.hdr.page_size)
           /\ LET n == FileLen(name) % U32
                  h == out.hdr
              IN  Sizes(IF fld = "kernel_size"  THEN n ELSE h.kernel_size,
                        IF fld = "ramdisk_size" THEN n ELSE h.ramdisk_size,
                        IF fld = "second_size"  THEN n ELSE h.second_size,
                        IF fld = "unused0"      THEN n ELSE h.unused0)
           /\ Kept /\ out'.at \in Appended(out.at, name, rpos)
           /\ FileLen(name) > 0 => BlobAt(out'.at, rpos) \in Written(name)
<1>1. /\ IsImage(out) /\ IsAt(out.at) /\ DirType /\ Small /\ rpos \in Nat
      /\ img.hdr.page_size \in PageSizes /\ out.hdr.page_size = img.hdr.page_size
  BY DEF RepackTyped, RepackTypeOK, Created, IsImage, IsAt
<1>2. PICK at \in Appended(out.at, name, rpos) :
          out' = [out EXCEPT !.at = at, !.hdr[fld] = FileLen(name) % U32]
  BY ZenonT(40) DEF AppendFile
<1>3. /\ IsAt(at) /\ \A q \in Nat : q # rpos => BlobAt(at, q) = BlobAt(out.at, q)
      /\ FileLen(name) > 0 => BlobAt(at, rpos) \in Written(name)
  BY <1>1, AppendedIs
<1>4. FileLen(name) % U32 \in Nat /\ FileLen(name) \in Nat \cup {-1}
  BY <1>1, FileLenType
<1> DEFINE v == FileLen(name) % U32
<1> HIDE DEF v
<1>5. /\ IsImage(out') /\ out'.at = at /\ out'.hdr.page_size = out.hdr.page_size
      /\ Sizes(IF fld = "kernel_size"  THEN v ELSE out.hdr.kernel_size,
               IF fld = "ramdisk_size" THEN v ELSE out.hdr.ramdisk_size,
               IF fld = "second_size"  THEN v ELSE out.hdr.second_size,
               IF fld = "unused0"      THEN v ELSE out.hdr.unused0)
  <2>1. v \in Nat
    BY <1>4 DEF v
  <2>2. out' = With(out, at, fld, v)
    BY <1>2 DEF v, With
  <2>3. /\ IsImage(out') /\ out'.at = at /\ out'.hdr.page_size = out.hdr.page_size
        /\ out'.hdr.kernel_size  = IF fld = "kernel_size"  THEN v ELSE out.hdr.kernel_size
        /\ out'.hdr.ramdisk_size = IF fld = "ramdisk_size" THEN v ELSE out.hdr.ramdisk_size
        /\ out'.hdr.second_size  = IF fld = "second_size"  THEN v ELSE out.hdr.second_size
        /\ out'.hdr.unused0      = IF fld = "unused0"      THEN v ELSE out.hdr.unused0
    BY <1>1, <1>3, <2>1, <2>2, Resized
  <2>4. QED
    BY <2>3 DEF Sizes
<1>6. /\ rpos' = NextPage(rpos, FileLen(name), out.hdr.page_size) /\ rpc' = next
  BY <1>1 DEF AppendFile
<1>7. rpos' \in Nat
  BY <1>1, <1>4, <1>6, NextPageAfter
<1>8. Kept
  BY <1>1, <1>3, <1>5 DEF Kept
<1>9. out'.at \in Appended(out.at, name, rpos)
  BY <1>2, <1>5
<1>10. QED
  BY <1>3, <1>5, <1>6, <1>7, <1>8, <1>9 DEF v

(***************************************************************************)
(* The same of the stage that appends a ramdisk behind an MTK header.      *)
(***************************************************************************)
LEMMA AppendMtkIs ==
    ASSUME RepackTyped, AppendMtkRamdisk, rpc' # "exit1"
    PROVE  /\ IsImage(out') /\ rpos' \in Nat /\ rpc' = "second" /\ rpc = "ramdisk"
           /\ Exists("ramdisk-mtk") /\ Exists("ramdisk.gz")
           /\ out'.hdr.page_size = out.hdr.page_size
           /\ rpos' = NextPage(rpos, dir["ramdisk.gz"].len + MtkHdrLen, out.hdr.page_size)
           /\ Sizes(out.hdr.kernel_size, dir["ramdisk.gz"].len + MtkHdrLen,
                    out.hdr.second_size, out.hdr.unused0)
           /\ Kept /\ BlobAt(out'.at, rpos) \in OrCut(MtkHeader)
           /\ dir["ramdisk.gz"].len > 0
                 => BlobAt(out'.at, rpos + MtkHdrLen) \in Written("ramdisk.gz")
<1> DEFINE n       == FileLen("ramdisk.gz")
           With512(b) == Place(out.at, rpos, b, MtkHdrLen)
<1>1. /\ rpc = "ramdisk" /\ Exists("ramdisk-mtk") /\ Exists("ramdisk.gz") /\ rpc' = "second"
      /\ rpos' = NextPage(rpos, n + MtkHdrLen, img.hdr.page_size)
  BY ZenonT(40) DEF AppendMtkRamdisk
<1>2. /\ IsImage(out) /\ IsAt(out.at) /\ DirType /\ Small /\ rpos \in Nat
      /\ img.hdr.page_size \in PageSizes /\ out.hdr.page_size = img.hdr.page_size
  BY <1>1 DEF RepackTyped, RepackTypeOK, Created, IsImage, IsAt
<1>b. PICK b \in OrCut(MtkHeader) :
          \E at \in Appended(With512(b), "ramdisk.gz", rpos + MtkHdrLen) :
             out' = [out EXCEPT !.at = at, !.hdr["ramdisk_size"] = (n + MtkHdrLen) % U32]
  BY <1>1, ZenonT(40) DEF AppendMtkRamdisk
<1> DEFINE top == With512(b)
<1>3. PICK at \in Appended(top, "ramdisk.gz", rpos + MtkHdrLen) :
          out' = [out EXCEPT !.at = at, !.hdr["ramdisk_size"] = (n + MtkHdrLen) % U32]
  BY <1>b
<1>4. b \in Blob /\ MtkHdrLen \in Nat /\ "ramdisk.gz" \in Names /\ MtkHdrLen \in Int
  BY IdsAssumption DEF OrCut, Junk, MtkHeader, Blob, Formats, MtkHdrLen, Names, Payloads
<1>5. /\ IsAt(top)
      /\ \A q \in Nat : q < rpos => BlobAt(top, q) = BlobAt(out.at, q)
      /\ BlobAt(top, rpos) = b
  BY <1>2, <1>4, PlaceType, PlaceFinds DEF MtkHdrLen
<1>6. rpos + MtkHdrLen \in Nat /\ rpos + MtkHdrLen > rpos
  BY <1>2 DEF MtkHdrLen
<1>7. /\ IsAt(at) /\ \A q \in Nat : q # rpos + MtkHdrLen => BlobAt(at, q) = BlobAt(top, q)
      /\ n > 0 => BlobAt(at, rpos + MtkHdrLen) \in Written("ramdisk.gz")
  BY <1>2, <1>4, <1>5, <1>6, AppendedIs
<1>8. /\ n = dir["ramdisk.gz"].len /\ n \in Nat
      /\ (n + MtkHdrLen) % U32 = n + MtkHdrLen /\ n + MtkHdrLen \in Nat
  BY <1>1, <1>2, <1>4, FileLenType
<1> HIDE DEF n, top
<1>9. /\ IsImage(out') /\ out'.at = at /\ out'.hdr.page_size = out.hdr.page_size
      /\ Sizes(out.hdr.kernel_size, n + MtkHdrLen, out.hdr.second_size, out.hdr.unused0)
  <2>1. "ramdisk_size" \in Fields
    BY DEF Fields
  <2>2. out' = With(out, at, "ramdisk_size", n + MtkHdrLen)
    BY <1>3, <1>8 DEF With
  <2>3. /\ IsImage(out') /\ out'.at = at /\ out'.hdr.page_size = out.hdr.page_size
        /\ out'.hdr.kernel_size  = IF "ramdisk_size" = "kernel_size"  THEN n + MtkHdrLen ELSE out.hdr.kernel_size
        /\ out'.hdr.ramdisk_size = IF "ramdisk_size" = "ramdisk_size" THEN n + MtkHdrLen ELSE out.hdr.ramdisk_size
        /\ out'.hdr.second_size  = IF "ramdisk_size" = "second_size"  THEN n + MtkHdrLen ELSE out.hdr.second_size
        /\ out'.hdr.unused0      = IF "ramdisk_size" = "unused0"      THEN n + MtkHdrLen ELSE out.hdr.unused0
    BY <1>2, <1>7, <1>8, <2>1, <2>2, Resized
  <2>4. QED
    BY <2>3 DEF Sizes
<1>10. rpos' \in Nat
  BY <1>1, <1>2, <1>8, NextPageAfter
<1>11. Kept
  BY <1>2, <1>5, <1>6, <1>7, <1>9 DEF Kept
<1>12. BlobAt(out'.at, rpos) = b
  BY <1>2, <1>5, <1>6, <1>7, <1>9
<1>13. QED
  BY <1>1, <1>2, <1>7, <1>8, <1>9, <1>10, <1>11, <1>12

(***************************************************************************)
(* Every stage preserves the type invariant.                               *)
(***************************************************************************)
LEMMA CreateImageIs ==
    ASSUME RepackTyped, CreateImage, rpc' # "exit1"
    PROVE  LET ps == img.hdr.page_size IN
           /\ ps \in PageSizes /\ IsImage(out') /\ rpos' = ps /\ rpc' = "kernel"
           /\ out'.hdr = [page_size |-> ps, kernel_size |-> 0, ramdisk_size |-> 0,
                          second_size |-> 0, unused0 |-> 0]
<1> DEFINE ps == img.hdr.page_size
<1>1. /\ ps \in PageSizes /\ rpos' = ps /\ rpc' = "kernel"
      /\ out' = [NoImage EXCEPT !.size = ps, !.magicAt = {0},
                                !.sign = img.sign, !.hdr.page_size = ps]
  BY DEF CreateImage
<1>2. ps \in Nat /\ img.sign \in BOOLEAN
  BY <1>1 DEF PageSizes, RepackTyped, RepackTypeOK, IsImage
<1> HIDE DEF ps
<1>3. out' = [size |-> ps, magicAt |-> {0}, chromeos |-> FALSE, sign |-> img.sign,
              hdr |-> [page_size |-> ps, kernel_size |-> 0, ramdisk_size |-> 0,
                       second_size |-> 0, unused0 |-> 0],
              at |-> [p \in {} |-> Junk]]
  BY <1>1 DEF NoImage
<1>4. IsImage(out')
  BY <1>2, <1>3 DEF IsImage, Header
<1>5. out'.hdr = [page_size |-> ps, kernel_size |-> 0, ramdisk_size |-> 0,
                 second_size |-> 0, unused0 |-> 0]
  BY <1>3
<1>6. QED
  BY <1>1, <1>4, <1>5, Zenon DEF ps

LEMMA RepackTypedStep == RepackTyped /\ [RepackNext]_repackVars => RepackTyped'
<1> SUFFICES ASSUME RepackTyped, [RepackNext]_repackVars
             PROVE  RepackTyped'
  OBVIOUS
<1> DEFINE Moved == /\ IsImage(out') /\ rpos' \in Nat
                    /\ rpc' \in RStages \cup REnds
                    /\ out'.hdr.page_size = img.hdr.page_size
                    /\ img.hdr.page_size \in PageSizes
                    /\ UNCHANGED <<img, dir>>
           Ended == rpc' = "exit1" /\ UNCHANGED <<img, dir, rpos, out>>
           Appending == rpc \in {"kernel", "ramdisk", "second", "dt"}
<1>1. RepackTypeOK /\ Small /\ Created /\ IsImage(img) /\ IsImage(out) /\ DirType /\ rpos \in Nat
  BY DEF RepackTyped, RepackTypeOK
<1>2. Appending => /\ img.hdr.page_size \in PageSizes
                   /\ out.hdr.page_size = img.hdr.page_size
  BY <1>1 DEF Created
<1>3. /\ {"kernel", "ramdisk", "ramdisk.gz", "second", "dt"} \subseteq Names
      /\ {"second", "dt", "ramdisk", "post", "kernel", "done", "exit1"} \subseteq RStages \cup REnds
      /\ {"kernel_size", "ramdisk_size", "second_size", "unused0"} \subseteq Fields
  BY DEF Names, Payloads, RStages, REnds, Fields
<1>4. ASSUME Moved PROVE RepackTyped'
  BY <1>1, <1>4 DEF RepackTyped, RepackTypeOK, DirType, Small, Created
<1>5. ASSUME Ended PROVE RepackTyped'
  BY <1>1, <1>3, <1>5 DEF RepackTyped, RepackTypeOK, DirType, Small, Created
<1>6. ASSUME Appending, NEW name \in Names, NEW fld \in Fields, NEW next \in RStages \cup REnds,
             AppendFile(name, fld, next), UNCHANGED <<img, dir>>
      PROVE  Moved
  BY <1>2, <1>6, AppendFileIs
<1>7. CASE CreateImage
  <2>1. CASE rpc' = "exit1"
    BY <1>5, <1>7, <2>1 DEF CreateImage
  <2>2. CASE rpc' # "exit1"
    <3>1. UNCHANGED <<img, dir>>
      BY <1>7 DEF CreateImage
    <3>2. img.hdr.page_size \in Nat
      BY <1>1 DEF IsImage, Header
    <3>3. Moved
      BY <1>3, <1>7, <2>2, <3>1, <3>2, CreateImageIs
    <3>4. QED
      BY <1>4, <3>3
  <2>3. QED
    BY <2>1, <2>2
<1>8. CASE AppendKernel
  BY <1>3, <1>4, <1>6, <1>8 DEF AppendKernel
<1>9. CASE AppendRamdisk
  BY <1>3, <1>4, <1>6, <1>9 DEF AppendRamdisk
<1>10. CASE AppendMtkRamdisk
  <2>1. CASE rpc' = "exit1"
    BY <1>5, <1>10, <2>1 DEF AppendMtkRamdisk
  <2>2. CASE rpc' # "exit1"
    <3>1. UNCHANGED <<img, dir>>
      BY <1>10, ZenonT(40) DEF AppendMtkRamdisk
    <3>2. Moved
      BY <1>2, <1>3, <1>10, <2>2, <3>1, AppendMtkIs
    <3>3. QED
      BY <1>4, <3>2
  <2>3. QED
    BY <2>1, <2>2
<1>11. CASE AppendSecond
  <2>1. CASE Exists("second")
    BY <1>3, <1>4, <1>6, <1>11, <2>1 DEF AppendSecond
  <2>2. CASE ~Exists("second")
    BY <1>1, <1>2, <1>3, <1>4, <1>11, <2>2 DEF AppendSecond
  <2>3. QED
    BY <2>1, <2>2
<1>12. CASE AppendDt
  <2>1. CASE Exists("dt")
    BY <1>3, <1>4, <1>6, <1>12, <2>1 DEF AppendDt
  <2>2. CASE ~Exists("dt")
    BY <1>1, <1>2, <1>3, <1>4, <1>12, <2>2 DEF AppendDt
  <2>3. QED
    BY <2>1, <2>2
<1>13. CASE PostProcess
  <2>1. CASE rpc' = "exit1"
    BY <1>5, <1>13, <2>1 DEF PostProcess
  <2>2. CASE rpc' # "exit1"
    <3>1. /\ rpc = "post" /\ rpc' = "done" /\ out' = [out EXCEPT !.size = rpos]
          /\ UNCHANGED <<img, dir, rpos>>
      BY <1>13, <2>2 DEF PostProcess
    <3>2. img.hdr.page_size \in PageSizes /\ out.hdr.page_size = img.hdr.page_size
      BY <1>1, <3>1 DEF Created
    <3>3. IsImage(out') /\ out'.hdr = out.hdr
      BY <1>1, <3>1 DEF IsImage
    <3>4. QED
      BY <1>1, <1>3, <1>4, <3>1, <3>2, <3>3
  <2>3. QED
    BY <2>1, <2>2
<1>b. CASE UNCHANGED repackVars
  BY <1>1, <1>b DEF repackVars, RepackTyped, RepackTypeOK, DirType, Small, Created
<1>15. QED
  BY <1>7, <1>8, <1>9, <1>10, <1>11, <1>12, <1>13, <1>b DEF RepackNext

(***************************************************************************)
(* bootimg-repack keeps its types: the sizes it stores are uint32_t's even *)
(* when a file it wants is missing.                                        *)
(***************************************************************************)
THEOREM RepackTypeCorrect == RepackSpec => []RepackTypeOK
<1>1. RepackTyped => RepackTypeOK
  BY DEF RepackTyped
<1>2. QED
  BY <1>1, RepackTypedInit, RepackTypedStep, PTL DEF RepackSpec

-----------------------------------------------------------------------------
(***************************************************************************)
(* Why the image is laid out as its header says.  While parts are missing, *)
(* their sizes are 0, so that the end of the image announced so far is the *)
(* position the next part is appended at; what was appended lies before    *)
(* that position, so that nothing written later disturbs it.               *)
(***************************************************************************)
Wanted == Exists("kernel") /\ Exists(RamdiskFile)

KernelBuilt  == Holds("kernel", out.hdr.kernel_size, KernelPos(out.hdr))
RamdiskBuilt == Holds(RamdiskFile, out.hdr.ramdisk_size - RamdiskSkip,
                      RamdiskPos(out.hdr) + RamdiskSkip)
SecondBuilt  == IF Exists("second")
                THEN Holds("second", out.hdr.second_size, SecondPos(out.hdr))
                ELSE out.hdr.second_size = 0
DtBuilt      == IF Exists("dt")
                THEN Holds("dt", out.hdr.unused0, DtPos(out.hdr))
                ELSE out.hdr.unused0 = 0

LaidOut ==
    /\ rpos = EndPos(out.hdr)
    /\ IF rpc = "kernel" THEN out.hdr.kernel_size = 0 ELSE KernelBuilt
    /\ IF rpc \in {"kernel", "ramdisk"} THEN out.hdr.ramdisk_size = 0 ELSE RamdiskBuilt
    /\ IF rpc \in {"kernel", "ramdisk", "second"} THEN out.hdr.second_size = 0 ELSE SecondBuilt
    /\ IF rpc \in {"kernel", "ramdisk", "second", "dt"} THEN out.hdr.unused0 = 0 ELSE DtBuilt
    /\ rpc = "done" => out.size = rpos

LaidOutInv == (rpc \notin {"open", "exit1"} /\ Wanted) => LaidOut

(***************************************************************************)
(* The header after one more part: the parts before it stay where they     *)
(* were, it starts where they end, and the end moves past it.              *)
(***************************************************************************)
LEMMA Grown ==
    ASSUME NEW h \in Header, NEW g \in Header, h.page_size \in PageSizes,
           g.page_size = h.page_size
    PROVE  /\ KernelPos(g) = KernelPos(h)
           /\ g.kernel_size = h.kernel_size => RamdiskPos(g) = RamdiskPos(h)
           /\ (g.kernel_size = h.kernel_size /\ g.ramdisk_size = h.ramdisk_size)
                => SecondPos(g) = SecondPos(h)
           /\ (/\ g.kernel_size = h.kernel_size /\ g.ramdisk_size = h.ramdisk_size
               /\ g.second_size = h.second_size)
                => DtPos(g) = DtPos(h)
           /\ (/\ g.kernel_size = h.kernel_size /\ g.ramdisk_size = h.ramdisk_size
               /\ g.second_size = h.second_size /\ g.unused0 = h.unused0)
                => EndPos(g) = EndPos(h)
BY DEF KernelPos, RamdiskPos, SecondPos, DtPos, EndPos,
       KernelPage, RamdiskPage, SecondPage, DtPage, EndPage

(***************************************************************************)
(* A part that lies before the position is kept.                           *)
(***************************************************************************)
LEMMA HoldsKept ==
    ASSUME Kept, UNCHANGED dir, rpos \in Nat, NEW name \in Names,
           NEW n \in Int, NEW p \in Nat, p + n <= rpos, Holds(name, n, p)
    PROVE  Holds(name, n, p)'
<1>1. n > 0 => BlobAt(out'.at, p) = BlobAt(out.at, p)
  BY DEF Kept
<1>2. QED
  BY <1>1 DEF Holds, Written, OrCut

(***************************************************************************)
(* Where the parts of an image lie, seen from its end.                     *)
(***************************************************************************)
LEMMA PartsBeforeEnd ==
    ASSUME NEW h \in Header, h.page_size \in PageSizes
    PROVE  /\ KernelPos(h) \in Nat /\ RamdiskPos(h) \in Nat /\ SecondPos(h) \in Nat
           /\ DtPos(h) \in Nat /\ EndPos(h) \in Nat
           /\ KernelPos(h) + h.kernel_size <= EndPos(h)
           /\ RamdiskPos(h) + h.ramdisk_size <= EndPos(h)
           /\ SecondPos(h) + h.second_size <= EndPos(h)
           /\ DtPos(h) + h.unused0 <= EndPos(h)
<1>1. /\ h.kernel_size \in Nat /\ h.ramdisk_size \in Nat
      /\ h.second_size \in Nat /\ h.unused0 \in Nat
  BY DEF Header
<1>2. QED
  BY <1>1, Layout

(***************************************************************************)
(* The parts built before a step that appends are built after it, provided *)
(* the step leaves the sizes before the new part alone.                    *)
(***************************************************************************)
LEMMA PartsKept ==
    ASSUME RepackTyped, RepackTyped', Kept, UNCHANGED dir, rpos = EndPos(out.hdr),
           out.hdr.page_size \in PageSizes, out'.hdr.page_size = out.hdr.page_size,
           out'.hdr.kernel_size = out.hdr.kernel_size
    PROVE  /\ KernelBuilt => KernelBuilt'
           /\ out'.hdr.ramdisk_size = out.hdr.ramdisk_size =>
                /\ RamdiskBuilt => RamdiskBuilt'
                /\ out'.hdr.second_size = out.hdr.second_size => (SecondBuilt => SecondBuilt')
<1>1. /\ out.hdr \in Header /\ out'.hdr \in Header /\ rpos \in Nat
      /\ RamdiskFile \in Names /\ {"kernel", "second"} \subseteq Names
      /\ RamdiskSkip \in Nat
  BY DEF RepackTyped, RepackTypeOK, IsImage, RamdiskFile, Names, Payloads, RamdiskSkip, MtkHdrLen
<1>2. /\ RamdiskFile' = RamdiskFile /\ RamdiskSkip' = RamdiskSkip
      /\ \A n \in Names : Exists(n)' = Exists(n)
  BY DEF RamdiskFile, RamdiskSkip, Exists
<1>3. /\ out.hdr.kernel_size \in Nat /\ out.hdr.ramdisk_size \in Nat
      /\ out.hdr.second_size \in Nat
  BY <1>1 DEF Header
<1>4. KernelBuilt => KernelBuilt'
  <2>1. ASSUME KernelBuilt
        PROVE  Holds("kernel", out.hdr.kernel_size, KernelPos(out.hdr))'
    <3> DEFINE n == out.hdr.kernel_size
               p == KernelPos(out.hdr)
    <3>1. p \in Nat /\ n \in Int /\ p + n <= rpos /\ Holds("kernel", n, p)
      BY <1>1, <1>3, <2>1, PartsBeforeEnd DEF KernelBuilt
    <3>2. n' = n /\ p' = p
      BY <1>1, Grown
    <3>3. QED
      BY <1>1, <3>1, <3>2, HoldsKept
  <2>2. QED
    BY <2>1 DEF KernelBuilt
<1>5. ASSUME out'.hdr.ramdisk_size = out.hdr.ramdisk_size, RamdiskBuilt
      PROVE  RamdiskBuilt'
  <2> DEFINE n == out.hdr.ramdisk_size - RamdiskSkip
             p == RamdiskPos(out.hdr) + RamdiskSkip
             r == RamdiskFile
  <2>1. p \in Nat /\ n \in Int /\ p + n <= rpos
    BY <1>1, <1>3, PartsBeforeEnd
  <2>2. Holds(r, n, p) /\ r \in Names
    BY <1>1, <1>5 DEF RamdiskBuilt
  <2>3. n' = n /\ p' = p /\ r' = r
    BY <1>1, <1>2, <1>5, Grown
  <2> HIDE DEF n, p, r
  <2>4. Holds(r, n, p)'
    BY <1>1, <2>1, <2>2, <2>3, HoldsKept
  <2>5. QED
    BY <2>4 DEF RamdiskBuilt, n, p, r
<1>6. ASSUME out'.hdr.ramdisk_size = out.hdr.ramdisk_size,
             out'.hdr.second_size = out.hdr.second_size, SecondBuilt
      PROVE  SecondBuilt'
  <2> DEFINE n == out.hdr.second_size
             p == SecondPos(out.hdr)
  <2>1. p \in Nat /\ n \in Int /\ p + n <= rpos /\ "second" \in Names
    BY <1>1, <1>3, PartsBeforeEnd
  <2>2. n' = n /\ p' = p
    BY <1>1, <1>6, Grown
  <2>3. CASE Exists("second")
    <3>1. Holds("second", n, p)
      BY <1>6, <2>3 DEF SecondBuilt
    <3>2. Exists("second")'
      BY <1>2, <2>1, <2>3
    <3> HIDE DEF n, p
    <3>3. Holds("second", n, p)'
      BY <1>1, <2>1, <2>2, <3>1, HoldsKept
    <3>4. QED
      BY <3>2, <3>3 DEF SecondBuilt, n, p
  <2>4. CASE ~Exists("second")
    <3>1. ~Exists("second")'
      BY <1>2, <2>1, <2>4
    <3>2. QED
      BY <1>6, <2>4, <3>1 DEF SecondBuilt
  <2>5. QED
    BY <2>3, <2>4
<1>7. QED
  BY <1>4, <1>5, <1>6

(***************************************************************************)
(* A part appended to an image that announces nothing after it starts at   *)
(* the old end, and the new end is the next page boundary after it.        *)
(***************************************************************************)
LEMMA NewPart ==
    ASSUME NEW h \in Header, NEW g \in Header, h.page_size \in PageSizes,
           g.page_size = h.page_size, h.unused0 = 0
    PROVE  LET ps == h.page_size IN
           /\ (/\ h.kernel_size = 0 /\ h.ramdisk_size = 0 /\ h.second_size = 0
               /\ g.ramdisk_size = 0 /\ g.second_size = 0 /\ g.unused0 = 0)
                => /\ KernelPos(g) = EndPos(h)
                   /\ EndPos(g) = NextPage(EndPos(h), g.kernel_size, ps)
           /\ (/\ g.kernel_size = h.kernel_size /\ h.ramdisk_size = 0 /\ h.second_size = 0
               /\ g.second_size = 0 /\ g.unused0 = 0)
                => /\ RamdiskPos(g) = EndPos(h)
                   /\ EndPos(g) = NextPage(EndPos(h), g.ramdisk_size, ps)
           /\ (/\ g.kernel_size = h.kernel_size /\ g.ramdisk_size = h.ramdisk_size
               /\ h.second_size = 0 /\ g.unused0 = 0)
                => /\ SecondPos(g) = EndPos(h)
                   /\ EndPos(g) = NextPage(EndPos(h), g.second_size, ps)
           /\ (/\ g.kernel_size = h.kernel_size /\ g.ramdisk_size = h.ramdisk_size
               /\ g.second_size = h.second_size)
                => /\ DtPos(g) = EndPos(h)
                   /\ EndPos(g) = NextPage(EndPos(h), g.unused0, ps)
<1> DEFINE ps == h.page_size
<1>1. /\ EndPos(h) = DtPos(h)
      /\ h.second_size = 0 => DtPos(h) = SecondPos(h)
      /\ h.ramdisk_size = 0 => SecondPos(h) = RamdiskPos(h)
      /\ h.kernel_size = 0 => RamdiskPos(h) = KernelPos(h)
  BY Layout
<1>2. /\ RamdiskPos(g) = NextPage(KernelPos(g), g.kernel_size, ps)
      /\ SecondPos(g) = NextPage(RamdiskPos(g), g.ramdisk_size, ps)
      /\ DtPos(g) = NextPage(SecondPos(g), g.second_size, ps)
      /\ EndPos(g) = NextPage(DtPos(g), g.unused0, ps)
      /\ g.unused0 = 0 => EndPos(g) = DtPos(g)
      /\ g.second_size = 0 => DtPos(g) = SecondPos(g)
      /\ g.ramdisk_size = 0 => SecondPos(g) = RamdiskPos(g)
  BY Layout
<1>3. QED
  BY <1>1, <1>2, Grown

(***************************************************************************)
(* Every stage keeps what was built and adds its part.                     *)
(***************************************************************************)
LEMMA BuildKernel ==
    ASSUME RepackTyped, RepackTyped', LaidOut, Wanted, AppendKernel
    PROVE  LaidOut'
<1> DEFINE h == out.hdr
           g == out'.hdr
           n == FileLen("kernel")
<1>1. /\ rpc = "kernel" /\ AppendFile("kernel", "kernel_size", "ramdisk") /\ UNCHANGED dir
      /\ "kernel" \in Names /\ "kernel_size" \in Fields /\ Exists("kernel")
  BY DEF AppendKernel, Names, Payloads, Fields, Wanted
<1>2. /\ h \in Header /\ g \in Header /\ h.page_size \in PageSizes
      /\ n = dir["kernel"].len /\ n \in Nat /\ n % U32 = n
  BY <1>1, FileLenType DEF RepackTyped, RepackTypeOK, IsImage, Created
<1>3. /\ g.page_size = h.page_size /\ rpc' = "ramdisk"
      /\ rpos' = NextPage(rpos, n, h.page_size)
      /\ g.kernel_size = n /\ g.ramdisk_size = h.ramdisk_size
      /\ g.second_size = h.second_size /\ g.unused0 = h.unused0
      /\ n > 0 => BlobAt(out'.at, rpos) \in Written("kernel")
  BY <1>1, <1>2, AppendFileIs DEF Sizes
<1>4. /\ rpos = EndPos(h) /\ h.kernel_size = 0 /\ h.ramdisk_size = 0
      /\ h.second_size = 0 /\ h.unused0 = 0
  BY <1>1 DEF LaidOut
<1>5. KernelPos(g) = rpos /\ rpos' = EndPos(g)
  BY <1>2, <1>3, <1>4, NewPart
<1>6. KernelBuilt'
  BY <1>1, <1>2, <1>3, <1>5 DEF KernelBuilt, Holds, Written, OrCut
<1>7. QED
  BY <1>3, <1>4, <1>5, <1>6 DEF LaidOut

LEMMA BuildRamdisk ==
    ASSUME RepackTyped, RepackTyped', LaidOut, Wanted, AppendRamdisk
    PROVE  LaidOut'
<1> DEFINE h == out.hdr
           g == out'.hdr
           r == RamdiskFile
           n == FileLen(r)
<1>1. /\ rpc = "ramdisk" /\ ~Exists("ramdisk-mtk") /\ UNCHANGED dir
      /\ AppendFile(r, "ramdisk_size", "second")
      /\ r \in Names /\ "ramdisk_size" \in Fields /\ Exists(r) /\ r' = r
      /\ RamdiskSkip = 0 /\ RamdiskSkip' = 0
  BY DEF AppendRamdisk, RamdiskFile, RamdiskSkip, Names, Payloads, Fields, Wanted, Exists
<1>2. /\ h \in Header /\ g \in Header /\ h.page_size \in PageSizes
      /\ n = dir[r].len /\ n \in Nat /\ n % U32 = n
  BY <1>1, FileLenType DEF RepackTyped, RepackTypeOK, IsImage, Created
<1> HIDE DEF r
<1>3. /\ g.page_size = h.page_size /\ rpc' = "second" /\ Kept
      /\ rpos' = NextPage(rpos, n, h.page_size)
      /\ g.ramdisk_size = n /\ g.kernel_size = h.kernel_size
      /\ g.second_size = h.second_size /\ g.unused0 = h.unused0
      /\ n > 0 => BlobAt(out'.at, rpos) \in Written(r)
  BY <1>1, <1>2, AppendFileIs DEF Sizes
<1>4. /\ rpos = EndPos(h) /\ KernelBuilt /\ h.ramdisk_size = 0
      /\ h.second_size = 0 /\ h.unused0 = 0
  BY <1>1 DEF LaidOut
<1>5. RamdiskPos(g) = rpos /\ rpos' = EndPos(g) /\ RamdiskPos(g) \in Nat
  BY <1>2, <1>3, <1>4, NewPart, Layout
<1>6. RamdiskBuilt'
  <2>1. /\ g.ramdisk_size - RamdiskSkip' = n /\ RamdiskPos(g) + RamdiskSkip' = rpos
    BY <1>1, <1>2, <1>3, <1>5
  <2>2. /\ n = dir'[r].len
        /\ n > 0 => BlobAt(out'.at, rpos) \in Written(r)'
    BY <1>1, <1>2, <1>3 DEF Written, OrCut
  <2>3. QED
    BY <1>1, <2>1, <2>2 DEF RamdiskBuilt, Holds, Written, OrCut, r
<1>7. KernelBuilt'
  BY <1>1, <1>2, <1>3, <1>4, PartsKept
<1>8. QED
  BY <1>3, <1>4, <1>5, <1>6, <1>7 DEF LaidOut

LEMMA BuildMtkRamdisk ==
    ASSUME RepackTyped, RepackTyped', LaidOut, Wanted, AppendMtkRamdisk, rpc' # "exit1"
    PROVE  LaidOut'
<1> DEFINE h == out.hdr
           g == out'.hdr
           n == dir["ramdisk.gz"].len
<1>1. /\ rpc = "ramdisk" /\ rpc' = "second" /\ UNCHANGED dir /\ Kept
      /\ Exists("ramdisk-mtk") /\ Exists("ramdisk.gz")
      /\ g.page_size = h.page_size
      /\ rpos' = NextPage(rpos, n + MtkHdrLen, h.page_size)
      /\ g.kernel_size = h.kernel_size /\ g.ramdisk_size = n + MtkHdrLen
      /\ g.second_size = h.second_size /\ g.unused0 = h.unused0
      /\ n > 0 => BlobAt(out'.at, rpos + MtkHdrLen) \in Written("ramdisk.gz")
  BY AppendMtkIs, ZenonT(40) DEF Sizes, AppendMtkRamdisk
<1>2. /\ h \in Header /\ g \in Header /\ h.page_size \in PageSizes
      /\ n \in Nat /\ n + MtkHdrLen \in Nat /\ MtkHdrLen \in Nat
  <2>1. "ramdisk.gz" \in Names /\ DirType /\ Small
    BY DEF Names, Payloads, RepackTyped, RepackTypeOK
  <2>2. QED
    BY <1>1, <2>1, FileLenType DEF RepackTyped, RepackTypeOK, IsImage, Created, MtkHdrLen
<1>3. /\ RamdiskFile' = "ramdisk.gz" /\ RamdiskSkip' = MtkHdrLen
  BY <1>1 DEF RamdiskFile, RamdiskSkip, Exists
<1>4. /\ rpos = EndPos(h) /\ KernelBuilt /\ h.ramdisk_size = 0
      /\ h.second_size = 0 /\ h.unused0 = 0
  BY <1>1 DEF LaidOut
<1>5. RamdiskPos(g) = rpos /\ rpos' = EndPos(g)
  BY <1>1, <1>2, <1>4, NewPart
<1>6. RamdiskBuilt'
  <2>1. g.ramdisk_size - MtkHdrLen = n
    BY <1>1, <1>2
  <2>2. QED
    BY <1>1, <1>3, <1>5, <2>1 DEF RamdiskBuilt, Holds, Written, OrCut
<1>7. KernelBuilt'
  BY <1>1, <1>2, <1>4, PartsKept
<1>8. QED
  BY <1>1, <1>4, <1>5, <1>6, <1>7 DEF LaidOut

LEMMA BuildSecond ==
    ASSUME RepackTyped, RepackTyped', LaidOut, Wanted, AppendSecond
    PROVE  LaidOut'
<1> DEFINE h == out.hdr
           g == out'.hdr
           n == FileLen("second")
<1>1. /\ rpc = "second" /\ UNCHANGED dir /\ "second" \in Names /\ "second_size" \in Fields
      /\ Exists("second")' = Exists("second")
  BY DEF AppendSecond, Names, Payloads, Fields, Exists
<1>2. /\ h \in Header /\ g \in Header /\ h.page_size \in PageSizes
      /\ Exists("second") => n = dir["second"].len /\ n \in Nat /\ n % U32 = n
  BY <1>1, FileLenType DEF RepackTyped, RepackTypeOK, IsImage, Created
<1>3. /\ rpos = EndPos(h) /\ KernelBuilt /\ RamdiskBuilt
      /\ h.second_size = 0 /\ h.unused0 = 0
  BY <1>1 DEF LaidOut
<1>4. CASE Exists("second")
  <2>1. /\ g.page_size = h.page_size /\ rpc' = "dt" /\ Kept
        /\ rpos' = NextPage(rpos, n, h.page_size)
        /\ g.second_size = n /\ g.kernel_size = h.kernel_size
        /\ g.ramdisk_size = h.ramdisk_size /\ g.unused0 = h.unused0
        /\ n > 0 => BlobAt(out'.at, rpos) \in Written("second")
    BY <1>1, <1>2, <1>4, AppendFileIs DEF AppendSecond, Sizes
  <2>2. SecondPos(g) = rpos /\ rpos' = EndPos(g)
    BY <1>2, <1>3, <2>1, NewPart
  <2>3. SecondBuilt'
    BY <1>1, <1>2, <1>4, <2>1, <2>2 DEF SecondBuilt, Holds, Written, OrCut
  <2>4. KernelBuilt' /\ RamdiskBuilt'
    BY <1>1, <1>2, <1>3, <2>1, PartsKept
  <2>5. QED
    BY <1>3, <2>1, <2>2, <2>3, <2>4 DEF LaidOut
<1>5. CASE ~Exists("second")
  <2>1. rpc' = "dt" /\ UNCHANGED <<dir, rpos, out>>
    BY <1>1, <1>5 DEF AppendSecond
  <2>2. KernelBuilt' /\ RamdiskBuilt' /\ SecondBuilt'
    BY <1>3, <1>5, <2>1
    DEF KernelBuilt, RamdiskBuilt, SecondBuilt, Holds, Written, OrCut, RamdiskFile,
        RamdiskSkip, Exists
  <2>3. QED
    BY <1>3, <2>1, <2>2 DEF LaidOut
<1>6. QED
  BY <1>4, <1>5

LEMMA BuildDt ==
    ASSUME RepackTyped, RepackTyped', LaidOut, Wanted, AppendDt
    PROVE  LaidOut'
<1> DEFINE h == out.hdr
           g == out'.hdr
           n == FileLen("dt")
<1>1. /\ rpc = "dt" /\ UNCHANGED dir /\ "dt" \in Names /\ "unused0" \in Fields
      /\ Exists("dt")' = Exists("dt")
  BY DEF AppendDt, Names, Payloads, Fields, Exists
<1>2. /\ h \in Header /\ g \in Header /\ h.page_size \in PageSizes
      /\ Exists("dt") => n = dir["dt"].len /\ n \in Nat /\ n % U32 = n
  BY <1>1, FileLenType DEF RepackTyped, RepackTypeOK, IsImage, Created
<1>3. /\ rpos = EndPos(h) /\ KernelBuilt /\ RamdiskBuilt /\ SecondBuilt /\ h.unused0 = 0
  BY <1>1 DEF LaidOut
<1>4. CASE Exists("dt")
  <2>1. /\ g.page_size = h.page_size /\ rpc' = "post" /\ Kept
        /\ rpos' = NextPage(rpos, n, h.page_size)
        /\ g.unused0 = n /\ g.kernel_size = h.kernel_size
        /\ g.ramdisk_size = h.ramdisk_size /\ g.second_size = h.second_size
        /\ n > 0 => BlobAt(out'.at, rpos) \in Written("dt")
    BY <1>1, <1>2, <1>4, AppendFileIs DEF AppendDt, Sizes
  <2>2. DtPos(g) = rpos /\ rpos' = EndPos(g)
    BY <1>2, <1>3, <2>1, NewPart
  <2>3. DtBuilt'
    BY <1>1, <1>2, <1>4, <2>1, <2>2 DEF DtBuilt, Holds, Written, OrCut
  <2>4. KernelBuilt' /\ RamdiskBuilt' /\ SecondBuilt'
    BY <1>1, <1>2, <1>3, <2>1, PartsKept
  <2>5. QED
    BY <2>1, <2>2, <2>3, <2>4 DEF LaidOut
<1>5. CASE ~Exists("dt")
  <2>1. rpc' = "post" /\ UNCHANGED <<dir, rpos, out>>
    BY <1>1, <1>5 DEF AppendDt
  <2>2. KernelBuilt' /\ RamdiskBuilt' /\ SecondBuilt' /\ DtBuilt'
    BY <1>3, <1>5, <2>1
    DEF KernelBuilt, RamdiskBuilt, SecondBuilt, DtBuilt, Holds, Written, OrCut,
        RamdiskFile, RamdiskSkip, Exists
  <2>3. QED
    BY <1>3, <2>1, <2>2 DEF LaidOut
<1>6. QED
  BY <1>4, <1>5

LEMMA BuildPost ==
    ASSUME RepackTyped, LaidOut, PostProcess, rpc' # "exit1"
    PROVE  LaidOut'
<1>1. /\ rpc = "post" /\ rpc' = "done" /\ UNCHANGED <<dir, rpos>>
      /\ out' = [out EXCEPT !.size = rpos]
  BY DEF PostProcess
<1>2. out'.hdr = out.hdr /\ out'.at = out.at /\ out'.size = rpos
  BY <1>1 DEF RepackTyped, RepackTypeOK, IsImage
<1>3. rpos = EndPos(out.hdr) /\ KernelBuilt /\ RamdiskBuilt /\ SecondBuilt /\ DtBuilt
  BY <1>1 DEF LaidOut
<1>4. KernelBuilt' /\ RamdiskBuilt' /\ SecondBuilt' /\ DtBuilt'
  BY <1>1, <1>2, <1>3
  DEF KernelBuilt, RamdiskBuilt, SecondBuilt, DtBuilt, Holds, Written, OrCut,
      RamdiskFile, RamdiskSkip, Exists
<1>5. QED
  BY <1>1, <1>2, <1>3, <1>4 DEF LaidOut

LEMMA LaidOutStep == RepackTyped /\ RepackTyped' /\ LaidOutInv /\ [RepackNext]_repackVars => LaidOutInv'
<1> SUFFICES ASSUME RepackTyped, RepackTyped', LaidOutInv, [RepackNext]_repackVars,
                    rpc' \notin {"open", "exit1"}, Wanted'
             PROVE  LaidOut'
  BY DEF LaidOutInv
<1>1. Wanted' = Wanted
  BY ZenonT(40) DEF Wanted, RamdiskFile, Exists, RepackNext, repackVars, CreateImage, AppendKernel,
         AppendRamdisk, AppendMtkRamdisk, AppendSecond, AppendDt, PostProcess
<1>2. CASE CreateImage
  <2> DEFINE g == out'.hdr
  <2>1. /\ g \in Header /\ g.page_size \in PageSizes /\ rpos' = g.page_size /\ rpc' = "kernel"
        /\ g.kernel_size = 0 /\ g.ramdisk_size = 0 /\ g.second_size = 0 /\ g.unused0 = 0
    BY <1>2, CreateImageIs DEF IsImage
  <2>2. rpos' = EndPos(g)
    BY <2>1, Layout
  <2>3. QED
    BY <2>1, <2>2 DEF LaidOut
<1>3. CASE rpc \in {"open", "exit1"} /\ ~CreateImage
  BY <1>3, ZenonT(40) DEF RepackNext, repackVars, AppendKernel,
              AppendRamdisk, AppendMtkRamdisk, AppendSecond, AppendDt, PostProcess
<1>4. CASE rpc \notin {"open", "exit1"}
  <2>1. LaidOut /\ Wanted
    BY <1>1, <1>4 DEF LaidOutInv
  <2>2. CASE UNCHANGED repackVars
    BY <2>1, <2>2
    DEF repackVars, LaidOut, KernelBuilt, RamdiskBuilt, SecondBuilt, DtBuilt, Holds, Written, OrCut,
                      RamdiskFile, RamdiskSkip, Exists
  <2>3. QED
    BY <1>2, <2>1, <2>2, BuildKernel, BuildRamdisk, BuildMtkRamdisk, BuildSecond, BuildDt, BuildPost
    DEF RepackNext
<1>5. QED
  BY <1>2, <1>3, <1>4

(***************************************************************************)
(* An image repack finishes from a kernel and a ramdisk has every part     *)
(* where its own header puts it: the positions main() advances agree with  *)
(* the page counts of bootimg.h, for all sizes and page sizes.             *)
(***************************************************************************)
THEOREM RepackBuildsAsLaidOut == RepackSpec => []BuildsAsLaidOut
<1>1. RepackInit => LaidOutInv
  BY DEF RepackInit, RepackStart, LaidOutInv
<1>2. LaidOutInv => BuildsAsLaidOut
  BY DEF LaidOutInv, LaidOut, BuildsAsLaidOut, Wanted, KernelBuilt, RamdiskBuilt,
         SecondBuilt, DtBuilt
<1>3. QED
  BY <1>1, <1>2, RepackTypedInit, RepackTypedStep, LaidOutStep, PTL DEF RepackSpec

-----------------------------------------------------------------------------
\* The inductive invariants for MtkFlavourKept, for directories with a kernel.
\* With an MTK header, the position is past it once it is written; without, no
\* blob of the image is taken for one, provided no file starts like one.
NoMtkFile == \A n \in Names : dir[n].what.fmt \notin MtkFlavours

Plain(at) == \A q \in Nat : BlobAt(at, q).fmt \notin MtkFlavours

MtkInv ==
    /\ rpc = "kernel"  => rpos = KernelPos(out.hdr)
    /\ rpc = "ramdisk" => rpos = RamdiskPos(out.hdr)
    /\ rpc \in {"second", "dt", "post", "done"} =>
         /\ rpos > RamdiskPos(out.hdr)
         /\ BlobAt(out.at, RamdiskPos(out.hdr)) \in OrCut(MtkHeader)

MtkHeaderInv ==
    (rpc \notin {"open", "exit1"} /\ Exists("kernel") /\ Exists("ramdisk-mtk")) => MtkInv

PlainInv ==
    /\ NoMtkFile
    /\ (rpc \notin {"open", "exit1"} /\ ~Exists("ramdisk-mtk")) => Plain(out.at)

LEMMA AppendedPlain ==
    ASSUME DirType, Small, NoMtkFile, NEW at, Plain(at), NEW name \in Names, NEW p \in Nat,
           NEW new \in Appended(at, name, p)
    PROVE  Plain(new)
<1>1. PICK b \in Written(name) : new = Place(at, p, b, FileLen(name))
  BY DEF Appended
<1>2. b.fmt \notin MtkFlavours
  BY DEF Written, OrCut, NoMtkFile, Junk, MtkFlavours
<1>3. FileLen(name) \in Int
  BY FileLenType
<1>4. QED
  BY <1>1, <1>2, <1>3, PlaceFinds DEF Plain

\* A later part leaves the kernel and the header in front of the ramdisk alone.
LEMMA MtkHeaderStays ==
    ASSUME RepackTyped, RepackTyped', MtkInv, UNCHANGED dir, Kept, rpos' >= rpos,
           rpc \in {"second", "dt"}, rpc' \in {"dt", "post"},
           out'.hdr.page_size = out.hdr.page_size, out'.hdr.kernel_size = out.hdr.kernel_size
    PROVE  MtkInv'
<1>1. /\ out.hdr \in Header /\ out.hdr.page_size \in PageSizes /\ rpos \in Nat /\ rpos' \in Nat
  BY DEF RepackTyped, RepackTypeOK, IsImage, Created
<1>2. RamdiskPos(out'.hdr) = RamdiskPos(out.hdr) /\ RamdiskPos(out.hdr) \in Nat
  BY <1>1, Layout DEF RamdiskPos, RamdiskPage, KernelPage
<1>3. /\ rpos > RamdiskPos(out.hdr)
      /\ BlobAt(out.at, RamdiskPos(out.hdr)) \in OrCut(MtkHeader)
  BY DEF MtkInv
<1>4. OrCut(MtkHeader)' = OrCut(MtkHeader)
  BY DEF OrCut, MtkHeader, Exists
<1>5. BlobAt(out'.at, RamdiskPos(out.hdr)) \in OrCut(MtkHeader)
  BY <1>2, <1>3 DEF Kept
<1>6. QED
  BY <1>1, <1>2, <1>3, <1>4, <1>5 DEF MtkInv

\* repack leaves the directory and the original as they are.
LEMMA RepackReads ==
    ASSUME [RepackNext]_repackVars PROVE UNCHANGED <<img, dir>>
  BY ZenonT(40) DEF RepackNext, repackVars, CreateImage, AppendKernel,
         AppendRamdisk, AppendMtkRamdisk, AppendSecond, AppendDt, PostProcess

LEMMA MtkHeaderStep ==
    RepackTyped /\ RepackTyped' /\ MtkHeaderInv /\ [RepackNext]_repackVars => MtkHeaderInv'
<1> SUFFICES ASSUME RepackTyped, RepackTyped', MtkHeaderInv, [RepackNext]_repackVars,
                    rpc' \notin {"open", "exit1"}, Exists("kernel"), Exists("ramdisk-mtk")
             PROVE  MtkInv'
  BY RepackReads DEF MtkHeaderInv, Exists
<1>1. dir' = dir /\ OrCut(MtkHeader)' = OrCut(MtkHeader)
  BY RepackReads DEF OrCut, MtkHeader, Exists
<1>2. /\ DirType /\ Small /\ rpos \in Nat /\ rpos' \in Nat
      /\ out.hdr \in Header /\ out'.hdr \in Header
      /\ {"kernel", "ramdisk", "ramdisk.gz", "second", "dt"} \subseteq Names
      /\ {"kernel_size", "ramdisk_size", "second_size", "unused0"} = Fields
  BY DEF RepackTyped, RepackTypeOK, IsImage, Names, Payloads, Fields
<1>3. ASSUME rpc \notin {"open", "exit1"} PROVE out.hdr.page_size \in PageSizes /\ MtkInv
  BY <1>3 DEF MtkHeaderInv, RepackTyped, RepackTypeOK, Created, RStages, REnds
<1>4. CASE CreateImage
  <2>1. /\ rpc' = "kernel" /\ rpos' = img.hdr.page_size /\ img.hdr.page_size \in PageSizes
        /\ out'.hdr.page_size = img.hdr.page_size
    BY <1>4, CreateImageIs DEF CreateImage
  <2>2. QED
    BY <1>2, <2>1, Layout DEF MtkInv
<1>5. CASE AppendKernel
  <2> DEFINE n == FileLen("kernel")
             h == out.hdr
             g == out'.hdr
  <2>1. rpc = "kernel" /\ AppendFile("kernel", "kernel_size", "ramdisk")
    BY <1>5 DEF AppendKernel
  <2>2. n \in Nat /\ n % U32 = n
    BY <1>2, FileLenType
  <2>3. /\ rpc' = "ramdisk" /\ g.page_size = h.page_size /\ g.kernel_size = n
        /\ rpos' = NextPage(rpos, n, h.page_size)
    BY <1>2, <2>1, <2>2, AppendFileIs DEF Sizes
  <2>4. rpos = KernelPos(h)
    BY <1>3, <2>1 DEF MtkInv
  <2>5. KernelPos(g) = KernelPos(h) /\ RamdiskPos(g) = NextPage(KernelPos(g), n, g.page_size)
    BY <1>2, <1>3, <2>1, <2>3, Layout
  <2>6. QED
    BY <2>3, <2>4, <2>5 DEF MtkInv
<1>6. CASE AppendMtkRamdisk
  <2> DEFINE n == dir["ramdisk.gz"].len
  <2>1. rpc' # "exit1"
    OBVIOUS
  <2>2. /\ rpc' = "second" /\ rpc = "ramdisk" /\ Exists("ramdisk-mtk") /\ Exists("ramdisk.gz")
        /\ out'.hdr.page_size = out.hdr.page_size /\ out'.hdr.kernel_size = out.hdr.kernel_size
        /\ rpos' = NextPage(rpos, n + MtkHdrLen, out.hdr.page_size)
        /\ BlobAt(out'.at, rpos) \in OrCut(MtkHeader)
    BY <1>6, <2>1, AppendMtkIs DEF Sizes
  <2>3. n \in Nat
    BY <1>2, <2>2, FileLenType
  <2>4. rpos = RamdiskPos(out.hdr) /\ RamdiskPos(out'.hdr) = RamdiskPos(out.hdr)
    BY <1>3, <2>2 DEF MtkInv, RamdiskPos, RamdiskPage, KernelPage
  <2>5. rpos' > rpos
    <3>1. n + MtkHdrLen \in Nat /\ n + MtkHdrLen > 0
      BY <2>3 DEF MtkHdrLen
    <3>2. rpos + (n + MtkHdrLen) <= rpos'
      BY <1>2, <1>3, <2>2, <3>1, NextPageAfter
    <3>3. QED
      BY <1>2, <3>1, <3>2
  <2>6. QED
    BY <1>1, <2>2, <2>4, <2>5 DEF MtkInv
<1>7. ASSUME NEW name \in {"second", "dt"}, NEW fld \in {"second_size", "unused0"},
             NEW next \in {"dt", "post"}, rpc \in {"second", "dt"}, Exists(name),
             AppendFile(name, fld, next)
      PROVE  MtkInv'
  <2>1. FileLen(name) \in Nat
    BY <1>2, <1>7, FileLenType
  <2>2. /\ rpc' = next /\ out'.hdr.page_size = out.hdr.page_size
        /\ out'.hdr.kernel_size = out.hdr.kernel_size
        /\ rpos' = NextPage(rpos, FileLen(name), out.hdr.page_size) /\ Kept
    BY <1>2, <1>7, AppendFileIs DEF Sizes
  <2>3. rpos + FileLen(name) <= rpos'
    BY <1>2, <1>3, <1>7, <2>1, <2>2, NextPageAfter
  <2>4. rpos' >= rpos
    BY <1>2, <2>1, <2>3
  <2>5. QED
    BY <1>1, <1>3, <1>7, <2>2, <2>4, MtkHeaderStays
<1>8. CASE AppendSecond \/ AppendDt
  <2>1. CASE UNCHANGED <<rpos, out>>
    <3>1. rpc \in {"second", "dt"} /\ rpc' \in {"dt", "post"}
      BY <1>8, ZenonT(40) DEF AppendSecond, AppendDt, AppendFile
    <3>2. QED
      BY <1>1, <1>3, <2>1, <3>1 DEF MtkInv
  <2>2. CASE ~UNCHANGED <<rpos, out>>
    <3>1. \/ rpc = "second" /\ Exists("second") /\ AppendFile("second", "second_size", "dt")
          \/ rpc = "dt" /\ Exists("dt") /\ AppendFile("dt", "unused0", "post")
      BY <1>8, <2>2 DEF AppendSecond, AppendDt
    <3>2. QED
      BY <1>7, <3>1
  <2>3. QED
    BY <2>1, <2>2
<1>9. CASE PostProcess
  <2>1. rpc = "post" /\ rpc' = "done" /\ rpos' = rpos /\ out' = [out EXCEPT !.size = rpos]
    BY <1>9 DEF PostProcess
  <2>2. out'.hdr = out.hdr /\ out'.at = out.at
    BY <2>1 DEF RepackTyped, RepackTypeOK, IsImage
  <2>3. QED
    BY <1>1, <1>3, <2>1, <2>2 DEF MtkInv
<1>10. CASE UNCHANGED repackVars
  BY <1>1, <1>3, <1>10 DEF repackVars, MtkInv
<1>11. QED
  BY <1>4, <1>5, <1>6, <1>7, <1>8, <1>9, <1>10 DEF RepackNext, AppendRamdisk

LEMMA PlainStep ==
    RepackTyped /\ PlainInv /\ [RepackNext]_repackVars => PlainInv'
<1> SUFFICES ASSUME RepackTyped, PlainInv, [RepackNext]_repackVars,
                    rpc' \notin {"open", "exit1"}, ~Exists("ramdisk-mtk")
             PROVE  Plain(out'.at)
  BY RepackReads DEF PlainInv, NoMtkFile, Exists
<1>1. /\ DirType /\ Small /\ NoMtkFile /\ rpos \in Nat
      /\ {"kernel", "ramdisk", "ramdisk.gz", "second", "dt"} \subseteq Names
      /\ {"kernel_size", "ramdisk_size", "second_size", "unused0"} = Fields
  BY DEF RepackTyped, RepackTypeOK, PlainInv, Names, Payloads, Fields
<1>2. rpc \notin {"open", "exit1"} => Plain(out.at)
  BY DEF PlainInv
<1>3. CASE CreateImage
  <2>1. out' = [NoImage EXCEPT !.size = img.hdr.page_size, !.magicAt = {0},
                               !.sign = img.sign, !.hdr.page_size = img.hdr.page_size]
    BY <1>3 DEF CreateImage
  <2>2. out'.at = [p \in {} |-> Junk]
    BY <2>1 DEF NoImage
  <2>3. QED
    BY <2>2 DEF Plain, BlobAt, Junk, MtkFlavours
<1>4. ASSUME NEW name \in Names, NEW fld \in Fields, NEW next, AppendFile(name, fld, next),
             rpc \in {"kernel", "ramdisk", "second", "dt"}
      PROVE  Plain(out'.at)
  <2>1. out'.at \in Appended(out.at, name, rpos)
    BY <1>4, AppendFileIs
  <2>2. QED
    BY <1>1, <1>2, <1>4, <2>1, AppendedPlain
<1>5. CASE AppendKernel
  BY <1>1, <1>4, <1>5 DEF AppendKernel
<1>6. CASE AppendRamdisk
  BY <1>1, <1>4, <1>6 DEF AppendRamdisk
<1>7. CASE AppendSecond
  BY <1>1, <1>2, <1>4, <1>7 DEF AppendSecond
<1>8. CASE AppendDt
  BY <1>1, <1>2, <1>4, <1>8 DEF AppendDt
<1>9. CASE PostProcess
  <2>1. rpc = "post" /\ out' = [out EXCEPT !.size = rpos]
    BY <1>9 DEF PostProcess
  <2>2. out'.at = out.at
    BY <2>1 DEF RepackTyped, RepackTypeOK, IsImage
  <2>3. QED
    BY <1>2, <2>1, <2>2
<1>10. CASE UNCHANGED repackVars
  BY <1>2, <1>10 DEF repackVars
<1>11. QED
  BY <1>3, <1>5, <1>6, <1>7, <1>8, <1>9, <1>10, ZenonT(40) DEF RepackNext, AppendMtkRamdisk

(***************************************************************************)
(* RepackMtkFlavourKept: on any directory none of whose files starts with  *)
(* the MTK header of a ramdisk (the one dump_ramdisk leaves never does, as *)
(* it steps over all of them), the finished image has the MTK header the   *)
(* flags ask for in front of its ramdisk, or nothing there if a write may  *)
(* fail; and without the flag it has no such header.                       *)
(***************************************************************************)
THEOREM RepackMtkFlavourKept ==
    ASSUME \A j \in Jobs, n \in Names : j.dir[n].what.fmt \notin MtkFlavours
    PROVE  RepackSpec => []MtkFlavourKept
<1>1. RepackInit => MtkHeaderInv /\ PlainInv
  BY DEF RepackInit, RepackStart, MtkHeaderInv, PlainInv, NoMtkFile
<1>2. RepackTyped /\ MtkHeaderInv /\ PlainInv => MtkFlavourKept
  <2> SUFFICES ASSUME RepackTyped, MtkHeaderInv, PlainInv, rpc = "done", Exists("kernel")
               PROVE  IF Exists("ramdisk-mtk")
                      THEN BlobAt(out.at, RamdiskPos(out.hdr)) \in OrCut(MtkHeader)
                      ELSE BlobAt(out.at, RamdiskPos(out.hdr)).fmt
                             \notin {"mtkboot", "mtkrecovery"}
    BY DEF MtkFlavourKept, OrCut, MtkHeader
  <2>1. CASE Exists("ramdisk-mtk")
    BY <2>1 DEF MtkHeaderInv, MtkInv
  <2>2. CASE ~Exists("ramdisk-mtk")
    <3>1. out.hdr \in Header /\ out.hdr.page_size \in PageSizes
      BY DEF RepackTyped, RepackTypeOK, IsImage, Created
    <3>2. RamdiskPos(out.hdr) \in Nat
      BY <3>1, Layout
    <3>3. QED
      BY <2>2, <3>2 DEF PlainInv, Plain, MtkFlavours
  <2>3. QED
    BY <2>1, <2>2
<1>3. QED
  BY <1>1, <1>2, RepackTypedInit, RepackTypedStep, MtkHeaderStep, PlainStep, PTL DEF RepackSpec

=============================================================================
