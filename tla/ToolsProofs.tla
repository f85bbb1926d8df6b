----------------------------- MODULE ToolsProofs -----------------------------
(***************************************************************************)
(* Proofs about bootimg-extract and bootimg-repack run one after the other *)
(* in the same directory, for all images and directories.                  *)
(***************************************************************************)
EXTENDS Tools, ExtractProofs, RepackProofs

(***************************************************************************)
(* The inductive invariant: the ones of the two programs, of which the     *)
(* second has not begun while the first runs, and what the first has told  *)
(* of the image if it has not failed.                                      *)
(***************************************************************************)
Told == WellFormed(img) /\ xpc # "abort" => Progress /\ Ending /\ GzOnly

ToolsInv ==
    /\ ExtractTyped /\ RepackTyped /\ LaidOutInv /\ MtkHeaderInv
    /\ xpc \notin XEnds => rpc = "open" /\ Fits(img)
    /\ Told

LEMMA ToolsInit == Init => ToolsInv
<1>1. ASSUME ExtractInit, RepackStart PROVE ToolsInv
  <2>1. ExtractTyped /\ Fits(img)
    BY <1>1, ExtractTypedInit, ImagesFitAssumption DEF ExtractInit
  <2>2. Small
    BY <1>1, U32Assumption DEF ExtractInit, EmptyDir, Small, NoFile, MtkHdrLen
  <2>3. RepackTyped /\ LaidOutInv /\ MtkHeaderInv /\ rpc = "open"
    BY <1>1, <2>1, <2>2, NoImageType
    DEF RepackStart, RepackTyped, RepackTypeOK, Created, RStages, LaidOutInv, MtkHeaderInv,
        ExtractTyped, ExtractTypeOK
  <2>4. Progress /\ Ending /\ GzOnly
    BY <1>1, ProgressInit
    DEF ExtractInit, ExtractStart, Ending, NothingLeftOutSilently, GzOnly, Exists, EmptyDir,
        Names, Payloads
  <2>5. QED
    BY <2>1, <2>3, <2>4 DEF ToolsInv, Told
<1>2. ASSUME RepackInit, NotExtracted PROVE ToolsInv
  <2>1. RepackTyped /\ LaidOutInv /\ MtkHeaderInv
    BY <1>2, RepackTypedInit DEF RepackInit, RepackStart, LaidOutInv, MtkHeaderInv
  <2>2. ExtractTyped
    BY <1>2, <2>1 DEF NotExtracted, ExtractTyped, ExtractTypeOK, Parsed, XEnds,
       RepackTyped, RepackTypeOK
  <2>3. QED
    BY <1>2, <2>1, <2>2 DEF NotExtracted, ToolsInv, Told, XEnds
<1>3. QED
  BY <1>1, <1>2 DEF Init

LEMMA ToolsStep == ToolsInv /\ [Next]_vars => ToolsInv'
<1> SUFFICES ASSUME ToolsInv, [Next]_vars PROVE ToolsInv'
  OBVIOUS
<1>0. /\ ExtractTyped /\ RepackTyped /\ LaidOutInv /\ MtkHeaderInv /\ Told
      /\ xpc \notin XEnds => rpc = "open" /\ Fits(img)
  BY DEF ToolsInv
<1>1. CASE RunExtract
  <2>1. ExtractNext /\ UNCHANGED <<rpc, rpos, out>>
    BY <1>1 DEF RunExtract
  <2>2. xpc \notin XEnds /\ img' = img /\ rpc = "open" /\ Fits(img)
    BY <1>0, <2>1, ExtractReads
  <2>3. ExtractTyped'
    BY <1>0, <2>1, ExtractTypedStep
  <2>4. RepackTyped'
    <3>1. Small'
      BY <1>0, <2>1, <2>2, ExtractSmall DEF RepackTyped
    <3>2. QED
      BY <1>0, <2>1, <2>2, <2>3, <3>1
      DEF RepackTyped, RepackTypeOK, Created, RStages, ExtractTyped, ExtractTypeOK
  <2>5. LaidOutInv' /\ MtkHeaderInv'
    BY <2>1, <2>2 DEF LaidOutInv, MtkHeaderInv
  <2>6. Told'
    BY <1>0, <2>1, <2>2, ProgressStep, EndStep, GzOnlyStep DEF Told, XEnds
  <2>7. (rpc = "open" /\ Fits(img))'
    BY <2>1, <2>2
  <2>8. QED
    BY <2>3, <2>4, <2>5, <2>6, <2>7 DEF ToolsInv
<1>2. CASE RunRepack \/ UNCHANGED vars
  <2>1. /\ [RepackNext]_repackVars /\ UNCHANGED <<xpc, xpos, xskip>>
        /\ UNCHANGED vars \/ xpc \in XEnds
    BY <1>2 DEF RunRepack, vars, repackVars
  <2>2. UNCHANGED <<img, dir>>
    BY <2>1, RepackReads
  <2>3. RepackTyped' /\ LaidOutInv' /\ MtkHeaderInv'
    BY <1>0, <2>1, RepackTypedStep, LaidOutStep, MtkHeaderStep
  <2>4. ExtractTyped'
    BY <1>0, <2>1, <2>2 DEF ExtractTyped, ExtractTypeOK, DirType, Parsed
  <2>5. Told'
    BY <1>0, <2>1, <2>2, ProgressStays, EndingStays DEF Told, GzOnly, Exists, RamdiskName
  <2>6. (xpc \notin XEnds)' => (rpc = "open" /\ Fits(img))'
    BY <1>0, <2>1, <2>2 DEF vars
  <2>7. QED
    BY <2>3, <2>4, <2>5, <2>6 DEF ToolsInv
<1>3. QED
  BY <1>1, <1>2 DEF Next

(***************************************************************************)
(* RebuiltAsItWas: what the two programs agree upon by file names and      *)
(* flags is enough to rebuild any image that was taken apart without a     *)
(* complaint, with no ramdisk lost as it was a byte too short: the same    *)
(* header, the same length, every part at its place.                       *)
(***************************************************************************)
LEMMA RebuiltAsItWas ==
    ASSUME ToolsInv, xpc = "done", rpc = "done", WellFormed(img),
           dir["secure"] = NoFile, Exists("ramdisk.gz"), xskip <= MtkHdrLen,
           ~OneByteShort
    PROVE  LET h == img.hdr
               r == RamdiskPos(h)
           IN  /\ out.hdr = h /\ out.size = img.size
               /\ Copied(KernelPos(h), h.kernel_size)
               /\ Copied(r + xskip, h.ramdisk_size - xskip)
               /\ xskip > 0 => \/ BlobAt(out.at, r).fmt = BlobAt(img.at, r).fmt
                               \/ ShortWrites /\ BlobAt(out.at, r) = Junk
               /\ Copied(SecondPos(h), h.second_size)
               /\ Copied(DtPos(h), h.unused0)
<1> DEFINE h == img.hdr
           g == out.hdr
           r == RamdiskPos(h)
           rest == h.ramdisk_size - xskip
<1>1. /\ ExtractTyped /\ RepackTyped /\ LaidOutInv /\ MtkHeaderInv /\ IsImage(img) /\ IsImage(out)
      /\ Progress /\ Ending /\ GzOnly /\ xskip \in Nat /\ xpc \in PastRamdisk /\ Stepped
  BY DEF ToolsInv, Told, RepackTyped, RepackTypeOK, ExtractTyped, ExtractTypeOK, PastRamdisk, Progress
<1>h. /\ h \in Header /\ g \in Header /\ h.kernel_size \in Nat /\ h.ramdisk_size \in Nat
      /\ h.second_size \in Nat /\ h.unused0 \in Nat /\ g.ramdisk_size \in Nat
      /\ g.page_size = h.page_size
  BY <1>1 DEF IsImage, Header, RepackTyped, Created
<1>2. /\ dir["kernel"] = Slice(KernelPos(h), h.kernel_size)
      /\ dir["ramdisk.gz"] = Slice(r + xskip, rest)
      /\ SecondCut /\ DtCut
  BY <1>1 DEF Progress, PartsCut, ArchiveCut, KernelCut, RamdiskCut, GzOnly, PastRamdisk
<1>3. /\ HeaderAt(img) = 0 /\ img.size = EndPos(h) /\ (dir["dt"] = NoFile) = (h.unused0 = 0)
  BY <1>1 DEF Ending, NothingLeftOutSilently
<1>4. OneMtkHeader(img)
  BY <1>1, OneStep
<1>5. /\ xskip = MtkLen(img)
      /\ Exists("ramdisk-mtk") <=> MtkLen(img) # 0
      /\ MtkLen(img) # 0 => /\ TopFormat \in MtkFlavours
                            /\ Exists("ramdisk-mtk-boot") <=> TopFormat = "mtkboot"
  BY <1>1, <1>4, SteppedOnce
<1>6. RamdiskSkip = xskip /\ RamdiskFile = "ramdisk.gz"
  BY <1>5 DEF RamdiskSkip, RamdiskFile, MtkLen
<1>7. rest \in Nat
  <2>1. dir["ramdisk.gz"] \in File
    BY <1>1 DEF RepackTyped, RepackTypeOK, DirType, Exists, Names, Payloads
  <2>2. dir["ramdisk.gz"].len = rest
    BY <1>2 DEF Slice
  <2>3. QED
    BY <2>1, <2>2 DEF File
<1>8. Exists("kernel") /\ Wanted
  BY <1>h, <1>2, <1>6 DEF Exists, Slice, NoFile, Wanted
<1>9. /\ KernelBuilt /\ RamdiskBuilt /\ SecondBuilt /\ DtBuilt
      /\ out.size = rpos /\ rpos = EndPos(g)
  BY <1>1, <1>8 DEF LaidOutInv, LaidOut
<1> HIDE DEF h, g, r, rest
<1>10. g.kernel_size = h.kernel_size /\ Copied(KernelPos(g), h.kernel_size)
  <2>1. KernelPos(g) = KernelPos(h)
    BY <1>h DEF KernelPos, KernelPage
  <2>2. Holds("kernel", g.kernel_size, KernelPos(g))
    BY <1>9 DEF KernelBuilt, g
  <2>3. dir["kernel"] = Slice(KernelPos(h), h.kernel_size) /\ h.kernel_size \in Nat
    BY <1>h, <1>2
  <2>4. /\ g.kernel_size = h.kernel_size
        /\ h.kernel_size > 0 => \/ BlobAt(out.at, KernelPos(g)) = BlobAt(img.at, KernelPos(h))
                                \/ ShortWrites /\ BlobAt(out.at, KernelPos(g)) = Junk
    BY <2>2, <2>3 DEF Slice, Holds, Written, OrCut
  <2>5. QED
    BY <2>1, <2>4 DEF Copied
<1>11. /\ g.ramdisk_size = h.ramdisk_size
       /\ rest > 0 => \/ BlobAt(out.at, RamdiskPos(g) + xskip) = BlobAt(img.at, r + xskip)
                      \/ ShortWrites /\ BlobAt(out.at, RamdiskPos(g) + xskip) = Junk
  <2>1. Holds("ramdisk.gz", g.ramdisk_size - xskip, RamdiskPos(g) + xskip)
    BY <1>6, <1>9 DEF RamdiskBuilt, g
  <2>2. /\ g.ramdisk_size - xskip = rest
        /\ rest > 0 => \/ BlobAt(out.at, RamdiskPos(g) + xskip) = BlobAt(img.at, r + xskip)
                       \/ ShortWrites /\ BlobAt(out.at, RamdiskPos(g) + xskip) = Junk
    <3>1. dir["ramdisk.gz"] = Slice(r + xskip, rest)
      BY <1>2
    <3>2. QED
      BY <1>7, <2>1, <3>1 DEF Slice, Holds, Written, OrCut
  <2>3. g.ramdisk_size = h.ramdisk_size
    BY <1>1, <1>h, <2>2 DEF rest
  <2>4. QED
    BY <2>2, <2>3
<1>12. /\ g.second_size = h.second_size
       /\ h.second_size > 0 => \/ BlobAt(out.at, SecondPos(g)) = BlobAt(img.at, SecondPos(h))
                               \/ ShortWrites /\ BlobAt(out.at, SecondPos(g)) = Junk
  <2>1. CASE h.second_size = 0
    <3>1. ~Exists("second")
      BY <1>2, <2>1 DEF SecondCut, Exists, h
    <3>2. QED
      BY <1>9, <2>1, <3>1 DEF SecondBuilt, g
  <2>2. CASE h.second_size # 0
    <3>1. dir["second"] = Slice(SecondPos(h), h.second_size)
      BY <1>2, <2>2 DEF SecondCut, h
    <3>2. Exists("second")
      BY <1>h, <3>1 DEF Exists, Slice, NoFile
    <3>3. Holds("second", g.second_size, SecondPos(g))
      BY <1>9, <3>2 DEF SecondBuilt, g
    <3>4. h.second_size \in Nat
      BY <1>h
    <3>5. QED
      BY <3>1, <3>3, <3>4 DEF Slice, Holds, Written, OrCut
  <2>3. QED
    BY <2>1, <2>2
<1>13. /\ g.unused0 = h.unused0
       /\ h.unused0 > 0 => \/ BlobAt(out.at, DtPos(g)) = BlobAt(img.at, DtPos(h))
                           \/ ShortWrites /\ BlobAt(out.at, DtPos(g)) = Junk
  <2>1. CASE h.unused0 = 0
    <3>1. ~Exists("dt")
      BY <1>3, <2>1 DEF Exists
    <3>2. QED
      BY <1>9, <2>1, <3>1 DEF DtBuilt, g
  <2>2. CASE h.unused0 # 0
    <3>1. dir["dt"] # NoFile
      BY <1>3, <2>2
    <3>2. dir["dt"] = Slice(DtPos(h), h.unused0)
      BY <1>2, <3>1 DEF DtCut, h
    <3>3. Holds("dt", g.unused0, DtPos(g))
      BY <1>9, <3>1 DEF DtBuilt, Exists, g
    <3>4. h.unused0 \in Nat
      BY <1>h
    <3>5. QED
      BY <3>2, <3>3, <3>4 DEF Slice, Holds, Written, OrCut
  <2>3. QED
    BY <2>1, <2>2
<1>14. g = h
  BY <1>h, <1>10, <1>11, <1>12, <1>13 DEF Header
<1>15. xskip > 0 => \/ BlobAt(out.at, r).fmt = BlobAt(img.at, r).fmt
                    \/ ShortWrites /\ BlobAt(out.at, r) = Junk
  <2> SUFFICES ASSUME xskip > 0
               PROVE  \/ BlobAt(out.at, r).fmt = BlobAt(img.at, r).fmt
                      \/ ShortWrites /\ BlobAt(out.at, r) = Junk
    OBVIOUS
  <2>1. MtkLen(img) # 0 /\ Exists("ramdisk-mtk")
    BY <1>1, <1>5
  <2>2. BlobAt(out.at, RamdiskPos(g)) \in OrCut(MtkHeader)
    BY <1>1, <1>8, <2>1 DEF MtkHeaderInv, MtkInv, g
  <2>3. \/ BlobAt(out.at, r) = MtkHeader
        \/ ShortWrites /\ BlobAt(out.at, r) = Junk
    <3>1. BlobAt(out.at, r) \in OrCut(MtkHeader)
      BY <1>14, <2>2 DEF r
    <3>2. QED
      BY <3>1 DEF OrCut
  <2>4. MtkHeader.fmt = BlobAt(img.at, r).fmt
    BY <1>5, <2>1 DEF MtkHeader, MtkFlavours, TopFormat, r, h
  <2>5. QED
    BY <2>3, <2>4
<1>16. QED
  BY <1>3, <1>9, <1>10, <1>11, <1>12, <1>13, <1>14, <1>15 DEF Copied, h, g, r, rest

(***************************************************************************)
(* ToolsRoundTrip: for all images, a well formed one with one MTK header   *)
(* at most that bootimg-extract takes apart without a complaint, and that  *)
(* repack puts together again in the same directory, has its header, its   *)
(* length and every part at its place, but for what a write that came      *)
(* short has left out, and for a ramdisk one byte shorter than its MTK     *)
(* header: the names and the flags the two programs agree upon carry all   *)
(* of it.                                                                  *)
(***************************************************************************)
THEOREM ToolsRoundTrip == Spec => []RoundTrip
<1>1. ToolsInv => RoundTrip
  BY RebuiltAsItWas DEF RoundTrip
<1>2. QED
  BY <1>1, ToolsInit, ToolsStep, PTL DEF Spec
=============================================================================
