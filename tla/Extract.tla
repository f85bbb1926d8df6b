------------------------------ MODULE Extract ------------------------------
(***************************************************************************)
(* bootimg-extract (jni/extract.c): cuts a boot image into the files       *)
(* kernel, ramdisk.gz or ramdisk.lzma, second and dt of the working        *)
(* directory, and raises flags there for what it learnt about the image.   *)
(* One action per stage of main().                                         *)
(***************************************************************************)
EXTENDS WorkDir

CONSTANT Images  \* the boot images extract is started on

ASSUME ImagesAssumption == \A i \in Images : IsImage(i)

\* No size is near the top of a uint32_t.
ASSUME ImagesFitAssumption == \A i \in Images : Fits(i)

VARIABLES xpc,    \* the stage of main(), or how the process ended
          xpos,   \* pos: offset after the header of the next component
          xskip   \* bytes of MTK headers dump_ramdisk has stepped over

extractVars == <<img, dir, xpc, xpos, xskip>>

XStages == {"start", "find", "kernel", "ramdisk", "second", "dt", "security"}
XEnds   == {"done", "abort"}

ExtractTypeOK ==
    /\ IsImage(img)
    /\ DirType
    /\ xpc \in XStages \cup XEnds
    /\ xpos \in Nat
    /\ xskip \in Nat

\* The process starts: main() with the name of an image.
ExtractStart == xpc = "start" /\ xpos = 0 /\ xskip = 0

-----------------------------------------------------------------------------
\* Mutant: a size_t that wrapped below zero is taken for a small number.
InFileWrapped(off, len) == HeaderAt(img) + off + len <= img.size

\* len bytes starting off bytes after the header are inside the mapped file.
InFile(off, len) == len >= 0 /\ HeaderAt(img) + off + len <= img.size

(***************************************************************************)
(* dump(base+off, len, name).  The file is unlinked and created, if it can *)
(* be, and then written from the mapping.  Reading past the end of the     *)
(* image either writes bytes that are not the image's or fails the         *)
(* assertion on the result of write(), and so does a full file system;     *)
(* then the file holds nothing, or the part that was in the image.  For a  *)
(* negative len, a size_t near its maximum, write() writes nothing and     *)
(* returns -1, which the assertion takes for len itself when that is -1.   *)
(***************************************************************************)
InTheFile(off) == IF HeaderAt(img) + off < img.size
                  THEN img.size - HeaderAt(img) - off ELSE 0

Dump(name, off, len, next) ==
    \/ /\ InFile(off, len)
       /\ dir' = [dir EXCEPT ![name] = [what |-> BlobAt(img.at, off), len |-> len]]
       /\ xpc' = next
    \/ /\ ~InFile(off, len) /\ len >= 0
       /\ dir' = [dir EXCEPT ![name] = [what |-> Junk, len |-> len]]
       /\ xpc' = next
    \/ /\ \E n \in {0, InTheFile(off)} :
             /\ n < len
             /\ dir' = [dir EXCEPT ![name] = [what |-> BlobAt(img.at, off), len |-> n]]
       /\ xpc' = "abort"
    \/ /\ len < 0
       /\ dir' = [dir EXCEPT ![name] = Empty]
       /\ xpc' = IF len = -1 THEN next ELSE "abort"
    \/ /\ dir' = [dir EXCEPT ![name] = NoFile]
       /\ xpc' = "abort"

\* The flags before are raised, and then flag cannot be created.
FailToRaise(before, flag) ==
    /\ dir' = [Raise(before) EXCEPT ![flag] = NoFile]
    /\ xpc' = "abort"

-----------------------------------------------------------------------------
SearchSecurityHdr ==
    /\ xpc = "start"
    /\ \/ /\ dir' = Raise(IF img.chromeos THEN {"chromeos"} ELSE {})
          /\ xpc' = "find"
       \/ img.chromeos /\ FailToRaise({}, "chromeos")
    /\ UNCHANGED <<img, xpos, xskip>>

\* The search loop and the two assertions that follow it.
FindHeader ==
    /\ xpc = "find"
    /\ \/ /\ HasHeader(img) /\ img.hdr.page_size \in PageSizes
          /\ xpos' = img.hdr.page_size
          /\ xpc' = "kernel"
       \/ /\ ~(HasHeader(img) /\ img.hdr.page_size \in PageSizes)
          /\ xpc' = "abort"
          /\ UNCHANGED xpos
    /\ UNCHANGED <<img, dir, xskip>>

DumpKernel ==
    /\ xpc = "kernel"
    /\ Dump("kernel", xpos, img.hdr.kernel_size, "ramdisk")
    /\ xpos' = NextPage(xpos, img.hdr.kernel_size, img.hdr.page_size)
    /\ UNCHANGED <<img, xskip>>

\* One call of dump_ramdisk that is not an MTK header.
DumpRamdisk ==
    LET fmt  == BlobAt(img.at, xpos + xskip).fmt
        name == CASE fmt = "gzip" -> "ramdisk.gz"
                  [] fmt = "lzma" -> "ramdisk.lzma"
                  [] OTHER        -> "ramdisk"
    IN  /\ xpc = "ramdisk"
        /\ fmt \in {"gzip", "lzma", "dtb", "raw"}
        /\ Dump(name, xpos + xskip, img.hdr.ramdisk_size - xskip,
                IF fmt \in {"gzip", "lzma"} THEN "second" ELSE "abort")
        /\ xpos' = NextPage(xpos, img.hdr.ramdisk_size, img.hdr.page_size)
        /\ UNCHANGED <<img, xskip>>

FlavourFlag(fmt) == IF fmt = "mtkboot" THEN "ramdisk-mtk-boot" ELSE "ramdisk-mtk-recovery"

\* Mutant: only the flavour is noted, not that there was a header.
StepOverMtkHeaderQuietly ==
    LET fmt == BlobAt(img.at, xpos + xskip).fmt
    IN  /\ xpc = "ramdisk"
        /\ \/ /\ fmt \in MtkFlavours
              /\ dir' = Raise({FlavourFlag(fmt)})
              /\ xskip' = xskip + MtkHdrLen
              /\ UNCHANGED xpc
           \/ /\ fmt = "mtkother"
              /\ xpc' = "abort"
              /\ UNCHANGED <<dir, xskip>>
        /\ UNCHANGED <<img, xpos>>

\* A call of dump_ramdisk that finds the MTK magic: it raises the flags, the
\* flavour first, and calls itself on what follows the header.
StepOverMtkHeader ==
    LET fmt == BlobAt(img.at, xpos + xskip).fmt
    IN  /\ xpc = "ramdisk"
        /\ \/ /\ fmt \in MtkFlavours
              /\ dir' = Raise({"ramdisk-mtk", FlavourFlag(fmt)})
              /\ xskip' = xskip + MtkHdrLen
              /\ UNCHANGED xpc
           \/ /\ fmt \in MtkFlavours
              /\ \/ FailToRaise({}, FlavourFlag(fmt))
                 \/ FailToRaise({FlavourFlag(fmt)}, "ramdisk-mtk")
              /\ UNCHANGED xskip
           \/ /\ fmt = "mtkother"
              /\ xpc' = "abort"
              /\ UNCHANGED <<dir, xskip>>
        /\ UNCHANGED <<img, xpos>>

\* The bound is checked against the whole file although xpos counts from the
\* header.
DumpSecond ==
    LET n == img.hdr.second_size
    IN  /\ xpc = "second"
        /\ \/ /\ n = 0
              /\ xpc' = "dt"
              /\ UNCHANGED <<dir, xpos>>
           \/ /\ n # 0 /\ xpos + n > img.size
              /\ xpc' = "abort"
              /\ UNCHANGED <<dir, xpos>>
           \/ /\ n # 0 /\ xpos + n <= img.size
              /\ Dump("second", xpos, n, "dt")
              /\ xpos' = NextPage(xpos, n, img.hdr.page_size)
        /\ UNCHANGED <<img, xskip>>

\* Mutant: the size of the device tree is not compared with the file's.
HasDtUnbounded(i, p) ==
    i.hdr.unused0 # 0 /\ p < i.size /\ BlobAt(i.at, p).fmt = "dtb"

\* unused[0] is taken for the size of a device tree only when a device tree
\* is found where one would be.
HasDt(i, p) ==
    /\ i.hdr.unused0 # 0 /\ p < i.size /\ p + i.hdr.unused0 <= i.size
    /\ BlobAt(i.at, p).fmt = "dtb"

DumpDt ==
    /\ xpc = "dt"
    /\ \/ /\ HasDt(img, xpos)
          /\ Dump("dt", xpos, img.hdr.unused0, "security")
          /\ xpos' = NextPage(xpos, img.hdr.unused0, img.hdr.page_size)
       \/ /\ ~HasDt(img, xpos)
          /\ xpc' = "security"
          /\ UNCHANGED <<dir, xpos>>
    /\ UNCHANGED <<img, xskip>>

\* Mutant: what follows the last component is not looked at.
SearchSecuritySignOnly ==
    /\ xpc = "security"
    /\ dir' = Raise(IF img.sign THEN {"rkcrc", "secure"} ELSE {})
    /\ xpc' = "done"
    /\ UNCHANGED <<img, xpos, xskip>>

SearchSecurity ==
    LET rkcrc  == IF img.sign THEN {"rkcrc"} ELSE {}
        secure == IF img.sign \/ xpos < img.size THEN {"secure"} ELSE {}
    IN  /\ xpc = "security"
        /\ \/ dir' = Raise(rkcrc \cup secure) /\ xpc' = "done"
           \/ rkcrc # {} /\ FailToRaise({}, "rkcrc")
           \/ secure # {} /\ FailToRaise(rkcrc, "secure")
        /\ UNCHANGED <<img, xpos, xskip>>

\* A magic is compared with bytes past the end of the mapping: the process
\* gets a signal, unless the last page of the mapping reaches that far.
ReadPastEnd ==
    /\ \/ xpc = "ramdisk" /\ ~InFile(xpos + xskip, 4)
       \/ xpc = "dt" /\ img.hdr.unused0 # 0
          /\ xpos + img.hdr.unused0 <= img.size /\ ~InFile(xpos, 4)
       \/ xpc = "security" /\ ~InFile(1024, 4)
    /\ xpc' = "abort"
    /\ UNCHANGED <<img, dir, xpos, xskip>>

ExtractNext ==
    \/ SearchSecurityHdr \/ FindHeader \/ DumpKernel \/ DumpRamdisk
    \/ StepOverMtkHeader \/ DumpSecond \/ DumpDt \/ SearchSecurity
    \/ ReadPastEnd

ExtractInit == img \in Images /\ dir = EmptyDir /\ ExtractStart

ExtractSpec == ExtractInit /\ [][ExtractNext]_extractVars

-----------------------------------------------------------------------------
\* The file that holds n bytes from offset p.
Slice(p, n) == [what |-> BlobAt(img.at, p), len |-> n]

\* The name dump_ramdisk chose, by the bytes after the MTK headers.
RamdiskName == IF BlobAt(img.at, RamdiskPos(img.hdr) + xskip).fmt = "gzip"
               THEN "ramdisk.gz" ELSE "ramdisk.lzma"

\* The MTK headers that were stepped over are one byte longer than the whole
\* ramdisk, so that what follows them has a length of -1.
OneByteShort == xskip = img.hdr.ramdisk_size + 1

(***************************************************************************)
(* CutsAsLaidOut: when extract ends well on a well formed image, each file *)
(* holds exactly the bytes the layout of bootimg.h assigns to it: the      *)
(* positions main() accumulates agree with the page counts, also after     *)
(* the optional parts, and the ramdisk starts after the MTK headers.  A    *)
(* ramdisk shorter than those ends extract with a failure, but for the one *)
(* that is a byte too short, of which it leaves an empty file.             *)
(***************************************************************************)
CutsAsLaidOut ==
    LET h == img.hdr
    IN  (xpc = "done" /\ WellFormed(img)) =>
          /\ dir["kernel"] = Slice(KernelPos(h), h.kernel_size)
          /\ dir[RamdiskName] = IF OneByteShort THEN Empty
                                ELSE Slice(RamdiskPos(h) + xskip, h.ramdisk_size - xskip)
          /\ OneByteShort \/ xskip <= h.ramdisk_size
          /\ dir["second"] = IF h.second_size = 0 THEN NoFile
                             ELSE Slice(SecondPos(h), h.second_size)
          /\ dir["dt"] = IF h.unused0 = 0 \/ BlobAt(img.at, DtPos(h)).fmt # "dtb"
                         THEN NoFile ELSE Slice(DtPos(h), h.unused0)

(***************************************************************************)
(* NothingLeftOutSilently: if extract ends well on a well formed image     *)
(* without raising "secure", then the parts its header announces are all   *)
(* the file has, and each is one of those CutsAsLaidOut speaks of: in      *)
(* particular a device tree whose magic is unknown is never dropped        *)
(* without the flag.  It does not say what is in their files: a ramdisk    *)
(* one byte shorter than its MTK headers is lost without the flag.         *)
(***************************************************************************)
NothingLeftOutSilently ==
    (xpc = "done" /\ WellFormed(img) /\ dir["secure"] = NoFile) =>
        /\ HeaderAt(img) = 0
        /\ img.size = EndPos(img.hdr)
        /\ (dir["dt"] = NoFile) = (img.hdr.unused0 = 0)

\* A step that writes second or dt reads them from inside the file.
OptionalPartRead ==
    /\ dir'["second"] # dir["second"] => InFile(xpos, img.hdr.second_size)
    /\ dir'["dt"] # dir["dt"] => InFile(xpos, img.hdr.unused0)

(***************************************************************************)
(* OptionalPartsInFile: on an image that starts with its header, second    *)
(* and dt are never read past the end of the file, however the sizes of    *)
(* the header disagree with the file's (kernel and ramdisk are not         *)
(* checked by main() and may be).                                          *)
(***************************************************************************)
OptionalPartsInFile ==
    [][(HasHeader(img) /\ HeaderAt(img) = 0) => OptionalPartRead]_extractVars

(***************************************************************************)
(* TripleChecked: the device tree is only ever read from inside the file,  *)
(* of any image: "This is non-standard, so we triple check" (extract.c).   *)
(***************************************************************************)
TripleChecked ==
    [][dir'["dt"] # dir["dt"] => InFile(xpos, img.hdr.unused0)]_extractVars
=============================================================================
