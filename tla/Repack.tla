------------------------------- MODULE Repack -------------------------------
(***************************************************************************)
(* bootimg-repack (jni/repack.c): builds new-boot.img from the header of   *)
(* the original image and the files of the working directory.  One action  *)
(* per stage of main().                                                    *)
(***************************************************************************)
EXTENDS WorkDir

CONSTANTS ShortWrites,  \* TRUE: what main() writes may be cut short, or not
                        \* be written at all
          Jobs          \* the originals and directories repack is started on

ASSUME ShortWritesAssumption == ShortWrites \in BOOLEAN

\* An int holds the length of every file, and that of the MTK header besides.
ASSUME JobsAssumption ==
    \A j \in Jobs : /\ IsImage(j.img)
                    /\ j.dir \in [Names -> File \cup {NoFile}]
                    /\ \A n \in Names : j.dir[n].len + MtkHdrLen < U32

VARIABLES rpc,   \* the stage of main(), or how the process ended
          rpos,  \* pos
          out    \* new-boot.img; size is its length before and after the parts

repackVars == <<img, dir, rpc, rpos, out>>

RStages == {"open", "kernel", "ramdisk", "second", "dt", "post"}
REnds   == {"done", "exit1"}

\* new-boot.img before it is created.
NoImage == [size |-> 0, magicAt |-> {}, chromeos |-> FALSE, sign |-> FALSE,
            hdr |-> [page_size |-> 0, kernel_size |-> 0, ramdisk_size |-> 0,
                     second_size |-> 0, unused0 |-> 0],
            at |-> [p \in {} |-> Junk]]

RepackTypeOK ==
    /\ IsImage(img) /\ IsImage(out)
    /\ DirType
    /\ rpc \in RStages \cup REnds
    /\ rpos \in Nat

\* The process starts: main() with the name of the original image.
RepackStart == rpc = "open" /\ rpos = 0 /\ out = NoImage

-----------------------------------------------------------------------------
\* The search for the header and its assertions; then new-boot.img is created
\* with the original header, in which the sizes and the id are set to zero.
\* The header is written to the file, and its fields through a mapping of it:
\* when the write has failed, storing into the hole that is mapped then ends
\* the process.
CreateImage ==
    LET ps == img.hdr.page_size
    IN  /\ rpc = "open"
        /\ \/ /\ HasHeader(img) /\ ps \in PageSizes
              /\ out' = [NoImage EXCEPT !.size = ps, !.magicAt = {0},
                                        !.sign = img.sign, !.hdr.page_size = ps]
              /\ rpos' = ps
              /\ rpc' = "kernel"
           \/ /\ ~(HasHeader(img) /\ ps \in PageSizes) \/ ShortWrites
              /\ rpc' = "exit1"
              /\ UNCHANGED <<rpos, out>>
        /\ UNCHANGED <<img, dir>>

\* lseek on the descriptor of a file that cannot be opened returns -1.
FileLen(name) == IF Exists(name) THEN dir[name].len ELSE -1

\* The results of sendfile and pwrite are ignored: where the file system is
\* full or the call is interrupted, fewer bytes may be there, or none.
OrCut(b) == {b} \cup (IF ShortWrites THEN {Junk} ELSE {})

Written(name) == OrCut(dir[name].what)

\* What append_file(ofd, name, pos) may leave in the image.
Appended(at, name, pos) == {Place(at, pos, b, FileLen(name)) : b \in Written(name)}

\* Mutant: the int append_file returns is stored as it is.
AppendFileSigned(name, fld, next) ==
    LET n == FileLen(name)
    IN  /\ \E at \in Appended(out.at, name, rpos) :
              out' = [out EXCEPT !.at = at, !.hdr[fld] = n]
        /\ rpos' = NextPage(rpos, n, img.hdr.page_size)
        /\ rpc' = next

\* The stage that appends name and stores its size in header field fld.
AppendFile(name, fld, next) ==
    LET n == FileLen(name)
    IN  /\ \E at \in Appended(out.at, name, rpos) :
              out' = [out EXCEPT !.at = at, !.hdr[fld] = n % U32]
        /\ rpos' = NextPage(rpos, n, img.hdr.page_size)
        /\ rpc' = next

AppendKernel ==
    /\ rpc = "kernel"
    /\ AppendFile("kernel", "kernel_size", "ramdisk")
    /\ UNCHANGED <<img, dir>>

\* append_ramdisk without the MTK flag: ramdisk.gz if it is there, ramdisk
\* otherwise, whether it is there or not.
AppendRamdisk ==
    /\ rpc = "ramdisk"
    /\ ~Exists("ramdisk-mtk")
    /\ AppendFile(IF Exists("ramdisk.gz") THEN "ramdisk.gz" ELSE "ramdisk",
                  "ramdisk_size", "second")
    /\ UNCHANGED <<img, dir>>

\* Mutant: the two flavours are confused.
MtkHeaderSwapped ==
    [fmt |-> IF Exists("ramdisk-mtk-boot") THEN "mtkrecovery" ELSE "mtkboot",
     id |-> "mtkhdr"]

\* append_ramdisk with the MTK flag: a 512 byte header, then ramdisk.gz.
MtkHeader ==
    [fmt |-> IF Exists("ramdisk-mtk-boot") THEN "mtkboot" ELSE "mtkrecovery",
     id |-> "mtkhdr"]

AppendMtkRamdisk ==
    LET n  == FileLen("ramdisk.gz")
        ok == /\ Exists("ramdisk.gz")
              /\ Exists("ramdisk-mtk-boot") \/ Exists("ramdisk-mtk-recovery")
    IN  /\ rpc = "ramdisk"
        /\ Exists("ramdisk-mtk")
        /\ \/ /\ ok
              /\ \E top \in OrCut(MtkHeader) :
                 \E at \in Appended(Place(out.at, rpos, top, MtkHdrLen),
                                    "ramdisk.gz", rpos + MtkHdrLen) :
                    out' = [out EXCEPT !.at = at,
                                       !.hdr.ramdisk_size = (n + MtkHdrLen) % U32]
              /\ rpos' = NextPage(rpos, n + MtkHdrLen, img.hdr.page_size)
              /\ rpc' = "second"
           \/ /\ ~ok
              /\ rpc' = "exit1"
              /\ UNCHANGED <<rpos, out>>
        /\ UNCHANGED <<img, dir>>

\* Mutant: the position is not moved past second.
AppendSecondInPlace ==
    /\ rpc = "second"
    /\ \/ /\ Exists("second")
          /\ \E at \in Appended(out.at, "second", rpos) :
                out' = [out EXCEPT !.at = at, !.hdr.second_size = FileLen("second")]
          /\ rpc' = "dt"
       \/ /\ ~Exists("second")
          /\ rpc' = "dt"
          /\ UNCHANGED out
    /\ UNCHANGED <<img, dir, rpos>>

\* The optional components are appended when their file exists.
AppendSecond ==
    /\ rpc = "second"
    /\ \/ /\ Exists("second")
          /\ AppendFile("second", "second_size", "dt")
       \/ /\ ~Exists("second")
          /\ rpc' = "dt"
          /\ UNCHANGED <<rpos, out>>
    /\ UNCHANGED <<img, dir>>

AppendDt ==
    /\ rpc = "dt"
    /\ \/ /\ Exists("dt")
          /\ AppendFile("dt", "unused0", "post")
       \/ /\ ~Exists("dt")
          /\ rpc' = "post"
          /\ UNCHANGED <<rpos, out>>
    /\ UNCHANGED <<img, dir>>

\* Mutant: the Rockchip flag is not looked at.
PostProcessAny ==
    /\ rpc = "post"
    /\ rpc' = "done"
    /\ out' = [out EXCEPT !.size = rpos]
    /\ UNCHANGED <<img, dir, rpos>>

\* post_process: no Rockchip image can be finished; any other is padded to a
\* whole number of pages.
PostProcess ==
    /\ rpc = "post"
    /\ \/ /\ Exists("rkcrc")
          /\ rpc' = "exit1"
          /\ UNCHANGED out
       \/ /\ ~Exists("rkcrc")
          /\ rpc' = "done"
          /\ out' = [out EXCEPT !.size = rpos]
    /\ UNCHANGED <<img, dir, rpos>>

RepackNext ==
    \/ CreateImage \/ AppendKernel \/ AppendRamdisk \/ AppendMtkRamdisk
    \/ AppendSecond \/ AppendDt \/ PostProcess

RepackInit == \E j \in Jobs : img = j.img /\ dir = j.dir /\ RepackStart

RepackSpec == RepackInit /\ [][RepackNext]_repackVars

-----------------------------------------------------------------------------
\* The file append_ramdisk takes, and the MTK header in front of it.
RamdiskFile == IF Exists("ramdisk-mtk") \/ Exists("ramdisk.gz")
               THEN "ramdisk.gz" ELSE "ramdisk"
RamdiskSkip == IF Exists("ramdisk-mtk") THEN MtkHdrLen ELSE 0

\* The header announces file name with size n, and its bytes start at p.
Holds(name, n, p) ==
    /\ n = dir[name].len
    /\ n > 0 => BlobAt(out.at, p) \in Written(name)

(***************************************************************************)
(* BuildsAsLaidOut: when repack ends well on a directory with a kernel and *)
(* a ramdisk, the header announces the size of every file it took, each    *)
(* lies where the page counts of bootimg.h put it for the sizes of the new *)
(* header, absent optional parts are announced with size 0, and the image  *)
(* ends on the page boundary after the last part.  The positions main()    *)
(* advances one component at a time must agree with the ones a boot loader *)
(* computes from the finished header.  A short write leaves junk in its own *)
(* part, and never disturbs another.                                       *)
(***************************************************************************)
BuildsAsLaidOut ==
    LET h == out.hdr
    IN  (rpc = "done" /\ Exists("kernel") /\ Exists(RamdiskFile)) =>
          /\ Holds("kernel", h.kernel_size, KernelPos(h))
          /\ Holds(RamdiskFile, h.ramdisk_size - RamdiskSkip, RamdiskPos(h) + RamdiskSkip)
          /\ IF Exists("second") THEN Holds("second", h.second_size, SecondPos(h))
                                 ELSE h.second_size = 0
          /\ IF Exists("dt") THEN Holds("dt", h.unused0, DtPos(h))
                             ELSE h.unused0 = 0
          /\ out.size = EndPos(h)

(***************************************************************************)
(* MtkFlavourKept: on a directory with a kernel, the MTK header repack     *)
(* writes is the one the flags that extract raised ask for, it lies at the *)
(* ramdisk position of the finished header, and no other header of the     *)
(* image is taken for one.  Only a write that has failed, which repack     *)
(* does not notice, leaves an image that should have one without.          *)
(***************************************************************************)
MtkFlavourKept ==
    (rpc = "done" /\ Exists("kernel")) =>
      LET top == BlobAt(out.at, RamdiskPos(out.hdr))
      IN  IF Exists("ramdisk-mtk")
          THEN \/ top.fmt = IF Exists("ramdisk-mtk-boot") THEN "mtkboot" ELSE "mtkrecovery"
               \/ ShortWrites /\ top = Junk
          ELSE top.fmt \notin {"mtkboot", "mtkrecovery"}

(***************************************************************************)
(* RequiredPartsPresent: an image repack reports as built is well formed:  *)
(* "kernel and ramdisk are required (size != 0)" (bootimg.h), and all that *)
(* its header announces lies in it.                                        *)
(***************************************************************************)
RequiredPartsPresent == rpc = "done" => WellFormed(out)
=============================================================================
