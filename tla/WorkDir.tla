------------------------------ MODULE WorkDir ------------------------------
(***************************************************************************)
(* The state bootimg-extract and bootimg-repack share: the original image, *)
(* which both are given, and the files of the directory both run in.       *)
(***************************************************************************)
EXTENDS BootImg

VARIABLES img,  \* the boot image named on the command line
          dir   \* the working directory

Payloads == {"kernel", "ramdisk", "ramdisk.gz", "ramdisk.lzma", "second", "dt"}
Flags    == {"ramdisk-mtk", "ramdisk-mtk-boot", "ramdisk-mtk-recovery",
             "chromeos", "rkcrc", "secure"}
Names    == Payloads \cup Flags

\* A file: the blob it starts with and its length.
File   == [what : Blob, len : Nat]
NoFile == [what |-> Junk, len |-> -1]
Empty  == [what |-> Junk, len |-> 0]

Exists(name) == dir[name] # NoFile

\* dump(ptr, 0, name): an empty file that is a flag for the later steps.
Raise(names) == [n \in Names |-> IF n \in names THEN Empty ELSE dir[n]]

EmptyDir == [n \in Names |-> NoFile]

\* repack keeps the length of a file, and that of an MTK header besides, in an
\* int: every file of the directory is that small, and so is whatever extract
\* may cut out of image i.
Small == \A n \in Names : dir[n].len + MtkHdrLen < U32

Fits(i) == \A n \in {i.size, i.hdr.kernel_size, i.hdr.ramdisk_size,
                      i.hdr.second_size, i.hdr.unused0} : n + MtkHdrLen < U32

DirType == dir \in [Names -> File \cup {NoFile}]
=============================================================================
