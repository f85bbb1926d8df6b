------------------------------ MODULE MCRepack ------------------------------
EXTENDS Repack, MCImages

Originals == {Img(Hdr(ps, 1, 513, 0, 0), "gzip", "raw", 256, 0) : ps \in PageSizes}

Sized(fmt, id, lens) == {[what |-> [fmt |-> fmt, id |-> id], len |-> n] : n \in lens}

\* Directories with a kernel, one kind of ramdisk, and any optional part.
Dir(k, rname, r, s, d, flags) ==
    [n \in Names |-> CASE n = "kernel" -> k
                       [] n = rname    -> r
                       [] n = "second" -> s
                       [] n = "dt"     -> d
                       [] n \in flags  -> Empty
                       [] OTHER        -> NoFile]

MtkFlags == {{}, {"ramdisk-mtk", "ramdisk-mtk-boot"},
             {"ramdisk-mtk", "ramdisk-mtk-recovery"}, {"ramdisk-mtk"}, {"rkcrc"}}

MCJobs ==
    {[img |-> i, dir |-> Dir(k, rname, r, s, d, fl)] :
        i \in Originals,
        k \in Sized("raw", "kernel", {1, 2048, 4097}) \cup {NoFile},
        rname \in {"ramdisk.gz", "ramdisk"},
        r \in Sized("gzip", "edited", {2047, 2048}),
        s \in Sized("raw", "second", {1}) \cup {NoFile},
        d \in Sized("dtb", "dt", {0, 2049}) \cup {NoFile}, fl \in MtkFlags}
    \cup {[img |-> [i EXCEPT !.magicAt = {}],
           dir |-> Dir(Empty, "ramdisk.gz", Empty, NoFile, NoFile, {})] : i \in Originals}

\* What bootimg-extract leaves of an image with an lzma ramdisk.
MCLzmaJobs ==
    {[img |-> i, dir |-> Dir(k, "ramdisk.lzma", r, NoFile, NoFile, {})] :
        i \in Originals, k \in Sized("raw", "kernel", {1, 2048, 4097}),
        r \in Sized("lzma", "ramdisk", {2047, 2048})}
=============================================================================
