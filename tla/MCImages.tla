------------------------------ MODULE MCImages ------------------------------
(***************************************************************************)
(* Small sets of boot images for the model checking of the image tools.    *)
(***************************************************************************)
EXTENDS BootImg

MCIds == {"junk", "mtkhdr", "edited", "kernel", "ramdisk", "second", "dt"}

MtkFormats == {"mtkboot", "mtkrecovery", "mtkother"}

Hdr(ps, k, r, s, d) ==
    [page_size |-> ps, kernel_size |-> k, ramdisk_size |-> r,
     second_size |-> s, unused0 |-> d]

\* The blobs of an image laid out by h, with a ramdisk that starts with rfmt
\* (an MTK header is followed by a gzip ramdisk) and a device tree with dfmt,
\* of which only the first limit bytes are in the file.
Contents(h, rfmt, dfmt, limit) ==
    LET starts ==
          {<<KernelPos(h), "raw", "kernel", h.kernel_size>>,
           <<RamdiskPos(h), rfmt, "ramdisk", h.ramdisk_size>>,
           <<RamdiskPos(h) + MtkHdrLen, "gzip", "ramdisk",
             IF rfmt \in MtkFormats THEN h.ramdisk_size - MtkHdrLen ELSE 0>>,
           <<SecondPos(h), "raw", "second", h.second_size>>,
           <<DtPos(h), dfmt, "dt", h.unused0>>}
        real == {s \in starts : s[4] > 0 /\ s[1] < limit}
    IN  [p \in {s[1] : s \in real} |->
            LET s == CHOOSE s \in real : s[1] = p IN [fmt |-> s[2], id |-> s[3]]]

\* prefix: bytes of signature before the header; tail: bytes after the last
\* page (negative: the file is cut short).
Img(h, rfmt, dfmt, prefix, tail) ==
    [size |-> prefix + EndPos(h) + tail, magicAt |-> {prefix},
     chromeos |-> FALSE, sign |-> FALSE, hdr |-> h,
     at |-> Contents(h, rfmt, dfmt, EndPos(h) + tail)]

WholeImages ==
    {Img(Hdr(ps, k, r, s, d), rfmt, dfmt, prefix, tail) :
        ps \in {2048, 4096}, k \in {2047, 2048, 2049}, r \in {513, 4096},
        s \in {0, 1}, d \in {0, 2048}, rfmt \in Formats \ {"dtb"},
        dfmt \in {"dtb", "raw"}, prefix \in {0, 256}, tail \in {0, 272}}

VendorImages ==
    {[Img(Hdr(16384, 100, 600, 0, 0), "gzip", "raw", 0, 0)
        EXCEPT !.chromeos = c, !.sign = s] : c, s \in BOOLEAN}

\* MTK ramdisks two bytes and one byte shorter than their header, and one that
\* is nothing but the header.
ShortMtkImages ==
    {[Img(Hdr(2048, 1, 513, 0, 0), "mtkboot", "raw", 0, 0)
        EXCEPT !.hdr.ramdisk_size = r] : r \in {510, 511, 512}}

\* Files no tool can take apart: cut short, without a header on a multiple of
\* 256, with a page size nobody uses, with an MTK ramdisk shorter than its
\* header.
BrokenImages ==
    {Img(Hdr(2048, 2049, 513, s, d), rfmt, "dtb", prefix, tail) :
        s \in {0, 2048}, d \in {0, 2048}, rfmt \in {"gzip", "mtkboot"},
        prefix \in {0, 256, 4096}, tail \in {-1, -2048, -4096, -6144, -7680, -8192}}
    \cup {Img(Hdr(2048, 1, 513, 0, 0), "gzip", "raw", 100, 0),
          Img(Hdr(1024, 1, 513, 0, 0), "gzip", "raw", 0, 0)}
    \cup ShortMtkImages
=============================================================================
