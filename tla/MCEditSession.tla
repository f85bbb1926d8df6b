--------------------------- MODULE MCEditSession ---------------------------
EXTENDS Flash, MCImages, TLC

\* A gzip ramdisk behind two MTK headers.
TwoMtkHeaders ==
    {LET i == Img(Hdr(2048, 1, 1537, 0, 0), first, "raw", 0, 0)
         r == RamdiskPos(i.hdr)
     IN  [i EXCEPT !.at = ((r + MtkHdrLen) :> [fmt |-> "mtkrecovery", id |-> "ramdisk"])
                       @@ ((r + 2 * MtkHdrLen) :> [fmt |-> "gzip", id |-> "ramdisk"])
                       @@ i.at] : first \in MtkFlavours}

MCSessionImages ==
    {Img(Hdr(2048, k, r, s, d), rfmt, dfmt, prefix, tail) :
        k \in {2048, 2049}, r \in {513}, s \in {0, 1}, d \in {0, 2048},
        rfmt \in {"gzip", "lzma", "mtkboot", "mtkrecovery", "raw"},
        dfmt \in {"dtb", "raw"}, prefix \in {0, 256}, tail \in {0, 272}}
    \cup VendorImages
    \cup {Img(Hdr(2048, 2049, 513, 2048, 2048), "gzip", "dtb", 256, tail) :
            tail \in {-2048, -4096, -6144}}
    \cup ShortMtkImages \cup TwoMtkHeaders
=============================================================================
