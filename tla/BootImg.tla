------------------------------ MODULE BootImg ------------------------------
(***************************************************************************)
(* The Android boot image format (jni/bootimg.h) as bootimg-extract and    *)
(* bootimg-repack see it.                                                  *)
(*                                                                         *)
(* Sizes and offsets are the real numbers of bytes.  The bytes themselves  *)
(* are abstracted to blobs: img.at[p] is the blob whose first byte lies p  *)
(* bytes after the header, and a blob is told apart by the magic it starts *)
(* with (fmt) and by what it is a copy of (id).                            *)
(***************************************************************************)
EXTENDS Integers

CONSTANTS Ids,  \* identities of the payloads, at least the ones below
          U32   \* number of values of a uint32_t (TLC's integers are
                \* narrower than 2^32, so the runs take a smaller number)

ASSUME IdsAssumption == {"junk", "mtkhdr", "edited"} \subseteq Ids
ASSUME U32Assumption == U32 \in Nat /\ U32 > 65536

\* The page sizes both tools accept; anything else fails an assertion.
PageSizes == {2048, 4096, 16384}

SearchStep == 256   \* the header is looked for every 256 bytes
MtkHdrLen  == 512   \* length of the MTK header in front of a ramdisk

\* First bytes the tools compare with.  "mtkother" is the MTK magic followed
\* by neither RECOVERY nor ROOTFS; "raw" is every magic nobody looks for.
Formats == {"gzip", "lzma", "mtkboot", "mtkrecovery", "mtkother", "dtb", "raw"}

Blob == [fmt : Formats, id : Ids]
Junk == [fmt |-> "raw", id |-> "junk"]

\* The header fields that extract reads and repack rewrites.
Header == [page_size    : Nat, kernel_size : Nat, ramdisk_size : Nat,
           second_size  : Nat, unused0     : Nat]

(***************************************************************************)
(* An image file: its length, the offsets where ANDROID! occurs, whether   *)
(* it starts with CHROMEOS, whether SIGN is found 1024 bytes after the     *)
(* header, the header, and the blobs.                                      *)
(***************************************************************************)
IsImage(i) ==
    /\ i = [size |-> i.size, magicAt |-> i.magicAt, chromeos |-> i.chromeos,
            sign |-> i.sign, hdr |-> i.hdr, at |-> i.at]
    /\ i.size \in Nat /\ i.magicAt \subseteq Nat
    /\ i.chromeos \in BOOLEAN /\ i.sign \in BOOLEAN
    /\ i.hdr \in Header
    /\ DOMAIN i.at \subseteq Nat /\ i.at \in [DOMAIN i.at -> Blob]

\* The loop that searches the header: offsets 0, 256, 512, ... below the size.
HeaderOffsets(img) ==
    {o \in img.magicAt : o < img.size /\ o % SearchStep = 0}

HasHeader(img) == HeaderOffsets(img) # {}

HeaderAt(img) ==
    CHOOSE o \in HeaderOffsets(img) : \A p \in HeaderOffsets(img) : o <= p

\* What the tools find at offset p after the header.
BlobAt(at, p) == IF p \in DOMAIN at THEN at[p] ELSE Junk

\* Writing the blob of an n byte file at offset p.  Nothing is written for an
\* empty or a missing file.
Place(at, p, b, n) ==
    IF n <= 0 THEN at
    ELSE [q \in DOMAIN at \cup {p} |-> IF q = p THEN b ELSE at[q]]

\* Mutant: rounds down to the page the next component would start in.
NextPageDown(p, n, ps) == ((p + n) \div ps) * ps

\* pos += n + page_size-1; pos &= ~(page_size-1), page_size a power of two.
NextPage(p, n, ps) == ((p + n + ps - 1) \div ps) * ps

-----------------------------------------------------------------------------
(***************************************************************************)
(* The layout the comment of bootimg.h defines: one page of header, then   *)
(* n pages of kernel, m of ramdisk and o of second stage.  The device tree *)
(* some vendors append comes after them (its size is unused[0]).           *)
(***************************************************************************)
Pages(n, ps) == (n + ps - 1) \div ps

KernelPage(h)  == 1
RamdiskPage(h) == KernelPage(h)  + Pages(h.kernel_size, h.page_size)
SecondPage(h)  == RamdiskPage(h) + Pages(h.ramdisk_size, h.page_size)
DtPage(h)      == SecondPage(h)  + Pages(h.second_size, h.page_size)
EndPage(h)     == DtPage(h)      + Pages(h.unused0, h.page_size)

KernelPos(h)  == KernelPage(h)  * h.page_size
RamdiskPos(h) == RamdiskPage(h) * h.page_size
SecondPos(h)  == SecondPage(h)  * h.page_size
DtPos(h)      == DtPage(h)      * h.page_size
EndPos(h)     == EndPage(h)     * h.page_size

\* "kernel and ramdisk are required (size != 0)", and everything the header
\* announces lies in the file.
WellFormed(img) ==
    /\ HasHeader(img)
    /\ img.hdr.page_size \in PageSizes
    /\ img.hdr.kernel_size > 0
    /\ img.hdr.ramdisk_size > 0
    /\ HeaderAt(img) + EndPos(img.hdr) <= img.size

\* A device tree the tools recognise.
CarriesDt(img) ==
    img.hdr.unused0 # 0 /\ BlobAt(img.at, DtPos(img.hdr)).fmt = "dtb"

\* The ramdisk without the MTK header some have, and that header's flavour.
MtkFlavours == {"mtkboot", "mtkrecovery"}
MtkLen(img) == IF BlobAt(img.at, RamdiskPos(img.hdr)).fmt \in MtkFlavours
               THEN MtkHdrLen ELSE 0
Archive(img) == BlobAt(img.at, RamdiskPos(img.hdr) + MtkLen(img))

\* The images that can be rebuilt with another ramdisk: extract steps over any
\* number of MTK headers, but repack writes one at most.
OneMtkHeader(img) == MtkLen(img) # 0 => Archive(img).fmt \notin MtkFlavours
Editable(img)     == WellFormed(img) /\ OneMtkHeader(img)

\* Part n bytes long at p in old is part m bytes long at q in new.
SamePart(old, n, p, new, m, q) ==
    m = n /\ (n > 0 => BlobAt(new.at, q) = BlobAt(old.at, p))

(***************************************************************************)
(* new is old with another ramdisk: the same kernel, second stage and      *)
(* recognised device tree, each where the new header puts it, and an       *)
(* edited archive in the old one's compression, behind the same kind of    *)
(* MTK header if the old one had any.                                      *)
(***************************************************************************)
EditOf(old, new) ==
    LET h == old.hdr
        g == new.hdr
    IN  /\ g.page_size = h.page_size
        /\ SamePart(old, h.kernel_size, KernelPos(h), new, g.kernel_size, KernelPos(g))
        /\ SamePart(old, h.second_size, SecondPos(h), new, g.second_size, SecondPos(g))
        /\ IF CarriesDt(old)
           THEN SamePart(old, h.unused0, DtPos(h), new, g.unused0, DtPos(g))
           ELSE g.unused0 = 0
        /\ MtkLen(new) = MtkLen(old)
        /\ MtkLen(old) # 0 => BlobAt(new.at, RamdiskPos(g)).fmt
                                = BlobAt(old.at, RamdiskPos(h)).fmt
        /\ Archive(new) = [fmt |-> Archive(old).fmt, id |-> "edited"]
=============================================================================
