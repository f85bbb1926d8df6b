------------------------------- MODULE Tools -------------------------------
(***************************************************************************)
(* bootimg-extract and bootimg-repack as a pair: repack is run, by hand or *)
(* by a script, in the directory extract has left, whether extract ended   *)
(* well or not, or in a directory somebody has filled.                     *)
(***************************************************************************)
EXTENDS Extract, Repack

vars == <<img, dir, xpc, xpos, xskip, rpc, rpos, out>>

\* A directory extract never worked in; somebody else has put the files there.
NotExtracted == xpc = "abort" /\ xpos = 0 /\ xskip = 0

Init ==
    \/ ExtractInit /\ RepackStart
    \/ RepackInit /\ NotExtracted

RunExtract == ExtractNext /\ UNCHANGED <<rpc, rpos, out>>

RunRepack ==
    /\ xpc \in XEnds
    /\ RepackNext
    /\ UNCHANGED <<xpc, xpos, xskip>>

Next == RunExtract \/ RunRepack

Spec == Init /\ [][Next]_vars

-----------------------------------------------------------------------------
\* n bytes at p of the original are n bytes at p of the product, unless a
\* write was cut short.
Copied(p, n) ==
    n > 0 => \/ BlobAt(out.at, p) = BlobAt(img.at, p)
             \/ ShortWrites /\ BlobAt(out.at, p) = Junk

(***************************************************************************)
(* RoundTrip: an image that extract took apart without a complaint, with a *)
(* ramdisk in the format repack looks for and no ChromeOS or signature     *)
(* data around it, is rebuilt by repack with the same header, the same     *)
(* length and each part at the same place, an MTK header in front of the   *)
(* ramdisk included (one: repack writes no second one): the names and      *)
(* flags the two programs agree upon carry everything the image had, but   *)
(* for what a write that repack does not look at has lost, and for the     *)
(* ramdisk a byte shorter than its MTK header, of which extract keeps      *)
(* nothing.                                                                *)
(***************************************************************************)
RoundTrip ==
    LET h == img.hdr
        r == RamdiskPos(h)
    IN  (xpc = "done" /\ rpc = "done" /\ WellFormed(img)
           /\ dir["secure"] = NoFile /\ Exists("ramdisk.gz")
           /\ xskip <= MtkHdrLen /\ ~OneByteShort) =>
          /\ out.hdr = h /\ out.size = img.size
          /\ Copied(KernelPos(h), h.kernel_size)
          /\ Copied(r + xskip, h.ramdisk_size - xskip)
          /\ xskip > 0 => \/ BlobAt(out.at, r).fmt = BlobAt(img.at, r).fmt
                          \/ ShortWrites /\ BlobAt(out.at, r) = Junk
          /\ Copied(SecondPos(h), h.second_size)
          /\ Copied(DtPos(h), h.unused0)
=============================================================================
