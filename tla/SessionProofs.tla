--------------------------- MODULE SessionProofs ---------------------------
(***************************************************************************)
(* Proofs about sessions of bootimg.sh, started by a user or by the        *)
(* recovery and started again after they failed or were killed, for every  *)
(* image and every number of restarts.                                     *)
(***************************************************************************)
EXTENDS Flash, ExtractProofs, RepackProofs

(***************************************************************************)
(* Shapes: the directory has a place for every name, and images and the    *)
(* files of the home directory are records.                                *)
(***************************************************************************)
Shaped(i) == i = [size |-> i.size, magicAt |-> i.magicAt, chromeos |-> i.chromeos,
                  sign |-> i.sign, hdr |-> i.hdr, at |-> i.at]

ShapedFile(f) == f = [state |-> f.state, img |-> f.img] /\ Shaped(f.img)

Shapes ==
    /\ dir = [n \in Names |-> dir[n]]
    /\ Shaped(out) /\ ShapedFile(home) /\ ShapedFile(signed)

\* The stages that a session reaches only after an extraction that ended well.
Extracted == {"unpack", "edit", "pack", "repack", "copy", "copying", "sign", "signing",
              "custom", "samsung", "ok"}
Built == {"copy", "copying", "sign", "signing", "custom", "samsung", "ok"}

FlagsOK ==
    /\ spc = "start" => xpc = "start"
    /\ spc \in Extracted => xpc = "done"
    /\ img.chromeos /\ xpc \notin {"start", "abort"} => Exists("chromeos")
    /\ img.chromeos /\ spc \in Extracted => chromeos
    /\ img.sign /\ xpc = "done" => Exists("rkcrc")

RockchipOK ==
    img.sign => rpc # "done" /\ spc \notin Built /\ home.state \in {"absent", "stale"}

SignedOK ==
    /\ spc \in {"sign", "signing"} => home.state = "whole"
    /\ spc \in {"custom", "samsung", "ok"} /\ (keys \/ chromeos) =>
         /\ signed.state = "whole"
         /\ signed.img.hdr = home.img.hdr /\ signed.img.at = home.img.at

SessionInv == Shapes /\ FlagsOK /\ RockchipOK /\ SignedOK

LEMMA SessionInvInit == FlashInit => SessionInv
<1> SUFFICES ASSUME FlashInit PROVE SessionInv
  OBVIOUS
<1>1. Shaped(NoImage)
  BY DEF Shaped, NoImage
<1>2. \A s : ShapedFile(File0(s))
  BY <1>1 DEF ShapedFile, File0
<1>3. /\ dir = EmptyDir /\ out = NoImage /\ spc = "start" /\ xpc = "start" /\ rpc = "open"
      /\ home \in {File0("absent"), File0("stale")} /\ signed \in {File0("absent"), File0("stale")}
  BY DEF FlashInit, Init, ExtractInit, ExtractStart, RepackStart
<1>4. Shapes
  BY <1>1, <1>2, <1>3 DEF Shapes, EmptyDir
<1>5. home.state \in {"absent", "stale"}
  BY <1>3 DEF File0
<1>6. QED
  BY <1>3, <1>4, <1>5 DEF SessionInv, FlagsOK, RockchipOK, SignedOK, Extracted, Built

(***************************************************************************)
(* A step of bootimg-extract that does not end it with a failure keeps the *)
(* flags that are there, raises chromeos if it is the first one, and rkcrc *)
(* if it is the last one.                                                  *)
(***************************************************************************)
LEMMA ExtractFlags ==
  ASSUME Shapes, ExtractNext
  PROVE  /\ UNCHANGED img /\ dir' = [n \in Names |-> dir'[n]]
         /\ xpc' # "abort" => \A f \in Flags : Exists(f) => Exists(f)'
         /\ xpc \notin {"done", "abort"}
         /\ xpc = "start" /\ xpc' # "abort" => (img.chromeos => Exists("chromeos")')
         /\ xpc' = "done" => (img.sign => Exists("rkcrc")')
         /\ xpc' # "start"
<1>0. dir = [n \in Names |-> dir[n]]
  BY DEF Shapes
<1>1. ASSUME NEW fs, dir' = Raise(fs)
      PROVE  /\ dir' = [n \in Names |-> dir'[n]]
             /\ \A f \in Flags : f \in fs \/ Exists(f) => Exists(f)'
  <2>1. \A n \in Names : dir'[n] = IF n \in fs THEN Empty ELSE dir[n]
    BY <1>1 DEF Raise
  <2>2. dir' = [n \in Names |-> dir'[n]]
    BY <1>1 DEF Raise
  <2>3. Empty # NoFile /\ Flags \subseteq Names
    BY DEF Empty, NoFile, Names
  <2>4. QED
    BY <2>1, <2>2, <2>3 DEF Exists
<1>2. ASSUME NEW name \in Payloads, NEW off, NEW len, NEW next, Dump(name, off, len, next)
      PROVE  dir' = [n \in Names |-> dir'[n]] /\ \A f \in Flags : Exists(f) => Exists(f)'
  <2>1. PICK b : dir' = [dir EXCEPT ![name] = b]
    BY <1>2 DEF Dump
  <2>2. dir' = [n \in Names |-> dir'[n]] /\ \A n \in Names \ {name} : dir'[n] = dir[n]
    BY <1>0, <2>1
  <2>3. Flags \subseteq Names \ {name}
    BY DEF Flags, Payloads, Names
  <2>4. QED
    BY <2>2, <2>3 DEF Exists
<1>f. ASSUME NEW fs, NEW f, FailToRaise(fs, f)
      PROVE  dir' = [n \in Names |-> dir'[n]] /\ xpc' = "abort"
  <2>1. dir' = [Raise(fs) EXCEPT ![f] = NoFile] /\ xpc' = "abort"
    BY <1>f DEF FailToRaise
  <2>2. QED
    BY <2>1 DEF Raise
<1>3. CASE SearchSecurityHdr
  <2>1. /\ xpc = "start" /\ xpc' \in {"find", "abort"} /\ UNCHANGED img
        /\ xpc' # "abort" => dir' = Raise(IF img.chromeos THEN {"chromeos"} ELSE {})
        /\ dir' = Raise(IF img.chromeos THEN {"chromeos"} ELSE {}) \/ FailToRaise({}, "chromeos")
    BY <1>3 DEF SearchSecurityHdr, FailToRaise
  <2>2. "chromeos" \in Flags
    BY DEF Flags
  <2>3. QED
    BY <1>1, <1>f, <2>1, <2>2
<1>4. CASE FindHeader \/ ReadPastEnd
  BY <1>0, <1>4 DEF FindHeader, ReadPastEnd, Exists
<1>5. CASE DumpKernel
  <2>1. "kernel" \in Payloads
    BY DEF Payloads
  <2>2. xpc = "kernel" /\ xpc' \in {"ramdisk", "abort"} /\ UNCHANGED img
    BY <1>5 DEF DumpKernel, Dump
  <2>3. QED
    BY <1>2, <1>5, <2>1, <2>2 DEF DumpKernel
<1>6. CASE DumpRamdisk
  <2>1. {"ramdisk.gz", "ramdisk.lzma", "ramdisk"} \subseteq Payloads
    BY DEF Payloads
  <2>2. PICK name \in {"ramdisk.gz", "ramdisk.lzma", "ramdisk"}, next \in {"second", "abort"} :
           Dump(name, xpos + xskip, img.hdr.ramdisk_size - xskip, next)
    BY <1>6 DEF DumpRamdisk
  <2>3. xpc = "ramdisk" /\ xpc' \in {"second", "abort"} /\ UNCHANGED img
    BY <1>6, <2>2 DEF DumpRamdisk, Dump
  <2>4. QED
    BY <1>2, <2>1, <2>2, <2>3
<1>7. CASE StepOverMtkHeader
  <2>1. xpc = "ramdisk" /\ xpc' \in {"ramdisk", "abort"} /\ UNCHANGED img
    BY <1>7 DEF StepOverMtkHeader, FailToRaise
  <2>2. UNCHANGED dir \/ (\E fs : dir' = Raise(fs)) \/ (\E fs, f : FailToRaise(fs, f))
    BY <1>7, FlagSteps
  <2>3. QED
    BY <1>0, <1>1, <1>f, <2>1, <2>2 DEF Exists
<1>8. CASE DumpSecond
  <2>1. xpc = "second" /\ xpc' \in {"dt", "abort"} /\ UNCHANGED img
    BY <1>8 DEF DumpSecond, Dump
  <2>2. UNCHANGED dir \/ Dump("second", xpos, img.hdr.second_size, "dt")
    BY <1>8 DEF DumpSecond
  <2>3. "second" \in Payloads
    BY DEF Payloads
  <2>4. QED
    BY <1>0, <1>2, <2>1, <2>2, <2>3 DEF Exists
<1>9. CASE DumpDt
  <2>1. xpc = "dt" /\ xpc' \in {"security", "abort"} /\ UNCHANGED img
    BY <1>9 DEF DumpDt, Dump
  <2>2. UNCHANGED dir \/ Dump("dt", xpos, img.hdr.unused0, "security")
    BY <1>9 DEF DumpDt
  <2>3. "dt" \in Payloads
    BY DEF Payloads
  <2>4. QED
    BY <1>0, <1>2, <2>1, <2>2, <2>3 DEF Exists
<1>10. CASE SearchSecurity
  <2>1. /\ xpc = "security" /\ xpc' \in {"done", "abort"} /\ UNCHANGED img
        /\ \/ \E fs : dir' = Raise(fs) /\ (img.sign => "rkcrc" \in fs)
           \/ \E fs, f : FailToRaise(fs, f)
    BY <1>10 DEF SearchSecurity, FailToRaise
  <2>2. "rkcrc" \in Flags
    BY DEF Flags
  <2>3. QED
    BY <1>1, <1>f, <2>1, <2>2
<1>11. QED
  BY <1>3, <1>4, <1>5, <1>6, <1>7, <1>8, <1>9, <1>10 DEF ExtractNext

(***************************************************************************)
(* A step of bootimg-repack changes nothing but its own state, and ends    *)
(* well only where there is no rkcrc.                                      *)
(***************************************************************************)
LEMMA RepackFacts ==
  ASSUME Shapes, RepackNext
  PROVE  UNCHANGED <<img, dir>> /\ Shaped(out') /\ (rpc' = "done" => ~Exists("rkcrc"))
<1>0. Shaped(out)
  BY DEF Shapes
<1>2. ASSUME NEW name, NEW fld, NEW next \in {"ramdisk", "second", "dt", "post"},
             AppendFile(name, fld, next)
      PROVE  Shaped(out') /\ rpc' # "done"
  <2>1. PICK at : out' = [out EXCEPT !.at = at, !.hdr[fld] = FileLen(name) % U32]
    BY <1>2, ZenonT(40) DEF AppendFile
  <2>2. rpc' = next
    BY <1>2 DEF AppendFile
  <2>3. QED
    BY <1>0, <2>1, <2>2 DEF Shaped
<1>3. CASE CreateImage
  <2>1. CASE UNCHANGED out
    BY <1>0, <1>3, <2>1 DEF CreateImage
  <2>2. CASE ~UNCHANGED out
    <3>1. /\ out' = [NoImage EXCEPT !.size = img.hdr.page_size, !.magicAt = {0},
                                    !.sign = img.sign, !.hdr.page_size = img.hdr.page_size]
          /\ UNCHANGED <<img, dir>> /\ rpc' = "kernel"
      BY <1>3, <2>2 DEF CreateImage
    <3>2. Shaped(out')
      BY <3>1 DEF Shaped, NoImage
    <3>3. QED
      BY <3>1, <3>2
  <2>3. QED
    BY <2>1, <2>2
<1>4. CASE AppendKernel
  BY <1>2, <1>4 DEF AppendKernel
<1>5. CASE AppendRamdisk
  BY <1>2, <1>5 DEF AppendRamdisk
<1>6. CASE AppendMtkRamdisk
  <2>1. rpc' # "done" /\ UNCHANGED <<img, dir>>
    BY <1>6, ZenonT(40) DEF AppendMtkRamdisk
  <2>2. CASE UNCHANGED out
    BY <1>0, <2>1, <2>2
  <2>3. CASE ~UNCHANGED out
    <3>1. PICK at : out' = [out EXCEPT !.at = at,
                             !.hdr.ramdisk_size = (FileLen("ramdisk.gz") + MtkHdrLen) % U32]
      BY <1>6, <2>3, ZenonT(40) DEF AppendMtkRamdisk
    <3>2. QED
      BY <1>0, <2>1, <3>1 DEF Shaped
  <2>4. QED
    BY <2>2, <2>3
<1>7. CASE AppendSecond
  BY <1>0, <1>2, <1>7 DEF AppendSecond
<1>8. CASE AppendDt
  BY <1>0, <1>2, <1>8 DEF AppendDt
<1>9. CASE PostProcess
  <2>1. UNCHANGED out \/ out' = [out EXCEPT !.size = rpos]
    BY <1>9 DEF PostProcess
  <2>2. Shaped(out')
    BY <1>0, <2>1 DEF Shaped
  <2>3. QED
    BY <1>9, <2>2 DEF PostProcess
<1>10. QED
  BY <1>3, <1>4, <1>5, <1>6, <1>7, <1>8, <1>9 DEF RepackNext

LEMMA FileShapes ==
  /\ \A s : ShapedFile(File0(s)) /\ File0(s).state = s
  /\ \A f : ShapedFile(f) =>
       /\ ShapedFile([f EXCEPT !.state = "custom"])
       /\ [f EXCEPT !.state = "custom"].img = f.img
       /\ ShapedFile([f EXCEPT !.img.size = @ + SamsungTrailer])
       /\ [f EXCEPT !.img.size = @ + SamsungTrailer].state = f.state
       /\ [f EXCEPT !.img.size = @ + SamsungTrailer].img.hdr = f.img.hdr
       /\ [f EXCEPT !.img.size = @ + SamsungTrailer].img.at = f.img.at
<1>1. \A s : ShapedFile(File0(s)) /\ File0(s).state = s
  BY DEF ShapedFile, Shaped, File0, NoImage
<1>2. ASSUME NEW f, ShapedFile(f), NEW g, g = [f EXCEPT !.state = "custom"]
      PROVE  ShapedFile(g) /\ g.img = f.img
  BY <1>2 DEF ShapedFile
<1>3. ASSUME NEW f, ShapedFile(f), NEW g, g = [f EXCEPT !.img.size = @ + SamsungTrailer]
      PROVE  ShapedFile(g) /\ g.state = f.state /\ g.img.hdr = f.img.hdr /\ g.img.at = f.img.at
  <2>1. g = [f EXCEPT !.img = [f.img EXCEPT !.size = f.img.size + SamsungTrailer]]
    BY <1>3
  <2>2. g = [state |-> f.state, img |-> [f.img EXCEPT !.size = f.img.size + SamsungTrailer]]
    BY <1>3, <2>1 DEF ShapedFile
  <2>3. QED
    BY <1>3, <2>2 DEF ShapedFile, Shaped
<1>4. QED
  BY <1>1, <1>2, <1>3


(***************************************************************************)
(* A step of the session preserves the invariant.                          *)
(***************************************************************************)
LEMMA SessionStep ==
  ASSUME SessionInv, SessionNext
  PROVE  SessionInv'
<1> USE DEF SessionInv
<1>1. CASE MakeExtractDir
  <2>1. Shapes'
    BY <1>1 DEF MakeExtractDir, Shapes, EmptyDir, Fail
  <2>2. FlagsOK'
    BY <1>1 DEF MakeExtractDir, FlagsOK, Extracted, toolVars, Fail, Exists
  <2>3. RockchipOK'
    BY <1>1 DEF MakeExtractDir, RockchipOK, FlagsOK, Built, Extracted, toolVars, Fail, Exists
  <2>4. SignedOK'
    BY <1>1 DEF MakeExtractDir, SignedOK, FlagsOK, toolVars, Fail, Exists
  <2>5. QED
    BY <2>1, <2>2, <2>3, <2>4
<1>2. CASE RunExtract
  <2>1. UNCHANGED <<rpc, rpos, out, sessionVars>> /\ spc = "extract" /\ ExtractNext
    BY <1>2 DEF RunExtract
  <2>2. Shapes'
    BY <2>1, ExtractFlags DEF Shapes, sessionVars
  <2>3. FlagsOK'
    BY <2>1, ExtractFlags DEF FlagsOK, sessionVars, Extracted, Flags
  <2>4. RockchipOK'
    BY <2>1, ExtractFlags DEF RockchipOK, sessionVars
  <2>5. SignedOK'
    BY <2>1, ExtractFlags DEF SignedOK, sessionVars
  <2>6. QED
    BY <2>1, <2>2, <2>3, <2>4, <2>5
<1>3. CASE ExtractReturned
  <2>1. Shapes'
    BY <1>3 DEF ExtractReturned, Shapes, toolVars
  <2>2. FlagsOK'
    BY <1>3 DEF ExtractReturned, FlagsOK, Extracted, toolVars, Fail, Exists
  <2>3. RockchipOK'
    BY <1>3 DEF ExtractReturned, RockchipOK, FlagsOK, Built, Extracted, toolVars, Fail, Exists
  <2>4. SignedOK'
    BY <1>3 DEF ExtractReturned, SignedOK, FlagsOK, toolVars, Fail, Exists
  <2>5. QED
    BY <2>1, <2>2, <2>3, <2>4
<1>4. CASE Unpack
  <2>1. Shapes'
    BY <1>4 DEF Unpack, Shapes, toolVars
  <2>2. FlagsOK'
    BY <1>4 DEF Unpack, FlagsOK, Extracted, toolVars, Fail, Exists
  <2>3. RockchipOK'
    BY <1>4 DEF Unpack, RockchipOK, FlagsOK, Built, Extracted, toolVars, Fail, Exists
  <2>4. SignedOK'
    BY <1>4 DEF Unpack, SignedOK, FlagsOK, toolVars, Fail, Exists
  <2>5. QED
    BY <2>1, <2>2, <2>3, <2>4
<1>5. CASE RunChanges
  <2>1. Shapes'
    BY <1>5 DEF RunChanges, Shapes, toolVars
  <2>2. FlagsOK'
    BY <1>5 DEF RunChanges, FlagsOK, Extracted, toolVars, Fail, Exists
  <2>3. RockchipOK'
    BY <1>5 DEF RunChanges, RockchipOK, FlagsOK, Built, Extracted, toolVars, Fail, Exists
  <2>4. SignedOK'
    BY <1>5 DEF RunChanges, SignedOK, FlagsOK, toolVars, Fail, Exists
  <2>5. QED
    BY <2>1, <2>2, <2>3, <2>4
<1>6. CASE Pack
  <2>1. UNCHANGED dir \/ (\E b : dir' = [dir EXCEPT !["ramdisk.gz"] = b])
    BY <1>6 DEF Pack
  <2>2. dir' = [n \in Names |-> dir'[n]] /\ \A f \in Flags : dir'[f] = dir[f]
    BY <2>1 DEF Shapes, Flags, Names, Payloads
  <2>3. Shapes'
    BY <1>6, <2>2 DEF Pack, Shapes
  <2>4. FlagsOK'
    BY <1>6, <2>2 DEF Pack, FlagsOK, Extracted, Exists, Fail, Flags
  <2>5. RockchipOK'
    BY <1>6 DEF Pack, RockchipOK, Built, Fail
  <2>6. SignedOK'
    BY <1>6 DEF Pack, SignedOK, Fail
  <2>7. QED
    BY <2>1, <2>2, <2>3, <2>4, <2>5, <2>6
<1>7. CASE RunRepack
  <2>1. UNCHANGED <<xpc, xpos, xskip, sessionVars>> /\ spc = "repack" /\ RepackNext
    BY <1>7 DEF RunRepack
  <2>2. Shapes'
    BY <2>1, RepackFacts DEF Shapes, sessionVars
  <2>3. FlagsOK'
    BY <2>1, RepackFacts DEF FlagsOK, sessionVars, Extracted, Exists
  <2>4. RockchipOK'
    BY <2>1, RepackFacts DEF RockchipOK, FlagsOK, sessionVars, Extracted
  <2>5. SignedOK'
    BY <2>1 DEF SignedOK, sessionVars
  <2>6. QED
    BY <2>1, <2>2, <2>3, <2>4, <2>5
<1>8. CASE RepackReturned
  <2>1. Shapes'
    BY <1>8 DEF RepackReturned, Shapes, toolVars
  <2>2. FlagsOK'
    BY <1>8 DEF RepackReturned, FlagsOK, Extracted, toolVars, Fail, Exists
  <2>3. RockchipOK'
    BY <1>8 DEF RepackReturned, RockchipOK, FlagsOK, Built, Extracted, toolVars, Fail, Exists
  <2>4. SignedOK'
    BY <1>8 DEF RepackReturned, SignedOK, FlagsOK, toolVars, Fail, Exists
  <2>5. QED
    BY <2>1, <2>2, <2>3, <2>4
<1>9. CASE StartCopy
  <2>1. Shapes'
    BY <1>9, FileShapes DEF StartCopy, Shapes, toolVars
  <2>2. FlagsOK'
    BY <1>9 DEF StartCopy, FlagsOK, Extracted, toolVars, Fail, Exists
  <2>3. RockchipOK'
    BY <1>9 DEF StartCopy, RockchipOK, FlagsOK, Built, Extracted, toolVars, Fail, Exists
  <2>4. SignedOK'
    BY <1>9 DEF StartCopy, SignedOK, FlagsOK, toolVars, Fail, Exists
  <2>5. QED
    BY <2>1, <2>2, <2>3, <2>4
<1>10. CASE EndCopy
  <2>1. Shapes'
    BY <1>10 DEF EndCopy, Shapes, ShapedFile, toolVars
  <2>2. FlagsOK'
    BY <1>10 DEF EndCopy, FlagsOK, Extracted, toolVars, Fail, Exists
  <2>3. RockchipOK'
    BY <1>10, FileShapes DEF EndCopy, RockchipOK, FlagsOK, Built, Extracted, toolVars, Fail, Exists
  <2>4. SignedOK'
    BY <1>10, FileShapes DEF EndCopy, SignedOK, FlagsOK, toolVars, Fail, Exists
  <2>5. QED
    BY <2>1, <2>2, <2>3, <2>4
<1>11. CASE StartSigning
  <2>1. Shapes'
    BY <1>11, FileShapes DEF StartSigning, Shapes, toolVars
  <2>2. FlagsOK'
    BY <1>11 DEF StartSigning, FlagsOK, Extracted, toolVars, Fail, Exists
  <2>3. RockchipOK'
    BY <1>11 DEF StartSigning, RockchipOK, FlagsOK, Built, Extracted, toolVars, Fail, Exists
  <2>4. SignedOK'
    BY <1>11 DEF StartSigning, SignedOK, FlagsOK, toolVars, Fail, Exists
  <2>5. QED
    BY <2>1, <2>2, <2>3, <2>4
<1>12. CASE EndSigning
  <2>1. Shapes'
    BY <1>12 DEF EndSigning, Shapes, toolVars
  <2>2. FlagsOK'
    BY <1>12 DEF EndSigning, FlagsOK, Extracted, toolVars, Fail, Exists
  <2>3. RockchipOK'
    BY <1>12 DEF EndSigning, RockchipOK, FlagsOK, Built, Extracted, toolVars, Fail, Exists
  <2>4. SignedOK'
    BY <1>12 DEF EndSigning, SignedOK, FlagsOK, toolVars, Fail, Exists
  <2>5. QED
    BY <2>1, <2>2, <2>3, <2>4
<1>13. CASE CustomPatch
  <2>1. ShapedFile(home') /\ home'.img.hdr = home.img.hdr /\ home'.img.at = home.img.at
    <3>1. home' \in {home, [home EXCEPT !.state = "custom"]}
      BY <1>13 DEF CustomPatch
    <3>2. QED
      BY <3>1, FileShapes DEF Shapes
  <2>2. Shapes'
    BY <1>13, <2>1 DEF CustomPatch, Shapes, toolVars
  <2>3. FlagsOK'
    BY <1>13 DEF CustomPatch, FlagsOK, Extracted, toolVars, Fail, Exists
  <2>4. RockchipOK'
    BY <1>13 DEF CustomPatch, RockchipOK, Built, toolVars, Fail
  <2>5. SignedOK'
    BY <1>13, <2>1 DEF CustomPatch, SignedOK, Fail
  <2>6. QED
    BY <2>1, <2>2, <2>3, <2>4, <2>5
<1>14. CASE SamsungLine
  <2>1. ShapedFile(home') /\ home'.img.hdr = home.img.hdr /\ home'.img.at = home.img.at
    <3>1. home' \in {home, [home EXCEPT !.img.size = @ + SamsungTrailer]}
      BY <1>14 DEF SamsungLine
    <3>2. QED
      BY <3>1, FileShapes DEF Shapes
  <2>2. Shapes'
    BY <1>14, <2>1 DEF SamsungLine, Shapes, toolVars
  <2>3. FlagsOK'
    BY <1>14 DEF SamsungLine, FlagsOK, Extracted, toolVars, Fail, Exists
  <2>4. RockchipOK'
    BY <1>14 DEF SamsungLine, RockchipOK, Built, toolVars, Fail
  <2>5. SignedOK'
    BY <1>14, <2>1 DEF SamsungLine, SignedOK, Fail
  <2>6. QED
    BY <2>1, <2>2, <2>3, <2>4, <2>5
<1>15. CASE Kill
  <2>1. Shapes'
    BY <1>15 DEF Kill, Shapes, toolVars
  <2>2. FlagsOK'
    BY <1>15 DEF Kill, FlagsOK, Extracted, toolVars, Exists
  <2>3. RockchipOK'
    BY <1>15 DEF Kill, RockchipOK, FlagsOK, Built, Extracted, toolVars, Exists
  <2>4. SignedOK'
    BY <1>15 DEF Kill, SignedOK, FlagsOK, toolVars, Exists
  <2>5. QED
    BY <2>1, <2>2, <2>3, <2>4
<1>16. QED
  BY <1>1, <1>2, <1>3, <1>4, <1>5, <1>6, <1>7, <1>8, <1>9, <1>10, <1>11, <1>12, <1>13, <1>14, <1>15 DEF SessionNext

(***************************************************************************)
(* The session is started again.                                           *)
(***************************************************************************)
LEMMA SessionAgain ==
  ASSUME SessionInv, ResetSession,
         \/ UNCHANGED <<home, signed>>
         \/ home' = File0("absent") /\ signed' = File0("absent")
  PROVE  SessionInv'
<1>1. Shaped(NoImage)
  BY DEF Shaped, NoImage
<1>2. Shapes'
  BY <1>1, FileShapes DEF SessionInv, Shapes, ResetSession
<1>3. FlagsOK'
  BY DEF FlagsOK, Extracted, ResetSession
<1>4. RockchipOK'
  BY FileShapes DEF SessionInv, RockchipOK, Built, ResetSession
<1>5. SignedOK'
  BY DEF SignedOK, ResetSession
<1>6. QED
  BY <1>2, <1>3, <1>4, <1>5 DEF SessionInv

LEMMA SessionInvStep ==
  ASSUME SessionInv, [FlashNext]_flashVars
  PROVE  SessionInv'
<1>1. CASE UNCHANGED vars
  BY <1>1 DEF vars, sessionVars, SessionInv, Shapes, FlagsOK, RockchipOK, SignedOK, Exists
<1>2. CASE RunSession
  BY <1>2, SessionStep, SessionAgain DEF RunSession, Restart
<1>3. CASE Reinstall
  BY <1>3, SessionAgain DEF Reinstall
<1>4. QED
  BY <1>1, <1>2, <1>3 DEF FlashNext, FlashSpec, flashVars, FindPartition, StartDd, EndDd, PowerLoss

LEMMA SessionInvAlways == FlashSpec => []SessionInv
<1>1. FlashInit => SessionInv
  BY SessionInvInit
<1>2. SessionInv /\ [FlashNext]_flashVars => SessionInv'
  BY SessionInvStep
<1>3. QED
  BY <1>1, <1>2, PTL DEF FlashSpec

(***************************************************************************)
(* SessionRockchipNeverPublished: whatever the image and however often the *)
(* session fails, is killed and is started again, an image with a Rockchip *)
(* signature never replaces new-boot.img: the flag that the extraction     *)
(* raised in its last step is still there when repack looks for it, and    *)
(* nothing after a repack that failed is reached.                          *)
(***************************************************************************)
THEOREM SessionRockchipNeverPublished == FlashSpec => []RockchipNeverPublished
<1>1. SessionInv => RockchipNeverPublished
  BY DEF SessionInv, RockchipOK, RockchipNeverPublished
<1>2. QED
  BY <1>1, SessionInvAlways, PTL

(***************************************************************************)
(* SessionSignedMatchesBuilt: a session that ended well and had to sign    *)
(* has left an image that it signed itself, made from the image it built,  *)
(* also when an earlier run had left one, and also for a ChromeOS image,   *)
(* which the script recognises by a flag in a directory that an earlier    *)
(* run may have used.                                                      *)
(***************************************************************************)
THEOREM SessionSignedMatchesBuilt == FlashSpec => []SignedMatchesBuilt
<1>1. SessionInv => SignedMatchesBuilt
  BY DEF SessionInv, FlagsOK, SignedOK, SignedMatchesBuilt, Extracted
<1>2. QED
  BY <1>1, SessionInvAlways, PTL

-----------------------------------------------------------------------------
(***************************************************************************)
(* From here on: what a session has done to an image it can edit, to show  *)
(* that it implements its promise (module ImageEdit).                      *)
(***************************************************************************)
\* The stages before repack is run, those in which its product is waited for
\* and copied, and those in which the copy is complete.
Early     == {"start", "extract", "unpack", "edit", "pack"}
Packing   == {"repack", "copy", "copying"}
Delivered == {"sign", "signing", "custom", "samsung", "ok"}

ToolTypes == ExtractTyped /\ RepackTyped /\ Fits(img)

ScriptTypes ==
    /\ spc \in SStages \cup SEnds
    /\ work \in SUBSET {"bootimg_extract", "d2"}
    /\ chromeos \in BOOLEAN /\ keys \in BOOLEAN
    /\ home.state \in Artefact /\ IsImage(home.img)
    /\ signed.state \in Artefact /\ IsImage(signed.img)
    /\ restarts \in 0 .. MaxRestarts

\* The extraction, in a directory that may be the one of a run that was killed:
\* there may be a packed ramdisk.gz of that run, in the format of the image.
StaleArchive ==
    Archive(img).fmt # "gzip" => ~Exists("ramdisk.gz") \/ dir["ramdisk.gz"].what.fmt = "lzma"

\* ramdisk.gz is there exactly if the archive has the format of that name.
Unpacked ==
    /\ Archive(img).fmt \in {"gzip", "lzma"}
    /\ Exists("ramdisk.gz") <=> Archive(img).fmt = "gzip"

\* The changed archive is there, in the format of the original.
Packed ==
    /\ dir["ramdisk.gz"].what = [fmt |-> Archive(img).fmt, id |-> "edited"]
    /\ dir["ramdisk.gz"].len > 0

DirectoryInv ==
    Editable(img) =>
      /\ Positions /\ PartsCut /\ Stepped /\ StaleArchive
      /\ spc \in Early => ArchiveCut
      /\ spc \in {"edit", "pack"} => Unpacked
      /\ spc \in Packing => Packed

RebuildInv ==
    /\ LaidOutInv /\ MtkHeaderInv
    /\ rpc \notin {"open", "exit1"} => out.magicAt = {0}
    /\ spc \in Early => rpc = "open"
    /\ spc \in {"copy", "copying"} => rpc = "done"

\* The image in the home directory is the original with another ramdisk.
HomeInv ==
    (Editable(img) /\ spc \in Delivered) =>
        EditOf(img, home.img) /\ WellFormed(home.img) /\ home.img.magicAt = {0}

EditInv == SessionInv /\ ToolTypes /\ ScriptTypes /\ DirectoryInv /\ RebuildInv /\ HomeInv

PartitionInv ==
    /\ caller \in {"user", "recovery"} /\ fpc \in FStages \cup FEnds
    /\ fpc \in {"find", "session"} => part = Original
    /\ fpc \in {"dd", "done"} => spc = "ok"
    /\ part # Original => spc = "ok" /\ fpc \notin {"find", "session"}
    /\ fpc = "done" => part = [state |-> "flashed", img |-> home.img]
    /\ part.state \in {"original", "torn", "flashed"} /\ IsImage(part.img)
    /\ part.state = "original" => part = Original

(***************************************************************************)
(* An image whose only header is at its start.                             *)
(***************************************************************************)
LEMMA HeaderFirst ==
    ASSUME NEW i, IsImage(i), i.magicAt = {0}
    PROVE  WellFormed(i) <=> /\ i.hdr.page_size \in PageSizes
                             /\ i.hdr.kernel_size > 0 /\ i.hdr.ramdisk_size > 0
                             /\ EndPos(i.hdr) <= i.size
<1>1. HasHeader(i) => HeaderAt(i) = 0
  BY HeaderFound DEF HeaderOffsets
<1>2. i.size \in Nat /\ i.hdr \in Header
  BY DEF IsImage
<1>3. ASSUME i.hdr.page_size \in PageSizes, EndPos(i.hdr) <= i.size PROVE HasHeader(i)
  <2>1. EndPos(i.hdr) > 0
    <3>1. /\ KernelPos(i.hdr) = i.hdr.page_size /\ KernelPos(i.hdr) \in Nat
          /\ RamdiskPos(i.hdr) \in Nat /\ SecondPos(i.hdr) \in Nat
          /\ DtPos(i.hdr) \in Nat /\ EndPos(i.hdr) \in Nat
          /\ KernelPos(i.hdr) + i.hdr.kernel_size <= RamdiskPos(i.hdr)
          /\ RamdiskPos(i.hdr) + i.hdr.ramdisk_size <= SecondPos(i.hdr)
          /\ SecondPos(i.hdr) + i.hdr.second_size <= DtPos(i.hdr)
          /\ DtPos(i.hdr) + i.hdr.unused0 <= EndPos(i.hdr)
      BY <1>2, <1>3, Layout
    <3>2. i.hdr.page_size > 0
      BY <1>3 DEF PageSizes
    <3>3. /\ i.hdr.kernel_size \in Nat /\ i.hdr.ramdisk_size \in Nat
          /\ i.hdr.second_size \in Nat /\ i.hdr.unused0 \in Nat
      BY <1>2 DEF Header
    <3>4. QED
      BY <3>1, <3>2, <3>3
  <2>2. EndPos(i.hdr) \in Nat
    BY <1>2, <1>3, Layout
  <2>3. 0 < i.size /\ 0 % SearchStep = 0
    BY <1>2, <1>3, <2>1, <2>2 DEF SearchStep
  <2>4. 0 \in HeaderOffsets(i)
    BY <2>3 DEF HeaderOffsets
  <2>5. QED
    BY <2>4 DEF HasHeader
<1>4. i.hdr.page_size \in PageSizes => EndPos(i.hdr) \in Nat
  BY <1>2, Layout
<1>5. QED
  BY <1>1, <1>3, <1>4 DEF WellFormed

(***************************************************************************)
(* A part that was cut out and written back is the part it was.            *)
(***************************************************************************)
LEMMA CarriedOver ==
    ASSUME ShortWrites = FALSE, NEW name, NEW p, NEW n, dir[name] = Slice(p, n),
           NEW m, NEW q, Holds(name, m, q)
    PROVE  SamePart(img, n, p, out, m, q)
  BY DEF Slice, Holds, Written, OrCut, SamePart

(***************************************************************************)
(* repack, run after a complete extraction and with the changed archive in *)
(* place of the one that was extracted, builds what the script promises.   *)
(***************************************************************************)
LEMMA RebuiltEdited ==
    ASSUME ExtractTyped, RepackTyped, Editable(img), xpc = "done", rpc = "done",
           PartsCut, Stepped, Packed, LaidOutInv, MtkHeaderInv, out.magicAt = {0},
           ShortWrites = FALSE
    PROVE  EditOf(img, out) /\ WellFormed(out)
<1> DEFINE h == img.hdr
           g == out.hdr
           len == dir["ramdisk.gz"].len
           edited == [fmt |-> Archive(img).fmt, id |-> "edited"]
<1>1. /\ IsImage(img) /\ IsImage(out) /\ DirType /\ WellFormed(img) /\ OneMtkHeader(img)
      /\ xpc \in PastRamdisk
  BY DEF ExtractTyped, ExtractTypeOK, RepackTyped, RepackTypeOK, Editable, PastRamdisk
<1>h. /\ h \in Header /\ g \in Header /\ h.kernel_size \in Nat /\ h.kernel_size > 0
      /\ h.second_size \in Nat /\ h.unused0 \in Nat /\ g.ramdisk_size \in Nat
      /\ g.page_size = h.page_size /\ g.page_size \in PageSizes
  BY <1>1 DEF IsImage, Header, RepackTyped, Created, WellFormed
<1>2. KernelCut /\ SecondCut /\ DtCut
  BY <1>1 DEF PartsCut
<1>3. /\ Archive(img).fmt \in {"gzip", "lzma"}
      /\ Exists("ramdisk-mtk") <=> MtkLen(img) # 0
      /\ MtkLen(img) # 0 => /\ TopFormat \in MtkFlavours
                            /\ Exists("ramdisk-mtk-boot") <=> TopFormat = "mtkboot"
  BY <1>1, SteppedOnce
<1>4. Exists("ramdisk.gz") /\ len \in Nat /\ len > 0 /\ dir["ramdisk.gz"].what = edited
  <2>1. dir["ramdisk.gz"] \in File \cup {NoFile} /\ len > 0
    BY <1>1 DEF DirType, Packed, Names, Payloads
  <2>2. dir["ramdisk.gz"] # NoFile
    BY <2>1 DEF NoFile
  <2>3. QED
    BY <2>1, <2>2 DEF Exists, File, Packed
<1>5. RamdiskFile = "ramdisk.gz" /\ RamdiskSkip = MtkLen(img)
  BY <1>3, <1>4 DEF RamdiskFile, RamdiskSkip, MtkLen
<1>6. Exists("kernel") /\ Wanted
  BY <1>h, <1>2, <1>4, <1>5 DEF KernelCut, Exists, Slice, NoFile, Wanted
<1>7. /\ KernelBuilt /\ RamdiskBuilt /\ SecondBuilt /\ DtBuilt
      /\ out.size = rpos /\ rpos = EndPos(g)
  BY <1>6 DEF LaidOutInv, LaidOut
<1>8. SamePart(img, h.kernel_size, KernelPos(h), out, g.kernel_size, KernelPos(g))
  BY <1>2, <1>7, CarriedOver DEF KernelCut, KernelBuilt
<1>9. SamePart(img, h.second_size, SecondPos(h), out, g.second_size, SecondPos(g))
  <2>1. CASE h.second_size = 0
    <3>1. ~Exists("second")
      BY <1>2, <2>1 DEF SecondCut, Exists
    <3>2. QED
      BY <1>7, <2>1, <3>1 DEF SecondBuilt, SamePart
  <2>2. CASE h.second_size # 0
    <3>1. dir["second"] = Slice(SecondPos(h), h.second_size)
      BY <1>2, <2>2 DEF SecondCut
    <3>2. Exists("second")
      BY <1>h, <3>1 DEF Exists, Slice, NoFile
    <3>3. Holds("second", g.second_size, SecondPos(g))
      BY <1>7, <3>2 DEF SecondBuilt
    <3>4. QED
      BY <3>1, <3>3, CarriedOver
  <2>3. QED
    BY <2>1, <2>2
<1>10. IF CarriesDt(img)
       THEN SamePart(img, h.unused0, DtPos(h), out, g.unused0, DtPos(g))
       ELSE g.unused0 = 0
  <2>1. CASE ~CarriesDt(img)
    <3>1. ~Exists("dt")
      BY <1>2, <2>1 DEF DtCut, Exists
    <3>2. QED
      BY <1>7, <2>1, <3>1 DEF DtBuilt
  <2>2. CASE CarriesDt(img)
    <3>1. dir["dt"] = Slice(DtPos(h), h.unused0)
      BY <1>2, <2>2 DEF DtCut
    <3>2. Exists("dt")
      BY <1>h, <3>1 DEF Exists, Slice, NoFile
    <3>3. Holds("dt", g.unused0, DtPos(g))
      BY <1>7, <3>2 DEF DtBuilt
    <3>4. SamePart(img, h.unused0, DtPos(h), out, g.unused0, DtPos(g))
      BY <3>1, <3>3, CarriedOver
    <3>5. QED
      BY <2>2, <3>4
  <2>3. QED
    BY <2>1, <2>2
<1>11. /\ BlobAt(out.at, RamdiskPos(g) + MtkLen(img)) = edited
       /\ g.ramdisk_size = len + MtkLen(img)
  <2>1. Holds("ramdisk.gz", g.ramdisk_size - MtkLen(img), RamdiskPos(g) + MtkLen(img))
    BY <1>5, <1>7 DEF RamdiskBuilt
  <2>2. g.ramdisk_size - MtkLen(img) = len /\ BlobAt(out.at, RamdiskPos(g) + MtkLen(img)) = edited
    BY <1>4, <2>1 DEF Holds, Written, OrCut
  <2>3. MtkLen(img) \in {0, 512}
    BY DEF MtkLen, MtkHdrLen
  <2>4. QED
    BY <1>h, <1>4, <2>2, <2>3
<1>12. /\ MtkLen(out) = MtkLen(img)
       /\ MtkLen(img) # 0 => BlobAt(out.at, RamdiskPos(g)).fmt = BlobAt(img.at, RamdiskPos(h)).fmt
  <2>1. CASE MtkLen(img) # 0
    <3>1. BlobAt(out.at, RamdiskPos(g)) = MtkHeader
      BY <1>3, <1>6, <2>1 DEF MtkHeaderInv, MtkInv, OrCut
    <3>2. MtkHeader.fmt = TopFormat
      BY <1>3, <2>1 DEF MtkHeader, MtkFlavours
    <3>3. QED
      BY <1>3, <2>1, <3>1, <3>2 DEF MtkLen, TopFormat
  <2>2. CASE MtkLen(img) = 0
    <3>1. RamdiskPos(g) \in Nat
      BY <1>h, Layout
    <3>2. BlobAt(out.at, RamdiskPos(g)) = edited
      BY <1>11, <2>2, <3>1
    <3>3. edited.fmt \notin MtkFlavours
      BY <1>3 DEF MtkFlavours
    <3>4. QED
      BY <2>2, <3>2, <3>3 DEF MtkLen
  <2>3. QED
    BY <2>1, <2>2
<1>13. Archive(out) = edited
  BY <1>11, <1>12 DEF Archive
<1>14. EditOf(img, out)
  BY <1>h, <1>8, <1>9, <1>10, <1>12, <1>13 DEF EditOf
<1>15. WellFormed(out)
  <2>1. g.kernel_size > 0
    BY <1>h, <1>8 DEF SamePart
  <2>2. g.ramdisk_size > 0
    BY <1>4, <1>11 DEF MtkLen, MtkHdrLen
  <2>3. EndPos(g) <= out.size
    BY <1>h, <1>7, Layout
  <2>4. QED
    BY <1>1, <1>h, <2>1, <2>2, <2>3, HeaderFirst
<1>16. QED
  BY <1>14, <1>15

-----------------------------------------------------------------------------
(***************************************************************************)
(* The steps of the script that leave alone what the two programs work on, *)
(* and the ones that start it again.                                       *)
(***************************************************************************)
ScriptOnly ==
    \/ ExtractReturned \/ Unpack \/ RunChanges \/ RepackReturned \/ StartCopy \/ EndCopy
    \/ StartSigning \/ EndSigning \/ CustomPatch \/ SamsungLine \/ Kill

Again ==
    /\ ResetSession
    /\ \/ UNCHANGED <<home, signed>>
       \/ home' = File0("absent") /\ signed' = File0("absent")

LEMMA ScriptOnlyFrame == ScriptOnly => UNCHANGED toolVars
  BY DEF ScriptOnly, ExtractReturned, Unpack, RunChanges, RepackReturned, StartCopy, EndCopy,
     StartSigning, EndSigning, CustomPatch, SamsungLine, Kill

LEMMA SessionMoves ==
    ASSUME [FlashNext]_flashVars
    PROVE  \/ MakeExtractDir \/ RunExtract \/ Pack \/ RunRepack \/ ScriptOnly \/ Again
           \/ UNCHANGED vars
  BY DEF FlashNext, flashVars, RunSession, SessionNext, Restart, Reinstall, FindPartition, StartDd,
     EndDd, PowerLoss, ScriptOnly, Again

(***************************************************************************)
(* What the two programs work on keeps its type.                           *)
(***************************************************************************)
LEMMA NewDirectory ==
    ASSUME ToolTypes, UNCHANGED <<img, xpc, xpos, xskip, rpc, rpos, out>>, DirType', Small'
    PROVE  ToolTypes'
  BY DEF ToolTypes, ExtractTyped, ExtractTypeOK, Parsed, RepackTyped, RepackTypeOK, Created, Fits

LEMMA ToolTypesStep ==
    ASSUME ToolTypes, [FlashNext]_flashVars
    PROVE  ToolTypes'
<1>0. /\ ExtractTyped /\ RepackTyped /\ Fits(img) /\ DirType /\ Small
      /\ IsImage(img) /\ U32 \in Nat /\ U32 > 65536
  BY U32Assumption DEF ToolTypes, RepackTyped, RepackTypeOK
<1>1. CASE MakeExtractDir
  <2>1. dir' \in {EmptyDir, dir} /\ UNCHANGED <<img, xpc, xpos, xskip, rpc, rpos, out>>
    BY <1>1 DEF MakeExtractDir
  <2>2. CASE dir' = EmptyDir
    <3>1. DirType' /\ Small'
      BY <1>0, <2>2 DEF DirType, Small, EmptyDir, NoFile, MtkHdrLen
    <3>2. QED
      BY <2>1, <3>1, NewDirectory
  <2>3. CASE dir' = dir
    BY <1>0, <2>1, <2>3, NewDirectory DEF DirType, Small
  <2>4. QED
    BY <2>1, <2>2, <2>3
<1>2. CASE RunExtract
  <2>1. ExtractNext /\ UNCHANGED <<rpc, rpos, out>>
    BY <1>2 DEF RunExtract
  <2>2. img' = img /\ ExtractTyped' /\ Small'
    BY <1>0, <2>1, ExtractReads, ExtractTypedStep, ExtractSmall
  <2>3. QED
    BY <1>0, <2>1, <2>2
    DEF ToolTypes, RepackTyped, RepackTypeOK, Created, ExtractTyped, ExtractTypeOK
<1>3. CASE Pack
  <2>1. UNCHANGED <<img, xpc, xpos, xskip, rpc, rpos, out>>
    BY <1>3 DEF Pack
  <2>2. CASE UNCHANGED dir
    BY <1>0, <2>1, <2>2, NewDirectory DEF DirType, Small
  <2>3. CASE \E n \in EditedSizes : dir' = [dir EXCEPT !["ramdisk.gz"] = PackedRamdisk(n)]
    <3>1. PICK n \in EditedSizes : dir' = [dir EXCEPT !["ramdisk.gz"] = PackedRamdisk(n)]
      BY <2>3
    <3>2. n \in Nat /\ n + MtkHdrLen < U32
      BY <1>0, EditedSizesAssumption DEF MtkHdrLen
    <3> DEFINE f == PackedRamdisk(n)
    <3>3. f \in File /\ f.len = n /\ dir' = [dir EXCEPT !["ramdisk.gz"] = f]
      BY <3>1, <3>2, IdsAssumption DEF PackedRamdisk, File, Blob, Formats
    <3> HIDE DEF f
    <3>4. DirType'
      <4>1. dir \in [Names -> File \cup {NoFile}]
        BY <1>0 DEF DirType
      <4>2. dir' \in [Names -> File \cup {NoFile}]
        BY <3>3, <4>1
      <4>3. QED
        BY <4>2 DEF DirType
    <3>5. \A m \in Names : dir'[m] = IF m = "ramdisk.gz" THEN f ELSE dir[m]
      BY <1>0, <3>3 DEF DirType
    <3>6. Small'
      BY <1>0, <3>2, <3>3, <3>5 DEF Small
    <3>7. QED
      BY <2>1, <3>4, <3>6, NewDirectory
  <2>4. QED
    BY <1>3, <2>2, <2>3 DEF Pack
<1>4. CASE RunRepack
  <2>1. RepackNext /\ UNCHANGED <<xpc, xpos, xskip>>
    BY <1>4 DEF RunRepack
  <2>2. UNCHANGED <<img, dir>> /\ RepackTyped'
    BY <1>0, <2>1, RepackReads, RepackTypedStep
  <2>3. QED
    BY <1>0, <2>1, <2>2 DEF ToolTypes, ExtractTyped, ExtractTypeOK, DirType, Parsed
<1>5. CASE ScriptOnly \/ UNCHANGED vars
  <2>1. UNCHANGED toolVars
    BY <1>5, ScriptOnlyFrame DEF vars, toolVars
  <2>2. QED
    BY <1>0, <2>1, NewDirectory DEF toolVars, DirType, Small
<1>6. CASE Again
  BY <1>0, <1>6, NoImageType
  DEF Again, ResetSession, ToolTypes, ExtractTyped, ExtractTypeOK, Parsed, XStages,
      RepackTyped, RepackTypeOK, Created, RStages, DirType, Small
<1>7. QED
  BY <1>1, <1>2, <1>3, <1>4, <1>5, <1>6, SessionMoves

(***************************************************************************)
(* And so does what belongs to the script.                                 *)
(***************************************************************************)
LEMMA SamsungType ==
    ASSUME NEW i, IsImage(i), NEW j, j = [i EXCEPT !.size = i.size + SamsungTrailer]
    PROVE  /\ IsImage(j) /\ j.hdr = i.hdr /\ j.at = i.at /\ j.magicAt = i.magicAt
           /\ j.size \in Nat /\ j.size >= i.size
<1>1. /\ j = [size |-> i.size + SamsungTrailer, magicAt |-> i.magicAt, chromeos |-> i.chromeos,
              sign |-> i.sign, hdr |-> i.hdr, at |-> i.at]
  BY DEF IsImage
<1>2. i.size \in Nat /\ SamsungTrailer \in Nat
  BY DEF IsImage, SamsungTrailer
<1>3. /\ j.size = i.size + SamsungTrailer /\ j.magicAt = i.magicAt /\ j.chromeos = i.chromeos
      /\ j.sign = i.sign /\ j.hdr = i.hdr /\ j.at = i.at
  BY <1>1
<1>4. QED
  BY <1>1, <1>2, <1>3 DEF IsImage

\* What the last two steps of the script do to the image in the home directory.
LEMMA HomeMoves ==
    ASSUME Shapes, ScriptTypes, CustomPatch \/ SamsungLine
    PROVE  /\ home'.state \in Artefact /\ IsImage(home'.img)
           /\ home'.img.hdr = home.img.hdr /\ home'.img.at = home.img.at
           /\ home'.img.magicAt = home.img.magicAt /\ home'.img.size >= home.img.size
<1>0. /\ home = [state |-> home.state, img |-> home.img] /\ home.state \in Artefact
      /\ IsImage(home.img) /\ home.img.size \in Nat
  BY DEF Shapes, ShapedFile, ScriptTypes, IsImage
<1>1. CASE home' = home
  BY <1>0, <1>1
<1>2. CASE home' = [home EXCEPT !.state = "custom"]
  <2>1. home'.img = home.img /\ home'.state = "custom"
    BY <1>0, <1>2
  <2>2. QED
    BY <1>0, <2>1 DEF Artefact
<1>3. CASE home' = [home EXCEPT !.img.size = @ + SamsungTrailer]
  <2>1. /\ home'.state = home.state
        /\ home'.img = [home.img EXCEPT !.size = home.img.size + SamsungTrailer]
    BY <1>0, <1>3
  <2>2. QED
    BY <1>0, <2>1, SamsungType
<1>4. QED
  BY <1>1, <1>2, <1>3 DEF CustomPatch, SamsungLine

LEMMA File0Type ==
    ASSUME NEW s \in Artefact PROVE File0(s).state \in Artefact /\ IsImage(File0(s).img)
  BY NoImageType DEF File0

LEMMA ScriptTypesStep ==
    ASSUME SessionInv, ToolTypes, ScriptTypes, [FlashNext]_flashVars
    PROVE  ScriptTypes'
<1>0. /\ Shapes /\ MaxRestarts \in Nat
      /\ spc \in SStages \cup SEnds /\ work \in SUBSET {"bootimg_extract", "d2"}
      /\ chromeos \in BOOLEAN /\ keys \in BOOLEAN /\ restarts \in 0 .. MaxRestarts
      /\ home.state \in Artefact /\ IsImage(home.img) /\ IsImage(out)
      /\ signed.state \in Artefact /\ IsImage(signed.img)
  BY MaxRestartsAssumption DEF SessionInv, ScriptTypes, ToolTypes, RepackTyped, RepackTypeOK
<1>1. /\ work' \in SUBSET {"bootimg_extract", "d2"} /\ chromeos' \in BOOLEAN /\ keys' \in BOOLEAN
      /\ spc' \in SStages \cup SEnds
  BY <1>0, SessionMoves
  DEF MakeExtractDir, RunExtract, Pack, RunRepack, ScriptOnly, Again, vars, sessionVars, ResetSession,
      ExtractReturned, Unpack, RunChanges, RepackReturned, StartCopy, EndCopy,
      StartSigning, EndSigning, CustomPatch, SamsungLine, Kill, Fail, Exists, SStages, SEnds
<1>2. restarts' \in 0 .. MaxRestarts
  <2>1. restarts' = restarts \/ (restarts < MaxRestarts /\ restarts' = restarts + 1)
    BY SessionMoves
    DEF MakeExtractDir, RunExtract, Pack, RunRepack, ScriptOnly, Again, vars, sessionVars, ResetSession,
        ExtractReturned, Unpack, RunChanges, RepackReturned, StartCopy, EndCopy,
        StartSigning, EndSigning, CustomPatch, SamsungLine, Kill
  <2>2. QED
    BY <1>0, <2>1
<1>3. home'.state \in Artefact /\ IsImage(home'.img)
  <2>1. \/ UNCHANGED home \/ home' \in {File0("torn"), File0("absent")}
        \/ home' = [state |-> "whole", img |-> out] \/ CustomPatch \/ SamsungLine
    BY SessionMoves
    DEF MakeExtractDir, RunExtract, Pack, RunRepack, ScriptOnly, Again, vars, sessionVars,
        ExtractReturned, Unpack, RunChanges, RepackReturned, StartCopy, EndCopy,
        StartSigning, EndSigning, Kill
  <2>2. CASE home' \in {File0("torn"), File0("absent")}
    BY <2>2, File0Type DEF Artefact
  <2>3. CASE CustomPatch \/ SamsungLine
    BY <1>0, <2>3, HomeMoves DEF ScriptTypes
  <2>4. QED
    BY <1>0, <2>1, <2>2, <2>3 DEF Artefact
<1>4. signed'.state \in Artefact /\ IsImage(signed'.img)
  <2>1. \/ UNCHANGED signed \/ signed' \in {File0("torn"), File0("absent")} \/ signed' = home
    BY SessionMoves
    DEF MakeExtractDir, RunExtract, Pack, RunRepack, ScriptOnly, Again, vars, sessionVars,
        ExtractReturned, Unpack, RunChanges, RepackReturned, StartCopy, EndCopy,
        StartSigning, EndSigning, CustomPatch, SamsungLine, Kill
  <2>2. CASE signed' \in {File0("torn"), File0("absent")}
    BY <2>2, File0Type DEF Artefact
  <2>3. QED
    BY <1>0, <2>1, <2>2
<1>5. QED
  BY <1>1, <1>2, <1>3, <1>4 DEF ScriptTypes

-----------------------------------------------------------------------------
(***************************************************************************)
(* The directory. First, what the conjuncts depend on.                     *)
(***************************************************************************)
LEMMA CutStays ==
    ASSUME UNCHANGED <<img, xpc, xpos, xskip>>, \A n \in Names \ {"ramdisk.gz"} : dir'[n] = dir[n],
           Positions, PartsCut, Stepped
    PROVE  Positions' /\ PartsCut' /\ Stepped'
<1>1. /\ dir'["kernel"] = dir["kernel"] /\ dir'["second"] = dir["second"] /\ dir'["dt"] = dir["dt"]
      /\ dir'["ramdisk-mtk"] = dir["ramdisk-mtk"]
      /\ dir'["ramdisk-mtk-boot"] = dir["ramdisk-mtk-boot"]
      /\ dir'["ramdisk-mtk-recovery"] = dir["ramdisk-mtk-recovery"]
  BY DEF Names, Payloads, Flags
<1>2. Positions'
  BY DEF Positions
<1>3. PartsCut'
  BY <1>1 DEF PartsCut, KernelCut, SecondCut, DtCut, Slice
<1>4. Stepped'
  BY <1>1 DEF Stepped, TopFormat, Exists, FlavourFlag
<1>5. QED
  BY <1>2, <1>3, <1>4

LEMMA CutBefore ==
    ASSUME img' = img, xpc' = "start", xskip' = 0, Stepped, PartsCut, dir' \in {EmptyDir, dir}
    PROVE  Positions' /\ PartsCut' /\ Stepped' /\ ArchiveCut'
<1>1. Positions' /\ ArchiveCut'
  BY DEF Positions, ArchiveCut, PastRamdisk
<1>2. \A n \in {"second", "dt", "ramdisk-mtk", "ramdisk-mtk-boot", "ramdisk-mtk-recovery"} :
         dir'[n] \in {dir[n], NoFile}
  BY DEF EmptyDir, Names, Payloads, Flags
<1>3. PartsCut'
  BY <1>2 DEF PartsCut, PastRamdisk
<1>4. Stepped'
  BY <1>2 DEF Stepped, TopFormat, Exists, PastRamdisk
<1>5. QED
  BY <1>1, <1>3, <1>4

\* The extraction writes a ramdisk.gz only for a gzip archive.
LEMMA StaleStep ==
    ASSUME ExtractTyped, Editable(img), Progress, StaleArchive, ExtractNext
    PROVE  StaleArchive'
<1>1. img' = img /\ Stepped /\ OneMtkHeader(img) /\ WellFormed(img) /\ IsImage(img)
  BY ExtractReads DEF Editable, Progress, ExtractTyped, ExtractTypeOK
<1>2. CASE DumpRamdisk
  <2> DEFINE fmt == BlobAt(img.at, xpos + xskip).fmt
             name == CASE fmt = "gzip" -> "ramdisk.gz"
                       [] fmt = "lzma" -> "ramdisk.lzma"
                       [] OTHER        -> "ramdisk"
  <2>1. /\ xpc = "ramdisk" /\ fmt \in {"gzip", "lzma", "dtb", "raw"}
        /\ Dump(name, xpos + xskip, img.hdr.ramdisk_size - xskip,
                IF fmt \in {"gzip", "lzma"} THEN "second" ELSE "abort")
    BY <1>2 DEF DumpRamdisk
  <2>2. PICK f : dir' = [dir EXCEPT ![name] = f]
    BY <2>1 DEF Dump
  <2>3. CASE fmt # "gzip"
    <3>1. dir'["ramdisk.gz"] = dir["ramdisk.gz"]
      BY <2>2, <2>3
    <3>2. QED
      BY <1>1, <3>1 DEF StaleArchive, Exists
  <2>4. CASE fmt = "gzip"
    <3>1. xpos = RamdiskPos(img.hdr) /\ RamdiskPos(img.hdr) \in Nat
      BY <1>1, <2>1, HdrType, Layout DEF Progress, Positions, WellFormed
    <3>2. xskip \in {0, MtkLen(img)}
      BY <1>1 DEF Stepped
    <3>3. CASE xskip = MtkLen(img)
      BY <1>1, <2>4, <3>1, <3>3 DEF StaleArchive, Archive
    <3>4. CASE xskip = 0 /\ MtkLen(img) # 0
      <4>1. BlobAt(img.at, RamdiskPos(img.hdr)).fmt = "gzip"
        BY <2>4, <3>1, <3>4
      <4>2. QED
        BY <3>4, <4>1 DEF MtkLen, MtkFlavours
    <3>5. QED
      BY <3>2, <3>3, <3>4
  <2>5. QED
    BY <2>3, <2>4
<1>3. CASE ~DumpRamdisk
  <2>1. dir'["ramdisk.gz"] = dir["ramdisk.gz"]
    BY <1>3, Writers DEF RamdiskNames
  <2>2. QED
    BY <1>1, <2>1 DEF StaleArchive, Exists
<1>4. QED
  BY <1>2, <1>3

LEMMA DirectoryStep ==
    ASSUME SessionInv, ToolTypes, DirectoryInv, [FlashNext]_flashVars
    PROVE  DirectoryInv'
<1>0. /\ FlagsOK /\ ExtractTyped /\ RepackTyped /\ DirType
  BY DEF SessionInv, ToolTypes, RepackTyped, RepackTypeOK
<1>i. img' = img
  BY SessionMoves, ExtractReads, RepackReads, ScriptOnlyFrame
  DEF MakeExtractDir, RunExtract, Pack, RunRepack, Again, ResetSession, vars, toolVars
<1> SUFFICES ASSUME Editable(img)
             PROVE  /\ Positions' /\ PartsCut' /\ Stepped' /\ StaleArchive'
                    /\ spc' \in Early => ArchiveCut'
                    /\ spc' \in {"edit", "pack"} => Unpacked'
                    /\ spc' \in Packing => Packed'
  BY <1>i DEF DirectoryInv
<1>1. /\ Positions /\ PartsCut /\ Stepped /\ StaleArchive
      /\ spc \in Early => ArchiveCut
      /\ spc \in {"edit", "pack"} => Unpacked
      /\ spc \in Packing => Packed
      /\ WellFormed(img) /\ OneMtkHeader(img)
  BY DEF DirectoryInv, Editable
<1>2. CASE MakeExtractDir
  <2>1. /\ spc' \in {"extract", "failed"} /\ dir' \in {EmptyDir, dir} /\ spc = "start"
        /\ UNCHANGED <<xpc, xpos, xskip>>
    BY <1>2 DEF MakeExtractDir, Fail
  <2>2. xpc' = "start" /\ xskip' = 0
    BY <1>0, <1>1, <2>1 DEF FlagsOK, Stepped
  <2>3. Positions' /\ PartsCut' /\ Stepped' /\ ArchiveCut'
    BY <1>i, <1>1, <2>1, <2>2, CutBefore
  <2>4. StaleArchive'
    BY <1>i, <1>1, <2>1 DEF StaleArchive, Exists, EmptyDir, Names, Payloads
  <2>5. QED
    BY <2>1, <2>3, <2>4 DEF Packing
<1>3. CASE RunExtract
  <2>1. ExtractNext /\ spc = "extract" /\ spc' = "extract"
    BY <1>3 DEF RunExtract, sessionVars
  <2>2. Progress
    BY <1>1, <2>1 DEF Progress, Early
  <2>3. Progress' /\ StaleArchive'
    BY <1>0, <1>1, <2>1, <2>2, ProgressStep, StaleStep
  <2>4. QED
    BY <2>1, <2>3 DEF Progress, Packing
<1>4. CASE Pack
  <2>1. UNCHANGED <<xpc, xpos, xskip>> /\ spc = "pack" /\ spc' \in {"repack", "failed"}
    BY <1>4 DEF Pack, Fail
  <2>2. \A n \in Names \ {"ramdisk.gz"} : dir'[n] = dir[n]
    <3>1. UNCHANGED dir \/ (\E b : dir' = [dir EXCEPT !["ramdisk.gz"] = b])
      BY <1>4 DEF Pack
    <3>2. QED
      BY <1>0, <3>1 DEF DirType
  <2>3. Positions' /\ PartsCut' /\ Stepped'
    BY <1>i, <1>1, <2>1, <2>2, CutStays
  <2>4. CASE UNCHANGED dir /\ spc' = "failed"
    BY <1>i, <1>1, <2>3, <2>4 DEF StaleArchive, Exists, Early, Packing
  <2>5. CASE \E n \in EditedSizes : dir' = [dir EXCEPT !["ramdisk.gz"] = PackedRamdisk(n)]
    <3>1. PICK n \in EditedSizes : dir' = [dir EXCEPT !["ramdisk.gz"] = PackedRamdisk(n)]
      BY <2>5
    <3>2. dir'["ramdisk.gz"] = PackedRamdisk(n)
      BY <1>0, <3>1 DEF DirType, Names, Payloads
    <3>3. n \in Nat /\ n > 0
      BY EditedSizesAssumption, U32Assumption
    <3>4. Unpacked
      BY <1>1, <2>1
    <3>5. PackedRamdisk(n).what = [fmt |-> Archive(img).fmt, id |-> "edited"]
          /\ PackedRamdisk(n).len > 0
      BY <3>3, <3>4 DEF PackedRamdisk, Unpacked
    <3>6. Packed' /\ StaleArchive'
      BY <1>i, <3>2, <3>4, <3>5 DEF Packed, StaleArchive, Unpacked
    <3>7. QED
      BY <2>1, <2>3, <3>6 DEF Early
  <2>6. QED
    BY <1>4, <2>4, <2>5 DEF Pack, Fail
<1>5. CASE RunRepack
  <2>1. UNCHANGED <<dir, xpc, xpos, xskip, spc>>
    BY <1>5, RepackReads DEF RunRepack, sessionVars
  <2>2. Positions' /\ PartsCut' /\ Stepped'
    BY <1>i, <1>1, <2>1, CutStays
  <2>3. spc = "repack"
    BY <1>5 DEF RunRepack
  <2>4. QED
    BY <1>i, <1>1, <2>1, <2>2, <2>3 DEF StaleArchive, Exists, Early, Packed, Packing
<1>6. CASE ScriptOnly \/ UNCHANGED vars
  <2>1. UNCHANGED <<dir, xpc, xpos, xskip>>
    BY <1>6, ScriptOnlyFrame DEF vars, toolVars
  <2>2. Positions' /\ PartsCut' /\ Stepped'
    BY <1>i, <1>1, <2>1, CutStays
  <2>3. StaleArchive' /\ (ArchiveCut => ArchiveCut') /\ (Unpacked => Unpacked') /\ (Packed => Packed')
    BY <1>i, <1>1, <2>1
    DEF StaleArchive, ArchiveCut, RamdiskCut, RamdiskName, OneByteShort, Slice, Unpacked,
        Packed, Exists
  <2>4. /\ (spc' \in Early => spc \in Early)
        /\ (spc' \in Packing => spc \in Packing)
        /\ (spc' \in {"edit", "pack"} => spc \in {"edit", "pack"} \/ (Unpack /\ spc' = "edit"))
    BY <1>6 DEF ScriptOnly, vars, sessionVars, Early, Packing,
      ExtractReturned, Unpack, RunChanges, RepackReturned, StartCopy, EndCopy,
      StartSigning, EndSigning, CustomPatch, SamsungLine, Kill, Fail
  <2>5. ASSUME Unpack, spc' = "edit" PROVE Unpacked
    <3>1. /\ spc = "unpack"
          /\ Exists("ramdisk.gz") => dir["ramdisk.gz"].what.fmt = "gzip"
      BY <2>5 DEF Unpack, Unpackable, Fail
    <3>2. xpc = "done" /\ ArchiveCut
      BY <1>0, <1>1, <3>1 DEF FlagsOK, Extracted, Early
    <3>3. /\ RamdiskCut /\ xskip = MtkLen(img) /\ Archive(img).fmt \in {"gzip", "lzma"}
          /\ RamdiskName = IF Archive(img).fmt = "gzip" THEN "ramdisk.gz" ELSE "ramdisk.lzma"
      BY <1>0, <1>1, <3>2, SteppedOnce DEF ArchiveCut, PastRamdisk
    <3>4. CASE Archive(img).fmt = "gzip"
      <4>1. dir["ramdisk.gz"].len >= 0
        <5>1. /\ dir["ramdisk.gz"] =
                   IF OneByteShort THEN Empty
                   ELSE Slice(RamdiskPos(img.hdr) + xskip, img.hdr.ramdisk_size - xskip)
              /\ OneByteShort \/ xskip <= img.hdr.ramdisk_size
          BY <3>3, <3>4 DEF RamdiskCut
        <5>2. xskip \in Nat /\ img.hdr.ramdisk_size \in Nat
          BY <1>0, HdrType DEF ExtractTyped, ExtractTypeOK
        <5>3. QED
          BY <5>1, <5>2 DEF Empty, Slice
      <4>2. dir["ramdisk.gz"] # NoFile
        BY <4>1 DEF NoFile
      <4>3. QED
        BY <3>4, <4>2 DEF Unpacked, Exists
    <3>5. CASE Archive(img).fmt = "lzma"
      <4>1. ~Exists("ramdisk.gz")
        BY <1>1, <3>1, <3>5 DEF StaleArchive
      <4>2. QED
        BY <3>5, <4>1 DEF Unpacked
    <3>6. QED
      BY <3>3, <3>4, <3>5
  <2>6. QED
    BY <1>1, <2>2, <2>3, <2>4, <2>5
<1>7. CASE Again
  <2>1. xpc' = "start" /\ xskip' = 0 /\ dir' = dir /\ spc' = "start"
    BY <1>7 DEF Again, ResetSession
  <2>2. Positions' /\ PartsCut' /\ Stepped' /\ ArchiveCut'
    BY <1>i, <1>1, <2>1, CutBefore
  <2>3. QED
    BY <1>i, <1>1, <2>1, <2>2 DEF StaleArchive, Exists, Packing
<1>8. QED
  BY <1>2, <1>3, <1>4, <1>5, <1>6, <1>7, SessionMoves

-----------------------------------------------------------------------------
(***************************************************************************)
(* The image that is built.                                                *)
(***************************************************************************)
LEMMA BuiltAtStart ==
    ASSUME RepackTyped, RepackNext, rpc' # "exit1", rpc # "open" => out.magicAt = {0}
    PROVE  out'.magicAt = {0} /\ rpc' # "open" /\ rpc # "exit1"
<1>0. /\ out = [size |-> out.size, magicAt |-> out.magicAt, chromeos |-> out.chromeos,
                sign |-> out.sign, hdr |-> out.hdr, at |-> out.at]
  BY DEF RepackTyped, RepackTypeOK, IsImage
<1>1. CASE CreateImage
  BY <1>1 DEF CreateImage, NoImage
<1>2. ASSUME NEW name, NEW fld, NEW next, AppendFile(name, fld, next), rpc # "open"
      PROVE  out'.magicAt = {0}
  <2>1. PICK at, n : out' = [out EXCEPT !.at = at, !.hdr[fld] = n]
    BY <1>2, ZenonT(40) DEF AppendFile
  <2>2. out'.magicAt = out.magicAt
    BY <1>0, <2>1
  <2>3. QED
    BY <1>2, <2>2
<1>3. CASE AppendKernel
  BY <1>2, <1>3, ZenonT(40) DEF AppendKernel, AppendFile
<1>4. CASE AppendRamdisk
  BY <1>2, <1>4, ZenonT(40) DEF AppendRamdisk, AppendFile
<1>5. CASE AppendMtkRamdisk
  <2>1. PICK at, n : out' = [out EXCEPT !.at = at, !.hdr.ramdisk_size = n]
    BY <1>5, ZenonT(40) DEF AppendMtkRamdisk
  <2>2. out'.magicAt = out.magicAt
    BY <1>0, <2>1
  <2>3. QED
    BY <1>5, <2>2, ZenonT(40) DEF AppendMtkRamdisk
<1>6. CASE AppendSecond
  BY <1>2, <1>6, ZenonT(40) DEF AppendSecond, AppendFile
<1>7. CASE AppendDt
  BY <1>2, <1>7, ZenonT(40) DEF AppendDt, AppendFile
<1>8. CASE PostProcess
  BY <1>0, <1>8 DEF PostProcess
<1>9. QED
  BY <1>1, <1>3, <1>4, <1>5, <1>6, <1>7, <1>8 DEF RepackNext

LEMMA RebuildStep ==
    ASSUME ToolTypes, ToolTypes', RebuildInv, [FlashNext]_flashVars
    PROVE  RebuildInv'
<1>0. /\ RepackTyped /\ RepackTyped' /\ LaidOutInv /\ MtkHeaderInv
      /\ rpc \notin {"open", "exit1"} => out.magicAt = {0}
      /\ spc \in Early => rpc = "open"
      /\ spc \in {"copy", "copying"} => rpc = "done"
  BY DEF ToolTypes, RebuildInv
<1>1. CASE MakeExtractDir \/ RunExtract \/ Pack
  <2>1. UNCHANGED <<rpc, rpos, out>> /\ spc \in Early /\ spc' \notin {"copy", "copying"}
    BY <1>1 DEF MakeExtractDir, RunExtract, Pack, Fail, Early, sessionVars
  <2>2. QED
    BY <1>0, <2>1 DEF RebuildInv, LaidOutInv, MtkHeaderInv
<1>2. CASE RunRepack
  <2>1. RepackNext /\ spc = "repack" /\ spc' = "repack"
    BY <1>2 DEF RunRepack, sessionVars
  <2>2. LaidOutInv' /\ MtkHeaderInv'
    BY <1>0, <2>1, LaidOutStep, MtkHeaderStep
  <2>3. rpc' \notin {"open", "exit1"} => out'.magicAt = {0}
    <3>1. rpc # "exit1"
      BY <2>1, ZenonT(40) DEF RepackNext, CreateImage, AppendKernel, AppendRamdisk, AppendMtkRamdisk,
         AppendSecond, AppendDt, PostProcess
    <3>2. QED
      BY <1>0, <2>1, <3>1, BuiltAtStart
  <2>4. QED
    BY <2>1, <2>2, <2>3 DEF RebuildInv, Early
<1>3. CASE ScriptOnly \/ UNCHANGED vars
  <2>1. UNCHANGED toolVars
    BY <1>3, ScriptOnlyFrame DEF vars, toolVars
  <2>2. UNCHANGED repackVars
    BY <2>1 DEF toolVars, repackVars
  <2>3. LaidOutInv' /\ MtkHeaderInv'
    BY <1>0, <2>2, LaidOutStep, MtkHeaderStep
  <2>4. /\ spc' \in Early => spc \in Early
        /\ spc' \in {"copy", "copying"} => spc \in {"copy", "copying"} \/ rpc = "done"
    BY <1>3 DEF ScriptOnly, vars, sessionVars, Early,
      ExtractReturned, Unpack, RunChanges, RepackReturned, StartCopy, EndCopy,
      StartSigning, EndSigning, CustomPatch, SamsungLine, Kill, Fail
  <2>5. QED
    BY <1>0, <2>2, <2>3, <2>4 DEF RebuildInv, repackVars
<1>4. CASE Again
  BY <1>4 DEF Again, ResetSession, RebuildInv, LaidOutInv, MtkHeaderInv
<1>5. QED
  BY <1>1, <1>2, <1>3, <1>4, SessionMoves

(***************************************************************************)
(* The image that is delivered.                                            *)
(***************************************************************************)
LEMMA HomeStep ==
    ASSUME SessionInv, ToolTypes, ScriptTypes, DirectoryInv, RebuildInv, HomeInv,
           ShortWrites = FALSE, [FlashNext]_flashVars
    PROVE  HomeInv'
<1>i. img' = img
  BY SessionMoves, ExtractReads, RepackReads, ScriptOnlyFrame
  DEF MakeExtractDir, RunExtract, Pack, RunRepack, Again, ResetSession, vars, toolVars
<1> SUFFICES ASSUME Editable(img), spc' \in Delivered
             PROVE  EditOf(img, home'.img) /\ WellFormed(home'.img) /\ home'.img.magicAt = {0}
  BY <1>i DEF HomeInv
<1>1. CASE EndCopy
  <2>1. spc = "copying" /\ home' = [state |-> "whole", img |-> out]
    BY <1>1 DEF EndCopy, Fail, Delivered
  <2>2. /\ FlagsOK /\ ExtractTyped /\ RepackTyped /\ rpc = "done" /\ out.magicAt = {0}
        /\ PartsCut /\ Stepped /\ Packed /\ LaidOutInv /\ MtkHeaderInv
    BY <2>1 DEF SessionInv, ToolTypes, DirectoryInv, RebuildInv, Packing
  <2>3. xpc = "done"
    BY <2>1, <2>2 DEF FlagsOK, Extracted
  <2>4. EditOf(img, out) /\ WellFormed(out)
    BY <2>2, <2>3, RebuiltEdited
  <2>5. QED
    BY <2>1, <2>2, <2>4
<1>2. CASE CustomPatch \/ SamsungLine
  <2>1. spc \in Delivered
    BY <1>2 DEF CustomPatch, SamsungLine, Fail, Delivered
  <2>2. EditOf(img, home.img) /\ WellFormed(home.img) /\ home.img.magicAt = {0}
    BY <2>1 DEF HomeInv
  <2>3. /\ IsImage(home.img) /\ IsImage(home'.img)
        /\ home'.img.hdr = home.img.hdr /\ home'.img.at = home.img.at
        /\ home'.img.magicAt = home.img.magicAt /\ home'.img.size >= home.img.size
    BY <1>2, HomeMoves DEF SessionInv, ScriptTypes
  <2>4. EditOf(img, home'.img)
    BY <2>2, <2>3 DEF EditOf, SamePart, MtkLen, Archive
  <2>5. WellFormed(home'.img)
    <3>1. /\ home.img.hdr.page_size \in PageSizes
          /\ home.img.hdr.kernel_size > 0 /\ home.img.hdr.ramdisk_size > 0
          /\ EndPos(home.img.hdr) <= home.img.size
      BY <2>2, <2>3, HeaderFirst
    <3>2. /\ home.img.hdr \in Header /\ home.img.size \in Nat /\ home'.img.size \in Nat
      BY <2>3 DEF IsImage
    <3>3. EndPos(home.img.hdr) \in Nat
      BY <3>1, <3>2, Layout
    <3>4. EndPos(home'.img.hdr) <= home'.img.size
      BY <2>3, <3>1, <3>2, <3>3
    <3>5. QED
      BY <2>2, <2>3, <3>1, <3>4, HeaderFirst
  <2>6. QED
    BY <2>2, <2>3, <2>4, <2>5
<1>3. CASE ~EndCopy /\ ~CustomPatch /\ ~SamsungLine
  <2>1. spc \in Delivered /\ home' = home
    BY <1>3, SessionMoves
    DEF Delivered, MakeExtractDir, RunExtract, Pack, RunRepack, ScriptOnly, Again, ResetSession,
        vars, sessionVars, ExtractReturned, Unpack, RunChanges, RepackReturned, StartCopy,
        StartSigning, EndSigning, Kill, Fail
  <2>2. QED
    BY <2>1 DEF HomeInv
<1>4. QED
  BY <1>1, <1>2, <1>3

-----------------------------------------------------------------------------
(***************************************************************************)
(* The invariants hold at the start and are kept.                          *)
(***************************************************************************)
LEMMA TypesInit == FlashInit => ToolTypes /\ ScriptTypes
<1> SUFFICES ASSUME FlashInit PROVE ToolTypes /\ ScriptTypes
  OBVIOUS
<1>1. /\ ExtractInit /\ RepackStart /\ spc = "start" /\ work = {} /\ chromeos = FALSE
      /\ keys \in BOOLEAN /\ restarts = 0
      /\ home \in {File0("absent"), File0("stale")} /\ signed \in {File0("absent"), File0("stale")}
  BY DEF FlashInit, Init
<1>2. ExtractTyped /\ Fits(img)
  BY <1>1, ExtractTypedInit, ImagesFitAssumption DEF ExtractInit
<1>3. Small
  BY <1>1, U32Assumption DEF ExtractInit, EmptyDir, Small, NoFile, MtkHdrLen
<1>4. RepackTyped
  BY <1>1, <1>2, <1>3, NoImageType
  DEF RepackStart, RepackTyped, RepackTypeOK, Created, RStages, ExtractTyped, ExtractTypeOK
<1>5. /\ home.state \in Artefact /\ IsImage(home.img)
      /\ signed.state \in Artefact /\ IsImage(signed.img)
  BY <1>1, File0Type DEF Artefact
<1>6. spc \in SStages \cup SEnds /\ chromeos \in BOOLEAN /\ work \in SUBSET {"bootimg_extract", "d2"}
  BY <1>1 DEF SStages
<1>7. restarts \in 0 .. MaxRestarts
  BY <1>1, MaxRestartsAssumption
<1>8. ScriptTypes
  BY <1>1, <1>5, <1>6, <1>7 DEF ScriptTypes
<1>9. QED
  BY <1>2, <1>4, <1>8 DEF ToolTypes

LEMMA EditInvInit == FlashInit => EditInv
<1> SUFFICES ASSUME FlashInit PROVE EditInv
  OBVIOUS
<1>1. ExtractInit /\ RepackStart /\ spc = "start"
  BY DEF FlashInit, Init
<1>2. DirectoryInv
  <2>1. Positions /\ PartsCut /\ Stepped /\ ArchiveCut
    BY <1>1, ProgressInit DEF ExtractInit, Progress
  <2>2. StaleArchive
    BY <1>1 DEF ExtractInit, StaleArchive, Exists, EmptyDir, Names, Payloads
  <2>3. QED
    BY <1>1, <2>1, <2>2 DEF DirectoryInv, Packing
<1>3. RebuildInv
  BY <1>1 DEF RepackStart, RebuildInv, LaidOutInv, MtkHeaderInv
<1>4. HomeInv
  BY <1>1 DEF HomeInv, Delivered
<1>5. QED
  BY <1>2, <1>3, <1>4, SessionInvInit, TypesInit DEF EditInv

LEMMA EditInvStep ==
    ASSUME ShortWrites = FALSE, EditInv, [FlashNext]_flashVars
    PROVE  EditInv'
<1>1. /\ SessionInv /\ ToolTypes /\ ScriptTypes /\ DirectoryInv /\ RebuildInv /\ HomeInv
  BY DEF EditInv
<1>2. SessionInv' /\ ToolTypes' /\ ScriptTypes'
  BY <1>1, SessionInvStep, ToolTypesStep, ScriptTypesStep
<1>3. DirectoryInv'
  BY <1>1, DirectoryStep
<1>4. RebuildInv'
  BY <1>1, <1>2, RebuildStep
<1>5. HomeInv'
  BY <1>1, HomeStep, Zenon
<1>6. QED
  BY <1>2, <1>3, <1>4, <1>5 DEF EditInv

PartTypes ==
    /\ caller \in {"user", "recovery"} /\ fpc \in FStages \cup FEnds
    /\ part.state \in {"original", "torn", "flashed"} /\ IsImage(part.img)

TypesInv == SessionInv /\ ToolTypes /\ ScriptTypes /\ PartTypes

LEMMA PartTypesStep ==
    ASSUME ScriptTypes, PartTypes, [FlashNext]_flashVars
    PROVE  PartTypes'
<1>1. /\ caller' = caller /\ fpc' \in FStages \cup FEnds
      /\ \/ part' \in {part, [state |-> "torn", img |-> NoImage]}
         \/ part' = [state |-> "flashed", img |-> home.img]
  BY DEF PartTypes, FlashNext, flashVars, FindPartition, RunSession, StartDd, EndDd, PowerLoss,
     Reinstall, FStages, FEnds
<1>2. CASE part' = part
  BY <1>1, <1>2 DEF PartTypes
<1>3. CASE part' = [state |-> "torn", img |-> NoImage]
  BY <1>1, <1>3, NoImageType DEF PartTypes
<1>4. CASE part' = [state |-> "flashed", img |-> home.img]
  BY <1>1, <1>4 DEF PartTypes, ScriptTypes
<1>5. QED
  BY <1>1, <1>2, <1>3, <1>4

LEMMA TypesInvInit == FlashInit => TypesInv
<1> SUFFICES ASSUME FlashInit PROVE PartTypes
  BY SessionInvInit, TypesInit DEF TypesInv
<1>1. part = Original /\ caller \in {"user", "recovery"} /\ fpc \in {"find", "session"}
  BY DEF FlashInit
<1>2. part.state = "original" /\ IsImage(part.img)
  BY <1>1, NoImageType DEF Original
<1>3. QED
  BY <1>1, <1>2 DEF PartTypes, FStages

LEMMA TypesInvStep == TypesInv /\ [FlashNext]_flashVars => TypesInv'
  BY SessionInvStep, ToolTypesStep, ScriptTypesStep, PartTypesStep DEF TypesInv

(***************************************************************************)
(* FlashTypeCorrect: the sizes a session computes stay within their types  *)
(* through any number of runs, and the scripts only reach their stages.    *)
(***************************************************************************)
THEOREM FlashTypeCorrect == FlashSpec => []FlashTypeOK
<1>1. TypesInv => FlashTypeOK
  BY DEF TypesInv, ToolTypes, ScriptTypes, PartTypes, ExtractTyped, RepackTyped, SessionTypeOK,
     FlashTypeOK
<1>2. QED
  BY <1>1, TypesInvInit, TypesInvStep, PTL DEF FlashSpec

-----------------------------------------------------------------------------
(***************************************************************************)
(* The words of the promise are those of module BootImg.                   *)
(***************************************************************************)
LEMMA PromiseBlobAt == \A at, p : Promise!BlobAt(at, p) = BlobAt(at, p)
  BY DEF Promise!BlobAt, BlobAt, Promise!Junk, Junk

LEMMA PromisePositions ==
    \A h : /\ Promise!KernelPos(h) = KernelPos(h) /\ Promise!RamdiskPos(h) = RamdiskPos(h)
           /\ Promise!SecondPos(h) = SecondPos(h) /\ Promise!DtPos(h) = DtPos(h)
           /\ Promise!EndPos(h) = EndPos(h)
  BY DEF Promise!KernelPos, Promise!RamdiskPos, Promise!SecondPos, Promise!DtPos, Promise!EndPos,
         Promise!KernelPage, Promise!RamdiskPage, Promise!SecondPage, Promise!DtPage,
         Promise!EndPage, Promise!Pages,
         KernelPos, RamdiskPos, SecondPos, DtPos, EndPos,
         KernelPage, RamdiskPage, SecondPage, DtPage, EndPage, Pages

LEMMA PromiseMtk ==
    \A i : Promise!MtkLen(i) = MtkLen(i) /\ Promise!Archive(i) = Archive(i)
  BY PromiseBlobAt, PromisePositions
  DEF Promise!MtkLen, MtkLen, Promise!Archive, Archive, Promise!MtkFlavours, MtkFlavours,
      Promise!MtkHdrLen, MtkHdrLen

LEMMA PromiseWellFormed == \A i : Promise!WellFormed(i) <=> WellFormed(i)
  BY PromisePositions
  DEF Promise!WellFormed, WellFormed, Promise!HasHeader, HasHeader, Promise!HeaderAt, HeaderAt,
      Promise!HeaderOffsets, HeaderOffsets, Promise!SearchStep, SearchStep,
      Promise!PageSizes, PageSizes

LEMMA PromiseEditable == \A i : Promise!Editable(i) <=> Editable(i)
  BY PromiseMtk, PromiseWellFormed
  DEF Promise!Editable, Editable, Promise!OneMtkHeader, OneMtkHeader,
      Promise!MtkFlavours, MtkFlavours

LEMMA PromiseEditOf == \A i, j : Promise!EditOf(i, j) <=> EditOf(i, j)
<1>1. \A i, n, p, j, m, q : Promise!SamePart(i, n, p, j, m, q) <=> SamePart(i, n, p, j, m, q)
  BY PromiseBlobAt DEF Promise!SamePart, SamePart
<1>2. \A i : Promise!CarriesDt(i) <=> CarriesDt(i)
  BY PromiseBlobAt, PromisePositions DEF Promise!CarriesDt, CarriesDt
<1>3. QED
  BY <1>1, <1>2, PromiseBlobAt, PromisePositions, PromiseMtk DEF Promise!EditOf, EditOf

\* How the script's stages look to its caller.
LEMMA VerdictIs ==
    /\ spc \in SStages => Verdict = "running"
    /\ spc \in {"failed", "killed"} => Verdict = "failed"
    /\ spc = "ok" => Verdict = IF home.state = "custom" THEN "custom" ELSE "ok"
  BY DEF Verdict, SStages

\* Only the script's last step ends it well, and a script that has ended well
\* does not go on.
LEMMA EndingSteps ==
    ASSUME ScriptTypes, [FlashNext]_flashVars
    PROVE  \/ spc \in SStages /\ spc' \in SStages
           \/ spc \in SStages /\ spc' \in {"failed", "killed"}
           \/ SamsungLine /\ spc = "samsung" /\ spc' = "ok"
           \/ spc \in {"failed", "killed"} /\ spc' = "start"
           \/ spc \in SEnds /\ spc' = spc /\ home' = home
<1>0. spc \in SStages \cup SEnds
  BY DEF ScriptTypes
<1>1. CASE MakeExtractDir \/ RunExtract \/ Pack \/ RunRepack
  BY <1>1 DEF MakeExtractDir, RunExtract, Pack, RunRepack, Fail, sessionVars, SStages
<1>2. CASE ScriptOnly
  BY <1>2 DEF ScriptOnly, ExtractReturned, Unpack, RunChanges, RepackReturned, StartCopy, EndCopy,
     StartSigning, EndSigning, CustomPatch, SamsungLine, Kill, Fail, SStages
<1>3. CASE Again
  BY <1>3 DEF Again, ResetSession
<1>4. CASE UNCHANGED vars
  BY <1>0, <1>4 DEF vars, sessionVars
<1>5. QED
  BY <1>1, <1>2, <1>3, <1>4, SessionMoves

(***************************************************************************)
(* SessionEditsAsPromised: where no write is cut short unnoticed, the      *)
(* script implements its promise (module ImageEdit), whoever starts it,    *)
(* and however often it fails, is killed and is started again in what an   *)
(* earlier run has left: the step in which it ends well delivers the       *)
(* original image with the changed archive in place of its own, and        *)
(* nothing but that step delivers anything.                                *)
(***************************************************************************)
THEOREM SessionEditsAsPromised ==
    ASSUME ShortWrites = FALSE
    PROVE  FlashSpec => EditsAsPromised
<1>1. FlashInit => Promise!Init
  BY VerdictIs DEF FlashInit, Init, Promise!Init, SStages
<1>2. EditInv /\ EditInv' /\ [FlashNext]_flashVars =>
         [Promise!Next]_<<img, Verdict, IF spc = "ok" THEN home.img ELSE NoImage>>
  <2> SUFFICES ASSUME EditInv, EditInv', [FlashNext]_flashVars
               PROVE  [Promise!Next]_<<img, Verdict, IF spc = "ok" THEN home.img ELSE NoImage>>
    OBVIOUS
  <2>1. img' = img
    BY SessionMoves, ExtractReads, RepackReads, ScriptOnlyFrame
    DEF MakeExtractDir, RunExtract, Pack, RunRepack, Again, ResetSession, vars, toolVars
  <2>2. /\ spc' \in SStages => Verdict' = "running"
        /\ spc' \in {"failed", "killed"} => Verdict' = "failed"
        /\ spc' = "ok" => Verdict' = IF home'.state = "custom" THEN "custom" ELSE "ok"
    BY DEF Verdict, SStages
  <2>3. CASE spc \in SStages /\ spc' \in SStages
    BY <2>1, <2>2, <2>3, VerdictIs DEF SStages
  <2>4. CASE spc \in SStages /\ spc' \in {"failed", "killed"}
    <3>1. Promise!Fail
      BY <2>1, <2>2, <2>4, VerdictIs DEF Promise!Fail, SStages
    <3>2. QED
      BY <3>1 DEF Promise!Next
  <2>5. CASE SamsungLine /\ spc = "samsung" /\ spc' = "ok"
    <3>1. Verdict = "running"
      BY <2>5, VerdictIs DEF SStages
    <3>2. Editable(img) => EditOf(img, home'.img) /\ WellFormed(home'.img)
      BY <2>1, <2>5 DEF EditInv, HomeInv, Delivered
    <3>3. CASE home'.state = "custom"
      <4>1. Promise!UserPatched
        BY <2>1, <2>2, <2>5, <3>1, <3>3 DEF Promise!UserPatched
      <4>2. QED
        BY <4>1 DEF Promise!Next
    <3>4. CASE home'.state # "custom"
      <4>1. Promise!Editable(img) => Promise!EditOf(img, home'.img) /\ Promise!WellFormed(home'.img)
        BY <3>2, PromiseEditable, PromiseEditOf, PromiseWellFormed
      <4>2. Promise!Succeed
        BY <2>1, <2>2, <2>5, <3>1, <3>4, <4>1 DEF Promise!Succeed
      <4>3. QED
        BY <4>2 DEF Promise!Next
    <3>5. QED
      BY <3>3, <3>4
  <2>6. CASE spc \in {"failed", "killed"} /\ spc' = "start"
    <3>1. Promise!Retry
      BY <2>1, <2>2, <2>6, VerdictIs DEF Promise!Retry, SStages
    <3>2. QED
      BY <3>1 DEF Promise!Next
  <2>7. CASE spc \in SEnds /\ spc' = spc /\ home' = home
    BY <2>1, <2>2, <2>7, VerdictIs DEF SEnds
  <2>8. QED
    BY <2>3, <2>4, <2>5, <2>6, <2>7, EndingSteps DEF EditInv
<1>3. EditInv /\ [FlashNext]_flashVars => EditInv'
  BY EditInvStep, Zenon
<1>4. QED
  BY <1>1, <1>2, <1>3, EditInvInit, PTL DEF FlashSpec, EditsAsPromised, Promise!Spec, Promise!editVars

LEMMA PartitionStep ==
    ASSUME ScriptTypes, PartitionInv, [FlashNext]_flashVars
    PROVE  PartitionInv'
<1>0. /\ caller \in {"user", "recovery"} /\ fpc \in FStages \cup FEnds
      /\ fpc \in {"find", "session"} => part = Original
      /\ fpc \in {"dd", "done"} => spc = "ok"
      /\ part # Original => spc = "ok" /\ fpc \notin {"find", "session"}
      /\ fpc = "done" => part = [state |-> "flashed", img |-> home.img]
      /\ part.state \in {"original", "torn", "flashed"} /\ IsImage(part.img)
      /\ part.state = "original" => part = Original
  BY DEF PartitionInv
<1>1. CASE RunSession
  <2>1. fpc = "session" /\ UNCHANGED <<caller, fpc, part>>
    BY <1>1 DEF RunSession
  <2>2. QED
    BY <1>0, <2>1 DEF PartitionInv
<1>2. CASE FindPartition \/ PowerLoss \/ UNCHANGED flashVars
  <2>1. UNCHANGED <<spc, home, caller, part>> /\ fpc' \in {fpc, "session", "failed", "killed"}
        /\ (fpc' = "session" => fpc \in {"find", "session"})
    BY <1>2 DEF FindPartition, PowerLoss, flashVars, vars, sessionVars
  <2>2. QED
    BY <1>0, <2>1 DEF PartitionInv, FStages, FEnds
<1>3. CASE StartDd
  <2>1. UNCHANGED <<spc, home, caller>> /\ fpc = "session"
    BY <1>3 DEF StartDd, vars, sessionVars
  <2>2. CASE spc = "ok"
    <3>1. fpc' = "dd" /\ part' = [state |-> "torn", img |-> NoImage]
      BY <1>3, <2>2 DEF StartDd
    <3>2. part'.state = "torn" /\ IsImage(part'.img)
      BY <3>1, NoImageType
    <3>3. QED
      BY <1>0, <2>1, <2>2, <3>1, <3>2 DEF PartitionInv, FStages
  <2>3. CASE spc # "ok"
    <3>1. fpc' = "failed" /\ part' = part
      BY <1>3, <2>3 DEF StartDd
    <3>2. QED
      BY <1>0, <2>1, <3>1 DEF PartitionInv, FEnds
  <2>4. QED
    BY <2>2, <2>3
<1>4. CASE EndDd
  <2>1. UNCHANGED <<spc, home, caller>> /\ spc = "ok"
    BY <1>0, <1>4 DEF EndDd, vars, sessionVars
  <2>2. CASE fpc' = "done" /\ part' = [state |-> "flashed", img |-> home.img]
    <3>1. part'.state = "flashed" /\ part'.img = home.img /\ IsImage(home.img)
      BY <2>2 DEF ScriptTypes
    <3>2. QED
      BY <1>0, <2>1, <2>2, <3>1 DEF PartitionInv, FEnds
  <2>3. CASE fpc' = "failed" /\ part' = part
    BY <1>0, <2>1, <2>3 DEF PartitionInv, FEnds
  <2>4. QED
    BY <1>4, <2>2, <2>3 DEF EndDd
<1>5. CASE Reinstall
  <2>1. fpc' = "find" /\ part = Original /\ part' = part /\ caller' = caller
    BY <1>5 DEF Reinstall
  <2>2. QED
    BY <1>0, <2>1 DEF PartitionInv, FStages
<1>6. QED
  BY <1>1, <1>2, <1>3, <1>4, <1>5 DEF FlashNext

LEMMA PartitionInit == FlashInit => PartitionInv
<1> SUFFICES ASSUME FlashInit PROVE PartitionInv
  OBVIOUS
<1>1. part = Original /\ caller \in {"user", "recovery"} /\ fpc \in {"find", "session"}
  BY DEF FlashInit
<1>2. part.state = "original" /\ IsImage(part.img)
  BY <1>1, NoImageType DEF Original
<1>3. QED
  BY <1>1, <1>2 DEF PartitionInv, FStages

(***************************************************************************)
(* FlashDdAfterSession: whatever the writes of repack do, the partition is *)
(* not touched before the session ended well, an installation that ended   *)
(* well has written what that session left in the home directory, and one  *)
(* that goes on or is repeated finds the partition intact up to its dd.    *)
(***************************************************************************)
THEOREM FlashDdAfterSession ==
    FlashSpec => [](/\ part.state # "original" => spc = "ok"
                    /\ fpc = "done" => part = [state |-> "flashed", img |-> home.img]
                    /\ fpc \in {"find", "session"} => part = Original)
<1>1. FlashInit => TypesInv /\ PartitionInv
  BY TypesInvInit, PartitionInit
<1>2. TypesInv /\ PartitionInv /\ [FlashNext]_flashVars => TypesInv' /\ PartitionInv'
  BY TypesInvStep, PartitionStep DEF TypesInv
<1>3. PartitionInv => /\ part.state # "original" => spc = "ok"
                      /\ fpc = "done" => part = [state |-> "flashed", img |-> home.img]
                      /\ fpc \in {"find", "session"} => part = Original
  BY DEF PartitionInv, Original
<1>4. QED
  BY <1>1, <1>2, <1>3, PTL DEF FlashSpec

(***************************************************************************)
(* FlashPartitionSafe: where no write is cut short unnoticed, dd has not   *)
(* begun before the session ended well, an installation that ended well    *)
(* has written the image that was promised, and the zip is installed again *)
(* only on an intact partition.                                            *)
(***************************************************************************)
THEOREM FlashPartitionSafe ==
    ASSUME ShortWrites = FALSE
    PROVE  FlashSpec => []PartitionSafe
<1>1. FlashInit => PartitionInv
  BY PartitionInit
<1>2. EditInv /\ PartitionInv /\ [FlashNext]_flashVars => EditInv' /\ PartitionInv'
  <2> SUFFICES ASSUME EditInv, PartitionInv, [FlashNext]_flashVars
               PROVE  EditInv' /\ PartitionInv'
    OBVIOUS
  <2>1. EditInv'
    BY EditInvStep, Zenon
  <2>2. PartitionInv'
    BY PartitionStep DEF EditInv
  <2>3. QED
    BY <2>1, <2>2
<1>3. EditInv /\ PartitionInv => PartitionSafe
  <2> SUFFICES ASSUME EditInv, PartitionInv PROVE PartitionSafe
    OBVIOUS
  <2>1. part.state # "original" => spc = "ok"
    BY DEF PartitionInv, Original
  <2>2. ASSUME fpc = "done"
        PROVE  part.state = "flashed" /\ (Editable(img) => EditOf(img, part.img) /\ WellFormed(part.img))
    <3>1. spc = "ok" /\ part = [state |-> "flashed", img |-> home.img]
      BY <2>2 DEF PartitionInv
    <3>2. Editable(img) => EditOf(img, home.img) /\ WellFormed(home.img)
      BY <3>1 DEF EditInv, HomeInv, Delivered
    <3>3. part.state = "flashed" /\ part.img = home.img
      BY <3>1
    <3>4. QED
      BY <3>2, <3>3
  <2>3. QED
    BY <2>1, <2>2 DEF PartitionSafe
<1>4. QED
  BY <1>1, <1>2, <1>3, EditInvInit, PTL DEF FlashSpec

=============================================================================
