---------------------------- MODULE ExtractProofs ----------------------------
(***************************************************************************)
(* Proofs about bootimg-extract, for every set of images.                  *)
(***************************************************************************)
EXTENDS Extract, BootImgProofs

\* Past the search, there is a header with a page size both tools know.
Parsed ==
    xpc \in {"kernel", "ramdisk", "second", "dt", "security", "done"} =>
        HasHeader(img) /\ img.hdr.page_size \in PageSizes

ExtractTyped == ExtractTypeOK /\ Parsed

(***************************************************************************)
(* A file that is dumped is a file, and only the one of that name changes. *)
(***************************************************************************)
LEMMA DumpType ==
    ASSUME IsImage(img), HasHeader(img), DirType,
           NEW name \in Names, NEW off \in Nat, NEW len \in Int, NEW next,
           Dump(name, off, len, next)
    PROVE  DirType' /\ xpc' \in {next, "abort"} /\ \A m \in Names \ {name} : dir'[m] = dir[m]
<1>1. BlobAt(img.at, off) \in Blob /\ Junk \in Blob
  BY BlobAtType, IdsAssumption DEF Junk, Blob, Formats
<1>2. PICK f \in File \cup {NoFile} : dir' = [dir EXCEPT ![name] = f]
  <2>0. \A b \in Blob, n \in Nat : [what |-> b, len |-> n] \in File
    BY DEF File
  <2>1. CASE /\ InFile(off, len)
             /\ dir' = [dir EXCEPT ![name] = [what |-> BlobAt(img.at, off), len |-> len]]
    <3>1. len \in Nat
      BY <2>1 DEF InFile
    <3>2. QED
      BY <1>1, <2>0, <2>1, <3>1
  <2>2. CASE len >= 0 /\ dir' = [dir EXCEPT ![name] = [what |-> Junk, len |-> len]]
    <3>1. len \in Nat
      BY <2>2
    <3>2. QED
      BY <1>1, <2>0, <2>2, <3>1
  <2>3. CASE \E n \in {0, InTheFile(off)} :
               dir' = [dir EXCEPT ![name] = [what |-> BlobAt(img.at, off), len |-> n]]
    <3>1. InTheFile(off) \in Nat
      BY HeaderFound DEF InTheFile, IsImage
    <3>2. QED
      BY <1>1, <2>0, <2>3, <3>1
  <2>4. CASE dir' = [dir EXCEPT ![name] = Empty] \/ dir' = [dir EXCEPT ![name] = NoFile]
    <3>1. Empty \in File
      BY <1>1 DEF Empty, File
    <3>2. QED
      BY <2>4, <3>1
  <2>5. QED
    BY <2>1, <2>2, <2>3, <2>4 DEF Dump
<1>3. DirType' /\ \A m \in Names \ {name} : dir'[m] = dir[m]
  BY <1>2 DEF DirType
<1>4. QED
  BY <1>3 DEF Dump

(***************************************************************************)
(* Raising flags keeps the directory a directory and touches nothing else. *)
(***************************************************************************)
LEMMA RaiseType ==
    ASSUME DirType, NEW flags, flags \subseteq Flags, dir' = Raise(flags)
    PROVE  /\ DirType' /\ \A m \in Payloads : dir'[m] = dir[m]
           /\ \A m \in Names \ flags : dir'[m] = dir[m]
           /\ \A m \in flags : Exists(m)' /\ dir'[m].len = 0
<1>1. Empty \in File /\ Empty # NoFile /\ Empty.len = 0
  BY IdsAssumption DEF Empty, NoFile, File, Junk, Blob, Formats
<1>2. \A m \in Payloads : m \notin flags /\ m \in Names
  BY DEF Payloads, Flags, Names
<1>3. DirType'
  BY <1>1 DEF DirType, Raise
<1>4. \A m \in Names \ flags : dir'[m] = dir[m]
  BY DEF Raise
<1>5. \A m \in flags : dir'[m] = Empty
  BY DEF Raise, Names
<1>6. QED
  BY <1>1, <1>2, <1>3, <1>4, <1>5 DEF Exists

(***************************************************************************)
(* So does failing to raise one.                                           *)
(***************************************************************************)
LEMMA FailType ==
    ASSUME DirType, NEW before, before \subseteq Flags, NEW flag \in Flags,
           FailToRaise(before, flag)
    PROVE  /\ DirType' /\ xpc' = "abort" /\ \A m \in Payloads : dir'[m] = dir[m]
           /\ \A m \in Names \ (before \cup {flag}) : dir'[m] = dir[m]
           /\ \A m \in Names : dir'[m] \in {dir[m], Empty, NoFile}
<1> DEFINE f == Raise(before)
<1>1. Empty \in File
  BY IdsAssumption DEF Empty, File, Junk, Blob, Formats
<1>2. f \in [Names -> File \cup {NoFile}]
  BY <1>1 DEF DirType, Raise
<1>3. /\ \A m \in Names \ before : f[m] = dir[m]
      /\ \A m \in Names : f[m] \in {dir[m], Empty}
  BY DEF Raise
<1>4. \A m \in Payloads : m \in Names /\ m \notin before /\ m # flag
  BY DEF Payloads, Flags, Names
<1> HIDE DEF f
<1>5. dir' = [f EXCEPT ![flag] = NoFile] /\ xpc' = "abort"
  BY DEF FailToRaise, f
<1>6. DirType'
  BY <1>2, <1>5 DEF DirType
<1>7. \A m \in Names : dir'[m] = IF m = flag THEN NoFile ELSE f[m]
  BY <1>2, <1>5
<1>8. QED
  BY <1>3, <1>4, <1>5, <1>6, <1>7

(***************************************************************************)
(* The flags of main(): each is raised, or main() ends.                    *)
(***************************************************************************)
MtkFlagNames == {"ramdisk-mtk", "ramdisk-mtk-boot", "ramdisk-mtk-recovery"}
OtherFlags   == {"chromeos", "rkcrc", "secure"}

LEMMA FlagSteps ==
    /\ (SearchSecurityHdr \/ SearchSecurity) =>
         \/ \E fs \in SUBSET OtherFlags : dir' = Raise(fs)
         \/ \E fs \in SUBSET OtherFlags, f \in OtherFlags : FailToRaise(fs, f)
    /\ StepOverMtkHeader =>
         \/ UNCHANGED <<dir, xskip>> /\ xpc' = "abort"
         \/ \E fs \in SUBSET MtkFlagNames : dir' = Raise(fs) /\ xpc' = xpc
         \/ UNCHANGED xskip /\ \E fs \in SUBSET MtkFlagNames, f \in MtkFlagNames :
                                  FailToRaise(fs, f)
    /\ OtherFlags \subseteq Flags /\ MtkFlagNames \subseteq Flags
    /\ OtherFlags \cap MtkFlagNames = {}
<1>1. ASSUME SearchSecurityHdr \/ SearchSecurity
      PROVE  \/ \E fs \in SUBSET OtherFlags : dir' = Raise(fs)
             \/ \E fs \in SUBSET OtherFlags, f \in OtherFlags : FailToRaise(fs, f)
  <2>1. CASE SearchSecurityHdr
    BY <2>1 DEF SearchSecurityHdr, OtherFlags
  <2>2. CASE SearchSecurity
    <3>1. PICK rkcrc \in SUBSET {"rkcrc"}, secure \in SUBSET {"secure"} :
            \/ dir' = Raise(rkcrc \cup secure)
            \/ FailToRaise({}, "rkcrc")
            \/ FailToRaise(rkcrc, "secure")
      BY <2>2 DEF SearchSecurity
    <3>2. /\ rkcrc \cup secure \in SUBSET OtherFlags /\ rkcrc \in SUBSET OtherFlags
          /\ {} \in SUBSET OtherFlags /\ {"rkcrc", "secure"} \subseteq OtherFlags
      BY DEF OtherFlags
    <3>3. QED
      BY <3>1, <3>2, Zenon
  <2>3. QED
    BY <1>1, <2>1, <2>2
<1>2. ASSUME StepOverMtkHeader
      PROVE  \/ UNCHANGED <<dir, xskip>> /\ xpc' = "abort"
             \/ \E fs \in SUBSET MtkFlagNames : dir' = Raise(fs) /\ xpc' = xpc
             \/ UNCHANGED xskip /\ \E fs \in SUBSET MtkFlagNames, f \in MtkFlagNames :
                                      FailToRaise(fs, f)
  <2>1. \A fmt : /\ {"ramdisk-mtk", FlavourFlag(fmt)} \in SUBSET MtkFlagNames
                 /\ {FlavourFlag(fmt)} \in SUBSET MtkFlagNames /\ {} \in SUBSET MtkFlagNames
                 /\ FlavourFlag(fmt) \in MtkFlagNames /\ "ramdisk-mtk" \in MtkFlagNames
    BY DEF FlavourFlag, MtkFlagNames
  <2>2. PICK fmt :
          \/ UNCHANGED <<dir, xskip>> /\ xpc' = "abort"
          \/ dir' = Raise({"ramdisk-mtk", FlavourFlag(fmt)}) /\ xpc' = xpc
          \/ UNCHANGED xskip /\ FailToRaise({}, FlavourFlag(fmt))
          \/ UNCHANGED xskip /\ FailToRaise({FlavourFlag(fmt)}, "ramdisk-mtk")
    BY <1>2 DEF StepOverMtkHeader
  <2>3. QED
    BY <2>1, <2>2, Zenon
<1>3. /\ OtherFlags \subseteq Flags /\ MtkFlagNames \subseteq Flags
      /\ OtherFlags \cap MtkFlagNames = {}
  BY DEF OtherFlags, MtkFlagNames, Flags
<1>4. QED
  BY <1>1, <1>2, <1>3

(***************************************************************************)
(* The fields of the header are numbers.                                   *)
(***************************************************************************)
LEMMA HdrType ==
    ASSUME IsImage(img)
    PROVE  /\ img.hdr \in Header /\ img.hdr.page_size \in Nat
           /\ img.hdr.kernel_size \in Nat /\ img.hdr.ramdisk_size \in Nat
           /\ img.hdr.second_size \in Nat /\ img.hdr.unused0 \in Nat /\ img.size \in Nat
  BY DEF IsImage, Header

(***************************************************************************)
(* The initial states satisfy the type invariant.                          *)
(***************************************************************************)
LEMMA ExtractTypedInit == ExtractInit => ExtractTyped
<1>1. ASSUME ExtractInit PROVE DirType
  BY <1>1 DEF ExtractInit, DirType, EmptyDir
<1>2. QED
  BY <1>1, ImagesAssumption
  DEF ExtractInit, ExtractStart, ExtractTyped, ExtractTypeOK, Parsed, XStages

(***************************************************************************)
(* Every step of main() keeps the type invariant.                          *)
(***************************************************************************)
LEMMA ExtractTypedStep == ExtractTyped /\ [ExtractNext]_extractVars => ExtractTyped'
<1> SUFFICES ASSUME ExtractTyped, [ExtractNext]_extractVars PROVE ExtractTyped'
  OBVIOUS
<1> DEFINE h == img.hdr
<1>0. /\ IsImage(img) /\ DirType /\ xpos \in Nat /\ xskip \in Nat /\ Parsed
      /\ xpc \in XStages \cup XEnds
  BY DEF ExtractTyped, ExtractTypeOK
<1>h. /\ h.page_size \in Nat /\ h.kernel_size \in Nat /\ h.ramdisk_size \in Nat
      /\ h.second_size \in Nat /\ h.unused0 \in Nat
  BY <1>0, HdrType
<1>f. ASSUME SearchSecurityHdr \/ SearchSecurity \/ StepOverMtkHeader PROVE DirType'
  <2>1. CASE UNCHANGED dir
    BY <1>0, <2>1 DEF DirType
  <2>2. CASE \E fs \in SUBSET Flags : dir' = Raise(fs)
    BY <1>0, <2>2, RaiseType
  <2>3. CASE \E fs \in SUBSET Flags, f \in Flags : FailToRaise(fs, f)
    BY <1>0, <2>3, FailType
  <2>4. OtherFlags \in SUBSET Flags /\ MtkFlagNames \in SUBSET Flags
    BY FlagSteps
  <2>5. QED
    BY <1>f, <2>1, <2>2, <2>3, <2>4, FlagSteps
<1>1. CASE SearchSecurityHdr
  <2>1. xpc' \in {"find", "abort"} /\ UNCHANGED <<img, xpos, xskip>>
    BY <1>1 DEF SearchSecurityHdr, FailToRaise
  <2>2. QED
    BY <1>0, <1>1, <1>f, <2>1 DEF ExtractTyped, ExtractTypeOK, Parsed, XStages, XEnds
<1>2. CASE FindHeader
  <2>1. DirType'
    BY <1>0, <1>2 DEF FindHeader, DirType
  <2>2. QED
    BY <1>0, <1>h, <1>2, <2>1
    DEF FindHeader, ExtractTyped, ExtractTypeOK, Parsed, XStages, XEnds
<1>3. CASE DumpKernel
  <2>1. xpc = "kernel" /\ Dump("kernel", xpos, h.kernel_size, "ramdisk")
        /\ xpos' = NextPage(xpos, h.kernel_size, h.page_size) /\ UNCHANGED <<img, xskip>>
    BY <1>3 DEF DumpKernel
  <2>2. HasHeader(img) /\ h.page_size \in PageSizes
    BY <1>0, <2>1 DEF Parsed
  <2>3. DirType' /\ xpc' \in {"ramdisk", "abort"}
    <3>1. "kernel" \in Names /\ h.kernel_size \in Int
      BY <1>h DEF Names, Payloads
    <3>2. QED
      BY <1>0, <2>1, <2>2, <3>1, DumpType
  <2>4. xpos' \in Nat
    BY <1>0, <1>h, <2>1, <2>2, NextPageAfter
  <2>5. QED
    BY <1>0, <2>1, <2>2, <2>3, <2>4 DEF ExtractTyped, ExtractTypeOK, Parsed, XStages, XEnds
<1>4. CASE DumpRamdisk
  <2>1. PICK name \in {"ramdisk.gz", "ramdisk.lzma", "ramdisk"}, next \in {"second", "abort"} :
          /\ xpc = "ramdisk" /\ Dump(name, xpos + xskip, h.ramdisk_size - xskip, next)
          /\ xpos' = NextPage(xpos, h.ramdisk_size, h.page_size) /\ UNCHANGED <<img, xskip>>
    BY <1>4 DEF DumpRamdisk
  <2>2. HasHeader(img) /\ h.page_size \in PageSizes
    BY <1>0, <2>1 DEF Parsed
  <2>3. DirType' /\ xpc' \in {next, "abort"}
    <3>1. xpos + xskip \in Nat /\ h.ramdisk_size - xskip \in Int /\ name \in Names
      BY <1>0, <1>h DEF Names, Payloads
    <3>2. QED
      BY <1>0, <2>1, <2>2, <3>1, DumpType
  <2>4. xpos' \in Nat
    BY <1>0, <1>h, <2>1, <2>2, NextPageAfter
  <2>5. QED
    BY <1>0, <2>1, <2>2, <2>3, <2>4 DEF ExtractTyped, ExtractTypeOK, Parsed, XStages, XEnds
<1>5. CASE StepOverMtkHeader
  <2>1. xskip' \in Nat
    BY <1>0, <1>5 DEF StepOverMtkHeader, MtkHdrLen
  <2>2. xpc = "ramdisk" /\ xpc' \in {"ramdisk", "abort"} /\ UNCHANGED <<img, xpos>>
    BY <1>5 DEF StepOverMtkHeader, FailToRaise
  <2>3. QED
    BY <1>0, <1>5, <1>f, <2>1, <2>2 DEF ExtractTyped, ExtractTypeOK, Parsed, XStages, XEnds
<1>6. CASE DumpSecond
  <2>1. xpc = "second" /\ UNCHANGED <<img, xskip>>
    BY <1>6 DEF DumpSecond
  <2>2. HasHeader(img) /\ h.page_size \in PageSizes
    BY <1>0, <2>1 DEF Parsed
  <2>3. DirType' /\ xpc' \in {"dt", "abort"} /\ xpos' \in Nat
    <3>1. CASE UNCHANGED <<dir, xpos>> /\ xpc' \in {"dt", "abort"}
      BY <1>0, <3>1 DEF DirType
    <3>2. CASE /\ Dump("second", xpos, h.second_size, "dt")
               /\ xpos' = NextPage(xpos, h.second_size, h.page_size)
      <4>0. "second" \in Names /\ h.second_size \in Int
        BY <1>h DEF Names, Payloads
      <4>1. DirType' /\ xpc' \in {"dt", "abort"}
        BY <1>0, <2>2, <3>2, <4>0, DumpType
      <4>2. xpos' \in Nat
        BY <1>0, <1>h, <2>2, <3>2, NextPageAfter
      <4>3. QED
        BY <4>1, <4>2
    <3>3. QED
      BY <1>6, <3>1, <3>2 DEF DumpSecond
  <2>4. QED
    BY <1>0, <2>1, <2>2, <2>3 DEF ExtractTyped, ExtractTypeOK, Parsed, XStages, XEnds
<1>7. CASE DumpDt
  <2>1. xpc = "dt" /\ UNCHANGED <<img, xskip>>
    BY <1>7 DEF DumpDt
  <2>2. HasHeader(img) /\ h.page_size \in PageSizes
    BY <1>0, <2>1 DEF Parsed
  <2>3. DirType' /\ xpc' \in {"security", "abort"} /\ xpos' \in Nat
    <3>1. CASE UNCHANGED <<dir, xpos>> /\ xpc' = "security"
      BY <1>0, <3>1 DEF DirType
    <3>2. CASE /\ Dump("dt", xpos, h.unused0, "security")
               /\ xpos' = NextPage(xpos, h.unused0, h.page_size)
      <4>0. "dt" \in Names /\ h.unused0 \in Int
        BY <1>h DEF Names, Payloads
      <4>1. DirType' /\ xpc' \in {"security", "abort"}
        BY <1>0, <2>2, <3>2, <4>0, DumpType
      <4>2. xpos' \in Nat
        BY <1>0, <1>h, <2>2, <3>2, NextPageAfter
      <4>3. QED
        BY <4>1, <4>2
    <3>3. QED
      BY <1>7, <3>1, <3>2 DEF DumpDt
  <2>4. QED
    BY <1>0, <2>1, <2>2, <2>3 DEF ExtractTyped, ExtractTypeOK, Parsed, XStages, XEnds
<1>8. CASE SearchSecurity
  <2>1. xpc = "security" /\ xpc' \in {"done", "abort"} /\ UNCHANGED <<img, xpos, xskip>>
    BY <1>8 DEF SearchSecurity, FailToRaise
  <2>2. QED
    BY <1>0, <1>8, <1>f, <2>1 DEF ExtractTyped, ExtractTypeOK, Parsed, XEnds
<1>9. CASE ReadPastEnd
  BY <1>0, <1>9 DEF ReadPastEnd, ExtractTyped, ExtractTypeOK, Parsed, DirType, XEnds
<1>10. CASE UNCHANGED extractVars
  BY <1>0, <1>10 DEF extractVars, ExtractTyped, ExtractTypeOK, Parsed, DirType
<1>11. QED
  BY <1>1, <1>2, <1>3, <1>4, <1>5, <1>6, <1>7, <1>8, <1>9, <1>10 DEF ExtractNext

(***************************************************************************)
(* The variables always have values of their types.                        *)
(***************************************************************************)
THEOREM ExtractTypeCorrect == ExtractSpec => []ExtractTypeOK
<1>1. ExtractTyped => ExtractTypeOK
  BY DEF ExtractTyped
<1>2. QED
  BY <1>1, ExtractTypedInit, ExtractTypedStep, PTL DEF ExtractSpec

-----------------------------------------------------------------------------
(***************************************************************************)
(* Only the steps of their own stages write second, dt, the ramdisk and    *)
(* the flags of an MTK header.                                             *)
(***************************************************************************)
RamdiskNames == {"ramdisk.gz", "ramdisk.lzma", "ramdisk"}

LEMMA Writers ==
    ASSUME ExtractTyped, [ExtractNext]_extractVars
    PROVE  /\ dir'["second"] # dir["second"] => DumpSecond
           /\ dir'["dt"] # dir["dt"] => DumpDt
           /\ \A m \in RamdiskNames : dir'[m] # dir[m] => DumpRamdisk
           /\ \A m \in MtkFlagNames : dir'[m] # dir[m] => StepOverMtkHeader
<1> DEFINE h == img.hdr
           others == {"second", "dt"} \cup RamdiskNames \cup MtkFlagNames
<1>0. IsImage(img) /\ DirType /\ xpos \in Nat /\ xskip \in Nat /\ Parsed
  BY DEF ExtractTyped, ExtractTypeOK
<1>h. /\ h.page_size \in Nat /\ h.kernel_size \in Nat /\ h.ramdisk_size \in Nat
      /\ h.second_size \in Nat /\ h.unused0 \in Nat
  BY <1>0, HdrType
<1>n. /\ others \subseteq Names /\ "kernel" \in Names
      /\ others \cap {"kernel", "chromeos", "rkcrc", "secure"} = {}
      /\ {"second", "dt"} \cap (RamdiskNames \cup MtkFlagNames) = {}
      /\ RamdiskNames \cap MtkFlagNames = {}
  BY DEF Payloads, Flags, Names, RamdiskNames, MtkFlagNames
<1> HIDE DEF h, others
<1>1. CASE SearchSecurityHdr \/ SearchSecurity
  <2>1. \A m \in Names \ OtherFlags : dir'[m] = dir[m]
    <3>1. CASE \E fs \in SUBSET OtherFlags : dir' = Raise(fs)
      BY <1>0, <3>1, FlagSteps, RaiseType
    <3>2. CASE \E fs \in SUBSET OtherFlags, f \in OtherFlags : FailToRaise(fs, f)
      BY <1>0, <3>2, FlagSteps, FailType
    <3>3. QED
      BY <1>1, <3>1, <3>2, FlagSteps
  <2>2. others \subseteq Names \ OtherFlags
    BY <1>n DEF OtherFlags
  <2>3. QED
    BY <2>1, <2>2 DEF others
<1>2. CASE DumpKernel
  <2>1. Dump("kernel", xpos, h.kernel_size, "ramdisk") /\ HasHeader(img)
    BY <1>0, <1>2 DEF DumpKernel, Parsed, h
  <2>2. \A m \in others : dir'[m] = dir[m]
    BY <1>0, <1>h, <1>n, <2>1, DumpType
  <2>3. QED
    BY <2>2 DEF others
<1>3. CASE DumpRamdisk
  <2>1. PICK name \in RamdiskNames, next \in {"second", "abort"} :
          Dump(name, xpos + xskip, h.ramdisk_size - xskip, next)
    BY <1>3 DEF DumpRamdisk, RamdiskNames, h
  <2>2. HasHeader(img) /\ name \in Names /\ xpos + xskip \in Nat /\ h.ramdisk_size - xskip \in Int
    BY <1>0, <1>h, <1>n, <1>3 DEF DumpRamdisk, Parsed, others
  <2>3. \A m \in Names \ {name} : dir'[m] = dir[m]
    BY <1>0, <2>1, <2>2, DumpType
  <2>4. \A m \in {"second", "dt"} \cup MtkFlagNames : dir'[m] = dir[m]
    BY <1>n, <2>3 DEF others
  <2>5. QED
    BY <1>3, <2>4
<1>4. CASE StepOverMtkHeader
  <2>1. \A m \in Names \ MtkFlagNames : dir'[m] = dir[m]
    <3>1. CASE \E fs \in SUBSET MtkFlagNames : dir' = Raise(fs)
      BY <1>0, <3>1, FlagSteps, RaiseType
    <3>2. CASE \E fs \in SUBSET MtkFlagNames, f \in MtkFlagNames : FailToRaise(fs, f)
      BY <1>0, <3>2, FlagSteps, FailType
    <3>3. QED
      BY <1>4, <3>1, <3>2, FlagSteps
  <2>2. {"second", "dt"} \cup RamdiskNames \subseteq Names \ MtkFlagNames
    BY <1>n DEF others
  <2>3. QED
    BY <1>4, <2>1, <2>2
<1>5. CASE DumpSecond
  <2>1. CASE UNCHANGED dir
    BY <2>1
  <2>2. CASE Dump("second", xpos, h.second_size, "dt")
    <3>1. HasHeader(img) /\ "second" \in Names
      BY <1>0, <1>5 DEF DumpSecond, Parsed, Names, Payloads
    <3>2. \A m \in Names \ {"second"} : dir'[m] = dir[m]
      BY <1>0, <1>h, <2>2, <3>1, DumpType
    <3>3. \A m \in {"dt"} \cup RamdiskNames \cup MtkFlagNames : dir'[m] = dir[m]
      BY <1>n, <3>2 DEF others
    <3>4. QED
      BY <1>5, <3>3
  <2>3. QED
    BY <1>5, <2>1, <2>2 DEF DumpSecond, h
<1>6. CASE DumpDt
  <2>1. CASE UNCHANGED dir
    BY <2>1
  <2>2. CASE Dump("dt", xpos, h.unused0, "security")
    <3>1. HasHeader(img) /\ "dt" \in Names
      BY <1>0, <1>6 DEF DumpDt, Parsed, Names, Payloads
    <3>2. \A m \in Names \ {"dt"} : dir'[m] = dir[m]
      BY <1>0, <1>h, <2>2, <3>1, DumpType
    <3>3. \A m \in {"second"} \cup RamdiskNames \cup MtkFlagNames : dir'[m] = dir[m]
      BY <1>n, <3>2 DEF others
    <3>4. QED
      BY <1>6, <3>3
  <2>3. QED
    BY <1>6, <2>1, <2>2 DEF DumpDt, h
<1>7. CASE FindHeader \/ ReadPastEnd \/ UNCHANGED extractVars
  BY <1>7 DEF FindHeader, ReadPastEnd, extractVars
<1>8. QED
  BY <1>1, <1>2, <1>3, <1>4, <1>5, <1>6, <1>7 DEF ExtractNext

(***************************************************************************)
(* On an image that starts with its header, second and dt are read from    *)
(* inside the file.                                                        *)
(***************************************************************************)
THEOREM ExtractOptionalPartsInFile == ExtractSpec => OptionalPartsInFile
<1>1. ExtractTyped /\ [ExtractNext]_extractVars =>
        [(HasHeader(img) /\ HeaderAt(img) = 0) => OptionalPartRead]_extractVars
  <2> SUFFICES ASSUME ExtractTyped, [ExtractNext]_extractVars,
                      HasHeader(img), HeaderAt(img) = 0
               PROVE  OptionalPartRead
    OBVIOUS
  <2>0. IsImage(img) /\ xpos \in Nat
    BY DEF ExtractTyped, ExtractTypeOK
  <2>h. img.hdr.second_size \in Nat /\ img.hdr.unused0 \in Nat /\ img.size \in Nat
    BY <2>0, HdrType
  <2>1. ASSUME dir'["second"] # dir["second"] PROVE InFile(xpos, img.hdr.second_size)
    <3>1. xpos + img.hdr.second_size <= img.size
      BY <2>1, Writers DEF DumpSecond
    <3>2. QED
      BY <2>0, <2>h, <3>1 DEF InFile
  <2>2. ASSUME dir'["dt"] # dir["dt"] PROVE InFile(xpos, img.hdr.unused0)
    <3>1. xpos + img.hdr.unused0 <= img.size
      BY <2>2, Writers DEF DumpDt, HasDt
    <3>2. QED
      BY <2>0, <2>h, <3>1 DEF InFile
  <2>3. QED
    BY <2>1, <2>2 DEF OptionalPartRead
<1>2. QED
  BY <1>1, ExtractTypedInit, ExtractTypedStep, PTL DEF ExtractSpec, OptionalPartsInFile

-----------------------------------------------------------------------------
(***************************************************************************)
(* What main() has done to the directory so far with a well formed image.  *)
(* The directory need not have been empty: an earlier extraction of the    *)
(* same image that was interrupted may have left its files and flags.      *)
(***************************************************************************)
KernelCut == dir["kernel"] = Slice(KernelPos(img.hdr), img.hdr.kernel_size)
RamdiskCut ==
    /\ dir[RamdiskName] =
         IF OneByteShort THEN Empty
         ELSE Slice(RamdiskPos(img.hdr) + xskip, img.hdr.ramdisk_size - xskip)
    /\ OneByteShort \/ xskip <= img.hdr.ramdisk_size
SecondCut ==
    dir["second"] = IF img.hdr.second_size = 0 THEN NoFile
                    ELSE Slice(SecondPos(img.hdr), img.hdr.second_size)
DtCut ==
    dir["dt"] = IF CarriesDt(img) THEN Slice(DtPos(img.hdr), img.hdr.unused0) ELSE NoFile

PastRamdisk == {"second", "dt", "security", "done"}

\* xpos is the position the layout gives to the component that comes next, the
\* ones before it are cut, and no file is there for a part the image has not.
Positions ==
    /\ xpc = "kernel"  => xpos = KernelPos(img.hdr)
    /\ xpc = "ramdisk" => xpos = RamdiskPos(img.hdr)
    /\ xpc = "second"  => xpos = SecondPos(img.hdr)
    /\ xpc = "dt"      => xpos = DtPos(img.hdr)

PartsCut ==
    /\ xpc \in {"ramdisk"} \cup PastRamdisk => KernelCut
    /\ xpc \in {"dt", "security", "done"} => SecondCut
    /\ xpc \in {"security", "done"} => DtCut
    /\ img.hdr.second_size = 0 => dir["second"] = NoFile
    /\ ~CarriesDt(img) => dir["dt"] = NoFile

ArchiveCut == xpc \in PastRamdisk => RamdiskCut

\* The flags tell of the MTK headers in front of the ramdisk that were stepped
\* over, unless one could not be raised, and of no others.
TopFormat == BlobAt(img.at, RamdiskPos(img.hdr)).fmt

Stepped ==
    /\ xpc \in {"start", "find", "kernel"} => xskip = 0
    /\ \/ xskip = 0 \/ xpc = "abort"
       \/ /\ xskip >= MtkHdrLen /\ TopFormat \in MtkFlavours
          /\ Exists("ramdisk-mtk") /\ Exists(FlavourFlag(TopFormat))
    /\ Exists("ramdisk-mtk") => TopFormat \in MtkFlavours
    /\ OneMtkHeader(img) =>
         /\ xskip \in {0, MtkLen(img)}
         /\ Exists("ramdisk-mtk-boot") => TopFormat = "mtkboot"
    /\ xpc \in PastRamdisk =>
         BlobAt(img.at, RamdiskPos(img.hdr) + xskip).fmt \in {"gzip", "lzma"}

Progress == Positions /\ PartsCut /\ ArchiveCut /\ Stepped

\* The inductive invariant for CutsAsLaidOut.
CutInv == ExtractTyped /\ (WellFormed(img) => Progress)

(***************************************************************************)
(* A part that is in the file is dumped as it is, or the process ends.     *)
(***************************************************************************)
LEMMA DumpExact ==
    ASSUME NEW name, NEW off, NEW len \in Int, NEW next,
           InFile(off, len), Dump(name, off, len, next), xpc' # "abort"
    PROVE  dir' = [dir EXCEPT ![name] = Slice(off, len)] /\ xpc' = next
<1>1. len >= 0
  BY DEF InFile
<1>2. QED
  BY <1>1 DEF Dump, Slice

(***************************************************************************)
(* One whose length is negative leaves an empty file, or the process ends. *)
(***************************************************************************)
LEMMA DumpShort ==
    ASSUME NEW name, NEW off, NEW len \in Int, NEW next,
           len < 0, Dump(name, off, len, next), xpc' # "abort"
    PROVE  len = -1 /\ dir' = [dir EXCEPT ![name] = Empty] /\ xpc' = next
  BY DEF Dump, InFile

(***************************************************************************)
(* The parts of a well formed image are in the file.                       *)
(***************************************************************************)
LEMMA PartsInFile ==
    ASSUME IsImage(img), WellFormed(img)
    PROVE  /\ InFile(KernelPos(img.hdr), img.hdr.kernel_size)
           /\ \A k \in Nat : k <= img.hdr.ramdisk_size =>
                 InFile(RamdiskPos(img.hdr) + k, img.hdr.ramdisk_size - k)
           /\ InFile(SecondPos(img.hdr), img.hdr.second_size)
           /\ InFile(DtPos(img.hdr), img.hdr.unused0)
           /\ SecondPos(img.hdr) + img.hdr.second_size <= img.size
           /\ DtPos(img.hdr) + img.hdr.unused0 <= img.size
<1> DEFINE h == img.hdr
<1>1. /\ h \in Header /\ h.page_size \in PageSizes /\ HeaderAt(img) \in Nat
      /\ HeaderAt(img) + EndPos(h) <= img.size /\ img.size \in Nat
  BY HeaderFound, HdrType DEF WellFormed
<1>2. /\ h.kernel_size \in Nat /\ h.ramdisk_size \in Nat
      /\ h.second_size \in Nat /\ h.unused0 \in Nat
  BY <1>1, HdrType
<1>3. /\ KernelPos(h) \in Nat /\ RamdiskPos(h) \in Nat /\ SecondPos(h) \in Nat
      /\ DtPos(h) \in Nat /\ EndPos(h) \in Nat
      /\ KernelPos(h) + h.kernel_size <= RamdiskPos(h)
      /\ RamdiskPos(h) + h.ramdisk_size <= SecondPos(h)
      /\ SecondPos(h) + h.second_size <= DtPos(h)
      /\ DtPos(h) + h.unused0 <= EndPos(h)
  BY <1>1, Layout
<1> HIDE DEF h
<1>4. /\ InFile(KernelPos(h), h.kernel_size)
      /\ \A k \in Nat : k <= h.ramdisk_size => InFile(RamdiskPos(h) + k, h.ramdisk_size - k)
      /\ InFile(SecondPos(h), h.second_size)
      /\ InFile(DtPos(h), h.unused0)
      /\ SecondPos(h) + h.second_size <= img.size
      /\ DtPos(h) + h.unused0 <= img.size
  BY <1>1, <1>2, <1>3 DEF InFile
<1>5. QED
  BY <1>4 DEF h

(***************************************************************************)
(* main() does not change what it was given, and ends where it ends.       *)
(***************************************************************************)
LEMMA ExtractReads ==
    /\ [ExtractNext]_extractVars => UNCHANGED img
    /\ ExtractNext => xpc \notin XEnds /\ xpc' # "start"
  BY DEF extractVars, ExtractNext, SearchSecurityHdr, FindHeader, DumpKernel, DumpRamdisk,
     StepOverMtkHeader, DumpSecond, DumpDt, SearchSecurity, ReadPastEnd, Dump,
     FailToRaise, XEnds

(***************************************************************************)
(* Every step of main() on a well formed image keeps what it has done.     *)
(***************************************************************************)
LEMMA SteppedStep ==
    ASSUME ExtractTyped, WellFormed(img), Progress, ExtractNext
    PROVE  Stepped'
<1> DEFINE r   == RamdiskPos(img.hdr)
           top == BlobAt(img.at, r).fmt
<1>0. /\ IsImage(img) /\ DirType /\ img' = img /\ xskip \in Nat /\ Stepped
      /\ TopFormat' = TopFormat /\ TopFormat = top /\ OneMtkHeader(img)' = OneMtkHeader(img)
      /\ MtkLen(img)' = MtkLen(img)
  BY ExtractReads DEF ExtractTyped, ExtractTypeOK, Progress, TopFormat
<1>r. r \in Nat
  BY <1>0, HdrType, Layout DEF WellFormed
<1>1. CASE StepOverMtkHeader
  <2> DEFINE fmt == BlobAt(img.at, xpos + xskip).fmt
  <2>1. xpc = "ramdisk" /\ xpos = r /\ xpc' \in {"ramdisk", "abort"}
    BY <1>1 DEF StepOverMtkHeader, FailToRaise, Progress, Positions
  <2>2. CASE UNCHANGED <<dir, xskip>>
    BY <1>0, <2>1, <2>2 DEF Stepped, Exists, PastRamdisk
  <2>3. CASE /\ fmt \in MtkFlavours /\ xskip' = xskip + MtkHdrLen
             /\ dir' = Raise({"ramdisk-mtk", FlavourFlag(fmt)}) /\ UNCHANGED xpc
    <3> DEFINE fs == {"ramdisk-mtk", FlavourFlag(fmt)}
    <3>1. /\ fs \subseteq Flags /\ "ramdisk-mtk" \in fs /\ FlavourFlag(fmt) \in fs
          /\ dir' = Raise(fs) /\ fs \subseteq MtkFlagNames
      BY <2>3 DEF Flags, FlavourFlag, MtkFlagNames
    <3> HIDE DEF fs
    <3>2. /\ \A m \in Names \ fs : dir'[m] = dir[m]
          /\ \A m \in fs : dir'[m] # NoFile
      BY <1>0, <3>1, RaiseType DEF Exists
    <3>3. \/ xskip = 0 /\ fmt = top
          \/ xskip >= MtkHdrLen /\ xskip \in Nat /\ top \in MtkFlavours
             /\ Exists(FlavourFlag(top))
      <4>1. xskip = 0 => fmt = top
        BY <1>r, <2>1
      <4>2. QED
        BY <1>0, <2>1, <4>1 DEF Stepped
    <3>4. top \in MtkFlavours /\ xskip' >= MtkHdrLen /\ dir'[FlavourFlag(top)] # NoFile
      <4>1. FlavourFlag(top) \in Names
        BY DEF FlavourFlag, Names, Flags
      <4>2. CASE xskip = 0 /\ fmt = top
        <5>1. xskip' >= MtkHdrLen /\ top \in MtkFlavours
          BY <2>3, <4>2 DEF MtkHdrLen
        <5>2. FlavourFlag(top) \in fs
          BY <3>1, <4>2
        <5>3. QED
          BY <3>2, <5>1, <5>2
      <4>3. CASE xskip >= MtkHdrLen /\ xskip \in Nat /\ top \in MtkFlavours
                 /\ Exists(FlavourFlag(top))
        <5>1. xskip' >= MtkHdrLen
          BY <2>3, <4>3 DEF MtkHdrLen
        <5>2. CASE FlavourFlag(top) \in fs
          BY <3>2, <4>3, <5>1, <5>2
        <5>3. CASE FlavourFlag(top) \notin fs
          BY <3>2, <4>1, <4>3, <5>1, <5>3 DEF Exists
        <5>4. QED
          BY <5>2, <5>3
      <4>4. QED
        BY <3>3, <4>2, <4>3
    <3>5. ASSUME OneMtkHeader(img)
          PROVE  xskip' = MtkLen(img) /\ (Exists("ramdisk-mtk-boot")' => top = "mtkboot")
      <4>1. MtkLen(img) = MtkHdrLen
        BY <3>4 DEF MtkLen
      <4>2. xskip \in {0, MtkHdrLen}
        BY <1>0, <3>5, <4>1 DEF Stepped
      <4>3. BlobAt(img.at, r + MtkHdrLen).fmt \notin MtkFlavours
        BY <3>5, <4>1 DEF OneMtkHeader, Archive, MtkHdrLen
      <4>4. xskip = 0 /\ fmt = top
        BY <2>1, <2>3, <3>3, <4>2, <4>3 DEF MtkHdrLen
      <4>5. Exists("ramdisk-mtk-boot")' => top = "mtkboot"
        <5>1. CASE top = "mtkboot"
          BY <5>1
        <5>2. CASE top # "mtkboot"
          <6>1. ~Exists("ramdisk-mtk-boot")
            BY <1>0, <3>5, <5>2 DEF Stepped
          <6>2. "ramdisk-mtk-boot" \in Names \ fs
            BY <4>4, <5>2 DEF FlavourFlag, Names, Flags, fs
          <6>3. QED
            BY <3>2, <6>1, <6>2 DEF Exists
        <5>3. QED
          BY <5>1, <5>2
      <4>6. QED
        BY <2>3, <4>1, <4>4, <4>5 DEF MtkHdrLen
    <3>6. QED
      <4>1. dir'["ramdisk-mtk"] # NoFile
        BY <3>1, <3>2
      <4>2. QED
        BY <1>0, <2>1, <3>4, <3>5, <4>1 DEF Stepped, PastRamdisk, Exists
  <2>4. CASE /\ fmt \in MtkFlavours /\ UNCHANGED xskip
             /\ \/ FailToRaise({}, FlavourFlag(fmt))
                \/ FailToRaise({FlavourFlag(fmt)}, "ramdisk-mtk")
    <3>1. /\ FlavourFlag(fmt) \in MtkFlagNames /\ MtkFlagNames \subseteq Flags
          /\ "ramdisk-mtk" \in MtkFlagNames /\ "ramdisk-mtk" # FlavourFlag(fmt)
          /\ {"ramdisk-mtk", "ramdisk-mtk-boot"} \subseteq Names
      BY DEF Flags, FlavourFlag, MtkFlagNames, Names
    <3>2. xpc' = "abort" /\ dir'["ramdisk-mtk"] \in {dir["ramdisk-mtk"], NoFile}
      <4>1. CASE FailToRaise({}, FlavourFlag(fmt))
        BY <1>0, <3>1, <4>1, FailType
      <4>2. CASE FailToRaise({FlavourFlag(fmt)}, "ramdisk-mtk")
        BY <1>0, <3>1, <4>2 DEF FailToRaise, Raise
      <4>3. QED
        BY <2>4, <4>1, <4>2
    <3>3. ASSUME FlavourFlag(fmt) # "ramdisk-mtk-boot"
          PROVE  dir'["ramdisk-mtk-boot"] = dir["ramdisk-mtk-boot"]
      <4>1. CASE FailToRaise({}, FlavourFlag(fmt))
        BY <1>0, <3>1, <3>3, <4>1, FailType
      <4>2. CASE FailToRaise({FlavourFlag(fmt)}, "ramdisk-mtk")
        <5>1. {FlavourFlag(fmt)} \subseteq Flags /\ "ramdisk-mtk" \in Flags
          BY <3>1
        <5>2. \A m \in Names \ ({FlavourFlag(fmt)} \cup {"ramdisk-mtk"}) : dir'[m] = dir[m]
          BY <1>0, <4>2, <5>1, FailType
        <5>3. QED
          BY <3>1, <3>3, <5>2
      <4>3. QED
        BY <2>4, <4>1, <4>2
    <3>4. ASSUME OneMtkHeader(img) PROVE fmt = top
      <4>1. CASE xskip = 0
        BY <1>r, <2>1, <4>1
      <4>2. CASE xskip # 0
        <5>1. xskip = MtkLen(img) /\ MtkLen(img) # 0
          BY <1>0, <3>4, <4>2 DEF Stepped
        <5>2. QED
          BY <2>1, <2>4, <3>4, <5>1 DEF OneMtkHeader, Archive
      <4>3. QED
        BY <4>1, <4>2
    <3>5. OneMtkHeader(img) => (Exists("ramdisk-mtk-boot")' => top = "mtkboot")
      <4>1. fmt = top /\ top # "mtkboot" => FlavourFlag(fmt) # "ramdisk-mtk-boot"
        BY DEF FlavourFlag
      <4>2. QED
        BY <1>0, <3>3, <3>4, <4>1 DEF Stepped, Exists
    <3>6. Exists("ramdisk-mtk")' => top \in MtkFlavours
      BY <1>0, <3>2 DEF Stepped, Exists
    <3>7. QED
      BY <1>0, <2>4, <3>2, <3>5, <3>6 DEF Stepped, PastRamdisk
  <2>5. QED
    BY <1>1, <2>2, <2>3, <2>4 DEF StepOverMtkHeader
<1>2. CASE ~StepOverMtkHeader
  <2>1. /\ xskip' = xskip
        /\ (xpc' \in {"start", "find", "kernel"} => xpc \in {"start", "find", "kernel"})
        /\ (xpc' \in PastRamdisk => xpc \in PastRamdisk \/ DumpRamdisk)
    BY <1>2, SMTT(30) DEF ExtractNext, SearchSecurityHdr, FindHeader, DumpKernel, DumpRamdisk,
       DumpSecond, DumpDt, SearchSecurity, ReadPastEnd, Dump, FailToRaise, PastRamdisk
  <2>0. xpc # "abort"
    BY ExtractReads DEF XEnds
  <2>2. \A m \in MtkFlagNames : dir'[m] = dir[m]
    BY <1>2, Writers
  <2>3. /\ dir'["ramdisk-mtk"] = dir["ramdisk-mtk"]
        /\ dir'["ramdisk-mtk-boot"] = dir["ramdisk-mtk-boot"]
        /\ dir'[FlavourFlag(top)] = dir[FlavourFlag(top)]
    <3>1. {"ramdisk-mtk", "ramdisk-mtk-boot", FlavourFlag(top)} \subseteq MtkFlagNames
      BY DEF MtkFlagNames, FlavourFlag
    <3>2. QED
      BY <2>2, <3>1
  <2>4. (DumpRamdisk /\ xpc' \in PastRamdisk) =>
           BlobAt(img.at, r + xskip).fmt \in {"gzip", "lzma"}
    BY DEF DumpRamdisk, Dump, PastRamdisk, Progress, Positions
  <2>5. (xpc' \in PastRamdisk => BlobAt(img.at, r + xskip).fmt \in {"gzip", "lzma"})
    BY <1>0, <2>1, <2>4 DEF Stepped
  <2>6. QED
    BY <1>0, <2>0, <2>1, <2>3, <2>5 DEF Stepped, Exists
<1>3. QED
  BY <1>1, <1>2

LEMMA ProgressStep ==
    ASSUME ExtractTyped, WellFormed(img), Progress, ExtractNext
    PROVE  Progress'
<1> DEFINE h == img.hdr
<1>0. /\ IsImage(img) /\ DirType /\ xpos \in Nat /\ xskip \in Nat /\ img' = img
      /\ Positions /\ PartsCut /\ ArchiveCut /\ Stepped'
  BY ExtractReads, SteppedStep DEF ExtractTyped, ExtractTypeOK, Progress
<1>h. /\ h \in Header /\ h.page_size \in PageSizes /\ HasHeader(img)
      /\ h.kernel_size \in Nat /\ h.ramdisk_size \in Nat
      /\ h.second_size \in Nat /\ h.unused0 \in Nat
  BY <1>0, HdrType DEF WellFormed
<1>l. /\ KernelPos(h) = h.page_size
      /\ KernelPos(h) \in Nat /\ RamdiskPos(h) \in Nat /\ SecondPos(h) \in Nat /\ DtPos(h) \in Nat
      /\ RamdiskPos(h) = NextPage(KernelPos(h), h.kernel_size, h.page_size)
      /\ SecondPos(h) = NextPage(RamdiskPos(h), h.ramdisk_size, h.page_size)
      /\ DtPos(h) = NextPage(SecondPos(h), h.second_size, h.page_size)
      /\ h.second_size = 0 => DtPos(h) = SecondPos(h)
  BY <1>h, Layout
<1>n. /\ {"kernel", "ramdisk", "ramdisk.gz", "ramdisk.lzma", "second", "dt"} \subseteq Names
      /\ {"kernel", "ramdisk.gz", "ramdisk.lzma", "second", "dt"} \subseteq Payloads
  BY DEF Payloads, Names
<1>a. /\ (h.second_size = 0)' = (h.second_size = 0) /\ CarriesDt(img)' = CarriesDt(img)
      /\ h.second_size = 0 => dir'["second"] = NoFile
      /\ ~CarriesDt(img) => dir'["dt"] = NoFile
  <2>1. ASSUME h.second_size = 0 PROVE dir'["second"] = NoFile
    <3>1. dir["second"] = NoFile
      BY <1>0, <2>1 DEF PartsCut
    <3>2. UNCHANGED dir \/ ~DumpSecond
      BY <2>1 DEF DumpSecond
    <3>3. QED
      BY <3>1, <3>2, Writers
  <2>2. ASSUME ~CarriesDt(img) PROVE dir'["dt"] = NoFile
    <3>1. dir["dt"] = NoFile
      BY <1>0, <2>2 DEF PartsCut
    <3>2. ~DumpDt \/ UNCHANGED dir
      BY <1>0, <2>2 DEF DumpDt, HasDt, CarriesDt, Positions
    <3>3. QED
      BY <3>1, <3>2, Writers
  <2>3. QED
    BY <1>0, <2>1, <2>2
<1>b. CASE xpc' = "abort"
  BY <1>0, <1>a, <1>b DEF Progress, Positions, PartsCut, ArchiveCut, PastRamdisk
<1> SUFFICES ASSUME xpc' # "abort" PROVE Progress'
  BY <1>b
<1>1. CASE SearchSecurityHdr
  BY <1>0, <1>a, <1>1
  DEF SearchSecurityHdr, FailToRaise, Progress, Positions, PartsCut, ArchiveCut, PastRamdisk
<1>2. CASE FindHeader
  BY <1>0, <1>a, <1>l, <1>2
  DEF FindHeader, Progress, Positions, PartsCut, ArchiveCut, PastRamdisk
<1>3. CASE DumpKernel
  <2>1. /\ xpc = "kernel" /\ Dump("kernel", xpos, h.kernel_size, "ramdisk")
        /\ xpos' = NextPage(xpos, h.kernel_size, h.page_size)
    BY <1>3 DEF DumpKernel
  <2>2. xpos = KernelPos(h) /\ InFile(KernelPos(h), h.kernel_size)
    BY <1>0, <2>1, PartsInFile DEF Positions
  <2>3. dir' = [dir EXCEPT !["kernel"] = Slice(xpos, h.kernel_size)] /\ xpc' = "ramdisk"
    <3>1. h.kernel_size >= 0 /\ InFile(xpos, h.kernel_size)
      BY <1>h, <2>2
    <3>2. QED
      BY <2>1, <3>1 DEF Dump, Slice
  <2>4. KernelCut'
    BY <1>0, <1>n, <2>2, <2>3 DEF KernelCut, Slice, DirType
  <2>5. QED
    BY <1>0, <1>a, <1>l, <2>1, <2>2, <2>3, <2>4
    DEF Progress, Positions, PartsCut, ArchiveCut, PastRamdisk
<1>4. CASE DumpRamdisk
  <2> DEFINE fmt == BlobAt(img.at, xpos + xskip).fmt
             name == CASE fmt = "gzip" -> "ramdisk.gz"
                       [] fmt = "lzma" -> "ramdisk.lzma"
                       [] OTHER        -> "ramdisk"
             n == h.ramdisk_size - xskip
  <2>1. /\ xpc = "ramdisk"
        /\ Dump(name, xpos + xskip, n, IF fmt \in {"gzip", "lzma"} THEN "second" ELSE "abort")
        /\ xpos' = NextPage(xpos, h.ramdisk_size, h.page_size) /\ xskip' = xskip
    BY <1>4 DEF DumpRamdisk
  <2>2. xpos = RamdiskPos(h)
    BY <1>0, <2>1 DEF Positions
  <2>3. xpos + xskip \in Nat /\ n \in Int /\ name \in Names \ {"kernel", "second", "dt"}
    BY <1>0, <1>h, <1>n
  <2>4. dir'["kernel"] = dir["kernel"]
    BY <1>0, <1>h, <1>n, <2>1, <2>3, DumpType
  <2>5. xpc' = "second" /\ fmt \in {"gzip", "lzma"}
    BY <2>1 DEF Dump
  <2>6. RamdiskName' = name
    BY <1>0, <2>1, <2>2, <2>5 DEF RamdiskName
  <2>7. RamdiskCut'
    <3>1. CASE n < 0
      <4>1. n = -1 /\ dir' = [dir EXCEPT ![name] = Empty]
        BY <2>1, <2>3, <3>1, DumpShort
      <4>2. OneByteShort'
        BY <1>0, <1>h, <2>1, <4>1 DEF OneByteShort
      <4>3. dir'[name] = Empty
        BY <1>0, <2>3, <4>1 DEF DirType
      <4>4. dir'[RamdiskName'] = Empty
        BY <2>6, <4>3
      <4>5. QED
        BY <4>2, <4>4 DEF RamdiskCut
    <3>2. CASE n >= 0
      <4>1. InFile(xpos + xskip, n) /\ xskip <= h.ramdisk_size /\ ~OneByteShort'
        BY <1>0, <1>h, <2>1, <2>2, <3>2, PartsInFile DEF OneByteShort
      <4>2. dir' = [dir EXCEPT ![name] = Slice(xpos + xskip, n)]
        BY <1>h, <2>1, <2>3, <4>1, DumpExact
      <4>3. dir'[name] = Slice(xpos + xskip, n)
        BY <1>0, <2>3, <4>2 DEF DirType
      <4>4. dir'[RamdiskName'] = Slice(RamdiskPos(h) + xskip, h.ramdisk_size - xskip)
        BY <2>2, <2>6, <4>3
      <4>5. QED
        BY <1>0, <2>1, <4>1, <4>4 DEF RamdiskCut, Slice
    <3>3. n < 0 \/ n >= 0
      BY <1>0, <1>h
    <3>4. QED
      BY <3>1, <3>2, <3>3
  <2>8. KernelCut'
    BY <1>0, <2>1, <2>4 DEF PartsCut, KernelCut, Slice
  <2>9. QED
    BY <1>0, <1>a, <1>l, <2>1, <2>2, <2>5, <2>7, <2>8
    DEF Progress, Positions, PartsCut, ArchiveCut
<1>5. CASE StepOverMtkHeader
  <2>1. \A m \in Payloads : dir'[m] = dir[m]
    <3>1. CASE \E fs \in SUBSET MtkFlagNames : dir' = Raise(fs)
      BY <1>0, <3>1, FlagSteps, RaiseType
    <3>2. QED
      BY <1>5, <3>1, FlagSteps DEF FailToRaise
  <2>2. xpc = "ramdisk" /\ xpc' = "ramdisk" /\ xpos' = xpos
    BY <1>5 DEF StepOverMtkHeader, FailToRaise
  <2>3. KernelCut'
    BY <1>0, <1>n, <2>1, <2>2 DEF PartsCut, KernelCut, Slice
  <2>4. QED
    BY <1>0, <1>a, <2>2, <2>3 DEF Progress, Positions, PartsCut, ArchiveCut, PastRamdisk
<1>6. CASE DumpSecond
  <2>1. xpc = "second" /\ xskip' = xskip
    BY <1>6 DEF DumpSecond
  <2>2. xpos = SecondPos(h) /\ KernelCut /\ RamdiskCut
    BY <1>0, <2>1 DEF Positions, PartsCut, ArchiveCut, PastRamdisk
  <2>3. CASE h.second_size = 0
    <3>1. xpc' = "dt" /\ UNCHANGED <<dir, xpos>>
      BY <1>6, <2>3 DEF DumpSecond
    <3>2. KernelCut' /\ RamdiskCut' /\ SecondCut'
      BY <1>0, <1>a, <2>1, <2>2, <2>3, <3>1
      DEF KernelCut, RamdiskCut, RamdiskName, OneByteShort, SecondCut, Slice, Empty
    <3>3. QED
      BY <1>0, <1>a, <1>l, <2>2, <2>3, <3>1, <3>2 DEF Progress, Positions, PartsCut, ArchiveCut
  <2>4. CASE h.second_size # 0
    <3>1. InFile(xpos, h.second_size) /\ xpos + h.second_size <= img.size
      BY <1>0, <2>2, PartsInFile
    <3>2. /\ Dump("second", xpos, h.second_size, "dt")
          /\ xpos' = NextPage(xpos, h.second_size, h.page_size)
      BY <1>0, <1>h, <1>6, <2>4, <3>1, HdrType DEF DumpSecond
    <3>3. dir' = [dir EXCEPT !["second"] = Slice(xpos, h.second_size)] /\ xpc' = "dt"
      <4>1. h.second_size >= 0
        BY <1>h
      <4>2. QED
        BY <3>1, <3>2, <4>1 DEF Dump, Slice
    <3>4. \A m \in Names \ {"second"} : dir'[m] = dir[m]
      BY <1>0, <3>3 DEF DirType
    <3>5. RamdiskName' = RamdiskName /\ RamdiskName \in Names \ {"second"}
      BY <1>0, <1>n, <2>1 DEF RamdiskName
    <3>6. KernelCut' /\ RamdiskCut'
      BY <1>0, <1>n, <2>1, <2>2, <3>4, <3>5 DEF KernelCut, RamdiskCut, OneByteShort, Slice, Empty
    <3>7. SecondCut'
      BY <1>0, <1>n, <2>2, <2>4, <3>3 DEF SecondCut, Slice, DirType
    <3>8. QED
      BY <1>0, <1>a, <1>l, <2>2, <3>2, <3>3, <3>6, <3>7
      DEF Progress, Positions, PartsCut, ArchiveCut
  <2>5. QED
    BY <2>3, <2>4
<1>7. CASE DumpDt
  <2>1. xpc = "dt" /\ xskip' = xskip
    BY <1>7 DEF DumpDt
  <2>2. xpos = DtPos(h) /\ KernelCut /\ RamdiskCut /\ SecondCut
    BY <1>0, <2>1 DEF Positions, PartsCut, ArchiveCut, PastRamdisk
  <2>3. InFile(xpos, h.unused0) /\ xpos + h.unused0 <= img.size
    BY <1>0, <2>2, PartsInFile
  <2>4. CASE HasDt(img, xpos)
    <3>1. Dump("dt", xpos, h.unused0, "security") /\ CarriesDt(img)
      BY <1>7, <2>2, <2>4 DEF DumpDt, HasDt, CarriesDt
    <3>2. dir' = [dir EXCEPT !["dt"] = Slice(xpos, h.unused0)] /\ xpc' = "security"
      <4>1. h.unused0 \in Int
        BY <1>h
      <4>2. QED
        BY <2>3, <3>1, <4>1, DumpExact, Zenon
    <3>3. \A m \in Names \ {"dt"} : dir'[m] = dir[m]
      BY <1>0, <3>2 DEF DirType
    <3>4. RamdiskName' = RamdiskName /\ RamdiskName \in Names \ {"dt"}
      BY <1>0, <1>n, <2>1 DEF RamdiskName
    <3>5. KernelCut' /\ RamdiskCut' /\ SecondCut'
      BY <1>0, <1>n, <2>1, <2>2, <3>3, <3>4
      DEF KernelCut, RamdiskCut, OneByteShort, SecondCut, Slice, Empty
    <3>6. dir'["dt"] = Slice(DtPos(h), h.unused0)
      BY <1>0, <1>n, <2>2, <3>2 DEF DirType
    <3>7. DtCut'
      BY <1>0, <1>a, <3>1, <3>6 DEF DtCut, Slice
    <3>8. QED
      BY <1>0, <1>a, <3>2, <3>5, <3>7 DEF Progress, Positions, PartsCut, ArchiveCut
  <2>5. CASE ~HasDt(img, xpos)
    <3>1. xpc' = "security" /\ dir' = dir
      BY <1>7, <2>5 DEF DumpDt
    <3>2. ~CarriesDt(img)
      BY <1>0, <1>h, <1>l, <2>2, <2>3, <2>5, HdrType DEF HasDt, CarriesDt
    <3>3. KernelCut' /\ RamdiskCut' /\ SecondCut'
      BY <1>0, <2>1, <2>2, <3>1
      DEF KernelCut, RamdiskCut, RamdiskName, OneByteShort, SecondCut, Slice, Empty
    <3>4. DtCut'
      BY <1>a, <3>2 DEF DtCut
    <3>5. QED
      BY <1>0, <1>a, <3>1, <3>3, <3>4 DEF Progress, Positions, PartsCut, ArchiveCut
  <2>6. QED
    BY <2>4, <2>5
<1>8. CASE SearchSecurity
  <2>1. \A m \in Payloads : dir'[m] = dir[m]
    <3>1. CASE \E fs \in SUBSET OtherFlags : dir' = Raise(fs)
      BY <1>0, <3>1, FlagSteps, RaiseType
    <3>2. QED
      BY <1>8, <3>1, FlagSteps DEF FailToRaise
  <2>2. xpc = "security" /\ xpc' = "done" /\ xskip' = xskip
    BY <1>8 DEF SearchSecurity, FailToRaise
  <2>3. KernelCut /\ RamdiskCut /\ SecondCut /\ DtCut
    BY <1>0, <2>2 DEF PartsCut, ArchiveCut, PastRamdisk
  <2>4. RamdiskName' = RamdiskName /\ RamdiskName \in Payloads
    BY <1>0, <1>n, <2>2 DEF RamdiskName
  <2>5. KernelCut' /\ RamdiskCut' /\ SecondCut'
    BY <1>0, <1>n, <2>1, <2>2, <2>3, <2>4
    DEF KernelCut, RamdiskCut, OneByteShort, SecondCut, Slice, Empty
  <2>6. DtCut'
    BY <1>0, <1>a, <1>n, <2>1, <2>3 DEF DtCut, Slice
  <2>7. QED
    BY <1>0, <1>a, <2>2, <2>5, <2>6 DEF Progress, Positions, PartsCut, ArchiveCut
<1>9. QED
  BY <1>1, <1>2, <1>3, <1>4, <1>5, <1>6, <1>7, <1>8 DEF ExtractNext, ReadPastEnd

LEMMA ProgressInit ==
    ASSUME dir = EmptyDir, ExtractStart PROVE Progress
  BY DEF ExtractStart, Progress, Positions, PartsCut, ArchiveCut, Stepped, PastRamdisk,
         EmptyDir, Exists, Names, Payloads, Flags

LEMMA ProgressStays ==
    ASSUME Progress, UNCHANGED <<img, dir, xpc, xpos, xskip>> PROVE Progress'
  BY DEF Progress, Positions, PartsCut, ArchiveCut, Stepped, TopFormat, Exists,
         KernelCut, RamdiskCut, RamdiskName, OneByteShort, SecondCut, DtCut, Slice

LEMMA CutInit == ExtractInit => CutInv
  BY ExtractTypedInit, ProgressInit DEF ExtractInit, CutInv

LEMMA CutStep == CutInv /\ [ExtractNext]_extractVars => CutInv'
<1> SUFFICES ASSUME CutInv, [ExtractNext]_extractVars, WellFormed(img)' PROVE Progress'
  BY ExtractTypedStep DEF CutInv
<1>1. WellFormed(img) /\ ExtractTyped /\ Progress
  BY ExtractReads DEF CutInv
<1>2. QED
  BY <1>1, ProgressStep, ProgressStays DEF extractVars

(***************************************************************************)
(* What extract cuts out of any well formed image is what the layout of    *)
(* bootimg.h assigns to each file.                                         *)
(***************************************************************************)
THEOREM ExtractCutsAsLaidOut == ExtractSpec => []CutsAsLaidOut
<1>1. CutInv => CutsAsLaidOut
  BY DEF CutInv, Progress, PartsCut, ArchiveCut, PastRamdisk, CutsAsLaidOut,
         KernelCut, RamdiskCut, SecondCut, DtCut, CarriesDt
<1>2. QED
  BY <1>1, CutInit, CutStep, PTL DEF ExtractSpec

-----------------------------------------------------------------------------
\* The inductive invariant for NothingLeftOutSilently: in front of the search
\* for what follows the last component, xpos is the end of the image, or the
\* place of a device tree that was not cut.
Ending ==
    /\ xpc = "security" => xpos = IF CarriesDt(img) THEN EndPos(img.hdr) ELSE DtPos(img.hdr)
    /\ NothingLeftOutSilently

LEMMA EndStep ==
    ASSUME ExtractTyped, WellFormed(img), Progress, Ending, ExtractNext
    PROVE  Ending'
<1> DEFINE h == img.hdr
<1>0. /\ IsImage(img) /\ DirType /\ img' = img /\ xpos \in Nat /\ img.size \in Nat
      /\ img.sign \in BOOLEAN
  BY ExtractReads DEF ExtractTyped, ExtractTypeOK, IsImage
<1>h. h \in Header /\ h.page_size \in PageSizes /\ h.unused0 \in Nat
  BY <1>0, HdrType DEF WellFormed
<1>l. /\ DtPos(h) \in Nat /\ EndPos(h) \in Nat
      /\ EndPos(h) = NextPage(DtPos(h), h.unused0, h.page_size)
      /\ DtPos(h) + h.unused0 <= EndPos(h)
  BY <1>h, Layout
<1>c. CarriesDt(img)' = CarriesDt(img)
  BY <1>0
<1>1. CASE xpc' = "security"
  <2>1. DumpDt
    BY <1>1 DEF ExtractNext, SearchSecurityHdr, FindHeader, DumpKernel, DumpRamdisk,
       StepOverMtkHeader, DumpSecond, SearchSecurity, ReadPastEnd, Dump, FailToRaise
  <2>2. xpos = DtPos(h)
    BY <2>1 DEF DumpDt, Progress, Positions
  <2>3. HasDt(img, xpos) <=> CarriesDt(img)
    <3>1. xpos + h.unused0 <= img.size
      BY <1>0, <2>2, PartsInFile
    <3>2. QED
      <4>1. HasDt(img, xpos) => CarriesDt(img)
        BY <2>2 DEF HasDt, CarriesDt
      <4>2. CarriesDt(img) => HasDt(img, xpos)
        BY <1>0, <1>h, <2>2, <3>1 DEF HasDt, CarriesDt
      <4>3. QED
        BY <4>1, <4>2 DEF HasDt, CarriesDt
  <2>4. xpos' = IF CarriesDt(img) THEN EndPos(h) ELSE DtPos(h)
    BY <1>l, <2>1, <2>2, <2>3 DEF DumpDt
  <2>5. QED
    BY <1>0, <1>1, <1>c, <2>4 DEF Ending, NothingLeftOutSilently
<1>2. CASE SearchSecurity /\ xpc' # "abort"
  <2> DEFINE fs == (IF img.sign THEN {"rkcrc"} ELSE {}) \cup
                   (IF img.sign \/ xpos < img.size THEN {"secure"} ELSE {})
  <2>1. xpc = "security" /\ xpc' = "done" /\ dir' = Raise(fs)
    BY <1>2 DEF SearchSecurity, FailToRaise
  <2>2. dir'["dt"] = dir["dt"] /\ (xpos < img.size => dir'["secure"] # NoFile)
    <3>1. fs \subseteq Flags /\ "dt" \in Payloads /\ (xpos < img.size => "secure" \in fs)
      BY DEF Flags, Payloads
    <3>2. QED
      BY <1>0, <2>1, <3>1, RaiseType, ZenonT(40) DEF Exists
  <2>3. HeaderAt(img) + EndPos(h) <= img.size /\ HeaderAt(img) \in Nat
    BY <1>0, HeaderFound DEF WellFormed
  <2>4. /\ xpos = IF CarriesDt(img) THEN EndPos(h) ELSE DtPos(h)
        /\ DtCut
    BY <2>1 DEF Ending, Progress, PartsCut
  <2>5. (dir["dt"] = NoFile) = ~CarriesDt(img)
    BY <1>h, <2>4 DEF DtCut, Slice, NoFile
  <2>6. ~CarriesDt(img) /\ xpos >= img.size => h.unused0 = 0
    BY <1>0, <1>h, <1>l, <2>3, <2>4
  <2>7. xpos >= img.size => HeaderAt(img) = 0 /\ img.size = EndPos(h)
    BY <1>0, <1>h, <1>l, <2>3, <2>4
  <2>8. CarriesDt(img) => h.unused0 # 0
    BY DEF CarriesDt
  <2>9. QED
    BY <1>0, <2>1, <2>2, <2>5, <2>6, <2>7, <2>8 DEF Ending, NothingLeftOutSilently
<1>3. CASE xpc' \notin {"security", "done"}
  BY <1>3 DEF Ending, NothingLeftOutSilently
<1>4. QED
  BY <1>1, <1>2, <1>3 DEF ExtractNext, SearchSecurityHdr, FindHeader, DumpKernel,
     DumpRamdisk, StepOverMtkHeader, DumpSecond, DumpDt, ReadPastEnd, Dump, FailToRaise

LEMMA EndingStays ==
    ASSUME Ending, UNCHANGED <<img, dir, xpc, xpos>> PROVE Ending'
  BY DEF Ending, NothingLeftOutSilently

(***************************************************************************)
(* ExtractNothingLeftOutSilently: on any well formed image, when main()    *)
(* ends well without the flag "secure", it has cut the whole file.         *)
(***************************************************************************)
THEOREM ExtractNothingLeftOutSilently == ExtractSpec => []NothingLeftOutSilently
<1> DEFINE Inv == CutInv /\ (WellFormed(img) => Ending)
<1>1. ExtractInit => Inv
  BY CutInit DEF ExtractInit, ExtractStart, Ending, NothingLeftOutSilently
<1>2. Inv /\ [ExtractNext]_extractVars => Inv'
  <2> SUFFICES ASSUME Inv, [ExtractNext]_extractVars, WellFormed(img)' PROVE Ending'
    BY CutStep
  <2>1. WellFormed(img) /\ ExtractTyped /\ Progress /\ Ending
    BY ExtractReads DEF CutInv
  <2>2. QED
    BY <2>1, EndStep, EndingStays DEF extractVars
<1>3. Inv => NothingLeftOutSilently
  BY DEF Ending, NothingLeftOutSilently
<1> HIDE DEF Inv
<1>4. QED
  BY <1>1, <1>2, <1>3, PTL DEF ExtractSpec

-----------------------------------------------------------------------------
(***************************************************************************)
(* Out of an image whose sizes an int can hold, main() cuts files whose    *)
(* lengths an int can hold.                                                *)
(***************************************************************************)
LEMMA FitsSizes ==
    ASSUME IsImage(img), Fits(img)
    PROVE  /\ img.size \in Nat /\ img.size + MtkHdrLen < U32
           /\ img.hdr.kernel_size \in Nat /\ img.hdr.kernel_size + MtkHdrLen < U32
           /\ img.hdr.ramdisk_size \in Nat /\ img.hdr.ramdisk_size + MtkHdrLen < U32
           /\ img.hdr.second_size \in Nat /\ img.hdr.second_size + MtkHdrLen < U32
           /\ img.hdr.unused0 \in Nat /\ img.hdr.unused0 + MtkHdrLen < U32
  BY HdrType DEF Fits

LEMMA DumpSmall ==
    ASSUME IsImage(img), Fits(img), HasHeader(img), DirType, Small,
           NEW name \in Names, NEW off \in Nat, NEW len \in Int, len + MtkHdrLen < U32,
           NEW next, Dump(name, off, len, next)
    PROVE  Small'
<1>1. /\ img.size \in Nat /\ img.size + MtkHdrLen < U32 /\ HeaderAt(img) \in Nat
      /\ U32 \in Nat /\ U32 > 65536 /\ MtkHdrLen = 512
  BY FitsSizes, HeaderFound, U32Assumption DEF MtkHdrLen
<1>2. InTheFile(off) \in Int /\ InTheFile(off) <= img.size
  BY <1>1 DEF InTheFile
<1>3. PICK f : dir' = [dir EXCEPT ![name] = f] /\ f.len + MtkHdrLen < U32
  <2>1. CASE dir' = [dir EXCEPT ![name] = [what |-> BlobAt(img.at, off), len |-> len]]
    <3>1. [what |-> BlobAt(img.at, off), len |-> len].len + MtkHdrLen < U32
      OBVIOUS
    <3>2. QED
      BY <2>1, <3>1, Zenon
  <2>2. CASE dir' = [dir EXCEPT ![name] = [what |-> Junk, len |-> len]]
    <3>1. [what |-> Junk, len |-> len].len + MtkHdrLen < U32
      OBVIOUS
    <3>2. QED
      BY <2>2, <3>1, Zenon
  <2>3. CASE \E n \in {0, InTheFile(off)} :
               dir' = [dir EXCEPT ![name] = [what |-> BlobAt(img.at, off), len |-> n]]
    <3>1. PICK n \in {0, InTheFile(off)} :
            dir' = [dir EXCEPT ![name] = [what |-> BlobAt(img.at, off), len |-> n]]
      BY <2>3
    <3>2. [what |-> BlobAt(img.at, off), len |-> n].len + MtkHdrLen < U32
      BY <1>1, <1>2
    <3>3. QED
      BY <3>1, <3>2, Zenon
  <2>4. CASE dir' = [dir EXCEPT ![name] = Empty] \/ dir' = [dir EXCEPT ![name] = NoFile]
    <3>1. Empty.len + MtkHdrLen < U32 /\ NoFile.len + MtkHdrLen < U32
      BY <1>1 DEF Empty, NoFile
    <3>2. QED
      BY <2>4, <3>1, Zenon
  <2>5. QED
    BY <2>1, <2>2, <2>3, <2>4 DEF Dump
<1>4. \A m \in Names : dir'[m].len + MtkHdrLen < U32
  <2> TAKE m \in Names
  <2>1. CASE m = name
    BY <1>3, <2>1 DEF DirType
  <2>2. CASE m # name
    <3>1. dir'[m] = dir[m]
      BY <1>3, <2>2 DEF DirType
    <3>2. QED
      BY <3>1 DEF Small
  <2>3. QED
    BY <2>1, <2>2
<1>5. QED
  BY <1>4 DEF Small

LEMMA RaiseSmall ==
    ASSUME DirType, Small, NEW flags, flags \subseteq Flags, dir' = Raise(flags)
    PROVE  Small'
<1>1. \A m \in Names \ flags : dir'[m] = dir[m]
  BY RaiseType
<1>2. \A m \in flags : dir'[m].len = 0
  BY RaiseType
<1>3. 0 + MtkHdrLen < U32
  BY U32Assumption DEF MtkHdrLen
<1>4. \A m \in Names : dir'[m].len + MtkHdrLen < U32
  <2> TAKE m \in Names
  <2>1. CASE m \in flags
    BY <1>2, <1>3, <2>1
  <2>2. CASE m \notin flags
    BY <1>1, <2>2 DEF Small
  <2>3. QED
    BY <2>1, <2>2
<1>5. QED
  BY <1>4 DEF Small

LEMMA FailSmall ==
    ASSUME DirType, Small, NEW before, before \subseteq Flags, NEW flag \in Flags,
           FailToRaise(before, flag)
    PROVE  Small'
<1>1. \A m \in Names : dir'[m] \in {dir[m], Empty, NoFile}
  BY FailType
<1>2. Empty.len + MtkHdrLen < U32 /\ NoFile.len + MtkHdrLen < U32
  BY U32Assumption DEF Empty, NoFile, MtkHdrLen
<1>3. \A m \in Names : dir'[m].len + MtkHdrLen < U32
  <2> TAKE m \in Names
  <2>1. dir'[m] = dir[m] \/ dir'[m] = Empty \/ dir'[m] = NoFile
    BY <1>1
  <2>2. dir[m].len + MtkHdrLen < U32
    BY DEF Small
  <2>3. QED
    BY <1>2, <2>1, <2>2, Zenon
<1>4. QED
  BY <1>3 DEF Small

LEMMA ExtractSmall ==
    ASSUME ExtractTyped, Small, Fits(img), ExtractNext
    PROVE  Small'
<1> DEFINE h == img.hdr
<1>0. IsImage(img) /\ DirType /\ xpos \in Nat /\ xskip \in Nat /\ Parsed
  BY DEF ExtractTyped, ExtractTypeOK
<1>n. {"kernel", "ramdisk", "ramdisk.gz", "ramdisk.lzma", "second", "dt"} \subseteq Names
  BY DEF Payloads, Names
<1>h. /\ h.kernel_size \in Int /\ h.kernel_size + MtkHdrLen < U32
      /\ h.ramdisk_size \in Int /\ h.ramdisk_size + MtkHdrLen < U32
      /\ h.second_size \in Int /\ h.second_size + MtkHdrLen < U32
      /\ h.unused0 \in Int /\ h.unused0 + MtkHdrLen < U32
  BY <1>0, FitsSizes
<1> HIDE DEF h
<1>u. ASSUME UNCHANGED dir PROVE Small'
  BY <1>u DEF Small
<1>r. ASSUME NEW flags \in SUBSET Flags, dir' = Raise(flags) PROVE Small'
  BY <1>0, <1>r, RaiseSmall
<1>s. ASSUME NEW fs \in SUBSET Flags, NEW f \in Flags, FailToRaise(fs, f) PROVE Small'
  BY <1>0, <1>s, FailSmall
<1>t. OtherFlags \in SUBSET Flags /\ MtkFlagNames \in SUBSET Flags
  BY FlagSteps
<1>d. ASSUME xpc \in {"kernel", "ramdisk", "second", "dt"}, NEW name \in Names,
             NEW off \in Nat, NEW len \in Int, len + MtkHdrLen < U32,
             NEW next, Dump(name, off, len, next)
      PROVE  Small'
  BY <1>0, <1>d, DumpSmall DEF Parsed
<1>1. CASE SearchSecurityHdr \/ SearchSecurity
  <2>1. CASE \E fs \in SUBSET OtherFlags : dir' = Raise(fs)
    BY <1>r, <1>t, <2>1
  <2>2. CASE \E fs \in SUBSET OtherFlags, f \in OtherFlags : FailToRaise(fs, f)
    BY <1>s, <1>t, <2>2
  <2>3. QED
    BY <1>1, <2>1, <2>2, FlagSteps
<1>2. CASE FindHeader \/ ReadPastEnd
  BY <1>2, <1>u DEF FindHeader, ReadPastEnd
<1>3. CASE DumpKernel
  BY <1>0, <1>n, <1>h, <1>d, <1>3 DEF DumpKernel, h
<1>4. CASE DumpRamdisk
  <2>1. PICK name \in {"ramdisk.gz", "ramdisk.lzma", "ramdisk"}, next \in {"second", "abort"} :
          xpc = "ramdisk" /\ Dump(name, xpos + xskip, h.ramdisk_size - xskip, next)
    BY <1>4 DEF DumpRamdisk, h
  <2>2. /\ name \in Names /\ xpos + xskip \in Nat /\ h.ramdisk_size - xskip \in Int
        /\ (h.ramdisk_size - xskip) + MtkHdrLen < U32
    BY <1>0, <1>n, <1>h, U32Assumption DEF MtkHdrLen
  <2>3. QED
    BY <1>d, <2>1, <2>2
<1>5. CASE StepOverMtkHeader
  <2>1. CASE \E fs \in SUBSET MtkFlagNames : dir' = Raise(fs)
    BY <1>r, <1>t, <2>1
  <2>2. CASE \E fs \in SUBSET MtkFlagNames, f \in MtkFlagNames : FailToRaise(fs, f)
    BY <1>s, <1>t, <2>2
  <2>3. QED
    BY <1>5, <1>u, <2>1, <2>2, FlagSteps
<1>6. CASE DumpSecond
  BY <1>0, <1>n, <1>h, <1>d, <1>u, <1>6 DEF DumpSecond, h
<1>7. CASE DumpDt
  BY <1>0, <1>n, <1>h, <1>d, <1>u, <1>7 DEF DumpDt, h
<1>8. QED
  BY <1>1, <1>2, <1>3, <1>4, <1>5, <1>6, <1>7 DEF ExtractNext

-----------------------------------------------------------------------------
(***************************************************************************)
(* An image with one MTK header at most in front of its ramdisk: past the  *)
(* ramdisk, main() has stepped over that header and no more, and the flags *)
(* tell which one it was.                                                  *)
(***************************************************************************)
LEMMA SteppedOnce ==
    ASSUME ExtractTyped, WellFormed(img), Stepped, OneMtkHeader(img), xpc \in PastRamdisk
    PROVE  /\ xskip = MtkLen(img) /\ Archive(img).fmt \in {"gzip", "lzma"}
           /\ RamdiskName = IF Archive(img).fmt = "gzip" THEN "ramdisk.gz" ELSE "ramdisk.lzma"
           /\ Exists("ramdisk-mtk") <=> MtkLen(img) # 0
           /\ MtkLen(img) # 0 => /\ TopFormat \in MtkFlavours
                                 /\ Exists("ramdisk-mtk-boot") <=> TopFormat = "mtkboot"
<1>1. /\ xskip \in {0, MtkLen(img)}
      /\ Exists("ramdisk-mtk-boot") => TopFormat = "mtkboot"
      /\ Exists("ramdisk-mtk") => TopFormat \in MtkFlavours
      /\ BlobAt(img.at, RamdiskPos(img.hdr) + xskip).fmt \in {"gzip", "lzma"}
      /\ \/ xskip = 0
         \/ /\ xskip >= MtkHdrLen /\ TopFormat \in MtkFlavours
            /\ Exists("ramdisk-mtk") /\ Exists(FlavourFlag(TopFormat))
  BY DEF Stepped, PastRamdisk
<1>2. MtkLen(img) = IF TopFormat \in MtkFlavours THEN 512 ELSE 0
  BY DEF MtkLen, TopFormat, MtkHdrLen
<1>3. "gzip" \notin MtkFlavours /\ "lzma" \notin MtkFlavours
  BY DEF MtkFlavours
<1>4. xskip = MtkLen(img)
  <2>1. CASE xskip = 0 /\ TopFormat \in MtkFlavours
    <3>1. RamdiskPos(img.hdr) + 0 = RamdiskPos(img.hdr)
      BY HdrType, Layout DEF ExtractTyped, ExtractTypeOK, WellFormed
    <3>2. QED
      BY <1>1, <1>3, <2>1, <3>1 DEF TopFormat
  <2>2. QED
    BY <1>1, <1>2, <2>1
<1>5. QED
  BY <1>1, <1>2, <1>4 DEF Archive, RamdiskName, FlavourFlag

\* One that was stepped over is the only one.
LEMMA OneStep ==
    ASSUME ExtractTyped, WellFormed(img), Stepped, xskip <= MtkHdrLen, xpc \in PastRamdisk
    PROVE  OneMtkHeader(img)
<1>1. SUFFICES ASSUME MtkLen(img) # 0 PROVE Archive(img).fmt \notin MtkFlavours
  BY DEF OneMtkHeader
<1>2. MtkLen(img) = MtkHdrLen /\ TopFormat \in MtkFlavours
  BY <1>1 DEF MtkLen, TopFormat
<1>3. BlobAt(img.at, RamdiskPos(img.hdr) + xskip).fmt \in {"gzip", "lzma"} /\ xskip \in Nat
  BY DEF Stepped, ExtractTyped, ExtractTypeOK
<1>4. "gzip" \notin MtkFlavours /\ "lzma" \notin MtkFlavours
  BY DEF MtkFlavours
<1>5. CASE xskip = 0
  <2>1. RamdiskPos(img.hdr) + 0 = RamdiskPos(img.hdr)
    BY HdrType, Layout DEF ExtractTyped, ExtractTypeOK, WellFormed
  <2>2. QED
    BY <1>2, <1>3, <1>4, <1>5, <2>1 DEF TopFormat
<1>6. CASE xskip # 0
  <2>1. xskip >= MtkHdrLen
    BY <1>6 DEF Stepped, PastRamdisk
  <2>2. xskip = MtkLen(img)
    BY <1>2, <1>3, <2>1 DEF MtkHdrLen
  <2>3. QED
    BY <1>3, <1>4, <2>2 DEF Archive
<1>7. QED
  BY <1>5, <1>6

(***************************************************************************)
(* In a directory that had no ramdisk.gz, there is one only once main()    *)
(* has cut a ramdisk of that name.                                         *)
(***************************************************************************)
GzOnly == Exists("ramdisk.gz") => xpc \in PastRamdisk /\ RamdiskName = "ramdisk.gz"

LEMMA GzOnlyStep ==
    ASSUME ExtractTyped, WellFormed(img), Progress, GzOnly, ExtractNext, xpc' # "abort"
    PROVE  GzOnly'
<1>1. img' = img
  BY ExtractReads
<1>2. CASE DumpRamdisk
  <2> DEFINE fmt == BlobAt(img.at, xpos + xskip).fmt
             name == CASE fmt = "gzip" -> "ramdisk.gz"
                       [] fmt = "lzma" -> "ramdisk.lzma"
                       [] OTHER        -> "ramdisk"
  <2>1. /\ xpc = "ramdisk" /\ xskip' = xskip
        /\ Dump(name, xpos + xskip, img.hdr.ramdisk_size - xskip,
                IF fmt \in {"gzip", "lzma"} THEN "second" ELSE "abort")
    BY <1>2 DEF DumpRamdisk
  <2>2. /\ xpos = RamdiskPos(img.hdr) /\ xpc' = "second" /\ fmt \in {"gzip", "lzma"}
        /\ dir["ramdisk.gz"] = NoFile
    BY <2>1 DEF Dump, Progress, Positions, GzOnly, Exists, PastRamdisk
  <2>3. CASE fmt = "gzip"
    BY <1>1, <2>1, <2>2, <2>3 DEF GzOnly, RamdiskName, PastRamdisk
  <2>4. CASE fmt # "gzip"
    <3>1. PICK f : dir' = [dir EXCEPT !["ramdisk.lzma"] = f]
      BY <2>1, <2>2, <2>4, Zenon DEF Dump
    <3>2. dir'["ramdisk.gz"] = NoFile
      BY <2>2, <3>1
    <3>3. QED
      BY <3>2 DEF GzOnly, Exists
  <2>5. QED
    BY <2>3, <2>4
<1>3. CASE ~DumpRamdisk
  <2>1. dir'["ramdisk.gz"] = dir["ramdisk.gz"]
    BY <1>3, Writers DEF RamdiskNames
  <2>2. (xpc \in PastRamdisk => xpc' \in PastRamdisk /\ xskip' = xskip)
    BY DEF PastRamdisk, ExtractNext, SearchSecurityHdr, FindHeader, DumpKernel, DumpRamdisk,
       StepOverMtkHeader, DumpSecond, DumpDt, SearchSecurity, ReadPastEnd, Dump, FailToRaise
  <2>3. QED
    BY <1>1, <2>1, <2>2 DEF GzOnly, Exists, RamdiskName
<1>4. QED
  BY <1>2, <1>3

=============================================================================
