--------------------------- MODULE ChangesProofs ---------------------------
(***************************************************************************)
(* Proofs about the script of changes, for every ramdisk, whatever types   *)
(* its policy has beyond those of its release, and every command line; and *)
(* about the builds that run it, for any number of runs that fail or are   *)
(* killed anywhere.                                                        *)
(***************************************************************************)
EXTENDS Build, TLAPS

FilesType == [Names -> SUBSET Edits]

(***************************************************************************)
(* The files after an edit, and the list after addFile.                    *)
(***************************************************************************)
LEMMA EditAdds ==
  ASSUME NEW fs \in FilesType, NEW n \in Names, NEW es \in SUBSET Edits
  PROVE  /\ Edit(fs, n, es) \in FilesType
         /\ Edit(fs, n, es)[n] = (fs[n] \ NoFile) \cup es
         /\ \A m \in Names : m # n => Edit(fs, n, es)[m] = fs[m]
  BY DEF Edit, FilesType

\* Names that occur in no other.
LEMMA AddFileAdds ==
  ASSUME NEW n \in Names, NEW ls \in SUBSET Names,
         n = "init" => ls \cap {"init.rc", "init.superuser.rc"} = {},
         n = "fstab" => "fstab.qcom" \notin ls
  PROVE  AddFile(n, ls) = ls \cup {n}
<1>1. CASE n \in ls
  BY <1>1 DEF AddFile, OccursIn
<1>2. CASE n \notin ls
  <2>1. \A l \in ls : ~OccursIn(n, l)
    BY <1>2 DEF OccursIn
  <2>2. QED
    BY <2>1 DEF AddFile
<1>3. QED
  BY <1>1, <1>2

LEMMA OriginalType == ASSUME NEW n \in Names PROVE Original(n) \in SUBSET Edits
<1>1. Original(n) = NoFile \/ Original(n) = {}
  BY DEF Original
<1>2. NoFile \in SUBSET Edits
  BY DEF NoFile, Edits
<1>3. QED
  BY <1>1, <1>2

(***************************************************************************)
(* The inductive invariant.                                                *)
(***************************************************************************)
EarlyStages == {"detect", "copysu", "parse", "domains"}
LateStages  == {"fstabs", "fstab", "samsung", "unsupported", "init.rc", "hidesu",
                "list init.rc", "version", "pack"}
BlockStages == Grants \cup {"permissive"}

\* What DetectVersion makes of the releases.
VersionOf == CASE ~ramdisk.policy                                  -> 19
               [] ramdisk.policy /\ ramdisk.release = "7.0"         -> 24
               [] ramdisk.policy /\ ramdisk.release = "6.0"         -> 23
               [] ramdisk.policy /\ ramdisk.release = "5.1"         -> 21
               [] ramdisk.policy /\ ramdisk.release \in {"4.4", "5.0"} -> 19

Detected ==
    /\ cpc = "detect" => files = [n \in Names |-> Original(n)]
    /\ cpc # "detect" => android = VersionOf

\* The policy is there from the beginning or not at all; the block that edits it
\* is only entered when it is, and begins with the domains of su.
PolicyOK ==
    /\ Exists("sepolicy") <=> ramdisk.policy
    /\ cpc \in BlockStages \cup {"domains"} => ramdisk.policy /\ ~unsupported
    /\ (cpc \in BlockStages \cup LateStages /\ ramdisk.policy /\ ~unsupported)
          => "domains" \in files["sepolicy"]
    /\ "domains" \in files["sepolicy"] => "sepolicy" \in listed

\* Names that occur in others are listed before these.
OrderOK ==
    /\ cpc \notin {"version", "pack"} => listed \cap {"init.rc", "init.superuser.rc"} = {}
    /\ cpc \in EarlyStages \cup BlockStages \cup {"fstabs"} => listed \cap Fstabs = {}
    /\ left \in FstabLists
    /\ (cpc = "fstab" /\ left # <<>> /\ Head(left) = "fstab") => "fstab.qcom" \notin listed

\* A file that was edited is listed; init.rc is edited a few stages before.
ListedOK ==
    \A n \in Names :
       \/ n \in listed \/ files[n] = Original(n) \/ SamsungEditLost(n)
       \/ n = "init.rc" /\ cpc \in {"hidesu", "list init.rc"}

LabelsOK ==
    /\ "su:su_daemon" \in files["init.rc"] => ~unsupported
    /\ "hidesu:su" \in files["init.rc"] =>
          "domains" \in files["sepolicy"] \/ "su" \in ramdisk.extra

EndedOK == ended = "ok" => cpc = "pack"

ChangesInv ==
    /\ ChangesTypeOK /\ Detected /\ PolicyOK /\ OrderOK /\ ListedOK /\ LabelsOK
    /\ EndedOK /\ GuardsFitReleases

-----------------------------------------------------------------------------
LEMMA ChangesInvInit == ChangesInit => ChangesInv
<1> SUFFICES ASSUME ChangesInit PROVE ChangesInv
  OBVIOUS
<1> USE RamdisksAssumption, ArgumentsAssumption DEF ChangesInit, Fresh
<1>1. files \in FilesType
  BY OriginalType DEF FilesType
<1>2. ChangesTypeOK
  BY <1>1 DEF ChangesTypeOK, DefaultOpts, Stages, Grants, FilesType
<1>3. "sepolicy" \in Names /\ "init.rc" \in Names
  BY DEF Names
<1>4. Detected /\ OrderOK
  BY DEF Detected, OrderOK, FstabLists, EarlyStages
<1>5. files["sepolicy"] = (IF ramdisk.policy THEN {} ELSE NoFile) /\ files["init.rc"] = {}
  BY <1>3 DEF Original, Fstabs
<1>6. PolicyOK /\ LabelsOK
  <2>1. cpc \notin BlockStages \cup {"domains"} /\ cpc \notin LateStages
    BY DEF BlockStages, LateStages, Grants
  <2>2. "domains" \notin files["sepolicy"] /\ (Exists("sepolicy") <=> ramdisk.policy)
    <3>1. NoFile # {} /\ "domains" \notin NoFile /\ ramdisk.policy \in BOOLEAN
      BY DEF NoFile
    <3>2. QED
      BY <1>5, <3>1 DEF Exists
  <2>3. QED
    BY <1>5, <2>1, <2>2 DEF PolicyOK, LabelsOK
<1>7. ListedOK /\ EndedOK /\ GuardsFitReleases
  BY DEF ListedOK, EndedOK, GuardsFitReleases
<1>8. QED
  BY <1>2, <1>4, <1>6, <1>7 DEF ChangesInv

\* What the script puts into an fstab file and into init.rc.
LEMMA FstabEdits ==
  ASSUME ChangesInv
  PROVE  (IF opts.noverity THEN {"noverity"} ELSE {})
            \cup (CASE opts.nocrypt = 0 -> {}
                    [] opts.nocrypt = 1 -> {"nocrypt"}
                    [] opts.nocrypt = 2 -> {"nocrypt_all"}) \in SUBSET Edits
<1>1. opts.nocrypt \in {0, 1, 2}
  BY DEF ChangesInv, ChangesTypeOK
<1>2. QED
  BY <1>1 DEF Edits

LEMMA InitRcEdits ==
  SuService \cup {IF opts.hidesu THEN "chmod 0750" ELSE "chmod 0755"}
    \cup (IF opts.keeprecovery THEN {} ELSE {"no flash_recovery"}) \in SUBSET Edits
  BY DEF SuService, Edits

(***************************************************************************)
(* What the steps do to the files: an edit adds to a file, and removes     *)
(* nothing from any.                                                       *)
(***************************************************************************)
LEMMA FilesStep ==
  ASSUME ChangesInv, ChangesNext
  PROVE  /\ UNCHANGED inputs
         /\ files' \in FilesType /\ listed' \subseteq Names
         /\ \A n \in Names : files[n] \ NoFile \subseteq files'[n]
         /\ listed \subseteq listed'
<1> DEFINE Fine == /\ files' \in FilesType /\ listed' \subseteq Names
                   /\ \A n \in Names : files[n] \ NoFile \subseteq files'[n]
                   /\ listed \subseteq listed'
<1>0. UNCHANGED inputs
  BY DEF ChangesNext, DetectVersion, CopySu, ParseArgument, ParsedArguments, MakeDomains,
     Grant, PermissiveSysinit, StartFstabs, EditFstab, NoFstab, Samsung, DisableSELinux,
     EditInitRc, HideSu, ListInitRc, PutVersion, PackRamdisk
<1> SUFFICES Fine
  BY <1>0
<1>1. files \in FilesType /\ listed \subseteq Names
  BY DEF ChangesInv, ChangesTypeOK, FilesType
<1>2. ASSUME NEW fs \in FilesType, NEW n \in Names, NEW es \in SUBSET Edits
      PROVE  /\ Edit(fs, n, es) \in FilesType
             /\ \A m \in Names : fs[m] \ NoFile \subseteq Edit(fs, n, es)[m]
  <2>1. Edit(fs, n, es)[n] = (fs[n] \ NoFile) \cup es
    BY EditAdds
  <2>2. \A m \in Names : m # n => Edit(fs, n, es)[m] = fs[m]
    BY EditAdds
  <2>3. QED
    BY <2>1, <2>2, EditAdds
<1>3. \A n \in Names, ls \in SUBSET Names :
         AddFile(n, ls) \in SUBSET Names /\ ls \subseteq AddFile(n, ls)
  BY DEF AddFile
<1> DEFINE Listing(n, m) == AddFile(n, AddFile(m, listed))
<1>2a. \A n, m \in Names : Listing(n, m) \subseteq Names /\ listed \subseteq Listing(n, m)
  BY <1>1, <1>3
<1> HIDE DEF Listing
<1>4. \A n \in Names, es \in SUBSET Edits, m \in Names :
         files' = Edit(files, n, es) /\ listed' = AddFile(m, listed) => Fine
  BY <1>1, <1>2, <1>3
<1>5. \A n \in Names, es \in SUBSET Edits :
         files' = Edit(files, n, es) /\ UNCHANGED listed => Fine
  BY <1>1, <1>2
<1>6. \A n \in Names : UNCHANGED files /\ listed' = AddFile(n, listed) => Fine
  BY <1>1, <1>3
<1>7. UNCHANGED <<files, listed>> => Fine
  BY <1>1
<1>8. /\ {"sepolicy", "init", "init.rc", "init.superuser.rc", "sbin/su", "sbin/hidesu",
          "xxenforce", "super-bootimg", "fstab", "fstab.qcom"} \subseteq Names
      /\ Grants \subseteq Edits
  BY DEF Names, Fstabs, Edits
<1> HIDE DEF Fine
<1>9. CASE CopySu
  BY <1>4, <1>8, <1>9 DEF CopySu, Edits
<1>10. CASE MakeDomains
  BY <1>4, <1>8, <1>10 DEF MakeDomains, Edits
<1>11. ASSUME NEW stage \in Grants, Grant(stage)
       PROVE  Fine
  <2>1. {stage} \in SUBSET Edits
    BY <1>8
  <2>2. QED
    BY <1>4, <1>6, <1>8, <1>11, <2>1 DEF Grant
<1>12. CASE PermissiveSysinit
  BY <1>5, <1>7, <1>8, <1>12 DEF PermissiveSysinit, Edits
<1>13. CASE EditFstab
  <2>1. Head(left) \in Names
    BY <1>8, <1>13 DEF EditFstab, ChangesInv, OrderOK, FstabLists
  <2>2. PICK es \in SUBSET Edits : files' = Edit(files, Head(left), es)
    BY <1>13, FstabEdits DEF EditFstab
  <2>3. QED
    BY <1>4, <1>13, <2>1, <2>2 DEF EditFstab
<1>14. CASE Samsung
  BY <1>5, <1>7, <1>8, <1>14 DEF Samsung, Edits
<1>15. CASE DisableSELinux
  <2>1. CASE unsupported
    <3>1. /\ files' = Edit(Edit(files, "init", {"no enforce"}), "xxenforce", {"1"})
          /\ listed' = Listing("xxenforce", "init")
      BY <1>15, <2>1 DEF DisableSELinux, Listing
    <3>2. {"no enforce"} \in SUBSET Edits /\ {"1"} \in SUBSET Edits
      BY DEF Edits
    <3>3. /\ Edit(files, "init", {"no enforce"}) \in FilesType
          /\ \A n \in Names : files[n] \ NoFile \subseteq Edit(files, "init", {"no enforce"})[n]
      BY <1>1, <1>2, <1>8, <3>2
    <3>4. /\ files' \in FilesType
          /\ \A n \in Names : files[n] \ NoFile \subseteq files'[n]
      BY <1>2, <1>8, <3>1, <3>2, <3>3
    <3>5. QED
      BY <1>2a, <1>8, <3>1, <3>4 DEF Fine
  <2>2. CASE ~unsupported
    BY <1>7, <1>15, <2>2 DEF DisableSELinux
  <2>3. QED
    BY <2>1, <2>2
<1>16. CASE EditInitRc
  BY <1>5, <1>8, <1>16, InitRcEdits DEF EditInitRc
<1>17. CASE HideSu
  <2>1. CASE "su" \in Types
    <3> DEFINE fs1 == Edit(files, "sbin/hidesu", {"hidesu"})
               fs2 == Edit(fs1, "sepolicy", {"hidesu"})
               fs3 == Edit(fs2, "init.rc", {"hidesu", "hidesu:su"})
    <3>1. files' = fs3 /\ listed' = Listing("sepolicy", "sbin/hidesu")
      BY <1>17, <2>1 DEF HideSu, Listing
    <3>2. {"hidesu"} \in SUBSET Edits /\ {"hidesu", "hidesu:su"} \in SUBSET Edits
      BY DEF Edits
    <3>3. fs1 \in FilesType /\ \A n \in Names : files[n] \ NoFile \subseteq fs1[n]
      BY <1>1, <1>2, <1>8, <3>2
    <3>4. fs2 \in FilesType /\ \A n \in Names : fs1[n] \ NoFile \subseteq fs2[n]
      BY <1>2, <1>8, <3>2, <3>3
    <3>5. fs3 \in FilesType /\ \A n \in Names : fs2[n] \ NoFile \subseteq fs3[n]
      BY <1>2, <1>8, <3>2, <3>4
    <3> HIDE DEF fs1, fs2, fs3
    <3>6. \A n \in Names : files[n] \ NoFile \subseteq fs3[n]
      BY <3>3, <3>4, <3>5
    <3>7. QED
      BY <1>2a, <1>8, <3>1, <3>5, <3>6 DEF Fine
  <2>2. CASE "su" \notin Types
    BY <1>7, <1>17, <2>2 DEF HideSu
  <2>3. QED
    BY <2>1, <2>2
<1>18. CASE ListInitRc
  <2>1. CASE Exists("init.superuser.rc")
    <3>1. /\ files' = Edit(files, "init.superuser.rc", {"emptied"})
          /\ listed' = Listing("init.superuser.rc", "init.rc")
      BY <1>18, <2>1 DEF ListInitRc, Listing
    <3>2. {"emptied"} \in SUBSET Edits
      BY DEF Edits
    <3>3. /\ files' \in FilesType
          /\ \A n \in Names : files[n] \ NoFile \subseteq files'[n]
      BY <1>1, <1>2, <1>8, <3>1, <3>2
    <3>4. QED
      BY <1>2a, <1>8, <3>1, <3>3 DEF Fine
  <2>2. CASE ~Exists("init.superuser.rc")
    BY <1>6, <1>8, <1>18, <2>2 DEF ListInitRc
  <2>3. QED
    BY <2>1, <2>2
<1>19. CASE PutVersion
  BY <1>4, <1>7, <1>8, <1>19 DEF PutVersion, Edits
<1>20. CASE \/ DetectVersion \/ ParseArgument \/ ParsedArguments \/ StartFstabs
            \/ NoFstab \/ PackRamdisk
  BY <1>7, <1>20 DEF DetectVersion, ParseArgument, ParsedArguments, StartFstabs, NoFstab,
     PackRamdisk
<1>21. QED
  BY <1>9, <1>10, <1>11, <1>12, <1>13, <1>14, <1>15, <1>16, <1>17, <1>18, <1>19, <1>20
  DEF ChangesNext

(***************************************************************************)
(* Every step keeps the types.                                             *)
(***************************************************************************)
LEMMA StagesOf ==
  ASSUME NEW stage \in Grants
  PROVE  After(stage) \in BlockStages \cup {"fstabs"}
  BY DEF After, AfterModes, BlockStages, Grants

\* What is left of a list of fstab files after its head.
LEMMA TailOfFstabs ==
  ASSUME NEW fs \in FstabLists
  PROVE  /\ fs \in Seq(Fstabs)
         /\ fs # <<>> => /\ Head(fs) \in Fstabs
                         /\ Tail(fs) \in FstabLists
                         /\ Tail(fs) = <<>> \/ (Head(fs) = "fstab" /\ Tail(fs) = <<"fstab.qcom">>)
<1>1. CASE fs = <<>>
  BY <1>1
<1>2. CASE fs = <<"fstab">>
  <2>1. Head(fs) = "fstab" /\ Tail(fs) = <<>> /\ fs \in Seq(Fstabs)
    BY <1>2 DEF Fstabs
  <2>2. QED
    BY <2>1 DEF Fstabs, FstabLists
<1>3. CASE fs = <<"fstab.qcom">>
  <2>1. Head(fs) = "fstab.qcom" /\ Tail(fs) = <<>> /\ fs \in Seq(Fstabs)
    BY <1>3 DEF Fstabs
  <2>2. QED
    BY <2>1 DEF Fstabs, FstabLists
<1>4. CASE fs = <<"fstab", "fstab.qcom">>
  <2>1. Head(fs) = "fstab" /\ Tail(fs) = <<"fstab.qcom">> /\ fs \in Seq(Fstabs)
    BY <1>4 DEF Fstabs
  <2>2. QED
    BY <2>1 DEF Fstabs, FstabLists
<1>5. QED
  BY <1>1, <1>2, <1>3, <1>4 DEF FstabLists

LEMMA TypeStep ==
  ASSUME ChangesInv, ChangesNext
  PROVE  ChangesTypeOK' /\ left' \in FstabLists
<1>1. UNCHANGED inputs /\ files' \in FilesType /\ listed' \subseteq Names
  BY FilesStep
<1>2. /\ cpc \in Stages /\ ended \in {"running", "ok", "failed"} /\ left \in FstabLists
      /\ android \in {0, 19, 21, 23, 24} /\ argv \in Seq(STRING)
  BY DEF ChangesInv, ChangesTypeOK, OrderOK
<1>3. cpc' \in Stages /\ ended' \in {"running", "ok", "failed"}
  <2>1. BlockStages \cup {"fstabs"} \subseteq Stages
    BY DEF BlockStages, Stages, Grants
  <2>2. ASSUME NEW stage \in Grants, Grant(stage)
        PROVE  cpc' \in Stages /\ ended' \in {"running", "ok", "failed"}
    BY <1>2, <2>1, <2>2, StagesOf DEF Grant, GoOn, Die
  <2>3. QED
    BY <1>2, <2>2 DEF ChangesNext, DetectVersion, CopySu, ParseArgument, ParsedArguments,
       MakeDomains, PermissiveSysinit, StartFstabs, EditFstab, NoFstab, Samsung,
       DisableSELinux, EditInitRc, HideSu, ListInitRc, PutVersion, PackRamdisk, GoOn, Die,
       Stages, Grants
<1>4. argv' \in Seq(STRING) /\ opts' \in [selinuxmode : {"eng", "power", "user"},
         noverity : BOOLEAN, nocrypt : 0 .. 2, keeprecovery : BOOLEAN, hidesu : BOOLEAN,
         permissivesysinit : BOOLEAN]
  <2>1. CASE ParseArgument
    BY <1>2, <2>1 DEF ParseArgument, ChangesInv, ChangesTypeOK
  <2>2. CASE UNCHANGED <<argv, opts>>
    BY <2>2 DEF ChangesInv, ChangesTypeOK
  <2>3. QED
    BY <2>1, <2>2 DEF ChangesNext, DetectVersion, CopySu, ParsedArguments, MakeDomains,
       Grant, PermissiveSysinit, StartFstabs, EditFstab, NoFstab, Samsung, DisableSELinux,
       EditInitRc, HideSu, ListInitRc, PutVersion, PackRamdisk
<1>5. android' \in {0, 19, 21, 23, 24}
  <2>1. CASE DetectVersion
    BY <2>1 DEF DetectVersion
  <2>2. CASE UNCHANGED android
    BY <1>2, <2>2
  <2>3. QED
    BY <2>1, <2>2 DEF ChangesNext, CopySu, ParseArgument, ParsedArguments, MakeDomains,
       Grant, PermissiveSysinit, StartFstabs, EditFstab, NoFstab, Samsung, DisableSELinux,
       EditInitRc, HideSu, ListInitRc, PutVersion, PackRamdisk
<1>6. left' \in FstabLists
  <2>1. CASE StartFstabs
    <3>1. ramdisk.fstabs \in FstabLists
      BY RamdisksAssumption DEF ChangesInv, ChangesTypeOK
    <3>2. QED
      BY <2>1, <3>1 DEF StartFstabs, FstabLists
  <2>2. CASE EditFstab
    <3>1. left # <<>> /\ left' = Tail(left)
      BY <2>2 DEF EditFstab
    <3>2. Tail(left) \in FstabLists
      BY <1>2, <3>1, TailOfFstabs
    <3>3. QED
      BY <3>1, <3>2
  <2>3. CASE UNCHANGED left
    BY <1>2, <2>3
  <2>4. QED
    BY <2>1, <2>2, <2>3 DEF ChangesNext, DetectVersion, CopySu, ParseArgument,
       ParsedArguments, MakeDomains, Grant, PermissiveSysinit, NoFstab, Samsung,
       DisableSELinux, EditInitRc, HideSu, ListInitRc, PutVersion, PackRamdisk
<1>7. left' \in Seq(Fstabs)
  BY <1>6, TailOfFstabs
<1>8. QED
  BY <1>1, <1>3, <1>4, <1>5, <1>6, <1>7 DEF ChangesInv, ChangesTypeOK, FilesType, inputs

(***************************************************************************)
(* The version is found once, from the policy as it was unpacked.          *)
(***************************************************************************)
LEMMA DetectedStep ==
  ASSUME ChangesInv, ChangesNext
  PROVE  Detected'
<1>1. UNCHANGED inputs
  BY FilesStep
<1>2. VersionOf' = VersionOf
  BY <1>1 DEF VersionOf, inputs
<1>3. CASE DetectVersion
  <2>1. /\ ramdisk.policy \in BOOLEAN /\ ramdisk.release \in Releases
        /\ ramdisk.extra \in SUBSET Extras
    BY RamdisksAssumption DEF ChangesInv, ChangesTypeOK
  <2>2. files["sepolicy"] = IF ramdisk.policy THEN {} ELSE NoFile
    BY <1>3 DEF DetectVersion, GoOn, ChangesInv, Detected, Original, Names, Fstabs
  <2>3. Exists("sepolicy") <=> ramdisk.policy
    <3>1. NoFile # {}
      BY DEF NoFile
    <3>2. QED
      BY <2>1, <2>2, <3>1 DEF Exists
  <2>4. ramdisk.policy => Types = TypesOf(ramdisk.release) \cup ramdisk.extra
    BY <2>2, <2>3 DEF Types
  <2>5. ramdisk.policy =>
          /\ "gatekeeper_service" \in Types <=> ramdisk.release \in {"6.0", "7.0"}
          /\ "service_manager" \in Types <=> ramdisk.release \notin {"4.4", "5.0"}
    BY <2>1, <2>4 DEF TypesOf, Extras, Releases
  <2>6. android' = VersionOf
    BY <1>3, <2>1, <2>3, <2>5 DEF DetectVersion, VersionOf, ReadByV1, Releases
  <2>7. QED
    BY <1>2, <1>3, <2>6 DEF Detected, DetectVersion, GoOn
<1>4. CASE ~DetectVersion
  <2>1. cpc # "detect" /\ cpc' # "detect" /\ UNCHANGED android
    <3>1. ASSUME NEW stage \in Grants, Grant(stage)
          PROVE  <2>1
      BY <3>1, StagesOf DEF Grant, GoOn, Die, BlockStages, Grants
    <3>2. QED
      BY <1>4, <3>1 DEF ChangesNext, CopySu, ParseArgument, ParsedArguments, MakeDomains,
         PermissiveSysinit, StartFstabs, EditFstab, NoFstab, Samsung, DisableSELinux,
         EditInitRc, HideSu, ListInitRc, PutVersion, PackRamdisk, GoOn, Die
  <2>2. QED
    BY <1>2, <2>1 DEF ChangesInv, Detected
<1>5. QED
  BY <1>3, <1>4

(***************************************************************************)
(* What the steps do to the policy: only an existing one is edited, and    *)
(* only MakeDomains, which lists it, adds the domains.  HideSu needs su.   *)
(***************************************************************************)
PolicyEdits == Grants \cup {"permissive sysinit", "no load_policy", "hidesu"}

LEMMA EditedElsewhere ==
  ASSUME NEW fs \in FilesType, NEW n \in Names, NEW es \in SUBSET Edits,
         NEW m \in Names, n # m
  PROVE  Edit(fs, n, es)[m] = fs[m] /\ Edit(fs, n, es) \in FilesType
  BY EditAdds

LEMMA OneEditElsewhere ==
  ASSUME NEW fs \in FilesType, NEW n \in Names, NEW e \in Edits, NEW m \in Names, n # m
  PROVE  Edit(fs, n, {e})[m] = fs[m] /\ Edit(fs, n, {e}) \in FilesType
<1>1. {e} \in SUBSET Edits
  OBVIOUS
<1>2. QED
  BY <1>1, EditedElsewhere

\* The two files that DisableSELinux edits.
LEMMA DisablingElsewhere ==
  ASSUME NEW fs \in FilesType, NEW m \in Names \ {"init", "xxenforce"}
  PROVE  Edit(Edit(fs, "init", {"no enforce"}), "xxenforce", {"1"})[m] = fs[m]
<1> DEFINE fs1 == Edit(fs, "init", {"no enforce"})
<1>1. "init" \in Names /\ "xxenforce" \in Names
  BY DEF Names
<1>2. "no enforce" \in Edits /\ "1" \in Edits
  BY DEF Edits
<1>3. fs1 \in FilesType /\ fs1[m] = fs[m]
  BY <1>1, <1>2, OneEditElsewhere
<1> HIDE DEF fs1
<1>4. Edit(fs1, "xxenforce", {"1"})[m] = fs1[m]
  BY <1>1, <1>2, <1>3, OneEditElsewhere
<1>5. QED
  BY <1>3, <1>4 DEF fs1

LEMMA SepolicyStep ==
  ASSUME ChangesInv, ChangesNext
  PROVE  \/ files'["sepolicy"] = files["sepolicy"]
         \/ MakeDomains /\ files'["sepolicy"] = (files["sepolicy"] \ NoFile) \cup {"domains"}
         \/ \E e \in PolicyEdits : /\ files'["sepolicy"] = (files["sepolicy"] \ NoFile) \cup {e}
                                   /\ Exists("sepolicy")
                                   /\ e \in Grants => Grant(e)
<1> DEFINE Kept == files'["sepolicy"] = files["sepolicy"]
           Edited(e) == files'["sepolicy"] = (files["sepolicy"] \ NoFile) \cup {e}
<1> SUFFICES \/ Kept
             \/ MakeDomains /\ Edited("domains")
             \/ \E e \in PolicyEdits : Edited(e) /\ Exists("sepolicy") /\ (e \in Grants => Grant(e))
  OBVIOUS
<1>1. files \in FilesType
  BY DEF ChangesInv, ChangesTypeOK, FilesType
<1>2. /\ {"sepolicy", "init", "init.rc", "init.superuser.rc", "sbin/su", "sbin/hidesu",
          "xxenforce", "super-bootimg", "fstab", "fstab.qcom"} \subseteq Names
      /\ "sepolicy" \notin Fstabs /\ Fstabs \subseteq Names
      /\ PolicyEdits \cup {"domains"} \subseteq Edits
  BY DEF Names, Fstabs, Edits, PolicyEdits
<1>3. ASSUME NEW e \in Edits, files' = Edit(files, "sepolicy", {e})
      PROVE  Edited(e)
  BY <1>1, <1>2, <1>3, EditAdds
<1>4. ASSUME NEW n \in Names \ {"sepolicy"}, NEW es \in SUBSET Edits,
             files' = Edit(files, n, es)
      PROVE  Kept
  BY <1>1, <1>2, <1>4, EditedElsewhere
<1>5. UNCHANGED files => Kept
  OBVIOUS
<1>6. ASSUME NEW t, t \in Types PROVE Exists("sepolicy")
  BY <1>6 DEF Types
<1>6a. {"permissive sysinit", "no load_policy", "hidesu"} \subseteq PolicyEdits \ Grants
  BY DEF PolicyEdits, Grants
<1> HIDE DEF Kept, Edited
<1>7. CASE CopySu
  BY <1>2, <1>4, <1>7 DEF CopySu, Edits
<1>8. CASE MakeDomains
  BY <1>2, <1>3, <1>8 DEF MakeDomains
<1>9. ASSUME NEW stage \in Grants, Grant(stage)
      PROVE  Kept \/ (Edited(stage) /\ Exists("sepolicy"))
  <2>1. cpc = stage /\ Exists("sepolicy")
    BY <1>9 DEF Grant, GoOn, Die, ChangesInv, PolicyOK, BlockStages
  <2>2. stage \in Edits
    BY <1>2 DEF PolicyEdits
  <2>3. QED
    BY <1>3, <1>5, <1>9, <2>1, <2>2 DEF Grant
<1>10. CASE PermissiveSysinit
  BY <1>2, <1>3, <1>5, <1>6, <1>6a, <1>10 DEF PermissiveSysinit
<1>11. CASE EditFstab
  <2>1. Head(left) \in Names \ {"sepolicy"}
    BY <1>2, <1>11, TailOfFstabs DEF EditFstab, ChangesInv, OrderOK
  <2>2. PICK es \in SUBSET Edits : files' = Edit(files, Head(left), es)
    BY <1>11, FstabEdits DEF EditFstab
  <2>3. QED
    BY <1>4, <2>1, <2>2
<1>12. CASE Samsung
  BY <1>2, <1>3, <1>5, <1>6, <1>6a, <1>12 DEF Samsung
<1>13. CASE DisableSELinux
  <2>1. CASE unsupported
    <3>1. files' = Edit(Edit(files, "init", {"no enforce"}), "xxenforce", {"1"})
      BY <1>13, <2>1 DEF DisableSELinux
    <3>2. "sepolicy" \in Names \ {"init", "xxenforce"}
      BY <1>2
    <3>3. QED
      BY <1>1, <3>1, <3>2, DisablingElsewhere DEF Kept
  <2>2. QED
    BY <1>5, <1>13, <2>1 DEF DisableSELinux
<1>14. CASE EditInitRc
  BY <1>2, <1>4, <1>14, InitRcEdits DEF EditInitRc
<1>15. CASE HideSu
  <2>1. CASE "su" \in Types
    <3> DEFINE fs1 == Edit(files, "sbin/hidesu", {"hidesu"})
               fs2 == Edit(fs1, "sepolicy", {"hidesu"})
    <3>1. files' = Edit(fs2, "init.rc", {"hidesu", "hidesu:su"})
      BY <1>15, <2>1 DEF HideSu
    <3>2. {"hidesu"} \in SUBSET Edits /\ {"hidesu", "hidesu:su"} \in SUBSET Edits
      BY DEF Edits
    <3>3. fs1 \in FilesType /\ fs1["sepolicy"] = files["sepolicy"]
      BY <1>1, <1>2, <3>2, OneEditElsewhere
    <3>4. fs2 \in FilesType /\ fs2["sepolicy"] = (fs1["sepolicy"] \ NoFile) \cup {"hidesu"}
      <4> HIDE DEF fs1
      <4>1. QED
        BY <1>2, <3>2, <3>3, EditAdds
    <3>5. files'["sepolicy"] = fs2["sepolicy"]
      <4> HIDE DEF fs2
      <4>1. QED
        BY <1>2, <3>1, <3>2, <3>4, EditedElsewhere
    <3>6. Edited("hidesu")
      BY <3>3, <3>4, <3>5 DEF Edited
    <3>7. QED
      BY <1>6, <1>6a, <2>1, <3>6
  <2>2. QED
    BY <1>5, <1>15, <2>1 DEF HideSu
<1>16. CASE ListInitRc
  BY <1>2, <1>4, <1>5, <1>16 DEF ListInitRc, Edits
<1>17. CASE PutVersion
  BY <1>2, <1>4, <1>5, <1>17 DEF PutVersion, Edits
<1>18. CASE \/ DetectVersion \/ ParseArgument \/ ParsedArguments \/ StartFstabs
            \/ NoFstab \/ PackRamdisk
  BY <1>5, <1>18 DEF DetectVersion, ParseArgument, ParsedArguments, StartFstabs, NoFstab,
     PackRamdisk
<1>19. CASE \E stage \in Grants : Grant(stage)
  <2>1. Grants \subseteq PolicyEdits
    BY DEF PolicyEdits
  <2>2. QED
    BY <1>9, <1>19, <2>1
<1>20. QED
  BY <1>7, <1>8, <1>10, <1>11, <1>12, <1>13, <1>14, <1>15, <1>16, <1>17, <1>18, <1>19
  DEF ChangesNext

LEMMA PolicyStep ==
  ASSUME ChangesInv, ChangesNext
  PROVE  PolicyOK'
<1>1. UNCHANGED inputs /\ files' \in FilesType /\ listed \subseteq listed'
  BY FilesStep
<1>2. files \in FilesType /\ ramdisk.policy \in BOOLEAN /\ unsupported \in BOOLEAN
  BY RamdisksAssumption DEF ChangesInv, ChangesTypeOK, FilesType
<1>3. /\ Exists("sepolicy")' <=> Exists("sepolicy")
      /\ "domains" \in files["sepolicy"] => "domains" \in files'["sepolicy"]
      /\ "domains" \in files'["sepolicy"] => "domains" \in files["sepolicy"] \/ MakeDomains
      /\ MakeDomains => "domains" \in files'["sepolicy"] /\ "sepolicy" \in listed'
  <2>1. "domains" \notin PolicyEdits /\ "absent" \notin PolicyEdits /\ "sepolicy" \in Names
    BY DEF PolicyEdits, Grants, Names
  <2>2. MakeDomains => Exists("sepolicy")
    BY DEF MakeDomains, GoOn, ChangesInv, PolicyOK
  <2>3. MakeDomains => "domains" \in files'["sepolicy"] /\ "sepolicy" \in listed'
    <3>1. "domains" \in Edits
      BY DEF Edits
    <3>2. MakeDomains => "domains" \in files'["sepolicy"]
      BY <1>2, <2>1, <3>1, EditAdds DEF MakeDomains
    <3>3. MakeDomains => "sepolicy" \in listed'
      BY DEF MakeDomains, AddFile, OccursIn
    <3>4. QED
      BY <3>2, <3>3
  <2>4. CASE files'["sepolicy"] = files["sepolicy"]
    BY <2>3, <2>4 DEF Exists
  <2>5. CASE MakeDomains /\ files'["sepolicy"] = (files["sepolicy"] \ NoFile) \cup {"domains"}
    BY <2>2, <2>3, <2>5 DEF Exists, NoFile
  <2>6. ASSUME NEW e \in PolicyEdits, Exists("sepolicy"),
               files'["sepolicy"] = (files["sepolicy"] \ NoFile) \cup {e}
        PROVE  <1>3
    BY <2>1, <2>3, <2>6 DEF Exists, NoFile
  <2>7. QED
    BY <2>4, <2>5, <2>6, SepolicyStep
<1>4. cpc' \in BlockStages \cup {"domains"} => ramdisk.policy /\ ~unsupported
  <2>1. CASE ParsedArguments
    BY <2>1 DEF ParsedArguments, GoOn, ChangesInv, PolicyOK, BlockStages, Grants
  <2>2. CASE cpc \in BlockStages \cup {"domains"}
    BY <2>2 DEF ChangesInv, PolicyOK
  <2>3. QED
    BY <2>1, <2>2 DEF ChangesNext, DetectVersion, CopySu, ParseArgument, MakeDomains, Grant,
       PermissiveSysinit, StartFstabs, EditFstab, NoFstab, Samsung, DisableSELinux,
       EditInitRc, HideSu, ListInitRc, PutVersion, PackRamdisk, GoOn, Die, BlockStages, Grants
<1>5. (cpc' \in BlockStages \cup LateStages /\ ramdisk.policy /\ ~unsupported)
         => MakeDomains \/ cpc \in BlockStages \cup LateStages
  BY DEF ChangesNext, DetectVersion, CopySu, ParseArgument, ParsedArguments, Grant,
     PermissiveSysinit, StartFstabs, EditFstab, NoFstab, Samsung, DisableSELinux,
     EditInitRc, HideSu, ListInitRc, PutVersion, PackRamdisk, GoOn, Die, BlockStages,
     LateStages, Grants, ChangesInv, PolicyOK
<1>6. QED
  BY <1>1, <1>3, <1>4, <1>5 DEF ChangesInv, PolicyOK, inputs

(***************************************************************************)
(* Only three actions edit init.rc, and only one gives a service the label *)
(* of su_daemon.                                                           *)
(***************************************************************************)
LEMMA InitRcStep ==
  ASSUME ChangesInv, ChangesNext
  PROVE  \/ files'["init.rc"] = files["init.rc"]
         \/ EditInitRc /\ \E es \in SUBSET Edits :
              /\ files'["init.rc"] = (files["init.rc"] \ NoFile) \cup es
              /\ "hidesu:su" \notin es
              /\ "su:su_daemon" \in es => ~unsupported
         \/ HideSu /\ "su" \in Types
              /\ files'["init.rc"] = (files["init.rc"] \ NoFile) \cup {"hidesu", "hidesu:su"}
<1> DEFINE Kept == files'["init.rc"] = files["init.rc"]
<1>1. files \in FilesType
  BY DEF ChangesInv, ChangesTypeOK, FilesType
<1>2. /\ {"sepolicy", "init", "init.rc", "init.superuser.rc", "sbin/su", "sbin/hidesu",
          "xxenforce", "super-bootimg", "fstab", "fstab.qcom"} \subseteq Names
      /\ "init.rc" \notin Fstabs /\ Fstabs \subseteq Names
      /\ PolicyEdits \cup {"domains"} \subseteq Edits
  BY DEF Names, Fstabs, Edits, PolicyEdits
<1>4. ASSUME NEW n \in Names \ {"init.rc"}, NEW es \in SUBSET Edits,
             files' = Edit(files, n, es)
      PROVE  Kept
  BY <1>1, <1>2, <1>4, EditedElsewhere
<1>5. UNCHANGED files => Kept
  OBVIOUS
<1>7. CopySu => Kept
  <2> HIDE DEF Kept
  <2>1. QED
    BY <1>2, <1>4 DEF CopySu, Edits
<1>8. \A e \in PolicyEdits \cup {"domains"} : files' = Edit(files, "sepolicy", {e}) => Kept
  BY <1>2, <1>4
<1>9. ASSUME NEW stage \in Grants, Grant(stage)
      PROVE  Kept
  <2>1. stage \in PolicyEdits
    BY DEF PolicyEdits
  <2>2. QED
    BY <1>5, <1>8, <1>9, <2>1 DEF Grant
<1>10. MakeDomains \/ PermissiveSysinit \/ Samsung => Kept
  <2> HIDE DEF Kept
  <2>1. QED
    BY <1>5, <1>8 DEF MakeDomains, PermissiveSysinit, Samsung, PolicyEdits
<1>11. EditFstab => Kept
  <2> HIDE DEF Kept
  <2>1. EditFstab => Head(left) \in Names \ {"init.rc"}
    BY <1>2, TailOfFstabs DEF EditFstab, ChangesInv, OrderOK
  <2>2. EditFstab => \E es \in SUBSET Edits : files' = Edit(files, Head(left), es)
    BY FstabEdits DEF EditFstab
  <2>3. QED
    BY <1>4, <2>1, <2>2
<1>13. DisableSELinux => Kept
  <2>1. CASE unsupported
    <3>1. DisableSELinux =>
            files' = Edit(Edit(files, "init", {"no enforce"}), "xxenforce", {"1"})
      BY <2>1 DEF DisableSELinux
    <3>2. "init.rc" \in Names \ {"init", "xxenforce"}
      BY <1>2
    <3>3. QED
      BY <1>1, <3>1, <3>2, DisablingElsewhere
  <2>2. QED
    BY <1>5, <2>1 DEF DisableSELinux
<1>14. ASSUME EditInitRc
       PROVE  \E es \in SUBSET Edits :
                 /\ files'["init.rc"] = (files["init.rc"] \ NoFile) \cup es
                 /\ "hidesu:su" \notin es
                 /\ "su:su_daemon" \in es => ~unsupported
  <2> DEFINE es == SuService \cup {IF opts.hidesu THEN "chmod 0750" ELSE "chmod 0755"}
                      \cup (IF opts.keeprecovery THEN {} ELSE {"no flash_recovery"})
  <2>1. es \in SUBSET Edits
    BY InitRcEdits
  <2>2. "hidesu:su" \notin es /\ ("su:su_daemon" \in es => ~unsupported)
    BY DEF SuService
  <2>3. files' = Edit(files, "init.rc", es)
    BY <1>14 DEF EditInitRc
  <2> HIDE DEF es
  <2>4. files'["init.rc"] = (files["init.rc"] \ NoFile) \cup es
    BY <1>1, <1>2, <2>1, <2>3, EditAdds
  <2>5. QED
    BY <2>1, <2>2, <2>4
<1>15. ASSUME HideSu
       PROVE  \/ Kept
              \/ /\ "su" \in Types
                 /\ files'["init.rc"] = (files["init.rc"] \ NoFile) \cup {"hidesu", "hidesu:su"}
  <2>1. CASE "su" \in Types
    <3> DEFINE fs1 == Edit(files, "sbin/hidesu", {"hidesu"})
               fs2 == Edit(fs1, "sepolicy", {"hidesu"})
    <3>1. files' = Edit(fs2, "init.rc", {"hidesu", "hidesu:su"})
      BY <1>15, <2>1 DEF HideSu
    <3>2. {"hidesu"} \in SUBSET Edits /\ {"hidesu", "hidesu:su"} \in SUBSET Edits
      BY DEF Edits
    <3>3. fs1 \in FilesType /\ fs1["init.rc"] = files["init.rc"]
      BY <1>1, <1>2, <3>2, OneEditElsewhere
    <3>4. fs2 \in FilesType /\ fs2["init.rc"] = fs1["init.rc"]
      <4> HIDE DEF fs1
      <4>1. QED
        BY <1>2, <3>2, <3>3, EditedElsewhere
    <3>5. files'["init.rc"] = (fs2["init.rc"] \ NoFile) \cup {"hidesu", "hidesu:su"}
      <4> HIDE DEF fs2
      <4>1. QED
        BY <1>2, <3>1, <3>2, <3>4, EditAdds
    <3>6. QED
      BY <2>1, <3>3, <3>4, <3>5
  <2>2. QED
    BY <1>5, <1>15, <2>1 DEF HideSu
<1>16. ListInitRc => Kept
  <2> HIDE DEF Kept
  <2>1. QED
    BY <1>2, <1>4, <1>5 DEF ListInitRc, Edits
<1>17. PutVersion => Kept
  <2> HIDE DEF Kept
  <2>1. QED
    BY <1>2, <1>4, <1>5 DEF PutVersion, Edits
<1>18. (DetectVersion \/ ParseArgument \/ ParsedArguments \/ StartFstabs
          \/ NoFstab \/ PackRamdisk) => Kept
  BY <1>5 DEF DetectVersion, ParseArgument, ParsedArguments, StartFstabs, NoFstab,
     PackRamdisk
<1>19. (\E stage \in Grants : Grant(stage)) => Kept
  BY <1>9
<1>20. CASE ~EditInitRc /\ ~HideSu
  <2> HIDE DEF Kept
  <2>1. Kept
    BY <1>7, <1>10, <1>11, <1>13, <1>16, <1>17, <1>18, <1>19, <1>20 DEF ChangesNext
  <2>2. QED
    BY <2>1 DEF Kept
<1>21. QED
  BY <1>14, <1>15, <1>20

LEMMA LabelsStep ==
  ASSUME ChangesInv, ChangesNext
  PROVE  LabelsOK'
<1>1. UNCHANGED inputs /\ files \in FilesType
  BY FilesStep DEF ChangesInv, ChangesTypeOK, FilesType
<1>2. "domains" \in files["sepolicy"] => "domains" \in files'["sepolicy"]
  BY FilesStep DEF NoFile, Names
<1>3. "su" \in Types => "domains" \in files["sepolicy"] \/ "su" \in ramdisk.extra
  BY DEF Types, TypesOf
<1>4. QED
  BY <1>1, <1>2, <1>3, InitRcStep DEF ChangesInv, LabelsOK, NoFile, inputs

(***************************************************************************)
(* Which files a step edits, and that it lists them.                       *)
(***************************************************************************)
LEMMA AddFileLists ==
  ASSUME NEW n \in Names \ {"init", "fstab"}, NEW ls
  PROVE  n \in AddFile(n, ls) /\ ls \subseteq AddFile(n, ls)
  BY DEF AddFile, OccursIn

\* The three files that HideSu edits.
LEMMA HidingElsewhere ==
  ASSUME NEW fs \in FilesType, NEW m \in Names \ {"sbin/hidesu", "sepolicy", "init.rc"}
  PROVE  Edit(Edit(Edit(fs, "sbin/hidesu", {"hidesu"}), "sepolicy", {"hidesu"}),
              "init.rc", {"hidesu", "hidesu:su"})[m] = fs[m]
<1> DEFINE fs1 == Edit(fs, "sbin/hidesu", {"hidesu"})
           fs2 == Edit(fs1, "sepolicy", {"hidesu"})
<1>1. "sbin/hidesu" \in Names /\ "sepolicy" \in Names /\ "init.rc" \in Names
  BY DEF Names
<1>2. "hidesu" \in Edits /\ {"hidesu", "hidesu:su"} \in SUBSET Edits
  BY DEF Edits
<1>3. fs1 \in FilesType /\ fs1[m] = fs[m]
  BY <1>1, <1>2, OneEditElsewhere
<1>4. fs2 \in FilesType /\ fs2[m] = fs1[m]
  <2> HIDE DEF fs1
  <2>1. QED
    BY <1>1, <1>2, <1>3, OneEditElsewhere
<1>5. Edit(fs2, "init.rc", {"hidesu", "hidesu:su"})[m] = fs2[m]
  <2> HIDE DEF fs2
  <2>1. QED
    BY <1>1, <1>2, <1>4, EditedElsewhere
<1>6. QED
  BY <1>3, <1>4, <1>5

LEMMA NamesEdited ==
  ASSUME ChangesInv, ChangesNext, NEW n \in Names
  PROVE  \/ files'[n] = files[n]
         \/ n \in listed'
         \/ n = "sepolicy" /\ (PermissiveSysinit \/ Samsung)
         \/ n = "init.rc" /\ (EditInitRc \/ (HideSu /\ "su" \in Types))
<1> DEFINE Fine == \/ files'[n] = files[n]
                   \/ n \in listed'
                   \/ n = "sepolicy" /\ (PermissiveSysinit \/ Samsung)
                   \/ n = "init.rc" /\ (EditInitRc \/ (HideSu /\ "su" \in Types))
<1> SUFFICES Fine
  OBVIOUS
<1>1. files \in FilesType /\ listed \in SUBSET Names /\ left \in FstabLists
  BY DEF ChangesInv, ChangesTypeOK, FilesType, OrderOK
<1>2. UNCHANGED files => Fine
  OBVIOUS
<1>3. ASSUME NEW m \in Names, NEW es \in SUBSET Edits, files' = Edit(files, m, es)
      PROVE  Fine \/ n = m
  BY <1>1, <1>3, EditedElsewhere
<1>4. ASSUME NEW m \in Names, NEW es \in SUBSET Edits, files' = Edit(files, m, es), m \in listed'
      PROVE  Fine
  BY <1>3, <1>4
<1>5. /\ {"sepolicy", "init", "init.rc", "init.superuser.rc", "sbin/su", "sbin/hidesu",
          "xxenforce", "super-bootimg", "fstab", "fstab.qcom"} \subseteq Names
      /\ Grants \cup {"domains", "su", "permissive sysinit", "no load_policy", "revision",
                      "emptied"} \subseteq Edits
  BY DEF Names, Edits, Fstabs
<1>6. CASE CopySu
  <2>1. "sbin/su" \in listed'
    BY <1>6, AddFileLists DEF CopySu, Names
  <2>2. QED
    BY <1>4, <1>5, <1>6, <2>1 DEF CopySu
<1>7. CASE MakeDomains
  <2>1. "sepolicy" \in listed'
    BY <1>7, AddFileLists DEF MakeDomains, Names
  <2>2. QED
    BY <1>4, <1>5, <1>7, <2>1 DEF MakeDomains
<1>8. ASSUME NEW stage \in Grants, Grant(stage)
      PROVE  Fine
  <2>1. "sepolicy" \in listed'
    BY <1>8, AddFileLists DEF Grant, Names
  <2>2. {stage} \in SUBSET Edits
    BY <1>5
  <2>3. QED
    BY <1>2, <1>4, <1>5, <1>8, <2>1, <2>2 DEF Grant
<1>9. CASE PermissiveSysinit \/ Samsung
  <2>1. {"permissive sysinit"} \in SUBSET Edits /\ {"no load_policy"} \in SUBSET Edits
    BY <1>5
  <2>2. \/ UNCHANGED files
        \/ \E es \in SUBSET Edits : files' = Edit(files, "sepolicy", es)
    BY <1>9, <2>1 DEF PermissiveSysinit, Samsung
  <2>3. QED
    BY <1>2, <1>3, <1>5, <1>9, <2>2
<1>10. CASE EditFstab
  <2>1. Head(left) \in {"fstab", "fstab.qcom"}
    BY <1>1, <1>10, TailOfFstabs DEF EditFstab, Fstabs
  <2>2. Head(left) = "fstab" => "fstab.qcom" \notin listed
    BY <1>10 DEF EditFstab, GoOn, ChangesInv, OrderOK
  <2>3. Head(left) \in listed'
    <3>1. listed' = AddFile(Head(left), listed)
      BY <1>10 DEF EditFstab
    <3>2. CASE Head(left) = "fstab.qcom"
      BY <2>1, <3>1, <3>2, AddFileLists DEF Names, Fstabs
    <3>3. CASE Head(left) = "fstab"
      <4>1. AddFile("fstab", listed) = listed \cup {"fstab"}
        BY <1>1, <2>2, <3>3, AddFileAdds DEF Names, Fstabs
      <4>2. QED
        BY <3>1, <3>3, <4>1
    <3>4. QED
      BY <2>1, <3>2, <3>3
  <2>4. PICK es \in SUBSET Edits : files' = Edit(files, Head(left), es)
    BY <1>10, FstabEdits DEF EditFstab
  <2>5. QED
    BY <1>4, <1>5, <2>1, <2>3, <2>4
<1>11. CASE DisableSELinux
  <2>1. CASE unsupported
    <3>1. /\ files' = Edit(Edit(files, "init", {"no enforce"}), "xxenforce", {"1"})
          /\ listed' = AddFile("xxenforce", AddFile("init", listed))
      BY <1>11, <2>1 DEF DisableSELinux
    <3>2. listed \cap {"init.rc", "init.superuser.rc"} = {}
      BY <1>11 DEF DisableSELinux, GoOn, ChangesInv, OrderOK
    <3>3. AddFile("init", listed) = listed \cup {"init"}
      BY <1>1, <1>5, <3>2, AddFileAdds
    <3>4. listed' = listed \cup {"init"} \cup {"xxenforce"}
      BY <1>1, <1>5, <3>1, <3>3, AddFileAdds
    <3>5. CASE n \in {"init", "xxenforce"}
      BY <3>4, <3>5
    <3>6. CASE n \notin {"init", "xxenforce"}
      BY <1>1, <3>1, <3>6, DisablingElsewhere
    <3>7. QED
      BY <3>5, <3>6
  <2>2. QED
    BY <1>2, <1>11, <2>1 DEF DisableSELinux
<1>12. CASE EditInitRc
  <2>1. PICK es \in SUBSET Edits : files' = Edit(files, "init.rc", es)
    BY <1>12, InitRcEdits DEF EditInitRc
  <2>2. "init.rc" \in Names
    BY DEF Names
  <2>3. CASE n = "init.rc"
    BY <1>12, <2>3
  <2>4. CASE n # "init.rc"
    <3>1. \A fs \in FilesType, m \in Names, e \in SUBSET Edits, k \in Names :
             m # k => Edit(fs, m, e)[k] = fs[k]
      BY EditedElsewhere
    <3>2. Edit(files, "init.rc", es)[n] = files[n]
      BY <1>1, <2>2, <2>4, <3>1
    <3>3. QED
      BY <2>1, <3>2
  <2>5. QED
    BY <2>3, <2>4
<1>13. CASE HideSu
  <2>1. CASE "su" \in Types
    <3>1. /\ files' = Edit(Edit(Edit(files, "sbin/hidesu", {"hidesu"}),
                               "sepolicy", {"hidesu"}), "init.rc", {"hidesu", "hidesu:su"})
          /\ listed' = AddFile("sepolicy", AddFile("sbin/hidesu", listed))
      BY <1>13, <2>1 DEF HideSu
    <3>2. "sbin/hidesu" \in listed' /\ "sepolicy" \in listed'
      <4> DEFINE ls == AddFile("sbin/hidesu", listed)
      <4>1. "sbin/hidesu" \in ls
        BY AddFileLists DEF Names
      <4> HIDE DEF ls
      <4>2. ls \subseteq AddFile("sepolicy", ls) /\ "sepolicy" \in AddFile("sepolicy", ls)
        BY AddFileLists DEF Names
      <4>3. QED
        BY <3>1, <4>1, <4>2 DEF ls
    <3>3. CASE n = "init.rc"
      BY <1>13, <2>1, <3>3
    <3>4. CASE n \in {"sbin/hidesu", "sepolicy"}
      BY <3>2, <3>4
    <3>5. CASE n \notin {"sbin/hidesu", "sepolicy", "init.rc"}
      BY <1>1, <3>1, <3>5, HidingElsewhere
    <3>6. QED
      BY <3>3, <3>4, <3>5
  <2>2. QED
    BY <1>2, <1>13, <2>1 DEF HideSu
<1>14. CASE ListInitRc
  <2>1. CASE Exists("init.superuser.rc")
    <3>1. /\ files' = Edit(files, "init.superuser.rc", {"emptied"})
          /\ listed' = AddFile("init.superuser.rc", AddFile("init.rc", listed))
      BY <1>14, <2>1 DEF ListInitRc
    <3>2. "init.superuser.rc" \in listed'
      BY <3>1, AddFileLists DEF Names
    <3>3. {"emptied"} \in SUBSET Edits
      BY DEF Edits
    <3>4. QED
      BY <1>4, <1>5, <3>1, <3>2, <3>3
  <2>2. QED
    BY <1>2, <1>14, <2>1 DEF ListInitRc
<1>15. CASE PutVersion
  <2>1. CASE ended' = "failed"
    BY <1>2, <1>15, <2>1 DEF PutVersion, GoOn
  <2>2. CASE files' = Edit(files, "super-bootimg", {"revision"})
              /\ listed' = AddFile("super-bootimg", listed)
    <3>1. "super-bootimg" \in listed'
      BY <2>2, AddFileLists DEF Names
    <3>2. {"revision"} \in SUBSET Edits
      BY DEF Edits
    <3>3. QED
      BY <1>4, <1>5, <2>2, <3>1, <3>2
  <2>3. QED
    BY <1>2, <1>15, <2>2 DEF PutVersion
<1>16. CASE \/ DetectVersion \/ ParseArgument \/ ParsedArguments \/ StartFstabs
            \/ NoFstab \/ PackRamdisk
  BY <1>2, <1>16 DEF DetectVersion, ParseArgument, ParsedArguments, StartFstabs, NoFstab,
     PackRamdisk
<1>17. CASE \E stage \in Grants : Grant(stage)
  BY <1>8, <1>17
<1>18. QED
  <2> HIDE DEF Fine
  <2>1. QED
    BY <1>6, <1>7, <1>9, <1>10, <1>11, <1>12, <1>13, <1>14, <1>15, <1>16, <1>17
    DEF ChangesNext

LEMMA ListedStep ==
  ASSUME ChangesInv, ChangesNext
  PROVE  ListedOK'
<1>1. UNCHANGED inputs /\ listed \subseteq listed'
  BY FilesStep
<1>2. \A n \in Names : Original(n)' = Original(n)
  BY <1>1 DEF Original, inputs
<1>3. \A n \in Names : files[n] \ NoFile \subseteq files'[n]
  BY FilesStep
<1> SUFFICES ASSUME NEW n \in Names, n \notin listed'
             PROVE  \/ files'[n] = Original(n) \/ SamsungEditLost(n)'
                    \/ n = "init.rc" /\ cpc' \in {"hidesu", "list init.rc"}
  BY <1>2 DEF ListedOK
<1>4. \/ files[n] = Original(n) \/ SamsungEditLost(n)
      \/ n = "init.rc" /\ cpc \in {"hidesu", "list init.rc"}
  BY <1>1 DEF ChangesInv, ListedOK
<1>5. SamsungEditLost(n) => SamsungEditLost(n)'
  BY <1>1, <1>3 DEF SamsungEditLost, NoFile, inputs
<1>6. CASE n = "init.rc" /\ cpc \in {"hidesu", "list init.rc"}
  <2>1. CASE ListInitRc
    <3>1. "init.rc" \in listed'
      <4> DEFINE ls == AddFile("init.rc", listed)
      <4>1. "init.rc" \in ls
        BY AddFileLists DEF Names
      <4> HIDE DEF ls
      <4>2. ls \subseteq AddFile("init.superuser.rc", ls)
        BY AddFileLists DEF Names
      <4>3. listed' = ls \/ listed' = AddFile("init.superuser.rc", ls)
        BY <2>1 DEF ListInitRc, ls
      <4>4. QED
        BY <4>1, <4>2, <4>3
    <3>2. QED
      BY <1>6, <3>1
  <2>2. CASE ~ListInitRc
    <3>1. ASSUME NEW stage \in Grants, Grant(stage) PROVE FALSE
      BY <1>6, <3>1 DEF Grant, GoOn, Die, Grants
    <3>2. cpc' \in {"hidesu", "list init.rc"}
      BY <1>6, <2>2, <3>1 DEF ChangesNext, DetectVersion, CopySu, ParseArgument,
         ParsedArguments, MakeDomains, PermissiveSysinit, StartFstabs, EditFstab, NoFstab,
         Samsung, DisableSELinux, EditInitRc, HideSu, PutVersion, PackRamdisk, GoOn, Die
    <3>3. QED
      BY <1>6, <3>2
  <2>3. QED
    BY <2>1, <2>2
<1>7. CASE files'[n] = files[n]
  BY <1>4, <1>5, <1>6, <1>7
<1>8. CASE n = "init.rc" /\ (EditInitRc \/ (HideSu /\ "su" \in Types))
  BY <1>8 DEF EditInitRc, HideSu, GoOn
<1>9. CASE n = "sepolicy" /\ PermissiveSysinit
  <2>1. "domains" \in files["sepolicy"]
    BY <1>9 DEF PermissiveSysinit, GoOn, Die, ChangesInv, PolicyOK, BlockStages
  <2>2. QED
    BY <1>1, <1>9, <2>1 DEF ChangesInv, PolicyOK
<1>10. CASE n = "sepolicy" /\ Samsung /\ files'[n] # files[n]
  <2>1. "no load_policy" \in files'[n]
    <3>1. "sepolicy" \in Names /\ "no load_policy" \in Edits
      BY DEF Names, Edits
    <3>2. files' = Edit(files, "sepolicy", {"no load_policy"}) /\ files \in FilesType
      BY <1>10 DEF Samsung, ChangesInv, ChangesTypeOK, FilesType
    <3>3. {"no load_policy"} \in SUBSET Edits
      BY <3>1
    <3>3a. \A fs \in FilesType, m \in Names, es \in SUBSET Edits :
              Edit(fs, m, es)[m] = (fs[m] \ NoFile) \cup es
      BY EditAdds
    <3>4. Edit(files, "sepolicy", {"no load_policy"})["sepolicy"]
            = (files["sepolicy"] \ NoFile) \cup {"no load_policy"}
      BY <3>1, <3>2, <3>3, <3>3a
    <3>5. QED
      BY <1>10, <3>2, <3>4
  <2>2. Exists("sepolicy") /\ cpc \in LateStages
    BY <1>10, <2>1 DEF Samsung, ReadByV1, GoOn, LateStages
  <2>3. unsupported
    BY <1>1, <1>10, <2>2 DEF ChangesInv, PolicyOK, ChangesTypeOK
  <2>4. QED
    BY <1>1, <1>10, <2>1, <2>3 DEF SamsungEditLost, inputs
<1>11. QED
  BY <1>7, <1>8, <1>9, <1>10, NamesEdited

(***************************************************************************)
(* The names that occur in others come first: the fstab files are listed   *)
(* in their order, and init.rc and init.superuser.rc last.                 *)
(***************************************************************************)
LEMMA AddedNames ==
  ASSUME ChangesInv, ChangesNext
  PROVE  \/ listed' \subseteq listed \cup {"sepolicy", "sbin/su", "sbin/hidesu", "init",
                                           "xxenforce", "super-bootimg"}
         \/ ListInitRc
         \/ EditFstab /\ listed' \subseteq listed \cup Fstabs
<1>1. \A n, ls : AddFile(n, ls) \subseteq ls \cup {n}
  BY DEF AddFile
<1>2. EditFstab => listed' \subseteq listed \cup Fstabs
  <2>1. EditFstab => Head(left) \in Fstabs
    BY TailOfFstabs DEF EditFstab, ChangesInv, OrderOK
  <2>2. QED
    BY <1>1, <2>1 DEF EditFstab
<1>2a. \A n, m, ls : AddFile(n, AddFile(m, ls)) \subseteq ls \cup {n, m}
  <2> TAKE n, m, ls
  <2>1. AddFile(m, ls) \subseteq ls \cup {m}
    BY <1>1
  <2>2. AddFile(n, AddFile(m, ls)) \subseteq AddFile(m, ls) \cup {n}
    BY <1>1
  <2>3. QED
    BY <2>1, <2>2
<1>3. DisableSELinux => listed' \subseteq listed \cup {"init", "xxenforce"}
  <2>1. AddFile("xxenforce", AddFile("init", listed)) \subseteq listed \cup {"xxenforce", "init"}
    BY <1>2a
  <2>2. DisableSELinux =>
          listed' = listed \/ listed' = AddFile("xxenforce", AddFile("init", listed))
    BY DEF DisableSELinux
  <2>3. QED
    BY <2>1, <2>2
<1>4. HideSu => listed' \subseteq listed \cup {"sbin/hidesu", "sepolicy"}
  <2>1. AddFile("sepolicy", AddFile("sbin/hidesu", listed))
          \subseteq listed \cup {"sepolicy", "sbin/hidesu"}
    BY <1>2a
  <2>2. HideSu =>
          listed' = listed \/ listed' = AddFile("sepolicy", AddFile("sbin/hidesu", listed))
    BY DEF HideSu
  <2>3. QED
    BY <2>1, <2>2
<1>5. \A stage \in Grants : Grant(stage) => listed' \subseteq listed \cup {"sepolicy"}
  BY <1>1 DEF Grant
<1>6. CopySu \/ MakeDomains => listed' \subseteq listed \cup {"sepolicy", "sbin/su"}
  BY <1>1 DEF CopySu, MakeDomains
<1>7. PutVersion => listed' \subseteq listed \cup {"super-bootimg"}
  BY <1>1 DEF PutVersion
<1>8. (DetectVersion \/ ParseArgument \/ ParsedArguments \/ PermissiveSysinit \/ StartFstabs
         \/ NoFstab \/ Samsung \/ EditInitRc \/ PackRamdisk) => listed' = listed
  BY DEF DetectVersion, ParseArgument, ParsedArguments, PermissiveSysinit, StartFstabs,
     NoFstab, Samsung, EditInitRc, PackRamdisk
<1>9. QED
  BY <1>2, <1>3, <1>4, <1>5, <1>6, <1>7, <1>8 DEF ChangesNext

LEMMA OrderStep ==
  ASSUME ChangesInv, ChangesNext
  PROVE  OrderOK'
<1>1. left' \in FstabLists
  BY TypeStep
<1>2. ASSUME NEW stage \in Grants, Grant(stage)
      PROVE  cpc = stage /\ (cpc' = stage \/ cpc' \in BlockStages \cup {"fstabs"})
  BY <1>2, StagesOf DEF Grant, GoOn, Die
<1>3. cpc \in {"version", "pack"} => cpc' \in {"version", "pack"}
  BY <1>2 DEF ChangesNext, DetectVersion, CopySu, ParseArgument, ParsedArguments, MakeDomains,
     PermissiveSysinit, StartFstabs, EditFstab, NoFstab, Samsung, DisableSELinux, EditInitRc,
     HideSu, ListInitRc, PutVersion, PackRamdisk, GoOn, Die, Grants
<1>4. ListInitRc => cpc' = "version"
  BY DEF ListInitRc, GoOn
<1>5. cpc' \notin {"version", "pack"} => listed' \cap {"init.rc", "init.superuser.rc"} = {}
  <2>1. Fstabs \cap {"init.rc", "init.superuser.rc"} = {}
    BY DEF Fstabs
  <2>2. QED
    BY <1>3, <1>4, <2>1, AddedNames DEF ChangesInv, OrderOK
<1>6. cpc' \in EarlyStages \cup BlockStages \cup {"fstabs"} =>
        /\ cpc \in EarlyStages \cup BlockStages \cup {"fstabs"}
        /\ ~EditFstab /\ ~ListInitRc
  BY <1>2 DEF ChangesNext, DetectVersion, CopySu, ParseArgument, ParsedArguments, MakeDomains,
     PermissiveSysinit, StartFstabs, EditFstab, NoFstab, Samsung, DisableSELinux, EditInitRc,
     HideSu, ListInitRc, PutVersion, PackRamdisk, GoOn, Die, Grants, EarlyStages, BlockStages
<1>7. cpc' \in EarlyStages \cup BlockStages \cup {"fstabs"} => listed' \cap Fstabs = {}
  <2>1. Fstabs \cap {"sepolicy", "sbin/su", "sbin/hidesu", "init", "xxenforce",
                     "super-bootimg"} = {}
    BY DEF Fstabs
  <2>2. QED
    BY <1>6, <2>1, AddedNames DEF ChangesInv, OrderOK
<1>8. (cpc' = "fstab" /\ left' # <<>> /\ Head(left') = "fstab") => "fstab.qcom" \notin listed'
  <2>1. CASE StartFstabs
    BY <2>1 DEF StartFstabs, GoOn, ChangesInv, OrderOK, Fstabs
  <2>2. CASE EditFstab
    <3>1. left' = <<>> \/ left' = <<"fstab.qcom">>
      BY <2>2, TailOfFstabs DEF EditFstab, ChangesInv, OrderOK
    <3>2. Head(<<"fstab.qcom">>) = "fstab.qcom"
      OBVIOUS
    <3>3. QED
      BY <3>1, <3>2
  <2>3. CASE NoFstab
    BY <2>3 DEF NoFstab, ChangesInv, OrderOK
  <2>4. CASE ~(StartFstabs \/ EditFstab \/ NoFstab)
    <3>1. cpc' # "fstab"
      BY <1>2, <2>4 DEF ChangesNext, DetectVersion, CopySu, ParseArgument, ParsedArguments,
         MakeDomains, PermissiveSysinit, Samsung, DisableSELinux, EditInitRc, HideSu,
         ListInitRc, PutVersion, PackRamdisk, GoOn, Die, Grants, BlockStages
    <3>2. QED
      BY <3>1
  <2>5. QED
    BY <2>1, <2>2, <2>3, <2>4
<1>9. QED
  BY <1>1, <1>5, <1>7, <1>8 DEF OrderOK

(***************************************************************************)
(* The types that a stage of the block needs are in the policy: those that *)
(* depend on the release are asked for only where DetectVersion has found  *)
(* a release that has them, and MakeDomains has added those of su.         *)
(***************************************************************************)
LEMMA TypesThere ==
  ASSUME ChangesInv, NEW stage \in Grants, cpc = stage
  PROVE  Needs(stage) \subseteq Types
<1>1. ramdisk.policy /\ ~unsupported /\ "domains" \in files["sepolicy"]
  BY DEF ChangesInv, PolicyOK, BlockStages
<1>2. Types = TypesOf(ramdisk.release) \cup ramdisk.extra \cup {"su", "su_daemon", "su_device"}
  BY <1>1 DEF ChangesInv, PolicyOK, Types
<1>3. ramdisk.release \in Releases
  BY RamdisksAssumption DEF ChangesInv, ChangesTypeOK
<1>4. android = CASE ramdisk.release = "7.0"             -> 24
                  [] ramdisk.release = "6.0"             -> 23
                  [] ramdisk.release = "5.1"             -> 21
                  [] ramdisk.release \in {"4.4", "5.0"} -> 19
  <2>1. cpc # "detect"
    BY DEF Grants
  <2>2. QED
    BY <1>1, <1>3, <2>1 DEF ChangesInv, Detected, VersionOf, Releases
<1> DEFINE Have == TypesOf(ramdisk.release) \cup {"su", "su_daemon", "su_device"}
<1>5. SUFFICES Needs(stage) \subseteq Have
  BY <1>2
<1> USE DEF Since, TypesOf, Releases
<1>6. allowSuClients \cup suDaemonRights \cup suL3 \cup suL6 \cup {"su"} \subseteq Have
  BY <1>3, <1>4 DEF allowSuClients, suDaemonRights, suL3, suL6
<1>7. suRights \subseteq Have
  BY <1>3, <1>4 DEF suRights
<1>8. suL0 \subseteq Have
  BY <1>3, <1>4 DEF suL0, suReadLogs
<1>9. suL1 \subseteq Have
  BY <1>3, <1>4 DEF suL1, suMiscL1, suServicesL1, suNetworkL1
<1> HIDE DEF Have
<1>10. QED
  BY <1>6, <1>7, <1>8, <1>9 DEF Needs, Grants

LEMMA EndedStep ==
  ASSUME ChangesInv, ChangesNext
  PROVE  EndedOK' /\ GuardsFitReleases'
<1>1. ASSUME NEW stage \in Grants, Grant(stage)
      PROVE  ended' = "running"
  <2>1. cpc = stage /\ ended = "running"
    BY <1>1 DEF Grant, GoOn, Die
  <2>2. QED
    BY <1>1, <2>1, TypesThere DEF Grant, GoOn
<1>2. QED
  BY <1>1 DEF ChangesNext, DetectVersion, CopySu, ParseArgument, ParsedArguments, MakeDomains,
     PermissiveSysinit, StartFstabs, EditFstab, NoFstab, Samsung, DisableSELinux, EditInitRc,
     HideSu, ListInitRc, PutVersion, PackRamdisk, GoOn, Die, Grants, EndedOK,
     GuardsFitReleases

-----------------------------------------------------------------------------
LEMMA ChangesInvStutter ==
  ASSUME ChangesInv, UNCHANGED changesVars
  PROVE  ChangesInv'
<1> USE DEF changesVars
<1>1. Original("sepolicy")' = Original("sepolicy") /\ VersionOf' = VersionOf
  BY DEF Original, VersionOf
<1>2. \A n \in Names : Original(n)' = Original(n) /\ SamsungEditLost(n)' = SamsungEditLost(n)
  BY DEF Original, SamsungEditLost
<1>3. ListedOK' /\ Detected'
  BY <1>1, <1>2 DEF ChangesInv, ListedOK, Detected
<1>4. QED
  BY <1>3 DEF ChangesInv, ChangesTypeOK, PolicyOK, OrderOK, LabelsOK, EndedOK,
     GuardsFitReleases, Exists

LEMMA ChangesInvNext == ChangesInv /\ [ChangesNext]_changesVars => ChangesInv'
<1>1. ASSUME ChangesInv, ChangesNext
      PROVE  ChangesInv'
  <2>1. ChangesTypeOK' /\ Detected' /\ PolicyOK' /\ OrderOK' /\ ListedOK' /\ LabelsOK'
    BY <1>1, TypeStep, DetectedStep, PolicyStep, OrderStep, ListedStep, LabelsStep
  <2>2. EndedOK' /\ GuardsFitReleases'
    BY <1>1, EndedStep
  <2>3. QED
    BY <2>1, <2>2 DEF ChangesInv
<1>2. QED
  BY <1>1, ChangesInvStutter

LEMMA ChangesInvariant == ChangesSpec => []ChangesInv
  BY ChangesInvInit, ChangesInvNext, PTL DEF ChangesSpec

LEMMA ReachesImage == ChangesInv => EditsReachImage
<1> SUFFICES ASSUME ChangesInv, ended = "ok", NEW n \in Names
             PROVE  Archive(n) = files[n] \/ SamsungEditLost(n)
  BY DEF EditsReachImage
<1>1. cpc = "pack"
  BY DEF ChangesInv, EndedOK
<1>2. n \in listed \/ files[n] = Original(n) \/ SamsungEditLost(n)
  BY <1>1 DEF ChangesInv, ListedOK
<1>3. QED
  BY <1>2 DEF Archive

LEMMA LabelsAreThere == ChangesInv => LabelsResolve
<1> DEFINE rc == Archive("init.rc")
           sp == Archive("sepolicy")
<1> SUFFICES ASSUME ChangesInv, ended = "ok", sp # NoFile
             PROVE  /\ "su:su_daemon" \in rc => "domains" \in sp
                    /\ "hidesu:su" \in rc => "domains" \in sp \/ "su" \in ramdisk.extra
  BY DEF LabelsResolve
<1>1. cpc = "pack" /\ cpc \in LateStages
  BY DEF ChangesInv, EndedOK, LateStages
<1>2. "init.rc" \in Names /\ "sepolicy" \in Names
  BY DEF Names
<1>3. rc = files["init.rc"]
  <2>1. "init.rc" \in listed \/ files["init.rc"] = Original("init.rc")
    BY <1>1, <1>2 DEF ChangesInv, ListedOK, SamsungEditLost
  <2>2. QED
    BY <2>1 DEF Archive
<1>4. "domains" \in files["sepolicy"] => "domains" \in sp
  BY DEF ChangesInv, PolicyOK, Archive
<1>5. ramdisk.policy
  <2>1. CASE "sepolicy" \in listed
    BY <2>1 DEF ChangesInv, PolicyOK, Archive, Exists
  <2>2. CASE "sepolicy" \notin listed
    BY <2>2 DEF Archive, Original
  <2>3. QED
    BY <2>1, <2>2
<1>6. ~unsupported => "domains" \in files["sepolicy"]
  BY <1>1, <1>5 DEF ChangesInv, PolicyOK
<1>7. LabelsOK
  BY DEF ChangesInv
<1> HIDE DEF rc, sp
<1>8. QED
  BY <1>3, <1>4, <1>6, <1>7 DEF LabelsOK

(***************************************************************************)
(* ChangesTypeCorrect: on every ramdisk and every command line, the script *)
(* edits only the files there are names for, with the edits it knows, and  *)
(* is always at one of its stages with a version it can detect.            *)
(***************************************************************************)
THEOREM ChangesTypeCorrect == ChangesSpec => []ChangesTypeOK
<1>1. ChangesInv => ChangesTypeOK
  BY DEF ChangesInv
<1>2. QED
  BY <1>1, ChangesInvariant, PTL

(***************************************************************************)
(* ChangesFitReleases: whatever types a phone's policy has beyond those of *)
(* its release, and whatever the command line asks for, no rule of the     *)
(* SELinux block in changes.sh ends the script for want of a type.         *)
(***************************************************************************)
THEOREM ChangesFitReleases == ChangesSpec => []GuardsFitReleases
<1>1. ChangesInv => GuardsFitReleases
  BY DEF ChangesInv
<1>2. QED
  BY <1>1, ChangesInvariant, PTL

(***************************************************************************)
(* ChangesReachImage: a script that succeeds leaves every edit of it in    *)
(* the archive, but for the one of the block for Samsung, on every         *)
(* ramdisk and with every command line.                                    *)
(***************************************************************************)
THEOREM ChangesReachImage == ChangesSpec => []EditsReachImage
  BY ReachesImage, ChangesInvariant, PTL

(***************************************************************************)
(* ChangesLabelsResolve: in every archive a successful script leaves, the  *)
(* services it has added to init.rc carry labels that the policy in the    *)
(* archive knows.                                                          *)
(***************************************************************************)
THEOREM ChangesLabelsResolve == ChangesSpec => []LabelsResolve
  BY LabelsAreThere, ChangesInvariant, PTL

-----------------------------------------------------------------------------
(***************************************************************************)
(* What a finished script has done: the edits of fstab* and the rules of   *)
(* the modes power and eng are those its options ask for.                  *)
(***************************************************************************)
Has(fstab, fs) == \E i \in DOMAIN fs : fs[i] = fstab

FstabEdit ==
    (IF opts.noverity THEN {"noverity"} ELSE {})
    \cup (CASE opts.nocrypt = 0 -> {}
            [] opts.nocrypt = 1 -> {"nocrypt"}
            [] opts.nocrypt = 2 -> {"nocrypt_all"})

BeforeFstabs == EarlyStages \cup BlockStages \cup {"fstabs"}

ToDo(fstab) == cpc \in BeforeFstabs \/ (cpc = "fstab" /\ Has(fstab, left))

\* The loop has edited the files it has passed and no others.
FstabsOK ==
    \A f \in Fstabs :
       /\ ~Has(f, ramdisk.fstabs) => files[f] = NoFile /\ (cpc = "fstab" => ~Has(f, left))
       /\ Has(f, ramdisk.fstabs) /\ ToDo(f) => files[f] = {}
       /\ Has(f, ramdisk.fstabs) /\ ~ToDo(f) => files[f] = FstabEdit

Modes == {"power", "eng"}

\* The block goes through the stage of the mode.
Asked(stage) ==
    opts.selinuxmode = "eng" \/ (stage = "power" /\ opts.selinuxmode = "power")

Passed(stage) ==
    \/ stage = "power" /\ cpc = "eng"
    \/ cpc \in LateStages \cup {"permissive"} /\ ramdisk.policy /\ ~unsupported /\ Asked(stage)

ModesOK ==
    /\ \A stage \in Modes : stage \in files["sepolicy"] <=> Passed(stage)
    /\ \A stage \in Modes : cpc = stage => Asked(stage)
    /\ cpc \notin {"detect", "copysu", "parse"} => argv = <<>>

ScriptInv == ChangesInv /\ FstabsOK /\ ModesOK

LEMMA HasTail ==
  ASSUME NEW fs \in FstabLists, fs # <<>>
  PROVE  /\ Has(Head(fs), fs)
         /\ \A f \in Fstabs : Has(f, Tail(fs)) <=> Has(f, fs) /\ f # Head(fs)
         /\ Len(fs) = 1 <=> Tail(fs) = <<>>
<1> USE DEF Has, Fstabs
<1>1. CASE fs = <<"fstab">>
  <2>1. Head(fs) = "fstab" /\ Tail(fs) = <<>> /\ Len(fs) = 1 /\ fs[1] = "fstab"
    BY <1>1
  <2>2. DOMAIN fs = {1} /\ DOMAIN Tail(fs) = {}
    BY <1>1, <2>1
  <2>3. QED
    BY <2>1, <2>2
<1>2. CASE fs = <<"fstab.qcom">>
  <2>1. Head(fs) = "fstab.qcom" /\ Tail(fs) = <<>> /\ Len(fs) = 1 /\ fs[1] = "fstab.qcom"
    BY <1>2
  <2>2. DOMAIN fs = {1} /\ DOMAIN Tail(fs) = {}
    BY <1>2, <2>1
  <2>3. QED
    BY <2>1, <2>2
<1>3. CASE fs = <<"fstab", "fstab.qcom">>
  <2> DEFINE t == Tail(fs)
  <2>1. /\ Head(fs) = "fstab" /\ Len(fs) = 2
        /\ fs[1] = "fstab" /\ fs[2] = "fstab.qcom"
    BY <1>3
  <2>2. t = <<"fstab.qcom">>
    BY <1>3
  <2>3. t[1] = "fstab.qcom" /\ t # <<>> /\ DOMAIN t = {1} /\ DOMAIN fs = {1, 2}
    BY <1>3, <2>2
  <2> HIDE DEF t
  <2>4. QED
    BY <2>1, <2>3 DEF t
<1>4. QED
  BY <1>1, <1>2, <1>3 DEF FstabLists

LEMMA HasNone == \A f : ~Has(f, <<>>)
  BY DEF Has

(***************************************************************************)
(* Only the loop over fstab* edits these files.                            *)
(***************************************************************************)
LEMMA FstabsUntouched ==
  ASSUME ChangesInv, ChangesNext, ~EditFstab, NEW f \in Fstabs
  PROVE  files'[f] = files[f]
<1> DEFINE Kept == files'[f] = files[f]
<1>1. files \in FilesType
  BY DEF ChangesInv, ChangesTypeOK, FilesType
<1>2. /\ {"sepolicy", "init.rc", "init.superuser.rc", "sbin/su", "super-bootimg"}
           \subseteq Names \ {f}
      /\ f \in Names \ {"init", "xxenforce", "sbin/hidesu", "sepolicy", "init.rc"}
  BY DEF Names, Fstabs
<1>3. ASSUME NEW n \in Names \ {f}, NEW es \in SUBSET Edits, files' = Edit(files, n, es)
      PROVE  Kept
  BY <1>1, <1>2, <1>3, EditedElsewhere
<1>4. \A e \in Edits : {e} \in SUBSET Edits
  OBVIOUS
<1>5. Grants \cup {"domains", "permissive sysinit", "no load_policy", "su", "emptied",
                   "revision"} \subseteq Edits
  BY DEF Edits
<1>6. UNCHANGED files => Kept
  OBVIOUS
<1>7. DisableSELinux => Kept
  BY <1>1, <1>2, <1>6, DisablingElsewhere DEF DisableSELinux
<1>8. HideSu => Kept
  BY <1>1, <1>2, <1>6, HidingElsewhere DEF HideSu
<1> HIDE DEF Kept
<1>9. CopySu \/ MakeDomains => Kept
  BY <1>2, <1>3, <1>4, <1>5 DEF CopySu, MakeDomains
<1>10. ASSUME NEW stage \in Grants, Grant(stage) PROVE Kept
  BY <1>2, <1>3, <1>4, <1>5, <1>6, <1>10 DEF Grant
<1>11. PermissiveSysinit \/ Samsung => Kept
  BY <1>2, <1>3, <1>4, <1>5, <1>6 DEF PermissiveSysinit, Samsung
<1>12. EditInitRc => Kept
  BY <1>2, <1>3, InitRcEdits DEF EditInitRc
<1>13. ListInitRc \/ PutVersion => Kept
  BY <1>2, <1>3, <1>4, <1>5, <1>6 DEF ListInitRc, PutVersion
<1>14. (DetectVersion \/ ParseArgument \/ ParsedArguments \/ StartFstabs \/ NoFstab
          \/ PackRamdisk) => Kept
  BY <1>6 DEF DetectVersion, ParseArgument, ParsedArguments, StartFstabs, NoFstab, PackRamdisk
<1>15. Kept
  BY <1>7, <1>8, <1>9, <1>10, <1>11, <1>12, <1>13, <1>14 DEF ChangesNext
<1>16. QED
  BY <1>15 DEF Kept

\* The stages before the loop are left once, and for no stage after it.
LEMMA FstabStages ==
  ASSUME ChangesInv, ChangesNext, ~StartFstabs, ~EditFstab
  PROVE  /\ cpc' \in BeforeFstabs <=> cpc \in BeforeFstabs
         /\ cpc' = "fstab" <=> cpc = "fstab"
         /\ UNCHANGED left
         /\ cpc \in BeforeFstabs \/ UNCHANGED opts
<1>1. ASSUME NEW stage \in Grants, Grant(stage)
      PROVE  cpc \in BeforeFstabs /\ cpc' \in BeforeFstabs /\ UNCHANGED left /\ UNCHANGED opts
  <2>1. BlockStages \cup {"fstabs"} \subseteq BeforeFstabs /\ Grants \subseteq BlockStages
    BY DEF BeforeFstabs, BlockStages
  <2>2. QED
    BY <1>1, <2>1, StagesOf DEF Grant, GoOn, Die
<1>2. "fstab" \notin BeforeFstabs
  BY DEF BeforeFstabs, EarlyStages, BlockStages, Grants
<1>3. CASE \E stage \in Grants : Grant(stage)
  BY <1>1, <1>2, <1>3
<1>4. CASE ~(\E stage \in Grants : Grant(stage))
  BY <1>2, <1>4 DEF ChangesNext, DetectVersion, CopySu, ParseArgument, ParsedArguments,
     MakeDomains, PermissiveSysinit, NoFstab, Samsung, DisableSELinux, EditInitRc, HideSu,
     ListInitRc, PutVersion, PackRamdisk, GoOn, Die, BeforeFstabs, EarlyStages, BlockStages,
     Grants
<1>5. QED
  BY <1>3, <1>4

LEMMA FstabsStep ==
  ASSUME ChangesInv, FstabsOK, ChangesNext
  PROVE  FstabsOK'
<1>1. UNCHANGED ramdisk /\ files \in FilesType /\ left \in FstabLists
  BY FilesStep DEF inputs, ChangesInv, ChangesTypeOK, FilesType, OrderOK
<1>2. "fstab" \notin BeforeFstabs /\ "samsung" \notin BeforeFstabs /\ "fstabs" \in BeforeFstabs
  BY DEF BeforeFstabs, EarlyStages, BlockStages, Grants
<1> SUFFICES ASSUME NEW f \in Fstabs
             PROVE  /\ ~Has(f, ramdisk.fstabs) =>
                          files'[f] = NoFile /\ (cpc' = "fstab" => ~Has(f, left'))
                    /\ Has(f, ramdisk.fstabs) /\ ToDo(f)' => files'[f] = {}
                    /\ Has(f, ramdisk.fstabs) /\ ~ToDo(f)' => files'[f] = FstabEdit'
  BY <1>1 DEF FstabsOK
<1>3. /\ ~Has(f, ramdisk.fstabs) => files[f] = NoFile /\ (cpc = "fstab" => ~Has(f, left))
      /\ Has(f, ramdisk.fstabs) /\ ToDo(f) => files[f] = {}
      /\ Has(f, ramdisk.fstabs) /\ ~ToDo(f) => files[f] = FstabEdit
  BY DEF FstabsOK
<1>4. ToDo(f)' <=> cpc' \in BeforeFstabs \/ (cpc' = "fstab" /\ Has(f, left'))
  BY DEF ToDo
<1>5. UNCHANGED opts => FstabEdit' = FstabEdit
  BY DEF FstabEdit
<1>6. CASE StartFstabs
  <2>1. files'[f] = files[f] /\ UNCHANGED opts /\ ToDo(f)
    BY <1>2, <1>6 DEF StartFstabs, GoOn, ToDo
  <2>2. CASE EditsFstabs
    BY <1>2, <1>3, <1>4, <1>6, <2>1, <2>2 DEF StartFstabs, GoOn
  <2>3. CASE ~EditsFstabs
    <3>1. cpc' = "samsung"
      BY <1>6, <2>3 DEF StartFstabs, GoOn
    <3>2. FstabEdit = {}
      BY <2>3 DEF EditsFstabs, FstabEdit, ChangesInv, ChangesTypeOK
    <3>3. QED
      BY <1>2, <1>3, <1>4, <1>5, <2>1, <3>1, <3>2
  <2>4. QED
    BY <2>2, <2>3
<1>7. CASE EditFstab
  <2>1. /\ left # <<>> /\ left' = Tail(left) /\ cpc = "fstab" /\ UNCHANGED opts
        /\ cpc' = IF Len(left) = 1 THEN "samsung" ELSE "fstab"
        /\ files' = Edit(files, Head(left), FstabEdit)
    BY <1>7 DEF EditFstab, GoOn, FstabEdit
  <2>2. Head(left) \in Names /\ f \in Names /\ FstabEdit \in SUBSET Edits
    BY <1>1, <2>1, TailOfFstabs, FstabEdits DEF Names, FstabEdit
  <2>3. /\ Has(Head(left), left)
        /\ Has(f, Tail(left)) <=> Has(f, left) /\ f # Head(left)
        /\ Len(left) = 1 <=> Tail(left) = <<>>
    BY <1>1, <2>1, HasTail
  <2>4. ToDo(f)' <=> Has(f, left) /\ f # Head(left)
    BY <1>2, <1>4, <2>1, <2>3, HasNone
  <2>5. ToDo(f) <=> Has(f, left)
    BY <1>2, <2>1 DEF ToDo
  <2>6. CASE f = Head(left)
    <3>1. files'[f] = (files[f] \ NoFile) \cup FstabEdit
      BY <1>1, <2>1, <2>2, <2>6, EditAdds
    <3>2. Has(f, ramdisk.fstabs) /\ files[f] = {}
      BY <1>3, <2>1, <2>3, <2>5, <2>6
    <3>3. QED
      BY <1>5, <2>1, <2>4, <2>6, <3>1, <3>2
  <2>7. CASE f # Head(left)
    <3>1. files'[f] = files[f]
      BY <1>1, <2>1, <2>2, <2>7, EditAdds
    <3>2. QED
      BY <1>3, <1>5, <2>1, <2>3, <2>4, <2>5, <2>7, <3>1
  <2>8. QED
    BY <2>6, <2>7
<1>8. CASE ~StartFstabs /\ ~EditFstab
  <2>1. files'[f] = files[f]
    BY <1>8, FstabsUntouched
  <2>2. /\ cpc' \in BeforeFstabs <=> cpc \in BeforeFstabs
        /\ cpc' = "fstab" <=> cpc = "fstab"
        /\ UNCHANGED left
        /\ cpc \in BeforeFstabs \/ UNCHANGED opts
    BY <1>8, FstabStages
  <2>3. (ToDo(f)' <=> ToDo(f)) /\ (ToDo(f) \/ UNCHANGED opts)
    BY <1>4, <2>2 DEF ToDo
  <2>4. QED
    BY <1>3, <1>5, <2>1, <2>2, <2>3
<1>9. QED
  BY <1>6, <1>7, <1>8

(***************************************************************************)
(* The rules of a mode are added at its stage, and nowhere else.           *)
(***************************************************************************)
LEMMA ModeGranted ==
  ASSUME ChangesInv, ChangesNext, NEW mode \in Modes
  PROVE  mode \in files'["sepolicy"] <=> mode \in files["sepolicy"] \/ Grant(mode)
<1>1. mode \in Grants /\ mode # "domains" /\ mode \notin NoFile
  BY DEF Modes, Grants, NoFile
<1>2. ASSUME Grant(mode)
      PROVE  mode \in files'["sepolicy"]
  <2>1. cpc = mode
    BY <1>2 DEF Grant, GoOn, Die
  <2>2. files' = Edit(files, "sepolicy", {mode})
    BY <1>1, <1>2, <2>1, TypesThere DEF Grant
  <2>3. files \in FilesType /\ "sepolicy" \in Names /\ {mode} \in SUBSET Edits
    BY <1>1 DEF ChangesInv, ChangesTypeOK, FilesType, Names, Edits
  <2>4. files'["sepolicy"] = (files["sepolicy"] \ NoFile) \cup {mode}
    BY <2>2, <2>3, EditAdds
  <2>5. QED
    BY <2>4
<1>3. CASE files'["sepolicy"] = files["sepolicy"]
  BY <1>2, <1>3
<1>4. CASE files'["sepolicy"] = (files["sepolicy"] \ NoFile) \cup {"domains"} /\ MakeDomains
  BY <1>1, <1>2, <1>4
<1>5. ASSUME NEW e \in PolicyEdits, e \in Grants => Grant(e),
             files'["sepolicy"] = (files["sepolicy"] \ NoFile) \cup {e}
      PROVE  mode \in files'["sepolicy"] <=> mode \in files["sepolicy"] \/ Grant(mode)
  BY <1>1, <1>2, <1>5
<1>6. QED
  BY <1>3, <1>4, <1>5, SepolicyStep

LEMMA ModesStep ==
  ASSUME ChangesInv, ModesOK, ChangesNext
  PROVE  ModesOK'
<1>1. UNCHANGED inputs
  BY FilesStep
<1> DEFINE After1(m) == \/ m = "power" /\ cpc' = "eng"
                        \/ cpc' \in LateStages \cup {"permissive"}
                             /\ ramdisk.policy /\ ~unsupported /\ Asked(m)
<1>2. UNCHANGED opts => \A m : (Passed(m)' <=> After1(m)) /\ (Asked(m)' <=> Asked(m))
  BY <1>1 DEF Passed, Asked, inputs
<1>3. SUFFICES /\ \A m \in Modes : Passed(m)' <=> Passed(m) \/ Grant(m)
               /\ \A m \in Modes : cpc' = m => Asked(m)'
               /\ cpc' \notin {"detect", "copysu", "parse"} => argv' = <<>>
  BY ModeGranted DEF ModesOK
<1>4. Grants \cap (LateStages \cup {"permissive"}) = {}
  BY DEF Grants, LateStages
<1>5. ASSUME NEW stage \in Grants, Grant(stage)
      PROVE  /\ \A m \in Modes : Passed(m)' <=> Passed(m) \/ Grant(m)
             /\ \A m \in Modes : cpc' = m => Asked(m)'
             /\ cpc' \notin {"detect", "copysu", "parse"} => argv' = <<>>
  <2>1. /\ cpc = stage /\ cpc' = After(stage) /\ UNCHANGED opts /\ argv' = <<>>
        /\ ramdisk.policy /\ ~unsupported
        /\ \A m \in Grants : Grant(m) => m = stage
    <3>1. cpc = stage
      BY <1>5 DEF Grant, GoOn, Die
    <3>2. argv = <<>>
      BY <3>1 DEF ModesOK, Grants
    <3>3. ramdisk.policy /\ ~unsupported
      BY <3>1 DEF ChangesInv, PolicyOK, BlockStages
    <3>4. \A m \in Grants : Grant(m) => m = stage
      BY <3>1 DEF Grant, GoOn, Die
    <3>5. QED
      BY <1>5, <3>1, <3>2, <3>3, <3>4, TypesThere DEF Grant, GoOn
  <2>2. stage \in Modes => Asked(stage)
    BY <2>1 DEF ModesOK
  <2>3. \A m \in Modes : (Passed(m) <=> m = "power" /\ stage = "eng") /\ m \in Grants
    BY <1>4, <2>1 DEF Passed, Modes, Grants
  <2>4. opts.selinuxmode \in {"eng", "power", "user"}
    BY DEF ChangesInv, ChangesTypeOK
  <2>5. AfterModes \in {"permissive", "fstabs"} /\ AfterModes \in LateStages \cup {"permissive"}
    BY DEF AfterModes, LateStages
  <2> HIDE DEF After1
  <2>6. CASE stage = "eng"
    <3>1. \A m \in Modes : Asked(m)
      BY <2>2, <2>6 DEF Asked, Modes
    <3>2. cpc' = AfterModes
      BY <2>1, <2>6 DEF After
    <3>3. \A m \in Modes : After1(m)
      BY <2>1, <2>5, <3>1, <3>2 DEF After1
    <3>4. cpc' \notin Modes
      BY <2>5, <3>2 DEF Modes
    <3>5. QED
      BY <1>2, <1>5, <2>1, <2>3, <2>6, <3>3, <3>4 DEF Modes
  <2>7. CASE stage = "power"
    <3>1. cpc' = IF opts.selinuxmode = "eng" THEN "eng" ELSE AfterModes
      BY <2>1, <2>7 DEF After
    <3>2. After1("power") /\ ~After1("eng")
      BY <1>4, <2>1, <2>2, <2>5, <2>7, <3>1 DEF After1, Asked, Modes, Grants
    <3>3. \A m \in Modes : cpc' = m => Asked(m)
      BY <2>5, <3>1 DEF Modes, Asked
    <3>4. QED
      BY <1>2, <1>5, <2>1, <2>3, <2>7, <3>2, <3>3 DEF Modes
  <2>8. CASE stage \notin Modes
    <3>1. \/ cpc' \in Grants \ Modes
          \/ cpc' = "power" /\ Asked("power")
          \/ cpc' = AfterModes /\ \A m \in Modes : ~Asked(m)
      BY <2>1, <2>4, <2>8 DEF After, Asked, Modes, Grants
    <3>2. \A m \in Modes : ~After1(m)
      BY <1>4, <2>5, <3>1 DEF After1, Modes, Grants
    <3>3. \A m \in Modes : cpc' = m => Asked(m)
      BY <2>5, <3>1 DEF Modes
    <3>4. QED
      BY <1>2, <2>1, <2>3, <2>8, <3>2, <3>3 DEF Modes
  <2>9. QED
    BY <2>6, <2>7, <2>8 DEF Modes
<1>6. CASE ~(\E stage \in Grants : Grant(stage))
  <2>1. Modes \subseteq Grants
    BY DEF Modes, Grants
  <2>2. /\ cpc' \in LateStages \cup {"permissive"} /\ ramdisk.policy /\ ~unsupported <=>
             cpc \in LateStages \cup {"permissive"} /\ ramdisk.policy /\ ~unsupported
        /\ cpc' \in Modes <=> cpc \in Modes
        /\ cpc' \in Modes => cpc' = cpc
        /\ cpc' = "eng" <=> cpc = "eng"
        /\ cpc' \notin {"detect", "copysu", "parse"} => argv' = <<>>
        /\ UNCHANGED opts \/ (cpc = "parse" /\ cpc' = "parse")
    BY <1>6 DEF ChangesNext, DetectVersion, CopySu, ParseArgument, ParsedArguments,
       MakeDomains, PermissiveSysinit, StartFstabs, EditFstab, NoFstab, Samsung,
       DisableSELinux, EditInitRc, HideSu, ListInitRc, PutVersion, PackRamdisk, GoOn, Die,
       LateStages, Modes, ModesOK, ChangesInv, PolicyOK
  <2>3. CASE UNCHANGED opts
    BY <1>2, <1>6, <2>1, <2>2, <2>3 DEF Passed, ModesOK
  <2>4. CASE cpc = "parse" /\ cpc' = "parse"
    BY <1>6, <2>1, <2>2, <2>4 DEF Passed, LateStages, Modes
  <2>5. QED
    BY <2>2, <2>3, <2>4
<1>7. QED
  BY <1>5, <1>6

LEMMA ScriptInvInit == ChangesInit => ScriptInv
<1> SUFFICES ASSUME ChangesInit PROVE ScriptInv
  OBVIOUS
<1>1. cpc = "detect" /\ files = [n \in Names |-> Original(n)] /\ "sepolicy" \in Names
  BY DEF ChangesInit, Fresh, Names
<1>2. FstabsOK
  <2>1. cpc \in BeforeFstabs
    BY <1>1 DEF BeforeFstabs, EarlyStages
  <2>2. \A f \in Fstabs : files[f] = IF Has(f, ramdisk.fstabs) THEN {} ELSE NoFile
    BY <1>1 DEF Original, Has, Names, Fstabs
  <2>3. QED
    BY <1>1, <2>1, <2>2 DEF FstabsOK, ToDo
<1>3. ModesOK
  <2>1. files["sepolicy"] \subseteq NoFile
    BY <1>1 DEF Original
  <2>2. cpc \notin LateStages \cup {"permissive"} \cup Modes
    BY <1>1 DEF LateStages, Modes
  <2>3. \A m \in Modes : m \notin NoFile
    BY DEF Modes, NoFile
  <2>4. QED
    BY <1>1, <2>1, <2>2, <2>3 DEF ModesOK, Passed, Modes
<1>4. QED
  BY <1>2, <1>3, ChangesInvInit DEF ScriptInv

LEMMA ScriptInvStep ==
  ASSUME ScriptInv, ChangesNext
  PROVE  ScriptInv'
<1>1. ChangesInv'
  BY ChangesInvNext DEF ScriptInv
<1>2. QED
  BY <1>1, FstabsStep, ModesStep DEF ScriptInv

LEMMA ScriptInvStutter ==
  ASSUME ScriptInv, UNCHANGED changesVars
  PROVE  ScriptInv'
<1>1. ChangesInv'
  BY ChangesInvStutter DEF ScriptInv
<1>2. FstabsOK'
  <2>1. FstabEdit' = FstabEdit /\ \A f : ToDo(f)' <=> ToDo(f)
    BY DEF changesVars, FstabEdit, ToDo
  <2>2. QED
    BY <2>1 DEF ScriptInv, FstabsOK, changesVars
<1>3. ModesOK'
  BY DEF ScriptInv, ModesOK, Passed, Asked, changesVars
<1>4. QED
  BY <1>1, <1>2, <1>3 DEF ScriptInv

\* What the archive of a script that succeeded has.
LEMMA ScriptDone ==
  ASSUME ScriptInv, ended = "ok"
  PROVE  /\ argv = <<>>
         /\ \A f \in Fstabs : Archive(f) \in {FstabEdit, NoFile}
         /\ Modes \cap Archive("sepolicy") =
               IF ramdisk.policy /\ ~unsupported THEN {m \in Modes : Asked(m)} ELSE {}
<1>1. cpc = "pack"
  BY DEF ScriptInv, ChangesInv, EndedOK
<1>2. cpc \in LateStages /\ cpc \notin BeforeFstabs
  BY <1>1 DEF LateStages, BeforeFstabs, EarlyStages, BlockStages, Grants
<1>3. ASSUME NEW f \in Fstabs PROVE Archive(f) \in {FstabEdit, NoFile}
  <2>1. f \in Names /\ f # "sepolicy" /\ f # "init.rc"
    BY DEF Names, Fstabs
  <2>2. Archive(f) = files[f]
    BY <1>1, <2>1 DEF ScriptInv, ChangesInv, ListedOK, SamsungEditLost, Archive
  <2>3. files[f] \in {FstabEdit, NoFile}
    BY <1>1, <1>2 DEF ScriptInv, FstabsOK, ToDo
  <2>4. QED
    BY <2>2, <2>3
<1>4. Modes \cap files["sepolicy"] =
         IF ramdisk.policy /\ ~unsupported THEN {m \in Modes : Asked(m)} ELSE {}
  BY <1>1, <1>2 DEF ScriptInv, ModesOK, Passed, Modes
<1>5. Modes \cap Archive("sepolicy") = Modes \cap files["sepolicy"]
  <2>1. CASE "sepolicy" \in listed
    BY <2>1 DEF Archive
  <2>2. CASE "sepolicy" \notin listed
    <3>1. Modes \cap Archive("sepolicy") = {}
      BY <2>2 DEF Archive, Original, Modes, NoFile
    <3>2. ~(ramdisk.policy /\ ~unsupported)
      BY <1>2, <2>2 DEF ScriptInv, ChangesInv, PolicyOK
    <3>3. QED
      BY <1>4, <3>1, <3>2
  <2>3. QED
    BY <2>1, <2>2
<1>6. argv = <<>>
  BY <1>1 DEF ScriptInv, ModesOK
<1>7. QED
  BY <1>3, <1>4, <1>5, <1>6

OptionsHonoured ==
    ended = "ok" =>
        /\ \A f \in Fstabs : Archive(f) \in {FstabEdit, NoFile}
        /\ Modes \cap Archive("sepolicy") =
              IF ramdisk.policy /\ ~unsupported THEN {m \in Modes : Asked(m)} ELSE {}

(***************************************************************************)
(* ChangesHonourOptions: the archive of a script that succeeds has the     *)
(* edits of fstab* its options ask for, in every file there is and no      *)
(* others, and the rules of the modes up to the one asked for, wherever    *)
(* in the command line the words stood.                                    *)
(***************************************************************************)
THEOREM ChangesHonourOptions == ChangesSpec => []OptionsHonoured
<1>1. ScriptInv /\ [ChangesNext]_changesVars => ScriptInv'
  BY ScriptInvStep, ScriptInvStutter
<1>2. ScriptInv => OptionsHonoured
  BY ScriptDone DEF OptionsHonoured
<1>3. QED
  BY <1>1, <1>2, ScriptInvInit, PTL DEF ChangesSpec

-----------------------------------------------------------------------------
(***************************************************************************)
(* The builds.  The options of a variant, as far as they have been parsed. *)
(***************************************************************************)
ModeEng(noverity, nocrypt) ==
    [selinuxmode |-> "eng", noverity |-> noverity, nocrypt |-> nocrypt,
     keeprecovery |-> FALSE, hidesu |-> FALSE, permissivesysinit |-> FALSE]

EngOpts      == ModeEng(FALSE, 0)
NoverityOpts == ModeEng(TRUE, 0)
NocryptOpts  == ModeEng(TRUE, 1)

ParsedSoFar(v) ==
    \/ v = "user" /\ argv = <<>> /\ opts = DefaultOpts
    \/ v = "eng" /\ argv = <<"eng">> /\ opts = DefaultOpts
    \/ v = "eng" /\ argv = <<>> /\ opts = EngOpts
    \/ v = "noverity" /\ argv = <<"eng", "noverity">> /\ opts = DefaultOpts
    \/ v = "noverity" /\ argv = <<"noverity">> /\ opts = EngOpts
    \/ v = "noverity" /\ argv = <<>> /\ opts = NoverityOpts
    \/ v = "nocrypt" /\ argv = <<"eng", "noverity", "nocrypt">> /\ opts = DefaultOpts
    \/ v = "nocrypt" /\ argv = <<"noverity", "nocrypt">> /\ opts = EngOpts
    \/ v = "nocrypt" /\ argv = <<"nocrypt">> /\ opts = NoverityOpts
    \/ v = "nocrypt" /\ argv = <<>> /\ opts = NocryptOpts

\* The image p is of the variant v; the rules of the modes are only asked of
\* one made with the SELinux block (inBlock).
HasVariant(v, p, inBlock) ==
    /\ p.state = "whole"
    /\ \A f \in Fstabs : p.files[f] \in {VariantFstab[v], NoFile}
    /\ Modes \cap p.files["sepolicy"] = IF inBlock /\ v # "user" THEN Modes ELSE {}

InBlock == ramdisk.policy /\ ~unsupported

Is(v, p) == HasVariant(v, p, InBlock)

Idle == {"idle", "fetch", "cp"}
Busy == {"start", "session", "copy", "sign", "signing", "put", "rm"}

\* A user runs bootimg.sh once; a build has a variant while it is busy, and an
\* original.
StagesOK ==
    /\ caller \in {"user", "build"} /\ variant \in Variants \cup {"none"}
    /\ shell \in Idle \cup Busy
    /\ caller = "user" => shell = "session" /\ variant = "none"
    /\ caller = "build" => (shell \in Busy <=> variant # "none")
    /\ caller = "build" /\ shell \in Busy => orig # "absent"

DeviceTypes ==
    /\ orig \in {"absent", "torn", "whole"}
    /\ ProductType(newboot) /\ ProductType(signed)
    /\ published = [v \in Variants |-> published[v]]
    /\ \A v \in Variants : ProductType(published[v])
    /\ signs \in BOOLEAN /\ keysTaken \in BOOLEAN
    /\ complete \in BOOLEAN /\ interrupted \in BOOLEAN
    /\ runs \in 0 .. MaxRuns

\* The image of this turn of the loop is of the variant, from the words the
\* script is started with to the image that is published.
VariantOK ==
    /\ caller = "build" /\ shell \in {"session", "copy"} => ParsedSoFar(variant)
    /\ shell = "copy" => ended = "ok"
    /\ shell \in {"sign", "signing", "put"} => Is(variant, newboot)
    /\ shell = "signing" => signs
    /\ shell = "put" /\ signs => Is(variant, signed)

\* Without keys there is no signed image, unless the keys were taken away.
KeysOK == ~keysTaken /\ signed # NoProduct => signs

\* The variants that are done when another one is being made.
DoneBefore == [none |-> {}, eng |-> {}, user |-> {"eng"}, noverity |-> {"eng", "user"},
               nocrypt |-> {"eng", "user", "noverity"}]

PublishedOK ==
    /\ ~keysTaken => \A v \in Variants : published[v] # NoProduct => Is(v, published[v])
    /\ \A v \in DoneBefore[variant] : published[v] # NoProduct
    /\ shell = "rm" => published[variant] # NoProduct
    /\ complete => \A v \in Variants : published[v] # NoProduct

\* Only an interrupted cp leaves a part of an original where others find it.
FromWhole(p) == p.state = "whole" => p.from = "whole"

OriginOK ==
    ~interrupted =>
        /\ orig = "torn" => shell = "cp"
        /\ FromWhole(newboot) /\ FromWhole(signed)
        /\ \A v \in Variants : FromWhole(published[v])

BuildInv ==
    /\ ScriptInv /\ StagesOK /\ DeviceTypes
    /\ VariantOK /\ KeysOK /\ PublishedOK /\ OriginOK

-----------------------------------------------------------------------------
LEMMA IsVariantIs ==
  ASSUME NEW v, NEW p
  PROVE  IsVariant(v, p) <=> Is(v, p)
<1>1. (v = "user" \/ ~ramdisk.policy \/ unsupported) <=> ~(InBlock /\ v # "user")
  BY DEF InBlock
<1>2. QED
  BY <1>1 DEF IsVariant, Is, HasVariant, Modes

LEMMA NoProducts ==
  /\ \A v : ~Is(v, NoProduct)
  /\ FromWhole(NoProduct) /\ FromWhole(Torn) /\ NoProduct # Torn
  /\ ProductType(NoProduct) /\ ProductType(Torn)
  /\ \A p \in Product : p # NoProduct
<1>1. NoProduct.state = "absent" /\ Torn.state = "torn"
  BY DEF NoProduct, Torn
<1>2. \A p \in Product : p.state = "whole"
  BY DEF Product
<1>3. QED
  BY <1>1, <1>2 DEF Is, HasVariant, FromWhole, ProductType

(***************************************************************************)
(* The loop over the words takes them one by one.                          *)
(***************************************************************************)
LEMMA ParsedStep ==
  ASSUME NEW v, ParsedSoFar(v), ChangesNext
  PROVE  ParsedSoFar(v)'
<1>1. CASE ParseArgument
  <2> DEFINE w == Head(argv)
  <2>1. argv # <<>> /\ argv' = Tail(argv)
    BY <1>1 DEF ParseArgument
  <2> DEFINE mode == IF w \in {"eng", "power", "user"} THEN w ELSE opts.selinuxmode
             nv   == w = "noverity" \/ (w # "verity" /\ opts.noverity)
             nc   == CASE w = "nocrypt_all" -> 2
                       [] w = "nocrypt"     -> 1
                       [] w = "crypt"       -> 0
                       [] OTHER             -> opts.nocrypt
             kr   == w = "keeprecovery" \/ opts.keeprecovery
             hs   == w = "hidesu" \/ opts.hidesu
             ps   == w = "permissivesysinit" \/ opts.permissivesysinit
  <2>2. opts' = [selinuxmode |-> mode, noverity |-> nv, nocrypt |-> nc,
                 keeprecovery |-> kr, hidesu |-> hs, permissivesysinit |-> ps]
    BY <1>1 DEF ParseArgument
  <2>2a. w \in {"eng", "noverity", "nocrypt"}
           /\ opts \in {DefaultOpts, EngOpts, NoverityOpts} =>
         /\ mode = IF w = "eng" THEN "eng" ELSE opts.selinuxmode
         /\ nv <=> w = "noverity" \/ opts.noverity
         /\ nc = IF w = "nocrypt" THEN 1 ELSE opts.nocrypt
         /\ ~kr /\ ~hs /\ ~ps
    BY DEF DefaultOpts, EngOpts, NoverityOpts, ModeEng
  <2>2b. nv \in BOOLEAN /\ kr \in BOOLEAN /\ hs \in BOOLEAN /\ ps \in BOOLEAN
    OBVIOUS
  <2> HIDE DEF w, mode, nv, nc, kr, hs, ps
  <2>3. ASSUME w = "eng", opts = DefaultOpts
        PROVE  opts' = EngOpts
    <3>1. mode = "eng" /\ nc = 0 /\ ~nv /\ ~kr /\ ~hs /\ ~ps
      BY <2>2a, <2>3 DEF DefaultOpts
    <3>2. nv = FALSE /\ kr = FALSE /\ hs = FALSE /\ ps = FALSE
      BY <2>2b, <3>1
    <3>3. QED
      BY <2>2, <3>1, <3>2, Zenon DEF EngOpts, ModeEng
  <2>4. ASSUME w = "noverity", opts = EngOpts
        PROVE  opts' = NoverityOpts
    <3>1. mode = "eng" /\ nc = 0 /\ nv /\ ~kr /\ ~hs /\ ~ps
      BY <2>2a, <2>4 DEF EngOpts, ModeEng
    <3>2. nv = TRUE /\ kr = FALSE /\ hs = FALSE /\ ps = FALSE
      BY <2>2b, <3>1
    <3>3. QED
      BY <2>2, <3>1, <3>2, Zenon DEF NoverityOpts, ModeEng
  <2>5. ASSUME w = "nocrypt", opts = NoverityOpts
        PROVE  opts' = NocryptOpts
    <3>1. mode = "eng" /\ nc = 1 /\ nv /\ ~kr /\ ~hs /\ ~ps
      BY <2>2a, <2>5 DEF NoverityOpts, ModeEng
    <3>2. nv = TRUE /\ kr = FALSE /\ hs = FALSE /\ ps = FALSE
      BY <2>2b, <3>1
    <3>3. QED
      BY <2>2, <3>1, <3>2, Zenon DEF NocryptOpts, ModeEng
  <2>6. \A x : argv = <<x>> => w = x /\ argv' = <<>>
    BY <2>1 DEF w
  <2>7. \A x, y : argv = <<x, y>> => w = x /\ argv' = <<y>>
    BY <2>1 DEF w
  <2>8. \A x, y, z : argv = <<x, y, z>> => w = x /\ argv' = <<y, z>>
    BY <2>1 DEF w
  <2>9. QED
    BY <2>1, <2>3, <2>4, <2>5, <2>6, <2>7, <2>8 DEF ParsedSoFar
<1>2. CASE UNCHANGED <<argv, opts>>
  BY <1>2 DEF ParsedSoFar
<1>3. QED
  BY <1>1, <1>2 DEF ChangesNext, DetectVersion, CopySu, ParsedArguments, MakeDomains, Grant,
     PermissiveSysinit, StartFstabs, EditFstab, NoFstab, Samsung, DisableSELinux, EditInitRc,
     HideSu, ListInitRc, PutVersion, PackRamdisk

\* What a variant's words ask for is what its name says.
LEMMA VariantMade ==
  ASSUME ScriptInv, ended = "ok", NEW v \in Variants, ParsedSoFar(v),
         orig \in {"torn", "whole"}
  PROVE  LET p == [state |-> "whole", from |-> orig, files |-> [n \in Names |-> Archive(n)]]
         IN  p \in Product /\ Is(v, p) /\ p.state = "whole" /\ p.from = orig
<1> DEFINE fs == [n \in Names |-> Archive(n)]
           p  == [state |-> "whole", from |-> orig, files |-> fs]
<1>1. fs \in [Names -> SUBSET Edits]
  BY OriginalType DEF Archive, ScriptInv, ChangesInv, ChangesTypeOK
<1>2. /\ opts.nocrypt = IF v = "nocrypt" THEN 1 ELSE 0
      /\ opts.noverity <=> v \in {"noverity", "nocrypt"}
      /\ opts.selinuxmode = IF v = "user" THEN "user" ELSE "eng"
  <2>1. argv = <<>>
    BY ScriptDone
  <2>2. \/ v = "user" /\ opts = DefaultOpts
        \/ v = "eng" /\ opts = EngOpts
        \/ v = "noverity" /\ opts = NoverityOpts
        \/ v = "nocrypt" /\ opts = NocryptOpts
    BY <2>1 DEF ParsedSoFar
  <2>3. QED
    BY <2>2 DEF DefaultOpts, EngOpts, NoverityOpts, NocryptOpts, ModeEng
<1>3. FstabEdit = VariantFstab[v]
  BY <1>2 DEF FstabEdit, VariantFstab, Variants
<1>4. \A f \in Fstabs : fs[f] \in {VariantFstab[v], NoFile}
  BY <1>3, ScriptDone DEF Names
<1>5. Modes \cap fs["sepolicy"] = IF InBlock /\ v # "user" THEN Modes ELSE {}
  <2>1. {m \in Modes : Asked(m)} = IF v = "user" THEN {} ELSE Modes
    BY <1>2 DEF Asked, Modes
  <2>2. fs["sepolicy"] = Archive("sepolicy")
    BY DEF Names
  <2>3. QED
    BY <2>1, <2>2, ScriptDone DEF InBlock
<1> HIDE DEF fs
<1>6. p.state = "whole" /\ p.from = orig /\ p.files = fs
  OBVIOUS
<1>7. p \in Product
  BY <1>1 DEF Product
<1> HIDE DEF p
<1>8. Is(v, p)
  BY <1>4, <1>5, <1>6 DEF Is, HasVariant
<1>9. QED
  BY <1>6, <1>7, <1>8 DEF p, fs

-----------------------------------------------------------------------------
LEMMA BuildInvInit == Init => BuildInv
<1> SUFFICES ASSUME Init PROVE BuildInv
  OBVIOUS
<1>1. ScriptInv
  BY ScriptInvInit DEF Init
<1>2. published = [v \in Variants |-> NoProduct] /\ newboot = NoProduct /\ signed = NoProduct
  BY DEF Init
<1>3. StagesOK
  BY DEF Init, StagesOK, Idle, Busy
<1>4. DeviceTypes
  <2>1. \A v \in Variants : published[v] = NoProduct
    BY <1>2
  <2>2. published = [v \in Variants |-> published[v]]
    BY <1>2
  <2>3. 0 \in 0 .. MaxRuns
    BY MaxRunsAssumption
  <2>4. QED
    BY <1>2, <2>1, <2>2, <2>3, NoProducts DEF Init, DeviceTypes
<1>5. VariantOK /\ KeysOK
  BY <1>2 DEF Init, VariantOK, KeysOK
<1>6. PublishedOK
  BY <1>2 DEF Init, PublishedOK, DoneBefore
<1>7. OriginOK
  BY <1>2, NoProducts DEF Init, OriginOK
<1>8. QED
  BY <1>1, <1>3, <1>4, <1>5, <1>6, <1>7 DEF BuildInv

(***************************************************************************)
(* What the actions have in common: the ramdisk is the same, and but for   *)
(* two of them the script does not move.                                   *)
(***************************************************************************)
LEMMA SameInputs == Next => UNCHANGED inputs /\ InBlock' = InBlock
<1>1. ChangesNext => UNCHANGED inputs
  BY DEF ChangesNext, DetectVersion, CopySu, ParseArgument, ParsedArguments, MakeDomains,
     Grant, PermissiveSysinit, StartFstabs, EditFstab, NoFstab, Samsung, DisableSELinux,
     EditInitRc, HideSu, ListInitRc, PutVersion, PackRamdisk
<1>2. Next => UNCHANGED inputs
  BY <1>1 DEF Next, StartDownload, Fetch, EndDownload, StartBuild, StartSession, RunChanges,
     StartCopy, EndCopy, StartSigning, EndSigning, PutBoot, RemoveUnsigned, Kill, BuildFails,
     sessionVars, changesVars, inputs
<1>3. UNCHANGED inputs => InBlock' = InBlock
  BY DEF inputs, InBlock
<1>4. QED
  BY <1>2, <1>3

LEMMA OtherSteps ==
  ASSUME Next, ~StartSession, ~RunChanges
  PROVE  UNCHANGED changesVars
  BY DEF Next, StartDownload, Fetch, EndDownload, StartBuild, StartCopy, EndCopy,
     StartSigning, EndSigning, PutBoot, RemoveUnsigned, Kill, BuildFails, sessionVars

\* Only a build leaves the stage the user's session is in.
LEMMA BuildStages ==
  ASSUME StagesOK, Next, ~RunChanges
  PROVE  /\ caller = "build" /\ caller' = "build"
         /\ shell \in Busy <=> variant # "none"
         /\ shell \in Busy => orig # "absent" /\ variant \in Variants
<1>1. caller = "build"
  BY DEF Next, StartDownload, Fetch, EndDownload, StartBuild, StartSession, StartCopy, EndCopy,
     StartSigning, EndSigning, PutBoot, RemoveUnsigned, Kill, StagesOK
<1>2. UNCHANGED caller
  BY DEF Next, StartDownload, Fetch, EndDownload, StartBuild, StartSession, StartCopy, EndCopy,
     StartSigning, EndSigning, PutBoot, RemoveUnsigned, Kill, BuildFails, sessionVars
<1>3. QED
  BY <1>1, <1>2 DEF StagesOK

LEMMA StagesStep ==
  ASSUME StagesOK, DeviceTypes, Next
  PROVE  StagesOK'
<1>1. CASE RunChanges
  BY <1>1 DEF RunChanges, StagesOK, deviceVars
<1>2. CASE ~RunChanges
  <2>1. /\ caller = "build" /\ caller' = "build"
        /\ shell \in Busy <=> variant # "none"
        /\ shell \in Busy => orig # "absent" /\ variant \in Variants
        /\ variant \in Variants \cup {"none"}
    BY <1>2, BuildStages DEF StagesOK
  <2> USE <2>1 DEF StagesOK, Idle, Busy
  <2>2. CASE StartDownload \/ Fetch \/ EndDownload
    BY <2>2 DEF StartDownload, Fetch, EndDownload, sessionVars
  <2>3. CASE StartBuild
    BY <2>3 DEF StartBuild, Variants
  <2>4. CASE BuildFails
    BY <2>4 DEF BuildFails
  <2>5. CASE StartSession \/ StartCopy \/ EndCopy
    BY <2>4, <2>5 DEF StartSession, StartCopy, EndCopy, sessionVars, deviceVars
  <2>6. CASE StartSigning \/ EndSigning \/ PutBoot
    BY <2>4, <2>6 DEF StartSigning, EndSigning, PutBoot, sessionVars
  <2>7. CASE RemoveUnsigned
    BY <2>7 DEF RemoveUnsigned, NextVariant, Variants
  <2>8. CASE Kill
    BY <2>8 DEF Kill
  <2>9. QED
    BY <1>2, <2>2, <2>3, <2>5, <2>6, <2>7, <2>8 DEF Next
<1>3. QED
  BY <1>1, <1>2

\* putBoot puts one image in its place and leaves the others.
LEMMA PutBootIs ==
  ASSUME BuildInv, PutBoot
  PROVE  LET p == IF signed # NoProduct THEN signed ELSE newboot
         IN  /\ shell = "put" /\ shell' = "rm" /\ variant \in Variants
             /\ UNCHANGED <<sessionVars, orig, historyVars>>
             /\ published' = [published EXCEPT ![variant] = p]
             /\ published' = [v \in Variants |-> published'[v]]
             /\ published'[variant] = p /\ ProductType(p)
             /\ \A v \in Variants : v # variant => published'[v] = published[v]
             /\ {newboot', signed'} \subseteq {newboot, signed, NoProduct}
<1> DEFINE p == IF signed # NoProduct THEN signed ELSE newboot
<1>1. /\ shell = "put" /\ shell' = "rm" /\ UNCHANGED <<sessionVars, orig, historyVars>>
      /\ published' = [published EXCEPT ![variant] = p]
      /\ {newboot', signed'} \subseteq {newboot, signed, NoProduct}
  BY DEF PutBoot
<1>2. variant \in Variants
  BY <1>1 DEF BuildInv, StagesOK, Busy
<1>3. ProductType(p)
  BY DEF BuildInv, DeviceTypes
<1> HIDE DEF p
<1>4. published = [v \in Variants |-> published[v]]
  BY DEF BuildInv, DeviceTypes
<1>5. /\ published' = [v \in Variants |-> published'[v]]
      /\ published'[variant] = p
      /\ \A v \in Variants : v # variant => published'[v] = published[v]
  BY <1>1, <1>2, <1>4
<1>6. QED
  BY <1>1, <1>2, <1>3, <1>5 DEF p

LEMMA EndCopyIs ==
  ASSUME BuildInv, EndCopy
  PROVE  \/ BuildFails
         \/ /\ shell' = "sign"
            /\ newboot' \in Product /\ Is(variant, newboot') /\ newboot'.from = orig
            /\ UNCHANGED <<sessionVars, orig, signed, published, historyVars>>
<1>1. CASE BuildFails
  BY <1>1
<1>2. CASE ~BuildFails
  <2>1. /\ shell = "copy" /\ shell' = "sign"
        /\ newboot' = [state |-> "whole", from |-> orig, files |-> [n \in Names |-> Archive(n)]]
        /\ UNCHANGED <<sessionVars, orig, signed, published, historyVars>>
    BY <1>2 DEF EndCopy
  <2>2. /\ variant \in Variants /\ ParsedSoFar(variant) /\ ended = "ok"
        /\ orig \in {"torn", "whole"} /\ ScriptInv
    BY <2>1 DEF BuildInv, StagesOK, DeviceTypes, VariantOK, Busy
  <2>3. QED
    BY <2>1, <2>2, VariantMade
<1>3. QED
  BY <1>1, <1>2

LEMMA DeviceTypesStep ==
  ASSUME BuildInv, Next
  PROVE  DeviceTypes'
<1> USE DEF DeviceTypes
<1>0. runs < MaxRuns /\ runs' = runs + 1 => runs' \in 0 .. MaxRuns
  <2>1. runs \in 0 .. MaxRuns
    BY DEF BuildInv
  <2>2. QED
    BY <2>1, MaxRunsAssumption
<1>1. CASE \/ StartDownload \/ Fetch \/ EndDownload \/ StartSession \/ RunChanges
  <2>1. runs' \in 0 .. MaxRuns
    <3>1. (runs < MaxRuns /\ runs' = runs + 1) \/ runs' = runs
      BY <1>1 DEF StartDownload, Fetch, EndDownload, StartSession, RunChanges, BuildFails,
         deviceVars
    <3>2. QED
      BY <1>0, <3>1 DEF BuildInv
  <2>2. /\ orig' \in {"absent", "torn", "whole"} /\ interrupted' \in BOOLEAN
        /\ UNCHANGED <<newboot, signed, published, signs, keysTaken, complete>>
    BY <1>1 DEF BuildInv, StartDownload, Fetch, EndDownload, StartSession, RunChanges,
       BuildFails, deviceVars, sessionVars
  <2>3. QED
    BY <2>1, <2>2 DEF BuildInv
<1>2. CASE StartBuild
  <2>1. \A v \in Variants : published'[v] = NoProduct
    BY <1>2 DEF StartBuild
  <2>2. published' = [v \in Variants |-> published'[v]]
    BY <1>2 DEF StartBuild
  <2>3. runs' \in 0 .. MaxRuns
    BY <1>0, <1>2 DEF StartBuild
  <2>4. /\ signs' \in BOOLEAN /\ keysTaken' \in BOOLEAN /\ complete' \in BOOLEAN
        /\ UNCHANGED <<orig, newboot, signed, interrupted>>
    BY <1>2 DEF BuildInv, StartBuild
  <2>5. QED
    BY <2>1, <2>2, <2>3, <2>4, NoProducts DEF BuildInv
<1>3. CASE BuildFails \/ Kill
  BY <1>3 DEF BuildInv, BuildFails, Kill, deviceVars
<1>4. CASE StartCopy \/ StartSigning \/ EndSigning \/ RemoveUnsigned
  BY <1>3, <1>4, NoProducts DEF BuildInv, StartCopy, StartSigning, EndSigning, RemoveUnsigned,
     sessionVars, historyVars
<1>5. CASE EndCopy
  BY <1>3, <1>5, EndCopyIs DEF BuildInv, sessionVars, historyVars, ProductType
<1>6. CASE PutBoot
  <2>1. \A v \in Variants : ProductType(published'[v])
    BY <1>6, PutBootIs DEF BuildInv
  <2>2. ProductType(newboot') /\ ProductType(signed')
    BY <1>6, PutBootIs, NoProducts DEF BuildInv
  <2>3. /\ published' = [v \in Variants |-> published'[v]]
        /\ UNCHANGED <<sessionVars, orig, historyVars>>
    BY <1>6, PutBootIs
  <2>4. QED
    BY <2>1, <2>2, <2>3 DEF BuildInv, sessionVars, historyVars
<1>7. QED
  BY <1>1, <1>2, <1>3, <1>4, <1>5, <1>6 DEF Next

LEMMA VariantStep ==
  ASSUME BuildInv, Next
  PROVE  VariantOK' /\ KeysOK'
<1>1. InBlock' = InBlock
  BY SameInputs
<1> USE DEF VariantOK, KeysOK
<1>2. CASE RunChanges
  <2>1. caller = "build" => ParsedSoFar(variant)'
    <3>1. ASSUME NEW v, ParsedSoFar(v) PROVE ParsedSoFar(v)'
      BY <1>2, <3>1, ParsedStep DEF RunChanges
    <3>2. QED
      BY <1>2, <3>1 DEF RunChanges, BuildInv, ParsedSoFar
  <2>2. QED
    BY <1>2, <2>1 DEF RunChanges, BuildInv, deviceVars
<1>3. CASE BuildFails \/ Kill
  BY <1>3 DEF BuildInv, BuildFails, Kill, deviceVars
<1>4. CASE StartDownload \/ Fetch \/ EndDownload
  BY <1>4 DEF BuildInv, StartDownload, Fetch, EndDownload, sessionVars
<1>5. CASE StartBuild
  BY <1>5 DEF BuildInv, DeviceTypes, StartBuild
<1>6. CASE StartSession
  <2>1. CASE BuildFails
    BY <1>3, <2>1
  <2>2. CASE ~BuildFails
    <3>1. /\ shell' = "session" /\ argv' = Words[variant] /\ opts' = DefaultOpts
          /\ UNCHANGED <<variant, signs, keysTaken, signed>>
      BY <1>6, <2>2 DEF StartSession, deviceVars
    <3>2. variant \in Variants
      BY <1>6, <2>2 DEF StartSession, BuildInv, StagesOK, Busy
    <3>3. ParsedSoFar(variant)'
      BY <3>1, <3>2 DEF ParsedSoFar, Words, Variants
    <3>4. QED
      BY <3>1, <3>3 DEF BuildInv
  <2>3. QED
    BY <2>1, <2>2
<1>7. CASE StartCopy
  <2>1. CASE BuildFails
    BY <1>3, <2>1
  <2>2. CASE ~BuildFails
    BY <1>7, <2>2 DEF BuildInv, StartCopy, sessionVars, changesVars, ParsedSoFar
  <2>3. QED
    BY <2>1, <2>2
<1>8. CASE EndCopy
  BY <1>1, <1>3, <1>8, EndCopyIs DEF BuildInv, sessionVars, Is
<1>9. CASE StartSigning
  BY <1>1, <1>3, <1>9 DEF BuildInv, StartSigning, sessionVars, Is
<1>10. CASE EndSigning
  BY <1>1, <1>3, <1>10 DEF BuildInv, EndSigning, sessionVars, Is
<1>11. CASE PutBoot
  BY <1>11 DEF BuildInv, PutBoot, sessionVars
<1>12. CASE RemoveUnsigned
  BY <1>12 DEF BuildInv, RemoveUnsigned
<1>13. QED
  BY <1>2, <1>3, <1>4, <1>5, <1>6, <1>7, <1>8, <1>9, <1>10, <1>11, <1>12 DEF Next

LEMMA PublishedStep ==
  ASSUME BuildInv, Next
  PROVE  PublishedOK'
<1>1. InBlock' = InBlock
  BY SameInputs
<1> USE DEF PublishedOK
<1>2. CASE StartDownload \/ Fetch \/ EndDownload \/ RunChanges
  BY <1>1, <1>2 DEF BuildInv, StartDownload, Fetch, EndDownload, RunChanges, sessionVars,
     deviceVars, Is
<1>3. CASE BuildFails \/ Kill
  BY <1>1, <1>3 DEF BuildInv, BuildFails, Kill, deviceVars, Is, DoneBefore
<1>4. CASE StartBuild
  BY <1>4 DEF StartBuild, DoneBefore
<1>5. CASE StartSession \/ StartCopy \/ EndCopy \/ StartSigning \/ EndSigning
  BY <1>1, <1>3, <1>5 DEF BuildInv, StartSession, StartCopy, EndCopy, StartSigning,
     EndSigning, sessionVars, deviceVars, historyVars, Is
<1>6. CASE PutBoot
  <2> DEFINE p == IF signed # NoProduct THEN signed ELSE newboot
  <2>1. /\ shell = "put" /\ shell' = "rm" /\ variant \in Variants
        /\ UNCHANGED <<variant, signs, keysTaken, complete>>
        /\ published'[variant] = p
        /\ \A v \in Variants : v # variant => published'[v] = published[v]
    BY <1>6, PutBootIs DEF sessionVars, historyVars
  <2>2. Is(variant, newboot) /\ (signs => Is(variant, signed))
    BY <2>1 DEF BuildInv, VariantOK
  <2>3. p # NoProduct
    BY <2>2, NoProducts
  <2>4. ~keysTaken => Is(variant, p)
    BY <2>2 DEF BuildInv, KeysOK
  <2> HIDE DEF p
  <2>5. \A v \in Variants : published'[v] # NoProduct => published[v] # NoProduct \/ v = variant
    BY <2>1
  <2>6. ~keysTaken' => \A v \in Variants : published'[v] # NoProduct => Is(v, published'[v])
    BY <2>1, <2>4 DEF BuildInv
  <2>7. \A v \in Variants : published[v] # NoProduct => published'[v] # NoProduct
    BY <2>1, <2>3
  <2>8. DoneBefore[variant] \subseteq Variants
    BY <2>1 DEF DoneBefore, Variants
  <2>9. /\ \A v \in DoneBefore[variant] : published'[v] # NoProduct
        /\ published'[variant] # NoProduct
        /\ complete => \A v \in Variants : published'[v] # NoProduct
    BY <2>1, <2>3, <2>7, <2>8 DEF BuildInv
  <2>10. QED
    BY <1>1, <2>1, <2>6, <2>9 DEF Is
<1>7. CASE RemoveUnsigned
  <2>1. variant \in Variants /\ published[variant] # NoProduct
    BY <1>7 DEF RemoveUnsigned, BuildInv, StagesOK, Busy
  <2>2. /\ UNCHANGED <<published, keysTaken>> /\ variant' = NextVariant[variant]
        /\ shell' # "rm" /\ (complete' => complete \/ variant' = "none")
    BY <1>7 DEF RemoveUnsigned
  <2>3. /\ DoneBefore[variant'] \subseteq DoneBefore[variant] \cup {variant}
        /\ variant' = "none" => DoneBefore[variant] \cup {variant} = Variants
    BY <2>1, <2>2 DEF DoneBefore, NextVariant, Variants
  <2>4. \A v \in DoneBefore[variant] \cup {variant} : published[v] # NoProduct
    BY <2>1 DEF BuildInv
  <2>5. QED
    BY <1>1, <2>2, <2>3, <2>4 DEF BuildInv, Is
<1>8. QED
  BY <1>2, <1>3, <1>4, <1>5, <1>6, <1>7 DEF Next

LEMMA OriginStep ==
  ASSUME BuildInv, Next
  PROVE  OriginOK'
<1> USE DEF OriginOK
<1>1. CASE StartDownload \/ RunChanges
  BY <1>1 DEF BuildInv, StartDownload, RunChanges, deviceVars
<1>2. ASSUME BuildFails, shell # "cp"
      PROVE  OriginOK'
  BY <1>2 DEF BuildInv, BuildFails, deviceVars
<1>2a. CASE Kill
  BY <1>2a DEF BuildInv, Kill
<1>3. CASE Fetch \/ EndDownload
  BY <1>3 DEF BuildInv, DeviceTypes, Fetch, EndDownload
<1>4. CASE StartBuild
  BY <1>4, NoProducts DEF BuildInv, StartBuild
<1>5. CASE StartSession
  BY <1>2, <1>5 DEF BuildInv, StartSession, deviceVars
<1>6. CASE StartCopy
  BY <1>2, <1>6, NoProducts DEF BuildInv, StartCopy, historyVars
<1>7. CASE EndCopy
  <2>1. CASE BuildFails
    BY <1>2, <1>7, <2>1 DEF EndCopy
  <2>2. CASE ~BuildFails
    <3>1. newboot'.from = orig /\ UNCHANGED <<orig, signed, published, interrupted>>
      BY <1>7, <2>2, EndCopyIs DEF historyVars
    <3>2. shell = "copy" /\ shell' # "cp" /\ orig # "absent"
      BY <1>7, <2>2 DEF EndCopy, BuildInv, StagesOK, Busy
    <3>3. QED
      BY <3>1, <3>2 DEF BuildInv, DeviceTypes, FromWhole
  <2>3. QED
    BY <2>1, <2>2
<1>8. CASE StartSigning \/ EndSigning
  BY <1>2, <1>8, NoProducts DEF BuildInv, StartSigning, EndSigning, historyVars
<1>9. CASE PutBoot
  <2>1. /\ variant \in Variants /\ shell = "put" /\ UNCHANGED <<orig, interrupted>>
        /\ published'[variant] \in {signed, newboot}
        /\ \A v \in Variants : v # variant => published'[v] = published[v]
        /\ {newboot', signed'} \subseteq {newboot, signed, NoProduct}
    BY <1>9, PutBootIs DEF historyVars
  <2>2. QED
    BY <2>1, NoProducts DEF BuildInv
<1>10. CASE RemoveUnsigned
  BY <1>10, NoProducts DEF BuildInv, RemoveUnsigned
<1>11. QED
  BY <1>1, <1>2a, <1>3, <1>4, <1>5, <1>6, <1>7, <1>8, <1>9, <1>10 DEF Next

\* A build starts the script anew.
LEMMA ScriptInvRestarted == ChangesInit' => ScriptInv'
  BY ScriptInvInit, PTL

LEMMA ScriptStep ==
  ASSUME BuildInv, Next
  PROVE  ScriptInv'
<1>1. CASE RunChanges
  BY <1>1, ScriptInvStep DEF BuildInv, RunChanges
<1>2. CASE StartSession
  <2>1. CASE BuildFails
    BY <2>1, ScriptInvStutter DEF BuildInv, BuildFails
  <2>2. CASE ~BuildFails
    <3>1. /\ UNCHANGED inputs /\ argv' = Words[variant] /\ opts' = DefaultOpts
          /\ cpc' = "detect" /\ ended' = "running" /\ android' = 0
          /\ files' = [n \in Names |-> Original(n)]
          /\ listed' = {} /\ left' = <<>> /\ variant \in Variants
      BY <1>2, <2>2 DEF StartSession, BuildInv, StagesOK, Busy
    <3>2. ramdisk' \in Ramdisks /\ unsupported' \in BOOLEAN
      BY <3>1 DEF BuildInv, ScriptInv, ChangesInv, ChangesTypeOK, inputs
    <3>3. argv' \in Arguments
      BY <3>1, WordsAssumption
    <3>4. \A n : Original(n)' = Original(n)
      BY <3>1 DEF Original, inputs
    <3>5. Fresh'
      BY <3>1, <3>4 DEF Fresh
    <3>6. ChangesInit'
      BY <3>2, <3>3, <3>5 DEF ChangesInit
    <3>7. QED
      BY <3>6, ScriptInvRestarted
  <2>3. QED
    BY <2>1, <2>2
<1>3. CASE ~RunChanges /\ ~StartSession
  BY <1>3, OtherSteps, ScriptInvStutter DEF BuildInv
<1>4. QED
  BY <1>1, <1>2, <1>3

LEMMA BuildInvNext == BuildInv /\ [Next]_vars => BuildInv'
<1>1. ASSUME BuildInv, Next
      PROVE  BuildInv'
  <2>1. StagesOK'
    BY <1>1, StagesStep DEF BuildInv
  <2>2. DeviceTypes' /\ VariantOK' /\ KeysOK' /\ PublishedOK' /\ OriginOK' /\ ScriptInv'
    BY <1>1, DeviceTypesStep, VariantStep, PublishedStep, OriginStep, ScriptStep
  <2>3. QED
    BY <2>1, <2>2 DEF BuildInv
<1>2. ASSUME BuildInv, UNCHANGED vars
      PROVE  BuildInv'
  <2>1. UNCHANGED changesVars /\ ScriptInv'
    BY <1>2, ScriptInvStutter DEF BuildInv, vars
  <2>2. InBlock' = InBlock
    BY <2>1 DEF InBlock, changesVars
  <2>3. /\ UNCHANGED <<caller, shell, variant, signs, keysTaken, orig, newboot, signed>>
        /\ UNCHANGED <<published, complete, interrupted, runs>>
    BY <1>2 DEF vars, deviceVars
  <2>4. StagesOK' /\ DeviceTypes' /\ KeysOK' /\ OriginOK'
    BY <1>2, <2>3 DEF BuildInv, StagesOK, DeviceTypes, KeysOK, OriginOK
  <2>5. VariantOK'
    BY <1>2, <2>1, <2>2, <2>3 DEF BuildInv, VariantOK, Is, ParsedSoFar, changesVars
  <2>6. PublishedOK'
    BY <1>2, <2>2, <2>3 DEF BuildInv, PublishedOK, Is
  <2>7. QED
    BY <2>1, <2>4, <2>5, <2>6 DEF BuildInv
<1>3. QED
  BY <1>1, <1>2

LEMMA BuildInvariant == Spec => []BuildInv
  BY BuildInvInit, BuildInvNext, PTL DEF Spec

(***************************************************************************)
(* BuildTypeCorrect: however the runs of build.sh and download.sh fail and *)
(* are killed, what they leave to the next is one of the files these       *)
(* scripts know: none, a part of one, or a whole image.                    *)
(***************************************************************************)
THEOREM BuildTypeCorrect == Spec => []BuildTypeOK
<1>1. BuildInv => BuildTypeOK
  <2> SUFFICES ASSUME BuildInv PROVE BuildTypeOK
    OBVIOUS
  <2>1. ChangesTypeOK
    BY DEF BuildInv, ScriptInv, ChangesInv
  <2>2. DOMAIN published = Variants
    BY DEF BuildInv, DeviceTypes
  <2>3. QED
    BY <2>1, <2>2 DEF BuildInv, StagesOK, DeviceTypes, Idle, Busy, BuildTypeOK
<1>2. QED
  BY <1>1, BuildInvariant, PTL

(***************************************************************************)
(* BuildPublishedAsNamed: an image published by build.sh is whole and has  *)
(* the edits its name stands for, after any number of runs that failed or  *)
(* were killed anywhere, unless keys were taken away between runs.         *)
(***************************************************************************)
THEOREM BuildPublishedAsNamed == Spec => []PublishedAsNamed
<1>1. BuildInv => PublishedAsNamed
  BY IsVariantIs DEF BuildInv, PublishedOK, PublishedAsNamed
<1>2. QED
  BY <1>1, BuildInvariant, PTL

(***************************************************************************)
(* BuildPublishedFromWhole: no published image is made from a part of an   *)
(* original, unless the cp at the end of download.sh was interrupted.      *)
(***************************************************************************)
THEOREM BuildPublishedFromWhole == Spec => []PublishedFromWhole
<1>1. BuildInv => PublishedFromWhole
  BY DEF BuildInv, OriginOK, FromWhole, PublishedFromWhole
<1>2. QED
  BY <1>1, BuildInvariant, PTL

(***************************************************************************)
(* BuildScriptsSound: what is proved of the script holds of every one that *)
(* the builds start, after whatever happened to the earlier ones.          *)
(***************************************************************************)
THEOREM BuildScriptsSound == Spec => [](EditsReachImage /\ GuardsFitReleases /\ LabelsResolve)
<1>1. BuildInv => EditsReachImage /\ GuardsFitReleases /\ LabelsResolve
  BY ReachesImage, LabelsAreThere DEF BuildInv, ScriptInv, ChangesInv
<1>2. QED
  BY <1>1, BuildInvariant, PTL

=============================================================================
