------------------------------- MODULE Build -------------------------------
(***************************************************************************)
(* build.sh, which makes four variants of the boot image of each device,   *)
(* and download.sh, which fetches the originals.  Both run under "set -e"  *)
(* with no cleanup in output/, so a run that fails or is killed leaves its *)
(* files to the next.  A device has its own directory, and the devices are *)
(* done one after the other; the module follows one of them.               *)
(*                                                                         *)
(* Of bootimg.sh, which EditSession models, there is the script of changes *)
(* (module Changes) and what happens to the files of the device's          *)
(* directory.  It is started by build.sh, or by a user with other words on *)
(* the command line (caller).                                              *)
(***************************************************************************)
EXTENDS Changes

CONSTANTS BuildRamdisks, \* the ramdisks in the images that are built
          MaxRuns        \* bound on the number of runs of either script

ASSUME BuildRamdisksAssumption == BuildRamdisks \subseteq Ramdisks
ASSUME MaxRunsAssumption == MaxRuns \in Nat

VARIABLES caller,      \* who runs bootimg.sh: "user" or "build"
          shell,       \* the stage of the script that is running, or "idle"
          variant,     \* the variant build.sh is making
          signs,       \* there are keys, or the image is one of ChromeOS
          keysTaken,   \* a run had keys, and a later one had none
          orig,        \* orig-boot.img
          newboot,     \* new-boot.img
          signed,      \* new-boot.img.signed
          published,   \* boot-<device>-<version>-su-<variant>-r<rev>.img
          complete,    \* the last run of build.sh ended well
          interrupted, \* a download was interrupted in its cp
          runs         \* runs so far

deviceVars == <<orig, newboot, signed, published, complete, interrupted, runs>>
vars == <<changesVars, caller, shell, variant, signs, keysTaken, deviceVars>>

Variants == {"eng", "user", "noverity", "nocrypt"}

\* Mutant: build.sh goes on to a variant that does not exist.
NextVariantCrypt ==
    [eng |-> "user", user |-> "noverity", noverity |-> "nocrypt", nocrypt |-> "crypt"]

NextVariant ==
    [eng |-> "user", user |-> "noverity", noverity |-> "nocrypt", nocrypt |-> "none"]

Words == [eng |-> <<"eng">>, user |-> <<>>, noverity |-> <<"eng", "noverity">>,
          nocrypt |-> <<"eng", "noverity", "nocrypt">>]

\* build.sh gives the script some of the command lines it is started with.
ASSUME WordsAssumption == {Words[v] : v \in Variants} \subseteq Arguments

\* An image file: not there, being written, or whole, made from an original
\* that was itself whole or torn.
NoProduct == [state |-> "absent"]
Torn      == [state |-> "torn"]
Product   == [state : {"whole"}, from : {"torn", "whole"},
              files : [Names -> SUBSET Edits]]

Init ==
    /\ ChangesInit
    /\ signs \in BOOLEAN
    /\ \/ caller = "user" /\ shell = "session" /\ ~signs
       \/ /\ caller = "build" /\ shell = "idle"
          /\ ramdisk \in BuildRamdisks /\ argv = <<>>
    /\ variant = "none" /\ keysTaken = FALSE
    /\ orig = "absent" /\ newboot = NoProduct /\ signed = NoProduct
    /\ published = [v \in Variants |-> NoProduct]
    /\ complete = FALSE /\ interrupted = FALSE /\ runs = 0

sessionVars == <<changesVars, caller, variant, signs, keysTaken>>
historyVars == <<complete, interrupted, runs>>

-----------------------------------------------------------------------------
\* download.sh: a file orig-boot.img, whole or not, is a finished download.
StartDownload ==
    /\ caller = "build" /\ shell = "idle" /\ runs < MaxRuns
    /\ runs' = runs + 1
    /\ shell' = IF orig = "absent" THEN "fetch" ELSE "idle"
    /\ UNCHANGED <<sessionVars, orig, newboot, signed, published, complete, interrupted>>

\* Mutant: wget and unzip write to the destination.
FetchIntoPlace ==
    /\ shell = "fetch"
    /\ orig' = "torn"
    /\ shell' \in {"cp", "idle"}
    /\ UNCHANGED <<sessionVars, newboot, signed, published, complete, interrupted, runs>>

\* wget, unzip and tar write to temporary directories; a failure of theirs
\* leaves none of it in output/.  Then cp creates the destination.
Fetch ==
    /\ shell = "fetch"
    /\ \/ shell' = "cp" /\ orig' = "torn"
       \/ shell' = "idle" /\ UNCHANGED orig
    /\ UNCHANGED <<sessionVars, newboot, signed, published, complete, interrupted, runs>>

EndDownload ==
    /\ shell = "cp" /\ shell' = "idle"
    /\ \/ orig' = "whole" /\ UNCHANGED interrupted
       \/ interrupted' = TRUE /\ UNCHANGED orig
    /\ UNCHANGED <<sessionVars, newboot, signed, published, complete, runs>>

-----------------------------------------------------------------------------
\* build.sh: the images published earlier are removed.  Keys may have been
\* put in place since the last run, or taken away.
StartBuild ==
    /\ caller = "build" /\ shell = "idle" /\ runs < MaxRuns
    /\ orig # "absent"
    /\ runs' = runs + 1
    /\ published' = [v \in Variants |-> NoProduct]
    /\ complete' = FALSE
    /\ variant' = "eng" /\ shell' = "start"
    /\ signs' \in BOOLEAN
    /\ keysTaken' = (keysTaken \/ (signs /\ ~signs'))
    /\ UNCHANGED <<changesVars, caller, orig, newboot, signed, interrupted>>

\* A command fails in bootimg.sh or build.sh: the build ends.
BuildFails ==
    /\ shell' = "idle" /\ variant' = "none"
    /\ UNCHANGED <<changesVars, caller, signs, keysTaken, deviceVars>>

\* bootimg.sh takes orig-boot.img apart, which may go unnoticed well with a
\* torn one, and starts changes.sh with the words of the variant.
StartSession ==
    \/ /\ shell = "start" /\ shell' = "session"
       /\ argv' = Words[variant] /\ opts' = DefaultOpts
       /\ cpc' = "detect" /\ ended' = "running" /\ android' = 0
       /\ files' = [n \in Names |-> Original(n)]
       /\ listed' = {} /\ left' = <<>>
       /\ UNCHANGED <<inputs, caller, variant, signs, keysTaken, deviceVars>>
    \/ shell = "start" /\ BuildFails

RunChanges ==
    /\ shell = "session"
    /\ ChangesNext
    /\ UNCHANGED <<caller, shell, variant, signs, keysTaken, deviceVars>>

\* bootimg-repack and the cp of its product to the device's directory.
StartCopy ==
    \/ /\ caller = "build" /\ shell = "session" /\ ended = "ok"
       /\ shell' = "copy"
       /\ newboot' = Torn
       /\ UNCHANGED <<sessionVars, orig, signed, published, historyVars>>
    \/ caller = "build" /\ shell = "session" /\ ended # "running" /\ BuildFails

EndCopy ==
    \/ /\ shell = "copy" /\ shell' = "sign"
       /\ newboot' = [state |-> "whole", from |-> orig,
                      files |-> [n \in Names |-> Archive(n)]]
       /\ UNCHANGED <<sessionVars, orig, signed, published, historyVars>>
    \/ shell = "copy" /\ BuildFails

StartSigning ==
    \/ /\ shell = "sign"
       /\ IF signs THEN shell' = "signing" /\ signed' = Torn
                   ELSE shell' = "put" /\ UNCHANGED signed
       /\ UNCHANGED <<sessionVars, orig, newboot, published, historyVars>>
    \/ shell = "sign" /\ signs /\ BuildFails

\* Mutant: bootimg.sh succeeds although the signing tool has failed.
EndSigningRegardless ==
    /\ shell = "signing" /\ shell' = "put"
    /\ signed' \in {newboot, signed}
    /\ UNCHANGED <<sessionVars, orig, newboot, published, historyVars>>

EndSigning ==
    \/ /\ shell = "signing" /\ shell' = "put"
       /\ signed' = newboot
       /\ UNCHANGED <<sessionVars, orig, newboot, published, historyVars>>
    \/ shell = "signing" /\ BuildFails

\* putBoot: a signed image is preferred to the other, which rm then removes.
PutBoot ==
    /\ shell = "put" /\ shell' = "rm"
    /\ IF signed # NoProduct
       THEN /\ published' = [published EXCEPT ![variant] = signed]
            /\ signed' = NoProduct
            /\ UNCHANGED newboot
       ELSE /\ published' = [published EXCEPT ![variant] = newboot]
            /\ newboot' = NoProduct
            /\ UNCHANGED signed
    /\ UNCHANGED <<sessionVars, orig, historyVars>>

RemoveUnsigned ==
    /\ shell = "rm"
    /\ newboot' = NoProduct
    /\ variant' = NextVariant[variant]
    /\ IF variant' = "none" THEN shell' = "idle" /\ complete' = TRUE
                            ELSE shell' = "start" /\ UNCHANGED complete
    /\ UNCHANGED <<changesVars, caller, signs, keysTaken, orig, signed, published,
                   interrupted, runs>>

Kill ==
    /\ caller = "build" /\ shell # "idle"
    /\ shell' = "idle" /\ variant' = "none"
    /\ interrupted' = (interrupted \/ shell = "cp")
    /\ UNCHANGED <<changesVars, caller, signs, keysTaken, orig, newboot, signed, published,
                   complete, runs>>

Next ==
    \/ StartDownload \/ Fetch \/ EndDownload
    \/ StartBuild \/ StartSession \/ RunChanges \/ StartCopy \/ EndCopy
    \/ StartSigning \/ EndSigning \/ PutBoot \/ RemoveUnsigned \/ Kill

Spec == Init /\ [][Next]_vars

-----------------------------------------------------------------------------
ProductType(p) == p \in {NoProduct, Torn} \/ p \in Product

BuildTypeOK ==
    /\ ChangesTypeOK
    /\ caller \in {"user", "build"}
    /\ shell \in {"idle", "fetch", "cp", "start", "session", "copy", "sign",
                  "signing", "put", "rm"}
    /\ variant \in Variants \cup {"none"}
    /\ orig \in {"absent", "torn", "whole"}
    /\ ProductType(newboot) /\ ProductType(signed)
    /\ DOMAIN published = Variants /\ \A v \in Variants : ProductType(published[v])
    /\ {signs, keysTaken, complete, interrupted} \subseteq BOOLEAN
    /\ runs \in 0 .. MaxRuns

\* The edits the name of a variant stands for.
VariantFstab == [eng |-> {}, user |-> {}, noverity |-> {"noverity"},
                 nocrypt |-> {"noverity", "nocrypt"}]

IsVariant(v, p) ==
    /\ p.state = "whole"
    /\ \A f \in Fstabs : p.files[f] \in {VariantFstab[v], NoFile}
    /\ {"power", "eng"} \cap p.files["sepolicy"] =
          IF v = "user" \/ ~ramdisk.policy \/ unsupported THEN {}
                                                         ELSE {"power", "eng"}

(***************************************************************************)
(* PublishedAsNamed: every image that lies in the directory under the name *)
(* of a variant is whole and has the edits of that variant, whatever       *)
(* new-boot.img and new-boot.img.signed earlier runs have left when they   *)
(* failed or were killed; and when build.sh ends well, all four are there. *)
(* Excepted are runs without keys after one with keys: an image the        *)
(* earlier one had signed is then published under another variant's name.  *)
(***************************************************************************)
PublishedAsNamed ==
    ~keysTaken =>
        \A v \in Variants : complete \/ published[v] # NoProduct
                              => IsVariant(v, published[v])

(***************************************************************************)
(* PublishedFromWhole: no image is made from a part of an original, unless *)
(* the cp that ends a download was itself interrupted: a failure or a kill *)
(* while the image is fetched and unpacked leaves nothing that the next    *)
(* run takes for a finished download.                                      *)
(***************************************************************************)
PublishedFromWhole ==
    ~interrupted =>
        \A v \in Variants :
            published[v].state = "whole" => published[v].from = "whole"
=============================================================================
