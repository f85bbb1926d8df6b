---------------------------- MODULE EditSession ----------------------------
(***************************************************************************)
(* scripts/bootimg.sh: takes a boot image apart with bootimg-extract, runs *)
(* a script of changes on the unpacked ramdisk, packs the ramdisk again,   *)
(* builds new-boot.img with bootimg-repack, copies it to the directory the *)
(* script was started in and signs it.                                     *)
(*                                                                         *)
(* The shell runs under "set -e" with "trap cleanup EXIT": a command that  *)
(* fails ends the script at once, and the trap then removes both temporary *)
(* directories.  A kill or a loss of power runs no trap.                   *)
(***************************************************************************)
EXTENDS Extract, Repack

CONSTANTS EditedSizes, \* lengths the packed ramdisk can have
          MaxRestarts  \* bound on the number of times it is started again

ASSUME MaxRestartsAssumption == MaxRestarts \in Nat
ASSUME EditedSizesAssumption == EditedSizes \subseteq 1 .. (U32 - 513)

VARIABLES spc,      \* the stage of the script, or how it ended
          work,     \* the temporary directories that exist
          chromeos, \* the variable CHROMEOS is set
          keys,     \* keystore.x509.pem and keystore.pk8 exist, NO_SIGN is unset
          home,     \* new-boot.img in the directory the script started in
          signed,   \* new-boot.img.signed there
          restarts  \* times the script was started again

sessionVars == <<spc, work, chromeos, keys, home, signed, restarts>>
vars == <<img, dir, xpc, xpos, xskip, rpc, rpos, out, sessionVars>>

SStages == {"start", "extract", "unpack", "edit", "pack", "repack", "copy",
            "copying", "sign", "signing", "custom", "samsung"}
SEnds   == {"ok", "failed", "killed"}

\* A file of the home directory: not there, left by an earlier run, being
\* written, or holding an image.  "custom" is an image that the user's own
\* script has changed.
Artefact == {"absent", "stale", "torn", "whole", "custom"}

SamsungTrailer == 17  \* length of the line SEANDROIDENFORCE

SessionTypeOK ==
    /\ ExtractTypeOK /\ RepackTypeOK
    /\ spc \in SStages \cup SEnds
    /\ work \in SUBSET {"bootimg_extract", "d2"}
    /\ chromeos \in BOOLEAN /\ keys \in BOOLEAN
    /\ home.state \in Artefact /\ IsImage(home.img)
    /\ signed.state \in Artefact /\ IsImage(signed.img)
    /\ restarts \in 0 .. MaxRestarts

File0(state) == [state |-> state, img |-> NoImage]

Init ==
    /\ ExtractInit /\ RepackStart
    /\ spc = "start" /\ work = {} /\ chromeos = FALSE
    /\ keys \in BOOLEAN /\ restarts = 0
    /\ home \in {File0("absent"), File0("stale")}
    /\ signed \in {File0("absent"), File0("stale")}

toolVars == <<img, dir, xpc, xpos, xskip, rpc, rpos, out>>

-----------------------------------------------------------------------------
\* A command of this stage fails: set -e ends the script, and cleanup runs.
Fail(stage) ==
    /\ spc = stage
    /\ spc' = "failed"
    /\ work' = {}

\* startBootImgEdit: mktemp -d makes an empty directory to extract into.  Where
\* there is no mktemp, mktempS takes a random name, which may be that of the
\* directory a run that was killed has left, and mkdir -p accepts that.
MakeExtractDir ==
    /\ \/ /\ spc = "start"
          /\ spc' = "extract"
          /\ work' = {"bootimg_extract"}
          /\ dir' \in {EmptyDir} \cup (IF "bootimg_extract" \in work THEN {dir} ELSE {})
       \/ /\ Fail("start")
          /\ UNCHANGED dir
    /\ UNCHANGED <<img, xpc, xpos, xskip, rpc, rpos, out, restarts, keys,
                   chromeos, home, signed>>

RunExtract ==
    /\ spc = "extract"
    /\ ExtractNext
    /\ UNCHANGED <<rpc, rpos, out, sessionVars>>

\* bootimg-extract returned: CHROMEOS is noted and d2 is made, if it can be.
ExtractReturned ==
    /\ \/ /\ spc = "extract" /\ xpc = "done"
          /\ spc' = "unpack"
          /\ work' = work \cup {"d2"}
          /\ chromeos' = Exists("chromeos")
       \/ /\ Fail("extract") /\ xpc \in XEnds
          /\ UNCHANGED chromeos
    /\ UNCHANGED <<toolVars, restarts, keys, home, signed>>

\* ramdisk.gz, or ramdisk.lzma if there is none, is unpacked with cpio into d2
\* and kept there as ramdisk1.  An empty file is no archive.
Unpackable(file, fmt) == file.len > 0 /\ file.what.fmt = fmt

Unpack ==
    /\ \/ /\ spc = "unpack"
          /\ IF Exists("ramdisk.gz") THEN Unpackable(dir["ramdisk.gz"], "gzip")
                                     ELSE Unpackable(dir["ramdisk.lzma"], "lzma")
          /\ spc' = "edit"
          /\ UNCHANGED work
       \/ Fail("unpack")
    /\ UNCHANGED <<toolVars, restarts, keys, chromeos, home, signed>>

\* The Android version is determined and the script of changes is sourced.
RunChanges ==
    /\ \/ /\ spc = "edit"
          /\ spc' = "pack"
          /\ UNCHANGED work
       \/ Fail("edit")
    /\ UNCHANGED <<toolVars, restarts, keys, chromeos, home, signed>>

\* doneBootImgEdit up to the start of repack: the archive is packed into
\* ramdisk.gz, in the format the original had, and d2 is removed.
PackedRamdisk(n) ==
    [what |-> [fmt |-> IF Exists("ramdisk.gz") THEN "gzip" ELSE "lzma",
               id |-> "edited"], len |-> n]

\* Mutant: the result keeps the name of the file it was unpacked from.
PackInPlace ==
    /\ spc = "pack"
    /\ \E n \in EditedSizes :
          dir' = [dir EXCEPT ![IF Exists("ramdisk.gz") THEN "ramdisk.gz"
                                                       ELSE "ramdisk.lzma"]
                     = PackedRamdisk(n)]
    /\ spc' = "repack"
    /\ work' = work \ {"d2"}
    /\ UNCHANGED <<img, xpc, xpos, xskip, rpc, rpos, out, restarts, keys,
                   chromeos, home, signed>>

Pack ==
    /\ \/ /\ spc = "pack"
          /\ \E n \in EditedSizes : dir' = [dir EXCEPT !["ramdisk.gz"] = PackedRamdisk(n)]
          /\ spc' = "repack"
          /\ work' = work \ {"d2"}
       \/ /\ Fail("pack")
          /\ UNCHANGED dir
    /\ UNCHANGED <<img, xpc, xpos, xskip, rpc, rpos, out, restarts, keys,
                   chromeos, home, signed>>

RunRepack ==
    /\ spc = "repack"
    /\ RepackNext
    /\ UNCHANGED <<xpc, xpos, xskip, sessionVars>>

RepackReturned ==
    /\ \/ /\ spc = "repack" /\ rpc = "done"
          /\ spc' = "copy"
          /\ UNCHANGED work
       \/ Fail("repack") /\ rpc = "exit1"
    /\ UNCHANGED <<toolVars, restarts, keys, chromeos, home, signed>>

\* cp new-boot.img "$homedir" truncates the target and then writes it.
StartCopy ==
    /\ \/ /\ spc = "copy"
          /\ spc' = "copying"
          /\ home' = File0("torn")
          /\ UNCHANGED work
       \/ /\ Fail("copy")
          /\ UNCHANGED home
    /\ UNCHANGED <<toolVars, restarts, keys, chromeos, signed>>

EndCopy ==
    /\ \/ /\ spc = "copying"
          /\ home' = [state |-> "whole", img |-> out]
          /\ spc' = "sign"
          /\ work' = work \ {"bootimg_extract"}
       \/ /\ Fail("copying")
          /\ UNCHANGED home
    /\ UNCHANGED <<toolVars, restarts, keys, chromeos, signed>>

\* BootSignature.jar or futility write new-boot.img.signed from new-boot.img;
\* with neither keys nor a ChromeOS image there is nothing to sign.
StartSigning ==
    /\ \/ /\ spc = "sign" /\ (keys \/ chromeos)
          /\ spc' = "signing"
          /\ signed' = File0("torn")
          /\ UNCHANGED work
       \/ /\ spc = "sign" /\ ~(keys \/ chromeos)
          /\ spc' = "custom"
          /\ UNCHANGED <<signed, work>>
       \/ /\ Fail("sign") /\ (keys \/ chromeos)
          /\ UNCHANGED signed
    /\ UNCHANGED <<toolVars, restarts, keys, chromeos, home>>

\* Mutant: a signing tool that fails does not end the script.
EndSigningRegardless ==
    /\ spc = "signing"
    /\ signed' \in {home, signed}
    /\ spc' = "custom"
    /\ UNCHANGED <<toolVars, restarts, keys, work, chromeos, home>>

EndSigning ==
    /\ \/ /\ spc = "signing"
          /\ signed' = home
          /\ spc' = "custom"
          /\ UNCHANGED work
       \/ /\ Fail("signing")
          /\ UNCHANGED signed
    /\ UNCHANGED <<toolVars, restarts, keys, chromeos, home>>

\* /data/custom_boot_image_patch.sh, if there is one, may do anything to it.
CustomPatch ==
    /\ \/ /\ spc = "custom"
          /\ spc' = "samsung"
          /\ home' \in {home, [home EXCEPT !.state = "custom"]}
          /\ UNCHANGED work
       \/ /\ Fail("custom")
          /\ home' \in {home, [home EXCEPT !.state = "custom"]}
    /\ UNCHANGED <<toolVars, restarts, keys, chromeos, signed>>

\* On a Samsung device a line is appended to the image.
SamsungLine ==
    /\ \/ /\ spc = "samsung"
          /\ spc' = "ok"
          /\ home' \in {home, [home EXCEPT !.img.size = @ + SamsungTrailer]}
          /\ work' = {}
       \/ /\ Fail("samsung")
          /\ UNCHANGED home
    /\ UNCHANGED <<toolVars, restarts, keys, chromeos, signed>>

Kill ==
    /\ spc \in SStages
    /\ spc' = "killed"
    /\ UNCHANGED <<toolVars, restarts, keys, work, chromeos, home, signed>>

\* The script is started again on the same image, by the user or by whatever
\* ran it.
ResetSession ==
    /\ spc \in {"failed", "killed"} /\ restarts < MaxRestarts
    /\ restarts' = restarts + 1
    /\ spc' = "start" /\ chromeos' = FALSE
    /\ xpc' = "start" /\ xpos' = 0 /\ xskip' = 0
    /\ rpc' = "open" /\ rpos' = 0 /\ out' = NoImage
    /\ UNCHANGED <<img, dir, work, keys>>

Restart == ResetSession /\ UNCHANGED <<home, signed>>

SessionNext ==
    \/ MakeExtractDir \/ RunExtract \/ ExtractReturned \/ Unpack \/ RunChanges
    \/ Pack \/ RunRepack \/ RepackReturned \/ StartCopy \/ EndCopy
    \/ StartSigning \/ EndSigning \/ CustomPatch \/ SamsungLine \/ Kill

Next == SessionNext \/ Restart

Spec == Init /\ [][Next]_vars

-----------------------------------------------------------------------------
\* How the script ended, as its caller sees it.
Verdict == CASE spc \in SStages                      -> "running"
             [] spc = "ok" /\ home.state # "custom"  -> "ok"
             [] spc = "ok" /\ home.state = "custom"  -> "custom"
             [] OTHER                               -> "failed"

(***************************************************************************)
(* The promise of the script (module ImageEdit): new-boot.img, when the    *)
(* script succeeds, is the original with another ramdisk.                  *)
(***************************************************************************)
Promise == INSTANCE ImageEdit
             WITH original <- img, verdict <- Verdict,
                  result <- IF spc = "ok" THEN home.img ELSE NoImage

(***************************************************************************)
(* EditsAsPromised: the script implements the promise of ImageEdit, with   *)
(* the extraction, the packing, the rebuilding, the copy to a directory    *)
(* that may hold an earlier run's image, a failure or a kill between any   *)
(* two of these steps, and another run, which may find itself in the       *)
(* directory of the run that was killed, with its flags, its parts and its *)
(* packed ramdisk.                                                         *)
(***************************************************************************)
EditsAsPromised == Promise!Spec

(***************************************************************************)
(* SignedMatchesBuilt: a script that succeeds where signing is due leaves  *)
(* a signed image of this run, made from the same new-boot.img that it     *)
(* leaves beside it up to what the user's script and the Samsung line      *)
(* change afterwards, never one that an earlier run left there.            *)
(***************************************************************************)
SignedMatchesBuilt ==
    (spc = "ok" /\ (keys \/ img.chromeos)) =>
        /\ signed.state = "whole"
        /\ signed.img.hdr = home.img.hdr /\ signed.img.at = home.img.at

(***************************************************************************)
(* RockchipNeverPublished: an image with a Rockchip signature, whose CRC   *)
(* repack cannot compute, never gets as far as replacing new-boot.img of   *)
(* the home directory.                                                     *)
(***************************************************************************)
RockchipNeverPublished == img.sign => home.state \in {"absent", "stale"}
=============================================================================
