------------------------------- MODULE Flash -------------------------------
(***************************************************************************)
(* zip/update-binary.sh: the recovery unpacks the zip into a new directory *)
(* under /tmp, finds the boot partition in its fstab, runs bootimg.sh on   *)
(* the partition, and writes what that has built back with dd.  Everything *)
(* but the partition is in memory.  The script runs under "set -e".        *)
(*                                                                         *)
(* bootimg.sh is also started by a user or by build.sh, on a file and in a *)
(* directory that may have products of earlier runs; then nothing follows. *)
(***************************************************************************)
EXTENDS EditSession

VARIABLES caller,  \* who started the session
          fpc,     \* the stage of update-binary.sh, or how it ended
          part     \* the boot partition

flashVars == <<vars, caller, fpc, part>>

FStages == {"find", "session", "dd"}
FEnds   == {"done", "failed", "killed"}

\* The partition holds the image it had, a part of a new one, or a new one.
Original == [state |-> "original", img |-> NoImage]

FlashTypeOK ==
    /\ SessionTypeOK
    /\ caller \in {"user", "recovery"}
    /\ fpc \in FStages \cup FEnds
    /\ part.state \in {"original", "torn", "flashed"} /\ IsImage(part.img)

FlashInit ==
    /\ Init
    /\ \/ caller = "user" /\ fpc = "session"
       \/ /\ caller = "recovery" /\ fpc = "find"
          /\ home = File0("absent") /\ signed = File0("absent")
    /\ part = Original

\* unzip, config.txt, and the search for the partition in recovery.fstab.
FindPartition ==
    /\ fpc = "find"
    /\ fpc' \in {"session", "failed"}
    /\ UNCHANGED <<vars, caller, part>>

RunSession ==
    /\ fpc = "session"
    /\ SessionNext \/ (caller = "user" /\ Restart)
    /\ UNCHANGED <<caller, fpc, part>>

\* Mutant: the exit status of bootimg.sh is not looked at.
StartDdAnyway ==
    /\ caller = "recovery" /\ fpc = "session" /\ spc \in SEnds
    /\ fpc' = "dd"
    /\ part' = [state |-> "torn", img |-> NoImage]
    /\ UNCHANGED <<vars, caller>>

\* The session has returned: dd starts to overwrite the partition, or the
\* script ends.
StartDd ==
    /\ caller = "recovery" /\ fpc = "session" /\ spc \in SEnds
    /\ IF spc = "ok"
       THEN fpc' = "dd" /\ part' = [state |-> "torn", img |-> NoImage]
       ELSE fpc' = "failed" /\ UNCHANGED part
    /\ UNCHANGED <<vars, caller>>

\* dd ends, or fails with the partition written in part.
EndDd ==
    /\ fpc = "dd"
    /\ \/ fpc' = "done" /\ part' = [state |-> "flashed", img |-> home.img]
       \/ fpc' = "failed" /\ UNCHANGED part
    /\ UNCHANGED <<vars, caller>>

PowerLoss ==
    /\ caller = "recovery" /\ fpc \in FStages
    /\ fpc' = "killed"
    /\ UNCHANGED <<vars, caller, part>>

\* The zip is installed again, as long as the partition is intact, without a
\* reboot that would empty /tmp.  /tmp/superuser is removed first.
Reinstall ==
    /\ caller = "recovery" /\ fpc = "failed" /\ part = Original
    /\ ResetSession
    /\ home' = File0("absent") /\ signed' = File0("absent")
    /\ fpc' = "find"
    /\ UNCHANGED <<caller, part>>

FlashNext ==
    \/ FindPartition \/ RunSession \/ StartDd \/ EndDd \/ PowerLoss \/ Reinstall

FlashSpec == FlashInit /\ [][FlashNext]_flashVars

-----------------------------------------------------------------------------
(***************************************************************************)
(* PartitionSafe: the boot partition is not touched before a whole new     *)
(* image has been built from it, so that whatever fails or is killed up to *)
(* then leaves the phone as it was; an installation that ends well leaves  *)
(* the original image with another ramdisk there; and only an installation *)
(* that did not end well leaves it torn.                                   *)
(***************************************************************************)
PartitionSafe ==
    /\ part.state # "original" => spc = "ok"
    /\ fpc = "done" =>
         /\ part.state = "flashed"
         /\ (Editable(img) /\ home.state # "custom") =>
               EditOf(img, part.img) /\ WellFormed(part.img)
=============================================================================
