----------------------------- MODULE ImageEdit -----------------------------
(***************************************************************************)
(* What scripts/bootimg.sh promises its callers (update-binary.sh and      *)
(* build.sh), as one step: it is started on an image, and ends by either   *)
(* failing or delivering that image with another ramdisk.  Nothing is      *)
(* promised of a malformed image or one with two MTK headers, nor when the *)
(* user's own patch script has changed the product.                        *)
(***************************************************************************)
EXTENDS BootImg

VARIABLES original, \* the image it is started on
          verdict,  \* how the script ended
          result    \* new-boot.img, once the script has succeeded

CONSTANT NoImage

editVars == <<original, verdict, result>>

Init == verdict = "running" /\ result = NoImage

\* The image is delivered in the step that ends the script.
Succeed ==
    /\ verdict = "running" /\ verdict' = "ok"
    /\ Editable(original) => EditOf(original, result') /\ WellFormed(result')
    /\ UNCHANGED original

UserPatched ==
    /\ verdict = "running" /\ verdict' = "custom"
    /\ UNCHANGED original

Fail ==
    /\ verdict = "running" /\ verdict' = "failed"
    /\ UNCHANGED <<original, result>>

\* It can be run again.
Retry ==
    /\ verdict = "failed" /\ verdict' = "running"
    /\ UNCHANGED <<original, result>>

Next == Succeed \/ UserPatched \/ Fail \/ Retry

Spec == Init /\ [][Next]_editVars
=============================================================================
