----------------------------- MODULE SbinAtomic -----------------------------
(***************************************************************************)
(* What makeSbinTmpfs (jni/hidesu.c) promises to the processes that run    *)
(* programs from /sbin: its original content is covered at once by a whole *)
(* copy of it, and stays covered.                                          *)
(***************************************************************************)
VARIABLE view  \* what a process of the namespace finds in /sbin

Init == view = "original"

Cover == view = "original" /\ view' = "copy"

Spec == Init /\ [][Cover]_view
=============================================================================
