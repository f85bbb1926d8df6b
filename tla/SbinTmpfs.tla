------------------------------ MODULE SbinTmpfs ------------------------------
(***************************************************************************)
(* makeSbinTmpfs (jni/hidesu.c): covers /sbin of the current mount         *)
(* namespace with a tmpfs that holds a copy of it, so that the cover can   *)
(* later be removed for a single application.  The copy is made on a tmpfs *)
(* at /dev/sbin.tmp, which is then bind mounted on /sbin.                  *)
(*                                                                         *)
(* The process may be killed anywhere.  It is a service of class main:     *)
(* init starts it again, also when makeSbinTmpfs has failed and main() has *)
(* returned.                                                               *)
(***************************************************************************)
EXTENDS Integers

CONSTANTS Entries,   \* the directory entries of /sbin
          Kind,      \* [Entries -> Kinds], the d_type of each
          Size,      \* [Entries -> Nat], the pages of each regular file
          Rooms,     \* pages the tmpfs may hold (size=64m, less if memory is short)
          SizeT,     \* number of values of a size_t
          MaxFaults  \* bound: kills and failing system calls in a behaviour

Kinds == {"reg", "lnk", "other"}

ASSUME SbinAssumption ==
    /\ Kind \in [Entries -> Kinds]
    /\ Size \in [Entries -> Nat]
    /\ \A e \in Entries : Kind[e] # "reg" => Size[e] = 0
    /\ Rooms \subseteq Nat /\ MaxFaults \in Nat
    /\ SizeT \in Nat \ {0} /\ \A e \in Entries : Size[e] < SizeT

VARIABLES room,     \* pages the tmpfs holds
          pc,       \* the stage of makeSbinTmpfs
          left,     \* the entries readdir has still to return
          cur,      \* the entry being copied
          copied,   \* the size_t of the same name
          mounted,  \* this call has its tmpfs on /dev/sbin.tmp
          top,      \* the pages that tmpfs has of each entry
          free,     \* the pages it can still take
          below,    \* number of tmpfs that killed runs have left under it
          covered,  \* a tmpfs is mounted on /sbin
          sbin,     \* the pages that one has of each entry
          ret,      \* the value makeSbinTmpfs returns
          faults,   \* faults so far
          kills     \* how many of them killed the process

sbinVars == <<room, pc, left, cur, copied, mounted, top, free, below, covered, sbin,
              ret, faults, kills>>

Absent == -1   \* the pages of an entry that a tmpfs does not have
Tmpfs  == [Entries -> Nat \cup {Absent}]
Bare   == [e \in Entries |-> Absent]

Stages == {"check", "mount", "opendir", "readdir", "copy", "bind", "detach", "returned"}

FlagsOK == mounted \in BOOLEAN /\ covered \in BOOLEAN

CountsOK ==
    /\ pc \in Stages
    /\ left \subseteq Entries
    /\ pc = "copy" => cur \in Entries
    /\ copied \in 0 .. SizeT - 1
    /\ top \in Tmpfs /\ sbin \in Tmpfs
    /\ room \in Rooms /\ free \in 0 .. room
    /\ below \in Nat /\ ret \in 0 .. 4
    /\ faults \in 0 .. MaxFaults /\ kills \in 0 .. faults

SbinTypeOK == FlagsOK /\ CountsOK

Init ==
    /\ pc = "check" /\ left = {} /\ cur = "none" /\ copied = 0
    /\ room \in Rooms
    /\ mounted = FALSE /\ top = Bare /\ free = room /\ below = 0
    /\ covered = FALSE /\ sbin = Bare
    /\ ret = 0 /\ faults = 0 /\ kills = 0

-----------------------------------------------------------------------------
\* A system call fails: umount2("/dev/sbin.tmp", MNT_DETACH); return value.
Fault == faults < MaxFaults /\ faults' = faults + 1

Undo(value) ==
    /\ mounted' = FALSE
    /\ ret' = value
    /\ pc' = "returned"

\* stat: /sbin is on another device than / when it is covered already.
CheckMounted ==
    /\ pc = "check"
    /\ pc' = IF covered THEN "returned" ELSE "mount"
    /\ ret' = 0
    /\ UNCHANGED <<left, cur, copied, mounted, top, free, below, covered, sbin, faults, kills>>

\* mkdir, whose result is ignored, and the mount of an empty tmpfs.
MountStaging ==
    /\ pc = "mount"
    /\ \/ /\ mounted' = TRUE
          /\ top' = Bare /\ free' = room
          /\ pc' = "opendir"
          /\ UNCHANGED <<ret, faults>>
       \/ /\ Fault
          /\ ret' = 1 /\ pc' = "returned"
          /\ UNCHANGED <<mounted, top, free>>
    /\ UNCHANGED <<left, cur, copied, below, covered, sbin, kills>>

OpenSbin ==
    /\ pc = "opendir"
    /\ \/ /\ left' = Entries
          /\ pc' = "readdir"
          /\ UNCHANGED <<mounted, ret, faults>>
       \/ /\ Fault /\ Undo(2)
          /\ UNCHANGED left
    /\ UNCHANGED <<cur, copied, top, free, below, covered, sbin, kills>>

\* Mutant: the counter of the previous file is kept.
CreateCopyNoReset(e) ==
    /\ Kind[e] = "reg"
    /\ \/ /\ top' = [top EXCEPT ![e] = 0]
          /\ cur' = e
          /\ pc' = "copy"
          /\ UNCHANGED <<mounted, ret, faults>>
       \/ /\ Fault /\ Undo(3)
          /\ UNCHANGED <<top, cur>>
    /\ UNCHANGED copied

\* readdir returns a regular file: it is opened and its copy created.
CreateCopy(e) ==
    /\ Kind[e] = "reg"
    /\ \/ /\ top' = [top EXCEPT ![e] = 0]
          /\ cur' = e /\ copied' = 0
          /\ pc' = "copy"
          /\ UNCHANGED <<mounted, ret, faults>>
       \/ /\ Fault /\ Undo(3)
          /\ UNCHANGED <<top, cur, copied>>

\* Mutant: a link that cannot be made is passed over.
CopyLinkRegardless(e) ==
    /\ Kind[e] = "lnk"
    /\ \/ /\ top' = [top EXCEPT ![e] = 0]
          /\ UNCHANGED faults
       \/ /\ Fault
          /\ UNCHANGED top
    /\ UNCHANGED <<pc, mounted, ret, cur, copied>>

\* It returns a symbolic link, which is copied at once.
CopyLink(e) ==
    /\ Kind[e] = "lnk"
    /\ \/ /\ top' = [top EXCEPT ![e] = 0]
          /\ UNCHANGED <<pc, mounted, ret, faults>>
       \/ /\ Fault /\ Undo(3)
          /\ UNCHANGED top
    /\ UNCHANGED <<cur, copied>>

\* It returns anything else, which the switch has no case for.
SkipEntry(e) ==
    /\ Kind[e] = "other"
    /\ UNCHANGED <<pc, cur, copied, mounted, top, ret, faults>>

ReadEntry ==
    /\ pc = "readdir"
    /\ \E e \in left :
          /\ left' = left \ {e}
          /\ CreateCopy(e) \/ CopyLink(e) \/ SkipEntry(e)
    /\ UNCHANGED <<free, below, covered, sbin, kills>>

\* readdir returns NULL.  The tmpfs is remounted read-only, and whether that
\* succeeds is not looked at.
EndOfDir ==
    /\ pc = "readdir" /\ left = {}
    /\ pc' = "bind"
    /\ UNCHANGED <<left, cur, copied, mounted, top, free, below, covered, sbin, ret, faults, kills>>

\* Mutant: copied is a signed number.
SendfileSigned ==
    /\ pc = "copy" /\ top[cur] < Size[cur]
    /\ \/ \E n \in 1 .. Size[cur] - top[cur] :
             /\ n <= free
             /\ top' = [top EXCEPT ![cur] = @ + n]
             /\ free' = free - n
             /\ copied' = copied + n
       \/ /\ free = 0
          /\ copied' = copied - 1
          /\ UNCHANGED <<top, free>>
    /\ UNCHANGED <<pc, left, cur, mounted, below, covered, sbin, ret, faults, kills>>

(***************************************************************************)
(* One call of sendfile in the copy loop.  It returns the number n of      *)
(* pages it wrote, or -1, always when the tmpfs is full: bytes is a        *)
(* size_t, so the loop goes on and copied is decremented.                  *)
(***************************************************************************)
Sendfile ==
    /\ pc = "copy" /\ top[cur] < Size[cur]
    /\ \/ \E n \in 1 .. Size[cur] - top[cur] :
             /\ n <= free
             /\ top' = [top EXCEPT ![cur] = @ + n]
             /\ free' = free - n
             /\ copied' = (copied + n) % SizeT
             /\ UNCHANGED faults
       \/ /\ (free = 0 /\ UNCHANGED faults) \/ Fault
          /\ copied' = (copied + SizeT - 1) % SizeT
          /\ UNCHANGED <<top, free>>
    /\ UNCHANGED <<pc, left, cur, mounted, below, covered, sbin, ret, kills>>

\* Mutant: the tmpfs stays when the file was not copied.
CheckCopiedLeaves ==
    /\ pc = "copy" /\ top[cur] = Size[cur]
    /\ \/ /\ copied = Size[cur]
          /\ pc' = "readdir"
          /\ UNCHANGED ret
       \/ /\ copied # Size[cur]
          /\ ret' = 3 /\ pc' = "returned"
    /\ UNCHANGED <<mounted, left, cur, copied, top, free, below, covered, sbin, faults, kills>>

\* sendfile returns 0 at the end of the file, which ends the loop; then what
\* was copied is compared with the size of the file.
CheckCopied ==
    /\ pc = "copy" /\ top[cur] = Size[cur]
    /\ \/ /\ copied = Size[cur]
          /\ pc' = "readdir"
          /\ UNCHANGED <<mounted, ret>>
       \/ /\ copied # Size[cur]
          /\ Undo(3)
    /\ UNCHANGED <<left, cur, copied, top, free, below, covered, sbin, faults, kills>>

BindOnSbin ==
    /\ pc = "bind"
    /\ \/ /\ covered' = TRUE /\ sbin' = top
          /\ pc' = "detach"
          /\ UNCHANGED <<mounted, ret, faults>>
       \/ /\ Fault /\ Undo(4)
          /\ UNCHANGED <<covered, sbin>>
    /\ UNCHANGED <<left, cur, copied, top, free, below, kills>>

\* The tmpfs leaves /dev/sbin.tmp, whose directory is removed.
DetachStaging ==
    /\ pc = "detach"
    /\ Undo(0)
    /\ UNCHANGED <<left, cur, copied, top, free, below, covered, sbin, faults, kills>>

\* main() returns 1 after a failure, and init starts the service again.
Retry ==
    /\ pc = "returned" /\ ret # 0
    /\ pc' = "check"
    /\ UNCHANGED <<left, cur, copied, mounted, top, free, below, covered, sbin, ret, faults, kills>>

\* The process is killed and started again: its mounts stay.
Kill ==
    /\ Fault
    /\ kills' = kills + 1
    /\ below' = below + (IF mounted THEN 1 ELSE 0)
    /\ mounted' = FALSE
    /\ pc' = "check"
    /\ UNCHANGED <<room, left, cur, copied, top, free, covered, sbin, ret>>

Step ==
    /\ UNCHANGED room
    /\ \/ CheckMounted \/ MountStaging \/ OpenSbin \/ ReadEntry \/ EndOfDir
       \/ Sendfile \/ CheckCopied \/ BindOnSbin \/ DetachStaging \/ Retry

Next == Step \/ Kill

\* The kernel keeps running a process that is ready.
Spec == Init /\ [][Next]_sbinVars /\ WF_sbinVars(Step)

-----------------------------------------------------------------------------
\* A tmpfs that holds every regular file, with all its pages, and every link.
Whole(t) == \A e \in Entries : Kind[e] # "other" => t[e] = Size[e]

Promise == INSTANCE SbinAtomic
             WITH view <- IF ~covered THEN "original"
                          ELSE IF Whole(sbin) THEN "copy" ELSE "partial"

(***************************************************************************)
(* CoversAtomically: no process ever finds a half made copy in /sbin: it   *)
(* changes once, from the original to a whole copy, whatever fails, fills  *)
(* up or is killed while the copy is made, and stays.                      *)
(***************************************************************************)
CoversAtomically == Promise!Spec

(***************************************************************************)
(* NoTmpfsLeft: every way out of makeSbinTmpfs takes its tmpfs off         *)
(* /dev/sbin.tmp again: only a run that was killed can leave one there.    *)
(***************************************************************************)
NoTmpfsLeft == below <= kills /\ (pc = "returned" => ~mounted)

\* The file being copied does not fit.
Full == pc = "copy" /\ free = 0 /\ top[cur] < Size[cur]

(***************************************************************************)
(* CoveredInTheEnd: unless the tmpfs fills up, /sbin is covered in the     *)
(* end, as a run that fails or is killed is started again and what it left *)
(* on /dev/sbin.tmp does not stop the next one.                            *)
(***************************************************************************)
CoveredInTheEnd == []~Full => <>[](covered /\ pc = "returned" /\ ret = 0)

(***************************************************************************)
(* FullDiskNoticed: the copy loop ends, so that a file copied in part is   *)
(* noticed by the test that follows it (hidesu.c: "if(copied != (size_t)   *)
(* sb.st_size)").                                                          *)
(***************************************************************************)
FullDiskNoticed == pc = "copy" ~> pc # "copy"
=============================================================================
