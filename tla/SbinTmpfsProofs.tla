--------------------------- MODULE SbinTmpfsProofs ---------------------------
(***************************************************************************)
(* Proofs about makeSbinTmpfs, for every content of /sbin, every size of   *)
(* the tmpfs and any number of faults and kills.                           *)
(***************************************************************************)
EXTENDS SbinTmpfs, TLAPS

\* The entries this call has dealt with, and what it has made of them.
Read == Entries \ left

CopiedSoFar ==
    \A e \in Read : (Kind[e] # "other" /\ ~(pc = "copy" /\ e = cur)) => top[e] = Size[e]

\* The inductive invariant: the copy is whole for all entries read so far but
\* the one being copied, which is read and partly copied; a copy that is bound
\* is whole.
CopyInv ==
    /\ SbinTypeOK
    /\ pc \in {"readdir", "copy", "bind"} => CopiedSoFar
    /\ pc = "copy" => cur \in Read /\ Kind[cur] = "reg" /\ top[cur] \in 0 .. Size[cur]
    /\ pc = "bind" => left = {}
    /\ covered => Whole(sbin)

(***************************************************************************)
(* Init establishes the invariant.                                         *)
(***************************************************************************)
LEMMA CopyInvInit == Init => CopyInv
<1> SUFFICES ASSUME Init PROVE CopyInv
  OBVIOUS
<1>1. FlagsOK
  BY DEF Init, FlagsOK
<1>2. CountsOK
  BY SbinAssumption DEF Init, CountsOK, Stages, Tmpfs, Bare, Absent
<1>3. QED
  BY <1>1, <1>2 DEF Init, CopyInv, SbinTypeOK

(***************************************************************************)
(* Every step keeps the type invariant.                                    *)
(***************************************************************************)
LEMMA FlagsStep == FlagsOK /\ [Next]_sbinVars => FlagsOK'
  BY Zenon
  DEF FlagsOK, sbinVars, Next, Step, CheckMounted, MountStaging, OpenSbin, ReadEntry,
      CreateCopy, CopyLink, SkipEntry, EndOfDir, Sendfile, CheckCopied, BindOnSbin,
      DetachStaging, Retry, Kill, Undo

LEMMA CountsStep == CountsOK /\ [Next]_sbinVars => CountsOK'
<1> SUFFICES ASSUME CountsOK, [Next]_sbinVars PROVE CountsOK'
  OBVIOUS
<1> USE SbinAssumption DEF CountsOK, Stages
<1>0. room' = room /\ room \in Nat
  BY DEF Next, Step, Kill, sbinVars
<1> USE <1>0
<1>1. CASE CheckMounted
  BY <1>1 DEF CheckMounted
<1>2. CASE MountStaging
  BY <1>2 DEF MountStaging, Fault, Bare, Tmpfs, Absent
<1>3. CASE OpenSbin
  BY <1>3 DEF OpenSbin, Fault, Undo
<1>4. CASE ReadEntry
  <2>1. PICK e \in left : left' = left \ {e} /\ (CreateCopy(e) \/ CopyLink(e) \/ SkipEntry(e))
    BY <1>4 DEF ReadEntry
  <2>2. UNCHANGED <<free, below, covered, sbin, kills>> /\ pc = "readdir"
    BY <1>4 DEF ReadEntry
  <2>3. [top EXCEPT ![e] = 0] \in Tmpfs
    BY DEF Tmpfs, Absent
  <2>4. CASE CreateCopy(e)
    BY <2>1, <2>2, <2>3, <2>4 DEF CreateCopy, Fault, Undo
  <2>5. CASE CopyLink(e)
    BY <2>1, <2>2, <2>3, <2>5 DEF CopyLink, Fault, Undo
  <2>6. CASE SkipEntry(e)
    BY <2>1, <2>2, <2>6 DEF SkipEntry
  <2>7. QED
    BY <2>1, <2>4, <2>5, <2>6
<1>5. CASE EndOfDir
  BY <1>5 DEF EndOfDir
<1>6. CASE Sendfile
  <2>1. CASE \E n \in 1 .. Size[cur] - top[cur] :
                /\ n <= free /\ top' = [top EXCEPT ![cur] = @ + n]
                /\ free' = free - n /\ copied' = (copied + n) % SizeT
                /\ UNCHANGED faults
    BY <1>6, <2>1 DEF Sendfile, Tmpfs, Absent
  <2>2. CASE /\ (free = 0 /\ UNCHANGED faults) \/ Fault
             /\ copied' = (copied + SizeT - 1) % SizeT
             /\ UNCHANGED <<top, free>>
    BY <1>6, <2>2 DEF Sendfile, Fault
  <2>3. QED
    BY <1>6, <2>1, <2>2 DEF Sendfile
<1>7. CASE CheckCopied
  BY <1>7 DEF CheckCopied, Undo
<1>8. CASE BindOnSbin
  BY <1>8 DEF BindOnSbin, Fault, Undo
<1>9. CASE DetachStaging
  BY <1>9 DEF DetachStaging, Undo
<1>10. CASE Retry
  BY <1>10 DEF Retry
<1>11. CASE Kill
  BY <1>11 DEF Kill, Fault
<1>12. CASE UNCHANGED sbinVars
  BY <1>12 DEF sbinVars
<1>13. QED
  BY <1>1, <1>2, <1>3, <1>4, <1>5, <1>6, <1>7, <1>8, <1>9, <1>10, <1>11, <1>12
  DEF Next, Step

LEMMA TypeStep == SbinTypeOK /\ [Next]_sbinVars => SbinTypeOK'
  BY FlagsStep, CountsStep DEF SbinTypeOK

(***************************************************************************)
(* Every step keeps the invariant.                                         *)
(***************************************************************************)
LEMMA CopyInvStep == CopyInv /\ [Next]_sbinVars => CopyInv'
<1> SUFFICES ASSUME CopyInv, [Next]_sbinVars PROVE CopyInv'
  OBVIOUS
<1>0. SbinTypeOK /\ SbinTypeOK'
  BY TypeStep DEF CopyInv
<1>1. CASE CheckMounted
  BY <1>0, <1>1 DEF CheckMounted, CopyInv, Whole
<1>2. CASE MountStaging
  BY <1>0, <1>2 DEF MountStaging, CopyInv, Whole
<1>3. CASE OpenSbin
  BY <1>0, <1>3 DEF OpenSbin, Undo, CopyInv, Whole, CopiedSoFar, Read
<1>4. CASE ReadEntry
  <2>1. PICK e \in left : left' = left \ {e} /\ (CreateCopy(e) \/ CopyLink(e) \/ SkipEntry(e))
    BY <1>4 DEF ReadEntry
  <2>2. UNCHANGED <<free, below, covered, sbin, kills>> /\ pc = "readdir"
    BY <1>4 DEF ReadEntry
  <2>3. (covered => Whole(sbin))' /\ Read' = Read \cup {e}
    BY <1>0, <2>1, <2>2 DEF CopyInv, Whole, Read, SbinTypeOK, CountsOK
  <2>4. CASE CreateCopy(e)
    <3>1. CASE pc' = "copy"
      <4>1. cur' = e /\ top' = [top EXCEPT ![e] = 0] /\ Kind[e] = "reg"
        BY <2>4, <3>1 DEF CreateCopy, Undo
      <4>2. CopiedSoFar'
        BY <1>0, <2>2, <2>3, <3>1, <4>1 DEF CopyInv, CopiedSoFar, SbinTypeOK, CountsOK, Tmpfs, Read
      <4>3. cur' \in Read' /\ Kind[cur'] = "reg" /\ top'[cur'] \in 0 .. Size[cur']
        <5>1. e \in Entries /\ DOMAIN top = Entries
          BY <1>0 DEF SbinTypeOK, CountsOK, Tmpfs
        <5>2. Size[e] \in Nat
          BY <5>1, SbinAssumption
        <5>3. top'[e] = 0
          BY <4>1, <5>1
        <5>4. e \in Read'
          BY <2>3
        <5>5. QED
          BY <4>1, <5>2, <5>3, <5>4
      <4>4. QED
        BY <1>0, <2>3, <3>1, <4>2, <4>3 DEF CopyInv
    <3>2. CASE pc' = "returned"
      BY <1>0, <2>3, <3>2 DEF CopyInv
    <3>3. QED
      BY <2>4, <3>1, <3>2 DEF CreateCopy, Undo
  <2>5. CASE CopyLink(e)
    <3>1. CASE pc' = "readdir"
      <4>1. top' = [top EXCEPT ![e] = 0] /\ Size[e] = 0
        <5>1. top' = [top EXCEPT ![e] = 0] /\ Kind[e] = "lnk"
          BY <2>5, <3>1 DEF CopyLink, Undo
        <5>2. e \in Entries
          BY <1>0 DEF SbinTypeOK, CountsOK
        <5>3. QED
          BY <5>1, <5>2, SbinAssumption
      <4>2. CopiedSoFar'
        BY <1>0, <2>2, <2>3, <3>1, <4>1 DEF CopyInv, CopiedSoFar, SbinTypeOK, CountsOK, Tmpfs, Read
      <4>3. QED
        BY <1>0, <2>3, <3>1, <4>2 DEF CopyInv
    <3>2. CASE pc' = "returned"
      BY <1>0, <2>3, <3>2 DEF CopyInv
    <3>3. QED
      BY <2>2, <2>5, <3>1, <3>2 DEF CopyLink, Undo
  <2>6. CASE SkipEntry(e)
    BY <1>0, <2>2, <2>3, <2>6 DEF SkipEntry, CopyInv, CopiedSoFar, Read
  <2>7. QED
    BY <2>1, <2>4, <2>5, <2>6
<1>5. CASE EndOfDir
  BY <1>0, <1>5 DEF EndOfDir, CopyInv, Whole, CopiedSoFar, Read
<1>6. CASE Sendfile
  <2>1. /\ pc = "copy" /\ pc' = "copy" /\ top[cur] < Size[cur]
        /\ UNCHANGED <<left, cur, covered, sbin>>
    BY <1>6 DEF Sendfile
  <2>2. cur \in Entries /\ top[cur] \in 0 .. Size[cur] /\ Size[cur] \in Nat
    BY <1>0, <2>1, SbinAssumption DEF CopyInv, SbinTypeOK, CountsOK
  <2>3. (\A e \in Entries \ {cur} : top'[e] = top[e]) /\ top'[cur] \in 0 .. Size[cur]
    BY <1>0, <1>6, <2>2 DEF Sendfile, SbinTypeOK, CountsOK, Tmpfs
  <2>4. QED
    BY <1>0, <2>1, <2>3 DEF CopyInv, CopiedSoFar, Read, Whole
<1>7. CASE CheckCopied
  BY <1>0, <1>7 DEF CheckCopied, Undo, CopyInv, CopiedSoFar, Read, Whole
<1>8. CASE BindOnSbin
  BY <1>0, <1>8 DEF BindOnSbin, Undo, CopyInv, CopiedSoFar, Read, Whole
<1>9. CASE DetachStaging
  BY <1>0, <1>9 DEF DetachStaging, Undo, CopyInv, Whole
<1>10. CASE Retry
  BY <1>0, <1>10 DEF Retry, CopyInv, Whole
<1>11. CASE Kill
  BY <1>0, <1>11 DEF Kill, Fault, CopyInv, Whole
<1>12. CASE UNCHANGED sbinVars
  BY <1>0, <1>12 DEF sbinVars, CopyInv, CopiedSoFar, Read, Whole
<1>13. QED
  BY <1>1, <1>2, <1>3, <1>4, <1>5, <1>6, <1>7, <1>8, <1>9, <1>10, <1>11, <1>12
  DEF Next, Step

(***************************************************************************)
(* Each variable always has a value of its type.                           *)
(***************************************************************************)
THEOREM SbinTypeCorrect == Spec => []SbinTypeOK
<1>1. Init => SbinTypeOK
  BY CopyInvInit DEF CopyInv
<1>2. QED
  BY <1>1, TypeStep, PTL DEF Spec

(***************************************************************************)
(* The promise: /sbin changes at most once, from its content to a whole    *)
(* copy, whatever fails or is killed while the copy is made.               *)
(***************************************************************************)
THEOREM SbinCoversAtomically == Spec => CoversAtomically
<1>1. Init => Promise!Init
  BY DEF Init, Promise!Init
<1>2. CopyInv /\ CopyInv' /\ [Next]_sbinVars =>
        [Promise!Cover]_(IF ~covered THEN "original" ELSE IF Whole(sbin) THEN "copy" ELSE "partial")
  <2> SUFFICES ASSUME CopyInv, CopyInv', [Next]_sbinVars
               PROVE  [Promise!Cover]_(IF ~covered THEN "original"
                                       ELSE IF Whole(sbin) THEN "copy" ELSE "partial")
    OBVIOUS
  <2>1. CASE UNCHANGED <<covered, sbin>>
    BY <2>1 DEF Whole
  <2>2. CASE covered' = TRUE
    BY <2>2 DEF CopyInv, Promise!Cover
  <2>3. UNCHANGED <<covered, sbin>> \/ covered' = TRUE
    BY DEF Next, Step, sbinVars, CheckMounted, MountStaging, OpenSbin, ReadEntry,
           EndOfDir, Sendfile, CheckCopied, BindOnSbin, DetachStaging, Retry, Kill
  <2>4. QED
    BY <2>1, <2>2, <2>3
<1>3. QED
  BY <1>1, <1>2, CopyInvInit, CopyInvStep, PTL DEF Spec, CoversAtomically, Promise!Spec

(***************************************************************************)
(* NoTmpfsLeft: only a run that was killed leaves a tmpfs on /dev/sbin.tmp, *)
(* by the invariant that a call that has returned or not mounted yet has   *)
(* none there.                                                             *)
(***************************************************************************)
LeftInv == SbinTypeOK /\ below <= kills /\ (pc \in {"check", "mount", "returned"} => ~mounted)

THEOREM SbinNoTmpfsLeft == Spec => []NoTmpfsLeft
<1>1. Init => LeftInv
  BY CopyInvInit DEF CopyInv, LeftInv, Init
<1>2. LeftInv /\ [Next]_sbinVars => LeftInv'
  <2> SUFFICES ASSUME LeftInv, [Next]_sbinVars PROVE LeftInv'
    OBVIOUS
  <2>0. SbinTypeOK'
    BY TypeStep DEF LeftInv
  <2>1. CASE ReadEntry
    BY <2>0, <2>1 DEF ReadEntry, CreateCopy, CopyLink, SkipEntry, Undo, LeftInv
  <2>2. CASE Kill
    BY <2>0, <2>2 DEF Kill, LeftInv, SbinTypeOK, CountsOK
  <2>3. CASE Next /\ ~ReadEntry /\ ~Kill
    BY <2>0, <2>3
    DEF Next, Step, CheckMounted, MountStaging, OpenSbin, EndOfDir, Sendfile,
        CheckCopied, BindOnSbin, DetachStaging, Retry, Undo, LeftInv
  <2>4. QED
    BY <2>0, <2>1, <2>2, <2>3 DEF sbinVars, LeftInv
<1>3. LeftInv => NoTmpfsLeft
  BY DEF LeftInv, NoTmpfsLeft
<1>4. QED
  BY <1>1, <1>2, <1>3, PTL DEF Spec
=============================================================================
