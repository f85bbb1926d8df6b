------------------------------ MODULE Changes ------------------------------
(***************************************************************************)
(* scripts/su/changes.sh with rights.sh and su-communication.sh: what an   *)
(* editing session does to the unpacked ramdisk to root a phone, and the   *)
(* parts of bootimg.sh around it: the detection of the Android version,    *)
(* addFile, allow, and the archive made of the files listed by addFile.    *)
(*                                                                         *)
(* A file is the set of edits made to it.  Of the rules of the policy only *)
(* the types matter that they name, as sepolicy-inject fails on a type the *)
(* policy does not have and "set -e" then ends the script; types that all  *)
(* releases have are left out.                                             *)
(***************************************************************************)
EXTENDS Integers, Sequences

CONSTANTS Ramdisks,   \* the ramdisks the script is started on
          Arguments   \* the sequences of words on its command line

Releases == {"4.4", "5.0", "5.1", "6.0", "7.0"}
Extras   == {"su", "ssd_tool", "knox_system_app", "sysinit"}
Fstabs   == {"fstab", "fstab.qcom"}

\* The files fstab* there can be, as the shell sorts them.
FstabLists == {<<>>, <<"fstab">>, <<"fstab.qcom">>, <<"fstab", "fstab.qcom">>}

\* policy: there is a file sepolicy; extra: types only some phones have.
ASSUME RamdisksAssumption ==
    Ramdisks \subseteq [release : Releases, policy : BOOLEAN, extra : SUBSET Extras,
                        fstabs : FstabLists, superuserrc : BOOLEAN]

ASSUME ArgumentsAssumption == Arguments \subseteq Seq(STRING)

VARIABLES ramdisk,      \* the ramdisk as it was unpacked
          unsupported,  \* UNSUPPORTED_SELINUX is set
          argv,         \* the words not parsed yet
          opts,         \* the variables set by the words
          cpc,          \* the stage of the script
          ended,        \* how it ended
          android,      \* ANDROID
          files,        \* the edits made to each file
          listed,       \* INITRAMFS_FILES
          left          \* the fstab files still to be edited

changesVars == <<ramdisk, unsupported, argv, opts, cpc, ended, android, files,
                 listed, left>>

Names == {"sepolicy", "init", "init.rc", "init.superuser.rc", "sbin/su",
          "sbin/hidesu", "xxenforce", "super-bootimg"} \cup Fstabs

NoFile == {"absent"}

\* What the ramdisk has of a file before any edit.
Original(n) ==
    IF \/ n = "sepolicy" /\ ~ramdisk.policy
       \/ n = "init.superuser.rc" /\ ~ramdisk.superuserrc
       \/ n \in Fstabs /\ \A i \in DOMAIN ramdisk.fstabs : ramdisk.fstabs[i] # n
       \/ n \in {"sbin/su", "sbin/hidesu", "xxenforce", "super-bootimg"}
    THEN NoFile ELSE {}

Exists(n) == files[n] # NoFile

\* The stages of the SELinux block that add rules (see Grant).
Grants == {"clients", "daemon", "log", "rights", "L0", "L1", "L3", "power", "eng"}

Stages == Grants \cup {"detect", "copysu", "parse", "domains", "permissive", "fstabs",
                       "fstab", "samsung", "unsupported", "init.rc", "hidesu",
                       "list init.rc", "version", "pack"}

\* What can be done to a file.
Edits == Grants \cup {"absent", "su", "domains", "permissive sysinit", "noverity", "nocrypt",
                     "nocrypt_all", "no load_policy", "no enforce", "1", "su:kernel",
                     "su:su_daemon", "chmod 0750", "chmod 0755", "no flash_recovery",
                     "hidesu", "hidesu:su", "emptied", "revision"}

ChangesTypeOK ==
    /\ ramdisk \in Ramdisks /\ unsupported \in BOOLEAN
    /\ argv \in Seq(STRING)
    /\ opts \in [selinuxmode : {"eng", "power", "user"}, noverity : BOOLEAN,
                 nocrypt : 0 .. 2, keeprecovery : BOOLEAN, hidesu : BOOLEAN,
                 permissivesysinit : BOOLEAN]
    /\ cpc \in Stages /\ ended \in {"running", "ok", "failed"}
    /\ android \in {0, 19, 21, 23, 24}
    /\ files \in [Names -> SUBSET Edits]
    /\ listed \subseteq Names
    /\ left \in Seq(Fstabs)

Edit(fs, n, es) == [fs EXCEPT ![n] = (@ \ NoFile) \cup es]

-----------------------------------------------------------------------------
(***************************************************************************)
(* Types and classes some releases lack, as the comments and the tests of  *)
(* rights.sh and su-communication.sh tell.  "logd" also stands for the     *)
(* types of its sockets.                                                   *)
(***************************************************************************)
TypesOf(release) ==
    (IF release = "4.4" THEN {}
        ELSE {"untrusted_app_devpts", "logd", "fuse", "net_data_file"})
    \cup (IF release \in {"4.4", "5.0"} THEN {}
        ELSE {"service_manager", "service_manager_type"})
    \cup (IF release \in {"6.0", "7.0"}
          THEN {"gatekeeper_service", "toolbox_exec", "activity_service",
                "storage_file", "mnt_user_file", "logcat_exec"} ELSE {})
    \cup (IF release = "7.0" THEN {"priv_app", "audioserver"} ELSE {})

\* Types sepolicy-inject finds in the policy of the unpacked ramdisk.
Types == IF ~Exists("sepolicy") THEN {}
         ELSE TypesOf(ramdisk.release) \cup ramdisk.extra
              \cup (IF "domains" \in files["sepolicy"]
                    THEN {"su", "su_daemon", "su_device"} ELSE {})

\* Android 7 has a policy format that only sepolicy-inject-v2 reads.
ReadByV1 == Exists("sepolicy") /\ ramdisk.release # "7.0"

\* n occurs in l with word boundaries around it, as grep -E "\bn\b" finds it.
OccursIn(n, l) ==
    \/ n = l
    \/ <<n, l>> \in {<<"init", "init.rc">>, <<"init", "init.superuser.rc">>,
                     <<"fstab", "fstab.qcom">>}

\* addFile: a name that is found in the list is not added to it.
AddFile(n, ls) == IF \E l \in ls : OccursIn(n, l) THEN ls ELSE ls \cup {n}

-----------------------------------------------------------------------------
DefaultOpts == [selinuxmode |-> "user", noverity |-> FALSE, nocrypt |-> 0,
                keeprecovery |-> FALSE, hidesu |-> FALSE, permissivesysinit |-> FALSE]

Fresh ==
    /\ opts = DefaultOpts
    /\ cpc = "detect" /\ ended = "running" /\ android = 0
    /\ files = [n \in Names |-> Original(n)]
    /\ listed = {} /\ left = <<>>

ChangesInit ==
    /\ ramdisk \in Ramdisks /\ unsupported \in BOOLEAN /\ argv \in Arguments
    /\ Fresh

GoOn(stage, next) == ended = "running" /\ cpc = stage /\ cpc' = next /\ UNCHANGED ended

\* A command of this stage fails under set -e.  The unpacked ramdisk is
\* removed, so that what was edited of it no longer matters.
Die(stage) == ended = "running" /\ cpc = stage /\ ended' = "failed" /\ UNCHANGED cpc

inputs == <<ramdisk, unsupported>>

DetectVersion ==
    /\ GoOn("detect", "copysu")
    /\ android' = CASE Exists("sepolicy") /\ ~ReadByV1                 -> 24
                    [] ReadByV1 /\ "gatekeeper_service" \in Types      -> 23
                    [] ReadByV1 /\ "gatekeeper_service" \notin Types
                                /\ "service_manager" \in Types         -> 21
                    [] OTHER                                          -> 19
    /\ UNCHANGED <<inputs, argv, opts, files, listed, left>>

CopySu ==
    /\ GoOn("copysu", "parse")
    /\ files' = Edit(files, "sbin/su", {"su"})
    /\ listed' = AddFile("sbin/su", listed)
    /\ UNCHANGED <<inputs, argv, opts, android, left>>

\* One turn of the loop over the arguments: a later word overrides an earlier.
ParseArgument ==
    /\ ended = "running" /\ cpc = "parse" /\ argv # <<>>
    /\ LET w == Head(argv)
       IN  opts' = [selinuxmode |-> IF w \in {"eng", "power", "user"} THEN w
                                    ELSE opts.selinuxmode,
                    noverity |-> w = "noverity" \/ (w # "verity" /\ opts.noverity),
                    nocrypt |-> CASE w = "nocrypt_all" -> 2
                                  [] w = "nocrypt"     -> 1
                                  [] w = "crypt"       -> 0
                                  [] OTHER             -> opts.nocrypt,
                    keeprecovery |-> w = "keeprecovery" \/ opts.keeprecovery,
                    hidesu |-> w = "hidesu" \/ opts.hidesu,
                    permissivesysinit |-> w = "permissivesysinit" \/ opts.permissivesysinit]
    /\ argv' = Tail(argv)
    /\ UNCHANGED <<inputs, cpc, ended, android, files, listed, left>>

\* The SELinux block is skipped without a policy, or when SELinux is to be
\* disabled instead.
ParsedArguments ==
    /\ argv = <<>>
    /\ GoOn("parse", IF Exists("sepolicy") /\ ~unsupported THEN "domains" ELSE "fstabs")
    /\ UNCHANGED <<inputs, argv, opts, android, files, listed, left>>

MakeDomains ==
    /\ GoOn("domains", "clients")
    /\ files' = Edit(files, "sepolicy", {"domains"})
    /\ listed' = AddFile("sepolicy", listed)
    /\ UNCHANGED <<inputs, argv, opts, android, left>>

-----------------------------------------------------------------------------
Since(version, types) == IF android >= version THEN types ELSE {}

(***************************************************************************)
(* The types each function of rights.sh and su-communication.sh needs:     *)
(* those of an allow, noaudit or sepolicy-inject whose failure ends the    *)
(* script.  Rules followed by "|| true" or tested by "if" need none.       *)
(***************************************************************************)
suRights ==
    Since(23, {"toolbox_exec", "activity_service", "service_manager"})
    \cup Since(20, {"untrusted_app_devpts"}) \cup {"su_daemon"}

suReadLogs == Since(20, {"logd"}) \cup Since(22, {"logcat_exec"})

suL0 == suReadLogs \cup Since(20, {"service_manager"})

suMiscL1 == Since(23, {"storage_file", "mnt_user_file"}) \cup Since(20, {"fuse"})

suServicesL1 ==
    Since(23, {"gatekeeper_service"})
    \cup Since(20, {"service_manager", "service_manager_type"})

\* Mutant: the test of the version is missing.
suNetworkL1Any == {"net_data_file"}

suNetworkL1 == Since(20, {"net_data_file"})

suL1 == suMiscL1 \cup suServicesL1 \cup suNetworkL1

suL3 == {"su_daemon", "su_device"}   \* suFirewall, suBind and suMiscL3

suL6 == Since(24, {"audioserver"})

allowSuClients == {"su", "su_daemon", "su_device"} \cup Since(24, {"priv_app"})

suDaemonRights == {"su", "su_daemon", "su_device"}

\* What each of them needs, and the stage that follows it.
Needs(stage) == CASE stage = "clients" -> allowSuClients
                  [] stage = "daemon"  -> suDaemonRights
                  [] stage = "rights"  -> suRights
                  [] stage = "L0"      -> suL0
                  [] stage = "L1"      -> suL1
                  [] stage = "L3"      -> suL3
                  [] stage = "power"   -> suL6
                  [] OTHER             -> {"su"}

\* Where the block goes on, by the mode and the options.
AfterModes == IF opts.permissivesysinit THEN "permissive" ELSE "fstabs"

After(stage) == CASE stage = "clients" -> "daemon"
                  [] stage = "daemon"  -> "log"
                  [] stage = "log"     -> "rights"
                  [] stage = "rights"  -> "L0"
                  [] stage = "L0"      -> "L1"
                  [] stage = "L1"      -> "L3"
                  [] stage = "L3"      -> IF opts.selinuxmode \in {"power", "eng"}
                                          THEN "power" ELSE AfterModes
                  [] stage = "power"   -> IF opts.selinuxmode = "eng"
                                          THEN "eng" ELSE AfterModes
                  [] stage = "eng"     -> AfterModes

Grant(stage) ==
    /\ \/ /\ Needs(stage) \subseteq Types
          /\ GoOn(stage, After(stage))
          /\ files' = Edit(files, "sepolicy", {stage})
       \/ /\ ~(Needs(stage) \subseteq Types)
          /\ Die(stage)
          /\ UNCHANGED files
    /\ listed' = AddFile("sepolicy", listed)
    /\ UNCHANGED <<inputs, argv, opts, android, left>>

PermissiveSysinit ==
    /\ \/ /\ "sysinit" \in Types
          /\ GoOn("permissive", "fstabs")
          /\ files' = Edit(files, "sepolicy", {"permissive sysinit"})
       \/ /\ "sysinit" \notin Types
          /\ Die("permissive")
          /\ UNCHANGED files
    /\ UNCHANGED <<inputs, argv, opts, android, listed, left>>

-----------------------------------------------------------------------------
EditsFstabs == opts.noverity \/ opts.nocrypt # 0

StartFstabs ==
    /\ GoOn("fstabs", IF EditsFstabs THEN "fstab" ELSE "samsung")
    /\ left' = IF EditsFstabs THEN ramdisk.fstabs ELSE <<>>
    /\ UNCHANGED <<inputs, argv, opts, android, files, listed>>

\* Mutant: the file is edited without being listed for the archive.
EditFstabUnlisted ==
    /\ left # <<>>
    /\ GoOn("fstab", IF Len(left) = 1 THEN "samsung" ELSE "fstab")
    /\ files' = Edit(files, Head(left),
                     (IF opts.noverity THEN {"noverity"} ELSE {})
                     \cup (CASE opts.nocrypt = 0 -> {}
                             [] opts.nocrypt = 1 -> {"nocrypt"}
                             [] opts.nocrypt = 2 -> {"nocrypt_all"}))
    /\ left' = Tail(left)
    /\ UNCHANGED <<inputs, argv, opts, android, listed>>

\* One turn of the loop over fstab*.  The copy made of the file with the
\* suffix .orig is not listed, and so is no part of the archive.
EditFstab ==
    /\ left # <<>>
    /\ GoOn("fstab", IF Len(left) = 1 THEN "samsung" ELSE "fstab")
    /\ files' = Edit(files, Head(left),
                     (IF opts.noverity THEN {"noverity"} ELSE {})
                     \cup (CASE opts.nocrypt = 0 -> {}
                             [] opts.nocrypt = 1 -> {"nocrypt"}
                             [] opts.nocrypt = 2 -> {"nocrypt_all"}))
    /\ listed' = AddFile(Head(left), listed)
    /\ left' = Tail(left)
    /\ UNCHANGED <<inputs, argv, opts, android>>

\* Without such a file the loop runs once, for the pattern itself, and cp fails.
NoFstab ==
    /\ left = <<>>
    /\ Die("fstab")
    /\ UNCHANGED <<inputs, argv, opts, android, files, listed, left>>

\* The block for Samsung uses sepolicy-inject whatever the format, and does
\* not call addFile.
Samsung ==
    LET knox == ReadByV1 /\ "knox_system_app" \in Types
    IN  /\ \/ /\ knox => "su" \in Types
              /\ GoOn("samsung", "unsupported")
              /\ files' = IF knox THEN Edit(files, "sepolicy", {"no load_policy"})
                          ELSE files
           \/ /\ knox /\ "su" \notin Types
              /\ Die("samsung")
              /\ UNCHANGED files
        /\ UNCHANGED <<inputs, argv, opts, android, listed, left>>

\* SELinux is disabled by patches to the binary init.
DisableSELinux ==
    /\ GoOn("unsupported", "init.rc")
    /\ IF unsupported
       THEN /\ files' = Edit(Edit(files, "init", {"no enforce"}), "xxenforce", {"1"})
            /\ listed' = AddFile("xxenforce", AddFile("init", listed))
       ELSE UNCHANGED <<files, listed>>
    /\ UNCHANGED <<inputs, argv, opts, android, left>>

\* Mutant: the label does not depend on UNSUPPORTED_SELINUX.
SuServiceAlwaysLabelled == {"su", "su:su_daemon"}

SuService == {"su", IF unsupported THEN "su:kernel" ELSE "su:su_daemon"}

EditInitRc ==
    /\ GoOn("init.rc", IF opts.hidesu THEN "hidesu" ELSE "list init.rc")
    /\ files' = Edit(files, "init.rc",
                     SuService \cup {IF opts.hidesu THEN "chmod 0750" ELSE "chmod 0755"}
                     \cup (IF opts.keeprecovery THEN {} ELSE {"no flash_recovery"}))
    /\ UNCHANGED <<inputs, argv, opts, android, listed, left>>

HideSu ==
    /\ \/ /\ "su" \in Types
          /\ GoOn("hidesu", "list init.rc")
          /\ files' = Edit(Edit(Edit(files, "sbin/hidesu", {"hidesu"}),
                                "sepolicy", {"hidesu"}),
                           "init.rc", {"hidesu", "hidesu:su"})
          /\ listed' = AddFile("sepolicy", AddFile("sbin/hidesu", listed))
       \/ /\ "su" \notin Types
          /\ Die("hidesu")
          /\ UNCHANGED <<files, listed>>
    /\ UNCHANGED <<inputs, argv, opts, android, left>>

ListInitRc ==
    /\ GoOn("list init.rc", "version")
    /\ IF Exists("init.superuser.rc")
       THEN /\ files' = Edit(files, "init.superuser.rc", {"emptied"})
            /\ listed' = AddFile("init.superuser.rc", AddFile("init.rc", listed))
       ELSE /\ listed' = AddFile("init.rc", listed)
            /\ UNCHANGED files
    /\ UNCHANGED <<inputs, argv, opts, android, left>>

\* changes.sh always sets VERSIONED; without the file gitversion, git must
\* know the revision.
PutVersion ==
    /\ \/ /\ GoOn("version", "pack")
          /\ files' = Edit(files, "super-bootimg", {"revision"})
          /\ listed' = AddFile("super-bootimg", listed)
       \/ /\ Die("version")
          /\ UNCHANGED <<files, listed>>
    /\ UNCHANGED <<inputs, argv, opts, android, left>>

\* cpio fails on a listed file that does not exist.
PackRamdisk ==
    /\ ended = "running" /\ cpc = "pack"
    /\ ended' = IF \A n \in listed : Exists(n) THEN "ok" ELSE "failed"
    /\ UNCHANGED <<inputs, argv, opts, cpc, android, files, listed, left>>

ChangesNext ==
    \/ DetectVersion \/ CopySu \/ ParseArgument \/ ParsedArguments \/ MakeDomains
    \/ \E stage \in Grants : Grant(stage)
    \/ PermissiveSysinit \/ StartFstabs \/ EditFstab \/ NoFstab \/ Samsung
    \/ DisableSELinux \/ EditInitRc \/ HideSu \/ ListInitRc \/ PutVersion \/ PackRamdisk

ChangesSpec == ChangesInit /\ [][ChangesNext]_changesVars

-----------------------------------------------------------------------------
\* A file in the archive: the listed files are taken from the directory, the
\* others from the archive the ramdisk came in.
Archive(n) == IF n \in listed THEN files[n] ELSE Original(n)

\* The edit for Samsung that no addFile follows.
SamsungEditLost(n) == n = "sepolicy" /\ unsupported /\ "no load_policy" \in files[n]

(***************************************************************************)
(* EditsReachImage: when the script succeeds, every file it has edited or  *)
(* made is in the archive as it left it.  The files are edited in one      *)
(* place and listed in another, under other conditions, and addFile takes  *)
(* a name for listed when it occurs inside a longer one.  Excepted is the  *)
(* one edit that is lost (see LoadPolicyPrevented).                        *)
(***************************************************************************)
EditsReachImage ==
    ended = "ok" => \A n \in Names : Archive(n) = files[n] \/ SamsungEditLost(n)

(***************************************************************************)
(* GuardsFitReleases: on the policy of any release, whether it is detected *)
(* as that release or, like 5.0, as an earlier one, no rule of the SELinux *)
(* block names a type the policy lacks, except where its failure is        *)
(* allowed for: the tests of $ANDROID and the "|| true" fit the releases.  *)
(***************************************************************************)
GuardsFitReleases == ended = "failed" => cpc \notin Grants

(***************************************************************************)
(* LabelsResolve: the label init.rc gives a service the script adds is a   *)
(* domain of the policy in the same archive; init does not start a service *)
(* it cannot label.  The service and the domain are added in different     *)
(* places under different conditions (UNSUPPORTED_SELINUX, hidesu, a       *)
(* policy that has su already).                                            *)
(***************************************************************************)
LabelsResolve ==
    LET rc == Archive("init.rc")
        sp == Archive("sepolicy")
    IN  (ended = "ok" /\ sp # NoFile) =>
          /\ "su:su_daemon" \in rc => "domains" \in sp
          /\ "hidesu:su" \in rc => "domains" \in sp \/ "su" \in ramdisk.extra

(***************************************************************************)
(* LoadPolicyPrevented: on a Samsung phone (one whose policy has the type  *)
(* knox_system_app) whose SELinux is kept, the image does what the comment *)
(* of the block says: "Prevent system from loading policy".                *)
(***************************************************************************)
LoadPolicyPrevented ==
    (ended = "ok" /\ ~unsupported /\ ramdisk.policy
       /\ "knox_system_app" \in ramdisk.extra) =>
        "no load_policy" \in Archive("sepolicy")
=============================================================================
