# super-bootimg: specifications, checks and proofs

super-bootimg takes an Android boot image apart, changes the ramdisk in it,
builds the image again, and installs on the phone a service, `hidesu`, that
hides the change from chosen applications. This directory holds TLA+ models of
that code, TLC configurations that check them, and proofs that TLAPS checks.

## The system

| Component | Code | State it keeps | Operations | Talks to |
|---|---|---|---|---|
| boot image format | `jni/bootimg.h` | the header, one page, then kernel, ramdisk, second stage and (from some vendors) a device tree, each from a page boundary | — | both tools |
| bootimg-extract | `jni/extract.c` | files and empty flag files in the working directory | search the header, dump each part, look for signatures | repack and the script, through that directory |
| bootimg-repack | `jni/repack.c` | `new-boot.img` | copy the header, append each part, pad | — |
| editing session | `scripts/bootimg.sh` | two temporary directories, `new-boot.img` and `new-boot.img.signed` in the directory it starts in | extract, unpack, source a script of changes, pack, repack, copy, sign, patch | both tools, the script of changes, BootSignature.jar, futility |
| SELinux and ramdisk changes | `scripts/su/*.sh` | the unpacked ramdisk, the list of files to repack | add rules, edit fstab and init.rc, add `su` and `hidesu` | sepolicy-inject |
| hidesu, private /sbin | `jni/hidesu.c`, `makeSbinTmpfs` | a tmpfs on `/dev/sbin.tmp`, then on `/sbin` | copy `/sbin`, bind the copy over it | the kernel |
| hidesu, event loop | `jni/hidesu.c`, the rest | the mount namespace it is in, the namespaces of the zygotes | follow the zygotes, read start events, stop an application, unmount in its namespace, continue it | init, zygotes, applications, logcat |
| recovery installer | `zip/update-binary.sh` | the boot partition | run the session, `dd` the result | bootimg.sh |
| image builds | `build.sh`, `download.sh` | `output/` | download images, build four variants of each | bootimg.sh |
| packaging | `make-zip.sh`, `checkNexus.sh` | a zip, `known-imgs` | — | — |
| Rockchip CRC | `jni/rkcrc.h` | — | a table-driven CRC nobody calls yet | — |
| vendored and binary | `jni/libsepol*`, `jni/libselinux`, `jni/sepolicy-inject` (an empty submodule), `libs`, `scripts/bin` | | | |

### What is hard about it

* *Layout arithmetic.* Both tools advance a position by rounding up once per
  part. The boot loader computes the same positions from page counts. Offsets
  count from a header that need not be at the start of the file, but are
  compared with the size of the file.
* *Files as an interface.* extract, the script and repack communicate through
  the presence of files: `ramdisk.gz` or `ramdisk.lzma`, `ramdisk-mtk`,
  `rkcrc`. Hardly any system call's result is looked at.
* *A script that may stop anywhere.* `set -e`, a trap that cleans up, kills
  that run no trap, and a home directory with an earlier run's product in it.
* *A race hidesu cannot win by waiting.* An application shares its zygote's
  mount namespace until it makes its own. hidesu must unmount in the latter,
  never in the former, and must not let the application run with half of the
  mounts. It does so with SIGSTOP, SIGCONT and a namespace that it compares,
  while the application, its zygote and hidesu itself may die.

The hazards, each with its line and the properties about it, are listed in
`PROJECT.json`.

### What makes each component correct

* extract: each file is the part the layout defines; nothing is read past the
  end of the file; nothing is left out of the files without a flag.
* repack: each part is where the header it writes puts it; required parts are
  there; the MTK header is the one the image had.
* the two tools together: an image taken apart without a complaint and built
  again is the same image.
* session: success means the original image with another ramdisk, also in the
  directory of a run that was killed; the signed image is the one built in this
  run.
* changes: what the script edits is in the archive it makes; no rule it adds
  names a type the release lacks; the labels it writes into `init.rc` are domains
  of the policy it makes.
* recovery installer: the partition is written only after a session that
  succeeded, and with what that has built.
* image builds: an image published under the name of a variant is that variant,
  whole, and made from a whole original, whatever earlier runs have left.
* private /sbin: the cover appears whole or not at all, nothing is left
  mounted elsewhere, and it appears in the end.
* event loop: only a listed application's own namespace loses mounts; it loses
  all of them before it runs on; it runs on in the end; no event is lost.

## The modules

```
BootImg ── WorkDir ─┬─ Extract ─┬── Tools
                    └─ Repack ──┴── EditSession ──implements──> ImageEdit
                                        └── Flash
Changes ── Build
SbinTmpfs ──implements──> SbinAtomic
HideSu
proofs:  BootImgProofs <─ ExtractProofs, RepackProofs <─ ToolsProofs, SessionProofs (of Flash);
         ChangesProofs (of Build);  SbinTmpfsProofs;  HideSuProofs
runs:    MCImages <─ MCExtract, MCRepack <─ MCTools;  MCImages <─ MCEditSession (of Flash);
         MCChanges <─ MCBuild;  MCSbinTmpfs;  MCHideSu
```

**BootImg** is the format. Sizes and offsets are the real numbers of bytes; the
bytes are abstracted to blobs, told apart by the magic the tools compare with
and by what they are a copy of. `NextPage` is the tools' arithmetic, `Pages`
and the `...Pos` operators are the comment of `bootimg.h`. `EditOf` says what it
means that an image is another one with a new ramdisk.

**WorkDir** has the two variables both tools share: the image and the directory.

**Extract** has one action per stage of `main()` in `extract.c`. `Dump` is
`dump()`: it succeeds, writes bytes that are not the image's because the part
lies past the end of the mapping, or fails its assertions: the file, or a flag
(`FailToRaise`), cannot be created, or the write comes short (past the mapping, or on
a full file system), with the file left empty or cut short. A length below zero, left
by the subtraction of MTK headers, is a huge `size_t`; `write` then returns -1, and the
assertion `ret == size` lets the length -1 pass, with an empty file. `ReadPastEnd` is
the signal a comparison past the end of the mapping can end in.

**Repack** has one action per stage of `main()` in `repack.c`. `FileLen` is -1
for a file that cannot be opened, and `% U32` is the conversion to the header's
`uint32_t`. `ShortWrites` is a file system that may be full: what `sendfile` or the
`pwrite` of the MTK header was to write may then be cut short or missing (`OrCut`),
which repack does not notice, and a failed write of the header ends in a signal when
its fields are stored through the mapping.

**Tools** runs the two one after the other in one directory, as a user does by
hand, or repack in a directory somebody has filled. `RoundTrip` is about the
pair: the names and flags they agree upon carry everything an image has.

**EditSession** is `bootimg.sh`, which runs `ExtractNext` and `RepackNext` as its
children. Every stage can also fail (`Fail` is `set -e` with the trap) or be
killed (`Kill`). Copying and signing take two steps, as they first truncate
their target. The script of changes is one step: it may do anything to the
ramdisk, and only whether it succeeds matters here (`Changes` is the rest). An
archive is only `Unpackable` if it is in its name's format and not empty.
After a failure or a kill the script can be started again (`Restart`). A new run
gets a new directory or, where there is no `mktemp` and `mktempS` takes a random
name, the directory of a run that was killed, with all that is in it.

**ImageEdit** is what `bootimg.sh` promises, in one step: fail, or deliver the
original with another ramdisk; after a failure it may be tried again. It promises
nothing for an image that is not `Editable`: malformed, or with two MTK headers,
of which extract steps over both and repack writes one.
`EditSession` implements it by the refinement mapping `Promise`, which only shows
the delivered image once the script has succeeded.

**Flash** is `update-binary.sh`: find the partition, run the session on it, write
back with `dd` what the session has built. The recovery may install the zip again
after a failure (`Reinstall`), and power may be lost at any step. A session
started by a user is the other `caller`, so that one state space has both.

**Changes** is `changes.sh` with the functions of `rights.sh` and
`su-communication.sh` and the parts of `bootimg.sh` they use: detection of the
Android version, `addFile`, `allow`, the archive made of the listed files. A file
is the set of edits made to it. A rule is the set of types it names (`Needs`):
`sepolicy-inject` fails on a type the policy lacks, and `set -e` ends the script.
`TypesOf` has the types by which the five releases differ, as the tests and
comments of `rights.sh` and `su-communication.sh` tell them apart. `OccursIn` is
the `grep` of `addFile`, which finds `init` in `init.rc`.

**Build** is `build.sh` and `download.sh` on one device's directory, in any order,
each failing or killed anywhere. It runs `ChangesNext` with the words of each of the
four variants. It keeps of `bootimg.sh` what that does to the files of the device's
directory: copy, signing, nothing else.

**SbinTmpfs** is `makeSbinTmpfs`, one action per system call that can fail. A
tmpfs is a function from the entries of `/sbin` to the pages it has of each.
`copied` is a `size_t` of `SizeT` values. `Kill` and `Retry` are init, which
starts the service again.

**SbinAtomic** is what that promises: `/sbin` changes once, from the original to
a whole copy.

**HideSu** is the rest of `hidesu.c`. What runs beside it (zygotes, applications,
the system server's log, init) is not in this repository. It is modelled from
what `hidesu.c` relies on, and marked external in the map. A mount namespace is
the set of covers it has; a new one starts with a copy of its parent's.
`makeSbinTmpfs` is a single step here, which `SbinTmpfs` justifies: nobody ever
sees a part of its work.

## The runs

| Run | What it asks | Bounds |
|---|---|---|
| `tools` | parts cut as laid out, nothing left out silently, optional parts read inside the file; layout of what repack builds, MTK header; the round trip | 291 000 states. Extract, then repack: every combination of part sizes on, one below and one above a page boundary, with and without second and device tree, all ramdisk magics, MTK ramdisks as long as their header and one and two bytes shorter, with and without a signature in front or behind; ChromeOS and Rockchip images; images cut short by 1 byte to 4 pages. Repack alone: three page sizes, kernels of 1 byte to 2 pages and one, a missing kernel, both names of the ramdisk, all flags. Short writes |
| `extract_prefix` (violated) | is the device tree only read inside the file? | the images of `tools` |
| `repack_lzma` (violated) | is what it reports as built well formed? | directories with `ramdisk.lzma` only |
| `session` | refinement of ImageEdit, signed image, Rockchip, partition | 1 634 000 states: images of every kind and damage, with two MTK headers too, products of earlier runs present or not, keys or not, a failure, kill or loss of power at any step, `MaxRestarts` = 1 |
| `build` | edits reach the image, guards fit the releases, labels resolve; what is published is what its name says, from a whole original | 622 000 states: five releases, with and without a policy, all extra types, ten command lines with every word; builds on 30 of the ramdisks, `MaxRuns` = 3 runs of `build.sh` or `download.sh`, keys put in place or taken away in between |
| `changes_samsung` (violated) | is the system kept from loading another policy on a Samsung phone? | the ramdisks and words of `build` |
| `sbin` | types, atomic cover, nothing left mounted, covered in the end unless the tmpfs fills up | 22 000 states: files of 2 and 1 pages, a link, a directory; room for 2 pages or 3; a `size_t` of 4 values so that the counter wraps; 3 faults or kills |
| `sbin_full` (violated) | does a copy in part get noticed? | one fault |
| `hidesu` | only listed applications lose mounts; every event handled; every application continued | two applications of zygote (one listed), a listed one of zygote64, one kill or restart of logcat |
| `hidesu_faults` | no application runs half hidden; hidden once handled; none stopped behind hidesu | one listed application of each zygote; zygote64 late, a zygote restarted, an application dead, one fault |
| `hidesu_death` (violated) | is every event handled when an application dies? | two applications of one zygote |
| `hidesu_late` (violated) | do only listed applications lose mounts when zygote64 is late? | as `hidesu` |

`U32` is 2^30 in the runs, as TLC has no integers of 33 bits; nothing but the
length -1 of a missing file comes near it. The proofs hold for any `U32` above
65536.

The bounds are enough for what the properties tell apart: a position depends on
each size only through its number of pages, and the sizes of the runs have every
relation to a page boundary at every part; one restart suffices for a run to
find what another has left, as a second one finds no other kind of file; three
runs suffice for a download, a build that is killed and one that finds what the
two have left; two applications suffice for an event to be lost behind another,
two zygotes for one namespace to be unknown, one kill for each step of hidesu to
be the last.

`CHECK_DEADLOCK FALSE`: the tools and the scripts end; hidesu waits for events when
all applications have started.

### Fairness

`SbinTmpfs` and `HideSu` assume weak fairness of the process as a whole: the
kernel keeps running a process that is ready. `HideSu` also assumes that a
zygote starts and leaves init's namespace and that the system server logs each
start, once each (weak fairness). That an application reaches its own namespace
takes strong fairness: hidesu lets it run again and again for 20 microseconds,
so the step is enabled infinitely often, never for ever. Nothing is assumed of
faults, deaths or restarts, which are bounded. `CoveredInTheEnd` therefore says
that the cover comes once the faults stop, unless a file does not fit.
`EditSession`, `Flash`, `Changes` and `Build` have no liveness property: a script may wait
for its tools for ever.

### Disagreements found

* *Device tree read past the end* (`extract.c:130`, run `extract_prefix`): the
  bound counts from the header, the size from the start of the file.
* *Success without a ramdisk* (`repack.c:59`, run `repack_lzma`): a missing file is
  appended as a file of -1 bytes. `bootimg.sh` avoids it, as it always leaves a
  `ramdisk.gz`; run `session` shows that.
* *Samsung's block does nothing on Android 7* (`changes.sh:131`, run
  `changes_samsung`): it asks `sepolicy-inject` and not the tool that reads the new
  format of the policy, as all other lines do, so that the type is never found.
  With `UNSUPPORTED_SELINUX` the block does edit the policy of older releases, but
  no `addFile` follows, and the edit is lost; `EditsReachImage` excepts it by name.
* *An endless copy* (`hidesu.c:151`, run `sbin_full`): `bytes` is unsigned, so -1
  counts as progress.
* *A dead application stops hidesu* (`hidesu.c:42`, run `hidesu_death`): -1 counts as
  "still in the zygote's namespace".
* *A late zygote64 loses its cover* (`hidesu.c:266`, run `hidesu_late`).

The following are not counted as disagreements; the properties except or allow
them, each by a named condition or bound:

* After a build with keys that failed, a build without keys publishes the signed
  image of the former under another variant's name (`keysTaken` in
  `PublishedAsNamed`).
* A `cp` that fails at the end of a download leaves a part of an image that the
  next run takes for a finished download (`interrupted` in `PublishedFromWhole`).
* A loss of power during `dd` leaves a torn partition (`PartitionSafe` only says that
  the partition is whole until then, and after an installation that ended well).
* `dump`'s `assert(ret == size)` (`extract.c:19`) passes for a size of -1, which is what
  `extract.c:40` makes of a ramdisk one byte shorter than the MTK headers in front of it:
  extract leaves an empty file and reports success (`OneByteShort` in `CutsAsLaidOut`
  and `RoundTrip`; `NothingLeftOutSilently` does not speak of what is in the files). The
  script is safe, as the empty file does not unpack; `EditsAsPromised` excepts nothing.
* On a full file system repack loses the MTK header without a word (`repack.c:53`), as it
  loses parts of files (`ShortWrites` in `MtkFlavourKept` and `RoundTrip`).
* The installer writes the image that is not signed.
* A zygote that dies before it has left init's namespace keeps hidesu waiting for the
  pid it has found once (`hidesu.c:260`); run `hidesu`, where `EventsHandled` needs hidesu
  to come to its main loop, has no restarts of zygotes.

## The proofs

| Theorem | Says |
|---|---|
| `ExtractTypeCorrect` | extract keeps its types |
| `ExtractOptionalPartsInFile` | second and dt are read inside a file that starts with its header |
| `ExtractCutsAsLaidOut` | the files of a well formed image are the parts of its layout, but for a ramdisk one byte shorter than its MTK headers |
| `ExtractNothingLeftOutSilently` | without the flag `secure`, the parts a well formed image announces are all it has, and each was dumped |
| `RepackTypeCorrect` | repack keeps its types, with missing files too |
| `RepackBuildsAsLaidOut` | what repack finishes is laid out as its own header says |
| `RepackMtkFlavourKept` | the MTK header is the one the flags ask for, unless its write came short, and there is one only then |
| `ToolsRoundTrip` | an image taken apart without a complaint is rebuilt as it was, but for what a short write has left out, the MTK header included, and for a ramdisk one byte shorter than that header |
| `SessionRockchipNeverPublished` | an image with a Rockchip signature never replaces new-boot.img |
| `SessionSignedMatchesBuilt` | a signed image that is due is of this run |
| `SessionEditsAsPromised` | `bootimg.sh` implements ImageEdit, through any number of restarts |
| `FlashTypeCorrect` | the tools, the script and the installer keep their types together |
| `FlashDdAfterSession` | the partition is only written after a session that ended well, with what that has left |
| `FlashPartitionSafe` | an installation that ended well has the image that was promised on the partition |
| `ChangesTypeCorrect` | the script of changes keeps its types |
| `ChangesFitReleases` | no rule of the SELinux block ends the script on any policy |
| `ChangesReachImage` | what was edited is in the archive |
| `ChangesLabelsResolve` | the labels of the services are domains of the policy in the archive |
| `ChangesHonourOptions` | the archive has the edits of fstab and the modes of the command line, and no others |
| `BuildTypeCorrect` | builds and downloads keep their types |
| `BuildPublishedAsNamed` | an image published under a variant's name is that variant |
| `BuildPublishedFromWhole` | and is made from a whole original |
| `BuildScriptsSound` | the three properties of the script of changes, for the builds |
| `SbinTypeCorrect` | makeSbinTmpfs keeps its types |
| `SbinCoversAtomically` | makeSbinTmpfs implements SbinAtomic |
| `SbinNoTmpfsLeft` | only a kill leaves a tmpfs on /dev/sbin.tmp |
| `HideSuTypeCorrect` | hidesu and what runs beside it keep their types |
| `HideSuFrozenWhileDetaching` | an application that still runs is stopped while its mounts are taken |
| `HideSuHiddenOnceHandled` | a handled application sees none of the mounts |
| `HideSuStoppedIsAhead` | the event of a stopped application is being handled or still to be read |
| `HideSuDetachesOnlyFromListed` | only listed applications lose mounts, when the zygotes start in time and once |

They hold for every value of the constants, from the named assumptions beside
the constants: images and directories are of their types (`ImagesAssumption`,
`JobsAssumption`), a `uint32_t` holds the length of every file with an MTK header
(`JobsAssumption`, `ImagesFitAssumption`, `EditedSizesAssumption`; `file_size` and
`int size` assume it in the code), `SizeT` exceeds the size of every file, ramdisks
and command lines are of their types (`RamdisksAssumption`, `ArgumentsAssumption`),
the command lines of `build.sh` are among them (`WordsAssumption`), and the bounds
on restarts and runs are natural numbers (`MaxRestartsAssumption`,
`MaxRunsAssumption`), any ones. Four theorems state an assumption of their own:

* `RepackMtkFlavourKept`: no file of the directory itself begins with an MTK header
  (extract steps over them, and `ToolsRoundTrip` shows it where it matters).
* `SessionEditsAsPromised` and `FlashPartitionSafe`: `ShortWrites = FALSE`. `repack.c`
  does not look at what `sendfile` returns, so that a full file system leaves an
  image with a part cut short and an exit status of 0, and the script cannot keep
  its promise. The run `session` makes the same assumption. `FlashDdAfterSession` does
  not need it, nor do `RepackMtkFlavourKept` and `ToolsRoundTrip`, which except what was
  cut.
* `HideSuDetachesOnlyFromListed`: zygote64 is not late and no zygote starts again
  (`hidesu_late` shows why).

Each inductive invariant was checked by TLC on the run of its module before it
was proved.

`BootImgProofs` has the arithmetic: `NextPageIsPages` shows, by cases on the three
page sizes, that rounding up a multiple of the page by a size is adding that
size's pages, and `Layout` that consequently the positions of a header follow
from each other by `NextPage`. `HeaderFound` needs that the least offset exists.

`ExtractCutsAsLaidOut` rests on an invariant that says, at each stage, where `xpos`
stands and which files are already right; the property alone is not inductive,
as it says nothing before the end. `RamdiskCut` says that a ramdisk that was dumped
without a failure is at least as long as its MTK headers, or a byte shorter with an empty
file (`OneByteShort`); nothing shorter passes. `EndInv` adds, for
`ExtractNothingLeftOutSilently`, that before the last stage `xpos` is the end of the
image if the device tree was cut, and the place of one if it was not; then only
`unused0 = 0` makes the two the same.

`RepackBuildsAsLaidOut` rests on `BuildInv`: the sizes of the parts not yet appended
are 0, so the end of the image announced so far (`EndPos`) is the position the
next part is appended at, and every part appended lies before it, so that no
later write reaches it. `PartsKept` is the second half of that argument,
`NewPart` the first. `RepackMtkFlavourKept` has a shorter invariant of the same kind:
once the MTK header is written, or lost, `rpos` is past it; without the flag no blob of
the image is an MTK header at any stage.

`ToolsRoundTrip` joins the two. `ToolsInv` is their invariants and, while the second
program has not begun, what the first has told of a well formed image: the parts
already cut (`Progress`), where the archive starts (`Ending`) and that `ramdisk.gz` is
there for a gzip archive only (`GzOnly`). Afterwards the directory stays as it is. At
the end the layout (`LaidOutInv`) says that each file is where the new header puts
it, `Ending` that each file is a part of the old image; `RebuiltAsItWas` puts the two
headers' sizes, and thereby positions, side by side.

`SessionRockchipNeverPublished` and `SessionSignedMatchesBuilt` rest on `SessionInv`, for
any number of restarts, and for a user and the recovery alike. `FlagsOK` says that
the flags of this run are in the directory as soon as extract has raised them, also
in a directory with an older run's flags; `RockchipOK` that nothing after repack is
reached; `SignedOK` that from signing on the signed image has the header and the
parts of the other one.

`SessionEditsAsPromised` is the refinement, and its proof the longest argument here.
`EditInv` carries an editable image through the session: `DirectoryInv` says of the
directory what it says at each stage of the script, the changed archive in the
format of the old one from "pack" on (`Packed`), and that an older run can have left
at most a packed archive of the same format (`StaleArchive`), which is what makes a
restart in an old directory harmless; `RebuildInv` has repack's invariants and that
the product has one header, at its start; `HomeInv` that the copy is an edit of the
original once it is complete. Then every step but the one to "ok" is a stutter of
ImageEdit, or its `Fail` or `Retry`, and that one is its `Succeed` (`SessionMoves`).
`PartitionInv` says where the installer stands: `dd` comes after "ok", and nothing
before it touches the partition. `FlashPartitionSafe` takes that and `HomeInv` together.

`ChangesInv` relates where the script is to what it has done: the stages after
"domains" have the domains of `su` (`PolicyOK`), an edited file is listed except for
`init.rc` between its edits and its `addFile` (`ListedOK`), and names that `addFile` would
find inside another are listed before these (`OrderOK`), which is why `ListedOK` is
preserved. `Detected` fixes `android` as a function of the release, so that
`GuardsFitReleases` becomes one case per version and function of `rights.sh`.

`ScriptInv` adds that the loop over fstab has edited the files it has passed and
no others (`FstabsOK`), and that the policy has the modes whose stage is passed and
was asked for (`ModesOK`). `BuildInv` carries that into the builds: the words still
to be parsed and the options so far are together those of the variant
(`ParsedSoFar`), hence the finished image is (`VariantOK`), hence the published one
(`PublishedOK`). An older signed image is not taken for this turn's: without keys
there is none unless keys were taken away (`KeysOK`), with keys this turn overwrites
it. `OriginOK` follows a torn original to the only step that can leave one, the `cp`
of a download.

`SbinCoversAtomically` and `SbinNoTmpfsLeft` rest on an invariant that says which
files are already whole while the rest are in `left`.

`HideSuFrozenWhileDetaching` and `HideSuHiddenOnceHandled` rest on `HideInv`: the process
of the event is stopped wherever hidesu counts on it (`Frozen`), the namespace hidesu
is in is the one the process has (`Inside`), the cover of `/sbin` is gone before those
of `/system` (`SbinGone`), and processes handled before stay without mounts in the
namespace they are in, or will copy (`Hidden`). `HideSuStoppedIsAhead`, the safety half of
`StoppedIsContinued`, needs besides the types only that the event being handled is of
a listed application (`OfListed`); a restart loses none because logcat prints its
buffer from the start. `DetachInv` adds that hidesu knows the
namespaces of both zygotes when it reads events (`Known`), that a namespace nobody
has made has no mounts (`Blank`), and that hidesu is in the process's own (`InOwn`).

Only model-checked: liveness (`CoveredInTheEnd`, `EventsHandled`,
`StoppedIsContinued`), which TLAPS cannot express with fairness. Every safety and
action property of the runs that pass is stated by a theorem.

## Not modelled

* Contents: compression, cpio archives, the bytes of a header beyond the sizes,
  modes, owners and SELinux contexts.
* Parts of 2 GB and more: `write` returns at most 0x7ffff000, so `dump`'s
  assertion ends extract before any of its 32 bit sums can wrap. Sizes within 512
  bytes of 2^32, the top one of which a 32 bit `size_t` cannot tell from -1, are
  excluded by `ImagesFitAssumption`.
* `setns` failing for root; pids used again for another process (each is used
  once: an event of a process long gone could then stop another one, `hidesu.c:322`
  does not look at the name again); mounts that propagate between namespaces
  (zygote makes its mounts private before an application uses them).
* The line `fgets` leaves in the buffer when the pipe ends: its writer loops for
  ever.
* Liveness with zygotes that are started again: `EventsHandled` is checked without
  restarts, which fail it as said above.
* That the second directory of a session (`d2`) has the name of an older one; a
  session in the directory of a run on another image.
* Rules of the policy beyond the types by which the releases differ: permissions,
  classes, types that all of them have. The regular expressions that edit fstab
  and `init.rc`: an edit is made or not.
* The temporary directories a failed download leaves in /tmp.
* `rkcrc.h`: nothing includes it. Packaging and the keystore script: they keep no
  state. `libsepol*`, `libselinux`, the prebuilt tools: vendored, or without source here.

The repository's own code is about 1900 lines of C and shell. The vendored copies
of libsepol, which no property here is about, are over 135 000 lines of code, some 98 percent
of what the tree holds; that is why the map covers so small a share of the tree.

## Plan

What is left, in this order:

1. Pids that are used again in `HideSu`, with a log that outlives its processes, and
   what its theorems still say then (`hidesu.c:322`).
2. Progress of the copy in `makeSbinTmpfs` by a measure that falls, as an action
   property.
3. What a session with short writes can deliver: an image of the right layout in which
   parts may be cut.
