------------------------------- MODULE HideSu -------------------------------
(***************************************************************************)
(* The hidesu service (jni/hidesu.c): covers /sbin in the mount namespaces *)
(* of init and of the zygotes, then follows the event log, and takes the   *)
(* cover and the mounts under /system away from each listed application    *)
(* that starts, in the application's own mount namespace.                  *)
(*                                                                         *)
(* Around the service run, at their own pace, the zygotes, the             *)
(* applications they fork, and the system server that logs their starts.   *)
(* These are not in this repository; they are modelled from what hidesu.c  *)
(* relies on, and are marked as external.  makeSbinTmpfs is one step here: *)
(* module SbinTmpfs shows that nobody can tell.                            *)
(***************************************************************************)
EXTENDS Integers, Sequences

CONSTANTS Apps,          \* process ids of the applications that start
          Listed,        \* those whose name main() looks for
          Parent,        \* [Apps -> Zygotes], who forks each
          Present,       \* the zygotes of this device
          LateZygote64,  \* TRUE: zygote64 may start more than 5 s after zygote
          MaxRestarts,   \* bound: times a zygote is started again
          MaxDeaths,     \* bound: applications that die by themselves
          MaxFaults      \* bound: kills of the service, restarts of logcat,
                         \* covers that fail

Zygotes == {"zygote", "zygote64"}

ASSUME HideSuAssumption ==
    /\ Apps \subseteq Nat /\ Listed \subseteq Apps
    /\ "zygote" \in Present /\ Present \subseteq Zygotes
    /\ Parent \in [Apps -> Present]
    /\ LateZygote64 \in BOOLEAN
    /\ MaxRestarts \in Nat /\ MaxDeaths \in Nat /\ MaxFaults \in Nat

VARIABLES zyg,    \* zyg[z].st: the zygote's state, zyg[z].gen: its incarnation
          app,    \* app[p].st: the application's state, app[p].gen: the
                  \* incarnation of its parent, app[p].stopped: by SIGSTOP
          mods,   \* mods[n]: what is mounted over /sbin and /system in n
          log,    \* the am_proc_start events in the event log buffer
          pc,     \* the stage of the service
          ns,     \* the mount namespace the service is in
          known,  \* known[z]: zygote_mnt_ns and zygote64_mnt_ns
          zpid,   \* the incarnation of the zygote getPidOfProc found
          rd,     \* number of events the running logcat has delivered
          restarts, deaths, faults

envVars    == <<zyg, app, log, restarts, deaths>>
daemonVars == <<pc, ns, known, zpid, rd, faults>>
vars       == <<envVars, mods, daemonVars>>

\* Mount namespaces: init's, each incarnation of a zygote's, each
\* application's own.  NoNs is the empty string in known.
InitNs         == <<"init", 0>>
ZygoteNs(z, g) == <<z, g>>
AppNs(p)       == <<"app", p>>
NoNs           == <<"", 0>>
Incarnations   == 1 .. (MaxRestarts + 1)
SharedNs       == {InitNs} \cup (Zygotes \X Incarnations)
Namespaces     == SharedNs \cup {AppNs(p) : p \in Apps}

Stages == {"cover", "findzygote", "prepare", "enterzygote", "findzygote64",
           "prepare64", "enterzygote64", "loop", "check", "poll", "continued", "enter", "umountsbin",
           "umountsystem", "resume"}

TypeOK ==
    /\ zyg \in [Zygotes -> [st : {"off", "starting", "ready"},
                            gen : 0 .. MaxRestarts + 1]]
    /\ app \in [Apps -> [st : {"none", "forked", "own", "dead"},
                         gen : 0 .. MaxRestarts + 1, stopped : BOOLEAN]]
    /\ mods \in [Namespaces -> SUBSET {"sbin", "system"}]
    /\ log \in Seq(Apps)
    /\ pc \in Stages /\ ns \in Namespaces
    /\ known \in [Zygotes -> SharedNs \cup {NoNs}]
    /\ zpid \in 0 .. MaxRestarts + 1
    /\ rd \in 0 .. Len(log)
    /\ restarts \in 0 .. MaxRestarts /\ deaths \in 0 .. MaxDeaths
    /\ faults \in 0 .. MaxFaults


Init ==
    /\ zyg = [z \in Zygotes |-> [st |-> "off", gen |-> 0]]
    /\ app = [p \in Apps |-> [st |-> "none", gen |-> 0, stopped |-> FALSE]]
    /\ \E m \in SUBSET {"system"} :
          mods = [n \in Namespaces |-> IF n = InitNs THEN m ELSE {}]
    /\ log = <<>>
    /\ pc = "cover" /\ ns = InitNs /\ zpid = 0 /\ rd = 0
    /\ known = [z \in Zygotes |-> NoNs]
    /\ restarts = 0 /\ deaths = 0 /\ faults = 0

-----------------------------------------------------------------------------
(***************************************************************************)
(* External: zygotes and applications.                                     *)
(***************************************************************************)
StartZygote(z) ==
    /\ z \in Present /\ zyg[z].st = "off"
    /\ zyg' = [zyg EXCEPT ![z] = [st |-> "starting", gen |-> 1]]
    /\ UNCHANGED <<app, log, restarts, deaths, mods, daemonVars>>

\* A new mount namespace starts with the mounts of the one it is made from.
UnshareZygote(z) ==
    /\ zyg[z].st = "starting"
    /\ zyg' = [zyg EXCEPT ![z].st = "ready"]
    /\ mods' = [mods EXCEPT ![ZygoteNs(z, zyg[z].gen)] = mods[InitNs]]
    /\ UNCHANGED <<app, log, restarts, deaths, daemonVars>>

\* A zygote that dies takes its applications with it and is started again.
RestartZygote(z) ==
    /\ zyg[z].st # "off" /\ restarts < MaxRestarts
    /\ zyg' = [zyg EXCEPT ![z] = [st |-> "starting", gen |-> @.gen + 1]]
    /\ app' = [p \in Apps |->
                 IF Parent[p] = z /\ app[p].st \in {"forked", "own"}
                 THEN [app[p] EXCEPT !.st = "dead", !.stopped = FALSE] ELSE app[p]]
    /\ restarts' = restarts + 1
    /\ UNCHANGED <<log, deaths, mods, daemonVars>>

ForkApp(p) ==
    /\ app[p].st = "none" /\ zyg[Parent[p]].st = "ready"
    /\ app' = [app EXCEPT ![p] = [st |-> "forked", gen |-> zyg[Parent[p]].gen,
                                  stopped |-> FALSE]]
    /\ UNCHANGED <<zyg, log, restarts, deaths, mods, daemonVars>>

\* The namespace a living application is in.
NsOf(p) == IF app[p].st = "own" THEN AppNs(p) ELSE ZygoteNs(Parent[p], app[p].gen)

UnshareApp(p) ==
    /\ app[p].st = "forked" /\ ~app[p].stopped
    /\ app' = [app EXCEPT ![p].st = "own"]
    /\ mods' = [mods EXCEPT ![AppNs(p)] = mods[NsOf(p)]]
    /\ UNCHANGED <<zyg, log, restarts, deaths, daemonVars>>

\* The system server logs the start of a process, perhaps after its end.
LogStart(p) ==
    /\ app[p].st # "none" /\ \A i \in 1 .. Len(log) : log[i] # p
    /\ log' = Append(log, p)
    /\ UNCHANGED <<zyg, app, restarts, deaths, mods, daemonVars>>

AppDies(p) ==
    /\ app[p].st \in {"forked", "own"} /\ deaths < MaxDeaths
    /\ app' = [app EXCEPT ![p].st = "dead", ![p].stopped = FALSE]
    /\ deaths' = deaths + 1
    /\ UNCHANGED <<zyg, log, restarts, mods, daemonVars>>

Environment ==
    \/ \E z \in Zygotes : StartZygote(z) \/ UnshareZygote(z) \/ RestartZygote(z)
    \/ \E p \in Apps : ForkApp(p) \/ UnshareApp(p) \/ LogStart(p) \/ AppDies(p)

-----------------------------------------------------------------------------
(***************************************************************************)
(* The start of main().                                                    *)
(***************************************************************************)
CoverInit ==
    /\ pc = "cover"
    /\ mods' = [mods EXCEPT ![InitNs] = @ \cup {"sbin"}]
    /\ pc' = "findzygote"
    /\ UNCHANGED <<envVars, ns, known, zpid, rd, faults>>

\* getPidOfProc finds a zygote.
FindZygote(z, from, to) ==
    /\ pc = from /\ zyg[z].st # "off"
    /\ zpid' = zyg[z].gen
    /\ pc' = to
    /\ UNCHANGED <<envVars, mods, ns, known, rd, faults>>

\* prepareZygoteNs, called again until it can read the link of a zygote that
\* has left init's mount namespace ...
ReadZygoteNs(z, from, to) ==
    /\ pc = from /\ zyg[z] = [st |-> "ready", gen |-> zpid]
    /\ known' = [known EXCEPT ![z] = ZygoteNs(z, zpid)]
    /\ pc' = to
    /\ UNCHANGED <<envVars, mods, ns, zpid, rd, faults>>

\* ... and its end: the service follows the zygote there and covers /sbin.
\* It goes on also when the zygote has died since or makeSbinTmpfs fails.
EnterZygoteNs(z, from, to) ==
    /\ pc = from
    /\ \/ /\ zyg[z].gen = zpid
          /\ ns' = ZygoteNs(z, zpid)
          /\ \/ /\ mods' = [mods EXCEPT ![ZygoteNs(z, zpid)] = @ \cup {"sbin"}]
                /\ UNCHANGED faults
             \/ /\ faults < MaxFaults /\ faults' = faults + 1
                /\ UNCHANGED mods
       \/ /\ zyg[z].gen # zpid
          /\ UNCHANGED <<ns, mods, faults>>
    /\ pc' = to
    /\ UNCHANGED <<envVars, known, zpid, rd>>

\* 50 times 100 ms have passed without zygote64.
GiveUpZygote64 ==
    /\ pc = "findzygote64" /\ zyg["zygote64"].st = "off"
    /\ LateZygote64 \/ "zygote64" \notin Present
    /\ known' = [known EXCEPT !["zygote64"] = NoNs]
    /\ pc' = "loop"
    /\ UNCHANGED <<envVars, mods, ns, zpid, rd, faults>>

-----------------------------------------------------------------------------
(***************************************************************************)
(* The main loop and disableSu.  pid is the process of the last event.     *)
(***************************************************************************)
pid == log[rd]
Alive(p) == app[p].st \in {"forked", "own"}

\* kill(pid, SIGSTOP or SIGCONT), which does nothing when there is no pid.
Signal(stop) == app' = [app EXCEPT ![pid].stopped = stop /\ Alive(pid)]

\* Mutant: the line that follows is lost.
SkipTwoEvents ==
    /\ pc = "loop" /\ rd < Len(log)
    /\ log[rd + 1] \notin Listed
    /\ rd' = rd + 2
    /\ UNCHANGED <<envVars, mods, pc, ns, known, zpid, faults>>

\* fgets returns an event of a process that is not on the list ...
SkipEvent ==
    /\ pc = "loop" /\ rd < Len(log)
    /\ log[rd + 1] \notin Listed
    /\ rd' = rd + 1
    /\ UNCHANGED <<envVars, mods, pc, ns, known, zpid, faults>>

\* ... or that is: the process is stopped.
StopListed ==
    /\ pc = "loop" /\ rd < Len(log)
    /\ LET p == log[rd + 1]
       IN  /\ p \in Listed
           /\ app' = [app EXCEPT ![p].stopped = Alive(p)]
    /\ rd' = rd + 1
    /\ pc' = "check"
    /\ UNCHANGED <<zyg, log, restarts, deaths, mods, ns, known, zpid, faults>>

\* stat("/proc/<pid>/ns/mnt")
CheckRunning ==
    /\ pc = "check"
    /\ pc' = IF Alive(pid) THEN "poll" ELSE "resume"
    /\ UNCHANGED <<envVars, mods, ns, known, zpid, rd, faults>>

\* Mutant: only one of the zygotes is compared with.
StillZygote32Ns == ~Alive(pid) \/ NsOf(pid) = known["zygote"]

\* isStillZygoteNs is 0 only for a living process outside the known
\* namespaces; it is -1 when the link cannot be read any more.
StillZygoteNs == ~Alive(pid) \/ NsOf(pid) \in {known[z] : z \in Zygotes}

\* Mutant: the process is left alone, but stopped.
PollStopped ==
    /\ pc = "poll"
    /\ pc' = IF StillZygoteNs THEN "continued" ELSE "enter"
    /\ UNCHANGED <<app, zyg, log, restarts, deaths, mods, ns, known, zpid, rd, faults>>

\* The loop of disableSu: the process is continued, left alone for 20
\* microseconds, and stopped.
Poll ==
    /\ pc = "poll"
    /\ \/ /\ StillZygoteNs
          /\ Signal(FALSE)
          /\ pc' = "continued"
       \/ /\ ~StillZygoteNs
          /\ pc' = "enter"
          /\ UNCHANGED app
    /\ UNCHANGED <<zyg, log, restarts, deaths, mods, ns, known, zpid, rd, faults>>

\* Mutant: the process runs on.
StopAgainNot ==
    /\ pc = "continued"
    /\ pc' = "poll"
    /\ UNCHANGED <<app, zyg, log, restarts, deaths, mods, ns, known, zpid, rd, faults>>

StopAgain ==
    /\ pc = "continued"
    /\ Signal(TRUE)
    /\ pc' = "poll"
    /\ UNCHANGED <<zyg, log, restarts, deaths, mods, ns, known, zpid, rd, faults>>

\* Mutant: the namespace is opened but not entered.
EnterNsNot ==
    /\ pc = "enter"
    /\ pc' = IF Alive(pid) THEN "umountsbin" ELSE "resume"
    /\ UNCHANGED <<envVars, mods, ns, known, zpid, rd, faults>>

\* open("/proc/<pid>/ns/mnt") and setns.
EnterNs ==
    /\ pc = "enter"
    /\ \/ /\ Alive(pid)
          /\ ns' = NsOf(pid)
          /\ pc' = "umountsbin"
       \/ /\ ~Alive(pid)
          /\ pc' = "resume"
          /\ UNCHANGED ns
    /\ UNCHANGED <<envVars, mods, known, zpid, rd, faults>>

UmountSbin ==
    /\ pc = "umountsbin"
    /\ mods' = [mods EXCEPT ![ns] = @ \ {"sbin"}]
    /\ pc' = "umountsystem"
    /\ UNCHANGED <<envVars, ns, known, zpid, rd, faults>>

\* The mounts to undo are those listed in /proc/<pid>/mounts.
UmountSystem ==
    /\ pc = "umountsystem"
    /\ \/ /\ Alive(pid)
          /\ mods' = [mods EXCEPT ![ns] = @ \ (mods[NsOf(pid)] \cap {"system"})]
       \/ /\ ~Alive(pid)
          /\ UNCHANGED mods
    /\ pc' = "resume"
    /\ UNCHANGED <<envVars, ns, known, zpid, rd, faults>>

\* Mutant: nothing continues the process.
ResumeNot ==
    /\ pc = "resume"
    /\ pc' = "loop"
    /\ UNCHANGED <<app, zyg, log, restarts, deaths, mods, ns, known, zpid, rd, faults>>

Resume ==
    /\ pc = "resume"
    /\ Signal(FALSE)
    /\ pc' = "loop"
    /\ UNCHANGED <<zyg, log, restarts, deaths, mods, ns, known, zpid, rd, faults>>

\* logcat ends and the shell starts it again: it prints the buffer anew.
RestartLogcat ==
    /\ pc = "loop" /\ faults < MaxFaults
    /\ rd' = 0
    /\ faults' = faults + 1
    /\ UNCHANGED <<envVars, mods, pc, ns, known, zpid>>

\* Mutant: the new logcat prints only what is logged from then on.
KillFromNow ==
    /\ faults < MaxFaults
    /\ pc' = "cover" /\ ns' = InitNs /\ zpid' = 0 /\ rd' = Len(log)
    /\ known' = [z \in Zygotes |-> NoNs]
    /\ faults' = faults + 1
    /\ UNCHANGED <<envVars, mods>>

\* The service is killed, and started again by init in its own namespace.
Kill ==
    /\ faults < MaxFaults
    /\ pc' = "cover" /\ ns' = InitNs /\ zpid' = 0 /\ rd' = 0
    /\ known' = [z \in Zygotes |-> NoNs]
    /\ faults' = faults + 1
    /\ UNCHANGED <<envVars, mods>>

Daemon ==
    \/ CoverInit
    \/ FindZygote("zygote", "findzygote", "prepare")
    \/ ReadZygoteNs("zygote", "prepare", "enterzygote")
    \/ EnterZygoteNs("zygote", "enterzygote", "findzygote64")
    \/ FindZygote("zygote64", "findzygote64", "prepare64")
    \/ ReadZygoteNs("zygote64", "prepare64", "enterzygote64")
    \/ EnterZygoteNs("zygote64", "enterzygote64", "loop")
    \/ GiveUpZygote64
    \/ SkipEvent \/ StopListed \/ CheckRunning \/ Poll \/ StopAgain
    \/ EnterNs \/ UmountSbin \/ UmountSystem \/ Resume

Next == Environment \/ Daemon \/ RestartLogcat \/ Kill

(***************************************************************************)
(* The service is ready to run whenever it is not asleep for some          *)
(* milliseconds.  A zygote starts and leaves init's namespace; a start is  *)
(* logged; and an application that is let run for 20 microseconds again    *)
(* and again reaches its own namespace in the end.                         *)
(***************************************************************************)
Fairness ==
    /\ WF_vars(Daemon)
    /\ \A z \in Present : WF_vars(StartZygote(z)) /\ WF_vars(UnshareZygote(z))
    /\ \A p \in Apps : WF_vars(LogStart(p)) /\ SF_vars(UnshareApp(p))

Spec == Init /\ [][Next]_vars /\ Fairness

-----------------------------------------------------------------------------
(***************************************************************************)
(* DetachesOnlyFromListed: the only namespaces that ever lose a mount are  *)
(* the own ones of listed applications.  Were the cover taken from a       *)
(* zygote's namespace instead, every application started later would find  *)
(* the bare /sbin: the process has "own mount namespace" when hidesu       *)
(* enters it ("check that process is running and wait untit it has own     *)
(* mount namespace").                                                      *)
(***************************************************************************)
DetachesOnlyFromListed ==
    [][\A n \in Namespaces \ {AppNs(p) : p \in Listed} : mods[n] \subseteq mods'[n]]_vars

(***************************************************************************)
(* FrozenWhileDetaching: an application never runs between the first and   *)
(* the last mount it loses: it is stopped, or has died, from before it     *)
(* loses one until it has lost all.                                        *)
(***************************************************************************)
FrozenWhileDetaching ==
    \A p \in Apps :
       (pc = "umountsystem" /\ ns = AppNs(p)) => (app[p].stopped \/ ~Alive(p))

(***************************************************************************)
(* HiddenOnceHandled: when hidesu has gone on to the next event, the       *)
(* listed application it handled has none of the mounts, and gets none     *)
(* later, however it and its zygote were scheduled in the meantime.        *)
(***************************************************************************)
HiddenOnceHandled ==
    \A i \in 1 .. rd :
       LET p == log[i]
       IN  (p \in Listed /\ app[p].st = "own" /\ (i < rd \/ pc = "loop"))
              => mods[AppNs(p)] = {}

\* The event of p is being handled, or is one hidesu has still to read.
Ahead(p) ==
    \E i \in 1 .. Len(log) : log[i] = p /\ (rd < i \/ (rd = i /\ pc # "loop"))

(***************************************************************************)
(* StoppedIsAhead: hidesu leaves no application behind that it has         *)
(* stopped: the event of a stopped one is the event being handled or one   *)
(* that is still to be read, also after hidesu was killed and started      *)
(* again, and whatever died in the meantime.  Only therefore can the       *)
(* SIGCONT at the end of disableSu reach every process that got SIGSTOP.   *)
(***************************************************************************)
StoppedIsAhead ==
    \A p \in Apps : app[p].stopped => p \in Listed /\ Ahead(p)

(***************************************************************************)
(* EventsHandled: hidesu handles every event, also when it or logcat is    *)
(* started again: no event can keep it from the ones that follow.          *)
(***************************************************************************)
EventsHandled == <>[](pc = "loop" /\ rd = Len(log))

(***************************************************************************)
(* StoppedIsContinued: an application hidesu has stopped is continued in   *)
(* the end, also when the service is killed while it is stopped.           *)
(***************************************************************************)
StoppedIsContinued == \A p \in Apps : app[p].stopped ~> ~app[p].stopped
=============================================================================
