---------------------------- MODULE HideSuProofs ----------------------------
(***************************************************************************)
(* Proofs of the safety of hidesu, for any applications and zygotes, any   *)
(* number of deaths and restarts of these, of kills of the service, of     *)
(* restarts of logcat and of covers that fail, with a zygote64 that comes  *)
(* in time or late.                                                        *)
(***************************************************************************)
EXTENDS HideSu, TLAPS

PreparingStages == {"prepare", "enterzygote", "prepare64", "enterzygote64"}
HandlingStages  == {"check", "poll", "continued", "enter", "umountsbin", "umountsystem",
                    "resume"}
LoopStages      == HandlingStages \cup {"loop"}
FrozenStages    == {"check", "poll", "enter", "umountsbin", "umountsystem"}
InsideStages    == {"umountsbin", "umountsystem"}

\* A zygote has an incarnation once it was started.
ZygotesOK ==
    \A z \in Zygotes : /\ zyg[z].st = "off" => zyg[z].gen = 0
                       /\ zyg[z].st # "off" => zyg[z].gen \in 1 .. restarts + 1

\* A living application is one of the present incarnation of its zygote, which
\* has left init's namespace.
AppsOK ==
    \A p \in Apps : /\ app[p].st # "none" => app[p].gen \in Incarnations
                    /\ Alive(p) => zyg[Parent[p]] = [st |-> "ready", gen |-> app[p].gen]

\* Events are about processes that were started; while the service sets the
\* zygotes up it has read none, and while it handles one that is a listed one.
EventsOK ==
    /\ \A i \in 1 .. Len(log) : app[log[i]].st # "none"
    /\ pc \in PreparingStages => zpid \in Incarnations
    /\ pc \notin LoopStages => rd = 0
    /\ pc \in HandlingStages => rd \in 1 .. Len(log)

TypeInv == TypeOK /\ ZygotesOK /\ AppsOK /\ EventsOK

\* The process of the event is stopped for as long as the service counts on it.
Frozen == (pc \in FrozenStages /\ Alive(pid)) => app[pid].stopped

\* The service is in the namespace the process has, or had when it was alive.
Inside ==
    pc \in InsideStages =>
        /\ ns \in {AppNs(pid), ZygoteNs(Parent[pid], app[pid].gen)}
        /\ Alive(pid) => ns = NsOf(pid)

\* Half of the work: the cover is gone, the mounts on /system are there yet.
SbinGone == (pc = "umountsystem" /\ Alive(pid)) => "sbin" \notin mods[NsOf(pid)]

\* A process that was handled has none of the mounts in the namespace it is in,
\* which, if that is its zygote's, it will take a copy of.
Hidden ==
    \A i \in 1 .. rd :
       (log[i] \in Listed /\ Alive(log[i]) /\ (i < rd \/ pc \in {"loop", "resume"}))
          => mods[NsOf(log[i])] = {}

HideInv == TypeInv /\ Frozen /\ Inside /\ SbinGone /\ Hidden

-----------------------------------------------------------------------------
(***************************************************************************)
(* The steps of the service, and what they leave alone.                    *)
(***************************************************************************)
AppType == [Apps -> [st : {"none", "forked", "own", "dead"},
                     gen : 0 .. MaxRestarts + 1, stopped : BOOLEAN]]

ZygoteType == [st : {"off", "starting", "ready"}, gen : 0 .. MaxRestarts + 1]

SameLives == \A p \in Apps : app'[p].st = app[p].st /\ app'[p].gen = app[p].gen

Service == Daemon \/ RestartLogcat \/ Kill

\* Steps of the service that signal a process.
Signals == StopListed \/ Poll \/ StopAgain \/ Resume

LEMMA ServiceKeepsEnvironment ==
  ASSUME TypeInv, Service
  PROVE  UNCHANGED <<zyg, log, restarts, deaths>> /\ app' \in AppType /\ SameLives
<1>1. UNCHANGED <<zyg, log, restarts, deaths>>
  BY DEF Service, Daemon, RestartLogcat, Kill, CoverInit, FindZygote, ReadZygoteNs,
     EnterZygoteNs, GiveUpZygote64, SkipEvent, StopListed, CheckRunning, Poll, StopAgain,
     EnterNs, UmountSbin, UmountSystem, Resume, envVars
<1>2. \/ UNCHANGED app
      \/ \E p \in Apps, b \in BOOLEAN : app' = [app EXCEPT ![p].stopped = b]
  <2>1. CASE Signals
    <3>1. rd \in Nat /\ Len(log) \in Nat /\ \A i \in 1 .. Len(log) : log[i] \in Apps
      BY DEF TypeInv, TypeOK
    <3>2. CASE StopListed
      <4>1. rd + 1 \in 1 .. Len(log)
        BY <3>1, <3>2 DEF StopListed
      <4>2. log[rd + 1] \in Apps /\ Alive(log[rd + 1]) \in BOOLEAN
        BY <3>1, <4>1 DEF Alive
      <4>3. QED
        BY <3>2, <4>2 DEF StopListed
    <3>3. CASE Poll \/ StopAgain \/ Resume
      <4>1. pid \in Apps
        BY <3>1, <3>3 DEF Poll, StopAgain, Resume, pid, TypeInv, EventsOK, HandlingStages
      <4>2. UNCHANGED app \/ Signal(TRUE) \/ Signal(FALSE)
        BY <3>3 DEF Poll, StopAgain, Resume
      <4>3. (TRUE /\ Alive(pid)) \in BOOLEAN /\ (FALSE /\ Alive(pid)) \in BOOLEAN
        OBVIOUS
      <4>4. QED
        BY <4>1, <4>2, <4>3 DEF Signal
    <3>4. QED
      BY <2>1, <3>2, <3>3 DEF Signals
  <2>2. CASE ~Signals
    BY <2>2 DEF Signals, Service, Daemon, RestartLogcat, Kill, CoverInit, FindZygote,
       ReadZygoteNs, EnterZygoteNs, GiveUpZygote64, SkipEvent, CheckRunning, EnterNs,
       UmountSbin, UmountSystem, envVars
  <2>3. QED
    BY <2>1, <2>2
<1>3. app \in AppType
  BY DEF TypeInv, TypeOK, AppType
<1>4. QED
  BY <1>1, <1>2, <1>3 DEF AppType, SameLives

-----------------------------------------------------------------------------
(***************************************************************************)
(* Every step keeps the types and the histories of zygotes, applications   *)
(* and events.                                                             *)
(***************************************************************************)
LEMMA TypeInvInit == Init => TypeInv
<1> SUFFICES ASSUME Init PROVE TypeInv
  OBVIOUS
<1> USE HideSuAssumption DEF Init
<1>1. TypeOK
  <2>1. mods \in [Namespaces -> SUBSET {"sbin", "system"}]
    BY DEF InitNs
  <2>2. InitNs \in Namespaces /\ pc \in Stages /\ log \in Seq(Apps) /\ Len(log) = 0
    BY DEF Namespaces, SharedNs, Stages
  <2>3. QED
    BY <2>1, <2>2 DEF TypeOK
<1>2. ZygotesOK /\ AppsOK
  BY DEF ZygotesOK, AppsOK, Alive
<1>3. EventsOK
  BY DEF EventsOK, PreparingStages, LoopStages, HandlingStages
<1>4. QED
  BY <1>1, <1>2, <1>3 DEF TypeInv

LEMMA EnvironmentTypes ==
  ASSUME TypeInv, Environment
  PROVE  TypeOK' /\ ZygotesOK'
<1> USE HideSuAssumption
<1>1. \A z \in Zygotes, g \in Nat : ZygoteNs(z, g) \in Zygotes \X Nat
  BY DEF ZygoteNs
<1>2. \A n \in Namespaces, m \in SUBSET {"sbin", "system"} :
         [mods EXCEPT ![n] = m] \in [Namespaces -> SUBSET {"sbin", "system"}]
  BY DEF TypeInv, TypeOK
<1>3. \A n : [mods EXCEPT ![n] = mods[InitNs]] \in [Namespaces -> SUBSET {"sbin", "system"}]
  BY DEF TypeInv, TypeOK, Namespaces, SharedNs
<1>4. \A p \in Apps : app[p].st # "none" => NsOf(p) \in Namespaces
  BY DEF TypeInv, AppsOK, NsOf, Namespaces, SharedNs, ZygoteNs, AppNs
<1>5. \A p \in Apps : app[p].st # "none" => mods[NsOf(p)] \in SUBSET {"sbin", "system"}
  BY <1>4 DEF TypeInv, TypeOK
<1>6. ASSUME NEW z \in Zygotes, StartZygote(z) \/ UnshareZygote(z)
      PROVE  TypeOK' /\ ZygotesOK'
  <2>1. PICK r \in ZygoteType : /\ zyg' = [zyg EXCEPT ![z] = r] /\ r.st # "off"
                               /\ r.gen \in 1 .. restarts + 1
    <3>1. CASE StartZygote(z)
      <4> DEFINE r == [st |-> "starting", gen |-> 1]
      <4>1. r \in ZygoteType /\ r.st # "off" /\ r.gen \in 1 .. restarts + 1
        BY DEF ZygoteType, TypeInv, TypeOK
      <4>2. zyg' = [zyg EXCEPT ![z] = r]
        BY <3>1 DEF StartZygote
      <4>3. QED
        BY <4>1, <4>2
    <3>2. CASE UnshareZygote(z)
      <4>1. [zyg[z] EXCEPT !.st = "ready"] \in ZygoteType
        BY DEF ZygoteType, TypeInv, TypeOK
      <4>2. zyg[z].gen \in 1 .. restarts + 1
        BY <3>2 DEF UnshareZygote, TypeInv, ZygotesOK
      <4>3. QED
        BY <3>2, <4>1, <4>2 DEF UnshareZygote, ZygoteType, TypeInv, TypeOK
    <3>3. QED
      BY <1>6, <3>1, <3>2
  <2>2. UNCHANGED <<app, log, restarts, deaths>> /\ UNCHANGED daemonVars
        /\ mods' \in [Namespaces -> SUBSET {"sbin", "system"}]
    <3>1. CASE StartZygote(z)
      BY <3>1 DEF StartZygote, TypeInv, TypeOK
    <3>2. CASE UnshareZygote(z)
      BY <3>2, <1>3 DEF UnshareZygote
    <3>3. QED
      BY <1>6, <3>1, <3>2
  <2>3. zyg' \in [Zygotes -> ZygoteType] /\ ZygotesOK'
    BY <2>1, <2>2 DEF TypeInv, TypeOK, ZygotesOK, ZygoteType
  <2>4. QED
    BY <2>2, <2>3 DEF TypeInv, TypeOK, ZygoteType, daemonVars
<1>7. ASSUME NEW z \in Zygotes, RestartZygote(z)
      PROVE  TypeOK' /\ ZygotesOK'
  <2>1. zyg[z].gen \in 1 .. restarts + 1 /\ restarts < MaxRestarts
    BY <1>7 DEF RestartZygote, TypeInv, ZygotesOK
  <2>2. /\ zyg' \in [Zygotes -> ZygoteType]
        /\ restarts' \in 0 .. MaxRestarts
        /\ ZygotesOK'
    <3>1. [st |-> "starting", gen |-> zyg[z].gen + 1] \in ZygoteType
      BY <2>1 DEF ZygoteType, TypeInv, TypeOK
    <3>2. zyg' = [zyg EXCEPT ![z] = [st |-> "starting", gen |-> zyg[z].gen + 1]]
          /\ restarts' = restarts + 1
      BY <1>7 DEF RestartZygote
    <3>3. QED
      BY <2>1, <3>1, <3>2 DEF ZygoteType, TypeInv, TypeOK, ZygotesOK
  <2>3. app' \in AppType
    <3>1. \A p \in Apps :
             [app[p] EXCEPT !.st = "dead", !.stopped = FALSE]
                \in [st : {"none", "forked", "own", "dead"},
                     gen : 0 .. MaxRestarts + 1, stopped : BOOLEAN]
      BY DEF TypeInv, TypeOK
    <3>2. QED
      BY <1>7, <3>1 DEF RestartZygote, TypeInv, TypeOK, AppType
  <2>4. QED
    BY <1>7, <2>2, <2>3 DEF RestartZygote, TypeInv, TypeOK, AppType, ZygoteType, daemonVars
<1>8. ASSUME NEW p \in Apps, ForkApp(p) \/ AppDies(p)
      PROVE  TypeOK' /\ ZygotesOK'
  <2>1. app' \in AppType
    <3>1. CASE ForkApp(p)
      <4>1. [st |-> "forked", gen |-> zyg[Parent[p]].gen, stopped |-> FALSE]
               \in [st : {"none", "forked", "own", "dead"},
                    gen : 0 .. MaxRestarts + 1, stopped : BOOLEAN]
        BY DEF TypeInv, TypeOK
      <4>2. QED
        BY <3>1, <4>1 DEF ForkApp, TypeInv, TypeOK, AppType
    <3>2. CASE AppDies(p)
      BY <3>2 DEF AppDies, TypeInv, TypeOK, AppType
    <3>3. QED
      BY <1>8, <3>1, <3>2
  <2>2. UNCHANGED <<zyg, log, restarts, mods>> /\ UNCHANGED daemonVars
        /\ deaths' \in 0 .. MaxDeaths
    BY <1>8 DEF ForkApp, AppDies, TypeInv, TypeOK
  <2>3. QED
    BY <2>1, <2>2 DEF TypeInv, TypeOK, ZygotesOK, AppType, daemonVars
<1>9. ASSUME NEW p \in Apps, UnshareApp(p)
      PROVE  TypeOK' /\ ZygotesOK'
  <2>1. app' \in AppType
    BY <1>9 DEF UnshareApp, TypeInv, TypeOK, AppType
  <2>2. AppNs(p) \in Namespaces /\ app[p].st # "none"
    BY <1>9 DEF Namespaces, UnshareApp
  <2>3. mods' \in [Namespaces -> SUBSET {"sbin", "system"}]
    BY <1>2, <1>5, <1>9, <2>2 DEF UnshareApp
  <2>4. QED
    BY <1>9, <2>1, <2>3 DEF UnshareApp, TypeInv, TypeOK, ZygotesOK, AppType, daemonVars
<1>10. ASSUME NEW p \in Apps, LogStart(p)
       PROVE  TypeOK' /\ ZygotesOK'
  BY <1>10 DEF LogStart, TypeInv, TypeOK, ZygotesOK, daemonVars
<1>11. QED
  BY <1>6, <1>7, <1>8, <1>9, <1>10 DEF Environment

LEMMA ServiceTypes ==
  ASSUME TypeInv, Service
  PROVE  TypeOK' /\ EventsOK'
<1> USE HideSuAssumption
<1>1. UNCHANGED <<zyg, log, restarts, deaths>> /\ app' \in AppType /\ SameLives
  BY ServiceKeepsEnvironment
<1>2. \A i \in 1 .. Len(log') : app'[log'[i]].st # "none"
  <2>1. \A i \in 1 .. Len(log) : log[i] \in Apps /\ app[log[i]].st # "none"
    BY DEF TypeInv, TypeOK, EventsOK
  <2>2. QED
    BY <1>1, <2>1 DEF SameLives
<1> DEFINE Typed ==
        /\ mods' \in [Namespaces -> SUBSET {"sbin", "system"}]
        /\ pc' \in Stages /\ ns' \in Namespaces
        /\ known' \in [Zygotes -> SharedNs \cup {NoNs}]
        /\ zpid' \in 0 .. MaxRestarts + 1
        /\ rd' \in 0 .. Len(log)
        /\ faults' \in 0 .. MaxFaults
        /\ pc' \in PreparingStages => zpid' \in Incarnations
        /\ pc' \notin LoopStages => rd' = 0
        /\ pc' \in HandlingStages => rd' \in 1 .. Len(log)
<1>3. SUFFICES Typed
  BY <1>1, <1>2 DEF TypeInv, TypeOK, EventsOK, AppType
<1> USE DEF PreparingStages, LoopStages, HandlingStages, Stages
<1>4. /\ mods \in [Namespaces -> SUBSET {"sbin", "system"}]
      /\ pc \in Stages /\ ns \in Namespaces
      /\ known \in [Zygotes -> SharedNs \cup {NoNs}]
      /\ zpid \in 0 .. MaxRestarts + 1
      /\ rd \in 0 .. Len(log) /\ Len(log) \in Nat
      /\ faults \in 0 .. MaxFaults
      /\ pc \in PreparingStages => zpid \in Incarnations
      /\ pc \notin LoopStages => rd = 0
      /\ pc \in HandlingStages => rd \in 1 .. Len(log)
  BY DEF TypeInv, TypeOK, EventsOK
<1>5. \A n \in Namespaces, m \in SUBSET {"sbin", "system"} :
         [mods EXCEPT ![n] = m] \in [Namespaces -> SUBSET {"sbin", "system"}]
  BY <1>4
<1>6. InitNs \in Namespaces
  BY DEF Namespaces, SharedNs
<1>7. \A z \in Zygotes : zpid \in Incarnations => ZygoteNs(z, zpid) \in Namespaces
  BY DEF Namespaces, SharedNs, ZygoteNs
<1>8. CASE CoverInit
  <2>1. mods[InitNs] \cup {"sbin"} \in SUBSET {"sbin", "system"}
    BY <1>4, <1>6
  <2>2. QED
    BY <1>4, <1>5, <1>6, <1>8, <2>1 DEF CoverInit
<1>9. ASSUME NEW z \in Zygotes, NEW from \in {"findzygote", "findzygote64"},
             NEW to \in {"prepare", "prepare64"}, FindZygote(z, from, to)
      PROVE  Typed
  <2>1. zyg[z].gen \in Incarnations /\ zyg[z].gen \in 0 .. MaxRestarts + 1
    BY <1>9 DEF FindZygote, TypeInv, ZygotesOK, TypeOK, Incarnations
  <2>2. QED
    BY <1>4, <1>9, <2>1 DEF FindZygote
<1>10. ASSUME NEW z \in Zygotes, NEW from \in {"prepare", "prepare64"},
              NEW to \in {"enterzygote", "enterzygote64"}, ReadZygoteNs(z, from, to)
       PROVE  Typed
  <2>1. ZygoteNs(z, zpid) \in SharedNs
    BY <1>4, <1>10 DEF ReadZygoteNs, SharedNs, ZygoteNs
  <2>2. QED
    BY <1>4, <1>10, <2>1 DEF ReadZygoteNs
<1>11. ASSUME NEW z \in Zygotes, NEW from \in {"enterzygote", "enterzygote64"},
              NEW to \in {"findzygote64", "loop"}, EnterZygoteNs(z, from, to)
       PROVE  Typed
  <2>1. ZygoteNs(z, zpid) \in Namespaces
    BY <1>4, <1>7, <1>11 DEF EnterZygoteNs
  <2>2. mods[ZygoteNs(z, zpid)] \cup {"sbin"} \in SUBSET {"sbin", "system"}
    BY <1>4, <2>1
  <2>3. mods' \in [Namespaces -> SUBSET {"sbin", "system"}]
    BY <1>4, <1>5, <1>11, <2>1, <2>2 DEF EnterZygoteNs
  <2>4. QED
    BY <1>4, <1>11, <2>1, <2>3 DEF EnterZygoteNs
<1>12. CASE GiveUpZygote64
  BY <1>4, <1>12 DEF GiveUpZygote64
<1>13. CASE SkipEvent \/ StopListed \/ CheckRunning
  BY <1>4, <1>13 DEF SkipEvent, StopListed, CheckRunning
<1>14. CASE Poll \/ StopAgain \/ Resume
  BY <1>4, <1>14 DEF Poll, StopAgain, Resume
<1>15. CASE EnterNs
  <2>1. pid \in Apps
    BY <1>4, <1>15 DEF EnterNs, pid, TypeInv, TypeOK
  <2>2. Alive(pid) => NsOf(pid) \in Namespaces
    BY <2>1 DEF Alive, NsOf, TypeInv, AppsOK, Namespaces, SharedNs, ZygoteNs, AppNs, TypeOK
  <2>3. QED
    BY <1>4, <1>15, <2>2 DEF EnterNs
<1>16. CASE UmountSbin
  <2>1. mods[ns] \ {"sbin"} \in SUBSET {"sbin", "system"}
    BY <1>4
  <2>2. QED
    BY <1>4, <1>5, <1>16, <2>1 DEF UmountSbin
<1>17. CASE UmountSystem
  <2>1. mods[ns] \ (mods[NsOf(pid)] \cap {"system"}) \in SUBSET {"sbin", "system"}
    BY <1>4
  <2>2. QED
    BY <1>4, <1>5, <1>17, <2>1 DEF UmountSystem
<1>18. CASE RestartLogcat \/ Kill
  BY <1>4, <1>6, <1>18 DEF RestartLogcat, Kill
<1>19. QED
  BY <1>8, <1>9, <1>10, <1>11, <1>12, <1>13, <1>14, <1>15, <1>16, <1>17, <1>18
  DEF Service, Daemon, Zygotes

\* The application a step of the environment is about, and the rest.
LEMMA EnvironmentHistories ==
  ASSUME TypeInv, Environment
  PROVE  AppsOK' /\ EventsOK'
<1> USE HideSuAssumption
<1> DEFINE Started == \A p \in Apps : app[p].st # "none" => app'[p].st # "none"
           Numbered == \A p \in Apps : app'[p].st # "none" => app'[p].gen \in Incarnations
           OfItsZygote(p) == app'[p].st \in {"forked", "own"} =>
              zyg'[Parent[p]] = [st |-> "ready", gen |-> app'[p].gen]
           Lives == Started /\ Numbered /\ \A p \in Apps : OfItsZygote(p)
           Recorded == /\ Len(log') \in Nat /\ Len(log) <= Len(log')
                       /\ \A i \in 1 .. Len(log') :
                             log'[i] \in Apps /\ app'[log'[i]].st # "none"
<1>1. UNCHANGED <<pc, ns, known, zpid, rd, faults>>
  BY DEF Environment, StartZygote, UnshareZygote, RestartZygote, ForkApp, UnshareApp,
     LogStart, AppDies, daemonVars
<1>2. /\ \A p \in Apps : Parent[p] \in Zygotes
      /\ zyg \in [Zygotes -> ZygoteType] /\ app \in AppType
      /\ log \in Seq(Apps)
  BY DEF TypeInv, TypeOK, ZygoteType, AppType
<1>3. /\ Len(log) \in Nat
      /\ \A i \in 1 .. Len(log) : log[i] \in Apps /\ app[log[i]].st # "none"
  BY <1>2 DEF TypeInv, EventsOK
<1>4. \A p \in Apps :
         /\ app[p].st # "none" => app[p].gen \in Incarnations
         /\ app[p].st \in {"forked", "own"} =>
              /\ zyg[Parent[p]] = [st |-> "ready", gen |-> app[p].gen]
              /\ zyg[Parent[p]].st = "ready"
  <2>1. \A p \in Apps :
           /\ app[p].st # "none" => app[p].gen \in Incarnations
           /\ app[p].st \in {"forked", "own"} =>
                zyg[Parent[p]] = [st |-> "ready", gen |-> app[p].gen]
    BY DEF TypeInv, AppsOK, Alive
  <2>2. \A r, g : r = [st |-> "ready", gen |-> g] => r.st = "ready"
    OBVIOUS
  <2>3. QED
    BY <2>1, <2>2
<1>5. Lives
  <2>1. ASSUME NEW z \in Zygotes, StartZygote(z) \/ UnshareZygote(z)
        PROVE  Lives
    <3>1. zyg[z].st # "ready" /\ UNCHANGED app
          /\ \A y \in Zygotes : y # z => zyg'[y] = zyg[y]
      BY <1>2, <2>1 DEF StartZygote, UnshareZygote
    <3>2. \A p \in Apps : OfItsZygote(p)
      BY <1>2, <1>4, <3>1
    <3>3. QED
      BY <1>4, <3>1, <3>2
  <2>2. ASSUME NEW z \in Zygotes, RestartZygote(z)
        PROVE  Lives
    <3>1. \A y \in Zygotes : y # z => zyg'[y] = zyg[y]
      BY <1>2, <2>2 DEF RestartZygote
    <3>2. \A p \in Apps :
             IF Parent[p] = z /\ app[p].st \in {"forked", "own"}
             THEN app'[p].st = "dead" /\ app'[p].gen = app[p].gen
             ELSE app'[p] = app[p]
      BY <1>2, <2>2 DEF RestartZygote, AppType
    <3>3. \A p \in Apps : OfItsZygote(p)
      BY <1>2, <1>4, <3>1, <3>2
    <3>4. Started /\ Numbered
      BY <1>4, <3>2
    <3>5. QED
      BY <3>3, <3>4
  <2>3. ASSUME NEW q \in Apps, ForkApp(q)
        PROVE  Lives
    <3>1. UNCHANGED zyg /\ zyg[Parent[q]].st = "ready"
      BY <2>3 DEF ForkApp
    <3>2. /\ app'[q].st = "forked" /\ app'[q].gen = zyg[Parent[q]].gen
          /\ \A p \in Apps : p # q => app'[p] = app[p]
      BY <1>2, <2>3 DEF ForkApp, AppType
    <3>3. zyg[Parent[q]].gen \in Incarnations
      BY <1>2, <3>1 DEF TypeInv, TypeOK, ZygotesOK, Incarnations
    <3>4. zyg[Parent[q]] = [st |-> "ready", gen |-> zyg[Parent[q]].gen]
      BY <1>2, <3>1 DEF ZygoteType
    <3>5. \A p \in Apps : OfItsZygote(p)
      BY <1>4, <3>1, <3>2, <3>4
    <3>6. QED
      BY <1>4, <3>2, <3>3, <3>5
  <2>4. ASSUME NEW q \in Apps, UnshareApp(q) \/ AppDies(q)
        PROVE  Lives
    <3>1. UNCHANGED zyg /\ app[q].st \in {"forked", "own"}
      BY <2>4 DEF UnshareApp, AppDies
    <3>2. /\ app'[q].st \in {"own", "dead"} /\ app'[q].gen = app[q].gen
          /\ \A p \in Apps : p # q => app'[p] = app[p]
      BY <1>2, <2>4 DEF UnshareApp, AppDies, AppType
    <3>3. \A p \in Apps : OfItsZygote(p)
      BY <1>4, <3>1, <3>2
    <3>4. QED
      BY <1>4, <3>1, <3>2, <3>3
  <2>5. ASSUME NEW q \in Apps, LogStart(q)
        PROVE  Lives
    BY <1>4, <2>5 DEF LogStart
  <2>6. QED
    BY <2>1, <2>2, <2>3, <2>4, <2>5 DEF Environment
<1>6. AppsOK'
  BY <1>5 DEF AppsOK, Alive
<1>7. Recorded
  <2>1. CASE UNCHANGED log
    <3>1. Len(log') \in Nat /\ Len(log) <= Len(log')
      BY <1>3, <2>1
    <3>2. ASSUME NEW i \in 1 .. Len(log')
          PROVE  log'[i] \in Apps /\ app'[log'[i]].st # "none"
      BY <1>3, <1>5, <2>1
    <3>3. QED
      BY <3>1, <3>2
  <2>2. ASSUME NEW q \in Apps, LogStart(q)
        PROVE  Recorded
    <3>1. app[q].st # "none" /\ log' = Append(log, q) /\ UNCHANGED app
      BY <2>2 DEF LogStart
    <3>2. QED
      BY <1>2, <1>3, <3>1
  <2>3. QED
    BY <2>1, <2>2 DEF Environment, StartZygote, UnshareZygote, RestartZygote, ForkApp,
       UnshareApp, AppDies
<1>8. EventsOK'
  BY <1>1, <1>2, <1>3, <1>7 DEF TypeInv, EventsOK
<1>9. QED
  BY <1>6, <1>8

LEMMA TypeInvStep == TypeInv /\ [Next]_vars => TypeInv'
<1> SUFFICES ASSUME TypeInv, [Next]_vars PROVE TypeInv'
  OBVIOUS
<1>1. CASE Environment
  BY <1>1, EnvironmentTypes, EnvironmentHistories DEF TypeInv
<1>2. CASE Service
  <2>1. UNCHANGED <<zyg, log, restarts, deaths>> /\ SameLives
    BY <1>2, ServiceKeepsEnvironment
  <2>2. ZygotesOK' /\ AppsOK'
    BY <2>1 DEF TypeInv, ZygotesOK, AppsOK, SameLives, Alive
  <2>3. QED
    BY <1>2, <2>2, ServiceTypes DEF TypeInv
<1>3. CASE UNCHANGED vars
  BY <1>3 DEF TypeInv, TypeOK, ZygotesOK, AppsOK, EventsOK, Alive, vars, envVars, daemonVars
<1>4. QED
  BY <1>1, <1>2, <1>3 DEF Next, Service

(***************************************************************************)
(* The service and what runs beside it keep their types; an event it       *)
(* handles is there, and the zygote it looks up was started.               *)
(***************************************************************************)
THEOREM HideSuTypeCorrect == Spec => []TypeOK
<1>1. TypeInv => TypeOK
  BY DEF TypeInv
<1>2. QED
  BY TypeInvInit, TypeInvStep, <1>1, PTL DEF Spec

-----------------------------------------------------------------------------
(***************************************************************************)
(* What a step of the environment can do to an application that was        *)
(* started: it dies, or goes from its zygote's namespace to a copy of it   *)
(* unless it is stopped.  A zygote that leaves init's namespace has no     *)
(* living applications yet.                                                *)
(***************************************************************************)
LEMMA EnvironmentSteps ==
  ASSUME TypeInv, Environment, NEW p \in Apps, app[p].st # "none"
  PROVE  /\ app'[p].gen = app[p].gen
         /\ Alive(p)' => /\ Alive(p) /\ app'[p].stopped = app[p].stopped
                         /\ mods'[NsOf(p)'] = mods[NsOf(p)]
                         /\ app[p].stopped => NsOf(p)' = NsOf(p)
<1> USE HideSuAssumption
<1> DEFINE Kept == /\ app'[p].gen = app[p].gen
                   /\ Alive(p)' => /\ Alive(p) /\ app'[p].stopped = app[p].stopped
                                   /\ mods'[NsOf(p)'] = mods[NsOf(p)]
                                   /\ app[p].stopped => NsOf(p)' = NsOf(p)
<1>1. /\ Parent[p] \in Zygotes /\ app \in AppType
      /\ mods \in [Namespaces -> SUBSET {"sbin", "system"}]
  BY DEF TypeInv, TypeOK, AppType
<1>2. Alive(p) => zyg[Parent[p]].st = "ready" /\ zyg[Parent[p]].gen = app[p].gen
  <2>1. Alive(p) => zyg[Parent[p]] = [st |-> "ready", gen |-> app[p].gen]
    BY DEF TypeInv, AppsOK
  <2>2. \A r, g : r = [st |-> "ready", gen |-> g] => r.st = "ready" /\ r.gen = g
    OBVIOUS
  <2>3. QED
    BY <2>1, <2>2
<1>3. ASSUME UNCHANGED mods, UNCHANGED app[p]
      PROVE  Kept
  BY <1>3 DEF Alive, NsOf
<1>4. ASSUME NEW z \in Zygotes, StartZygote(z)
      PROVE  Kept
  BY <1>3, <1>4 DEF StartZygote
<1>5. ASSUME NEW z \in Zygotes, UnshareZygote(z)
      PROVE  Kept
  <2>1. UNCHANGED app /\ zyg[z].st = "starting"
        /\ mods' = [mods EXCEPT ![ZygoteNs(z, zyg[z].gen)] = mods[InitNs]]
    BY <1>5 DEF UnshareZygote
  <2>2. Alive(p) => NsOf(p) # ZygoteNs(z, zyg[z].gen)
    BY <1>1, <1>2, <2>1 DEF NsOf, ZygoteNs, AppNs, Zygotes
  <2>3. Alive(p) => NsOf(p) \in Namespaces
    BY <1>1 DEF TypeInv, AppsOK, NsOf, Alive, Namespaces, SharedNs, ZygoteNs, AppNs
  <2>4. Alive(p) => mods'[NsOf(p)] = mods[NsOf(p)]
    BY <1>1, <2>1, <2>2, <2>3
  <2>5. Alive(p)' <=> Alive(p)
    BY <2>1 DEF Alive
  <2>6. NsOf(p)' = NsOf(p)
    BY <2>1 DEF NsOf
  <2>7. QED
    BY <2>1, <2>4, <2>5, <2>6
<1>6. ASSUME NEW z \in Zygotes, RestartZygote(z)
      PROVE  Kept
  <2>1. UNCHANGED mods
        /\ IF Parent[p] = z /\ app[p].st \in {"forked", "own"}
           THEN app'[p].st = "dead" /\ app'[p].gen = app[p].gen
           ELSE app'[p] = app[p]
    BY <1>1, <1>6 DEF RestartZygote, AppType
  <2>2. QED
    BY <1>3, <2>1 DEF Alive
<1>7. ASSUME NEW q \in Apps, ForkApp(q) \/ LogStart(q)
      PROVE  Kept
  <2>1. UNCHANGED mods /\ UNCHANGED app[p]
    BY <1>1, <1>7 DEF ForkApp, LogStart, AppType
  <2>2. QED
    BY <1>3, <2>1
<1>8. ASSUME NEW q \in Apps, AppDies(q)
      PROVE  Kept
  <2>1. UNCHANGED mods /\ (q # p => UNCHANGED app[p])
        /\ (q = p => app'[p].st = "dead" /\ app'[p].gen = app[p].gen)
    BY <1>1, <1>8 DEF AppDies, AppType
  <2>2. QED
    BY <1>3, <2>1 DEF Alive
<1>9. ASSUME NEW q \in Apps, UnshareApp(q)
      PROVE  Kept
  <2>1. /\ app[q].st = "forked" /\ ~app[q].stopped
        /\ app' = [app EXCEPT ![q].st = "own"]
        /\ mods' = [mods EXCEPT ![AppNs(q)] = mods[NsOf(q)]]
    BY <1>9 DEF UnshareApp
  <2>2. AppNs(q) \in Namespaces
    BY DEF Namespaces
  <2>3. CASE q = p
    <3>1. /\ app'[p].st = "own" /\ app'[p].gen = app[p].gen
          /\ app'[p].stopped = app[p].stopped
      BY <1>1, <2>1, <2>3 DEF AppType
    <3>2. NsOf(p)' = AppNs(p) /\ Alive(p)
      BY <2>1, <2>3, <3>1 DEF NsOf, Alive
    <3>3. mods'[AppNs(p)] = mods[NsOf(p)]
      BY <1>1, <2>1, <2>2, <2>3
    <3>4. QED
      BY <2>1, <2>3, <3>1, <3>2, <3>3
  <2>4. CASE q # p
    <3>1. app'[p] = app[p]
      BY <1>1, <2>1, <2>4 DEF AppType
    <3>2. (Alive(p)' <=> Alive(p)) /\ NsOf(p)' = NsOf(p)
      BY <3>1 DEF Alive, NsOf
    <3>3. NsOf(p) # AppNs(q)
      BY <1>1, <2>4 DEF NsOf, ZygoteNs, AppNs, Zygotes
    <3>4. Alive(p) => NsOf(p) \in Namespaces
      BY <1>1 DEF TypeInv, AppsOK, NsOf, Alive, Namespaces, SharedNs, ZygoteNs, AppNs
    <3>5. Alive(p) => mods'[NsOf(p)] = mods[NsOf(p)]
      BY <1>1, <2>1, <3>3, <3>4
    <3>6. QED
      BY <3>1, <3>2, <3>5
  <2>5. QED
    BY <2>3, <2>4
<1>10. QED
  BY <1>4, <1>5, <1>6, <1>7, <1>8, <1>9 DEF Environment

LEMMA HideInvInit == Init => HideInv
<1> SUFFICES ASSUME Init PROVE HideInv
  OBVIOUS
<1>1. Frozen /\ Inside /\ SbinGone
  BY DEF Init, Frozen, Inside, SbinGone, FrozenStages, InsideStages
<1>2. Hidden
  BY DEF Init, Hidden
<1>3. QED
  BY <1>1, <1>2, TypeInvInit DEF HideInv

LEMMA EnvironmentHides == HideInv /\ Environment => HideInv'
<1> SUFFICES ASSUME HideInv, Environment PROVE HideInv'
  OBVIOUS
<1>1. TypeInv /\ TypeInv'
  BY EnvironmentTypes, EnvironmentHistories DEF HideInv, TypeInv
<1>2. UNCHANGED <<pc, ns, rd>>
  BY DEF Environment, StartZygote, UnshareZygote, RestartZygote, ForkApp, UnshareApp,
     LogStart, AppDies, daemonVars
<1>3. \A i \in 1 .. Len(log) : /\ log'[i] = log[i] /\ log[i] \in Apps
                               /\ app[log[i]].st # "none"
  <2>1. log \in Seq(Apps) /\ \A i \in 1 .. Len(log) : app[log[i]].st # "none"
    BY <1>1 DEF TypeInv, TypeOK, EventsOK
  <2>2. log' = log \/ \E p \in Apps : log' = Append(log, p)
    BY DEF Environment, StartZygote, UnshareZygote, RestartZygote, ForkApp, UnshareApp,
       LogStart, AppDies
  <2>3. QED
    BY <2>1, <2>2
<1>4. rd \in 0 .. Len(log) /\ Len(log) \in Nat
  BY <1>1 DEF TypeInv, TypeOK
<1>5. ASSUME pc \in HandlingStages
      PROVE  /\ pid \in Apps /\ pid' = pid
             /\ app'[pid].gen = app[pid].gen
             /\ Alive(pid)' => /\ Alive(pid) /\ app'[pid].stopped = app[pid].stopped
                               /\ mods'[NsOf(pid)'] = mods[NsOf(pid)]
                               /\ app[pid].stopped => NsOf(pid)' = NsOf(pid)
  <2>1. rd \in 1 .. Len(log)
    BY <1>1, <1>5 DEF TypeInv, EventsOK
  <2>2. pid \in Apps /\ pid' = pid /\ app[pid].st # "none"
    BY <1>2, <1>3, <2>1 DEF pid
  <2>3. QED
    BY <1>1, <2>2, EnvironmentSteps DEF Alive, NsOf
<1>6. FrozenStages \subseteq HandlingStages /\ InsideStages \subseteq FrozenStages
      /\ "umountsystem" \in FrozenStages
  BY DEF FrozenStages, HandlingStages, InsideStages
<1>7. Frozen'
  BY <1>2, <1>5, <1>6 DEF HideInv, Frozen, Alive
<1>8. Inside'
  BY <1>2, <1>5, <1>6 DEF HideInv, Inside, Frozen, Alive, NsOf
<1>9. SbinGone'
  BY <1>2, <1>5, <1>6 DEF HideInv, SbinGone, Alive, NsOf
<1>10. Hidden'
  <2> SUFFICES ASSUME NEW i \in 1 .. rd', NEW p, p = log'[i], p \in Listed, Alive(p)',
                      i < rd' \/ pc' \in {"loop", "resume"}
               PROVE  mods'[NsOf(p)'] = {}
    BY DEF Hidden, Alive, NsOf
  <2>1. i \in 1 .. rd /\ i \in 1 .. Len(log)
    BY <1>2, <1>4
  <2>2. p = log[i] /\ p \in Apps /\ app[p].st # "none"
    BY <1>3, <2>1
  <2>3. Alive(p) /\ mods'[NsOf(p)'] = mods[NsOf(p)]
    BY <1>1, <2>2, EnvironmentSteps
  <2>4. mods[NsOf(p)] = {}
    BY <1>2, <2>1, <2>2, <2>3 DEF HideInv, Hidden
  <2>5. QED
    BY <2>3, <2>4
<1>11. QED
  BY <1>1, <1>7, <1>8, <1>9, <1>10 DEF HideInv

LEMMA ServiceHides == HideInv /\ Service => HideInv'
<1> SUFFICES ASSUME HideInv, Service PROVE HideInv'
  OBVIOUS
<1> USE DEF FrozenStages, InsideStages, HandlingStages, LoopStages
<1>1. UNCHANGED log /\ app' \in AppType /\ SameLives
  BY ServiceKeepsEnvironment DEF HideInv
<1>2. TypeInv'
  BY TypeInvStep DEF HideInv, Next, Service
<1>3. /\ log \in Seq(Apps) /\ Len(log) \in Nat /\ rd \in 0 .. Len(log)
      /\ app \in AppType /\ mods \in [Namespaces -> SUBSET {"sbin", "system"}]
      /\ ns \in Namespaces /\ pc \in Stages
      /\ pc \notin LoopStages => rd = 0
      /\ pc \in HandlingStages => rd \in 1 .. Len(log)
  BY DEF HideInv, TypeInv, TypeOK, EventsOK, AppType
<1>4. \A i \in 1 .. Len(log) : log[i] \in Apps
  BY <1>3
<1>5. \A p \in Apps : (Alive(p)' <=> Alive(p)) /\ NsOf(p)' = NsOf(p)
  BY <1>1 DEF SameLives, Alive, NsOf
<1>6. Frozen'
  <2> SUFFICES ASSUME pc' \in FrozenStages, Alive(pid)' PROVE app'[pid'].stopped
    BY DEF Frozen, Alive, pid
  <2>1. CASE StopListed
    <3>1. rd' = rd + 1 /\ rd' \in 1 .. Len(log) /\ pid' \in Apps
      BY <1>1, <1>2, <1>3, <1>4, <2>1 DEF StopListed, pid
    <3>2. app'[pid'].stopped = Alive(pid')
      BY <1>1, <1>3, <2>1, <3>1 DEF StopListed, pid, AppType, Alive
    <3>3. Alive(pid')
      BY <1>1, <1>5, <3>1 DEF Alive, SameLives
    <3>4. QED
      BY <3>2, <3>3
  <2>2. CASE StopAgain
    <3>1. pid' = pid /\ pid \in Apps
      BY <1>1, <1>3, <1>4, <2>2 DEF StopAgain, pid
    <3>2. app'[pid].stopped = (TRUE /\ Alive(pid))
      BY <1>3, <2>2, <3>1 DEF StopAgain, Signal, AppType, Alive
    <3>3. QED
      BY <1>5, <3>1, <3>2 DEF Alive
  <2>3. CASE CheckRunning \/ Poll \/ EnterNs \/ UmountSbin
    <3>1. pc \in FrozenStages /\ UNCHANGED <<app, log, rd>>
      BY <2>3 DEF CheckRunning, Poll, EnterNs, UmountSbin, envVars
    <3>2. QED
      BY <3>1 DEF HideInv, Frozen, pid, Alive
  <2>4. QED
    BY <2>1, <2>2, <2>3 DEF Service, Daemon, CoverInit, FindZygote, ReadZygoteNs,
       EnterZygoteNs, GiveUpZygote64, SkipEvent, UmountSystem, Resume, RestartLogcat, Kill
<1>7. Inside' /\ SbinGone'
  <2>1. CASE EnterNs
    <3>1. pc' \in InsideStages => ns' = NsOf(pid)
      BY <2>1 DEF EnterNs
    <3>2. UNCHANGED <<app, log, rd>> /\ pc' # "umountsystem"
      BY <2>1 DEF EnterNs, envVars
    <3>3. QED
      BY <3>1, <3>2 DEF Inside, SbinGone, NsOf, pid, Alive
  <2>2. CASE UmountSbin
    <3>1. UNCHANGED <<app, log, rd, ns>> /\ mods' = [mods EXCEPT ![ns] = @ \ {"sbin"}]
          /\ pc = "umountsbin" /\ pc' = "umountsystem"
      BY <2>2 DEF UmountSbin, envVars
    <3>2. Inside'
      BY <3>1 DEF HideInv, Inside, NsOf, pid, Alive
    <3>3. "sbin" \notin mods'[ns]
      BY <1>3, <3>1
    <3>4. Alive(pid) => ns = NsOf(pid)
      BY <3>1 DEF HideInv, Inside
    <3>5. QED
      BY <3>1, <3>2, <3>3, <3>4 DEF SbinGone, NsOf, pid, Alive
  <2>3. CASE ~EnterNs /\ ~UmountSbin
    <3>1. pc' \notin InsideStages
      BY <2>3 DEF Service, Daemon, CoverInit, FindZygote, ReadZygoteNs, EnterZygoteNs,
         GiveUpZygote64, SkipEvent, StopListed, CheckRunning, Poll, StopAgain,
         UmountSystem, Resume, RestartLogcat, Kill
    <3>2. QED
      BY <3>1 DEF Inside, SbinGone
  <2>4. QED
    BY <2>1, <2>2, <2>3
<1>8. Hidden'
  <2> SUFFICES ASSUME NEW i \in 1 .. rd', NEW p, p = log'[i], p \in Listed, Alive(p)',
                      i < rd' \/ pc' \in {"loop", "resume"}
               PROVE  mods'[NsOf(p)'] = {}
    BY DEF Hidden, Alive, NsOf
  <2>1. p = log[i] /\ p \in Apps /\ i \in 1 .. Len(log)
    BY <1>1, <1>2, <1>4 DEF TypeInv, TypeOK
  <2>2. Alive(p) /\ NsOf(p)' = NsOf(p)
    BY <1>5, <2>1
  <2>3. NsOf(p) \in Namespaces
    BY <2>1, <2>2, HideSuAssumption DEF HideInv, TypeInv, TypeOK, AppsOK, Alive, NsOf,
       Namespaces, SharedNs, ZygoteNs, AppNs
  <2>4. (i \in 1 .. rd /\ (i < rd \/ pc \in {"loop", "resume"})) => mods[NsOf(p)] = {}
    BY <2>1, <2>2 DEF HideInv, Hidden
  <2>5. SUFFICES mods'[NsOf(p)] = {}
    BY <2>2
  <2>6. CASE pc \notin LoopStages \/ RestartLogcat \/ Kill
    <3>1. rd' = 0
      BY <1>3, <2>6 DEF Service, Daemon, CoverInit, FindZygote, ReadZygoteNs,
         EnterZygoteNs, GiveUpZygote64, SkipEvent, StopListed, CheckRunning, Poll,
         StopAgain, EnterNs, UmountSbin, UmountSystem, Resume, RestartLogcat, Kill
    <3>2. QED
      BY <3>1
  <2>7. CASE SkipEvent
    BY <1>1, <1>3, <2>1, <2>4, <2>7 DEF SkipEvent
  <2>8. CASE StopListed
    BY <1>3, <2>4, <2>8 DEF StopListed
  <2>9. CASE CheckRunning \/ EnterNs
    <3>1. UNCHANGED <<mods, rd>> /\ (pc' = "resume" => ~Alive(pid)) /\ pc' # "loop"
      BY <2>9 DEF CheckRunning, EnterNs
    <3>2. i < rd
      <4>1. i # rd \/ pid = p
        BY <2>1 DEF pid
      <4>2. i # rd \/ pc' \notin {"loop", "resume"}
        BY <2>2, <3>1, <4>1
      <4>3. QED
        BY <1>3, <3>1, <4>2
    <3>3. QED
      BY <1>3, <2>4, <3>1, <3>2
  <2>10. CASE Poll \/ StopAgain
    BY <1>3, <2>4, <2>10 DEF Poll, StopAgain
  <2>11. CASE UmountSbin
    <3>1. UNCHANGED rd /\ i < rd /\ mods' = [mods EXCEPT ![ns] = @ \ {"sbin"}]
      BY <1>3, <2>11 DEF UmountSbin
    <3>2. mods[NsOf(p)] = {}
      BY <1>3, <2>4, <3>1
    <3>3. QED
      BY <1>3, <2>3, <3>1, <3>2
  <2>12. CASE UmountSystem
    <3>1. UNCHANGED rd /\ pc = "umountsystem" /\ rd \in 1 .. Len(log)
      BY <1>3, <2>12 DEF UmountSystem
    <3>2. CASE i < rd
      <4>1. mods[NsOf(p)] = {}
        BY <1>3, <2>4, <3>1, <3>2
      <4>2. QED
        BY <1>3, <2>3, <2>12, <4>1 DEF UmountSystem
    <3>3. CASE i = rd
      <4>1. pid = p
        BY <2>1, <3>3 DEF pid
      <4>2. pid = p /\ ns = NsOf(p)
        BY <2>2, <3>1, <4>1 DEF HideInv, Inside
      <4>3. mods' = [mods EXCEPT ![ns] = @ \ (mods[ns] \cap {"system"})]
        BY <2>2, <2>12, <4>2 DEF UmountSystem
      <4>4. "sbin" \notin mods[ns] /\ mods[ns] \subseteq {"sbin", "system"}
        BY <1>3, <2>2, <3>1, <4>2 DEF HideInv, SbinGone
      <4>5. QED
        BY <1>3, <4>2, <4>3, <4>4
    <3>4. QED
      BY <3>1, <3>2, <3>3
  <2>13. CASE Resume
    BY <1>3, <2>4, <2>13 DEF Resume
  <2>14. QED
    BY <2>6, <2>7, <2>8, <2>9, <2>10, <2>11, <2>12, <2>13
    DEF Service, Daemon, CoverInit, FindZygote, ReadZygoteNs, EnterZygoteNs, GiveUpZygote64
<1>9. QED
  BY <1>2, <1>6, <1>7, <1>8 DEF HideInv

LEMMA HideInvStep == HideInv /\ [Next]_vars => HideInv'
<1> SUFFICES ASSUME HideInv, [Next]_vars PROVE HideInv'
  OBVIOUS
<1>1. CASE UNCHANGED vars
  <2>1. TypeInv'
    BY TypeInvStep DEF HideInv
  <2>2. UNCHANGED <<app, mods, log, pc, ns, rd>>
    BY <1>1 DEF vars, envVars, daemonVars
  <2>3. QED
    BY <2>1, <2>2 DEF HideInv, Frozen, Inside, SbinGone, Hidden, Alive, NsOf, pid
<1>2. CASE Environment
  BY <1>2, EnvironmentHides
<1>3. CASE Service
  BY <1>3, ServiceHides
<1>4. QED
  BY <1>1, <1>2, <1>3 DEF Next, Service

(***************************************************************************)
(* Between its first and its last mount an application does not run,       *)
(* whatever dies, is killed or is started again in between.                *)
(***************************************************************************)
THEOREM HideSuFrozenWhileDetaching == Spec => []FrozenWhileDetaching
<1>1. ASSUME HideInv, NEW p \in Apps, pc = "umountsystem", ns = AppNs(p)
      PROVE  app[p].stopped \/ ~Alive(p)
  <2>1. pid \in Apps
    BY <1>1 DEF HideInv, TypeInv, TypeOK, EventsOK, HandlingStages, pid
  <2>2. AppNs(p) # ZygoteNs(Parent[pid], app[pid].gen)
    BY <2>1, HideSuAssumption DEF AppNs, ZygoteNs, Zygotes
  <2>3. p = pid
    BY <1>1, <2>2 DEF HideInv, Inside, InsideStages, AppNs
  <2>4. QED
    BY <1>1, <2>3 DEF HideInv, Frozen, FrozenStages
<1>2. HideInv => FrozenWhileDetaching
  BY <1>1 DEF FrozenWhileDetaching
<1>3. QED
  BY HideInvInit, HideInvStep, <1>2, PTL DEF Spec

(***************************************************************************)
(* A listed application that was handled has none of the mounts and gets   *)
(* none: also one that was taken, with its zygote unknown to the service,  *)
(* for one in its own namespace, and makes that only later.                *)
(***************************************************************************)
THEOREM HideSuHiddenOnceHandled == Spec => []HiddenOnceHandled
<1>1. ASSUME HideInv, NEW i \in 1 .. rd, log[i] \in Listed, app[log[i]].st = "own",
             i < rd \/ pc = "loop"
      PROVE  mods[AppNs(log[i])] = {}
  BY <1>1 DEF HideInv, Hidden, Alive, NsOf
<1>2. HideInv => HiddenOnceHandled
  BY <1>1 DEF HiddenOnceHandled
<1>3. QED
  BY HideInvInit, HideInvStep, <1>2, PTL DEF Spec

(***************************************************************************)
(* Who stops and who continues: a step of the environment stops no         *)
(* process, and takes no event out of the log.                             *)
(***************************************************************************)
LEMMA EnvironmentStopsNone ==
  ASSUME TypeInv, Environment
  PROVE  /\ \A p \in Apps : app'[p].stopped => app[p].stopped
         /\ UNCHANGED <<pc, rd>>
         /\ Len(log) \in Nat /\ Len(log)' \in Nat /\ Len(log) <= Len(log)'
         /\ \A i \in 1 .. Len(log) : log'[i] = log[i]
<1> USE HideSuAssumption
<1>1. app \in AppType /\ log \in Seq(Apps)
  BY DEF TypeInv, TypeOK, AppType
<1>2. ASSUME NEW p \in Apps, app'[p].stopped
      PROVE  app[p].stopped
  <2>1. CASE \E z \in Zygotes : StartZygote(z) \/ UnshareZygote(z)
    BY <1>2, <2>1 DEF StartZygote, UnshareZygote
  <2>2. ASSUME NEW z \in Zygotes, RestartZygote(z)
        PROVE  app[p].stopped
    <3>1. \/ app'[p] = [app[p] EXCEPT !.st = "dead", !.stopped = FALSE]
          \/ app'[p] = app[p]
      BY <2>2 DEF RestartZygote
    <3>2. [app[p] EXCEPT !.st = "dead", !.stopped = FALSE].stopped = FALSE
      BY <1>1 DEF AppType
    <3>3. QED
      BY <1>2, <3>1, <3>2
  <2>3. ASSUME NEW q \in Apps, ForkApp(q) \/ UnshareApp(q) \/ LogStart(q) \/ AppDies(q)
        PROVE  app[p].stopped
    <3>1. CASE ForkApp(q)
      BY <1>1, <1>2, <3>1 DEF ForkApp, AppType
    <3>2. CASE UnshareApp(q)
      BY <1>1, <1>2, <3>2 DEF UnshareApp, AppType
    <3>3. CASE LogStart(q)
      BY <1>2, <3>3 DEF LogStart
    <3>4. CASE AppDies(q)
      BY <1>1, <1>2, <3>4 DEF AppDies, AppType
    <3>5. QED
      BY <2>3, <3>1, <3>2, <3>3, <3>4
  <2>4. QED
    BY <2>1, <2>2, <2>3 DEF Environment
<1>3. UNCHANGED <<pc, rd>>
  BY DEF Environment, StartZygote, UnshareZygote, RestartZygote, ForkApp, UnshareApp,
     LogStart, AppDies, daemonVars
<1>4. log' = log \/ \E p \in Apps : log' = Append(log, p)
  BY DEF Environment, StartZygote, UnshareZygote, RestartZygote, ForkApp, UnshareApp,
     LogStart, AppDies
<1>5. /\ Len(log) \in Nat /\ Len(log)' \in Nat /\ Len(log) <= Len(log)'
      /\ \A i \in 1 .. Len(log) : log'[i] = log[i]
  BY <1>1, <1>4
<1>6. QED
  BY <1>2, <1>3, <1>5

\* The process of the event that is handled is a listed one.
OfListed == pc \in HandlingStages => pid \in Listed

LEMMA OfListedStep ==
  ASSUME TypeInv, OfListed, [Next]_vars
  PROVE  OfListed'
<1> USE DEF HandlingStages
<1>1. pc \in HandlingStages => rd \in 1 .. Len(log)
  BY DEF TypeInv, EventsOK
<1>2. CASE UNCHANGED vars
  BY <1>2 DEF vars, envVars, daemonVars, OfListed, pid
<1>3. CASE Environment
  BY <1>1, <1>3, EnvironmentStopsNone DEF OfListed, pid
<1>4. CASE StopListed
  <2>1. UNCHANGED log /\ rd' = rd + 1 /\ log[rd + 1] \in Listed
    BY <1>4 DEF StopListed
  <2>2. QED
    BY <2>1 DEF OfListed, pid
<1>5. CASE CheckRunning \/ Poll \/ StopAgain \/ EnterNs \/ UmountSbin \/ UmountSystem
  <2>1. UNCHANGED <<log, rd>> /\ pc \in HandlingStages
    BY <1>5 DEF CheckRunning, Poll, StopAgain, EnterNs, UmountSbin, UmountSystem, envVars
  <2>2. QED
    BY <2>1 DEF OfListed, pid
<1>6. CASE pc' \notin HandlingStages
  BY <1>6 DEF OfListed
<1>7. QED
  BY <1>2, <1>3, <1>4, <1>5, <1>6 DEF Next, Daemon, CoverInit, FindZygote, ReadZygoteNs,
     EnterZygoteNs, GiveUpZygote64, SkipEvent, Resume, RestartLogcat, Kill

LEMMA AheadStep ==
  ASSUME TypeInv, OfListed, StoppedIsAhead, [Next]_vars
  PROVE  StoppedIsAhead'
<1> SUFFICES ASSUME NEW p \in Apps, app'[p].stopped
             PROVE  p \in Listed /\ Ahead(p)'
  BY DEF StoppedIsAhead
<1>1. /\ log \in Seq(Apps) /\ Len(log) \in Nat /\ rd \in 0 .. Len(log) /\ app \in AppType
      /\ pc \notin LoopStages => rd = 0
      /\ pc \in HandlingStages => rd \in 1 .. Len(log)
  BY DEF TypeInv, TypeOK, EventsOK, AppType
<1>2. \A i \in 1 .. Len(log) : log[i] \in Apps
  BY <1>1
<1>3. app[p].stopped => p \in Listed /\ Ahead(p)
  BY DEF StoppedIsAhead
<1>4. CASE UNCHANGED vars
  BY <1>3, <1>4 DEF vars, envVars, daemonVars, Ahead
<1>5. CASE Environment
  <2>1. p \in Listed /\ Ahead(p)
    BY <1>3, <1>5, EnvironmentStopsNone
  <2>2. PICK i \in 1 .. Len(log) : log[i] = p /\ (rd < i \/ (rd = i /\ pc # "loop"))
    BY <2>1 DEF Ahead
  <2>3. i \in 1 .. Len(log)' /\ log'[i] = p /\ rd' = rd /\ pc' = pc
    BY <1>5, <2>2, EnvironmentStopsNone
  <2>4. QED
    BY <2>1, <2>2, <2>3 DEF Ahead
<1>6. CASE Service
  <2>1. UNCHANGED log
    BY <1>6, ServiceKeepsEnvironment
  \* Once its event is found, it only matters where the service stands.
  <2>2. ASSUME NEW i \in 1 .. Len(log), log[i] = p, rd' < i \/ (rd' = i /\ pc' # "loop")
        PROVE  Ahead(p)'
    BY <2>1, <2>2 DEF Ahead
  <2>3. CASE StopListed
    <3>1. /\ rd' = rd + 1 /\ pc' = "check" /\ pc = "loop" /\ rd + 1 \in 1 .. Len(log)
          /\ log[rd + 1] \in Listed
          /\ app' = [app EXCEPT ![log[rd + 1]].stopped = Alive(log[rd + 1])]
      BY <1>1, <2>3 DEF StopListed
    <3>2. CASE p = log[rd + 1]
      BY <2>2, <3>1, <3>2
    <3>3. CASE p # log[rd + 1]
      <4>1. app[p].stopped
        BY <1>1, <1>2, <3>1, <3>3 DEF AppType
      <4>2. PICK i \in 1 .. Len(log) : log[i] = p /\ rd < i
        BY <1>3, <3>1, <4>1 DEF Ahead
      <4>3. rd' < i
        BY <1>1, <3>1, <3>3, <4>2
      <4>4. QED
        BY <1>3, <2>2, <4>1, <4>2, <4>3
    <3>4. QED
      BY <3>2, <3>3
  <2>4. CASE SkipEvent
    <3>1. rd' = rd + 1 /\ pc = "loop" /\ log[rd + 1] \notin Listed /\ UNCHANGED app
      BY <2>4 DEF SkipEvent, envVars
    <3>2. p \in Listed /\ Ahead(p)
      BY <1>3, <3>1
    <3>3. PICK i \in 1 .. Len(log) : log[i] = p /\ rd < i
      BY <3>1, <3>2 DEF Ahead
    <3>4. rd' < i
      BY <1>1, <3>1, <3>2, <3>3
    <3>5. QED
      BY <2>2, <3>2, <3>3, <3>4
  <2>5. CASE Poll \/ StopAgain
    <3>1. /\ UNCHANGED rd /\ pc' # "loop" /\ pc \in HandlingStages
          /\ UNCHANGED app \/ Signal(TRUE) \/ Signal(FALSE)
      BY <2>5 DEF Poll, StopAgain, HandlingStages
    <3>2. pid \in Apps /\ rd \in 1 .. Len(log)
      BY <1>1, <1>2, <3>1 DEF pid
    <3>3. CASE p = pid
      <4>1. Ahead(p)'
        BY <2>2, <3>1, <3>2, <3>3 DEF pid
      <4>2. pid \in Listed
        BY <3>1 DEF OfListed
      <4>3. QED
        BY <3>3, <4>1, <4>2
    <3>4. CASE p # pid
      <4>1. app'[p] = app[p]
        BY <1>1, <3>1, <3>2, <3>4 DEF Signal, AppType
      <4>2. p \in Listed /\ Ahead(p)
        BY <1>3, <4>1
      <4>3. QED
        BY <2>2, <3>1, <4>2 DEF Ahead
    <3>5. QED
      BY <3>3, <3>4
  <2>6. CASE Resume
    <3>1. UNCHANGED rd /\ pid \in Apps /\ Signal(FALSE)
      BY <1>1, <1>2, <2>6 DEF Resume, HandlingStages, pid
    <3>2. p # pid
      BY <1>1, <3>1 DEF Signal, AppType
    <3>3. app[p].stopped
      BY <1>1, <3>1, <3>2 DEF Signal, AppType
    <3>4. PICK i \in 1 .. Len(log) : log[i] = p /\ rd <= i
      BY <1>1, <1>3, <3>3 DEF Ahead
    <3>5. i # rd
      BY <3>2, <3>4 DEF pid
    <3>6. rd' < i
      BY <1>1, <3>1, <3>4, <3>5
    <3>7. QED
      BY <1>3, <2>2, <3>3, <3>4, <3>6
  <2>7. CASE RestartLogcat \/ Kill
    <3>1. rd' = 0 /\ UNCHANGED app
      BY <2>7 DEF RestartLogcat, Kill, envVars
    <3>2. p \in Listed /\ Ahead(p)
      BY <1>3, <3>1
    <3>3. PICK i \in 1 .. Len(log) : log[i] = p
      BY <3>2 DEF Ahead
    <3>4. QED
      BY <2>2, <3>1, <3>2, <3>3
  <2>8. CASE CheckRunning \/ EnterNs \/ UmountSbin \/ UmountSystem
    <3>1. UNCHANGED <<rd, app>> /\ pc' # "loop"
      BY <2>8 DEF CheckRunning, EnterNs, UmountSbin, UmountSystem, envVars
    <3>2. QED
      BY <1>3, <2>2, <3>1 DEF Ahead
  <2>9. CASE pc \notin LoopStages /\ ~Kill
    <3>1. UNCHANGED <<rd, app>> /\ rd = 0
      BY <1>1, <1>6, <2>9 DEF Service, Daemon, CoverInit, FindZygote, ReadZygoteNs,
         EnterZygoteNs, GiveUpZygote64, SkipEvent, StopListed, CheckRunning, Poll,
         StopAgain, EnterNs, UmountSbin, UmountSystem, Resume, RestartLogcat, envVars,
         LoopStages, HandlingStages
    <3>2. p \in Listed /\ Ahead(p)
      BY <1>3, <3>1
    <3>3. PICK i \in 1 .. Len(log) : log[i] = p
      BY <3>2 DEF Ahead
    <3>4. QED
      BY <2>2, <3>1, <3>2, <3>3
  <2>10. QED
    BY <1>6, <2>3, <2>4, <2>5, <2>6, <2>7, <2>8, <2>9
    DEF Service, Daemon, CoverInit, FindZygote, ReadZygoteNs, EnterZygoteNs, GiveUpZygote64,
        LoopStages, HandlingStages
<1>7. QED
  BY <1>4, <1>5, <1>6 DEF Next, Service

(***************************************************************************)
(* HideSuStoppedIsAhead: however often hidesu and logcat are killed and    *)
(* started again and whatever dies, no application that hidesu has stopped *)
(* is behind it: what is stopped will be handled, and continued after it.  *)
(***************************************************************************)
THEOREM HideSuStoppedIsAhead == Spec => []StoppedIsAhead
<1>1. Init => TypeInv /\ OfListed /\ StoppedIsAhead
  BY TypeInvInit DEF Init, OfListed, StoppedIsAhead, HandlingStages
<1>2. TypeInv /\ OfListed /\ StoppedIsAhead /\ [Next]_vars
        => TypeInv' /\ OfListed' /\ StoppedIsAhead'
  BY TypeInvStep, OfListedStep, AheadStep
<1>3. QED
  BY <1>1, <1>2, PTL DEF Spec

-----------------------------------------------------------------------------
(***************************************************************************)
(* From here on zygote64 is not late and no zygote is started again.       *)
(***************************************************************************)
Prompt == LateZygote64 = FALSE /\ MaxRestarts = 0

\* The stages in which the service has read the namespace of z.
After(z) == IF z = "zygote64" THEN LoopStages \cup {"enterzygote64"}
            ELSE LoopStages \cup {"enterzygote", "findzygote64", "prepare64",
                                  "enterzygote64"}

\* The service knows the zygotes' namespaces when it reads events.
Known ==
    \A z \in Present : pc \in After(z) => known[z] = ZygoteNs(z, 1) /\ zyg[z].st = "ready"

\* A namespace has no mounts before it is made.
Blank ==
    /\ \A z \in Zygotes : zyg[z].st # "ready" => mods[ZygoteNs(z, 1)] = {}
    /\ \A p \in Apps : app[p].st \in {"none", "forked"} => mods[AppNs(p)] = {}

\* The process the service has waited for is a listed one in its own namespace,
\* and there the service goes.
InOwn ==
    /\ pc \in HandlingStages => pid \in Listed
    /\ (pc = "enter" /\ Alive(pid)) => app[pid].st = "own"
    /\ pc \in InsideStages => ns = AppNs(pid)

OnlyPresent == \A z \in Zygotes : zyg[z].st # "off" => z \in Present

DetachInv == HideInv /\ OnlyPresent /\ Known /\ Blank /\ InOwn

LEMMA DetachInvInit == Prompt /\ Init => DetachInv
<1> SUFFICES ASSUME Prompt, Init PROVE DetachInv
  OBVIOUS
<1>1. OnlyPresent /\ Known /\ InOwn
  BY DEF Init, OnlyPresent, Known, InOwn, After, LoopStages, HandlingStages, InsideStages
<1>2. Blank
  <2>1. \A z \in Zygotes : /\ ZygoteNs(z, 1) \in Namespaces
                           /\ ZygoteNs(z, 1) # InitNs
    BY DEF Prompt, ZygoteNs, InitNs, Namespaces, SharedNs, Incarnations, Zygotes
  <2>2. \A p \in Apps : AppNs(p) \in Namespaces /\ AppNs(p) # InitNs
    BY DEF AppNs, InitNs, Namespaces
  <2>3. QED
    BY <2>1, <2>2 DEF Init, Blank
<1>3. QED
  BY <1>1, <1>2, HideInvInit DEF DetachInv

LEMMA EnvironmentDetachInv == Prompt /\ DetachInv /\ Environment => DetachInv'
<1> SUFFICES ASSUME Prompt, DetachInv, Environment PROVE DetachInv'
  OBVIOUS
<1>1. HideInv /\ HideInv' /\ TypeInv /\ TypeInv'
  BY EnvironmentHides DEF DetachInv, HideInv
<1>2. UNCHANGED <<pc, ns, rd, known>>
  BY DEF Environment, StartZygote, UnshareZygote, RestartZygote, ForkApp, UnshareApp,
     LogStart, AppDies, daemonVars
<1>3. /\ zyg \in [Zygotes -> ZygoteType] /\ app \in AppType /\ restarts = 0
      /\ mods \in [Namespaces -> SUBSET {"sbin", "system"}]
      /\ log \in Seq(Apps) /\ rd \in 0 .. Len(log) /\ Len(log) \in Nat
      /\ \A z \in Zygotes : zyg[z].st # "off" => zyg[z].gen = 1
  BY <1>1 DEF Prompt, TypeInv, TypeOK, ZygoteType, AppType, ZygotesOK
<1>4. \A z \in Zygotes : ~RestartZygote(z)
  BY <1>3 DEF Prompt, RestartZygote
<1>5. Known'
  <2>1. \A z \in Present : zyg[z].st = "ready" => zyg'[z].st = "ready"
    BY <1>3, <1>4, HideSuAssumption DEF Environment, StartZygote, UnshareZygote, ForkApp,
       UnshareApp, LogStart, AppDies, ZygoteType
  <2>2. QED
    BY <1>2, <2>1 DEF DetachInv, Known
<1>6. pc \in HandlingStages => /\ pid \in Apps /\ pid' = pid /\ app[pid].st # "none"
  <2>1. pc \in HandlingStages => rd \in 1 .. Len(log) /\ app[log[rd]].st # "none"
    BY <1>1 DEF TypeInv, EventsOK
  <2>2. log' = log \/ \E p \in Apps : log' = Append(log, p)
    BY DEF Environment, StartZygote, UnshareZygote, RestartZygote, ForkApp, UnshareApp,
       LogStart, AppDies
  <2>3. \A i \in 1 .. Len(log) : log'[i] = log[i] /\ log[i] \in Apps
    BY <1>3, <2>2
  <2>4. QED
    BY <1>2, <2>1, <2>3 DEF pid
<1>7. InOwn'
  <2>1. pc \in HandlingStages => pid' \in Listed
    BY <1>6 DEF DetachInv, InOwn
  <2>2. ASSUME pc = "enter", Alive(pid)'
        PROVE  app'[pid].st = "own"
    <3>1. pid \in Apps /\ app[pid].st # "none"
      BY <1>6, <2>2 DEF HandlingStages
    <3>2. Alive(pid) /\ app[pid].stopped
      <4>1. Alive(pid)
        BY <1>1, <1>6, <2>2, <3>1, EnvironmentSteps DEF Alive, HandlingStages
      <4>2. QED
        BY <1>1, <2>2, <4>1 DEF HideInv, Frozen, FrozenStages
    <3>3. app[pid].st = "own"
      BY <2>2, <3>2 DEF DetachInv, InOwn
    <3>4. app'[pid].st \in {"own", "dead"}
      <4>1. ASSUME NEW q \in Apps, app[q].st = "own"
            PROVE  app'[q].st \in {"own", "dead"}
        <5>1. CASE UNCHANGED app
          BY <4>1, <5>1
        <5>2. ASSUME NEW p \in Apps, ForkApp(p) \/ UnshareApp(p) \/ AppDies(p)
              PROVE  app'[q].st \in {"own", "dead"}
          <6>1. CASE ForkApp(p)
            BY <1>3, <4>1, <6>1 DEF ForkApp, AppType
          <6>2. CASE UnshareApp(p)
            BY <1>3, <4>1, <6>2 DEF UnshareApp, AppType
          <6>3. CASE AppDies(p)
            BY <1>3, <4>1, <6>3 DEF AppDies, AppType
          <6>4. QED
            BY <5>2, <6>1, <6>2, <6>3
        <5>3. QED
          BY <1>4, <5>1, <5>2 DEF Environment, StartZygote, UnshareZygote, LogStart
      <4>2. QED
        BY <3>1, <3>3, <4>1
    <3>5. QED
      BY <1>6, <2>2, <3>4 DEF Alive, HandlingStages
  <2>3. pc \in InsideStages => ns = AppNs(pid')
    BY <1>6 DEF DetachInv, InOwn, InsideStages, HandlingStages
  <2>4. QED
    BY <1>2, <1>6, <2>1, <2>2, <2>3 DEF InOwn, Alive, AppNs, HandlingStages
<1>8. Blank'
  <2>1. \A z \in Zygotes : ZygoteNs(z, 1) \in Namespaces
    BY DEF Prompt, ZygoteNs, Namespaces, SharedNs, Incarnations
  <2>2. \A p \in Apps : AppNs(p) \in Namespaces
    BY DEF Namespaces
  <2>3. \A z \in Zygotes, p \in Apps : ZygoteNs(z, 1) # AppNs(p)
    BY DEF ZygoteNs, AppNs, Zygotes
  <2>4. \A y, z \in Zygotes : ZygoteNs(y, 1) = ZygoteNs(z, 1) => y = z
    BY DEF ZygoteNs
  <2>5. \A p, q \in Apps : AppNs(p) = AppNs(q) => p = q
    BY DEF AppNs
  <2> USE <1>3, <2>1, <2>2, <2>3, <2>4, <2>5 DEF DetachInv, Blank
  <2>6. ASSUME NEW z \in Zygotes, StartZygote(z)
        PROVE  Blank'
    BY <2>6 DEF StartZygote
  <2>7. ASSUME NEW z \in Zygotes, UnshareZygote(z)
        PROVE  Blank'
    <3>1. /\ UNCHANGED app
          /\ zyg'[z].st = "ready" /\ \A y \in Zygotes : y # z => zyg'[y] = zyg[y]
          /\ mods' = [mods EXCEPT ![ZygoteNs(z, 1)] = mods[InitNs]]
      BY <2>7 DEF UnshareZygote, ZygoteType
    <3>2. QED
      BY <3>1
  <2>8. ASSUME NEW q \in Apps, ForkApp(q) \/ AppDies(q) \/ LogStart(q)
        PROVE  Blank'
    <3>1. /\ UNCHANGED <<zyg, mods>>
          /\ \A p \in Apps : app'[p].st \in {"none", "forked"} =>
                               app[p].st \in {"none", "forked"}
      BY <2>8 DEF ForkApp, AppDies, LogStart, AppType
    <3>2. QED
      BY <3>1
  <2>9. ASSUME NEW q \in Apps, UnshareApp(q)
        PROVE  Blank'
    <3>1. /\ UNCHANGED zyg
          /\ app'[q].st = "own" /\ \A p \in Apps : p # q => app'[p] = app[p]
          /\ mods' = [mods EXCEPT ![AppNs(q)] = mods[NsOf(q)]]
      BY <2>9 DEF UnshareApp, AppType
    <3>2. QED
      BY <3>1
  <2>10. QED
    BY <1>4, <2>6, <2>7, <2>8, <2>9 DEF Environment
<1>9. OnlyPresent'
  BY <1>3, <1>4, HideSuAssumption DEF DetachInv, OnlyPresent, Environment, StartZygote,
     UnshareZygote, ForkApp, UnshareApp, LogStart, AppDies, ZygoteType
<1>10. QED
  BY <1>1, <1>5, <1>7, <1>8, <1>9 DEF DetachInv

LEMMA ServiceDetachInv == Prompt /\ DetachInv /\ Service => DetachInv'
<1> SUFFICES ASSUME Prompt, DetachInv, Service PROVE DetachInv'
  OBVIOUS
<1> USE HideSuAssumption
<1>1. HideInv /\ HideInv' /\ TypeInv /\ TypeInv'
  BY ServiceHides DEF DetachInv, HideInv
<1>2. UNCHANGED <<zyg, log>> /\ app' \in AppType /\ SameLives
  BY <1>1, ServiceKeepsEnvironment
<1>3. /\ zyg \in [Zygotes -> ZygoteType]
      /\ mods \in [Namespaces -> SUBSET {"sbin", "system"}]
      /\ known \in [Zygotes -> SharedNs \cup {NoNs}] /\ ns \in Namespaces
      /\ log \in Seq(Apps) /\ rd \in 0 .. Len(log) /\ Len(log) \in Nat
      /\ \A z \in Zygotes : zyg[z].st # "off" => zyg[z].gen = 1
      /\ pc \in HandlingStages => pid \in Apps
  BY <1>1 DEF Prompt, TypeInv, TypeOK, ZygoteType, ZygotesOK, EventsOK, pid
<1>4. \A z \in Zygotes, g \in 0 .. 1 : zyg[z] = [st |-> "ready", gen |-> g] =>
                                          zyg[z].st = "ready" /\ zyg[z].gen = g
  OBVIOUS
<1> USE DEF HandlingStages, LoopStages, InsideStages
<1>5. Known'
  <2> SUFFICES ASSUME NEW z \in Present, pc' \in After(z)
               PROVE  known'[z] = ZygoteNs(z, 1) /\ zyg[z].st = "ready"
    BY <1>2 DEF Known, After
  <2>1. z \in {"zygote", "zygote64"}
    BY DEF Zygotes
  <2>2. pc \in After(z) => known[z] = ZygoteNs(z, 1) /\ zyg[z].st = "ready"
    BY DEF DetachInv, Known
  <2>3. ASSUME NEW y \in Zygotes, NEW from, NEW to, ReadZygoteNs(y, from, to)
        PROVE  /\ zyg[y].st = "ready" /\ known' = [known EXCEPT ![y] = ZygoteNs(y, 1)]
    <3>1. zpid \in 0 .. 1 /\ zyg[y] = [st |-> "ready", gen |-> zpid]
      BY <1>1, <2>3 DEF ReadZygoteNs, TypeInv, TypeOK, Prompt
    <3>2. zyg[y].st = "ready" /\ zpid = 1
      BY <1>3, <1>4, <3>1
    <3>3. QED
      BY <2>3, <3>2 DEF ReadZygoteNs
  <2>4. CASE ReadZygoteNs("zygote", "prepare", "enterzygote")
    <3>1. "zygote" \in Zygotes /\ pc' = "enterzygote"
      BY <2>4 DEF ReadZygoteNs, Zygotes
    <3>2. z = "zygote"
      BY <2>1, <3>1 DEF After
    <3>3. QED
      BY <1>3, <2>3, <2>4, <3>1, <3>2
  <2>5. CASE ReadZygoteNs("zygote64", "prepare64", "enterzygote64")
    <3>1. "zygote64" \in Zygotes /\ pc = "prepare64"
      BY <2>5 DEF ReadZygoteNs, Zygotes
    <3>2. zyg["zygote64"].st = "ready" /\ known' = [known EXCEPT !["zygote64"] = ZygoteNs("zygote64", 1)]
      BY <2>3, <2>5, <3>1
    <3>3. z = "zygote" => pc \in After(z)
      BY <3>1 DEF After
    <3>4. QED
      BY <1>3, <2>1, <2>2, <3>1, <3>2, <3>3
  <2>6. CASE GiveUpZygote64
    <3>1. z = "zygote" /\ pc \in After(z)
      BY <2>1, <2>6 DEF GiveUpZygote64, Prompt, After
    <3>2. QED
      BY <1>3, <2>2, <2>6, <3>1 DEF GiveUpZygote64, Zygotes
  <2>7. CASE FindZygote("zygote64", "findzygote64", "prepare64")
    BY <2>1, <2>2, <2>7 DEF FindZygote, After
  <2>8. CASE /\ ~ReadZygoteNs("zygote", "prepare", "enterzygote")
             /\ ~ReadZygoteNs("zygote64", "prepare64", "enterzygote64")
             /\ ~GiveUpZygote64
             /\ ~FindZygote("zygote64", "findzygote64", "prepare64")
    <3>1. UNCHANGED known /\ pc \in After(z)
      BY <2>1, <2>8 DEF Service, Daemon, CoverInit, FindZygote, EnterZygoteNs, SkipEvent,
         StopListed, CheckRunning, Poll, StopAgain, EnterNs, UmountSbin, UmountSystem,
         Resume, RestartLogcat, Kill, After
    <3>2. QED
      BY <2>2, <3>1
  <2>9. QED
    BY <2>4, <2>5, <2>6, <2>7, <2>8
<1>6. Blank'
  <2>1. \A z \in Zygotes : zyg[z].st # "ready" => mods'[ZygoteNs(z, 1)] = {}
    <3> SUFFICES ASSUME NEW z \in Zygotes, zyg[z].st # "ready"
                 PROVE  mods'[ZygoteNs(z, 1)] = {}
      OBVIOUS
    <3>1. mods[ZygoteNs(z, 1)] = {} /\ ZygoteNs(z, 1) \in Namespaces
      BY DEF DetachInv, Blank, Prompt, ZygoteNs, Namespaces, SharedNs, Incarnations
    <3>2. CASE CoverInit
      BY <1>3, <3>1, <3>2 DEF CoverInit, ZygoteNs, InitNs, Zygotes
    <3>3. ASSUME NEW y \in Present, NEW to, pc \in After(y), EnterZygoteNs(y, pc, to)
          PROVE  mods'[ZygoteNs(z, 1)] = {}
      <4>1. zyg[y].st = "ready" /\ y # z
        BY <3>3 DEF DetachInv, Known
      <4>2. ZygoteNs(y, zpid) # ZygoteNs(z, 1)
        BY <4>1 DEF ZygoteNs
      <4>3. QED
        BY <1>3, <3>1, <3>3, <4>2 DEF EnterZygoteNs
    <3>4. CASE EnterZygoteNs("zygote", "enterzygote", "findzygote64")
      <4>1. pc = "enterzygote" /\ "zygote" \in Present /\ pc \in After("zygote")
        BY <3>4 DEF EnterZygoteNs, After
      <4>2. QED
        BY <3>3, <3>4, <4>1
    <3>5. CASE EnterZygoteNs("zygote64", "enterzygote64", "loop")
      <4>1. pc = "enterzygote64" /\ pc \in After("zygote64")
        BY <3>5 DEF EnterZygoteNs, After
      <4>2. CASE "zygote64" \in Present
        BY <3>3, <3>5, <4>1, <4>2
      <4>3. CASE "zygote64" \notin Present
        <5>1. zyg["zygote64"].gen = 0 /\ zpid \in Incarnations
          BY <1>1, <4>1, <4>3 DEF DetachInv, OnlyPresent, TypeInv, ZygotesOK, EventsOK,
             PreparingStages, Zygotes
        <5>2. UNCHANGED mods
          BY <3>5, <5>1 DEF EnterZygoteNs, Incarnations
        <5>3. QED
          BY <3>1, <5>2
      <4>4. QED
        BY <4>2, <4>3
    <3>6. CASE UmountSbin \/ UmountSystem
      BY <1>3, <3>1, <3>6 DEF UmountSbin, UmountSystem
    <3>7. CASE UNCHANGED mods
      BY <3>1, <3>7
    <3>8. QED
      BY <3>2, <3>4, <3>5, <3>6, <3>7 DEF Service, Daemon, FindZygote, ReadZygoteNs,
         GiveUpZygote64, SkipEvent, StopListed, CheckRunning, Poll, StopAgain, EnterNs,
         Resume, RestartLogcat, Kill
  <2>2. \A p \in Apps : app'[p].st \in {"none", "forked"} => mods'[AppNs(p)] = {}
    <3> SUFFICES ASSUME NEW p \in Apps, app[p].st \in {"none", "forked"}
                 PROVE  mods'[AppNs(p)] = {}
      BY <1>2 DEF SameLives
    <3>1. mods[AppNs(p)] = {} /\ AppNs(p) \in Namespaces
      BY DEF DetachInv, Blank, Namespaces
    <3>2. CASE CoverInit
      BY <1>3, <3>1, <3>2 DEF CoverInit, AppNs, InitNs
    <3>3. CASE \/ EnterZygoteNs("zygote", "enterzygote", "findzygote64")
               \/ EnterZygoteNs("zygote64", "enterzygote64", "loop")
      BY <1>3, <3>1, <3>3 DEF EnterZygoteNs, AppNs, ZygoteNs
    <3>4. CASE UmountSbin \/ UmountSystem
      BY <1>3, <3>1, <3>4 DEF UmountSbin, UmountSystem
    <3>5. CASE UNCHANGED mods
      BY <3>1, <3>5
    <3>6. QED
      BY <3>2, <3>3, <3>4, <3>5 DEF Service, Daemon, FindZygote, ReadZygoteNs,
         GiveUpZygote64, SkipEvent, StopListed, CheckRunning, Poll, StopAgain, EnterNs,
         Resume, RestartLogcat, Kill
  <2>3. QED
    BY <1>2, <2>1, <2>2 DEF Blank
<1>7. InOwn'
  <2>1. CASE StopListed
    <3>1. pc' = "check" /\ log[rd + 1] \in Listed /\ rd' = rd + 1
      BY <2>1 DEF StopListed
    <3>2. QED
      BY <1>2, <3>1 DEF InOwn, pid
  <2>2. CASE Poll
    <3>1. UNCHANGED <<rd, log>> /\ pc = "poll" /\ pc' \in {"continued", "enter"}
          /\ pid' = pid /\ pid \in Apps
      BY <1>2, <1>3, <2>2 DEF Poll, pid
    <3>2. ASSUME pc' = "enter"
          PROVE  app[pid].st = "own"
      <4>1. Alive(pid) /\ \A z \in Zygotes : NsOf(pid) # known[z]
        BY <2>2, <3>2 DEF Poll, StillZygoteNs
      <4>2. Parent[pid] \in Present /\ known[Parent[pid]] = ZygoteNs(Parent[pid], 1)
        BY <3>1 DEF DetachInv, Known, After
      <4>3. app[pid].gen = 1
        <5>1. app[pid].gen \in 1 .. MaxRestarts + 1
          BY <1>1, <3>1, <4>1 DEF TypeInv, AppsOK, Alive, Incarnations
        <5>2. QED
          BY <5>1 DEF Prompt
      <4>4. QED
        BY <4>1, <4>2, <4>3 DEF NsOf, Alive, Zygotes
    <3>3. QED
      BY <1>2, <3>1, <3>2 DEF DetachInv, InOwn, SameLives, Alive
  <2>3. CASE EnterNs
    <3>1. UNCHANGED <<rd, log, app>> /\ pc = "enter" /\ pc' \in {"umountsbin", "resume"}
          /\ pid' = pid /\ (pc' = "umountsbin" => Alive(pid) /\ ns' = NsOf(pid))
      BY <2>3 DEF EnterNs, pid, envVars
    <3>2. QED
      BY <3>1 DEF DetachInv, InOwn, NsOf
  <2>4. CASE CheckRunning \/ StopAgain \/ UmountSbin \/ UmountSystem \/ Resume
    <3>1. UNCHANGED <<rd, ns>> /\ pid' = pid /\ pc \in HandlingStages /\ pc' # "enter"
          /\ (pc' \in InsideStages => pc \in InsideStages)
      BY <1>2, <2>4 DEF CheckRunning, StopAgain, UmountSbin, UmountSystem, Resume, pid
    <3>2. QED
      BY <3>1 DEF DetachInv, InOwn
  <2>5. CASE pc' \notin HandlingStages
    BY <2>5 DEF InOwn
  <2>6. QED
    BY <2>1, <2>2, <2>3, <2>4, <2>5 DEF Service, Daemon, CoverInit, FindZygote,
       ReadZygoteNs, EnterZygoteNs, GiveUpZygote64, SkipEvent, RestartLogcat, Kill
<1>8. OnlyPresent'
  BY <1>2 DEF DetachInv, OnlyPresent
<1>9. QED
  BY <1>1, <1>5, <1>6, <1>7, <1>8 DEF DetachInv

LEMMA DetachInvStep == Prompt /\ DetachInv /\ [Next]_vars => DetachInv'
<1> SUFFICES ASSUME Prompt, DetachInv, [Next]_vars PROVE DetachInv'
  OBVIOUS
<1>1. CASE UNCHANGED vars
  <2>1. HideInv'
    BY HideInvStep DEF DetachInv
  <2>2. UNCHANGED <<zyg, app, mods, log, pc, ns, known, rd>>
    BY <1>1 DEF vars, envVars, daemonVars
  <2>3. QED
    BY <2>1, <2>2 DEF DetachInv, OnlyPresent, Known, Blank, InOwn, Alive, pid, After
<1>2. CASE Environment
  BY <1>2, EnvironmentDetachInv
<1>3. CASE Service
  BY <1>3, ServiceDetachInv
<1>4. QED
  BY <1>1, <1>2, <1>3 DEF Next, Service

(***************************************************************************)
(* A namespace other than a listed application's own never loses a mount.  *)
(***************************************************************************)
LEMMA DetachStep ==
  ASSUME Prompt, DetachInv, [Next]_vars, NEW n \in Namespaces \ {AppNs(p) : p \in Listed}
  PROVE  mods[n] \subseteq mods'[n]
<1>1. /\ mods \in [Namespaces -> SUBSET {"sbin", "system"}] /\ ns \in Namespaces
      /\ restarts = 0 /\ app \in AppType
      /\ \A z \in Zygotes : zyg[z].st # "off" => zyg[z].gen = 1
  BY DEF DetachInv, HideInv, TypeInv, TypeOK, Prompt, ZygotesOK, AppType
<1>2. CASE UNCHANGED mods
  BY <1>2
<1>3. CASE CoverInit
  BY <1>1, <1>3 DEF CoverInit
<1>4. CASE \/ EnterZygoteNs("zygote", "enterzygote", "findzygote64")
           \/ EnterZygoteNs("zygote64", "enterzygote64", "loop")
  BY <1>1, <1>4 DEF EnterZygoteNs
<1>5. CASE UmountSbin \/ UmountSystem
  <2>1. ns # n
    BY <1>5 DEF UmountSbin, UmountSystem, DetachInv, InOwn, HandlingStages, InsideStages
  <2>2. QED
    BY <1>1, <1>5, <2>1 DEF UmountSbin, UmountSystem
<1>6. ASSUME NEW z \in Zygotes, UnshareZygote(z)
      PROVE  mods[n] \subseteq mods'[n]
  <2>1. /\ mods' = [mods EXCEPT ![ZygoteNs(z, 1)] = mods[InitNs]]
        /\ mods[ZygoteNs(z, 1)] = {}
    BY <1>1, <1>6 DEF UnshareZygote, DetachInv, Blank
  <2>2. QED
    BY <1>1, <2>1
<1>7. ASSUME NEW q \in Apps, UnshareApp(q)
      PROVE  mods[n] \subseteq mods'[n]
  <2>1. /\ mods' = [mods EXCEPT ![AppNs(q)] = mods[NsOf(q)]]
        /\ mods[AppNs(q)] = {}
    BY <1>7 DEF UnshareApp, DetachInv, Blank
  <2>2. QED
    BY <1>1, <2>1
<1>8. QED
  BY <1>2, <1>3, <1>4, <1>5, <1>6, <1>7
  DEF Next, Environment, Daemon, StartZygote, RestartZygote, ForkApp, LogStart, AppDies,
      FindZygote, ReadZygoteNs, GiveUpZygote64, SkipEvent, StopListed, CheckRunning, Poll,
      StopAgain, EnterNs, Resume, RestartLogcat, Kill, vars

(***************************************************************************)
(* Where zygote64 is not late and no zygote is started again, only listed  *)
(* applications lose mounts, whatever applications die, and however often  *)
(* the service is killed; run hidesu_late shows that the first condition   *)
(* is needed.                                                              *)
(***************************************************************************)
THEOREM HideSuDetachesOnlyFromListed ==
  ASSUME LateZygote64 = FALSE, MaxRestarts = 0
  PROVE  Spec => DetachesOnlyFromListed
<1>1. Prompt
  BY DEF Prompt
<1>2. Init => DetachInv
  BY <1>1, DetachInvInit
<1>3. DetachInv /\ [Next]_vars => DetachInv'
  BY <1>1, DetachInvStep
<1>4. DetachInv /\ [Next]_vars =>
        [\A n \in Namespaces \ {AppNs(p) : p \in Listed} : mods[n] \subseteq mods'[n]]_vars
  BY <1>1, DetachStep
<1>5. QED
  BY <1>2, <1>3, <1>4, PTL DEF Spec, DetachesOnlyFromListed

=============================================================================
