-------------------------- MODULE SupervisionProofs --------------------------
(***************************************************************************)
(* That the plugin manager supervises its processes, for every value of    *)
(* its constants: the promise of module Supervision, and the states from   *)
(* which its liveness properties follow.                                   *)
(***************************************************************************)
EXTENDS PluginManagerProofs

\* An entry is a forked process of its plugin.
LEMMA EntryFacts ==
    ASSUME IInv, NEW n \in Plugins, runtimes[n] # NoProc
    PROVE  /\ core # "down"
           /\ runtimes[n] \in Procs /\ name[runtimes[n]] = n /\ runtimes[n] <= forks
           /\ IsCurrent(runtimes[n])
BY DEF IInv, DownIsEmpty, EntriesAreForked, Tables, TypeOK, TableType, ProcOrNone, IsCurrent

\* ForkedIsNamed is kept: names are given by fork.
LEMMA NamedStep ==
    ASSUME IInv, ForkedIsNamed, [Next]_vars
    PROVE  ForkedIsNamed'
<1>1. CASE UNCHANGED <<name, forks>>
  BY <1>1 DEF ForkedIsNamed
<1>2. ASSUME NEW n \in Plugins, NEW p \in Procs, Fork(n, p)
      PROVE  ForkedIsNamed'
  BY <1>2, ConstantsAssumption DEF Fork, ForkedIsNamed, IInv, TypeOK, MachineType, Procs
<1>3. UNCHANGED <<name, forks>> \/ \E n \in Plugins, p \in Procs : Fork(n, p)
  BY StepKinds, WorkingEntries
     DEF Kinds, IInv, Quiet, Spawning, Spawn, Stopping, Dying, Environment, Bind, ProcExit, ReusePid,
         Boot, machineVars
<1> QED BY <1>1, <1>2, <1>3

\* What the manager knows of runs a plugin.
LEMMA KnownName ==
    ASSUME IInv, ForkedIsNamed, NEW p \in Procs, Known(p) \/ watch[p] # "none"
    PROVE  name[p] \in Plugins
BY ConstantsAssumption DEF IInv, UnforkedIsBlank, ForkedIsNamed, Known, Procs, TypeOK, MachineType

\* Entries come from Start and Load only.
LEMMA EntriesFrom ==
    ASSUME IInv, [Next]_vars
    PROVE  \/ Boot
           \/ Spawning
           \/ \A n \in Plugins : runtimes'[n] \in {runtimes[n], NoProc}
<1> USE DEF IInv
<1>1. CASE Quiet \/ Environment
  BY <1>1 DEF Quiet, Environment, Bind, ProcExit, ReusePid, tableVars
<1>2. CASE Stopping \/ Working
  BY <1>2, WorkingEntries DEF Stopping, StopEntry, DropEntry, tableVars, TypeOK, TableType
<1>3. CASE Dying
  BY <1>3 DEF Dying, CoreGone
<1> QED BY <1>1, <1>2, <1>3, StepKinds DEF Kinds

\* A core that goes on does not forget what it knows.
LEMMA KnownStays ==
    ASSUME IInv, [Next]_vars, core' # "down", NEW p \in Procs, Known(p)
    PROVE  Known(p)'
<1> USE DEF IInv
<1>1. CASE Quiet \/ Environment \/ Stopping
  BY <1>1 DEF Quiet, Environment, Bind, ProcExit, ReusePid, Stopping, Known, callVars, rtVars
<1>2. CASE Spawning
  BY <1>2 DEF Spawning, Spawn, Known, TypeOK, CallType
<1>3. CASE Working
  <2>0. PICK q \in Procs : \/ StartThread(q) \/ Reap(q) \/ CleanEntry(q) \/ IdleExit(q)
                            \/ \E w \in Killers : KillThread(q, w)
    BY <1>3 DEF Working
  <2>1. CASE StartThread(q)
    <3>1. adopted' = adopted /\ \E s \in {"late", "ready", "failing", "error", "done"} : start' = [start EXCEPT ![q] = s]
      BY <2>1 DEF StartThread, WaitPortOk, WaitPortTimeout, GiveUp, StartError, StartDone, rtVars
    <3> QED BY <3>1 DEF Known, TypeOK, CallType
  <2>2. CASE Reap(q) \/ CleanEntry(q) \/ IdleExit(q)
    BY <2>2 DEF Reap, CleanEntry, IdleExit, Known, rtVars
  <2>3. ASSUME NEW w \in Killers, KillThread(q, w)
        PROVE  Known(p)'
    BY <2>3 DEF KillThread, KillTerm, KillReturn, KillForce, Known, rtVars
  <2> QED BY <2>0, <2>1, <2>2, <2>3
<1>4. CASE Dying
  BY <1>4 DEF Dying, CoreGone
<1>5. CASE Boot
  BY <1>5 DEF Boot, DownIsEmpty, Known
<1> QED BY <1>1, <1>2, <1>3, <1>4, <1>5, StepKinds DEF Kinds

\* killProc is called for an entry or for the process of a Start that fails.
LEMMA KillsFrom ==
    ASSUME IInv, OnlyKnown, [Next]_vars, NEW p \in Procs, NEW w \in Killers, kill'[<<p, w>>] # "idle"
    PROVE  Known(p)
<1> USE DEF IInv
<1>1. CASE kill[<<p, w>>] # "idle"
  BY <1>1 DEF OnlyKnown
<1>2. CASE Quiet \/ Environment \/ Spawning \/ Boot
  BY <1>1, <1>2 DEF Quiet, Environment, Bind, ProcExit, ReusePid, Spawning, Spawn, Boot, callVars
<1>3. CASE Stopping
  <2> PICK n \in Plugins : StopEntry(n)
    BY <1>3 DEF Stopping
  <2>1. CASE runtimes[n] = p
    BY <2>1 DEF OnlyKnown, StopEntry
  <2>2. CASE runtimes[n] # p
    BY <1>1, <2>2 DEF StopEntry, TypeOK, CallType
  <2> QED BY <2>1, <2>2
<1>4. CASE Working
  <2> PICK q \in Procs : \/ StartThread(q) \/ Reap(q) \/ CleanEntry(q) \/ IdleExit(q)
                         \/ \E v \in Killers : KillThread(q, v)
    BY <1>4 DEF Working
  <2>1. CASE GiveUp(q) \/ IdleExit(q)
    BY <1>1, <2>1 DEF GiveUp, IdleExit, Known, OnlyKnown, TypeOK, CallType
  <2>2. ASSUME NEW v \in Killers, KillThread(q, v)
        PROVE  Known(p)
    <3>1. kill[<<q, v>>] # "idle" /\ \E s \in {"idle", "signalled"} : kill' = [kill EXCEPT ![<<q, v>>] = s]
      BY <2>2 DEF KillThread, KillTerm, KillReturn, KillForce
    <3>2. kill[<<p, w>>] # "idle"
      BY <3>1 DEF TypeOK, CallType
    <3> QED BY <1>1, <3>2
  <2>3. CASE \/ WaitPortOk(q) \/ WaitPortTimeout(q) \/ StartError(q) \/ StartDone(q)
             \/ Reap(q) \/ CleanEntry(q)
    BY <1>1, <2>3 DEF WaitPortOk, WaitPortTimeout, StartError, StartDone, Reap, CleanEntry
  <2> QED BY <2>1, <2>2, <2>3 DEF StartThread
<1>5. CASE Dying
  BY <1>5 DEF Dying, CoreGone
<1> QED BY <1>2, <1>3, <1>4, <1>5, StepKinds DEF Kinds

\* A timer is set for an entry or by the Start that made the process.
LEMMA TimersFrom ==
    ASSUME IInv, OnlyKnown, [Next]_vars, core' # "down", ~Boot,
           NEW p \in Procs, timer'[p] # "nil" \/ ghost'[p] # "none" \/ p \in firing'
    PROVE  Known(p)
<1> DEFINE Had == timer[p] # "nil" \/ ghost[p] # "none" \/ p \in firing
<1>0. Had => Known(p)
  BY DEF OnlyKnown
<1>t. timer \in [Procs -> {"nil", "running", "overtaken", "spent"}] /\ ghost \in [Procs -> {"none", "running", "overtaken"}]
  BY DEF IInv, TypeOK, RuntimeType
<1>1. ASSUME NEW q \in Procs, ProcStep(q)
      PROVE  Known(p)
  <2>1. CASE StartDone(q)
    <3>1. start[q] # "none"
      BY <2>1 DEF StartDone
    <3> QED BY <1>0, <1>t, <2>1, <3>1 DEF StartDone, Arm, Known
  <2>2. CASE CleanEntry(q)
    BY <1>0, <1>t, <2>2 DEF CleanEntry, StopTimer
  <2>3. CASE Expire(q) \/ IdlePostpone(q)
    <3> q = p => Had
      BY <2>3 DEF Expire, IdlePostpone, Running
    <3> QED BY <1>0, <1>t, <2>3 DEF Expire, IdlePostpone
  <2>4. CASE \/ WaitPortOk(q) \/ WaitPortTimeout(q) \/ GiveUp(q) \/ StartError(q) \/ Reap(q)
             \/ Age(q) \/ IdleSkip(q) \/ IdleExit(q) \/ Bind(q) \/ ProcExit(q) \/ ReusePid(q)
    BY <1>0, <2>4 DEF WaitPortOk, WaitPortTimeout, GiveUp, StartError, Reap, Age, IdleSkip, IdleExit, Bind, ProcExit,
              ReusePid, rtVars
  <2>5. ASSUME NEW w \in Killers, KillThread(q, w)
        PROVE  Known(p)
    BY <1>0, <2>5 DEF KillThread, KillTerm, KillReturn, KillForce, rtVars
  <2>6. ~IdlePanic(q)
    BY DEF IdlePanic, CoreGone
  <2> QED BY <1>1, <2>1, <2>2, <2>3, <2>4, <2>5, <2>6
          DEF ProcStep, CallThread, TimerThread, StartThread, IdleCallback
<1>2. ASSUME NEW r \in Requests, RequestThread(r) \/ \E n \in Plugins : GatewayStart(r, n)
      PROVE  Known(p)
  <2>1. CASE GatewayTouch(r)
    BY <1>0, <1>t, <2>1 DEF GatewayTouch, Overtake
  <2>2. CASE \/ GatewayStarted(r) \/ GatewayDial(r) \/ GatewayFinish(r)
             \/ \E n \in Plugins : GatewayStart(r, n)
    BY <1>0, <2>2 DEF GatewayStarted, GatewayDial, GatewayFinish, GatewayStart, Spawn, NoStart, rtVars
  <2> QED BY <1>2, <2>1, <2>2 DEF RequestThread
<1>3. ASSUME NEW n \in Plugins, StopIfRunning(n) \/ StopEntry(n), UNCHANGED <<ghost, firing>>
      PROVE  Known(p)
  BY <1>0, <1>t, <1>3 DEF StopIfRunning, StopEntry, StopTimer
<1>4. ASSUME NEW a \in Admins, AdminStep(a)
      PROVE  Known(p)
  <2>1. CASE ApplyKeepalive(a)
    <3>1. admin[a].plugin \in Plugins
      BY <2>1 DEF ApplyKeepalive, IInv, TypeOK, AdminType
    <3>2. p = runtimes[admin[a].plugin] => Known(p)
      BY <3>1 DEF OnlyKnown, Procs, NoProc
    <3> QED BY <1>0, <1>t, <2>1, <3>2 DEF ApplyKeepalive, CancelTimer, Arm
  <2>2. CASE \E n \in Plugins : AdminStop(a, n) \/ RestartStop(a, n) \/ UninstallStop(a, n)
    BY <1>3, <2>2 DEF AdminStop, RestartStop, UninstallStop
  <2>3. CASE \/ RestartStart(a) \/ KeepaliveSet(a) \/ UninstallRemove(a) \/ UninstallDelete(a)
             \/ InstallRecord(a) \/ InstallRestore(a)
             \/ \E n \in Plugins : \/ AdminStart(a, n) \/ InstallFromEmbed(a, n) \/ InstallFromURL(a, n)
                                   \/ \E v \in BOOLEAN : KeepaliveCheck(a, n, v)
    BY <1>0, <2>3 DEF RestartStart, UninstallRemove, UninstallDelete, InstallRecord, InstallRestore, AdminStart,
              InstallFromEmbed, InstallFromURL, KeepaliveCheck, KeepaliveSet, Spawn, NoStart, rtVars
  <2> QED BY <1>4, <2>1, <2>2, <2>3 DEF AdminStep, AdminThread
<1>5. ASSUME MainThread \/ Shutdown \/ Crash \/ \E n \in Plugins : CrashInStart(n)
      PROVE  Known(p)
  <2>1. CASE \E n \in Plugins : ShutdownStop(n)
    BY <1>3, <2>1 DEF ShutdownStop
  <2>2. ~CoreExit /\ ~Crash /\ \A n \in Plugins : ~CrashInStart(n)
    BY DEF CoreExit, Crash, CrashInStart, CoreGone
  <2>3. CASE \/ Shutdown \/ ReviveWait \/ ListenAndServe \/ ShutdownWait
             \/ \E n \in Plugins : Revive(n)
    BY <1>0, <2>3 DEF Shutdown, ReviveWait, ListenAndServe, ShutdownWait, Revive, Spawn, NoStart, rtVars
  <2> QED BY <1>5, <2>1, <2>2, <2>3 DEF MainThread
<1>6. CASE UNCHANGED vars \/ \E q \in Ports : Squat(q)
  BY <1>0, <1>6 DEF vars, Squat, rtVars
<1> QED BY <1>1, <1>2, <1>4, <1>5, <1>6 DEF Next

\* OnlyKnown is kept.
LEMMA OnlyKnownStep ==
    ASSUME IInv, OnlyKnown, [Next]_vars
    PROVE  OnlyKnown'
<1>1. CASE core' = "down"
  BY <1>1, DownStep DEF IInv, DownIsEmpty, OnlyKnown
<1>2. ASSUME core' # "down", NEW n \in Plugins, runtimes'[n] # NoProc
      PROVE  Known(runtimes[n])'
  <2>0. ASSUME runtimes'[n] = runtimes[n]
        PROVE  Known(runtimes[n])'
    <3> DEFINE p == runtimes[n]
    <3>1. p \in Procs /\ Known(p)
      BY <1>2, <2>0, EntryFacts DEF OnlyKnown
    <3>2. start'[p] # "none" \/ p \in adopted'
      BY <1>2, <3>1, KnownStays DEF Known
    <3> QED BY <2>0, <3>2 DEF Known
  <2>1. CASE Boot
    BY <1>2, <2>1 DEF Boot, Known
  <2>2. CASE Spawning
    <3>1. PICK m \in Plugins, p \in Procs : Spawn(m, p)
      BY <2>2 DEF Spawning
    <3>2. CASE m = n
      BY <3>1, <3>2 DEF Spawn, Known, IInv, TypeOK, TableType, CallType
    <3>3. CASE m # n
      <4> runtimes'[n] = runtimes[n]
        BY <3>1, <3>3 DEF Spawn, IInv, TypeOK, TableType
      <4> QED BY <1>2, <2>0
    <3> QED BY <3>2, <3>3
  <2>3. CASE runtimes'[n] = runtimes[n]
    BY <1>2, <2>3, <2>0
  <2> QED BY <1>2, <2>1, <2>2, <2>3, EntriesFrom
<1>3. ASSUME core' # "down", NEW p \in Procs,
             \/ timer'[p] # "nil" \/ ghost'[p] # "none" \/ p \in firing'
             \/ \E w \in Killers : kill'[<<p, w>>] # "idle"
      PROVE  Known(p)'
  <2>1. CASE Boot
    <3>1. ~\E w \in Killers : kill'[<<p, w>>] # "idle"
      BY <2>1 DEF Boot, IInv, DownIsEmpty, callVars
    <3>2. UNCHANGED <<ghost, firing>> /\ ghost[p] = "none" /\ firing = {}
      BY <2>1 DEF Boot, IInv, DownIsEmpty
    <3>3. timer'[p] # "nil" => p \in adopted'
      BY <2>1 DEF Boot
    <3> QED BY <1>3, <3>1, <3>2, <3>3 DEF Known
  <2>2. CASE ~Boot
    <3> Known(p)
      BY <1>3, <2>2, KillsFrom, TimersFrom
    <3> QED BY <1>3, KnownStays
  <2> QED BY <2>1, <2>2
<1> QED BY <1>1, <1>2, <1>3 DEF OnlyKnown

-----------------------------------------------------------------------------
(* The manager implements PortLease *)

\* The ports that the entries hold, and those that port-map.json notes.
Held == PortsIn(runtimes)
Noted == PortsIn(portMap)

\* Nothing but the death of the core changes the ports that entries hold and the file notes.
LEMMA PortsStay ==
    ASSUME IInv, [Next]_vars, NEW m \in Plugins
    PROVE  /\ Noted'[m] = IF portMap'[m] = NoProc THEN 0 ELSE port'[portMap'[m]]
           /\ Held'[m] = IF runtimes'[m] = NoProc THEN 0 ELSE port'[runtimes'[m]]
           /\ portMap'[m] = portMap[m] => Noted'[m] = Noted[m]
           /\ runtimes'[m] = runtimes[m] => Held'[m] = Held[m]
           /\ runtimes'[m] = portMap[m] => Held'[m] = Noted[m]
<1>1. \A t \in Tables : t[m] # NoProc => port'[t[m]] = port[t[m]]
  BY EntriesStay DEF IInv
<1>2. /\ Noted'[m] = IF portMap'[m] = NoProc THEN 0 ELSE port'[portMap'[m]]
      /\ Held'[m] = IF runtimes'[m] = NoProc THEN 0 ELSE port'[runtimes'[m]]
  BY DEF Noted, Held, PortsIn
<1>3. /\ Noted[m] = IF portMap[m] = NoProc THEN 0 ELSE port[portMap[m]]
      /\ Held[m] = IF runtimes[m] = NoProc THEN 0 ELSE port[runtimes[m]]
  BY DEF Noted, Held, PortsIn
<1> QED BY <1>1, <1>2, <1>3 DEF Tables

\* Both are functions of the plugins, so they are what they are at each.
LEMMA PortsByPlugin ==
    ASSUME IInv, [Next]_vars
    PROVE  /\ runtimes' = runtimes => Held' = Held
           /\ portMap' = portMap => Noted' = Noted
           /\ Noted' \in {Noted, Held'}
<1>1. /\ Held = [m \in Plugins |-> Held[m]] /\ Held' = [m \in Plugins |-> Held'[m]]
      /\ Noted = [m \in Plugins |-> Noted[m]] /\ Noted' = [m \in Plugins |-> Noted'[m]]
  BY DEF Held, Noted, PortsIn
<1>2. runtimes' = runtimes => Held' = Held
  BY <1>1, PortsStay
<1>3. portMap' = portMap => Noted' = Noted
  BY <1>1, PortsStay
<1>4. portMap' = runtimes' => Noted' = Held'
  BY <1>1, PortsStay
<1> QED BY <1>2, <1>3, <1>4, FileStep DEF IInv

\* Every step of the goroutines of a process leaves the table alone or drops an entry.
LEMMA WorkingTable ==
    ASSUME IInv, OnlyKnown, ForkedIsNamed, Working
    PROVE  UNCHANGED tableVars \/ \E n \in Plugins : DropEntry(n)
<1> PICK p \in Procs : \/ StartThread(p) \/ Reap(p) \/ CleanEntry(p) \/ IdleExit(p)
                       \/ \E w \in Killers : KillThread(p, w)
  BY DEF Working
<1>1. CASE GiveUp(p)
  <2> name[p] \in Plugins
    BY <1>1, KnownName DEF GiveUp, Known
  <2> QED BY <1>1 DEF GiveUp
<1>2. CASE CleanEntry(p)
  <2> name[p] \in Plugins
    BY <1>2, KnownName DEF CleanEntry
  <2> QED BY <1>2 DEF CleanEntry
<1>3. CASE IdleExit(p)
  <2> name[p] \in Plugins
    BY <1>3, KnownName DEF IdleExit, OnlyKnown
  <2> QED BY <1>3 DEF IdleExit
<1>4. CASE \/ WaitPortOk(p) \/ WaitPortTimeout(p) \/ StartError(p) \/ StartDone(p) \/ Reap(p)
           \/ \E w \in Killers : KillThread(p, w)
  BY <1>4 DEF WaitPortOk, WaitPortTimeout, StartError, StartDone, Reap, KillThread, KillTerm, KillReturn, KillForce
<1> QED BY <1>1, <1>2, <1>3, <1>4 DEF StartThread

\* A step maps to a step of PortLease or leaves the leases alone.
LEMMA LeaseStep ==
    ASSUME IInv, OnlyKnown, ForkedIsNamed, [Next]_vars
    PROVE  Lease!Next \/ UNCHANGED <<core # "down", Held, Noted>>
<1> USE DEF IInv
<1>n. Noted' \in {Noted, Held'}
  BY PortsByPlugin
<1>h. /\ Held = [m \in Plugins |-> Held[m]] /\ Held' = [m \in Plugins |-> Held'[m]]
      /\ Noted = [m \in Plugins |-> Noted[m]]
  BY DEF Held, Noted, PortsIn
<1>1. ASSUME UNCHANGED tableVars, core' # "down" <=> core # "down"
      PROVE  UNCHANGED <<core # "down", Held, Noted>>
  BY <1>1, PortsByPlugin DEF tableVars
<1>2. CASE Spawning
  <2>1. PICK n \in Plugins, p \in Procs : Spawn(n, p)
    BY <1>2 DEF Spawning
  <2>2. /\ runtimes' = [runtimes EXCEPT ![n] = p] /\ runtimes[n] = NoProc
        /\ runtimes \in [Plugins -> ProcOrNone]
    BY <2>1 DEF Spawn, TypeOK, TableType
  <2>3. port'[p] \in FreePorts /\ p # NoProc
    BY <2>1, ForkEntries DEF Spawn, Procs, NoProc
  <2>4. \A m \in Plugins : m # n => Held'[m] = Held[m]
    BY <2>2, PortsStay
  <2>5. Held[n] = 0 /\ Held'[n] = port'[p]
    BY <2>2, <2>3, PortsStay DEF Held, PortsIn
  <2>6. \A m \in Plugins : Held[m] # port'[p]
    BY <2>3, ConstantsAssumption DEF Held, PortsIn, FreePorts
  <2>7. port'[p] \in Ports
    BY <2>3 DEF FreePorts
  <2>8. Held' = [Held EXCEPT ![n] = port'[p]]
    BY <1>h, <2>4, <2>5
  <2>9. (core # "down") /\ (core # "down")'
    BY <1>2 DEF Spawning
  <2>10. Lease!Take(n, port'[p])
    BY <1>n, <2>5, <2>6, <2>8, <2>9 DEF Lease!Take, Lease!Note, Held, Noted
  <2> QED BY <2>7, <2>10 DEF Lease!Next
<1>3. ASSUME NEW n \in Plugins, DropEntry(n), core # "down", core' # "down"
      PROVE  Lease!Next
  <2>1. runtimes' = [runtimes EXCEPT ![n] = NoProc] /\ runtimes \in [Plugins -> ProcOrNone]
    BY <1>3 DEF DropEntry, TypeOK, TableType
  <2>2. \A m \in Plugins : m # n => Held'[m] = Held[m]
    BY <2>1, PortsStay
  <2>3. Held'[n] = 0
    BY <2>1, PortsStay
  <2>4. Held' = [Held EXCEPT ![n] = 0]
    BY <1>h, <2>2, <2>3
  <2>5. (core # "down") /\ (core # "down")'
    BY <1>3
  <2>6. Lease!Release(n)
    BY <1>n, <2>4, <2>5 DEF Lease!Release, Lease!Note, Held, Noted
  <2> QED BY <2>6 DEF Lease!Next
<1>4. CASE Quiet \/ Environment
  BY <1>1, <1>4 DEF Quiet, Environment, Bind, ProcExit, ReusePid, mainVars
<1>5. CASE Stopping
  BY <1>3, <1>5 DEF Stopping, StopEntry, Up
<1>6. CASE Working
  BY <1>1, <1>3, <1>6, WorkingTable DEF Working
<1>7. CASE Dying
  <2>1. runtimes' = [m \in Plugins |-> NoProc] /\ portMap' = portMap
    BY <1>7 DEF Dying, CoreGone
  <2>2. \A m \in Plugins : Held'[m] = 0
    BY <2>1, PortsStay
  <2>3. Held' = [m \in Plugins |-> 0]
    BY <1>h, <2>2
  <2>4. (core # "down") /\ ~(core # "down")'
    BY <1>7 DEF Dying, CoreGone
  <2>5. Lease!Fail
    BY <2>1, <2>3, <2>4, PortsByPlugin DEF Lease!Fail, Lease!NoLease, Held, Noted
  <2> QED BY <2>5 DEF Lease!Next
<1>8. CASE Boot
  <2> DEFINE void == {m \in Plugins : ~Adoptable(m)}
  <2>1. \A m \in Plugins : runtimes'[m] = IF m \in void THEN NoProc ELSE portMap[m]
    BY <1>8 DEF Boot
  <2>2. \A m \in Plugins : Held'[m] = IF m \in void THEN 0 ELSE Noted[m]
    BY <2>1, PortsStay
  <2>3. Held' = [m \in Plugins |-> IF m \in void THEN 0 ELSE Noted[m]]
    BY <1>h, <2>2
  <2>4. ~(core # "down") /\ (core # "down")'
    BY <1>8 DEF Boot
  <2>5. Lease!TakeOver(void)
    BY <1>n, <2>3, <2>4 DEF Lease!TakeOver, Lease!Note, Held, Noted
  <2>6. void \in SUBSET Plugins
    OBVIOUS
  <2> QED BY <2>5, <2>6 DEF Lease!Next
<1> QED BY <1>2, <1>4, <1>5, <1>6, <1>7, <1>8, StepKinds DEF Kinds

-----------------------------------------------------------------------------
(* The manager implements Supervision *)

LiveProcs == {p \in Procs : Live(p)}
DoomedProcs == {p \in Procs : Live(p) /\ \E w \in Killers : kill[<<p, w>>] # "idle"}
BornProcs == {p \in Procs : p <= forks}
Books == <<core # "down", runtimes, portMap, LiveProcs, DoomedProcs, BornProcs>>

\* What a step does to the sets of processes follows from what it does to each process.
LEMMA BooksKept ==
    ASSUME core' # "down" <=> core # "down", UNCHANGED <<runtimes, portMap, forks>>,
           \A p \in Procs : /\ Live(p)' <=> Live(p)
                            /\ Live(p) => ((\E w \in Killers : kill'[<<p, w>>] # "idle")
                                               <=> \E w \in Killers : kill[<<p, w>>] # "idle")
    PROVE  UNCHANGED Books
<1>1. LiveProcs' = LiveProcs /\ DoomedProcs' = DoomedProcs
  BY DEF LiveProcs, DoomedProcs
<1>2. BornProcs' = BornProcs /\ (core # "down")' = (core # "down")
  BY DEF BornProcs
<1> QED BY <1>1, <1>2 DEF Books

\* A new process, from Start's critical section to an entry.
LEMMA SpawningIsStart ==
    ASSUME IInv, OnlyKnown, Spawning
    PROVE  Supervised!Next
<1> USE DEF IInv
<1> PICK n \in Plugins, p \in Procs : Spawn(n, p)
  BY DEF Spawning
<1>0. p = forks + 1 /\ forks' = p /\ forks \in Nat
  BY ConstantsAssumption DEF Spawn, Fork, TypeOK, MachineType
<1>1. /\ os' = [os EXCEPT ![p] = "booting"] /\ kill' = kill
      /\ runtimes' = [runtimes EXCEPT ![n] = p] /\ runtimes[n] = NoProc
      /\ portMap' \in {portMap, runtimes'}
  BY DEF Spawn, SavePortMap
<1>2. LiveProcs' = LiveProcs \cup {p}
  BY <1>1 DEF LiveProcs, Live, TypeOK, MachineType
<1>3. \A w \in Killers : kill[<<p, w>>] = "idle"
  BY <1>0, <1>1 DEF OnlyKnown, Known, UnforkedIsBlank, Procs
<1>4. DoomedProcs' = DoomedProcs
  BY <1>0, <1>1, <1>3 DEF DoomedProcs, Live, TypeOK, MachineType
<1>5. BornProcs' = BornProcs \cup {p} /\ p \notin BornProcs
  BY <1>0 DEF BornProcs, Procs
<1>6. Supervised!Start(n, p)
  BY <1>1, <1>2, <1>4, <1>5 DEF Supervised!Start, Supervised!Note, LiveProcs, DoomedProcs, BornProcs, Spawning
<1> QED BY <1>6 DEF Supervised!Next

\* An entry goes when its process is dead, or is to be killed from now on.
LEMMA DropIsDrop ==
    ASSUME IInv, NEW n \in Plugins, runtimes[n] # NoProc, DropEntry(n),
           core' # "down", UNCHANGED <<os, forks>>,
           \A q \in Procs : \A w \in Killers :
              q # runtimes[n] => (kill'[<<q, w>>] # "idle" <=> kill[<<q, w>>] # "idle"),
           Live(runtimes[n]) => \E w \in Killers : kill'[<<runtimes[n], w>>] # "idle",
           ~Live(runtimes[n]) \/ \A w \in Killers :
              kill[<<runtimes[n], w>>] # "idle" => kill'[<<runtimes[n], w>>] # "idle"
    PROVE  Supervised!Next
<1>1. core # "down" /\ runtimes[n] \in Procs
  BY EntryFacts
<1>2. runtimes' = [runtimes EXCEPT ![n] = NoProc] /\ portMap' \in {portMap, runtimes'}
  BY DEF DropEntry, SavePortMap
<1>3. LiveProcs' = LiveProcs /\ BornProcs' = BornProcs
  BY DEF LiveProcs, BornProcs, Live
<1>4. DoomedProcs' = DoomedProcs \cup ({runtimes[n]} \cap LiveProcs)
  BY <1>1 DEF DoomedProcs, LiveProcs, Live
<1>5. Supervised!Drop(n)
  BY <1>1, <1>2, <1>3, <1>4 DEF Supervised!Drop, Supervised!Note, LiveProcs, DoomedProcs, BornProcs
<1> QED BY <1>5 DEF Supervised!Next

\* A process that ends is not about to be killed any more.
LEMMA EndIsEnd ==
    ASSUME TypeOK, NEW p \in Procs, Live(p), UNCHANGED <<core, runtimes, portMap, forks>>,
           \E s \in {"zombie", "gone"} : os' = [os EXCEPT ![p] = s],
           \A q \in Procs : \A w \in Killers : q # p => kill'[<<q, w>>] = kill[<<q, w>>]
    PROVE  Supervised!Next
<1>0. \A q \in Procs : Live(q)' <=> Live(q) /\ q # p
  BY DEF Live, TypeOK, MachineType
<1>1. LiveProcs' = LiveProcs \ {p} /\ DoomedProcs' = DoomedProcs \ {p} /\ p \in LiveProcs
  BY <1>0 DEF LiveProcs, DoomedProcs
<1>2. BornProcs' = BornProcs
  BY DEF BornProcs
<1>3. Supervised!End(p)
  BY <1>1, <1>2 DEF Supervised!End, LiveProcs, DoomedProcs, BornProcs
<1> QED BY <1>3 DEF Supervised!Next

\* The goroutines of Start, cmd.Wait, killProc and the idle timer.
LEMMA WorkingSupervised ==
    ASSUME IInv, OnlyKnown, ForkedIsNamed, Working
    PROVE  Supervised!Next \/ UNCHANGED Books
<1> USE DEF IInv
<1>0. core # "down" /\ core' # "down" /\ core' = core
  BY DEF Working
<1> PICK p \in Procs : \/ StartThread(p) \/ Reap(p) \/ CleanEntry(p) \/ IdleExit(p)
                       \/ \E w \in Killers : KillThread(p, w)
  BY DEF Working
<1>1. CASE WaitPortOk(p) \/ WaitPortTimeout(p) \/ StartDone(p) \/ StartError(p) \/ Reap(p)
  <2>1. UNCHANGED <<runtimes, portMap, forks, kill>> /\ \A q \in Procs : Live(q)' <=> Live(q)
    BY <1>1 DEF WaitPortOk, WaitPortTimeout, StartDone, StartError, Reap, Live, TypeOK, MachineType, tableVars, machineVars
  <2> QED BY <1>0, <2>1, BooksKept
<1>2. CASE GiveUp(p)
  <2>1. /\ UNCHANGED <<os, forks>> /\ kill'[<<p, "start">>] = "begun"
        /\ \A q \in Procs : \A w \in Killers : <<q, w>> # <<p, "start">> => kill'[<<q, w>>] = kill[<<q, w>>]
    BY <1>2 DEF GiveUp, machineVars, TypeOK, CallType, Killers
  <2>2. CASE IsCurrent(p)
    <3>1. name[p] \in Plugins /\ runtimes[name[p]] = p /\ p # NoProc /\ DropEntry(name[p])
      BY <1>2, <2>2, KnownName DEF IsCurrent, GiveUp, Known, Procs, NoProc
    <3>2. /\ \A q \in Procs : \A w \in Killers :
                q # p => (kill'[<<q, w>>] # "idle" <=> kill[<<q, w>>] # "idle")
          /\ \A w \in Killers : kill[<<p, w>>] # "idle" => kill'[<<p, w>>] # "idle"
          /\ \E w \in Killers : kill'[<<p, w>>] # "idle"
      BY <2>1 DEF Killers
    <3> QED BY <1>0, <2>1, <3>1, <3>2, DropIsDrop
  <2>3. CASE ~IsCurrent(p)
    <3>1. Live(p) => \E w \in Killers : kill[<<p, w>>] # "idle"
      BY <1>2, <2>3 DEF NoLostProcess, Known, IsCurrent, GiveUp
    <3>2. UNCHANGED <<runtimes, portMap>> /\ \A q \in Procs : Live(q)' <=> Live(q)
      BY <1>2, <2>1, <2>3 DEF GiveUp, tableVars, Live
    <3>3. \A q \in Procs : Live(q) => ((\E w \in Killers : kill'[<<q, w>>] # "idle")
                                          <=> \E w \in Killers : kill[<<q, w>>] # "idle")
      BY <2>1, <3>1 DEF Killers
    <3> QED BY <1>0, <2>1, <3>2, <3>3, BooksKept
  <2> QED BY <2>2, <2>3
<1>3. CASE CleanEntry(p)
  <2>1. UNCHANGED <<os, forks, kill>> /\ ~Live(p)
    BY <1>3 DEF CleanEntry, machineVars, ExitedIsDead
  <2>2. CASE IsCurrent(p)
    <3>1. name[p] \in Plugins /\ runtimes[name[p]] = p /\ p # NoProc /\ DropEntry(name[p])
      BY <1>3, <2>2, KnownName DEF IsCurrent, CleanEntry, Procs, NoProc
    <3> QED BY <1>0, <2>1, <3>1, DropIsDrop
  <2>3. CASE ~IsCurrent(p)
    <3> UNCHANGED <<runtimes, portMap>> /\ \A q \in Procs : Live(q)' <=> Live(q)
      BY <1>3, <2>1, <2>3 DEF CleanEntry, tableVars, Live
    <3> QED BY <1>0, <2>1, BooksKept
  <2> QED BY <2>2, <2>3
<1>4. CASE IdleExit(p)
  <2>1. /\ UNCHANGED <<os, forks>> /\ kill'[<<p, "stop">>] = "begun"
        /\ \A q \in Procs : \A w \in Killers : <<q, w>> # <<p, "stop">> => kill'[<<q, w>>] = kill[<<q, w>>]
    BY <1>4 DEF IdleExit, machineVars, TypeOK, CallType, Killers
  <2>2. name[p] \in Plugins /\ runtimes[name[p]] = p /\ p # NoProc /\ DropEntry(name[p])
    BY <1>4, KnownName DEF IsCurrent, IdleExit, IdleDue, OnlyKnown, Procs, NoProc
  <2>3. /\ \A q \in Procs : \A w \in Killers :
              q # p => (kill'[<<q, w>>] # "idle" <=> kill[<<q, w>>] # "idle")
        /\ \A w \in Killers : kill[<<p, w>>] # "idle" => kill'[<<p, w>>] # "idle"
        /\ \E w \in Killers : kill'[<<p, w>>] # "idle"
    BY <2>1 DEF Killers
  <2> QED BY <1>0, <2>1, <2>2, <2>3, DropIsDrop
<1>5. ASSUME NEW w \in Killers, KillThread(p, w)
      PROVE  Supervised!Next \/ UNCHANGED Books
  <2>1. /\ UNCHANGED <<runtimes, portMap, forks>> /\ kill[<<p, w>>] # "idle"
        /\ \A q \in Procs : \A v \in Killers : <<q, v>> # <<p, w>> => kill'[<<q, v>>] = kill[<<q, v>>]
    BY <1>5 DEF KillThread, KillTerm, KillReturn, KillForce, tableVars, machineVars, TypeOK, CallType
  <2>2. CASE KillTerm(p, w)
    <3>1. os' = os /\ kill'[<<p, w>>] # "idle"
      BY <2>2 DEF KillTerm, machineVars, TypeOK, CallType
    <3>2. \A q \in Procs : /\ Live(q)' <=> Live(q)
                           /\ \A v \in Killers : kill'[<<q, v>>] # "idle" <=> kill[<<q, v>>] # "idle"
      BY <2>1, <3>1 DEF Live
    <3> QED BY <1>0, <2>1, <3>2, BooksKept
  <2>3. CASE ~Live(p) /\ os' = os
    <3>1. \A q \in Procs : Live(q)' <=> Live(q)
      BY <2>3 DEF Live
    <3>2. \A q \in Procs : Live(q) => ((\E v \in Killers : kill'[<<q, v>>] # "idle")
                                          <=> \E v \in Killers : kill[<<q, v>>] # "idle")
      BY <2>1, <2>3
    <3> QED BY <1>0, <2>1, <3>1, <3>2, BooksKept
  <2>4. CASE KillReturn(p, w)
    <3>1. Known(p)
      BY <2>1 DEF OnlyKnown
    <3>2. ~Live(p)
      BY <2>4, <3>1 DEF KillReturn, SameProcess, LiveTickIsOwn, Live, InProcTable
    <3> QED BY <2>3, <2>4, <3>2 DEF KillReturn, machineVars
  <2>5. CASE KillForce(p, w)
    <3>1. CASE Live(p)
      <4>1. Dead(p) \in {"zombie", "gone"} /\ os' = [os EXCEPT ![p] = Dead(p)]
        BY <2>5, <3>1 DEF KillForce, Dead
      <4>2. \A q \in Procs : \A v \in Killers : q # p => kill'[<<q, v>>] = kill[<<q, v>>]
        BY <2>1
      <4> QED BY <1>0, <2>1, <3>1, <4>1, <4>2, EndIsEnd
    <3>2. CASE ~Live(p)
      <4> os' = os
        BY <2>5, <3>2 DEF KillForce, TypeOK, MachineType
      <4> QED BY <2>3, <3>2
    <3> QED BY <3>1, <3>2
  <2> QED BY <1>5, <2>2, <2>4, <2>5 DEF KillThread
<1> QED BY <1>1, <1>2, <1>3, <1>4, <1>5 DEF StartThread

\* The core dies: nobody goes on with what killProc has begun.
LEMMA DyingIsFail ==
    ASSUME IInv, Dying
    PROVE  Supervised!Next
<1> USE DEF IInv
<1>1. /\ core # "down" /\ core' = "down" /\ UNCHANGED portMap
      /\ runtimes' = [n \in Plugins |-> NoProc]
      /\ \A p \in Procs : \A w \in Killers : kill'[<<p, w>>] = "idle"
  BY DEF Dying, CoreGone
<1>2. DoomedProcs' = {}
  BY <1>1 DEF DoomedProcs
<1>3. \A p \in Procs : ReapedByInit[p] \in {"booting", "serving"} <=> Live(p)
  BY DEF ReapedByInit, Live
<1>4. CASE os' = ReapedByInit /\ UNCHANGED forks
  <2>1. LiveProcs' = LiveProcs /\ BornProcs' = BornProcs
    BY <1>3, <1>4 DEF LiveProcs, BornProcs, Live
  <2>2. Supervised!Fail
    BY <1>1, <1>2, <2>1 DEF Supervised!Fail, Supervised!Gone, LiveProcs, DoomedProcs, BornProcs
  <2> QED BY <2>2 DEF Supervised!Next
<1>5. ASSUME NEW n \in Plugins, NEW p \in Procs, Fork(n, p), os' = [ReapedByInit EXCEPT ![p] = "booting"]
      PROVE  Supervised!Next
  <2>1. p = forks + 1 /\ forks' = p /\ forks \in Nat
    BY <1>5, ForkEntries, ConstantsAssumption DEF TypeOK, MachineType
  <2>2. LiveProcs' = LiveProcs \cup {p}
    BY <1>3, <1>5 DEF LiveProcs, Live, ReapedByInit
  <2>3. BornProcs' = BornProcs \cup {p} /\ p \notin BornProcs
    BY <2>1 DEF BornProcs, Procs
  <2>4. Supervised!FailStarting(p)
    BY <1>1, <1>2, <2>2, <2>3 DEF Supervised!FailStarting, Supervised!Gone, LiveProcs, DoomedProcs, BornProcs
  <2> QED BY <2>4 DEF Supervised!Next
<1> QED BY <1>4, <1>5 DEF Dying

\* Load goes by port-map.json, and strikes out what has no listener.
LEMMA BootIsTakeOver ==
    ASSUME Boot
    PROVE  Supervised!Next
<1> DEFINE void == {n \in Plugins : ~Adoptable(n)}
<1>1. core = "down" /\ core' # "down" /\ UNCHANGED <<os, forks, kill>>
  BY DEF Boot, machineVars, callVars
<1>2. /\ runtimes' = [n \in Plugins |-> IF n \in void THEN NoProc ELSE portMap[n]]
      /\ portMap' \in {portMap, runtimes'}
  BY DEF Boot, SavePortMap
<1>3. LiveProcs' = LiveProcs /\ DoomedProcs' = DoomedProcs /\ BornProcs' = BornProcs
  BY <1>1 DEF LiveProcs, DoomedProcs, BornProcs, Live
<1>4. Supervised!TakeOver(void)
  BY <1>1, <1>2, <1>3 DEF Supervised!TakeOver, Supervised!Note, LiveProcs, DoomedProcs, BornProcs
<1>5. void \in SUBSET Plugins
  OBVIOUS
<1> QED BY <1>4, <1>5 DEF Supervised!Next

\* Processes end; what else happens to them is not in the books.
LEMMA EnvironmentSupervised ==
    ASSUME IInv, Environment
    PROVE  Supervised!Next \/ UNCHANGED Books
<1> PICK p \in Procs : Bind(p) \/ ProcExit(p) \/ ReusePid(p)
  BY DEF Environment
<1>1. UNCHANGED <<core, runtimes, portMap, forks, kill>>
  BY DEF Bind, ProcExit, ReusePid, mainVars, tableVars, callVars
<1>2. CASE Bind(p) \/ ReusePid(p)
  <2> \A q \in Procs : Live(q)' <=> Live(q)
    BY <1>2 DEF Bind, ReusePid, Live, IInv, TypeOK, MachineType
  <2> QED BY <1>1, BooksKept
<1>3. CASE ProcExit(p)
  <2> Live(p) /\ Dead(p) \in {"zombie", "gone"} /\ os' = [os EXCEPT ![p] = Dead(p)]
    BY <1>3 DEF ProcExit, Dead
  <2> QED BY <1>1, EndIsEnd DEF IInv
<1> QED BY <1>2, <1>3

\* A step maps to a step of Supervision or leaves the books alone.
LEMMA SupervisionStep ==
    ASSUME IInv, OnlyKnown, ForkedIsNamed, [Next]_vars
    PROVE  Supervised!Next \/ UNCHANGED Books
<1>1. CASE Quiet
  <2> UNCHANGED <<runtimes, portMap, forks, kill>> /\ \A q \in Procs : Live(q)' <=> Live(q)
    BY <1>1 DEF Quiet, Live, tableVars, callVars
  <2> QED BY <1>1, BooksKept DEF Quiet
<1>2. CASE Stopping
  <2>1. PICK n \in Plugins : StopEntry(n)
    BY <1>2 DEF Stopping
  <2>2. /\ DropEntry(n) /\ runtimes[n] # NoProc /\ kill' = [kill EXCEPT ![<<runtimes[n], "stop">>] = "begun"]
        /\ core' # "down" /\ UNCHANGED <<os, forks>>
    BY <1>2, <2>1 DEF Stopping, StopEntry, Up, machineVars
  <2>3. runtimes[n] \in Procs
    BY <2>2, EntryFacts
  <2>4. /\ kill'[<<runtimes[n], "stop">>] = "begun"
        /\ \A q \in Procs : \A w \in Killers :
              <<q, w>> # <<runtimes[n], "stop">> => kill'[<<q, w>>] = kill[<<q, w>>]
    BY <2>2, <2>3 DEF IInv, TypeOK, CallType, Killers
  <2> QED BY <2>2, <2>3, <2>4, DropIsDrop DEF Killers
<1>3. CASE Spawning \/ Dying \/ Boot
  BY <1>3, SpawningIsStart, DyingIsFail, BootIsTakeOver
<1>4. CASE Working \/ Environment
  BY <1>4, WorkingSupervised, EnvironmentSupervised
<1>5. Kinds
  BY StepKinds DEF IInv
<1> QED BY <1>1, <1>2, <1>3, <1>4, <1>5 DEF Kinds

\* Both hold before the core first boots.
LEMMA KnownInit == Init => OnlyKnown /\ ForkedIsNamed
<1>1. Init => ForkedIsNamed
  BY ConstantsAssumption DEF Init, ForkedIsNamed, Procs
<1>2. ASSUME Init
      PROVE  OnlyKnown
  <2>1. \A p \in Procs : timer[p] = "nil" /\ ghost[p] = "none" /\ p \notin firing
    BY <1>2 DEF Init
  <2>2. \A p \in Procs : \A w \in Killers : kill[<<p, w>>] = "idle"
    BY <1>2 DEF Init
  <2>3. \A n \in Plugins : runtimes[n] = NoProc
    BY <1>2 DEF Init
  <2> QED BY <2>1, <2>2, <2>3 DEF OnlyKnown
<1> QED BY <1>1, <1>2

\* The core's memory is about processes it has forked or adopted, each with its plugin.
THEOREM KnownInvariance == Spec => [](OnlyKnown /\ ForkedIsNamed)
<1> IInv /\ OnlyKnown /\ ForkedIsNamed /\ [Next]_vars => OnlyKnown' /\ ForkedIsNamed'
  BY OnlyKnownStep, NamedStep
<1> QED BY KnownInit, Invariance, PTL DEF Spec

\* The manager leases ports as PortLease says, through every crash and every save that fails.
THEOREM LeaseCorrect == Spec => LeaseSpec
<1>1. Init => Lease!Init
  BY DEF Init, Lease!Init, Lease!NoLease, PortsIn
<1>2. IInv /\ OnlyKnown /\ ForkedIsNamed /\ [Next]_vars => [Lease!Next]_<<core # "down", Held, Noted>>
  BY LeaseStep
<1> QED BY <1>1, <1>2, KnownInvariance, Invariance, PTL DEF Spec, LeaseSpec, Lease!Spec, Held, Noted

\* The manager keeps Supervision's promise on processes, through every crash of the core.
THEOREM SupervisionCorrect == Spec => SupervisionSpec
<1>1. Init => Supervised!Init
  BY DEF Init, Supervised!Init, Live, Procs
<1>2. IInv /\ OnlyKnown /\ ForkedIsNamed /\ [Next]_vars => [Supervised!Next]_Books
  BY SupervisionStep
<1> QED BY <1>1, <1>2, KnownInvariance, Invariance, PTL
        DEF Spec, SupervisionSpec, Supervised!Spec, Books, LiveProcs, DoomedProcs, BornProcs

-----------------------------------------------------------------------------
(* A dead process does not keep its entry *)

\* What the environment does to a process that Start or cmd.Wait waits for.
LEMMA WatchedEnvironment ==
    ASSUME IInv, StartIsWatched, Environment
    PROVE  StartIsWatched'
<1>1. PICK p \in Procs : Bind(p) \/ ProcExit(p) \/ ReusePid(p)
  BY DEF Environment
<1>2. UNCHANGED <<runtimes, start, watch>>
  BY <1>1 DEF Bind, ProcExit, ReusePid, tableVars, callVars
<1>3. \A q \in Procs : q # p => os'[q] = os[q]
  BY <1>1 DEF Bind, ProcExit, ReusePid, IInv, TypeOK, MachineType
<1>4. InProcTable(p) /\ start[p] # "none" => InProcTable(p)'
  BY <1>1 DEF Bind, ProcExit, ReusePid, InProcTable, Dead, IInv, TypeOK, MachineType
<1> QED BY <1>2, <1>3, <1>4 DEF StartIsWatched, InProcTable

\* What the goroutines of a process do to it.
LEMMA WatchedWorking ==
    ASSUME IInv, StartIsWatched, Working
    PROVE  StartIsWatched'
<1> USE DEF IInv
<1>0. PICK p \in Procs : \/ StartThread(p) \/ Reap(p) \/ CleanEntry(p) \/ IdleExit(p)
                          \/ \E w \in Killers : KillThread(p, w)
  BY DEF Working
<1>r. \A n \in Plugins : runtimes'[n] \in {runtimes[n], NoProc}
  BY WorkingEntries DEF DropEntry, tableVars, TypeOK, TableType
<1>n. \A n \in Plugins : runtimes[n] = p => name[p] = n
  BY EntryFacts DEF Procs, NoProc
<1>p. \A q \in Procs : q # NoProc
  BY DEF Procs, NoProc
<1>1. CASE WaitPortOk(p) \/ WaitPortTimeout(p) \/ StartDone(p)
  BY <1>1 DEF WaitPortOk, WaitPortTimeout, StartDone, StartIsWatched, InProcTable, TypeOK, CallType, tableVars, machineVars
<1>2. CASE GiveUp(p)
  <2>1. \A n \in Plugins : runtimes'[n] # p
    BY <1>2, <1>n, <1>p DEF GiveUp, DropEntry, IsCurrent, tableVars, TypeOK, TableType
  <2> QED BY <1>2, <1>r, <1>p, <2>1 DEF GiveUp, StartIsWatched, InProcTable, TypeOK, CallType, machineVars
<1>3. CASE StartError(p) \/ Reap(p)
  BY <1>3 DEF StartError, Reap, StartIsWatched, InProcTable, TypeOK, CallType, MachineType, tableVars
<1>4. CASE CleanEntry(p)
  <2>1. \A n \in Plugins : runtimes'[n] # p
    BY <1>4, <1>n, <1>p DEF CleanEntry, DropEntry, IsCurrent, tableVars, TypeOK, TableType
  <2> QED BY <1>4, <1>r, <1>p, <2>1 DEF CleanEntry, StartIsWatched, InProcTable, TypeOK, CallType, machineVars
<1>5. CASE IdleExit(p)
  BY <1>5, <1>r, <1>p DEF IdleExit, StartIsWatched, InProcTable, machineVars
<1>6. ASSUME NEW w \in Killers, KillThread(p, w)
      PROVE  StartIsWatched'
  <2>1. UNCHANGED <<runtimes, start, watch>>
    BY <1>6 DEF KillThread, KillTerm, KillReturn, KillForce, tableVars
  <2>2. \A q \in Procs : q # p => os'[q] = os[q]
    BY <1>6 DEF KillThread, KillTerm, KillReturn, KillForce, machineVars, TypeOK, MachineType
  <2>3. InProcTable(p) /\ start[p] # "none" => InProcTable(p)'
    BY <1>6 DEF KillThread, KillTerm, KillReturn, KillForce, InProcTable, Live, Dead, machineVars, TypeOK, MachineType
  <2> QED BY <2>1, <2>2, <2>3 DEF StartIsWatched, InProcTable
<1> QED BY <1>0, <1>1, <1>2, <1>3, <1>4, <1>5, <1>6 DEF StartThread

\* StartIsWatched is kept.
LEMMA WatchedStep ==
    ASSUME IInv, StartIsWatched, [Next]_vars
    PROVE  StartIsWatched'
<1> USE DEF IInv
<1>p. \A q \in Procs : q # NoProc
  BY DEF Procs, NoProc
<1>1. CASE Quiet
  BY <1>1 DEF Quiet, StartIsWatched, InProcTable, tableVars, callVars
<1>2. CASE Spawning
  <2>1. PICK n \in Plugins, p \in Procs : Spawn(n, p)
    BY <1>2 DEF Spawning
  <2>2. /\ os' = [os EXCEPT ![p] = "booting"] /\ start' = [start EXCEPT ![p] = "waiting"]
        /\ runtimes' = [runtimes EXCEPT ![n] = p] /\ watch' = watch
    BY <2>1 DEF Spawn
  <2>3. watch[p] = "none"
    BY <2>1, ConstantsAssumption DEF Spawn, Fork, UnforkedIsBlank, TypeOK, MachineType
  <2>4. os'[p] = "booting" /\ start'[p] = "waiting"
    BY <2>2 DEF TypeOK, MachineType, CallType
  <2>5. \A q \in Procs : q # p => /\ os'[q] = os[q] /\ start'[q] = start[q]
                                  /\ \A m \in Plugins : runtimes'[m] = q => runtimes[m] = q
    BY <2>2 DEF TypeOK, MachineType, CallType, TableType
  <2> QED BY <2>2, <2>3, <2>4, <2>5 DEF StartIsWatched, InProcTable
<1>3. CASE Stopping
  <2> \A n \in Plugins : runtimes'[n] \in {runtimes[n], NoProc}
    BY <1>3 DEF Stopping, StopEntry, DropEntry, TypeOK, TableType
  <2> QED BY <1>3, <1>p DEF Stopping, StartIsWatched, InProcTable, machineVars
<1>4. CASE Dying
  BY <1>4 DEF Dying, CoreGone, StartIsWatched
<1>5. CASE Boot
  BY <1>5 DEF Boot, DownIsEmpty, StartIsWatched, callVars
<1> QED BY <1>1, <1>2, <1>3, <1>4, <1>5, WatchedEnvironment, WatchedWorking, StepKinds DEF Kinds

\* Whoever forks a process waits for it until its entry is gone.
THEOREM WatchedInvariance == Spec => []StartIsWatched
<1>1. Init => StartIsWatched
  BY DEF Init, StartIsWatched
<1>2. IInv /\ StartIsWatched /\ [Next]_vars => StartIsWatched'
  BY WatchedStep
<1> QED BY <1>1, <1>2, Invariance, PTL DEF Spec

\* The entry of a dead process that this core has started is always about to be taken away.
THEOREM DeadEntriesCorrect == Spec => []DeadEntryIsDue
<1> IInv /\ ForkedIsNamed /\ StartIsWatched => DeadEntryIsDue
  <2> SUFFICES ASSUME IInv, ForkedIsNamed, StartIsWatched,
                      NEW p \in Procs, DeadEntry(p), start[p] # "none"
               PROVE  \/ start[p] \in {"waiting", "late"}
                      \/ watch[p] = "waiting" /\ os[p] = "zombie"
                      \/ watch[p] = "exited"
    BY DEF DeadEntryIsDue
  <2>1. name[p] \in Plugins /\ runtimes[name[p]] = p /\ ~Live(p)
    BY KnownName DEF DeadEntry, Known
  <2> QED BY <2>1 DEF StartIsWatched, Live, InProcTable, IInv, TypeOK, CallType
<1> QED BY Invariance, KnownInvariance, WatchedInvariance, PTL

-----------------------------------------------------------------------------
(* The idle timers, as long as handlers that write a plugin's keepalive setting are Calm *)

\* The record of a plugin is replaced or removed.
Rerecords(a) == UninstallDelete(a) \/ InstallRecord(a) \/ InstallRestore(a)

\* The settings and the handlers change in the handlers, at boot and at the core's death.
LEMMA SettingsFrame ==
    ASSUME [Next]_vars, ~CoreGone, ~Boot, \A a \in Admins : ~AdminStep(a)
    PROVE  UNCHANGED <<installed, keepalive, admin>>
<1>1. ASSUME NEW p \in Procs, ProcStep(p)
      PROVE  UNCHANGED <<installed, keepalive, admin>>
  BY <1>1 DEF ProcStep, CallThread, TimerThread, StartThread, WaitPortOk, WaitPortTimeout, GiveUp,
              StartError, StartDone, Reap, CleanEntry, KillThread, KillTerm, KillReturn, KillForce, Age, Expire,
              IdleCallback, IdleSkip, IdlePostpone, IdleExit, IdlePanic, Bind, ProcExit, ReusePid,
              outsideVars, storeVars
<1>2. ASSUME NEW r \in Requests, RequestThread(r) \/ \E n \in Plugins : GatewayStart(r, n)
      PROVE  UNCHANGED <<installed, keepalive, admin>>
  BY <1>2 DEF RequestThread, GatewayStarted, GatewayTouch, GatewayDial, GatewayFinish, GatewayStart, storeVars
<1>3. ASSUME MainThread \/ Shutdown \/ Crash \/ (\E n \in Plugins : CrashInStart(n)) \/ (\E q \in Ports : Squat(q))
      PROVE  UNCHANGED <<installed, keepalive, admin>>
  BY <1>3 DEF MainThread, Revive, ShutdownStop, ReviveWait, ListenAndServe, ShutdownWait, CoreExit, Shutdown,
              Crash, CrashInStart, Squat, outsideVars, storeVars
<1>4. CASE UNCHANGED vars
  BY <1>4 DEF vars, outsideVars, storeVars
<1> QED BY <1>1, <1>2, <1>3, <1>4 DEF Next

\* A handler changes its own state, and the setting of the plugin that it writes.
LEMMA HandlerFrame ==
    ASSUME TypeOK, NEW a \in Admins, AdminStep(a)
    PROVE  /\ \A b \in Admins : b # a => admin'[b] = admin[b]
           /\ \/ KeepaliveSet(a)
              \/ /\ admin'[a].pc # "apply"
                 /\ admin'[a].pc = "set" => admin'[a].plugin \in installed'
                 /\ UNCHANGED <<installed, keepalive>> \/ Rerecords(a)
                 /\ ApplyKeepalive(a) \/ admin[a].pc # "apply"
<1>t. admin \in [Admins -> Admin]
  BY DEF TypeOK, AdminType
<1>1. ASSUME NEW n \in Plugins, AdminStart(a, n) \/ AdminStop(a, n)
      PROVE  UNCHANGED <<installed, keepalive, admin>> /\ admin[a].pc = "idle"
  BY <1>1 DEF AdminStart, AdminStop, Begin, storeVars
<1>2. ASSUME NEW n \in Plugins, \/ RestartStop(a, n) \/ UninstallStop(a, n)
                                \/ InstallFromEmbed(a, n) \/ InstallFromURL(a, n)
                                \/ \E v \in BOOLEAN : KeepaliveCheck(a, n, v)
      PROVE  /\ UNCHANGED <<installed, keepalive>> /\ admin[a].pc = "idle" /\ admin'[a].pc # "apply"
             /\ admin'[a].pc = "set" => admin'[a].plugin \in installed'
             /\ \A b \in Admins : b # a => admin'[b] = admin[b]
  BY <1>t, <1>2 DEF RestartStop, UninstallStop, InstallFromEmbed, InstallFromURL, KeepaliveCheck,
                      Begin, AdminTo, storeVars
<1>3. CASE KeepaliveSet(a)
  BY <1>t, <1>3 DEF KeepaliveSet
<1>4. CASE RestartStart(a) \/ ApplyKeepalive(a) \/ UninstallRemove(a)
  BY <1>t, <1>4 DEF RestartStart, ApplyKeepalive, UninstallRemove, AdminIdle, IdleAdmin, Admin, storeVars
<1>5. CASE Rerecords(a)
  BY <1>t, <1>5 DEF Rerecords, UninstallDelete, InstallRecord, InstallRestore, AdminIdle, IdleAdmin, Admin
<1> QED BY <1>1, <1>2, <1>3, <1>4, <1>5 DEF AdminStep, AdminThread, Rerecords

\* A calm handler rewrites the record of a plugin that does not run and is not being switched.
LEMMA RerecordFrame ==
    ASSUME TypeOK, Calm, NEW a \in Admins, Rerecords(a)
    PROVE  /\ admin[a].plugin \in Plugins /\ runtimes[admin[a].plugin] = NoProc
           /\ \A n \in Plugins : n # admin[a].plugin => (n \in keepalive' <=> n \in keepalive)
           /\ \A n \in Plugins : n # admin[a].plugin => (n \in installed' <=> n \in installed)
           /\ \A b \in Admins : admin[b].pc \in {"set", "apply"} => admin[b].plugin # admin[a].plugin
<1>1. admin[a].pc \in {"delete", "record", "upgrade", "restore"}
  BY DEF Rerecords, UninstallDelete, InstallRecord, InstallRestore
<1>2. admin[a].plugin \in Plugins
  BY <1>1 DEF TypeOK, AdminType
<1>3. \A n \in Plugins : n # admin[a].plugin => (n \in keepalive' <=> n \in keepalive)
  BY DEF Rerecords, UninstallDelete, InstallRecord, InstallRestore
<1>5. \A n \in Plugins : n # admin[a].plugin => (n \in installed' <=> n \in installed)
  BY DEF Rerecords, UninstallDelete, InstallRecord, InstallRestore
<1>4. \A b \in Admins : admin[b].pc \in {"set", "apply"} => admin[b].plugin # admin[a].plugin
  BY <1>1, <1>2 DEF Calm, Writes
<1> QED BY <1>1, <1>2, <1>3, <1>4, <1>5 DEF Calm

\* SwitchIsStored is kept: no other handler writes between SetKeepalive and ApplyKeepalive.
LEMMA SwitchStep ==
    ASSUME IInv, Calm, Calm', SwitchIsStored, [Next]_vars
    PROVE  SwitchIsStored'
<1> USE DEF IInv
<1>t. admin \in [Admins -> Admin] /\ \A a \in Admins : admin[a].pc # "idle" => admin[a].plugin \in Plugins
  BY DEF TypeOK, AdminType
<1>1. CASE core' = "down"
  BY <1>1, DownStep DEF DownIsEmpty, SwitchIsStored
<1>2. CASE Boot
  BY <1>2 DEF Boot, DownIsEmpty, SwitchIsStored
<1>3. CASE UNCHANGED <<installed, keepalive, admin>>
  BY <1>3 DEF SwitchIsStored
<1>4. ASSUME NEW a \in Admins, AdminStep(a)
      PROVE  SwitchIsStored'
  <2>1. CASE KeepaliveSet(a)
    <3> DEFINE n == admin[a].plugin
    <3>1. /\ admin' = [admin EXCEPT ![a].pc = "apply"] /\ installed' = installed
          /\ admin[a].pc = "set" /\ n \in Plugins /\ n \in installed
      BY <2>1 DEF KeepaliveSet, TypeOK, AdminType, SwitchIsStored
    <3>2. admin'[a].pc = "apply" /\ admin'[a].plugin = n /\ admin'[a].on = admin[a].on
      BY <1>t, <3>1
    <3>3. keepalive' = IF admin[a].on THEN keepalive \cup {n} ELSE keepalive \ {n}
      BY <2>1, <3>1 DEF KeepaliveSet
    <3>4. \A b \in Admins : b # a /\ admin'[b].pc = "apply" => admin'[b].plugin # n
      BY <3>1, <3>2 DEF Calm, Writes
    <3>5. \A b \in Admins : b # a => admin'[b] = admin[b]
      BY <1>t, <3>1
    <3>6. admin'[a].on <=> n \in keepalive'
      BY <3>2, <3>3
    <3>7. ASSUME NEW b \in Admins, b # a
          PROVE  /\ admin'[b].pc = "set" => admin'[b].plugin \in installed'
                 /\ admin'[b].pc = "apply" => (admin'[b].on <=> admin'[b].plugin \in keepalive')
      BY <3>1, <3>3, <3>4, <3>5, <3>7 DEF SwitchIsStored
    <3> QED BY <3>2, <3>6, <3>7 DEF SwitchIsStored
  <2>2. ASSUME admin'[a].pc # "apply", admin'[a].pc = "set" => admin'[a].plugin \in installed',
               UNCHANGED <<installed, keepalive>> \/ Rerecords(a)
        PROVE  SwitchIsStored'
    <3>1. \A b \in Admins : b # a => admin'[b] = admin[b]
      BY <1>4, HandlerFrame
    <3>2. \A b \in Admins : admin[b].pc \in {"set", "apply"} =>
             /\ admin[b].plugin \in keepalive' <=> admin[b].plugin \in keepalive
             /\ admin[b].plugin \in installed' <=> admin[b].plugin \in installed
      BY <1>t, <2>2, RerecordFrame
    <3>3. ASSUME NEW b \in Admins, b # a
          PROVE  /\ admin'[b].pc = "set" => admin'[b].plugin \in installed'
                 /\ admin'[b].pc = "apply" => (admin'[b].on <=> admin'[b].plugin \in keepalive')
      BY <3>1, <3>2, <3>3 DEF SwitchIsStored
    <3> QED BY <2>2, <3>3 DEF SwitchIsStored
  <2> QED BY <1>4, <2>1, <2>2, HandlerFrame
<1> QED BY <1>1, <1>2, <1>3, <1>4, SettingsFrame DEF CoreGone

\* An entry's timer and what stands in for it, under a setting that stays.
TimerKept(n, p) ==
    /\ n \in keepalive /\ timer[p] = "nil" => timer'[p] = "nil"
    /\ n \notin keepalive /\ Timed(p) => Timed(p)'
    /\ n \notin keepalive /\ timer[p] = "nil" => timer'[p] = "nil" \/ Timed(p)'

\* Nothing that happens to the timer does.
LEMMA TimerFrame ==
    ASSUME NEW n, NEW p, timer'[p] = timer[p], p \in firing <=> p \in firing',
           start[p] \in {"waiting", "late", "ready"} => start'[p] \in {"waiting", "late", "ready"}
    PROVE  TimerKept(n, p)
BY DEF TimerKept, Timed

\* The goroutines of a process and its timer keep it, as long as the process keeps its entry.
LEMMA ProcKeepsTimer ==
    ASSUME IInv, NEW n \in Plugins, NEW p \in Procs, runtimes[n] = p, runtimes'[n] = p,
           core' # "down", NEW q \in Procs, ProcStep(q)
    PROVE  TimerKept(n, p)
<1> USE DEF IInv
<1>0. p # NoProc /\ name[p] = n /\ IsCurrent(p)
  BY EntryFacts DEF Procs, NoProc
<1>t. /\ timer \in [Procs -> {"nil", "running", "overtaken", "spent"}]
      /\ start \in [Procs -> {"none", "waiting", "late", "ready", "failing", "done", "error"}]
      /\ runtimes \in [Plugins -> ProcOrNone]
  BY DEF TypeOK, RuntimeType, CallType, TableType
<1>1. CASE WaitPortOk(q) \/ WaitPortTimeout(q) \/ StartError(q)
  BY <1>0, <1>t, <1>1 DEF WaitPortOk, WaitPortTimeout, StartError, TimerKept, Timed, rtVars
<1>2. CASE GiveUp(q)
  <2> q # p
    BY <1>0, <1>t, <1>2 DEF GiveUp, DropEntry
  <2> QED BY <1>0, <1>t, <1>2, TimerFrame DEF GiveUp, rtVars
<1>3. CASE StartDone(q)
  BY <1>0, <1>t, <1>3 DEF StartDone, Arm, TimerKept, Timed, Running
<1>4. CASE CleanEntry(q)
  <2>1. IsCurrent(q) => q # p
    BY <1>0, <1>t, <1>4 DEF CleanEntry, DropEntry
  <2>2. timer'[p] = timer[p]
    BY <1>0, <1>t, <1>4, <2>1 DEF CleanEntry, StopTimer, IsCurrent
  <2> QED BY <1>4, <2>2, TimerFrame DEF CleanEntry
<1>5. CASE Expire(q)
  <2>1. CASE q # p
    <3> timer'[p] = timer[p] /\ (p \in firing <=> p \in firing') /\ start' = start
      BY <1>t, <1>5, <2>1 DEF Expire, callVars
    <3> QED BY TimerFrame
  <2>2. CASE q = p
    <3>1. p \in firing'
      BY <1>5, <2>2 DEF Expire
    <3>2. timer[p] = "nil" => timer'[p] = "nil"
      BY <1>t, <1>5, <2>2 DEF Expire, Running
    <3> QED BY <3>1, <3>2 DEF TimerKept, Timed
  <2> QED BY <2>1, <2>2
<1>6. CASE IdleSkip(q) \/ IdlePostpone(q)
  <2>1. CASE q # p
    <3> timer'[p] = timer[p] /\ (p \in firing <=> p \in firing') /\ start' = start
      BY <1>t, <1>6, <2>1 DEF IdleSkip, IdlePostpone, callVars
    <3> QED BY TimerFrame
  <2>2. CASE q = p /\ IdleSkip(p)
    <3> n \in keepalive /\ timer' = timer
      BY <1>0, <2>2 DEF IdleSkip
    <3> QED BY DEF TimerKept
  <2>3. CASE q = p /\ IdlePostpone(p)
    <3> n \notin keepalive /\ timer'[p] = "running"
      BY <1>0, <1>t, <2>3 DEF IdlePostpone
    <3> QED BY DEF TimerKept, Timed, Running
  <2> QED BY <1>6, <2>1, <2>2, <2>3
<1>7. CASE IdleExit(q)
  <2> q # p
    BY <1>0, <1>t, <1>7 DEF IdleExit, DropEntry
  <2> QED BY <1>7, TimerFrame DEF IdleExit
<1>8. CASE Reap(q) \/ Age(q) \/ Bind(q) \/ ProcExit(q) \/ ReusePid(q) \/ \E w \in Killers : KillThread(q, w)
  BY <1>8, TimerFrame DEF Reap, Age, Bind, ProcExit, ReusePid, KillThread, KillTerm, KillReturn, KillForce,
                          rtVars, callVars
<1>9. ~IdlePanic(q)
  BY DEF IdlePanic, CoreGone
<1> QED BY <1>1, <1>2, <1>3, <1>4, <1>5, <1>6, <1>7, <1>8, <1>9
        DEF ProcStep, CallThread, TimerThread, StartThread, IdleCallback

\* Start and Stop of other plugins keep the timer of an entry.
LEMMA CallersKeepTimer ==
    ASSUME IInv, NEW n \in Plugins, NEW p \in Procs, runtimes[n] = p, runtimes'[n] = p,
           NEW m \in Plugins, UNCHANGED firing,
           \/ NoStart \/ (\E q \in Procs : Spawn(m, q))
           \/ (StopIfRunning(m) \/ StopEntry(m)) /\ UNCHANGED start
    PROVE  TimerKept(n, p)
<1>0. p # NoProc /\ name[p] = n
  BY EntryFacts DEF Procs, NoProc
<1>1. CASE NoStart
  BY <1>1, TimerFrame DEF NoStart, rtVars, callVars
<1>2. ASSUME NEW q \in Procs, Spawn(m, q)
      PROVE  TimerKept(n, p)
  <2>1. start' = [start EXCEPT ![q] = "waiting"] /\ timer' = timer
    BY <1>2 DEF Spawn
  <2>2. start'[p] \in {"waiting", start[p]}
    BY <1>0, <2>1 DEF IInv, TypeOK, CallType
  <2> QED BY <2>1, <2>2, TimerFrame
<1>3. CASE (StopIfRunning(m) \/ StopEntry(m)) /\ UNCHANGED start
  <2>1. CASE timer' = timer
    BY <1>3, <2>1, TimerFrame
  <2>2. CASE StopEntry(m)
    <3>1. m # n
      BY <2>2 DEF StopEntry, DropEntry, IInv, TypeOK, TableType
    <3>2. runtimes[m] # p
      BY <1>0, <2>2, <3>1, EntryFacts DEF StopEntry
    <3>3. timer'[p] = timer[p]
      BY <1>0, <2>2, <3>2 DEF StopEntry, StopTimer, IInv, TypeOK, RuntimeType
    <3> QED BY <1>3, <3>3, TimerFrame
  <2> QED BY <1>3, <2>1, <2>2 DEF StopIfRunning
<1> QED BY <1>1, <1>2, <1>3

\* Every step but ApplyKeepalive keeps the timer of an entry that stays.
LEMMA TimerStays ==
    ASSUME IInv, NEW n \in Plugins, NEW p \in Procs, runtimes[n] = p, runtimes'[n] = p,
           core' # "down", [Next]_vars, \A a \in Admins : ~ApplyKeepalive(a)
    PROVE  TimerKept(n, p)
<1>0. p # NoProc /\ name[p] = n /\ core # "down"
  BY EntryFacts DEF Procs, NoProc
<1>1. ASSUME NEW q \in Procs, ProcStep(q)
      PROVE  TimerKept(n, p)
  BY <1>1, ProcKeepsTimer
<1>2. ASSUME NEW r \in Requests, RequestThread(r) \/ \E m \in Plugins : GatewayStart(r, m)
      PROVE  TimerKept(n, p)
  <2>1. ASSUME NEW m \in Plugins, GatewayStart(r, m)
        PROVE  TimerKept(n, p)
    <3> NoStart \/ \E q \in Procs : Spawn(m, q)
      BY <2>1 DEF GatewayStart
    <3> UNCHANGED firing
      BY <2>1 DEF GatewayStart, NoStart, Spawn, rtVars
    <3> QED BY CallersKeepTimer
  <2>2. CASE GatewayTouch(r)
    <3> DEFINE t == runtimes[req[r].plugin]
    <3>1. req[r].plugin \in Plugins /\ UNCHANGED <<firing, start>>
      BY <2>2 DEF GatewayTouch, IInv, TypeOK, RequestType, callVars
    <3>2. CASE t # p
      <4> timer'[p] = timer[p]
        BY <1>0, <2>2, <3>2 DEF GatewayTouch, Overtake, IInv, TypeOK, RuntimeType
      <4> QED BY <3>1, TimerFrame
    <3>3. CASE t = p
      <4>1. req[r].plugin = n
        BY <1>0, <3>1, <3>3, EntryFacts
      <4>2. timer'[p] = IF timer[p] # "nil" /\ n \notin keepalive THEN "running"
                        ELSE IF timer[p] = "running" THEN "overtaken" ELSE timer[p]
        BY <1>0, <2>2, <4>1 DEF GatewayTouch, Overtake, IInv, TypeOK, RuntimeType
      <4> QED BY <3>1, <4>2 DEF TimerKept, Timed, Running
    <3> QED BY <3>2, <3>3
  <2>3. CASE GatewayStarted(r) \/ GatewayDial(r) \/ GatewayFinish(r)
    BY <2>3, TimerFrame DEF GatewayStarted, GatewayDial, GatewayFinish, rtVars, callVars
  <2> QED BY <1>2, <2>1, <2>2, <2>3 DEF RequestThread
<1>3. ASSUME NEW a \in Admins, AdminStep(a)
      PROVE  TimerKept(n, p)
  <2>1. ASSUME NEW m \in Plugins, \/ AdminStart(a, m) \/ AdminStop(a, m) \/ RestartStop(a, m) \/ UninstallStop(a, m)
        PROVE  TimerKept(n, p)
    <3> UNCHANGED firing
      BY <2>1 DEF AdminStart, Spawn, AdminStop, RestartStop, UninstallStop
    <3> \/ \E q \in Procs : Spawn(m, q)
        \/ (StopIfRunning(m) \/ StopEntry(m)) /\ UNCHANGED start
      BY <2>1 DEF AdminStart, AdminStop, RestartStop, UninstallStop
    <3> QED BY CallersKeepTimer
  <2>2. CASE RestartStart(a)
    <3>1. admin[a].plugin \in Plugins
      BY <2>2 DEF RestartStart, IInv, TypeOK, AdminType
    <3>2. NoStart \/ \E q \in Procs : Spawn(admin[a].plugin, q)
      BY <2>2 DEF RestartStart
    <3>3. UNCHANGED firing
      BY <3>2 DEF NoStart, Spawn, rtVars
    <3> QED BY <3>1, <3>2, <3>3, CallersKeepTimer
  <2>3. CASE \/ KeepaliveSet(a) \/ UninstallRemove(a) \/ UninstallDelete(a)
             \/ InstallRecord(a) \/ InstallRestore(a)
             \/ \E m \in Plugins : \/ InstallFromEmbed(a, m) \/ InstallFromURL(a, m)
                                   \/ \E v \in BOOLEAN : KeepaliveCheck(a, m, v)
    BY <2>3, TimerFrame DEF UninstallRemove, UninstallDelete, InstallRecord, InstallRestore,
                            InstallFromEmbed, InstallFromURL, KeepaliveCheck, KeepaliveSet, rtVars, callVars
  <2> QED BY <1>3, <2>1, <2>2, <2>3 DEF AdminStep, AdminThread
<1>4. ASSUME MainThread \/ Shutdown \/ Crash \/ \E m \in Plugins : CrashInStart(m)
      PROVE  TimerKept(n, p)
  <2>1. ASSUME NEW m \in Plugins, ShutdownStop(m) \/ Revive(m)
        PROVE  TimerKept(n, p)
    <3> UNCHANGED firing
      BY <2>1 DEF ShutdownStop, Revive, NoStart, Spawn, rtVars
    <3> \/ NoStart \/ (\E q \in Procs : Spawn(m, q))
        \/ StopIfRunning(m) /\ UNCHANGED start
      BY <2>1 DEF ShutdownStop, Revive
    <3> QED BY CallersKeepTimer
  <2>2. ~CoreExit /\ ~Crash /\ \A m \in Plugins : ~CrashInStart(m)
    BY DEF CoreExit, Crash, CrashInStart, CoreGone
  <2>3. CASE Shutdown \/ ReviveWait \/ ListenAndServe \/ ShutdownWait
    BY <2>3, TimerFrame DEF Shutdown, ReviveWait, ListenAndServe, ShutdownWait, rtVars, callVars
  <2> QED BY <1>4, <2>1, <2>2, <2>3 DEF MainThread
<1>5. CASE UNCHANGED vars \/ \E q \in Ports : Squat(q)
  BY <1>5, TimerFrame DEF vars, Squat, rtVars, callVars
<1>6. ~Boot
  BY <1>0 DEF Boot
<1> QED BY <1>1, <1>2, <1>3, <1>4, <1>5, <1>6 DEF Next

\* ApplyKeepalive sets right the timer of the plugin that was switched, and no other.
LEMMA ApplyKeepsTimer ==
    ASSUME IInv, SwitchIsStored, TimerIsDue, NEW n \in Plugins, NEW p \in Procs, runtimes[n] = p,
           NEW a \in Admins, ApplyKeepalive(a)
    PROVE  IF admin[a].plugin # n THEN TimerKept(n, p)
           ELSE IF n \in keepalive THEN timer'[p] = "nil" ELSE Timed(p)'
<1>0. p # NoProc /\ name[p] = n /\ admin[a].plugin \in Plugins /\ admin[a].pc = "apply"
  BY EntryFacts DEF ApplyKeepalive, IInv, TypeOK, AdminType, Procs, NoProc
<1>t. timer \in [Procs -> {"nil", "running", "overtaken", "spent"}] /\ UNCHANGED <<firing, start>>
  BY DEF ApplyKeepalive, IInv, TypeOK, RuntimeType, callVars
<1> DEFINE q == runtimes[admin[a].plugin]
<1>1. CASE admin[a].plugin # n
  <2>1. q # p
    BY <1>0, <1>1, EntryFacts
  <2>2. timer'[p] = timer[p]
    BY <1>t, <2>1 DEF ApplyKeepalive, CancelTimer, Arm
  <2> QED BY <1>1, <1>t, <2>2, TimerFrame
<1>2. CASE admin[a].plugin = n /\ admin[a].on
  <2>1. n \in keepalive
    BY <1>0, <1>2 DEF SwitchIsStored
  <2>2. timer' = CancelTimer(p)
    BY <1>0, <1>2 DEF ApplyKeepalive
  <2> QED BY <1>t, <1>2, <2>1, <2>2 DEF CancelTimer
<1>3. CASE admin[a].plugin = n /\ ~admin[a].on
  <2>1. n \notin keepalive
    BY <1>0, <1>3 DEF SwitchIsStored
  <2>2. CASE timer[p] = "nil"
    <3> Arm(p)
      BY <1>0, <1>3, <2>2 DEF ApplyKeepalive
    <3> timer'[p] = "running"
      BY <1>t DEF Arm
    <3> QED BY <1>3, <2>1 DEF Timed, Running
  <2>3. CASE timer[p] # "nil"
    <3>1. timer' = timer
      BY <1>0, <1>3, <2>3 DEF ApplyKeepalive
    <3>2. Timed(p)
      BY <1>0, <2>1, <2>3 DEF TimerIsDue
    <3> QED BY <1>t, <1>3, <2>1, <3>1, <3>2 DEF Timed
  <2> QED BY <2>2, <2>3
<1> QED BY <1>1, <1>2, <1>3

\* What TimerIsDue says of the process p of plugin n.
DueTimer(n, p) ==
    IF n \in keepalive THEN timer[p] = "nil" \/ Switching(n)
    ELSE Timed(p) \/ (timer[p] = "nil" /\ Switching(n))

\* It stays so while the entry stays.
LEMMA DueTimerStays ==
    ASSUME IInv, Calm, Calm', SwitchIsStored, TimerIsDue, [Next]_vars, core' # "down",
           NEW n \in Plugins, NEW p \in Procs, runtimes[n] = p, runtimes'[n] = p
    PROVE  DueTimer(n, p)'
<1>0. p # NoProc /\ core # "down" /\ ~Boot
  BY EntryFacts DEF Boot, Procs, NoProc
<1>d. DueTimer(n, p)
  BY <1>0 DEF TimerIsDue, DueTimer
<1>1. ASSUME TimerKept(n, p), n \in keepalive' <=> n \in keepalive, Switching(n) => Switching(n)'
      PROVE  DueTimer(n, p)'
  BY <1>d, <1>1 DEF TimerKept, DueTimer
<1>2. ASSUME NEW a \in Admins, ApplyKeepalive(a)
      PROVE  DueTimer(n, p)'
  <2>1. /\ UNCHANGED keepalive
        /\ \A b \in Admins : b # a => admin'[b] = admin[b]
    BY <1>2 DEF ApplyKeepalive, AdminIdle, storeVars, IInv, TypeOK, AdminType
  <2>2. CASE admin[a].plugin = n
    <3> IF n \in keepalive THEN timer'[p] = "nil" ELSE Timed(p)'
      BY <1>2, <2>2, ApplyKeepsTimer
    <3> QED BY <2>1 DEF DueTimer
  <2>3. CASE admin[a].plugin # n
    <3>1. TimerKept(n, p)
      BY <1>2, <2>3, ApplyKeepsTimer
    <3>2. Switching(n) => Switching(n)'
      BY <2>1, <2>3 DEF Switching
    <3> QED BY <1>1, <2>1, <3>1, <3>2
  <2> QED BY <2>2, <2>3
<1>3. ASSUME \A a \in Admins : ~ApplyKeepalive(a)
      PROVE  DueTimer(n, p)'
  <2>1. TimerKept(n, p)
    BY <1>3, TimerStays
  <2>2. CASE \A a \in Admins : ~AdminStep(a)
    <3>1. UNCHANGED <<keepalive, admin>>
      BY <1>0, <2>2, SettingsFrame DEF CoreGone
    <3> QED BY <1>1, <2>1, <3>1 DEF Switching
  <2>3. ASSUME NEW a \in Admins, AdminStep(a)
        PROVE  DueTimer(n, p)'
    <3>1. \A b \in Admins : b # a => admin'[b] = admin[b]
      BY <2>3, HandlerFrame DEF IInv
    <3>2. CASE KeepaliveSet(a)
      <4> DEFINE m == admin[a].plugin
      <4>1. /\ admin[a].pc = "set" /\ admin'[a].pc = "apply" /\ admin'[a].plugin = m
            /\ n # m => (n \in keepalive' <=> n \in keepalive)
            /\ UNCHANGED <<timer, firing, start>>
        BY <3>2 DEF KeepaliveSet, rtVars, callVars, IInv, TypeOK, AdminType
      <4>2. Switching(n) => Switching(n)'
        BY <3>1, <4>1 DEF Switching
      <4>3. CASE m # n
        BY <1>1, <2>1, <4>1, <4>2, <4>3
      <4>4. CASE m = n
        <5>1. Switching(n)'
          BY <4>1, <4>4 DEF Switching
        <5>2. ~Switching(n)
          BY <3>1, <4>1, <4>4 DEF Switching, Calm, Writes
        <5>3. IF n \in keepalive THEN timer[p] = "nil" ELSE Timed(p)
          BY <1>d, <5>2 DEF DueTimer
        <5>4. timer'[p] = "nil" \/ Timed(p)'
          BY <4>1, <5>3 DEF Timed
        <5> QED BY <5>1, <5>4 DEF DueTimer
      <4> QED BY <4>3, <4>4
    <3>3. ASSUME UNCHANGED <<installed, keepalive>> \/ Rerecords(a), admin[a].pc # "apply"
          PROVE  DueTimer(n, p)'
      <4>1. Switching(n) => Switching(n)'
        BY <3>1, <3>3 DEF Switching
      <4>2. n \in keepalive' <=> n \in keepalive
        BY <1>0, <3>3, RerecordFrame DEF IInv
      <4> QED BY <1>1, <2>1, <4>1, <4>2
    <3> QED BY <1>3, <2>3, <3>2, <3>3, HandlerFrame DEF IInv
  <2> QED BY <2>2, <2>3
<1> QED BY <1>2, <1>3

\* It is so for the entries that Start and Load make.
LEMMA DueTimerBegins ==
    ASSUME IInv, OnlyKnown, [Next]_vars, core' # "down",
           NEW n \in Plugins, NEW p \in Procs, runtimes[n] # p, runtimes'[n] = p
    PROVE  DueTimer(n, p)'
<1> USE DEF IInv
<1>p. p # NoProc
  BY DEF Procs, NoProc
<1>1. CASE Boot
  <2>1. portMap[n] = p /\ n \in {m \in Plugins : Adoptable(m)}
    BY <1>1, <1>p DEF Boot
  <2>2. name[p] = n
    BY <1>p, <2>1 DEF EntriesAreForked, Tables
  <2>3. timer'[p] = IF n \notin keepalive' THEN "running" ELSE "nil"
    BY <1>1, <2>1, <2>2 DEF Boot
  <2> QED BY <2>3 DEF DueTimer, Timed, Running
<1>2. CASE Spawning
  <2>1. PICK m \in Plugins, q \in Procs : Spawn(m, q)
    BY <1>2 DEF Spawning
  <2>2. m = n /\ q = p
    BY <2>1 DEF Spawn, TypeOK, TableType
  <2>3. start'[p] = "waiting"
    BY <2>1, <2>2 DEF Spawn, TypeOK, CallType
  <2>4. ~Known(p) /\ timer' = timer
    BY <2>1, <2>2, ConstantsAssumption DEF Spawn, Fork, Known, UnforkedIsBlank, TypeOK, MachineType
  <2>5. timer'[p] = "nil"
    BY <2>4 DEF OnlyKnown
  <2> QED BY <2>3, <2>5 DEF DueTimer, Timed
<1> QED BY <1>1, <1>2, <1>p, EntriesFrom

\* TimerIsDue is kept while handlers are Calm.
LEMMA TimerIsDueStep ==
    ASSUME IInv, OnlyKnown, Calm, Calm', SwitchIsStored, TimerIsDue, [Next]_vars
    PROVE  TimerIsDue'
<1>1. CASE core' = "down"
  BY <1>1, DownStep DEF IInv, DownIsEmpty, TimerIsDue
<1>2. ASSUME core' # "down", NEW n \in Plugins, NEW p \in Procs, runtimes'[n] = p
      PROVE  DueTimer(n, p)'
  BY <1>2, DueTimerStays, DueTimerBegins
<1>3. CASE core' # "down"
  <2> SUFFICES ASSUME NEW n \in Plugins, runtimes'[n] # NoProc
               PROVE  DueTimer(n, runtimes[n])'
    BY DEF TimerIsDue, DueTimer
  <2>1. runtimes'[n] \in Procs
    BY TypeStep DEF IInv, TypeOK, TableType, ProcOrNone
  <2>2. PICK p \in Procs : runtimes'[n] = p
    BY <2>1
  <2>3. DueTimer(n, p)'
    BY <1>2, <1>3, <2>2
  <2> QED BY <2>2, <2>3 DEF DueTimer, Timed
<1> QED BY <1>1, <1>3

\* While the handlers that write keepalive settings are Calm, no process that may be idle is
\* left without its timer, through every order of requests, callbacks, restarts and crashes.
THEOREM IdleTimersCorrect == Spec /\ []Calm => []IdleIsTimed
<1>1. Init => SwitchIsStored /\ TimerIsDue
  BY DEF Init, SwitchIsStored, TimerIsDue, IdleAdmin
<1>2. /\ IInv /\ OnlyKnown /\ Calm /\ Calm' /\ SwitchIsStored /\ TimerIsDue /\ [Next]_vars
      => SwitchIsStored' /\ TimerIsDue'
  BY SwitchStep, TimerIsDueStep
<1>3. IInv /\ SwitchIsStored /\ TimerIsDue => IdleIsTimed
  BY DEF SwitchIsStored, TimerIsDue, IdleIsTimed, Switching
<1> QED BY <1>1, <1>2, <1>3, Invariance, KnownInvariance, PTL DEF Spec

\* One administrator who installs nothing anew and removes nothing is always Calm.
LooksAfter == AdminOps \cap {"uninstall", "install", "upgrade"} = {} /\ \A a, b \in Admins : a = b

\* Only the operations that LooksAfter rules out rewrite a record.
NoRerecord == \A a \in Admins : admin[a].pc \in {"idle", "restart", "set", "apply"}

\* NoRerecord is kept.
LEMMA NoRerecordStep ==
    ASSUME LooksAfter, TypeOK, NoRerecord, [Next]_vars
    PROVE  NoRerecord'
<1>1. CASE UNCHANGED admin
  BY <1>1 DEF NoRerecord
<1>2. ASSUME NEW a \in Admins, AdminStep(a)
      PROVE  NoRerecord'
  <2> SUFFICES admin'[a].pc \in {"idle", "restart", "set", "apply"}
    BY <1>2, HandlerFrame DEF NoRerecord
  <2>t. admin \in [Admins -> Admin] /\ admin[a].pc \in {"idle", "restart", "set", "apply"}
    BY DEF NoRerecord, TypeOK, AdminType
  <2>a. AdminOps \cap {"uninstall", "install", "upgrade"} = {}
    BY DEF LooksAfter
  <2>1. CASE RestartStart(a) \/ ApplyKeepalive(a)
    BY <2>1, <2>t DEF RestartStart, ApplyKeepalive, AdminIdle, IdleAdmin
  <2>5. CASE KeepaliveSet(a)
    <3> admin' = [admin EXCEPT ![a].pc = "apply"]
      BY <2>5 DEF KeepaliveSet
    <3> QED BY <2>t DEF Admin
  <2>6. ~UninstallRemove(a) /\ ~Rerecords(a)
    BY <2>t DEF UninstallRemove, UninstallDelete, InstallRecord, InstallRestore, Rerecords
  <2>2. ASSUME NEW n \in Plugins, \/ AdminStart(a, n) \/ AdminStop(a, n) \/ RestartStop(a, n)
                                  \/ \E v \in BOOLEAN : KeepaliveCheck(a, n, v)
        PROVE  admin'[a].pc \in {"idle", "restart", "set", "apply"}
    BY <2>2, <2>t DEF AdminStart, AdminStop, RestartStop, KeepaliveCheck, AdminTo
  <2>3. ASSUME NEW n \in Plugins
        PROVE  ~UninstallStop(a, n) /\ ~InstallFromEmbed(a, n) /\ ~InstallFromURL(a, n)
    <3>1. ~Begin(a, "uninstall") /\ ~Begin(a, "install") /\ ~Begin(a, "upgrade")
      BY <2>a DEF Begin
    <3> QED BY <3>1 DEF UninstallStop, InstallFromEmbed, InstallFromURL
  <2> QED
    BY <1>2, <2>1, <2>2, <2>3, <2>5, <2>6 DEF AdminStep, AdminThread, Rerecords
<1>3. CASE CoreGone
  BY <1>3 DEF CoreGone, NoRerecord, IdleAdmin
<1>4. CASE Boot
  BY <1>4, <1>1 DEF Boot
<1>5. UNCHANGED admin \/ Boot \/ CoreGone \/ \E a \in Admins : AdminStep(a)
  BY SettingsFrame
<1> QED BY <1>1, <1>2, <1>3, <1>4, <1>5

\* The administrator who only starts, stops, restarts and switches plugins never leaves one that
\* may be idle without its timer.
THEOREM OneAdminIsCalm == ASSUME LooksAfter PROVE Spec => []IdleIsTimed
<1>1. Init => NoRerecord
  BY DEF Init, NoRerecord, IdleAdmin
<1>2. TypeOK /\ NoRerecord /\ [Next]_vars => NoRerecord'
  BY NoRerecordStep
<1>3. NoRerecord => Calm
  BY DEF NoRerecord, Calm, LooksAfter
<1> QED BY <1>1, <1>2, <1>3, TypeCorrect, IdleTimersCorrect, PTL DEF Spec
=============================================================================
