------------------------- MODULE PluginManagerProofs -------------------------
(* Theorems about PluginManager, for every value of its constants. *)
EXTENDS PluginManager, TLAPS

\* What no disjunct of a step mentions keeps its type.
LEMMA Untouched ==
    /\ MainType /\ UNCHANGED mainVars => MainType'
    /\ TableType /\ UNCHANGED tableVars => TableType'
    /\ MachineType /\ UNCHANGED machineVars => MachineType'
    /\ RuntimeType /\ UNCHANGED rtVars => RuntimeType'
    /\ CallType /\ UNCHANGED callVars => CallType'
    /\ StoreType /\ UNCHANGED storeVars => StoreType'
    /\ RequestType /\ UNCHANGED req => RequestType'
    /\ AdminType /\ UNCHANGED admin => AdminType'
    /\ BoundType /\ UNCHANGED boundVars => BoundType'
    /\ StrayType /\ UNCHANGED stray => StrayType'
BY DEF MainType, TableType, MachineType, RuntimeType, CallType, StoreType, RequestType, AdminType, BoundType, StrayType, mainVars, tableVars, machineVars, rtVars, callVars, storeVars, boundVars

\* The state of a machine on which the core has never run is well typed.
LEMMA TypeInit == Init => TypeOK
<1> SUFFICES ASSUME Init
             PROVE  TypeOK
  OBVIOUS
<1>1. MainType /\ TableType /\ RuntimeType /\ StrayType /\ StoreType
  BY ConstantsAssumption
     DEF Init, MainType, TableType, RuntimeType, StrayType, StoreType, ProcOrNone
<1>2. MachineType /\ BoundType
  BY ConstantsAssumption DEF Init, MachineType, BoundType
<1>3. CallType
  BY DEF Init, CallType
<1>4. RequestType /\ AdminType
  BY DEF Init, RequestType, Request, IdleRequest, AdminType, Admin, IdleAdmin, ProcOrNone
<1> QED BY <1>1, <1>2, <1>3, <1>4 DEF TypeOK

\* Deleting an entry and saving leaves two well-typed tables.
LEMMA DropEntryType == ASSUME TableType, NEW n, DropEntry(n) PROVE TableType'
BY DEF TableType, DropEntry, SavePortMap, ProcOrNone

\* armIdleLocked leaves well-typed timers.
LEMMA ArmType ==
    ASSUME RuntimeType, NEW p, Arm(p), UNCHANGED <<tick, adopted, fresh, firing>>
    PROVE  RuntimeType'
BY DEF RuntimeType, Arm, Running

\* Stopping a timer leaves well-typed timers.
LEMMA StopTimerType ==
    ASSUME RuntimeType, NEW p, timer' = StopTimer(p), UNCHANGED <<tick, adopted, fresh, ghost, firing>>
    PROVE  RuntimeType'
BY DEF RuntimeType, StopTimer

\* Start up to its Unlock keeps the types of what it changes.
LEMMA SpawnType ==
    ASSUME TypeOK, NEW n \in Plugins, NEW p \in Procs, Spawn(n, p)
    PROVE  TableType' /\ MachineType' /\ RuntimeType' /\ CallType'
<1>1. TableType'
  BY DEF TypeOK, TableType, Spawn, SavePortMap, ProcOrNone
<1>2. MachineType'
  <2>1. FreePorts \subseteq Ports
    BY DEF FreePorts
  <2>2. port' \in [Procs -> Ports \cup {0}]
    BY <2>1 DEF TypeOK, MachineType, Spawn, Fork
  <2>3. forks' \in 0..MaxProcs
    BY ConstantsAssumption DEF Spawn, Fork, Procs
  <2> QED BY <2>2, <2>3 DEF TypeOK, MachineType, Spawn, Fork
<1>3. RuntimeType'
  BY DEF TypeOK, RuntimeType, Spawn
<1>4. CallType'
  BY DEF TypeOK, CallType, Spawn
<1> QED BY <1>1, <1>2, <1>3, <1>4

\* Stop up to its Unlock keeps the types of what it changes.
LEMMA StopEntryType ==
    ASSUME TypeOK, NEW n \in Plugins, StopEntry(n), UNCHANGED <<tick, adopted, fresh, ghost, firing, start, watch>>
    PROVE  TableType' /\ RuntimeType' /\ CallType'
<1>1. TableType'
  BY DropEntryType DEF TypeOK, StopEntry
<1>2. RuntimeType'
  BY StopTimerType DEF TypeOK, StopEntry
<1>3. CallType'
  BY DEF TypeOK, CallType, StopEntry
<1> QED BY <1>1, <1>2, <1>3

\* The same for a Stop whose error is ignored.
LEMMA StopIfRunningType ==
    ASSUME TypeOK, NEW n \in Plugins, StopIfRunning(n),
           UNCHANGED <<tick, adopted, fresh, ghost, firing, start, watch>>
    PROVE  TableType' /\ RuntimeType' /\ CallType'
<1>1. CASE runtimes[n] = NoProc
  BY <1>1 DEF TypeOK, TableType, RuntimeType, CallType, StopIfRunning, tableVars
<1>2. CASE runtimes[n] # NoProc
  BY <1>2, StopEntryType DEF StopIfRunning
<1> QED BY <1>1, <1>2

\* The death of the core keeps the types of what it clears.
LEMMA CoreGoneType ==
    ASSUME TypeOK, CoreGone
    PROVE  /\ MainType' /\ RuntimeType' /\ CallType' /\ StoreType' /\ RequestType' /\ AdminType'
           /\ StrayType' /\ runtimes' \in [Plugins -> ProcOrNone] /\ unsaved' \in BOOLEAN
<1>1. RequestType'
  BY DEF TypeOK, CoreGone, RequestType, Request
<1>2. AdminType'
  BY DEF TypeOK, CoreGone, AdminType, Admin, IdleAdmin, ProcOrNone
<1>3. MainType' /\ runtimes' \in [Plugins -> ProcOrNone] /\ unsaved' \in BOOLEAN
  BY DEF CoreGone, MainType, ProcOrNone
<1>4. RuntimeType'
  BY DEF TypeOK, CoreGone, RuntimeType
<1>5. CallType'
  BY DEF CoreGone, CallType
<1> QED BY <1>1, <1>2, <1>3, <1>4, <1>5, Untouched DEF TypeOK, CoreGone

\* Process states stay process states when init has waited for the zombies.
LEMMA ReapedType == TypeOK => ReapedByInit \in [Procs -> {"none", "booting", "serving", "zombie", "gone", "reused"}]
BY DEF TypeOK, MachineType, ReapedByInit

-----------------------------------------------------------------------------
(* Every action keeps the types *)

\* The rest of Start (waitPort, its failure, the arming of the timer) keeps the types.
LEMMA StartThreadType ==
    ASSUME TypeOK, NEW p \in Procs, StartThread(p)
    PROVE  TypeOK'
<1>1. CASE WaitPortOk(p)
  <2> CallType'
    BY <1>1 DEF TypeOK, CallType, WaitPortOk
  <2> QED BY <1>1, Untouched DEF TypeOK, WaitPortOk, outsideVars
<1>2. CASE WaitPortTimeout(p)
  <2> CallType'
    BY <1>2 DEF TypeOK, CallType, WaitPortTimeout
  <2> QED BY <1>2, Untouched DEF TypeOK, WaitPortTimeout, outsideVars
<1>5. CASE GiveUp(p)
  <2>1. CallType'
    BY <1>5 DEF TypeOK, CallType, GiveUp
  <2>2. TableType'
    BY <1>5, DropEntryType, Untouched DEF TypeOK, GiveUp
  <2> QED BY <1>5, <2>1, <2>2, Untouched DEF TypeOK, GiveUp, outsideVars
<1>3. CASE StartError(p)
  <2>1. CallType'
    BY <1>3 DEF TypeOK, CallType, StartError
  <2>2. MachineType'
    BY <1>3 DEF TypeOK, MachineType, StartError
  <2> QED BY <1>3, <2>1, <2>2, Untouched DEF TypeOK, StartError, outsideVars
<1>4. CASE StartDone(p)
  <2>1. CallType'
    BY <1>4 DEF TypeOK, CallType, StartDone
  <2>2. RuntimeType'
    <3>1. CASE name[p] \in keepalive
      BY <1>4, <3>1 DEF TypeOK, RuntimeType, StartDone
    <3>2. CASE name[p] \notin keepalive
      BY <1>4, <3>2, ArmType DEF TypeOK, StartDone
    <3> QED BY <3>1, <3>2
  <2> QED BY <1>4, <2>1, <2>2, Untouched DEF TypeOK, StartDone, outsideVars
<1> QED BY <1>1, <1>2, <1>3, <1>4, <1>5 DEF StartThread

\* The cmd.Wait goroutine keeps the types.
LEMMA ExitThreadType ==
    ASSUME TypeOK, NEW p \in Procs, Reap(p) \/ CleanEntry(p)
    PROVE  TypeOK'
<1>1. CASE Reap(p)
  <2>1. CallType'
    BY <1>1 DEF TypeOK, CallType, Reap
  <2>2. MachineType'
    BY <1>1 DEF TypeOK, MachineType, Reap
  <2> QED BY <1>1, <2>1, <2>2, Untouched DEF TypeOK, Reap, outsideVars
<1>2. CASE CleanEntry(p)
  <2>1. CallType'
    BY <1>2 DEF TypeOK, CallType, CleanEntry
  <2>2. TableType' /\ RuntimeType'
    <3>1. CASE IsCurrent(p)
      BY <1>2, <3>1, DropEntryType, StopTimerType DEF TypeOK, CleanEntry
    <3>2. CASE ~IsCurrent(p)
      BY <1>2, <3>2, Untouched DEF TypeOK, CleanEntry, rtVars
    <3> QED BY <3>1, <3>2
  <2> QED BY <1>2, <2>1, <2>2, Untouched DEF TypeOK, CleanEntry, outsideVars
<1> QED BY <1>1, <1>2

\* killProc keeps the types.
LEMMA KillThreadType ==
    ASSUME TypeOK, NEW p \in Procs, NEW w \in Killers, KillThread(p, w)
    PROVE  TypeOK'
<1>0. kill' \in [Procs \X Killers -> {"idle", "begun", "signalled"}]
  BY DEF TypeOK, CallType, KillThread, KillTerm, KillReturn, KillForce
<1>1. CASE KillTerm(p, w)
  <2>1. CallType'
    BY <1>0, <1>1 DEF TypeOK, CallType, KillTerm
  <2>2. StrayType'
    BY <1>1 DEF TypeOK, StrayType, KillTerm, Signal
  <2> QED BY <1>1, <2>1, <2>2, Untouched DEF TypeOK, KillTerm
<1>2. CASE KillReturn(p, w)
  <2> CallType'
    BY <1>0, <1>2 DEF TypeOK, CallType, KillReturn
  <2> QED BY <1>2, Untouched DEF TypeOK, KillReturn, outsideVars
<1>3. CASE KillForce(p, w)
  <2>1. CallType'
    BY <1>0, <1>3 DEF TypeOK, CallType, KillForce
  <2>2. StrayType'
    BY <1>3 DEF TypeOK, StrayType, KillForce, Signal
  <2>3. MachineType'
    BY <1>3 DEF TypeOK, MachineType, KillForce, Dead
  <2> QED BY <1>3, <2>1, <2>2, <2>3, Untouched DEF TypeOK, KillForce
<1> QED BY <1>1, <1>2, <1>3 DEF KillThread

\* Idle timers and their callbacks keep the types.
LEMMA TimerType ==
    ASSUME TypeOK, NEW p \in Procs, Age(p) \/ Expire(p) \/ IdleCallback(p)
    PROVE  TypeOK'
<1>1. CASE Age(p)
  <2> RuntimeType'
    BY <1>1 DEF TypeOK, RuntimeType, Age
  <2> QED BY <1>1, Untouched DEF TypeOK, Age, outsideVars
<1>2. CASE Expire(p)
  <2> RuntimeType'
    BY <1>2 DEF TypeOK, RuntimeType, Expire, Expired
  <2> QED BY <1>2, Untouched DEF TypeOK, Expire, outsideVars
<1>3. CASE IdleSkip(p)
  <2> RuntimeType'
    BY <1>3 DEF TypeOK, RuntimeType, IdleSkip
  <2> QED BY <1>3, Untouched DEF TypeOK, IdleSkip, outsideVars
<1>4. CASE IdlePostpone(p)
  <2> RuntimeType'
    BY <1>4 DEF TypeOK, RuntimeType, IdlePostpone
  <2> QED BY <1>4, Untouched DEF TypeOK, IdlePostpone, outsideVars
<1>5. CASE IdleExit(p)
  <2>1. RuntimeType'
    BY <1>5 DEF TypeOK, RuntimeType, IdleExit
  <2>2. TableType'
    BY <1>5, DropEntryType DEF TypeOK, IdleExit
  <2>3. CallType'
    BY <1>5 DEF TypeOK, CallType, IdleExit
  <2> QED BY <1>5, <2>1, <2>2, <2>3, Untouched DEF TypeOK, IdleExit, outsideVars
<1> QED BY <1>1, <1>2, <1>3, <1>4, <1>5 DEF IdleCallback

\* A gateway request keeps the types.
LEMMA GatewayType ==
    ASSUME TypeOK, NEW r \in Requests, RequestThread(r) \/ \E n \in Plugins : GatewayStart(r, n)
    PROVE  TypeOK'
<1>1. ASSUME NEW n \in Plugins, GatewayStart(r, n)
      PROVE  TypeOK'
  <2>1. RequestType'
    BY <1>1 DEF TypeOK, GatewayStart, ReqTo, RequestType, Request, TableType, ProcOrNone
  <2>2. TableType' /\ MachineType' /\ RuntimeType' /\ CallType'
    BY <1>1, SpawnType, Untouched DEF TypeOK, GatewayStart, NoStart
  <2> QED BY <1>1, <2>1, <2>2, Untouched DEF TypeOK, GatewayStart
<1>2. CASE GatewayStarted(r)
  <2> RequestType'
    BY <1>2 DEF TypeOK, RequestType, Request, GatewayStarted
  <2> QED BY <1>2, Untouched DEF TypeOK, GatewayStarted
<1>3. CASE GatewayTouch(r)
  <2>1. RequestType'
    BY <1>3 DEF TypeOK, RequestType, Request, GatewayTouch
  <2>2. RuntimeType'
    <3> DEFINE p == runtimes[req[r].plugin]
    <3>1. CASE p = NoProc
      BY <1>3, <3>1 DEF TypeOK, RuntimeType, GatewayTouch
    <3>2. CASE p # NoProc
      <4> p \in Procs
        BY <1>3, <3>2 DEF TypeOK, TableType, RequestType, GatewayTouch, ProcOrNone
      <4> QED BY <1>3, <3>2 DEF TypeOK, RuntimeType, GatewayTouch, Overtake
    <3> QED BY <3>1, <3>2
  <2> QED BY <1>3, <2>1, <2>2, Untouched DEF TypeOK, GatewayTouch
<1>4. CASE GatewayDial(r)
  <2> RequestType'
    BY <1>4 DEF TypeOK, RequestType, Request, ProcOrNone, GatewayDial
  <2> QED BY <1>4, Untouched DEF TypeOK, GatewayDial
<1>5. CASE GatewayFinish(r)
  <2> RequestType'
    BY <1>5 DEF TypeOK, RequestType, Request, GatewayFinish
  <2> QED BY <1>5, Untouched DEF TypeOK, GatewayFinish
<1> QED BY <1>1, <1>2, <1>3, <1>4, <1>5 DEF RequestThread

\* Every step of an administrator's handler keeps the types.
LEMMA AdminStepType ==
    ASSUME TypeOK, NEW a \in Admins, AdminStep(a)
    PROVE  TypeOK'
<1>1. ASSUME NEW n \in Plugins, AdminStart(a, n)
      PROVE  TypeOK'
  <2>1. BoundType'
    BY <1>1, ConstantsAssumption DEF TypeOK, BoundType, AdminStart, Begin
  <2>2. TableType' /\ MachineType' /\ RuntimeType' /\ CallType'
    BY <1>1, SpawnType DEF AdminStart
  <2> QED BY <1>1, <2>1, <2>2, Untouched DEF TypeOK, AdminStart
<1>2. ASSUME NEW n \in Plugins, AdminStop(a, n)
      PROVE  TypeOK'
  <2>1. BoundType'
    BY <1>2, ConstantsAssumption DEF TypeOK, BoundType, AdminStop, Begin
  <2>2. TableType' /\ RuntimeType' /\ CallType'
    BY <1>2, StopEntryType DEF AdminStop
  <2> QED BY <1>2, <2>1, <2>2, Untouched DEF TypeOK, AdminStop
<1>3. ASSUME NEW n \in Plugins, RestartStop(a, n)
      PROVE  TypeOK'
  <2>1. BoundType'
    BY <1>3, ConstantsAssumption DEF TypeOK, BoundType, RestartStop, Begin
  <2>2. TableType' /\ RuntimeType' /\ CallType'
    BY <1>3, StopIfRunningType DEF RestartStop
  <2>3. AdminType'
    BY <1>3 DEF TypeOK, AdminType, Admin, AdminTo, RestartStop, TableType
  <2> QED BY <1>3, <2>1, <2>2, <2>3, Untouched DEF TypeOK, RestartStop
<1>4. CASE RestartStart(a)
  <2>1. AdminType'
    BY <1>4 DEF TypeOK, AdminType, Admin, AdminIdle, IdleAdmin, ProcOrNone, RestartStart
  <2>2. admin[a].plugin \in Plugins
    BY <1>4 DEF TypeOK, AdminType, RestartStart
  <2>3. TableType' /\ MachineType' /\ RuntimeType' /\ CallType'
    BY <1>4, <2>2, SpawnType, Untouched DEF TypeOK, RestartStart, NoStart
  <2> QED BY <1>4, <2>1, <2>3, Untouched DEF TypeOK, RestartStart
<1>5. ASSUME NEW n \in Plugins, NEW v \in BOOLEAN, KeepaliveCheck(a, n, v)
      PROVE  TypeOK'
  <2>1. BoundType'
    BY <1>5, ConstantsAssumption DEF TypeOK, BoundType, KeepaliveCheck, Begin
  <2>2. AdminType'
    BY <1>5 DEF TypeOK, AdminType, Admin, AdminTo, KeepaliveCheck, ProcOrNone
  <2> QED BY <1>5, <2>1, <2>2, Untouched DEF TypeOK, KeepaliveCheck
<1>13. CASE KeepaliveSet(a)
  <2>1. StoreType'
    BY <1>13 DEF TypeOK, StoreType, KeepaliveSet
  <2>2. AdminType'
    BY <1>13 DEF TypeOK, AdminType, Admin, KeepaliveSet
  <2> QED BY <1>13, <2>1, <2>2, Untouched DEF TypeOK, KeepaliveSet
<1>6. CASE ApplyKeepalive(a)
  <2>1. AdminType'
    BY <1>6 DEF TypeOK, AdminType, Admin, AdminIdle, IdleAdmin, ProcOrNone, ApplyKeepalive
  <2>2. RuntimeType'
    BY <1>6 DEF TypeOK, RuntimeType, ApplyKeepalive, CancelTimer, Arm, Running
  <2> QED BY <1>6, <2>1, <2>2, Untouched DEF TypeOK, ApplyKeepalive
<1>7. ASSUME NEW n \in Plugins, UninstallStop(a, n)
      PROVE  TypeOK'
  <2>1. BoundType'
    BY <1>7, ConstantsAssumption DEF TypeOK, BoundType, UninstallStop, Begin
  <2>2. TableType' /\ RuntimeType' /\ CallType'
    BY <1>7, StopIfRunningType DEF UninstallStop
  <2>3. AdminType'
    BY <1>7 DEF TypeOK, AdminType, Admin, AdminTo, UninstallStop, TableType
  <2> QED BY <1>7, <2>1, <2>2, <2>3, Untouched DEF TypeOK, UninstallStop
<1>8. CASE UninstallRemove(a)
  <2>1. StoreType'
    BY <1>8 DEF TypeOK, StoreType, UninstallRemove
  <2>2. AdminType'
    BY <1>8 DEF TypeOK, AdminType, Admin, UninstallRemove
  <2> QED BY <1>8, <2>1, <2>2, Untouched DEF TypeOK, UninstallRemove
<1>9. CASE UninstallDelete(a)
  <2>1. StoreType'
    BY <1>9 DEF TypeOK, StoreType, UninstallDelete
  <2>2. AdminType'
    BY <1>9 DEF TypeOK, AdminType, Admin, AdminIdle, IdleAdmin, ProcOrNone, UninstallDelete
  <2> QED BY <1>9, <2>1, <2>2, Untouched DEF TypeOK, UninstallDelete
<1>10. ASSUME NEW n \in Plugins, InstallFromEmbed(a, n) \/ InstallFromURL(a, n)
       PROVE  TypeOK'
  <2>1. BoundType'
    BY <1>10, ConstantsAssumption DEF TypeOK, BoundType, InstallFromEmbed, InstallFromURL, Begin
  <2>2. StoreType'
    BY <1>10 DEF TypeOK, StoreType, InstallFromEmbed, InstallFromURL
  <2>3. AdminType'
    <3>1. ASSUME NEW step \in {"record", "upgrade"}, NEW v \in BOOLEAN,
                 AdminTo(a, step, n, NoProc, v)
          PROVE  AdminType'
      BY <3>1 DEF TypeOK, AdminType, Admin, AdminTo, ProcOrNone
    <3>2. /\ (n \in ManifestKeepalive) \in BOOLEAN
          /\ (n \in keepalive \cup ManifestKeepalive) \in BOOLEAN
      OBVIOUS
    <3>3. \/ AdminTo(a, "record", n, NoProc, n \in ManifestKeepalive)
          \/ AdminTo(a, "upgrade", n, NoProc, n \in keepalive \cup ManifestKeepalive)
      BY <1>10, Zenon DEF InstallFromEmbed, InstallFromURL
    <3> QED BY <3>1, <3>2, <3>3, Zenon
  <2> QED BY <1>10, <2>1, <2>2, <2>3, Untouched DEF TypeOK, InstallFromEmbed, InstallFromURL
<1>11. CASE InstallRecord(a)
  <2>1. admin[a].plugin \in Plugins
    BY <1>11 DEF TypeOK, AdminType, InstallRecord
  <2>2. StoreType'
    BY <1>11, <2>1 DEF TypeOK, StoreType, InstallRecord
  <2>3. AdminType'
    <3>1. CASE admin' = [admin EXCEPT ![a].pc = "restore"]
      BY <2>1, <3>1 DEF TypeOK, AdminType, Admin
    <3>2. CASE AdminIdle(a)
      BY <3>2 DEF TypeOK, AdminType, Admin, AdminIdle, IdleAdmin, ProcOrNone
    <3> QED BY <1>11, <3>1, <3>2 DEF InstallRecord
  <2> QED BY <1>11, <2>2, <2>3, Untouched DEF TypeOK, InstallRecord
<1>12. CASE InstallRestore(a)
  <2>1. StoreType'
    BY <1>12 DEF TypeOK, StoreType, InstallRestore
  <2>2. AdminType'
    BY <1>12 DEF TypeOK, AdminType, Admin, AdminIdle, IdleAdmin, ProcOrNone, InstallRestore
  <2> QED BY <1>12, <2>1, <2>2, Untouched DEF TypeOK, InstallRestore
<1> QED BY <1>1, <1>2, <1>3, <1>4, <1>5, <1>6, <1>7, <1>8, <1>9, <1>10, <1>11, <1>12,
           <1>13
        DEF AdminStep, AdminThread

\* The main goroutine keeps the types.
LEMMA MainThreadType ==
    ASSUME TypeOK, Boot \/ MainThread \/ Shutdown
    PROVE  TypeOK'
<1>1. CASE Boot
  <2>1. MainType'
    BY <1>1 DEF TypeOK, MainType, StoreType, Boot, ProcOrNone
  <2>2. TableType'
    BY <1>1 DEF TypeOK, TableType, Boot, SavePortMap, ProcOrNone
  <2>3. RuntimeType'
    BY <1>1 DEF TypeOK, RuntimeType, TableType, Boot, ProcOrNone, Adoptable
  <2>4. StoreType'
    BY <1>1, ConstantsAssumption DEF TypeOK, StoreType, Boot, SyncPluginsFromDir
  <2> QED BY <1>1, <2>1, <2>2, <2>3, <2>4, Untouched DEF TypeOK, Boot
<1>2. ASSUME NEW n \in Plugins, Revive(n)
      PROVE  TypeOK'
  <2>1. MainType'
    BY <1>2 DEF TypeOK, MainType, Revive, ProcOrNone
  <2>2. TableType' /\ MachineType' /\ RuntimeType' /\ CallType'
    BY <1>2, SpawnType, Untouched DEF TypeOK, Revive, NoStart
  <2> QED BY <1>2, <2>1, <2>2, Untouched DEF TypeOK, Revive, outsideVars
<1>3. ASSUME NEW n \in Plugins, ShutdownStop(n)
      PROVE  TypeOK'
  <2>1. MainType'
    BY <1>3 DEF TypeOK, MainType, TableType, ShutdownStop
  <2>2. TableType' /\ RuntimeType' /\ CallType'
    BY <1>3, StopIfRunningType DEF ShutdownStop
  <2> QED BY <1>3, <2>1, <2>2, Untouched DEF TypeOK, ShutdownStop, outsideVars
<1>4. CASE ReviveWait \/ ListenAndServe \/ ShutdownWait
  <2> MainType'
    BY <1>4 DEF TypeOK, MainType, ReviveWait, ListenAndServe, ShutdownWait, ProcOrNone
  <2> QED BY <1>4, Untouched DEF TypeOK, ReviveWait, ListenAndServe, ShutdownWait, outsideVars
<1>5. CASE Shutdown
  <2>1. MainType'
    BY <1>5 DEF TypeOK, MainType, Shutdown
  <2>2. BoundType'
    BY <1>5, ConstantsAssumption DEF TypeOK, BoundType, Shutdown
  <2> QED BY <1>5, <2>1, <2>2, Untouched DEF TypeOK, Shutdown
<1>6. CASE CoreExit
  <2>1. TableType' /\ MachineType' /\ BoundType'
    BY <1>6, CoreGoneType, ReapedType DEF TypeOK, TableType, MachineType, BoundType, CoreExit, CoreGone
  <2> QED BY <1>6, <2>1, CoreGoneType DEF TypeOK, CoreExit
<1> QED BY <1>1, <1>2, <1>3, <1>4, <1>5, <1>6 DEF MainThread

\* The deaths of the core keep the types.
LEMMA CrashType ==
    ASSUME TypeOK, Crash \/ (\E p \in Procs : IdlePanic(p)) \/ \E n \in Plugins : CrashInStart(n)
    PROVE  TypeOK'
<1>1. CASE Crash \/ \E p \in Procs : IdlePanic(p)
  <2>1. TableType'
    BY <1>1, CoreGoneType DEF TypeOK, TableType, Crash, IdlePanic
  <2>2. MachineType'
    BY <1>1, ReapedType DEF TypeOK, MachineType, Crash, IdlePanic
  <2>3. BoundType'
    BY <1>1, ConstantsAssumption DEF TypeOK, BoundType, Crash, IdlePanic, CoreGone
  <2> QED BY <1>1, <2>1, <2>2, <2>3, CoreGoneType DEF TypeOK, Crash, IdlePanic
<1>2. ASSUME NEW n \in Plugins, CrashInStart(n)
      PROVE  TypeOK'
  <2>0. TableType'
    BY <1>2, CoreGoneType DEF TypeOK, TableType, CrashInStart
  <2>1. BoundType'
    BY <1>2, ConstantsAssumption DEF TypeOK, BoundType, CrashInStart, CoreGone
  <2>2. MachineType'
    <3> PICK p \in Procs : Fork(n, p) /\ os' = [ReapedByInit EXCEPT ![p] = "booting"]
      BY <1>2 DEF CrashInStart
    <3>1. os' \in [Procs -> {"none", "booting", "serving", "zombie", "gone", "reused"}]
      BY ReapedType
    <3>2. port' \in [Procs -> Ports \cup {0}]
      BY DEF TypeOK, MachineType, Fork, FreePorts
    <3>3. forks' \in 0..MaxProcs
      BY ConstantsAssumption DEF Fork, Procs
    <3> QED BY <3>1, <3>2, <3>3 DEF TypeOK, MachineType, Fork
  <2> QED BY <1>2, <2>0, <2>1, <2>2, CoreGoneType DEF TypeOK, CrashInStart
<1> QED BY <1>1, <1>2

\* Binding, exits, reused PIDs and foreign listeners keep the types.
LEMMA EnvironmentType ==
    ASSUME TypeOK,
           \/ \E p \in Procs : Bind(p) \/ ProcExit(p) \/ ReusePid(p)
           \/ \E q \in Ports : Squat(q)
    PROVE  TypeOK'
<1>1. ASSUME NEW p \in Procs, Bind(p) \/ ProcExit(p) \/ ReusePid(p)
      PROVE  TypeOK'
  <2> MachineType'
    BY <1>1 DEF TypeOK, MachineType, Bind, ProcExit, ReusePid, Dead
  <2> QED BY <1>1, Untouched DEF TypeOK, Bind, ProcExit, ReusePid, outsideVars
<1>2. ASSUME NEW q \in Ports, Squat(q)
      PROVE  TypeOK'
  <2> MachineType'
    BY <1>2 DEF TypeOK, MachineType, Squat
  <2> QED BY <1>2, Untouched DEF TypeOK, Squat, outsideVars
<1> QED BY <1>1, <1>2

\* Every step keeps the types.
LEMMA TypeStep == TypeOK /\ [Next]_vars => TypeOK'
<1> SUFFICES ASSUME TypeOK, [Next]_vars
             PROVE  TypeOK'
  OBVIOUS
<1>1. CASE Boot \/ MainThread \/ Shutdown
  BY <1>1, MainThreadType
<1>2. CASE Crash \/ \E n \in Plugins : CrashInStart(n)
  BY <1>2, CrashType
<1>3. ASSUME NEW p \in Procs, ProcStep(p)
      PROVE  TypeOK'
  BY <1>3, StartThreadType, ExitThreadType, KillThreadType, TimerType, CrashType, EnvironmentType
     DEF ProcStep, CallThread, TimerThread
<1>4. CASE \E r \in Requests : RequestThread(r) \/ \E n \in Plugins : GatewayStart(r, n)
  BY <1>4, GatewayType
<1>5. CASE \E a \in Admins : AdminStep(a)
  BY <1>5, AdminStepType
<1>6. CASE \E q \in Ports : Squat(q)
  BY <1>6, EnvironmentType
<1>7. CASE UNCHANGED vars
  BY <1>7, Untouched DEF TypeOK, vars, outsideVars
<1> QED BY <1>1, <1>2, <1>3, <1>4, <1>5, <1>6, <1>7 DEF Next

\* Whatever the bounds and however many plugins, requests and administrators there are, the
\* manager's state keeps its types.
THEOREM TypeCorrect == Spec => []TypeOK
<1>1. Init => TypeOK
  BY TypeInit
<1>2. TypeOK /\ [Next]_vars => TypeOK'
  BY TypeStep
<1> QED BY <1>1, <1>2, PTL DEF Spec

-----------------------------------------------------------------------------
(* What a step can do to the entries and the processes *)

\* Nothing that the inductive invariant is about.
Quiet ==
    /\ core' = "down" <=> core = "down"
    /\ UNCHANGED <<tableVars, os, name, port, forks, callVars, tick, adopted, stray>>

\* Some caller of Start forks a process.
Spawning ==
    /\ core # "down" /\ core' = core /\ UNCHANGED stray
    /\ \E n \in Plugins, p \in Procs : Spawn(n, p)

\* Some caller of Stop takes an entry down.
Stopping ==
    /\ Up /\ core' = core
    /\ UNCHANGED <<machineVars, tick, adopted, start, watch, stray>>
    /\ \E n \in Plugins : StopEntry(n)

\* A goroutine of one process takes a step.
Working ==
    /\ core # "down" /\ core' = core
    /\ \E p \in Procs :
          \/ StartThread(p) \/ Reap(p) \/ CleanEntry(p) \/ IdleExit(p)
          \/ \E w \in Killers : KillThread(p, w)

\* The core dies, perhaps in the middle of Start.
Dying ==
    /\ core # "down" /\ CoreGone /\ UNCHANGED portMap
    /\ \/ os' = ReapedByInit /\ UNCHANGED <<name, port, forks>>
       \/ \E n \in Plugins, p \in Procs : Fork(n, p) /\ os' = [ReapedByInit EXCEPT ![p] = "booting"]

\* A process changes by itself.
Environment == \E p \in Procs : Bind(p) \/ ProcExit(p) \/ ReusePid(p)

Kinds == Quiet \/ Spawning \/ Stopping \/ Working \/ Dying \/ Environment \/ Boot

\* The kinds of the steps of a process and of the goroutines made for it.
LEMMA ProcStepKind ==
    ASSUME TypeOK, DownIsEmpty, NEW p \in Procs, ProcStep(p)
    PROVE  Kinds
<1>1. CASE StartThread(p)
  <2> core # "down" /\ core' = core
    BY <1>1 DEF DownIsEmpty, StartThread, WaitPortOk, WaitPortTimeout, GiveUp, StartError, StartDone,
               mainVars
  <2> QED BY <1>1 DEF Kinds, Working
<1>2. CASE Reap(p) \/ CleanEntry(p)
  <2> core # "down" /\ core' = core
    BY <1>2 DEF DownIsEmpty, Reap, CleanEntry, mainVars
  <2> QED BY <1>2 DEF Kinds, Working
<1>3. ASSUME NEW w \in Killers, KillThread(p, w)
      PROVE  Kinds
  <2> core # "down" /\ core' = core
    BY <1>3 DEF DownIsEmpty, KillThread, KillTerm, KillReturn, KillForce, mainVars
  <2> QED BY <1>3 DEF Kinds, Working
<1>4. CASE IdleExit(p)
  <2> core # "down" /\ core' = core
    BY <1>4 DEF DownIsEmpty, IdleExit, mainVars
  <2> QED BY <1>4 DEF Kinds, Working
<1>5. CASE Age(p) \/ Expire(p) \/ IdleSkip(p) \/ IdlePostpone(p)
  <2> Quiet
    BY <1>5 DEF Quiet, Age, Expire, IdleSkip, IdlePostpone, mainVars, machineVars, outsideVars
  <2> QED BY DEF Kinds
<1>6. CASE IdlePanic(p)
  <2> Dying
    BY <1>6 DEF Dying, IdlePanic, DownIsEmpty
  <2> QED BY DEF Kinds
<1>7. CASE Bind(p) \/ ProcExit(p) \/ ReusePid(p)
  BY <1>7 DEF Kinds, Environment
<1> QED BY <1>1, <1>2, <1>3, <1>4, <1>5, <1>6, <1>7
        DEF ProcStep, CallThread, TimerThread, IdleCallback

\* A gateway step forks a process or leaves processes and entries alone.
LEMMA RequestKind ==
    ASSUME TypeOK, DownIsEmpty, NEW r \in Requests,
           RequestThread(r) \/ \E n \in Plugins : GatewayStart(r, n)
    PROVE  Kinds
<1>1. ASSUME NEW n \in Plugins, GatewayStart(r, n)
      PROVE  Kinds
  <2>1. CASE NoStart
    <3> Quiet
      BY <1>1, <2>1 DEF Quiet, GatewayStart, NoStart, mainVars, machineVars, rtVars
    <3> QED BY DEF Kinds
  <2>2. CASE \E p \in Procs : Spawn(n, p)
    <3> Spawning
      BY <1>1, <2>2 DEF Spawning, GatewayStart, Up, mainVars
    <3> QED BY DEF Kinds
  <2> QED BY <1>1, <2>1, <2>2 DEF GatewayStart
<1>2. CASE RequestThread(r)
  <2> Quiet
    BY <1>2 DEF Quiet, RequestThread, GatewayStarted, GatewayTouch, GatewayDial, GatewayFinish,
                mainVars, machineVars, rtVars
  <2> QED BY DEF Kinds
<1> QED BY <1>1, <1>2

\* A Stop drops one entry and begins its killProc, or does nothing.
LEMMA StopIfRunningKind ==
    ASSUME NEW n \in Plugins, StopIfRunning(n), Up, core' = core,
           UNCHANGED <<machineVars, tick, adopted, start, watch, stray>>
    PROVE  Quiet \/ Stopping
<1>1. CASE runtimes[n] = NoProc
  BY <1>1 DEF StopIfRunning, Quiet, machineVars, callVars
<1>2. CASE runtimes[n] # NoProc
  BY <1>2 DEF StopIfRunning, Stopping
<1> QED BY <1>1, <1>2

\* A handler's step forks, stops, or leaves processes and entries alone.
LEMMA AdminKind ==
    ASSUME TypeOK, DownIsEmpty, NEW a \in Admins, AdminStep(a)
    PROVE  Kinds
<1>1. ASSUME NEW n \in Plugins, AdminStart(a, n)
      PROVE  Kinds
  <2> Spawning
    BY <1>1 DEF Spawning, AdminStart, Begin, Up, mainVars
  <2> QED BY DEF Kinds
<1>2. ASSUME NEW n \in Plugins, AdminStop(a, n)
      PROVE  Kinds
  <2> Stopping
    BY <1>2 DEF Stopping, AdminStop, Begin, mainVars
  <2> QED BY DEF Kinds
<1>3. ASSUME NEW n \in Plugins, RestartStop(a, n) \/ UninstallStop(a, n)
      PROVE  Kinds
  <2> Quiet \/ Stopping
    BY <1>3, StopIfRunningKind DEF RestartStop, UninstallStop, Begin, mainVars
  <2> QED BY DEF Kinds
<1>4. CASE RestartStart(a)
  <2>1. core # "down" /\ core' = core /\ admin[a].plugin \in Plugins
    BY <1>4 DEF DownIsEmpty, RestartStart, TypeOK, AdminType, mainVars
  <2>2. CASE NoStart
    <3> Quiet
      BY <1>4, <2>1, <2>2 DEF Quiet, RestartStart, NoStart, machineVars, rtVars
    <3> QED BY DEF Kinds
  <2>3. CASE \E p \in Procs : Spawn(admin[a].plugin, p)
    <3> Spawning
      BY <1>4, <2>1, <2>3 DEF Spawning, RestartStart
    <3> QED BY DEF Kinds
  <2> QED BY <1>4, <2>2, <2>3 DEF RestartStart
<1>5. ASSUME \/ \E n \in Plugins : InstallFromEmbed(a, n) \/ InstallFromURL(a, n) \/ \E v \in BOOLEAN : KeepaliveCheck(a, n, v)
             \/ KeepaliveSet(a) \/ ApplyKeepalive(a) \/ UninstallRemove(a) \/ UninstallDelete(a)
             \/ InstallRecord(a) \/ InstallRestore(a)
      PROVE  Kinds
  <2> Quiet
    BY <1>5 DEF Quiet, InstallFromEmbed, InstallFromURL, KeepaliveCheck, KeepaliveSet, ApplyKeepalive, UninstallRemove,
                UninstallDelete, InstallRecord, InstallRestore, mainVars, machineVars, rtVars
  <2> QED BY DEF Kinds
<1> QED BY <1>1, <1>2, <1>3, <1>4, <1>5 DEF AdminStep, AdminThread

\* A step of the main goroutine forks, stops, ends the core or leaves processes and entries alone.
LEMMA MainKind ==
    ASSUME TypeOK, MainThread \/ Shutdown \/ Crash \/ (\E n \in Plugins : CrashInStart(n))
    PROVE  Kinds
<1>1. ASSUME NEW n \in Plugins, Revive(n)
      PROVE  Kinds
  <2>1. CASE NoStart
    <3> Quiet
      BY <1>1, <2>1 DEF Quiet, Revive, NoStart, machineVars, rtVars, outsideVars
    <3> QED BY DEF Kinds
  <2>2. CASE \E p \in Procs : Spawn(n, p)
    <3> Spawning
      BY <1>1, <2>2 DEF Spawning, Revive, outsideVars
    <3> QED BY DEF Kinds
  <2> QED BY <1>1, <2>1, <2>2 DEF Revive
<1>2. ASSUME NEW n \in Plugins, ShutdownStop(n)
      PROVE  Kinds
  <2> Quiet \/ Stopping
    BY <1>2, StopIfRunningKind DEF ShutdownStop, Up, outsideVars
  <2> QED BY DEF Kinds
<1>3. CASE ReviveWait \/ ListenAndServe \/ ShutdownWait \/ Shutdown
  <2> Quiet
    BY <1>3 DEF Quiet, ReviveWait, ListenAndServe, ShutdownWait, Shutdown, machineVars, rtVars,
                outsideVars
  <2> QED BY DEF Kinds
<1>4. CASE CoreExit \/ Crash
  <2> Dying
    BY <1>4 DEF Dying, CoreExit, Crash
  <2> QED BY DEF Kinds
<1>5. ASSUME NEW n \in Plugins, CrashInStart(n)
      PROVE  Kinds
  <2> Dying
    BY <1>5 DEF Dying, CrashInStart
  <2> QED BY DEF Kinds
<1> QED BY <1>1, <1>2, <1>3, <1>4, <1>5 DEF MainThread

\* Every step is of one of the kinds above; the invariant is proved once per kind.
LEMMA StepKinds ==
    ASSUME TypeOK, DownIsEmpty, [Next]_vars
    PROVE  Kinds
<1>1. CASE MainThread \/ Shutdown \/ Crash \/ \E n \in Plugins : CrashInStart(n)
  BY <1>1, MainKind
<1>2. CASE \E p \in Procs : ProcStep(p)
  BY <1>2, ProcStepKind
<1>3. CASE \E r \in Requests : RequestThread(r) \/ \E n \in Plugins : GatewayStart(r, n)
  BY <1>3, RequestKind
<1>4. CASE \E a \in Admins : AdminStep(a)
  BY <1>4, AdminKind
<1>5. CASE \E q \in Ports : Squat(q)
  <2> Quiet
    BY <1>5 DEF Quiet, Squat, mainVars, rtVars, outsideVars
  <2> QED BY DEF Kinds
<1>6. CASE UNCHANGED vars
  <2> Quiet
    BY <1>6 DEF Quiet, vars, mainVars, machineVars, rtVars, outsideVars
  <2> QED BY DEF Kinds
<1> QED BY <1>1, <1>2, <1>3, <1>4, <1>5, <1>6 DEF Next, Kinds

-----------------------------------------------------------------------------
(* Each part of the inductive invariant is kept by every step *)

\* While the core stays down, no timer and no handler changes.
LEMMA DownFrame ==
    ASSUME TypeOK, DownIsEmpty, core = "down", core' = "down", [Next]_vars
    PROVE  UNCHANGED <<timer, ghost, firing, admin>>
<1>1. ASSUME NEW p \in Procs, ProcStep(p)
      PROVE  UNCHANGED <<timer, ghost, firing, admin>>
  <2>1. ~StartThread(p) /\ ~Reap(p) /\ ~CleanEntry(p) /\ \A w \in Killers : ~KillThread(p, w)
    BY DEF DownIsEmpty, StartThread, WaitPortOk, WaitPortTimeout, GiveUp, StartError, StartDone, Reap,
           CleanEntry, KillThread, KillTerm, KillReturn, KillForce
  <2>2. ~Expire(p) /\ ~IdleCallback(p) /\ ~IdlePanic(p)
    BY DEF DownIsEmpty, Expire, Running, IdleCallback, IdleSkip, IdlePostpone, IdleExit, IdlePanic
  <2>3. Age(p) \/ Bind(p) \/ ProcExit(p) \/ ReusePid(p)
    BY <1>1, <2>1, <2>2 DEF ProcStep, CallThread, TimerThread
  <2> QED BY <2>3 DEF Age, Bind, ProcExit, ReusePid, outsideVars, rtVars
<1>2. ASSUME NEW r \in Requests, RequestThread(r)
      PROVE  UNCHANGED <<timer, ghost, firing, admin>>
  <2>1. CASE GatewayTouch(r)
    <3> runtimes[req[r].plugin] = NoProc
      BY <2>1 DEF TypeOK, RequestType, DownIsEmpty, GatewayTouch
    <3> QED BY <2>1 DEF GatewayTouch
  <2> QED BY <1>2, <2>1 DEF RequestThread, GatewayStarted, GatewayDial, GatewayFinish, rtVars
<1>3. ASSUME NEW r \in Requests, NEW n \in Plugins
      PROVE  ~GatewayStart(r, n)
  BY DEF GatewayStart, Up
<1>4. ASSUME NEW a \in Admins
      PROVE  ~AdminStep(a)
  BY DEF DownIsEmpty, AdminStep, AdminThread, Begin, Up, AdminStart, AdminStop, RestartStop,
         RestartStart, KeepaliveCheck, KeepaliveSet, ApplyKeepalive, UninstallStop, UninstallRemove,
         UninstallDelete, InstallFromEmbed, InstallFromURL, InstallRecord, InstallRestore
<1>5. ~Boot /\ ~MainThread /\ ~Shutdown /\ ~Crash /\ \A n \in Plugins : ~CrashInStart(n)
  BY DEF Boot, MainThread, Shutdown, Crash, CrashInStart, Revive, ShutdownStop, ReviveWait,
         ListenAndServe, ShutdownWait, CoreExit
<1>6. ASSUME NEW q \in Ports, Squat(q)
      PROVE  UNCHANGED <<timer, ghost, firing, admin>>
  BY <1>6 DEF Squat, rtVars, outsideVars
<1>7. CASE UNCHANGED vars
  BY <1>7 DEF vars, rtVars, outsideVars
<1> QED BY <1>1, <1>2, <1>3, <1>4, <1>5, <1>6, <1>7 DEF Next

\* DownIsEmpty is kept.
LEMMA DownStep ==
    ASSUME TypeOK, DownIsEmpty, [Next]_vars
    PROVE  DownIsEmpty'
<1>1. CASE core' # "down"
  BY <1>1 DEF DownIsEmpty
<1>2. CASE core' = "down" /\ core # "down"
  <2> Dying
    BY <1>2, StepKinds DEF Kinds, Quiet, Spawning, Stopping, Working, Environment, Boot,
                           Bind, ProcExit, ReusePid, mainVars
  <2> QED BY DEF Dying, CoreGone, DownIsEmpty, IdleAdmin
<1>3. CASE core' = "down" /\ core = "down"
  <2>1. UNCHANGED <<timer, ghost, firing, admin>>
    BY <1>3, DownFrame
  <2>2. UNCHANGED <<runtimes, start, watch, kill, adopted>>
    BY <1>3, StepKinds DEF Kinds, Quiet, Spawning, Stopping, Up, Working, Dying, Environment, Boot,
                           Bind, ProcExit, ReusePid, tableVars, callVars, rtVars
  <2> QED BY <1>3, <2>1, <2>2 DEF DownIsEmpty
<1> QED BY <1>1, <1>2, <1>3

\* A step of a goroutine changes the entries only by dropping that of its process.
LEMMA WorkingEntries ==
    ASSUME Working
    PROVE  /\ UNCHANGED tableVars \/ \E n : DropEntry(n)
           /\ UNCHANGED <<name, port, forks>>
BY DEF Working, StartThread, WaitPortOk, WaitPortTimeout, GiveUp, StartError, StartDone, Reap, CleanEntry,
       IdleExit, KillThread, KillTerm, KillReturn, KillForce, machineVars

\* PortMapAgrees is kept: every change of the entries is saved in the same critical section.
LEMMA AgreeStep ==
    ASSUME TypeOK, DownIsEmpty, PortMapAgrees, [Next]_vars
    PROVE  PortMapAgrees'
<1>1. CASE Quiet \/ Environment
  BY <1>1 DEF PortMapAgrees, Quiet, Environment, Bind, ProcExit, ReusePid, tableVars, mainVars
<1>2. CASE Spawning \/ Boot
  BY <1>2 DEF PortMapAgrees, Spawning, Spawn, Boot, SavePortMap
<1>3. CASE Stopping
  BY <1>3 DEF PortMapAgrees, Stopping, StopEntry, DropEntry, SavePortMap
<1>4. CASE Working
  BY <1>4, WorkingEntries DEF PortMapAgrees, Working, DropEntry, SavePortMap, tableVars
<1>5. CASE Dying
  BY <1>5 DEF PortMapAgrees, Dying, CoreGone
<1> QED BY <1>1, <1>2, <1>3, <1>4, <1>5, StepKinds DEF Kinds

\* A fork takes the next process number, which no entry has, and leaves the rest alone.
LEMMA ForkEntries ==
    ASSUME TypeOK, EntriesAreForked, NEW n \in Plugins, NEW p \in Procs, Fork(n, p)
    PROVE  /\ p = forks + 1 /\ forks' = p /\ name'[p] = n /\ port'[p] \in FreePorts
           /\ \A t \in Tables : \A m \in Plugins :
                 t[m] # NoProc =>
                    /\ t[m] \in Procs /\ t[m] # p /\ t[m] <= forks'
                    /\ name'[t[m]] = m /\ port'[t[m]] = port[t[m]]
<1>1. p = forks + 1 /\ forks' = p /\ forks \in Nat
  BY ConstantsAssumption DEF TypeOK, MachineType, Fork
<1>2. name'[p] = n /\ port'[p] \in FreePorts
  BY DEF TypeOK, MachineType, Fork
<1>3. ASSUME NEW t \in Tables, NEW m \in Plugins, t[m] # NoProc
      PROVE  /\ t[m] \in Procs /\ t[m] # p /\ t[m] <= forks'
             /\ name'[t[m]] = m /\ port'[t[m]] = port[t[m]]
  <2>1. t[m] \in Procs /\ t[m] <= forks /\ name[t[m]] = m
    BY <1>3 DEF TypeOK, TableType, ProcOrNone, EntriesAreForked, Tables
  <2>2. t[m] # p /\ t[m] <= forks'
    BY <1>1, <2>1 DEF Procs
  <2> QED BY <2>1, <2>2 DEF TypeOK, MachineType, Fork
<1> QED BY <1>1, <1>2, <1>3

\* The file stays as it is, or is given the whole table.
LEMMA FileStep ==
    ASSUME TypeOK, DownIsEmpty, [Next]_vars
    PROVE  portMap' \in {portMap, runtimes'}
<1>1. CASE Quiet \/ Environment
  BY <1>1 DEF Quiet, Environment, Bind, ProcExit, ReusePid, tableVars
<1>2. CASE Spawning \/ Boot
  BY <1>2 DEF Spawning, Spawn, Boot, SavePortMap
<1>3. CASE Stopping
  BY <1>3 DEF Stopping, StopEntry, DropEntry, SavePortMap
<1>4. CASE Working
  BY <1>4, WorkingEntries DEF DropEntry, SavePortMap, tableVars
<1>5. CASE Dying
  BY <1>5 DEF Dying
<1> QED BY <1>1, <1>2, <1>3, <1>4, <1>5, StepKinds DEF Kinds

\* What was entered or saved keeps its plugin and its port.
LEMMA EntriesStay ==
    ASSUME TypeOK, DownIsEmpty, EntriesAreForked, [Next]_vars,
           NEW t \in Tables, NEW m \in Plugins, t[m] # NoProc
    PROVE  t[m] <= forks' /\ name'[t[m]] = m /\ port'[t[m]] = port[t[m]]
<1>1. CASE UNCHANGED <<name, port, forks>>
  BY <1>1 DEF EntriesAreForked
<1>2. ASSUME NEW n \in Plugins, NEW p \in Procs, Fork(n, p)
      PROVE  t[m] <= forks' /\ name'[t[m]] = m /\ port'[t[m]] = port[t[m]]
  BY <1>2, ForkEntries
<1>3. UNCHANGED <<name, port, forks>> \/ \E n \in Plugins, p \in Procs : Fork(n, p)
  BY StepKinds, WorkingEntries
     DEF Kinds, Quiet, Spawning, Spawn, Stopping, Dying, Environment, Bind, ProcExit, ReusePid,
         Boot, machineVars
<1> QED BY <1>1, <1>2, <1>3

\* A table may only gain the process that Start forks, or what Load finds in the file.
LEMMA TableStep ==
    ASSUME TypeOK, DownIsEmpty, [Next]_vars
    PROVE  \/ Spawning
           \/ \E t \in Tables : \A m \in Plugins : runtimes'[m] \in {t[m], NoProc}
<1>1. CASE Quiet \/ Environment
  BY <1>1 DEF Quiet, Environment, Bind, ProcExit, ReusePid, tableVars, Tables
<1>2. CASE Stopping \/ Working
  <2> UNCHANGED tableVars \/ \E n : DropEntry(n)
    BY <1>2, WorkingEntries DEF Stopping, StopEntry
  <2> QED BY DEF DropEntry, tableVars, TypeOK, TableType, Tables
<1>3. CASE Dying
  BY <1>3 DEF Dying, CoreGone, Tables
<1>4. CASE Boot
  BY <1>4 DEF Boot, Tables
<1> QED BY <1>1, <1>2, <1>3, <1>4, StepKinds DEF Kinds

\* Entries name forked processes of their plugin, at different ports, after every step.
LEMMA EntriesStep ==
    ASSUME TypeOK, DownIsEmpty, EntriesAreForked, LeasesExclusive, [Next]_vars
    PROVE  EntriesAreForked' /\ LeasesExclusive'
<1> DEFINE Good(t) ==
             /\ \A n \in Plugins : t[n] # NoProc => t[n] <= forks' /\ name'[t[n]] = n
             /\ \A m, n \in Plugins :
                   m # n /\ t[m] # NoProc /\ t[n] # NoProc => port'[t[m]] # port'[t[n]]
<1>1. ASSUME NEW t \in Tables PROVE Good(t)
  BY EntriesStay DEF LeasesExclusive
<1>2. CASE \E t \in Tables : \A m \in Plugins : runtimes'[m] \in {t[m], NoProc}
  <2> PICK t \in Tables : \A m \in Plugins : runtimes'[m] \in {t[m], NoProc}
    BY <1>2
  <2>1. Good(t)
    BY <1>1
  <2>2. Good(runtimes')
    BY <2>1
  <2> QED BY <1>1, <2>2, FileStep DEF EntriesAreForked, LeasesExclusive, Tables
<1>3. CASE Spawning
  <2>1. PICK n \in Plugins, p \in Procs : Spawn(n, p)
    BY <1>3 DEF Spawning
  <2>2. runtimes' = [runtimes EXCEPT ![n] = p] /\ runtimes \in [Plugins -> ProcOrNone]
    BY <2>1 DEF Spawn, TypeOK, TableType
  <2>3. Fork(n, p)
    BY <2>1 DEF Spawn
  <2>4. Good(runtimes)
    BY <1>1 DEF Tables
  <2>5. p <= forks' /\ name'[p] = n
    BY <2>3, ForkEntries DEF Procs
  <2>6. \A m \in Plugins : runtimes[m] # NoProc => port'[runtimes[m]] # port'[p]
    BY <2>3, ForkEntries DEF FreePorts, Tables
  <2>7. Good(runtimes')
    BY <2>2, <2>4, <2>5, <2>6
  <2> QED BY <1>1, <2>7, FileStep DEF EntriesAreForked, LeasesExclusive, Tables
<1> QED BY <1>2, <1>3, TableStep

-----------------------------------------------------------------------------
(* The parts of the invariant that are about processes *)

Processes == UnforkedIsBlank /\ ExitedIsDead /\ LiveTickIsOwn /\ StrayIsForeign /\ NoLostProcess

\* They are kept when the entries stay and each process keeps the little that they look at.
LEMMA SameProcesses ==
    ASSUME TypeOK, Processes,
           UNCHANGED <<runtimes, os, name, forks, kill, tick, adopted, stray>>,
           \A p \in Procs : /\ start'[p] # "none" <=> start[p] # "none"
                            /\ watch'[p] = "exited" => watch[p] = "exited"
                            /\ watch'[p] # "none" => watch[p] # "none" \/ start[p] # "none"
    PROVE  Processes'
BY DEF Processes, UnforkedIsBlank, ExitedIsDead, LiveTickIsOwn, StrayIsForeign, NoLostProcess,
       Known, Live

\* Fork and entry in one critical section: the new process is entered.
LEMMA SpawningProcesses ==
    ASSUME IInv, Spawning
    PROVE  Processes'
<1> PICK n \in Plugins, p \in Procs : Spawn(n, p)
  BY DEF Spawning
<1> USE DEF IInv
<1>1. Fork(n, p) /\ UNCHANGED <<watch, kill, adopted, stray>>
  BY DEF Spawning, Spawn
<1>2. p = forks + 1 /\ forks' = p /\ forks \in Nat /\ name'[p] = n
  BY <1>1, ForkEntries, ConstantsAssumption DEF TypeOK, MachineType
<1>3. /\ os' = [os EXCEPT ![p] = "booting"] /\ tick' = [tick EXCEPT ![p] = "own"]
      /\ start' = [start EXCEPT ![p] = "waiting"] /\ runtimes' = [runtimes EXCEPT ![n] = p]
      /\ name' = [name EXCEPT ![p] = n] /\ runtimes[n] = NoProc
  BY DEF Spawn, Fork
<1>4. runtimes'[name'[p]] = p /\ tick'[p] = "own" /\ os[p] = "none" /\ watch[p] = "none" /\ p \notin stray
  BY <1>2, <1>3 DEF TypeOK, MachineType, TableType, RuntimeType, UnforkedIsBlank
<1>5. \A q \in Procs : q # p => /\ os'[q] = os[q] /\ tick'[q] = tick[q] /\ start'[q] = start[q]
                                /\ name'[q] = name[q]
                                /\ runtimes[name[q]] = q => runtimes'[name[q]] = q
  BY <1>3 DEF TypeOK, TableType, MachineType, RuntimeType, CallType, NoProc, Procs
<1>6. UnforkedIsBlank'
  BY <1>1, <1>2, <1>5 DEF UnforkedIsBlank, Procs
<1>7. ExitedIsDead'
  BY <1>1, <1>4, <1>5 DEF ExitedIsDead, Live
<1>8. LiveTickIsOwn'
  BY <1>1, <1>4, <1>5 DEF LiveTickIsOwn, Live, Known
<1>9. StrayIsForeign'
  BY <1>1, <1>4, <1>5 DEF StrayIsForeign, TypeOK, StrayType
<1>10. NoLostProcess'
  BY <1>1, <1>4, <1>5 DEF NoLostProcess, Live, Known
<1> QED BY <1>6, <1>7, <1>8, <1>9, <1>10 DEF Processes

\* An entry may go when the process it names is dead or about to be killed.
LEMMA DropProcesses ==
    ASSUME IInv, NEW p \in Procs, IsCurrent(p), DropEntry(name[p]),
           UNCHANGED <<os, name, forks, tick, adopted, stray>>,
           \A q \in Procs : /\ start'[q] # "none" <=> start[q] # "none"
                            /\ watch'[q] \in {watch[q], "none"},
           \A k \in Procs \X Killers : kill[k] # "idle" => kill'[k] # "idle",
           ~Live(p) \/ \E w \in Killers : kill'[<<p, w>>] # "idle"
    PROVE  Processes'
<1> USE DEF IInv
<1>1. \A q \in Procs : q # p /\ runtimes[name[q]] = q => runtimes'[name[q]] = q
  BY DEF DropEntry, IsCurrent, TypeOK, TableType
<1>2. UnforkedIsBlank'
  BY DEF UnforkedIsBlank
<1>3. ExitedIsDead'
  BY DEF ExitedIsDead, Live
<1>4. LiveTickIsOwn' /\ StrayIsForeign'
  BY DEF LiveTickIsOwn, StrayIsForeign, Live, Known
<1>5. NoLostProcess'
  BY <1>1 DEF NoLostProcess, Live, Known, Killers
<1> QED BY <1>2, <1>3, <1>4, <1>5 DEF Processes

\* Stop and the idle exit leave the dropped process to killProc.
LEMMA StoppingProcesses ==
    ASSUME IInv, Stopping
    PROVE  Processes'
<1> PICK n \in Plugins : StopEntry(n)
  BY DEF Stopping
<1> DEFINE p == runtimes[n]
<1>1. p \in Procs /\ name[p] = n
  BY DEF IInv, TypeOK, TableType, ProcOrNone, StopEntry, EntriesAreForked, Tables
<1>2. IsCurrent(p) /\ DropEntry(name[p])
  BY <1>1 DEF IsCurrent, StopEntry
<1>3. /\ kill' = [kill EXCEPT ![<<p, "stop">>] = "begun"] /\ kill'[<<p, "stop">>] = "begun"
      /\ \A k \in Procs \X Killers : kill[k] # "idle" => kill'[k] # "idle"
  BY <1>1 DEF IInv, TypeOK, CallType, StopEntry, Killers
<1> HIDE DEF p
<1> QED BY <1>1, <1>2, <1>3, DropProcesses DEF Stopping, machineVars, Killers

\* The goroutines of Start, cmd.Wait and killProc lose no live process.
LEMMA WorkingProcesses ==
    ASSUME IInv, Working
    PROVE  Processes'
<1> USE DEF IInv
<1> PICK p \in Procs : \/ StartThread(p) \/ Reap(p) \/ CleanEntry(p) \/ IdleExit(p)
                       \/ \E w \in Killers : KillThread(p, w)
  BY DEF Working
<1>1. CASE WaitPortOk(p) \/ WaitPortTimeout(p) \/ StartDone(p)
  <2>1. /\ start[p] # "none" /\ start'[p] # "none"
        /\ watch'[p] # "exited" \/ watch'[p] = watch[p]
        /\ \A q \in Procs : q # p => start'[q] = start[q] /\ watch'[q] = watch[q]
    BY <1>1 DEF TypeOK, CallType, WaitPortOk, WaitPortTimeout, StartDone
  <2>2. UNCHANGED <<runtimes, os, name, forks, kill, tick, adopted, stray>>
    BY <1>1 DEF WaitPortOk, WaitPortTimeout, StartDone, tableVars, machineVars, rtVars, outsideVars
  <2> QED BY <2>1, <2>2, SameProcesses DEF Processes
<1>2. CASE GiveUp(p)
  <2>1. /\ \A q \in Procs : (start'[q] # "none" <=> start[q] # "none") /\ watch'[q] = watch[q]
        /\ kill'[<<p, "start">>] # "idle"
        /\ \A k \in Procs \X Killers : kill[k] # "idle" => kill'[k] # "idle"
        /\ UNCHANGED <<os, name, forks, tick, adopted, stray>>
    BY <1>2 DEF TypeOK, CallType, GiveUp, machineVars, rtVars, outsideVars, Killers
  <2>2. CASE IsCurrent(p)
    BY <1>2, <2>1, <2>2, DropProcesses DEF GiveUp, Killers
  <2>3. CASE ~IsCurrent(p)
    BY <1>2, <2>1, <2>3 DEF GiveUp, tableVars, Processes, UnforkedIsBlank, ExitedIsDead,
                            LiveTickIsOwn, StrayIsForeign, NoLostProcess, Known, Live, Killers
  <2> QED BY <2>2, <2>3
<1>3. CASE StartError(p) \/ Reap(p)
  <2>1. /\ os[p] = "zombie" /\ os' = [os EXCEPT ![p] = "gone"]
        /\ start[p] # "none" \/ watch[p] # "none"
        /\ \A q \in Procs : /\ start'[q] # "none" <=> start[q] # "none"
                            /\ q # p => watch'[q] = watch[q]
        /\ UNCHANGED <<runtimes, name, forks, kill, tick, adopted, stray>>
    BY <1>3 DEF TypeOK, CallType, StartError, Reap, tableVars, rtVars, outsideVars
  <2>2. \A q \in Procs : /\ Live(q)' => Live(q) /\ q # p
                         /\ q # p => os'[q] = os[q] /\ watch'[q] = watch[q]
    BY <2>1 DEF Live, TypeOK, MachineType
  <2>3. p <= forks
    BY <2>1, ConstantsAssumption DEF UnforkedIsBlank, TypeOK, MachineType, Procs
  <2>4. UnforkedIsBlank'
    BY <2>1, <2>2, <2>3, ConstantsAssumption DEF UnforkedIsBlank, TypeOK, MachineType, Procs
  <2>5. ExitedIsDead' /\ LiveTickIsOwn' /\ NoLostProcess'
    BY <2>1, <2>2 DEF ExitedIsDead, LiveTickIsOwn, NoLostProcess, Known
  <2>6. StrayIsForeign'
    BY <2>1 DEF StrayIsForeign, TypeOK, StrayType, MachineType
  <2> QED BY <2>4, <2>5, <2>6 DEF Processes
<1>4. CASE CleanEntry(p)
  <2>1. /\ \A q \in Procs : start'[q] = start[q] /\ watch'[q] \in {watch[q], "none"}
        /\ ~Live(p) /\ UNCHANGED <<os, name, forks, kill, tick, adopted, stray>>
    BY <1>4 DEF TypeOK, CallType, CleanEntry, machineVars, outsideVars, ExitedIsDead
  <2>2. CASE IsCurrent(p)
    BY <1>4, <2>1, <2>2, DropProcesses DEF CleanEntry
  <2>3. CASE ~IsCurrent(p)
    BY <1>4, <2>1, <2>3, SameProcesses DEF CleanEntry, tableVars, Processes
  <2> QED BY <2>2, <2>3
<1>5. CASE IdleExit(p)
  <2> /\ IsCurrent(p) /\ DropEntry(name[p]) /\ kill'[<<p, "stop">>] # "idle"
      /\ \A k \in Procs \X Killers : kill[k] # "idle" => kill'[k] # "idle"
      /\ UNCHANGED <<os, name, forks, start, watch, tick, adopted, stray>>
    BY <1>5 DEF IdleExit, IdleDue, TypeOK, CallType, Killers, machineVars, outsideVars
  <2> QED BY DropProcesses DEF Killers
<1>6. ASSUME NEW w \in Killers, KillTerm(p, w)
      PROVE  Processes'
  <2>1. /\ kill'[<<p, w>>] # "idle" /\ \A k \in Procs \X Killers : kill[k] # "idle" => kill'[k] # "idle"
        /\ UNCHANGED <<runtimes, os, name, forks, start, watch, tick, adopted>>
    BY <1>6 DEF TypeOK, CallType, KillTerm, tableVars, machineVars, rtVars
  <2>2. stray' = stray \/ (stray' = stray \cup {p} /\ os[p] = "reused" /\ tick[p] # "own")
    BY <1>6 DEF KillTerm, Signal, SameProcess, InProcTable
  <2> QED BY <2>1, <2>2 DEF Processes, UnforkedIsBlank, ExitedIsDead, LiveTickIsOwn,
                            StrayIsForeign, NoLostProcess, Known, Live
<1>7. ASSUME NEW w \in Killers, KillReturn(p, w)
      PROVE  Processes'
  <2>1. /\ \A k \in Procs \X Killers : k # <<p, w>> => kill'[k] = kill[k]
        /\ UNCHANGED <<runtimes, os, name, forks, start, watch, tick, adopted, stray>>
    BY <1>7 DEF TypeOK, CallType, KillReturn, tableVars, machineVars, rtVars, outsideVars
  <2>2. Known(p) => ~Live(p)
    BY <1>7 DEF KillReturn, SameProcess, InProcTable, LiveTickIsOwn, Live
  <2>3. NoLostProcess'
    BY <2>1, <2>2 DEF NoLostProcess, Known, Live
  <2> QED BY <2>1, <2>3 DEF Processes, UnforkedIsBlank, ExitedIsDead, LiveTickIsOwn,
                            StrayIsForeign, Known, Live
<1>8. ASSUME NEW w \in Killers, KillForce(p, w)
      PROVE  Processes'
  <2>1. /\ \A k \in Procs \X Killers : k # <<p, w>> => kill'[k] = kill[k]
        /\ UNCHANGED <<runtimes, name, forks, start, watch, tick, adopted>>
        /\ \A q \in Procs : q # p => os'[q] = os[q]
        /\ os'[p] = (IF Live(p) THEN Dead(p) ELSE os[p])
    BY <1>8 DEF TypeOK, CallType, MachineType, KillForce, tableVars, rtVars
  <2>2. ~Live(p)' /\ (os[p] = "reused" => os'[p] = "reused") /\ (os[p] = "none" => os'[p] = "none")
    BY <2>1 DEF Live, Dead
  <2>3. stray' = stray \/ (stray' = stray \cup {p} /\ os[p] = "reused" /\ tick[p] # "own")
    BY <1>8 DEF KillForce, Signal, SameProcess, InProcTable
  <2>4. UnforkedIsBlank' /\ StrayIsForeign'
    BY <2>1, <2>2, <2>3 DEF UnforkedIsBlank, StrayIsForeign, TypeOK, StrayType
  <2>5. ExitedIsDead' /\ LiveTickIsOwn' /\ NoLostProcess'
    BY <2>1, <2>2 DEF ExitedIsDead, LiveTickIsOwn, NoLostProcess, Known, Live
  <2> QED BY <2>4, <2>5 DEF Processes
<1> QED BY <1>1, <1>2, <1>3, <1>4, <1>5, <1>6, <1>7, <1>8 DEF StartThread, KillThread

\* A dead core knows of no process.
LEMMA DyingProcesses ==
    ASSUME IInv, Dying
    PROVE  Processes'
<1> USE DEF IInv
<1>1. /\ \A q \in Procs : start'[q] = "none" /\ watch'[q] = "none"
      /\ adopted' = {} /\ UNCHANGED <<tick, stray>>
    BY DEF Dying, CoreGone
<1>2. ExitedIsDead' /\ LiveTickIsOwn' /\ NoLostProcess'
  BY <1>1 DEF ExitedIsDead, LiveTickIsOwn, NoLostProcess, Known
<1>3. \A q \in Procs : /\ os[q] = "none" => ReapedByInit[q] = "none"
                       /\ os[q] = "reused" => ReapedByInit[q] = "reused"
  BY DEF ReapedByInit
<1>4. CASE os' = ReapedByInit /\ UNCHANGED forks
  BY <1>1, <1>2, <1>3, <1>4 DEF Processes, UnforkedIsBlank, StrayIsForeign, TypeOK, StrayType
<1>5. ASSUME NEW n \in Plugins, NEW p \in Procs, Fork(n, p), os' = [ReapedByInit EXCEPT ![p] = "booting"]
      PROVE  Processes'
  <2>1. p = forks + 1 /\ forks' = p /\ forks \in Nat /\ p \notin stray
    BY <1>5, ForkEntries, ConstantsAssumption DEF TypeOK, MachineType, UnforkedIsBlank
  <2>2. \A q \in Procs : q # p => os'[q] = ReapedByInit[q]
    BY <1>5 DEF ReapedByInit
  <2>3. UnforkedIsBlank'
    BY <1>1, <1>3, <2>1, <2>2 DEF UnforkedIsBlank, Procs
  <2>4. StrayIsForeign'
    BY <1>1, <1>3, <2>1, <2>2 DEF StrayIsForeign, TypeOK, StrayType
  <2> QED BY <1>2, <2>3, <2>4 DEF Processes
<1> QED BY <1>4, <1>5 DEF Dying

\* Load enters every process it adopts, with the start time it reads.
LEMMA BootProcesses ==
    ASSUME IInv, Boot
    PROVE  Processes'
<1> USE DEF IInv
<1>1. /\ core = "down" /\ UNCHANGED <<os, name, forks, start, watch, kill, stray>>
      /\ \A q \in Procs : start[q] = "none" /\ watch[q] = "none"
  BY DEF Boot, DownIsEmpty, machineVars, callVars
<1> DEFINE back == {n \in Plugins : Adoptable(n)}
           procs == {portMap[n] : n \in back}
<1>2. /\ runtimes' = [n \in Plugins |-> IF n \in back THEN portMap[n] ELSE NoProc]
      /\ adopted' = procs
      /\ \A q \in Procs : tick'[q] = IF q \notin procs THEN tick[q]
                                     ELSE IF InProcTable(q) THEN "own"
                                     ELSE IF os[q] = "reused" THEN "foreign" ELSE "none"
  BY DEF Boot
<1>3. \A q \in procs : q \in Procs /\ q <= forks /\ runtimes'[name[q]] = q
  <2>1. \A n \in Plugins :
            Adoptable(n) => /\ portMap[n] \in Procs /\ portMap[n] <= forks
                            /\ name[portMap[n]] = n
    BY DEF Adoptable, TypeOK, TableType, ProcOrNone, EntriesAreForked, Tables
  <2> SUFFICES ASSUME NEW n \in Plugins, Adoptable(n)
               PROVE  /\ portMap[n] \in Procs /\ portMap[n] <= forks
                      /\ runtimes'[name[portMap[n]]] = portMap[n]
    OBVIOUS
  <2>2. runtimes'[n] = portMap[n]
    BY <1>2
  <2> QED BY <2>1, <2>2
<1>4. UnforkedIsBlank'
  <2>1. \A q \in adopted' : q \in Procs /\ q <= forks
    BY <1>2, <1>3
  <2>2. \A q \in Procs : q \in adopted' => ~(q > forks)
    BY <2>1, ConstantsAssumption DEF Procs, TypeOK, MachineType
  <2> HIDE DEF back, procs
  <2> QED BY <1>1, <2>2 DEF UnforkedIsBlank
<1>5. ExitedIsDead'
  BY <1>1 DEF ExitedIsDead
<1>6. LiveTickIsOwn'
  BY <1>1, <1>2 DEF LiveTickIsOwn, Known, Live, InProcTable
<1>7. StrayIsForeign'
  BY <1>1, <1>2 DEF StrayIsForeign, TypeOK, StrayType, InProcTable
<1>8. NoLostProcess'
  BY <1>1, <1>2, <1>3 DEF NoLostProcess, Known
<1> QED BY <1>4, <1>5, <1>6, <1>7, <1>8 DEF Processes

\* What happens outside the core makes no dead process live.
LEMMA EnvironmentProcesses ==
    ASSUME IInv, Environment
    PROVE  Processes'
<1> USE DEF IInv
<1> PICK p \in Procs : Bind(p) \/ ProcExit(p) \/ ReusePid(p)
  BY DEF Environment
<1>1. UNCHANGED <<runtimes, name, forks, start, watch, kill, tick, adopted, stray>>
  BY DEF Bind, ProcExit, ReusePid, tableVars, rtVars, callVars, outsideVars
<1>2. /\ \A q \in Procs : q # p => os'[q] = os[q]
      /\ os[p] \notin {"none", "reused"} /\ (Live(p)' => Live(p))
  BY DEF Bind, ProcExit, ReusePid, Live, Dead, TypeOK, MachineType
<1>3. \A q \in Procs : Live(q)' => Live(q)
  BY <1>2 DEF Live
<1>4. UnforkedIsBlank' /\ StrayIsForeign'
  BY <1>1, <1>2 DEF UnforkedIsBlank, StrayIsForeign, TypeOK, StrayType
<1>5. ExitedIsDead' /\ LiveTickIsOwn' /\ NoLostProcess'
  BY <1>1, <1>3 DEF ExitedIsDead, LiveTickIsOwn, NoLostProcess, Known
<1> QED BY <1>4, <1>5 DEF Processes

-----------------------------------------------------------------------------
(* The theorems *)

\* IInv holds before the core first boots.
LEMMA IInvInit == Init => IInv
<1> SUFFICES ASSUME Init
             PROVE  IInv
  OBVIOUS
<1>1. TypeOK
  BY TypeInit
<1>2. PortMapAgrees /\ DownIsEmpty /\ UnforkedIsBlank
  BY DEF Init, PortMapAgrees, DownIsEmpty, UnforkedIsBlank, IdleAdmin
<1>3. EntriesAreForked /\ LeasesExclusive
  BY DEF Init, EntriesAreForked, LeasesExclusive, Tables
<1>4. ExitedIsDead /\ LiveTickIsOwn /\ StrayIsForeign /\ NoLostProcess
  BY DEF Init, ExitedIsDead, LiveTickIsOwn, StrayIsForeign, NoLostProcess, Live
<1> QED BY <1>1, <1>2, <1>3, <1>4 DEF IInv

\* IInv is kept by every step.
LEMMA IInvStep == IInv /\ [Next]_vars => IInv'
<1> SUFFICES ASSUME IInv, [Next]_vars
             PROVE  IInv'
  OBVIOUS
<1>1. TypeOK' /\ PortMapAgrees' /\ DownIsEmpty' /\ EntriesAreForked' /\ LeasesExclusive'
  BY TypeStep, AgreeStep, DownStep, EntriesStep DEF IInv
<1>2. Processes'
  <2>1. CASE Quiet
    BY <2>1, SameProcesses DEF Quiet, IInv, Processes, tableVars, callVars
  <2> QED BY <2>1, StepKinds, SpawningProcesses, StoppingProcesses, WorkingProcesses,
             DyingProcesses, BootProcesses, EnvironmentProcesses DEF Kinds, IInv
<1> QED BY <1>1, <1>2 DEF IInv, Processes

\* IInv holds in every reachable state.
THEOREM Invariance == Spec => []IInv
BY IInvInit, IInvStep, PTL DEF Spec

\* Whenever the core runs and its last save has not failed, port-map.json names exactly the
\* running entries, whatever saves have failed before.
THEOREM PortMapCorrect == Spec => []PortMapAgrees
<1> IInv => PortMapAgrees
  BY DEF IInv
<1> QED BY Invariance, PTL

\* No two running plugins are ever entered with the same port.
THEOREM PortsCorrect == Spec => []PortsExclusive
<1> IInv => PortsExclusive
  BY DEF IInv, LeasesExclusive, PortsExclusive, Tables
<1> QED BY Invariance, PTL

\* A live process that the core knows of is entered or about to be killed.
THEOREM ProcessesCorrect == Spec => []NoLostProcess
<1> IInv => NoLostProcess
  BY DEF IInv
<1> QED BY Invariance, PTL

\* A signal to a reused PID needs a start time that was read after the reuse.
THEOREM SignalsCorrect == Spec => []OwnTickNeverStray
<1> IInv => OwnTickNeverStray
  BY DEF IInv, StrayIsForeign, OwnTickNeverStray
<1> QED BY Invariance, PTL

-----------------------------------------------------------------------------
(* Action properties *)

\* An idle callback takes down no process but its own, and only when that is due.
THEOREM IdleExitsCorrect == Spec => OnlyIdleExits
<1> DEFINE Step(p) ==
             p \in firing /\ p \notin firing' /\ core' # "down" /\ runtimes' # runtimes
                => /\ runtimes[name[p]] = p
                   /\ runtimes' = [runtimes EXCEPT ![name[p]] = NoProc]
                   /\ p \notin fresh /\ name[p] \notin keepalive
<1>1. [Next]_vars => [\A p \in Procs : Step(p)]_vars
  <2> SUFFICES ASSUME Next, NEW p \in Procs,
                      p \in firing, p \notin firing', core' # "down", runtimes' # runtimes
               PROVE  /\ runtimes[name[p]] = p
                      /\ runtimes' = [runtimes EXCEPT ![name[p]] = NoProc]
                      /\ p \notin fresh /\ name[p] \notin keepalive
    OBVIOUS
  <2>1. ASSUME NEW q \in Procs, ProcStep(q)
        PROVE  q = p /\ IdleExit(p)
    <3>1. ~StartThread(q) /\ ~Reap(q) /\ ~CleanEntry(q) /\ \A w \in Killers : ~KillThread(q, w)
      BY DEF StartThread, WaitPortOk, WaitPortTimeout, GiveUp, StartError, StartDone, Reap, CleanEntry,
             KillThread, KillTerm, KillReturn, KillForce, rtVars
    <3>2. ~Age(q) /\ ~Expire(q) /\ ~IdleSkip(q) /\ ~IdlePostpone(q) /\ ~IdlePanic(q)
      BY DEF Age, Expire, IdleSkip, IdlePostpone, IdlePanic, CoreGone, tableVars
    <3>3. ~Bind(q) /\ ~ProcExit(q) /\ ~ReusePid(q)
      BY DEF Bind, ProcExit, ReusePid, tableVars
    <3>4. IdleExit(q)
      BY <2>1, <3>1, <3>2, <3>3 DEF ProcStep, CallThread, TimerThread, IdleCallback
    <3> QED BY <3>4 DEF IdleExit
  <2>2. ASSUME NEW r \in Requests
        PROVE  ~RequestThread(r) /\ \A n \in Plugins : ~GatewayStart(r, n)
    BY DEF RequestThread, GatewayStart, GatewayStarted, GatewayTouch, GatewayDial, GatewayFinish,
           Spawn, NoStart, tableVars
  <2>3. ASSUME NEW a \in Admins
        PROVE  ~AdminStep(a)
    BY DEF AdminStep, AdminThread, AdminStart, AdminStop, RestartStop, RestartStart, KeepaliveCheck,
           KeepaliveSet, ApplyKeepalive, UninstallStop, UninstallRemove, UninstallDelete, InstallFromEmbed, InstallFromURL,
           InstallRecord, InstallRestore, Spawn, NoStart, tableVars, rtVars
  <2>4. ~Boot /\ ~MainThread /\ ~Shutdown /\ ~Crash /\ \A n \in Plugins : ~CrashInStart(n)
    BY DEF Boot, MainThread, Shutdown, Crash, CrashInStart, Revive, ShutdownStop, ReviveWait,
           ListenAndServe, ShutdownWait, CoreExit, CoreGone, Spawn, NoStart, rtVars
  <2>5. \A q \in Ports : ~Squat(q)
    BY DEF Squat, tableVars
  <2>6. IdleExit(p)
    BY <2>1, <2>2, <2>3, <2>4, <2>5 DEF Next
  <2> QED BY <2>6 DEF IdleExit, IdleDue, IsCurrent, DropEntry
<1> QED BY <1>1, PTL DEF Spec, OnlyIdleExits

\* A plugin that serves is managed again by the next core, and keeps its place while the core
\* revives the keepalive plugins, unless its own Start has given it up.
THEOREM AdoptionCorrect == Spec => ServingIsAdopted
<1> DEFINE Step(n) ==
             core' \in {"reviving", "up"} =>
               /\ core = "down" /\ Serves(portMap[n]) => runtimes'[n] = portMap[n]
               /\ /\ core = "reviving" /\ n \in keepalive
                  /\ Serves(runtimes[n]) /\ start[runtimes[n]] # "late"
                  => runtimes'[n] = runtimes[n]
<1>1. ASSUME IInv, [Next]_vars, NEW n \in Plugins, core' \in {"reviving", "up"},
             core = "down", Serves(portMap[n])
      PROVE  runtimes'[n] = portMap[n]
  <2>1. Adoptable(n)
    BY <1>1 DEF Serves, Adoptable, Listening, Serving, IInv, TypeOK, TableType, ProcOrNone
  <2>2. Boot
    BY <1>1, StepKinds DEF Kinds, IInv, Quiet, Spawning, Stopping, Up, Working, Dying, Environment,
                           Bind, ProcExit, ReusePid, mainVars
  <2> QED BY <2>1, <2>2 DEF Boot
<1>2. ASSUME IInv, [Next]_vars, NEW n \in Plugins, core' \in {"reviving", "up"},
             core = "reviving", n \in keepalive, Serves(runtimes[n]), start[runtimes[n]] # "late"
      PROVE  runtimes'[n] = runtimes[n]
  <2> DEFINE p == runtimes[n]
  <2>1. p \in Procs /\ name[p] = n /\ Live(p)
    BY <1>2 DEF Serves, IInv, TypeOK, TableType, ProcOrNone, EntriesAreForked, Tables, Live
  <2>2. CASE Quiet \/ Environment
    BY <2>2 DEF Quiet, Environment, Bind, ProcExit, ReusePid, tableVars
  <2>3. CASE Spawning
    BY <1>2, <2>3 DEF Serves, Spawning, Spawn, IInv, TypeOK, TableType
  <2>4. ~Stopping /\ ~Dying /\ ~Boot
    BY <1>2 DEF Stopping, Up, Dying, CoreGone, Boot
  <2>5. CASE Working
    <3>1. PICK q \in Procs : \/ StartThread(q) \/ Reap(q) \/ CleanEntry(q) \/ IdleExit(q)
                             \/ \E w \in Killers : KillThread(q, w)
      BY <2>5 DEF Working
    <3>2. CASE UNCHANGED tableVars
      BY <3>2 DEF tableVars
    <3>3. CASE GiveUp(q)
      <4>1. name[q] = n => ~IsCurrent(q)
        BY <1>2, <3>3 DEF GiveUp, IsCurrent
      <4>2. UNCHANGED runtimes \/ (name[q] # n /\ DropEntry(name[q]))
        BY <3>3, <4>1 DEF GiveUp, tableVars
      <4>d. name[q] # n /\ DropEntry(name[q]) => runtimes'[n] = runtimes[n]
        BY <1>2 DEF DropEntry, IInv, TypeOK, TableType
      <4> QED BY <4>2, <4>d
    <3>4. CASE CleanEntry(q)
      <4>1. q # p
        BY <1>2, <2>1, <3>4 DEF CleanEntry, IInv, ExitedIsDead
      <4>2. name[q] = n => ~IsCurrent(q)
        BY <4>1 DEF IsCurrent
      <4>3. UNCHANGED runtimes \/ (name[q] # n /\ DropEntry(name[q]))
        BY <3>4, <4>2 DEF CleanEntry, tableVars
      <4>d. name[q] # n /\ DropEntry(name[q]) => runtimes'[n] = runtimes[n]
        BY <1>2 DEF DropEntry, IInv, TypeOK, TableType
      <4> QED BY <4>3, <4>d
    <3>5. CASE IdleExit(q)
      <4>1. name[q] # n
        BY <1>2, <3>5 DEF IdleExit, IdleDue
      <4> QED BY <3>5, <4>1 DEF IdleExit, DropEntry, IInv, TypeOK, TableType
    <3> QED BY <3>1, <3>2, <3>3, <3>4, <3>5
            DEF StartThread, WaitPortOk, WaitPortTimeout, StartError, StartDone, Reap,
                KillThread, KillTerm, KillReturn, KillForce
  <2> QED BY <1>2, <2>2, <2>3, <2>4, <2>5, StepKinds DEF Kinds, IInv
<1>3. IInv /\ [Next]_vars => [\A n \in Plugins : Step(n)]_vars
  BY <1>1, <1>2
<1> QED BY <1>3, Invariance, PTL DEF Spec, ServingIsAdopted
=============================================================================
