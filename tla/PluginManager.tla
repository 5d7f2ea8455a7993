---------------------------- MODULE PluginManager ----------------------------
(***************************************************************************)
(* The panel core's plugin process manager (internal/plugins/manager.go),  *)
(* with the three callers that drive it concurrently: the gateway, the     *)
(* administrator's HTTP handlers, and the main goroutine (boot, revival of *)
(* keepalive plugins, shutdown).                                           *)
(*                                                                         *)
(* One action is one critical section of Manager.mu, one step of the code  *)
(* that runs outside it (waitPort, killProc, cmd.Wait, an AfterFunc        *)
(* callback that waits for the mutex), or one step of the environment (a   *)
(* plugin process binds its port, exits, its PID is reused).               *)
(*                                                                         *)
(* A process is numbered when it is forked and its number is never reused; *)
(* the Runtime struct that Start or Load makes for it is identified with   *)
(* it.  That the kernel reuses its PID is the process state "reused".      *)
(***************************************************************************)
EXTENDS Naturals

CONSTANTS
    Plugins,       \* plugin names
    Ports,         \* the port pool, PortLo..PortHi
    Requests,      \* gateway requests, each served once
    Admins,        \* concurrent administrator requests
    AdminOps,      \* the administrator's operations in this instance
    Bundled,       \* plugins installed when the core first boots
    ManifestKeepalive, \* plugins whose manifest.yaml says keepalive: true
    PidReuse,      \* whether the kernel may reuse the PID of an exited plugin
    DiskFails,     \* whether writing port-map.json may fail
    SquatPorts,    \* ports an unrelated program may come to listen on
    MaxProcs,      \* bound: processes forked in a behaviour
    MaxOps,        \* bound: operations the administrators begin
    MaxCrashes,    \* bound: abrupt deaths of the core
    MaxShutdowns,  \* bound: orderly shutdowns of the core
    NoPlugin

Ops == {"start", "stop", "restart", "keepalive", "uninstall", "install", "upgrade"}

ASSUME ConstantsAssumption ==
    /\ NoPlugin \notin Plugins
    /\ Ports \subseteq Nat \ {0} /\ SquatPorts \subseteq Ports
    /\ Bundled \subseteq Plugins /\ ManifestKeepalive \subseteq Plugins
    /\ AdminOps \subseteq Ops
    /\ PidReuse \in BOOLEAN /\ DiskFails \in BOOLEAN
    /\ MaxProcs \in Nat /\ MaxOps \in Nat /\ MaxCrashes \in Nat /\ MaxShutdowns \in Nat

VARIABLES
    core,          \* the core's phase
    todo, cur,     \* main goroutine: plugins left to revive or stop, and the process it waits for
    runtimes,      \* Manager.runtimes: the process that runs a plugin
    portMap,       \* etc/port-map.json: the same, as last saved
    unsaved,       \* this core's last save of it has failed
    os, name, port, forks, \* the machine: process states, what each runs, where it listens
    squatters,     \* ports on which an unrelated program listens
    tick,          \* Runtime.startTick: whose start time was recorded
    adopted,       \* Runtime.adopted: made by Load, not by Start
    fresh,         \* Runtime.lastUse is less than Idle ago
    timer,         \* Runtime.timer: nil, running, overtaken (running, and set before lastUse),
                   \*   or spent: a timer that has fired or was stopped
    ghost,         \* a running timer of the Runtime that Runtime.timer no longer points to
    firing,        \* an expired timer whose callback waits for the mutex
    start,         \* progress of the Start call that forked the process
    watch,         \* progress of its cmd.Wait goroutine
    kill,          \* progress of killProc, called by Stop or the idle callback, or by a failing Start
    installed, keepalive, dirs, \* the store's plugin records, and the directories under plugins/
    req, admin,    \* gateway requests and administrator requests in progress
    ops, crashes, shutdowns, \* how much of MaxOps, MaxCrashes and MaxShutdowns is used
    stray          \* processes whose reused PID was sent a signal

mainVars == <<core, todo, cur>>
tableVars == <<runtimes, portMap, unsaved>>
machineVars == <<os, name, port, forks, squatters>>
rtVars == <<tick, adopted, fresh, timer, ghost, firing>>
callVars == <<start, watch, kill>>
storeVars == <<installed, keepalive, dirs>>
boundVars == <<ops, crashes, shutdowns>>
outsideVars == <<storeVars, req, admin, boundVars, stray>>
vars == <<mainVars, tableVars, machineVars, rtVars, callVars, outsideVars>>

-----------------------------------------------------------------------------
Procs == 1..MaxProcs
NoProc == 0
ProcOrNone == Procs \cup {NoProc}
Killers == {"stop", "start"}

\* Gateway.ServeHTTP: waiting in Start, between Start and Touch, between Touch
\* and the dial, proxying (to the process "via"), finished.
Request == [pc: {"idle", "starting", "got", "touched", "open", "done", "failed"},
            plugin: Plugins \cup {NoPlugin}, rt: ProcOrNone, via: ProcOrNone]
IdleRequest == [pc |-> "idle", plugin |-> NoPlugin, rt |-> NoProc, via |-> NoProc]

\* The next step of an administrator's request that has several.
Admin == [pc: {"idle", "restart", "set", "apply", "remove", "delete", "record",
               "upgrade", "restore"},
          plugin: Plugins \cup {NoPlugin}, rt: ProcOrNone, on: BOOLEAN]
IdleAdmin == [pc |-> "idle", plugin |-> NoPlugin, rt |-> NoProc, on |-> FALSE]

MainType ==
    /\ core \in {"down", "reviving", "up", "stopping"}
    /\ todo \in SUBSET Plugins /\ cur \in ProcOrNone

TableType ==
    /\ runtimes \in [Plugins -> ProcOrNone]
    /\ portMap \in [Plugins -> ProcOrNone]
    /\ unsaved \in BOOLEAN

MachineType ==
    /\ os \in [Procs -> {"none", "booting", "serving", "zombie", "gone", "reused"}]
    /\ name \in [Procs -> Plugins \cup {NoPlugin}]
    /\ port \in [Procs -> Ports \cup {0}]
    /\ forks \in 0..MaxProcs
    /\ squatters \in SUBSET SquatPorts

RuntimeType ==
    /\ tick \in [Procs -> {"own", "foreign", "none"}]
    /\ adopted \in SUBSET Procs /\ fresh \in SUBSET Procs /\ firing \in SUBSET Procs
    /\ timer \in [Procs -> {"nil", "running", "overtaken", "spent"}]
    /\ ghost \in [Procs -> {"none", "running", "overtaken"}]

CallType ==
    /\ start \in [Procs -> {"none", "waiting", "late", "ready", "failing", "done", "error"}]
    /\ watch \in [Procs -> {"none", "waiting", "exited"}]
    /\ kill \in [Procs \X Killers -> {"idle", "begun", "signalled"}]

StoreType ==
    /\ installed \in SUBSET Plugins /\ keepalive \in SUBSET Plugins
    /\ dirs \in SUBSET Plugins

RequestType ==
    /\ req \in [Requests -> Request]
    /\ \A r \in Requests : req[r].pc # "idle" => req[r].plugin \in Plugins

AdminType ==
    /\ admin \in [Admins -> Admin]
    /\ \A a \in Admins : admin[a].pc # "idle" => admin[a].plugin \in Plugins

BoundType == ops \in 0..MaxOps /\ crashes \in 0..MaxCrashes /\ shutdowns \in 0..MaxShutdowns
StrayType == stray \in SUBSET Procs

TypeOK ==
    /\ MainType /\ TableType /\ MachineType /\ RuntimeType /\ CallType
    /\ StoreType /\ RequestType /\ AdminType /\ BoundType /\ StrayType

Init ==
    /\ core = "down" /\ todo = {} /\ cur = NoProc
    /\ runtimes = [n \in Plugins |-> NoProc]
    /\ portMap = runtimes /\ unsaved = FALSE
    /\ os = [p \in Procs |-> "none"]
    /\ name = [p \in Procs |-> NoPlugin]
    /\ port = [p \in Procs |-> 0]
    /\ forks = 0 /\ squatters = {}
    /\ tick = [p \in Procs |-> "none"]
    /\ adopted = {} /\ fresh = {} /\ firing = {}
    /\ ghost = [p \in Procs |-> "none"]
    /\ timer = [p \in Procs |-> "nil"]
    /\ start = [p \in Procs |-> "none"]
    /\ watch = [p \in Procs |-> "none"]
    /\ kill = [k \in Procs \X Killers |-> "idle"]
    /\ installed = {} /\ keepalive = {} /\ dirs = Bundled
    /\ req = [r \in Requests |-> IdleRequest]
    /\ admin = [a \in Admins |-> IdleAdmin]
    /\ ops = 0 /\ crashes = 0 /\ shutdowns = 0 /\ stray = {}

-----------------------------------------------------------------------------
(* The machine *)

Live(p) == os[p] \in {"booting", "serving"}

\* A PID stays in /proc, with its start time, until the process is waited for.
InProcTable(p) == os[p] \in {"booting", "serving", "zombie"}

\* The start time recorded for p is compared with that of the PID's present
\* owner; without one, any owner will do.
SameProcessAlive(p) == InProcTable(p) \/ os[p] = "reused"
SameProcessStarted(p) == start[p] # "none" /\ InProcTable(p)
SameProcess(p) ==
    \/ tick[p] = "own" /\ InProcTable(p)
    \/ tick[p] = "foreign" /\ os[p] = "reused"
    \/ tick[p] = "none" /\ (InProcTable(p) \/ os[p] = "reused")

Serving(p, q) == os[p] = "serving" /\ port[p] = q
Listening(q) == q \in squatters \/ \E p \in Procs : Serving(p, q)

\* A child of this core is a zombie until cmd.Wait; init reaps the others at once.
Dead(p) == IF start[p] # "none" THEN "zombie" ELSE "gone"

\* m.runtimes[rt.name] == rt
IsCurrentByName(p) == runtimes[name[p]] # NoProc
IsCurrent(p) == runtimes[name[p]] = p

\* allocPortLocked: no entry has the port and nothing listens on it.
FreePortsUnlistened == {q \in Ports : ~Listening(q)}
FreePortsPastEnd ==
    {q \in Ports \cup {r + 1 : r \in Ports} :
        /\ ~Listening(q)
        /\ \A n \in Plugins : runtimes[n] # NoProc => port[runtimes[n]] # q}
FreePorts == {q \in Ports : /\ ~Listening(q)
                            /\ \A n \in Plugins : runtimes[n] # NoProc => port[runtimes[n]] # q}

-----------------------------------------------------------------------------
(* Pieces of the manager's critical sections *)

\* The whole table is written.  When the temporary file or its rename fails, the old file
\* stays, and nobody is told.
SavePortMap ==
    \/ portMap' = runtimes' /\ unsaved' = FALSE
    \/ DiskFails /\ UNCHANGED portMap /\ unsaved' = TRUE

DropEntryUnsaved(n) ==
    runtimes' = [runtimes EXCEPT ![n] = NoProc] /\ UNCHANGED <<portMap, unsaved>>

\* Every way an entry leaves the table: delete, then savePortMapLocked.
DropEntry(n) == runtimes' = [runtimes EXCEPT ![n] = NoProc] /\ SavePortMap

Running(t) == t \in {"running", "overtaken"}

\* armIdleLocked overwrites Runtime.timer; a timer still running there runs on.
Arm(p) ==
    /\ timer' = [timer EXCEPT ![p] = "running"]
    /\ ghost' = IF Running(timer[p]) THEN [ghost EXCEPT ![p] = timer[p]] ELSE ghost

\* timer.Stop(); ApplyKeepalive also forgets the timer.
StopTimer(p) == [timer EXCEPT ![p] = IF @ = "nil" THEN @ ELSE "spent"]

CancelTimerKept(p) == StopTimer(p)
CancelTimer(p) == [timer EXCEPT ![p] = "nil"]

\* Stop up to its Unlock: the entry goes, is saved, and killProc comes next.
StopEntry(n) ==
    /\ runtimes[n] # NoProc
    /\ DropEntry(n)
    /\ timer' = StopTimer(runtimes[n])
    /\ kill' = [kill EXCEPT ![<<runtimes[n], "stop">>] = "begun"]

\* The killProc that Stop called for p (none if there was nothing to stop) has returned.
Stopped(p) == p # NoProc => kill[<<p, "stop">>] = "idle"

Startable(n) == n \in installed /\ n \in dirs /\ FreePorts # {}

\* What a new process is told: the lowest free port is its PLUGIN_PORT.
Fork(n, p) ==
    /\ p \in Procs /\ p = forks + 1
    /\ forks' = p
    /\ name' = [name EXCEPT ![p] = n]
    /\ \E q \in FreePorts :
          /\ \A s \in FreePorts : q <= s
          /\ port' = [port EXCEPT ![p] = q]
    /\ UNCHANGED squatters

\* Start of a plugin that has no entry, up to its Unlock; waitPort comes next.
Spawn(n, p) ==
    /\ runtimes[n] = NoProc /\ Startable(n)
    /\ Fork(n, p)
    /\ os' = [os EXCEPT ![p] = "booting"]
    /\ runtimes' = [runtimes EXCEPT ![n] = p]
    /\ SavePortMap
    /\ tick' = [tick EXCEPT ![p] = "own"]
    /\ fresh' = fresh \cup {p}
    /\ start' = [start EXCEPT ![p] = "waiting"]
    /\ UNCHANGED <<adopted, timer, ghost, firing, watch, kill>>

NoStart == UNCHANGED <<tableVars, machineVars, rtVars, callVars>>

-----------------------------------------------------------------------------
(* The rest of Start, in the goroutine that forked p *)

Up == core \in {"up", "stopping"}

WaitPortOkUnwatched(p) ==
    /\ start[p] = "waiting" /\ Listening(port[p])
    /\ start' = [start EXCEPT ![p] = "ready"]
    /\ UNCHANGED <<mainVars, tableVars, machineVars, rtVars, watch, kill, outsideVars>>

WaitPortOk(p) ==
    /\ start[p] = "waiting" /\ Listening(port[p])
    /\ start' = [start EXCEPT ![p] = "ready"]
    /\ watch' = [watch EXCEPT ![p] = "waiting"]
    /\ UNCHANGED <<mainVars, tableVars, machineVars, rtVars, kill, outsideVars>>

\* The last dial that the deadline allows finds nobody; a sleep and the mutex come next.
WaitPortTimeout(p) ==
    /\ start[p] = "waiting" /\ ~Listening(port[p])
    /\ start' = [start EXCEPT ![p] = "late"]
    /\ UNCHANGED <<mainVars, tableVars, machineVars, rtVars, watch, kill, outsideVars>>

\* By now the plugin may serve: it is given up all the same.
GiveUp(p) ==
    /\ start[p] = "late"
    /\ start' = [start EXCEPT ![p] = "failing"]
    /\ kill' = [kill EXCEPT ![<<p, "start">>] = "begun"]
    /\ IF IsCurrent(p) THEN DropEntry(name[p]) ELSE UNCHANGED tableVars
    /\ UNCHANGED <<mainVars, machineVars, rtVars, watch, outsideVars>>

\* killProc has returned, and cmd.Wait of the failed process too.
StartError(p) ==
    /\ start[p] = "failing" /\ kill[<<p, "start">>] = "idle"
    /\ os[p] = "zombie"
    /\ os' = [os EXCEPT ![p] = "gone"]
    /\ start' = [start EXCEPT ![p] = "error"]
    /\ UNCHANGED <<mainVars, tableVars, name, port, forks, squatters, rtVars, watch, kill,
                   outsideVars>>

StartDone(p) ==
    /\ start[p] = "ready"
    /\ start' = [start EXCEPT ![p] = "done"]
    /\ IF name[p] \in keepalive THEN UNCHANGED <<timer, ghost>> ELSE Arm(p)
    /\ UNCHANGED <<mainVars, tableVars, machineVars, tick, adopted, fresh, firing,
                   watch, kill, outsideVars>>

StartThread(p) ==
    WaitPortOk(p) \/ WaitPortTimeout(p) \/ GiveUp(p) \/ StartError(p) \/ StartDone(p)

-----------------------------------------------------------------------------
(* The goroutine that waits for a started process to exit *)

Reap(p) ==
    /\ watch[p] = "waiting" /\ os[p] = "zombie"
    /\ watch' = [watch EXCEPT ![p] = "exited"]
    /\ os' = [os EXCEPT ![p] = "gone"]
    /\ UNCHANGED <<mainVars, tableVars, name, port, forks, squatters, rtVars, start, kill,
                   outsideVars>>

CleanEntry(p) ==
    /\ watch[p] = "exited"
    /\ watch' = [watch EXCEPT ![p] = "none"]
    /\ IF IsCurrent(p)
       THEN DropEntry(name[p]) /\ timer' = StopTimer(runtimes[name[p]])
       ELSE UNCHANGED <<tableVars, timer>>
    /\ UNCHANGED <<mainVars, machineVars, tick, adopted, fresh, ghost, firing, start, kill,
                   outsideVars>>

-----------------------------------------------------------------------------
(* killProc *)

\* A signal to p's PID; stray if the PID is another program's by now.
Signal(p) == stray' = IF os[p] = "reused" THEN stray \cup {p} ELSE stray

KillTerm(p, w) ==
    /\ kill[<<p, w>>] = "begun" /\ SameProcess(p)
    /\ kill' = [kill EXCEPT ![<<p, w>>] = "signalled"]
    /\ Signal(p)
    /\ UNCHANGED <<mainVars, tableVars, machineVars, rtVars, start, watch, storeVars,
                   req, admin, boundVars>>

\* Nothing to kill, or the process is gone within the 3 seconds killProc polls.
KillReturn(p, w) ==
    /\ kill[<<p, w>>] # "idle" /\ ~SameProcess(p)
    /\ kill' = [kill EXCEPT ![<<p, w>>] = "idle"]
    /\ UNCHANGED <<mainVars, tableVars, machineVars, rtVars, start, watch, outsideVars>>

KillForce(p, w) ==
    /\ kill[<<p, w>>] = "signalled" /\ SameProcess(p)
    /\ kill' = [kill EXCEPT ![<<p, w>>] = "idle"]
    /\ Signal(p)
    /\ os' = [os EXCEPT ![p] = IF Live(p) THEN Dead(p) ELSE @]
    /\ UNCHANGED <<mainVars, tableVars, name, port, forks, squatters, rtVars, start, watch,
                   storeVars, req, admin, boundVars>>

KillThread(p, w) == KillTerm(p, w) \/ KillReturn(p, w) \/ KillForce(p, w)

-----------------------------------------------------------------------------
(* Idle exit: time.AfterFunc and its callback *)

\* Idle passes since lastUse was stored (nobody reads the lastUse of a Runtime without entry).
Age(p) ==
    /\ p \in fresh /\ IsCurrent(p)
    /\ fresh' = fresh \ {p}
    /\ UNCHANGED <<mainVars, tableVars, machineVars, tick, adopted, timer, ghost, firing,
                   callVars, outsideVars>>

\* A running timer t expires: Idle has passed since it was set, and since lastUse too unless
\* that was stored later.  Idle (minutes) exceeds readinessTimeout (6 s), so none expires while
\* Start waits for the port.  One callback of a process at a time waits for the mutex.
Expired(p, t) == IF t = "overtaken" THEN fresh ELSE fresh \ {p}

Expire(p) ==
    /\ p \notin firing /\ start[p] \notin {"waiting", "late"}
    /\ \/ /\ Running(timer[p])
          /\ timer' = [timer EXCEPT ![p] = "spent"] /\ ghost' = ghost
          /\ fresh' = Expired(p, timer[p])
       \/ /\ Running(ghost[p])
          /\ ghost' = [ghost EXCEPT ![p] = "none"] /\ timer' = timer
          /\ fresh' = Expired(p, ghost[p])
    /\ firing' = firing \cup {p}
    /\ UNCHANGED <<mainVars, tableVars, machineVars, tick, adopted,
                   callVars, outsideVars>>

\* The callback finds another runtime, or keepalive switched on: it does nothing.
IdleSkip(p) ==
    /\ p \in firing
    /\ ~IsCurrent(p) \/ name[p] \in keepalive
    /\ firing' = firing \ {p}
    /\ UNCHANGED <<mainVars, tableVars, machineVars, tick, adopted, fresh, timer, ghost,
                   callVars, outsideVars>>

\* It finds the plugin used since the timer was set: Runtime.timer is reset.
IdlePostpone(p) ==
    /\ p \in firing
    /\ IsCurrent(p) /\ name[p] \notin keepalive /\ p \in fresh
    /\ timer[p] # "nil"
    /\ firing' = firing \ {p}
    /\ timer' = [timer EXCEPT ![p] = "running"]
    /\ UNCHANGED <<mainVars, tableVars, machineVars, tick, adopted, fresh, ghost,
                   callVars, outsideVars>>

IdleDueAnyMode(p) == IsCurrent(p) /\ p \notin fresh
IdleDue(p) == IsCurrent(p) /\ name[p] \notin keepalive /\ p \notin fresh

\* It finds the plugin idle: the entry goes, is saved, and killProc comes next.
IdleExit(p) ==
    /\ p \in firing
    /\ IdleDue(p)
    /\ firing' = firing \ {p}
    /\ DropEntry(name[p])
    /\ kill' = [kill EXCEPT ![<<p, "stop">>] = "begun"]
    /\ UNCHANGED <<mainVars, machineVars, tick, adopted, fresh, timer, ghost,
                   start, watch, outsideVars>>

IdleCallback(p) == IdleSkip(p) \/ IdlePostpone(p) \/ IdleExit(p)

-----------------------------------------------------------------------------
(* The gateway: ServeHTTP of a request r for plugin n *)

ReqTo(r, step, n, p) == req' = [req EXCEPT ![r] = [pc |-> step, plugin |-> n, rt |-> p, via |-> NoProc]]

\* Start returns the entry there is, ready or not; refuses; or forks and waits.
GatewayStart(r, n) ==
    /\ Up /\ req[r].pc = "idle"
    /\ \/ runtimes[n] # NoProc /\ ReqTo(r, "got", n, runtimes[n]) /\ NoStart
       \/ runtimes[n] = NoProc /\ ~Startable(n) /\ ReqTo(r, "failed", n, NoProc) /\ NoStart
       \/ \E p \in Procs : Spawn(n, p) /\ ReqTo(r, "starting", n, p)
    /\ UNCHANGED <<mainVars, storeVars, admin, boundVars, stray>>

GatewayStarted(r) ==
    /\ req[r].pc = "starting"
    /\ \/ start[req[r].rt] = "done" /\ req' = [req EXCEPT ![r].pc = "got"]
       \/ start[req[r].rt] = "error" /\ req' = [req EXCEPT ![r].pc = "failed"]
    /\ UNCHANGED <<mainVars, tableVars, machineVars, rtVars, callVars, storeVars,
                   admin, boundVars, stray>>

\* lastUse is stored: it is later than the setting of a timer that is not reset.
Overtake(timers, p) == [timers EXCEPT ![p] = IF @ = "running" THEN "overtaken" ELSE @]

\* Touch looks the plugin's entry up again: it need not be the one Start returned.
GatewayTouch(r) ==
    /\ req[r].pc = "got"
    /\ req' = [req EXCEPT ![r].pc = "touched"]
    /\ LET p == runtimes[req[r].plugin] IN
       IF p = NoProc THEN UNCHANGED <<fresh, timer, ghost>>
       ELSE /\ fresh' = fresh \cup {p}
            /\ timer' = IF timer[p] # "nil" /\ req[r].plugin \notin keepalive
                        THEN [timer EXCEPT ![p] = "running"] ELSE Overtake(timer, p)
            /\ ghost' = Overtake(ghost, p)
    /\ UNCHANGED <<mainVars, tableVars, machineVars, tick, adopted, firing,
                   callVars, storeVars, admin, boundVars, stray>>

\* The proxy dials the port of the Runtime that Start returned.
GatewayDial(r) ==
    /\ req[r].pc = "touched"
    /\ LET q == port[req[r].rt] IN
       \/ \E p \in Procs : Serving(p, q) /\ req' = [req EXCEPT ![r].pc = "open", ![r].via = p]
       \/ q \in squatters /\ req' = [req EXCEPT ![r].pc = "open"]
       \/ ~Listening(q) /\ req' = [req EXCEPT ![r].pc = "failed"]
    /\ UNCHANGED <<mainVars, tableVars, machineVars, rtVars, callVars, storeVars,
                   admin, boundVars, stray>>

GatewayFinish(r) ==
    /\ req[r].pc = "open"
    /\ req' = [req EXCEPT ![r].pc = "done"]
    /\ UNCHANGED <<mainVars, tableVars, machineVars, rtVars, callVars, storeVars,
                   admin, boundVars, stray>>

RequestThread(r) == GatewayStarted(r) \/ GatewayTouch(r) \/ GatewayDial(r) \/ GatewayFinish(r)

-----------------------------------------------------------------------------
(* The administrator: one HTTP handler each, in the steps its locks divide it into *)

Begin(a, op) ==
    /\ Up /\ admin[a].pc = "idle" /\ op \in AdminOps /\ ops < MaxOps
    /\ ops' = ops + 1
    /\ UNCHANGED <<crashes, shutdowns>>

AdminTo(a, step, n, p, v) ==
    admin' = [admin EXCEPT ![a] = [pc |-> step, plugin |-> n, rt |-> p, on |-> v]]

AdminIdle(a) == admin' = [admin EXCEPT ![a] = IdleAdmin]

\* Stop(n) inside a handler that ignores its error.
StopIfRunning(n) ==
    IF runtimes[n] = NoProc THEN UNCHANGED <<tableVars, timer, kill>> ELSE StopEntry(n)

\* handlePluginStart, when it forks; its other outcomes change nothing.
AdminStart(a, n) ==
    /\ Begin(a, "start")
    /\ \E p \in Procs : Spawn(n, p)
    /\ UNCHANGED <<mainVars, storeVars, req, admin, stray>>

\* handlePluginStop: after killProc it only answers.
AdminStop(a, n) ==
    /\ Begin(a, "stop")
    /\ StopEntry(n)
    /\ UNCHANGED <<mainVars, machineVars, tick, adopted, fresh, ghost, firing, start, watch,
                   storeVars, req, admin, stray>>

\* handlePluginRestart: Stop, killProc, Start.
RestartStop(a, n) ==
    /\ Begin(a, "restart")
    /\ StopIfRunning(n)
    /\ AdminTo(a, "restart", n, runtimes[n], FALSE)
    /\ UNCHANGED <<mainVars, machineVars, tick, adopted, fresh, ghost, firing, start, watch,
                   storeVars, req, stray>>

RestartStart(a) ==
    /\ admin[a].pc = "restart" /\ Stopped(admin[a].rt)
    /\ AdminIdle(a)
    /\ LET n == admin[a].plugin IN
       \/ (runtimes[n] # NoProc \/ ~Startable(n)) /\ NoStart
       \/ \E p \in Procs : Spawn(n, p)
    /\ UNCHANGED <<mainVars, storeVars, req, boundVars, stray>>

\* handlePluginKeepalive: the record is looked up, ...
KeepaliveCheck(a, n, v) ==
    /\ Begin(a, "keepalive") /\ n \in installed
    /\ AdminTo(a, "set", n, NoProc, v)
    /\ UNCHANGED <<mainVars, tableVars, machineVars, rtVars, callVars, storeVars,
                   req, stray>>

\* ... set (SetKeepalive reports no error for one that has gone), and the process told.
KeepaliveSet(a) ==
    /\ admin[a].pc = "set"
    /\ admin' = [admin EXCEPT ![a].pc = "apply"]
    /\ keepalive' = IF admin[a].on THEN keepalive \cup ({admin[a].plugin} \cap installed)
                    ELSE keepalive \ {admin[a].plugin}
    /\ UNCHANGED <<mainVars, tableVars, machineVars, rtVars, callVars, installed, dirs,
                   req, boundVars, stray>>

ApplyKeepalive(a) ==
    /\ admin[a].pc = "apply"
    /\ AdminIdle(a)
    /\ LET p == runtimes[admin[a].plugin] IN
       CASE p # NoProc /\ admin[a].on ->
              timer' = CancelTimer(p) /\ ghost' = ghost
         [] p # NoProc /\ ~admin[a].on /\ timer[p] = "nil" -> Arm(p)
         [] OTHER -> UNCHANGED <<timer, ghost>>
    /\ UNCHANGED <<mainVars, tableVars, machineVars, tick, adopted, fresh, firing,
                   callVars, storeVars, req, boundVars, stray>>

\* handlePluginDelete: Stop, killProc, the directory, the record.
UninstallStop(a, n) ==
    /\ Begin(a, "uninstall") /\ n \in installed
    /\ StopIfRunning(n)
    /\ AdminTo(a, "remove", n, runtimes[n], FALSE)
    /\ UNCHANGED <<mainVars, machineVars, tick, adopted, fresh, ghost, firing, start, watch,
                   storeVars, req, stray>>

UninstallRemove(a) ==
    /\ admin[a].pc = "remove" /\ Stopped(admin[a].rt)
    /\ dirs' = dirs \ {admin[a].plugin}
    /\ admin' = [admin EXCEPT ![a].pc = "delete"]
    /\ UNCHANGED <<mainVars, tableVars, machineVars, rtVars, callVars, installed, keepalive,
                   req, boundVars, stray>>

UninstallDelete(a) ==
    /\ admin[a].pc = "delete"
    /\ installed' = installed \ {admin[a].plugin}
    /\ keepalive' = keepalive \ {admin[a].plugin}
    /\ AdminIdle(a)
    /\ UNCHANGED <<mainVars, tableVars, machineVars, rtVars, callVars, dirs,
                   req, boundVars, stray>>

\* The package is written.  installBundled will switch keepalive on if the manifest says so.
InstallFromEmbed(a, n) ==
    /\ Begin(a, "install") /\ AdminTo(a, "record", n, NoProc, n \in ManifestKeepalive)
    /\ dirs' = dirs \cup {n}
    /\ UNCHANGED <<mainVars, tableVars, machineVars, rtVars, callVars, installed, keepalive,
                   req, stray>>

\* handleStoreInstallURL keeps the present setting too, and always writes one back.
InstallFromURL(a, n) ==
    /\ Begin(a, "upgrade")
    /\ AdminTo(a, "upgrade", n, NoProc, n \in keepalive \cup ManifestKeepalive)
    /\ dirs' = dirs \cup {n}
    /\ UNCHANGED <<mainVars, tableVars, machineVars, rtVars, callVars, installed, keepalive,
                   req, stray>>

\* UpsertPlugin replaces the whole record, its keepalive included.
InstallRecord(a) ==
    /\ admin[a].pc \in {"record", "upgrade"}
    /\ installed' = installed \cup {admin[a].plugin}
    /\ keepalive' = keepalive \ {admin[a].plugin}
    /\ IF admin[a].on \/ admin[a].pc = "upgrade"
       THEN admin' = [admin EXCEPT ![a].pc = "restore"] ELSE AdminIdle(a)
    /\ UNCHANGED <<mainVars, tableVars, machineVars, rtVars, callVars, dirs,
                   req, boundVars, stray>>

InstallRestore(a) ==
    /\ admin[a].pc = "restore"
    /\ keepalive' = IF admin[a].on THEN keepalive \cup ({admin[a].plugin} \cap installed)
                    ELSE keepalive \ {admin[a].plugin}
    /\ AdminIdle(a)
    /\ UNCHANGED <<mainVars, tableVars, machineVars, rtVars, callVars, installed, dirs,
                   req, boundVars, stray>>

AdminThread(a) ==
    \/ RestartStart(a) \/ KeepaliveSet(a) \/ ApplyKeepalive(a)
    \/ UninstallRemove(a) \/ UninstallDelete(a)
    \/ InstallRecord(a) \/ InstallRestore(a)

-----------------------------------------------------------------------------
(* The main goroutine: boot, revival, shutdown; and the core's deaths *)

AdoptableKeepalive(n) ==
    portMap[n] # NoProc /\ Listening(port[portMap[n]]) /\ n \in keepalive
Adoptable(n) == portMap[n] # NoProc /\ Listening(port[portMap[n]])

\* Directories that have no record get one.
SyncPluginsFromDir ==
    /\ installed' = installed \cup dirs
    /\ keepalive' = keepalive \cup ((dirs \ installed) \cap ManifestKeepalive)

\* After that, Load takes the saved entries whose port something listens on.
Boot ==
    /\ core = "down"
    /\ core' = "reviving" /\ cur' = NoProc
    /\ SyncPluginsFromDir
    /\ todo' = dirs \cap keepalive'
    /\ LET back == {n \in Plugins : Adoptable(n)}
           procs == {portMap[n] : n \in back}
       IN /\ runtimes' = [n \in Plugins |-> IF n \in back THEN portMap[n] ELSE NoProc]
          /\ SavePortMap
          /\ adopted' = procs /\ fresh' = procs
          /\ tick' = [p \in Procs |->
                        IF p \notin procs THEN tick[p]
                        ELSE IF InProcTable(p) THEN "own"
                        ELSE IF os[p] = "reused" THEN "foreign" ELSE "none"]
          /\ timer' = [p \in Procs |->
                         IF p \in procs /\ name[p] \notin keepalive' THEN "running" ELSE "nil"]
    /\ UNCHANGED <<machineVars, ghost, firing, callVars, dirs, req, admin, boundVars, stray>>

\* reviveKeepalive: Start of one plugin after the other, each waited for.
Revive(n) ==
    /\ core = "reviving" /\ cur = NoProc /\ n \in todo
    /\ todo' = todo \ {n} /\ core' = core
    /\ \/ (runtimes[n] # NoProc \/ ~Startable(n)) /\ cur' = NoProc /\ NoStart
       \/ \E p \in Procs : Spawn(n, p) /\ cur' = p
    /\ UNCHANGED <<outsideVars>>

ReviveWait ==
    /\ core = "reviving" /\ cur # NoProc /\ start[cur] \in {"done", "error"}
    /\ cur' = NoProc
    /\ UNCHANGED <<core, todo, tableVars, machineVars, rtVars, callVars, outsideVars>>

ListenAndServe ==
    /\ core = "reviving" /\ cur = NoProc /\ todo = {}
    /\ core' = "up"
    /\ UNCHANGED <<todo, cur, tableVars, machineVars, rtVars, callVars, outsideVars>>

\* SIGTERM: Shutdown chooses the plugins to stop; the HTTP server still serves.
Shutdown ==
    /\ core = "up" /\ shutdowns < MaxShutdowns
    /\ shutdowns' = shutdowns + 1
    /\ core' = "stopping"
    /\ todo' = {n \in Plugins : runtimes[n] # NoProc /\ n \notin keepalive}
    /\ UNCHANGED <<cur, tableVars, machineVars, rtVars, callVars, storeVars,
                   req, admin, ops, crashes, stray>>

ShutdownStop(n) ==
    /\ core = "stopping" /\ cur = NoProc /\ n \in todo
    /\ todo' = todo \ {n} /\ core' = core
    /\ StopIfRunning(n)
    /\ cur' = runtimes[n]
    /\ UNCHANGED <<machineVars, tick, adopted, fresh, ghost, firing, start, watch,
                   outsideVars>>

ShutdownWait ==
    /\ core = "stopping" /\ cur # NoProc /\ Stopped(cur)
    /\ cur' = NoProc
    /\ UNCHANGED <<core, todo, tableVars, machineVars, rtVars, callVars, outsideVars>>

\* What dies with the core: its memory and its goroutines, not the plugin processes.
CoreGone ==
    /\ core' = "down" /\ todo' = {} /\ cur' = NoProc
    /\ runtimes' = [n \in Plugins |-> NoProc] /\ unsaved' = FALSE
    /\ adopted' = {} /\ fresh' = {} /\ firing' = {}
    /\ ghost' = [p \in Procs |-> "none"]
    /\ timer' = [p \in Procs |-> "nil"]
    /\ start' = [p \in Procs |-> "none"]
    /\ watch' = [p \in Procs |-> "none"]
    /\ kill' = [k \in Procs \X Killers |-> "idle"]
    /\ req' = [r \in Requests |-> IF req[r].pc \in {"idle", "done"} THEN req[r]
                                   ELSE [req[r] EXCEPT !.pc = "failed"]]
    /\ admin' = [a \in Admins |-> IdleAdmin]
    /\ UNCHANGED <<tick, storeVars, ops, shutdowns, stray>>

ReapedByInit == [p \in Procs |-> IF os[p] = "zombie" THEN "gone" ELSE os[p]]

CoreExit ==
    /\ core = "stopping" /\ todo = {} /\ cur = NoProc
    /\ CoreGone
    /\ os' = ReapedByInit
    /\ UNCHANGED <<portMap, name, port, forks, squatters, crashes>>

\* An idle callback resets the timer ApplyKeepalive has set to nil: the core panics.
IdlePanic(p) ==
    /\ p \in firing
    /\ IsCurrent(p) /\ name[p] \notin keepalive /\ p \in fresh
    /\ timer[p] = "nil"
    /\ CoreGone
    /\ os' = ReapedByInit
    /\ UNCHANGED <<portMap, name, port, forks, squatters, crashes>>

Crash ==
    /\ core # "down" /\ crashes < MaxCrashes
    /\ crashes' = crashes + 1
    /\ CoreGone
    /\ os' = ReapedByInit
    /\ UNCHANGED <<portMap, name, port, forks, squatters>>

\* Start has forked, and the core dies before it has saved the entry.
CrashInStart(n) ==
    /\ core # "down" /\ crashes < MaxCrashes
    /\ core = "reviving" => cur = NoProc /\ n \in todo
    /\ runtimes[n] = NoProc /\ Startable(n)
    /\ crashes' = crashes + 1
    /\ CoreGone
    /\ \E p \in Procs : Fork(n, p) /\ os' = [ReapedByInit EXCEPT ![p] = "booting"]
    /\ portMap' = portMap

MainThread ==
    \/ \E n \in Plugins : Revive(n) \/ ShutdownStop(n)
    \/ ReviveWait \/ ListenAndServe \/ ShutdownWait \/ CoreExit

-----------------------------------------------------------------------------
(* The environment *)

Bind(p) ==
    /\ os[p] = "booting" /\ ~Listening(port[p])
    /\ os' = [os EXCEPT ![p] = "serving"]
    /\ UNCHANGED <<mainVars, tableVars, name, port, forks, squatters, rtVars, callVars,
                   outsideVars>>

\* A plugin ends by itself: it crashes, obeys a SIGTERM, or finds its port taken.
ProcExit(p) ==
    /\ Live(p)
    /\ os' = [os EXCEPT ![p] = Dead(p)]
    /\ UNCHANGED <<mainVars, tableVars, name, port, forks, squatters, rtVars, callVars,
                   outsideVars>>

\* The kernel gives the PID to another program while the core still refers to it; a reuse
\* the core cannot notice is left out.
ReusePid(p) ==
    /\ PidReuse /\ os[p] = "gone"
    /\ \/ \E n \in Plugins : p \in {runtimes[n], portMap[n]}
       \/ \E w \in Killers : kill[<<p, w>>] # "idle"
    /\ os' = [os EXCEPT ![p] = "reused"]
    /\ UNCHANGED <<mainVars, tableVars, name, port, forks, squatters, rtVars, callVars,
                   outsideVars>>

Squat(q) ==
    /\ q \in SquatPorts \ squatters /\ ~Listening(q)
    /\ squatters' = squatters \cup {q}
    /\ UNCHANGED <<mainVars, tableVars, os, name, port, forks, rtVars, callVars,
                   outsideVars>>

-----------------------------------------------------------------------------
\* The goroutines inside Start, cmd.Wait and killProc, and the idle timers, of process p.
CallThread(p) ==
    \/ StartThread(p) \/ Reap(p) \/ CleanEntry(p)
    \/ \E w \in Killers : KillThread(p, w)

TimerThread(p) == Expire(p) \/ IdleCallback(p) \/ IdlePanic(p)

ProcStep(p) ==
    \/ CallThread(p) \/ TimerThread(p) \/ Age(p)
    \/ Bind(p) \/ ProcExit(p) \/ ReusePid(p)

AdminStep(a) ==
    \/ \E n \in Plugins :
          \/ AdminStart(a, n) \/ AdminStop(a, n) \/ RestartStop(a, n)
          \/ UninstallStop(a, n) \/ InstallFromEmbed(a, n) \/ InstallFromURL(a, n)
          \/ \E v \in BOOLEAN : KeepaliveCheck(a, n, v)
    \/ AdminThread(a)

Next ==
    \/ Boot \/ MainThread \/ Shutdown \/ Crash
    \/ \E n \in Plugins : CrashInStart(n)
    \/ \E p \in Procs : ProcStep(p)
    \/ \E r \in Requests : RequestThread(r) \/ \E n \in Plugins : GatewayStart(r, n)
    \/ \E a \in Admins : AdminStep(a)
    \/ \E q \in Ports : Squat(q)

Spec == Init /\ [][Next]_vars

\* Goroutines are scheduled, timers expire and killProc's polling ends; nothing obliges
\* a client to send a request, a plugin to exit, or the core to crash or come back.
Fairness ==
    /\ WF_vars(MainThread)
    /\ \A p \in Procs : WF_vars(CallThread(p)) /\ WF_vars(TimerThread(p))
    /\ \A r \in Requests : WF_vars(RequestThread(r))
    /\ \A a \in Admins : WF_vars(AdminThread(a))

FairSpec == Spec /\ Fairness

-----------------------------------------------------------------------------
(* Safety *)

\* Whenever the core runs and nobody is inside the mutex, port-map.json names exactly the
\* processes in Manager.runtimes, unless the disk has refused the last save: a crash at any
\* moment loses no entry (savePortMapLocked before every Unlock that follows a change), and
\* whatever earlier saves have failed is made good by the next one that succeeds.
PortMapAgrees == core # "down" /\ ~unsaved => portMap = runtimes

\* No two plugins are entered with the same port, also while the first has been given its
\* port but has not bound it yet (allocPortLocked looks at the entries, not only at who listens).
PortsExclusive ==
    \A m, n \in Plugins :
        m # n /\ runtimes[m] # NoProc /\ runtimes[n] # NoProc
            => port[runtimes[m]] # port[runtimes[n]]

\* The core forked p or adopted it, and has not crashed since.
Known(p) == start[p] # "none" \/ p \in adopted

\* A live process the core has forked or adopted is never lost sight of: it is the plugin's
\* entry, or some killProc is not done with it yet.  Late callbacks and exit watchers of an
\* earlier process must leave the entry of a later one alone.
NoLostProcess ==
    \A p \in Procs :
        Live(p) /\ Known(p) => runtimes[name[p]] = p \/ \E w \in Killers : kill[<<p, w>>] # "idle"

\* The start-time check keeps every signal away from other programs as long as the recorded
\* time is the plugin's own, however late killProc runs (killProc, sameProcess).
OwnTickNeverStray == \A p \in stray : tick[p] # "own"

\* The idle callback only takes down the process its timer was set for, and neither one that
\* was used in the meantime nor one whose plugin is set to stay alive, even when the use or
\* the setting came after the timer had expired.
OnlyIdleExits ==
    [][\A p \in Procs :
         p \in firing /\ p \notin firing' /\ core' # "down" /\ runtimes' # runtimes
            => /\ runtimes[name[p]] = p
               /\ runtimes' = [runtimes EXCEPT ![name[p]] = NoProc]
               /\ p \notin fresh /\ name[p] \notin keepalive]_vars

Serves(p) == p # NoProc /\ os[p] = "serving"

\* A core that comes back manages again every process that port-map.json names and that still
\* serves.  While it revives the keepalive plugins, one that serves keeps its place, and no
\* second process gets it, whether it was adopted or has just been started; only a Start whose
\* last dial came before the plugin listened takes its own process down (Load,
\* reviveKeepalive, waitPort).
ServingIsAdopted ==
    [][\A n \in Plugins : core' \in {"reviving", "up"} =>
         /\ core = "down" /\ Serves(portMap[n]) => runtimes'[n] = portMap[n]
         /\ /\ core = "reviving" /\ n \in keepalive
            /\ Serves(runtimes[n]) /\ start[runtimes[n]] # "late"
            => runtimes'[n] = runtimes[n]]_vars

DeadEntry(p) == os[p] # "none" /\ ~Live(p) /\ runtimes[name[p]] = p

\* Somebody is always about to take away the entry of a dead process that this core has
\* started: the Start that still waits for its port, or the goroutine that waits for its exit,
\* also when the process ends between waitPort's last dial and `go func()`, or is stopped,
\* restarted or killed meanwhile.  This is what OwnDeadEntryLeaves rests on.
DeadEntryIsDue ==
    \A p \in Procs : DeadEntry(p) /\ start[p] # "none" =>
        \/ start[p] \in {"waiting", "late"}
        \/ watch[p] = "waiting" /\ os[p] = "zombie"
        \/ watch[p] = "exited"

\* Start has yet to set the timer, or it runs, or its callback is about to get the mutex.
Timed(p) == start[p] \in {"waiting", "late", "ready"} \/ Running(timer[p]) \/ p \in firing

\* No process that may be idle is forgotten: the entry of a plugin without keepalive has its
\* timer, or a handler is about to set it (ApplyKeepalive), through every order of Touch, the
\* callback, a switch of keepalive, a restart and a crash.  This is what UnusedPluginExits
\* rests on.  Only what Calm excludes breaks it.
IdleIsTimed ==
    \A n \in Plugins :
        runtimes[n] # NoProc /\ n \notin keepalive =>
            \/ Timed(runtimes[n])
            \/ \E a \in Admins : admin[a].pc = "apply" /\ admin[a].plugin = n /\ ~admin[a].on

\* Handlers that write or have written the keepalive setting of a plugin do not overlap, and
\* its record is replaced or removed only while it does not run.
Writes(a, n) ==
    /\ admin[a].plugin = n
    /\ admin[a].pc \in {"set", "apply", "delete", "record", "upgrade", "restore"}
Calm ==
    /\ \A n \in Plugins : \A a, b \in Admins : Writes(a, n) /\ Writes(b, n) => a = b
    /\ \A a \in Admins :
          admin[a].pc \in {"delete", "record", "upgrade", "restore"}
              => runtimes[admin[a].plugin] = NoProc

-----------------------------------------------------------------------------
(* Liveness *)

\* The entry of a process this core has started does not outlive it: the next request starts
\* the plugin anew (the goroutine in Start that waits for the process).
OwnDeadEntryLeaves ==
    \A p \in Procs : DeadEntry(p) /\ start[p] # "none" ~> ~DeadEntry(p)

\* A plugin that is not set to stay alive does not run for ever unused (requests are finite).
UnusedPluginExits ==
    \A n \in Plugins : <>[](n \notin keepalive) => []<>(runtimes[n] = NoProc)

-----------------------------------------------------------------------------
(* The inductive invariant behind the safety properties *)

\* While no core runs, nothing of its memory and none of its goroutines is left.
DownIsEmpty ==
    core = "down" =>
        /\ \A n \in Plugins : runtimes[n] = NoProc
        /\ \A p \in Procs : /\ start[p] = "none" /\ watch[p] = "none"
                            /\ timer[p] = "nil" /\ ghost[p] = "none"
        /\ \A k \in Procs \X Killers : kill[k] = "idle"
        /\ adopted = {} /\ firing = {}
        /\ \A a \in Admins : admin[a].pc = "idle"

\* A process that has not been forked yet is known to nobody.
UnforkedIsBlank ==
    \A p \in Procs :
        p > forks => /\ os[p] = "none" /\ start[p] = "none" /\ watch[p] = "none"
                     /\ p \notin adopted /\ p \notin stray

\* The table, and the file that may lag behind it.
Tables == {runtimes, portMap}

\* An entry names a forked process that runs the plugin of the entry.
EntriesAreForked ==
    \A t \in Tables : \A n \in Plugins : t[n] # NoProc => t[n] <= forks /\ name[t[n]] = n

\* The entries have different ports, those of the file also while no core runs.
LeasesExclusive ==
    \A t \in Tables : \A m, n \in Plugins :
        m # n /\ t[m] # NoProc /\ t[n] # NoProc => port[t[m]] # port[t[n]]

\* cmd.Wait returns for a process that has ended.
ExitedIsDead == \A p \in Procs : watch[p] = "exited" => ~Live(p)

\* The start time recorded for a live process is its own: only a dead one's PID is reused.
LiveTickIsOwn == \A p \in Procs : Live(p) /\ Known(p) => tick[p] = "own"

\* Only a process whose recorded start time is another's was signalled after the reuse of its PID.
StrayIsForeign == \A p \in stray : tick[p] # "own" /\ os[p] = "reused"

IInv ==
    /\ TypeOK /\ PortMapAgrees /\ DownIsEmpty /\ UnforkedIsBlank /\ EntriesAreForked
    /\ LeasesExclusive /\ ExitedIsDead /\ LiveTickIsOwn /\ StrayIsForeign /\ NoLostProcess

\* A forked process runs some plugin.
ForkedIsNamed == \A p \in Procs : p <= forks => name[p] \in Plugins

\* The core's memory is about processes it has forked or adopted.
OnlyKnown ==
    /\ \A n \in Plugins : runtimes[n] # NoProc => Known(runtimes[n])
    /\ \A p \in Procs :
          \/ timer[p] # "nil" \/ ghost[p] # "none" \/ p \in firing
          \/ \E w \in Killers : kill[<<p, w>>] # "idle"
          => Known(p)

\* Start waits for a child that nobody has waited for; it hands an entry that stays over to
\* the goroutine that does, and takes one away that does not.
StartIsWatched ==
    \A p \in Procs :
        /\ start[p] \in {"waiting", "late", "failing", "error"} => watch[p] = "none"
        /\ watch[p] = "waiting" => start[p] \in {"ready", "done"}
        /\ start[p] \in {"waiting", "late"} \/ watch[p] = "waiting" => InProcTable(p)
        /\ start[p] \in {"failing", "error"} => \A n \in Plugins : runtimes[n] # p
        /\ start[p] \in {"ready", "done"} /\ watch[p] = "none"
              => \A n \in Plugins : runtimes[n] # p

\* A switch of keepalive that is stored and not applied.
Switching(n) == \E a \in Admins : admin[a].pc = "apply" /\ admin[a].plugin = n

\* The record that was looked up is there to be set; the switch is applied as it was stored.
SwitchIsStored ==
    \A a \in Admins :
        /\ admin[a].pc = "set" => admin[a].plugin \in installed
        /\ admin[a].pc = "apply" => (admin[a].on <=> admin[a].plugin \in keepalive)

\* A plugin that is to stay alive has no timer, one that may exit has it, unless a switch is
\* to set that right.  (The timer of the second is nil then: ApplyKeepalive sets no other.)
TimerIsDue ==
    \A n \in Plugins : runtimes[n] # NoProc =>
        IF n \in keepalive THEN timer[runtimes[n]] = "nil" \/ Switching(n)
        ELSE Timed(runtimes[n]) \/ (timer[runtimes[n]] = "nil" /\ Switching(n))

-----------------------------------------------------------------------------
(* Stated by comments or documents of the program, and not kept by it *)

\* proxy.go: requests for /p/<plugin>/ are forwarded to that plugin's process.
RequestReachesPlugin ==
    \A r \in Requests :
        req[r].pc = "open" => req[r].via # NoProc /\ name[req[r].via] = req[r].plugin

\* manager.go, killProc: never a signal to an unrelated process once the PID was reused.
NoStraySignal == stray = {}

\* README.md, plugin runtime: a plugin that crashed or was killed is started again by the next
\* click, so its dead entry must not stay, whether the core started or adopted the process.
DeadEntryLeaves == \A p \in Procs : DeadEntry(p) ~> ~DeadEntry(p)

\* manager.go, armIdleLocked: a callback that finds its plugin just used postpones the exit.
NoNilReset ==
    \A p \in firing : IsCurrent(p) /\ name[p] \notin keepalive /\ p \in fresh => timer[p] # "nil"

-----------------------------------------------------------------------------
(* The promise on ports that the manager implements *)

PortsIn(t) == [n \in Plugins |-> IF t[n] = NoProc THEN 0 ELSE port[t[n]]]

Lease == INSTANCE PortLease WITH
    NoPort <- 0, up <- core # "down", lease <- PortsIn(runtimes), book <- PortsIn(portMap)

\* The manager leases ports: taken only when free, never exchanged; port-map.json, by which
\* the next core goes, is noted whole or not at all.
LeaseSpec == Lease!Spec

-----------------------------------------------------------------------------
(* The promise on processes that the manager implements *)

Supervised == INSTANCE Supervision WITH
    None <- NoProc,
    up <- core # "down",
    entry <- runtimes,
    book <- portMap,
    alive <- {p \in Procs : Live(p)},
    doomed <- {p \in Procs : Live(p) /\ \E w \in Killers : kill[<<p, w>>] # "idle"},
    born <- {p \in Procs : p <= forks}

\* The manager supervises its processes: none is entered twice, and none that lives is dropped
\* but by a killProc, or by a core that died or came back.
SupervisionSpec == Supervised!Spec

=============================================================================
