# IotaPanel in TLA+

This directory holds a formal model of IotaPanel: TLA+ modules translated from
the Go and JavaScript source, TLC configurations that check them on small instances, and
theorems that hold for every value of the constants, proved with TLAPS.

IotaPanel is a small server panel. A core process serves the web pages and the
API, keeps its records in one JSON file, and runs every plugin as a process of
its own, which it starts at the first request and stops when it has been idle.
What is hard about it is that requests, timers, exit watchers, administrators,
signals and crashes meet in a few hundred lines guarded by two mutexes, and
that a restarted core has to take over what the previous one left behind, on
disk and in the process table. In front of it is one page of JavaScript, whose
handlers interleave at every `await`, and behind it a command line that starts
and signals panel processes and shares a configuration file with them.

Contents: 1 inventory, 2 how the parts interact, 3 modules, 4 the plugin
manager, 5 the store, 6 the account, the open doors, the page and the command
line, 7 runs, 8 fairness, 9 proofs, 10 findings, 11 abstractions, 12 what is not
modelled, 13 how to run.

## 1. Inventory

Paths are relative to `src/`. "Properties" are what makes the component
correct, not only what is checked today; section 7 says what is checked.

| Component | State | Operations | Properties | Modelled |
|---|---|---|---|---|
| Plugin process manager `internal/plugins/manager.go`, `process_unix.go` | `runtimes` (plugin → Runtime with pid, port, start time, timer, last use), `etc/port-map.json`, the plugin processes | `Start`, `Stop`, `Restart`, `Touch`, `ApplyKeepalive`, `Load`, `reviveKeepalive`, `Shutdown`; the idle callback; the goroutine in `Start` that waits for the exit; `killProc` | one port per plugin; no live process is lost; the file agrees with the table; signals only to plugins; an idle exit only of an idle plugin; adoption of what survives; an unused plugin exits; a dead one is started again | `PluginManager`, `PortLease`, `Supervision` |
| Plugin installation `internal/plugins/install.go`, `manifest.go`, `internal/api/store.go` | `plugins/<name>/`, plugin records | install bundled, install or upgrade from a URL, uninstall, `SyncPluginsFromDir` | record and directory agree in the end; keepalive survives an upgrade | in `PluginManager`, as the manager sees it |
| Gateway `internal/gateway/proxy.go` | one request | `Start`, `Touch`, dial, proxy | a request reaches the plugin it names | in `PluginManager` |
| Store `internal/db/db.go` | `data/panel.json`, `.bak`, `.tmp`, the document in memory | `Open`, `save`, `Close`, about thirty methods | an acknowledged change survives; the next start never fails | `PanelStore`, `DurableSet` |
| Accounts and sessions `internal/api/account.go`, `handlers.go`, `internal/auth/auth.go` | user record, sessions, lock-out counters | setup, login, logout, change of name and password, revocation, security settings | one session per account; sessions follow the account's name; a changed password stays changed; bounded guesses; one administrator | `Accounts`, `OneSession`; set-up and lock-out: `Access`, `SetupJob` |
| HTTP server, middleware `internal/api/server.go`, `system.go` | none of its own | routing, `auth`, CSRF check, status, logs | only valid sessions pass | `auth` in `Accounts`, plugin handlers in `PluginManager` |
| Core life cycle `cmd/panel/main.go` | phase of the process | boot, serve, SIGTERM, exit | plugins are stopped or handed over; the store is closed in order | in `PluginManager` and `PanelStore` |
| Configuration `internal/config/config.go` | `etc/.env` | `Load`, `SetEnvVar` | a save keeps the other lines; a restarted panel runs with what was saved | `CommandLine` |
| Command line `cmd/panel/cli.go` | the processes named `panel`, found by `pgrep` | start, stop, restart, status | no second panel beside one that runs | `CommandLine` |
| resource-monitor `plugins/resource-monitor` | previous counters | sample | rates are never absurd when counters go back | not modelled |
| mcp-agent `plugins/mcp-agent` | cookie of the panel session | call, log in again | concurrent calls end with a valid cookie | not modelled |
| terminal `plugins/terminal` | WebSocket and shell | two copy loops | either end closing ends both | not modelled |
| https-front `plugins/https-front` | certificates, `.env` | TLS proxy, settings | its part of `.env` | its write in `CommandLine` |
| file-manager `plugins/file-manager` | none | one system call per request | paths stay below the root | not modelled |
| hello `plugins/hello` | none | static page | – | not modelled |
| Web front end `internal/embed/web/js` | the globals `plugins`, `curPlugin`, `frameTimer`, the drawn page, calls under way | event handlers, a timer, `route`, `openPlugin`, `setLang` | what it shows follows its own writes, comes to agree with the server and is about what it says; it leaves when the session is over | `Dashboard`, `Pages` |
| Scripts `install.sh`, `build.sh`, `package.sh` | – | run once | – | not modelled |

## 2. How the parts interact

* **Calls.** Gateway → manager (`Start`, `Touch`), API handlers → manager and
  store, manager → store (`keepalive`, plugin records). Main boots the store,
  the manager and the server in that order and takes them down in another.
* **Shared state.** `Manager.mu` guards the table and the map file; `DB.mu`
  guards the document; neither is held across a wait (`waitPort`, `killProc`,
  `cmd.Wait`, a password hash), so every longer operation is several critical
  sections with a stale local variable in between.
* **Callbacks.** `time.AfterFunc` runs the idle callback in a goroutine that
  may wait for `Manager.mu` while the world moves on. `timer.Stop` does not
  recall it.
* **The page.** A handler of `app.js` runs up to its next `await`; calls are
  served and answered in any order, and other browsers write in between. Nothing
  is pushed: a timer asks every fifteen seconds.
* **Processes.** `panel restart` signals every process named `panel`, sleeps
  and starts another, to which the environment passes on; the panel and
  https-front read and write `etc/.env`.
* **The outside.** Plugin processes bind, crash and are killed; the kernel
  reuses PIDs; other programs take ports; the panel is killed or loses power.

The behaviours that are hard to test follow from that: a callback or watcher
that belongs to an earlier process; a port given away but not yet bound; a
Runtime used after its process is gone; a PID that is someone else's after a
restart; an upgrade that writes a record while the process runs; two logins
between each other's steps; a crash in the middle of three system calls; a
table drawn from an answer that others have overtaken; a start that finds the
panel it has just stopped.
`PROJECT.json` lists each at its line, with the properties that watch it.

## 3. Modules

| Module | What it is |
|---|---|
| `PluginManager` | manager, gateway, plugin handlers, boot and shutdown: one composed state machine, because all of them meet at `Manager.mu` |
| `PortLease` | abstract specification: who holds which port |
| `Supervision` | abstract specification: which processes are started, killed and taken over |
| `PanelStore` | the write protocol of the store |
| `DurableSet` | abstract specification: a set of changes that only grows, acknowledged after it is durable |
| `Accounts` | login, sessions, changes of name and password |
| `OneSession` | abstract specification: a login replaces the one accepted session |
| `Access` | the set-up wizard and the lock-out of the login |
| `SetupJob` | abstract specification: one set-up job and what it may report |
| `Dashboard` | the page's copies of plugins and sessions, and the handlers that write and refresh them |
| `Pages` | its routing, language, theme and the iframe of a plugin |
| `CommandLine` | start, stop and restart, the panel processes and `etc/.env` |
| `MCPluginManager`, `MCPanelStore`, `MCAccounts`, `MCAccess`, `MCDashboard`, `MCPages`, `MCCommandLine` | the same for TLC, with the symmetry sets and initial states the configurations use |
| `PluginManagerProofs`, `SupervisionProofs`, `PanelStoreProofs`, `AccountsProofs`, `AccessProofs`, `DashboardProofs`, `PagesProofs`, `CommandLineProofs` | theorems |

The modules meet where one abstracts the other: `Dashboard` and `Pages` see the
server as what a handler answers (`PluginManager` and `Accounts` have the
handlers), `CommandLine` sees a panel as a process with a phase (`PluginManager`
has its boot and `Shutdown`).

`PluginManager` implements `PortLease` (property `LeaseSpec`) and `Supervision`
(`SupervisionSpec`), `PanelStore` implements `DurableSet` (`DurableSpec`),
`Accounts` `OneSession` (`OneSessionSpec`) and `Access` `SetupJob`
(`SetupJobSpec`), all of them as TLC properties and as theorems. Definitions that carry a name such as `FreePortsPastEnd` or
`LoginCreateEarly` and are used by no action are deliberately wrong versions of
the definition beside them. Each property of a passing run has one, listed in
`PROJECT.json`, under which TLC finds it violated; that shows the property can
fail.

## 4. The plugin manager (`PluginManager`)

**Atomicity.** One action is one critical section of `Manager.mu`, one step that
the code takes outside it, or one step of the environment. What a method does
before its `Unlock`, saving the map included, is one action (`Spawn`,
`StopEntry`, `CleanEntry`, `IdleExit`, ...). What it does after is another:
`Start` continues with `WaitPortOk` and `StartDone`, or with `WaitPortTimeout`
(the last dial finds nobody; `start` is "late"), `GiveUp` (after a sleep and the wait
for the mutex, in which the plugin may have come to listen) and `StartError`; `Stop` continues with `KillTerm`, then `KillReturn` or
`KillForce`.

**Processes.** A process gets a number when it is forked, never used again. It
stands for the operating system's process and for the Runtime made for it; all
per-Runtime state (`tick`, `timer`, `fresh`, ...) is a function of that number.
`os[p]` runs from `booting` over `serving` to `zombie` and `gone`; `reused`
says that its PID belongs to another program now.

| Variable | Code |
|---|---|
| `runtimes`, `portMap` | `Manager.runtimes`, `etc/port-map.json` |
| `unsaved` | history: this core's last save of the file has failed |
| `tick` | `Runtime.startTick`: its own start time, a foreign one, or none |
| `timer`, `ghost` | `Runtime.timer`; a running timer that `armIdleLocked` has overwritten |
| `fresh` | `time.Since(lastUse) < Idle` |
| `firing` | an expired timer whose callback waits for the mutex |
| `start`, `watch`, `kill` | how far `Start`, its `cmd.Wait` goroutine, and `killProc` are |
| `installed`, `keepalive`, `dirs` | plugin records, their keepalive flag, the directories |
| `req`, `admin` | requests in the gateway and in the plugin handlers |
| `core`, `todo`, `cur` | phase of main, and what `reviveKeepalive` or `Shutdown` has left |
| `squatters`, `port`, `name` | who listens where, and what a process runs |

**Time.** There is no clock. `Age(p)` is "Idle has passed since the last use";
a timer set before the last use (`overtaken`) may expire while the Runtime is
still fresh, which is the race between `Touch` and the callback. A timer set
after it expires only with the Runtime no longer fresh.

**Crashes.** `Crash` may happen in any state and takes away all the core's
memory and goroutines, not the processes; `CrashInStart` is the crash between
fork and the saved map. `Boot` is `SyncPluginsFromDir` and `Load`; `Revive` is
`reviveKeepalive`; `Shutdown`, `ShutdownStop`, `CoreExit` are the orderly end,
during which the HTTP server still answers, as in `main`.

**Saving the table.** `SavePortMap` is part of every action that changes the table.
With `DiskFails` it may fail, in `WriteFile` or in `Rename`: the old file stays,
and the code goes on without a word. The file is then behind the table
(`unsaved`) until a later save, which writes all of it.

**Switching keepalive** is three critical sections: `KeepaliveCheck` (is it
installed), `KeepaliveSet` (store it) and `ApplyKeepalive` (tell the process).

**Properties.** `PortMapAgrees` (table and file say the same whenever the mutex
is free, unless the last save has failed), `PortsExclusive`, `NoLostProcess` (a live process the core knows is
entered or being killed), `OwnTickNeverStray` (a truly recorded start time never
lets a signal reach another program), `OnlyIdleExits` (the idle callback takes
down only its own, unused, non-keepalive process), `ServingIsAdopted` (a core that
comes back takes over what the file names and still serves, and revival takes the
place of none that serves; only a `Start` that is "late" takes down its own process,
even if that listens by now),
`UnusedPluginExits`, `OwnDeadEntryLeaves`, and `LeaseSpec`.

`SupervisionSpec` leaves out the mutex, the goroutines, the timers and the start
times: the entries are `runtimes`, the book is `portMap`, the living processes those
booting or serving, the doomed ones those that `killProc` is at. A process is started
only for a plugin without one; a living one leaves the entries only to be killed; none
is ever entered twice; the book is brought up to date whole or, when the disk fails,
not at all; a core that takes over goes by the book of the former one. `LeaseSpec`
says the same of the ports in both.

Two state properties say what the two liveness properties rest on, without
fairness. `DeadEntryIsDue`: the entry of a dead process of this core has the
`Start` or the goroutine of `cmd.Wait` that will take it away. `IdleIsTimed`: an
entry whose plugin may exit idle has a timer that runs, a callback that is about
to get the mutex, a `Start` that will set one, or a handler about to apply the
setting it has stored. The second holds as long as handlers that write the
keepalive setting of a plugin do not overlap and no record of a running plugin is
replaced or removed (`Calm`); section 10 says what happens otherwise.

## 5. The store (`PanelStore`)

The document is the set of changes made to it: a method adds one. What a
document says does not matter to `save`; whether it parses, and which changes
it has, does. One action is one system call of `save`: rename of `panel.json` to
`.bak`, creation of `.tmp`, write and close, rename of `.tmp`. Files are
followed by inode: a saver whose file was renamed goes on writing into it under
its new name. Each call may fail (`SaveFails`), and then the change stays in
memory although its caller got an error, as in the code; the process may be
killed before or after each one (`Crash`).

All methods of `DB` hold `DB.mu` through `save` and are one saver. The other is
`Close`, which main's `defer` calls without the mutex while handlers may go on
(`core` = "closing"); what they save before, after and beside it is in the model. A
power failure (`PowerFailure`) may lose file contents that were never synced, renames
being journaled.

Two things the code does not survive, and the history variable `mishaps` records them
when they happen: "overlap", both savers in `save` at the same moment, and "power", a
power failure that takes the contents of `panel.json` or of its backup. `Unharmed`
says that neither has happened yet. Nothing forbids them; the properties hold until
the first of them, in every behaviour.

**Properties.** `AckedSurvives` (a change whose method returned success is what
the next start reads), `OpenWorks` (no crash leaves files that `Open` refuses),
`SaveNeverLoses` (no step takes a change from what would be read), and `DurableSpec`,
whose promise ends with the first breach. `CloseKeepsAcked` is what the package
comment of `db.go` makes of an orderly end, and does not hold: section 10.

## 6. The account (`Accounts`) and the open doors (`Access`)

The panel has one account. A login reads the user record, verifies, may write
an old hash again (`Rehash`), creates its session (`LoginCreate`) and then
takes the others down (`LoginSingle`); each is a critical section of `DB`, and
handlers interleave between them. `Request` is what passed `auth`:
revocation of one or of all other sessions, a change of the name (check, then
`UpdateUsername`) and of the password (verify, then `UpdatePassword`, then
revocation). Sessions are in the store and `JWT_SECRET` is in `.env`, so
`Restart` takes away only the handlers. Expiry is the loss of validity.

`answered`, `calm`, `lastSet`, `undone` and the handlers' `seen` are history
variables: no guard reads them. They say which logins a client knows, which of
them overlapped no change of the name, what the last password is, and whether a
late `Rehash` has put a former one back.

**Properties.** `SingleSession` (README.md:308: one session per account: of the
answered, undisturbed logins at most one is still accepted),
`SessionsFollowName` (their sessions carry the account's present name),
`PasswordStands`, and `OneSessionSpec`: seen from outside, the answer to a login
puts its session in the place of the accepted one in one step, and a session that
has ended, in whatever moment of which handler, is never accepted again. (The
abstract login may also leave none: two logins at a time take each other down.) The excluded cases, logins that overlap a change of the name
and hashes renewed after a change of the password, are the ones in which the
code does not keep the promise; section 10 names them.

`Access` is what may be called without a session. A set-up request tests for an
administrator (`SetupCheck`), claims `setupProgress` (`SetupClaim`), makes the
user and installs the plugins one by one; any step may fail, and then gives the
flag back. A login reads the policy, looks at the lock (`Remaining`), verifies,
and counts a failure (`RecordFail`) or lets the name in (`Reset`), each in a
critical section of its own; the limit may change in between
(`HandleSecurityPut`). A failed write leaves users and limit in memory only
(`disk` is what a restart finds), so a user whose set-up reported failure is
there until the panel ends. `guesses`, `chosen` and `made` are history variables.

| Variable | Code |
|---|---|
| `users`, `limit`, `disk` | `DB.data.Users`, `login_fail_limit`, and what `panel.json` has of them |
| `running`, `complete` | `setupProgress` |
| `fails`, `locked` | `loginGuard.fails`; the names whose `until` has not passed |
| `setup`, `login` | the local variables of `runSetup` and `handleLogin` |

**Properties.** `GuessBound`: between two times a name is let in or its lock
ends, the wrong passwords tried are fewer than the highest limit plus the number
of logins. The bound is sharp: logins that passed the lock together are not
stopped by the first of them that sets it. `OneSetup`: one set-up works at a time
and has left exactly what it has not installed. `ProgressIsTrue`: the page says
complete only of a set-up that did everything. `SetupJobSpec`: the requests
together, with failed writes, other writes and restarts between their steps, do what
one job does, which installs nothing and reports nothing complete before its
administrator is on the disk; so no end of the panel opens a wizard that was
reported complete. A job that gives up may leave its administrator in memory
only, who reaches the disk with some later write or is gone with the panel
(`admin` = "memory"). What does not hold is that there is one administrator: section 10.

### The page (`Dashboard`, `Pages`)

**Atomicity.** JavaScript runs a handler up to its next `await` without
interruption; that is one action. In `Dashboard` a handler with a call under
way is a task: `Serve` is the server's handler of that call, after which the answer is
on its way, and an action named for what follows the `await` (`AfterWrite`,
`ListRefreshed`, `DotsRefreshed`, `RowsDrawn`, `SessionsDrawn`, ...) receives it
and may send the next call. `CallFails` loses a call before or after it was
served; `Denied` is the 401 upon which `api()` leaves for the login page.
`ServerChanges` and `SessionEnds` are other browsers, the gateway and the idle
exit. In `Pages` nothing awaits the calls of a picked language or theme, so
that they are bags, not tasks.

| Variable | Code |
|---|---|
| `server`, `live` | what `PluginManager` and `Accounts` have: plugins, running ones, keepalive; valid sessions |
| `list`, `nav`, `rows`, `sessions` | `plugins`; the side bar with its dots; the rows of the tables |
| `drawer`, `button` | `curPlugin` and the state that the drawer shows; whether `#btn-url-install` is enabled |
| `task` | a handler, the call it awaits, and what has become of it |
| `lang`, `theme`, `mark` | `documentElement.lang`, `body.dataset.theme`, the highlighted theme |
| `asked`, `answers`, `puts` | GETs not yet served, answers under way, PUTs under way |
| `hash`, `told`, `shown` | `location.hash`, a `hashchange` still to come, what `route()` has shown |
| `frame`, `overlay`, `timers`, `frameTimer` | the iframe, the mask over it, 12-second timers that run, the one that the global knows |

`last` of a task and `seen` are history variables.

**Properties.** `DrawerFromList` (the drawer's buttons are those of the plugin
it shows, although `refreshPlugins` reads `curPlugin` after its `await`),
`InstallOnce`, `ReadYourWrites` (a handler draws a list that has its own write,
however others interleave), `RevokedIsGone`, `DotsConverge` (the dots come to
agree with a server that pushes nothing, whatever overtakes or fails),
`SessionEndLeaves`, `ButtonReturns` and, without fairness, `ButtonIsHeld` (a
disabled install button has the installation that will enable it); `LangSettles` and `SettingsQuiet` (a
language change fetches the settings, which may change the language: this comes
to rest, in the server's language), `HonestOverlay`, `OverlayEnds` and, without
fairness, `ColdIsTimed` (the timer of one opening never speaks for another, and
no mask that promises a cold start is left without its timer).

### The command line and `.env` (`CommandLine`)

One action is one `pgrep`, one signal, one fork, one read of the file, or one
half of a write: `os.WriteFile` truncates first. A save reads (`Reads`), truncates
(`Truncate`) and writes (`Write`), or ends in between (`SaveFails`, or the death of its
process). `Load` reads the file once, and a first start twice: `LoadFirst` finds no
secret and makes one, `ReadAgain` reads the file in which `saveEnvVar` puts it. Commands are processes named
`panel` too, and are found and signalled as such (`KillCommand`); between
`nohup` and its exec a panel has another name (`Exec`). A SIGTERM finds a panel
before `signal.Notify`, serving, or in its `Shutdown`, which takes as long as it
takes: `Killed` (the 800 ms are over) may come before `Ends` or after. A
process's `env` is what it has of `.env` in its environment: nothing from a
shell, the panel's own for a restart by the API; `loadEnvFile` adds the lines
of the file and replaces none.

| Variable | Code |
|---|---|
| `file` | the lines `LISTEN_ADDR` and `JWT_SECRET` of `etc/.env` |
| `panel`, `command` | processes: how far main, or the command, has come; environment, address, secret; the PIDs still to be signalled |
| `saver` | who is between the read and the write of the file, and what it will write |

`met` (commands that were under way together), `acked` (what was saved last),
`disturbed` and `due` are history. `disturbed` is the set of lines that something may
have got wrong: both when the file is read while it is truncated, or left truncated;
the address when two saves overlap; the secret when one of the two is that of a
first start, or two first starts come together.

**Properties.** `OneOwner`: two panel processes run at the same time only if
the commands that started them overlapped; one command, or one after another,
never starts a second panel on the same data. `LoadedAsSaved`, line by line: every
panel has the secret of the one before, so that sessions survive, also when handlers
and https-front save addresses at the same time, unless the secret is `disturbed`; and
one started from a shell listens where the last answered save said, unless the
address is. The excepted cases are those in which the code does not keep it:
section 10.

## 7. Runs

Every passing run finishes and explores its whole state space. The passing runs
of a module together take every action of it; `Spec` without fairness is enough
for safety.

| Run | Instance | Question |
|---|---|---|
| `gateway` | 2 plugins, ports 1–2, 2 requests, another program may take port 2, 2 processes | concurrent cold starts, time-outs, idle exits and exit watchers: `PortsExclusive`, `NoLostProcess` |
| `recovery` | 2 plugins, one keepalive, 2 ports, 1 administrator who restarts a plugin once, PID reuse, failing saves, 3 processes, 1 crash, 1 shutdown | the core dies or shuts down at any step and comes back, saves of the map fail at any time: `PortMapAgrees`, `OwnTickNeverStray`, `ServingIsAdopted`, `LeaseSpec`, `SupervisionSpec` |
| `admin` | 1 plugin, 2 ports, 1 request, 2 administrators with every operation, 2 processes, 2 operations | operations against each other and against a request: `OnlyIdleExits`, `DeadEntryIsDue` |
| `idle` | `FairSpec`, 1 plugin, 1 port, 2 requests, 1 administrator who toggles keepalive 4 times, 1 process | `IdleIsTimed`; liveness: `UnusedPluginExits`, `OwnDeadEntryLeaves` |
| `route` (violation) | 2 plugins, 1 port, 2 requests, 2 processes | `RequestReachesPlugin` |
| `store` | 3 changes, handlers beside and after `Close`, power failures | `OpenWorks`, `DurableSpec` (with it `AckedSurvives` and `SaveNeverLoses`), until a mishap |
| `close` (violation) | 2 changes | `CloseKeepsAcked` |
| `accounts` | 2 handlers, 3 sessions, 2 names, 2 passwords, old and new hashes | `SessionsFollowName`, `PasswordStands`, `OneSessionSpec` (with it `SingleSession`) |
| `access` | 2 set-ups, 2 user names of which logins give one, 2 plugins, 2 logins, limits 1 and 2, 4 failures | `GuessBound`, `OneSetup`, `SetupJobSpec` (with it `ProgressIsTrue`) |
| `dashboard` | `FairSpec`, 2 plugins, one with a menu and one eager for keepalive, 2 sessions, 2 calls at a time, 2 events | `DrawerFromList`, `InstallOnce`, `ReadYourWrites`, `RevokedIsGone`, `DotsConverge`, `SessionEndLeaves`, `ButtonReturns` |
| `pages` | `FairSpec`, 2 languages and one that the page has no texts for, 2 themes, 2 plugins, 3 events | `LangSettles`, `HonestOverlay`, `SettingsQuiet`, `OverlayEnds` |
| `restart` | 2 commands, 2 panels and one of them possibly running, 1 handler and https-front as savers, 2 addresses, 2 secrets | `OneOwner`, `LoadedAsSaved` |

A property that a refinement contains has no run of its own: `AckedSurvives` and
`SaveNeverLoses` are properties of `DurableSet`, `SingleSession` of `OneSession`,
`ProgressIsTrue` of `SetupJob` (with `OneSetup`). `ButtonIsHeld` and `ColdIsTimed`
are what `ButtonReturns` and `OverlayEnds` rest on. All of them are theorems, and
TLC finds each true on the instances above when it is added to the cfg.

**Bounds, and why they are enough.** Each bounds one constant in a guard.
`MaxProcs` counts forks in a whole behaviour: two let a plugin's second process
meet the callbacks and watchers of its first, and let two plugins compete; three
(`recovery`) let this happen again after a restart. Two ports are the least with
which a wrong choice and a right one both exist; one port is the exhausted pool.
Two operations in `admin` are every ordered pair, with the same or different
handlers, which is what two critical sections can do to each other; the request
is the third party. In `idle`, four changes
let keepalive go on and off twice, the second time against timers left by the
first. One crash suffices for
what a core can find that the previous one left; after `Boot` nothing remembers
earlier cores except `portMap` and `tick`, both of which any single crash can
leave in every combination. In `recovery` plugins start by revival and by an
administrator's restart, which may fail to be saved like every other change; no
other program takes a port there (in `gateway` one does). In `store`, three changes make an acknowledged, a
failed and a running one; crashes and power failures are unbounded. In
`accounts`, two handlers and three sessions make a login race another while a
third session is there to be taken down; restarts, logouts and expiries are
unbounded. In `access`, two logins and limits 1 and 2 reach the bound itself
(three guesses), four failures let a name be locked, freed and locked again, and a
second set-up request is what the first can meet; user names other than the one
that logins try only take part in the set-up. In
`dashboard`, two calls under way overtake each other in every way that three
could pairwise; two events are a write of the user and one of another, or two of
either; calls that fail are events too. In `pages`, three events change the
language here, elsewhere and back, or open, leave and open a plugin. In
`restart`, two commands are the one that restarts and the one that comes in
between; two panels are the old and the new one, each of which starts at most
once; a panel that already serves is the third process of an API restart. With three
panels the same run finds nothing more, in more than five minutes. The theorems of section 9 need no bounds: there, the safety
properties of the passing runs hold for all values of the constants.

`CHECK_DEADLOCK FALSE` in the `PM_*.cfg`, `CL_restart.cfg`, `DB_dashboard.cfg`
and `PG_pages.cfg`: when requests, operations, forks, commands or events are used
up the system has nothing left to do, and stops.

## 8. Fairness

`FairSpec` assumes what the Go scheduler, timers and the kernel give: main goes
on (`MainThread`), the goroutines of `Start`, `cmd.Wait` and `killProc` go on
(`CallThread`), timers expire and their callbacks get the mutex
(`TimerThread`), handlers in progress go on (`RequestThread`, `AdminThread`).
`killProc` polls for at most three seconds and `waitPort` for six, so both end;
`Go`'s mutex does not starve a waiter. All are weak: each of these steps, once
possible, stays possible until taken or made pointless. Nothing is assumed of the
environment: plugins need not bind, exit or obey SIGTERM, clients need not send
requests, the core need not crash nor come back.

The page's `FairSpec` assumes of `Dashboard` that the timer goes on ticking (as
long as the page is open), and that each call is served and its answer received
(`Serve`, `Continues`: a browser fails a call that gets no answer, which is
`CallFails` and an event); of `Pages` that the browser delivers `hashchange` and
expires timers, and that GETs are served and answered. Nobody need click, and a
plugin's page need never load.

## 9. Proofs

All theorems are for every value of the constants, from the named assumptions of
the module (`ConstantsAssumption`, `NoneAssumption`,
`AccessAssumption`, `DashboardAssumption`, `PagesAssumption`,
`CommandLineAssumption`), which say no more than the types of the constants (`PanelStore` needs none), and in
`Access` that logins and limits are finitely many and limits positive. TLC checked each invariant and each
strengthening before it was proved.

**`PluginManagerProofs`.** `Invariance` is the inductive invariant

    IInv == TypeOK /\ PortMapAgrees /\ DownIsEmpty /\ UnforkedIsBlank
            /\ EntriesAreForked /\ LeasesExclusive /\ ExitedIsDead
            /\ LiveTickIsOwn /\ StrayIsForeign /\ NoLostProcess

`NoLostProcess` alone is not inductive. A step that removes an entry must know
that the process it kills is the one entered (`EntriesAreForked`) and that an exit
watcher that clears an entry belongs to a process that has ended
(`ExitedIsDead`); `killProc` returns without a kill when `sameProcess` fails,
which is right only if a live process's recorded start time is its own
(`LiveTickIsOwn`); a crash empties the memory (`DownIsEmpty`), after which
`Boot` rebuilds it from the file. `EntriesAreForked` and `LeasesExclusive` speak of
the table and of the file (`Tables`): the file may be behind the table after a save
that failed, and must be a fit start for the next core all the same, also while no
core runs. Because
there are some forty actions and ten conjuncts, `StepKinds` first sorts the
actions into seven kinds by what they do to the process table (`Quiet`,
`Spawning`, `Stopping`, `Working`, `Dying`, `Environment`, `Boot`), and each
conjunct is proved against the kinds. From `IInv` follow `PortMapCorrect`,
`PortsCorrect`, `ProcessesCorrect`, `SignalsCorrect`, and the action properties
`IdleExitsCorrect` and `AdoptionCorrect`.

**`SupervisionProofs`.** The refinements of `PortLease` and `Supervision` and the
states that liveness rests on, each from `IInv` and a strengthening of its own.

* `LeaseCorrect`. A step of the table is one `Take` or `Release` whose `Note` is the
  save, or its failure; a crash is `Fail`, `Boot` is `TakeOver` of the book.

* `KnownInvariance`, `SupervisionCorrect`. A process that is signalled or timed is
  one that this core has forked or adopted (`OnlyKnown`), and each has the name of
  a plugin (`ForkedIsNamed`); without the first, a step of the environment could
  end a `killProc` of nobody. Each concrete step is then a `Start`, `Drop`, `End`,
  `Fail` or `TakeOver` of the abstract supervisor or leaves its five variables
  alone; that an entry dropped alive is doomed in the same step comes from
  `StopEntry`, `IdleExit` and `GiveUp` calling `killProc`, and that
  `CleanEntry` drops only the dead from `ExitedIsDead`.
* `WatchedInvariance`, `DeadEntriesCorrect`. `StartIsWatched`: a child is waited for
  by the `Start` that forked it or by one goroutine, never both, and one that
  nobody waits for any more is not entered. `DeadEntryIsDue` follows.
* `IdleTimersCorrect` proves `Spec /\ []Calm => []IdleIsTimed`. The strengthening,
  `SwitchIsStored /\ TimerIsDue`, adds the other half: an entry that is to stay
  alive has no timer unless a switch is about to be applied, without which
  `ApplyKeepalive(false)` might leave a spent timer in place. `Calm` is a
  hypothesis on the behaviour, not on the constants; it fails exactly in the
  overlaps of section 10, and `OneAdminIsCalm` discharges it where at most one
  administrator only starts, stops, restarts and switches plugins, any number of
  requests, plugins, processes and crashes beside him.

**`PanelStoreProofs`.** No assumption: handlers that outlive the server and power
failures are in the model, and what the theorems say ends with the first mishap of the
behaviour, not of the instance.

    IInv == TypeOK /\ (Unharmed => Kept)
    Kept == OneSaver /\ MemoryIsAhead /\ TmpIsOwn /\ ChangeIsSaved /\ AckedSurvives

The argument: one saver at a time is in `save` (else there was an overlap, which
`Beside` has recorded), so `.tmp` holds what that saver marshalled; what it marshalled
is the memory, also when the other one begins after it; the memory includes what the
disk holds; so the last rename only adds. Between the two renames the former document
is `.bak`. A power failure that takes `.tmp` alone changes nothing that is read.
`DurableCorrect` maps the step of a mishap to `Breach`.

**`AccountsProofs`.** `IInv == TypeOK /\ SessionsFollowName /\ LoginsKeepName /\
SingleSession /\ PasswordStands /\ PasswordsVerified`. The step that matters is
`LoginSingle`: it takes down the others under the name the handler has read,
which is the account's name if no change was seen (`LoginsKeepName`), and under
which all calm sessions run (`SessionsFollowName`). Then the new session is the
only one. `OneSessionCorrect` maps that step to the abstract login and the steps
that take sessions down to `End` or to nothing; it needs `PendingApart`, that a
session that is not answered yet is no client's and no other handler's.

**`AccessProofs`.** `IInv == TypeOK /\ OneSetup /\ ProgressIsTrue /\
InstallsInOrder /\ CountsAgree`, from `AccessAssumption` (finitely many logins and
limits, limits above zero). `GuessBound` is not inductive: it says nothing of the
logins that are still on their way. `CountsAgree` does: the guesses of a name are at
most its count and the logins about to report (`Wrong`); while it is not locked,
those counted are below the highest limit; while it is, the guesses and the logins
still past the lock (`Verifying`) keep below the bound. The step that sets the
lock is the one that needs the set theory: the reporting login is no longer on
its way, so the others are fewer than all. The rest uses that a name that is let
in, or whose lock ends, starts from zero. `SetupJobCorrect` needs, beside `IInv`,
`OnDiskFirst`: a request that installs has its administrator on the disk, from
which no step takes users (`DiskSteps`), and one that has yet to make him has
installed nothing.

**`DashboardProofs`.** `IInv == TypeOK /\ DrawerFromList /\ InstallOnce /\
InitAlone /\ FreshLists /\ RevokedDown`. `FreshLists` says what the two action
properties need: the answer to the call after a handler's own write, if nobody
has written since, is the server's list; `RevokedDown`, that a session stays
over and is in no later answer of the handler that took it down. `InitAlone`
keeps the first handler from meeting others, for which `DrawerFromList` would
need a drawer before the list. `ButtonIsHeldCorrect` is proved from
`ButtonIsHeld` and `InstallCalls` (an installation awaits its write or the list
after it, so whatever ends it passes its `finally`).

**`PagesProofs`.** `IInv == TypeOK /\ OneTimer /\ ColdIsTimed /\ LangFollows`.
`OneTimer`: the only timer that runs is that of the last opening, which is why
its load or its text is all that can stop it (`ColdIsTimed`). `LangFollows`: on the settings
page, the server's language is shown, is in an answer under way, or will be
asked for; that an old answer makes the page ask again is why `LangSettles`
holds though answers overtake each other.

**`CommandLineProofs`.** `IInv == Sound /\ Owners /\ Saved`. `Sound` adds to
`TypeOK` that a panel that has found no secret or owns the store is configured, and
that the saver of a first secret is that of a panel in `saving`.
`Owners`: commands that overlap are in `met` (`CommandsMet`); a command that
has found nobody has met the starter of every panel there is (`SpawnersMet`),
because that panel has not come to its exec and its starter counts as under way
until then; hence any two panels' starters have met (`OwnersMet`). `Saved` has one
part for each line, and each part is inductive by itself (`SecretStep`, `AddrStep`):

    Saved == ("secret" \in disturbed \/ SecretIntact) /\ ("addr" \in disturbed \/ AddrIntact)

`SecretIntact`: the file has the saved secret unless it is truncated; what any
saver, however many there are, will write has it too, or is the first; a first
start saves alone (`FirstAlone`) and is the only one (`OneFirst`), from its first read
to its write; and no process has another secret in its environment. `AddrIntact`: one
saver at a time; the file has the saved address, and the saver of a first secret
leaves it as it is. The two are separate because an overlap that may lose an address
must not excuse the loss of a secret.

**Only model-checked.** Liveness (`UnusedPluginExits`, `OwnDeadEntryLeaves`,
`DotsConverge`, `SessionEndLeaves`, `ButtonReturns`, `SettingsQuiet`,
`OverlayEnds`): fairness and `ENABLED` are beyond the prover. Of four of them the
part that is safety is proved, that whoever has to act is there: `IdleIsTimed`,
`DeadEntryIsDue`, `ButtonIsHeld`, `ColdIsTimed`; that he then does is what the
fairness of section 8 says and TLC checks. The violation runs are counterexamples
of TLC.

## 10. Findings

Each violation run checks one sentence of the program's documents or comments
and ends in a counterexample. The other findings were met while modelling and are
behaviours of the models. `PROJECT.json` ("findings") quotes the sentences and
names the actions.

* `route`: a request keeps the Runtime that `Start` returned and dials its port;
  if the plugin ends and another gets that port in between, the request reaches
  the other plugin.
* `close`: main's deferred `Close` saves beside running handlers and, when its save
  overlaps theirs, can take back an acknowledged change.

Without a run of their own:

* Manager: a switch of keepalive is stored and applied in two steps; of two that
  overlap, off may be stored last and on applied last, and the running process has
  no timer although its plugin may exit idle (`IdleIsTimed` fails). `Load` records the start time of whoever owns the saved PID *now*, so
  after a crash, a PID reuse and a taken port, `killProc` signals another
  program, which `manager.go:481` rules out (`NoStraySignal`;
  `OwnTickNeverStray` is what remains). Nobody waits for an adopted process;
  the entry of a dead adopted keepalive plugin stays, and requests are answered
  502 for ever (`DeadEntryLeaves`; `OwnDeadEntryLeaves` remains). Installing a
  bundled plugin again clears its keepalive record but gives the running process
  no timer, so it never exits idle (`idle` therefore checks `UnusedPluginExits`
  without re-installation). A request between the two halves of an uninstallation
  starts the plugin again; was it kept alive, its process has no timer, and no record
  is left through which anybody would stop it (`Calm` excludes both). `Start` gives a second caller a plugin that is not
  ready. The idle callback may reset a nil timer and panic (`IdlePanic`).
  Documents give another order of `waitPort` and saving. A save of `port-map.json`
  that fails is silent: a core that dies before the next one leaves a running plugin
  to nobody, and a second process of it is started (`SavePortMap` with `DiskFails`).
* Store: after a start from the backup, the next save makes the unusable main
  file the backup (`SaveNeverLoses` after the "power" mishap). Database errors are
  ignored in three handlers.
* Account: two logins may log each other out; a login that overlaps a change of
  the name leaves a session without account; a renewed hash may undo a change of
  the password; a set-up request that passed the test for an administrator early
  may make a second one later; a set-up whose user could not be written reports
  failure and closes the wizard nevertheless.
* Page: lists answered in the other order leave the older one until the next
  write; a failed keepalive, stop or restart leaves the drawer as it was drawn;
  an uninstallation closes whichever drawer is open by then and draws the page of
  the removed plugin again; a logout that failed looks like one; a slow log is
  shown under another plugin's title; a picked language turns back when a GET
  sent beside its PUT is served first; a settings answer that arrives after the
  user has opened a plugin may load that plugin's page anew.
* Command line: a restart finds the panel it has signalled still in `Shutdown`,
  starts nothing, and no panel is left; two restarts signal each other's
  process, and two starts in the `nohup` window both spawn; a port saved in the
  settings, or https-front's tightening, has no effect after a restart by the
  API without systemd, because the new process inherits the old `LISTEN_ADDR`;
  `.env` is truncated and written without a lock, so that overlapping saves lose a
  line and a panel that reads it empty makes a new secret; two first starts that both
  find no secret make two, also when their saves do not overlap, and the panel whose
  secret the other has replaced loses its sessions at its end (`LoadFirst` twice
  before the first `ReadAgain`).

## 11. Abstractions, and what is not modelled

* **Manager.** `Idle <= 0` (no idle exit) and `SetIdle` while timers run; log
  files; Windows. `killProc` tests the start time and signals in one step.
  Each package is written in one step. `Idle` (minutes) is longer than the
  six seconds of readiness, so no timer expires while `Start` waits. At most one
  callback of a process waits for the mutex at a time. A PID is reused only
  while the core still refers to it. A failing save of `port-map.json` leaves the old
  file as it was; what it leaves in `port-map.json.tmp` is written over by the next one
  and read by nobody. The store is durable at once here and in
  `Accounts`; `PanelStore` says how far that is true. Ports are positive.
* **Store.** The document is a set of changes; marshalling does not fail;
  renames are atomic and ordered (a journaling file system); a second panel
  process on the same home is not modelled. A file that was created or half
  written is one value, `Torn`.
* **Account.** One account; a refused login changes nothing here (the lock-out
  is in `Access`, which shares no state with it); `UpdateLastLogin` is folded into the next step; the
  answer belongs to the handler's last critical section; tokens and hashes are
  the values they stand for. A cookie's signature is not modelled.
* **Set-up and lock-out.** A plugin that is not in the catalog is passed over by
  the code and is not among `chosen`; the order of the plugins is any; who reads
  the progress, and its counts, are left out. A write of the store succeeds or
  fails as a whole. A lock ends at any time; its length, and that a further
  failure prolongs it, make no difference to the guesses. As in the code, the count
  is not reset when a lock ends, so the next failure locks again. No administrator
  is removed.
* **Dashboard.** The answer to a list is one moment of the server, although
  `handlePluginsList` reads the status plugin by plugin; installation and
  uninstallation are one step of the server. One bound, `MaxEvents`, counts
  clicks, writes of others and failures together. Sessions only end: logins
  elsewhere show nothing that these properties speak of. Others do not switch
  keepalive. The overview's counters, logs, texts and toasts are left out, and the
  forms whose answer nothing reads (idle time, port, login policy, restart).
* **Pages.** The views without settings and iframe are one. `Foreign` stands for
  the languages that the page has no texts for. `MCServers` and `MCLoads` are the
  states in which the runs load the page.
* **Command line.** No systemd: with it, each command is one `systemctl` call.
  One installation (`resolveHome` finds it). Two addresses conflict only when they
  are equal. A process that has ended is not found, also while its parent has
  not waited for it. PIDs are not reused between `pgrep` and the signal. A
  panel started in the foreground without a command, which asks nobody, is left
  out. Of `.env` only the two lines that somebody saves are followed
  (`PANEL_TRUST_PROXY` goes with https-front's address). When two writes overlap,
  what the longer one leaves behind the end of the shorter one forms no line that
  anybody reads.

## 12. Not modelled, and why

* **resource-monitor**: differences of counters from `/proc`, with one previous
  sample behind a mutex; arithmetic on floats, and formatting.
* **mcp-agent**: translates tool calls into calls of the API; its only state is
  the cookie of its session, set and read under a mutex and renewed on a 401.
* **terminal**: two copy loops between a WebSocket and a pseudo-terminal, whose
  ends are decided by the two libraries and the kernel.
* **file-manager**: one system call per request, nothing kept between requests;
  **hello**: a static page.
* **https-front** but for its write of `.env`: TLS and certificates.
* **Scripts**: run once, in sequence.
* **login.html, setup.html**: forms that send one call (`Accounts` and `Access`
  have its handlers).

Three hazards of `PROJECT.json` have no property, because the models show that
they happen: a re-installation, and an uninstallation during which a request starts
the plugin, leave a process without timer, and a process forked just before the core
dies is in no file.

## 13. Running the checks

    tlc -workers 2 -config PM_gateway.cfg MCPluginManager.tla
    tlapm PluginManagerProofs.tla

`PM_*.cfg` go with `MCPluginManager`, `PS_*.cfg` with `MCPanelStore`,
`AC_accounts.cfg` with `MCAccounts`, `AX_access.cfg` with `MCAccess`,
`DB_dashboard.cfg` with `MCDashboard`, `PG_pages.cfg` with `MCPages`,
`CL_restart.cfg` with `MCCommandLine`. The largest runs (`gateway`, `recovery`,
`admin`, `store`, `accounts`, `restart`) have one to two million distinct states each and take two
to four minutes; the proofs are about 9000 obligations.
