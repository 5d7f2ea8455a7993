----------------------------- MODULE CommandLine -----------------------------
(***************************************************************************)
(* `panel start | stop | restart` without systemd (cmd/panel/cli.go), the  *)
(* restart by the API, the panel processes they start and stop, and the    *)
(* file etc/.env that these read, and that the settings page, the first    *)
(* start and the plugin https-front write (internal/config, https-front).  *)
(*                                                                         *)
(* A command is a process as well, and has the same name: pgrep finds it.  *)
(* One action is one pgrep, one signal, one fork, one read or one write of *)
(* the file, a write being the truncation and what follows it.             *)
(***************************************************************************)
CONSTANTS
    Panels,     \* panel processes, each of which is started once
    Commands,   \* processes of the command line, each of which runs once
    Handlers,   \* handlers of the API that save a port at the same time
    Front,      \* the plugin https-front, which saves its own address
    Addrs, Default, Loopback,  \* LISTEN_ADDR, without a line, by https-front
    Secrets,    \* JWT_SECRET; bound: how many may be generated
    None

VARIABLES
    file,      \* the lines of .env, none when it is truncated or missing
    panel,     \* the panel processes
    command,   \* the processes of the command line
    saver,     \* who is writing to .env
    met,       \* history: commands that were under way at the same time
    disturbed, \* history: the lines of .env that two savers, or one that reads or leaves it
               \*   truncated, may have got wrong
    acked      \* history: what was saved last and answered, or is in use

vars == <<file, panel, command, saver, met, disturbed, acked>>

-----------------------------------------------------------------------------
Savers == Panels \cup Handlers \cup {Front}
Processes == Panels \cup Commands

Lines == [addr: Addrs \cup {None}, secret: Secrets \cup {None}]
NoLines == [addr |-> None, secret |-> None]

ASSUME CommandLineAssumption ==
    /\ Panels \cap Commands = {} /\ Handlers \cap (Panels \cup {Front}) = {} /\ Front \notin Panels
    /\ Default \in Addrs /\ Loopback \in Addrs
    /\ None \notin Processes \cup Savers \cup Addrs \cup Secrets

\* `env`: what of .env is in the environment; `due`: history, the address that an
\* answered save has promised to this process, None if it inherited one.
Panel == [at: {"none", "nohup", "loading", "made", "saving", "open", "serving", "stopping", "gone"},
          env: Lines, addr: Addrs \cup {None}, secret: Secrets \cup {None},
          by: Commands \cup {None}, due: Addrs \cup {None}]
Command == [at: {"none", "find", "kill", "look", "spawn", "gone"}, job: {"start", "stop", "restart"},
            env: Lines, pids: SUBSET Processes]
Saver == [at: {"idle", "read", "truncated"}, of: Panels \cup {Front}, lines: Lines]

Owns(p) == panel[p].at \in {"open", "serving", "stopping"}  \* main has opened the store
First(p) == panel[p].at \in {"made", "saving"}  \* Load has found no secret
Runs(p) == panel[p].at = "loading" \/ First(p) \/ Owns(p)

\* A configured process has an address and a secret.
TypeOK ==
    /\ file \in Lines /\ acked \in Lines
    /\ panel \in [Panels -> Panel] /\ command \in [Commands -> Command] /\ saver \in [Savers -> Saver]
    /\ met \in SUBSET (Commands \X Commands) /\ disturbed \in SUBSET DOMAIN NoLines
    /\ \A p \in Panels : Owns(p) => panel[p].addr # None /\ panel[p].secret # None

\* Mutant: a missing address has no default.
AddressOrNone(env) == env.addr

Address(env) == IF env.addr = None THEN Default ELSE env.addr

IdleSaver == [at |-> "idle", of |-> Front, lines |-> NoLines]
NotStarted == [at |-> "none", env |-> NoLines, addr |-> None, secret |-> None, by |-> None, due |-> None]

\* A panel that an earlier command has started, and that has read these lines.
Started(lines) ==
    [NotStarted EXCEPT !.at = "serving", !.env = lines, !.addr = Address(lines),
                       !.secret = lines.secret]

Init ==
    /\ file \in Lines /\ acked = file
    /\ \E running \in SUBSET Panels :
        /\ \A p, q \in running : p = q
        /\ running # {} => file.secret # None
        /\ panel = [p \in Panels |-> IF p \in running THEN Started(file) ELSE NotStarted]
    /\ command = [c \in Commands |-> [at |-> "none", job |-> "start", env |-> NoLines, pids |-> {}]]
    /\ saver = [s \in Savers |-> IdleSaver]
    /\ met = {} /\ disturbed = {}

-----------------------------------------------------------------------------
(* Processes *)

\* Mutant: a panel that no longer serves is not counted.
NamedServing ==
    {p \in Panels : panel[p].at = "serving"} \cup {c \in Commands : command[c].at \notin {"none", "gone"}}

\* findPanelPIDs: pgrep -x panel, also the commands, not a nohup before its exec.
Named ==
    {p \in Panels : Runs(p)} \cup {c \in Commands : command[c].at \notin {"none", "gone"}}

\* A command is under way until the panel it has started is one by name.
UnderWay(c) ==
    \/ command[c].at \notin {"none", "gone"}
    \/ \E p \in Panels : panel[p].by = c /\ panel[p].at = "nohup"

\* What is left truncated has no line any more.
LeftBy(savers) == IF \E s \in savers : saver[s].at = "truncated" THEN DOMAIN NoLines ELSE {}

\* The process ends, and with it what it writes.
Dies(p) ==
    /\ panel' = [panel EXCEPT ![p].at = "gone"]
    /\ saver' = [s \in Savers |-> IF saver[s].of = p THEN IdleSaver ELSE saver[s]]
    /\ disturbed' = disturbed \cup LeftBy({s \in Savers : saver[s].of = p})

-----------------------------------------------------------------------------
(* Commands *)

Begin(c, job, env) ==
    /\ command[c].at = "none"
    /\ command' = [command EXCEPT ![c] = [at |-> IF job = "start" THEN "look" ELSE "find",
                                          job |-> job, env |-> env, pids |-> {}]]
    /\ LET others == {d \in Commands \ {c} : UnderWay(d)} IN
       met' = met \cup ({c} \X others) \cup (others \X {c})
    /\ UNCHANGED <<file, panel, saver, disturbed, acked>>

\* From a shell, whose environment has nothing of .env.
RunCommand(c, job) == Begin(c, job, NoLines)

\* handleSystemRestart: `panel restart` inherits the environment of the panel, in
\* which Load has put the lines of .env.
SystemRestart(c, p) == panel[p].at \in {"serving", "stopping"} /\ Begin(c, "restart", panel[p].env)

\* cliStop finds all of that name, itself not, and signals one after the other.
Find(c) ==
    /\ command[c].at = "find"
    /\ command' = [command EXCEPT ![c].at = "kill", ![c].pids = Named \ {c}]
    /\ UNCHANGED <<file, panel, saver, met, disturbed, acked>>

\* A panel that has come to signal.Notify starts its Shutdown, and notices no second
\* signal; one that has not ends at once, and so does a command.
KillPanel(c, p) ==
    /\ command[c].at = "kill" /\ p \in command[c].pids
    /\ command' = [command EXCEPT ![c].pids = @ \ {p}]
    /\ \/ /\ panel[p].at \in {"open", "serving"}
          /\ panel' = [panel EXCEPT ![p].at = "stopping"]
          /\ UNCHANGED <<saver, disturbed>>
       \/ panel[p].at \in {"loading", "made", "saving", "open"} /\ Dies(p)
       \/ panel[p].at \in {"stopping", "gone"} /\ UNCHANGED <<panel, saver, disturbed>>
    /\ UNCHANGED <<file, met, acked>>

KillCommand(c, d) ==
    /\ command[c].at = "kill" /\ d \in command[c].pids
    /\ command' = [command EXCEPT ![c].pids = @ \ {d}, ![d].at = "gone"]
    /\ UNCHANGED <<file, panel, saver, met, disturbed, acked>>

\* The 800 ms of a restart may be over before the panel has ended, or after.
Killed(c) ==
    /\ command[c].at = "kill" /\ command[c].pids = {}
    /\ command' = [command EXCEPT ![c].at = IF command[c].job = "stop" THEN "gone" ELSE "look"]
    /\ UNCHANGED <<file, panel, saver, met, disturbed, acked>>

\* cliStart gives up when it finds any other process of that name.
Look(c) ==
    /\ command[c].at = "look"
    /\ command' = [command EXCEPT ![c].at = IF Named \ {c} = {} THEN "spawn" ELSE "gone"]
    /\ UNCHANGED <<file, panel, saver, met, disturbed, acked>>

\* nohup panel serve; the command returns.
Spawn(c, p) ==
    /\ command[c].at = "spawn" /\ panel[p].at = "none"
    /\ panel' = [panel EXCEPT ![p].at = "nohup", ![p].env = command[c].env, ![p].by = c]
    /\ command' = [command EXCEPT ![c].at = "gone"]
    /\ UNCHANGED <<file, saver, met, disturbed, acked>>

-----------------------------------------------------------------------------
(* The file *)

\* Mutant: only the line that is saved is written.
WithOnly(lines, new) == new

\* saveEnvVar, setPanelEnv: a line that is saved replaces the former one, the others stay.
With(lines, new) ==
    [addr |-> IF new.addr = None THEN lines.addr ELSE new.addr,
     secret |-> IF new.secret = None THEN lines.secret ELSE new.secret]

Busy == {s \in Savers : saver[s].at # "idle"}
Truncated == \E s \in Savers : saver[s].at = "truncated"

\* Two saves at once may write an old address back; an old secret, which has none, only if
\* one of them is that of a first start.  Who reads the truncated file misses both lines.
Overlap(s) ==
    {l \in DOMAIN NoLines :
        \/ Truncated
        \/ Busy # {} /\ (l = "addr" \/ (Busy \cup {s}) \cap Panels # {})}

\* os.ReadFile, the first half of a save.
Reads(s, p, new) ==
    /\ saver[s].at = "idle"
    /\ saver' = [saver EXCEPT ![s] = [at |-> "read", of |-> p, lines |-> With(file, new)]]
    /\ disturbed' = disturbed \cup Overlap(s)

\* handleSettingsPut with a new port.
SavePort(h, p, a) ==
    /\ panel[p].at \in {"serving", "stopping"}
    /\ Reads(h, p, [NoLines EXCEPT !.addr = a])
    /\ UNCHANGED <<file, panel, command, met, acked>>

\* POST /api/panel-setup of https-front.
PanelSetup ==
    /\ Reads(Front, Front, [NoLines EXCEPT !.addr = Loopback])
    /\ UNCHANGED <<file, panel, command, met, acked>>

Truncate(s) ==
    /\ saver[s].at = "read"
    /\ saver' = [saver EXCEPT ![s].at = "truncated"]
    /\ file' = NoLines
    /\ UNCHANGED <<panel, command, met, disturbed, acked>>

\* The save is answered, or main goes on with the secret it has saved.
Write(s) ==
    /\ saver[s].at = "truncated"
    /\ saver' = [saver EXCEPT ![s] = IdleSaver]
    /\ file' = saver[s].lines
    /\ IF s \in Panels
       THEN /\ panel' = [panel EXCEPT ![s].at = "open"]
            /\ acked' = [acked EXCEPT !.secret = panel[s].secret]
       ELSE acked' = [acked EXCEPT !.addr = saver[s].lines.addr] /\ UNCHANGED panel
    /\ UNCHANGED <<command, met, disturbed>>

\* The write fails, or https-front is killed.
SaveFails(s) ==
    /\ s \notin Panels /\ saver[s].at # "idle"
    /\ saver' = [saver EXCEPT ![s] = IdleSaver]
    /\ disturbed' = disturbed \cup LeftBy({s})
    /\ UNCHANGED <<file, panel, command, met, acked>>

-----------------------------------------------------------------------------
(* Panel processes *)

Exec(p) ==
    /\ panel[p].at = "nohup"
    /\ panel' = [panel EXCEPT ![p].at = "loading"]
    /\ UNCHANGED <<file, command, saver, met, disturbed, acked>>

\* loadEnvFile: the lines of the file become part of the environment, and replace nothing
\* of it.
Environment(p) == With(file, panel[p].env)

\* Load, for a panel whose secret is known; it goes on to db.Open.
Loaded(p) ==
    [panel[p] EXCEPT !.env = Environment(p), !.addr = Address(Environment(p)),
                     !.due = IF panel[p].env.addr # None THEN None
                             ELSE IF acked.addr = None THEN Default ELSE acked.addr]

\* What Load reads of a truncated file is wrong.
Missed == IF Truncated THEN DOMAIN NoLines ELSE {}

Load(p) ==
    /\ panel[p].at = "loading" /\ Environment(p).secret # None
    /\ panel' = [panel EXCEPT ![p] = [Loaded(p) EXCEPT !.at = "open", !.secret = Environment(p).secret]]
    /\ disturbed' = disturbed \cup Missed
    /\ UNCHANGED <<file, command, saver, met, acked>>

\* Load without a secret: it makes one.  Two panels may come here before either has saved it.
LoadFirst(p) ==
    /\ panel[p].at = "loading" /\ Environment(p).secret = None
    /\ \E s \in Secrets \ ({panel[q].secret : q \in Panels} \cup {acked.secret}) :
        panel' = [panel EXCEPT ![p] = [Loaded(p) EXCEPT !.at = "made", !.secret = s]]
    /\ disturbed' = disturbed \cup Missed \cup IF \E q \in Panels : First(q) THEN {"secret"} ELSE {}
    /\ UNCHANGED <<file, command, saver, met, acked>>

\* It saves the secret: the file is read once more.
ReadAgain(p) ==
    /\ panel[p].at = "made"
    /\ panel' = [panel EXCEPT ![p].at = "saving"]
    /\ Reads(p, p, [NoLines EXCEPT !.secret = panel[p].secret])
    /\ UNCHANGED <<file, command, met, acked>>

Serve(p) ==
    /\ panel[p].at = "open"
    /\ \A q \in Panels : panel[q].at = "serving" => panel[q].addr # panel[p].addr
    /\ panel' = [panel EXCEPT ![p].at = "serving"]
    /\ UNCHANGED <<file, command, saver, met, disturbed, acked>>

\* The address is in use: main exits.
ServeFails(p) ==
    /\ panel[p].at = "open"
    /\ \E q \in Panels : panel[q].at \in {"serving", "stopping"} /\ panel[q].addr = panel[p].addr
    /\ Dies(p)
    /\ UNCHANGED <<file, command, met, acked>>

\* The end of Shutdown, or a crash.
Ends(p) ==
    /\ Runs(p)
    /\ Dies(p)
    /\ UNCHANGED <<file, command, met, acked>>

Next ==
    \/ \E c \in Commands :
        \/ \E job \in {"start", "stop", "restart"} : RunCommand(c, job)
        \/ \E p \in Panels : SystemRestart(c, p) \/ KillPanel(c, p) \/ Spawn(c, p)
        \/ \E d \in Commands : KillCommand(c, d)
        \/ Find(c) \/ Killed(c) \/ Look(c)
    \/ \E p \in Panels :
        \/ \E h \in Handlers, a \in Addrs : SavePort(h, p, a)
        \/ Exec(p) \/ Load(p) \/ LoadFirst(p) \/ ReadAgain(p)
        \/ Serve(p) \/ ServeFails(p) \/ Ends(p)
    \/ PanelSetup
    \/ \E s \in Savers : Truncate(s) \/ Write(s) \/ SaveFails(s)

Spec == Init /\ [][Next]_vars

-----------------------------------------------------------------------------
(* Properties *)

\* Two panels have processes at the same time only if the commands that started them
\* were under way at the same time: one command, or one after another, never starts
\* a second panel on the same data beside one that is starting, serving or still
\* stopping (the pgrep of cliStart).
OneOwner ==
    \A p, q \in Panels : p # q /\ Runs(p) /\ Runs(q) => <<panel[p].by, panel[q].by>> \in met

\* Every panel has the secret of the one before, so that the sessions survive a restart: also
\* when the handlers and https-front save addresses at the same time, as long as nobody reads
\* or leaves .env truncated and a first start saves alone.  As long as no two saves overlap,
\* one started from a shell listens where the last answered save said.
LoadedAsSaved ==
    \A p \in Panels : Owns(p) =>
        /\ "secret" \notin disturbed => panel[p].secret = acked.secret
        /\ "addr" \notin disturbed /\ panel[p].due # None => panel[p].addr = panel[p].due
=============================================================================
