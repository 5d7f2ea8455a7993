-------------------------- MODULE CommandLineProofs --------------------------
(* Theorems about CommandLine, for every value of its constants. *)
EXTENDS CommandLine, TLAPS

\* A panel that has got past Load is configured, and so is one that has made its secret.
Configured ==
    \A p \in Panels : First(p) \/ Owns(p) => panel[p].addr # None /\ panel[p].secret # None

\* The saver of a first secret is its panel's, and ends with it.
OwnSaver ==
    \A p \in Panels : saver[p].at # "idle" => saver[p].of = p /\ panel[p].at = "saving"

Sound == TypeOK /\ Configured /\ OwnSaver

-----------------------------------------------------------------------------
(* Owners: commands that overlap are in `met`, and so are those of two panels *)

Alive(p) == panel[p].at = "nohup" \/ Runs(p)

\* A panel that has not come to its exec is that of a command that has returned.
Starters ==
    \A p \in Panels :
        /\ panel[p].at = "nohup" => panel[p].by # None
        /\ panel[p].by # None => command[panel[p].by].at = "gone"

CommandsMet == \A c, d \in Commands : c # d /\ UnderWay(c) /\ UnderWay(d) => <<c, d>> \in met

\* Who found nobody, and is about to start a panel, met the starter of any other.
SpawnersMet ==
    \A p \in Panels, c \in Commands : Alive(p) /\ command[c].at = "spawn" =>
        <<panel[p].by, c>> \in met /\ <<c, panel[p].by>> \in met

OwnersMet == \A p, q \in Panels : p # q /\ Alive(p) /\ Alive(q) => <<panel[p].by, panel[q].by>> \in met

Owners == Starters /\ CommandsMet /\ SpawnersMet /\ OwnersMet

-----------------------------------------------------------------------------
(* The file: what is in its lines, as long as they are undisturbed *)

Known == {None, acked.secret}

FileSecret == ~Truncated => file.secret = acked.secret

\* What a saver will write keeps the secret, or is the first.
LinesSecret ==
    \A s \in Savers : saver[s].at # "idle" =>
        saver[s].lines.secret = IF s \in Panels THEN panel[s].secret ELSE acked.secret

FirstAlone ==
    \A s, t \in Savers : saver[s].at # "idle" /\ saver[t].at # "idle" /\ s \in Panels => s = t

OneFirst == \A p, q \in Panels : First(p) => acked.secret = None /\ (First(q) => p = q)

CommandsKnow == \A c \in Commands : command[c].env.secret \in Known

PanelsKnow ==
    \A p \in Panels : panel[p].env.secret \in Known /\ (Owns(p) => panel[p].secret = acked.secret)

SecretIntact == FileSecret /\ LinesSecret /\ FirstAlone /\ OneFirst /\ CommandsKnow /\ PanelsKnow

OneSaver == \A s, t \in Savers : saver[s].at # "idle" /\ saver[t].at # "idle" => s = t

FileAddr == ~Truncated => file.addr = acked.addr

LinesAddr == \A p \in Panels : saver[p].at # "idle" => saver[p].lines.addr = acked.addr

AddressIsDue == \A p \in Panels : panel[p].due # None => panel[p].addr = panel[p].due

AddrIntact == OneSaver /\ FileAddr /\ LinesAddr /\ AddressIsDue

Saved == ("secret" \in disturbed \/ SecretIntact) /\ ("addr" \in disturbed \/ AddrIntact)

IInv == Sound /\ Owners /\ Saved

-----------------------------------------------------------------------------
(* Types *)

LEMMA WithIs == ASSUME NEW l \in Lines, NEW new \in Lines PROVE With(l, new) \in Lines
BY DEF With, Lines

LEMMA NoLinesIs ==
    NoLines \in Lines /\ NoLines.addr = None /\ NoLines.secret = None /\ DOMAIN NoLines = {"addr", "secret"}
BY DEF NoLines, Lines

LEMMA IdleSaverIs == IdleSaver \in Saver /\ IdleSaver.at = "idle"
BY NoLinesIs DEF IdleSaver, Saver

\* What two savers, or a truncated file, disturb are lines.
LEMMA DisturbedIs ==
    /\ Missed \in SUBSET DOMAIN NoLines /\ "secret" \in DOMAIN NoLines
    /\ \A s \in Savers : Overlap(s) \in SUBSET DOMAIN NoLines
    /\ \A gone \in SUBSET Savers : LeftBy(gone) \in SUBSET DOMAIN NoLines
BY NoLinesIs DEF Missed, Overlap, LeftBy

LEMMA OneLineIs ==
    /\ \A a \in Addrs : [NoLines EXCEPT !.addr = a] \in Lines
    /\ \A x \in Secrets : [NoLines EXCEPT !.secret = x] \in Lines
BY DEF NoLines, Lines

LEMMA AddressIs == ASSUME NEW l \in Lines PROVE Address(l) \in Addrs /\ Address(l) # None
BY CommandLineAssumption DEF Address, Lines

\* A process that ends disturbs no other one.
LEMMA DiesIs ==
    ASSUME TypeOK, NEW p \in Panels, Dies(p)
    PROVE  /\ panel' \in [Panels -> Panel] /\ saver' \in [Savers -> Saver] /\ disturbed' \in SUBSET DOMAIN NoLines
           /\ panel'[p] = [panel[p] EXCEPT !.at = "gone"]
           /\ \A q \in Panels : q # p => panel'[q] = panel[q]
           /\ \A s \in Savers : saver'[s].at # "idle" => saver'[s] = saver[s] /\ saver[s].of # p
           /\ \A s \in Savers : saver[s].of # p => saver'[s] = saver[s]
<1>1. panel \in [Panels -> Panel] /\ saver \in [Savers -> Saver]
  BY DEF TypeOK
<1>2. panel' = [panel EXCEPT ![p] = [panel[p] EXCEPT !.at = "gone"]]
  BY <1>1 DEF Dies
<1>3. [panel[p] EXCEPT !.at = "gone"] \in Panel
  BY <1>1 DEF Panel
<1>4. \A s \in Savers : saver'[s] = IF saver[s].of = p THEN IdleSaver ELSE saver[s]
  BY DEF Dies
<1>5. saver' \in [Savers -> Saver]
  BY <1>1, IdleSaverIs DEF Dies
<1>6. disturbed' \in SUBSET DOMAIN NoLines
  BY DisturbedIs DEF Dies, TypeOK
<1> QED BY <1>1, <1>2, <1>3, <1>4, <1>5, <1>6, IdleSaverIs

\* What the first half of a save does.
LEMMA ReadsIs ==
    ASSUME TypeOK, NEW s \in Savers, NEW p \in Panels \cup {Front}, NEW new \in Lines, Reads(s, p, new)
    PROVE  /\ saver' \in [Savers -> Saver] /\ disturbed' \in SUBSET DOMAIN NoLines
           /\ saver'[s] = [at |-> "read", of |-> p, lines |-> With(file, new)]
           /\ \A t \in Savers : t # s => saver'[t] = saver[t]
<1>1. [at |-> "read", of |-> p, lines |-> With(file, new)] \in Saver
  BY WithIs DEF Saver, TypeOK
<1>2. disturbed' \in SUBSET DOMAIN NoLines
  BY DisturbedIs DEF Reads, TypeOK
<1> QED BY <1>1, <1>2 DEF Reads, TypeOK

LEMMA SaverEnds ==
    ASSUME TypeOK, NEW s \in Savers, saver' = [saver EXCEPT ![s] = IdleSaver]
    PROVE  /\ saver' \in [Savers -> Saver] /\ saver'[s].at = "idle"
           /\ \A t \in Savers : t # s => saver'[t] = saver[t]
BY IdleSaverIs DEF TypeOK

\* A saver goes on.
LEMMA SaverAt ==
    ASSUME TypeOK, NEW s \in Savers, NEW a \in {"read", "truncated"},
           saver' = [saver EXCEPT ![s].at = a]
    PROVE  /\ saver' \in [Savers -> Saver] /\ saver'[s] = [saver[s] EXCEPT !.at = a]
           /\ saver'[s].at = a /\ saver'[s].of = saver[s].of /\ saver'[s].lines = saver[s].lines
           /\ \A t \in Savers : t # s => saver'[t] = saver[t]
<1>1. saver[s] \in Saver
  BY DEF TypeOK
<1>2. saver' = [saver EXCEPT ![s] = [saver[s] EXCEPT !.at = a]]
  BY DEF TypeOK
<1>3. [saver[s] EXCEPT !.at = a] \in Saver
  BY <1>1 DEF Saver
<1>4. /\ [saver[s] EXCEPT !.at = a].at = a /\ [saver[s] EXCEPT !.at = a].of = saver[s].of
      /\ [saver[s] EXCEPT !.at = a].lines = saver[s].lines
  BY <1>1 DEF Saver
<1> QED BY <1>1, <1>2, <1>3, <1>4 DEF TypeOK

\* A panel goes on, and nothing else of it changes.
LEMMA PanelAt ==
    ASSUME TypeOK, NEW p \in Panels,
           NEW a \in {"none", "nohup", "loading", "made", "saving", "open", "serving", "stopping", "gone"},
           panel' = [panel EXCEPT ![p].at = a]
    PROVE  /\ panel' \in [Panels -> Panel] /\ panel'[p] = [panel[p] EXCEPT !.at = a]
           /\ panel'[p].at = a /\ panel'[p].by = panel[p].by /\ panel'[p].env = panel[p].env
           /\ panel'[p].addr = panel[p].addr /\ panel'[p].secret = panel[p].secret
           /\ panel'[p].due = panel[p].due
           /\ \A q \in Panels : q # p => panel'[q] = panel[q]
<1>1. panel[p] \in Panel
  BY DEF TypeOK
<1>2. panel' = [panel EXCEPT ![p] = [panel[p] EXCEPT !.at = a]]
  BY DEF TypeOK
<1>3. [panel[p] EXCEPT !.at = a] \in Panel
  BY <1>1 DEF Panel
<1>4. /\ [panel[p] EXCEPT !.at = a].at = a /\ [panel[p] EXCEPT !.at = a].by = panel[p].by
      /\ [panel[p] EXCEPT !.at = a].env = panel[p].env /\ [panel[p] EXCEPT !.at = a].addr = panel[p].addr
      /\ [panel[p] EXCEPT !.at = a].secret = panel[p].secret /\ [panel[p] EXCEPT !.at = a].due = panel[p].due
  BY <1>1 DEF Panel
<1> QED BY <1>1, <1>2, <1>3, <1>4 DEF TypeOK

\* What Load makes of a panel.
LEMMA LoadedIs ==
    ASSUME TypeOK, NEW p \in Panels, NEW a \in {"open", "made"}, NEW x \in Secrets,
           panel' = [panel EXCEPT ![p] = [Loaded(p) EXCEPT !.at = a, !.secret = x]]
    PROVE  /\ panel' \in [Panels -> Panel]
           /\ panel'[p].at = a /\ panel'[p].secret = x /\ panel'[p].by = panel[p].by
           /\ panel'[p].env = Environment(p) /\ panel'[p].addr = Address(Environment(p))
           /\ panel'[p].due = IF panel[p].env.addr # None THEN None
                              ELSE IF acked.addr = None THEN Default ELSE acked.addr
           /\ \A q \in Panels : q # p => panel'[q] = panel[q]
<1>1. panel[p] \in Panel /\ panel[p].env \in Lines /\ file \in Lines /\ acked \in Lines
  BY DEF TypeOK, Panel
<1>2. Environment(p) \in Lines
  BY <1>1, WithIs DEF Environment
<1>3. Address(Environment(p)) \in Addrs
  BY <1>2, AddressIs
<1> DEFINE due == IF panel[p].env.addr # None THEN None ELSE IF acked.addr = None THEN Default ELSE acked.addr
<1>4. due \in Addrs \cup {None}
  BY <1>1, CommandLineAssumption DEF Lines
<1> HIDE DEF due
<1> DEFINE new == [panel[p] EXCEPT !.env = Environment(p), !.addr = Address(Environment(p)), !.due = due,
                                    !.at = a, !.secret = x]
<1>5. [Loaded(p) EXCEPT !.at = a, !.secret = x] = new
  BY <1>1 DEF Loaded, due, Panel
<1>6. /\ new \in Panel /\ new.at = a /\ new.secret = x /\ new.by = panel[p].by
      /\ new.env = Environment(p) /\ new.addr = Address(Environment(p)) /\ new.due = due
  BY <1>1, <1>2, <1>3, <1>4 DEF Panel
<1> HIDE DEF new
<1>7. panel' = [panel EXCEPT ![p] = new]
  BY <1>5
<1> QED BY <1>6, <1>7 DEF TypeOK, due

\* A panel whose state changes to what keeps the invariant keeps it of all.
LEMMA PanelSound ==
    ASSUME Sound, NEW p \in Panels, panel' \in [Panels -> Panel], UNCHANGED saver,
           \A q \in Panels : q # p => panel'[q] = panel[q],
           panel'[p].at = "saving" => panel[p].at = "saving",
           panel[p].at = "saving" => panel'[p].at = "saving",
           panel'[p].at \in {"made", "saving", "open", "serving", "stopping"}
               => panel'[p].addr # None /\ panel'[p].secret # None
    PROVE  Configured' /\ OwnSaver'
<1>1. Configured'
  BY DEF Sound, Configured, Owns, First
<1>2. OwnSaver'
  BY DEF Sound, OwnSaver
<1> QED BY <1>1, <1>2

LEMMA DiesSound ==
    ASSUME Sound, NEW p \in Panels, Dies(p) PROVE Configured' /\ OwnSaver'
<1>0. TypeOK
  BY DEF Sound
<1>1. panel'[p].at = "gone"
  <2>1. panel[p] \in Panel /\ panel'[p] = [panel[p] EXCEPT !.at = "gone"]
    BY <1>0, DiesIs DEF TypeOK
  <2> QED BY <2>1 DEF Panel
<1>2. Configured'
  <2>1. \A q \in Panels : q # p => panel'[q] = panel[q]
    BY <1>0, DiesIs
  <2>2. Configured
    BY DEF Sound
  <2> QED BY <1>1, <2>1, <2>2 DEF Configured, Owns, First
<1>3. OwnSaver'
  <2> SUFFICES ASSUME NEW q \in Panels, saver'[q].at # "idle" PROVE saver'[q].of = q /\ panel'[q].at = "saving"
    BY DEF OwnSaver
  <2>1. q \in Savers
    BY DEF Savers
  <2>2. saver'[q] = saver[q] /\ saver[q].of # p
    BY <1>0, <2>1, DiesIs
  <2>3. saver[q].of = q /\ panel[q].at = "saving"
    BY <2>2 DEF Sound, OwnSaver
  <2> QED BY <1>0, <2>2, <2>3, DiesIs
<1> QED BY <1>2, <1>3

\* TypeOK but for its last conjunct, which Configured has.
LEMMA TypeParts ==
    TypeOK /\ Configured <=>
        /\ file \in Lines /\ acked \in Lines
        /\ panel \in [Panels -> Panel] /\ command \in [Commands -> Command] /\ saver \in [Savers -> Saver]
        /\ met \in SUBSET (Commands \X Commands) /\ disturbed \in SUBSET DOMAIN NoLines
        /\ Configured
BY DEF TypeOK, Configured

LEMMA Starting ==
    /\ \A l \in Lines : l.secret # None => Started(l) \in Panel /\ Started(l).addr # None /\ Started(l).secret # None
    /\ NotStarted \in Panel /\ NotStarted.at = "none"
<1>1. NotStarted \in Panel /\ NotStarted.at = "none"
  BY NoLinesIs DEF NotStarted, Panel
<1>2. ASSUME NEW l \in Lines, l.secret # None
      PROVE  Started(l) \in Panel /\ Started(l).addr # None /\ Started(l).secret # None
  <2>1. Address(l) \in Addrs /\ Address(l) # None /\ l.secret \in Secrets
    BY <1>2, AddressIs DEF Lines
  <2>2. /\ Started(l) \in Panel
        /\ Started(l).addr = Address(l) /\ Started(l).secret = l.secret
    BY <1>1, <2>1 DEF Started, Panel
  <2> QED BY <1>2, <2>1, <2>2
<1> QED BY <1>1, <1>2

LEMMA InitSound == Init => Sound
<1> SUFFICES ASSUME Init PROVE Sound
  OBVIOUS
<1>1. PICK running \in SUBSET Panels :
          /\ running # {} => file.secret # None
          /\ panel = [p \in Panels |-> IF p \in running THEN Started(file) ELSE NotStarted]
  BY DEF Init
<1>2. panel \in [Panels -> Panel]
  BY <1>1, Starting DEF Init
<1>3. Configured
  BY <1>1, Starting DEF Init, Configured, Owns, First
<1>4. saver \in [Savers -> Saver] /\ command \in [Commands -> Command]
  BY NoLinesIs, IdleSaverIs DEF Init, Command
<1>5. OwnSaver
  BY IdleSaverIs DEF Init, OwnSaver, Savers
<1> QED BY <1>2, <1>3, <1>4, <1>5, TypeParts DEF Init, Sound

\* A step of a command changes nothing but the commands.
LEMMA CommandAt ==
    ASSUME TypeOK, NEW c \in Commands, NEW a \in {"none", "find", "kill", "look", "spawn", "gone"},
           command' = [command EXCEPT ![c].at = a]
    PROVE  /\ command' \in [Commands -> Command]
           /\ command'[c].at = a /\ command'[c].env = command[c].env
           /\ \A d \in Commands : d # c => command'[d] = command[d]
<1>1. command[c] \in Command
  BY DEF TypeOK
<1>2. command' = [command EXCEPT ![c] = [command[c] EXCEPT !.at = a]]
  BY DEF TypeOK
<1>3. [command[c] EXCEPT !.at = a] \in Command
  BY <1>1 DEF Command
<1>4. [command[c] EXCEPT !.at = a].at = a /\ [command[c] EXCEPT !.at = a].env = command[c].env
  BY <1>1 DEF Command
<1> QED BY <1>1, <1>2, <1>3, <1>4 DEF TypeOK

LEMMA NamedIs == Named \subseteq Processes
BY DEF Named, Processes

LEMMA FindIs ==
    ASSUME TypeOK, NEW c \in Commands, Find(c)
    PROVE  /\ command' \in [Commands -> Command]
           /\ command'[c].at = "kill" /\ command'[c].env = command[c].env
           /\ \A d \in Commands : d # c => command'[d] = command[d]
<1>1. command[c] \in Command
  BY DEF TypeOK
<1> DEFINE new == [command[c] EXCEPT !.at = "kill", !.pids = Named \ {c}]
<1>2. command' = [command EXCEPT ![c] = new]
  BY DEF TypeOK, Find
<1>3. new \in Command /\ new.at = "kill" /\ new.env = command[c].env
  BY <1>1, NamedIs DEF Command
<1> HIDE DEF new
<1> QED BY <1>2, <1>3 DEF TypeOK

\* What the sender of a signal still has to do.
Signalled(c, x) == [command EXCEPT ![c].pids = @ \ {x}]

LEMMA SignalIs ==
    ASSUME TypeOK, NEW c \in Commands, NEW x
    PROVE  /\ Signalled(c, x) \in [Commands -> Command]
           /\ \A d \in Commands : /\ Signalled(c, x)[d].at = command[d].at
                                  /\ Signalled(c, x)[d].env = command[d].env
<1>1. command[c] \in Command
  BY DEF TypeOK
<1> DEFINE new == [command[c] EXCEPT !.pids = @ \ {x}]
<1>2. Signalled(c, x) = [command EXCEPT ![c] = new]
  BY DEF TypeOK, Signalled
<1>3. new \in Command /\ new.at = command[c].at /\ new.env = command[c].env
  BY <1>1 DEF Command
<1> HIDE DEF new
<1> QED BY <1>2, <1>3 DEF TypeOK

LEMMA KillCommandIs ==
    ASSUME TypeOK, NEW c \in Commands, NEW d \in Commands, KillCommand(c, d)
    PROVE  /\ command' \in [Commands -> Command]
           /\ command'[d].at = "gone"
           /\ \A b \in Commands : command'[b].env = command[b].env
           /\ \A b \in Commands : b # d => command'[b].at = command[b].at
<1>1. command' = [Signalled(c, d) EXCEPT ![d].at = "gone"]
  BY DEF KillCommand, Signalled
<1>2. Signalled(c, d)[d] \in Command
  BY SignalIs
<1> DEFINE new == [Signalled(c, d)[d] EXCEPT !.at = "gone"]
<1>3. command' = [Signalled(c, d) EXCEPT ![d] = new]
  BY <1>1, SignalIs
<1>4. new \in Command /\ new.at = "gone" /\ new.env = Signalled(c, d)[d].env
  BY <1>2 DEF Command
<1> HIDE DEF new
<1> QED BY <1>3, <1>4, SignalIs

LEMMA BeginIs ==
    ASSUME TypeOK, NEW c \in Commands, NEW job \in {"start", "stop", "restart"}, NEW env \in Lines,
           Begin(c, job, env)
    PROVE  /\ command' \in [Commands -> Command] /\ met' \in SUBSET (Commands \X Commands)
           /\ command[c].at = "none" /\ command'[c].at \in {"look", "find"} /\ command'[c].env = env
           /\ \A d \in Commands : d # c => command'[d] = command[d]
           /\ \A d \in Commands : d # c /\ UnderWay(d) => <<c, d>> \in met' /\ <<d, c>> \in met'
           /\ met \subseteq met' /\ UNCHANGED <<file, panel, saver, disturbed, acked>>
<1> DEFINE new == [at |-> IF job = "start" THEN "look" ELSE "find", job |-> job, env |-> env, pids |-> {}]
           others == {d \in Commands \ {c} : UnderWay(d)}
<1>1. command' = [command EXCEPT ![c] = new] /\ met' = met \cup ({c} \X others) \cup (others \X {c})
  BY DEF Begin
<1>2. new \in Command /\ new.at \in {"look", "find"} /\ new.env = env
  BY DEF Command
<1> HIDE DEF new
<1>3. command' \in [Commands -> Command] /\ command'[c] = new
      /\ \A d \in Commands : d # c => command'[d] = command[d]
  BY <1>1, <1>2 DEF TypeOK
<1>4. met' \in SUBSET (Commands \X Commands) /\ met \subseteq met'
  BY <1>1 DEF TypeOK
<1>5. \A d \in Commands : d # c /\ UnderWay(d) => <<c, d>> \in met' /\ <<d, c>> \in met'
  BY <1>1
<1> QED BY <1>2, <1>3, <1>4, <1>5 DEF Begin

LEMMA SpawnIs ==
    ASSUME TypeOK, NEW c \in Commands, NEW p \in Panels, Spawn(c, p)
    PROVE  /\ command' \in [Commands -> Command] /\ panel' \in [Panels -> Panel]
           /\ command'[c].at = "gone" /\ command'[c].env = command[c].env
           /\ \A d \in Commands : d # c => command'[d] = command[d]
           /\ panel'[p].at = "nohup" /\ panel'[p].env = command[c].env /\ panel'[p].by = c
           /\ panel'[p].addr = panel[p].addr /\ panel'[p].secret = panel[p].secret
           /\ panel'[p].due = panel[p].due
           /\ \A q \in Panels : q # p => panel'[q] = panel[q]
<1>1. panel[p] \in Panel /\ command[c].env \in Lines
  BY DEF TypeOK, Command
<1> DEFINE new == [panel[p] EXCEPT !.at = "nohup", !.env = command[c].env, !.by = c]
<1>2. panel' = [panel EXCEPT ![p] = new]
  BY DEF TypeOK, Spawn
<1>3. /\ new \in Panel /\ new.at = "nohup" /\ new.env = command[c].env /\ new.by = c
      /\ new.addr = panel[p].addr /\ new.secret = panel[p].secret /\ new.due = panel[p].due
  BY <1>1 DEF Panel
<1> HIDE DEF new
<1>4. /\ panel' \in [Panels -> Panel] /\ panel'[p] = new /\ \A q \in Panels : q # p => panel'[q] = panel[q]
  BY <1>2, <1>3 DEF TypeOK
<1>5. command' = [command EXCEPT ![c].at = "gone"]
  BY DEF Spawn
<1> QED BY <1>3, <1>4, <1>5, CommandAt

\* A save that ends: the lines are in the file, and are answered or used.
LEMMA WriteIs ==
    ASSUME Sound, NEW s \in Savers, Write(s)
    PROVE  /\ file' = saver[s].lines /\ file' \in Lines /\ acked' \in Lines
           /\ saver[s].at = "truncated"
           /\ saver' \in [Savers -> Saver] /\ saver'[s].at = "idle"
           /\ \A t \in Savers : t # s => saver'[t] = saver[t]
           /\ panel' \in [Panels -> Panel]
           /\ s \in Panels =>
                  /\ panel[s].at = "saving" /\ panel'[s] = [panel[s] EXCEPT !.at = "open"]
                  /\ \A p \in Panels : p # s => panel'[p] = panel[p]
                  /\ acked' = [addr |-> acked.addr, secret |-> panel[s].secret]
           /\ s \notin Panels => UNCHANGED panel /\ acked' = [addr |-> file'.addr, secret |-> acked.secret]
<1>0. TypeOK
  BY DEF Sound
<1>1. saver[s] \in Saver /\ acked \in Lines
  BY <1>0 DEF TypeOK
<1>2. /\ saver' \in [Savers -> Saver] /\ saver'[s].at = "idle"
      /\ \A t \in Savers : t # s => saver'[t] = saver[t]
  BY <1>0, SaverEnds DEF Write
<1>3. CASE s \in Panels
  <2>1. panel' = [panel EXCEPT ![s].at = "open"] /\ acked' = [acked EXCEPT !.secret = panel[s].secret]
    BY <1>3 DEF Write
  <2>2. panel[s].at = "saving" /\ panel[s].secret \in Secrets
    BY <1>3 DEF Sound, OwnSaver, Write, Configured, First, TypeOK, Panel
  <2>3. acked' = [addr |-> acked.addr, secret |-> panel[s].secret] /\ acked' \in Lines
    BY <1>1, <2>1, <2>2 DEF Lines
  <2> QED BY <1>0, <1>1, <1>2, <1>3, <2>1, <2>2, <2>3, PanelAt DEF Write, Saver
<1>4. CASE s \notin Panels
  <2>1. UNCHANGED panel /\ acked' = [acked EXCEPT !.addr = saver[s].lines.addr] /\ file' = saver[s].lines
    BY <1>4 DEF Write
  <2>2. file' \in Lines
    BY <1>1, <2>1 DEF Saver
  <2>3. acked' = [addr |-> file'.addr, secret |-> acked.secret] /\ acked' \in Lines
    BY <1>1, <2>1, <2>2 DEF Lines
  <2> QED BY <1>0, <1>1, <1>2, <1>4, <2>1, <2>2, <2>3 DEF Write, TypeOK
<1> QED BY <1>3, <1>4

\* A step that leaves the panels and the savers alone.
LEMMA SoundStays ==
    ASSUME Sound, UNCHANGED <<panel, saver>>,
           file' \in Lines, acked' \in Lines, command' \in [Commands -> Command],
           met' \in SUBSET (Commands \X Commands), disturbed' \in SUBSET DOMAIN NoLines
    PROVE  Sound'
<1>1. Configured' /\ OwnSaver'
  BY DEF Sound, Configured, OwnSaver, Owns, First
<1> QED BY <1>1 DEF Sound, TypeOK, Configured

LEMMA SoundStep == Sound /\ [Next]_vars => Sound'
<1> SUFFICES ASSUME Sound, [Next]_vars PROVE Sound'
  OBVIOUS
<1>0. /\ TypeOK /\ file \in Lines /\ acked \in Lines
      /\ panel \in [Panels -> Panel] /\ command \in [Commands -> Command] /\ saver \in [Savers -> Saver]
      /\ met \in SUBSET (Commands \X Commands) /\ disturbed \in SUBSET DOMAIN NoLines
      /\ Configured /\ OwnSaver
  BY TypeParts DEF Sound
<1> DEFINE Goal == /\ file' \in Lines /\ acked' \in Lines
                   /\ panel' \in [Panels -> Panel] /\ command' \in [Commands -> Command]
                   /\ saver' \in [Savers -> Saver]
                   /\ met' \in SUBSET (Commands \X Commands) /\ disturbed' \in SUBSET DOMAIN NoLines
                   /\ Configured' /\ OwnSaver'
<1>a. Goal => Sound'
  BY DEF Sound, TypeOK, Configured, Owns
<1>1. ASSUME NEW c \in Commands, NEW job \in {"start", "stop", "restart"}, RunCommand(c, job) PROVE Sound'
  <2>1. Begin(c, job, NoLines)
    BY <1>1 DEF RunCommand
  <2> QED BY <1>0, <2>1, BeginIs, NoLinesIs, SoundStays
<1>2. ASSUME NEW c \in Commands, NEW p \in Panels, SystemRestart(c, p) PROVE Sound'
  <2>1. Begin(c, "restart", panel[p].env) /\ panel[p].env \in Lines
    BY <1>0, <1>2 DEF SystemRestart, Panel
  <2> QED BY <1>0, <2>1, BeginIs, SoundStays
<1>3. ASSUME NEW c \in Commands, Find(c) PROVE Sound'
  BY <1>0, <1>3, FindIs, SoundStays DEF Find
<1>4. ASSUME NEW c \in Commands, NEW p \in Panels, KillPanel(c, p) PROVE Sound'
  <2>1. command' \in [Commands -> Command]
    BY <1>0, <1>4, SignalIs DEF KillPanel, Signalled
  <2>2. CASE panel[p].at \in {"open", "serving"} /\ panel' = [panel EXCEPT ![p].at = "stopping"]
             /\ UNCHANGED <<saver, disturbed>>
    <3>1. panel[p].addr # None /\ panel[p].secret # None
      BY <1>0, <2>2 DEF Configured, Owns
    <3>2. /\ panel' \in [Panels -> Panel] /\ panel'[p].at = "stopping"
          /\ panel'[p].addr = panel[p].addr /\ panel'[p].secret = panel[p].secret
          /\ \A q \in Panels : q # p => panel'[q] = panel[q]
      BY <1>0, <2>2, PanelAt
    <3>3. Configured' /\ OwnSaver'
      BY <2>2, <3>1, <3>2, PanelSound
    <3> QED BY <1>0, <1>a, <1>4, <2>1, <2>2, <3>2, <3>3 DEF KillPanel
  <2>3. CASE Dies(p)
    BY <1>0, <1>a, <1>4, <2>1, <2>3, DiesIs, DiesSound DEF KillPanel
  <2>4. CASE UNCHANGED <<panel, saver, disturbed>>
    BY <1>0, <1>4, <2>1, <2>4, SoundStays DEF KillPanel
  <2> QED BY <1>4, <2>2, <2>3, <2>4 DEF KillPanel
<1>5. ASSUME NEW c \in Commands, NEW d \in Commands, KillCommand(c, d) PROVE Sound'
  BY <1>0, <1>5, KillCommandIs, SoundStays DEF KillCommand
<1>6. ASSUME NEW c \in Commands, Killed(c) \/ Look(c) PROVE Sound'
  <2>1. PICK a \in {"gone", "look", "spawn"} : command' = [command EXCEPT ![c].at = a]
    BY <1>6 DEF Killed, Look
  <2>2. /\ UNCHANGED <<panel, saver>>
        /\ file' = file /\ met' = met /\ disturbed' = disturbed /\ acked' = acked
    BY <1>6 DEF Killed, Look
  <2>3. command' \in [Commands -> Command]
    BY <1>0, <2>1, CommandAt
  <2> QED BY <1>0, <2>2, <2>3, SoundStays
<1>7. ASSUME NEW c \in Commands, NEW p \in Panels, Spawn(c, p) PROVE Sound'
  <2>1. /\ command' \in [Commands -> Command] /\ panel' \in [Panels -> Panel]
        /\ panel'[p].at = "nohup" /\ \A q \in Panels : q # p => panel'[q] = panel[q]
    BY <1>0, <1>7, SpawnIs
  <2>2. panel[p].at = "none" /\ UNCHANGED saver
    BY <1>7 DEF Spawn
  <2>3. Configured' /\ OwnSaver'
    BY <2>1, <2>2, PanelSound
  <2> QED BY <1>0, <1>a, <1>7, <2>1, <2>3 DEF Spawn
<1>8. ASSUME NEW h \in Handlers, NEW p \in Panels, NEW a \in Addrs, SavePort(h, p, a) PROVE Sound'
  <2>1. h \in Savers /\ h \notin Panels
    BY CommandLineAssumption DEF Savers
  <2>2. [NoLines EXCEPT !.addr = a] \in Lines
    BY OneLineIs
  <2>3. saver' \in [Savers -> Saver] /\ disturbed' \in SUBSET DOMAIN NoLines /\ \A t \in Savers : t # h => saver'[t] = saver[t]
    BY <1>0, <1>8, <2>1, <2>2, ReadsIs DEF SavePort
  <2>4. Configured' /\ OwnSaver'
    BY <1>0, <1>8, <2>1, <2>3 DEF SavePort, Configured, OwnSaver, Owns, First, Savers
  <2> QED BY <1>0, <1>a, <1>8, <2>3, <2>4 DEF SavePort
<1>9. CASE PanelSetup
  <2>1. Front \in Savers /\ Front \notin Panels
    BY CommandLineAssumption DEF Savers
  <2>2. [NoLines EXCEPT !.addr = Loopback] \in Lines
    BY OneLineIs, CommandLineAssumption
  <2>3. saver' \in [Savers -> Saver] /\ disturbed' \in SUBSET DOMAIN NoLines /\ \A t \in Savers : t # Front => saver'[t] = saver[t]
    BY <1>0, <1>9, <2>1, <2>2, ReadsIs DEF PanelSetup
  <2>4. Configured' /\ OwnSaver'
    BY <1>0, <1>9, <2>1, <2>3 DEF PanelSetup, Configured, OwnSaver, Owns, First, Savers
  <2> QED BY <1>0, <1>a, <1>9, <2>3, <2>4 DEF PanelSetup
<1>10. ASSUME NEW s \in Savers, Truncate(s) PROVE Sound'
  <2>1. /\ saver' \in [Savers -> Saver] /\ saver'[s].of = saver[s].of /\ saver[s].at # "idle"
        /\ \A t \in Savers : t # s => saver'[t] = saver[t]
    BY <1>0, <1>10, SaverAt DEF Truncate
  <2>2. Configured' /\ OwnSaver'
    BY <1>0, <1>10, <2>1 DEF Truncate, Configured, OwnSaver, Owns, First, Savers
  <2> QED BY <1>0, <1>a, <1>10, <2>1, <2>2, NoLinesIs DEF Truncate
<1>11. ASSUME NEW s \in Savers, Write(s) PROVE Sound'
  <2>1. CASE s \in Panels
    <3>1. /\ panel[s] \in Panel /\ panel[s].at = "saving"
          /\ panel'[s] = [panel[s] EXCEPT !.at = "open"]
          /\ \A q \in Panels : q # s => panel'[q] = panel[q]
      BY <1>0, <1>11, <2>1, WriteIs
    <3>2. panel'[s].at = "open" /\ panel'[s].addr = panel[s].addr /\ panel'[s].secret = panel[s].secret
      BY <3>1 DEF Panel
    <3>3. Configured'
      <4>1. Configured
        BY DEF Sound
      <4>2. \A q \in Panels : q # s => panel'[q] = panel[q]
        BY <3>1
      <4>3. panel'[s].addr # None /\ panel'[s].secret # None
        BY <2>1, <3>1, <3>2, <4>1 DEF Configured, First
      <4> QED BY <4>1, <4>2, <4>3 DEF Configured, Owns, First
    <3>4. saver'[s].at = "idle" /\ \A t \in Savers : t # s => saver'[t] = saver[t]
      BY <1>11, WriteIs
    <3>5. OwnSaver'
      BY <1>0, <2>1, <3>1, <3>4 DEF OwnSaver, Savers
    <3>6. /\ file' \in Lines /\ acked' \in Lines
          /\ saver' \in [Savers -> Saver] /\ panel' \in [Panels -> Panel]
      BY <1>11, WriteIs
    <3> QED BY <1>0, <1>a, <1>11, <3>3, <3>5, <3>6 DEF Write
  <2>2. CASE s \notin Panels
    <3>1. /\ file' \in Lines /\ acked' \in Lines /\ saver' \in [Savers -> Saver] /\ UNCHANGED panel
          /\ saver'[s].at = "idle" /\ \A t \in Savers : t # s => saver'[t] = saver[t]
      BY <1>11, <2>2, WriteIs
    <3>2. Configured' /\ OwnSaver'
      BY <1>0, <2>2, <3>1 DEF Configured, OwnSaver, Owns, First, Savers
    <3> QED BY <1>0, <1>a, <1>11, <3>1, <3>2 DEF Write
  <2> QED BY <2>1, <2>2
<1>12. ASSUME NEW s \in Savers, SaveFails(s) PROVE Sound'
  <2>1. saver' \in [Savers -> Saver] /\ \A t \in Savers : t # s => saver'[t] = saver[t]
    BY <1>0, <1>12, SaverEnds DEF SaveFails
  <2>2. Configured' /\ OwnSaver'
    BY <1>0, <1>12, <2>1 DEF SaveFails, Configured, OwnSaver, Owns, First, Savers
  <2>3. disturbed' \in SUBSET DOMAIN NoLines
    BY <1>0, <1>12, DisturbedIs DEF SaveFails
  <2> QED BY <1>0, <1>a, <1>12, <2>1, <2>2, <2>3 DEF SaveFails
<1>13. ASSUME NEW p \in Panels, Exec(p) PROVE Sound'
  <2>1. Configured' /\ OwnSaver'
    BY <1>0, <1>13, PanelAt, PanelSound DEF Exec
  <2> QED BY <1>0, <1>a, <1>13, <2>1, PanelAt DEF Exec
<1>14. ASSUME NEW p \in Panels, Load(p) PROVE Sound'
  <2>1. Environment(p) \in Lines
    BY <1>0, WithIs DEF Environment, Panel
  <2>2. Environment(p).secret \in Secrets /\ Environment(p).secret # None
    BY <1>14, <2>1 DEF Load, Lines
  <2>3. Address(Environment(p)) # None
    BY <2>1, AddressIs
  <2>4. /\ panel' \in [Panels -> Panel] /\ panel'[p].at = "open"
        /\ panel'[p].secret = Environment(p).secret /\ panel'[p].addr = Address(Environment(p))
        /\ \A q \in Panels : q # p => panel'[q] = panel[q]
    BY <1>0, <1>14, <2>2, LoadedIs DEF Load
  <2>5. Configured' /\ OwnSaver'
    BY <1>0, <1>14, <2>2, <2>3, <2>4, PanelSound DEF Load
  <2>6. disturbed' \in SUBSET DOMAIN NoLines
    BY <1>0, <1>14, DisturbedIs DEF Load
  <2> QED BY <1>0, <1>a, <1>14, <2>4, <2>5, <2>6 DEF Load
<1>15. ASSUME NEW p \in Panels, LoadFirst(p) PROVE Sound'
  <2>1. PICK x \in Secrets : panel' = [panel EXCEPT ![p] = [Loaded(p) EXCEPT !.at = "made", !.secret = x]]
    BY <1>15 DEF LoadFirst
  <2>2. x # None /\ Address(Environment(p)) # None
    BY <1>0, WithIs, AddressIs, CommandLineAssumption DEF Environment, Panel
  <2>3. /\ panel' \in [Panels -> Panel] /\ panel'[p].at = "made"
        /\ panel'[p].secret = x /\ panel'[p].addr = Address(Environment(p))
        /\ \A q \in Panels : q # p => panel'[q] = panel[q]
    BY <1>0, <2>1, LoadedIs
  <2>4. panel[p].at = "loading" /\ UNCHANGED saver
    BY <1>15 DEF LoadFirst
  <2>5. Configured' /\ OwnSaver'
    BY <2>2, <2>3, <2>4, PanelSound
  <2>6. disturbed' \in SUBSET DOMAIN NoLines
    BY <1>0, <1>15, DisturbedIs DEF LoadFirst
  <2> QED BY <1>0, <1>a, <1>15, <2>3, <2>5, <2>6 DEF LoadFirst
<1>16. ASSUME NEW p \in Panels, ReadAgain(p) PROVE Sound'
  <2>1. panel[p].at = "made" /\ panel' = [panel EXCEPT ![p].at = "saving"]
    BY <1>16 DEF ReadAgain
  <2>2. /\ panel' \in [Panels -> Panel] /\ panel'[p].at = "saving"
        /\ panel'[p].addr = panel[p].addr /\ panel'[p].secret = panel[p].secret
        /\ \A q \in Panels : q # p => panel'[q] = panel[q]
    BY <1>0, <2>1, PanelAt
  <2>3. panel[p].secret \in Secrets /\ panel[p].addr # None /\ panel[p].secret # None
    BY <1>0, <2>1 DEF Configured, First, Panel
  <2>4. p \in Savers /\ [NoLines EXCEPT !.secret = panel[p].secret] \in Lines
    BY <2>3, OneLineIs DEF Savers
  <2>5. /\ saver' \in [Savers -> Saver] /\ disturbed' \in SUBSET DOMAIN NoLines
        /\ saver'[p] = [at |-> "read", of |-> p,
                        lines |-> With(file, [NoLines EXCEPT !.secret = panel[p].secret])]
        /\ \A t \in Savers : t # p => saver'[t] = saver[t]
    BY <1>0, <1>16, <2>4, ReadsIs DEF ReadAgain
  <2>6. Configured'
    BY <1>0, <2>2, <2>3 DEF Configured, Owns, First
  <2>7. OwnSaver'
    BY <1>0, <2>2, <2>5 DEF OwnSaver, Savers
  <2> QED BY <1>0, <1>a, <1>16, <2>2, <2>5, <2>6, <2>7 DEF ReadAgain
<1>17. ASSUME NEW p \in Panels, Serve(p) PROVE Sound'
  <2>1. panel[p].addr # None /\ panel[p].secret # None
    BY <1>0, <1>17 DEF Serve, Configured, Owns
  <2>2. Configured' /\ OwnSaver'
    BY <1>0, <1>17, <2>1, PanelAt, PanelSound DEF Serve
  <2> QED BY <1>0, <1>a, <1>17, <2>2, PanelAt DEF Serve
<1>18. ASSUME NEW p \in Panels, ServeFails(p) \/ Ends(p) PROVE Sound'
  <2>1. Dies(p) /\ UNCHANGED <<file, command, met, acked>>
    BY <1>18 DEF ServeFails, Ends
  <2> QED BY <1>0, <1>a, <2>1, DiesIs, DiesSound
<1>19. CASE UNCHANGED vars
  BY <1>0, <1>19, SoundStays DEF vars
<1> QED BY <1>1, <1>2, <1>3, <1>4, <1>5, <1>6, <1>7, <1>8, <1>9, <1>10, <1>11, <1>12, <1>13, <1>14,
           <1>15, <1>16, <1>17, <1>18, <1>19 DEF Next

THEOREM CommandLineSound == Spec => []Sound
BY InitSound, SoundStep, PTL DEF Spec

\* Every reachable state is well typed, for any number of commands, panels and savers:
\* a panel that has opened the store has an address and a secret.
THEOREM CommandLineTypeCorrect == Spec => []TypeOK
<1>1. Sound => TypeOK
  BY DEF Sound
<1> QED BY <1>1, CommandLineSound, PTL

-----------------------------------------------------------------------------
(* Owners *)

\* What a step in which nobody begins, comes to spawn or spawns leaves.
LEMMA OwnersStay ==
    ASSUME TypeOK, Owners, met' = met,
           \A p \in Panels : /\ panel'[p].by = panel[p].by
                             /\ panel'[p].at = "nohup" => panel[p].at = "nohup"
                             /\ Alive(p)' => Alive(p),
           \A c \in Commands : /\ command'[c].at = "spawn" => command[c].at = "spawn"
                               /\ command[c].at = "gone" => command'[c].at = "gone"
                               /\ command'[c].at \notin {"none", "gone"} => command[c].at \notin {"none", "gone"}
    PROVE  Owners'
<1>1. \A p \in Panels : panel[p].by \in Commands \cup {None}
  BY DEF TypeOK, Panel
<1>2. Starters'
  BY <1>1 DEF Owners, Starters
<1>3. \A c \in Commands : UnderWay(c)' => UnderWay(c)
  BY DEF UnderWay
<1>4. CommandsMet'
  BY <1>3 DEF Owners, CommandsMet
<1>5. SpawnersMet'
  BY DEF Owners, SpawnersMet
<1>6. OwnersMet'
  BY DEF Owners, OwnersMet
<1> QED BY <1>2, <1>4, <1>5, <1>6 DEF Owners

\* Steps that leave the commands alone, and start no panel.
LEMMA OwnersLive ==
    ASSUME TypeOK, Owners, UNCHANGED <<command, met>>,
           \A p \in Panels : /\ panel'[p].by = panel[p].by
                             /\ panel'[p].at = "nohup" => panel[p].at = "nohup"
                             /\ panel'[p].at \in {"nohup", "loading", "made", "saving", "open", "serving", "stopping"}
                                => panel[p].at \in {"nohup", "loading", "made", "saving", "open", "serving", "stopping"}
    PROVE  Owners'
<1>1. \A p \in Panels : Alive(p)' => Alive(p)
  BY DEF Alive, Runs, First, Owns
<1> QED BY <1>1, OwnersStay

LEMMA DiesFields ==
    ASSUME TypeOK, NEW p \in Panels, Dies(p)
    PROVE  /\ panel'[p].at = "gone" /\ panel'[p].by = panel[p].by /\ panel'[p].env = panel[p].env
           /\ panel'[p].addr = panel[p].addr /\ panel'[p].secret = panel[p].secret
           /\ panel'[p].due = panel[p].due
<1>1. panel[p] \in Panel /\ panel'[p] = [panel[p] EXCEPT !.at = "gone"]
  BY DiesIs DEF TypeOK
<1> QED BY <1>1 DEF Panel

LEMMA InitOwners == Init => Owners
<1> SUFFICES ASSUME Init PROVE Owners
  OBVIOUS
<1>1. PICK running \in SUBSET Panels :
          /\ \A p, q \in running : p = q
          /\ panel = [p \in Panels |-> IF p \in running THEN Started(file) ELSE NotStarted]
  BY DEF Init
<1>2. Started(file).by = None /\ Started(file).at = "serving" /\ NotStarted.by = None /\ NotStarted.at = "none"
  BY DEF Started, NotStarted
<1>3. \A p \in Panels : panel[p].by = None /\ panel[p].at # "nohup" /\ (Alive(p) => p \in running)
  BY <1>1, <1>2 DEF Alive, Runs, First, Owns
<1>4. \A c \in Commands : command[c].at = "none"
  BY DEF Init
<1> QED BY <1>1, <1>3, <1>4 DEF Owners, Starters, CommandsMet, SpawnersMet, OwnersMet, UnderWay

LEMMA BeginOwners ==
    ASSUME TypeOK, Owners, NEW c \in Commands, NEW job \in {"start", "stop", "restart"}, NEW env \in Lines,
           Begin(c, job, env)
    PROVE  Owners'
<1>1. /\ command[c].at = "none" /\ command'[c].at \in {"look", "find"} /\ UNCHANGED panel /\ met \subseteq met'
      /\ \A d \in Commands : d # c => command'[d] = command[d]
      /\ \A d \in Commands : d # c /\ UnderWay(d) => <<c, d>> \in met' /\ <<d, c>> \in met'
  BY BeginIs
<1>2. \A p \in Panels : panel[p].by \in Commands \cup {None}
  BY DEF TypeOK, Panel
<1>3. Starters'
  BY <1>1, <1>2 DEF Owners, Starters
<1>4. \A d \in Commands : d # c /\ UnderWay(d)' => UnderWay(d)
  BY <1>1 DEF UnderWay
<1>5. CommandsMet'
  <2> SUFFICES ASSUME NEW d \in Commands, NEW e \in Commands, d # e, UnderWay(d)', UnderWay(e)'
               PROVE  <<d, e>> \in met'
    BY DEF CommandsMet
  <2>1. CASE d # c /\ e # c
    BY <1>1, <1>4, <2>1 DEF Owners, CommandsMet
  <2>2. CASE d = c
    BY <1>1, <1>4, <2>2
  <2>3. CASE e = c
    BY <1>1, <1>4, <2>3
  <2> QED BY <2>1, <2>2, <2>3
<1>6. \A p \in Panels : Alive(p)' => Alive(p)
  BY <1>1 DEF Alive, Runs, First, Owns
<1>7. SpawnersMet'
  BY <1>1, <1>6 DEF Owners, SpawnersMet
<1>8. OwnersMet'
  BY <1>1, <1>6 DEF Owners, OwnersMet
<1> QED BY <1>3, <1>5, <1>7, <1>8 DEF Owners

\* Who finds nobody of that name has met the starter of a panel that has none yet.
LEMMA LookOwners ==
    ASSUME TypeOK, Owners, NEW c \in Commands, Look(c)
    PROVE  Owners'
<1>1. /\ command[c].at = "look" /\ command'[c].at = (IF Named \ {c} = {} THEN "spawn" ELSE "gone")
      /\ \A d \in Commands : d # c => command'[d] = command[d]
      /\ UNCHANGED panel /\ met' = met
  <2>1. PICK a \in {"spawn", "gone"} : a = (IF Named \ {c} = {} THEN "spawn" ELSE "gone")
    OBVIOUS
  <2>2. command' = [command EXCEPT ![c].at = a]
    BY <2>1 DEF Look
  <2> QED BY <2>1, <2>2, CommandAt DEF Look
<1>2. CASE Named \ {c} # {}
  BY <1>1, <1>2, OwnersStay DEF Alive, Runs, First, Owns
<1>3. CASE Named \ {c} = {}
  <2>1. \A p \in Panels : panel[p].by \in Commands \cup {None}
    BY DEF TypeOK, Panel
  <2>2. \A p \in Panels : Alive(p)' => Alive(p)
    BY <1>1 DEF Alive, Runs, First, Owns
  <2>3. Starters'
    BY <1>1, <2>1 DEF Owners, Starters
  <2>4. CommandsMet'
    <3>1. \A d \in Commands : UnderWay(d)' => UnderWay(d)
      BY <1>1 DEF UnderWay
    <3> QED BY <1>1, <3>1 DEF Owners, CommandsMet
  <2>5. OwnersMet'
    BY <1>1, <2>2 DEF Owners, OwnersMet
  <2>6. ASSUME NEW p \in Panels, Alive(p) PROVE <<panel[p].by, c>> \in met /\ <<c, panel[p].by>> \in met
    <3>1. ~Runs(p)
      BY <1>3, CommandLineAssumption DEF Named
    <3>2. panel[p].at = "nohup"
      BY <2>6, <3>1 DEF Alive
    <3>3. panel[p].by \in Commands /\ command[panel[p].by].at = "gone"
      BY <2>1, <3>2 DEF Owners, Starters
    <3>4. UnderWay(panel[p].by) /\ UnderWay(c) /\ panel[p].by # c
      BY <1>1, <3>2, <3>3 DEF UnderWay
    <3> QED BY <3>3, <3>4 DEF Owners, CommandsMet
  <2>7. SpawnersMet'
    BY <1>1, <2>2, <2>6 DEF Owners, SpawnersMet
  <2> QED BY <2>3, <2>4, <2>5, <2>7 DEF Owners
<1> QED BY <1>2, <1>3

LEMMA SpawnOwners ==
    ASSUME TypeOK, Owners, NEW c \in Commands, NEW p \in Panels, Spawn(c, p)
    PROVE  Owners'
<1>0. command[c].at = "spawn" /\ panel[p].at = "none" /\ met' = met
  BY DEF Spawn
<1>1. /\ command'[c].at = "gone" /\ \A d \in Commands : d # c => command'[d] = command[d]
      /\ panel'[p].at = "nohup" /\ panel'[p].by = c /\ \A q \in Panels : q # p => panel'[q] = panel[q]
  BY SpawnIs
<1>2. c # None /\ \A q \in Panels : panel[q].by \in Commands \cup {None}
  BY CommandLineAssumption DEF TypeOK, Panel, Processes
<1>3. Starters'
  BY <1>0, <1>1, <1>2 DEF Owners, Starters
<1>4. \A q \in Panels : q # p /\ Alive(q)' => Alive(q)
  BY <1>0, <1>1 DEF Alive, Runs, First, Owns
<1>5. CommandsMet'
  <2>1. \A d \in Commands : UnderWay(d)' => UnderWay(d)
    BY <1>0, <1>1 DEF UnderWay
  <2> QED BY <1>0, <1>1, <2>1 DEF Owners, CommandsMet
<1>6. SpawnersMet'
  <2> SUFFICES ASSUME NEW q \in Panels, NEW d \in Commands, Alive(q)', command'[d].at = "spawn"
               PROVE  <<panel'[q].by, d>> \in met /\ <<d, panel'[q].by>> \in met
    BY <1>0, <1>1 DEF SpawnersMet
  <2>1. d # c /\ command[d].at = "spawn"
    BY <1>1
  <2>2. CASE q = p
    <3>1. UnderWay(c) /\ UnderWay(d)
      BY <1>0, <1>1, <2>1 DEF UnderWay
    <3> QED BY <1>0, <1>1, <2>1, <2>2, <3>1 DEF Owners, CommandsMet
  <2>3. CASE q # p
    BY <1>0, <1>1, <1>4, <2>1, <2>3 DEF Owners, SpawnersMet
  <2> QED BY <2>2, <2>3
<1>7. OwnersMet'
  <2> SUFFICES ASSUME NEW q \in Panels, NEW r \in Panels, q # r, Alive(q)', Alive(r)'
               PROVE  <<panel'[q].by, panel'[r].by>> \in met
    BY <1>0, <1>1 DEF OwnersMet
  <2>1. CASE q = p
    BY <1>0, <1>1, <1>4, <2>1 DEF Owners, SpawnersMet
  <2>2. CASE r = p
    BY <1>0, <1>1, <1>4, <2>2 DEF Owners, SpawnersMet
  <2>3. CASE q # p /\ r # p
    BY <1>0, <1>1, <1>4, <2>3 DEF Owners, OwnersMet
  <2> QED BY <2>1, <2>2, <2>3
<1> QED BY <1>3, <1>5, <1>6, <1>7 DEF Owners

LEMMA OwnersStep == Sound /\ Owners /\ [Next]_vars => Owners'
<1> SUFFICES ASSUME Sound, Owners, [Next]_vars PROVE Owners'
  OBVIOUS
<1>0. TypeOK /\ panel \in [Panels -> Panel] /\ command \in [Commands -> Command]
  BY DEF Sound, TypeOK
<1>1. ASSUME NEW c \in Commands, NEW job \in {"start", "stop", "restart"}, RunCommand(c, job) PROVE Owners'
  BY <1>0, <1>1, BeginOwners, NoLinesIs DEF RunCommand
<1>2. ASSUME NEW c \in Commands, NEW p \in Panels, SystemRestart(c, p) PROVE Owners'
  <2>1. Begin(c, "restart", panel[p].env) /\ panel[p].env \in Lines
    BY <1>0, <1>2 DEF SystemRestart, Panel
  <2> QED BY <1>0, <2>1, BeginOwners
<1>3. ASSUME NEW c \in Commands, Find(c) PROVE Owners'
  <2>1. command'[c].at = "kill" /\ command[c].at = "find" /\ \A d \in Commands : d # c => command'[d] = command[d]
    BY <1>0, <1>3, FindIs DEF Find
  <2>2. UNCHANGED panel /\ met' = met
    BY <1>3 DEF Find
  <2> QED BY <1>0, <2>1, <2>2, OwnersStay DEF Alive, Runs, First, Owns
<1>4. ASSUME NEW c \in Commands, NEW p \in Panels, KillPanel(c, p) PROVE Owners'
  <2>1. met' = met /\ \A d \in Commands : command'[d].at = command[d].at
    BY <1>0, <1>4, SignalIs DEF KillPanel, Signalled
  <2>2. CASE panel[p].at \in {"open", "serving"} /\ panel' = [panel EXCEPT ![p].at = "stopping"]
    <3>1. /\ panel'[p].at = "stopping" /\ panel'[p].by = panel[p].by
          /\ \A q \in Panels : q # p => panel'[q] = panel[q]
      BY <1>0, <2>2, PanelAt
    <3>2. \A q \in Panels : Alive(q)' => Alive(q)
      BY <2>2, <3>1 DEF Alive, Runs, First, Owns
    <3> QED BY <1>0, <2>1, <2>2, <3>1, <3>2, OwnersStay
  <2>3. CASE Dies(p)
    <3>1. /\ panel'[p].at = "gone" /\ panel'[p].by = panel[p].by
          /\ \A q \in Panels : q # p => panel'[q] = panel[q]
      BY <1>0, <2>3, DiesIs, DiesFields
    <3>2. \A q \in Panels : Alive(q)' => Alive(q)
      BY <3>1 DEF Alive, Runs, First, Owns
    <3> QED BY <1>0, <2>1, <3>1, <3>2, OwnersStay
  <2>4. CASE UNCHANGED panel
    <3>1. \A q \in Panels : Alive(q)' => Alive(q)
      BY <2>4 DEF Alive, Runs, First, Owns
    <3> QED BY <1>0, <2>1, <2>4, <3>1, OwnersStay
  <2> QED BY <1>4, <2>2, <2>3, <2>4 DEF KillPanel
<1>5. ASSUME NEW c \in Commands, NEW d \in Commands, KillCommand(c, d) PROVE Owners'
  <2>1. command'[d].at = "gone" /\ \A b \in Commands : b # d => command'[b].at = command[b].at
    BY <1>0, <1>5, KillCommandIs
  <2>2. UNCHANGED panel /\ met' = met
    BY <1>5 DEF KillCommand
  <2> QED BY <1>0, <2>1, <2>2, OwnersStay DEF Alive, Runs, First, Owns
<1>6. ASSUME NEW c \in Commands, Killed(c) PROVE Owners'
  <2>1. PICK a \in {"gone", "look"} : command' = [command EXCEPT ![c].at = a]
    BY <1>6 DEF Killed
  <2>2. command'[c].at = a /\ \A d \in Commands : d # c => command'[d] = command[d]
    BY <1>0, <2>1, CommandAt
  <2>3. command[c].at = "kill" /\ UNCHANGED panel /\ met' = met
    BY <1>6 DEF Killed
  <2> QED BY <1>0, <2>2, <2>3, OwnersStay DEF Alive, Runs, First, Owns
<1>7. ASSUME NEW c \in Commands, Look(c) PROVE Owners'
  BY <1>0, <1>7, LookOwners
<1>8. ASSUME NEW c \in Commands, NEW p \in Panels, Spawn(c, p) PROVE Owners'
  BY <1>0, <1>8, SpawnOwners
<1>9. CASE UNCHANGED <<panel, command, met>>
  BY <1>0, <1>9, OwnersLive
<1>10. ASSUME NEW s \in Savers, Write(s) PROVE Owners'
  <2>1. UNCHANGED <<command, met>>
    BY <1>10 DEF Write
  <2>2. CASE s \in Panels
    <3>1. /\ panel[s] \in Panel /\ panel[s].at = "saving" /\ panel'[s] = [panel[s] EXCEPT !.at = "open"]
          /\ \A q \in Panels : q # s => panel'[q] = panel[q]
      BY <1>0, <1>10, <2>2, WriteIs
    <3>2. panel'[s].at = "open" /\ panel'[s].by = panel[s].by
      BY <3>1 DEF Panel
    <3> QED BY <1>0, <2>1, <3>1, <3>2, OwnersLive
  <2>3. CASE s \notin Panels
    <3>1. UNCHANGED panel
      BY <1>10, <2>3, WriteIs
    <3> QED BY <1>0, <2>1, <3>1, OwnersLive
  <2> QED BY <2>2, <2>3
<1>11. ASSUME NEW p \in Panels, Exec(p) PROVE Owners'
  <2>1. /\ panel'[p].at = "loading" /\ panel[p].at = "nohup" /\ panel'[p].by = panel[p].by
        /\ \A q \in Panels : q # p => panel'[q] = panel[q]
    BY <1>0, <1>11, PanelAt DEF Exec
  <2> QED BY <1>0, <1>11, <2>1, OwnersLive DEF Exec
<1>12. ASSUME NEW p \in Panels, Load(p) \/ LoadFirst(p) PROVE Owners'
  <2>1. PICK a \in {"open", "made"}, x \in Secrets :
            panel' = [panel EXCEPT ![p] = [Loaded(p) EXCEPT !.at = a, !.secret = x]]
    <3>1. Environment(p) \in Lines
      BY <1>0, WithIs DEF Environment, Panel, TypeOK
    <3> QED BY <1>12, <3>1 DEF Load, LoadFirst, Lines
  <2>2. /\ panel'[p].at = a /\ panel'[p].by = panel[p].by /\ \A q \in Panels : q # p => panel'[q] = panel[q]
    BY <1>0, <2>1, LoadedIs
  <2>3. panel[p].at = "loading" /\ UNCHANGED <<command, met>>
    BY <1>12 DEF Load, LoadFirst
  <2> QED BY <1>0, <2>2, <2>3, OwnersLive
<1>13. ASSUME NEW p \in Panels, Serve(p) PROVE Owners'
  <2>1. /\ panel'[p].at = "serving" /\ panel[p].at = "open" /\ panel'[p].by = panel[p].by
        /\ \A q \in Panels : q # p => panel'[q] = panel[q]
    BY <1>0, <1>13, PanelAt DEF Serve
  <2> QED BY <1>0, <1>13, <2>1, OwnersLive DEF Serve
<1>14. ASSUME NEW p \in Panels, ServeFails(p) \/ Ends(p) PROVE Owners'
  <2>1. Dies(p) /\ UNCHANGED <<command, met>>
    BY <1>14 DEF ServeFails, Ends
  <2>2. /\ panel'[p].at = "gone" /\ panel'[p].by = panel[p].by
        /\ \A q \in Panels : q # p => panel'[q] = panel[q]
    BY <1>0, <2>1, DiesIs, DiesFields
  <2> QED BY <1>0, <2>1, <2>2, OwnersLive
<1>15. ASSUME NEW h \in Handlers, NEW p \in Panels, NEW a \in Addrs, SavePort(h, p, a) PROVE Owners'
  BY <1>9, <1>15 DEF SavePort
<1>16. CASE PanelSetup
  BY <1>9, <1>16 DEF PanelSetup
<1>17. ASSUME NEW s \in Savers, Truncate(s) \/ SaveFails(s) PROVE Owners'
  BY <1>9, <1>17 DEF Truncate, SaveFails
<1>18. ASSUME NEW p \in Panels, ReadAgain(p) PROVE Owners'
  <2>1. /\ panel'[p].at = "saving" /\ panel[p].at = "made" /\ panel'[p].by = panel[p].by
        /\ \A q \in Panels : q # p => panel'[q] = panel[q]
    BY <1>0, <1>18, PanelAt DEF ReadAgain
  <2> QED BY <1>0, <1>18, <2>1, OwnersLive DEF ReadAgain
<1>19. CASE UNCHANGED vars
  BY <1>9, <1>19 DEF vars
<1> QED BY <1>1, <1>2, <1>3, <1>4, <1>5, <1>6, <1>7, <1>8, <1>10, <1>11, <1>12, <1>13, <1>14,
           <1>15, <1>16, <1>17, <1>18, <1>19 DEF Next

\* One command, or one after another, never starts a second panel beside one that is
\* starting, serving or still stopping (the pgrep of cliStart), however many commands,
\* signals and crashes there are: two panels overlap only if their commands did.
THEOREM OneOwnerCorrect == Spec => []OneOwner
<1>1. Init => Sound /\ Owners
  BY InitSound, InitOwners
<1>2. Sound /\ Owners /\ [Next]_vars => (Sound /\ Owners)'
  BY SoundStep, OwnersStep
<1>3. Owners => OneOwner
  BY DEF Owners, OwnersMet, OneOwner, Alive
<1> QED BY <1>1, <1>2, <1>3, PTL DEF Spec

-----------------------------------------------------------------------------
(* The file *)

\* What is disturbed stays so.
LEMMA StaysDisturbed == [Next]_vars => disturbed \subseteq disturbed'
<1> SUFFICES ASSUME [Next]_vars PROVE disturbed \subseteq disturbed'
  OBVIOUS
<1>1. ASSUME NEW c \in Commands, NEW job \in {"start", "stop", "restart"}, RunCommand(c, job)
      PROVE  disturbed \subseteq disturbed'
  BY <1>1 DEF RunCommand, Begin
<1>2. ASSUME NEW c \in Commands, NEW p \in Panels, SystemRestart(c, p) \/ KillPanel(c, p) \/ Spawn(c, p)
      PROVE  disturbed \subseteq disturbed'
  BY <1>2 DEF SystemRestart, Begin, KillPanel, Dies, Spawn
<1>3. ASSUME NEW c \in Commands, Find(c) \/ Killed(c) \/ Look(c) \/ \E d \in Commands : KillCommand(c, d)
      PROVE  disturbed \subseteq disturbed'
  BY <1>3 DEF Find, Killed, Look, KillCommand
<1>4. ASSUME NEW p \in Panels,
             Exec(p) \/ Load(p) \/ LoadFirst(p) \/ ReadAgain(p) \/ Serve(p) \/ ServeFails(p) \/ Ends(p)
      PROVE  disturbed \subseteq disturbed'
  BY <1>4 DEF Exec, Load, LoadFirst, ReadAgain, Reads, Serve, ServeFails, Ends, Dies
<1>5. ASSUME NEW p \in Panels, NEW h \in Handlers, NEW a \in Addrs, SavePort(h, p, a)
      PROVE  disturbed \subseteq disturbed'
  BY <1>5 DEF SavePort, Reads
<1>6. CASE PanelSetup \/ UNCHANGED vars
  BY <1>6 DEF PanelSetup, Reads, vars
<1>7. ASSUME NEW s \in Savers, Truncate(s) \/ Write(s) \/ SaveFails(s) PROVE disturbed \subseteq disturbed'
  BY <1>7 DEF Truncate, Write, SaveFails
<1> QED BY <1>1, <1>2, <1>3, <1>4, <1>5, <1>6, <1>7 DEF Next

LEMMA InitSaved == Init => SecretIntact /\ AddrIntact
<1> SUFFICES ASSUME Init PROVE SecretIntact /\ AddrIntact
  OBVIOUS
<1>1. PICK running \in SUBSET Panels :
          panel = [p \in Panels |-> IF p \in running THEN Started(file) ELSE NotStarted]
  BY DEF Init
<1>2. /\ Started(file).env = file /\ Started(file).secret = file.secret /\ Started(file).due = None
      /\ Started(file).at = "serving"
      /\ NotStarted.env.secret = None /\ NotStarted.at = "none" /\ NotStarted.due = None
  BY NoLinesIs DEF Started, NotStarted
<1>3. file = acked /\ \A s \in Savers : saver[s].at = "idle"
  BY IdleSaverIs DEF Init
<1>4. FileSecret /\ LinesSecret /\ FirstAlone /\ OneSaver /\ FileAddr /\ LinesAddr
  BY <1>3 DEF FileSecret, LinesSecret, FirstAlone, OneSaver, FileAddr, LinesAddr, Savers
<1>5. CommandsKnow
  BY NoLinesIs DEF Init, CommandsKnow, Known
<1>6. OneFirst /\ PanelsKnow /\ AddressIsDue
  BY <1>1, <1>2, <1>3 DEF OneFirst, First, PanelsKnow, Known, Owns, AddressIsDue
<1> QED BY <1>4, <1>5, <1>6 DEF SecretIntact, AddrIntact

-----------------------------------------------------------------------------
(* The line of the secret *)

\* Steps that leave the file, its savers and what panels have loaded.
LEMMA SecretStays ==
    ASSUME SecretIntact, UNCHANGED <<file, saver, acked>>,
           \A c \in Commands : command'[c].env.secret \in Known,
           \A p \in Panels : /\ panel'[p].env.secret \in Known
                             /\ (Owns(p)' => Owns(p)) /\ (First(p)' => First(p))
                             /\ panel'[p].secret = panel[p].secret
    PROVE  SecretIntact'
<1>1. FileSecret' /\ LinesSecret' /\ FirstAlone'
  BY DEF SecretIntact, FileSecret, LinesSecret, FirstAlone, Truncated
<1>2. OneFirst' /\ CommandsKnow' /\ PanelsKnow'
  BY DEF SecretIntact, OneFirst, CommandsKnow, PanelsKnow, Known
<1> QED BY <1>1, <1>2 DEF SecretIntact

\* A process that ends leaves the file whole, unless it disturbs.
LEMMA SecretDies ==
    ASSUME TypeOK, SecretIntact, NEW p \in Panels, Dies(p), "secret" \notin disturbed',
           UNCHANGED <<file, acked>>, \A c \in Commands : command'[c].env = command[c].env
    PROVE  SecretIntact'
<1>1. /\ \A s \in Savers : saver'[s].at # "idle" => saver'[s] = saver[s] /\ saver[s].of # p
      /\ \A s \in Savers : saver[s].of # p => saver'[s] = saver[s]
  BY DiesIs
<1>2. /\ panel'[p].at = "gone" /\ panel'[p].env = panel[p].env /\ panel'[p].secret = panel[p].secret
      /\ \A q \in Panels : q # p => panel'[q] = panel[q]
  BY DiesIs, DiesFields
<1>3. FileSecret'
  <2>1. \A s \in Savers : saver[s].of = p => saver[s].at # "truncated"
    BY DisturbedIs DEF Dies, LeftBy
  <2>2. Truncated => Truncated'
    BY <1>1, <2>1 DEF Truncated
  <2> QED BY <2>2 DEF SecretIntact, FileSecret
<1>4. LinesSecret' /\ FirstAlone'
  <2>1. \A q \in Panels : panel'[q].secret = panel[q].secret
    BY <1>2
  <2> QED BY <1>1, <2>1 DEF SecretIntact, LinesSecret, FirstAlone
<1>5. \A q \in Panels : (First(q)' => First(q)) /\ (Owns(q)' => Owns(q))
  BY <1>2 DEF First, Owns
<1>6. OneFirst' /\ CommandsKnow' /\ PanelsKnow'
  BY <1>2, <1>5 DEF SecretIntact, OneFirst, CommandsKnow, PanelsKnow, Known
<1> QED BY <1>3, <1>4, <1>6 DEF SecretIntact

\* A save that does not disturb the secret reads it, and is alone if it is a first start's.
LEMMA SecretReads ==
    ASSUME TypeOK, SecretIntact, NEW s \in Savers, NEW p \in Panels \cup {Front}, NEW new \in Lines,
           Reads(s, p, new), "secret" \notin disturbed', UNCHANGED <<file, acked>>
    PROVE  /\ file.secret = acked.secret
           /\ saver'[s] = [at |-> "read", of |-> p, lines |-> With(file, new)]
           /\ \A t \in Savers : t # s => saver'[t] = saver[t]
           /\ FileSecret' /\ FirstAlone'
<1>1. /\ saver'[s] = [at |-> "read", of |-> p, lines |-> With(file, new)]
      /\ \A t \in Savers : t # s => saver'[t] = saver[t]
  BY ReadsIs
<1>2. "secret" \notin Overlap(s)
  BY DEF Reads
<1>3. ~Truncated /\ (Busy # {} => (Busy \cup {s}) \cap Panels = {})
  BY <1>2, DisturbedIs DEF Overlap
<1>4. file.secret = acked.secret
  BY <1>3 DEF SecretIntact, FileSecret
<1>5. FirstAlone'
  <2> SUFFICES ASSUME NEW t \in Savers, NEW u \in Savers, saver'[t].at # "idle", saver'[u].at # "idle",
                      t \in Panels
               PROVE  t = u
    BY DEF FirstAlone
  <2>1. t # s => t \in Busy
    BY <1>1 DEF Busy
  <2>2. u # s => u \in Busy
    BY <1>1 DEF Busy
  <2> QED BY <1>3, <2>1, <2>2
<1> QED BY <1>1, <1>4, <1>5 DEF FileSecret

\* A save of the address, by a handler or by https-front, keeps the line of the secret.
LEMMA AddressSaved ==
    ASSUME TypeOK, SecretIntact, NEW s \in Savers \ Panels, NEW p \in Panels \cup {Front}, NEW a \in Addrs,
           Reads(s, p, [NoLines EXCEPT !.addr = a]), "secret" \notin disturbed',
           UNCHANGED <<file, panel, command, acked>>
    PROVE  SecretIntact'
<1>1. [NoLines EXCEPT !.addr = a] \in Lines /\ [NoLines EXCEPT !.addr = a].secret = None
  BY OneLineIs DEF NoLines
<1>2. /\ file.secret = acked.secret
      /\ saver'[s] = [at |-> "read", of |-> p, lines |-> With(file, [NoLines EXCEPT !.addr = a])]
      /\ \A t \in Savers : t # s => saver'[t] = saver[t]
      /\ FileSecret' /\ FirstAlone'
  BY <1>1, SecretReads
<1>3. With(file, [NoLines EXCEPT !.addr = a]).secret = acked.secret
  BY <1>1, <1>2 DEF With
<1>4. LinesSecret'
  BY <1>2, <1>3 DEF SecretIntact, LinesSecret
<1>5. OneFirst' /\ CommandsKnow' /\ PanelsKnow'
  BY DEF SecretIntact, OneFirst, First, CommandsKnow, PanelsKnow, Known, Owns
<1> QED BY <1>2, <1>4, <1>5 DEF SecretIntact

\* What a Load reads of a whole file.
LEMMA SecretOfEnvironment ==
    ASSUME TypeOK, SecretIntact, ~Truncated, NEW p \in Panels
    PROVE  Environment(p).secret = acked.secret
BY DEF SecretIntact, FileSecret, PanelsKnow, Known, Environment, With

LEMMA SecretStep == Sound /\ SecretIntact /\ [Next]_vars /\ "secret" \notin disturbed' => SecretIntact'
<1> SUFFICES ASSUME Sound, SecretIntact, [Next]_vars, "secret" \notin disturbed' PROVE SecretIntact'
  OBVIOUS
<1>0. /\ TypeOK /\ panel \in [Panels -> Panel] /\ command \in [Commands -> Command]
      /\ file \in Lines /\ acked \in Lines
  BY DEF Sound, TypeOK
<1>a. /\ \A c \in Commands : command[c].env.secret \in Known
      /\ \A p \in Panels : panel[p].env.secret \in Known
  BY DEF SecretIntact, CommandsKnow, PanelsKnow
<1>b. ASSUME UNCHANGED <<file, saver, acked, panel>>, \A c \in Commands : command'[c].env = command[c].env
      PROVE  SecretIntact'
  BY <1>a, <1>b, SecretStays DEF Owns, First
<1>1. ASSUME NEW c \in Commands, NEW env \in Lines, NEW job \in {"start", "stop", "restart"},
             Begin(c, job, env), env.secret \in Known
      PROVE  SecretIntact'
  <2>1. /\ command'[c].env = env /\ \A d \in Commands : d # c => command'[d] = command[d]
        /\ UNCHANGED <<file, saver, acked, panel>>
    BY <1>0, <1>1, BeginIs
  <2> QED BY <1>1, <1>a, <2>1, SecretStays DEF Owns, First
<1>2. ASSUME NEW c \in Commands, NEW job \in {"start", "stop", "restart"}, RunCommand(c, job)
      PROVE  SecretIntact'
  <2>1. NoLines.secret \in Known
    BY NoLinesIs DEF Known
  <2> QED BY <1>1, <1>2, <2>1, NoLinesIs DEF RunCommand
<1>3. ASSUME NEW c \in Commands, NEW p \in Panels, SystemRestart(c, p) PROVE SecretIntact'
  <2>1. Begin(c, "restart", panel[p].env) /\ panel[p].env \in Lines
    BY <1>0, <1>3 DEF SystemRestart, Panel
  <2> QED BY <1>1, <1>a, <2>1
<1>4. ASSUME NEW c \in Commands, Find(c) PROVE SecretIntact'
  <2>1. \A d \in Commands : command'[d].env = command[d].env
    BY <1>0, <1>4, FindIs
  <2> QED BY <1>4, <1>b, <2>1 DEF Find
<1>5. ASSUME NEW c \in Commands, NEW p \in Panels, KillPanel(c, p) PROVE SecretIntact'
  <2>1. UNCHANGED <<file, acked>> /\ \A d \in Commands : command'[d].env = command[d].env
    BY <1>0, <1>5, SignalIs DEF KillPanel, Signalled
  <2>2. CASE /\ panel[p].at \in {"open", "serving"} /\ panel' = [panel EXCEPT ![p].at = "stopping"]
             /\ UNCHANGED <<saver, disturbed>>
    <3>1. /\ panel'[p].at = "stopping" /\ panel'[p].env = panel[p].env /\ panel'[p].secret = panel[p].secret
          /\ \A q \in Panels : q # p => panel'[q] = panel[q]
      BY <1>0, <2>2, PanelAt
    <3>2. \A q \in Panels : (Owns(q)' => Owns(q)) /\ (First(q)' => First(q))
      BY <2>2, <3>1 DEF Owns, First
    <3> QED BY <1>a, <2>1, <2>2, <3>1, <3>2, SecretStays
  <2>3. CASE Dies(p)
    BY <1>0, <2>1, <2>3, SecretDies
  <2>4. CASE UNCHANGED <<panel, saver>>
    BY <1>b, <2>1, <2>4
  <2> QED BY <1>5, <2>2, <2>3, <2>4 DEF KillPanel
<1>6. ASSUME NEW c \in Commands, NEW d \in Commands, KillCommand(c, d) PROVE SecretIntact'
  <2>1. \A b \in Commands : command'[b].env = command[b].env
    BY <1>0, <1>6, KillCommandIs
  <2> QED BY <1>6, <1>b, <2>1 DEF KillCommand
<1>7. ASSUME NEW c \in Commands, Killed(c) \/ Look(c) PROVE SecretIntact'
  <2>1. PICK a \in {"gone", "look", "spawn"} : command' = [command EXCEPT ![c].at = a]
    BY <1>7 DEF Killed, Look
  <2>2. \A b \in Commands : command'[b].env = command[b].env
    BY <1>0, <2>1, CommandAt
  <2>3. UNCHANGED <<file, saver, acked, panel>>
    BY <1>7 DEF Killed, Look
  <2> QED BY <1>b, <2>2, <2>3
<1>8. ASSUME NEW c \in Commands, NEW p \in Panels, Spawn(c, p) PROVE SecretIntact'
  <2>1. /\ command'[c].env = command[c].env /\ \A d \in Commands : d # c => command'[d] = command[d]
        /\ panel'[p].at = "nohup" /\ panel'[p].env = command[c].env /\ panel'[p].secret = panel[p].secret
        /\ \A q \in Panels : q # p => panel'[q] = panel[q]
    BY <1>0, <1>8, SpawnIs
  <2>2. \A q \in Panels : (Owns(q)' => Owns(q)) /\ (First(q)' => First(q))
    BY <2>1 DEF Owns, First
  <2>3. UNCHANGED <<file, saver, acked>>
    BY <1>8 DEF Spawn
  <2> QED BY <1>a, <2>1, <2>2, <2>3, SecretStays
<1>9. ASSUME NEW h \in Handlers, NEW p \in Panels, NEW a \in Addrs, SavePort(h, p, a) PROVE SecretIntact'
  <2>1. h \in Savers \ Panels
    BY CommandLineAssumption DEF Savers
  <2> QED BY <1>0, <1>9, <2>1, AddressSaved DEF SavePort
<1>10. CASE PanelSetup
  <2>1. Front \in Savers \ Panels /\ Loopback \in Addrs
    BY CommandLineAssumption DEF Savers
  <2> QED BY <1>0, <1>10, <2>1, AddressSaved DEF PanelSetup
<1>11. ASSUME NEW s \in Savers, Truncate(s) PROVE SecretIntact'
  <2>1. /\ saver'[s].at = "truncated" /\ saver'[s].lines = saver[s].lines /\ saver[s].at # "idle"
        /\ \A t \in Savers : t # s => saver'[t] = saver[t]
    BY <1>0, <1>11, SaverAt DEF Truncate
  <2>2. UNCHANGED <<panel, command, acked>>
    BY <1>11 DEF Truncate
  <2>3. FileSecret' /\ LinesSecret' /\ FirstAlone'
    BY <2>1, <2>2 DEF SecretIntact, FileSecret, Truncated, LinesSecret, FirstAlone
  <2>4. OneFirst' /\ CommandsKnow' /\ PanelsKnow'
    BY <2>2 DEF SecretIntact, OneFirst, First, CommandsKnow, PanelsKnow, Known, Owns
  <2> QED BY <2>3, <2>4 DEF SecretIntact
<1>12. ASSUME NEW s \in Savers, Write(s) PROVE SecretIntact'
  <2>1. /\ file' = saver[s].lines /\ saver[s].at = "truncated" /\ saver'[s].at = "idle" /\ UNCHANGED command
        /\ \A t \in Savers : t # s => saver'[t] = saver[t]
    BY <1>12, WriteIs DEF Write
  <2>2. FirstAlone'
    BY <2>1 DEF SecretIntact, FirstAlone
  <2>3. CASE s \in Panels
    <3>0. panel[s] \in Panel /\ panel[s].at = "saving" /\ panel'[s] = [panel[s] EXCEPT !.at = "open"]
      BY <1>0, <1>12, <2>3, WriteIs
    <3>1. /\ \A q \in Panels : q # s => panel'[q] = panel[q]
          /\ acked' = [addr |-> acked.addr, secret |-> panel[s].secret]
      BY <1>12, <2>3, WriteIs
    <3>2. panel'[s].at = "open" /\ panel'[s].env = panel[s].env /\ panel'[s].secret = panel[s].secret
      BY <3>0 DEF Panel
    <3>3. First(s) /\ acked.secret = None /\ \A q \in Panels : First(q) => q = s
      BY <2>3, <3>0 DEF First, SecretIntact, OneFirst
    <3>4. \A t \in Savers : saver'[t].at = "idle"
      BY <2>1, <2>3 DEF SecretIntact, FirstAlone
    <3>5. FileSecret' /\ LinesSecret'
      BY <2>1, <2>3, <3>1, <3>4 DEF SecretIntact, LinesSecret, FileSecret
    <3>6. OneFirst'
      BY <3>1, <3>2, <3>3 DEF OneFirst, First
    <3>7. CommandsKnow'
      BY <1>a, <2>1, <3>3 DEF CommandsKnow, Known
    <3>8. \A q \in Panels : ~Owns(q)
      BY <3>3 DEF Sound, TypeOK, SecretIntact, PanelsKnow
    <3>9. PanelsKnow'
      BY <1>a, <3>1, <3>2, <3>3, <3>8 DEF PanelsKnow, Known, Owns
    <3> QED BY <2>2, <3>5, <3>6, <3>7, <3>9 DEF SecretIntact
  <2>4. CASE s \notin Panels
    <3>0. UNCHANGED panel /\ acked' = [addr |-> file'.addr, secret |-> acked.secret]
      BY <1>12, <2>4, WriteIs
    <3>1. UNCHANGED panel /\ acked'.secret = acked.secret
      BY <3>0
    <3>2. file'.secret = acked.secret
      BY <2>1, <2>4 DEF SecretIntact, LinesSecret
    <3>3. FileSecret' /\ LinesSecret'
      BY <2>1, <3>1, <3>2 DEF SecretIntact, LinesSecret, FileSecret
    <3>4. OneFirst' /\ CommandsKnow' /\ PanelsKnow'
      BY <2>1, <3>1 DEF SecretIntact, OneFirst, First, CommandsKnow, PanelsKnow, Known, Owns
    <3> QED BY <2>2, <3>3, <3>4 DEF SecretIntact
  <2> QED BY <2>3, <2>4
<1>13. ASSUME NEW s \in Savers, SaveFails(s) PROVE SecretIntact'
  <2>1. saver'[s].at = "idle" /\ \A t \in Savers : t # s => saver'[t] = saver[t]
    BY <1>0, <1>13, SaverEnds DEF SaveFails
  <2>2. saver[s].at # "truncated" /\ UNCHANGED <<file, panel, command, acked>>
    BY <1>13, DisturbedIs DEF SaveFails, LeftBy
  <2>3. FileSecret' /\ LinesSecret' /\ FirstAlone'
    BY <2>1, <2>2 DEF SecretIntact, FileSecret, Truncated, LinesSecret, FirstAlone
  <2>4. OneFirst' /\ CommandsKnow' /\ PanelsKnow'
    BY <2>2 DEF SecretIntact, OneFirst, First, CommandsKnow, PanelsKnow, Known, Owns
  <2> QED BY <2>3, <2>4 DEF SecretIntact
<1>14. ASSUME NEW p \in Panels, Exec(p) \/ Serve(p) PROVE SecretIntact'
  <2>1. PICK a \in {"loading", "serving"} :
            panel' = [panel EXCEPT ![p].at = a] /\ (a = "serving" => panel[p].at = "open")
    BY <1>14 DEF Exec, Serve
  <2>2. /\ panel'[p].at = a /\ panel'[p].env = panel[p].env /\ panel'[p].secret = panel[p].secret
        /\ \A q \in Panels : q # p => panel'[q] = panel[q]
    BY <1>0, <2>1, PanelAt
  <2>3. \A q \in Panels : (Owns(q)' => Owns(q)) /\ (First(q)' => First(q))
    BY <2>1, <2>2 DEF Owns, First
  <2>4. UNCHANGED <<file, saver, acked, command>>
    BY <1>14 DEF Exec, Serve
  <2> QED BY <1>a, <2>2, <2>3, <2>4, SecretStays
<1>15. ASSUME NEW p \in Panels, Load(p) \/ LoadFirst(p)
       PROVE  /\ ~Truncated /\ panel[p].at = "loading" /\ UNCHANGED <<file, saver, acked, command>>
              /\ Environment(p).secret = acked.secret
              /\ FileSecret' /\ FirstAlone' /\ CommandsKnow'
              /\ saver[p].at = "idle"
  <2>1. "secret" \notin Missed /\ panel[p].at = "loading" /\ UNCHANGED <<file, saver, acked, command>>
    BY <1>15 DEF Load, LoadFirst
  <2>2. ~Truncated
    BY <2>1, DisturbedIs DEF Missed
  <2>3. FileSecret' /\ FirstAlone' /\ CommandsKnow'
    BY <2>1 DEF SecretIntact, FileSecret, Truncated, FirstAlone, CommandsKnow, Known
  <2>4. saver[p].at = "idle"
    BY <2>1 DEF Sound, OwnSaver
  <2> QED BY <1>0, <2>1, <2>2, <2>3, <2>4, SecretOfEnvironment
<1>16. ASSUME NEW p \in Panels, Load(p) PROVE SecretIntact'
  <2>1. /\ panel[p].at = "loading" /\ UNCHANGED <<file, saver, acked, command>> /\ saver[p].at = "idle"
        /\ Environment(p).secret = acked.secret /\ FileSecret' /\ FirstAlone' /\ CommandsKnow'
    BY <1>15, <1>16
  <2>2. acked.secret \in Secrets
    BY <1>0, <1>16, <2>1 DEF Load, Lines
  <2>3. /\ panel'[p].at = "open" /\ panel'[p].secret = acked.secret /\ panel'[p].env = Environment(p)
        /\ \A q \in Panels : q # p => panel'[q] = panel[q]
    BY <1>0, <1>16, <2>1, <2>2, LoadedIs DEF Load
  <2>4. LinesSecret'
    BY <2>1, <2>3 DEF SecretIntact, LinesSecret
  <2>5. OneFirst' /\ PanelsKnow'
    BY <2>1, <2>3 DEF SecretIntact, OneFirst, First, PanelsKnow, Known, Owns
  <2> QED BY <2>1, <2>4, <2>5 DEF SecretIntact
<1>17. ASSUME NEW p \in Panels, LoadFirst(p) PROVE SecretIntact'
  <2>1. /\ panel[p].at = "loading" /\ UNCHANGED <<file, saver, acked, command>> /\ saver[p].at = "idle"
        /\ Environment(p).secret = acked.secret /\ FileSecret' /\ FirstAlone' /\ CommandsKnow'
    BY <1>15, <1>17
  <2>2. PICK x \in Secrets : panel' = [panel EXCEPT ![p] = [Loaded(p) EXCEPT !.at = "made", !.secret = x]]
    BY <1>17 DEF LoadFirst
  <2>3. /\ panel'[p].at = "made" /\ panel'[p].env = Environment(p)
        /\ \A q \in Panels : q # p => panel'[q] = panel[q]
    BY <1>0, <2>2, LoadedIs
  <2>4. acked.secret = None /\ \A q \in Panels : ~First(q)
    BY <1>17, <2>1 DEF LoadFirst
  <2>5. LinesSecret'
    BY <2>1, <2>3 DEF SecretIntact, LinesSecret
  <2>6. OneFirst'
    BY <2>1, <2>3, <2>4 DEF OneFirst, First
  <2>7. PanelsKnow'
    BY <2>1, <2>3 DEF SecretIntact, PanelsKnow, Known, Owns
  <2> QED BY <2>1, <2>5, <2>6, <2>7 DEF SecretIntact
<1>18. ASSUME NEW p \in Panels, ReadAgain(p) PROVE SecretIntact'
  <2>1. panel[p].at = "made" /\ panel' = [panel EXCEPT ![p].at = "saving"] /\ UNCHANGED <<file, command, acked>>
    BY <1>18 DEF ReadAgain
  <2>2. /\ panel'[p].at = "saving" /\ panel'[p].env = panel[p].env /\ panel'[p].secret = panel[p].secret
        /\ \A q \in Panels : q # p => panel'[q] = panel[q]
    BY <1>0, <2>1, PanelAt
  <2>3. panel[p].secret \in Secrets /\ panel[p].secret # None
    BY <1>0, <2>1 DEF Sound, Configured, First, Panel
  <2>4. /\ p \in Savers /\ [NoLines EXCEPT !.secret = panel[p].secret] \in Lines
        /\ [NoLines EXCEPT !.secret = panel[p].secret].secret = panel[p].secret
    BY <2>3, OneLineIs DEF Savers, NoLines
  <2>5. /\ saver'[p] = [at |-> "read", of |-> p,
                        lines |-> With(file, [NoLines EXCEPT !.secret = panel[p].secret])]
        /\ \A t \in Savers : t # p => saver'[t] = saver[t]
        /\ FileSecret' /\ FirstAlone'
    BY <1>0, <1>18, <2>1, <2>4, SecretReads DEF ReadAgain
  <2>6. LinesSecret'
    BY <2>1, <2>2, <2>3, <2>4, <2>5 DEF SecretIntact, LinesSecret, With
  <2>7. \A q \in Panels : (First(q)' => First(q)) /\ (Owns(q)' => Owns(q))
    BY <2>1, <2>2 DEF First, Owns
  <2>8. OneFirst' /\ CommandsKnow' /\ PanelsKnow'
    BY <2>1, <2>2, <2>7 DEF SecretIntact, OneFirst, CommandsKnow, PanelsKnow, Known
  <2> QED BY <2>5, <2>6, <2>8 DEF SecretIntact
<1>19. ASSUME NEW p \in Panels, ServeFails(p) \/ Ends(p) PROVE SecretIntact'
  BY <1>0, <1>19, SecretDies DEF ServeFails, Ends
<1>20. CASE UNCHANGED vars
  BY <1>20, <1>b DEF vars
<1> QED BY <1>2, <1>3, <1>4, <1>5, <1>6, <1>7, <1>8, <1>9, <1>10, <1>11, <1>12, <1>13, <1>14,
           <1>16, <1>17, <1>18, <1>19, <1>20 DEF Next

-----------------------------------------------------------------------------
(* The line of the address *)

\* Steps that leave the file and its savers.
LEMMA AddrStays ==
    ASSUME AddrIntact, UNCHANGED <<file, saver, acked>>,
           \A p \in Panels : panel'[p].due # None => panel'[p].addr = panel'[p].due
    PROVE  AddrIntact'
BY DEF AddrIntact, OneSaver, FileAddr, LinesAddr, AddressIsDue, Truncated

\* A process that ends leaves the file whole, unless it disturbs.
LEMMA AddrDies ==
    ASSUME TypeOK, AddrIntact, NEW p \in Panels, Dies(p), "addr" \notin disturbed', UNCHANGED <<file, acked>>
    PROVE  AddrIntact'
<1>1. /\ \A s \in Savers : saver'[s].at # "idle" => saver'[s] = saver[s] /\ saver[s].of # p
      /\ \A s \in Savers : saver[s].of # p => saver'[s] = saver[s]
  BY DiesIs
<1>2. /\ panel'[p].due = panel[p].due /\ panel'[p].addr = panel[p].addr
      /\ \A q \in Panels : q # p => panel'[q] = panel[q]
  BY DiesIs, DiesFields
<1>3. \A s \in Savers : saver[s].of = p => saver[s].at # "truncated"
  BY NoLinesIs DEF Dies, LeftBy
<1>4. Truncated => Truncated'
  BY <1>1, <1>3 DEF Truncated
<1>5. OneSaver' /\ FileAddr' /\ LinesAddr'
  BY <1>1, <1>4 DEF AddrIntact, OneSaver, FileAddr, LinesAddr, Savers
<1>6. AddressIsDue'
  BY <1>2 DEF AddrIntact, AddressIsDue
<1> QED BY <1>5, <1>6 DEF AddrIntact

\* A save that does not disturb the address is alone, and reads the one answered last.
LEMMA AddrReads ==
    ASSUME TypeOK, AddrIntact, NEW s \in Savers, NEW p \in Panels \cup {Front}, NEW new \in Lines,
           Reads(s, p, new), "addr" \notin disturbed', UNCHANGED <<file, acked>>,
           s \in Panels => new.addr = None,
           \A q \in Panels : panel'[q].due = panel[q].due /\ panel'[q].addr = panel[q].addr
    PROVE  AddrIntact'
<1>1. /\ saver'[s] = [at |-> "read", of |-> p, lines |-> With(file, new)]
      /\ \A t \in Savers : t # s => saver'[t] = saver[t]
  BY ReadsIs
<1>2. "addr" \notin Overlap(s)
  BY DEF Reads
<1>3. ~Truncated /\ Busy = {}
  BY <1>2, NoLinesIs DEF Overlap
<1>4. file.addr = acked.addr /\ \A t \in Savers : saver[t].at = "idle"
  BY <1>3 DEF AddrIntact, FileAddr, Busy
<1>5. OneSaver' /\ FileAddr'
  BY <1>1, <1>4 DEF OneSaver, FileAddr
<1>6. LinesAddr'
  BY <1>1, <1>4 DEF LinesAddr, Savers, With
<1>7. AddressIsDue'
  BY DEF AddrIntact, AddressIsDue
<1> QED BY <1>5, <1>6, <1>7 DEF AddrIntact

LEMMA AddrStep == Sound /\ AddrIntact /\ [Next]_vars /\ "addr" \notin disturbed' => AddrIntact'
<1> SUFFICES ASSUME Sound, AddrIntact, [Next]_vars, "addr" \notin disturbed' PROVE AddrIntact'
  OBVIOUS
<1>0. /\ TypeOK /\ panel \in [Panels -> Panel] /\ file \in Lines /\ acked \in Lines
      /\ \A p \in Panels : panel[p].due # None => panel[p].addr = panel[p].due
  BY DEF Sound, TypeOK, AddrIntact, AddressIsDue
<1>1. CASE UNCHANGED <<file, saver, acked, panel>>
  BY <1>0, <1>1, AddrStays
<1>2. ASSUME NEW c \in Commands,
             \/ \E job \in {"start", "stop", "restart"} : RunCommand(c, job)
             \/ \E p \in Panels : SystemRestart(c, p)
             \/ \E d \in Commands : KillCommand(c, d)
             \/ Find(c) \/ Killed(c) \/ Look(c)
      PROVE  AddrIntact'
  BY <1>1, <1>2 DEF RunCommand, SystemRestart, Begin, KillCommand, Find, Killed, Look
<1>3. ASSUME NEW p \in Panels,
             NEW a \in {"none", "nohup", "loading", "made", "saving", "open", "serving", "stopping", "gone"},
             panel' = [panel EXCEPT ![p].at = a]
      PROVE  \A q \in Panels : panel'[q].due = panel[q].due /\ panel'[q].addr = panel[q].addr
  BY <1>0, <1>3, PanelAt
<1>4. ASSUME NEW c \in Commands, NEW p \in Panels, KillPanel(c, p) PROVE AddrIntact'
  <2>1. UNCHANGED <<file, acked>>
    BY <1>4 DEF KillPanel
  <2>2. CASE panel' = [panel EXCEPT ![p].at = "stopping"] /\ UNCHANGED saver
    BY <1>0, <1>3, <2>1, <2>2, AddrStays
  <2>3. CASE Dies(p)
    BY <1>0, <2>1, <2>3, AddrDies
  <2>4. CASE UNCHANGED <<panel, saver>>
    BY <1>1, <2>1, <2>4
  <2> QED BY <1>4, <2>2, <2>3, <2>4 DEF KillPanel
<1>5. ASSUME NEW c \in Commands, NEW p \in Panels, Spawn(c, p) PROVE AddrIntact'
  <2>1. /\ panel'[p].addr = panel[p].addr /\ panel'[p].due = panel[p].due
        /\ \A q \in Panels : q # p => panel'[q] = panel[q]
    BY <1>0, <1>5, SpawnIs
  <2>2. \A q \in Panels : panel'[q].due # None => panel'[q].addr = panel'[q].due
    BY <1>0, <2>1
  <2> QED BY <1>5, <2>2, AddrStays DEF Spawn
<1>6. ASSUME NEW h \in Handlers, NEW p \in Panels, NEW a \in Addrs, SavePort(h, p, a) PROVE AddrIntact'
  <2>1. h \in Savers \ Panels
    BY CommandLineAssumption DEF Savers
  <2> QED BY <1>0, <1>6, <2>1, OneLineIs, AddrReads DEF SavePort
<1>7. CASE PanelSetup
  <2>1. Front \in Savers \ Panels /\ Loopback \in Addrs
    BY CommandLineAssumption DEF Savers
  <2> QED BY <1>0, <1>7, <2>1, OneLineIs, AddrReads DEF PanelSetup
<1>8. ASSUME NEW s \in Savers, Truncate(s) PROVE AddrIntact'
  <2>1. /\ saver'[s].at = "truncated" /\ saver'[s].lines = saver[s].lines /\ saver[s].at # "idle"
        /\ \A t \in Savers : t # s => saver'[t] = saver[t]
    BY <1>0, <1>8, SaverAt DEF Truncate
  <2>2. UNCHANGED <<panel, acked>>
    BY <1>8 DEF Truncate
  <2>3. OneSaver' /\ FileAddr' /\ LinesAddr'
    BY <2>1, <2>2 DEF AddrIntact, OneSaver, FileAddr, Truncated, LinesAddr, Savers
  <2> QED BY <1>0, <2>2, <2>3 DEF AddrIntact, AddressIsDue
<1>9. ASSUME NEW s \in Savers, Write(s) PROVE AddrIntact'
  <2>1. /\ file' = saver[s].lines /\ saver[s].at = "truncated" /\ saver'[s].at = "idle"
        /\ \A t \in Savers : t # s => saver'[t] = saver[t]
    BY <1>9, WriteIs
  <2>2. \A t \in Savers : saver'[t].at = "idle"
    BY <2>1 DEF AddrIntact, OneSaver
  <2>3. OneSaver' /\ LinesAddr'
    BY <2>2 DEF OneSaver, LinesAddr, Savers
  <2>4. CASE s \in Panels
    <3>1. /\ panel[s] \in Panel /\ panel'[s] = [panel[s] EXCEPT !.at = "open"]
          /\ \A q \in Panels : q # s => panel'[q] = panel[q]
          /\ acked'.addr = acked.addr
      BY <1>0, <1>9, <2>4, WriteIs
    <3>2. panel'[s].due = panel[s].due /\ panel'[s].addr = panel[s].addr
      BY <3>1 DEF Panel
    <3>3. FileAddr'
      BY <2>1, <2>4, <3>1 DEF AddrIntact, LinesAddr, FileAddr
    <3>4. AddressIsDue'
      BY <1>0, <3>1, <3>2 DEF AddressIsDue
    <3> QED BY <2>3, <3>3, <3>4 DEF AddrIntact
  <2>5. CASE s \notin Panels
    <3>0. UNCHANGED panel /\ acked' = [addr |-> file'.addr, secret |-> acked.secret]
      BY <1>9, <2>5, WriteIs
    <3>1. UNCHANGED panel /\ acked'.addr = file'.addr
      BY <3>0
    <3> QED BY <1>0, <2>3, <3>1 DEF AddrIntact, FileAddr, AddressIsDue
  <2> QED BY <2>4, <2>5
<1>10. ASSUME NEW s \in Savers, SaveFails(s) PROVE AddrIntact'
  <2>1. saver'[s].at = "idle" /\ \A t \in Savers : t # s => saver'[t] = saver[t]
    BY <1>0, <1>10, SaverEnds DEF SaveFails
  <2>2. saver[s].at # "truncated" /\ UNCHANGED <<file, panel, acked>>
    BY <1>10, NoLinesIs DEF SaveFails, LeftBy
  <2>3. OneSaver' /\ FileAddr' /\ LinesAddr'
    BY <2>1, <2>2 DEF AddrIntact, OneSaver, FileAddr, Truncated, LinesAddr, Savers
  <2> QED BY <1>0, <2>2, <2>3 DEF AddrIntact, AddressIsDue
<1>11. ASSUME NEW p \in Panels, Exec(p) \/ Serve(p) PROVE AddrIntact'
  <2>1. PICK a \in {"loading", "serving"} : panel' = [panel EXCEPT ![p].at = a]
    BY <1>11 DEF Exec, Serve
  <2> QED BY <1>0, <1>3, <1>11, <2>1, AddrStays DEF Exec, Serve
<1>12. ASSUME NEW p \in Panels, Load(p) \/ LoadFirst(p) PROVE AddrIntact'
  <2>1. "addr" \notin Missed /\ UNCHANGED <<file, saver, acked>>
    BY <1>12 DEF Load, LoadFirst
  <2>2. ~Truncated
    BY <2>1, NoLinesIs DEF Missed
  <2>3. panel[p].env.addr = None =>
            Address(Environment(p)) = IF acked.addr = None THEN Default ELSE acked.addr
    BY <2>2 DEF AddrIntact, FileAddr, Environment, With, Address
  <2>4. PICK a \in {"open", "made"}, x \in Secrets :
            panel' = [panel EXCEPT ![p] = [Loaded(p) EXCEPT !.at = a, !.secret = x]]
    <3>1. Environment(p) \in Lines
      BY <1>0, WithIs DEF Environment, Panel
    <3> QED BY <1>12, <3>1 DEF Load, LoadFirst, Lines
  <2>5. /\ panel'[p].addr = Address(Environment(p))
        /\ panel'[p].due = IF panel[p].env.addr # None THEN None
                           ELSE IF acked.addr = None THEN Default ELSE acked.addr
        /\ \A q \in Panels : q # p => panel'[q] = panel[q]
    BY <1>0, <2>4, LoadedIs
  <2>6. \A q \in Panels : panel'[q].due # None => panel'[q].addr = panel'[q].due
    BY <1>0, <2>3, <2>5
  <2> QED BY <2>1, <2>6, AddrStays
<1>13. ASSUME NEW p \in Panels, ReadAgain(p) PROVE AddrIntact'
  <2>1. panel[p].at = "made" /\ panel' = [panel EXCEPT ![p].at = "saving"] /\ UNCHANGED <<file, acked>>
    BY <1>13 DEF ReadAgain
  <2>2. panel[p].secret \in Secrets
    BY <1>0, <2>1 DEF Sound, Configured, First, Panel
  <2>3. /\ p \in Savers /\ [NoLines EXCEPT !.secret = panel[p].secret] \in Lines
        /\ [NoLines EXCEPT !.secret = panel[p].secret].addr = None
    BY <2>2, OneLineIs DEF Savers, NoLines
  <2>4. \A q \in Panels : panel'[q].due = panel[q].due /\ panel'[q].addr = panel[q].addr
    BY <1>3, <2>1
  <2> QED BY <1>0, <1>13, <2>1, <2>3, <2>4, AddrReads DEF ReadAgain
<1>14. ASSUME NEW p \in Panels, ServeFails(p) \/ Ends(p) PROVE AddrIntact'
  BY <1>0, <1>14, AddrDies DEF ServeFails, Ends
<1>15. CASE UNCHANGED vars
  BY <1>1, <1>15 DEF vars
<1> QED BY <1>2, <1>4, <1>5, <1>6, <1>7, <1>8, <1>9, <1>10, <1>11, <1>12, <1>13, <1>14, <1>15 DEF Next

LEMMA SavedStep == Sound /\ Saved /\ [Next]_vars => Saved'
<1>1. [Next]_vars => disturbed \subseteq disturbed'
  BY StaysDisturbed
<1> QED BY <1>1, SecretStep, AddrStep DEF Saved

\* The inductive invariant of the command line and of .env.
THEOREM CommandLineInvariance == Spec => []IInv
<1>1. Init => IInv
  BY InitSound, InitOwners, InitSaved DEF IInv, Saved
<1>2. IInv /\ [Next]_vars => IInv'
  BY SoundStep, OwnersStep, SavedStep DEF IInv
<1> QED BY <1>1, <1>2, PTL DEF Spec

\* Every panel has the secret that is saved, as long as nobody reads or leaves .env half
\* written and a first start is alone, however many savers of the address overlap; and one
\* started from a shell listens where the last answered save said, as long as no two saves
\* overlap: restarts, signals, crashes and failing saves do not change that.
THEOREM LoadedAsSavedCorrect == Spec => []LoadedAsSaved
<1>1. IInv => LoadedAsSaved
  BY DEF IInv, Saved, SecretIntact, PanelsKnow, AddrIntact, AddressIsDue, LoadedAsSaved
<1> QED BY <1>1, CommandLineInvariance, PTL
=============================================================================
