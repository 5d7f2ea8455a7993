--------------------------- MODULE DashboardProofs ---------------------------
(* Theorems about Dashboard, for every value of its constants. *)
EXTENDS Dashboard, TLAPS

\* init() is the only handler until it has the page, and no drawer is open before.
InitAlone ==
    /\ \A t \in Tasks : task[t].job = "init" =>
            page = "loading" /\ \A u \in Tasks : task[u].job = "init" => u = t
    /\ page = "loading" => drawer.of = None

\* The list that follows the last write to the server is the server's.
FreshList(x) == x.last /\ x.call = "list" /\ x.reply = "ok" => x.plug = server
FreshLists == \A t \in Tasks : FreshList(task[t])

\* A session that was revoked is over, and not in the table fetched after that.
TakenDown(x) == x.job = "revoke" =>
    /\ x.call # "write" \/ x.reply = "ok" => x.of \notin live
    /\ x.call = "sessions" /\ x.reply = "ok" => x.of \notin x.sess
RevokedDown == \A t \in Tasks : TakenDown(task[t])

IInv == TypeOK /\ DrawerFromList /\ InstallOnce /\ InitAlone /\ FreshLists /\ RevokedDown

-----------------------------------------------------------------------------
(* Types: those of the server, of what is shown and of the tasks *)

ServerTypes == server \in PluginList /\ Proper(server) /\ live \in SUBSET Sessions

ShownTypes ==
    /\ list \in PluginList /\ Proper(list)
    /\ page \in {"loading", "ready", "broken", "login"} /\ view \in Views
    /\ nav \in [heads: SUBSET Menus, dots: SUBSET Menus] /\ nav.dots \subseteq nav.heads
    /\ drawer \in Drawer
    /\ rows \in [Tables -> SUBSET Plugins] /\ sessions \in SUBSET Sessions
    /\ button \in BOOLEAN

Calls == {"none", "write", "list", "settings", "profile", "sessions"}
Replies == {"none", "sent", "ok", "error", "denied"}

TaskOK(x) == x \in Task /\ Proper(x.plug) /\ (x.job \in PluginWrites => x.of \in Plugins)
TaskTypes == task \in [Tasks -> Task] /\ \A t \in Tasks : TaskOK(task[t])

LEMMA TypeParts ==
    TypeOK <=> ServerTypes /\ ShownTypes /\ TaskTypes /\ events \in 0..MaxEvents
BY DEF TypeOK, ServerTypes, ShownTypes, TaskTypes, TaskOK

\* What the steps keep about the tasks, and about the rest.
TaskInv == TaskTypes /\ InstallOnce /\ InitAlone /\ FreshLists /\ RevokedDown
RestInv == ServerTypes /\ ShownTypes /\ DrawerFromList /\ events \in 0..MaxEvents

LEMMA Parts == IInv <=> TaskInv /\ RestInv
BY TypeParts DEF IInv, TaskInv, RestInv

LEMMA EventTypes == ASSUME events \in 0..MaxEvents, Event PROVE events' \in 0..MaxEvents
BY DashboardAssumption DEF Event

LEMMA SameRest ==
    /\ ServerTypes /\ UNCHANGED serverVars => ServerTypes'
    /\ ShownTypes /\ UNCHANGED shownVars => ShownTypes'
    /\ DrawerFromList /\ UNCHANGED shownVars => DrawerFromList'
BY DEF ServerTypes, ShownTypes, serverVars, shownVars, DrawerFromList

LEMMA EmptyProper == NoPlugins \in PluginList /\ Proper(NoPlugins)
BY DEF NoPlugins, PluginList, Proper

LEMMA JobKinds ==
    /\ "revoke" \in AccountWrites /\ "install" \in PluginWrites
    /\ "revoke" \notin PluginWrites /\ "init" \notin PluginWrites \cup AccountWrites
    /\ "none" \notin PluginWrites \cup AccountWrites
    /\ "install" \notin AccountWrites /\ Views \cap (PluginWrites \cup AccountWrites) = {}
    /\ "init" \notin Views /\ "logout" \notin PluginWrites
    /\ PluginWrites \cup AccountWrites \cup Views \cup {"none", "init", "dots", "logout"} = Jobs
BY DEF Jobs, PluginWrites, AccountWrites, Actions, Views, Tables

LEMMA IdleIs ==
    /\ TaskOK(Idle) /\ Idle.job = "none" /\ ~Idle.last
    /\ FreshList(Idle) /\ TakenDown(Idle)
BY EmptyProper, JobKinds DEF Idle, TaskOK, Task, FreshList, TakenDown, NoPlugins

\* A handler begins with a call that is sent.
LEMMA BeginIs ==
    ASSUME NEW job \in Jobs, NEW of \in Plugins \cup Sessions \cup {None},
           job \in PluginWrites => of \in Plugins
    PROVE  /\ TaskOK(Begin(job, of)) /\ Begin(job, of).job = job
           /\ FreshList(Begin(job, of)) /\ TakenDown(Begin(job, of))
<1> DEFINE b == Begin(job, of)
<1>1. FirstCall(job) \in Calls /\ (job = "revoke" => FirstCall(job) = "write")
  BY JobKinds DEF FirstCall, Calls
<1>2. Idle \in Task /\ Proper(Idle.plug) /\ Idle.last = FALSE
  BY IdleIs DEF TaskOK, Idle
<1>3. /\ b \in Task /\ b.job = job /\ b.of = of /\ b.call = FirstCall(job) /\ b.reply = "sent"
      /\ b.plug = Idle.plug /\ b.last = Idle.last
  BY <1>1, <1>2 DEF Begin, Task, Calls
<1> QED BY <1>1, <1>2, <1>3 DEF TaskOK, FreshList, TakenDown

\* The next call of a handler is sent.
LEMMA AwaitsIs ==
    ASSUME TaskTypes, NEW t \in Tasks, NEW c \in Calls
    PROVE  /\ TaskOK(Awaits(t, c)) /\ Awaits(t, c).job = task[t].job
           /\ FreshList(Awaits(t, c))
           /\ TakenDown(task[t]) /\ (task[t].reply = "ok" \/ task[t].call # "write") => TakenDown(Awaits(t, c))
<1> DEFINE a == Awaits(t, c)
<1>1. TaskOK(task[t]) /\ task[t] \in Task /\ Proper(task[t].plug)
  BY DEF TaskTypes, TaskOK
<1>2. /\ a \in Task /\ a.job = task[t].job /\ a.of = task[t].of /\ a.call = c /\ a.reply = "sent"
      /\ a.plug = task[t].plug
  BY <1>1 DEF Awaits, Task, Calls
<1> QED BY <1>1, <1>2 DEF TaskOK, FreshList, TakenDown

\* A step of one task that ends it, lets it go on or makes another of it.
LEMMA Replaced ==
    ASSUME TaskInv, NEW t \in Tasks, NEW x, TaskOK(x), FreshList(x), TakenDown(x),
           task' = [task EXCEPT ![t] = x], UNCHANGED <<server, live>>,
           x.job \in {"install", "init"} => x.job = task[t].job,
           page' = page \/ (task[t].job = "init" /\ x.job # "init"),
           page' # "loading" \/ (page' = page /\ drawer'.of \in {drawer.of, None}),
           button' => button \/ (task[t].job = "install" /\ x.job # "install")
    PROVE  TaskInv'
<1>0. /\ TaskTypes /\ InstallOnce /\ InitAlone /\ FreshLists /\ RevokedDown
      /\ x \in Task
  BY DEF TaskInv, TaskOK
<1>1. /\ task' \in [Tasks -> Task] /\ task'[t] = x
      /\ \A u \in Tasks : u # t => task'[u] = task[u]
  BY <1>0 DEF TaskTypes
<1>2. TaskTypes'
  BY <1>0, <1>1 DEF TaskTypes, TaskOK
<1>3. InstallOnce'
  BY <1>0, <1>1 DEF InstallOnce
<1>4. InitAlone'
  BY <1>0, <1>1 DEF InitAlone
<1>5. FreshLists'
  BY <1>0, <1>1 DEF FreshLists, FreshList
<1>6. RevokedDown'
  BY <1>0, <1>1 DEF RevokedDown, TakenDown
<1> QED BY <1>2, <1>3, <1>4, <1>5, <1>6 DEF TaskInv

LEMMA SameTasks ==
    ASSUME TaskInv, UNCHANGED <<server, task, page, button>>, live' \subseteq live,
           page = "loading" => drawer'.of = drawer.of
    PROVE  TaskInv'
BY DEF TaskInv, TaskTypes, TaskOK, InstallOnce, InitAlone, FreshLists, FreshList, RevokedDown, TakenDown

\* A handler other than the installation starts.
LEMMA Started ==
    ASSUME TaskInv, NEW job \in Jobs \ {"install", "init"}, NEW of \in Plugins \cup Sessions \cup {None},
           job \in PluginWrites => of \in Plugins,
           Starts(job, of), UNCHANGED <<server, live, page, button>>, drawer'.of = drawer.of
    PROVE  TaskInv'
<1>1. PICK t \in Tasks : task' = [task EXCEPT ![t] = Begin(job, of)]
  BY DEF Starts
<1> QED BY <1>1, BeginIs, Replaced

-----------------------------------------------------------------------------
LEMMA InitInv == Init => IInv
<1> SUFFICES ASSUME Init PROVE TaskInv /\ RestInv
  BY Parts
<1>1. PICK t \in Tasks : task = [u \in Tasks |-> IF u = t THEN Begin("init", None) ELSE Idle]
  BY DEF Init
<1>2. /\ TaskOK(Begin("init", None)) /\ Begin("init", None).job = "init"
      /\ FreshList(Begin("init", None)) /\ TakenDown(Begin("init", None))
  BY BeginIs, JobKinds
<1>3. TaskTypes
  BY <1>1, <1>2, IdleIs DEF TaskTypes, TaskOK
<1>4. InstallOnce /\ FreshLists /\ RevokedDown
  BY <1>1, <1>2, IdleIs DEF InstallOnce, FreshLists, RevokedDown
<1>5. InitAlone
  BY <1>1, <1>2, IdleIs DEF Init, InitAlone, Closed
<1>6. ServerTypes
  BY DashboardAssumption DEF Init, ServerTypes
<1>7. ShownTypes
  BY EmptyProper, DashboardAssumption DEF Init, ShownTypes, Closed, Drawer
<1>8. DrawerFromList
  BY DEF Init, DrawerFromList, NoPlugins
<1>9. events \in 0..MaxEvents
  BY DashboardAssumption DEF Init
<1> QED BY <1>3, <1>4, <1>5, <1>6, <1>7, <1>8, <1>9 DEF TaskInv, RestInv

-----------------------------------------------------------------------------
(* What the user does *)

LEMMA DrawerIs ==
    ASSUME drawer \in Drawer
    PROVE  \A p \in Plugins : \A on, kept \in BOOLEAN :
             LET d == [drawer EXCEPT !.of = p, !.on = on, !.kept = kept]
             IN  d \in Drawer /\ d.of = p /\ d.on = on
BY DEF Drawer

LEMMA ShowsInIs ==
    ASSUME ShownTypes, NEW p \in Plugins, NEW l
    PROVE  /\ ShowsIn(p, l) \in Drawer
           /\ ShowsIn(p, l).of = p /\ ShowsIn(p, l).on = (p \in l.on)
<1>1. drawer \in Drawer
  BY DEF ShownTypes
<1>2. (p \in l.on) \in BOOLEAN /\ (p \in l.kept) \in BOOLEAN
  OBVIOUS
<1>3. \A q \in Plugins : \A on, kept \in BOOLEAN :
        LET d == [drawer EXCEPT !.of = q, !.on = on, !.kept = kept]
        IN  d \in Drawer /\ d.of = q /\ d.on = on
  BY <1>1, DrawerIs
<1> QED BY <1>2, <1>3, Zenon DEF ShowsIn

LEMMA ClosedIs == Closed \in Drawer /\ Closed.of = None
BY DEF Closed, Drawer

LEMMA NotListed == ASSUME ShownTypes PROVE None \notin list.in
BY DashboardAssumption DEF ShownTypes, PluginList

LEMMA UserInv ==
    ASSUME TaskInv, RestInv,
           \/ \E v \in Views : Navigate(v)
           \/ \E p \in Plugins : OpenDrawer(p) \/ UrlInstall(p)
           \/ CloseDrawer \/ Keepalive \/ Logout \/ Tick
           \/ \E job \in AccountWrites, s \in Sessions \cup {None} : Account(job, s)
           \/ \E job \in Actions \cup {"uninstall"} : PluginAction(job)
    PROVE  TaskInv' /\ RestInv'
<1>0. ServerTypes /\ ShownTypes /\ DrawerFromList /\ events \in 0..MaxEvents /\ TaskTypes /\ InitAlone
  BY DEF TaskInv, RestInv
<1>1. ASSUME NEW v \in Views, Navigate(v) PROVE TaskInv' /\ RestInv'
  <2>1. PICK t \in Tasks : task' = [task EXCEPT ![t] = Begin(v, None)]
    BY <1>1 DEF Navigate, Route
  <2>2. v \in Jobs /\ v \notin {"install", "init"} /\ v \notin PluginWrites
    BY JobKinds
  <2>3. TaskInv'
    BY <1>1, <2>1, <2>2, BeginIs, Replaced DEF Navigate, serverVars
  <2>4. RestInv'
    BY <1>0, <1>1, EventTypes DEF Navigate, RestInv, ServerTypes, serverVars, ShownTypes, DrawerFromList
  <2> QED BY <2>3, <2>4
<1>2. ASSUME NEW p \in Plugins, OpenDrawer(p) PROVE TaskInv' /\ RestInv'
  <2>1. drawer' \in Drawer /\ drawer'.of = p /\ drawer'.on = (p \in list.on)
    BY <1>0, <1>2, ShowsInIs DEF OpenDrawer
  <2>2. TaskInv'
    BY <1>2, SameTasks DEF OpenDrawer, serverVars
  <2>3. RestInv'
    BY <1>0, <1>2, <2>1 DEF OpenDrawer, RestInv, ServerTypes, serverVars, ShownTypes, DrawerFromList
  <2> QED BY <2>2, <2>3
<1>3. ASSUME NEW p \in Plugins, UrlInstall(p) PROVE TaskInv' /\ RestInv'
  <2>1. PICK t \in Tasks : task[t] = Idle /\ task' = [task EXCEPT ![t] = Begin("install", p)]
    BY <1>3 DEF UrlInstall, Starts
  <2>2. /\ TaskOK(Begin("install", p)) /\ Begin("install", p).job = "install"
        /\ FreshList(Begin("install", p)) /\ TakenDown(Begin("install", p))
    BY BeginIs, JobKinds
  <2>3. /\ task' \in [Tasks -> Task] /\ task'[t] = Begin("install", p)
        /\ \A u \in Tasks : u # t => task'[u] = task[u]
    BY <1>0, <2>1, <2>2 DEF TaskTypes, TaskOK
  <2>4. \A u \in Tasks : task[u].job # "install"
    BY <1>3 DEF UrlInstall, TaskInv, InstallOnce
  <2>5. InstallOnce'
    BY <1>3, <2>2, <2>3, <2>4 DEF UrlInstall, InstallOnce
  <2>6. TaskTypes'
    BY <1>0, <2>2, <2>3 DEF TaskTypes, TaskOK
  <2>7. InitAlone'
    BY <1>0, <1>3, <2>2, <2>3 DEF UrlInstall, InitAlone
  <2>8. FreshLists' /\ RevokedDown'
    BY <1>3, <2>2, <2>3 DEF UrlInstall, serverVars, TaskInv, FreshLists, FreshList, RevokedDown, TakenDown
  <2>9. RestInv'
    BY <1>0, <1>3, EventTypes
    DEF UrlInstall, Clicks, RestInv, ServerTypes, serverVars, ShownTypes, DrawerFromList
  <2> QED BY <2>5, <2>6, <2>7, <2>8, <2>9 DEF TaskInv
<1>4. CASE CloseDrawer
  <2>1. TaskInv'
    BY <1>0, <1>4, SameTasks DEF CloseDrawer, serverVars, InitAlone
  <2>2. RestInv'
    BY <1>0, <1>4, ClosedIs, NotListed
    DEF CloseDrawer, RestInv, ServerTypes, serverVars, ShownTypes, DrawerFromList
  <2> QED BY <2>1, <2>2
<1>5. CASE Keepalive
  <2>1. drawer \in Drawer /\ drawer.of \in Plugins
    BY <1>0, <1>5 DEF Keepalive, ShownTypes, Drawer
  <2>2. drawer' \in Drawer /\ drawer'.of = drawer.of /\ drawer'.on = drawer.on
    BY <1>5, <2>1 DEF Keepalive, Drawer
  <2>3. PICK job \in {"keep", "unkeep"} : Starts(job, drawer.of)
    BY <1>5 DEF Keepalive
  <2>4. job \in Jobs \ {"install", "init"}
    BY DEF Jobs, PluginWrites
  <2>5. TaskInv'
    BY <1>5, <2>1, <2>2, <2>3, <2>4, Started DEF Keepalive, serverVars
  <2>6. RestInv'
    BY <1>0, <1>5, <2>2, EventTypes
    DEF Keepalive, Clicks, RestInv, ServerTypes, serverVars, ShownTypes, DrawerFromList
  <2> QED BY <2>5, <2>6
<1>6. CASE Logout
  <2>1. "logout" \in Jobs \ {"install", "init"} /\ "logout" \notin PluginWrites
    BY DEF Jobs, PluginWrites, Actions
  <2>2. TaskInv'
    BY <1>6, <2>1, Started DEF Logout, serverVars, shownVars
  <2>3. RestInv'
    BY <1>0, <1>6, EventTypes, SameRest DEF Logout, Clicks, RestInv
  <2> QED BY <2>2, <2>3
<1>7. CASE Tick
  <2>1. "dots" \in Jobs \ {"install", "init"} /\ "dots" \notin PluginWrites
    BY DEF Jobs, PluginWrites, Actions
  <2>2. TaskInv'
    BY <1>7, <2>1, Started DEF Tick, serverVars, shownVars
  <2>3. RestInv'
    BY <1>0, <1>7, SameRest DEF Tick, RestInv
  <2> QED BY <2>2, <2>3
<1>8. ASSUME NEW job \in AccountWrites, NEW s \in Sessions \cup {None}, Account(job, s)
      PROVE  TaskInv' /\ RestInv'
  <2>1. job \in Jobs \ {"install", "init"} /\ job \notin PluginWrites
    BY DEF Jobs, PluginWrites, AccountWrites, Actions
  <2>2. TaskInv'
    BY <1>8, <2>1, Started DEF Account, serverVars, shownVars
  <2>3. RestInv'
    BY <1>0, <1>8, EventTypes, SameRest DEF Account, Clicks, RestInv
  <2> QED BY <2>2, <2>3
<1>9. ASSUME NEW job \in Actions \cup {"uninstall"}, PluginAction(job) PROVE TaskInv' /\ RestInv'
  <2>1. job \in Jobs \ {"install", "init"}
    BY DEF Jobs, PluginWrites, Actions
  <2>2. drawer.of \in Plugins
    BY <1>0, <1>9 DEF PluginAction, ShownTypes, Drawer
  <2>3. TaskInv'
    BY <1>9, <2>1, <2>2, Started DEF PluginAction, serverVars, shownVars
  <2>4. RestInv'
    BY <1>0, <1>9, EventTypes, SameRest DEF PluginAction, Clicks, RestInv
  <2> QED BY <2>3, <2>4
<1> QED BY <1>1, <1>2, <1>3, <1>4, <1>5, <1>6, <1>7, <1>8, <1>9

-----------------------------------------------------------------------------
(* The server *)

LEMMA WrittenIs ==
    ASSUME ServerTypes, NEW job \in PluginWrites, NEW p \in Plugins, Accepts(job, p) \/ job = "stop"
    PROVE  Written(job, p) \in PluginList /\ Proper(Written(job, p))
<1>1. server \in PluginList /\ Proper(server)
  BY DEF ServerTypes
<1>2. CASE job \in {"start", "restart"}
  BY <1>1, <1>2 DEF Written, Accepts, PluginList, Proper
<1>3. CASE job \in {"stop"}
  BY <1>1, <1>3 DEF Written, PluginList, Proper
<1>4. CASE job \in {"keep"}
  BY <1>1, <1>4 DEF Written, Accepts, PluginList, Proper
<1>5. CASE job \in {"unkeep"}
  BY <1>1, <1>5 DEF Written, PluginList, Proper
<1>6. CASE job \in {"install"}
  BY <1>1, <1>6, DashboardAssumption DEF Written, PluginList, Proper
<1>7. CASE job \in {"uninstall"}
  BY <1>1, <1>7 DEF Written, PluginList, Proper
<1> QED BY <1>2, <1>3, <1>4, <1>5, <1>6, <1>7 DEF PluginWrites, Actions

\* Whoever writes to the server, the lists that were fetched before are not the last ones.
LEMMA NoLongerIs ==
    ASSUME TaskTypes, NEW u
    PROVE  /\ NoLonger(u) \in [Tasks -> Task]
           /\ \A t \in Tasks :
                /\ TaskOK(NoLonger(u)[t])
                /\ NoLonger(u)[t].job = task[t].job /\ NoLonger(u)[t].of = task[t].of
                /\ NoLonger(u)[t].call = task[t].call /\ NoLonger(u)[t].reply = task[t].reply
                /\ NoLonger(u)[t].sess = task[t].sess
                /\ t # u => NoLonger(u)[t].last = FALSE
<1>1. ASSUME NEW t \in Tasks
      PROVE  /\ NoLonger(u)[t] \in Task /\ TaskOK(NoLonger(u)[t])
             /\ NoLonger(u)[t].job = task[t].job /\ NoLonger(u)[t].of = task[t].of
             /\ NoLonger(u)[t].call = task[t].call /\ NoLonger(u)[t].reply = task[t].reply
             /\ NoLonger(u)[t].sess = task[t].sess
             /\ t # u => NoLonger(u)[t].last = FALSE
  <2>1. task[t] \in Task /\ TaskOK(task[t])
    BY DEF TaskTypes
  <2>2. PICK last \in BOOLEAN : NoLonger(u)[t] = [task[t] EXCEPT !.last = last] /\ (t # u => last = FALSE)
    <3>1. (t = u) \in BOOLEAN /\ NoLonger(u)[t] = [task[t] EXCEPT !.last = (t = u)]
      BY DEF NoLonger
    <3> QED BY <3>1, Zenon
  <2>3. [task[t] EXCEPT !.last = last] \in Task
    BY <2>1 DEF Task
  <2> QED BY <2>1, <2>2, <2>3 DEF TaskOK, Task
<1>2. NoLonger(u) = [t \in Tasks |-> NoLonger(u)[t]]
  BY DEF NoLonger
<1> QED BY <1>1, <1>2

\* A task whose call is answered.
LEMMA AnswersIs ==
    ASSUME TaskTypes, NEW t \in Tasks, NEW r \in Replies, NEW y \in Task, TaskOK(y)
    PROVE  /\ [y EXCEPT !.reply = r] \in Task /\ TaskOK([y EXCEPT !.reply = r])
           /\ [y EXCEPT !.reply = r].job = y.job /\ [y EXCEPT !.reply = r].of = y.of
           /\ [y EXCEPT !.reply = r].call = y.call /\ [y EXCEPT !.reply = r].reply = r
           /\ [y EXCEPT !.reply = r].plug = y.plug /\ [y EXCEPT !.reply = r].sess = y.sess
           /\ [y EXCEPT !.reply = r].last = y.last
BY DEF TaskOK, Task, Replies

\* An answer that brings nothing.
LEMMA AnsweredInv ==
    ASSUME TaskInv, NEW t \in Tasks, NEW r \in Replies, Answers(t, r),
           UNCHANGED <<server, live, shownVars>>,
           r = "ok" => task[t].call \in {"settings", "profile"}
    PROVE  TaskInv'
<1>9. PICK x : x = [task[t] EXCEPT !.reply = r]
  OBVIOUS
<1>0. TaskTypes /\ task[t] \in Task /\ TaskOK(task[t]) /\ TakenDown(task[t])
  BY DEF TaskInv, TaskTypes, RevokedDown
<1>1. /\ TaskOK(x) /\ x.job = task[t].job /\ x.of = task[t].of /\ x.call = task[t].call
      /\ x.reply = r /\ x.sess = task[t].sess
  BY <1>0, <1>9, AnswersIs
<1>2. FreshList(x) /\ TakenDown(x)
  BY <1>0, <1>1 DEF FreshList, TakenDown
<1>3. task' = [task EXCEPT ![t] = x]
  BY <1>9 DEF Answers
<1>4. server' = server /\ live' = live /\ page' = page /\ drawer' = drawer /\ button' = button
  BY DEF shownVars
<1> QED BY <1>1, <1>2, <1>3, <1>4, Replaced

\* A write to the server's plugins by task t.
LEMMA WroteInv ==
    ASSUME TaskInv, NEW t \in Tasks, NEW r \in Replies, task[t].job \in PluginWrites,
           task[t].call = "write", task' = [NoLonger(t) EXCEPT ![t].reply = r],
           UNCHANGED <<live, shownVars>>
    PROVE  TaskInv'
<1>0. TaskTypes /\ InstallOnce /\ InitAlone /\ RevokedDown
  BY DEF TaskInv
<1> DEFINE n == NoLonger(t)
           x == [n[t] EXCEPT !.reply = r]
<1>1. n \in [Tasks -> Task] /\ n[t] \in Task /\ TaskOK(n[t])
  BY <1>0, NoLongerIs
<1>2. /\ x \in Task /\ TaskOK(x) /\ x.job = n[t].job /\ x.of = n[t].of /\ x.call = n[t].call
  BY <1>0, <1>1, AnswersIs
<1>3. task' = [n EXCEPT ![t] = x]
  OBVIOUS
<1>4. task' \in [Tasks -> Task] /\ task'[t] = x /\ \A u \in Tasks : u # t => task'[u] = n[u]
  BY <1>1, <1>2, <1>3
<1>5. \A u \in Tasks :
        /\ TaskOK(n[u]) /\ n[u].job = task[u].job /\ n[u].of = task[u].of /\ n[u].call = task[u].call
        /\ u # t => n[u].reply = task[u].reply /\ n[u].sess = task[u].sess /\ n[u].last = FALSE
  BY <1>0, NoLongerIs
<1> HIDE DEF n, x
<1>10. \A u \in Tasks :
        /\ TaskOK(task'[u]) /\ task'[u].job = task[u].job /\ task'[u].of = task[u].of
        /\ task'[u].call = task[u].call
        /\ u # t => /\ task'[u].reply = task[u].reply /\ task'[u].sess = task[u].sess
                    /\ task'[u].last = FALSE
  <2>1. /\ TaskOK(task'[t]) /\ task'[t].job = task[t].job /\ task'[t].of = task[t].of
        /\ task'[t].call = task[t].call
    <3>1. n[t].job = task[t].job /\ n[t].of = task[t].of /\ n[t].call = task[t].call
      BY <1>5
    <3> QED BY <1>2, <1>4, <3>1
  <2>2. ASSUME NEW u \in Tasks, u # t
        PROVE  /\ TaskOK(task'[u]) /\ task'[u].job = task[u].job /\ task'[u].of = task[u].of
               /\ task'[u].call = task[u].call /\ task'[u].reply = task[u].reply
               /\ task'[u].sess = task[u].sess /\ task'[u].last = FALSE
    <3>1. task'[u] = n[u]
      BY <1>4, <2>2
    <3>2. /\ TaskOK(n[u]) /\ n[u].job = task[u].job /\ n[u].of = task[u].of
          /\ n[u].call = task[u].call /\ n[u].reply = task[u].reply
          /\ n[u].sess = task[u].sess /\ n[u].last = FALSE
      BY <1>5, <2>2
    <3> QED BY <3>1, <3>2
  <2> QED BY <2>1, <2>2
<1>6. TaskTypes'
  BY <1>4, <1>10 DEF TaskTypes, TaskOK
<1>7. InstallOnce' /\ InitAlone'
  BY <1>0, <1>10 DEF InstallOnce, InitAlone, shownVars
<1>8. FreshLists'
  BY <1>10 DEF FreshLists, FreshList
<1>9. RevokedDown'
  BY <1>0, <1>10, JobKinds DEF RevokedDown, TakenDown
<1> QED BY <1>6, <1>7, <1>8, <1>9 DEF TaskInv

LEMMA ServeInv ==
    ASSUME TaskInv, RestInv, NEW t \in Tasks, Serve(t)
    PROVE  TaskInv' /\ RestInv'
<1>0. /\ ServerTypes /\ ShownTypes /\ DrawerFromList /\ events \in 0..MaxEvents
      /\ TaskTypes /\ task[t] \in Task /\ TaskOK(task[t]) /\ RevokedDown
  BY DEF TaskInv, RestInv, TaskTypes
<1>1. UNCHANGED <<shownVars, events>>
  BY DEF Serve
<1>2. ServerTypes' => RestInv'
  BY <1>0, <1>1, SameRest DEF RestInv
<1>3. ASSUME \E r \in {"denied", "error"} : Answers(t, r), UNCHANGED serverVars
      PROVE  TaskInv' /\ RestInv'
  <2>1. PICK r \in {"denied", "error"} : Answers(t, r)
    BY <1>3
  <2>2. TaskInv'
    BY <1>1, <1>3, <2>1, AnsweredInv DEF Replies, serverVars
  <2> QED BY <1>0, <1>2, <1>3, <2>2, SameRest
<1>4. ASSUME task[t].job \in PluginWrites, task[t].call = "write", Accepts(task[t].job, task[t].of),
             server' = Written(task[t].job, task[t].of), UNCHANGED live,
             task' = [NoLonger(t) EXCEPT ![t].reply = "ok"]
      PROVE  TaskInv' /\ RestInv'
  <2>1. task[t].of \in Plugins
    BY <1>0, <1>4 DEF TaskOK
  <2>2. ServerTypes'
    BY <1>0, <1>4, <2>1, WrittenIs DEF ServerTypes
  <2>3. TaskInv'
    BY <1>1, <1>4, WroteInv DEF Replies
  <2> QED BY <1>2, <2>2, <2>3
<1>5. ASSUME task[t].job \notin PluginWrites, task[t].call = "write",
             live' = live \ TakesDown(task[t].job, task[t].of), Answers(t, "ok"), UNCHANGED server
      PROVE  TaskInv' /\ RestInv'
  <2> DEFINE x == [task[t] EXCEPT !.reply = "ok"]
  <2>1. /\ x \in Task /\ TaskOK(x) /\ x.job = task[t].job /\ x.of = task[t].of
        /\ x.call = task[t].call
    BY <1>0, AnswersIs DEF Replies
  <2>2. task' = [task EXCEPT ![t] = x]
    BY <1>5 DEF Answers
  <2>3. /\ task' \in [Tasks -> Task] /\ task'[t] = x
        /\ \A u \in Tasks : u # t => task'[u] = task[u]
    BY <1>0, <2>1, <2>2 DEF TaskTypes
  <2>4. x.job = "revoke" => x.of \notin live'
    BY <1>5, <2>1 DEF TakesDown
  <2> HIDE DEF x
  <2>5. TaskTypes' /\ ServerTypes'
    BY <1>0, <1>5, <2>1, <2>3 DEF TaskTypes, TaskOK, ServerTypes
  <2>6. InstallOnce' /\ InitAlone' /\ FreshLists'
    BY <1>1, <1>5, <2>1, <2>3
    DEF TaskInv, InstallOnce, InitAlone, FreshLists, FreshList, shownVars
  <2>7. RevokedDown'
    BY <1>0, <1>5, <2>1, <2>3, <2>4 DEF RevokedDown, TakenDown
  <2> QED BY <1>2, <2>5, <2>6, <2>7 DEF TaskInv
<1>6. ASSUME task[t].call = "list", UNCHANGED serverVars,
             task' = [task EXCEPT ![t].reply = "ok", ![t].plug = server]
      PROVE  TaskInv' /\ RestInv'
  <2>9. UNCHANGED <<server, live, page, drawer, button>>
    BY <1>1, <1>6 DEF shownVars, serverVars
  <2>8. PICK x : x = [task[t] EXCEPT !.reply = "ok", !.plug = server]
    OBVIOUS
  <2>1. /\ x \in Task /\ x.job = task[t].job /\ x.of = task[t].of /\ x.call = "list"
        /\ x.plug = server /\ x.sess = task[t].sess
    BY <1>0, <1>6, <2>8 DEF Task, ServerTypes
  <2>2. TaskOK(x)
    BY <1>0, <2>1 DEF TaskOK, ServerTypes
  <2>3. FreshList(x) /\ TakenDown(x)
    BY <1>0, <1>6, <2>1 DEF FreshList, TakenDown, RevokedDown
  <2>4. task' = [task EXCEPT ![t] = x]
    BY <1>0, <1>6, <2>8 DEF TaskTypes
  <2>5. TaskInv'
    BY <2>9, <2>1, <2>2, <2>3, <2>4, Replaced
  <2> QED BY <1>0, <1>2, <1>6, <2>5, SameRest
<1>7. ASSUME task[t].call = "sessions", UNCHANGED serverVars,
             task' = [task EXCEPT ![t].reply = "ok", ![t].sess = live]
      PROVE  TaskInv' /\ RestInv'
  <2>9. UNCHANGED <<server, live, page, drawer, button>>
    BY <1>1, <1>7 DEF shownVars, serverVars
  <2>8. PICK x : x = [task[t] EXCEPT !.reply = "ok", !.sess = live]
    OBVIOUS
  <2>1. /\ x \in Task /\ x.job = task[t].job /\ x.of = task[t].of /\ x.call = "sessions"
        /\ x.plug = task[t].plug /\ x.sess = live
    BY <1>0, <1>7, <2>8 DEF Task, ServerTypes
  <2>2. TaskOK(x)
    BY <1>0, <2>1 DEF TaskOK
  <2>3. FreshList(x) /\ TakenDown(x)
    BY <1>0, <1>7, <2>1 DEF FreshList, TakenDown, RevokedDown
  <2>4. task' = [task EXCEPT ![t] = x]
    BY <1>0, <1>7, <2>8 DEF TaskTypes
  <2>5. TaskInv'
    BY <2>9, <2>1, <2>2, <2>3, <2>4, Replaced
  <2> QED BY <1>0, <1>2, <1>7, <2>5, SameRest
<1>8. ASSUME task[t].call \in {"settings", "profile"}, UNCHANGED serverVars, Answers(t, "ok")
      PROVE  TaskInv' /\ RestInv'
  <2>1. TaskInv'
    BY <1>1, <1>8, AnsweredInv DEF Replies, serverVars
  <2> QED BY <1>0, <1>2, <1>8, <2>1, SameRest
<1> QED BY <1>3, <1>4, <1>5, <1>6, <1>7, <1>8 DEF Serve, serverVars

LEMMA OthersInv ==
    ASSUME TaskInv, RestInv,
           \/ \E p \in Plugins : ServerChanges(p)
           \/ \E s \in Sessions : SessionEnds(s)
           \/ \E t \in Tasks : CallFails(t) \/ RestartFails(t)
    PROVE  TaskInv' /\ RestInv'
<1>0. /\ ServerTypes /\ ShownTypes /\ DrawerFromList /\ events \in 0..MaxEvents
      /\ TaskTypes /\ InstallOnce /\ InitAlone /\ RevokedDown
  BY DEF TaskInv, RestInv
<1>1. ASSUME NEW p \in Plugins, ServerChanges(p) PROVE TaskInv' /\ RestInv'
  <2>1. server \in PluginList /\ Proper(server)
    BY <1>0 DEF ServerTypes
  <2>2. server' \in PluginList /\ Proper(server')
    BY <1>1, <2>1 DEF ServerChanges, PluginList, Proper
  <2>3. RestInv'
    BY <1>0, <1>1, <2>2, EventTypes, SameRest DEF ServerChanges, RestInv, ServerTypes
  <2>4. task' = NoLonger(None) /\ UNCHANGED <<live, shownVars>>
    BY <1>1 DEF ServerChanges
  <2>5. /\ task' \in [Tasks -> Task]
        /\ \A u \in Tasks :
            /\ TaskOK(task'[u]) /\ task'[u].job = task[u].job /\ task'[u].of = task[u].of
            /\ task'[u].call = task[u].call /\ task'[u].reply = task[u].reply
            /\ task'[u].sess = task[u].sess /\ task'[u].last = FALSE
    <3> DEFINE n == NoLonger(None)
    <3>1. task' = n
      BY <2>4
    <3>2. /\ n \in [Tasks -> Task]
          /\ \A u \in Tasks :
              /\ TaskOK(n[u]) /\ n[u].job = task[u].job /\ n[u].of = task[u].of
              /\ n[u].call = task[u].call /\ n[u].reply = task[u].reply
              /\ n[u].sess = task[u].sess /\ (u # None => n[u].last = FALSE)
      BY <1>0, NoLongerIs
    <3>3. \A u \in Tasks : u # None
      BY DashboardAssumption
    <3> HIDE DEF n
    <3> QED BY <3>1, <3>2, <3>3
  <2>6. TaskTypes' /\ InstallOnce' /\ InitAlone' /\ FreshLists' /\ RevokedDown'
    BY <1>0, <2>4, <2>5
    DEF TaskTypes, TaskOK, InstallOnce, InitAlone, FreshLists, FreshList, RevokedDown, TakenDown, shownVars
  <2> QED BY <2>3, <2>6 DEF TaskInv
<1>2. ASSUME NEW s \in Sessions, SessionEnds(s) PROVE TaskInv' /\ RestInv'
  <2>1. TaskInv'
    BY <1>2, SameTasks DEF SessionEnds, shownVars
  <2>2. RestInv'
    BY <1>0, <1>2, EventTypes, SameRest DEF SessionEnds, RestInv, ServerTypes
  <2> QED BY <2>1, <2>2
<1>3. ASSUME NEW t \in Tasks, CallFails(t) PROVE TaskInv' /\ RestInv'
  <2>1. TaskInv'
    BY <1>3, AnsweredInv DEF CallFails, Replies, serverVars
  <2>2. RestInv'
    BY <1>0, <1>3, EventTypes, SameRest DEF CallFails, RestInv
  <2> QED BY <2>1, <2>2
<1>4. ASSUME NEW t \in Tasks, RestartFails(t) PROVE TaskInv' /\ RestInv'
  <2>1. task[t].job \in PluginWrites /\ task[t].of \in Plugins
    BY <1>0, <1>4 DEF RestartFails, TaskTypes, TaskOK, PluginWrites, Actions
  <2>2. ServerTypes'
    BY <1>0, <1>4, <2>1, WrittenIs DEF RestartFails, ServerTypes, PluginWrites, Actions
  <2>3. TaskInv'
    BY <1>4, <2>1, WroteInv DEF RestartFails, Replies
  <2>4. RestInv'
    BY <1>0, <1>4, <2>2, EventTypes, SameRest DEF RestartFails, RestInv
  <2> QED BY <2>3, <2>4
<1> QED BY <1>1, <1>2, <1>3, <1>4

-----------------------------------------------------------------------------
(* The page goes on *)

LEMMA NavIs ==
    ASSUME NEW l \in PluginList, Proper(l)
    PROVE  NavOf(l) \in [heads: SUBSET Menus, dots: SUBSET Menus] /\ NavOf(l).dots \subseteq NavOf(l).heads
BY DEF NavOf, PluginList, Proper

LEMMA LeavesInv ==
    ASSUME TaskInv, RestInv, Leaves, UNCHANGED <<serverVars, view, events>>
    PROVE  TaskInv' /\ RestInv'
<1>1. task' = [t \in Tasks |-> Idle]
  BY DEF Leaves
<1>2. TaskTypes' /\ InstallOnce' /\ FreshLists' /\ RevokedDown'
  BY <1>1, IdleIs, JobKinds
  DEF TaskTypes, TaskOK, InstallOnce, FreshLists, FreshList, RevokedDown, TakenDown
<1>3. InitAlone'
  BY <1>1, IdleIs DEF InitAlone, Leaves
<1>4. ShownTypes'
  BY EmptyProper, NavIs, ClosedIs DEF RestInv, ShownTypes, Leaves
<1>5. DrawerFromList'
  BY DEF Leaves, DrawerFromList, NoPlugins
<1>6. ServerTypes'
  BY SameRest DEF RestInv
<1> QED BY <1>2, <1>3, <1>4, <1>5, <1>6 DEF TaskInv, RestInv

\* The list in an answer is one.
LEMMA ListIs ==
    ASSUME TaskTypes, NEW t \in Tasks
    PROVE  /\ task[t].plug \in PluginList /\ Proper(task[t].plug) /\ task[t].sess \in SUBSET Sessions
           /\ task[t] \in Task
BY DEF TaskTypes, TaskOK, Task

LEMMA DrawerRefreshed ==
    ASSUME ShownTypes, TaskTypes, NEW t \in Tasks, RefreshPlugins(t)
    PROVE  /\ drawer' \in Drawer /\ drawer'.of = drawer.of /\ DrawerFromList'
           /\ list' \in PluginList /\ Proper(list')
           /\ nav' \in [heads: SUBSET Menus, dots: SUBSET Menus] /\ nav'.dots \subseteq nav'.heads
<1>1. list' = task[t].plug /\ nav' = NavOf(task[t].plug) /\ list' \in PluginList /\ Proper(list')
  BY ListIs DEF RefreshPlugins
<1>2. drawer \in Drawer
  BY DEF ShownTypes
<1>3. CASE drawer.of \in list'.in
  <2>1. drawer' = ShowsIn(drawer.of, list')
    BY <1>1, <1>3 DEF RefreshPlugins
  <2>2. drawer.of \in Plugins
    BY <1>1, <1>3 DEF PluginList
  <2>3. drawer' \in Drawer /\ drawer'.of = drawer.of /\ drawer'.on = (drawer.of \in list'.on)
    BY <2>1, <2>2, ShowsInIs
  <2> QED BY <1>1, <2>3, NavIs DEF DrawerFromList
<1>4. CASE drawer.of \notin list'.in
  <2>1. drawer' = drawer
    BY <1>1, <1>4 DEF RefreshPlugins
  <2> QED BY <1>1, <1>2, <1>4, <2>1, NavIs DEF DrawerFromList
<1> QED BY <1>3, <1>4

LEMMA ContinuesInv ==
    ASSUME TaskInv, RestInv, NEW t \in Tasks, Continues(t)
    PROVE  TaskInv' /\ RestInv'
<1>0. /\ ServerTypes /\ ShownTypes /\ DrawerFromList /\ events \in 0..MaxEvents
      /\ TaskTypes /\ InitAlone /\ RevokedDown /\ TakenDown(task[t]) /\ task[t] \in Task
  BY DEF TaskInv, RestInv, RevokedDown, TaskTypes
<1>a. ASSUME NEW x, TaskOK(x), FreshList(x), TakenDown(x), x.job \notin {"install", "init"},
             task' = [task EXCEPT ![t] = x],
             UNCHANGED <<server, live, page>>, drawer'.of \in {drawer.of, None},
             button' => button \/ task[t].job = "install"
      PROVE  TaskInv'
  BY <1>a, Replaced
<1>1. CASE AfterWrite(t)
  <2>1. "list" \in Calls
    BY DEF Calls
  <2>2. PICK x : x = Awaits(t, "list")
    OBVIOUS
  <2>3. TaskOK(x) /\ FreshList(x) /\ TakenDown(x) /\ x.job = task[t].job
    BY <1>0, <1>1, <2>1, <2>2, AwaitsIs DEF AfterWrite, Gets
  <2>4. drawer' \in {drawer, Closed}
    BY <1>1 DEF AfterWrite
  <2>5. TaskInv'
    BY <1>1, <2>2, <2>3, <2>4, ClosedIs, Replaced DEF AfterWrite, serverVars
  <2>6. RestInv'
    BY <1>0, <1>1, <2>4, ClosedIs, NotListed
    DEF AfterWrite, RestInv, ServerTypes, serverVars, ShownTypes, DrawerFromList
  <2> QED BY <2>5, <2>6
<1>2. CASE AfterAccountWrite(t)
  <2>1. "profile" \in Calls
    BY DEF Calls
  <2>2. PICK x : x = IF task[t].job = "password" THEN Idle ELSE Awaits(t, "profile")
    OBVIOUS
  <2>3. TaskOK(x) /\ FreshList(x) /\ TakenDown(x)
    BY <1>0, <1>2, <2>1, <2>2, AwaitsIs, IdleIs DEF AfterAccountWrite, Gets
  <2>4. x.job \notin {"install", "init"}
    BY <1>0, <1>2, <2>1, <2>2, AwaitsIs, IdleIs, JobKinds DEF AfterAccountWrite
  <2>5. TaskInv'
    BY <1>2, <1>a, <2>2, <2>3, <2>4 DEF AfterAccountWrite, serverVars, shownVars
  <2>6. RestInv'
    BY <1>0, <1>2, SameRest DEF AfterAccountWrite, RestInv
  <2> QED BY <2>5, <2>6
<1>3. CASE InitDone(t)
  <2>1. page' = "ready" /\ list' = task[t].plug /\ nav' = NavOf(task[t].plug) /\ view' = view
        /\ task[t].job = "init"
    BY <1>3 DEF InitDone
  <2>2. view \in Jobs /\ view \notin {"install", "init"} /\ view \notin PluginWrites
    BY <1>0, JobKinds DEF ShownTypes
  <2>3. PICK x : x = Begin(view, None)
    OBVIOUS
  <2>4. TaskOK(x) /\ FreshList(x) /\ TakenDown(x) /\ x.job = view
    BY <2>2, <2>3, BeginIs
  <2>5. task' = [task EXCEPT ![t] = x]
    BY <1>3, <2>1, <2>3 DEF InitDone, Route
  <2>6. TaskInv'
    BY <1>3, <2>1, <2>2, <2>4, <2>5, Replaced DEF InitDone, serverVars
  <2>7. drawer.of = None
    BY <1>0, <2>1 DEF InitAlone
  <2>8. list' \in PluginList /\ Proper(list') /\ None \notin list'.in
    BY <1>0, <2>1, ListIs, DashboardAssumption DEF PluginList
  <2>9. RestInv'
    BY <1>0, <1>3, <2>1, <2>7, <2>8, NavIs
    DEF InitDone, RestInv, ServerTypes, serverVars, ShownTypes, DrawerFromList
  <2> QED BY <2>6, <2>9
<1>4. CASE ListRefreshed(t)
  <2>1. task[t].job \in PluginWrites /\ RefreshPlugins(t)
    BY <1>4 DEF ListRefreshed
  <2>2. /\ drawer' \in Drawer /\ drawer'.of = drawer.of /\ DrawerFromList'
        /\ list' \in PluginList /\ Proper(list')
        /\ nav' \in [heads: SUBSET Menus, dots: SUBSET Menus] /\ nav'.dots \subseteq nav'.heads
    BY <1>0, <2>1, DrawerRefreshed
  <2>3. PICK x : task' = [task EXCEPT ![t] = x] /\ x \in {Begin(view, None), Begin("plugins", None), Idle}
    BY <1>4 DEF ListRefreshed, Route
  <2>4. view \in Views /\ "plugins" \in Views
    BY <1>0 DEF ShownTypes, Views, Tables
  <2>5. TaskOK(x) /\ FreshList(x) /\ TakenDown(x) /\ x.job \notin {"install", "init"}
    BY <2>3, <2>4, BeginIs, IdleIs, JobKinds
  <2>6. TaskInv'
    BY <1>4, <1>a, <2>2, <2>3, <2>5 DEF ListRefreshed, serverVars
  <2>7. button' \in BOOLEAN
    BY <1>4 DEF ListRefreshed
  <2>8. RestInv'
    BY <1>0, <1>4, <2>2, <2>7 DEF ListRefreshed, RestInv, ServerTypes, serverVars, ShownTypes
  <2> QED BY <2>6, <2>8
<1>5. CASE DotsRefreshed(t)
  <2>1. TaskInv'
    BY <1>5, <1>a, IdleIs DEF DotsRefreshed, Ends, serverVars
  <2>2. nav' \in [heads: SUBSET Menus, dots: SUBSET Menus] /\ nav'.dots \subseteq nav'.heads
    BY <1>0, <1>5 DEF DotsRefreshed, ShownTypes
  <2>3. RestInv'
    BY <1>0, <1>5, <2>2 DEF DotsRefreshed, RestInv, ServerTypes, serverVars, ShownTypes, DrawerFromList
  <2> QED BY <2>1, <2>3
<1>6. CASE RowsDrawn(t)
  <2>1. TaskInv'
    BY <1>6, <1>a, IdleIs DEF RowsDrawn, Ends, serverVars
  <2>2. rows' \in [Tables -> SUBSET Plugins]
    BY <1>0, <1>6, ListIs DEF RowsDrawn, ShownTypes, PluginList
  <2>3. RestInv'
    BY <1>0, <1>6, <2>2 DEF RowsDrawn, RestInv, ServerTypes, serverVars, ShownTypes, DrawerFromList
  <2> QED BY <2>1, <2>3
<1>7. CASE SettingsDrawn(t) \/ ProfileDrawn(t)
  <2>1. PICK c \in {"profile", "sessions"} : task' = [task EXCEPT ![t] = Awaits(t, c)]
    BY <1>7 DEF SettingsDrawn, ProfileDrawn
  <2>2. c \in Calls /\ task[t].call # "write"
    BY <1>7 DEF Calls, SettingsDrawn, ProfileDrawn, Gets
  <2>3. PICK x : x = Awaits(t, c)
    OBVIOUS
  <2>4. TaskOK(x) /\ FreshList(x) /\ TakenDown(x) /\ x.job = task[t].job
    BY <1>0, <2>2, <2>3, AwaitsIs
  <2>5. UNCHANGED <<serverVars, shownVars, events>>
    BY <1>7 DEF SettingsDrawn, ProfileDrawn
  <2>6. TaskInv'
    BY <2>1, <2>3, <2>4, <2>5, Replaced DEF serverVars, shownVars
  <2>7. RestInv'
    BY <1>0, <2>5, SameRest DEF RestInv
  <2> QED BY <2>6, <2>7
<1>8. CASE SessionsDrawn(t)
  <2>1. TaskInv'
    BY <1>8, <1>a, IdleIs DEF SessionsDrawn, Ends, serverVars
  <2>2. sessions' \in SUBSET Sessions
    BY <1>0, <1>8, ListIs DEF SessionsDrawn
  <2>3. RestInv'
    BY <1>0, <1>8, <2>2 DEF SessionsDrawn, RestInv, ServerTypes, serverVars, ShownTypes, DrawerFromList
  <2> QED BY <2>1, <2>3
<1>9. CASE LoggedOut(t) \/ Denied(t)
  BY <1>9, LeavesInv DEF LoggedOut, Denied
<1>10. CASE Failed(t)
  <2>1. page' = page \/ (task[t].job = "init" /\ page' = "broken")
    BY <1>10 DEF Failed
  <2>2. TaskInv'
    BY <1>10, <2>1, IdleIs, Replaced DEF Failed, Ends, serverVars
  <2>3. rows' \in [Tables -> SUBSET Plugins]
    BY <1>0, <1>10 DEF Failed, ShownTypes
  <2>4. button' \in BOOLEAN
    BY <1>10 DEF Failed
  <2>5. RestInv'
    BY <1>0, <1>10, <2>1, <2>3, <2>4
    DEF Failed, RestInv, ServerTypes, serverVars, ShownTypes, DrawerFromList
  <2> QED BY <2>2, <2>5
<1> QED BY <1>1, <1>2, <1>3, <1>4, <1>5, <1>6, <1>7, <1>8, <1>9, <1>10 DEF Continues

LEMMA StepInv == IInv /\ [Next]_vars => IInv'
<1> SUFFICES ASSUME TaskInv, RestInv, [Next]_vars PROVE TaskInv' /\ RestInv'
  BY Parts DEF IInv, TaskInv, RestInv, TypeOK, ServerTypes, ShownTypes, TaskTypes, TaskOK
<1>1. CASE UNCHANGED vars
  <2>1. UNCHANGED <<server, live, task, page, button, drawer, serverVars, shownVars, events>>
    BY <1>1 DEF vars, serverVars, shownVars
  <2>2. TaskInv'
    BY <2>1, SameTasks
  <2> QED BY <2>1, <2>2, SameRest DEF RestInv
<1> QED BY <1>1, UserInv, ServeInv, OthersInv, ContinuesInv DEF Next

-----------------------------------------------------------------------------
\* The inductive invariant, for any plugins, sessions and number of calls under way.
THEOREM DashboardInvariance == Spec => []IInv
BY InitInv, StepInv, PTL DEF Spec

\* Whatever the user, the server and the answers do to each other, the copies that the page
\* has keep their types: what runs or is kept alive is installed, and a dot has its head.
THEOREM DashboardTypeCorrect == Spec => []TypeOK
<1>1. IInv => TypeOK
  BY DEF IInv
<1> QED BY <1>1, DashboardInvariance, PTL

\* The drawer and the list of the page never disagree about a plugin that both know.
THEOREM DrawerCorrect == Spec => []DrawerFromList
<1>1. IInv => DrawerFromList
  BY DEF IInv
<1> QED BY <1>1, DashboardInvariance, PTL

\* One installation from a URL at a time, for any number of calls under way.
THEOREM InstallOnceCorrect == Spec => []InstallOnce
<1>1. IInv => InstallOnce
  BY DEF IInv
<1> QED BY <1>1, DashboardInvariance, PTL

\* The page has the server's plugins when a handler has drawn the list it fetched after its
\* own write, unless somebody has written since: in whatever order the calls are served.
THEOREM ReadYourWritesCorrect == Spec => ReadYourWrites
<1>1. ASSUME IInv, NEW t \in Tasks, ListRefreshed(t), task[t].last PROVE list' = server
  BY <1>1 DEF IInv, FreshLists, FreshList, ListRefreshed, Gets, RefreshPlugins
<1>2. IInv /\ [Next]_vars => [\A t \in Tasks : ListRefreshed(t) /\ task[t].last => list' = server]_vars
  BY <1>1
<1> QED BY <1>2, DashboardInvariance, PTL DEF Spec, ReadYourWrites

\* The table drawn after a revocation lacks the session that was revoked.
THEOREM RevokedCorrect == Spec => RevokedIsGone
<1>1. ASSUME IInv, NEW t \in Tasks, SessionsDrawn(t), task[t].job = "revoke"
      PROVE  task[t].of \notin sessions'
  BY <1>1 DEF IInv, RevokedDown, TakenDown, SessionsDrawn, Gets
<1>2. IInv /\ [Next]_vars =>
        [\A t \in Tasks : SessionsDrawn(t) /\ task[t].job = "revoke" => task[t].of \notin sessions']_vars
  BY <1>1
<1> QED BY <1>2, DashboardInvariance, PTL DEF Spec, RevokedIsGone

-----------------------------------------------------------------------------
(* The install button and its installation *)

\* An installation awaits its write or the list that it fetches then.
InstallCalls == \A t \in Tasks : task[t].job = "install" => task[t].call \in {"write", "list"}

HeldInv == ButtonIsHeld /\ InstallCalls

\* A step that replaces one task: an installation that ends gives the button back.
LEMMA ReplacedHeld ==
    ASSUME TaskTypes, HeldInv, NEW t \in Tasks, NEW x, task' = [task EXCEPT ![t] = x],
           button => button',
           task[t].job = "install" => x.job = "install" \/ button',
           x.job = "install" => x.call \in {"write", "list"}
    PROVE  HeldInv'
<1>1. task'[t] = x /\ \A u \in Tasks : u # t => task'[u] = task[u]
  BY DEF TaskTypes
<1>2. InstallCalls'
  BY <1>1 DEF HeldInv, InstallCalls
<1>3. ASSUME ~button' PROVE \E u \in Tasks : task'[u].job = "install"
  <2>1. PICK u \in Tasks : task[u].job = "install"
    BY <1>3 DEF HeldInv, ButtonIsHeld
  <2> QED BY <1>1, <1>3, <2>1
<1> QED BY <1>2, <1>3 DEF HeldInv, ButtonIsHeld

\* A step that changes no task's handler and call.
LEMMA SameHeld ==
    ASSUME HeldInv, button => button',
           \A u \in Tasks : task'[u].job = task[u].job /\ task'[u].call = task[u].call
    PROVE  HeldInv'
BY DEF HeldInv, ButtonIsHeld, InstallCalls

\* A handler that is not the installation takes a free task.
LEMMA StartedHeld ==
    ASSUME TaskTypes, HeldInv, NEW job \in Jobs \ {"install"}, button => button',
           NEW t \in Tasks, task[t] = Idle, NEW of \in Plugins \cup Sessions \cup {None},
           job \in PluginWrites => of \in Plugins, task' = [task EXCEPT ![t] = Begin(job, of)]
    PROVE  HeldInv'
<1>1. Begin(job, of).job # "install" /\ task[t].job # "install"
  BY BeginIs, IdleIs
<1> QED BY <1>1, ReplacedHeld

LEMMA UserHeld ==
    ASSUME TaskTypes, ShownTypes, HeldInv
    PROVE  /\ \A v \in Views : Navigate(v) => HeldInv'
           /\ \A p \in Plugins : OpenDrawer(p) \/ UrlInstall(p) => HeldInv'
           /\ CloseDrawer \/ Keepalive \/ Logout \/ Tick => HeldInv'
           /\ \A job \in AccountWrites, s \in Sessions \cup {None} : Account(job, s) => HeldInv'
           /\ \A job \in Actions \cup {"uninstall"} : PluginAction(job) => HeldInv'
<1>1. ASSUME NEW v \in Views, Navigate(v) PROVE HeldInv'
  <2>1. PICK t \in Tasks : task[t] = Idle /\ task' = [task EXCEPT ![t] = Begin(v, None)]
    BY <1>1 DEF Navigate, Route
  <2>2. v \in Jobs \ {"install"} /\ v \notin PluginWrites
    BY JobKinds
  <2> QED BY <1>1, <2>1, <2>2, StartedHeld DEF Navigate
<1>2. ASSUME NEW p \in Plugins, OpenDrawer(p) PROVE HeldInv'
  BY <1>2, SameHeld DEF OpenDrawer
<1>3. ASSUME NEW p \in Plugins, UrlInstall(p) PROVE HeldInv'
  <2>1. PICK t \in Tasks : task[t] = Idle /\ task' = [task EXCEPT ![t] = Begin("install", p)]
    BY <1>3 DEF UrlInstall, Starts
  <2>2. Begin("install", p).call = "write" /\ Begin("install", p).job = "install"
    BY JobKinds DEF Begin, FirstCall, Idle
  <2>3. task'[t].job = "install" /\ task'[t].call = "write"
        /\ \A u \in Tasks : u # t => task'[u] = task[u]
    BY <2>1, <2>2 DEF TaskTypes
  <2> QED BY <2>3 DEF HeldInv, ButtonIsHeld, InstallCalls
<1>4. CASE CloseDrawer
  BY <1>4, SameHeld DEF CloseDrawer
<1>5. CASE Keepalive
  <2>1. PICK job \in {"keep", "unkeep"} : Starts(job, drawer.of)
    BY <1>5 DEF Keepalive
  <2>2. PICK t \in Tasks : task[t] = Idle /\ task' = [task EXCEPT ![t] = Begin(job, drawer.of)]
    BY <2>1 DEF Starts
  <2>3. job \in Jobs \ {"install"} /\ drawer.of \in Plugins
    BY <1>5 DEF Keepalive, ShownTypes, Drawer, Jobs, PluginWrites
  <2> QED BY <1>5, <2>2, <2>3, StartedHeld DEF Keepalive
<1>6. CASE Logout
  <2>1. PICK t \in Tasks : task[t] = Idle /\ task' = [task EXCEPT ![t] = Begin("logout", None)]
    BY <1>6 DEF Logout, Starts
  <2>2. "logout" \in Jobs \ {"install"}
    BY DEF Jobs
  <2> QED BY <1>6, <2>1, <2>2, JobKinds, StartedHeld DEF Logout, shownVars
<1>7. CASE Tick
  <2>1. PICK t \in Tasks : task[t] = Idle /\ task' = [task EXCEPT ![t] = Begin("dots", None)]
    BY <1>7 DEF Tick, Starts
  <2>2. "dots" \in Jobs \ {"install"} /\ "dots" \notin PluginWrites
    BY DEF Jobs, PluginWrites, Actions
  <2> QED BY <1>7, <2>1, <2>2, StartedHeld DEF Tick, shownVars
<1>8. ASSUME NEW job \in AccountWrites, NEW s \in Sessions \cup {None}, Account(job, s) PROVE HeldInv'
  <2>1. PICK t \in Tasks : task[t] = Idle /\ task' = [task EXCEPT ![t] = Begin(job, s)]
    BY <1>8 DEF Account, Starts
  <2>2. job \in Jobs \ {"install"} /\ job \notin PluginWrites
    BY DEF Jobs, AccountWrites, PluginWrites, Actions
  <2> QED BY <1>8, <2>1, <2>2, StartedHeld DEF Account, shownVars
<1>9. ASSUME NEW job \in Actions \cup {"uninstall"}, PluginAction(job) PROVE HeldInv'
  <2>1. PICK t \in Tasks : task[t] = Idle /\ task' = [task EXCEPT ![t] = Begin(job, drawer.of)]
    BY <1>9 DEF PluginAction, Starts
  <2>2. job \in Jobs \ {"install"} /\ drawer.of \in Plugins
    BY <1>9 DEF PluginAction, ShownTypes, Drawer, Jobs, PluginWrites, Actions
  <2> QED BY <1>9, <2>1, <2>2, StartedHeld DEF PluginAction, shownVars
<1> QED BY <1>1, <1>2, <1>3, <1>4, <1>5, <1>6, <1>7, <1>8, <1>9

\* Answers and writes leave every task its handler and its call.
LEMMA KeptCalls ==
    ASSUME TaskTypes, NEW t \in Tasks, NEW r \in Replies
    PROVE  /\ Answers(t, r) =>
                \A u \in Tasks : task'[u].job = task[u].job /\ task'[u].call = task[u].call
           /\ task' = [NoLonger(t) EXCEPT ![t].reply = r] =>
                \A u \in Tasks : task'[u].job = task[u].job /\ task'[u].call = task[u].call
<1>1. task[t] \in Task /\ TaskOK(task[t])
  BY DEF TaskTypes
<1>2. ASSUME Answers(t, r), NEW u \in Tasks
      PROVE  task'[u].job = task[u].job /\ task'[u].call = task[u].call
  <2>1. task'[u] = IF u = t THEN [task[t] EXCEPT !.reply = r] ELSE task[u]
    BY <1>2 DEF Answers, TaskTypes
  <2> QED BY <1>1, <2>1, AnswersIs
<1>3. ASSUME task' = [NoLonger(t) EXCEPT ![t].reply = r], NEW u \in Tasks
      PROVE  task'[u].job = task[u].job /\ task'[u].call = task[u].call
  <2>1. NoLonger(t) \in [Tasks -> Task] /\ TaskOK(NoLonger(t)[t])
        /\ NoLonger(t)[u].job = task[u].job /\ NoLonger(t)[u].call = task[u].call
    BY NoLongerIs
  <2>2. task'[u] = IF u = t THEN [NoLonger(t)[t] EXCEPT !.reply = r] ELSE NoLonger(t)[u]
    BY <1>3, <2>1
  <2> QED BY <2>1, <2>2, AnswersIs
<1> QED BY <1>2, <1>3

LEMMA ServerHeld ==
    ASSUME TaskTypes, HeldInv
    PROVE  /\ \A p \in Plugins : ServerChanges(p) => HeldInv'
           /\ \A s \in Sessions : SessionEnds(s) => HeldInv'
           /\ \A t \in Tasks : Serve(t) \/ CallFails(t) \/ RestartFails(t) => HeldInv'
<1>1. ASSUME NEW p \in Plugins, ServerChanges(p) PROVE HeldInv'
  BY <1>1, NoLongerIs, SameHeld DEF ServerChanges, shownVars
<1>2. ASSUME NEW s \in Sessions, SessionEnds(s) PROVE HeldInv'
  BY <1>2, SameHeld DEF SessionEnds, shownVars
<1>3. ASSUME NEW t \in Tasks, Serve(t) PROVE HeldInv'
  <2>1. button' = button
    BY <1>3 DEF Serve, shownVars
  <2>2. \/ \E r \in Replies : Answers(t, r) \/ task' = [NoLonger(t) EXCEPT ![t].reply = r]
        \/ task' = [task EXCEPT ![t].reply = "ok", ![t].plug = server]
        \/ task' = [task EXCEPT ![t].reply = "ok", ![t].sess = live]
    BY <1>3 DEF Serve, Replies
  <2>3. CASE task' = [task EXCEPT ![t].reply = "ok", ![t].plug = server]
             \/ task' = [task EXCEPT ![t].reply = "ok", ![t].sess = live]
    <3>1. task[t] \in Task
      BY DEF TaskTypes
    <3>2. \A u \in Tasks : task'[u].job = task[u].job /\ task'[u].call = task[u].call
      BY <2>3, <3>1 DEF TaskTypes, Task
    <3> QED BY <2>1, <3>2, SameHeld
  <2> QED BY <2>1, <2>2, <2>3, KeptCalls, SameHeld
<1>4. ASSUME NEW t \in Tasks, CallFails(t) \/ RestartFails(t) PROVE HeldInv'
  <2>1. button' = button
        /\ (Answers(t, "error") \/ task' = [NoLonger(t) EXCEPT ![t].reply = "error"])
    BY <1>4 DEF CallFails, RestartFails, shownVars
  <2> QED BY <2>1, KeptCalls, SameHeld DEF Replies
<1> QED BY <1>1, <1>2, <1>3, <1>4

LEMMA ContinuesHeld ==
    ASSUME TaskTypes, ShownTypes, HeldInv, NEW t \in Tasks, Continues(t)
    PROVE  HeldInv'
<1>0. task[t] \in Task /\ Idle.job # "install"
      /\ (task[t].job = "install" => task[t].call \in {"write", "list"})
  BY IdleIs DEF TaskTypes, HeldInv, InstallCalls
<1>1. CASE AfterWrite(t)
  <2>1. PICK x : x = Awaits(t, "list") /\ task' = [task EXCEPT ![t] = x]
    BY <1>1 DEF AfterWrite
  <2>2. x.job = task[t].job /\ x.call = "list"
    BY <1>0, <2>1 DEF Awaits, Task
  <2> QED BY <1>1, <2>1, <2>2, ReplacedHeld DEF AfterWrite
<1>2. CASE AfterAccountWrite(t)
  <2>1. PICK x : x \in {Idle, Awaits(t, "profile")} /\ task' = [task EXCEPT ![t] = x]
    BY <1>2 DEF AfterAccountWrite
  <2>2. task[t].job # "install" /\ x.job # "install"
    BY <1>0, <1>2, <2>1, JobKinds DEF AfterAccountWrite, Awaits, Task
  <2> QED BY <1>2, <2>1, <2>2, ReplacedHeld DEF AfterAccountWrite, shownVars
<1>3. CASE InitDone(t)
  <2>1. task' = [task EXCEPT ![t] = Begin(view, None)] /\ task[t].job = "init" /\ button' = button
    BY <1>3 DEF InitDone, Route
  <2>2. view \in Jobs \ {"install"} /\ view \notin PluginWrites
    BY JobKinds DEF ShownTypes
  <2>3. Begin(view, None).job # "install"
    BY <2>2, BeginIs
  <2> QED BY <2>1, <2>3, ReplacedHeld
<1>4. CASE ListRefreshed(t)
  <2>1. PICK x \in {Begin(view, None), Begin("plugins", None), Idle} : task' = [task EXCEPT ![t] = x]
    BY <1>4 DEF ListRefreshed, Route
  <2>2. view \in Views /\ "plugins" \in Views
    BY DEF ShownTypes, Views, Tables
  <2>3. x.job # "install"
    BY <1>0, <2>1, <2>2, BeginIs, JobKinds
  <2>4. button' = (button \/ task[t].job = "install")
    BY <1>4 DEF ListRefreshed
  <2> QED BY <2>1, <2>3, <2>4, ReplacedHeld
<1>5. CASE DotsRefreshed(t) \/ RowsDrawn(t)
  <2>1. task' = [task EXCEPT ![t] = Idle] /\ button' = button
    BY <1>5 DEF DotsRefreshed, RowsDrawn, Ends
  <2>2. task[t].job # "install"
    BY <1>5 DEF DotsRefreshed, RowsDrawn, Tables
  <2> QED BY <1>0, <2>1, <2>2, ReplacedHeld
<1>6. CASE SettingsDrawn(t) \/ ProfileDrawn(t)
  <2>1. PICK c \in {"profile", "sessions"} : task' = [task EXCEPT ![t] = Awaits(t, c)]
    BY <1>6 DEF SettingsDrawn, ProfileDrawn
  <2>2. button' = button /\ task[t].job # "install"
    BY <1>0, <1>6 DEF SettingsDrawn, ProfileDrawn, Gets, shownVars
  <2>3. Awaits(t, c).job # "install"
    BY <1>0, <2>2 DEF Awaits, Task
  <2> QED BY <2>1, <2>2, <2>3, ReplacedHeld
<1>7. CASE SessionsDrawn(t)
  <2>1. task' = [task EXCEPT ![t] = Idle] /\ button' = button
    BY <1>7 DEF SessionsDrawn, Ends
  <2>2. task[t].job # "install"
    BY <1>0, <1>7 DEF SessionsDrawn, Gets
  <2> QED BY <1>0, <2>1, <2>2, ReplacedHeld
<1>8. CASE LoggedOut(t) \/ Denied(t)
  <2>1. button' = TRUE /\ task' = [u \in Tasks |-> Idle]
    BY <1>8 DEF LoggedOut, Denied, Leaves
  <2> QED BY <1>0, <2>1 DEF HeldInv, ButtonIsHeld, InstallCalls
<1>9. CASE Failed(t)
  <2>1. task' = [task EXCEPT ![t] = Idle] /\ button' = (button \/ task[t].job = "install")
    BY <1>9 DEF Failed, Ends
  <2> QED BY <1>0, <2>1, ReplacedHeld
<1> QED BY <1>1, <1>2, <1>3, <1>4, <1>5, <1>6, <1>7, <1>8, <1>9 DEF Continues

\* The install button is disabled only while its one installation is under way, whatever
\* fails in between and wherever the user goes: with InstallOnceCorrect, it is disabled
\* exactly then.
THEOREM ButtonIsHeldCorrect == Spec => []ButtonIsHeld
<1>1. Init => HeldInv
  <2> SUFFICES ASSUME Init PROVE HeldInv
    OBVIOUS
  <2>1. PICK t \in Tasks : task = [u \in Tasks |-> IF u = t THEN Begin("init", None) ELSE Idle]
    BY DEF Init
  <2>2. Begin("init", None).job # "install" /\ Idle.job # "install"
    BY IdleIs, JobKinds, BeginIs
  <2> QED BY <2>1, <2>2 DEF Init, HeldInv, ButtonIsHeld, InstallCalls
<1>2. IInv /\ HeldInv /\ [Next]_vars => HeldInv'
  <2> SUFFICES ASSUME IInv, HeldInv, [Next]_vars PROVE HeldInv'
    OBVIOUS
  <2>1. TaskTypes /\ ShownTypes
    BY TypeParts DEF IInv
  <2>2. CASE UNCHANGED vars
    BY <2>2 DEF vars, shownVars, HeldInv, ButtonIsHeld, InstallCalls
  <2> QED BY <2>1, <2>2, UserHeld, ServerHeld, ContinuesHeld DEF Next
<1>3. HeldInv => ButtonIsHeld
  BY DEF HeldInv
<1> QED BY <1>1, <1>2, <1>3, DashboardInvariance, PTL DEF Spec
=============================================================================
