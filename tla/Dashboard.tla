------------------------------ MODULE Dashboard ------------------------------
(***************************************************************************)
(* The page of a signed-in user (internal/embed/web/js/app.js): the copies *)
(* of the server's plugins and sessions that it shows, and the calls that  *)
(* refresh them.                                                           *)
(*                                                                         *)
(* JavaScript runs one handler at a time, up to its next await: that is one *)
(* action.  A handler with a call under way is a task; the server serves    *)
(* the calls under way in any order, and their answers arrive in any order. *)
(* Other browsers, the gateway and the idle exit change the server meanwhile.*)
(***************************************************************************)
EXTENDS Naturals, FiniteSets

CONSTANTS
    Plugins, Menus,  \* plugins, and those of them whose manifest has menus
    Eager,           \* plugins whose manifest asks for keepalive
    Sessions, Mine,  \* sessions of the account, and this browser's
    Servers,         \* what the server may have when the page is loaded
    Landing,         \* views on which it may be loaded
    Tasks,           \* bound: calls under way at a time
    MaxEvents,       \* bound: what the user and others do to the server, and calls that fail
    None

VARIABLES
    server,        \* the server's plugins
    live,          \* sessions that are not over
    page,          \* what has become of the page
    view,          \* location.hash
    list,          \* the global `plugins`
    nav,           \* heads of the side bar, and those with a dot that is on
    drawer,        \* curPlugin, the state and keepalive it shows, whose log it shows
    rows,          \* names in the tables of the views
    sessions,      \* rows of the table of sessions
    button,        \* #btn-url-install is enabled
    task,
    events

serverVars == <<server, live>>
shownVars == <<page, view, list, nav, drawer, rows, sessions, button>>
vars == <<serverVars, shownVars, task, events>>

-----------------------------------------------------------------------------
PluginList == [in: SUBSET Plugins, on: SUBSET Plugins, kept: SUBSET Plugins]
Proper(l) == l.on \subseteq l.in /\ l.kept \subseteq l.in
NoPlugins == [in |-> {}, on |-> {}, kept |-> {}]

Tables == {"overview", "plugins"}  \* views with a table of plugins
Views == Tables \cup {"settings"}
ASSUME DashboardAssumption ==
    /\ Menus \subseteq Plugins /\ Eager \subseteq Plugins /\ Mine \in Sessions
    /\ None \notin Plugins \cup Sessions \cup Tasks
    /\ \A l \in Servers : l \in PluginList /\ Proper(l)
    /\ Landing \subseteq Views
    /\ Tasks \subseteq Nat /\ MaxEvents \in Nat

Actions == {"start", "stop", "restart"}
PluginWrites == Actions \cup {"keep", "unkeep", "uninstall", "install"}
AccountWrites == {"revoke", "revokeAll", "rename", "password"}
Jobs == PluginWrites \cup AccountWrites \cup Views \cup {"none", "init", "dots", "logout"}

\* A task: its handler and the plugin or session that is about, the call it awaits
\* and what has become of it, the plugins or sessions in the answer; history: its own
\* write was the last one to `server`.
Task == [job: Jobs, of: Plugins \cup Sessions \cup {None},
         call: {"none", "write", "list", "settings", "profile", "sessions"},
         reply: {"none", "sent", "ok", "error", "denied"},
         plug: PluginList, sess: SUBSET Sessions, last: BOOLEAN]
Idle == [job |-> "none", of |-> None, call |-> "none", reply |-> "none",
         plug |-> NoPlugins, sess |-> {}, last |-> FALSE]

Drawer == [of: Plugins \cup {None}, on: BOOLEAN, kept: BOOLEAN]

TypeOK ==
    /\ server \in PluginList /\ Proper(server) /\ list \in PluginList /\ Proper(list)
    /\ live \in SUBSET Sessions
    /\ page \in {"loading", "ready", "broken", "login"} /\ view \in Views
    /\ nav \in [heads: SUBSET Menus, dots: SUBSET Menus] /\ nav.dots \subseteq nav.heads
    /\ drawer \in Drawer
    /\ rows \in [Tables -> SUBSET Plugins] /\ sessions \in SUBSET Sessions
    /\ button \in BOOLEAN
    /\ task \in [Tasks -> Task] /\ \A t \in Tasks : Proper(task[t].plug)
    /\ \A t \in Tasks : task[t].job \in PluginWrites => task[t].of \in Plugins
    /\ events \in 0..MaxEvents

\* The drawer's state is of no interest while it is hidden.
Closed == [of |-> None, on |-> FALSE, kept |-> FALSE]

FirstCall(job) ==
    CASE job \in PluginWrites \cup AccountWrites \cup {"logout"} -> "write"
      [] job = "settings" -> "settings"
      [] OTHER -> "list"

Begin(job, of) == [Idle EXCEPT !.job = job, !.of = of, !.call = FirstCall(job), !.reply = "sent"]

\* The call after the next await of the same handler.
Awaits(t, call) == [task[t] EXCEPT !.call = call, !.reply = "sent"]

\* route(), for the views: renderOverview, renderPlugins or renderSettings.
Route == Begin(view', None)

\* A handler that runs up to its first call takes the first free task.
Starts(job, of) ==
    \E t \in Tasks :
        /\ task[t] = Idle /\ \A u \in Tasks : task[u] = Idle => t <= u
        /\ task' = [task EXCEPT ![t] = Begin(job, of)]

Init ==
    /\ server \in Servers /\ live \in SUBSET Sessions /\ Mine \in live
    /\ page = "loading" /\ view \in Landing
    /\ list = NoPlugins /\ nav = [heads |-> {}, dots |-> {}]
    /\ drawer = Closed
    /\ rows = [v \in Tables |-> {}] /\ sessions = {} /\ button = TRUE
    /\ \E t \in Tasks :
        /\ \A u \in Tasks : t <= u
        /\ task = [u \in Tasks |-> IF u = t THEN Begin("init", None) ELSE Idle]
    /\ events = 0

-----------------------------------------------------------------------------
(* What the user does.  The handlers are bound once init() has the page.   *)

Event == events < MaxEvents /\ events' = events + 1
Clicks == page = "ready" /\ Event
Uncovered == drawer.of = None  \* the drawer's mask covers the page

\* hashchange is bound from the start, also when init() fails.
Navigate(v) ==
    /\ page # "login" /\ Event
    /\ view' = v
    /\ \E t \in Tasks :
        /\ task[t] = Idle /\ \A u \in Tasks : task[u] = Idle => t <= u
        /\ task' = [task EXCEPT ![t] = Route]
    /\ UNCHANGED <<serverVars, page, list, nav, drawer, rows, sessions, button>>

\* refreshDrawer: the drawer shows p as list l has it.
ShowsIn(p, l) == [drawer EXCEPT !.of = p, !.on = p \in l.on, !.kept = p \in l.kept]

\* openDrawer, from a head of the side bar or from a "manage" button: a plugin that
\* the page's list lacks opens nothing.
OpenDrawer(p) ==
    /\ page = "ready" /\ Uncovered
    /\ p \in nav.heads \/ (view \in Tables /\ p \in rows[view])
    /\ p \in list.in
    /\ drawer' = ShowsIn(p, list)
    /\ UNCHANGED <<serverVars, page, view, list, nav, rows, sessions, button, task, events>>

CloseDrawer ==
    /\ drawer.of # None
    /\ drawer' = Closed
    /\ UNCHANGED <<serverVars, page, view, list, nav, rows, sessions, button, task, events>>

\* The buttons that refreshDrawer enables, and the uninstall button.
PluginAction(job) ==
    /\ Clicks /\ drawer.of # None
    /\ job = "start" => ~drawer.on
    /\ job \in {"stop", "restart"} => drawer.on
    /\ Starts(job, drawer.of)
    /\ UNCHANGED <<serverVars, shownVars>>

\* The box changes at once, whatever becomes of the call.
Keepalive ==
    /\ Clicks /\ drawer.of # None
    /\ drawer' = [drawer EXCEPT !.kept = ~@]
    /\ Starts(IF drawer'.kept THEN "keep" ELSE "unkeep", drawer.of)
    /\ UNCHANGED <<serverVars, page, view, list, nav, rows, sessions, button>>

\* Mutant: the button stays enabled while the download is under way.
UrlInstallEnabled(p) ==
    /\ Clicks /\ Uncovered /\ view = "plugins" /\ button
    /\ Starts("install", p)
    /\ UNCHANGED <<serverVars, shownVars>>

UrlInstall(p) ==
    /\ Clicks /\ Uncovered /\ view = "plugins" /\ button
    /\ button' = FALSE
    /\ Starts("install", p)
    /\ UNCHANGED <<serverVars, page, view, list, nav, drawer, rows, sessions>>

\* The account section; the row of the current session has no button.
Account(job, s) ==
    /\ Clicks /\ Uncovered /\ view = "settings"
    /\ IF job = "revoke" THEN s \in sessions \ {Mine} ELSE s = None
    /\ Starts(job, s)
    /\ UNCHANGED <<serverVars, shownVars>>

Logout ==
    /\ Clicks /\ Uncovered
    /\ Starts("logout", None)
    /\ UNCHANGED <<serverVars, shownVars>>

\* setInterval(refreshStatusDots, 15000), set by init().
Tick ==
    /\ page = "ready"
    /\ Starts("dots", None)
    /\ UNCHANGED <<serverVars, shownVars, events>>

-----------------------------------------------------------------------------
(* The server *)

\* `server` is written to by nobody else than task u.
NoLonger(u) == [t \in Tasks |-> [task[t] EXCEPT !.last = (t = u)]]

\* What others do: other browsers, the gateway, the idle exit, a crash.
ServerChanges(p) ==
    /\ Event
    /\ \/ server' = [server EXCEPT !.in = @ \cup {p}]
       \/ server' = [in |-> server.in \ {p}, on |-> server.on \ {p}, kept |-> server.kept \ {p}]
       \/ p \in server.in /\ server' = [server EXCEPT !.on = @ \cup {p}]
       \/ server' = [server EXCEPT !.on = @ \ {p}]
    /\ server' # server
    /\ task' = NoLonger(None)
    /\ UNCHANGED <<live, shownVars>>

SessionEnds(s) ==
    /\ s \in live /\ Event
    /\ live' = live \ {s}
    /\ UNCHANGED <<server, shownVars, task>>

\* Mutant: the directory and the record go, the process is not stopped.
WrittenNoStop(job, p) ==
    CASE job \in {"start", "restart"} -> [server EXCEPT !.on = @ \cup {p}]
      [] job = "stop" -> [server EXCEPT !.on = @ \ {p}]
      [] job = "keep" -> [server EXCEPT !.kept = @ \cup {p}]
      [] job = "unkeep" -> [server EXCEPT !.kept = @ \ {p}]
      [] job = "install" -> [server EXCEPT !.in = @ \cup {p}, !.kept = @ \cup (Eager \cap {p})]
      [] job = "uninstall" -> [server EXCEPT !.in = @ \ {p}, !.kept = @ \ {p}]

\* An upgrade keeps what was set; a new plugin has what its manifest says.
Written(job, p) ==
    CASE job \in {"start", "restart"} -> [server EXCEPT !.on = @ \cup {p}]
      [] job = "stop" -> [server EXCEPT !.on = @ \ {p}]
      [] job = "keep" -> [server EXCEPT !.kept = @ \cup {p}]
      [] job = "unkeep" -> [server EXCEPT !.kept = @ \ {p}]
      [] job = "install" -> [server EXCEPT !.in = @ \cup {p}, !.kept = @ \cup (Eager \cap {p})]
      [] job = "uninstall" -> [in |-> server.in \ {p}, on |-> server.on \ {p}, kept |-> server.kept \ {p}]

\* What the handlers of the API refuse: 404, or 400 for a stop of what does not run.
Accepts(job, p) ==
    CASE job = "install" -> TRUE
      [] job = "stop" -> p \in server.on
      [] OTHER -> p \in server.in

Answers(t, reply) == task' = [task EXCEPT ![t].reply = reply]

\* Sessions that a write of the account takes down.
TakesDown(job, s) ==
    CASE job = "revoke" -> {s}
      [] job \in {"revokeAll", "password"} -> Sessions \ {Mine}
      [] job = "logout" -> {Mine}
      [] OTHER -> {}

\* server.go auth: the session must not be over; a logout needs none.
Serve(t) ==
    LET job == task[t].job  x == task[t].of
        admitted == Mine \in live \/ job = "logout"
    IN
    /\ task[t].reply = "sent"
    /\ UNCHANGED <<shownVars, events>>
    /\ \/ ~admitted /\ Answers(t, "denied") /\ UNCHANGED serverVars
       \/ /\ admitted /\ job \in PluginWrites /\ task[t].call = "write"
          /\ \/ ~Accepts(job, x) /\ Answers(t, "error") /\ UNCHANGED server
             \/ /\ Accepts(job, x) /\ server' = Written(job, x)
                /\ task' = [NoLonger(t) EXCEPT ![t].reply = "ok"]
          /\ UNCHANGED live
       \/ /\ admitted /\ job \notin PluginWrites /\ task[t].call = "write"
          /\ live' = live \ TakesDown(job, x)
          /\ Answers(t, "ok") /\ UNCHANGED server
       \/ /\ admitted /\ task[t].call = "list"
          /\ task' = [task EXCEPT ![t].reply = "ok", ![t].plug = server]
          /\ UNCHANGED serverVars
       \/ /\ admitted /\ task[t].call = "sessions"
          /\ task' = [task EXCEPT ![t].reply = "ok", ![t].sess = live]
          /\ UNCHANGED serverVars
       \/ /\ admitted /\ task[t].call \in {"settings", "profile"}
          /\ Answers(t, "ok") /\ UNCHANGED serverVars

\* The connection breaks before the server has the call or after it has served it.
CallFails(t) ==
    /\ task[t].reply \in {"sent", "ok"}
    /\ Event
    /\ Answers(t, "error")
    /\ UNCHANGED <<serverVars, shownVars>>

\* Manager.Restart stops the plugin, and then it does not start.
RestartFails(t) ==
    /\ Mine \in live /\ task[t].job = "restart" /\ task[t].call = "write" /\ task[t].reply = "sent"
    /\ Event
    /\ server' = Written("stop", task[t].of)
    /\ task' = [NoLonger(t) EXCEPT ![t].reply = "error"]
    /\ UNCHANGED <<live, shownVars>>

-----------------------------------------------------------------------------
(* The page goes on with the answer of a call *)

Ends(t) == task' = [task EXCEPT ![t] = Idle]
Gets(t, call, reply) == task[t].call = call /\ task[t].reply = reply

NavOf(l) == [heads |-> l.in \cap Menus, dots |-> l.on \cap Menus]

\* Mutant: the drawer is given the plugin that the handler was about, not the one it shows.
RefreshPluginsOfHandler(t) ==
    LET l == task[t].plug IN
    /\ list' = l /\ nav' = NavOf(l)
    /\ drawer' = IF drawer.of # None /\ task[t].of \in l.in
                 THEN [ShowsIn(task[t].of, l) EXCEPT !.of = drawer.of] ELSE drawer

\* refreshPlugins: whatever plugin the drawer shows by now; one that is gone stays as it was.
RefreshPlugins(t) ==
    LET l == task[t].plug IN
    /\ list' = l /\ nav' = NavOf(l)
    /\ drawer' = IF drawer.of \in l.in THEN ShowsIn(drawer.of, l) ELSE drawer

\* Mutant: a handler draws what the page has, and does not fetch the list again.
AfterWriteFromPage(t) ==
    /\ task[t].job \in PluginWrites /\ Gets(t, "write", "ok")
    /\ task' = [task EXCEPT ![t] = [Awaits(t, "list") EXCEPT !.reply = "ok", !.plug = list]]
    /\ drawer' = IF task[t].job = "uninstall" THEN Closed ELSE drawer
    /\ UNCHANGED <<serverVars, page, view, list, nav, rows, sessions, button, events>>

\* The list is fetched once the write is answered; a drawer of another plugin closes too.
AfterWrite(t) ==
    /\ task[t].job \in PluginWrites /\ Gets(t, "write", "ok")
    /\ task' = [task EXCEPT ![t] = Awaits(t, "list")]
    /\ drawer' = IF task[t].job = "uninstall" THEN Closed ELSE drawer
    /\ UNCHANGED <<serverVars, page, view, list, nav, rows, sessions, button, events>>

\* Mutant: the table is drawn from what the page has.
AfterAccountWriteFromPage(t) ==
    /\ task[t].job \in AccountWrites /\ Gets(t, "write", "ok")
    /\ task' = [task EXCEPT ![t] =
            IF task[t].job = "password" THEN Idle
            ELSE [Awaits(t, "sessions") EXCEPT !.reply = "ok", !.sess = sessions]]
    /\ UNCHANGED <<serverVars, shownVars, events>>

\* renderAccount follows, but not after a change of the password.
AfterAccountWrite(t) ==
    /\ task[t].job \in AccountWrites /\ Gets(t, "write", "ok")
    /\ task' = [task EXCEPT ![t] = IF task[t].job = "password" THEN Idle ELSE Awaits(t, "profile")]
    /\ UNCHANGED <<serverVars, shownVars, events>>

\* init(): the page is drawn, its handlers bound and its timer set.
InitDone(t) ==
    /\ task[t].job = "init" /\ Gets(t, "list", "ok")
    /\ page' = "ready" /\ list' = task[t].plug /\ nav' = NavOf(list') /\ UNCHANGED view
    /\ task' = [task EXCEPT ![t] = Route]
    /\ UNCHANGED <<serverVars, drawer, rows, sessions, button, events>>

\* The end of the handlers that write; route() and renderPlugins() go on as tasks.
ListRefreshed(t) ==
    /\ task[t].job \in PluginWrites /\ Gets(t, "list", "ok")
    /\ RefreshPlugins(t)
    /\ button' = (button \/ task[t].job = "install")
    /\ UNCHANGED <<serverVars, page, view, rows, sessions, events>>
    /\ task' = [task EXCEPT ![t] = CASE task[t].job = "uninstall" -> Route
                                      [] task[t].job = "install" -> Begin("plugins", None)
                                      [] OTHER -> Idle]

\* Mutant: dots are switched on and never off.
DotsRefreshedOn(t) ==
    /\ task[t].job = "dots" /\ Gets(t, "list", "ok")
    /\ nav' = [nav EXCEPT !.dots = @ \cup (nav.heads \cap task[t].plug.on)]
    /\ Ends(t)
    /\ UNCHANGED <<serverVars, page, view, list, drawer, rows, sessions, button, events>>

\* refreshStatusDots: the dots of the heads that there are; `plugins` stays as it was.
DotsRefreshed(t) ==
    /\ task[t].job = "dots" /\ Gets(t, "list", "ok")
    /\ nav' = [nav EXCEPT !.dots = nav.heads \cap task[t].plug.on]
    /\ Ends(t)
    /\ UNCHANGED <<serverVars, page, view, list, drawer, rows, sessions, button, events>>

\* renderOverview and renderPlugins.
RowsDrawn(t) ==
    /\ task[t].job \in Tables /\ Gets(t, "list", "ok")
    /\ rows' = [rows EXCEPT ![task[t].job] = task[t].plug.in]
    /\ Ends(t)
    /\ UNCHANGED <<serverVars, page, view, list, nav, drawer, sessions, button, events>>

\* renderSettings, whether its call succeeds or not; then renderAccount.
SettingsDrawn(t) ==
    /\ task[t].call = "settings" /\ task[t].reply \in {"ok", "error"}
    /\ task' = [task EXCEPT ![t] = Awaits(t, "profile")]
    /\ UNCHANGED <<serverVars, shownVars, events>>

ProfileDrawn(t) ==
    /\ Gets(t, "profile", "ok")
    /\ task' = [task EXCEPT ![t] = Awaits(t, "sessions")]
    /\ UNCHANGED <<serverVars, shownVars, events>>

SessionsDrawn(t) ==
    /\ Gets(t, "sessions", "ok")
    /\ sessions' = task[t].sess
    /\ Ends(t)
    /\ UNCHANGED <<serverVars, page, view, list, nav, drawer, rows, button, events>>

\* The page is unloaded, and its calls with it.
Leaves ==
    /\ page' = "login" /\ task' = [t \in Tasks |-> Idle]
    /\ list' = NoPlugins /\ nav' = NavOf(NoPlugins) /\ drawer' = Closed
    /\ rows' = [v \in Tables |-> {}] /\ sessions' = {} /\ button' = TRUE

\* A logout ends on the login page, also when its call fails.
LoggedOut(t) ==
    /\ task[t].job = "logout" /\ task[t].reply \in {"ok", "error"}
    /\ Leaves
    /\ UNCHANGED <<serverVars, view, events>>

\* Mutant: a refused session is an error as any other.
DeniedStays(t) ==
    /\ task[t].reply = "denied"
    /\ Ends(t)
    /\ button' = (button \/ task[t].job = "install")
    /\ UNCHANGED <<serverVars, page, view, list, nav, drawer, rows, sessions, events>>

\* api(): every answer 401 leads to the login page.
Denied(t) ==
    /\ task[t].reply = "denied"
    /\ Leaves
    /\ UNCHANGED <<serverVars, view, events>>

\* Mutant: the button is enabled where the installation succeeds.
FailedStaysDisabled(t) ==
    /\ task[t].reply = "error" /\ task[t].call # "settings" /\ task[t].job # "logout"
    /\ page' = IF task[t].job = "init" THEN "broken" ELSE page
    /\ rows' = IF task[t].job = "plugins" THEN [rows EXCEPT !.plugins = {}] ELSE rows
    /\ Ends(t)
    /\ UNCHANGED <<serverVars, view, list, nav, drawer, sessions, button, events>>

\* An exception ends the handler: a toast, or nothing at all; renderPlugins writes the
\* error in the place of its table, and a page whose init() fails stays without handlers.
Failed(t) ==
    /\ task[t].reply = "error" /\ task[t].call # "settings" /\ task[t].job # "logout"
    /\ page' = IF task[t].job = "init" THEN "broken" ELSE page
    /\ rows' = IF task[t].job = "plugins" THEN [rows EXCEPT !.plugins = {}] ELSE rows
    /\ button' = (button \/ task[t].job = "install")
    /\ Ends(t)
    /\ UNCHANGED <<serverVars, view, list, nav, drawer, sessions, events>>

Continues(t) ==
    \/ AfterWrite(t) \/ AfterAccountWrite(t) \/ InitDone(t) \/ ListRefreshed(t)
    \/ DotsRefreshed(t) \/ RowsDrawn(t)
    \/ SettingsDrawn(t) \/ ProfileDrawn(t) \/ SessionsDrawn(t)
    \/ LoggedOut(t) \/ Denied(t) \/ Failed(t)

Next ==
    \/ \E v \in Views : Navigate(v)
    \/ \E p \in Plugins : OpenDrawer(p) \/ UrlInstall(p) \/ ServerChanges(p)
    \/ CloseDrawer \/ Keepalive \/ Logout \/ Tick
    \/ \E job \in AccountWrites, s \in Sessions \cup {None} : Account(job, s)
    \/ \E s \in Sessions : SessionEnds(s)
    \/ \E job \in Actions \cup {"uninstall"} : PluginAction(job)
    \/ \E t \in Tasks : Serve(t) \/ CallFails(t) \/ RestartFails(t) \/ Continues(t)

Spec == Init /\ [][Next]_vars

\* The timer goes on ticking, and every call is answered in the end.
Fairness ==
    /\ WF_vars(Tick)
    /\ \A t \in Tasks : WF_vars(Serve(t)) /\ WF_vars(Continues(t))
FairSpec == Spec /\ Fairness

-----------------------------------------------------------------------------
(* Properties *)

\* While the drawer shows a plugin that the page knows, its state and so its
\* enabled buttons are those of the page's list, whichever handlers have refreshed
\* the list since the drawer was opened, and for whichever plugin (refreshPlugins
\* reads curPlugin after its await).
DrawerFromList ==
    drawer.of \in list.in => drawer.on = (drawer.of \in list.on)

\* The button of the URL installation is disabled as long as one is under way, up to
\* the refreshed list: no second download is started beside it.
InstallOnce ==
    \A t \in Tasks : task[t].job = "install" =>
        ~button /\ \A u \in Tasks : task[u].job = "install" => u = t

\* A disabled install button has its installation: no failed write, failed list, refused
\* session or lost call leaves it disabled with nobody to enable it.  This is what
\* ButtonReturns rests on.
ButtonIsHeld == ~button => \E t \in Tasks : task[t].job = "install"

\* Read your writes: when a handler has drawn the list that it fetched after its
\* own call, and nobody has written since that call, the page has the server's
\* plugins (the awaits of pluginAction and of the handlers like it).
ReadYourWrites ==
    [][\A t \in Tasks : ListRefreshed(t) /\ task[t].last => list' = server]_vars

\* A session that the page has taken down is not in the table that the same
\* handler draws next.
RevokedIsGone ==
    [][\A t \in Tasks : SessionsDrawn(t) /\ task[t].job = "revoke"
          => task[t].of \notin sessions']_vars

\* The dots come to agree with the server, although nothing pushes its changes,
\* answers may overtake each other and calls may fail.
DotsConverge == <>[](page = "ready" => nav.dots = nav.heads \cap server.on)

\* A page whose session has ended goes to the login page without being touched.
SessionEndLeaves == (page = "ready" /\ Mine \notin live) ~> (page = "login")

\* The install button comes back, whatever becomes of the installation.
ButtonReturns == ~button ~> (button \/ page = "login")
=============================================================================
