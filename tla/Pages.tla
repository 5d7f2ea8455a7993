-------------------------------- MODULE Pages --------------------------------
(***************************************************************************)
(* Routing, language and theme of the panel's page (internal/embed/web/js/ *)
(* app.js and i18n.js), after its init() has succeeded.                    *)
(*                                                                         *)
(* The settings live in two places: in the browser (documentElement.lang,  *)
(* body.dataset.theme, localStorage) and in the server.  A click changes   *)
(* the first at once and sends the change to the second without awaiting   *)
(* it; every drawing of the settings page fetches the server's settings    *)
(* and takes over its language.  A change of the language draws the page   *)
(* anew, and so fetches them again.  The calls under way are bags: nothing *)
(* tells two of them apart, they are served and answered in any order.     *)
(***************************************************************************)
EXTENDS Naturals

CONSTANTS
    Langs,      \* languages of I18N
    Foreign,    \* what else the server may have as its language: it takes any short string
    Themes,
    Plugins,
    Loads,      \* what server, localStorage and location.hash may have when the page is loaded
    MaxEvents   \* bound: what the user and other browsers do, and calls that fail

VARIABLES
    server,     \* settings lang and theme of the panel
    lang,       \* documentElement.lang, _curLang and localStorage's mp-lang
    theme,      \* body.dataset.theme and localStorage's mp-theme
    mark,       \* theme highlighted in the picker
    asked,      \* how many GETs of the settings the server has not served
    answers,    \* bag of the answers under way
    puts,       \* bag of the PUTs under way
    hash, told, \* location.hash; whether the hashchange event is still to come
    shown,      \* the view, or the plugin, that route() has shown
    seen,       \* history: a GET was served since the server's language changed last,
                \*   and no GET was lost since
    frame,      \* plugin whose page the iframe has or loads, None at first
    loading,    \* its load event is still to come
    overlay,    \* the mask over the iframe: visible, its text, and which opening wrote it
    opened,     \* how often openPlugin was called
    timers,     \* openings whose 12-second timer runs
    frameTimer, \* the opening whose timer the global frameTimer has
    events

settingVars == <<server, lang, theme, mark, asked, answers, puts, seen>>
routeVars == <<hash, told, shown>>
frameVars == <<frame, loading, overlay, opened, timers, frameTimer>>
vars == <<settingVars, routeVars, frameVars, events>>

-----------------------------------------------------------------------------
None == "none"
\* The settings page, and the others, which neither fetch the settings nor have the iframe.
Views == {"settings", "other"}

Settings == [lang: Langs \cup Foreign, theme: Themes]

Load == [server: Settings, lang: Langs, theme: Themes, hash: Views \cup Plugins]

ASSUME PagesAssumption ==
    /\ Langs \cap Foreign = {} /\ Langs \cap Themes = {}
    /\ Plugins \cap (Views \cup {None}) = {}
    /\ Loads \subseteq Load /\ MaxEvents \in Nat

TypeOK ==
    /\ server \in Settings /\ lang \in Langs /\ theme \in Themes /\ mark \in Themes
    /\ asked \in Nat /\ answers \in [Settings -> Nat] /\ puts \in [Langs \cup Themes -> Nat]
    /\ seen \in BOOLEAN
    /\ hash \in Views \cup Plugins /\ shown \in Views \cup Plugins /\ told \in BOOLEAN
    /\ frame \in Plugins \cup {None} /\ loading \in BOOLEAN
    /\ overlay \in [on: BOOLEAN, text: {"cold", "late"}, by: Nat]
    /\ opened \in Nat /\ frameTimer \in Nat /\ timers \subseteq Nat
    /\ events \in 0..MaxEvents

Event == events < MaxEvents /\ events' = events + 1

More(bag, x) == [bag EXCEPT ![x] = @ + 1]
Less(bag, x) == [bag EXCEPT ![x] = @ - 1]

-----------------------------------------------------------------------------
(* route(), and what it calls *)

\* Mutant: the timer of the last opening runs on.
OpenPluginKeepsTimer(p) ==
    /\ frame' = p /\ loading' = TRUE
    /\ opened' = opened + 1 /\ overlay' = [on |-> TRUE, text |-> "cold", by |-> opened']
    /\ timers' = timers \cup {opened'}
    /\ frameTimer' = opened'

\* Mutant: no timer at all.
OpenPluginUntimed(p) ==
    /\ frame' = p /\ loading' = TRUE
    /\ opened' = opened + 1 /\ overlay' = [on |-> TRUE, text |-> "cold", by |-> opened']
    /\ UNCHANGED <<timers, frameTimer>>

\* The overlay, a new timer, and a new load that takes the place of one under way.
OpenPlugin(p) ==
    /\ frame' = p /\ loading' = TRUE
    /\ opened' = opened + 1 /\ overlay' = [on |-> TRUE, text |-> "cold", by |-> opened']
    /\ timers' = (timers \ {frameTimer}) \cup {opened'}
    /\ frameTimer' = opened'

\* Every call of route(), also one that shows what was shown, draws the view again:
\* a plugin's page is loaded again, the settings are fetched again.
Route(h) ==
    /\ shown' = h
    /\ IF h \in Plugins THEN OpenPlugin(h) ELSE UNCHANGED frameVars

\* How many GETs of the settings route() sends.
Fetches(h) == IF h = "settings" THEN 1 ELSE 0

\* Mutant: the event langchange has no listener.
SetLangQuietly(l) ==
    /\ lang' = l
    /\ UNCHANGED <<shown, frameVars, asked>>

\* setLang: the language in all its places, and through langchange route().  With a
\* code of I18N; `more` are the GETs of the same handler.
SetLang(l, more) ==
    /\ lang' = l
    /\ Route(hash)
    /\ asked' = asked + more + Fetches(hash)

Init ==
    /\ \E l \in Loads :
        server = l.server /\ lang = l.lang /\ theme = l.theme /\ hash = l.hash
    /\ mark = theme /\ told = FALSE /\ shown = hash
    /\ asked = Fetches(hash)
    /\ answers = [d \in Settings |-> 0] /\ puts = [v \in Langs \cup Themes |-> 0]
    /\ seen = FALSE
    /\ frame = (IF hash \in Plugins THEN hash ELSE None)
    /\ loading = (hash \in Plugins)
    /\ opened = (IF hash \in Plugins THEN 1 ELSE 0)
    /\ overlay = [on |-> hash \in Plugins, text |-> "cold", by |-> opened]
    /\ frameTimer = opened /\ timers = (IF hash \in Plugins THEN {1} ELSE {})
    /\ events = 0

-----------------------------------------------------------------------------
(* What the user does *)

\* A link, a button or the browser's history; hashchange follows as an event.
Navigate(h) ==
    /\ h # hash /\ Event
    /\ hash' = h /\ told' = TRUE
    /\ UNCHANGED <<settingVars, shown, frameVars>>

HashChange ==
    /\ told /\ told' = FALSE
    /\ Route(hash) /\ asked' = asked + Fetches(hash)
    /\ UNCHANGED <<server, lang, theme, mark, answers, puts, seen, hash, events>>

\* The PUT is sent and not awaited, and renderSettings sends its GET behind it.
PickLang(l) ==
    /\ shown = "settings" /\ Event
    /\ SetLang(l, 1)
    /\ puts' = More(puts, l)
    /\ UNCHANGED <<server, theme, mark, answers, seen, hash, told>>

PickTheme(th) ==
    /\ shown = "settings" /\ Event
    /\ theme' = th
    /\ puts' = More(puts, th) /\ asked' = asked + 1
    /\ UNCHANGED <<server, lang, mark, answers, seen, routeVars, frameVars>>

\* The end of the uninstall handler: route(), for the page that is open.
Uninstalled ==
    /\ Event
    /\ Route(hash) /\ asked' = asked + Fetches(hash)
    /\ UNCHANGED <<server, lang, theme, mark, answers, puts, seen, hash, told>>

-----------------------------------------------------------------------------
(* The server, and the calls *)

\* handleSettingsPut of one setting.
Sets(v) ==
    /\ server' = IF v \in Themes THEN [server EXCEPT !.theme = v] ELSE [server EXCEPT !.lang = v]
    /\ seen' = (seen /\ server'.lang = server.lang)

ServePut(v) ==
    /\ puts[v] > 0 /\ puts' = Less(puts, v)
    /\ Sets(v)
    /\ UNCHANGED <<lang, theme, mark, asked, answers, routeVars, frameVars, events>>

\* Another browser or a script; some set languages that this page does not know.
OtherSets(v) ==
    /\ Event
    /\ Sets(v)
    /\ UNCHANGED <<lang, theme, mark, asked, answers, puts, routeVars, frameVars>>

ServeGet ==
    /\ asked > 0 /\ asked' = asked - 1
    /\ answers' = More(answers, server) /\ seen' = TRUE
    /\ UNCHANGED <<server, lang, theme, mark, puts, routeVars, frameVars, events>>

\* A call is lost before or after it was served: a GET leaves the page as it is
\* (a toast), a PUT that fails is not noticed.
GetFails ==
    /\ Event
    /\ \/ asked > 0 /\ asked' = asked - 1 /\ UNCHANGED answers
       \/ \E d \in Settings : answers[d] > 0 /\ answers' = Less(answers, d) /\ UNCHANGED asked
    /\ seen' = FALSE
    /\ UNCHANGED <<server, lang, theme, mark, puts, routeVars, frameVars>>

PutFails(v) ==
    /\ puts[v] > 0 /\ puts' = Less(puts, v) /\ Event
    /\ UNCHANGED <<server, lang, theme, mark, asked, answers, seen, routeVars, frameVars>>

\* Mutant: a language without a table in I18N is taken over as well.
AdoptsUnchecked(d) ==
    IF d.lang # lang THEN SetLang(d.lang, 0)
    ELSE UNCHANGED <<lang, shown, frameVars, asked>>

\* Mutant: setLang is given whatever the server has, and falls back to a language of I18N.
AdoptsAny(d) ==
    IF d.lang # lang THEN SetLang(IF d.lang \in Langs THEN d.lang ELSE lang, 0)
    ELSE UNCHANGED <<lang, shown, frameVars, asked>>

\* Mutant: the answer changes the language, and nothing is drawn anew.
AdoptsQuietly(d) ==
    IF d.lang \in Langs \ {lang} THEN SetLangQuietly(d.lang)
    ELSE UNCHANGED <<lang, shown, frameVars, asked>>

\* "同步服务端语言": a known language that is not the page's becomes the page's.
Adopts(d) ==
    IF d.lang \in Langs \ {lang} THEN SetLang(d.lang, 0)
    ELSE UNCHANGED <<lang, shown, frameVars, asked>>

\* renderSettings goes on, on whatever page the user is by now.
SettingsAnswer(d) ==
    /\ answers[d] > 0 /\ answers' = Less(answers, d)
    /\ mark' = d.theme
    /\ Adopts(d)
    /\ UNCHANGED <<server, theme, puts, seen, hash, told, events>>

-----------------------------------------------------------------------------
(* The iframe *)

\* Whatever the gateway answers, also its error page.
FrameLoads ==
    /\ loading /\ loading' = FALSE
    /\ overlay' = [overlay EXCEPT !.on = FALSE]
    /\ UNCHANGED <<settingVars, routeVars, frame, opened, timers, frameTimer, events>>

FrameTimeout(i) ==
    /\ i \in timers /\ timers' = timers \ {i}
    /\ overlay' = [overlay EXCEPT !.text = "late", !.by = i]
    /\ UNCHANGED <<settingVars, routeVars, frame, loading, opened, frameTimer, events>>

Next ==
    \/ \E h \in Views \cup Plugins : Navigate(h)
    \/ HashChange \/ Uninstalled
    \/ \E l \in Langs : PickLang(l)
    \/ \E th \in Themes : PickTheme(th)
    \/ \E v \in Langs \cup Themes : ServePut(v) \/ PutFails(v)
    \/ \E v \in Langs \cup Foreign \cup Themes : OtherSets(v)
    \/ ServeGet \/ GetFails
    \/ \E d \in Settings : SettingsAnswer(d)
    \/ FrameLoads
    \/ \E i \in timers : FrameTimeout(i)

Spec == Init /\ [][Next]_vars

\* Events are handled, calls answered, timers fire; the page of a plugin need not load.
Fairness ==
    /\ WF_vars(HashChange) /\ WF_vars(ServeGet)
    /\ WF_vars(\E d \in Settings : SettingsAnswer(d))
    /\ WF_vars(\E i \in timers : FrameTimeout(i))
FairSpec == Spec /\ Fairness

-----------------------------------------------------------------------------
(* Properties *)

Quiet == asked = 0 /\ \A d \in Settings : answers[d] = 0

\* When the settings page has no call under way, and the server was read since its
\* language changed last, the page has the server's language, if it knows it: an old
\* answer that overtakes a new one is put right by the drawing that it causes.
LangSettles ==
    Quiet /\ shown = "settings" /\ seen /\ server.lang \in Langs => lang = server.lang

\* The drawing that a change of the language causes fetches the settings, which may
\* change the language again: it comes to rest, whatever the server has.
SettingsQuiet == <>[]Quiet

\* The overlay says that a plugin is late only when that opening has waited 12 seconds,
\* however quickly the user goes from plugin to plugin.
HonestOverlay == overlay.text = "late" => overlay.by = opened

\* While the overlay promises a cold start, the timer of the opening that wrote the promise
\* runs: no later opening, load or drawing of the route stops it and leaves the mask.  This
\* is what OverlayEnds rests on.
ColdIsTimed == overlay.on /\ overlay.text = "cold" => overlay.by \in timers

\* The overlay does not promise a cold start for ever.
OverlayEnds == overlay.on ~> (~overlay.on \/ overlay.text = "late")
=============================================================================
