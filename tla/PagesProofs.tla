----------------------------- MODULE PagesProofs -----------------------------
(* Theorems about Pages, for every value of its constants. *)
EXTENDS Pages, TLAPS

\* Only the timer of the last opening runs, and only it may have written "late".
OneTimer ==
    /\ timers \subseteq {frameTimer} /\ frameTimer = opened
    /\ overlay.text = "late" => overlay.by = opened

\* Somebody brings the server's language to the settings page, or it is there.
Follows ==
    \/ lang = server.lang
    \/ asked > 0
    \/ \E d \in Settings : answers[d] > 0 /\ d.lang = server.lang

LangFollows == shown = "settings" /\ seen /\ server.lang \in Langs => Follows

IInv == TypeOK /\ OneTimer /\ ColdIsTimed /\ LangFollows

-----------------------------------------------------------------------------
(* Types: those of the settings, of the route and of the iframe *)

SettingTypes ==
    /\ server \in Settings /\ lang \in Langs /\ theme \in Themes /\ mark \in Themes
    /\ asked \in Nat /\ answers \in [Settings -> Nat] /\ puts \in [Langs \cup Themes -> Nat]
    /\ seen \in BOOLEAN

RouteTypes ==
    /\ hash \in Views \cup Plugins /\ shown \in Views \cup Plugins /\ told \in BOOLEAN

FrameTypes ==
    /\ frame \in Plugins \cup {None} /\ loading \in BOOLEAN
    /\ overlay \in [on: BOOLEAN, text: {"cold", "late"}, by: Nat]
    /\ opened \in Nat /\ frameTimer \in Nat /\ timers \subseteq Nat

LEMMA TypeParts ==
    TypeOK <=> SettingTypes /\ RouteTypes /\ FrameTypes /\ events \in 0..MaxEvents
BY DEF TypeOK, SettingTypes, RouteTypes, FrameTypes

LEMMA EventTypes ==
    ASSUME events \in 0..MaxEvents, Event PROVE events' \in 0..MaxEvents
BY PagesAssumption DEF Event

LEMMA Same ==
    /\ SettingTypes /\ UNCHANGED settingVars => SettingTypes'
    /\ RouteTypes /\ UNCHANGED routeVars => RouteTypes'
    /\ FrameTypes /\ UNCHANGED frameVars => FrameTypes'
    /\ OneTimer /\ UNCHANGED frameVars => OneTimer'
    /\ ColdIsTimed /\ UNCHANGED frameVars => ColdIsTimed'
BY DEF SettingTypes, RouteTypes, FrameTypes, settingVars, routeVars, frameVars, OneTimer,
       ColdIsTimed

\* A bag stays one.
LEMMA Bags ==
    ASSUME NEW S, NEW bag \in [S -> Nat], NEW x \in S
    PROVE  /\ More(bag, x) \in [S -> Nat] /\ More(bag, x)[x] > 0
           /\ \A y \in S : y # x => More(bag, x)[y] = bag[y] /\ Less(bag, x)[y] = bag[y]
           /\ bag[x] > 0 => Less(bag, x) \in [S -> Nat]
BY DEF More, Less

LEMMA FetchesIs == ASSUME NEW h PROVE Fetches(h) \in Nat /\ (h = "settings" => Fetches(h) > 0)
BY DEF Fetches

\* What every drawing of a route does to the iframe.
LEMMA RouteIs ==
    ASSUME FrameTypes, OneTimer, ColdIsTimed, NEW h \in Views \cup Plugins, Route(h)
    PROVE  shown' = h /\ FrameTypes' /\ OneTimer' /\ ColdIsTimed'
<1>1. CASE h \in Plugins
  <2>1. OpenPlugin(h) /\ shown' = h
    BY <1>1 DEF Route
  <2>2. overlay' = [on |-> TRUE, text |-> "cold", by |-> opened'] /\ opened' \in Nat
    BY <2>1 DEF OpenPlugin, FrameTypes
  <2>3. FrameTypes'
    BY <1>1, <2>1, <2>2 DEF OpenPlugin, FrameTypes
  <2>4. OneTimer'
    BY <2>1, <2>2 DEF OpenPlugin, OneTimer
  <2>5. ColdIsTimed'
    BY <2>1, <2>2 DEF OpenPlugin, ColdIsTimed
  <2> QED BY <2>1, <2>3, <2>4, <2>5
<1>2. CASE h \notin Plugins
  BY <1>2, Same DEF Route
<1> QED BY <1>1, <1>2

\* After a drawing the settings are on their way whenever they are shown.
LEMMA RouteFollows ==
    ASSUME NEW h, shown' = h, asked \in Nat, NEW more \in Nat, asked' = asked + more + Fetches(h)
    PROVE  asked' \in Nat /\ LangFollows'
BY FetchesIs DEF LangFollows, Follows

-----------------------------------------------------------------------------
LEMMA InitInv == Init => IInv
<1> SUFFICES ASSUME Init PROVE IInv
  OBVIOUS
<1>1. PICK l \in Loads : server = l.server /\ lang = l.lang /\ theme = l.theme /\ hash = l.hash
  BY DEF Init
<1>2. l \in Load
  BY PagesAssumption
<1>3. SettingTypes
  <2>1. asked \in Nat
    BY FetchesIs DEF Init
  <2> QED BY <1>1, <1>2, <2>1 DEF Init, SettingTypes, Load
<1>4. RouteTypes
  BY <1>1, <1>2 DEF Init, RouteTypes, Load
<1>5. FrameTypes
  BY DEF Init, FrameTypes
<1>6. events \in 0..MaxEvents
  BY PagesAssumption DEF Init
<1>7. OneTimer
  BY DEF Init, OneTimer
<1>8. LangFollows
  BY DEF Init, LangFollows
<1>9. ColdIsTimed
  BY DEF Init, ColdIsTimed
<1> QED BY <1>3, <1>4, <1>5, <1>6, <1>7, <1>8, <1>9, TypeParts DEF IInv

\* A write of a setting: a new language makes what was read before it old.
LEMMA SetsInv ==
    ASSUME SettingTypes, LangFollows, NEW v \in Langs \cup Foreign \cup Themes, Sets(v),
           UNCHANGED <<lang, theme, mark, asked, answers, shown>>,
           puts' \in [Langs \cup Themes -> Nat]
    PROVE  SettingTypes' /\ LangFollows'
<1>1. server' \in Settings /\ seen' \in BOOLEAN
  BY DEF Sets, SettingTypes, Settings
<1>2. LangFollows'
  <2>1. seen' => seen /\ server'.lang = server.lang
    BY DEF Sets
  <2> QED BY <2>1 DEF LangFollows, Follows
<1> QED BY <1>1, <1>2 DEF SettingTypes

LEMMA AnswerInv ==
    ASSUME TypeOK, OneTimer, ColdIsTimed, LangFollows, NEW d \in Settings, SettingsAnswer(d)
    PROVE  SettingTypes' /\ FrameTypes' /\ RouteTypes' /\ OneTimer' /\ ColdIsTimed' /\ LangFollows'
<1>0. SettingTypes /\ RouteTypes /\ FrameTypes
  BY TypeParts
<1>1. answers' \in [Settings -> Nat] /\ \A e \in Settings : e # d => answers'[e] = answers[e]
  BY <1>0, Bags DEF SettingsAnswer, SettingTypes
<1>2. mark' \in Themes
  BY DEF SettingsAnswer, Settings
<1>3. CASE d.lang \in Langs \ {lang}
  <2>1. SetLang(d.lang, 0)
    BY <1>3 DEF SettingsAnswer, Adopts
  <2>2. Route(hash) /\ lang' \in Langs /\ asked' = asked + 0 + Fetches(hash)
    BY <1>3, <2>1 DEF SetLang
  <2>3. shown' = hash /\ FrameTypes' /\ OneTimer' /\ ColdIsTimed' /\ asked' \in Nat /\ LangFollows'
    BY <1>0, <2>2, RouteIs, RouteFollows DEF RouteTypes, SettingTypes
  <2> QED BY <1>0, <1>1, <1>2, <2>2, <2>3 DEF SettingsAnswer, SettingTypes, RouteTypes
<1>4. CASE d.lang \notin Langs \ {lang}
  <2>1. UNCHANGED <<lang, shown, frameVars, asked>>
    BY <1>4 DEF SettingsAnswer, Adopts
  <2>2. SettingTypes' /\ RouteTypes' /\ FrameTypes' /\ OneTimer' /\ ColdIsTimed'
    BY <1>0, <1>1, <1>2, <2>1, Same DEF SettingsAnswer, SettingTypes, RouteTypes
  <2>3. LangFollows'
    <3> SUFFICES ASSUME shown = "settings", seen, server.lang \in Langs PROVE Follows'
      BY <2>1 DEF LangFollows, SettingsAnswer
    <3>1. CASE lang = server.lang \/ asked > 0
      BY <2>1, <3>1 DEF Follows, SettingsAnswer
    <3>2. ASSUME NEW e \in Settings, answers[e] > 0, e.lang = server.lang PROVE Follows'
      BY <1>1, <1>4, <2>1, <3>2 DEF Follows, SettingsAnswer
    <3> QED BY <3>1, <3>2 DEF LangFollows, Follows
  <2> QED BY <2>2, <2>3
<1> QED BY <1>3, <1>4

LEMMA StepInv == IInv /\ [Next]_vars => IInv'
<1> SUFFICES ASSUME IInv, [Next]_vars PROVE IInv'
  OBVIOUS
<1>0. SettingTypes /\ RouteTypes /\ FrameTypes /\ events \in 0..MaxEvents
      /\ TypeOK /\ OneTimer /\ ColdIsTimed /\ LangFollows
  BY TypeParts DEF IInv
<1> DEFINE Goal == SettingTypes' /\ RouteTypes' /\ FrameTypes' /\ events' \in 0..MaxEvents
                   /\ OneTimer' /\ ColdIsTimed' /\ LangFollows'
<1> SUFFICES Goal
  BY TypeParts DEF IInv, TypeOK, SettingTypes, RouteTypes, FrameTypes
<1>1. ASSUME NEW h \in Views \cup Plugins, Navigate(h) PROVE Goal
  <2>1. RouteTypes' /\ events' \in 0..MaxEvents
    BY <1>0, <1>1, EventTypes DEF Navigate, RouteTypes
  <2>2. LangFollows'
    BY <1>0, <1>1 DEF Navigate, settingVars, LangFollows, Follows
  <2> QED BY <1>0, <1>1, <2>1, <2>2, Same DEF Navigate
<1>2. CASE HashChange
  <2>1. Route(hash) /\ asked' = asked + 0 + Fetches(hash)
    BY <1>0, <1>2, FetchesIs DEF HashChange, SettingTypes
  <2>2. shown' = hash /\ FrameTypes' /\ OneTimer' /\ ColdIsTimed' /\ asked' \in Nat /\ LangFollows'
    BY <1>0, <2>1, RouteIs, RouteFollows DEF RouteTypes, SettingTypes
  <2> QED BY <1>0, <1>2, <2>2 DEF HashChange, SettingTypes, RouteTypes
<1>3. CASE Uninstalled
  <2>1. Route(hash) /\ asked' = asked + 0 + Fetches(hash)
    BY <1>0, <1>3, FetchesIs DEF Uninstalled, SettingTypes
  <2>2. shown' = hash /\ FrameTypes' /\ OneTimer' /\ ColdIsTimed' /\ asked' \in Nat /\ LangFollows'
    BY <1>0, <2>1, RouteIs, RouteFollows DEF RouteTypes, SettingTypes
  <2> QED BY <1>0, <1>3, <2>2, EventTypes DEF Uninstalled, SettingTypes, RouteTypes
<1>4. ASSUME NEW l \in Langs, PickLang(l) PROVE Goal
  <2>1. Route(hash) /\ asked' = asked + 1 + Fetches(hash) /\ lang' \in Langs
    BY <1>4 DEF PickLang, SetLang
  <2>2. shown' = hash /\ FrameTypes' /\ OneTimer' /\ ColdIsTimed' /\ asked' \in Nat /\ LangFollows'
    BY <1>0, <2>1, RouteIs, RouteFollows DEF RouteTypes, SettingTypes
  <2>3. puts' \in [Langs \cup Themes -> Nat]
    BY <1>0, <1>4, Bags DEF PickLang, SettingTypes
  <2> QED BY <1>0, <1>4, <2>1, <2>2, <2>3, EventTypes DEF PickLang, SettingTypes, RouteTypes
<1>5. ASSUME NEW th \in Themes, PickTheme(th) PROVE Goal
  <2>1. puts' \in [Langs \cup Themes -> Nat]
    BY <1>0, <1>5, Bags DEF PickTheme, SettingTypes
  <2>2. SettingTypes'
    BY <1>0, <1>5, <2>1 DEF PickTheme, SettingTypes
  <2>3. LangFollows'
    BY <1>0, <1>5 DEF PickTheme, SettingTypes, LangFollows, Follows
  <2> QED BY <1>0, <1>5, <2>2, <2>3, EventTypes, Same DEF PickTheme
<1>6. ASSUME NEW v \in Langs \cup Themes, ServePut(v) PROVE Goal
  <2>1. puts' \in [Langs \cup Themes -> Nat]
    BY <1>0, <1>6, Bags DEF ServePut, SettingTypes
  <2>2. SettingTypes' /\ LangFollows'
    BY <1>0, <1>6, <2>1, SetsInv DEF ServePut, routeVars
  <2> QED BY <1>0, <1>6, <2>2, Same DEF ServePut
<1>7. ASSUME NEW v \in Langs \cup Themes, PutFails(v) PROVE Goal
  <2>1. puts' \in [Langs \cup Themes -> Nat]
    BY <1>0, <1>7, Bags DEF PutFails, SettingTypes
  <2>2. SettingTypes' /\ LangFollows'
    BY <1>0, <1>7, <2>1 DEF PutFails, routeVars, SettingTypes, LangFollows, Follows
  <2> QED BY <1>0, <1>7, <2>2, EventTypes, Same DEF PutFails
<1>8. ASSUME NEW v \in Langs \cup Foreign \cup Themes, OtherSets(v) PROVE Goal
  <2>1. SettingTypes' /\ LangFollows'
    BY <1>0, <1>8, SetsInv DEF OtherSets, routeVars, SettingTypes
  <2> QED BY <1>0, <1>8, <2>1, EventTypes, Same DEF OtherSets
<1>9. CASE ServeGet
  <2>1. answers' \in [Settings -> Nat] /\ answers'[server] > 0 /\ server \in Settings
    BY <1>0, <1>9, Bags DEF ServeGet, SettingTypes
  <2>2. SettingTypes'
    BY <1>0, <1>9, <2>1 DEF ServeGet, SettingTypes
  <2>3. LangFollows'
    BY <1>9, <2>1 DEF ServeGet, LangFollows, Follows
  <2> QED BY <1>0, <1>9, <2>2, <2>3, Same DEF ServeGet
<1>10. CASE GetFails
  <2>1. answers' \in [Settings -> Nat] /\ asked' \in Nat
    BY <1>0, <1>10, Bags DEF GetFails, SettingTypes
  <2>2. SettingTypes' /\ LangFollows'
    BY <1>0, <1>10, <2>1 DEF GetFails, SettingTypes, LangFollows
  <2> QED BY <1>0, <1>10, <2>2, EventTypes, Same DEF GetFails
<1>11. ASSUME NEW d \in Settings, SettingsAnswer(d) PROVE Goal
  BY <1>0, <1>11, AnswerInv DEF SettingsAnswer
<1>12. CASE FrameLoads
  <2>1. FrameTypes' /\ OneTimer' /\ ColdIsTimed'
    BY <1>0, <1>12 DEF FrameLoads, FrameTypes, OneTimer, ColdIsTimed
  <2>2. LangFollows'
    BY <1>0, <1>12 DEF FrameLoads, settingVars, routeVars, LangFollows, Follows
  <2> QED BY <1>0, <1>12, <2>1, <2>2, Same DEF FrameLoads
<1>13. ASSUME NEW i \in timers, FrameTimeout(i) PROVE Goal
  <2>1. FrameTypes' /\ OneTimer' /\ ColdIsTimed'
    BY <1>0, <1>13 DEF FrameTimeout, FrameTypes, OneTimer, ColdIsTimed
  <2>2. LangFollows'
    BY <1>0, <1>13 DEF FrameTimeout, settingVars, routeVars, LangFollows, Follows
  <2> QED BY <1>0, <1>13, <2>1, <2>2, Same DEF FrameTimeout
<1>14. CASE UNCHANGED vars
  <2>1. LangFollows'
    BY <1>0, <1>14 DEF vars, settingVars, routeVars, LangFollows, Follows
  <2> QED BY <1>0, <1>14, <2>1, Same DEF vars
<1> QED
  BY <1>1, <1>2, <1>3, <1>4, <1>5, <1>6, <1>7, <1>8, <1>9, <1>10, <1>11, <1>12, <1>13, <1>14
  DEF Next

-----------------------------------------------------------------------------
\* The inductive invariant, for any languages, themes and plugins and any number of events.
THEOREM PagesInvariance == Spec => []IInv
BY InitInv, StepInv, PTL DEF Spec

\* The page never has a language without a table in I18N, whatever the server has, and the
\* bags of calls never go below zero.
THEOREM PagesTypeCorrect == Spec => []TypeOK
<1>1. IInv => TypeOK
  BY DEF IInv
<1> QED BY <1>1, PagesInvariance, PTL

\* However many GETs and PUTs of the settings are under way and in whatever order they are
\* served and answered, the page ends with the server's language.
THEOREM LangSettlesCorrect == Spec => []LangSettles
<1>1. ASSUME IInv PROVE LangSettles
  <2>1. SettingTypes /\ LangFollows
    BY <1>1, TypeParts DEF IInv
  <2> QED BY <2>1 DEF SettingTypes, LangFollows, Follows, LangSettles, Quiet
<1> QED BY <1>1, PagesInvariance, PTL

\* The text that a plugin is late is never that of an earlier opening.
THEOREM HonestOverlayCorrect == Spec => []HonestOverlay
<1>1. IInv => HonestOverlay
  BY DEF IInv, OneTimer, HonestOverlay
<1> QED BY <1>1, PagesInvariance, PTL

\* Through any openings of plugins the promise of a cold start has a timer that ends it.
THEOREM ColdIsTimedCorrect == Spec => []ColdIsTimed
<1>1. IInv => ColdIsTimed
  BY DEF IInv
<1> QED BY <1>1, PagesInvariance, PTL
=============================================================================
