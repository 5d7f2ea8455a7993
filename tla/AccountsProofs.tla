---------------------------- MODULE AccountsProofs ----------------------------
(* Theorems about Accounts, for every value of its constants. *)
EXTENDS Accounts, TLAPS

\* While no change of the user name has been seen, a login knows the account by its name, and
\* so does the session it has created.
LoginsKeepName ==
    \A x \in Handlers :
        h[x].step \in {"rehash", "create", "single"} /\ "name" \notin h[x].seen
        => /\ h[x].name = user.name
           /\ h[x].step = "single" => sessions[h[x].sess].name = user.name

\* While no change of the password has been seen, a login that is to renew the hash has
\* verified the password that was set last.
PasswordsVerified ==
    \A x \in Handlers :
        h[x].step = "rehash" /\ "password" \notin h[x].seen => h[x].pw = lastSet \/ undone

IInv ==
    /\ TypeOK
    /\ SessionsFollowName
    /\ LoginsKeepName
    /\ SingleSession
    /\ PasswordStands
    /\ PasswordsVerified

-----------------------------------------------------------------------------
(* Types *)

\* Taking sessions down changes nothing else about them.
LEMMA VoidOnlyVoids ==
    ASSUME TypeOK, NEW S, S \subseteq Created, Void(S)
    PROVE  /\ sessions' \in [Sessions -> SessionRecord \cup {None}]
           /\ \A s \in Sessions :
                /\ sessions'[s] = None <=> sessions[s] = None
                /\ s \notin S => sessions'[s] = sessions[s]
                /\ s \in S => /\ sessions'[s].name = sessions[s].name
                              /\ sessions'[s].api = sessions[s].api
                              /\ ~ sessions'[s].valid
<1>1. \A s \in S : s \in Sessions /\ sessions[s] \in SessionRecord
  BY DEF Created, TypeOK
<1>2. \A s \in S : [sessions[s] EXCEPT !.valid = FALSE] \in SessionRecord
  BY <1>1 DEF SessionRecord
<1>3. None \notin SessionRecord
  BY NoneAssumption
<1>4. \A s \in S : /\ sessions'[s] = [sessions[s] EXCEPT !.valid = FALSE]
                   /\ sessions'[s].name = sessions[s].name
                   /\ sessions'[s].api = sessions[s].api
                   /\ ~ sessions'[s].valid
  BY <1>1 DEF Void, SessionRecord
<1>5. \A s \in Sessions \ S : sessions'[s] = sessions[s]
  BY DEF Void
<1>6. sessions' \in [Sessions -> SessionRecord \cup {None}]
  BY <1>2, <1>4, <1>5 DEF Void, TypeOK
<1>7. \A s \in S : sessions[s] # None /\ sessions'[s] # None
  BY <1>1, <1>2, <1>3, <1>4
<1> QED BY <1>1, <1>4, <1>5, <1>6, <1>7

\* A change of the user name changes nothing else about the account and its sessions.
LEMMA RenameOnlyRenames ==
    ASSUME TypeOK, NEW old, NEW new \in Names, UpdateUsername(old, new)
    PROVE  /\ user' \in User
           /\ user'.name = IF user.name = old THEN new ELSE user.name
           /\ user'.pw = user.pw
           /\ sessions' \in [Sessions -> SessionRecord \cup {None}]
           /\ \A s \in Sessions :
                /\ sessions'[s] = None <=> sessions[s] = None
                /\ sessions[s] # None =>
                     /\ sessions'[s].name = IF sessions[s].name = old THEN new
                                            ELSE sessions[s].name
                     /\ sessions'[s].api = sessions[s].api
                     /\ sessions'[s].valid = sessions[s].valid
<1>1. /\ user' \in User /\ user'.pw = user.pw
      /\ user'.name = IF user.name = old THEN new ELSE user.name
  BY DEF UpdateUsername, TypeOK, User
<1>2. None \notin SessionRecord
  BY NoneAssumption
<1>3. ASSUME NEW s \in Sessions, sessions[s] # None
      PROVE  /\ sessions'[s] \in SessionRecord
             /\ sessions'[s].name = IF sessions[s].name = old THEN new ELSE sessions[s].name
             /\ sessions'[s].api = sessions[s].api
             /\ sessions'[s].valid = sessions[s].valid
  BY <1>3 DEF UpdateUsername, TypeOK, Created, SessionRecord
<1>4. ASSUME NEW s \in Sessions, sessions[s] = None PROVE sessions'[s] = None
  BY <1>4 DEF UpdateUsername, Created
<1>5. sessions' \in [Sessions -> SessionRecord \cup {None}]
  BY <1>3, <1>4 DEF UpdateUsername
<1> QED BY <1>1, <1>2, <1>3, <1>4, <1>5

\* None is none of the values it stands in for.
LEMMA NoneApart ==
    /\ None \notin Names /\ None \notin Passwords /\ None \notin Sessions
    /\ None \notin SessionRecord
BY NoneAssumption

\* A handler that serves no request is well typed.
LEMMA IdleType == Idle \in Handler /\ Idle.step = "idle"
BY DEF Idle, Handler

\* What a handler sees of the others changes nothing else about it.
LEMMA SeenOnly ==
    \A r \in Handler : \A what \in {"name", "password"} :
        LET q == [r EXCEPT !.seen = @ \cup {what}]
        IN  /\ q \in Handler
            /\ q.step = r.step /\ q.name = r.name /\ q.goal = r.goal
            /\ q.sess = r.sess /\ q.pw = r.pw
            /\ q.seen = r.seen \cup {what}
BY DEF Handler

\* A panel that has been set up and serves no request is well typed.
LEMMA TypeInit == Init => TypeOK
<1> SUFFICES ASSUME Init
             PROVE  TypeOK
  OBVIOUS
<1>1. user \in User /\ lastSet \in Passwords /\ undone \in BOOLEAN
  BY DEF Init, User
<1>2. \A x \in Handlers : h[x] \in Handler /\ Ready(x)
  BY IdleType DEF Init, Ready
<1> QED BY <1>1, <1>2 DEF Init, TypeOK

\* A step of one handler keeps the types of all, if it keeps those of its own variables and no
\* session disappears.
LEMMA HandlerStep ==
    ASSUME TypeOK, NEW x \in Handlers,
           h' = [y \in Handlers |-> h'[y]],
           \A y \in Handlers \ {x} :
               \/ h'[y] = h[y]
               \/ h'[y] = [h[y] EXCEPT !.seen = @ \cup {"name"}]
               \/ h'[y] = [h[y] EXCEPT !.seen = @ \cup {"password"}],
           h'[x] \in Handler, Ready(x)',
           \A s \in Sessions : sessions[s] # None => sessions'[s] # None
    PROVE  h' \in [Handlers -> Handler] /\ \A y \in Handlers : Ready(y)'
<1>1. ASSUME NEW y \in Handlers, y # x
      PROVE  h'[y] \in Handler /\ Ready(y)'
  <2>1. h[y] \in Handler /\ Ready(y)
    BY DEF TypeOK
  <2>2. /\ h'[y] \in Handler
        /\ h'[y].step = h[y].step /\ h'[y].name = h[y].name /\ h'[y].goal = h[y].goal
        /\ h'[y].sess = h[y].sess /\ h'[y].pw = h[y].pw
    <3>1. CASE h'[y] = h[y]
      BY <2>1, <3>1
    <3>2. CASE h'[y] = [h[y] EXCEPT !.seen = @ \cup {"name"}]
      <4>1. [h[y] EXCEPT !.seen = @ \cup {"name"}] \in Handler
        BY <2>1 DEF Handler
      <4> QED BY <2>1, <3>2, <4>1 DEF Handler
    <3>3. CASE h'[y] = [h[y] EXCEPT !.seen = @ \cup {"password"}]
      <4>1. [h[y] EXCEPT !.seen = @ \cup {"password"}] \in Handler
        BY <2>1 DEF Handler
      <4> QED BY <2>1, <3>3, <4>1 DEF Handler
    <3> QED BY <1>1, <3>1, <3>2, <3>3
  <2>3. h[y].sess \in Sessions \cup {None}
    BY <2>1 DEF Handler
  <2> QED BY <2>1, <2>2, <2>3 DEF Ready
<1>2. \A y \in Handlers : h'[y] \in Handler /\ Ready(y)'
  BY <1>1
<1> QED BY <1>2

\* A handler that goes on to another step keeps its variables.
LEMMA GotoType ==
    ASSUME TypeOK, NEW x \in Handlers, NEW step \in {"create", "rename", "password"},
           Goto(x, step),
           h[x].step # "idle",
           step = "rename" => h[x].step = "check name",
           step = "password" => h[x].step = "check password",
           UNCHANGED sessions
    PROVE  h' \in [Handlers -> Handler] /\ \A y \in Handlers : Ready(y)'
<1>1. h[x] \in Handler /\ Ready(x)
  BY DEF TypeOK
<1>2. h'[x] = [h[x] EXCEPT !.step = step]
  BY DEF Goto, TypeOK
<1>3. h'[x] \in Handler /\ Ready(x)'
  BY <1>1, <1>2 DEF Handler, Ready
<1>4. h' = [y \in Handlers |-> h'[y]] /\ \A y \in Handlers \ {x} : h'[y] = h[y]
  BY DEF Goto, TypeOK
<1> QED BY <1>3, <1>4, HandlerStep

\* So does a handler that has finished.
LEMMA FinishType ==
    ASSUME TypeOK, NEW x \in Handlers, Finish(x),
           \A s \in Sessions : sessions[s] # None => sessions'[s] # None
    PROVE  h' \in [Handlers -> Handler] /\ \A y \in Handlers : Ready(y)'
<1>1. h'[x] = Idle
  BY DEF Finish, TypeOK
<1>2. h'[x] \in Handler /\ Ready(x)'
  BY <1>1, IdleType DEF Ready
<1>3. h' = [y \in Handlers |-> h'[y]] /\ \A y \in Handlers \ {x} : h'[y] = h[y]
  BY DEF Finish, TypeOK
<1> QED BY <1>2, <1>3, HandlerStep

\* Each action keeps the types.
LEMMA TypeNext == TypeOK /\ [Next]_vars => TypeOK'
<1> SUFFICES ASSUME TypeOK, [Next]_vars
             PROVE  TypeOK'
  OBVIOUS
<1>1. ASSUME NEW x \in Handlers, NEW api \in BOOLEAN, Login(x, api) PROVE TypeOK'
  <2>1. user.name \in Names /\ user.pw \in Passwords
    BY DEF TypeOK, User
  <2>2. /\ h'[x] = [Idle EXCEPT !.step = IF user.legacy THEN "rehash" ELSE "create",
                               !.name = user.name, !.pw = user.pw, !.api = api]
        /\ h' = [y \in Handlers |-> h'[y]] /\ \A y \in Handlers \ {x} : h'[y] = h[y]
    BY <1>1 DEF Login, TypeOK
  <2>3. /\ h'[x].step \in {"rehash", "create"}
        /\ h'[x].name = user.name /\ h'[x].pw = user.pw
        /\ h'[x] \in Handler
    BY <2>1, <2>2 DEF Idle, Handler
  <2> h'[x] \in Handler /\ Ready(x)'
    BY <2>1, <2>3, NoneApart DEF Ready
  <2>4. UNCHANGED <<user, sessions, history>>
    BY <1>1 DEF Login
  <2>5. h' \in [Handlers -> Handler] /\ \A y \in Handlers : Ready(y)'
    BY <2>2, <2>3, <2>4, HandlerStep
  <2> QED BY <2>4, <2>5 DEF TypeOK, history
<1>2. ASSUME NEW x \in Handlers, Rehash(x) PROVE TypeOK'
  <2>1. user' \in User /\ undone' \in BOOLEAN
    BY <1>2 DEF Rehash, At, UpdatePassword, TypeOK, Ready, User, Handler
  <2>2. h' \in [Handlers -> Handler] /\ \A y \in Handlers : Ready(y)'
    BY <1>2, GotoType DEF Rehash, At
  <2> QED BY <1>2, <2>1, <2>2 DEF Rehash, TypeOK
<1>3. ASSUME NEW x \in Handlers, NEW s \in Sessions, LoginCreate(x, s) PROVE TypeOK'
  <2> DEFINE new == [name |-> h[x].name, api |-> h[x].api, valid |-> TRUE]
  <2>1. h[x] \in Handler /\ Ready(x) /\ h[x].step = "create"
    BY <1>3 DEF LoginCreate, At, TypeOK
  <2>2. new \in SessionRecord /\ new # None
    <3>1. h[x].name \in Names /\ h[x].api \in BOOLEAN
      BY <2>1 DEF Handler, Ready
    <3>2. new \in SessionRecord
      BY <3>1 DEF SessionRecord
    <3> QED BY <3>2, NoneApart
  <2>3. /\ sessions' \in [Sessions -> SessionRecord \cup {None}]
        /\ \A t \in Sessions : sessions[t] # None => sessions'[t] # None
        /\ sessions'[s] # None
    BY <1>3, <2>2 DEF LoginCreate, TypeOK
  <2>4. h' \in [Handlers -> Handler] /\ \A y \in Handlers : Ready(y)'
    <3>1. CASE h[x].api
      BY <1>3, <2>3, <3>1, FinishType DEF LoginCreate
    <3>2. CASE ~ h[x].api
      <4>1. /\ h'[x] = [h[x] EXCEPT !.step = "single", !.sess = s]
            /\ h' = [y \in Handlers |-> h'[y]] /\ \A y \in Handlers \ {x} : h'[y] = h[y]
        BY <1>3, <3>2 DEF LoginCreate, TypeOK
      <4>2. /\ h'[x] \in Handler
            /\ h'[x].step = "single" /\ h'[x].sess = s /\ h'[x].name = h[x].name
        BY <2>1, <4>1 DEF Handler
      <4> h'[x] \in Handler /\ Ready(x)'
        BY <2>1, <2>3, <4>2, NoneApart DEF Ready
      <4> QED BY <2>3, <4>1, <4>2, HandlerStep
    <3> QED BY <3>1, <3>2
  <2>5. /\ answered' \in SUBSET Sessions /\ calm' \in SUBSET answered'
        /\ \A t \in answered' : sessions'[t] # None
    BY <1>3, <2>3 DEF LoginCreate, Answer, TypeOK, history
  <2> QED BY <1>3, <2>3, <2>4, <2>5 DEF LoginCreate, Answer, TypeOK, history
<1>4. ASSUME NEW x \in Handlers, LoginSingle(x) PROVE TypeOK'
  <2>1. Others(h[x].name, h[x].sess) \subseteq Created
    BY DEF Others
  <2>2. h[x].sess \in Sessions /\ sessions[h[x].sess] # None
    BY <1>4 DEF LoginSingle, At, TypeOK, Ready, Handler
  <2>3. /\ sessions' \in [Sessions -> SessionRecord \cup {None}]
        /\ \A t \in Sessions : sessions'[t] = None <=> sessions[t] = None
    BY <1>4, <2>1, VoidOnlyVoids DEF LoginSingle
  <2>4. /\ answered' \in SUBSET Sessions /\ calm' \in SUBSET answered'
        /\ \A t \in answered' : sessions'[t] # None
    BY <1>4, <2>2, <2>3 DEF LoginSingle, Answer, TypeOK
  <2>5. h' \in [Handlers -> Handler] /\ \A y \in Handlers : Ready(y)'
    BY <1>4, <2>3, FinishType DEF LoginSingle
  <2> QED BY <1>4, <2>3, <2>4, <2>5 DEF LoginSingle, Answer, TypeOK
<1>5. ASSUME NEW x \in Handlers, NEW s \in answered, Request(x, s) PROVE TypeOK'
  <2>1. s \in Sessions /\ sessions[s] \in SessionRecord
    BY DEF TypeOK
  <2>2. PICK step \in {"others", "revoke", "check name", "check password"},
             goal \in Names \cup Passwords \cup Sessions \cup {None} :
          /\ Authorised(x, s, step, goal)
          /\ step = "check name" => goal \in Names
          /\ step = "revoke" => goal \in Sessions
          /\ step = "check password" => goal \in Passwords
    BY <1>5 DEF Request, Created
  <2>3. /\ h'[x] = [Idle EXCEPT !.step = step, !.name = sessions[s].name, !.sess = s,
                               !.goal = goal]
        /\ h' = [y \in Handlers |-> h'[y]] /\ \A y \in Handlers \ {x} : h'[y] = h[y]
    BY <2>2 DEF Authorised, TypeOK
  <2>4. sessions[s].name \in Names
    BY <2>1 DEF SessionRecord
  <2>5. /\ h'[x] \in Handler
        /\ h'[x].step = step /\ h'[x].name = sessions[s].name
        /\ h'[x].sess = s /\ h'[x].goal = goal
    BY <2>1, <2>2, <2>3, <2>4 DEF Handler, Idle
  <2> h'[x] \in Handler /\ Ready(x)'
    BY <2>1, <2>2, <2>4, <2>5, NoneApart DEF Ready
  <2>6. UNCHANGED <<user, sessions, history>>
    BY <2>2 DEF Authorised
  <2>7. h' \in [Handlers -> Handler] /\ \A y \in Handlers : Ready(y)'
    BY <2>3, <2>5, <2>6, HandlerStep
  <2> QED BY <2>6, <2>7 DEF TypeOK, history
<1>6. ASSUME NEW S, S \subseteq Created, Void(S), UNCHANGED <<user, history>>,
             h' = h \/ \E x \in Handlers : Finish(x)
      PROVE  TypeOK'
  <2>1. /\ sessions' \in [Sessions -> SessionRecord \cup {None}]
        /\ \A t \in Sessions : sessions'[t] = None <=> sessions[t] = None
    BY <1>6, VoidOnlyVoids
  <2>2. h' \in [Handlers -> Handler] /\ \A y \in Handlers : Ready(y)'
    <3>1. CASE h' = h
      BY <2>1, <3>1 DEF TypeOK, Ready, Handler
    <3>2. CASE \E x \in Handlers : Finish(x)
      BY <2>1, <3>2, FinishType
    <3> QED BY <1>6, <3>1, <3>2
  <2> QED BY <1>6, <2>1, <2>2 DEF TypeOK, history
<1>7. ASSUME NEW x \in Handlers, RevokeSession(x) PROVE TypeOK'
  BY <1>6, <1>7 DEF RevokeSession
<1>8. ASSUME NEW x \in Handlers, RevokeOthers(x) PROVE TypeOK'
  BY <1>6, <1>8 DEF RevokeOthers, Others
<1>9. ASSUME NEW x \in Handlers, NameCheck(x) PROVE TypeOK'
  <2>1. h' \in [Handlers -> Handler] /\ \A y \in Handlers : Ready(y)'
    BY <1>9, GotoType, FinishType DEF NameCheck, At
  <2> QED BY <1>9, <2>1 DEF NameCheck, TypeOK, history
<1>10. ASSUME NEW x \in Handlers, Rename(x) PROVE TypeOK'
  <2>1. h[x].goal \in Names
    BY <1>10 DEF Rename, At, TypeOK, Ready
  <2>2. /\ user' \in User
        /\ sessions' \in [Sessions -> SessionRecord \cup {None}]
        /\ \A t \in Sessions : sessions'[t] = None <=> sessions[t] = None
    BY <1>10, <2>1, RenameOnlyRenames DEF Rename
  <2>3. h' \in [Handlers -> Handler] /\ \A y \in Handlers : Ready(y)'
    <3>1. CASE Show(x, "name", Idle)
      <4>1. /\ h'[x] = Idle /\ h' = [y \in Handlers |-> h'[y]]
            /\ \A y \in Handlers \ {x} :
                  h'[y] = h[y] \/ h'[y] = [h[y] EXCEPT !.seen = @ \cup {"name"}]
        BY <3>1 DEF Show
      <4>2. h'[x] \in Handler /\ Ready(x)'
        BY <4>1, IdleType DEF Ready
      <4> QED BY <2>2, <4>1, <4>2, HandlerStep
    <3>2. CASE Finish(x)
      BY <2>2, <3>2, FinishType
    <3> QED BY <1>10, <3>1, <3>2 DEF Rename
  <2> QED BY <1>10, <2>2, <2>3 DEF Rename, TypeOK, history
<1>11. ASSUME NEW x \in Handlers, NEW old \in Passwords, PasswordCheck(x, old) PROVE TypeOK'
  <2>1. h' \in [Handlers -> Handler] /\ \A y \in Handlers : Ready(y)'
    BY <1>11, GotoType, FinishType DEF PasswordCheck, At
  <2> QED BY <1>11, <2>1 DEF PasswordCheck, TypeOK, history
<1>12. ASSUME NEW x \in Handlers, PasswordSet(x) PROVE TypeOK'
  <2>1. h[x].goal \in Passwords /\ h[x].name # None /\ h[x].sess # None
    BY <1>12 DEF PasswordSet, At, TypeOK, Ready
  <2>2. user' \in User /\ lastSet' \in Passwords /\ undone' \in BOOLEAN
    BY <1>12, <2>1 DEF PasswordSet, UpdatePassword, TypeOK, User
  <2>3. h' \in [Handlers -> Handler] /\ \A y \in Handlers : Ready(y)'
    <3>1. CASE Show(x, "password", [h[x] EXCEPT !.step = "others"])
      <4>1. /\ h'[x] = [h[x] EXCEPT !.step = "others"] /\ h' = [y \in Handlers |-> h'[y]]
            /\ \A y \in Handlers \ {x} :
                  h'[y] = h[y] \/ h'[y] = [h[y] EXCEPT !.seen = @ \cup {"password"}]
        BY <3>1 DEF Show
      <4>2. h[x] \in Handler /\ Ready(x)
        BY DEF TypeOK
      <4>3. h'[x] \in Handler /\ Ready(x)'
        BY <2>1, <4>1, <4>2 DEF Handler, Ready
      <4>4. UNCHANGED sessions
        BY <1>12 DEF PasswordSet
      <4> QED BY <4>1, <4>3, <4>4, HandlerStep
    <3>2. CASE Finish(x)
      BY <1>12, <3>2, FinishType DEF PasswordSet
    <3> QED BY <1>12, <3>1, <3>2 DEF PasswordSet
  <2> QED BY <1>12, <2>2, <2>3 DEF PasswordSet, TypeOK
<1>13. ASSUME NEW s \in answered, Logout(s) PROVE TypeOK'
  BY <1>6, <1>13 DEF Logout, Created, TypeOK
<1>14. ASSUME NEW s \in Sessions, Expire(s) PROVE TypeOK'
  BY <1>6, <1>14 DEF Expire
<1>15. CASE Restart
  BY <1>15, IdleType DEF Restart, TypeOK, Ready, history
<1>16. CASE UNCHANGED vars
  BY <1>16 DEF vars, TypeOK, Ready
<1> QED BY <1>1, <1>2, <1>3, <1>4, <1>5, <1>7, <1>8, <1>9, <1>10, <1>11, <1>12, <1>13, <1>14,
           <1>15, <1>16 DEF Next

\* Whatever the handlers do, the account, its sessions and the handlers stay well typed.
THEOREM AccountsTypeCorrect == Spec => []TypeOK
BY TypeInit, TypeNext, PTL DEF Spec

-----------------------------------------------------------------------------
(* Names *)

\* The same, with the account and the sessions keeping their names: the logins still know the
\* account by its name, if the one that stepped does.
LEMMA NamesKept ==
    ASSUME IInv, NEW x \in Handlers,
           user'.name = user.name,
           \A s \in Sessions : sessions[s] # None => sessions'[s].name = sessions[s].name,
           \A y \in Handlers \ {x} :
               \/ h'[y] = h[y]
               \/ h'[y] = [h[y] EXCEPT !.seen = @ \cup {"password"}],
           h'[x].step \in {"rehash", "create", "single"} /\ "name" \notin h'[x].seen
           => /\ h'[x].name = user.name
              /\ h'[x].step = "single" => sessions'[h'[x].sess].name = user.name
    PROVE  LoginsKeepName'
<1>1. ASSUME NEW y \in Handlers \ {x},
             h'[y].step \in {"rehash", "create", "single"}, "name" \notin h'[y].seen
      PROVE  /\ h'[y].name = user.name
             /\ h'[y].step = "single" => sessions'[h'[y].sess].name = user.name
  <2>1. h[y] \in Handler /\ Ready(y)
    BY DEF IInv, TypeOK
  <2>2. /\ h'[y].step = h[y].step /\ h'[y].name = h[y].name /\ h'[y].sess = h[y].sess
        /\ "name" \notin h[y].seen
    <3>1. CASE h'[y] = h[y]
      BY <1>1, <3>1
    <3>2. CASE h'[y] = [h[y] EXCEPT !.seen = @ \cup {"password"}]
      BY <1>1, <2>1, <3>2, SeenOnly
    <3> QED BY <3>1, <3>2
  <2>3. h[y].step = "single" => h[y].sess \in Sessions /\ sessions[h[y].sess] # None
    BY <2>1 DEF Handler, Ready
  <2> QED BY <1>1, <2>2, <2>3 DEF IInv, LoginsKeepName
<1> QED BY <1>1 DEF LoginsKeepName

\* Steps that at most take sessions down, and end at most one handler.
LEMMA NamesVoid ==
    ASSUME IInv, NEW S, S \subseteq Created, Void(S), UNCHANGED user,
           h' = h \/ \E x \in Handlers : Finish(x)
    PROVE  LoginsKeepName' /\ \A s \in calm : sessions'[s].name = user'.name
<1>1. \A s \in Sessions : sessions[s] # None => sessions'[s].name = sessions[s].name
  BY VoidOnlyVoids DEF IInv
<1>2. \A s \in calm : s \in Sessions /\ sessions[s] # None /\ sessions[s].name = user.name
  BY DEF IInv, TypeOK, SessionsFollowName
<1>3. CASE h' = h
  <2>1. ASSUME NEW x \in Handlers
        PROVE  h[x].step = "single" => h[x].sess \in Sessions /\ sessions[h[x].sess] # None
    BY DEF IInv, TypeOK, Ready, Handler
  <2> QED BY <1>1, <1>2, <1>3, <2>1 DEF IInv, LoginsKeepName
<1>4. ASSUME NEW x \in Handlers, Finish(x)
      PROVE  LoginsKeepName'
  <2>1. h'[x] = Idle /\ \A y \in Handlers \ {x} : h'[y] = h[y]
    BY <1>4 DEF Finish, IInv, TypeOK
  <2> QED BY <1>1, <2>1, IdleType, NamesKept
<1> QED BY <1>1, <1>2, <1>3, <1>4

\* Each action keeps the account and its sessions under one name.
LEMMA NamesNext == IInv /\ [Next]_vars => SessionsFollowName' /\ LoginsKeepName'
<1> SUFFICES ASSUME IInv, [Next]_vars
             PROVE  SessionsFollowName' /\ LoginsKeepName'
  OBVIOUS
<1>a. /\ h \in [Handlers -> Handler] /\ sessions \in [Sessions -> SessionRecord \cup {None}]
      /\ user \in User /\ \A x \in Handlers : Ready(x)
      /\ \A s \in calm : s \in Sessions /\ sessions[s] # None /\ sessions[s].name = user.name
  BY DEF IInv, TypeOK, SessionsFollowName
<1>b. ASSUME NEW x \in Handlers, NEW r, h' = [h EXCEPT ![x] = r],
             r.step \in {"rehash", "create", "single"} /\ "name" \notin r.seen
             => r.step # "single" /\ r.name = user.name,
             user'.name = user.name, UNCHANGED <<sessions, calm>>
      PROVE  SessionsFollowName' /\ LoginsKeepName'
  <2>1. h'[x] = r /\ \A y \in Handlers \ {x} : h'[y] = h[y]
    BY <1>a, <1>b
  <2>2. LoginsKeepName'
    BY <1>b, <2>1, NamesKept
  <2> QED BY <1>a, <1>b, <2>2 DEF SessionsFollowName
<1>c. ASSUME NEW S, S \subseteq Created, Void(S), UNCHANGED <<user, calm>>,
             h' = h \/ \E x \in Handlers : Finish(x)
      PROVE  SessionsFollowName' /\ LoginsKeepName'
  BY <1>c, NamesVoid DEF SessionsFollowName
<1>1. ASSUME NEW x \in Handlers, NEW api \in BOOLEAN, Login(x, api)
      PROVE  SessionsFollowName' /\ LoginsKeepName'
  <2> DEFINE r == [Idle EXCEPT !.step = IF user.legacy THEN "rehash" ELSE "create",
                               !.name = user.name, !.pw = user.pw, !.api = api]
  <2>1. r.step # "single" /\ r.name = user.name
    BY DEF Idle
  <2>2. h' = [h EXCEPT ![x] = r]
    BY <1>1 DEF Login
  <2>3. UNCHANGED <<user, sessions, calm>>
    BY <1>1 DEF Login, history
  <2> HIDE DEF r
  <2> QED BY <1>b, <2>1, <2>2, <2>3
<1>2. ASSUME NEW x \in Handlers, Rehash(x)
      PROVE  SessionsFollowName' /\ LoginsKeepName'
  <2>1. h[x] \in Handler /\ h[x].step = "rehash"
    BY <1>2, <1>a DEF Rehash, At
  <2>2. /\ h'[x] = [h[x] EXCEPT !.step = "create"]
        /\ \A y \in Handlers \ {x} : h'[y] = h[y]
    BY <1>2, <1>a DEF Rehash, Goto
  <2>3. h'[x].step = "create" /\ h'[x].name = h[x].name /\ h'[x].seen = h[x].seen
    BY <2>1, <2>2 DEF Handler
  <2>4. user'.name = user.name /\ UNCHANGED <<sessions, calm>>
    BY <1>2, <1>a DEF Rehash, UpdatePassword, User
  <2>5. "name" \notin h[x].seen => h[x].name = user.name
    BY <2>1 DEF IInv, LoginsKeepName
  <2>6. LoginsKeepName'
    BY <2>2, <2>3, <2>4, <2>5, NamesKept
  <2> QED BY <1>a, <2>4, <2>6 DEF SessionsFollowName
<1>3. ASSUME NEW x \in Handlers, NEW s \in Sessions, LoginCreate(x, s)
      PROVE  SessionsFollowName' /\ LoginsKeepName'
  <2>1. h[x] \in Handler /\ h[x].step = "create" /\ sessions[s] = None /\ s \notin calm
    BY <1>3, <1>a DEF LoginCreate, At
  <2>2. /\ UNCHANGED user
        /\ sessions'[s].name = h[x].name
        /\ \A t \in Sessions : sessions[t] # None => sessions'[t].name = sessions[t].name
    BY <1>3, <1>a, <2>1 DEF LoginCreate
  <2>3. "name" \notin h[x].seen => h[x].name = user.name
    BY <2>1 DEF IInv, LoginsKeepName
  <2>4. LoginsKeepName'
    <3>1. CASE h[x].api
      <4>1. h'[x] = Idle /\ \A y \in Handlers \ {x} : h'[y] = h[y]
        BY <1>3, <1>a, <3>1 DEF LoginCreate, Finish
      <4> QED BY <2>2, <4>1, IdleType, NamesKept
    <3>2. CASE ~ h[x].api
      <4>1. /\ h'[x] = [h[x] EXCEPT !.step = "single", !.sess = s]
            /\ \A y \in Handlers \ {x} : h'[y] = h[y]
        BY <1>3, <1>a, <3>2 DEF LoginCreate
      <4>2. h'[x].sess = s /\ h'[x].name = h[x].name /\ h'[x].seen = h[x].seen
        BY <2>1, <4>1 DEF Handler
      <4> QED BY <2>2, <2>3, <4>1, <4>2, NamesKept
    <3> QED BY <3>1, <3>2
  <2>5. calm' \subseteq calm \cup {s} /\ ("name" \in h[x].seen => calm' = calm)
    BY <1>3 DEF LoginCreate, Answer, history
  <2> QED BY <1>a, <2>1, <2>2, <2>3, <2>4, <2>5 DEF SessionsFollowName
<1>4. ASSUME NEW x \in Handlers, LoginSingle(x)
      PROVE  SessionsFollowName' /\ LoginsKeepName'
  <2>1. h[x] \in Handler /\ h[x].step = "single" /\ Ready(x)
    BY <1>4, <1>a DEF LoginSingle, At
  <2>2. h[x].sess \in Sessions /\ sessions[h[x].sess] # None
    BY <2>1 DEF Handler, Ready
  <2>3. Others(h[x].name, h[x].sess) \subseteq Created
    BY DEF Others
  <2>4. LoginsKeepName' /\ \A t \in calm : sessions'[t].name = user'.name
    BY <1>4, <2>3, NamesVoid DEF LoginSingle
  <2>5. UNCHANGED user /\ sessions'[h[x].sess].name = sessions[h[x].sess].name
    BY <1>4, <2>2, <2>3, VoidOnlyVoids DEF LoginSingle, IInv
  <2>6. "name" \notin h[x].seen => sessions[h[x].sess].name = user.name
    BY <2>1 DEF IInv, LoginsKeepName
  <2>7. calm' = IF "name" \in h[x].seen THEN calm ELSE calm \cup {h[x].sess}
    BY <1>4 DEF LoginSingle, Answer
  <2> QED BY <2>4, <2>5, <2>6, <2>7 DEF SessionsFollowName
<1>5. ASSUME NEW x \in Handlers, NEW s \in answered, Request(x, s)
      PROVE  SessionsFollowName' /\ LoginsKeepName'
  <2>1. PICK step \in {"others", "revoke", "check name", "check password"},
             goal \in Names \cup Passwords \cup Sessions \cup {None} :
          Authorised(x, s, step, goal)
    BY <1>5 DEF Request, Created
  <2> DEFINE r == [Idle EXCEPT !.step = step, !.name = sessions[s].name, !.sess = s,
                               !.goal = goal]
  <2>2. r.step \notin {"rehash", "create", "single"}
    BY DEF Idle
  <2>3. h' = [h EXCEPT ![x] = r] /\ UNCHANGED <<user, sessions, calm>>
    BY <2>1 DEF Authorised, history
  <2> HIDE DEF r
  <2> QED BY <1>b, <2>2, <2>3
<1>6. ASSUME NEW x \in Handlers, RevokeSession(x)
      PROVE  SessionsFollowName' /\ LoginsKeepName'
  BY <1>6, <1>c DEF RevokeSession, history
<1>7. ASSUME NEW x \in Handlers, RevokeOthers(x)
      PROVE  SessionsFollowName' /\ LoginsKeepName'
  BY <1>7, <1>c DEF RevokeOthers, Others, history
<1>8. ASSUME NEW x \in Handlers, UNCHANGED <<user, sessions, calm>>,
             Finish(x) \/ \E step \in {"rename", "password"} : Goto(x, step)
      PROVE  SessionsFollowName' /\ LoginsKeepName'
  <2>1. CASE Finish(x)
    BY <1>8, <2>1, <1>b, IdleType DEF Finish
  <2>2. ASSUME NEW step \in {"rename", "password"}, Goto(x, step)
        PROVE  SessionsFollowName' /\ LoginsKeepName'
    <3>1. h[x] \in Handler
      BY <1>a
    <3>2. /\ h'[x] = [h[x] EXCEPT !.step = step]
          /\ \A y \in Handlers \ {x} : h'[y] = h[y]
      BY <2>2, <1>a DEF Goto
    <3>3. h'[x].step = step
      BY <3>1, <3>2 DEF Handler
    <3>4. LoginsKeepName'
      BY <1>8, <3>2, <3>3, NamesKept
    <3> QED BY <1>a, <1>8, <3>4 DEF SessionsFollowName
  <2> QED BY <1>8, <2>1, <2>2
<1>9. ASSUME NEW x \in Handlers, NameCheck(x)
      PROVE  SessionsFollowName' /\ LoginsKeepName'
  BY <1>8, <1>9 DEF NameCheck, history
<1>10. ASSUME NEW x \in Handlers, Rename(x)
       PROVE  SessionsFollowName' /\ LoginsKeepName'
  <2> DEFINE new == h[x].goal
  <2>1. h[x].step = "rename" /\ new \in Names
    BY <1>10, <1>a DEF Rename, At, Ready
  <2>2. /\ user'.name = IF user.name = h[x].name THEN new ELSE user.name
        /\ \A s \in Sessions : sessions[s] # None =>
             sessions'[s].name = IF sessions[s].name = h[x].name THEN new ELSE sessions[s].name
    BY <1>10, <2>1, RenameOnlyRenames DEF Rename, IInv
  <2>3. SessionsFollowName'
    BY <1>10, <1>a, <2>2 DEF Rename, history, SessionsFollowName
  <2>4. CASE user.name = h[x].name
    <3>1. \A y \in Handlers : h'[y] = Idle \/ h'[y] = [h[y] EXCEPT !.seen = @ \cup {"name"}]
      BY <1>10, <2>4 DEF Rename, Show
    <3>2. ASSUME NEW y \in Handlers
          PROVE  h'[y].step = "idle" \/ "name" \in h'[y].seen
      <4>1. h[y] \in Handler
        BY <1>a
      <4>2. CASE h'[y] = [h[y] EXCEPT !.seen = @ \cup {"name"}]
        BY <4>1, <4>2, SeenOnly
      <4> QED BY <3>1, <4>2, IdleType
    <3> QED BY <2>3, <3>2 DEF LoginsKeepName
  <2>5. CASE user.name # h[x].name
    <3>1. ASSUME NEW y \in Handlers,
                 h'[y].step \in {"rehash", "create", "single"}, "name" \notin h'[y].seen
          PROVE  /\ h'[y].name = user'.name
                 /\ h'[y].step = "single" => sessions'[h'[y].sess].name = user'.name
      <4>1. h'[y] = h[y]
        BY <1>10, <1>a, <2>5, <3>1, IdleType DEF Rename, Finish
      <4>2. h[y].step = "single" => h[y].sess \in Sessions /\ sessions[h[y].sess] # None
        BY <1>a DEF Ready, Handler
      <4> QED BY <2>2, <2>5, <3>1, <4>1, <4>2 DEF IInv, LoginsKeepName
    <3> QED BY <2>3, <3>1 DEF LoginsKeepName
  <2> QED BY <2>4, <2>5
<1>11. ASSUME NEW x \in Handlers, NEW old \in Passwords, PasswordCheck(x, old)
       PROVE  SessionsFollowName' /\ LoginsKeepName'
  BY <1>8, <1>11 DEF PasswordCheck, history
<1>12. ASSUME NEW x \in Handlers, PasswordSet(x)
       PROVE  SessionsFollowName' /\ LoginsKeepName'
  <2>1. user'.name = user.name /\ UNCHANGED <<sessions, calm>>
    BY <1>12, <1>a DEF PasswordSet, UpdatePassword, User
  <2>2. CASE Finish(x)
    BY <1>b, <2>1, <2>2, IdleType DEF Finish
  <2>3. CASE Show(x, "password", [h[x] EXCEPT !.step = "others"])
    <3>1. /\ h'[x] = [h[x] EXCEPT !.step = "others"]
          /\ \A y \in Handlers \ {x} :
                h'[y] = h[y] \/ h'[y] = [h[y] EXCEPT !.seen = @ \cup {"password"}]
      BY <2>3 DEF Show
    <3>2. h'[x].step = "others"
      <4>1. h[x] \in Handler
        BY <1>a
      <4> QED BY <3>1, <4>1 DEF Handler
    <3>3. LoginsKeepName'
      BY <2>1, <3>1, <3>2, NamesKept
    <3> QED BY <1>a, <2>1, <3>3 DEF SessionsFollowName
  <2> QED BY <1>12, <2>2, <2>3 DEF PasswordSet
<1>13. ASSUME NEW s \in answered, Logout(s)
       PROVE  SessionsFollowName' /\ LoginsKeepName'
  BY <1>13, <1>c DEF Logout, Created, IInv, TypeOK, history
<1>14. ASSUME NEW s \in Sessions, Expire(s)
       PROVE  SessionsFollowName' /\ LoginsKeepName'
  BY <1>14, <1>c DEF Expire, history
<1>15. CASE Restart
  BY <1>15, <1>a, IdleType DEF Restart, history, SessionsFollowName, LoginsKeepName
<1>16. CASE UNCHANGED vars
  BY <1>16 DEF vars, IInv, SessionsFollowName, LoginsKeepName
<1> QED BY <1>1, <1>2, <1>3, <1>4, <1>5, <1>6, <1>7, <1>9, <1>10, <1>11, <1>12, <1>13, <1>14,
           <1>15, <1>16 DEF Next

-----------------------------------------------------------------------------
(* One session *)

\* A step that adds no session to the calm ones, and brings none of them back.
LEMMA SingleKept ==
    ASSUME SingleSession, UNCHANGED calm,
           \A s \in calm : /\ sessions'[s].valid => sessions[s].valid
                           /\ sessions'[s].api = sessions[s].api
    PROVE  SingleSession'
BY DEF SingleSession

\* Taking sessions down is such a step.
LEMMA SingleVoid ==
    ASSUME IInv, NEW S, S \subseteq Created, Void(S), UNCHANGED calm
    PROVE  SingleSession'
<1>1. \A s \in calm : s \in Sessions
  BY DEF IInv, TypeOK
<1>2. \A s \in calm : /\ sessions'[s].valid => sessions[s].valid
                     /\ sessions'[s].api = sessions[s].api
  BY <1>1, VoidOnlyVoids DEF IInv
<1> QED BY <1>2, SingleKept DEF IInv

\* The login that is answered last has taken down the sessions of all the others.
LEMMA SingleLogin ==
    ASSUME IInv, NEW x \in Handlers, LoginSingle(x)
    PROVE  SingleSession'
<1> DEFINE own == h[x].sess
<1>1. Others(h[x].name, own) \subseteq Created
  BY DEF Others
<1>2. CASE "name" \in h[x].seen
  BY <1>1, <1>2, SingleVoid DEF LoginSingle, Answer
<1>3. CASE "name" \notin h[x].seen
  <2>1. h[x].name = user.name /\ calm' = calm \cup {own}
    BY <1>3 DEF LoginSingle, At, Answer, IInv, LoginsKeepName
  <2>2. \A s \in calm : /\ s \in Created /\ sessions[s].name = user.name
                       /\ sessions[s].api \in BOOLEAN
    BY DEF IInv, TypeOK, SessionsFollowName, Created, SessionRecord
  <2>3. ASSUME NEW s \in calm, s # own
        PROVE  sessions'[s].api \/ ~ sessions'[s].valid
    <3>1. CASE sessions[s].api
      <4>1. s \in Sessions /\ s \notin Others(h[x].name, own)
        BY <2>2, <3>1 DEF Others, Created
      <4> QED BY <1>1, <3>1, <4>1, VoidOnlyVoids DEF LoginSingle, IInv
    <3>2. CASE ~ sessions[s].api
      <4>1. s \in Sessions /\ s \in Others(h[x].name, own)
        BY <2>1, <2>2, <2>3, <3>2 DEF Others, Created
      <4> QED BY <1>1, <4>1, VoidOnlyVoids DEF LoginSingle, IInv
    <3> QED BY <3>1, <3>2
  <2> QED BY <2>1, <2>3 DEF SingleSession
<1> QED BY <1>2, <1>3

\* Each action keeps it.
LEMMA SingleNext == IInv /\ [Next]_vars => SingleSession'
<1> SUFFICES ASSUME IInv, [Next]_vars
             PROVE  SingleSession'
  OBVIOUS
<1>a. \A s \in calm : s \in Sessions /\ sessions[s] # None
  BY DEF IInv, TypeOK
<1>b. ASSUME UNCHANGED <<sessions, calm>>
      PROVE  SingleSession'
  BY <1>b DEF IInv, SingleSession
<1>1. ASSUME NEW x \in Handlers, NEW s \in Sessions, LoginCreate(x, s)
      PROVE  SingleSession'
  <2>1. /\ s \notin calm
        /\ sessions'[s].api = h[x].api
        /\ \A t \in Sessions \ {s} : sessions'[t] = sessions[t]
    BY <1>1, <1>a DEF LoginCreate, IInv, TypeOK
  <2>2. calm' \subseteq calm \cup {s} /\ (~ h[x].api => calm' = calm)
    BY <1>1 DEF LoginCreate, Answer, history
  <2> QED BY <1>a, <2>1, <2>2 DEF IInv, SingleSession
<1>2. ASSUME NEW x \in Handlers, Rename(x)
      PROVE  SingleSession'
  <2>1. h[x].goal \in Names
    BY <1>2 DEF Rename, At, IInv, TypeOK, Ready
  <2>2. \A s \in calm : /\ sessions'[s].valid = sessions[s].valid
                       /\ sessions'[s].api = sessions[s].api
    BY <1>2, <1>a, <2>1, RenameOnlyRenames DEF Rename, IInv
  <2> QED BY <1>2, <2>2, SingleKept DEF Rename, history, IInv
<1>3. ASSUME NEW x \in Handlers,
             (\E api \in BOOLEAN : Login(x, api)) \/ Rehash(x) \/ NameCheck(x)
             \/ (\E s \in answered : Request(x, s))
             \/ (\E old \in Passwords : PasswordCheck(x, old)) \/ PasswordSet(x)
      PROVE  SingleSession'
  BY <1>3, <1>b
     DEF Login, Rehash, NameCheck, Request, Authorised, PasswordCheck, PasswordSet, history
<1>4. ASSUME NEW x \in Handlers, RevokeSession(x) \/ RevokeOthers(x)
      PROVE  SingleSession'
  BY <1>4, SingleVoid DEF RevokeSession, RevokeOthers, Others, history
<1>5. ASSUME NEW s \in answered, Logout(s) PROVE SingleSession'
  BY <1>5, SingleVoid DEF Logout, Created, IInv, TypeOK, history
<1>6. ASSUME NEW s \in Sessions, Expire(s) PROVE SingleSession'
  BY <1>6, SingleVoid DEF Expire, history
<1>7. CASE Restart \/ UNCHANGED vars
  BY <1>7, <1>b DEF Restart, vars, history
<1> QED BY <1>1, <1>2, <1>3, <1>4, <1>5, <1>6, <1>7, SingleLogin DEF Next

-----------------------------------------------------------------------------
(* The password *)

\* A step that sets no password, and leaves no handler with an old hash it has not verified.
LEMMA PasswordKept ==
    ASSUME IInv, user'.pw = user.pw, UNCHANGED <<lastSet, undone>>,
           \A y \in Handlers :
               \/ h'[y] = h[y]
               \/ h'[y] = [h[y] EXCEPT !.seen = @ \cup {"name"}]
               \/ h'[y].step # "rehash"
               \/ h'[y].pw = user.pw
    PROVE  PasswordStands' /\ PasswordsVerified'
<1>1. PasswordStands'
  BY DEF IInv, PasswordStands
<1>2. ASSUME NEW y \in Handlers, h'[y].step = "rehash", "password" \notin h'[y].seen
      PROVE  h'[y].pw = lastSet' \/ undone'
  <2>1. h[y] \in Handler
    BY DEF IInv, TypeOK
  <2>2. CASE h'[y] = [h[y] EXCEPT !.seen = @ \cup {"name"}]
    <3>1. h[y].step = "rehash" /\ "password" \notin h[y].seen /\ h'[y].pw = h[y].pw
      BY <1>2, <2>1, <2>2, SeenOnly
    <3> QED BY <3>1 DEF IInv, PasswordsVerified
  <2>3. CASE h'[y] = h[y]
    BY <1>2, <2>3 DEF IInv, PasswordsVerified
  <2>4. CASE h'[y].pw = user.pw
    BY <2>4 DEF IInv, PasswordStands
  <2> QED BY <1>2, <2>2, <2>3, <2>4
<1> QED BY <1>1, <1>2 DEF PasswordsVerified

\* Each action keeps the password that was set last, or is a late renewal of an old hash.
LEMMA PasswordNext == IInv /\ [Next]_vars => PasswordStands' /\ PasswordsVerified'
<1> SUFFICES ASSUME IInv, [Next]_vars
             PROVE  PasswordStands' /\ PasswordsVerified'
  OBVIOUS
<1>a. h \in [Handlers -> Handler] /\ user \in User /\ \A x \in Handlers : Ready(x)
  BY DEF IInv, TypeOK
<1>b. ASSUME NEW x \in Handlers, NEW r, h' = [h EXCEPT ![x] = r],
             r.step # "rehash" \/ r.pw = user.pw,
             user'.pw = user.pw, UNCHANGED <<lastSet, undone>>
      PROVE  PasswordStands' /\ PasswordsVerified'
  <2>1. h'[x] = r /\ \A y \in Handlers \ {x} : h'[y] = h[y]
    BY <1>a, <1>b
  <2> QED BY <1>b, <2>1, PasswordKept
<1>c. ASSUME NEW x \in Handlers, Finish(x) \/ h' = h,
             user'.pw = user.pw, UNCHANGED <<lastSet, undone>>
      PROVE  PasswordStands' /\ PasswordsVerified'
  <2>1. CASE Finish(x)
    BY <1>b, <1>c, <2>1, IdleType DEF Finish
  <2>2. CASE h' = h
    BY <1>c, <2>2, PasswordKept
  <2> QED BY <1>c, <2>1, <2>2
<1>d. ASSUME NEW x \in Handlers, NEW step \in {"create", "rename", "password"}, Goto(x, step)
      PROVE  h'[x].step = step /\ \A y \in Handlers \ {x} : h'[y] = h[y]
  <2>1. h[x] \in Handler
    BY <1>a
  <2>2. h'[x] = [h[x] EXCEPT !.step = step] /\ \A y \in Handlers \ {x} : h'[y] = h[y]
    BY <1>a, <1>d DEF Goto
  <2> QED BY <2>1, <2>2 DEF Handler
<1>1. ASSUME NEW x \in Handlers, NEW api \in BOOLEAN, Login(x, api)
      PROVE  PasswordStands' /\ PasswordsVerified'
  <2> DEFINE r == [Idle EXCEPT !.step = IF user.legacy THEN "rehash" ELSE "create",
                               !.name = user.name, !.pw = user.pw, !.api = api]
  <2>1. r.pw = user.pw
    BY DEF Idle
  <2>2. h' = [h EXCEPT ![x] = r] /\ UNCHANGED <<user, lastSet, undone>>
    BY <1>1 DEF Login, history
  <2> HIDE DEF r
  <2> QED BY <1>b, <2>1, <2>2
<1>2. ASSUME NEW x \in Handlers, Rehash(x)
      PROVE  PasswordStands' /\ PasswordsVerified'
  <2>1. h[x].step = "rehash" /\ UNCHANGED lastSet
    BY <1>2 DEF Rehash, At
  <2>2. h'[x].step = "create" /\ \A y \in Handlers \ {x} : h'[y] = h[y]
    BY <1>2, <1>d DEF Rehash
  <2>3. CASE user.name # h[x].name
    BY <1>2, <2>1, <2>2, <2>3, PasswordKept DEF Rehash, UpdatePassword
  <2>4. CASE UpdatePassword(h[x].name, h[x].pw) /\ undone' = (undone \/ "password" \in h[x].seen)
    <3>1. user'.pw = h[x].pw
      BY <1>a, <2>4 DEF UpdatePassword, User
    <3>2. "password" \notin h[x].seen => h[x].pw = lastSet \/ undone
      BY <2>1 DEF IInv, PasswordsVerified
    <3>3. PasswordStands'
      BY <2>1, <2>4, <3>1, <3>2 DEF PasswordStands
    <3>4. PasswordsVerified'
      BY <2>1, <2>2, <2>4 DEF IInv, PasswordsVerified
    <3> QED BY <3>3, <3>4
  <2> QED BY <1>2, <2>3, <2>4 DEF Rehash
<1>3. ASSUME NEW x \in Handlers, NEW s \in Sessions, LoginCreate(x, s)
      PROVE  PasswordStands' /\ PasswordsVerified'
  <2>1. UNCHANGED <<user, lastSet, undone>>
    BY <1>3 DEF LoginCreate, Answer, history
  <2>2. CASE h[x].api
    BY <1>3, <1>c, <2>1, <2>2 DEF LoginCreate
  <2>3. CASE ~ h[x].api
    <3>1. h[x] \in Handler
      BY <1>a
    <3>2. /\ h'[x] = [h[x] EXCEPT !.step = "single", !.sess = s]
          /\ \A y \in Handlers \ {x} : h'[y] = h[y]
      BY <1>3, <1>a, <2>3 DEF LoginCreate
    <3>3. h'[x].step = "single"
      BY <3>1, <3>2 DEF Handler
    <3> QED BY <2>1, <3>2, <3>3, PasswordKept
  <2> QED BY <2>2, <2>3
<1>4. ASSUME NEW x \in Handlers, LoginSingle(x) \/ RevokeSession(x) \/ RevokeOthers(x)
      PROVE  PasswordStands' /\ PasswordsVerified'
  BY <1>4, <1>c DEF LoginSingle, RevokeSession, RevokeOthers, Answer, history
<1>5. ASSUME NEW x \in Handlers, NEW s \in answered, Request(x, s)
      PROVE  PasswordStands' /\ PasswordsVerified'
  <2>1. PICK step \in {"others", "revoke", "check name", "check password"},
             goal \in Names \cup Passwords \cup Sessions \cup {None} :
          Authorised(x, s, step, goal)
    BY <1>5 DEF Request, Created
  <2> DEFINE r == [Idle EXCEPT !.step = step, !.name = sessions[s].name, !.sess = s,
                               !.goal = goal]
  <2>2. r.step # "rehash"
    BY DEF Idle
  <2>3. h' = [h EXCEPT ![x] = r] /\ UNCHANGED <<user, lastSet, undone>>
    BY <2>1 DEF Authorised, history
  <2> HIDE DEF r
  <2> QED BY <1>b, <2>2, <2>3
<1>6. ASSUME NEW x \in Handlers, UNCHANGED <<user, history>>,
             Finish(x) \/ \E step \in {"rename", "password"} : Goto(x, step)
      PROVE  PasswordStands' /\ PasswordsVerified'
  <2>1. CASE Finish(x)
    BY <1>6, <1>c, <2>1 DEF history
  <2>2. ASSUME NEW step \in {"rename", "password"}, Goto(x, step)
        PROVE  PasswordStands' /\ PasswordsVerified'
    <3>1. h'[x].step # "rehash" /\ \A y \in Handlers \ {x} : h'[y] = h[y]
      BY <1>d, <2>2
    <3> QED BY <1>6, <3>1, PasswordKept DEF history
  <2> QED BY <1>6, <2>1, <2>2
<1>7. ASSUME NEW x \in Handlers, NameCheck(x) \/ \E old \in Passwords : PasswordCheck(x, old)
      PROVE  PasswordStands' /\ PasswordsVerified'
  BY <1>6, <1>7 DEF NameCheck, PasswordCheck
<1>8. ASSUME NEW x \in Handlers, Rename(x)
      PROVE  PasswordStands' /\ PasswordsVerified'
  <2>1. user'.pw = user.pw /\ UNCHANGED <<lastSet, undone>>
    BY <1>8, <1>a DEF Rename, UpdateUsername, User, history
  <2>2. CASE Finish(x)
    BY <1>c, <2>1, <2>2
  <2>3. CASE Show(x, "name", Idle)
    <3>1. \A y \in Handlers :
            h'[y] = Idle \/ h'[y] = [h[y] EXCEPT !.seen = @ \cup {"name"}]
      BY <2>3 DEF Show
    <3> QED BY <2>1, <3>1, IdleType, PasswordKept
  <2> QED BY <1>8, <2>2, <2>3 DEF Rename
<1>9. ASSUME NEW x \in Handlers, PasswordSet(x)
      PROVE  PasswordStands' /\ PasswordsVerified'
  <2>1. CASE user.name # h[x].name
    BY <1>9, <1>c, <2>1 DEF PasswordSet, UpdatePassword
  <2>2. CASE user.name = h[x].name
    <3>1. PasswordStands'
      BY <1>9, <1>a, <2>2 DEF PasswordSet, UpdatePassword, User, PasswordStands
    <3>2. Show(x, "password", [h[x] EXCEPT !.step = "others"])
      BY <1>9, <2>2 DEF PasswordSet
    <3>3. ASSUME NEW y \in Handlers
          PROVE  h'[y].step # "rehash" \/ "password" \in h'[y].seen
      <4>1. h[y] \in Handler
        BY <1>a
      <4>2. CASE y = x
        <5>1. h'[y] = [h[y] EXCEPT !.step = "others"]
          BY <3>2, <4>2 DEF Show
        <5> QED BY <4>1, <5>1 DEF Handler
      <4>3. CASE y # x /\ h[y] = Idle
        BY <3>2, <4>3, IdleType DEF Show
      <4>4. CASE y # x /\ h[y] # Idle
        <5>1. h'[y] = [h[y] EXCEPT !.seen = @ \cup {"password"}]
          BY <3>2, <4>4 DEF Show
        <5> QED BY <4>1, <5>1, SeenOnly
      <4> QED BY <4>2, <4>3, <4>4
    <3> QED BY <3>1, <3>3 DEF PasswordsVerified
  <2> QED BY <2>1, <2>2
<1>10. ASSUME NEW s, Logout(s) \/ Expire(s)
       PROVE  PasswordStands' /\ PasswordsVerified'
  BY <1>10, PasswordKept DEF Logout, Expire, history
<1>11. CASE Restart
  BY <1>11, IdleType, PasswordKept DEF Restart, history
<1>12. CASE UNCHANGED vars
  BY <1>12, PasswordKept DEF vars
<1> QED BY <1>1, <1>2, <1>3, <1>4, <1>5, <1>7, <1>8, <1>9, <1>10, <1>11, <1>12 DEF Next

-----------------------------------------------------------------------------
(* Logins that are not answered yet *)

\* A step that begins no login that waits to be single, and answers for none of those that do.
LEMMA PendingKept ==
    ASSUME IInv, PendingApart,
           \A s \in Sessions : sessions[s] # None => sessions'[s].api = sessions[s].api,
           \A y \in Handlers :
               \/ h'[y] = h[y] /\ (h[y].step = "single" => h[y].sess \notin answered' \ answered)
               \/ /\ answered' = answered
                  /\ \E what \in {"name", "password"} : h'[y] = [h[y] EXCEPT !.seen = @ \cup {what}]
               \/ h'[y].step # "single"
    PROVE  PendingApart'
<1>1. ASSUME NEW y \in Handlers, h'[y].step = "single"
      PROVE  /\ h[y].step = "single" /\ h'[y].sess = h[y].sess /\ h[y].sess \in Sessions
             /\ sessions[h[y].sess] # None /\ h[y].sess \notin answered'
  <2>1. h[y] \in Handler /\ Ready(y)
    BY DEF IInv, TypeOK
  <2>2. /\ h[y].step = "single" /\ h'[y].sess = h[y].sess
        /\ h[y].sess \notin answered' \ answered
    <3>1. CASE h'[y] = h[y] /\ (h[y].step = "single" => h[y].sess \notin answered' \ answered)
      BY <1>1, <3>1
    <3>2. CASE answered' = answered
               /\ \E what \in {"name", "password"} : h'[y] = [h[y] EXCEPT !.seen = @ \cup {what}]
      BY <1>1, <2>1, <3>2, SeenOnly
    <3> QED BY <1>1, <3>1, <3>2
  <2>3. h[y].sess \in Sessions /\ sessions[h[y].sess] # None
    BY <2>1, <2>2 DEF Ready, Handler
  <2> QED BY <2>2, <2>3 DEF PendingApart, At
<1> QED BY <1>1 DEF PendingApart, At

\* Each action keeps them apart.
LEMMA PendingNext == IInv /\ PendingApart /\ [Next]_vars => PendingApart'
<1> SUFFICES ASSUME IInv, PendingApart, [Next]_vars PROVE PendingApart'
  OBVIOUS
<1>0. h \in [Handlers -> Handler] /\ \A x \in Handlers : Ready(x)
  BY DEF IInv, TypeOK
<1>a. ASSUME NEW x \in Handlers, NEW r, h' = [h EXCEPT ![x] = r], r.step # "single",
             UNCHANGED answered,
             \A s \in Sessions : sessions[s] # None => sessions'[s].api = sessions[s].api
      PROVE  PendingApart'
  <2>1. h'[x] = r /\ \A y \in Handlers \ {x} : h'[y] = h[y]
    BY <1>0, <1>a
  <2> QED BY <1>a, <2>1, PendingKept
<1>b. ASSUME NEW S, S \subseteq Created, Void(S)
      PROVE  \A s \in Sessions : sessions[s] # None => sessions'[s].api = sessions[s].api
  BY <1>b, VoidOnlyVoids DEF IInv
<1>1. ASSUME NEW x \in Handlers, NEW api \in BOOLEAN, Login(x, api) PROVE PendingApart'
  <2> DEFINE r == [Idle EXCEPT !.step = IF user.legacy THEN "rehash" ELSE "create",
                               !.name = user.name, !.pw = user.pw, !.api = api]
  <2>1. r.step # "single"
    BY DEF Idle
  <2>2. h' = [h EXCEPT ![x] = r] /\ UNCHANGED <<sessions, answered>>
    BY <1>1 DEF Login, history
  <2> HIDE DEF r
  <2> QED BY <1>a, <2>1, <2>2
<1>2. ASSUME NEW x \in Handlers,
             Rehash(x) \/ NameCheck(x) \/ \E old \in Passwords : PasswordCheck(x, old)
      PROVE  PendingApart'
  <2>1. UNCHANGED <<sessions, answered>>
        /\ (Finish(x) \/ \E step \in {"create", "rename", "password"} : Goto(x, step))
    BY <1>2 DEF Rehash, NameCheck, PasswordCheck, history
  <2>2. PICK r : h' = [h EXCEPT ![x] = r] /\ r.step # "single"
    <3>1. CASE Finish(x)
      BY <3>1, IdleType DEF Finish
    <3>2. ASSUME NEW step \in {"create", "rename", "password"}, Goto(x, step)
          PROVE  h' = [h EXCEPT ![x] = [h[x] EXCEPT !.step = step]]
                 /\ [h[x] EXCEPT !.step = step].step # "single"
      BY <1>0, <3>2 DEF Goto, Handler
    <3> QED BY <2>1, <3>1, <3>2
  <2> QED BY <1>a, <2>1, <2>2
<1>3. ASSUME NEW x \in Handlers, NEW s \in Sessions, LoginCreate(x, s) PROVE PendingApart'
  <2>1. /\ s \notin answered /\ sessions'[s].api = h[x].api
        /\ \A t \in Sessions \ {s} : sessions'[t] = sessions[t]
        /\ \A y \in Handlers : h[y].step = "single" => h[y].sess \in Sessions /\ h[y].sess # s
    BY <1>0, <1>3 DEF LoginCreate, IInv, TypeOK, Ready, Handler
  <2>2. CASE h[x].api
    <3>1. answered' = answered \cup {s} /\ h'[x] = Idle /\ \A y \in Handlers \ {x} : h'[y] = h[y]
      BY <1>0, <1>3, <2>2 DEF LoginCreate, Answer, Finish
    <3> QED BY <1>3, <2>1, <3>1, IdleType, PendingKept DEF LoginCreate
  <2>3. CASE ~ h[x].api
    <3>1. /\ h'[x] = [h[x] EXCEPT !.step = "single", !.sess = s] /\ answered' = answered
          /\ \A y \in Handlers \ {x} : h'[y] = h[y]
      BY <1>0, <1>3, <2>3 DEF LoginCreate, history
    <3>0. h[x] \in Handler
      BY <1>0
    <3>2. h'[x].sess = s
      BY <3>0, <3>1 DEF Handler
    <3>3. ASSUME NEW y \in Handlers \ {x}, h[y].step = "single"
          PROVE  /\ h[y].sess \notin answered /\ ~ sessions'[h[y].sess].api
                 /\ \A z \in Handlers \ {x} : h[z].step = "single" /\ h[z].sess = h[y].sess => z = y
      BY <2>1, <3>3 DEF PendingApart, At
    <3>4. h'[x].sess \notin answered' /\ ~ sessions'[h'[x].sess].api
          /\ \A y \in Handlers \ {x} : h'[y].step = "single" => h'[y].sess # h'[x].sess
      BY <2>1, <2>3, <3>1, <3>2
    <3>5. ASSUME NEW y \in Handlers \ {x}, h'[y].step = "single"
          PROVE  /\ h'[y].sess \notin answered' /\ ~ sessions'[h'[y].sess].api
                 /\ \A z \in Handlers : h'[z].step = "single" /\ h'[z].sess = h'[y].sess => z = y
      <4>1. h'[y] = h[y] /\ h[y].step = "single"
        BY <3>1, <3>5
      <4> QED BY <3>1, <3>3, <3>4, <3>5, <4>1
    <3> QED BY <3>4, <3>5 DEF PendingApart, At
  <2> QED BY <2>2, <2>3
<1>4. ASSUME NEW x \in Handlers, LoginSingle(x) PROVE PendingApart'
  <2>1. /\ answered' = answered \cup {h[x].sess} /\ h'[x] = Idle
        /\ \A y \in Handlers \ {x} : h'[y] = h[y]
    BY <1>0, <1>4 DEF LoginSingle, Answer, Finish
  <2>2. \A y \in Handlers \ {x} : h[y].step = "single" => h[y].sess # h[x].sess
    BY <1>4 DEF LoginSingle, PendingApart, At
  <2> QED BY <1>4, <1>b, <2>1, <2>2, IdleType, PendingKept DEF LoginSingle, Others
<1>5. ASSUME NEW x \in Handlers, NEW s \in answered, Request(x, s) PROVE PendingApart'
  <2>1. PICK step \in {"others", "revoke", "check name", "check password"},
             goal \in Names \cup Passwords \cup Sessions \cup {None} :
          Authorised(x, s, step, goal)
    BY <1>5 DEF Request, Created
  <2> DEFINE r == [Idle EXCEPT !.step = step, !.name = sessions[s].name, !.sess = s,
                               !.goal = goal]
  <2>2. r.step # "single"
    BY DEF Idle
  <2>3. h' = [h EXCEPT ![x] = r] /\ UNCHANGED <<sessions, answered>>
    BY <2>1 DEF Authorised, history
  <2> HIDE DEF r
  <2> QED BY <1>a, <2>2, <2>3
<1>6. ASSUME NEW x \in Handlers, RevokeSession(x) \/ RevokeOthers(x) PROVE PendingApart'
  <2>1. \A s \in Sessions : sessions[s] # None => sessions'[s].api = sessions[s].api
    BY <1>6, <1>b DEF RevokeSession, RevokeOthers, Others
  <2> QED BY <1>6, <1>a, <2>1, IdleType DEF RevokeSession, RevokeOthers, Finish, history
<1>7. ASSUME NEW x \in Handlers, Rename(x) PROVE PendingApart'
  <2>1. h[x].goal \in Names
    BY <1>7, <1>0 DEF Rename, At, Ready
  <2>2. \A s \in Sessions : sessions[s] # None => sessions'[s].api = sessions[s].api
    BY <1>7, <2>1, RenameOnlyRenames DEF Rename, IInv
  <2>3. \A y \in Handlers : \/ h'[y] = h[y] \/ h'[y] = Idle
                            \/ h'[y] = [h[y] EXCEPT !.seen = @ \cup {"name"}]
    BY <1>7, <1>0 DEF Rename, Show, Finish
  <2> QED BY <1>7, <2>2, <2>3, IdleType, PendingKept DEF Rename, history
<1>8. ASSUME NEW x \in Handlers, PasswordSet(x) PROVE PendingApart'
  <2>1. UNCHANGED <<sessions, answered>>
    BY <1>8 DEF PasswordSet
  <2>2. CASE Finish(x)
    BY <1>a, <2>1, <2>2, IdleType DEF Finish
  <2>3. CASE Show(x, "password", [h[x] EXCEPT !.step = "others"])
    <3>1. [h[x] EXCEPT !.step = "others"].step # "single"
      BY <1>0 DEF Handler
    <3>2. \A y \in Handlers : \/ h'[y].step # "single"
                              \/ h'[y] = [h[y] EXCEPT !.seen = @ \cup {"password"}]
      BY <2>3, <3>1, IdleType DEF Show
    <3> QED BY <2>1, <3>2, PendingKept
  <2> QED BY <1>8, <2>2, <2>3 DEF PasswordSet
<1>9. ASSUME NEW s, (s \in answered /\ Logout(s)) \/ (s \in Sessions /\ Expire(s)) PROVE PendingApart'
  <2>1. UNCHANGED <<h, answered>> /\ {s} \subseteq Created /\ Void({s})
    BY <1>9 DEF Logout, Expire, Created, IInv, TypeOK, history
  <2> QED BY <1>b, <2>1, PendingKept
<1>10. CASE Restart
  BY <1>10, IdleType, PendingKept DEF Restart, history
<1>11. CASE UNCHANGED vars
  BY <1>11, PendingKept DEF vars
<1> QED BY <1>1, <1>2, <1>3, <1>4, <1>5, <1>6, <1>7, <1>8, <1>9, <1>10, <1>11 DEF Next

-----------------------------------------------------------------------------
(* The handlers implement OneSession *)

\* A step without a login of this kind leaves the accepted session, or ends it.
LEMMA AcceptedShrinks ==
    ASSUME IInv, UNCHANGED BrowserLogins,
           \A s \in BrowserLogins : sessions'[s].valid => sessions[s].valid
    PROVE  Single!Next \/ UNCHANGED <<Accepted, BrowserLogins>>
<1>1. Accepted' \subseteq Accepted
  BY DEF Accepted
<1>2. \A s, t \in Accepted : s = t
  BY DEF Accepted, BrowserLogins, IInv, SingleSession
<1>3. CASE Accepted' = {} /\ Accepted # {}
  BY <1>3 DEF Single!Next, Single!End
<1> QED BY <1>1, <1>2, <1>3

LEMMA LoginsKept ==
    ASSUME UNCHANGED calm, \A s \in calm : sessions'[s].api = sessions[s].api
    PROVE  UNCHANGED BrowserLogins
BY DEF BrowserLogins

\* So does a step that takes sessions down.
LEMMA VoidShrinks ==
    ASSUME IInv, NEW S, S \subseteq Created, Void(S), UNCHANGED calm
    PROVE  Single!Next \/ UNCHANGED <<Accepted, BrowserLogins>>
<1>1. \A s \in calm : s \in Sessions
  BY DEF IInv, TypeOK
<1>2. \A s \in calm : /\ sessions'[s].valid => sessions[s].valid
                     /\ sessions'[s].api = sessions[s].api
  BY <1>1, VoidOnlyVoids DEF IInv
<1> QED BY <1>2, LoginsKept, AcceptedShrinks DEF BrowserLogins

\* The answer to a login whose user name stood puts its session in the place of the others.
LEMMA LoginReplaces ==
    ASSUME IInv, PendingApart, NEW x \in Handlers, LoginSingle(x), "name" \notin h[x].seen
    PROVE  h[x].sess \notin BrowserLogins /\ Single!LogIn(h[x].sess)
<1> DEFINE own == h[x].sess
<1>1. own \in Sessions /\ own \notin answered /\ ~ sessions[own].api /\ calm \subseteq answered
  BY DEF LoginSingle, At, PendingApart, IInv, TypeOK, Ready, Handler
<1>2. Others(h[x].name, own) \subseteq Created /\ Void(Others(h[x].name, own))
      /\ calm' = calm \cup {own}
  BY DEF Others, LoginSingle, Answer
<1>3. \A s \in Sessions : sessions[s] # None => sessions'[s].api = sessions[s].api
  BY <1>2, VoidOnlyVoids DEF IInv
<1>4. \A s \in calm \cup {own} : s \in Sessions /\ sessions[s] # None
  BY <1>1 DEF IInv, TypeOK, LoginSingle, At, Ready
<1>5. BrowserLogins' = BrowserLogins \cup {own} /\ own \notin BrowserLogins
  BY <1>1, <1>2, <1>3, <1>4 DEF BrowserLogins
<1>6. ASSUME NEW s \in BrowserLogins PROVE ~ sessions'[s].valid
  <2>1. s \in calm /\ s # own /\ ~ sessions[s].api /\ sessions[s].name = h[x].name
    BY <1>1, <1>6 DEF BrowserLogins, IInv, SessionsFollowName, LoginsKeepName, LoginSingle, At
  <2>2. s \in Others(h[x].name, own)
    BY <1>4, <2>1 DEF Others, Created
  <2> QED BY <1>2, <1>4, <2>1, <2>2, VoidOnlyVoids DEF IInv
<1>7. Accepted' \subseteq {own}
  BY <1>5, <1>6 DEF Accepted
<1> QED BY <1>5, <1>7 DEF Single!LogIn

\* A created session is known to nobody yet.
LEMMA CreateStutters ==
    ASSUME IInv, NEW x \in Handlers, NEW s \in Sessions, LoginCreate(x, s)
    PROVE  UNCHANGED <<Accepted, BrowserLogins>>
<1>1. /\ s \notin calm /\ sessions'[s].api = h[x].api
      /\ \A t \in calm : sessions'[t] = sessions[t]
      /\ calm' \subseteq calm \cup {s} /\ calm \subseteq calm' /\ (~ h[x].api => calm' = calm)
  BY DEF LoginCreate, Answer, history, IInv, TypeOK
<1>2. UNCHANGED BrowserLogins
  BY <1>1 DEF BrowserLogins
<1>3. \A t \in BrowserLogins : sessions'[t] = sessions[t]
  BY <1>1 DEF BrowserLogins
<1> QED BY <1>2, <1>3 DEF Accepted

LEMMA SingleStep ==
    ASSUME IInv, PendingApart, [Next]_vars
    PROVE  Single!Next \/ UNCHANGED <<Accepted, BrowserLogins>>
<1> DEFINE Goal == Single!Next \/ UNCHANGED <<Accepted, BrowserLogins>>
<1>a. ASSUME UNCHANGED <<sessions, calm>> PROVE Goal
  BY <1>a DEF Accepted, BrowserLogins
<1>1. ASSUME NEW x \in Handlers, LoginSingle(x) PROVE Goal
  <2>1. CASE "name" \in h[x].seen
    BY <1>1, <2>1, VoidShrinks DEF LoginSingle, Answer, Others
  <2>2. CASE "name" \notin h[x].seen
    <3>1. h[x].sess \in Sessions
      BY <1>1 DEF LoginSingle, At, IInv, TypeOK, Ready, Handler
    <3> QED BY <1>1, <2>2, <3>1, LoginReplaces DEF Single!Next
  <2> QED BY <2>1, <2>2
<1>2. ASSUME NEW x \in Handlers, Rename(x) PROVE Goal
  <2>1. h[x].goal \in Names
    BY <1>2 DEF Rename, At, IInv, TypeOK, Ready
  <2>2. \A s \in calm : /\ sessions'[s].valid = sessions[s].valid
                       /\ sessions'[s].api = sessions[s].api
    BY <1>2, <2>1, RenameOnlyRenames DEF Rename, IInv, TypeOK
  <2> QED BY <1>2, <2>2, LoginsKept, AcceptedShrinks DEF Rename, history, BrowserLogins
<1>3. ASSUME NEW x \in Handlers,
             (\E api \in BOOLEAN : Login(x, api)) \/ Rehash(x) \/ NameCheck(x)
             \/ (\E s \in answered : Request(x, s))
             \/ (\E old \in Passwords : PasswordCheck(x, old)) \/ PasswordSet(x)
      PROVE  Goal
  BY <1>3, <1>a
     DEF Login, Rehash, NameCheck, Request, Authorised, PasswordCheck, PasswordSet, history
<1>4. ASSUME NEW x \in Handlers, RevokeSession(x) \/ RevokeOthers(x) PROVE Goal
  BY <1>4, VoidShrinks DEF RevokeSession, RevokeOthers, Others, history
<1>5. ASSUME NEW s, (s \in answered /\ Logout(s)) \/ (s \in Sessions /\ Expire(s)) PROVE Goal
  <2>1. UNCHANGED calm /\ {s} \subseteq Created /\ Void({s})
    BY <1>5 DEF Logout, Expire, Created, IInv, TypeOK, history
  <2> QED BY <2>1, VoidShrinks
<1>6. CASE Restart \/ UNCHANGED vars
  BY <1>6, <1>a DEF Restart, vars, history
<1> QED BY <1>1, <1>2, <1>3, <1>4, <1>5, <1>6, CreateStutters DEF Next

-----------------------------------------------------------------------------
(* Theorems *)

\* The inductive invariant: an undisturbed login and its session stay with the account.
THEOREM AccountsInvariance == Spec => []IInv
<1>1. Init => IInv
  <2> SUFFICES ASSUME Init PROVE IInv
    OBVIOUS
  <2>1. \A x \in Handlers : h[x].step = "idle"
    BY IdleType DEF Init
  <2> QED BY <2>1, TypeInit
        DEF Init, IInv, SessionsFollowName, LoginsKeepName, SingleSession, PasswordStands,
            PasswordsVerified
<1>2. IInv /\ [Next]_vars => IInv'
  BY TypeNext, NamesNext, SingleNext, PasswordNext DEF IInv
<1> QED BY <1>1, <1>2, PTL DEF Spec

\* However many logins interleave, of those that no change of the user name overlapped at most
\* one has a session left once it is answered.
THEOREM SingleSessionCorrect == Spec => []SingleSession
BY AccountsInvariance, PTL DEF IInv

\* The sessions of such logins find their account, however often it is renamed.
THEOREM NamesCorrect == Spec => []SessionsFollowName
BY AccountsInvariance, PTL DEF IInv

\* Only a login that a change of the password overtook can put the former one back.
THEOREM PasswordCorrect == Spec => []PasswordStands
BY AccountsInvariance, PTL DEF IInv

\* The handlers implement the abstract account of OneSession: an answered login replaces the
\* accepted session in one step, and no session that has ended, at whatever moment of whichever
\* handlers, is accepted again.
THEOREM OneSessionCorrect == Spec => OneSessionSpec
<1>1. Init => PendingApart /\ Single!Init
  <2>1. ASSUME Init PROVE \A x \in Handlers : h[x].step = "idle"
    BY <2>1, IdleType DEF Init
  <2> QED BY <2>1 DEF Init, PendingApart, At, Single!Init, Accepted, BrowserLogins
<1>2. IInv /\ PendingApart /\ [Next]_vars => PendingApart'
  BY PendingNext
<1>3. ASSUME IInv, PendingApart, [Next]_vars
      PROVE  Single!Next \/ UNCHANGED <<Accepted, BrowserLogins>>
  BY <1>3, SingleStep
<1> QED BY <1>1, <1>2, <1>3, AccountsInvariance, PTL DEF Spec, OneSessionSpec, Single!Spec
=============================================================================
