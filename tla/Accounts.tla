------------------------------- MODULE Accounts -------------------------------
(***************************************************************************)
(* The administrator's account and its login sessions: handleLogin and     *)
(* handleLogout (internal/api/handlers.go), the account handlers           *)
(* (internal/api/account.go) and the middleware auth (server.go), over the *)
(* users and sessions of db.DB.                                            *)
(*                                                                         *)
(* Every method of db.DB is one critical section, a handler is several of  *)
(* them: one action is one critical section, handlers of any number of     *)
(* requests interleave.  A request that is refused changes nothing here    *)
(* and is no action, but for one that has passed auth.  Each change is     *)
(* durable when its method returns (PanelStore shows how far that holds),  *)
(* and JWT_SECRET is kept in .env: sessions outlive the process.           *)
(***************************************************************************)
CONSTANTS
    Handlers,   \* goroutines that serve requests
    Sessions,   \* the JTIs (and with them the tokens) that logins may draw
    Names,      \* user names
    Passwords,
    None        \* no session, no name, no password

SessionRecord == [name: Names, api: BOOLEAN, valid: BOOLEAN]

ASSUME NoneAssumption ==
    None \notin Handlers \cup Sessions \cup Names \cup Passwords \cup SessionRecord

VARIABLES
    user,      \* the account: its name, the password its hash accepts, the age of the hash
    sessions,  \* DB.data.Sessions; valid: neither revoked nor expired
    h,         \* what a handler is at and its local variables
    \* History, read by no action:
    answered,  \* sessions whose login was answered: a client holds the cookie
    calm,      \* those of them whose login saw no change of the user name
    lastSet,   \* the password that was set last
    undone     \* whether a login that a change of the password overtook has put it back

vars == <<user, sessions, h, answered, calm, lastSet, undone>>
history == <<answered, calm, lastSet, undone>>

-----------------------------------------------------------------------------
User == [name: Names, pw: Passwords, legacy: BOOLEAN]

Idle == [step |-> "idle", name |-> None, pw |-> None, api |-> FALSE, sess |-> None,
         goal |-> None, seen |-> {}]

\* name: the user name the handler has read; sess: its own session; goal: what it is to set or
\* to revoke; seen (history): what other handlers have set since it read the user record.
Handler == [step: {"idle", "rehash", "create", "single", "revoke", "others", "check name",
                   "rename", "check password", "password"},
            name: Names \cup {None}, pw: Passwords \cup {None}, api: BOOLEAN,
            sess: Sessions \cup {None}, goal: Names \cup Passwords \cup Sessions \cup {None},
            seen: SUBSET {"name", "password"}]

\* A handler has the local variables that its step uses.
Ready(x) ==
    /\ h[x].step # "idle" => h[x].name # None
    /\ h[x].step \in {"check name", "rename"} => h[x].goal \in Names
    /\ h[x].step \in {"check password", "password"} => h[x].goal \in Passwords
    /\ h[x].step \in {"single", "check password", "password", "others"} => h[x].sess # None
    /\ h[x].step = "single" => sessions[h[x].sess] # None
    /\ h[x].step = "rehash" => h[x].pw # None

TypeOK ==
    /\ user \in User
    /\ sessions \in [Sessions -> SessionRecord \cup {None}]
    /\ h \in [Handlers -> Handler]
    /\ answered \in SUBSET Sessions /\ calm \in SUBSET answered
    /\ lastSet \in Passwords /\ undone \in BOOLEAN
    /\ \A s \in answered : sessions[s] # None
    /\ \A x \in Handlers : Ready(x)

\* A panel that has been set up, by this version or by one that hashed less.
Init ==
    /\ user \in User
    /\ sessions = [s \in Sessions |-> None]
    /\ h = [x \in Handlers |-> Idle]
    /\ answered = {} /\ calm = {}
    /\ lastSet = user.pw /\ undone = FALSE

-----------------------------------------------------------------------------
(* Methods of db.DB *)

\* RevokeOtherSessions, GetSessionByTokenHash and the like see the sessions that were created.
Created == {s \in Sessions : sessions[s] # None}

Void(S) == sessions' = [s \in Sessions |-> IF s \in S
                                           THEN [sessions[s] EXCEPT !.valid = FALSE]
                                           ELSE sessions[s]]

\* RevokeOtherSessions leaves the sessions of API clients alone.
Others(name, keep) ==
    {s \in Created : sessions[s].name = name /\ s # keep /\ ~ sessions[s].api}

UpdatePassword(name, p) ==
    /\ user.name = name
    /\ user' = [user EXCEPT !.pw = p, !.legacy = FALSE]

\* Mutant: the sessions keep the old name.
UpdateUsernameOnly(old, new) ==
    /\ user' = [user EXCEPT !.name = IF @ = old THEN new ELSE @]
    /\ UNCHANGED sessions

UpdateUsername(old, new) ==
    /\ user' = [user EXCEPT !.name = IF @ = old THEN new ELSE @]
    /\ sessions' = [s \in Sessions |->
                      IF s \in Created /\ sessions[s].name = old
                      THEN [sessions[s] EXCEPT !.name = new] ELSE sessions[s]]

-----------------------------------------------------------------------------
(* Handlers *)

At(x, step) == h[x].step = step
Goto(x, step) == h' = [h EXCEPT ![x].step = step]
Finish(x) == h' = [h EXCEPT ![x] = Idle]

\* History: the other handlers see what x has set, x goes on as r.
Show(x, what, r) ==
    h' = [y \in Handlers |-> IF y = x THEN r
                             ELSE IF h[y] = Idle THEN Idle
                             ELSE [h[y] EXCEPT !.seen = @ \cup {what}]]

\* Mutant: the hash is renewed before the password is verified.
LoginUnverified(x, api) ==
    /\ At(x, "idle")
    /\ \E p \in Passwords :
        h' = [h EXCEPT ![x] = [Idle EXCEPT !.step = IF user.legacy THEN "rehash" ELSE "create",
                                          !.name = user.name, !.pw = p, !.api = api]]
    /\ UNCHANGED <<user, sessions, history>>

\* handleLogin with the right name and password; a wrong one only counts in loginGuard.
Login(x, api) ==
    /\ At(x, "idle")
    /\ h' = [h EXCEPT ![x] = [Idle EXCEPT !.step = IF user.legacy THEN "rehash" ELSE "create",
                                          !.name = user.name, !.pw = user.pw, !.api = api]]
    /\ UNCHANGED <<user, sessions, history>>

\* It writes an old hash again for the password it has verified; an error is ignored.
Rehash(x) ==
    /\ At(x, "rehash")
    /\ \/ UpdatePassword(h[x].name, h[x].pw) /\ undone' = (undone \/ "password" \in h[x].seen)
       \/ user.name # h[x].name /\ UNCHANGED <<user, undone>>
    /\ Goto(x, "create")
    /\ UNCHANGED <<sessions, answered, calm, lastSet>>

Answer(x, s) ==
    /\ answered' = answered \cup {s}
    /\ calm' = IF "name" \in h[x].seen THEN calm ELSE calm \cup {s}
    /\ UNCHANGED <<lastSet, undone>>

\* Mutant: the cookie is sent before the other sessions are taken down.
LoginCreateEarly(x, s) ==
    /\ At(x, "create") /\ sessions[s] = None
    /\ sessions' = [sessions EXCEPT ![s] = [name |-> h[x].name, api |-> h[x].api, valid |-> TRUE]]
    /\ h' = [h EXCEPT ![x].step = "single", ![x].sess = s]
    /\ Answer(x, s)
    /\ UNCHANGED user

\* CreateSession; the answer follows at once for an API session.
LoginCreate(x, s) ==
    /\ At(x, "create") /\ sessions[s] = None
    /\ sessions' = [sessions EXCEPT ![s] = [name |-> h[x].name, api |-> h[x].api, valid |-> TRUE]]
    /\ IF h[x].api
       THEN Finish(x) /\ Answer(x, s)
       ELSE h' = [h EXCEPT ![x].step = "single", ![x].sess = s] /\ UNCHANGED history
    /\ UNCHANGED user

\* A new login takes down the other sessions of the account.
LoginSingle(x) ==
    /\ At(x, "single")
    /\ Void(Others(h[x].name, h[x].sess))
    /\ Answer(x, h[x].sess)
    /\ Finish(x)
    /\ UNCHANGED user

\* handleLogout needs the cookie only.
Logout(s) ==
    /\ s \in answered
    /\ Void({s})
    /\ UNCHANGED <<user, h, history>>

\* auth: the handler goes on with the session's user name of that moment.
Authorised(x, s, step, goal) ==
    /\ At(x, "idle")
    /\ s \in answered /\ sessions[s].valid
    /\ h' = [h EXCEPT ![x] = [Idle EXCEPT !.step = step, !.name = sessions[s].name,
                                          !.sess = s, !.goal = goal]]
    /\ UNCHANGED <<user, sessions, history>>

Request(x, s) ==
    \/ Authorised(x, s, "others", None)
    \/ \E t \in Created \ {s} : Authorised(x, s, "revoke", t)
    \/ \E n \in Names \ {sessions[s].name} : Authorised(x, s, "check name", n)
    \/ \E p \in Passwords : Authorised(x, s, "check password", p)

\* handleSessionRevoke
RevokeSession(x) ==
    /\ At(x, "revoke")
    /\ Void({h[x].goal} \cap Created)
    /\ Finish(x)
    /\ UNCHANGED <<user, history>>

\* handleSessionsRevokeAll, and the end of handleAccountPassword
RevokeOthers(x) ==
    /\ At(x, "others")
    /\ Void(Others(h[x].name, h[x].sess))
    /\ Finish(x)
    /\ UNCHANGED <<user, history>>

\* handleUsernameChange: is the new name free?
NameCheck(x) ==
    /\ At(x, "check name")
    /\ IF h[x].goal = user.name THEN Finish(x) ELSE Goto(x, "rename")
    /\ UNCHANGED <<user, sessions, history>>

Rename(x) ==
    /\ At(x, "rename")
    /\ UpdateUsername(h[x].name, h[x].goal)
    /\ IF user.name = h[x].name THEN Show(x, "name", Idle) ELSE Finish(x)
    /\ UNCHANGED history

\* handleAccountPassword: is the old password right?
PasswordCheck(x, old) ==
    /\ At(x, "check password")
    /\ IF user.name = h[x].name /\ user.pw = old THEN Goto(x, "password") ELSE Finish(x)
    /\ UNCHANGED <<user, sessions, history>>

PasswordSet(x) ==
    /\ At(x, "password")
    /\ \/ /\ UpdatePassword(h[x].name, h[x].goal)
          /\ lastSet' = h[x].goal /\ undone' = FALSE
          /\ Show(x, "password", [h[x] EXCEPT !.step = "others"])
       \/ /\ user.name # h[x].name
          /\ Finish(x)
          /\ UNCHANGED <<user, lastSet, undone>>
    /\ UNCHANGED <<sessions, answered, calm>>

-----------------------------------------------------------------------------
(* Environment *)

\* The 24 hours or 30 days of a session are over.
Expire(s) ==
    /\ s \in Created /\ sessions[s].valid
    /\ Void({s})
    /\ UNCHANGED <<user, h, history>>

\* Mutant: sessions are kept in memory only.
RestartEmpty ==
    /\ h' = [x \in Handlers |-> Idle]
    /\ sessions' = [s \in Sessions |-> None]
    /\ UNCHANGED <<user, history>>

\* The core ends and starts again: the handlers are gone.
Restart ==
    /\ h' = [x \in Handlers |-> Idle]
    /\ UNCHANGED <<user, sessions, history>>

Next ==
    \/ \E x \in Handlers :
        \/ \E api \in BOOLEAN : Login(x, api)
        \/ Rehash(x)
        \/ \E s \in Sessions : LoginCreate(x, s)
        \/ LoginSingle(x)
        \/ \E s \in answered : Request(x, s)
        \/ RevokeSession(x) \/ RevokeOthers(x)
        \/ NameCheck(x) \/ Rename(x)
        \/ \E old \in Passwords : PasswordCheck(x, old)
        \/ PasswordSet(x)
    \/ \E s \in answered : Logout(s)
    \/ \E s \in Sessions : Expire(s)
    \/ Restart

Spec == Init /\ [][Next]_vars

-----------------------------------------------------------------------------
(* Properties *)

\* One session per account: of the logins that no change of the user name overlapped, and that
\* have been answered, at most one still has a session that is accepted (API sessions apart),
\* however their critical sections interleave (README.md:308).
SingleSession ==
    \A s, t \in calm :
        /\ sessions[s].valid /\ ~ sessions[s].api
        /\ sessions[t].valid /\ ~ sessions[t].api
        => s = t

\* A change of the user name takes the sessions along (db.go:205): the session of such a login
\* always carries the name the account has now, so its requests find the account.
SessionsFollowName == \A s \in calm : sessions[s].name = user.name

\* The account's password is the one that was set last, unless a login that was checked before
\* that and wrote its old hash again after it has put the former one back.
PasswordStands == user.pw = lastSet \/ undone

\* What the refinement rests on: the session of a login that is not answered yet is no API
\* session, no client has it, and no other login.
PendingApart ==
    \A x \in Handlers : At(x, "single") =>
        /\ h[x].sess \notin answered /\ ~ sessions[h[x].sess].api
        /\ \A y \in Handlers : At(y, "single") /\ h[y].sess = h[x].sess => y = x

-----------------------------------------------------------------------------
(* The promise on sessions that the handlers implement *)

BrowserLogins == {s \in calm : ~ sessions[s].api}

Accepted == {s \in BrowserLogins : sessions[s].valid}

Single == INSTANCE OneSession WITH accepted <- Accepted, used <- BrowserLogins

\* A login that no change of the user name overlaps replaces the accepted session in the one
\* critical section before its answer, and no step brings a session back.
OneSessionSpec == Single!Spec
=============================================================================
