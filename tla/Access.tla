-------------------------------- MODULE Access --------------------------------
(***************************************************************************)
(* The two doors of the panel that are open without a session: the set-up  *)
(* wizard, which makes the administrator (handleSetupStart and runSetup,   *)
(* internal/api/handlers.go), and the login with its lock-out (handleLogin *)
(* up to the verified password, and loginGuard, internal/api/account.go).  *)
(*                                                                         *)
(* One action is one critical section of db.DB, of setupProgress or of     *)
(* loginGuard, or what lies between two of them: the password hash of a    *)
(* login, one plugin of a set-up.  The lock-out lives in memory and starts *)
(* anew with the panel, the administrator and the plugins do not.          *)
(***************************************************************************)
EXTENDS Naturals, FiniteSets

CONSTANTS
    Names,      \* user names that set-ups give
    Tried,      \* those of them that logins give
    Setups,     \* set-up requests
    Logins,     \* goroutines that serve logins
    Plugins,    \* bundled plugins to choose from
    Limits,     \* values of login_fail_limit
    MaxFails,   \* bound: failures counted for one name
    NoName

ASSUME AccessAssumption ==
    /\ NoName \notin Names /\ Tried \subseteq Names
    /\ IsFiniteSet(Logins) /\ Logins # {}
    /\ Limits \subseteq Nat \ {0} /\ Limits # {} /\ IsFiniteSet(Limits)
    /\ MaxFails \in Nat

VARIABLES
    users, limit,      \* DB.data.Users, login_fail_limit
    disk,              \* what panel.json has of them
    running, complete, \* setupProgress
    setup,             \* what a set-up request is at, its user name and the plugins it has left
    fails, locked,     \* loginGuard: failures by name; names whose lock is not over
    login,             \* what a login is at, its user name and the limit it has read
    guesses,           \* history: wrong passwords tried for a name since it was last let in,
                       \*   unlocked, or the panel started
    chosen, made       \* history: the plugins of the set-up that began last, those it installed

dbVars == <<users, limit, disk>>
setupVars == <<running, complete, setup, chosen, made>>
guardVars == <<fails, locked, login, guesses>>
vars == <<dbVars, setupVars, guardVars>>

-----------------------------------------------------------------------------
Setup == [pc: {"idle", "checked", "create", "install", "over"},
          name: Names \cup {NoName}, left: SUBSET Plugins]
NoSetup == [pc |-> "idle", name |-> NoName, left |-> {}]
Over == [NoSetup EXCEPT !.pc = "over"]

\* Past the reading of the policy, past the lock, past the verification.
Login == [pc: {"idle", "policy", "verify", "wrong", "right"},
          name: Tried \cup {NoName}, limit: Limits \cup {0}]
NoLogin == [pc |-> "idle", name |-> NoName, limit |-> 0]

TypeOK ==
    /\ users \in SUBSET Names /\ limit \in Limits
    /\ disk \in [users: SUBSET users, limit: Limits]
    /\ chosen \in SUBSET Plugins /\ made \in SUBSET Plugins
    /\ running \in BOOLEAN /\ complete \in BOOLEAN
    /\ setup \in [Setups -> Setup]
    /\ \A r \in Setups : setup[r].pc \notin {"idle", "over"} => setup[r].name \in Names
    /\ fails \in [Tried -> 0..MaxFails] /\ locked \in SUBSET Tried
    /\ login \in [Logins -> Login]
    /\ \A x \in Logins : login[x].pc # "idle" => login[x].name \in Tried /\ login[x].limit \in Limits
    /\ guesses \in [Tried -> Nat]

Init ==
    /\ users = {} /\ limit \in Limits /\ disk = [users |-> users, limit |-> limit]
    /\ chosen = {} /\ made = {}
    /\ running = FALSE /\ complete = FALSE
    /\ setup = [r \in Setups |-> NoSetup]
    /\ fails = [n \in Tried |-> 0] /\ locked = {}
    /\ login = [x \in Logins |-> NoLogin]
    /\ guesses = [n \in Tried |-> 0]

-----------------------------------------------------------------------------
(* Set-up *)

HasAdmin == users # {}

\* DB.save: the whole document, or nothing when the disk refuses it.
Saved == disk' = [users |-> users', limit |-> limit']
NotSaved == UNCHANGED disk

\* handleSetupStart, up to the lock of the progress.
SetupCheck(r, n, chose) ==
    /\ setup[r].pc = "idle" /\ ~HasAdmin
    /\ setup' = [setup EXCEPT ![r] = [pc |-> "checked", name |-> n, left |-> chose]]
    /\ UNCHANGED <<dbVars, running, complete, chosen, made, guardVars>>

\* Mutant: the flag is set, and never tested.
SetupClaimAlways(r) ==
    /\ setup[r].pc = "checked"
    /\ setup' = [setup EXCEPT ![r].pc = "create"]
    /\ running' = TRUE /\ complete' = FALSE
    /\ chosen' = setup[r].left /\ made' = {}
    /\ UNCHANGED <<dbVars, guardVars>>

\* One set-up at a time: the others are refused.
SetupClaim(r) ==
    /\ setup[r].pc = "checked"
    /\ \/ /\ running
          /\ setup' = [setup EXCEPT ![r] = Over]
          /\ UNCHANGED <<running, complete, chosen, made>>
       \/ /\ ~running
          /\ setup' = [setup EXCEPT ![r].pc = "create"]
          /\ running' = TRUE /\ complete' = FALSE
          /\ chosen' = setup[r].left /\ made' = {}
    /\ UNCHANGED <<dbVars, guardVars>>

Fail(r) ==
    /\ setup' = [setup EXCEPT ![r] = Over]
    /\ running' = FALSE

\* Mutant: the set-up goes on although the disk has refused the administrator.
CreateUserUnsaved(r) ==
    /\ setup[r].pc = "create"
    /\ LET n == setup[r].name IN
       \/ n \in users /\ Fail(r) /\ UNCHANGED dbVars
       \/ /\ n \notin users /\ users' = users \cup {n} /\ UNCHANGED limit
          /\ Saved \/ NotSaved
          /\ setup' = [setup EXCEPT ![r].pc = "install"] /\ UNCHANGED running
    /\ UNCHANGED <<complete, chosen, made, guardVars>>

\* CreateUser refuses a name that is taken.  When the disk refuses the user it reports an error
\* too, and the user is there until the panel ends.
CreateUser(r) ==
    /\ setup[r].pc = "create"
    /\ LET n == setup[r].name IN
       \/ n \in users /\ Fail(r) /\ UNCHANGED dbVars
       \/ /\ n \notin users /\ users' = users \cup {n} /\ UNCHANGED limit
          /\ \/ NotSaved /\ Fail(r)
             \/ Saved /\ setup' = [setup EXCEPT ![r].pc = "install"] /\ UNCHANGED running
    /\ UNCHANGED <<complete, chosen, made, guardVars>>

\* One plugin of the catalog; its record is written with the rest of the document.  The first
\* one that cannot be installed ends the set-up.
InstallBundled(r, p) ==
    /\ setup[r].pc = "install" /\ p \in setup[r].left
    /\ UNCHANGED <<users, limit>>
    /\ \/ /\ Saved
          /\ setup' = [setup EXCEPT ![r].left = @ \ {p}]
          /\ made' = made \cup {p}
          /\ UNCHANGED running
       \/ NotSaved /\ Fail(r) /\ UNCHANGED made
    /\ UNCHANGED <<complete, chosen, guardVars>>

SetupComplete(r) ==
    /\ setup[r].pc = "install" /\ setup[r].left = {}
    /\ setup' = [setup EXCEPT ![r] = Over]
    /\ running' = FALSE /\ complete' = TRUE
    /\ UNCHANGED <<dbVars, chosen, made, guardVars>>

SetupStep(r) ==
    \/ SetupClaim(r) \/ CreateUser(r) \/ SetupComplete(r)
    \/ \E p \in Plugins : InstallBundled(r, p)

-----------------------------------------------------------------------------
(* Login *)

\* Refused while nobody is set up.  The policy is read before the lock is looked at.
SecurityPolicy(x, n) ==
    /\ login[x].pc = "idle" /\ HasAdmin
    /\ login' = [login EXCEPT ![x] = [pc |-> "policy", name |-> n, limit |-> limit]]
    /\ UNCHANGED <<dbVars, setupVars, fails, locked, guesses>>

Remaining(x) ==
    /\ login[x].pc = "policy"
    /\ \/ login[x].name \in locked /\ login' = [login EXCEPT ![x] = NoLogin]
       \/ login[x].name \notin locked /\ login' = [login EXCEPT ![x].pc = "verify"]
    /\ UNCHANGED <<dbVars, setupVars, fails, locked, guesses>>

\* GetUserByName and the slow hash; a name that nobody has is wrong.
VerifyPassword(x) ==
    /\ login[x].pc = "verify"
    /\ \/ /\ login' = [login EXCEPT ![x].pc = "wrong"]
          /\ guesses' = [guesses EXCEPT ![login[x].name] = @ + 1]
       \/ /\ login[x].name \in users
          /\ login' = [login EXCEPT ![x].pc = "right"]
          /\ UNCHANGED guesses
    /\ UNCHANGED <<dbVars, setupVars, fails, locked>>

\* Mutant: locks one failure too late.
RecordFailLate(x) ==
    /\ login[x].pc = "wrong"
    /\ LET n == login[x].name IN
       /\ fails[n] < MaxFails
       /\ fails' = [fails EXCEPT ![n] = @ + 1]
       /\ locked' = locked \cup (IF fails'[n] > login[x].limit THEN {n} ELSE {})
    /\ login' = [login EXCEPT ![x] = NoLogin]
    /\ UNCHANGED <<dbVars, setupVars, guesses>>

\* A lock leaves the count as it is: the next failure after it locks again.
RecordFail(x) ==
    /\ login[x].pc = "wrong"
    /\ LET n == login[x].name IN
       /\ fails[n] < MaxFails
       /\ fails' = [fails EXCEPT ![n] = @ + 1]
       /\ locked' = locked \cup (IF fails'[n] >= login[x].limit THEN {n} ELSE {})
    /\ login' = [login EXCEPT ![x] = NoLogin]
    /\ UNCHANGED <<dbVars, setupVars, guesses>>

\* A login that was verified before the lock takes the lock away.
Reset(x) ==
    /\ login[x].pc = "right"
    /\ LET n == login[x].name IN
       /\ fails' = [fails EXCEPT ![n] = 0]
       /\ locked' = locked \ {n}
       /\ guesses' = [guesses EXCEPT ![n] = 0]
    /\ login' = [login EXCEPT ![x] = NoLogin]
    /\ UNCHANGED <<dbVars, setupVars>>

LoginStep(x) ==
    \/ \E n \in Tried : SecurityPolicy(x, n)
    \/ Remaining(x) \/ VerifyPassword(x) \/ RecordFail(x) \/ Reset(x)

\* Behind a session, so there is a user.  It answers ok although the disk may have refused it.
HandleSecurityPut(v) ==
    /\ HasAdmin /\ v # limit
    /\ limit' = v /\ UNCHANGED users
    /\ Saved \/ NotSaved
    /\ UNCHANGED <<setupVars, guardVars>>

-----------------------------------------------------------------------------
(* The rest *)

\* login_fail_lock_minutes have passed.
LockEnds(n) ==
    /\ n \in locked
    /\ locked' = locked \ {n}
    /\ guesses' = [guesses EXCEPT ![n] = 0]
    /\ UNCHANGED <<dbVars, setupVars, fails, login>>

\* Some other method of DB writes the document.
Save ==
    /\ UNCHANGED <<users, limit>> /\ Saved
    /\ UNCHANGED <<setupVars, guardVars>>

\* Mutant: the start does not read the document.
RestartEmpty ==
    /\ users' = {} /\ UNCHANGED <<limit, disk>>
    /\ running' = FALSE /\ complete' = FALSE
    /\ setup' = [r \in Setups |-> NoSetup]
    /\ fails' = [n \in Tried |-> 0] /\ locked' = {}
    /\ guesses' = [n \in Tried |-> 0]
    /\ login' = [x \in Logins |-> NoLogin]
    /\ UNCHANGED <<chosen, made>>

\* The panel ends, at any step, and starts with what the document has.
Restart ==
    /\ users' = disk.users /\ limit' = disk.limit /\ UNCHANGED disk
    /\ running' = FALSE /\ complete' = FALSE
    /\ setup' = [r \in Setups |-> IF setup[r].pc = "idle" THEN setup[r] ELSE Over]
    /\ fails' = [n \in Tried |-> 0] /\ locked' = {}
    /\ guesses' = [n \in Tried |-> 0]
    /\ login' = [x \in Logins |-> NoLogin]
    /\ UNCHANGED <<chosen, made>>

Next ==
    \/ \E r \in Setups :
        \/ \E n \in Names, chose \in SUBSET Plugins : SetupCheck(r, n, chose)
        \/ SetupStep(r)
    \/ \E x \in Logins : LoginStep(x)
    \/ \E v \in Limits : HandleSecurityPut(v)
    \/ \E n \in Tried : LockEnds(n)
    \/ Save \/ Restart

Spec == Init /\ [][Next]_vars

-----------------------------------------------------------------------------
(* Properties *)

\* The lock-out: from one time a name is let in, or its lock ends, to the next, the logins that
\* try a wrong password are as many as the highest limit, and one more for every other login
\* that can be past the lock with the last of them (remaining and recordFail are separate
\* critical sections with the hash in between, and the limit may change while they run).
GuessBound ==
    \A n \in Tried, top \in Limits :
        (\A l \in Limits : l <= top) => guesses[n] < top + Cardinality(Logins)

\* One set-up works at a time (runSetup writes the shared progress without knowing whose it is):
\* the flag tells whether one does, and what it still has to install is what the page has been
\* told to wait for.
InSetup == {r \in Setups : setup[r].pc \in {"create", "install"}}
OneSetup ==
    /\ \A r, q \in InSetup : r = q
    /\ running <=> InSetup # {}
    /\ \A r \in InSetup : setup[r].left = chosen \ made

\* handleSetupStatus says complete only of a set-up that made its administrator and installed
\* every plugin asked for, and never while another one is at work.
ProgressIsTrue == complete => users # {} /\ made = chosen /\ ~running

\* The set-up requests together, with failed writes, other writes and restarts between their
\* steps, do what one job does: nothing is installed and nothing reported complete before the
\* administrator is on the disk, so that no end of the panel opens a finished set-up again.
Progress == IF running THEN "running" ELSE IF complete THEN "complete" ELSE "idle"
Admin == IF disk.users # {} THEN "disk" ELSE IF users # {} THEN "memory" ELSE "none"
Job == INSTANCE SetupJob
           WITH job <- Progress, wanted <- chosen, done <- made, admin <- Admin
SetupJobSpec == Job!Spec
=============================================================================
