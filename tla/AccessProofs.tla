----------------------------- MODULE AccessProofs -----------------------------
(* Theorems about Access, for every value of its constants. *)
EXTENDS Access, FiniteSetTheorems, TLAPS

\* A set-up installs only what was asked for, and only after it made its administrator.
InstallsInOrder ==
    /\ made \subseteq chosen
    /\ \A r \in Setups : setup[r].pc = "install" => users # {}

\* The logins that have tried a wrong password of n and not yet reported it, and those that are
\* past the lock of n and have not tried theirs.
Wrong(n) == {x \in Logins : login[x].pc = "wrong" /\ login[x].name = n}
Verifying(n) == {x \in Logins : login[x].pc = "verify" /\ login[x].name = n}

Highest(top) == \A l \in Limits : l <= top

\* What the lock-out owes to the count: every guess is counted or about to be; without a lock
\* the counted ones are below the limit; with a lock, the logins that may still try were past it
\* together with the one that set it.
CountsAgree ==
    \A n \in Tried, top \in Limits : Highest(top) =>
        /\ guesses[n] <= Cardinality(Wrong(n)) + fails[n]
        /\ n \notin locked => guesses[n] < Cardinality(Wrong(n)) + top
        /\ n \in locked => guesses[n] + Cardinality(Verifying(n)) < top + Cardinality(Logins)

IInv == TypeOK /\ OneSetup /\ ProgressIsTrue /\ InstallsInOrder /\ CountsAgree

-----------------------------------------------------------------------------
(* Types *)

\* The document, in memory and on the disk.
DocumentTypes ==
    /\ users \in SUBSET Names /\ limit \in Limits
    /\ disk \in [users: SUBSET users, limit: Limits]

LEMMA DocumentWritten ==
    ASSUME DocumentTypes,
           users' \in SUBSET Names, users \subseteq users', limit' \in Limits, Saved \/ NotSaved
    PROVE  DocumentTypes'
<1>1. users \in SUBSET Names /\ limit \in Limits /\ disk \in [users: SUBSET users, limit: Limits]
  BY DEF DocumentTypes
<1>2. CASE Saved
  BY <1>2 DEF Saved, DocumentTypes
<1>3. CASE NotSaved
  <2>1. disk' = disk
    BY <1>3 DEF NotSaved
  <2>2. [users: SUBSET users, limit: Limits] \subseteq [users: SUBSET users', limit: Limits]
    OBVIOUS
  <2> QED BY <1>1, <2>1, <2>2 DEF DocumentTypes
<1> QED BY <1>2, <1>3

\* Everything but the set-up and login records.
PlainTypes ==
    /\ DocumentTypes
    /\ chosen \in SUBSET Plugins /\ made \in SUBSET Plugins
    /\ running \in BOOLEAN /\ complete \in BOOLEAN
    /\ fails \in [Tried -> 0..MaxFails] /\ locked \in SUBSET Tried
    /\ guesses \in [Tried -> Nat]

SetupTypesOK ==
    /\ setup \in [Setups -> Setup]
    /\ \A r \in Setups : setup[r].pc \notin {"idle", "over"} => setup[r].name \in Names

LoginTypesOK ==
    /\ login \in [Logins -> Login]
    /\ \A x \in Logins : login[x].pc # "idle" => login[x].name \in Tried /\ login[x].limit \in Limits

LEMMA TypeParts == TypeOK <=> PlainTypes /\ SetupTypesOK /\ LoginTypesOK
BY DEF TypeOK, DocumentTypes, PlainTypes, SetupTypesOK, LoginTypesOK

LEMMA InitTypeOK == Init => TypeOK
<1> SUFFICES ASSUME Init PROVE PlainTypes /\ SetupTypesOK /\ LoginTypesOK
  BY TypeParts
<1>1. PlainTypes
  <2>1. DocumentTypes
    BY DEF Init, DocumentTypes
  <2>2. [n \in Tried |-> 0] \in [Tried -> 0..MaxFails]
    BY AccessAssumption
  <2> QED BY <2>1, <2>2 DEF Init, PlainTypes
<1>2. SetupTypesOK
  BY DEF Init, SetupTypesOK, Setup, NoSetup
<1>3. LoginTypesOK
  BY DEF Init, LoginTypesOK, Login, NoLogin
<1> QED BY <1>1, <1>2, <1>3

\* A set-up request changes its own record.
LEMMA SetupTypes ==
    ASSUME SetupTypesOK, NEW r \in Setups, NEW s \in Setup,
           s.pc \notin {"idle", "over"} => s.name \in Names,
           setup' = [setup EXCEPT ![r] = s]
    PROVE  SetupTypesOK'
BY DEF SetupTypesOK

LEMMA OverTypes == Over \in Setup /\ Over.pc = "over" /\ Over = [pc |-> "over", name |-> NoName, left |-> {}]
BY DEF Over, NoSetup, Setup

\* So does a login.
LEMMA LoginTypes ==
    ASSUME LoginTypesOK, NEW x \in Logins, NEW l \in Login,
           l.pc # "idle" => l.name \in Tried /\ l.limit \in Limits,
           login' = [login EXCEPT ![x] = l]
    PROVE  LoginTypesOK'
BY DEF LoginTypesOK

LEMMA NoLoginTypes == NoLogin \in Login /\ NoLogin.pc = "idle"
BY DEF NoLogin, Login

LEMMA StepTypeOK ==
    ASSUME TypeOK, [Next]_vars
    PROVE  TypeOK'
<1> USE DEF dbVars, setupVars, guardVars
<1>0. PlainTypes /\ SetupTypesOK /\ LoginTypesOK
  BY TypeParts
<1>1. ASSUME NEW r \in Setups, NEW n \in Names, NEW chose \in SUBSET Plugins,
             SetupCheck(r, n, chose)
      PROVE  TypeOK'
  <2>1. SetupTypesOK'
    <3> DEFINE s == [pc |-> "checked", name |-> n, left |-> chose]
    <3>1. s \in Setup /\ s.name \in Names
      BY DEF Setup
    <3>2. setup' = [setup EXCEPT ![r] = s]
      BY <1>1 DEF SetupCheck
    <3> QED BY <1>0, <3>1, <3>2, SetupTypes
  <2> QED BY <1>0, <1>1, <2>1 DEF SetupCheck, PlainTypes, LoginTypesOK, DocumentTypes, SetupTypesOK, TypeOK
<1>2. ASSUME NEW r \in Setups, SetupClaim(r)
      PROVE  TypeOK'
  <2>1. SetupTypesOK'
    <3> DEFINE s == [setup[r] EXCEPT !.pc = "create"]
    <3>1. s \in Setup /\ s.name \in Names
      BY <1>0, <1>2 DEF SetupClaim, SetupTypesOK, Setup
    <3>2. setup' = [setup EXCEPT ![r] = s] \/ setup' = [setup EXCEPT ![r] = Over]
      BY <1>2 DEF SetupClaim
    <3> QED BY <1>0, <3>1, <3>2, SetupTypes, OverTypes
  <2>2. setup[r].left \in SUBSET Plugins
    BY <1>0 DEF SetupTypesOK, Setup
  <2> QED BY <1>0, <1>2, <2>1, <2>2 DEF SetupClaim, PlainTypes, LoginTypesOK, SetupTypesOK, DocumentTypes, TypeOK
<1>3. ASSUME NEW r \in Setups, CreateUser(r)
      PROVE  TypeOK'
  <2>1. SetupTypesOK'
    <3> DEFINE s == [setup[r] EXCEPT !.pc = "install"]
    <3>1. s \in Setup /\ s.name \in Names
      BY <1>0, <1>3 DEF CreateUser, SetupTypesOK, Setup
    <3>2. setup' = [setup EXCEPT ![r] = s] \/ setup' = [setup EXCEPT ![r] = Over]
      BY <1>3 DEF CreateUser, Fail
    <3> QED BY <1>0, <3>1, <3>2, SetupTypes, OverTypes
  <2>2. PlainTypes'
    <3>1. setup[r].name \in Names
      BY <1>0, <1>3 DEF CreateUser, SetupTypesOK
    <3>2. DocumentTypes'
      BY <1>0, <1>3, <3>1, DocumentWritten
      DEF CreateUser, NotSaved, PlainTypes, DocumentTypes
    <3> QED BY <1>0, <1>3, <3>2 DEF CreateUser, Fail, PlainTypes
  <2> QED BY <1>0, <1>3, <2>1, <2>2 DEF CreateUser, PlainTypes, LoginTypesOK, SetupTypesOK, DocumentTypes, TypeOK
<1>4. ASSUME NEW r \in Setups, NEW p \in Plugins, InstallBundled(r, p)
      PROVE  TypeOK'
  <2>1. SetupTypesOK'
    <3> DEFINE s == [setup[r] EXCEPT !.left = @ \ {p}]
    <3>1. s \in Setup /\ s.name \in Names
      BY <1>0, <1>4 DEF InstallBundled, SetupTypesOK, Setup
    <3>2. setup' = [setup EXCEPT ![r] = s] \/ setup' = [setup EXCEPT ![r] = Over]
      BY <1>4 DEF InstallBundled, Fail
    <3> QED BY <1>0, <3>1, <3>2, SetupTypes, OverTypes
  <2>2. PlainTypes'
    <3>1. DocumentTypes'
      BY <1>0, <1>4, DocumentWritten DEF InstallBundled, PlainTypes, DocumentTypes
    <3> QED BY <1>0, <1>4, <3>1 DEF InstallBundled, Fail, PlainTypes
  <2> QED BY <1>0, <1>4, <2>1, <2>2 DEF InstallBundled, PlainTypes, LoginTypesOK, SetupTypesOK, DocumentTypes, TypeOK
<1>5. ASSUME NEW r \in Setups, SetupComplete(r)
      PROVE  TypeOK'
  <2>1. SetupTypesOK'
    BY <1>0, <1>5, SetupTypes, OverTypes DEF SetupComplete
  <2> QED BY <1>0, <1>5, <2>1 DEF SetupComplete, PlainTypes, LoginTypesOK, SetupTypesOK, DocumentTypes, TypeOK
<1>6. ASSUME NEW x \in Logins, LoginStep(x)
      PROVE  TypeOK'
  <2>1. LoginTypesOK'
    <3>1. CASE login' = [login EXCEPT ![x] = NoLogin]
      BY <1>0, <3>1, LoginTypes, NoLoginTypes
    <3>2. ASSUME NEW n \in Tried, SecurityPolicy(x, n) PROVE LoginTypesOK'
      <4> DEFINE l == [pc |-> "policy", name |-> n, limit |-> limit]
      <4>1. l \in Login /\ l.name \in Tried /\ l.limit \in Limits
        BY <1>0 DEF Login, PlainTypes, DocumentTypes
      <4>2. login' = [login EXCEPT ![x] = l]
        BY <3>2 DEF SecurityPolicy
      <4> QED BY <1>0, <4>1, <4>2, LoginTypes
    <3>3. ASSUME NEW c \in {"verify", "wrong", "right"}, login[x].pc # "idle",
                 login' = [login EXCEPT ![x].pc = c]
          PROVE  LoginTypesOK'
      <4> DEFINE l == [login[x] EXCEPT !.pc = c]
      <4>1. l \in Login /\ l.name \in Tried /\ l.limit \in Limits
        BY <1>0, <3>3 DEF LoginTypesOK, Login
      <4>2. login' = [login EXCEPT ![x] = l]
        BY <3>3
      <4> QED BY <1>0, <4>1, <4>2, LoginTypes
    <3> QED BY <1>6, <3>1, <3>2, <3>3
            DEF LoginStep, Remaining, VerifyPassword, RecordFail, Reset
  <2>2. CASE RecordFail(x)
    <3>1. login[x].name \in Tried
      BY <1>0, <2>2 DEF RecordFail, LoginTypesOK
    <3>2. PlainTypes'
      <4>1. fails[login[x].name] + 1 \in 0..MaxFails
        BY <1>0, <2>2, <3>1, AccessAssumption DEF RecordFail, PlainTypes
      <4> QED BY <1>0, <2>2, <3>1, <4>1 DEF RecordFail, PlainTypes, DocumentTypes
    <3> QED BY <1>0, <2>1, <2>2, <3>2 DEF RecordFail, PlainTypes, SetupTypesOK, LoginTypesOK, DocumentTypes, TypeOK
  <2>3. CASE Reset(x)
    <3>1. login[x].name \in Tried
      BY <1>0, <2>3 DEF Reset, LoginTypesOK
    <3>2. PlainTypes'
      BY <1>0, <2>3, <3>1, AccessAssumption DEF Reset, PlainTypes, DocumentTypes
    <3> QED BY <1>0, <2>1, <2>3, <3>2 DEF Reset, PlainTypes, SetupTypesOK, LoginTypesOK, DocumentTypes, TypeOK
  <2>4. CASE VerifyPassword(x)
    <3>1. login[x].name \in Tried
      BY <1>0, <2>4 DEF VerifyPassword, LoginTypesOK
    <3>2. PlainTypes'
      BY <1>0, <2>4, <3>1 DEF VerifyPassword, PlainTypes, DocumentTypes
    <3> QED BY <1>0, <2>1, <2>4, <3>2 DEF VerifyPassword, PlainTypes, SetupTypesOK, LoginTypesOK, DocumentTypes, TypeOK
  <2>5. CASE Remaining(x) \/ \E n \in Tried : SecurityPolicy(x, n)
    BY <1>0, <2>1, <2>5
    DEF Remaining, SecurityPolicy, PlainTypes, SetupTypesOK, LoginTypesOK, DocumentTypes, TypeOK
  <2> QED BY <1>6, <2>2, <2>3, <2>4, <2>5 DEF LoginStep
<1>7. ASSUME NEW v \in Limits, HandleSecurityPut(v)
      PROVE  TypeOK'
  <2>1. DocumentTypes'
    BY <1>0, <1>7, DocumentWritten DEF HandleSecurityPut, PlainTypes, DocumentTypes
  <2> QED BY <1>0, <1>7, <2>1
          DEF HandleSecurityPut, PlainTypes, SetupTypesOK, LoginTypesOK, DocumentTypes, TypeOK
<1>8. ASSUME NEW n \in Tried, LockEnds(n)
      PROVE  TypeOK'
  <2>1. PlainTypes'
    BY <1>0, <1>8 DEF LockEnds, PlainTypes, DocumentTypes
  <2> QED BY <1>0, <1>8, <2>1 DEF LockEnds, PlainTypes, SetupTypesOK, LoginTypesOK, DocumentTypes, TypeOK
<1>9. CASE Save
  <2>1. DocumentTypes'
    BY <1>0, <1>9, DocumentWritten DEF Save, PlainTypes, DocumentTypes
  <2> QED BY <1>0, <1>9, <2>1 DEF Save, PlainTypes, SetupTypesOK, LoginTypesOK, DocumentTypes, TypeOK
<1>10. CASE Restart
  <2>1. SetupTypesOK'
    BY <1>0, <1>10, OverTypes DEF Restart, SetupTypesOK
  <2>2. LoginTypesOK'
    BY <1>10, NoLoginTypes DEF Restart, LoginTypesOK
  <2>3. PlainTypes'
    <3>1. DocumentTypes'
      BY <1>0, <1>10 DEF Restart, PlainTypes, DocumentTypes
    <3>2. [n \in Tried |-> 0] \in [Tried -> 0..MaxFails] /\ [n \in Tried |-> 0] \in [Tried -> Nat]
      BY AccessAssumption
    <3> QED BY <1>0, <1>10, <3>1, <3>2 DEF Restart, PlainTypes
  <2> QED BY <2>1, <2>2, <2>3 DEF PlainTypes, SetupTypesOK, LoginTypesOK, DocumentTypes, TypeOK
<1>11. CASE UNCHANGED vars
  BY <1>0, <1>11 DEF vars, PlainTypes, SetupTypesOK, LoginTypesOK, DocumentTypes, TypeOK
<1> QED BY <1>1, <1>2, <1>3, <1>4, <1>5, <1>6, <1>7, <1>8, <1>9, <1>10, <1>11
        DEF Next, SetupStep

-----------------------------------------------------------------------------
(* The set-up *)

SetupInv == OneSetup /\ ProgressIsTrue /\ InstallsInOrder

LEMMA InitSetup == Init => SetupInv
BY DEF Init, SetupInv, OneSetup, ProgressIsTrue, InstallsInOrder, InSetup, NoSetup

\* The steps of logins and of the store leave the set-up alone, and take no user away.
LEMMA OthersLeaveSetup ==
    ASSUME SetupInv, UNCHANGED setupVars, users \subseteq users'
    PROVE  SetupInv'
BY DEF SetupInv, OneSetup, ProgressIsTrue, InstallsInOrder, InSetup, setupVars

LEMMA StepSetup ==
    ASSUME TypeOK, SetupInv, [Next]_vars
    PROVE  SetupInv'
<1> USE DEF SetupInv
<1>t. /\ setup \in [Setups -> Setup] /\ running \in BOOLEAN /\ complete \in BOOLEAN
      /\ chosen \in SUBSET Plugins /\ made \in SUBSET Plugins
  BY DEF TypeOK
<1>o. Over.pc = "over"
  BY OverTypes
<1>1. ASSUME NEW r \in Setups, NEW n \in Names, NEW chose \in SUBSET Plugins,
             SetupCheck(r, n, chose)
      PROVE  SetupInv'
  <2>1. /\ setup'[r].pc = "checked" /\ \A q \in Setups \ {r} : setup'[q] = setup[q]
        /\ setup[r].pc = "idle"
        /\ UNCHANGED <<users, running, complete, chosen, made>>
    BY <1>1, <1>t DEF SetupCheck, dbVars
  <2>2. InSetup' = InSetup /\ \A q \in InSetup : setup'[q] = setup[q]
    BY <2>1 DEF InSetup
  <2>3. \A q \in Setups : setup'[q].pc = "install" => setup[q].pc = "install"
    BY <2>1
  <2> QED BY <2>1, <2>2, <2>3 DEF OneSetup, ProgressIsTrue, InstallsInOrder
<1>2. ASSUME NEW r \in Setups, SetupClaim(r)
      PROVE  SetupInv'
  <2>1. setup[r].pc = "checked" /\ UNCHANGED users
    BY <1>2 DEF SetupClaim, dbVars
  <2>2. CASE running
    <3>1. /\ setup'[r].pc = "over" /\ \A q \in Setups \ {r} : setup'[q] = setup[q]
          /\ UNCHANGED <<running, complete, chosen, made>>
      BY <1>2, <2>2, <1>t, <1>o DEF SetupClaim
    <3>2. InSetup' = InSetup /\ \A q \in InSetup : setup'[q] = setup[q]
      BY <2>1, <3>1 DEF InSetup
    <3>3. \A q \in Setups : setup'[q].pc = "install" => setup[q].pc = "install"
      BY <3>1
    <3> QED BY <2>1, <3>1, <3>2, <3>3 DEF OneSetup, ProgressIsTrue, InstallsInOrder
  <2>3. CASE ~running
    <3>1. /\ setup'[r].pc = "create" /\ setup'[r].left = setup[r].left
          /\ \A q \in Setups \ {r} : setup'[q] = setup[q]
          /\ running' = TRUE /\ complete' = FALSE /\ chosen' = setup[r].left /\ made' = {}
      BY <1>2, <2>3, <1>t DEF SetupClaim, Setup
    <3>2. InSetup = {}
      BY <2>3 DEF OneSetup
    <3>3. InSetup' = {r}
      BY <3>1, <3>2 DEF InSetup
    <3>4. \A q \in Setups : setup'[q].pc # "install"
      BY <3>1, <3>2 DEF InSetup
    <3> QED BY <3>1, <3>3, <3>4 DEF OneSetup, ProgressIsTrue, InstallsInOrder
  <2> QED BY <2>2, <2>3
\* The set-up that ends or goes on is the only one.
<1>a. ASSUME NEW r \in InSetup, setup' = [setup EXCEPT ![r] = Over], running' = FALSE,
             UNCHANGED chosen
      PROVE  /\ InSetup' = {} /\ \A q \in Setups : setup'[q].pc # "install"
             /\ r \in Setups
  <2>1. InSetup = {r} /\ r \in Setups
    BY DEF OneSetup, InSetup
  <2>2. setup'[r].pc = "over" /\ \A q \in Setups \ {r} : setup'[q] = setup[q]
    BY <1>a, <2>1, <1>t, <1>o
  <2>3. \A q \in Setups \ {r} : setup[q].pc \notin {"create", "install"}
    BY <2>1 DEF InSetup
  <2> QED BY <2>1, <2>2, <2>3 DEF InSetup
<1>3. ASSUME NEW r \in Setups, CreateUser(r)
      PROVE  SetupInv'
  <2>1. r \in InSetup /\ users \subseteq users' /\ UNCHANGED <<complete, chosen, made>>
    BY <1>3 DEF CreateUser, InSetup, dbVars
  <2>2. ~complete
    BY <2>1 DEF OneSetup, ProgressIsTrue
  <2>3. CASE Fail(r)
    <3>1. InSetup' = {} /\ \A q \in Setups : setup'[q].pc # "install"
      BY <2>1, <2>3, <1>a DEF Fail
    <3> QED BY <2>1, <2>2, <2>3, <3>1 DEF Fail, OneSetup, ProgressIsTrue, InstallsInOrder
  <2>4. CASE ~Fail(r)
    <3>1. /\ setup'[r].pc = "install" /\ setup'[r].left = setup[r].left
          /\ \A q \in Setups \ {r} : setup'[q] = setup[q]
          /\ UNCHANGED running /\ users' # {}
      BY <1>3, <2>4, <1>t DEF CreateUser, Setup
    <3>2. InSetup' = InSetup
      BY <2>1, <3>1 DEF InSetup
    <3>3. InSetup = {r}
      BY <2>1 DEF OneSetup
    <3> QED BY <2>1, <2>2, <3>1, <3>2, <3>3 DEF OneSetup, ProgressIsTrue, InstallsInOrder
  <2> QED BY <2>3, <2>4
<1>4. ASSUME NEW r \in Setups, NEW p \in Plugins, InstallBundled(r, p)
      PROVE  SetupInv'
  <2>1. r \in InSetup /\ p \in setup[r].left /\ UNCHANGED <<users, complete, chosen>>
    BY <1>4 DEF InstallBundled, InSetup
  <2>2. ~complete /\ setup[r].left = chosen \ made /\ users # {}
    BY <2>1, <1>4 DEF OneSetup, ProgressIsTrue, InstallsInOrder, InstallBundled
  <2>3. CASE Fail(r) /\ UNCHANGED made
    <3>1. InSetup' = {} /\ \A q \in Setups : setup'[q].pc # "install"
      BY <2>1, <2>3, <1>a DEF Fail
    <3> QED BY <2>1, <2>2, <2>3, <3>1 DEF Fail, OneSetup, ProgressIsTrue, InstallsInOrder
  <2>4. CASE ~(Fail(r) /\ UNCHANGED made)
    <3>1. /\ setup'[r].pc = setup[r].pc /\ setup'[r].left = setup[r].left \ {p}
          /\ \A q \in Setups \ {r} : setup'[q] = setup[q]
          /\ UNCHANGED running /\ made' = made \cup {p}
      BY <1>4, <2>4, <1>t DEF InstallBundled, Setup
    <3>2. InSetup' = InSetup
      BY <3>1 DEF InSetup
    <3>3. InSetup = {r}
      BY <2>1 DEF OneSetup
    <3>4. setup'[r].left = chosen \ made' /\ made' \subseteq chosen
      BY <2>1, <2>2, <3>1 DEF InstallsInOrder
    <3> QED BY <2>1, <2>2, <3>1, <3>2, <3>3, <3>4 DEF OneSetup, ProgressIsTrue, InstallsInOrder
  <2> QED BY <2>3, <2>4
<1>5. ASSUME NEW r \in Setups, SetupComplete(r)
      PROVE  SetupInv'
  <2>1. r \in InSetup /\ setup[r].left = {} /\ UNCHANGED <<users, chosen, made>>
    BY <1>5 DEF SetupComplete, InSetup, dbVars
  <2>2. made = chosen /\ users # {}
    BY <1>5, <2>1 DEF OneSetup, InstallsInOrder, SetupComplete
  <2>3. InSetup' = {} /\ \A q \in Setups : setup'[q].pc # "install"
    BY <1>5, <2>1, <1>a DEF SetupComplete
  <2> QED BY <1>5, <2>1, <2>2, <2>3 DEF SetupComplete, OneSetup, ProgressIsTrue, InstallsInOrder
<1>6. ASSUME NEW x \in Logins, LoginStep(x)
      PROVE  SetupInv'
  BY <1>6, OthersLeaveSetup
  DEF LoginStep, SecurityPolicy, Remaining, VerifyPassword, RecordFail, Reset, dbVars
<1>7. ASSUME NEW v \in Limits, HandleSecurityPut(v)
      PROVE  SetupInv'
  BY <1>7, OthersLeaveSetup DEF HandleSecurityPut
<1>8. ASSUME NEW n \in Tried, LockEnds(n)
      PROVE  SetupInv'
  BY <1>8, OthersLeaveSetup DEF LockEnds, dbVars
<1>9. CASE Save
  BY <1>9, OthersLeaveSetup DEF Save
<1>10. CASE Restart
  <2>1. \A r \in Setups : setup'[r].pc \notin {"create", "install"}
    BY <1>10, <1>o DEF Restart
  <2> QED BY <1>10, <2>1 DEF Restart, OneSetup, ProgressIsTrue, InstallsInOrder, InSetup
<1>11. CASE UNCHANGED vars
  BY <1>11, OthersLeaveSetup DEF vars, dbVars
<1> QED BY <1>1, <1>2, <1>3, <1>4, <1>5, <1>6, <1>7, <1>8, <1>9, <1>10, <1>11
        DEF Next, SetupStep

-----------------------------------------------------------------------------
(* The lock-out *)

\* The logins that are on the way for a name are finitely many, each at one place.
LEMMA OnTheWay ==
    ASSUME NEW n
    PROVE  /\ IsFiniteSet(Wrong(n)) /\ IsFiniteSet(Verifying(n))
           /\ Cardinality(Wrong(n)) \in Nat /\ Cardinality(Verifying(n)) \in Nat
           /\ Cardinality(Logins) \in Nat
           /\ Cardinality(Wrong(n)) <= Cardinality(Logins)
<1>1. IsFiniteSet(Logins)
  BY AccessAssumption
<1>2. Wrong(n) \in SUBSET Logins /\ Verifying(n) \in SUBSET Logins
  BY DEF Wrong, Verifying
<1>3. /\ IsFiniteSet(Wrong(n)) /\ IsFiniteSet(Verifying(n))
      /\ Cardinality(Wrong(n)) <= Cardinality(Logins)
  BY <1>1, <1>2, FS_Subset
<1>4. /\ Cardinality(Wrong(n)) \in Nat /\ Cardinality(Verifying(n)) \in Nat
      /\ Cardinality(Logins) \in Nat
  BY <1>1, <1>3, FS_CardinalityType
<1> QED BY <1>3, <1>4

\* A login that comes to a place or leaves it.
LEMMA OneMore ==
    ASSUME NEW S, IsFiniteSet(S), NEW x, x \notin S
    PROVE  Cardinality(S \cup {x}) = Cardinality(S) + 1
BY FS_AddElement

LEMMA OneLess ==
    ASSUME NEW S, IsFiniteSet(S), NEW x \in S
    PROVE  Cardinality(S \ {x}) = Cardinality(S) - 1
BY FS_RemoveElement

\* Two sets of logins that have none in common, nor a certain one.
LEMMA DisjointFewer ==
    ASSUME NEW L, IsFiniteSet(L), NEW S \in SUBSET L, NEW T \in SUBSET L, S \cap T = {},
           NEW x \in L, x \notin S \cup T
    PROVE  Cardinality(S) + Cardinality(T) < Cardinality(L)
<1>1. IsFiniteSet(S) /\ IsFiniteSet(T) /\ IsFiniteSet(S \cup T)
  BY FS_Subset, FS_Union
<1>2. /\ Cardinality(S) \in Nat /\ Cardinality(T) \in Nat /\ Cardinality(L) \in Nat
      /\ Cardinality(S \cup T) \in Nat
  BY <1>1, FS_CardinalityType
<1>3. Cardinality(S \cup T) = Cardinality(S) + Cardinality(T)
  <2>1. Cardinality({}) = 0
    BY FS_EmptySet
  <2>2. Cardinality(S \cup T) = Cardinality(S) + Cardinality(T) - Cardinality(S \cap T)
    BY <1>1, FS_Union
  <2>3. Cardinality(S \cap T) = 0
    BY <2>1
  <2> QED BY <1>2, <2>2, <2>3
<1>4. S \cup T \in SUBSET L /\ S \cup T # L
  OBVIOUS
<1>5. Cardinality(S \cup T) <= Cardinality(L) /\ Cardinality(S \cup T) # Cardinality(L)
  BY <1>4, FS_Subset
<1> QED BY <1>2, <1>3, <1>5

\* The part of CountsAgree about one name and the highest limit.
Agree(n, top) ==
    /\ guesses[n] <= Cardinality(Wrong(n)) + fails[n]
    /\ n \notin locked => guesses[n] < Cardinality(Wrong(n)) + top
    /\ n \in locked => guesses[n] + Cardinality(Verifying(n)) < top + Cardinality(Logins)

LEMMA NumbersAre ==
    ASSUME TypeOK, NEW n \in Tried
    PROVE  guesses[n] \in Nat /\ fails[n] \in Nat
BY AccessAssumption DEF TypeOK

LEMMA LimitsAre == \A l \in Limits : l \in Nat /\ l > 0
BY AccessAssumption

LEMMA InitCounts == Init => CountsAgree
<1> SUFFICES ASSUME Init, NEW n \in Tried, NEW top \in Limits, Highest(top)
             PROVE  Agree(n, top)
  BY DEF CountsAgree, Agree
<1>1. guesses[n] = 0 /\ fails[n] = 0 /\ n \notin locked
  BY DEF Init
<1> QED BY <1>1, OnTheWay, LimitsAre DEF Agree

\* Nothing is disturbed for a name when its logins, its guesses, its count and its lock stay.
LEMMA Undisturbed ==
    ASSUME NEW n \in Tried, NEW top \in Limits, Agree(n, top),
           Wrong(n)' = Wrong(n), Verifying(n)' = Verifying(n),
           guesses'[n] = guesses[n], fails'[n] = fails[n], n \in locked' <=> n \in locked
    PROVE  Agree(n, top)'
BY DEF Agree

\* A name that was let in, or whose lock is over, starts anew.
LEMMA StartsAnew ==
    ASSUME TypeOK', NEW n \in Tried, NEW top \in Limits,
           guesses'[n] = 0, n \notin locked'
    PROVE  Agree(n, top)'
<1>1. Cardinality(Wrong(n)') \in Nat
  <2>1. Wrong(n)' \in SUBSET Logins
    BY DEF Wrong
  <2> QED BY <2>1, AccessAssumption, FS_Subset, FS_CardinalityType
<1>2. fails'[n] \in Nat
  BY AccessAssumption DEF TypeOK
<1> QED BY <1>1, <1>2, LimitsAre DEF Agree

LEMMA StepCounts ==
    ASSUME TypeOK, TypeOK', CountsAgree, [Next]_vars
    PROVE  CountsAgree'
<1> SUFFICES ASSUME NEW n \in Tried, NEW top \in Limits, Highest(top)
             PROVE  Agree(n, top)'
  BY DEF CountsAgree, Agree, Highest
<1>a. Agree(n, top)
  BY DEF CountsAgree, Agree
<1>t. /\ login \in [Logins -> Login]
      /\ fails \in [Tried -> 0..MaxFails] /\ guesses \in [Tried -> Nat]
      /\ \A x \in Logins : login[x].pc # "idle" => login[x].name \in Tried /\ login[x].limit \in Limits
  BY DEF TypeOK
<1>n. guesses[n] \in Nat /\ fails[n] \in Nat /\ top \in Nat /\ top > 0
  BY NumbersAre, LimitsAre
<1>1. ASSUME UNCHANGED guardVars
      PROVE  Agree(n, top)'
  BY <1>a, <1>1 DEF guardVars, Agree, Wrong, Verifying
<1>2. ASSUME NEW x \in Logins, NEW m \in Tried, SecurityPolicy(x, m)
      PROVE  Agree(n, top)'
  <2>1. Wrong(n)' = Wrong(n) /\ Verifying(n)' = Verifying(n)
    BY <1>2, <1>t DEF SecurityPolicy, Wrong, Verifying
  <2> QED BY <1>a, <1>2, <2>1, Undisturbed DEF SecurityPolicy
<1>3. ASSUME NEW x \in Logins, Remaining(x)
      PROVE  Agree(n, top)'
  <2>1. Wrong(n)' = Wrong(n) /\ UNCHANGED <<guesses, fails, locked>>
    BY <1>3, <1>t, NoLoginTypes DEF Remaining, Wrong, Login
  <2>2. CASE n \in locked
    <3>1. Verifying(n)' = Verifying(n)
      BY <1>3, <1>t, <2>2, NoLoginTypes DEF Remaining, Verifying, Login
    <3> QED BY <1>a, <2>1, <3>1, Undisturbed
  <2>3. CASE n \notin locked
    BY <1>a, <2>1, <2>3 DEF Agree
  <2> QED BY <2>2, <2>3
<1>4. ASSUME NEW x \in Logins, VerifyPassword(x)
      PROVE  Agree(n, top)'
  <2>1. /\ login[x].pc = "verify" /\ login[x].name \in Tried
        /\ UNCHANGED <<fails, locked>>
    BY <1>4, <1>t DEF VerifyPassword
  <2>2. CASE login[x].name # n
    <3>1. Wrong(n)' = Wrong(n) /\ Verifying(n)' = Verifying(n) /\ guesses'[n] = guesses[n]
      BY <1>4, <1>t, <2>1, <2>2 DEF VerifyPassword, Wrong, Verifying, Login
    <3> QED BY <1>a, <2>1, <3>1, Undisturbed
  <2>3. CASE login[x].name = n
    <3>1. x \in Verifying(n) /\ x \notin Wrong(n)
      BY <2>1, <2>3 DEF Verifying, Wrong
    <3>2. Verifying(n)' = Verifying(n) \ {x}
      BY <1>4, <1>t, <2>1 DEF VerifyPassword, Verifying, Login
    <3>3. \/ Wrong(n)' = Wrong(n) \cup {x} /\ guesses'[n] = guesses[n] + 1
          \/ Wrong(n)' = Wrong(n) /\ guesses'[n] = guesses[n]
      BY <1>4, <1>t, <2>1, <2>3 DEF VerifyPassword, Wrong, Login
    <3>4. /\ Cardinality(Verifying(n)') = Cardinality(Verifying(n)) - 1
          /\ \/ /\ Cardinality(Wrong(n)') = Cardinality(Wrong(n)) + 1
                /\ guesses'[n] = guesses[n] + 1
             \/ Cardinality(Wrong(n)') = Cardinality(Wrong(n)) /\ guesses'[n] = guesses[n]
      BY <3>1, <3>2, <3>3, OneMore, OneLess, OnTheWay
    <3> QED BY <1>a, <1>n, <2>1, <3>4, OnTheWay DEF Agree
  <2> QED BY <2>2, <2>3
<1>5. ASSUME NEW x \in Logins, RecordFail(x)
      PROVE  Agree(n, top)'
  <2>1. login[x].pc = "wrong" /\ login[x].name \in Tried /\ login[x].limit \in Limits
        /\ UNCHANGED guesses
    BY <1>5, <1>t DEF RecordFail
  <2>2. Verifying(n)' = Verifying(n)
    BY <1>5, <1>t, <2>1, NoLoginTypes DEF RecordFail, Verifying
  <2>3. CASE login[x].name # n
    <3>1. Wrong(n)' = Wrong(n) /\ fails'[n] = fails[n] /\ (n \in locked' <=> n \in locked)
      BY <1>5, <1>t, <2>1, <2>3, NoLoginTypes DEF RecordFail, Wrong
    <3> QED BY <1>a, <2>1, <2>2, <3>1, Undisturbed
  <2>4. CASE login[x].name = n
    <3>1. x \in Wrong(n) /\ Wrong(n)' = Wrong(n) \ {x}
      BY <1>5, <1>t, <2>1, <2>4, NoLoginTypes DEF RecordFail, Wrong
    <3>2. Cardinality(Wrong(n)') = Cardinality(Wrong(n)) - 1
      BY <3>1, OneLess, OnTheWay
    <3>3. /\ fails'[n] = fails[n] + 1
          /\ n \in locked' <=> n \in locked \/ fails'[n] >= login[x].limit
      BY <1>5, <1>t, <2>4 DEF RecordFail
    <3>4. login[x].limit <= top /\ login[x].limit \in Nat
      BY <2>1, LimitsAre DEF Highest
    <3>5. guesses[n] <= Cardinality(Wrong(n)') + fails'[n]
      BY <1>a, <1>n, <3>2, <3>3, OnTheWay DEF Agree
    <3>6. CASE n \notin locked'
      <4>1. fails'[n] < top /\ Cardinality(Wrong(n)') \in Int
        BY <1>n, <3>2, <3>3, <3>4, <3>6, OnTheWay
      <4> QED BY <1>n, <2>1, <3>3, <3>5, <3>6, <4>1 DEF Agree
    \* The login is past both places, so the others on the way are one fewer than all.
    <3>7. CASE n \in locked' /\ n \notin locked
      <4>1. guesses[n] < Cardinality(Wrong(n)') + 1 + top
        BY <1>a, <1>n, <3>2, <3>7, OnTheWay DEF Agree
      <4>2. Cardinality(Wrong(n)') + Cardinality(Verifying(n)') < Cardinality(Logins)
        <5>1. x \notin Wrong(n)' \cup Verifying(n)'
          BY <2>1, <2>2, <3>1 DEF Verifying
        <5>2. Wrong(n)' \cap Verifying(n)' = {} /\ Wrong(n)' \in SUBSET Logins
              /\ Verifying(n)' \in SUBSET Logins
          BY DEF Wrong, Verifying
        <5> QED BY <5>1, <5>2, DisjointFewer, AccessAssumption
      <4> QED BY <1>n, <2>1, <2>2, <3>2, <3>5, <3>7, <4>1, <4>2, OnTheWay DEF Agree
    <3>8. CASE n \in locked' /\ n \in locked
      BY <1>a, <2>1, <2>2, <3>5, <3>8 DEF Agree
    <3> QED BY <3>6, <3>7, <3>8
  <2> QED BY <2>3, <2>4
<1>6. ASSUME NEW x \in Logins, Reset(x)
      PROVE  Agree(n, top)'
  <2>1. login[x].pc = "right" /\ login[x].name \in Tried
    BY <1>6, <1>t DEF Reset
  <2>2. CASE login[x].name # n
    <3>1. /\ Wrong(n)' = Wrong(n) /\ Verifying(n)' = Verifying(n)
          /\ guesses'[n] = guesses[n] /\ fails'[n] = fails[n] /\ (n \in locked' <=> n \in locked)
      BY <1>6, <1>t, <2>1, <2>2, NoLoginTypes DEF Reset, Wrong, Verifying
    <3> QED BY <1>a, <3>1, Undisturbed
  <2>3. CASE login[x].name = n
    <3>1. guesses'[n] = 0 /\ n \notin locked'
      BY <1>6, <1>t, <2>3 DEF Reset
    <3> QED BY <3>1, StartsAnew
  <2> QED BY <2>2, <2>3
<1>7. ASSUME NEW m \in Tried, LockEnds(m)
      PROVE  Agree(n, top)'
  <2>1. CASE m = n
    <3>1. guesses'[n] = 0 /\ n \notin locked'
      BY <1>7, <1>t, <2>1 DEF LockEnds
    <3> QED BY <3>1, StartsAnew
  <2>2. CASE m # n
    <3>1. /\ Wrong(n)' = Wrong(n) /\ Verifying(n)' = Verifying(n)
          /\ guesses'[n] = guesses[n] /\ fails'[n] = fails[n] /\ (n \in locked' <=> n \in locked)
      BY <1>7, <1>t, <2>2 DEF LockEnds, Wrong, Verifying
    <3> QED BY <1>a, <3>1, Undisturbed
  <2> QED BY <2>1, <2>2
<1>8. CASE Restart
  <2>1. guesses'[n] = 0 /\ n \notin locked'
    BY <1>8 DEF Restart
  <2> QED BY <2>1, StartsAnew
<1>9. ASSUME NEW r \in Setups,
             SetupStep(r) \/ \E m \in Names, c \in SUBSET Plugins : SetupCheck(r, m, c)
      PROVE  UNCHANGED guardVars
  BY <1>9
  DEF SetupStep, SetupCheck, SetupClaim, CreateUser, InstallBundled, SetupComplete
<1>10. CASE Save \/ (\E v \in Limits : HandleSecurityPut(v)) \/ UNCHANGED vars
  BY <1>1, <1>10 DEF Save, HandleSecurityPut, vars
<1> QED BY <1>1, <1>2, <1>3, <1>4, <1>5, <1>6, <1>7, <1>8, <1>9, <1>10 DEF Next, LoginStep

-----------------------------------------------------------------------------
(* The set-up requests as one job *)

\* Nothing is installed before there is an administrator on the disk.
OnDiskFirst ==
    /\ \A r \in Setups : setup[r].pc = "create" => made = {}
    /\ \A r \in Setups : setup[r].pc = "install" => disk.users # {}

\* Each step writes the users to the disk or leaves it alone; no step takes a user from it.
LEMMA DiskSteps ==
    ASSUME TypeOK, [Next]_vars
    PROVE  \/ UNCHANGED disk
           \/ disk'.users = users' /\ users \subseteq users'
<1> USE DEF Saved, NotSaved, dbVars, setupVars, guardVars
<1>1. ASSUME NEW r \in Setups, SetupStep(r) \/ \E n \in Names, c \in SUBSET Plugins : SetupCheck(r, n, c)
      PROVE  UNCHANGED disk \/ (disk'.users = users' /\ users \subseteq users')
  <2>1. CASE CreateUser(r)
    BY <2>1 DEF CreateUser
  <2>2. ASSUME NEW p \in Plugins, InstallBundled(r, p)
        PROVE  UNCHANGED disk \/ (disk'.users = users' /\ users \subseteq users')
    BY <2>2 DEF InstallBundled
  <2>3. CASE \/ SetupClaim(r) \/ SetupComplete(r)
             \/ \E n \in Names, c \in SUBSET Plugins : SetupCheck(r, n, c)
    BY <2>3 DEF SetupClaim, SetupComplete, SetupCheck
  <2> QED BY <1>1, <2>1, <2>2, <2>3 DEF SetupStep
<1>2. ASSUME NEW x \in Logins, LoginStep(x) PROVE UNCHANGED disk
  BY <1>2 DEF LoginStep, SecurityPolicy, Remaining, VerifyPassword, RecordFail, Reset
<1>3. ASSUME NEW v \in Limits, HandleSecurityPut(v)
      PROVE  UNCHANGED disk \/ (disk'.users = users' /\ users \subseteq users')
  BY <1>3 DEF HandleSecurityPut
<1>4. CASE Save
  BY <1>4 DEF Save
<1>5. CASE Restart \/ (\E n \in Tried : LockEnds(n)) \/ UNCHANGED vars
  BY <1>5 DEF Restart, LockEnds, vars
<1> QED BY <1>1, <1>2, <1>3, <1>4, <1>5 DEF Next

LEMMA StepOnDisk ==
    ASSUME TypeOK, SetupInv, OnDiskFirst, [Next]_vars
    PROVE  OnDiskFirst'
<1>d. disk.users # {} => disk'.users # {}
  <2>1. disk.users \subseteq users
    BY DEF TypeOK
  <2> QED BY <2>1, DiskSteps
<1>t. setup \in [Setups -> Setup]
  BY DEF TypeOK
<1>o. Over.pc = "over"
  BY OverTypes
\* A request that comes to no new place where the administrator matters.
<1>a. ASSUME UNCHANGED made,
             \A q \in Setups : setup'[q].pc \in {"create", "install"} => setup'[q].pc = setup[q].pc
      PROVE  OnDiskFirst'
  BY <1>a, <1>d DEF OnDiskFirst
<1>1. ASSUME NEW r \in Setups, SetupClaim(r) PROVE OnDiskFirst'
  <2>1. CASE running
    BY <1>1, <2>1, <1>a, <1>t, <1>o DEF SetupClaim
  <2>2. CASE ~running
    <3>1. \A q \in Setups : setup[q].pc # "install"
      BY <2>2 DEF SetupInv, OneSetup, InSetup
    <3>2. setup'[r].pc = "create" /\ \A q \in Setups \ {r} : setup'[q] = setup[q]
      BY <1>1, <2>2, <1>t DEF SetupClaim, Setup
    <3>3. made' = {}
      BY <1>1, <2>2 DEF SetupClaim
    <3> QED BY <3>1, <3>2, <3>3 DEF OnDiskFirst
  <2> QED BY <2>1, <2>2
<1>2. ASSUME NEW r \in Setups, CreateUser(r) PROVE OnDiskFirst'
  <2>1. CASE setup' = [setup EXCEPT ![r] = Over]
    BY <1>2, <2>1, <1>a, <1>t, <1>o DEF CreateUser
  <2>2. CASE setup' # [setup EXCEPT ![r] = Over]
    <3>1. setup'[r].pc = "install" /\ \A q \in Setups \ {r} : setup'[q] = setup[q]
      BY <1>2, <2>2, <1>t DEF CreateUser, Fail, Setup
    <3>2. disk'.users = users' /\ users' # {} /\ UNCHANGED made
      BY <1>2, <2>2 DEF CreateUser, Fail, Saved
    <3> QED BY <3>1, <3>2 DEF OnDiskFirst
  <2> QED BY <2>1, <2>2
<1>3. ASSUME NEW r \in Setups, NEW p \in Plugins, InstallBundled(r, p) PROVE OnDiskFirst'
  <2>1. CASE setup' = [setup EXCEPT ![r] = Over] /\ UNCHANGED made
    BY <2>1, <1>a, <1>t, <1>o
  <2>2. CASE ~ (setup' = [setup EXCEPT ![r] = Over] /\ UNCHANGED made)
    <3>1. setup[r].pc = "install" /\ setup' = [setup EXCEPT ![r].left = @ \ {p}]
      BY <1>3, <2>2 DEF InstallBundled, Fail
    <3>2. \A q \in Setups : setup'[q].pc = setup[q].pc
      BY <3>1, <1>t DEF Setup
    <3>3. \A q \in Setups : setup[q].pc # "create"
      BY <3>1 DEF SetupInv, OneSetup, InSetup
    <3> QED BY <1>d, <3>2, <3>3 DEF OnDiskFirst
  <2> QED BY <2>1, <2>2
<1>4. ASSUME NEW r \in Setups, SetupComplete(r) PROVE OnDiskFirst'
  BY <1>4, <1>a, <1>t, <1>o DEF SetupComplete
<1>5. ASSUME NEW r \in Setups, NEW n \in Names, NEW c \in SUBSET Plugins, SetupCheck(r, n, c)
      PROVE  OnDiskFirst'
  <2>1. setup'[r].pc = "checked" /\ \A q \in Setups \ {r} : setup'[q] = setup[q]
    BY <1>5, <1>t DEF SetupCheck
  <2> QED BY <1>5, <2>1, <1>a DEF SetupCheck
<1>6. CASE Restart
  BY <1>6, <1>a, <1>o DEF Restart
<1>7. ASSUME UNCHANGED setupVars PROVE OnDiskFirst'
  BY <1>7, <1>a DEF setupVars
<1>8. ASSUME NEW x \in Logins, LoginStep(x) PROVE UNCHANGED setupVars
  BY <1>8 DEF LoginStep, SecurityPolicy, Remaining, VerifyPassword, RecordFail, Reset
<1>9. CASE \/ Save \/ (\E v \in Limits : HandleSecurityPut(v))
           \/ (\E n \in Tried : LockEnds(n)) \/ UNCHANGED vars
  BY <1>7, <1>9 DEF Save, HandleSecurityPut, LockEnds, vars
<1> QED BY <1>1, <1>2, <1>3, <1>4, <1>5, <1>6, <1>7, <1>8, <1>9 DEF Next, SetupStep

JobNext == Job!Next \/ UNCHANGED <<Progress, chosen, made, Admin>>

\* Requests that do not hold the progress, logins and writes change the administrator at most
\* from one of this panel to one of the disk.
LEMMA OthersKeep ==
    ASSUME TypeOK, UNCHANGED <<users, running, complete, chosen, made>>,
           UNCHANGED disk \/ Saved
    PROVE  JobNext
<1>1. UNCHANGED Progress /\ disk.users \subseteq users
  BY DEF Progress, TypeOK
<1>2. CASE UNCHANGED Admin
  BY <1>1, <1>2 DEF JobNext
<1>3. CASE ~ UNCHANGED Admin
  <2>1. Admin = "memory" /\ Admin' = "disk"
    BY <1>1, <1>3 DEF Admin, Saved
  <2> QED BY <1>1, <2>1 DEF JobNext, Job!Next, Job!Keep
<1> QED BY <1>2, <1>3

\* The steps of the request whose set-up is at work.
LEMMA RequestStep ==
    ASSUME TypeOK, SetupInv, OnDiskFirst, NEW r \in Setups, SetupStep(r)
    PROVE  JobNext
<1>t. disk.users \subseteq users /\ running \in BOOLEAN /\ chosen \in SUBSET Plugins
  BY DEF TypeOK
<1>1. CASE SetupClaim(r)
  <2>0. setup[r].left \in SUBSET Plugins
    BY DEF TypeOK, Setup
  <2>1. CASE running
    BY <1>1, <2>1, OthersKeep DEF SetupClaim, dbVars
  <2>2. CASE ~running
    <3>1. UNCHANGED Admin /\ Progress # "running" /\ Progress' = "running"
      BY <1>1, <2>2 DEF SetupClaim, Admin, Progress, dbVars
    <3>2. chosen' = setup[r].left /\ made' = {}
      BY <1>1, <2>2 DEF SetupClaim
    <3> QED BY <2>0, <3>1, <3>2 DEF JobNext, Job!Next, Job!Begin
  <2> QED BY <2>1, <2>2
<1>2. CASE CreateUser(r)
  <2>1. running /\ ~complete /\ made = {} /\ UNCHANGED <<complete, chosen, made>>
    BY <1>2 DEF CreateUser, SetupInv, OneSetup, InSetup, ProgressIsTrue, OnDiskFirst
  <2>2. CASE Saved /\ UNCHANGED running
    <3>1. users' # {}
      BY <1>2, <2>1, <2>2 DEF CreateUser, Fail
    <3>2. Progress = "running" /\ Progress' = "running" /\ Admin' = "disk"
      BY <2>1, <2>2, <3>1 DEF Progress, Admin, Saved
    <3> QED BY <2>1, <3>2 DEF JobNext, Job!Next, Job!MakeAdmin
  <2>3. CASE ~ (Saved /\ UNCHANGED running)
    <3>1. running' = FALSE /\ UNCHANGED disk /\ users \subseteq users'
      BY <1>2, <2>3 DEF CreateUser, Fail, NotSaved, dbVars
    <3>2. Progress = "running" /\ Progress' = "idle"
      BY <2>1, <3>1 DEF Progress
    <3>3. UNCHANGED Admin \/ (Admin = "none" /\ Admin' = "memory")
      BY <3>1, <1>t DEF Admin
    <3> QED BY <2>1, <3>2, <3>3 DEF JobNext, Job!Next, Job!GiveUp
  <2> QED BY <2>2, <2>3
<1>3. ASSUME NEW p \in Plugins, InstallBundled(r, p) PROVE JobNext
  <2>1. /\ running /\ ~complete /\ disk.users # {} /\ p \in chosen \ made
        /\ UNCHANGED <<users, complete, chosen>>
    BY <1>3 DEF InstallBundled, SetupInv, OneSetup, InSetup, ProgressIsTrue, OnDiskFirst
  <2>2. CASE Saved /\ made' = made \cup {p} /\ UNCHANGED running
    <3>1. Progress = "running" /\ Progress' = "running" /\ Admin = "disk" /\ Admin' = "disk"
      BY <1>t, <2>1, <2>2 DEF Progress, Admin, Saved
    <3> QED BY <2>1, <2>2, <3>1 DEF JobNext, Job!Next, Job!Install
  <2>3. CASE UNCHANGED disk /\ Fail(r) /\ UNCHANGED made
    <3>1. Progress = "running" /\ Progress' = "idle" /\ UNCHANGED Admin
      BY <2>1, <2>3 DEF Progress, Admin, Fail
    <3> QED BY <2>1, <2>3, <3>1 DEF JobNext, Job!Next, Job!GiveUp
  <2> QED BY <1>3, <2>2, <2>3 DEF InstallBundled, NotSaved
<1>4. CASE SetupComplete(r)
  <2>1. running /\ ~complete /\ disk.users # {} /\ made \subseteq chosen /\ chosen \ made = {}
    BY <1>4 DEF SetupComplete, SetupInv, OneSetup, InSetup, ProgressIsTrue, InstallsInOrder,
                OnDiskFirst
  <2>2. ~running' /\ complete' /\ UNCHANGED <<users, disk, chosen, made>>
    BY <1>4 DEF SetupComplete, dbVars
  <2>3. /\ Progress = "running" /\ Progress' = "complete" /\ Admin = "disk" /\ UNCHANGED Admin
        /\ made = chosen
    BY <2>1, <2>2 DEF Progress, Admin
  <2> QED BY <2>2, <2>3 DEF JobNext, Job!Next, Job!Finish
<1> QED BY <1>1, <1>2, <1>3, <1>4 DEF SetupStep

LEMMA JobStep ==
    ASSUME TypeOK, SetupInv, OnDiskFirst, [Next]_vars
    PROVE  JobNext
<1>1. ASSUME NEW r \in Setups, SetupStep(r) PROVE JobNext
  BY <1>1, RequestStep
<1>2. ASSUME NEW r \in Setups, NEW n \in Names, NEW c \in SUBSET Plugins, SetupCheck(r, n, c)
      PROVE  JobNext
  BY <1>2, OthersKeep DEF SetupCheck, dbVars
<1>3. ASSUME NEW x \in Logins, LoginStep(x) PROVE JobNext
  <2>1. UNCHANGED <<dbVars, setupVars>>
    BY <1>3 DEF LoginStep, SecurityPolicy, Remaining, VerifyPassword, RecordFail, Reset
  <2> QED BY <2>1, OthersKeep DEF dbVars, setupVars
<1>4. CASE Save \/ (\E v \in Limits : HandleSecurityPut(v))
           \/ (\E n \in Tried : LockEnds(n)) \/ UNCHANGED vars
  BY <1>4, OthersKeep DEF Save, HandleSecurityPut, LockEnds, NotSaved, vars, dbVars, setupVars
<1>5. CASE Restart
  <2>1. users' = disk.users /\ UNCHANGED disk /\ ~running' /\ ~complete'
        /\ UNCHANGED <<chosen, made>>
    BY <1>5 DEF Restart
  <2>2. Progress' = "idle" /\ Admin' = IF Admin = "memory" THEN "none" ELSE Admin
    BY <2>1 DEF Progress, Admin
  <2> QED BY <2>1, <2>2 DEF JobNext, Job!Next, Job!Restart
<1> QED BY <1>1, <1>2, <1>3, <1>4, <1>5 DEF Next

-----------------------------------------------------------------------------
(* The theorems *)

LEMMA InitInv == Init => IInv
BY InitTypeOK, InitSetup, InitCounts DEF IInv, SetupInv

LEMMA StepInv == IInv /\ [Next]_vars => IInv'
<1> SUFFICES ASSUME IInv, [Next]_vars PROVE IInv'
  OBVIOUS
<1>1. TypeOK'
  BY StepTypeOK DEF IInv
<1>2. SetupInv'
  BY StepSetup DEF IInv, SetupInv
<1>3. CountsAgree'
  BY <1>1, StepCounts DEF IInv
<1> QED BY <1>1, <1>2, <1>3 DEF IInv, SetupInv

\* The inductive invariant of the open doors (handleSetupStart, runSetup, loginGuard): a set-up
\* installs what was asked for, in order; every guess is counted or about to be, and those that
\* may follow a lock were past it before.
THEOREM AccessInvariance == Spec => []IInv
BY InitInv, StepInv, PTL DEF Spec

\* Whatever set-ups, logins, failed writes and restarts do to each other, users, progress, counts
\* and locks keep their types, and the disk holds no user that the memory does not.
THEOREM AccessTypeCorrect == Spec => []TypeOK
<1>1. IInv => TypeOK
  BY DEF IInv
<1> QED BY <1>1, AccessInvariance, PTL

\* setupProgress belongs to one running set-up at a time, for any number of requests, also those
\* that passed the test for an administrator long before.
THEOREM OneSetupCorrect == Spec => []OneSetup
<1>1. IInv => OneSetup
  BY DEF IInv
<1> QED BY <1>1, AccessInvariance, PTL

\* The progress page reports complete only of a set-up that made its administrator and installed
\* every plugin asked for.
THEOREM ProgressCorrect == Spec => []ProgressIsTrue
<1>1. IInv => ProgressIsTrue
  BY DEF IInv
<1> QED BY <1>1, AccessInvariance, PTL

\* The bound of the lock-out, for any number of logins, any limits and any change of them: it
\* exceeds the highest limit by no more than the other logins that run at the same time.
THEOREM GuessesCorrect == Spec => []GuessBound
<1>1. ASSUME IInv PROVE GuessBound
  <2> SUFFICES ASSUME NEW n \in Tried, NEW top \in Limits, Highest(top)
               PROVE  guesses[n] < top + Cardinality(Logins)
    BY DEF GuessBound, Highest
  <2>1. Agree(n, top) /\ guesses[n] \in Nat /\ top \in Nat
    BY <1>1, NumbersAre, LimitsAre DEF IInv, CountsAgree, Agree
  <2> QED BY <2>1, OnTheWay DEF Agree
<1> QED BY <1>1, AccessInvariance, PTL
\* The requests implement the abstract job (handleSetupStart, runSetup, DB.save): what is reported
\* complete has installed every wanted plugin and has its administrator on the disk, whichever
\* writes failed and whenever the panel ended.
THEOREM SetupJobCorrect == Spec => SetupJobSpec
<1>1. Init => OnDiskFirst /\ Job!Init
  BY DEF Init, NoSetup, OnDiskFirst, Job!Init, Progress, Admin
<1>2. IInv /\ OnDiskFirst /\ [Next]_vars => OnDiskFirst'
  BY StepOnDisk DEF IInv, SetupInv
<1>3. ASSUME IInv, OnDiskFirst, [Next]_vars
      PROVE  Job!Next \/ UNCHANGED <<Progress, chosen, made, Admin>>
  BY <1>3, JobStep DEF IInv, SetupInv, JobNext
<1> QED BY <1>1, <1>2, <1>3, AccessInvariance, PTL DEF Spec, SetupJobSpec, Job!Spec
=============================================================================
