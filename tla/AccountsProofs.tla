--------------------------- MODULE AccountsProofs ---------------------------
(***************************************************************************)
(* For any requests, addresses and items: one account per address, one     *)
(* workspace per account, true replies, and items that only their creator  *)
(* is shown.                                                               *)
(***************************************************************************)
EXTENDS Accounts, TLAPS

\* Users and workspaces are committed together and under one id.
PairedRows == owned = { <<u, u>> : u \in users }

\* What a request has committed, and what its client was told.
StagesTell ==
    \A q \in Request :
        /\ stage[q] \in {"new", "checked", "inserted"} => q \notin users
        /\ stage[q] = "committed" => q \in users

\* An uncommitted row is the only one with its address.
InsertedAlone ==
    \A q \in Request :
        stage[q] = "inserted" => /\ ~Registered(q)
                                 /\ \A r \in Request \ {q} :
                                       stage[r] = "inserted" => Address[r] # Address[q]

\* An item lives in the workspace of its creator.
ItemsAtHome ==
    \A i \in Item : home[i] # Nobody => home[i] = creator[i]

AccountsInv ==
    /\ AccountsTypeOK
    /\ PairedRows
    /\ StagesTell
    /\ InsertedAlone
    /\ OneAccountPerEmail
    /\ RepliesAreTrue
    /\ tokens \subseteq users
    /\ ItemsAtHome
    /\ TenantsApart
    /\ \A ui \in touched : creator[ui[2]] # Nobody

\* Rows in pairs give every user exactly one workspace, the user's own.
LEMMA OwnWorkspace ==
    ASSUME AccountsTypeOK, PairedRows, NEW u \in users
    PROVE  Resolves(u) /\ CurrentWorkspace(u) = u /\ u \in Request
<1>1. u \in Request
  BY DEF AccountsTypeOK
<1>2. Workspaces(u) = {u}
  BY <1>1 DEF Workspaces, PairedRows
<1>3. \A w \in Request : Workspaces(u) = {w} => w = u
  BY <1>2
<1>4. Resolves(u)
  BY <1>1, <1>2 DEF Resolves
<1> QED
  BY <1>1, <1>2, <1>3, <1>4 DEF CurrentWorkspace

LEMMA AccountsInitially == AccountsInit => AccountsInv
<1> SUFFICES ASSUME AccountsInit PROVE AccountsInv
  OBVIOUS
<1> USE AccountsAssumption DEF AccountsInit
<1>1. AccountsTypeOK
  BY DEF AccountsTypeOK, Stage, Reply
<1>2. PairedRows
  BY DEF PairedRows
<1>3. StagesTell /\ InsertedAlone /\ OneAccountPerEmail /\ RepliesAreTrue
  BY DEF StagesTell, InsertedAlone, OneAccountPerEmail, RepliesAreTrue
<1>4. ItemsAtHome /\ TenantsApart
  BY DEF ItemsAtHome, TenantsApart
<1> QED
  BY <1>1, <1>2, <1>3, <1>4 DEF AccountsInv

\* A step of a registration that commits nothing.
LEMMA Uncommitted ==
    ASSUME AccountsInv, NEW q \in Request,
           Check(q) \/ InsertUser(q) \/ Collide(q) \/ Answer(q) \/ Abort(q)
    PROVE  AccountsInv'
<1> USE AccountsAssumption
<1>u. UNCHANGED <<accounts, tokens, items>>
  BY DEF Check, InsertUser, Collide, Answer, Abort
<1>u1. UNCHANGED <<users, owned, tokens, home, creator, touched>>
  BY <1>u DEF accounts, items
<1>s. PICK s \in Stage, a \in Reply :
          /\ stage' = [stage EXCEPT ![q] = s]
          /\ reply' = [reply EXCEPT ![q] = a]
          /\ s = "inserted" => stage[q] = "checked" /\ ~Blocked(q) /\ ~Registered(q)
          /\ s # "done" => a = reply[q]
          /\ s \in {"checked", "inserted"} => stage[q] \in {"new", "checked"}
          /\ s \notin {"new", "committed"}
          /\ a = "created" => q \in users \/ a = reply[q]
          /\ a \in {"taken", "error"} => Registered(q) \/ a = reply[q]
  <2>t. stage \in [Request -> Stage] /\ reply \in [Request -> Reply]
    BY DEF AccountsInv, AccountsTypeOK
  <2>c. stage[q] = "committed" => q \in users
    BY DEF AccountsInv, StagesTell
  <2>1. CASE Check(q)
    <3>1. CASE \E u \in users : Address[u] = Address[q]
      BY <2>1, <2>t, <3>1 DEF Check, End, Registered, Stage, Reply
    <3>2. CASE ~\E u \in users : Address[u] = Address[q]
      <4>1. reply' = [reply EXCEPT ![q] = reply[q]]
        BY <2>1, <2>t, <3>2 DEF Check, Continue
      <4> QED
        BY <2>1, <2>t, <3>2, <4>1 DEF Check, Continue, Stage
    <3> QED
      BY <3>1, <3>2
  <2>2. CASE InsertUser(q)
    <3>1. reply' = [reply EXCEPT ![q] = reply[q]]
      BY <2>2, <2>t DEF InsertUser, Continue
    <3> QED
      BY <2>2, <2>t, <3>1 DEF InsertUser, Continue, Stage
  <2>3. CASE Collide(q)
    BY <2>3, <2>t DEF Collide, End, Stage, Reply
  <2>4. CASE Answer(q)
    BY <2>4, <2>t, <2>c DEF Answer, End, Stage, Reply
  <2>5. CASE Abort(q)
    BY <2>5, <2>t DEF Abort, End, Stage, Reply
  <2> QED
    BY <2>1, <2>2, <2>3, <2>4, <2>5
<1>1. AccountsTypeOK'
  BY <1>u1, <1>s DEF AccountsInv, AccountsTypeOK
<1>2. PairedRows' /\ OneAccountPerEmail' /\ (tokens \subseteq users)' /\ ItemsAtHome'
      /\ TenantsApart' /\ (\A ui \in touched : creator[ui[2]] # Nobody)'
  BY <1>u1 DEF AccountsInv, PairedRows, OneAccountPerEmail, ItemsAtHome, TenantsApart
<1>3. StagesTell'
  BY <1>u1, <1>s DEF AccountsInv, AccountsTypeOK, StagesTell
<1>4. InsertedAlone'
  BY <1>u1, <1>s DEF AccountsInv, AccountsTypeOK, InsertedAlone, Registered, Blocked
<1>5. RepliesAreTrue'
  BY <1>u1, <1>s DEF AccountsInv, AccountsTypeOK, RepliesAreTrue, Registered
<1> QED
  BY <1>1, <1>2, <1>3, <1>4, <1>5 DEF AccountsInv

\* The commit: the constraint was checked when the row was inserted, and no
\* other row with this address can have come since.
LEMMA Committed ==
    ASSUME AccountsInv, NEW q \in Request, Commit(q)
    PROVE  AccountsInv'
<1> USE AccountsAssumption
<1>t. /\ stage \in [Request -> Stage] /\ reply \in [Request -> Reply]
      /\ users \subseteq Request /\ "committed" \in Stage
  BY DEF AccountsInv, AccountsTypeOK, Stage
<1>u. /\ stage[q] = "inserted"
      /\ stage' = [stage EXCEPT ![q] = "committed"]
      /\ users' = users \cup {q} /\ owned' = owned \cup {<<q, q>>}
      /\ UNCHANGED <<reply, tokens, home, creator, touched>>
  BY DEF Commit, Continue, items
<1>f. ~Registered(q)
  BY <1>u DEF AccountsInv, InsertedAlone
<1>1. AccountsTypeOK'
  BY <1>t, <1>u DEF AccountsInv, AccountsTypeOK
<1>2. PairedRows'
  BY <1>u DEF AccountsInv, PairedRows
<1>3. StagesTell'
  BY <1>t, <1>u DEF AccountsInv, StagesTell
<1>4. InsertedAlone'
  <2> SUFFICES ASSUME NEW r \in Request, stage'[r] = "inserted"
               PROVE  /\ ~Registered(r)'
                      /\ \A p \in Request \ {r} :
                            stage'[p] = "inserted" => Address[p] # Address[r]
    BY DEF InsertedAlone
  <2>1. r # q /\ stage[r] = "inserted"
    BY <1>t, <1>u
  <2>2. /\ ~Registered(r)
        /\ \A p \in Request \ {r} : stage[p] = "inserted" => Address[p] # Address[r]
    BY <2>1 DEF AccountsInv, InsertedAlone
  <2>3. Address[q] # Address[r]
    BY <1>u, <2>1, <2>2
  <2>4. ~Registered(r)'
    BY <1>u, <2>2, <2>3 DEF Registered
  <2>5. \A p \in Request : stage'[p] = "inserted" => stage[p] = "inserted"
    BY <1>t, <1>u
  <2> QED
    BY <2>2, <2>4, <2>5
<1>5. OneAccountPerEmail'
  <2> SUFFICES ASSUME NEW u \in users', NEW v \in users', Address[u] = Address[v]
               PROVE  u = v
    BY DEF OneAccountPerEmail
  <2> QED
    BY <1>u, <1>f DEF AccountsInv, OneAccountPerEmail, Registered
<1>6. RepliesAreTrue' /\ (tokens \subseteq users)'
  BY <1>u DEF AccountsInv, RepliesAreTrue
<1>7. ItemsAtHome' /\ TenantsApart' /\ (\A ui \in touched : creator[ui[2]] # Nobody)'
  BY <1>u DEF AccountsInv, ItemsAtHome, TenantsApart
<1> QED
  BY <1>1, <1>2, <1>3, <1>4, <1>5, <1>6, <1>7 DEF AccountsInv

\* What does not concern registrations.
LEMMA RegistrationsAside ==
    ASSUME AccountsInv, UNCHANGED <<stage, reply, accounts>>
    PROVE  /\ PairedRows' /\ StagesTell' /\ InsertedAlone'
           /\ OneAccountPerEmail' /\ RepliesAreTrue'
BY DEF AccountsInv, accounts, PairedRows, StagesTell, InsertedAlone, Registered,
       OneAccountPerEmail, RepliesAreTrue

LEMMA TokensComeAndGo ==
    ASSUME AccountsInv, NEW u \in Request, Login(u) \/ Expire(u)
    PROVE  AccountsInv'
<1>1. /\ UNCHANGED <<stage, reply, accounts, items>>
      /\ tokens' \subseteq tokens \cup users
  BY DEF Login, Expire
<1>2. UNCHANGED <<users, owned, home, creator, touched>>
  BY <1>1 DEF accounts, items
<1>3. AccountsTypeOK' /\ (tokens \subseteq users)'
  BY <1>1, <1>2 DEF AccountsInv, AccountsTypeOK
<1>4. /\ PairedRows' /\ StagesTell' /\ InsertedAlone'
      /\ OneAccountPerEmail' /\ RepliesAreTrue'
  BY <1>1, RegistrationsAside
<1>5. ItemsAtHome' /\ TenantsApart' /\ (\A ui \in touched : creator[ui[2]] # Nobody)'
  BY <1>2 DEF AccountsInv, ItemsAtHome, TenantsApart
<1> QED
  BY <1>3, <1>4, <1>5 DEF AccountsInv

\* A user acts in the user's own workspace, where only the user's items are.
LEMMA UserActs ==
    ASSUME AccountsInv, NEW u \in Request, NEW i \in Item,
           Create(u, i) \/ Show(u, i) \/ Remove(u, i)
    PROVE  AccountsInv'
<1> USE AccountsAssumption
<1>a. u \in users /\ u \in tokens
  BY DEF AccountsInv, Create, Show, Remove
<1>o. CurrentWorkspace(u) = u
  BY <1>a, OwnWorkspace DEF AccountsInv
<1>t. /\ home \in [Item -> Request \cup {Nobody}]
      /\ creator \in [Item -> Request \cup {Nobody}]
      /\ touched \subseteq Request \X Item
  BY DEF AccountsInv, AccountsTypeOK
<1>u. UNCHANGED <<stage, reply, accounts, tokens>>
  BY DEF Create, Show, Remove
<1>1. /\ PairedRows' /\ StagesTell' /\ InsertedAlone'
      /\ OneAccountPerEmail' /\ RepliesAreTrue'
  BY <1>u, RegistrationsAside
<1>2. (tokens \subseteq users)'
  BY <1>u DEF AccountsInv, accounts
<1>k. /\ \A j \in Item : home[j] # Nobody => home[j] = creator[j]
      /\ \A ui \in touched : creator[ui[2]] = ui[1] /\ creator[ui[2]] # Nobody
  BY DEF AccountsInv, ItemsAtHome, TenantsApart
<1>3. CASE Create(u, i)
  <2>1. /\ home' = [home EXCEPT ![i] = u] /\ creator' = [creator EXCEPT ![i] = u]
        /\ creator[i] = Nobody /\ touched' = touched
    BY <1>3, <1>o DEF Create
  <2>2. \A ui \in touched : ui[2] \in Item /\ ui[2] # i
    BY <1>t, <1>k, <2>1
  <2>3. AccountsTypeOK'
    BY <1>t, <1>u, <2>1 DEF AccountsInv, AccountsTypeOK, accounts
  <2>4. ItemsAtHome'
    BY <1>t, <1>k, <2>1 DEF ItemsAtHome
  <2>5. TenantsApart' /\ (\A ui \in touched : creator[ui[2]] # Nobody)'
    BY <1>t, <1>k, <2>1, <2>2 DEF TenantsApart
  <2> QED
    BY <1>1, <1>2, <2>3, <2>4, <2>5 DEF AccountsInv
<1>4. CASE Show(u, i) \/ Remove(u, i)
  <2>1. /\ home[i] = u /\ touched' = touched \cup {<<u, i>>} /\ creator' = creator
        /\ home' = home \/ home' = [home EXCEPT ![i] = Nobody]
    BY <1>4, <1>o DEF Show, Remove, Found
  <2>2. creator[i] = u /\ creator[i] # Nobody
    BY <1>k, <2>1
  <2>3. AccountsTypeOK'
    BY <1>t, <1>u, <2>1 DEF AccountsInv, AccountsTypeOK, accounts
  <2>4. ItemsAtHome'
    BY <1>t, <1>k, <2>1 DEF ItemsAtHome
  <2>5. TenantsApart' /\ (\A ui \in touched : creator[ui[2]] # Nobody)'
    BY <1>k, <2>1, <2>2 DEF TenantsApart
  <2> QED
    BY <1>1, <1>2, <2>3, <2>4, <2>5 DEF AccountsInv
<1> QED
  BY <1>3, <1>4

LEMMA AccountsStep == AccountsInv /\ [AccountsNext]_accountVars => AccountsInv'
<1> SUFFICES ASSUME AccountsInv, [AccountsNext]_accountVars PROVE AccountsInv'
  OBVIOUS
<1>1. ASSUME NEW q \in Request, Check(q) \/ Registration(q) \/ Abort(q)
      PROVE  AccountsInv'
  BY <1>1, Uncommitted, Committed DEF Registration
<1>2. ASSUME NEW u \in Request, Login(u) \/ Expire(u)
      PROVE  AccountsInv'
  BY <1>2, TokensComeAndGo
<1>3. ASSUME NEW u \in Request, NEW i \in Item, Create(u, i) \/ Show(u, i) \/ Remove(u, i)
      PROVE  AccountsInv'
  BY <1>3, UserActs
<1>4. CASE UNCHANGED accountVars
  <2>1. UNCHANGED <<stage, reply, accounts>> /\ UNCHANGED <<users, owned, tokens, home, creator, touched>>
    BY <1>4 DEF accountVars, accounts, items
  <2>2. /\ PairedRows' /\ StagesTell' /\ InsertedAlone'
        /\ OneAccountPerEmail' /\ RepliesAreTrue'
    BY <2>1, RegistrationsAside
  <2> QED
    BY <2>1, <2>2 DEF AccountsInv, AccountsTypeOK, ItemsAtHome, TenantsApart
<1> QED
  BY <1>1, <1>2, <1>3, <1>4 DEF AccountsNext

LEMMA AccountsInvariant == AccountsSpec => []AccountsInv
BY AccountsInitially, AccountsStep, PTL DEF AccountsSpec

----------------------------------------------------------------------------

\* The variables keep their types: an item's workspace is one workspace
\* (dependencies.py:65-71).
THEOREM AccountsTypeCorrect == AccountsSpec => []AccountsTypeOK
<1>1. AccountsInv => AccountsTypeOK
  BY DEF AccountsInv
<1> QED
  BY <1>1, AccountsInvariant, PTL

\* However registrations race for an address, one account gets it
\* (auth.py:34-43, models.py:25).
THEOREM AddressesAreUnique == AccountsSpec => []OneAccountPerEmail
<1>1. AccountsInv => OneAccountPerEmail
  BY DEF AccountsInv
<1> QED
  BY <1>1, AccountsInvariant, PTL

\* Whichever requests die, every account has exactly one workspace, so
\* get_current_workspace always resolves (dependencies.py:65-71).
THEOREM EveryAccountResolves == AccountsSpec => []AccountsResolve
<1>1. AccountsInv => AccountsResolve
  BY OwnWorkspace DEF AccountsInv, AccountsResolve
<1> QED
  BY <1>1, AccountsInvariant, PTL

\* What a client is told of its registration is so (auth.py:34-51).
THEOREM RepliesHold == AccountsSpec => []RepliesAreTrue
<1>1. AccountsInv => RepliesAreTrue
  BY DEF AccountsInv
<1> QED
  BY <1>1, AccountsInvariant, PTL

\* No user is shown, or deletes, what another has created
\* (dependencies.py:7-8, jobs.py:5-6).
THEOREM TenantsStayApart == AccountsSpec => []TenantsApart
<1>1. AccountsInv => TenantsApart
  BY DEF AccountsInv
<1> QED
  BY <1>1, AccountsInvariant, PTL
=============================================================================
