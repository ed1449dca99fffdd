------------------------------ MODULE Accounts ------------------------------
(***************************************************************************)
(* Accounts and what they own: POST /auth/register and POST /auth/token    *)
(* (api/routers/auth.py), the resolution of a token to a user and of the   *)
(* user to a workspace (api/auth/dependencies.py), and the jobs and        *)
(* documents that the other routers create, show and delete under that     *)
(* workspace.                                                              *)
(*                                                                         *)
(* A registration is one transaction: a SELECT of the address, the INSERT  *)
(* of the user (flush), then the INSERT of the workspace and the COMMIT.   *)
(* Nothing locks the address between the first two, so two requests may    *)
(* both find it free; the unique constraint on users.email decides.        *)
(*                                                                         *)
(* The ids are uuid4: request q creates user q and workspace q.            *)
(***************************************************************************)

CONSTANTS
    Request,     \* registration requests
    Email,
    Address,     \* the email of each request
    Item,        \* jobs and documents
    Nobody       \* in place of a user or a workspace where there is none

ASSUME AccountsAssumption ==
    /\ Address \in [Request -> Email]
    /\ Nobody \notin Request

VARIABLES
    stage,       \* what a registration does next
    reply,       \* what its client was told
    users,       \* rows of users that are committed
    owned,       \* rows of workspaces that are committed: <<workspace, owner>>
    tokens,      \* users with a valid token
    home,        \* workspace_id of each item, Nobody when it has no row
    creator,     \* the user who created an item
    touched      \* <<user, item>>: the item was shown to or deleted for the user

accounts == <<users, owned>>
items    == <<home, creator, touched>>
accountVars == <<stage, reply, accounts, tokens, items>>

Stage == {"new", "checked", "inserted", "committed", "done"}
Reply == {"none", "created", "taken", "error", "lost"}

AccountsTypeOK ==
    /\ stage \in [Request -> Stage]
    /\ reply \in [Request -> Reply]
    /\ users \subseteq Request
    /\ owned \subseteq Request \X Request
    /\ tokens \subseteq Request
    /\ home \in [Item -> Request \cup {Nobody}]
    /\ creator \in [Item -> Request \cup {Nobody}]
    /\ touched \subseteq Request \X Item

AccountsInit ==
    /\ stage = [q \in Request |-> "new"]
    /\ reply = [q \in Request |-> "none"]
    /\ users = {}
    /\ owned = {}
    /\ tokens = {}
    /\ home = [i \in Item |-> Nobody]
    /\ creator = [i \in Item |-> Nobody]
    /\ touched = {}

----------------------------------------------------------------------------
(* POST /auth/register *)

\* A committed user has the address of q.  First, a table without the unique
\* constraint.
RegisteredUnchecked(q) == FALSE
Registered(q) == \E u \in users : Address[u] = Address[q]

\* Another transaction holds a row with the address of q, which makes the
\* INSERT of q wait for its end.  First, a connection that goes back to the
\* pool with its transaction open.
BlockedForever(q) ==
    \E r \in Request \ {q} : /\ Address[r] = Address[q]
                             /\ stage[r] \notin {"new", "checked"}
Blocked(q) ==
    \E r \in Request \ {q} : Address[r] = Address[q] /\ stage[r] = "inserted"

End(q, answer) ==
    /\ stage' = [stage EXCEPT ![q] = "done"]
    /\ reply' = [reply EXCEPT ![q] = answer]

Continue(q, s) == stage' = [stage EXCEPT ![q] = s] /\ UNCHANGED reply

\* The SELECT: 400 when the address is in use.
Check(q) ==
    /\ stage[q] = "new"
    /\ IF \E u \in users : Address[u] = Address[q]
       THEN End(q, "taken") ELSE Continue(q, "checked")
    /\ UNCHANGED <<accounts, tokens, items>>

\* The flush of the user, which no other transaction sees yet.  First, a
\* version that commits the user at once.
InsertUserCommitted(q) ==
    /\ stage[q] = "checked" /\ ~Blocked(q) /\ ~Registered(q)
    /\ Continue(q, "inserted")
    /\ users' = users \cup {q}
    /\ UNCHANGED <<owned, tokens, items>>

InsertUser(q) ==
    /\ stage[q] = "checked" /\ ~Blocked(q) /\ ~Registered(q)
    /\ Continue(q, "inserted")
    /\ UNCHANGED <<accounts, tokens, items>>

\* The unique constraint refuses the row: nobody catches the error, 500.
Collide(q) ==
    /\ stage[q] = "checked" /\ ~Blocked(q) /\ Registered(q)
    /\ End(q, "error")
    /\ UNCHANGED <<accounts, tokens, items>>

\* The workspace and the commit of both rows, forgotten and as it is.
CommitForgotten(q) ==
    /\ stage[q] = "inserted"
    /\ Continue(q, "committed")
    /\ UNCHANGED <<accounts, tokens, items>>

Commit(q) ==
    /\ stage[q] = "inserted"
    /\ users' = users \cup {q}
    /\ owned' = owned \cup {<<q, q>>}
    /\ Continue(q, "committed")
    /\ UNCHANGED <<tokens, items>>

\* refresh, 201.
Answer(q) ==
    /\ stage[q] = "committed"
    /\ End(q, "created")
    /\ UNCHANGED <<accounts, tokens, items>>

\* The API process or its connection dies: what is not committed is rolled
\* back, and the client is told nothing.
Abort(q) ==
    /\ stage[q] \in {"checked", "inserted", "committed"}
    /\ End(q, "lost")
    /\ UNCHANGED <<accounts, tokens, items>>

----------------------------------------------------------------------------
(* Tokens and workspaces *)

\* POST /auth/token, with the right password.
Login(u) ==
    /\ u \in users
    /\ tokens' = tokens \cup {u}
    /\ UNCHANGED <<stage, reply, accounts, items>>

Expire(u) ==
    /\ u \in tokens
    /\ tokens' = tokens \ {u}
    /\ UNCHANGED <<stage, reply, accounts, items>>

Workspaces(u) == { w \in Request : <<w, u>> \in owned }

\* get_current_workspace: scalar_one_or_none gives 404 without a row and raises
\* with two.  First, all rows in place of the one.
Resolves(u) == \E w \in Request : Workspaces(u) = {w}
CurrentWorkspaces(u) == Workspaces(u)
CurrentWorkspace(u) == CHOOSE w \in Request : Workspaces(u) = {w}

\* The WHERE clause of the handlers, without its condition on the workspace and
\* with it.
FoundAnywhere(u, i) == home[i] # Nobody
Found(u, i) == home[i] = CurrentWorkspace(u)

\* create_job, ingest_document, upload_document.
Create(u, i) ==
    /\ u \in tokens /\ Resolves(u)
    /\ creator[i] = Nobody
    /\ home' = [home EXCEPT ![i] = CurrentWorkspace(u)]
    /\ creator' = [creator EXCEPT ![i] = u]
    /\ UNCHANGED <<stage, reply, accounts, tokens, touched>>

\* get_job, list_jobs, get_task, list_documents.
Show(u, i) ==
    /\ u \in tokens /\ Resolves(u) /\ Found(u, i)
    /\ touched' = touched \cup {<<u, i>>}
    /\ UNCHANGED <<stage, reply, accounts, tokens, home, creator>>

\* delete_job, delete_document; cancel_job finds its row in the same way.
Remove(u, i) ==
    /\ u \in tokens /\ Resolves(u) /\ Found(u, i)
    /\ home' = [home EXCEPT ![i] = Nobody]
    /\ touched' = touched \cup {<<u, i>>}
    /\ UNCHANGED <<stage, reply, accounts, tokens, creator>>

----------------------------------------------------------------------------

Registration(q) == InsertUser(q) \/ Collide(q) \/ Commit(q) \/ Answer(q)

AccountsNext ==
    \/ \E q \in Request : Check(q) \/ Registration(q) \/ Abort(q)
    \/ \E u \in Request : Login(u) \/ Expire(u)
    \/ \E u \in Request, i \in Item : Create(u, i) \/ Show(u, i) \/ Remove(u, i)

AccountsSpec == AccountsInit /\ [][AccountsNext]_accountVars

\* A request that has begun goes on as long as its process lives, and the
\* database wakes those that wait for a transaction when it ends.
FairAccountsSpec ==
    /\ AccountsSpec
    /\ \A q \in Request : WF_accountVars(Registration(q))

----------------------------------------------------------------------------

\* No two accounts have one address, although the check and the INSERT of
\* register are two statements (auth.py:34-43): login looks an account up by
\* its address and raises if there are two.
OneAccountPerEmail == \A u, v \in users : Address[u] = Address[v] => u = v

\* Every account has exactly one workspace, whichever requests die half-way:
\* get_current_workspace never answers 404 or 500 (dependencies.py:65-70).
AccountsResolve == \A u \in users : Resolves(u)

\* A client that is told "created" has its own account, and one that is told
\* "taken", or gets the error of the constraint, can log in to the account
\* that holds the address (auth.py:34-51).
RepliesAreTrue ==
    \A q \in Request :
        /\ reply[q] = "created" => q \in users
        /\ reply[q] \in {"taken", "error"} => \E u \in users : Address[u] = Address[q]

\* Only the user who created a job or a document is shown it or deletes it,
\* through token, user, workspace and query (dependencies.py:7-8).
TenantsApart == \A ui \in touched : creator[ui[2]] = ui[1]

\* A registration that waits for another one does not wait for ever.
RegistrationEnds == \A q \in Request : stage[q] = "checked" ~> stage[q] = "done"
=============================================================================
