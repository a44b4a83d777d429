------------------------------- MODULE Users -------------------------------
(***************************************************************************)
(* Accounts and sessions: log in, and the requests by which administrators *)
(* change and delete accounts and people change their own password.        *)
(* Between two statements of a request the others go on.                   *)
(* Source: core/auth/auth.go, core/auth/users.go,                          *)
(* core/gateway/users_handler.go, core/gateway/auth_handler.go.            *)
(***************************************************************************)
EXTENDS Naturals, FiniteSets

CONSTANTS
  UserIds,    \* ids of accounts; the table never gives one twice
  Visits,     \* people at the API: one session, and one request at a time
  Passwords,
  MaxChanges  \* bound: requests in a behaviour

VARIABLES
  account,    \* account[u]: the row of system_users, or not there
  session,    \* session[v]: the identity behind the token of v
  visit,      \* visit[v]: the request of v, and how far it is
  changes,    \* requests so far
  crossed     \* two removals of administrators crossed

usersVars == <<account, session, visit, changes, crossed>>

Roles == {"admin", "user"}
NotYet == [role |-> "new", password |-> "none"]
Deleted == [role |-> "deleted", password |-> "none"]
NoSession == [user |-> 0, role |-> "none"]
Resting == [at |-> "idle", what |-> "none", user |-> 0, role |-> "keep", password |-> "keep"]

Exists(u) == account[u].role \in Roles
Administrators == {u \in UserIds : account[u].role = "admin"}

\* SeedDefaultAdmin: Core starts with an account, the first of them "admin".
UsersInit ==
  /\ \E n \in {1, 2} : account =
       [u \in UserIds |-> IF u <= n THEN [role |-> "admin", password |-> "none"] ELSE NotYet]
  /\ session = [v \in Visits |-> NoSession]
  /\ visit = [v \in Visits |-> Resting]
  /\ changes = 0 /\ crossed = FALSE

Goes(v, where) == visit' = [visit EXCEPT ![v].at = where]
Answered(v) == visit' = [visit EXCEPT ![v] = Resting]

Asks(v, request) ==
  /\ visit[v].at = "idle" /\ changes < MaxChanges
  /\ changes' = changes + 1
  /\ visit' = [visit EXCEPT ![v] = request]
  /\ UNCHANGED <<account, session, crossed>>

-----------------------------------------------------------------------------
(* Sessions.                                                               *)

\* Mutant: the session is made without the role.
LoginReadsNoRole(v, u) ==
  /\ visit[v].at = "idle" /\ session[v] = NoSession /\ Exists(u)
  /\ visit' = [visit EXCEPT ![v] = [Resting EXCEPT !.at = "login", !.user = u]]
  /\ UNCHANGED <<account, session, changes, crossed>>

\* The row is read and its password compared; the session keeps what it says.
LoginReads(v, u) ==
  /\ visit[v].at = "idle" /\ session[v] = NoSession /\ Exists(u)
  /\ visit' = [visit EXCEPT ![v] =
       [Resting EXCEPT !.at = "login", !.user = u, !.role = account[u].role]]
  /\ UNCHANGED <<account, session, changes, crossed>>

LoginStores(v) ==
  /\ visit[v].at = "login"
  /\ session' = [session EXCEPT ![v] = [user |-> visit[v].user, role |-> visit[v].role]]
  /\ Answered(v)
  /\ UNCHANGED <<account, changes, crossed>>

\* Logout, or a day later Resolve finds the session expired.
SessionEnds(v) ==
  /\ session[v] # NoSession
  /\ session' = [session EXCEPT ![v] = NoSession]
  /\ UNCHANGED <<account, visit, changes, crossed>>

-----------------------------------------------------------------------------
(* Administration.                                                         *)

\* Serve: only administrators pass, by the role of their session.
IsAdmin(v) == session[v].role = "admin"

Creates(v, u, role, password) ==
  /\ visit[v].at = "idle" /\ IsAdmin(v) /\ changes < MaxChanges
  /\ account[u] = NotYet /\ \A w \in UserIds : w < u => account[w] # NotYet
  /\ account' = [account EXCEPT ![u] = [role |-> role, password |-> password]]
  /\ changes' = changes + 1
  /\ UNCHANGED <<session, visit, crossed>>

\* update: one's own role is not taken away.  A role that is not "admin" is
\* checked first, and the password comes last.
Updates(v, u, role, password) ==
  /\ IsAdmin(v) /\ ~(u = session[v].user /\ role = "user")
  /\ role # "keep" \/ password # "keep"
  /\ Asks(v, [at |-> CASE role = "user" -> "look" [] role = "admin" -> "write" [] OTHER -> "password",
              what |-> "update", user |-> u, role |-> role, password |-> password])

Removes(v, u) ==
  /\ IsAdmin(v) /\ u # session[v].user
  /\ Asks(v, [Resting EXCEPT !.at = "look", !.what = "remove", !.user = u])

\* Mutant: nobody counts the administrators.
LooksUpOnly(v) ==
  /\ visit[v].at = "look"
  /\ IF Exists(visit[v].user) THEN Goes(v, "write") ELSE Answered(v)
  /\ UNCHANGED <<account, session, changes, crossed>>

\* ensureNotLastAdmin: the row, and when it is an administrator's, the count.
LooksUp(v) ==
  /\ visit[v].at = "look"
  /\ IF ~Exists(visit[v].user) THEN Answered(v)
     ELSE Goes(v, IF visit[v].user \in Administrators THEN "count" ELSE "write")
  /\ UNCHANGED <<account, session, changes, crossed>>

Counts(v) ==
  /\ visit[v].at = "count"
  /\ IF Cardinality(Administrators) <= 1 THEN Answered(v) ELSE Goes(v, "write")
  /\ UNCHANGED <<account, session, changes, crossed>>

Removing(v) == visit[v].at = "write" /\ visit[v].role # "admin"

\* An account that is gone by now stays so.
Writes(v) ==
  /\ visit[v].at = "write"
  /\ LET u == visit[v].user IN
     /\ account' = [account EXCEPT ![u] =
          IF ~Exists(u) THEN @
          ELSE IF visit[v].what = "remove" THEN Deleted
          ELSE [@ EXCEPT !.role = visit[v].role]]
     /\ crossed' = (crossed \/ (u \in Administrators /\ Removing(v) /\ \E w \in Visits \ {v} : Removing(w)))
  /\ IF visit[v].password = "keep" THEN Answered(v) ELSE Goes(v, "password")
  /\ UNCHANGED <<session, changes>>

SetsPassword(v) ==
  /\ visit[v].at = "password"
  /\ account' = [account EXCEPT ![visit[v].user] =
       IF Exists(visit[v].user) THEN [@ EXCEPT !.password = visit[v].password] ELSE @]
  /\ Answered(v)
  /\ UNCHANGED <<session, changes, crossed>>

\* ChangePassword: the account is still there, and the password given is its own.
OwnMatches(v) == session[v] # NoSession /\ Exists(session[v].user)

\* changeOwnPassword: the row is read and compared, and then written.
ChangesOwn(v, password) ==
  /\ OwnMatches(v)
  /\ Asks(v, [Resting EXCEPT !.at = "password", !.what = "own", !.user = session[v].user,
                             !.password = password])

\* A statement fails, and the request with it.
StatementFails(v) ==
  /\ visit[v].at \in {"look", "count", "write", "password"}
  /\ Answered(v)
  /\ UNCHANGED <<account, session, changes, crossed>>

UsersNext ==
  \E v \in Visits :
    \/ LoginStores(v) \/ SessionEnds(v) \/ LooksUp(v) \/ Counts(v) \/ Writes(v)
    \/ SetsPassword(v) \/ StatementFails(v)
    \/ \E password \in Passwords : ChangesOwn(v, password)
    \/ \E u \in UserIds :
         \/ LoginReads(v, u) \/ Removes(v, u)
         \/ \E role \in Roles, password \in Passwords : Creates(v, u, role, password)
         \/ \E role \in Roles \cup {"keep"}, password \in Passwords \cup {"keep"} :
              Updates(v, u, role, password)

UsersSpec == UsersInit /\ [][UsersNext]_usersVars

-----------------------------------------------------------------------------
(* Properties.                                                             *)

\* The variables have their types.
UsersTypeOK ==
  /\ account \in [UserIds -> [role : Roles, password : Passwords \cup {"none"}] \cup {NotYet, Deleted}]
  /\ \A v \in Visits :
       /\ session[v] \in [user : UserIds, role : Roles] \cup {NoSession}
       /\ visit[v].at \in {"idle", "login", "look", "count", "write", "password"}
  /\ changes \in 0..MaxChanges /\ crossed \in BOOLEAN

\* There is an administrator, whatever requests come and fail, unless two
\* removals crossed: each was checked before the other was written
\* (users.go:75, :88, "refusing to remove the last administrator").
AdminRemains == crossed \/ Administrators # {}
=============================================================================
