------------------------------- MODULE Accounts -------------------------------
(***************************************************************************)
(* Accounts, login and sessions: api/auth.ts, api/users.ts, auth/*.ts.     *)
(*                                                                         *)
(* Every handler is synchronous, from attachSession to its response, so    *)
(* that one action is one request; only the death of the process can come  *)
(* between two of its statements.  A user is known by its login id: rows   *)
(* are never removed and the id is unique, that of a deleted user too.     *)
(*                                                                         *)
(* Of a password only matters whether a login has the right one, of the    *)
(* table sessions the row a browser's cookie names: no other row is ever   *)
(* read again.  Times are what remains of them; Tick is the clock.  Audit  *)
(* rows and the CSRF token, whose cookie lives and dies with the other     *)
(* one, are left out.                                                      *)
(*                                                                         *)
(* A definition named X_Y is X with the plausible bug Y.  No specification *)
(* uses it: it shows which property would notice the bug.                  *)
(***************************************************************************)
EXTENDS Integers

CONSTANTS
  LoginId,         \* normalised login ids
  BootstrapId,     \* config.bootstrapAdminLoginId
  Role,            \* roles; "ADMIN" is one
  Browser,
  Threshold,       \* config.loginLockThreshold
  LockTime,        \* config.loginLockMs
  IdleLimit,       \* config.sessionIdleTimeoutMs
  MaxCrashes       \* bound: deaths in the middle of a handler

\* The code does not normalise the id of the first administrator.  If it is not
\* normalised in the configuration, nobody can log in as this user.
ASSUME AccountsAssumption ==
  /\ BootstrapId \in LoginId
  /\ "ADMIN" \in Role
  /\ Threshold \in Nat \ {0} /\ LockTime \in Nat \ {0} /\ IdleLimit \in Nat \ {0}
  /\ MaxCrashes \in Nat

VARIABLES
  running,   \* is the program running?
  users,     \* the table users
  session,   \* the row of sessions that each browser's cookie names
  cookie,    \* what remains of the life of each browser's cookie
  guesses,   \* history: wrong passwords of each user since a login, a reset or
             \* the end of a lock
  cutOff,    \* history: users whose deletion or reset lost its second statement
  crashes    \* how many deaths there were

vars == <<running, users, session, cookie, guesses, cutOff, crashes>>

\* failed counts up to Threshold, which is all the code asks for; lock is what
\* remains of locked_until.
User == [role: Role, active: BOOLEAN, deleted: BOOLEAN,
         failed: 0..Threshold, lock: 0..LockTime]
NoUser == [role |-> "none"]

\* idle: the time since last_seen_at; old: opened before the last reset.
Session == [user: LoginId, idle: 0..(IdleLimit + 1), old: BOOLEAN]
NoSession == [user |-> "none"]

Exists(u) == users[u] # NoUser
Listed(u) == Exists(u) /\ ~users[u].deleted
Usable(u) == Listed(u) /\ users[u].active
ActiveAdmins == {u \in LoginId : Usable(u) /\ users[u].role = "ADMIN"}

Row(role, active) ==
  [role |-> role, active |-> active, deleted |-> FALSE, failed |-> 0, lock |-> 0]

-----------------------------------------------------------------------------

Init ==
  /\ running = FALSE
  /\ users = [u \in LoginId |-> NoUser]
  /\ session = [b \in Browser |-> NoSession]
  /\ cookie = [b \in Browser |-> 0]
  /\ guesses = [u \in LoginId |-> 0]
  /\ cutOff = {}
  /\ crashes = 0

\* ensureBootstrapAdmin.  Its upsert keeps failed_login_count and locked_until.
Upsert ==
  [users EXCEPT ![BootstrapId] =
     IF Exists(BootstrapId)
     THEN [@ EXCEPT !.role = "ADMIN", !.active = TRUE, !.deleted = FALSE]
     ELSE Row("ADMIN", TRUE)]

BootstrapAdmin == IF ActiveAdmins # {} THEN users ELSE Upsert

Start ==
  /\ ~running
  /\ running' = TRUE
  /\ users' = BootstrapAdmin
  /\ UNCHANGED <<session, cookie, guesses, cutOff, crashes>>

\* The program is stopped, or dies between two requests.
Stop ==
  /\ running
  /\ running' = FALSE
  /\ UNCHANGED <<users, session, cookie, guesses, cutOff, crashes>>

-----------------------------------------------------------------------------
(* attachSession and loadSession, which begin every request.               *)

Loaded(b) ==
  /\ cookie[b] > 0
  /\ session[b] # NoSession
  /\ session[b].idle <= IdleLimit
  /\ Usable(session[b].user)

\* The row is touched, or removed when it is not good any more.
Attached(b) ==
  IF cookie[b] = 0 \/ session[b] = NoSession THEN session
  ELSE [session EXCEPT ![b] = IF Loaded(b) THEN [@ EXCEPT !.idle = 0] ELSE NoSession]

AsUser(b) == running /\ Loaded(b)

\* requireRole("ADMIN") of usersRouter.
AsAdmin(b) == AsUser(b) /\ users[session[b].user].role = "ADMIN"

\* A request that changes no account, or is turned away: a GET, a command, the
\* change of the own password, which leaves all sessions as they are.
Request(b) ==
  /\ running
  /\ Attached(b) # session
  /\ session' = Attached(b)
  /\ UNCHANGED <<running, users, cookie, guesses, cutOff, crashes>>

\* Both statements of a handler are executed, or the process dies between them.
Completes == UNCHANGED <<running, crashes>>
Dies ==
  /\ crashes < MaxCrashes
  /\ crashes' = crashes + 1
  /\ running' = FALSE

-----------------------------------------------------------------------------
(* api/auth.ts                                                             *)

NextCount(u) == IF users[u].failed < Threshold THEN users[u].failed + 1 ELSE Threshold

LockAfter_TooLate(u) == IF users[u].failed >= Threshold THEN LockTime ELSE 0
LockAfter(u) == IF NextCount(u) >= Threshold THEN LockTime ELSE 0

WrongPassword(b, u) ==
  /\ running
  /\ Usable(u) /\ users[u].lock = 0
  /\ users' = [users EXCEPT ![u].failed = NextCount(u), ![u].lock = LockAfter(u)]
  /\ guesses' = [guesses EXCEPT ![u] = @ + 1]
  /\ session' = Attached(b)
  /\ UNCHANGED <<running, cookie, cutOff, crashes>>

\* createSession and setSessionCookies, with a row of its own.
LoggedIn_LongCookie(b, u) ==
  /\ session' = [session EXCEPT ![b] = [user |-> u, idle |-> 0, old |-> FALSE]]
  /\ cookie' = [cookie EXCEPT ![b] = 2 * IdleLimit]
LoggedIn(b, u) ==
  /\ session' = [session EXCEPT ![b] = [user |-> u, idle |-> 0, old |-> FALSE]]
  /\ cookie' = [cookie EXCEPT ![b] = IdleLimit]

Login(b, u) ==
  /\ running
  /\ Usable(u) /\ users[u].lock = 0
  /\ users' = [users EXCEPT ![u].failed = 0, ![u].lock = 0]
  /\ guesses' = [guesses EXCEPT ![u] = 0]
  /\ \/ Completes /\ LoggedIn(b, u)
     \/ Dies /\ session' = Attached(b) /\ UNCHANGED cookie
  /\ UNCHANGED cutOff

\* destroySession and clearSessionCookies.
Logout(b) ==
  /\ AsUser(b)
  /\ session' = [session EXCEPT ![b] = NoSession]
  /\ cookie' = [cookie EXCEPT ![b] = 0]
  /\ UNCHANGED <<running, users, guesses, cutOff, crashes>>

-----------------------------------------------------------------------------
(* api/users.ts                                                            *)

CreateUser(b, u, role, active) ==
  /\ AsAdmin(b)
  /\ ~Exists(u)
  /\ users' = [users EXCEPT ![u] = Row(role, active)]
  /\ session' = Attached(b)
  /\ UNCHANGED <<running, cookie, guesses, cutOff, crashes>>

\* countActiveAdmins(db, u) === 0
LastActiveAdmin_CountsAll(u) == ActiveAdmins = {}
LastActiveAdmin(u) == ActiveAdmins \ {u} = {}

LosingAdminStatus(u, role, active) ==
  users[u].role = "ADMIN" /\ (role # "ADMIN" \/ ~active)

UpdateUser(b, u, role, active) ==
  /\ AsAdmin(b)
  /\ Listed(u)
  /\ ~(LosingAdminStatus(u, role, active) /\ LastActiveAdmin(u))
  /\ users' = [users EXCEPT ![u].role = role, ![u].active = active]
  /\ session' = Attached(b)
  /\ UNCHANGED <<running, cookie, guesses, cutOff, crashes>>

\* destroyAllSessionsForUser
WithoutSessions_None(u, sessions) == sessions
WithoutSessions(u, sessions) ==
  [b \in Browser |-> IF sessions[b].user = u THEN NoSession ELSE sessions[b]]

\* The last statement of the two handlers below, if the process lives to see it.
EndSessions(b, u, sessions) ==
  \/ Completes /\ session' = WithoutSessions(u, sessions) /\ UNCHANGED cutOff
  \/ Dies /\ session' = sessions /\ cutOff' = cutOff \cup {u}

DeleteUser(b, u) ==
  /\ AsAdmin(b)
  /\ Listed(u)
  /\ u # session[b].user
  /\ ~(users[u].role = "ADMIN" /\ LastActiveAdmin(u))
  /\ users' = [users EXCEPT ![u].active = FALSE, ![u].deleted = TRUE]
  /\ EndSessions(b, u, Attached(b))
  /\ UNCHANGED <<cookie, guesses>>

Outdated(u, sessions) ==
  [b \in Browser |-> IF sessions[b] # NoSession /\ sessions[b].user = u
                     THEN [sessions[b] EXCEPT !.old = TRUE] ELSE sessions[b]]

ResetPassword(b, u) ==
  /\ AsAdmin(b)
  /\ Listed(u)
  /\ users' = [users EXCEPT ![u].failed = 0, ![u].lock = 0]
  /\ guesses' = [guesses EXCEPT ![u] = 0]
  /\ EndSessions(b, u, Outdated(u, Attached(b)))
  /\ UNCHANGED cookie

-----------------------------------------------------------------------------

Less(n) == IF n > 0 THEN n - 1 ELSE 0

\* Time passes: locks and cookies run out, sessions get older.
Tick ==
  /\ users' = [u \in LoginId |->
       IF Exists(u) THEN [users[u] EXCEPT !.lock = Less(@)] ELSE NoUser]
  /\ guesses' = [u \in LoginId |->
       IF Exists(u) /\ users[u].lock = 1 THEN 0 ELSE guesses[u]]
  /\ session' = [b \in Browser |->
       IF session[b] # NoSession /\ session[b].idle <= IdleLimit
       THEN [session[b] EXCEPT !.idle = @ + 1] ELSE session[b]]
  /\ cookie' = [b \in Browser |-> Less(cookie[b])]
  /\ UNCHANGED <<running, cutOff, crashes>>

Next ==
  \/ Start
  \/ Stop
  \/ \E b \in Browser : Request(b) \/ Logout(b)
  \/ \E b \in Browser, u \in LoginId :
       WrongPassword(b, u) \/ Login(b, u) \/ DeleteUser(b, u) \/ ResetPassword(b, u)
  \/ \E b \in Browser, u \in LoginId, role \in Role, active \in BOOLEAN :
       CreateUser(b, u, role, active) \/ UpdateUser(b, u, role, active)
  \/ Tick

Spec == Init /\ [][Next]_vars

-----------------------------------------------------------------------------

\* Every variable has its type.
TypeOK ==
  /\ running \in BOOLEAN
  /\ users \in [LoginId -> User \cup {NoUser}]
  /\ session \in [Browser -> Session \cup {NoSession}]
  /\ cookie \in [Browser -> 0..IdleLimit]
  /\ guesses \in [LoginId -> Nat]
  /\ cutOff \subseteq LoginId
  /\ crashes \in Nat

\* USR-03: once the program has started there always is an active administrator,
\* whatever administrators do to each other and to themselves.
AdminRemains == running => ActiveAdmins # {}

\* A restart changes no account: the bootstrap administrator is created by the
\* first start only, and no later start revives or promotes that user.
RestartChangesNobody ==
  [][~running /\ running' => users' = users \/ \A u \in LoginId : ~Exists(u)]_vars

\* A browser's session is of an account that is not deleted and was opened with
\* a password no administrator has reset since, unless the process died half-way.
SessionsAreCurrent ==
  \A b \in Browser : session[b] # NoSession =>
    \/ Listed(session[b].user) /\ ~session[b].old
    \/ session[b].user \in cutOff

\* The lock (5 failures, 15 minutes): between a login, a reset and the end of a
\* lock nobody can try more wrong passwords than the threshold allows.
GuessesAreLimited == \A u \in LoginId : guesses[u] <= Threshold

\* Of the two clocks that end a session, the browser's is always the first: the
\* cookie, which only the login sets, is gone before last_seen_at is too old.
CookieEndsFirst ==
  \A b \in Browser : cookie[b] > 0 /\ session[b] # NoSession =>
    cookie[b] + session[b].idle <= IdleLimit

=============================================================================
