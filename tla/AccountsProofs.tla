---------------------------- MODULE AccountsProofs ----------------------------
(***************************************************************************)
(* Theorems about Accounts, for all sets of login ids, roles and browsers, *)
(* all limits and any number of deaths.                                    *)
(***************************************************************************)
EXTENDS Accounts, TLAPS

\* There is an active administrator as soon as there is any account, also while
\* the program does not run.
AdminEver == running \/ (\E u \in LoginId : Exists(u)) => ActiveAdmins # {}

\* What the lock and the counter say about the guesses.
GuessesFollow ==
  \A u \in LoginId :
    /\ ~Exists(u) => guesses[u] = 0
    /\ Exists(u) =>
         /\ guesses[u] <= users[u].failed
         /\ users[u].lock > 0 => users[u].failed = Threshold
         /\ users[u].lock = 0 /\ users[u].failed = Threshold => guesses[u] = 0

IInv == TypeOK /\ AdminEver /\ SessionsAreCurrent /\ GuessesFollow

-----------------------------------------------------------------------------

\* The rows of the two tables and what stands for no row.
LEMMA UserTypes ==
  ASSUME TypeOK, NEW u \in LoginId
  PROVE  /\ users[u] \in User \/ users[u] = NoUser
         /\ Exists(u) => users[u] \in User
         /\ NoUser \notin User
<1>1. users[u] \in User \/ users[u] = NoUser
  BY DEF TypeOK
<1>2. NoUser \notin User
  BY DEF NoUser, User
<1> QED
  BY <1>1, <1>2 DEF Exists

LEMMA RowTypes ==
  \A role \in Role, active \in BOOLEAN :
    Row(role, active) \in User /\ Row(role, active) # NoUser
BY AccountsAssumption DEF Row, User, NoUser, AccountsAssumption

LEMMA SessionTypes ==
  ASSUME TypeOK, NEW b \in Browser
  PROVE  /\ session[b] \in Session \/ session[b] = NoSession
         /\ session[b] # NoSession => session[b] \in Session
         /\ NoSession \notin Session
<1>1. session[b] \in Session \/ session[b] = NoSession
  BY DEF TypeOK
<1>2. NoSession \notin Session
  BY DEF NoSession, Session
<1> QED
  BY <1>1, <1>2

LEMMA DiesTypes ==
  ASSUME TypeOK, Dies
  PROVE  crashes' \in Nat /\ running' \in BOOLEAN
<1>1. crashes' \in Nat
  BY DEF TypeOK, Dies
<1>2. running' \in BOOLEAN
  BY Zenon DEF Dies
<1> QED
  BY <1>1, <1>2

\* A statement that writes one row of users.
LEMMA UsersPut ==
  ASSUME TypeOK, NEW u \in LoginId, NEW r \in User, users' = [users EXCEPT ![u] = r]
  PROVE  /\ users' \in [LoginId -> User \cup {NoUser}]
         /\ users'[u] = r /\ Exists(u)'
         /\ \A v \in LoginId : v # u => users'[v] = users[v]
<1>1. users'[u] = r /\ \A v \in LoginId : v # u => users'[v] = users[v]
  BY DEF TypeOK
<1>2. users' \in [LoginId -> User \cup {NoUser}]
  BY DEF TypeOK
<1>3. r # NoUser
  BY UserTypes
<1> QED
  BY <1>1, <1>2, <1>3 DEF Exists

\* attachSession touches a session or removes it; it neither opens one nor
\* gives one to somebody else.
LEMMA AttachedTypes ==
  ASSUME TypeOK, NEW b \in Browser
  PROVE  /\ Attached(b) \in [Browser -> Session \cup {NoSession}]
         /\ \A c \in Browser :
              \/ Attached(b)[c] = NoSession
              \/ /\ session[c] # NoSession
                 /\ Attached(b)[c].user = session[c].user
                 /\ Attached(b)[c].old = session[c].old
<1> DEFINE kept == [session[b] EXCEPT !.idle = 0]
<1>1. CASE cookie[b] = 0 \/ session[b] = NoSession
  BY <1>1 DEF TypeOK, Attached
<1>2. CASE ~(cookie[b] = 0 \/ session[b] = NoSession)
  <2>1. session[b] \in Session /\ session[b] # NoSession
    BY <1>2, SessionTypes
  <2>2. 0 \in 0..(IdleLimit + 1)
    BY AccountsAssumption DEF AccountsAssumption
  <2>3. kept \in Session /\ kept.user = session[b].user /\ kept.old = session[b].old
    BY <2>1, <2>2 DEF Session
  <2>4. Attached(b) = [session EXCEPT ![b] = IF Loaded(b) THEN kept ELSE NoSession]
    BY <1>2 DEF Attached, TypeOK
  <2> HIDE DEF kept
  <2> QED
    BY <2>1, <2>3, <2>4 DEF TypeOK
<1> QED
  BY <1>1, <1>2

\* Sessions stay current while no account is deleted or reset.
LEMMA SessionsKept ==
  ASSUME SessionsAreCurrent, cutOff \subseteq cutOff',
         TypeOK, \A u \in LoginId : Listed(u) => Listed(u)',
         \A b \in Browser :
           \/ session'[b] = NoSession
           \/ /\ session[b] # NoSession
              /\ session'[b].user = session[b].user
              /\ session'[b].old = session[b].old
  PROVE  SessionsAreCurrent'
<1>1. \A u \in LoginId : Listed(u) =>
         users'[u] # NoUser /\ ~users'[u].deleted
  BY DEF Listed, Exists
<1>2. ASSUME NEW b \in Browser, session'[b] # NoSession
      PROVE  \/ /\ users'[session'[b].user] # NoUser
                /\ ~users'[session'[b].user].deleted
                /\ ~session'[b].old
             \/ session'[b].user \in cutOff'
  <2>1. /\ session[b] # NoSession
        /\ session'[b].user = session[b].user
        /\ session'[b].old = session[b].old
    BY <1>2
  <2>2. session[b].user \in LoginId
    BY <2>1, SessionTypes DEF Session
  <2>3. \/ Listed(session[b].user) /\ ~session[b].old
        \/ session[b].user \in cutOff
    BY <2>1 DEF SessionsAreCurrent
  <2> QED
    BY <1>1, <2>1, <2>2, <2>3
<1> QED
  BY <1>2 DEF SessionsAreCurrent, Listed, Exists

LEMMA InitInv == Init => IInv
<1> SUFFICES ASSUME Init PROVE IInv
  OBVIOUS
<1>1. \A u \in LoginId : users[u] = NoUser /\ guesses[u] = 0
  BY DEF Init
<1>2. TypeOK
  <2>1. 0 \in 0..IdleLimit
    BY AccountsAssumption DEF AccountsAssumption
  <2> QED
    BY <2>1 DEF Init, TypeOK
<1>3. AdminEver /\ GuessesFollow
  BY <1>1 DEF Init, AdminEver, GuessesFollow, Exists
<1>4. SessionsAreCurrent
  BY DEF Init, SessionsAreCurrent
<1> QED
  BY <1>2, <1>3, <1>4 DEF IInv

-----------------------------------------------------------------------------

\* A step that writes neither users nor the history of guesses.
LEMMA SameUsers ==
  ASSUME IInv, UNCHANGED <<users, guesses>>, running' => running,
         running' \in BOOLEAN, cookie' \in [Browser -> 0..IdleLimit],
         session' \in [Browser -> Session \cup {NoSession}],
         UNCHANGED <<cutOff, crashes>>,
         \A b \in Browser :
           \/ session'[b] = NoSession
           \/ /\ session[b] # NoSession
              /\ session'[b].user = session[b].user
              /\ session'[b].old = session[b].old
  PROVE  IInv'
<1> USE DEF IInv
<1>1. TypeOK'
  BY DEF TypeOK
<1>2. AdminEver'
  BY DEF AdminEver, Exists, ActiveAdmins, Usable, Listed
<1>3. SessionsAreCurrent'
  BY SessionsKept DEF Listed, Exists
<1>4. GuessesFollow'
  BY DEF GuessesFollow, Exists
<1> QED
  BY <1>1, <1>2, <1>3, <1>4

LEMMA StopInv == IInv /\ Stop => IInv'
<1> SUFFICES ASSUME IInv, Stop PROVE IInv'
  OBVIOUS
<1>1. UNCHANGED <<users, guesses, session, cookie, cutOff, crashes>> /\ running' = FALSE
  BY DEF Stop
<1> QED
  BY <1>1, SameUsers DEF IInv, TypeOK

LEMMA RequestInv == \A b \in Browser : IInv /\ Request(b) => IInv'
<1> SUFFICES ASSUME NEW b \in Browser, IInv, Request(b) PROVE IInv'
  OBVIOUS
<1>1. session' = Attached(b) /\ UNCHANGED <<running, users, cookie, guesses, cutOff, crashes>>
  BY DEF Request
<1>2. TypeOK
  BY DEF IInv
<1> QED
  BY <1>1, <1>2, AttachedTypes, SameUsers DEF TypeOK

LEMMA LogoutInv == \A b \in Browser : IInv /\ Logout(b) => IInv'
<1> SUFFICES ASSUME NEW b \in Browser, IInv, Logout(b) PROVE IInv'
  OBVIOUS
<1>1. /\ session' = [session EXCEPT ![b] = NoSession] /\ cookie' = [cookie EXCEPT ![b] = 0]
      /\ UNCHANGED <<running, users, guesses, cutOff, crashes>>
  BY DEF Logout
<1>2. 0 \in 0..IdleLimit
  BY AccountsAssumption DEF AccountsAssumption
<1>3. /\ session' \in [Browser -> Session \cup {NoSession}]
      /\ cookie' \in [Browser -> 0..IdleLimit]
      /\ \A c \in Browser : session'[c] = NoSession \/ session'[c] = session[c]
  BY <1>1, <1>2 DEF IInv, TypeOK
<1> QED
  BY <1>1, <1>3, SameUsers DEF IInv, TypeOK

\* The start creates the first administrator or changes nothing.
LEMMA StartUsers ==
  ASSUME IInv, Start
  PROVE  \/ users' = users /\ ActiveAdmins # {}
         \/ /\ \A u \in LoginId : ~Exists(u)
            /\ users' = [users EXCEPT ![BootstrapId] = Row("ADMIN", TRUE)]
<1>1. CASE ActiveAdmins # {}
  BY <1>1 DEF Start, BootstrapAdmin
<1>2. CASE ActiveAdmins = {}
  <2>1. \A u \in LoginId : ~Exists(u)
    BY <1>2 DEF IInv, AdminEver
  <2>2. ~Exists(BootstrapId)
    BY <2>1, AccountsAssumption DEF AccountsAssumption
  <2>3. users' = [users EXCEPT ![BootstrapId] = Row("ADMIN", TRUE)]
    BY <1>2, <2>2 DEF Start, BootstrapAdmin, Upsert
  <2> QED
    BY <2>1, <2>3
<1> QED
  BY <1>1, <1>2

LEMMA StartInv == IInv /\ Start => IInv'
<1> SUFFICES ASSUME IInv, Start PROVE IInv'
  OBVIOUS
<1> USE DEF IInv
<1>1. running' = TRUE /\ UNCHANGED <<session, cookie, guesses, cutOff, crashes>>
  BY DEF Start
<1>2. CASE users' = users /\ ActiveAdmins # {}
  <2>1. TypeOK' /\ GuessesFollow'
    BY <1>1, <1>2 DEF TypeOK, GuessesFollow, Exists
  <2>2. AdminEver'
    BY <1>2 DEF AdminEver, ActiveAdmins, Usable, Listed, Exists
  <2>3. SessionsAreCurrent'
    BY <1>1, <1>2 DEF SessionsAreCurrent, Listed, Exists
  <2> QED
    BY <2>1, <2>2, <2>3
<1>3. CASE /\ \A u \in LoginId : ~Exists(u)
           /\ users' = [users EXCEPT ![BootstrapId] = Row("ADMIN", TRUE)]
  <2> DEFINE r == Row("ADMIN", TRUE)
  <2>1. BootstrapId \in LoginId /\ Threshold # 0 /\ "ADMIN" \in Role
    BY AccountsAssumption DEF AccountsAssumption
  <2>2. r \in User
    BY <2>1, RowTypes
  <2>3. r.role = "ADMIN" /\ r.active /\ ~r.deleted /\ r.failed = 0 /\ r.lock = 0
    BY DEF Row
  <2> HIDE DEF r
  <2>4. /\ users' \in [LoginId -> User \cup {NoUser}]
        /\ users'[BootstrapId] = r /\ users'[BootstrapId] # NoUser
        /\ \A v \in LoginId : v # BootstrapId => users'[v] = users[v]
    BY <1>3, <2>1, <2>2, UsersPut DEF r, Exists
  <2>5. TypeOK'
    BY <1>1, <2>4 DEF TypeOK
  <2>6. AdminEver'
    BY <2>1, <2>3, <2>4 DEF AdminEver, ActiveAdmins, Usable, Listed, Exists
  <2>7. SessionsAreCurrent'
    BY <1>1, <1>3, SessionsKept DEF Listed
  <2>8. GuessesFollow'
    <3>1. \A u \in LoginId : guesses[u] = 0
      BY <1>3 DEF GuessesFollow
    <3>2. \A u \in LoginId : u # BootstrapId => users'[u] = NoUser
      BY <1>3, <2>4 DEF Exists
    <3>3. \A u \in LoginId : guesses'[u] = 0
      BY <1>1, <3>1
    <3>4. 0 <= 0 /\ ~(0 > 0)
      OBVIOUS
    <3> QED
      BY <2>1, <2>3, <2>4, <3>2, <3>3, <3>4 DEF GuessesFollow, Exists
  <2> QED
    BY <2>5, <2>6, <2>7, <2>8
<1> QED
  BY <1>2, <1>3, StartUsers

-----------------------------------------------------------------------------
(* api/auth.ts                                                             *)

LEMMA WrongPasswordInv ==
  \A b \in Browser, u \in LoginId : IInv /\ WrongPassword(b, u) => IInv'
<1> SUFFICES ASSUME NEW b \in Browser, NEW u \in LoginId, IInv, WrongPassword(b, u)
             PROVE  IInv'
  OBVIOUS
<1> USE DEF IInv
<1> DEFINE r == [users[u] EXCEPT !.failed = NextCount(u), !.lock = LockAfter(u)]
<1>1. /\ Usable(u) /\ users[u].lock = 0
      /\ users' = [users EXCEPT ![u].failed = NextCount(u), ![u].lock = LockAfter(u)]
      /\ guesses' = [guesses EXCEPT ![u] = @ + 1]
      /\ session' = Attached(b)
      /\ UNCHANGED <<running, cookie, cutOff, crashes>>
  BY DEF WrongPassword
<1>2. users[u] \in User /\ users[u].failed \in 0..Threshold
  BY <1>1, UserTypes DEF Usable, Listed, User
<1>3. /\ Threshold \in Nat /\ Threshold # 0 /\ LockTime \in Nat /\ LockTime # 0
  BY AccountsAssumption DEF AccountsAssumption
<1>4. /\ NextCount(u) \in 0..Threshold /\ NextCount(u) <= Threshold
      /\ LockAfter(u) \in 0..LockTime
      /\ LockAfter(u) > 0 => NextCount(u) = Threshold
      /\ LockAfter(u) = 0 => NextCount(u) # Threshold
  BY <1>2, <1>3 DEF NextCount, LockAfter
<1>5. r \in User /\ r.failed = NextCount(u) /\ r.lock = LockAfter(u)
      /\ r.role = users[u].role /\ r.active = users[u].active /\ r.deleted = users[u].deleted
  BY <1>2, <1>4 DEF User
<1>6. users' = [users EXCEPT ![u] = r]
  BY <1>1 DEF TypeOK
<1> HIDE DEF r
<1>7. /\ users' \in [LoginId -> User \cup {NoUser}]
      /\ users'[u] = r /\ users'[u] # NoUser
      /\ \A v \in LoginId : v # u => users'[v] = users[v]
  BY <1>5, <1>6, UsersPut DEF Exists
<1>8. guesses[u] + 1 <= NextCount(u)
  <2>1. guesses[u] \in Nat /\ guesses[u] <= users[u].failed
        /\ (users[u].failed = Threshold => guesses[u] = 0)
    BY <1>1 DEF GuessesFollow, Usable, Listed, TypeOK
  <2> QED
    BY <1>2, <1>3, <2>1 DEF NextCount
<1>9. TypeOK'
  <2>1. guesses' \in [LoginId -> Nat]
    BY <1>1 DEF TypeOK
  <2> QED
    BY <1>1, <1>7, <2>1, AttachedTypes DEF TypeOK
<1>10. AdminEver'
  <2>1. ActiveAdmins # {}
    BY <1>1 DEF AdminEver, Usable, Listed
  <2>2. ActiveAdmins \subseteq ActiveAdmins'
    BY <1>5, <1>7 DEF ActiveAdmins, Usable, Listed, Exists
  <2> QED
    BY <2>1, <2>2 DEF AdminEver
<1>11. SessionsAreCurrent'
  <2>1. \A v \in LoginId : Listed(v) => Listed(v)'
    BY <1>5, <1>7 DEF Listed, Exists
  <2> QED
    BY <1>1, <2>1, AttachedTypes, SessionsKept
<1>12. GuessesFollow'
  <2>1. guesses'[u] = guesses[u] + 1 /\ \A v \in LoginId : v # u => guesses'[v] = guesses[v]
    BY <1>1 DEF TypeOK
  <2>2. guesses'[u] <= users'[u].failed
    BY <1>5, <1>7, <1>8, <2>1
  <2>3. /\ users'[u].lock > 0 => users'[u].failed = Threshold
        /\ users'[u].lock = 0 => users'[u].failed # Threshold
    BY <1>4, <1>5, <1>7
  <2>4. \A v \in LoginId : v # u =>
          /\ ~Exists(v)' => guesses'[v] = 0
          /\ Exists(v)' => /\ guesses'[v] <= users'[v].failed
                           /\ users'[v].lock > 0 => users'[v].failed = Threshold
                           /\ users'[v].lock = 0 /\ users'[v].failed = Threshold => guesses'[v] = 0
    BY <1>7, <2>1 DEF GuessesFollow, Exists
  <2> QED
    BY <1>7, <2>2, <2>3, <2>4 DEF GuessesFollow, Exists
<1> QED
  BY <1>9, <1>10, <1>11, <1>12

\* A statement that clears the counter and the lock of a user.
LEMMA ClearedInv ==
  ASSUME IInv, NEW u \in LoginId, Listed(u),
         users' = [users EXCEPT ![u].failed = 0, ![u].lock = 0],
         guesses' = [guesses EXCEPT ![u] = 0]
  PROVE  /\ users' \in [LoginId -> User \cup {NoUser}]
         /\ guesses' \in [LoginId -> Nat]
         /\ AdminEver'
         /\ GuessesFollow'
         /\ \A v \in LoginId : Listed(v) => Listed(v)'
<1> USE DEF IInv
<1> DEFINE r == [users[u] EXCEPT !.failed = 0, !.lock = 0]
<1>1. users[u] \in User
  BY UserTypes DEF Listed
<1>2. Threshold # 0 /\ 0 \in 0..Threshold /\ 0 \in 0..LockTime
  BY AccountsAssumption DEF AccountsAssumption
<1>3. r \in User /\ r.failed = 0 /\ r.lock = 0
      /\ r.role = users[u].role /\ r.active = users[u].active /\ r.deleted = users[u].deleted
  BY <1>1, <1>2 DEF User
<1>4. users' = [users EXCEPT ![u] = r]
  BY DEF TypeOK
<1> HIDE DEF r
<1>5. /\ users' \in [LoginId -> User \cup {NoUser}]
      /\ users'[u] = r /\ users'[u] # NoUser
      /\ \A v \in LoginId : v # u => users'[v] = users[v]
  BY <1>3, <1>4, UsersPut DEF Exists
<1>6. /\ guesses' \in [LoginId -> Nat] /\ guesses'[u] = 0
      /\ \A v \in LoginId : v # u => guesses'[v] = guesses[v]
  BY DEF TypeOK
<1>7. \A v \in LoginId : Listed(v) => Listed(v)'
  BY <1>3, <1>5 DEF Listed, Exists
<1>8. AdminEver'
  <2>1. ActiveAdmins # {}
    BY DEF AdminEver, Listed
  <2>2. ActiveAdmins \subseteq ActiveAdmins'
    BY <1>3, <1>5 DEF ActiveAdmins, Usable, Listed, Exists
  <2> QED
    BY <2>1, <2>2 DEF AdminEver
<1>9. GuessesFollow'
  <2>1. 0 <= 0 /\ ~(0 > 0)
    OBVIOUS
  <2>2. \A v \in LoginId : v # u =>
          /\ ~Exists(v)' => guesses'[v] = 0
          /\ Exists(v)' => /\ guesses'[v] <= users'[v].failed
                           /\ users'[v].lock > 0 => users'[v].failed = Threshold
                           /\ users'[v].lock = 0 /\ users'[v].failed = Threshold => guesses'[v] = 0
    BY <1>5, <1>6 DEF GuessesFollow, Exists
  <2> QED
    BY <1>2, <1>3, <1>5, <1>6, <2>1, <2>2 DEF GuessesFollow, Exists
<1> QED
  BY <1>5, <1>6, <1>7, <1>8, <1>9

LEMMA LoginInv == \A b \in Browser, u \in LoginId : IInv /\ Login(b, u) => IInv'
<1> SUFFICES ASSUME NEW b \in Browser, NEW u \in LoginId, IInv, Login(b, u)
             PROVE  IInv'
  OBVIOUS
<1> USE DEF IInv
<1>1. /\ Listed(u)
      /\ users' = [users EXCEPT ![u].failed = 0, ![u].lock = 0]
      /\ guesses' = [guesses EXCEPT ![u] = 0]
      /\ UNCHANGED cutOff
  BY DEF Login, Usable
<1>2. /\ users' \in [LoginId -> User \cup {NoUser}]
      /\ guesses' \in [LoginId -> Nat]
      /\ AdminEver'
      /\ GuessesFollow'
      /\ \A v \in LoginId : Listed(v) => Listed(v)'
  BY <1>1, ClearedInv
<1>3. CASE Dies /\ session' = Attached(b) /\ UNCHANGED cookie
  <2>1. TypeOK'
    <3>1. session' \in [Browser -> Session \cup {NoSession}]
      BY <1>3, AttachedTypes
    <3>2. crashes' \in Nat /\ running' \in BOOLEAN
      BY <1>3, DiesTypes
    <3> QED
      BY <1>1, <1>2, <1>3, <3>1, <3>2 DEF TypeOK
  <2>2. SessionsAreCurrent'
    BY <1>1, <1>2, <1>3, AttachedTypes, SessionsKept
  <2> QED
    BY <1>2, <2>1, <2>2
<1>4. CASE Completes /\ LoggedIn(b, u)
  <2> DEFINE new == [user |-> u, idle |-> 0, old |-> FALSE]
  <2>1. 0 \in 0..(IdleLimit + 1) /\ IdleLimit \in 0..IdleLimit
    BY AccountsAssumption DEF AccountsAssumption
  <2>2. new \in Session /\ new.user = u /\ ~new.old
    BY <2>1 DEF Session
  <2>3. session' = [session EXCEPT ![b] = new] /\ cookie' = [cookie EXCEPT ![b] = IdleLimit]
    BY <1>4 DEF LoggedIn
  <2> HIDE DEF new
  <2>4. /\ session' \in [Browser -> Session \cup {NoSession}]
        /\ cookie' \in [Browser -> 0..IdleLimit]
        /\ session'[b] = new
        /\ \A c \in Browser : c # b => session'[c] = session[c]
    BY <2>1, <2>2, <2>3 DEF TypeOK
  <2>5. TypeOK'
    BY <1>1, <1>2, <1>4, <2>4 DEF TypeOK, Completes
  <2>6. users'[u] # NoUser /\ ~users'[u].deleted
    BY <1>1, <1>2 DEF Listed, Exists
  <2>7. \A c \in Browser : c # b /\ session[c] # NoSession =>
          \/ users'[session[c].user] # NoUser /\ ~users'[session[c].user].deleted /\ ~session[c].old
          \/ session[c].user \in cutOff
    <3>1. \A c \in Browser : session[c] # NoSession => session[c].user \in LoginId
      BY SessionTypes DEF Session
    <3>2. \A v \in LoginId : Listed(v) => users'[v] # NoUser /\ ~users'[v].deleted
      BY <1>2 DEF Listed, Exists
    <3> QED
      BY <3>1, <3>2 DEF SessionsAreCurrent
  <2>8. SessionsAreCurrent'
    BY <1>1, <2>2, <2>4, <2>6, <2>7 DEF SessionsAreCurrent, Listed, Exists
  <2> QED
    BY <1>2, <2>5, <2>8
<1> QED
  BY <1>3, <1>4 DEF Login

-----------------------------------------------------------------------------
(* api/users.ts                                                            *)

\* An active administrator who is not the one whose row is written remains.
LEMMA OthersRemain ==
  ASSUME NEW u \in LoginId, ActiveAdmins \ {u} # {},
         \A v \in LoginId : v # u => users'[v] = users[v]
  PROVE  AdminEver'
<1>1. PICK a \in ActiveAdmins : a # u
  OBVIOUS
<1>2. a \in LoginId /\ users'[a] = users[a]
  BY <1>1 DEF ActiveAdmins
<1>3. a \in ActiveAdmins'
  BY <1>1, <1>2 DEF ActiveAdmins, Usable, Listed, Exists
<1> QED
  BY <1>3 DEF AdminEver

\* Whoever acts as an administrator is one.
LEMMA ActorIsAdmin ==
  ASSUME TypeOK, NEW b \in Browser, AsAdmin(b)
  PROVE  session[b].user \in ActiveAdmins
<1>1. session[b] \in Session
  BY SessionTypes DEF AsAdmin, AsUser, Loaded
<1> QED
  BY <1>1 DEF AsAdmin, AsUser, Loaded, ActiveAdmins, Session

LEMMA CreateUserInv ==
  \A b \in Browser, u \in LoginId, role \in Role, active \in BOOLEAN :
    IInv /\ CreateUser(b, u, role, active) => IInv'
<1> SUFFICES ASSUME NEW b \in Browser, NEW u \in LoginId, NEW role \in Role,
                    NEW active \in BOOLEAN, IInv, CreateUser(b, u, role, active)
             PROVE  IInv'
  OBVIOUS
<1> USE DEF IInv
<1> DEFINE r == Row(role, active)
<1>1. /\ AsAdmin(b) /\ ~Exists(u) /\ users' = [users EXCEPT ![u] = r]
      /\ session' = Attached(b)
      /\ UNCHANGED <<running, cookie, guesses, cutOff, crashes>>
  BY DEF CreateUser
<1>2. r \in User
  BY RowTypes
<1>3. r.failed = 0 /\ r.lock = 0
  BY DEF Row
<1> HIDE DEF r
<1>4. /\ users' \in [LoginId -> User \cup {NoUser}]
      /\ users'[u] = r /\ users'[u] # NoUser
      /\ \A v \in LoginId : v # u => users'[v] = users[v]
  BY <1>1, <1>2, UsersPut DEF Exists
<1>5. TypeOK'
  BY <1>1, <1>4, AttachedTypes DEF TypeOK
<1>6. AdminEver'
  <2>1. session[b].user \in ActiveAdmins /\ session[b].user # u
    BY <1>1, ActorIsAdmin DEF ActiveAdmins, Usable, Listed
  <2> QED
    BY <1>4, <2>1, OthersRemain
<1>7. SessionsAreCurrent'
  <2>1. \A v \in LoginId : Listed(v) => Listed(v)'
    BY <1>1, <1>4 DEF Listed, Exists
  <2> QED
    BY <1>1, <2>1, AttachedTypes, SessionsKept
<1>8. GuessesFollow'
  <2>1. 0 <= 0 /\ ~(0 > 0) /\ Threshold # 0
    BY AccountsAssumption DEF AccountsAssumption
  <2>2. guesses'[u] = 0
    BY <1>1 DEF GuessesFollow
  <2>3. \A v \in LoginId : v # u =>
          /\ ~Exists(v)' => guesses'[v] = 0
          /\ Exists(v)' => /\ guesses'[v] <= users'[v].failed
                           /\ users'[v].lock > 0 => users'[v].failed = Threshold
                           /\ users'[v].lock = 0 /\ users'[v].failed = Threshold => guesses'[v] = 0
    BY <1>1, <1>4 DEF GuessesFollow, Exists
  <2> QED
    BY <1>3, <1>4, <2>1, <2>2, <2>3 DEF GuessesFollow, Exists
<1> QED
  BY <1>5, <1>6, <1>7, <1>8

\* A statement that writes the rank of a user and leaves the lock as it is.
LEMMA RankedGuesses ==
  ASSUME IInv, NEW u \in LoginId, Exists(u), NEW r \in User,
         users'[u] = r, r.failed = users[u].failed, r.lock = users[u].lock,
         users'[u] # NoUser,
         \A v \in LoginId : v # u => users'[v] = users[v], UNCHANGED guesses
  PROVE  GuessesFollow'
<1> USE DEF IInv
<1>1. \A v \in LoginId : Exists(v)' <=> Exists(v)
  BY DEF Exists
<1>2. \A v \in LoginId : Exists(v) =>
         users'[v].failed = users[v].failed /\ users'[v].lock = users[v].lock
  OBVIOUS
<1> QED
  BY <1>1, <1>2 DEF GuessesFollow

LEMMA UpdateUserInv ==
  \A b \in Browser, u \in LoginId, role \in Role, active \in BOOLEAN :
    IInv /\ UpdateUser(b, u, role, active) => IInv'
<1> SUFFICES ASSUME NEW b \in Browser, NEW u \in LoginId, NEW role \in Role,
                    NEW active \in BOOLEAN, IInv, UpdateUser(b, u, role, active)
             PROVE  IInv'
  OBVIOUS
<1> USE DEF IInv
<1> DEFINE r == [users[u] EXCEPT !.role = role, !.active = active]
<1>1. /\ AsAdmin(b) /\ Listed(u)
      /\ ~(LosingAdminStatus(u, role, active) /\ LastActiveAdmin(u))
      /\ users' = [users EXCEPT ![u].role = role, ![u].active = active]
      /\ session' = Attached(b)
      /\ UNCHANGED <<running, cookie, guesses, cutOff, crashes>>
  BY DEF UpdateUser
<1>2. users[u] \in User
  BY <1>1, UserTypes DEF Listed
<1>3. r \in User /\ r.failed = users[u].failed /\ r.lock = users[u].lock
      /\ r.role = role /\ r.active = active /\ r.deleted = users[u].deleted
  BY <1>2 DEF User
<1>4. users' = [users EXCEPT ![u] = r]
  BY <1>1 DEF TypeOK
<1> HIDE DEF r
<1>5. /\ users' \in [LoginId -> User \cup {NoUser}]
      /\ users'[u] = r /\ users'[u] # NoUser
      /\ \A v \in LoginId : v # u => users'[v] = users[v]
  BY <1>3, <1>4, UsersPut DEF Exists
<1>6. TypeOK'
  BY <1>1, <1>5, AttachedTypes DEF TypeOK
<1>7. AdminEver'
  <2>1. CASE ActiveAdmins \ {u} # {}
    BY <1>5, <2>1, OthersRemain
  <2>2. CASE ActiveAdmins \ {u} = {}
    <3>1. u \in ActiveAdmins
      BY <1>1, <2>2, ActorIsAdmin
    <3>2. role = "ADMIN" /\ active
      BY <1>1, <2>2, <3>1 DEF LosingAdminStatus, LastActiveAdmin, ActiveAdmins
    <3>3. u \in ActiveAdmins'
      BY <1>1, <1>3, <1>5, <3>2 DEF ActiveAdmins, Usable, Listed, Exists
    <3> QED
      BY <3>3 DEF AdminEver
  <2> QED
    BY <2>1, <2>2
<1>8. SessionsAreCurrent'
  <2>1. \A v \in LoginId : Listed(v) => Listed(v)'
    BY <1>3, <1>5 DEF Listed, Exists
  <2> QED
    BY <1>1, <2>1, AttachedTypes, SessionsKept
<1>9. GuessesFollow'
  BY <1>1, <1>3, <1>5, RankedGuesses DEF Listed
<1> QED
  BY <1>6, <1>7, <1>8, <1>9

\* The end of DELETE and of the reset of a password: the sessions of the user are
\* gone, or the process is and the user is known to be cut off.
LEMMA EndedSessions ==
  ASSUME IInv, NEW b \in Browser, NEW u \in LoginId,
         NEW sessions \in [Browser -> Session \cup {NoSession}],
         EndSessions(b, u, sessions),
         \A v \in LoginId : v # u /\ Listed(v) => Listed(v)',
         \A c \in Browser :
           \/ sessions[c] = NoSession
           \/ /\ session[c] # NoSession
              /\ sessions[c].user = session[c].user
              /\ sessions[c].user = u \/ sessions[c].old = session[c].old
  PROVE  /\ session' \in [Browser -> Session \cup {NoSession}]
         /\ cutOff' \subseteq LoginId /\ crashes' \in Nat /\ running' \in BOOLEAN
         /\ SessionsAreCurrent'
<1> USE DEF IInv
<1>1. /\ session' \in [Browser -> Session \cup {NoSession}]
      /\ cutOff \subseteq cutOff' /\ cutOff' \subseteq LoginId
      /\ crashes' \in Nat /\ running' \in BOOLEAN
      /\ \A c \in Browser : session'[c] # NoSession =>
           /\ sessions[c] # NoSession /\ session'[c] = sessions[c]
           /\ sessions[c].user # u \/ u \in cutOff'
  <2>1. CASE Completes /\ session' = WithoutSessions(u, sessions) /\ UNCHANGED cutOff
    BY <2>1 DEF Completes, WithoutSessions, TypeOK
  <2>2. CASE Dies /\ session' = sessions /\ cutOff' = cutOff \cup {u}
    BY <2>2, DiesTypes DEF TypeOK
  <2> QED
    BY <2>1, <2>2 DEF EndSessions
<1>2. \A v \in LoginId : v # u /\ Listed(v) => users'[v] # NoUser /\ ~users'[v].deleted
  BY DEF Listed, Exists
<1>3. ASSUME NEW c \in Browser, session'[c] # NoSession
      PROVE  \/ /\ users'[session'[c].user] # NoUser
                /\ ~users'[session'[c].user].deleted
                /\ ~session'[c].old
             \/ session'[c].user \in cutOff'
  <2>1. /\ session[c] # NoSession /\ session'[c].user = session[c].user
        /\ session[c].user = u => u \in cutOff'
        /\ session[c].user # u => session'[c].old = session[c].old
    BY <1>1, <1>3
  <2>2. session[c].user \in LoginId
    BY <2>1, SessionTypes DEF Session
  <2>3. \/ Listed(session[c].user) /\ ~session[c].old
        \/ session[c].user \in cutOff
    BY <2>1 DEF SessionsAreCurrent
  <2> QED
    BY <1>1, <1>2, <2>1, <2>2, <2>3
<1>4. SessionsAreCurrent'
  BY <1>3 DEF SessionsAreCurrent, Listed, Exists
<1> QED
  BY <1>1, <1>4

LEMMA DeleteUserInv == \A b \in Browser, u \in LoginId : IInv /\ DeleteUser(b, u) => IInv'
<1> SUFFICES ASSUME NEW b \in Browser, NEW u \in LoginId, IInv, DeleteUser(b, u)
             PROVE  IInv'
  OBVIOUS
<1> USE DEF IInv
<1> DEFINE r == [users[u] EXCEPT !.active = FALSE, !.deleted = TRUE]
<1>1. /\ AsAdmin(b) /\ Listed(u) /\ u # session[b].user
      /\ users' = [users EXCEPT ![u].active = FALSE, ![u].deleted = TRUE]
      /\ EndSessions(b, u, Attached(b))
      /\ UNCHANGED <<cookie, guesses>>
  BY DEF DeleteUser
<1>2. users[u] \in User
  BY <1>1, UserTypes DEF Listed
<1>3. r \in User /\ r.failed = users[u].failed /\ r.lock = users[u].lock
  BY <1>2 DEF User
<1>4. users' = [users EXCEPT ![u] = r]
  BY <1>1 DEF TypeOK
<1> HIDE DEF r
<1>5. /\ users' \in [LoginId -> User \cup {NoUser}]
      /\ users'[u] = r /\ users'[u] # NoUser
      /\ \A v \in LoginId : v # u => users'[v] = users[v]
  BY <1>3, <1>4, UsersPut DEF Exists
<1>6. AdminEver'
  BY <1>1, <1>5, ActorIsAdmin, OthersRemain
<1>7. \A v \in LoginId : v # u /\ Listed(v) => Listed(v)'
  BY <1>5 DEF Listed, Exists
<1>8. /\ session' \in [Browser -> Session \cup {NoSession}]
      /\ cutOff' \subseteq LoginId /\ crashes' \in Nat /\ running' \in BOOLEAN
      /\ SessionsAreCurrent'
  <2> DEFINE sessions == Attached(b)
  <2>1. /\ sessions \in [Browser -> Session \cup {NoSession}]
        /\ \A c \in Browser :
             \/ sessions[c] = NoSession
             \/ /\ session[c] # NoSession
                /\ sessions[c].user = session[c].user
                /\ sessions[c].old = session[c].old
    BY AttachedTypes
  <2>2. EndSessions(b, u, sessions)
    BY <1>1
  <2> HIDE DEF sessions
  <2> QED
    BY <1>7, <2>1, <2>2, EndedSessions
<1>9. TypeOK'
  BY <1>1, <1>5, <1>8 DEF TypeOK
<1>10. GuessesFollow'
  BY <1>1, <1>3, <1>5, RankedGuesses DEF Listed
<1> QED
  BY <1>6, <1>8, <1>9, <1>10

LEMMA ResetPasswordInv ==
  \A b \in Browser, u \in LoginId : IInv /\ ResetPassword(b, u) => IInv'
<1> SUFFICES ASSUME NEW b \in Browser, NEW u \in LoginId, IInv, ResetPassword(b, u)
             PROVE  IInv'
  OBVIOUS
<1> USE DEF IInv
<1> DEFINE sessions == Outdated(u, Attached(b))
<1>1. /\ Listed(u)
      /\ users' = [users EXCEPT ![u].failed = 0, ![u].lock = 0]
      /\ guesses' = [guesses EXCEPT ![u] = 0]
      /\ EndSessions(b, u, sessions)
      /\ UNCHANGED cookie
  BY DEF ResetPassword
<1>2. /\ users' \in [LoginId -> User \cup {NoUser}]
      /\ guesses' \in [LoginId -> Nat]
      /\ AdminEver'
      /\ GuessesFollow'
      /\ \A v \in LoginId : Listed(v) => Listed(v)'
  BY <1>1, ClearedInv
<1>3. /\ sessions \in [Browser -> Session \cup {NoSession}]
      /\ \A c \in Browser :
           \/ sessions[c] = NoSession
           \/ /\ session[c] # NoSession
              /\ sessions[c].user = session[c].user
              /\ sessions[c].user = u \/ sessions[c].old = session[c].old
  <2> DEFINE att == Attached(b)
  <2>1. /\ att \in [Browser -> Session \cup {NoSession}]
        /\ \A c \in Browser :
             \/ att[c] = NoSession
             \/ /\ session[c] # NoSession
                /\ att[c].user = session[c].user
                /\ att[c].old = session[c].old
    BY AttachedTypes
  <2>2. sessions = [c \in Browser |-> IF att[c] # NoSession /\ att[c].user = u
                                      THEN [att[c] EXCEPT !.old = TRUE] ELSE att[c]]
    BY DEF Outdated
  <2> HIDE DEF att, sessions
  <2>3. \A s \in Session : [s EXCEPT !.old = TRUE] \in Session /\ [s EXCEPT !.old = TRUE].user = s.user
    BY DEF Session
  <2> QED
    BY <2>1, <2>2, <2>3
<1> HIDE DEF sessions
<1>4. /\ session' \in [Browser -> Session \cup {NoSession}]
      /\ cutOff' \subseteq LoginId /\ crashes' \in Nat /\ running' \in BOOLEAN
      /\ SessionsAreCurrent'
  BY <1>1, <1>2, <1>3, EndedSessions
<1>5. TypeOK'
  BY <1>1, <1>2, <1>4 DEF TypeOK
<1> QED
  BY <1>2, <1>4, <1>5

-----------------------------------------------------------------------------

LEMMA TickInv == IInv /\ Tick => IInv'
<1> SUFFICES ASSUME IInv, Tick PROVE IInv'
  OBVIOUS
<1> USE DEF IInv
<1>1. /\ users' = [u \in LoginId |-> IF Exists(u) THEN [users[u] EXCEPT !.lock = Less(@)] ELSE NoUser]
      /\ guesses' = [u \in LoginId |-> IF Exists(u) /\ users[u].lock = 1 THEN 0 ELSE guesses[u]]
      /\ session' = [b \in Browser |->
           IF session[b] # NoSession /\ session[b].idle <= IdleLimit
           THEN [session[b] EXCEPT !.idle = @ + 1] ELSE session[b]]
      /\ cookie' = [b \in Browser |-> Less(cookie[b])]
      /\ UNCHANGED <<running, cutOff, crashes>>
  BY DEF Tick
<1>2. /\ LockTime \in Nat /\ IdleLimit \in Nat
  BY AccountsAssumption DEF AccountsAssumption
<1>3. \A n \in Nat : Less(n) \in Nat /\ Less(n) <= n /\ (Less(n) = 0 => n = 0 \/ n = 1)
  BY DEF Less
<1>4. ASSUME NEW u \in LoginId, Exists(u)
      PROVE  /\ users'[u] \in User /\ users'[u] # NoUser
             /\ users'[u].lock = Less(users[u].lock)
             /\ users'[u].role = users[u].role /\ users'[u].active = users[u].active
             /\ users'[u].deleted = users[u].deleted /\ users'[u].failed = users[u].failed
             /\ users[u].lock \in Nat
  <2>1. users[u] \in User /\ users[u].lock \in 0..LockTime
    BY <1>4, UserTypes DEF User
  <2>2. Less(users[u].lock) \in 0..LockTime
    BY <1>2, <1>3, <2>1
  <2>3. users'[u] = [users[u] EXCEPT !.lock = Less(users[u].lock)]
    BY <1>1, <1>4
  <2>4. users'[u] \in User
    BY <2>1, <2>2, <2>3 DEF User
  <2>5. /\ users'[u].lock = Less(users[u].lock)
        /\ users'[u].role = users[u].role /\ users'[u].active = users[u].active
        /\ users'[u].deleted = users[u].deleted /\ users'[u].failed = users[u].failed
    BY <2>1, <2>3 DEF User
  <2>6. users'[u] # NoUser
    BY <2>4, UserTypes
  <2> QED
    BY <1>2, <2>1, <2>4, <2>5, <2>6
<1>5. \A u \in LoginId : ~Exists(u) => users'[u] = NoUser
  BY <1>1
<1>6. ASSUME NEW b \in Browser
      PROVE  /\ session'[b] \in Session \cup {NoSession}
             /\ \/ session'[b] = NoSession
                \/ /\ session[b] # NoSession
                   /\ session'[b].user = session[b].user
                   /\ session'[b].old = session[b].old
  <2>1. CASE session[b] # NoSession /\ session[b].idle <= IdleLimit
    <3>1. session[b] \in Session /\ session[b].idle \in 0..(IdleLimit + 1)
      BY <2>1, SessionTypes DEF Session
    <3>2. session[b].idle + 1 \in 0..(IdleLimit + 1)
      BY <1>2, <2>1, <3>1
    <3>3. session'[b] = [session[b] EXCEPT !.idle = session[b].idle + 1]
      BY <1>1, <2>1
    <3> QED
      BY <2>1, <3>1, <3>2, <3>3 DEF Session
  <2>2. CASE ~(session[b] # NoSession /\ session[b].idle <= IdleLimit)
    <3>1. session'[b] = session[b]
      BY <1>1, <2>2
    <3> QED
      BY <3>1, SessionTypes
  <2> QED
    BY <2>1, <2>2
<1>7. TypeOK'
  <2>1. users' \in [LoginId -> User \cup {NoUser}]
    <3>1. \A u \in LoginId : users'[u] \in User \cup {NoUser}
      BY <1>4, <1>5
    <3> QED
      BY <1>1, <3>1
  <2>2. session' \in [Browser -> Session \cup {NoSession}]
    BY <1>1, <1>6
  <2>3. cookie' \in [Browser -> 0..IdleLimit]
    <3>1. \A n \in 0..IdleLimit : Less(n) \in 0..IdleLimit
      BY <1>2, <1>3
    <3> QED
      BY <1>1, <3>1 DEF TypeOK
  <2>4. guesses' \in [LoginId -> Nat]
    BY <1>1 DEF TypeOK
  <2> QED
    BY <1>1, <2>1, <2>2, <2>3, <2>4 DEF TypeOK
<1>8. AdminEver'
  <2>1. ActiveAdmins \subseteq ActiveAdmins'
    BY <1>4 DEF ActiveAdmins, Usable, Listed, Exists
  <2>2. \A u \in LoginId : Exists(u)' => Exists(u)
    BY <1>5 DEF Exists
  <2> QED
    BY <1>1, <2>1, <2>2 DEF AdminEver
<1>9. SessionsAreCurrent'
  <2>1. \A u \in LoginId : Listed(u) => Listed(u)'
    BY <1>4 DEF Listed, Exists
  <2> QED
    BY <1>1, <1>6, <2>1, SessionsKept
<1>10. GuessesFollow'
  <2>1. ASSUME NEW u \in LoginId, Exists(u)
        PROVE  /\ guesses'[u] <= users'[u].failed
               /\ users'[u].lock > 0 => users'[u].failed = Threshold
               /\ users'[u].lock = 0 /\ users'[u].failed = Threshold => guesses'[u] = 0
    <3>1. /\ users[u].lock \in Nat /\ users'[u].lock = Less(users[u].lock)
          /\ users'[u].failed = users[u].failed
      BY <1>4, <2>1
    <3>2. /\ guesses[u] <= users[u].failed
          /\ users[u].lock > 0 => users[u].failed = Threshold
          /\ users[u].lock = 0 /\ users[u].failed = Threshold => guesses[u] = 0
      BY <2>1 DEF GuessesFollow
    <3>3. guesses[u] \in Nat /\ users[u].failed \in Nat
      BY <2>1, UserTypes, AccountsAssumption DEF TypeOK, User, AccountsAssumption
    <3>4. guesses'[u] = IF users[u].lock = 1 THEN 0 ELSE guesses[u]
      BY <1>1, <2>1
    <3> QED
      BY <3>1, <3>2, <3>3, <3>4 DEF Less
  <2>2. ASSUME NEW u \in LoginId, ~Exists(u)
        PROVE  guesses'[u] = 0 /\ users'[u] = NoUser
    BY <1>1, <1>5, <2>2 DEF GuessesFollow
  <2>3. \A u \in LoginId : Exists(u)' <=> Exists(u)
    BY <1>4, <2>2 DEF Exists
  <2> QED
    BY <2>1, <2>2, <2>3 DEF GuessesFollow
<1> QED
  BY <1>7, <1>8, <1>9, <1>10

LEMMA NextInv == IInv /\ [Next]_vars => IInv'
<1> SUFFICES ASSUME IInv, [Next]_vars PROVE IInv'
  OBVIOUS
<1>1. CASE Start
  BY <1>1, StartInv
<1>2. CASE Stop
  BY <1>2, StopInv
<1>3. CASE \E b \in Browser : Request(b) \/ Logout(b)
  BY <1>3, RequestInv, LogoutInv
<1>4. CASE \E b \in Browser, u \in LoginId : WrongPassword(b, u) \/ Login(b, u)
  BY <1>4, WrongPasswordInv, LoginInv
<1>5. CASE \E b \in Browser, u \in LoginId : DeleteUser(b, u) \/ ResetPassword(b, u)
  BY <1>5, DeleteUserInv, ResetPasswordInv
<1>6. CASE \E b \in Browser, u \in LoginId, role \in Role, active \in BOOLEAN :
             CreateUser(b, u, role, active) \/ UpdateUser(b, u, role, active)
  BY <1>6, CreateUserInv, UpdateUserInv
<1>7. CASE Tick
  BY <1>7, TickInv
<1>8. CASE UNCHANGED vars
  BY <1>8 DEF vars, IInv, TypeOK, AdminEver, SessionsAreCurrent, GuessesFollow,
     ActiveAdmins, Usable, Listed, Exists
<1> QED
  BY <1>1, <1>2, <1>3, <1>4, <1>5, <1>6, <1>7, <1>8 DEF Next

LEMMA Invariance == Spec => []IInv
<1> QED
  BY InitInv, NextInv, PTL DEF Spec

\* Every variable has its type.
THEOREM TypeCorrect == Spec => []TypeOK
<1>1. IInv => TypeOK
  BY DEF IInv
<1> QED
  BY <1>1, Invariance, PTL

\* USR-03: an active administrator always remains.
THEOREM AdminAlwaysRemains == Spec => []AdminRemains
<1>1. IInv => AdminRemains
  BY DEF IInv, AdminEver, AdminRemains
<1> QED
  BY <1>1, Invariance, PTL

\* No session outlives the deletion of its account or the reset of its password,
\* unless the process dies between the two statements.
THEOREM SessionsStayCurrent == Spec => []SessionsAreCurrent
<1>1. IInv => SessionsAreCurrent
  BY DEF IInv
<1> QED
  BY <1>1, Invariance, PTL

\* The lock limits the wrong passwords that can be tried.
THEOREM LockLimitsGuesses == Spec => []GuessesAreLimited
<1>1. IInv => GuessesAreLimited
  <2> SUFFICES ASSUME IInv, NEW u \in LoginId PROVE guesses[u] <= Threshold
    BY DEF GuessesAreLimited
  <2>1. Threshold \in Nat /\ guesses[u] \in Nat
    BY AccountsAssumption DEF AccountsAssumption, IInv, TypeOK
  <2>2. CASE Exists(u)
    BY <2>1, <2>2, UserTypes DEF IInv, GuessesFollow, User
  <2>3. CASE ~Exists(u)
    BY <2>1, <2>3 DEF IInv, GuessesFollow
  <2> QED
    BY <2>2, <2>3
<1> QED
  BY <1>1, Invariance, PTL

\* Only the first start makes an administrator; no later one changes an account.
THEOREM RestartIsHarmless == Spec => RestartChangesNobody
<1>1. IInv /\ [Next]_vars =>
        [~running /\ running' => users' = users \/ \A u \in LoginId : ~Exists(u)]_vars
  <2> SUFFICES ASSUME IInv, Next, ~running, running'
               PROVE  users' = users \/ \A u \in LoginId : ~Exists(u)
    OBVIOUS
  <2>1. CASE Start
    BY <2>1, StartUsers
  <2>2. CASE Tick
    BY <2>2 DEF Tick
  <2>3. CASE ~Start /\ ~Tick
    BY <2>3, ZenonT(30) DEF Next, Stop, Request, Logout, WrongPassword, Login, DeleteUser, ResetPassword,
       CreateUser, UpdateUser, AsAdmin, AsUser
  <2> QED
    BY <2>1, <2>2, <2>3
<1> QED
  BY <1>1, Invariance, PTL DEF Spec, RestartChangesNobody
-----------------------------------------------------------------------------
(* The two clocks of a session.                                            *)

\* attachSession makes no session older.
LEMMA AttachedIdle ==
  ASSUME TypeOK, NEW b \in Browser
  PROVE  \A c \in Browser :
           \/ Attached(b)[c] = NoSession
           \/ session[c] # NoSession /\ Attached(b)[c].idle \in 0..session[c].idle
<1> SUFFICES ASSUME NEW c \in Browser, Attached(b)[c] # NoSession
             PROVE  session[c] # NoSession /\ Attached(b)[c].idle \in 0..session[c].idle
  OBVIOUS
<1>1. CASE Attached(b)[c] = session[c]
  <2>1. session[c] \in Session
    BY <1>1, SessionTypes
  <2> QED
    BY <1>1, <2>1 DEF Session
<1>2. CASE Attached(b)[c] # session[c]
  <2>1. /\ c = b /\ session[b] # NoSession
        /\ Attached(b)[b] = [session[b] EXCEPT !.idle = 0]
    BY <1>2 DEF Attached, TypeOK
  <2>2. session[b] \in Session
    BY <2>1, SessionTypes
  <2> QED
    BY <2>1, <2>2 DEF Session
<1> QED
  BY <1>1, <1>2

\* A step that sets no cookie and makes no session older.
LEMMA EndsFirstKept ==
  ASSUME TypeOK, CookieEndsFirst,
         \A c \in Browser : cookie'[c] = cookie[c] \/ cookie'[c] = 0,
         \A c \in Browser :
           \/ session'[c] = NoSession
           \/ session[c] # NoSession /\ session'[c].idle \in 0..session[c].idle
  PROVE  CookieEndsFirst'
<1> SUFFICES ASSUME NEW c \in Browser, cookie'[c] > 0, session'[c] # NoSession
             PROVE  cookie'[c] + session'[c].idle <= IdleLimit
  BY DEF CookieEndsFirst
<1>1. session[c] # NoSession /\ session'[c].idle \in 0..session[c].idle
  OBVIOUS
<1>2. session[c] \in Session
  BY <1>1, SessionTypes
<1>3. cookie'[c] = cookie[c] /\ cookie[c] \in 0..IdleLimit /\ cookie[c] + session[c].idle <= IdleLimit
  BY <1>1 DEF CookieEndsFirst, TypeOK
<1> QED
  BY <1>1, <1>2, <1>3, AccountsAssumption DEF Session, AccountsAssumption

\* The same for a step that may also remove sessions or call them old.
LEMMA EndsFirstAttached ==
  ASSUME TypeOK, CookieEndsFirst, UNCHANGED cookie, NEW b \in Browser, NEW u \in LoginId,
         \/ session' = Attached(b)
         \/ session' = WithoutSessions(u, Attached(b))
         \/ session' = Outdated(u, Attached(b))
         \/ session' = WithoutSessions(u, Outdated(u, Attached(b)))
  PROVE  CookieEndsFirst'
<1> DEFINE Younger(s) == \A c \in Browser :
             \/ s[c] = NoSession
             \/ session[c] # NoSession /\ s[c].idle \in 0..session[c].idle
<1> DEFINE A == Attached(b)
<1>1. Younger(A)
  BY AttachedIdle
<1>2. Younger(WithoutSessions(u, A))
  BY <1>1 DEF WithoutSessions
<1>3. Younger(Outdated(u, A))
  <2> SUFFICES ASSUME NEW c \in Browser, Outdated(u, A)[c] # NoSession
               PROVE  session[c] # NoSession /\ Outdated(u, A)[c].idle \in 0..session[c].idle
    OBVIOUS
  <2>1. A[c] # NoSession
    BY DEF Outdated
  <2>2. A[c] \in Session
    BY <2>1, AttachedTypes
  <2>3. Outdated(u, A)[c].idle = A[c].idle
    BY <2>2 DEF Outdated, Session
  <2> QED
    BY <1>1, <2>1, <2>3
<1>4. Younger(WithoutSessions(u, Outdated(u, A)))
  BY <1>3 DEF WithoutSessions
<1>5. Younger(session')
  BY <1>1, <1>2, <1>3, <1>4
<1> QED
  BY <1>5, EndsFirstKept

LEMMA EndsFirstTick == TypeOK /\ CookieEndsFirst /\ Tick => CookieEndsFirst'
<1> SUFFICES ASSUME TypeOK, CookieEndsFirst, Tick,
                    NEW c \in Browser, cookie'[c] > 0, session'[c] # NoSession
             PROVE  cookie'[c] + session'[c].idle <= IdleLimit
  BY DEF CookieEndsFirst
<1>1. cookie[c] \in 0..IdleLimit /\ IdleLimit \in Nat
  BY AccountsAssumption DEF TypeOK, AccountsAssumption
<1>2. cookie'[c] = cookie[c] - 1 /\ cookie[c] > 0
  BY <1>1 DEF Tick, Less
<1>3. session[c] # NoSession
  BY DEF Tick
<1>4. session[c] \in Session /\ cookie[c] + session[c].idle <= IdleLimit
  BY <1>2, <1>3, SessionTypes DEF CookieEndsFirst
<1>5. session'[c].idle = session[c].idle + 1
  BY <1>1, <1>2, <1>3, <1>4 DEF Tick, Session
<1> QED
  BY <1>1, <1>2, <1>4, <1>5 DEF Session

LEMMA EndsFirstLogin ==
  ASSUME TypeOK, CookieEndsFirst, NEW b \in Browser, NEW u \in LoginId, Login(b, u)
  PROVE  CookieEndsFirst'
<1>1. CASE LoggedIn(b, u)
  <2> SUFFICES ASSUME NEW c \in Browser, cookie'[c] > 0, session'[c] # NoSession
               PROVE  cookie'[c] + session'[c].idle <= IdleLimit
    BY DEF CookieEndsFirst
  <2>1. CASE c = b
    <3>1. cookie'[b] = IdleLimit /\ session'[b].idle = 0 /\ IdleLimit \in Nat
      BY <1>1, AccountsAssumption DEF LoggedIn, TypeOK, AccountsAssumption
    <3> QED
      BY <2>1, <3>1
  <2>2. CASE c # b
    <3>1. cookie'[c] = cookie[c] /\ session'[c] = session[c]
      BY <1>1, <2>2 DEF LoggedIn, TypeOK
    <3> QED
      BY <3>1 DEF CookieEndsFirst
  <2> QED
    BY <2>1, <2>2
<1>2. CASE session' = Attached(b) /\ UNCHANGED cookie
  BY <1>2, EndsFirstAttached
<1> QED
  BY <1>1, <1>2 DEF Login

\* The cookie of a session is gone before its row is too old: the idle timeout
\* ends no session that its browser still names.
THEOREM CookieIsFirst == Spec => []CookieEndsFirst
<1>1. Init => CookieEndsFirst
  BY DEF Init, CookieEndsFirst
<1>2. IInv /\ CookieEndsFirst /\ [Next]_vars => CookieEndsFirst'
  <2> SUFFICES ASSUME TypeOK, CookieEndsFirst, [Next]_vars PROVE CookieEndsFirst'
    BY DEF IInv
  <2>1. CASE UNCHANGED <<session, cookie>>
    BY <2>1 DEF CookieEndsFirst
  <2>2. ASSUME NEW b \in Browser, Request(b) \/ Logout(b) PROVE CookieEndsFirst'
    <3>1. CASE Request(b)
      BY <3>1, EndsFirstAttached, AccountsAssumption DEF Request, AccountsAssumption
    <3>2. CASE Logout(b)
      <4> SUFFICES ASSUME NEW c \in Browser, cookie'[c] > 0, session'[c] # NoSession
                   PROVE  cookie'[c] + session'[c].idle <= IdleLimit
        BY DEF CookieEndsFirst
      <4>1. cookie'[c] = cookie[c] /\ session'[c] = session[c]
        BY <3>2 DEF Logout, TypeOK
      <4> QED
        BY <4>1 DEF CookieEndsFirst
    <3> QED
      BY <2>2, <3>1, <3>2
  <2>3. ASSUME NEW b \in Browser, NEW u \in LoginId,
               WrongPassword(b, u) \/ DeleteUser(b, u) \/ ResetPassword(b, u)
        PROVE  CookieEndsFirst'
    BY <2>3, EndsFirstAttached DEF WrongPassword, DeleteUser, ResetPassword, EndSessions
  <2>4. ASSUME NEW b \in Browser, NEW u \in LoginId, NEW role \in Role, NEW active \in BOOLEAN,
               CreateUser(b, u, role, active) \/ UpdateUser(b, u, role, active)
        PROVE  CookieEndsFirst'
    BY <2>4, EndsFirstAttached DEF CreateUser, UpdateUser
  <2>5. CASE Start \/ Stop \/ UNCHANGED vars
    BY <2>1, <2>5 DEF Start, Stop, vars
  <2> QED
    BY <2>2, <2>3, <2>4, <2>5, EndsFirstTick, EndsFirstLogin DEF Next
<1> QED
  BY <1>1, <1>2, Invariance, PTL DEF Spec
=============================================================================
