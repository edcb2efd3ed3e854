---------------------------- MODULE AccountsProofs ----------------------------
(***************************************************************************)
(* Proofs about the auth plugin, for every number of users, addresses,     *)
(* linked accounts and concurrent requests: its accounts (Accounts), its   *)
(* rules (Grants), and the black list of its tokens (Tokens), for every    *)
(* length of a second and every life time.                                 *)
(***************************************************************************)
EXTENDS Accounts, Grants, Tokens, FiniteSetTheorems, SequenceTheorems, TLAPS

USE NothingIsNoRow, NothingIsNoData, MaxLoginsIsNat

(* What a request holds is still true of the tables when it flushes: the   *)
(* row it has read is there, and the counter it has read is not above the  *)
(* history.  The tables are parameters, so that it can be said of the next *)
(* state of them.                                                          *)
JobHolds(j, users, logins) ==
  /\ j.op \in {"login", "wrong", "forgot", "reset", "change"} => users[j.uid] # Nothing
  /\ j.op = "login" => j.row.loginCount <= logins[j.uid]
  /\ j.op \in {"register", "callback", "social"} => j.row.loginCount = 0

CountInv ==
  /\ AccTypeOK
  /\ \A r \in Requests : JobHolds(job[r], user, success)
  /\ LoginsCounted

LEMMA UserShape ==
  ASSUME NEW x \in User
  PROVE  /\ x.email \in Emails /\ x.password \in Passwords
         /\ x.resetToken \in ResetTokens \cup {Nothing} /\ x.resetLive \in BOOLEAN
         /\ x.requirePasswordSetup \in BOOLEAN
         /\ x.loginCount \in 0 .. MaxLogins /\ x.loginCount \in Nat
         /\ x # Nothing
BY DEF User

LEMMA RowsRead ==
  ASSUME AccTypeOK, NEW u \in Accounts
  PROVE  u \in UserIds /\ user[u] \in User /\ user[u] # Nothing
BY DEF AccTypeOK, Accounts

(* What a request holds, by the op it has.                                 *)
LEMMA JobShape ==
  ASSUME NEW j \in Job
  PROVE  /\ j.op \in {"login", "wrong", "forgot", "reset", "change"} => j.uid \in UserIds
         /\ j.op \in {"login", "register", "callback", "social"} => j.row \in User
         /\ j.op = "forgot" => j.token \in ResetTokens
         /\ j.op \in {"reset", "change"} => j.password \in Passwords
         /\ j.op = "change" => j.setup \in BOOLEAN
         /\ j.op \in {"withdraw", "bind"} => j.account \in OAuthAccount
         /\ j.op = "unbind" => j.link \in LinkIds
BY DEF Job, Idle

LEMMA IdleIsJob ==
  /\ Idle \in Job /\ Idle.op = "idle"
  /\ \A users, logins : JobHolds(Idle, users, logins)
BY DEF Idle, Job, JobHolds

LEMMA JobMove ==
  ASSUME AccTypeOK, NEW r \in Requests, NEW j \in Job, job' = [job EXCEPT ![r] = j]
  PROVE  /\ job' \in [Requests -> Job]
         /\ job'[r] = j
         /\ \A s \in Requests \ {r} : job'[s] = job[s]
BY Zenon DEF AccTypeOK

-----------------------------------------------------------------------------
(* Rows stay and the history grows, so what the other requests hold goes   *)
(* on to hold.                                                             *)
LEMMA OthersHold ==
  ASSUME CountInv, NEW r \in Requests,
         NEW users \in [UserIds -> User \cup {Nothing}], NEW logins \in LoginHistory,
         \A u \in Accounts : users[u] # Nothing,
         \A u \in UserIds : success[u] <= logins[u]
  PROVE  JobHolds(job[r], users, logins)
<1>1. job[r] \in Job /\ JobHolds(job[r], user, success)
  BY DEF CountInv, AccTypeOK
<1>2. success \in LoginHistory
  BY DEF CountInv, AccTypeOK
<1> DEFINE j == job[r]
<1>3. CASE j.op = "login"
  <2>1. j.uid \in UserIds /\ j.row.loginCount \in Nat
    BY <1>1, <1>3, JobShape, UserShape
  <2>2. success[j.uid] \in Nat /\ logins[j.uid] \in Nat
    BY <1>2, <2>1 DEF LoginHistory
  <2> QED
    BY <1>1, <1>3, <2>1, <2>2 DEF JobHolds, Accounts
<1>4. CASE j.op # "login"
  BY <1>1, <1>4, JobShape DEF JobHolds, Accounts
<1> QED
  BY <1>3, <1>4

(* A request begins: it has read, and written nothing.                     *)
LEMMA BeginStep ==
  ASSUME CountInv, NEW r \in Requests, NEW j \in Job, Start(r, j), JobHolds(j, user, success),
         UNCHANGED <<user, link, success, failure>>, raced' \in SUBSET UserIds
  PROVE  CountInv'
<1>1. /\ job' \in [Requests -> Job] /\ job'[r] = j
      /\ \A s \in Requests \ {r} : job'[s] = job[s]
  BY JobMove DEF Start, CountInv
<1>2. AccTypeOK'
  BY <1>1 DEF CountInv, AccTypeOK
<1>3. \A s \in Requests : JobHolds(job'[s], user', success')
  BY <1>1 DEF CountInv
<1>4. LoginsCounted'
  BY DEF CountInv, LoginsCounted, Accounts
<1> QED
  BY <1>2, <1>3, <1>4 DEF CountInv

(* A request, or the clock, writes one row of the table user.              *)
LEMMA WriteStep ==
  ASSUME CountInv, NEW u \in UserIds, NEW x \in User, user' = [user EXCEPT ![u] = x],
         success' \in LoginHistory, \A v \in UserIds : success[v] <= success'[v],
         x.loginCount <= success'[u],
         failure' \in LoginHistory, UNCHANGED <<link, raced>>,
         job' \in [Requests -> Job],
         \A s \in Requests : job'[s] = job[s] \/ JobHolds(job'[s], user', success')
  PROVE  CountInv'
<1>1. /\ user' \in [UserIds -> User \cup {Nothing}]
      /\ user'[u] = x /\ x # Nothing
      /\ \A v \in UserIds \ {u} : user'[v] = user[v]
  BY UserShape DEF CountInv, AccTypeOK
<1>2. AccTypeOK'
  BY <1>1 DEF CountInv, AccTypeOK
<1>3. \A s \in Requests : JobHolds(job'[s], user', success')
  <2>1. \A v \in Accounts : user'[v] # Nothing
    BY <1>1 DEF Accounts
  <2>2. ASSUME NEW s \in Requests
        PROVE  JobHolds(job'[s], user', success')
    <3>1. JobHolds(job[s], user', success')
      BY <1>1, <2>1, OthersHold
    <3>2. job'[s] = job[s] \/ JobHolds(job'[s], user', success')
      OBVIOUS
    <3> QED
      BY <3>1, <3>2, Zenon
  <2> QED
    BY <2>2
<1>4. LoginsCounted'
  <2> SUFFICES ASSUME NEW v \in UserIds, user'[v] # Nothing
               PROVE  user'[v].loginCount <= success'[v]
    BY DEF LoginsCounted, Accounts
  <2>1. CASE v = u
    BY <1>1, <2>1
  <2>2. CASE v # u
    <3>1. user'[v] = user[v] /\ v \in Accounts
      BY <1>1, <2>2 DEF Accounts
    <3>2. user[v].loginCount <= success[v] /\ user[v].loginCount \in Nat
      BY <3>1, RowsRead, UserShape DEF CountInv, LoginsCounted
    <3>3. success[v] \in Nat /\ success'[v] \in Nat
      <4>1. success \in [UserIds -> 0 .. MaxLogins] /\ success' \in [UserIds -> 0 .. MaxLogins]
        BY DEF CountInv, AccTypeOK, LoginHistory
      <4> QED
        BY <4>1
    <3> QED
      BY <3>1, <3>2, <3>3
  <2> QED
    BY <2>1, <2>2
<1> QED
  BY <1>2, <1>3, <1>4 DEF CountInv

(* A request ends and leaves the table user and login_history's successes  *)
(* as they are.                                                            *)
LEMMA EndStep ==
  ASSUME CountInv, NEW r \in Requests, NEW j \in Job, job' = [job EXCEPT ![r] = j],
         JobHolds(j, user, success),
         UNCHANGED <<user, success, raced>>,
         failure' \in LoginHistory, link' \in [LinkIds -> OAuthAccount \cup {Nothing}]
  PROVE  CountInv'
<1>1. /\ job' \in [Requests -> Job] /\ job'[r] = j
      /\ \A s \in Requests \ {r} : job'[s] = job[s]
  BY JobMove DEF CountInv
<1>2. AccTypeOK'
  BY <1>1 DEF CountInv, AccTypeOK
<1>3. \A s \in Requests : JobHolds(job'[s], user', success')
  BY <1>1 DEF CountInv
<1>4. LoginsCounted'
  BY DEF CountInv, LoginsCounted, Accounts
<1> QED
  BY <1>2, <1>3, <1>4 DEF CountInv
-----------------------------------------------------------------------------
(* The steps that begin an operation.                                      *)
LEMMA LoginBegins ==
  ASSUME CountInv, NEW r \in Requests, NEW u \in Accounts, Start(r, LoginOf(u, user[u])),
         UNCHANGED <<user, link, success, failure, raced>>
  PROVE  CountInv'
<1> DEFINE j == LoginOf(u, user[u])
<1>1. u \in UserIds /\ user[u] \in User /\ user[u] # Nothing
  BY RowsRead DEF CountInv
<1>2. user[u].loginCount <= success[u]
  BY DEF CountInv, LoginsCounted
<1>3. j \in Job /\ JobHolds(j, user, success)
  BY <1>1, <1>2 DEF LoginOf, Job, JobHolds
<1>4. raced' \in SUBSET UserIds
  BY DEF CountInv, AccTypeOK
<1> HIDE DEF j
<1> QED
  BY <1>3, <1>4, BeginStep DEF j

LEMMA BeginsKeepsCount ==
  ASSUME CountInv, NEW r \in Requests, Begins(r)
  PROVE  CountInv'
<1>1. raced \in SUBSET UserIds
  BY DEF CountInv, AccTypeOK
<1>2. ASSUME NEW dto \in LoginDto, Login(r, dto)
      PROVE  CountInv'
  <2>1. PICK u \in Accounts :
          \/ Start(r, LoginOf(u, user[u]))
          \/ Start(r, [op |-> "wrong", uid |-> u])
    BY <1>2 DEF Login
  <2>2. [op |-> "wrong", uid |-> u] \in Job
        /\ JobHolds([op |-> "wrong", uid |-> u], user, success)
    BY RowsRead DEF Job, JobHolds, CountInv
  <2>3. UNCHANGED <<user, link, success, failure, raced>>
    BY <1>2 DEF Login, Keeps
  <2> QED
    BY <1>1, <2>1, <2>2, <2>3, LoginBegins, BeginStep
<1>3. ASSUME NEW op \in {"register", "callback", "social"}, NEW e \in Emails, NEW p \in Passwords,
             NEW s \in BOOLEAN, Start(r, [op |-> op, row |-> NewUser(e, p, s)]),
             UNCHANGED <<user, link, success, failure, raced>>
      PROVE  CountInv'
  <2> DEFINE j == [op |-> op, row |-> NewUser(e, p, s)]
  <2>1. NewUser(e, p, s) \in User /\ NewUser(e, p, s).loginCount = 0
    BY DEF NewUser, User
  <2>2. j \in Job /\ j.op = op /\ j.row.loginCount = 0
    BY <2>1 DEF Job
  <2>3. JobHolds(j, user, success)
    BY <2>2 DEF JobHolds
  <2> HIDE DEF j
  <2> QED
    BY <1>1, <1>3, <2>2, <2>3, BeginStep DEF j
<1>4. ASSUME NEW dto \in RegisterDto, Register(r, dto)
      PROVE  CountInv'
  BY <1>3, <1>4 DEF Register, RegisterDto, Keeps
<1>5. ASSUME NEW e \in Emails, NEW p \in Passwords, HandleOAuthCallback(r, e, p)
      PROVE  CountInv'
  BY <1>3, <1>5 DEF HandleOAuthCallback, OAuthUser, Keeps
<1>6. ASSUME NEW e \in Emails, NEW p \in Passwords, ValidateOAuthLoginEmail(r, e, p)
      PROVE  CountInv'
  BY <1>3, <1>6, LoginBegins DEF ValidateOAuthLoginEmail, OAuthUser, Keeps
<1>7. ASSUME NEW dto \in ForgotPasswordDto, NEW t \in ResetTokens, ForgotPassword(r, dto, t)
      PROVE  CountInv'
  <2>1. PICK u \in Accounts : Start(r, [op |-> "forgot", uid |-> u, token |-> t])
    BY <1>7 DEF ForgotPassword
  <2>2. [op |-> "forgot", uid |-> u, token |-> t] \in Job
        /\ JobHolds([op |-> "forgot", uid |-> u, token |-> t], user, success)
    BY RowsRead DEF Job, JobHolds, CountInv
  <2> QED
    BY <1>1, <1>7, <2>1, <2>2, BeginStep DEF ForgotPassword, Keeps
<1>8. ASSUME NEW dto \in ResetPasswordDto, ResetPassword(r, dto)
      PROVE  CountInv'
  <2>1. PICK u \in Accounts :
          Start(r, [op |-> "reset", uid |-> u, password |-> dto.newPassword])
    BY <1>8 DEF ResetPassword
  <2>2. dto.newPassword \in Passwords
    BY DEF ResetPasswordDto
  <2>3. [op |-> "reset", uid |-> u, password |-> dto.newPassword] \in Job
        /\ JobHolds([op |-> "reset", uid |-> u, password |-> dto.newPassword], user, success)
    BY <2>2, RowsRead DEF Job, JobHolds, CountInv
  <2> QED
    BY <1>1, <1>8, <2>1, <2>3, BeginStep DEF ResetPassword, Keeps
<1>9. ASSUME NEW u \in UserIds, NEW dto \in ChangePasswordDto, ChangePassword(r, u, dto)
      PROVE  CountInv'
  <2> DEFINE j == [op |-> "change", uid |-> u, password |-> dto.newPassword,
                   setup |-> user[u].requirePasswordSetup]
  <2>1. dto.newPassword \in Passwords
    BY DEF ChangePasswordDto
  <2>2. user[u] # Nothing /\ user[u].requirePasswordSetup \in BOOLEAN
    BY <1>9, RowsRead, UserShape DEF ChangePassword, CountInv
  <2>3. j \in Job /\ JobHolds(j, user, success)
    BY <2>1, <2>2 DEF Job, JobHolds
  <2>4. Start(r, j)
    BY <1>9 DEF ChangePassword
  <2> HIDE DEF j
  <2> QED
    BY <1>1, <1>9, <2>3, <2>4, BeginStep DEF ChangePassword, Keeps
<1>10. ASSUME NEW u \in UserIds, NEW dto \in BindOAuthAccountDto, BindOAuthAccount(r, u, dto)
       PROVE  CountInv'
  <2> DEFINE j == [op |-> IF dto.isPrimary THEN "withdraw" ELSE "bind",
                   account |-> [userId |-> u, identity |-> dto.identity,
                                isPrimary |-> dto.isPrimary]]
  <2>1. [userId |-> u, identity |-> dto.identity, isPrimary |-> dto.isPrimary] \in OAuthAccount
    BY DEF BindOAuthAccountDto, OAuthAccount
  <2>2. j \in Job /\ j.op \in {"withdraw", "bind"}
    BY <2>1 DEF Job
  <2>3. JobHolds(j, user, success)
    BY <2>2 DEF JobHolds
  <2>4. Start(r, j) /\ UNCHANGED <<user, link, success, failure>>
    BY <1>10 DEF BindOAuthAccount, Keeps
  <2>5. raced' \in SUBSET UserIds
    BY <1>1, <1>10 DEF BindOAuthAccount
  <2> HIDE DEF j
  <2> QED
    BY <2>2, <2>3, <2>4, <2>5, BeginStep
<1>11. ASSUME NEW u \in UserIds, NEW dto \in UnbindOAuthAccountDto, UnbindOAuthAccount(r, u, dto)
       PROVE  CountInv'
  <2>1. PICK k \in Links : Start(r, [op |-> "unbind", link |-> k])
    BY <1>11 DEF UnbindOAuthAccount
  <2>2. [op |-> "unbind", link |-> k] \in Job
        /\ JobHolds([op |-> "unbind", link |-> k], user, success)
    BY DEF Job, JobHolds, Links
  <2> QED
    BY <1>1, <1>11, <2>1, <2>2, BeginStep DEF UnbindOAuthAccount, Keeps
<1> QED
  BY <1>2, <1>4, <1>5, <1>6, <1>7, <1>8, <1>9, <1>10, <1>11
     DEF Begins, AuthController, UnifiedOAuthCallbackController

-----------------------------------------------------------------------------
(* The writes to the table user, each as one row that becomes another row; *)
(* RowWritten is the step with the row it writes and the user it writes it *)
(* for.                                                                    *)
RowWritten(u, x) == user' = [user EXCEPT ![u] = x]

LEMMA LoginWrites ==
  ASSUME CountInv, NEW r \in Requests, FlushLogin(r)
  PROVE  \E u \in Accounts, x \in User :
           /\ RowWritten(u, x) /\ x.password = user[u].password
           /\ success' = [success EXCEPT ![u] = @ + 1]
           /\ success[u] < MaxLogins /\ x.loginCount <= success[u] + 1
<1> DEFINE u == job[r].uid
           n == job[r].row.loginCount + 1
           x == [user[u] EXCEPT !.loginCount = n]
<1>1. job[r] \in Job /\ job[r].op = "login" /\ JobHolds(job[r], user, success)
  BY DEF CountInv, AccTypeOK, FlushLogin
<1>2. u \in UserIds /\ job[r].row \in User
  BY <1>1, JobShape
<1>3. user[u] # Nothing /\ job[r].row.loginCount <= success[u]
  BY <1>1 DEF JobHolds
<1>4. u \in Accounts /\ user[u] \in User
  BY <1>2, <1>3, RowsRead DEF Accounts, CountInv
<1>5. success[u] < MaxLogins /\ success' = [success EXCEPT ![u] = @ + 1]
  BY DEF FlushLogin
<1>6. success[u] \in Nat /\ job[r].row.loginCount \in Nat
  BY <1>2, UserShape DEF CountInv, AccTypeOK, LoginHistory
<1>7. n \in 0 .. MaxLogins /\ n <= success[u] + 1
  BY <1>3, <1>5, <1>6
<1>8. RowWritten(u, x)
  BY DEF FlushLogin, RowWritten
<1> HIDE DEF n
<1>9. x \in User /\ x.password = user[u].password /\ x.loginCount = n
  BY <1>4, <1>7 DEF User
<1> HIDE DEF u, x
<1> QED
  BY <1>4, <1>5, <1>7, <1>8, <1>9

LEMMA ForgotWrites ==
  ASSUME CountInv, NEW r \in Requests, FlushForgot(r)
  PROVE  \E u \in Accounts, x \in User :
           /\ RowWritten(u, x) /\ x.password = user[u].password
           /\ x.loginCount = user[u].loginCount
<1> DEFINE u == job[r].uid
           x == [user[u] EXCEPT !.resetToken = job[r].token, !.resetLive = TRUE]
<1>1. job[r] \in Job /\ job[r].op = "forgot" /\ JobHolds(job[r], user, success)
  BY DEF CountInv, AccTypeOK, FlushForgot
<1>2. u \in UserIds /\ job[r].token \in ResetTokens
  BY <1>1, JobShape
<1>3. u \in Accounts /\ user[u] \in User
  BY <1>1, <1>2, RowsRead DEF JobHolds, Accounts, CountInv
<1>4. RowWritten(u, x)
  BY DEF FlushForgot, RowWritten
<1>5. x \in User /\ x.password = user[u].password /\ x.loginCount = user[u].loginCount
  BY <1>2, <1>3 DEF User
<1> HIDE DEF u, x
<1> QED
  BY <1>3, <1>4, <1>5

LEMMA ExpiryWrites ==
  ASSUME CountInv, NEW u \in UserIds, ResetTokenExpires(u)
  PROVE  /\ u \in Accounts
         /\ \E x \in User :
              /\ RowWritten(u, x) /\ x.password = user[u].password
              /\ x.loginCount = user[u].loginCount
<1> DEFINE x == [user[u] EXCEPT !.resetLive = FALSE]
<1>1. u \in Accounts /\ user[u] \in User
  BY RowsRead DEF ResetTokenExpires, Accounts, CountInv
<1>2. RowWritten(u, x)
  BY DEF ResetTokenExpires, RowWritten
<1>3. x \in User /\ x.password = user[u].password /\ x.loginCount = user[u].loginCount
  BY <1>1 DEF User
<1> HIDE DEF x
<1> QED
  BY <1>1, <1>2, <1>3

LEMMA ResetWrites ==
  ASSUME CountInv, NEW r \in Requests, FlushReset(r)
  PROVE  /\ job[r].uid \in Accounts
         /\ \E x \in User :
              /\ RowWritten(job[r].uid, x) /\ x.password = job[r].password
              /\ x.loginCount = user[job[r].uid].loginCount
<1> DEFINE u == job[r].uid
<1>1. job[r] \in Job /\ job[r].op = "reset" /\ JobHolds(job[r], user, success)
  BY DEF CountInv, AccTypeOK, FlushReset
<1>2. u \in UserIds /\ job[r].password \in Passwords
  BY <1>1, JobShape
<1>3. u \in Accounts /\ user[u] \in User
  BY <1>1, <1>2, RowsRead DEF JobHolds, Accounts, CountInv
<1>4. PICK cleared \in BOOLEAN : RowWritten(u, [user[u] EXCEPT
          !.password = job[r].password,
          !.resetToken = IF cleared THEN Nothing ELSE @,
          !.resetLive = ~cleared /\ @])
  BY DEF FlushReset, RowWritten
<1> DEFINE x == [user[u] EXCEPT
          !.password = job[r].password,
          !.resetToken = IF cleared THEN Nothing ELSE @,
          !.resetLive = ~cleared /\ @]
<1>5. (~cleared /\ user[u].resetLive) \in BOOLEAN
  OBVIOUS
<1>6. x \in User /\ x.password = job[r].password /\ x.loginCount = user[u].loginCount
  BY <1>2, <1>3, <1>5 DEF User
<1> HIDE DEF u, x
<1> QED
  BY <1>3, <1>4, <1>6 DEF u, x

LEMMA ChangeWrites ==
  ASSUME CountInv, NEW r \in Requests, FlushChange(r)
  PROVE  /\ job[r].uid \in Accounts
         /\ \E x \in User :
              /\ RowWritten(job[r].uid, x) /\ x.password = job[r].password
              /\ x.loginCount = user[job[r].uid].loginCount
<1> DEFINE u == job[r].uid
           setup == ~job[r].setup /\ user[u].requirePasswordSetup
           x == [user[u] EXCEPT !.password = job[r].password, !.requirePasswordSetup = setup]
<1>1. job[r] \in Job /\ job[r].op = "change" /\ JobHolds(job[r], user, success)
  BY DEF CountInv, AccTypeOK, FlushChange
<1>2. u \in UserIds /\ job[r].password \in Passwords
  BY <1>1, JobShape
<1>3. u \in Accounts /\ user[u] \in User
  BY <1>1, <1>2, RowsRead DEF JobHolds, Accounts, CountInv
<1>4. RowWritten(u, x)
  BY DEF FlushChange, RowWritten
<1>5. setup \in BOOLEAN
  OBVIOUS
<1> HIDE DEF setup
<1>6. x \in User /\ x.password = job[r].password /\ x.loginCount = user[u].loginCount
  BY <1>2, <1>3, <1>5 DEF User
<1> HIDE DEF u, x
<1> QED
  BY <1>3, <1>4, <1>6 DEF u
LEMMA NewUserWrites ==
  ASSUME CountInv, NEW r \in Requests, NEW u \in UserIds, FlushUser(r, u)
  PROVE  \E x \in User :
           /\ RowWritten(u, x) /\ user[u] = Nothing /\ x.loginCount = 0
           /\ \E j \in {Idle, LoginOf(u, x)} : job' = [job EXCEPT ![r] = j]
<1>1. job[r] \in Job /\ Creates(r) /\ JobHolds(job[r], user, success)
  BY DEF CountInv, AccTypeOK, FlushUser
<1>2. job[r].row \in User /\ job[r].row.loginCount = 0
  BY <1>1, JobShape DEF Creates, JobHolds
<1>3. RowWritten(u, job[r].row) /\ user[u] = Nothing
  BY DEF FlushUser, RowWritten
<1>4. PICK j \in {Idle, LoginOf(u, job[r].row)} : job' = [job EXCEPT ![r] = j]
  BY Zenon DEF FlushUser
<1> QED
  BY <1>2, <1>3, <1>4

(* A flush that writes a row as one of the lemmas above says, and leaves   *)
(* the counter no higher than the history.                                 *)
LEMMA FlushKeepsCount ==
  ASSUME CountInv, NEW r \in Requests, NEW u \in UserIds, NEW x \in User, RowWritten(u, x),
         NEW j \in Job, job' = [job EXCEPT ![r] = j], JobHolds(j, user', success'),
         success' \in LoginHistory, \A v \in UserIds : success[v] <= success'[v],
         x.loginCount <= success'[u],
         UNCHANGED <<link, failure, raced>>
  PROVE  CountInv'
<1>1. /\ job' \in [Requests -> Job] /\ job'[r] = j
      /\ \A s \in Requests \ {r} : job'[s] = job[s]
  BY JobMove DEF CountInv
<1>2. \A s \in Requests : job'[s] = job[s] \/ JobHolds(job'[s], user', success')
  BY <1>1
<1>3. user' = [user EXCEPT ![u] = x]
  BY DEF RowWritten
<1>4. failure' \in LoginHistory
  BY DEF CountInv, AccTypeOK
<1> QED
  BY <1>1, <1>2, <1>3, <1>4, WriteStep

(* As FlushKeepsCount, for a flush that ends the request and leaves the    *)
(* history alone.                                                          *)
LEMMA QuietFlush ==
  ASSUME CountInv, NEW r \in Requests, NEW u \in Accounts, NEW x \in User, RowWritten(u, x),
         x.loginCount = user[u].loginCount, Done(r),
         UNCHANGED <<link, success, failure, raced>>
  PROVE  CountInv'
<1>1. u \in UserIds /\ user[u].loginCount <= success[u]
  BY DEF CountInv, LoginsCounted, Accounts
<1>2. success \in LoginHistory /\ \A v \in UserIds : success[v] \in Nat
  BY DEF CountInv, AccTypeOK, LoginHistory
<1>3. success' \in LoginHistory /\ (\A v \in UserIds : success[v] <= success'[v])
      /\ x.loginCount <= success'[u]
  BY <1>1, <1>2
<1>4. JobHolds(Idle, user', success') /\ Idle \in Job
  BY IdleIsJob
<1> QED
  BY <1>1, <1>3, <1>4, FlushKeepsCount DEF Done

LEMMA FlushesKeepsCount ==
  ASSUME CountInv, NEW r \in Requests, Flushes(r)
  PROVE  CountInv'
<1>1. CASE FlushLogin(r)
  <2>1. PICK u \in Accounts, x \in User :
          /\ RowWritten(u, x)
          /\ success' = [success EXCEPT ![u] = @ + 1]
          /\ success[u] < MaxLogins /\ x.loginCount <= success[u] + 1
    BY <1>1, LoginWrites
  <2>2. u \in UserIds /\ success \in [UserIds -> 0 .. MaxLogins]
    BY DEF Accounts, CountInv, AccTypeOK, LoginHistory
  <2>3. success[u] + 1 \in 0 .. MaxLogins
    BY <2>1, <2>2
  <2>4. success' \in LoginHistory
    BY <2>1, <2>2, <2>3 DEF LoginHistory
  <2>5. success'[u] = success[u] + 1 /\ \A v \in UserIds : success[v] <= success'[v]
    BY <2>1, <2>2
  <2>6. JobHolds(Idle, user', success') /\ Idle \in Job
    BY IdleIsJob
  <2>7. job' = [job EXCEPT ![r] = Idle] /\ UNCHANGED <<link, failure, raced>>
    BY <1>1 DEF FlushLogin, Done, Keeps
  <2>8. x.loginCount <= success'[u]
    BY <2>1, <2>5
  <2> QED
    BY <2>1, <2>2, <2>4, <2>5, <2>6, <2>7, <2>8, FlushKeepsCount
<1>2. CASE FlushWrong(r)
  <2>1. /\ job' = [job EXCEPT ![r] = Idle] /\ UNCHANGED <<user, link, success, raced>>
        /\ failure[job[r].uid] < MaxLogins
        /\ failure' = [failure EXCEPT ![job[r].uid] = @ + 1]
    BY <1>2 DEF FlushWrong, Done, Keeps
  <2>2. failure \in [UserIds -> 0 .. MaxLogins] /\ job[r].uid \in UserIds
    BY <1>2, JobShape DEF FlushWrong, CountInv, AccTypeOK, LoginHistory
  <2>3. failure[job[r].uid] + 1 \in 0 .. MaxLogins
    BY <2>1, <2>2
  <2>4. failure' \in LoginHistory
    BY <2>1, <2>2, <2>3 DEF LoginHistory
  <2>5. link' \in [LinkIds -> OAuthAccount \cup {Nothing}]
    BY <2>1 DEF CountInv, AccTypeOK
  <2> QED
    BY <2>1, <2>4, <2>5, IdleIsJob, EndStep
<1>3. ASSUME NEW u \in UserIds, FlushUser(r, u)
      PROVE  CountInv'
  <2>1. PICK x \in User :
          /\ RowWritten(u, x) /\ x.loginCount = 0
          /\ \E j \in {Idle, LoginOf(u, x)} : job' = [job EXCEPT ![r] = j]
    BY <1>3, NewUserWrites
  <2>2. PICK j \in {Idle, LoginOf(u, x)} : job' = [job EXCEPT ![r] = j]
    BY <2>1
  <2>3. UNCHANGED <<link, success, failure, raced>>
    BY <1>3 DEF FlushUser, Keeps
  <2>4. success \in LoginHistory /\ \A v \in UserIds : success[v] \in Nat
    BY DEF CountInv, AccTypeOK, LoginHistory
  <2>5. user'[u] = x /\ x # Nothing
    BY <2>1, UserShape DEF RowWritten, CountInv, AccTypeOK
  <2>6. LoginOf(u, x) \in Job /\ JobHolds(LoginOf(u, x), user', success')
    BY <2>1, <2>3, <2>4, <2>5 DEF LoginOf, Job, JobHolds
  <2>7. j \in Job /\ JobHolds(j, user', success')
    BY <2>2, <2>6, IdleIsJob
  <2>8. success' \in LoginHistory /\ (\A v \in UserIds : success[v] <= success'[v])
        /\ x.loginCount <= success'[u]
    BY <2>1, <2>3, <2>4
  <2> QED
    BY <2>1, <2>2, <2>3, <2>7, <2>8, FlushKeepsCount
<1>4. CASE FlushForgot(r)
  BY <1>4, ForgotWrites, QuietFlush DEF FlushForgot, Keeps
<1>5. CASE FlushReset(r)
  BY <1>5, ResetWrites, QuietFlush DEF FlushReset, Keeps
<1>6. CASE FlushChange(r)
  BY <1>6, ChangeWrites, QuietFlush DEF FlushChange, Keeps
<1>7. CASE FlushUserFails(r) \/ FlushFails(r) \/ FlushUnbind(r) \/ (\E k \in LinkIds : FlushBind(r, k))
  <2>1. /\ job' = [job EXCEPT ![r] = Idle] /\ UNCHANGED <<user, success, failure, raced>>
    BY <1>7 DEF FlushUserFails, FlushFails, FlushUnbind, FlushBind, Done, Keeps
  <2>2. job[r] \in Job /\ link \in [LinkIds -> OAuthAccount \cup {Nothing}]
    BY DEF CountInv, AccTypeOK
  <2>3. link' \in [LinkIds -> OAuthAccount \cup {Nothing}]
    BY <1>7, <2>2, JobShape DEF FlushUserFails, FlushFails, FlushUnbind, FlushBind, Keeps
  <2>4. failure' \in LoginHistory
    BY <2>1 DEF CountInv, AccTypeOK
  <2> QED
    BY <2>1, <2>3, <2>4, IdleIsJob, EndStep
<1>8. CASE WithdrawPrimary(r)
  <2> DEFINE j == [op |-> "bind", account |-> job[r].account]
  <2>1. job[r] \in Job /\ link \in [LinkIds -> OAuthAccount \cup {Nothing}]
    BY DEF CountInv, AccTypeOK
  <2>2. j \in Job /\ JobHolds(j, user, success)
    BY <1>8, <2>1, JobShape DEF WithdrawPrimary, Job, JobHolds
  <2>3. job' = [job EXCEPT ![r] = j] /\ UNCHANGED <<user, success, failure, raced>>
    BY <1>8, Zenon DEF WithdrawPrimary, Keeps
  <2>4. link' \in [LinkIds -> OAuthAccount \cup {Nothing}]
    BY <1>8, <2>1 DEF WithdrawPrimary, OAuthAccount
  <2>5. failure' \in LoginHistory
    BY <2>3 DEF CountInv, AccTypeOK
  <2> HIDE DEF j
  <2> QED
    BY <2>2, <2>3, <2>4, <2>5, EndStep
<1> QED
  BY <1>1, <1>2, <1>3, <1>4, <1>5, <1>6, <1>7, <1>8 DEF Flushes

LEMMA ExpiryKeepsCount ==
  ASSUME CountInv, NEW u \in UserIds, ResetTokenExpires(u)
  PROVE  CountInv'
<1>1. PICK x \in User : RowWritten(u, x) /\ x.loginCount = user[u].loginCount
  BY ExpiryWrites
<1>2. user[u].loginCount <= success[u] /\ success \in LoginHistory
      /\ \A v \in UserIds : success[v] \in Nat
  BY ExpiryWrites DEF CountInv, LoginsCounted, AccTypeOK, LoginHistory
<1>3. UNCHANGED <<link, success, failure, job, raced>>
  BY DEF ResetTokenExpires, Keeps
<1>4. /\ user' = [user EXCEPT ![u] = x]
      /\ success' \in LoginHistory /\ \A v \in UserIds : success[v] <= success'[v]
      /\ x.loginCount <= success'[u]
  BY <1>1, <1>2, <1>3 DEF RowWritten
<1>5. /\ failure' \in LoginHistory /\ job' \in [Requests -> Job]
      /\ \A s \in Requests : job'[s] = job[s]
  BY <1>3 DEF CountInv, AccTypeOK
<1> QED
  BY <1>3, <1>4, <1>5, WriteStep

LEMMA CountInvariant == AccSpec => []CountInv
<1>1. AccInit => CountInv
  BY IdleIsJob DEF AccInit, CountInv, AccTypeOK, LoginHistory, LoginsCounted, Accounts
<1>2. CountInv /\ [AccNext]_accVars => CountInv'
  <2> SUFFICES ASSUME CountInv, [AccNext]_accVars PROVE CountInv'
    OBVIOUS
  <2>1. CASE UNCHANGED accVars
    BY <2>1 DEF accVars, CountInv, AccTypeOK, LoginsCounted, Accounts
  <2> QED
    BY <2>1, BeginsKeepsCount, FlushesKeepsCount, ExpiryKeepsCount DEF AccNext
<1> QED
  BY <1>1, <1>2, PTL DEF AccSpec

(* The tables of the accounts and what every request holds of them keep    *)
(* their types, however many requests overlap (auth.service.ts).           *)
THEOREM AccountsTypeCorrect == AccSpec => []AccTypeOK
BY CountInvariant, PTL DEF CountInv

(* The counter of a user never runs ahead of the successful logins in the  *)
(* history, however the logins overlap.                                    *)
THEOREM LoginsAreCounted == AccSpec => []LoginsCounted
BY CountInvariant, PTL DEF CountInv

(* A password that was there is replaced only by the flush of a reset or a *)
(* change, with the password that request was given.                       *)
THEOREM NoPasswordComesBack == AccSpec => NoPasswordRevived
<1> DEFINE Step ==
      \A u \in UserIds :
        user[u] # Nothing /\ user'[u].password # user[u].password =>
          \E r \in Requests :
            /\ job[r].op \in {"reset", "change"}
            /\ job[r].uid = u
            /\ job'[r] = Idle
            /\ user'[u].password = job[r].password
<1>1. CountInv /\ [AccNext]_accVars => [Step]_accVars
  <2> SUFFICES ASSUME CountInv, AccNext, NEW v \in UserIds,
                      user[v] # Nothing, user'[v].password # user[v].password
               PROVE  \E r \in Requests :
                        /\ job[r].op \in {"reset", "change"}
                        /\ job[r].uid = v
                        /\ job'[r] = Idle
                        /\ user'[v].password = job[r].password
    BY Zenon
  <2>1. /\ user \in [UserIds -> User \cup {Nothing}] /\ job \in [Requests -> Job]
    BY DEF CountInv, AccTypeOK
  <2>2. user' # user
    OBVIOUS
  <2>3. ASSUME NEW u \in UserIds, NEW x \in User, RowWritten(u, x)
        PROVE  u = v /\ user'[v] = x
    BY <2>1, <2>3 DEF RowWritten
  <2>4. ASSUME NEW r \in Requests, FlushReset(r) \/ FlushChange(r)
        PROVE  /\ job[r].op \in {"reset", "change"} /\ job[r].uid = v /\ job'[r] = Idle
               /\ user'[v].password = job[r].password
    <3>1. job[r].uid \in UserIds
          /\ \E x \in User : RowWritten(job[r].uid, x) /\ x.password = job[r].password
      BY <2>4, ResetWrites, ChangeWrites DEF Accounts
    <3>2. job[r].uid = v /\ user'[v].password = job[r].password
      BY <2>3, <3>1
    <3>3. job[r].op \in {"reset", "change"} /\ job'[r] = Idle
      BY <2>1, <2>4, Zenon DEF FlushReset, FlushChange, Done
    <3> QED
      BY <3>2, <3>3
  <2>5. \A r \in Requests : ~FlushLogin(r) /\ ~FlushForgot(r)
    BY <2>3, LoginWrites, ForgotWrites DEF Accounts
  <2>6. \A r \in Requests, u \in UserIds : ~FlushUser(r, u)
    BY <2>3, NewUserWrites
  <2>7. \A u \in UserIds : ~ResetTokenExpires(u)
    BY <2>3, ExpiryWrites
  <2>8. \A r \in Requests : Begins(r) => user' = user
    BY DEF Begins, AuthController, UnifiedOAuthCallbackController, Login, Register, ForgotPassword,
           ResetPassword, ChangePassword, BindOAuthAccount, UnbindOAuthAccount,
           HandleOAuthCallback, ValidateOAuthLoginEmail, Keeps
  <2>9. \A r \in Requests, k \in LinkIds :
          FlushWrong(r) \/ FlushUserFails(r) \/ WithdrawPrimary(r) \/ FlushBind(r, k)
            \/ FlushUnbind(r) \/ FlushFails(r) => user' = user
    BY DEF FlushWrong, FlushUserFails, WithdrawPrimary, FlushBind, FlushUnbind, FlushFails, Keeps
  <2>10. PICK r \in Requests : FlushReset(r) \/ FlushChange(r)
    <3>1. PICK r \in Requests : Flushes(r)
      BY <2>2, <2>7, <2>8 DEF AccNext
    <3>2. FlushReset(r) \/ FlushChange(r) \/ user' = user
      BY <2>5, <2>6, <2>9, <3>1, Zenon DEF Flushes, FlushWrong, FlushUserFails, WithdrawPrimary,
         FlushBind, FlushUnbind, FlushFails, Keeps
    <3> QED
      BY <2>2, <3>1, <3>2
  <2> QED
    BY <2>4, <2>10
<1>2. QED
  BY <1>1, CountInvariant, PTL DEF AccSpec, NoPasswordRevived
-----------------------------------------------------------------------------
(* A user whose binds never overlapped: at most one bind of his is under   *)
(* way, at most one link of his is primary, and none is once a bind that   *)
(* wants to be primary has withdrawn the others.                           *)
PrimaryOf(k, u) == k \in Links /\ link[k].userId = u /\ link[k].isPrimary

PrimaryInv ==
  \A u \in UserIds \ raced :
    /\ \A r, s \in BindsOf(u) : r = s
    /\ \A r \in BindsOf(u) :
         job[r].op = "bind" /\ job[r].account.isPrimary =>
           \A k \in LinkIds : ~PrimaryOf(k, u)
    /\ \A j, k \in LinkIds : PrimaryOf(j, u) /\ PrimaryOf(k, u) => j = k

Binding == {"withdraw", "bind"}

(* Links go, and requests that are not binding do what they like.          *)
LEMMA LinksShrink ==
  ASSUME PrimaryInv, raced' = raced,
         \A s \in Requests : job'[s].op \in Binding => job'[s] = job[s],
         \A k \in LinkIds : link'[k] = link[k] \/ link'[k] = Nothing
  PROVE  PrimaryInv'
<1>1. \A u \in UserIds, s \in Requests :
        s \in BindsOf(u)' => s \in BindsOf(u) /\ job'[s] = job[s]
  BY DEF BindsOf, Binding
<1>2. \A u \in UserIds, k \in LinkIds : PrimaryOf(k, u)' => PrimaryOf(k, u)
  BY DEF PrimaryOf, Links
<1>3. ASSUME NEW u \in UserIds \ raced'
      PROVE  /\ \A r, s \in BindsOf(u)' : r = s
             /\ \A r \in BindsOf(u)' :
                  job'[r].op = "bind" /\ job'[r].account.isPrimary =>
                    \A k \in LinkIds : ~PrimaryOf(k, u)'
             /\ \A j, k \in LinkIds : PrimaryOf(j, u)' /\ PrimaryOf(k, u)' => j = k
  <2>1. /\ \A r, s \in BindsOf(u) : r = s
        /\ \A r \in BindsOf(u) :
             job[r].op = "bind" /\ job[r].account.isPrimary =>
               \A k \in LinkIds : ~PrimaryOf(k, u)
        /\ \A j, k \in LinkIds : PrimaryOf(j, u) /\ PrimaryOf(k, u) => j = k
    BY <1>3 DEF PrimaryInv
  <2>2. BindsOf(u)' \subseteq Requests
    BY DEF BindsOf
  <2>3. \A r \in BindsOf(u)' : r \in BindsOf(u) /\ job'[r] = job[r]
    BY <1>1, <2>2
  <2> QED
    BY <1>2, <2>1, <2>3
<1> QED
  BY <1>3 DEF PrimaryInv

(* A bind begins, of a user none of whose binds is under way.              *)
LEMMA BindBegins ==
  ASSUME CountInv, PrimaryInv, NEW r \in Requests, NEW u \in UserIds,
         NEW dto \in BindOAuthAccountDto, BindOAuthAccount(r, u, dto)
  PROVE  PrimaryInv'
<1> DEFINE j == [op |-> IF dto.isPrimary THEN "withdraw" ELSE "bind",
                 account |-> [userId |-> u, identity |-> dto.identity,
                              isPrimary |-> dto.isPrimary]]
<1>1. j \in Job
  BY DEF BindOAuthAccountDto, OAuthAccount, Job
<1>2. /\ j.op \in Binding /\ j.account.userId = u
      /\ ~(j.op = "bind" /\ j.account.isPrimary)
  BY DEF Binding
<1>3. job' = [job EXCEPT ![r] = j] /\ link' = link
  BY DEF BindOAuthAccount, Start, Keeps
<1>4. raced' = IF BindsOf(u) # {} THEN raced \cup {u} ELSE raced
  BY DEF BindOAuthAccount
<1> HIDE DEF j
<1>5. job'[r] = j /\ \A s \in Requests \ {r} : job'[s] = job[s]
  BY <1>1, <1>3, JobMove DEF CountInv
<1>6. \A k \in LinkIds, v \in UserIds : PrimaryOf(k, v)' <=> PrimaryOf(k, v)
  BY <1>3 DEF PrimaryOf, Links
<1>7. ASSUME NEW v \in UserIds \ raced'
      PROVE  /\ v \notin raced
             /\ \A s, t \in BindsOf(v)' : s = t
             /\ \A s \in BindsOf(v)' :
                  job'[s].op = "bind" /\ job'[s].account.isPrimary =>
                    s \in BindsOf(v) /\ job'[s] = job[s]
  <2>1. v \notin raced /\ (v = u => BindsOf(u) = {})
    BY <1>4, <1>7
  <2>2. \A s, t \in BindsOf(v) : s = t
    BY <2>1 DEF PrimaryInv
  <2>3. CASE v = u
    <3>1. \A s \in BindsOf(v)' : s = r
      BY <1>5, <2>1, <2>3 DEF BindsOf
    <3> QED
      BY <1>2, <1>5, <2>1, <3>1
  <2>4. CASE v # u
    <3>1. \A s \in BindsOf(v)' : s # r /\ s \in BindsOf(v) /\ job'[s] = job[s]
      BY <1>2, <1>5, <2>4 DEF BindsOf
    <3> QED
      BY <2>1, <2>2, <3>1
  <2> QED
    BY <2>3, <2>4
<1> QED
  BY <1>6, <1>7 DEF PrimaryInv

(* The other accounts of the user are no longer primary.                   *)
LEMMA WithdrawKeepsOne ==
  ASSUME CountInv, PrimaryInv, NEW r \in Requests, WithdrawPrimary(r)
  PROVE  PrimaryInv'
<1> PICK w : w = job[r].account.userId
  OBVIOUS
<1> DEFINE j == [op |-> "bind", account |-> job[r].account]
<1>1. /\ link \in [LinkIds -> OAuthAccount \cup {Nothing}] /\ job[r] \in Job
      /\ job[r].op = "withdraw"
  BY DEF CountInv, AccTypeOK, WithdrawPrimary
<1>2. j \in Job /\ j.op = "bind" /\ j.account = job[r].account
  BY <1>1, JobShape DEF Job
<1>3. job' = [job EXCEPT ![r] = j] /\ raced' = raced
  BY Zenon DEF WithdrawPrimary, Keeps
<1> HIDE DEF j
<1>4. job'[r] = j /\ \A s \in Requests \ {r} : job'[s] = job[s]
  BY <1>2, <1>3, JobMove DEF CountInv
<1>5. \A v \in UserIds : BindsOf(v)' = BindsOf(v)
  BY <1>1, <1>2, <1>4 DEF BindsOf
<1>6. \A k \in LinkIds :
        link'[k] = IF link[k] # Nothing /\ link[k].userId = w
                     THEN [link[k] EXCEPT !.isPrimary = FALSE] ELSE link[k]
  BY DEF WithdrawPrimary
<1>7. \A k \in LinkIds : ~PrimaryOf(k, w)'
  BY <1>1, <1>6 DEF PrimaryOf, Links, OAuthAccount
<1>8. \A k \in LinkIds, v \in UserIds : PrimaryOf(k, v)' => PrimaryOf(k, v)
  BY <1>1, <1>6 DEF PrimaryOf, Links, OAuthAccount
<1>9. ASSUME NEW v \in UserIds \ raced'
      PROVE  /\ \A s, t \in BindsOf(v)' : s = t
             /\ \A s \in BindsOf(v)' :
                  job'[s].op = "bind" /\ job'[s].account.isPrimary =>
                    \A k \in LinkIds : ~PrimaryOf(k, v)'
             /\ \A i, k \in LinkIds : PrimaryOf(i, v)' /\ PrimaryOf(k, v)' => i = k
  <2>1. /\ \A s, t \in BindsOf(v) : s = t
        /\ \A s \in BindsOf(v) :
             job[s].op = "bind" /\ job[s].account.isPrimary =>
               \A k \in LinkIds : ~PrimaryOf(k, v)
        /\ \A i, k \in LinkIds : PrimaryOf(i, v) /\ PrimaryOf(k, v) => i = k
    BY <1>3, <1>9 DEF PrimaryInv
  <2>2. CASE v = w
    BY <1>5, <1>7, <2>1, <2>2
  <2>3. CASE v # w
    <3>1. \A s \in BindsOf(v)' : s \in BindsOf(v) /\ job'[s] = job[s]
      BY <1>4, <1>5, <2>3 DEF BindsOf
    <3> QED
      BY <1>8, <2>1, <3>1
  <2> QED
    BY <2>2, <2>3
<1> QED
  BY <1>9 DEF PrimaryInv

(* The new link goes in; if it is primary there was no other.              *)
LEMMA BindKeepsOne ==
  ASSUME CountInv, PrimaryInv, NEW r \in Requests, NEW n \in LinkIds, FlushBind(r, n)
  PROVE  PrimaryInv'
<1> DEFINE a == job[r].account
<1>1. /\ link \in [LinkIds -> OAuthAccount \cup {Nothing}] /\ job[r] \in Job
      /\ job[r].op = "bind" /\ link[n] = Nothing
  BY DEF CountInv, AccTypeOK, FlushBind
<1>2. /\ job' = [job EXCEPT ![r] = Idle] /\ raced' = raced
      /\ link' = [link EXCEPT ![n] = a]
  BY DEF FlushBind, Done, Keeps
<1>3. job'[r] = Idle /\ \A s \in Requests \ {r} : job'[s] = job[s]
  BY <1>2, IdleIsJob, JobMove DEF CountInv
<1>4. link'[n] = a /\ \A k \in LinkIds \ {n} : link'[k] = link[k]
  BY <1>1, <1>2
<1>5. \A v \in UserIds : \A s \in BindsOf(v)' : s # r /\ s \in BindsOf(v) /\ job'[s] = job[s]
  BY <1>3, IdleIsJob DEF BindsOf
<1>6. \A v \in UserIds, k \in LinkIds :
        PrimaryOf(k, v)' =>
          \/ k # n /\ PrimaryOf(k, v)
          \/ k = n /\ a.userId = v /\ a.isPrimary
  BY <1>4 DEF PrimaryOf, Links
<1>7. ASSUME NEW v \in UserIds \ raced'
      PROVE  /\ \A s, t \in BindsOf(v)' : s = t
             /\ \A s \in BindsOf(v)' :
                  job'[s].op = "bind" /\ job'[s].account.isPrimary =>
                    \A k \in LinkIds : ~PrimaryOf(k, v)'
             /\ \A i, k \in LinkIds : PrimaryOf(i, v)' /\ PrimaryOf(k, v)' => i = k
  <2>1. /\ \A s, t \in BindsOf(v) : s = t
        /\ \A s \in BindsOf(v) :
             job[s].op = "bind" /\ job[s].account.isPrimary =>
               \A k \in LinkIds : ~PrimaryOf(k, v)
        /\ \A i, k \in LinkIds : PrimaryOf(i, v) /\ PrimaryOf(k, v) => i = k
    BY <1>2, <1>7 DEF PrimaryInv
  <2>2. CASE a.userId = v
    <3>1. r \in BindsOf(v)
      BY <1>1, <2>2 DEF BindsOf
    <3>2. BindsOf(v)' = {}
      BY <1>5, <2>1, <3>1
    <3>3. a.isPrimary => \A k \in LinkIds : ~PrimaryOf(k, v)
      BY <1>1, <2>1, <3>1
    <3> QED
      BY <1>6, <2>1, <3>2, <3>3
  <2>3. CASE a.userId # v
    BY <1>5, <1>6, <2>1, <2>3
  <2> QED
    BY <2>2, <2>3
<1> QED
  BY <1>7 DEF PrimaryInv

(* Everything else leaves the binds of other requests, and the links that  *)
(* stay, alone.                                                            *)
LEMMA OthersKeepOne ==
  ASSUME CountInv, PrimaryInv, AccNext,
         \A r \in Requests : ~WithdrawPrimary(r),
         \A r \in Requests, k \in LinkIds : ~FlushBind(r, k),
         \A r \in Requests, u \in UserIds, dto \in BindOAuthAccountDto : ~BindOAuthAccount(r, u, dto)
  PROVE  PrimaryInv'
<1>1. ASSUME NEW r \in Requests, NEW j \in Job, j.op \notin Binding, job' = [job EXCEPT ![r] = j],
             raced' = raced, \A k \in LinkIds : link'[k] = link[k] \/ link'[k] = Nothing
      PROVE  PrimaryInv'
  <2>1. job'[r] = j /\ \A s \in Requests \ {r} : job'[s] = job[s]
    BY <1>1, JobMove DEF CountInv
  <2>2. \A s \in Requests : job'[s].op \in Binding => job'[s] = job[s]
    BY <1>1, <2>1
  <2> QED
    BY <1>1, <2>2, LinksShrink
<1>2. CASE \E u \in UserIds : ResetTokenExpires(u)
  BY <1>2, LinksShrink DEF ResetTokenExpires, Keeps
<1>3. ASSUME NEW r \in Requests, Begins(r)
      PROVE  PrimaryInv'
  <2>1. link' = link /\ raced' = raced
    BY <1>3 DEF Begins, AuthController, UnifiedOAuthCallbackController, Login, Register,
           ForgotPassword, ResetPassword, ChangePassword, UnbindOAuthAccount,
           HandleOAuthCallback, ValidateOAuthLoginEmail, Keeps
  <2>2. CountInv'
    BY <1>3, BeginsKeepsCount
  <2>3. \E j : j.op \notin Binding /\ job' = [job EXCEPT ![r] = j]
    BY <1>3 DEF Begins, AuthController, UnifiedOAuthCallbackController, Login, Register,
           ForgotPassword, ResetPassword, ChangePassword, UnbindOAuthAccount,
           HandleOAuthCallback, ValidateOAuthLoginEmail, Start, LoginOf, Binding
  <2>4. PICK j : j.op \notin Binding /\ job' = [job EXCEPT ![r] = j]
    BY <2>3
  <2>5. j \in Job
    BY <2>2, <2>4 DEF CountInv, AccTypeOK
  <2> QED
    BY <1>1, <2>1, <2>4, <2>5
<1>4. ASSUME NEW r \in Requests, Flushes(r)
      PROVE  PrimaryInv'
  <2>1. Idle.op \notin Binding /\ Idle \in Job
    BY IdleIsJob DEF Binding
  <2>2. CASE Done(r) /\ raced' = raced /\ \A k \in LinkIds : link'[k] = link[k] \/ link'[k] = Nothing
    BY <1>1, <2>1, <2>2 DEF Done
  <2>3. CASE \E u \in UserIds : FlushUser(r, u)
    <3>1. PICK u \in UserIds, x \in User :
            \E j \in {Idle, LoginOf(u, x)} : job' = [job EXCEPT ![r] = j]
      BY <2>3, NewUserWrites
    <3>2. PICK j \in {Idle, LoginOf(u, x)} : job' = [job EXCEPT ![r] = j]
      BY <3>1
    <3>3. LoginOf(u, x) \in Job /\ LoginOf(u, x).op \notin Binding
      BY DEF LoginOf, Job, Binding
    <3>4. link' = link /\ raced' = raced
      BY <2>3 DEF FlushUser, Keeps
    <3>5. j \in Job /\ j.op \notin Binding
      BY <2>1, <3>2, <3>3
    <3> QED
      BY <1>1, <3>2, <3>4, <3>5
  <2>4. CASE FlushUnbind(r)
    <3>1. job[r].link \in LinkIds /\ link \in [LinkIds -> OAuthAccount \cup {Nothing}]
      BY <2>4, JobShape DEF FlushUnbind, CountInv, AccTypeOK
    <3>2. \A k \in LinkIds : link'[k] = link[k] \/ link'[k] = Nothing
      BY <2>4, <3>1 DEF FlushUnbind
    <3> QED
      BY <2>2, <2>4, <3>2 DEF FlushUnbind, Keeps
  <2>5. FlushLogin(r) \/ FlushWrong(r) \/ FlushUserFails(r) \/ FlushForgot(r) \/ FlushReset(r)
          \/ FlushChange(r) \/ FlushFails(r) => Done(r) /\ link' = link /\ raced' = raced
    BY DEF FlushLogin, FlushWrong, FlushUserFails, FlushForgot, FlushReset, FlushChange, FlushFails, Keeps
  <2> QED
    BY <1>4, <2>2, <2>3, <2>4, <2>5 DEF Flushes
<1> QED
  BY <1>2, <1>3, <1>4 DEF AccNext

LEMMA PrimaryInvariant == AccSpec => []PrimaryInv
<1>1. AccInit => PrimaryInv
  BY IdleIsJob DEF AccInit, PrimaryInv, PrimaryOf, BindsOf, Links
<1>2. CountInv /\ PrimaryInv /\ [AccNext]_accVars => PrimaryInv'
  <2> SUFFICES ASSUME CountInv, PrimaryInv, [AccNext]_accVars PROVE PrimaryInv'
    OBVIOUS
  <2>1. CASE UNCHANGED accVars
    BY <2>1, LinksShrink DEF accVars
  <2>2. CASE AccNext
    BY <2>2, OthersKeepOne, WithdrawKeepsOne, BindKeepsOne, BindBegins
  <2> QED
    BY <2>1, <2>2
<1> QED
  BY <1>1, <1>2, CountInvariant, PTL DEF AccSpec

(* Of the accounts a user has linked at most one is the primary one, as    *)
(* long as no two binds of that user have overlapped.                      *)
THEOREM AtMostOnePrimary == AccSpec => []OnePrimary
<1>1. PrimaryInv => OnePrimary
  BY DEF PrimaryInv, PrimaryOf, OnePrimary, Links
<1> QED
  BY <1>1, PrimaryInvariant, PTL

-----------------------------------------------------------------------------
(* The abilities (Grants).  The fixed rules come last in every list that   *)
(* can be built, because the permissions that are there are finitely many: *)
(* each has drawn a key, and keys are drawn one at a time.                 *)
GrantInv ==
  /\ GrantTypeOK
  /\ IsFiniteSet(drawn)
  /\ PermissionsThere \subseteq drawn

LEMMA IdleWrites == Idle \in Writes /\ Idle.op = "idle"
BY DEF Writes, Idle

LEMMA WriteShape ==
  ASSUME NEW w \in Writes
  PROVE  /\ w.op = "newRole" => w.row \in Role
         /\ w.op = "newPermission" => w.row \in Permission
         /\ w.op = "effect" => w.id \in PermissionIds /\ w.effect \in Effects
         /\ w.op = "dropRole" => w.id \in RoleIds
         /\ w.op = "dropPermission" => w.id \in PermissionIds
         /\ w.op \in {"hold", "release"} => w.pair \in RoleIds \X PermissionIds
         /\ w.op \in {"assign", "withdraw"} => w.pairs \in SUBSET (Holders \X RoleIds)
BY DEF Writes, Idle

LEMMA WillWrites ==
  ASSUME GrantInv, NEW r \in Requests, NEW w \in Writes, Will(r, w)
  PROVE  GrantInv'
BY DEF GrantInv, GrantTypeOK, PermissionsThere, Will

LEMMA ControllerPlans ==
  ASSUME GrantInv, NEW r \in Requests, PermissionsController(r)
  PROVE  GrantInv'
<1>1. ASSUME NEW data \in CreateRoleDto, CreateRole(r, data) PROVE GrantInv'
  <2>1. [op |-> "newRole", row |-> [code |-> data.code]] \in Writes
    BY DEF CreateRoleDto, Writes, Role
  <2> QED
    BY <1>1, <2>1, WillWrites DEF CreateRole
<1>2. ASSUME NEW id \in RoleIds, DeleteRole(r, id) PROVE GrantInv'
  <2>1. [op |-> "dropRole", id |-> id] \in Writes
    BY DEF Writes
  <2> QED
    BY <1>2, <2>1, WillWrites DEF DeleteRole
<1>3. ASSUME NEW data \in CreatePermissionDto, CreatePermission(r, data) PROVE GrantInv'
  <2>1. [data EXCEPT !.effect = IF @ = Nothing THEN "allow" ELSE @] \in Permission
    BY GivenIsKnown DEF CreatePermissionDto, Permission, Effects
  <2>2. [op |-> "newPermission",
         row |-> [data EXCEPT !.effect = IF @ = Nothing THEN "allow" ELSE @]] \in Writes
    BY <2>1 DEF Writes
  <2> QED
    BY <1>3, <2>2, WillWrites DEF CreatePermission
<1>4. ASSUME NEW id \in PermissionIds, NEW data \in UpdatePermissionDto,
             UpdatePermission(r, id, data)
      PROVE  GrantInv'
  <2>1. data.effect \in Effects
    BY <1>4 DEF UpdatePermission, UpdatePermissionDto
  <2>2. [op |-> "effect", id |-> id, effect |-> data.effect] \in Writes
    BY <2>1 DEF Writes
  <2> QED
    BY <1>4, <2>2, WillWrites DEF UpdatePermission
<1>5. ASSUME NEW id \in PermissionIds, DeletePermission(r, id) PROVE GrantInv'
  <2>1. [op |-> "dropPermission", id |-> id] \in Writes
    BY DEF Writes
  <2> QED
    BY <1>5, <2>1, WillWrites DEF DeletePermission
<1>6. ASSUME NEW data \in AssignPermissionToRoleDto, AssignPermissionToRole(r, data)
      PROVE  GrantInv'
  <2>1. [op |-> "hold", pair |-> <<data.roleId, data.permissionId>>] \in Writes
    BY DEF AssignPermissionToRoleDto, Writes
  <2> QED
    BY <1>6, <2>1, WillWrites DEF AssignPermissionToRole
<1>7. ASSUME NEW i \in RoleIds, NEW p \in PermissionIds, RemovePermissionFromRole(r, i, p)
      PROVE  GrantInv'
  <2>1. [op |-> "release", pair |-> <<i, p>>] \in Writes
    BY DEF Writes
  <2> QED
    BY <1>7, <2>1, WillWrites DEF RemovePermissionFromRole
<1>8. ASSUME NEW data \in AssignRoleToUserDto, AssignRolesToUser(r, data) PROVE GrantInv'
  <2>1. {data.userId} \X (data.roleIds \cap RolesThere) \in SUBSET (Holders \X RoleIds)
    BY DEF AssignRoleToUserDto, RolesThere
  <2>2. [op |-> "assign", pairs |-> {data.userId} \X (data.roleIds \cap RolesThere)] \in Writes
    BY <2>1 DEF Writes
  <2> QED
    BY <1>8, <2>2, WillWrites DEF AssignRolesToUser
<1>9. ASSUME NEW u \in Holders, NEW i \in RoleIds, RemoveRoleFromUser(r, u, i) PROVE GrantInv'
  <2>1. [op |-> "withdraw", pairs |-> {<<u, i>>}] \in Writes
    BY DEF Writes
  <2> QED
    BY <1>9, <2>1, WillWrites DEF RemoveRoleFromUser
<1> QED
  BY <1>1, <1>2, <1>3, <1>4, <1>5, <1>6, <1>7, <1>8, <1>9 DEF PermissionsController

(* A flush that leaves the permissions and the keys alone.                 *)
LEMMA FlushOfTheOthers ==
  ASSUME GrantInv, NEW r \in Requests, Ended(r), UNCHANGED <<permission, drawn>>,
         role' \in [RoleIds -> Role \cup {Nothing}],
         holds' \in SUBSET (RoleIds \X PermissionIds),
         assigned' \in SUBSET (Holders \X RoleIds)
  PROVE  GrantInv'
BY IdleWrites DEF GrantInv, GrantTypeOK, PermissionsThere, Ended

LEMMA FlushesGrant ==
  ASSUME GrantInv, NEW r \in Requests,
         \/ \E id \in RoleIds : FlushNewRole(r, id)
         \/ \E id \in PermissionIds : FlushNewPermission(r, id)
         \/ FlushEffect(r) \/ FlushDropRole(r) \/ FlushDropPermission(r)
         \/ FlushHold(r) \/ FlushRelease(r) \/ FlushAssign(r) \/ FlushWithdraw(r)
         \/ FlushRefused(r)
  PROVE  GrantInv'
<1>0. GrantTypeOK /\ todo[r] \in Writes
  BY DEF GrantInv, GrantTypeOK
<1>1. ASSUME NEW id \in RoleIds, FlushNewRole(r, id) PROVE GrantInv'
  <2>1. role' \in [RoleIds -> Role \cup {Nothing}] /\ IsFiniteSet(drawn')
    BY <1>0, <1>1, WriteShape, FS_AddElement DEF FlushNewRole, GrantTypeOK, GrantInv
  <2> QED
    BY <1>0, <1>1, <2>1, IdleWrites DEF FlushNewRole, GrantInv, GrantTypeOK, PermissionsThere, Ended
<1>2. ASSUME NEW id \in PermissionIds, FlushNewPermission(r, id) PROVE GrantInv'
  <2>1. permission' \in [PermissionIds -> Permission \cup {Nothing}] /\ IsFiniteSet(drawn')
    BY <1>0, <1>2, WriteShape, FS_AddElement DEF FlushNewPermission, GrantTypeOK, GrantInv
  <2> QED
    BY <1>0, <1>2, <2>1, IdleWrites
    DEF FlushNewPermission, GrantInv, GrantTypeOK, PermissionsThere, Ended
<1>3. CASE FlushEffect(r)
  <2>1. CASE todo[r].id \in PermissionsThere
    <3> DEFINE p == todo[r].id
               row == [permission[p] EXCEPT !.effect = todo[r].effect]
    <3>1. p \in PermissionIds /\ permission[p] \in Permission /\ todo[r].effect \in Effects
      BY <1>0, <1>3, <2>1, WriteShape DEF FlushEffect, GrantTypeOK, PermissionsThere
    <3>2. row \in Permission
      BY <3>1 DEF Permission
    <3>3. permission' = [permission EXCEPT ![p] = row]
      BY <1>3, <2>1 DEF FlushEffect
    <3> QED
      BY <1>0, <1>3, <2>1, <3>1, <3>2, <3>3, IdleWrites
      DEF FlushEffect, GrantInv, GrantTypeOK, PermissionsThere, Ended
  <2>2. CASE todo[r].id \notin PermissionsThere
    BY <1>3, <2>2, FlushOfTheOthers DEF FlushEffect, GrantInv, GrantTypeOK
  <2> QED
    BY <2>1, <2>2
<1>4. CASE FlushDropRole(r)
  <2>1. role' \in [RoleIds -> Role \cup {Nothing}]
    BY <1>0, <1>4 DEF FlushDropRole, GrantTypeOK
  <2> QED
    BY <1>0, <1>4, <2>1, FlushOfTheOthers DEF FlushDropRole, GrantTypeOK
<1>5. CASE FlushDropPermission(r)
  BY <1>0, <1>5, IdleWrites
  DEF FlushDropPermission, GrantInv, GrantTypeOK, PermissionsThere, Ended
<1>6. CASE FlushHold(r) \/ FlushRelease(r) \/ FlushAssign(r) \/ FlushWithdraw(r) \/ FlushRefused(r)
  BY <1>0, <1>6, WriteShape, FlushOfTheOthers
  DEF FlushHold, FlushRelease, FlushAssign, FlushWithdraw, FlushRefused, GrantTypeOK
<1> QED
  BY <1>1, <1>2, <1>3, <1>4, <1>5, <1>6

LEMMA GrantInvariant == GrantSpec => []GrantInv
<1>1. GrantInit => GrantInv
  BY IdleWrites, FS_EmptySet DEF GrantInit, GrantInv, GrantTypeOK, PermissionsThere
<1>2. GrantInv /\ [GrantNext]_grantVars => GrantInv'
  <2>1. UNCHANGED grantVars /\ GrantInv => GrantInv'
    BY DEF GrantInv, GrantTypeOK, PermissionsThere, grantVars
  <2> QED
    BY <2>1, ControllerPlans, FlushesGrant DEF GrantNext
<1> QED
  BY <1>1, <1>2, PTL DEF GrantSpec

LEMMA LastFour ==
  ASSUME NEW R, NEW p \in Seq(R), NEW q \in Seq(R), Len(q) = 4
  PROVE  /\ Len(p) \in Nat /\ DOMAIN (p \o q) = 1 .. Len(p) + 4
         /\ \A k \in 1 .. 4 : (p \o q)[Len(p) + k] = q[k]
<1>1. p \o q \in Seq(R) /\ Len(p \o q) = Len(p) + Len(q)
  BY ConcatProperties
<1>2. \A i \in 1 .. Len(p) + Len(q) :
           (p \o q)[i] = IF i <= Len(p) THEN p[i] ELSE q[i - Len(p)]
  BY ConcatProperties
<1>3. Len(p) \in Nat
  OBVIOUS
<1> QED
  BY <1>1, <1>2, <1>3

(* The rules of the permissions a user holds, as the list that is built.   *)
LEMMA FixedRulesLast ==
  ASSUME GrantInv, NEW u \in Holders, NEW rules \in CreateForUser(u, FALSE)
  PROVE  \E n \in Nat :
           /\ DOMAIN rules = 1 .. n + 4
           /\ \A k \in 1 .. 4 : rules[n + k] = FixedRules[k]
<1> DEFINE S == GetUserPermissions(u)
           R == {RuleOf(p) : p \in S} \cup {FixedRules[k] : k \in 1 .. 4}
<1>1. PICK s \in Orders(S) : rules = [i \in DOMAIN s |-> RuleOf(s[i])] \o FixedRules
  BY DEF CreateForUser
<1>2. S \subseteq PermissionsThere
  BY DEF GetUserPermissions, GetRolePermissions
<1>3. Cardinality(S) \in Nat
  BY <1>2, FS_Subset, FS_CardinalityType DEF GrantInv
<1>4. s \in [1 .. Cardinality(S) -> S]
  BY <1>1 DEF Orders
<1> DEFINE n == Cardinality(S)
           held == [i \in DOMAIN s |-> RuleOf(s[i])]
<1>5. DOMAIN held = 1 .. n /\ \A i \in 1 .. n : held[i] \in R
  BY <1>4
<1>6. held \in Seq(R) /\ Len(held) = n
  BY <1>3, <1>5, IsASeq
<1>7. FixedRules \in Seq(R) /\ Len(FixedRules) = 4
  <2>1. Len(FixedRules) = 4 /\ DOMAIN FixedRules = 1 .. 4
    BY DEF FixedRules
  <2>2. \A k \in 1 .. 4 : FixedRules[k] \in R
    OBVIOUS
  <2> QED
    BY <2>1, <2>2, IsASeq DEF FixedRules
<1>8. PICK p \in Seq(R) : rules = p \o FixedRules
  BY <1>1, <1>6
<1> HIDE DEF n, R, held
<1> QED
  BY <1>7, <1>8, LastFour

(* The permissions, the roles, what is assigned of them and the requests   *)
(* that change them keep their types (permissions.service.ts).             *)
THEOREM GrantsTypeCorrect == GrantSpec => []GrantTypeOK
BY GrantInvariant, PTL DEF GrantInv

(* FixedRulesHold, for any permissions, roles and users: what the fixed    *)
(* rules say of users, tenants and plugins decides, whatever permissions a *)
(* user is given and in whatever order they are loaded.                    *)
THEOREM FixedRulesDecide == GrantSpec => []FixedRulesHold
<1>1. GrantInv => FixedRulesHold
  <2> SUFFICES ASSUME GrantInv, NEW u \in Holders, NEW rules \in CreateForUser(u, FALSE)
               PROVE  /\ Can(rules, "read", "User") /\ Can(rules, "read", "Tenant")
                      /\ Can(rules, "read", "Plugin") /\ ~Can(rules, "delete", "User")
    BY DEF FixedRulesHold
  <2>1. PICK n \in Nat : /\ DOMAIN rules = 1 .. n + 4
                         /\ \A k \in 1 .. 4 : rules[n + k] = FixedRules[k]
    BY FixedRulesLast
  <2>2. /\ rules[n + 1] = Rule("allow", "read", "User")
        /\ rules[n + 2] = Rule("allow", "read", "Tenant")
        /\ rules[n + 3] = Rule("allow", "read", "Plugin")
        /\ rules[n + 4] = Rule("deny", "delete", "User")
    BY <2>1 DEF FixedRules
  <2>3. ASSUME NEW k \in 1 .. 4, NEW act, NEW subject, Matches(rules[n + k], act, subject),
               rules[n + k].effect = "allow",
               \A m \in 1 .. 4 : m > k => ~Matches(rules[n + m], act, subject)
        PROVE  Can(rules, act, subject)
    <3>1. n + k \in DOMAIN rules
      BY <2>1
    <3>2. \A j \in DOMAIN rules : j > n + k => \E m \in 1 .. 4 : m > k /\ j = n + m
      <4> SUFFICES ASSUME NEW j \in 1 .. n + 4, j > n + k
                   PROVE  \E m \in 1 .. 4 : m > k /\ j = n + m
        BY <2>1
      <4>1. j - n \in 1 .. 4 /\ j - n > k /\ j = n + (j - n)
        OBVIOUS
      <4> QED
        BY <4>1
    <3> QED
      BY <2>3, <3>1, <3>2 DEF Can
  <2>4. Can(rules, "read", "User") /\ Can(rules, "read", "Tenant") /\ Can(rules, "read", "Plugin")
    <3>1. ASSUME NEW act, NEW subject
          PROVE  \A k \in 1 .. 4 : Matches(rules[n + k], act, subject) <=>
                   /\ k \in 1 .. 3 => act = "read"
                   /\ k = 4 => act = "delete"
                   /\ k \in {1, 4} => subject = "User"
                   /\ k = 2 => subject = "Tenant"
                   /\ k = 3 => subject = "Plugin"
      BY <2>2 DEF Matches, Rule
    <3> QED
      BY <2>2, <2>3, <3>1 DEF Rule
  <2>5. ~Can(rules, "delete", "User")
    <3>1. Matches(rules[n + 4], "delete", "User") /\ rules[n + 4].effect = "deny"
      BY <2>2 DEF Matches, Rule
    <3>2. \A i \in DOMAIN rules : i = n + 4 \/ n + 4 > i
      BY <2>1
    <3> QED
      BY <2>1, <3>1, <3>2 DEF Can
  <2> QED
    BY <2>4, <2>5
<1> QED
  BY <1>1, GrantInvariant, PTL

-----------------------------------------------------------------------------
(* Tokens: a withdrawn token stays withdrawn.                              *)
(* A key of Redis that lives to that tick outlives the last whole second   *)
(* of the token.                                                           *)
Outlives(tick, t) == tick + PerSecond > token[t].exp * PerSecond

(* The seconds of a setex command were enough when they were computed; by  *)
(* the time the command is executed they only reach further.               *)
SetexOutlives ==
  \A r \in Requests : req[r].op = "setex" =>
    /\ req[r].token \in Signed
    /\ Outlives(now + req[r].seconds * PerSecond, req[r].token)

(* What is being refreshed has been signed.                                *)
RefreshesSigned ==
  \A r \in Requests : req[r].op \in {"refreshCheck", "reissue"} => req[r].token \in Signed

KeysOutlive == \A t \in revoked : t \in Signed /\ Outlives(black[t], t)

RevokeInv == TokTypeOK /\ SetexOutlives /\ RefreshesSigned /\ KeysOutlive

(* Rounding down to whole seconds loses less than a second.                *)
LEMMA RoundedDown ==
  ASSUME NEW x \in Int, NEW p \in Nat \ {0}
  PROVE  x \div p \in Int /\ (x \div p) * p + p > x
OBVIOUS

LEMMA TokenShape ==
  ASSUME TokTypeOK, NEW t \in Signed
  PROVE  token[t] \in Token /\ token[t].exp \in Nat
BY DEF TokTypeOK, Signed, Token

(* What a request can be, by the op it has.                                *)
LEMMA RequestShape ==
  ASSUME NEW q \in Request
  PROVE  /\ q.op \in {"check", "verify", "handler"} => q.route \in GuardedRoutes
         /\ q.op # "idle" => q.token \in TokenIds
         /\ q.op = "setex" => q.seconds \in Nat \ {0}
BY DEF Request, Idle

(* A step of one request that changes nothing else.                        *)
LEMMA GotoStep ==
  ASSUME RevokeInv, NEW r \in Requests, NEW place \in Request, Goto(r, place),
         place.op = "setex" =>
           place.token \in Signed
           /\ Outlives(now + place.seconds * PerSecond, place.token),
         place.op \in {"refreshCheck", "reissue"} => place.token \in Signed
  PROVE  RevokeInv'
<1>1. /\ req' = [req EXCEPT ![r] = place]
      /\ now' = now /\ token' = token /\ black' = black
      /\ redis' = redis /\ revoked' = revoked
  BY DEF Goto
<1>2. /\ req' \in [Requests -> Request]
      /\ req'[r] = place
      /\ \A s \in Requests \ {r} : req'[s] = req[s]
  BY <1>1, Zenon DEF RevokeInv, TokTypeOK
<1>3. TokTypeOK'
  BY <1>1, <1>2 DEF RevokeInv, TokTypeOK
<1>4. SetexOutlives'
  BY <1>1, <1>2 DEF RevokeInv, SetexOutlives, Outlives, Signed
<1>5. RefreshesSigned'
  BY <1>1, <1>2 DEF RevokeInv, RefreshesSigned, Signed
<1>6. KeysOutlive'
  BY <1>1 DEF RevokeInv, KeysOutlive, Outlives, Signed
<1> QED
  BY <1>3, <1>4, <1>5, <1>6 DEF RevokeInv

(* A new pair leaves the tokens that are signed as they are.               *)
LEMMA PairStep ==
  ASSUME RevokeInv, NEW u \in Subs, NEW a \in TokenIds, NEW f \in TokenIds,
         GenerateTokenPair(u, a, f)
  PROVE  /\ token' \in [TokenIds -> Token \cup {Nothing}]
         /\ \A t \in Signed : token'[t] = token[t] /\ t \in Signed'
<1> DEFINE ta == [kind |-> "access", sub |-> u, exp |-> Second + AccessLife]
           tf == [kind |-> "refresh", sub |-> u, exp |-> Second + RefreshLife]
<1>1. Second \in Nat
  BY TimesAreNat DEF RevokeInv, TokTypeOK, Second
<1>2. ta \in Token /\ tf \in Token
  BY <1>1, TimesAreNat DEF Token
<1>3. token' = [token EXCEPT ![a] = ta, ![f] = tf] /\ a \notin Signed /\ f \notin Signed
  BY DEF GenerateTokenPair
<1> HIDE DEF ta, tf
<1>4. token' \in [TokenIds -> Token \cup {Nothing}]
  BY <1>2, <1>3 DEF RevokeInv, TokTypeOK
<1>5. \A t \in Signed : token'[t] = token[t]
  BY <1>3 DEF RevokeInv, TokTypeOK, Signed
<1> QED
  BY <1>4, <1>5 DEF Signed

(* What does not touch the keys keeps what is said of them, as long as     *)
(* time goes forward and signed tokens stay what they are.                 *)
LEMMA KeysKept ==
  ASSUME RevokeInv, \A t \in Signed : token'[t] = token[t] /\ t \in Signed',
         black' = black, revoked' = revoked
  PROVE  KeysOutlive'
BY DEF RevokeInv, KeysOutlive, Outlives

LEMMA IssueStep ==
  ASSUME RevokeInv, NEW u \in Subs, NEW a \in TokenIds, NEW f \in TokenIds, IssuePair(u, a, f)
  PROVE  RevokeInv'
<1>1. /\ token' \in [TokenIds -> Token \cup {Nothing}]
      /\ \A t \in Signed : token'[t] = token[t] /\ t \in Signed'
  BY PairStep DEF IssuePair
<1>2. UNCHANGED <<now, black, redis, req, revoked>>
  BY DEF IssuePair
<1>3. TokTypeOK'
  BY <1>1, <1>2 DEF RevokeInv, TokTypeOK
<1>4. SetexOutlives'
  BY <1>1, <1>2 DEF RevokeInv, SetexOutlives, Outlives
<1>5. RefreshesSigned'
  BY <1>1, <1>2 DEF RevokeInv, RefreshesSigned
<1>6. KeysOutlive'
  BY <1>1, <1>2, KeysKept
<1> QED
  BY <1>3, <1>4, <1>5, <1>6 DEF RevokeInv

LEMMA ReissueStep ==
  ASSUME RevokeInv, NEW r \in Requests, NEW a \in TokenIds, NEW f \in TokenIds,
         Reissue(r, a, f)
  PROVE  RevokeInv'
<1>0. token[req[r].token].sub \in Subs
  BY TokenShape DEF Reissue, RevokeInv, RefreshesSigned, Token
<1>1. /\ token' \in [TokenIds -> Token \cup {Nothing}]
      /\ \A t \in Signed : token'[t] = token[t] /\ t \in Signed'
  BY <1>0, PairStep DEF Reissue
<1>2. UNCHANGED <<now, black, redis, revoked>> /\ req' = [req EXCEPT ![r] = Idle]
  BY DEF Reissue
<1>3. Idle \in Request /\ Idle.op \notin {"setex", "refreshCheck", "reissue"}
  BY DEF Idle, Request
<1>4. /\ req' \in [Requests -> Request]
      /\ req'[r] = Idle
      /\ \A s \in Requests \ {r} : req'[s] = req[s]
  BY <1>2, <1>3, Zenon DEF RevokeInv, TokTypeOK
<1>5. TokTypeOK'
  BY <1>1, <1>2, <1>4 DEF RevokeInv, TokTypeOK
<1>6. SetexOutlives'
  BY <1>1, <1>2, <1>3, <1>4 DEF RevokeInv, SetexOutlives, Outlives
<1>7. RefreshesSigned'
  BY <1>1, <1>2, <1>3, <1>4 DEF RevokeInv, RefreshesSigned, Idle
<1>8. KeysOutlive'
  BY <1>1, <1>2, KeysKept
<1> QED
  BY <1>5, <1>6, <1>7, <1>8 DEF RevokeInv

(* logout asks for as many whole seconds as the token has left.            *)
LEMMA LogoutStep ==
  ASSUME RevokeInv, NEW r \in Requests, Logout(r)
  PROVE  RevokeInv'
<1> DEFINE t == req[r].token
           s == SecondsLeft(t)
<1>1. CASE ~(IsAvailable /\ Verifies(t, "access") /\ s > 0)
  <2>1. Goto(r, Idle) /\ Idle \in Request /\ Idle.op \notin {"setex", "refreshCheck", "reissue"}
    BY <1>1 DEF Logout, Idle, Request
  <2> QED
    BY <2>1, GotoStep
<1>2. CASE Verifies(t, "access") /\ s > 0 /\ IsAvailable
  <2> DEFINE place == [op |-> "setex", token |-> t, seconds |-> s]
             x == token[t].exp * PerSecond - now
  <2>1. t \in Signed /\ t \in TokenIds
    BY <1>2 DEF Verifies, Signed
  <2>2. token[t].exp \in Nat /\ now \in Nat /\ PerSecond \in Nat \ {0}
    BY <2>1, TokenShape, TimesAreNat DEF RevokeInv, TokTypeOK
  <2>3. x \in Int
    BY <2>2
  <2>4. s = x \div PerSecond
    BY DEF SecondsLeft
  <2>5. s \in Int /\ s * PerSecond + PerSecond > x
    BY <2>2, <2>3, <2>4, RoundedDown
  <2>6. s \in Nat \ {0} /\ place \in Request
    BY <1>2, <2>1, <2>5 DEF Request
  <2>7. place.op = "setex" /\ place.token = t /\ place.seconds = s
    OBVIOUS
  <2>8. now + s * PerSecond + PerSecond > token[t].exp * PerSecond
    <3> DEFINE y == s * PerSecond
               z == token[t].exp * PerSecond
    <3>1. y \in Int /\ z \in Int /\ x = z - now /\ y + PerSecond > x
      BY <2>2, <2>5, <2>6
    <3> HIDE DEF y, z, x, s
    <3>2. now + y + PerSecond > z
      BY <2>2, <3>1
    <3> QED
      BY <3>2 DEF y, z
  <2>9. Goto(r, place)
    BY <1>2 DEF Logout
  <2> HIDE DEF place, s, x, t
  <2>10. Outlives(now + place.seconds * PerSecond, place.token)
    BY <2>7, <2>8 DEF Outlives
  <2>11. place.token \in Signed /\ place.op = "setex"
    BY <2>1, <2>7
  <2> QED
    BY <2>6, <2>9, <2>10, <2>11, GotoStep
<1> QED
  BY <1>1, <1>2

(* When Redis gets the command the time it counts from is no earlier than  *)
(* the one the seconds were computed from.                                 *)
LEMMA AddStep ==
  ASSUME RevokeInv, NEW r \in Requests, Add(r)
  PROVE  RevokeInv'
<1> DEFINE t == req[r].token
           tick == now + req[r].seconds * PerSecond
<1>1. /\ t \in TokenIds /\ req[r].seconds \in Nat
      /\ t \in Signed /\ Outlives(tick, t)
  BY RequestShape DEF Add, RevokeInv, TokTypeOK, SetexOutlives
<1>2. tick \in Nat
  BY <1>1, TimesAreNat DEF RevokeInv, TokTypeOK
<1>3. /\ \/ black' = [black EXCEPT ![t] = tick] /\ revoked' = revoked \cup {t}
         \/ black' = black /\ revoked' = revoked
      /\ req' = [req EXCEPT ![r] = Idle]
      /\ now' = now /\ token' = token /\ redis' = redis
  BY DEF Add
<1> HIDE DEF t, tick
<1>4. Idle \in Request /\ Idle.op \notin {"setex", "refreshCheck", "reissue"}
  BY DEF Idle, Request
<1>5. /\ req' \in [Requests -> Request]
      /\ req'[r] = Idle
      /\ \A s \in Requests \ {r} : req'[s] = req[s]
  BY <1>3, <1>4, Zenon DEF RevokeInv, TokTypeOK
<1>6. black' \in [TokenIds -> Nat] /\ revoked' \in SUBSET TokenIds
  BY <1>1, <1>2, <1>3 DEF RevokeInv, TokTypeOK
<1>7. TokTypeOK'
  BY <1>3, <1>5, <1>6 DEF RevokeInv, TokTypeOK
<1>8. SetexOutlives'
  BY <1>3, <1>4, <1>5 DEF RevokeInv, SetexOutlives, Outlives, Signed
<1>9. \A u \in revoked' :
        /\ u \in Signed
        /\ \/ u \in revoked /\ black'[u] = black[u]
           \/ u = t /\ black'[u] = tick
  BY <1>1, <1>3 DEF RevokeInv, TokTypeOK, KeysOutlive
<1>10. KeysOutlive'
  BY <1>1, <1>3, <1>9 DEF RevokeInv, KeysOutlive, Outlives, Signed
<1>11. RefreshesSigned'
  BY <1>3, <1>4, <1>5 DEF RevokeInv, RefreshesSigned, Signed, Idle
<1> QED
  BY <1>7, <1>8, <1>10, <1>11 DEF RevokeInv

(* Taking tokens off the list takes them out of what is promised.          *)
LEMMA ListStep ==
  ASSUME RevokeInv, (\E t \in TokenIds : Remove(t)) \/ Clear
  PROVE  RevokeInv'
<1>1. /\ black' \in [TokenIds -> Nat]
      /\ revoked' \subseteq revoked
      /\ \A u \in revoked' : black'[u] = black[u]
      /\ now' = now /\ token' = token /\ redis' = redis /\ req' = req
  BY DEF Remove, Clear, RevokeInv, TokTypeOK
<1>2. TokTypeOK'
  BY <1>1 DEF RevokeInv, TokTypeOK
<1>3. SetexOutlives'
  BY <1>1 DEF RevokeInv, SetexOutlives, Outlives, Signed
<1>4. RefreshesSigned'
  BY <1>1 DEF RevokeInv, RefreshesSigned, Signed
<1>5. KeysOutlive'
  BY <1>1 DEF RevokeInv, KeysOutlive, Outlives, Signed
<1> QED
  BY <1>2, <1>3, <1>4, <1>5 DEF RevokeInv

LEMMA TickStep ==
  ASSUME RevokeInv, Tick
  PROVE  RevokeInv'
<1>1. /\ now \in Nat /\ now' = now + 1 /\ now' \in 0 .. Horizon
      /\ token' = token /\ black' = black /\ redis' = redis
      /\ req' = req /\ revoked' = revoked
  BY TimesAreNat DEF Tick, RevokeInv, TokTypeOK
<1>2. TokTypeOK'
  BY <1>1 DEF RevokeInv, TokTypeOK
<1>3. SetexOutlives'
  <2> SUFFICES ASSUME NEW r \in Requests, req[r].op = "setex"
               PROVE  /\ req[r].token \in Signed
                      /\ now' + req[r].seconds * PerSecond + PerSecond
                           > token[req[r].token].exp * PerSecond
    BY <1>1 DEF SetexOutlives, Outlives, Signed
  <2> DEFINE y == req[r].seconds * PerSecond
             z == token[req[r].token].exp * PerSecond
  <2>1. req[r].token \in Signed /\ now + y + PerSecond > z
    BY DEF RevokeInv, SetexOutlives, Outlives
  <2>2. req[r].seconds \in Nat
    BY RequestShape DEF RevokeInv, TokTypeOK
  <2>3. token[req[r].token].exp \in Nat
    BY <2>1, TokenShape DEF RevokeInv
  <2>4. y \in Nat /\ z \in Nat /\ PerSecond \in Nat
    BY <2>2, <2>3, TimesAreNat
  <2> HIDE DEF y, z
  <2>5. now' + y + PerSecond > z
    BY <1>1, <2>1, <2>4
  <2> QED
    BY <2>1, <2>5 DEF y, z
<1>4. RefreshesSigned'
  BY <1>1 DEF RevokeInv, RefreshesSigned, Signed
<1>5. KeysOutlive'
  BY <1>1 DEF RevokeInv, KeysOutlive, Outlives, Signed
<1> QED
  BY <1>2, <1>3, <1>4, <1>5 DEF RevokeInv

LEMMA RequestStep ==
  ASSUME RevokeInv, NEW r \in Requests, Handles(r)
  PROVE  RevokeInv'
<1>1. req[r] \in Request /\ Idle \in Request /\ Idle.op \notin {"setex", "refreshCheck", "reissue"}
  BY DEF RevokeInv, TokTypeOK, Idle, Request
<1>2. ASSUME NEW route \in GuardedRoutes, NEW t \in TokenIds, Arrive(r, route, t)
      PROVE  RevokeInv'
  <2> DEFINE place == [op |-> IF IsAvailable THEN "check" ELSE "verify", route |-> route, token |-> t]
  <2>1. place \in Request /\ place.op \in {"check", "verify"} /\ Goto(r, place)
    BY <1>2 DEF Arrive, Request
  <2> HIDE DEF place
  <2> QED
    BY <2>1, GotoStep
<1>3. ASSUME NEW op \in {"verify", "handler"}, req[r].op \in {"check", "verify"},
             Goto(r, [req[r] EXCEPT !.op = op])
      PROVE  RevokeInv'
  <2> DEFINE place == [req[r] EXCEPT !.op = op]
  <2>1. place \in Request /\ place.op = op
    BY <1>1, <1>3 DEF Request, Idle
  <2> HIDE DEF place
  <2> QED
    BY <1>3, <2>1, GotoStep DEF place
<1>4. CASE Goto(r, Idle)
  BY <1>1, <1>4, GotoStep
<1>5. CASE CheckBlacklist(r) \/ Verify(r) \/ Serve(r)
  BY <1>3, <1>4, <1>5 DEF CheckBlacklist, Verify, Serve
<1>6. CASE RefreshCheck(r)
  <2> DEFINE place == [req[r] EXCEPT !.op = "reissue"]
  <2>1. CASE Goto(r, place)
    <3>1. place \in Request /\ place.op = "reissue" /\ place.token = req[r].token
      BY <1>1, <1>6 DEF RefreshCheck, Request, Idle
    <3>2. req[r].token \in Signed
      BY <1>6 DEF RefreshCheck, RevokeInv, RefreshesSigned
    <3> HIDE DEF place
    <3> QED
      BY <2>1, <3>1, <3>2, GotoStep
  <2> QED
    BY <1>4, <1>6, <2>1 DEF RefreshCheck
<1>7. ASSUME NEW t \in TokenIds, RefreshToken(r, t)
      PROVE  RevokeInv'
  <2> DEFINE place == [op |-> IF IsAvailable THEN "refreshCheck" ELSE "reissue", token |-> t]
  <2>1. /\ place \in Request /\ place.op \in {"refreshCheck", "reissue"}
        /\ place.token \in Signed /\ Goto(r, place)
    BY <1>7 DEF RefreshToken, Request, Verifies
  <2> HIDE DEF place
  <2> QED
    BY <2>1, GotoStep
<1>8. CASE \E a, f \in TokenIds : Reissue(r, a, f)
  BY <1>8, ReissueStep
<1> QED
  BY <1>2, <1>5, <1>6, <1>7, <1>8, LogoutStep, AddStep DEF Handles

(* The inductive invariant: the type of the state, what every command to   *)
(* Redis has asked for, and what every key promises.                       *)
LEMMA RevokeInvariant == TokSpec => []RevokeInv
<1>1. TokInit => RevokeInv
  BY TimesAreNat DEF TokInit, RevokeInv, TokTypeOK, SetexOutlives, RefreshesSigned, KeysOutlive,
                     Request, RedisStates, Idle
<1>2. RevokeInv /\ [TokNext]_tokVars => RevokeInv'
  <2> SUFFICES ASSUME RevokeInv, [TokNext]_tokVars PROVE RevokeInv'
    OBVIOUS
  <2>1. CASE \E u \in Subs, a, f \in TokenIds : IssuePair(u, a, f)
    BY <2>1, IssueStep
  <2>2. CASE \E r \in Requests : Handles(r)
    BY <2>2, RequestStep
  <2>3. CASE (\E t \in TokenIds : Remove(t)) \/ Clear
    BY <2>3, ListStep
  <2>4. CASE Tick
    BY <2>4, TickStep
  <2>5. CASE Connection
    BY <2>5 DEF Connection, RedisStates, RevokeInv, TokTypeOK, SetexOutlives, RefreshesSigned,
                KeysOutlive, Outlives, Signed
  <2>6. CASE UNCHANGED tokVars
    BY <2>6 DEF tokVars, RevokeInv, TokTypeOK, SetexOutlives, RefreshesSigned,
                KeysOutlive, Outlives, Signed
  <2> QED
    BY <2>1, <2>2, <2>3, <2>4, <2>5, <2>6 DEF TokNext
<1> QED
  BY <1>1, <1>2, PTL DEF TokSpec

(* The signed tokens, the black list and the requests in flight keep their *)
(* types (jwt-blacklist.service.ts, auth.service.ts).                      *)
THEOREM TokensTypeCorrect == TokSpec => []TokTypeOK
BY RevokeInvariant, PTL DEF RevokeInv

(* A token whose logout Redis has confirmed is refused until its last      *)
(* whole second, however late the key is written and however the seconds   *)
(* are rounded.                                                            *)
THEOREM RevokedStaysRevoked == TokSpec => []RevokedToTheLastSecond
<1>1. RevokeInv => RevokedToTheLastSecond
  <2> SUFFICES ASSUME RevokeInv, NEW t \in revoked,
                      now + PerSecond <= token[t].exp * PerSecond
               PROVE  black[t] > now
    BY DEF RevokedToTheLastSecond
  <2>1. t \in Signed /\ black[t] + PerSecond > token[t].exp * PerSecond
    BY DEF RevokeInv, KeysOutlive, Outlives
  <2>2. token[t].exp \in Nat /\ black[t] \in Nat /\ now \in Nat /\ PerSecond \in Nat
    BY <2>1, TokenShape, TimesAreNat DEF RevokeInv, TokTypeOK
  <2> DEFINE z == token[t].exp * PerSecond
  <2>3. z \in Nat
    BY <2>2
  <2> HIDE DEF z
  <2>4. now + PerSecond <= z /\ black[t] + PerSecond > z
    BY <2>1 DEF z
  <2> QED
    BY <2>2, <2>3, <2>4
<1> QED
  BY <1>1, RevokeInvariant, PTL

=============================================================================
