------------------------------ MODULE Accounts ------------------------------
(***************************************************************************)
(* The accounts of the auth plugin: the tables user, oauth_account and     *)
(* login_history under the concurrent requests of AuthService,             *)
(* SocialAuthService and UnifiedOAuthCallbackService.                      *)
(*                                                                         *)
(* A request reads its entities, awaits, and flushes.  Every request has   *)
(* an entity manager of its own, so it works on the copy it has read       *)
(* (in job[r]) while other requests flush; a flush is one transaction     *)
(* that writes only the columns the request has changed.  A step that      *)
(* begins an operation is the method up to its flush, a Flush step the     *)
(* rest.  A request that is refused changes nothing and is no step.        *)
(***************************************************************************)
EXTENDS Server, Naturals, FiniteSets

CONSTANTS
  UserIds,      \* primary keys of the table user
  Emails,
  Passwords,
  ResetTokens,  \* what randomBytes(32) answers in forgotPassword
  Identities,   \* a provider together with the user's id there
  LinkIds,      \* primary keys of the table oauth_account
  MaxLogins     \* bound: rows of login_history per user

ASSUME NothingIsNoData ==
  /\ Nothing \notin Emails \cup Passwords \cup ResetTokens \cup Identities
  /\ Nothing \notin UserIds \cup LinkIds

ASSUME MaxLoginsIsNat == MaxLogins \in Nat

VARIABLES
  user,     \* the table user, by id
  link,     \* the table oauth_account, by id
  success,  \* login_history: rows with LoginStatus.SUCCESS, per user
  failure,  \* login_history: rows with LoginStatus.FAILED, per user
  job,      \* what each request has read and is about to flush
  raced     \* history variable: users two of whose binds have overlapped

accVars == <<user, link, success, failure, job, raced>>

User ==
  [email: Emails, password: Passwords, resetToken: ResetTokens \cup {Nothing},
   resetLive: BOOLEAN, requirePasswordSetup: BOOLEAN, loginCount: 0 .. MaxLogins]

OAuthAccount == [userId: UserIds, identity: Identities, isPrimary: BOOLEAN]

ASSUME NothingIsNoRow == Nothing \notin User /\ Nothing \notin OAuthAccount

LoginHistory == [UserIds -> 0 .. MaxLogins]

(* What a request holds between its reads and its flush. *)
Job ==
  {Idle}
    \cup [op: {"login"}, uid: UserIds, row: User]
    \cup [op: {"wrong"}, uid: UserIds]
    \cup [op: {"forgot"}, uid: UserIds, token: ResetTokens]
    \cup [op: {"reset"}, uid: UserIds, password: Passwords]
    \cup [op: {"change"}, uid: UserIds, password: Passwords, setup: BOOLEAN]
    \cup [op: {"register", "callback", "social"}, row: User]
    \cup [op: {"withdraw", "bind"}, account: OAuthAccount]
    \cup [op: {"unbind"}, link: LinkIds]

AccTypeOK ==
  /\ user \in [UserIds -> User \cup {Nothing}]
  /\ link \in [LinkIds -> OAuthAccount \cup {Nothing}]
  /\ success \in LoginHistory
  /\ failure \in LoginHistory
  /\ job \in [Requests -> Job]
  /\ raced \in SUBSET UserIds

AccInit ==
  /\ user = [u \in UserIds |-> Nothing]
  /\ link = [k \in LinkIds |-> Nothing]
  /\ success = [u \in UserIds |-> 0]
  /\ failure = [u \in UserIds |-> 0]
  /\ job = [r \in Requests |-> Idle]
  /\ raced = {}

Accounts == {u \in UserIds : user[u] # Nothing}
Links == {k \in LinkIds : link[k] # Nothing}
EmailTaken(e) == \E u \in Accounts : user[u].email = e

Start(r, j) ==
  /\ job[r] = Idle
  /\ job' = [job EXCEPT ![r] = j]

Done(r) == job' = [job EXCEPT ![r] = Idle]
Keeps(vars) == UNCHANGED vars

-----------------------------------------------------------------------------
(* The dto's the public endpoints accept. *)
LoginDto == [email: Emails, password: Passwords]
RegisterDto == [email: Emails, password: Passwords]
ForgotPasswordDto == [email: Emails]
ResetPasswordDto == [email: Emails, resetToken: ResetTokens, newPassword: Passwords]
ChangePasswordDto == [currentPassword: Passwords \cup {Nothing}, newPassword: Passwords]
BindOAuthAccountDto == [identity: Identities, isPrimary: BOOLEAN]
UnbindOAuthAccountDto == [identity: Identities]

NewUser(email, password, setup) ==
  [email |-> email, password |-> password, resetToken |-> Nothing, resetLive |-> FALSE,
   requirePasswordSetup |-> setup, loginCount |-> 0]

LoginOf(u, row) == [op |-> "login", uid |-> u, row |-> row]

(* login: both ways out of the password check end in a flush. *)
Login(r, dto) ==
  /\ \E u \in Accounts :
       /\ user[u].email = dto.email
       /\ IF user[u].password = dto.password
            THEN Start(r, LoginOf(u, user[u]))
            ELSE Start(r, [op |-> "wrong", uid |-> u])
  /\ Keeps(<<user, link, success, failure, raced>>)

FlushLoginWholeRow(r) ==
  /\ job[r].op = "login"
  /\ LET u == job[r].uid IN
       /\ success[u] < MaxLogins
       /\ success' = [success EXCEPT ![u] = @ + 1]
       /\ user' = [user EXCEPT ![u] = [job[r].row EXCEPT !.loginCount = @ + 1]]
  /\ Done(r)
  /\ Keeps(<<link, failure, raced>>)

(* The history row and the counter are written by one flush. *)
FlushLogin(r) ==
  /\ job[r].op = "login"
  /\ LET u == job[r].uid IN
       /\ success[u] < MaxLogins
       /\ success' = [success EXCEPT ![u] = @ + 1]
       /\ user' = [user EXCEPT ![u].loginCount = job[r].row.loginCount + 1]
  /\ Done(r)
  /\ Keeps(<<link, failure, raced>>)

FlushWrongCounts(r) ==
  /\ job[r].op = "wrong"
  /\ LET u == job[r].uid IN
       /\ failure[u] < MaxLogins /\ user[u].loginCount < MaxLogins
       /\ failure' = [failure EXCEPT ![u] = @ + 1]
       /\ user' = [user EXCEPT ![u].loginCount = @ + 1]
  /\ Done(r)
  /\ Keeps(<<link, success, raced>>)
FlushWrong(r) ==
  /\ job[r].op = "wrong"
  /\ failure[job[r].uid] < MaxLogins
  /\ failure' = [failure EXCEPT ![job[r].uid] = @ + 1]
  /\ Done(r)
  /\ Keeps(<<user, link, success, raced>>)

Register(r, dto) ==
  /\ ~EmailTaken(dto.email)
  /\ Start(r, [op |-> "register", row |-> NewUser(dto.email, dto.password, FALSE)])
  /\ Keeps(<<user, link, success, failure, raced>>)

(* createOAuthUser: a password nobody knows, to be replaced. *)
OAuthUser(email, password) == NewUser(email, password, TRUE)

(* The callback of the unified controller leaves no trace of a login. *)
HandleOAuthCallback(r, email, password) ==
  /\ ~EmailTaken(email)
  /\ Start(r, [op |-> "callback", row |-> OAuthUser(email, password)])
  /\ Keeps(<<user, link, success, failure, raced>>)

ValidateOAuthLoginEmail(r, email, password) ==
  /\ \/ \E u \in Accounts : user[u].email = email /\ Start(r, LoginOf(u, user[u]))
     \/ /\ ~EmailTaken(email)
        /\ Start(r, [op |-> "social", row |-> OAuthUser(email, password)])
  /\ Keeps(<<user, link, success, failure, raced>>)

Creates(r) == job[r].op \in {"register", "callback", "social"}

(* The new row goes in; a social login goes on with the entity it has made. *)
FlushUser(r, u) ==
  /\ Creates(r)
  /\ user[u] = Nothing
  /\ ~EmailTaken(job[r].row.email)
  /\ user' = [user EXCEPT ![u] = job[r].row]
  /\ job' = [job EXCEPT ![r] =
               IF @.op = "social" THEN LoginOf(u, @.row) ELSE Idle]
  /\ Keeps(<<link, success, failure, raced>>)

(* The column email is unique: of two overlapping registrations of one *)
(* address the second flush fails. *)
FlushUserFails(r) ==
  /\ Creates(r)
  /\ EmailTaken(job[r].row.email)
  /\ Done(r)
  /\ Keeps(<<user, link, success, failure, raced>>)

-----------------------------------------------------------------------------
ForgotPassword(r, dto, token) ==
  /\ \E u \in Accounts :
       /\ user[u].email = dto.email
       /\ user[u].resetToken # token
       /\ Start(r, [op |-> "forgot", uid |-> u, token |-> token])
  /\ Keeps(<<user, link, success, failure, raced>>)

FlushForgot(r) ==
  /\ job[r].op = "forgot"
  /\ user' = [user EXCEPT ![job[r].uid].resetToken = job[r].token,
                          ![job[r].uid].resetLive = TRUE]
  /\ Done(r)
  /\ Keeps(<<link, success, failure, raced>>)

(* An hour passes. *)
ResetTokenExpires(u) ==
  /\ user[u] # Nothing
  /\ user[u].resetLive
  /\ user' = [user EXCEPT ![u].resetLive = FALSE]
  /\ Keeps(<<link, success, failure, job, raced>>)

ResetPassword(r, dto) ==
  /\ \E u \in Accounts :
       /\ user[u].email = dto.email
       /\ user[u].resetToken = dto.resetToken
       /\ user[u].resetLive
       /\ Start(r, [op |-> "reset", uid |-> u, password |-> dto.newPassword])
  /\ Keeps(<<user, link, success, failure, raced>>)

(* Whether an assignment of undefined clears the column is the mapper's   *)
(* choice, so both are allowed.                                            *)
FlushReset(r) ==
  /\ job[r].op = "reset"
  /\ LET u == job[r].uid IN
       \E cleared \in BOOLEAN :
         user' = [user EXCEPT
           ![u].password = job[r].password,
           ![u].resetToken = IF cleared THEN Nothing ELSE @,
           ![u].resetLive = ~cleared /\ @]
  /\ Done(r)
  /\ Keeps(<<link, success, failure, raced>>)

ChangePassword(r, u, dto) ==
  /\ u \in Accounts
  /\ \/ user[u].requirePasswordSetup
     \/ dto.currentPassword = user[u].password
  /\ Start(r, [op |-> "change", uid |-> u, password |-> dto.newPassword,
               setup |-> user[u].requirePasswordSetup])
  /\ Keeps(<<user, link, success, failure, raced>>)

FlushChange(r) ==
  /\ job[r].op = "change"
  /\ LET u == job[r].uid IN
       user' = [user EXCEPT
         ![u].password = job[r].password,
         ![u].requirePasswordSetup = ~job[r].setup /\ @]
  /\ Done(r)
  /\ Keeps(<<link, success, failure, raced>>)

-----------------------------------------------------------------------------
Bound(identity) == \E k \in Links : link[k].identity = identity

BindsOf(u) == {r \in Requests : job[r].op \in {"withdraw", "bind"} /\ job[r].account.userId = u}

(* bindOAuthAccount as far as its next await: the other primary accounts  *)
(* are withdrawn by a statement of their own, outside the flush.          *)
BindOAuthAccount(r, u, dto) ==
  /\ u \in Accounts
  /\ ~Bound(dto.identity)
  /\ Start(r, [op |-> IF dto.isPrimary THEN "withdraw" ELSE "bind",
               account |-> [userId |-> u, identity |-> dto.identity,
                            isPrimary |-> dto.isPrimary]])
  /\ raced' = IF BindsOf(u) # {} THEN raced \cup {u} ELSE raced
  /\ Keeps(<<user, link, success, failure>>)

WithdrawNothing(r) ==
  /\ job[r].op = "withdraw"
  /\ job' = [job EXCEPT ![r] = [op |-> "bind", account |-> @.account]]
  /\ Keeps(<<user, link, success, failure, raced>>)
WithdrawPrimary(r) ==
  /\ job[r].op = "withdraw"
  /\ link' = [k \in LinkIds |->
       IF link[k] # Nothing /\ link[k].userId = job[r].account.userId
         THEN [link[k] EXCEPT !.isPrimary = FALSE]
         ELSE link[k]]
  /\ job' = [job EXCEPT ![r] = [op |-> "bind", account |-> @.account]]
  /\ Keeps(<<user, success, failure, raced>>)

FlushBind(r, k) ==
  /\ job[r].op = "bind"
  /\ link[k] = Nothing
  /\ link' = [link EXCEPT ![k] = job[r].account]
  /\ Done(r)
  /\ Keeps(<<user, success, failure, raced>>)

UnbindOAuthAccount(r, u, dto) ==
  /\ u \in Accounts
  /\ \E k \in Links :
       /\ link[k].userId = u
       /\ link[k].identity = dto.identity
       /\ ~(link[k].isPrimary /\ user[u].requirePasswordSetup)
       /\ Start(r, [op |-> "unbind", link |-> k])
  /\ Keeps(<<user, link, success, failure, raced>>)

FlushUnbind(r) ==
  /\ job[r].op = "unbind"
  /\ link' = [link EXCEPT ![job[r].link] = Nothing]
  /\ Done(r)
  /\ Keeps(<<user, success, failure, raced>>)

(* The database refuses a flush: what the request has changed is lost,    *)
(* what it has already sent by itself (WithdrawPrimary) is not.           *)
FlushFails(r) ==
  /\ job[r] # Idle
  /\ Done(r)
  /\ Keeps(<<user, link, success, failure, raced>>)

-----------------------------------------------------------------------------
AuthController(r) ==
  \/ \E dto \in LoginDto : Login(r, dto)
  \/ \E dto \in RegisterDto : Register(r, dto)
  \/ \E dto \in ForgotPasswordDto, t \in ResetTokens : ForgotPassword(r, dto, t)
  \/ \E dto \in ResetPasswordDto : ResetPassword(r, dto)
  \/ \E u \in UserIds, dto \in ChangePasswordDto : ChangePassword(r, u, dto)
  \/ \E u \in UserIds, dto \in BindOAuthAccountDto : BindOAuthAccount(r, u, dto)
  \/ \E u \in UserIds, dto \in UnbindOAuthAccountDto : UnbindOAuthAccount(r, u, dto)

(* The callbacks of the four providers. *)
UnifiedOAuthCallbackController(r) ==
  \E e \in Emails, p \in Passwords : HandleOAuthCallback(r, e, p)

Begins(r) ==
  \/ AuthController(r)
  \/ UnifiedOAuthCallbackController(r)
  \/ \E e \in Emails, p \in Passwords : ValidateOAuthLoginEmail(r, e, p)

Flushes(r) ==
  \/ FlushLogin(r)
  \/ FlushWrong(r)
  \/ \E u \in UserIds : FlushUser(r, u)
  \/ FlushUserFails(r)
  \/ FlushForgot(r)
  \/ FlushReset(r)
  \/ FlushChange(r)
  \/ WithdrawPrimary(r)
  \/ \E k \in LinkIds : FlushBind(r, k)
  \/ FlushUnbind(r)
  \/ FlushFails(r)

AccNext ==
  \/ \E r \in Requests : Begins(r) \/ Flushes(r)
  \/ \E u \in UserIds : ResetTokenExpires(u)

AccSpec == AccInit /\ [][AccNext]_accVars

-----------------------------------------------------------------------------
(* However logins of one user overlap, the counter never runs ahead of    *)
(* the history: an increment may be lost (login reads loginCount and      *)
(* writes it after an await), none is made up.                            *)
LoginsCounted ==
  \A u \in Accounts : user[u].loginCount <= success[u]

(* A password changes by the flush of a resetPassword or a changePassword *)
(* of that user and of nothing else: a login, a forgotPassword or an      *)
(* OAuth callback that read the user before never writes the old password *)
(* back.                                                                   *)
NoPasswordRevived ==
  [][\A u \in UserIds :
       user[u] # Nothing /\ user'[u].password # user[u].password =>
         \E r \in Requests :
           /\ job[r].op \in {"reset", "change"}
           /\ job[r].uid = u
           /\ job'[r] = Idle
           /\ user'[u].password = job[r].password]_accVars

(* A user whose binds never overlapped has at most one primary account.   *)
OnePrimary ==
  \A u \in UserIds \ raced : \A j, k \in Links :
    /\ link[j].userId = u /\ link[j].isPrimary
    /\ link[k].userId = u /\ link[k].isPrimary
    => j = k
=============================================================================
