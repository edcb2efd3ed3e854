----------------------------- MODULE AuthManager -----------------------------
(***************************************************************************)
(* The AuthManager every MCP server of a process shares: login, logout and *)
(* refreshToken, each cut at the requests it awaits from the API client of *)
(* the host.  A token is known by the user it was issued to.  Nothing here *)
(* depends on when a token expires: isAuthenticated only reads.            *)
(***************************************************************************)
EXTENDS Naturals

CONSTANTS
  Users,
  Calls,    \* bound: slots for calls in flight at the same time
  Serial,   \* callers wait for the previous call
  Nobody, NoData, NoJob

ASSUME ConstantsAssumption ==
  /\ Serial \in BOOLEAN
  /\ Nobody \notin Users

VARIABLES
  tokenData,          \* who each part of this.tokenData is of
  isLoginInProgress,
  isRefreshInProgress,
  held                  \* held[c]: what call c awaits

authVars == <<tokenData, isLoginInProgress, isRefreshInProgress, held>>

TokenData == [userId : Users, accessToken : Users, refreshToken : Users,
              tenantId : Users \cup {Nobody}]

Jobs == [awaits : {"login"}, user : Users]
   \cup [awaits : {"me"}, user : Users, token : Users]
   \cup [awaits : {"refresh"}, token : Users]
   \cup [awaits : {"logout"}]

ASSUME NothingIsNoValue == NoData \notin TokenData /\ NoJob \notin Jobs

AuthTypeOK ==
  /\ tokenData \in TokenData \cup {NoData}
  /\ isLoginInProgress \in BOOLEAN
  /\ isRefreshInProgress \in BOOLEAN
  /\ held \in [Calls -> Jobs \cup {NoJob}]

Awaits(c, what) == held[c] # NoJob /\ held[c].awaits = what

LoggingIn  == {c \in Calls : Awaits(c, "login") \/ Awaits(c, "me")}
Refreshing == {c \in Calls : Awaits(c, "refresh")}

FreeSlot(c) == /\ held[c] = NoJob
               /\ Serial => \A d \in Calls : held[d] = NoJob

Goto(c, j) == held' = [held EXCEPT ![c] = j]
Return(c)  == held' = [held EXCEPT ![c] = NoJob]

AuthInit ==
  /\ tokenData = NoData
  /\ isLoginInProgress = FALSE
  /\ isRefreshInProgress = FALSE
  /\ held = [c \in Calls |-> NoJob]

-----------------------------------------------------------------------------
\* A login while one is in flight answers false and changes nothing.
Login(c, u) ==
  /\ FreeSlot(c)
  /\ ~isLoginInProgress
  /\ isLoginInProgress' = TRUE
  /\ Goto(c, [awaits |-> "login", user |-> u])
  /\ UNCHANGED <<tokenData, isRefreshInProgress>>

\* The finally of login.
LoginReturns(c) ==
  /\ isLoginInProgress' = FALSE
  /\ Return(c)
  /\ UNCHANGED isRefreshInProgress

NewData(u, tenant) ==
  [userId |-> u, accessToken |-> u, refreshToken |-> u, tenantId |-> tenant]

\* The request rejects, or its answer lacks a part.
LoginFails(c) ==
  /\ Awaits(c, "login")
  /\ LoginReturns(c)
  /\ UNCHANGED tokenData

\* /user/me is asked with the access token tokenData holds at that moment,
\* which is that of an earlier login; with none it is not asked.
LoginAnswered(c) ==
  /\ Awaits(c, "login")
  /\ IF tokenData = NoData
       THEN /\ tokenData' = NewData(held[c].user, Nobody)
            /\ LoginReturns(c)
       ELSE /\ Goto(c, [awaits |-> "me", user |-> held[c].user, token |-> tokenData.accessToken])
            /\ UNCHANGED <<tokenData, isLoginInProgress, isRefreshInProgress>>

\* /user/me gives the tenant of the token's user, or fails.
MeAnswered(c) ==
  /\ Awaits(c, "me")
  /\ \E tenant \in {held[c].token, Nobody} : tokenData' = NewData(held[c].user, tenant)
  /\ LoginReturns(c)

Logout(c) ==
  /\ FreeSlot(c)
  /\ tokenData # NoData
  /\ Goto(c, [awaits |-> "logout"])
  /\ UNCHANGED <<tokenData, isLoginInProgress, isRefreshInProgress>>

\* Whether the end point answered or not.
LogoutReturns(c) ==
  /\ Awaits(c, "logout")
  /\ tokenData' = NoData
  /\ Return(c)
  /\ UNCHANGED <<isLoginInProgress, isRefreshInProgress>>

RefreshToken(c) ==
  /\ FreeSlot(c)
  /\ ~isRefreshInProgress
  /\ tokenData # NoData
  /\ isRefreshInProgress' = TRUE
  /\ Goto(c, [awaits |-> "refresh", token |-> tokenData.refreshToken])
  /\ UNCHANGED <<tokenData, isLoginInProgress>>

\* The finally of refreshToken.
RefreshReturns(c) ==
  /\ isRefreshInProgress' = FALSE
  /\ Return(c)
  /\ UNCHANGED isLoginInProgress

\* The new access token goes into whatever tokenData is by then; with none
\* the assignment throws and is caught.
RefreshAnswered(c) ==
  /\ Awaits(c, "refresh")
  /\ tokenData' = IF tokenData = NoData THEN NoData
                  ELSE [tokenData EXCEPT !.accessToken = held[c].token]
  /\ RefreshReturns(c)

RefreshFailsFlagged(c) ==
  /\ Awaits(c, "refresh")
  /\ Return(c)
  /\ UNCHANGED <<tokenData, isLoginInProgress, isRefreshInProgress>>

RefreshFails(c) ==
  /\ Awaits(c, "refresh")
  /\ RefreshReturns(c)
  /\ UNCHANGED tokenData

-----------------------------------------------------------------------------
Settles(c) == \/ LoginFails(c) \/ LoginAnswered(c) \/ MeAnswered(c)
              \/ LogoutReturns(c) \/ RefreshAnswered(c) \/ RefreshFails(c)

AuthNext == \E c \in Calls :
             \/ \E u \in Users : Login(c, u)
             \/ Logout(c)
             \/ RefreshToken(c)
             \/ Settles(c)

AuthSpec == AuthInit /\ [][AuthNext]_authVars

\* Every request is answered or runs into its timeout.
AuthFairness == \A c \in Calls : WF_authVars(Settles(c))

-----------------------------------------------------------------------------
(* Properties *)

\* The flags are what keeps logins, and refreshes, from overlapping: each is
\* up exactly while one call is between its test and its finally.
OneAtATime ==
  /\ isLoginInProgress <=> LoggingIn # {}
  /\ isRefreshInProgress <=> Refreshing # {}
  /\ \A c, d \in LoggingIn : c = d
  /\ \A c, d \in Refreshing : c = d

\* No outcome of a request leaves a flag up, which would refuse every later
\* login or refresh of the process.
FlagsClear == /\ isLoginInProgress ~> ~isLoginInProgress
              /\ isRefreshInProgress ~> ~isRefreshInProgress

\* The tokens kept are of the user they are kept with, as long as callers wait
\* for each other.
TokensOfTheUser ==
  tokenData # NoData => /\ tokenData.accessToken = tokenData.userId
                        /\ tokenData.refreshToken = tokenData.userId
=============================================================================
