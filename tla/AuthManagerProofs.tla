-------------------------- MODULE AuthManagerProofs --------------------------
(***************************************************************************)
(* Proofs about what authenticates the users of the MCP servers:           *)
(* AuthManager, for every set of users and of calls, whether the calls     *)
(* overlap or not, and the tokens of the OAuth application (OAuthTokens),  *)
(* for any subjects, roles and life times.                                 *)
(***************************************************************************)
EXTENDS AuthManager, OAuthTokens, TLAPS

USE ConstantsAssumption, NothingIsNoValue

\* What a step does to the job of one call.
LEMMA CallTypes ==
  ASSUME AuthTypeOK, NEW c \in Calls, NEW j \in Jobs \cup {NoJob}, held' = [held EXCEPT ![c] = j]
  PROVE  /\ held' \in [Calls -> Jobs \cup {NoJob}]
         /\ held'[c] = j
         /\ \A d \in Calls \ {c} : held'[d] = held[d]
BY Zenon DEF AuthTypeOK

LEMMA JobShape ==
  ASSUME NEW j \in Jobs
  PROVE  /\ j.awaits \in {"login", "me"} => j.user \in Users
         /\ j.awaits \in {"me", "refresh"} => j.token \in Users
BY DEF Jobs

\* The four moves of a call, by what they do to the sets of calls in flight.
LEMMA CallMoves ==
  ASSUME AuthTypeOK, NEW c \in Calls, NEW j \in Jobs \cup {NoJob}, held' = [held EXCEPT ![c] = j]
  PROVE  /\ LoggingIn' = IF j # NoJob /\ j.awaits \in {"login", "me"}
                           THEN LoggingIn \cup {c} ELSE LoggingIn \ {c}
         /\ Refreshing' = IF j # NoJob /\ j.awaits = "refresh"
                           THEN Refreshing \cup {c} ELSE Refreshing \ {c}
<1>1. held'[c] = j /\ \A d \in Calls \ {c} : held'[d] = held[d]
  BY CallTypes
<1> QED
  BY <1>1 DEF LoggingIn, Refreshing, Awaits

LEMMA TypeNext == AuthTypeOK /\ [AuthNext]_authVars => AuthTypeOK'
<1> SUFFICES ASSUME AuthTypeOK, [AuthNext]_authVars
             PROVE  AuthTypeOK'
  OBVIOUS
<1>1. ASSUME NEW c \in Calls, NEW u \in Users, Login(c, u)
      PROVE  AuthTypeOK'
  <2>1. [awaits |-> "login", user |-> u] \in Jobs
    BY DEF Jobs
  <2> QED
    BY <1>1, <2>1, CallTypes DEF Login, Goto, AuthTypeOK
<1>2. ASSUME NEW c \in Calls, Logout(c)
      PROVE  AuthTypeOK'
  <2>1. [awaits |-> "logout"] \in Jobs
    BY DEF Jobs
  <2> QED
    BY <1>2, <2>1, CallTypes DEF Logout, Goto, AuthTypeOK
<1>3. ASSUME NEW c \in Calls, RefreshToken(c)
      PROVE  AuthTypeOK'
  <2>1. [awaits |-> "refresh", token |-> tokenData.refreshToken] \in Jobs
    BY <1>3 DEF RefreshToken, Jobs, AuthTypeOK, TokenData
  <2> QED
    BY <1>3, <2>1, CallTypes DEF RefreshToken, Goto, AuthTypeOK
<1>4. ASSUME NEW c \in Calls, LoginAnswered(c)
      PROVE  AuthTypeOK'
  <2>1. held[c] \in Jobs /\ held[c].user \in Users
    BY <1>4, JobShape DEF LoginAnswered, Awaits, AuthTypeOK
  <2>2. CASE tokenData = NoData
    <3>1. NewData(held[c].user, Nobody) \in TokenData
      BY <2>1 DEF NewData, TokenData
    <3> QED
      BY <1>4, <2>2, <3>1, CallTypes DEF LoginAnswered, LoginReturns, Return, AuthTypeOK
  <2>3. CASE tokenData # NoData
    <3>1. [awaits |-> "me", user |-> held[c].user, token |-> tokenData.accessToken] \in Jobs
      BY <2>1, <2>3 DEF Jobs, AuthTypeOK, TokenData
    <3> QED
      BY <1>4, <2>3, <3>1, CallTypes DEF LoginAnswered, Goto, AuthTypeOK
  <2> QED
    BY <2>2, <2>3
<1>5. ASSUME NEW c \in Calls, MeAnswered(c)
      PROVE  AuthTypeOK'
  <2>1. held[c] \in Jobs /\ held[c].user \in Users /\ held[c].token \in Users
    BY <1>5, JobShape DEF MeAnswered, Awaits, AuthTypeOK
  <2>2. tokenData' \in TokenData
    BY <1>5, <2>1 DEF MeAnswered, NewData, TokenData
  <2> QED
    BY <1>5, <2>2, CallTypes DEF MeAnswered, LoginReturns, Return, AuthTypeOK
<1>6. ASSUME NEW c \in Calls, RefreshAnswered(c)
      PROVE  AuthTypeOK'
  <2>1. held[c].token \in Users
    BY <1>6, JobShape DEF RefreshAnswered, Awaits, AuthTypeOK
  <2>2. tokenData' \in TokenData \cup {NoData}
    BY <1>6, <2>1 DEF RefreshAnswered, TokenData, AuthTypeOK
  <2> QED
    BY <1>6, <2>2, CallTypes DEF RefreshAnswered, RefreshReturns, Return, AuthTypeOK
<1>7. ASSUME NEW c \in Calls, LoginFails(c) \/ LogoutReturns(c) \/ RefreshFails(c)
      PROVE  AuthTypeOK'
  BY <1>7, CallTypes DEF LoginFails, LoginReturns, LogoutReturns, RefreshFails, RefreshReturns,
                         Return, AuthTypeOK
<1>8. CASE UNCHANGED authVars
  BY <1>8 DEF authVars, AuthTypeOK
<1> QED
  BY <1>1, <1>2, <1>3, <1>4, <1>5, <1>6, <1>7, <1>8 DEF AuthNext, Settles

\* The variables keep their types.
THEOREM TypeCorrect == AuthSpec => []AuthTypeOK
<1>1. AuthInit => AuthTypeOK
  BY DEF AuthInit, AuthTypeOK
<1>2. AuthTypeOK /\ [AuthNext]_authVars => AuthTypeOK'
  BY TypeNext
<1> QED
  BY <1>1, <1>2, PTL DEF AuthSpec

-----------------------------------------------------------------------------
LEMMA OneAtATimeNext == AuthTypeOK /\ OneAtATime /\ [AuthNext]_authVars => OneAtATime'
<1> SUFFICES ASSUME AuthTypeOK, OneAtATime, [AuthNext]_authVars
             PROVE  OneAtATime'
  OBVIOUS
<1> USE DEF OneAtATime
<1>0. \A c \in LoggingIn : c \notin Refreshing
  BY DEF LoggingIn, Refreshing, Awaits
<1>1. ASSUME NEW c \in Calls, NEW u \in Users, Login(c, u)
      PROVE  OneAtATime'
  <2>1. [awaits |-> "login", user |-> u] \in Jobs
    BY DEF Jobs
  <2>2. LoggingIn' = LoggingIn \cup {c} /\ Refreshing' = Refreshing \ {c}
    <3>1. PICK j \in Jobs : j.awaits = "login" /\ held' = [held EXCEPT ![c] = j]
      BY <1>1, <2>1, Zenon DEF Login, Goto
    <3>2. j # NoJob
      OBVIOUS
    <3> QED
      BY <3>1, <3>2, CallMoves
  <2>3. c \notin Refreshing
    BY <1>1 DEF Login, FreeSlot, Refreshing, Awaits
  <2> QED
    BY <1>1, <2>2, <2>3 DEF Login
<1>2. ASSUME NEW c \in Calls, Logout(c)
      PROVE  OneAtATime'
  <2>1. [awaits |-> "logout"] \in Jobs
    BY DEF Jobs
  <2>2. LoggingIn' = LoggingIn \ {c} /\ Refreshing' = Refreshing \ {c}
    <3>1. PICK j \in Jobs : j.awaits = "logout" /\ held' = [held EXCEPT ![c] = j]
      BY <1>2, <2>1, Zenon DEF Logout, Goto
    <3>2. j # NoJob
      OBVIOUS
    <3> QED
      BY <3>1, <3>2, CallMoves
  <2>3. c \notin Refreshing /\ c \notin LoggingIn
    BY <1>2 DEF Logout, FreeSlot, Refreshing, LoggingIn, Awaits
  <2> QED
    BY <1>2, <2>2, <2>3 DEF Logout
<1>3. ASSUME NEW c \in Calls, RefreshToken(c)
      PROVE  OneAtATime'
  <2>1. [awaits |-> "refresh", token |-> tokenData.refreshToken] \in Jobs
    BY <1>3 DEF RefreshToken, Jobs, AuthTypeOK, TokenData
  <2>2. LoggingIn' = LoggingIn \ {c} /\ Refreshing' = Refreshing \cup {c}
    <3>1. PICK j \in Jobs : j.awaits = "refresh" /\ held' = [held EXCEPT ![c] = j]
      BY <1>3, <2>1, Zenon DEF RefreshToken, Goto
    <3>2. j # NoJob
      OBVIOUS
    <3> QED
      BY <3>1, <3>2, CallMoves
  <2>3. c \notin LoggingIn
    BY <1>3 DEF RefreshToken, FreeSlot, LoggingIn, Awaits
  <2> QED
    BY <1>3, <2>2, <2>3 DEF RefreshToken
<1>4. ASSUME NEW c \in Calls, c \in LoggingIn, LoginReturns(c)
      PROVE  OneAtATime'
  <2>1. LoggingIn' = LoggingIn \ {c} /\ Refreshing' = Refreshing \ {c}
    BY <1>4, CallMoves DEF LoginReturns, Return
  <2> QED
    BY <1>0, <1>4, <2>1 DEF LoginReturns
<1>5. ASSUME NEW c \in Calls, LoginAnswered(c), tokenData # NoData
      PROVE  OneAtATime'
  <2>1. held[c] \in Jobs /\ held[c].user \in Users
    BY <1>5, JobShape DEF LoginAnswered, Awaits, AuthTypeOK
  <2>2. [awaits |-> "me", user |-> held[c].user, token |-> tokenData.accessToken] \in Jobs
    BY <1>5, <2>1 DEF Jobs, AuthTypeOK, TokenData
  <2>3. LoggingIn' = LoggingIn \cup {c} /\ Refreshing' = Refreshing \ {c}
    BY <1>5, <2>2, CallMoves DEF LoginAnswered, Goto
  <2>4. c \in LoggingIn
    BY <1>5 DEF LoginAnswered, LoggingIn
  <2> QED
    BY <1>0, <1>5, <2>3, <2>4 DEF LoginAnswered
<1>6. ASSUME NEW c \in Calls, LogoutReturns(c)
      PROVE  OneAtATime'
  <2>1. LoggingIn' = LoggingIn \ {c} /\ Refreshing' = Refreshing \ {c}
    BY <1>6, CallMoves DEF LogoutReturns, Return
  <2>2. c \notin LoggingIn /\ c \notin Refreshing
    BY <1>6 DEF LogoutReturns, LoggingIn, Refreshing, Awaits
  <2> QED
    BY <1>6, <2>1, <2>2 DEF LogoutReturns
<1>7. ASSUME NEW c \in Calls, c \in Refreshing, RefreshReturns(c)
      PROVE  OneAtATime'
  <2>1. LoggingIn' = LoggingIn \ {c} /\ Refreshing' = Refreshing \ {c}
    BY <1>7, CallMoves DEF RefreshReturns, Return
  <2> QED
    BY <1>0, <1>7, <2>1 DEF RefreshReturns
<1>8. CASE UNCHANGED authVars
  BY <1>8 DEF authVars, LoggingIn, Refreshing, Awaits
<1>9. \A c \in Calls : LoginFails(c) \/ (LoginAnswered(c) /\ tokenData = NoData) \/ MeAnswered(c)
                         => c \in LoggingIn /\ LoginReturns(c)
  BY DEF LoginFails, LoginAnswered, MeAnswered, LoggingIn
<1>10. \A c \in Calls : RefreshAnswered(c) \/ RefreshFails(c) => c \in Refreshing /\ RefreshReturns(c)
  BY DEF RefreshAnswered, RefreshFails, Refreshing
<1> QED
  BY <1>1, <1>2, <1>3, <1>4, <1>5, <1>6, <1>7, <1>8, <1>9, <1>10 DEF AuthNext, Settles

\* The two flags of the AuthManager keep logins apart from logins and
\* refreshes apart from refreshes, and are up only while one is in flight.
THEOREM Exclusion == AuthSpec => []OneAtATime
<1>1. AuthInit => OneAtATime
  BY DEF AuthInit, OneAtATime, LoggingIn, Refreshing, Awaits
<1>2. AuthTypeOK /\ OneAtATime /\ [AuthNext]_authVars => OneAtATime'
  BY OneAtATimeNext
<1> QED
  BY <1>1, <1>2, TypeCorrect, PTL DEF AuthSpec

-----------------------------------------------------------------------------
(* When callers wait for each other.  TokensOfTheUser is not inductive: a  *)
(* refresh in flight holds a refresh token, which has to be that of the    *)
(* user logged in, and nothing else may be in flight to change that user.  *)

Alone == \A c, d \in Calls : held[c] # NoJob /\ held[d] # NoJob => c = d

RefreshIsCurrent ==
  \A c \in Refreshing : tokenData # NoData /\ held[c].token = tokenData.userId

SerialInv == Alone /\ RefreshIsCurrent /\ TokensOfTheUser

\* A call begins on an idle manager, or the only call goes on to held j.
LEMMA OneCall ==
  ASSUME AuthTypeOK, Serial, Alone, NEW c \in Calls, FreeSlot(c) \/ held[c] # NoJob,
         NEW j \in Jobs \cup {NoJob}, held' = [held EXCEPT ![c] = j]
  PROVE  /\ Alone'
         /\ Refreshing' \subseteq {c}
         /\ c \in Refreshing' => j # NoJob /\ j.awaits = "refresh" /\ held'[c] = j
<1>1. held'[c] = j /\ \A d \in Calls \ {c} : held'[d] = NoJob
  <2>1. \A d \in Calls \ {c} : held[d] = NoJob
    BY DEF FreeSlot, Alone
  <2> QED
    BY <2>1, CallTypes
<1> QED
  BY <1>1 DEF Alone, Refreshing, Awaits

LEMMA SerialNext == Serial /\ AuthTypeOK /\ SerialInv /\ [AuthNext]_authVars => SerialInv'
<1> SUFFICES ASSUME Serial, AuthTypeOK, SerialInv, [AuthNext]_authVars
             PROVE  SerialInv'
  OBVIOUS
<1> USE DEF SerialInv
<1>1. ASSUME NEW c \in Calls, NEW u \in Users, Login(c, u)
      PROVE  SerialInv'
  <2>1. PICK j \in Jobs : j.awaits = "login" /\ held' = [held EXCEPT ![c] = j]
    <3>1. [awaits |-> "login", user |-> u] \in Jobs
      BY DEF Jobs
    <3> QED
      BY <1>1, <3>1, Zenon DEF Login, Goto
  <2> QED
    BY <1>1, <2>1, OneCall DEF Login, RefreshIsCurrent, TokensOfTheUser
<1>2. ASSUME NEW c \in Calls, Logout(c)
      PROVE  SerialInv'
  <2>1. PICK j \in Jobs : j.awaits = "logout" /\ held' = [held EXCEPT ![c] = j]
    <3>1. [awaits |-> "logout"] \in Jobs
      BY DEF Jobs
    <3> QED
      BY <1>2, <3>1, Zenon DEF Logout, Goto
  <2> QED
    BY <1>2, <2>1, OneCall DEF Logout, RefreshIsCurrent, TokensOfTheUser
<1>3. ASSUME NEW c \in Calls, RefreshToken(c)
      PROVE  SerialInv'
  <2>1. PICK j \in Jobs : j.token = tokenData.refreshToken /\ held' = [held EXCEPT ![c] = j]
    <3>1. [awaits |-> "refresh", token |-> tokenData.refreshToken] \in Jobs
      BY <1>3 DEF RefreshToken, Jobs, AuthTypeOK, TokenData
    <3> QED
      BY <1>3, <3>1, Zenon DEF RefreshToken, Goto
  <2> QED
    BY <1>3, <2>1, OneCall DEF RefreshToken, RefreshIsCurrent, TokensOfTheUser
<1>4. ASSUME NEW c \in Calls, LoginAnswered(c), tokenData # NoData
      PROVE  SerialInv'
  <2>1. held[c] # NoJob
    BY <1>4 DEF LoginAnswered, Awaits
  <2>2. PICK j \in Jobs : j.awaits = "me" /\ held' = [held EXCEPT ![c] = j]
    <3>1. held[c] \in Jobs /\ held[c].user \in Users
      BY <1>4, JobShape DEF LoginAnswered, Awaits, AuthTypeOK
    <3>2. [awaits |-> "me", user |-> held[c].user, token |-> tokenData.accessToken] \in Jobs
      BY <1>4, <3>1 DEF Jobs, AuthTypeOK, TokenData
    <3> QED
      BY <1>4, <3>2, Zenon DEF LoginAnswered, Goto
  <2> QED
    BY <1>4, <2>1, <2>2, OneCall DEF LoginAnswered, RefreshIsCurrent, TokensOfTheUser
<1>5. ASSUME NEW c \in Calls, held[c] # NoJob, Return(c), TokensOfTheUser'
      PROVE  SerialInv'
  BY <1>5, OneCall DEF Return, RefreshIsCurrent
<1>6. ASSUME NEW u, NEW tenant, tokenData' = NewData(u, tenant)
      PROVE  TokensOfTheUser'
  BY <1>6 DEF NewData, TokensOfTheUser
<1>7. ASSUME NEW c \in Calls, LoginFails(c) \/ RefreshFails(c) \/ LogoutReturns(c)
      PROVE  SerialInv'
  BY <1>5, <1>7 DEF LoginFails, LoginReturns, RefreshFails, RefreshReturns, LogoutReturns,
                    Awaits, TokensOfTheUser
<1>8. ASSUME NEW c \in Calls, (LoginAnswered(c) /\ tokenData = NoData) \/ MeAnswered(c)
      PROVE  SerialInv'
  <2>1. held[c] # NoJob /\ Return(c)
    BY <1>8 DEF LoginAnswered, MeAnswered, LoginReturns, Awaits
  <2>2. TokensOfTheUser'
    BY <1>6, <1>8 DEF LoginAnswered, MeAnswered
  <2> QED
    BY <1>5, <2>1, <2>2
<1>9. ASSUME NEW c \in Calls, RefreshAnswered(c)
      PROVE  SerialInv'
  <2>1. held[c] # NoJob /\ Return(c) /\ c \in Refreshing
    BY <1>9 DEF RefreshAnswered, RefreshReturns, Awaits, Refreshing
  <2>2. TokensOfTheUser'
    BY <1>9, <2>1 DEF RefreshAnswered, RefreshIsCurrent, TokensOfTheUser, AuthTypeOK, TokenData
  <2> QED
    BY <1>5, <2>1, <2>2
<1>10. CASE UNCHANGED authVars
  BY <1>10 DEF authVars, Alone, RefreshIsCurrent, TokensOfTheUser, Refreshing, Awaits
<1> QED
  BY <1>1, <1>2, <1>3, <1>4, <1>7, <1>8, <1>9, <1>10 DEF AuthNext, Settles

\* Callers that wait for each other always find the tokens of the user who is
\* logged in.  The assumption is needed: the answer to a refresh goes into
\* whatever tokenData is by then, another user's after a login that overlaps.
THEOREM SerialTokens ==
  ASSUME Serial PROVE AuthSpec => []TokensOfTheUser
<1>1. AuthInit => SerialInv
  BY DEF AuthInit, SerialInv, Alone, RefreshIsCurrent, TokensOfTheUser, Refreshing, Awaits
<1>2. AuthTypeOK /\ SerialInv /\ [AuthNext]_authVars => SerialInv'
  BY SerialNext
<1>3. SerialInv => TokensOfTheUser
  BY DEF SerialInv
<1> QED
  BY <1>1, <1>2, <1>3, TypeCorrect, PTL DEF AuthSpec

-----------------------------------------------------------------------------
(* What ChainsEnd says of an active token, for every token ever signed:    *)
(* what has expired may still be what another one was made from.           *)
FromPair(t, p) ==
  /\ p.sub = t.sub /\ p.roles = t.roles
  /\ IF t.tokenType = "refresh" THEN t.exp = p.at + RefreshExpiry
     ELSE t.exp < p.at + RefreshExpiry + AccessExpiry \/ t.exp = p.at + AccessExpiry

ChainInv ==
  /\ OAuthTypeOK
  /\ \A t \in signed : \E p \in pairs : FromPair(t, p)

(* A token that is signed is a token, valid for as long as it was asked.   *)
LEMMA SignedIsAToken ==
  ASSUME OAuthTypeOK,
         NEW sub \in Subjects, NEW roles \in Roles,
         NEW type \in {"access", "refresh"}, NEW expiresIn \in Nat
  PROVE  /\ SignToken(sub, roles, type, expiresIn) \in JwtToken
         /\ SignToken(sub, roles, type, expiresIn).sub = sub
         /\ SignToken(sub, roles, type, expiresIn).roles = roles
         /\ SignToken(sub, roles, type, expiresIn).tokenType = type
         /\ SignToken(sub, roles, type, expiresIn).exp = second + expiresIn
<1>1. second \in Nat /\ second + expiresIn \in Nat
  BY ExpiriesAreNat DEF OAuthTypeOK
<1> QED
  BY <1>1 DEF SignToken, JwtToken

(* A new pair is what its own two tokens go back to.                       *)
LEMMA GeneratePairStep ==
  ASSUME ChainInv, NEW s \in Subjects, NEW r \in Roles, GeneratePair(s, r)
  PROVE  ChainInv'
<1> DEFINE a == SignToken(s, r, "access", AccessExpiry)
           f == SignToken(s, r, "refresh", RefreshExpiry)
           p0 == [sub |-> s, roles |-> r, at |-> second]
<1>1. AccessExpiry \in Nat /\ RefreshExpiry \in Nat /\ second \in Nat
  BY ExpiriesAreNat DEF ChainInv, OAuthTypeOK
<1>2. /\ a \in JwtToken /\ a.sub = s /\ a.roles = r
      /\ a.tokenType = "access" /\ a.exp = second + AccessExpiry
  BY <1>1, SignedIsAToken DEF ChainInv
<1>3. /\ f \in JwtToken /\ f.sub = s /\ f.roles = r
      /\ f.tokenType = "refresh" /\ f.exp = second + RefreshExpiry
  BY <1>1, SignedIsAToken DEF ChainInv
<1>4. /\ signed' = signed \cup {a, f} /\ pairs' = pairs \cup {p0}
      /\ keys' = keys /\ second' = second
  BY DEF GeneratePair
<1>5. p0 \in [sub: Subjects, roles: Roles, at: Nat]
      /\ p0.sub = s /\ p0.roles = r /\ p0.at = second
  BY <1>1
<1> HIDE DEF a, f, p0
<1>6. OAuthTypeOK'
  BY <1>2, <1>3, <1>4, <1>5 DEF ChainInv, OAuthTypeOK
<1>7. FromPair(a, p0) /\ FromPair(f, p0)
  BY <1>2, <1>3, <1>5 DEF FromPair
<1>8. \A t \in signed' : \E p \in pairs' : FromPair(t, p)
  BY <1>4, <1>7 DEF ChainInv
<1> QED
  BY <1>6, <1>8 DEF ChainInv, FromPair

(* An access token made from a refresh token was made before that one      *)
(* expired, so it goes back to the same pair.                              *)
LEMMA RefreshStep ==
  ASSUME ChainInv, NEW t \in signed, RefreshAccessToken(t)
  PROVE  ChainInv'
<1> DEFINE a == SignToken(t.sub, t.roles, "access", AccessExpiry)
<1>1. /\ AccessExpiry \in Nat /\ RefreshExpiry \in Nat /\ second \in Nat
      /\ t \in JwtToken
  BY ExpiriesAreNat DEF ChainInv, OAuthTypeOK
<1>2. t.sub \in Subjects /\ t.roles \in Roles /\ t.exp \in Nat
  BY <1>1 DEF JwtToken
<1>3. /\ a \in JwtToken /\ a.sub = t.sub /\ a.roles = t.roles
      /\ a.tokenType = "access" /\ a.exp = second + AccessExpiry
  BY <1>1, <1>2, SignedIsAToken DEF ChainInv
<1>4. /\ signed' = signed \cup {a} /\ pairs' = pairs
      /\ keys' = keys /\ second' = second
      /\ second < t.exp /\ t.tokenType = "refresh"
  BY DEF RefreshAccessToken, VerifyToken
<1> HIDE DEF a
<1>5. PICK p \in pairs : FromPair(t, p)
  BY DEF ChainInv
<1>6. p.at \in Nat /\ t.exp = p.at + RefreshExpiry
  BY <1>4, <1>5 DEF FromPair, ChainInv, OAuthTypeOK
<1>7. FromPair(a, p)
  BY <1>1, <1>2, <1>3, <1>4, <1>5, <1>6 DEF FromPair
<1>8. OAuthTypeOK'
  BY <1>3, <1>4 DEF ChainInv, OAuthTypeOK
<1>9. \A u \in signed' : \E q \in pairs' : FromPair(u, q)
  BY <1>4, <1>7 DEF ChainInv
<1> QED
  BY <1>8, <1>9 DEF ChainInv, FromPair

(* The type invariant and the chain behind every token, inductively.       *)
LEMMA ChainInvariant == OAuthSpec => []ChainInv
<1>1. OAuthInit => ChainInv
  BY ExpiriesAreNat DEF OAuthInit, ChainInv, OAuthTypeOK
<1>2. ChainInv /\ [OAuthNext]_oauthVars => ChainInv'
  <2> SUFFICES ASSUME ChainInv, [OAuthNext]_oauthVars PROVE ChainInv'
    OBVIOUS
  <2>1. CASE \E s \in Subjects, r \in Roles : GeneratePair(s, r)
    BY <2>1, GeneratePairStep
  <2>2. CASE \E t \in signed : RefreshAccessToken(t)
    BY <2>2, RefreshStep
  <2>3. CASE SecondPasses
    BY <2>3, ExpiriesAreNat DEF SecondPasses, ChainInv, OAuthTypeOK, FromPair
  <2>4. CASE UNCHANGED oauthVars
    BY <2>4 DEF oauthVars, ChainInv, OAuthTypeOK, FromPair
  <2> QED
    BY <2>1, <2>2, <2>3, <2>4 DEF OAuthNext
<1> QED
  BY <1>1, <1>2, PTL DEF OAuthSpec

(* The tokens of the OAuth application, and the pairs in its history, keep *)
(* their types (jwt.service.ts of mcp-auth).                               *)
THEOREM OAuthTypeCorrect == OAuthSpec => []OAuthTypeOK
BY ChainInvariant, PTL DEF ChainInv

(* However often tokens are refreshed, what introspection calls active     *)
(* goes back to a pair generated for that subject with those roles, within *)
(* the life times of a refresh and an access token.                        *)
THEOREM ChainsEndAlways == OAuthSpec => []ChainsEnd
<1>1. ChainInv => ChainsEnd
  BY DEF ChainInv, ChainsEnd, FromPair
<1> QED
  BY <1>1, ChainInvariant, PTL
=============================================================================
