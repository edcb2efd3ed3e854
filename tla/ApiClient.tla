------------------------------ MODULE ApiClient ------------------------------
(***************************************************************************)
(* The ApiClient of the MCP servers: its requests with the interceptors    *)
(* around them, login, logout and testConnection, which asks up to three   *)
(* health end points and then logs in.                                     *)
(*                                                                         *)
(* axios resolves to a response that holds the body under data.  get and   *)
(* post of the client give data to their callers; login awaits the axios   *)
(* instance itself and looks for token, refresh_token and user on the      *)
(* response, where they never are.  So tokenData stays null, no request    *)
(* carries a token, and refreshToken ends at its second test; what comes   *)
(* after that test is not modelled.                                        *)
(***************************************************************************)
EXTENDS Naturals, FiniteSets

CONSTANTS
  Clients,  \* bound: calls in flight
  NoToken   \* no tokenData; a field that is not there

HealthEndpoints == 3

VARIABLES
  autoLogin,       \* GAUZY_AUTO_LOGIN is set
  hasCredentials,  \* GAUZY_AUTH_EMAIL and GAUZY_AUTH_PASSWORD are set
  token,           \* this.tokenData
  loginBusy,       \* this.isLoginInProgress
  refreshBusy,     \* this.isRefreshInProgress
  client,          \* where each call is
  verdict          \* what the last testConnection of each caller has answered

clientVars == <<autoLogin, hasCredentials, token, loginBusy, refreshBusy, client, verdict>>

ClientPlace ==
  [op: {"idle", "login", "testLogin"}]
    \cup [op: {"request"}, authPath: BOOLEAN, bearer: {NoToken}]
    \cup [op: {"test"}, tried: 1 .. HealthEndpoints]

ClientTypeOK ==
  /\ {autoLogin, hasCredentials, loginBusy, refreshBusy} \subseteq BOOLEAN
  /\ token = NoToken
  /\ client \in [Clients -> ClientPlace]
  /\ verdict \in [Clients -> {"none", "success", "failure"}]

ClientInit ==
  /\ autoLogin \in BOOLEAN /\ hasCredentials \in BOOLEAN
  /\ token = NoToken
  /\ loginBusy = FALSE /\ refreshBusy = FALSE
  /\ client = [c \in Clients |-> [op |-> "idle"]]
  /\ verdict = [c \in Clients |-> "none"]

Config == <<autoLogin, hasCredentials>>
Has(c, op) == client[c].op = op
Turn(c, place) == client' = [client EXCEPT ![c] = place]
Ends(c) == Turn(c, [op |-> "idle"])

(* calculateTokenExpiry and the ten seconds of grace do not matter while   *)
(* there is no token.                                                      *)
IsAuthenticated == token # NoToken

(* refreshToken answers false at once, whether one is in flight or not,    *)
(* and its finally leaves the flag down; so does ensureValidToken.         *)
RefreshAnswers == token # NoToken /\ ~refreshBusy
EnsureValidToken == IsAuthenticated \/ RefreshAnswers

(* The request interceptor. *)
Bearer(authPath) ==
  IF ~authPath /\ ~loginBusy /\ ~refreshBusy /\ EnsureValidToken THEN token ELSE NoToken

-----------------------------------------------------------------------------
(* get, post, put, delete and patch. *)
SendRequest(c, authPath) ==
  /\ Has(c, "idle")
  /\ Turn(c, [op |-> "request", authPath |-> authPath, bearer |-> Bearer(authPath)])
  /\ UNCHANGED <<Config, token, loginBusy, refreshBusy, verdict>>

(* A 401 outside /auth/ and /login asks for a refresh and is sent again    *)
(* when there is one; everything else ends the call.                       *)
RequestSettles(c, status) ==
  /\ Has(c, "request")
  /\ IF status = 401 /\ ~client[c].authPath /\ RefreshAnswers
       THEN Turn(c, [client[c] EXCEPT !.bearer = token])
       ELSE Ends(c)
  /\ UNCHANGED <<Config, token, loginBusy, refreshBusy, verdict>>

(* login answers false while one is in flight; this one is given its       *)
(* credentials, or finds them.                                             *)
ClientLogin(c) ==
  /\ Has(c, "idle")
  /\ ~loginBusy
  /\ loginBusy' = TRUE
  /\ Turn(c, [op |-> "login"])
  /\ UNCHANGED <<Config, token, refreshBusy, verdict>>

(* What axios resolves to, and what a field of it is. *)
AxiosResponse(body) == [data |-> body]
Field(r, name) == IF name \in DOMAIN r THEN r[name] ELSE NoToken

LoginBody == [token |-> "jwt", refresh_token |-> "jwt", user |-> "user"]
Kept(r) == \A name \in {"token", "refresh_token", "user"} : Field(r, name) # NoToken

(* The request of login is answered, or fails: the flag comes down.        *)
LoginEnds(c) ==
  /\ loginBusy' = FALSE
  /\ \E ok \in BOOLEAN :
       token' = IF ok /\ Kept(AxiosResponse(LoginBody)) THEN "jwt" ELSE token

ClientLoginSettles(c) ==
  /\ Has(c, "login")
  /\ LoginEnds(c)
  /\ Ends(c)
  /\ UNCHANGED <<Config, refreshBusy, verdict>>

ClientLogout(c) ==
  /\ Has(c, "idle")
  /\ token' = NoToken
  /\ UNCHANGED <<Config, loginBusy, refreshBusy, client, verdict>>

-----------------------------------------------------------------------------
TestConnection(c) ==
  /\ Has(c, "idle")
  /\ Turn(c, [op |-> "test", tried |-> 1])
  /\ UNCHANGED <<Config, token, loginBusy, refreshBusy, verdict>>

Conclude(c, v) == Ends(c) /\ verdict' = [verdict EXCEPT ![c] = v]

HealthFails(c) ==
  /\ Has(c, "test")
  /\ IF client[c].tried < HealthEndpoints
       THEN Turn(c, [client[c] EXCEPT !.tried = @ + 1]) /\ UNCHANGED verdict
       ELSE Conclude(c, "failure")
  /\ UNCHANGED <<Config, token, loginBusy, refreshBusy>>

(* A login that is in flight already is taken for a success. *)
HealthAnswers(c) ==
  /\ Has(c, "test")
  /\ IF autoLogin /\ ~IsAuthenticated /\ ~loginBusy
       THEN IF hasCredentials
              THEN loginBusy' = TRUE /\ Turn(c, [op |-> "testLogin"]) /\ UNCHANGED verdict
              ELSE Conclude(c, "failure") /\ UNCHANGED loginBusy
       ELSE Conclude(c, "success") /\ UNCHANGED loginBusy
  /\ UNCHANGED <<Config, token, refreshBusy>>

TestIgnoresLogin(c) ==
  /\ Has(c, "testLogin")
  /\ LoginEnds(c)
  /\ Conclude(c, "success")
  /\ UNCHANGED <<Config, refreshBusy>>

TestLoginSettles(c) ==
  /\ Has(c, "testLogin")
  /\ LoginEnds(c)
  /\ Conclude(c, IF token' # NoToken THEN "success" ELSE "failure")
  /\ UNCHANGED <<Config, refreshBusy>>

ClientNext ==
  \E c \in Clients :
    \/ \E a \in BOOLEAN : SendRequest(c, a)
    \/ \E status \in {200, 401, 500} : RequestSettles(c, status)
    \/ ClientLogin(c) \/ ClientLoginSettles(c) \/ ClientLogout(c)
    \/ TestConnection(c) \/ HealthFails(c) \/ HealthAnswers(c) \/ TestLoginSettles(c)

ClientSpec == ClientInit /\ [][ClientNext]_clientVars

-----------------------------------------------------------------------------
(* A connection test that has to log in reports success only when the      *)
(* client is authenticated by then, or a login of somebody else is in      *)
(* flight; and two logins are never on the wire together, whoever asks.    *)
TestTellsTheTruth ==
  [][\A c \in Clients :
       /\ verdict'[c] = "success" /\ verdict[c] # "success" /\ autoLogin
            => token' # NoToken \/ loginBusy'
       /\ Cardinality({d \in Clients : client'[d].op \in {"login", "testLogin"}}) <= 1]_clientVars
=============================================================================
