------------------------------- MODULE Tokens -------------------------------
(***************************************************************************)
(* The signed tokens of the API: issued by login and refresh, checked by   *)
(* the guards in front of every route that is not public, and withdrawn by *)
(* logout through a key in Redis that lives as long as the token.          *)
(*                                                                         *)
(* Time is counted in ticks, PerSecond of them to a second, because the    *)
(* token carries whole seconds, the key gets whole seconds, and both are   *)
(* computed from a clock that is finer.                                    *)
(***************************************************************************)
EXTENDS Server, Integers

CONSTANTS
  TokenIds,
  Subs,         \* the users, as the payload names them
  PerSecond,    \* ticks in a second
  AccessLife,   \* seconds an access token is valid for
  RefreshLife,  \* seconds a refresh token is valid for
  Horizon       \* bound: the last tick

ASSUME TimesAreNat ==
  /\ PerSecond \in Nat \ {0}
  /\ AccessLife \in Nat \ {0} /\ RefreshLife \in Nat \ {0}
  /\ Horizon \in Nat

VARIABLES
  now,
  token,   \* what has been signed
  black,   \* jwt:blacklist: the tick a key lives to, 0 when there is none
  redis,   \* whether the client of Redis is there and answers
  req,     \* where each request is
  revoked  \* history variable: tokens whose withdrawal Redis has confirmed

tokVars == <<now, token, black, redis, req, revoked>>

Token == [kind: {"access", "refresh"}, sub: Subs, exp: Nat]

(* The client is made once: "off" when that failed, otherwise it answers   *)
(* or its calls are rejected.                                              *)
RedisStates == {"off", "up", "down"}

(* AuthController: the routes behind @Public and the others. *)
PublicRoutes == {"login", "register", "refresh", "forgotPassword", "resetPassword", "verifyEmail"}
GuardedRoutes ==
  {"me", "logout", "changePassword", "bindOAuthAccount", "unbindOAuthAccount", "oauthAccounts"}

(* These ask for req.user.id, a field the payload of a token does not have. *)
NeedsUserId == GuardedRoutes \ {"me", "logout"}

Request ==
  {Idle}
    \cup [op: {"check", "verify", "handler"}, route: GuardedRoutes, token: TokenIds]
    \cup [op: {"setex"}, token: TokenIds, seconds: Nat \ {0}]
    \cup [op: {"refreshCheck", "reissue"}, token: TokenIds]

TokTypeOK ==
  /\ now \in 0 .. Horizon
  /\ token \in [TokenIds -> Token \cup {Nothing}]
  /\ black \in [TokenIds -> Nat]
  /\ redis \in RedisStates
  /\ req \in [Requests -> Request]
  /\ revoked \in SUBSET TokenIds

TokInit ==
  /\ now = 0
  /\ token = [t \in TokenIds |-> Nothing]
  /\ black = [t \in TokenIds |-> 0]
  /\ redis \in {"off", "up"}
  /\ req = [r \in Requests |-> Idle]
  /\ revoked = {}

Signed == {t \in TokenIds : token[t] # Nothing}
Second == now \div PerSecond

IsAvailable == redis # "off"
IsBlacklisted(t) == redis = "up" /\ black[t] > now

(* verify: the signature's kind is right and the token has not expired. *)
Verifies(t, kind) == t \in Signed /\ token[t].kind = kind /\ Second < token[t].exp

Goto(r, place) ==
  /\ req' = [req EXCEPT ![r] = place]
  /\ UNCHANGED <<now, token, black, redis, revoked>>

GenerateTokenPair(u, a, f) ==
  /\ a # f /\ a \notin Signed /\ f \notin Signed
  /\ token' = [token EXCEPT
       ![a] = [kind |-> "access", sub |-> u, exp |-> Second + AccessLife],
       ![f] = [kind |-> "refresh", sub |-> u, exp |-> Second + RefreshLife]]

(* login and register answer with a pair. *)
IssuePair(u, a, f) ==
  /\ GenerateTokenPair(u, a, f)
  /\ UNCHANGED <<now, black, redis, req, revoked>>

-----------------------------------------------------------------------------
(* AuthGuard.canActivate: first the blacklist, then, when that has         *)
(* answered, the signature.                                                *)
Arrive(r, route, t) ==
  /\ req[r] = Idle
  /\ Goto(r, [op |-> IF IsAvailable THEN "check" ELSE "verify", route |-> route, token |-> t])

CheckBlacklist(r) ==
  /\ req[r].op = "check"
  /\ Goto(r, IF IsBlacklisted(req[r].token) THEN Idle ELSE [req[r] EXCEPT !.op = "verify"])

Verify(r) ==
  /\ req[r].op = "verify"
  /\ Goto(r, IF Verifies(req[r].token, "access") THEN [req[r] EXCEPT !.op = "handler"] ELSE Idle)

(* me answers the payload; the routes that need an id refuse. *)
Serve(r) ==
  /\ req[r].op = "handler"
  /\ req[r].route \in NeedsUserId \cup {"me"}
  /\ Goto(r, Idle)

(* logout: the seconds the token has left, rounded down; with none left    *)
(* nothing is kept.                                                        *)
SecondsLeftShort(t) == (token[t].exp * PerSecond - now) \div PerSecond - 1
SecondsLeft(t) == (token[t].exp * PerSecond - now) \div PerSecond

Logout(r) ==
  /\ req[r].op = "handler"
  /\ req[r].route = "logout"
  /\ LET t == req[r].token IN
       Goto(r, IF IsAvailable /\ Verifies(t, "access") /\ SecondsLeft(t) > 0
                 THEN [op |-> "setex", token |-> t, seconds |-> SecondsLeft(t)]
                 ELSE Idle)

(* JwtBlacklistService.add: the key lives from when Redis gets the command. *)
Add(r) ==
  /\ req[r].op = "setex"
  /\ LET t == req[r].token IN
       IF redis = "up"
         THEN /\ black' = [black EXCEPT ![t] = now + req[r].seconds * PerSecond]
              /\ revoked' = revoked \cup {t}
         ELSE UNCHANGED <<black, revoked>>
  /\ req' = [req EXCEPT ![r] = Idle]
  /\ UNCHANGED <<now, token, redis>>

(* remove and clear take tokens off the list again. *)
Remove(t) ==
  /\ redis = "up"
  /\ black' = [black EXCEPT ![t] = 0]
  /\ revoked' = revoked \ {t}
  /\ UNCHANGED <<now, token, redis, req>>

Clear ==
  /\ redis = "up"
  /\ black' = [t \in TokenIds |-> 0]
  /\ revoked' = {}
  /\ UNCHANGED <<now, token, redis, req>>

-----------------------------------------------------------------------------
(* refreshToken: here the signature is checked first. *)
RefreshToken(r, t) ==
  /\ req[r] = Idle
  /\ Verifies(t, "refresh")
  /\ Goto(r, [op |-> IF IsAvailable THEN "refreshCheck" ELSE "reissue", token |-> t])

RefreshCheck(r) ==
  /\ req[r].op = "refreshCheck"
  /\ Goto(r, IF IsBlacklisted(req[r].token) THEN Idle ELSE [req[r] EXCEPT !.op = "reissue"])

(* A new pair; the old refresh token stays as good as it was. *)
Reissue(r, a, f) ==
  /\ req[r].op = "reissue"
  /\ GenerateTokenPair(token[req[r].token].sub, a, f)
  /\ req' = [req EXCEPT ![r] = Idle]
  /\ UNCHANGED <<now, black, redis, revoked>>

-----------------------------------------------------------------------------
Tick ==
  /\ now < Horizon
  /\ now' = now + 1
  /\ UNCHANGED <<token, black, redis, req, revoked>>

(* The connection goes and comes back; Redis keeps its keys. *)
Connection ==
  /\ redis # "off"
  /\ redis' = IF redis = "up" THEN "down" ELSE "up"
  /\ UNCHANGED <<now, token, black, req, revoked>>

Handles(r) ==
  \/ \E route \in GuardedRoutes, t \in TokenIds : Arrive(r, route, t)
  \/ CheckBlacklist(r) \/ Verify(r) \/ Serve(r) \/ Logout(r) \/ Add(r)
  \/ \E t \in TokenIds : RefreshToken(r, t)
  \/ RefreshCheck(r)
  \/ \E a, f \in TokenIds : Reissue(r, a, f)

TokNext ==
  \/ \E u \in Subs, a, f \in TokenIds : IssuePair(u, a, f)
  \/ \E r \in Requests : Handles(r)
  \/ \E t \in TokenIds : Remove(t)
  \/ Clear \/ Tick \/ Connection

TokSpec == TokInit /\ [][TokNext]_tokVars

-----------------------------------------------------------------------------
(* A token whose logout Redis has confirmed stays on the list until its    *)
(* last second, though the time to live is rounded down to whole seconds   *)
(* and is counted from a later moment than it was computed at.             *)
RevokedToTheLastSecond ==
  \A t \in revoked :
    now + PerSecond <= token[t].exp * PerSecond => black[t] > now
=============================================================================
