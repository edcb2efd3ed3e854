----------------------------- MODULE OAuthTokens -----------------------------
(***************************************************************************)
(* The JwtService of the OAuth application apps/mcp-auth, and what its     *)
(* introspection end point says of a token.  A token is signed for a       *)
(* payload and a time; nothing is kept of it, so whatever has been signed  *)
(* can come back at any later second.                                      *)
(***************************************************************************)
EXTENDS Naturals

CONSTANTS
  Subjects,
  Roles,
  AccessExpiry,   \* JWT_ACCESS_TOKEN_EXPIRY (3600 s)
  RefreshExpiry,  \* JWT_REFRESH_TOKEN_EXPIRY (86400 s)
  LastSecond      \* bound on the clock

ASSUME ExpiriesAreNat == {AccessExpiry, RefreshExpiry, LastSecond} \subseteq Nat

VARIABLES
  keys,    \* which of JWT_PRIVATE_KEY and JWT_PUBLIC_KEY are set, and how
  second,
  signed,  \* every token that has been signed
  pairs    \* history variable: the pairs that were generated

oauthVars == <<keys, second, signed, pairs>>

(* none: generateTestKeys makes one key for both; alike: both are set to   *)
(* one value; private: the public key stays 'test-public-key'.             *)
KeySettings == {"none", "alike", "private"}

JwtToken == [sub: Subjects, roles: Roles, tokenType: {"access", "refresh"}, exp: Nat]

OAuthTypeOK ==
  /\ keys \in KeySettings
  /\ second \in 0 .. LastSecond
  /\ signed \subseteq JwtToken
  /\ pairs \subseteq [sub: Subjects, roles: Roles, at: Nat]

OAuthInit == keys \in KeySettings /\ second = 0 /\ signed = {} /\ pairs = {}

SignToken(sub, roles, type, expiresIn) ==
  [sub |-> sub, roles |-> roles, tokenType |-> type, exp |-> second + expiresIn]

(* The HS256 signature is checked with the public key. *)
SignatureHolds == keys # "private"

VerifyToken(t) == SignatureHolds /\ second < t.exp

GeneratePair(sub, roles) ==
  /\ signed' = signed \cup {SignToken(sub, roles, "access", AccessExpiry),
                            SignToken(sub, roles, "refresh", RefreshExpiry)}
  /\ pairs' = pairs \cup {[sub |-> sub, roles |-> roles, at |-> second]}
  /\ UNCHANGED <<keys, second>>

RefreshAnyToken(t) ==
  /\ VerifyToken(t)
  /\ signed' = signed \cup {SignToken(t.sub, t.roles, "access", AccessExpiry)}
  /\ UNCHANGED <<keys, second, pairs>>

(* The payload is copied without exp and iat. *)
RefreshAccessToken(t) ==
  /\ VerifyToken(t)
  /\ t.tokenType = "refresh"
  /\ signed' = signed \cup {SignToken(t.sub, t.roles, "access", AccessExpiry)}
  /\ UNCHANGED <<keys, second, pairs>>

SecondPasses ==
  /\ second < LastSecond
  /\ second' = second + 1
  /\ UNCHANGED <<keys, signed, pairs>>

(* introspectToken: a refresh token is as active as an access token. *)
Introspect(t) ==
  IF VerifyToken(t) THEN [active |-> TRUE, sub |-> t.sub, exp |-> t.exp] ELSE [active |-> FALSE]

OAuthNext ==
  \/ \E s \in Subjects, r \in Roles : GeneratePair(s, r)
  \/ \E t \in signed : RefreshAccessToken(t)
  \/ SecondPasses

OAuthSpec == OAuthInit /\ [][OAuthNext]_oauthVars

-----------------------------------------------------------------------------
(* However often tokens are refreshed, what is active goes back to a pair  *)
(* that was generated for its subject with its roles, no longer ago than a *)
(* refresh token and an access token last together; and a refresh token is *)
(* never made out of another.                                              *)
ChainsEnd ==
  \A t \in signed : Introspect(t).active =>
    \E p \in pairs :
      /\ p.sub = t.sub /\ p.roles = t.roles
      /\ IF t.tokenType = "refresh" THEN t.exp = p.at + RefreshExpiry
         ELSE t.exp < p.at + RefreshExpiry + AccessExpiry \/ t.exp = p.at + AccessExpiry
=============================================================================
