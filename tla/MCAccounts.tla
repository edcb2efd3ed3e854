----------------------------- MODULE MCAccounts -----------------------------
(***************************************************************************)
(* The auth plugin: accounts, tokens and grants.  They share no state, so  *)
(* one of them runs at a time (subject) and the others stay as they are; a *)
(* behaviour of the three together is an interleaving of theirs.  The      *)
(* tokens run twice: one request at a time with all tokens, and two        *)
(* requests with two tokens.                                               *)
(***************************************************************************)
EXTENDS Accounts, Tokens, Grants, TLC

VARIABLE subject

mcVars == <<subject, accVars, tokVars, grantVars>>

Init ==
  /\ AccInit /\ GrantInit /\ TokInit
  /\ subject \in {"accounts", "grants", "long", "wide"}
  /\ subject \in {"accounts", "grants"} => redis = "up"

OneRequest == Cardinality({r \in Requests : req'[r] # Idle}) <= 1
TwoTokens == Cardinality({t \in TokenIds : token'[t] # Nothing}) <= 2

\* Tokens and rows of permission are numbered, and drawn in order: a renaming
\* of their keys is the same behaviour.
InOrder(S) == S = 1 .. Cardinality(S)
Drawn == InOrder({t \in TokenIds : token'[t] # Nothing}) /\ InOrder(drawn' \cap PermissionIds)

Next ==
  /\ UNCHANGED subject
  /\ \/ subject = "accounts" /\ AccNext /\ UNCHANGED <<tokVars, grantVars>>
     \/ subject = "grants" /\ GrantNext /\ UNCHANGED <<accVars, tokVars>>
     \/ subject = "long" /\ TokNext /\ OneRequest /\ UNCHANGED <<accVars, grantVars>>
     \/ subject = "wide" /\ TokNext /\ TwoTokens /\ UNCHANGED <<accVars, grantVars>>
  /\ Drawn

Spec == Init /\ [][Next]_mcVars

TypeOK == AccTypeOK /\ TokTypeOK /\ GrantTypeOK

\* Sound: the modules tell no two members of these sets apart.
Symmetry ==
  Permutations(Passwords) \cup Permutations(Identities) \cup Permutations(LinkIds)
    \cup Permutations(Requests)
=============================================================================
