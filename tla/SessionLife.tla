---------------------------- MODULE SessionLife ----------------------------
(***************************************************************************)
(* What the session store promises of a session, whatever the calls that   *)
(* overlap: it is created once, it lives, and once it is gone (deleted,    *)
(* expired or cleared) no call brings it back.                             *)
(***************************************************************************)
CONSTANT Ids   \* the ids generateSessionId can give out

VARIABLE life  \* life[id]: what has become of the session

Init == life = [id \in Ids |-> "unborn"]

Create(id) ==
  /\ life[id] = "unborn"
  /\ life' = [life EXCEPT ![id] = "live"]

\* One call may remove several sessions.
Remove(S) ==
  /\ \A id \in S : life[id] = "live"
  /\ life' = [id \in Ids |-> IF id \in S THEN "gone" ELSE life[id]]

Next == (\E id \in Ids : Create(id)) \/ (\E S \in SUBSET Ids : Remove(S))

Spec == Init /\ [][Next]_life
=============================================================================
