----------------------------- MODULE MCSessions -----------------------------
(* Constants of the TLC runs of Sessions. *)
EXTENDS Sessions, TLC

\* Sound for the safety runs: no two of these are told apart.
Symmetry == Permutations(Ids) \cup Permutations(Users) \cup Permutations(Fields)
              \cup Permutations(Calls)
=============================================================================
