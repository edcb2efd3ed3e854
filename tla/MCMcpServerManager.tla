------------------------- MODULE MCMcpServerManager -------------------------
(* Constants of the TLC runs of McpServerManager. *)
EXTENDS McpServerManager, TLC

\* Sound for the safety runs: no two of these are told apart.
Symmetry == Permutations(Servers) \cup Permutations(Links) \cup Permutations(Calls)
=============================================================================
