----------------------------- MODULE MCShipped -----------------------------
(* Constants of the TLC run of Shipped. *)
EXTENDS Shipped

\* The operations REST exposes (plugin.controller.ts:104-165).
RestOps == {"enable", "disable", "reload"}
=============================================================================
