------------------------------- MODULE Server -------------------------------
(***************************************************************************)
(* What the modules of base-api share: the requests that may be in flight  *)
(* at the same time, and the value of a field, row or column that is not   *)
(* there.  Every request has an entity manager of its own; it interleaves  *)
(* with the others at its awaits.                                          *)
(***************************************************************************)
CONSTANTS
  Requests,
  Nothing

(* The place of a request slot that is free. *)
Idle == [op |-> "idle"]
=============================================================================
