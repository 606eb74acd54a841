------------------------------ MODULE MCRegistry -----------------------------
(***************************************************************************)
(* Registry for TLC.                                                       *)
(***************************************************************************)
EXTENDS Registry, TLC

CONSTANTS handler, x, y

(* A contact handler, a frontend, and another one that deletes rooms.      *)
Calls ==
  (handler :> {"invited"}) @@ (x :> (Op \ {"invited"})) @@ (y :> {"delete"})

==============================================================================
