------------------------------ MODULE MCRecovery -----------------------------
(***************************************************************************)
(* Recovery for TLC.                                                       *)
(***************************************************************************)
EXTENDS Recovery

CONSTANTS a, b, c

(* a and b sync with each other, b passes on to c.                         *)
Relay == {<<a, b>>, <<b, a>>, <<b, c>>}

==============================================================================
