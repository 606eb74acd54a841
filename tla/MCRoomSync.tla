----------------------------- MODULE MCRoomSync -----------------------------
(***************************************************************************)
(* Instances of RoomSync for TLC.  A connection slot is <<from, to, k>>,   *)
(* an API goroutine <<member, k>>.                                         *)
(***************************************************************************)
EXTENDS RoomSync

CONSTANTS a, b, c

SlotSrc == [k \in Conn |-> k[1]]
SlotDst == [k \in Conn |-> k[2]]
ApiHome == [k \in Api |-> k[1]]

(* a sends to c directly and by way of b.                                  *)
Relay == {<<a, b, 1>>, <<a, c, 1>>, <<b, c, 1>>}
(* Only a sends, over one connection at a time ...                         *)
OneWay == {<<a, b, 1>>}
(* ... or dialling again while an old handler is still busy.               *)
Redial == {<<a, b, 1>>, <<a, b, 2>>}

ApiA == {<<a, 1>>}
ApiTwoAtA == {<<a, 1>>, <<a, 2>>}

=============================================================================
