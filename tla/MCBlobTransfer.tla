---------------------------- MODULE MCBlobTransfer ---------------------------
(***************************************************************************)
(* Instances of BlobTransfer for TLC.  A connection slot is <<from, to, k>>*)
(***************************************************************************)
EXTENDS BlobTransfer

CONSTANTS a, b, c

SlotSrc == [k \in Conn |-> k[1]]
SlotDst == [k \in Conn |-> k[2]]

(* c gets what a uploads from b ...                                        *)
Chain == {<<a, b, 1>>, <<b, c, 1>>}
(* ... which a may dial again while an old handler is still busy.          *)
Redial == {<<a, b, 1>>, <<a, b, 2>>, <<b, c, 1>>}
(* Members of a room dial each other.                                      *)
Mutual == {<<a, b, 1>>, <<b, a, 1>>}

AllByA == [k \in Blob |-> a]

=============================================================================
