------------------------------ MODULE MCDataConn -----------------------------
(***************************************************************************)
(* DataConn for TLC.                                                       *)
(***************************************************************************)
EXTENDS DataConn

(* No blob; an empty one and one of two blocks; one of three and one of    *)
(* one.                                                                    *)
SomeBlobs == {<<>>, <<0, 2>>, <<3, 1>>}

==============================================================================
