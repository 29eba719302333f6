---------------------------- MODULE MCNeighbours ----------------------------
(***************************************************************************)
(* Three neighbours that are heard at six points a metre apart, one of     *)
(* them also when the sender is a bit further on, and a node that moves    *)
(* among four places, two of them off those points.  Positions are in half *)
(* metres.                                                                 *)
(***************************************************************************)
EXTENDS Neighbours

MCAddrs == 1 .. 3
MCPositions == {0, 2, 4} \X {0, 2} \cup {<<3, 1>>}
MCMyPositions == {<<0, 0>>, <<2, 0>>, <<3, 1>>, <<4, 3>>}
=============================================================================
