--------------------------- MODULE MCPlanarGraph ---------------------------
(***************************************************************************)
(* Four nodes anywhere on a grid of four by three positions.  The range of *)
(* the square root of 5 makes opposite corners and the two ends of the     *)
(* long side deaf to each other.                                           *)
(***************************************************************************)
EXTENDS PlanarGraph

MCAddrs == 1 .. 4
MCGrid == (0 .. 3) \X (0 .. 2)
=============================================================================
