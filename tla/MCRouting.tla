------------------------------ MODULE MCRouting ------------------------------
(***************************************************************************)
(* The networks of the examples with their graph type 0, and six nodes     *)
(* with graph type 1: source and destination have fixed places on five by  *)
(* four positions, the relays are on any four of the others, in the order  *)
(* of their addresses.  The radio reaches a little more than 100 m, which  *)
(* is the distance between neighbours in most of the examples, and the     *)
(* square root of 5 in units of 50 m.                                      *)
(***************************************************************************)
EXTENDS Examples

MCAddrs == 1 .. 100
MCGrid == ((0 .. 18) \X (0 .. 18)) \cup {Away}

Columns == 5
Rows == 4
West == <<0, 1>>
East == <<4, 1>>

Cell(i) == <<i \div Rows, i % Rows>>
Free == {i \in 0 .. Columns * Rows - 1 : Cell(i) \notin {West, East}}

Networks ==
  {<<West, Cell(r[1]), Cell(r[2]), Cell(r[3]), Cell(r[4]), East>> :
     r \in {r \in Free \X Free \X Free \X Free :
              r[1] < r[2] /\ r[2] < r[3] /\ r[3] < r[4]}}

Voids == {[position |-> p, src |-> 1, dst |-> 6, graphType |-> 1] : p \in Networks}

MCScenarios == Voids \cup AllTests
=============================================================================
