------------------------------ MODULE Examples ------------------------------
(***************************************************************************)
(* The networks of the example programs (examples/gpsr-test1.cc to         *)
(* gpsr-test9.cc), in units of 50 metres: all positions are whole metres,  *)
(* and so have nothing to lose in a header.  Each program has a definition *)
(* for its CreateNodes, with the values that its constructor gives to      *)
(* size, gridWidth and step, and one for its InstallApplications.  The     *)
(* i-th node of a program, counted from 0, gets the i+1-st address.        *)
(***************************************************************************)
EXTENDS Routing

\* A grid filled row by row.
CreateNodes(size, gridWidth, step) ==
  [a \in 1 .. size |-> <<step * ((a - 1) % gridWidth), step * ((a - 1) \div gridWidth)>>]

\* The nodes are moved out of the way, all of them to one place.
Away == <<2000, 2000>>
Moved(nodes, away) == [a \in DOMAIN nodes |-> IF a - 1 \in away THEN Away ELSE nodes[a]]

\* A UdpEchoClient sends to a server, which sends everything back.  The graph
\* type is the one that GpsrHelper sets by default.
Echo(nodes, client, server) ==
  {[position |-> nodes, src |-> n, dst |-> d, graphType |-> 0] :
     <<n, d>> \in {<<client + 1, server + 1>>, <<server + 1, client + 1>>}}

-----------------------------------------------------------------------------
\* gpsr-test1, two nodes in range, and gpsr-test2, two nodes out of range.
Nodes1 == CreateNodes(2, 2, 2)
Test1 == Echo(Nodes1, 0, 1)

Nodes2 == CreateNodes(2, 2, 4)
Test2 == Echo(Nodes2, 0, 1)

\* gpsr-test3, a square.
Nodes3 == CreateNodes(4, 2, 2)
Test3 == Echo(Nodes3, 0, 3)

\* gpsr-test4, two flows across a full grid.
Nodes4 == CreateNodes(100, 10, 2)
Test4 == Echo(Nodes4, 0, 99) \cup Echo(Nodes4, 91, 9)

\* gpsr-test5, a gap in one of two rows.
Nodes5 == CreateNodes(8, 4, 2)
Test5 == Echo(Moved(Nodes5, {0, 6}), 4, 7)

\* gpsr-test6, a way around two voids.
Nodes6 == CreateNodes(20, 4, 2)
Test6 == Echo(Moved(Nodes6, {5, 6, 10, 12, 13, 14}), 8, 15)

\* gpsr-test7, a hole in the middle that comes half-way through.
Nodes7 == CreateNodes(100, 10, 2)
Test7 ==
  LET hole == {l * 10 + n : l \in 3 .. 6, n \in 3 .. 6}
  IN  Echo(Nodes7, 0, 99) \cup Echo(Moved(Nodes7, hole), 0, 99)

\* gpsr-test8 and gpsr-test9, five by five nodes 50 m apart.
Nodes8 == CreateNodes(25, 5, 1)
Test8 == Echo(Nodes8, 0, 24)

Nodes9 == CreateNodes(25, 5, 1)
Test9 == Echo(Nodes9, 0, 24)

AllTests ==
  UNION {Test1, Test2, Test3, Test4, Test5, Test6, Test7, Test8, Test9}
=============================================================================
