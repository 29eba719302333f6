----------------------------- MODULE PlanarGraph -----------------------------
(***************************************************************************)
(* The graphs that recovery mode walks on: every node applies the planar   *)
(* subgraph test of its position table to the neighbours it hears.  Nodes  *)
(* hear each other within the radio range, tables are up to date, and a    *)
(* step moves one node.                                                    *)
(***************************************************************************)
EXTENDS PositionTable

CONSTANTS
  Grid,      \* the positions a node may have
  Range2     \* the square of the radio range

ASSUME GraphAssumption == Grid \subseteq Int \X Int /\ Range2 \in Nat

VARIABLE position   \* the position of each node, as its HELLO tells it

InRange(n, a) == n # a /\ Dist2(position[n], position[a]) <= Range2

\* The table of a node that has just heard a HELLO of everyone around.
Table(n) == [a \in {b \in Addrs : InRange(n, b)} |->
               [pos |-> position[a], age |-> 0]]

Gabriel(n) == GetGabrielNeighbors(Table(n), position[n])
Rng(n) == GetRngNeighbors(Table(n), position[n])

Init == position \in [Addrs -> Grid]

Move(n, p) == position' = [position EXCEPT ![n] = p]

Next == \E n \in Addrs, p \in Grid : Move(n, p)

Spec == Init /\ [][Next]_position

-----------------------------------------------------------------------------
\* Nodes in one place see no edge between them; everything below is about
\* nodes that are apart.
Apart == \A n, a \in Addrs : n # a => position[n] # position[a]

Hears(n) == {a \in Addrs : InRange(n, a)}

\* Both ends of an edge keep it or both drop it, although each decides on
\* its own table: a packet can walk every edge in both directions.
GabrielIsSymmetric ==
  Apart => \A n, a \in Addrs : a \in Gabriel(n) <=> n \in Gabriel(a)

\* Dropping edges separates no two nodes that can reach each other: however
\* the nodes are divided in two, if some node on one side hears one on the
\* other, then an edge leads there, so that the edges alone reach whatever the
\* radio reaches.
GabrielKeepsConnections ==
  Apart => \A S \in SUBSET Addrs :
             (\E n \in S : ~(Hears(n) \subseteq S)) =>
             (\E n \in S : ~(Gabriel(n) \subseteq S))

\* The edges p-q and r-s cross in a point that is an end of neither.
Side(p, q, r) == Cross(<<q[1] - p[1], q[2] - p[2]>>, <<r[1] - p[1], r[2] - p[2]>>)
EdgesCross(p, q, r, s) ==
  /\ Side(p, q, r) * Side(p, q, s) < 0
  /\ Side(r, s, p) * Side(r, s, q) < 0

\* The graph is planar, but for one case: the diagonals of a rectangle, whose
\* corners are exactly on each other's circles and so no witnesses.
GabrielCrossesOnlyInRectangles ==
  Apart =>
    \A n, m \in Addrs : \A a \in Gabriel(n), b \in Gabriel(m) :
      EdgesCross(position[n], position[a], position[m], position[b]) =>
        /\ Dist2(position[n], position[a]) = Dist2(position[m], position[b])
        /\ position[n][1] + position[a][1] = position[m][1] + position[b][1]
        /\ position[n][2] + position[a][2] = position[m][2] + position[b][2]

\* Graph type 2 is the "Relative Neighborhood Graph": an edge goes exactly
\* when some node is closer to both of its ends than they are to each other.
RngIsRelativeNeighborhoodGraph ==
  Apart =>
    \A n, a \in Addrs : InRange(n, a) =>
      (a \in Rng(n) <=>
         ~ \E b \in Hears(n) \ {a} :
             /\ Dist2(position[n], position[b]) < Dist2(position[n], position[a])
             /\ Dist2(position[a], position[b]) < Dist2(position[n], position[a]))
=============================================================================
