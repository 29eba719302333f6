---------------------------- MODULE PositionTable ----------------------------
(***************************************************************************)
(* The neighbours of a node and the choice of a next hop among them        *)
(* (model/gpsr-ptable.cc).  m_table is a function from the addresses that  *)
(* are known to what their last HELLO said: the position, and the age in   *)
(* ticks.  Addresses are numbers, because a std::map walks them in order.  *)
(*                                                                         *)
(* Positions are pairs of integers and distances are compared by their     *)
(* squares.  For integer coordinates this is what the code's doubles do:   *)
(* the margin of 1e-6 it allows is smaller than any difference it meets.   *)
(***************************************************************************)
EXTENDS Integers, FiniteSets

CONSTANTS
  Addrs,          \* the addresses of the nodes
  EntryLifeTime   \* m_entryLifeTime, in ticks

ASSUME TableAssumption ==
  /\ Addrs \subseteq Nat \ {0}
  /\ EntryLifeTime \in Nat

Zero == 0         \* Ipv4Address::GetZero()

Dist2(p, q) == (p[1] - q[1]) * (p[1] - q[1]) + (p[2] - q[2]) * (p[2] - q[2])

\* The first element of a set of addresses, as the map iterates over it.
First(A) == CHOOSE a \in A : \A b \in A : a <= b

-----------------------------------------------------------------------------
AddEntry(t, id, pos) ==
  [a \in DOMAIN t \cup {id} |-> IF a = id THEN [pos |-> pos, age |-> 0]
                                ELSE t[a]]

IsLive(t, a) == t[a].age < EntryLifeTime

\* Mutant of Purge: an entry is kept for one tick too long.
Purge_Late(t) == [a \in {b \in DOMAIN t : t[b].age <= EntryLifeTime} |-> t[a]]

Purge(t) == [a \in {b \in DOMAIN t : IsLive(t, b)} |-> t[a]]

\* isNeighbour looks the address up and does not ask how old the entry is.
IsNeighbour(t, a) == a \in DOMAIN t

\* Greedy: the entry closest to the destination, if it is closer than the
\* node itself.  BestNeighbor purges first: its callers pass Purge(m_table).
BestNeighbor(t, destPos, nodePos) ==
  LET Closer(a, b) == Dist2(t[a].pos, destPos) <= Dist2(t[b].pos, destPos)
      best == {a \in DOMAIN t : \A b \in DOMAIN t : Closer(a, b)}
  IN  IF \E a \in best : Dist2(nodePos, destPos) > Dist2(t[a].pos, destPos)
        THEN First(best)
        ELSE Zero

-----------------------------------------------------------------------------
(***************************************************************************)
(* The planar subgraphs.  An edge to a goes when some other neighbour b is *)
(* a witness against it; a neighbour at the node's own position has none.  *)
(***************************************************************************)
EdgesWithout(t, nodePos, Witness(_, _)) ==
  {a \in DOMAIN t :
     /\ t[a].pos # nodePos
     /\ \A b \in DOMAIN t \ {a} : ~Witness(t[a].pos, t[b].pos)}

\* Mutants of GetGabrielNeighbors: the diameter instead of the radius; the
\* distance from the node instead of the one from the middle; no witness.
GetGabrielNeighbors_Diameter(t, nodePos) ==
  LET InDisk(a, b) ==
        Dist2(<<2 * b[1], 2 * b[2]>>, <<nodePos[1] + a[1], nodePos[2] + a[2]>>)
          < 4 * Dist2(nodePos, a)
  IN  EdgesWithout(t, nodePos, InDisk)
GetGabrielNeighbors_FromNode(t, nodePos) ==
  LET InDisk(a, b) == 4 * Dist2(nodePos, b) < Dist2(nodePos, a)
  IN  EdgesWithout(t, nodePos, InDisk)
GetGabrielNeighbors_All(t, nodePos) == {a \in DOMAIN t : t[a].pos # nodePos}

\* b inside the circle with the edge as its diameter (all lengths doubled).
GetGabrielNeighbors(t, nodePos) ==
  LET InDisk(a, b) ==
        Dist2(<<2 * b[1], 2 * b[2]>>, <<nodePos[1] + a[1], nodePos[2] + a[2]>>)
          < Dist2(nodePos, a)
  IN  EdgesWithout(t, nodePos, InDisk)

\* The code's test for GPSR_NEIGHBOUR_TYPE_RNG: dAB < max(dNA, dNB).
GetRngNeighbors(t, nodePos) ==
  LET Nearer(a, b) == \/ Dist2(a, b) < Dist2(nodePos, a)
                      \/ Dist2(a, b) < Dist2(nodePos, b)
  IN  EdgesWithout(t, nodePos, Nearer)

\* GetNeighbors, GetGabrielNeighbors and GetRngNeighbors all purge first.
PlanarNeighbors(t, nodePos, graphType) ==
  CASE graphType = 0 -> DOMAIN t
    [] graphType = 1 -> GetGabrielNeighbors(t, nodePos)
    [] graphType = 2 -> GetRngNeighbors(t, nodePos)
    [] OTHER -> {}

-----------------------------------------------------------------------------
(***************************************************************************)
(* The right hand rule.  GetAngle is the counterclockwise angle from the   *)
(* direction of the previous hop to that of a neighbour, in [0, 360); the  *)
(* direction to the node's own position is that of the x axis (atan2(0,0)).*)
(***************************************************************************)
Direction(from, to) ==
  IF to = from THEN <<1, 0>> ELSE <<to[1] - from[1], to[2] - from[2]>>

Cross(u, v) == u[1] * v[2] - u[2] * v[1]
Dot(u, v) == u[1] * v[1] + u[2] * v[2]

\* 0: no angle, 1: below 180 degrees, 2: 180 degrees, 3: above.
Sector(ref, v) ==
  IF Cross(ref, v) = 0 THEN (IF Dot(ref, v) > 0 THEN 0 ELSE 2)
  ELSE (IF Cross(ref, v) > 0 THEN 1 ELSE 3)

SmallerAngle(ref, u, v) ==
  \/ Sector(ref, u) < Sector(ref, v)
  \/ Sector(ref, u) = Sector(ref, v) /\ Cross(u, v) > 0

\* Mutant of BestAngle: a neighbour straight back is not passed over.
BestAngle_StraightBack(t, previousHop, nodePos, graphType) ==
  LET neighbors == PlanarNeighbors(t, nodePos, graphType)
      ref == Direction(nodePos, previousHop)
      To(a) == Direction(nodePos, t[a].pos)
  IN  IF neighbors = {} THEN Zero
      ELSE First({a \in neighbors :
                    \A b \in neighbors : ~SmallerAngle(ref, To(b), To(a))})

BestAngle(t, previousHop, nodePos, graphType) ==
  LET neighbors == PlanarNeighbors(t, nodePos, graphType)
      ref == Direction(nodePos, previousHop)
      To(a) == Direction(nodePos, t[a].pos)
      ahead == {a \in neighbors : Sector(ref, To(a)) # 0}
  IN  IF neighbors = {} THEN Zero
      ELSE IF ahead = {} THEN First(neighbors)
      ELSE First({a \in ahead :
                    \A b \in ahead : ~SmallerAngle(ref, To(b), To(a))})
=============================================================================
