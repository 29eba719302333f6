----------------------------- MODULE Neighbours -----------------------------
(***************************************************************************)
(* The position table of one node over time, and the next hops that the    *)
(* three users of it take out of it (model/gpsr.cc): RouteOutput and       *)
(* SendPacketFromQueue, Forwarding, and RecoveryMode.  HELLO messages of   *)
(* the nodes around come whenever they like, or do not come; the node      *)
(* moves.  Positions are in parts of a metre; what goes through a header   *)
(* or an integer variable loses the fraction.                              *)
(***************************************************************************)
EXTENDS PositionTable, Headers

CONSTANTS
  MyPositions,   \* the positions of this node, not negative
  Positions,     \* the positions of other nodes, and destinations
  GraphType      \* PositionTable::graphType

ASSUME NeighboursAssumption ==
  /\ MyPositions \subseteq Nat \X Nat
  /\ Positions \subseteq Nat \X Nat
  /\ GraphType \in 0 .. 2

VARIABLES
  m_table,   \* PositionTable::m_table
  myPos,     \* the position of this node
  hop        \* history: the next hop that the last event chose, if any

vars == <<m_table, myPos, hop>>

Heard == {Truncated(p) : p \in Positions}
Hops == {"route", "forward", "recovery"}
NoHop == [by |-> "none", to |-> Zero]

Init ==
  /\ m_table = <<>>
  /\ myPos \in MyPositions
  /\ hop = NoHop

-----------------------------------------------------------------------------
\* Mutant of RecvGPSR: the position is not cut to whole metres.
RecvGPSR_Fraction(a, p) ==
  /\ m_table' = AddEntry(m_table, a, p)
  /\ hop' = NoHop
  /\ UNCHANGED myPos

\* A HELLO of a is received: it carries the truncated position of a.
RecvGPSR(a, p) ==
  /\ m_table' = AddEntry(m_table, a, Truncated(p))
  /\ hop' = NoHop
  /\ UNCHANGED myPos

\* A destination in the table is its own next hop; else the greedy choice.
NextHop(t, dst, dstPos) ==
  IF IsNeighbour(t, dst) THEN dst ELSE BestNeighbor(Purge(t), dstPos, myPos)

\* RecoveryMode: previousHop is the last position in the header, or that of
\* the destination when the packet enters recovery mode at this node.
RecoveryMode(previousHop) ==
  /\ m_table' = Purge(m_table)
  /\ hop' = [by |-> "recovery", last |-> Truncated(previousHop),
             to |-> BestAngle(Purge(m_table), Truncated(previousHop),
                              Truncated(myPos), GraphType)]
  /\ UNCHANGED myPos

\* RouteOutput: nothing purges a table that has the destination in it.
\* Without a next hop the packet goes to the loopback device.
RouteOutput(dst, dstPos) ==
  /\ m_table' = IF IsNeighbour(m_table, dst) THEN m_table ELSE Purge(m_table)
  /\ hop' = [by |-> "route", to |-> NextHop(m_table, dst, dstPos)]
  /\ UNCHANGED myPos

SendPacketFromQueue(dst, dstPos) ==
  \/ NextHop(m_table, dst, dstPos) # Zero /\ RouteOutput(dst, dstPos)
  \/ NextHop(m_table, dst, dstPos) = Zero /\ RecoveryMode(dstPos)

\* Forwarding purges before anything else.
Forwarding(dst, dstPos) ==
  LET live == Purge(m_table)
      nextHop == NextHop(live, dst, dstPos)
  IN  \/ /\ nextHop # Zero
         /\ m_table' = live
         /\ hop' = [by |-> "forward", to |-> nextHop]
         /\ UNCHANGED myPos
      \/ nextHop = Zero /\ RecoveryMode(dstPos)

\* NotifyInterfaceDown or NotifyRemoveAddress, of the last interface.
InterfaceDown ==
  /\ m_table' = <<>>
  /\ hop' = NoHop
  /\ UNCHANGED myPos

Move(p) ==
  /\ myPos' = p
  /\ hop' = NoHop
  /\ UNCHANGED m_table

\* Bound: an entry is not aged beyond its life time.
Tick ==
  /\ m_table' = [a \in DOMAIN m_table |->
                   [m_table[a] EXCEPT !.age = IF @ < EntryLifeTime
                                                THEN @ + 1 ELSE @]]
  /\ hop' = NoHop
  /\ UNCHANGED myPos

Next ==
  \/ \E a \in Addrs, p \in Positions : RecvGPSR(a, p)
  \/ \E dst \in Addrs, p \in Positions : RouteOutput(dst, p)
  \/ \E dst \in Addrs, p \in Positions : SendPacketFromQueue(dst, p)
  \/ \E dst \in Addrs, p \in Positions : Forwarding(dst, p)
  \/ \E p \in Positions : RecoveryMode(p)
  \/ \E p \in MyPositions : Move(p)
  \/ InterfaceDown
  \/ Tick

Spec == Init /\ [][Next]_vars

-----------------------------------------------------------------------------
\* Types.  Positions in the table are in whole metres, as HELLOs tell them.
TypeOK ==
  /\ DOMAIN m_table \subseteq Addrs
  /\ \A a \in DOMAIN m_table :
       m_table[a] \in [pos : Heard, age : 0 .. EntryLifeTime]
  /\ myPos \in MyPositions
  /\ hop.by \in Hops \cup {"none"}
  /\ hop.to \in Addrs \cup {Zero}

\* The next hop is in the table and was heard within the life time.
LiveHop == hop.to \in DOMAIN m_table /\ IsLive(m_table, hop.to)

\* Forwarding and RecoveryMode never choose a node that has been silent for
\* the life time of its entry, whatever was heard, purged or looked up before.
\* A packet that had to wait, a relayed one too, may go to such a node when
\* SendPacketFromQueue sends it in greedy mode: see RoutedToTheLiving.
ForwardedToTheLiving ==
  hop.by \in {"forward", "recovery"} /\ hop.to # Zero => LiveHop

\* The same of a packet of this node, or of one out of the queue.
RoutedToTheLiving == hop.by = "route" /\ hop.to # Zero => LiveHop

\* The Gabriel graph and the full one leave a node that has a neighbour in
\* another place than its own with an edge: recovery mode gives up, and the
\* packet is queued or lost, only where nobody is there to take it.
RecoveryFindsSomeone ==
  GraphType # 2 /\ hop.by = "recovery" /\ hop.to = Zero =>
    \A a \in DOMAIN m_table : m_table[a].pos = Truncated(myPos)

\* The right hand rule: a packet goes straight back to where it came from
\* only where the planar graph has no other edge.
OnlyDeadEndsTurnBack ==
  hop.by = "recovery" /\ hop.to # Zero =>
    LET here == Truncated(myPos)
        Back(a) == /\ Cross(Direction(here, hop.last),
                            Direction(here, m_table[a].pos)) = 0
                   /\ Dot(Direction(here, hop.last),
                          Direction(here, m_table[a].pos)) > 0
    IN  Back(hop.to) => \A a \in PlanarNeighbors(m_table, here, GraphType) : Back(a)
=============================================================================
