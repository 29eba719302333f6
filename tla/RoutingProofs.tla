---------------------------- MODULE RoutingProofs ----------------------------
(***************************************************************************)
(* The way of a packet through a network of any number of nodes, wherever  *)
(* they are and however far their radio reaches.                           *)
(***************************************************************************)
EXTENDS Routing, PositionTableProofs

\* The network of a scenario.
NetworkOK ==
  /\ Nodes \subseteq Addrs /\ IsFiniteSet(Nodes)
  /\ \A n \in Nodes : position[n] \in Grid
  /\ {src, dst} \subseteq Nodes /\ src # dst
  /\ graphType \in 0 .. 2

\* A packet that goes nowhere yet is at its source, and not in recovery mode.
HeaderOK ==
  /\ status = "new" => at = src /\ hdr = NoHeader
  /\ status # "new" => hdr.dstPos = Told(dst)

HasNeighbour(n) == \E a \in Nodes : InRange(n, a)

\* A packet that moves came from a neighbour, so its node has one: only the
\* source puts it in the queue or loses it.
NeverStuck ==
  Apart(Nodes) /\ graphType # 2 =>
    /\ status = "moving" => HasNeighbour(at)
    /\ status = "queued" => at = src /\ ~hdr.inRec
    /\ status = "lost" => at = src /\ ~HasNeighbour(src)

IInv == NetworkOK /\ TypeOK /\ HeaderOK /\ NeverStuck

-----------------------------------------------------------------------------
\* Positions as headers carry them are points, and lose nothing more.
LEMMA TruncatedProperties ==
  ASSUME NEW p \in Nat \X Nat
  PROVE  /\ p \in Points
         /\ Truncated(p) \in Points
         /\ Truncated(Truncated(p)) = Truncated(p)
         /\ Scale = 1 => Truncated(p) = p
<1>1. p[1] \in Nat /\ p[2] \in Nat /\ p = <<p[1], p[2]>>
  OBVIOUS
<1>2. \A x \in Nat : x \div Scale \in Nat /\ (x \div Scale) * Scale \in Nat
  BY ScaleAssumption
<1>3. \A x \in Nat : (((x \div Scale) * Scale) \div Scale) * Scale = (x \div Scale) * Scale
  <2>1. \A y \in Nat : (y * Scale) \div Scale = y
    BY ScaleAssumption
  <2> QED
    BY <1>2, <2>1
<1>4. Scale = 1 => \A x \in Nat : (x \div Scale) * Scale = x
  OBVIOUS
<1> QED
  BY <1>1, <1>2, <1>3, <1>4 DEF Truncated, Points

Tolds == {Origin} \cup {Told(n) : n \in Nodes}
HeaderSet == [dstPos : {Origin, Told(dst)}, inRec : BOOLEAN,
              recPos : Tolds, lastPos : Tolds]

\* Where the nodes are, and what they tell of it.
LEMMA Positions ==
  ASSUME NetworkOK
  PROVE  /\ \A n \in Nodes : /\ position[n] \in Points
                             /\ Told(n) \in Points
                             /\ Truncated(Told(n)) = Told(n)
                             /\ Scale = 1 => Told(n) = position[n]
         /\ Origin \in Points /\ Truncated(Origin) = Origin
<1>1. \A n \in Nodes : position[n] \in Nat \X Nat
  BY RoutingAssumption DEF NetworkOK
<1>2. Origin \in Points /\ Truncated(Origin) = Origin
  BY ScaleAssumption DEF Origin, Points, Truncated
<1> QED
  BY <1>1, <1>2, TruncatedProperties DEF Told

\* A node in range of another one has that in range as well.
LEMMA InRangeSymmetric ==
  ASSUME NetworkOK, NEW n \in Nodes, NEW a \in Nodes, InRange(n, a)
  PROVE  InRange(a, n)
<1>1. position[n] \in Grid /\ position[a] \in Grid
  BY DEF NetworkOK
<1>2. Dist2(position[a], position[n]) = Dist2(position[n], position[a])
  BY Positions, Dist2Properties
<1>3. n # a /\ Dist2(position[n], position[a]) <= Range2
  BY DEF InRange, Links
<1> QED
  BY <1>1, <1>2, <1>3 DEF InRange, Links

\* The table of a node has the nodes in range, with what they told.
LEMMA TableProperties ==
  ASSUME NetworkOK, NEW n \in Nodes
  PROVE  /\ IsTable(Table(n))
         /\ DOMAIN Table(n) = {a \in Nodes : InRange(n, a)}
         /\ \A a \in DOMAIN Table(n) : Table(n)[a].pos = Told(a)
<1>1. /\ DOMAIN Table(n) = {a \in Nodes : InRange(n, a)}
      /\ \A a \in DOMAIN Table(n) : Table(n)[a].pos = Told(a)
  BY DEF Table
<1>2. IsFiniteSet(DOMAIN Table(n))
  BY <1>1, FS_Subset DEF NetworkOK
<1> QED
  BY <1>1, <1>2, Positions DEF IsTable, NetworkOK

\* A next hop is a node in range, and nearer to the destination if positions
\* are in whole metres.
LEMMA NextHopProperties ==
  ASSUME NetworkOK, at \in Nodes, NEW t \in {<<>>, Table(at)}, NEW p \in Points,
         NextHop(t, p) # Zero
  PROVE  /\ NextHop(t, p) \in Nodes /\ InRange(at, NextHop(t, p))
         /\ Scale = 1 /\ p = position[dst] /\ Apart(Nodes) =>
              Dist2(position[NextHop(t, p)], p) < Dist2(position[at], p)
<1>1. /\ IsTable(t)
      /\ \A a \in DOMAIN t : a \in Nodes /\ InRange(at, a) /\ t[a].pos = Told(a)
  <2>1. CASE t = <<>>
    <3>1. DOMAIN t = {}
      BY <2>1
    <3>2. IsFiniteSet({})
      BY FS_EmptySet
    <3> QED
      BY <3>1, <3>2 DEF IsTable
  <2>2. CASE t = Table(at)
    BY <2>2, TableProperties
  <2> QED
    BY <2>1, <2>2
<1>2. position[at] \in Points
  BY Positions
<1>3. NextHop(t, p) \in DOMAIN t
  BY <1>1, <1>2, BestNeighborProperties DEF NextHop, IsNeighbour
<1>4. ASSUME Scale = 1, p = position[dst], Apart(Nodes)
      PROVE  Dist2(position[NextHop(t, p)], p) < Dist2(position[at], p)
  <2>1. CASE IsNeighbour(t, dst)
    <3>1. NextHop(t, p) = dst /\ dst # at /\ dst \in Nodes
      BY <1>1, <2>1 DEF NextHop, IsNeighbour, InRange
    <3>2. position[at] # position[dst]
      BY <1>4, <3>1, Positions DEF Apart
    <3>3. Dist2(position[dst], position[dst]) < Dist2(position[at], position[dst])
      BY <1>2, <1>4, <3>2, DistanceIsZero
    <3> QED
      BY <1>4, <3>1, <3>3
  <2>2. CASE ~IsNeighbour(t, dst)
    <3>1. NextHop(t, p) = BestNeighbor(t, p, position[at])
      BY <2>2 DEF NextHop
    <3>2. t[NextHop(t, p)].pos = position[NextHop(t, p)]
      BY <1>1, <1>3, <1>4, Positions
    <3> QED
      BY <1>1, <1>2, <3>1, <3>2, BestNeighborIsNearer
  <2> QED
    BY <2>1, <2>2
<1> QED
  BY <1>1, <1>3, <1>4

\* RecoveryMode finds nobody or a node in range, and somebody if anybody is.
LEMMA RecoveryHop ==
  ASSUME NetworkOK, at \in Nodes, NEW h \in HeaderSet
  PROVE  LET next == BestAngle(Table(at), h.lastPos, Told(at), graphType)
         IN  /\ next # Zero => next \in Nodes /\ InRange(at, next)
             /\ HasNeighbour(at) /\ Apart(Nodes) /\ graphType # 2 => next # Zero
<1> DEFINE next == BestAngle(Table(at), h.lastPos, Told(at), graphType)
           neighbors == PlanarNeighbors(Table(at), Told(at), graphType)
<1>1. h.lastPos \in Points /\ Told(at) \in Points
  BY Positions DEF HeaderSet, Tolds
<1>2. /\ IsTable(Table(at))
      /\ DOMAIN Table(at) = {a \in Nodes : InRange(at, a)}
      /\ \A a \in DOMAIN Table(at) : Table(at)[a].pos = Told(a)
  BY TableProperties
<1>3. neighbors \subseteq DOMAIN Table(at)
  BY PlanarNeighborsInTable
<1>4. neighbors = {} => next = Zero
  BY <1>1, <1>2, BestAngleProperties
<1>5. neighbors # {} => next \in neighbors
  BY <1>1, <1>2, BestAngleProperties
<1>6. Zero \notin DOMAIN Table(at)
  BY <1>2, TableAssumption DEF IsTable, Zero
<1>7. ASSUME HasNeighbour(at), Apart(Nodes), graphType # 2
      PROVE  neighbors # {}
  <2>1. PICK a \in Nodes : InRange(at, a)
    BY <1>7 DEF HasNeighbour
  <2>2. a \in DOMAIN Table(at) /\ Table(at)[a].pos # Told(at)
    BY <1>2, <1>7, <2>1 DEF Apart, InRange
  <2>3. graphType \in 0 .. 1
    BY <1>7 DEF NetworkOK
  <2> QED
    BY <1>1, <1>2, <2>2, <2>3, SomeEdge
<1> HIDE DEF next, neighbors
<1>8. /\ next # Zero => next \in Nodes /\ InRange(at, next)
      /\ HasNeighbour(at) /\ Apart(Nodes) /\ graphType # 2 => next # Zero
  BY <1>2, <1>3, <1>4, <1>5, <1>6, <1>7
<1> QED
  BY <1>8 DEF next

-----------------------------------------------------------------------------
(***************************************************************************)
(* Every step keeps the invariant.  Each ends in one of two ways: the      *)
(* packet goes to a node in range, or it stays where it is.                *)
(***************************************************************************)
LEMMA NetworkStays ==
  ASSUME IInv, UNCHANGED network
  PROVE  /\ NetworkOK' /\ Nodes' = Nodes /\ Tolds' = Tolds
         /\ HeaderSet' = HeaderSet /\ Told(dst)' = Told(dst)
         /\ src' = src /\ dst' = dst /\ graphType' = graphType
         /\ Apart(Nodes)' <=> Apart(Nodes)
         /\ \A n, a : InRange(n, a)' <=> InRange(n, a)
         /\ \A n : HasNeighbour(n)' <=> HasNeighbour(n)
<1>1. position' = position /\ src' = src /\ dst' = dst /\ graphType' = graphType
  BY DEF network
<1>2. Nodes' = Nodes
  BY <1>1 DEF Nodes
<1>3. \A n, a : InRange(n, a)' <=> InRange(n, a)
  BY <1>1 DEF InRange
<1>4. \A n : HasNeighbour(n)' <=> HasNeighbour(n)
  BY <1>2, <1>3 DEF HasNeighbour
<1>5. Apart(Nodes)' <=> Apart(Nodes)
  BY <1>1, <1>2 DEF Apart, Told
<1>6. NetworkOK'
  BY <1>1, <1>2 DEF IInv, NetworkOK
<1>7. Told(dst)' = Told(dst) /\ Tolds' = Tolds
  BY <1>1, <1>2 DEF Told, Tolds
<1>8. HeaderSet' = HeaderSet
  BY <1>7 DEF HeaderSet
<1> QED
  BY <1>1, <1>2, <1>3, <1>4, <1>5, <1>6, <1>7, <1>8

\* The type of a state, in terms of the sets above.
LEMMA TypeOKAsSets ==
  TypeOK <=> /\ \A n \in Nodes : position[n] \in Grid
             /\ {src, dst, at} \subseteq Nodes
             /\ status \in {"new", "queued", "moving", "delivered", "lost"}
             /\ hdr \in HeaderSet
BY DEF TypeOK, HeaderSet, Tolds

\* A packet is sent to a node in range.
LEMMA SendKeepsInvariant ==
  ASSUME IInv, UNCHANGED network, NEW a \in Nodes, InRange(at, a),
         NEW h \in HeaderSet, h.dstPos = Told(dst), Send(a, h)
  PROVE  IInv'
<1>1. at' = a /\ status' = "moving" /\ hdr' = h
  BY DEF Send
<1>2. NetworkOK /\ at \in Nodes
  BY TypeOKAsSets DEF IInv
<1>3. HasNeighbour(a)
  BY <1>2, InRangeSymmetric DEF HasNeighbour
<1>4. NetworkOK'
  BY NetworkStays
<1>5. TypeOK'
  <2>1. {src', dst', at'} \subseteq Nodes'
    BY <1>1, NetworkStays DEF IInv, NetworkOK
  <2>2. hdr' \in HeaderSet'
    BY <1>1, NetworkStays
  <2> QED
    BY <1>1, <1>4, <2>1, <2>2 DEF TypeOK, HeaderSet, Tolds, NetworkOK
<1>6. HeaderOK'
  BY <1>1, NetworkStays DEF HeaderOK
<1>7. NeverStuck'
  <2>1. HasNeighbour(a)'
    BY <1>3, NetworkStays
  <2> QED
    BY <1>1, <2>1 DEF NeverStuck
<1> QED
  BY <1>4, <1>5, <1>6, <1>7 DEF IInv

\* A packet stays where it is, with another header or another fate.
LEMMA StayKeepsInvariant ==
  ASSUME IInv, UNCHANGED network, at' = at, hdr' \in HeaderSet,
         hdr'.dstPos = Told(dst), status' \in {"queued", "lost", "delivered"},
         Apart(Nodes) /\ graphType # 2 =>
           /\ status' = "queued" => at = src /\ ~hdr'.inRec
           /\ status' = "lost" => at = src /\ ~HasNeighbour(src)
  PROVE  IInv'
<1>1. at \in Nodes
  BY TypeOKAsSets DEF IInv
<1>2. NetworkOK'
  BY NetworkStays
<1>3. TypeOK'
  <2>1. {src', dst', at'} \subseteq Nodes'
    BY <1>1, NetworkStays DEF IInv, NetworkOK
  <2>2. hdr' \in HeaderSet'
    BY NetworkStays
  <2> QED
    BY <1>2, <2>1, <2>2 DEF TypeOK, HeaderSet, Tolds, NetworkOK
<1>4. HeaderOK'
  BY NetworkStays DEF HeaderOK
<1>5. NeverStuck'
  <2>1. HasNeighbour(src)' <=> HasNeighbour(src)
    BY NetworkStays DEF HasNeighbour, InRange
  <2> QED
    BY <2>1, NetworkStays DEF NeverStuck
<1> QED
  BY <1>2, <1>3, <1>4, <1>5 DEF IInv

\* RecoveryMode: fails is the answer when there is no edge.
LEMMA RecoveryKeepsInvariant ==
  ASSUME IInv, UNCHANGED network, NEW h \in HeaderSet, h.dstPos = Told(dst),
         NEW failure \in {"queued", "lost"}, RecoveryMode(Table(at), h, failure),
         failure = "queued" /\ Apart(Nodes) /\ graphType # 2 => HasNeighbour(at),
         failure = "lost" /\ Apart(Nodes) /\ graphType # 2 => at = src
  PROVE  IInv'
<1> DEFINE next == BestAngle(Table(at), h.lastPos, Told(at), graphType)
           left == [h EXCEPT !.inRec = TRUE, !.lastPos = Told(at)]
<1>1. NetworkOK /\ at \in Nodes
  BY TypeOKAsSets DEF IInv
<1>2. left \in HeaderSet /\ left.dstPos = Told(dst)
  BY <1>1 DEF HeaderSet, Tolds
<1>3. /\ next # Zero => next \in Nodes /\ InRange(at, next)
      /\ HasNeighbour(at) /\ Apart(Nodes) /\ graphType # 2 => next # Zero
  BY <1>1, RecoveryHop
<1>4. IF next # Zero THEN Send(next, left)
      ELSE at' = at /\ status' = failure /\ hdr' = left
  BY DEF RecoveryMode
<1> HIDE DEF next, left
<1>5. CASE next # Zero
  BY <1>2, <1>3, <1>4, <1>5, SendKeepsInvariant
<1>6. CASE next = Zero
  <2>1. at' = at /\ status' = failure /\ hdr' = left
    BY <1>4, <1>6
  <2>2. Apart(Nodes) /\ graphType # 2 => ~HasNeighbour(at) /\ failure = "lost" /\ at = src
    BY <1>3, <1>6
  <2> QED
    BY <1>2, <2>1, <2>2, StayKeepsInvariant
<1> QED
  BY <1>5, <1>6

\* A packet goes on to the next hop of the table t, with the header h.
LEMMA GreedyKeepsInvariant ==
  ASSUME IInv, UNCHANGED network, NEW t \in {<<>>, Table(at)}, NEW q \in Points,
         NextHop(t, q) # Zero, NEW h \in HeaderSet, h.dstPos = Told(dst),
         Send(NextHop(t, q), h)
  PROVE  IInv'
<1>1. NetworkOK /\ at \in Nodes
  BY TypeOKAsSets DEF IInv
<1>2. NextHop(t, q) \in Nodes /\ InRange(at, NextHop(t, q))
  BY <1>1, NextHopProperties
<1> QED
  BY <1>2, SendKeepsInvariant

\* The packet of a source leaves at once or waits in its queue.
LEMMA RouteOutputKeepsInvariant ==
  ASSUME IInv, NEW t \in {<<>>, Table(at)}, RouteOutput(t)
  PROVE  IInv'
<1>1. NetworkOK /\ {at, dst} \subseteq Nodes /\ UNCHANGED network
  BY TypeOKAsSets DEF IInv, RouteOutput, NetworkOK
<1>2. AddHeaders \in HeaderSet /\ AddHeaders.dstPos = Told(dst) /\ ~AddHeaders.inRec
  BY <1>1 DEF AddHeaders, HeaderSet, Tolds
<1>3. position[dst] \in Points
  BY <1>1, Positions
<1>4. at = src
  BY DEF RouteOutput, IInv, HeaderOK
<1>5. CASE NextHop(t, position[dst]) # Zero /\ Send(NextHop(t, position[dst]), AddHeaders)
  BY <1>1, <1>2, <1>3, <1>5, GreedyKeepsInvariant
<1>6. CASE status' = "queued" /\ hdr' = AddHeaders /\ at' = at
  BY <1>1, <1>2, <1>4, <1>6, StayKeepsInvariant
<1> QED
  BY <1>5, <1>6 DEF RouteOutput

\* A packet leaves the queue.
LEMMA SendPacketFromQueueKeepsInvariant ==
  ASSUME IInv, SendPacketFromQueue(Table(at))
  PROVE  IInv'
<1> DEFINE next == NextHop(Table(at), position[dst])
           h == [hdr EXCEPT !.recPos = Told(at)]
           onward == [h EXCEPT !.inRec = FALSE, !.lastPos = Told(at)]
           entry == [h EXCEPT !.lastPos = hdr.dstPos]
<1>1. NetworkOK /\ {at, dst} \subseteq Nodes /\ hdr \in HeaderSet /\ UNCHANGED network
  BY TypeOKAsSets DEF IInv, SendPacketFromQueue, NetworkOK
<1>2. hdr.dstPos = Told(dst)
  BY DEF SendPacketFromQueue, IInv, HeaderOK
<1>3. /\ onward \in HeaderSet /\ onward.dstPos = Told(dst)
      /\ entry \in HeaderSet /\ entry.dstPos = Told(dst)
  BY <1>1, <1>2 DEF HeaderSet, Tolds
<1>4. position[dst] \in Points
  BY <1>1, Positions
<1>5. Apart(Nodes) /\ graphType # 2 => at = src
  BY DEF SendPacketFromQueue, IInv, NeverStuck
<1>6. \/ next # Zero /\ Send(next, onward)
      \/ next = Zero /\ RecoveryMode(Table(at), entry, "lost")
  BY DEF SendPacketFromQueue
<1> HIDE DEF next, onward, entry
<1>7. CASE next # Zero /\ Send(next, onward)
  BY <1>1, <1>3, <1>4, <1>7, GreedyKeepsInvariant DEF next
<1>8. CASE next = Zero /\ RecoveryMode(Table(at), entry, "lost")
  BY <1>1, <1>3, <1>5, <1>8, RecoveryKeepsInvariant
<1> QED
  BY <1>6, <1>7, <1>8

\* A packet on its way takes its next hop.
LEMMA ForwardingKeepsInvariant ==
  ASSUME IInv, NEW dstPos \in {hdr.dstPos, position[dst]}, Forwarding(Table(at), dstPos)
  PROVE  IInv'
<1> DEFINE next == NextHop(Table(at), dstPos)
           onward == [dstPos |-> Truncated(dstPos), inRec |-> FALSE,
                      recPos |-> Origin, lastPos |-> Told(at)]
           entry == [hdr EXCEPT !.recPos = Told(at), !.lastPos = EntryEdge(dstPos)]
<1>1. NetworkOK /\ {at, dst} \subseteq Nodes /\ hdr \in HeaderSet /\ UNCHANGED network
  BY TypeOKAsSets DEF IInv, Forwarding, NetworkOK
<1>2. hdr.dstPos = Told(dst)
  BY DEF Forwarding, IInv, HeaderOK
<1>3. dstPos \in Points /\ Truncated(dstPos) = Told(dst)
  BY <1>1, <1>2, Positions DEF Told
<1>4. /\ onward \in HeaderSet /\ onward.dstPos = Told(dst)
      /\ entry \in HeaderSet /\ entry.dstPos = Told(dst)
  BY <1>1, <1>2, <1>3 DEF HeaderSet, Tolds, EntryEdge
<1>5. Apart(Nodes) /\ graphType # 2 => HasNeighbour(at)
  BY DEF Forwarding, IInv, NeverStuck
<1>6. \/ RecoveryMode(Table(at), hdr, "queued")
      \/ next # Zero /\ Send(next, onward)
      \/ RecoveryMode(Table(at), entry, "queued")
  BY DEF Forwarding
<1> HIDE DEF next, onward, entry
<1>7. CASE RecoveryMode(Table(at), hdr, "queued")
  BY <1>1, <1>2, <1>5, <1>7, RecoveryKeepsInvariant
<1>8. CASE next # Zero /\ Send(next, onward)
  BY <1>1, <1>3, <1>4, <1>8, GreedyKeepsInvariant DEF next
<1>9. CASE RecoveryMode(Table(at), entry, "queued")
  BY <1>1, <1>4, <1>5, <1>9, RecoveryKeepsInvariant
<1> QED
  BY <1>6, <1>7, <1>8, <1>9

\* A packet that is at its destination has nothing left to do.
LEMMA RouteInputKeepsInvariant ==
  ASSUME IInv, RouteInput
  PROVE  IInv'
<1>1. hdr \in HeaderSet /\ hdr.dstPos = Told(dst)
  BY TypeOKAsSets DEF IInv, RouteInput, HeaderOK
<1>2. at' = at /\ hdr' = hdr /\ status' = "delivered" /\ UNCHANGED network
  BY DEF RouteInput
<1> QED
  BY <1>1, <1>2, StayKeepsInvariant

\* The invariant holds for every network, wherever its nodes are.
LEMMA Invariant == Spec => []IInv
<1>1. Init => IInv
  <2> SUFFICES ASSUME Init PROVE IInv
    OBVIOUS
  <2>1. NetworkOK
    BY RoutingAssumption DEF Init, NetworkOK, Nodes
  <2>2. TypeOK
    BY <2>1 DEF Init, TypeOK, NoHeader, NetworkOK
  <2> QED
    BY <2>1, <2>2 DEF Init, IInv, HeaderOK, NeverStuck
<1>2. IInv /\ [Next]_vars => IInv'
  <2> SUFFICES ASSUME IInv, [Next]_vars PROVE IInv'
    OBVIOUS
  <2>1. CASE \E t \in {<<>>, Table(at)} : RouteOutput(t)
    BY <2>1, RouteOutputKeepsInvariant
  <2>2. CASE SendPacketFromQueue(Table(at))
    BY <2>2, SendPacketFromQueueKeepsInvariant
  <2>3. CASE \E dstPos \in {hdr.dstPos, position[dst]} : Forwarding(Table(at), dstPos)
    BY <2>3, ForwardingKeepsInvariant
  <2>4. CASE RouteInput
    BY <2>4, RouteInputKeepsInvariant
  <2>5. CASE UNCHANGED vars
    BY <2>5 DEF vars, IInv, NetworkOK, TypeOK, HeaderOK, NeverStuck, Nodes, Told,
                HasNeighbour, InRange, Apart
  <2> QED
    BY <2>1, <2>2, <2>3, <2>4, <2>5 DEF Next
<1> QED
  BY <1>1, <1>2, PTL DEF Spec

\* A packet is always at a node, and its header holds positions of nodes.
THEOREM TypeCorrect == Spec => []TypeOK
<1>1. IInv => TypeOK
  BY DEF IInv
<1> QED
  BY <1>1, Invariant, PTL

\* No packet is lost while its source hears anybody, although
\* SendPacketFromQueue does not look at the answer of RecoveryMode: in the full
\* graph and in the Gabriel graph a node with a neighbour always has an edge.
THEOREM NoneIsLost == Spec => []LostOnlyAlone
<1>1. IInv => LostOnlyAlone
  <2> SUFFICES ASSUME IInv, status = "lost", Apart(Nodes), graphType # 2
               PROVE  at = src /\ \A n \in Nodes : ~InRange(src, n)
    BY DEF LostOnlyAlone
  <2> QED
    BY DEF IInv, NeverStuck, HasNeighbour
<1> QED
  BY <1>1, Invariant, PTL

-----------------------------------------------------------------------------
(***************************************************************************)
(* Progress, for positions in whole metres.                                *)
(***************************************************************************)
Gain == /\ Distance' <= Distance
        /\ at' # at /\ ~hdr'.inRec => Distance' < Distance

\* Distances are numbers; a header that leaves recovery mode at n measures
\* from n, one that enters it at n as well.
LEMMA DistanceProperties ==
  ASSUME IInv, UNCHANGED network, Scale = 1
  PROVE  /\ Distance \in Nat
         /\ hdr.inRec => Distance = Dist2(hdr.recPos, position[dst])
         /\ ~hdr.inRec => Distance = Dist2(position[at], position[dst])
         /\ hdr'.inRec => Distance' = Dist2(hdr'.recPos, position[dst])
         /\ ~hdr'.inRec => Distance' = Dist2(position[at'], position[dst])
<1>1. NetworkOK /\ hdr \in HeaderSet /\ {at, dst} \subseteq Nodes
  BY TypeOKAsSets DEF IInv, NetworkOK
<1>2. position[at] \in Points /\ position[dst] \in Points /\ hdr.recPos \in Points
  BY <1>1, Positions DEF HeaderSet, Tolds
<1>3. position' = position /\ dst' = dst
  BY DEF network
<1> QED
  BY <1>2, <1>3, Dist2Properties DEF Distance

\* A greedy hop, from where the packet is no farther than what it has gained.
LEMMA GreedyGains ==
  ASSUME IInv, UNCHANGED network, Scale = 1, Apart(Nodes),
         NEW t \in {<<>>, Table(at)}, NextHop(t, position[dst]) # Zero,
         NEW h, ~h.inRec, Send(NextHop(t, position[dst]), h),
         Dist2(position[at], position[dst]) <= Distance
  PROVE  Gain
<1> DEFINE next == NextHop(t, position[dst])
           D(n) == Dist2(position[n], position[dst])
<1>1. NetworkOK /\ {at, dst} \subseteq Nodes
  BY TypeOKAsSets DEF IInv, NetworkOK
<1>2. \A n \in Nodes : position[n] \in Points
  BY <1>1, Positions
<1>3. next \in Nodes /\ D(next) < D(at)
  BY <1>1, <1>2, NextHopProperties
<1>4. D(next) \in Nat /\ D(at) \in Nat /\ Distance \in Nat
  BY <1>1, <1>2, <1>3, Dist2Properties, DistanceProperties
<1>5. Distance' = D(next)
  BY DistanceProperties DEF Send
<1> HIDE DEF next, D
<1>6. D(at) <= Distance
  BY DEF D
<1> QED
  BY <1>3, <1>4, <1>5, <1>6 DEF Gain

\* Recovery mode goes on, or is entered where the packet is.
LEMMA RecoveryGains ==
  ASSUME IInv, UNCHANGED network, Scale = 1, NEW h, NEW failure,
         RecoveryMode(Table(at), h, failure), Dist2(h.recPos, position[dst]) <= Distance,
         h \in HeaderSet
  PROVE  Gain
<1>1. hdr' = [h EXCEPT !.inRec = TRUE, !.lastPos = Told(at)]
  BY DEF RecoveryMode, Send
<1>2. hdr'.inRec /\ hdr'.recPos = h.recPos
  BY <1>1 DEF HeaderSet
<1>3. Distance' = Dist2(h.recPos, position[dst])
  BY <1>2, DistanceProperties
<1> QED
  BY <1>2, <1>3 DEF Gain

\* With positions in whole metres the way of a packet never loses what it has
\* gained: greedy forwarding is free of loops, and recovery mode is left only
\* nearer to the destination than it was entered, in every network.
THEOREM ProgressKept ==
  ASSUME Scale = 1
  PROVE  Spec => ProgressIsKept
<1>1. ASSUME IInv, Next, Apart(Nodes), graphType # 2 PROVE Gain
  <2> DEFINE H == Dist2(position[at], position[dst])
  <2>1. NetworkOK /\ {at, dst} \subseteq Nodes /\ hdr \in HeaderSet
    BY <1>1, TypeOKAsSets DEF IInv, NetworkOK
  <2>2. position[at] \in Points /\ Told(at) = position[at] /\ Told(dst) = position[dst]
        /\ H \in Nat
    BY <2>1, Positions, Dist2Properties
  <2>3. ~hdr.inRec /\ UNCHANGED network => H <= Distance
    BY <1>1, <2>2, DistanceProperties
  <2>4. ASSUME NEW t \in {<<>>, Table(at)}, RouteOutput(t) PROVE Gain
    <3>1. ~hdr.inRec /\ UNCHANGED network
      BY <1>1, <2>4 DEF RouteOutput, IInv, HeaderOK, NoHeader
    <3>2. ~AddHeaders.inRec
      BY DEF AddHeaders
    <3>3. CASE NextHop(t, position[dst]) # Zero /\ Send(NextHop(t, position[dst]), AddHeaders)
      BY <1>1, <2>3, <3>1, <3>2, <3>3, GreedyGains
    <3>4. CASE hdr' = AddHeaders /\ at' = at
      BY <1>1, <3>1, <3>2, <3>4, DistanceProperties DEF Gain
    <3> QED
      BY <2>4, <3>3, <3>4 DEF RouteOutput
  <2>5. ASSUME SendPacketFromQueue(Table(at)) PROVE Gain
    <3> DEFINE next == NextHop(Table(at), position[dst])
               h == [hdr EXCEPT !.recPos = Told(at)]
               onward == [h EXCEPT !.inRec = FALSE, !.lastPos = Told(at)]
               entry == [h EXCEPT !.lastPos = hdr.dstPos]
    <3>1. ~hdr.inRec /\ UNCHANGED network
      BY <1>1, <2>5 DEF SendPacketFromQueue, IInv, NeverStuck
    <3>2. hdr.dstPos = position[dst]
      BY <1>1, <2>2, <2>5 DEF SendPacketFromQueue, IInv, HeaderOK
    <3>3. ~onward.inRec /\ entry.recPos = position[at] /\ entry \in HeaderSet
      BY <2>1, <2>2 DEF HeaderSet, Tolds
    <3>4. \/ next # Zero /\ Send(next, onward)
          \/ RecoveryMode(Table(at), entry, "lost")
      BY <2>5 DEF SendPacketFromQueue
    <3> HIDE DEF next, h, onward, entry
    <3>5. CASE next # Zero /\ Send(next, onward)
      BY <1>1, <2>3, <3>1, <3>3, <3>5, GreedyGains DEF next
    <3>6. CASE RecoveryMode(Table(at), entry, "lost")
      BY <1>1, <2>3, <3>1, <3>3, <3>6, RecoveryGains
    <3> QED
      BY <3>4, <3>5, <3>6
  <2>6. ASSUME NEW dstPos \in {hdr.dstPos, position[dst]}, Forwarding(Table(at), dstPos)
        PROVE  Gain
    <3> DEFINE next == NextHop(Table(at), dstPos)
               onward == [dstPos |-> Truncated(dstPos), inRec |-> FALSE,
                          recPos |-> Origin, lastPos |-> Told(at)]
               entry == [hdr EXCEPT !.recPos = Told(at), !.lastPos = EntryEdge(dstPos)]
    <3>1. UNCHANGED network
      BY <2>6 DEF Forwarding
    <3>2. hdr.dstPos = position[dst] /\ dstPos = position[dst]
      BY <1>1, <2>2, <2>6 DEF Forwarding, IInv, HeaderOK
    <3>3. entry.recPos = position[at] /\ entry \in HeaderSet
      <4>1. EntryEdge(dstPos) = Told(dst)
        BY <3>2 DEF EntryEdge, Told
      <4> QED
        BY <2>1, <2>2, <4>1 DEF HeaderSet, Tolds
    <3>4. (hdr.inRec => LeavesRecovery) => H <= Distance
      <4>1. hdr.inRec /\ LeavesRecovery => H < Distance
        BY <1>1, <3>1, <3>2, DistanceProperties DEF LeavesRecovery
      <4>2. Distance \in Nat
        BY <1>1, <3>1, DistanceProperties
      <4> HIDE DEF H
      <4> QED
        BY <2>2, <2>3, <3>1, <4>1, <4>2
    <3>5. \/ hdr.inRec /\ RecoveryMode(Table(at), hdr, "queued")
          \/ (hdr.inRec => LeavesRecovery) /\ next # Zero /\ Send(next, onward)
          \/ (hdr.inRec => LeavesRecovery) /\ RecoveryMode(Table(at), entry, "queued")
      BY <2>6 DEF Forwarding
    <3>6. ~onward.inRec
      OBVIOUS
    <3> HIDE DEF next, onward, entry
    <3>7. CASE hdr.inRec /\ RecoveryMode(Table(at), hdr, "queued")
      <4>1. Distance = Dist2(hdr.recPos, position[dst]) /\ Distance \in Nat
        BY <1>1, <3>1, <3>7, DistanceProperties
      <4>2. Dist2(hdr.recPos, position[dst]) <= Distance
        BY <4>1
      <4> QED
        BY <1>1, <2>1, <3>1, <3>7, <4>2, RecoveryGains
    <3>8. CASE (hdr.inRec => LeavesRecovery) /\ next # Zero /\ Send(next, onward)
      BY <1>1, <3>1, <3>2, <3>4, <3>6, <3>8, GreedyGains DEF next
    <3>9. CASE (hdr.inRec => LeavesRecovery) /\ RecoveryMode(Table(at), entry, "queued")
      BY <1>1, <3>1, <3>3, <3>4, <3>9, RecoveryGains
    <3> QED
      BY <3>5, <3>7, <3>8, <3>9
  <2>7. ASSUME RouteInput PROVE Gain
    <3>1. at' = at /\ hdr' = hdr /\ UNCHANGED network
      BY <2>7 DEF RouteInput
    <3>2. Distance' = Distance /\ Distance \in Nat
      BY <1>1, <3>1, DistanceProperties
    <3> QED
      BY <3>1, <3>2 DEF Gain
  <2> QED
    BY <1>1, <2>4, <2>5, <2>6, <2>7 DEF Next
<1>2. IInv /\ [Next]_vars => [Apart(Nodes) /\ graphType # 2 => Gain]_vars
  BY <1>1
<1>3. ProgressIsKept <=> [][Apart(Nodes) /\ graphType # 2 => Gain]_vars
  BY PTL DEF ProgressIsKept, Gain
<1> QED
  BY <1>2, <1>3, Invariant, PTL DEF Spec
=============================================================================
