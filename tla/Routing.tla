------------------------------- MODULE Routing -------------------------------
(***************************************************************************)
(* The way of one packet through a network (model/gpsr.cc): RouteOutput    *)
(* and AddHeaders at its source, Forwarding and RecoveryMode at every node *)
(* on the way, SendPacketFromQueue where it had to wait, RouteInput at its *)
(* destination.  The nodes are anywhere but do not move, and every table   *)
(* holds a HELLO of each node in range, but for the one of the source when *)
(* the packet is new, which may still be empty.                            *)
(***************************************************************************)
EXTENDS PositionTable, Headers

CONSTANTS
  Grid,        \* the positions a node may have, in parts of a metre
  Scenarios,   \* where the nodes are, between which of them a packet goes,
               \* and their graph type
  Range2       \* the square of the radio range

ASSUME RoutingAssumption ==
  /\ Grid \subseteq Nat \X Nat
  /\ \A s \in Scenarios :
       /\ DOMAIN s.position \subseteq Addrs /\ IsFiniteSet(DOMAIN s.position)
       /\ \A n \in DOMAIN s.position : s.position[n] \in Grid
       /\ s.src # s.dst /\ {s.src, s.dst} \subseteq DOMAIN s.position
       /\ s.graphType \in 0 .. 2
  /\ Range2 \in Nat

VARIABLES
  position,   \* the position of each node
  src, dst,   \* the source and the destination of the packet
  graphType,  \* PositionTable::graphType
  at,         \* the node that has the packet
  status,     \* what it is about to do with the packet, or how that ended
  hdr         \* the packet's PositionHeader

network == <<position, src, dst, graphType>>
vars == <<position, src, dst, graphType, at, status, hdr>>

Nodes == DOMAIN position

\* The pairs of positions in range of each other.
Links == {e \in Grid \X Grid : Dist2(e[1], e[2]) <= Range2}

InRange(n, a) == n # a /\ <<position[n], position[a]>> \in Links
Told(n) == Truncated(position[n])
Table(n) == [a \in {b \in Nodes : InRange(n, b)} |-> [pos |-> Told(a), age |-> 0]]

Origin == <<0, 0>>
NoHeader == [dstPos |-> Origin, inRec |-> FALSE, recPos |-> Origin,
             lastPos |-> Origin]

Init ==
  /\ \E s \in Scenarios :
       /\ position = s.position /\ src = s.src /\ dst = s.dst
       /\ graphType = s.graphType
  /\ at = src
  /\ status = "new"
  /\ hdr = NoHeader

-----------------------------------------------------------------------------
NextHop(t, dstPos) ==
  IF IsNeighbour(t, dst) THEN dst ELSE BestNeighbor(t, dstPos, position[at])

\* The packet is sent to a, with the header h.
Send(a, h) == at' = a /\ status' = "moving" /\ hdr' = h

\* Mutant of RecoveryMode: the answer of BestAngle is not looked at.
RecoveryMode_Unchecked(t, h, failure) ==
  Send(BestAngle(t, h.lastPos, Told(at), graphType),
       [h EXCEPT !.inRec = TRUE, !.lastPos = Told(at)])

\* RecoveryMode at a node with the table t, for a packet with the header h: the
\* next edge in the order of the right hand rule, or failure.
RecoveryMode(t, h, failure) ==
  LET next == BestAngle(t, h.lastPos, Told(at), graphType)
      left == [h EXCEPT !.inRec = TRUE, !.lastPos = Told(at)]
  IN  IF next # Zero THEN Send(next, left)
      ELSE at' = at /\ status' = failure /\ hdr' = left

-----------------------------------------------------------------------------
\* The header of a new packet.
AddHeaders ==
  [dstPos |-> Told(dst), inRec |-> FALSE, recPos |-> Origin, lastPos |-> Told(at)]

\* RouteOutput: without a next hop the packet goes through loopback into the
\* queue.  Its node may have heard of nobody yet: t is its table.
RouteOutput(t) ==
  LET next == NextHop(t, position[dst])
  IN  /\ status = "new"
      /\ \/ next # Zero /\ Send(next, AddHeaders)
         \/ next = Zero /\ status' = "queued" /\ hdr' = AddHeaders /\ at' = at
      /\ UNCHANGED network

\* A packet out of the queue goes on in greedy mode or enters recovery mode,
\* wherever it came from; without an edge it is lost.
SendPacketFromQueue(t) ==
  LET next == NextHop(t, position[dst])
      h == [hdr EXCEPT !.recPos = Told(at)]
  IN  /\ status = "queued"
      /\ \/ /\ next # Zero
            /\ Send(next, [h EXCEPT !.inRec = FALSE, !.lastPos = Told(at)])
         \/ next = Zero /\ RecoveryMode(t, [h EXCEPT !.lastPos = hdr.dstPos], "lost")
      /\ UNCHANGED network

\* Mutants of LeavesRecovery: at any node; at the node where it began.
LeavesRecovery_Anywhere == hdr.inRec

\* A packet leaves recovery mode nearer to its destination than it entered.
LeavesRecovery ==
  hdr.inRec /\ Dist2(position[at], hdr.dstPos) < Dist2(hdr.recPos, hdr.dstPos)

\* Mutant of EntryEdge: the right hand rule starts from the previous hop.
EntryEdge_LastHop(dstPos) == hdr.lastPos

\* "When entering Recovery, the first edge is the Dst".
EntryEdge(dstPos) == Truncated(dstPos)

\* Forwarding: dstPos is the position in the header, or a newer one that the
\* location service has.  On entering recovery mode the header keeps its own.
Forwarding(t, dstPos) ==
  LET next == NextHop(t, dstPos)
  IN  /\ status = "moving" /\ at # dst
      /\ \/ hdr.inRec /\ ~LeavesRecovery /\ RecoveryMode(t, hdr, "queued")
         \/ /\ hdr.inRec => LeavesRecovery
            /\ next # Zero
            /\ Send(next, [dstPos |-> Truncated(dstPos), inRec |-> FALSE,
                           recPos |-> Origin, lastPos |-> Told(at)])
         \/ /\ hdr.inRec => LeavesRecovery
            /\ next = Zero
            /\ RecoveryMode(t, [hdr EXCEPT !.recPos = Told(at),
                                           !.lastPos = EntryEdge(dstPos)], "queued")
      /\ UNCHANGED network

\* RouteInput at the destination.
RouteInput ==
  /\ status = "moving" /\ at = dst
  /\ status' = "delivered"
  /\ UNCHANGED <<network, at, hdr>>

\* Only the table of a new packet's node may be empty still.
Next ==
  \/ \E t \in {<<>>, Table(at)} : RouteOutput(t)
  \/ \E t \in {Table(at)} :
       \/ SendPacketFromQueue(t)
       \/ \E dstPos \in {hdr.dstPos, position[dst]} : Forwarding(t, dstPos)
  \/ RouteInput

Spec == Init /\ [][Next]_vars

\* Packets that are sent arrive, and the poll of the queue comes.
FairSpec == Spec /\ WF_vars(Next)

-----------------------------------------------------------------------------
\* No two nodes tell the same position.
Apart(S) == \A n, a \in S : n # a => Told(n) # Told(a)

\* The nodes that some path leads to from the source.
Reachable ==
  LET Closure[S \in SUBSET Nodes] ==
        LET further == {a \in Nodes \ S : \E n \in S : InRange(n, a)}
        IN  IF further = {} THEN S ELSE Closure[S \cup further]
  IN  Closure[{src}]

\* Types.
TypeOK ==
  /\ \A n \in Nodes : position[n] \in Grid
  /\ {src, dst, at} \subseteq Nodes
  /\ status \in {"new", "queued", "moving", "delivered", "lost"}
  /\ hdr \in [dstPos : {Origin, Told(dst)}, inRec : BOOLEAN,
              recPos : {Origin} \cup {Told(n) : n \in Nodes},
              lastPos : {Origin} \cup {Told(n) : n \in Nodes}]

\* A packet is delivered whenever its destination can be reached at all:
\* recovery mode gets around every void, although Forwarding never has it
\* change to another face on the way.
Delivery ==
  (status = "new" /\ dst \in Reachable /\ Apart(Reachable)) ~> (status = "delivered")

\* SendPacketFromQueue does not look at the answer of RecoveryMode, and
\* Forwarding puts the packet in the queue after it.  Neither costs a packet
\* that any node could have taken: a node with a neighbour always has an edge
\* of the subgraph, so Forwarding never fails, and only the packet of a source
\* that hears nobody is lost.
LostOnlyAlone ==
  status = "lost" /\ Apart(Nodes) /\ graphType # 2 =>
    at = src /\ \A n \in Nodes : ~InRange(src, n)

\* What a packet has gained is not lost: measured where it is, or where it
\* entered recovery mode, its distance to the destination never grows, and a
\* greedy hop makes it smaller.  So no greedy path has a loop, and no node is
\* a dead end for the same packet twice.  In the graph of type 2 a node may be
\* left without an edge, and the packet starts again where it is.
Distance == Dist2(IF hdr.inRec THEN hdr.recPos ELSE position[at], position[dst])
ProgressIsKept ==
  [][Apart(Nodes) /\ graphType # 2 =>
       /\ Distance' <= Distance
       /\ at' # at /\ ~hdr'.inRec => Distance' < Distance]_vars
=============================================================================
