---------------------------- MODULE PacketBuffer ----------------------------
(***************************************************************************)
(* What the deferred packets of a node are promised, without timers,       *)
(* searches or a list of addresses.  Each ending of a packet has its       *)
(* reason: one that is taken in fails only when its time is up, when it is *)
(* the oldest and in the way of a new one, or when its destination is      *)
(* nowhere; it is dropped, of which nobody is told, only when it has no    *)
(* header or its destination has no way out; it is refused only where      *)
(* another fragment of its datagram is buffered.  All others are passed    *)
(* on, in the order in which they came for their destination, and no more  *)
(* than Capacity of them are buffered.                                     *)
(***************************************************************************)
EXTENDS Naturals, FiniteSets

CONSTANTS
  Packets,
  Destinations,
  Destination,
  Uid,
  HasHeader,    \* the packets that can be passed on
  Capacity      \* the packets that may be buffered at a time

VARIABLES
  outcome,      \* where each packet is, or how it ended
  before,       \* the pairs of buffered packets, the earlier one first
  overdue,      \* the buffered packets whose time is up
  nowhere       \* the destinations of which no position is to be had

vars == <<outcome, before, overdue, nowhere>>

Outcomes ==
  {"outside", "buffered", "passed", "failed", "dropped", "refused"}

Buffered == {p \in Packets : outcome[p] = "buffered"}
Fresh == Buffered \ overdue

Among(S) == {e \in before : e[1] \in S /\ e[2] \in S}
Oldest(S) == {p \in S : \A r \in S \ {p} : <<p, r>> \in before}

Init ==
  /\ outcome = [p \in Packets |-> "outside"]
  /\ before = {}
  /\ overdue = {}
  /\ nowhere \in SUBSET Destinations

\* Time passes, and positions are found and forgotten.
World ==
  /\ overdue \subseteq overdue' /\ overdue' \subseteq Buffered
  /\ nowhere' \subseteq Destinations
  /\ UNCHANGED <<outcome, before>>

\* A packet of the node itself, or one that comes from a neighbour, for the
\* first time or again.
Arriving(p) == outcome[p] \in {"outside", "passed"}

\* It goes on at once, or is dropped at once: it is not taken in.
Bypass(p, end) ==
  /\ Arriving(p)
  /\ outcome' = [outcome EXCEPT ![p] = end]
  /\ UNCHANGED <<before, overdue, nowhere>>

IsFragment(p, r) == Uid[r] = Uid[p] /\ Destination[r] = Destination[p]

\* It is taken in.  The packets whose time is up fail, and the oldest of the
\* others when they leave no room.
Accept(p) ==
  LET crowded == IF Cardinality(Fresh) = Capacity THEN Oldest(Fresh) ELSE {}
      staying == Fresh \ crowded
  IN  /\ Arriving(p)
      /\ \A r \in Fresh : ~IsFragment(p, r)
      /\ Cardinality(staying) < Capacity
      /\ outcome' = [r \in Packets |->
                       IF r = p THEN "buffered"
                       ELSE IF r \in overdue \cup crowded THEN "failed"
                       ELSE outcome[r]]
      /\ before' = Among(staying) \cup (staying \X {p})
      /\ overdue' = {}
      /\ UNCHANGED nowhere

\* It is refused.  The packets whose time is up fail.
Refuse(p) ==
  /\ Arriving(p)
  /\ \E r \in Fresh : IsFragment(p, r)
  /\ outcome' = [r \in Packets |-> IF r = p THEN "refused"
                                   ELSE IF r \in overdue THEN "failed"
                                   ELSE outcome[r]]
  /\ before' = Among(Fresh)
  /\ overdue' = {}
  /\ UNCHANGED nowhere

\* The packets whose time is up, or whose destination is nowhere, fail.  Of
\* the others some leave, none while an earlier one to its destination stays,
\* and are passed on unless they have no header or there is no way.
Release(leaving, noWay) ==
  LET failing == overdue \cup {p \in Buffered : Destination[p] \in nowhere}
      staying == Buffered \ (failing \cup leaving)
  IN  /\ leaving \cap failing = {}
      /\ \A e \in before :
           e[2] \in leaving /\ Destination[e[1]] = Destination[e[2]]
             => e[1] \notin staying
      /\ outcome' = [r \in Packets |->
                       IF r \in failing THEN "failed"
                       ELSE IF r \notin leaving THEN outcome[r]
                       ELSE IF r \in HasHeader /\ Destination[r] \notin noWay
                         THEN "passed" ELSE "dropped"]
      /\ before' = Among(staying)
      /\ overdue' = {}
      /\ UNCHANGED nowhere

Next ==
  \/ World
  \/ \E p \in Packets, end \in {"passed", "dropped"} : Bypass(p, end)
  \/ \E p \in Packets : Accept(p)
  \/ \E p \in Packets : Refuse(p)
  \/ \E leaving \in SUBSET Buffered, noWay \in SUBSET Destinations :
       Release(leaving, noWay)

Spec == Init /\ [][Next]_vars
=============================================================================
