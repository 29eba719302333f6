-------------------------- MODULE NeighboursProofs --------------------------
(***************************************************************************)
(* The properties of Neighbours, for any addresses, positions, life time   *)
(* and graph type.  All but the finiteness of the table is what the runs   *)
(* check; the history variable is reset by every event that does not route *)
(* a packet, so what is said of the last next hop is about the table it    *)
(* was taken from.                                                         *)
(***************************************************************************)
EXTENDS Neighbours, PositionTableProofs

IInv ==
  /\ TypeOK
  /\ IsFiniteSet(DOMAIN m_table)
  /\ ForwardedToTheLiving
  /\ RecoveryFindsSomeone
  /\ OnlyDeadEndsTurnBack

\* What is heard and what is computed with are points of the plane.
LEMMA TruncatedType ==
  ASSUME NEW p \in Nat \X Nat
  PROVE  Truncated(p) \in Points
<1>1. p[1] \in Nat /\ p[2] \in Nat /\ Scale \in Nat /\ Scale > 0
  BY ScaleAssumption
<1>2. \A x \in Nat : x \div Scale \in Int
  BY <1>1
<1>3. \A x, y \in Int : x * y \in Int
  OBVIOUS
<1> QED
  BY <1>1, <1>2, <1>3 DEF Truncated, Points

\* The table of a reachable state is one that the searches are proved for,
\* before a purge and after it.
LEMMA TablesAreTables ==
  ASSUME TypeOK, IsFiniteSet(DOMAIN m_table)
  PROVE  /\ IsTable(m_table) /\ IsTable(Purge(m_table))
         /\ DOMAIN Purge(m_table) \subseteq DOMAIN m_table
         /\ \A a \in DOMAIN Purge(m_table) :
              /\ Purge(m_table)[a] = m_table[a]
              /\ IsLive(Purge(m_table), a)
         /\ Purge(Purge(m_table)) = Purge(m_table)
<1>1. \A a \in DOMAIN m_table : m_table[a].pos \in Points
  BY TruncatedType, NeighboursAssumption DEF TypeOK, Heard
<1>2. /\ DOMAIN Purge(m_table) \subseteq DOMAIN m_table
      /\ \A a \in DOMAIN Purge(m_table) :
           /\ Purge(m_table)[a] = m_table[a]
           /\ IsLive(Purge(m_table), a)
  BY DEF Purge, IsLive
<1>3. IsFiniteSet(DOMAIN Purge(m_table))
  BY <1>2, FS_Subset
<1>4. Purge(Purge(m_table)) = Purge(m_table)
  <2> DEFINE live == {b \in DOMAIN m_table : IsLive(m_table, b)}
             t == [a \in live |-> m_table[a]]
  <2>1. Purge(m_table) = t
    BY DEF Purge
  <2>2. {b \in DOMAIN t : IsLive(t, b)} = live
    BY DEF IsLive
  <2>3. Purge(t) = [a \in live |-> t[a]]
    BY <2>2 DEF Purge
  <2> QED
    BY <2>1, <2>3
<1> QED
  BY <1>1, <1>2, <1>3, <1>4 DEF IsTable, TypeOK

\* A purged table has the types of the table.
LEMMA PurgeType ==
  ASSUME TypeOK, IsFiniteSet(DOMAIN m_table), m_table' = Purge(m_table)
  PROVE  /\ DOMAIN m_table' \subseteq Addrs
         /\ IsFiniteSet(DOMAIN m_table')
         /\ \A a \in DOMAIN m_table' :
              m_table'[a] \in [pos : Heard, age : 0 .. EntryLifeTime]
BY TablesAreTables DEF TypeOK, IsTable

\* Events that route nothing leave nothing to be said of the next hop.
LEMMA NothingRouted ==
  ASSUME TypeOK', IsFiniteSet(DOMAIN m_table)', hop' = NoHop
  PROVE  IInv'
BY DEF IInv, ForwardedToTheLiving, RecoveryFindsSomeone, OnlyDeadEndsTurnBack,
       NoHop

\* Recovery mode, from wherever it is entered.
LEMMA RecoveryStep ==
  ASSUME IInv, NEW p \in Positions, RecoveryMode(p)
  PROVE  IInv'
<1> DEFINE here == Truncated(myPos)
           last == Truncated(p)
           neighbors == PlanarNeighbors(m_table', here, GraphType)
           Vec(a) == Direction(here, m_table'[a].pos)
           ahead == {a \in neighbors : Sector(Direction(here, last), Vec(a)) # 0}
           best == BestAngle(m_table', last, here, GraphType)
<1>1. /\ m_table' = Purge(m_table)
      /\ myPos' = myPos
      /\ hop' = [by |-> "recovery", last |-> last, to |-> best]
  BY DEF RecoveryMode
<1>2. here \in Points /\ last \in Points
  BY TruncatedType, NeighboursAssumption DEF IInv, TypeOK
<1>3. IsTable(m_table') /\ \A a \in DOMAIN m_table' : IsLive(m_table', a)
  BY <1>1, TablesAreTables DEF IInv
<1>4. /\ neighbors = {} => best = Zero
      /\ neighbors # {} => best \in neighbors
      /\ ahead # {} => best \in ahead
  BY <1>2, <1>3, BestAngleProperties
<1>5. neighbors \subseteq DOMAIN m_table' /\ DOMAIN m_table' \subseteq Addrs
      /\ Zero \notin Addrs
  BY <1>3, PlanarNeighborsInTable, TableAssumption DEF IsTable, Zero
<1> HIDE DEF neighbors, best
<1>6. TypeOK' /\ IsFiniteSet(DOMAIN m_table)'
  <2>1. hop'.by = "recovery" /\ hop'.to \in Addrs \cup {Zero}
    BY <1>1, <1>4, <1>5
  <2> QED
    BY <1>1, <2>1, PurgeType DEF IInv, TypeOK, Hops
<1>7. ForwardedToTheLiving'
  BY <1>1, <1>3, <1>4, <1>5 DEF ForwardedToTheLiving, LiveHop, IsLive
<1>8. RecoveryFindsSomeone'
  <2> SUFFICES ASSUME GraphType # 2, best = Zero,
                      NEW a \in DOMAIN m_table', m_table'[a].pos # here
               PROVE  FALSE
    BY <1>1 DEF RecoveryFindsSomeone
  <2>1. neighbors = {}
    BY <1>4, <1>5
  <2>2. CASE GraphType = 0
    BY <2>1, <2>2 DEF neighbors, PlanarNeighbors
  <2>3. CASE GraphType = 1
    <3>1. neighbors = GetGabrielNeighbors(m_table', here)
      BY <2>3 DEF neighbors, PlanarNeighbors
    <3>2. GetGabrielNeighbors(m_table', here) # {}
      BY <1>2, <1>3, GabrielKeepsNearest DEF IsTable
    <3> QED
      BY <2>1, <3>1, <3>2
  <2> QED
    BY <2>2, <2>3, NeighboursAssumption
<1>9. OnlyDeadEndsTurnBack'
  <2> DEFINE Back(a) == /\ Cross(Direction(here, last), Vec(a)) = 0
                        /\ Dot(Direction(here, last), Vec(a)) > 0
  <2>1. \A a : Sector(Direction(here, last), Vec(a)) # 0 <=> ~Back(a)
    BY DEF Sector
  <2>2. Back(best) => \A a \in neighbors : Back(a)
    BY <1>4, <2>1
  <2> QED
    BY <1>1, <2>2 DEF OnlyDeadEndsTurnBack, neighbors
<1> QED
  BY <1>6, <1>7, <1>8, <1>9 DEF IInv

\* A next hop of RouteOutput, of the queue or of Forwarding is an address of
\* the table it was looked up in, or none.
LEMMA NextHopProperties ==
  ASSUME TypeOK, IsFiniteSet(DOMAIN m_table), NEW dst \in Addrs, NEW dstPos,
         NEW t \in {m_table, Purge(m_table)}
  PROVE  /\ NextHop(t, dst, dstPos) \in Addrs \cup {Zero}
         /\ NextHop(t, dst, dstPos) # Zero => NextHop(t, dst, dstPos) \in DOMAIN t
<1>1. IsTable(Purge(t)) /\ DOMAIN Purge(t) \subseteq DOMAIN t
  BY TablesAreTables
<1>2. BestNeighbor(Purge(t), dstPos, myPos) \in DOMAIN Purge(t) \cup {Zero}
  BY <1>1, BestNeighborProperties
<1> QED
  BY <1>1, <1>2 DEF NextHop, IsNeighbour, IsTable

\* RouteOutput, and the queue when it finds a next hop.
LEMMA RouteStep ==
  ASSUME IInv, NEW dst \in Addrs, NEW dstPos \in Positions,
         RouteOutput(dst, dstPos)
  PROVE  IInv'
<1>1. hop'.by = "route" /\ hop'.to \in Addrs \cup {Zero}
  BY NextHopProperties DEF IInv, RouteOutput
<1>2. TypeOK' /\ IsFiniteSet(DOMAIN m_table)'
  <2>1. CASE m_table' = m_table
    BY <1>1, <2>1 DEF IInv, TypeOK, Hops, RouteOutput
  <2>2. CASE m_table' = Purge(m_table)
    BY <1>1, <2>2, PurgeType DEF IInv, TypeOK, Hops, RouteOutput
  <2> QED
    BY <2>1, <2>2 DEF RouteOutput
<1> QED
  BY <1>1, <1>2 DEF IInv, ForwardedToTheLiving, RecoveryFindsSomeone,
                    OnlyDeadEndsTurnBack

\* Forwarding: the table is purged first, so its choice is alive.
LEMMA ForwardingStep ==
  ASSUME IInv, NEW dst \in Addrs, NEW dstPos \in Positions,
         Forwarding(dst, dstPos)
  PROVE  IInv'
<1> DEFINE live == Purge(m_table)
           nextHop == NextHop(live, dst, dstPos)
<1>1. CASE RecoveryMode(dstPos)
  BY <1>1, RecoveryStep
<1>2. CASE /\ nextHop # Zero
           /\ m_table' = live
           /\ hop' = [by |-> "forward", to |-> nextHop]
           /\ UNCHANGED myPos
  <2>1. nextHop \in Addrs \cup {Zero} /\ nextHop \in DOMAIN live
    BY <1>2, NextHopProperties DEF IInv
  <2>2. TypeOK' /\ IsFiniteSet(DOMAIN m_table)'
    BY <1>2, <2>1, PurgeType DEF IInv, TypeOK, Hops
  <2>3. ForwardedToTheLiving'
    BY <1>2, <2>1, TablesAreTables
       DEF IInv, ForwardedToTheLiving, LiveHop, IsLive
  <2> QED
    BY <1>2, <2>2, <2>3 DEF IInv, RecoveryFindsSomeone, OnlyDeadEndsTurnBack
<1> QED
  BY <1>1, <1>2 DEF Forwarding

\* A HELLO replaces one entry or adds it.
LEMMA HelloStep ==
  ASSUME IInv, NEW a \in Addrs, NEW p \in Positions, RecvGPSR(a, p)
  PROVE  IInv'
<1>1. DOMAIN m_table' = DOMAIN m_table \cup {a}
  BY DEF RecvGPSR, AddEntry
<1>2. IsFiniteSet(DOMAIN m_table')
  BY <1>1, FS_AddElement DEF IInv
<1>3. \A b \in DOMAIN m_table' :
        m_table'[b] \in [pos : Heard, age : 0 .. EntryLifeTime]
  BY TableAssumption DEF RecvGPSR, AddEntry, IInv, TypeOK, Heard
<1>4. TypeOK'
  BY <1>1, <1>3 DEF RecvGPSR, IInv, TypeOK, NoHop
<1> QED
  BY <1>2, <1>4, NothingRouted DEF RecvGPSR

\* Entries grow older, but no older than their life time.
LEMMA TickStep ==
  ASSUME IInv, Tick
  PROVE  IInv'
<1>1. DOMAIN m_table' = DOMAIN m_table
  BY DEF Tick
<1>2. ASSUME NEW a \in DOMAIN m_table
      PROVE  m_table'[a] \in [pos : Heard, age : 0 .. EntryLifeTime]
  <2>1. m_table[a] \in [pos : Heard, age : 0 .. EntryLifeTime]
    BY DEF IInv, TypeOK
  <2>2. m_table'[a] = [m_table[a] EXCEPT !.age = IF @ < EntryLifeTime
                                                   THEN @ + 1 ELSE @]
    BY DEF Tick
  <2> QED
    BY <2>1, <2>2, TableAssumption
<1>3. TypeOK'
  BY <1>1, <1>2 DEF Tick, IInv, TypeOK, NoHop
<1> QED
  BY <1>1, <1>3, NothingRouted DEF Tick, IInv

-----------------------------------------------------------------------------
\* The invariant holds of the empty table that a node starts with.
LEMMA InitIInv == Init => IInv
<1> SUFFICES ASSUME Init PROVE IInv
  OBVIOUS
<1>1. DOMAIN m_table = {} /\ IsFiniteSet({})
  BY FS_EmptySet DEF Init
<1> QED
  BY <1>1 DEF Init, IInv, TypeOK, ForwardedToTheLiving, RecoveryFindsSomeone,
              OnlyDeadEndsTurnBack, NoHop

\* Every event keeps it.
LEMMA NextIInv == IInv /\ [Next]_vars => IInv'
<1> SUFFICES ASSUME IInv, [Next]_vars PROVE IInv'
  OBVIOUS
<1>1. ASSUME NEW a \in Addrs, NEW p \in Positions, RecvGPSR(a, p) PROVE IInv'
  BY <1>1, HelloStep
<1>2. ASSUME NEW dst \in Addrs, NEW p \in Positions, RouteOutput(dst, p)
      PROVE  IInv'
  BY <1>2, RouteStep
<1>3. ASSUME NEW dst \in Addrs, NEW p \in Positions, SendPacketFromQueue(dst, p)
      PROVE  IInv'
  BY <1>3, RouteStep, RecoveryStep DEF SendPacketFromQueue
<1>4. ASSUME NEW dst \in Addrs, NEW p \in Positions, Forwarding(dst, p)
      PROVE  IInv'
  BY <1>4, ForwardingStep
<1>5. ASSUME NEW p \in Positions, RecoveryMode(p) PROVE IInv'
  BY <1>5, RecoveryStep
<1>6. ASSUME NEW p \in MyPositions, Move(p) PROVE IInv'
  <2>1. TypeOK' /\ IsFiniteSet(DOMAIN m_table)'
    BY <1>6 DEF Move, IInv, TypeOK, NoHop
  <2> QED
    BY <1>6, <2>1, NothingRouted DEF Move
<1>7. CASE InterfaceDown
  <2>1. DOMAIN m_table' = {} /\ IsFiniteSet({})
    BY <1>7, FS_EmptySet DEF InterfaceDown
  <2>2. TypeOK' /\ IsFiniteSet(DOMAIN m_table)'
    BY <1>7, <2>1 DEF InterfaceDown, IInv, TypeOK, NoHop
  <2> QED
    BY <1>7, <2>2, NothingRouted DEF InterfaceDown
<1>8. CASE Tick
  BY <1>8, TickStep
<1>9. CASE UNCHANGED vars
  BY <1>9 DEF vars, IInv, TypeOK, ForwardedToTheLiving, LiveHop, IsLive,
              RecoveryFindsSomeone, OnlyDeadEndsTurnBack
<1> QED
  BY <1>1, <1>2, <1>3, <1>4, <1>5, <1>6, <1>7, <1>8, <1>9 DEF Next

\* The invariant holds in every reachable state.
THEOREM Invariance == Spec => []IInv
BY InitIInv, NextIInv, PTL DEF Spec

\* Addresses and positions in the table are ones that were heard.
THEOREM TypeCorrect == Spec => []TypeOK
<1>1. IInv => TypeOK
  BY DEF IInv
<1> QED
  BY <1>1, Invariance, PTL

\* Packets that are relayed go to neighbours heard within the life time.
THEOREM AlwaysForwardedToTheLiving == Spec => []ForwardedToTheLiving
<1>1. IInv => ForwardedToTheLiving
  BY DEF IInv
<1> QED
  BY <1>1, Invariance, PTL

\* Recovery mode finds a next hop wherever there is a neighbour apart.
THEOREM RecoveryAlwaysFindsSomeone == Spec => []RecoveryFindsSomeone
<1>1. IInv => RecoveryFindsSomeone
  BY DEF IInv
<1> QED
  BY <1>1, Invariance, PTL

\* Recovery mode sends a packet straight back only out of a dead end.
THEOREM AlwaysOnlyDeadEndsTurnBack == Spec => []OnlyDeadEndsTurnBack
<1>1. IInv => OnlyDeadEndsTurnBack
  BY DEF IInv
<1> QED
  BY <1>1, Invariance, PTL
=============================================================================
