--------------------------- MODULE DeferredRouting ---------------------------
(***************************************************************************)
(* The packets of one GPSR node that cannot be sent at once: RouteOutput   *)
(* tags them and sends them through the loopback device, RouteInput and    *)
(* Forwarding hand them to DeferredRouteOutput, which queues them, and     *)
(* CheckQueue polls the queue every 500 ms while an address is waiting     *)
(* (model/gpsr.cc).  The simulator runs one event at a time, so every      *)
(* handler is one action; the order of the events is free, except that     *)
(* time passes only when nothing is left to do at the present instant.     *)
(*                                                                         *)
(* What the neighbours offer, a next hop or none, is open at every event:  *)
(* the nodes move and HELLO messages come and go between any two of them.  *)
(* So is what the interfaces offer, sockets and an own address or none.    *)
(***************************************************************************)
EXTENDS RequestQueue

CONSTANTS
  HasHeader,    \* packets whose first bytes are a valid TypeHeader (UDP data)
  PollDelay,    \* Time("500ms") of CheckQueueTimer, in ticks
  MaxLens,      \* the values MaxQueueLen may take
  Timeouts,     \* the values MaxQueueTime may take, in ticks
  OnDemand      \* the location service searches; GodLocationService does not

ASSUME DeferredAssumption ==
  /\ HasHeader \subseteq Packets
  /\ PollDelay \in Nat \ {0}
  /\ MaxLens \subseteq Nat \ {0}
  /\ Timeouts \subseteq Nat
  /\ OnDemand \in BOOLEAN

VARIABLES
  m_queue,            \* RequestQueue::m_queue
  m_maxLen,           \* RequestQueue::m_maxLen
  m_queueTimeout,     \* RequestQueue::m_queueTimeout
  m_queuedAddresses,  \* the list of destinations CheckQueue visits
  CheckQueueTimer,    \* the delay left, or Off
  m_lo,               \* tagged packets in the loopback device, in order
  ls,                 \* what the location service says of an address
  fate                \* history: where each packet is, or how it ended

vars == <<m_queue, m_maxLen, m_queueTimeout, m_queuedAddresses,
          CheckQueueTimer, m_lo, ls, fate>>

Off == -1                    \* CheckQueueTimer is not scheduled
Floor == -(PollDelay + 1)    \* bound: an entry is not aged any further

LocationStates == {"searching", "known", "unknown"}

Waiting == {"queued", "polled"}  \* "polled": has outlasted a CheckQueue
Final == {"error", "lost", "duplicate"}
Fates == {"new", "loopback", "forwarded"} \cup Waiting \cup Final

Entries == [pkt : Packets, expire : Floor .. 0 \cup Nat]

Init ==
  /\ m_queue = <<>>
  /\ m_maxLen \in MaxLens
  /\ m_queueTimeout \in Timeouts
  /\ m_queuedAddresses = <<>>
  /\ CheckQueueTimer = Off
  /\ m_lo = <<>>
  /\ ls = [d \in Dsts |-> IF OnDemand THEN "unknown" ELSE "known"]
  /\ fate = [p \in Packets |-> "new"]

-----------------------------------------------------------------------------
(***************************************************************************)
(* DeferredRouteOutput.  GetSize and Enqueue purge.  The result of Enqueue *)
(* is only logged: a packet that is already there is gone without notice.  *)
(***************************************************************************)
\* Mutants of DeferredTimer: a wrong delay; a restart for every packet.
DeferredTimer_WrongDelay ==
  IF Purge(m_queue) = <<>> THEN PollDelay + 1 ELSE CheckQueueTimer
DeferredTimer_Restarted == PollDelay

DeferredTimer == IF Purge(m_queue) = <<>> THEN PollDelay ELSE CheckQueueTimer

Announce(d) == Unique(<<d>> \o m_queuedAddresses)

EnqueuedFate(p) ==
  IF IsQueued(Purge(m_queue), p) THEN "duplicate" ELSE "queued"

DeferredRouteOutput(p) ==
  /\ CheckQueueTimer' = DeferredTimer
  /\ m_queue' = Enqueue(m_queue, p, m_maxLen, m_queueTimeout)
  /\ m_queuedAddresses' = Announce(Destination[p])
  /\ fate' = [r \in Packets |->
                IF r = p THEN EnqueuedFate(p)
                ELSE IF r \in EnqueueDrops(m_queue, p, m_maxLen) THEN "error"
                ELSE fate[r]]

-----------------------------------------------------------------------------
(***************************************************************************)
(* The location service: GetPosition starts a search for what it does not  *)
(* know; a search ends with or without a position; a position is forgotten.*)
(***************************************************************************)
AfterGetPosition(d) == IF ls[d] = "unknown" THEN "searching" ELSE ls[d]

LsAnswer(d) ==
  /\ ls[d] = "searching"
  /\ ls' \in {[ls EXCEPT ![d] = s] : s \in {"known", "unknown"}}
  /\ UNCHANGED <<m_queue, m_maxLen, m_queueTimeout, m_queuedAddresses,
                 CheckQueueTimer, m_lo, fate>>

LsForget(d) ==
  /\ OnDemand
  /\ ls[d] = "known"
  /\ ls' = [ls EXCEPT ![d] = "unknown"]
  /\ UNCHANGED <<m_queue, m_maxLen, m_queueTimeout, m_queuedAddresses,
                 CheckQueueTimer, m_lo, fate>>

-----------------------------------------------------------------------------
(***************************************************************************)
(* RouteOutput for a packet of this node: a route when there is a position *)
(* and a neighbour in its direction, the loopback device otherwise.  When  *)
(* the node has no socket it says so to the caller and takes no packet.    *)
(***************************************************************************)
RouteOutput(p, nextHopFound) ==
  /\ fate[p] = "new"
  /\ ls' = [ls EXCEPT ![Destination[p]] = AfterGetPosition(Destination[p])]
  /\ \/ /\ nextHopFound
        /\ ls'[Destination[p]] # "searching"
        /\ fate' = [fate EXCEPT ![p] = "forwarded"]
        /\ UNCHANGED m_lo
     \/ /\ ~nextHopFound \/ ls'[Destination[p]] = "searching"
        /\ fate' = [fate EXCEPT ![p] = "loopback"]
        /\ m_lo' = Append(m_lo, p)
  /\ UNCHANGED <<m_queue, m_maxLen, m_queueTimeout, m_queuedAddresses,
                 CheckQueueTimer>>

\* The packet leaves the node, or is dropped, and no queue is touched.
Gone(p, f) ==
  /\ fate' = [fate EXCEPT ![p] = f]
  /\ UNCHANGED <<m_queue, m_queuedAddresses, CheckQueueTimer>>

\* Greedy and recovery mode both give a route or none.
Forwarding(p, nextHopFound) ==
  \/ p \notin HasHeader /\ Gone(p, "lost")
  \/ p \in HasHeader /\ nextHopFound /\ Gone(p, "forwarded")
  \/ p \in HasHeader /\ ~nextHopFound /\ DeferredRouteOutput(p)

\* RouteInput of a packet that is not for this node.  deferred says that it
\* has the tag and an address of this node as its source.
RouteInput(p, sockets, deferred, nextHopFound) ==
  \/ ~sockets /\ Gone(p, "lost")
  \/ sockets /\ deferred /\ DeferredRouteOutput(p)
  \/ sockets /\ ~deferred /\ Forwarding(p, nextHopFound)

\* A packet comes back from the loopback device.  The interfaces may have
\* changed since it got its source: there may be no socket any more, or none
\* with that address.
FromLoopback(sockets, own, nextHopFound) ==
  /\ m_lo # <<>>
  /\ RouteInput(Head(m_lo), sockets, own, nextHopFound)
  /\ m_lo' = Tail(m_lo)
  /\ UNCHANGED <<m_maxLen, m_queueTimeout, ls>>

\* A packet of another node, which may be one that has passed here before.
FromNeighbour(p, sockets, nextHopFound) ==
  /\ fate[p] \in {"new", "forwarded"}
  /\ RouteInput(p, sockets, FALSE, nextHopFound)
  /\ UNCHANGED <<m_maxLen, m_queueTimeout, m_lo, ls>>

-----------------------------------------------------------------------------
(***************************************************************************)
(* CheckQueue calls SendPacketFromQueue once for every element of          *)
(* m_queuedAddresses, repetitions included.  A call for a destination that *)
(* is being searched returns before it touches the queue; any other purges *)
(* it first.  If there is no position, every entry is dropped.  If there   *)
(* is one, entries are dequeued until none is left (and the address is     *)
(* done) or until one without a TypeHeader has been taken out: the call    *)
(* returns false and the entries behind that one wait for the next visit.  *)
(***************************************************************************)
Visits(d) == Cardinality({i \in DOMAIN m_queuedAddresses :
                            m_queuedAddresses[i] = d})

Searching(d) == ls[d] = "searching"

\* Mutant of Swept: SendPacketFromQueue does not purge.
Swept_Unpurged == m_queue

Swept == IF \E d \in Elements(m_queuedAddresses) : ~Searching(d)
           THEN Purge(m_queue)
           ELSE m_queue

NoHeader(q, d) == {i \in EntriesFor(q, d) : q[i].pkt \notin HasHeader}

\* Mutant of IsDone: the address is done although a packet without a header
\* has stopped the call.
IsDone_AnyAnswer(d) == ~Searching(d)

\* The last call for d is one that returns true.
IsDone(d) ==
  \/ ls[d] = "unknown"
  \/ ls[d] = "known" /\ Cardinality(NoHeader(Swept, d)) < Visits(d)

\* Mutants of IsTaken: the newest entries first; one entry for each call.
IsTaken_NewestFirst(i) ==
  LET d == Destination[Swept[i].pkt] IN
  /\ d \in Elements(m_queuedAddresses)
  /\ \/ ls[d] = "unknown"
     \/ /\ ls[d] = "known"
        /\ Cardinality({j \in NoHeader(Swept, d) : j > i}) < Visits(d)
IsTaken_OnePerCall(i) ==
  LET d == Destination[Swept[i].pkt] IN
  /\ d \in Elements(m_queuedAddresses)
  /\ \/ ls[d] = "unknown"
     \/ /\ ls[d] = "known"
        /\ Cardinality({j \in EntriesFor(Swept, d) : j < i}) < Visits(d)

\* Some call for the entry's destination takes it out.
IsTaken(i) ==
  LET d == Destination[Swept[i].pkt] IN
  /\ d \in Elements(m_queuedAddresses)
  /\ \/ ls[d] = "unknown"
     \/ /\ ls[d] = "known"
        /\ Cardinality({j \in NoHeader(Swept, d) : j < i}) < Visits(d)

Left == Keep(Swept, {i \in DOMAIN Swept : ~IsTaken(i)})

\* Mutant of FateAfterPoll: DropPacketWithDst calls no error callback.
FateAfterPoll_NoCallback(p, reachable) ==
  IF p \in PacketsIn(Left) THEN "polled"
  ELSE IF p \notin PacketsIn(Swept) THEN "error"
  ELSE IF ls[Destination[p]] # "unknown" /\ p \in HasHeader
          /\ Destination[p] \in reachable
    THEN "forwarded"
  ELSE "lost"

\* RecoveryMode's answer is ignored: without a neighbour the packet is lost.
FateAfterPoll(p, reachable) ==
  IF p \in PacketsIn(Left) THEN "polled"
  ELSE IF p \notin PacketsIn(Swept) \/ ls[Destination[p]] = "unknown"
    THEN "error"
  ELSE IF p \in HasHeader /\ Destination[p] \in reachable
    THEN "forwarded"
  ELSE "lost"

AddressesLeft == Without(m_queuedAddresses, {d \in Dsts : IsDone(d)})

CheckQueue(reachable) ==
  /\ CheckQueueTimer = 0
  /\ m_queue' = Left
  /\ m_queuedAddresses' = AddressesLeft
  /\ CheckQueueTimer' = IF AddressesLeft # <<>> THEN PollDelay ELSE Off
  /\ fate' = [p \in Packets |->
                IF p \in PacketsIn(m_queue) THEN FateAfterPoll(p, reachable)
                ELSE fate[p]]
  /\ UNCHANGED <<m_maxLen, m_queueTimeout, m_lo, ls>>

-----------------------------------------------------------------------------
\* The attributes MaxQueueLen and MaxQueueTime are set on a running node.
SetMaxQueueLen(len) ==
  /\ m_maxLen' = len
  /\ UNCHANGED <<m_queue, m_queueTimeout, m_queuedAddresses, CheckQueueTimer,
                 m_lo, ls, fate>>

SetMaxQueueTime(t) ==
  /\ m_queueTimeout' = t
  /\ UNCHANGED <<m_queue, m_maxLen, m_queuedAddresses, CheckQueueTimer,
                 m_lo, ls, fate>>

\* One tick of simulated time: every event that is due now comes first.
Age(e) == [e EXCEPT !.expire = IF @ > Floor THEN @ - 1 ELSE @]

Tick ==
  /\ m_lo = <<>>
  /\ CheckQueueTimer # 0
  /\ m_queue' = [i \in DOMAIN m_queue |-> Age(m_queue[i])]
  /\ CheckQueueTimer' = IF CheckQueueTimer = Off THEN Off
                        ELSE CheckQueueTimer - 1
  /\ UNCHANGED <<m_maxLen, m_queueTimeout, m_queuedAddresses, m_lo, ls, fate>>

Next ==
  \/ \E p \in Packets, nextHopFound \in BOOLEAN : RouteOutput(p, nextHopFound)
  \/ \E sockets, own, nextHopFound \in BOOLEAN :
       FromLoopback(sockets, own, nextHopFound)
  \/ \E p \in Packets, sockets, nextHopFound \in BOOLEAN :
       FromNeighbour(p, sockets, nextHopFound)
  \/ \E reachable \in SUBSET Dsts : CheckQueue(reachable)
  \/ \E d \in Dsts : LsAnswer(d)
  \/ \E d \in Dsts : LsForget(d)
  \/ \E len \in MaxLens : SetMaxQueueLen(len)
  \/ \E t \in Timeouts : SetMaxQueueTime(t)
  \/ Tick

Spec == Init /\ [][Next]_vars

(***************************************************************************)
(* The simulator executes every event that is scheduled, and time goes on: *)
(* the poll and the loopback delivery are such events.  A search of the    *)
(* location service ends.                                                  *)
(***************************************************************************)
Fairness ==
  /\ WF_vars(Tick)
  /\ WF_vars(\E sockets, own, nextHopFound \in BOOLEAN :
               FromLoopback(sockets, own, nextHopFound))
  /\ WF_vars(\E reachable \in SUBSET Dsts : CheckQueue(reachable))
  /\ \A d \in Dsts : WF_vars(LsAnswer(d))

FairSpec == Spec /\ Fairness

-----------------------------------------------------------------------------
\* Types.  The delay of a timer that runs is never above the one it is given.
TypeOK ==
  /\ m_queue \in Seq(Entries)
  /\ m_maxLen \in MaxLens
  /\ m_queueTimeout \in Timeouts
  /\ m_queuedAddresses \in Seq(Dsts)
  /\ CheckQueueTimer \in 0 .. PollDelay \cup {Off}
  /\ m_lo \in Seq(Packets)
  /\ ls \in [Dsts -> LocationStates]
  /\ fate \in [Packets -> Fates]

\* Every queued packet will be polled: its destination is on the list that
\* CheckQueue walks, and while that list is not empty, and only then, the
\* timer runs.  DeferredRouteOutput starts the timer on the size of the
\* queue and CheckQueue restarts it on the list, which are not in step.
EveryDestinationIsVisited ==
  \A i \in DOMAIN m_queue :
    Destination[m_queue[i].pkt] \in Elements(m_queuedAddresses)
TimerRunsForTheList == m_queuedAddresses # <<>> <=> CheckQueueTimer # Off
NoStrandedPacket == EveryDestinationIsVisited /\ TimerRunsForTheList

\* A packet does not time out before CheckQueue has tried it once, provided
\* no timeout is shorter than the poll delay: nothing that happens to other
\* packets puts off the poll that a waiting packet is counting on.
PolledBeforeTimeout ==
  (\A t \in Timeouts : t >= PollDelay) =>
    \A i \in DOMAIN m_queue :
      fate[m_queue[i].pkt] = "queued" =>
        CheckQueueTimer # Off /\ m_queue[i].expire >= CheckQueueTimer

\* Packets are neither copied nor forgotten: the packets that wait are those
\* of the queue and those in loopback are in the device, each exactly once.
Once(s) == \A i, j \in DOMAIN s : s[i] = s[j] => i = j
EachPacketInOnePlace ==
  /\ PacketsIn(m_queue) = {p \in Packets : fate[p] \in Waiting}
  /\ Distinct(m_queue)
  /\ Elements(m_lo) = {p \in Packets : fate[p] = "loopback"}
  /\ Once(m_lo)

\* Enqueue: "if there is no entry with the same packet and destination".
NoDuplicateEntries ==
  \A i, j \in DOMAIN m_queue :
    LET p == m_queue[i].pkt
        r == m_queue[j].pkt
    IN  Uid[p] = Uid[r] /\ Destination[p] = Destination[r] => i = j

\* The queue holds at most MaxQueueLen packets.
QueueIsBounded == Len(m_queue) <= m_maxLen

\* "The maximum number of packets that we allow a routing protocol to
\* buffer": a queue that has reached it, or is beyond it because MaxQueueLen
\* was lowered, does not get longer.
FullQueueDoesNotGrow ==
  [][Len(m_queue) >= m_maxLen => Len(m_queue') <= Len(m_queue)]_vars

\* Deferred packets leave in the order they came: CheckQueue never forwards
\* a packet while an earlier one for the same destination stays behind.
FirstComeFirstServed ==
  [][\A i, j \in DOMAIN m_queue :
       LET p == m_queue[i].pkt
           r == m_queue[j].pkt
       IN i < j /\ Destination[p] = Destination[r]
          /\ fate'[r] \in {"forwarded", "lost"} => fate'[p] \notin Waiting]_vars

\* With a position at hand, a packet outlasts a poll only behind a packet
\* without a TypeHeader, on which SendPacketFromQueue gave up: every poll
\* that does not serve a destination completely loses such a packet of it.
OnlyHeaderlessPacketsBlock ==
  [][\A p \in Packets :
       LET d == Destination[p] IN
       /\ ls[d] = "known"
       /\ fate[p] \in Waiting /\ fate'[p] = "polled"
       /\ CheckQueueTimer = 0 /\ CheckQueueTimer' # 0
       => \E r \in Packets \ HasHeader : Destination[r] = d
            /\ fate[r] \in Waiting /\ fate'[r] = "lost"]_vars

\* Nothing but a search keeps a packet beyond its MaxQueueTime: one that
\* outlasts a poll after its time does so because the location service still
\* searches for every destination on the list.  In all other cases the call
\* for one destination purges the packets for the others as well, those whose
\* own search has not ended among them.
OnlySearchesKeepOverdue ==
  [][CheckQueueTimer = 0 /\ CheckQueueTimer' # 0
     /\ (\E i \in DOMAIN m_queue' : m_queue'[i].expire < 0)
       => \A d \in Elements(m_queuedAddresses) : Searching(d)]_vars

\* A queued packet leaves the queue in the end, one way or another.
QueuedPacketsLeave ==
  \A p \in Packets : fate[p] \in Waiting ~> fate[p] \notin Waiting

-----------------------------------------------------------------------------
(***************************************************************************)
(* What all this amounts to: the queue implements a PacketBuffer of        *)
(* MaxQueueLen packets, as long as that attribute is not changed.          *)
(***************************************************************************)
Outcome(f) ==
  CASE f \in {"new", "loopback"} -> "outside"
    [] f \in Waiting -> "buffered"
    [] f = "forwarded" -> "passed"
    [] f = "lost" -> "dropped"
    [] f = "error" -> "failed"
    [] f = "duplicate" -> "refused"

Before(q) ==
  {e \in PacketsIn(q) \X PacketsIn(q) :
     \E i, j \in DOMAIN q : i < j /\ q[i].pkt = e[1] /\ q[j].pkt = e[2]}

Nowhere == {d \in Dsts : ls[d] = "unknown"}

Buffer == INSTANCE PacketBuffer WITH
  outcome <- [p \in Packets |-> Outcome(fate[p])],
  before <- Before(m_queue),
  overdue <- PurgeDrops(m_queue),
  nowhere <- Nowhere,
  Destinations <- Dsts,
  Capacity <- CHOOSE n \in MaxLens : TRUE

\* The queue with its timer, its list and its searches implements the
\* buffer.  Whatever the order of events, every packet that DeferredRouteOutput
\* takes in ends in one way and for a reason: its error callback is called
\* because its MaxQueueTime is over, because it is the oldest of a full queue
\* or because its destination has no position; neither callback is called
\* only where SendPacketFromQueue finds no TypeHeader or RecoveryMode no
\* neighbour, or where Enqueue has a fragment already; and all others are
\* forwarded, in the order of their arrival.
ImplementsPacketBuffer == Buffer!Spec
=============================================================================
