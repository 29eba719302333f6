---------------------------- MODULE RequestQueue ----------------------------
(***************************************************************************)
(* The queue of packets that wait for a route (model/gpsr-rqueue.{h,cc}).  *)
(* m_queue is a std::vector<QueueEntry>; an entry is the packet and what   *)
(* GetExpireTime() returns for it, the time it has left, in ticks.  The    *)
(* header and the two callbacks travel with the packet and are part of it. *)
(* Every operation takes the vector and returns it as the method leaves    *)
(* it; the packets it hands to their error callback are a set of its own.  *)
(***************************************************************************)
EXTENDS Integers, Subsequences

CONSTANTS
  Packets,      \* the IP packets that ever reach this node
  Dsts,         \* the destination addresses they carry
  Destination,  \* GetIpv4Header().GetDestination() of a packet
  Uid           \* GetPacket()->GetUid(); the fragments of a datagram share it

ASSUME PacketsAssumption == Destination \in [Packets -> Dsts]

PacketsIn(q) == {q[i].pkt : i \in DOMAIN q}
Distinct(q) == \A i, j \in DOMAIN q : q[i].pkt = q[j].pkt => i = j

\* IsExpired: the entry's expire time is strictly in the past.
IsExpired(e) == e.expire < 0

Live(q) == {i \in DOMAIN q : ~IsExpired(q[i])}
Purge(q) == Keep(q, Live(q))
PurgeDrops(q) == {q[i].pkt : i \in DOMAIN q \ Live(q)}

\* Mutant of SameEntry: the packets are compared, not their uids.
SameEntry_ByPacket(p, r) == p = r

\* The comparison of Enqueue: an entry with the same packet and destination.
SameEntry(p, r) == Uid[p] = Uid[r] /\ Destination[p] = Destination[r]
IsQueued(q, p) == \E i \in DOMAIN q : SameEntry(q[i].pkt, p)

\* Mutant of IsFull: one entry more than allowed.
IsFull_OffByOne(q, maxLen) == Len(q) > maxLen

\* The oldest entry goes when the vector has exactly maxLen elements.
IsFull(q, maxLen) == Len(q) = maxLen

Enqueue(q, p, maxLen, timeout) ==
  LET live == Purge(q) IN
  IF IsQueued(live, p)
    THEN live
    ELSE Append(IF IsFull(live, maxLen) THEN Tail(live) ELSE live,
                [pkt |-> p, expire |-> timeout])

\* Mutant of EnqueueDrops: expired entries are erased without their callback.
EnqueueDrops_OldestOnly(q, p, maxLen) ==
  LET live == Purge(q) IN
  IF ~IsQueued(live, p) /\ IsFull(live, maxLen) THEN {live[1].pkt} ELSE {}

EnqueueDrops(q, p, maxLen) ==
  LET live == Purge(q) IN
  PurgeDrops(q) \cup IF ~IsQueued(live, p) /\ IsFull(live, maxLen)
                       THEN {live[1].pkt}
                       ELSE {}

\* The positions of the entries that DropPacketWithDst(d) erases, and that
\* Dequeue(d) hands out one after the other, the earliest first.
EntriesFor(q, d) == {i \in DOMAIN q : Destination[q[i].pkt] = d}
=============================================================================
