# A TLA+ model of the GPSR routing module for ns-3

The repository implements Greedy Perimeter Stateless Routing as an ns-3.29
module. A node sends HELLO messages with its position, keeps the positions of
its neighbours in a table, and forwards a packet to the neighbour nearest to
the destination (greedy mode) or, where no neighbour is nearer than the node
itself, around the void with the right hand rule on a planar subgraph (recovery
mode). Packets that have no next hop wait in a queue that a timer polls.

This directory specifies that behaviour in TLA+, checks it with TLC on small
instances and proves the most important invariants with TLAPS.

## Inventory

| Component | Code | State | Operations | What makes it correct |
|---|---|---|---|---|
| Request queue | `gpsr-rqueue.{h,cc}` | `m_queue`, `m_maxLen`, `m_queueTimeout` | `Enqueue`, `Dequeue`, `DropPacketWithDst`, `GetSize`, `Purge`, `Drop` | bounded, no duplicates, order kept, one callback for each packet |
| Deferred routing | `gpsr.cc` 166–426, 1026–1122 | `m_queuedAddresses`, `CheckQueueTimer`, the loopback device | `RouteOutput`, `RouteInput`, `DeferredRouteOutput`, `CheckQueue`, `SendPacketFromQueue` | no packet waits without a timer; packets leave in order, and do leave |
| Position table | `gpsr-ptable.{h,cc}` | `m_table`, `m_entryLifeTime`, `graphType` | `AddEntry`, `Purge`, `Clear`, `isNeighbour`, `BestNeighbor`, `BestAngle` | live next hops; recovery mode finds a neighbour if there is one |
| Planar graphs | `gpsr-ptable.cc` 202–289 | the tables of all nodes | `GetGabrielNeighbors`, `GetRngNeighbors` | symmetric, connected, planar |
| Forwarding | `gpsr.cc` 300–487, 857–1012 | the position header of the packet | `Forwarding`, `RecoveryMode`, `AddHeaders` | progress in greedy mode, no endless walk in recovery mode |
| HELLO exchange | `gpsr.cc` 534–564, 701–775 | `HelloIntervalTimer` | `HelloTimerExpire`, `SendHello`, `RecvGPSR` | a neighbour in range stays in the table |
| Interfaces | `gpsr.cc` 489–531, 566–699, 815–849, 1026–1122 | `m_socketAddresses` | `NotifyInterfaceUp/Down`, `NotifyAdd/RemoveAddress`, `LoopbackRoute`, `RouteOutput` | one socket for each interface that is up; a source address for every route |
| Packet headers | `gpsr-packet.{h,cc}`, `gpsr.cc` 857–1012 | the bytes of a packet | `Serialize`, `Deserialize`, `AddHeaders` and all that takes headers off and puts them on again | what arrives is what was sent; positions and their times belong together |
| Helper | `helper/` | – | `Install` makes `AddHeaders` the way down from UDP; attributes | only what goes through UDP has headers |
| Examples | `examples/` | – | place nodes, send, move nodes away | packets get around the voids they make |

The components call each other directly. `RouteOutput` and `Forwarding` ask the
location service and the position table; on failure they hand the packet to
`DeferredRouteOutput`, the first one by way of the loopback device, because
only `RouteInput` has the callbacks that the queue needs. The poll takes packets
out and asks the table again. HELLOs change the table at any time between these
steps, the location service starts, ends and forgets searches, and attributes
may be set on a running node. The simulator runs one event at a time, so there
are no data races; what is hard is the order of events, their timing, and state
that is read long after it was written. `PROJECT.json` lists the hazards by line.

## Modules

| Module | What it is |
|---|---|
| `Subsequences` | removing elements of a `std::vector` or `std::list` and keeping the order, as one non-recursive operator `Keep` |
| `RequestQueue` | the queue's operations as operators on a sequence of entries `[pkt, expire]` |
| `DeferredRouting` | the state machine of the queue, the list, the poll timer, the loopback device and the location service of one node |
| `PositionTable` | the table's operations as operators on a function from addresses to `[pos, age]`, with the planar subgraphs and the right hand rule |
| `Neighbours` | the state machine of one node's table: HELLOs, movement, time, and the users of the table |
| `PlanarGraph` | the graph that the tables of all nodes make up, wherever they are |
| `PacketBuffer` | the abstract specification of deferred packets: passed on in order, or failed, dropped or refused, each for its reason and once |
| `Headers` | what a position loses in a packet header |
| `Routing` | the way of one packet from its source to its destination over many nodes, with its position header |
| `Examples` | the networks and flows of `gpsr-test1` to `gpsr-test9`, as scenarios of `Routing` |
| `PacketHeaders` | packets as sequences of fields, and the three headers in front of them |
| `PacketPath` | the headers of one packet from its source to its end, while its destination moves and the nodes know more or less of where it is |
| `Hello` | the HELLO timer of one node, the air, and the entry in a neighbour's table |
| `Interfaces` | the interfaces and addresses of a node, the sockets on them, and the routes made from them |
| `MC…` | the small instances for TLC |
| `…Proofs` | theorems and lemmas: `DeferredRoutingProofs` (with `Subsequences` and `RequestQueue`), `NeighboursProofs`, `PlanarGraphProofs`, `RoutingProofs` and `PacketPathProofs`, on lemmas of `PositionTableProofs` where they need them, `HelloProofs`, `InterfacesProofs` |

`RequestQueue` and `PositionTable` are written without variables so that several
state machines can use them: `DeferredRouting` extends the first, `Neighbours`,
`PlanarGraph` and `Routing` the second. `PacketBuffer` is instantiated at the end of
`DeferredRouting`, with the refinement mapping: `fate` gives the outcome of a
packet, the queue the order of those that wait and which of them are overdue, the
location service the destinations that are nowhere. In `PacketBuffer` every way to
end has its reason. A packet fails (the error callback) only when its time is up,
when it is the oldest of a full buffer, or when its destination is nowhere; it
is dropped (neither callback) only when it has no header or there is no way out;
it is refused (a fragment that `Enqueue` does not take) only while another fragment
of its datagram waits. All others are passed on, in order. The endings map one
to one: "error" is failed, "lost" dropped, "duplicate" refused, "forwarded" passed.

### How the state corresponds to the code

*DeferredRouting.* The six variables named as in the code are those members (the
loopback device stands for the packets in it). `ls` is what the location service
answers: `IsInSearch` is "searching", `HasPosition` is false for "unknown", and
`GetPosition` of an unknown address starts a search. `fate` is a history
variable: "error" means the error callback was called, "lost" that a packet was
dropped without it, "duplicate" that `Enqueue` returned false. It also marks, as
"polled", a packet that outlasted a poll. An entry's `expire` is
`GetExpireTime()`, the time that is left; it goes down with time. The calls that
`CheckQueue` makes are not unrolled: `IsTaken` says which entries some call takes
out, in terms of the number of visits to the destination and of the packets in
front of the entry that end a call, and `IsDone` which addresses are removed.
Whether the table offers a next hop is open at every event, and so is, in `RouteInput`,
whether the node has sockets, and whether the source of a packet that comes out of
the loopback device is still an address of the node.

*Neighbours.* `m_table` is the table with the age of each entry in place of its
time stamp, and `hop` a history variable with the next hop that the last event
chose. Positions are integers, `Scale` of them to the metre; HELLO and position
headers and the integer variables of `RecoveryMode` cut them to whole metres.
`SendPacketFromQueue` and `Forwarding` fall back to `RecoveryMode` as in the
code; `RouteOutput` leaves that to the queue.

*PlanarGraph.* One function gives the positions; the tables are those of nodes
that have just heard everyone in range. That the edges connect is stated by
cuts: if the radio leads out of a set of nodes, then an edge does.

*Routing.* `hdr` is the packet's `PositionHeader` without the time stamp, `at` the
node that has the packet, and `status` the call that comes next: `RouteOutput`
("new"), `Forwarding` or `RouteInput` ("moving"), `SendPacketFromQueue`
("queued"). "lost" is where `SendPacketFromQueue` ignores that `RecoveryMode`
found nothing; `LostOnlyAlone` says that in graph types 0 and 1 this is only the
packet of a source that hears nobody. A scenario says where the nodes are, who sends to whom, and the
graph type. The nodes stand still and every table is complete, except that
the source may have heard nobody when the packet is new. `Forwarding` takes the
position in the header or that of the location service, which it does whenever
the latter is newer; entering recovery mode keeps the one in the header, as the
code does.

*Examples.* `NodesN` is what `CreateNodes` of `gpsr-testN` makes with the values of
its constructor, `TestN` what `InstallApplications` sends over it: a UDP echo, and so
a packet in each direction. Nodes that a test moves away are, as in the test,
all in one far place. `gpsr-test7` opens its hole half-way, and gives two scenarios.

*PacketPath.* `pkt` is the packet, outermost header first, each field with its width.
`service` is the sort of location service: `GodLocationService` knows where the
destination is now. One that searches is a service of each node for itself, and may know,
at every look, where the destination was at any moment before, or nothing: so a node
may know more or less than the one before it (`Entries`). `kind` tells UDP
packets from others, which `GpsrHelper::Install` leaves without headers, and from
HELLOs, which get a position header in front of their own as they go
through UDP too. Which node has the packet, and whether it finds a next hop,
is open; `been` is the history of the destination by seconds, since
`GetEntryUpdateTime` goes into the header in whole seconds.

*Hello.* Time is in parts of `GPSR_MAXJITTER`, half of the interval. `timer`, `onAir`
and `age` are the time left, the time on the way and the age of the entry;
`lost` counts the HELLOs lost in a row, `away` is a history variable. A purge comes
with any packet or route, that is, at any time.

*Interfaces.* `m_socketAddresses` keeps, with the address of each socket, the device it
is bound to. The actions are those of `Ipv4L3Protocol`, which changes the interface and
then calls the notification. `heard` is whether the table has entries, `started`
whether `Start` has made the location service, `out` a history variable with the
last route or assertion. Where the code reads through a null pointer or past
the end, `out` is "undefined". That and a failed assertion, of the code or of
`GetAddress`, end the run, as they do in the debug build that the README of the repository
configures. `SetDown` may come at any time, also when the interface is
down or has no address: `Ipv4L3Protocol` notifies all the same.

### Abstractions

* Doubles: the model computes with integers and squared distances. The margin
  of `1e-6` in the planar tests is below any difference between integer points
  of the sizes a simulation has, so the comparisons agree; rounding of angles
  that are equal in exact arithmetic is not modelled.
* `isNeighbour` and `AddEntry` look at `end()->first` for an address that is not
  in the map. With libstdc++ that reads the number of entries, which would have
  to equal an address 0.0.0.n to matter; the models take it as different.
* Coordinates are not negative: their conversion to `uint64_t` is undefined
  otherwise.
* The invalid position of the location service is taken to be (−1, −1); in the
  `uint16_t` of `AddHeaders` it becomes the largest values, as compilers do it,
  although the conversion is undefined.
* The TTL is not modelled: a packet in a loop travels for ever in `Routing`, and
  is dropped by IP after 64 hops in a simulation.
* A packet is a model value with a destination, a uid and a first byte.
  TCP and ICMP packets, which get no position header, are those not in
  `HasHeader`, or of kind "raw"; their first byte is not by chance a GPSR type.
* ns-3 itself, the location service, mobility and the radio are not in the
  repository and are modelled as far as the code relies on them.

## What the runs check

| Run | Instance | Shows |
|---|---|---|
| `DeferredOnDemand` | 4 packets (two fragments of one datagram, one without a header, one to another destination), limit 2, timeouts 2 and 3, poll delay 2, searching location service | `NoStrandedPacket`, `PolledBeforeTimeout`, `EachPacketInOnePlace`, `NoDuplicateEntries`, `QueueIsBounded`, `FirstComeFirstServed`, `OnlyHeaderlessPacketsBlock`, `OnlySearchesKeepOverdue` |
| `DeferredLive` | 3 packets, with fairness | `QueuedPacketsLeave`, and the refinement `ImplementsPacketBuffer` |
| `NeighboursGabriel` | 3 neighbours, 7 positions of theirs (one of them between whole metres), 4 of the node, life time 2, graph type 1 | `ForwardedToTheLiving`, `RecoveryFindsSomeone`, `OnlyDeadEndsTurnBack` |
| `PlanarGabriel` | 4 nodes on a 4 × 3 grid, range √5 | `GabrielIsSymmetric`, `GabrielKeepsConnections`, `GabrielCrossesOnlyInRectangles` |
| `RoutingVoids` | 6 nodes on 5 × 4 positions, source and destination fixed, the relays on any 4 other points, range √5, graph type 1; and the networks of the examples, with up to 100 nodes, graph type 0; with fairness | `LostOnlyAlone`, `Delivery`, `ProgressIsKept` |
| `PathHeaders` | a destination in 3 places over 2 seconds, relays in 2 places, both sorts of location service, any entry at any node, 16-bit values cut at 8 | `PayloadIsIntact`, `HelloTellsPosition`, `PositionHasItsTime`, `NeverOlder` |
| `HelloKept` | interval 4 and jitter 2, delay up to 1, one HELLO in a row lost, life time 14, with fairness | `NeighbourIsKept`, `NeighbourIsFound` |
| `InterfacesOnce` | 2 interfaces, 3 addresses, at most 2 on an interface, 3 sockets | `OneSocketPerInterface`, `DownFindsItsSocket`, `NothingHeardWithoutSockets`, `LoopbackSourceIsOnDevice` |

Bounds. `Floor` in `DeferredRouting` stops the ageing of an entry one tick after
the poll delay; nothing tells older entries apart.
`Neighbours` stops it at the life time, for the same reason. A limit of two with
four packets makes overflow, the block of a packet behind another one, and
expiry before, at and after a poll happen in one queue; the list of addresses
cannot grow without limit because each packet is queued at most once by its
node (a forwarded packet may come back, and then is queued again). The two fragments are a
symmetry set: they have the same `Uid` and destination, and nothing else tells them
apart. Three
neighbours are the least with two edges that witness against each other and one
more to turn to; four nodes are the least for two edges that cross.
Four relays are enough for a void with a way around it on either side and for
walks of up to twelve hops; the relays' addresses follow their places, which
matters only where two of them are equally good. The examples bring larger
networks with the voids that their authors thought of, and with nodes of
whom many are in no reach. In `PathHeaders` no place is cut to another one and the
invalid position is cut to none, so that the properties tell them apart; two seconds
let the destination move before, during and after each step. In `HelloKept`
the life time is the least that the timing assumption allows, so an entry
comes within one tick of its end. In `InterfacesOnce` an interface has a first
address, a next one, and none; a third socket is needed only while one is
replaced.

Fairness. `FairSpec` assumes weak fairness of the tick, of the loopback delivery
and of the poll: the simulator executes every scheduled event and its clock goes
on. `Routing` assumes that the packet's next call comes: a frame reaches its
receiver, the loopback device delivers and the queue is polled. `FairSpec` of
`DeferredRouting` also assumes that a search of the location service ends, which the
code relies on as well (`gpsr.cc:288` waits for it without a limit). `Hello` assumes
that the timer expires, that what is on its way arrives, and that the clock goes
on. Nothing is assumed of new packets, attribute changes, forgetting, movement or
purges.

Deadlock is checked in the runs of `DeferredRouting`, `Neighbours` and `PlanarGraph`.
In `Routing` and `PacketPath` a packet comes to an end, in `Hello` the environment need not
do anything, and in `Interfaces` a failed assertion ends the run.

### Where code and documents disagree

| Run | Property | What happens |
|---|---|---|
| `DeferredResize` | `FullQueueDoesNotGrow` | the limit is tested with `==`: after it was lowered below the length the queue grows without limit |
| `NeighboursStale` | `RoutedToTheLiving` | `isNeighbour` ignores the age of an entry: packets of the node go to neighbours that are gone |
| `PlanarRng` | `RngIsRelativeNeighborhoodGraph` | the witness test of graph type 2 compares the wrong distances and removes edges that the relative neighborhood graph keeps |
| `PathFar` | `DestinationWasThere` | `AddHeaders` keeps coordinates in 16 bits: beyond 65535 m a packet heads for another place |

Some other properties are stated with an exception or under an assumption because
the code does not keep them without it:

* `OnlySearchesKeepOverdue`: `SendPacketFromQueue` returns before the queue is
  purged when the location service searches (`gpsr.cc:288`). If it does so for every
  destination on the list, packets stay beyond `MaxQueueTime`.
* `PositionHasItsTime`: a packet that is sent during a search carries the invalid
  position, and keeps it when it leaves the queue in recovery mode
  (`gpsr.cc:352`), or when the answer came in second 0. This and that the header keeps the
  old position on entering recovery mode (`gpsr.cc:999`) are what the code does; no property
  says that a header tells the newest position that a node knows.
* `DownFindsItsSocket` speaks of an interface that is up and has an address when it is set
  down. `NotifyInterfaceDown` asks for the first address and asserts that it has a socket
  (`gpsr.cc:586`), but `SetDown` notifies also when the interface is down already, or has lost
  its last address: then the assertion there, or the one in `GetAddress`, fails. The
  same holds for `SetUp` of an interface without an address (`gpsr.cc:499`) and for `RouteOutput`
  when interface 1 has none. The model takes these steps, and ends there.
* The theorems about `Interfaces` assume that an interface is set up only when it
  is down: `NotifyInterfaceUp` adds a socket whatever is there (`gpsr.cc:514`), and
  `NotifyInterfaceDown` removes one. `Ipv4AddressHelper::Assign` sets an
  interface up with each address it assigns.
* `OneSocketPerInterface` says nothing of devices: the socket that `NotifyRemoveAddress`
  makes (`gpsr.cc:677`) is bound to none. `LoopbackSourceIsOnDevice` says
  nothing of the assertion at `gpsr.cc:845`, which fails for a device that has no socket,
  nor of a call without a device while there are no sockets, which reads the first element
  of an empty map (`gpsr.cc:842`) and is undefined.

With fractions of a metre packets can circle between two nodes until their TTL
ends, and recovery mode, which measures from a rounded entry point, can end
too early or too late; `Delivery` and `ProgressIsKept` are therefore checked, and
the latter proved, with whole metres (`Scale = 1`).

In a table with graph type 2, two neighbours close to each other remove each
other's edges, so recovery mode can find no next hop although there are
neighbours; `RecoveryFindsSomeone`, `LostOnlyAlone` and `ProgressIsKept` are therefore
stated for types 0 and 1. They also assume that no two nodes tell the same place
(`Apart`): nodes in one place have no edge between them. In the networks of `gpsr-test5`,
`gpsr-test6` and the second one of `gpsr-test7`, where the nodes that are moved away meet
in one place, `Apart(Nodes)` is therefore false, and `LostOnlyAlone` and `ProgressIsKept` say
nothing; `Delivery` needs only those within reach of the source to be apart.

## What is proved

All theorems hold for every value of the constants that the named assumptions
allow: any packets, limits and delays; any addresses, positions, life times and
ranges.

*DeferredRouting* (`DeferredRoutingProofs`). The main invariant `IInv` is the
conjunction of `TypeOK`, `NoStrandedPacket`, `PolledBeforeTimeout` and
`EachPacketInOnePlace`. They need each other: that the timer, started because the
queue was empty, finds the new destination on the list needs types; that a poll
leaves no entry without its address needs the packets of the queue to be
distinct, since `IsDone` counts them; that a packet in loopback or on its way is
not in the queue already, and so is queued once, needs the history to agree with
the queue. The lemma `DoneLeavesNothing` is the heart: an address that
`CheckQueue` removes from its list has no entry left in the queue.
`NeverDuplicated` adds that the queue mixes no two fragments of one datagram, which
`Enqueue` keeps because it compares with what is left after its purge.
`AlwaysBounded` and `Refinement` hold for a `MaxQueueLen` that is not changed
(`MaxLens = {n}`). The refinement has one lemma for each action. Where a packet is queued,
what `Enqueue` purges and pushes out must be what `PacketBuffer` lets fail, no
less and no more: the queue is full exactly if the buffer is (`DistinctCount`), and its first
entry is the oldest. The lemma of the poll is about order and reasons: what
`IsTaken` takes out of a destination's packets is a prefix of them, and each
gets the ending that its header, its destination and its age call for. The same lemma (`PollInOrder`) gives `FirstServed`.
`OnlyHeaderlessBlock` picks the first packet without a header in front of one that
stays (`BlockedBySomePacket`), and `OnlySearchesKeep` looks at what the purge at the start of a
poll leaves. Both need that the timer also starts anew when a packet is deferred, but
only after everything that waited has expired (`TimerRestarts`).

*RequestQueue* and *Subsequences*. What `Keep`, `Unique`, `Purge` and `Enqueue`
return: which elements, in which order, and what is dropped.

*Neighbours* (`NeighboursProofs`). All four properties of `NeighboursGabriel`,
for the three graph types. The argument is in `PositionTableProofs`:
`WitnessIsNear` (a point inside the circle over an edge is nearer to both ends
than they are to each other, from an identity for the sum of squares) gives
`GabrielKeepsNearest`; `SmallerAngleOrder` shows that the comparison of angles is
a strict order on directions, from Plücker's relation between cross products,
and `MinimalElement` that a finite set has a least one, so that `BestAngle`
returns what the comments say.

*PlanarGraph* (`PlanarGraphProofs`). All three properties of graph type 1, for any
number of nodes anywhere in the plane and any range. `GabrielSymmetry`: a witness
that one end hears, the other end hears too. `GabrielConnects`: of all the radio
links out of a set of nodes take a shortest one (`LeastNatural`); a witness against
it would be an end of a shorter link out of the set. `GabrielIsPlanar`: where two edges
cross, no end of one is inside the circle of the other, so at none of the four ends
is the angle obtuse; the scalar products there, weighted with the areas that the
edges span, sum up to zero (`CrossingIdentity`), and as the weights have one sign
(`WeightedSum`) all four angles are right ones.

*Routing* (`RoutingProofs`). `TypeOK`, `LostOnlyAlone` and `ProgressIsKept`, in any network
of finitely many nodes. The invariant adds to the types that the scenario does not
change (`NetworkOK`), that the header tells the position of the destination once
it is written (`HeaderOK`), and where a packet can get stuck (`NeverStuck`): a packet that
moves came from a neighbour, so its node has one, and with it an edge
(`SomeEdge`, from `GabrielKeepsNearest`); only the source puts it in the queue.
`ProgressKept`, for positions in whole metres (`Scale = 1`), has one lemma for each mode:
`GreedyGains` rests on `BestNeighborIsNearer`, and `RecoveryGains` on the test that leaves
recovery mode only nearer to the destination than it was entered.

*PacketPath* (`PacketPathProofs`). All properties of `PathHeaders`. The lemmas
`PacketProperties` and `HelloIsRead` say that headers come off any sequence of fields
as they were put on. The invariant is that a packet on its way is one header
in front of what its source sent (`PacketOK`, `BodyOK`), with what the history of the
destination says of the header (`Dated`); it says the same of every entry that a
node may get (`EntriesAreTrue`).
Every step that replaces headers is one lemma (`WithHeaderKeepsInvariant`).
`PositionKeepsItsTime` assumes that the positions fit in the 16 bits of `AddHeaders` (`Fits`);
`PathFar` shows what happens otherwise. The other theorems need no such assumption.

*Hello* (`HelloProofs`). `NeighbourIsKept`, for any timing that `TimingAssumption` allows:
the life time exceeds the longest period, one and a half intervals, times
one more than the HELLOs lost in a row, plus the delay. The invariant bounds
the age of an entry by the periods since its last HELLO (`AgeIsBounded`) and says
that a HELLO on its way arrives before the next one is sent (`OneOnAir`). The default
values, an interval of one second and a life time of two, tolerate no loss.

*Interfaces* (`InterfacesProofs`). The four invariants of `InterfacesOnce` and its action
property `DownFindsItsSocket`, for any interfaces and addresses, assuming
`~SetUpRepeats`. The invariant puts `OneSocketPerInterface` as an equation
(`Follows`): no two sockets have the same address, and the addresses of sockets are
the first addresses of the interfaces that are up. It also needs that no
address is twice on the node, since the notifications find a socket by its address.

Only model-checked: the liveness properties `QueuedPacketsLeave`, `Delivery` and
`NeighbourIsFound`, since TLAPS does not reason about fairness here; and the networks of
`Examples`, which are particular ones. Every invariant and action property of
a passing run is a theorem. The hypotheses are the named assumptions of the modules and,
in the theorems that say so above, `MaxLens = {n}`, `~SetUpRepeats`, `Scale = 1` and `Fits`.

## Not modelled

* Relays that move while a packet is on its way. `PacketPath` leaves every choice of a
  relay open, so its properties hold then too; `Delivery` and `ProgressIsKept` do
  not speak of moving relays, and the code promises nothing there.
* `gpsr-test10` places and moves its nodes at random; the set-up of radio and stack and
  the measuring in all examples belong to ns-3.
* Printing, `operator==`, logging, the byte order of headers and the `TypeId` tables: they
  have no state, and no property tells their results apart.
* The attributes of `GpsrHelper` and their getters, `PerimeterMode`, which nothing reads, and
  `LocationServiceName`: the value `RLS` leaves the pointer to the service null.
* `RequestQueue::Find`, `PositionTable::DeleteEntry`, `HasPosition`, `GetPosition`,
  `IsInSearch` and `ProcessTxError` have no caller or no effect.

## Plan

1. A network whose nodes move while they exchange HELLOs and forward packets, with
   `Hello` for the tables; this needs a promise to check it against.
2. The ranking argument behind `Delivery`, as far as it is safety: greedy mode
   visits no node twice, and recovery mode on the Gabriel graph leaves by an edge
   that the next node can walk back.
