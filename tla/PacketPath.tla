----------------------------- MODULE PacketPath -----------------------------
(***************************************************************************)
(* What becomes of the headers of one packet on its way (model/gpsr.cc):   *)
(* AddHeaders at the source, SendPacketFromQueue, Forwarding and           *)
(* RecoveryMode, which take them off and put new ones on, and RouteInput   *)
(* and RecvGPSR at the end.  The destination moves and time passes; which  *)
(* of the ways a node takes is left open.  Positions are in whole metres.  *)
(* Each node has a location service of its own, all of one sort:           *)
(* GodLocationService, which always knows, or one that searches.           *)
(***************************************************************************)
EXTENDS PacketHeaders, FiniteSets

CONSTANTS
  Places,      \* the positions of the destination
  Relays,      \* the positions of other nodes
  Limit16,     \* the values of a uint16_t
  MaxTime,     \* bound: seconds of simulated time
  Services,    \* the location services: "god", "on demand"
  Payload      \* the bytes of the packet, which do not begin with a type

ASSUME PacketPathAssumption ==
  /\ Places \subseteq Nat \X Nat /\ Relays \subseteq Nat \X Nat
  /\ Limit16 \in Nat \ {0} /\ MaxTime \in Nat
  /\ Services \subseteq {"god", "on demand"}
  /\ Payload \in Seq({Payload[i] : i \in DOMAIN Payload})
  /\ Payload # <<>> /\ ~IsValid(TypeOf(Payload))

VARIABLES
  now,       \* the second of the clock
  dstPos,    \* where the destination is
  been,      \* history: where it was, and in which second
  service,   \* which location service the nodes have
  kind,      \* what the packet is
  place,     \* where the packet is, or how it ended
  pkt,       \* the packet
  told       \* history: what the receiver of a HELLO put in its table

vars == <<now, dstPos, been, service, kind, place, pkt, told>>

Origin == <<0, 0>>
Kinds == {"udp", "raw", "hello"}   \* raw: neither UDP nor a HELLO
Nobody == <<>>

Init ==
  /\ now = 0
  /\ dstPos \in Places
  /\ been = {<<dstPos, 0>>}
  /\ service \in Services
  /\ kind \in Kinds
  /\ place = "source"
  /\ pkt = <<>>
  /\ told = Nobody

-----------------------------------------------------------------------------
\* GetPosition and GetEntryUpdateTime, as one node may get them from its
\* location service: GodLocationService tells the place and the time of this
\* moment, a service that searches what it found out at any moment before, or
\* nothing, because it did not search yet, did not find, or forgot.  A node
\* may so know more or less than the one before it, and than it did itself.
InvalidPosition == <<-1, -1>>
NoEntry == <<InvalidPosition, 0>>
Entries == IF service = "god" THEN {<<dstPos, now>>} ELSE been \cup {NoEntry}
HasPosition(entry) == entry[1] # InvalidPosition

\* "uint16_t positionX" of AddHeaders.
Cut(p) == <<p[1] % Limit16, p[2] % Limit16>>

\* GpsrHelper::Install makes AddHeaders the way down from UDP, and from
\* nothing else.
HasHeaders == kind # "raw"

AddHeaders(p, dst, time, my) ==
  TypeHeader(GPSRTYPE_POS) \o
  PositionHeader([dstPos |-> dst, updated |-> time, recPos |-> Origin,
                  inRec |-> 0, lastPos |-> my]) \o p

\* RouteOutput of a packet of this node: out at once, or into the queue, as
\* when there is no position, which begins a search.
Send(my, entry, next) ==
  /\ place = "source" /\ kind # "hello"
  /\ pkt' = IF HasHeaders THEN AddHeaders(Payload, Cut(entry[1]), entry[2], my)
            ELSE Payload
  /\ place' = IF next /\ HasPosition(entry) THEN "air" ELSE "queue"
  /\ UNCHANGED <<service, now, dstPos, been, kind, told>>

\* SendHello: the destination is the broadcast address, which has no position.
SendHello(my) ==
  /\ place = "source" /\ kind = "hello"
  /\ pkt' = AddHeaders(TypeHeader(GPSRTYPE_HELLO) \o HelloHeader(dstPos),
                       Origin, 0, my)
  /\ place' = "air"
  /\ UNCHANGED <<service, now, dstPos, been, kind, told>>

-----------------------------------------------------------------------------
Header == ReadPosition(WithoutType(pkt))
Rest == WithoutPosition(WithoutType(pkt))
WithHeader(h) == TypeHeader(GPSRTYPE_POS) \o PositionHeader(h) \o Rest

\* Mutant of Updated: the time is taken over, the position is not.
Updated_TimeOnly(h, entry) ==
  [h EXCEPT !.updated = IF entry[2] > @ THEN entry[2] ELSE @]

\* Mutant of Updated: what the node knows, whether or not it is newer.
Updated_Always(h, entry) ==
  [h EXCEPT !.dstPos = entry[1], !.updated = entry[2]]

\* "check if node has an update to the position of destination".
Updated(h, entry) ==
  IF entry[2] > h.updated
  THEN [h EXCEPT !.dstPos = entry[1], !.updated = entry[2]]
  ELSE h

Greedy(h, rec, my) ==
  WithHeader([h EXCEPT !.recPos = rec, !.inRec = 0, !.lastPos = my])

\* Mutant of Recovery: the old headers stay below the new ones.
Recovery_Twice(h, my) ==
  TypeHeader(GPSRTYPE_POS) \o
  PositionHeader([h EXCEPT !.inRec = 1, !.lastPos = my]) \o pkt

\* RecoveryMode: the headers come off once more and go on again.
Recovery(h, my) == WithHeader([h EXCEPT !.inRec = 1, !.lastPos = my])

Drop == place' = "dropped" /\ pkt' = pkt

\* SendPacketFromQueue, when the node does not search for the destination:
\* next is whether there is a next hop, in greedy mode or else in recovery
\* mode, which begins with the destination position.
SendPacketFromQueue(my, entry, greedy, next) ==
  LET h == Header IN
  /\ place = "queue"
  /\ \/ ~HasPosition(entry) /\ Drop
     \/ HasPosition(entry) /\ ~IsValid(TypeOf(pkt)) /\ Drop
     \/ /\ HasPosition(entry) /\ IsValid(TypeOf(pkt)) /\ greedy
        /\ place' = "air" /\ pkt' = Greedy(Updated(h, entry), my, my)
     \/ /\ HasPosition(entry) /\ IsValid(TypeOf(pkt)) /\ ~greedy
        /\ place' = IF next THEN "air" ELSE "dropped"
        /\ pkt' = Recovery([h EXCEPT !.recPos = my], my)
  /\ UNCHANGED <<service, now, dstPos, been, kind, told>>

\* Forwarding: recovery mode goes on, the packet goes on in greedy mode, or
\* enters recovery mode with the header it came with.
Forwarding(my, entry, greedy, next) ==
  LET h == Header
      onward == IF next THEN "air" ELSE "queue"
  IN  /\ place = "air" /\ kind # "hello"
      /\ \/ ~IsValid(TypeOf(pkt)) /\ Drop
         \/ /\ IsValid(TypeOf(pkt)) /\ h.inRec = 1
            /\ place' = onward /\ pkt' = Recovery(h, my)
         \/ /\ IsValid(TypeOf(pkt)) /\ greedy
            /\ place' = "air" /\ pkt' = Greedy(Updated(h, entry), Origin, my)
         \/ /\ IsValid(TypeOf(pkt)) /\ ~greedy
            /\ place' = onward
            /\ pkt' = Recovery([h EXCEPT !.recPos = my], my)
      /\ UNCHANGED <<service, now, dstPos, been, kind, told>>

-----------------------------------------------------------------------------
\* RouteInput at the destination, or at any node that hears a HELLO.
RouteInput ==
  /\ place = "air"
  /\ IF ~IsValid(TypeOf(pkt))
     THEN Drop /\ told' = told
     ELSE /\ place' = "delivered"
          /\ pkt' = Rest
          /\ told' = IF kind = "hello" THEN ReadHello(WithoutType(Rest)) ELSE told
  /\ UNCHANGED <<service, now, dstPos, been, kind>>

Move(p) ==
  /\ dstPos' = p
  /\ been' = been \cup {<<p, now>>}
  /\ UNCHANGED <<service, now, kind, place, pkt, told>>

Tick ==
  /\ now < MaxTime
  /\ now' = now + 1
  /\ been' = been \cup {<<dstPos, now + 1>>}
  /\ UNCHANGED <<service, dstPos, kind, place, pkt, told>>

Next ==
  \/ \E my \in Relays, entry \in Entries, next \in BOOLEAN :
       Send(my, entry, next)
  \/ \E my \in Relays : SendHello(my)
  \/ \E my \in Relays, entry \in Entries, greedy, next \in BOOLEAN :
       SendPacketFromQueue(my, entry, greedy, next)
  \/ \E my \in Relays, entry \in Entries, greedy, next \in BOOLEAN :
       Forwarding(my, entry, greedy, next)
  \/ RouteInput
  \/ \E p \in Places : Move(p)
  \/ Tick

Spec == Init /\ [][Next]_vars

-----------------------------------------------------------------------------
\* A packet of UDP, or a HELLO, between its source and its end.
OnTheWay == HasHeaders /\ place \in {"queue", "air"}

\* Types.  On its way a packet has one TypeHeader and one PositionHeader in
\* front of what its source sent, with its fields as Deserialize reads them.
TypeOK ==
  /\ now \in 0 .. MaxTime /\ dstPos \in Places
  /\ place \in {"source", "queue", "air", "delivered", "dropped"}
  /\ OnTheWay => /\ TypeOf(pkt) = GPSRTYPE_POS
                 /\ \A i \in DOMAIN PositionWidths :
                      WithoutType(pkt)[i].w = PositionWidths[i]
                 /\ Header.inRec \in {0, 1}
                 /\ Header.recPos \in Relays \cup {Origin}
                 /\ Header.lastPos \in Relays

\* What is delivered is what was sent, however often the headers came off and
\* went on again: at relays, in the queue and in recovery mode.
PayloadIsIntact ==
  place = "delivered" /\ kind = "udp" => pkt = Payload

\* A HELLO puts a position of its sender in the receiver's table.
HelloTellsPosition == told # Nobody => \E t \in 0 .. now : <<told, t>> \in been

\* The destination position in the header of a packet and the time beside it
\* belong together: the destination was there in that second, although both
\* are replaced on the way, by nodes that know more but not by those that know
\* less, and the packet enters and leaves recovery mode with what it came
\* with.  The one exception is the invalid position of a packet that was sent
\* during a search and met no node that knows more.
PositionHasItsTime ==
  kind = "udp" /\ OnTheWay =>
    \/ <<Header.dstPos, Header.updated>> \in been
    \/ Header.dstPos = Cut(InvalidPosition) /\ service # "god"

\* "Destination Position": the destination has been there.
DestinationWasThere ==
  kind = "udp" /\ place = "air" =>
    \E t \in 0 .. now : <<Header.dstPos, t>> \in been

\* The destination position in a packet never gets older, although a node on
\* its way may know an older one, or none.
NeverOlder ==
  [][kind = "udp" /\ OnTheWay /\ OnTheWay' => Header'.updated >= Header.updated]_vars
=============================================================================
