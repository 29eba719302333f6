----------------------------- MODULE Interfaces -----------------------------
(***************************************************************************)
(* The interfaces of a node and the sockets that the routing protocol has  *)
(* on them (model/gpsr.cc): the notifications by which m_socketAddresses   *)
(* follows the interfaces, and the routes that are made from it.           *)
(* Ipv4L3Protocol, which is not in the repository, changes an interface    *)
(* first and notifies the routing protocol then, whether or not SetUp      *)
(* found the interface down, SetDown found it up, or it has an address.    *)
(* The program is built with assertions, and a failed one ends it; what    *)
(* is not defined ends it, too.                                            *)
(***************************************************************************)
EXTENDS Integers, Sequences, FiniteSets, SequencesExt

CONSTANTS
  Ifaces,        \* the interfaces but the loopback one, which is number 0
  Addrs,         \* Ipv4InterfaceAddress
  Unset,         \* the source of a packet that has none yet, 102.102.102.102
  SocketIds,     \* what a Ptr<Socket> may be
  MaxAddrs,      \* bound: the addresses of an interface
  SetUpRepeats   \* whether an interface that is up is ever set up again

ASSUME InterfacesAssumption ==
  /\ Ifaces \subseteq Nat \ {0} /\ 1 \in Ifaces
  /\ SocketIds \subseteq Nat
  /\ MaxAddrs \in Nat
  /\ SetUpRepeats \in BOOLEAN
  /\ Unset \notin Addrs

VARIABLES
  up,                  \* the interfaces that are up
  addrs,               \* the addresses of each interface, first one first
  m_socketAddresses,   \* address and device of each socket
  heard,               \* whether the position table has an entry
  started,             \* whether there is an m_locationService
  out                  \* history: the last route made, or what ended the run

vars == <<up, addrs, m_socketAddresses, heard, started, out>>

NoDev == 0
NoOut == [is |-> "nothing"]

\* GetAddress(i, 0) of an interface that has no address.
NoAddress == [is |-> "assertion", in |-> "GetAddress"]

Running == out.is \notin {"undefined", "assertion"}

Init ==
  /\ up = {}
  /\ addrs = [i \in Ifaces |-> <<>>]
  /\ m_socketAddresses = <<>>
  /\ heard = FALSE
  /\ started = FALSE
  /\ out = NoOut

-----------------------------------------------------------------------------
Sockets == DOMAIN m_socketAddresses

FindSocketWithInterfaceAddress(a) ==
  {s \in Sockets : m_socketAddresses[s].addr = a}

\* m_socketAddresses with a new socket, and without one.
WithSocket(m, s, a, d) ==
  [t \in DOMAIN m \cup {s} |-> IF t = s THEN [addr |-> a, dev |-> d] ELSE m[t]]
WithoutSocket(m, s) == [t \in DOMAIN m \ {s} |-> m[t]]

\* Mutant of Clear: what was heard is kept.
Clear_Nothing ==
  /\ heard' = heard
  /\ out' = IF Sockets' = {} /\ ~started THEN [is |-> "undefined"] ELSE NoOut

\* With the last socket the position table and the location service are
\* cleared, of which the latter is not there before Start.
Clear ==
  /\ heard' = (heard /\ Sockets' # {})
  /\ out' = IF Sockets' = {} /\ ~started THEN [is |-> "undefined"] ELSE NoOut

InUse == UNION {ToSet(addrs[i]) : i \in Ifaces}

\* Mutant of NotifyAddAddress: every address gets a socket.
NotifyAddAddress_Always(i) ==
  IF i \in up
  THEN \E s \in SocketIds \ Sockets :
         m_socketAddresses' =
           WithSocket(m_socketAddresses, s, addrs'[i][1], i)
  ELSE m_socketAddresses' = m_socketAddresses

\* A socket for the first address, if it has none.  The test before it,
\* "GetNAddresses((interface) == 1)", asks for interface 0 or 1 and is true.
NotifyAddAddress(i) ==
  IF i \in up /\ FindSocketWithInterfaceAddress(addrs'[i][1]) = {}
  THEN \E s \in SocketIds \ Sockets :
         m_socketAddresses' =
           WithSocket(m_socketAddresses, s, addrs'[i][1], i)
  ELSE m_socketAddresses' = m_socketAddresses

AddAddress(i, a) ==
  /\ Running
  /\ a \notin InUse /\ Len(addrs[i]) < MaxAddrs
  /\ addrs' = [addrs EXCEPT ![i] = Append(@, a)]
  /\ NotifyAddAddress(i)
  /\ out' = NoOut
  /\ UNCHANGED <<up, heard, started>>

\* Mutant of NotifyRemoveAddress: the next address gets no socket.
NotifyRemoveAddress_NoNew(i, a) ==
  LET found == FindSocketWithInterfaceAddress(a)
  IN  IF found = {} THEN out' = NoOut /\ UNCHANGED <<m_socketAddresses, heard>>
      ELSE \E s \in found :
             m_socketAddresses' = WithoutSocket(m_socketAddresses, s) /\ Clear

\* The socket of the address is forgotten, and the next address of the
\* interface gets one that is bound to no device.
NotifyRemoveAddress(i, a) ==
  LET found == FindSocketWithInterfaceAddress(a)
  IN  IF found = {} THEN out' = NoOut /\ UNCHANGED <<m_socketAddresses, heard>>
      ELSE \E s \in found :
             LET rest == WithoutSocket(m_socketAddresses, s)
             IN  /\ IF addrs'[i] = <<>> THEN m_socketAddresses' = rest
                    ELSE \E new \in SocketIds \ Sockets :
                           m_socketAddresses' =
                             WithSocket(rest, new, addrs'[i][1], NoDev)
                 /\ Clear

RemoveAddress(i, k) ==
  /\ Running
  /\ k \in DOMAIN addrs[i]
  /\ addrs' = [addrs EXCEPT ![i] = RemoveAt(@, k)]
  /\ NotifyRemoveAddress(i, addrs[i][k])
  /\ UNCHANGED <<up, started>>

-----------------------------------------------------------------------------
\* A socket for the first address, whatever sockets there are.
NotifyInterfaceUp(i) ==
  IF addrs[i] = <<>>
  THEN out' = NoAddress /\ UNCHANGED m_socketAddresses
  ELSE /\ out' = NoOut
       /\ \E s \in SocketIds \ Sockets :
            m_socketAddresses' = WithSocket(m_socketAddresses, s, addrs[i][1], i)

SetUp(i) ==
  /\ Running
  /\ i \in up => SetUpRepeats
  /\ up' = up \cup {i}
  /\ NotifyInterfaceUp(i)
  /\ UNCHANGED <<addrs, heard, started>>

\* One socket of the first address is closed; there must be one.
NotifyInterfaceDown(i) ==
  LET found == FindSocketWithInterfaceAddress(addrs[i][1])
  IN  \/ /\ addrs[i] = <<>> /\ out' = NoAddress
         /\ UNCHANGED <<m_socketAddresses, heard>>
      \/ /\ addrs[i] # <<>> /\ found = {}
         /\ out' = [is |-> "assertion", in |-> "NotifyInterfaceDown"]
         /\ UNCHANGED <<m_socketAddresses, heard>>
      \/ /\ addrs[i] # <<>>
         /\ \E s \in found :
              m_socketAddresses' = WithoutSocket(m_socketAddresses, s) /\ Clear

SetDown(i) ==
  /\ Running
  /\ up' = up \ {i}
  /\ NotifyInterfaceDown(i)
  /\ UNCHANGED <<addrs, started>>

\* The first event of the simulation; the calls before it set it up.
Start ==
  /\ Running /\ ~started
  /\ started' = TRUE
  /\ out' = NoOut
  /\ UNCHANGED <<up, addrs, m_socketAddresses, heard>>

\* RouteInput lets a HELLO through to its socket only when there are sockets.
RecvGPSR ==
  /\ Running /\ started /\ Sockets # {}
  /\ heard' = TRUE
  /\ out' = NoOut
  /\ UNCHANGED <<up, addrs, m_socketAddresses, started>>

-----------------------------------------------------------------------------
\* The first of some sockets, in the order of the map.
AddressOfFirst(S) == m_socketAddresses[CHOOSE s \in S : \A t \in S : s <= t].addr

\* Mutant of OnDevice: the socket may be on any device.
OnDevice_Any(oif) == Sockets

\* The sockets whose address is on the device oif.
OnDevice(oif) ==
  {s \in Sockets : m_socketAddresses[s].addr \in ToSet(addrs[oif])}

\* The source address of a packet that goes through loopback.  Without a
\* device the first socket gives it, also when there is none.
LoopbackRoute(oif) ==
  LET usable == IF oif = NoDev THEN Sockets ELSE OnDevice(oif)
  IN  IF usable # {}
      THEN [is |-> "loopback", oif |-> oif, source |-> AddressOfFirst(usable)]
      ELSE IF oif = NoDev THEN [is |-> "undefined"]
      ELSE [is |-> "assertion", in |-> "LoopbackRoute"]

\* Mutant of RouteOutput: a source that is not set is used as it is.
RouteOutput_Unset(source, oif, next) ==
  IF Sockets = {} THEN [is |-> "no route"]
  ELSE IF addrs[1] = <<>> THEN NoAddress
  ELSE IF ~next THEN LoopbackRoute(oif)
  ELSE IF oif # NoDev /\ source \notin ToSet(addrs[oif])
  THEN [is |-> "no route"]
  ELSE [is |-> "route", oif |-> oif, source |-> source]

\* RouteOutput of a packet, whose source may be Unset, with or without a next
\* hop.  It cannot do without an address of interface 1, whatever the device.
RouteOutput(source, oif, next) ==
  IF Sockets = {} THEN [is |-> "no route"]
  ELSE IF addrs[1] = <<>> THEN NoAddress
  ELSE IF ~next THEN LoopbackRoute(oif)
  ELSE LET from == IF source = Unset THEN addrs[1][1] ELSE source
       IN  IF oif # NoDev /\ from \notin ToSet(addrs[oif])
           THEN [is |-> "no route"]
           ELSE [is |-> "route", oif |-> oif, source |-> from]

\* A route is asked for with a packet, and without one, as TCP does.
Route(source, oif, next) ==
  /\ Running /\ started
  /\ out' \in {RouteOutput(source, oif, next), LoopbackRoute(oif)}
  /\ UNCHANGED <<up, addrs, m_socketAddresses, heard, started>>

Next ==
  \/ \E i \in Ifaces, a \in Addrs : AddAddress(i, a)
  \/ \E i \in Ifaces, k \in 1 .. MaxAddrs : RemoveAddress(i, k)
  \/ \E i \in Ifaces : SetUp(i)
  \/ \E i \in Ifaces : SetDown(i)
  \/ Start
  \/ RecvGPSR
  \/ \E source \in InUse \cup {Unset}, oif \in Ifaces \cup {NoDev},
        next \in BOOLEAN : Route(source, oif, next)

Spec == Init /\ [][Next]_vars

-----------------------------------------------------------------------------
\* Types.  A packet never leaves without one of the addresses that the node
\* has then.
TypeOK ==
  /\ up \subseteq Ifaces
  /\ addrs \in [Ifaces -> Seq(Addrs)]
  /\ Sockets \subseteq SocketIds
  /\ \A s \in Sockets :
       m_socketAddresses[s] \in [addr : Addrs, dev : Ifaces \cup {NoDev}]
  /\ heard \in BOOLEAN /\ started \in BOOLEAN
  /\ out.is \in {"nothing", "no route", "route", "loopback", "undefined", "assertion"}
  /\ out.is \in {"route", "loopback"} => out.source \in InUse

\* "Raw socket per each IP interface": every interface that is up and has an
\* address has one socket, with its first address, and there are no others,
\* whatever addresses came and went while it was up or down.
OneSocketPerInterface ==
  /\ \A i \in up : addrs[i] # <<>> =>
       \E s \in Sockets : FindSocketWithInterfaceAddress(addrs[i][1]) = {s}
  /\ \A s \in Sockets : \E i \in up :
       addrs[i] # <<>> /\ m_socketAddresses[s].addr = addrs[i][1]

\* NotifyInterfaceDown asserts that there is a socket to close.  An interface
\* that is up and has an address always has it, whatever addresses came and
\* went before: the assertion fails only for an interface that was down
\* already, or that was left without an address.
DownFindsItsSocket ==
  [][\A i \in up : i \notin up' /\ addrs[i] # <<>> =>
       out'.is # "assertion"]_vars

\* A node without sockets knows no neighbours: what it heard was cleared with
\* the last one, and it hears nothing until there is another.
NothingHeardWithoutSockets == Sockets = {} => ~heard

\* A packet that leaves through loopback for a device has the first address
\* of that device, which is up, as its source.
LoopbackSourceIsOnDevice ==
  out.is = "loopback" /\ out.oif # NoDev =>
    out.oif \in up /\ out.source = addrs[out.oif][1]
=============================================================================
