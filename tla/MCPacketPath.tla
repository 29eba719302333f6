---------------------------- MODULE MCPacketPath ----------------------------
(***************************************************************************)
(* A destination that moves among three places over two seconds, and two   *)
(* places of relays.  In the large instance one of the places does not fit *)
(* in the variables of AddHeaders.                                         *)
(***************************************************************************)
EXTENDS PacketPath

MCPlaces == {<<1, 2>>, <<3, 0>>, <<5, 6>>}
MCRelays == {<<2, 1>>, <<4, 7>>}
MCPayload == <<[w |-> 1, v |-> 0], [w |-> 20, v |-> "data"]>>
=============================================================================
