------------------------- MODULE MCDeferredRouting -------------------------
(***************************************************************************)
(* Small instances of DeferredRouting: two destinations and four packets.  *)
(* f1 and f2 are the two fragments of one datagram (same Uid) to d1, raw   *)
(* goes to d1 and has no TypeHeader (ICMP, TCP), u goes to d2.             *)
(***************************************************************************)
EXTENDS DeferredRouting, TLC

CONSTANTS f1, f2, raw, u, d1, d2

MCPackets == {f1, f2, raw, u}
MCDsts == {d1, d2}
MCDestination == [p \in Packets |-> IF p = u THEN d2 ELSE d1]
MCUid == [p \in Packets |-> IF p = f2 THEN f1 ELSE p]
MCHasHeader == Packets \ {raw}

\* The fragments differ in nothing but their names.
Fragments == Permutations({f1, f2})

\* For liveness: without the second fragment.
LivePackets == {f1, raw, u}
=============================================================================
