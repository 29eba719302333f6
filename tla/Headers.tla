------------------------------ MODULE Headers ------------------------------
(***************************************************************************)
(* Positions in packet headers (model/gpsr-packet.{h,cc}).  A position is  *)
(* a pair of integers, in parts of a metre; HelloHeader and PositionHeader *)
(* have uint64_t fields, and what is put into them loses its fraction.     *)
(***************************************************************************)
EXTENDS Integers

CONSTANT Scale   \* the parts of a metre

ASSUME ScaleAssumption == Scale \in Nat \ {0}

Truncated(p) == <<(p[1] \div Scale) * Scale, (p[2] \div Scale) * Scale>>
=============================================================================
