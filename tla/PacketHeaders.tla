---------------------------- MODULE PacketHeaders ----------------------------
(***************************************************************************)
(* Packets as they are sent (model/gpsr-packet.{h,cc}): a sequence of      *)
(* fields, the outermost header first, each with its width in bytes and    *)
(* its value.  A header is added in front and removed from the front; what *)
(* is removed is read field by field.                                      *)
(***************************************************************************)
EXTENDS Integers, Sequences

GPSRTYPE_HELLO == 1
GPSRTYPE_POS == 2

Field(width, value) == [w |-> width, v |-> value]

\* TypeHeader: one byte; removing it does not depend on its being valid.
TypeHeader(type) == <<Field(1, type)>>
TypeOf(p) == p[1].v
IsValid(type) == type \in {GPSRTYPE_HELLO, GPSRTYPE_POS}
WithoutType(p) == Tail(p)

\* HelloHeader::Serialize and Deserialize.
HelloHeader(pos) == <<Field(8, pos[1]), Field(8, pos[2])>>

\* Mutant of ReadHello: the coordinates are read in the wrong order.
ReadHello_Swapped(p) == <<p[2].v, p[1].v>>

ReadHello(p) == <<p[1].v, p[2].v>>

\* Mutant of PositionHeader: inRec is written where recPos is read.
PositionHeader_Swapped(h) ==
  <<Field(8, h.dstPos[1]), Field(8, h.dstPos[2]), Field(4, h.updated),
    Field(1, h.inRec), Field(8, h.recPos[1]), Field(8, h.recPos[2]),
    Field(8, h.lastPos[1]), Field(8, h.lastPos[2])>>

\* PositionHeader::Serialize.
PositionHeader(h) ==
  <<Field(8, h.dstPos[1]), Field(8, h.dstPos[2]), Field(4, h.updated),
    Field(8, h.recPos[1]), Field(8, h.recPos[2]), Field(1, h.inRec),
    Field(8, h.lastPos[1]), Field(8, h.lastPos[2])>>

\* PositionHeader::Deserialize.
ReadPosition(p) ==
  [dstPos |-> <<p[1].v, p[2].v>>, updated |-> p[3].v,
   recPos |-> <<p[4].v, p[5].v>>, inRec |-> p[6].v,
   lastPos |-> <<p[7].v, p[8].v>>]

WithoutPosition(p) == SubSeq(p, 9, Len(p))

\* The widths that Deserialize reads, 53 bytes in all (GetSerializedSize).
PositionWidths == <<8, 8, 4, 8, 8, 1, 8, 8>>
=============================================================================
