-------------------------- MODULE PacketPathProofs --------------------------
(***************************************************************************)
(* The headers of a packet, for any positions, any time and any payload.   *)
(* At every step a packet is one header in front of what its source sent:  *)
(* what comes off is what was put on.                                      *)
(***************************************************************************)
EXTENDS PacketPath, SequenceTheorems, TLAPS

\* The fields of the headers and those of the payload.
Fields == [w : Nat, v : Int] \cup {Payload[i] : i \in DOMAIN Payload}

HeaderSet == [dstPos : Int \X Int, updated : Nat, recPos : Relays \cup {Origin},
              inRec : {0, 1}, lastPos : Relays]

Packet(h, body) == TypeHeader(GPSRTYPE_POS) \o PositionHeader(h) \o body
HelloBody(p) == TypeHeader(GPSRTYPE_HELLO) \o HelloHeader(p)

-----------------------------------------------------------------------------
(***************************************************************************)
(* Headers in front of a sequence.                                         *)
(***************************************************************************)
\* Positions are pairs of integers.
LEMMA PositionsAreIntegers ==
  /\ Places \subseteq Int \X Int /\ Relays \subseteq Int \X Int
  /\ Origin \in Int \X Int
<1>1. Places \subseteq Nat \X Nat /\ Relays \subseteq Nat \X Nat
  BY PacketPathAssumption
<1>2. Nat \X Nat \subseteq Int \X Int
  OBVIOUS
<1> QED
  BY <1>1, <1>2 DEF Origin

\* What the headers are made of.
LEMMA HeaderTypes ==
  /\ \A h \in HeaderSet :
       /\ PositionHeader(h) \in Seq(Fields) /\ Len(PositionHeader(h)) = 8
  /\ \A type \in Int : TypeHeader(type) \in Seq(Fields) /\ Len(TypeHeader(type)) = 1
  /\ \A p \in Int \X Int : HelloHeader(p) \in Seq(Fields) /\ Len(HelloHeader(p)) = 2
<1>1. \A n \in Nat, x \in Int : Field(n, x) \in Fields
  BY DEF Field, Fields
<1>2. ASSUME NEW h \in HeaderSet
      PROVE  PositionHeader(h) \in Seq(Fields) /\ Len(PositionHeader(h)) = 8
  <2>1. /\ h.dstPos[1] \in Int /\ h.dstPos[2] \in Int /\ h.updated \in Int
        /\ h.recPos[1] \in Int /\ h.recPos[2] \in Int /\ h.inRec \in Int
        /\ h.lastPos[1] \in Int /\ h.lastPos[2] \in Int
    <3>1. h.dstPos \in Int \X Int /\ h.updated \in Nat /\ h.inRec \in {0, 1}
          /\ h.recPos \in Relays \cup {Origin} /\ h.lastPos \in Relays
      BY DEF HeaderSet
    <3> QED
      BY <3>1, PositionsAreIntegers
  <2> QED
    BY <1>1, <2>1 DEF PositionHeader
<1>3. ASSUME NEW type \in Int
      PROVE  TypeHeader(type) \in Seq(Fields) /\ Len(TypeHeader(type)) = 1
  BY <1>1 DEF TypeHeader
<1>4. ASSUME NEW p \in Int \X Int
      PROVE  HelloHeader(p) \in Seq(Fields) /\ Len(HelloHeader(p)) = 2
  BY <1>1 DEF HelloHeader
<1> QED
  BY <1>2, <1>3, <1>4

\* What is in front of a sequence is taken off again.
LEMMA TakenOff ==
  ASSUME NEW S, NEW s \in Seq(S), NEW t \in Seq(S)
  PROVE  /\ s \o t \in Seq(S)
         /\ \A i \in 1 .. Len(s) : (s \o t)[i] = s[i]
         /\ SubSeq(s \o t, Len(s) + 1, Len(s \o t)) = t
<1> DEFINE p == s \o t
           r == SubSeq(p, Len(s) + 1, Len(p))
<1>1. Len(s) \in Nat /\ Len(t) \in Nat /\ t = [i \in 1 .. Len(t) |-> t[i]]
  BY LenProperties
<1>2. /\ p \in Seq(S) /\ Len(p) = Len(s) + Len(t)
      /\ \A i \in 1 .. Len(s) + Len(t) : p[i] = IF i <= Len(s) THEN s[i] ELSE t[i - Len(s)]
  BY ConcatProperties
<1>3. \A i \in 1 .. Len(s) : p[i] = s[i]
  BY <1>1, <1>2
<1>4. r = [i \in 1 .. Len(t) |-> p[Len(s) + i]]
  <2> HIDE DEF p
  <2>1. r = [i \in 1 .. (1 + Len(p) - (Len(s) + 1)) |-> p[(Len(s) + 1) + i - 1]]
    OBVIOUS
  <2> QED
    BY <1>1, <1>2, <2>1
<1>5. \A i \in 1 .. Len(t) : p[Len(s) + i] = t[i]
  <2> HIDE DEF p
  <2> SUFFICES ASSUME NEW i \in 1 .. Len(t) PROVE p[Len(s) + i] = t[i]
    OBVIOUS
  <2>1. Len(s) + i \in 1 .. Len(s) + Len(t) /\ ~(Len(s) + i <= Len(s))
        /\ (Len(s) + i) - Len(s) = i
    BY <1>1
  <2>2. \A j \in 1 .. Len(s) + Len(t) : ~(j <= Len(s)) => p[j] = t[j - Len(s)]
    BY <1>2
  <2> QED
    BY <2>1, <2>2
<1>6. r = t
  <2> HIDE DEF p, r
  <2> QED
    BY <1>1, <1>4, <1>5
<1> QED
  BY <1>2, <1>3, <1>6

\* The headers of a packet come off as they were put on.
LEMMA PacketProperties ==
  ASSUME NEW h \in HeaderSet, NEW body \in Seq(Fields)
  PROVE  LET p == Packet(h, body)
         IN  /\ TypeOf(p) = GPSRTYPE_POS
             /\ \A i \in DOMAIN PositionWidths :
                  WithoutType(p)[i].w = PositionWidths[i]
             /\ ReadPosition(WithoutType(p)) = h
             /\ WithoutPosition(WithoutType(p)) = body
<1> DEFINE type == TypeHeader(GPSRTYPE_POS)
           pos == PositionHeader(h)
           p == Packet(h, body)
           q == pos \o body
<1>1. /\ type \in Seq(Fields) /\ Len(type) = 1 /\ type[1].v = GPSRTYPE_POS
      /\ pos \in Seq(Fields) /\ Len(pos) = 8
  BY HeaderTypes DEF GPSRTYPE_POS, TypeHeader, Field
<1>2. /\ q \in Seq(Fields)
      /\ \A i \in 1 .. 8 : q[i] = pos[i]
      /\ SubSeq(q, 9, Len(q)) = body
  <2> HIDE DEF type, pos
  <2>1. /\ pos \o body \in Seq(Fields)
        /\ \A i \in 1 .. Len(pos) : (pos \o body)[i] = pos[i]
        /\ SubSeq(pos \o body, Len(pos) + 1, Len(pos \o body)) = body
    BY <1>1, TakenOff
  <2>2. Len(pos) = 8 /\ Len(pos) + 1 = 9
    BY <1>1
  <2> QED
    BY <2>1, <2>2
<1>3. p = type \o q
  <2> HIDE DEF type, pos
  <2> QED
    BY <1>1, ConcatAssociative DEF Packet, type, pos
<1>4. /\ p \in Seq(Fields) /\ p[1] = type[1]
      /\ SubSeq(p, 2, Len(p)) = q
  <2> HIDE DEF type, pos, q, p
  <2>1. SubSeq(type \o q, 1 + 1, Len(type \o q)) = q
    BY <1>1, <1>2, TakenOff
  <2>2. type \o q \in Seq(Fields) /\ (type \o q)[1] = type[1]
    BY <1>1, <1>2, TakenOff
  <2> QED
    BY <1>3, <2>1, <2>2
<1>5. WithoutType(p) = q
  <2>1. Tail(p) = SubSeq(p, 2, Len(p))
    OBVIOUS
  <2> QED
    BY <1>4, <2>1 DEF WithoutType
<1>6. TypeOf(p) = GPSRTYPE_POS
  BY <1>1, <1>4 DEF TypeOf
<1>7. /\ pos[1] = Field(8, h.dstPos[1]) /\ pos[2] = Field(8, h.dstPos[2])
      /\ pos[3] = Field(4, h.updated)
      /\ pos[4] = Field(8, h.recPos[1]) /\ pos[5] = Field(8, h.recPos[2])
      /\ pos[6] = Field(1, h.inRec)
      /\ pos[7] = Field(8, h.lastPos[1]) /\ pos[8] = Field(8, h.lastPos[2])
  BY DEF PositionHeader
<1>8. /\ q[1] = Field(8, h.dstPos[1]) /\ q[2] = Field(8, h.dstPos[2])
      /\ q[3] = Field(4, h.updated)
      /\ q[4] = Field(8, h.recPos[1]) /\ q[5] = Field(8, h.recPos[2])
      /\ q[6] = Field(1, h.inRec)
      /\ q[7] = Field(8, h.lastPos[1]) /\ q[8] = Field(8, h.lastPos[2])
  <2> HIDE DEF pos, q
  <2> QED
    BY <1>2, <1>7
<1> HIDE DEF p, q, pos, type
<1>9. \A i \in DOMAIN PositionWidths : q[i].w = PositionWidths[i]
  BY <1>8 DEF PositionWidths, Field
<1>10. ReadPosition(q) = h
  <2>1. /\ h = [dstPos |-> h.dstPos, updated |-> h.updated, recPos |-> h.recPos,
                inRec |-> h.inRec, lastPos |-> h.lastPos]
        /\ h.dstPos \in Int \X Int /\ h.recPos \in Int \X Int /\ h.lastPos \in Int \X Int
    BY PositionsAreIntegers DEF HeaderSet
  <2>2. /\ h.dstPos = <<h.dstPos[1], h.dstPos[2]>> /\ h.recPos = <<h.recPos[1], h.recPos[2]>>
        /\ h.lastPos = <<h.lastPos[1], h.lastPos[2]>>
    BY <2>1
  <2>3. /\ <<q[1].v, q[2].v>> = h.dstPos /\ q[3].v = h.updated
        /\ <<q[4].v, q[5].v>> = h.recPos /\ q[6].v = h.inRec
        /\ <<q[7].v, q[8].v>> = h.lastPos
    BY <1>8, <2>2 DEF Field
  <2>4. ReadPosition(q) = [dstPos |-> h.dstPos, updated |-> h.updated,
                           recPos |-> h.recPos, inRec |-> h.inRec,
                           lastPos |-> h.lastPos]
    BY <2>3 DEF ReadPosition
  <2> QED
    BY <2>1, <2>4
<1>11. WithoutPosition(q) = body
  BY <1>2 DEF WithoutPosition
<1> QED
  BY <1>5, <1>6, <1>9, <1>10, <1>11 DEF p

\* A HELLO is read as it was written.
LEMMA HelloIsRead ==
  ASSUME NEW p \in Int \X Int
  PROVE  ReadHello(WithoutType(HelloBody(p))) = p
<1> DEFINE type == TypeHeader(GPSRTYPE_HELLO)
           pos == HelloHeader(p)
<1>1. type \in Seq(Fields) /\ Len(type) = 1 /\ pos \in Seq(Fields) /\ Len(pos) = 2
  BY HeaderTypes DEF GPSRTYPE_HELLO
<1>2. SubSeq(type \o pos, 2, Len(type \o pos)) = pos
  <2> HIDE DEF type, pos
  <2>1. SubSeq(type \o pos, 1 + 1, Len(type \o pos)) = pos
    BY <1>1, TakenOff
  <2> QED
    BY <2>1
<1>3. WithoutType(HelloBody(p)) = pos
  <2>1. Tail(type \o pos) = SubSeq(type \o pos, 2, Len(type \o pos))
    OBVIOUS
  <2> QED
    BY <1>2, <2>1 DEF WithoutType, HelloBody
<1>4. ReadHello(pos) = <<p[1], p[2]>>
  BY DEF ReadHello, HelloHeader, Field
<1> QED
  BY <1>3, <1>4

-----------------------------------------------------------------------------
(***************************************************************************)
(* The invariant.                                                          *)
(***************************************************************************)
Types ==
  /\ now \in 0 .. MaxTime /\ dstPos \in Places
  /\ service \in {"god", "on demand"} /\ kind \in Kinds
  /\ place \in {"source", "queue", "air", "delivered", "dropped"}

\* The history covers the present.
HistoryOK == been \subseteq Places \X (0 .. now) /\ <<dstPos, now>> \in been

\* All positions fit in the variables of AddHeaders.
Fits == \A p \in Places : p[1] < Limit16 /\ p[2] < Limit16

\* Position and time in a header belong together.
Dated(h) ==
  \/ <<h.dstPos, h.updated>> \in been
  \/ h.dstPos = Cut(InvalidPosition) /\ service # "god"

\* What the source sent.
BodyOK(body) ==
  /\ body \in Seq(Fields)
  /\ kind = "udp" => body = Payload
  /\ kind = "hello" => \E e \in been : body = HelloBody(e[1])

PacketOK ==
  OnTheWay =>
    /\ Header \in HeaderSet /\ BodyOK(Rest)
    /\ pkt = Packet(Header, Rest)
    /\ kind = "udp" /\ Fits => Dated(Header)

IInv ==
  /\ Types /\ HistoryOK /\ PacketOK
  /\ PayloadIsIntact /\ HelloTellsPosition

\* A location service tells a position with the time that belongs to it, or
\* no position.
LEMMA EntriesAreTrue ==
  ASSUME IInv, NEW e \in Entries
  PROVE  /\ e[1] \in Int \X Int /\ e[2] \in Nat
         /\ HasPosition(e) => e[1] \in Places /\ <<e[1], e[2]>> \in been
         /\ ~HasPosition(e) =>
              e[1] = InvalidPosition /\ e[2] = 0 /\ service # "god"
<1>1. been \subseteq Places \X (0 .. now) /\ <<dstPos, now>> \in been
  BY DEF IInv, HistoryOK
<1>2. e \in been \/ (e = NoEntry /\ service # "god")
  BY <1>1 DEF Entries
<1>3. CASE e \in been
  <2>1. e[1] \in Places /\ e[2] \in 0 .. now /\ e = <<e[1], e[2]>>
    BY <1>1, <1>3
  <2>2. e[1] \in Nat \X Nat
    BY <2>1, PacketPathAssumption
  <2>3. e[1] # InvalidPosition
    BY <2>2 DEF InvalidPosition
  <2>4. e[1] \in Int \X Int
    BY <2>1, PositionsAreIntegers
  <2>5. now \in Nat
    <3>1. MaxTime \in Nat
      BY PacketPathAssumption
    <3>2. now \in 0 .. MaxTime
      BY DEF IInv, Types
    <3> QED
      BY <3>1, <3>2
  <2> QED
    BY <1>3, <2>1, <2>3, <2>4, <2>5 DEF HasPosition
<1>4. CASE e = NoEntry /\ service # "god"
  <2>1. e[1] = <<-1, -1>> /\ e[2] = 0
    BY <1>4 DEF NoEntry, InvalidPosition
  <2> QED
    BY <1>4, <2>1 DEF InvalidPosition, HasPosition
<1> QED
  BY <1>2, <1>3, <1>4

\* AddHeaders makes natural numbers of the coordinates, and keeps those that
\* fit in its variables.
LEMMA CutProperties ==
  /\ \A p \in Int \X Int : Cut(p) \in Int \X Int
  /\ Fits => \A p \in Places : Cut(p) = p
<1>1. Limit16 \in Nat /\ Limit16 > 0
  <2>1. Limit16 \in Nat \ {0}
    BY PacketPathAssumption
  <2> QED
    BY <2>1
<1>2. \A x \in Int : x % Limit16 \in Int
  BY <1>1
<1>3. \A x \in Nat : x < Limit16 => x % Limit16 = x
  BY <1>1
<1>4. ASSUME Fits, NEW p \in Places PROVE Cut(p) = p
  <2>1. p[1] \in Nat /\ p[2] \in Nat /\ p = <<p[1], p[2]>>
    <3>1. p \in Nat \X Nat
      BY PacketPathAssumption
    <3> QED
      BY <3>1
  <2> QED
    BY <1>3, <1>4, <2>1 DEF Fits, Cut
<1> QED
  BY <1>2, <1>4 DEF Cut

\* A new packet is read as it was written.
LEMMA NewPacket ==
  ASSUME NEW h \in HeaderSet, NEW body \in Seq(Fields), pkt' = Packet(h, body)
  PROVE  Header' = h /\ Rest' = body
BY PacketProperties DEF Header, Rest

\* The payload, and what a HELLO carries, are sequences of fields.
LEMMA BodyTypes ==
  /\ Payload \in Seq(Fields)
  /\ \A p \in Int \X Int : HelloBody(p) \in Seq(Fields)
<1>1. Payload \in Seq(Fields)
  <2> DEFINE S == {Payload[i] : i \in DOMAIN Payload}
  <2>1. Payload \in Seq(S) /\ S \subseteq Fields
    BY PacketPathAssumption DEF Fields
  <2> HIDE DEF S
  <2> QED
    BY <2>1
<1>2. ASSUME NEW p \in Int \X Int PROVE HelloBody(p) \in Seq(Fields)
  BY HeaderTypes, ConcatProperties DEF HelloBody, GPSRTYPE_HELLO
<1> QED
  BY <1>1, <1>2

-----------------------------------------------------------------------------
(***************************************************************************)
(* Every step keeps the invariant: it puts a header on, or the packet ends,*)
(* or the destination, the clock or the location service goes on.          *)
(***************************************************************************)
still == <<service, now, dstPos, been, kind>>

\* A header goes on.
LEMMA PutOnKeepsInvariant ==
  ASSUME IInv, UNCHANGED <<still, told>>, NEW h \in HeaderSet,
         NEW body, BodyOK(body), kind = "udp" /\ Fits => Dated(h),
         pkt' = Packet(h, body), place' \in {"queue", "air", "dropped"}
  PROVE  IInv'
<1>1. Header' = h /\ Rest' = body
  BY NewPacket DEF BodyOK
<1>2. service' = service /\ now' = now /\ dstPos' = dstPos /\ been' = been
      /\ kind' = kind /\ told' = told
  BY DEF still
<1>3. Types' /\ HistoryOK'
  BY <1>2 DEF IInv, Types, HistoryOK
<1>4. PacketOK'
  <2>1. BodyOK(body)' /\ (kind' = "udp" /\ Fits => Dated(h)')
    BY <1>2 DEF BodyOK, Dated
  <2> QED
    BY <1>1, <2>1 DEF PacketOK
<1>5. PayloadIsIntact' /\ HelloTellsPosition'
  BY <1>2 DEF IInv, PayloadIsIntact, HelloTellsPosition
<1> QED
  BY <1>3, <1>4, <1>5 DEF IInv

\* The packet ends, or has no headers.
LEMMA EndKeepsInvariant ==
  ASSUME IInv, UNCHANGED still, ~OnTheWay',
         place' \in {"queue", "air", "delivered", "dropped"},
         PayloadIsIntact', HelloTellsPosition'
  PROVE  IInv'
<1>1. service' = service /\ now' = now /\ dstPos' = dstPos /\ been' = been
      /\ kind' = kind
  BY DEF still
<1> QED
  BY <1>1 DEF IInv, Types, HistoryOK, PacketOK

\* The headers come off and go on again, with another header.
LEMMA WithHeaderKeepsInvariant ==
  ASSUME IInv, OnTheWay, UNCHANGED <<still, told>>, NEW h \in HeaderSet,
         kind = "udp" /\ Fits => Dated(h), pkt' = WithHeader(h),
         place' \in {"queue", "air", "dropped"}
  PROVE  IInv'
<1>1. BodyOK(Rest)
  BY DEF IInv, PacketOK
<1>2. pkt' = Packet(h, Rest)
  BY DEF WithHeader, Packet
<1> QED
  BY <1>1, <1>2, PutOnKeepsInvariant

\* The source sends its packet, with headers or without.
LEMMA SendKeepsInvariant ==
  ASSUME IInv, NEW my \in Relays, NEW e \in Entries, NEW next \in BOOLEAN,
         Send(my, e, next)
  PROVE  IInv'
<1> DEFINE h == [dstPos |-> Cut(e[1]), updated |-> e[2], recPos |-> Origin,
                 inRec |-> 0, lastPos |-> my]
<1>1. UNCHANGED <<still, told>> /\ kind \in {"udp", "raw"} /\ place' \in {"queue", "air"}
  BY DEF Send, still, IInv, Types, Kinds
<1>2. CASE kind = "udp"
  <2>1. h \in HeaderSet
    <3>1. Cut(e[1]) \in Int \X Int /\ e[2] \in Nat
      BY EntriesAreTrue, CutProperties
    <3> QED
      BY <3>1 DEF HeaderSet
  <2>2. Fits => Dated(h)
    <3>1. CASE HasPosition(e)
      <4>1. <<e[1], e[2]>> \in been /\ e[1] \in Places
        BY <3>1, EntriesAreTrue
      <4> QED
        BY <4>1, CutProperties DEF Dated
    <3>2. CASE ~HasPosition(e)
      BY <3>2, EntriesAreTrue DEF Dated
    <3> QED
      BY <3>1, <3>2
  <2>3. BodyOK(Payload)
    BY <1>2, BodyTypes DEF BodyOK
  <2>4. pkt' = Packet(h, Payload)
    BY <1>2 DEF Send, HasHeaders, AddHeaders, Packet
  <2> HIDE DEF h
  <2> QED
    BY <1>1, <2>1, <2>2, <2>3, <2>4, PutOnKeepsInvariant
<1>3. CASE kind = "raw"
  <2>1. ~OnTheWay' /\ PayloadIsIntact'
    BY <1>1, <1>3 DEF OnTheWay, HasHeaders, PayloadIsIntact, still
  <2>2. HelloTellsPosition'
    BY <1>1 DEF HelloTellsPosition, IInv, still
  <2> QED
    BY <1>1, <2>1, <2>2, EndKeepsInvariant
<1> QED
  BY <1>1, <1>2, <1>3

\* A HELLO leaves, with the position of its sender in it.
LEMMA SendHelloKeepsInvariant ==
  ASSUME IInv, NEW my \in Relays, SendHello(my)
  PROVE  IInv'
<1> DEFINE h == [dstPos |-> Origin, updated |-> 0, recPos |-> Origin, inRec |-> 0,
                 lastPos |-> my]
<1>1. UNCHANGED <<still, told>> /\ kind = "hello" /\ place' = "air"
  BY DEF SendHello, still
<1>3. h \in HeaderSet
  BY PositionsAreIntegers DEF HeaderSet
<1>4. BodyOK(HelloBody(dstPos))
  <2>1. <<dstPos, now>> \in been /\ dstPos \in Int \X Int
    BY PositionsAreIntegers DEF IInv, HistoryOK, Types
  <2>2. <<dstPos, now>>[1] = dstPos
    OBVIOUS
  <2> QED
    BY <1>1, <2>1, <2>2, BodyTypes DEF BodyOK
<1>5. pkt' = Packet(h, HelloBody(dstPos))
  BY DEF SendHello, AddHeaders, Packet, HelloBody
<1> HIDE DEF h
<1> QED
  BY <1>1, <1>3, <1>4, <1>5, PutOnKeepsInvariant

\* A header whose recovery fields and last position are replaced.
LEMMA ChangedHeader ==
  ASSUME NEW h \in HeaderSet, NEW rec \in Relays \cup {Origin}, NEW r \in {0, 1},
         NEW my \in Relays
  PROVE  /\ [h EXCEPT !.recPos = rec, !.inRec = r, !.lastPos = my] \in HeaderSet
         /\ [h EXCEPT !.inRec = r, !.lastPos = my] \in HeaderSet
         /\ [h EXCEPT !.recPos = my] \in HeaderSet
         /\ [h EXCEPT !.recPos = rec, !.inRec = r, !.lastPos = my].updated = h.updated
         /\ [h EXCEPT !.inRec = r, !.lastPos = my].updated = h.updated
         /\ [h EXCEPT !.recPos = my].updated = h.updated
BY DEF HeaderSet

\* The destination's position and time in it are those of the first header.
LEMMA ChangedHeaderIsDated ==
  ASSUME NEW h \in HeaderSet, NEW rec, NEW r, NEW my, Dated(h)
  PROVE  /\ Dated([h EXCEPT !.recPos = rec, !.inRec = r, !.lastPos = my])
         /\ Dated([h EXCEPT !.inRec = r, !.lastPos = my])
         /\ Dated([h EXCEPT !.recPos = my])
BY DEF HeaderSet, Dated

\* What a node takes over from its location service is newer, and true.
LEMMA UpdatedProperties ==
  ASSUME IInv, OnTheWay, NEW e \in Entries
  PROVE  /\ Updated(Header, e) \in HeaderSet
         /\ kind = "udp" /\ Fits => Dated(Updated(Header, e))
         /\ Updated(Header, e).updated >= Header.updated
<1>1. Header \in HeaderSet /\ (kind = "udp" /\ Fits => Dated(Header))
  BY DEF IInv, PacketOK
<1>2. e[1] \in Int \X Int /\ e[2] \in Nat
  BY EntriesAreTrue
<1>3. CASE e[2] > Header.updated
  <2> DEFINE h == [[Header EXCEPT !.dstPos = e[1]] EXCEPT !.updated = e[2]]
  <2>1. Updated(Header, e) = h
    BY <1>1, <1>3 DEF Updated, HeaderSet
  <2>2. HasPosition(e)
    <3>1. Header.updated \in Nat
      BY <1>1 DEF HeaderSet
    <3>2. e[2] # 0
      BY <1>2, <1>3, <3>1
    <3> QED
      BY <3>2, EntriesAreTrue
  <2>3. <<e[1], e[2]>> \in been
    BY <2>2, EntriesAreTrue
  <2>4. h \in HeaderSet /\ h.updated = e[2] /\ h.dstPos = e[1]
    BY <1>1, <1>2 DEF HeaderSet
  <2>5. Dated(h)
    BY <2>3, <2>4 DEF Dated
  <2>6. h.updated >= Header.updated
    BY <1>1, <1>2, <1>3, <2>4 DEF HeaderSet
  <2> HIDE DEF h
  <2> QED
    BY <2>1, <2>4, <2>5, <2>6
<1>4. CASE ~(e[2] > Header.updated)
  <2>1. Updated(Header, e) = Header
    BY <1>4 DEF Updated
  <2>2. Header.updated \in Nat
    BY <1>1 DEF HeaderSet
  <2> QED
    BY <1>1, <2>1, <2>2
<1> QED
  BY <1>3, <1>4

\* A node on the way drops the packet or puts a new header on.
Handled ==
  \/ Drop
  \/ \E my \in Relays, rec \in Relays \cup {Origin}, e \in Entries :
       pkt' = Greedy(Updated(Header, e), rec, my)
  \/ \E my \in Relays : pkt' = Recovery(Header, my)
  \/ \E my \in Relays : pkt' = Recovery([Header EXCEPT !.recPos = my], my)

LEMMA HandledKeepsInvariant ==
  ASSUME IInv, place \in {"queue", "air"}, UNCHANGED <<still, told>>,
         place' \in {"queue", "air", "dropped"}, Handled
  PROVE  IInv'
<1>1. HelloTellsPosition'
  BY DEF still, IInv, HelloTellsPosition
<1>2. PayloadIsIntact'
  BY DEF PayloadIsIntact
<1>3. CASE ~OnTheWay \/ Drop
  <2>1. ~OnTheWay'
    BY <1>3 DEF OnTheWay, HasHeaders, Drop, still
  <2> QED
    BY <1>1, <1>2, <2>1, EndKeepsInvariant
<1>4. CASE OnTheWay /\ ~Drop
  <2>1. Header \in HeaderSet /\ (kind = "udp" /\ Fits => Dated(Header))
    BY <1>4 DEF IInv, PacketOK
  <2>2. \A e \in Entries :
          /\ Updated(Header, e) \in HeaderSet
          /\ kind = "udp" /\ Fits => Dated(Updated(Header, e))
    BY <1>4, UpdatedProperties
  <2>3. CASE \E my \in Relays, rec \in Relays \cup {Origin}, e \in Entries :
               pkt' = Greedy(Updated(Header, e), rec, my)
    <3> PICK my \in Relays, rec \in Relays \cup {Origin}, e \in Entries :
               pkt' = Greedy(Updated(Header, e), rec, my)
      BY <2>3
    <3> DEFINE h == [Updated(Header, e) EXCEPT !.recPos = rec, !.inRec = 0, !.lastPos = my]
    <3>1. h \in HeaderSet /\ (kind = "udp" /\ Fits => Dated(h))
      BY <2>2, ChangedHeader, ChangedHeaderIsDated
    <3>2. pkt' = WithHeader(h)
      BY DEF Greedy
    <3> HIDE DEF h
    <3> QED
      BY <1>4, <3>1, <3>2, WithHeaderKeepsInvariant
  <2>4. ASSUME NEW g \in HeaderSet, kind = "udp" /\ Fits => Dated(g),
               NEW my \in Relays, pkt' = Recovery(g, my)
        PROVE  IInv'
    <3> DEFINE h == [g EXCEPT !.inRec = 1, !.lastPos = my]
    <3>1. h \in HeaderSet /\ (kind = "udp" /\ Fits => Dated(h))
      BY <2>4, ChangedHeader, ChangedHeaderIsDated
    <3>2. pkt' = WithHeader(h)
      BY <2>4 DEF Recovery
    <3> HIDE DEF h
    <3> QED
      BY <1>4, <3>1, <3>2, WithHeaderKeepsInvariant
  <2>5. ASSUME NEW my \in Relays
        PROVE  /\ [Header EXCEPT !.recPos = my] \in HeaderSet
               /\ kind = "udp" /\ Fits => Dated([Header EXCEPT !.recPos = my])
    BY <2>1, ChangedHeader, ChangedHeaderIsDated
  <2> QED
    BY <1>4, <2>1, <2>3, <2>4, <2>5 DEF Handled
<1> QED
  BY <1>3, <1>4

\* A packet leaves the queue of its node.
LEMMA SendPacketFromQueueHandles ==
  ASSUME IInv, NEW my \in Relays, NEW e \in Entries, NEW greedy \in BOOLEAN,
         NEW next \in BOOLEAN, SendPacketFromQueue(my, e, greedy, next)
  PROVE  /\ place = "queue" /\ UNCHANGED <<still, told>> /\ Handled
         /\ place' \in {"queue", "air", "dropped"}
<1>1. place = "queue" /\ UNCHANGED <<still, told>>
  BY DEF SendPacketFromQueue, still
<1>2. \/ Drop
      \/ place' = "air" /\ pkt' = Greedy(Updated(Header, e), my, my)
      \/ place' \in {"air", "dropped"} /\ pkt' = Recovery([Header EXCEPT !.recPos = my], my)
  BY DEF SendPacketFromQueue
<1> QED
  BY <1>1, <1>2 DEF Handled, Drop

\* A relay handles a packet.
LEMMA ForwardingHandles ==
  ASSUME IInv, NEW my \in Relays, NEW e \in Entries, NEW greedy \in BOOLEAN,
         NEW next \in BOOLEAN, Forwarding(my, e, greedy, next)
  PROVE  /\ place = "air" /\ UNCHANGED <<still, told>> /\ Handled
         /\ place' \in {"queue", "air", "dropped"}
<1>1. place = "air" /\ UNCHANGED <<still, told>>
  BY DEF Forwarding, still
<1>2. \/ Drop
      \/ place' \in {"air", "queue"} /\ pkt' = Recovery(Header, my)
      \/ place' = "air" /\ pkt' = Greedy(Updated(Header, e), Origin, my)
      \/ place' \in {"air", "queue"} /\ pkt' = Recovery([Header EXCEPT !.recPos = my], my)
  BY DEF Forwarding
<1> QED
  BY <1>1, <1>2 DEF Handled, Drop

\* The receiver takes the headers off, and what a HELLO says to its table.
LEMMA RouteInputKeepsInvariant ==
  ASSUME IInv, RouteInput
  PROVE  IInv'
<1>1. place = "air" /\ UNCHANGED still /\ place' \in {"delivered", "dropped"}
  BY DEF RouteInput, Drop, still
<1>2. ~OnTheWay'
  BY <1>1 DEF OnTheWay
<1>3. PayloadIsIntact'
  <2>1. CASE kind # "udp" \/ place' = "dropped"
    BY <1>1, <2>1 DEF PayloadIsIntact, still
  <2>2. CASE kind = "udp" /\ place' # "dropped"
    <3>1. OnTheWay
      BY <1>1, <2>2 DEF OnTheWay, HasHeaders
    <3>2. Rest = Payload
      BY <2>2, <3>1 DEF IInv, PacketOK, BodyOK
    <3>3. pkt' = Rest
      BY <2>2 DEF RouteInput, Drop
    <3> QED
      BY <3>2, <3>3 DEF PayloadIsIntact
  <2> QED
    BY <2>1, <2>2
<1>4. HelloTellsPosition'
  <2>1. been' = been /\ now' = now
    BY <1>1 DEF still
  <2>2. CASE told' = told
    BY <2>1, <2>2 DEF IInv, HelloTellsPosition
  <2>3. CASE told' # told
    <3>1. kind = "hello" /\ told' = ReadHello(WithoutType(Rest))
      BY <2>3 DEF RouteInput
    <3>2. OnTheWay
      BY <1>1, <3>1 DEF OnTheWay, HasHeaders
    <3>3. PICK e \in been : Rest = HelloBody(e[1])
      BY <3>1, <3>2 DEF IInv, PacketOK, BodyOK
    <3>4. e = <<e[1], e[2]>> /\ e[1] \in Places /\ e[2] \in 0 .. now
      BY DEF IInv, HistoryOK
    <3>5. ReadHello(WithoutType(HelloBody(e[1]))) = e[1]
      BY <3>4, PositionsAreIntegers, HelloIsRead
    <3>6. <<told', e[2]>> \in been
      BY <3>1, <3>3, <3>4, <3>5
    <3> QED
      BY <2>1, <3>4, <3>6 DEF HelloTellsPosition
  <2> QED
    BY <2>2, <2>3
<1> QED
  BY <1>1, <1>2, <1>3, <1>4, EndKeepsInvariant

\* The world goes on while the packet is where it is.
LEMMA WorldKeepsInvariant ==
  ASSUME IInv, UNCHANGED <<service, kind, place, pkt, told>>, been \subseteq been',
         HistoryOK', dstPos' \in Places, now' \in 0 .. MaxTime,
         now <= now'
  PROVE  IInv'
<1>1. /\ service' = service /\ kind' = kind /\ place' = place /\ pkt' = pkt
      /\ told' = told
  OBVIOUS
<1>2. Types'
  BY <1>1 DEF IInv, Types
<1>3. PacketOK'
  <2>1. Header' = Header /\ Rest' = Rest /\ (OnTheWay' <=> OnTheWay)
    BY <1>1 DEF Header, Rest, OnTheWay, HasHeaders
  <2>2. BodyOK(Rest) => BodyOK(Rest)'
    BY <1>1, <2>1 DEF BodyOK
  <2>3. Dated(Header) => Dated(Header)'
    BY <1>1, <2>1 DEF Dated
  <2> QED
    BY <1>1, <2>1, <2>2, <2>3 DEF IInv, PacketOK
<1>4. PayloadIsIntact'
  BY <1>1 DEF IInv, PayloadIsIntact
<1>5. HelloTellsPosition'
  <2> SUFFICES ASSUME told # Nobody PROVE \E t \in 0 .. now' : <<told, t>> \in been'
    BY <1>1 DEF HelloTellsPosition
  <2>1. PICK t \in 0 .. now : <<told, t>> \in been
    BY DEF IInv, HelloTellsPosition
  <2>2. MaxTime \in Nat
    BY PacketPathAssumption
  <2>3. now \in 0 .. MaxTime
    BY DEF IInv, Types
  <2>4. t \in 0 .. now'
    BY <2>2, <2>3
  <2> QED
    BY <2>1, <2>4
<1> QED
  BY <1>2, <1>3, <1>4, <1>5 DEF IInv

\* The clock is at a natural number within its bound.
LEMMA NowType ==
  ASSUME IInv
  PROVE  /\ now \in Nat /\ MaxTime \in Nat /\ now <= MaxTime
         /\ now \in 0 .. MaxTime /\ now <= now /\ dstPos \in Places
<1>1. MaxTime \in Nat
  BY PacketPathAssumption
<1>2. now \in 0 .. MaxTime /\ dstPos \in Places
  BY DEF IInv, Types
<1> QED
  BY <1>1, <1>2

\* The destination moves.
LEMMA MoveKeepsInvariant ==
  ASSUME IInv, NEW p \in Places, Move(p)
  PROVE  IInv'
<1>1. /\ service' = service /\ now' = now /\ dstPos' = p
      /\ been' = been \cup {<<p, now>>} /\ UNCHANGED <<kind, place, pkt, told>>
  BY DEF Move
<1>2. now \in Nat /\ now <= now' /\ now' \in 0 .. MaxTime
  BY <1>1, NowType
<1>3. HistoryOK'
  <2>1. been \subseteq Places \X (0 .. now)
    BY DEF IInv, HistoryOK
  <2>2. now \in 0 .. now
    BY <1>2
  <2> QED
    BY <1>1, <2>1, <2>2 DEF HistoryOK
<1> QED
  BY <1>1, <1>2, <1>3, WorldKeepsInvariant

\* A second passes.
LEMMA TickKeepsInvariant ==
  ASSUME IInv, Tick
  PROVE  IInv'
<1>1. /\ service' = service /\ now' = now + 1 /\ dstPos' = dstPos
      /\ been' = been \cup {<<dstPos, now + 1>>}
      /\ UNCHANGED <<kind, place, pkt, told>> /\ now < MaxTime
  BY DEF Tick
<1>2. now \in Nat /\ now <= now' /\ now' \in 0 .. MaxTime
  BY <1>1, NowType
<1>3. dstPos \in Places
  BY DEF IInv, Types
<1>4. HistoryOK'
  <2>1. been \subseteq Places \X (0 .. now)
    BY DEF IInv, HistoryOK
  <2>2. now + 1 \in 0 .. now + 1 /\ 0 .. now \subseteq 0 .. now + 1
    BY <1>2
  <2>3. Places \X (0 .. now) \subseteq Places \X (0 .. now + 1)
    BY <2>2
  <2> QED
    BY <1>1, <1>3, <2>1, <2>2, <2>3 DEF HistoryOK
<1> QED
  BY <1>1, <1>2, <1>3, <1>4, WorldKeepsInvariant

\* The invariant holds at every step of every packet.
LEMMA Invariant == Spec => []IInv
<1>1. Init => IInv
  <2> SUFFICES ASSUME Init PROVE IInv
    OBVIOUS
  <2>1. Types /\ HistoryOK
    <3>1. now = 0 /\ dstPos \in Places /\ been = {<<dstPos, 0>>} /\ place = "source"
          /\ kind \in Kinds /\ service \in Services
      BY DEF Init
    <3>2. service \in {"god", "on demand"}
      <4>1. Services \subseteq {"god", "on demand"}
        BY PacketPathAssumption
      <4> QED
        BY <3>1, <4>1
    <3>3. now \in 0 .. MaxTime /\ now \in 0 .. now
      <4>1. MaxTime \in Nat
        BY PacketPathAssumption
      <4>2. now = 0
        BY <3>1
      <4> QED
        BY <4>1, <4>2
    <3>4. Types
      BY <3>1, <3>2, <3>3 DEF Types
    <3>5. been = {<<dstPos, now>>}
      BY <3>1
    <3>6. HistoryOK
      <4>1. dstPos \in Places /\ <<dstPos, now>> \in Places \X (0 .. now)
        BY <3>1, <3>3
      <4> QED
        BY <3>5, <4>1 DEF HistoryOK
    <3> QED
      BY <3>4, <3>6
  <2> QED
    BY <2>1 DEF Init, IInv, PacketOK, OnTheWay, PayloadIsIntact,
                      HelloTellsPosition
<1>2. IInv /\ [Next]_vars => IInv'
  <2> SUFFICES ASSUME IInv, [Next]_vars PROVE IInv'
    OBVIOUS
  <2>1. CASE \E my \in Relays, e \in Entries, next \in BOOLEAN : Send(my, e, next)
    BY <2>1, SendKeepsInvariant
  <2>2. CASE \E my \in Relays : SendHello(my)
    BY <2>2, SendHelloKeepsInvariant
  <2>3. CASE \E my \in Relays, e \in Entries, greedy, next \in BOOLEAN :
               SendPacketFromQueue(my, e, greedy, next)
    BY <2>3, SendPacketFromQueueHandles, HandledKeepsInvariant
  <2>4. CASE \E my \in Relays, e \in Entries, greedy, next \in BOOLEAN :
               Forwarding(my, e, greedy, next)
    BY <2>4, ForwardingHandles, HandledKeepsInvariant
  <2>5. CASE RouteInput
    BY <2>5, RouteInputKeepsInvariant
  <2>6. CASE \E p \in Places : Move(p)
    BY <2>6, MoveKeepsInvariant
  <2>7. CASE Tick
    BY <2>7, TickKeepsInvariant
  <2>8. CASE UNCHANGED vars
    <3>1. /\ UNCHANGED <<service, kind, place, pkt, told>> /\ been' = been
          /\ now' = now /\ dstPos' = dstPos
      BY <2>8 DEF vars
    <3>2. HistoryOK'
      BY <3>1 DEF IInv, HistoryOK
    <3>3. dstPos' \in Places /\ now' \in 0 .. MaxTime /\ now <= now'
      BY <3>1, NowType
    <3> QED
      BY <3>1, <3>2, <3>3, WorldKeepsInvariant
  <2> QED
    BY <2>1, <2>2, <2>3, <2>4, <2>5, <2>6, <2>7, <2>8 DEF Next
<1> QED
  BY <1>1, <1>2, PTL DEF Spec

-----------------------------------------------------------------------------
\* At every step a packet has one header, with fields as they are read.
THEOREM TypeCorrect == Spec => []TypeOK
<1>1. IInv => TypeOK
  <2> SUFFICES ASSUME IInv PROVE TypeOK
    OBVIOUS
  <2>1. /\ now \in 0 .. MaxTime /\ dstPos \in Places
        /\ place \in {"source", "queue", "air", "delivered", "dropped"}
    BY DEF IInv, Types
  <2>2. ASSUME OnTheWay
        PROVE  /\ TypeOf(pkt) = GPSRTYPE_POS
               /\ \A i \in DOMAIN PositionWidths :
                    WithoutType(pkt)[i].w = PositionWidths[i]
               /\ Header.inRec \in {0, 1}
               /\ Header.recPos \in Relays \cup {Origin}
               /\ Header.lastPos \in Relays
    <3>1. Header \in HeaderSet /\ Rest \in Seq(Fields) /\ pkt = Packet(Header, Rest)
      BY <2>2 DEF IInv, PacketOK, BodyOK
    <3>2. /\ TypeOf(Packet(Header, Rest)) = GPSRTYPE_POS
          /\ \A i \in DOMAIN PositionWidths :
               WithoutType(Packet(Header, Rest))[i].w = PositionWidths[i]
      BY <3>1, PacketProperties
    <3> QED
      BY <3>1, <3>2 DEF HeaderSet
  <2> QED
    BY <2>1, <2>2 DEF TypeOK
<1> QED
  BY <1>1, Invariant, PTL

\* Whatever is sent is delivered as it was, at any length of its way.
THEOREM PayloadStaysIntact == Spec => []PayloadIsIntact
<1>1. IInv => PayloadIsIntact
  BY DEF IInv
<1> QED
  BY <1>1, Invariant, PTL

\* Whoever hears a HELLO learns a place where its sender was.
THEOREM HelloTellsTheTruth == Spec => []HelloTellsPosition
<1>1. IInv => HelloTellsPosition
  BY DEF IInv
<1> QED
  BY <1>1, Invariant, PTL

\* Position and time stay together in the header, if the positions fit in the
\* sixteen bits of AddHeaders, wherever the destination goes.
THEOREM PositionKeepsItsTime ==
  ASSUME Fits
  PROVE  Spec => []PositionHasItsTime
<1>1. IInv => PositionHasItsTime
  BY DEF IInv, PacketOK, PositionHasItsTime, Dated
<1> QED
  BY <1>1, Invariant, PTL

\* Every node on the way keeps the newer of what it knows of the destination
\* and what the packet says.
THEOREM NeverGetsOlder == Spec => NeverOlder
<1> DEFINE Newer == kind = "udp" /\ OnTheWay /\ OnTheWay' =>
                      Header'.updated >= Header.updated
<1>1. ASSUME IInv, Next PROVE Newer
  <2> SUFFICES ASSUME kind = "udp", OnTheWay, OnTheWay'
               PROVE  Header'.updated >= Header.updated
    OBVIOUS
  <2>1. Header \in HeaderSet /\ Header.updated \in Nat /\ Rest \in Seq(Fields)
    BY <1>1 DEF IInv, PacketOK, HeaderSet, BodyOK
  <2>2. CASE pkt' = pkt
    <3>1. Header' = Header
      BY <2>2 DEF Header
    <3> QED
      BY <2>1, <3>1
  <2>3. ASSUME NEW h \in HeaderSet, pkt' = WithHeader(h), h.updated >= Header.updated
        PROVE  Header'.updated >= Header.updated
    BY <2>1, <2>3, NewPacket DEF WithHeader, Packet
  <2>4. CASE Handled
    <3>1. \A e \in Entries :
            /\ Updated(Header, e) \in HeaderSet
            /\ Updated(Header, e).updated >= Header.updated
      BY <1>1, UpdatedProperties
    <3>2. ASSUME NEW my \in Relays, NEW rec \in Relays \cup {Origin},
                 NEW e \in Entries, pkt' = Greedy(Updated(Header, e), rec, my)
          PROVE  Header'.updated >= Header.updated
      <4> DEFINE h == [Updated(Header, e) EXCEPT !.recPos = rec, !.inRec = 0, !.lastPos = my]
      <4>1. h \in HeaderSet /\ h.updated = Updated(Header, e).updated
        <5> DEFINE u == Updated(Header, e)
        <5>1. u \in HeaderSet
          BY <3>1
        <5> HIDE DEF u
        <5>2. [u EXCEPT !.recPos = rec, !.inRec = 0, !.lastPos = my] \in HeaderSet
          BY <5>1, ChangedHeader
        <5>3. [u EXCEPT !.recPos = rec, !.inRec = 0, !.lastPos = my].updated = u.updated
          BY <5>1 DEF HeaderSet
        <5> QED
          BY <5>2, <5>3 DEF u
      <4>2. pkt' = WithHeader(h)
        BY <3>2 DEF Greedy
      <4> HIDE DEF h
      <4> QED
        BY <2>3, <3>1, <4>1, <4>2
    <3>3. ASSUME NEW g \in HeaderSet, g.updated = Header.updated, NEW my \in Relays,
                 pkt' = Recovery(g, my)
          PROVE  Header'.updated >= Header.updated
      <4> DEFINE h == [g EXCEPT !.inRec = 1, !.lastPos = my]
      <4>1. h \in HeaderSet /\ h.updated = g.updated
        BY ChangedHeader
      <4>2. pkt' = WithHeader(h)
        BY <3>3 DEF Recovery
      <4>3. g.updated >= Header.updated
        BY <2>1, <3>3
      <4> HIDE DEF h
      <4> QED
        BY <2>3, <4>1, <4>2, <4>3
    <3>4. CASE Drop
      BY <2>2, <3>4 DEF Drop
    <3>5. CASE \E my \in Relays, rec \in Relays \cup {Origin}, e \in Entries :
                 pkt' = Greedy(Updated(Header, e), rec, my)
      BY <3>2, <3>5
    <3>6. CASE \E my \in Relays : pkt' = Recovery(Header, my)
      BY <2>1, <3>3, <3>6
    <3>7. CASE \E my \in Relays : pkt' = Recovery([Header EXCEPT !.recPos = my], my)
      <4> PICK my \in Relays : pkt' = Recovery([Header EXCEPT !.recPos = my], my)
        BY <3>7
      <4> DEFINE g == [Header EXCEPT !.recPos = my]
      <4>1. g \in HeaderSet /\ g.updated = Header.updated
        BY <2>1, ChangedHeader
      <4>2. pkt' = Recovery(g, my)
        OBVIOUS
      <4> HIDE DEF g
      <4> QED
        BY <3>3, <4>1, <4>2
    <3> QED
      BY <2>4, <3>4, <3>5, <3>6, <3>7 DEF Handled
  <2>5. CASE \/ \E my \in Relays, e \in Entries, next \in BOOLEAN : Send(my, e, next)
             \/ \E my \in Relays : SendHello(my)
    BY <2>5 DEF Send, SendHello, OnTheWay
  <2>6. CASE \/ \E my \in Relays, e \in Entries, greedy, next \in BOOLEAN :
                  SendPacketFromQueue(my, e, greedy, next)
             \/ \E my \in Relays, e \in Entries, greedy, next \in BOOLEAN :
                  Forwarding(my, e, greedy, next)
    BY <1>1, <2>4, <2>6, SendPacketFromQueueHandles, ForwardingHandles
  <2>7. CASE RouteInput
    BY <2>7 DEF RouteInput, Drop, OnTheWay
  <2>8. CASE (\E p \in Places : Move(p)) \/ Tick
    BY <2>2, <2>8 DEF Move, Tick
  <2> QED
    BY <1>1, <2>5, <2>6, <2>7, <2>8 DEF Next
<1>2. IInv /\ [Next]_vars => [Newer]_vars
  BY <1>1
<1>3. NeverOlder <=> [][Newer]_vars
  BY PTL DEF NeverOlder
<1> QED
  BY <1>2, <1>3, Invariant, PTL DEF Spec
=============================================================================
