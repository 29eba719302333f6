----------------------- MODULE DeferredRoutingProofs -----------------------
(***************************************************************************)
(* The safety of the deferred packets, for every set of packets and        *)
(* destinations, every poll delay, length limit and timeout.  The first    *)
(* part is about Keep and Unique, the second about the operations of the   *)
(* request queue, the third about the polls and what they send.            *)
(***************************************************************************)
EXTENDS DeferredRouting, Integers, FiniteSetTheorems, FunctionTheorems,
        SequenceTheorems, TLAPS

-----------------------------------------------------------------------------
(***************************************************************************)
(* What Keep and Unique return, for every sequence.  Rank numbers the      *)
(* kept positions 1, 2, ... without gaps, because it is an injection into  *)
(* a set of the same size; everything else follows from that.              *)
(***************************************************************************)
\* A set of positions of a sequence is finite and has a size.
LEMMA FiniteIndices ==
  ASSUME NEW n \in Nat, NEW I \in SUBSET (1 .. n)
  PROVE  IsFiniteSet(I) /\ Cardinality(I) \in Nat /\ I \subseteq Int
<1>1. IsFiniteSet(1 .. n)
  <2>1. 1 \in Int /\ n \in Int
    OBVIOUS
  <2> QED
    BY <2>1, FS_Interval
<1>2. IsFiniteSet(I)
  BY <1>1, FS_Subset
<1> QED
  BY <1>2, FS_CardinalityType

\* A kept position has a rank between 1 and the number of kept positions.
LEMMA RankType ==
  ASSUME NEW n \in Nat, NEW I \in SUBSET (1 .. n), NEW i \in I
  PROVE  Rank(I, i) \in 1 .. Cardinality(I)
<1> DEFINE B == {j \in I : j <= i}
<1>1. IsFiniteSet(I) /\ Cardinality(I) \in Nat
  BY FiniteIndices
<1>2. IsFiniteSet(B) /\ Cardinality(B) \in Nat /\ Cardinality(B) <= Cardinality(I)
  BY <1>1, FS_Subset, FS_CardinalityType
<1>3. B # {}
  OBVIOUS
<1>4. Cardinality(B) # 0
  BY <1>2, <1>3, FS_EmptySet
<1> QED
  BY <1>1, <1>2, <1>4 DEF Rank

\* A later position has a higher rank.
LEMMA RankMonotonic ==
  ASSUME NEW n \in Nat, NEW I \in SUBSET (1 .. n), NEW i \in I, NEW j \in I,
         i < j
  PROVE  Rank(I, i) < Rank(I, j)
<1> DEFINE B == {k \in I : k <= i}
           C == {k \in I : k <= j}
<1>1. IsFiniteSet(I) /\ I \subseteq Int
  BY FiniteIndices
<1>2. IsFiniteSet(C) /\ Cardinality(C) \in Nat
  BY <1>1, FS_Subset, FS_CardinalityType
<1>3. B \subseteq C /\ j \in C /\ j \notin B
  <2>1. i \in Int /\ j \in Int /\ \A k \in I : k \in Int
    BY <1>1
  <2>2. j <= j /\ ~(j <= i) /\ \A k \in I : k <= i => k <= j
    BY <2>1
  <2> QED
    BY <2>2
<1>4. Cardinality(B) \in Nat /\ Cardinality(B) <= Cardinality(C)
      /\ Cardinality(B) # Cardinality(C)
  <2> HIDE DEF B, C
  <2> QED
    BY <1>2, <1>3, FS_Subset, FS_CardinalityType
<1> QED
  BY <1>2, <1>4 DEF Rank

\* No two positions have the same rank.
LEMMA RankDistinct ==
  ASSUME NEW n \in Nat, NEW I \in SUBSET (1 .. n), NEW i \in I, NEW j \in I,
         Rank(I, i) = Rank(I, j)
  PROVE  i = j
<1>1. i \in Int /\ j \in Int
  BY FiniteIndices
<1>2. Rank(I, i) \in Int
  <2>1. Rank(I, i) \in 1 .. Cardinality(I)
    BY RankType
  <2> QED
    BY <2>1
<1>3. ~(i < j)
  <2> SUFFICES ASSUME i < j PROVE FALSE
    OBVIOUS
  <2>1. Rank(I, i) < Rank(I, j)
    BY RankMonotonic
  <2> QED
    BY <2>1, <1>2
<1>4. ~(j < i)
  <2> SUFFICES ASSUME j < i PROVE FALSE
    OBVIOUS
  <2>1. Rank(I, j) < Rank(I, i)
    BY RankMonotonic
  <2> QED
    BY <2>1, <1>2
<1> QED
  BY <1>1, <1>3, <1>4

\* Every rank is that of some position.
LEMMA RankOnto ==
  ASSUME NEW n \in Nat, NEW I \in SUBSET (1 .. n),
         NEW k \in 1 .. Cardinality(I)
  PROVE  \E i \in I : Rank(I, i) = k
<1> DEFINE T == 1 .. Cardinality(I)
           r == [i \in I |-> Rank(I, i)]
<1>1. IsFiniteSet(I) /\ Cardinality(I) \in Nat
  BY FiniteIndices
<1>2. IsFiniteSet(T) /\ Cardinality(T) = Cardinality(I)
  BY <1>1, FS_Interval
<1>3. r \in [I -> T]
  BY RankType
<1>4. ASSUME NEW i \in I, NEW j \in I, r[i] = r[j] PROVE i = j
  BY <1>4, RankDistinct
<1>5. r \in Injection(I, T)
  BY <1>3, <1>4, Fun_IsInj
<1>6. r \in Surjection(I, T)
  <2> HIDE DEF r, T
  <2> QED
    BY <1>2, <1>5, FS_Injection
<1>7. \E i \in I : r[i] = k
  <2>1. k \in T
    OBVIOUS
  <2> HIDE DEF r, T
  <2> QED
    BY <1>6, <2>1 DEF Surjection
<1> QED
  BY <1>7

-----------------------------------------------------------------------------
\* Keep(s, I) lists the elements at the positions I, each once and in order:
\* Position(I, k) is where the k-th of them was.
Position(I, k) == CHOOSE i \in I : Rank(I, i) = k

\* Position is the inverse of Rank, and increasing.
LEMMA PositionProperties ==
  ASSUME NEW n \in Nat, NEW I \in SUBSET (1 .. n)
  PROVE  /\ Cardinality(I) \in Nat
         /\ \A k \in 1 .. Cardinality(I) :
              Position(I, k) \in I /\ Rank(I, Position(I, k)) = k
         /\ \A i \in I : \E k \in 1 .. Cardinality(I) : Position(I, k) = i
         /\ \A k, l \in 1 .. Cardinality(I) :
              k < l => Position(I, k) < Position(I, l)
<1>1. Cardinality(I) \in Nat /\ I \subseteq Int
  BY FiniteIndices
<1>2. ASSUME NEW k \in 1 .. Cardinality(I)
      PROVE  Position(I, k) \in I /\ Rank(I, Position(I, k)) = k
  BY RankOnto DEF Position
<1>3. ASSUME NEW i \in I, NEW j \in I, Rank(I, i) = Rank(I, j)
      PROVE  i = j
  BY <1>3, RankDistinct
<1>4. ASSUME NEW i \in I
      PROVE  \E k \in 1 .. Cardinality(I) : Position(I, k) = i
  <2>1. Rank(I, i) \in 1 .. Cardinality(I)
    BY RankType
  <2>2. Position(I, Rank(I, i)) = i
    BY <1>2, <1>3, <2>1
  <2> QED
    BY <2>1, <2>2
<1>5. ASSUME NEW k \in 1 .. Cardinality(I), NEW l \in 1 .. Cardinality(I),
             k < l
      PROVE  Position(I, k) < Position(I, l)
  <2> PICK i \in I : i = Position(I, k) /\ Rank(I, i) = k
    BY <1>2
  <2> PICK j \in I : j = Position(I, l) /\ Rank(I, j) = l
    BY <1>2
  <2>1. i \in Int /\ j \in Int /\ k \in Int /\ l \in Int
    BY <1>1
  <2>2. i # j
    BY <1>5, <2>1
  <2>3. ~(j < i)
    <3> SUFFICES ASSUME j < i PROVE FALSE
      OBVIOUS
    <3>1. Rank(I, j) < Rank(I, i)
      BY RankMonotonic
    <3> QED
      BY <3>1, <2>1, <1>5
  <2> QED
    BY <2>1, <2>2, <2>3
<1> QED
  BY <1>1, <1>2, <1>4, <1>5

\* Keep returns the elements at the kept positions, in their order.
LEMMA KeepProperties ==
  ASSUME NEW S, NEW s \in Seq(S), NEW I \in SUBSET DOMAIN s
  PROVE  /\ Keep(s, I) \in Seq(S)
         /\ DOMAIN Keep(s, I) = 1 .. Cardinality(I)
         /\ \A k \in DOMAIN Keep(s, I) :
              Position(I, k) \in I /\ Keep(s, I)[k] = s[Position(I, k)]
         /\ \A i \in I : \E k \in DOMAIN Keep(s, I) : Position(I, k) = i
         /\ \A k, l \in DOMAIN Keep(s, I) :
              k < l => Position(I, k) < Position(I, l)
<1>1. Len(s) \in Nat /\ DOMAIN s = 1 .. Len(s)
  BY LenProperties
<1>2. Cardinality(I) \in Nat
      /\ (\A k \in 1 .. Cardinality(I) : Position(I, k) \in I)
      /\ (\A i \in I : \E k \in 1 .. Cardinality(I) : Position(I, k) = i)
      /\ (\A k, l \in 1 .. Cardinality(I) :
            k < l => Position(I, k) < Position(I, l))
  BY <1>1, PositionProperties
<1>3. Keep(s, I) = [k \in 1 .. Cardinality(I) |-> s[Position(I, k)]]
  BY DEF Keep, Position
<1>4. \A k \in 1 .. Cardinality(I) : s[Position(I, k)] \in S
  BY <1>1, <1>2, ElementOfSeq
<1>5. Keep(s, I) \in [1 .. Cardinality(I) -> S]
  BY <1>3, <1>4
<1>6. Keep(s, I) \in Seq(S)
  BY <1>2, <1>5, SeqDef
<1> QED
  BY <1>2, <1>3, <1>6

\* The elements of what is kept, and that distinct elements stay distinct.
LEMMA KeepElements ==
  ASSUME NEW S, NEW s \in Seq(S), NEW I \in SUBSET DOMAIN s
  PROVE  Elements(Keep(s, I)) = {s[i] : i \in I}
<1>1. ASSUME NEW k \in DOMAIN Keep(s, I) PROVE \E i \in I : Keep(s, I)[k] = s[i]
  BY KeepProperties
<1>2. ASSUME NEW i \in I PROVE \E k \in DOMAIN Keep(s, I) : Keep(s, I)[k] = s[i]
  BY KeepProperties
<1> QED
  BY <1>1, <1>2 DEF Elements

\* Nothing is left exactly if nothing is kept.
LEMMA KeepEmpty ==
  ASSUME NEW S, NEW s \in Seq(S), NEW I \in SUBSET DOMAIN s
  PROVE  Keep(s, I) = <<>> <=> I = {}
<1>1. Keep(s, I) \in Seq(S) /\ Elements(Keep(s, I)) = {s[i] : i \in I}
  BY KeepProperties, KeepElements
<1>2. Keep(s, I) = <<>> <=> DOMAIN Keep(s, I) = {}
  BY <1>1, EmptySeq, LenProperties
<1>3. DOMAIN Keep(s, I) = {} <=> I = {}
  BY <1>1 DEF Elements
<1> QED
  BY <1>2, <1>3

\* Without removes the elements of R and no other.
LEMMA WithoutProperties ==
  ASSUME NEW S, NEW s \in Seq(S), NEW R
  PROVE  Without(s, R) \in Seq(S) /\ Elements(Without(s, R)) = Elements(s) \ R
<1> DEFINE I == {i \in DOMAIN s : s[i] \notin R}
<1>1. Keep(s, I) \in Seq(S) /\ Elements(Keep(s, I)) = {s[i] : i \in I}
  BY KeepProperties, KeepElements
<1>2. {s[i] : i \in I} = Elements(s) \ R
  BY DEF Elements
<1> QED
  BY <1>1, <1>2 DEF Without

\* list::unique loses no element: the first of every run stays.
LEMMA UniqueProperties ==
  ASSUME NEW S, NEW s \in Seq(S)
  PROVE  Unique(s) \in Seq(S) /\ Elements(Unique(s)) = Elements(s)
<1> DEFINE I == {i \in DOMAIN s : i = 1 \/ s[i] # s[i-1]}
<1>1. Keep(s, I) \in Seq(S) /\ Elements(Keep(s, I)) = {s[i] : i \in I}
  BY KeepProperties, KeepElements
<1>2. ASSUME NEW i \in DOMAIN s PROVE \E j \in I : s[j] = s[i]
  <2> DEFINE T == {j \in DOMAIN s : s[j] = s[i]}
  <2>1. DOMAIN s = 1 .. Len(s) /\ Len(s) \in Nat
    BY LenProperties
  <2>2. T \in SUBSET (1 .. Len(s)) /\ i \in T
    BY <2>1
  <2>3. 1 \in 1 .. Cardinality(T)
    <3> HIDE DEF T
    <3>1. IsFiniteSet(T) /\ Cardinality(T) \in Nat
      BY <2>1, <2>2, FiniteIndices
    <3>2. Cardinality(T) # 0
      BY <2>2, <3>1, FS_EmptySet
    <3> QED
      BY <3>1, <3>2
  <2>4. PICK j \in T : Rank(T, j) = 1
    <3> HIDE DEF T
    <3> QED
      BY <2>1, <2>2, <2>3, RankOnto
  <2>5. CASE j = 1
    BY <2>5
  <2>6. CASE j # 1
    <3>1. j - 1 \in DOMAIN s /\ j - 1 < j
      BY <2>1, <2>6
    <3>2. j - 1 \notin T
      <4> SUFFICES ASSUME j - 1 \in T PROVE FALSE
        OBVIOUS
      <4> HIDE DEF T
      <4>1. Rank(T, j - 1) < Rank(T, j)
        BY <2>1, <2>2, <3>1, RankMonotonic
      <4>2. Rank(T, j - 1) \in 1 .. Cardinality(T)
        BY <2>1, <2>2, RankType
      <4> QED
        BY <2>4, <4>1, <4>2
    <3> QED
      BY <3>1, <3>2
  <2> QED
    BY <2>5, <2>6
<1>3. {s[i] : i \in I} = Elements(s)
  BY <1>2 DEF Elements
<1> QED
  BY <1>1, <1>3 DEF Unique

\* insert(begin(), d) adds d to the elements.
LEMMA PushFrontProperties ==
  ASSUME NEW S, NEW d \in S, NEW s \in Seq(S)
  PROVE  <<d>> \o s \in Seq(S) /\ Elements(<<d>> \o s) = {d} \cup Elements(s)
<1> DEFINE t == <<d>> \o s
<1>1. <<d>> \in Seq(S) /\ Len(<<d>>) = 1 /\ <<d>>[1] = d
  OBVIOUS
<1>2. Len(s) \in Nat /\ DOMAIN s = 1 .. Len(s)
  BY LenProperties
<1>3. /\ t \in Seq(S)
      /\ Len(t) = 1 + Len(s)
      /\ \A i \in 1 .. 1 + Len(s) : t[i] = IF i <= 1 THEN <<d>>[i] ELSE s[i - 1]
  BY <1>1, ConcatProperties
<1>4. DOMAIN t = 1 .. 1 + Len(s)
  BY <1>3, LenProperties
<1> HIDE DEF t
<1>5. \A i \in DOMAIN t : t[i] = d \/ \E j \in DOMAIN s : t[i] = s[j]
  <2> SUFFICES ASSUME NEW i \in DOMAIN t, i # 1
               PROVE  i - 1 \in DOMAIN s /\ t[i] = s[i - 1]
    BY <1>1, <1>3, <1>4
  <2> QED
    BY <1>2, <1>3, <1>4
<1>6. 1 \in DOMAIN t /\ t[1] = d
  BY <1>1, <1>2, <1>3, <1>4
<1>7. \A j \in DOMAIN s : j + 1 \in DOMAIN t /\ t[j + 1] = s[j]
  BY <1>2, <1>3, <1>4
<1>8. Elements(t) = {d} \cup Elements(s)
  BY <1>5, <1>6, <1>7 DEF Elements
<1> QED
  BY <1>3, <1>8 DEF t

-----------------------------------------------------------------------------
(***************************************************************************)
(* What the queue operations do to the packets of the queue, for every     *)
(* queue, length limit and timeout.                                        *)
(***************************************************************************)
\* Whatever is kept of a queue without repetitions has none either.
LEMMA KeepDistinct ==
  ASSUME NEW S, NEW q \in Seq(S), NEW I \in SUBSET DOMAIN q, Distinct(q)
  PROVE  /\ Distinct(Keep(q, I))
         /\ PacketsIn(Keep(q, I)) = {q[i].pkt : i \in I}
<1> DEFINE t == Keep(q, I)
<1>1. /\ t \in Seq(S)
      /\ \A k \in DOMAIN t : Position(I, k) \in I /\ t[k] = q[Position(I, k)]
      /\ \A i \in I : \E k \in DOMAIN t : Position(I, k) = i
      /\ \A k, l \in DOMAIN t : k < l => Position(I, k) < Position(I, l)
  BY KeepProperties
<1>2. DOMAIN q \subseteq Int /\ DOMAIN t \subseteq Int
  BY <1>1, LenProperties
<1>3. PacketsIn(t) = {q[i].pkt : i \in I}
  <2> HIDE DEF t
  <2> QED
    BY <1>1 DEF PacketsIn
<1>4. ASSUME NEW k \in DOMAIN t, NEW l \in DOMAIN t, t[k].pkt = t[l].pkt
      PROVE  k = l
  <2>1. Position(I, k) = Position(I, l)
    BY <1>1, <1>4 DEF Distinct
  <2>2. ~(k < l) /\ ~(l < k)
    BY <1>1, <1>2, <2>1
  <2> QED
    BY <1>2, <2>2
<1> QED
  BY <1>3, <1>4 DEF Distinct

\* Purge drops the packets of PurgeDrops and no other.
LEMMA PurgeProperties ==
  ASSUME NEW S, NEW q \in Seq(S)
  PROVE  /\ Purge(q) \in Seq(S)
         /\ \A k \in DOMAIN Purge(q) : \E i \in DOMAIN q : Purge(q)[k] = q[i]
         /\ Distinct(q) => /\ Distinct(Purge(q))
                           /\ PacketsIn(Purge(q)) = PacketsIn(q) \ PurgeDrops(q)
<1>1. Live(q) \in SUBSET DOMAIN q
  BY DEF Live
<1>2. Purge(q) = Keep(q, Live(q))
  BY DEF Purge
<1>3. Purge(q) \in Seq(S)
      /\ \A k \in DOMAIN Purge(q) : \E i \in DOMAIN q : Purge(q)[k] = q[i]
  BY <1>1, <1>2, KeepProperties
<1>4. ASSUME Distinct(q)
      PROVE  /\ Distinct(Purge(q))
             /\ PacketsIn(Purge(q)) = PacketsIn(q) \ PurgeDrops(q)
  <2>1. Distinct(Purge(q)) /\ PacketsIn(Purge(q)) = {q[i].pkt : i \in Live(q)}
    BY <1>1, <1>2, <1>4, KeepDistinct
  <2>2. {q[i].pkt : i \in Live(q)} = PacketsIn(q) \ PurgeDrops(q)
    BY <1>1, <1>4 DEF PacketsIn, PurgeDrops, Distinct
  <2> QED
    BY <2>1, <2>2
<1> QED
  BY <1>3, <1>4

\* The room that is made for one more entry.
MakeRoom(q, maxLen) == IF IsFull(q, maxLen) THEN Tail(q) ELSE q

\* Dropping the oldest entry of a full queue takes that packet only.
LEMMA MakeRoomProperties ==
  ASSUME NEW S, NEW q \in Seq(S), NEW maxLen \in Nat \ {0}
  PROVE  /\ MakeRoom(q, maxLen) \in Seq(S)
         /\ \A k \in DOMAIN MakeRoom(q, maxLen) :
              \E i \in DOMAIN q : MakeRoom(q, maxLen)[k] = q[i]
         /\ Distinct(q) =>
              /\ Distinct(MakeRoom(q, maxLen))
              /\ PacketsIn(MakeRoom(q, maxLen)) = PacketsIn(q) \
                   (IF IsFull(q, maxLen) THEN {q[1].pkt} ELSE {})
<1> DEFINE t == Tail(q)
<1>1. CASE ~IsFull(q, maxLen)
  BY <1>1 DEF MakeRoom
<1>2. CASE IsFull(q, maxLen)
  <2>1. q # <<>> /\ Len(q) \in Nat /\ DOMAIN q = 1 .. Len(q)
    BY <1>2, LenProperties, EmptySeq DEF IsFull
  <2>2. t \in Seq(S) /\ Len(t) = Len(q) - 1
        /\ DOMAIN t = 1 .. Len(t)
        /\ \A i \in 1 .. Len(t) : t[i] = q[i+1]
    BY <2>1, HeadTailProperties, LenProperties
  <2>3. \A i \in DOMAIN t : i + 1 \in DOMAIN q /\ t[i] = q[i+1]
    BY <2>1, <2>2
  <2>4. \A i \in DOMAIN q : i # 1 => i - 1 \in DOMAIN t /\ t[i-1] = q[i]
    BY <2>1, <2>2
  <2>5. 1 \in DOMAIN q /\ \A i \in DOMAIN t : i \in Int /\ i + 1 # 1
    BY <1>2, <2>1, <2>2 DEF IsFull
  <2>6. ASSUME Distinct(q)
        PROVE  Distinct(t) /\ PacketsIn(t) = PacketsIn(q) \ {q[1].pkt}
    <3>1. Distinct(t)
      <4> SUFFICES ASSUME NEW i \in DOMAIN t, NEW j \in DOMAIN t,
                          t[i].pkt = t[j].pkt
                   PROVE  i = j
        BY DEF Distinct
      <4>1. i + 1 = j + 1
        BY <2>3, <2>6 DEF Distinct
      <4> QED
        BY <4>1, <2>5
    <3>2. PacketsIn(t) \subseteq PacketsIn(q) \ {q[1].pkt}
      <4> SUFFICES ASSUME NEW i \in DOMAIN t
                   PROVE  t[i].pkt \in PacketsIn(q) /\ t[i].pkt # q[1].pkt
        BY DEF PacketsIn
      <4> QED
        BY <2>3, <2>5, <2>6 DEF PacketsIn, Distinct
    <3>3. PacketsIn(q) \ {q[1].pkt} \subseteq PacketsIn(t)
      <4> SUFFICES ASSUME NEW i \in DOMAIN q, q[i].pkt # q[1].pkt
                   PROVE  q[i].pkt \in PacketsIn(t)
        BY DEF PacketsIn
      <4> QED
        BY <2>4 DEF PacketsIn
    <3> QED
      BY <3>1, <3>2, <3>3
  <2> QED
    BY <1>2, <2>2, <2>3, <2>6 DEF MakeRoom
<1> QED
  BY <1>1, <1>2

\* push_back adds one packet at the end.
LEMMA AppendPackets ==
  ASSUME NEW S, NEW q \in Seq(S), NEW e \in S
  PROVE  /\ Append(q, e) \in Seq(S)
         /\ Append(q, e) # <<>>
         /\ \A k \in DOMAIN Append(q, e) :
              Append(q, e)[k] = e \/ \E i \in DOMAIN q : Append(q, e)[k] = q[i]
         /\ PacketsIn(Append(q, e)) = PacketsIn(q) \cup {e.pkt}
         /\ Distinct(q) /\ e.pkt \notin PacketsIn(q) => Distinct(Append(q, e))
<1> DEFINE t == Append(q, e)
           n == Len(q)
<1>1. n \in Nat /\ DOMAIN q = 1 .. n
  BY LenProperties
<1>2. /\ t \in Seq(S)
      /\ t # <<>>
      /\ Len(t) = n + 1
      /\ \A i \in 1 .. n : t[i] = q[i]
      /\ t[n + 1] = e
  BY AppendProperties
<1>3. DOMAIN t = 1 .. (n + 1)
  BY <1>2, LenProperties
<1> HIDE DEF t, n
<1>4. \A k \in DOMAIN t : \/ k = n + 1 /\ t[k] = e
                          \/ k \in DOMAIN q /\ t[k] = q[k]
  BY <1>1, <1>2, <1>3
<1>5. n + 1 \in DOMAIN t /\ \A i \in DOMAIN q : i \in DOMAIN t /\ t[i] = q[i]
  BY <1>1, <1>2, <1>3
<1>6. PacketsIn(t) = PacketsIn(q) \cup {e.pkt}
  BY <1>2, <1>4, <1>5 DEF PacketsIn
<1>7. ASSUME Distinct(q), e.pkt \notin PacketsIn(q)
      PROVE  Distinct(t)
  BY <1>4, <1>7 DEF Distinct, PacketsIn
<1> QED
  BY <1>2, <1>4, <1>6, <1>7 DEF t

\* Enqueue keeps the order and the expire times of what stays; the packets
\* of the queue change by the new one and by those handed to a callback.
EnqueuePost(S, q, p, maxLen, timeout) ==
  LET t == Enqueue(q, p, maxLen, timeout)
      e == [pkt |-> p, expire |-> timeout]
  IN  /\ t \in Seq(S)
      /\ \A k \in DOMAIN t :
           t[k] = e \/ \E i \in DOMAIN Purge(q) : t[k] = Purge(q)[i]
      /\ Distinct(q) /\ p \notin PacketsIn(q) =>
           /\ Distinct(t)
           /\ PacketsIn(t) =
                (PacketsIn(q) \ EnqueueDrops(q, p, maxLen))
                  \cup (IF IsQueued(Purge(q), p) THEN {} ELSE {p})

\* What EnqueuePost says of Enqueue holds for every queue.
LEMMA EnqueueProperties ==
  ASSUME NEW S, NEW q \in Seq(S), NEW p, NEW maxLen \in Nat \ {0},
         NEW timeout, [pkt |-> p, expire |-> timeout] \in S
  PROVE  EnqueuePost(S, q, p, maxLen, timeout)
<1> DEFINE live == Purge(q)
           e == [pkt |-> p, expire |-> timeout]
           t == Enqueue(q, p, maxLen, timeout)
           room == MakeRoom(live, maxLen)
<1>1. live \in Seq(S)
      /\ (Distinct(q) => /\ Distinct(live)
                         /\ PacketsIn(live) = PacketsIn(q) \ PurgeDrops(q))
  BY PurgeProperties
<1>2. /\ room \in Seq(S)
      /\ \A k \in DOMAIN room : \E i \in DOMAIN live : room[k] = live[i]
      /\ Distinct(live) =>
           /\ Distinct(room)
           /\ PacketsIn(room) = PacketsIn(live) \
                (IF IsFull(live, maxLen) THEN {live[1].pkt} ELSE {})
  BY <1>1, MakeRoomProperties
<1>3. CASE IsQueued(live, p)
  <2>1. t = live
        /\ EnqueueDrops(q, p, maxLen) = PurgeDrops(q)
    BY <1>3 DEF Enqueue, EnqueueDrops
  <2> QED
    BY <1>1, <1>3, <2>1 DEF EnqueuePost
<1>4. CASE ~IsQueued(live, p)
  <2>1. t = Append(room, e)
    BY <1>4 DEF Enqueue, MakeRoom
  <2>2. EnqueueDrops(q, p, maxLen) = PurgeDrops(q) \cup
          (IF IsFull(live, maxLen) THEN {live[1].pkt} ELSE {})
    BY <1>4 DEF EnqueueDrops
  <2>3. e \in S /\ e.pkt = p
    OBVIOUS
  <2> HIDE DEF live, room
  <2>4. /\ Append(room, e) \in Seq(S)
        /\ \A k \in DOMAIN Append(room, e) :
             Append(room, e)[k] = e
             \/ \E i \in DOMAIN room : Append(room, e)[k] = room[i]
        /\ PacketsIn(Append(room, e)) = PacketsIn(room) \cup {p}
        /\ Distinct(room) /\ p \notin PacketsIn(room) =>
             Distinct(Append(room, e))
    BY <1>2, <2>3, AppendPackets
  <2>5. ASSUME Distinct(q), p \notin PacketsIn(q)
        PROVE  /\ Distinct(Append(room, e))
               /\ PacketsIn(Append(room, e)) =
                    (PacketsIn(q) \ EnqueueDrops(q, p, maxLen)) \cup {p}
    BY <1>1, <1>2, <2>2, <2>4, <2>5
  <2>6. \A k \in DOMAIN Append(room, e) :
           Append(room, e)[k] = e
           \/ \E i \in DOMAIN live : Append(room, e)[k] = live[i]
    BY <1>2, <2>4
  <2> QED
    BY <1>4, <2>1, <2>4, <2>5, <2>6 DEF live, EnqueuePost
<1> QED
  BY <1>3, <1>4

\* Only packets of the queue are handed to their error callback.
LEMMA DropsAreQueued ==
  ASSUME NEW S, NEW q \in Seq(S), NEW p, NEW maxLen \in Nat \ {0}
  PROVE  EnqueueDrops(q, p, maxLen) \subseteq PacketsIn(q)
<1>1. PurgeDrops(q) \subseteq PacketsIn(q)
  BY DEF PurgeDrops, PacketsIn
<1>2. /\ Purge(q) \in Seq(S)
      /\ \A k \in DOMAIN Purge(q) : \E i \in DOMAIN q : Purge(q)[k] = q[i]
  BY PurgeProperties
<1>3. ASSUME IsFull(Purge(q), maxLen) PROVE Purge(q)[1].pkt \in PacketsIn(q)
  <2>1. 1 \in DOMAIN Purge(q)
    BY <1>2, <1>3, LenProperties DEF IsFull
  <2> QED
    BY <1>2, <2>1 DEF PacketsIn
<1> QED
  BY <1>1, <1>3 DEF EnqueueDrops

-----------------------------------------------------------------------------
(***************************************************************************)
(* The safety of the deferred packets.                                     *)
(***************************************************************************)
\* The four invariants need each other: the timer is right because every
\* waiting packet has its address listed, and the deadline of a packet can
\* be followed because the history names each packet of the queue once.
IInv ==
  /\ TypeOK
  /\ NoStrandedPacket
  /\ PolledBeforeTimeout
  /\ EachPacketInOnePlace

\* The invariant holds of a node that has just started: nothing is queued.
LEMMA InitIInv == Init => IInv
<1> SUFFICES ASSUME Init PROVE IInv
  OBVIOUS
<1>1. TypeOK
  BY DeferredAssumption
  DEF Init, TypeOK, Off, LocationStates, Fates
<1>2. NoStrandedPacket
  BY DEF Init, NoStrandedPacket, EveryDestinationIsVisited,
         TimerRunsForTheList
<1>3. PolledBeforeTimeout
  BY DEF Init, PolledBeforeTimeout
<1>4. EachPacketInOnePlace
  BY DEF Init, EachPacketInOnePlace, PacketsIn, Distinct, Elements, Once,
         Waiting
<1> QED
  BY <1>1, <1>2, <1>3, <1>4 DEF IInv

\* What the assumptions on the constants say, in the form the steps use.
LEMMA Constants ==
  /\ PollDelay \in Nat \ {0}
  /\ \A t \in Timeouts : t \in Nat
  /\ \A n \in MaxLens : n \in Nat \ {0}
  /\ \A p \in Packets : Destination[p] \in Dsts
  /\ \A p \in Packets, t \in Timeouts : [pkt |-> p, expire |-> t] \in Entries
BY DeferredAssumption, PacketsAssumption DEF Entries

-----------------------------------------------------------------------------
\* DeferredRouteOutput keeps the parts of the invariant that it can disturb.
LEMMA DeferredStep ==
  ASSUME IInv, NEW p \in Packets, fate[p] \notin Waiting,
         DeferredRouteOutput(p)
  PROVE  /\ m_queue' \in Seq(Entries)
         /\ m_queuedAddresses' \in Seq(Dsts)
         /\ CheckQueueTimer' \in 0 .. PollDelay \cup {Off}
         /\ fate' \in [Packets -> Fates]
         /\ NoStrandedPacket'
         /\ PolledBeforeTimeout'
         /\ PacketsIn(m_queue') = {r \in Packets : fate'[r] \in Waiting}
         /\ Distinct(m_queue')
         /\ fate'[p] \in {"queued", "duplicate"}
         /\ \A r \in Packets \ {p} :
              fate'[r] = "loopback" <=> fate[r] = "loopback"
<1> DEFINE live == Purge(m_queue)
           e == [pkt |-> p, expire |-> m_queueTimeout]
<1>1. /\ m_queue \in Seq(Entries)
      /\ m_queuedAddresses \in Seq(Dsts)
      /\ CheckQueueTimer \in 0 .. PollDelay \cup {Off}
      /\ m_maxLen \in Nat \ {0}
      /\ m_queueTimeout \in Timeouts
      /\ fate \in [Packets -> Fates]
  BY Constants DEF IInv, TypeOK
<1>2. /\ PacketsIn(m_queue) = {r \in Packets : fate[r] \in Waiting}
      /\ Distinct(m_queue)
      /\ p \notin PacketsIn(m_queue)
  BY DEF IInv, EachPacketInOnePlace
<1>3. e \in Entries /\ m_queue' = Enqueue(m_queue, p, m_maxLen, m_queueTimeout)
  BY <1>1, Constants DEF DeferredRouteOutput
<1>4. /\ m_queue' \in Seq(Entries)
      /\ \A k \in DOMAIN m_queue' :
           m_queue'[k] = e \/ \E i \in DOMAIN live : m_queue'[k] = live[i]
      /\ Distinct(m_queue')
      /\ PacketsIn(m_queue') =
           (PacketsIn(m_queue) \ EnqueueDrops(m_queue, p, m_maxLen))
             \cup (IF IsQueued(live, p) THEN {} ELSE {p})
  <2>1. [pkt |-> p, expire |-> m_queueTimeout] \in Entries
    BY <1>3
  <2>2. m_queue \in Seq(Entries) /\ m_maxLen \in Nat \ {0}
    BY <1>1
  <2>3. EnqueuePost(Entries, m_queue, p, m_maxLen, m_queueTimeout)
    BY <2>1, <2>2, EnqueueProperties
  <2> QED
    BY <1>2, <1>3, <2>3 DEF EnqueuePost
<1>5. /\ live \in Seq(Entries)
      /\ \A k \in DOMAIN live : \E i \in DOMAIN m_queue : live[k] = m_queue[i]
  BY <1>1, PurgeProperties
<1>6. /\ m_queuedAddresses' \in Seq(Dsts)
      /\ Elements(m_queuedAddresses') =
           {Destination[p]} \cup Elements(m_queuedAddresses)
  <2>1. Destination[p] \in Dsts
    BY Constants
  <2>2. /\ <<Destination[p]>> \o m_queuedAddresses \in Seq(Dsts)
        /\ Elements(<<Destination[p]>> \o m_queuedAddresses) =
             {Destination[p]} \cup Elements(m_queuedAddresses)
    BY <1>1, <2>1, PushFrontProperties
  <2>3. m_queuedAddresses' = Unique(<<Destination[p]>> \o m_queuedAddresses)
    BY DEF DeferredRouteOutput, Announce
  <2> QED
    BY <2>2, <2>3, UniqueProperties
<1>7. m_queuedAddresses' # <<>>
  BY <1>6 DEF Elements
<1>8. CheckQueueTimer' \in 0 .. PollDelay
      /\ (live # <<>> => CheckQueueTimer' = CheckQueueTimer)
  <2>1. ASSUME live # <<>> PROVE CheckQueueTimer # Off
    <3>1. DOMAIN live # {}
      BY <1>5, <2>1, EmptySeq, LenProperties
    <3>2. DOMAIN m_queue # {}
      BY <1>5, <3>1
    <3>3. m_queuedAddresses # <<>>
      BY <3>2, <1>1
      DEF IInv, NoStrandedPacket, EveryDestinationIsVisited, Elements
    <3> QED
      BY <3>3 DEF IInv, NoStrandedPacket, TimerRunsForTheList
  <2> QED
    BY <1>1, <2>1, Constants DEF DeferredRouteOutput, DeferredTimer, Off
<1>9. /\ fate' \in [Packets -> Fates]
      /\ \A r \in Packets \ {p} :
           fate'[r] = IF r \in EnqueueDrops(m_queue, p, m_maxLen)
                        THEN "error" ELSE fate[r]
      /\ fate'[p] = IF IsQueued(live, p) THEN "duplicate" ELSE "queued"
  BY <1>1 DEF DeferredRouteOutput, EnqueuedFate, Fates, Waiting, Final
<1>10. EveryDestinationIsVisited'
  <2> SUFFICES ASSUME NEW k \in DOMAIN m_queue'
               PROVE  Destination[m_queue'[k].pkt]
                        \in Elements(m_queuedAddresses')
    BY DEF EveryDestinationIsVisited
  <2>1. CASE m_queue'[k] = e
    BY <1>6, <2>1
  <2>2. CASE \E i \in DOMAIN live : m_queue'[k] = live[i]
    <3>1. PICK i \in DOMAIN m_queue : m_queue'[k] = m_queue[i]
      BY <1>5, <2>2
    <3> QED
      BY <1>6, <3>1
      DEF IInv, NoStrandedPacket, EveryDestinationIsVisited
  <2> QED
    BY <1>4, <2>1, <2>2
<1>11. TimerRunsForTheList'
  BY <1>7, <1>8, Constants DEF TimerRunsForTheList, Off
<1>12. PolledBeforeTimeout'
  <2> SUFFICES ASSUME \A t \in Timeouts : t >= PollDelay,
                      NEW k \in DOMAIN m_queue',
                      fate'[m_queue'[k].pkt] = "queued"
               PROVE  CheckQueueTimer' # Off
                      /\ m_queue'[k].expire >= CheckQueueTimer'
    BY DEF PolledBeforeTimeout
  <2>1. CheckQueueTimer' # Off /\ CheckQueueTimer' \in 0 .. PollDelay
    BY <1>8, Constants DEF Off
  <2>2. CASE m_queue'[k] = e
    <3>1. m_queue'[k].expire = m_queueTimeout /\ m_queueTimeout >= PollDelay
      BY <1>1, <2>2
    <3>2. m_queueTimeout \in Nat /\ PollDelay \in Nat
      BY <1>1, Constants
    <3> QED
      BY <2>1, <3>1, <3>2
  <2>3. CASE \E i \in DOMAIN live : m_queue'[k] = live[i]
    <3>1. PICK i \in DOMAIN m_queue : m_queue'[k] = m_queue[i]
      BY <1>5, <2>3
    <3>2. live # <<>>
      BY <2>3
    <3>3. m_queue[i].pkt \in PacketsIn(m_queue)
      BY DEF PacketsIn
    <3>4. m_queue[i].pkt # p /\ m_queue[i].pkt \in Packets
      BY <1>2, <3>3
    <3>5. fate[m_queue[i].pkt] = "queued"
      BY <1>9, <3>1, <3>4
    <3>6. m_queue[i].expire >= CheckQueueTimer
      BY <3>5 DEF IInv, PolledBeforeTimeout
    <3> QED
      BY <1>8, <2>1, <3>1, <3>2, <3>6
  <2> QED
    BY <1>4, <2>2, <2>3
<1>13. PacketsIn(m_queue') = {r \in Packets : fate'[r] \in Waiting}
  <2>1. \A r \in Packets \ {p} : r \in PacketsIn(m_queue') <=> fate'[r] \in Waiting
    BY <1>2, <1>4, <1>9 DEF Waiting
  <2>2. p \in PacketsIn(m_queue') <=> fate'[p] \in Waiting
    BY <1>2, <1>4, <1>9 DEF Waiting
  <2>3. PacketsIn(m_queue') \subseteq Packets
    BY <1>2, <1>4
  <2> QED
    BY <2>1, <2>2, <2>3
<1>14. \A r \in Packets \ {p} : fate'[r] = "loopback" <=> fate[r] = "loopback"
  <2> SUFFICES ASSUME NEW r \in Packets \ {p},
                      r \in EnqueueDrops(m_queue, p, m_maxLen)
               PROVE  fate'[r] # "loopback" /\ fate[r] # "loopback"
    BY <1>9
  <2>1. r \in PacketsIn(m_queue)
    BY <1>1, <1>2, DropsAreQueued
  <2> QED
    BY <1>2, <1>9, <2>1 DEF Waiting
<1>15. fate'[p] \in {"queued", "duplicate"}
  BY <1>9
<1>16. NoStrandedPacket'
  BY <1>10, <1>11 DEF NoStrandedPacket
<1>17. CheckQueueTimer' \in 0 .. PollDelay \cup {Off}
  BY <1>8
<1> QED
  BY <1>4, <1>6, <1>9, <1>12, <1>13, <1>14, <1>15, <1>16, <1>17

-----------------------------------------------------------------------------
\* The purge at the start of a poll keeps types and doubles no packet.
LEMMA SweptProperties ==
  ASSUME IInv
  PROVE  /\ Swept \in Seq(Entries)
         /\ Distinct(Swept)
         /\ PacketsIn(Swept) \subseteq PacketsIn(m_queue)
         /\ \A k \in DOMAIN Swept : \E i \in DOMAIN m_queue : Swept[k] = m_queue[i]
<1>1. m_queue \in Seq(Entries) /\ Distinct(m_queue)
  BY DEF IInv, TypeOK, EachPacketInOnePlace
<1>2. CASE Swept = m_queue
  BY <1>1, <1>2
<1>3. CASE Swept = Purge(m_queue)
  BY <1>1, <1>3, PurgeProperties
<1> QED
  BY <1>2, <1>3 DEF Swept

\* An address that CheckQueue is done with has no packet left: the visit
\* that returned true came after those that stopped at a missing header.
LEMMA DoneLeavesNothing ==
  ASSUME IInv, NEW i \in DOMAIN Swept,
         Destination[Swept[i].pkt] \in Elements(m_queuedAddresses),
         IsDone(Destination[Swept[i].pkt])
  PROVE  IsTaken(i)
<1> DEFINE d == Destination[Swept[i].pkt]
           N == NoHeader(Swept, d)
           A == {j \in N : j < i}
           V == {k \in DOMAIN m_queuedAddresses : m_queuedAddresses[k] = d}
<1>1. CASE ls[d] = "unknown"
  BY <1>1 DEF IsTaken
<1>2. CASE ls[d] = "known" /\ Cardinality(N) < Visits(d)
  <2>1. DOMAIN Swept = 1 .. Len(Swept) /\ Len(Swept) \in Nat
    BY SweptProperties, LenProperties
  <2>2. N \in SUBSET (1 .. Len(Swept))
    BY <2>1 DEF NoHeader, EntriesFor
  <2>3. IsFiniteSet(N) /\ Cardinality(N) \in Nat
    BY <2>1, <2>2, FiniteIndices
  <2>4. A \in SUBSET N
    OBVIOUS
  <2>5. Cardinality(A) <= Cardinality(N) /\ Cardinality(A) \in Nat
    <3> HIDE DEF N, A
    <3> QED
      BY <2>3, <2>4, FS_Subset, FS_CardinalityType
  <2>6. Visits(d) \in Nat
    <3>1. DOMAIN m_queuedAddresses = 1 .. Len(m_queuedAddresses)
          /\ Len(m_queuedAddresses) \in Nat
      BY LenProperties DEF IInv, TypeOK
    <3>2. V \in SUBSET (1 .. Len(m_queuedAddresses))
      BY <3>1
    <3>3. Cardinality(V) \in Nat
      <4> HIDE DEF V
      <4> QED
        BY <3>1, <3>2, FiniteIndices
    <3> QED
      BY <3>3 DEF Visits
  <2>7. Cardinality(A) < Visits(d)
    <3> HIDE DEF N, A
    <3> QED
      BY <1>2, <2>3, <2>5, <2>6
  <2> QED
    BY <1>2, <2>7 DEF IsTaken
<1> QED
  BY <1>1, <1>2 DEF IsDone

\* CheckQueue keeps every part of the invariant: what it leaves in the queue
\* is still on the list, and the timer runs again if the list is not empty.
LEMMA PollStep ==
  ASSUME IInv, NEW reachable, CheckQueue(reachable)
  PROVE  /\ m_queue' \in Seq(Entries)
         /\ m_queuedAddresses' \in Seq(Dsts)
         /\ CheckQueueTimer' \in 0 .. PollDelay \cup {Off}
         /\ fate' \in [Packets -> Fates]
         /\ NoStrandedPacket'
         /\ PolledBeforeTimeout'
         /\ PacketsIn(m_queue') = {r \in Packets : fate'[r] \in Waiting}
         /\ Distinct(m_queue')
         /\ \A r \in Packets : fate'[r] = "loopback" <=> fate[r] = "loopback"
<1> DEFINE K == {i \in DOMAIN Swept : ~IsTaken(i)}
<1>1. /\ Swept \in Seq(Entries)
      /\ Distinct(Swept)
      /\ PacketsIn(Swept) \subseteq PacketsIn(m_queue)
      /\ \A k \in DOMAIN Swept : \E i \in DOMAIN m_queue : Swept[k] = m_queue[i]
  BY SweptProperties
<1>2. m_queue' = Left /\ Left = Keep(Swept, K) /\ K \in SUBSET DOMAIN Swept
  BY DEF CheckQueue, Left
<1>3. /\ Left \in Seq(Entries)
      /\ \A k \in DOMAIN Left : \E i \in K : Left[k] = Swept[i]
  BY <1>1, <1>2, KeepProperties
<1>4. /\ Distinct(Left)
      /\ PacketsIn(Left) = {Swept[i].pkt : i \in K}
  BY <1>1, <1>2, KeepDistinct
<1>5. /\ m_queuedAddresses' \in Seq(Dsts)
      /\ Elements(m_queuedAddresses') =
           Elements(m_queuedAddresses) \ {d \in Dsts : IsDone(d)}
  BY WithoutProperties DEF CheckQueue, AddressesLeft, IInv, TypeOK
<1>6. PacketsIn(Left) \subseteq PacketsIn(m_queue)
  BY <1>1, <1>4 DEF PacketsIn
<1>7. PacketsIn(m_queue) = {r \in Packets : fate[r] \in Waiting}
  BY DEF IInv, EachPacketInOnePlace
<1>8. /\ fate' \in [Packets -> Fates]
      /\ \A r \in Packets :
           /\ r \notin PacketsIn(m_queue) => fate'[r] = fate[r]
           /\ r \in PacketsIn(Left) => fate'[r] = "polled"
           /\ r \in PacketsIn(m_queue) \ PacketsIn(Left) =>
                fate'[r] \in {"error", "forwarded", "lost"}
  <2>1. fate' = [p \in Packets |->
                   IF p \in PacketsIn(m_queue) THEN FateAfterPoll(p, reachable)
                   ELSE fate[p]]
    BY DEF CheckQueue
  <2>2. \A r \in Packets :
          /\ r \in PacketsIn(Left) => FateAfterPoll(r, reachable) = "polled"
          /\ r \notin PacketsIn(Left) =>
               FateAfterPoll(r, reachable) \in {"error", "forwarded", "lost"}
    BY DEF FateAfterPoll
  <2>3. \A r \in Packets : fate[r] \in Fates
    BY DEF IInv, TypeOK
  <2>4. {"polled", "error", "forwarded", "lost"} \subseteq Fates
    BY DEF Fates, Waiting, Final
  <2> QED
    BY <1>6, <2>1, <2>2, <2>3, <2>4
<1>9. EveryDestinationIsVisited'
  <2> SUFFICES ASSUME NEW k \in DOMAIN Left
               PROVE  Destination[Left[k].pkt] \in Elements(m_queuedAddresses')
    BY <1>2 DEF EveryDestinationIsVisited
  <2>1. PICK i \in K : Left[k] = Swept[i]
    BY <1>3
  <2> DEFINE d == Destination[Swept[i].pkt]
  <2>2. d \in Elements(m_queuedAddresses)
    BY <1>1 DEF IInv, NoStrandedPacket, EveryDestinationIsVisited
  <2>3. ~IsDone(d)
    BY <2>2, DoneLeavesNothing
  <2> QED
    BY <1>5, <2>1, <2>2, <2>3
<1>10. TimerRunsForTheList' /\ CheckQueueTimer' \in 0 .. PollDelay \cup {Off}
  BY Constants DEF CheckQueue, TimerRunsForTheList, Off
<1>11. PolledBeforeTimeout'
  <2> SUFFICES ASSUME NEW k \in DOMAIN Left PROVE fate'[Left[k].pkt] # "queued"
    BY <1>2 DEF PolledBeforeTimeout
  <2>1. Left[k].pkt \in PacketsIn(Left)
    BY DEF PacketsIn
  <2> QED
    BY <1>6, <1>7, <1>8, <2>1
<1>12. PacketsIn(Left) = {r \in Packets : fate'[r] \in Waiting}
  <2>1. \A r \in Packets : r \in PacketsIn(Left) <=> fate'[r] \in Waiting
    BY <1>6, <1>7, <1>8 DEF Waiting
  <2> QED
    BY <1>6, <1>7, <2>1
<1>13. \A r \in Packets : fate'[r] = "loopback" <=> fate[r] = "loopback"
  BY <1>6, <1>7, <1>8 DEF Waiting
<1>14. NoStrandedPacket'
  BY <1>9, <1>10 DEF NoStrandedPacket
<1> QED
  BY <1>2, <1>3, <1>4, <1>5, <1>8, <1>10, <1>11, <1>12, <1>13, <1>14

-----------------------------------------------------------------------------
\* Time passes: timer and expire times go down together.
LEMMA TickStep ==
  ASSUME IInv, Tick
  PROVE  /\ m_queue' \in Seq(Entries)
         /\ CheckQueueTimer' \in 0 .. PollDelay \cup {Off}
         /\ NoStrandedPacket'
         /\ PolledBeforeTimeout'
         /\ PacketsIn(m_queue') = PacketsIn(m_queue)
         /\ Distinct(m_queue')
<1>1. /\ m_queue \in Seq(Entries)
      /\ CheckQueueTimer \in 0 .. PollDelay \cup {Off}
      /\ Len(m_queue) \in Nat
      /\ DOMAIN m_queue = 1 .. Len(m_queue)
  BY LenProperties DEF IInv, TypeOK
<1>2. /\ m_queue' = [i \in DOMAIN m_queue |-> Age(m_queue[i])]
      /\ CheckQueueTimer' = IF CheckQueueTimer = Off THEN Off
                            ELSE CheckQueueTimer - 1
      /\ CheckQueueTimer # 0
      /\ UNCHANGED <<m_queuedAddresses, fate>>
  BY DEF Tick
<1>3. ASSUME NEW e \in Entries
      PROVE  /\ Age(e) \in Entries
             /\ Age(e).pkt = e.pkt
             /\ Age(e).expire >= e.expire - 1
             /\ e.expire \in Int
  BY Constants DEF Age, Entries, Floor
<1>4. \A i \in DOMAIN m_queue : m_queue[i] \in Entries
  BY <1>1, ElementOfSeq
<1>5. DOMAIN m_queue' = DOMAIN m_queue
      /\ \A i \in DOMAIN m_queue :
           /\ m_queue'[i] \in Entries
           /\ m_queue'[i].pkt = m_queue[i].pkt
           /\ m_queue'[i].expire >= m_queue[i].expire - 1
           /\ m_queue'[i].expire \in Int /\ m_queue[i].expire \in Int
  BY <1>2, <1>3, <1>4
<1>6. m_queue' \in Seq(Entries)
  <2>1. m_queue' \in [1 .. Len(m_queue) -> Entries]
    BY <1>1, <1>2, <1>3, <1>4
  <2> QED
    BY <1>1, <2>1, SeqDef
<1>7. PacketsIn(m_queue') = PacketsIn(m_queue) /\ Distinct(m_queue')
  BY <1>5 DEF PacketsIn, Distinct, IInv, EachPacketInOnePlace
<1>8. CheckQueueTimer' \in 0 .. PollDelay \cup {Off}
      /\ (CheckQueueTimer' = Off <=> CheckQueueTimer = Off)
  BY <1>1, <1>2, Constants DEF Off
<1>9. EveryDestinationIsVisited'
  BY <1>2, <1>5 DEF EveryDestinationIsVisited, IInv, NoStrandedPacket
<1>10. TimerRunsForTheList'
  BY <1>2, <1>8 DEF TimerRunsForTheList, IInv, NoStrandedPacket
<1>11. PolledBeforeTimeout'
  <2> SUFFICES ASSUME \A t \in Timeouts : t >= PollDelay,
                      NEW i \in DOMAIN m_queue,
                      fate[m_queue[i].pkt] = "queued"
               PROVE  CheckQueueTimer' # Off
                      /\ m_queue'[i].expire >= CheckQueueTimer'
    BY <1>2, <1>5 DEF PolledBeforeTimeout
  <2>1. CheckQueueTimer # Off /\ m_queue[i].expire >= CheckQueueTimer
    BY DEF IInv, PolledBeforeTimeout
  <2>2. CheckQueueTimer \in Int /\ CheckQueueTimer' = CheckQueueTimer - 1
    BY <1>1, <1>2, <2>1
  <2>3. m_queue'[i].expire >= CheckQueueTimer - 1
    BY <1>5, <2>1, <2>2
  <2> QED
    BY <1>8, <2>1, <2>2, <2>3
<1> QED
  BY <1>6, <1>7, <1>8, <1>9, <1>10, <1>11 DEF NoStrandedPacket

-----------------------------------------------------------------------------
\* The loopback device: a packet enters at the back and leaves at the front.
LEMMA LoopbackPush ==
  ASSUME NEW S, NEW s \in Seq(S), NEW p \in S, Once(s), p \notin Elements(s)
  PROVE  /\ Append(s, p) \in Seq(S)
         /\ Once(Append(s, p))
         /\ Elements(Append(s, p)) = Elements(s) \cup {p}
<1> DEFINE t == Append(s, p)
           n == Len(s)
<1>1. n \in Nat /\ DOMAIN s = 1 .. n
  BY LenProperties
<1>2. /\ t \in Seq(S)
      /\ Len(t) = n + 1
      /\ \A i \in 1 .. n : t[i] = s[i]
      /\ t[n + 1] = p
  BY AppendProperties
<1>3. DOMAIN t = 1 .. (n + 1)
  BY <1>2, LenProperties
<1> HIDE DEF t, n
<1>4. \A k \in DOMAIN t : \/ k = n + 1 /\ t[k] = p
                          \/ k \in DOMAIN s /\ t[k] = s[k]
  BY <1>1, <1>2, <1>3
<1>5. n + 1 \in DOMAIN t /\ \A i \in DOMAIN s : i \in DOMAIN t /\ t[i] = s[i]
  BY <1>1, <1>2, <1>3
<1>6. Elements(t) = Elements(s) \cup {p}
  BY <1>2, <1>4, <1>5 DEF Elements
<1>7. Once(t)
  BY <1>4 DEF Once, Elements
<1> QED
  BY <1>2, <1>6, <1>7 DEF t

\* RouteInput takes the first packet out of the loopback device.
LEMMA LoopbackPop ==
  ASSUME NEW S, NEW s \in Seq(S), s # <<>>, Once(s)
  PROVE  /\ Head(s) \in Elements(s) /\ Head(s) \in S
         /\ Tail(s) \in Seq(S)
         /\ Once(Tail(s))
         /\ Elements(Tail(s)) = Elements(s) \ {Head(s)}
<1> DEFINE t == Tail(s)
<1>1. Len(s) \in Nat \ {0} /\ DOMAIN s = 1 .. Len(s) /\ Head(s) = s[1]
  BY EmptySeq, LenProperties
<1>2. /\ t \in Seq(S)
      /\ Head(s) \in S
      /\ Len(t) = Len(s) - 1
      /\ DOMAIN t = 1 .. Len(t)
      /\ \A i \in 1 .. Len(t) : t[i] = s[i + 1]
  BY HeadTailProperties, LenProperties
<1> HIDE DEF t
<1>3. \A i \in DOMAIN t : i \in Int /\ i + 1 \in DOMAIN s /\ i + 1 # 1
                         /\ t[i] = s[i + 1]
  BY <1>1, <1>2
<1>4. \A i \in DOMAIN s : i # 1 => i - 1 \in DOMAIN t /\ t[i - 1] = s[i]
  BY <1>1, <1>2
<1>5. 1 \in DOMAIN s
  BY <1>1
<1>6. Once(t)
  <2> SUFFICES ASSUME NEW i \in DOMAIN t, NEW j \in DOMAIN t, t[i] = t[j]
               PROVE  i = j
    BY DEF Once
  <2>1. i + 1 = j + 1
    BY <1>3 DEF Once
  <2> QED
    BY <1>3, <2>1
<1>7. \A i \in DOMAIN t : t[i] \in Elements(s) \ {s[1]}
  BY <1>3, <1>5 DEF Once, Elements
<1>8. \A i \in DOMAIN s : s[i] # s[1] => s[i] \in Elements(t)
  BY <1>4 DEF Elements
<1>9. Elements(t) = Elements(s) \ {s[1]}
  BY <1>7, <1>8 DEF Elements
<1> QED
  BY <1>1, <1>2, <1>5, <1>6, <1>9 DEF t, Elements

-----------------------------------------------------------------------------
\* A step that leaves the queue, the list and the timer alone and changes
\* the history of no waiting packet.
LEMMA QueueUntouched ==
  ASSUME IInv,
         UNCHANGED <<m_queue, m_queuedAddresses, CheckQueueTimer>>,
         \A r \in Packets : fate'[r] # fate[r] =>
           fate[r] \notin Waiting /\ fate'[r] \notin Waiting
  PROVE  /\ NoStrandedPacket'
         /\ PolledBeforeTimeout'
         /\ PacketsIn(m_queue') = {r \in Packets : fate'[r] \in Waiting}
         /\ Distinct(m_queue')
<1>1. NoStrandedPacket'
  BY DEF IInv, NoStrandedPacket, EveryDestinationIsVisited,
         TimerRunsForTheList
<1>2. PacketsIn(m_queue) = {r \in Packets : fate[r] \in Waiting}
      /\ Distinct(m_queue)
  BY DEF IInv, EachPacketInOnePlace
<1>3. {r \in Packets : fate[r] \in Waiting} = {r \in Packets : fate'[r] \in Waiting}
  OBVIOUS
<1>4. PolledBeforeTimeout'
  <2> SUFFICES ASSUME \A t \in Timeouts : t >= PollDelay,
                      NEW i \in DOMAIN m_queue,
                      fate'[m_queue[i].pkt] = "queued"
               PROVE  CheckQueueTimer # Off
                      /\ m_queue[i].expire >= CheckQueueTimer
    BY DEF PolledBeforeTimeout
  <2>1. m_queue[i].pkt \in PacketsIn(m_queue)
    BY DEF PacketsIn
  <2>2. fate[m_queue[i].pkt] = "queued"
    BY <1>2, <2>1
  <2> QED
    BY <2>2 DEF IInv, PolledBeforeTimeout
<1> QED
  BY <1>1, <1>2, <1>3, <1>4

\* The first packet in the loopback device has the fate that says so.
LEMMA HeadInLoopback ==
  ASSUME IInv, m_lo # <<>>
  PROVE  Head(m_lo) \in Packets /\ fate[Head(m_lo)] = "loopback"
<1>1. /\ m_lo \in Seq(Packets) /\ Once(m_lo)
      /\ Elements(m_lo) = {p \in Packets : fate[p] = "loopback"}
  BY DEF IInv, TypeOK, EachPacketInOnePlace
<1> QED
  BY <1>1, LoopbackPop

\* RouteInput defers the packet, or it is gone.
LEMMA RouteInputKinds ==
  ASSUME NEW p, NEW sockets \in BOOLEAN, NEW deferred \in BOOLEAN,
         NEW nextHopFound \in BOOLEAN,
         RouteInput(p, sockets, deferred, nextHopFound)
  PROVE  \/ DeferredRouteOutput(p)
         \/ \E f \in {"forwarded", "lost"} : Gone(p, f)
BY DEF RouteInput, Forwarding

\* RouteInput keeps the parts of the invariant that it can disturb.
LEMMA RouteInputStep ==
  ASSUME IInv, NEW p \in Packets, fate[p] \in {"new", "loopback", "forwarded"},
         NEW sockets \in BOOLEAN, NEW deferred \in BOOLEAN,
         NEW nextHopFound \in BOOLEAN,
         RouteInput(p, sockets, deferred, nextHopFound)
  PROVE  /\ m_queue' \in Seq(Entries)
         /\ m_queuedAddresses' \in Seq(Dsts)
         /\ CheckQueueTimer' \in 0 .. PollDelay \cup {Off}
         /\ fate' \in [Packets -> Fates]
         /\ NoStrandedPacket'
         /\ PolledBeforeTimeout'
         /\ PacketsIn(m_queue') = {r \in Packets : fate'[r] \in Waiting}
         /\ Distinct(m_queue')
         /\ fate'[p] # "loopback"
         /\ \A r \in Packets \ {p} :
              fate'[r] = "loopback" <=> fate[r] = "loopback"
<1>1. fate[p] \notin Waiting /\ fate \in [Packets -> Fates]
  BY DEF Waiting, IInv, TypeOK
<1>2. CASE DeferredRouteOutput(p)
  BY <1>1, <1>2, DeferredStep
<1>3. ASSUME NEW f \in {"forwarded", "lost"}, Gone(p, f)
      PROVE  /\ fate' \in [Packets -> Fates]
             /\ fate'[p] = f
             /\ \A r \in Packets \ {p} : fate'[r] = fate[r]
             /\ UNCHANGED <<m_queue, m_queuedAddresses, CheckQueueTimer>>
  BY <1>1, <1>3 DEF Gone, Fates, Final
<1>4. ASSUME NEW f \in {"forwarded", "lost"}, Gone(p, f)
      PROVE  /\ NoStrandedPacket'
             /\ PolledBeforeTimeout'
             /\ PacketsIn(m_queue') = {r \in Packets : fate'[r] \in Waiting}
             /\ Distinct(m_queue')
  BY <1>1, <1>3, <1>4, QueueUntouched DEF Waiting
<1>5. CASE \E f \in {"forwarded", "lost"} : Gone(p, f)
  <2>1. PICK f \in {"forwarded", "lost"} : Gone(p, f)
    BY <1>5
  <2> QED
    BY <1>3, <1>4, <2>1 DEF IInv, TypeOK
<1> QED
  BY <1>2, <1>5, RouteInputKinds

\* Every event of the node keeps the invariant.
LEMMA NextIInv == IInv /\ [Next]_vars => IInv'
<1> SUFFICES ASSUME IInv, [Next]_vars PROVE IInv'
  OBVIOUS
<1> USE DEF IInv, TypeOK, EachPacketInOnePlace
<1>1. ASSUME NEW p \in Packets, NEW nextHopFound \in BOOLEAN,
             RouteOutput(p, nextHopFound)
      PROVE  IInv'
  <2>1. fate[p] = "new" /\ p \notin Elements(m_lo) /\ fate \in [Packets -> Fates]
    BY <1>1 DEF RouteOutput
  <2>2. ls' \in [Dsts -> LocationStates]
    BY <1>1, Constants DEF RouteOutput, AfterGetPosition, LocationStates
  <2>3. /\ UNCHANGED <<m_queue, m_maxLen, m_queueTimeout, m_queuedAddresses,
                        CheckQueueTimer>>
        /\ \/ m_lo' = m_lo /\ fate' = [fate EXCEPT ![p] = "forwarded"]
           \/ m_lo' = Append(m_lo, p) /\ fate' = [fate EXCEPT ![p] = "loopback"]
    BY <1>1 DEF RouteOutput
  <2>4. /\ fate' \in [Packets -> Fates]
        /\ \A r \in Packets \ {p} : fate'[r] = fate[r]
        /\ fate'[p] \in {"forwarded", "loopback"}
        /\ (fate'[p] = "loopback" <=> m_lo' = Append(m_lo, p))
    <3>1. m_lo # Append(m_lo, p)
      <4>1. p \in Elements(Append(m_lo, p))
        BY LoopbackPush, <2>1
      <4> QED
        BY <2>1, <4>1
    <3> QED
      BY <2>1, <2>3, <3>1 DEF Fates
  <2>5. /\ NoStrandedPacket'
        /\ PolledBeforeTimeout'
        /\ PacketsIn(m_queue') = {r \in Packets : fate'[r] \in Waiting}
        /\ Distinct(m_queue')
    BY <2>1, <2>3, <2>4, QueueUntouched DEF Waiting
  <2>6. /\ m_lo' \in Seq(Packets)
        /\ Once(m_lo')
        /\ Elements(m_lo') = {r \in Packets : fate'[r] = "loopback"}
    <3>1. CASE m_lo' = m_lo /\ fate'[p] = "forwarded"
      BY <2>1, <2>4, <3>1
    <3>2. CASE m_lo' = Append(m_lo, p) /\ fate'[p] = "loopback"
      BY <2>1, <2>4, <3>2, LoopbackPush
    <3> QED
      BY <2>3, <2>4, <3>1, <3>2
  <2> QED
    BY <2>2, <2>3, <2>4, <2>5, <2>6
<1>2. ASSUME NEW p \in Packets, NEW sockets \in BOOLEAN,
             NEW nextHopFound \in BOOLEAN,
             FromNeighbour(p, sockets, nextHopFound)
      PROVE  IInv'
  <2>1. /\ fate[p] \in {"new", "loopback", "forwarded"}
        /\ fate[p] # "loopback"
        /\ RouteInput(p, sockets, FALSE, nextHopFound)
        /\ UNCHANGED <<m_maxLen, m_queueTimeout, m_lo, ls>>
    BY <1>2 DEF FromNeighbour
  <2>2. {r \in Packets : fate'[r] = "loopback"} =
          {r \in Packets : fate[r] = "loopback"}
    BY <2>1, RouteInputStep
  <2> QED
    BY <2>1, <2>2, RouteInputStep
<1>3. ASSUME NEW sockets \in BOOLEAN, NEW own \in BOOLEAN,
             NEW nextHopFound \in BOOLEAN,
             FromLoopback(sockets, own, nextHopFound)
      PROVE  IInv'
  <2> DEFINE p == Head(m_lo)
  <2>1. /\ m_lo # <<>> /\ m_lo' = Tail(m_lo)
        /\ RouteInput(p, sockets, own, nextHopFound)
        /\ UNCHANGED <<m_maxLen, m_queueTimeout, ls>>
    BY <1>3 DEF FromLoopback
  <2>2. /\ p \in Elements(m_lo) /\ p \in Packets
        /\ m_lo' \in Seq(Packets)
        /\ Once(m_lo')
        /\ Elements(m_lo') = Elements(m_lo) \ {p}
    BY <2>1, LoopbackPop
  <2> HIDE DEF p
  <2>3. fate[p] = "loopback"
    BY <2>2
  <2>4. Elements(m_lo') = {r \in Packets : fate'[r] = "loopback"}
    BY <2>1, <2>2, <2>3, RouteInputStep
  <2> QED
    BY <2>1, <2>2, <2>3, <2>4, RouteInputStep
<1>4. ASSUME NEW reachable \in SUBSET Dsts, CheckQueue(reachable)
      PROVE  IInv'
  <2>1. UNCHANGED <<m_maxLen, m_queueTimeout, m_lo, ls>>
    BY <1>4 DEF CheckQueue
  <2>2. {r \in Packets : fate'[r] = "loopback"} =
          {r \in Packets : fate[r] = "loopback"}
    BY <1>4, PollStep
  <2> QED
    BY <1>4, <2>1, <2>2, PollStep
<1>5. ASSUME UNCHANGED <<m_queue, m_queuedAddresses, CheckQueueTimer, m_lo, fate>>,
             m_maxLen' \in MaxLens, m_queueTimeout' \in Timeouts,
             ls' \in [Dsts -> LocationStates]
      PROVE  IInv'
  <2>1. NoStrandedPacket' /\ PolledBeforeTimeout'
    BY <1>5, QueueUntouched
  <2> QED
    BY <1>5, <2>1
<1>6. ASSUME NEW d \in Dsts, LsAnswer(d) PROVE IInv'
  <2>1. ls' \in [Dsts -> LocationStates]
    BY <1>6 DEF LsAnswer, LocationStates
  <2> QED
    BY <1>5, <1>6, <2>1 DEF LsAnswer
<1>7. ASSUME NEW d \in Dsts, LsForget(d) PROVE IInv'
  <2>1. ls' \in [Dsts -> LocationStates]
    BY <1>7 DEF LsForget, LocationStates
  <2> QED
    BY <1>5, <1>7, <2>1 DEF LsForget
<1>8. ASSUME NEW len \in MaxLens, SetMaxQueueLen(len) PROVE IInv'
  BY <1>5, <1>8 DEF SetMaxQueueLen
<1>9. ASSUME NEW t \in Timeouts, SetMaxQueueTime(t) PROVE IInv'
  BY <1>5, <1>9 DEF SetMaxQueueTime
<1>10. ASSUME Tick PROVE IInv'
  <2>1. UNCHANGED <<m_maxLen, m_queueTimeout, m_queuedAddresses, m_lo, ls, fate>>
    BY <1>10 DEF Tick
  <2> QED
    BY <1>10, <2>1, TickStep
<1>11. ASSUME UNCHANGED vars PROVE IInv'
  BY <1>5, <1>11 DEF vars
<1> QED
  BY <1>1, <1>2, <1>3, <1>4, <1>6, <1>7, <1>8, <1>9, <1>10, <1>11 DEF Next

\* The four invariants hold in every reachable state.
THEOREM Invariance == Spec => []IInv
BY InitIInv, NextIInv, PTL DEF Spec

\* Every variable keeps its type.
THEOREM TypeCorrect == Spec => []TypeOK
<1>1. IInv => TypeOK
  BY DEF IInv
<1> QED
  BY Invariance, <1>1, PTL

\* No packet is ever left in the queue without a poll that will look at it:
\* the destination of each is on the list, and the timer runs for the list.
THEOREM NeverStranded == Spec => []NoStrandedPacket
<1>1. IInv => NoStrandedPacket
  BY DEF IInv
<1> QED
  BY Invariance, <1>1, PTL

\* If no timeout is shorter than the poll delay, every packet is tried by
\* CheckQueue before it can expire.
THEOREM AlwaysPolledBeforeTimeout == Spec => []PolledBeforeTimeout
<1>1. IInv => PolledBeforeTimeout
  BY DEF IInv
<1> QED
  BY Invariance, <1>1, PTL

\* No packet is copied or forgotten: the queue and the loopback device hold
\* exactly the packets that have not been sent, dropped or refused, once.
THEOREM PacketsAreConserved == Spec => []EachPacketInOnePlace
<1>1. IInv => EachPacketInOnePlace
  BY DEF IInv
<1> QED
  BY Invariance, <1>1, PTL

-----------------------------------------------------------------------------
\* No two of the packets are the same entry for Enqueue.
Unmixed(P) == \A p, r \in P : SameEntry(p, r) => p = r

\* A packet that enters the queue is another entry than those that stay.
LEMMA DeferredUnmixed ==
  ASSUME IInv, NEW p \in Packets, fate[p] \notin Waiting,
         DeferredRouteOutput(p), Unmixed(PacketsIn(m_queue))
  PROVE  Unmixed(PacketsIn(m_queue'))
<1> DEFINE live == Purge(m_queue)
           e == [pkt |-> p, expire |-> m_queueTimeout]
<1>1. /\ m_queue \in Seq(Entries) /\ m_maxLen \in Nat \ {0}
      /\ e \in Entries
      /\ Distinct(m_queue) /\ p \notin PacketsIn(m_queue)
  BY Constants DEF IInv, TypeOK, EachPacketInOnePlace
<1>2. m_queue' = Enqueue(m_queue, p, m_maxLen, m_queueTimeout)
  BY DEF DeferredRouteOutput
<1>3. EnqueuePost(Entries, m_queue, p, m_maxLen, m_queueTimeout)
  BY <1>1, EnqueueProperties
<1>4. PacketsIn(m_queue') = (PacketsIn(m_queue) \ EnqueueDrops(m_queue, p, m_maxLen))
                              \cup (IF IsQueued(live, p) THEN {} ELSE {p})
  BY <1>1, <1>2, <1>3 DEF EnqueuePost
<1>5. PacketsIn(live) = PacketsIn(m_queue) \ PurgeDrops(m_queue)
  BY <1>1, PurgeProperties
<1>6. PacketsIn(m_queue) \ EnqueueDrops(m_queue, p, m_maxLen) \subseteq PacketsIn(live)
  BY <1>5 DEF EnqueueDrops
<1>7. ~IsQueued(live, p) => \A r \in PacketsIn(live) : ~SameEntry(r, p)
  BY DEF IsQueued, PacketsIn
<1>8. \A r \in PacketsIn(live) : SameEntry(p, r) => SameEntry(r, p)
  BY DEF SameEntry
<1>9. PacketsIn(live) \subseteq PacketsIn(m_queue)
  BY <1>5
<1> HIDE DEF live
<1>10. CASE IsQueued(live, p)
  BY <1>4, <1>10 DEF Unmixed
<1>11. CASE ~IsQueued(live, p)
  BY <1>4, <1>6, <1>7, <1>8, <1>9, <1>11 DEF Unmixed
<1> QED
  BY <1>10, <1>11

\* No step puts two packets that are the same entry into the queue.
LEMMA StaysUnmixed ==
  IInv /\ Unmixed(PacketsIn(m_queue)) /\ [Next]_vars =>
    Unmixed(PacketsIn(m_queue))'
<1> SUFFICES ASSUME IInv, Unmixed(PacketsIn(m_queue)), [Next]_vars
             PROVE  Unmixed(PacketsIn(m_queue'))
  BY DEF PacketsIn, Unmixed
<1>1. ASSUME PacketsIn(m_queue') \subseteq PacketsIn(m_queue)
      PROVE  Unmixed(PacketsIn(m_queue'))
  BY <1>1 DEF Unmixed
<1>11. ASSUME NEW p \in Packets, fate[p] \in {"new", "loopback", "forwarded"},
              NEW sockets \in BOOLEAN, NEW deferred \in BOOLEAN,
              NEW nextHopFound \in BOOLEAN,
              RouteInput(p, sockets, deferred, nextHopFound)
       PROVE  Unmixed(PacketsIn(m_queue'))
  <2>1. CASE DeferredRouteOutput(p)
    <3>1. fate[p] \notin Waiting
      BY <1>11 DEF Waiting
    <3> QED
      BY <2>1, <3>1, DeferredUnmixed
  <2>2. CASE m_queue' = m_queue
    BY <2>2
  <2> QED
    BY <1>11, <2>1, <2>2, RouteInputKinds DEF Gone
<1>2. ASSUME NEW p \in Packets, NEW sockets \in BOOLEAN,
             NEW nextHopFound \in BOOLEAN,
             FromNeighbour(p, sockets, nextHopFound)
      PROVE  Unmixed(PacketsIn(m_queue'))
  BY <1>2, <1>11 DEF FromNeighbour
<1>3. ASSUME NEW sockets \in BOOLEAN, NEW own \in BOOLEAN,
             NEW nextHopFound \in BOOLEAN,
             FromLoopback(sockets, own, nextHopFound)
      PROVE  Unmixed(PacketsIn(m_queue'))
  <2>1. m_lo # <<>> /\ RouteInput(Head(m_lo), sockets, own, nextHopFound)
    BY <1>3 DEF FromLoopback
  <2>2. Head(m_lo) \in Packets /\ fate[Head(m_lo)] = "loopback"
    BY <2>1, HeadInLoopback
  <2> QED
    BY <2>1, <2>2, <1>11
<1>4. ASSUME NEW reachable \in SUBSET Dsts, CheckQueue(reachable)
      PROVE  Unmixed(PacketsIn(m_queue'))
  <2> DEFINE K == {i \in DOMAIN Swept : ~IsTaken(i)}
  <2>1. m_queue' = Left /\ Left = Keep(Swept, K) /\ K \in SUBSET DOMAIN Swept
    BY <1>4 DEF CheckQueue, Left
  <2>2. PacketsIn(Left) = {Swept[i].pkt : i \in K}
    BY <2>1, SweptProperties, KeepDistinct
  <2>3. PacketsIn(Left) \subseteq PacketsIn(Swept)
    BY <2>2 DEF PacketsIn
  <2> QED
    BY <1>1, <2>1, <2>3, SweptProperties
<1>5. CASE Tick
  BY <1>1, <1>5, TickStep
<1>6. CASE m_queue' = m_queue
  BY <1>6
<1>7. ASSUME NEW p \in Packets, NEW nextHopFound \in BOOLEAN,
             RouteOutput(p, nextHopFound)
      PROVE  m_queue' = m_queue
  BY <1>7 DEF RouteOutput
<1>8. ASSUME NEW d \in Dsts, LsAnswer(d) \/ LsForget(d)
      PROVE  m_queue' = m_queue
  BY <1>8 DEF LsAnswer, LsForget
<1>9. ASSUME NEW k, SetMaxQueueLen(k) \/ SetMaxQueueTime(k)
      PROVE  m_queue' = m_queue
  BY <1>9 DEF SetMaxQueueLen, SetMaxQueueTime
<1>10. CASE UNCHANGED vars
  BY <1>10 DEF vars
<1> QED
  BY <1>2, <1>3, <1>4, <1>5, <1>6, <1>7, <1>8, <1>9, <1>10 DEF Next

\* The queue never holds two packets with one uid for one destination.
THEOREM NeverDuplicated == Spec => []NoDuplicateEntries
<1>1. Init => Unmixed(PacketsIn(m_queue))
  BY DEF Init, PacketsIn, Unmixed
<1>2. ASSUME IInv, Unmixed(PacketsIn(m_queue))
      PROVE  NoDuplicateEntries
  <2>1. Distinct(m_queue)
    BY <1>2 DEF IInv, EachPacketInOnePlace
  <2>2. \A i \in DOMAIN m_queue : m_queue[i].pkt \in PacketsIn(m_queue)
    BY DEF PacketsIn
  <2> QED
    BY <1>2, <2>1, <2>2
    DEF NoDuplicateEntries, Unmixed, Distinct, SameEntry
<1> QED
  BY Invariance, StaysUnmixed, <1>1, <1>2, PTL DEF Spec

-----------------------------------------------------------------------------
(***************************************************************************)
(* The refinement.  First, what the operations do to the order of arrival. *)
(***************************************************************************)
BeforeAmong(q, P) == {e \in Before(q) : e[1] \in P /\ e[2] \in P}

\* A part of a queue, in the order of the queue, keeps the order of what it
\* keeps.
LEMMA SubsequenceBefore ==
  ASSUME NEW S, NEW q \in Seq(S), NEW t \in Seq(S), Distinct(q),
         NEW f \in [DOMAIN t -> DOMAIN q],
         \A k \in DOMAIN t : t[k] = q[f[k]],
         \A k, l \in DOMAIN t : k < l => f[k] < f[l]
  PROVE  Before(t) = BeforeAmong(q, PacketsIn(t))
<1>1. /\ DOMAIN q \subseteq Int /\ DOMAIN t \subseteq Int
      /\ \A k \in DOMAIN t : f[k] \in DOMAIN q
  BY LenProperties
<1>2. PacketsIn(t) \subseteq PacketsIn(q)
  BY <1>1 DEF PacketsIn
<1>3. ASSUME NEW e \in Before(t)
      PROVE  e \in BeforeAmong(q, PacketsIn(t))
  <2>1. PICK k \in DOMAIN t, l \in DOMAIN t :
               k < l /\ t[k].pkt = e[1] /\ t[l].pkt = e[2]
    BY DEF Before
  <2>2. f[k] < f[l] /\ q[f[k]].pkt = e[1] /\ q[f[l]].pkt = e[2]
    BY <2>1
  <2>3. e \in PacketsIn(t) \X PacketsIn(t)
    BY DEF Before
  <2> QED
    BY <1>1, <1>2, <2>2, <2>3 DEF Before, BeforeAmong
<1>4. ASSUME NEW e \in BeforeAmong(q, PacketsIn(t))
      PROVE  e \in Before(t)
  <2>1. PICK i \in DOMAIN q, j \in DOMAIN q :
               i < j /\ q[i].pkt = e[1] /\ q[j].pkt = e[2]
    BY DEF Before, BeforeAmong
  <2>2. e[1] \in PacketsIn(t) /\ e[2] \in PacketsIn(t)
    BY DEF BeforeAmong
  <2>3. PICK k \in DOMAIN t : t[k].pkt = e[1]
    BY <2>2 DEF PacketsIn
  <2>4. PICK l \in DOMAIN t : t[l].pkt = e[2]
    BY <2>2 DEF PacketsIn
  <2>5. f[k] = i /\ f[l] = j
    BY <1>1, <2>1, <2>3, <2>4 DEF Distinct
  <2>6. k < l
    BY <1>1, <2>1, <2>5
  <2>7. e \in PacketsIn(t) \X PacketsIn(t)
    BY <2>2 DEF Before, BeforeAmong
  <2> QED
    BY <2>3, <2>4, <2>6, <2>7 DEF Before
<1> QED
  BY <1>3, <1>4

\* There are n numbers from 1 to n.
LEMMA IndicesCount ==
  ASSUME NEW n \in Nat
  PROVE  IsFiniteSet(1 .. n) /\ Cardinality(1 .. n) = n
<1>1. 1 \in Int /\ n \in Int
  OBVIOUS
<1>2. IsFiniteSet(1 .. n)
      /\ Cardinality(1 .. n) = (IF 1 > n THEN 0 ELSE n - 1 + 1)
  BY <1>1, FS_Interval
<1> QED
  BY <1>2

\* A queue has no more packets than entries.
LEMMA PacketsCount ==
  ASSUME NEW S, NEW q \in Seq(S)
  PROVE  /\ IsFiniteSet(PacketsIn(q))
         /\ Cardinality(PacketsIn(q)) \in Nat
         /\ Cardinality(PacketsIn(q)) <= Len(q)
<1> DEFINE f == [i \in DOMAIN q |-> q[i].pkt]
<1>1. Len(q) \in Nat /\ DOMAIN q = 1 .. Len(q)
  BY LenProperties
<1>2. IsFiniteSet(DOMAIN q) /\ Cardinality(DOMAIN q) = Len(q)
  BY <1>1, IndicesCount
<1>3. f \in Surjection(DOMAIN q, PacketsIn(q))
  BY DEF PacketsIn, Surjection
<1>4. IsFiniteSet(PacketsIn(q)) /\ Cardinality(PacketsIn(q)) <= Cardinality(DOMAIN q)
  BY <1>2, <1>3, FS_Surjection
<1> QED
  BY <1>2, <1>4, FS_CardinalityType

\* Erasing entries keeps the order of the others and adds none.
LEMMA KeepBefore ==
  ASSUME NEW S, NEW q \in Seq(S), NEW I \in SUBSET DOMAIN q, Distinct(q)
  PROVE  /\ Before(Keep(q, I)) = BeforeAmong(q, PacketsIn(Keep(q, I)))
         /\ Len(Keep(q, I)) <= Len(q)
<1> DEFINE t == Keep(q, I)
           f == [k \in DOMAIN t |-> Position(I, k)]
<1>1. /\ t \in Seq(S)
      /\ DOMAIN t = 1 .. Cardinality(I)
      /\ \A k \in DOMAIN t : Position(I, k) \in I /\ t[k] = q[Position(I, k)]
      /\ \A k, l \in DOMAIN t : k < l => Position(I, k) < Position(I, l)
  BY KeepProperties
<1>2. Before(t) = BeforeAmong(q, PacketsIn(t))
  <2>1. /\ f \in [DOMAIN t -> DOMAIN q]
        /\ \A k \in DOMAIN t : t[k] = q[f[k]]
        /\ \A k, l \in DOMAIN t : k < l => f[k] < f[l]
    <3> HIDE DEF t
    <3> QED
      BY <1>1
  <2> HIDE DEF t, f
  <2> QED
    BY <1>1, <2>1, SubsequenceBefore
<1>3. Len(t) <= Len(q)
  <2>1. Len(q) \in Nat /\ DOMAIN q = 1 .. Len(q) /\ Len(t) \in Nat
        /\ DOMAIN t = 1 .. Len(t)
    BY <1>1, LenProperties
  <2>2. IsFiniteSet(DOMAIN q) /\ Cardinality(DOMAIN q) = Len(q)
    BY <2>1, IndicesCount
  <2>3. Cardinality(I) \in Nat /\ Cardinality(I) <= Len(q)
    BY <2>2, FS_Subset, FS_CardinalityType
  <2>4. Len(t) = Cardinality(I)
    <3> HIDE DEF t
    <3> QED
      BY <1>1, <2>1, <2>3
  <2> QED
    BY <2>3, <2>4
<1> QED
  BY <1>2, <1>3

\* The oldest entry of a full queue makes room without disturbing the order.
LEMMA MakeRoomBefore ==
  ASSUME NEW S, NEW q \in Seq(S), NEW maxLen \in Nat \ {0}, Distinct(q),
         Len(q) <= maxLen
  PROVE  /\ Before(MakeRoom(q, maxLen))
              = BeforeAmong(q, PacketsIn(MakeRoom(q, maxLen)))
         /\ Len(MakeRoom(q, maxLen)) < maxLen
<1>1. Len(q) \in Nat /\ DOMAIN q = 1 .. Len(q)
  BY LenProperties
<1>2. CASE ~IsFull(q, maxLen)
  <2>1. Before(q) = BeforeAmong(q, PacketsIn(q))
    BY DEF Before, BeforeAmong
  <2>2. MakeRoom(q, maxLen) = q
    BY <1>2 DEF MakeRoom
  <2>3. Len(q) < maxLen
    <3>1. Len(q) # maxLen /\ maxLen \in Nat
      BY <1>2 DEF IsFull
    <3>2. \A m, n \in Nat : m <= n /\ m # n => m < n
      OBVIOUS
    <3> QED
      BY <1>1, <3>1, <3>2, Zenon
  <2> QED
    BY <2>1, <2>2, <2>3
<1>3. CASE IsFull(q, maxLen)
  <2> DEFINE t == Tail(q)
             f == [k \in DOMAIN t |-> k + 1]
  <2>1. q # <<>>
    BY <1>1, <1>3, EmptySeq DEF IsFull
  <2>2. t \in Seq(S) /\ Len(t) = Len(q) - 1
        /\ DOMAIN t = 1 .. Len(t)
        /\ \A k \in 1 .. Len(t) : t[k] = q[k+1]
    BY <2>1, HeadTailProperties, LenProperties
  <2>3. /\ f \in [DOMAIN t -> DOMAIN q]
        /\ \A k \in DOMAIN t : t[k] = q[f[k]]
        /\ \A k, l \in DOMAIN t : k < l => f[k] < f[l]
    <3> HIDE DEF t
    <3> QED
      BY <1>1, <2>2
  <2>4. Before(t) = BeforeAmong(q, PacketsIn(t))
    <3> HIDE DEF t, f
    <3> QED
      BY <2>2, <2>3, SubsequenceBefore
  <2> QED
    BY <1>1, <1>3, <2>2, <2>4 DEF MakeRoom, IsFull
<1> QED
  BY <1>2, <1>3

\* A new entry comes after all others.
LEMMA AppendBefore ==
  ASSUME NEW S, NEW q \in Seq(S), NEW e \in S
  PROVE  /\ Before(Append(q, e)) = Before(q) \cup (PacketsIn(q) \X {e.pkt})
         /\ Len(Append(q, e)) = Len(q) + 1
<1> DEFINE t == Append(q, e)
           n == Len(q)
<1>1. n \in Nat /\ DOMAIN q = 1 .. n
  BY LenProperties
<1>2. /\ t \in Seq(S)
      /\ Len(t) = n + 1
      /\ \A i \in 1 .. n : t[i] = q[i]
      /\ t[n + 1] = e
  BY AppendProperties
<1>3. DOMAIN t = 1 .. (n + 1)
  BY <1>2, LenProperties
<1>4. PacketsIn(t) = PacketsIn(q) \cup {e.pkt}
  BY AppendPackets
<1> HIDE DEF t, n
<1>5. ASSUME NEW c \in Before(t)
      PROVE  c \in Before(q) \cup (PacketsIn(q) \X {e.pkt})
  <2>1. PICK i \in DOMAIN t, j \in DOMAIN t :
               i < j /\ t[i].pkt = c[1] /\ t[j].pkt = c[2]
    BY DEF Before
  <2>2. i \in DOMAIN q /\ t[i] = q[i] /\ c = <<c[1], c[2]>>
    BY <1>1, <1>2, <1>3, <2>1 DEF Before
  <2>3. CASE j = n + 1
    BY <1>2, <2>1, <2>2, <2>3 DEF PacketsIn
  <2>4. CASE j # n + 1
    <3>1. j \in DOMAIN q /\ t[j] = q[j]
      BY <1>1, <1>2, <1>3, <2>4
    <3> QED
      BY <2>1, <2>2, <3>1 DEF Before, PacketsIn
  <2> QED
    BY <2>3, <2>4
<1>6. ASSUME NEW c \in Before(q)
      PROVE  c \in Before(t)
  <2>1. PICK i \in DOMAIN q, j \in DOMAIN q :
               i < j /\ q[i].pkt = c[1] /\ q[j].pkt = c[2]
    BY DEF Before
  <2>2. /\ i \in DOMAIN t /\ j \in DOMAIN t /\ t[i] = q[i] /\ t[j] = q[j]
        /\ c \in PacketsIn(t) \X PacketsIn(t)
    BY <1>1, <1>2, <1>3, <1>4 DEF Before
  <2> QED
    BY <2>1, <2>2 DEF Before
<1>7. ASSUME NEW r \in PacketsIn(q)
      PROVE  <<r, e.pkt>> \in Before(t)
  <2>1. PICK i \in DOMAIN q : q[i].pkt = r
    BY DEF PacketsIn
  <2>2. /\ i \in DOMAIN t /\ n + 1 \in DOMAIN t /\ i < n + 1
        /\ t[i].pkt = r /\ t[n + 1].pkt = e.pkt
    BY <1>1, <1>2, <1>3, <2>1
  <2> QED
    BY <1>4, <2>2 DEF Before
<1> QED
  BY <1>2, <1>5, <1>6, <1>7 DEF t, n

\* A queue without repetitions has as many packets as entries.
LEMMA DistinctCount ==
  ASSUME NEW S, NEW q \in Seq(S), Distinct(q)
  PROVE  Cardinality(PacketsIn(q)) = Len(q)
<1> DEFINE f == [i \in DOMAIN q |-> q[i].pkt]
<1>1. Len(q) \in Nat /\ DOMAIN q = 1 .. Len(q)
  BY LenProperties
<1>2. IsFiniteSet(DOMAIN q) /\ Cardinality(DOMAIN q) = Len(q)
  BY <1>1, IndicesCount
<1>3. f \in Surjection(DOMAIN q, PacketsIn(q))
  BY DEF PacketsIn, Surjection
<1>4. f \in Injection(DOMAIN q, PacketsIn(q))
  <2>1. f \in [DOMAIN q -> PacketsIn(q)]
    BY DEF PacketsIn
  <2>2. \A i, j \in DOMAIN q : f[i] = f[j] => i = j
    BY DEF Distinct
  <2> QED
    BY <2>1, <2>2, Fun_IsInj
<1> HIDE DEF f
<1> QED
  BY <1>2, <1>3, <1>4, FS_Surjection

\* The packets of P that came before all others of P.
OldestOf(q, P) == {p \in P : \A r \in P \ {p} : <<p, r>> \in Before(q)}

\* The oldest packet of a queue is that of its first entry.
LEMMA OldestIsFirst ==
  ASSUME NEW S, NEW q \in Seq(S), Distinct(q), q # <<>>
  PROVE  OldestOf(q, PacketsIn(q)) = {q[1].pkt}
<1>1. Len(q) \in Nat /\ DOMAIN q = 1 .. Len(q) /\ 1 \in DOMAIN q
  BY LenProperties, EmptySeq
<1>2. ASSUME NEW r \in PacketsIn(q), r # q[1].pkt
      PROVE  <<q[1].pkt, r>> \in Before(q) /\ <<r, q[1].pkt>> \notin Before(q)
  <2>1. PICK i \in DOMAIN q : q[i].pkt = r
    BY DEF PacketsIn
  <2>2. 1 < i
    BY <1>1, <1>2, <2>1
  <2>3. <<q[1].pkt, r>> \in Before(q)
    BY <1>1, <2>1, <2>2 DEF Before, PacketsIn
  <2>4. ASSUME <<r, q[1].pkt>> \in Before(q) PROVE FALSE
    <3>1. PICK j \in DOMAIN q, k \in DOMAIN q : j < k /\ q[k].pkt = q[1].pkt
      BY <2>4 DEF Before
    <3>2. k = 1
      BY <1>1, <3>1 DEF Distinct
    <3> QED
      BY <1>1, <3>1, <3>2
  <2> QED
    BY <2>3, <2>4
<1>3. q[1].pkt \in PacketsIn(q)
  BY <1>1 DEF PacketsIn
<1> QED
  BY <1>2, <1>3 DEF OldestOf

\* Purge leaves nothing that is expired.
LEMMA PurgeLeavesLive ==
  ASSUME NEW S, NEW q \in Seq(S)
  PROVE  \A k \in DOMAIN Purge(q) : ~IsExpired(Purge(q)[k])
<1>1. Live(q) \in SUBSET DOMAIN q
  BY DEF Live
<1>2. \A k \in DOMAIN Purge(q) : \E i \in Live(q) : Purge(q)[k] = q[i]
  BY <1>1, KeepProperties DEF Purge
<1> QED
  BY <1>2 DEF Live

\* What Enqueue does to the order and the length.  What is handed to an error
\* callback is expired, or the oldest entry of a queue that is still full.
EnqueueOrder(q, p, maxLen, t) ==
  LET fresh == PacketsIn(q) \ PurgeDrops(q)
      crowded == IF Cardinality(fresh) = maxLen THEN OldestOf(q, fresh) ELSE {}
      staying == fresh \ crowded
  IN  /\ Len(t) <= maxLen
      /\ IsQueued(Purge(q), p) =>
           /\ EnqueueDrops(q, p, maxLen) = PurgeDrops(q)
           /\ Before(t) = BeforeAmong(q, fresh)
           /\ \E r \in fresh : SameEntry(r, p)
      /\ ~IsQueued(Purge(q), p) =>
           /\ EnqueueDrops(q, p, maxLen) = PurgeDrops(q) \cup crowded
           /\ Before(t) = BeforeAmong(q, staying) \cup (staying \X {p})
           /\ \A r \in fresh : ~SameEntry(r, p)
           /\ Cardinality(staying) < maxLen

\* EnqueueOrder holds for every queue that is not longer than its limit.
LEMMA EnqueueBefore ==
  ASSUME NEW S, NEW q \in Seq(S), NEW p, NEW maxLen \in Nat \ {0},
         NEW timeout, [pkt |-> p, expire |-> timeout] \in S,
         Distinct(q), p \notin PacketsIn(q), Len(q) <= maxLen
  PROVE  EnqueueOrder(q, p, maxLen, Enqueue(q, p, maxLen, timeout))
<1> DEFINE live == Purge(q)
           room == MakeRoom(live, maxLen)
           e == [pkt |-> p, expire |-> timeout]
           t == Enqueue(q, p, maxLen, timeout)
           fresh == PacketsIn(q) \ PurgeDrops(q)
           crowded == IF Cardinality(fresh) = maxLen THEN OldestOf(q, fresh) ELSE {}
           staying == fresh \ crowded
<1>1. /\ live \in Seq(S)
      /\ Distinct(live)
      /\ PacketsIn(live) = PacketsIn(q) \ PurgeDrops(q)
  BY PurgeProperties
<1>2. Before(live) = BeforeAmong(q, PacketsIn(live)) /\ Len(live) <= Len(q)
  <2>1. Live(q) \in SUBSET DOMAIN q
    BY DEF Live
  <2> QED
    BY <2>1, KeepBefore DEF Purge
<1>3. Len(q) \in Nat /\ Len(live) \in Nat
  BY <1>1, LenProperties
<1>4. Len(live) <= maxLen
  BY <1>2, <1>3
<1>5. CASE IsQueued(live, p)
  <2>1. t = live /\ EnqueueDrops(q, p, maxLen) = PurgeDrops(q)
    BY <1>5 DEF Enqueue, EnqueueDrops
  <2>2. \E r \in fresh : SameEntry(r, p)
    BY <1>1, <1>5 DEF IsQueued, PacketsIn
  <2> QED
    BY <1>1, <1>2, <1>4, <1>5, <2>1, <2>2 DEF EnqueueOrder
<1>6. CASE ~IsQueued(live, p)
  <2>1. /\ room \in Seq(S)
        /\ PacketsIn(room) = PacketsIn(live) \
             (IF IsFull(live, maxLen) THEN {live[1].pkt} ELSE {})
    BY <1>1, MakeRoomProperties
  <2>8. crowded = IF IsFull(live, maxLen) THEN {live[1].pkt} ELSE {}
    <3>1. Cardinality(fresh) = Len(live)
      BY <1>1, DistinctCount
    <3>2. IsFull(live, maxLen) <=> Cardinality(fresh) = maxLen
      BY <3>1 DEF IsFull
    <3>3. ASSUME IsFull(live, maxLen) PROVE OldestOf(q, fresh) = {live[1].pkt}
      <4>1. live # <<>>
        BY <1>3, <3>3, EmptySeq DEF IsFull
      <4>2. OldestOf(live, fresh) = {live[1].pkt}
        BY <1>1, <4>1, OldestIsFirst
      <4>3. OldestOf(live, fresh) = OldestOf(q, fresh)
        <5> HIDE DEF live, fresh
        <5> QED
          BY <1>1, <1>2 DEF OldestOf, BeforeAmong, fresh
      <4> QED
        BY <4>2, <4>3
    <3> QED
      BY <3>2, <3>3
  <2>9. EnqueueDrops(q, p, maxLen) = PurgeDrops(q) \cup crowded
    BY <1>6, <2>8 DEF EnqueueDrops
  <2>2. staying = PacketsIn(room)
    BY <1>1, <2>1, <2>8
  <2>3. Before(room) = BeforeAmong(live, staying) /\ Len(room) < maxLen
    BY <1>1, <1>4, <2>2, MakeRoomBefore
  <2>4. t = Append(room, e) /\ e.pkt = p /\ e \in S
    BY <1>6 DEF Enqueue, MakeRoom
  <2>10. \A r \in fresh : ~SameEntry(r, p)
    BY <1>1, <1>6 DEF IsQueued, PacketsIn
  <2> HIDE DEF live, room, e, t, staying, crowded, fresh
  <2>5. Before(t) = Before(room) \cup (PacketsIn(room) \X {p})
        /\ Len(t) = Len(room) + 1
    BY <2>1, <2>4, AppendBefore
  <2>6. BeforeAmong(live, staying) = BeforeAmong(q, staying)
    BY <1>2, <2>1, <2>2 DEF BeforeAmong
  <2>7. Cardinality(staying) < maxLen /\ Len(t) <= maxLen
    <3>1. Cardinality(staying) \in Nat /\ Cardinality(staying) <= Len(room)
      BY <2>1, <2>2, PacketsCount
    <3>2. Len(room) \in Nat
      BY <2>1, LenProperties
    <3> QED
      BY <2>3, <2>5, <3>1, <3>2
  <2> QED
    BY <1>6, <2>2, <2>3, <2>5, <2>6, <2>7, <2>9, <2>10
    DEF EnqueueOrder, live, t, staying, crowded, fresh
<1> QED
  BY <1>5, <1>6

\* Enqueue leaves nothing that is expired.
LEMMA EnqueueLeavesLive ==
  ASSUME NEW S, NEW q \in Seq(S), NEW p, NEW maxLen \in Nat \ {0},
         NEW timeout \in Nat, [pkt |-> p, expire |-> timeout] \in S
  PROVE  PurgeDrops(Enqueue(q, p, maxLen, timeout)) = {}
<1> DEFINE t == Enqueue(q, p, maxLen, timeout)
           e == [pkt |-> p, expire |-> timeout]
<1>1. EnqueuePost(S, q, p, maxLen, timeout)
  BY EnqueueProperties
<1>2. \A k \in DOMAIN t :
        t[k] = e \/ \E i \in DOMAIN Purge(q) : t[k] = Purge(q)[i]
  BY <1>1 DEF EnqueuePost
<1>3. ~IsExpired(e)
  BY DEF IsExpired
<1> HIDE DEF t, e
<1>4. \A k \in DOMAIN t : ~IsExpired(t[k])
  BY <1>2, <1>3, PurgeLeavesLive
<1> QED
  BY <1>4 DEF PurgeDrops, Live, t

-----------------------------------------------------------------------------
(***************************************************************************)
(* Then, that every step is one of the buffer or none.                     *)
(***************************************************************************)
\* What the outcome of a packet says of its fate.
LEMMA OutcomeOfFate ==
  /\ Outcome("new") = "outside" /\ Outcome("loopback") = "outside"
  /\ Outcome("forwarded") = "passed" /\ Outcome("lost") = "dropped"
  /\ Outcome("error") = "failed" /\ Outcome("duplicate") = "refused"
  /\ \A f \in Fates : Outcome(f) = "buffered" <=> f \in Waiting
BY DEF Outcome, Fates, Waiting, Final

\* The buffered packets are those of the queue.
LEMMA BufferedIsQueued ==
  ASSUME IInv
  PROVE  /\ Buffer!Buffered = PacketsIn(m_queue)
         /\ Buffer!Fresh = PacketsIn(m_queue) \ PurgeDrops(m_queue)
         /\ \A P : Buffer!Among(P) = BeforeAmong(m_queue, P)
         /\ \A P : Buffer!Oldest(P) = OldestOf(m_queue, P)
<1>1. \A p \in Packets : fate[p] \in Fates
  BY DEF IInv, TypeOK
<1>2. PacketsIn(m_queue) = {p \in Packets : fate[p] \in Waiting}
  BY DEF IInv, EachPacketInOnePlace
<1>3. Buffer!Buffered = {p \in Packets : Outcome(fate[p]) = "buffered"}
  BY DEF Buffer!Buffered
<1>4. Buffer!Buffered = PacketsIn(m_queue)
  BY <1>1, <1>2, <1>3, OutcomeOfFate
<1> QED
  BY <1>4 DEF Buffer!Fresh, Buffer!Among, Buffer!Oldest, BeforeAmong, OldestOf

\* MaxQueueLen is not changed, and the queue is within it.
Bounded(n) == MaxLens = {n} /\ Len(m_queue) <= n

\* DeferredRouteOutput takes a packet in or refuses it.
LEMMA DeferredRefines ==
  ASSUME IInv, NEW n, Bounded(n), NEW p \in Packets,
         fate[p] \in {"new", "loopback", "forwarded"}, DeferredRouteOutput(p),
         UNCHANGED ls
  PROVE  Len(m_queue') <= n /\ Buffer!Next
<1> DEFINE overdue == PurgeDrops(m_queue)
           fresh == PacketsIn(m_queue) \ overdue
           crowded == IF Cardinality(fresh) = m_maxLen
                        THEN OldestOf(m_queue, fresh) ELSE {}
           staying == fresh \ crowded
           drops == EnqueueDrops(m_queue, p, m_maxLen)
<1>1. /\ m_queue \in Seq(Entries) /\ Distinct(m_queue)
      /\ m_maxLen = n /\ m_maxLen \in Nat \ {0} /\ Len(m_queue) <= m_maxLen
      /\ [pkt |-> p, expire |-> m_queueTimeout] \in Entries
      /\ m_queueTimeout \in Nat
      /\ \A r \in Packets : fate[r] \in Fates
  BY Constants DEF IInv, TypeOK, EachPacketInOnePlace, Bounded
<1>2. p \notin PacketsIn(m_queue)
  BY DEF IInv, EachPacketInOnePlace, Waiting
<1>3. m_queue' = Enqueue(m_queue, p, m_maxLen, m_queueTimeout)
  BY DEF DeferredRouteOutput
<1>4. EnqueueOrder(m_queue, p, m_maxLen, m_queue')
  BY <1>1, <1>2, <1>3, EnqueueBefore
<1>5. Len(m_queue') <= n
  BY <1>1, <1>4 DEF EnqueueOrder
<1>6. /\ Buffer!Fresh = fresh
      /\ \A P : Buffer!Among(P) = BeforeAmong(m_queue, P)
      /\ \A P : Buffer!Oldest(P) = OldestOf(m_queue, P)
  BY BufferedIsQueued
<1>7. Buffer!Arriving(p)
  BY OutcomeOfFate DEF Buffer!Arriving
<1>8. \A r \in Packets :
        Outcome(fate'[r]) = IF r = p
                              THEN Outcome(EnqueuedFate(p))
                            ELSE IF r \in drops THEN "failed"
                            ELSE Outcome(fate[r])
  BY OutcomeOfFate DEF DeferredRouteOutput
<1>9. PurgeDrops(m_queue') = {} /\ Nowhere' = Nowhere
  BY <1>1, <1>3, EnqueueLeavesLive DEF Nowhere
<1>10. \A r \in Packets : Buffer!IsFragment(p, r) <=> SameEntry(r, p)
  BY DEF Buffer!IsFragment, SameEntry
<1>11. fresh \subseteq Packets
  BY DEF IInv, EachPacketInOnePlace
<1>12. CASE IsQueued(Purge(m_queue), p)
  <2>1. Outcome(EnqueuedFate(p)) = "refused"
    BY <1>12, OutcomeOfFate DEF EnqueuedFate
  <2>2. /\ drops = overdue
        /\ Before(m_queue') = BeforeAmong(m_queue, fresh)
        /\ \E r \in fresh : Buffer!IsFragment(p, r)
    BY <1>4, <1>10, <1>11, <1>12 DEF EnqueueOrder
  <2>3. [r \in Packets |-> Outcome(fate'[r])] =
           [r \in Packets |-> IF r = p THEN "refused"
                              ELSE IF r \in overdue THEN "failed"
                              ELSE [q \in Packets |-> Outcome(fate[q])][r]]
    BY <1>8, <2>1, <2>2
  <2> HIDE DEF fresh
  <2>4. Buffer!Refuse(p)
    BY <1>6, <1>7, <1>9, <2>2, <2>3 DEF Buffer!Refuse
  <2> QED
    BY <1>5, <2>4 DEF Buffer!Next
<1>13. CASE ~IsQueued(Purge(m_queue), p)
  <2>1. Outcome(EnqueuedFate(p)) = "buffered"
    BY <1>13, OutcomeOfFate DEF EnqueuedFate, Waiting, Fates
  <2>2. (CHOOSE m \in MaxLens : TRUE) = m_maxLen
    BY <1>1 DEF Bounded
  <2>3. /\ drops = overdue \cup crowded
        /\ Before(m_queue') =
             BeforeAmong(m_queue, staying) \cup (staying \X {p})
        /\ \A r \in fresh : ~Buffer!IsFragment(p, r)
        /\ Cardinality(staying) < m_maxLen
    BY <1>4, <1>10, <1>11, <1>13 DEF EnqueueOrder
  <2>4. [r \in Packets |-> Outcome(fate'[r])] =
           [r \in Packets |-> IF r = p THEN "buffered"
                              ELSE IF r \in overdue \cup crowded THEN "failed"
                              ELSE [q \in Packets |-> Outcome(fate[q])][r]]
    <3> HIDE DEF drops, overdue, crowded
    <3> QED
      BY <1>8, <2>1, <2>3
  <2>5. \A P : Buffer!Cardinality(P) = Cardinality(P)
    BY DEF Buffer!Cardinality, Cardinality
  <2>6. crowded = IF Buffer!Cardinality(Buffer!Fresh) = (CHOOSE m \in MaxLens : TRUE)
                    THEN Buffer!Oldest(Buffer!Fresh) ELSE {}
    BY <1>6, <2>2, <2>5
  <2>7. Buffer!Accept(p)
    <3> HIDE DEF fresh, crowded
    <3> QED
      BY <1>6, <1>7, <1>9, <2>2, <2>3, <2>4, <2>5, <2>6 DEF Buffer!Accept
  <2> QED
    BY <1>5, <2>7 DEF Buffer!Next
<1> QED
  BY <1>12, <1>13

\* A packet that is taken out of the queue leaves none behind that came
\* earlier and has the same destination.
LEMMA TakenInOrder ==
  ASSUME IInv, NEW a \in DOMAIN Swept, NEW b \in DOMAIN Swept, a < b,
         Destination[Swept[a].pkt] = Destination[Swept[b].pkt], IsTaken(b)
  PROVE  IsTaken(a)
<1> DEFINE d == Destination[Swept[b].pkt]
           A == {j \in NoHeader(Swept, d) : j < a}
           B == {j \in NoHeader(Swept, d) : j < b}
           V == {k \in DOMAIN m_queuedAddresses : m_queuedAddresses[k] = d}
<1>1. DOMAIN Swept = 1 .. Len(Swept) /\ Len(Swept) \in Nat
  BY SweptProperties, LenProperties
<1>2. DOMAIN m_queuedAddresses = 1 .. Len(m_queuedAddresses)
      /\ Len(m_queuedAddresses) \in Nat
  BY LenProperties DEF IInv, TypeOK
<1>3. NoHeader(Swept, d) \subseteq 1 .. Len(Swept)
  BY <1>1 DEF NoHeader, EntriesFor
<1>4. A \subseteq B /\ B \in SUBSET (1 .. Len(Swept))
  BY <1>1, <1>3
<1>5. V \in SUBSET (1 .. Len(m_queuedAddresses))
  BY <1>2
<1>6. CASE ls[d] = "unknown"
  BY <1>6 DEF IsTaken
<1>7. CASE ls[d] = "known" /\ Cardinality(B) < Visits(d)
  <2>1. Cardinality(V) \in Nat
    <3> HIDE DEF V
    <3> QED
      BY <1>2, <1>5, FiniteIndices
  <2>2. Cardinality(A) \in Nat /\ Cardinality(B) \in Nat
        /\ Cardinality(A) <= Cardinality(B)
    <3> HIDE DEF A, B
    <3>1. IsFiniteSet(B) /\ Cardinality(B) \in Nat
      BY <1>1, <1>4, FiniteIndices
    <3> QED
      BY <1>4, <3>1, FS_Subset, FS_CardinalityType
  <2>3. Cardinality(A) < Visits(d)
    <3>1. Visits(d) = Cardinality(V)
      BY DEF Visits
    <3> HIDE DEF A, B, V
    <3> QED
      BY <1>7, <2>1, <2>2, <3>1
  <2> QED
    BY <1>7, <2>3 DEF IsTaken
<1> QED
  BY <1>6, <1>7 DEF IsTaken

\* The purge keeps the order of what it leaves.
LEMMA SweptInOrder ==
  ASSUME IInv
  PROVE  /\ Before(Swept) = BeforeAmong(m_queue, PacketsIn(Swept))
         /\ Len(Swept) <= Len(m_queue)
<1>1. m_queue \in Seq(Entries) /\ Distinct(m_queue)
  BY DEF IInv, TypeOK, EachPacketInOnePlace
<1>2. CASE Swept = m_queue
  <2>1. Before(m_queue) = BeforeAmong(m_queue, PacketsIn(m_queue))
    BY DEF Before, BeforeAmong
  <2>2. Len(m_queue) \in Nat
    BY <1>1, LenProperties
  <2> QED
    BY <1>2, <2>1, <2>2
<1>3. CASE Swept = Purge(m_queue)
  <2>1. Live(m_queue) \in SUBSET DOMAIN m_queue
    BY DEF Live
  <2> QED
    BY <1>1, <1>3, <2>1, KeepBefore DEF Purge
<1> QED
  BY <1>2, <1>3 DEF Swept

\* A packet that a poll forwards or loses leaves none of its destination
\* behind that came before it.
LEMMA PollInOrder ==
  ASSUME IInv, NEW reachable, CheckQueue(reachable), NEW e \in Before(m_queue),
         fate'[e[2]] \in {"forwarded", "lost"},
         Destination[e[1]] = Destination[e[2]]
  PROVE  e[1] \notin PacketsIn(Left)
<1> SUFFICES ASSUME e[1] \in PacketsIn(Left) PROVE FALSE
  OBVIOUS
<1> DEFINE K == {i \in DOMAIN Swept : ~IsTaken(i)}
<1>1. /\ Swept \in Seq(Entries) /\ Distinct(Swept)
      /\ PacketsIn(m_queue) \subseteq Packets
  BY SweptProperties DEF IInv, EachPacketInOnePlace
<1>2. PacketsIn(Left) = {Swept[i].pkt : i \in K}
  BY <1>1, KeepDistinct DEF Left
<1>3. e[2] \in PacketsIn(Swept) /\ e[2] \notin PacketsIn(Left)
  <2>1. e[2] \in PacketsIn(m_queue)
    BY DEF Before
  <2>2. fate'[e[2]] = FateAfterPoll(e[2], reachable)
    BY <1>1, <2>1 DEF CheckQueue
  <2> QED
    BY <2>2 DEF FateAfterPoll
<1>4. e \in Before(Swept)
  <2>1. e[1] \in PacketsIn(Swept)
    BY <1>2 DEF PacketsIn
  <2> QED
    BY <1>3, <2>1, SweptInOrder DEF BeforeAmong
<1>5. PICK a \in DOMAIN Swept, b \in DOMAIN Swept :
             a < b /\ Swept[a].pkt = e[1] /\ Swept[b].pkt = e[2]
  BY <1>4 DEF Before
<1>6. a \in K
  BY <1>1, <1>2, <1>5 DEF Distinct
<1>7. IsTaken(b)
  BY <1>2, <1>3, <1>5
<1>8. IsTaken(a)
  BY <1>5, <1>7, TakenInOrder
<1> QED
  BY <1>6, <1>8

\* What is expired depends only on the elements of a queue.
LEMMA DropsOfElements ==
  ASSUME NEW q, NEW t, Elements(q) = Elements(t)
  PROVE  PurgeDrops(q) = PurgeDrops(t)
<1>1. ASSUME NEW x, NEW y, Elements(x) \subseteq Elements(y),
             NEW p \in PurgeDrops(x)
      PROVE  p \in PurgeDrops(y)
  <2>1. PICK i \in DOMAIN x : x[i].pkt = p /\ IsExpired(x[i])
    BY DEF PurgeDrops, Live
  <2>2. PICK j \in DOMAIN y : y[j] = x[i]
    BY <1>1 DEF Elements
  <2> QED
    BY <2>1, <2>2 DEF PurgeDrops, Live
<1> QED
  BY <1>1

\* A poll takes all packets out whose destination has no position.
LEMMA NoneLeftNowhere ==
  ASSUME IInv, NEW p \in PacketsIn(Left)
  PROVE  p \in PacketsIn(Swept) /\ ls[Destination[p]] # "unknown"
<1> DEFINE K == {i \in DOMAIN Swept : ~IsTaken(i)}
<1>1. /\ Swept \in Seq(Entries) /\ Distinct(Swept)
      /\ PacketsIn(Swept) \subseteq PacketsIn(m_queue)
  BY SweptProperties
<1>2. PacketsIn(Left) = {Swept[i].pkt : i \in K}
  BY <1>1, KeepDistinct DEF Left
<1>3. PICK i \in K : Swept[i].pkt = p
  BY <1>2
<1>4. p \in PacketsIn(Swept)
  BY <1>3 DEF PacketsIn
<1>5. Destination[p] \in Elements(m_queuedAddresses)
  BY <1>1, <1>4
  DEF PacketsIn, IInv, NoStrandedPacket, EveryDestinationIsVisited
<1> QED
  BY <1>3, <1>4, <1>5 DEF IsTaken

\* While all destinations on the list are searched, a poll changes nothing
\* that the buffer can see.
LEMMA SearchingPollRefines ==
  ASSUME IInv, NEW n, Bounded(n), NEW reachable, CheckQueue(reachable),
         \A d \in Elements(m_queuedAddresses) : Searching(d)
  PROVE  Len(m_queue') <= n /\ UNCHANGED Buffer!vars
<1> DEFINE K == {i \in DOMAIN m_queue : ~IsTaken(i)}
<1>1. /\ m_queue \in Seq(Entries) /\ Distinct(m_queue)
      /\ PacketsIn(m_queue) = {r \in Packets : fate[r] \in Waiting}
      /\ Swept = m_queue
  BY DEF IInv, TypeOK, EachPacketInOnePlace, Swept
<1>2. K = DOMAIN m_queue
  BY <1>1 DEF IsTaken, Searching
<1>3. m_queue' = Keep(m_queue, DOMAIN m_queue) /\ m_queue' = Left
  BY <1>1, <1>2 DEF CheckQueue, Left
<1>4. /\ m_queue' \in Seq(Entries)
      /\ Elements(m_queue') = Elements(m_queue)
      /\ PacketsIn(m_queue') = PacketsIn(m_queue)
      /\ Before(m_queue') = BeforeAmong(m_queue, PacketsIn(m_queue))
      /\ Len(m_queue') <= Len(m_queue)
  <2>1. /\ m_queue' \in Seq(Entries)
        /\ Before(m_queue') = BeforeAmong(m_queue, PacketsIn(m_queue'))
        /\ Len(m_queue') <= Len(m_queue)
    BY <1>1, <1>3, KeepProperties, KeepBefore
  <2>2. Elements(m_queue') = {m_queue[i] : i \in DOMAIN m_queue}
    BY <1>1, <1>3, KeepElements
  <2>3. PacketsIn(m_queue') = {m_queue[i].pkt : i \in DOMAIN m_queue}
    BY <1>1, <1>3, KeepDistinct
  <2> QED
    BY <2>1, <2>2, <2>3 DEF Elements, PacketsIn
<1>5. Len(m_queue') <= n
  <2>1. Len(m_queue) \in Nat /\ Len(m_queue') \in Nat /\ n \in Nat
    BY <1>1, <1>4, LenProperties, Constants DEF Bounded
  <2> QED
    BY <1>4, <2>1 DEF Bounded
<1>6. Before(m_queue') = Before(m_queue) /\ PurgeDrops(m_queue') = PurgeDrops(m_queue)
  BY <1>4, DropsOfElements DEF Before, BeforeAmong
<1>7. \A r \in Packets : Outcome(fate'[r]) = Outcome(fate[r])
  <2> SUFFICES ASSUME NEW r \in PacketsIn(m_queue)
               PROVE  fate'[r] = "polled" /\ fate[r] \in Waiting
    BY <1>1, OutcomeOfFate DEF CheckQueue, Outcome, Waiting
  <2>1. fate'[r] = FateAfterPoll(r, reachable)
    BY <1>1 DEF CheckQueue
  <2> QED
    BY <1>1, <1>3, <1>4, <2>1 DEF FateAfterPoll
<1>8. Nowhere' = Nowhere
  BY DEF CheckQueue, Nowhere
<1> QED
  BY <1>5, <1>6, <1>7, <1>8 DEF Buffer!vars

\* Any other poll releases packets.
LEMMA ReleasingPollRefines ==
  ASSUME IInv, NEW n, Bounded(n), NEW reachable, CheckQueue(reachable),
         \E d \in Elements(m_queuedAddresses) : ~Searching(d)
  PROVE  Len(m_queue') <= n /\ Buffer!Next
<1> DEFINE K == {i \in DOMAIN Swept : ~IsTaken(i)}
           staying == PacketsIn(Left)
           leaving == {p \in PacketsIn(m_queue) : fate'[p] \in {"forwarded", "lost"}}
           failing == PurgeDrops(m_queue)
                        \cup {p \in PacketsIn(m_queue) : Destination[p] \in Nowhere}
           noWay == Dsts \ reachable
<1>1. /\ m_queue \in Seq(Entries) /\ Distinct(m_queue)
      /\ Swept \in Seq(Entries) /\ Distinct(Swept)
      /\ PacketsIn(Swept) \subseteq PacketsIn(m_queue)
      /\ PacketsIn(m_queue) \subseteq Packets
      /\ \A r \in Packets : fate[r] \in Fates
  BY SweptProperties DEF IInv, TypeOK, EachPacketInOnePlace
<1>2. Before(Swept) = BeforeAmong(m_queue, PacketsIn(Swept))
      /\ Len(Swept) <= Len(m_queue)
  BY SweptInOrder
<1>3. /\ m_queue' = Left
      /\ Left = Keep(Swept, K)
      /\ K \in SUBSET DOMAIN Swept
  BY DEF CheckQueue, Left
<1>4. /\ Left \in Seq(Entries)
      /\ Before(Left) = BeforeAmong(Swept, staying)
      /\ Len(Left) <= Len(Swept)
      /\ staying = {Swept[i].pkt : i \in K}
      /\ Elements(Left) \subseteq Elements(Swept)
  <2>1. Elements(Left) = {Swept[i] : i \in K}
    BY <1>1, <1>3, KeepElements
  <2>2. Elements(Left) \subseteq Elements(Swept)
    BY <2>1 DEF Elements
  <2> HIDE DEF K
  <2> QED
    BY <1>1, <1>3, <2>2, KeepBefore, KeepDistinct, KeepProperties
<1>5. Len(m_queue') <= n
  <2>1. Len(m_queue) \in Nat /\ Len(Swept) \in Nat /\ Len(Left) \in Nat
    BY <1>1, <1>4, LenProperties
  <2>2. n \in Nat
    BY Constants DEF Bounded
  <2>3. \A i, j, k \in Nat : i <= j /\ j <= k /\ k <= n => i <= n
    BY <2>2
  <2> QED
    BY <1>2, <1>3, <1>4, <2>1, <2>3, Zenon DEF Bounded
<1>6. staying \subseteq PacketsIn(Swept)
  BY <1>4 DEF PacketsIn
<1>7. Before(m_queue') = BeforeAmong(m_queue, staying)
  BY <1>2, <1>3, <1>4, <1>6 DEF BeforeAmong
<1>8. Swept = Purge(m_queue)
      /\ PacketsIn(Swept) = PacketsIn(m_queue) \ PurgeDrops(m_queue)
  BY <1>1, PurgeProperties DEF Swept
<1>9. PurgeDrops(m_queue') = {} /\ Nowhere' = Nowhere
  <2>1. \A k \in DOMAIN Left : ~IsExpired(Left[k])
    BY <1>1, <1>4, <1>8, PurgeLeavesLive DEF Elements
  <2> QED
    BY <1>3, <2>1 DEF PurgeDrops, Live, CheckQueue, Nowhere
<1>10. \A r \in PacketsIn(m_queue) :
         /\ Destination[r] \in Dsts
         /\ r \in Packets
         /\ fate'[r] = FateAfterPoll(r, reachable)
         /\ r \in failing <=> \/ r \notin PacketsIn(Swept)
                              \/ ls[Destination[r]] = "unknown"
         /\ r \in staying => r \notin failing
  <2>1. \A r \in PacketsIn(m_queue) :
          fate'[r] = FateAfterPoll(r, reachable) /\ Destination[r] \in Dsts
    BY <1>1, Constants DEF CheckQueue
  <2>2. \A r \in PacketsIn(m_queue) :
          r \in failing <=> \/ r \notin PacketsIn(Swept)
                            \/ ls[Destination[r]] = "unknown"
    BY <1>8, <2>1 DEF Nowhere
  <2>3. \A r \in staying : r \in PacketsIn(Swept) /\ ls[Destination[r]] # "unknown"
    BY NoneLeftNowhere
  <2> HIDE DEF staying, failing
  <2> QED
    BY <1>1, <2>1, <2>2, <2>3
<1>11. \A r \in PacketsIn(m_queue) :
         /\ r \in staying => fate'[r] = "polled" /\ r \notin failing
         /\ r \in failing => fate'[r] = "error"
         /\ r \notin staying /\ r \notin failing =>
              fate'[r] = IF r \in HasHeader /\ Destination[r] \notin noWay
                           THEN "forwarded" ELSE "lost"
  <2> HIDE DEF failing
  <2> QED
    BY <1>10 DEF FateAfterPoll
<1>12. leaving = PacketsIn(m_queue) \ (staying \cup failing)
  <2> HIDE DEF staying, failing, noWay
  <2> QED
    BY <1>11
<1>13. staying = PacketsIn(m_queue) \ (failing \cup leaving)
  <2> HIDE DEF failing, leaving
  <2> QED
    BY <1>1, <1>6, <1>11, <1>12
<1>14. ASSUME NEW e \in Before(m_queue), e[2] \in leaving,
              Destination[e[1]] = Destination[e[2]], e[1] \in staying
       PROVE  FALSE
  BY <1>14, PollInOrder
<1>15. [r \in Packets |-> Outcome(fate'[r])] =
         [r \in Packets |->
            IF r \in failing THEN "failed"
            ELSE IF r \notin leaving
              THEN [q \in Packets |-> Outcome(fate[q])][r]
            ELSE IF r \in HasHeader /\ Destination[r] \notin noWay
              THEN "passed" ELSE "dropped"]
  <2>1. \A r \in staying : Outcome(fate'[r]) = "buffered"
                           /\ Outcome(fate[r]) = "buffered"
    <3>1. \A r \in staying : r \in PacketsIn(m_queue) /\ fate'[r] = "polled"
      BY <1>1, <1>6, <1>11
    <3>2. \A r \in staying : fate[r] \in Waiting
      BY <3>1 DEF IInv, EachPacketInOnePlace
    <3> QED
      BY <3>1, <3>2 DEF Outcome, Waiting
  <2>2. \A r \in failing : Outcome(fate'[r]) = "failed"
    <3>1. PurgeDrops(m_queue) \subseteq PacketsIn(m_queue)
      BY DEF PurgeDrops, PacketsIn
    <3>2. failing \subseteq PacketsIn(m_queue)
      BY <3>1
    <3> QED
      BY <1>11, <3>2, OutcomeOfFate
  <2>3. \A r \in leaving :
          Outcome(fate'[r]) = IF r \in HasHeader /\ Destination[r] \notin noWay
                                THEN "passed" ELSE "dropped"
    <3> HIDE DEF staying, failing, noWay, leaving
    <3> QED
      BY <1>11, <1>12, OutcomeOfFate
  <2>4. \A r \in Packets \ PacketsIn(m_queue) :
          fate'[r] = fate[r]
    BY DEF CheckQueue
  <2>5. failing \subseteq PacketsIn(m_queue) /\ leaving \subseteq PacketsIn(m_queue)
    BY DEF PurgeDrops, PacketsIn
  <2> HIDE DEF leaving, failing, staying, noWay
  <2> QED
    BY <1>12, <1>13, <2>1, <2>2, <2>3, <2>4, <2>5
<1>16. Buffer!Buffered = PacketsIn(m_queue)
       /\ \A P : Buffer!Among(P) = BeforeAmong(m_queue, P)
  BY BufferedIsQueued
<1>17. /\ leaving \in SUBSET PacketsIn(m_queue)
       /\ leaving \cap failing = {}
       /\ noWay \in SUBSET Dsts
  <2>1. leaving \cap failing = {}
    BY <1>12
  <2> QED
    BY <2>1
<1>18. Buffer!Release(leaving, noWay)
  <2>1. failing = PurgeDrops(m_queue)
                    \cup {p \in Buffer!Buffered : Destination[p] \in Nowhere}
    BY <1>16
  <2> HIDE DEF leaving, failing, staying, noWay
  <2> QED
    BY <1>7, <1>9, <1>13, <1>14, <1>15, <1>16, <1>17, <2>1 DEF Buffer!Release
<1> HIDE DEF leaving, noWay, failing
<1> QED
  BY <1>5, <1>16, <1>17, <1>18 DEF Buffer!Next

\* CheckQueue releases packets, or all of them wait for searches.
LEMMA PollRefines ==
  ASSUME IInv, NEW n, Bounded(n), NEW reachable, CheckQueue(reachable)
  PROVE  Len(m_queue') <= n /\ [Buffer!Next]_(Buffer!vars)
<1>1. CASE \E d \in Elements(m_queuedAddresses) : ~Searching(d)
  BY <1>1, ReleasingPollRefines
<1>2. CASE \A d \in Elements(m_queuedAddresses) : Searching(d)
  BY <1>2, SearchingPollRefines
<1> QED
  BY <1>1, <1>2

\* Time makes packets overdue and changes nothing else the buffer can see.
LEMMA TickRefines ==
  ASSUME IInv, Tick
  PROVE  /\ Before(m_queue') = Before(m_queue)
         /\ Len(m_queue') = Len(m_queue)
         /\ PurgeDrops(m_queue) \subseteq PurgeDrops(m_queue')
         /\ PurgeDrops(m_queue') \subseteq PacketsIn(m_queue)
<1>1. /\ m_queue \in Seq(Entries)
      /\ m_queue' = [i \in DOMAIN m_queue |-> Age(m_queue[i])]
  BY DEF IInv, TypeOK, Tick
<1>2. m_queue' \in Seq(Entries) /\ PacketsIn(m_queue') = PacketsIn(m_queue)
  BY TickStep
<1>3. \A e \in Entries : Age(e).pkt = e.pkt /\ (IsExpired(e) => IsExpired(Age(e)))
  BY Constants DEF Age, Entries, Floor, IsExpired
<1>4. DOMAIN m_queue' = DOMAIN m_queue
      /\ \A i \in DOMAIN m_queue :
           /\ m_queue'[i].pkt = m_queue[i].pkt
           /\ IsExpired(m_queue[i]) => IsExpired(m_queue'[i])
  <2>1. \A i \in DOMAIN m_queue :
          m_queue[i] \in Entries /\ m_queue'[i] = Age(m_queue[i])
    BY <1>1
  <2> QED
    BY <1>1, <1>3, <2>1
<1>5. Len(m_queue') = Len(m_queue)
  BY <1>1, <1>2, <1>4, LenProperties
<1>6. Before(m_queue') = Before(m_queue)
  BY <1>2, <1>4 DEF Before
<1>7. /\ PurgeDrops(m_queue) \subseteq PurgeDrops(m_queue')
      /\ PurgeDrops(m_queue') \subseteq PacketsIn(m_queue')
  BY <1>4 DEF PurgeDrops, Live, PacketsIn
<1> QED
  BY <1>2, <1>5, <1>6, <1>7

\* While queue and outcomes stay what they are, time and the location service
\* are the world of the buffer.
LEMMA WorldRefines ==
  ASSUME IInv, \A r \in Packets : Outcome(fate'[r]) = Outcome(fate[r]),
         Before(m_queue') = Before(m_queue),
         PurgeDrops(m_queue) \subseteq PurgeDrops(m_queue'),
         PurgeDrops(m_queue') \subseteq PacketsIn(m_queue)
  PROVE  Buffer!Next
<1>1. Buffer!Buffered = PacketsIn(m_queue)
  BY BufferedIsQueued
<1>2. Nowhere' \subseteq Dsts
  BY DEF Nowhere
<1>3. Buffer!World
  BY <1>1, <1>2 DEF Buffer!World
<1> QED
  BY <1>3 DEF Buffer!Next

\* A queue that stays what it is stays so for the buffer.
LEMMA SameQueue ==
  ASSUME UNCHANGED m_queue
  PROVE  /\ Before(m_queue') = Before(m_queue)
         /\ PurgeDrops(m_queue') = PurgeDrops(m_queue)
         /\ PurgeDrops(m_queue) \subseteq PacketsIn(m_queue)
BY DEF PurgeDrops, PacketsIn

\* A packet that goes on or is dropped at once bypasses the buffer.
LEMMA BypassRefines ==
  ASSUME IInv, NEW p \in Packets, fate[p] \in {"new", "loopback", "forwarded"},
         UNCHANGED <<m_queue, ls>>, NEW f \in {"forwarded", "lost"},
         fate' = [fate EXCEPT ![p] = f]
  PROVE  Buffer!Next
<1> DEFINE end == Outcome(f)
<1>1. Outcome(fate[p]) \in {"outside", "passed"} /\ end \in {"passed", "dropped"}
  BY OutcomeOfFate
<1>2. [r \in Packets |-> Outcome(fate'[r])] =
        [[r \in Packets |-> Outcome(fate[r])] EXCEPT ![p] = end]
  BY <1>1 DEF IInv, TypeOK
<1>3. /\ Before(m_queue') = Before(m_queue)
      /\ PurgeDrops(m_queue') = PurgeDrops(m_queue)
      /\ Nowhere' = Nowhere
  BY SameQueue DEF Nowhere
<1> HIDE DEF end
<1>4. Buffer!Bypass(p, end)
  BY <1>1, <1>2, <1>3 DEF Buffer!Bypass, Buffer!Arriving
<1> QED
  BY <1>1, <1>4 DEF Buffer!Next

\* RouteInput is a step of the buffer, whatever the interfaces offer.
LEMMA RouteInputRefines ==
  ASSUME IInv, NEW n, Bounded(n), NEW p \in Packets,
         fate[p] \in {"new", "loopback", "forwarded"},
         NEW sockets \in BOOLEAN, NEW deferred \in BOOLEAN,
         NEW nextHopFound \in BOOLEAN,
         RouteInput(p, sockets, deferred, nextHopFound), UNCHANGED ls
  PROVE  Len(m_queue') <= n /\ Buffer!Next
<1>1. CASE DeferredRouteOutput(p)
  BY <1>1, DeferredRefines
<1>2. CASE \E f \in {"forwarded", "lost"} : Gone(p, f)
  <2>1. PICK f \in {"forwarded", "lost"} : Gone(p, f)
    BY <1>2
  <2>2. m_queue' = m_queue /\ fate' = [fate EXCEPT ![p] = f]
    BY <2>1 DEF Gone
  <2>3. Buffer!Next
    BY <2>2, BypassRefines
  <2> QED
    BY <2>2, <2>3 DEF Bounded
<1> QED
  BY <1>1, <1>2, RouteInputKinds

\* Every step is one of the buffer, or none that it can see.
LEMMA StepRefines ==
  ASSUME IInv, NEW n, Bounded(n), [Next]_vars
  PROVE  Bounded(n)' /\ [Buffer!Next]_(Buffer!vars)
<1>1. /\ fate \in [Packets -> Fates]
      /\ ls \in [Dsts -> LocationStates]
      /\ MaxLens = {n} /\ Len(m_queue) <= n
  BY DEF IInv, TypeOK, Bounded
<1>2. ASSUME NEW p \in Packets, NEW nextHopFound \in BOOLEAN,
             RouteOutput(p, nextHopFound)
      PROVE  Bounded(n)' /\ [Buffer!Next]_(Buffer!vars)
  <2> DEFINE d == Destination[p]
  <2>1. m_queue' = m_queue /\ fate[p] = "new"
        /\ ls' = [ls EXCEPT ![d] = AfterGetPosition(d)]
    BY <1>2 DEF RouteOutput
  <2>2. CASE ls'[d] # "searching" /\ fate' = [fate EXCEPT ![p] = "forwarded"]
    <3>1. ls' = ls
      BY <1>1, <2>1, <2>2, Constants DEF AfterGetPosition
    <3> QED
      BY <1>1, <2>1, <2>2, <3>1, BypassRefines DEF Bounded
  <2>3. CASE fate' = [fate EXCEPT ![p] = "loopback"]
    <3>1. \A r \in Packets : Outcome(fate'[r]) = Outcome(fate[r])
      BY <1>1, <2>1, <2>3, OutcomeOfFate
    <3>2. Buffer!Next
      BY <2>1, <3>1, SameQueue, WorldRefines
    <3> QED
      BY <1>1, <2>1, <3>2 DEF Bounded
  <2> QED
    BY <1>2, <2>2, <2>3 DEF RouteOutput
<1>3. ASSUME NEW p \in Packets, NEW sockets \in BOOLEAN,
             NEW nextHopFound \in BOOLEAN,
             FromNeighbour(p, sockets, nextHopFound)
      PROVE  Bounded(n)' /\ [Buffer!Next]_(Buffer!vars)
  BY <1>1, <1>3, RouteInputRefines DEF FromNeighbour, Bounded
<1>4. ASSUME NEW sockets \in BOOLEAN, NEW own \in BOOLEAN,
             NEW nextHopFound \in BOOLEAN,
             FromLoopback(sockets, own, nextHopFound)
      PROVE  Bounded(n)' /\ [Buffer!Next]_(Buffer!vars)
  <2>1. /\ m_lo # <<>> /\ RouteInput(Head(m_lo), sockets, own, nextHopFound)
        /\ UNCHANGED ls
    BY <1>4 DEF FromLoopback
  <2>2. Head(m_lo) \in Packets /\ fate[Head(m_lo)] = "loopback"
    BY <2>1, HeadInLoopback
  <2> QED
    BY <1>1, <2>1, <2>2, RouteInputRefines DEF Bounded
<1>5. ASSUME NEW reachable \in SUBSET Dsts, CheckQueue(reachable)
      PROVE  Bounded(n)' /\ [Buffer!Next]_(Buffer!vars)
  BY <1>1, <1>5, PollRefines DEF Bounded
<1>6. CASE Tick
  <2>1. fate' = fate
    BY <1>6 DEF Tick
  <2>2. Buffer!Next
    BY <1>6, <2>1, TickRefines, WorldRefines
  <2> QED
    BY <1>1, <1>6, <2>2, TickRefines DEF Bounded
<1>7. ASSUME UNCHANGED <<m_queue, fate>>
      PROVE  Bounded(n)' /\ [Buffer!Next]_(Buffer!vars)
  BY <1>1, <1>7, SameQueue, WorldRefines DEF Bounded
<1>8. CASE UNCHANGED vars
  BY <1>7, <1>8 DEF vars
<1>9. ASSUME NEW d \in Dsts, LsAnswer(d) \/ LsForget(d)
      PROVE  Bounded(n)' /\ [Buffer!Next]_(Buffer!vars)
  BY <1>7, <1>9 DEF LsAnswer, LsForget
<1>10. ASSUME NEW k, SetMaxQueueLen(k) \/ SetMaxQueueTime(k)
       PROVE  Bounded(n)' /\ [Buffer!Next]_(Buffer!vars)
  BY <1>7, <1>10 DEF SetMaxQueueLen, SetMaxQueueTime
<1> QED
  BY <1>2, <1>3, <1>4, <1>5, <1>6, <1>8, <1>9, <1>10 DEF Next

\* The node starts as an empty buffer.
LEMMA InitRefines ==
  ASSUME Init, NEW n, MaxLens = {n}
  PROVE  Bounded(n) /\ Buffer!Init
<1>1. n \in Nat
  BY Constants
<1>2. Bounded(n)
  BY <1>1 DEF Init, Bounded
<1>3. Before(m_queue) = {} /\ PurgeDrops(m_queue) = {} /\ Nowhere \subseteq Dsts
  BY DEF Init, Before, PurgeDrops, Nowhere
<1>4. [r \in Packets |-> Outcome(fate[r])] = [r \in Packets |-> "outside"]
  BY OutcomeOfFate DEF Init
<1> QED
  BY <1>2, <1>3, <1>4 DEF Buffer!Init

\* With a MaxQueueLen that stays what it is, the queue never holds more.
THEOREM AlwaysBounded ==
  ASSUME NEW CONSTANT n, MaxLens = {n}
  PROVE  Spec => []QueueIsBounded
<1>1. Init => Bounded(n)
  BY InitRefines
<1>2. IInv /\ Bounded(n) /\ [Next]_vars => Bounded(n)'
  BY StepRefines
<1>3. IInv /\ Bounded(n) => QueueIsBounded
  BY DEF IInv, TypeOK, Bounded, QueueIsBounded
<1> QED
  BY Invariance, <1>1, <1>2, <1>3, PTL DEF Spec

\* With a MaxQueueLen that stays what it is, the node implements a packet
\* buffer.  Every packet that is taken in ends once and for its reason: it
\* fails when its time is up, when it is the oldest in a full queue or when
\* its destination has no position; it is dropped, with neither callback,
\* when it has no header or no way out; all others are passed on in order.
THEOREM Refinement ==
  ASSUME NEW CONSTANT n, MaxLens = {n}
  PROVE  Spec => ImplementsPacketBuffer
<1>1. Init => Bounded(n) /\ Buffer!Init
  BY InitRefines
<1>2. IInv /\ Bounded(n) /\ [Next]_vars =>
        Bounded(n)' /\ [Buffer!Next]_(Buffer!vars)
  BY StepRefines
<1> QED
  BY Invariance, <1>1, <1>2, PTL DEF Spec, ImplementsPacketBuffer, Buffer!Spec
-----------------------------------------------------------------------------
(***************************************************************************)
(* What a single poll may and may not do.  First, what other steps do.     *)
(***************************************************************************)
\* A step polls, defers a packet, lets time pass, or leaves the queue alone.
LEMMA StepKinds ==
  ASSUME IInv, Next
  PROVE  \/ \E reachable \in SUBSET Dsts : CheckQueue(reachable)
         \/ \E p \in Packets : fate[p] \notin Waiting /\ DeferredRouteOutput(p)
         \/ Tick
         \/ /\ UNCHANGED <<m_queue, CheckQueueTimer>>
            /\ \A r \in Packets : fate[r] \in Waiting => fate'[r] = fate[r]
<1>1. fate \in [Packets -> Fates]
  BY DEF IInv, TypeOK
<1>2. ASSUME NEW p \in Packets, NEW nextHopFound \in BOOLEAN,
             RouteOutput(p, nextHopFound)
      PROVE  /\ UNCHANGED <<m_queue, CheckQueueTimer>>
             /\ \A r \in Packets : fate[r] \in Waiting => fate'[r] = fate[r]
  BY <1>1, <1>2 DEF RouteOutput, Waiting
<1>7. ASSUME NEW p \in Packets, fate[p] \in {"new", "loopback", "forwarded"},
             NEW sockets \in BOOLEAN, NEW deferred \in BOOLEAN,
             NEW nextHopFound \in BOOLEAN,
             RouteInput(p, sockets, deferred, nextHopFound)
      PROVE  \/ fate[p] \notin Waiting /\ DeferredRouteOutput(p)
             \/ /\ UNCHANGED <<m_queue, CheckQueueTimer>>
                /\ \A r \in Packets : fate[r] \in Waiting => fate'[r] = fate[r]
  BY <1>1, <1>7, RouteInputKinds DEF Gone, Waiting
<1>3. ASSUME NEW p \in Packets, NEW sockets \in BOOLEAN,
             NEW nextHopFound \in BOOLEAN,
             FromNeighbour(p, sockets, nextHopFound)
      PROVE  \/ fate[p] \notin Waiting /\ DeferredRouteOutput(p)
             \/ /\ UNCHANGED <<m_queue, CheckQueueTimer>>
                /\ \A r \in Packets : fate[r] \in Waiting => fate'[r] = fate[r]
  BY <1>3, <1>7 DEF FromNeighbour
<1>4. ASSUME NEW sockets \in BOOLEAN, NEW own \in BOOLEAN,
             NEW nextHopFound \in BOOLEAN,
             FromLoopback(sockets, own, nextHopFound)
      PROVE  \/ \E p \in Packets : fate[p] \notin Waiting /\ DeferredRouteOutput(p)
             \/ /\ UNCHANGED <<m_queue, CheckQueueTimer>>
                /\ \A r \in Packets : fate[r] \in Waiting => fate'[r] = fate[r]
  <2>1. m_lo # <<>> /\ RouteInput(Head(m_lo), sockets, own, nextHopFound)
    BY <1>4 DEF FromLoopback
  <2>2. Head(m_lo) \in Packets /\ fate[Head(m_lo)] = "loopback"
    BY <2>1, HeadInLoopback
  <2> QED
    BY <2>1, <2>2, <1>7
<1>5. ASSUME NEW d \in Dsts, LsAnswer(d) \/ LsForget(d)
      PROVE  UNCHANGED <<m_queue, CheckQueueTimer, fate>>
  BY <1>5 DEF LsAnswer, LsForget
<1>6. ASSUME NEW k, SetMaxQueueLen(k) \/ SetMaxQueueTime(k)
      PROVE  UNCHANGED <<m_queue, CheckQueueTimer, fate>>
  BY <1>6 DEF SetMaxQueueLen, SetMaxQueueTime
<1> QED
  BY <1>2, <1>3, <1>4, <1>5, <1>6 DEF Next

\* A packet that is deferred starts the timer anew only when it finds nothing
\* in the queue but packets whose time is over, and they all go.
LEMMA TimerRestarts ==
  ASSUME IInv, NEW p \in Packets, fate[p] \notin Waiting,
         DeferredRouteOutput(p), CheckQueueTimer = 0, CheckQueueTimer' # 0
  PROVE  /\ \A r \in Packets : fate[r] \in Waiting => fate'[r] = "error"
         /\ \A k \in DOMAIN m_queue' : ~(m_queue'[k].expire < 0)
<1> DEFINE e == [pkt |-> p, expire |-> m_queueTimeout]
<1>1. /\ m_queue \in Seq(Entries) /\ Distinct(m_queue)
      /\ m_maxLen \in Nat \ {0} /\ e \in Entries /\ m_queueTimeout \in Nat
  BY Constants DEF IInv, TypeOK, EachPacketInOnePlace
<1>2. PacketsIn(m_queue) = {r \in Packets : fate[r] \in Waiting}
  BY DEF IInv, EachPacketInOnePlace
<1>3. Purge(m_queue) = <<>>
  BY DEF DeferredRouteOutput, DeferredTimer
<1>4. PacketsIn(m_queue) \subseteq PurgeDrops(m_queue)
  <2>1. PacketsIn(Purge(m_queue)) = PacketsIn(m_queue) \ PurgeDrops(m_queue)
    BY <1>1, PurgeProperties
  <2>2. PacketsIn(<<>>) = {}
    BY DEF PacketsIn
  <2> QED
    BY <1>3, <2>1, <2>2
<1>5. \A r \in PacketsIn(m_queue) : r \in EnqueueDrops(m_queue, p, m_maxLen)
  BY <1>4 DEF EnqueueDrops
<1>6. \A r \in PacketsIn(m_queue) : fate'[r] = "error"
  BY <1>2, <1>5 DEF DeferredRouteOutput
<1>7. \A k \in DOMAIN m_queue' : m_queue'[k] = e
  <2>1. EnqueuePost(Entries, m_queue, p, m_maxLen, m_queueTimeout)
    BY <1>1, EnqueueProperties
  <2>2. m_queue' = Enqueue(m_queue, p, m_maxLen, m_queueTimeout)
    BY DEF DeferredRouteOutput
  <2>3. DOMAIN Purge(m_queue) = {}
    BY <1>3
  <2> QED
    BY <2>1, <2>2, <2>3 DEF EnqueuePost
<1> QED
  BY <1>1, <1>2, <1>6, <1>7

\* A packet that stays in the queue behind a poll, although its position is
\* known, has one before it that stopped the last call.
LEMMA BlockedBySomePacket ==
  ASSUME IInv, NEW i \in DOMAIN Swept, ~IsTaken(i),
         ls[Destination[Swept[i].pkt]] = "known"
  PROVE  \E j \in NoHeader(Swept, Destination[Swept[i].pkt]) : IsTaken(j)
<1> DEFINE d == Destination[Swept[i].pkt]
           A == {j \in NoHeader(Swept, d) : j < i}
           V == {k \in DOMAIN m_queuedAddresses : m_queuedAddresses[k] = d}
<1>1. DOMAIN Swept = 1 .. Len(Swept) /\ Len(Swept) \in Nat
  BY SweptProperties, LenProperties
<1>2. DOMAIN m_queuedAddresses = 1 .. Len(m_queuedAddresses)
      /\ Len(m_queuedAddresses) \in Nat
  BY LenProperties DEF IInv, TypeOK
<1>3. d \in Elements(m_queuedAddresses)
  BY SweptProperties DEF IInv, NoStrandedPacket, EveryDestinationIsVisited
<1>4. Visits(d) \in Nat /\ Visits(d) > 0
  <2>1. V \in SUBSET (1 .. Len(m_queuedAddresses)) /\ V # {}
    BY <1>2, <1>3 DEF Elements
  <2>2. Visits(d) = Cardinality(V)
    BY DEF Visits
  <2> HIDE DEF V
  <2>3. IsFiniteSet(V) /\ Cardinality(V) \in Nat
    BY <1>2, <2>1, FiniteIndices
  <2>4. Cardinality(V) # 0
    BY <2>1, <2>3, FS_EmptySet
  <2> QED
    BY <2>2, <2>3, <2>4
<1>5. ~(Cardinality(A) < Visits(d))
  BY <1>3 DEF IsTaken
<1>6. A \in SUBSET (1 .. Len(Swept))
  BY <1>1 DEF NoHeader, EntriesFor
<1>7. PICK j \in A : Rank(A, j) = 1
  <2> HIDE DEF A, d
  <2>1. Cardinality(A) \in Nat
    BY <1>1, <1>6, FiniteIndices
  <2>2. 1 \in 1 .. Cardinality(A)
    BY <1>4, <1>5, <2>1
  <2> QED
    BY <1>1, <1>6, <2>2, RankOnto
<1>8. {k \in NoHeader(Swept, d) : k < j} = {}
  <2> SUFFICES ASSUME NEW k \in NoHeader(Swept, d), k < j PROVE FALSE
    OBVIOUS
  <2>1. k \in A
    <3>1. k \in 1 .. Len(Swept) /\ j \in 1 .. Len(Swept) /\ j < i
      BY <1>1, <1>6 DEF NoHeader, EntriesFor
    <3>2. k < i
      BY <1>1, <3>1
    <3> QED
      BY <3>2
  <2> HIDE DEF A
  <2>2. Rank(A, k) < Rank(A, j)
    BY <1>1, <1>6, <2>1, RankMonotonic
  <2>3. Rank(A, k) \in 1 .. Cardinality(A)
    BY <1>1, <1>6, <2>1, RankType
  <2> QED
    BY <1>7, <2>2, <2>3
<1>9. j \in NoHeader(Swept, d) /\ Destination[Swept[j].pkt] = d
  BY DEF NoHeader, EntriesFor
<1>10. Cardinality({k \in NoHeader(Swept, d) : k < j}) < Visits(d)
  BY <1>4, <1>8, FS_EmptySet
<1>11. IsTaken(j)
  <2> HIDE DEF d
  <2> QED
    BY <1>3, <1>9, <1>10 DEF IsTaken, d
<1> QED
  BY <1>9, <1>11

\* With a position at hand, only a packet without a TypeHeader, which is lost
\* itself, makes others of its destination wait beyond a poll.
THEOREM OnlyHeaderlessBlock == Spec => OnlyHeaderlessPacketsBlock
<1> DEFINE Blocked(p) ==
             /\ ls[Destination[p]] = "known"
             /\ fate[p] \in Waiting /\ fate'[p] = "polled"
             /\ CheckQueueTimer = 0 /\ CheckQueueTimer' # 0
           Blocker(p) ==
             \E r \in Packets \ HasHeader : Destination[r] = Destination[p]
               /\ fate[r] \in Waiting /\ fate'[r] = "lost"
           A == \A p \in Packets : Blocked(p) => Blocker(p)
<1>1. ASSUME IInv, Next PROVE A
  <2> SUFFICES ASSUME NEW p \in Packets, Blocked(p) PROVE Blocker(p)
    OBVIOUS
  <2>1. ASSUME NEW reachable \in SUBSET Dsts, CheckQueue(reachable)
        PROVE  Blocker(p)
    <3> DEFINE K == {i \in DOMAIN Swept : ~IsTaken(i)}
    <3>1. /\ Swept \in Seq(Entries) /\ Distinct(Swept)
          /\ PacketsIn(Swept) \subseteq PacketsIn(m_queue)
          /\ PacketsIn(m_queue) = {r \in Packets : fate[r] \in Waiting}
      BY <1>1, SweptProperties DEF IInv, EachPacketInOnePlace
    <3>2. PacketsIn(Left) = {Swept[i].pkt : i \in K}
      BY <3>1, KeepDistinct DEF Left
    <3>3. \A r \in PacketsIn(m_queue) : fate'[r] = FateAfterPoll(r, reachable)
      BY <2>1, <3>1 DEF CheckQueue
    <3>4. p \in PacketsIn(Left)
      BY <3>1, <3>3 DEF FateAfterPoll
    <3>5. PICK i \in K : Swept[i].pkt = p
      BY <3>2, <3>4
    <3>6. PICK j \in NoHeader(Swept, Destination[p]) : IsTaken(j)
      BY <1>1, <3>5, BlockedBySomePacket
    <3> DEFINE r == Swept[j].pkt
    <3>7. /\ j \in DOMAIN Swept /\ Destination[r] = Destination[p]
          /\ r \notin HasHeader /\ r \in PacketsIn(Swept)
      BY DEF NoHeader, EntriesFor, PacketsIn
    <3>8. r \notin PacketsIn(Left)
      BY <3>1, <3>2, <3>6, <3>7 DEF Distinct
    <3>9. FateAfterPoll(r, reachable) = "lost"
      <4> HIDE DEF r
      <4> QED
        BY <3>7, <3>8 DEF FateAfterPoll
    <3> HIDE DEF r
    <3> QED
      BY <3>1, <3>3, <3>7, <3>9
  <2>2. ASSUME NEW q \in Packets, fate[q] \notin Waiting, DeferredRouteOutput(q)
        PROVE  FALSE
    BY <1>1, <2>2, TimerRestarts
  <2>3. CASE Tick
    BY <2>3 DEF Tick
  <2> QED
    BY <1>1, <2>1, <2>2, <2>3, StepKinds
<1>2. IInv /\ [Next]_vars => [A]_vars
  BY <1>1
<1>3. OnlyHeaderlessPacketsBlock <=> [][A]_vars
  BY PTL DEF OnlyHeaderlessPacketsBlock
<1> QED
  BY <1>2, <1>3, Invariance, PTL DEF Spec

\* Beyond its time a packet stays in the queue only while there is nothing on
\* the list that is not being searched.
THEOREM OnlySearchesKeep == Spec => OnlySearchesKeepOverdue
<1> DEFINE A == CheckQueueTimer = 0 /\ CheckQueueTimer' # 0
                /\ (\E i \in DOMAIN m_queue' : m_queue'[i].expire < 0)
                  => \A d \in Elements(m_queuedAddresses) : Searching(d)
<1>1. ASSUME IInv, Next PROVE A
  <2> SUFFICES ASSUME CheckQueueTimer = 0, CheckQueueTimer' # 0,
                      NEW i \in DOMAIN m_queue', m_queue'[i].expire < 0,
                      NEW d \in Elements(m_queuedAddresses), ~Searching(d)
               PROVE  FALSE
    OBVIOUS
  <2>1. ASSUME NEW reachable \in SUBSET Dsts, CheckQueue(reachable) PROVE FALSE
    <3> DEFINE K == {k \in DOMAIN Swept : ~IsTaken(k)}
    <3>1. Swept = Purge(m_queue) /\ m_queue \in Seq(Entries)
      BY <1>1 DEF Swept, IInv, TypeOK
    <3>2. ASSUME NEW k \in DOMAIN Swept PROVE ~(Swept[k].expire < 0)
      <4>1. Live(m_queue) \in SUBSET DOMAIN m_queue
        BY DEF Live
      <4>2. PICK l \in Live(m_queue) : Swept[k] = m_queue[l]
        BY <3>1, <3>2, <4>1, KeepProperties DEF Purge
      <4> QED
        BY <4>2 DEF Live, IsExpired
    <3>3. \E k \in K : m_queue'[i] = Swept[k]
      <4>1. Swept \in Seq(Entries) /\ m_queue' = Keep(Swept, K)
        BY <1>1, <2>1, SweptProperties DEF CheckQueue, Left
      <4>2. K \in SUBSET DOMAIN Swept
        OBVIOUS
      <4> HIDE DEF K
      <4>3. i \in DOMAIN Keep(Swept, K)
        BY <4>1
      <4>4. /\ Position(K, i) \in K
            /\ Keep(Swept, K)[i] = Swept[Position(K, i)]
        BY <4>1, <4>2, <4>3, KeepProperties
      <4> QED
        BY <4>1, <4>4
    <3> QED
      BY <3>2, <3>3
  <2>2. ASSUME NEW q \in Packets, fate[q] \notin Waiting, DeferredRouteOutput(q)
        PROVE  FALSE
    BY <1>1, <2>2, TimerRestarts
  <2>3. CASE Tick
    BY <2>3 DEF Tick
  <2> QED
    BY <1>1, <2>1, <2>2, <2>3, StepKinds
<1>2. IInv /\ [Next]_vars => [A]_vars
  BY <1>1
<1>3. OnlySearchesKeepOverdue <=> [][A]_vars
  BY PTL DEF OnlySearchesKeepOverdue
<1> QED
  BY <1>2, <1>3, Invariance, PTL DEF Spec

\* No poll lets a packet overtake another one for the same destination.
THEOREM FirstServed == Spec => FirstComeFirstServed
<1> DEFINE A == \A i, j \in DOMAIN m_queue :
                  LET p == m_queue[i].pkt
                      r == m_queue[j].pkt
                  IN i < j /\ Destination[p] = Destination[r]
                     /\ fate'[r] \in {"forwarded", "lost"} => fate'[p] \notin Waiting
<1>1. ASSUME IInv, Next PROVE A
  <2> SUFFICES ASSUME NEW i \in DOMAIN m_queue, NEW j \in DOMAIN m_queue, i < j,
                      Destination[m_queue[i].pkt] = Destination[m_queue[j].pkt],
                      fate'[m_queue[j].pkt] \in {"forwarded", "lost"}
               PROVE  fate'[m_queue[i].pkt] \notin Waiting
    OBVIOUS
  <2> DEFINE p == m_queue[i].pkt
             r == m_queue[j].pkt
  <2>1. /\ p \in PacketsIn(m_queue) /\ r \in PacketsIn(m_queue)
        /\ PacketsIn(m_queue) = {q \in Packets : fate[q] \in Waiting}
        /\ <<p, r>> \in Before(m_queue)
    BY <1>1 DEF IInv, EachPacketInOnePlace, PacketsIn, Before
  <2> HIDE DEF p, r
  <2>2. ASSUME NEW reachable \in SUBSET Dsts, CheckQueue(reachable)
        PROVE  fate'[p] \notin Waiting
    <3>1. /\ fate'[p] = FateAfterPoll(p, reachable)
          /\ fate'[r] = FateAfterPoll(r, reachable)
      BY <2>1, <2>2 DEF CheckQueue
    <3>2. p \notin PacketsIn(Left)
      BY <1>1, <2>1, <2>2, PollInOrder DEF p, r
    <3> QED
      BY <3>1, <3>2 DEF FateAfterPoll, Waiting
  <2>3. fate'[r] # "error" /\ fate'[r] # fate[r]
    BY <2>1 DEF Waiting, r
  <2>4. ASSUME NEW q \in Packets, fate[q] \notin Waiting, DeferredRouteOutput(q)
        PROVE  FALSE
    BY <2>1, <2>3, <2>4 DEF DeferredRouteOutput
  <2>5. CASE Tick
    BY <2>3, <2>5 DEF Tick
  <2> QED
    BY <1>1, <2>1, <2>2, <2>3, <2>4, <2>5, StepKinds DEF p
<1>2. IInv /\ [Next]_vars => [A]_vars
  BY <1>1
<1>3. FirstComeFirstServed <=> [][A]_vars
  BY PTL DEF FirstComeFirstServed
<1> QED
  BY <1>2, <1>3, Invariance, PTL DEF Spec
=============================================================================
