------------------------- MODULE PositionTableProofs -------------------------
(***************************************************************************)
(* Facts about the operators of the position table, for any addresses and  *)
(* any positions with integer coordinates.                                 *)
(***************************************************************************)
EXTENDS PositionTable, FiniteSetTheorems, TLAPS

\* Every nonempty set of naturals has a least element: the strict subset
\* ordering is well-founded on the initial segments of its members.
LEMMA LeastNatural ==
  ASSUME NEW T \in SUBSET Nat, T # {}
  PROVE  \E x \in T : \A y \in T : x <= y
<1> DEFINE F == {0 .. n : n \in T}
<1>1. F \subseteq FiniteSubsetsOf(Nat)
  <2>1. ASSUME NEW n \in T PROVE IsFiniteSet(0 .. n)
    <3>1. 0 \in Int /\ n \in Int
      OBVIOUS
    <3> QED
      BY <3>1, FS_Interval
  <2> QED
    BY <2>1 DEF FiniteSubsetsOf
<1>2. IsWellFoundedOn(StrictSubsetOrdering(Nat), FiniteSubsetsOf(Nat))
  BY FS_StrictSubsetOrderingWellFounded
<1>3. \E X \in F : \A Y \in F : <<Y, X>> \notin StrictSubsetOrdering(Nat)
  <2>1. F # {}
    OBVIOUS
  <2> HIDE DEF F
  <2> QED
    BY <1>1, <1>2, <2>1, WFMin
<1>4. PICK x \in T : \A Y \in F : <<Y, 0 .. x>> \notin StrictSubsetOrdering(Nat)
  BY <1>3
<1>5. ASSUME NEW y \in T, y < x PROVE FALSE
  <2>1. 0 .. y \subseteq 0 .. x /\ 0 .. y # 0 .. x
    BY <1>5
  <2>2. <<0 .. y, 0 .. x>> \in StrictSubsetOrdering(Nat)
    BY <2>1 DEF StrictSubsetOrdering
  <2> QED
    BY <1>4, <2>2
<1> QED
  BY <1>5

Points == Int \X Int

\* Squared distances are natural numbers and the same in both directions.
LEMMA Dist2Properties ==
  ASSUME NEW p \in Points, NEW q \in Points
  PROVE  Dist2(p, q) \in Nat /\ Dist2(p, q) = Dist2(q, p)
<1>1. \A x \in Int : x * x \in Nat
  OBVIOUS
<1>2. \A x, y \in Int : (x - y) * (x - y) = (y - x) * (y - x)
  OBVIOUS
<1>3. p[1] \in Int /\ p[2] \in Int /\ q[1] \in Int /\ q[2] \in Int
  BY DEF Points
<1>4. p[1] - q[1] \in Int /\ p[2] - q[2] \in Int
  BY <1>3
<1>5. (p[1] - q[1]) * (p[1] - q[1]) \in Nat /\ (p[2] - q[2]) * (p[2] - q[2]) \in Nat
  BY <1>1, <1>4
<1> QED
  BY <1>2, <1>3, <1>5 DEF Dist2

\* Only a point itself is at no distance.
LEMMA DistanceIsZero ==
  ASSUME NEW p \in Points, NEW q \in Points
  PROVE  /\ Dist2(p, p) = 0
         /\ p # q => Dist2(p, q) > 0
<1>1. /\ p[1] \in Int /\ p[2] \in Int /\ q[1] \in Int /\ q[2] \in Int
      /\ p = <<p[1], p[2]>> /\ q = <<q[1], q[2]>>
  BY DEF Points
<1>2. \A x, y \in Int : /\ (x - y) * (x - y) \in Int
                        /\ (x - y) * (x - y) >= 0
                        /\ x # y => (x - y) * (x - y) > 0
                        /\ (x - x) * (x - x) = 0
  OBVIOUS
<1> DEFINE X == (p[1] - q[1]) * (p[1] - q[1])
           Y == (p[2] - q[2]) * (p[2] - q[2])
<1>3. /\ X \in Int /\ Y \in Int /\ X >= 0 /\ Y >= 0
      /\ p # q => X > 0 \/ Y > 0
  BY <1>1, <1>2
<1>4. Dist2(p, q) = X + Y
  BY DEF Dist2
<1>5. Dist2(p, p) = 0
  BY <1>1, <1>2 DEF Dist2
<1> HIDE DEF X, Y
<1> QED
  BY <1>3, <1>4, <1>5

\* The test of GetGabrielNeighbors: b is a witness against the edge n-a.
InDisk(n, a, b) ==
  Dist2(<<2 * b[1], 2 * b[2]>>, <<n[1] + a[1], n[2] + a[2]>>) < Dist2(n, a)

\* On one axis: n and a are the ends of the edge and b is the witness.
LEMMA Thales ==
  ASSUME NEW n \in Int, NEW a \in Int, NEW b \in Int
  PROVE  (2 * b - (n + a)) * (2 * b - (n + a)) + (n - a) * (n - a)
           = 2 * ((n - b) * (n - b)) + 2 * ((a - b) * (a - b))
  OBVIOUS

\* A witness is nearer to either end than the ends are to each other.
LEMMA WitnessIsNear ==
  ASSUME NEW n \in Points, NEW a \in Points, NEW b \in Points,
         InDisk(n, a, b)
  PROVE  Dist2(n, b) < Dist2(n, a) /\ Dist2(a, b) < Dist2(n, a)
<1>1. /\ n[1] \in Int /\ n[2] \in Int
      /\ a[1] \in Int /\ a[2] \in Int
      /\ b[1] \in Int /\ b[2] \in Int
  BY DEF Points
<1> DEFINE D == Dist2(<<2 * b[1], 2 * b[2]>>, <<n[1] + a[1], n[2] + a[2]>>)
<1>2. /\ Dist2(n, a) \in Nat /\ Dist2(n, b) \in Nat /\ Dist2(a, b) \in Nat
      /\ D \in Nat
  <2>1. /\ <<2 * b[1], 2 * b[2]>> \in Points
        /\ <<n[1] + a[1], n[2] + a[2]>> \in Points
    BY <1>1 DEF Points
  <2> QED
    BY <2>1, Dist2Properties
<1>3. D + Dist2(n, a) = 2 * Dist2(n, b) + 2 * Dist2(a, b)
  <2> DEFINE Sq(x, y) == (x - y) * (x - y)
  <2>1. ASSUME NEW x \in Int, NEW y \in Int PROVE Sq(x, y) \in Int
    OBVIOUS
  <2>2. ASSUME NEW x \in Int, NEW y \in Int, NEW z \in Int
        PROVE  Sq(2 * z, x + y) + Sq(x, y) = 2 * Sq(x, z) + 2 * Sq(y, z)
    BY Thales
  <2>3. /\ D = Sq(2 * b[1], n[1] + a[1]) + Sq(2 * b[2], n[2] + a[2])
        /\ Dist2(n, a) = Sq(n[1], a[1]) + Sq(n[2], a[2])
        /\ Dist2(n, b) = Sq(n[1], b[1]) + Sq(n[2], b[2])
        /\ Dist2(a, b) = Sq(a[1], b[1]) + Sq(a[2], b[2])
    BY DEF Dist2
  <2>4. \A k \in 1 .. 2 : n[k] \in Int /\ a[k] \in Int /\ b[k] \in Int
    BY <1>1
  <2>5. \A k \in 1 .. 2 : Sq(2 * b[k], n[k] + a[k]) + Sq(n[k], a[k])
                            = 2 * Sq(n[k], b[k]) + 2 * Sq(a[k], b[k])
    BY <2>2, <2>4
  <2>6. /\ Sq(2 * b[1], n[1] + a[1]) \in Int /\ Sq(2 * b[2], n[2] + a[2]) \in Int
        /\ Sq(n[1], a[1]) \in Int /\ Sq(n[2], a[2]) \in Int
        /\ Sq(n[1], b[1]) \in Int /\ Sq(n[2], b[2]) \in Int
        /\ Sq(a[1], b[1]) \in Int /\ Sq(a[2], b[2]) \in Int
    BY <1>1, <2>1
  <2> HIDE DEF D, Sq
  <2> QED
    BY <2>3, <2>5, <2>6
<1>4. D < Dist2(n, a)
  BY DEF InDisk
<1> HIDE DEF D
<1> QED
  BY <1>2, <1>3, <1>4

-----------------------------------------------------------------------------
\* Which entries GetGabrielNeighbors keeps.
LEMMA GabrielEdge ==
  ASSUME NEW t, NEW n
  PROVE  GetGabrielNeighbors(t, n) =
           {a \in DOMAIN t :
              /\ t[a].pos # n
              /\ \A b \in DOMAIN t \ {a} : ~InDisk(n, t[a].pos, t[b].pos)}
BY DEF GetGabrielNeighbors, EdgesWithout, InDisk

\* Of the entries that are elsewhere, the nearest one keeps its edge: no
\* witness against it can be nearer still.
LEMMA GabrielKeepsNearest ==
  ASSUME NEW t, NEW n \in Points, \A a \in DOMAIN t : t[a].pos \in Points,
         NEW c \in DOMAIN t, t[c].pos # n
  PROVE  GetGabrielNeighbors(t, n) # {}
<1> DEFINE D(a) == Dist2(n, t[a].pos)
           Elsewhere == {a \in DOMAIN t : t[a].pos # n}
<1>1. \A a \in DOMAIN t : D(a) \in Nat
  BY Dist2Properties
<1>2. PICK a \in Elsewhere : \A b \in Elsewhere : D(a) <= D(b)
  <2> DEFINE T == {D(b) : b \in Elsewhere}
  <2>1. T \in SUBSET Nat /\ T # {}
    BY <1>1
  <2>2. PICK x \in T : \A y \in T : x <= y
    BY <2>1, LeastNatural
  <2> QED
    BY <2>2
<1>3. D(a) > 0
  BY DistanceIsZero
<1>4. ASSUME NEW b \in DOMAIN t \ {a}, InDisk(n, t[a].pos, t[b].pos)
      PROVE  FALSE
  <2>1. D(b) < D(a)
    BY <1>4, WitnessIsNear
  <2>2. CASE t[b].pos # n
    BY <1>1, <1>2, <2>1, <2>2
  <2>3. CASE t[b].pos = n
    \* The node's own position is on the circle, not inside it.
    <3>1. Dist2(t[a].pos, n) < D(a)
      BY <1>4, <2>3, WitnessIsNear
    <3> QED
      BY <1>1, <3>1, Dist2Properties
  <2> QED
    BY <2>2, <2>3
<1> QED
  BY <1>2, <1>4, GabrielEdge

-----------------------------------------------------------------------------
\* The first address of a set that is not empty is in it.
LEMMA FirstProperties ==
  ASSUME NEW A \in SUBSET Nat, A # {}
  PROVE  First(A) \in A
BY LeastNatural DEF First

\* A transitive relation without loops has a minimal element in every finite
\* set: one with as few elements below it as possible.
LEMMA MinimalElement ==
  ASSUME NEW S, IsFiniteSet(S), S # {}, NEW R,
         \A x \in S : <<x, x>> \notin R,
         \A x, y, z \in S : <<x, y>> \in R /\ <<y, z>> \in R => <<x, z>> \in R
  PROVE  \E m \in S : \A x \in S : <<x, m>> \notin R
<1> DEFINE Below(x) == {y \in S : <<y, x>> \in R}
           F == {Below(x) : x \in S}
<1>1. F \subseteq FiniteSubsetsOf(S)
  <2>1. ASSUME NEW x \in S PROVE IsFiniteSet(Below(x)) /\ Below(x) \subseteq S
    BY FS_Subset
  <2> HIDE DEF Below
  <2> QED
    BY <2>1 DEF FiniteSubsetsOf
<1>2. IsWellFoundedOn(StrictSubsetOrdering(S), FiniteSubsetsOf(S))
  BY FS_StrictSubsetOrderingWellFounded
<1>3. \E X \in F : \A Y \in F : <<Y, X>> \notin StrictSubsetOrdering(S)
  <2>1. F # {}
    <3> HIDE DEF Below
    <3> QED
      OBVIOUS
  <2> HIDE DEF F
  <2> QED
    BY <1>1, <1>2, <2>1, WFMin
<1>4. PICK m \in S : \A Y \in F : <<Y, Below(m)>> \notin StrictSubsetOrdering(S)
  BY <1>3
<1>5. ASSUME NEW x \in S, <<x, m>> \in R PROVE FALSE
  <2>1. Below(x) \subseteq Below(m) /\ x \in Below(m) /\ x \notin Below(x)
    BY <1>5
  <2>2. <<Below(x), Below(m)>> \in StrictSubsetOrdering(S)
    BY <2>1 DEF StrictSubsetOrdering
  <2> QED
    BY <1>4, <2>2
<1> QED
  BY <1>5

-----------------------------------------------------------------------------
(***************************************************************************)
(* Angles.  A direction is a vector other than zero.                       *)
(***************************************************************************)
Vectors == Points \ {<<0, 0>>}

\* Where a direction comes from.
LEMMA DirectionType ==
  ASSUME NEW p \in Points, NEW q \in Points
  PROVE  Direction(p, q) \in Vectors
<1>1. /\ p[1] \in Int /\ p[2] \in Int /\ q[1] \in Int /\ q[2] \in Int
      /\ p = <<p[1], p[2]>> /\ q = <<q[1], q[2]>>
  BY DEF Points
<1>2. CASE p = q
  BY <1>2 DEF Direction, Vectors, Points
<1>3. CASE p # q
  <2>1. q[1] - p[1] \in Int /\ q[2] - p[2] \in Int
    BY <1>1
  <2>2. q[1] - p[1] # 0 \/ q[2] - p[2] # 0
    BY <1>1, <1>3
  <2> QED
    BY <1>3, <2>1, <2>2 DEF Direction, Vectors, Points
<1> QED
  BY <1>2, <1>3

\* Cross products of three vectors with a fourth one (Pluecker's relation).
LEMMA Pluecker ==
  ASSUME NEW r \in Points, NEW u \in Points, NEW v \in Points, NEW w \in Points
  PROVE  Cross(u, w) * Cross(r, v)
           = Cross(u, v) * Cross(r, w) + Cross(r, u) * Cross(v, w)
<1>1. \A r1, r2, u1, u2, v1, v2, w1, w2 \in Int :
        (u1 * w2 - u2 * w1) * (r1 * v2 - r2 * v1)
          = (u1 * v2 - u2 * v1) * (r1 * w2 - r2 * w1)
              + (r1 * u2 - r2 * u1) * (v1 * w2 - v2 * w1)
  OBVIOUS
<1>2. /\ r[1] \in Int /\ r[2] \in Int /\ u[1] \in Int /\ u[2] \in Int
      /\ v[1] \in Int /\ v[2] \in Int /\ w[1] \in Int /\ w[2] \in Int
  BY DEF Points
<1> QED
  BY <1>1, <1>2 DEF Cross

\* Cross products are integers.
LEMMA CrossType ==
  ASSUME NEW u \in Points, NEW v \in Points
  PROVE  Cross(u, v) \in Int
<1>1. u[1] \in Int /\ u[2] \in Int /\ v[1] \in Int /\ v[2] \in Int
  BY DEF Points
<1>2. \A x, y \in Int : x * y \in Int
  OBVIOUS
<1>3. u[1] * v[2] \in Int /\ u[2] * v[1] \in Int
  BY <1>1, <1>2
<1> QED
  BY <1>3 DEF Cross

\* The coordinates of a vector times a cross product.
LEMMA CrossTimesCoordinate ==
  ASSUME NEW r \in Points, NEW u \in Points, NEW v \in Points
  PROVE  /\ r[1] * Cross(u, v) = u[1] * Cross(r, v) - v[1] * Cross(r, u)
         /\ r[2] * Cross(u, v) = u[2] * Cross(r, v) - v[2] * Cross(r, u)
<1>1. /\ r[1] \in Int /\ r[2] \in Int /\ u[1] \in Int /\ u[2] \in Int
      /\ v[1] \in Int /\ v[2] \in Int
  BY DEF Points
<1>2. \A r1, r2, u1, u2, v1, v2 \in Int :
        /\ r1 * (u1 * v2 - u2 * v1)
             = u1 * (r1 * v2 - r2 * v1) - v1 * (r1 * u2 - r2 * u1)
        /\ r2 * (u1 * v2 - u2 * v1)
             = u2 * (r1 * v2 - r2 * v1) - v2 * (r1 * u2 - r2 * u1)
  OBVIOUS
<1> QED
  BY <1>1, <1>2 DEF Cross

\* Two vectors that have the direction of a third one, or the opposite one,
\* are on one line.
LEMMA Collinear ==
  ASSUME NEW r \in Vectors, NEW u \in Points, NEW v \in Points,
         Cross(r, u) = 0, Cross(r, v) = 0
  PROVE  Cross(u, v) = 0
<1>1. /\ r \in Points /\ r[1] \in Int /\ r[2] \in Int
      /\ r[1] # 0 \/ r[2] # 0
  BY DEF Vectors, Points
<1>2. u[1] \in Int /\ u[2] \in Int /\ v[1] \in Int /\ v[2] \in Int
  BY DEF Points
<1>3. r[1] * Cross(u, v) = u[1] * 0 - v[1] * 0 /\ r[2] * Cross(u, v) = u[2] * 0 - v[2] * 0
  BY <1>1, CrossTimesCoordinate
<1>4. r[1] * Cross(u, v) = 0 /\ r[2] * Cross(u, v) = 0
  BY <1>2, <1>3
<1>5. \A x, y \in Int : x * y = 0 => x = 0 \/ y = 0
  OBVIOUS
<1> QED
  BY <1>1, <1>4, <1>5, CrossType

\* The order of the angles with a reference direction: nothing is before
\* itself, and what is before what is before.
LEMMA SmallerAngleOrder ==
  ASSUME NEW r \in Vectors, NEW u \in Vectors, NEW v \in Vectors,
         NEW w \in Vectors
  PROVE  /\ ~SmallerAngle(r, u, u)
         /\ SmallerAngle(r, u, v) /\ SmallerAngle(r, v, w)
              => SmallerAngle(r, u, w)
<1>1. \A x \in Vectors : Sector(r, x) \in 0 .. 3
  BY DEF Sector
<1>2. r \in Points /\ u \in Points /\ v \in Points /\ w \in Points
  BY DEF Vectors
<1>3. ~SmallerAngle(r, u, u)
  <2>1. \A x, y \in Int : x * y - y * x = 0
    OBVIOUS
  <2>2. Cross(u, u) = 0
    BY <1>2, <2>1 DEF Cross, Points
  <2> QED
    BY <1>1, <2>2 DEF SmallerAngle
<1>4. ASSUME SmallerAngle(r, u, v), SmallerAngle(r, v, w)
      PROVE  SmallerAngle(r, u, w)
  <2>1. Sector(r, u) <= Sector(r, v) /\ Sector(r, v) <= Sector(r, w)
    BY <1>1, <1>4 DEF SmallerAngle
  <2>2. CASE Sector(r, u) # Sector(r, v) \/ Sector(r, v) # Sector(r, w)
    <3>1. Sector(r, u) < Sector(r, w)
      BY <1>1, <2>1, <2>2
    <3> QED
      BY <3>1 DEF SmallerAngle
  <2>3. CASE Sector(r, u) = Sector(r, v) /\ Sector(r, v) = Sector(r, w)
    <3> DEFINE A == Cross(u, w)
               B == Cross(u, v)
               C == Cross(v, w)
               X == Cross(r, u)
               Y == Cross(r, v)
               Z == Cross(r, w)
    <3>1. B > 0 /\ C > 0
      BY <1>1, <1>4, <2>3 DEF SmallerAngle
    <3>2. /\ A \in Int /\ B \in Int /\ C \in Int
          /\ X \in Int /\ Y \in Int /\ Z \in Int
      BY <1>2, CrossType
    <3>3. A * Y = B * Z + X * C
      BY <1>2, Pluecker
    <3>4. \/ X > 0 /\ Y > 0 /\ Z > 0
          \/ X < 0 /\ Y < 0 /\ Z < 0
      <4>1. X # 0
        <5>1. X = 0 => Y = 0
          BY <2>3 DEF Sector
        <5> QED
          BY <1>2, <3>1, <3>2, <5>1, Collinear
      <4>2. /\ Y # 0 /\ Z # 0
            /\ X > 0 <=> Y > 0
            /\ Y > 0 <=> Z > 0
        BY <2>3, <4>1 DEF Sector
      <4> HIDE DEF X, Y, Z
      <4> QED
        BY <3>2, <4>1, <4>2
    <3>5. A > 0
      <4>1. \A x, y \in Int : /\ x > 0 /\ y > 0 => x * y > 0
                              /\ x > 0 /\ y < 0 => x * y < 0
                              /\ x < 0 /\ y > 0 => x * y < 0
                              /\ x <= 0 /\ y > 0 => x * y <= 0
                              /\ x <= 0 /\ y < 0 => x * y >= 0
                              /\ x * y \in Int
        OBVIOUS
      <4> HIDE DEF A, B, C, X, Y, Z
      <4>2. CASE X > 0 /\ Y > 0 /\ Z > 0
        <5>1. B * Z > 0 /\ X * C > 0 /\ B * Z \in Int /\ X * C \in Int
          BY <3>1, <3>2, <4>1, <4>2
        <5>2. A <= 0 => A * Y <= 0
          BY <3>2, <4>1, <4>2
        <5> QED
          BY <3>2, <3>3, <5>1, <5>2
      <4>3. CASE X < 0 /\ Y < 0 /\ Z < 0
        <5>1. B * Z < 0 /\ X * C < 0 /\ B * Z \in Int /\ X * C \in Int
          BY <3>1, <3>2, <4>1, <4>3
        <5>2. A <= 0 => A * Y >= 0
          BY <3>2, <4>1, <4>3
        <5> QED
          BY <3>2, <3>3, <5>1, <5>2
      <4> QED
        BY <3>4, <4>2, <4>3
    <3> QED
      BY <2>3, <3>5 DEF SmallerAngle
  <2> QED
    BY <2>2, <2>3
<1> QED
  BY <1>3, <1>4

-----------------------------------------------------------------------------
(***************************************************************************)
(* What the two searches return.                                           *)
(***************************************************************************)
IsTable(t) ==
  /\ DOMAIN t \subseteq Addrs
  /\ IsFiniteSet(DOMAIN t)
  /\ \A a \in DOMAIN t : t[a].pos \in Points

\* A planar subgraph has none but the neighbours in the table.
LEMMA PlanarNeighborsInTable ==
  ASSUME NEW t, NEW n, NEW graphType
  PROVE  PlanarNeighbors(t, n, graphType) \subseteq DOMAIN t
<1>1. GetGabrielNeighbors(t, n) \subseteq DOMAIN t
  BY DEF GetGabrielNeighbors, EdgesWithout
<1>2. GetRngNeighbors(t, n) \subseteq DOMAIN t
  BY DEF GetRngNeighbors, EdgesWithout
<1> QED
  BY <1>1, <1>2 DEF PlanarNeighbors

\* BestNeighbor returns no address or one in the table.
LEMMA BestNeighborProperties ==
  ASSUME NEW t, IsTable(t), NEW destPos, NEW nodePos
  PROVE  BestNeighbor(t, destPos, nodePos) \in DOMAIN t \cup {Zero}
<1> DEFINE best == {a \in DOMAIN t : \A b \in DOMAIN t :
                      Dist2(t[a].pos, destPos) <= Dist2(t[b].pos, destPos)}
<1>1. best \in SUBSET Nat
  BY TableAssumption DEF IsTable
<1>2. best # {} => First(best) \in best
  BY <1>1, FirstProperties
<1> QED
  BY <1>2 DEF BestNeighbor

\* The neighbour that BestNeighbor returns is nearer than the node itself.
LEMMA BestNeighborIsNearer ==
  ASSUME NEW t, IsTable(t), NEW destPos \in Points, NEW nodePos \in Points,
         BestNeighbor(t, destPos, nodePos) # Zero
  PROVE  Dist2(t[BestNeighbor(t, destPos, nodePos)].pos, destPos)
           < Dist2(nodePos, destPos)
<1> DEFINE D(p) == Dist2(p, destPos)
           best == {a \in DOMAIN t : \A b \in DOMAIN t :
                      D(t[a].pos) <= D(t[b].pos)}
<1>1. PICK a \in best : D(nodePos) > D(t[a].pos)
  BY DEF BestNeighbor
<1>2. BestNeighbor(t, destPos, nodePos) = First(best)
  BY <1>1 DEF BestNeighbor
<1>3. First(best) \in best
  <2>1. best \in SUBSET Nat /\ best # {}
    BY <1>1, TableAssumption DEF IsTable
  <2> HIDE DEF best
  <2> QED
    BY <2>1, FirstProperties
<1>4. D(t[First(best)].pos) <= D(t[a].pos)
  BY <1>1, <1>3
<1>5. D(nodePos) \in Nat /\ D(t[a].pos) \in Nat /\ D(t[First(best)].pos) \in Nat
  BY <1>1, <1>3, Dist2Properties DEF IsTable
<1> HIDE DEF D, best
<1>6. D(t[First(best)].pos) < D(nodePos)
  BY <1>1, <1>4, <1>5
<1> QED
  BY <1>2, <1>6 DEF D

\* A neighbour that is elsewhere leaves an edge in the full graph and in the
\* Gabriel graph.
LEMMA SomeEdge ==
  ASSUME NEW t, IsTable(t), NEW n \in Points, NEW graphType \in 0 .. 1,
         NEW c \in DOMAIN t, t[c].pos # n
  PROVE  PlanarNeighbors(t, n, graphType) # {}
<1>1. GetGabrielNeighbors(t, n) # {}
  BY GabrielKeepsNearest DEF IsTable
<1> QED
  BY <1>1 DEF PlanarNeighbors

\* BestAngle returns an address of the planar subgraph unless that is empty,
\* and one in a direction other than straight back if there is one.
LEMMA BestAngleProperties ==
  ASSUME NEW t, IsTable(t), NEW previousHop \in Points, NEW n \in Points,
         NEW graphType
  PROVE  LET neighbors == PlanarNeighbors(t, n, graphType)
             ahead == {a \in neighbors :
                         Sector(Direction(n, previousHop),
                                Direction(n, t[a].pos)) # 0}
             best == BestAngle(t, previousHop, n, graphType)
         IN  /\ neighbors = {} => best = Zero
             /\ neighbors # {} => best \in neighbors
             /\ ahead # {} => best \in ahead
<1> DEFINE neighbors == PlanarNeighbors(t, n, graphType)
           ref == Direction(n, previousHop)
           To(a) == Direction(n, t[a].pos)
           ahead == {a \in neighbors : Sector(ref, To(a)) # 0}
           least == {a \in ahead : \A b \in ahead :
                       ~SmallerAngle(ref, To(b), To(a))}
           R == {e \in ahead \X ahead : SmallerAngle(ref, To(e[1]), To(e[2]))}
<1>1. neighbors \subseteq DOMAIN t
  BY PlanarNeighborsInTable
<1>2. neighbors \in SUBSET Nat /\ ahead \in SUBSET Nat /\ least \in SUBSET Nat
  BY <1>1, TableAssumption DEF IsTable
<1>3. ahead # {} => least # {}
  <2>1. IsFiniteSet(ahead)
    BY <1>1, FS_Subset DEF IsTable
  <2>2. ref \in Vectors /\ \A a \in ahead : To(a) \in Vectors
    BY <1>1, DirectionType DEF IsTable
  <2>3. \A a, b \in ahead : <<a, b>> \in R <=> SmallerAngle(ref, To(a), To(b))
    OBVIOUS
  <2> HIDE DEF ahead, ref, To, R
  <2>4. \A a \in ahead : <<a, a>> \notin R
    BY <2>2, <2>3, SmallerAngleOrder
  <2>5. \A a, b, c \in ahead : <<a, b>> \in R /\ <<b, c>> \in R => <<a, c>> \in R
    BY <2>2, <2>3, SmallerAngleOrder
  <2>6. ahead # {} => \E m \in ahead : \A a \in ahead : <<a, m>> \notin R
    BY <2>1, <2>4, <2>5, MinimalElement
  <2> QED
    BY <2>3, <2>6
<1>4. BestAngle(t, previousHop, n, graphType) =
        IF neighbors = {} THEN Zero
        ELSE IF ahead = {} THEN First(neighbors) ELSE First(least)
  BY DEF BestAngle
<1>5. /\ neighbors # {} => First(neighbors) \in neighbors
      /\ least # {} => First(least) \in least
  <2> HIDE DEF neighbors, least
  <2> QED
    BY <1>2, FirstProperties
<1>6. ahead \subseteq neighbors /\ least \subseteq ahead
  OBVIOUS
<1>7. /\ neighbors = {} => BestAngle(t, previousHop, n, graphType) = Zero
      /\ neighbors # {} => BestAngle(t, previousHop, n, graphType) \in neighbors
      /\ ahead # {} => BestAngle(t, previousHop, n, graphType) \in ahead
  <2> HIDE DEF neighbors, ahead, least
  <2> QED
    BY <1>3, <1>4, <1>5, <1>6
<1> QED
  BY <1>7

=============================================================================
