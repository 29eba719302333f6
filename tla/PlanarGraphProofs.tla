-------------------------- MODULE PlanarGraphProofs --------------------------
(***************************************************************************)
(* What the Gabriel test of the position table does for any positions of   *)
(* any number of nodes.  What is inside the circle with the edge as its    *)
(* diameter is nearer to either end of the edge than the other end is, so  *)
(* a witness that one end hears the other end hears as well.               *)
(***************************************************************************)
EXTENDS PlanarGraph, PositionTableProofs

\* A table has the neighbours in range, with their positions.
LEMMA TableProperties ==
  ASSUME NEW n \in Addrs
  PROVE  /\ DOMAIN Table(n) = {b \in Addrs : InRange(n, b)}
         /\ \A a \in DOMAIN Table(n) : Table(n)[a].pos = position[a]
BY DEF Table

\* The positions are points of the plane, at every instant.
PositionsOK == position \in [Addrs -> Points]

\* Nodes stay on points of the plane wherever they move.
LEMMA PositionsInvariant == Spec => []PositionsOK
<1>1. Init => PositionsOK
  BY GraphAssumption DEF Init, PositionsOK, Points
<1>2. PositionsOK /\ [Next]_position => PositionsOK'
  BY GraphAssumption DEF PositionsOK, Points, Next, Move
<1> QED
  BY <1>1, <1>2, PTL DEF Spec

\* One direction of the symmetry.
LEMMA OtherEndKeepsEdge ==
  ASSUME PositionsOK, Apart, NEW n \in Addrs, NEW a \in Addrs,
         a \in Gabriel(n)
  PROVE  n \in Gabriel(a)
<1> DEFINE P(m) == position[m]
<1>1. /\ InRange(n, a)
      /\ \A b \in Addrs \ {a} : InRange(n, b) => ~InDisk(P(n), P(a), P(b))
  BY GabrielEdge, TableProperties DEF Gabriel
<1>2. \A m \in Addrs : P(m) \in Points
  BY DEF PositionsOK
<1>3. Dist2(P(n), P(a)) = Dist2(P(a), P(n)) /\ Dist2(P(n), P(a)) \in Nat
  BY <1>2, Dist2Properties
<1>4. InRange(a, n)
  BY <1>1, <1>3 DEF InRange
<1>5. P(n) # P(a)
  BY <1>1 DEF Apart, InRange
<1>6. ASSUME NEW b \in Addrs \ {n}, InRange(a, b), InDisk(P(a), P(n), P(b))
      PROVE  FALSE
  <2>1. InDisk(P(n), P(a), P(b))
    <3>1. /\ P(n)[1] \in Int /\ P(n)[2] \in Int
          /\ P(a)[1] \in Int /\ P(a)[2] \in Int
      BY <1>2 DEF Points
    <3>2. P(n)[1] + P(a)[1] = P(a)[1] + P(n)[1] /\ P(n)[2] + P(a)[2] = P(a)[2] + P(n)[2]
      BY <3>1
    <3> QED
      BY <1>3, <1>6, <3>2 DEF InDisk
  <2>2. Dist2(P(n), P(b)) < Dist2(P(n), P(a))
    BY <1>2, <2>1, WitnessIsNear
  <2>3. Dist2(P(n), P(b)) \in Nat
    BY <1>2, Dist2Properties
  <2>4. Dist2(P(n), P(b)) <= Range2
    BY <1>1, <1>3, <2>2, <2>3, GraphAssumption DEF InRange
  <2>5. InRange(n, b) /\ b # a
    BY <1>6, <2>4 DEF InRange
  <2> QED
    BY <1>1, <2>1, <2>5
<1> QED
  BY <1>4, <1>5, <1>6, GabrielEdge, TableProperties DEF Gabriel

\* Both ends of an edge take the same decision on it, each on its own table:
\* for any positions, any radio range and any number of nodes.
THEOREM GabrielSymmetry == Spec => []GabrielIsSymmetric
<1>1. PositionsOK => GabrielIsSymmetric
  BY OtherEndKeepsEdge DEF GabrielIsSymmetric
<1> QED
  BY <1>1, PositionsInvariant, PTL

\* The shortest way out of a set of nodes is an edge: a witness against it
\* would be an end of a shorter one.
LEMMA ShortestWayOut ==
  ASSUME PositionsOK, Apart, NEW S \in SUBSET Addrs,
         NEW n \in S, ~(Hears(n) \subseteq S)
  PROVE  \E m \in S : ~(Gabriel(m) \subseteq S)
<1> DEFINE P(m) == position[m]
           Ways == {e \in S \X (Addrs \ S) : InRange(e[1], e[2])}
           Lengths == {Dist2(P(e[1]), P(e[2])) : e \in Ways}
<1>1. \A m \in Addrs : P(m) \in Points
  BY DEF PositionsOK
<1>2. Lengths \in SUBSET Nat
  BY <1>1, Dist2Properties
<1>3. Lengths # {}
  <2>1. PICK a \in Addrs \ S : InRange(n, a)
    BY DEF Hears
  <2>2. <<n, a>> \in Ways
    BY <2>1
  <2> QED
    BY <2>2
<1>4. PICK e \in Ways : \A f \in Ways : Dist2(P(e[1]), P(e[2])) <= Dist2(P(f[1]), P(f[2]))
  <2>1. PICK x \in Lengths : \A y \in Lengths : x <= y
    <3> HIDE DEF Lengths
    <3> QED
      BY <1>2, <1>3, LeastNatural
  <2> QED
    BY <2>1
<1> DEFINE m == e[1]
           a == e[2]
<1>5. m \in S /\ a \in Addrs \ S /\ InRange(m, a)
  OBVIOUS
<1>6. \A x \in S, y \in Addrs \ S :
        InRange(x, y) => Dist2(P(m), P(a)) <= Dist2(P(x), P(y))
  <2> SUFFICES ASSUME NEW x \in S, NEW y \in Addrs \ S, InRange(x, y)
               PROVE  Dist2(P(m), P(a)) <= Dist2(P(x), P(y))
    OBVIOUS
  <2>1. <<x, y>> \in Ways
    OBVIOUS
  <2> QED
    BY <1>4, <2>1
<1> HIDE DEF m, a, Ways
<1>7. a \in Gabriel(m)
  <2>1. ASSUME NEW b \in Addrs \ {a}, InRange(m, b), InDisk(P(m), P(a), P(b))
        PROVE  FALSE
    <3>1. /\ P(m) \in Points /\ P(a) \in Points /\ P(b) \in Points
      BY <1>1, <1>5
    <3>2. /\ Dist2(P(m), P(b)) < Dist2(P(m), P(a))
          /\ Dist2(P(a), P(b)) < Dist2(P(m), P(a))
      BY <2>1, <3>1, WitnessIsNear
    <3>3. /\ Dist2(P(m), P(b)) \in Nat /\ Dist2(P(m), P(a)) \in Nat
          /\ Dist2(P(b), P(a)) \in Nat /\ Dist2(P(a), P(b)) = Dist2(P(b), P(a))
      BY <3>1, Dist2Properties
    <3>4. CASE b \in S
      <4>1. Dist2(P(b), P(a)) <= Range2
        BY <1>5, <3>2, <3>3, GraphAssumption DEF InRange
      <4>2. InRange(b, a)
        BY <2>1, <4>1 DEF InRange
      <4>3. Dist2(P(m), P(a)) <= Dist2(P(b), P(a))
        BY <1>5, <1>6, <3>4, <4>2
      <4> QED
        BY <3>2, <3>3, <4>3
    <3>5. CASE b \notin S
      <4>1. Dist2(P(m), P(a)) <= Dist2(P(m), P(b))
        BY <1>5, <1>6, <2>1, <3>5
      <4> QED
        BY <3>2, <3>3, <4>1
    <3> QED
      BY <3>4, <3>5
  <2>2. P(m) # P(a)
    BY <1>5 DEF Apart, InRange
  <2> QED
    BY <1>5, <2>1, <2>2, GabrielEdge, TableProperties DEF Gabriel
<1> QED
  BY <1>5, <1>7

\* Dropping edges separates no two nodes that can reach each other: for any
\* positions, any radio range and any number of nodes.
THEOREM GabrielConnects == Spec => []GabrielKeepsConnections
<1>1. PositionsOK => GabrielKeepsConnections
  BY ShortestWayOut DEF GabrielKeepsConnections
<1> QED
  BY <1>1, PositionsInvariant, PTL

-----------------------------------------------------------------------------
(***************************************************************************)
(* Edges that cross.  One end of one of them is taken as the origin; a is  *)
(* its other end, and b and c are the ends of the other edge.  No end is   *)
(* inside the circle of the other edge, so at each of them the two         *)
(* directions to the ends of the other edge form no obtuse angle.  The     *)
(* four angles of the quadrilateral would be too small if one were acute.  *)
(***************************************************************************)
\* The scalar products at the four ends, weighted with the areas.
LEMMA CrossingIdentity ==
  ASSUME NEW a1 \in Int, NEW a2 \in Int, NEW b1 \in Int, NEW b2 \in Int,
         NEW c1 \in Int, NEW c2 \in Int
  PROVE  LET u == a1 * b2 - a2 * b1
             v == a1 * c2 - a2 * c1
             w == b1 * c2 - b2 * c1
             x == w - v + u
             B == b1 * (b1 - a1) + b2 * (b2 - a2)
             C == c1 * (c1 - a1) + c2 * (c2 - a2)
             O == b1 * c1 + b2 * c2
             A == (a1 - b1) * (a1 - c1) + (a2 - b2) * (a2 - c2)
         IN  v * B - u * C + w * A - x * O = 0
OBVIOUS

\* Of two numbers with a negative product one is negative.
LEMMA NegativeProduct ==
  ASSUME NEW x \in Int, NEW y \in Int, x * y < 0
  PROVE  (x < 0 /\ y > 0) \/ (x > 0 /\ y < 0)
OBVIOUS

\* A product with a positive factor is zero only with the other factor.
LEMMA PositiveFactor ==
  ASSUME NEW x \in Int, NEW y \in Int, x > 0, y >= 0
  PROVE  x * y \in Nat /\ (x * y = 0 => y = 0)
OBVIOUS

\* Where two edges cross, the four weights have the same sign.
LEMMA WeightedSum ==
  ASSUME NEW u \in Int, NEW v \in Int, NEW w \in Int, NEW x \in Int,
         NEW A \in Int, NEW B \in Int, NEW C \in Int, NEW O \in Int,
         A >= 0, B >= 0, C >= 0, O >= 0,
         u * v < 0, w * x < 0, x = w - v + u,
         v * B - u * C + w * A - x * O = 0
  PROVE  A = 0 /\ B = 0 /\ C = 0 /\ O = 0
<1>1. /\ (u < 0 /\ v > 0) \/ (u > 0 /\ v < 0)
      /\ (w < 0 /\ x > 0) \/ (w > 0 /\ x < 0)
  BY NegativeProduct
<1>2. CASE u < 0 /\ v > 0
  <2>1. w > 0 /\ x < 0
    BY <1>1, <1>2
  <2>2. -u \in Int /\ -u > 0 /\ -x \in Int /\ -x > 0
    BY <1>2, <2>1
  <2>3. /\ v * B \in Nat /\ (v * B = 0 => B = 0)
        /\ (-u) * C \in Nat /\ ((-u) * C = 0 => C = 0)
        /\ w * A \in Nat /\ (w * A = 0 => A = 0)
        /\ (-x) * O \in Nat /\ ((-x) * O = 0 => O = 0)
    BY <1>2, <2>1, <2>2, PositiveFactor
  <2>4. v * B + (-u) * C + w * A + (-x) * O = 0
    OBVIOUS
  <2> QED
    BY <2>3, <2>4
<1>3. CASE u > 0 /\ v < 0
  <2>1. w < 0 /\ x > 0
    BY <1>1, <1>3
  <2>2. -v \in Int /\ -v > 0 /\ -w \in Int /\ -w > 0
    BY <1>3, <2>1
  <2>3. /\ (-v) * B \in Nat /\ ((-v) * B = 0 => B = 0)
        /\ u * C \in Nat /\ (u * C = 0 => C = 0)
        /\ (-w) * A \in Nat /\ ((-w) * A = 0 => A = 0)
        /\ x * O \in Nat /\ (x * O = 0 => O = 0)
    BY <1>3, <2>1, <2>2, PositiveFactor
  <2>4. (-v) * B + u * C + (-w) * A + x * O = 0
    OBVIOUS
  <2> QED
    BY <2>3, <2>4
<1> QED
  BY <1>1, <1>2, <1>3

\* On one axis: what a circle has to do with the scalar product.
LEMMA OutsideOnAxis ==
  ASSUME NEW x \in Int, NEW y \in Int, NEW z \in Int
  PROVE  (2 * z - (x + y)) * (2 * z - (x + y)) - (x - y) * (x - y)
           = 4 * ((z - x) * (z - y))
OBVIOUS

\* Seen from outside the circle, the edge spans no obtuse angle.
LEMMA Outside ==
  ASSUME NEW p \in Points, NEW q \in Points, NEW r \in Points, ~InDisk(p, q, r)
  PROVE  (r[1] - p[1]) * (r[1] - q[1]) + (r[2] - p[2]) * (r[2] - q[2]) >= 0
<1> DEFINE L(k) == (2 * r[k] - (p[k] + q[k])) * (2 * r[k] - (p[k] + q[k]))
           D(k) == (p[k] - q[k]) * (p[k] - q[k])
           F(k) == (r[k] - p[k]) * (r[k] - q[k])
<1>1. \A k \in 1 .. 2 : p[k] \in Int /\ q[k] \in Int /\ r[k] \in Int
  BY DEF Points
<1>2. \A k \in 1 .. 2 : L(k) - D(k) = 4 * F(k)
  BY <1>1, OutsideOnAxis
<1>3. \A k \in 1 .. 2 : L(k) \in Int /\ D(k) \in Int /\ F(k) \in Int
  BY <1>1
<1>4. ~(L(1) + L(2) < D(1) + D(2))
  BY DEF InDisk, Dist2
<1> HIDE DEF L, D, F
<1>5. F(1) + F(2) >= 0
  <2>1. L(1) - D(1) = 4 * F(1) /\ L(2) - D(2) = 4 * F(2)
    BY <1>2
  <2>2. /\ L(1) \in Int /\ D(1) \in Int /\ F(1) \in Int
        /\ L(2) \in Int /\ D(2) \in Int /\ F(2) \in Int
    BY <1>3
  <2> QED
    BY <1>4, <2>1, <2>2
<1> QED
  BY <1>5 DEF F

\* The squared length of what the sums of the ends differ by.
LEMMA SumOfAngles ==
  ASSUME NEW a \in Int, NEW b \in Int, NEW c \in Int
  PROVE  /\ b * (b - a) + c * (c - a) + b * c + (a - b) * (a - c)
              = (a - (b + c)) * (a - (b + c))
         /\ a = b + c => a * a - (b - c) * (b - c) = 4 * (b * c)
OBVIOUS

\* A sum of squares is zero only with every one of them.
LEMMA SumOfSquares ==
  ASSUME NEW x \in Int, NEW y \in Int, x * x + y * y = 0
  PROVE  x = 0 /\ y = 0
<1>1. x * x \in Nat /\ y * y \in Nat
  OBVIOUS
<1>2. x * x = 0 /\ y * y = 0
  BY <1>1
<1>3. \A z \in Int : z * z = 0 => z = 0
  OBVIOUS
<1> QED
  BY <1>2, <1>3

\* Edges that cross, none with an end inside the circle of the other, are the
\* diagonals of a rectangle.
LEMMA CrossingEdges ==
  ASSUME NEW p \in Points, NEW q \in Points, NEW r \in Points, NEW s \in Points,
         EdgesCross(p, q, r, s),
         ~InDisk(p, q, r), ~InDisk(p, q, s), ~InDisk(r, s, p), ~InDisk(r, s, q)
  PROVE  /\ Dist2(p, q) = Dist2(r, s)
         /\ p[1] + q[1] = r[1] + s[1] /\ p[2] + q[2] = r[2] + s[2]
<1> DEFINE a(k) == q[k] - p[k]
           b(k) == r[k] - p[k]
           c(k) == s[k] - p[k]
           u == a(1) * b(2) - a(2) * b(1)
           v == a(1) * c(2) - a(2) * c(1)
           w == b(1) * c(2) - b(2) * c(1)
           x == w - v + u
           B == b(1) * (b(1) - a(1)) + b(2) * (b(2) - a(2))
           C == c(1) * (c(1) - a(1)) + c(2) * (c(2) - a(2))
           O == b(1) * c(1) + b(2) * c(2)
           A == (a(1) - b(1)) * (a(1) - c(1)) + (a(2) - b(2)) * (a(2) - c(2))
<1>1. /\ p[1] \in Int /\ p[2] \in Int /\ q[1] \in Int /\ q[2] \in Int
      /\ r[1] \in Int /\ r[2] \in Int /\ s[1] \in Int /\ s[2] \in Int
  BY DEF Points
<1>2. /\ a(1) \in Int /\ a(2) \in Int /\ b(1) \in Int /\ b(2) \in Int
      /\ c(1) \in Int /\ c(2) \in Int
  BY <1>1
<1>3. /\ Side(p, q, r) = u /\ Side(p, q, s) = v
      /\ Side(r, s, p) = w /\ Side(r, s, q) = x
  BY <1>1 DEF Side, Cross
<1>4. u * v < 0 /\ w * x < 0
  <2> HIDE DEF u, v, w, x
  <2> QED
    BY <1>3 DEF EdgesCross
<1>5. B >= 0 /\ C >= 0 /\ O >= 0 /\ A >= 0
  <2>1. /\ (r[1] - p[1]) * (r[1] - q[1]) + (r[2] - p[2]) * (r[2] - q[2]) >= 0
        /\ (s[1] - p[1]) * (s[1] - q[1]) + (s[2] - p[2]) * (s[2] - q[2]) >= 0
        /\ (p[1] - r[1]) * (p[1] - s[1]) + (p[2] - r[2]) * (p[2] - s[2]) >= 0
        /\ (q[1] - r[1]) * (q[1] - s[1]) + (q[2] - r[2]) * (q[2] - s[2]) >= 0
    BY Outside
  <2>2. /\ r[1] - q[1] = b(1) - a(1) /\ r[2] - q[2] = b(2) - a(2)
        /\ s[1] - q[1] = c(1) - a(1) /\ s[2] - q[2] = c(2) - a(2)
        /\ q[1] - r[1] = a(1) - b(1) /\ q[2] - r[2] = a(2) - b(2)
        /\ q[1] - s[1] = a(1) - c(1) /\ q[2] - s[2] = a(2) - c(2)
    BY <1>1
  <2>3. (p[1] - r[1]) * (p[1] - s[1]) + (p[2] - r[2]) * (p[2] - s[2]) = O
    BY <1>1
  <2> QED
    BY <2>1, <2>2, <2>3
<1>6. v * B - u * C + w * A - x * O = 0
  <2> HIDE DEF a, b, c
  <2> QED
    BY <1>2, CrossingIdentity
<1>7. /\ u \in Int /\ v \in Int /\ w \in Int /\ x \in Int
      /\ A \in Int /\ B \in Int /\ C \in Int /\ O \in Int
  <2> HIDE DEF a, b, c
  <2> QED
    BY <1>2
<1>8. A = 0 /\ B = 0 /\ C = 0 /\ O = 0
  <2>1. x = w - v + u
    OBVIOUS
  <2> HIDE DEF u, v, w, x, A, B, C, O
  <2> QED
    BY <1>4, <1>5, <1>6, <1>7, <2>1, WeightedSum
<1>9. a(1) = b(1) + c(1) /\ a(2) = b(2) + c(2)
  <2> DEFINE d(k) == a(k) - (b(k) + c(k))
  <2> HIDE DEF a, b, c
  <2>1. d(1) \in Int /\ d(2) \in Int
    BY <1>2
  <2>2. d(1) * d(1) + d(2) * d(2) = A + B + C + O
    <3>1. \A k \in 1 .. 2 :
            b(k) * (b(k) - a(k)) + c(k) * (c(k) - a(k)) + b(k) * c(k)
              + (a(k) - b(k)) * (a(k) - c(k)) = d(k) * d(k)
      BY <1>2, SumOfAngles
    <3> QED
      BY <1>2, <3>1
  <2>3. d(1) * d(1) + d(2) * d(2) = 0
    BY <1>7, <1>8, <2>2
  <2> HIDE DEF d
  <2>4. d(1) = 0 /\ d(2) = 0
    BY <2>1, <2>3, SumOfSquares
  <2>5. \A i, j \in Int : i - j = 0 => i = j
    OBVIOUS
  <2>6. b(1) + c(1) \in Int /\ b(2) + c(2) \in Int
    BY <1>2
  <2>7. a(1) - (b(1) + c(1)) = 0 /\ a(2) - (b(2) + c(2)) = 0
    BY <2>4 DEF d
  <2> QED
    BY <1>2, <2>5, <2>6, <2>7
<1>10. p[1] + q[1] = r[1] + s[1] /\ p[2] + q[2] = r[2] + s[2]
  <2>1. /\ q[1] = p[1] + a(1) /\ r[1] = p[1] + b(1) /\ s[1] = p[1] + c(1)
        /\ q[2] = p[2] + a(2) /\ r[2] = p[2] + b(2) /\ s[2] = p[2] + c(2)
    BY <1>1
  <2> HIDE DEF a, b, c
  <2>2. /\ p[1] + (p[1] + a(1)) = (p[1] + b(1)) + (p[1] + c(1))
        /\ p[2] + (p[2] + a(2)) = (p[2] + b(2)) + (p[2] + c(2))
    BY <1>1, <1>2, <1>9
  <2> QED
    BY <2>1, <2>2
<1>11. Dist2(p, q) = Dist2(r, s)
  <2> DEFINE m(k) == a(k) * a(k)
             n(k) == (b(k) - c(k)) * (b(k) - c(k))
             o(k) == b(k) * c(k)
  <2>1. /\ Dist2(p, q) = m(1) + m(2)
        /\ Dist2(r, s) = n(1) + n(2)
    BY <1>1 DEF Dist2
  <2> HIDE DEF a, b, c
  <2>2. m(1) - n(1) = 4 * o(1) /\ m(2) - n(2) = 4 * o(2)
    BY <1>2, <1>9, SumOfAngles
  <2>3. o(1) + o(2) = 0
    BY <1>8
  <2>4. /\ m(1) \in Int /\ m(2) \in Int /\ n(1) \in Int /\ n(2) \in Int
        /\ o(1) \in Int /\ o(2) \in Int
    BY <1>2
  <2> HIDE DEF m, n, o
  <2> QED
    BY <2>1, <2>2, <2>3, <2>4
<1> QED
  BY <1>10, <1>11

\* No node is inside the circle of an edge, whether or not the ends hear it.
LEMMA CircleIsEmpty ==
  ASSUME PositionsOK, NEW n \in Addrs, NEW a \in Gabriel(n),
         NEW b \in Addrs, b # a, b # n
  PROVE  a \in Addrs /\ ~InDisk(position[n], position[a], position[b])
<1>1. /\ a \in Addrs /\ InRange(n, a)
      /\ InRange(n, b) => ~InDisk(position[n], position[a], position[b])
  BY GabrielEdge, TableProperties DEF Gabriel
<1>2. /\ position[n] \in Points /\ position[a] \in Points /\ position[b] \in Points
  BY <1>1 DEF PositionsOK
<1>3. ASSUME InDisk(position[n], position[a], position[b]) PROVE InRange(n, b)
  <2>1. Dist2(position[n], position[b]) < Dist2(position[n], position[a])
    BY <1>2, <1>3, WitnessIsNear
  <2>2. /\ Dist2(position[n], position[b]) \in Nat
        /\ Dist2(position[n], position[a]) \in Nat
    BY <1>2, Dist2Properties
  <2> QED
    BY <1>1, <2>1, <2>2, GraphAssumption DEF InRange
<1> QED
  BY <1>1, <1>3

\* The ends of edges that cross are four nodes.
LEMMA CrossingEnds ==
  ASSUME NEW p \in Points, NEW q \in Points, NEW r \in Points, NEW s \in Points,
         EdgesCross(p, q, r, s)
  PROVE  r # p /\ r # q /\ s # p /\ s # q
<1>1. /\ p[1] \in Int /\ p[2] \in Int /\ q[1] \in Int /\ q[2] \in Int
      /\ r[1] \in Int /\ r[2] \in Int /\ s[1] \in Int /\ s[2] \in Int
  BY DEF Points
<1>2. /\ Side(p, q, r) \in Int /\ Side(p, q, s) \in Int
      /\ Side(r, s, p) \in Int /\ Side(r, s, q) \in Int
  BY <1>1 DEF Side, Cross
<1>3. /\ Side(p, q, r) # 0 /\ Side(p, q, s) # 0
  BY <1>2 DEF EdgesCross
<1>4. Side(p, q, p) = 0 /\ Side(p, q, q) = 0
  BY <1>1 DEF Side, Cross
<1> QED
  BY <1>3, <1>4

\* Graph type 1 is planar but for the diagonals of rectangles: for any
\* positions, any radio range and any number of nodes.
THEOREM GabrielIsPlanar == Spec => []GabrielCrossesOnlyInRectangles
<1>1. PositionsOK => GabrielCrossesOnlyInRectangles
  <2> SUFFICES ASSUME PositionsOK, NEW n \in Addrs, NEW m \in Addrs,
                      NEW a \in Gabriel(n), NEW b \in Gabriel(m),
                      EdgesCross(position[n], position[a], position[m], position[b])
               PROVE  /\ Dist2(position[n], position[a]) = Dist2(position[m], position[b])
                      /\ position[n][1] + position[a][1] = position[m][1] + position[b][1]
                      /\ position[n][2] + position[a][2] = position[m][2] + position[b][2]
    BY DEF GabrielCrossesOnlyInRectangles
  <2>1. a \in Addrs /\ b \in Addrs
    BY GabrielEdge, TableProperties DEF Gabriel
  <2>2. /\ position[n] \in Points /\ position[a] \in Points
        /\ position[m] \in Points /\ position[b] \in Points
    BY <2>1 DEF PositionsOK
  <2>3. m # n /\ m # a /\ b # n /\ b # a
    BY <2>2, CrossingEnds
  <2>4. /\ ~InDisk(position[n], position[a], position[m])
        /\ ~InDisk(position[n], position[a], position[b])
        /\ ~InDisk(position[m], position[b], position[n])
        /\ ~InDisk(position[m], position[b], position[a])
    BY <2>1, <2>3, CircleIsEmpty
  <2> QED
    BY <2>2, <2>4, CrossingEdges
<1> QED
  BY <1>1, PositionsInvariant, PTL

=============================================================================
