-------------------------- MODULE InterfacesProofs --------------------------
(***************************************************************************)
(* The sockets follow the interfaces, for any number of interfaces,        *)
(* addresses and sockets, as long as an interface that is up is not set up *)
(* again.                                                                  *)
(***************************************************************************)
EXTENDS Interfaces, SequenceTheorems, WellFoundedInduction, TLAPS

\* The addresses that sockets have, and those that they should have.
Bound(m) == {m[s].addr : s \in DOMAIN m}
Firsts(a, u) == {a[i][1] : i \in {j \in u : a[j] # <<>>}}

OneEach(m) == \A s, t \in DOMAIN m : m[s].addr = m[t].addr => s = t

\* No address is twice on an interface, or on two.
Unique(a) ==
  \A i, j \in Ifaces : \A k \in DOMAIN a[i], l \in DOMAIN a[j] :
    a[i][k] = a[j][l] => i = j /\ k = l

\* The address is on no interface.
IsFree(a, x) == \A j \in Ifaces : \A k \in DOMAIN a[j] : a[j][k] # x

\* Of some interfaces only one may have changed its addresses.
OnlyAt(i, u, a, b) == \A j \in u : j # i => b[j] = a[j]

\* The interfaces keep their first addresses, or those with x lose them all.
SameFirsts(u, a, b) ==
  \A j \in u : /\ a[j] # <<>> <=> b[j] # <<>>
               /\ a[j] # <<>> => b[j][1] = a[j][1]
LostFirst(x, u, a, b) ==
  \A j \in u : /\ b[j] # <<>> <=> a[j] # <<>> /\ a[j][1] # x
               /\ b[j] # <<>> => b[j] = a[j]

\* The only one of some interfaces whose first address is x.
HasFirst(x, i, u, a) == \A j \in u : a[j] # <<>> => (a[j][1] = x <=> j = i)

\* None of some interfaces has the first address x.
NoFirst(x, u, a) == \A j \in u : a[j] # <<>> => a[j][1] # x

TypedSockets(m) ==
  /\ DOMAIN m \subseteq SocketIds
  /\ \A s \in DOMAIN m : m[s] \in [addr : Addrs, dev : Ifaces \cup {NoDev}]

\* What the notifications keep: the sockets are those of the first addresses.
Follows ==
  /\ up \subseteq Ifaces
  /\ addrs \in [Ifaces -> Seq(Addrs)]
  /\ Unique(addrs)
  /\ TypedSockets(m_socketAddresses)
  /\ OneEach(m_socketAddresses)
  /\ Bound(m_socketAddresses) = Firsts(addrs, up)

-----------------------------------------------------------------------------
\* A new socket adds its address.
LEMMA SocketAdded ==
  ASSUME NEW m, TypedSockets(m), OneEach(m),
         NEW s \in SocketIds \ DOMAIN m,
         NEW a \in Addrs \ Bound(m), NEW d \in Ifaces \cup {NoDev}
  PROVE  LET n == WithSocket(m, s, a, d)
         IN  TypedSockets(n) /\ OneEach(n) /\ Bound(n) = Bound(m) \cup {a}
<1> DEFINE n == WithSocket(m, s, a, d)
<1>1. /\ DOMAIN n = DOMAIN m \cup {s}
      /\ n[s] = [addr |-> a, dev |-> d]
      /\ \A t \in DOMAIN m : n[t] = m[t]
  BY DEF WithSocket
<1> HIDE DEF n
<1>2. TypedSockets(n)
  BY <1>1 DEF TypedSockets
<1>3. n[s].addr = a
  BY <1>1
<1>4. \A t \in DOMAIN m : n[t].addr # a
  BY <1>1 DEF Bound
<1>5. OneEach(n)
  BY <1>1, <1>3, <1>4 DEF OneEach
<1>6. Bound(n) = Bound(m) \cup {a}
  BY <1>1, <1>3 DEF Bound
<1> QED
  BY <1>2, <1>5, <1>6 DEF n

\* A socket that is removed takes its address with it.
LEMMA SocketRemoved ==
  ASSUME NEW m, TypedSockets(m), OneEach(m), NEW s \in DOMAIN m
  PROVE  LET n == WithoutSocket(m, s)
         IN  /\ TypedSockets(n) /\ OneEach(n)
             /\ Bound(n) = Bound(m) \ {m[s].addr}
             /\ DOMAIN n = DOMAIN m \ {s}
<1> DEFINE n == WithoutSocket(m, s)
<1>1. /\ DOMAIN n = DOMAIN m \ {s}
      /\ \A t \in DOMAIN n : n[t] = m[t]
  BY DEF WithoutSocket
<1> HIDE DEF n
<1>2. TypedSockets(n) /\ OneEach(n)
  BY <1>1 DEF TypedSockets, OneEach
<1>3. \A t \in DOMAIN n : m[t].addr # m[s].addr
  BY <1>1 DEF OneEach
<1>4. Bound(n) = Bound(m) \ {m[s].addr}
  BY <1>1, <1>3 DEF Bound
<1> QED
  BY <1>1, <1>2, <1>4 DEF n

\* What is left of the addresses of an interface.
LEMMA Removed ==
  ASSUME NEW S, NEW q \in Seq(S), NEW k \in DOMAIN q
  PROVE  LET r == RemoveAt(q, k)
         IN  /\ r \in Seq(S)
             /\ Len(r) = Len(q) - 1
             /\ \A j \in 1 .. Len(q) - 1 :
                  r[j] = IF j < k THEN q[j] ELSE q[j + 1]
<1>1. /\ Len(q) \in Nat /\ k \in 1 .. Len(q)
      /\ \A j \in 1 .. Len(q) : q[j] \in S
  BY LenProperties, ElementOfSeq
<1> DEFINE l == SubSeq(q, 1, k - 1)
           t == SubSeq(q, k + 1, Len(q))
<1>2. l \in Seq(S) /\ Len(l) = k - 1 /\ \A j \in 1 .. k - 1 : l[j] = q[j]
  <2>1. \A j \in 1 .. k - 1 : q[j] \in S
    BY <1>1
  <2> QED
    BY <1>1, <2>1, SubSeqProperties
<1>3. /\ t \in Seq(S) /\ Len(t) = Len(q) - k
      /\ \A j \in 1 .. Len(q) - k : t[j] = q[j + k]
  <2>1. \A j \in k + 1 .. Len(q) : q[j] \in S
    BY <1>1
  <2> QED
    BY <1>1, <2>1, SubSeqProperties
<1> HIDE DEF l, t
<1>4. /\ l \o t \in Seq(S)
      /\ Len(l \o t) = Len(l) + Len(t)
      /\ \A j \in 1 .. Len(l) + Len(t) :
           (l \o t)[j] = IF j <= Len(l) THEN l[j] ELSE t[j - Len(l)]
  BY <1>2, <1>3, ConcatProperties
<1>5. Len(l) + Len(t) = Len(q) - 1
  BY <1>1, <1>2, <1>3
<1>6. ASSUME NEW j \in 1 .. Len(q) - 1
      PROVE  (l \o t)[j] = IF j < k THEN q[j] ELSE q[j + 1]
  <2>1. CASE j < k
    <3>1. j \in 1 .. k - 1 /\ j <= Len(l)
      BY <1>1, <1>2, <2>1
    <3> QED
      BY <1>2, <1>4, <1>5, <2>1, <3>1
  <2>2. CASE ~(j < k)
    <3>1. /\ j - Len(l) \in 1 .. Len(q) - k
          /\ ~(j <= Len(l))
          /\ (j - Len(l)) + k = j + 1
      BY <1>1, <1>2, <2>2
    <3> QED
      BY <1>3, <1>4, <1>5, <2>2, <3>1
  <2> QED
    BY <2>1, <2>2
<1> QED
  BY <1>4, <1>5, <1>6 DEF RemoveAt, l, t

-----------------------------------------------------------------------------
\* What is a first address.
LEMMA FirstIs ==
  ASSUME NEW a, NEW u
  PROVE  \A y : y \in Firsts(a, u) <=> \E j \in u : a[j] # <<>> /\ y = a[j][1]
BY DEF Firsts

\* Nothing changes but addresses that are not the first.
LEMMA FirstsSame ==
  ASSUME NEW a, NEW b, NEW u,
         SameFirsts(u, a, b)
  PROVE  Firsts(b, u) = Firsts(a, u)
<1>1. \A y : y \in Firsts(b, u) <=> y \in Firsts(a, u)
  BY FirstIs DEF SameFirsts
<1> QED
  BY <1>1

\* One interface has a first address now.
LEMMA FirstsWith ==
  ASSUME NEW a, NEW b, NEW u, NEW i \in u, OnlyAt(i, u, a, b),
         b[i] # <<>>, a[i] # <<>> => b[i][1] = a[i][1]
  PROVE  Firsts(b, u) = Firsts(a, u) \cup {b[i][1]}
<1>1. \A y : y \in Firsts(b, u) <=> y \in Firsts(a, u) \cup {b[i][1]}
  BY FirstIs DEF OnlyAt
<1> QED
  BY <1>1

\* One first address is gone and has no successor.
LEMMA FirstsWithout ==
  ASSUME NEW a, NEW b, NEW u, NEW x,
         LostFirst(x, u, a, b)
  PROVE  Firsts(b, u) = Firsts(a, u) \ {x}
<1>1. \A y : y \in Firsts(b, u) <=> y \in Firsts(a, u) \ {x}
  BY FirstIs DEF LostFirst
<1> QED
  BY <1>1

\* One first address has made way for another.
LEMMA FirstsReplaced ==
  ASSUME NEW a, NEW b, NEW u, NEW i \in u, NEW x,
         OnlyAt(i, u, a, b), HasFirst(x, i, u, a), b[i] # <<>>
  PROVE  Firsts(b, u) = (Firsts(a, u) \ {x}) \cup {b[i][1]}
<1>1. \A y : y \in Firsts(b, u) <=> y \in (Firsts(a, u) \ {x}) \cup {b[i][1]}
  BY FirstIs DEF OnlyAt, HasFirst
<1> QED
  BY <1>1

\* An added address is the first one of an interface without one.
LEMMA UniqueAdded ==
  ASSUME NEW a \in [Ifaces -> Seq(Addrs)], Unique(a),
         NEW i \in Ifaces,
         NEW x \in Addrs, IsFree(a, x),
         NEW b, b \in [Ifaces -> Seq(Addrs)], b[i] = Append(a[i], x),
         OnlyAt(i, Ifaces, a, b)
  PROVE  /\ Unique(b)
         /\ b[i] # <<>>
         /\ b[i][1] = IF a[i] = <<>> THEN x ELSE a[i][1]
<1>1. /\ Append(a[i], x) \in Seq(Addrs)
      /\ Append(a[i], x) # <<>>
      /\ Len(Append(a[i], x)) = Len(a[i]) + 1
      /\ \A k \in 1 .. Len(a[i]) : Append(a[i], x)[k] = a[i][k]
      /\ Append(a[i], x)[Len(a[i]) + 1] = x
  BY AppendProperties
<1>2. \A j \in Ifaces : Len(a[j]) \in Nat /\ DOMAIN a[j] = 1 .. Len(a[j])
  BY LenProperties
<1>3. /\ b \in [Ifaces -> Seq(Addrs)]
      /\ b[i] = Append(a[i], x)
      /\ \A j \in Ifaces \ {i} : b[j] = a[j]
  BY DEF OnlyAt
<1>4. DOMAIN b[i] = 1 .. Len(a[i]) + 1
  BY <1>1, <1>3, LenProperties
<1>5. b[i][1] = IF a[i] = <<>> THEN x ELSE a[i][1]
  <2>1. CASE a[i] = <<>>
    <3>1. Len(a[i]) = 0
      BY <2>1, EmptySeq
    <3> QED
      BY <1>1, <1>3, <2>1, <3>1
  <2>2. CASE a[i] # <<>>
    <3>1. 1 \in 1 .. Len(a[i])
      BY <1>2, <2>2, EmptySeq
    <3> QED
      BY <1>1, <1>3, <2>2, <3>1
  <2> QED
    BY <2>1, <2>2
<1>6. \A j \in Ifaces : \A k \in DOMAIN b[j] :
        \/ j = i /\ k = Len(a[i]) + 1 /\ b[j][k] = x
        \/ k \in DOMAIN a[j] /\ b[j][k] = a[j][k]
  <2> SUFFICES ASSUME NEW j \in Ifaces, NEW k \in DOMAIN b[j]
               PROVE  \/ j = i /\ k = Len(a[i]) + 1 /\ b[j][k] = x
                      \/ k \in DOMAIN a[j] /\ b[j][k] = a[j][k]
    OBVIOUS
  <2>1. CASE j = i
    <3>1. k = Len(a[i]) + 1 \/ k \in 1 .. Len(a[i])
      BY <1>2, <1>4, <2>1
    <3> QED
      BY <1>1, <1>2, <1>3, <2>1, <3>1
  <2>2. CASE j # i
    BY <1>3, <2>2
  <2> QED
    BY <2>1, <2>2
<1>7. Unique(b)
  BY <1>6 DEF Unique, IsFree
<1> QED
  BY <1>1, <1>3, <1>5, <1>7

\* With the first address of an interface its place is free for the next.
LEMMA UniqueRemoved ==
  ASSUME NEW a \in [Ifaces -> Seq(Addrs)], Unique(a),
         NEW i \in Ifaces, NEW k \in DOMAIN a[i],
         NEW b \in [Ifaces -> Seq(Addrs)], b[i] = RemoveAt(a[i], k),
         OnlyAt(i, Ifaces, a, b)
  PROVE  /\ Unique(b)
         /\ a[i] # <<>>
         /\ k = 1 => HasFirst(a[i][k], i, Ifaces, a)
         /\ k # 1 => NoFirst(a[i][k], Ifaces, a)
         /\ k # 1 => b[i] # <<>> /\ b[i][1] = a[i][1]
         /\ k = 1 /\ b[i] # <<>> =>
              b[i][1] \in Addrs /\ NoFirst(b[i][1], Ifaces, a)
<1> DEFINE r == RemoveAt(a[i], k)
<1>1. /\ r \in Seq(Addrs)
      /\ Len(r) = Len(a[i]) - 1
      /\ \A j \in 1 .. Len(a[i]) - 1 :
           r[j] = IF j < k THEN a[i][j] ELSE a[i][j + 1]
  BY Removed
<1>2. \A j \in Ifaces : /\ Len(a[j]) \in Nat /\ DOMAIN a[j] = 1 .. Len(a[j])
                        /\ a[j] # <<>> => 1 \in DOMAIN a[j]
  BY LenProperties, EmptySeq
<1>3. /\ b \in [Ifaces -> Seq(Addrs)]
      /\ b[i] = r
      /\ \A j \in Ifaces \ {i} : b[j] = a[j]
  BY DEF OnlyAt
<1>4. /\ DOMAIN r = 1 .. Len(a[i]) - 1
      /\ r # <<>> => 1 \in DOMAIN r /\ r[1] \in Addrs
  BY <1>1, LenProperties, EmptySeq, ElementOfSeq
<1>5. k \in 1 .. Len(a[i])
  BY <1>2
<1> HIDE DEF r
<1>6. \A j \in DOMAIN r : /\ j < k => j \in DOMAIN a[i] /\ r[j] = a[i][j]
                          /\ j >= k => j + 1 \in DOMAIN a[i] /\ r[j] = a[i][j + 1]
  BY <1>1, <1>2, <1>4, <1>5
<1>7. Unique(b)
  <2> SUFFICES ASSUME NEW j \in Ifaces, NEW g \in Ifaces,
                      NEW m \in DOMAIN b[j], NEW n \in DOMAIN b[g],
                      b[j][m] = b[g][n]
               PROVE  j = g /\ m = n
    BY DEF Unique
  <2> DEFINE At(f, p) == IF f = i /\ p >= k THEN p + 1 ELSE p
  <2>1. \A f \in Ifaces : \A p \in DOMAIN b[f] :
          At(f, p) \in DOMAIN a[f] /\ b[f][p] = a[f][At(f, p)]
    <3> SUFFICES ASSUME NEW f \in Ifaces, NEW p \in DOMAIN b[f]
                 PROVE  At(f, p) \in DOMAIN a[f] /\ b[f][p] = a[f][At(f, p)]
      OBVIOUS
    <3>1. CASE f = i
      <4>1. p \in Nat /\ (p < k \/ p >= k) /\ ~(p < k /\ p >= k)
        BY <1>3, <1>4, <1>2, <1>5, <3>1
      <4> QED
        BY <1>3, <1>6, <3>1, <4>1
    <3>2. CASE f # i
      BY <1>3, <3>2
    <3> QED
      BY <3>1, <3>2
  <2>2. j = g /\ At(j, m) = At(g, n)
    BY <2>1 DEF Unique
  <2>3. m \in Int /\ n \in Int
    BY <1>2, <1>3, <1>4
  <2> QED
    BY <1>5, <2>2, <2>3
<1>8. a[i] # <<>>
  BY <1>2, EmptySeq
<1>9. \A j \in Ifaces : a[j] # <<>> => (a[j][1] = a[i][k] <=> j = i /\ k = 1)
  BY <1>2, <1>8 DEF Unique
<1>10. ASSUME k # 1 PROVE r # <<>> /\ r[1] = a[i][1]
  <2>1. 1 \in DOMAIN r /\ 1 < k
    BY <1>2, <1>4, <1>5, <1>10
  <2> QED
    BY <1>1, <1>6, <2>1, EmptySeq
<1>11. ASSUME k = 1, r # <<>>
       PROVE  r[1] \in Addrs /\ NoFirst(r[1], Ifaces, a)
  <2>1. 2 \in DOMAIN a[i] /\ r[1] = a[i][2]
    <3>1. 1 \in DOMAIN r
      BY <1>4, <1>11
    <3>2. 1 + 1 \in DOMAIN a[i] /\ r[1] = a[i][1 + 1]
      BY <1>6, <1>11, <3>1
    <3> QED
      BY <3>2
  <2>2. \A j \in Ifaces : a[j] # <<>> => a[j][1] # r[1]
    BY <1>2, <2>1 DEF Unique
  <2> QED
    BY <1>4, <1>11, <2>2 DEF NoFirst
<1> QED
  BY <1>3, <1>7, <1>8, <1>9, <1>10, <1>11 DEF HasFirst, NoFirst

\* The only interface with the first address of another one is that one.
LEMMA FirstIsUnique ==
  ASSUME NEW a \in [Ifaces -> Seq(Addrs)], Unique(a),
         NEW i \in Ifaces, a[i] # <<>>
  PROVE  a[i][1] \in Addrs /\ HasFirst(a[i][1], i, Ifaces, a)
<1>1. \A j \in Ifaces : a[j] # <<>> => 1 \in DOMAIN a[j]
  BY LenProperties, EmptySeq
<1>2. \A j \in Ifaces : a[j] # <<>> => (a[j][1] = a[i][1] <=> j = i)
  BY <1>1 DEF Unique
<1>3. a[i][1] \in Addrs
  BY <1>1, LenProperties, ElementOfSeq
<1> QED
  BY <1>2, <1>3 DEF HasFirst

\* An interface that comes up brings its first address, one that goes down
\* takes it away.
LEMMA FirstsSwitched ==
  ASSUME NEW a, NEW u \in SUBSET Ifaces, NEW i \in Ifaces, a[i] # <<>>,
         HasFirst(a[i][1], i, Ifaces, a)
  PROVE  /\ a[i][1] \in Firsts(a, u) <=> i \in u
         /\ Firsts(a, u \cup {i}) = Firsts(a, u) \cup {a[i][1]}
         /\ Firsts(a, u \ {i}) = Firsts(a, u) \ {a[i][1]}
<1>1. \A j \in u : a[j] # <<>> => (a[j][1] = a[i][1] <=> j = i)
  BY DEF HasFirst
<1>2. a[i][1] \in Firsts(a, u) <=> i \in u
  BY <1>1, FirstIs
<1>3. \A y : y \in Firsts(a, u \cup {i}) <=> y \in Firsts(a, u) \cup {a[i][1]}
  BY FirstIs
<1>4. \A y : y \in Firsts(a, u \ {i}) <=> y \in Firsts(a, u) \ {a[i][1]}
  BY <1>1, FirstIs
<1> QED
  BY <1>2, <1>3, <1>4

-----------------------------------------------------------------------------
\* The node starts without addresses and sockets.
LEMMA InitFollows == Init => Follows
<1> SUFFICES ASSUME Init PROVE Follows
  OBVIOUS
<1>1. up \subseteq Ifaces /\ addrs \in [Ifaces -> Seq(Addrs)]
  BY EmptySeq DEF Init
<1>2. Unique(addrs)
  <2>1. \A i \in Ifaces : DOMAIN addrs[i] = {}
    BY DEF Init
  <2> QED
    BY <2>1 DEF Unique
<1>3. DOMAIN m_socketAddresses = {}
  BY DEF Init
<1>4. TypedSockets(m_socketAddresses) /\ OneEach(m_socketAddresses)
  BY <1>3 DEF TypedSockets, OneEach
<1>5. Bound(m_socketAddresses) = {} /\ Firsts(addrs, up) = {}
  BY <1>3 DEF Bound, Firsts, Init
<1> QED
  BY <1>1, <1>2, <1>4, <1>5 DEF Follows

\* Which addresses have a socket.
LEMMA FoundIfBound ==
  ASSUME NEW a
  PROVE  FindSocketWithInterfaceAddress(a) = {} <=>
           a \notin Bound(m_socketAddresses)
BY DEF FindSocketWithInterfaceAddress, Bound, Sockets

\* An address is added.
LEMMA AddStep ==
  ASSUME Follows, NEW i \in Ifaces, NEW a \in Addrs, AddAddress(i, a)
  PROVE  Follows' /\ (Sockets' = {} => Sockets = {})
<1>1. /\ up \in SUBSET Ifaces /\ addrs \in [Ifaces -> Seq(Addrs)]
      /\ Unique(addrs) /\ up' = up
      /\ addrs' = [addrs EXCEPT ![i] = Append(@, a)]
  BY DEF Follows, AddAddress
<1>2. IsFree(addrs, a)
  BY DEF AddAddress, InUse, ToSet, IsFree
<1>3. /\ addrs' \in [Ifaces -> Seq(Addrs)]
      /\ Unique(addrs')
      /\ addrs'[i][1] = IF addrs[i] = <<>> THEN a ELSE addrs[i][1]
      /\ i \in up => Firsts(addrs', up) = Firsts(addrs, up) \cup {addrs'[i][1]}
      /\ i \notin up => Firsts(addrs', up) = Firsts(addrs, up)
  <2>1. /\ addrs' \in [Ifaces -> Seq(Addrs)]
        /\ addrs'[i] = Append(addrs[i], a)
        /\ OnlyAt(i, Ifaces, addrs, addrs')
    BY <1>1, AppendProperties DEF OnlyAt
  <2> DEFINE b == addrs'
  <2>2. /\ b \in [Ifaces -> Seq(Addrs)]
        /\ b[i] = Append(addrs[i], a)
        /\ OnlyAt(i, Ifaces, addrs, b)
    BY <2>1
  <2> HIDE DEF b
  <2>3. Unique(b)
    BY <1>1, <1>2, <2>2, UniqueAdded
  <2>4. b[i][1] = IF addrs[i] = <<>> THEN a ELSE addrs[i][1]
    BY <1>1, <1>2, <2>2, UniqueAdded
  <2>5. b[i] # <<>> /\ OnlyAt(i, up, addrs, b)
    BY <1>1, <2>2, AppendProperties DEF OnlyAt
  <2>6. ASSUME i \in up PROVE Firsts(b, up) = Firsts(addrs, up) \cup {b[i][1]}
    BY <2>4, <2>5, <2>6, FirstsWith
  <2>7. ASSUME i \notin up PROVE Firsts(b, up) = Firsts(addrs, up)
    <3>1. SameFirsts(up, addrs, b)
      BY <2>5, <2>7 DEF OnlyAt, SameFirsts
    <3> QED
      BY <3>1, FirstsSame
  <2> QED
    BY <2>2, <2>3, <2>4, <2>6, <2>7 DEF b
<1>4. addrs'[i][1] \in Addrs
  <2>1. addrs[i] # <<>> => addrs[i][1] \in Addrs
    BY <1>1, FirstIsUnique
  <2> QED
    BY <1>3, <2>1
<1>5. CASE i \in up /\ FindSocketWithInterfaceAddress(addrs'[i][1]) = {}
  <2>1. PICK s \in SocketIds \ Sockets :
          m_socketAddresses' =
            WithSocket(m_socketAddresses, s, addrs'[i][1], i)
    BY <1>5 DEF AddAddress, NotifyAddAddress
  <2>2. addrs'[i][1] \in Addrs \ Bound(m_socketAddresses)
    BY <1>4, <1>5, FoundIfBound
  <2>3. /\ TypedSockets(m_socketAddresses')
        /\ OneEach(m_socketAddresses')
        /\ Bound(m_socketAddresses') =
             Bound(m_socketAddresses) \cup {addrs'[i][1]}
    BY <2>1, <2>2, SocketAdded DEF Follows, Sockets
  <2>4. Sockets' # {}
    BY <2>1 DEF Sockets, WithSocket
  <2> QED
    BY <1>1, <1>3, <1>5, <2>3, <2>4 DEF Follows
<1>6. CASE ~(i \in up /\ FindSocketWithInterfaceAddress(addrs'[i][1]) = {})
  <2>1. m_socketAddresses' = m_socketAddresses
    BY <1>6 DEF AddAddress, NotifyAddAddress
  <2>2. i \in up => addrs'[i][1] \in Bound(m_socketAddresses)
    BY <1>6, FoundIfBound
  <2>3. Firsts(addrs', up) = Bound(m_socketAddresses)
    BY <1>3, <2>2 DEF Follows
  <2> QED
    BY <1>1, <1>3, <2>1, <2>3 DEF Follows, Sockets
<1> QED
  BY <1>5, <1>6

\* What happens to the rest when a socket is forgotten.
LEMMA Cleared ==
  ASSUME Clear, NothingHeardWithoutSockets, heard \in BOOLEAN
  PROVE  /\ NothingHeardWithoutSockets' /\ heard' \in BOOLEAN
         /\ out' \in {NoOut, [is |-> "undefined"]}
BY DEF Clear, NothingHeardWithoutSockets

\* An address is removed.
LEMMA RemoveStep ==
  ASSUME Follows, NothingHeardWithoutSockets, heard \in BOOLEAN,
         NEW i \in Ifaces, NEW k \in Nat, RemoveAddress(i, k)
  PROVE  /\ Follows'
         /\ NothingHeardWithoutSockets' /\ heard' \in BOOLEAN
         /\ out' \in {NoOut, [is |-> "undefined"]}
<1> DEFINE x == addrs[i][k]
           b == addrs'
<1>1. /\ up \in SUBSET Ifaces /\ addrs \in [Ifaces -> Seq(Addrs)]
      /\ Unique(addrs) /\ up' = up
      /\ k \in DOMAIN addrs[i]
      /\ b = [addrs EXCEPT ![i] = RemoveAt(@, k)]
      /\ NotifyRemoveAddress(i, x)
  BY DEF Follows, RemoveAddress
<1>2. /\ b \in [Ifaces -> Seq(Addrs)]
      /\ b[i] = RemoveAt(addrs[i], k)
      /\ OnlyAt(i, Ifaces, addrs, b)
  BY <1>1, Removed DEF OnlyAt
<1> HIDE DEF b, x
<1>3. /\ Unique(b)
      /\ x \notin Firsts(addrs, up) => Firsts(b, up) = Firsts(addrs, up)
      /\ x \in Firsts(addrs, up) /\ b[i] = <<>> =>
           Firsts(b, up) = Firsts(addrs, up) \ {x}
      /\ x \in Firsts(addrs, up) /\ b[i] # <<>> =>
           /\ b[i][1] \in Addrs \ Firsts(addrs, up)
           /\ Firsts(b, up) = (Firsts(addrs, up) \ {x}) \cup {b[i][1]}
  <2>1. /\ Unique(b)
        /\ addrs[i] # <<>>
        /\ k = 1 => HasFirst(x, i, Ifaces, addrs)
        /\ k # 1 => NoFirst(x, Ifaces, addrs)
        /\ k # 1 => b[i] # <<>> /\ b[i][1] = addrs[i][1]
        /\ k = 1 /\ b[i] # <<>> =>
             b[i][1] \in Addrs /\ NoFirst(b[i][1], Ifaces, addrs)
    <3>1. /\ addrs \in [Ifaces -> Seq(Addrs)] /\ Unique(addrs)
          /\ k \in DOMAIN addrs[i]
      BY <1>1
    <3>2. /\ Unique(b)
          /\ addrs[i] # <<>>
      BY <3>1, <1>2, UniqueRemoved
    <3>3. /\ k = 1 => HasFirst(addrs[i][k], i, Ifaces, addrs)
          /\ k # 1 => NoFirst(addrs[i][k], Ifaces, addrs)
      BY <3>1, <1>2, UniqueRemoved
    <3>4. /\ k # 1 => b[i] # <<>> /\ b[i][1] = addrs[i][1]
          /\ k = 1 /\ b[i] # <<>> =>
               b[i][1] \in Addrs /\ NoFirst(b[i][1], Ifaces, addrs)
      BY <3>1, <1>2, UniqueRemoved
    <3> QED
      BY <3>2, <3>3, <3>4 DEF x
  <2>2. OnlyAt(i, up, addrs, b)
    BY <1>1, <1>2 DEF OnlyAt
  <2>3. CASE i \notin up \/ k # 1
    <3>1. x \notin Firsts(addrs, up)
      BY <1>1, <2>1, <2>3, FirstIs DEF HasFirst, NoFirst
    <3>2. SameFirsts(up, addrs, b)
      BY <2>1, <2>2, <2>3 DEF OnlyAt, SameFirsts
    <3> QED
      BY <2>1, <3>1, <3>2, FirstsSame
  <2>4. CASE i \in up /\ k = 1
    <3>1. HasFirst(x, i, up, addrs)
      BY <1>1, <2>1, <2>4 DEF HasFirst
    <3>2. x \in Firsts(addrs, up)
      BY <2>1, <2>4, FirstIs DEF x
    <3>3. ASSUME b[i] = <<>> PROVE Firsts(b, up) = Firsts(addrs, up) \ {x}
      <4>1. LostFirst(x, up, addrs, b)
        BY <2>1, <2>2, <2>4, <3>1, <3>3 DEF LostFirst, OnlyAt, HasFirst
      <4> QED
        BY <4>1, FirstsWithout
    <3>4. ASSUME b[i] # <<>>
          PROVE  /\ b[i][1] \in Addrs \ Firsts(addrs, up)
                 /\ Firsts(b, up) = (Firsts(addrs, up) \ {x}) \cup {b[i][1]}
      <4>1. b[i][1] \in Addrs /\ NoFirst(b[i][1], Ifaces, addrs)
        BY <2>1, <2>4, <3>4
      <4>2. b[i][1] \notin Firsts(addrs, up)
        BY <1>1, <4>1, FirstIs DEF NoFirst
      <4>3. Firsts(b, up) = (Firsts(addrs, up) \ {x}) \cup {b[i][1]}
        BY <2>2, <2>4, <3>1, <3>4, FirstsReplaced
      <4> QED
        BY <4>1, <4>2, <4>3
    <3> QED
      BY <2>1, <3>2, <3>3, <3>4
  <2> QED
    BY <2>3, <2>4
<1>4. /\ TypedSockets(m_socketAddresses) /\ OneEach(m_socketAddresses)
      /\ Bound(m_socketAddresses) = Firsts(addrs, up)
  BY DEF Follows
<1>5. CASE FindSocketWithInterfaceAddress(x) = {}
  <2>1. /\ out' = NoOut
        /\ m_socketAddresses' = m_socketAddresses /\ heard' = heard
    BY <1>1, <1>5 DEF NotifyRemoveAddress
  <2>2. Firsts(b, up) = Firsts(addrs, up)
    BY <1>3, <1>4, <1>5, FoundIfBound
  <2>3. Follows'
    BY <1>1, <1>2, <1>3, <1>4, <2>1, <2>2 DEF Follows, b
  <2> QED
    BY <2>1, <2>3 DEF NothingHeardWithoutSockets, Sockets
<1>6. CASE FindSocketWithInterfaceAddress(x) # {}
  <2> DEFINE rest(s) == WithoutSocket(m_socketAddresses, s)
  <2>1. PICK s \in FindSocketWithInterfaceAddress(x) :
          /\ IF b[i] = <<>> THEN m_socketAddresses' = rest(s)
             ELSE \E new \in SocketIds \ Sockets :
                    m_socketAddresses' = WithSocket(rest(s), new, b[i][1], NoDev)
          /\ Clear
    BY <1>1, <1>6 DEF NotifyRemoveAddress, b
  <2>2. /\ NothingHeardWithoutSockets' /\ heard' \in BOOLEAN
        /\ out' \in {NoOut, [is |-> "undefined"]}
    BY <2>1, Cleared
  <2>3. s \in DOMAIN m_socketAddresses /\ m_socketAddresses[s].addr = x
    BY <2>1 DEF FindSocketWithInterfaceAddress, Sockets
  <2>4. x \in Firsts(addrs, up)
    BY <1>4, <1>6, FoundIfBound
  <2>5. /\ TypedSockets(rest(s)) /\ OneEach(rest(s))
        /\ Bound(rest(s)) = Firsts(addrs, up) \ {x}
        /\ DOMAIN rest(s) = DOMAIN m_socketAddresses \ {s}
    BY <1>4, <2>3, SocketRemoved
  <2>6. /\ TypedSockets(m_socketAddresses') /\ OneEach(m_socketAddresses')
        /\ Bound(m_socketAddresses') = Firsts(b, up)
    <3> HIDE DEF rest
    <3>1. CASE b[i] = <<>>
      BY <1>3, <2>1, <2>4, <2>5, <3>1
    <3>2. CASE b[i] # <<>>
      <4>1. PICK new \in SocketIds \ Sockets :
              m_socketAddresses' = WithSocket(rest(s), new, b[i][1], NoDev)
        BY <2>1, <3>2
      <4>2. /\ new \in SocketIds \ DOMAIN rest(s)
            /\ b[i][1] \in Addrs \ Bound(rest(s))
        BY <1>3, <2>4, <2>5, <3>2 DEF Sockets
      <4>3. /\ TypedSockets(m_socketAddresses') /\ OneEach(m_socketAddresses')
            /\ Bound(m_socketAddresses') = Bound(rest(s)) \cup {b[i][1]}
        BY <2>5, <4>1, <4>2, SocketAdded
      <4> QED
        BY <1>3, <2>4, <2>5, <3>2, <4>3
    <3> QED
      BY <3>1, <3>2
  <2>7. Follows'
    BY <1>1, <1>2, <1>3, <2>6 DEF Follows, b
  <2> QED
    BY <2>2, <2>7
<1> QED
  BY <1>5, <1>6

\* An interface without an address has no first address to bring or take.
LEMMA FirstsUnmoved ==
  ASSUME NEW a, NEW u, NEW i, a[i] = <<>>
  PROVE  Firsts(a, u \cup {i}) = Firsts(a, u) /\ Firsts(a, u \ {i}) = Firsts(a, u)
<1>1. \A y : y \in Firsts(a, u \cup {i}) <=> y \in Firsts(a, u)
  BY FirstIs
<1>2. \A y : y \in Firsts(a, u \ {i}) <=> y \in Firsts(a, u)
  BY FirstIs
<1> QED
  BY <1>1, <1>2

\* An interface comes up, or ends the run for want of an address.
LEMMA UpStep ==
  ASSUME Follows, ~SetUpRepeats, NEW i \in Ifaces, SetUp(i)
  PROVE  /\ Follows' /\ (Sockets' = {} => Sockets = {})
         /\ out' \in {NoOut, NoAddress}
<1>1. /\ up \in SUBSET Ifaces /\ addrs \in [Ifaces -> Seq(Addrs)]
      /\ Unique(addrs) /\ i \notin up
      /\ up' = up \cup {i} /\ addrs' = addrs
      /\ NotifyInterfaceUp(i)
  BY DEF Follows, SetUp
<1>2. CASE addrs[i] = <<>>
  <2>1. m_socketAddresses' = m_socketAddresses /\ out' = NoAddress
    BY <1>1, <1>2 DEF NotifyInterfaceUp
  <2>2. Firsts(addrs, up \cup {i}) = Firsts(addrs, up)
    BY <1>2, FirstsUnmoved
  <2> QED
    BY <1>1, <2>1, <2>2 DEF Follows, Sockets
<1>3. CASE addrs[i] # <<>>
  <2>1. PICK s \in SocketIds \ Sockets :
          m_socketAddresses' = WithSocket(m_socketAddresses, s, addrs[i][1], i)
    BY <1>1, <1>3 DEF NotifyInterfaceUp
  <2>2. /\ addrs[i][1] \in Addrs
        /\ addrs[i][1] \notin Firsts(addrs, up)
        /\ Firsts(addrs, up \cup {i}) = Firsts(addrs, up) \cup {addrs[i][1]}
    BY <1>1, <1>3, FirstIsUnique, FirstsSwitched
  <2>3. /\ TypedSockets(m_socketAddresses')
        /\ OneEach(m_socketAddresses')
        /\ Bound(m_socketAddresses') =
             Bound(m_socketAddresses) \cup {addrs[i][1]}
    BY <2>1, <2>2, SocketAdded DEF Follows, Sockets
  <2>4. Sockets' # {}
    BY <2>1 DEF Sockets, WithSocket
  <2>5. out' = NoOut
    BY <1>1, <1>3 DEF NotifyInterfaceUp
  <2> QED
    BY <1>1, <2>2, <2>3, <2>4, <2>5 DEF Follows
<1> QED
  BY <1>2, <1>3

Failures == {NoAddress, [is |-> "assertion", in |-> "NotifyInterfaceDown"]}

\* An interface goes down.  If it was up and has an address, its socket is
\* there to be closed; otherwise the sockets stay as they are.
LEMMA DownStep ==
  ASSUME Follows, NothingHeardWithoutSockets, heard \in BOOLEAN,
         NEW i \in Ifaces, SetDown(i)
  PROVE  /\ Follows'
         /\ NothingHeardWithoutSockets' /\ heard' \in BOOLEAN
         /\ out' \in {NoOut, [is |-> "undefined"]} \cup Failures
         /\ i \in up /\ addrs[i] # <<>> =>
              out' \in {NoOut, [is |-> "undefined"]}
<1>1. /\ up \in SUBSET Ifaces /\ addrs \in [Ifaces -> Seq(Addrs)]
      /\ Unique(addrs)
      /\ up' = up \ {i} /\ addrs' = addrs
      /\ NotifyInterfaceDown(i)
  BY DEF Follows, SetDown
<1>2. CASE addrs[i] = <<>>
  <2>1. /\ out' = NoAddress
        /\ m_socketAddresses' = m_socketAddresses /\ heard' = heard
    BY <1>1, <1>2 DEF NotifyInterfaceDown
  <2>2. Firsts(addrs, up \ {i}) = Firsts(addrs, up)
    BY <1>2, FirstsUnmoved
  <2>3. Follows'
    BY <1>1, <2>1, <2>2 DEF Follows
  <2> QED
    BY <1>2, <2>1, <2>3 DEF NothingHeardWithoutSockets, Sockets, Failures
<1>3. ASSUME addrs[i] # <<>>
      PROVE  /\ addrs[i][1] \in Firsts(addrs, up) <=> i \in up
             /\ Firsts(addrs, up \ {i}) = Firsts(addrs, up) \ {addrs[i][1]}
             /\ FindSocketWithInterfaceAddress(addrs[i][1]) = {} <=> i \notin up
  <2>1. /\ addrs[i][1] \in Firsts(addrs, up) <=> i \in up
        /\ Firsts(addrs, up \ {i}) = Firsts(addrs, up) \ {addrs[i][1]}
    BY <1>1, <1>3, FirstIsUnique, FirstsSwitched
  <2> QED
    BY <2>1, FoundIfBound DEF Follows
<1>4. CASE addrs[i] # <<>> /\ FindSocketWithInterfaceAddress(addrs[i][1]) = {}
  <2>1. /\ out' = [is |-> "assertion", in |-> "NotifyInterfaceDown"]
        /\ m_socketAddresses' = m_socketAddresses /\ heard' = heard
    BY <1>1, <1>4 DEF NotifyInterfaceDown
  <2>2. i \notin up /\ up' = up
    BY <1>1, <1>3, <1>4
  <2>3. Follows'
    BY <1>1, <2>1, <2>2 DEF Follows
  <2> QED
    BY <2>1, <2>2, <2>3 DEF NothingHeardWithoutSockets, Sockets, Failures
<1>5. CASE addrs[i] # <<>> /\ FindSocketWithInterfaceAddress(addrs[i][1]) # {}
  <2>1. PICK s \in FindSocketWithInterfaceAddress(addrs[i][1]) :
          m_socketAddresses' = WithoutSocket(m_socketAddresses, s) /\ Clear
    BY <1>1, <1>5 DEF NotifyInterfaceDown
  <2>2. /\ s \in DOMAIN m_socketAddresses
        /\ m_socketAddresses[s].addr = addrs[i][1]
    BY <2>1 DEF FindSocketWithInterfaceAddress, Sockets
  <2>3. /\ TypedSockets(m_socketAddresses') /\ OneEach(m_socketAddresses')
        /\ Bound(m_socketAddresses') =
             Bound(m_socketAddresses) \ {addrs[i][1]}
    <3> DEFINE rest == WithoutSocket(m_socketAddresses, s)
    <3>1. TypedSockets(m_socketAddresses) /\ OneEach(m_socketAddresses)
      BY DEF Follows
    <3>2. Bound(rest) = Bound(m_socketAddresses) \ {m_socketAddresses[s].addr}
      BY <2>2, <3>1, SocketRemoved
    <3>3. TypedSockets(rest) /\ OneEach(rest)
      BY <2>2, <3>1, SocketRemoved
    <3> QED
      BY <2>1, <2>2, <3>2, <3>3
  <2>4. Follows'
    BY <1>1, <1>3, <1>5, <2>3 DEF Follows
  <2> QED
    BY <2>1, <2>4, Cleared
<1> QED
  BY <1>2, <1>4, <1>5

-----------------------------------------------------------------------------
\* Some sockets have a first one.
LEMMA FirstSocket ==
  ASSUME Follows, NEW S \in SUBSET Sockets, S # {}
  PROVE  \E s \in S : AddressOfFirst(S) = m_socketAddresses[s].addr
<1> DEFINE Less == {p \in Nat \X Nat : p[1] < p[2]}
<1>1. S \subseteq Nat
  BY InterfacesAssumption DEF Follows, TypedSockets, Sockets
<1>2. IsWellFoundedOn(Less, Nat)
  BY NatLessThanWellFounded DEF OpToRel
<1>3. PICK s \in S : \A t \in S : <<t, s>> \notin Less
  <2> HIDE DEF Less
  <2> QED
    BY <1>1, <1>2, WFMin
<1>4. \A t \in S : s <= t
  <2> SUFFICES ASSUME NEW t \in S PROVE s <= t
    OBVIOUS
  <2>1. s \in Nat /\ t \in Nat /\ ~(t < s)
    BY <1>1, <1>3
  <2> QED
    BY <2>1
<1> QED
  BY <1>4 DEF AddressOfFirst

\* What a route may be.
OutIsRight ==
  /\ out.is \in {"nothing", "no route", "route", "loopback", "undefined", "assertion"}
  /\ out.is \in {"route", "loopback"} => out.source \in InUse
  /\ LoopbackSourceIsOnDevice

NoRoutes == {NoOut, [is |-> "undefined"], [is |-> "no route"],
             [is |-> "assertion", in |-> "LoopbackRoute"]} \cup Failures

\* Without a route there is no source address to be wrong.
LEMMA NoRouteIsRight ==
  ASSUME out' \in NoRoutes
  PROVE  OutIsRight'
<1> DEFINE failed(f) == [is |-> "assertion", in |-> f]
<1>1. CASE out' = NoOut
  BY <1>1 DEF NoOut, OutIsRight, LoopbackSourceIsOnDevice
<1>2. CASE out' = [is |-> "undefined"]
  BY <1>2 DEF OutIsRight, LoopbackSourceIsOnDevice
<1>3. CASE out' = [is |-> "no route"]
  BY <1>3 DEF OutIsRight, LoopbackSourceIsOnDevice
<1>4. ASSUME NEW f, out' = failed(f) PROVE OutIsRight'
  BY <1>4 DEF OutIsRight, LoopbackSourceIsOnDevice
<1> QED
  BY <1>1, <1>2, <1>3, <1>4 DEF NoRoutes, Failures, NoAddress

\* The first address of an interface is in use.
LEMMA FirstInUse ==
  ASSUME Follows, NEW j \in Ifaces, addrs[j] # <<>>
  PROVE  addrs[j][1] \in InUse
<1>1. 1 \in DOMAIN addrs[j]
  BY LenProperties, EmptySeq DEF Follows
<1>2. addrs[j][1] \in ToSet(addrs[j])
  BY <1>1 DEF ToSet
<1> QED
  BY <1>2 DEF InUse

\* A packet that goes through loopback gets an address of the node, and if it
\* is for a device, the first address of that device.
LEMMA LoopbackIsRight ==
  ASSUME Follows, NEW oif \in Ifaces \cup {NoDev},
         out' = LoopbackRoute(oif), UNCHANGED <<up, addrs, m_socketAddresses>>
  PROVE  OutIsRight'
<1> DEFINE usable == IF oif = NoDev THEN Sockets ELSE OnDevice(oif)
<1>1. CASE usable # {}
  <2>1. usable \in SUBSET Sockets
    BY DEF OnDevice
  <2>2. PICK s \in usable : AddressOfFirst(usable) = m_socketAddresses[s].addr
    BY <1>1, <2>1, FirstSocket
  <2>3. out' = [is |-> "loopback", oif |-> oif,
                source |-> m_socketAddresses[s].addr]
    BY <1>1, <2>2 DEF LoopbackRoute
  <2>4. s \in DOMAIN m_socketAddresses /\ m_socketAddresses[s].addr \in InUse
    <3>1. s \in DOMAIN m_socketAddresses
      BY <2>1, <2>2 DEF Sockets
    <3>2. PICK j \in up :
            addrs[j] # <<>> /\ m_socketAddresses[s].addr = addrs[j][1]
      BY <3>1 DEF Follows, Bound, Firsts
    <3> QED
      BY <3>1, <3>2, FirstInUse DEF Follows
  <2>5. ASSUME oif # NoDev
        PROVE  oif \in up /\ m_socketAddresses[s].addr = addrs[oif][1]
    <3>1. /\ up \subseteq Ifaces /\ addrs \in [Ifaces -> Seq(Addrs)]
          /\ Unique(addrs) /\ oif \in Ifaces
      BY <2>5 DEF Follows
    <3>2. PICK k \in DOMAIN addrs[oif] :
            m_socketAddresses[s].addr = addrs[oif][k]
      BY <2>2, <2>5 DEF OnDevice, ToSet
    <3>3. m_socketAddresses[s].addr \in Firsts(addrs, up)
      BY <2>4 DEF Follows, Bound
    <3>4. PICK j \in up :
            addrs[j] # <<>> /\ m_socketAddresses[s].addr = addrs[j][1]
      BY <3>3 DEF Firsts
    <3>5. 1 \in DOMAIN addrs[j]
      BY <3>1, <3>4, LenProperties, EmptySeq
    <3>6. oif = j /\ k = 1
      <4>1. j \in Ifaces /\ addrs[oif][k] = addrs[j][1]
        BY <3>1, <3>2, <3>4
      <4> QED
        BY <3>1, <3>2, <3>5, <4>1 DEF Unique
    <3> QED
      BY <3>4, <3>6
  <2> QED
    BY <2>3, <2>4, <2>5
    DEF OutIsRight, LoopbackSourceIsOnDevice, InUse
<1>2. CASE usable = {}
  <2>1. out' \in {[is |-> "undefined"],
                  [is |-> "assertion", in |-> "LoopbackRoute"]}
    BY <1>2 DEF LoopbackRoute
  <2> QED
    BY <2>1, NoRouteIsRight DEF NoRoutes
<1> QED
  BY <1>1, <1>2

\* RouteOutput makes a route with an address of the node, or none.
LEMMA RouteIsRight ==
  ASSUME Follows, NEW oif \in Ifaces \cup {NoDev}, NEW next \in BOOLEAN,
         NEW source \in InUse \cup {Unset},
         out' = RouteOutput(source, oif, next),
         UNCHANGED <<up, addrs, m_socketAddresses>>
  PROVE  OutIsRight'
<1>1. CASE out' = LoopbackRoute(oif)
  BY <1>1, LoopbackIsRight
<1>2. CASE out' \in {[is |-> "no route"], NoAddress}
  BY <1>2, NoRouteIsRight DEF NoRoutes, Failures
<1>3. CASE addrs[1] # <<>> /\
           out' = [is |-> "route", oif |-> oif,
                   source |-> IF source = Unset THEN addrs[1][1] ELSE source]
  <2>1. addrs[1][1] \in InUse
    BY <1>3, InterfacesAssumption, FirstInUse
  <2>2. out'.is = "route" /\ out'.source \in InUse
    BY <1>3, <2>1
  <2> QED
    BY <2>2 DEF OutIsRight, LoopbackSourceIsOnDevice, InUse
<1> QED
  BY <1>1, <1>2, <1>3 DEF RouteOutput

-----------------------------------------------------------------------------
\* The sockets, what was heard through them, and the last route go together.
IInv ==
  /\ Follows
  /\ NothingHeardWithoutSockets
  /\ heard \in BOOLEAN /\ started \in BOOLEAN
  /\ OutIsRight

\* It holds of a node without interfaces that are up.
LEMMA InitIInv == Init => IInv
<1> SUFFICES ASSUME Init PROVE IInv
  OBVIOUS
<1>1. Follows
  BY InitFollows
<1>2. /\ NothingHeardWithoutSockets
      /\ heard \in BOOLEAN /\ started \in BOOLEAN
  BY DEF Init, NothingHeardWithoutSockets
<1>3. out.is = "nothing"
  BY DEF Init, NoOut
<1>4. OutIsRight
  BY <1>3 DEF OutIsRight, LoopbackSourceIsOnDevice
<1> QED
  BY <1>1, <1>2, <1>4 DEF IInv

\* Every step keeps the invariant, if no interface that is up is set up again.
LEMMA NextIInv ==
  ASSUME ~SetUpRepeats, IInv, [Next]_vars
  PROVE  IInv'
<1>1. /\ Follows /\ NothingHeardWithoutSockets
      /\ heard \in BOOLEAN /\ started \in BOOLEAN
  BY DEF IInv
<1>2. ASSUME NEW i \in Ifaces, NEW a \in Addrs, AddAddress(i, a)
      PROVE  IInv'
  <2>1. Follows' /\ (Sockets' = {} => Sockets = {})
    BY <1>1, <1>2, AddStep
  <2>2. out' = NoOut /\ heard' = heard /\ started' = started
    BY <1>2 DEF AddAddress
  <2>3. OutIsRight'
    BY <2>2, NoRouteIsRight DEF NoRoutes
  <2> QED
    BY <1>1, <2>1, <2>2, <2>3 DEF IInv, NothingHeardWithoutSockets
<1>3. ASSUME NEW i \in Ifaces, NEW k \in 1 .. MaxAddrs, RemoveAddress(i, k)
      PROVE  IInv'
  <2>1. k \in Nat
    BY InterfacesAssumption
  <2>2. /\ Follows' /\ NothingHeardWithoutSockets' /\ heard' \in BOOLEAN
        /\ out' \in {NoOut, [is |-> "undefined"]}
    BY <1>1, <1>3, <2>1, RemoveStep
  <2>3. OutIsRight'
    BY <2>2, NoRouteIsRight DEF NoRoutes
  <2> QED
    BY <1>1, <1>3, <2>2, <2>3 DEF IInv, RemoveAddress
<1>4. ASSUME NEW i \in Ifaces, SetUp(i)
      PROVE  IInv'
  <2>1. /\ Follows' /\ (Sockets' = {} => Sockets = {})
        /\ out' \in {NoOut, NoAddress}
    BY <1>1, <1>4, UpStep
  <2>2. heard' = heard /\ started' = started
    BY <1>4 DEF SetUp
  <2>3. OutIsRight'
    BY <2>1, NoRouteIsRight DEF NoRoutes, Failures
  <2> QED
    BY <1>1, <2>1, <2>2, <2>3 DEF IInv, NothingHeardWithoutSockets
<1>5. ASSUME NEW i \in Ifaces, SetDown(i)
      PROVE  IInv'
  <2>1. /\ Follows' /\ NothingHeardWithoutSockets' /\ heard' \in BOOLEAN
        /\ out' \in {NoOut, [is |-> "undefined"]} \cup Failures
    BY <1>1, <1>5, DownStep
  <2>2. OutIsRight'
    BY <2>1, NoRouteIsRight DEF NoRoutes
  <2> QED
    BY <1>1, <1>5, <2>1, <2>2 DEF IInv, SetDown
<1>6. CASE Start \/ RecvGPSR
  <2>1. /\ UNCHANGED <<up, addrs, m_socketAddresses>> /\ out' = NoOut
        /\ started' \in BOOLEAN
        /\ \/ heard' = heard
           \/ heard' = TRUE /\ Sockets # {}
    <3>1. CASE Start
      BY <3>1 DEF Start
    <3>2. CASE RecvGPSR
      BY <1>1, <3>2 DEF RecvGPSR
    <3> QED
      BY <1>6, <3>1, <3>2
  <2>2. OutIsRight'
    BY <2>1, NoRouteIsRight DEF NoRoutes
  <2>3. Follows'
    BY <1>1, <2>1 DEF Follows
  <2>4. NothingHeardWithoutSockets' /\ heard' \in BOOLEAN
    <3>1. Sockets' = Sockets
      BY <2>1 DEF Sockets
    <3>2. CASE heard' = heard
      BY <1>1, <3>1, <3>2 DEF NothingHeardWithoutSockets
    <3>3. CASE heard' = TRUE /\ Sockets # {}
      BY <3>1, <3>3 DEF NothingHeardWithoutSockets
    <3> QED
      BY <2>1, <3>2, <3>3
  <2> QED
    BY <2>1, <2>2, <2>3, <2>4 DEF IInv
<1>7. ASSUME UNCHANGED <<up, addrs, m_socketAddresses, heard, started>>
      PROVE  /\ Follows' /\ NothingHeardWithoutSockets'
             /\ heard' \in BOOLEAN /\ started' \in BOOLEAN
  BY <1>1, <1>7 DEF Follows, NothingHeardWithoutSockets, Sockets
<1>8. ASSUME NEW source \in InUse \cup {Unset},
             NEW oif \in Ifaces \cup {NoDev}, NEW next \in BOOLEAN,
             Route(source, oif, next)
      PROVE  IInv'
  <2>1. /\ UNCHANGED <<up, addrs, m_socketAddresses, heard, started>>
        /\ out' \in {RouteOutput(source, oif, next), LoopbackRoute(oif)}
    BY <1>8 DEF Route
  <2>2. OutIsRight'
    BY <1>1, <2>1, RouteIsRight, LoopbackIsRight
  <2> QED
    BY <1>7, <2>1, <2>2 DEF IInv
<1>9. CASE UNCHANGED vars
  <2>1. UNCHANGED <<up, addrs, m_socketAddresses, heard, started, out>>
    BY <1>9 DEF vars
  <2>2. OutIsRight'
    BY <2>1 DEF IInv, OutIsRight, LoopbackSourceIsOnDevice, InUse
  <2> QED
    BY <1>7, <2>1, <2>2 DEF IInv
<1> QED
  BY <1>2, <1>3, <1>4, <1>5, <1>6, <1>8, <1>9 DEF Next

\* The invariant holds in every state.
LEMMA Invariance == ASSUME ~SetUpRepeats PROVE Spec => []IInv
<1>1. Init => IInv
  BY InitIInv
<1>2. IInv /\ [Next]_vars => IInv'
  BY NextIInv
<1> QED
  BY <1>1, <1>2, PTL DEF Spec

-----------------------------------------------------------------------------
\* Interfaces, sockets and routes stay what they can be: no packet leaves
\* without one of the node's addresses.
THEOREM TypeCorrect == ASSUME ~SetUpRepeats PROVE Spec => []TypeOK
<1>1. IInv => TypeOK
  BY DEF IInv, Follows, TypedSockets, OutIsRight, TypeOK, Sockets
<1> QED
  BY Invariance, <1>1, PTL

\* Each interface that is up has one socket, with its first address, whatever
\* addresses come and go.
THEOREM OneSocket == ASSUME ~SetUpRepeats PROVE Spec => []OneSocketPerInterface
<1>1. ASSUME IInv PROVE OneSocketPerInterface
  <2>1. /\ OneEach(m_socketAddresses)
        /\ Bound(m_socketAddresses) = Firsts(addrs, up)
    BY <1>1 DEF IInv, Follows
  <2>2. ASSUME NEW i \in up, addrs[i] # <<>>
        PROVE  \E s \in Sockets :
                 FindSocketWithInterfaceAddress(addrs[i][1]) = {s}
    <3>1. PICK s \in Sockets : m_socketAddresses[s].addr = addrs[i][1]
      BY <2>1, <2>2 DEF Bound, Firsts, Sockets
    <3>2. FindSocketWithInterfaceAddress(addrs[i][1]) = {s}
      BY <2>1, <3>1 DEF OneEach, FindSocketWithInterfaceAddress, Sockets
    <3> QED
      BY <3>2
  <2>3. ASSUME NEW s \in Sockets
        PROVE  \E i \in up :
                 addrs[i] # <<>> /\ m_socketAddresses[s].addr = addrs[i][1]
    BY <2>1 DEF Bound, Firsts, Sockets
  <2> QED
    BY <2>2, <2>3 DEF OneSocketPerInterface
<1> QED
  BY Invariance, <1>1, PTL

\* NotifyInterfaceDown finds a socket to close on every interface that was up
\* and has an address; neither that it is down nor that it has no address is
\* ruled out.
THEOREM DownFinds == ASSUME ~SetUpRepeats PROVE Spec => DownFindsItsSocket
<1> DEFINE Closed == \A i \in up : i \notin up' /\ addrs[i] # <<>> =>
                                     out'.is # "assertion"
<1>1. ASSUME IInv, [Next]_vars PROVE Closed
  <2> SUFFICES ASSUME NEW i \in up, i \notin up', addrs[i] # <<>>
               PROVE  out'.is # "assertion"
    OBVIOUS
  <2>1. PICK j \in Ifaces : SetDown(j)
    BY <1>1 DEF Next, vars, AddAddress, RemoveAddress, SetUp, Start, RecvGPSR,
                Route
  <2>2. i = j
    BY <2>1 DEF SetDown
  <2>3. out' \in {NoOut, [is |-> "undefined"]}
    BY <1>1, <2>1, <2>2, DownStep DEF IInv
  <2> QED
    BY <2>3 DEF NoOut
<1>2. IInv /\ [Next]_vars => [Closed]_vars
  BY <1>1
<1> QED
  BY Invariance, <1>2, PTL DEF Spec, DownFindsItsSocket

\* What was heard does not outlive the sockets it was heard through.
THEOREM NothingHeard ==
  ASSUME ~SetUpRepeats PROVE Spec => []NothingHeardWithoutSockets
<1>1. IInv => NothingHeardWithoutSockets
  BY DEF IInv
<1> QED
  BY Invariance, <1>1, PTL

\* A packet for a device leaves through loopback with that device's address.
THEOREM LoopbackSource ==
  ASSUME ~SetUpRepeats PROVE Spec => []LoopbackSourceIsOnDevice
<1>1. IInv => LoopbackSourceIsOnDevice
  BY DEF IInv, OutIsRight
<1> QED
  BY Invariance, <1>1, PTL
=============================================================================
