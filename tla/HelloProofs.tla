----------------------------- MODULE HelloProofs -----------------------------
(***************************************************************************)
(* A neighbour that stays in range is not forgotten, for every jitter,     *)
(* delay, number of losses and life time that satisfy the assumption.      *)
(***************************************************************************)
EXTENDS Hello, TLAPS

\* The longest time without a HELLO when l of them are lost.
Silence(l) == (l + 1) * 3 * MaxJitter

\* The entry is never older than the last period, those before it whose HELLO
\* was lost, and the way of the HELLO that is coming.
AgeIsBounded ==
  ~away /\ age # None =>
    /\ inRange
    /\ onAir = None => age + timer <= Silence(lost)
    /\ onAir # None => age <= Silence(lost) + onAir

\* A HELLO on its way arrives before the next one is sent.
OneOnAir == onAir # None => timer + onAir >= MaxJitter

IInv == TypeOK /\ AgeIsBounded /\ OneOnAir

\* Each lost HELLO adds one of the longest periods.
LEMMA SilenceGrows ==
  /\ Silence(0) = 3 * MaxJitter
  /\ \A l \in Nat : /\ Silence(l) \in Nat
                    /\ Silence(l + 1) = Silence(l) + 3 * MaxJitter
  /\ \A l \in 0 .. MaxLost : Silence(l) <= Silence(MaxLost)
<1>1. MaxJitter \in Nat /\ MaxLost \in Nat
  BY HelloAssumption
<1> DEFINE j == 3 * MaxJitter
<1>2. j \in Nat
  BY <1>1
<1>3. \A l \in Nat : Silence(l) = (l + 1) * j
  BY <1>1 DEF Silence
<1> HIDE DEF j
<1>4. \A l \in Nat : /\ (l + 1) * j \in Nat
                     /\ (l + 1 + 1) * j = (l + 1) * j + j
  BY <1>2
<1>5. \A l \in 0 .. MaxLost : (l + 1) * j <= (MaxLost + 1) * j
  <2> SUFFICES ASSUME NEW l \in 0 .. MaxLost
               PROVE  (l + 1) * j <= (MaxLost + 1) * j
    OBVIOUS
  <2>1. PICK k \in Nat : MaxLost = l + k
    <3>1. MaxLost - l \in Nat /\ MaxLost = l + (MaxLost - l)
      BY <1>1
    <3> QED
      BY <3>1
  <2>2. (MaxLost + 1) * j = (l + 1) * j + k * j
    BY <1>2, <2>1
  <2>3. k * j \in Nat /\ (l + 1) * j \in Nat
    BY <1>2
  <2> QED
    BY <2>2, <2>3
<1> QED
  BY <1>1, <1>3, <1>4, <1>5 DEF j

\* The node starts with a timer and without an entry.
LEMMA InitIInv == Init => IInv
<1> SUFFICES ASSUME Init PROVE IInv
  OBVIOUS
<1>1. TypeOK
  <2>1. timer \in 0 .. HelloInterval + MaxJitter
    BY HelloAssumption DEF Init, HelloInterval
  <2>2. lost \in 0 .. MaxLost
    BY HelloAssumption DEF Init
  <2> QED
    BY <2>1, <2>2 DEF Init, TypeOK
<1>2. AgeIsBounded /\ OneOnAir
  BY DEF Init, AgeIsBounded, OneOnAir
<1> QED
  BY <1>1, <1>2 DEF IInv

\* An entry that was kept alive in range is younger than its life time.
LEMMA YoungerThanLifeTime ==
  ASSUME IInv, ~away, age # None
  PROVE  age < EntryLifeTime
<1>1. /\ timer \in Nat /\ age \in Nat
      /\ lost \in 0 .. MaxLost
      /\ onAir = None \/ onAir \in 0 .. MaxDelay
  BY HelloAssumption DEF IInv, TypeOK, HelloInterval, None
<1>2. /\ Silence(lost) \in Nat /\ Silence(MaxLost) \in Nat
      /\ Silence(lost) <= Silence(MaxLost)
  BY <1>1, SilenceGrows, HelloAssumption
<1>3. Silence(MaxLost) + MaxDelay < EntryLifeTime
  BY TimingAssumption DEF Silence
<1>4. age <= Silence(lost) + MaxDelay
  BY <1>1, <1>2, HelloAssumption DEF IInv, AgeIsBounded, None
<1> QED
  BY <1>1, <1>2, <1>3, <1>4, HelloAssumption

\* The next HELLO is sent.
LEMMA TimerStep ==
  ASSUME IInv, HelloTimerExpire
  PROVE  IInv'
<1>1. /\ timer = 0
      /\ timer' \in MaxJitter .. 3 * MaxJitter
      /\ age' = age /\ inRange' = inRange /\ away' = away
  BY HelloAssumption DEF HelloTimerExpire, HelloInterval
<1>2. onAir = None
  BY <1>1, HelloAssumption, TimingAssumption
  DEF IInv, TypeOK, OneOnAir, None
<1>3. /\ lost \in 0 .. MaxLost
      /\ age = None \/ age \in Nat
  BY HelloAssumption DEF IInv, TypeOK
<1>4. /\ Silence(lost) \in Nat
      /\ Silence(lost + 1) = Silence(lost) + 3 * MaxJitter
  BY <1>3, SilenceGrows, HelloAssumption
<1>5. ~away /\ age # None => inRange /\ age <= Silence(lost)
  BY <1>1, <1>2, <1>3, <1>4 DEF IInv, AgeIsBounded
<1>6. CASE inRange /\ onAir' = 0 /\ lost' = lost
  <2>1. TypeOK'
    BY <1>1, <1>6, HelloAssumption DEF IInv, TypeOK, HelloInterval
  <2>2. AgeIsBounded'
    BY <1>1, <1>3, <1>4, <1>5, <1>6 DEF AgeIsBounded, Silence, None
  <2>3. OneOnAir'
    <3>1. timer' \in MaxJitter .. 3 * MaxJitter /\ onAir' = 0
      BY <1>1, <1>6
    <3>2. MaxJitter \in Nat
      BY HelloAssumption
    <3>3. \A j \in Nat : \A t \in j .. 3 * j : t + 0 >= j
      OBVIOUS
    <3>4. timer' + onAir' >= MaxJitter
      BY <3>1, <3>2, <3>3, Zenon
    <3> QED
      BY <3>4 DEF OneOnAir
  <2> QED
    BY <2>1, <2>2, <2>3 DEF IInv
<1>7. CASE inRange /\ lost < MaxLost /\ lost' = lost + 1 /\ onAir' = onAir
  <2>1. TypeOK'
    BY <1>1, <1>3, <1>7, HelloAssumption DEF IInv, TypeOK, HelloInterval
  <2>2. Silence(lost)' = Silence(lost) + 3 * MaxJitter
    BY <1>4, <1>7 DEF Silence
  <2>3. AgeIsBounded'
    BY <1>1, <1>2, <1>3, <1>4, <1>5, <1>7, <2>2, HelloAssumption
    DEF AgeIsBounded
  <2>4. OneOnAir'
    BY <1>2, <1>7 DEF OneOnAir
  <2> QED
    BY <2>1, <2>3, <2>4 DEF IInv
<1>8. CASE ~inRange /\ onAir' = onAir /\ lost' = lost
  <2>1. TypeOK'
    BY <1>1, <1>8, HelloAssumption DEF IInv, TypeOK, HelloInterval
  <2>2. AgeIsBounded'
    BY <1>1, <1>5, <1>8 DEF AgeIsBounded
  <2>3. OneOnAir'
    BY <1>2, <1>8 DEF OneOnAir
  <2> QED
    BY <2>1, <2>2, <2>3 DEF IInv
<1> QED
  BY <1>6, <1>7, <1>8 DEF HelloTimerExpire

\* The neighbour hears a HELLO.
LEMMA RecvStep ==
  ASSUME IInv, RecvGPSR
  PROVE  IInv'
<1>1. TypeOK'
  BY HelloAssumption DEF IInv, TypeOK, RecvGPSR
<1>2. timer \in 0 .. 3 * MaxJitter
  BY HelloAssumption DEF IInv, TypeOK, HelloInterval
<1>3. Silence(lost)' = 3 * MaxJitter
  BY SilenceGrows DEF RecvGPSR, Silence
<1>4. AgeIsBounded'
  <2>1. /\ timer' \in 0 .. 3 * MaxJitter
        /\ age' = 0 /\ onAir' = None
    BY <1>2 DEF RecvGPSR
  <2>2. ~away' => inRange'
    BY DEF RecvGPSR, IInv, TypeOK
  <2>3. MaxJitter \in Nat
    BY HelloAssumption
  <2>4. \A j \in Nat : \A t \in 0 .. 3 * j : 0 + t <= 3 * j
    OBVIOUS
  <2>5. age' + timer' <= Silence(lost)'
    BY <1>3, <2>1, <2>3, <2>4, Zenon
  <2> QED
    BY <2>1, <2>2, <2>5 DEF AgeIsBounded
<1>5. OneOnAir'
  BY DEF OneOnAir, RecvGPSR
<1> QED
  BY <1>1, <1>4, <1>5 DEF IInv

\* Time passes.
LEMMA TickStep ==
  ASSUME IInv, Tick
  PROVE  IInv'
<1>1. /\ timer \in 0 .. 3 * MaxJitter /\ timer > 0 /\ timer' = timer - 1
      /\ onAir = None \/ onAir \in 0 .. MaxDelay
      /\ onAir < MaxDelay
      /\ onAir' = IF onAir = None THEN None ELSE onAir + 1
      /\ age = None \/ age \in 0 .. EntryLifeTime
      /\ age' = IF age \in 0 .. EntryLifeTime - 1 THEN age + 1 ELSE age
      /\ lost \in 0 .. MaxLost /\ lost' = lost
      /\ inRange' = inRange /\ away' = away
  BY HelloAssumption DEF IInv, TypeOK, Tick, HelloInterval
<1>2. TypeOK'
  BY <1>1, HelloAssumption DEF IInv, TypeOK, HelloInterval, None
<1>3. Silence(lost) \in Nat /\ Silence(lost)' = Silence(lost)
  BY <1>1, SilenceGrows, HelloAssumption DEF Silence
<1>4. AgeIsBounded'
  BY <1>1, <1>3, HelloAssumption DEF IInv, AgeIsBounded, None
<1>5. OneOnAir'
  BY <1>1, HelloAssumption DEF IInv, OneOnAir, None
<1> QED
  BY <1>2, <1>4, <1>5 DEF IInv

\* Every step keeps the invariant.
LEMMA NextIInv == IInv /\ [Next]_vars => IInv'
<1> SUFFICES ASSUME IInv, [Next]_vars PROVE IInv'
  OBVIOUS
<1>1. CASE HelloTimerExpire
  BY <1>1, TimerStep
<1>2. CASE RecvGPSR
  BY <1>2, RecvStep
<1>3. CASE Purge
  BY <1>3 DEF Purge, IInv, TypeOK, AgeIsBounded, OneOnAir
<1>4. CASE Move
  BY <1>4 DEF Move, IInv, TypeOK, AgeIsBounded, OneOnAir
<1>5. CASE Tick
  BY <1>5, TickStep
<1>6. CASE UNCHANGED vars
  BY <1>6 DEF vars, IInv, TypeOK, AgeIsBounded, OneOnAir, Silence
<1> QED
  BY <1>1, <1>2, <1>3, <1>4, <1>5, <1>6 DEF Next

\* Timer, delays, losses and ages stay what they can be.
THEOREM TypeCorrect == Spec => []TypeOK
<1>1. IInv => TypeOK
  BY DEF IInv
<1> QED
  BY InitIInv, NextIInv, <1>1, PTL DEF Spec

\* Only the purge forgets an entry, and it never finds one of a neighbour that
\* stayed in range.
LEMMA KeptByStep ==
  ASSUME IInv, [Next]_vars, age # None, age' = None
  PROVE  away
<1>1. age \in Nat
  BY HelloAssumption DEF IInv, TypeOK
<1>2. age >= EntryLifeTime
  BY <1>1 DEF Next, vars, HelloTimerExpire, RecvGPSR, Purge, Move, Tick, None
<1> QED
  BY <1>1, <1>2, YoungerThanLifeTime, HelloAssumption DEF IInv, TypeOK

\* In spite of jitter, delay and losses, a neighbour that stays in range is
\* not purged from the position table.
THEOREM Kept == Spec => NeighbourIsKept
<1>1. IInv /\ [Next]_vars => [age # None /\ age' = None => away]_vars
  BY KeptByStep
<1> QED
  BY InitIInv, NextIInv, <1>1, PTL DEF Spec, NeighbourIsKept
=============================================================================
