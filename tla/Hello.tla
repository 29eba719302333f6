-------------------------------- MODULE Hello --------------------------------
(***************************************************************************)
(* The HELLOs of one node as a neighbour gets them (model/gpsr.cc): the    *)
(* timer with its jitter, the way through the air, in which some are lost, *)
(* and the entry of the position table that they keep alive.               *)
(***************************************************************************)
EXTENDS Integers

CONSTANTS
  MaxJitter,       \* GPSR_MAXJITTER, half of the HelloInterval
  EntryLifeTime,   \* PositionTable::m_entryLifeTime
  MaxDelay,        \* bound: how long a HELLO is on its way
  MaxLost          \* bound: how many HELLOs in a row are lost in range

ASSUME HelloAssumption ==
  /\ MaxJitter \in Nat \ {0}
  /\ EntryLifeTime \in Nat \ {0}
  /\ MaxDelay \in Nat
  /\ MaxLost \in Nat

\* A HELLO arrives before the next one is sent, and the entry outlives as many
\* of the longest periods as can pass without one.
ASSUME TimingAssumption ==
  /\ MaxDelay < MaxJitter
  /\ (MaxLost + 1) * 3 * MaxJitter + MaxDelay < EntryLifeTime

VARIABLES
  timer,    \* the time until HelloIntervalTimer expires
  onAir,    \* for how long the last HELLO has been on its way
  lost,     \* how many HELLOs in a row were lost in range
  age,      \* the age of the sender's entry in the neighbour's table
  inRange,  \* whether the neighbour is in range
  away      \* history: whether it has been out of range since it last heard

vars == <<timer, onAir, lost, age, inRange, away>>

HelloInterval == 2 * MaxJitter
None == -1            \* no entry, no HELLO on its way

\* SetIpv4 starts the timer: "first Hello can not be in the past".
Init ==
  /\ timer \in 0 .. MaxJitter
  /\ onAir = None
  /\ lost = 0
  /\ age = None
  /\ inRange \in BOOLEAN
  /\ away = FALSE

-----------------------------------------------------------------------------
\* Mutant of HelloTimerExpire: the jitter is the whole interval.
HelloTimerExpire_Interval ==
  /\ timer = 0
  /\ timer' \in 1 .. 2 * HelloInterval
  /\ \/ inRange /\ onAir' = 0 /\ UNCHANGED lost
     \/ inRange /\ lost < MaxLost /\ lost' = lost + 1 /\ UNCHANGED onAir
     \/ ~inRange /\ UNCHANGED <<onAir, lost>>
  /\ UNCHANGED <<age, inRange, away>>

\* SendHello, and the next period: the interval and a jitter of up to half of
\* it in both directions.
HelloTimerExpire ==
  /\ timer = 0
  /\ timer' \in HelloInterval - MaxJitter .. HelloInterval + MaxJitter
  /\ \/ inRange /\ onAir' = 0 /\ UNCHANGED lost
     \/ inRange /\ lost < MaxLost /\ lost' = lost + 1 /\ UNCHANGED onAir
     \/ ~inRange /\ UNCHANGED <<onAir, lost>>
  /\ UNCHANGED <<age, inRange, away>>

\* Mutant of RecvGPSR: an entry that is there is left as it is.
RecvGPSR_Kept ==
  /\ onAir # None
  /\ onAir' = None
  /\ age' = IF age = None THEN 0 ELSE age
  /\ lost' = 0
  /\ away' = ~inRange
  /\ UNCHANGED <<timer, inRange>>

\* The neighbour adds the entry or makes it new.
RecvGPSR ==
  /\ onAir # None
  /\ onAir' = None
  /\ age' = 0
  /\ lost' = 0
  /\ away' = ~inRange
  /\ UNCHANGED <<timer, inRange>>

\* A packet or a route makes the neighbour purge its table.
Purge ==
  /\ age >= EntryLifeTime
  /\ age' = None
  /\ UNCHANGED <<timer, onAir, lost, inRange, away>>

Move ==
  /\ inRange' = ~inRange
  /\ away' = TRUE
  /\ UNCHANGED <<timer, onAir, lost, age>>

\* The clock.  Bound: an entry does not age beyond its life time.
Tick ==
  /\ timer > 0 /\ onAir < MaxDelay
  /\ timer' = timer - 1
  /\ onAir' = IF onAir = None THEN None ELSE onAir + 1
  /\ age' = IF age \in 0 .. EntryLifeTime - 1 THEN age + 1 ELSE age
  /\ UNCHANGED <<lost, inRange, away>>

Next == HelloTimerExpire \/ RecvGPSR \/ Purge \/ Move \/ Tick

Spec == Init /\ [][Next]_vars

\* Timers expire, and what is on its way arrives.
FairSpec ==
  Spec /\ WF_vars(HelloTimerExpire) /\ WF_vars(RecvGPSR) /\ WF_vars(Tick)

-----------------------------------------------------------------------------
\* Types.
TypeOK ==
  /\ timer \in 0 .. HelloInterval + MaxJitter
  /\ onAir \in {None} \cup 0 .. MaxDelay
  /\ lost \in 0 .. MaxLost
  /\ age \in {None} \cup 0 .. EntryLifeTime
  /\ inRange \in BOOLEAN /\ away \in BOOLEAN

\* A neighbour that stays in range is not forgotten: in spite of jitter, delay
\* and losses a HELLO comes before its entry can be purged.
NeighbourIsKept == [][age # None /\ age' = None => away]_vars

\* A neighbour that stays in range for good is found, and known from then on.
NeighbourIsFound == <>[]inRange => <>[](age # None)
=============================================================================
