-------------------------- MODULE PollSchedule_proofs --------------------------
(***************************************************************************)
(* Proofs about when ConsolePacing sends its polls, for every clock, every *)
(* list of polls and all intervals the assumptions admit: the bound on how *)
(* late one can be, and what it means for the chimes that are read back.   *)
(***************************************************************************)
EXTENDS ChimeReadback_proofs, FiniteSetTheorems

-----------------------------------------------------------------------------
(* Numbers.                                                                *)

\* Every set of natural numbers has a least element: the intervals that end in
\* one of them have a smallest one.
LEMMA Least ==
  ASSUME NEW T \in SUBSET Nat, T # {}
  PROVE  \E m \in T : \A n \in T : m <= n
<1> DEFINE Intervals == {0..n : n \in T}
<1>1. Intervals \subseteq FiniteSubsetsOf(Nat)
  <2> SUFFICES ASSUME NEW n \in T PROVE 0..n \in FiniteSubsetsOf(Nat)
    OBVIOUS
  <2>1. IsFiniteSet(0..n)
    BY FS_Interval
  <2>2. 0..n \in SUBSET Nat
    OBVIOUS
  <2>3. QED
    BY <2>1, <2>2 DEF FiniteSubsetsOf
<1>2. Intervals # {}
  OBVIOUS
<1>3. PICK I \in Intervals :
        \A J \in Intervals : <<J, I>> \notin StrictSubsetOrdering(Nat)
  BY <1>1, <1>2, FS_StrictSubsetOrderingWellFounded, WFMin
<1>4. PICK m \in T : I = 0..m
  OBVIOUS
<1>5. ASSUME NEW n \in T, n < m
      PROVE  FALSE
  <2>1. 0..n \in SUBSET Nat /\ I \in SUBSET Nat /\ 0..n \in Intervals
    BY <1>4
  <2>2. 0..n \subseteq I /\ 0..n # I
    <3>1. m \in I /\ m \notin 0..n
      BY <1>4, <1>5
    <3>2. QED
      BY <1>4, <1>5, <3>1
  <2>3. QED
    BY <1>3, <2>1, <2>2 DEF StrictSubsetOrdering
<1>6. \A n \in T : m <= n
  BY <1>5
<1>7. QED
  BY <1>6

LEMMA Monotone ==
  ASSUME NEW c \in Nat, NEW m \in Nat, NEW n \in Nat, m <= n
  PROVE  c * m <= c * n
OBVIOUS

LEMMA OneMore ==
  ASSUME NEW c \in Nat, NEW n \in Nat
  PROVE  c * (n + 1) = c * n + c /\ c * n \in Nat
OBVIOUS

LEMMA AtLeast ==
  ASSUME NEW r \in Nat \ {0}, NEW n \in Nat
  PROVE  n <= n * r /\ n * r \in Nat
<1>1. PICK d \in Nat : r = d + 1
  BY r - 1 \in Nat
<1>2. n * r = n * d + n /\ n * d \in Nat
  BY <1>1
<1>3. QED
  BY <1>2

-----------------------------------------------------------------------------
(* Deadlines as signed numbers.                                            *)

\* How long until a deadline; less than 0 when it has passed.
Until(d) == IF Reached(d) THEN 0 - Late(d) ELSE d

LEMMA UntilIs ==
  ASSUME NEW d \in Clock
  PROVE  /\ Until(d) = IF d <= Half THEN d ELSE d - 2 * Half
         /\ Until(d) \in Int /\ Until(d) <= d
         /\ Reached(d) <=> Until(d) <= 0
         /\ Reached(d) => Late(d) = 0 - Until(d)
<1>1. d \in 0..(2 * Half - 1) /\ Half \in Nat \ {0}
  BY ClockWidth DEF Clock
<1>2. QED
  BY <1>1, LateIs DEF Until

\* As long as it is late by less than half a clock, time brings a deadline
\* nearer by one.
LEMMA UntilNearer ==
  ASSUME NEW d \in Clock, Reached(d) => Late(d) < Half - 1
  PROVE  Until(Nearer(d)) = Until(d) - 1
<1>1. d \in 0..(2 * Half - 1) /\ Half \in Nat \ {0}
  BY ClockWidth DEF Clock
<1>2. Nearer(d) \in Clock
  BY NearerIs
<1>3. /\ Until(d) = IF d <= Half THEN d ELSE d - 2 * Half
      /\ Until(Nearer(d)) = IF Nearer(d) <= Half THEN Nearer(d)
                            ELSE Nearer(d) - 2 * Half
  BY <1>2, UntilIs
<1>4. Nearer(d) = IF d = 0 THEN 2 * Half - 1 ELSE d - 1
  BY NearerIs
<1>5. CASE d \in 1..Half
  BY <1>1, <1>3, <1>4, <1>5
<1>6. CASE d \notin 1..Half
  <2>1. Late(d) < Half - 1 /\ Late(d) = IF d = 0 THEN 0 ELSE 2 * Half - d
    BY <1>6, LateIs
  <2>2. CASE d = 0
    BY <1>1, <1>3, <1>4, <2>1, <2>2
  <2>3. CASE d # 0
    <3>1. d > Half + 1
      BY <1>1, <2>1, <2>3
    <3>2. QED
      BY <1>1, <1>3, <1>4, <3>1
  <2>4. QED
    BY <2>2, <2>3
<1>7. QED
  BY <1>5, <1>6

LEMMA Intervals ==
  /\ Gap \in Nat \ {0} /\ Gap < Half /\ MaxLate \in Nat /\ MaxHeld < Half
  /\ CommandInterval \in Nat \ {0} /\ PollSpacing \in Nat
  /\ PollSpacing <= Gap /\ CommandInterval + QuietMaxWait <= Gap
  /\ QuietMaxWait \in Nat /\ MaxHeld \in Nat
BY PacingAssumption DEF Gap

LEMMA Places ==
  /\ Len(Polls) \in Nat /\ DOMAIN Polls = 1..Len(Polls)
  /\ \A i \in DOMAIN Polls :
       /\ Polls[i] \in Kinds
       /\ Refresh[Polls[i]] \in Nat \ {0} /\ Refresh[Polls[i]] < Half
       /\ \A j \in 1..(i - 1) : j \in DOMAIN Polls /\ j < i
<1>1. Len(Polls) \in Nat /\ DOMAIN Polls = 1..Len(Polls)
  BY PacingAssumption, LenProperties
<1>2. \A i \in DOMAIN Polls : Polls[i] \in Kinds
  BY DEF Kinds
<1>3. \A k \in Kinds : Refresh[k] \in Nat \ {0} /\ Refresh[k] < Half
  BY PacingAssumption
<1>4. QED
  BY <1>1, <1>2, <1>3

-----------------------------------------------------------------------------
(* The schedule.                                                           *)

\* How long ago a poll was sent, when its deadline is one refresh after that.
Since(j) == Refresh[Polls[j]] - Until(due[Polls[j]])

\* The polls before place i, by place and number, that can have been sent in
\* the last w units: one Since(j) ago, and one refresh before each of them.
SentIn(i, w) ==
  {p \in (1..(i - 1)) \X (0..MaxLate) :
     Since(p[1]) + p[2] * Refresh[Polls[p[1]]] <= w}

\* Whoever holds up the polls starts the time anew.
Unhindered == free > 0 => control = "Idle" /\ txMode = "Monitor"

\* No deadline is further off than one refresh.
WithinRefresh == \A k \in Kinds : Until(due[k]) <= Refresh[k]

\* While a poll waits and nothing else holds up the polls, another one is sent
\* in every Gap: the time is no longer than the polls sent before it account
\* for, and the time since the last command.
OnSchedule ==
  \A i \in DOMAIN Polls : \A w \in 0..free :
    w <= 0 - Until(due[Polls[i]]) =>
      w <= Gap * Cardinality(SentIn(i, w)) + Less(sinceCommand, Gap)

ScheduleInv == PacingInv /\ Unhindered /\ WithinRefresh /\ OnSchedule

LEMMA SentInFinite ==
  ASSUME NEW i \in DOMAIN Polls, NEW w
  PROVE  /\ IsFiniteSet(SentIn(i, w)) /\ Cardinality(SentIn(i, w)) \in Nat
         /\ IsFiniteSet(SentIn(i, w)') /\ Cardinality(SentIn(i, w)') \in Nat
<1>1. IsFiniteSet((1..(i - 1)) \X (0..MaxLate))
  <2>1. i \in Int /\ MaxLate \in Int
    BY Places, Intervals
  <2>2. IsFiniteSet(1..(i - 1)) /\ IsFiniteSet(0..MaxLate)
    BY <2>1, FS_Interval
  <2>3. QED
    BY <2>2, FS_Product
<1>2. SentIn(i, w) \in SUBSET ((1..(i - 1)) \X (0..MaxLate))
  BY DEF SentIn
<1>3. SentIn(i, w)' \in SUBSET ((1..(i - 1)) \X (0..MaxLate))
  BY DEF SentIn
<1>4. QED
  BY <1>1, <1>2, <1>3, FS_Subset, FS_CardinalityType

LEMMA DueType ==
  ASSUME PacingInv
  PROVE  /\ \A k \in Kinds : due[k] \in Clock
         /\ \A i \in DOMAIN Polls :
              due[Polls[i]] \in Clock /\ Until(due[Polls[i]]) \in Int
         /\ \A j \in DOMAIN Polls : Since(j) \in Int
         /\ sinceCommand \in Nat /\ free \in 0..MaxLate
         /\ Less(sinceCommand, Gap) \in 0..Gap
<1>1. /\ due \in [Kinds -> Clock] /\ free \in 0..MaxLate
      /\ sinceCommand \in Clock
  BY DEF PacingInv, PacingTypeOK
<1>2. sinceCommand \in Nat
  BY <1>1, ClockWidth DEF Clock
<1>3. Less(sinceCommand, Gap) \in 0..Gap
  BY <1>2, Intervals DEF Less
<1>4. \A i \in DOMAIN Polls :
        due[Polls[i]] \in Clock /\ Until(due[Polls[i]]) \in Int
  BY <1>1, Places, UntilIs
<1>5. QED
  BY <1>1, <1>2, <1>3, <1>4, Places DEF Since

\* When the time starts anew nothing is claimed of it.
LEMMA StartsAnew ==
  ASSUME PacingInv', WithinRefresh', free' = 0
  PROVE  ScheduleInv'
<1>1. Unhindered'
  BY DEF Unhindered
<1>2. OnSchedule'
  <2> SUFFICES ASSUME NEW i \in DOMAIN Polls
               PROVE  0 <= Gap * Cardinality(SentIn(i, 0)') + Less(sinceCommand', Gap)
    BY DEF OnSchedule
  <2>1. sinceCommand' \in Nat
    BY ClockWidth DEF PacingInv, PacingTypeOK, Clock
  <2>2. Less(sinceCommand', Gap) \in Nat
    BY <2>1, Intervals DEF Less
  <2>3. PICK n \in Nat : n = Cardinality(SentIn(i, 0)')
    BY SentInFinite
  <2>4. Gap * n \in Nat
    BY Intervals, OneMore
  <2>5. QED
    BY <2>2, <2>3, <2>4
<1>3. QED
  BY <1>1, <1>2 DEF ScheduleInv

LEMMA InitSchedule == Init => ScheduleInv
<1> SUFFICES ASSUME Init PROVE ScheduleInv
  OBVIOUS
<1>1. PacingInv /\ free = 0 /\ due = Delay
  BY InitPacing DEF Init, PacingInit
<1>2. WithinRefresh
  <2> SUFFICES ASSUME NEW k \in Kinds PROVE Until(Delay[k]) <= Refresh[k]
    BY <1>1 DEF WithinRefresh
  <2>1. /\ Delay[k] \in Clock /\ Delay[k] <= Refresh[k]
        /\ Delay[k] \in Nat /\ Refresh[k] \in Nat
    BY DeadlinesOnClock, PacingAssumption
  <2>2. Until(Delay[k]) \in Int /\ Until(Delay[k]) <= Delay[k]
    BY <2>1, UntilIs
  <2>3. QED
    BY <2>1, <2>2
<1>3. OnSchedule
  <2> SUFFICES ASSUME NEW i \in DOMAIN Polls
               PROVE  0 <= Gap * Cardinality(SentIn(i, 0)) + Less(sinceCommand, Gap)
    BY <1>1 DEF OnSchedule
  <2>1. PICK n \in Nat : n = Cardinality(SentIn(i, 0))
    BY SentInFinite
  <2>2. Gap * n \in Nat
    BY Intervals, OneMore
  <2>3. QED
    BY <1>1, <2>1, <2>2, DueType, Intervals
<1>4. QED
  BY <1>1, <1>2, <1>3 DEF ScheduleInv, Unhindered

\* While a poll waits and nothing holds up the polls, the clock only moves on
\* before the next command may be sent.
LEMMA WaitsForGap ==
  ASSUME PacingInv, Tick, Undisturbed, NEW i \in DOMAIN Polls,
         Reached(due[Polls[i]])
  PROVE  sinceCommand < Gap
<1>1. \E k \in Kinds : Turn(k)
  <2> DEFINE T == {n \in DOMAIN Polls : Reached(due[Polls[n]])}
  <2>1. T \in SUBSET Nat /\ T # {}
    BY Places
  <2>2. PICK m \in T : \A n \in T : m <= n
    BY <2>1, Least
  <2>3. \A j \in 1..(m - 1) : ~Reached(due[Polls[j]])
    BY <2>1, <2>2, Places
  <2>4. Turn(Polls[m])
    BY <2>2, <2>3 DEF Turn
  <2>5. QED
    BY <2>2, <2>4, Places
<1>2. ~(MayPoll /\ CanSend)
  BY <1>1 DEF Tick, Urgent
<1>3. sinceCommand \in Nat
  BY DueType
<1>4. txMode = "Monitor" /\ control = "Idle" /\ Reached(backoff)
  BY DEF Undisturbed
<1>5. \/ sinceCommand < PollSpacing \/ sinceCommand < CommandInterval
      \/ sinceCommand < CommandInterval + QuietMaxWait
  BY <1>2, <1>3, <1>4, Intervals DEF MayPoll, CanSend
<1>6. QED
  BY <1>3, <1>5, Intervals

LEMMA TickSchedule ==
  ASSUME ScheduleInv, Tick
  PROVE  ScheduleInv'
<1>1. /\ PacingInv /\ PacingInv'
      /\ due' = [k \in Kinds |-> Nearer(due[k])]
      /\ sinceCommand' = (sinceCommand + 1) % (2 * Half)
      /\ free' = (IF Undisturbed THEN Less(free + 1, MaxLate) ELSE 0)
      /\ UNCHANGED <<txMode, control>>
  BY TickInv DEF ScheduleInv, Tick
<1>2. \A k \in Kinds : /\ due[k] \in Clock
                      /\ Until(due'[k]) = Until(due[k]) - 1
  <2> SUFFICES ASSUME NEW k \in Kinds
               PROVE  due[k] \in Clock /\ Until(due'[k]) = Until(due[k]) - 1
    OBVIOUS
  <2>1. due[k] \in Clock /\ due'[k] = Nearer(due[k])
    BY <1>1, DueType
  <2>2. Reached(due[k]) => Late(due[k]) < Half - 1
    BY <2>1, LateIs, Intervals, ClockWidth DEF Tick, Clock
  <2>3. QED
    BY <2>1, <2>2, UntilNearer
<1>3. WithinRefresh'
  <2> SUFFICES ASSUME NEW k \in Kinds PROVE Until(due'[k]) <= Refresh[k]
    BY DEF WithinRefresh
  <2>1. Until(due[k]) \in Int /\ Refresh[k] \in Nat
    BY <1>2, UntilIs, PacingAssumption
  <2>2. Until(due[k]) <= Refresh[k]
    BY DEF ScheduleInv, WithinRefresh
  <2>3. QED
    BY <1>2, <2>1, <2>2
<1>4. free \in 0..MaxLate
  BY <1>1, DueType
<1>5. CASE free' = 0
  BY <1>1, <1>3, <1>5, StartsAnew
<1>6. CASE free' # 0
  <2>1. Undisturbed /\ free' <= free + 1
    BY <1>1, <1>4, <1>6, Intervals DEF Less
  <2>2. Unhindered'
    BY <1>1, <2>1 DEF Unhindered, Undisturbed
  <2>3. ASSUME NEW i \in DOMAIN Polls, NEW w \in 0..free', w # 0,
               w <= 0 - Until(due'[Polls[i]])
        PROVE  w <= Gap * Cardinality(SentIn(i, w)') + Less(sinceCommand', Gap)
    <3>1. PICK v \in 0..free : w = v + 1
      <4>1. w - 1 \in 0..free
        BY <1>1, <1>4, <2>1, <2>3, ClockWidth DEF Less
      <4>2. w = (w - 1) + 1
        OBVIOUS
      <4>3. QED
        BY <4>1, <4>2
    <3>2. /\ Until(due[Polls[i]]) \in Int /\ due[Polls[i]] \in Clock
          /\ Until(due'[Polls[i]]) = Until(due[Polls[i]]) - 1
      BY <1>1, <1>2, DueType, Places
    <3>3. v <= 0 - Until(due[Polls[i]]) /\ Until(due[Polls[i]]) <= 0
      BY <1>4, <2>3, <3>1, <3>2
    <3>4. v <= Gap * Cardinality(SentIn(i, v)) + Less(sinceCommand, Gap)
      BY <3>1, <3>3 DEF ScheduleInv, OnSchedule
    <3>5. sinceCommand < Gap /\ sinceCommand \in Nat
      BY <1>1, <2>1, <3>2, <3>3, UntilIs, WaitsForGap, DueType
    <3>6. sinceCommand' = sinceCommand + 1
      <4>1. PICK n : n = 2 * Half
        OBVIOUS
      <4>2. n \in Nat \ {0} /\ sinceCommand + 1 \in 0..(n - 1)
        BY <3>5, <4>1, Intervals, ClockWidth
      <4>3. (sinceCommand + 1) % n = sinceCommand + 1
        BY <4>2, ModuloOf
      <4>4. QED
        BY <1>1, <4>1, <4>3
    <3>7. Less(sinceCommand', Gap) = Less(sinceCommand, Gap) + 1
      BY <3>5, <3>6, Intervals DEF Less
    <3>8. SentIn(i, w)' = SentIn(i, v)
      <4>1. ASSUME NEW p \in (1..(i - 1)) \X (0..MaxLate)
            PROVE  Since(p[1])' + p[2] * Refresh[Polls[p[1]]] <= w
                     <=> Since(p[1]) + p[2] * Refresh[Polls[p[1]]] <= v
        <5>1. p[1] \in DOMAIN Polls /\ p[2] \in Nat
          BY Places, Intervals
        <5>2. /\ Since(p[1]) \in Int /\ Refresh[Polls[p[1]]] \in Nat \ {0}
              /\ Polls[p[1]] \in Kinds
          BY <1>1, <5>1, DueType, Places
        <5>3. Since(p[1])' = Since(p[1]) + 1
          BY <1>1, <1>2, <5>1, <5>2, DueType DEF Since
        <5>4. p[2] * Refresh[Polls[p[1]]] \in Nat
          BY <5>1, <5>2, AtLeast
        <5>5. QED
          BY <1>4, <3>1, <5>2, <5>3, <5>4
      <4>2. QED
        BY <4>1 DEF SentIn
    <3>9. PICK n \in Nat : n = Cardinality(SentIn(i, v))
      BY SentInFinite
    <3>10. Gap * n \in Nat /\ Less(sinceCommand, Gap) \in Nat
      BY <1>1, <3>9, OneMore, Intervals, DueType
    <3>11. QED
      BY <1>4, <3>1, <3>4, <3>7, <3>8, <3>9, <3>10
  <2>4. ASSUME NEW i \in DOMAIN Polls
        PROVE  0 <= Gap * Cardinality(SentIn(i, 0)') + Less(sinceCommand', Gap)
    <3>1. PICK n \in Nat : n = Cardinality(SentIn(i, 0)')
      BY SentInFinite
    <3>2. Gap * n \in Nat
      BY Intervals, OneMore
    <3>3. sinceCommand' \in Nat
      BY <1>1, ClockWidth DEF PacingInv, PacingTypeOK, Clock
    <3>4. Less(sinceCommand', Gap) \in Nat
      BY <3>3, Intervals DEF Less
    <3>5. QED
      BY <3>1, <3>2, <3>4
  <2>5. OnSchedule'
    BY <2>3, <2>4 DEF OnSchedule
  <2>6. QED
    BY <1>1, <1>3, <2>2, <2>5 DEF ScheduleInv
<1>7. QED
  BY <1>5, <1>6

\* A poll that is sent is one more of those before every poll that waits.
LEMMA OneMoreSent ==
  ASSUME ScheduleInv, NEW k \in Kinds, Poll(k),
         NEW i \in DOMAIN Polls, NEW w \in 0..MaxLate,
         NEW first \in 1..(i - 1), Polls[first] = k, Reached(due[k])
  PROVE  Cardinality(SentIn(i, w)) + 1 <= Cardinality(SentIn(i, w)')
<1>1. PacingInv /\ due' = [due EXCEPT ![k] = Refresh[k]]
  BY DEF ScheduleInv, Poll
<1>2. PICK r \in Nat \ {0} : r = Refresh[k] /\ r < Half
  BY PacingAssumption
<1>3. Until(r) = r
  <2>1. r \in Clock /\ r <= Half
    BY <1>2, DeadlinesOnClock, ClockWidth
  <2>2. QED
    BY <2>1, UntilIs
<1>4. /\ first \in DOMAIN Polls /\ Since(first)' = 0
      /\ Since(first) >= r /\ Since(first) \in Int
  <2>1. first \in DOMAIN Polls
    BY Places
  <2>2. due \in [Kinds -> Clock]
    BY <1>1 DEF PacingInv, PacingTypeOK
  <2>3. due'[k] = r
    BY <1>1, <1>2, <2>2
  <2>4. Until(due[k]) \in Int /\ Until(due[k]) <= 0
    BY <2>2, UntilIs
  <2>5. QED
    BY <1>1, <1>2, <1>3, <2>1, <2>3, <2>4, DueType DEF Since
<1>5. \A j \in 1..(i - 1) : /\ Since(j)' <= Since(j)
                           /\ Since(j) \in Int /\ Since(j)' \in Int
  <2> SUFFICES ASSUME NEW j \in 1..(i - 1)
               PROVE  /\ Since(j)' <= Since(j)
                      /\ Since(j) \in Int /\ Since(j)' \in Int
    OBVIOUS
  <2>1. j \in DOMAIN Polls /\ Polls[j] \in Kinds /\ Since(j) \in Int
    BY <1>1, Places, DueType
  <2>2. due \in [Kinds -> Clock]
    BY <1>1 DEF PacingInv, PacingTypeOK
  <2>3. CASE Polls[j] = k
    <3>1. Since(j)' = Since(first)' /\ Since(j) = Since(first)
      BY <2>3 DEF Since
    <3>2. QED
      BY <1>2, <1>4, <3>1
  <2>4. CASE Polls[j] # k
    <3>1. due'[Polls[j]] = due[Polls[j]]
      BY <1>1, <2>1, <2>2, <2>4
    <3>2. QED
      BY <2>1, <3>1 DEF Since
  <2>5. QED
    BY <2>3, <2>4
<1>6. SentIn(i, w) \subseteq SentIn(i, w)'
  <2> SUFFICES ASSUME NEW p \in SentIn(i, w) PROVE p \in SentIn(i, w)'
    OBVIOUS
  <2>1. /\ p \in (1..(i - 1)) \X (0..MaxLate)
        /\ Since(p[1]) + p[2] * Refresh[Polls[p[1]]] <= w
    BY DEF SentIn
  <2>2. p[2] * Refresh[Polls[p[1]]] \in Nat
    BY <2>1, Places, AtLeast
  <2>3. Since(p[1])' + p[2] * Refresh[Polls[p[1]]] <= w
    BY <1>5, <2>1, <2>2
  <2>4. QED
    BY <2>1, <2>3 DEF SentIn
<1>7. PICK q \in 0..MaxLate :
        <<first, q>> \in SentIn(i, w)' /\ <<first, q>> \notin SentIn(i, w)
  <2> DEFINE T == {n \in Nat : ~(Since(first) + n * r <= w)}
  <2>1. w + 1 \in T
    <3>1. w + 1 <= (w + 1) * r /\ (w + 1) * r \in Nat
      BY <1>2, AtLeast, Intervals
    <3>2. QED
      BY <1>2, <1>4, <3>1, Intervals
  <2>2. PICK q \in T : \A n \in T : q <= n
    <3>1. T \in SUBSET Nat /\ T # {}
      BY <2>1
    <3>2. QED
      BY <3>1, Least
  <2>3. q \in Nat /\ q * r \in Nat /\ q <= q * r
    BY <1>2, AtLeast
  <2>4. q * r <= w
    <3>1. CASE q = 0
      BY <3>1, <1>2, Intervals
    <3>2. CASE q # 0
      <4>1. PICK n \in Nat : q = n + 1
        BY <2>3, <3>2, q - 1 \in Nat
      <4>2. n \notin T
        BY <2>2, <4>1
      <4>3. Since(first) + n * r <= w /\ n * r \in Nat
        BY <1>2, <4>2, AtLeast
      <4>4. q * r = n * r + r
        BY <1>2, <4>1
      <4>5. QED
        BY <1>2, <1>4, <4>3, <4>4, Intervals
    <3>3. QED
      BY <3>1, <3>2
  <2>5. q \in 0..MaxLate
    BY <2>3, <2>4, Intervals
  <2>6. <<first, q>> \in (1..(i - 1)) \X (0..MaxLate)
    BY <2>5
  <2>7. <<first, q>> \notin SentIn(i, w)
    BY <1>2, <2>2 DEF SentIn
  <2>8. Since(first)' + q * r <= w
    BY <1>4, <2>3, <2>4
  <2>9. <<first, q>> \in SentIn(i, w)'
    BY <1>2, <2>6, <2>8 DEF SentIn
  <2>10. QED
    BY <2>5, <2>7, <2>9
<1>8. SentIn(i, w) \union {<<first, q>>} \in SUBSET SentIn(i, w)'
  BY <1>6, <1>7
<1>9. Cardinality(SentIn(i, w) \union {<<first, q>>})
        = Cardinality(SentIn(i, w)) + 1
  BY <1>7, SentInFinite, FS_AddElement
<1>10. QED
  BY <1>8, <1>9, SentInFinite, FS_Subset

LEMMA PollSchedule ==
  ASSUME ScheduleInv, NEW k \in Kinds, Poll(k)
  PROVE  ScheduleInv'
<1>1. /\ PacingInv /\ due' = [due EXCEPT ![k] = Refresh[k]]
      /\ sinceCommand' = 0
      /\ UNCHANGED <<txMode, control, free>>
  BY DEF ScheduleInv, Poll, SendBridgeCommand
<1>2. PacingInv'
  BY <1>1, PacingStepInv DEF PacingStep
<1>3. PICK first \in DOMAIN Polls :
        /\ Polls[first] = k /\ Reached(due[k])
        /\ \A j \in 1..(first - 1) : ~Reached(due[Polls[j]])
  BY DEF Poll, Turn
<1>4. /\ due \in [Kinds -> Clock] /\ due'[k] = Refresh[k]
      /\ \A l \in Kinds : l # k => due'[l] = due[l]
  BY <1>1 DEF PacingInv, PacingTypeOK
<1>5. Until(due'[k]) = Refresh[k] /\ Refresh[k] \in Nat \ {0}
  <2>1. Refresh[k] \in Nat \ {0} /\ Refresh[k] < Half
    BY PacingAssumption
  <2>2. Refresh[k] \in Clock /\ Half \in Nat
    BY DeadlinesOnClock, ClockWidth
  <2>3. QED
    BY <1>4, <2>1, <2>2, UntilIs
<1>6. Unhindered' /\ WithinRefresh'
  <2>1. Unhindered'
    BY <1>1 DEF ScheduleInv, Unhindered
  <2>2. ASSUME NEW l \in Kinds PROVE Until(due'[l]) <= Refresh[l]
    BY <1>4, <1>5 DEF ScheduleInv, WithinRefresh
  <2>3. QED
    BY <2>1, <2>2 DEF WithinRefresh
<1>7. ASSUME NEW i \in DOMAIN Polls, NEW w \in 0..free',
             w <= 0 - Until(due'[Polls[i]])
      PROVE  w <= Gap * Cardinality(SentIn(i, w)') + Less(sinceCommand', Gap)
  <2>1. /\ free' = free /\ free \in 0..MaxLate /\ w \in 0..MaxLate
        /\ Polls[i] \in Kinds
    BY <1>1, <1>7, DueType, Places, Intervals
  <2>2. Polls[i] # k
    BY <1>5, <1>7, <2>1
  <2>3. /\ Until(due'[Polls[i]]) = Until(due[Polls[i]])
        /\ Until(due[Polls[i]]) \in Int
    BY <1>1, <1>4, <2>1, <2>2, DueType
  <2>4. Reached(due[Polls[i]])
    <3>1. Until(due[Polls[i]]) <= 0
      BY <1>7, <2>1, <2>3
    <3>2. QED
      BY <1>4, <2>1, <3>1, UntilIs
  <2>5. first \in 1..(i - 1)
    BY <1>3, <2>2, <2>4, Places
  <2>6. PICK m \in Nat, n \in Nat :
          m = Cardinality(SentIn(i, w)) /\ n = Cardinality(SentIn(i, w)')
    BY SentInFinite
  <2>7. m + 1 <= n
    BY <1>3, <2>1, <2>5, <2>6, OneMoreSent
  <2>8. w <= Gap * m + Less(sinceCommand, Gap)
    BY <1>7, <2>1, <2>3, <2>6 DEF ScheduleInv, OnSchedule
  <2>9. Less(sinceCommand, Gap) \in 0..Gap
    BY <1>1, DueType
  <2>10. Gap * (m + 1) <= Gap * n /\ Gap * (m + 1) = Gap * m + Gap
    BY <2>7, Intervals, Monotone, OneMore
  <2>11. Less(sinceCommand', Gap) = 0
    BY <1>1, Intervals DEF Less
  <2>12. Gap * m \in Nat /\ Gap * n \in Nat
    BY Intervals, OneMore
  <2>13. QED
    BY <2>1, <2>6, <2>8, <2>9, <2>10, <2>11, <2>12, Intervals
<1>8. OnSchedule'
  BY <1>7 DEF OnSchedule
<1>9. QED
  BY <1>2, <1>6, <1>8 DEF ScheduleInv

\* Deadlines are moved to now, or to a command or two from now.
LEMMA MovedWithin ==
  ASSUME PacingInv, WithinRefresh, NEW k \in Kinds,
         due'[k] \in {due[k], 0, CommandInterval, 2 * CommandInterval}
  PROVE  Until(due'[k]) <= Refresh[k]
<1>1. /\ Refresh[k] \in Nat /\ 2 * CommandInterval <= Refresh[k]
      /\ CommandInterval \in Nat /\ 0 <= Refresh[k]
      /\ CommandInterval <= Refresh[k]
  BY PacingAssumption, PromptAssumption
<1>2. \A d \in {0, CommandInterval, 2 * CommandInterval} :
        Until(d) \in Int /\ Until(d) <= d
  BY DeadlinesOnClock, UntilIs
<1>3. \A d \in {0, CommandInterval, 2 * CommandInterval} : Until(d) <= Refresh[k]
  BY <1>1, <1>2
<1>4. Until(due[k]) <= Refresh[k]
  BY DEF WithinRefresh
<1>5. QED
  BY <1>3, <1>4

LEMMA StepSchedule ==
  ASSUME ScheduleInv, PacingStep
  PROVE  ScheduleInv'
<1>1. /\ PacingInv /\ PacingInv' /\ WithinRefresh
      /\ due \in [Kinds -> Clock] /\ free \in 0..MaxLate
      /\ "zone_info" \in Kinds
  BY PacingStepInv, DeadlinesOnClock DEF ScheduleInv, PacingInv, PacingTypeOK
<1>2. free > 0 => control = "Idle" /\ txMode = "Monitor"
  BY DEF ScheduleInv, Unhindered
<1>3. ASSUME free' = 0,
             \A k \in Kinds :
               due'[k] \in {due[k], 0, CommandInterval, 2 * CommandInterval}
      PROVE  ScheduleInv'
  <2>1. WithinRefresh'
    BY <1>1, <1>3, MovedWithin DEF WithinRefresh
  <2>2. QED
    BY <1>1, <1>3, <2>1, StartsAnew
<1>4. CASE Tick \/ \E k \in Kinds : Poll(k)
  BY <1>4, TickSchedule, PollSchedule
<1>5. CASE ManualCommand \/ SendControl
  BY <1>1, <1>2, <1>3, <1>5 DEF ManualCommand, SendControl
<1>6. CASE StartControl \/ AbortControl \/ LagReported
  BY <1>3, <1>6 DEF StartControl, AbortControl, LagReported
<1>7. ASSUME NEW chime \in BOOLEAN, FinishControl(chime)
      PROVE  ScheduleInv'
  <2>1. free' = 0
    BY <1>1, <1>2, <1>7 DEF FinishControl
  <2>2. \A k \in Kinds : due'[k] \in {due[k], 2 * CommandInterval}
    BY <1>1, <1>7 DEF FinishControl
  <2>3. QED
    BY <1>3, <2>1, <2>2
<1>8. ASSUME NEW mode, SetMode(mode)
      PROVE  ScheduleInv'
  <2>1. \A k \in Kinds : due'[k] \in {due[k], 0}
    BY <1>8 DEF SetMode
  <2>2. free' = 0
    BY <1>8 DEF SetMode
  <2>3. QED
    BY <1>3, <2>1, <2>2
<1>9. CASE RequestVolume
  <2>1. \A k \in Kinds : due'[k] \in {due[k], CommandInterval}
    BY <1>9 DEF RequestVolume, DueIn
  <2>2. QED
    BY <1>3, <1>9, <2>1 DEF RequestVolume
<1>10. ASSUME NEW l, NEW delay \in {0, CommandInterval}, PullForward(l, delay)
       PROVE  ScheduleInv'
  <2>1. \A k \in Kinds : due'[k] \in {due[k], 0, CommandInterval}
    BY <1>10 DEF PullForward, DueIn
  <2>2. QED
    BY <1>3, <1>10, <2>1 DEF PullForward
<1>11. CASE UNCHANGED pacingVars
  <2>1. UNCHANGED <<due, sinceCommand, free, control, txMode>>
    BY <1>11 DEF pacingVars
  <2>2. Unhindered' /\ WithinRefresh'
    BY <2>1 DEF ScheduleInv, Unhindered, WithinRefresh
  <2>3. \A i, w : SentIn(i, w)' = SentIn(i, w)
    BY <2>1 DEF SentIn, Since
  <2>4. OnSchedule'
    BY <2>1, <2>3 DEF ScheduleInv, OnSchedule
  <2>5. QED
    BY <1>1, <2>2, <2>4 DEF ScheduleInv
<1>12. QED
  BY <1>4, <1>5, <1>6, <1>7, <1>8, <1>9, <1>10, <1>11 DEF PacingStep

LEMMA ScheduleInvariance == Spec => []ScheduleInv
<1>1. ScheduleInv /\ [Next]_vars => ScheduleInv'
  BY PacingSteps, StepSchedule
<1>2. QED
  BY <1>1, InitSchedule, PTL DEF Spec

\* A poll that nothing has held up for MaxLate is never later than that,
\* however long the list, however much the console prints and whatever stands
\* before it in the order (processMonitorPolling).
THEOREM PollsAlwaysOnTime == Spec => []PollsOnTime
<1>1. ScheduleInv => PollsOnTime
  <2> SUFFICES ASSUME ScheduleInv, free = MaxLate, NEW k \in Kinds,
                      Reached(due[k]), ~(Late(due[k]) <= MaxLate)
               PROVE  FALSE
    BY DEF PollsOnTime
  <2>1. PICK i \in DOMAIN Polls : Polls[i] = k
    BY DEF Kinds
  <2>2. PacingInv /\ MaxLate \in Nat /\ due[k] \in Clock
    BY DueType, Intervals DEF ScheduleInv
  <2>3. MaxLate <= 0 - Until(due[k]) /\ MaxLate \in 0..free
    BY <2>2, UntilIs
  <2>4. PICK m \in Nat : m = Cardinality(SentIn(i, MaxLate))
    BY SentInFinite
  <2>5. MaxLate <= Gap * m + Less(sinceCommand, Gap)
    BY <2>1, <2>3, <2>4 DEF ScheduleInv, OnSchedule
  <2>6. SentIn(i, MaxLate) \in SUBSET Ahead
    <3> SUFFICES ASSUME NEW p \in SentIn(i, MaxLate) PROVE p \in Ahead
      OBVIOUS
    <3>1. /\ p \in (1..(i - 1)) \X (0..MaxLate)
          /\ Since(p[1]) + p[2] * Refresh[Polls[p[1]]] <= MaxLate
      BY DEF SentIn
    <3>2. /\ p[1] \in DOMAIN Polls /\ p[1] < i /\ p[2] \in Nat
          /\ Polls[p[1]] \in Kinds /\ Refresh[Polls[p[1]]] \in Nat \ {0}
      BY <3>1, Places, Intervals
    <3>3. Since(p[1]) \in Nat
      <4>1. Until(due[Polls[p[1]]]) <= Refresh[Polls[p[1]]]
        BY <3>2 DEF ScheduleInv, WithinRefresh
      <4>2. Until(due[Polls[p[1]]]) \in Int
        BY <2>2, <3>2, DueType
      <4>3. QED
        BY <3>2, <4>1, <4>2 DEF Since
    <3>4. p[2] * Refresh[Polls[p[1]]] \in Nat
      BY <3>2, AtLeast
    <3>5. p[2] * Refresh[Polls[p[1]]] <= MaxLate
      BY <2>2, <3>1, <3>3, <3>4
    <3>6. p[1] \in 1..(Len(Polls) - 1)
      BY <3>2, Places
    <3>7. p \in (1..(Len(Polls) - 1)) \X (0..MaxLate)
      BY <3>1, <3>6
    <3>8. QED
      BY <3>5, <3>7 DEF Ahead
  <2>7. PICK n \in Nat : n = Cardinality(Ahead) /\ m <= n
    <3>1. IsFiniteSet(1..(Len(Polls) - 1)) /\ IsFiniteSet(0..MaxLate)
      BY Places, Intervals, FS_Interval
    <3>2. IsFiniteSet((1..(Len(Polls) - 1)) \X (0..MaxLate))
      BY <3>1, FS_Product
    <3>3. Ahead \in SUBSET ((1..(Len(Polls) - 1)) \X (0..MaxLate))
      BY DEF Ahead
    <3>4. IsFiniteSet(Ahead)
      BY <3>2, <3>3, FS_Subset
    <3>5. QED
      BY <2>4, <2>6, <3>4, FS_Subset, FS_CardinalityType
  <2>8. Gap * m <= Gap * n /\ Gap * (n + 1) = Gap * n + Gap /\ Gap * m \in Nat
        /\ Gap * n \in Nat
    BY <2>7, Intervals, Monotone, OneMore
  <2>9. Less(sinceCommand, Gap) \in 0..Gap
    BY <2>2, DueType
  <2>10. Gap * (n + 1) < MaxLate
    BY <2>7, PromptAssumption
  <2>11. QED
    BY <2>2, <2>5, <2>8, <2>9, <2>10, Intervals
<1>2. QED
  BY <1>1, ScheduleInvariance, PTL

-----------------------------------------------------------------------------
(* What is read back.                                                      *)

NoChime == \A i \in DOMAIN input : input[i].kind # "zone_chime"

\* A zone_info is on its way to the panel, with no chime behind it.
AskedLast ==
  \E i \in DOMAIN input :
    /\ input[i].kind = "zone_info"
    /\ \A j \in DOMAIN input : i < j => input[j].kind # "zone_chime"

\* What the record will be when every answer has come in.
Latest == IF output = <<>> THEN chimeMode ELSE output[Len(output)]

\* The last answer, here or to come, is the panel's settings as they are to be.
Fresh == AskedLast \/ (NoChime /\ Latest = panelChime)

\* How soon zone_info is due after a chime, or the start.
Soon ==
  IF Delay["zone_info"] < 2 * CommandInterval THEN 2 * CommandInterval
  ELSE Delay["zone_info"]

\* A zone_info will be sent: soon, when the chime in service ends, or when the
\* operator returns to Monitor mode.
Owed ==
  \/ Until(due["zone_info"]) + free <= Soon
  \/ control = "WaitCommand" /\ current # {}
  \/ txMode # "Monitor"

ReadBackInv == Fresh \/ Owed

LEMMA FreshKept ==
  ASSUME UNCHANGED <<input, output, chimeMode, panelChime>>, Fresh
  PROVE  Fresh'
BY DEF Fresh, AskedLast, NoChime, Latest

LEMMA ZoneInfoDue ==
  ASSUME PacingInv
  PROVE  /\ due["zone_info"] \in Clock /\ Until(due["zone_info"]) \in Int
         /\ free \in 0..MaxLate
         /\ Soon \in Nat /\ 2 * CommandInterval <= Soon
         /\ Delay["zone_info"] <= Soon
<1>1. due["zone_info"] \in Clock /\ Until(due["zone_info"]) \in Int
        /\ free \in 0..MaxLate
  BY DeadlinesOnClock, DueType, UntilIs
<1>2. Delay["zone_info"] \in Nat /\ CommandInterval \in Nat
  BY DeadlinesOnClock, PacingAssumption
<1>3. QED
  BY <1>1, <1>2 DEF Soon

\* What leaves zone_info alone leaves it owed.
LEMMA OwedKept ==
  ASSUME PacingInv, Owed, due'["zone_info"] = due["zone_info"],
         free' \in {0, free}, txMode' = txMode,
         control # "WaitCommand" \/ UNCHANGED <<control, current>>
  PROVE  Owed'
<1>1. CASE Until(due["zone_info"]) + free <= Soon
  BY <1>1, ZoneInfoDue DEF Owed
<1>2. CASE control = "WaitCommand" /\ current # {}
  BY <1>2 DEF Owed
<1>3. CASE txMode # "Monitor"
  BY <1>3 DEF Owed
<1>4. QED
  BY <1>1, <1>2, <1>3 DEF Owed

LEMMA InitReadBack == Init => ReadBackInv
<1> SUFFICES ASSUME Init PROVE Owed
  BY DEF ReadBackInv
<1>1. PacingInv /\ free = 0 /\ due = Delay
  BY InitPacing DEF Init, PacingInit
<1>2. Delay["zone_info"] \in Clock /\ Delay["zone_info"] \in Nat
  BY DeadlinesOnClock, PacingAssumption
<1>3. Until(Delay["zone_info"]) <= Delay["zone_info"]
  BY <1>2, UntilIs
<1>4. QED
  BY <1>1, <1>2, <1>3, ZoneInfoDue DEF Owed

\* Requests, and what others do to the polls.
LEMMA RequestReadBack ==
  ASSUME ScheduleInv, ReadBackInv,
         \/ \E z \in Zones, m \in Modes : AcceptRequest(z, m)
         \/ PopQueue \/ VolumeRequest \/ OtherControl \/ Abort \/ FailRequest
         \/ Bystander /\ UNCHANGED chimeVars
  PROVE  ReadBackInv'
<1>1. UNCHANGED <<input, output, chimeMode, panelChime>>
  BY DEF AcceptRequest, PopQueue, VolumeRequest, OtherControl, Abort, Discard,
         FailRequest, chimeVars
<1>2. ASSUME Owed PROVE Owed'
  <2>1. due \in [Kinds -> Clock] /\ "zone_info" \in Kinds /\ PacingInv
    BY DeadlinesOnClock DEF ScheduleInv, PacingInv, PacingTypeOK
  <2>2. ASSUME NEW k, NEW delay, k # "zone_info", due' = DueIn(k, delay)
        PROVE  due'["zone_info"] = due["zone_info"]
    BY <2>1, <2>2 DEF DueIn
  <2>3. CASE \E z \in Zones, m \in Modes : AcceptRequest(z, m)
    <3>1. StartControl \/ UNCHANGED <<pacingVars, current>>
      BY <2>3 DEF AcceptRequest
    <3>2. QED
      BY <1>2, <2>1, <3>1, OwedKept DEF StartControl, pacingVars
  <2>4. CASE PopQueue \/ OtherControl
    BY <1>2, <2>1, <2>4, OwedKept DEF PopQueue, OtherControl, StartControl
  <2>5. CASE VolumeRequest
    <3>1. due'["zone_info"] = due["zone_info"]
      BY <2>2, <2>5 DEF VolumeRequest, RequestVolume
    <3>2. QED
      BY <1>2, <2>1, <2>5, <3>1, OwedKept DEF VolumeRequest, RequestVolume
  <2>6. CASE Abort \/ FailRequest
    BY <1>2, <2>1, <2>6, OwedKept DEF Abort, FailRequest, AbortControl
  <2>7. CASE Bystander /\ UNCHANGED chimeVars
    <3>1. CASE ManualCommand \/ LagReported
      BY <1>2, <2>1, <2>7, <3>1, OwedKept
      DEF ManualCommand, LagReported, chimeVars
    <3>2. ASSUME NEW k \in Pulled, NEW delay \in {0, CommandInterval},
                 PullForward(k, delay)
          PROVE  Owed'
      <4>1. due'["zone_info"] = due["zone_info"]
        BY <2>2, <3>2 DEF PullForward, Pulled
      <4>2. QED
        BY <1>2, <2>1, <2>7, <3>2, <4>1, OwedKept DEF PullForward, chimeVars
    <3>3. QED
      BY <2>7, <3>1, <3>2
      DEF Bystander, TroubleUpdated, AlarmUpdated, NetworkReady, Pulled
  <2>8. QED
    BY <2>3, <2>4, <2>5, <2>6, <2>7
<1>3. QED
  BY <1>1, <1>2, FreshKept DEF ReadBackInv

\* A chime makes zone_info owed, from its transmission on.
LEMMA ChimeReadBack ==
  ASSUME ScheduleInv, ReadBackInv, Transmit \/ Finish
  PROVE  ReadBackInv'
<1>1. /\ PacingInv /\ due \in [Kinds -> Clock] /\ "zone_info" \in Kinds
      /\ free \in 0..MaxLate
  BY DeadlinesOnClock DEF ScheduleInv, PacingInv, PacingTypeOK
<1>2. CASE Transmit /\ current # {}
  BY <1>2 DEF Transmit, SendControl, Owed, ReadBackInv
<1>3. CASE Transmit /\ current = {}
  <2>1. UNCHANGED <<input, output, chimeMode, panelChime>>
    BY <1>3 DEF Transmit
  <2>2. Owed => Owed'
    BY <1>1, <1>3, OwedKept DEF Transmit, SendControl
  <2>3. QED
    BY <2>1, <2>2, FreshKept DEF ReadBackInv
<1>4. CASE Finish
  <2>1. /\ control = "WaitCommand" /\ free' = free /\ txMode' = txMode
        /\ UNCHANGED <<input, output, chimeMode, panelChime>>
    BY <1>4 DEF Finish, FinishControl
  <2>2. free = 0
    BY <1>1, <2>1 DEF ScheduleInv, Unhindered
  <2>3. CASE current # {}
    <3>1. due' = [due EXCEPT !["zone_info"] = 2 * CommandInterval]
      BY <1>4, <2>3 DEF Finish, FinishControl
    <3>2. due'["zone_info"] = 2 * CommandInterval
      BY <1>1, <3>1
    <3>3. /\ Until(2 * CommandInterval) <= 2 * CommandInterval
          /\ Until(2 * CommandInterval) \in Int
      BY DeadlinesOnClock, UntilIs
    <3>4. QED
      BY <1>1, <2>1, <2>2, <3>2, <3>3, ZoneInfoDue, Intervals
      DEF Owed, ReadBackInv
  <2>4. CASE current = {}
    <3>1. due' = due
      BY <1>4, <2>4 DEF Finish, FinishControl
    <3>2. Owed => Owed'
      BY <2>1, <2>4, <3>1 DEF Owed
    <3>3. QED
      BY <2>1, <3>2, FreshKept DEF ReadBackInv
  <2>5. QED
    BY <2>3, <2>4
<1>5. QED
  BY <1>2, <1>3, <1>4

LEMMA OperatorReadBack ==
  ASSUME ScheduleInv, ReadBackInv, Operator
  PROVE  ReadBackInv'
<1>1. CASE SetMode("Monitor")
  <2>1. "zone_info" \in Kinds /\ PacingInv
    BY DeadlinesOnClock DEF ScheduleInv
  <2>2. due'["zone_info"] = 0 /\ free' = 0
    BY <1>1, <2>1 DEF SetMode
  <2>3. Until(0) = 0
    BY DeadlinesOnClock, UntilIs, ClockWidth
  <2>4. QED
    BY <2>1, <2>2, <2>3, ZoneInfoDue DEF Owed, ReadBackInv
<1>2. CASE SetMode("Passive") \/ SetMode("Maintenance")
  BY <1>2 DEF SetMode, Owed, ReadBackInv
<1>3. QED
  BY <1>1, <1>2 DEF Operator

LEMMA TimeReadBack ==
  ASSUME ScheduleInv, ReadBackInv, TimePasses
  PROVE  ReadBackInv'
<1>1. UNCHANGED <<input, output, chimeMode, panelChime, current>>
  BY DEF TimePasses, chimeVars
<1>2. PacingInv /\ "zone_info" \in Kinds
  BY DeadlinesOnClock DEF ScheduleInv
<1>3. Until(due'["zone_info"]) = Until(due["zone_info"]) - 1
  <2>1. due["zone_info"] \in Clock /\ due'["zone_info"] = Nearer(due["zone_info"])
    BY <1>2, DueType DEF TimePasses, Tick
  <2>2. Reached(due["zone_info"]) => Late(due["zone_info"]) < Half - 1
    BY <1>2, <2>1, LateIs, Intervals, ClockWidth DEF TimePasses, Tick, Clock
  <2>3. QED
    BY <2>1, <2>2, UntilNearer
<1>4. /\ free \in Nat /\ free' \in Int /\ free' <= free + 1
      /\ UNCHANGED <<txMode, control>>
  BY <1>2, ZoneInfoDue, Intervals DEF TimePasses, Tick, Less
<1>5. ASSUME Owed PROVE Owed'
  <2>1. CASE Until(due["zone_info"]) + free <= Soon
    BY <1>2, <1>3, <1>4, <2>1, ZoneInfoDue DEF Owed
  <2>2. QED
    BY <1>1, <1>4, <1>5, <2>1 DEF Owed
<1>6. QED
  BY <1>1, <1>5, FreshKept DEF ReadBackInv

LEMMA PollReadBack ==
  ASSUME ScheduleInv, ChimeInv, ReadBackInv, SendPoll
  PROVE  ReadBackInv'
<1>1. PICK k \in Kinds :
        /\ Poll(k)
        /\ input' = IF k = "zone_info" THEN Append(input, [kind |-> k])
                    ELSE input
        /\ UNCHANGED <<chimeMode, current, queue, panelChime, output,
                       unconfirmed>>
  BY DEF SendPoll
<1>2. CASE k = "zone_info"
  <2>1. input \in Seq(Inputs) /\ [kind |-> "zone_info"] \in Inputs
    BY DEF ChimeInv, ChimeType, Inputs
  <2>2. PICK e \in Inputs :
          e.kind = "zone_info" /\ input' = Append(input, e)
    BY <1>1, <1>2, <2>1
  <2>3. /\ DOMAIN input' = 1..(Len(input) + 1) /\ Len(input) \in Nat
        /\ input'[Len(input) + 1] = e
    BY <2>1, <2>2, AppendProperties, LenProperties
  <2>4. AskedLast'
    BY <2>2, <2>3 DEF AskedLast
  <2>5. QED
    BY <2>4 DEF Fresh, ReadBackInv
<1>3. CASE k # "zone_info"
  <2>1. UNCHANGED <<input, output, chimeMode, panelChime>>
    BY <1>1, <1>3
  <2>2. PacingInv /\ due \in [Kinds -> Clock] /\ "zone_info" \in Kinds
    BY DeadlinesOnClock DEF ScheduleInv, PacingInv, PacingTypeOK
  <2>3. due'["zone_info"] = due["zone_info"]
    BY <1>1, <1>3, <2>2 DEF Poll
  <2>4. Owed => Owed'
    BY <1>1, <2>2, <2>3, OwedKept DEF Poll, MayPoll
  <2>5. QED
    BY <2>1, <2>4, FreshKept DEF ReadBackInv
<1>4. QED
  BY <1>2, <1>3

\* The panel answers with what it then has; a chime still behind would make
\* the answer old.
LEMMA PanelReadBack ==
  ASSUME ChimeInv, ReadBackInv, PanelActs
  PROVE  ReadBackInv'
<1>1. /\ input # <<>> /\ input \in Seq(Inputs) /\ input' = Tail(input)
      /\ panelChime \in Tables /\ output \in Seq(Tables)
      /\ UNCHANGED <<pacingVars, current, chimeMode>>
  BY DEF PanelActs, ChimeInv, ChimeType
<1>2. /\ Len(input) \in Nat \ {0} /\ DOMAIN input = 1..Len(input)
      /\ DOMAIN input' = 1..(Len(input) - 1) /\ Head(input) = input[1]
      /\ \A i \in DOMAIN input' : input'[i] = input[i + 1]
      /\ Head(input) \in Inputs
  BY <1>1, HeadTailProperties, EmptySeq, LenProperties
<1>3. Owed => Owed'
  BY <1>1 DEF Owed, pacingVars
<1>4. NoChime => NoChime'
  BY <1>2 DEF NoChime
<1>5. ASSUME NEW i \in DOMAIN input, i # 1, input[i].kind = "zone_info",
             \A j \in DOMAIN input : i < j => input[j].kind # "zone_chime"
      PROVE  AskedLast'
  <2>1. i - 1 \in DOMAIN input' /\ input'[i - 1].kind = "zone_info"
    BY <1>2, <1>5
  <2>2. \A j \in DOMAIN input' : i - 1 < j => input'[j].kind # "zone_chime"
    BY <1>2, <1>5
  <2>3. QED
    BY <2>1, <2>2 DEF AskedLast
<1>6. CASE Head(input).kind = "zone_chime"
  <2>1. ~NoChime
    BY <1>2, <1>6 DEF NoChime
  <2>2. AskedLast => AskedLast'
    BY <1>2, <1>5, <1>6 DEF AskedLast
  <2>3. QED
    BY <1>3, <2>1, <2>2 DEF Fresh, ReadBackInv
<1>7. CASE Head(input).kind # "zone_chime"
  <2>1. output' = Append(output, panelChime) /\ panelChime' = panelChime
    BY <1>7 DEF PanelActs
  <2>2. Latest' = panelChime'
    BY <1>1, <2>1, AppendProperties, EmptySeq DEF Latest
  <2>3. ASSUME AskedLast PROVE AskedLast' \/ NoChime'
    <3>1. PICK i \in DOMAIN input :
            /\ input[i].kind = "zone_info"
            /\ \A j \in DOMAIN input : i < j => input[j].kind # "zone_chime"
      BY <2>3 DEF AskedLast
    <3>2. CASE i # 1
      BY <1>5, <3>1, <3>2
    <3>3. CASE i = 1
      BY <1>2, <3>1, <3>3 DEF NoChime
    <3>4. QED
      BY <3>2, <3>3
  <2>4. Fresh => Fresh'
    BY <1>4, <2>2, <2>3 DEF Fresh
  <2>5. QED
    BY <1>3, <2>4 DEF ReadBackInv
<1>8. QED
  BY <1>6, <1>7

\* What taking the first answer leaves.
LEMMA TailParts ==
  ASSUME NEW S, NEW s \in Seq(S), s # <<>>
  PROVE  /\ Len(s) \in Nat \ {0} /\ Head(s) = s[1] /\ Tail(s) \in Seq(S)
         /\ Len(Tail(s)) = Len(s) - 1 /\ (Tail(s) = <<>> <=> Len(s) = 1)
         /\ \A i \in 1..(Len(s) - 1) : Tail(s)[i] = s[i + 1]
<1>1. /\ Len(s) \in Nat \ {0} /\ Head(s) = s[1] /\ Tail(s) \in Seq(S)
      /\ Len(Tail(s)) = Len(s) - 1
      /\ \A i \in 1..(Len(s) - 1) : Tail(s)[i] = s[i + 1]
  BY HeadTailProperties, EmptySeq, LenProperties
<1>2. PICK t \in Seq(S) : t = Tail(s)
  BY <1>1
<1>3. t = <<>> <=> Len(t) = 0
  BY EmptySeq
<1>4. QED
  BY <1>1, <1>2, <1>3

LEMMA RecordReadBack ==
  ASSUME ChimeInv, ReadBackInv, RecordZoneConfiguration
  PROVE  ReadBackInv'
<1>1. /\ output # <<>> /\ output \in Seq(Tables) /\ output' = Tail(output)
      /\ chimeMode' = Head(output)
      /\ UNCHANGED <<pacingVars, current, panelChime, input>>
  BY DEF RecordZoneConfiguration, ChimeInv, ChimeType
<1>2. Owed => Owed'
  BY <1>1 DEF Owed, pacingVars
<1>3. Latest' = Latest
  <2>1. /\ Len(output) \in Nat \ {0} /\ Head(output) = output[1]
        /\ Len(Tail(output)) = Len(output) - 1
        /\ Tail(output) = <<>> <=> Len(output) = 1
        /\ \A i \in 1..(Len(output) - 1) : Tail(output)[i] = output[i + 1]
    BY <1>1, TailParts
  <2>2. CASE Len(output) = 1
    <3>1. Tail(output) = <<>>
      BY <2>1, <2>2
    <3>2. QED
      BY <1>1, <2>1, <2>2, <3>1 DEF Latest
  <2>3. CASE Len(output) # 1
    <3>1. Tail(output) # <<>> /\ Len(output) - 1 \in 1..(Len(output) - 1)
      BY <2>1, <2>3
    <3>2. QED
      BY <1>1, <2>1, <3>1 DEF Latest
  <2>4. QED
    BY <2>2, <2>3
<1>4. Fresh => Fresh'
  BY <1>1, <1>3 DEF Fresh, AskedLast, NoChime
<1>5. QED
  BY <1>2, <1>4 DEF ReadBackInv

LEMMA NextReadBack ==
  ASSUME ScheduleInv, ChimeInv, ReadBackInv, [Next]_vars
  PROVE  ReadBackInv'
<1>1. ASSUME UNCHANGED vars PROVE ReadBackInv'
  <2>1. UNCHANGED <<input, output, chimeMode, panelChime, current, due, free,
                    txMode, control>>
    BY <1>1 DEF vars, pacingVars, chimeVars
  <2>2. Owed => Owed'
    BY <2>1 DEF Owed
  <2>3. QED
    BY <2>1, <2>2, FreshKept DEF ReadBackInv
<1>2. CASE \E z \in Zones, m \in Modes : SkipRequest(z, m) \/ AcceptRequest(z, m)
  BY <1>1, <1>2, RequestReadBack DEF SkipRequest
<1>3. CASE \/ PopQueue \/ VolumeRequest \/ OtherControl \/ Abort \/ FailRequest
           \/ Bystander /\ UNCHANGED chimeVars
  BY <1>3, RequestReadBack
<1>4. CASE Transmit \/ Finish
  BY <1>4, ChimeReadBack
<1>5. CASE Operator
  BY <1>5, OperatorReadBack
<1>6. CASE SendPoll
  BY <1>6, PollReadBack
<1>7. CASE PanelActs \/ RecordZoneConfiguration
  BY <1>7, PanelReadBack, RecordReadBack
<1>8. CASE TimePasses
  BY <1>8, TimeReadBack
<1>9. QED
  BY <1>1, <1>2, <1>3, <1>4, <1>5, <1>6, <1>7, <1>8 DEF Next

LEMMA ReadBackInvariance == Spec => []ReadBackInv
<1>1. ScheduleInv /\ ChimeInv /\ ReadBackInv /\ [Next]_vars => ReadBackInv'
  BY NextReadBack
<1>2. QED
  BY <1>1, InitReadBack, ScheduleInvariance, ChimeInvariance, PTL DEF Spec

\* zone_info stands first: it is never late by more than one Gap.
LEMMA ZoneInfoFirst ==
  ASSUME ScheduleInv, free = MaxLate
  PROVE  ~(Gap + 1 <= 0 - Until(due["zone_info"]))
<1> SUFFICES ASSUME Gap + 1 <= 0 - Until(due["zone_info"])
             PROVE  FALSE
  OBVIOUS
<1>1. 1 \in DOMAIN Polls /\ Polls[1] = "zone_info"
  <2>1. Len(Polls) # 0
    BY DeadlinesOnClock, Places DEF Kinds
  <2>2. QED
    BY <2>1, Places, PromptAssumption
<1>2. PacingInv
  BY DEF ScheduleInv
<1>3. SentIn(1, Gap + 1) = {}
  BY DEF SentIn
<1>4. Cardinality(SentIn(1, Gap + 1)) = 0
  BY <1>3, FS_EmptySet
<1>5. Gap + 1 \in 0..free
  BY PromptAssumption, Intervals, ClockWidth
<1>6. Gap + 1 <= Gap * 0 + Less(sinceCommand, Gap)
  BY <1>1, <1>4, <1>5 DEF ScheduleInv, OnSchedule
<1>7. Less(sinceCommand, Gap) \in 0..Gap
  BY <1>2, DueType
<1>8. QED
  BY <1>6, <1>7, Intervals

\* A programming poll follows every chime: once nothing has held up the polls
\* for MaxLate and the answers are in, the record is the panel's
\* (finishAlarmControl, processMonitorPolling).
THEOREM ReadBackAlwaysAgrees == Spec => []ReadBackAgrees
<1>1. ScheduleInv /\ ReadBackInv => ReadBackAgrees
  <2> SUFFICES ASSUME ScheduleInv, ReadBackInv, free = MaxLate,
                      input = <<>>, output = <<>>
               PROVE  chimeMode = panelChime
    BY DEF ReadBackAgrees
  <2>1. PacingInv /\ control = "Idle" /\ txMode = "Monitor"
    BY ClockWidth DEF ScheduleInv, Unhindered
  <2>2. ~Owed
    <3>1. /\ Gap + 2 * CommandInterval < MaxLate
          /\ Gap + Delay["zone_info"] < MaxLate
          /\ Delay["zone_info"] \in Nat
      BY PromptAssumption, PacingAssumption
    <3>2. Gap + Soon < MaxLate
      BY <3>1, Intervals DEF Soon
    <3>3. ~(Until(due["zone_info"]) + free <= Soon)
      BY <2>1, <3>2, ZoneInfoFirst, ZoneInfoDue, Intervals
    <3>4. QED
      BY <2>1, <3>3 DEF Owed
  <2>3. ~AskedLast
    BY DEF AskedLast
  <2>4. Latest = panelChime
    BY <2>2, <2>3 DEF ReadBackInv, Fresh
  <2>5. QED
    BY <2>4 DEF Latest
<1>2. QED
  BY <1>1, ScheduleInvariance, ReadBackInvariance, PTL
=============================================================================
