------------------------ MODULE ChimeReadback_proofs ------------------------
(***************************************************************************)
(* Proofs about ConsolePacing and ChimeReadback, for every width of the    *)
(* clock, every interval the assumptions admit, every list of polls, any   *)
(* number of zones and modes and a queue of any size.                      *)
(***************************************************************************)
EXTENDS ChimeReadback, SequenceTheorems, TLAPS

-----------------------------------------------------------------------------
(* The wrapping clock.                                                     *)

LEMMA ModuloOf ==
  ASSUME NEW n \in Nat \ {0}, NEW r \in 0..(n - 1), NEW d \in Int,
         d = r \/ d = r - n
  PROVE  d % n = r
<1>1. CASE d = r
  BY <1>1
<1>2. CASE d = r - n
  <2>1. d = n * (0 - 1) + r
    BY <1>2
  <2>2. QED
    BY <2>1
<1>3. QED
  BY <1>1, <1>2

LEMMA ClockWidth ==
  /\ Half \in Nat \ {0} /\ 2 * Half \in Nat \ {0}
  /\ LagBackoff \in 1..(Half - 1) /\ CommandInterval \in 1..(Half - 1)
  /\ MaxLate \in Nat \ {0}
<1>1. /\ {Half, CommandInterval, LagBackoff, MaxLate} \subseteq Nat \ {0}
      /\ QuietMaxWait \in Nat
  BY PacingAssumption
<1>2. CommandInterval + QuietMaxWait < Half /\ LagBackoff < Half
  BY PacingAssumption
<1>3. QED
  BY <1>1, <1>2

LEMMA NearerIs ==
  ASSUME NEW d \in Clock
  PROVE  /\ Nearer(d) = IF d = 0 THEN 2 * Half - 1 ELSE d - 1
         /\ Nearer(d) \in Clock
<1>1. PICK n : n = 2 * Half
  OBVIOUS
<1>2. n \in Nat \ {0} /\ d \in 0..(n - 1)
  BY <1>1, ClockWidth DEF Clock
<1>3. (d - 1) % n = IF d = 0 THEN n - 1 ELSE d - 1
  <2>1. CASE d = 0
    BY <1>2, <2>1, ModuloOf
  <2>2. CASE d # 0
    BY <1>2, <2>2, ModuloOf
  <2>3. QED
    BY <2>1, <2>2
<1>4. QED
  BY <1>1, <1>2, <1>3 DEF Nearer, Clock

LEMMA LateIs ==
  ASSUME NEW d \in Clock
  PROVE  /\ Late(d) = IF d = 0 THEN 0 ELSE 2 * Half - d
         /\ Reached(d) <=> d \notin 1..Half
<1>1. PICK n : n = 2 * Half
  OBVIOUS
<1>2. n \in Nat \ {0} /\ d \in 0..(n - 1)
  BY <1>1, ClockWidth DEF Clock
<1>3. (0 - d) % n = IF d = 0 THEN 0 ELSE n - d
  <2>1. CASE d = 0
    BY <1>2, <2>1, ModuloOf
  <2>2. CASE d # 0
    BY <1>2, <2>2, ModuloOf
  <2>3. QED
    BY <2>1, <2>2
<1>4. Late(d) = IF d = 0 THEN 0 ELSE 2 * Half - d
  BY <1>1, <1>3 DEF Late
<1>5. QED
  BY <1>1, <1>2, <1>4, ClockWidth DEF Reached

LEMMA LaterIs ==
  ASSUME NEW t \in Clock
  PROVE  (t + 1) % (2 * Half) \in Clock
<1>1. PICK n : n = 2 * Half
  OBVIOUS
<1>2. n \in Nat \ {0} /\ t \in 0..(n - 1)
  BY <1>1, ClockWidth DEF Clock
<1>3. (t + 1) % n \in 0..(n - 1)
  BY <1>2
<1>4. QED
  BY <1>1, <1>3 DEF Clock

-----------------------------------------------------------------------------
(* The pacing gate and the pause.                                          *)

\* The deadline is LagBackoff after the last report, for as long as the clock
\* can tell.
Pause ==
  /\ lagAge <= LagBackoff => backoff = LagBackoff - lagAge
  /\ LagBackoff < lagAge /\ lagAge < LagForgotten =>
       backoff = 2 * Half + LagBackoff - lagAge

PacingInv == PacingTypeOK /\ Pause

Pulled == {"trouble_memory", "alarm_memory"}

PacingStep ==
  \/ \E k \in Kinds : Poll(k)
  \/ ManualCommand \/ StartControl \/ SendControl
  \/ \E chime \in BOOLEAN : FinishControl(chime)
  \/ AbortControl /\ UNCHANGED txMode
  \/ \E mode \in {"Passive", "Monitor", "Maintenance"} : SetMode(mode)
  \/ RequestVolume \/ LagReported \/ Tick
  \/ \E k \in Pulled, delay \in {0, CommandInterval} : PullForward(k, delay)
  \/ UNCHANGED pacingVars

\* Every deadline that is set lies on the clock.
LEMMA DeadlinesOnClock ==
  /\ 0 \in Clock /\ CommandInterval \in Clock /\ 2 * CommandInterval \in Clock
  /\ LagBackoff \in Clock
  /\ \A k \in Kinds : Delay[k] \in Clock /\ Refresh[k] \in Clock
  /\ "zone_info" \in Kinds /\ "trouble_memory" \in Kinds
<1>1. /\ 0 \in Clock /\ CommandInterval \in Clock
      /\ 2 * CommandInterval \in Clock /\ LagBackoff \in Clock
  BY ClockWidth DEF Clock
<1>2. ASSUME NEW k \in Kinds PROVE Delay[k] \in Clock /\ Refresh[k] \in Clock
  <2>1. /\ Delay[k] \in Nat /\ Refresh[k] \in Nat
        /\ Delay[k] <= Refresh[k] /\ Refresh[k] < Half
    BY PacingAssumption
  <2>2. QED
    BY <2>1, ClockWidth DEF Clock
<1>3. QED
  BY <1>1, <1>2, PacingAssumption

LEMMA InitPacing == PacingInit => PacingInv
<1> SUFFICES ASSUME PacingInit PROVE PacingInv
  OBVIOUS
<1>1. noisy \in BOOLEAN
  BY Zenon DEF PacingInit
<1>2. Delay \in [Kinds -> Clock]
  BY DeadlinesOnClock, PacingAssumption
<1>3. PacingTypeOK
  BY <1>1, <1>2, DeadlinesOnClock, ClockWidth
  DEF PacingInit, PacingTypeOK, LagForgotten
<1>4. QED
  BY <1>3, ClockWidth DEF PacingInit, PacingInv, Pause

\* A step of the clock.
LEMMA TickInv ==
  ASSUME PacingInv, Tick
  PROVE  PacingInv'
<1>1. backoff \in Clock /\ due \in [Kinds -> Clock] /\ sinceCommand \in Clock
        /\ lagAge \in 0..LagForgotten /\ free \in 0..MaxLate
  BY DEF PacingInv, PacingTypeOK
<1>2. backoff' \in Clock
  BY <1>1, NearerIs DEF Tick
<1>3. due' \in [Kinds -> Clock]
  <2>1. \A k \in Kinds : Nearer(due[k]) \in Clock
    BY <1>1, NearerIs
  <2>2. QED
    BY <2>1 DEF Tick
<1>4. sinceCommand' \in Clock
  BY <1>1, LaterIs DEF Tick
<1>5. lagAge' \in 0..LagForgotten /\ free' \in 0..MaxLate
  BY <1>1, ClockWidth DEF Tick, Less, LagForgotten
<1>6. PacingTypeOK'
  BY <1>2, <1>3, <1>4, <1>5 DEF PacingInv, PacingTypeOK, Tick
<1>7. Pause'
  <2>1. backoff' = IF backoff = 0 THEN 2 * Half - 1 ELSE backoff - 1
    BY <1>1, NearerIs DEF Tick
  <2>2. CASE lagAge < LagBackoff
    <3>1. backoff = LagBackoff - lagAge /\ lagAge' = lagAge + 1
      BY <1>1, <2>2, ClockWidth DEF PacingInv, Pause, Tick, Less, LagForgotten
    <3>2. QED
      BY <1>1, <2>1, <2>2, <3>1, ClockWidth DEF Pause
  <2>3. CASE lagAge = LagBackoff
    <3>1. backoff = 0 /\ lagAge' = LagBackoff + 1
      BY <1>1, <2>3, ClockWidth DEF PacingInv, Pause, Tick, Less, LagForgotten
    <3>2. QED
      BY <2>1, <3>1, ClockWidth DEF Pause
  <2>4. CASE LagBackoff < lagAge /\ lagAge < LagForgotten
    <3>1. /\ backoff = 2 * Half + LagBackoff - lagAge
          /\ lagAge' = lagAge + 1
      BY <1>1, <2>4, ClockWidth DEF PacingInv, Pause, Tick, Less, LagForgotten
    <3>2. QED
      BY <1>1, <2>1, <2>4, <3>1, ClockWidth DEF Pause, LagForgotten
  <2>5. CASE lagAge = LagForgotten
    <3>1. lagAge' = LagForgotten
      BY <2>5, ClockWidth DEF Tick, Less, LagForgotten
    <3>2. QED
      BY <3>1, ClockWidth DEF Pause, LagForgotten
  <2>6. QED
    BY <1>1, <2>2, <2>3, <2>4, <2>5, ClockWidth DEF LagForgotten
<1>8. QED
  BY <1>6, <1>7 DEF PacingInv

LEMMA PacingStepInv ==
  ASSUME PacingInv, PacingStep
  PROVE  PacingInv'
<1>1. CASE Tick
  BY <1>1, TickInv
<1>2. CASE LagReported
  <2>1. lagAge' = 0 /\ backoff' = LagBackoff /\ free' = 0
          /\ UNCHANGED <<noisy, sinceCommand, due, txMode, control>>
    BY <1>2 DEF LagReported
  <2>2. PacingTypeOK'
    BY <2>1, DeadlinesOnClock, ClockWidth
    DEF PacingInv, PacingTypeOK, LagForgotten
  <2>3. Pause'
    BY <2>1, ClockWidth DEF Pause
  <2>4. QED
    BY <2>2, <2>3 DEF PacingInv
<1>3. ASSUME UNCHANGED <<noisy, backoff, lagAge>>, due' \in [Kinds -> Clock],
             sinceCommand' \in Clock, free' \in 0..MaxLate,
             txMode' \in {"Passive", "Monitor", "Maintenance"},
             control' \in {"Idle", "SendCommand", "WaitCommand"}
      PROVE  PacingInv'
  BY <1>3 DEF PacingInv, PacingTypeOK, Pause
<1>4. /\ due \in [Kinds -> Clock] /\ sinceCommand \in Clock
      /\ free \in 0..MaxLate /\ 0 \in 0..MaxLate
      /\ txMode \in {"Passive", "Monitor", "Maintenance"}
      /\ control \in {"Idle", "SendCommand", "WaitCommand"}
  BY ClockWidth DEF PacingInv, PacingTypeOK
<1>5. ASSUME NEW k \in Kinds, NEW d \in Clock
      PROVE  [due EXCEPT ![k] = d] \in [Kinds -> Clock]
  BY <1>4
<1>6. CASE \E k \in Kinds : Poll(k)
  BY <1>3, <1>4, <1>5, <1>6, DeadlinesOnClock DEF Poll, SendBridgeCommand
<1>7. CASE ManualCommand \/ StartControl \/ SendControl
  BY <1>3, <1>4, <1>7, DeadlinesOnClock
  DEF ManualCommand, StartControl, SendControl, SendBridgeCommand
<1>8. CASE \E chime \in BOOLEAN : FinishControl(chime)
  BY <1>3, <1>4, <1>5, <1>8, DeadlinesOnClock DEF FinishControl
<1>9. CASE AbortControl /\ UNCHANGED txMode
  BY <1>3, <1>4, <1>9 DEF AbortControl
<1>10. CASE \E mode \in {"Passive", "Monitor", "Maintenance"} : SetMode(mode)
  BY <1>3, <1>4, <1>10, DeadlinesOnClock DEF SetMode
<1>11. CASE \/ RequestVolume
            \/ \E k \in Pulled, delay \in {0, CommandInterval} :
                 PullForward(k, delay)
  <2>1. \A k, delay : delay \in Clock => DueIn(k, delay) \in [Kinds -> Clock]
    BY <1>4 DEF DueIn
  <2>2. CASE RequestVolume
    BY <1>3, <1>4, <2>1, <2>2, DeadlinesOnClock DEF RequestVolume
  <2>3. ASSUME NEW k \in Pulled, NEW delay \in {0, CommandInterval},
               PullForward(k, delay)
        PROVE  PacingInv'
    BY <1>3, <1>4, <2>1, <2>3, DeadlinesOnClock DEF PullForward
  <2>4. QED
    BY <1>11, <2>2, <2>3
<1>12. CASE UNCHANGED pacingVars
  BY <1>3, <1>4, <1>12 DEF pacingVars
<1>13. QED
  BY <1>1, <1>2, <1>6, <1>7, <1>8, <1>9, <1>10, <1>11, <1>12 DEF PacingStep

\* Whatever happens to chimes is a step of the pacing, or none.
LEMMA PacingSteps == [Next]_vars => PacingStep
<1> SUFFICES ASSUME [Next]_vars PROVE PacingStep
  OBVIOUS
<1>1. CASE \E z \in Zones, m \in Modes : SkipRequest(z, m) \/ AcceptRequest(z, m)
  BY <1>1 DEF SkipRequest, AcceptRequest, PacingStep, vars
<1>2. CASE PopQueue \/ OtherControl \/ Transmit
  BY <1>2 DEF PopQueue, OtherControl, Transmit, PacingStep
<1>9. CASE VolumeRequest
  BY <1>9 DEF VolumeRequest, PacingStep
<1>3. CASE Finish
  <2>1. (current # {}) \in BOOLEAN
    BY Zenon
  <2>2. QED
    BY <1>3, <2>1 DEF Finish, PacingStep
<1>4. CASE Abort \/ FailRequest \/ Operator
  BY <1>4 DEF Abort, FailRequest, Operator, PacingStep, chimeVars
<1>5. CASE SendPoll
  BY <1>5 DEF SendPoll, PacingStep
<1>6. CASE PanelActs \/ RecordZoneConfiguration
  BY <1>6 DEF PanelActs, RecordZoneConfiguration, PacingStep
<1>7. CASE Bystander \/ TimePasses
  BY <1>7
  DEF Bystander, TroubleUpdated, AlarmUpdated, NetworkReady, Pulled,
      TimePasses, PacingStep
<1>8. CASE UNCHANGED vars
  BY <1>8 DEF vars, PacingStep
<1>10. QED
  BY <1>1, <1>2, <1>3, <1>4, <1>5, <1>6, <1>7, <1>8, <1>9 DEF Next

LEMMA PacingInvariance == Spec => []PacingInv
<1>1. Init => PacingInv
  BY InitPacing DEF Init
<1>2. PacingInv /\ [Next]_vars => PacingInv'
  BY PacingSteps, PacingStepInv
<1>3. QED
  BY <1>1, <1>2, PTL DEF Spec

\* No poll is sent while the pause after the last report of lag runs, however
\* often lag is reported and however the clock wraps (inspectPanelLine,
\* processMonitorPolling).
THEOREM PausedAfterLag == Spec => PausedByLag
<1>1. ASSUME PacingInv, NEW k \in Kinds, Poll(k)
      PROVE  lagAge >= LagBackoff
  <2>1. Reached(backoff) /\ backoff \in Clock /\ lagAge \in 0..LagForgotten
    BY <1>1 DEF PacingInv, PacingTypeOK, Poll, MayPoll
  <2>2. backoff \notin 1..Half
    BY <2>1, LateIs
  <2>3. QED
    BY <1>1, <2>1, <2>2, ClockWidth DEF PacingInv, Pause, LagForgotten
<1>2. PacingInv /\ [Next]_vars
        => [\A k \in Kinds : Poll(k) => lagAge >= LagBackoff]_pacingVars
  BY <1>1
<1>3. QED
  BY <1>2, PacingInvariance, PTL DEF Spec, PausedByLag

\* The pause ends LagBackoff after the last report of lag, however many there
\* were, and its deadline then lies in the past for half the clock
\* (inspectPanelLine, deadlineReached).
THEOREM PauseAlwaysEnds == Spec => []PauseEnds
<1>1. ASSUME PacingInv, LagBackoff <= lagAge, lagAge < LagForgotten
      PROVE  Reached(backoff)
  <2>1. backoff \in Clock /\ lagAge \in 0..LagForgotten
    BY <1>1 DEF PacingInv, PacingTypeOK
  <2>2. backoff \notin 1..Half
    BY <1>1, <2>1, ClockWidth DEF PacingInv, Pause, LagForgotten
  <2>3. QED
    BY <2>1, <2>2, LateIs
<1>2. PacingInv => PauseEnds
  BY <1>1 DEF PauseEnds
<1>3. QED
  BY <1>2, PacingInvariance, PTL

-----------------------------------------------------------------------------
(* Chime requests.                                                         *)

\* The chime commands for a zone in a sequence of inputs.
ChimesIn(s, z) == {i \in DOMAIN s : s[i].kind = "zone_chime" /\ s[i].zone = z}

InQueue(z) == \E i \in DOMAIN queue : queue[i].zone = z
InService(z) == control = "SendCommand" /\ \E r \in current : r.zone = z
Unsent(z) == InQueue(z) \/ InService(z)

\* A request that was not sent is the only one for its zone.
OneRequest ==
  /\ \A r, s \in current : r = s
  /\ \A i \in DOMAIN queue : unconfirmed[queue[i].zone] = {queue[i].mode}
  /\ \A i, j \in DOMAIN queue : i # j => queue[i].zone # queue[j].zone
  /\ control = "SendCommand" =>
       \A r \in current :
         /\ unconfirmed[r.zone] = {r.mode}
         /\ \A i \in DOMAIN queue : queue[i].zone # r.zone

\* Nothing changes the zone's mode between the panel and the record.
Still(z) ==
  /\ \A i \in DOMAIN output : output[i][z] = panelChime[z]
  /\ chimeMode[z] \in {Unknown, panelChime[z]}

\* No request for the zone is under way.
Idle(z) ==
  unconfirmed[z] = {} /\ ~Unsent(z) /\ ChimesIn(input, z) = {} /\ Still(z)

\* One is, and has not been sent.
Asked(z) ==
  /\ unconfirmed[z] # {} /\ Unsent(z) /\ ChimesIn(input, z) = {} /\ Still(z)
  /\ chimeMode[z] # Unknown /\ panelChime[z] \notin unconfirmed[z]

\* It has been sent, and not carried out.
Sent(z) ==
  /\ ~Unsent(z) /\ Still(z)
  /\ chimeMode[z] # Unknown /\ panelChime[z] \notin unconfirmed[z]
  /\ \E i \in DOMAIN input :
       ChimesIn(input, z) = {i} /\ unconfirmed[z] = {input[i].mode}

\* It has been carried out, and the record does not show it: what is read
\* back are older modes and then the new one.
Done(z) ==
  /\ ~Unsent(z) /\ ChimesIn(input, z) = {}
  /\ unconfirmed[z] = {panelChime[z]} /\ chimeMode[z] # panelChime[z]
  /\ \A i, j \in DOMAIN output :
       i < j /\ output[i][z] = panelChime[z] => output[j][z] = panelChime[z]

Phase(z) == Idle(z) \/ Asked(z) \/ Sent(z) \/ Done(z)

ChimeType ==
  /\ chimeMode \in [Zones -> Modes \union {Unknown}]
  /\ current \in SUBSET Requests
  /\ queue \in Seq(Requests)
  /\ Len(queue) <= MaxQueued
  /\ panelChime \in Tables
  /\ input \in Seq(Inputs)
  /\ output \in Seq(Tables)
  /\ unconfirmed \in [Zones -> SUBSET Modes]

Requested == OneRequest /\ \A z \in Zones : Phase(z)

\* Where every request is depends on clients that wait for the one before.
ChimeInv == ChimeType /\ (Patient => Requested)

-----------------------------------------------------------------------------
(* Sequences of inputs.                                                    *)

\* The chimes for a zone are the same ones, wherever they stand.
SameChimes(s, t, z) ==
  /\ ChimesIn(s, z) = {} <=> ChimesIn(t, z) = {}
  /\ \A i \in DOMAIN s :
       ChimesIn(s, z) = {i} =>
         \E j \in DOMAIN t : ChimesIn(t, z) = {j} /\ t[j].mode = s[i].mode

LEMMA ChimesAppend ==
  ASSUME NEW s \in Seq(Inputs), NEW e \in Inputs, NEW z \in Zones
  PROVE  /\ Append(s, e) \in Seq(Inputs)
         /\ e.kind # "zone_chime" \/ e.zone # z => SameChimes(s, Append(s, e), z)
         /\ e.kind = "zone_chime" /\ e.zone = z /\ ChimesIn(s, z) = {} =>
              \E i \in DOMAIN Append(s, e) :
                ChimesIn(Append(s, e), z) = {i} /\ Append(s, e)[i] = e
<1>1. PICK t : t = Append(s, e)
  OBVIOUS
<1>2. /\ t \in Seq(Inputs) /\ DOMAIN t = DOMAIN s \union {Len(s) + 1}
      /\ Len(s) + 1 \notin DOMAIN s
      /\ t[Len(s) + 1] = e /\ \A i \in DOMAIN s : t[i] = s[i]
  BY <1>1, AppendProperties
<1>3. CASE e.kind # "zone_chime" \/ e.zone # z
  <2>1. ChimesIn(t, z) = ChimesIn(s, z)
    BY <1>2, <1>3 DEF ChimesIn
  <2>2. QED
    BY <1>1, <1>2, <1>3, <2>1 DEF SameChimes
<1>4. CASE e.kind = "zone_chime" /\ e.zone = z
  <2>1. ChimesIn(t, z) = ChimesIn(s, z) \union {Len(s) + 1}
    BY <1>2, <1>4 DEF ChimesIn
  <2>2. QED
    BY <1>1, <1>2, <1>4, <2>1
<1>5. QED
  BY <1>3, <1>4

LEMMA ChimesTail ==
  ASSUME NEW s \in Seq(Inputs), s # <<>>, NEW z \in Zones
  PROVE  /\ Head(s) \in Inputs /\ Tail(s) \in Seq(Inputs)
         /\ Head(s).kind # "zone_chime" \/ Head(s).zone # z =>
              SameChimes(s, Tail(s), z)
         /\ Head(s).kind = "zone_chime" /\ Head(s).zone = z =>
              \A i : ChimesIn(s, z) = {i} =>
                ChimesIn(Tail(s), z) = {} /\ Head(s) = s[i]
<1>1. PICK t : t = Tail(s)
  OBVIOUS
<1>2. /\ t \in Seq(Inputs) /\ Head(s) \in Inputs /\ Head(s) = s[1]
      /\ DOMAIN s = 1..Len(s) /\ DOMAIN t = 1..(Len(s) - 1)
      /\ Len(s) \in Nat \ {0}
      /\ \A i \in DOMAIN t : t[i] = s[i + 1]
  BY <1>1, HeadTailProperties, EmptySeq, LenProperties
<1>3. \A i : i \in ChimesIn(t, z) <=> i \in DOMAIN t /\ i + 1 \in ChimesIn(s, z)
  BY <1>2 DEF ChimesIn
<1>4. \A i \in ChimesIn(s, z) : i # 1 => i - 1 \in ChimesIn(t, z)
  BY <1>2 DEF ChimesIn
<1>5. CASE Head(s).kind # "zone_chime" \/ Head(s).zone # z
  <2>1. 1 \notin ChimesIn(s, z)
    BY <1>2, <1>5 DEF ChimesIn
  <2>2. ChimesIn(s, z) = {} <=> ChimesIn(t, z) = {}
    BY <1>3, <1>4, <2>1
  <2>3. ASSUME NEW i \in DOMAIN s, ChimesIn(s, z) = {i}
        PROVE  \E j \in DOMAIN t : ChimesIn(t, z) = {j} /\ t[j].mode = s[i].mode
    <3>1. i # 1 /\ i - 1 \in DOMAIN t /\ t[i - 1] = s[i]
      BY <1>2, <2>1, <2>3
    <3>2. ChimesIn(t, z) = {i - 1}
      <4>1. \A j \in ChimesIn(t, z) : j = i - 1
        BY <1>2, <1>3, <2>3
      <4>2. i - 1 \in ChimesIn(t, z)
        BY <1>4, <2>3, <3>1
      <4>3. QED
        BY <4>1, <4>2
    <3>3. QED
      BY <3>1, <3>2
  <2>4. QED
    BY <1>1, <1>2, <1>5, <2>2, <2>3 DEF SameChimes
<1>6. CASE Head(s).kind = "zone_chime" /\ Head(s).zone = z
  <2>1. 1 \in ChimesIn(s, z)
    BY <1>2, <1>6 DEF ChimesIn
  <2>2. ASSUME NEW i, ChimesIn(s, z) = {i}
        PROVE  ChimesIn(t, z) = {} /\ Head(s) = s[i]
    <3>1. i = 1
      BY <2>1, <2>2
    <3>2. \A j \in ChimesIn(t, z) : FALSE
      BY <1>2, <1>3, <2>2, <3>1
    <3>3. QED
      BY <1>2, <3>1, <3>2
  <2>3. QED
    BY <1>1, <1>2, <1>6, <2>2
<1>7. QED
  BY <1>5, <1>6

-----------------------------------------------------------------------------
(* Types, whatever the clients do.                                         *)

LEMMA OutputAppend ==
  ASSUME NEW s \in Seq(Tables), NEW e \in Tables
  PROVE  /\ Append(s, e) \in Seq(Tables)
         /\ DOMAIN Append(s, e) = DOMAIN s \union {Len(s) + 1}
         /\ Append(s, e)[Len(s) + 1] = e
         /\ \A i \in DOMAIN s : Append(s, e)[i] = s[i]
         /\ \A i \in DOMAIN s : i < Len(s) + 1
         /\ Len(s) + 1 \in Nat /\ DOMAIN s \subseteq Nat
BY AppendProperties, LenProperties

LEMMA OutputTail ==
  ASSUME NEW s \in Seq(Tables), s # <<>>
  PROVE  /\ Head(s) = s[1] /\ Head(s) \in Tables /\ 1 \in DOMAIN s
         /\ Tail(s) \in Seq(Tables)
         /\ \A i \in DOMAIN Tail(s) :
              /\ i \in Nat /\ 1 < i + 1 /\ i + 1 \in DOMAIN s
              /\ Tail(s)[i] = s[i + 1]
BY HeadTailProperties, EmptySeq, LenProperties

LEMMA UnconfirmedTypes ==
  ASSUME ChimeType
  PROVE  /\ \A z \in Zones, m \in Modes :
              [unconfirmed EXCEPT ![z] = {m}] \in [Zones -> SUBSET Modes]
         /\ \A requests :
              Forget(requests) => unconfirmed' \in [Zones -> SUBSET Modes]
<1>1. unconfirmed \in [Zones -> SUBSET Modes]
  BY DEF ChimeType
<1>2. \A z \in Zones : unconfirmed[z] \in SUBSET Modes
  BY <1>1
<1>3. \A z \in Zones, m \in Modes :
        [unconfirmed EXCEPT ![z] = {m}] \in [Zones -> SUBSET Modes]
  BY <1>1
<1>4. \A requests :
        Forget(requests) => unconfirmed' \in [Zones -> SUBSET Modes]
  BY <1>2 DEF Forget
<1>5. QED
  BY <1>3, <1>4

LEMMA AcceptRequestType ==
  ASSUME ChimeType, NEW z \in Zones, NEW m \in Modes, AcceptRequest(z, m)
  PROVE  ChimeType'
<1>1. PICK r \in Requests : r = [zone |-> z, mode |-> m]
  BY DEF Requests
<1>2. WithRequest(r) \in Seq(Requests)
  <2>1. queue \in Seq(Requests) /\ Append(queue, r) \in Seq(Requests)
    BY AppendProperties DEF ChimeType
  <2>2. QED
    BY <2>1 DEF WithRequest
<1>3. /\ unconfirmed' \in [Zones -> SUBSET Modes]
      /\ UNCHANGED <<chimeMode, panelChime, input, output>>
  BY UnconfirmedTypes DEF AcceptRequest
<1>4. CASE current' = {r} /\ queue' = queue
  BY <1>3, <1>4 DEF ChimeType
<1>5. CASE /\ Len(WithRequest(r)) <= MaxQueued
           /\ queue' = WithRequest(r) /\ current' = current
  BY <1>2, <1>3, <1>5 DEF ChimeType
<1>6. QED
  BY <1>1, <1>4, <1>5 DEF AcceptRequest

LEMMA PopQueueType ==
  ASSUME ChimeType, PopQueue
  PROVE  ChimeType'
<1>1. /\ queue \in Seq(Requests) /\ queue # <<>>
      /\ Len(queue) <= MaxQueued /\ MaxQueued \in Nat
  BY ChimeAssumption DEF ChimeType, PopQueue
<1>2. /\ Head(queue) \in Requests /\ Tail(queue) \in Seq(Requests)
      /\ Len(Tail(queue)) = Len(queue) - 1 /\ Len(queue) \in Nat
  BY <1>1, HeadTailProperties, EmptySeq, LenProperties
<1>3. Len(Tail(queue)) <= MaxQueued
  BY <1>1, <1>2
<1>4. QED
  BY <1>2, <1>3 DEF ChimeType, PopQueue

LEMMA TransmitType ==
  ASSUME ChimeType, Transmit
  PROVE  ChimeType'
<1>1. ASSUME NEW r \in current,
             input' = Append(input, [kind |-> "zone_chime", zone |-> r.zone,
                                     mode |-> r.mode])
      PROVE  input' \in Seq(Inputs)
  <2>1. [kind |-> "zone_chime", zone |-> r.zone, mode |-> r.mode] \in Inputs
    BY DEF ChimeType, Requests, Inputs
  <2>2. QED
    BY <1>1, <2>1, AppendProperties DEF ChimeType
<1>2. input' \in Seq(Inputs)
  BY <1>1 DEF Transmit, ChimeType
<1>3. QED
  BY <1>2 DEF Transmit, ChimeType

LEMMA SendPollType ==
  ASSUME ChimeType, SendPoll
  PROVE  ChimeType'
<1>1. \A k : k = "zone_info" => Append(input, [kind |-> k]) \in Seq(Inputs)
  BY AppendProperties DEF ChimeType, Inputs
<1>2. input' \in Seq(Inputs)
  BY <1>1 DEF SendPoll, ChimeType
<1>3. QED
  BY <1>2 DEF SendPoll, ChimeType

LEMMA PanelActsType ==
  ASSUME ChimeType, PanelActs
  PROVE  ChimeType'
<1>1. /\ input' \in Seq(Inputs) /\ Head(input) \in Inputs
      /\ UNCHANGED <<chimeMode, current, queue, unconfirmed>>
  BY HeadTailProperties DEF ChimeType, PanelActs
<1>2. CASE Head(input).kind = "zone_chime"
  <2>1. Head(input).mode \in Modes
    BY <1>1, <1>2 DEF Inputs
  <2>2. panelChime' \in Tables /\ output' = output
    BY <1>2, <2>1 DEF PanelActs, ChimeType, Tables
  <2>3. QED
    BY <1>1, <2>2 DEF ChimeType
<1>3. CASE Head(input).kind # "zone_chime"
  <2>1. output' \in Seq(Tables) /\ panelChime' = panelChime
    BY <1>3, OutputAppend DEF PanelActs, ChimeType
  <2>2. QED
    BY <1>1, <2>1 DEF ChimeType
<1>4. QED
  BY <1>2, <1>3

LEMMA RecordType ==
  ASSUME ChimeType, RecordZoneConfiguration
  PROVE  ChimeType'
<1>1. /\ output' \in Seq(Tables) /\ chimeMode' \in Tables
      /\ UNCHANGED <<current, queue, panelChime, input>>
  BY OutputTail DEF RecordZoneConfiguration, ChimeType
<1>2. chimeMode' \in [Zones -> Modes \union {Unknown}]
  BY <1>1 DEF Tables
<1>3. unconfirmed' \in [Zones -> SUBSET Modes]
  <2>1. \A z \in Zones : unconfirmed[z] \in SUBSET Modes
    BY DEF ChimeType
  <2>2. QED
    BY <2>1 DEF RecordZoneConfiguration
<1>4. QED
  BY <1>1, <1>2, <1>3 DEF ChimeType

LEMMA NextTypes ==
  ASSUME ChimeType, [Next]_vars
  PROVE  ChimeType'
<1>1. CASE UNCHANGED chimeVars
  BY <1>1 DEF ChimeType, chimeVars
<1>2. CASE \E z \in Zones, m \in Modes : SkipRequest(z, m) \/ AcceptRequest(z, m)
  BY <1>1, <1>2, AcceptRequestType DEF SkipRequest, vars, chimeVars
<1>3. CASE \/ VolumeRequest \/ OtherControl \/ Finish
  BY <1>3 DEF VolumeRequest, OtherControl, Finish, ChimeType
<1>4. ASSUME Discard PROVE ChimeType'
  <2>1. unconfirmed' \in [Zones -> SUBSET Modes]
    BY <1>4, UnconfirmedTypes DEF Discard
  <2>2. <<>> \in Seq(Requests) /\ Len(<<>>) <= MaxQueued
    BY ChimeAssumption
  <2>3. QED
    BY <1>4, <2>1, <2>2 DEF Discard, ChimeType
<1>5. CASE FailRequest
  BY <1>5, UnconfirmedTypes DEF FailRequest, ChimeType
<1>6. QED
  BY <1>1, <1>2, <1>3, <1>4, <1>5, PopQueueType, TransmitType, SendPollType,
     PanelActsType, RecordType
  DEF Next, Abort, Operator, TimePasses, vars, chimeVars

-----------------------------------------------------------------------------
(* A zone that a step does not concern.                                    *)

LEMMA SamePhase ==
  ASSUME NEW z \in Zones, Phase(z),
         chimeMode'[z] = chimeMode[z], panelChime'[z] = panelChime[z],
         unconfirmed'[z] = unconfirmed[z], output' = output,
         Unsent(z)' <=> Unsent(z), SameChimes(input, input', z)
  PROVE  Phase(z)'
<1>1. Still(z)' <=> Still(z)
  BY DEF Still
<1>2. CASE Idle(z)
  BY <1>1, <1>2 DEF Idle, Phase, SameChimes
<1>3. CASE Asked(z)
  BY <1>1, <1>3 DEF Asked, Phase, SameChimes
<1>4. CASE Sent(z)
  BY <1>1, <1>4 DEF Sent, Phase, SameChimes
<1>5. CASE Done(z)
  BY <1>5 DEF Done, Phase, SameChimes
<1>6. QED
  BY <1>2, <1>3, <1>4, <1>5 DEF Phase

LEMMA SameInput ==
  ASSUME NEW s, NEW z PROVE SameChimes(s, s, z)
BY DEF SameChimes

LEMMA QueueElements ==
  ASSUME ChimeType
  PROVE  /\ \A i \in DOMAIN queue :
              /\ queue[i] \in Requests
              /\ queue[i].zone \in Zones /\ queue[i].mode \in Modes
         /\ \A r \in current : r.zone \in Zones /\ r.mode \in Modes
<1>1. /\ \A i \in DOMAIN queue : queue[i] \in Requests
      /\ \A r \in current : r \in Requests
  BY LenProperties DEF ChimeType
<1>2. QED
  BY <1>1 DEF Requests

LEMMA QuietStep ==
  ASSUME ChimeType, Requested, UNCHANGED <<chimeVars, control>>
  PROVE  Requested'
<1>1. OneRequest'
  BY DEF Requested, OneRequest, chimeVars
<1>2. ASSUME NEW z \in Zones PROVE Phase(z)'
  BY SamePhase, SameInput
  DEF Requested, chimeVars, Unsent, InQueue, InService
<1>3. QED
  BY <1>1, <1>2 DEF Requested

-----------------------------------------------------------------------------
(* What the bridge does.                                                   *)

LEMMA AcceptRequestInv ==
  ASSUME ChimeType, Requested, Patient,
         NEW z0 \in Zones, NEW m \in Modes, AcceptRequest(z0, m)
  PROVE  Requested'
<1>1. ChimeType /\ OneRequest /\ \A z \in Zones : Phase(z)
  BY DEF Requested
<1>2. Idle(z0) /\ chimeMode[z0] = panelChime[z0] /\ panelChime[z0] # m
  BY <1>1
  DEF AcceptRequest, Asks, Skips, Phase, Idle, Asked, Sent, Done, Still
<1>3. PICK r \in Requests : r.zone = z0 /\ r.mode = m
                             /\ r = [zone |-> z0, mode |-> m]
  BY DEF Requests
<1>4. /\ unconfirmed'[z0] = {m}
      /\ \A z \in Zones : z # z0 => unconfirmed'[z] = unconfirmed[z]
      /\ unconfirmed' \in [Zones -> SUBSET Modes]
      /\ UNCHANGED <<chimeMode, panelChime, input, output>>
  BY <1>1 DEF AcceptRequest, ChimeType
<1>5. Still(z0)' /\ ChimesIn(input, z0)' = {} /\ chimeMode'[z0] # Unknown
  BY <1>2, <1>4 DEF Idle, Still, AcceptRequest, Asks
<1>6. CASE StartControl /\ current' = {r} /\ queue' = queue
  <2>1. control = "Idle" /\ control' = "SendCommand"
    BY <1>6 DEF StartControl
  <2>2. OneRequest'
    <3>1. \A i \in DOMAIN queue : queue[i].zone \in Zones \ {z0}
      BY <1>1, <1>2, QueueElements DEF Idle, Unsent, InQueue
    <3>2. QED
      BY <1>1, <1>3, <1>4, <1>6, <3>1 DEF OneRequest
  <2>3. ASSUME NEW z \in Zones PROVE Phase(z)'
    <3>1. CASE z = z0
      <4>1. Unsent(z0)'
        BY <1>3, <1>6, <2>1 DEF Unsent, InService
      <4>2. QED
        BY <1>2, <1>4, <1>5, <3>1, <4>1 DEF Phase, Asked
    <3>2. CASE z # z0
      <4>1. Unsent(z)' <=> Unsent(z)
        BY <1>3, <1>6, <2>1, <3>2 DEF Unsent, InService, InQueue
      <4>2. QED
        BY <1>1, <1>4, <3>2, <4>1, SamePhase, SameInput
    <3>3. QED
      BY <3>1, <3>2
  <2>4. QED
    BY <2>2, <2>3 DEF Requested
<1>7. CASE /\ control # "Idle" /\ queue' = WithRequest(r)
           /\ UNCHANGED <<pacingVars, current>>
  <2>1. queue' = Append(queue, r)
    <3>1. \A i \in DOMAIN queue : queue[i] # r
      BY <1>2, <1>3 DEF Idle, Unsent, InQueue
    <3>2. QED
      BY <1>7, <3>1 DEF WithRequest
  <2>2. /\ DOMAIN queue' = DOMAIN queue \union {Len(queue) + 1}
        /\ queue'[Len(queue) + 1] = r
        /\ \A i \in DOMAIN queue : queue'[i] = queue[i]
    BY <2>1, AppendProperties, LenProperties DEF ChimeType
  <2>3. control' = control /\ current' = current
    BY <1>7 DEF pacingVars
  <2>4. OneRequest'
    <3>1. /\ \A i \in DOMAIN queue : queue[i].zone # z0
          /\ control = "SendCommand" => \A q \in current : q.zone # z0
      BY <1>2 DEF Idle, Unsent, InQueue, InService
    <3>2. /\ \A i \in DOMAIN queue : queue[i].zone \in Zones
          /\ \A q \in current : q.zone \in Zones
      BY <1>1, QueueElements
    <3>3. \A i \in DOMAIN queue' :
            unconfirmed'[queue'[i].zone] = {queue'[i].mode}
      <4>1. \A i \in DOMAIN queue :
              unconfirmed'[queue[i].zone] = {queue[i].mode}
        BY <1>1, <1>4, <3>1, <3>2 DEF OneRequest
      <4>2. unconfirmed'[r.zone] = {r.mode}
        BY <1>3, <1>4
      <4>3. QED
        BY <2>2, <4>1, <4>2
    <3>4. \A i, j \in DOMAIN queue' :
            i # j => queue'[i].zone # queue'[j].zone
      BY <1>1, <1>3, <2>2, <3>1 DEF OneRequest
    <3>5. control' = "SendCommand" =>
            \A q \in current' :
              /\ unconfirmed'[q.zone] = {q.mode}
              /\ \A i \in DOMAIN queue' : queue'[i].zone # q.zone
      BY <1>1, <1>3, <1>4, <2>2, <2>3, <3>1, <3>2 DEF OneRequest
    <3>6. QED
      BY <1>1, <2>3, <3>3, <3>4, <3>5 DEF OneRequest
  <2>5. ASSUME NEW z \in Zones PROVE Phase(z)'
    <3>1. CASE z = z0
      <4>1. Unsent(z0)'
        BY <1>3, <2>2 DEF Unsent, InQueue
      <4>2. QED
        BY <1>2, <1>4, <1>5, <3>1, <4>1 DEF Phase, Asked
    <3>2. CASE z # z0
      <4>1. Unsent(z)' <=> Unsent(z)
        BY <1>3, <2>2, <2>3, <3>2 DEF Unsent, InService, InQueue
      <4>2. QED
        BY <1>1, <1>4, <3>2, <4>1, SamePhase, SameInput
    <3>3. QED
      BY <3>1, <3>2
  <2>6. QED
    BY <2>4, <2>5 DEF Requested
<1>8. QED
  BY <1>3, <1>6, <1>7 DEF AcceptRequest

LEMMA PopQueueInv ==
  ASSUME ChimeType, Requested, PopQueue
  PROVE  Requested'
<1>1. ChimeType /\ OneRequest /\ \A z \in Zones : Phase(z)
  BY DEF Requested
<1>2. control = "Idle" /\ control' = "SendCommand"
  BY DEF PopQueue, StartControl
<1>3. UNCHANGED <<chimeMode, panelChime, input, output, unconfirmed>>
  BY DEF PopQueue
<1>4. PICK q : q = Tail(queue)
  OBVIOUS
<1>5. /\ queue' = q /\ q \in Seq(Requests) /\ current' = {queue[1]}
      /\ queue[1] \in Requests /\ 1 \in DOMAIN queue
      /\ Len(q) = Len(queue) - 1 /\ Len(queue) \in Nat
      /\ DOMAIN queue = 1..Len(queue) /\ DOMAIN q = 1..(Len(queue) - 1)
      /\ \A i \in DOMAIN q : q[i] = queue[i + 1]
  BY <1>1, <1>4, HeadTailProperties, EmptySeq, LenProperties
  DEF PopQueue, ChimeType
<1>6. OneRequest'
  <2>1. \A i \in DOMAIN q : i + 1 \in DOMAIN queue /\ i + 1 # 1
    BY <1>5
  <2>2. ASSUME NEW i \in DOMAIN q
        PROVE  /\ unconfirmed'[q[i].zone] = {q[i].mode}
               /\ q[i].zone # queue[1].zone
    <3>1. q[i] = queue[i + 1] /\ i + 1 \in DOMAIN queue /\ i + 1 # 1
      BY <1>5, <2>1
    <3>2. QED
      BY <1>1, <1>3, <1>5, <3>1 DEF OneRequest
  <2>3. \A i, j \in DOMAIN q : i # j => q[i].zone # q[j].zone
    BY <1>1, <1>5, <2>1 DEF OneRequest
  <2>4. unconfirmed'[queue[1].zone] = {queue[1].mode}
    BY <1>1, <1>3, <1>5 DEF OneRequest
  <2>5. QED
    BY <1>2, <1>5, <2>2, <2>3, <2>4 DEF OneRequest
<1>7. ASSUME NEW z \in Zones PROVE Phase(z)'
  <2>1. InQueue(z) <=> queue[1].zone = z \/ InQueue(z)'
    <3>1. \A i \in DOMAIN queue : i # 1 => i - 1 \in DOMAIN q /\ q[i - 1] = queue[i]
      BY <1>5
    <3>2. \A i \in DOMAIN q : i + 1 \in DOMAIN queue
      BY <1>5
    <3>3. QED
      BY <1>5, <3>1, <3>2 DEF InQueue
  <2>2. Unsent(z)' <=> Unsent(z)
    BY <1>2, <1>5, <2>1 DEF Unsent, InService
  <2>3. QED
    BY <1>1, <1>3, <2>2, SamePhase, SameInput
<1>8. QED
  BY <1>6, <1>7 DEF Requested

\* A command that is not for a chime leaves the requests for chimes alone.
LEMMA OtherControlInv ==
  ASSUME ChimeType, Requested, control = "Idle", current' = {},
         UNCHANGED <<chimeMode, queue, panelChime, input, output, unconfirmed>>
  PROVE  Requested'
<1>1. ChimeType /\ OneRequest /\ \A z \in Zones : Phase(z)
  BY DEF Requested
<1>2. control = "Idle" /\ current' = {}
  OBVIOUS
<1>3. UNCHANGED <<chimeMode, queue, panelChime, input, output, unconfirmed>>
  OBVIOUS
<1>4. OneRequest'
  BY <1>1, <1>2, <1>3 DEF OneRequest
<1>5. ASSUME NEW z \in Zones PROVE Phase(z)'
  <2>1. Unsent(z)' <=> Unsent(z)
    BY <1>2, <1>3 DEF Unsent, InService, InQueue
  <2>2. QED
    BY <1>1, <1>3, <2>1, SamePhase, SameInput
<1>6. QED
  BY <1>4, <1>5 DEF Requested

LEMMA TransmitInv ==
  ASSUME ChimeType, Requested, Transmit
  PROVE  Requested'
<1>1. ChimeType /\ OneRequest /\ \A z \in Zones : Phase(z)
  BY DEF Requested
<1>2. control = "SendCommand" /\ control' = "WaitCommand"
  BY DEF Transmit, SendControl
<1>3. UNCHANGED <<chimeMode, current, queue, panelChime, output, unconfirmed>>
  BY DEF Transmit
<1>4. OneRequest'
  BY <1>1, <1>2, <1>3 DEF OneRequest
<1>5. CASE current = {} /\ UNCHANGED input
  <2>1. ASSUME NEW z \in Zones PROVE Phase(z)'
    <3>1. Unsent(z)' <=> Unsent(z)
      BY <1>2, <1>3, <1>5 DEF Unsent, InService, InQueue
    <3>2. QED
      BY <1>1, <1>3, <1>5, <3>1, SamePhase, SameInput
  <2>2. QED
    BY <1>4, <2>1 DEF Requested
<1>6. ASSUME NEW r \in current,
             input' = Append(input, [kind |-> "zone_chime", zone |-> r.zone,
                                     mode |-> r.mode])
      PROVE  Requested'
  <2>1. /\ r.zone \in Zones /\ r.mode \in Modes
        /\ unconfirmed[r.zone] = {r.mode}
        /\ \A i \in DOMAIN queue : queue[i].zone # r.zone
        /\ \A q \in current : q = r
    BY <1>1, <1>2, QueueElements DEF OneRequest
  <2>2. PICK e \in Inputs : /\ e.kind = "zone_chime" /\ e.zone = r.zone
                            /\ e.mode = r.mode /\ input' = Append(input, e)
    BY <1>6, <2>1 DEF Inputs
  <2>3. ASSUME NEW z \in Zones PROVE Phase(z)'
    <3>1. CASE z = r.zone
      <4>1. Asked(z)
        <5>1. Unsent(z)
          BY <1>2, <3>1 DEF Unsent, InService
        <5>2. QED
          BY <1>1, <5>1 DEF Phase, Idle, Sent, Done
      <4>2. ~Unsent(z)'
        BY <1>2, <1>3, <2>1, <3>1 DEF Unsent, InService, InQueue
      <4>3. \E i \in DOMAIN input' :
              ChimesIn(input', z) = {i} /\ unconfirmed'[z] = {input'[i].mode}
        <5>1. \E i \in DOMAIN input' :
                ChimesIn(input', z) = {i} /\ input'[i] = e
          <6>1. ChimesIn(input, z) = {} /\ input \in Seq(Inputs)
            BY <1>1, <4>1 DEF Asked, ChimeType
          <6>2. e.zone = z
            BY <2>2, <3>1
          <6>3. QED
            BY <2>2, <6>1, <6>2, ChimesAppend
        <5>2. QED
          BY <1>3, <2>1, <2>2, <3>1, <5>1
      <4>4. Still(z)'
        BY <1>3, <4>1 DEF Asked, Still
      <4>5. QED
        BY <1>3, <4>1, <4>2, <4>3, <4>4 DEF Asked, Sent, Phase
    <3>2. CASE z # r.zone
      <4>1. Unsent(z)' <=> Unsent(z)
        BY <1>2, <1>3, <2>1, <3>2 DEF Unsent, InService, InQueue
      <4>2. SameChimes(input, input', z)
        BY <1>1, <2>2, <3>2, ChimesAppend DEF ChimeType
      <4>3. QED
        BY <1>1, <1>3, <4>1, <4>2, SamePhase
    <3>3. QED
      BY <3>1, <3>2
  <2>4. QED
    BY <1>4, <2>3 DEF Requested
<1>7. QED
  BY <1>5, <1>6 DEF Transmit

LEMMA FinishInv ==
  ASSUME ChimeType, Requested, Finish
  PROVE  Requested'
<1>1. ChimeType /\ OneRequest /\ \A z \in Zones : Phase(z)
  BY DEF Requested
<1>2. control = "WaitCommand" /\ control' = "Idle" /\ current' = {}
  BY DEF Finish, FinishControl
<1>3. UNCHANGED <<chimeMode, queue, panelChime, input, output, unconfirmed>>
  BY DEF Finish
<1>4. OneRequest'
  BY <1>1, <1>2, <1>3 DEF OneRequest
<1>5. ASSUME NEW z \in Zones PROVE Phase(z)'
  <2>1. Unsent(z)' <=> Unsent(z)
    BY <1>2, <1>3 DEF Unsent, InService, InQueue
  <2>2. QED
    BY <1>1, <1>3, <2>1, SamePhase, SameInput
<1>6. QED
  BY <1>4, <1>5 DEF Requested

\* A request that is discarded is no longer asked for.
LEMMA DiscardInv ==
  ASSUME ChimeType, Requested, Discard, control' = "Idle"
  PROVE  Requested'
<1>1. ChimeType /\ OneRequest /\ \A z \in Zones : Phase(z)
  BY DEF Requested
<1>2. /\ current' = {} /\ queue' = <<>>
      /\ UNCHANGED <<chimeMode, panelChime, input, output>>
  BY DEF Discard
<1>3. \A z \in Zones : unconfirmed'[z] =
        unconfirmed[z] \ {r.mode : r \in {q \in Discarded : q.zone = z}}
  BY DEF Discard, Forget
<1>4. OneRequest'
  BY <1>2 DEF OneRequest
<1>5. ASSUME NEW z \in Zones PROVE Phase(z)'
  <2>1. ~Unsent(z)'
    BY <1>2 DEF Unsent, InService, InQueue
  <2>2. CASE Unsent(z)
    <3>1. Asked(z)
      BY <1>1, <2>2 DEF Phase, Idle, Sent, Done
    <3>2. PICK r \in Discarded : r.zone = z /\ unconfirmed[z] = {r.mode}
      BY <1>1, <2>2
      DEF Unsent, InService, InQueue, Discarded, OneRequest
    <3>3. unconfirmed'[z] = {}
      BY <1>3, <3>2
    <3>4. QED
      BY <1>2, <2>1, <3>1, <3>3 DEF Asked, Idle, Still, Phase
  <2>3. CASE ~Unsent(z)
    <3>1. \A r \in Discarded : r.zone # z
      BY <2>3 DEF Unsent, InService, InQueue, Discarded
    <3>2. unconfirmed'[z] = unconfirmed[z]
      <4>1. {r.mode : r \in {q \in Discarded : q.zone = z}} = {}
        BY <3>1
      <4>2. QED
        BY <1>3, <4>1
    <3>3. QED
      BY <1>1, <1>2, <2>1, <2>3, <3>2, SamePhase, SameInput
  <2>4. QED
    BY <2>2, <2>3
<1>6. QED
  BY <1>4, <1>5 DEF Requested

\* Nor is the one in service, if it fails; those waiting stay.
LEMMA FailRequestInv ==
  ASSUME ChimeType, Requested, FailRequest
  PROVE  Requested'
<1>1. ChimeType /\ OneRequest /\ \A z \in Zones : Phase(z)
  BY DEF Requested
<1>2. /\ control = "SendCommand" /\ control' = "Idle" /\ current' = {}
      /\ UNCHANGED <<chimeMode, queue, panelChime, input, output>>
  BY DEF FailRequest, AbortControl
<1>3. \A z \in Zones : unconfirmed'[z] =
        unconfirmed[z] \ {r.mode : r \in {q \in current : q.zone = z}}
  BY DEF FailRequest, Forget
<1>4. ASSUME NEW z \in Zones, ~InService(z)
      PROVE  unconfirmed'[z] = unconfirmed[z]
  <2>1. {r.mode : r \in {q \in current : q.zone = z}} = {}
    BY <1>2, <1>4 DEF InService
  <2>2. QED
    BY <1>3, <2>1
<1>5. \A i \in DOMAIN queue : ~InService(queue[i].zone)
  BY <1>1 DEF OneRequest, InService
<1>6. OneRequest'
  BY <1>1, <1>2, <1>4, <1>5, QueueElements DEF OneRequest
<1>7. ASSUME NEW z \in Zones PROVE Phase(z)'
  <2>1. CASE InService(z)
    <3>1. Asked(z)
      BY <1>1, <2>1 DEF Unsent, Phase, Idle, Sent, Done
    <3>2. PICK r \in current : r.zone = z /\ unconfirmed[z] = {r.mode}
      BY <1>1, <1>2, <2>1 DEF InService, OneRequest
    <3>3. unconfirmed'[z] = {}
      BY <1>3, <3>2
    <3>4. ~Unsent(z)'
      <4>1. \A i \in DOMAIN queue : queue[i].zone # z
        BY <1>5, <2>1
      <4>2. QED
        BY <1>2, <4>1 DEF Unsent, InService, InQueue
    <3>5. QED
      BY <1>2, <3>1, <3>3, <3>4 DEF Asked, Idle, Still, Phase
  <2>2. CASE ~InService(z)
    <3>1. Unsent(z)' <=> Unsent(z)
      BY <1>2, <2>2 DEF Unsent, InService, InQueue
    <3>2. QED
      BY <1>1, <1>2, <1>4, <2>2, <3>1, SamePhase, SameInput
  <2>3. QED
    BY <2>1, <2>2
<1>8. QED
  BY <1>6, <1>7 DEF Requested

LEMMA SendPollInv ==
  ASSUME ChimeType, Requested, SendPoll
  PROVE  Requested'
<1>1. ChimeType /\ OneRequest /\ \A z \in Zones : Phase(z)
  BY DEF Requested
<1>2. PICK k \in Kinds :
        /\ Poll(k)
        /\ input' = IF k = "zone_info" THEN Append(input, [kind |-> k])
                    ELSE input
        /\ UNCHANGED <<chimeMode, current, queue, panelChime, output,
                       unconfirmed>>
  BY DEF SendPoll
<1>3. control' = control
  BY <1>2 DEF Poll
<1>4. CASE k # "zone_info"
  BY <1>2, <1>3, <1>4, QuietStep DEF chimeVars
<1>5. CASE k = "zone_info"
  <2>1. PICK e \in Inputs : e.kind # "zone_chime" /\ input' = Append(input, e)
    BY <1>2, <1>5 DEF Inputs
  <2>2. OneRequest'
    BY <1>1, <1>2, <1>3 DEF OneRequest
  <2>3. ASSUME NEW z \in Zones PROVE Phase(z)'
    <3>1. Unsent(z)' <=> Unsent(z)
      BY <1>2, <1>3 DEF Unsent, InService, InQueue
    <3>2. SameChimes(input, input', z)
      BY <1>1, <2>1, ChimesAppend DEF ChimeType
    <3>3. QED
      BY <1>1, <1>2, <3>1, <3>2, SamePhase
  <2>4. QED
    BY <2>2, <2>3 DEF Requested
<1>6. QED
  BY <1>4, <1>5

-----------------------------------------------------------------------------
(* What the panel does, and what is recorded of it.                        *)

LEMMA PanelActsInv ==
  ASSUME ChimeType, Requested, PanelActs
  PROVE  Requested'
<1>1. ChimeType /\ OneRequest /\ \A z \in Zones : Phase(z)
  BY DEF Requested
<1>2. /\ input # <<>> /\ input \in Seq(Inputs) /\ input' = Tail(input)
      /\ UNCHANGED <<control, chimeMode, current, queue, unconfirmed>>
  BY <1>1 DEF PanelActs, ChimeType, pacingVars
<1>3. Head(input) \in Inputs /\ input' \in Seq(Inputs)
  BY <1>2, HeadTailProperties
<1>4. OneRequest'
  BY <1>1, <1>2 DEF OneRequest
<1>5. \A z \in Zones : Unsent(z)' <=> Unsent(z)
  BY <1>2 DEF Unsent, InService, InQueue
<1>6. CASE Head(input).kind = "zone_chime"
  <2>1. PICK c : c = Head(input)
    OBVIOUS
  <2>2. c.zone \in Zones /\ c.mode \in Modes
    BY <1>3, <1>6, <2>1 DEF Inputs
  <2>3. /\ panelChime' = [panelChime EXCEPT ![c.zone] = c.mode]
        /\ output' = output
    BY <1>6, <2>1 DEF PanelActs
  <2>4. /\ panelChime' \in Tables /\ panelChime'[c.zone] = c.mode
        /\ \A z \in Zones : z # c.zone => panelChime'[z] = panelChime[z]
    BY <1>1, <2>2, <2>3 DEF ChimeType, Tables
  <2>5. ASSUME NEW z \in Zones PROVE Phase(z)'
    <3>1. CASE z # c.zone
      <4>1. SameChimes(input, input', z)
        BY <1>2, <2>1, <3>1, ChimesTail
      <4>2. QED
        BY <1>1, <1>2, <1>5, <2>3, <2>4, <3>1, <4>1, SamePhase
    <3>2. CASE z = c.zone
      <4>1. 1 \in ChimesIn(input, z)
        BY <1>2, <1>6, <2>1, <3>2, HeadTailProperties, EmptySeq, LenProperties
        DEF ChimesIn
      <4>2. Sent(z)
        BY <1>1, <4>1 DEF Phase, Idle, Asked, Done
      <4>3. PICK i \in DOMAIN input :
              ChimesIn(input, z) = {i} /\ unconfirmed[z] = {input[i].mode}
        BY <4>2 DEF Sent
      <4>4. ChimesIn(input', z) = {} /\ c = input[i]
        BY <1>2, <1>6, <2>1, <3>2, <4>3, ChimesTail
      <4>5. /\ unconfirmed'[z] = {panelChime'[z]}
            /\ panelChime'[z] # panelChime[z]
        BY <1>2, <2>4, <3>2, <4>2, <4>3, <4>4 DEF Sent
      <4>6. /\ chimeMode'[z] = panelChime[z]
            /\ \A j \in DOMAIN output' : output'[j][z] = panelChime[z]
        BY <1>2, <2>3, <4>2 DEF Sent, Still
      <4>7. QED
        BY <1>5, <4>2, <4>4, <4>5, <4>6 DEF Done, Sent, Phase
    <3>3. QED
      BY <3>1, <3>2
  <2>6. QED
    BY <1>4, <2>5 DEF Requested
<1>7. CASE Head(input).kind # "zone_chime"
  <2>1. output' = Append(output, panelChime) /\ panelChime' = panelChime
    BY <1>7 DEF PanelActs
  <2>2. panelChime \in Tables /\ output \in Seq(Tables)
    BY <1>1 DEF ChimeType
  <2>3. \A i \in DOMAIN output' :
          \/ i \in DOMAIN output /\ output'[i] = output[i]
          \/ output'[i] = panelChime /\ \A j \in DOMAIN output' : ~(i < j)
    BY <2>1, <2>2, OutputAppend
  <2>4. ASSUME NEW z \in Zones PROVE Phase(z)'
    <3>1. SameChimes(input, input', z)
      BY <1>2, <1>7, ChimesTail
    <3>2. Still(z) => Still(z)'
      BY <1>2, <2>1, <2>3 DEF Still
    <3>3. CASE Idle(z)
      BY <1>2, <1>5, <3>1, <3>2, <3>3 DEF Idle, Phase, SameChimes
    <3>4. CASE Asked(z)
      BY <1>2, <1>5, <2>1, <3>1, <3>2, <3>4 DEF Asked, Phase, SameChimes
    <3>5. CASE Sent(z)
      BY <1>2, <1>5, <2>1, <3>1, <3>2, <3>5 DEF Sent, Phase, SameChimes
    <3>6. CASE Done(z)
      <4>1. ASSUME NEW i \in DOMAIN output', NEW j \in DOMAIN output',
                   i < j, output'[i][z] = panelChime[z]
            PROVE  output'[j][z] = panelChime[z]
        BY <2>3, <3>6, <4>1 DEF Done
      <4>2. QED
        BY <1>2, <1>5, <2>1, <3>1, <3>6, <4>1 DEF Done, Phase, SameChimes
    <3>7. QED
      BY <1>1, <3>3, <3>4, <3>5, <3>6 DEF Phase
  <2>5. QED
    BY <1>4, <2>4 DEF Requested
<1>8. QED
  BY <1>6, <1>7

LEMMA RecordInv ==
  ASSUME ChimeType, Requested, RecordZoneConfiguration
  PROVE  Requested'
<1>1. ChimeType /\ OneRequest /\ \A z \in Zones : Phase(z)
  BY DEF Requested
<1>2. /\ output # <<>> /\ output \in Seq(Tables) /\ output' = Tail(output)
      /\ UNCHANGED <<control, current, queue, panelChime, input>>
  BY <1>1 DEF RecordZoneConfiguration, ChimeType, pacingVars
<1>3. PICK t : t = output[1]
  OBVIOUS
<1>4. /\ t \in Tables /\ 1 \in DOMAIN output /\ chimeMode' = t
      /\ output' \in Seq(Tables)
      /\ \A i \in DOMAIN output' :
           /\ i \in Nat /\ 1 < i + 1 /\ i + 1 \in DOMAIN output
           /\ output'[i] = output[i + 1]
      /\ \A z \in Zones : unconfirmed'[z] = unconfirmed[z] \ {t[z]}
  BY <1>2, <1>3, OutputTail DEF RecordZoneConfiguration
<1>5. \A z \in Zones : panelChime[z] \in Modes /\ panelChime[z] # Unknown
  BY <1>1, ChimeAssumption DEF ChimeType, Tables, Unknown
<1>6. ASSUME NEW z \in Zones, Still(z)
      PROVE  Still(z)' /\ chimeMode'[z] = panelChime[z]
  BY <1>2, <1>3, <1>4, <1>6 DEF Still
<1>7. ASSUME NEW z \in Zones, Unsent(z)
      PROVE  unconfirmed'[z] = unconfirmed[z]
  <2>1. Asked(z)
    BY <1>1, <1>7 DEF Phase, Idle, Sent, Done
  <2>2. t[z] = panelChime[z] /\ panelChime[z] \notin unconfirmed[z]
    BY <1>3, <1>4, <2>1 DEF Asked, Still
  <2>3. QED
    BY ZenonT(30), <1>4, <2>2
<1>8. OneRequest'
  <2>1. \A i \in DOMAIN queue : Unsent(queue[i].zone)
    BY DEF Unsent, InQueue
  <2>2. control = "SendCommand" => \A r \in current : Unsent(r.zone)
    BY DEF Unsent, InService
  <2>3. QED
    BY <1>1, <1>2, <1>7, <2>1, <2>2, QueueElements DEF OneRequest
<1>9. ASSUME NEW z \in Zones PROVE Phase(z)'
  <2>1. Unsent(z)' <=> Unsent(z)
    BY <1>2 DEF Unsent, InService, InQueue
  <2>2. CASE Idle(z)
    BY <1>2, <1>4, <1>6, <2>1, <2>2 DEF Idle, Phase
  <2>3. CASE Asked(z)
    BY <1>2, <1>5, <1>6, <1>7, <2>1, <2>3 DEF Asked, Phase
  <2>4. CASE Sent(z)
    <3>1. unconfirmed'[z] = unconfirmed[z]
      BY <1>3, <1>4, <2>4 DEF Sent, Still
    <3>2. QED
      BY <1>2, <1>5, <1>6, <2>1, <2>4, <3>1 DEF Sent, Phase
  <2>5. CASE Done(z)
    <3>1. CASE t[z] = panelChime[z]
      <4>1. unconfirmed'[z] = {}
        BY <1>4, <2>5, <3>1 DEF Done
      <4>2. ASSUME NEW i \in DOMAIN output'
            PROVE  output'[i][z] = panelChime'[z]
        <5>1. /\ 1 < i + 1 /\ i + 1 \in DOMAIN output
              /\ output'[i] = output[i + 1]
          BY <1>4
        <5>2. output[i + 1][z] = panelChime[z]
          BY <1>3, <1>4, <2>5, <3>1, <5>1 DEF Done
        <5>3. QED
          BY <1>2, <5>1, <5>2
      <4>3. Still(z)'
        BY <1>2, <1>4, <3>1, <4>2 DEF Still
      <4>4. QED
        BY <1>2, <2>1, <2>5, <4>1, <4>3 DEF Idle, Done, Phase
    <3>2. CASE t[z] # panelChime[z]
      <4>1. unconfirmed'[z] = {panelChime'[z]} /\ chimeMode'[z] # panelChime'[z]
        BY <1>2, <1>4, <2>5, <3>2 DEF Done
      <4>2. ASSUME NEW i \in DOMAIN output', NEW j \in DOMAIN output',
                   i < j, output'[i][z] = panelChime'[z]
            PROVE  output'[j][z] = panelChime'[z]
        <5>1. /\ i + 1 \in DOMAIN output /\ output'[i] = output[i + 1]
              /\ j + 1 \in DOMAIN output /\ output'[j] = output[j + 1]
              /\ i + 1 < j + 1
          BY <1>4, <4>2
        <5>2. QED
          BY <1>2, <2>5, <4>2, <5>1 DEF Done
      <4>3. QED
        BY <1>2, <2>1, <2>5, <4>1, <4>2 DEF Done, Phase
    <3>3. QED
      BY <3>1, <3>2
  <2>6. QED
    BY <1>1, <2>2, <2>3, <2>4, <2>5 DEF Phase
<1>10. QED
  BY <1>8, <1>9 DEF Requested

-----------------------------------------------------------------------------
(* The theorems.                                                           *)

LEMMA InitChimes == Init => ChimeInv
<1> SUFFICES ASSUME Init PROVE ChimeInv
  OBVIOUS
<1>1. /\ queue = <<>> /\ input = <<>> /\ output = <<>> /\ current = {}
      /\ chimeMode = [z \in Zones |-> Unknown] /\ panelChime \in Tables
      /\ unconfirmed = [z \in Zones |-> {}]
  BY DEF Init
<1>2. /\ <<>> \in Seq(Requests) /\ <<>> \in Seq(Inputs) /\ <<>> \in Seq(Tables)
      /\ Len(<<>>) = 0 /\ DOMAIN <<>> = {}
  OBVIOUS
<1>3. Len(queue) <= MaxQueued
  BY <1>1, <1>2, ChimeAssumption
<1>4. ChimeType
  BY <1>1, <1>2, <1>3 DEF ChimeType
<1>5. OneRequest
  BY <1>1, <1>2 DEF OneRequest
<1>6. \A z \in Zones : Idle(z)
  BY <1>1, <1>2 DEF Idle, Still, Unsent, InQueue, InService, ChimesIn
<1>7. QED
  BY <1>4, <1>5, <1>6 DEF ChimeInv, Requested, Phase

LEMMA NextChimes ==
  ASSUME ChimeType, Requested, Patient, [Next]_vars
  PROVE  Requested'
<1>1. CASE \E z \in Zones, m \in Modes : SkipRequest(z, m) \/ AcceptRequest(z, m)
  <2>1. CASE \E z \in Zones, m \in Modes : AcceptRequest(z, m)
    BY <2>1, AcceptRequestInv
  <2>2. CASE UNCHANGED vars
    BY <2>2, QuietStep DEF vars, pacingVars
  <2>3. QED
    BY <1>1, <2>1, <2>2 DEF SkipRequest
<1>2. CASE PopQueue \/ VolumeRequest \/ OtherControl \/ Transmit \/ Finish
  <2>1. CASE VolumeRequest /\ control = "Idle"
    BY <2>1, OtherControlInv DEF VolumeRequest
  <2>2. CASE VolumeRequest /\ control # "Idle"
    BY <2>2, QuietStep DEF VolumeRequest, RequestVolume, chimeVars
  <2>3. CASE OtherControl
    BY <2>3, OtherControlInv DEF OtherControl, StartControl
  <2>4. QED
    BY <1>2, <2>1, <2>2, <2>3, PopQueueInv, TransmitInv, FinishInv
<1>3. CASE Abort \/ FailRequest
  BY <1>3, DiscardInv, FailRequestInv DEF Abort, AbortControl
<1>4. CASE Operator
  <2>1. CASE SetMode("Passive") /\ Discard
    BY <2>1, DiscardInv DEF SetMode
  <2>2. CASE \E mode \in {"Monitor", "Maintenance"} :
               SetMode(mode) /\ UNCHANGED chimeVars
    BY <2>2, QuietStep DEF SetMode
  <2>3. QED
    BY <1>4, <2>1, <2>2 DEF Operator
<1>5. CASE SendPoll \/ PanelActs \/ RecordZoneConfiguration
  BY <1>5, SendPollInv, PanelActsInv, RecordInv
<1>6. CASE Bystander /\ UNCHANGED chimeVars
  BY <1>6, QuietStep
  DEF Bystander, ManualCommand, LagReported, TroubleUpdated, AlarmUpdated,
      NetworkReady, PullForward
<1>7. CASE TimePasses
  BY <1>7, QuietStep DEF TimePasses, Tick
<1>8. CASE UNCHANGED vars
  BY <1>8, QuietStep DEF vars, pacingVars
<1>9. QED
  BY <1>1, <1>2, <1>3, <1>4, <1>5, <1>6, <1>7, <1>8 DEF Next

LEMMA ChimeInvariance == Spec => []ChimeInv
<1>1. ChimeInv /\ [Next]_vars => ChimeInv'
  BY NextTypes, NextChimes DEF ChimeInv
<1>2. QED
  BY <1>1, InitChimes, PTL DEF Spec

\* Every variable keeps its type: the deadlines stay on the clock and the
\* queue within its limit (protectedQueue_).
THEOREM TypeCorrect == Spec => []TypeOK
<1>1. PacingInv /\ ChimeInv => TypeOK
  BY DEF PacingInv, ChimeInv, ChimeType, TypeOK
<1>2. QED
  BY <1>1, PacingInvariance, ChimeInvariance, PTL

\* With clients that wait for each request to be confirmed, one that is skipped
\* because the record shows its mode is not missed: the panel has that mode, or
\* is about to (onMessage).
THEOREM SkippedAlwaysSet == Spec => []SkippedIsSet
<1>1. ChimeInv => SkippedIsSet
  <2> SUFFICES ASSUME ChimeType, Requested, NEW z \in Zones, NEW m \in Modes,
                      Asks(z), Skips(z, m)
               PROVE  Eventual(z) = m
    BY DEF ChimeInv, SkippedIsSet
  <2>1. Idle(z) /\ chimeMode[z] = m /\ m # Unknown
    BY DEF Requested, Phase, Asked, Sent, Done, Skips, Asks
  <2>2. ChimesIn(input, z) = {} /\ panelChime[z] = m
    BY <2>1 DEF Idle, Still
  <2>3. QED
    BY <2>2 DEF Eventual, ChimesIn
<1>2. QED
  BY <1>1, ChimeInvariance, PTL

\* With such clients no chime command is sent for the mode that the panel has
\* or is about to have, which would wear its settings flash for nothing
\* (startProtectedCommand, processAlarmControl).
THEOREM PatientNever == Spec => PatientNeverNeedless
<1>1. ASSUME ChimeInv, Patient, Transmit, NEW r \in current
      PROVE  ~Needless(r)
  <2>1. ChimeType /\ Requested
    BY <1>1 DEF ChimeInv
  <2>2. /\ r.zone \in Zones /\ control = "SendCommand"
        /\ unconfirmed[r.zone] = {r.mode}
    BY <1>1, <2>1, QueueElements DEF Requested, OneRequest, Transmit, SendControl
  <2>3. Asked(r.zone)
    <3>1. Unsent(r.zone)
      BY <2>2 DEF Unsent, InService
    <3>2. QED
      BY <2>1, <2>2, <3>1 DEF Requested, Phase, Idle, Sent, Done
  <2>4. ChimesIn(input, r.zone) = {} /\ panelChime[r.zone] # r.mode
    BY <2>2, <2>3 DEF Asked
  <2>5. QED
    BY <2>4 DEF Needless, Eventual, ChimesIn
<1>2. ChimeInv /\ [Next]_vars
        => [Patient /\ Transmit => \A r \in current : ~Needless(r)]_vars
  BY <1>1
<1>3. QED
  BY <1>2, ChimeInvariance, PTL DEF Spec, PatientNeverNeedless
=============================================================================
