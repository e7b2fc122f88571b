--------------------------- MODULE ConsolePacing ---------------------------
(***************************************************************************)
(* Who may write to the panel's console, and when.  One gate,              *)
(* sendBridgeCommand, spaces every command by an interval and waits for    *)
(* the console to go quiet, but not for ever; processMonitorPolling adds   *)
(* read-only polls behind it, one at a time, in a fixed order of           *)
(* precedence, and none for a minute after the panel reported lag.         *)
(*                                                                         *)
(* Time is explicit.  millis() is a counter that wraps, and the code only  *)
(* ever looks at differences to it: a time is kept here as its difference  *)
(* to millis(), modulo the clock, and a deadline has been reached when the *)
(* difference is negative as a signed number of the clock's width.  loop() *)
(* runs many times in one unit of the clock, so the clock does not advance *)
(* while a handler would act.                                              *)
(***************************************************************************)
EXTENDS Integers, Sequences, FiniteSets

CONSTANTS
  Half,             \* 2^31: the clock counts modulo twice this
  CommandInterval,  \* kCommandIntervalMs
  QuietMaxWait,     \* kPanelQuietMaxWaitMs
  PollSpacing,      \* kMonitorPollSpacingMs
  LagBackoff,       \* kPanelLagBackoffMs
  Polls,            \* the polls of processMonitorPolling, first ones first
  Delay,            \* how long after the start each of them is first due
  Refresh,          \* how long after it was sent each of them is due again
  MaxLate,          \* how late a poll may be that nothing holds up
  MaxHeld           \* bound: how late a poll may get when something does

Kinds == {Polls[i] : i \in DOMAIN Polls}

ASSUME PacingAssumption ==
  /\ {Half, CommandInterval, QuietMaxWait, PollSpacing, LagBackoff, MaxLate,
      MaxHeld}
       \subseteq Nat \ {0}
  /\ Polls \in Seq(STRING)
  /\ {"zone_info", "trouble_memory"} \subseteq Kinds
  /\ Delay \in [Kinds -> Nat \ {0}] /\ Refresh \in [Kinds -> Nat \ {0}]
  /\ \A k \in Kinds : Delay[k] <= Refresh[k] /\ Refresh[k] < Half
  /\ CommandInterval + QuietMaxWait < Half /\ PollSpacing < Half
  /\ LagBackoff < Half /\ MaxHeld < Half

\* The longest that commands are apart when nothing but their spacing and the
\* noise on the console keeps them apart.
Gap ==
  IF PollSpacing < CommandInterval + QuietMaxWait
  THEN CommandInterval + QuietMaxWait ELSE PollSpacing

\* The polls, by place and number, that MaxLate has room for before the last.
Ahead ==
  {p \in (1..(Len(Polls) - 1)) \X (0..MaxLate) :
     p[2] * Refresh[Polls[p[1]]] <= MaxLate}

\* MaxLate is time enough to send all of those and the last one, and zone_info,
\* the first in the order, is due and sent within it after a chime.
ASSUME PromptAssumption ==
  /\ Gap * (Cardinality(Ahead) + 1) < MaxLate
  /\ Gap + 2 * CommandInterval < MaxLate /\ Gap + Delay["zone_info"] < MaxLate
  /\ Polls[1] = "zone_info"
  /\ \A k \in Kinds : 2 * CommandInterval <= Refresh[k]

VARIABLES
  noisy,         \* the console printed something in the last quarter second
  sinceCommand,  \* millis() - lastPanelCommandAt_
  backoff,       \* pollBackoffUntil_ - millis()
  due,           \* next...PollAt_ - millis(), for every poll
  txMode,        \* txMode_
  control,       \* alarmControlPhase_, Unlocking and SendCommand as one
  \* What follows is history, read by no handler.
  lagAge,        \* time since the panel last reported lag, up to LagForgotten
  free           \* time for which nothing has held up the polls or moved their
                 \* deadlines, up to MaxLate

pacingVars == <<noisy, sinceCommand, backoff, due, txMode, control, lagAge,
                free>>

-----------------------------------------------------------------------------
Clock == 0..(2 * Half - 1)

\* A pause that ended half a clock ago: longer is not told from not yet.
LagForgotten == LagBackoff + Half

\* How long ago a deadline was, in unsigned arithmetic.
Late(d) == (0 - d) % (2 * Half)

\* deadlineReached.
Reached(d) == Late(d) < Half

\* A mutant: the console's output can hold a command up for ever.
SendsWhenQuiet ==
  /\ txMode # "Passive"
  /\ sinceCommand >= CommandInterval
  /\ ~noisy

\* sendBridgeCommand accepts a command now.
CanSend ==
  /\ txMode # "Passive"
  /\ sinceCommand >= CommandInterval
  /\ noisy => sinceCommand >= CommandInterval + QuietMaxWait

\* The conditions on which processMonitorPolling returns at once.
MayPoll ==
  /\ txMode = "Monitor"
  /\ control = "Idle"
  /\ sinceCommand >= PollSpacing
  /\ Reached(backoff)

\* The poll whose turn it is, if any is due.
Turn(k) ==
  \E i \in DOMAIN Polls :
    /\ Polls[i] = k
    /\ Reached(due[k])
    /\ \A j \in 1..(i - 1) : ~Reached(due[Polls[j]])

\* A mutant: the difference is kept in more bits than the clock has.
Wider(d) == d - 1

\* One unit of the clock later.
Nearer(d) == (d - 1) % (2 * Half)

Less(a, b) == IF a < b THEN a ELSE b

\* Polls are not held up: what MayPoll and CanSend ask but for the waiting.
Undisturbed == txMode = "Monitor" /\ control = "Idle" /\ Reached(backoff)

PacingTypeOK ==
  /\ noisy \in BOOLEAN
  /\ sinceCommand \in Clock
  /\ backoff \in Clock
  /\ due \in [Kinds -> Clock]
  /\ txMode \in {"Passive", "Monitor", "Maintenance"}
  /\ control \in {"Idle", "SendCommand", "WaitCommand"}
  /\ lagAge \in 0..LagForgotten
  /\ free \in 0..MaxLate

\* startPanelUart: a rate was found, and every poll gets its initial delay.
\* The first pause ends at 0, as if lag had been reported before the start.
PacingInit ==
  /\ noisy = FALSE
  /\ sinceCommand = 0
  /\ backoff = 0
  /\ due = Delay
  /\ txMode = "Monitor"
  /\ control = "Idle"
  /\ lagAge = LagBackoff
  /\ free = 0

-----------------------------------------------------------------------------
\* The bytes go out; sendBridgeCommand returns true.
SendBridgeCommand ==
  /\ CanSend
  /\ sinceCommand' = 0

\* processMonitorPolling, with a poll to send.
Poll(k) ==
  /\ MayPoll
  /\ Turn(k)
  /\ SendBridgeCommand
  /\ due' = [due EXCEPT ![k] = Refresh[k]]
  /\ UNCHANGED <<noisy, backoff, txMode, control, lagAge, free>>

\* processManualCommandQueue, with a command in the queue.
ManualCommand ==
  /\ txMode = "Maintenance"
  /\ control = "Idle"
  /\ SendBridgeCommand
  /\ UNCHANGED <<noisy, backoff, due, txMode, control, lagAge,
                 free>>

\* startProtectedCommand, or an unlock sequence: polls stand down.
StartControl ==
  /\ txMode # "Passive"
  /\ control = "Idle"
  /\ control' = "SendCommand"
  /\ free' = 0
  /\ UNCHANGED <<noisy, sinceCommand, backoff, due, txMode,
                 lagAge>>

\* processAlarmControl transmits, once the panel is unlocked.
SendControl ==
  /\ control = "SendCommand"
  /\ SendBridgeCommand
  /\ control' = "WaitCommand"
  /\ UNCHANGED <<noisy, backoff, due, txMode, lagAge, free>>

\* finishAlarmControl; a chime pulls the programming poll forward.
FinishControl(chime) ==
  /\ control = "WaitCommand"
  /\ control' = "Idle"
  /\ due' = IF chime
       THEN [due EXCEPT !["zone_info"] = 2 * CommandInterval]
       ELSE due
  /\ UNCHANGED <<noisy, sinceCommand, backoff, txMode, lagAge, free>>

\* abortAlarmControl.
AbortControl ==
  /\ control' = "Idle"
  /\ free' = 0
  /\ UNCHANGED <<noisy, sinceCommand, backoff, due, lagAge>>

\* Telnet commands that set the mode; /monitor makes every poll due.
SetMode(mode) ==
  /\ txMode' = mode
  /\ control' = IF mode = "Passive" THEN "Idle" ELSE control
  /\ due' = IF mode = "Monitor" THEN [k \in Kinds |-> 0] ELSE due
  /\ free' = 0
  /\ UNCHANGED <<noisy, sinceCommand, backoff, lagAge>>

\* The deadlines with that of one poll, if there is such a poll, moved.
DueIn(k, delay) == [q \in Kinds |-> IF q = k THEN delay ELSE due[q]]

\* requestSounderVolume, accepted: started, or queued behind the one in service.
RequestVolume ==
  /\ txMode # "Passive"
  /\ control' = IF control = "Idle" THEN "SendCommand" ELSE control
  /\ due' = DueIn("sounder_status", CommandInterval)
  /\ free' = 0
  /\ UNCHANGED <<noisy, sinceCommand, backoff, txMode, lagAge>>

\* Something moves the deadline of one poll; others may wait for it.
PullForward(k, delay) ==
  /\ due' = DueIn(k, delay)
  /\ free' = 0
  /\ UNCHANGED <<noisy, sinceCommand, backoff, txMode, control, lagAge>>

\* inspectPanelLine: TROUBLE_MEMORY_UPDATED and ALARM_MEMORY_UPDATED make a poll
\* due.
TroubleUpdated == PullForward("trouble_memory", 0)
AlarmUpdated == PullForward("alarm_memory", 0)

\* setNetworkReady: alarms are read again when the network has come back.
NetworkReady == PullForward("alarm_memory", CommandInterval)

\* A mutant: lag reported while polling is paused does not prolong the pause.
LagOnce ==
  /\ backoff' =
       IF Reached(backoff) THEN LagBackoff ELSE backoff
  /\ lagAge' = 0
  /\ free' = 0
  /\ UNCHANGED <<noisy, sinceCommand, due, txMode, control>>

\* A mutant: every line that reports lag adds a minute to the pause.
LagAdds ==
  /\ backoff' = (LagBackoff + IF Reached(backoff) THEN 0 ELSE backoff)
                  % (2 * Half)
  /\ lagAge' = 0
  /\ free' = 0
  /\ UNCHANGED <<noisy, sinceCommand, due, txMode, control>>

\* inspectPanelLine: UI TIMER lag.
LagReported ==
  /\ backoff' = LagBackoff
  /\ lagAge' = 0
  /\ free' = 0
  /\ UNCHANGED <<noisy, sinceCommand, due, txMode, control>>

\* Some handler of loop() would act at this time.
Urgent == MayPoll /\ CanSend /\ \E k \in Kinds : Turn(k)

Tick ==
  /\ ~Urgent
  /\ \A k \in Kinds : Reached(due[k]) => Late(due[k]) < MaxHeld
  /\ noisy' \in BOOLEAN
  /\ sinceCommand' = (sinceCommand + 1) % (2 * Half)
  /\ backoff' = Nearer(backoff)
  /\ due' = [k \in Kinds |-> Nearer(due[k])]
  /\ lagAge' = Less(lagAge + 1, LagForgotten)
  /\ free' = IF Undisturbed THEN Less(free + 1, MaxLate) ELSE 0
  /\ UNCHANGED <<txMode, control>>

-----------------------------------------------------------------------------
(* Correctness.                                                            *)

\* README.md:22: "It reads live zone state and trouble memory every 30
\* seconds".  A poll that nothing has held up for MaxLate, no command, no lag,
\* no change of mode and no poll pulled forward, is never later than that,
\* however much the console prints and whatever stands before it in the order
\* (processMonitorPolling).
PollsOnTime ==
  free = MaxLate =>
    \A k \in Kinds : Reached(due[k]) => Late(due[k]) <= MaxLate

\* "Panel reported UI task lag; read-only polling paused for 60 seconds": the
\* pause runs from the last such line, not from the first (inspectPanelLine).
PausedByLag ==
  [][\A k \in Kinds : Poll(k) => lagAge >= LagBackoff]_pacingVars

\* "... paused for 60 seconds", however often lag is reported: the pause then
\* ends, and stays so for the half clock in which its deadline lies in the past
\* (inspectPanelLine, deadlineReached).
PauseEnds ==
  LagBackoff <= lagAge /\ lagAge < LagForgotten => Reached(backoff)

\* README.md:22: in monitor mode the bridge "reads live zone state and trouble
\* memory every 30 seconds": only a report of lag pauses that, for LagBackoff.
\* The deadline of a pause is not renewed without lag (processMonitorPolling).
PausedByNothingElse == LagBackoff <= lagAge => Reached(backoff)
=============================================================================
