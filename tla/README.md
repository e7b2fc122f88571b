# A TLA+ development of the GC2 serial-to-MQTT bridge

The program is the firmware of an ESP32 that sits between the console UART of a
2GIG GC2 alarm panel and an MQTT broker, with a Telnet server for an operator,
and the Home Assistant integration that mirrors its topics. This directory
models its control logic in TLA+, checks it with TLC and proves parts of it with
TLAPS.

## Inventory

Everything in the firmware runs on one Arduino `loop()` (2GIGMQTT.ino:212): no
two handlers run at once, but each handler returns after one step, so the
sequences they implement (an unlock takes about a dozen commands over a minute)
interleave freely with one another, with console lines, MQTT messages and the
operator. The one other thread is the UART event task, which bumps a counter.

| component | state it keeps | operations | hard behaviour |
|---|---|---|---|
| PanelBridge: persistent unlock | `unlockPhase_`, `debugLockState_`, three retry counters, `nextUnlockSupervisionAt_` | `processUnlock`, `processUnlockSupervisor`, `scheduleAutomaticUnlock`, `inspectPanelLine` | resets by console lines in any phase; a deadline of "never" |
| PanelBridge: protected commands | `alarmControlPhase_`, `protectedQueue_`, current action, status | `beginProtectedCommand`, `startProtectedCommand`, `processAlarmControl`, `abortAlarmControl` | waits on the unlock that others reset; a queue with a limit; discards |
| PanelBridge: baud detection | `baudState_`, candidates, `currentBaud_` | `processBaudDetection`, `processBaudValidation`, accept/reject, `restartBaudDetection`, `setBaudOverride` | the applied rate is mirrored on the topic that sets it |
| PanelBridge: pacing and polling | `lastPanelCommandAt_`, `lastPanelRxAt_`, six poll deadlines, `pollBackoffUntil_` | `sendBridgeCommand`, `processMonitorPolling` | one console shared by unlock, commands, polls and operator; 32-bit clock that wraps |
| PanelBridge: Telnet | client, authentication and option parser state, `commandQueue_` | `processServer`, `acceptClient`, `processTelnetByte`, `processLocalCommand`, `processManualCommandQueue` | a client replaced in mid-line; a slow client must not stall the UART |
| Gc2ConsoleParser | pending mode/origin/user, the one bridge command awaiting its echo, snapshot deadlines | `processLine` and one parser per line kind | lines that come late, twice or between others |
| Gc2State | zones, alarm, troubles, alarm memory, a revision per item, two bounded queues | `record...`, `begin/finish...Snapshot`, `markAllForRepublish` | live lines and polls write the same fields; queues drop their oldest |
| MqttService | the revision last published of every item, cleanup and trouble stages | `loop`, `connectIfNeeded`, `onMessage`, `publishNext` | reconnect in the middle of a publication; retained messages that come back |
| 2GIGMQTT.ino, ProvisioningPortal, CredentialStore | network state, portal state, saved settings | `processNetwork`, `handleSave`, `setTelnetPassword`, `setMqttSettings`, `clear` | a restart between two saves |
| OtaService, StatusLed, DeviceIdentity, ZoneVocabulary | small or none | | none that interleaves |
| custom_components/gc2_panel | a dictionary of the retained topics | MQTT callbacks, entity creation | topics in any order, deleted topics |

Calls between them: `onMessage` calls `requestAlarmCommand`, `requestZoneBypass`,
`requestZoneChime`, `requestSounderVolume` and `setBaudOverride`/`requestAutoBaud`
of the bridge; `inspectPanelLine` passes every line to the parser, which writes
Gc2State; `publishNext` reads Gc2State and the bridge's revisions; a transmitted
command is noted in the parser for attribution; `processNetwork` opens and closes
the network of bridge, MQTT and OTA.

What makes each correct:

* *Unlock and commands*: a command goes out only on a current proof of unlock;
  requests are served one at a time and in order; nothing survives a discard;
  every request is resolved; the unlock is always taken up again; effort per
  unlock is bounded.
* *Baud*: the applied rate and the retained topics agree in the end; an override
  is not undone by the bridge's own echo; detection visits every candidate.
* *Pacing*: commands are at least one second apart; a console that never pauses
  delays a command at most ten seconds; no poll while the panel lags; deadlines
  survive the wrap of `millis()`; a chime is written only if it changes something.
* *State and publication*: what is retained at the broker equals the state once
  nothing changes, whatever was published when the connection broke; every
  open/close transition is published in order unless counted as dropped; a
  trouble table is replaced as a whole by a poll that delivered it.
* *Telnet*: nothing typed before authentication or by a previous client reaches
  the panel.
* *Provisioning*: a bridge that counts as provisioned accepts its password and has
  a network to join, whenever its power was lost; it has all settings or none.

The hazards of the code, with their lines and the properties that cover them,
are listed in PROJECT.json.

## Modules

| module | what it models | composes |
|---|---|---|
| `CommandService` | abstract service of protected requests | |
| `PanelControl` | unlock, supervisor, commands, their discards | implements `CommandService` |
| `ZonePublish` | zone records and revisions, transition queue, publication, reconnect | Gc2ConsoleParser, Gc2State, MqttService, broker |
| `TroubleSnapshot` | trouble poll, live trouble lines, staged publication | Gc2ConsoleParser, Gc2State, MqttService, broker, panel |
| `BaudMirror` | baud detection, override, the retained mirror and its echo | PanelBridge, MqttService, broker |
| `ConsolePacing` | the pacing gate, the order of the polls, the pause after lag, the wrapping clock | |
| `ChimeReadback` | chime requests compared with what a poll last read back | extends `ConsolePacing`; MqttService, Gc2State, panel |
| `TelnetSession` | one client: login, option parser, line editing, command queue | |
| `Provisioning` | network supervisor, portal, keys of the store, OTA, power | |
| `Device` | the supervisor opening and closing the server whose login asks the store | `Provisioning`, `TelnetSession` |

`..._proofs` holds the theorems of a module, `MC...` its instance for TLC. Next
to be modelled would be the alarm-memory snapshot and the event queue of Gc2State,
and then entity discovery in the Home Assistant integration.

## PanelControl

State. `unlockPhase`, `lockState`, the three counters, `supervision`,
`controlPhase`, `current`, `queue` and `status` are the members of PanelBridge
of those names. `passive` is `txMode_ == Passive`; Monitor and Maintenance differ
only in polls and typed commands. `baudReady` is `baudState_ == Ready`.
`identityKnown` stands for a serial number and an RTC date both read since the
last `scheduleAutomaticUnlock`. `supervision` is `nextUnlockSupervisionAt_`:
"never" is the value UINT32_MAX. (For the first 24.8 days of every 49.7
`deadlineReached(UINT32_MAX)` is true; `SupervisionArmed` shows that the value is
never looked at in a phase where it would matter.) `accepted`, `lastAccepted`,
`executed`, `flushed` and `freshUnlock` are history that no action reads.

Actions. One per phase of `processUnlock` and of `processAlarmControl`, two for
the supervisor, one per kind of console line, one per outcome of a request, one
per local command and one per way the UART restarts. A `loop()` iteration runs
the handlers in a fixed order; the model lets them run in any order, because
deadlines and pacing decide which of them act in an iteration. Time is abstract:
a handler whose deadline has not passed is an action not yet taken, and
`sendBridgeCommand` refusing for pacing is the same delay. The text of commands,
the service code's arithmetic, logging and client messages are left out; a line
of several kinds is several lines. `inspectPanelLine` is applied to every line of
`PanelLines` in every phase.

| run | question | bounds | result |
|---|---|---|---|
| `panel_control` | safety, refinement of `CommandService`, liveness | 2 actions, queue of 1, 2 accepted requests | holds, 636 thousand states |
| `last_request` | README's "carried out in full" | 2 actions, queue of 2, 3 accepted requests | violated |
| `relock` | README's "runs the full unlock sequence again" | 1 action, 1 request | violated |

Two actions are enough to collapse and to contradict; two accepted requests put
one in service with a full queue behind it, and requests that are rejected or
collapsed are not counted. The order of several waiting requests takes a queue of
two, as in `last_request`, which is too much for liveness; that they are served in
it is part of what the theorem about `CommandService` proves for every queue.
`MaxRequests` is the only bound that cuts behaviours: it stops new requests, not
the handling of accepted ones. The console, the operator and the UART restarts are
not bounded.

Fairness: weak fairness of the unlock steps, the supervisor,
the pop of the queue, the restart of the unlock by a waiting command, the
timeout and the end of a command. `loop()` calls each handler for ever and every
deadline except "never" passes. `sendBridgeCommand` accepts a command as soon as
one second has passed since the last and the console is quiet, or ten seconds
have; while a command or an unlock runs, polls and typed commands stand down, so
the sender is not overtaken for ever. Nothing is assumed of the panel, of the
broker or of the operator.

What the two violations show: `LastRequestWins` fails because
`beginProtectedCommand` asks only whether a command is in flight. Between
`finishAlarmControl` and the pop of the queue it is not, and a new request is
started ahead of those waiting; and a request equal to a waiting one is dropped
even when an opposite request waits behind that one. `RelockRunsFullSequence`
fails because a check that finds the panel locked resubmits the code computed
from the stored identity and date; only three failed submissions lead back to a
full sequence.

## ZonePublish

State. `zone`, `nextRevision`, `transitions` and `dropped` are the members of
Gc2State `zones_`, `nextRevision_`, `zoneTransitions_` and `droppedEventCount_`.
`publishedRevision` and `publishedMetadata` are `publishedZoneRevision_` and
`publishedZoneMetadataRevision_` of MqttService. `link` is the connection:
"dead" is a TCP connection that still accepts data which arrives nowhere.
`cleanup` stands for `legacyCleanupStage_`, `eventEntityCleanupZone_` and
`manifestPublished_`: publication of zones waits until those stages, which touch
other topics, are through. `broker` is the retained message of each
`zone/<n>/state` topic, a set with at most one element. `occurred`, `published`,
the number of each transition and `lost` are history.

Actions. One per `record...` function that writes a zone, each applied to the
lines that reach it: live open/closed lines and the `zones` poll
(`RecordZoneState`), live tamper and trouble lines, packets of the sensor layer,
the end of a trouble poll (which writes every zone, listed or not) and rows of
`zone_info`. The connection is made, dies silently, is dropped, or hears that
Home Assistant restarted. `publishNext` is one action per kind of message, in the
code's order of precedence, each with the outcomes of `publish()`: success,
failure before anything was delivered, and failure after the message was.

Abstractions. Of the fields of a record the model keeps `open` and `tamper`, the
two that different writers contend for; supervision, battery and bypass are
written by the same pattern as tamper. Records changed by one line share a
revision, because revisions of different zones are never compared. The order in
which `publishNext` scans the zones is left open. The other topics of
`publishNext` only delay zones. Which of the rules of `parseZonePacket` decides
what a packet says is left open too: a packet may say open, closed or nothing.
The broker never loses a retained message.

| run | question | bounds | result |
|---|---|---|---|
| `zone_publish` | safety, and that everything is published in the end | 2 zones, queue of 2, revisions to 4, 2 faults, stale broker | holds, 1.2 million states |
| `zone_overrun` | "queued and published in order", with the poll as "the reconciliation source" | 2 zones, queue of 3, revisions to 8, no fault, empty broker, open/closed lines only | violated |

`MaxRevision` bounds how many changes lines and connections make, `MaxFaults` how
many failed messages, lost connections and restarts of Home Assistant there are.
Two zones contend for the queue and for the order of publication; a queue of two
is full after two changes, so that a third drops one; four revisions are a
connection and three changes, or two connections and two changes; a fault is
a message delivered but reported as failed, a connection that dies silently with
messages in it, or one that breaks between two messages, and two of them can hit a
message and its retry, or a publication and the one after the reconnect. `FirstRun`
says whether the broker starts empty or with a stale message for every zone, left
by an earlier run. `MaxRevision` also ends the lines: without an
end to the changes nothing could converge, and none is promised.

`Mirrored` is what the broker promises per zone once nothing of it is left to
publish. It leaves out zones that dropped a transition since their record was
last published (`lost`, see the violation) and three kinds of zones the code
makes no promise for (`InInventory`): undiscovered ones, ones a live line revived
after the programming poll disabled them, and ones whose record never got a
revision because only the trouble poll knew them. The last two become published
at their next change or the next connection.

Fairness: weak fairness of the connection attempt, of the
discovery that a connection is dead, of the cleanup and of a successful
`publishNext`. While disconnected, `loop()` tries to connect every five seconds;
while connected it publishes one message every 25 ms, and failures are bounded by
`MaxFaults`; the MQTT keepalive of 30 s ends a dead connection.

What the violation shows: `publishNext` marks a zone's whole revision as
published when it publishes a transition equal to the current state
(MqttService.cpp:355), although newer transitions of that zone may be queued. A
zone opens, closes and opens: the first is published and marks the zone; the
second is published and shows it closed; the queue meanwhile fills up with
transitions of another zone, and the third, now the oldest, is dropped. The
record is open, its revision is marked as published, and the `zones` poll finds
no difference: the broker says closed until the zone changes again or the
connection is made anew. With the queue of 64: after an outage it holds the
three, with at least 61 transitions of other zones behind them; the first two are
published, and three more changes arrive before the next message succeeds.

## TroubleSnapshot

State. `active`, `timer`, `pending`, `troubles`, `known` and `revision` are the
members of Gc2ConsoleParser and Gc2State of (nearly) those names, `tamper` is the
field of every zone's record; `stage`, `publishing` and `publishedRevision` are
those of MqttService. `summary` and `entries` are what the broker retains on
`panel/trouble` and `panel/trouble/<slot>`. The panel is modelled with its memory,
the polls it has not answered and the lines on their way. `answer`, `clean`,
`still` and `settled` are history: what the panel printed last, whether the
snapshot began with no older answer on its way, whether the memory has changed
since, and whether the last snapshot was clean, complete and still is true.

Actions. Troubles are raised, restored and acknowledged at the panel; it answers a
poll with its whole table, or never does. `PollTrouble` is `beginTroubleSnapshot`
of parser and state, `ProcessLine` takes a row or a live line, `FinishSnapshot` is
the timer of two seconds: nothing in the code tells a complete answer from a late
or missing one, and a snapshot that settles before its answer is in costs one of
`MaxSlow`. A row after that begins a snapshot without a timer. The publication
goes slot by slot from whatever the table is at each stage, with the connection
and its failures as in `ZonePublish`. Of an entry the model keeps zone and
whether it is active; every trouble is a tamper, the field that live lines write
as well.

| run | question | bounds | result |
|---|---|---|---|
| `trouble` | safety, and convergence when changes and faults end | 1 zone, table of 2 slots, 2 changes, 2 polls on their way, 1 slow answer, 1 fault, stale broker | holds, 2.2 million states |

Two slots are a first and a last stage with a replacement in between; two changes
are a raise and a restore, or one on either side of a poll; two polls on their
way let the answer to the first fall into the snapshot of the second. The number
of zones matters only to the derived fields, which are sets.

Fairness: the panel answers (weak fairness of `Answer`; without it the memory
cannot be known), and `loop()` polls every 30 seconds in Monitor mode, reads
lines, ends snapshots, connects and publishes.

What the properties leave out is what the code does not do. A poll that is never
answered settles like any other and publishes an empty table, though README.md:255
speaks of complete polls; the next answer repairs it (`TroublesConverge`). A live
line that comes between the answer and the end of the snapshot is overwritten by
the older table until the next poll; `PollReconciles` speaks of memories that did
not change meanwhile.

## BaudMirror

State. `baudState`, `candidate` and `currentBaud` are `baudState_`,
`baudCandidateIndex_` and `currentBaud_` of PanelBridge; `panelBaud` is the rate
the panel talks, which the bridge does not know. `publishedBaud` is
`publishedBaudState_` of MqttService; `stateTopic` and `setTopic` are what the
broker retains on `uart/baud` and `uart/baud/set`; `inbox` is what is on its way
from the latter to the bridge. `lastCommand`, `torn` and the flag that tells an
echo from a command are history: the bridge cannot tell them apart.

Actions. Detection starts a round, accepts a candidate or rejects it; operators
give commands by Telnet or MQTT; `onMessage` carries out what comes in; the
connection is made, dies and breaks as in `ZonePublish`; the rate is published on
both topics, or on the first only. What a publication takes to reach the broker
is part of what it takes to come back. The text heuristics are abstracted: a
recognizable line appears at the panel's own rate only. Commands are published
unretained, as README.md:348 asks.

| run | question | bounds | result |
|---|---|---|---|
| `baud_mirror` | safety and liveness, operators patient | 3 rates, 2 of them candidates, 3 commands, 2 faults | holds, 43 thousand states |
| `baud_echo` | an override stays in force until the next command | 3 rates, 2 candidates, 2 commands, no fault | violated |

Two candidates are a first and a last one, and the third rate can only be
commanded; the panel may talk any of the three. Three commands are an override, a
restart of detection and another override; two faults are a torn publication and
a broken connection, or two of one kind. The broker starts with anything on
either topic.

A *patient* operator (constant `Patient`) gives a Telnet command when no message
is on its way, and an MQTT command when moreover the applied rate is published
and no detection runs. The last condition is needed: a candidate accepted while
the command is on its way is published behind it and comes back as a later
command.

Fairness: weak fairness of detection, MQTT input, publication and connection, for
the reasons given above. One assumption about the panel is strong fairness: if
there are trials at its own rate again and again, it prints a recognizable line
in one of them. Without it a panel that happens to be silent for each of its
60-second windows is never found.

What the violation shows: 19200 is published and its echo is on its way; the
operator sets 115200; the echo arrives and is obeyed. Two different echoes on
their way at once can even keep the bridge alternating. `MirrorAgrees` leaves out
one more case that goes wrong in the code: `uart/baud` is published,
`uart/baud/set` fails, and the rate returns to the one published before; the
comparison at MqttService.cpp:396 then finds nothing to publish, and `uart/baud`
keeps the wrong rate until the next change or connection.

## ConsolePacing and ChimeReadback

State. A time is kept as its difference to `millis()`, modulo the clock's range
`2 * Half`: `sinceCommand`, `backoff` and `due` (one for every poll) stand for
`lastPanelCommandAt_`, `pollBackoffUntil_` and the six `next...PollAt_`. `Reached`
is `deadlineReached`: the difference is negative as a signed number. `noisy` says
that the console printed something in the last quarter second. `txMode` and
`control` are the phases of the other users of the gate, one value for each kind
of behaviour towards it. `lagAge` and `free` are history: the time since lag was
last reported, and the time for which nothing but the gate has held polls up or
moved one of their deadlines.

`chimeMode` is the record's field of every zone, `current` and `queue` the chime
requests in service and waiting; `panelChime`, `input` and `output` are the panel
with its serial lines. `unconfirmed` is history: the mode last asked for, until the
record shows it or the request is discarded unsent.

Clients are those of `onMessage`, which may ask at any time (`Patient = FALSE`), or
*patient* ones, which give the first request for a zone when its record shows a
mode, and the next when it shows what the last one asked for, or when that was
discarded. The code knows nothing of patience; `Patient` is a condition of the
properties and theorems that need it, and stands in their statements.

Actions. `Poll(k)` is `processMonitorPolling` with its precedence; a manual
command, the start, transmission, end and abort of a protected command, the modes
of the operator, a volume request, `TROUBLE_MEMORY_UPDATED`,
`ALARM_MEMORY_UPDATED`, the return of the network and `UI TIMER` lag are the
others that use the gate or write a deadline. `Tick` is one unit of the clock. As `loop()` runs many times in
one unit, the clock does not advance while a poll could go out. Requests are
skipped, started, collapsed with an equal waiting one or queued as in `onMessage`
and `beginProtectedCommand`. A timeout and `/listen on` discard all of them, a
failed unlock only the one in service (`FailRequest`). The panel carries out its
input in order.

| run | question | bounds | result |
|---|---|---|---|
| `polling` | what holds of both modules, clients patient | clock of 14 units, 2 polls, pause of 2, 1 zone, 2 modes, queue of 1 | holds, 6.5 million states |
| `polls_stop` | "reads live zone state and trouble memory every 30 seconds" | as above | violated |
| `needless_chime` | "never cause needless flash writes" | as above, clients not patient | violated |

The first run wraps the clock many times. Of the four polls that somebody pulls forward
two are there (a request that moves a poll which is not on the list only restarts
`free`), one refreshed every 3 units and one every 6, so that the first is due while
the second waits and the other way round. `MaxHeld` bounds how late a poll may get
while something else holds the console, and `MaxBehind` how many commands and
answers are on their way when time passes: the panel keeps up with its console.
`MaxLate` is what `PollsOnTime` promises. `PromptAssumption` says when that is
enough: `Gap` is the longest that the gate keeps two commands apart, `Ahead` are
the polls that can be sent in front of the last one within `MaxLate`, and all of
them and the last have to fit. In the code's numbers `Gap` is 5 s on a quiet
console and 11 s on one that never pauses (one second and the ten seconds of
`kPanelQuietMaxWaitMs`), and six polls are refreshed every 6 h, 30 s, 30 s, 5 min,
60 s and 5 min. Quiet, no poll is later than 41 s (eight gaps); noisy, than 595 s
(54 gaps): in that order the polls of 30 and 60 seconds almost fill the console,
and those refreshed every five minutes wait behind them.

What the violations show. `pollBackoffUntil_` starts at 0 and is written by lag lines
only. A deadline that nobody refreshes lies in the future again when `millis()` has
moved 2^31 past it: on a panel that never reports lag, polling stops 24.8 days after
the start, and after every 24.8 days without lag, for as long again
(`PausedByNothingElse`). What is true of the code is `PauseEnds`: the pause is over
for the half clock that follows it. (The same pattern is in `nextConnectAt_` of
MqttService, which is refreshed by every attempt to connect, and a connection that
lasts longer than 24.8 days is followed by a pause in the same way.)

Between a chime and its read-back the record shows the older mode. A client that
repeats its request in that time passes the comparison of `onMessage`, and
`beginProtectedCommand` compares the request only with those that wait, not with the
one in service or sent: the command goes out twice, and the panel writes its flash
for a mode it has (`NoNeedlessWrite`). A request back to the mode the record still
shows is on the other hand skipped while the opposite one is on its way. With patient
clients neither can happen (`PatientNeverNeedless`, `SkippedIsSet`).

A chime that is transmitted and then discarded by `/listen on` before it ends has
no poll pulled forward; the record shows the old mode until `/monitor`, which
makes every poll due, or the programming poll of six hours. `ReadBackAgrees`
covers it because `free` starts with the mode.

Not in conflict with any property, but with the text: README.md:337 says that
`sounder_status` is polled every 30 seconds; the code does it every five minutes.

## TelnetSession, Provisioning and Device

State. `TelnetSession` has the members of PanelBridge of its variables' names, and
bytes as classes: a printable key, the ends of a line, and the bytes of the option
protocol. Words of `processLocalCommand` and the password are lines (in the run of
one key), everything else is a console command. For every waiting command the
queue holds the session it was typed in. `typed`, `wrong` and `loggedIn` are what
the client knows: the line it sees itself typing, its wrong passwords, its login.

`Provisioning` has `networkState` of 2GIGMQTT.ino, the portal, the keys of
CredentialStore and the hash that OTA authenticates with. Settings are numbered in
the order in which they were submitted, and a key holds the number of the settings
it was written from, 0 for none; the salt is new for every number, so a password
is verified if salt and hash have the same one. What the code writes in one
function is written here key by key (`step`, `toWrite`), so that a loss of power
can come between any two writes, and each write may fail. `torn` and `unclear` are
history: power was lost while settings were saved or taken back; the store was to
be cleared and could not be.

Actions. `TelnetSession`: the client types, erases, ends its line in any of the
four ways, negotiates, leaves; the bridge accepts, reads a byte (option, second
byte of an end of line, edit, end of line), carries a line out, drops the client.
A write to the client that fails is one of the reasons for `DropClient`.
`Provisioning`: the phases of `processNetwork`, `handleSave`, `setTelnetPassword`,
`setMqttSettings`, `clear`, the button, `OtaService::loop`, `ensureOtaPasswordHash...` at
a login. `Device` joins the steps that belong together: `announceNetworkReady` and
`setNetworkReady`, login and verification, start and reset of all members. OTA
itself, with the restart at its end, is a loss of power at any moment as far as
the model goes.

| run | question | bounds | result |
|---|---|---|---|
| `device` | all properties of the three modules | lines of up to 2 keys, queue of 1, 2 attempts, 2 sessions, 2 wrong passwords, 2 submissions, 1 fault, 1 loss of power | holds, 3.5 million states |

Two sessions are enough for something to survive from one to the next; two keys
are an empty, a full and an overflowing line; two attempts make the last one
different from the first; two MQTT keys behind three of the password's give every
cut a power loss can make; two submissions are an old and a new one.

What the properties leave out is what the code does not do. A loss of power
between `setTelnetPassword` and `setMqttSettings` leaves a provisioned bridge
without MQTT settings (`torn`); only the reset by the button brings the portal
back. If the store cannot be cleared (`unclear`), old keys can stand beside new
ones. An access point that fails to start is not tried again. Two things are kept
across sessions and are harmless: `suppressByteAfterCr_`, because the first byte of
a new client is then dropped only if it is LF or NUL, and `txMode_`, which stays
Maintenance with nobody logged in until the next mode command.

## Proofs

`PanelControl_proofs` proves for every set of actions, queue bound and request
bound: type correctness, the three invariants, both action properties and the
refinement. They rest on one inductive invariant

    Inv == TypeOK /\ AbleWhenPending /\ SupervisionArmed
             /\ EffortInv /\ FreshInv /\ RequestInv

* `EffortInv` relates the counters to the phase: `UnlockEffortBounded` alone is
  not inductive because a resubmission is bounded by what `WaitVerification`
  tested, one or two phases earlier.
* `FreshInv` says that outside NotStarted a lock state of 2 is a fresh one:
  `SentOnlyWhenUnlocked` needs it because `debugLockState_` survives a UART
  restart, which leads to NotStarted and is harmless only there.
* `RequestInv` says that every request in service or waiting was accepted after
  the last discard: `DiscardedNeverSent` and the refinement need it.

The assumptions of that module are those named in `PanelControl`: some action exists, the queue
holds at least one request, the request bound is a natural number. Each kind of
action has a lemma that it preserves the part of the invariant it can disturb;
the frame lemmas carry the rest.

`ZonePublish_proofs` proves for every set of zones, queue length and bounds: type
correctness, that the queue ends in the state of the record
(`LastTransitionIsCurrent`), that every transition is accounted for
(`TransitionsAccounted`), `Mirrored`, and that what the broker shows never goes
back (`ShownNeverRegresses`). The assumptions are that the queue has room for one
transition and that the bounds are natural numbers. They rest on

    Inv == TypeOK /\ TransitionsAccounted /\ RecordsOK /\ NothingAhead
             /\ CurrentAtPlace /\ QueuedNotNewer /\ ShownOldest
             /\ DeletedIsSettled /\ Mirrored

The idea: the queued transitions are numbered without a gap up to the latest one
(`TransitionsAccounted`), so the number `at` of the transition that gave a zone
its state says where in the queue it is. `LastTransitionIsCurrent` says only what
holds of the last entry of a zone and is not inductive when entries are dropped
from the front; `CurrentAtPlace` (at its place the queue holds exactly that
state) and `QueuedNotNewer` (nothing of that zone is behind it) are, and imply
it. `Mirrored` is disturbed by publishing a transition equal to the current
state: by the two conjuncts either it is the one at the zone's place, and the
broker then shows the state, or one of the zone is still queued, and `Mirrored`
claims nothing until it is published or dropped. `ShownOldest` is what
`ShownNeverRegresses` needs, `NothingAhead` keeps a new revision different from
every published one, `RecordsOK` says how a record can be undiscovered, and
`DeletedIsSettled` that a deleted zone waits for no transition that would bring
its message back.

`BaudMirror_proofs` proves type correctness, `MirrorAgrees` and
`PatientOverrideHolds` for every set of rates and list of candidates and every
number of commands and faults. The assumptions: no rate is one of the reserved
words, and there is a candidate. The invariant adds to the three properties that a
working connection's topics hold what it published (`TopicsFollow`) and, for
patient operators, that an echo on its way names the applied rate and a command on
its way is alone, with nothing to publish (`InboxOK`): without the latter the
state at the next publication could put an echo behind a command.

`TroubleSnapshot_proofs` proves type correctness, `TroublesMirrored`,
`CompletePollReplaces` and `PollReconciles` for every set of zones, size of
the table and number of changes, answers and faults; the table has a slot. With

    Inv == Shapes /\ InOrder /\ Progress /\ TroublesMirrored

the argument is about the publication in stages: `Progress` says that, while the
table is the one the publication began with, the summary and the slots before the
stage are its own. A table that is replaced in the middle has a higher revision
(`InOrder`), so the last slot marks a revision as published that is not the
current one, and the table is still to be published. The other two rest on

    SnapshotInv == TypeOK /\ Single /\ Collecting /\ Current /\ Reconciled

`Single` says that the memory holds at most one entry for a slot. `Collecting` speaks
of a snapshot that began with no older answer on its way: either the panel has not
answered yet and nothing has been collected, or every row on its way is one of the
answer and every slot without such a row has been collected (`Arriving`). `Current`
says that the answer is the memory as long as nothing has changed since. When the
timer ends such a snapshot with no row to come, the table is therefore the memory,
and `Reconciled` keeps it so: as long as the memory stays, no live line is on its
way that could change the table or the derived fields.

`ChimeReadback_proofs` proves type correctness, `PausedByLag`, `PauseEnds`,
`SkippedIsSet` and `PatientNeverNeedless`, for every width of the clock, all intervals
less than half of it, every list of polls and any zones and modes. The last two have
`Patient` in their statements; nothing else is assumed of clients, and nothing of the
panel's lag. Two invariants:

    PacingInv == PacingTypeOK /\ Pause
    ChimeInv == ChimeType /\ (Patient => OneRequest /\ \A z \in Zones : Phase(z))

`Pause` ties the wrapped deadline to the time since lag was last reported, up to half
a clock after the pause; the modular arithmetic is in lemmas about `Nearer` and `Late`. `Phase` says in which of
four phases a zone's request is (none, asked for, sent, carried out and not read
back) and what record, panel, input and output have to do with one another in
each: the properties only look at moments of a phase. `OneRequest` says that an
unsent request is the only one of its zone.

`PollSchedule_proofs` proves `PollsOnTime` and `ReadBackAgrees` for every list of
polls, all delays, refreshes and intervals and every `MaxLate` that satisfies
`PromptAssumption`. The former is not inductive, because how late a poll is says
nothing about what was sent meanwhile. With

    ScheduleInv == PacingInv /\ Unhindered /\ WithinRefresh /\ OnSchedule

`Unhindered` says what `free` stands for, `WithinRefresh` that no deadline is further
off than one refresh. `OnSchedule` looks back over every window of `w` units that ends
now, in which nothing held up the polls and a given poll was due: `w` is at most `Gap`
for each poll that was sent before it in the window, and what has passed of the gap
since. A poll in front of it is sent at most once in a refresh, and how often it was
sent in the window can be read off its deadline (`SentIn`), so no history is needed.
With `w = MaxLate` the polls sent are among `Ahead`, and `PromptAssumption` makes the
window too long for them; a poll later than `MaxLate` would need it.
`MaxHeld` is any number below half the clock, where a lateness stops being one: what
is left out is a console that something else holds for 24.8 days.

`ReadBackInv`, on top of this and of `ChimeInv`, says that the latest reading is the
panel's table and no chime is on its way, or a `zone_info` is on its way behind every
chime (`Fresh`), or one is to be sent (`Owed`): soon, or when the chime in service
ends, or when the operator returns to Monitor mode. As `zone_info` stands first in
the order it is late by one `Gap` at most, so after `MaxLate` nothing is owed, and
with nothing on its way the record is the panel's.

`Device_proofs` proves type correctness, `QueueBelongs`, `CredentialsAgree`,
`SettingsWhole` and `ProvisionedCanConnect` for every list of MQTT keys that is
disjoint from the password's, every password and every limit. With

    Inv == SupervisorInv /\ TelnetInv

`SupervisorInv` says which keys can have been written at each step of a save or a
clear: `InOrder` (salt, hash, OTA hash are written in this order, so none is newer
than the one before), `Saves` (what is still to be written), `Written` (nothing was
left out unless a write failed), `Cleared`, and `SetupMode`, which makes setup mode
and a password exclude each other, so that a save never starts on top of older
keys. `TelnetInv` adds to the types that a waiting command is of the present
session.

`TelnetSession_proofs` proves `LineAsTyped` and `SentAwayForCause` of `Device`, on top
of that invariant, with

    SessionInv == InStep /\ Online /\ Counted

`InStep` says where a connected client can be: at rest with the line the bridge holds,
one key or erasure ahead of it, at the end of a line, at the second byte of one that
was read, or inside an option sequence, where `StateAt` gives the parser's state byte
by byte. The parser, the editing and the suppression after a return each move a
client from one of these places to another. `Counted` says that before the login
every refusal was of a wrong password and that the line about to be read is one more
or is the right one; it needs `Online`: while there is a client, nothing changes the
password it is compared with.

Every safety property of a passing run is the statement of a theorem. Only
model-checked: liveness (fairness and ENABLED are out of TLAPS's reach), and the six
refuted statements. No model computes by recursion over data, so no theorem waits for
induction over it; where a proof needs a least element (`Least` in
`PollSchedule_proofs`) it takes it from the library's theorem that inclusion of
finite sets is well-founded.

## Not modelled

* The alarm-memory snapshot and the event queue of Gc2State: the former is
  collected like the troubles and published in one message, the latter drops its
  oldest like the transitions of `ZonePublish`.
* The attribution of alarm changes to bridge commands (Gc2ConsoleParser.cpp:71).
* Topics with one message and a revision (battery, firmware, volume, security,
  diagnostics, zone names): the pattern of the troubles without the stages.
* OTA uploads, password hashing, NVS, Wi-Fi, TCP and HTML: library calls or pure
  I/O. ZoneVocabulary, DeviceIdentity and StatusLed have no state that a decision
  depends on.
* The Home Assistant integration, the dashboard and the build files: see
  "components" in PROJECT.json.
