--------------------------- MODULE ChimeReadback ---------------------------
(***************************************************************************)
(* Chime requests over the paced console.  A request for the mode that     *)
(* zone_info reported last is skipped, because the panel commits every     *)
(* zone_chime to its settings flash; any other is sent as a protected      *)
(* command, and the end of the command pulls the zone_info poll forward.   *)
(* Between the command and the answer to that poll the record is stale.    *)
(*                                                                         *)
(* The panel is external: it carries out its input in order, and the       *)
(* answer to zone_info is the table as it is at that moment.  Unlocking is *)
(* part of the time a command waits; PanelControl models it.               *)
(***************************************************************************)
EXTENDS ConsolePacing

CONSTANTS
  Patient,      \* whether clients wait for one request to be confirmed
  Zones,        \* 1..74 in the code
  Modes,        \* 0..5 in the code
  MaxQueued,    \* kMaxQueuedPanelCommands
  MaxBehind     \* bound: commands and answers on their way when time passes

Unknown == -1

ASSUME ChimeAssumption ==
  /\ Patient \in BOOLEAN
  /\ Modes \subseteq Nat /\ Modes # {}
  /\ MaxQueued \in Nat \ {0}
  /\ MaxBehind \in Nat

VARIABLES
  chimeMode,   \* the record's chimeMode of every zone
  current,     \* the chime request in service, if it is one
  queue,       \* protectedQueue_, as far as chimes go
  panelChime,  \* what the panel has in its settings
  input,       \* what the panel has received and not carried out
  output,      \* answers to zone_info on their way to the bridge
  \* What follows is history, read by no handler.
  unconfirmed  \* of every zone: the mode last sent or asked for, until the
               \* record shows it or the request is discarded unsent

chimeVars == <<chimeMode, current, queue, panelChime, input, output,
               unconfirmed>>
vars == <<pacingVars, chimeVars>>

Requests == [zone : Zones, mode : Modes]
Inputs == [kind : {"zone_chime"}, zone : Zones, mode : Modes]
            \union [kind : {"zone_info"}]
Tables == [Zones -> Modes]

TypeOK ==
  /\ PacingTypeOK
  /\ chimeMode \in [Zones -> Modes \union {Unknown}]
  /\ current \in SUBSET Requests
  /\ queue \in Seq(Requests)
  /\ Len(queue) <= MaxQueued
  /\ panelChime \in Tables
  /\ input \in Seq(Inputs)
  /\ output \in Seq(Tables)
  /\ unconfirmed \in [Zones -> SUBSET Modes]

Init ==
  /\ PacingInit
  /\ chimeMode = [z \in Zones |-> Unknown]
  /\ current = {}
  /\ queue = <<>>
  /\ panelChime \in Tables
  /\ input = <<>>
  /\ output = <<>>
  /\ unconfirmed = [z \in Zones |-> {}]

-----------------------------------------------------------------------------
(* Requests.                                                               *)

\* When a patient client gives its next request: its zone's record shows a mode,
\* and then what it asked for.
Asks(z) == chimeMode[z] # Unknown /\ unconfirmed[z] = {}

\* onMessage: the mode the record shows is not sent again.
Skips(z, m) == chimeMode[z] = m

SkipRequest(z, m) ==
  /\ Patient => Asks(z)
  /\ Skips(z, m)
  /\ UNCHANGED vars

\* protectedQueue_ with a request; one equal to a waiting one is collapsed.
WithRequest(request) ==
  IF \E i \in DOMAIN queue : queue[i] = request
  THEN queue ELSE Append(queue, request)

\* beginProtectedCommand: started, queued, or dropped when the queue is full.
AcceptRequest(z, m) ==
  LET request == [zone |-> z, mode |-> m]
  IN  /\ Patient => Asks(z)
      /\ ~Skips(z, m)
      /\ \/ /\ StartControl
            /\ current' = {request}
            /\ UNCHANGED queue
         \/ /\ control # "Idle"
            /\ Len(WithRequest(request)) <= MaxQueued
            /\ queue' = WithRequest(request)
            /\ UNCHANGED <<pacingVars, current>>
      /\ unconfirmed' = [unconfirmed EXCEPT ![z] = {m}]
      /\ UNCHANGED <<chimeMode, panelChime, input, output>>

\* processAlarmControl with nothing in service.
PopQueue ==
  /\ queue # <<>>
  /\ StartControl
  /\ current' = {Head(queue)}
  /\ queue' = Tail(queue)
  /\ UNCHANGED <<chimeMode, panelChime, input, output, unconfirmed>>

\* The same for a change of the sounder's volume.
VolumeRequest ==
  /\ RequestVolume
  /\ current' = IF control = "Idle" THEN {} ELSE current
  /\ UNCHANGED <<chimeMode, queue, panelChime, input, output, unconfirmed>>

\* Another protected command, or an unlock sequence.
OtherControl ==
  /\ StartControl
  /\ current' = {}
  /\ UNCHANGED <<chimeMode, queue, panelChime, input, output,
                 unconfirmed>>

\* A mutant: the record is taken from the command, not from the panel.
TransmitAndRecord ==
  /\ SendControl
  /\ \/ \E r \in current :
          /\ input' = Append(input, [kind |-> "zone_chime", zone |-> r.zone,
                                     mode |-> r.mode])
          /\ chimeMode' = [chimeMode EXCEPT ![r.zone] = r.mode]
          /\ unconfirmed' = [unconfirmed EXCEPT ![r.zone] = {}]
     \/ current = {} /\ UNCHANGED <<input, chimeMode, unconfirmed>>
  /\ UNCHANGED <<current, queue, panelChime, output>>

Transmit ==
  /\ SendControl
  /\ \/ \E r \in current :
          input' = Append(input, [kind |-> "zone_chime", zone |-> r.zone,
                                  mode |-> r.mode])
     \/ current = {} /\ UNCHANGED input
  /\ UNCHANGED <<chimeMode, current, queue, panelChime, output,
                 unconfirmed>>

\* A mutant: a chime leaves the six hours of the programming poll as they are.
FinishWithoutReading ==
  /\ FinishControl(FALSE)
  /\ current' = {}
  /\ UNCHANGED <<chimeMode, queue, panelChime, input, output,
                 unconfirmed>>

Finish ==
  /\ FinishControl(current # {})
  /\ current' = {}
  /\ UNCHANGED <<chimeMode, queue, panelChime, input, output,
                 unconfirmed>>

\* What abortAlarmControl discards; a transmitted command is not unsent.
Discarded ==
  {queue[i] : i \in DOMAIN queue}
    \union (IF control = "SendCommand" THEN current ELSE {})

Forget(requests) ==
  unconfirmed' = [z \in Zones |->
    unconfirmed[z] \ {r.mode : r \in {q \in requests : q.zone = z}}]

Discard ==
  /\ current' = {}
  /\ queue' = <<>>
  /\ Forget(Discarded)
  /\ UNCHANGED <<chimeMode, panelChime, input, output>>

\* The command timed out before it could be sent.
Abort ==
  /\ control = "SendCommand"
  /\ AbortControl
  /\ UNCHANGED txMode
  /\ Discard

\* The unlock failed, or could not be verified: those waiting stay.
FailRequest ==
  /\ control = "SendCommand"
  /\ AbortControl
  /\ UNCHANGED txMode
  /\ current' = {}
  /\ Forget(current)
  /\ UNCHANGED <<chimeMode, queue, panelChime, input, output>>

\* /listen on discards, the other modes do not.
Operator ==
  \/ SetMode("Passive") /\ Discard
  \/ \E mode \in {"Monitor", "Maintenance"} :
       SetMode(mode) /\ UNCHANGED chimeVars

-----------------------------------------------------------------------------
(* Polls and the panel.                                                    *)

SendPoll ==
  \E k \in Kinds :
    /\ Poll(k)
    /\ input' = IF k = "zone_info" THEN Append(input, [kind |-> k]) ELSE input
    /\ UNCHANGED <<chimeMode, current, queue, panelChime, output,
                   unconfirmed>>

PanelActs ==
  /\ input # <<>>
  /\ input' = Tail(input)
  /\ LET command == Head(input)
     IN  IF command.kind = "zone_chime"
         THEN /\ panelChime' = [panelChime EXCEPT ![command.zone] = command.mode]
              /\ UNCHANGED output
         ELSE output' = Append(output, panelChime) /\ UNCHANGED panelChime
  /\ UNCHANGED <<pacingVars, chimeMode, current, queue, unconfirmed>>

\* recordZoneConfiguration, for every row of the answer.
RecordZoneConfiguration ==
  /\ output # <<>>
  /\ output' = Tail(output)
  /\ chimeMode' = Head(output)
  /\ unconfirmed' = [z \in Zones |-> unconfirmed[z] \ {Head(output)[z]}]
  /\ UNCHANGED <<pacingVars, current, queue, panelChime, input>>

TimePasses ==
  /\ Len(input) + Len(output) <= MaxBehind
  /\ Tick
  /\ UNCHANGED chimeVars

\* What has nothing to do with chimes.
Bystander ==
  \/ ManualCommand \/ LagReported
  \/ TroubleUpdated \/ AlarmUpdated \/ NetworkReady

-----------------------------------------------------------------------------
Next ==
  \/ \E z \in Zones, m \in Modes : SkipRequest(z, m) \/ AcceptRequest(z, m)
  \/ PopQueue \/ VolumeRequest \/ OtherControl
  \/ Transmit \/ Finish \/ Abort \/ FailRequest \/ Operator
  \/ SendPoll \/ PanelActs \/ RecordZoneConfiguration
  \/ Bystander /\ UNCHANGED chimeVars
  \/ TimePasses

Spec == Init /\ [][Next]_vars
-----------------------------------------------------------------------------
(* Correctness.                                                            *)

\* The mode the panel will have when everything sent has been carried out.
Eventual(z) ==
  LET sent == {i \in DOMAIN input :
                 input[i].kind = "zone_chime" /\ input[i].zone = z}
  IN  IF sent = {} THEN panelChime[z]
      ELSE input[CHOOSE i \in sent : \A j \in sent : j <= i].mode

\* README.md:319: "A request whose mode already matches the retained value is
\* skipped without touching the panel".  For clients that wait for each of
\* their requests to be confirmed the skipped request is not missed: the panel
\* has the mode, or is about to (onMessage).
SkippedIsSet ==
  Patient =>
    \A z \in Zones, m \in Modes : Asks(z) /\ Skips(z, m) => Eventual(z) = m

\* The command would set the mode that the panel has, or is about to have.
Needless(r) == Eventual(r.zone) = r.mode

\* "... so repeated automations never cause needless flash writes": a mode that
\* a command has already set is not set again, although the record still shows
\* the one from before it (onMessage, beginProtectedCommand).
NoNeedlessWrite ==
  [][Transmit => \A r \in current :
       chimeMode[r.zone] \notin {Unknown, r.mode} => ~Needless(r)]_vars

\* That is so, and whatever the record shows, if clients wait for each of their
\* requests to be confirmed before the next.
PatientNeverNeedless ==
  [][Patient /\ Transmit => \A r \in current : ~Needless(r)]_vars

\* A programming poll follows every chime: once the polls have had their time
\* and the answers are in, the record is the panel's (finishAlarmControl).
ReadBackAgrees ==
  free = MaxLate /\ input = <<>> /\ output = <<>> => chimeMode = panelChime
=============================================================================
