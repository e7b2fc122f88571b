---------------------------- MODULE PanelControl ----------------------------
(***************************************************************************)
(* The protected-command path of PanelBridge: the persistent debug unlock  *)
(* (processUnlock, processUnlockSupervisor), the queue of MQTT requests    *)
(* that need it (beginProtectedCommand, processAlarmControl), the lines of *)
(* the panel console that change either (inspectPanelLine), the operator's *)
(* local commands (processLocalCommand) and the restarts of the panel UART.*)
(*                                                                         *)
(* loop() runs every handler once per iteration on one thread; here each   *)
(* handler is an action, so every order of handlers, console lines,        *)
(* requests and operator commands is considered.  A deadline in the future *)
(* is an action that may be late (it is taken at some later iteration);    *)
(* the one deadline that can be "never", nextUnlockSupervisionAt_, is the  *)
(* variable supervision.  A send waits for sendBridgeCommand to accept it, *)
(* which depends on pacing (module ConsolePacing) and is again a delay.    *)
(***************************************************************************)
EXTENDS Integers, Sequences

CONSTANTS
  Actions,      \* the protected actions MQTT may request, each with its text
  MaxQueue,     \* kMaxQueuedPanelCommands
  MaxRequests   \* bound: requests accepted into service in one behaviour

ASSUME ActionsAssumption == Actions # {}
ASSUME MaxQueueAssumption == MaxQueue \in Nat \ {0}
ASSUME MaxRequestsAssumption == MaxRequests \in Nat

VARIABLES
  passive,           \* passive_ == Passive; Monitor and Maintenance differ
                     \* only in polls and typed commands
  baudReady,         \* baudState_ == Ready
  unlockPhase,       \* unlockPhase_
  lockState,         \* debugLockState_: -1 unknown, 1 locked, 2 unlocked, 0 other
  identityKnown,     \* panelSerialNumber_ and panelYear_ both read
  identityAttempts,  \* identityAttempts_
  unlockAttempts,    \* unlockAttempts_
  verifyAttempts,    \* unlockVerificationAttempts_
  supervision,       \* nextUnlockSupervisionAt_: "never" is UINT32_MAX
  controlPhase,      \* alarmControlPhase_
  current,           \* alarmCommandAction_ and the number of the request
  queue,             \* protectedQueue_
  status,            \* alarmCommandStatus_
  \* What follows is history, read by no handler.
  accepted,          \* how many requests were taken into service
  lastAccepted,      \* the action last answered with "true"
  executed,          \* the requests transmitted, in order
  flushed,           \* the last request accepted before the last flush
  freshUnlock        \* the panel's last word on this UART since the last
                     \* unlock or check was begun is that it is unlocked

unlockVars == <<unlockPhase, lockState, identityKnown, identityAttempts,
                unlockAttempts, verifyAttempts, supervision, freshUnlock>>
controlVars == <<controlPhase, current, queue, status,
                 accepted, lastAccepted, executed, flushed>>
vars == <<passive, baudReady, unlockVars, controlVars>>

-----------------------------------------------------------------------------
\* The phases in which no unlock sequence is running (userInputAllowed).
Settled == {"NotStarted", "Complete", "Failed"}

UnlockPhases == Settled \cup
  {"SendCalibration", "WaitCalibration", "SendBuildInfo", "WaitBuildInfo",
   "SendRtc", "WaitRtc", "EvaluateIdentity", "SendUnlock", "WaitUnlock",
   "SendVerification", "WaitVerification"}

ControlPhases == {"Idle", "Unlocking", "SendCommand", "WaitCommand"}

Statuses == {"idle", "unlocking", "sending", "submitted", "rejected", "failed"}

\* alarmCommandAction_ is "none" until the first request: number 0 is no request.
Requests == [id : 0..MaxRequests, action : Actions \cup {"none"}]

NoRequest == [id |-> 0, action |-> "none"]

TypeOK ==
  /\ passive \in BOOLEAN
  /\ baudReady \in BOOLEAN
  /\ unlockPhase \in UnlockPhases
  /\ lockState \in {-1, 0, 1, 2}
  /\ identityKnown \in BOOLEAN
  /\ identityAttempts \in 0..3
  /\ unlockAttempts \in 0..3
  /\ verifyAttempts \in 0..6
  /\ supervision \in {"armed", "never"}
  /\ controlPhase \in ControlPhases
  /\ current \in Requests
  /\ queue \in Seq(Requests)
  /\ status \in Statuses
  /\ accepted \in 0..MaxRequests
  /\ lastAccepted \in Actions \cup {"none"}
  /\ executed \in Seq(Requests)
  /\ flushed \in 0..MaxRequests
  /\ freshUnlock \in BOOLEAN

Init ==
  /\ passive = FALSE
  /\ baudReady = FALSE
  /\ unlockPhase = "NotStarted"
  /\ lockState = -1
  /\ identityKnown = FALSE
  /\ identityAttempts = 0
  /\ unlockAttempts = 0
  /\ verifyAttempts = 0
  /\ supervision = "armed"
  /\ controlPhase = "Idle"
  /\ current = NoRequest
  /\ queue = <<>>
  /\ status = "idle"
  /\ accepted = 0
  /\ lastAccepted = "none"
  /\ executed = <<>>
  /\ flushed = 0
  /\ freshUnlock = FALSE

-----------------------------------------------------------------------------
(* Helpers the handlers share.                                             *)

\* sendBridgeCommand can succeed: a later iteration will pass its pacing.
MayTransmit == ~passive /\ baudReady

\* Both tests of a protected command on the unlock, before it is sent.
DebugUnlocked == unlockPhase = "Complete" /\ lockState = 2

\* scheduleAutomaticUnlock.
ScheduleAutomaticUnlock ==
  /\ identityKnown' = FALSE
  /\ lockState' = -1
  /\ identityAttempts' = 0
  /\ unlockAttempts' = 0
  /\ verifyAttempts' = 0
  /\ unlockPhase' = "SendCalibration"
  /\ supervision' = "never"
  /\ freshUnlock' = FALSE

\* The unlock is begun only by a command that finds it idle or failed.
ScheduleUnlockIfIdle ==
  IF unlockPhase \in {"NotStarted", "Failed"}
  THEN ScheduleAutomaticUnlock
  ELSE UNCHANGED unlockVars

\* A mutant: the failed request is reported but the queue behind it is kept.
AbortKeepsQueue ==
  /\ controlPhase' = "Idle"
  /\ status' = IF controlPhase # "Idle" THEN "failed" ELSE status
  /\ flushed' = accepted
  /\ UNCHANGED <<current, queue, accepted, lastAccepted, executed>>

\* abortAlarmControl: everything pending is discarded.
AbortAlarmControl ==
  /\ queue' = <<>>
  /\ controlPhase' = "Idle"
  /\ status' = IF controlPhase # "Idle" THEN "failed" ELSE status
  /\ flushed' = accepted
  /\ UNCHANGED <<current, accepted, lastAccepted, executed>>

-----------------------------------------------------------------------------
(* processUnlock: one action per phase.                                    *)

AdvanceUnlock(from, to) ==
  /\ baudReady
  /\ unlockPhase = from
  /\ unlockPhase' = to
  /\ UNCHANGED <<passive, baudReady, controlVars>>

\* A phase that sends moves on only when the command is accepted.
SendIdentityCommand ==
  /\ MayTransmit
  /\ \/ AdvanceUnlock("SendCalibration", "WaitCalibration")
     \/ AdvanceUnlock("SendBuildInfo", "WaitBuildInfo")
     \/ AdvanceUnlock("SendRtc", "WaitRtc")
  /\ UNCHANGED <<lockState, identityKnown, identityAttempts, unlockAttempts,
                 verifyAttempts, supervision, freshUnlock>>

\* A phase that waits moves on when its deadline passes, in every mode.
WaitElapsed ==
  /\ \/ AdvanceUnlock("WaitCalibration", "SendBuildInfo")
     \/ AdvanceUnlock("WaitBuildInfo", "SendRtc")
     \/ AdvanceUnlock("WaitRtc", "EvaluateIdentity")
     \/ AdvanceUnlock("WaitUnlock", "SendVerification")
  /\ UNCHANGED <<lockState, identityKnown, identityAttempts, unlockAttempts,
                 verifyAttempts, supervision, freshUnlock>>

\* Two mutants: one read of the identity too many, and reads not counted.
OneAttemptMore == identityAttempts' < 4
UncountedAttempt == UNCHANGED identityAttempts

IdentityAttemptsLeft == identityAttempts' < 3
CountIdentityAttempt == identityAttempts' = identityAttempts + 1

EvaluateIdentity ==
  /\ \/ /\ identityKnown
        /\ AdvanceUnlock("EvaluateIdentity", "SendUnlock")
        /\ UNCHANGED <<identityAttempts, supervision>>
     \/ /\ ~identityKnown
        /\ CountIdentityAttempt
        /\ \/ /\ IdentityAttemptsLeft
              /\ AdvanceUnlock("EvaluateIdentity", "SendCalibration")
              /\ UNCHANGED supervision
           \/ /\ ~IdentityAttemptsLeft
              /\ AdvanceUnlock("EvaluateIdentity", "Failed")
              /\ supervision' = "armed"
  /\ UNCHANGED <<lockState, identityKnown, unlockAttempts, verifyAttempts,
                 freshUnlock>>

\* A mutant: the code is submitted again without being counted.
SendUnlockUncounted ==
  /\ MayTransmit
  /\ AdvanceUnlock("SendUnlock", "WaitUnlock")
  /\ lockState' = -1
  /\ freshUnlock' = FALSE
  /\ UNCHANGED <<identityKnown, identityAttempts, unlockAttempts,
                 verifyAttempts, supervision>>

\* The daily service code is submitted; what was known of the lock is not.
SendUnlock ==
  /\ MayTransmit
  /\ AdvanceUnlock("SendUnlock", "WaitUnlock")
  /\ lockState' = -1
  /\ unlockAttempts' = unlockAttempts + 1
  /\ freshUnlock' = FALSE
  /\ UNCHANGED <<identityKnown, identityAttempts, verifyAttempts, supervision>>

SendVerification ==
  /\ MayTransmit
  /\ AdvanceUnlock("SendVerification", "WaitVerification")
  /\ verifyAttempts' = verifyAttempts + 1
  /\ UNCHANGED <<lockState, identityKnown, identityAttempts, unlockAttempts,
                 supervision, freshUnlock>>

\* A mutant: a failed verification forgets to arm the supervisor.
FailVerificationUnarmed ==
  /\ AdvanceUnlock("WaitVerification", "Failed")
  /\ UNCHANGED <<unlockAttempts, verifyAttempts, supervision>>

\* The last else of WaitVerification: supervised again in 30 seconds.
FailVerification ==
  /\ AdvanceUnlock("WaitVerification", "Failed")
  /\ supervision' = "armed"
  /\ UNCHANGED <<unlockAttempts, verifyAttempts>>

MayResubmit == lockState = 1 /\ unlockAttempts < 3
MayReverify == lockState < 0 /\ verifyAttempts < 3

WaitVerification ==
  /\ \/ /\ lockState = 2
        /\ AdvanceUnlock("WaitVerification", "Complete")
        /\ unlockAttempts' = 0
        /\ verifyAttempts' = 0
        /\ supervision' = "armed"
     \/ /\ MayResubmit
        /\ AdvanceUnlock("WaitVerification", "SendUnlock")
        /\ UNCHANGED <<unlockAttempts, verifyAttempts, supervision>>
     \/ /\ MayReverify
        /\ AdvanceUnlock("WaitVerification", "SendVerification")
        /\ UNCHANGED <<unlockAttempts, verifyAttempts, supervision>>
     \/ /\ lockState # 2 /\ ~MayResubmit /\ ~MayReverify
        /\ FailVerification
  /\ UNCHANGED <<lockState, identityKnown, identityAttempts, freshUnlock>>

UnlockStep ==
  \/ SendIdentityCommand \/ WaitElapsed \/ EvaluateIdentity
  \/ SendUnlock \/ SendVerification \/ WaitVerification

-----------------------------------------------------------------------------
(* processUnlockSupervisor: stands down in passive mode, while a command   *)
(* is in flight, and while an unlock sequence runs.                        *)

SupervisorDue ==
  /\ baudReady
  /\ ~passive
  /\ controlPhase = "Idle"
  /\ supervision = "armed"
  /\ unlockPhase \in Settled

\* A mutant: the check starts from the answer of the previous one.
ReverifyKeepsAnswer ==
  /\ SupervisorDue
  /\ DebugUnlocked
  /\ verifyAttempts' = 0
  /\ unlockPhase' = "SendVerification"
  /\ supervision' = "never"
  /\ freshUnlock' = FALSE
  /\ UNCHANGED <<passive, baudReady, controlVars, lockState, identityKnown,
                 identityAttempts, unlockAttempts>>

ReverifyUnlock ==
  /\ SupervisorDue
  /\ DebugUnlocked
  /\ lockState' = -1
  /\ verifyAttempts' = 0
  /\ unlockPhase' = "SendVerification"
  /\ supervision' = "never"
  /\ freshUnlock' = FALSE
  /\ UNCHANGED <<passive, baudReady, controlVars,
                 identityKnown, identityAttempts, unlockAttempts>>

RestartUnlock ==
  /\ SupervisorDue
  /\ ~DebugUnlocked
  /\ ScheduleAutomaticUnlock
  /\ UNCHANGED <<passive, baudReady, controlVars>>

SupervisorStep == ReverifyUnlock \/ RestartUnlock

-----------------------------------------------------------------------------
(* inspectPanelLine: the console lines that bear on the unlock.  A line of *)
(* several of these kinds is two lines here.                               *)

PanelLines == {"identity",     \* completes serial number and RTC date
               "unlocked",     \* "unlocked" or "not locked"
               "state0", "state1", "state2",   \* "debug_lock_state <n>"
               "unavailable",  \* "is not available when debug is locked"
               "relocked"}     \* "debug is now locked"

\* The words "unlocked" count only as the answer to an unlock or a check.
AwaitingReport == {"WaitUnlock", "SendVerification", "WaitVerification"}

LockStateRead(line, phase) ==
  CASE line = "unlocked" /\ phase \in AwaitingReport -> 2
    [] line = "state0" -> 0
    [] line \in {"state1", "unavailable", "relocked"} -> 1
    [] line = "state2" -> 2
    [] OTHER -> lockState

\* A refusal seen during a sequence leaves the sequence to find out itself.
ResetsUnlock(line, phase) ==
  line = "relocked" \/ (line = "unavailable" /\ phase \in Settled)

\* A mutant: a relock reported by the panel does not wake the supervisor.
InspectWithoutWaking(line, phase, due) ==
  /\ lockState' = LockStateRead(line, phase)
  /\ identityKnown' = (identityKnown \/ line = "identity")
  /\ unlockPhase' = IF ResetsUnlock(line, phase) THEN "NotStarted" ELSE phase
  /\ supervision' = due

\* phase and due are the phase and the supervision deadline before the line.
InspectPanelLine(line, phase, due) ==
  /\ lockState' = LockStateRead(line, phase)
  /\ identityKnown' = (identityKnown \/ line = "identity")
  /\ unlockPhase' = IF ResetsUnlock(line, phase) THEN "NotStarted" ELSE phase
  /\ supervision' = IF ResetsUnlock(line, phase) THEN "armed" ELSE due

PanelLine(line) ==
  /\ baudReady
  /\ InspectPanelLine(line, unlockPhase, supervision)
  /\ freshUnlock' = IF line = "identity" THEN freshUnlock
                    ELSE line \in {"unlocked", "state2"}
  /\ UNCHANGED <<passive, baudReady, controlVars,
                 identityAttempts, unlockAttempts, verifyAttempts>>

-----------------------------------------------------------------------------
(* Requests from MQTT: beginProtectedCommand and startProtectedCommand.    *)

\* The request is put in flight; MayTransmit, or it is rejected.
StartProtectedCommand(request) ==
  /\ current' = request
  /\ IF ~MayTransmit
     THEN /\ status' = "rejected"
          /\ UNCHANGED <<controlPhase, unlockVars>>
     ELSE IF DebugUnlocked
     THEN /\ controlPhase' = "SendCommand"
          /\ status' = "sending"
          /\ UNCHANGED unlockVars
     ELSE /\ ScheduleUnlockIfIdle
          /\ controlPhase' = "Unlocking"
          /\ status' = "unlocking"

\* The answer "true" to a request that is to be transmitted by itself.
Accept(action) ==
  /\ accepted < MaxRequests
  /\ accepted' = accepted + 1
  /\ lastAccepted' = action

Pending(action) == \E i \in DOMAIN queue : queue[i].action = action

CollapseRequest(action) ==
  /\ controlPhase # "Idle"
  /\ Pending(action)
  /\ lastAccepted' = action
  /\ UNCHANGED <<passive, baudReady, unlockVars, controlPhase, current, queue,
                 status, accepted, executed, flushed>>

QueueRequest(action) ==
  /\ controlPhase # "Idle"
  /\ ~Pending(action)
  /\ Len(queue) < MaxQueue
  /\ Accept(action)
  /\ queue' = Append(queue, [id |-> accepted', action |-> action])
  /\ UNCHANGED <<passive, baudReady, unlockVars, controlPhase, current,
                 status, executed, flushed>>

\* Idle, so started at once: accepted, or rejected and never sent.
BeginRequest(action) ==
  /\ controlPhase = "Idle"
  /\ IF MayTransmit
     THEN /\ Accept(action)
          /\ StartProtectedCommand([id |-> accepted', action |-> action])
     ELSE /\ StartProtectedCommand([id |-> 0, action |-> action])
          /\ UNCHANGED <<accepted, lastAccepted>>
  /\ UNCHANGED <<passive, baudReady, queue, executed, flushed>>

\* A full queue answers "false" and changes nothing: a stuttering step.
Request(action) ==
  CollapseRequest(action) \/ QueueRequest(action) \/ BeginRequest(action)

-----------------------------------------------------------------------------
(* processAlarmControl.                                                    *)

\* A mutant: the request that is started stays in the queue.
StartWithoutRemoving ==
  /\ baudReady
  /\ controlPhase = "Idle"
  /\ queue # <<>>
  /\ StartProtectedCommand(Head(queue))
  /\ UNCHANGED <<passive, baudReady, queue, accepted, lastAccepted, executed,
                 flushed>>

StartQueued ==
  /\ baudReady
  /\ controlPhase = "Idle"
  /\ queue # <<>>
  /\ StartProtectedCommand(Head(queue))
  /\ queue' = Tail(queue)
  /\ UNCHANGED <<passive, baudReady, accepted, lastAccepted, executed, flushed>>

\* A mutant: the timeout is never evaluated.
NoTimeout == FALSE /\ UNCHANGED vars

\* kAlarmControlTimeoutMs after the request was put in flight.
ControlTimeout ==
  /\ baudReady
  /\ controlPhase \in {"Unlocking", "SendCommand"}
  /\ AbortAlarmControl
  /\ UNCHANGED <<passive, baudReady, unlockVars>>

\* Unlocking: the sequence was reset while the command waited.
ResumeUnlock ==
  /\ baudReady
  /\ controlPhase = "Unlocking"
  /\ unlockPhase = "NotStarted"
  /\ ScheduleAutomaticUnlock
  /\ UNCHANGED <<passive, baudReady, controlVars>>

UnlockVerified ==
  /\ baudReady
  /\ controlPhase = "Unlocking"
  /\ DebugUnlocked
  /\ controlPhase' = "SendCommand"
  /\ status' = "sending"
  /\ UNCHANGED <<passive, baudReady, unlockVars, current, queue,
                 accepted, lastAccepted, executed, flushed>>

UnlockFailed ==
  /\ baudReady
  /\ controlPhase = "Unlocking"
  /\ \/ unlockPhase = "Complete" /\ lockState # 2
     \/ unlockPhase = "Failed"
  /\ controlPhase' = "Idle"
  /\ status' = "failed"
  /\ UNCHANGED <<passive, baudReady, unlockVars, current, queue,
                 accepted, lastAccepted, executed, flushed>>

\* SendCommand: debug access changed before the command was transmitted.
AccessWithdrawn ==
  /\ baudReady
  /\ controlPhase = "SendCommand"
  /\ ~DebugUnlocked
  /\ ScheduleUnlockIfIdle
  /\ controlPhase' = "Unlocking"
  /\ status' = "unlocking"
  /\ UNCHANGED <<passive, baudReady, current, queue,
                 accepted, lastAccepted, executed, flushed>>

TransmitCommand ==
  /\ controlPhase = "SendCommand"
  /\ DebugUnlocked
  /\ MayTransmit
  /\ executed' = Append(executed, current)
  /\ controlPhase' = "WaitCommand"
  /\ status' = "submitted"
  /\ UNCHANGED <<passive, baudReady, unlockVars, current, queue,
                 accepted, lastAccepted, flushed>>

\* WaitCommand, 250 ms later: finishAlarmControl.
FinishAlarmControl ==
  /\ baudReady
  /\ controlPhase = "WaitCommand"
  /\ controlPhase' = "Idle"
  /\ status' = "submitted"
  /\ UNCHANGED <<passive, baudReady, unlockVars, current, queue,
                 accepted, lastAccepted, executed, flushed>>

ControlStep ==
  \/ StartQueued \/ ControlTimeout \/ ResumeUnlock \/ UnlockVerified
  \/ UnlockFailed \/ AccessWithdrawn \/ TransmitCommand \/ FinishAlarmControl

-----------------------------------------------------------------------------
(* The operator's local commands and the restarts of the panel UART.       *)

\* A mutant: entering passive mode leaves the commands in service.
ListenOnKeepsCommands ==
  /\ passive' = TRUE
  /\ UNCHANGED <<baudReady, unlockVars, controlVars>>

ListenOn ==
  /\ passive' = TRUE
  /\ AbortAlarmControl
  /\ UNCHANGED <<baudReady, unlockVars>>

\* "/listen off" and "/monitor": supervision is due at once.
ListenOff ==
  /\ passive' = FALSE
  /\ supervision' = "armed"
  /\ UNCHANGED <<baudReady, controlVars, unlockPhase, lockState, identityKnown,
                 identityAttempts, unlockAttempts, verifyAttempts, freshUnlock>>

\* "/unlock", whatever the unlock or a command in flight is doing.
OperatorUnlock ==
  /\ ~passive
  /\ ScheduleAutomaticUnlock
  /\ UNCHANGED <<passive, baudReady, controlVars>>

\* What a restart of the UART does to the unlock: lockState_ is not reset.
UnlockNotStarted ==
  /\ unlockPhase' = "NotStarted"
  /\ supervision' = "armed"
  /\ freshUnlock' = FALSE
  /\ UNCHANGED <<lockState, identityKnown,
                 identityAttempts, unlockAttempts, verifyAttempts>>

\* restartBaudDetection: "/baud auto" and MQTT "auto".
RestartBaudDetection ==
  /\ AbortAlarmControl
  /\ baudReady' = FALSE
  /\ UnlockNotStarted
  /\ UNCHANGED passive

\* A mutant: the new UART inherits the unlock of the old one.
StartPanelUartKeepsPhase ==
  /\ AbortAlarmControl
  /\ baudReady' = TRUE
  /\ freshUnlock' = FALSE
  /\ UNCHANGED <<passive, unlockPhase, supervision, lockState, identityKnown,
                 identityAttempts, unlockAttempts, verifyAttempts>>

\* startPanelUart: "/baud <n>" or MQTT "<n>" for a rate not yet in use.
StartPanelUart ==
  /\ AbortAlarmControl
  /\ baudReady' = TRUE
  /\ UnlockNotStarted
  /\ UNCHANGED passive

\* acceptCurrentBaudCandidate: the line that proves the rate is inspected.
AcceptBaudCandidate(evidence) ==
  /\ ~baudReady
  /\ baudReady' = TRUE
  /\ InspectPanelLine(evidence, "NotStarted", "armed")
  /\ freshUnlock' = (evidence \in {"unlocked", "state2"})
  /\ UNCHANGED <<passive, controlVars,
                 identityAttempts, unlockAttempts, verifyAttempts>>

OperatorStep ==
  \/ ListenOn \/ ListenOff \/ OperatorUnlock \/ RestartBaudDetection
  \/ StartPanelUart

-----------------------------------------------------------------------------
Next ==
  \/ UnlockStep
  \/ SupervisorStep
  \/ ControlStep
  \/ OperatorStep
  \/ \E action \in Actions : Request(action)
  \/ \E line \in PanelLines : PanelLine(line) \/ AcceptBaudCandidate(line)

Spec == Init /\ [][Next]_vars

(***************************************************************************)
(* loop() never stops calling the handlers, every deadline that is not     *)
(* "never" passes, and sendBridgeCommand accepts a command at the latest   *)
(* kCommandIntervalMs + kPanelQuietMaxWaitMs after the one before it.      *)
(* Nothing is assumed of the panel, of MQTT or of the operator.            *)
(***************************************************************************)
Fairness ==
  /\ WF_vars(UnlockStep)
  /\ WF_vars(SupervisorStep)
  /\ WF_vars(StartQueued)
  /\ WF_vars(ResumeUnlock)
  /\ WF_vars(ControlTimeout)
  /\ WF_vars(FinishAlarmControl)

FairSpec == Spec /\ Fairness
-----------------------------------------------------------------------------
(* Correctness.                                                            *)

\* Passive mode and a UART restart leave nothing behind: a request is in
\* service or waiting only while the bridge may transmit at all.  Every
\* handler that takes that permission away must discard (abortAlarmControl).
AbleWhenPending ==
  controlPhase # "Idle" \/ queue # <<>> => MayTransmit

\* A supervision deadline of UINT32_MAX is left only by the running unlock
\* sequence that set it: a sequence that is over, or was reset by a console
\* line or a UART restart, always has the supervisor armed again.
SupervisionArmed == unlockPhase \in Settled => supervision = "armed"

\* One unlock sequence submits the service code at most three times, and asks
\* for the lock state at most three times more than it submitted a code
\* (the counters of WaitVerification bound each other, not one total).
UnlockEffortBounded ==
  /\ unlockAttempts <= 3
  /\ verifyAttempts <= 3 + unlockAttempts

\* A protected command is transmitted only if the panel's last word on this
\* UART, since the last unlock or check was begun, is that debug is unlocked:
\* a lock state left over from before a restart, an unlock attempt or a
\* re-verification never lets a command out (processAlarmControl).
SentOnlyWhenUnlocked == [][executed' # executed => freshUnlock]_vars

\* A request accepted before passive mode was entered, the UART restarted or
\* a command timed out is never transmitted afterwards (abortAlarmControl).
DiscardedNeverSent == [][executed' # executed => current.id > flushed]_vars

\* The requests implement the service of module CommandService.
Service == INSTANCE CommandService WITH
  waiting <- queue,
  inService <- IF controlPhase = "Idle" THEN NoRequest ELSE current,
  sent <- controlPhase = "WaitCommand",
  transmitted <- executed

ImplementsService == Service!Spec

\* A request in service is resolved, whatever the panel answers, because
\* processAlarmControl abandons it in the end.
RequestResolved == (controlPhase # "Idle") ~> (controlPhase = "Idle")

\* While transmission is allowed the bridge never rests: an unlock that is
\* missing, lost, failed or merely old is always taken up again, by the
\* supervisor or by the command that needs it.
UnlockSupervised ==
  (MayTransmit /\ unlockPhase \in Settled)
     ~> (~MayTransmit \/ unlockPhase \notin Settled)

\* An unlock sequence ends, whatever the panel answers, unless the operator
\* restarts it without end.
UnlockSettles ==
  \/ []<><<OperatorUnlock>>_vars
  \/ (unlockPhase \notin Settled) ~> (unlockPhase \in Settled \/ ~MayTransmit)

-----------------------------------------------------------------------------
(* What the documentation says and the code does not do.                   *)

\* README.md: a burst of requests "is therefore carried out in full".  Once
\* every accepted request was transmitted, the last one transmitted is the
\* last one that was answered "true".
LastRequestWins ==
  (/\ accepted > 0 /\ controlPhase = "Idle" /\ queue = <<>>
   /\ Len(executed) = accepted)
     => executed[Len(executed)].action = lastAccepted

\* README.md: the bridge "verifies debug_lock_state with panel_misc every 5
\* minutes and runs the full unlock sequence again if the panel reports
\* locked".  A check is a verification that no code was submitted for.
RelockRunsFullSequence ==
  [][unlockPhase = "WaitVerification" /\ unlockAttempts = 0 /\ lockState = 1
       => unlockPhase' # "SendUnlock"]_vars
=============================================================================
