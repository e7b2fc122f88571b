------------------------ MODULE PanelControl_proofs ------------------------
(* The safety of the protected-command path, for any set of actions, any   *)
(* queue capacity and any number of requests.                               *)
EXTENDS PanelControl, TLAPS

\* The phases of a sequence before its first service code.
IdentityPhases ==
  {"SendCalibration", "WaitCalibration", "SendBuildInfo", "WaitBuildInfo",
   "SendRtc", "WaitRtc", "EvaluateIdentity"}

\* UnlockEffortBounded, strengthened by what each phase has left to spend.
EffortInv ==
  /\ unlockAttempts <= 3
  /\ verifyAttempts <= 3 + unlockAttempts
  /\ unlockPhase \in IdentityPhases =>
       identityAttempts <= 2 /\ unlockAttempts = 0 /\ verifyAttempts = 0
  /\ unlockPhase = "SendUnlock" => unlockAttempts <= 2
  /\ unlockPhase \in {"WaitUnlock", "SendVerification"} =>
       verifyAttempts <= 2 + unlockAttempts

\* Once a sequence has begun, "unlocked" is never a memory.
FreshInv == unlockPhase # "NotStarted" /\ lockState = 2 => freshUnlock

\* Whatever is in service or waiting was accepted after the last discard.
RequestInv ==
  /\ flushed <= accepted
  /\ controlPhase # "Idle" => flushed < current.id
  /\ \A i \in DOMAIN queue : flushed < queue[i].id

Inv ==
  TypeOK /\ AbleWhenPending /\ SupervisionArmed
  /\ EffortInv /\ FreshInv /\ RequestInv


USE ActionsAssumption, MaxQueueAssumption, MaxRequestsAssumption

-----------------------------------------------------------------------------
(* Steps of the unlock, its supervisor, console lines and accepted rates:  *)
(* the requests are untouched.                                             *)

SwitchesOK ==
  /\ passive \in BOOLEAN
  /\ baudReady \in BOOLEAN
  /\ identityKnown \in BOOLEAN
  /\ freshUnlock \in BOOLEAN

UnlockTypeOK ==
  /\ unlockPhase \in UnlockPhases
  /\ lockState \in {-1, 0, 1, 2}
  /\ identityAttempts \in 0..3
  /\ unlockAttempts \in 0..3
  /\ verifyAttempts \in 0..6
  /\ supervision \in {"armed", "never"}

ControlTypeOK ==
  /\ controlPhase \in ControlPhases
  /\ current \in Requests
  /\ queue \in Seq(Requests)
  /\ status \in Statuses
  /\ accepted \in 0..MaxRequests
  /\ lastAccepted \in Actions \cup {"none"}
  /\ executed \in Seq(Requests)
  /\ flushed \in 0..MaxRequests

UnlockInv == UnlockTypeOK /\ SupervisionArmed /\ EffortInv /\ FreshInv
ControlInv == ControlTypeOK /\ RequestInv

LEMMA SplitInv ==
  Inv <=> SwitchesOK /\ UnlockInv /\ ControlInv /\ AbleWhenPending
  BY DEF Inv, TypeOK, SwitchesOK, UnlockTypeOK, ControlTypeOK, UnlockInv,
         ControlInv

LEMMA InitInv == Init => Inv
  <1> SUFFICES ASSUME Init PROVE Inv
    OBVIOUS
  <1>1. SwitchesOK
    BY Zenon DEF Init, SwitchesOK
  <1>2. UnlockInv
    BY DEF Init, UnlockInv, UnlockTypeOK, SupervisionArmed, EffortInv,
           FreshInv, UnlockPhases, Settled, IdentityPhases
  <1>3. ControlInv
    BY DEF Init, ControlInv, ControlTypeOK, RequestInv, ControlPhases,
           Statuses, Requests, NoRequest
  <1>4. AbleWhenPending
    BY DEF Init, AbleWhenPending
  <1>5. QED
    BY <1>1, <1>2, <1>3, <1>4, SplitInv

LEMMA ScheduleKeepsUnlockInv ==
  UnlockInv /\ ScheduleAutomaticUnlock => UnlockInv'
  BY DEF UnlockInv, UnlockTypeOK, SupervisionArmed, EffortInv, FreshInv,
         ScheduleAutomaticUnlock, UnlockPhases, Settled, IdentityPhases

LEMMA UnlockUnchanged ==
  UnlockInv /\ UNCHANGED unlockVars => UnlockInv'
  BY DEF UnlockInv, UnlockTypeOK, SupervisionArmed, EffortInv, FreshInv,
         unlockVars

LEMMA ScheduleIfIdleKeepsUnlockInv ==
  UnlockInv /\ ScheduleUnlockIfIdle => UnlockInv'
  BY ScheduleKeepsUnlockInv, UnlockUnchanged DEF ScheduleUnlockIfIdle

LEMMA UnlockStepKeepsUnlockInv == UnlockInv /\ UnlockStep => UnlockInv'
  <1> SUFFICES ASSUME UnlockInv, UnlockStep PROVE UnlockInv'
    OBVIOUS
  <1> USE DEF UnlockInv, UnlockTypeOK, SupervisionArmed, EffortInv, FreshInv,
              UnlockPhases, Settled, IdentityPhases, AdvanceUnlock
  <1>1. CASE SendIdentityCommand
    BY <1>1 DEF SendIdentityCommand
  <1>2. CASE WaitElapsed
    BY <1>2 DEF WaitElapsed
  <1>3. CASE EvaluateIdentity
    BY <1>3 DEF EvaluateIdentity, CountIdentityAttempt, IdentityAttemptsLeft
  <1>4. CASE SendUnlock
    BY <1>4 DEF SendUnlock
  <1>5. CASE SendVerification
    BY <1>5 DEF SendVerification
  <1>6. CASE WaitVerification
    BY <1>6 DEF WaitVerification, FailVerification, MayResubmit, MayReverify
  <1>7. QED
    BY <1>1, <1>2, <1>3, <1>4, <1>5, <1>6 DEF UnlockStep

LEMMA SupervisorStepKeepsUnlockInv == UnlockInv /\ SupervisorStep => UnlockInv'
  <1> SUFFICES ASSUME UnlockInv, SupervisorStep PROVE UnlockInv'
    OBVIOUS
  <1>1. CASE ReverifyUnlock
    BY <1>1 DEF ReverifyUnlock, UnlockInv, UnlockTypeOK, SupervisionArmed,
                EffortInv, FreshInv, UnlockPhases, Settled, IdentityPhases
  <1>2. CASE RestartUnlock
    BY <1>2, ScheduleKeepsUnlockInv DEF RestartUnlock
  <1>3. QED
    BY <1>1, <1>2 DEF SupervisorStep

LEMMA PanelLineKeepsUnlockInv ==
  ASSUME NEW line \in PanelLines, UnlockInv, PanelLine(line)
  PROVE  UnlockInv'
  <1> USE DEF PanelLine, InspectPanelLine, ResetsUnlock, UnlockInv
  <1>1. UnlockTypeOK'
    BY DEF UnlockTypeOK, LockStateRead, UnlockPhases, Settled
  <1>2. SupervisionArmed'
    BY DEF SupervisionArmed, Settled
  <1>3. EffortInv'
    BY DEF EffortInv, IdentityPhases
  <1>4. FreshInv'
    <2>1. CASE line = "identity"
      BY <2>1 DEF FreshInv, LockStateRead
    <2>2. CASE line \in {"unlocked", "state2"}
      BY <2>2 DEF FreshInv
    <2>3. CASE line \in {"state0", "state1", "unavailable", "relocked"}
      BY <2>3 DEF FreshInv, LockStateRead
    <2>4. QED
      BY <2>1, <2>2, <2>3 DEF PanelLines
  <1>5. QED
    BY <1>1, <1>2, <1>3, <1>4

LEMMA AcceptBaudKeepsUnlockInv ==
  ASSUME NEW line \in PanelLines, UnlockInv, AcceptBaudCandidate(line)
  PROVE  UnlockInv'
  BY DEF AcceptBaudCandidate, InspectPanelLine, ResetsUnlock, LockStateRead,
         PanelLines, AwaitingReport, UnlockInv, UnlockTypeOK, SupervisionArmed,
         EffortInv, FreshInv, UnlockPhases, Settled, IdentityPhases

LEMMA OperatorStepKeepsUnlockInv == UnlockInv /\ OperatorStep => UnlockInv'
  <1> SUFFICES ASSUME UnlockInv, OperatorStep PROVE UnlockInv'
    OBVIOUS
  <1> USE DEF UnlockInv, UnlockTypeOK, SupervisionArmed, EffortInv, FreshInv,
              UnlockPhases, Settled, IdentityPhases
  <1>1. CASE ListenOn
    BY <1>1 DEF ListenOn, unlockVars
  <1>2. CASE ListenOff
    BY <1>2 DEF ListenOff
  <1>3. CASE OperatorUnlock
    BY <1>3, ScheduleKeepsUnlockInv DEF OperatorUnlock
  <1>4. CASE RestartBaudDetection
    BY <1>4 DEF RestartBaudDetection, UnlockNotStarted
  <1>5. CASE StartPanelUart
    BY <1>5 DEF StartPanelUart, UnlockNotStarted
  <1>6. QED
    BY <1>1, <1>2, <1>3, <1>4, <1>5 DEF OperatorStep

-----------------------------------------------------------------------------
(* Requests, and the service of them.                                      *)

LEMMA AbortKeepsControlInv == ControlInv /\ AbortAlarmControl => ControlInv'
  BY DEF ControlInv, ControlTypeOK, RequestInv, AbortAlarmControl,
         ControlPhases, Statuses

LEMMA ControlUnchanged == ControlInv /\ UNCHANGED controlVars => ControlInv'
  BY DEF ControlInv, ControlTypeOK, RequestInv, controlVars

\* Starting a request touches the unlock only by scheduling it.
LEMMA StartKeepsUnlockInv ==
  ASSUME NEW request, UnlockInv, StartProtectedCommand(request)
  PROVE  UnlockInv'
  BY ScheduleIfIdleKeepsUnlockInv, UnlockUnchanged DEF StartProtectedCommand

LEMMA StartedService ==
  ASSUME NEW request \in Requests, ControlInv, StartProtectedCommand(request)
  PROVE  /\ current' = request
         /\ controlPhase' \in ControlPhases
         /\ status' \in Statuses
         /\ ~MayTransmit => controlPhase' = controlPhase
         /\ controlPhase' # "WaitCommand" \/ controlPhase = "WaitCommand"
  BY DEF StartProtectedCommand, ControlInv, ControlTypeOK, ControlPhases,
         Statuses

LEMMA RequestKeepsControlInv ==
  ASSUME NEW action \in Actions, ControlInv, Request(action)
  PROVE  ControlInv'
  <1> USE DEF ControlInv, ControlTypeOK, RequestInv
  <1>1. CASE CollapseRequest(action)
    BY <1>1 DEF CollapseRequest
  <1>2. CASE QueueRequest(action)
    <2>1. /\ accepted' = accepted + 1
          /\ accepted' \in 0..MaxRequests
          /\ lastAccepted' \in Actions \cup {"none"}
      BY <1>2 DEF QueueRequest, Accept
    <2>2. [id |-> accepted', action |-> action] \in Requests
      BY <2>1 DEF Requests
    <2>3. /\ queue' = Append(queue, [id |-> accepted', action |-> action])
          /\ queue' \in Seq(Requests)
      BY <1>2, <2>2 DEF QueueRequest
    <2>4. \A i \in DOMAIN queue' : flushed < queue'[i].id
      BY <2>1, <2>2, <2>3
    <2>5. UNCHANGED <<controlPhase, current, status, executed, flushed>>
      BY <1>2 DEF QueueRequest
    <2>6. QED
      BY <2>1, <2>3, <2>4, <2>5
  <1>3. CASE BeginRequest(action)
    <2>1. UNCHANGED <<queue, executed, flushed>>
      BY <1>3 DEF BeginRequest
    <2>2. CASE MayTransmit
      <3>1. /\ accepted' = accepted + 1
            /\ accepted' \in 0..MaxRequests
            /\ lastAccepted' \in Actions \cup {"none"}
        BY <1>3, <2>2 DEF BeginRequest, Accept
      <3>2. [id |-> accepted', action |-> action] \in Requests
        BY <3>1 DEF Requests
      <3>3. StartProtectedCommand([id |-> accepted', action |-> action])
        BY <1>3, <2>2 DEF BeginRequest
      <3>4. QED
        BY <2>1, <3>1, <3>2, <3>3, StartedService
    <2>3. CASE ~MayTransmit
      <3>1. [id |-> 0, action |-> action] \in Requests
        BY DEF Requests
      <3>2. /\ StartProtectedCommand([id |-> 0, action |-> action])
            /\ controlPhase = "Idle"
            /\ UNCHANGED <<accepted, lastAccepted>>
        BY <1>3, <2>3 DEF BeginRequest
      <3>3. QED
        BY <2>1, <2>3, <3>1, <3>2, StartedService
    <2>4. QED
      BY <2>2, <2>3
  <1>4. QED
    BY <1>1, <1>2, <1>3 DEF Request

LEMMA RequestKeepsUnlockInv ==
  ASSUME NEW action \in Actions, UnlockInv, Request(action)
  PROVE  UnlockInv'
  <1>1. CASE CollapseRequest(action) \/ QueueRequest(action)
    BY <1>1, UnlockUnchanged DEF CollapseRequest, QueueRequest
  <1>2. CASE BeginRequest(action)
    BY <1>2, StartKeepsUnlockInv DEF BeginRequest
  <1>3. QED
    BY <1>1, <1>2 DEF Request

LEMMA StartQueuedKeepsControlInv == ControlInv /\ StartQueued => ControlInv'
  <1> SUFFICES ASSUME ControlInv, StartQueued PROVE ControlInv'
    OBVIOUS
  <1> USE DEF ControlInv, ControlTypeOK, RequestInv
  <1>1. queue \in Seq(Requests) /\ queue # <<>>
    BY DEF StartQueued
  <1>2. Head(queue) \in Requests /\ flushed < Head(queue).id
    BY <1>1
  <1>3. /\ queue' = Tail(queue)
        /\ queue' \in Seq(Requests)
        /\ \A i \in DOMAIN queue' : flushed < queue'[i].id
    BY <1>1 DEF StartQueued
  <1>4. /\ StartProtectedCommand(Head(queue))
        /\ UNCHANGED <<accepted, lastAccepted, executed, flushed>>
    BY DEF StartQueued
  <1>5. QED
    BY <1>2, <1>3, <1>4, StartedService

LEMMA ControlStepKeepsControlInv == ControlInv /\ ControlStep => ControlInv'
  <1> SUFFICES ASSUME ControlInv, ControlStep PROVE ControlInv'
    OBVIOUS
  <1> USE DEF ControlInv, ControlTypeOK, RequestInv, ControlPhases, Statuses
  <1>1. CASE StartQueued
    BY <1>1, StartQueuedKeepsControlInv
  <1>2. CASE ControlTimeout
    BY <1>2, AbortKeepsControlInv DEF ControlTimeout
  <1>3. CASE ResumeUnlock
    BY <1>3, ControlUnchanged DEF ResumeUnlock
  <1>4. CASE UnlockVerified
    BY <1>4 DEF UnlockVerified
  <1>5. CASE UnlockFailed
    BY <1>5 DEF UnlockFailed
  <1>6. CASE AccessWithdrawn
    BY <1>6 DEF AccessWithdrawn
  <1>7. CASE TransmitCommand
    BY <1>7 DEF TransmitCommand
  <1>8. CASE FinishAlarmControl
    BY <1>8 DEF FinishAlarmControl
  <1>9. QED
    BY <1>1, <1>2, <1>3, <1>4, <1>5, <1>6, <1>7, <1>8 DEF ControlStep

LEMMA ControlStepKeepsUnlockInv == UnlockInv /\ ControlStep => UnlockInv'
  <1> SUFFICES ASSUME UnlockInv, ControlStep PROVE UnlockInv'
    OBVIOUS
  <1>1. CASE StartQueued
    BY <1>1, StartKeepsUnlockInv DEF StartQueued
  <1>2. CASE ResumeUnlock
    BY <1>2, ScheduleKeepsUnlockInv DEF ResumeUnlock
  <1>3. CASE AccessWithdrawn
    BY <1>3, ScheduleIfIdleKeepsUnlockInv DEF AccessWithdrawn
  <1>4. CASE \/ ControlTimeout \/ UnlockVerified \/ UnlockFailed
             \/ TransmitCommand \/ FinishAlarmControl
    BY <1>4, UnlockUnchanged
    DEF ControlTimeout, UnlockVerified, UnlockFailed, TransmitCommand,
        FinishAlarmControl
  <1>5. QED
    BY <1>1, <1>2, <1>3, <1>4 DEF ControlStep

-----------------------------------------------------------------------------
(* The whole invariant.                                                    *)

LEMMA StepKeepsUnlockInv == UnlockInv /\ [Next]_vars => UnlockInv'
  <1> SUFFICES ASSUME UnlockInv, [Next]_vars PROVE UnlockInv'
    OBVIOUS
  <1>1. CASE UnlockStep
    BY <1>1, UnlockStepKeepsUnlockInv
  <1>2. CASE SupervisorStep
    BY <1>2, SupervisorStepKeepsUnlockInv
  <1>3. CASE ControlStep
    BY <1>3, ControlStepKeepsUnlockInv
  <1>4. CASE OperatorStep
    BY <1>4, OperatorStepKeepsUnlockInv
  <1>5. CASE \E action \in Actions : Request(action)
    BY <1>5, RequestKeepsUnlockInv
  <1>6. CASE \E line \in PanelLines : PanelLine(line) \/ AcceptBaudCandidate(line)
    BY <1>6, PanelLineKeepsUnlockInv, AcceptBaudKeepsUnlockInv
  <1>7. CASE UNCHANGED vars
    BY <1>7, UnlockUnchanged DEF vars
  <1>8. QED
    BY <1>1, <1>2, <1>3, <1>4, <1>5, <1>6, <1>7 DEF Next

\* What a step that is neither a request nor a step of their service does to
\* the requests: nothing, or it discards them all.
LEMMA OthersKeepOrDiscard ==
  ASSUME \/ UnlockStep \/ SupervisorStep \/ OperatorStep
         \/ \E line \in PanelLines : PanelLine(line) \/ AcceptBaudCandidate(line)
  PROVE  UNCHANGED controlVars \/ AbortAlarmControl
  <1>1. CASE UnlockStep
    BY <1>1
    DEF UnlockStep, SendIdentityCommand, WaitElapsed, EvaluateIdentity,
        SendUnlock, SendVerification, WaitVerification, FailVerification,
        AdvanceUnlock
  <1>2. CASE SupervisorStep
    BY <1>2 DEF SupervisorStep, ReverifyUnlock, RestartUnlock
  <1>3. CASE OperatorStep
    BY <1>3 DEF OperatorStep, ListenOn, ListenOff, OperatorUnlock,
                RestartBaudDetection, StartPanelUart
  <1>4. CASE \E line \in PanelLines : PanelLine(line) \/ AcceptBaudCandidate(line)
    BY <1>4 DEF PanelLine, AcceptBaudCandidate
  <1>5. QED
    BY <1>1, <1>2, <1>3, <1>4

LEMMA StepKeepsControlInv == ControlInv /\ [Next]_vars => ControlInv'
  <1> SUFFICES ASSUME ControlInv, [Next]_vars PROVE ControlInv'
    OBVIOUS
  <1>1. CASE \/ UnlockStep \/ SupervisorStep \/ OperatorStep
             \/ \E line \in PanelLines :
                  PanelLine(line) \/ AcceptBaudCandidate(line)
    BY <1>1, OthersKeepOrDiscard, ControlUnchanged, AbortKeepsControlInv
  <1>2. CASE ControlStep
    BY <1>2, ControlStepKeepsControlInv
  <1>3. CASE \E action \in Actions : Request(action)
    BY <1>3, RequestKeepsControlInv
  <1>4. CASE UNCHANGED vars
    BY <1>4, ControlUnchanged DEF vars
  <1>5. QED
    BY <1>1, <1>2, <1>3, <1>4 DEF Next

LEMMA StepKeepsSwitchesOK == SwitchesOK /\ [Next]_vars => SwitchesOK'
  <1> SUFFICES ASSUME SwitchesOK, [Next]_vars PROVE SwitchesOK'
    OBVIOUS
  <1> USE DEF SwitchesOK
  <1>1. CASE UnlockStep
    BY <1>1, Zenon
    DEF UnlockStep, SendIdentityCommand, WaitElapsed, EvaluateIdentity,
        SendUnlock, SendVerification, WaitVerification, FailVerification,
        AdvanceUnlock
  <1>2. CASE SupervisorStep
    BY <1>2, Zenon DEF SupervisorStep, ReverifyUnlock, RestartUnlock,
                       ScheduleAutomaticUnlock
  <1>3. CASE ControlStep
    <2>1. CASE StartQueued
      <3>1. \/ UNCHANGED <<identityKnown, freshUnlock>>
            \/ identityKnown' = FALSE /\ freshUnlock' = FALSE
        BY <2>1 DEF StartQueued, StartProtectedCommand, unlockVars,
                    ScheduleUnlockIfIdle, ScheduleAutomaticUnlock
      <3>2. UNCHANGED <<passive, baudReady>>
        BY <2>1 DEF StartQueued
      <3>3. QED
        BY <3>1, <3>2
    <2>2. CASE ResumeUnlock
      BY <2>2, Zenon DEF ResumeUnlock, ScheduleAutomaticUnlock
    <2>3. CASE AccessWithdrawn
      BY <2>3, Zenon DEF AccessWithdrawn, ScheduleUnlockIfIdle, unlockVars,
                         ScheduleAutomaticUnlock
    <2>4. CASE \/ ControlTimeout \/ UnlockVerified \/ UnlockFailed
               \/ TransmitCommand \/ FinishAlarmControl
      BY <2>4, Zenon
      DEF ControlTimeout, UnlockVerified, UnlockFailed, TransmitCommand,
          FinishAlarmControl, unlockVars
    <2>5. QED
      BY <1>3, <2>1, <2>2, <2>3, <2>4 DEF ControlStep
  <1>4. CASE OperatorStep
    BY <1>4, Zenon
    DEF OperatorStep, ListenOn, ListenOff, OperatorUnlock, unlockVars,
        RestartBaudDetection, StartPanelUart, UnlockNotStarted,
        ScheduleAutomaticUnlock
  <1>5. CASE \E action \in Actions : Request(action)
    BY <1>5, Zenon
    DEF Request, CollapseRequest, QueueRequest, BeginRequest,
        StartProtectedCommand, ScheduleUnlockIfIdle, ScheduleAutomaticUnlock,
        unlockVars
  <1>6. CASE \E line \in PanelLines : PanelLine(line) \/ AcceptBaudCandidate(line)
    <2>1. PICK line \in PanelLines : PanelLine(line) \/ AcceptBaudCandidate(line)
      BY <1>6
    <2>2. UNCHANGED passive /\ (UNCHANGED baudReady \/ baudReady' = TRUE)
      BY <2>1 DEF PanelLine, AcceptBaudCandidate
    <2>3. identityKnown' = (identityKnown \/ line = "identity")
      BY <2>1 DEF PanelLine, AcceptBaudCandidate, InspectPanelLine
    <2>4. \/ UNCHANGED freshUnlock
          \/ freshUnlock' = (line \in {"unlocked", "state2"})
      BY <2>1, Zenon DEF PanelLine, AcceptBaudCandidate
    <2>5. identityKnown' \in BOOLEAN
      BY <2>3, Zenon
    <2>6. freshUnlock' \in BOOLEAN
      <3>1. CASE UNCHANGED freshUnlock
        BY <3>1, Zenon
      <3>2. CASE freshUnlock' = (line \in {"unlocked", "state2"})
        BY <3>2, SMT
      <3>3. QED
        BY <2>4, <3>1, <3>2
    <2>7. QED
      BY <2>2, <2>5, <2>6, Zenon
  <1>7. CASE UNCHANGED vars
    BY <1>7, Zenon DEF vars, unlockVars
  <1>8. QED
    BY <1>1, <1>2, <1>3, <1>4, <1>5, <1>6, <1>7 DEF Next

LEMMA StepKeepsAbleWhenPending ==
  AbleWhenPending /\ [Next]_vars => AbleWhenPending'
  <1> SUFFICES ASSUME AbleWhenPending, [Next]_vars PROVE AbleWhenPending'
    OBVIOUS
  <1> USE DEF AbleWhenPending, MayTransmit
  <1>1. CASE UnlockStep
    BY <1>1
    DEF UnlockStep, SendIdentityCommand, WaitElapsed, EvaluateIdentity,
        SendUnlock, SendVerification, WaitVerification, FailVerification,
        AdvanceUnlock, controlVars
  <1>2. CASE SupervisorStep
    BY <1>2 DEF SupervisorStep, ReverifyUnlock, RestartUnlock, controlVars
  <1>3. CASE ControlStep
    BY <1>3
    DEF ControlStep, StartQueued, ControlTimeout, ResumeUnlock, UnlockVerified,
        UnlockFailed, AccessWithdrawn, TransmitCommand, FinishAlarmControl,
        StartProtectedCommand, AbortAlarmControl, controlVars
  <1>4. CASE OperatorStep
    BY <1>4
    DEF OperatorStep, ListenOn, ListenOff, OperatorUnlock, AbortAlarmControl,
        RestartBaudDetection, StartPanelUart, controlVars
  <1>5. CASE \E action \in Actions : Request(action)
    BY <1>5
    DEF Request, CollapseRequest, QueueRequest, BeginRequest,
        StartProtectedCommand
  <1>6. CASE \E line \in PanelLines : PanelLine(line) \/ AcceptBaudCandidate(line)
    BY <1>6 DEF PanelLine, AcceptBaudCandidate, controlVars
  <1>7. CASE UNCHANGED vars
    BY <1>7 DEF vars, controlVars
  <1>8. QED
    BY <1>1, <1>2, <1>3, <1>4, <1>5, <1>6, <1>7 DEF Next

LEMMA Invariance == Spec => []Inv
  <1>1. Inv /\ [Next]_vars => Inv'
    BY SplitInv, StepKeepsSwitchesOK, StepKeepsUnlockInv, StepKeepsControlInv,
       StepKeepsAbleWhenPending
    DEF Inv, TypeOK, SwitchesOK, UnlockTypeOK, ControlTypeOK, UnlockInv,
        ControlInv
  <1>2. QED
    BY InitInv, <1>1, PTL DEF Spec

-----------------------------------------------------------------------------
(* The theorems.                                                           *)

\* Every variable keeps its type, the attempt counters their small ranges.
THEOREM TypeCorrect == Spec => []TypeOK
  BY Invariance, PTL DEF Inv

\* A request is in service or waiting only while the bridge may transmit.
THEOREM PendingOnlyWhenAble == Spec => []AbleWhenPending
  BY Invariance, PTL DEF Inv

\* A finished or reset unlock sequence always leaves the supervisor armed.
THEOREM SupervisionNeverLost == Spec => []SupervisionArmed
  BY Invariance, PTL DEF Inv

\* One sequence submits at most three codes and asks at most six times.
THEOREM UnlockEffortIsBounded == Spec => []UnlockEffortBounded
  <1>1. Inv => UnlockEffortBounded
    BY DEF Inv, EffortInv, UnlockEffortBounded
  <1>2. QED
    BY <1>1, Invariance, PTL

\* Only TransmitCommand appends to executed.
LEMMA OnlyTransmitCommandSends ==
  ASSUME [Next]_vars, executed' # executed
  PROVE  TransmitCommand
  <1>1. \A action \in Actions : Request(action) => executed' = executed
    BY DEF Request, CollapseRequest, QueueRequest, BeginRequest
  <1>2. ControlStep => TransmitCommand
    BY DEF ControlStep, StartQueued, ControlTimeout, ResumeUnlock,
           UnlockVerified, UnlockFailed, AccessWithdrawn, FinishAlarmControl,
           AbortAlarmControl, controlVars
  <1>3. UNCHANGED controlVars \/ AbortAlarmControl => executed' = executed
    BY DEF controlVars, AbortAlarmControl
  <1>4. UNCHANGED vars => executed' = executed
    BY DEF vars, controlVars
  <1>5. QED
    BY <1>1, <1>2, <1>3, <1>4, OthersKeepOrDiscard DEF Next

\* No protected command leaves on the memory of an earlier unlock.
THEOREM SendsAreUnlocked == Spec => SentOnlyWhenUnlocked
  <1>1. Inv /\ [Next]_vars => [executed' # executed => freshUnlock]_vars
    <2> SUFFICES ASSUME Inv, [Next]_vars, executed' # executed
                 PROVE  freshUnlock
      OBVIOUS
    <2>1. TransmitCommand
      BY OnlyTransmitCommandSends
    <2>2. unlockPhase # "NotStarted" /\ lockState = 2
      BY <2>1 DEF TransmitCommand, DebugUnlocked
    <2>3. QED
      BY <2>2 DEF Inv, FreshInv
  <1>2. QED
    BY <1>1, Invariance, PTL DEF Spec, SentOnlyWhenUnlocked

\* What was discarded is never transmitted afterwards.
THEOREM DiscardIsFinal == Spec => DiscardedNeverSent
  <1>1. Inv /\ [Next]_vars => [executed' # executed => current.id > flushed]_vars
    <2> SUFFICES ASSUME Inv, [Next]_vars, executed' # executed
                 PROVE  current.id > flushed
      OBVIOUS
    <2>1. controlPhase # "Idle"
      BY OnlyTransmitCommandSends DEF TransmitCommand
    <2>2. QED
      BY <2>1 DEF Inv, TypeOK, RequestInv, Requests
  <1>2. QED
    BY <1>1, Invariance, PTL DEF Spec, DiscardedNeverSent

-----------------------------------------------------------------------------
(* The path implements the service of module CommandService.               *)

LEMMA InitImplementsService == Init => Service!Init
  BY DEF Init, Service!Init, Service!Nobody, NoRequest

LEMMA AbortDiscards == ControlInv /\ AbortAlarmControl => Service!Discard
  BY DEF AbortAlarmControl, Service!Discard, Service!Nobody, NoRequest

LEMMA FrameStutters == UNCHANGED controlVars => UNCHANGED Service!vars
  BY DEF controlVars, Service!vars, NoRequest

\* A request in service is a real one, so Nobody is told from it.
LEMMA SomebodyInService ==
  ControlInv /\ controlPhase # "Idle" => current # NoRequest /\ current # Service!Nobody
  BY DEF ControlInv, ControlTypeOK, RequestInv, Requests, NoRequest,
         Service!Nobody

LEMMA RequestImplementsService ==
  ASSUME NEW action \in Actions, Inv, Request(action)
  PROVE  Service!Next \/ UNCHANGED Service!vars
  <1>0. ControlInv /\ AbleWhenPending
    BY SplitInv
  <1>1. CASE CollapseRequest(action)
    BY <1>1 DEF CollapseRequest, Service!vars, NoRequest
  <1>2. CASE QueueRequest(action)
    <2>1. current # Service!Nobody
      BY <1>0, <1>2, SomebodyInService DEF QueueRequest
    <2>2. Service!Wait(action)
      BY <1>2, <2>1 DEF QueueRequest, Pending, Accept, Service!Wait,
                        Service!NewRequest, Service!Nobody, NoRequest
    <2>3. QED
      BY <2>2 DEF Service!Next
  <1>3. CASE BeginRequest(action)
    <2>1. CASE MayTransmit
      <3>1. Service!Begin(action)
        BY <1>3, <2>1
        DEF BeginRequest, Accept, StartProtectedCommand, Service!Begin,
            Service!NewRequest, Service!Nobody, NoRequest
      <3>2. QED
        BY <3>1 DEF Service!Next
    <2>2. CASE ~MayTransmit
      BY <1>3, <2>2 DEF BeginRequest, StartProtectedCommand, Service!vars,
                        NoRequest
    <2>3. QED
      BY <2>1, <2>2
  <1>4. QED
    BY <1>1, <1>2, <1>3 DEF Request

LEMMA ControlStepImplementsService ==
  ASSUME Inv, ControlStep
  PROVE  Service!Next \/ UNCHANGED Service!vars
  <1>0. ControlInv /\ AbleWhenPending
    BY SplitInv
  <1>1. CASE StartQueued
    <2>1. MayTransmit
      BY <1>0, <1>1 DEF StartQueued, AbleWhenPending
    <2>2. Service!Serve
      BY <1>1, <2>1
      DEF StartQueued, StartProtectedCommand, Service!Serve, Service!Nobody,
          NoRequest
    <2>3. QED
      BY <2>2 DEF Service!Next
  <1>2. CASE ControlTimeout
    BY <1>0, <1>2, AbortDiscards DEF ControlTimeout, Service!Next
  <1>3. CASE ResumeUnlock
    BY <1>3, FrameStutters DEF ResumeUnlock
  <1>4. CASE UnlockVerified
    BY <1>4 DEF UnlockVerified, Service!vars
  <1>5. CASE UnlockFailed \/ FinishAlarmControl
    <2>1. controlPhase # "Idle"
      BY <1>5 DEF UnlockFailed, FinishAlarmControl
    <2>2. current # Service!Nobody
      BY <1>0, <2>1, SomebodyInService
    <2>3. Service!Retire
      BY <1>5, <2>1, <2>2 DEF UnlockFailed, FinishAlarmControl, Service!Retire,
                              Service!Nobody, NoRequest
    <2>4. QED
      BY <2>3 DEF Service!Next
  <1>6. CASE AccessWithdrawn
    BY <1>6 DEF AccessWithdrawn, Service!vars
  <1>7. CASE TransmitCommand
    <2>1. current # Service!Nobody
      BY <1>0, <1>7, SomebodyInService DEF TransmitCommand
    <2>2. Service!Transmit
      BY <1>7, <2>1 DEF TransmitCommand, Service!Transmit, Service!Nobody,
                        NoRequest
    <2>3. QED
      BY <2>2 DEF Service!Next
  <1>8. QED
    BY <1>1, <1>2, <1>3, <1>4, <1>5, <1>6, <1>7 DEF ControlStep

\* Every step of the path is a step of the service or leaves it unchanged.
THEOREM ServiceImplemented == Spec => ImplementsService
  <1>1. Inv /\ [Next]_vars => [Service!Next]_(Service!vars)
    <2> SUFFICES ASSUME Inv, [Next]_vars
                 PROVE  Service!Next \/ UNCHANGED Service!vars
      OBVIOUS
    <2>0. ControlInv
      BY SplitInv
    <2>1. CASE ControlStep
      BY <2>1, ControlStepImplementsService
    <2>2. CASE \E action \in Actions : Request(action)
      BY <2>2, RequestImplementsService
    <2>3. CASE UNCHANGED controlVars
      BY <2>3, FrameStutters
    <2>4. CASE AbortAlarmControl
      BY <2>0, <2>4, AbortDiscards DEF Service!Next
    <2>5. QED
      BY <2>1, <2>2, <2>3, <2>4, OthersKeepOrDiscard DEF Next, vars
  <1>2. QED
    BY <1>1, InitImplementsService, Invariance, PTL
    DEF Spec, ImplementsService, Service!Spec
=============================================================================
