----------------------------- MODULE BaudMirror -----------------------------
(***************************************************************************)
(* How the rate of the panel UART is found, set and mirrored.  PanelBridge *)
(* tries a fixed list of rates until one yields readable text, or takes    *)
(* the rate it is told.  MqttService retains the applied rate on uart/baud *)
(* and on uart/baud/set, the very topic it takes commands from, so that    *)
(* every publication comes back as a command.                              *)
(*                                                                         *)
(* Left out: what a change of rate does to commands and to the unlock      *)
(* (PanelControl), and the rates validBaud refuses, which are "other".     *)
(***************************************************************************)
EXTENDS Integers, Sequences

CONSTANTS
  Rates,        \* the numbers an operator or the candidates may name
  Candidates,   \* 19200, 115200, 38400 in the code, tried in this order
  Patient,      \* whether operators wait for one command to be through
  MaxCommands,  \* bound: commands given
  MaxFaults     \* bound: broken links and half-finished publications

ASSUME RatesAssumption ==
  Rates \intersect {"none", "auto", "detecting", "other"} = {}
ASSUME CandidatesAssumption == Candidates \in Seq(Rates) /\ Candidates # <<>>
ASSUME BaudBoundsAssumption ==
  Patient \in BOOLEAN /\ MaxCommands \in Nat /\ MaxFaults \in Nat

VARIABLES
  panelBaud,      \* what the panel really talks
  baudState,      \* baudState_
  candidate,      \* baudCandidateIndex_, from 1
  currentBaud,    \* currentBaud_
  link,           \* "down"; "up"; "dead": up, but nothing arrives
  publishedBaud,  \* publishedBaudState_
  stateTopic,     \* retained on uart/baud
  setTopic,       \* retained on uart/baud/set
  inbox,          \* on its way from uart/baud/set to the bridge
  commands,       \* how many commands were given
  faults,         \* how many faults there were
  \* What follows is history, read by no handler.
  lastCommand,    \* the last command the bridge carried out, "none" before
  torn            \* uart/baud was published and uart/baud/set was not

uartVars == <<panelBaud, baudState, candidate, currentBaud>>
topicVars == <<publishedBaud, stateTopic, setTopic, torn>>
vars == <<uartVars, link, topicVars, inbox, commands, faults, lastCommand>>

-----------------------------------------------------------------------------
Ready == baudState = "Ready"

\* PanelBridge::baudState().
BaudText == IF Ready THEN currentBaud ELSE "detecting"

Texts == Rates \union {"none", "detecting"}
Payloads == Rates \union {"auto", "detecting", "other"}
Messages == [payload : Payloads, echo : BOOLEAN]

TypeOK ==
  /\ panelBaud \in Rates
  /\ baudState \in {"Waiting", "Validating", "RetryDelay", "Ready"}
  /\ candidate \in 1..Len(Candidates) + 1
  /\ baudState = "Validating" => candidate <= Len(Candidates)
  /\ currentBaud \in Rates \union {"none"}
  /\ Ready => currentBaud # "none"
  /\ link \in {"down", "up", "dead"}
  /\ publishedBaud \in Texts
  /\ stateTopic \in Texts
  /\ setTopic \in Texts
  /\ inbox \in Seq(Messages)
  /\ commands \in 0..MaxCommands
  /\ faults \in 0..MaxFaults
  /\ lastCommand \in Rates \union {"none", "auto"}
  /\ torn \in BOOLEAN

\* An earlier run of the bridge may have retained any rate.
Init ==
  /\ panelBaud \in Rates
  /\ baudState = "Waiting"
  /\ candidate = 1
  /\ currentBaud = "none"
  /\ link = "down"
  /\ publishedBaud = "none"
  /\ stateTopic \in Texts
  /\ setTopic \in Texts
  /\ inbox = <<>>
  /\ commands = 0
  /\ faults = 0
  /\ lastCommand = "none"
  /\ torn = FALSE

-----------------------------------------------------------------------------
(* PanelBridge: detection.                                                 *)

\* A mutant: the rotation goes on behind the last candidate.
TryCandidateTooFar(index) ==
  /\ candidate' = index
  /\ baudState' = IF index > Len(Candidates) + 1 THEN "RetryDelay"
                                                 ELSE "Validating"

\* startCurrentBaudCandidate.
TryCandidate(index) ==
  /\ candidate' = index
  /\ baudState' = IF index > Len(Candidates) THEN "RetryDelay"
                                             ELSE "Validating"

\* A mutant: a new round goes on where the last one ended.
StartValidationWhereLeft ==
  /\ baudState \in {"Waiting", "RetryDelay"}
  /\ TryCandidate(candidate)
  /\ UNCHANGED <<panelBaud, currentBaud, link, topicVars, inbox, commands,
                 faults, lastCommand>>

\* processBaudDetection, after kBaudDetectDelayMs or kBaudRetryDelayMs.
StartBaudValidation ==
  /\ baudState \in {"Waiting", "RetryDelay"}
  /\ TryCandidate(1)
  /\ UNCHANGED <<panelBaud, currentBaud, link, topicVars, inbox, commands,
                 faults, lastCommand>>

\* processBaudValidation finds readable text: at the panel's own rate only.
AcceptCurrentBaudCandidate ==
  /\ baudState = "Validating"
  /\ Candidates[candidate] = panelBaud
  /\ baudState' = "Ready"
  /\ currentBaud' = Candidates[candidate]
  /\ UNCHANGED <<panelBaud, candidate, link, topicVars, inbox, commands,
                 faults, lastCommand>>

\* ... or kBaudValidationWindowMs pass without any.
RejectCurrentBaudCandidate ==
  /\ baudState = "Validating"
  /\ TryCandidate(candidate + 1)
  /\ UNCHANGED <<panelBaud, currentBaud, link, topicVars, inbox, commands,
                 faults, lastCommand>>

-----------------------------------------------------------------------------
(* PanelBridge: commands.                                                  *)

RestartBaudDetection ==
  /\ baudState' = "RetryDelay"
  /\ currentBaud' = "none"
  /\ UNCHANGED <<panelBaud, candidate>>

\* setBaudOverride, for a valid rate; the rate in use is left alone.
SetBaudOverride(rate) ==
  IF Ready /\ currentBaud = rate
  THEN UNCHANGED uartVars
  ELSE /\ baudState' = "Ready"
       /\ currentBaud' = rate
       /\ UNCHANGED <<panelBaud, candidate>>

\* The end of onMessage and of processLocalCommand.
CarryOut(payload) ==
  \/ payload = "auto" /\ RestartBaudDetection
  \/ payload \in Rates /\ SetBaudOverride(payload)
  \/ payload \in {"detecting", "other"} /\ UNCHANGED uartVars

IsCommand(payload) == payload = "auto" \/ payload \in Rates

CountCommand == commands < MaxCommands /\ commands' = commands + 1

\* "/baud" by Telnet; a patient operator lets earlier commands come through.
LocalCommand(payload) ==
  /\ Patient => inbox = <<>>
  /\ CountCommand
  /\ CarryOut(payload)
  /\ lastCommand' = payload
  /\ UNCHANGED <<link, topicVars, inbox, faults>>

\* A command published on uart/baud/set, not retained.  A patient operator
\* looks at uart/baud first and gives it while no detection is running.
PublishCommand(payload) ==
  /\ link = "up"
  /\ Patient => Ready /\ publishedBaud = BaudText /\ inbox = <<>>
  /\ CountCommand
  /\ inbox' = Append(inbox, [payload |-> payload, echo |-> FALSE])
  /\ UNCHANGED <<uartVars, link, topicVars, faults, lastCommand>>

\* onMessage, for uart/baud/set.
OnMessage ==
  LET message == Head(inbox)
  IN  /\ link # "down"
      /\ inbox # <<>>
      /\ inbox' = Tail(inbox)
      /\ CarryOut(message.payload)
      /\ lastCommand' = IF ~message.echo /\ IsCommand(message.payload)
                        THEN message.payload ELSE lastCommand
      /\ UNCHANGED <<link, topicVars, commands, faults>>

-----------------------------------------------------------------------------
(* MqttService.                                                            *)

Fault == faults < MaxFaults /\ faults' = faults + 1

\* What the broker sends to a new subscriber of a topic.
Retained(text) ==
  IF text = "none" THEN <<>> ELSE <<[payload |-> text, echo |-> TRUE]>>

\* A mutant: a stale retained command is not removed before subscribing.
ConnectWithoutClearing ==
  /\ link = "down"
  /\ link' = "up"
  /\ inbox' = Retained(setTopic)
  /\ publishedBaud' = "none"
  /\ torn' = FALSE
  /\ UNCHANGED <<uartVars, stateTopic, setTopic, commands, faults, lastCommand>>

\* A mutant: a new connection remembers what the old one published.
ConnectKeepsTracking ==
  /\ link = "down"
  /\ link' = "up"
  /\ setTopic' = "none"
  /\ inbox' = Retained(setTopic')
  /\ torn' = FALSE
  /\ UNCHANGED <<uartVars, stateTopic, publishedBaud, commands, faults,
                 lastCommand>>

\* connectIfNeeded with resetPublishTracking: the retained command is removed,
\* then the topic is subscribed.
Connect ==
  /\ link = "down"
  /\ link' = "up"
  /\ setTopic' = "none"
  /\ inbox' = Retained(setTopic')
  /\ publishedBaud' = "none"
  /\ torn' = FALSE
  /\ UNCHANGED <<uartVars, stateTopic, commands, faults, lastCommand>>

\* From here on publish() succeeds and nothing arrives.
LinkDies ==
  /\ link = "up"
  /\ Fault
  /\ link' = "dead"
  /\ UNCHANGED <<uartVars, topicVars, inbox, commands, lastCommand>>

\* The client notices, and what was under way to the bridge is gone.
Disconnect ==
  /\ \/ link = "dead" /\ UNCHANGED faults
     \/ link = "up" /\ Fault
  /\ link' = "down"
  /\ inbox' = <<>>
  /\ UNCHANGED <<uartVars, topicVars, commands, lastCommand>>

Due == link # "down" /\ publishedBaud # BaudText

\* Both messages of publishBaudState arrive; the second comes back.
Delivered ==
  IF link = "up"
  THEN /\ stateTopic' = BaudText
       /\ setTopic' = BaudText
       /\ inbox' = Append(inbox, [payload |-> BaudText, echo |-> TRUE])
  ELSE UNCHANGED <<stateTopic, setTopic, inbox>>

\* A mutant: what was published is not remembered.
PublishBaudForgotten ==
  /\ Due
  /\ Delivered
  /\ torn' = FALSE
  /\ UNCHANGED <<uartVars, link, publishedBaud, commands, faults, lastCommand>>

\* publishNext and publishBaudState, both publications successful.
PublishBaudState ==
  /\ Due
  /\ Delivered
  /\ publishedBaud' = BaudText
  /\ torn' = FALSE
  /\ UNCHANGED <<uartVars, link, commands, faults, lastCommand>>

\* The second publication fails after the first; both are tried again, unless
\* the rate has gone back to the one published before.
PublishBaudStateHalf ==
  /\ Due
  /\ Fault
  /\ stateTopic' = IF link = "up" THEN BaudText ELSE stateTopic
  /\ torn' = TRUE
  /\ UNCHANGED <<uartVars, link, publishedBaud, setTopic, inbox, commands,
                 lastCommand>>

\* Nothing to publish about the rate and nothing to read.
MirrorDone ==
  /\ link # "down"
  /\ ~Due
  /\ inbox = <<>>
  /\ UNCHANGED vars

-----------------------------------------------------------------------------
Detection ==
  StartBaudValidation \/ AcceptCurrentBaudCandidate \/ RejectCurrentBaudCandidate

Operator ==
  \/ \E payload \in Rates \union {"auto"} : LocalCommand(payload)
  \/ \E payload \in Rates \union {"auto", "other"} : PublishCommand(payload)

Mqtt ==
  \/ OnMessage
  \/ Connect \/ LinkDies \/ Disconnect
  \/ PublishBaudState \/ PublishBaudStateHalf \/ MirrorDone

Next == Detection \/ Operator \/ Mqtt

Spec == Init /\ [][Next]_vars

(***************************************************************************)
(* loop() runs detection and MQTT for ever and every deadline passes.  The *)
(* panel is assumed to print a recognizable line in one of the trials at   *)
(* its own rate, if there are trials at that rate again and again.         *)
(***************************************************************************)
Fairness ==
  /\ WF_vars(StartBaudValidation)
  /\ WF_vars(RejectCurrentBaudCandidate)
  /\ SF_vars(AcceptCurrentBaudCandidate)
  /\ WF_vars(OnMessage)
  /\ WF_vars(Connect)
  /\ WF_vars(Disconnect /\ link = "dead")
  /\ WF_vars(PublishBaudState)

FairSpec == Spec /\ Fairness

-----------------------------------------------------------------------------
(* Correctness.                                                            *)

\* README.md:345-347: the two retained topics hold the applied rate whenever
\* the service has nothing to publish about it on a working connection, through
\* reconnects and leftovers.  A torn publication is left out: if the rate then
\* goes back to the one before, uart/baud keeps the wrong one (MqttService.cpp:396).
MirrorAgrees ==
  link = "up" /\ ~Due =>
    /\ setTopic = BaudText
    /\ ~torn => stateTopic = BaudText

\* README.md:345-349: publishing a rate, or "/baud" with one, overrides the
\* connection: the rate of the last command that was carried out is in force
\* until the next one.
LastOverrideHolds ==
  lastCommand \in Rates => Ready /\ currentBaud = lastCommand

\* That is so if operators let one command come through before the next: no
\* retained rate and no echo of an earlier one undoes it (onMessage).
PatientOverrideHolds == Patient => LastOverrideHolds

\* A panel that talks at one of the candidate rates is found, from wherever a
\* detection is restarted, by the rotation through the candidates.
Detects ==
  (\E index \in DOMAIN Candidates : Candidates[index] = panelBaud)
    => (~Ready ~> Ready)

\* With patient operators, echoes die out and the applied rate gets published.
Settles == Patient => <>[](link = "up" /\ ~Due /\ inbox = <<>>)
=============================================================================
