------------------------- MODULE BaudMirror_proofs -------------------------
(***************************************************************************)
(* Proofs about BaudMirror, for every set of rates, every list of          *)
(* candidates and every number of commands and faults.                     *)
(***************************************************************************)
EXTENDS BaudMirror, TLAPS

\* A connection's topics hold what it published last.
TopicsFollow ==
  link = "up" /\ publishedBaud # "none" =>
    /\ setTopic = publishedBaud
    /\ ~torn => stateTopic = publishedBaud

\* An echo on its way to a patient operator's bridge asks for nothing new.
EchoOK(message) ==
  message.echo => \/ message.payload = "detecting"
                  \/ Ready /\ message.payload = currentBaud

\* A patient operator's command travels alone, to a bridge that is ready and
\* has nothing to publish.
CommandOK(message) ==
  ~message.echo => Len(inbox) = 1 /\ Ready /\ publishedBaud = BaudText

InboxOK ==
  Patient => \A i \in DOMAIN inbox : EchoOK(inbox[i]) /\ CommandOK(inbox[i])

Inv == TypeOK /\ TopicsFollow /\ InboxOK /\ PatientOverrideHolds

USE RatesAssumption, CandidatesAssumption, BaudBoundsAssumption

-----------------------------------------------------------------------------
LEMMA BaudTextType ==
  TypeOK => BaudText \in Texts /\ BaudText # "none" /\ BaudText \in Payloads
BY DEF TypeOK, BaudText, Ready, Texts, Payloads

LEMMA InitInv == Init => Inv
<1> SUFFICES ASSUME Init PROVE Inv
  OBVIOUS
<1>1. TypeOK
  <2>1. torn \in BOOLEAN
    BY Zenon DEF Init
  <2>2. QED
    BY <2>1 DEF Init, TypeOK, Ready, Texts
<1>2. TopicsFollow
  BY DEF Init, TopicsFollow
<1>3. InboxOK
  BY DEF Init, InboxOK
<1>4. PatientOverrideHolds
  BY DEF Init, PatientOverrideHolds, LastOverrideHolds
<1>5. QED
  BY <1>1, <1>2, <1>3, <1>4 DEF Inv

\* Where a candidate is tried, the rotation stays within its bounds.
LEMMA TryCandidateType ==
  ASSUME NEW index \in 1..Len(Candidates) + 1, TryCandidate(index)
  PROVE  /\ candidate' \in 1..Len(Candidates) + 1
         /\ baudState' \in {"Validating", "RetryDelay"}
         /\ baudState' = "Validating" => candidate' <= Len(Candidates)
BY DEF TryCandidate

\* Detection runs only while nothing relies on the bridge being ready.
LEMMA DetectionKeepsInv == Inv /\ Detection => Inv'
<1> SUFFICES ASSUME Inv, Detection PROVE Inv'
  OBVIOUS
<1> USE DEF Inv, TypeOK
<1>1. CASE StartBaudValidation
  <2>1. 1 \in 1..Len(Candidates) + 1
    OBVIOUS
  <2>2. TypeOK'
    BY <1>1, <2>1, TryCandidateType DEF StartBaudValidation, Ready, topicVars
  <2>3. ~Ready /\ ~Ready'
    BY <1>1, <2>1, TryCandidateType DEF StartBaudValidation, Ready
  <2>4. TopicsFollow' /\ InboxOK' /\ PatientOverrideHolds'
    BY <1>1, <2>3 DEF StartBaudValidation, TopicsFollow, InboxOK, EchoOK,
       CommandOK, PatientOverrideHolds, LastOverrideHolds, topicVars
  <2>5. QED
    BY <2>2, <2>4
<1>2. CASE RejectCurrentBaudCandidate
  <2>1. candidate + 1 \in 1..Len(Candidates) + 1
    BY <1>2 DEF RejectCurrentBaudCandidate
  <2>2. TypeOK'
    BY <1>2, <2>1, TryCandidateType
       DEF RejectCurrentBaudCandidate, Ready, topicVars
  <2>3. ~Ready /\ ~Ready'
    BY <1>2, <2>1, TryCandidateType DEF RejectCurrentBaudCandidate, Ready
  <2>4. TopicsFollow' /\ InboxOK' /\ PatientOverrideHolds'
    BY <1>2, <2>3 DEF RejectCurrentBaudCandidate, TopicsFollow, InboxOK,
       EchoOK, CommandOK, PatientOverrideHolds, LastOverrideHolds, topicVars
  <2>5. QED
    BY <2>2, <2>4
<1>3. CASE AcceptCurrentBaudCandidate
  <2>1. Candidates[candidate] \in Rates
    BY <1>3 DEF AcceptCurrentBaudCandidate
  <2>2. TypeOK'
    BY <1>3, <2>1 DEF AcceptCurrentBaudCandidate, Ready, topicVars
  <2>3. ~Ready
    BY <1>3 DEF AcceptCurrentBaudCandidate, Ready
  <2>4. TopicsFollow' /\ InboxOK' /\ PatientOverrideHolds'
    BY <1>3, <2>3 DEF AcceptCurrentBaudCandidate, TopicsFollow, InboxOK,
       EchoOK, CommandOK, PatientOverrideHolds, LastOverrideHolds, topicVars
  <2>5. QED
    BY <2>2, <2>4
<1>4. QED
  BY <1>1, <1>2, <1>3 DEF Detection

-----------------------------------------------------------------------------
(* Commands.                                                               *)

\* What carrying out a command leaves behind.
LEMMA CarryOutEffect ==
  ASSUME TypeOK, NEW payload \in Payloads, CarryOut(payload)
  PROVE  /\ panelBaud' = panelBaud /\ candidate' = candidate
         /\ baudState' \in {"Waiting", "Validating", "RetryDelay", "Ready"}
         /\ baudState' = "Validating" => baudState = "Validating"
         /\ currentBaud' \in Rates \union {"none"}
         /\ Ready' => currentBaud' # "none"
         /\ payload \in Rates => Ready' /\ currentBaud' = payload
         /\ \/ payload \in {"detecting", "other"}
            \/ payload \in Rates /\ Ready /\ payload = currentBaud
            => UNCHANGED uartVars
BY DEF TypeOK, CarryOut, RestartBaudDetection, SetBaudOverride, Ready,
       Payloads, uartVars

LEMMA LocalCommandKeepsInv ==
  ASSUME Inv, NEW payload \in Rates \union {"auto"}, LocalCommand(payload)
  PROVE  Inv'
<1>1. payload \in Payloads
  BY DEF Payloads
<1>2. TypeOK'
  BY <1>1, CarryOutEffect DEF Inv, TypeOK, LocalCommand, CountCommand, topicVars
<1>3. TopicsFollow'
  BY DEF Inv, TopicsFollow, LocalCommand, topicVars
<1>4. InboxOK'
  BY DEF Inv, InboxOK, LocalCommand
<1>5. PatientOverrideHolds'
  BY <1>1, CarryOutEffect
     DEF Inv, PatientOverrideHolds, LastOverrideHolds, LocalCommand
<1>6. QED
  BY <1>2, <1>3, <1>4, <1>5 DEF Inv

LEMMA PublishCommandKeepsInv ==
  ASSUME Inv, NEW payload \in Rates \union {"auto", "other"},
         PublishCommand(payload)
  PROVE  Inv'
<1> DEFINE message == [payload |-> payload, echo |-> FALSE]
<1>1. message \in Messages
  BY DEF Messages, Payloads
<1>2. TypeOK'
  BY <1>1 DEF Inv, TypeOK, PublishCommand, CountCommand, uartVars, topicVars,
     Ready
<1>3. TopicsFollow'
  BY DEF Inv, TopicsFollow, PublishCommand, topicVars
<1>4. InboxOK'
  <2> SUFFICES ASSUME Patient
               PROVE  \A i \in DOMAIN inbox' :
                        EchoOK(inbox[i])' /\ CommandOK(inbox[i])'
    BY DEF InboxOK
  <2>1. Ready /\ publishedBaud = BaudText /\ inbox = <<>>
    BY DEF PublishCommand
  <2>2. Ready' /\ (publishedBaud = BaudText)'
    BY <2>1 DEF PublishCommand, Ready, BaudText, uartVars, topicVars
  <2>3. inbox' = Append(inbox, message)
    BY DEF PublishCommand
  <2> HIDE DEF message
  <2>4. Len(inbox') = 1 /\ DOMAIN inbox' = {1} /\ inbox'[1] = message
    BY <1>1, <2>1, <2>3
  <2>5. ~message.echo
    BY Zenon DEF message
  <2>6. QED
    BY <2>2, <2>4, <2>5 DEF EchoOK, CommandOK
<1>5. PatientOverrideHolds'
  BY DEF Inv, PatientOverrideHolds, LastOverrideHolds, PublishCommand, Ready,
     uartVars
<1>6. QED
  BY <1>2, <1>3, <1>4, <1>5 DEF Inv

\* To a patient operator's bridge an echo changes nothing, and after a command
\* the inbox is empty.
LEMMA OnMessageKeepsInv == Inv /\ OnMessage => Inv'
<1> SUFFICES ASSUME Inv, OnMessage PROVE Inv'
  OBVIOUS
<1>1. PICK message \in Messages : message = Head(inbox)
  BY DEF Inv, TypeOK, OnMessage
<1>2. /\ CarryOut(message.payload)
      /\ inbox' = Tail(inbox)
      /\ lastCommand' = IF ~message.echo /\ IsCommand(message.payload)
                        THEN message.payload ELSE lastCommand
      /\ UNCHANGED <<link, topicVars, commands, faults>>
      /\ inbox # <<>>
  BY <1>1 DEF OnMessage
<1>3. message.payload \in Payloads /\ message.echo \in BOOLEAN
  BY <1>1 DEF Messages
<1>4. TypeOK'
  <2>1. lastCommand' \in Rates \union {"none", "auto"}
    BY <1>2, <1>3 DEF Inv, TypeOK, IsCommand
  <2>2. inbox' \in Seq(Messages)
    BY <1>2 DEF Inv, TypeOK
  <2>3. QED
    BY <1>2, <1>3, <2>1, <2>2, CarryOutEffect DEF Inv, TypeOK, topicVars
<1>5. TopicsFollow'
  BY <1>2 DEF Inv, TopicsFollow, topicVars
<1>6. InboxOK' /\ PatientOverrideHolds'
  <2>1. CASE ~Patient
    BY <2>1 DEF InboxOK, PatientOverrideHolds
  <2>2. CASE Patient /\ ~message.echo
    <3>1. Len(inbox) = 1
      BY <1>1, <1>2, <2>2 DEF Inv, TypeOK, InboxOK, CommandOK
    <3>2. inbox' = <<>>
      BY <1>2, <3>1 DEF Inv, TypeOK
    <3>3. LastOverrideHolds'
      <4>1. CASE message.payload \in Rates
        BY <1>2, <1>3, <2>2, <4>1, CarryOutEffect
           DEF Inv, LastOverrideHolds, IsCommand
      <4>2. CASE message.payload = "auto"
        BY <1>2, <2>2, <4>2 DEF LastOverrideHolds, IsCommand
      <4>3. CASE message.payload \in {"detecting", "other"}
        BY <1>2, <1>3, <2>2, <4>3, CarryOutEffect
           DEF Inv, LastOverrideHolds, PatientOverrideHolds, IsCommand,
               uartVars, Ready
      <4>4. QED
        BY <1>3, <4>1, <4>2, <4>3 DEF Payloads
    <3>4. QED
      BY <3>2, <3>3 DEF InboxOK, PatientOverrideHolds
  <2>3. CASE Patient /\ message.echo
    <3>1. EchoOK(message)
      BY <1>1, <1>2, <2>3 DEF Inv, TypeOK, InboxOK
    <3>2. UNCHANGED uartVars
      <4>1. CASE message.payload = "detecting"
        BY <1>2, <1>3, <4>1, CarryOutEffect DEF Inv
      <4>2. CASE Ready /\ message.payload = currentBaud
        BY <1>2, <1>3, <4>2, CarryOutEffect DEF Inv, TypeOK
      <4>3. QED
        BY <2>3, <3>1, <4>1, <4>2 DEF EchoOK
    <3>3. PatientOverrideHolds'
      BY <1>2, <2>3, <3>2
         DEF Inv, PatientOverrideHolds, LastOverrideHolds, Ready, uartVars
    <3>4. ASSUME NEW i \in DOMAIN inbox'
          PROVE  EchoOK(inbox[i])' /\ CommandOK(inbox[i])'
      <4>1. i + 1 \in DOMAIN inbox /\ inbox'[i] = inbox[i + 1]
        BY <1>2 DEF Inv, TypeOK
      <4>2. Len(inbox) # 1
        BY <1>2, <4>1 DEF Inv, TypeOK
      <4>3. EchoOK(inbox[i + 1]) /\ CommandOK(inbox[i + 1])
        BY <2>3, <4>1 DEF Inv, InboxOK
      <4>4. inbox[i + 1].echo
        BY <4>2, <4>3 DEF CommandOK
      <4>5. QED
        BY <3>2, <4>1, <4>3, <4>4 DEF EchoOK, CommandOK, Ready, uartVars
    <3>5. QED
      BY <3>3, <3>4 DEF InboxOK
  <2>4. QED
    BY <1>3, <2>1, <2>2, <2>3
<1>7. QED
  BY <1>4, <1>5, <1>6 DEF Inv

-----------------------------------------------------------------------------
(* The service and the broker.                                             *)

LEMMA ConnectKeepsInv == Inv /\ Connect => Inv'
<1> SUFFICES ASSUME Inv, Connect PROVE Inv'
  OBVIOUS
<1>1. inbox' = <<>>
  BY DEF Connect, Retained
<1>2. TypeOK'
  <2>1. torn' \in BOOLEAN
    BY Zenon DEF Connect
  <2>2. inbox' \in Seq(Messages)
    BY <1>1
  <2>3. link' = "up" /\ setTopic' \in Texts /\ publishedBaud' \in Texts
    BY DEF Connect, Texts
  <2>4. UNCHANGED <<uartVars, stateTopic, commands, faults, lastCommand>>
    BY DEF Connect
  <2>5. QED
    BY <2>1, <2>2, <2>3, <2>4 DEF Inv, TypeOK, uartVars, Ready
<1>3. TopicsFollow' /\ InboxOK'
  BY <1>1 DEF TopicsFollow, InboxOK, Connect
<1>4. PatientOverrideHolds'
  BY DEF Inv, PatientOverrideHolds, LastOverrideHolds, Connect, Ready, uartVars
<1>5. QED
  BY <1>2, <1>3, <1>4 DEF Inv

LEMMA LinkKeepsInv == Inv /\ (LinkDies \/ Disconnect) => Inv'
<1> SUFFICES ASSUME Inv, LinkDies \/ Disconnect PROVE Inv'
  OBVIOUS
<1>1. UNCHANGED <<uartVars, topicVars, lastCommand>> /\ link' # "up"
  BY DEF LinkDies, Disconnect
<1>2. inbox' = inbox \/ inbox' = <<>>
  BY DEF LinkDies, Disconnect
<1>3. TypeOK'
  <2>1. faults' \in 0..MaxFaults
    BY DEF Inv, TypeOK, LinkDies, Disconnect, Fault
  <2>2. inbox' \in Seq(Messages)
    <3>1. inbox \in Seq(Messages) /\ <<>> \in Seq(Messages)
      BY DEF Inv, TypeOK
    <3>2. QED
      BY <1>2, <3>1, Zenon
  <2>3. link' \in {"down", "dead"} /\ commands' = commands
    BY DEF LinkDies, Disconnect
  <2>4. UNCHANGED <<stateTopic, setTopic, publishedBaud>>
    BY <1>1 DEF topicVars
  <2>5. torn' = torn
    BY <1>1, Zenon DEF topicVars
  <2>6. torn' \in BOOLEAN
    BY <2>5, Zenon DEF Inv, TypeOK
  <2>7. QED
    BY <1>1, <2>1, <2>2, <2>3, <2>4, <2>6 DEF Inv, TypeOK, uartVars, Ready
<1>4. TopicsFollow'
  BY <1>1 DEF TopicsFollow
<1>5. InboxOK'
  BY <1>1, <1>2
     DEF Inv, InboxOK, EchoOK, CommandOK, Ready, BaudText, uartVars, topicVars
<1>6. PatientOverrideHolds'
  BY <1>1
     DEF Inv, PatientOverrideHolds, LastOverrideHolds, Ready, uartVars
<1>7. QED
  BY <1>3, <1>4, <1>5, <1>6 DEF Inv

\* A publication puts an echo of the current rate behind older echoes: there
\* is no command in the inbox, or there would be nothing to publish.
LEMMA PublishKeepsInv == Inv /\ PublishBaudState => Inv'
<1> SUFFICES ASSUME Inv, PublishBaudState PROVE Inv'
  OBVIOUS
<1> DEFINE message == [payload |-> BaudText, echo |-> TRUE]
<1>1. message \in Messages /\ BaudText \in Texts /\ BaudText # "none"
  BY BaudTextType DEF Inv, Messages
<1>2. UNCHANGED uartVars /\ link' = link /\ UNCHANGED lastCommand
  BY DEF PublishBaudState
<1>3. BaudText' = BaudText /\ Ready' = Ready
  BY <1>2 DEF BaudText, Ready, uartVars
<1>4. \/ link = "up" /\ inbox' = Append(inbox, message)
      \/ inbox' = inbox
  BY DEF PublishBaudState, Delivered
<1>5. TypeOK'
  <2>1. inbox' \in Seq(Messages)
    BY <1>1, <1>4 DEF Inv, TypeOK
  <2>2. stateTopic' \in Texts /\ setTopic' \in Texts
    BY <1>1 DEF Inv, TypeOK, PublishBaudState, Delivered
  <2>3. QED
    BY <1>1, <1>2, <2>1, <2>2 DEF Inv, TypeOK, PublishBaudState, uartVars, Ready
<1>6. TopicsFollow'
  BY DEF TopicsFollow, PublishBaudState, Delivered
<1>7. InboxOK'
  <2> SUFFICES ASSUME Patient, NEW i \in DOMAIN inbox'
               PROVE  EchoOK(inbox[i])' /\ CommandOK(inbox[i])'
    BY DEF InboxOK
  <2>1. \/ i \in DOMAIN inbox /\ inbox'[i] = inbox[i]
        \/ inbox'[i] = message
    BY <1>4 DEF Inv, TypeOK
  <2>2. CASE i \in DOMAIN inbox /\ inbox'[i] = inbox[i]
    <3>1. EchoOK(inbox[i]) /\ CommandOK(inbox[i])
      BY <2>2 DEF Inv, InboxOK
    <3>2. inbox[i].echo
      BY <3>1 DEF CommandOK, PublishBaudState, Due
    <3>3. QED
      BY <1>2, <2>2, <3>1, <3>2 DEF EchoOK, CommandOK, Ready, uartVars
  <2>3. CASE inbox'[i] = message
    BY <1>2, <2>3 DEF EchoOK, CommandOK, BaudText, Ready, uartVars
  <2>4. QED
    BY <2>1, <2>2, <2>3
<1>8. PatientOverrideHolds'
  BY <1>2 DEF Inv, PatientOverrideHolds, LastOverrideHolds, Ready, uartVars
<1>9. QED
  BY <1>5, <1>6, <1>7, <1>8 DEF Inv

LEMMA PublishHalfKeepsInv == Inv /\ PublishBaudStateHalf => Inv'
<1> SUFFICES ASSUME Inv, PublishBaudStateHalf PROVE Inv'
  OBVIOUS
<1>1. TypeOK'
  BY BaudTextType
     DEF Inv, TypeOK, PublishBaudStateHalf, Fault, uartVars, Ready
<1>2. TopicsFollow'
  BY DEF Inv, TopicsFollow, PublishBaudStateHalf
<1>3. InboxOK'
  BY DEF Inv, InboxOK, EchoOK, CommandOK, PublishBaudStateHalf, Ready,
     BaudText, uartVars
<1>4. PatientOverrideHolds'
  BY DEF Inv, PatientOverrideHolds, LastOverrideHolds, PublishBaudStateHalf,
     Ready, uartVars
<1>5. QED
  BY <1>1, <1>2, <1>3, <1>4 DEF Inv

LEMMA StutterKeepsInv == Inv /\ UNCHANGED vars => Inv'
BY DEF Inv, TypeOK, TopicsFollow, InboxOK, EchoOK, CommandOK, BaudText, Ready,
       PatientOverrideHolds, LastOverrideHolds, vars, uartVars, topicVars

LEMMA NextKeepsInv == Inv /\ [Next]_vars => Inv'
<1> SUFFICES ASSUME Inv, [Next]_vars PROVE Inv'
  OBVIOUS
<1>1. CASE Detection
  BY <1>1, DetectionKeepsInv
<1>2. CASE Operator
  BY <1>2, LocalCommandKeepsInv, PublishCommandKeepsInv DEF Operator
<1>3. CASE Mqtt
  BY <1>3, OnMessageKeepsInv, ConnectKeepsInv, LinkKeepsInv, PublishKeepsInv,
     PublishHalfKeepsInv, StutterKeepsInv DEF Mqtt, MirrorDone
<1>4. QED
  BY <1>1, <1>2, <1>3, StutterKeepsInv DEF Next

LEMMA Invariance == Spec => []Inv
BY InitInv, NextKeepsInv, PTL DEF Spec

-----------------------------------------------------------------------------
\* Every variable keeps its type; the rotation never leaves the list of
\* candidates (startCurrentBaudCandidate).
THEOREM TypeCorrect == Spec => []TypeOK
<1>1. Inv => TypeOK
  BY DEF Inv
<1>2. QED
  BY Invariance, <1>1, PTL

\* With nothing to publish, both retained topics hold the applied rate.
THEOREM TopicsAgree == Spec => []MirrorAgrees
<1>1. Inv => MirrorAgrees
  BY BaudTextType DEF Inv, TopicsFollow, MirrorAgrees, Due
<1>2. QED
  BY Invariance, <1>1, PTL

\* A patient operator's override stays in force until the next command.
THEOREM OverrideHolds == Spec => []PatientOverrideHolds
<1>1. Inv => PatientOverrideHolds
  BY DEF Inv
<1>2. QED
  BY Invariance, <1>1, PTL
=============================================================================
