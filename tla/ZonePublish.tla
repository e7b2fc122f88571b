---------------------------- MODULE ZonePublish ----------------------------
(***************************************************************************)
(* How the state of the zones reaches the broker.  Gc2State keeps one      *)
(* record per zone, stamps it with a revision when it changes and queues   *)
(* every open/close transition; MqttService::publishNext publishes one     *)
(* message at a time: the transitions first and in order, then the         *)
(* deletion of disabled zones, then the zones whose revision it has not    *)
(* published.  A connection may die silently: publish() then reports       *)
(* success for messages the broker never sees.                             *)
(*                                                                         *)
(* Of a zone's fields the model keeps the two that different writers       *)
(* contend for: open (live lines, packets and the zones poll) and tamper   *)
(* (live lines, packets and the trouble poll).  Battery, supervision and   *)
(* bypass are written by the same pattern; last_seen_ms is never a reason  *)
(* to publish.  The other topics of publishNext only delay the zones.      *)
(***************************************************************************)
EXTENDS Integers, Sequences

CONSTANTS
  Zones,                       \* 1..74 in the code; no order matters here
  FirstRun,                    \* whether the broker starts with nothing retained
  MaxQueuedZoneTransitions,    \* kMaxQueuedZoneTransitions
  MaxRevision,                 \* bound: no console line makes a later revision
  MaxFaults                    \* bound: broken links and rejected messages

ASSUME QueueAssumption == MaxQueuedZoneTransitions \in Nat \ {0}
ASSUME BoundsAssumption == MaxRevision \in Nat /\ MaxFaults \in Nat

VARIABLES
  zone,               \* zones_
  nextRevision,       \* nextRevision_
  transitions,        \* zoneTransitions_, each with its number
  dropped,            \* droppedEventCount_, as far as transitions go
  link,               \* "down"; "up"; "dead": up, but nothing arrives
  cleanup,            \* the cleanup stages or the manifest are still to come
  publishedRevision,  \* publishedZoneRevision_
  publishedMetadata,  \* publishedZoneMetadataRevision_
  broker,             \* the retained message of each zone's topic, if any
  faults,             \* how many faults the links had
  \* What follows is history, read by no handler.
  occurred,           \* how many transitions there were
  published,          \* how many publish() reported as published
  lost                \* the zones of which a transition was dropped since their
                      \* record was last published as it was, or connected

zoneVars == <<zone, nextRevision, transitions, dropped, occurred>>
mqttVars == <<link, cleanup, publishedRevision, publishedMetadata, broker,
              faults, published>>
vars == <<zoneVars, mqttVars, lost>>

-----------------------------------------------------------------------------
\* at is the number of the transition that set open, kept as history.
ZoneRecords ==
  [discovered : BOOLEAN, metadataKnown : BOOLEAN, active : BOOLEAN,
   stateKnown : BOOLEAN, open : BOOLEAN, at : Nat,
   troubleKnown : BOOLEAN, tamper : BOOLEAN,
   revision : Nat, metadataRevision : Nat]

NewZone ==
  [discovered |-> FALSE, metadataKnown |-> FALSE, active |-> FALSE,
   stateKnown |-> FALSE, open |-> FALSE, at |-> 0,
   troubleKnown |-> FALSE, tamper |-> FALSE,
   revision |-> 0, metadataRevision |-> 0]

Transitions == [zone : Zones, open : BOOLEAN, id : Nat]

Messages == [known : BOOLEAN, open : BOOLEAN, at : Int, tamper : BOOLEAN]

\* What an earlier run of the bridge left at the broker for every zone, unless
\* this is the first run: a state that no longer holds.
Leftover == [known |-> TRUE, open |-> TRUE, at |-> -1, tamper |-> FALSE]

TypeOK ==
  /\ zone \in [Zones -> ZoneRecords]
  /\ nextRevision \in Nat
  /\ transitions \in Seq(Transitions)
  /\ Len(transitions) <= MaxQueuedZoneTransitions
  /\ dropped \in Nat
  /\ link \in {"down", "up", "dead"}
  /\ cleanup \in BOOLEAN
  /\ publishedRevision \in [Zones -> Nat]
  /\ publishedMetadata \in [Zones -> Nat]
  /\ broker \in [Zones -> SUBSET Messages]
  /\ faults \in 0..MaxFaults
  /\ occurred \in Nat
  /\ published \in Nat
  /\ lost \subseteq Zones

Init ==
  /\ zone = [z \in Zones |-> NewZone]
  /\ nextRevision = 1
  /\ transitions = <<>>
  /\ dropped = 0
  /\ link = "down"
  /\ cleanup = TRUE
  /\ publishedRevision = [z \in Zones |-> 0]
  /\ publishedMetadata = [z \in Zones |-> 0]
  /\ broker = [z \in Zones |-> IF FirstRun THEN {} ELSE {Leftover}]
  /\ faults = 0
  /\ occurred = 0
  /\ published = 0
  /\ lost = {}

-----------------------------------------------------------------------------
(* Gc2State: what a console line does to the record of a zone.  revision   *)
(* is the number newRevision() would give; records that change in one step *)
(* share it, because revisions of different zones are never compared.      *)

NewRevision == nextRevision + 1

StateChanges(record, open) == ~record.stateKnown \/ record.open # open

\* recordZoneState: the zone is discovered even when nothing changed.
StateRecorded(record, open) ==
  IF StateChanges(record, open)
  THEN [record EXCEPT !.discovered = TRUE, !.stateKnown = TRUE, !.open = open,
                      !.revision = NewRevision, !.at = occurred + 1]
  ELSE [record EXCEPT !.discovered = TRUE]

TamperChanges(record, tampered) ==
  ~record.troubleKnown \/ record.tamper # tampered

\* recordZoneTamper.
TamperRecorded(record, tampered) ==
  IF TamperChanges(record, tampered)
  THEN [record EXCEPT !.discovered = TRUE, !.troubleKnown = TRUE,
                      !.tamper = tampered, !.revision = NewRevision]
  ELSE [record EXCEPT !.discovered = TRUE]

\* recordZoneTrouble: a zone that is not discovered changes without a revision.
TroubleRecorded(record, tampered) ==
  [record EXCEPT
     !.troubleKnown = TRUE, !.tamper = tampered,
     !.revision = IF TamperChanges(record, tampered) /\ record.discovered
                  THEN NewRevision ELSE @]

\* recordZonePacket: a new revision whatever the packet says.  opens is empty
\* when no loop bit can be trusted, tampers when no input is programmed.
PacketRecorded(record, opens, tampers) ==
  LET seen == [record EXCEPT !.discovered = TRUE, !.revision = NewRevision]
      opened == IF opens = {} THEN seen
                ELSE StateRecorded(seen, TRUE \in opens)
  IN  IF tampers = {} THEN opened ELSE TamperRecorded(opened, TRUE \in tampers)

\* recordZoneConfiguration; renamed: a field the model leaves out differs.
ConfigurationRecorded(record, active, renamed) ==
  IF \/ ~record.metadataKnown
     \/ record.discovered # active
     \/ record.active # active
     \/ renamed
  THEN [record EXCEPT !.metadataKnown = TRUE, !.discovered = active,
                      !.active = active, !.revision = NewRevision,
                      !.metadataRevision = NewRevision]
  ELSE record

\* newRevision() ran if some record carries a new revision; the bound is here.
CountRevision ==
  /\ nextRevision' = IF \E z \in Zones : zone'[z].revision # zone[z].revision
                     THEN NewRevision ELSE nextRevision
  /\ nextRevision' <= MaxRevision

\* A mutant: a full queue refuses the newest transition.
DropNewestTransition(z, open) ==
  /\ occurred' = occurred + 1
  /\ IF Len(transitions) >= MaxQueuedZoneTransitions
     THEN dropped' = dropped + 1 /\ UNCHANGED <<transitions, lost>>
     ELSE /\ transitions' =
               Append(transitions, [zone |-> z, open |-> open, id |-> occurred'])
          /\ UNCHANGED <<dropped, lost>>

\* A mutant: the queue holds one transition more than there is room for.
QueueOneMore(z, open) ==
  LET new == [zone |-> z, open |-> open, id |-> occurred + 1]
  IN  /\ occurred' = occurred + 1
      /\ IF Len(transitions) > MaxQueuedZoneTransitions
         THEN /\ transitions' = Append(Tail(transitions), new)
              /\ dropped' = dropped + 1
              /\ lost' = lost \union {Head(transitions).zone}
         ELSE /\ transitions' = Append(transitions, new)
              /\ UNCHANGED <<dropped, lost>>

\* queueZoneTransition: a full queue forgets its oldest transition.
QueueZoneTransition(z, open) ==
  LET new == [zone |-> z, open |-> open, id |-> occurred + 1]
  IN  /\ occurred' = occurred + 1
      /\ IF Len(transitions) >= MaxQueuedZoneTransitions
         THEN /\ transitions' = Append(Tail(transitions), new)
              /\ dropped' = dropped + 1
              /\ lost' = lost \union {Head(transitions).zone}
         ELSE /\ transitions' = Append(transitions, new)
              /\ UNCHANGED <<dropped, lost>>

NoTransition == UNCHANGED <<transitions, dropped, occurred, lost>>

\* Live lines of the sensor layer and the alarm engine, and the zones poll.
RecordZoneState(z, open) ==
  /\ UNCHANGED mqttVars
  /\ zone' = [zone EXCEPT ![z] = StateRecorded(@, open)]
  /\ CountRevision
  /\ IF StateChanges(zone[z], open)
     THEN QueueZoneTransition(z, open)
     ELSE NoTransition

\* Live tamper lines and live changes of the trouble memory.
RecordZoneTamper(z, tampered) ==
  /\ UNCHANGED mqttVars
  /\ zone' = [zone EXCEPT ![z] = TamperRecorded(@, tampered)]
  /\ CountRevision
  /\ NoTransition

\* A packet of the sensor layer; the input is programmed by zone_info.
RecordZonePacket(z, opens, tampers) ==
  /\ UNCHANGED mqttVars
  /\ tampers # {} => zone[z].metadataKnown
  /\ zone' = [zone EXCEPT ![z] = PacketRecorded(@, opens, tampers)]
  /\ CountRevision
  /\ IF opens # {} /\ StateChanges(zone[z], TRUE \in opens)
     THEN QueueZoneTransition(z, TRUE \in opens)
     ELSE NoTransition

\* finishTroubleSnapshot writes every zone, listed in the table or not.
FinishTroubleSnapshot(tampered) ==
  /\ UNCHANGED mqttVars
  /\ zone' = [z \in Zones |-> TroubleRecorded(zone[z], z \in tampered)]
  /\ CountRevision
  /\ NoTransition

\* A row of zone_info.
RecordZoneConfiguration(z, active, renamed) ==
  /\ UNCHANGED mqttVars
  /\ zone' = [zone EXCEPT ![z] = ConfigurationRecorded(@, active, renamed)]
  /\ CountRevision
  /\ NoTransition

ConsoleLine ==
  \/ \E z \in Zones :
       \/ \E open \in BOOLEAN : RecordZoneState(z, open)
       \/ \E tampered \in BOOLEAN : RecordZoneTamper(z, tampered)
       \/ \E opens, tampers \in {{}, {TRUE}, {FALSE}} :
            RecordZonePacket(z, opens, tampers)
       \/ \E active, renamed \in BOOLEAN :
            RecordZoneConfiguration(z, active, renamed)
  \/ \E tampered \in SUBSET Zones : FinishTroubleSnapshot(tampered)

-----------------------------------------------------------------------------
(* MqttService: the connection.                                            *)

Fault == faults < MaxFaults /\ faults' = faults + 1

\* markAllForRepublish.
MarkAllForRepublish ==
  /\ zone' = [z \in Zones |->
                IF zone[z].discovered
                THEN [zone[z] EXCEPT !.revision = NewRevision] ELSE zone[z]]
  /\ nextRevision' = NewRevision
  /\ UNCHANGED <<transitions, dropped, occurred>>
  /\ lost' = {}

\* A mutant: a new connection remembers what the old one deleted.
ConnectKeepsDeletions ==
  /\ link = "down"
  /\ link' = "up"
  /\ cleanup' = TRUE
  /\ publishedRevision' = [z \in Zones |-> 0]
  /\ MarkAllForRepublish
  /\ UNCHANGED <<publishedMetadata, broker, faults, published>>

\* connectIfNeeded, when the broker accepts, with resetPublishTracking.
Connect ==
  /\ link = "down"
  /\ link' = "up"
  /\ cleanup' = TRUE
  /\ publishedRevision' = [z \in Zones |-> 0]
  /\ publishedMetadata' = [z \in Zones |-> 0]
  /\ MarkAllForRepublish
  /\ UNCHANGED <<broker, faults, published>>

\* From here on publish() succeeds and nothing arrives.
LinkDies ==
  /\ link = "up"
  /\ Fault
  /\ link' = "dead"
  /\ UNCHANGED <<zoneVars, cleanup, publishedRevision, publishedMetadata,
                 broker, published, lost>>

\* The client notices: a failed write, a missing ping response, no Wi-Fi.
Disconnect ==
  /\ \/ link = "dead" /\ UNCHANGED faults
     \/ link = "up" /\ Fault
  /\ link' = "down"
  /\ UNCHANGED <<zoneVars, cleanup, publishedRevision, publishedMetadata,
                 broker, published, lost>>

\* "online" on homeassistant/status: the cleanup starts over.
HomeAssistantOnline ==
  /\ link = "up"
  /\ Fault
  /\ cleanup' = TRUE
  /\ UNCHANGED <<zoneVars, link, publishedRevision, publishedMetadata,
                 broker, published, lost>>

-----------------------------------------------------------------------------
(* MqttService::publishNext.                                               *)

Connected == link \in {"up", "dead"}

\* publishZoneState: the record's own state, or the one of a transition.
ZoneMessage(z, known, open, at) ==
  [known |-> known, open |-> open, at |-> at, tamper |-> zone[z].tamper]

Snapshot(z) == ZoneMessage(z, zone[z].stateKnown, zone[z].open, zone[z].at)

Overridden(z, transition) == ZoneMessage(z, TRUE, transition.open, transition.id)

\* publish() as the caller sees it: ok is the value returned.  A message of
\* two parts may fail after the first was delivered.
Publish(z, message, ok) ==
  /\ \/ ok /\ UNCHANGED faults
     \/ ~ok /\ Fault
  /\ \/ link = "up" /\ broker' = [broker EXCEPT ![z] = message]
     \/ (~ok \/ link = "dead") /\ UNCHANGED broker

PublishCleanup ==
  /\ Connected
  /\ cleanup
  /\ cleanup' = FALSE
  /\ UNCHANGED <<zoneVars, link, publishedRevision, publishedMetadata,
                 broker, faults, published, lost>>

\* A mutant: the transition is popped although it was not published.
PublishTransitionOnce(ok) ==
  LET transition == Head(transitions)
      z == transition.zone
  IN  /\ Connected /\ ~cleanup
      /\ transitions # <<>>
      /\ Publish(z, {Overridden(z, transition)}, ok)
      /\ transitions' = Tail(transitions)
      /\ published' = IF ok THEN published + 1 ELSE published
      /\ UNCHANGED <<zone, nextRevision, dropped, occurred, link, cleanup,
                     publishedRevision, publishedMetadata, lost>>

PublishTransition(ok) ==
  LET transition == Head(transitions)
      z == transition.zone
  IN  /\ Connected /\ ~cleanup
      /\ transitions # <<>>
      /\ Publish(z, {Overridden(z, transition)}, ok)
      /\ IF ok
         THEN /\ transitions' = Tail(transitions)
              /\ published' = published + 1
              /\ publishedRevision' =
                   IF zone[z].open = transition.open
                   THEN [publishedRevision EXCEPT ![z] = zone[z].revision]
                   ELSE publishedRevision
         ELSE UNCHANGED <<transitions, published, publishedRevision>>
      /\ UNCHANGED <<zone, nextRevision, dropped, occurred, link, cleanup,
                     publishedMetadata, lost>>

ToDelete(z) ==
  /\ zone[z].metadataKnown
  /\ ~zone[z].discovered
  /\ publishedMetadata[z] # zone[z].metadataRevision

DeleteDisabledZone(z, ok) ==
  /\ Connected /\ ~cleanup
  /\ transitions = <<>>
  /\ ToDelete(z)
  /\ Publish(z, {}, ok)
  /\ IF ok
     THEN /\ publishedMetadata' =
               [publishedMetadata EXCEPT ![z] = zone[z].metadataRevision]
          /\ publishedRevision' =
               [publishedRevision EXCEPT ![z] = zone[z].revision]
          /\ lost' = lost \ {z}
     ELSE UNCHANGED <<publishedMetadata, publishedRevision, lost>>
  /\ UNCHANGED <<zoneVars, link, cleanup, published>>

ToPublish(z) ==
  zone[z].discovered /\ publishedRevision[z] # zone[z].revision

\* A mutant: the current state is published ahead of older transitions.
RepublishBeforeTransitions(z, ok) ==
  /\ Connected /\ ~cleanup
  /\ ToPublish(z)
  /\ Publish(z, {Snapshot(z)}, ok)
  /\ publishedRevision' = IF ok
       THEN [publishedRevision EXCEPT ![z] = zone[z].revision]
       ELSE publishedRevision
  /\ UNCHANGED <<zoneVars, link, cleanup, publishedMetadata, published, lost>>

\* A mutant: what was published is not remembered.
RepublishForgotten(z, ok) ==
  /\ Connected /\ ~cleanup
  /\ transitions = <<>>
  /\ \A y \in Zones : ~ToDelete(y)
  /\ ToPublish(z)
  /\ Publish(z, {Snapshot(z)}, ok)
  /\ UNCHANGED <<zoneVars, link, cleanup, publishedRevision,
                 publishedMetadata, published, lost>>

RepublishZone(z, ok) ==
  /\ Connected /\ ~cleanup
  /\ transitions = <<>>
  /\ \A y \in Zones : ~ToDelete(y)
  /\ ToPublish(z)
  /\ Publish(z, {Snapshot(z)}, ok)
  /\ IF ok
     THEN /\ publishedRevision' =
               [publishedRevision EXCEPT ![z] = zone[z].revision]
          /\ lost' = lost \ {z}
     ELSE UNCHANGED <<publishedRevision, lost>>
  /\ UNCHANGED <<zoneVars, link, cleanup, publishedMetadata, published>>

\* Nothing left to publish about the zones: diagnostics and events follow.
ZonesDone ==
  /\ Connected /\ ~cleanup
  /\ transitions = <<>>
  /\ \A z \in Zones : ~ToDelete(z) /\ ~ToPublish(z)
  /\ UNCHANGED vars

PublishNext(ok) ==
  \/ PublishTransition(ok)
  \/ \E z \in Zones : DeleteDisabledZone(z, ok) \/ RepublishZone(z, ok)

-----------------------------------------------------------------------------
Next ==
  \/ ConsoleLine
  \/ Connect \/ LinkDies \/ Disconnect \/ HomeAssistantOnline
  \/ PublishCleanup
  \/ \E ok \in BOOLEAN : PublishNext(ok)
  \/ ZonesDone

Spec == Init /\ [][Next]_vars

(***************************************************************************)
(* loop() calls connectIfNeeded every kMqttReconnectDelayMs while there is *)
(* no connection and publishNext every kMqttPublishIntervalMs while there  *)
(* is one; the keepalive of 30 seconds ends a connection that is dead.     *)
(***************************************************************************)
Fairness ==
  /\ WF_vars(Connect)
  /\ WF_vars(Disconnect /\ link = "dead")
  /\ WF_vars(PublishCleanup)
  /\ WF_vars(PublishNext(TRUE))

FairSpec == Spec /\ Fairness
-----------------------------------------------------------------------------
(* Correctness.                                                            *)

Pending(z) == \E i \in DOMAIN transitions : transitions[i].zone = z

\* The newest queued transition of a zone says what its record says, so that
\* publishing the queue leaves the broker with the current state, however
\* many transitions a full queue has lost (queueZoneTransition).
LastTransitionIsCurrent ==
  \A i \in DOMAIN transitions :
    (\A j \in DOMAIN transitions :
        transitions[j].zone = transitions[i].zone => j <= i)
      => /\ transitions[i].open = zone[transitions[i].zone].open
         /\ transitions[i].id = zone[transitions[i].zone].at

\* Gc2State.h: "Every zone open/close transition is queued in order".  Each
\* was published, is queued, or is counted as dropped, and those queued are
\* the latest ones without a gap, across failures and reconnects.
TransitionsAccounted ==
  /\ occurred = published + dropped + Len(transitions)
  /\ \A i \in DOMAIN transitions :
       transitions[i].id = occurred - Len(transitions) + i

\* Once a zone has nothing left to publish on a working connection, the
\* retained message of its topic is the state of the zone, or it is gone if
\* the last programming poll disabled the zone and no line mentioned it
\* since; whatever earlier connections and earlier runs left there, and for
\* every zone that lost no transition to a full queue (publishNext).
InInventory(z) ==
  /\ zone[z].discovered
  /\ zone[z].metadataKnown => zone[z].active
  /\ zone[z].revision # 0

IsDeleted(z) ==
  /\ zone[z].metadataKnown
  /\ ~zone[z].discovered
  /\ ~ToDelete(z)

Mirrored ==
  \A z \in Zones \ lost : link = "up" /\ ~Pending(z) =>
    /\ InInventory(z) /\ ~ToPublish(z) => broker[z] = {Snapshot(z)}
    /\ IsDeleted(z) => broker[z] = {}

\* README.md:239: "Each transition is queued and published in order", with the
\* zones poll as "the reconciliation source": once nothing is left to publish,
\* the broker shows the state of the zone, whatever the queue has dropped.
MirroredDespiteDrops ==
  \A z \in Zones :
    /\ link = "up" /\ ~Pending(z)
    /\ InInventory(z) /\ ~ToPublish(z)
    => \A message \in broker[z] : message.open = zone[z].open

\* Home Assistant never sees a zone go back to an older state: the open or
\* closed shown at the broker is at least as recent as the one before it.
ShownNeverRegresses ==
  [][\A z \in Zones : \A old \in broker[z], new \in broker'[z] :
        old.at <= new.at]_vars

\* When lines and faults come to an end, everything gets published.
AllPublished ==
  /\ link = "up"
  /\ transitions = <<>>
  /\ \A z \in Zones : ~ToDelete(z) /\ ~ToPublish(z)

Converges == <>[]AllPublished
=============================================================================
