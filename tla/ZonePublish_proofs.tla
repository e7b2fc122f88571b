------------------------- MODULE ZonePublish_proofs -------------------------
(***************************************************************************)
(* Proofs about ZonePublish, for every set of zones and every length of    *)
(* the queue.  All follow from one inductive invariant, Inv.  Its idea:    *)
(* the transitions in the queue are the latest ones, so that the number of *)
(* the transition that gave a zone its state also says where it is queued. *)
(***************************************************************************)
EXTENDS ZonePublish, TLAPS

\* The number of the transition before the first queued one.
Base == occurred - Len(transitions)

\* Where the transition that gave z its state is in the queue; not there if <= 0.
Place(z) == zone[z].at - Base

\* An undiscovered record is a disabled zone's or was never published.
RecordOK(record) ==
  /\ record.metadataKnown /\ ~record.discovered => ~record.active
  /\ record.metadataKnown => record.metadataRevision # 0
  /\ ~record.metadataKnown /\ ~record.discovered => record.revision = 0

RecordsOK == \A z \in Zones : RecordOK(zone[z])

\* Nobody has seen a revision or a transition that is still to come.
NothingAhead ==
  \A z \in Zones :
    /\ zone[z].revision <= nextRevision
    /\ zone[z].metadataRevision <= nextRevision
    /\ publishedRevision[z] <= nextRevision
    /\ publishedMetadata[z] <= nextRevision
    /\ zone[z].at <= occurred

\* The transition that gave a zone its state is at its place in the queue.
CurrentAtPlace ==
  \A z \in Zones : Place(z) > 0 =>
    /\ transitions[Place(z)].zone = z
    /\ transitions[Place(z)].open = zone[z].open
    /\ zone[z].stateKnown

\* No queued transition is newer than the state of its zone.
QueuedNotNewer ==
  \A i \in DOMAIN transitions :
    transitions[i].id <= zone[transitions[i].zone].at

\* What the broker shows is no newer than the state or anything queued.
ShownOldest ==
  \A z \in Zones : \A message \in broker[z] :
    /\ message.at <= zone[z].at
    /\ \A other \in broker[z] : other = message
    /\ \A i \in DOMAIN transitions :
         transitions[i].zone = z => message.at <= transitions[i].id

\* A zone whose record was deleted waits for no transition, which would bring
\* the record back.
DeletedIsSettled == \A z \in Zones : IsDeleted(z) => ~Pending(z)

Inv ==
  /\ TypeOK
  /\ TransitionsAccounted
  /\ RecordsOK
  /\ NothingAhead
  /\ CurrentAtPlace
  /\ QueuedNotNewer
  /\ ShownOldest
  /\ DeletedIsSettled
  /\ Mirrored

USE QueueAssumption, BoundsAssumption

-----------------------------------------------------------------------------
(* What a console line may do to the record of a zone.                     *)

Inventoried(record) ==
  /\ record.discovered
  /\ record.metadataKnown => record.active
  /\ record.revision # 0

Disabled(record) == record.metadataKnown /\ ~record.discovered

SameShown(old, new) ==
  /\ new.stateKnown = old.stateKnown
  /\ new.open = old.open
  /\ new.at = old.at
  /\ new.tamper = old.tamper

\* The revision stays only if what the broker is to hold stays.
Evolves(old, new) ==
  /\ new \in ZoneRecords
  /\ RecordOK(new)
  /\ old.stateKnown => new.stateKnown
  /\ \/ new.revision = NewRevision
     \/ /\ new.revision = old.revision
        /\ new.metadataRevision = old.metadataRevision
        /\ Inventoried(new) => Inventoried(old) /\ SameShown(old, new)
  /\ \/ new.metadataRevision = NewRevision
     \/ /\ new.metadataRevision = old.metadataRevision
        /\ Disabled(new) => Disabled(old)

KeepsState(old, new) == new.open = old.open /\ new.at = old.at

GetsState(old, new, open) ==
  /\ new.open = open
  /\ new.at = occurred + 1
  /\ new.stateKnown
  /\ new.revision = NewRevision
  /\ Disabled(new) => new.metadataRevision = NewRevision

LEMMA NewRevisionType ==
  ASSUME nextRevision \in Nat
  PROVE  NewRevision \in Nat \ {0}
BY DEF NewRevision

\* recordZoneState gives a record a new state and revision or leaves both.
LEMMA StateEvolves ==
  ASSUME nextRevision \in Nat, occurred \in Nat,
         NEW old \in ZoneRecords, RecordOK(old), NEW open \in BOOLEAN
  PROVE  LET new == StateRecorded(old, open)
         IN  /\ Evolves(old, new)
             /\ StateChanges(old, open) => GetsState(old, new, open)
             /\ ~StateChanges(old, open) => KeepsState(old, new)
<1> DEFINE new == StateRecorded(old, open)
           id == occurred + 1
<1>0. id \in Nat /\ NewRevision \in Nat \ {0}
  BY NewRevisionType
<1>1. CASE StateChanges(old, open)
  <2>1. new = [old EXCEPT !.discovered = TRUE, !.stateKnown = TRUE, !.open = open,
                          !.revision = NewRevision, !.at = id]
    BY <1>1 DEF StateRecorded
  <2> HIDE DEF new, id
  <2>2. new \in ZoneRecords
    BY <1>0, <2>1 DEF ZoneRecords
  <2>3. /\ new.open = open
        /\ new.at = id
        /\ new.revision = NewRevision
    BY <2>1 DEF ZoneRecords
  <2>4. new.stateKnown /\ new.discovered
    BY <2>1 DEF ZoneRecords
  <2>5. /\ new.metadataRevision = old.metadataRevision
        /\ new.metadataKnown = old.metadataKnown
    BY <2>1 DEF ZoneRecords
  <2>6. Evolves(old, new)
    BY <2>2, <2>3, <2>4, <2>5 DEF Evolves, RecordOK, Disabled
  <2> QED BY <1>1, <2>3, <2>4, <2>6 DEF GetsState, Disabled, id, new
<1>2. CASE ~StateChanges(old, open)
  <2>1. new = [old EXCEPT !.discovered = TRUE]
    BY <1>2 DEF StateRecorded
  <2>2. Evolves(old, new) /\ KeepsState(old, new)
    BY <2>1 DEF Evolves, KeepsState, ZoneRecords, RecordOK, Inventoried, Disabled,
                SameShown, NewRevision
  <2> QED BY <1>2, <2>2
<1> QED BY <1>1, <1>2

\* recordZoneTamper leaves open alone.
LEMMA TamperEvolves ==
  ASSUME nextRevision \in Nat,
         NEW old \in ZoneRecords, RecordOK(old), NEW tampered \in BOOLEAN
  PROVE  LET new == TamperRecorded(old, tampered)
         IN  Evolves(old, new) /\ KeepsState(old, new)
<1> DEFINE new == TamperRecorded(old, tampered)
<1>0. NewRevision \in Nat \ {0}
  BY NewRevisionType
<1>1. CASE TamperChanges(old, tampered)
  <2>1. new = [old EXCEPT !.discovered = TRUE, !.troubleKnown = TRUE,
                          !.tamper = tampered, !.revision = NewRevision]
    BY <1>1 DEF TamperRecorded
  <2> HIDE DEF new
  <2>2. new \in ZoneRecords
    BY <1>0, <2>1 DEF ZoneRecords
  <2>3. /\ new.revision = NewRevision
        /\ new.stateKnown = old.stateKnown
        /\ KeepsState(old, new)
        /\ new.metadataRevision = old.metadataRevision
        /\ new.metadataKnown = old.metadataKnown
    BY <2>1 DEF ZoneRecords, KeepsState
  <2>4. new.discovered
    BY <2>1 DEF ZoneRecords
  <2> QED BY <2>2, <2>3, <2>4 DEF Evolves, RecordOK, Disabled, new
<1>2. CASE ~TamperChanges(old, tampered)
  <2>1. new = [old EXCEPT !.discovered = TRUE]
    BY <1>2 DEF TamperRecorded
  <2> QED
    BY <2>1 DEF Evolves, KeepsState, ZoneRecords, RecordOK, Inventoried, Disabled,
                SameShown, NewRevision
<1> QED BY <1>1, <1>2

\* recordZoneTrouble gives a discovered record a new revision if it changes it.
LEMMA TroubleEvolves ==
  ASSUME nextRevision \in Nat,
         NEW old \in ZoneRecords, RecordOK(old), NEW tampered \in BOOLEAN
  PROVE  LET new == TroubleRecorded(old, tampered)
         IN  Evolves(old, new) /\ KeepsState(old, new)
<1> DEFINE new == TroubleRecorded(old, tampered)
           revision == IF TamperChanges(old, tampered) /\ old.discovered
                       THEN NewRevision ELSE old.revision
<1>0. NewRevision \in Nat \ {0}
  BY NewRevisionType
<1>1. new = [old EXCEPT !.troubleKnown = TRUE, !.tamper = tampered,
                        !.revision = revision]
  BY DEF TroubleRecorded
<1>2. revision \in Nat
  BY <1>0 DEF ZoneRecords
<1> HIDE DEF new, revision
<1>3. new \in ZoneRecords
  BY <1>1, <1>2 DEF ZoneRecords
<1>4. /\ new.revision = revision
      /\ new.tamper = tampered
      /\ new.discovered = old.discovered
      /\ new.active = old.active
      /\ new.metadataKnown = old.metadataKnown
      /\ new.metadataRevision = old.metadataRevision
      /\ new.stateKnown = old.stateKnown
      /\ KeepsState(old, new)
  BY <1>1 DEF ZoneRecords, KeepsState
<1>5. CASE TamperChanges(old, tampered) /\ old.discovered
  <2>1. revision = NewRevision
    BY <1>5 DEF revision
  <2> QED BY <1>3, <1>4, <1>5, <2>1 DEF Evolves, RecordOK, Disabled, new
<1>6. CASE ~TamperChanges(old, tampered) /\ old.discovered
  <2>1. revision = old.revision /\ old.tamper = tampered
    BY <1>6 DEF revision, TamperChanges
  <2> QED
    BY <1>3, <1>4, <1>6, <2>1 DEF Evolves, RecordOK, Disabled, Inventoried,
                                  SameShown, KeepsState, new
<1>7. CASE ~old.discovered
  <2>1. revision = old.revision
    BY <1>7 DEF revision
  <2> QED
    BY <1>3, <1>4, <1>7, <2>1 DEF Evolves, RecordOK, Disabled, Inventoried, new
<1> QED BY <1>5, <1>6, <1>7

Readings == {{}, {TRUE}, {FALSE}}

\* recordZonePacket gives a record a new revision, and a new state if it says so.
LEMMA PacketEvolves ==
  ASSUME nextRevision \in Nat, occurred \in Nat,
         NEW old \in ZoneRecords, RecordOK(old),
         NEW opens \in Readings, NEW tampers \in Readings
  PROVE  LET new == PacketRecorded(old, opens, tampers)
             moved == opens # {} /\ StateChanges(old, TRUE \in opens)
         IN  /\ Evolves(old, new)
             /\ moved => GetsState(old, new, TRUE \in opens)
             /\ ~moved => KeepsState(old, new)
<1> DEFINE seen == [old EXCEPT !.discovered = TRUE, !.revision = NewRevision]
           opened == IF opens = {} THEN seen
                     ELSE StateRecorded(seen, TRUE \in opens)
           new == IF tampers = {} THEN opened
                  ELSE TamperRecorded(opened, TRUE \in tampers)
           moved == opens # {} /\ StateChanges(old, TRUE \in opens)
<1>0. NewRevision \in Nat \ {0}
  BY NewRevisionType
<1>1. seen \in ZoneRecords
  BY <1>0 DEF ZoneRecords
<1>2. /\ seen.revision = NewRevision
      /\ seen.metadataRevision = old.metadataRevision
      /\ seen.metadataKnown = old.metadataKnown
      /\ SameShown(old, seen)
  BY DEF ZoneRecords, SameShown
<1>3. seen.discovered
  BY DEF ZoneRecords
<1>4. RecordOK(seen) /\ ~Disabled(seen)
  BY <1>2, <1>3 DEF RecordOK, Disabled
<1> HIDE DEF seen
<1>5. (TRUE \in opens) \in BOOLEAN /\ (TRUE \in tampers) \in BOOLEAN
  OBVIOUS
<1>6. StateChanges(seen, TRUE \in opens) <=> StateChanges(old, TRUE \in opens)
  BY <1>2 DEF StateChanges, SameShown
<1>7. /\ opened \in ZoneRecords /\ RecordOK(opened)
      /\ opened.revision = NewRevision
      /\ seen.stateKnown => opened.stateKnown
      /\ \/ opened.metadataRevision = NewRevision
         \/ opened.metadataRevision = seen.metadataRevision /\ ~Disabled(opened)
      /\ moved => GetsState(seen, opened, TRUE \in opens)
      /\ ~moved => KeepsState(seen, opened)
  <2>1. CASE opens = {}
    BY <1>1, <1>2, <1>4, <2>1 DEF KeepsState
  <2>2. CASE opens # {}
    <3>1. opened = StateRecorded(seen, TRUE \in opens)
      BY <2>2
    <3>2. /\ Evolves(seen, opened)
          /\ StateChanges(seen, TRUE \in opens) =>
               GetsState(seen, opened, TRUE \in opens)
          /\ ~StateChanges(seen, TRUE \in opens) => KeepsState(seen, opened)
      BY <1>1, <1>4, <1>5, <3>1, StateEvolves
    <3> QED BY <1>2, <1>4, <1>6, <2>2, <3>2 DEF Evolves
  <2> QED BY <2>1, <2>2
<1> HIDE DEF opened
<1>8. /\ new \in ZoneRecords /\ RecordOK(new)
      /\ new.revision = NewRevision
      /\ opened.stateKnown => new.stateKnown
      /\ \/ new.metadataRevision = NewRevision
         \/ new.metadataRevision = opened.metadataRevision /\ (Disabled(new) => Disabled(opened))
      /\ KeepsState(opened, new)
  <2>1. CASE tampers = {}
    BY <1>7, <2>1 DEF KeepsState
  <2>2. CASE tampers # {}
    <3>1. Evolves(opened, new) /\ KeepsState(opened, new)
      BY <1>5, <1>7, <2>2, TamperEvolves
    <3> QED BY <1>7, <3>1 DEF Evolves
  <2> QED BY <2>1, <2>2
<1> HIDE DEF new
<1>9. Evolves(old, new)
  BY <1>2, <1>7, <1>8 DEF Evolves, SameShown
<1>10. moved => GetsState(old, new, TRUE \in opens)
  BY <1>2, <1>7, <1>8 DEF GetsState, KeepsState
<1>11. ~moved => KeepsState(old, new)
  BY <1>2, <1>7, <1>8 DEF KeepsState, SameShown
<1> QED BY <1>9, <1>10, <1>11 DEF PacketRecorded, new, opened, seen

\* recordZoneConfiguration gives both revisions or leaves the record alone.
LEMMA ConfigurationEvolves ==
  ASSUME nextRevision \in Nat,
         NEW old \in ZoneRecords, RecordOK(old),
         NEW active \in BOOLEAN, NEW renamed \in BOOLEAN
  PROVE  LET new == ConfigurationRecorded(old, active, renamed)
         IN  Evolves(old, new) /\ KeepsState(old, new)
<1> DEFINE new == ConfigurationRecorded(old, active, renamed)
           changed == [old EXCEPT !.metadataKnown = TRUE, !.discovered = active,
                                  !.active = active, !.revision = NewRevision,
                                  !.metadataRevision = NewRevision]
<1>0. NewRevision \in Nat \ {0}
  BY NewRevisionType
<1>1. new = changed \/ new = old
  BY DEF ConfigurationRecorded
<1>2. changed \in ZoneRecords
  BY <1>0 DEF ZoneRecords
<1>3. /\ changed.discovered = active
      /\ changed.active = active
      /\ changed.revision = NewRevision
      /\ changed.metadataRevision = NewRevision
      /\ changed.stateKnown = old.stateKnown
      /\ KeepsState(old, changed)
  BY DEF ZoneRecords, KeepsState
<1>4. changed.metadataKnown
  BY DEF ZoneRecords
<1> HIDE DEF changed, new
<1>5. CASE new = changed
  <2>1. RecordOK(new)
    BY <1>0, <1>3, <1>4, <1>5 DEF RecordOK
  <2> QED BY <1>2, <1>3, <1>5, <2>1 DEF Evolves, KeepsState, new
<1>6. CASE new = old
  BY <1>6 DEF Evolves, KeepsState, SameShown, new
<1> QED BY <1>1, <1>5, <1>6

-----------------------------------------------------------------------------
(* The queue of transitions.                                               *)

\* Queueing a transition keeps the queue gapless and puts the transition last;
\* a zone that still is whole loses nothing it waits for.
LEMMA QueueingKeepsQueue ==
  ASSUME TypeOK, TransitionsAccounted, published' = published,
         NEW z \in Zones, NEW open \in BOOLEAN, QueueZoneTransition(z, open)
  PROVE  /\ transitions' \in Seq(Transitions)
         /\ Len(transitions') \in 1..MaxQueuedZoneTransitions
         /\ dropped' \in Nat
         /\ occurred' = occurred + 1
         /\ lost' \subseteq Zones /\ lost \subseteq lost'
         /\ TransitionsAccounted'
         /\ Base' \in {Base, Base + 1}
         /\ transitions'[Len(transitions')] =
              [zone |-> z, open |-> open, id |-> occurred + 1]
         /\ \A i \in 1..(Len(transitions') - 1) :
              /\ i + (Base' - Base) \in DOMAIN transitions
              /\ transitions'[i] = transitions[i + (Base' - Base)]
         /\ \A y \in Zones \ lost' : Pending(y) => Pending(y)'
<1> DEFINE new == [zone |-> z, open |-> open, id |-> occurred + 1]
           len == Len(transitions)
<1>1. /\ transitions \in Seq(Transitions)
      /\ len \in Nat /\ len <= MaxQueuedZoneTransitions
      /\ DOMAIN transitions = 1..len
      /\ dropped \in Nat /\ occurred \in Nat /\ published \in Nat
      /\ lost \subseteq Zones
  BY DEF TypeOK
<1>0. len \in Nat
  BY <1>1
<1>2. new \in Transitions /\ new.zone = z /\ new.id = occurred + 1
  BY <1>1 DEF Transitions
<1>3. occurred = published + dropped + len
  BY DEF TransitionsAccounted
<1>4. \A i \in DOMAIN transitions : transitions[i].id = occurred - len + i
  BY DEF TransitionsAccounted
<1>5. occurred' = occurred + 1
  BY DEF QueueZoneTransition
<1> HIDE DEF new
<1>6. CASE len >= MaxQueuedZoneTransitions
  <2>1. /\ transitions' = Append(Tail(transitions), new)
        /\ dropped' = dropped + 1
        /\ lost' = lost \union {Head(transitions).zone}
    BY <1>6 DEF QueueZoneTransition, new
  <2>2. len >= 1
    BY <1>1, <1>6
  <2>3. /\ Tail(transitions) \in Seq(Transitions)
        /\ Len(Tail(transitions)) = len - 1
        /\ \A i \in 1..(len - 1) : Tail(transitions)[i] = transitions[i + 1]
        /\ Head(transitions) = transitions[1]
    BY <1>1, <2>2
  <2>4. /\ transitions' \in Seq(Transitions)
        /\ Len(transitions') = len
        /\ DOMAIN transitions' = 1..len
        /\ transitions'[len] = new
        /\ \A i \in 1..(len - 1) : transitions'[i] = transitions[i + 1]
    BY <1>1, <1>2, <2>1, <2>2, <2>3
  <2>5. Base' = Base + 1
    BY <1>1, <1>5, <2>4 DEF Base
  <2>6. TransitionsAccounted'
    <3>1. occurred' = published' + dropped' + Len(transitions')
      BY <1>1, <1>3, <1>5, <2>1, <2>4
    <3>2. ASSUME NEW i \in 1..len
          PROVE  transitions'[i].id = occurred' - len + i
      <4>1. CASE i = len
        BY <1>1, <1>2, <1>5, <2>4, <4>1
      <4>2. CASE i # len
        <5>1. i \in 1..(len - 1) /\ i + 1 \in 1..len
          BY <1>0, <4>2
        <5>2. transitions'[i].id = occurred - len + (i + 1)
          BY <1>1, <1>4, <2>4, <5>1
        <5> QED BY <1>0, <1>1, <1>5, <5>1, <5>2
      <4> QED BY <4>1, <4>2
    <3> QED BY <2>4, <3>1, <3>2 DEF TransitionsAccounted
  <2>7. lost' \subseteq Zones /\ lost \subseteq lost'
    <3>1. Head(transitions) \in Transitions
      BY <1>1, <2>2
    <3> QED BY <1>1, <2>1, <3>1 DEF Transitions
  <2>8. ASSUME NEW y \in Zones \ lost', Pending(y)
        PROVE  Pending(y)'
    <3>1. PICK i \in DOMAIN transitions : transitions[i].zone = y
      BY <2>8 DEF Pending
    <3>2. i # 1
      BY <2>1, <2>3, <3>1
    <3>3. i - 1 \in 1..(len - 1)
      BY <1>1, <3>2
    <3>4. transitions'[i - 1] = transitions[i] /\ i - 1 \in DOMAIN transitions'
      BY <1>1, <2>4, <3>3
    <3> QED BY <3>1, <3>4 DEF Pending
  <2>9. \A i \in 1..(Len(transitions') - 1) :
          /\ i + (Base' - Base) \in DOMAIN transitions
          /\ transitions'[i] = transitions[i + (Base' - Base)]
    <3>1. Base' - Base = 1
      BY <1>1, <2>5 DEF Base
    <3>2. \A i \in 1..(len - 1) : i + 1 \in DOMAIN transitions
      BY <1>0, <1>1
    <3> QED BY <2>4, <3>1, <3>2
  <2>10. Len(transitions') \in 1..MaxQueuedZoneTransitions /\ dropped' \in Nat
    BY <1>1, <2>1, <2>2, <2>4
  <2> QED
    BY <1>5, <2>4, <2>5, <2>6, <2>7, <2>8, <2>9, <2>10 DEF new
<1>7. CASE ~(len >= MaxQueuedZoneTransitions)
  <2>1. /\ transitions' = Append(transitions, new)
        /\ dropped' = dropped
        /\ lost' = lost
    BY <1>7 DEF QueueZoneTransition, new
  <2>2. /\ transitions' \in Seq(Transitions)
        /\ Len(transitions') = len + 1
        /\ DOMAIN transitions' = 1..(len + 1)
        /\ transitions'[len + 1] = new
        /\ \A i \in 1..len : transitions'[i] = transitions[i]
    BY <1>1, <1>2, <2>1
  <2>3. Base' = Base
    BY <1>1, <1>5, <2>2 DEF Base
  <2>4. TransitionsAccounted'
    <3>1. occurred' = published' + dropped' + Len(transitions')
      BY <1>1, <1>3, <1>5, <2>1, <2>2
    <3>2. ASSUME NEW i \in 1..(len + 1)
          PROVE  transitions'[i].id = occurred' - (len + 1) + i
      <4>1. CASE i = len + 1
        BY <1>1, <1>2, <1>5, <2>2, <4>1
      <4>2. CASE i # len + 1
        <5>1. i \in 1..len
          BY <1>1, <4>2
        <5> QED BY <1>1, <1>4, <1>5, <2>2, <5>1
      <4> QED BY <4>1, <4>2
    <3> QED BY <2>2, <3>1, <3>2 DEF TransitionsAccounted
  <2>5. \A y \in Zones \ lost' : Pending(y) => Pending(y)'
    BY <1>1, <2>2 DEF Pending
  <2>6. len + 1 \in 1..MaxQueuedZoneTransitions
    BY <1>1, <1>7
  <2>7. \A i \in 1..(Len(transitions') - 1) :
          /\ i + (Base' - Base) \in DOMAIN transitions
          /\ transitions'[i] = transitions[i + (Base' - Base)]
    BY <1>1, <2>2, <2>3 DEF Base
  <2> QED BY <1>1, <1>5, <2>1, <2>2, <2>3, <2>4, <2>5, <2>6, <2>7 DEF new
<1> QED BY <1>1, <1>6, <1>7

-----------------------------------------------------------------------------
(* Console lines.                                                          *)

\* What a line does to the records keeps them apart from what was published.
LEMMA LineKeepsMirror ==
  ASSUME Inv, CountRevision, UNCHANGED mqttVars,
         zone' \in [Zones -> ZoneRecords],
         \A y \in Zones : Evolves(zone[y], zone'[y]),
         \A y \in Zones : zone'[y].at <= occurred',
         \A y \in Zones \ lost' : Pending(y) => Pending(y)',
         lost \subseteq lost'
  PROVE  /\ nextRevision' \in Nat /\ RecordsOK' /\ NothingAhead' /\ Mirrored'
         /\ \A y \in Zones : IsDeleted(y)' =>
              /\ IsDeleted(y)
              /\ Disabled(zone'[y]) /\ zone'[y].metadataRevision # NewRevision
<1>1. nextRevision \in Nat /\ NewRevision = nextRevision + 1
  BY DEF Inv, TypeOK, NewRevision
<1>2. /\ nextRevision' \in {nextRevision, NewRevision}
      /\ \A y \in Zones : zone'[y].revision # zone[y].revision
                            => nextRevision' = NewRevision
  BY DEF CountRevision
<1>3. RecordsOK'
  BY DEF Evolves, RecordsOK, RecordOK
<1>4. UNCHANGED <<link, publishedRevision, publishedMetadata, broker>>
  BY DEF mqttVars
<1>5. ASSUME NEW y \in Zones
      PROVE  /\ zone[y] \in ZoneRecords
             /\ publishedRevision[y] \in Nat
             /\ publishedMetadata[y] \in Nat
  BY DEF Inv, TypeOK
<1>6. ASSUME NEW y \in Zones
      PROVE  /\ zone[y].revision \in Nat
             /\ zone[y].metadataRevision \in Nat
             /\ zone[y].revision <= nextRevision
             /\ zone[y].metadataRevision <= nextRevision
             /\ publishedRevision[y] <= nextRevision
             /\ publishedMetadata[y] <= nextRevision
  BY <1>5 DEF Inv, NothingAhead, ZoneRecords
<1>7. NothingAhead'
  <2> SUFFICES ASSUME NEW y \in Zones
               PROVE  /\ zone'[y].revision <= nextRevision'
                      /\ zone'[y].metadataRevision <= nextRevision'
                      /\ publishedRevision[y] <= nextRevision'
                      /\ publishedMetadata[y] <= nextRevision'
    BY <1>4 DEF NothingAhead
  <2>1. /\ \/ zone'[y].revision = NewRevision
           \/ /\ zone'[y].revision = zone[y].revision
              /\ zone'[y].metadataRevision = zone[y].metadataRevision
        /\ \/ zone'[y].metadataRevision = NewRevision
           \/ zone'[y].metadataRevision = zone[y].metadataRevision
    BY DEF Evolves
  <2> QED BY <1>1, <1>2, <1>5, <1>6, <2>1
<1>8. ASSUME NEW y \in Zones, IsDeleted(y)'
      PROVE  /\ IsDeleted(y)
             /\ Disabled(zone'[y]) /\ zone'[y].metadataRevision # NewRevision
  <2>1. Disabled(zone'[y]) /\ zone'[y].metadataRevision = publishedMetadata[y]
    BY <1>4, <1>8 DEF IsDeleted, ToDelete, Disabled
  <2>2. zone'[y].metadataRevision # NewRevision
    BY <1>1, <1>5, <1>6, <2>1
  <2>3. zone'[y].metadataRevision = zone[y].metadataRevision /\ Disabled(zone[y])
    BY <2>1, <2>2 DEF Evolves
  <2> QED BY <2>1, <2>2, <2>3 DEF IsDeleted, ToDelete, Disabled
<1>9. Mirrored'
  <2> SUFFICES ASSUME NEW y \in Zones \ lost', link = "up", ~Pending(y)'
               PROVE  /\ InInventory(y)' /\ ~ToPublish(y)'
                            => broker[y] = {Snapshot(y)'}
                      /\ IsDeleted(y)' => broker[y] = {}
    BY <1>4 DEF Mirrored
  <2>1. y \in Zones \ lost /\ ~Pending(y) /\ Evolves(zone[y], zone'[y])
    OBVIOUS
  <2>2. ASSUME InInventory(y)', ~ToPublish(y)'
        PROVE  broker[y] = {Snapshot(y)'}
    <3>1. zone'[y].discovered /\ Inventoried(zone'[y])
      BY <2>2 DEF InInventory, Inventoried
    <3>2. zone'[y].revision = publishedRevision[y]
      BY <1>4, <2>2, <3>1 DEF ToPublish
    <3>3. zone'[y].revision # NewRevision
      BY <1>1, <1>5, <1>6, <3>2
    <3>4. /\ zone'[y].revision = zone[y].revision
          /\ Inventoried(zone[y])
          /\ SameShown(zone[y], zone'[y])
      BY <2>1, <3>1, <3>3 DEF Evolves
    <3>5. InInventory(y) /\ ~ToPublish(y)
      BY <3>2, <3>4 DEF InInventory, Inventoried, ToPublish
    <3>6. broker[y] = {Snapshot(y)}
      BY <2>1, <3>5 DEF Inv, Mirrored
    <3> QED BY <3>4, <3>6 DEF Snapshot, ZoneMessage, SameShown
  <2>3. ASSUME IsDeleted(y)'
        PROVE  broker[y] = {}
    BY <1>8, <2>1, <2>3 DEF Inv, Mirrored
  <2> QED BY <2>2, <2>3
<1> QED BY <1>1, <1>2, <1>3, <1>7, <1>8, <1>9

\* A line that moves no zone.
LEMMA LineWithoutTransition ==
  ASSUME Inv, CountRevision, UNCHANGED mqttVars, NoTransition,
         zone' \in [Zones -> ZoneRecords],
         \A y \in Zones : /\ Evolves(zone[y], zone'[y])
                          /\ KeepsState(zone[y], zone'[y])
  PROVE  Inv'
<1>1. UNCHANGED <<transitions, dropped, occurred, lost, link, cleanup, broker,
                  publishedRevision, publishedMetadata, faults, published>>
  BY DEF NoTransition, mqttVars
<1>2. \A y \in Zones : /\ zone'[y].at = zone[y].at
                       /\ zone'[y].open = zone[y].open
                       /\ zone[y].stateKnown => zone'[y].stateKnown
  BY DEF KeepsState, Evolves
<1>3. /\ nextRevision' \in Nat /\ RecordsOK' /\ NothingAhead' /\ Mirrored'
      /\ \A y \in Zones : IsDeleted(y)' => IsDeleted(y)
  <2>1. \A y \in Zones : zone'[y].at <= occurred'
    BY <1>1, <1>2 DEF Inv, NothingAhead
  <2>2. \A y \in Zones \ lost' : Pending(y) => Pending(y)'
    BY <1>1 DEF Pending
  <2> QED BY <1>1, <2>1, <2>2, LineKeepsMirror
<1>4. TypeOK'
  BY <1>1, <1>3 DEF Inv, TypeOK
<1>5. TransitionsAccounted'
  BY <1>1 DEF Inv, TransitionsAccounted
<1>6. CurrentAtPlace'
  BY <1>1, <1>2 DEF Inv, CurrentAtPlace, Place, Base
<1>7. QueuedNotNewer' /\ ShownOldest'
  <2>1. \A i \in DOMAIN transitions : transitions[i] \in Transitions
    BY DEF Inv, TypeOK
  <2>2. \A i \in DOMAIN transitions : transitions[i].zone \in Zones
    BY <2>1 DEF Transitions
  <2> QED BY <1>1, <1>2, <2>2 DEF Inv, QueuedNotNewer, ShownOldest
<1>8. DeletedIsSettled'
  BY <1>1, <1>3 DEF Inv, DeletedIsSettled, Pending
<1> QED BY <1>3, <1>4, <1>5, <1>6, <1>7, <1>8 DEF Inv

\* A line that moves the zone z.
LEMMA LineWithTransition ==
  ASSUME Inv, CountRevision, UNCHANGED mqttVars,
         NEW z \in Zones, NEW open \in BOOLEAN, QueueZoneTransition(z, open),
         zone' \in [Zones -> ZoneRecords],
         \A y \in Zones : Evolves(zone[y], zone'[y]),
         \A y \in Zones \ {z} : zone'[y] = zone[y],
         GetsState(zone[z], zone'[z], open)
  PROVE  Inv'
<1> DEFINE len == Len(transitions)
           shift == Base' - Base
<1>1. UNCHANGED <<link, cleanup, broker, publishedRevision, publishedMetadata,
                  faults, published>>
  BY DEF mqttVars
<1>2. /\ transitions \in Seq(Transitions) /\ DOMAIN transitions = 1..len
      /\ len \in Nat /\ occurred \in Nat
      /\ broker \in [Zones -> SUBSET Messages]
      /\ zone \in [Zones -> ZoneRecords]
  BY DEF Inv, TypeOK
<1>3. /\ transitions' \in Seq(Transitions)
      /\ Len(transitions') \in 1..MaxQueuedZoneTransitions
      /\ DOMAIN transitions' = 1..Len(transitions')
      /\ dropped' \in Nat
      /\ occurred' = occurred + 1
      /\ lost' \subseteq Zones /\ lost \subseteq lost'
      /\ TransitionsAccounted'
      /\ Base' \in {Base, Base + 1}
      /\ transitions'[Len(transitions')] =
           [zone |-> z, open |-> open, id |-> occurred + 1]
      /\ \A i \in 1..(Len(transitions') - 1) :
           /\ i + (Base' - Base) \in DOMAIN transitions
           /\ transitions'[i] = transitions[i + (Base' - Base)]
      /\ \A y \in Zones \ lost' : Pending(y) => Pending(y)'
  BY <1>1, QueueingKeepsQueue DEF Inv
<1>4. /\ zone'[z].at = occurred + 1
      /\ zone'[z].open = open
      /\ zone'[z].stateKnown
  BY DEF GetsState
<1>5. \A y \in Zones : zone[y].at \in Nat /\ zone[y].at <= occurred
  BY <1>2 DEF Inv, NothingAhead, ZoneRecords
<1>6. /\ nextRevision' \in Nat /\ RecordsOK' /\ NothingAhead' /\ Mirrored'
      /\ \A y \in Zones : IsDeleted(y)' =>
           /\ IsDeleted(y)
           /\ Disabled(zone'[y]) /\ zone'[y].metadataRevision # NewRevision
  <2>1. \A y \in Zones : zone'[y].at <= occurred'
    BY <1>2, <1>3, <1>4, <1>5
  <2> QED BY <1>3, <2>1, LineKeepsMirror
<1>7. TypeOK'
  BY <1>1, <1>3, <1>6 DEF Inv, TypeOK
<1>8. Base' = occurred + 1 - Len(transitions') /\ Base = occurred - len
  BY <1>2, <1>3 DEF Base
<1>9. CurrentAtPlace'
  <2> SUFFICES ASSUME NEW y \in Zones, Place(y)' > 0
               PROVE  /\ transitions'[Place(y)'].zone = y
                      /\ transitions'[Place(y)'].open = zone'[y].open
                      /\ zone'[y].stateKnown
    BY DEF CurrentAtPlace
  <2>1. CASE y = z
    <3>1. Place(z)' = Len(transitions')
      BY <1>2, <1>3, <1>4, <1>8 DEF Place
    <3> QED BY <1>3, <1>4, <2>1, <3>1
  <2>2. CASE y # z
    <3> DEFINE i == Place(y)'
    <3>1. zone'[y] = zone[y] /\ Place(y) = i + (Base' - Base)
      BY <1>2, <1>3, <1>5, <1>8, <2>2 DEF Place
    <3>2. i \in 1..(Len(transitions') - 1)
      BY <1>2, <1>3, <1>5, <1>8, <2>2 DEF Place
    <3>3. Place(y) > 0 /\ transitions'[i] = transitions[Place(y)]
      BY <1>2, <1>3, <1>8, <3>1, <3>2
    <3> QED BY <3>1, <3>3 DEF Inv, CurrentAtPlace
  <2> QED BY <2>1, <2>2
<1>10. ASSUME NEW i \in DOMAIN transitions'
       PROVE  \/ i = Len(transitions')
              \/ \E j \in DOMAIN transitions : transitions'[i] = transitions[j]
  BY <1>3
<1>11. \A i \in DOMAIN transitions : transitions[i].zone \in Zones
  <2>1. \A i \in DOMAIN transitions : transitions[i] \in Transitions
    BY <1>2
  <2> QED BY <2>1 DEF Transitions
<1>12. \A y \in Zones : zone'[y].at \in Nat /\ zone[y].at <= zone'[y].at
  <2>1. \A y \in Zones : zone'[y].at \in Nat
    BY DEF ZoneRecords
  <2> QED BY <1>2, <1>4, <1>5, <2>1
<1>13. QueuedNotNewer'
  <2> SUFFICES ASSUME NEW i \in DOMAIN transitions'
               PROVE  transitions'[i].id <= zone'[transitions'[i].zone].at
    BY DEF QueuedNotNewer
  <2>1. CASE i = Len(transitions')
    <3>1. transitions'[i].id = occurred + 1 /\ transitions'[i].zone = z
      BY <1>3, <2>1
    <3> QED BY <1>2, <1>4, <3>1
  <2>2. CASE i # Len(transitions')
    <3>1. PICK j \in DOMAIN transitions : transitions'[i] = transitions[j]
      BY <1>10, <2>2
    <3>2. transitions[j] \in Transitions
      BY <1>2
    <3>3. transitions[j].id \in Nat /\ transitions[j].id <= zone[transitions[j].zone].at
      BY <3>2 DEF Inv, QueuedNotNewer, Transitions
    <3>4. transitions[j].zone \in Zones
      BY <1>11
    <3> QED BY <1>5, <1>12, <3>1, <3>3, <3>4
  <2> QED BY <2>1, <2>2
<1>14. ShownOldest'
  <2> SUFFICES ASSUME NEW y \in Zones, NEW message \in broker[y]
               PROVE  /\ message.at <= zone'[y].at
                      /\ \A other \in broker[y] : other = message
                      /\ \A i \in DOMAIN transitions' :
                           transitions'[i].zone = y => message.at <= transitions'[i].id
    BY <1>1 DEF ShownOldest
  <2>1. /\ message.at <= zone[y].at
        /\ \A other \in broker[y] : other = message
        /\ \A i \in DOMAIN transitions :
             transitions[i].zone = y => message.at <= transitions[i].id
    BY DEF Inv, ShownOldest
  <2>2. message.at \in Int
    BY <1>2 DEF Messages
  <2>3. message.at <= zone'[y].at /\ message.at <= occurred + 1
    BY <1>2, <1>4, <1>5, <2>1, <2>2
  <2>4. ASSUME NEW i \in DOMAIN transitions', transitions'[i].zone = y
        PROVE  message.at <= transitions'[i].id
    BY <1>3, <1>10, <2>1, <2>3, <2>4
  <2> QED BY <2>1, <2>3, <2>4
<1>15. DeletedIsSettled'
  <2> SUFFICES ASSUME NEW y \in Zones, IsDeleted(y)', Pending(y)'
               PROVE  FALSE
    BY DEF DeletedIsSettled
  <2>1. y # z
    BY <1>6 DEF GetsState
  <2>2. PICK i \in DOMAIN transitions' : transitions'[i].zone = y
    BY DEF Pending
  <2>3. i # Len(transitions')
    BY <1>3, <2>1, <2>2
  <2>4. PICK j \in DOMAIN transitions : transitions'[i] = transitions[j]
    BY <1>10, <2>3
  <2>5. Pending(y)
    BY <2>2, <2>4 DEF Pending
  <2> QED BY <1>6, <2>5 DEF Inv, DeletedIsSettled
<1> QED BY <1>3, <1>6, <1>7, <1>9, <1>13, <1>14, <1>15 DEF Inv

LEMMA EvolvesReflexive ==
  ASSUME NEW record \in ZoneRecords, RecordOK(record)
  PROVE  Evolves(record, record) /\ KeepsState(record, record)
BY DEF Evolves, KeepsState, SameShown

LEMMA ConsoleLineKeepsInv ==
  ASSUME Inv, ConsoleLine
  PROVE  Inv'
<1>1. /\ zone \in [Zones -> ZoneRecords]
      /\ nextRevision \in Nat /\ occurred \in Nat
      /\ \A y \in Zones : RecordOK(zone[y])
  BY DEF Inv, TypeOK, RecordsOK
<1>2. \A y \in Zones : Evolves(zone[y], zone[y]) /\ KeepsState(zone[y], zone[y])
  BY <1>1, EvolvesReflexive
<1>3. ASSUME NEW z \in Zones, NEW new, zone' = [zone EXCEPT ![z] = new],
             Evolves(zone[z], new)
      PROVE  /\ zone' \in [Zones -> ZoneRecords]
             /\ zone'[z] = new
             /\ \A y \in Zones \ {z} : zone'[y] = zone[y]
             /\ \A y \in Zones : Evolves(zone[y], zone'[y])
             /\ KeepsState(zone[z], new) =>
                  \A y \in Zones : KeepsState(zone[y], zone'[y])
  <2>1. new \in ZoneRecords
    BY <1>3 DEF Evolves
  <2>2. zone'[z] = new /\ \A y \in Zones \ {z} : zone'[y] = zone[y]
    BY <1>1, <1>3
  <2>3. zone' \in [Zones -> ZoneRecords]
    BY <1>1, <1>3, <2>1
  <2> QED BY <1>2, <1>3, <2>2, <2>3
<1>4. ASSUME NEW z \in Zones, NEW open \in BOOLEAN, RecordZoneState(z, open)
      PROVE  Inv'
  <2> DEFINE new == StateRecorded(zone[z], open)
  <2>1. /\ Evolves(zone[z], new)
        /\ StateChanges(zone[z], open) => GetsState(zone[z], new, open)
        /\ ~StateChanges(zone[z], open) => KeepsState(zone[z], new)
    BY <1>1, StateEvolves
  <2>2. zone' = [zone EXCEPT ![z] = new] /\ CountRevision /\ UNCHANGED mqttVars
    BY <1>4 DEF RecordZoneState
  <2> HIDE DEF new
  <2>3. CASE StateChanges(zone[z], open)
    <3>1. QueueZoneTransition(z, open)
      BY <1>4, <2>3 DEF RecordZoneState
    <3> QED BY <1>3, <2>1, <2>2, <2>3, <3>1, LineWithTransition
  <2>4. CASE ~StateChanges(zone[z], open)
    <3>1. NoTransition
      BY <1>4, <2>4 DEF RecordZoneState
    <3> QED BY <1>3, <2>1, <2>2, <2>4, <3>1, LineWithoutTransition
  <2> QED BY <2>3, <2>4
<1>5. ASSUME NEW z \in Zones, NEW tampered \in BOOLEAN, RecordZoneTamper(z, tampered)
      PROVE  Inv'
  <2> DEFINE new == TamperRecorded(zone[z], tampered)
  <2>1. Evolves(zone[z], new) /\ KeepsState(zone[z], new)
    BY <1>1, TamperEvolves
  <2>2. /\ zone' = [zone EXCEPT ![z] = new]
        /\ CountRevision /\ UNCHANGED mqttVars /\ NoTransition
    BY <1>5 DEF RecordZoneTamper
  <2> HIDE DEF new
  <2> QED BY <1>3, <2>1, <2>2, LineWithoutTransition
<1>6. ASSUME NEW z \in Zones, NEW opens \in Readings, NEW tampers \in Readings,
             RecordZonePacket(z, opens, tampers)
      PROVE  Inv'
  <2> DEFINE new == PacketRecorded(zone[z], opens, tampers)
             moved == opens # {} /\ StateChanges(zone[z], TRUE \in opens)
  <2>1. /\ Evolves(zone[z], new)
        /\ moved => GetsState(zone[z], new, TRUE \in opens)
        /\ ~moved => KeepsState(zone[z], new)
    BY <1>1, PacketEvolves
  <2>2. zone' = [zone EXCEPT ![z] = new] /\ CountRevision /\ UNCHANGED mqttVars
    BY <1>6 DEF RecordZonePacket
  <2>3. IF moved THEN QueueZoneTransition(z, TRUE \in opens) ELSE NoTransition
    BY <1>6 DEF RecordZonePacket
  <2> HIDE DEF new, moved
  <2>4. CASE moved
    <3>1. (TRUE \in opens) \in BOOLEAN
      OBVIOUS
    <3> QED BY <1>3, <2>1, <2>2, <2>3, <2>4, <3>1, LineWithTransition
  <2>5. CASE ~moved
    BY <1>3, <2>1, <2>2, <2>3, <2>5, LineWithoutTransition
  <2> QED BY <2>4, <2>5
<1>7. ASSUME NEW z \in Zones, NEW active \in BOOLEAN, NEW renamed \in BOOLEAN,
             RecordZoneConfiguration(z, active, renamed)
      PROVE  Inv'
  <2> DEFINE new == ConfigurationRecorded(zone[z], active, renamed)
  <2>1. Evolves(zone[z], new) /\ KeepsState(zone[z], new)
    BY <1>1, ConfigurationEvolves
  <2>2. /\ zone' = [zone EXCEPT ![z] = new]
        /\ CountRevision /\ UNCHANGED mqttVars /\ NoTransition
    BY <1>7 DEF RecordZoneConfiguration
  <2> HIDE DEF new
  <2> QED BY <1>3, <2>1, <2>2, LineWithoutTransition
<1>8. ASSUME NEW tampered \in SUBSET Zones, FinishTroubleSnapshot(tampered)
      PROVE  Inv'
  <2>1. /\ zone' = [y \in Zones |-> TroubleRecorded(zone[y], y \in tampered)]
        /\ CountRevision /\ UNCHANGED mqttVars /\ NoTransition
    BY <1>8 DEF FinishTroubleSnapshot
  <2>2. ASSUME NEW y \in Zones
        PROVE  /\ Evolves(zone[y], zone'[y])
               /\ KeepsState(zone[y], zone'[y])
    <3>1. (y \in tampered) \in BOOLEAN
      OBVIOUS
    <3>2. zone'[y] = TroubleRecorded(zone[y], y \in tampered)
      BY <2>1
    <3> QED BY <1>1, <3>1, <3>2, TroubleEvolves
  <2>3. zone' \in [Zones -> ZoneRecords]
    BY <2>1, <2>2 DEF Evolves
  <2> QED BY <2>1, <2>2, <2>3, LineWithoutTransition
<1> QED BY <1>4, <1>5, <1>6, <1>7, <1>8 DEF ConsoleLine, Readings

-----------------------------------------------------------------------------
(* The connection.                                                         *)

\* A new connection has published nothing and gives every record it will
\* publish a new revision.
LEMMA ConnectKeepsInv ==
  ASSUME Inv, Connect
  PROVE  Inv'
<1>1. /\ link' = "up" /\ cleanup' = TRUE
      /\ publishedRevision' = [z \in Zones |-> 0]
      /\ publishedMetadata' = [z \in Zones |-> 0]
      /\ nextRevision' = NewRevision
      /\ lost' = {}
      /\ UNCHANGED <<transitions, dropped, occurred, broker, faults, published>>
      /\ zone' = [z \in Zones |->
                    IF zone[z].discovered
                    THEN [zone[z] EXCEPT !.revision = NewRevision] ELSE zone[z]]
  BY DEF Connect, MarkAllForRepublish
<1>2. nextRevision \in Nat /\ NewRevision \in Nat /\ NewRevision = nextRevision + 1
  BY DEF Inv, TypeOK, NewRevision
<1>3. ASSUME NEW z \in Zones
      PROVE  /\ zone[z] \in ZoneRecords /\ RecordOK(zone[z])
             /\ zone[z].revision <= nextRevision
             /\ zone[z].metadataRevision <= nextRevision
             /\ zone[z].at <= occurred
  BY DEF Inv, TypeOK, RecordsOK, NothingAhead
<1>4. ASSUME NEW z \in Zones
      PROVE  /\ zone'[z] \in ZoneRecords
             /\ KeepsState(zone[z], zone'[z])
             /\ zone'[z].stateKnown = zone[z].stateKnown
             /\ zone'[z].discovered = zone[z].discovered
             /\ zone'[z].metadataKnown = zone[z].metadataKnown
             /\ zone'[z].active = zone[z].active
             /\ zone'[z].metadataRevision = zone[z].metadataRevision
             /\ zone[z].discovered => zone'[z].revision = NewRevision
             /\ ~zone[z].discovered => zone'[z].revision = zone[z].revision
  <2>1. CASE zone[z].discovered
    <3>1. zone'[z] = [zone[z] EXCEPT !.revision = NewRevision]
      BY <1>1, <2>1
    <3> QED BY ZenonT(30), <1>2, <1>3, <2>1, <3>1 DEF ZoneRecords, KeepsState
  <2>2. CASE ~zone[z].discovered
    BY <1>1, <1>3, <2>2 DEF KeepsState
  <2> QED BY <2>1, <2>2
<1>5. TypeOK'
  <2>1. zone' \in [Zones -> ZoneRecords]
    BY <1>1, <1>4
  <2> QED BY <1>1, <1>2, <2>1 DEF Inv, TypeOK
<1>6. TransitionsAccounted'
  BY <1>1 DEF Inv, TransitionsAccounted
<1>7. RecordsOK'
  BY <1>3, <1>4 DEF RecordsOK, RecordOK
<1>8. NothingAhead'
  <2> SUFFICES ASSUME NEW z \in Zones
               PROVE  /\ zone'[z].revision <= nextRevision'
                      /\ zone'[z].metadataRevision <= nextRevision'
                      /\ publishedRevision'[z] <= nextRevision'
                      /\ publishedMetadata'[z] <= nextRevision'
                      /\ zone'[z].at <= occurred'
    BY DEF NothingAhead
  <2>1. zone[z].revision \in Nat /\ zone[z].metadataRevision \in Nat
    BY <1>3 DEF ZoneRecords
  <2> QED BY <1>1, <1>2, <1>3, <1>4, <2>1 DEF KeepsState
<1>9. CurrentAtPlace'
  BY <1>1, <1>4 DEF Inv, CurrentAtPlace, Place, Base, KeepsState
<1>10. QueuedNotNewer' /\ ShownOldest'
  <2>1. \A i \in DOMAIN transitions : transitions[i] \in Transitions
    BY DEF Inv, TypeOK
  <2>2. \A i \in DOMAIN transitions : transitions[i].zone \in Zones
    BY <2>1 DEF Transitions
  <2> QED BY <1>1, <1>4, <2>2 DEF Inv, QueuedNotNewer, ShownOldest, KeepsState
<1>11. ASSUME NEW z \in Zones
       PROVE  ~(InInventory(z)' /\ ~ToPublish(z)') /\ ~IsDeleted(z)'
  <2>1. publishedRevision'[z] = 0 /\ publishedMetadata'[z] = 0 /\ NewRevision # 0
    BY <1>1, <1>2
  <2>2. ~(InInventory(z)' /\ ~ToPublish(z)')
    BY <1>4, <2>1 DEF InInventory, ToPublish
  <2>3. ~IsDeleted(z)'
    BY <1>3, <1>4, <2>1 DEF IsDeleted, ToDelete, RecordOK
  <2> QED BY <2>2, <2>3
<1>12. Mirrored'
  BY <1>11 DEF Mirrored
<1>13. DeletedIsSettled'
  BY <1>11 DEF DeletedIsSettled
<1> QED BY <1>5, <1>6, <1>7, <1>8, <1>9, <1>10, <1>12, <1>13 DEF Inv

\* Nothing but the state of the connection changes, or nothing at all.
LEMMA LinkKeepsInv ==
  ASSUME Inv, LinkDies \/ Disconnect \/ HomeAssistantOnline \/ PublishCleanup
                \/ UNCHANGED vars
  PROVE  Inv'
<1>1. /\ UNCHANGED <<zoneVars, publishedRevision, publishedMetadata, broker,
                     published, lost>>
      /\ cleanup' \in BOOLEAN
  BY DEF LinkDies, Disconnect, HomeAssistantOnline, PublishCleanup, vars,
         mqttVars, Inv, TypeOK
<1>2. faults' \in 0..MaxFaults
  BY DEF LinkDies, Disconnect, HomeAssistantOnline, PublishCleanup, vars,
         mqttVars, Fault, Inv, TypeOK
<1>3. link' \in {"down", "dead", link}
  BY DEF LinkDies, Disconnect, HomeAssistantOnline, PublishCleanup, vars, mqttVars
<1>4. TypeOK'
  BY <1>1, <1>2, <1>3 DEF Inv, TypeOK, zoneVars
<1>5. TransitionsAccounted' /\ RecordsOK' /\ NothingAhead'
  BY <1>1 DEF Inv, TransitionsAccounted, RecordsOK, NothingAhead, zoneVars
<1>6. CurrentAtPlace' /\ QueuedNotNewer' /\ ShownOldest'
  BY <1>1 DEF Inv, CurrentAtPlace, Place, Base, QueuedNotNewer, ShownOldest, zoneVars
<1>7. Mirrored' /\ DeletedIsSettled'
  <2>1. link' = "up" => link = "up"
    BY <1>3
  <2>2. \A z \in Zones : /\ Pending(z)' = Pending(z)
                         /\ InInventory(z)' = InInventory(z)
                         /\ ToPublish(z)' = ToPublish(z)
                         /\ IsDeleted(z)' = IsDeleted(z)
                         /\ Snapshot(z)' = Snapshot(z)
    BY <1>1 DEF Pending, InInventory, ToPublish, IsDeleted, ToDelete, Snapshot, ZoneMessage,
                   zoneVars
  <2> QED BY <1>1, <2>1, <2>2 DEF Inv, Mirrored, DeletedIsSettled
<1> QED BY <1>4, <1>5, <1>6, <1>7 DEF Inv

-----------------------------------------------------------------------------
(* Publishing.                                                             *)

\* The broker holds the message or what it held; it holds the message if
\* publish() says so and the link is alive.
LEMMA PublishEffect ==
  ASSUME TypeOK, NEW z \in Zones, NEW message \in SUBSET Messages,
         NEW ok \in BOOLEAN, Publish(z, message, ok)
  PROVE  /\ broker' \in [Zones -> SUBSET Messages]
         /\ faults' \in 0..MaxFaults
         /\ broker'[z] \in {message, broker[z]}
         /\ ok /\ link = "up" => broker'[z] = message
         /\ \A y \in Zones \ {z} : broker'[y] = broker[y]
<1>1. broker \in [Zones -> SUBSET Messages] /\ faults \in 0..MaxFaults
  BY DEF TypeOK
<1>2. faults' \in 0..MaxFaults
  BY <1>1 DEF Publish, Fault
<1>3. broker' = [broker EXCEPT ![z] = message] \/ UNCHANGED broker
  BY DEF Publish
<1>4. ok /\ link = "up" => broker' = [broker EXCEPT ![z] = message]
  BY DEF Publish
<1> QED BY <1>1, <1>2, <1>3, <1>4

\* A zone's record makes a message.
LEMMA SnapshotType ==
  ASSUME TypeOK, NEW z \in Zones
  PROVE  /\ Snapshot(z) \in Messages
         /\ \A t \in Transitions : Overridden(z, t) \in Messages
<1>1. zone[z] \in ZoneRecords
  BY DEF TypeOK
<1>2. Snapshot(z) \in Messages
  BY <1>1 DEF Snapshot, ZoneMessage, Messages, ZoneRecords
<1>3. ASSUME NEW t \in Transitions
      PROVE  Overridden(z, t) \in Messages
  BY <1>1 DEF Overridden, ZoneMessage, Messages, Transitions, ZoneRecords
<1> QED BY <1>2, <1>3

\* Publishing a record, or deleting it, as the last thing its zone waits for.
LEMMA RepublishKeepsInv ==
  ASSUME Inv, NEW z \in Zones, NEW ok \in BOOLEAN,
         RepublishZone(z, ok) \/ DeleteDisabledZone(z, ok)
  PROVE  Inv' /\ \A y \in Zones : \A old \in broker[y], new \in broker'[y] :
                   old.at <= new.at
<1> DEFINE message == IF RepublishZone(z, ok) THEN {Snapshot(z)} ELSE {}
<1>1. TypeOK /\ transitions = <<>> /\ message \in SUBSET Messages
  <2>1. TypeOK /\ Snapshot(z) \in Messages
    BY SnapshotType DEF Inv
  <2>2. transitions = <<>>
    BY DEF RepublishZone, DeleteDisabledZone
  <2> QED BY <2>1, <2>2
<1>2. Publish(z, message, ok)
  BY DEF RepublishZone, DeleteDisabledZone
<1>3. /\ broker' \in [Zones -> SUBSET Messages]
      /\ faults' \in 0..MaxFaults
      /\ broker'[z] \in {message, broker[z]}
      /\ ok /\ link = "up" => broker'[z] = message
      /\ \A y \in Zones \ {z} : broker'[y] = broker[y]
  BY ZenonT(30), <1>1, <1>2, PublishEffect
<1>4. /\ UNCHANGED <<zone, nextRevision, transitions, dropped, occurred, link,
                     cleanup, published>>
      /\ lost' \in {lost, lost \ {z}}
      /\ publishedRevision' \in
           {publishedRevision, [publishedRevision EXCEPT ![z] = zone[z].revision]}
      /\ publishedMetadata' \in
           {publishedMetadata,
            [publishedMetadata EXCEPT ![z] = zone[z].metadataRevision]}
      /\ ~ok => UNCHANGED <<lost, publishedRevision, publishedMetadata>>
  BY DEF RepublishZone, DeleteDisabledZone, zoneVars
<1>5. /\ zone \in [Zones -> ZoneRecords]
      /\ publishedRevision \in [Zones -> Nat]
      /\ publishedMetadata \in [Zones -> Nat]
  BY DEF Inv, TypeOK
<1>6. ASSUME NEW y \in Zones
      PROVE  /\ zone[y].revision \in Nat /\ zone[y].metadataRevision \in Nat
             /\ zone[y].at \in Nat
  BY <1>5 DEF ZoneRecords
<1>7. /\ publishedRevision' \in [Zones -> Nat]
      /\ publishedMetadata' \in [Zones -> Nat]
      /\ \A y \in Zones : publishedRevision'[y] \in {publishedRevision[y], zone[y].revision}
      /\ \A y \in Zones : publishedMetadata'[y] \in {publishedMetadata[y], zone[y].metadataRevision}
      /\ \A y \in Zones \ {z} : /\ publishedRevision'[y] = publishedRevision[y]
                                /\ publishedMetadata'[y] = publishedMetadata[y]
  BY <1>4, <1>5, <1>6
<1>8. TypeOK'
  BY <1>1, <1>3, <1>4, <1>7 DEF TypeOK
<1>9. TransitionsAccounted' /\ RecordsOK' /\ CurrentAtPlace' /\ QueuedNotNewer'
  BY <1>4 DEF Inv, TransitionsAccounted, RecordsOK, CurrentAtPlace, Place, Base,
              QueuedNotNewer
<1>10. NothingAhead'
  BY <1>4, <1>6, <1>7 DEF Inv, NothingAhead
<1>11. \A y \in Zones : broker'[y] = broker[y] \/ broker'[y] = {}
                        \/ broker'[y] = {Snapshot(y)}
  BY <1>3
<1>12. \A y \in Zones : Snapshot(y).at = zone[y].at
  BY DEF Snapshot, ZoneMessage
<1>13. ShownOldest'
  <2> SUFFICES ASSUME NEW y \in Zones, NEW m \in broker'[y]
               PROVE  m.at <= zone[y].at /\ \A other \in broker'[y] : other = m
    BY <1>1, <1>4 DEF ShownOldest
  <2> QED BY <1>6, <1>11, <1>12 DEF Inv, ShownOldest
<1>14. ASSUME NEW y \in Zones, NEW old \in broker[y], NEW new \in broker'[y]
       PROVE  old.at <= new.at
  <2>1. old.at <= zone[y].at /\ \A other \in broker[y] : other = old
    BY DEF Inv, ShownOldest
  <2>2. old.at \in Int
    BY DEF Inv, TypeOK, Messages
  <2> QED BY <1>11, <1>12, <2>1, <2>2
<1>15. Mirrored'
  <2> SUFFICES ASSUME NEW y \in Zones \ lost', link = "up"
               PROVE  /\ InInventory(y) /\ ~ToPublish(y)' => broker'[y] = {Snapshot(y)}
                      /\ IsDeleted(y)' => broker'[y] = {}
    BY <1>4 DEF Mirrored, InInventory, Snapshot, ZoneMessage
  <2>1. ~Pending(y)
    BY <1>1 DEF Pending
  <2>2. CASE y # z
    <3>1. y \in Zones \ lost /\ broker'[y] = broker[y]
      BY <1>3, <1>4, <2>2
    <3>2. ToPublish(y)' = ToPublish(y) /\ IsDeleted(y)' = IsDeleted(y)
      BY <1>4, <1>7, <2>2 DEF ToPublish, IsDeleted, ToDelete
    <3> QED BY <2>1, <3>1, <3>2 DEF Inv, Mirrored
  <2>3. CASE y = z /\ ok
    <3>1. broker'[z] = message
      BY <1>3, <2>3
    <3>2. CASE RepublishZone(z, ok)
      <4>1. zone[z].discovered
        BY <3>2 DEF RepublishZone, ToPublish
      <4>2. ~IsDeleted(z)'
        BY <1>4, <4>1 DEF IsDeleted
      <4> QED BY <2>3, <3>1, <3>2, <4>2
    <3>3. CASE ~RepublishZone(z, ok)
      <4>1. ~zone[z].discovered
        BY <3>3 DEF DeleteDisabledZone, ToDelete
      <4>2. ~InInventory(z)
        BY <4>1 DEF InInventory
      <4> QED BY <2>3, <3>1, <3>3, <4>2
    <3> QED BY <3>2, <3>3
  <2>4. CASE y = z /\ ~ok
    <3>1. UNCHANGED <<lost, publishedRevision, publishedMetadata>>
      BY <1>4, <2>4
    <3>2. CASE RepublishZone(z, ok)
      <4>1. ToPublish(z)' /\ zone[z].discovered
        BY <1>4, <3>1, <3>2 DEF RepublishZone, ToPublish
      <4> QED BY <1>4, <2>4, <4>1 DEF IsDeleted
    <3>3. CASE ~RepublishZone(z, ok)
      <4>1. ToDelete(z)' /\ ~zone[z].discovered
        BY <1>4, <3>1, <3>3 DEF DeleteDisabledZone, ToDelete
      <4> QED BY <1>4, <2>4, <4>1 DEF IsDeleted, InInventory
    <3> QED BY <3>2, <3>3
  <2> QED BY <2>2, <2>3, <2>4
<1>16. DeletedIsSettled'
  BY <1>1, <1>4 DEF DeletedIsSettled, Pending
<1> QED BY <1>8, <1>9, <1>10, <1>13, <1>14, <1>15, <1>16 DEF Inv

\* Publishing the oldest queued transition.
LEMMA PublishTransitionKeepsInv ==
  ASSUME Inv, NEW ok \in BOOLEAN, PublishTransition(ok)
  PROVE  Inv' /\ \A y \in Zones : \A old \in broker[y], new \in broker'[y] :
                   old.at <= new.at
<1>a. transitions \in Seq(Transitions) /\ transitions # <<>>
  BY DEF Inv, TypeOK, PublishTransition
<1>b. PICK len \in Nat \ {0} : len = Len(transitions)
  BY <1>a
<1>c. PICK t \in Transitions : t = Head(transitions)
  BY <1>a
<1>d. PICK z \in Zones : z = t.zone
  BY <1>c DEF Transitions
<1> DEFINE message == Overridden(z, t)
<1>1. /\ DOMAIN transitions = 1..len
      /\ t = transitions[1]
      /\ Tail(transitions) \in Seq(Transitions)
      /\ Len(Tail(transitions)) = len - 1
      /\ DOMAIN Tail(transitions) = 1..(len - 1)
      /\ \A i \in 1..(len - 1) : Tail(transitions)[i] = transitions[i + 1]
  BY <1>a, <1>b, <1>c
<1>2. t.id \in Nat /\ t.open \in BOOLEAN
  BY DEF Transitions
<1>3. /\ Publish(z, {message}, ok)
      /\ ok => transitions' = Tail(transitions) /\ published' = published + 1
      /\ ~ok => UNCHANGED <<transitions, published, publishedRevision>>
      /\ publishedRevision' \in
           {publishedRevision, [publishedRevision EXCEPT ![z] = zone[z].revision]}
      /\ UNCHANGED <<zone, nextRevision, dropped, occurred, link, cleanup,
                     publishedMetadata, lost>>
  BY <1>c, <1>d DEF PublishTransition
<1>4. message \in Messages /\ message.at = t.id /\ message.open = t.open
  <2>1. message \in Messages
    BY <1>1, <1>2, SnapshotType DEF Inv
  <2> QED BY <2>1 DEF Overridden, Snapshot, ZoneMessage
<1>5. /\ broker' \in [Zones -> SUBSET Messages]
      /\ faults' \in 0..MaxFaults
      /\ broker'[z] \in {{message}, broker[z]}
      /\ ok /\ link = "up" => broker'[z] = {message}
      /\ \A y \in Zones \ {z} : broker'[y] = broker[y]
  BY <1>2, <1>3, <1>4, PublishEffect DEF Inv
<1>6. /\ zone \in [Zones -> ZoneRecords] /\ broker \in [Zones -> SUBSET Messages]
      /\ publishedRevision \in [Zones -> Nat]
      /\ occurred \in Nat /\ published \in Nat /\ dropped \in Nat
      /\ nextRevision \in Nat
      /\ len <= MaxQueuedZoneTransitions
  BY <1>b DEF Inv, TypeOK
<1>7. \A y \in Zones : /\ zone[y].revision \in Nat /\ zone[y].at \in Nat
                       /\ zone[y].revision <= nextRevision
                       /\ zone[y].at <= occurred
  BY <1>6 DEF Inv, NothingAhead, ZoneRecords
<1>8. /\ occurred = published + dropped + len
      /\ \A i \in 1..len : transitions[i].id = occurred - len + i
  BY <1>b, <1>1 DEF Inv, TransitionsAccounted
<1>9. \A i \in 1..len : /\ transitions[i] \in Transitions
                        /\ transitions[i].zone \in Zones /\ transitions[i].id \in Nat
                        /\ transitions[i].id <= zone[transitions[i].zone].at
  <2>1. \A i \in 1..len : transitions[i] \in Transitions
    BY <1>a, <1>1
  <2> QED BY <1>1, <2>1 DEF Inv, QueuedNotNewer, Transitions
<1> HIDE DEF message
<1>e. /\ ok => transitions' \in Seq(Transitions) /\ Len(transitions') = len - 1
      /\ ~ok => transitions' \in Seq(Transitions) /\ Len(transitions') = len
  BY <1>a, <1>b, <1>1, <1>3
<1>f. \A y \in Zones : /\ Place(y) = zone[y].at - (occurred - len)
                       /\ ok => Place(y)' = zone[y].at - (occurred - (len - 1))
                       /\ ~ok => Place(y)' = Place(y)
  BY <1>b, <1>3, <1>e DEF Place, Base
<1>10. /\ publishedRevision' \in [Zones -> Nat]
       /\ \A y \in Zones : publishedRevision'[y] \in {publishedRevision[y], zone[y].revision}
       /\ \A y \in Zones \ {z} : publishedRevision'[y] = publishedRevision[y]
  BY <1>2, <1>3, <1>6, <1>7
<1>11. transitions' \in Seq(Transitions) /\ Len(transitions') <= MaxQueuedZoneTransitions
  BY <1>6, <1>e
<1>12. TypeOK'
  BY <1>3, <1>5, <1>6, <1>10, <1>11 DEF Inv, TypeOK
<1>13. RecordsOK' /\ NothingAhead'
  BY <1>3, <1>7, <1>10 DEF Inv, RecordsOK, NothingAhead
<1>14. TransitionsAccounted'
  <2>1. CASE ok
    <3>1. occurred' = published' + dropped' + Len(transitions')
      BY SMTT(30), <1>3, <1>6, <1>8, <1>e, <2>1
    <3>2. ASSUME NEW i \in 1..(len - 1)
          PROVE  transitions'[i].id = occurred' - (len - 1) + i
      <4>1. i + 1 \in 1..len
        BY <1>1
      <4>2. transitions'[i] = transitions[i + 1] /\ occurred' = occurred
        BY <1>1, <1>3, <2>1
      <4>3. transitions[i + 1].id = occurred - len + (i + 1)
        BY <1>8, <4>1
      <4> QED BY <1>6, <4>2, <4>3
    <3> QED BY <1>1, <1>3, <2>1, <3>1, <3>2 DEF TransitionsAccounted
  <2>2. CASE ~ok
    BY <1>3, <2>2 DEF Inv, TransitionsAccounted
  <2> QED BY <2>1, <2>2
<1>15. \A i \in DOMAIN transitions' :
         \E j \in 1..len : transitions'[i] = transitions[j] /\ (ok => j # 1)
  <2>1. CASE ok
    <3>1. \A i \in 1..(len - 1) : i + 1 \in 1..len /\ i + 1 # 1
      BY <1>1
    <3> QED BY <1>1, <1>3, <2>1, <3>1
  <2>2. CASE ~ok
    BY <1>1, <1>3, <2>2
  <2> QED BY <2>1, <2>2
<1>16. QueuedNotNewer'
  BY <1>3, <1>9, <1>15 DEF QueuedNotNewer
<1>17. \A y \in Zones : Place(y) <= len /\ Place(y) \in Int
  BY <1>6, <1>7, <1>f
<1>18. ASSUME NEW y \in Zones, Place(y)' > 0
       PROVE  /\ transitions'[Place(y)'] = transitions[Place(y)]
              /\ Place(y)' \in DOMAIN transitions'
              /\ Place(y) > 0
  <2>1. CASE ok
    <3>1. Place(y)' = Place(y) - 1
      BY <1>6, <1>7, <1>f, <2>1
    <3>2. Place(y)' \in 1..(len - 1)
      BY <1>1, <1>17, <1>18, <3>1
    <3> QED BY <1>1, <1>3, <1>17, <2>1, <3>1, <3>2
  <2>2. CASE ~ok
    <3>1. Place(y)' = Place(y)
      BY <1>f, <2>2
    <3>2. Place(y) \in 1..len
      BY <1>1, <1>17, <1>18, <3>1
    <3> QED BY <1>1, <1>3, <1>18, <2>2, <3>1, <3>2
  <2> QED BY <2>1, <2>2
<1>19. CurrentAtPlace'
  BY <1>3, <1>18 DEF Inv, CurrentAtPlace
<1>20. \A y \in Zones : \A m \in broker[y] :
         /\ m.at \in Int /\ m.at <= zone[y].at
         /\ \A other \in broker[y] : other = m
         /\ \A i \in 1..len : transitions[i].zone = y => m.at <= transitions[i].id
  <2>1. \A y \in Zones : \A m \in broker[y] : m.at \in Int
    BY <1>6 DEF Messages
  <2> QED BY <1>1, <2>1 DEF Inv, ShownOldest
<1>21. ShownOldest'
  <2> SUFFICES ASSUME NEW y \in Zones, NEW m \in broker'[y]
               PROVE  /\ m.at <= zone[y].at
                      /\ \A other \in broker'[y] : other = m
                      /\ \A i \in DOMAIN transitions' :
                           transitions'[i].zone = y => m.at <= transitions'[i].id
    BY <1>3 DEF ShownOldest
  <2>1. CASE broker'[y] = broker[y]
    BY <1>15, <1>20, <2>1
  <2>2. CASE y = z /\ broker'[y] = {message}
    <3>1. m = message /\ \A other \in broker'[y] : other = m
      BY <2>2
    <3>2. 1 \in 1..len /\ t = transitions[1]
      BY <1>1
    <3>3. m.at <= zone[y].at
      BY <1>d, <1>4, <1>9, <2>2, <3>1, <3>2
    <3>4. \A j \in 1..len : m.at <= transitions[j].id
      BY <1>1, <1>4, <1>6, <1>8, <3>1, <3>2
    <3> QED BY <1>15, <3>1, <3>3, <3>4
  <2> QED BY <1>5, <2>1, <2>2
<1>22. ASSUME NEW y \in Zones, NEW old \in broker[y], NEW new \in broker'[y]
       PROVE  old.at <= new.at
  <2>1. CASE broker'[y] = broker[y]
    <3>1. old = new /\ old.at \in Int
      BY <1>20, <2>1
    <3> QED BY <3>1
  <2>2. CASE y = z /\ broker'[y] = {message}
    <3>1. 1 \in 1..len /\ t = transitions[1] /\ new = message
      BY <1>1, <2>2
    <3> QED BY <1>d, <1>4, <1>20, <2>2, <3>1
  <2> QED BY <1>5, <2>1, <2>2
<1>23. \A y \in Zones : Pending(y)' => Pending(y)
  BY <1>1, <1>15 DEF Pending
<1>24. \A y \in Zones : IsDeleted(y)' = IsDeleted(y)
  BY <1>3 DEF IsDeleted, ToDelete
<1>25. DeletedIsSettled'
  BY <1>23, <1>24 DEF Inv, DeletedIsSettled
<1>26. Pending(z)
  <2>1. 1 \in DOMAIN transitions /\ t = transitions[1]
    BY <1>1
  <2> QED BY <1>d, <2>1 DEF Pending
<1>27. ASSUME ~Pending(z)'
       PROVE  ok /\ message = Snapshot(z)
  <2>1. ok
    BY <1>3, <1>26, <1>27 DEF Pending
  <2>2. 1 \in 1..len /\ t = transitions[1]
    BY <1>1
  <2>3. Place(z) >= 1
    <3>1. t.id = occurred - len + 1 /\ t.id <= zone[z].at
      BY <1>d, <1>8, <1>9, <2>2
    <3> QED BY <1>6, <1>7, <1>f, <3>1
  <2>4. transitions[Place(z)].zone = z
    BY <1>2, <1>17, <2>3 DEF Inv, CurrentAtPlace
  <2>5. ~(Place(z) > 1)
    <3>1. Place(z)' = Place(z) - 1
      BY <1>6, <1>7, <1>f, <2>1
    <3> SUFFICES ASSUME Place(z) > 1
                 PROVE  Pending(z)'
      BY <1>27
    <3>2. Place(z)' > 0
      BY <1>2, <1>17, <3>1
    <3>3. transitions'[Place(z)'].zone = z /\ Place(z)' \in DOMAIN transitions'
      BY <1>2, <1>18, <2>4, <3>2
    <3> QED BY <3>3 DEF Pending
  <2>6. Place(z) = 1
    BY <1>2, <1>17, <2>3, <2>5
  <2>7. t.open = zone[z].open /\ zone[z].stateKnown
    BY <1>2, <2>2, <2>6 DEF Inv, CurrentAtPlace
  <2>8. t.id = zone[z].at
    BY <1>6, <1>7, <1>8, <1>f, <2>2, <2>6
  <2>9. zone[z].stateKnown = TRUE
    BY <1>2, <1>6, <2>7 DEF ZoneRecords
  <2>10. message = [known |-> TRUE, open |-> t.open, at |-> t.id,
                    tamper |-> zone[z].tamper]
    BY DEF message, Overridden, ZoneMessage
  <2>11. Snapshot(z) = [known |-> TRUE, open |-> t.open, at |-> t.id,
                        tamper |-> zone[z].tamper]
    BY Zenon, <2>7, <2>8, <2>9 DEF Snapshot, ZoneMessage
  <2> QED BY <2>1, <2>10, <2>11
<1>28. Mirrored'
  <2> SUFFICES ASSUME NEW y \in Zones \ lost, link = "up", ~Pending(y)'
               PROVE  /\ InInventory(y) /\ ~ToPublish(y)' => broker'[y] = {Snapshot(y)}
                      /\ IsDeleted(y) => broker'[y] = {}
    BY <1>3, <1>24 DEF Mirrored, InInventory, Snapshot, ZoneMessage
  <2>1. CASE y = z
    <3>1. broker'[z] = {Snapshot(z)}
      BY <1>5, <1>27, <2>1
    <3>2. ~IsDeleted(z)
      BY <1>2, <1>26 DEF Inv, DeletedIsSettled
    <3> QED BY <2>1, <3>1, <3>2
  <2>2. CASE y # z
    <3>1. broker'[y] = broker[y] /\ ToPublish(y)' = ToPublish(y)
      BY <1>3, <1>5, <1>10, <2>2 DEF ToPublish
    <3>2. ~Pending(y)
      <4> SUFFICES ASSUME Pending(y) PROVE Pending(y)'
        OBVIOUS
      <4>1. PICK i \in 1..len : transitions[i].zone = y
        BY <1>1 DEF Pending
      <4>2. CASE ok
        <5>1. i # 1
          BY <1>d, <1>1, <2>2, <4>1
        <5>2. i - 1 \in 1..(len - 1) /\ (i - 1) + 1 = i
          BY <1>1, <5>1
        <5>3. transitions'[i - 1] = transitions[i] /\ i - 1 \in DOMAIN transitions'
          BY <1>1, <1>3, <4>2, <5>2
        <5> QED BY <4>1, <5>3 DEF Pending
      <4>3. CASE ~ok
        BY <1>1, <1>3, <4>1, <4>3 DEF Pending
      <4> QED BY <4>2, <4>3
    <3> QED BY <3>1, <3>2 DEF Inv, Mirrored
  <2> QED BY <2>1, <2>2
<1> QED BY <1>12, <1>13, <1>14, <1>16, <1>19, <1>21, <1>22, <1>25, <1>28 DEF Inv

-----------------------------------------------------------------------------
(* The theorems.                                                           *)

LEMMA InitInv ==
  ASSUME Init
  PROVE  Inv
<1>1. /\ zone = [z \in Zones |-> NewZone]
      /\ nextRevision = 1 /\ transitions = <<>> /\ occurred = 0
      /\ publishedRevision = [z \in Zones |-> 0]
      /\ publishedMetadata = [z \in Zones |-> 0]
      /\ dropped = 0 /\ published = 0 /\ faults = 0 /\ lost = {}
      /\ link = "down" /\ cleanup = TRUE
  BY DEF Init
<1>2. broker \in [Zones -> {{}, {Leftover}}]
  BY DEF Init
<1>3. NewZone \in ZoneRecords /\ RecordOK(NewZone)
  BY DEF NewZone, ZoneRecords, RecordOK
<1>4. Leftover \in Messages /\ Leftover.at = -1
  BY DEF Leftover, Messages
<1>5. \A z \in Zones : /\ zone[z] = NewZone /\ zone[z].at = 0
                       /\ zone[z].revision = 0 /\ zone[z].metadataRevision = 0
                       /\ publishedRevision[z] = 0 /\ publishedMetadata[z] = 0
  BY <1>1 DEF NewZone
<1>6. TypeOK
  <2>1. broker \in [Zones -> SUBSET Messages]
    BY <1>2, <1>4
  <2>2. zone \in [Zones -> ZoneRecords]
    BY <1>1, <1>3
  <2>3. transitions \in Seq(Transitions) /\ Len(transitions) <= MaxQueuedZoneTransitions
    BY <1>1
  <2>4. /\ publishedRevision \in [Zones -> Nat]
        /\ publishedMetadata \in [Zones -> Nat]
    BY <1>1
  <2> QED BY <1>1, <2>1, <2>2, <2>3, <2>4 DEF TypeOK
<1>7. DOMAIN transitions = {} /\ Len(transitions) = 0
  BY <1>1
<1>8. TransitionsAccounted /\ QueuedNotNewer
  BY <1>1, <1>7 DEF TransitionsAccounted, QueuedNotNewer
<1>9. RecordsOK /\ NothingAhead
  BY <1>1, <1>3, <1>5 DEF RecordsOK, NothingAhead
<1>10. CurrentAtPlace
  BY <1>1, <1>5, <1>7 DEF CurrentAtPlace, Place, Base
<1>11. ShownOldest
  <2> SUFFICES ASSUME NEW z \in Zones, NEW message \in broker[z]
               PROVE  /\ message.at <= zone[z].at
                      /\ \A other \in broker[z] : other = message
    BY <1>7 DEF ShownOldest
  <2>1. broker[z] = {Leftover}
    BY <1>2
  <2> QED BY <1>4, <1>5, <2>1
<1>12. DeletedIsSettled /\ Mirrored
  BY <1>1, <1>7 DEF DeletedIsSettled, Pending, Mirrored
<1> QED BY <1>6, <1>8, <1>9, <1>10, <1>11, <1>12 DEF Inv

LEMMA NextKeepsInv ==
  ASSUME Inv, [Next]_vars
  PROVE  Inv'
<1>1. CASE ConsoleLine
  BY <1>1, ConsoleLineKeepsInv
<1>2. CASE Connect
  BY <1>2, ConnectKeepsInv
<1>3. CASE LinkDies \/ Disconnect \/ HomeAssistantOnline \/ PublishCleanup
  BY <1>3, LinkKeepsInv
<1>4. CASE \E ok \in BOOLEAN : PublishNext(ok)
  BY <1>4, PublishTransitionKeepsInv, RepublishKeepsInv DEF PublishNext
<1>5. CASE ZonesDone
  BY <1>5, LinkKeepsInv DEF ZonesDone
<1>6. CASE UNCHANGED vars
  BY <1>6, LinkKeepsInv
<1> QED BY <1>1, <1>2, <1>3, <1>4, <1>5, <1>6 DEF Next

LEMMA InvHolds == Spec => []Inv
<1>1. Init => Inv
  BY InitInv
<1>2. Inv /\ [Next]_vars => Inv'
  BY NextKeepsInv
<1> QED BY <1>1, <1>2, PTL DEF Spec

\* Every variable keeps its type; in particular the queue of transitions never
\* outgrows kMaxQueuedZoneTransitions.
THEOREM TypeCorrect == Spec => []TypeOK
<1>1. Inv => TypeOK
  BY DEF Inv
<1> QED BY <1>1, InvHolds, PTL

\* Publishing the queue leaves the broker with the current state of a zone.
THEOREM QueueEndsInState == Spec => []LastTransitionIsCurrent
<1>1. ASSUME Inv
      PROVE  LastTransitionIsCurrent
  <2> SUFFICES ASSUME NEW i \in DOMAIN transitions,
                      \A j \in DOMAIN transitions :
                         transitions[j].zone = transitions[i].zone => j <= i
               PROVE  /\ transitions[i].open = zone[transitions[i].zone].open
                      /\ transitions[i].id = zone[transitions[i].zone].at
    BY DEF LastTransitionIsCurrent
  <2>1. /\ transitions \in Seq(Transitions) /\ zone \in [Zones -> ZoneRecords]
        /\ occurred \in Nat
    BY <1>1 DEF Inv, TypeOK
  <2>2. PICK z \in Zones : z = transitions[i].zone
    <3>1. transitions[i] \in Transitions
      BY <2>1
    <3> QED BY <3>1 DEF Transitions
  <2>3. zone[z].at \in Nat /\ zone[z].at <= occurred
    BY <1>1, <2>1 DEF Inv, NothingAhead, ZoneRecords
  <2>4. /\ transitions[i].id = occurred - Len(transitions) + i
        /\ transitions[i].id <= zone[z].at
    BY <1>1, <2>2 DEF Inv, TransitionsAccounted, QueuedNotNewer
  <2>5. Place(z) >= i /\ Place(z) \in DOMAIN transitions
    BY <2>1, <2>3, <2>4 DEF Place, Base
  <2>6. /\ transitions[Place(z)].zone = z
        /\ transitions[Place(z)].open = zone[z].open
    BY <1>1, <2>1, <2>5 DEF Inv, CurrentAtPlace
  <2>7. Place(z) = i
    BY <2>1, <2>2, <2>5, <2>6
  <2>8. transitions[i].id = zone[z].at
    BY <2>1, <2>3, <2>4, <2>7 DEF Place, Base
  <2> QED BY <2>2, <2>6, <2>7, <2>8
<1> QED BY <1>1, InvHolds, PTL

\* No transition is skipped, published twice or lost without being counted.
THEOREM EveryTransitionAccounted == Spec => []TransitionsAccounted
<1>1. Inv => TransitionsAccounted
  BY DEF Inv
<1> QED BY <1>1, InvHolds, PTL

\* With nothing left to publish the broker mirrors every zone that lost no
\* transition to a full queue.
THEOREM BrokerMirrors == Spec => []Mirrored
<1>1. Inv => Mirrored
  BY DEF Inv
<1> QED BY <1>1, InvHolds, PTL

\* The broker never goes back to an older state of a zone.
THEOREM BrokerOnlyAdvances == Spec => ShownNeverRegresses
<1>1. ASSUME Inv, [Next]_vars
      PROVE  \A z \in Zones : \A old \in broker[z], new \in broker'[z] :
                old.at <= new.at
  <2>1. CASE \E ok \in BOOLEAN : PublishNext(ok)
    BY <1>1, <2>1, PublishTransitionKeepsInv, RepublishKeepsInv DEF PublishNext
  <2>2. CASE UNCHANGED broker
    <3>1. \A z \in Zones : \A message \in broker[z] : message.at \in Int
      BY <1>1 DEF Inv, TypeOK, Messages
    <3> QED BY <1>1, <2>2, <3>1 DEF Inv, ShownOldest
  <2>3. ConsoleLine => UNCHANGED broker
    BY DEF ConsoleLine, RecordZoneState, RecordZoneTamper, RecordZonePacket,
           RecordZoneConfiguration, FinishTroubleSnapshot, mqttVars
  <2>4. ASSUME ~\E ok \in BOOLEAN : PublishNext(ok)
        PROVE  UNCHANGED broker
    BY <1>1, <2>3, <2>4 DEF Next, Connect, LinkDies, Disconnect,
           HomeAssistantOnline, PublishCleanup, ZonesDone, vars, mqttVars
  <2> QED BY <2>1, <2>2, <2>4
<1>2. Inv /\ [Next]_vars
        => [\A z \in Zones : \A old \in broker[z], new \in broker'[z] :
              old.at <= new.at]_vars
  BY <1>1
<1> QED BY <1>2, InvHolds, PTL DEF Spec, ShownNeverRegresses
=============================================================================
