----------------------- MODULE TroubleSnapshot_proofs -----------------------
(***************************************************************************)
(* Proofs about TroubleSnapshot, for every set of zones, every size of the *)
(* table and any number of changes, answers and faults.                    *)
(***************************************************************************)
EXTENDS TroubleSnapshot, FiniteSetTheorems, SequenceTheorems, TLAPS

\* The tables have one value for every slot.
OfSlots(table) == table = [s \in Slots |-> table[s]]

Shapes ==
  /\ OfSlots(pending) /\ OfSlots(troubles) /\ OfSlots(entries)
  /\ known \in BOOLEAN
  /\ link \in {"down", "up", "dead"}
  /\ stage \in 0..MaxTroubles
  /\ revision \in Nat /\ publishing \in Nat /\ publishedRevision \in Nat

\* Revisions only grow: what was published is no newer than the table, and a
\* bridge that knows a table has given it a revision.
InOrder ==
  /\ publishing <= revision /\ publishedRevision <= revision
  /\ known => revision > 0

\* On a working connection, while the table is the one that the publication
\* began with, the summary and the slots before the stage are its own.
Progress ==
  link = "up" /\ stage # 0 /\ publishing = revision /\ known =>
    /\ summary = {Summary(troubles)}
    /\ \A s \in Slots : s < stage - 1 => entries[s] = troubles[s]

Inv == Shapes /\ InOrder /\ Progress /\ TroublesMirrored

USE TroubleAssumption

-----------------------------------------------------------------------------
(* Types.                                                                  *)

LEMMA EmptyTableType == EmptyTable \in Tables
BY DEF EmptyTable, Tables

LEMMA FullTableType == FullTable \in Tables
<1>1. (CHOOSE z \in Zones : TRUE) \in Zones
  OBVIOUS
<1>2. [zone |-> CHOOSE z \in Zones : TRUE, active |-> TRUE] \in Entries
  BY <1>1 DEF Entries
<1>3. QED
  BY <1>2 DEF FullTable, Tables

LEMMA SlotWritten ==
  ASSUME NEW table \in Tables, NEW s \in Slots, NEW v \in SUBSET Entries
  PROVE  [table EXCEPT ![s] = v] \in Tables
BY DEF Tables

\* What one slot holds, and what a row of it says, is an entry.
LEMMA EntryOfType ==
  ASSUME NEW line \in Lines
  PROVE  EntryOf(line) \in Entries /\ line.slot \in Slots
BY DEF Lines, EntryOf, Entries

\* The counts in a summary are numbers, for a table has finitely many slots.
LEMMA SummaryType ==
  ASSUME NEW table
  PROVE  Summary(table) \in Summaries
<1>1. IsFiniteSet(Slots)
  BY FS_Interval DEF Slots
<1>2. /\ IsFiniteSet({s \in Slots : table[s] # {}})
      /\ IsFiniteSet(ActiveSlots(table))
  BY <1>1, FS_Subset DEF ActiveSlots
<1>3. Count(table) \in Nat /\ Cardinality(ActiveSlots(table)) \in Nat
  BY <1>2, FS_CardinalityType DEF Count
<1>4. QED
  BY <1>3 DEF Summary, Summaries

\* A printout is a sequence of rows, each with an entry of the table.
LEMMA PrintoutsType ==
  ASSUME NEW table, NEW rows \in Printouts(table)
  PROVE  /\ rows \in Seq(Lines)
         /\ \A i \in DOMAIN rows : rows[i] \in Rows(table)
<1>1. IsFiniteSet(Slots)
  BY FS_Interval DEF Slots
<1>2. IsFiniteSet({s \in Slots : table[s] # {}})
  BY <1>1, FS_Subset
<1>3. Count(table) \in Nat
  BY <1>2, FS_CardinalityType DEF Count
<1>4. rows \in [1..Count(table) -> Rows(table)]
  BY DEF Printouts
<1>5. Rows(table) \subseteq Lines
  BY DEF Rows
<1>6. QED
  BY <1>3, <1>4, <1>5

\* TypeOK by the variables that an action leaves alone together.
PanelTypes ==
  /\ memory \in Tables /\ asked \in 0..MaxAsked
  /\ changes \in 0..MaxChanges /\ answer \in Tables

StateTypes ==
  /\ active \in BOOLEAN /\ timer \in BOOLEAN
  /\ timer => active
  /\ pending \in Tables /\ troubles \in Tables
  /\ known \in BOOLEAN
  /\ tamper \in SUBSET Zones
  /\ revision \in Nat

MqttTypes ==
  /\ link \in {"down", "up", "dead"}
  /\ stage \in 0..MaxTroubles
  /\ publishing \in Nat /\ publishedRevision \in Nat
  /\ summary \in SUBSET Summaries /\ entries \in Tables
  /\ faults \in 0..MaxFaults

HistoryTypes == clean \in BOOLEAN /\ still \in BOOLEAN /\ settled \in BOOLEAN

WireTypes == wire \in Seq(Lines) /\ slow \in 0..MaxSlow

LEMMA TypeParts ==
  TypeOK <=> PanelTypes /\ StateTypes /\ MqttTypes /\ HistoryTypes /\ WireTypes
BY Zenon
DEF TypeOK, PanelTypes, StateTypes, MqttTypes, HistoryTypes, WireTypes

LEMMA PartsPrimed ==
  PanelTypes' /\ StateTypes' /\ MqttTypes' /\ HistoryTypes' /\ WireTypes'
    => TypeOK'
BY TypeParts, PTL

LEMMA UnchangedParts ==
  ASSUME TypeOK
  PROVE  /\ UNCHANGED panelVars => PanelTypes'
         /\ UNCHANGED stateVars => StateTypes'
         /\ UNCHANGED mqttVars => MqttTypes'
         /\ UNCHANGED historyVars => HistoryTypes'
<1>1. UNCHANGED panelVars => PanelTypes'
  BY TypeParts DEF panelVars, PanelTypes
<1>2. UNCHANGED stateVars => StateTypes'
  BY TypeParts DEF stateVars, StateTypes
<1>3. UNCHANGED mqttVars => MqttTypes'
  BY TypeParts DEF mqttVars, MqttTypes
<1>4. UNCHANGED historyVars => HistoryTypes'
  BY TypeParts DEF historyVars, HistoryTypes
<1>5. QED
  BY <1>1, <1>2, <1>3, <1>4

LEMMA InitType == Init => TypeOK
<1> SUFFICES ASSUME Init PROVE TypeOK
  OBVIOUS
<1>1. /\ memory \in Tables /\ pending \in Tables /\ troubles \in Tables
      /\ entries \in Tables /\ answer \in Tables
  BY EmptyTableType, FullTableType DEF Init
<1>2. wire \in Seq(Lines)
  BY EmptySeq DEF Init
<1>3. summary \in SUBSET Summaries
  BY SummaryType DEF Init
<1>4. /\ active \in BOOLEAN /\ timer \in BOOLEAN /\ known \in BOOLEAN
      /\ clean \in BOOLEAN /\ still \in BOOLEAN /\ settled \in BOOLEAN
  BY Zenon DEF Init
<1>5. QED
  BY <1>1, <1>2, <1>3, <1>4, TroubleBounds DEF Init, TypeOK

\* A change of the memory appends at most one live line.
LEMMA ChangeType ==
  ASSUME TypeOK, NEW s \in Slots,
         Restore(s) \/ Clear(s) \/ \E z \in Zones : Raise(s, z)
  PROVE  TypeOK'
<1>1. /\ changes < MaxChanges /\ changes' = changes + 1
      /\ still' = FALSE /\ settled' = FALSE
      /\ UNCHANGED <<asked, answer, slow, stateVars, mqttVars, clean>>
  BY DEF Restore, Clear, Raise, Change
<1>2. memory' \in Tables /\ wire' \in Seq(Lines)
  <2>1. CASE Restore(s)
    <3>1. PICK e \in memory[s] :
            /\ memory' =
                 [memory EXCEPT ![s] = {[zone |-> e.zone, active |-> FALSE]}]
            /\ wire' = Append(wire, Live(s, e.zone, FALSE))
      BY <2>1 DEF Restore
    <3>2. e \in Entries
      BY DEF TypeOK, Tables
    <3>3. {[zone |-> e.zone, active |-> FALSE]} \in SUBSET Entries
      BY <3>2 DEF Entries
    <3>4. Live(s, e.zone, FALSE) \in Lines
      BY <3>2 DEF Live, Lines, Entries
    <3>5. QED
      BY <3>1, <3>3, <3>4, SlotWritten, AppendProperties DEF TypeOK
  <2>2. CASE Clear(s)
    <3>1. memory' = [memory EXCEPT ![s] = {}] /\ wire' = wire
      BY <2>2 DEF Clear
    <3>2. QED
      BY <3>1, SlotWritten DEF TypeOK
  <2>3. ASSUME NEW z \in Zones, Raise(s, z)
        PROVE  memory' \in Tables /\ wire' \in Seq(Lines)
    <3>1. /\ memory' =
               [memory EXCEPT ![s] = {[zone |-> z, active |-> TRUE]}]
          /\ wire' = Append(wire, Live(s, z, TRUE))
      BY <2>3 DEF Raise
    <3>2. {[zone |-> z, active |-> TRUE]} \in SUBSET Entries
      BY DEF Entries
    <3>3. Live(s, z, TRUE) \in Lines
      BY DEF Live, Lines
    <3>4. QED
      BY <3>1, <3>2, <3>3, SlotWritten, AppendProperties DEF TypeOK
  <2>4. QED
    BY <2>1, <2>2, <2>3
<1>3. PanelTypes'
  BY <1>1, <1>2, TroubleBounds DEF TypeOK, PanelTypes
<1>4. HistoryTypes'
  BY <1>1, TypeParts DEF HistoryTypes
<1>5. WireTypes'
  BY <1>1, <1>2, TypeParts DEF WireTypes
<1>6. QED
  BY <1>1, <1>3, <1>4, <1>5, UnchangedParts, PartsPrimed

LEMMA AnswerType ==
  ASSUME TypeOK, Answer \/ LoseCommand
  PROVE  TypeOK'
<1>1. CASE Answer
  <2>1. PICK rows \in Printouts(memory) : wire' = wire \o rows
    BY <1>1 DEF Answer
  <2>2. wire' \in Seq(Lines)
    BY <2>1, PrintoutsType, ConcatProperties DEF TypeOK
  <2>3. PanelTypes' /\ WireTypes'
    BY <1>1, <2>2, TypeParts, TroubleBounds DEF Answer, PanelTypes, WireTypes
  <2>4. UNCHANGED <<stateVars, mqttVars, historyVars>>
    BY <1>1 DEF Answer
  <2>5. QED
    BY <2>3, <2>4, UnchangedParts, PartsPrimed
<1>2. CASE LoseCommand
  <2>1. PanelTypes' /\ WireTypes'
    BY <1>2, TypeParts, TroubleBounds
    DEF LoseCommand, Slow, PanelTypes, WireTypes
  <2>2. HistoryTypes'
    BY <1>2, TypeParts DEF LoseCommand, HistoryTypes
  <2>3. UNCHANGED <<stateVars, mqttVars>>
    BY <1>2 DEF LoseCommand
  <2>4. QED
    BY <2>1, <2>2, <2>3, UnchangedParts, PartsPrimed
<1>3. QED
  BY <1>1, <1>2

LEMMA PollTroubleType ==
  ASSUME TypeOK, PollTrouble
  PROVE  TypeOK'
<1>1. clean' \in BOOLEAN
  BY Zenon DEF PollTrouble, AnswerIn
<1>2. QED
  BY <1>1, EmptyTableType, TroubleBounds DEF PollTrouble, TypeOK, mqttVars

LEMMA ProcessLineType ==
  ASSUME TypeOK, ProcessLine
  PROVE  TypeOK'
<1> DEFINE line == Head(wire)
<1>1. line \in Lines /\ wire' \in Seq(Lines)
  BY HeadTailProperties DEF ProcessLine, TypeOK
<1>2. UNCHANGED <<panelVars, slow, mqttVars, historyVars>>
  BY DEF ProcessLine
<1>3. CASE RecordTrouble(line)
  <2>1. PICK collected \in {pending, EmptyTable} :
          /\ active' = TRUE
          /\ pending' = [collected EXCEPT ![line.slot] = {EntryOf(line)}]
          /\ UNCHANGED <<timer, troubles, known, tamper, revision>>
    BY <1>3 DEF RecordTrouble
  <2>2. collected \in Tables
    BY EmptyTableType DEF TypeOK
  <2>3. pending' \in Tables
    BY <1>1, <2>1, <2>2, EntryOfType, SlotWritten
  <2>4. QED
    BY <1>1, <1>2, <2>1, <2>3 DEF TypeOK, panelVars, mqttVars, historyVars
<1>4. CASE RecordZoneTroubleLive(line)
  <2>1. tamper' \in SUBSET Zones
    BY <1>1, <1>4 DEF RecordZoneTroubleLive, Lines, TypeOK
  <2>2. QED
    BY <1>1, <1>2, <1>4, <2>1
    DEF RecordZoneTroubleLive, TypeOK, panelVars, mqttVars, historyVars
<1>5. QED
  BY <1>3, <1>4 DEF ProcessLine

LEMMA FinishSnapshotType ==
  ASSUME TypeOK, FinishSnapshot
  PROVE  TypeOK'
<1>1. settled' \in BOOLEAN
  BY Zenon DEF FinishSnapshot
<1>2. slow' \in 0..MaxSlow
  BY TroubleBounds DEF FinishSnapshot, Slow, TypeOK
<1>3. /\ timer' = FALSE /\ active' = FALSE /\ troubles' = pending
      /\ known' = TRUE /\ pending' = pending
      /\ revision' \in {revision, revision + 1}
      /\ UNCHANGED <<panelVars, wire, mqttVars, clean, still>>
  BY DEF FinishSnapshot, Replace, NewRevision
<1>4. tamper' \in SUBSET Zones
  BY DEF FinishSnapshot, Replace, Troubled
<1>5. StateTypes'
  <2>1. /\ pending \in Tables /\ revision \in Nat
    BY DEF TypeOK
  <2>2. /\ active' \in BOOLEAN /\ timer' \in BOOLEAN /\ (timer' => active')
        /\ known' \in BOOLEAN
    BY <1>3
  <2>3. QED
    BY <1>3, <1>4, <2>1, <2>2 DEF StateTypes
<1>6. HistoryTypes' /\ WireTypes'
  BY <1>1, <1>2, <1>3, TypeParts DEF HistoryTypes, WireTypes
<1>7. QED
  BY <1>3, <1>5, <1>6, UnchangedParts, PartsPrimed

LEMMA LinkType ==
  ASSUME TypeOK, Connect \/ LinkDies \/ Disconnect
  PROVE  TypeOK'
<1>1. faults' \in 0..MaxFaults /\ link' \in {"down", "up", "dead"}
  BY TroubleBounds DEF Connect, LinkDies, Disconnect, Fault, TypeOK
<1>2. /\ stage' \in {stage, 0} /\ publishing' \in {publishing, 0}
      /\ publishedRevision' \in {publishedRevision, 0}
      /\ revision' \in {revision, revision + 1}
  BY DEF Connect, LinkDies, Disconnect, NewRevision, stateVars
<1>3. UNCHANGED <<panelVars, wire, slow, active, timer, pending, troubles,
                  known, tamper, summary, entries, historyVars>>
  BY DEF Connect, LinkDies, Disconnect, stateVars
<1>4. QED
  BY <1>1, <1>2, <1>3 DEF TypeOK, panelVars, historyVars

LEMMA PublishSummaryType ==
  ASSUME TypeOK, NEW ok \in BOOLEAN, PublishSummary(ok)
  PROVE  TypeOK'
<1>1. faults' \in 0..MaxFaults
  BY TroubleBounds DEF PublishSummary, Sent, Fault, TypeOK
<1>2. summary' \in SUBSET Summaries
  BY SummaryType DEF PublishSummary, TypeOK
<1>3. /\ publishing' = revision /\ stage' \in {0, 1}
      /\ UNCHANGED <<panelVars, wire, slow, stateVars, historyVars, link,
                     publishedRevision, entries>>
  BY DEF PublishSummary
<1>4. QED
  BY <1>1, <1>2, <1>3 DEF TypeOK, panelVars, stateVars, historyVars

LEMMA PublishEntryType ==
  ASSUME TypeOK, NEW ok \in BOOLEAN, PublishEntry(ok)
  PROVE  TypeOK'
<1> DEFINE slot == stage - 1
<1>1. faults' \in 0..MaxFaults
  BY TroubleBounds DEF PublishEntry, Sent, Fault, TypeOK
<1>2. slot \in Slots
  BY DEF PublishEntry, TypeOK, Slots
<1>3. troubles[slot] \in SUBSET Entries
  BY <1>2 DEF TypeOK, Tables
<1>4. \/ entries' = entries
      \/ entries' = [entries EXCEPT ![slot] = troubles[slot]]
  BY DEF PublishEntry
<1>5. entries' \in Tables
  <2>1. entries \in Tables
    BY DEF TypeOK
  <2>2. [entries EXCEPT ![slot] = troubles[slot]] \in Tables
    BY <1>2, <1>3, <2>1, SlotWritten
  <2>3. QED
    BY <1>4, <2>1, <2>2
<1>6. /\ publishedRevision' \in {publishing, publishedRevision}
      /\ UNCHANGED <<panelVars, wire, slow, stateVars, historyVars, link,
                     publishing, summary>>
      /\ stage' = (IF ~ok THEN stage ELSE IF stage = MaxTroubles THEN 0
                   ELSE stage + 1)
  BY DEF PublishEntry
<1>7. stage' \in 0..MaxTroubles
  BY <1>6 DEF TypeOK
<1>8. QED
  BY <1>1, <1>5, <1>6, <1>7 DEF TypeOK, panelVars, stateVars, historyVars

LEMMA NextType == TypeOK /\ [Next]_vars => TypeOK'
<1> SUFFICES ASSUME TypeOK, [Next]_vars PROVE TypeOK'
  OBVIOUS
<1>1. CASE Panel
  BY <1>1, ChangeType, AnswerType DEF Panel
<1>2. CASE Bridge
  BY <1>2, PollTroubleType, ProcessLineType, FinishSnapshotType DEF Bridge
<1>3. CASE Mqtt
  BY <1>3, LinkType, PublishSummaryType, PublishEntryType DEF Mqtt, PublishNext
<1>4. CASE UNCHANGED vars
  BY <1>4 DEF TypeOK, vars, panelVars, stateVars, mqttVars, historyVars
<1>5. QED
  BY <1>1, <1>2, <1>3, <1>4 DEF Next

\* Every variable keeps its type: no stage beyond the last slot, and a
\* settling time only for a snapshot that is being collected (publishNext,
\* finishTimedSnapshots).
THEOREM TypeCorrect == Spec => []TypeOK
BY InitType, NextType, PTL DEF Spec

-----------------------------------------------------------------------------
(* The publication of a table.                                             *)

\* A table with one slot written is still a table.
LEMMA WrittenTable ==
  ASSUME NEW table, OfSlots(table), NEW s \in Slots, NEW v
  PROVE  OfSlots([table EXCEPT ![s] = v])
BY DEF OfSlots

LEMMA InitInv == Init => Inv
<1> SUFFICES ASSUME Init PROVE Inv
  OBVIOUS
<1>1. OfSlots(EmptyTable) /\ OfSlots(FullTable)
  BY DEF OfSlots, EmptyTable, FullTable
<1>2. known \in BOOLEAN
  BY Zenon DEF Init
<1>3. QED
  BY <1>1, <1>2 DEF Init, Inv, Shapes, InOrder, Progress, TroublesMirrored

\* The panel writes none of the bridge's state.
LEMMA PanelInv ==
  ASSUME Inv, Panel
  PROVE  Inv'
<1>1. UNCHANGED <<stateVars, mqttVars>>
  BY DEF Panel, Raise, Restore, Clear, Change, Answer, LoseCommand
<1>2. QED
  BY <1>1 DEF Inv, Shapes, OfSlots, InOrder, Progress, TroublesMirrored,
              ToPublish, stateVars, mqttVars

\* Collecting rows and live lines touches neither table nor revision.
LEMMA CollectInv ==
  ASSUME Inv, PollTrouble \/ ProcessLine
  PROVE  Inv'
<1>1. UNCHANGED <<troubles, known, revision, mqttVars>>
  BY DEF PollTrouble, ProcessLine, RecordTrouble, RecordZoneTroubleLive
<1>2. OfSlots(pending')
  BY WrittenTable
  DEF Inv, Shapes, OfSlots, PollTrouble, ProcessLine, RecordTrouble,
      RecordZoneTroubleLive, EmptyTable
<1>3. QED
  BY <1>1, <1>2
  DEF Inv, Shapes, OfSlots, InOrder, Progress, TroublesMirrored, ToPublish,
      mqttVars

\* A new table has a new revision, newer than any that was published.
LEMMA FinishSnapshotInv ==
  ASSUME Inv, FinishSnapshot
  PROVE  Inv'
<1>1. /\ troubles' = pending /\ known' = TRUE /\ pending' = pending
      /\ UNCHANGED mqttVars
  BY DEF FinishSnapshot, Replace
<1>2. \/ known /\ troubles' = troubles /\ revision' = revision
      \/ revision' = revision + 1
  BY DEF FinishSnapshot, Replace, NewRevision
<1>3. Shapes' /\ InOrder'
  BY <1>1, <1>2 DEF Inv, Shapes, OfSlots, InOrder, mqttVars
<1>4. Progress' /\ TroublesMirrored'
  BY <1>1, <1>2
  DEF Inv, Shapes, InOrder, Progress, TroublesMirrored, ToPublish, mqttVars
<1>5. QED
  BY <1>3, <1>4 DEF Inv

\* A new connection has everything to publish.
LEMMA ConnectInv ==
  ASSUME Inv, Connect
  PROVE  Inv'
<1>1. revision' = (IF known THEN revision + 1 ELSE revision)
  BY DEF Connect, NewRevision
<1>2. QED
  BY <1>1
  DEF Inv, Shapes, OfSlots, InOrder, Progress, TroublesMirrored, ToPublish,
      Connect

\* Nothing is claimed of a connection that is not up.
LEMMA LinkInv ==
  ASSUME Inv, LinkDies \/ Disconnect
  PROVE  Inv'
<1>1. link' # "up" /\ link' \in {"down", "up", "dead"}
  BY DEF LinkDies, Disconnect
<1>2. QED
  BY <1>1
  DEF Inv, Shapes, OfSlots, InOrder, Progress, TroublesMirrored, LinkDies,
      Disconnect, stateVars

\* The publication starts with the summary and remembers the revision.
LEMMA PublishSummaryInv ==
  ASSUME Inv, NEW ok \in BOOLEAN, PublishSummary(ok)
  PROVE  Inv'
<1>1. /\ UNCHANGED <<stateVars, link, publishedRevision, entries>>
      /\ publishing' = revision /\ stage = 0
      /\ revision # publishedRevision
      /\ stage' = (IF ok THEN 1 ELSE 0)
  BY DEF PublishSummary
<1>2. link = "up" /\ ok /\ known => summary' = {Summary(troubles)}
  BY DEF PublishSummary, GetsLost
<1>3. Shapes' /\ InOrder'
  BY <1>1 DEF Inv, Shapes, OfSlots, InOrder, stateVars
<1>4. Progress'
  BY <1>1, <1>2 DEF Inv, Shapes, Progress, stateVars, Slots
<1>5. TroublesMirrored'
  BY <1>1 DEF TroublesMirrored, ToPublish, stateVars
<1>6. QED
  BY <1>3, <1>4, <1>5 DEF Inv

\* One slot is written; after the last one the table is mirrored, if it still
\* is the one that the publication began with.
LEMMA PublishEntryInv ==
  ASSUME Inv, NEW ok \in BOOLEAN, PublishEntry(ok)
  PROVE  Inv'
<1> DEFINE slot == stage - 1
<1>1. /\ UNCHANGED <<stateVars, link, publishing, summary>>
      /\ stage # 0
      /\ stage' = (IF ~ok THEN stage ELSE IF stage = MaxTroubles THEN 0
                   ELSE stage + 1)
      /\ publishedRevision' = (IF ok /\ stage = MaxTroubles THEN publishing
                               ELSE publishedRevision)
  BY DEF PublishEntry
<1>2. /\ \/ entries' = [entries EXCEPT ![slot] = troubles[slot]]
         \/ entries' = entries
      /\ link = "up" /\ ok =>
           entries' = [entries EXCEPT ![slot] = troubles[slot]]
  BY DEF PublishEntry, GetsLost
<1>3. slot \in Slots
  BY <1>1 DEF Inv, Shapes, Slots
<1>4. OfSlots(entries')
  BY <1>2, <1>3, WrittenTable DEF Inv, Shapes
<1>5. Shapes' /\ InOrder'
  BY <1>1, <1>4 DEF Inv, Shapes, OfSlots, InOrder, stateVars
<1>6. ASSUME link = "up", publishing = revision, known
      PROVE  /\ summary' = {Summary(troubles)}
             /\ \A s \in Slots : s < slot => entries'[s] = troubles[s]
             /\ ok => entries'[slot] = troubles[slot]
  BY <1>1, <1>2, <1>3, <1>6 DEF Inv, Shapes, OfSlots, Progress
<1>7. Progress'
  BY <1>1, <1>6 DEF Inv, Shapes, Progress, stateVars, Slots
<1>8. TroublesMirrored'
  <2> SUFFICES ASSUME link = "up", known, stage' = 0,
                      revision = publishedRevision'
               PROVE  summary' = {Summary(troubles)} /\ entries' = troubles
    BY <1>1 DEF TroublesMirrored, ToPublish, stateVars
  <2>1. ok /\ stage = MaxTroubles /\ publishing = revision
    BY <1>1 DEF Inv, Shapes
  <2>2. \A s \in Slots : entries'[s] = troubles[s]
    BY <1>3, <1>6, <2>1 DEF Slots
  <2>3. QED
    BY <1>4, <1>6, <2>1, <2>2 DEF Inv, Shapes, OfSlots
<1>9. QED
  BY <1>5, <1>7, <1>8 DEF Inv

LEMMA NextInv == Inv /\ [Next]_vars => Inv'
<1> SUFFICES ASSUME Inv, [Next]_vars PROVE Inv'
  OBVIOUS
<1>1. CASE Panel
  BY <1>1, PanelInv
<1>2. CASE Bridge
  BY <1>2, CollectInv, FinishSnapshotInv DEF Bridge
<1>3. CASE Mqtt
  BY <1>3, ConnectInv, LinkInv, PublishSummaryInv, PublishEntryInv
  DEF Mqtt, PublishNext
<1>4. CASE UNCHANGED vars
  BY <1>4
  DEF Inv, Shapes, OfSlots, InOrder, Progress, TroublesMirrored, ToPublish,
      vars, stateVars, mqttVars
<1>5. QED
  BY <1>1, <1>2, <1>3, <1>4 DEF Next

-----------------------------------------------------------------------------
\* Whatever replaces the table while it is being published, slot by slot, and
\* however often the connection breaks: a connection with nothing to publish
\* shows exactly the bridge's table (publishNext).
THEOREM TroublesAlwaysMirrored == Spec => []TroublesMirrored
<1>1. Inv => TroublesMirrored
  BY DEF Inv
<1>2. QED
  BY <1>1, InitInv, NextInv, PTL DEF Spec

-----------------------------------------------------------------------------
(* The collection of a table.                                              *)

\* The panel keeps at most one entry in a slot.
Single == \A s \in Slots : \A e, f \in memory[s] : e = f

RowFor(s) == \E i \in DOMAIN wire : wire[i].kind = "row" /\ wire[i].slot = s

\* The rows on their way are those of the last answer, and a slot for which
\* none is on its way has been collected.
Arriving ==
  /\ \A i \in DOMAIN wire :
       wire[i].kind = "row" => answer[wire[i].slot] = {EntryOf(wire[i])}
  /\ \A s \in Slots : ~RowFor(s) => pending[s] = answer[s]

\* A snapshot that began with nothing outstanding has nothing of any other
\* answer than its own.
Collecting ==
  timer /\ clean =>
    \/ asked = 1 /\ NoRows /\ pending = EmptyTable
    \/ asked = 0 /\ Arriving

\* The answer to such a snapshot is the memory until that changes.
Current == timer /\ clean /\ asked = 0 /\ still => answer = memory

\* After a complete poll no live line is on its way until the memory changes.
Reconciled ==
  settled => /\ troubles = memory /\ tamper = Troubled(memory)
             /\ \A i \in DOMAIN wire : wire[i].kind = "row"

SnapshotInv == TypeOK /\ Single /\ Collecting /\ Current /\ Reconciled

LEMMA InitSnapshot == Init => SnapshotInv
<1> SUFFICES ASSUME Init PROVE SnapshotInv
  OBVIOUS
<1>1. Single
  <2>1. CASE memory = EmptyTable
    BY <2>1 DEF Single, EmptyTable
  <2>2. CASE memory = FullTable
    BY <2>2 DEF Single, FullTable
  <2>3. QED
    BY <2>1, <2>2 DEF Init
<1>2. Collecting /\ Current /\ Reconciled
  BY DEF Init, Collecting, Current, Reconciled
<1>3. QED
  BY <1>1, <1>2, InitType DEF SnapshotInv

\* A live line at the end of the wire leaves the rows as they are.
LEMMA LiveAppended ==
  ASSUME TypeOK, NEW line \in Lines, line.kind = "live",
         wire' = Append(wire, line), UNCHANGED <<answer, pending>>
  PROVE  (NoRows => NoRows') /\ (Arriving => Arriving')
<1>1. /\ wire \in Seq(Lines) /\ DOMAIN wire = 1..Len(wire)
      /\ DOMAIN wire' = 1..(Len(wire) + 1) /\ Len(wire) \in Nat
      /\ \A i \in DOMAIN wire : wire'[i] = wire[i]
      /\ wire'[Len(wire) + 1] = line
  BY AppendProperties, LenProperties DEF TypeOK
<1>2. \A i \in DOMAIN wire' :
        wire'[i].kind = "row" => i \in DOMAIN wire /\ wire'[i] = wire[i]
  BY <1>1
<1>3. NoRows => NoRows'
  BY <1>2 DEF NoRows
<1>4. \A s \in Slots : RowFor(s) => RowFor(s)'
  <2> SUFFICES ASSUME NEW s \in Slots, NEW i \in DOMAIN wire,
                      wire[i].kind = "row", wire[i].slot = s
               PROVE  RowFor(s)'
    BY DEF RowFor
  <2>1. i \in DOMAIN wire' /\ wire'[i] = wire[i]
    BY <1>1
  <2>2. QED
    BY <2>1 DEF RowFor
<1>5. Arriving => Arriving'
  BY <1>2, <1>4 DEF Arriving
<1>6. QED
  BY <1>3, <1>5

\* A change of the memory leaves one entry in a slot, and ends what is said of
\* an unchanged one.
LEMMA ChangeSnapshot ==
  ASSUME SnapshotInv, NEW s \in Slots,
         Restore(s) \/ Clear(s) \/ \E z \in Zones : Raise(s, z)
  PROVE  SnapshotInv'
<1>1. /\ still' = FALSE /\ settled' = FALSE
      /\ UNCHANGED <<asked, answer, timer, pending, clean>>
  BY DEF Restore, Clear, Raise, Change, stateVars
<1>2. TypeOK /\ TypeOK'
  BY ChangeType DEF SnapshotInv
<1>3. \/ memory' = [memory EXCEPT ![s] = {}]
      \/ \E e : memory' = [memory EXCEPT ![s] = {e}]
  BY DEF Restore, Clear, Raise
<1>4. \/ wire' = wire
      \/ \E line \in Lines : line.kind = "live" /\ wire' = Append(wire, line)
  <2>1. CASE Restore(s)
    <3>1. PICK e \in memory[s] : wire' = Append(wire, Live(s, e.zone, FALSE))
      BY <2>1 DEF Restore
    <3>2. e \in Entries
      BY <1>2 DEF TypeOK, Tables
    <3>3. QED
      BY <3>1, <3>2 DEF Live, Lines, Entries
  <2>2. CASE Clear(s)
    BY <2>2 DEF Clear
  <2>3. ASSUME NEW z \in Zones, Raise(s, z)
        PROVE  \E line \in Lines :
                 line.kind = "live" /\ wire' = Append(wire, line)
    <3>1. wire' = Append(wire, Live(s, z, TRUE))
      BY <2>3 DEF Raise
    <3>2. QED
      BY <3>1 DEF Live, Lines
  <2>4. QED
    BY <2>1, <2>2, <2>3
<1>5. Single'
  <2>1. \A e, f \in memory'[s] : e = f
    BY <1>2, <1>3 DEF TypeOK, Tables
  <2>2. \A r \in Slots : r # s => memory'[r] = memory[r]
    BY <1>2, <1>3 DEF TypeOK, Tables
  <2>3. QED
    BY <2>1, <2>2 DEF SnapshotInv, Single
<1>6. (NoRows => NoRows') /\ (Arriving => Arriving')
  <2>1. CASE wire' = wire
    BY <1>1, <2>1 DEF NoRows, Arriving, RowFor
  <2>2. QED
    BY <1>1, <1>2, <1>4, <2>1, LiveAppended
<1>7. Collecting'
  BY <1>1, <1>6 DEF SnapshotInv, Collecting, EmptyTable
<1>8. Current' /\ Reconciled'
  BY <1>1 DEF Current, Reconciled
<1>9. QED
  BY <1>2, <1>5, <1>7, <1>8 DEF SnapshotInv

\* What the panel prints for its memory has a row for every entry, saying so.
LEMMA PrintoutSays ==
  ASSUME TypeOK, Single, NEW rows \in Printouts(memory)
  PROVE  /\ rows \in Seq(Lines)
         /\ \A i \in DOMAIN rows :
              /\ rows[i].kind = "row"
              /\ memory[rows[i].slot] = {EntryOf(rows[i])}
         /\ \A s \in Slots :
              memory[s] # {} => \E i \in DOMAIN rows : rows[i].slot = s
<1>1. /\ rows \in Seq(Lines)
      /\ \A i \in DOMAIN rows : rows[i] \in Rows(memory)
  BY PrintoutsType
<1>2. \A i \in DOMAIN rows :
        /\ rows[i].kind = "row" /\ rows[i].slot \in Slots
        /\ EntryOf(rows[i]) \in memory[rows[i].slot]
  BY <1>1, EntryOfType DEF Rows
<1>3. QED
  BY <1>1, <1>2 DEF Printouts, Single

LEMMA AnswerSnapshot ==
  ASSUME SnapshotInv, Answer
  PROVE  SnapshotInv'
<1>1. TypeOK /\ TypeOK' /\ Single
  BY AnswerType DEF SnapshotInv
<1>2. PICK rows \in Printouts(memory) : wire' = wire \o rows
  BY DEF Answer
<1>3. /\ asked > 0 /\ asked' = asked - 1 /\ answer' = memory
      /\ UNCHANGED <<memory, timer, pending, troubles, tamper, clean, still,
                     settled>>
  BY DEF Answer, stateVars, historyVars
<1>4. /\ rows \in Seq(Lines)
      /\ \A i \in DOMAIN rows :
           /\ rows[i].kind = "row"
           /\ memory[rows[i].slot] = {EntryOf(rows[i])}
      /\ \A s \in Slots :
           memory[s] # {} => \E i \in DOMAIN rows : rows[i].slot = s
  BY <1>1, PrintoutSays
<1>5. \A i \in DOMAIN wire' :
        \/ i \in DOMAIN wire /\ wire'[i] = wire[i]
        \/ \E j \in DOMAIN rows : wire'[i] = rows[j]
  <2>1. /\ wire \in Seq(Lines) /\ DOMAIN wire = 1..Len(wire)
        /\ DOMAIN rows = 1..Len(rows) /\ DOMAIN wire' = 1..(Len(wire) + Len(rows))
        /\ Len(wire) \in Nat /\ Len(rows) \in Nat
    BY <1>1, <1>2, <1>4, LenProperties, ConcatProperties DEF TypeOK
  <2>2. \A i \in 1..(Len(wire) + Len(rows)) :
          wire'[i] = IF i <= Len(wire) THEN wire[i] ELSE rows[i - Len(wire)]
    BY <1>2, <1>4, <2>1, ConcatProperties
  <2>3. QED
    BY <2>1, <2>2
<1>6. \A j \in DOMAIN rows : \E i \in DOMAIN wire' : wire'[i] = rows[j]
  <2> SUFFICES ASSUME NEW j \in DOMAIN rows
               PROVE  \E i \in DOMAIN wire' : wire'[i] = rows[j]
    OBVIOUS
  <2>1. /\ wire \in Seq(Lines) /\ DOMAIN rows = 1..Len(rows)
        /\ DOMAIN wire' = 1..(Len(wire) + Len(rows))
        /\ Len(wire) \in Nat /\ Len(rows) \in Nat
    BY <1>1, <1>2, <1>4, LenProperties, ConcatProperties DEF TypeOK
  <2>2. j + Len(wire) \in DOMAIN wire'
    BY <2>1
  <2>3. wire'[j + Len(wire)] = rows[j]
    BY <1>2, <1>4, <2>1, <2>2, ConcatProperties
  <2>4. QED
    BY <2>2, <2>3
<1>7. Collecting'
  <2> SUFFICES ASSUME timer, clean
               PROVE  asked' = 0 /\ Arriving'
    BY <1>3 DEF Collecting
  <2>1. asked = 1 /\ NoRows /\ pending = EmptyTable
    BY <1>3 DEF SnapshotInv, Collecting
  <2>2. ASSUME NEW i \in DOMAIN wire', wire'[i].kind = "row"
        PROVE  memory[wire'[i].slot] = {EntryOf(wire'[i])}
    BY <1>4, <1>5, <2>1, <2>2 DEF NoRows
  <2>3. ASSUME NEW s \in Slots, ~RowFor(s)'
        PROVE  pending[s] = memory[s]
    <3>1. ~\E j \in DOMAIN rows : rows[j].slot = s
      BY <1>4, <1>6, <2>3 DEF RowFor
    <3>2. QED
      BY <1>4, <2>1, <3>1 DEF EmptyTable
  <2>4. Arriving'
    BY <1>3, <2>2, <2>3 DEF Arriving
  <2>5. QED
    BY <1>3, <2>1, <2>4
<1>8. Single' /\ Current'
  BY <1>1, <1>3 DEF Single, Current
<1>9. Reconciled'
  BY <1>3, <1>4, <1>5 DEF SnapshotInv, Reconciled, Troubled
<1>10. QED
  BY <1>1, <1>7, <1>8, <1>9 DEF SnapshotInv

\* A lost command leaves a snapshot that nothing is said of.
LEMMA LoseCommandSnapshot ==
  ASSUME SnapshotInv, LoseCommand
  PROVE  SnapshotInv'
<1>1. /\ clean' = FALSE
      /\ UNCHANGED <<memory, wire, stateVars, still, settled>>
  BY DEF LoseCommand
<1>2. TypeOK'
  BY AnswerType DEF SnapshotInv
<1>3. QED
  BY <1>1, <1>2
  DEF SnapshotInv, Single, Collecting, Current, Reconciled, Troubled, stateVars

LEMMA PollTroubleSnapshot ==
  ASSUME SnapshotInv, PollTrouble
  PROVE  SnapshotInv'
<1>1. /\ asked' = asked + 1 /\ pending' = EmptyTable
      /\ UNCHANGED <<memory, wire, troubles, tamper, settled>>
      /\ clean' = AnswerIn
  BY DEF PollTrouble
<1>2. TypeOK'
  BY PollTroubleType DEF SnapshotInv
<1>3. asked \in Nat
  BY DEF SnapshotInv, TypeOK
<1>4. clean' => asked = 0 /\ NoRows
  BY <1>1, Zenon DEF AnswerIn
<1>5. Collecting' /\ Current'
  BY <1>1, <1>3, <1>4 DEF Collecting, Current, NoRows, EmptyTable
<1>6. Single' /\ Reconciled'
  BY <1>1 DEF SnapshotInv, Single, Reconciled, Troubled
<1>7. QED
  BY <1>2, <1>5, <1>6 DEF SnapshotInv

\* A row moves from the wire into the table being collected.
LEMMA ProcessLineSnapshot ==
  ASSUME SnapshotInv, ProcessLine
  PROVE  SnapshotInv'
<1> DEFINE line == Head(wire)
<1>1. TypeOK /\ TypeOK'
  BY ProcessLineType DEF SnapshotInv
<1>2. /\ wire # <<>> /\ wire' = Tail(wire)
      /\ UNCHANGED <<memory, asked, answer, clean, still, settled, timer,
                     troubles>>
      /\ \/ line.kind = "row" /\ RecordTrouble(line)
         \/ line.kind = "live" /\ RecordZoneTroubleLive(line)
  BY DEF ProcessLine, RecordTrouble, RecordZoneTroubleLive, panelVars,
         historyVars
<1>3. /\ wire \in Seq(Lines) /\ Len(wire) \in Nat /\ Len(wire) > 0
      /\ DOMAIN wire = 1..Len(wire) /\ DOMAIN wire' = 1..(Len(wire) - 1)
      /\ \A i \in DOMAIN wire' : wire'[i] = wire[i + 1]
      /\ line = wire[1] /\ line \in Lines
  BY <1>1, <1>2, HeadTailProperties, LenProperties, EmptySeq DEF TypeOK
<1>4. \A i \in DOMAIN wire' : i + 1 \in DOMAIN wire /\ wire'[i] = wire[i + 1]
  BY <1>3
<1>5. \A i \in DOMAIN wire :
        wire[i] = line \/ \E j \in DOMAIN wire' : wire'[j] = wire[i]
  <2> SUFFICES ASSUME NEW i \in DOMAIN wire, i # 1
               PROVE  \E j \in DOMAIN wire' : wire'[j] = wire[i]
    BY <1>3
  <2>1. i - 1 \in DOMAIN wire' /\ wire'[i - 1] = wire[i]
    BY <1>3
  <2>2. QED
    BY <2>1
<1>6. NoRows => NoRows'
  BY <1>4 DEF NoRows
<1>7. line.kind = "live" => UNCHANGED pending
  BY <1>2 DEF RecordZoneTroubleLive
<1>8. line.kind = "row" /\ timer =>
        pending' = [pending EXCEPT ![line.slot] = {EntryOf(line)}]
  BY <1>1, <1>2 DEF RecordTrouble, TypeOK
<1>9. timer /\ Arriving => Arriving'
  <2> SUFFICES ASSUME timer, Arriving PROVE Arriving'
    OBVIOUS
  <2>1. \A i \in DOMAIN wire' :
          wire'[i].kind = "row" => answer[wire'[i].slot] = {EntryOf(wire'[i])}
    BY <1>4 DEF Arriving
  <2>2. ASSUME NEW s \in Slots, ~RowFor(s)'
        PROVE  pending'[s] = answer[s]
    <3>1. RowFor(s) => line.kind = "row" /\ line.slot = s
      BY <1>5, <2>2 DEF RowFor
    <3>2. CASE line.kind = "row" /\ line.slot = s
      <4>1. answer[s] = {EntryOf(line)}
        BY <1>3, <3>2 DEF Arriving
      <4>2. pending'[s] = {EntryOf(line)}
        BY <1>1, <1>8, <3>2 DEF TypeOK, Tables
      <4>3. QED
        BY <4>1, <4>2
    <3>3. CASE ~(line.kind = "row" /\ line.slot = s)
      <4>1. pending[s] = answer[s]
        BY <3>1, <3>3 DEF Arriving
      <4>2. pending'[s] = pending[s]
        BY <1>1, <1>2, <1>7, <1>8, <3>3 DEF TypeOK, Tables
      <4>3. QED
        BY <4>1, <4>2
    <3>4. QED
      BY <3>2, <3>3
  <2>3. QED
    BY <1>2, <2>1, <2>2 DEF Arriving
<1>10. NoRows => line.kind = "live"
  BY <1>2, <1>3 DEF NoRows
<1>11. Collecting'
  BY <1>2, <1>6, <1>7, <1>9, <1>10 DEF SnapshotInv, Collecting, EmptyTable
<1>12. Single' /\ Current'
  BY <1>2 DEF SnapshotInv, Single, Current
<1>13. Reconciled'
  <2> SUFFICES ASSUME settled PROVE Reconciled'
    BY <1>2 DEF Reconciled
  <2>1. line.kind = "row"
    BY <1>3 DEF SnapshotInv, Reconciled
  <2>2. UNCHANGED tamper
    BY <1>2, <2>1 DEF RecordTrouble
  <2>3. QED
    BY <1>2, <1>4, <2>2 DEF SnapshotInv, Reconciled, Troubled
<1>14. QED
  BY <1>1, <1>11, <1>12, <1>13 DEF SnapshotInv

\* A snapshot with its answer in has collected that answer.
LEMMA Collected ==
  ASSUME SnapshotInv, timer, clean, AnswerIn
  PROVE  pending = answer
<1>1. Arriving
  BY DEF SnapshotInv, Collecting, AnswerIn
<1>2. \A s \in Slots : pending[s] = answer[s]
  BY <1>1 DEF Arriving, AnswerIn, NoRows, RowFor
<1>3. QED
  BY <1>2 DEF SnapshotInv, TypeOK, Tables

LEMMA FinishSnapshotSnapshot ==
  ASSUME SnapshotInv, FinishSnapshot
  PROVE  SnapshotInv'
<1>1. /\ timer /\ timer' = FALSE /\ troubles' = pending
      /\ tamper' = Troubled(pending)
      /\ settled' = (clean /\ asked = 0 /\ wire = <<>> /\ still)
      /\ UNCHANGED <<memory, wire>>
  BY DEF FinishSnapshot, Replace, panelVars
<1>2. TypeOK'
  BY FinishSnapshotType DEF SnapshotInv
<1>3. Single' /\ Collecting' /\ Current'
  BY <1>1 DEF SnapshotInv, Single, Collecting, Current
<1>4. Reconciled'
  <2> SUFFICES ASSUME settled' PROVE Reconciled'
    BY DEF Reconciled
  <2>1. clean /\ asked = 0 /\ wire = <<>> /\ still
    BY <1>1
  <2>2. DOMAIN wire = {}
    BY <2>1
  <2>3. pending = answer
    BY <1>1, <2>1, <2>2, Collected DEF AnswerIn, NoRows
  <2>4. pending = memory
    BY <1>1, <2>1, <2>3 DEF SnapshotInv, Current
  <2>5. QED
    BY <1>1, <2>2, <2>4 DEF Reconciled, Troubled
<1>5. QED
  BY <1>2, <1>3, <1>4 DEF SnapshotInv

\* MqttService writes nothing that a snapshot is made of.
LEMMA MqttSnapshot ==
  ASSUME SnapshotInv, Mqtt
  PROVE  SnapshotInv'
<1>1. TypeOK'
  BY LinkType, PublishSummaryType, PublishEntryType
  DEF SnapshotInv, Mqtt, PublishNext
<1>2. UNCHANGED <<panelVars, wire, timer, pending, troubles, tamper,
                  historyVars>>
  BY DEF Mqtt, PublishNext, Connect, LinkDies, Disconnect, PublishSummary,
         PublishEntry, stateVars
<1>3. QED
  BY <1>1, <1>2
  DEF SnapshotInv, Single, Collecting, NoRows, Arriving, RowFor, Current,
      Reconciled, Troubled, EmptyTable, panelVars, historyVars

LEMMA NextSnapshot == SnapshotInv /\ [Next]_vars => SnapshotInv'
<1> SUFFICES ASSUME SnapshotInv, [Next]_vars PROVE SnapshotInv'
  OBVIOUS
<1>1. CASE Panel
  BY <1>1, ChangeSnapshot, AnswerSnapshot, LoseCommandSnapshot DEF Panel
<1>2. CASE Bridge
  BY <1>2, PollTroubleSnapshot, ProcessLineSnapshot, FinishSnapshotSnapshot
  DEF Bridge
<1>3. CASE Mqtt
  BY <1>3, MqttSnapshot
<1>4. CASE UNCHANGED vars
  <2>1. TypeOK'
    BY <1>4, NextType DEF SnapshotInv
  <2>2. QED
    BY <1>4, <2>1
    DEF SnapshotInv, Single, Collecting, NoRows, Arriving, RowFor, Current,
        Reconciled, Troubled, EmptyTable, vars, panelVars, stateVars,
        historyVars
<1>5. QED
  BY <1>1, <1>2, <1>3, <1>4 DEF Next

\* Whatever live lines, late rows and unanswered polls came before: from a
\* complete poll of an unchanged memory until the next change, table and zones
\* are the panel's (finishTroubleSnapshot).
THEOREM PollAlwaysReconciles == Spec => []PollReconciles
<1>1. SnapshotInv => PollReconciles
  BY DEF SnapshotInv, Reconciled, PollReconciles
<1>2. QED
  BY <1>1, InitSnapshot, NextSnapshot, PTL DEF Spec

\* A poll that was answered in time replaces the table by exactly what the
\* panel printed: no row of an earlier poll survives and none is missing
\* (beginTroubleSnapshot, recordTrouble, finishTroubleSnapshot).
THEOREM CompletePollAlwaysReplaces == Spec => CompletePollReplaces
<1>1. ASSUME SnapshotInv, [Next]_vars, timer, ~timer', clean, AnswerIn
      PROVE  troubles' = answer
  <2>1. FinishSnapshot
    BY <1>1
    DEF Next, Panel, Restore, Clear, Raise, Change, Answer, LoseCommand,
        Bridge, PollTrouble, ProcessLine, RecordTrouble,
        RecordZoneTroubleLive, Mqtt, PublishNext, Connect, LinkDies,
        Disconnect, PublishSummary, PublishEntry, vars, stateVars
  <2>2. QED
    BY <1>1, <2>1, Collected DEF FinishSnapshot, Replace
<1>2. SnapshotInv /\ [Next]_vars =>
        [timer /\ ~timer' /\ clean /\ AnswerIn => troubles' = answer]_vars
  BY <1>1
<1>3. QED
  BY <1>2, InitSnapshot, NextSnapshot, PTL DEF Spec, CompletePollReplaces
=============================================================================
