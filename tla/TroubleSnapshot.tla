-------------------------- MODULE TroubleSnapshot --------------------------
(***************************************************************************)
(* How the panel's trouble memory reaches the broker.  Every poll begins a *)
(* snapshot: rows of the table are collected until two seconds after the   *)
(* command was sent, then the collected table replaces the one before and  *)
(* overwrites the trouble fields of every zone, which live lines write as  *)
(* well.  MqttService publishes the table in stages, one message at a time *)
(* (the summary, then every slot), from whatever the table is at each      *)
(* stage.                                                                  *)
(*                                                                         *)
(* The panel is external: it prints its whole memory in answer to a poll   *)
(* and a live line when a trouble is raised or restored, in the order in   *)
(* which that happens.  Time is abstract: a snapshot settles after its     *)
(* answer has come in, or before it has, which counts as a slow answer.    *)
(* Of an entry the model keeps its zone and whether it is active, of a     *)
(* zone's trouble fields tamper (every trouble is a tamper here).          *)
(***************************************************************************)
EXTENDS Integers, Sequences, FiniteSets

CONSTANTS
  Zones,        \* 1..74 in the code; no order matters here
  MaxTroubles,  \* kMaxTroubles
  FirstRun,     \* whether the broker starts with nothing retained
  MaxAsked,     \* bound: polls the panel has not answered yet
  MaxChanges,   \* bound: changes of the panel's memory
  MaxSlow,      \* bound: answers that come late or never
  MaxFaults     \* bound: broken links and rejected messages

ASSUME TroubleAssumption == Zones # {} /\ MaxTroubles \in Nat \ {0}
ASSUME TroubleBounds ==
  /\ MaxAsked \in Nat /\ MaxChanges \in Nat /\ MaxSlow \in Nat
  /\ MaxFaults \in Nat

VARIABLES
  memory,             \* the panel's trouble memory
  asked,              \* polls it has not answered yet
  wire,               \* lines on their way to the bridge, oldest first
  active,             \* troubleSnapshotActive_
  timer,              \* troubleSnapshotStartedAt_ # 0
  pending,            \* pendingTroubles_
  troubles,           \* troubles_
  known,              \* troubleKnown_
  tamper,             \* tamper of every zone's record
  revision,           \* troubleRevision_
  link,               \* "down"; "up"; "dead": up, but nothing arrives
  stage,              \* troublePublishStage_
  publishing,         \* publishingTroubleRevision_
  publishedRevision,  \* publishedTroubleRevision_
  summary,            \* retained on panel/trouble, if anything
  entries,            \* retained on panel/trouble/NN, if anything
  changes, slow, faults,  \* what the bounds count
  \* What follows is history, read by no handler.
  answer,             \* the memory as the panel printed it last
  clean,              \* the snapshot began with no older answer on its way
  still,              \* the memory has not changed since the snapshot began
  settled             \* the last snapshot was clean, complete and still is true

panelVars == <<memory, asked, changes, answer>>
stateVars == <<active, timer, pending, troubles, known, tamper, revision>>
mqttVars == <<link, stage, publishing, publishedRevision, summary, entries,
              faults>>
historyVars == <<clean, still, settled>>
vars == <<panelVars, wire, slow, stateVars, mqttVars, historyVars>>

-----------------------------------------------------------------------------
Slots == 0..(MaxTroubles - 1)

Entries == [zone : Zones, active : BOOLEAN]

\* A slot holds an entry or, where valid is false, nothing.
Tables == [Slots -> SUBSET Entries]

EmptyTable == [s \in Slots |-> {}]

Count(table) == Cardinality({s \in Slots : table[s] # {}})

ActiveSlots(table) == {s \in Slots : \E e \in table[s] : e.active}

\* The zones an active entry names: what finishTroubleSnapshot derives.
Troubled(table) ==
  {z \in Zones : \E s \in Slots : [zone |-> z, active |-> TRUE] \in table[s]}

Lines == [kind : {"row", "live"}, slot : Slots, zone : Zones, active : BOOLEAN]

EntryOf(line) == [zone |-> line.zone, active |-> line.active]

Rows(table) ==
  {line \in Lines : line.kind = "row" /\ EntryOf(line) \in table[line.slot]}

Live(s, z, raised) ==
  [kind |-> "live", slot |-> s, zone |-> z, active |-> raised]

NoRows == \A i \in DOMAIN wire : wire[i].kind # "row"

\* No row of an answer is still to come.
AnswerIn == asked = 0 /\ NoRows

Summaries == [count : Nat, active : Nat]

Summary(table) ==
  [count |-> Count(table), active |-> Cardinality(ActiveSlots(table))]

\* A full table: what an earlier run of the bridge may have left at the broker.
FullTable ==
  [s \in Slots |-> {[zone |-> CHOOSE z \in Zones : TRUE, active |-> TRUE]}]

TypeOK ==
  /\ memory \in Tables
  /\ asked \in 0..MaxAsked
  /\ wire \in Seq(Lines)
  /\ active \in BOOLEAN /\ timer \in BOOLEAN
  /\ timer => active
  /\ pending \in Tables
  /\ troubles \in Tables
  /\ known \in BOOLEAN
  /\ tamper \in SUBSET Zones
  /\ revision \in Nat
  /\ link \in {"down", "up", "dead"}
  /\ stage \in 0..MaxTroubles
  /\ publishing \in Nat
  /\ publishedRevision \in Nat
  /\ summary \in SUBSET Summaries
  /\ entries \in Tables
  /\ changes \in 0..MaxChanges
  /\ slow \in 0..MaxSlow
  /\ faults \in 0..MaxFaults
  /\ answer \in Tables
  /\ clean \in BOOLEAN /\ still \in BOOLEAN /\ settled \in BOOLEAN

Init ==
  /\ memory \in {EmptyTable, FullTable}
  /\ asked = 0
  /\ wire = <<>>
  /\ active = FALSE
  /\ timer = FALSE
  /\ pending = EmptyTable
  /\ troubles = EmptyTable
  /\ known = FALSE
  /\ tamper = {}
  /\ revision = 0
  /\ link = "down"
  /\ stage = 0
  /\ publishing = 0
  /\ publishedRevision = 0
  /\ summary = IF FirstRun THEN {} ELSE {Summary(FullTable)}
  /\ entries = IF FirstRun THEN EmptyTable ELSE FullTable
  /\ changes = 0
  /\ slow = 0
  /\ faults = 0
  /\ answer = EmptyTable
  /\ clean = FALSE
  /\ still = FALSE
  /\ settled = FALSE

-----------------------------------------------------------------------------
(* The panel.                                                              *)

Change ==
  /\ changes < MaxChanges
  /\ changes' = changes + 1
  /\ still' = FALSE
  /\ settled' = FALSE
  /\ UNCHANGED <<asked, answer, slow, stateVars, mqttVars, clean>>

\* trouble_memory_add: a new entry, and a live line.
Raise(s, z) ==
  /\ Change
  /\ memory[s] = {}
  /\ memory' = [memory EXCEPT ![s] = {[zone |-> z, active |-> TRUE]}]
  /\ wire' = Append(wire, Live(s, z, TRUE))

\* trouble_memory_restore: the entry stays, restored, and a live line.
Restore(s) ==
  /\ Change
  /\ \E e \in memory[s] :
       /\ e.active
       /\ memory' = [memory EXCEPT ![s] = {[zone |-> e.zone, active |-> FALSE]}]
       /\ wire' = Append(wire, Live(s, e.zone, FALSE))

\* A restored entry is acknowledged at the panel and leaves the memory.
Clear(s) ==
  /\ Change
  /\ \E e \in memory[s] : ~e.active
  /\ memory' = [memory EXCEPT ![s] = {}]
  /\ UNCHANGED wire

\* What the panel may print for a table: one row for every slot that holds an
\* entry, in the order of the slots.
Printouts(table) ==
  {rows \in [1..Count(table) -> Rows(table)] :
     /\ \A i, j \in DOMAIN rows : i < j => rows[i].slot < rows[j].slot
     /\ \A s \in Slots :
          table[s] # {} => \E i \in DOMAIN rows : rows[i].slot = s}

Answer ==
  /\ asked > 0
  /\ asked' = asked - 1
  /\ \E rows \in Printouts(memory) : wire' = wire \o rows
  /\ answer' = memory
  /\ UNCHANGED <<memory, changes, slow, stateVars, mqttVars, historyVars>>

Slow == slow < MaxSlow /\ slow' = slow + 1

\* The command is lost on its way to the panel, or ignored by it.
LoseCommand ==
  /\ asked > 0
  /\ Slow
  /\ asked' = asked - 1
  /\ UNCHANGED <<memory, changes, answer, wire, stateVars, mqttVars>>
  /\ clean' = FALSE
  /\ UNCHANGED <<still, settled>>

Panel ==
  \/ \E s \in Slots : Restore(s) \/ Clear(s) \/ \E z \in Zones : Raise(s, z)
  \/ Answer
  \/ LoseCommand

-----------------------------------------------------------------------------
(* Gc2ConsoleParser and Gc2State.                                          *)

NewRevision == revision + 1

\* A mutant: the rows of the poll before are kept.
PollKeepsRows ==
  /\ ~timer
  /\ asked < MaxAsked
  /\ asked' = asked + 1
  /\ active' = TRUE
  /\ timer' = TRUE
  /\ clean' = AnswerIn
  /\ still' = TRUE
  /\ UNCHANGED <<memory, changes, answer, wire, slow, pending, troubles,
                 known, tamper,
                 revision, mqttVars, settled>>

\* beginTroubleSnapshot of both, when the poll has been sent; polls are five
\* seconds apart, so the one before has settled.
PollTrouble ==
  /\ ~timer
  /\ asked < MaxAsked
  /\ asked' = asked + 1
  /\ active' = TRUE
  /\ timer' = TRUE
  /\ pending' = EmptyTable
  /\ clean' = AnswerIn
  /\ still' = TRUE
  /\ UNCHANGED <<memory, changes, answer, wire, slow, troubles, known, tamper,
                 revision, mqttVars, settled>>

\* recordTrouble: without a snapshot a row begins one, which only the next
\* poll can give a time to settle.
RecordTrouble(row) ==
  LET collected == IF active THEN pending ELSE EmptyTable
  IN  /\ active' = TRUE
      /\ pending' = [collected EXCEPT ![row.slot] = {EntryOf(row)}]
      /\ UNCHANGED <<timer, troubles, known, tamper, revision>>

\* recordZoneTroubleLive, for a tamper.
RecordZoneTroubleLive(line) ==
  /\ tamper' = IF line.active THEN tamper \union {line.zone}
               ELSE tamper \ {line.zone}
  /\ UNCHANGED <<active, timer, pending, troubles, known, revision>>

ProcessLine ==
  /\ wire # <<>>
  /\ wire' = Tail(wire)
  /\ LET line == Head(wire)
     IN  \/ line.kind = "row" /\ RecordTrouble(line)
         \/ line.kind = "live" /\ RecordZoneTroubleLive(line)
  /\ UNCHANGED <<panelVars, slow, mqttVars, historyVars>>

\* A mutant: only the zones that the table lists are written.
ReplaceListed(table) ==
  /\ active' = FALSE
  /\ troubles' = table
  /\ known' = TRUE
  /\ revision' = IF ~known \/ troubles # table THEN NewRevision ELSE revision
  /\ tamper' = tamper \union Troubled(table)
  /\ UNCHANGED pending

\* finishTroubleSnapshot, for any table: the table, its revision, every zone.
Replace(table) ==
  /\ active' = FALSE
  /\ troubles' = table
  /\ known' = TRUE
  /\ revision' = IF ~known \/ troubles # table THEN NewRevision ELSE revision
  /\ tamper' = Troubled(table)
  /\ UNCHANGED pending

\* finishTimedSnapshots, two seconds after the poll.
FinishSnapshot ==
  /\ timer
  /\ timer' = FALSE
  /\ \/ AnswerIn /\ UNCHANGED slow
     \/ ~AnswerIn /\ Slow
  /\ Replace(pending)
  /\ settled' = (clean /\ asked = 0 /\ wire = <<>> /\ still)
  /\ UNCHANGED <<panelVars, wire, mqttVars, clean, still>>

-----------------------------------------------------------------------------
(* MqttService.                                                            *)

Fault == faults < MaxFaults /\ faults' = faults + 1

\* A mutant: a new connection goes on where the old one ended.
ConnectWhereLeft ==
  /\ link = "down"
  /\ link' = "up"
  /\ UNCHANGED <<panelVars, wire, slow, stateVars, historyVars, stage,
                 publishing, publishedRevision, summary, entries, faults>>

\* connectIfNeeded, with resetPublishTracking and markAllForRepublish.
Connect ==
  /\ link = "down"
  /\ link' = "up"
  /\ stage' = 0
  /\ publishing' = 0
  /\ publishedRevision' = 0
  /\ revision' = IF known THEN NewRevision ELSE revision
  /\ UNCHANGED <<panelVars, wire, slow, active, timer, pending, troubles,
                 known, tamper, summary, entries, faults, historyVars>>

LinkDies ==
  /\ link = "up"
  /\ Fault
  /\ link' = "dead"
  /\ UNCHANGED <<panelVars, wire, slow, stateVars, historyVars, stage,
                 publishing, publishedRevision, summary, entries>>

Disconnect ==
  /\ \/ link = "dead" /\ UNCHANGED faults
     \/ link = "up" /\ Fault
  /\ link' = "down"
  /\ UNCHANGED <<panelVars, wire, slow, stateVars, historyVars, stage,
                 publishing, publishedRevision, summary, entries>>

Connected == link \in {"up", "dead"}

ToPublish == stage # 0 \/ revision # publishedRevision

\* publish() as its caller sees it; a failed one may have been delivered.
Sent(ok) ==
  \/ ok /\ UNCHANGED faults
  \/ ~ok /\ Fault

Arrives(ok) == link = "up" /\ ok \in BOOLEAN
GetsLost(ok) == ~ok \/ link = "dead"

\* publishTroubleSummary: nothing is sent before the first snapshot.
PublishSummary(ok) ==
  /\ Connected
  /\ stage = 0 /\ revision # publishedRevision
  /\ Sent(ok)
  /\ publishing' = revision
  /\ stage' = IF ok THEN 1 ELSE 0
  /\ \/ Arrives(ok) /\ known /\ summary' = {Summary(troubles)}
     \/ (GetsLost(ok) \/ ~known) /\ UNCHANGED summary
  /\ UNCHANGED <<panelVars, wire, slow, stateVars, historyVars, link,
                 publishedRevision, entries>>

\* A mutant: the table is taken to be published as it is when the last slot is.
PublishLatestEntry(ok) ==
  LET slot == stage - 1
      last == stage = MaxTroubles
  IN  /\ Connected
      /\ stage # 0
      /\ Sent(ok)
      /\ \/ Arrives(ok) /\ entries' = [entries EXCEPT ![slot] = troubles[slot]]
         \/ GetsLost(ok) /\ UNCHANGED entries
      /\ stage' = IF ~ok THEN stage ELSE IF last THEN 0 ELSE stage + 1
      /\ publishedRevision' =
           IF ok /\ last THEN revision ELSE publishedRevision
      /\ UNCHANGED <<panelVars, wire, slow, stateVars, historyVars, link,
                     publishing, summary>>

\* A mutant: one slot too many.
PublishEntryTooFar(ok) ==
  LET slot == stage - 1
      last == stage > MaxTroubles
  IN  /\ Connected
      /\ stage # 0
      /\ Sent(ok)
      /\ \/ Arrives(ok) /\ entries' = [entries EXCEPT ![slot] = troubles[slot]]
         \/ GetsLost(ok) /\ UNCHANGED entries
      /\ stage' = IF ~ok THEN stage ELSE IF last THEN 0 ELSE stage + 1
      /\ publishedRevision' =
           IF ok /\ last THEN publishing ELSE publishedRevision
      /\ UNCHANGED <<panelVars, wire, slow, stateVars, historyVars, link,
                     publishing, summary>>

\* publishTroubleEntry: the slot as it is now, empty ones are deleted.
PublishEntry(ok) ==
  LET slot == stage - 1
      last == stage = MaxTroubles
  IN  /\ Connected
      /\ stage # 0
      /\ Sent(ok)
      /\ \/ Arrives(ok) /\ entries' = [entries EXCEPT ![slot] = troubles[slot]]
         \/ GetsLost(ok) /\ UNCHANGED entries
      /\ stage' = IF ~ok THEN stage ELSE IF last THEN 0 ELSE stage + 1
      /\ publishedRevision' =
           IF ok /\ last THEN publishing ELSE publishedRevision
      /\ UNCHANGED <<panelVars, wire, slow, stateVars, historyVars, link,
                     publishing, summary>>

PublishNext(ok) == PublishSummary(ok) \/ PublishEntry(ok)


-----------------------------------------------------------------------------
Mqtt ==
  \/ Connect \/ LinkDies \/ Disconnect
  \/ \E ok \in BOOLEAN : PublishNext(ok)

Bridge == PollTrouble \/ ProcessLine \/ FinishSnapshot

Next == Panel \/ Bridge \/ Mqtt

Spec == Init /\ [][Next]_vars

(***************************************************************************)
(* The panel answers.  loop() reads every line, finishes every snapshot    *)
(* and, in Monitor mode, polls every 30 seconds; publishNext reaches the   *)
(* troubles when the topics before them have come to rest.                 *)
(***************************************************************************)
Fairness ==
  /\ WF_vars(Answer)
  /\ WF_vars(PollTrouble) /\ WF_vars(ProcessLine) /\ WF_vars(FinishSnapshot)
  /\ WF_vars(Connect) /\ WF_vars(Disconnect /\ link = "dead")
  /\ WF_vars(PublishNext(TRUE))

FairSpec == Spec /\ Fairness
-----------------------------------------------------------------------------
(* Correctness.                                                            *)

\* README.md:255: "Empty slots are deleted after each complete poll".  On a
\* working connection with nothing to publish, the summary and every slot's
\* topic are those of the table, though the table may have been replaced and
\* the connection broken at any stage of the publication (publishNext).
TroublesMirrored ==
  link = "up" /\ known /\ ~ToPublish =>
    summary = {Summary(troubles)} /\ entries = troubles

\* A poll that the panel answered in time, with no older answer still on its
\* way, replaces the table by exactly what the panel printed: no row of an
\* earlier poll survives and none is missing (beginTroubleSnapshot,
\* recordTrouble, finishTroubleSnapshot).
CompletePollReplaces ==
  [][timer /\ ~timer' /\ clean /\ AnswerIn => troubles' = answer]_vars

\* From a complete poll of an unchanged memory until the next change, table
\* and zones are the panel's, whatever live lines, late rows and unanswered
\* polls came before: the poll is what corrects them.
PollReconciles ==
  settled => troubles = memory /\ tamper = Troubled(memory)

\* When changes, slow answers and faults come to an end, the broker ends up
\* with the panel's memory, and the zones with its tampers.
Shown ==
  /\ link = "up" /\ summary = {Summary(memory)} /\ entries = memory
  /\ tamper = Troubled(memory)

TroublesConverge == <>[]Shown
=============================================================================
