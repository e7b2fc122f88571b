---------------------------- MODULE TelnetSession ----------------------------
(***************************************************************************)
(* The Telnet server of PanelBridge: one client at a time, a login, the    *)
(* Telnet option sequences taken out of the input byte by byte, the lines  *)
(* that are left, and the queue of console commands that waits for the     *)
(* pacing gate.                                                            *)
(*                                                                         *)
(* The client is external: it types keys, ends lines in any of the four    *)
(* ways Telnet clients do, and its terminal answers option requests at any *)
(* time.  It may leave without a word.  A byte stands for its class.  What *)
(* the bridge writes to the client is left out but for one thing: a write  *)
(* may fail at any time, which disconnects.                                *)
(***************************************************************************)
EXTENDS Naturals, Sequences

CONSTANTS
  Keys,          \* printable characters
  Password,      \* a line: the password that is in force
  ListenOn, ListenOff, Monitor,  \* a line each
  MaxLine,       \* kMaxConsoleCommandLength
  MaxQueued,     \* kMaxQueuedConsoleCommands
  MaxAttempts,   \* wrong passwords that end a session
  MaxSessions,   \* bound: clients accepted
  MaxWrong       \* bound: wrong passwords that one client enters

\* Classes of the other bytes; "verb" is WILL, WONT, DO and DONT.
Controls == {"cr", "lf", "nul", "bs", "iac", "verb", "sb", "se", "nop"}
Bytes == Keys \union Controls

ASSUME TelnetAssumption ==
  /\ MaxLine \in Nat \ {0} /\ MaxQueued \in Nat \ {0}
  /\ MaxAttempts \in Nat \ {0} /\ MaxSessions \in Nat /\ MaxWrong \in Nat
  /\ Keys \intersect Controls = {}
  /\ {Password, ListenOn, ListenOff, Monitor} \subseteq Seq(Keys) \ {<<>>}

VARIABLES
  networkReady,            \* networkReady_ and serverStarted_
  link,                    \* client_: none, open, or left by the peer
  clientAuthState,
  failedPasswordAttempts,
  telnetParseState,
  suppressByteAfterCr,
  telnetLine,
  commandQueue,            \* for every command the session it was typed in
  txMode,
  wire,                    \* bytes on their way from the client
  \* What follows is history, read by no handler.
  session,                 \* how many clients were accepted
  typed,                   \* the line the client sees itself typing
  wrong,                   \* wrong passwords this client has entered
  loggedIn                 \* whether this client has entered the right one

telnetVars == <<networkReady, link, clientAuthState, failedPasswordAttempts,
                telnetParseState, suppressByteAfterCr, telnetLine,
                commandQueue, txMode, wire, session, typed, wrong, loggedIn>>
client == <<link, clientAuthState, failedPasswordAttempts, telnetLine,
            commandQueue>>
history == <<session, typed, wrong, loggedIn>>

TelnetTypeOK ==
  /\ networkReady \in BOOLEAN
  /\ link \in {"none", "open", "left"}
  /\ clientAuthState \in {"Disconnected", "AwaitingPassword", "Authenticated"}
  /\ failedPasswordAttempts \in 0..MaxAttempts
  /\ telnetParseState \in
       {"Data", "Iac", "Option", "Subnegotiation", "SubIac"}
  /\ suppressByteAfterCr \in BOOLEAN
  /\ telnetLine \in Seq(Keys) /\ Len(telnetLine) <= MaxLine
  /\ commandQueue \in Seq(1..MaxSessions) /\ Len(commandQueue) <= MaxQueued
  /\ txMode \in {"Passive", "Monitor", "Maintenance"}
  /\ wire \in Seq(Bytes)
  /\ session \in 0..MaxSessions
  /\ typed \in Seq(Keys) /\ Len(typed) <= MaxLine
  /\ wrong \in 0..MaxWrong
  /\ loggedIn \in BOOLEAN

\* What is told of a client begins and ends with its session.
NewHistory == typed' = <<>> /\ wrong' = 0 /\ loggedIn' = FALSE

\* The members after a start; session counts on.
TelnetStart ==
  /\ networkReady' = FALSE
  /\ link' = "none"
  /\ clientAuthState' = "Disconnected"
  /\ failedPasswordAttempts' = 0
  /\ telnetParseState' = "Data"
  /\ suppressByteAfterCr' = FALSE
  /\ telnetLine' = <<>>
  /\ commandQueue' = <<>>
  /\ txMode' = "Monitor"
  /\ wire' = <<>>
  /\ NewHistory
  /\ UNCHANGED session

TelnetInit ==
  /\ networkReady = FALSE
  /\ link = "none"
  /\ clientAuthState = "Disconnected"
  /\ failedPasswordAttempts = 0
  /\ telnetParseState = "Data"
  /\ suppressByteAfterCr = FALSE
  /\ telnetLine = <<>>
  /\ commandQueue = <<>>
  /\ txMode = "Monitor"
  /\ wire = <<>>
  /\ session = 0
  /\ typed = <<>>
  /\ wrong = 0
  /\ loggedIn = FALSE

-----------------------------------------------------------------------------
(* The client.                                                             *)

\* It has nothing on its way: the bridge reads bytes one by one, so more of
\* them behind these would change nothing.
CanType == link = "open" /\ wire = <<>>

Press(k) ==
  /\ CanType
  /\ wire' = <<k>>
  /\ typed' = IF Len(typed) < MaxLine THEN Append(typed, k) ELSE typed
  /\ UNCHANGED <<networkReady, client, telnetParseState, suppressByteAfterCr,
                 txMode, session, wrong, loggedIn>>

Backspace ==
  /\ CanType
  /\ wire' = <<"bs">>
  /\ typed' = IF typed = <<>> THEN <<>> ELSE SubSeq(typed, 1, Len(typed) - 1)
  /\ UNCHANGED <<networkReady, client, telnetParseState, suppressByteAfterCr,
                 txMode, session, wrong, loggedIn>>

\* The right password, if any is accepted, or another line.
Enter(ending, verifies) ==
  /\ CanType
  /\ wire' = ending
  /\ typed' = <<>>
  /\ loggedIn' = (loggedIn \/ (verifies /\ typed = Password))
  /\ \/ loggedIn' /\ UNCHANGED wrong
     \/ ~loggedIn' /\ wrong < MaxWrong /\ wrong' = wrong + 1
  /\ UNCHANGED <<networkReady, client, telnetParseState, suppressByteAfterCr,
                 txMode, session>>

LineEndings == {<<"cr", "lf">>, <<"cr", "nul">>, <<"cr">>, <<"lf">>}

\* What a terminal sends of its own accord: an option is any byte, and the
\* body of a subnegotiation may hold any byte, an IAC of its own doubled.
Negotiations ==
  {<<"iac", "nop">>, <<"iac", "iac">>, <<"iac", "verb", "cr">>,
   <<"iac", "sb", "nul", "se", "cr", "iac", "iac", "iac", "se">>}

Negotiate(bytes) ==
  /\ CanType
  /\ wire' = bytes
  /\ UNCHANGED <<networkReady, client, telnetParseState, suppressByteAfterCr,
                 txMode, history>>

Leave ==
  /\ link = "open"
  /\ link' = "left"
  /\ wire' = <<>>
  /\ UNCHANGED <<networkReady, clientAuthState, failedPasswordAttempts,
                 telnetParseState, suppressByteAfterCr, telnetLine,
                 commandQueue, txMode, history>>

-----------------------------------------------------------------------------
(* The server.                                                             *)

\* acceptClient; while a client is connected the next one is turned away.
AcceptClient ==
  /\ networkReady
  /\ link # "open"
  /\ session < MaxSessions
  /\ session' = session + 1
  /\ link' = "open"
  /\ clientAuthState' = "AwaitingPassword"
  /\ failedPasswordAttempts' = 0
  /\ telnetParseState' = "Data"
  /\ telnetLine' = <<>>
  /\ commandQueue' = <<>>
  /\ wire' = <<>>
  /\ NewHistory
  /\ UNCHANGED <<networkReady, suppressByteAfterCr, txMode>>

\* disconnectClient
DisconnectClient ==
  /\ link' = "none"
  /\ clientAuthState' = "Disconnected"
  /\ telnetLine' = <<>>
  /\ commandQueue' = <<>>
  /\ wire' = <<>>
  /\ NewHistory
  /\ UNCHANGED session

\* The login takes too long, a write fails, the client stops reading, or
\* processTelnetInput finds that it has left.
DropClient ==
  /\ link # "none"
  /\ DisconnectClient
  /\ UNCHANGED <<networkReady, failedPasswordAttempts, telnetParseState,
                 suppressByteAfterCr, txMode>>

\* setNetworkReady and stopNetwork
SetNetworkReady(ready) ==
  /\ networkReady' = ready
  /\ IF ready
     THEN UNCHANGED <<link, clientAuthState, telnetLine, commandQueue, wire,
                      history>>
     ELSE DisconnectClient
  /\ UNCHANGED <<failedPasswordAttempts, telnetParseState,
                 suppressByteAfterCr, txMode>>

-----------------------------------------------------------------------------
(* Input.                                                                  *)

\* A mutant: SE ends a subnegotiation with or without an IAC before it.
ParsedEarly(b) ==
  CASE telnetParseState = "Data" -> IF b = "iac" THEN "Iac" ELSE "Data"
    [] telnetParseState = "Iac" ->
         (CASE b = "verb" -> "Option"
            [] b = "sb" -> "Subnegotiation"
            [] OTHER -> "Data")
    [] telnetParseState = "Option" -> "Data"
    [] OTHER -> IF b = "se" THEN "Data" ELSE "Subnegotiation"

\* processTelnetByte: the parse state after a byte.
Parsed(b) ==
  CASE telnetParseState = "Data" -> IF b = "iac" THEN "Iac" ELSE "Data"
    [] telnetParseState = "Iac" ->
         (CASE b = "verb" -> "Option"
            [] b = "sb" -> "Subnegotiation"
            [] OTHER -> "Data")
    [] telnetParseState = "Option" -> "Data"
    [] telnetParseState = "Subnegotiation" ->
         IF b = "iac" THEN "SubIac" ELSE "Subnegotiation"
    [] telnetParseState = "SubIac" ->
         IF b = "se" THEN "Data" ELSE "Subnegotiation"

\* It hands this byte on as data.
IsData(b) ==
  \/ telnetParseState = "Data" /\ b # "iac"
  \/ telnetParseState = "Iac" /\ b = "iac"

\* processTelnetByte takes a byte off the connection.
NextByte(b) ==
  /\ networkReady
  /\ link = "open"
  /\ wire # <<>>
  /\ b = Head(wire)
  /\ telnetParseState' = Parsed(b)

OptionByte ==
  \E b \in Bytes :
    /\ NextByte(b)
    /\ ~IsData(b)
    /\ wire' = Tail(wire)
    /\ UNCHANGED <<networkReady, client, suppressByteAfterCr, txMode, history>>

\* A mutant: a return is an end of line of its own.
NeverSuppressed(b) == FALSE

\* The byte is the second one of an end of line.
Suppressed(b) == suppressByteAfterCr /\ b \in {"lf", "nul"}

SuppressedByte ==
  \E b \in Bytes :
    /\ NextByte(b)
    /\ IsData(b)
    /\ Suppressed(b)
    /\ wire' = Tail(wire)
    /\ suppressByteAfterCr' = FALSE
    /\ UNCHANGED <<networkReady, client, txMode, history>>

\* processTelnetData sees the byte.
DataByte(b) ==
  /\ NextByte(b)
  /\ IsData(b)
  /\ ~Suppressed(b)
  /\ suppressByteAfterCr' = (b = "cr")

\* A mutant: the line has no limit.
EditedUnlimited(b) ==
  IF b = "bs" /\ telnetLine # <<>>
  THEN SubSeq(telnetLine, 1, Len(telnetLine) - 1)
  ELSE IF b \in Keys THEN Append(telnetLine, b) ELSE telnetLine

\* The line after a byte that does not end it.
Edited(b) ==
  IF b = "bs" /\ telnetLine # <<>>
  THEN SubSeq(telnetLine, 1, Len(telnetLine) - 1)
  ELSE IF b \in Keys /\ Len(telnetLine) < MaxLine
       THEN Append(telnetLine, b)
       ELSE telnetLine

EditLine ==
  \E b \in Bytes \ {"cr", "lf"} :
    /\ DataByte(b)
    /\ telnetLine' = Edited(b)
    /\ wire' = Tail(wire)
    /\ UNCHANGED <<networkReady, link, clientAuthState, failedPasswordAttempts,
                   commandQueue, txMode, history>>

\* finishTelnetLine
LineEnds(state) ==
  /\ \E b \in {"cr", "lf"} : DataByte(b)
  /\ clientAuthState = state
  /\ UNCHANGED networkReady

Accepted ==
  /\ LineEnds("AwaitingPassword")
  /\ telnetLine = Password
  /\ clientAuthState' = "Authenticated"
  /\ failedPasswordAttempts' = 0
  /\ telnetLine' = <<>>
  /\ wire' = Tail(wire)
  /\ UNCHANGED <<link, commandQueue, txMode, history>>

\* The password is wrong, or the store can verify none.
Refused(verifies) ==
  /\ LineEnds("AwaitingPassword")
  /\ verifies => telnetLine # Password
  /\ failedPasswordAttempts + 1 < MaxAttempts
  /\ failedPasswordAttempts' = failedPasswordAttempts + 1
  /\ telnetLine' = <<>>
  /\ wire' = Tail(wire)
  /\ UNCHANGED <<link, clientAuthState, commandQueue, txMode, history>>

RefusedAtLast(verifies) ==
  /\ LineEnds("AwaitingPassword")
  /\ verifies => telnetLine # Password
  /\ failedPasswordAttempts + 1 >= MaxAttempts
  /\ failedPasswordAttempts' = failedPasswordAttempts + 1
  /\ DisconnectClient
  /\ UNCHANGED txMode

\* An empty line is ignored; the words of processLocalCommand set the mode,
\* and all but Maintenance discard what waits; any other line is queued, if
\* it may and if there is room.
ModeSet(mode, queue) == txMode' = mode /\ commandQueue' = queue

\* A mutant: /monitor leaves the queue alone.
EnterMonitorOnly == ModeSet("Monitor", commandQueue)

EnterMonitor == ModeSet("Monitor", <<>>)

LineCarriedOut ==
  \/ telnetLine = ListenOn /\ ModeSet("Passive", <<>>)
  \/ telnetLine = Monitor /\ EnterMonitor
  \/ telnetLine = ListenOff /\ ModeSet("Maintenance", commandQueue)
  \/ /\ telnetLine \notin {ListenOn, Monitor, ListenOff}
     /\ commandQueue' =
          IF \/ telnetLine = <<>>
             \/ txMode # "Maintenance"
             \/ Len(commandQueue) >= MaxQueued
          THEN commandQueue
          ELSE Append(commandQueue, session)
     /\ UNCHANGED txMode

FinishLine ==
  /\ LineEnds("Authenticated")
  /\ LineCarriedOut
  /\ telnetLine' = <<>>
  /\ wire' = Tail(wire)
  /\ UNCHANGED <<link, clientAuthState, failedPasswordAttempts, history>>

\* processManualCommandQueue: the gate and the panel let a command through.
SendManualCommand ==
  /\ txMode = "Maintenance"
  /\ commandQueue # <<>>
  /\ commandQueue' = Tail(commandQueue)
  /\ UNCHANGED <<networkReady, link, clientAuthState, failedPasswordAttempts,
                 telnetParseState, suppressByteAfterCr, telnetLine, txMode,
                 wire, history>>
-----------------------------------------------------------------------------
(* Correctness.                                                            *)

\* Whatever a terminal negotiates in between and however it ends its lines,
\* the bridge holds the line the client sees itself typing
\* (processTelnetByte, processTelnetData).
LineAsTyped ==
  link = "open" /\ wire = <<>> =>
    /\ telnetLine = typed
    /\ telnetParseState = "Data"

\* One wrong password counts once, whatever comes after the return: nobody is
\* sent away who was not wrong as often as that (finishTelnetLine).
SentAwayForCause ==
  [][\A verifies \in BOOLEAN : RefusedAtLast(verifies) => wrong >= MaxAttempts]_telnetVars

\* README.md:151: "Normal typed panel commands are allowed only in
\* maintenance mode", for an authenticated client.  A command that waits for
\* the gate outlives neither the mode nor the session it was typed in, nor
\* the network (processManualCommandQueue, disconnectClient).
QueueBelongs ==
  /\ commandQueue # <<>> =>
       txMode = "Maintenance" /\ clientAuthState = "Authenticated"
         /\ networkReady
  /\ \A i \in DOMAIN commandQueue : commandQueue[i] = session
=============================================================================
