------------------------ MODULE TelnetSession_proofs ------------------------
(***************************************************************************)
(* Proofs about the client's session in Device: what is typed is what the  *)
(* bridge reads, and nobody is sent away for less than the wrong           *)
(* passwords it takes.  For every set of keys, every password, every limit *)
(* of the server and any number of clients.                                *)
(***************************************************************************)
EXTENDS Device_proofs

\* What is left of a sequence, one further.
LEMMA SuffixIs ==
  ASSUME NEW S, NEW s \in Seq(S), NEW i \in 1..Len(s)
  PROVE  /\ SubSeq(s, i, Len(s)) # <<>> /\ Head(SubSeq(s, i, Len(s))) = s[i]
         /\ Tail(SubSeq(s, i, Len(s))) = SubSeq(s, i + 1, Len(s))
OBVIOUS

USE TelnetAssumption

-----------------------------------------------------------------------------
(* What may be on its way from the client.                                 *)

\* The state of the parser before byte i of an option sequence.
StateAt(n, i) ==
  CASE i = 1 -> "Data"
    [] i = 2 -> "Iac"
    [] i > 2 /\ n[2] = "verb" -> "Option"
    [] i > 2 /\ n[2] # "verb" /\ i \in {7, 9} -> "SubIac"
    [] i > 2 /\ n[2] # "verb" /\ i \notin {7, 9} -> "Subnegotiation"

Rest(n, i) == SubSeq(n, i, Len(n))

\* The client's terminal is in the middle of an option sequence: the parser
\* is in state q and w is still to come.
Midway(q, w) ==
  \E n \in Negotiations : \E i \in DOMAIN n :
    q = StateAt(n, i) /\ w = Rest(n, i)

\* The bridge is about to read the end of a line.
LineEnding ==
  /\ telnetParseState = "Data"
  /\ wire \in LineEndings
  /\ ~(suppressByteAfterCr /\ wire = <<"lf">>)

AtRest == telnetParseState = "Data" /\ wire = <<>> /\ telnetLine = typed

Pressing ==
  /\ telnetParseState = "Data"
  /\ \E k \in Keys :
       /\ wire = <<k>>
       /\ typed = IF Len(telnetLine) < MaxLine THEN Append(telnetLine, k)
                  ELSE telnetLine

Erasing ==
  /\ telnetParseState = "Data"
  /\ wire = <<"bs">>
  /\ typed = IF telnetLine = <<>> THEN <<>>
             ELSE SubSeq(telnetLine, 1, Len(telnetLine) - 1)

Ending == LineEnding /\ typed = <<>>

\* The second byte of an end of line that was read.
Trailing ==
  /\ telnetParseState = "Data" /\ suppressByteAfterCr
  /\ wire \in {<<"lf">>, <<"nul">>}
  /\ telnetLine = <<>> /\ typed = <<>>

Negotiating == Midway(telnetParseState, wire) /\ telnetLine = typed

InStep ==
  /\ suppressByteAfterCr => telnetLine = <<>>
  /\ link = "open" =>
       AtRest \/ Pressing \/ Erasing \/ Ending \/ Trailing \/ Negotiating

\* While there is a client nothing touches its password.
Online ==
  /\ link = "open" => networkReady
  /\ networkReady => networkState = "Connected" /\ step = "run"

\* Before the login every refusal was of a wrong password, and the one that
\* is about to be read is one more or is the right one.
Counted ==
  link = "open" /\ clientAuthState = "AwaitingPassword" =>
    IF loggedIn
    THEN LineEnding /\ telnetLine = Password /\ Verifies
    ELSE /\ failedPasswordAttempts <= wrong
         /\ LineEnding => failedPasswordAttempts + 1 <= wrong

SessionInv == InStep /\ Online /\ Counted

-----------------------------------------------------------------------------
(* Reading one byte.                                                       *)

LEMMA KeysAreNoControls ==
  \A k \in Keys : k \notin {"cr", "lf", "nul", "bs", "iac"}
BY DEF Controls

LEMMA EndingIs ==
  ASSUME NEW w \in LineEndings
  PROVE  /\ w # <<>> /\ Head(w) \in {"cr", "lf"}
         /\ Head(w) = "lf" => w = <<"lf">> /\ Tail(w) = <<>>
         /\ Tail(w) \in {<<>>, <<"lf">>, <<"nul">>}
<1>1. CASE w = <<"cr", "lf">>
  BY <1>1
<1>2. CASE w = <<"cr", "nul">>
  BY <1>2
<1>3. CASE w = <<"cr">>
  BY <1>3
<1>4. CASE w = <<"lf">>
  BY <1>4
<1>5. QED
  BY <1>1, <1>2, <1>3, <1>4 DEF LineEndings

LEMMA TrailingIs ==
  ASSUME NEW w \in {<<"lf">>, <<"nul">>}
  PROVE  w # <<>> /\ Head(w) \in {"lf", "nul"} /\ Tail(w) = <<>>
<1>1. CASE w = <<"lf">>
  BY <1>1
<1>2. CASE w = <<"nul">>
  BY <1>2
<1>3. QED
  BY <1>1, <1>2

\* The bytes of an option sequence, one by one.
LEMMA NegotiationStep ==
  ASSUME NEW n \in Negotiations, NEW i \in DOMAIN n,
         telnetParseState = StateAt(n, i)
  PROVE  /\ Parsed(n[i]) = IF i = Len(n) THEN "Data" ELSE StateAt(n, i + 1)
         /\ IsData(n[i]) => n[i] = "iac"
<1>1. CASE n = <<"iac", "nop">>
  <2>1. DOMAIN n = 1..2 /\ Len(n) = 2 /\ n[1] = "iac" /\ n[2] = "nop"
    BY <1>1
  <2>2. QED
    BY <2>1 DEF StateAt, Parsed, IsData
<1>2. CASE n = <<"iac", "iac">>
  <2>1. DOMAIN n = 1..2 /\ Len(n) = 2 /\ n[1] = "iac" /\ n[2] = "iac"
    BY <1>2
  <2>2. QED
    BY <2>1 DEF StateAt, Parsed, IsData
<1>3. CASE n = <<"iac", "verb", "cr">>
  <2>1. /\ DOMAIN n = 1..3 /\ Len(n) = 3
        /\ n[1] = "iac" /\ n[2] = "verb" /\ n[3] = "cr"
    BY <1>3
  <2>2. QED
    BY <2>1 DEF StateAt, Parsed, IsData
<1>4. CASE n = <<"iac", "sb", "nul", "se", "cr", "iac", "iac", "iac", "se">>
  <2>1. /\ DOMAIN n = 1..9 /\ Len(n) = 9
        /\ n[1] = "iac" /\ n[2] = "sb" /\ n[3] = "nul" /\ n[4] = "se"
        /\ n[5] = "cr" /\ n[6] = "iac" /\ n[7] = "iac" /\ n[8] = "iac"
        /\ n[9] = "se"
    BY <1>4
  <2>2. i \in {1, 2, 3, 4, 5, 6, 7, 8, 9}
    BY <2>1
  <2>3. QED
    BY <2>1, <2>2 DEF StateAt, Parsed, IsData
<1>5. QED
  BY <1>1, <1>2, <1>3, <1>4 DEF Negotiations

LEMMA NegotiationIs ==
  ASSUME NEW n \in Negotiations
  PROVE  n \in Seq(Controls) /\ n # <<>> /\ n[1] = "iac"
<1>1. Negotiations \subseteq Seq(Controls)
  BY DEF Negotiations, Controls
<1>2. n # <<>> /\ n[1] = "iac"
  BY DEF Negotiations
<1>3. QED
  BY <1>1, <1>2

\* What is left of it.
LEMMA RestIs ==
  ASSUME NEW n \in Negotiations, NEW i \in DOMAIN n
  PROVE  /\ Rest(n, i) # <<>> /\ Head(Rest(n, i)) = n[i]
         /\ i = Len(n) => Tail(Rest(n, i)) = <<>>
         /\ i # Len(n) => /\ i + 1 \in DOMAIN n
                           /\ Tail(Rest(n, i)) = Rest(n, i + 1)
<1>1. PICK S : n \in Seq(S)
  BY NegotiationIs
<1>2. i \in 1..Len(n) /\ Len(n) \in Nat /\ DOMAIN n = 1..Len(n)
  BY <1>1, LenProperties
<1>3. /\ Rest(n, i) # <<>> /\ Head(Rest(n, i)) = n[i]
      /\ Tail(Rest(n, i)) = SubSeq(n, i + 1, Len(n))
  BY <1>1, <1>2, SuffixIs DEF Rest
<1>4. i = Len(n) => SubSeq(n, i + 1, Len(n)) = <<>>
  BY <1>1, <1>2
<1>5. i # Len(n) => i + 1 \in DOMAIN n
  BY <1>2
<1>6. QED
  BY <1>3, <1>4, <1>5 DEF Rest

LEMMA MidwayIs ==
  ASSUME NEW q, NEW w, Midway(q, w)
  PROVE  w # <<>> /\ (q = "Data" => Head(w) = "iac")
<1>1. PICK n \in Negotiations : \E i \in DOMAIN n :
        q = StateAt(n, i) /\ w = Rest(n, i)
  BY DEF Midway
<1>2. PICK i \in DOMAIN n : q = StateAt(n, i) /\ w = Rest(n, i)
  BY <1>1
<1>3. w # <<>> /\ Head(w) = n[i]
  BY <1>2, RestIs
<1>4. i \in Nat \ {0}
  BY NegotiationIs, LenProperties
<1>5. q = "Data" => i = 1
  BY <1>2, <1>4 DEF StateAt
<1>6. QED
  BY <1>3, <1>5, NegotiationIs

\* Only where a line is about to end is a line about to end.
LEMMA NotEnding ==
  ASSUME AtRest \/ Pressing \/ Erasing \/ Trailing \/ Negotiating
  PROVE  ~LineEnding
<1> SUFFICES ASSUME LineEnding PROVE FALSE
  OBVIOUS
<1>1. /\ wire # <<>> /\ Head(wire) \in {"cr", "lf"} /\ telnetParseState = "Data"
      /\ Head(wire) = "lf" => wire = <<"lf">>
  BY EndingIs DEF LineEnding
<1>2. CASE AtRest \/ Pressing \/ Erasing
  BY <1>1, <1>2, KeysAreNoControls DEF AtRest, Pressing, Erasing
<1>3. CASE Trailing
  BY <1>1, <1>3, TrailingIs DEF Trailing, LineEnding
<1>4. CASE Negotiating
  BY <1>1, <1>4, MidwayIs DEF Negotiating
<1>5. QED
  BY <1>2, <1>3, <1>4

\* A client at rest has nothing on its way, and only such a client has.
LEMMA Resting ==
  ASSUME InStep, link = "open", wire = <<>>
  PROVE  AtRest
<1>1. ~Ending
  BY EndingIs DEF Ending, LineEnding
<1>2. ~Pressing /\ ~Erasing
  BY DEF Pressing, Erasing
<1>3. ~Trailing
  BY TrailingIs DEF Trailing
<1>4. ~Negotiating
  BY MidwayIs DEF Negotiating
<1>5. QED
  BY <1>1, <1>2, <1>3, <1>4 DEF InStep

\* Within an option sequence every byte but one is an option byte; the other
\* is a doubled IAC, which no line takes.
LEMMA NegotiatingByte ==
  ASSUME Negotiating, NEW b, NextByte(b), wire' = Tail(wire)
  PROVE  /\ \/ telnetParseState' = "Data" /\ wire' = <<>>
            \/ Midway(telnetParseState', wire')
         /\ IsData(b) => b = "iac"
<1>1. PICK n \in Negotiations : \E i \in DOMAIN n :
        telnetParseState = StateAt(n, i) /\ wire = Rest(n, i)
  BY DEF Negotiating, Midway
<1>2. PICK i \in DOMAIN n :
        telnetParseState = StateAt(n, i) /\ wire = Rest(n, i)
  BY <1>1
<1>3. b = n[i] /\ telnetParseState' = Parsed(b)
  BY <1>2, RestIs DEF NextByte
<1>4. IsData(b) => b = "iac"
  BY <1>2, <1>3, NegotiationStep
<1>5. CASE i = Len(n)
  BY <1>2, <1>3, <1>4, <1>5, NegotiationStep, RestIs
<1>6. CASE i # Len(n)
  <2>1. telnetParseState' = StateAt(n, i + 1) /\ wire' = Rest(n, i + 1)
          /\ i + 1 \in DOMAIN n
    BY <1>2, <1>3, <1>6, NegotiationStep, RestIs
  <2>2. QED
    BY <1>4, <2>1 DEF Midway
<1>7. QED
  BY <1>5, <1>6

\* The same, without the step.
LEMMA NegotiatingData ==
  ASSUME Negotiating, NEW b, NextByte(b), IsData(b)
  PROVE  b = "iac"
<1>1. PICK n \in Negotiations : \E i \in DOMAIN n :
        telnetParseState = StateAt(n, i) /\ wire = Rest(n, i)
  BY DEF Negotiating, Midway
<1>2. PICK i \in DOMAIN n :
        telnetParseState = StateAt(n, i) /\ wire = Rest(n, i)
  BY <1>1
<1>3. QED
  BY <1>2, RestIs, NegotiationStep DEF NextByte

\* What else the next byte may be.
LEMMA PlainByte ==
  ASSUME NEW b, NextByte(b), Pressing \/ Erasing \/ Ending \/ Trailing
  PROVE  /\ IsData(b) /\ telnetParseState' = "Data"
         /\ Pressing => b \in Keys /\ wire = <<b>> /\ Tail(wire) = <<>>
         /\ Erasing => b = "bs" /\ Tail(wire) = <<>>
         /\ Ending => /\ b \in {"cr", "lf"} /\ ~Suppressed(b)
                      /\ b = "lf" => Tail(wire) = <<>>
                      /\ Tail(wire) \in {<<>>, <<"lf">>, <<"nul">>}
         /\ Trailing => Suppressed(b) /\ Tail(wire) = <<>>
<1>1. telnetParseState = "Data" /\ b = Head(wire)
        /\ telnetParseState' = Parsed(b)
  BY DEF NextByte, Pressing, Erasing, Ending, LineEnding, Trailing
<1>2. Pressing => b \in Keys /\ wire = <<b>> /\ Tail(wire) = <<>>
  BY <1>1 DEF Pressing
<1>3. Erasing => b = "bs" /\ Tail(wire) = <<>>
  BY <1>1 DEF Erasing
<1>4. Ending => /\ b \in {"cr", "lf"} /\ (b = "lf" => wire = <<"lf">>)
                /\ b = "lf" => Tail(wire) = <<>>
                /\ Tail(wire) \in {<<>>, <<"lf">>, <<"nul">>}
  BY <1>1, EndingIs DEF Ending, LineEnding
<1>5. Ending => ~Suppressed(b)
  BY <1>4 DEF Ending, LineEnding, Suppressed
<1>6. Trailing => b \in {"lf", "nul"} /\ Suppressed(b) /\ Tail(wire) = <<>>
  BY <1>1, TrailingIs DEF Trailing, Suppressed
<1>7. b # "iac"
  BY <1>2, <1>3, <1>4, <1>6, KeysAreNoControls
<1>8. IsData(b) /\ telnetParseState' = "Data"
  BY <1>1, <1>7 DEF IsData, Parsed
<1>9. QED
  BY <1>2, <1>3, <1>4, <1>5, <1>6, <1>8

\* Wherever a client with something on its way may be.
LEMMA Places ==
  ASSUME InStep, NEW b, NextByte(b)
  PROVE  Pressing \/ Erasing \/ Ending \/ Trailing \/ Negotiating
BY DEF InStep, NextByte, AtRest

\* The end of a line is read where the client has ended one.
LEMMA LineIsEnded ==
  ASSUME InStep, NEW state, LineEnds(state)
  PROVE  /\ link = "open" /\ clientAuthState = state
         /\ Ending /\ telnetParseState' = "Data"
         /\ Tail(wire) # <<>> => /\ suppressByteAfterCr'
                                /\ Tail(wire) \in {<<"lf">>, <<"nul">>}
<1>1. PICK b : DataByte(b) /\ b \in {"cr", "lf"}
  BY DEF LineEnds
<1>2. NextByte(b) /\ IsData(b) /\ ~Suppressed(b) /\ link = "open"
        /\ clientAuthState = state
  BY <1>1 DEF DataByte, NextByte, LineEnds
<1>3. Ending
  <2>1. ~Pressing /\ ~Erasing /\ ~Trailing
    BY <1>1, <1>2, PlainByte, KeysAreNoControls
  <2>2. ~Negotiating
    <3>1. ASSUME Negotiating PROVE b = "iac"
      BY <1>2, <3>1, NegotiatingData
    <3>2. QED
      BY <1>1, <3>1
  <2>3. QED
    BY <1>2, <2>1, <2>2, Places
<1>4. b = "cr" => suppressByteAfterCr'
  BY <1>1, Zenon DEF DataByte
<1>5. QED
  BY <1>1, <1>2, <1>3, <1>4, PlainByte

\* Where it leaves the client.
LEMMA AfterLine ==
  ASSUME InStep, NEW state, LineEnds(state), wire' = Tail(wire),
         telnetLine' = <<>>, UNCHANGED typed
  PROVE  InStep' /\ ~LineEnding'
<1>1. /\ typed = <<>> /\ telnetParseState' = "Data"
      /\ Tail(wire) # <<>> => /\ suppressByteAfterCr'
                             /\ Tail(wire) \in {<<"lf">>, <<"nul">>}
  BY LineIsEnded DEF Ending
<1>2. AtRest' \/ Trailing'
  BY <1>1 DEF AtRest, Trailing
<1>3. ~LineEnding'
  <2>1. ASSUME LineEnding' PROVE FALSE
    <3>1. wire' # <<>> /\ Head(wire') \in {"cr", "lf"}
            /\ (Head(wire') = "lf" => wire' = <<"lf">>)
      BY <2>1, EndingIs DEF LineEnding
    <3>2. wire' \in {<<"lf">>, <<"nul">>} /\ suppressByteAfterCr'
      BY <1>1, <3>1
    <3>3. QED
      BY <2>1, <3>1, <3>2, TrailingIs DEF LineEnding
  <2>2. QED
    BY <2>1
<1>4. QED
  BY <1>2, <1>3 DEF InStep

\* The same of the next state.
LEMMA NotEndingNext ==
  (AtRest \/ Pressing \/ Erasing \/ Trailing \/ Negotiating)' => ~LineEnding'
<1>1. AtRest \/ Pressing \/ Erasing \/ Trailing \/ Negotiating => ~LineEnding
  BY NotEnding
<1>2. QED
  BY <1>1, PTL

\* Nothing is counted where no line ends.
LEMMA CountKept ==
  ASSUME Counted, ~LineEnding, ~LineEnding',
         UNCHANGED <<link, clientAuthState, failedPasswordAttempts, wrong,
                     loggedIn>>
  PROVE  Counted'
BY DEF Counted

\* A client can only come while there is a network.
LEMMA OnlineKept ==
  ASSUME Online, UNCHANGED <<networkReady, networkState, step>>,
         link' = "open" => link = "open" \/ networkReady
  PROVE  Online'
BY DEF Online

-----------------------------------------------------------------------------
(* The client's steps.                                                     *)

LEMMA Rested ==
  ASSUME InStep, CanType
  PROVE  AtRest /\ ~LineEnding /\ wire = <<>> /\ link = "open"
<1>1. link = "open" /\ wire = <<>>
  BY DEF CanType
<1>2. AtRest
  BY <1>1, Resting
<1>3. QED
  BY <1>1, <1>2, NotEnding

LEMMA PressInStep ==
  ASSUME InStep, Counted, NEW k \in Keys, Press(k)
  PROVE  InStep' /\ Counted'
<1>1. AtRest /\ ~LineEnding
  BY Rested DEF Press
<1>2. Pressing'
  BY <1>1 DEF AtRest, Pressing, Press, client
<1>3. InStep'
  BY <1>2 DEF InStep, Press, client
<1>4. Counted'
  BY <1>1, <1>2, NotEndingNext, CountKept DEF Press, client
<1>5. QED
  BY <1>3, <1>4

LEMMA BackspaceInStep ==
  ASSUME InStep, Counted, Backspace
  PROVE  InStep' /\ Counted'
<1>1. AtRest /\ ~LineEnding
  BY Rested DEF Backspace
<1>2. Erasing'
  BY <1>1 DEF AtRest, Erasing, Backspace, client
<1>3. InStep'
  BY <1>2 DEF InStep, Backspace, client
<1>4. Counted'
  BY <1>1, <1>2, NotEndingNext, CountKept DEF Backspace, client
<1>5. QED
  BY <1>3, <1>4

LEMMA NegotiateInStep ==
  ASSUME InStep, Counted, NEW bytes \in Negotiations, Negotiate(bytes)
  PROVE  InStep' /\ Counted'
<1>1. AtRest /\ ~LineEnding
  BY Rested DEF Negotiate
<1>2. 1 \in DOMAIN bytes /\ Rest(bytes, 1) = bytes
  <2>1. PICK S : bytes \in Seq(S) /\ bytes # <<>>
    BY NegotiationIs
  <2>2. QED
    BY <2>1, LenProperties DEF Rest
<1>3. Negotiating'
  <2>1. telnetParseState' = StateAt(bytes, 1) /\ wire' = Rest(bytes, 1)
    BY <1>1, <1>2 DEF AtRest, StateAt, Negotiate
  <2>2. Midway(telnetParseState', wire')
    BY <1>2, <2>1 DEF Midway
  <2>3. QED
    BY <1>1, <2>2 DEF AtRest, Negotiating, Negotiate, client, history
<1>4. InStep'
  BY <1>3 DEF InStep, Negotiate, client
<1>5. Counted'
  BY <1>1, <1>3, NotEndingNext, CountKept DEF Negotiate, client, history
<1>6. QED
  BY <1>4, <1>5

\* The line feed alone is taken for the second byte of the return before it;
\* the bridge then sees one line less than the client.
LEMMA EnterInStep ==
  ASSUME TelnetInv, InStep, Counted, NEW ending \in LineEndings,
         Enter(ending, Verifies), UNCHANGED store
  PROVE  InStep' /\ Counted'
<1>1. AtRest /\ ~LineEnding
  BY Rested DEF Enter
<1>2. /\ wire' = ending /\ typed' = <<>> /\ telnetParseState' = "Data"
      /\ UNCHANGED <<link, clientAuthState, failedPasswordAttempts,
                     suppressByteAfterCr, telnetLine>>
  BY <1>1 DEF AtRest, Enter, client
<1>3. (~LineEnding') = (suppressByteAfterCr /\ ending = <<"lf">>)
  BY <1>2, Zenon DEF LineEnding
<1>4. InStep'
  <2>1. CASE suppressByteAfterCr /\ ending = <<"lf">>
    <3>1. Trailing'
      BY <1>2, <2>1 DEF InStep, Trailing
    <3>2. QED
      BY <1>2, <3>1 DEF InStep
  <2>2. CASE ~(suppressByteAfterCr /\ ending = <<"lf">>)
    <3>1. Ending'
      BY <1>2, <1>3, <2>2 DEF Ending
    <3>2. QED
      BY <1>2, <3>1 DEF InStep
  <2>3. QED
    BY <2>1, <2>2
<1>5. Counted'
  <2> SUFFICES ASSUME link = "open", clientAuthState = "AwaitingPassword"
               PROVE  IF loggedIn'
                      THEN LineEnding' /\ telnetLine' = Password /\ Verifies'
                      ELSE /\ failedPasswordAttempts' <= wrong'
                           /\ LineEnding' =>
                                failedPasswordAttempts' + 1 <= wrong'
    BY <1>2 DEF Counted
  <2>1. ~loggedIn /\ failedPasswordAttempts <= wrong
    BY <1>1 DEF Counted
  <2>2. CASE loggedIn'
    <3>1. Verifies /\ typed = Password
      BY <2>1, <2>2 DEF Enter
    <3>2. Verifies'
      BY <3>1 DEF Verifies, HasTelnetPassword
    <3>3. telnetLine = Password /\ telnetLine # <<>>
      BY <1>1, <3>1 DEF AtRest
    <3>4. LineEnding'
      BY <1>3, <3>3 DEF InStep
    <3>5. QED
      BY <1>2, <2>2, <3>2, <3>3, <3>4
  <2>3. CASE ~loggedIn'
    <3>1. wrong' = wrong + 1
      BY <2>3 DEF Enter
    <3>2. failedPasswordAttempts \in Nat /\ wrong \in Nat
      BY DEF TelnetInv, TelnetTypeOK
    <3>3. QED
      BY <1>2, <2>1, <2>3, <3>1, <3>2
  <2>4. QED
    BY <2>2, <2>3
<1>6. QED
  BY <1>4, <1>5

-----------------------------------------------------------------------------
(* The bridge's steps.                                                     *)

\* A byte that ends no line is read where none is about to end.
LEMMA EndsNoLine ==
  ASSUME InStep, NEW b, NextByte(b),
         ~IsData(b) \/ Suppressed(b) \/ b \notin {"cr", "lf"}
  PROVE  ~Ending /\ ~LineEnding
<1>1. ~Ending
  BY PlainByte
<1>2. QED
  BY <1>1, Places, NotEnding

LEMMA OptionByteInStep ==
  ASSUME InStep, Counted, OptionByte
  PROVE  InStep' /\ Counted'
<1>1. PICK b : NextByte(b) /\ ~IsData(b) /\ wire' = Tail(wire)
  BY DEF OptionByte
<1>2. ~LineEnding
  BY <1>1, EndsNoLine
<1>3. Negotiating
  BY <1>1, PlainByte, Places
<1>4. AtRest' \/ Negotiating'
  <2>1. \/ telnetParseState' = "Data" /\ wire' = <<>>
        \/ Midway(telnetParseState', wire')
    BY <1>1, <1>3, NegotiatingByte
  <2>2. QED
    BY <1>3, <2>1 DEF AtRest, Negotiating, OptionByte, client, history
<1>5. InStep'
  BY <1>4 DEF InStep, OptionByte, client
<1>6. Counted'
  BY <1>2, <1>4, NotEndingNext, CountKept DEF OptionByte, client, history
<1>7. QED
  BY <1>5, <1>6

LEMMA SuppressedByteInStep ==
  ASSUME InStep, Counted, SuppressedByte
  PROVE  InStep' /\ Counted'
<1>1. PICK b : /\ NextByte(b) /\ IsData(b) /\ Suppressed(b)
               /\ wire' = Tail(wire)
  BY DEF SuppressedByte
<1>2. b \in {"lf", "nul"}
  BY <1>1 DEF Suppressed
<1>3. ~Ending /\ ~LineEnding
  BY <1>1, EndsNoLine
<1>4. ~Pressing /\ ~Erasing
  BY <1>1, <1>2, PlainByte, KeysAreNoControls
<1>5. ~Negotiating
  <2>1. ASSUME Negotiating PROVE b = "iac"
    BY <1>1, <2>1, NegotiatingData
  <2>2. QED
    BY <1>2, <2>1
<1>6. Trailing
  BY <1>1, <1>3, <1>4, <1>5, Places
<1>7. AtRest'
  BY <1>1, <1>6, PlainByte DEF AtRest, Trailing, SuppressedByte, client,
                               history
<1>8. InStep'
  BY <1>7 DEF InStep, SuppressedByte
<1>9. Counted'
  BY <1>3, <1>7, NotEndingNext, CountKept DEF SuppressedByte, client, history
<1>10. QED
  BY <1>8, <1>9

\* The bridge edits its line as the client does.
LEMMA EditLineInStep ==
  ASSUME InStep, Counted, EditLine
  PROVE  InStep' /\ Counted'
<1>1. PICK b : /\ DataByte(b) /\ b \notin {"cr", "lf"}
               /\ telnetLine' = Edited(b) /\ wire' = Tail(wire)
  BY DEF EditLine
<1>2. NextByte(b) /\ IsData(b) /\ ~Suppressed(b)
  BY <1>1 DEF DataByte
<1>3. ~suppressByteAfterCr'
  BY <1>1, Zenon DEF DataByte
<1>4. ~Ending /\ ~LineEnding
  BY <1>1, <1>2, EndsNoLine
<1>5. ~Trailing
  BY <1>2, PlainByte
<1>6. UNCHANGED <<link, clientAuthState, failedPasswordAttempts, typed, wrong,
                  loggedIn>>
  BY DEF EditLine, history
<1>7. AtRest' \/ Negotiating'
  <2>1. CASE Pressing
    <3>1. b \in Keys /\ b # "bs" /\ Tail(wire) = <<>> /\ wire = <<b>>
            /\ telnetParseState' = "Data"
      BY <1>2, <2>1, PlainByte, KeysAreNoControls
    <3>2. PICK k : wire = <<k>>
            /\ typed = IF Len(telnetLine) < MaxLine THEN Append(telnetLine, k)
                       ELSE telnetLine
      BY <2>1 DEF Pressing
    <3>3. k = b
      BY <3>1, <3>2
    <3>4. Edited(b) = typed
      BY <3>1, <3>2, <3>3 DEF Edited
    <3>5. QED
      BY <1>1, <1>6, <3>1, <3>4 DEF AtRest
  <2>2. CASE Erasing
    <3>1. b = "bs" /\ b \notin Keys /\ Tail(wire) = <<>>
            /\ telnetParseState' = "Data"
      BY <1>2, <2>2, PlainByte, KeysAreNoControls
    <3>2. Edited(b) = typed
      BY <2>2, <3>1 DEF Edited, Erasing
    <3>3. QED
      BY <1>1, <1>6, <3>1, <3>2 DEF AtRest
  <2>3. CASE Negotiating
    <3>1. b = "iac" /\ b \notin Keys
      BY <1>2, <2>3, NegotiatingData, KeysAreNoControls
    <3>2. Edited(b) = typed
      BY <2>3, <3>1 DEF Edited, Negotiating
    <3>3. \/ telnetParseState' = "Data" /\ wire' = <<>>
          \/ Midway(telnetParseState', wire')
      BY <1>1, <1>2, <2>3, NegotiatingByte
    <3>4. QED
      BY <1>1, <1>6, <3>2, <3>3 DEF AtRest, Negotiating
  <2>4. QED
    BY <1>2, <1>4, <1>5, <2>1, <2>2, <2>3, Places
<1>8. InStep'
  BY <1>3, <1>7 DEF InStep
<1>9. Counted'
  BY <1>4, <1>6, <1>7, NotEndingNext, CountKept
<1>10. QED
  BY <1>8, <1>9

LEMMA AcceptedInStep ==
  ASSUME InStep, Accepted
  PROVE  InStep' /\ Counted'
<1>1. LineEnds("AwaitingPassword")
  BY DEF Accepted
<1>2. InStep'
  BY <1>1, AfterLine DEF Accepted, history
<1>3. QED
  BY <1>2 DEF Counted, Accepted

\* The line that is refused was one of the wrong ones.
LEMMA RefusedForCause ==
  ASSUME InStep, Counted, LineEnds("AwaitingPassword"),
         Verifies => telnetLine # Password
  PROVE  ~loggedIn /\ failedPasswordAttempts + 1 <= wrong
<1>1. link = "open" /\ clientAuthState = "AwaitingPassword" /\ LineEnding
  BY LineIsEnded DEF Ending
<1>2. QED
  BY <1>1 DEF Counted

LEMMA RefusedInStep ==
  ASSUME InStep, Counted, Refused(Verifies)
  PROVE  InStep' /\ Counted'
<1>1. LineEnds("AwaitingPassword") /\ (Verifies => telnetLine # Password)
  BY DEF Refused
<1>2. InStep' /\ ~LineEnding'
  BY <1>1, AfterLine DEF Refused, history
<1>3. ~loggedIn /\ failedPasswordAttempts + 1 <= wrong
  BY <1>1, RefusedForCause
<1>4. Counted'
  BY <1>2, <1>3 DEF Counted, Refused, history
<1>5. QED
  BY <1>2, <1>4

LEMMA FinishLineInStep ==
  ASSUME InStep, FinishLine
  PROVE  InStep' /\ Counted'
<1>1. LineEnds("Authenticated")
  BY DEF FinishLine
<1>2. InStep'
  BY <1>1, AfterLine DEF FinishLine, history
<1>3. QED
  BY <1>1, <1>2 DEF Counted, FinishLine, LineEnds

LEMMA AcceptClientInStep ==
  ASSUME AcceptClient
  PROVE  InStep' /\ Counted'
<1>1. AtRest' /\ telnetLine' = <<>>
  BY DEF AtRest, AcceptClient, NewHistory
<1>2. InStep'
  BY <1>1 DEF InStep
<1>3. ~LineEnding'
  BY <1>1, NotEndingNext
<1>4. Counted'
  BY <1>3 DEF Counted, AcceptClient, NewHistory
<1>5. QED
  BY <1>2, <1>4

\* A client that has gone.
LEMMA GoneInStep ==
  ASSUME link' # "open", telnetLine' = <<>>
  PROVE  InStep' /\ Counted'
BY DEF InStep, Counted

LEMMA LeaveInStep ==
  ASSUME InStep, Leave
  PROVE  InStep' /\ Counted'
BY DEF InStep, Counted, Leave

\* Nothing of the session but its queue.
LEMMA SendInStep ==
  ASSUME InStep, Counted, SendManualCommand, UNCHANGED store
  PROVE  InStep' /\ Counted'
<1>1. /\ AtRest' = AtRest /\ Pressing' = Pressing /\ Erasing' = Erasing
      /\ Ending' = Ending /\ Trailing' = Trailing
      /\ Negotiating' = Negotiating /\ LineEnding' = LineEnding
  BY DEF AtRest, Pressing, Erasing, Ending, Trailing, Negotiating, LineEnding,
         SendManualCommand, history
<1>2. InStep'
  BY <1>1 DEF InStep, SendManualCommand
<1>3. Counted'
  BY <1>1 DEF Counted, Verifies, HasTelnetPassword, SendManualCommand, history
<1>4. QED
  BY <1>2, <1>3

-----------------------------------------------------------------------------
(* The device.                                                             *)

LEMMA InitSession == Init => SessionInv
<1> SUFFICES ASSUME TelnetInit PROVE SessionInv
  BY DEF Init
<1>1. link # "open" /\ telnetLine = <<>> /\ ~networkReady
  BY DEF TelnetInit
<1>2. QED
  BY <1>1 DEF SessionInv, InStep, Online, Counted

LEMMA StartSession ==
  ASSUME Start
  PROVE  SessionInv'
<1>1. link' # "open" /\ telnetLine' = <<>> /\ ~networkReady'
  BY DEF Start, TelnetStart
<1>2. QED
  BY <1>1, GoneInStep DEF SessionInv, Online

\* There is no client before there is a network.
LEMMA NetworkReadySession ==
  ASSUME SessionInv, NetworkReady
  PROVE  SessionInv'
<1>1. ~networkReady /\ networkState' = "Connected" /\ step' = "run"
  BY DEF SessionInv, Online, NetworkReady, SettingsSaved, WifiConnected,
         AnnounceNetworkReady
<1>2. link # "open" /\ UNCHANGED <<link, telnetLine, suppressByteAfterCr>>
  BY <1>1 DEF SessionInv, Online, NetworkReady, SetNetworkReady
<1>3. InStep' /\ Counted'
  BY <1>2 DEF SessionInv, InStep, Counted
<1>4. QED
  BY <1>1, <1>2, <1>3 DEF SessionInv, Online

LEMMA NetworkGoneSession ==
  ASSUME NetworkGone
  PROVE  SessionInv'
<1>1. link' # "open" /\ telnetLine' = <<>> /\ ~networkReady'
  BY DEF NetworkGone, SetNetworkReady, DisconnectClient
<1>2. QED
  BY <1>1, GoneInStep DEF SessionInv, Online

\* The supervisor leaves a connected bridge's settings alone.
LEMMA SuperviseLeaves ==
  ASSUME SupervisorInv, Online, networkReady, Supervise
  PROVE  UNCHANGED <<networkState, step, store>>
<1>1. networkState = "Connected" /\ step = "run"
  BY DEF Online
<1>2. portal = "off"
  BY <1>1 DEF SupervisorInv, ProvisioningTypeOK, InSetup
<1>3. WifiChanges \/ StartOta
  BY <1>1, <1>2
  DEF Supervise, ClearStore, EraseWifi, WriteKey, HandleSave, PortalTimeout,
      TakeSettings, SettingsNotSaved, ConnectTimeout
<1>4. QED
  BY <1>3 DEF WifiChanges, StartOta

LEMMA SuperviseSession ==
  ASSUME SupervisorInv, SessionInv, Supervise
  PROVE  SessionInv'
<1>1. UNCHANGED telnetVars
  BY DEF Supervise
<1>2. networkReady => UNCHANGED <<networkState, step, store>>
  BY SuperviseLeaves DEF SessionInv
<1>3. /\ AtRest' = AtRest /\ Pressing' = Pressing /\ Erasing' = Erasing
      /\ Ending' = Ending /\ Trailing' = Trailing
      /\ Negotiating' = Negotiating /\ LineEnding' = LineEnding
  BY <1>1 DEF AtRest, Pressing, Erasing, Ending, Trailing, Negotiating,
              LineEnding, telnetVars
<1>4. InStep'
  BY <1>1, <1>3 DEF SessionInv, InStep, telnetVars
<1>5. Online'
  BY <1>1, <1>2 DEF SessionInv, Online, telnetVars
<1>6. Counted'
  <2>1. CASE link = "open"
    BY <1>1, <1>2, <1>3, <2>1
    DEF SessionInv, Online, Counted, Verifies, HasTelnetPassword, telnetVars
  <2>2. CASE link # "open"
    BY <1>1, <2>2 DEF Counted, telnetVars
  <2>3. QED
    BY <2>1, <2>2
<1>7. QED
  BY <1>4, <1>5, <1>6 DEF SessionInv

LEMMA StutterSession ==
  ASSUME SessionInv, UNCHANGED vars
  PROVE  SessionInv'
<1>1. /\ AtRest' = AtRest /\ Pressing' = Pressing /\ Erasing' = Erasing
      /\ Ending' = Ending /\ Trailing' = Trailing
      /\ Negotiating' = Negotiating /\ LineEnding' = LineEnding
  BY DEF AtRest, Pressing, Erasing, Ending, Trailing, Negotiating, LineEnding,
         vars, telnetVars
<1>2. InStep'
  BY <1>1 DEF SessionInv, InStep, vars, telnetVars
<1>3. Online'
  BY DEF SessionInv, Online, vars, telnetVars, provisioningVars
<1>4. Counted'
  BY <1>1 DEF SessionInv, Counted, Verifies, HasTelnetPassword, vars,
              telnetVars, provisioningVars
<1>5. QED
  BY <1>2, <1>3, <1>4 DEF SessionInv

LEMMA LoginSession ==
  ASSUME SessionInv, Login
  PROVE  SessionInv'
<1>1. CASE Accepted /\ EnsureOtaHash
  <2>1. Online'
    BY <1>1 DEF SessionInv, Online, Accepted, LineEnds, EnsureOtaHash
  <2>2. QED
    BY <1>1, <2>1, AcceptedInStep DEF SessionInv
<1>2. CASE Refused(Verifies) /\ UNCHANGED provisioningVars
  <2>1. Verifies' = Verifies
    BY <1>2 DEF Verifies, HasTelnetPassword, provisioningVars
  <2>2. Online'
    BY <1>2 DEF SessionInv, Online, Refused, LineEnds, provisioningVars
  <2>3. QED
    BY <1>2, <2>2, RefusedInStep DEF SessionInv
<1>3. CASE RefusedAtLast(Verifies) /\ UNCHANGED provisioningVars
  <2>1. link' # "open" /\ telnetLine' = <<>> /\ UNCHANGED networkReady
    BY <1>3 DEF RefusedAtLast, DisconnectClient, LineEnds
  <2>2. Online'
    BY <1>3, <2>1 DEF SessionInv, Online, provisioningVars
  <2>3. QED
    BY <2>1, <2>2, GoneInStep DEF SessionInv
<1>4. QED
  BY <1>1, <1>2, <1>3 DEF Login

LEMMA ServeSession ==
  ASSUME TelnetInv, SessionInv, Serve
  PROVE  SessionInv'
<1>1. UNCHANGED <<networkState, step, store>>
  BY DEF Serve, provisioningVars
<1>2. InStep /\ Counted /\ Online
  BY DEF SessionInv
<1>3. InStep' /\ Counted'
  <2>1. CASE \E k \in Keys : Press(k)
    BY <1>2, <2>1, PressInStep
  <2>2. CASE \E ending \in LineEndings : Enter(ending, Verifies)
    BY <1>1, <1>2, <2>2, EnterInStep
  <2>3. CASE \E bytes \in Negotiations : Negotiate(bytes)
    BY <1>2, <2>3, NegotiateInStep
  <2>4. CASE DropClient
    BY <2>4, GoneInStep DEF DropClient, DisconnectClient
  <2>5. CASE SendManualCommand
    BY <1>1, <1>2, <2>5, SendInStep
  <2>6. CASE \/ Backspace \/ Leave \/ AcceptClient \/ OptionByte
             \/ SuppressedByte \/ EditLine \/ FinishLine
    BY <1>2, <2>6, BackspaceInStep, LeaveInStep, AcceptClientInStep,
       OptionByteInStep, SuppressedByteInStep, EditLineInStep,
       FinishLineInStep
  <2>7. QED
    BY <2>1, <2>2, <2>3, <2>4, <2>5, <2>6 DEF Serve
<1>4. UNCHANGED networkReady
        /\ (link' = "open" => link = "open" \/ networkReady)
  BY DEF Serve, Press, Backspace, Enter, Negotiate, Leave, AcceptClient,
         DropClient, DisconnectClient, OptionByte, SuppressedByte, EditLine,
         FinishLine, LineEnds, SendManualCommand, client
<1>5. QED
  BY <1>1, <1>2, <1>3, <1>4, OnlineKept DEF SessionInv

LEMMA NextSession == Inv /\ SessionInv /\ [Next]_vars => SessionInv'
<1> SUFFICES ASSUME Inv, SessionInv, [Next]_vars PROVE SessionInv'
  OBVIOUS
<1>1. SupervisorInv /\ TelnetInv
  BY DEF Inv
<1>2. QED
  BY <1>1, StartSession, NetworkReadySession, NetworkGoneSession,
     SuperviseSession, LoginSession, ServeSession, StutterSession
  DEF Next

LEMMA SessionInvariance == Spec => [](Inv /\ SessionInv)
<1>1. Spec => []Inv
  BY Invariance
<1>2. QED
  BY <1>1, InitSession, NextSession, PTL DEF Spec

-----------------------------------------------------------------------------
\* Whatever a terminal negotiates in between and however it ends its lines,
\* the bridge holds the line the client sees itself typing
\* (processTelnetByte, processTelnetData).
THEOREM LinesAsTyped == Spec => []LineAsTyped
<1>1. SessionInv => LineAsTyped
  BY Resting DEF SessionInv, LineAsTyped, AtRest
<1>2. QED
  BY <1>1, SessionInvariance, PTL

\* The step that ends a session is the one that refuses the line.
LEMMA LastRefusal ==
  ASSUME TelnetInv, NEW verifies, RefusedAtLast(verifies), [Next]_vars
  PROVE  RefusedAtLast(Verifies)
<1>1. /\ failedPasswordAttempts' = failedPasswordAttempts + 1
      /\ failedPasswordAttempts \in Nat
      /\ link' = "none" /\ link = "open"
      /\ clientAuthState = "AwaitingPassword"
  BY DEF TelnetInv, TelnetTypeOK, RefusedAtLast, DisconnectClient, LineEnds,
         DataByte, NextByte
<1>2. failedPasswordAttempts' # 0
        /\ failedPasswordAttempts' # failedPasswordAttempts
  BY <1>1
<1>3. ~Start
  BY <1>2 DEF Start, TelnetStart
<1>4. ~NetworkReady /\ ~NetworkGone
  BY <1>2 DEF NetworkReady, NetworkGone, SetNetworkReady
<1>5. ~Supervise /\ ~UNCHANGED vars
  BY <1>2 DEF Supervise, telnetVars, vars
<1>6. ~Serve
  BY <1>2 DEF Serve, Press, Backspace, Enter, Negotiate, Leave, AcceptClient,
              DropClient, OptionByte, SuppressedByte, EditLine, FinishLine,
              SendManualCommand, client
<1>7. ~Accepted
  BY <1>2 DEF Accepted
<1>8. ~Refused(Verifies)
  BY <1>1 DEF Refused
<1>9. QED
  BY <1>3, <1>4, <1>5, <1>6, <1>7, <1>8 DEF Next, Login

\* One wrong password counts once, whatever comes after the return
\* (finishTelnetLine).
THEOREM SentAwayOnlyForCause == Spec => SentAwayForCause
<1>1. Inv /\ SessionInv /\ [Next]_vars =>
        [\A verifies \in BOOLEAN :
           RefusedAtLast(verifies) => wrong >= MaxAttempts]_telnetVars
  <2> SUFFICES ASSUME Inv, SessionInv, [Next]_vars, NEW verifies \in BOOLEAN,
                      RefusedAtLast(verifies)
               PROVE  wrong >= MaxAttempts
    OBVIOUS
  <2>1. RefusedAtLast(Verifies)
    BY LastRefusal DEF Inv
  <2>2. failedPasswordAttempts + 1 <= wrong
    BY <2>1, RefusedForCause DEF SessionInv, RefusedAtLast
  <2>3. failedPasswordAttempts + 1 >= MaxAttempts
    BY <2>1 DEF RefusedAtLast
  <2>4. failedPasswordAttempts \in Nat /\ wrong \in Nat
    BY DEF Inv, TelnetInv, TelnetTypeOK
  <2>5. QED
    BY <2>2, <2>3, <2>4
<1>2. QED
  BY <1>1, SessionInvariance, PTL DEF Spec, SentAwayForCause
=============================================================================
