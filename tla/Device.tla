------------------------------- MODULE Device -------------------------------
(***************************************************************************)
(* The sketch as its network sees it: the supervisor starts and stops the  *)
(* Telnet server, a login asks the credential store and completes it, and  *)
(* a restart ends every session.                                           *)
(***************************************************************************)
EXTENDS Provisioning, TelnetSession

vars == <<provisioningVars, telnetVars>>

TypeOK == ProvisioningTypeOK /\ TelnetTypeOK

Init == ProvisioningInit /\ TelnetInit

-----------------------------------------------------------------------------
\* setup
Start ==
  /\ PowerLoss \/ Restart
  /\ TelnetStart

\* announceNetworkReady
NetworkReady ==
  /\ SettingsSaved \/ WifiConnected
  /\ SetNetworkReady(TRUE)

\* processNetwork and the button take the network away.
NetworkGone ==
  /\ WifiLost \/ FactoryReset
  /\ SetNetworkReady(FALSE)

\* The other steps of the supervisor, of which only WifiChanges, StartOta and
\* ClearStore may come while there is a client.
Supervise ==
  /\ \/ WifiChanges \/ ClearStore \/ EraseWifi \/ WriteKey
     \/ HandleSave \/ PortalTimeout \/ TakeSettings
     \/ SettingsNotSaved \/ ConnectTimeout \/ StartOta
  /\ UNCHANGED telnetVars

\* finishTelnetLine, for a client that has not logged in
Login ==
  \/ Verifies /\ Accepted /\ EnsureOtaHash
  \/ (Refused(Verifies) \/ RefusedAtLast(Verifies))
       /\ UNCHANGED provisioningVars

Serve ==
  /\ \/ \E k \in Keys : Press(k)
     \/ Backspace
     \/ \E ending \in LineEndings : Enter(ending, Verifies)
     \/ \E bytes \in Negotiations : Negotiate(bytes)
     \/ Leave \/ AcceptClient \/ DropClient
     \/ OptionByte \/ SuppressedByte \/ EditLine \/ FinishLine
     \/ SendManualCommand
  /\ UNCHANGED provisioningVars

\* The supervisor is in the middle of nothing when the bridge is served.
Next ==
  \/ Start \/ NetworkReady \/ NetworkGone \/ Supervise
  \/ step = "run" /\ (Login \/ Serve)

Spec == Init /\ [][Next]_vars
=============================================================================
