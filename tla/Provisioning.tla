---------------------------- MODULE Provisioning ----------------------------
(***************************************************************************)
(* The network supervisor of 2GIGMQTT.ino with what it drives: the setup   *)
(* portal, the keys of the credential store, and the OTA service.  The     *)
(* bridge may lose its power between any two writes to the flash, and a    *)
(* write may fail.                                                         *)
(*                                                                         *)
(* Settings are numbered in the order they were submitted, and a key of    *)
(* the store holds the number of the settings it was written from, 0 for   *)
(* none: the salt is new for every number, so a password is verified if    *)
(* salt and hash have the same one.  Wi-Fi is external: it keeps the       *)
(* network it was given last, and is connected or not at any time.         *)
(***************************************************************************)
EXTENDS Naturals, Sequences

CONSTANTS
  MqttKeys,     \* the keys of setMqttSettings, in their order
  MaxSubmits,   \* bound: settings submitted
  MaxFaults,    \* bound: failures of the flash, or of the access point
  MaxRestarts   \* bound: losses of power

TelnetKeys == <<"telnetSalt", "telnetHash", "otaPassHash">>
AllKeys == TelnetKeys \o MqttKeys
Key == {AllKeys[i] : i \in DOMAIN AllKeys}

ASSUME ProvisioningAssumption ==
  /\ MqttKeys \in Seq(STRING)
  /\ \A i \in DOMAIN MqttKeys : \A j \in DOMAIN TelnetKeys :
       MqttKeys[i] # TelnetKeys[j]
  /\ MaxSubmits \in Nat \ {0} /\ MaxFaults \in Nat /\ MaxRestarts \in Nat

VARIABLES
  networkState,
  store,       \* the keys in flash
  wifiSaved,   \* Wi-Fi has a network to join in flash
  wifiUp,      \* WiFi.status() is WL_CONNECTED
  portal,      \* off, or open, or pending with a connection
  step,        \* what the supervisor is in the middle of
  toWrite,     \* keys still to be written
  failed,      \* one of them could not be
  otaHash,     \* the hash OTA authenticates with, 0 while it is not active
  submits, faults, restarts,
  \* What follows is history, read by no handler.
  torn,        \* power was lost while settings were saved or taken back
  unclear      \* the store was to be cleared and could not be

provisioningVars == <<networkState, store, wifiSaved, wifiUp, portal, step,
                      toWrite, failed, otaHash, submits, faults, restarts,
                      torn, unclear>>
bounds == <<submits, faults, restarts>>

Steps == {"run", "save", "clear", "erase", "resetClear", "resetErase",
          "restart"}

ProvisioningTypeOK ==
  /\ networkState \in {"Connecting", "Provisioning", "Connected",
                       "Reconnecting"}
  /\ store \in [Key -> 0..MaxSubmits]
  /\ wifiSaved \in BOOLEAN
  /\ wifiUp \in BOOLEAN
  /\ portal \in {"off", "open", "pending"}
  /\ step \in Steps
  /\ toWrite \in Seq(Key)
  /\ failed \in BOOLEAN
  /\ otaHash \in 0..MaxSubmits
  /\ submits \in 0..MaxSubmits
  /\ faults \in 0..MaxFaults
  /\ restarts \in 0..MaxRestarts
  /\ torn \in BOOLEAN
  /\ unclear \in BOOLEAN

Empty == [k \in Key |-> 0]

\* hasTelnetPassword
HasTelnetPassword == store["telnetSalt"] # 0 /\ store["telnetHash"] # 0

\* verifyTelnetPassword has a salt and its hash to go by.
Verifies == HasTelnetPassword /\ store["telnetSalt"] = store["telnetHash"]

Fault == faults < MaxFaults /\ faults' = faults + 1

\* setup: the access point is tried once.
Setup ==
  /\ step' = "run"
  /\ toWrite' = <<>>
  /\ failed' = FALSE
  /\ otaHash' = 0
  /\ wifiUp' = FALSE
  /\ \/ /\ HasTelnetPassword
        /\ networkState' = "Connecting"
        /\ portal' = "off"
        /\ UNCHANGED faults
     \/ /\ ~HasTelnetPassword
        /\ networkState' = "Provisioning"
        /\ \/ portal' = "open" /\ UNCHANGED faults
           \/ portal' = "off" /\ Fault

\* A new bridge, or one provisioned by a version without OTA.
ProvisioningInit ==
  /\ \/ store = Empty /\ wifiSaved = FALSE /\ submits = 0
     \/ /\ store = [k \in Key |-> IF k = "otaPassHash" THEN 0 ELSE 1]
        /\ wifiSaved = TRUE /\ submits = 1
  /\ networkState = IF HasTelnetPassword THEN "Connecting" ELSE "Provisioning"
  /\ portal = IF HasTelnetPassword THEN "off" ELSE "open"
  /\ wifiUp = FALSE
  /\ step = "run"
  /\ toWrite = <<>>
  /\ failed = FALSE
  /\ otaHash = 0
  /\ faults = 0
  /\ restarts = 0
  /\ torn = FALSE
  /\ unclear = FALSE

-----------------------------------------------------------------------------
(* Wi-Fi, power and the button.                                            *)

WifiChanges ==
  /\ step \notin {"erase", "resetErase", "restart"}
  /\ wifiUp' = ~wifiUp
  /\ wifiUp' => wifiSaved
  /\ UNCHANGED <<networkState, store, wifiSaved, portal, step, toWrite, failed,
                 otaHash, bounds, torn, unclear>>

PowerLoss ==
  /\ restarts < MaxRestarts
  /\ restarts' = restarts + 1
  /\ torn' = (torn \/ step \in {"save", "clear"})
  /\ Setup
  /\ UNCHANGED <<store, wifiSaved, submits, unclear>>

\* ESP.restart after the button was held
Restart ==
  /\ step = "restart"
  /\ Setup
  /\ UNCHANGED <<store, wifiSaved, submits, restarts, torn, unclear>>

\* processFactoryResetButton, up to the first write
FactoryReset ==
  /\ step = "run"
  /\ step' = "resetClear"
  /\ portal' = "off"
  /\ otaHash' = 0
  /\ UNCHANGED <<networkState, store, wifiSaved, wifiUp, toWrite, failed,
                 bounds, torn, unclear>>

-----------------------------------------------------------------------------
(* The credential store.                                                   *)

\* A mutant: only the keys of setMqttSettings are taken back.
ClearMqttOnly ==
  /\ store' = [k \in Key |-> IF \E i \in DOMAIN MqttKeys : MqttKeys[i] = k
                            THEN 0 ELSE store[k]]
  /\ torn' = FALSE
  /\ unclear' = FALSE
  /\ UNCHANGED faults

\* clear
Clear ==
  \/ /\ store' = Empty
     /\ torn' = FALSE
     /\ unclear' = FALSE
     /\ UNCHANGED faults
  \/ /\ Fault
     /\ unclear' = TRUE
     /\ UNCHANGED <<store, torn>>

ClearStore ==
  /\ \/ step = "clear" /\ step' = "erase"
     \/ step = "resetClear" /\ step' = "resetErase"
  /\ Clear
  /\ UNCHANGED <<networkState, wifiSaved, wifiUp, portal, toWrite, failed,
                 otaHash, submits, restarts>>

\* WiFi.disconnect, with the saved network erased
EraseWifi ==
  /\ \/ step = "erase" /\ step' = "run"
     \/ step = "resetErase" /\ step' = "restart"
  /\ wifiSaved' = FALSE
  /\ wifiUp' = FALSE
  /\ UNCHANGED <<networkState, store, portal, toWrite, failed, otaHash, bounds,
                 torn, unclear>>

IsTelnetKey(k) == \E i \in DOMAIN TelnetKeys : TelnetKeys[i] = k

\* A mutant: whether the MQTT settings were saved is not looked at.
PasswordNotSaved(k) == IsTelnetKey(k)

\* passwordSaved and mqttSaved are both asked for.
NotSaved(k) == TRUE

\* setTelnetPassword stops at the first key it cannot write, and
\* setMqttSettings, which follows in any case, at none, unless it cannot open
\* the store at all.
Skipped(k) ==
  IF IsTelnetKey(k) THEN {MqttKeys} ELSE {Tail(toWrite), <<>>}

WriteKey ==
  /\ step = "save"
  /\ toWrite # <<>>
  /\ \/ /\ store' = [store EXCEPT ![Head(toWrite)] = submits]
        /\ toWrite' = Tail(toWrite)
        /\ UNCHANGED <<failed, faults>>
     \/ /\ Fault
        /\ failed' = (failed \/ NotSaved(Head(toWrite)))
        /\ toWrite' \in Skipped(Head(toWrite))
        /\ UNCHANGED store
  /\ UNCHANGED <<networkState, wifiSaved, wifiUp, portal, step, otaHash,
                 submits, restarts, torn, unclear>>

\* ensureOtaPasswordHashForVerifiedPassword; a login is granted either way.
EnsureOtaHash ==
  /\ \/ /\ store' = [store EXCEPT !["otaPassHash"] =
                        IF @ = 0 THEN store["telnetHash"] ELSE @]
        /\ UNCHANGED faults
     \/ /\ store["otaPassHash"] = 0
        /\ Fault
        /\ UNCHANGED store
  /\ UNCHANGED <<networkState, wifiSaved, wifiUp, portal, step, toWrite,
                 failed, otaHash, submits, restarts, torn, unclear>>

-----------------------------------------------------------------------------
(* The portal.                                                             *)

\* handleSave, with fields that are valid
HandleSave ==
  /\ step = "run"
  /\ portal = "open"
  /\ submits < MaxSubmits
  /\ submits' = submits + 1
  /\ portal' = "pending"
  /\ wifiSaved' = TRUE
  /\ UNCHANGED <<networkState, store, wifiUp, step, toWrite, failed, otaHash,
                 faults, restarts, torn, unclear>>

\* loop, when the connection took too long
PortalTimeout ==
  /\ step = "run"
  /\ portal = "pending"
  /\ ~wifiUp
  /\ portal' = "open"
  /\ wifiSaved' = FALSE
  /\ UNCHANGED <<networkState, store, wifiUp, step, toWrite, failed, otaHash,
                 bounds, torn, unclear>>

\* loop and takeConnectedSettings: the settings are to be saved.
TakeSettings ==
  /\ step = "run"
  /\ portal = "pending"
  /\ wifiUp
  /\ portal' = "open"
  /\ step' = "save"
  /\ toWrite' = AllKeys
  /\ failed' = FALSE
  /\ UNCHANGED <<networkState, store, wifiSaved, wifiUp, otaHash, bounds, torn,
                 unclear>>

-----------------------------------------------------------------------------
(* The supervisor.                                                         *)

\* startIfPossible, of an OTA service that is not active
StartIfPossible == otaHash' = IF wifiUp THEN store["otaPassHash"] ELSE 0

\* announceNetworkReady
AnnounceNetworkReady ==
  /\ portal' = "off"
  /\ networkState' = "Connected"
  /\ StartIfPossible

\* A mutant: Wi-Fi is forgotten before the settings are taken back.
EraseFirst == wifiSaved' = FALSE

\* Nothing is forgotten while the store still has a password.
EraseLater == UNCHANGED wifiSaved

SettingsSaved ==
  /\ step = "save"
  /\ toWrite = <<>>
  /\ ~failed
  /\ step' = "run"
  /\ AnnounceNetworkReady
  /\ UNCHANGED <<store, wifiSaved, wifiUp, toWrite, failed, bounds, torn,
                 unclear>>

SettingsNotSaved ==
  /\ step = "save"
  /\ toWrite = <<>>
  /\ failed
  /\ step' = "clear"
  /\ EraseLater
  /\ UNCHANGED <<networkState, store, wifiUp, portal, toWrite, failed, otaHash,
                 bounds, torn, unclear>>

\* Connecting and Reconnecting
WifiConnected ==
  /\ step = "run"
  /\ networkState \in {"Connecting", "Reconnecting"}
  /\ wifiUp
  /\ AnnounceNetworkReady
  /\ UNCHANGED <<store, wifiSaved, wifiUp, step, toWrite, failed, bounds, torn,
                 unclear>>

\* The first connection took too long: the bridge remains provisioned.
ConnectTimeout ==
  /\ step = "run"
  /\ networkState = "Connecting"
  /\ ~wifiUp
  /\ networkState' = "Reconnecting"
  /\ UNCHANGED <<store, wifiSaved, wifiUp, portal, step, toWrite, failed,
                 otaHash, bounds, torn, unclear>>

WifiLost ==
  /\ step = "run"
  /\ networkState = "Connected"
  /\ ~wifiUp
  /\ networkState' = "Reconnecting"
  /\ otaHash' = 0
  /\ UNCHANGED <<store, wifiSaved, wifiUp, portal, step, toWrite, failed,
                 bounds, torn, unclear>>

\* OtaService::loop, on a bridge that had no hash when the network came
StartOta ==
  /\ step = "run"
  /\ networkState = "Connected"
  /\ otaHash = 0
  /\ store["otaPassHash"] # 0
  /\ wifiUp
  /\ StartIfPossible
  /\ UNCHANGED <<networkState, store, wifiSaved, wifiUp, portal, step, toWrite,
                 failed, bounds, torn, unclear>>

-----------------------------------------------------------------------------
(* Correctness.                                                            *)

\* A bridge that calls itself provisioned can be logged in to, and updated
\* with the same password (README.md:81), whatever moment it lost its power
\* at, so long as the store could be cleared when it had to be
\* (setTelnetPassword, hasTelnetPassword).
CredentialsAgree ==
  ~unclear =>
    /\ HasTelnetPassword => store["telnetSalt"] = store["telnetHash"]
    /\ HasTelnetPassword => store["otaPassHash"] \in {0, store["telnetHash"]}
    /\ otaHash \in {0, store["telnetHash"]}

\* A bridge that has left setup mode has all of the settings it was given, or
\* it lost its power while they were saved (processNetwork).
SettingsWhole ==
  networkState # "Provisioning" /\ step = "run" /\ ~torn /\ ~unclear =>
    \A k \in Key \ {"otaPassHash"} : store[k] = store["telnetHash"]

\* README.md:127: "losing Wi-Fi never reopens the setup access point": a
\* bridge that starts without a portal has a network to join (processNetwork,
\* processFactoryResetButton).
ProvisionedCanConnect ==
  networkState # "Provisioning" /\ step = "run" /\ ~unclear => wifiSaved
=============================================================================
