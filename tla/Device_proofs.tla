--------------------------- MODULE Device_proofs ---------------------------
(***************************************************************************)
(* Proofs about Device: for every list of MQTT settings, every password    *)
(* and limit of the Telnet server, and any number of failing writes,       *)
(* losses of power, clients and submitted settings.                        *)
(***************************************************************************)
EXTENDS Device, SequenceTheorems, TLAPS

Salt == store["telnetSalt"]
Hash == store["telnetHash"]
Ota == store["otaPassHash"]

\* The keys that are left when the Telnet password is saved so far.
AfterSalt == <<"telnetHash", "otaPassHash">> \o MqttKeys
AfterHash == <<"otaPassHash">> \o MqttKeys

\* What the supervisor does where.
InSetup ==
  /\ step \in {"save", "clear", "erase"} => networkState = "Provisioning"
  /\ portal # "off" => networkState = "Provisioning"
  /\ otaHash # 0 => networkState = "Connected" /\ step = "run"
  /\ portal = "pending" => step = "run" /\ submits > 0 /\ wifiSaved
  /\ step = "save" => submits > 0 /\ wifiSaved
  /\ step = "clear" => wifiSaved

\* While settings are saved without a failure, every key has been written or
\* is still to be written.
Written ==
  step = "save" /\ ~failed =>
    \A k \in Key :
      store[k] = submits \/ \E i \in DOMAIN toWrite : toWrite[i] = k

\* Salt, hash and OTA hash are written in this order.
InOrder == Hash \in {0, Salt} /\ Ota \in {0, Hash} /\ otaHash \in {0, Hash}

Saves ==
  step = "save" =>
    \/ toWrite = AllKeys /\ Hash = 0
    \/ toWrite = AfterSalt /\ Salt = submits /\ Hash = 0
    \/ toWrite = AfterHash /\ Salt = submits /\ Hash = submits
    \/ \A i \in DOMAIN toWrite : ~IsTelnetKey(toWrite[i])

Cleared == step \in {"erase", "resetErase", "restart"} => store = Empty

\* Setup mode and password exclude each other.
SetupMode ==
  step = "run" => IF networkState = "Provisioning" THEN Hash = 0
                  ELSE HasTelnetPassword

Whole ==
  ~torn /\ HasTelnetPassword /\ step \notin {"save", "clear"} =>
    \A k \in Key \ {"otaPassHash"} : store[k] = Hash

Joins == HasTelnetPassword => wifiSaved

Sound == InOrder /\ Saves /\ Cleared /\ SetupMode /\ Whole /\ Joins

SupervisorInv ==
  ProvisioningTypeOK /\ InSetup /\ Written /\ (~unclear => Sound)

\* What the queue's owner and the count of wrong passwords rest on.
SessionOpen ==
  /\ clientAuthState # "Disconnected" => session > 0
  /\ clientAuthState = "AwaitingPassword" =>
       failedPasswordAttempts < MaxAttempts

TelnetInv == TelnetTypeOK /\ SessionOpen /\ QueueBelongs

LEMMA TailElements ==
  ASSUME NEW S, NEW s \in Seq(S), s # <<>>
  PROVE  \A i \in DOMAIN Tail(s) : i + 1 \in DOMAIN s /\ Tail(s)[i] = s[i + 1]
OBVIOUS

USE ProvisioningAssumption, TelnetAssumption

-----------------------------------------------------------------------------
(* The keys, in the order in which they are written.                       *)

\* The concatenations, over any set that the keys are of.
LEMMA Concatenated ==
  ASSUME NEW S, MqttKeys \in Seq(S),
         "telnetSalt" \in S, "telnetHash" \in S, "otaPassHash" \in S
  PROVE  /\ AllKeys \in Seq(S) /\ Len(AllKeys) = 3 + Len(MqttKeys)
         /\ AfterSalt \in Seq(S) /\ Len(AfterSalt) = 2 + Len(MqttKeys)
         /\ AfterHash \in Seq(S) /\ Len(AfterHash) = 1 + Len(MqttKeys)
BY ConcatProperties DEF AllKeys, TelnetKeys, AfterSalt, AfterHash

LEMMA KeyOrder ==
  /\ AllKeys \in Seq(Key) /\ AllKeys # <<>>
  /\ Head(AllKeys) = "telnetSalt" /\ Tail(AllKeys) = AfterSalt
  /\ AfterSalt # <<>> /\ Head(AfterSalt) = "telnetHash"
  /\ Tail(AfterSalt) = AfterHash
  /\ AfterHash # <<>> /\ Head(AfterHash) = "otaPassHash"
  /\ Tail(AfterHash) = MqttKeys
<1> DEFINE S == STRING \union {"telnetSalt", "telnetHash", "otaPassHash"}
<1>1. /\ AllKeys \in Seq(S) /\ Len(AllKeys) = 3 + Len(MqttKeys)
      /\ AfterSalt \in Seq(S) /\ Len(AfterSalt) = 2 + Len(MqttKeys)
      /\ AfterHash \in Seq(S) /\ Len(AfterHash) = 1 + Len(MqttKeys)
  <2>1. MqttKeys \in Seq(S)
    BY SeqMonotonic
  <2>2. QED
    BY <2>1, Concatenated
<1>2. AllKeys \in Seq(Key)
  <2>1. Key = Range(AllKeys)
    BY DEF Key, Range
  <2>2. QED
    BY <1>1, <2>1, SeqOfRange
<1>3. Head(AllKeys) = "telnetSalt" /\ Head(AfterSalt) = "telnetHash"
        /\ Head(AfterHash) = "otaPassHash"
  BY DEF AllKeys, TelnetKeys, AfterSalt, AfterHash
<1>4. Tail(AllKeys) = AfterSalt
  BY DEF AllKeys, TelnetKeys, AfterSalt
<1>5. Tail(AfterSalt) = AfterHash
  BY DEF AfterSalt, AfterHash
<1>6. Tail(AfterHash) = MqttKeys
  BY DEF AfterHash
<1>7. AllKeys # <<>> /\ AfterSalt # <<>> /\ AfterHash # <<>>
  BY <1>1
<1>8. QED
  BY <1>2, <1>3, <1>4, <1>5, <1>6, <1>7

LEMMA TelnetKeysFirst ==
  /\ "telnetSalt" \in Key /\ "telnetHash" \in Key /\ "otaPassHash" \in Key
  /\ IsTelnetKey("telnetSalt") /\ IsTelnetKey("telnetHash")
  /\ IsTelnetKey("otaPassHash")
  /\ MqttKeys \in Seq(Key)
  /\ \A i \in DOMAIN MqttKeys : ~IsTelnetKey(MqttKeys[i])
<1>1. IsTelnetKey("telnetSalt") /\ IsTelnetKey("telnetHash")
        /\ IsTelnetKey("otaPassHash")
  BY DEF IsTelnetKey, TelnetKeys
<1>2. \A i \in DOMAIN MqttKeys : ~IsTelnetKey(MqttKeys[i])
  BY DEF IsTelnetKey
<1>3. /\ "telnetSalt" \in Key /\ "telnetHash" \in Key
      /\ "otaPassHash" \in Key /\ MqttKeys \in Seq(Key)
  <2>1. ASSUME NEW s \in Seq(Key), s # <<>>
        PROVE  Head(s) \in Key /\ Tail(s) \in Seq(Key)
    BY <2>1, HeadTailProperties
  <2>2. AfterSalt \in Seq(Key)
    BY <2>1, KeyOrder
  <2>3. AfterHash \in Seq(Key)
    BY <2>1, <2>2, KeyOrder
  <2>4. QED
    BY <2>1, <2>2, <2>3, KeyOrder
<1>4. QED
  BY <1>1, <1>2, <1>3

-----------------------------------------------------------------------------
(* The supervisor and the store.                                           *)

LEMMA InitSupervisor == Init => SupervisorInv
<1> SUFFICES ASSUME ProvisioningInit PROVE SupervisorInv
  BY DEF Init
<1>1. failed \in BOOLEAN /\ torn \in BOOLEAN /\ unclear \in BOOLEAN
        /\ wifiSaved \in BOOLEAN /\ wifiUp \in BOOLEAN
  BY Zenon DEF ProvisioningInit
<1>2. CASE store = Empty /\ wifiSaved = FALSE /\ submits = 0
  <2>1. Salt = 0 /\ Hash = 0 /\ Ota = 0 /\ ~HasTelnetPassword
    BY <1>2, TelnetKeysFirst DEF Empty, Salt, Hash, Ota, HasTelnetPassword
  <2>2. ProvisioningTypeOK
    BY <1>1, <1>2 DEF ProvisioningInit, ProvisioningTypeOK, Empty, Steps
  <2>3. InSetup /\ Written
    BY <2>1 DEF ProvisioningInit, InSetup, Written
  <2>4. Sound
    BY <2>1 DEF ProvisioningInit, Sound, InOrder, Saves, Cleared, SetupMode,
                Whole, Joins
  <2>5. QED
    BY <2>2, <2>3, <2>4 DEF SupervisorInv
<1>3. CASE /\ store = [k \in Key |-> IF k = "otaPassHash" THEN 0 ELSE 1]
           /\ wifiSaved = TRUE /\ submits = 1
  <2>1. Salt = 1 /\ Hash = 1 /\ Ota = 0 /\ HasTelnetPassword
    BY <1>3, TelnetKeysFirst DEF Salt, Hash, Ota, HasTelnetPassword
  <2>2. ProvisioningTypeOK
    BY <1>1, <1>3 DEF ProvisioningInit, ProvisioningTypeOK, Steps
  <2>3. InSetup /\ Written
    BY <2>1 DEF ProvisioningInit, InSetup, Written
  <2>4. Sound
    BY <2>1, <1>3 DEF ProvisioningInit, Sound, InOrder, Saves, Cleared,
                      SetupMode, Whole, Joins
  <2>5. QED
    BY <2>2, <2>3, <2>4 DEF SupervisorInv
<1>4. QED
  BY <1>2, <1>3 DEF ProvisioningInit

\* Nothing depends on whether there is a connection.
LEMMA WifiChangesInv ==
  ASSUME SupervisorInv, WifiChanges
  PROVE  SupervisorInv'
<1>1. ProvisioningTypeOK'
  BY TelnetKeysFirst DEF SupervisorInv, ProvisioningTypeOK, Steps, bounds,
                         WifiChanges
<1>2. InSetup' /\ Written'
  BY DEF SupervisorInv, ProvisioningTypeOK, InSetup, Written, bounds,
         WifiChanges
<1>3. ~unclear' => Sound'
  BY TelnetKeysFirst DEF SupervisorInv, ProvisioningTypeOK, InSetup, Sound,
                         InOrder, Saves, Cleared, SetupMode, Whole, Joins,
                         Salt, Hash, Ota, HasTelnetPassword, IsTelnetKey,
                         bounds, WifiChanges
<1>4. QED
  BY <1>1, <1>2, <1>3 DEF SupervisorInv

\* The portal is closed and OTA stopped before anything is erased.
LEMMA FactoryResetInv ==
  ASSUME SupervisorInv, FactoryReset
  PROVE  SupervisorInv'
<1>1. ProvisioningTypeOK'
  BY TelnetKeysFirst DEF SupervisorInv, ProvisioningTypeOK, Steps, bounds,
                         FactoryReset
<1>2. InSetup' /\ Written'
  BY DEF SupervisorInv, ProvisioningTypeOK, InSetup, Written, bounds,
         FactoryReset
<1>3. ~unclear' => Sound'
  BY TelnetKeysFirst DEF SupervisorInv, ProvisioningTypeOK, InSetup, Sound,
                         InOrder, Saves, Cleared, SetupMode, Whole, Joins,
                         Salt, Hash, Ota, HasTelnetPassword, IsTelnetKey,
                         bounds, FactoryReset
<1>4. QED
  BY <1>1, <1>2, <1>3 DEF SupervisorInv

\* The store is empty by now.
LEMMA EraseWifiInv ==
  ASSUME SupervisorInv, EraseWifi
  PROVE  SupervisorInv'
<1>1. ProvisioningTypeOK'
  BY TelnetKeysFirst DEF SupervisorInv, ProvisioningTypeOK, Steps, bounds,
                         EraseWifi, Empty
<1>2. InSetup' /\ Written'
  BY DEF SupervisorInv, ProvisioningTypeOK, InSetup, Written, bounds,
         EraseWifi, Empty
<1>3. ~unclear' => Sound'
  BY TelnetKeysFirst DEF SupervisorInv, ProvisioningTypeOK, InSetup, Sound,
                         InOrder, Saves, Cleared, SetupMode, Whole, Joins,
                         Salt, Hash, Ota, HasTelnetPassword, IsTelnetKey,
                         bounds, EraseWifi, Empty
<1>4. QED
  BY <1>1, <1>2, <1>3 DEF SupervisorInv

\* The first settings ever have the number 1.
LEMMA HandleSaveInv ==
  ASSUME SupervisorInv, HandleSave
  PROVE  SupervisorInv'
<1>1. ProvisioningTypeOK'
  BY TelnetKeysFirst DEF SupervisorInv, ProvisioningTypeOK, Steps, bounds,
                         HandleSave
<1>2. InSetup' /\ Written'
  BY DEF SupervisorInv, ProvisioningTypeOK, InSetup, Written, bounds,
         HandleSave
<1>3. ~unclear' => Sound'
  BY TelnetKeysFirst DEF SupervisorInv, ProvisioningTypeOK, InSetup, Sound,
                         InOrder, Saves, Cleared, SetupMode, Whole, Joins,
                         Salt, Hash, Ota, HasTelnetPassword, IsTelnetKey,
                         bounds, HandleSave
<1>4. QED
  BY <1>1, <1>2, <1>3 DEF SupervisorInv

\* A network is forgotten in setup mode only.
LEMMA PortalTimeoutInv ==
  ASSUME SupervisorInv, PortalTimeout
  PROVE  SupervisorInv'
<1>1. ProvisioningTypeOK'
  BY TelnetKeysFirst DEF SupervisorInv, ProvisioningTypeOK, Steps, bounds,
                         PortalTimeout
<1>2. InSetup' /\ Written'
  BY DEF SupervisorInv, ProvisioningTypeOK, InSetup, Written, bounds,
         PortalTimeout
<1>3. ~unclear' => Sound'
  BY TelnetKeysFirst DEF SupervisorInv, ProvisioningTypeOK, InSetup, Sound,
                         InOrder, Saves, Cleared, SetupMode, Whole, Joins,
                         Salt, Hash, Ota, HasTelnetPassword, IsTelnetKey,
                         bounds, PortalTimeout
<1>4. QED
  BY <1>1, <1>2, <1>3 DEF SupervisorInv

\* The network is kept until the store is empty.
LEMMA SettingsNotSavedInv ==
  ASSUME SupervisorInv, SettingsNotSaved
  PROVE  SupervisorInv'
<1>1. ProvisioningTypeOK'
  BY TelnetKeysFirst DEF SupervisorInv, ProvisioningTypeOK, Steps, bounds,
                         SettingsNotSaved, EraseLater
<1>2. InSetup' /\ Written'
  BY DEF SupervisorInv, ProvisioningTypeOK, InSetup, Written, bounds,
         SettingsNotSaved, EraseLater
<1>3. ~unclear' => Sound'
  BY TelnetKeysFirst DEF SupervisorInv, ProvisioningTypeOK, InSetup, Sound,
                         InOrder, Saves, Cleared, SetupMode, Whole, Joins,
                         Salt, Hash, Ota, HasTelnetPassword, IsTelnetKey,
                         bounds, SettingsNotSaved, EraseLater
<1>4. QED
  BY <1>1, <1>2, <1>3 DEF SupervisorInv

\* OTA starts with the stored hash.
LEMMA WifiConnectedInv ==
  ASSUME SupervisorInv, WifiConnected
  PROVE  SupervisorInv'
<1>1. ProvisioningTypeOK'
  BY TelnetKeysFirst DEF SupervisorInv, ProvisioningTypeOK, Steps, bounds,
                         WifiConnected, AnnounceNetworkReady, StartIfPossible
<1>2. InSetup' /\ Written'
  BY DEF SupervisorInv, ProvisioningTypeOK, InSetup, Written, bounds,
         WifiConnected, AnnounceNetworkReady, StartIfPossible
<1>3. ~unclear' => Sound'
  BY TelnetKeysFirst DEF SupervisorInv, ProvisioningTypeOK, InSetup, Sound,
                         InOrder, Saves, Cleared, SetupMode, Whole, Joins,
                         Salt, Hash, Ota, HasTelnetPassword, IsTelnetKey,
                         bounds, WifiConnected, AnnounceNetworkReady,
                         StartIfPossible
<1>4. QED
  BY <1>1, <1>2, <1>3 DEF SupervisorInv

\* A bridge with a password stays out of setup mode.
LEMMA ConnectTimeoutInv ==
  ASSUME SupervisorInv, ConnectTimeout
  PROVE  SupervisorInv'
<1>1. ProvisioningTypeOK'
  BY TelnetKeysFirst DEF SupervisorInv, ProvisioningTypeOK, Steps, bounds,
                         ConnectTimeout
<1>2. InSetup' /\ Written'
  BY DEF SupervisorInv, ProvisioningTypeOK, InSetup, Written, bounds,
         ConnectTimeout
<1>3. ~unclear' => Sound'
  BY TelnetKeysFirst DEF SupervisorInv, ProvisioningTypeOK, InSetup, Sound,
                         InOrder, Saves, Cleared, SetupMode, Whole, Joins,
                         Salt, Hash, Ota, HasTelnetPassword, IsTelnetKey,
                         bounds, ConnectTimeout
<1>4. QED
  BY <1>1, <1>2, <1>3 DEF SupervisorInv

\* So does one that loses its connection.
LEMMA WifiLostInv ==
  ASSUME SupervisorInv, WifiLost
  PROVE  SupervisorInv'
<1>1. ProvisioningTypeOK'
  BY TelnetKeysFirst DEF SupervisorInv, ProvisioningTypeOK, Steps, bounds,
                         WifiLost
<1>2. InSetup' /\ Written'
  BY DEF SupervisorInv, ProvisioningTypeOK, InSetup, Written, bounds,
         WifiLost
<1>3. ~unclear' => Sound'
  BY TelnetKeysFirst DEF SupervisorInv, ProvisioningTypeOK, InSetup, Sound,
                         InOrder, Saves, Cleared, SetupMode, Whole, Joins,
                         Salt, Hash, Ota, HasTelnetPassword, IsTelnetKey,
                         bounds, WifiLost
<1>4. QED
  BY <1>1, <1>2, <1>3 DEF SupervisorInv

\* The hash that was stored at a login is the password's.
LEMMA StartOtaInv ==
  ASSUME SupervisorInv, StartOta
  PROVE  SupervisorInv'
<1>1. ProvisioningTypeOK'
  BY TelnetKeysFirst DEF SupervisorInv, ProvisioningTypeOK, Steps, bounds,
                         StartOta, StartIfPossible
<1>2. InSetup' /\ Written'
  BY DEF SupervisorInv, ProvisioningTypeOK, InSetup, Written, bounds,
         StartOta, StartIfPossible
<1>3. ~unclear' => Sound'
  BY TelnetKeysFirst DEF SupervisorInv, ProvisioningTypeOK, InSetup, Sound,
                         InOrder, Saves, Cleared, SetupMode, Whole, Joins,
                         Salt, Hash, Ota, HasTelnetPassword, IsTelnetKey,
                         bounds, StartOta, StartIfPossible
<1>4. QED
  BY <1>1, <1>2, <1>3 DEF SupervisorInv

\* A cleared store is an empty one, whatever was torn before.
LEMMA ClearStoreInv ==
  ASSUME SupervisorInv, ClearStore
  PROVE  SupervisorInv'
<1>1. ProvisioningTypeOK'
  <2>1. torn' \in BOOLEAN /\ unclear' \in BOOLEAN
    BY Zenon DEF SupervisorInv, ProvisioningTypeOK, ClearStore, Clear
  <2>2. store' \in [Key -> 0..MaxSubmits]
    BY DEF SupervisorInv, ProvisioningTypeOK, ClearStore, Clear, Empty
  <2>3. QED
    BY <2>1, <2>2 DEF SupervisorInv, ProvisioningTypeOK, Steps, bounds,
                      ClearStore, Clear, Fault
<1>2. InSetup' /\ Written'
  BY DEF SupervisorInv, ProvisioningTypeOK, InSetup, Written, bounds,
         ClearStore
<1>3. ~unclear' => Sound'
  BY TelnetKeysFirst DEF SupervisorInv, ProvisioningTypeOK, InSetup, Sound,
                         InOrder, Saves, Cleared, SetupMode, Whole, Joins,
                         Salt, Hash, Ota, HasTelnetPassword, IsTelnetKey,
                         bounds, ClearStore, Clear, Fault, Empty
<1>4. QED
  BY <1>1, <1>2, <1>3 DEF SupervisorInv

\* Every key is still to be written.
LEMMA TakeSettingsInv ==
  ASSUME SupervisorInv, TakeSettings
  PROVE  SupervisorInv'
<1>1. ProvisioningTypeOK'
  BY KeyOrder DEF SupervisorInv, ProvisioningTypeOK, Steps, bounds,
                  TakeSettings
<1>2. InSetup'
  BY DEF SupervisorInv, InSetup, bounds, TakeSettings
<1>3. Written'
  BY DEF TakeSettings, Written, Key
<1>4. ~unclear' => Sound'
  BY DEF SupervisorInv, ProvisioningTypeOK, InSetup, Sound, InOrder, Saves,
         Cleared, SetupMode, Whole, Joins, Salt, Hash, Ota,
         HasTelnetPassword, IsTelnetKey, bounds, TakeSettings
<1>5. QED
  BY <1>1, <1>2, <1>3, <1>4 DEF SupervisorInv

\* All keys were written: the bridge leaves setup mode with all settings.
LEMMA SettingsSavedInv ==
  ASSUME SupervisorInv, SettingsSaved
  PROVE  SupervisorInv'
<1>1. \A k \in Key : store[k] = submits
  BY DEF SupervisorInv, Written, SettingsSaved
<1>2. Salt = submits /\ Hash = submits /\ HasTelnetPassword /\ submits # 0
  BY <1>1, TelnetKeysFirst DEF SupervisorInv, InSetup, ProvisioningTypeOK,
                               SettingsSaved, Salt, Hash, HasTelnetPassword
<1>3. ProvisioningTypeOK'
  BY TelnetKeysFirst DEF SupervisorInv, ProvisioningTypeOK, Steps, bounds,
                         SettingsSaved, AnnounceNetworkReady, StartIfPossible
<1>4. InSetup' /\ Written'
  BY DEF SupervisorInv, ProvisioningTypeOK, InSetup, Written, bounds,
         SettingsSaved, AnnounceNetworkReady, StartIfPossible
<1>5. ~unclear' => Sound'
  BY <1>1, <1>2, TelnetKeysFirst DEF SupervisorInv, ProvisioningTypeOK,
                                     InSetup, Sound, InOrder, Saves, Cleared,
                                     SetupMode, Whole, Joins, Salt, Hash,
                                     Ota, HasTelnetPassword, IsTelnetKey,
                                     bounds, SettingsSaved,
                                     AnnounceNetworkReady, StartIfPossible
<1>6. QED
  BY <1>3, <1>4, <1>5 DEF SupervisorInv

\* A login completes the OTA hash and nothing else.
LEMMA EnsureOtaHashInv ==
  ASSUME SupervisorInv, EnsureOtaHash, step = "run"
  PROVE  SupervisorInv'
<1>1. ProvisioningTypeOK'
  <2>1. store \in [Key -> 0..MaxSubmits] /\ faults \in 0..MaxFaults
    BY DEF SupervisorInv, ProvisioningTypeOK
  <2>2. faults' \in 0..MaxFaults
    BY <2>1 DEF EnsureOtaHash, Fault
  <2>3. store' \in [Key -> 0..MaxSubmits]
    <3>1. store["telnetHash"] \in 0..MaxSubmits
            /\ store["otaPassHash"] \in 0..MaxSubmits
      BY <2>1, TelnetKeysFirst
    <3>2. \/ store' = store
          \/ store' = [store EXCEPT !["otaPassHash"] = store["telnetHash"]]
          \/ store' = [store EXCEPT !["otaPassHash"] = store["otaPassHash"]]
      BY DEF EnsureOtaHash
    <3>3. QED
      BY <2>1, <3>1, <3>2
  <2>4. QED
    BY <2>2, <2>3 DEF SupervisorInv, ProvisioningTypeOK, EnsureOtaHash
<1>2. InSetup' /\ Written'
  BY DEF SupervisorInv, ProvisioningTypeOK, InSetup, Written, bounds,
         EnsureOtaHash, Fault
<1>3. ~unclear' => Sound'
  BY TelnetKeysFirst DEF SupervisorInv, ProvisioningTypeOK, InSetup, Sound,
                         InOrder, Saves, Cleared, SetupMode, Whole, Joins,
                         Salt, Hash, Ota, HasTelnetPassword, IsTelnetKey,
                         bounds, EnsureOtaHash, Fault
<1>4. QED
  BY <1>1, <1>2, <1>3 DEF SupervisorInv

\* Where the power was lost, the store decides what the bridge starts as.
LEMMA StartInv ==
  ASSUME SupervisorInv, PowerLoss \/ Restart
  PROVE  SupervisorInv'
<1>1. ProvisioningTypeOK'
  <2>1. torn' \in BOOLEAN
    BY Zenon DEF SupervisorInv, ProvisioningTypeOK, PowerLoss, Restart
  <2>2. faults' \in 0..MaxFaults /\ restarts' \in 0..MaxRestarts
    BY DEF SupervisorInv, ProvisioningTypeOK, PowerLoss, Restart, Setup,
           Fault
  <2>3. /\ networkState' \in {"Connecting", "Provisioning"}
        /\ portal' \in {"off", "open"}
    BY DEF PowerLoss, Restart, Setup
  <2>4. /\ step' = "run" /\ toWrite' = <<>> /\ otaHash' = 0
        /\ UNCHANGED <<store, wifiSaved, unclear, submits>>
    BY DEF PowerLoss, Restart, Setup
  <2>5. failed' \in BOOLEAN /\ wifiUp' \in BOOLEAN
    BY Zenon DEF PowerLoss, Restart, Setup
  <2>6. QED
    BY <2>1, <2>2, <2>3, <2>4, <2>5
    DEF SupervisorInv, ProvisioningTypeOK, Steps
<1>2. InSetup' /\ Written'
  BY DEF SupervisorInv, ProvisioningTypeOK, InSetup, Written, bounds,
         PowerLoss, Restart, Setup, Fault
<1>3. ~unclear' => Sound'
  <2>1. ~unclear' => InOrder' /\ Saves' /\ Cleared' /\ Joins'
    BY TelnetKeysFirst DEF SupervisorInv, ProvisioningTypeOK, InSetup, Sound,
                           InOrder, Saves, Cleared, SetupMode, Whole, Joins,
                           Salt, Hash, Ota, HasTelnetPassword, IsTelnetKey,
                           bounds, PowerLoss, Restart, Setup
  <2>2. ~unclear' => SetupMode'
    BY TelnetKeysFirst DEF SupervisorInv, ProvisioningTypeOK, InSetup, Sound,
                           InOrder, Saves, Cleared, SetupMode, Whole, Joins,
                           Salt, Hash, Ota, HasTelnetPassword, IsTelnetKey,
                           bounds, PowerLoss, Restart, Setup
  <2>3. ~unclear' => Whole'
    BY TelnetKeysFirst DEF SupervisorInv, ProvisioningTypeOK, InSetup, Sound,
                           InOrder, Saves, Cleared, SetupMode, Whole, Joins,
                           Salt, Hash, Ota, HasTelnetPassword, IsTelnetKey,
                           bounds, PowerLoss, Restart, Setup, Empty
  <2>4. QED
    BY <2>1, <2>2, <2>3 DEF Sound
<1>4. QED
  BY <1>1, <1>2, <1>3 DEF SupervisorInv

\* A key is written, or what may be skipped with it is.
LEMMA WriteKeyInv ==
  ASSUME SupervisorInv, WriteKey
  PROVE  SupervisorInv'
<1> DEFINE k == Head(toWrite)
           Saved == /\ store' = [store EXCEPT ![k] = submits]
                    /\ toWrite' = Tail(toWrite)
                    /\ UNCHANGED <<failed, faults>>
           Failed == /\ faults < MaxFaults /\ faults' = faults + 1
                     /\ failed' /\ failed' \in BOOLEAN
                     /\ toWrite' \in Skipped(k)
                     /\ UNCHANGED store
<1>1. /\ step = "save" /\ toWrite # <<>> /\ toWrite \in Seq(Key)
      /\ k \in Key /\ Tail(toWrite) \in Seq(Key)
  <2>1. toWrite \in Seq(Key) /\ toWrite # <<>> /\ step = "save"
    BY DEF SupervisorInv, ProvisioningTypeOK, WriteKey
  <2>2. QED
    BY <2>1, HeadTailProperties
<1>2. UNCHANGED <<networkState, wifiSaved, wifiUp, portal, step, otaHash,
                  submits, restarts, torn, unclear>>
  BY DEF WriteKey
<1>3. Saved \/ Failed
  <2>1. failed \in BOOLEAN
    BY DEF SupervisorInv, ProvisioningTypeOK
  <2>2. QED
    BY <2>1 DEF WriteKey, Fault, NotSaved
<1>4. \A i \in DOMAIN Tail(toWrite) :
        i + 1 \in DOMAIN toWrite /\ Tail(toWrite)[i] = toWrite[i + 1]
  BY <1>1, TailElements
<1>5. ProvisioningTypeOK'
  <2>1. store' \in [Key -> 0..MaxSubmits]
    <3>1. submits \in 0..MaxSubmits /\ store \in [Key -> 0..MaxSubmits]
      BY DEF SupervisorInv, ProvisioningTypeOK
    <3>2. [store EXCEPT ![k] = submits] \in [Key -> 0..MaxSubmits]
      BY <1>1, <3>1
    <3>3. QED
      BY <1>3, <3>1, <3>2
  <2>2. toWrite' \in Seq(Key)
    <3>1. \/ toWrite' = MqttKeys \/ toWrite' = Tail(toWrite)
          \/ toWrite' = <<>>
      BY <1>3 DEF Skipped
    <3>2. <<>> \in Seq(Key)
      OBVIOUS
    <3>3. QED
      BY <1>1, <3>1, <3>2, TelnetKeysFirst
  <2>3. failed' \in BOOLEAN /\ faults' \in 0..MaxFaults
    BY <1>3 DEF SupervisorInv, ProvisioningTypeOK
  <2>4. QED
    BY <1>2, <2>1, <2>2, <2>3 DEF SupervisorInv, ProvisioningTypeOK
<1>6. InSetup'
  BY <1>2 DEF SupervisorInv, InSetup
<1>7. Written'
  <2>1. CASE Saved
    <3> SUFFICES ASSUME ~failed, NEW j \in Key, store'[j] # submits
                 PROVE  \E i \in DOMAIN toWrite' : toWrite'[i] = j
      BY <1>2, <2>1 DEF Written
    <3>1. store[j] # submits /\ j # k
      BY <2>1, <1>1 DEF SupervisorInv, ProvisioningTypeOK
    <3>2. PICK i \in DOMAIN toWrite : toWrite[i] = j
      BY <1>1, <3>1 DEF SupervisorInv, Written
    <3>3. i # 1 /\ i - 1 \in DOMAIN Tail(toWrite)
            /\ Tail(toWrite)[i - 1] = toWrite[i]
      BY <1>1, <3>1, <3>2
    <3>4. QED
      BY <2>1, <3>2, <3>3
  <2>2. CASE Failed
    BY <2>2 DEF Written
  <2>3. QED
    BY <1>3, <2>1, <2>2
<1>8. ASSUME ~unclear' PROVE Sound'
  <2>1. Sound /\ otaHash = 0 /\ wifiSaved /\ step' = "save"
    BY <1>1, <1>2, <1>8 DEF SupervisorInv, InSetup
  <2>2. InOrder' /\ Saves'
    <3>1. CASE toWrite = AllKeys /\ Hash = 0
      <4>1. k = "telnetSalt" /\ Tail(toWrite) = AfterSalt
        BY <3>1, KeyOrder
      <4>2. CASE Saved
        BY <1>2, <2>1, <3>1, <4>1, <4>2, <1>5, TelnetKeysFirst
        DEF Sound, InOrder, Saves, Salt, Hash, Ota, SupervisorInv,
            ProvisioningTypeOK
      <4>3. CASE Failed
        BY <1>2, <2>1, <3>1, <4>1, <4>3, TelnetKeysFirst
        DEF Sound, InOrder, Saves, Salt, Hash, Ota, Skipped
      <4>4. QED
        BY <1>3, <4>2, <4>3
    <3>2. CASE toWrite = AfterSalt /\ Salt = submits /\ Hash = 0
      <4>1. k = "telnetHash" /\ Tail(toWrite) = AfterHash
        BY <3>2, KeyOrder
      <4>2. CASE Saved
        BY <1>2, <2>1, <3>2, <4>1, <4>2, TelnetKeysFirst
        DEF Sound, InOrder, Saves, Salt, Hash, Ota, SupervisorInv,
            ProvisioningTypeOK
      <4>3. CASE Failed
        BY <1>2, <2>1, <3>2, <4>1, <4>3, TelnetKeysFirst
        DEF Sound, InOrder, Saves, Salt, Hash, Ota, Skipped
      <4>4. QED
        BY <1>3, <4>2, <4>3
    <3>3. CASE toWrite = AfterHash /\ Salt = submits /\ Hash = submits
      <4>1. k = "otaPassHash" /\ Tail(toWrite) = MqttKeys
        BY <3>3, KeyOrder
      <4>2. CASE Saved
        BY <1>2, <2>1, <3>3, <4>1, <4>2, TelnetKeysFirst
        DEF Sound, InOrder, Saves, Salt, Hash, Ota, SupervisorInv,
            ProvisioningTypeOK
      <4>3. CASE Failed
        BY <1>2, <2>1, <3>3, <4>1, <4>3, TelnetKeysFirst
        DEF Sound, InOrder, Saves, Salt, Hash, Ota, Skipped
      <4>4. QED
        BY <1>3, <4>2, <4>3
    <3>4. CASE \A i \in DOMAIN toWrite : ~IsTelnetKey(toWrite[i])
      <4>1. ~IsTelnetKey(k)
        BY <1>1, <3>4
      <4>2. k # "telnetSalt" /\ k # "telnetHash" /\ k # "otaPassHash"
        BY <4>1, TelnetKeysFirst
      <4>3. Salt' = Salt /\ Hash' = Hash /\ Ota' = Ota
        BY <1>3, <4>2, TelnetKeysFirst
        DEF Salt, Hash, Ota, SupervisorInv, ProvisioningTypeOK
      <4>4. toWrite' = Tail(toWrite) \/ toWrite' = <<>>
        BY <1>3, <4>1 DEF Skipped
      <4>5. \A i \in DOMAIN toWrite' : ~IsTelnetKey(toWrite'[i])
        <5>1. CASE toWrite' = Tail(toWrite)
          BY <1>4, <3>4, <5>1
        <5>2. CASE toWrite' = <<>>
          BY <5>2
        <5>3. QED
          BY <4>4, <5>1, <5>2
      <4>6. QED
        BY <1>2, <2>1, <4>3, <4>5 DEF Sound, InOrder, Saves
    <3>5. QED
      BY <1>1, <2>1, <3>1, <3>2, <3>3, <3>4 DEF Sound, Saves
  <2>3. Cleared' /\ SetupMode' /\ Whole' /\ Joins'
    BY <1>2, <2>1 DEF Cleared, SetupMode, Whole, Joins
  <2>4. QED
    BY <2>2, <2>3 DEF Sound
<1>9. QED
  BY <1>5, <1>6, <1>7, <1>8 DEF SupervisorInv

-----------------------------------------------------------------------------
(* The Telnet session.                                                     *)

LEMMA InitTelnet == Init => TelnetInv
<1> SUFFICES ASSUME TelnetInit PROVE TelnetInv
  BY DEF Init
<1>1. networkReady \in BOOLEAN /\ suppressByteAfterCr \in BOOLEAN
        /\ loggedIn \in BOOLEAN
  BY Zenon DEF TelnetInit
<1>2. TelnetTypeOK
  BY <1>1 DEF TelnetInit, TelnetTypeOK
<1>3. SessionOpen /\ QueueBelongs
  BY DEF TelnetInit, SessionOpen, QueueBelongs
<1>4. QED
  BY <1>2, <1>3 DEF TelnetInv

LEMMA NewHistoryType ==
  ASSUME NewHistory
  PROVE  /\ typed' \in Seq(Keys) /\ Len(typed') <= MaxLine
         /\ wrong' \in 0..MaxWrong /\ loggedIn' \in BOOLEAN
<1>1. loggedIn' \in BOOLEAN
  BY Zenon DEF NewHistory
<1>2. typed' = <<>> /\ wrong' = 0
  BY DEF NewHistory
<1>3. QED
  BY <1>1, <1>2

\* A start leaves no session.
LEMMA TelnetStartInv ==
  ASSUME TelnetInv, TelnetStart
  PROVE  TelnetInv'
<1>1. TelnetTypeOK'
  <2>1. networkReady' \in BOOLEAN /\ suppressByteAfterCr' \in BOOLEAN
    BY Zenon DEF TelnetStart
  <2>2. QED
    BY <2>1, NewHistoryType DEF TelnetInv, TelnetTypeOK, TelnetStart
<1>2. SessionOpen'
  BY DEF TelnetInv, TelnetTypeOK, SessionOpen, client, history, TelnetStart,
         NewHistory
<1>3. QueueBelongs'
  BY DEF TelnetInv, TelnetTypeOK, QueueBelongs, client, history, TelnetStart,
         NewHistory
<1>4. QED
  BY <1>1, <1>2, <1>3 DEF TelnetInv

\* What a client does changes the wire and its own history.
LEMMA PressInv ==
  ASSUME NEW k \in Keys, TelnetInv, Press(k)
  PROVE  TelnetInv'
<1>1. TelnetTypeOK'
  BY DEF TelnetInv, TelnetTypeOK, client, history, Press, CanType, Bytes
<1>2. SessionOpen'
  BY DEF TelnetInv, TelnetTypeOK, SessionOpen, client, history, Press,
         CanType, Bytes
<1>3. QueueBelongs'
  BY DEF TelnetInv, TelnetTypeOK, QueueBelongs, client, history, Press,
         CanType, Bytes
<1>4. QED
  BY <1>1, <1>2, <1>3 DEF TelnetInv

\* Likewise.
LEMMA BackspaceInv ==
  ASSUME TelnetInv, Backspace
  PROVE  TelnetInv'
<1>1. TelnetTypeOK'
  BY DEF TelnetInv, TelnetTypeOK, client, history, Backspace, CanType, Bytes,
         Controls
<1>2. SessionOpen'
  BY DEF TelnetInv, TelnetTypeOK, SessionOpen, client, history, Backspace,
         CanType, Bytes, Controls
<1>3. QueueBelongs'
  BY DEF TelnetInv, TelnetTypeOK, QueueBelongs, client, history, Backspace,
         CanType, Bytes, Controls
<1>4. QED
  BY <1>1, <1>2, <1>3 DEF TelnetInv

\* Likewise.
LEMMA EnterInv ==
  ASSUME NEW ending \in LineEndings, NEW verifies \in BOOLEAN, TelnetInv,
         Enter(ending, verifies)
  PROVE  TelnetInv'
<1>1. TelnetTypeOK'
  <2>1. loggedIn' \in BOOLEAN
    BY Zenon DEF Enter
  <2>2. wire' \in Seq(Bytes)
    <3>1. Controls \subseteq Bytes
      BY DEF Bytes
    <3>2. LineEndings \subseteq Seq(Controls)
      BY DEF LineEndings, Controls
    <3>3. QED
      BY <3>1, <3>2 DEF Enter
  <2>3. wrong' \in 0..MaxWrong
    BY DEF TelnetInv, TelnetTypeOK, Enter
  <2>4. typed' = <<>>
    BY DEF Enter
  <2>5. QED
    BY <2>1, <2>2, <2>3, <2>4 DEF TelnetInv, TelnetTypeOK, Enter, client
<1>2. SessionOpen'
  BY DEF TelnetInv, TelnetTypeOK, SessionOpen, client, history, Enter,
         CanType, Bytes, Controls, LineEndings
<1>3. QueueBelongs'
  BY DEF TelnetInv, TelnetTypeOK, QueueBelongs, client, history, Enter,
         CanType, Bytes, Controls, LineEndings
<1>4. QED
  BY <1>1, <1>2, <1>3 DEF TelnetInv

\* Likewise.
LEMMA NegotiateInv ==
  ASSUME NEW bytes \in Negotiations, TelnetInv, Negotiate(bytes)
  PROVE  TelnetInv'
<1>1. TelnetTypeOK'
  <2>1. wire' \in Seq(Bytes)
    <3>1. Controls \subseteq Bytes
      BY DEF Bytes
    <3>2. Negotiations \subseteq Seq(Controls)
      BY DEF Negotiations, Controls
    <3>3. QED
      BY <3>1, <3>2 DEF Negotiate
  <2>2. QED
    BY <2>1 DEF TelnetInv, TelnetTypeOK, Negotiate, client, history
<1>2. SessionOpen'
  BY DEF TelnetInv, TelnetTypeOK, SessionOpen, client, history, Negotiate,
         CanType, Bytes, Controls, Negotiations
<1>3. QueueBelongs'
  BY DEF TelnetInv, TelnetTypeOK, QueueBelongs, client, history, Negotiate,
         CanType, Bytes, Controls, Negotiations
<1>4. QED
  BY <1>1, <1>2, <1>3 DEF TelnetInv

\* Likewise.
LEMMA LeaveInv ==
  ASSUME TelnetInv, Leave
  PROVE  TelnetInv'
<1>1. TelnetTypeOK'
  BY DEF TelnetInv, TelnetTypeOK, client, history, Leave
<1>2. SessionOpen'
  BY DEF TelnetInv, TelnetTypeOK, SessionOpen, client, history, Leave
<1>3. QueueBelongs'
  BY DEF TelnetInv, TelnetTypeOK, QueueBelongs, client, history, Leave
<1>4. QED
  BY <1>1, <1>2, <1>3 DEF TelnetInv

\* A new session starts with an empty queue and all of its attempts.
LEMMA AcceptClientInv ==
  ASSUME TelnetInv, AcceptClient
  PROVE  TelnetInv'
<1>1. TelnetTypeOK'
  BY NewHistoryType DEF TelnetInv, TelnetTypeOK, client, history,
                        AcceptClient
<1>2. SessionOpen'
  BY DEF TelnetInv, TelnetTypeOK, SessionOpen, client, history, AcceptClient,
         NewHistory
<1>3. QueueBelongs'
  BY DEF TelnetInv, TelnetTypeOK, QueueBelongs, client, history,
         AcceptClient, NewHistory
<1>4. QED
  BY <1>1, <1>2, <1>3 DEF TelnetInv

\* The queue goes with the session.
LEMMA DropClientInv ==
  ASSUME TelnetInv, DropClient
  PROVE  TelnetInv'
<1>1. TelnetTypeOK'
  BY NewHistoryType DEF TelnetInv, TelnetTypeOK, client, history, DropClient,
                        DisconnectClient
<1>2. SessionOpen'
  BY DEF TelnetInv, TelnetTypeOK, SessionOpen, client, history, DropClient,
         DisconnectClient, NewHistory
<1>3. QueueBelongs'
  BY DEF TelnetInv, TelnetTypeOK, QueueBelongs, client, history, DropClient,
         DisconnectClient, NewHistory
<1>4. QED
  BY <1>1, <1>2, <1>3 DEF TelnetInv

\* It goes with the network.
LEMMA SetNetworkReadyInv ==
  ASSUME NEW ready \in BOOLEAN, TelnetInv, SetNetworkReady(ready)
  PROVE  TelnetInv'
<1>1. TelnetTypeOK'
  <2>1. CASE ready
    BY <2>1 DEF TelnetInv, TelnetTypeOK, SetNetworkReady, history
  <2>2. CASE ~ready
    BY <2>2, NewHistoryType
    DEF TelnetInv, TelnetTypeOK, SetNetworkReady, DisconnectClient
  <2>3. QED
    BY <2>1, <2>2
<1>2. SessionOpen'
  BY DEF TelnetInv, TelnetTypeOK, SessionOpen, client, history,
         SetNetworkReady, DisconnectClient, NewHistory
<1>3. QueueBelongs'
  BY DEF TelnetInv, TelnetTypeOK, QueueBelongs, client, history,
         SetNetworkReady, DisconnectClient, NewHistory
<1>4. QED
  BY <1>1, <1>2, <1>3 DEF TelnetInv

\* The rest of the queue is of the same session.
LEMMA SendManualCommandInv ==
  ASSUME TelnetInv, SendManualCommand
  PROVE  TelnetInv'
<1>1. TelnetTypeOK'
  BY DEF TelnetInv, TelnetTypeOK, client, history, SendManualCommand
<1>2. SessionOpen'
  BY DEF TelnetInv, TelnetTypeOK, SessionOpen, client, history,
         SendManualCommand
<1>3. QueueBelongs'
  <2>1. /\ commandQueue \in Seq(1..MaxSessions) /\ commandQueue # <<>>
        /\ UNCHANGED <<networkReady, clientAuthState, txMode, session>>
        /\ commandQueue' = Tail(commandQueue)
    BY DEF TelnetInv, TelnetTypeOK, SendManualCommand, history
  <2>2. \A i \in DOMAIN commandQueue' : commandQueue'[i] = session
    BY <2>1, TailElements DEF TelnetInv, QueueBelongs
  <2>3. QED
    BY <2>1, <2>2 DEF TelnetInv, QueueBelongs
<1>4. QED
  BY <1>1, <1>2, <1>3 DEF TelnetInv

ParseStates == {"Data", "Iac", "Option", "Subnegotiation", "SubIac"}

LEMMA NextByteType ==
  ASSUME TelnetInv, NEW b, NextByte(b)
  PROVE  /\ b \in Bytes /\ Tail(wire) \in Seq(Bytes)
         /\ telnetParseState' \in ParseStates
         /\ networkReady
<1>1. wire \in Seq(Bytes) /\ wire # <<>> /\ b = Head(wire) /\ networkReady
  BY DEF TelnetInv, TelnetTypeOK, NextByte
<1>2. b \in Bytes /\ Tail(wire) \in Seq(Bytes)
  BY <1>1, HeadTailProperties
<1>3. telnetParseState \in ParseStates /\ telnetParseState' = Parsed(b)
  BY DEF TelnetInv, TelnetTypeOK, NextByte, ParseStates
<1>4. telnetParseState' \in ParseStates
  BY <1>3 DEF Parsed, ParseStates
<1>5. QED
  BY <1>1, <1>2, <1>4

LEMMA DataByteType ==
  ASSUME TelnetInv, NEW b, DataByte(b)
  PROVE  /\ b \in Bytes /\ Tail(wire) \in Seq(Bytes)
         /\ telnetParseState' \in ParseStates
         /\ suppressByteAfterCr' \in BOOLEAN
         /\ networkReady
<1>1. suppressByteAfterCr' \in BOOLEAN
  BY Zenon DEF DataByte
<1>2. QED
  BY <1>1, NextByteType DEF DataByte

\* A byte that is no data leaves the line and the queue alone.
LEMMA OptionByteInv ==
  ASSUME TelnetInv, OptionByte
  PROVE  TelnetInv'
<1>1. PICK b : NextByte(b) /\ wire' = Tail(wire)
  BY DEF OptionByte
<1>2. TelnetTypeOK'
  BY <1>1, NextByteType
  DEF TelnetInv, TelnetTypeOK, OptionByte, client, history, ParseStates
<1>3. SessionOpen' /\ QueueBelongs'
  BY <1>1, NextByteType
  DEF TelnetInv, SessionOpen, QueueBelongs, OptionByte, client, history
<1>4. QED
  BY <1>2, <1>3 DEF TelnetInv

\* Nor does the second byte of an end of line.
LEMMA SuppressedByteInv ==
  ASSUME TelnetInv, SuppressedByte
  PROVE  TelnetInv'
<1>1. PICK b : NextByte(b) /\ wire' = Tail(wire)
  BY DEF SuppressedByte
<1>2. suppressByteAfterCr' \in BOOLEAN
  BY Zenon DEF SuppressedByte
<1>3. TelnetTypeOK'
  BY <1>1, <1>2, NextByteType
  DEF TelnetInv, TelnetTypeOK, SuppressedByte, client, history, ParseStates
<1>4. SessionOpen' /\ QueueBelongs'
  BY <1>1, NextByteType
  DEF TelnetInv, SessionOpen, QueueBelongs, SuppressedByte, client, history
<1>5. QED
  BY <1>3, <1>4 DEF TelnetInv

\* The line stays within its limit.
LEMMA EditedType ==
  ASSUME TelnetInv, NEW b
  PROVE  Edited(b) \in Seq(Keys) /\ Len(Edited(b)) <= MaxLine
<1>1. telnetLine \in Seq(Keys) /\ Len(telnetLine) <= MaxLine
  BY DEF TelnetInv, TelnetTypeOK
<1>2. CASE b = "bs" /\ telnetLine # <<>>
  BY <1>1, <1>2 DEF Edited
<1>3. CASE ~(b = "bs" /\ telnetLine # <<>>)
             /\ b \in Keys /\ Len(telnetLine) < MaxLine
  <2>1. Edited(b) = Append(telnetLine, b)
    BY <1>3 DEF Edited
  <2>2. QED
    BY <1>1, <1>3, <2>1
<1>4. CASE ~(b = "bs" /\ telnetLine # <<>>)
             /\ ~(b \in Keys /\ Len(telnetLine) < MaxLine)
  BY <1>1, <1>4 DEF Edited
<1>5. QED
  BY <1>2, <1>3, <1>4

LEMMA EditLineInv ==
  ASSUME TelnetInv, EditLine
  PROVE  TelnetInv'
<1>1. PICK b : DataByte(b) /\ telnetLine' = Edited(b) /\ wire' = Tail(wire)
  BY DEF EditLine
<1>2. TelnetTypeOK'
  BY <1>1, DataByteType, EditedType
  DEF TelnetInv, TelnetTypeOK, EditLine, history, ParseStates
<1>3. SessionOpen' /\ QueueBelongs'
  BY <1>1, DataByteType
  DEF TelnetInv, SessionOpen, QueueBelongs, EditLine, history
<1>4. QED
  BY <1>2, <1>3 DEF TelnetInv

\* What every end of line does.
LEMMA LineEndsType ==
  ASSUME TelnetInv, NEW state, LineEnds(state)
  PROVE  /\ Tail(wire) \in Seq(Bytes) /\ telnetParseState' \in ParseStates
         /\ suppressByteAfterCr' \in BOOLEAN
         /\ networkReady /\ UNCHANGED networkReady
         /\ clientAuthState = state
<1>1. PICK b : DataByte(b)
  BY DEF LineEnds
<1>2. QED
  BY <1>1, DataByteType DEF LineEnds

\* Nothing is queued before the login.
LEMMA AcceptedInv ==
  ASSUME TelnetInv, Accepted
  PROVE  TelnetInv'
<1>1. LineEnds("AwaitingPassword")
  BY DEF Accepted
<1>2. TelnetTypeOK'
  BY <1>1, LineEndsType
  DEF TelnetInv, TelnetTypeOK, Accepted, history, ParseStates
<1>3. SessionOpen' /\ QueueBelongs'
  BY <1>1, LineEndsType
  DEF TelnetInv, SessionOpen, QueueBelongs, Accepted, history
<1>4. QED
  BY <1>2, <1>3 DEF TelnetInv

LEMMA RefusedInv ==
  ASSUME TelnetInv, NEW verifies, Refused(verifies)
  PROVE  TelnetInv'
<1>1. LineEnds("AwaitingPassword")
  BY DEF Refused
<1>2. TelnetTypeOK'
  BY <1>1, LineEndsType
  DEF TelnetInv, TelnetTypeOK, SessionOpen, Refused, history, ParseStates
<1>3. SessionOpen' /\ QueueBelongs'
  BY <1>1, LineEndsType
  DEF TelnetInv, TelnetTypeOK, SessionOpen, QueueBelongs, Refused, history
<1>4. QED
  BY <1>2, <1>3 DEF TelnetInv

\* The count ends at its limit, with the session.
LEMMA RefusedAtLastInv ==
  ASSUME TelnetInv, NEW verifies, RefusedAtLast(verifies)
  PROVE  TelnetInv'
<1>1. LineEnds("AwaitingPassword")
  BY DEF RefusedAtLast
<1>2. failedPasswordAttempts' \in 0..MaxAttempts
  BY <1>1, LineEndsType
  DEF TelnetInv, TelnetTypeOK, SessionOpen, RefusedAtLast
<1>3. TelnetTypeOK'
  BY <1>1, <1>2, LineEndsType, NewHistoryType
  DEF TelnetInv, TelnetTypeOK, RefusedAtLast, DisconnectClient, ParseStates
<1>4. SessionOpen' /\ QueueBelongs'
  BY DEF SessionOpen, QueueBelongs, RefusedAtLast, DisconnectClient
<1>5. QED
  BY <1>3, <1>4 DEF TelnetInv

\* A line is queued in Maintenance mode only, for the session it came in, and
\* no other mode leaves anything in the queue.
LEMMA FinishLineInv ==
  ASSUME TelnetInv, FinishLine
  PROVE  TelnetInv'
<1>1. LineEnds("Authenticated") /\ LineCarriedOut
  BY DEF FinishLine
<1>2. /\ networkReady /\ clientAuthState = "Authenticated" /\ session > 0
      /\ session \in 0..MaxSessions
      /\ commandQueue \in Seq(1..MaxSessions) /\ Len(commandQueue) <= MaxQueued
      /\ \A i \in DOMAIN commandQueue : commandQueue[i] = session
  BY <1>1, LineEndsType
  DEF TelnetInv, TelnetTypeOK, SessionOpen, QueueBelongs
<1>3. /\ commandQueue' \in Seq(1..MaxSessions)
      /\ Len(commandQueue') <= MaxQueued
      /\ \A i \in DOMAIN commandQueue' : commandQueue'[i] = session
      /\ commandQueue' # <<>> => txMode' = "Maintenance"
      /\ txMode' \in {"Passive", "Monitor", "Maintenance"}
  <2>1. CASE commandQueue' = <<>> /\ txMode' \in {"Passive", "Monitor"}
    BY <2>1
  <2>2. CASE commandQueue' = commandQueue /\ txMode' = "Maintenance"
    BY <1>2, <2>2
  <2>3. CASE commandQueue' = commandQueue /\ txMode' = txMode
    BY <1>2, <2>3 DEF TelnetInv, TelnetTypeOK, QueueBelongs
  <2>4. CASE /\ commandQueue' = Append(commandQueue, session)
             /\ txMode' = txMode /\ txMode = "Maintenance"
             /\ Len(commandQueue) < MaxQueued
    BY <1>2, <2>4
  <2>5. QED
    BY <1>1, <1>2, <2>1, <2>2, <2>3, <2>4
    DEF LineCarriedOut, ModeSet, EnterMonitor
<1>4. TelnetTypeOK'
  BY <1>1, <1>3, LineEndsType
  DEF TelnetInv, TelnetTypeOK, FinishLine, history, ParseStates
<1>5. SessionOpen' /\ QueueBelongs'
  BY <1>1, <1>2, <1>3, LineEndsType
  DEF TelnetInv, SessionOpen, QueueBelongs, FinishLine, history
<1>6. QED
  BY <1>4, <1>5 DEF TelnetInv

-----------------------------------------------------------------------------
(* The device.                                                             *)

Inv == SupervisorInv /\ TelnetInv

LEMMA SupervisorUnchanged ==
  ASSUME SupervisorInv, UNCHANGED provisioningVars
  PROVE  SupervisorInv'
BY DEF SupervisorInv, ProvisioningTypeOK, InSetup, Written, Sound, InOrder,
       Saves, Cleared, SetupMode, Whole, Joins, Salt, Hash, Ota,
       HasTelnetPassword, provisioningVars, bounds

LEMMA TelnetUnchanged ==
  ASSUME TelnetInv, UNCHANGED telnetVars
  PROVE  TelnetInv'
BY DEF TelnetInv, TelnetTypeOK, SessionOpen, QueueBelongs, telnetVars

LEMMA SuperviseInv == Inv /\ Supervise => Inv'
<1> SUFFICES ASSUME Inv, Supervise PROVE Inv'
  OBVIOUS
<1>1. SupervisorInv'
  BY WifiChangesInv, ClearStoreInv, EraseWifiInv, WriteKeyInv, HandleSaveInv,
     PortalTimeoutInv, TakeSettingsInv, SettingsNotSavedInv,
     ConnectTimeoutInv, StartOtaInv
  DEF Inv, Supervise
<1>2. TelnetInv'
  BY TelnetUnchanged DEF Inv, Supervise
<1>3. QED
  BY <1>1, <1>2 DEF Inv

LEMMA LoginInv == Inv /\ Login /\ step = "run" => Inv'
<1> SUFFICES ASSUME Inv, Login, step = "run" PROVE Inv'
  OBVIOUS
<1>1. CASE Accepted /\ EnsureOtaHash
  BY <1>1, AcceptedInv, EnsureOtaHashInv DEF Inv
<1>2. CASE Refused(Verifies) /\ UNCHANGED provisioningVars
  BY <1>2, RefusedInv, SupervisorUnchanged DEF Inv
<1>3. CASE RefusedAtLast(Verifies) /\ UNCHANGED provisioningVars
  BY <1>3, RefusedAtLastInv, SupervisorUnchanged DEF Inv
<1>4. QED
  BY <1>1, <1>2, <1>3 DEF Login

LEMMA ServeInv == Inv /\ Serve => Inv'
<1> SUFFICES ASSUME Inv, Serve PROVE Inv'
  OBVIOUS
<1>1. SupervisorInv'
  BY SupervisorUnchanged DEF Inv, Serve
<1>2. Verifies \in BOOLEAN
  BY Zenon DEF Verifies
<1>3. TelnetInv'
  <2>1. CASE \E k \in Keys : Press(k)
    BY <2>1, PressInv DEF Inv
  <2>2. CASE \E ending \in LineEndings : Enter(ending, Verifies)
    BY <1>2, <2>2, EnterInv DEF Inv
  <2>3. CASE \E bytes \in Negotiations : Negotiate(bytes)
    BY <2>3, NegotiateInv DEF Inv
  <2>4. CASE \/ Backspace \/ Leave \/ AcceptClient \/ DropClient
             \/ OptionByte \/ SuppressedByte \/ EditLine \/ FinishLine
             \/ SendManualCommand
    BY <2>4, BackspaceInv, LeaveInv, AcceptClientInv, DropClientInv,
       OptionByteInv, SuppressedByteInv, EditLineInv, FinishLineInv,
       SendManualCommandInv
    DEF Inv
  <2>5. QED
    BY <2>1, <2>2, <2>3, <2>4 DEF Serve
<1>4. QED
  BY <1>1, <1>3 DEF Inv

LEMMA NextInv == Inv /\ [Next]_vars => Inv'
<1> SUFFICES ASSUME Inv, [Next]_vars PROVE Inv'
  OBVIOUS
<1>1. CASE Start
  BY <1>1, StartInv, TelnetStartInv DEF Inv, Start
<1>2. CASE NetworkReady
  BY <1>2, SettingsSavedInv, WifiConnectedInv, SetNetworkReadyInv
  DEF Inv, NetworkReady
<1>3. CASE NetworkGone
  BY <1>3, WifiLostInv, FactoryResetInv, SetNetworkReadyInv
  DEF Inv, NetworkGone
<1>4. CASE Supervise
  BY <1>4, SuperviseInv
<1>5. CASE step = "run" /\ Login
  BY <1>5, LoginInv
<1>6. CASE step = "run" /\ Serve
  BY <1>6, ServeInv
<1>7. CASE UNCHANGED vars
  BY <1>7, SupervisorUnchanged, TelnetUnchanged DEF Inv, vars
<1>8. QED
  BY <1>1, <1>2, <1>3, <1>4, <1>5, <1>6, <1>7 DEF Next

LEMMA Invariance == Spec => []Inv
<1>1. Init => Inv
  BY InitSupervisor, InitTelnet DEF Inv
<1>2. QED
  BY <1>1, NextInv, PTL DEF Spec

-----------------------------------------------------------------------------
\* All variables keep their types; in particular the line, the queue and the
\* count of wrong passwords stay within their limits.
THEOREM TypeCorrect == Spec => []TypeOK
<1>1. Inv => TypeOK
  BY DEF Inv, SupervisorInv, TelnetInv, TypeOK
<1>2. QED
  BY <1>1, Invariance, PTL

\* No console command waits for longer than its mode, its session and the
\* network last (processManualCommandQueue, disconnectClient).
THEOREM QueuesBelong == Spec => []QueueBelongs
<1>1. Inv => QueueBelongs
  BY DEF Inv, TelnetInv
<1>2. QED
  BY <1>1, Invariance, PTL

\* Whatever moment the power was lost at, a bridge that counts as provisioned
\* accepts its password, at the login and for updates (setTelnetPassword).
THEOREM CredentialsAlwaysAgree == Spec => []CredentialsAgree
<1>1. Inv => CredentialsAgree
  BY TelnetKeysFirst
  DEF Inv, SupervisorInv, ProvisioningTypeOK, Sound, InOrder, Salt, Hash, Ota,
      HasTelnetPassword, CredentialsAgree
<1>2. QED
  BY <1>1, Invariance, PTL

\* Settings are saved as a whole or not at all, but for a loss of power in the
\* middle (processNetwork).
THEOREM SettingsAlwaysWhole == Spec => []SettingsWhole
<1>1. Inv => SettingsWhole
  BY DEF Inv, SupervisorInv, Sound, SetupMode, Whole, Hash, SettingsWhole
<1>2. QED
  BY <1>1, Invariance, PTL

\* A bridge without a portal has a network to join (processNetwork,
\* processFactoryResetButton).
THEOREM ProvisionedAlwaysConnects == Spec => []ProvisionedCanConnect
<1>1. Inv => ProvisionedCanConnect
  BY DEF Inv, SupervisorInv, Sound, SetupMode, Joins, ProvisionedCanConnect
<1>2. QED
  BY <1>1, Invariance, PTL
=============================================================================
