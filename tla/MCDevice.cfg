SPECIFICATION Spec
CONSTANTS
  Keys <- MCKeys
  Password <- MCPassword
  ListenOn <- MCListenOn
  ListenOff <- MCListenOff
  Monitor <- MCMonitor
  MqttKeys <- MCMqttKeys
  MaxLine = 2
  MaxQueued = 1
  MaxAttempts = 2
  MaxSessions = 2
  MaxWrong = 2
  MaxSubmits = 2
  MaxFaults = 1
  MaxRestarts = 1
INVARIANTS
  TypeOK
  LineAsTyped
  QueueBelongs
  CredentialsAgree
  SettingsWhole
  ProvisionedCanConnect
PROPERTIES
  SentAwayForCause
