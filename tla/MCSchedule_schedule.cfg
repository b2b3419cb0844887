SPECIFICATION Spec
CONSTANTS
  MinInterval = 300
  DefaultInterval = 900
  MaxInterval = 7200
  QuietPollsPerDouble = 6
  MaxBackoff = 21600
  GoneAfterFailures = 5
  ColumnDefault = 900
  Day = 86400
  Channels <- SomeChannels
  RetryHeaders <- SomeHeaders
  Jitters = {90, 97, 109}
  MaxQuiet = 32
  MaxFails = 9
INVARIANTS
  TypeOK
  HealthyWait
  FailedWait
