SPECIFICATION Spec
CONSTANTS
  Tasks = {host, other}
  Client = host
  None = None
  MaxTries = 2
  MaxFaults = 3
  Days = 2
  Installations <- MCInstallations
INVARIANTS
  TypeOK
  WritesAtMostOnce
PROPERTIES
  SetupIsComplete
  DetectionIsFounded
  RepairLeavesNoDamage
  Recovers
