SPECIFICATION FairSpec
CONSTANTS
  Tasks = {t1, t2}
  Pollers = {p1}
  NoTask = NoTask
  NoCall = NoCall
  Registers = {17, 26}
  HotWaterRegisters <- BaseHotWater
  FoundWords <- MCFoundWords
  HeatingModes <- MCHeatingModes
  HotWaterModes <- MCHotWaterModes
  NudgesPanel = TRUE
  MaxCalls = 2
INVARIANTS
  TypeOK
  MutualExclusion
  WordIsCurrent
PROPERTIES
  ImplementsModeRegisters
  OkMeansDone
  EveryCallReturns
  StalenessHeals
