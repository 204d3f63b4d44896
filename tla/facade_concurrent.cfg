SPECIFICATION FairSpec
CONSTANTS
  Tasks = {t1, t2}
  NoTask = NoTask
  NoBundle = NoBundle
  ReadingNames = {"sensors"}
  SettingNames = {"settings"}
  CachedNames = {"config"}
  KnownLayouts = {"none", "base"}
  KnownGenerations = {"none"}
  MaxWrites = 1
INVARIANTS
  TypeOK
  SetupExclusive
  LatchedWasRead
  ReportAccounts
PROPERTIES
  BuiltOnce
  EveryCallReturns
