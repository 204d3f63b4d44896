SPECIFICATION PollingSpec
CONSTANTS
  Tasks = {t1}
  NoTask = NoTask
  NoBundle = NoBundle
  ReadingNames = {"sensors"}
  SettingNames = {"settings"}
  CachedNames = {"config", "schedules.hot_water"}
  KnownLayouts = {"isystem"}
  KnownGenerations = {"gen4"}
  MaxWrites = 2
INVARIANTS
  RereadAfterWrite
  NoKeyError
PROPERTIES
  WritesAreReread
