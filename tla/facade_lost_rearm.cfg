SPECIFICATION Spec
CONSTANTS
  Tasks = {t1, t2}
  NoTask = NoTask
  NoBundle = NoBundle
  ReadingNames = {"sensors"}
  SettingNames = {"settings"}
  CachedNames = {"config"}
  KnownLayouts = {"isystem"}
  KnownGenerations = {"gen4"}
  MaxWrites = 1
INVARIANTS
  RereadAfterWrite
