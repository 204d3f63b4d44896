SPECIFICATION Spec
CONSTANTS
  Tasks = {t1, t2}
  NoTask = NoTask
  Day = 2
  Dates = {0, 1}
  MaxCalls = 3
  MaxTicks = 3
INVARIANTS
  TypeOK
  CalendarConsistent
PROPERTIES
  OkSetsClock
