SPECIFICATION Spec
CONSTANTS
  Tasks = {t1, t2}
  Kinds = {"central_heating", "hot_water"}
  OverrideHours = 1
  Schedules = {1, 3}
  DayCount = 2
  Temps = {2, 9}
  MinTemp = 1
  MaxTemp = 5
  Moments = {1, 2}
  HoursPerDay = 2
  MaxNow = 2
  MaxCalls = 2
  MaxCorruptions = 1
CHECK_DEADLOCK FALSE
SYMMETRY Symmetry
INVARIANTS TypeOK OkMeansDone SetpointReadsBack
PROPERTIES ArmsItsOwnSetpoint RepairSparesReadableDays
