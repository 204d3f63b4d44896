SPECIFICATION ComponentsSpec
CONSTANTS
  SlotsPerRegister = 2
  RegistersPerDay = 3
  MaxPeriods = 2
  HoursInDay = 8
  MinutesPerStep = 2
  StepsPerHour = 2
  MaxSlots = 5
  HeatDuration = 3
  MaxYield = 1
  MaxListed = 2
  UsableHours = { {0,1,2,3,4,5,6,7}, {2,3,4,5,6}, {2,3,4,5} }
  Fields <- ComponentFields
  Requests <- MCRequests
  FirstWords <- MCFirstWords
  Absent = Absent
INVARIANTS TypeOK WordsSurvive PeriodsSurvive WrittenReadsBack ProgramTypeOK WrittenIsRead GeneratedHeats
CHECK_DEADLOCK FALSE
