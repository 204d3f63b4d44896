SPECIFICATION ProgramSpec
CONSTANTS
  HoursInDay = 8
  MinutesPerStep = 2
  StepsPerHour = 2
  MaxSlots = 5
  HeatDuration = 3
  MaxYield = 1
  MaxListed = 2
  UsableHours = { {0,1,2,3,4,5,6,7}, {2,3,4,5,6}, {2,3,4,5} }
INVARIANT CurrentHasStarted
CHECK_DEADLOCK FALSE
