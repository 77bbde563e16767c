\* A zone of whole hours and one of half an hour more.
CONSTANTS
  MinutesPerHour = 2
  HoursPerDay = 3
  DaysPerMonth = 3
  MonthsPerYear = 2
  DaysPerWeek = 2
  HorizonDays = 6
  Offsets <- TwoZones
  Fields <- SmallFields
  MaxAfter = 36
CHECK_DEADLOCK FALSE
SPECIFICATION FairCronSpec
INVARIANTS NextTimeExact
PROPERTIES ScanEnds
