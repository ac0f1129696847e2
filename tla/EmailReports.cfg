SPECIFICATION Spec
CONSTANTS
  Windows = 2
  Slots = 3
  Schedules <- MCSchedules
  Default <- MCDefault
  Emails = {e1}
  MaxEdits = 1
  MaxOutages = 1
  MaxRestarts = 1
INVARIANTS OneReportADay LogIsHonest
PROPERTIES SavedSchedulesTakeEffect ReportsEnd
