CONSTANTS
  Grades = {3}
  Targets = {"th_RDWR", "th_run2"}
  MaxHandlers = 1
SPECIFICATION FairSpec
INVARIANTS TypeOK LogLinesWhole LogReady OneLateReport TimerStaysShut
PROPERTIES QuitEndsReports
CHECK_DEADLOCK FALSE
