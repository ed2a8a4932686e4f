\* One runner at a time, two sources: every property of a single process; failures stop after MaxFailures.
SPECIFICATION FairSpec
CONSTANTS
  Runner = {r1}
  naver = naver
  Source = {naver, ir}
  StrictSource = {naver}
  Enabled = {naver, ir}
  Company = {c1}
  Until <- MCUntil
  WindowDays <- MCWindowDays
  WindowsPerRun <- MCWindowsPerRun
  InitialDate <- MCInitialDate
  Override = {3}
  Mode = "preprocess"
  NoRow = NoRow
  MaxFailures = 1
  MaxCrashes = 1
  MaxRuns = 6
INVARIANTS
  TypeOK
  CursorInRange
  RunningRunsAccounted
  RunToEndSuffices
PROPERTIES
  BackfillCompletes
CHECK_DEADLOCK FALSE
