\* Two runners race on the same strict source, from different initial dates.
SPECIFICATION Spec
CONSTANTS
  Runner = {r1, r2}
  naver = naver
  Source = {naver}
  StrictSource = {naver}
  Enabled = {naver}
  Company = {c1}
  Until <- MCUntil
  WindowDays <- MCWindowDays
  WindowsPerRun <- MCWindowsPerRun
  InitialDate = {3, 4}
  Override = {1}
  Mode = "preprocess"
  NoRow = NoRow
  MaxFailures = 1
  MaxCrashes = 1
  MaxRuns = 4
SYMMETRY Symmetry
INVARIANTS
  CursorCovered
PROPERTIES
  ImplementsCoverage
CHECK_DEADLOCK FALSE
