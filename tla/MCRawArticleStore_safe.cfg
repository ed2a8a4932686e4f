SPECIFICATION FairSpec
CONSTANTS
  a = a
  b = b
  c = c
  Writer = {w1, w2}
  Url = {a, b, c}
  Invalid = {c}
  Updated = {b}
  Found <- Overlapping
  Sources = 2
  DedupSize = 2
  Schema = {FALSE, TRUE}
  NoRow = NoRow
  MaxFailures = 1
  MaxCrashes = 1
INVARIANTS TypeOK OneInserter NothingVanishes CountAccounted
PROPERTIES ImplementsLedger WritersReturn
CHECK_DEADLOCK FALSE
