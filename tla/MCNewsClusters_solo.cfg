SPECIFICATION FairSpec
CONSTANTS
  Worker = {w1}
  News = {1, 2, 3, 4, 5}
  Document = {6, 7}
  NoCluster = 0
  Similar <- Chain
  SameEvent <- ChainOfThree
  Matching <- LateFirst
  SharesCompany <- Companies
  Keyless = {4}
  Published <- Dates
  Undated = {3}
  GapBefore = 10
  GapAfter = 12
  CandidateLimit = 1
  Verdict <- Mixed
  Passes = {6}
  Mortal = {2}
  FastPath = {FALSE, TRUE}
  MaxAborts = 1
INVARIANTS TypeOK DecidedByVerdict ClustersAnchored RepsGraded OneRepPerCluster NoMixedEvent
PROPERTIES JoinsExisting AnchorKept AllDecided
CHECK_DEADLOCK FALSE
