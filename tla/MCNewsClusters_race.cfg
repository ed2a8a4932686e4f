SPECIFICATION Spec
CONSTANTS
  Worker = {w1, w2}
  News = {1, 2, 3}
  Document = {}
  NoCluster = 0
  Similar <- Chain
  SameEvent <- Chain
  Matching <- Chain
  SharesCompany <- Companies
  Keyless = {}
  Published <- Dates
  Undated = {}
  GapBefore = 20
  GapAfter = 20
  CandidateLimit = 3
  Verdict <- AllRelevant
  Passes = {}
  Mortal = {}
  FastPath = {TRUE}
  MaxAborts = 0
INVARIANT ClustersAnchored
CHECK_DEADLOCK FALSE
