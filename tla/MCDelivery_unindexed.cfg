\* One cluster and one document, no error, no dead track.
CONSTANTS
  a1 = a1  a2 = a2  a3 = a3  d1 = d1
  c1 = c1  c2 = c2  doc = doc
  Target = {c1, c2, doc}
  Self = {c2}
  SharedRow = shared
  NoTarget = none
  MaxFailures = 0
  Article = {a1, a2, a3, d1}
  Feed <- MCFeed
  TargetOf <- MCTargetOf
  Cluster = {c1, c2}
  MaxWorkers = 2
  Limit = 2
  MaxStops = 0
  MaxTracks = 1
SPECIFICATION Spec
INVARIANT DeliveredIndexed
CHECK_DEADLOCK FALSE
