\* A cluster that both sources report, a cluster of the company itself and a
\* document; two threads, two rows per load, two errors, one dead track.
CONSTANTS
  a1 = a1  a2 = a2  a3 = a3  d1 = d1
  c1 = c1  c2 = c2  doc = doc
  Target = {c1, c2, doc}
  Self = {c2}
  SharedRow = shared
  NoTarget = none
  MaxFailures = 2
  Article = {a1, a2, a3, d1}
  Feed <- MCFeed
  TargetOf <- MCTargetOf
  Cluster = {c1, c2}
  MaxWorkers = 2
  Limit = 2
  MaxStops = 1
  MaxTracks = 1
SPECIFICATION Spec
INVARIANTS TypeOK PassIsEarned ErrorsTellFailures RowsOwned NothingForgotten ListedStored StoredListed
PROPERTIES RowsNeverOlder TrackEnds
CHECK_DEADLOCK FALSE
