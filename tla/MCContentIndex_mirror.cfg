\* One indexer, one card, no failure, and no script.
CONSTANTS
  card = card  article = article
  result = result  direction = direction  body = body
  Indexer = {w1}
  Row = {card}
  Key = {result, direction}
  RowOf <- MCCardOf
  Optional = {direction}
  Parts = 1
  BatchSize = 8
  MaxSaves = 2
  MaxFailures = 0
  MaxScripts = 0
SPECIFICATION Spec
INVARIANT Mirrors
CHECK_DEADLOCK FALSE
