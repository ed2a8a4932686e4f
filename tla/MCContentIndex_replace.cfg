\* Two indexers, a card of two kinds and an article; two saves, one script,
\* one failure; texts of two chunks and batches of three.
CONSTANTS
  card = card  article = article
  result = result  direction = direction  body = body
  Indexer = {w1, w2}
  Row = {card, article}
  Key = {result, direction, body}
  RowOf <- MCRowOf
  Optional = {direction}
  Parts = 2
  BatchSize = 3
  MaxSaves = 2
  MaxFailures = 1
  MaxScripts = 1
SYMMETRY Symmetry
SPECIFICATION Spec
INVARIANTS TypeOK SomeTextWhole LatestAlone
CHECK_DEADLOCK FALSE
