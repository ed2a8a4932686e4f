SPECIFICATION FairSpec
CONSTANTS
  Worker = {w1, w2}
  c1 = c1
  c2 = c2
  a1 = a1
  a2 = a2
  a3 = a3
  Article = {a1, a2}
  Card = {c1, c2}
  NoCard = NoCard
  CreatedAt <- Age
  Mentions <- About
  LinkTable = FALSE
  Failing = {w1, w2}
INVARIANTS
  TypeOK
  NewestComplete
  OlderKept
PROPERTY
  ArticlesReachCard
