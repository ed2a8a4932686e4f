SPECIFICATION Spec
CONSTANTS
  Worker = {w1}
  c1 = c1
  c2 = c2
  a1 = a1
  a2 = a2
  a3 = a3
  Article = {a1, a3}
  Card = {c1}
  NoCard = NoCard
  CreatedAt <- Age
  Mentions <- About
  LinkTable = TRUE
  Failing = {}
INVARIANT
  LinksInStep
