SPECIFICATION FairSpec
CONSTANTS
  k1 = k1
  k2 = k2
  ana = ana
  ben = ben
  Card = {k1, k2}
  Last4 <- MCLast4
  Person = {ana, ben}
  CardsOf <- MCCardsOf
  Pages = 2
  Id = {i1, i2, i3}
  None = None
INVARIANTS
  OneHistoryPerCard
  WholeHistories
PROPERTIES
  AuditIsTrue
  ExclusionsSurvive
  ShutdownEnds
