CONSTANTS
  d1 = d1
  l1 = l1
  l2 = l2
  t1 = t1
  t2 = t2
  Producers = {p1, p2}
  Drivers = {d1}
  Loads = {l1, l2}
  Terms = {t1, t2}
  NoTerms = NoTerms
  NoLoad = NoLoad
  NoPing = NoPing
  NoDriver = NoDriver
  MaxTime = 2
  Batches <- MCBatches
SPECIFICATION Spec
SYMMETRY ProducerSymmetry
INVARIANTS
  TenderXorCancel
  NewestWins
PROPERTIES
  ImplementsBook
