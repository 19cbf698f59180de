SPECIFICATION FairSpec
CONSTANTS
  t1 = t1 t2 = t2 t3 = t3
  Tasks = {t1, t2, t3}
  Counts <- ThreeTasks
  Pagination = 2
  SendFaults = TRUE
INVARIANTS PagesInOrder
PROPERTIES EveryPublicationEnds KeepsItsPromise
