SPECIFICATION Spec
CONSTANTS
  t1 = t1 t2 = t2 t3 = t3
  Tasks = {t1, t2}
  Counts <- TwoTasks
  Pagination = 40
  SendFaults = FALSE
INVARIANTS NoncesAreDistinct
