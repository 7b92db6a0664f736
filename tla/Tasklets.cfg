SPECIFICATION FairSpec
CONSTANTS
  Thread = {t1, t2}
  Tasklet = {x1, x2}
  NULL = NULL
  SOFTIRQ_MAX = 2
INVARIANTS TypeOK NoStrandedBit TaskletLists IInv
PROPERTIES DispatcherLooks WalkEnds
