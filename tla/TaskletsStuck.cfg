SPECIFICATION FairSpec
CONSTANTS
  Thread = {t1}
  Tasklet = {x1, x2}
  NULL = NULL
  SOFTIRQ_MAX = 2
PROPERTY ScheduledRuns
