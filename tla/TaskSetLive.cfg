SPECIFICATION FairSpec
CONSTANTS
  Task = {t1, t2}
  Manager = {m1, m2}
INVARIANT AbortedNeverRuns
PROPERTIES
  BlockedIsLifted
  EveryCommandEnds
