SPECIFICATION FairSpec
CONSTANTS
  Threads = {t1, t2, t3, t4}
  Control = Control
  None = None
INVARIANTS TypeOK ScanIsExclusive OnlyPickedTaskRuns BracketsAreComplete
PROPERTIES HandOverCompletes StartCompletes
