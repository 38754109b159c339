SPECIFICATION Spec
CONSTANTS
  Threads = {t1, t2}
  Control = Control
  None = None
INVARIANT OneTaskAtATime
