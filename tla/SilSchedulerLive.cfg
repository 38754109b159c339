SPECIFICATION DisciplinedSpec
CONSTANTS
  t1 = t1
  t2 = t2
  e1 = e1
  e2 = e2
  b1 = b1
  b2 = b2
  Threads = {t1, t2}
  Events = {e1, e2}
  Bits = {b1, b2}
  None = None
  ThreadPrio <- DistinctPrio
  EventPrio <- OneEventPrio
  Pos <- EventsPos
  EventBits <- OneBitEvent
  Waits <- AnyClearing
  Masks <- NoMasks
  MaxTime = 3
  MaxWakeups = 4
ACTION_CONSTRAINT Disciplined
PROPERTIES EventsRunOnTime RunsTerminate ShutdownStopsTasks
