SPECIFICATION Spec
CONSTANTS
  t1 = t1
  t2 = t2
  e1 = e1
  e2 = e2
  b1 = b1
  b2 = b2
  Threads = {t1, t2}
  Events = {e1}
  Bits = {b1, b2}
  None = None
  ThreadPrio <- DistinctPrio
  EventPrio <- OneEventPrio
  Pos <- EventsPos
  EventBits <- OneBitEvent
  Waits <- AnyClearing
  Masks <- OneBitMask
  MaxTime = 2
  MaxWakeups = 2
PROPERTY SyncPreemption
