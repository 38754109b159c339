SPECIFICATION RRSpec
CONSTANTS
  t1 = t1
  t2 = t2
  t3 = t3
  e1 = e1
  b1 = b1
  Threads = {t1, t2, t3}
  Events = {e1}
  Bits = {b1}
  None = None
  ThreadPrio <- EqualPrio
  EventPrio <- OneEventPrio
  Pos <- SharedPos
  EventBits <- OneBitEvent
  Waits <- KeepingWaits
  Masks <- OneBitMask
  MaxTime = 1
  MaxWakeups = 1
INVARIANT BoundedBypass
