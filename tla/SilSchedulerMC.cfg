SPECIFICATION FairSpec
CONSTANTS
  t1 = t1
  t2 = t2
  e1 = e1
  e2 = e2
  b1 = b1
  b2 = b2
  Threads = {t1, t2}
  Events = {e1}
  Bits = {b1, b2}
  None = None
  ThreadPrio <- EqualPrio
  EventPrio <- OneEventPrio
  Pos <- SharedPos
  EventBits <- OneBitEvent
  Waits <- MixedWaits
  Masks <- OneOfTwo
  MaxTime = 3
  MaxWakeups = 3
INVARIANTS TypeOK NoMissedTimeout IdleQuiescent
PROPERTIES TimeAdvancesWhenDrained RunUntilContract NextTimePointContract BitsWakeOneWaiter DESpec ShutdownTerminates
