SPECIFICATION FairSpec
CONSTANTS
  i1 = i1
  i2 = i2
  t1 = t1
  t2 = t2
  s1 = s1
  s2 = s2
  e1 = e1
  e2 = e2
  None = None
  Isrs = {i1}
  Tasks = {t1, t2}
  Level <- OneLevel
  Enqueuers = {i1}
  States = {s1, s2}
  Initial = s1
  Events = {e1, e2}
  JumpTable <- Table
PROPERTY EnqueuedIsTaken
