SPECIFICATION Spec
CONSTANTS
  AutoHide = 75
  AutoRemove = 90
  c1 = c1
  c2 = c2
  w1 = w1
  w2 = w2
  s1 = s1
  s2 = s2
  r1 = r1
  r2 = r2
  r3 = r3
  r4 = r4
  Content = {c1}
  Workers = {w1}
  Staff = {}
  Reporters = {}
  Mode = "full"
  Verdicts <- OnlyHide
  HasApiKey = TRUE
  StaffAuthored = {}
  Nooks = {}
  NookMessages = {}
  ShortContent = {}
  Flaggable = {c1}
  Referral = {}
  MaxPerType = 1
  LookbackSweeps = 2
  MaxFaults = 1
  MaxCrashes = 0
  MaxStalls = 0
  MaxPurges = 0
PROPERTY SweepReenqueues
CHECK_DEADLOCK FALSE
