SPECIFICATION Spec
CONSTANTS
  AutoHide = 75
  AutoRemove = 90
  c1 = c1
  c2 = c2
  w1 = w1
  w2 = w2
  s1 = s1
  s2 = s2
  r1 = r1
  r2 = r2
  r3 = r3
  r4 = r4
  Content = {c1, c2}
  Workers = {w1}
  Staff = {}
  Reporters = {r1, r2, r3, r4}
  Mode = "full"
  Verdicts <- OnlyHide
  HasApiKey = FALSE
  StaffAuthored = {}
  Nooks = {}
  NookMessages = {}
  ShortContent = {c2}
  Flaggable = {c1}
  Referral = {}
  MaxPerType = 2
  LookbackSweeps = 1
  MaxFaults = 0
  MaxCrashes = 1
  MaxStalls = 0
  MaxPurges = 1
INVARIANT FlagThresholdHides
CONSTRAINT OneItem
SYMMETRY FlagSymmetry
CHECK_DEADLOCK FALSE
