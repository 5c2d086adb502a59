SPECIFICATION Spec
CONSTANTS
  AutoHide = 75
  AutoRemove = 90
  c1 = c1
  c2 = c2
  w1 = w1
  w2 = w2
  s1 = s1
  s2 = s2
  r1 = r1
  r2 = r2
  r3 = r3
  r4 = r4
  Content = {c1}
  Workers = {w1}
  Staff = {s1}
  Reporters = {r1}
  Mode = "full"
  Verdicts <- OnlyHide
  HasApiKey = TRUE
  StaffAuthored = {}
  Nooks = {}
  NookMessages = {}
  ShortContent = {}
  Flaggable = {c1}
  Referral = {}
  MaxPerType = 2
  LookbackSweeps = 1
  MaxFaults = 1
  MaxCrashes = 1
  MaxStalls = 0
  MaxPurges = 0
INVARIANTS
  TypeOK
  HiddenHasGrounds
CHECK_DEADLOCK FALSE
